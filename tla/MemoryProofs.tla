---------------------------- MODULE MemoryProofs ----------------------------
(***************************************************************************)
(* Machine-checked proofs about the Rust memory map (MemoryMap) and about  *)
(* the boot of the Rust page allocator over it (Memory), for any memory,   *)
(* any calls and any input: the map is what the book says, and the kernel  *)
(* hands out every free page once and no other.                            *)
(***************************************************************************)
EXTENDS MemoryMap, Memory, ListLemmas

-----------------------------------------------------------------------------
(* Sequences of ranges, and what they hold.                                *)

MR(B, T, S) == [start : 0 .. B, end : 0 .. B, memtype : T, status : S]

(* In the order of their addresses, possibly with empty ones.              *)
Chain(s, B, T, S) ==
  /\ s \in Seq(MR(B, T, S))
  /\ \A i \in DOMAIN s : s[i].start <= s[i].end
  /\ \A i, j \in DOMAIN s : i < j => s[i].end <= s[j].start

NoneEmpty(s) == \A i \in DOMAIN s : s[i].start < s[i].end
NoneConcat(s) == \A i \in 1 .. Len(s) - 1 : ~ CanConcat(s[i], s[i + 1])

(* What every map is between two calls.                                    *)
Tidy(s, B, T, S) == Chain(s, B, T, S) /\ NoneEmpty(s) /\ NoneConcat(s)

Same(r, t, st) == r.memtype = t /\ r.status = st
In(r, u, t, st) == Same(r, t, st) /\ r.start <= u /\ u < r.end
Holds(s, u, t, st) == \E i \in DOMAIN s : In(s[i], u, t, st)

(* The fields of a range and their types.                                  *)
LEMMA RangeFacts ==
  ASSUME NEW B \in Nat, NEW T, NEW S, NEW r \in MR(B, T, S)
  PROVE  /\ r.start \in 0 .. B /\ r.end \in 0 .. B
         /\ r.start \in Nat /\ r.end \in Nat
         /\ r.memtype \in T /\ r.status \in S
BY DEF MR

(* The ranges of a map and their types.                                    *)
LEMMA SeqFacts ==
  ASSUME NEW B \in Nat, NEW T, NEW S, NEW s \in Seq(MR(B, T, S))
  PROVE  /\ Len(s) \in Nat /\ DOMAIN s = 1 .. Len(s)
         /\ \A i \in 1 .. Len(s) : s[i] \in MR(B, T, S) /\ s[i].start \in Nat /\ s[i].end \in Nat
BY RangeFacts

-----------------------------------------------------------------------------
(* Compact.                                                                *)

(* An empty range of c is joined with a neighbour that is not empty.       *)
Joins(c, i) ==
  \/ i + 1 \in DOMAIN c /\ CanConcat(c[i], c[i + 1]) /\ c[i + 1].start < c[i + 1].end
  \/ i - 1 \in DOMAIN c /\ CanConcat(c[i - 1], c[i])
Absorbed(c) == \A i \in DOMAIN c : c[i].start < c[i].end \/ Joins(c, i)

(* After i ranges of s the pass has kept what they hold, in order and with *)
(* no two neighbours that could be one; the range it wrote last, which     *)
(* ends where the i-th does, may be empty if the next one joins it.        *)
Passed(s, i, done, B, T, S) ==
  /\ Chain(done, B, T, S)
  /\ NoneConcat(done)
  /\ Len(done) <= i
  /\ i > 0 => /\ done # <<>>
              /\ Last(done).end = s[i].end
              /\ Same(Last(done), s[i].memtype, s[i].status)
              /\ \/ Last(done).start < Last(done).end
                 \/ i + 1 \in DOMAIN s /\ CanConcat(s[i], s[i + 1]) /\ s[i + 1].start < s[i + 1].end
  /\ \A j \in 1 .. Len(done) - 1 : done[j].start < done[j].end
  /\ \A u \in Nat : \A t, st : Holds(done, u, t, st) <=> \E j \in 1 .. i : In(s[j], u, t, st)

(* The last range of a chain is replaced by one that begins no earlier.    *)
LEMMA ChainReplace ==
  ASSUME NEW B \in Nat, NEW T, NEW S, NEW s, Chain(s, B, T, S), s # <<>>,
         NEW r \in MR(B, T, S), Last(s).start <= r.start, r.start <= r.end,
         NEW new \in Seq(MR(B, T, S)), Len(new) = Len(s), new[Len(s)] = r,
         \A j \in 1 .. Len(s) - 1 : new[j] = s[j]
  PROVE  Chain(new, B, T, S) /\ new # <<>> /\ Last(new) = r
<1>. PICK n : n = Len(s)
  OBVIOUS
<1>0. n \in Nat \ {0}
  BY EmptySeq DEF Chain
<1>1. /\ s \in Seq(MR(B, T, S)) /\ DOMAIN s = 1 .. n
      /\ \A i \in 1 .. n : s[i] \in MR(B, T, S) /\ s[i].start \in Nat /\ s[i].end \in Nat
  BY SeqFacts DEF Chain
<1>2. /\ new \in Seq(MR(B, T, S)) /\ Len(new) = n /\ DOMAIN new = 1 .. n
      /\ new[n] = r
      /\ \A j \in 1 .. n - 1 : new[j] = s[j]
  OBVIOUS
<1>3. /\ \A i \in 1 .. n : s[i].start <= s[i].end
      /\ \A i, j \in 1 .. n : i < j => s[i].end <= s[j].start
  BY <1>1 DEF Chain
<1>4. s[n].start <= r.start
  BY DEF Last
<1>5. \A i \in 1 .. n : i = n \/ i \in 1 .. n - 1
  BY <1>0
<1>6. \A i \in 1 .. n : new[i].start <= new[i].end
  BY <1>2, <1>3, <1>5
<1>7. ASSUME NEW i \in 1 .. n, NEW j \in 1 .. n, i < j
      PROVE  new[i].end <= new[j].start
  <2>1. i \in 1 .. n - 1
    BY <1>0, <1>7
  <2>2. new[i] = s[i] /\ s[i].end <= s[j].start
    BY <1>2, <1>3, <1>7, <2>1
  <2>3. CASE j = n
    BY <1>1, <1>2, <1>4, <2>2, <2>3, RangeFacts
  <2>4. CASE j # n
    BY <1>2, <1>5, <2>2, <2>4
  <2>. QED
    BY <2>3, <2>4
<1>8. Chain(new, B, T, S)
  BY <1>2, <1>6, <1>7 DEF Chain
<1>9. new # <<>> /\ Last(new) = r
  BY <1>0, <1>2, EmptySeq DEF Last
<1>. QED
  BY <1>2, <1>8, <1>9

(* A range that begins at or above the last one's end may be appended.     *)
LEMMA ChainAppend ==
  ASSUME NEW B \in Nat, NEW T, NEW S, NEW s, Chain(s, B, T, S),
         NEW r \in MR(B, T, S), r.start <= r.end,
         s # <<>> => Last(s).end <= r.start,
         NEW new \in Seq(MR(B, T, S)), Len(new) = Len(s) + 1, new[Len(s) + 1] = r,
         \A j \in 1 .. Len(s) : new[j] = s[j]
  PROVE  Chain(new, B, T, S) /\ new # <<>> /\ Last(new) = r
<1>. PICK n : n = Len(s)
  OBVIOUS
<1>0. n \in Nat
  BY DEF Chain
<1>1. /\ s \in Seq(MR(B, T, S)) /\ DOMAIN s = 1 .. n
      /\ \A i \in 1 .. n : s[i] \in MR(B, T, S) /\ s[i].start \in Nat /\ s[i].end \in Nat
  BY SeqFacts DEF Chain
<1>2. /\ new \in Seq(MR(B, T, S)) /\ Len(new) = n + 1 /\ DOMAIN new = 1 .. n + 1
      /\ new[n + 1] = r /\ new # <<>>
      /\ \A j \in 1 .. n : new[j] = s[j]
  BY <1>0
<1>3. /\ \A i \in 1 .. n : s[i].start <= s[i].end
      /\ \A i, j \in 1 .. n : i < j => s[i].end <= s[j].start
  BY <1>1 DEF Chain
<1>4. \A i \in 1 .. n : s[i].end <= r.start
  <2>1. SUFFICES ASSUME NEW i \in 1 .. n PROVE s[i].end <= r.start
    OBVIOUS
  <2>2. n # 0 /\ n \in 1 .. n
    BY <1>0
  <2>3. s[n].end <= r.start
    BY <2>2 DEF Last
  <2>4. CASE i = n
    BY <2>3, <2>4
  <2>5. CASE i # n
    <3>1. i < n
      BY <1>0, <2>5
    <3>2. s[i].end <= s[n].start /\ s[n].start <= s[n].end
      BY <1>3, <2>2, <3>1
    <3>. QED
      BY <1>1, <2>2, <2>3, <3>2, RangeFacts
  <2>. QED
    BY <2>4, <2>5
<1>5. \A i \in 1 .. n + 1 : i = n + 1 \/ i \in 1 .. n
  BY <1>0
<1>6. \A i \in 1 .. n + 1 : new[i].start <= new[i].end
  BY <1>2, <1>3, <1>5
<1>7. ASSUME NEW i \in 1 .. n + 1, NEW j \in 1 .. n + 1, i < j
      PROVE  new[i].end <= new[j].start
  <2>1. i \in 1 .. n
    BY <1>0, <1>7
  <2>2. CASE j = n + 1
    BY <1>2, <1>4, <2>1, <2>2
  <2>3. CASE j # n + 1
    BY <1>2, <1>3, <1>5, <1>7, <2>1, <2>3
  <2>. QED
    BY <2>2, <2>3
<1>8. Chain(new, B, T, S)
  BY <1>2, <1>6, <1>7 DEF Chain
<1>9. Last(new) = r
  BY <1>2 DEF Last
<1>. QED
  BY <1>2, <1>8, <1>9

(* What a map holds, its last range told apart.                            *)
LEMMA HoldsLast ==
  ASSUME NEW M, NEW s \in Seq(M), s # <<>>
  PROVE  \A u, t, st : Holds(s, u, t, st) <=> \/ \E j \in 1 .. Len(s) - 1 : In(s[j], u, t, st)
                                             \/ In(Last(s), u, t, st)
<1>. PICK n : n = Len(s)
  OBVIOUS
<1>1. n \in Nat \ {0} /\ DOMAIN s = 1 .. n /\ Last(s) = s[n]
  BY EmptySeq DEF Last
<1>2. \A j : j \in 1 .. n <=> j \in 1 .. n - 1 \/ j = n
  BY <1>1
<1>. QED
  BY <1>1, <1>2 DEF Holds
(* A step of compact keeps what the ranges say of each address.            *)
LEMMA CompactStep ==
  ASSUME NEW B \in Nat, NEW T, NEW S, NEW s, Chain(s, B, T, S), Absorbed(s),
         NEW i \in 1 .. Len(s), NEW done, Passed(s, i - 1, done, B, T, S)
  PROVE  Passed(s, i, CompactOne(done, s[i]), B, T, S)
<1>. DEFINE new == CompactOne(done, s[i])
<1>. HIDE DEF new
<1>. PICK n : n = Len(done)
  OBVIOUS
<1>. PICK r : r = s[i]
  OBVIOUS
<1>. PICK last : last = Last(done)
  OBVIOUS
<1>. DEFINE Next1 == i + 1 \in DOMAIN s /\ CanConcat(r, s[i + 1]) /\ s[i + 1].start < s[i + 1].end
<1>0. i \in Nat \ {0} /\ Len(s) \in Nat /\ s \in Seq(MR(B, T, S)) /\ i - 1 \in Nat
      /\ DOMAIN s = 1 .. Len(s)
  BY DEF Chain
<1>1. Chain(done, B, T, S) /\ done \in Seq(MR(B, T, S)) /\ n \in Nat /\ n <= i - 1
      /\ DOMAIN done = 1 .. n
  BY DEF Passed, Chain
<1>2. r \in MR(B, T, S) /\ r.start <= r.end /\ r.start \in Nat /\ r.end \in Nat
  BY <1>0, RangeFacts DEF Chain
<1>3. done = <<>> => i = 1
  BY <1>0 DEF Passed
<1>4. ASSUME done # <<>>
      PROVE  /\ n \in Nat \ {0} /\ last = done[n] /\ last \in MR(B, T, S) /\ last.start <= last.end
             /\ last.end <= r.start /\ last.start \in Nat /\ last.end \in Nat
             /\ i - 1 \in 1 .. Len(s) /\ last.end = s[i - 1].end
             /\ Same(last, s[i - 1].memtype, s[i - 1].status)
             /\ last.start < last.end \/ (CanConcat(s[i - 1], r) /\ r.start < r.end)
  <2>1. n \in Nat \ {0} /\ last = done[n] /\ n \in 1 .. n
    BY <1>1, <1>4, EmptySeq DEF Last
  <2>2. last \in MR(B, T, S) /\ last.start <= last.end
    BY <1>1, <2>1 DEF Chain
  <2>3. i - 1 \in 1 .. Len(s) /\ i - 1 > 0 /\ i - 1 < i /\ (i - 1) + 1 = i
    BY <1>0, <1>1, <2>1
  <2>4. /\ last.end = s[i - 1].end
        /\ Same(last, s[i - 1].memtype, s[i - 1].status)
        /\ last.start < last.end \/ (CanConcat(s[i - 1], r) /\ r.start < r.end)
    BY <2>3 DEF Passed
  <2>5. s[i - 1].end <= s[i].start
    BY <1>0, <2>3 DEF Chain
  <2>. QED
    BY <2>1, <2>2, <2>3, <2>4, <2>5, RangeFacts
<1>5. \A u \in Nat : \A t, st :
        (\E j \in 1 .. i : In(s[j], u, t, st)) <=> Holds(done, u, t, st) \/ In(r, u, t, st)
  <2>1. \A j : j \in 1 .. i <=> j \in 1 .. i - 1 \/ j = i
    BY <1>0
  <2>. QED
    BY <2>1 DEF Passed
<1>6. \A j \in 1 .. n - 1 : done[j].start < done[j].end
  BY DEF Passed
<1>7. NoneConcat(done)
  BY DEF Passed
<1>8. ASSUME done # <<>> PROVE CanConcat(last, r) <=> CanConcat(s[i - 1], r)
  BY <1>4, <1>8 DEF CanConcat, Same
<1>9. r.start < r.end \/ Next1 \/ (i - 1 \in DOMAIN s /\ CanConcat(s[i - 1], r))
  BY <1>0 DEF Absorbed, Joins
<1>10. CASE done = <<>>
  <2>1. new = Append(done, r)
    BY <1>10 DEF CompactOne, new
  <2>2. n = 0 /\ i = 1 /\ \A u, t, st : ~ Holds(done, u, t, st)
    BY <1>3, <1>10 DEF Holds
  <2>3. Chain(new, B, T, S) /\ Len(new) = 1 /\ new # <<>> /\ Last(new) = r
    <3>1. /\ new \in Seq(MR(B, T, S)) /\ Len(new) = Len(done) + 1 /\ new[Len(done) + 1] = r
          /\ \A j \in 1 .. Len(done) : new[j] = done[j]
      BY <1>1, <1>2, <2>1, AppendProperties
    <3>a. done # <<>> => Last(done).end <= r.start
      BY <1>10
    <3>2. Chain(new, B, T, S) /\ new # <<>> /\ Last(new) = r
      BY <1>1, <1>2, <3>a, <3>1, ChainAppend
    <3>3. Len(done) = 0 /\ 0 + 1 = 1
      BY <2>2
    <3>. QED
      BY <3>1, <3>2, <3>3, Zenon
  <2>4. new \in Seq(MR(B, T, S)) /\ DOMAIN new = 1 .. 1 /\ new[1] = r
    BY <2>3 DEF Chain, Last
  <2>5. \A u \in Nat : \A t, st : Holds(new, u, t, st) <=> In(r, u, t, st)
    BY <2>4 DEF Holds
  <2>6. NoneConcat(new) /\ \A j \in 1 .. Len(new) - 1 : new[j].start < new[j].end
    BY <2>3 DEF NoneConcat
  <2>7. r.start < r.end \/ Next1
    BY <1>0, <1>9, <2>2
  <2>8. Last(new).end = r.end /\ Same(Last(new), r.memtype, r.status)
    BY <2>3 DEF Same
  <2>9. Passed(s, i, new, B, T, S)
    BY <1>5, <2>2, <2>3, <2>5, <2>6, <2>7, <2>8 DEF Passed
  <2>. QED
    BY <2>9 DEF new
<1>11. CASE done # <<>> /\ CanConcat(last, r)
  <2>0. PICK both : both = [last EXCEPT !.end = r.end]
    OBVIOUS
  <2>1. /\ last.end = r.start /\ Same(last, r.memtype, r.status)
        /\ both \in MR(B, T, S) /\ both.start = last.start /\ both.end = r.end
        /\ both.memtype = last.memtype /\ both.status = last.status
        /\ both.start <= both.end /\ last.start <= both.start /\ both.start < both.end
    <3>1. last.end = r.start /\ Same(last, r.memtype, r.status)
      BY <1>11 DEF CanConcat, Same
    <3>2. /\ both \in MR(B, T, S) /\ both.start = last.start /\ both.end = r.end
          /\ both.memtype = last.memtype /\ both.status = last.status
      BY <1>2, <1>4, <1>11, <2>0 DEF MR
    <3>3. both.start < both.end
      BY <1>2, <1>4, <1>9, <1>11, <3>1, <3>2
    <3>. QED
      BY <1>4, <1>11, <3>1, <3>2, <3>3, RangeFacts
  <2>2. new = [done EXCEPT ![Len(done)] = both]
    BY <1>1, <1>4, <1>11, <2>0 DEF CompactOne, new
  <2>3. /\ Chain(new, B, T, S) /\ Len(new) = n /\ new # <<>> /\ Last(new) = both
        /\ \A j \in 1 .. n - 1 : new[j] = done[j]
    <3>1. Last(done).start <= both.start
      BY <2>1
    <3>2. /\ new \in Seq(MR(B, T, S)) /\ Len(new) = Len(done) /\ new[Len(done)] = both
          /\ \A j \in 1 .. Len(done) - 1 : new[j] = done[j]
      BY <1>1, <1>4, <1>11, <2>1, <2>2
    <3>. QED
      BY <1>1, <1>11, <2>1, <3>1, <3>2, ChainReplace
  <2>4. \A u \in Nat : \A t, st : Holds(new, u, t, st) <=> Holds(done, u, t, st) \/ In(r, u, t, st)
    <3>1. SUFFICES ASSUME NEW u \in Nat, NEW t, NEW st
                   PROVE  Holds(new, u, t, st) <=> Holds(done, u, t, st) \/ In(r, u, t, st)
      OBVIOUS
    <3>2. In(both, u, t, st) <=> In(last, u, t, st) \/ In(r, u, t, st)
      BY <1>2, <1>4, <1>11, <2>1 DEF In, Same
    <3>3. new \in Seq(MR(B, T, S))
      BY <2>3 DEF Chain
    <3>4. Holds(new, u, t, st) <=> (\E j \in 1 .. n - 1 : In(new[j], u, t, st)) \/ In(both, u, t, st)
      BY <2>3, <3>3, HoldsLast
    <3>5. Holds(done, u, t, st) <=> (\E j \in 1 .. n - 1 : In(done[j], u, t, st)) \/ In(last, u, t, st)
      BY <1>1, <1>11, HoldsLast
    <3>. QED
      BY <2>3, <3>2, <3>4, <3>5
  <2>5. NoneConcat(new)
    <3>1. new[n] = both
      BY <2>3 DEF Last, Chain
    <3>2. SUFFICES ASSUME NEW j \in 1 .. n - 1 PROVE ~ CanConcat(new[j], new[j + 1])
      BY <2>3 DEF NoneConcat
    <3>3. ~ CanConcat(done[j], done[j + 1])
      BY <1>7 DEF NoneConcat
    <3>4. j + 1 = n \/ j + 1 \in 1 .. n - 1
      BY <1>1
    <3>. QED
      BY <1>4, <1>11, <2>1, <2>3, <3>1, <3>3, <3>4 DEF CanConcat
  <2>6. n <= i /\ Last(new).end = r.end /\ Same(Last(new), r.memtype, r.status)
        /\ Last(new).start < Last(new).end
        /\ \A j \in 1 .. n - 1 : new[j].start < new[j].end
    BY <1>0, <1>1, <1>6, <2>1, <2>3 DEF Same
  <2>7. Passed(s, i, new, B, T, S)
    BY <1>5, <2>3, <2>4, <2>5, <2>6 DEF Passed
  <2>. QED
    BY <2>7 DEF new
<1>12. CASE done # <<>> /\ ~ CanConcat(last, r)
  <2>1. last.start < last.end /\ last.end <= r.start
    BY <1>4, <1>8, <1>12
  <2>2. new = Append(done, r)
    BY <1>12 DEF CompactOne, new
  <2>3. /\ Chain(new, B, T, S) /\ Len(new) = n + 1 /\ new # <<>> /\ Last(new) = r
        /\ \A j \in 1 .. n : new[j] = done[j]
    <3>1. /\ new \in Seq(MR(B, T, S)) /\ Len(new) = Len(done) + 1 /\ new[Len(done) + 1] = r
          /\ \A j \in 1 .. Len(done) : new[j] = done[j]
      BY <1>1, <1>2, <2>2, AppendProperties
    <3>2. Last(done).end <= r.start
      BY <2>1
    <3>. QED
      BY <1>1, <1>2, <1>12, <3>1, <3>2, ChainAppend
  <2>4. new \in Seq(MR(B, T, S)) /\ DOMAIN new = 1 .. n + 1 /\ new[n + 1] = r /\ Len(new) - 1 = n
    BY <1>1, <2>3 DEF Chain, Last
  <2>5. \A u \in Nat : \A t, st : Holds(new, u, t, st) <=> Holds(done, u, t, st) \/ In(r, u, t, st)
    BY <1>1, <2>3, <2>4, HoldsLast DEF Holds
  <2>6. \A j \in 1 .. n : new[j].start < new[j].end
    <3>1. \A j \in 1 .. n : j \in 1 .. n - 1 \/ j = n
      BY <1>1
    <3>. QED
      BY <1>4, <1>6, <1>12, <2>1, <2>3, <3>1
  <2>7. NoneConcat(new)
    <3>1. SUFFICES ASSUME NEW j \in 1 .. n PROVE ~ CanConcat(new[j], new[j + 1])
      BY <2>4 DEF NoneConcat
    <3>2. CASE j = n
      BY <1>4, <1>12, <2>3, <2>4, <3>2
    <3>3. CASE j # n
      <4>1. j \in 1 .. n - 1 /\ j + 1 \in 1 .. n
        BY <1>1, <3>3
      <4>. QED
        BY <1>7, <2>3, <3>1, <4>1 DEF NoneConcat
    <3>. QED
      BY <3>2, <3>3
  <2>8. n + 1 <= i /\ Last(new).end = r.end /\ Same(Last(new), r.memtype, r.status)
    BY <1>0, <1>1, <2>3 DEF Same
  <2>9. Last(new).start < Last(new).end \/ Next1
    BY <1>4, <1>8, <1>9, <1>12, <2>3
  <2>10. Passed(s, i, new, B, T, S)
    BY <1>5, <2>3, <2>4, <2>5, <2>6, <2>7, <2>8, <2>9 DEF Passed
  <2>. QED
    BY <2>10 DEF new
<1>. QED
  BY <1>10, <1>11, <1>12

(* The pass from its beginning to its end.                                 *)
LEMMA CompactPass ==
  ASSUME NEW B \in Nat, NEW T, NEW S, NEW s, Chain(s, B, T, S), Absorbed(s)
  PROVE  Passed(s, Len(s), Compact(s), B, T, S)
<1>. DEFINE n == Len(s)
            M == Seq(MR(B, T, S))
            Pass(f) == f = [i \in 0 .. n |-> IF i = 0 THEN {<<>>}
                                             ELSE {CompactOne(done, s[i]) : done \in f[i - 1]}]
            passed == CHOOSE f : Pass(f)
<1>1. s \in M /\ n \in Nat
  BY DEF Chain
<1>2. \E f : Pass(f)
  <2>. DEFINE step == [i \in 1 .. n |-> [D \in SUBSET M |-> {CompactOne(done, s[i]) : done \in D}]]
              D0 == {<<>>}
  <2>1. ASSUME NEW i \in 1 .. n, NEW d \in M PROVE CompactOne(d, s[i]) \in M
    <3>1. s[i] \in MR(B, T, S)
      BY <1>1
    <3>2. Append(d, s[i]) \in M
      BY <3>1
    <3>3. ASSUME d # <<>> PROVE [d EXCEPT ![Len(d)].end = s[i].end] \in M
      <4>1. Len(d) \in 1 .. Len(d) /\ DOMAIN d = 1 .. Len(d)
        BY <3>3, EmptySeq
      <4>2. d[Len(d)] \in MR(B, T, S)
        BY <4>1
      <4>3. [d[Len(d)] EXCEPT !.end = s[i].end] \in MR(B, T, S)
        BY <3>1, <4>2 DEF MR
      <4>. QED
        BY <4>1, <4>3
    <3>. QED
      BY <3>2, <3>3 DEF CompactOne
  <2>2. step \in [1 .. n -> [SUBSET M -> SUBSET M]] /\ D0 \in SUBSET M
    BY <2>1
  <2>3. PICK f : IsPass(f, n, SUBSET M, D0, step)
    <3>. HIDE DEF step, n, D0, M
    <3>. QED
      BY <1>1, <2>2, PassExists
  <2>4. f \in [0 .. n -> SUBSET M] /\ f[0] = D0 /\ \A i \in 1 .. n : f[i] = step[i][f[i - 1]]
    <3>. HIDE DEF step, D0, n, M
    <3>. QED
      BY <2>3, Zenon DEF IsPass
  <2>5. ASSUME NEW i \in 1 .. n PROVE f[i] = {CompactOne(done, s[i]) : done \in f[i - 1]}
    <3>1. i - 1 \in 0 .. n /\ f[i - 1] \in SUBSET M
      BY <1>1, <2>4
    <3>. QED
      BY <2>4, <3>1
  <2>6. \A i \in 0 .. n : i = 0 \/ i \in 1 .. n
    BY <1>1
  <2>7. Pass(f)
    <3>. HIDE DEF step, M
    <3>. QED
      BY <2>4, <2>5, <2>6
  <2>. QED
    BY <2>7
<1>3. Pass(passed)
  BY <1>2
<1>4. Compact(s) = CHOOSE done \in passed[n] : TRUE
  BY DEF Compact
<1>. HIDE DEF passed
<1>5. /\ passed[0] = {<<>>}
      /\ \A i \in 1 .. n : passed[i] = {CompactOne(done, s[i]) : done \in passed[i - 1]}
  <2>. DEFINE next(i) == IF i = 0 THEN {<<>>} ELSE {CompactOne(done, s[i]) : done \in passed[i - 1]}
  <2>1. passed = [i \in 0 .. n |-> next(i)]
    BY <1>3
  <2>2. 0 \in 0 .. n /\ \A i \in 1 .. n : i \in 0 .. n /\ i # 0
    BY <1>1
  <2>3. \A i \in 0 .. n : passed[i] = next(i)
    <3>. HIDE DEF next, n
    <3>. QED
      BY <2>1
  <2>. HIDE DEF n
  <2>4. passed[0] = {<<>>}
    BY <2>2, <2>3
  <2>5. ASSUME NEW i \in 1 .. n PROVE passed[i] = {CompactOne(done, s[i]) : done \in passed[i - 1]}
    <3>1. passed[i] = next(i) /\ i # 0
      BY <2>2, <2>3
    <3>. QED
      BY <3>1, Zenon
  <2>. QED
    BY <2>4, <2>5
<1>6. Passed(s, 0, <<>>, B, T, S)
  BY DEF Passed, Chain, Holds, NoneConcat
<1>. DEFINE Good(i) == \E d : passed[i] = {d} /\ Passed(s, i, d, B, T, S)
<1>7. \A i \in 0 .. n : Good(i)
  <2>. DEFINE Bad == {i \in 0 .. n : ~ Good(i)}
  <2>1. SUFFICES ASSUME Bad # {} PROVE FALSE
    OBVIOUS
  <2>2. PICK i \in Bad : \A j \in Bad : i <= j
    <3>1. Bad \in SUBSET Nat
      OBVIOUS
    <3>. HIDE DEF Bad
    <3>. QED
      BY <2>1, <3>1, LeastElement
  <2>3. Good(0)
    BY <1>5, <1>6
  <2>4. i \in 1 .. n /\ i - 1 \in 0 .. n /\ i - 1 \notin Bad
    <3>. HIDE DEF Good
    <3>. QED
      BY <1>1, <2>2, <2>3
  <2>5. PICK d : passed[i - 1] = {d} /\ Passed(s, i - 1, d, B, T, S)
    BY <2>4
  <2>6. Passed(s, i, CompactOne(d, s[i]), B, T, S)
    BY <2>4, <2>5, CompactStep
  <2>7. passed[i] = {CompactOne(d, s[i])}
    <3>1. passed[i] = {CompactOne(done, s[i]) : done \in passed[i - 1]}
      BY <1>5, <2>4
    <3>2. passed[i] = {CompactOne(done, s[i]) : done \in {d}}
      BY <2>5, <3>1
    <3>. QED
      BY <3>2
  <2>8. Good(i)
    BY <2>6, <2>7
  <2>. QED
    BY <2>2, <2>8
<1>8. PICK d : passed[n] = {d} /\ Passed(s, n, d, B, T, S)
  BY <1>1, <1>7
<1>. QED
  BY <1>4, <1>8

(* Compact keeps what the ranges hold, in order, with no empty range left  *)
(* and no two neighbours that could be one.                                *)
LEMMA CompactKeeps ==
  ASSUME NEW B \in Nat, NEW T, NEW S, NEW s, Chain(s, B, T, S), Absorbed(s)
  PROVE  /\ Tidy(Compact(s), B, T, S)
         /\ \A u \in Nat : \A t, st : Holds(Compact(s), u, t, st) <=> Holds(s, u, t, st)
<1>1. PICK all : all = Compact(s)
  OBVIOUS
<1>2. Passed(s, Len(s), all, B, T, S)
  BY <1>1, CompactPass
<1>3. /\ Len(s) \in Nat /\ DOMAIN s = 1 .. Len(s)
      /\ Chain(all, B, T, S) /\ NoneConcat(all) /\ all \in Seq(MR(B, T, S))
  BY <1>2 DEF Passed, Chain
<1>. PICK n : n = Len(all)
  OBVIOUS
<1>4. n \in Nat /\ DOMAIN all = 1 .. n /\ n <= Len(s)
  BY <1>2, <1>3 DEF Passed
<1>5. \A u \in Nat : \A t, st : Holds(all, u, t, st) <=> Holds(s, u, t, st)
  BY <1>2, <1>3 DEF Passed, Holds
<1>6. NoneEmpty(all)
  <2>1. SUFFICES ASSUME NEW j \in 1 .. n PROVE all[j].start < all[j].end
    BY <1>4 DEF NoneEmpty
  <2>2. j \in 1 .. n - 1 \/ j = n
    BY <1>4
  <2>3. Len(s) > 0 /\ Len(s) + 1 \notin DOMAIN s
    BY <1>3, <1>4
  <2>4. Last(all).start < Last(all).end
    BY <1>2, <2>3 DEF Passed
  <2>5. \A k \in 1 .. n - 1 : all[k].start < all[k].end
    BY <1>2 DEF Passed
  <2>. QED
    BY <2>2, <2>4, <2>5 DEF Last
<1>7. Tidy(all, B, T, S)
  BY <1>3, <1>6 DEF Tidy
<1>. QED
  BY <1>1, <1>5, <1>7
-----------------------------------------------------------------------------
(* The splice of add_memory.                                               *)

(* Two parts of a map, one above the other, put together.                  *)
LEMMA ConcatKeeps ==
  ASSUME NEW B \in Nat, NEW T, NEW S,
         NEW x, Chain(x, B, T, S), Absorbed(x), NEW y, Chain(y, B, T, S), Absorbed(y),
         \A i \in DOMAIN x, j \in DOMAIN y : x[i].end <= y[j].start
  PROVE  /\ Chain(x \o y, B, T, S)
         /\ Absorbed(x \o y)
         /\ \A i \in DOMAIN (x \o y) : \/ \E j \in DOMAIN x : (x \o y)[i] = x[j]
                                       \/ \E j \in DOMAIN y : (x \o y)[i] = y[j]
         /\ \A u, t, st : Holds(x \o y, u, t, st) <=> Holds(x, u, t, st) \/ Holds(y, u, t, st)
<1>a. PICK n, m, all : n = Len(x) /\ m = Len(y) /\ all = x \o y
  OBVIOUS
<1>1. /\ x \in Seq(MR(B, T, S)) /\ n \in Nat /\ DOMAIN x = 1 .. n
      /\ y \in Seq(MR(B, T, S)) /\ m \in Nat /\ DOMAIN y = 1 .. m
  BY <1>a DEF Chain
<1>2. /\ all \in Seq(MR(B, T, S)) /\ Len(all) = n + m /\ DOMAIN all = 1 .. n + m
      /\ \A i \in 1 .. n + m : all[i] = IF i <= n THEN x[i] ELSE y[i - n]
  BY <1>1, <1>a, ConcatProperties
<1>3. /\ \A i \in 1 .. n : i \in 1 .. n + m /\ all[i] = x[i]
      /\ \A j \in 1 .. m : n + j \in 1 .. n + m /\ all[n + j] = y[j]
  BY <1>1, <1>2
<1>4. ASSUME NEW i \in 1 .. n + m
      PROVE  \/ i \in 1 .. n
             \/ i > n /\ i - n \in 1 .. m /\ all[i] = y[i - n] /\ n + (i - n) = i
  BY <1>1, <1>2
<1>5. \A i \in 1 .. n + m : all[i].start <= all[i].end
  BY <1>1, <1>3, <1>4 DEF Chain
<1>6. ASSUME NEW i \in 1 .. n + m, NEW j \in 1 .. n + m, i < j
      PROVE  all[i].end <= all[j].start
  <2>1. CASE i \in 1 .. n /\ j \in 1 .. n
    BY <1>1, <1>3, <1>6, <2>1 DEF Chain
  <2>2. CASE i \in 1 .. n /\ j \notin 1 .. n
    BY <1>1, <1>3, <1>4, <2>2
  <2>3. CASE i \notin 1 .. n
    <3>1. j \notin 1 .. n
      BY <1>1, <1>6, <2>3
    <3>2. /\ i - n \in 1 .. m /\ all[i] = y[i - n]
          /\ j - n \in 1 .. m /\ all[j] = y[j - n] /\ i - n < j - n
      BY <1>1, <1>4, <1>6, <2>3, <3>1
    <3>. QED
      BY <1>1, <3>2 DEF Chain
  <2>. QED
    BY <2>1, <2>2, <2>3
<1>7. Chain(all, B, T, S)
  BY <1>2, <1>5, <1>6 DEF Chain
<1>8. Absorbed(all)
  <2>1. SUFFICES ASSUME NEW i \in 1 .. n + m, ~ (all[i].start < all[i].end) PROVE Joins(all, i)
    BY <1>2 DEF Absorbed
  <2>2. CASE i \in 1 .. n
    <3>1. Joins(x, i)
      BY <1>1, <1>3, <2>1, <2>2 DEF Absorbed
    <3>. QED
      BY <1>1, <1>2, <1>3, <2>2, <3>1 DEF Joins
  <2>3. CASE i \notin 1 .. n
    <3>a. PICK j : j = i - n
      OBVIOUS
    <3>0. j \in 1 .. m /\ all[i] = y[j] /\ n + j = i
      BY <1>4, <2>3, <3>a
    <3>1. Joins(y, j)
      BY <1>1, <2>1, <3>0 DEF Absorbed
    <3>2. n + (j + 1) = i + 1 /\ n + (j - 1) = i - 1
      BY <1>1, <3>0
    <3>3. /\ j + 1 \in 1 .. m => i + 1 \in 1 .. n + m /\ all[i + 1] = y[j + 1]
          /\ j - 1 \in 1 .. m => i - 1 \in 1 .. n + m /\ all[i - 1] = y[j - 1]
      BY <1>3, <3>2
    <3>. QED
      BY <1>1, <1>2, <3>0, <3>1, <3>3 DEF Joins
  <2>. QED
    BY <2>2, <2>3
<1>9. \A u, t, st : Holds(all, u, t, st) <=> Holds(x, u, t, st) \/ Holds(y, u, t, st)
  BY <1>1, <1>2, <1>3, <1>4 DEF Holds
<1>10. \A i \in DOMAIN all : \/ \E j \in DOMAIN x : all[i] = x[j]
                             \/ \E j \in DOMAIN y : all[i] = y[j]
  BY <1>1, <1>2, <1>3, <1>4
<1>. QED
  BY <1>7, <1>8, <1>9, <1>10, <1>a

(* part is what s has from i to j.                                         *)
IsPart(part, s, i, j, B, T, S) ==
  /\ Chain(part, B, T, S)
  /\ Absorbed(part)
  /\ \A k \in DOMAIN part : \E m \in i .. j : part[k] = s[m]
  /\ \A u, t, st : Holds(part, u, t, st) <=> \E k \in i .. j : In(s[k], u, t, st)

(* A part of a map.                                                        *)
LEMMA PartKeeps ==
  ASSUME NEW B \in Nat, NEW T, NEW S, NEW s, Chain(s, B, T, S), NoneEmpty(s),
         NEW i \in 1 .. Len(s) + 1, NEW j \in 0 .. Len(s), i <= j + 1
  PROVE  IsPart(SubSeq(s, i, j), s, i, j, B, T, S)
<1>a. PICK n, part : n = j - i + 1 /\ part = SubSeq(s, i, j)
  OBVIOUS
<1>1. s \in Seq(MR(B, T, S)) /\ DOMAIN s = 1 .. Len(s) /\ Len(s) \in Nat
  BY DEF Chain
<1>2. /\ n \in Nat /\ i .. j \subseteq 1 .. Len(s)
      /\ \A k \in 1 .. n : i + k - 1 \in i .. j
      /\ \A k \in i .. j : k - i + 1 \in 1 .. n /\ i + (k - i + 1) - 1 = k
  BY <1>1, <1>a
<1>3. /\ part \in Seq(MR(B, T, S)) /\ Len(part) = n /\ DOMAIN part = 1 .. n
      /\ \A k \in 1 .. n : part[k] = s[i + k - 1]
  <2>1. \A k \in i .. j : s[k] \in MR(B, T, S)
    BY <1>1, <1>2
  <2>2. Len(part) = n /\ \A k \in 1 .. n : part[k] = s[i + k - 1]
    BY <1>1, <1>2, <1>a, SubSeqProperties
  <2>3. part \in Seq(MR(B, T, S))
    BY <1>1, <1>a, SubSeqProperties
  <2>. QED
    BY <2>2, <2>3
<1>4. \A k \in i .. j : part[k - i + 1] = s[k]
  BY <1>2, <1>3
<1>5. /\ \A k \in 1 .. n : part[k].start < part[k].end /\ part[k].start <= part[k].end
      /\ \A k, m \in 1 .. n : k < m => part[k].end <= part[m].start
  <2>1. \A k \in i .. j : s[k].start < s[k].end /\ s[k].start <= s[k].end
    BY <1>1, <1>2 DEF NoneEmpty, Chain
  <2>2. ASSUME NEW k \in 1 .. n, NEW m \in 1 .. n, k < m PROVE part[k].end <= part[m].start
    <3>1. i + k - 1 \in 1 .. Len(s) /\ i + m - 1 \in 1 .. Len(s) /\ i + k - 1 < i + m - 1
      BY <1>2, <2>2
    <3>2. s[i + k - 1].end <= s[i + m - 1].start
      BY <1>1, <3>1 DEF Chain
    <3>. QED
      BY <1>3, <3>2
  <2>. QED
    BY <1>2, <1>3, <2>1, <2>2
<1>6. Chain(part, B, T, S) /\ Absorbed(part)
  BY <1>3, <1>5 DEF Chain, Absorbed
<1>7. \A u, t, st : Holds(part, u, t, st) <=> \E k \in i .. j : In(s[k], u, t, st)
  BY <1>2, <1>3, <1>4 DEF Holds
<1>8. \A k \in DOMAIN part : \E m \in i .. j : part[k] = s[m]
  BY <1>2, <1>3
<1>. QED
  BY <1>6, <1>7, <1>8, <1>a DEF IsPart

(* FirstOr returns the least index in a set, or the default if there is    *)
(* none.                                                                   *)
LEMMA FirstOrIs ==
  ASSUME NEW S \in SUBSET Nat, NEW default
  PROVE  /\ S = {} => FirstOr(S, default) = default
         /\ S # {} => FirstOr(S, default) \in S /\ \A j \in S : FirstOr(S, default) <= j
<1>1. S # {} => \E i \in S : \A j \in S : i <= j
  BY LeastElement
<1>. QED
  BY <1>1 DEF FirstOr

(* The least index of a set that holds every later one as well.            *)
LEMMA FirstIs ==
  ASSUME NEW n \in Nat, NEW S \in SUBSET (1 .. n),
         \A i \in S, j \in 1 .. n : i < j => j \in S
  PROVE  /\ FirstOr(S, n + 1) \in 1 .. n + 1
         /\ \A i \in 1 .. n : i < FirstOr(S, n + 1) <=> i \notin S
<1>a. PICK f : f = FirstOr(S, n + 1)
  OBVIOUS
<1>1. S \in SUBSET Nat
  OBVIOUS
<1>2. CASE S = {}
  <2>1. f = n + 1
    BY <1>a, <1>1, <1>2, FirstOrIs
  <2>. QED
    BY <1>a, <1>2, <2>1
<1>3. CASE S # {}
  <2>1. f \in S /\ \A j \in S : f <= j
    <3>1. FirstOr(S, n + 1) \in S /\ \A j \in S : FirstOr(S, n + 1) <= j
      BY <1>1, <1>3, FirstOrIs
    <3>. QED
      BY <1>a, <3>1, Zenon
  <2>2. f \in 1 .. n
    BY <2>1
  <2>3. ASSUME NEW i \in 1 .. n PROVE i < f <=> i \notin S
    <3>1. i \in S => f <= i
      BY <2>1
    <3>2. f = i \/ f > i \/ f < i
      BY <2>2
    <3>3. f < i => i \in S
      BY <2>1
    <3>. QED
      BY <2>1, <2>2, <3>1, <3>2, <3>3
  <2>4. f \in 1 .. n + 1
    BY <2>2
  <2>. QED
    BY <1>a, <2>3, <2>4
<1>. QED
  BY <1>2, <1>3

(* What add_memory and reserve_memory work on: a map and a range that is   *)
(* not empty.                                                              *)
Ready(s, mem, B, T, S) ==
  /\ Tidy(s, B, T, S)
  /\ mem \in MR(B, T, S)
  /\ mem.start < mem.end

(* The ranges of a map and their bounds.                                   *)
LEMMA ReadyFacts ==
  ASSUME NEW B \in Nat, NEW T, NEW S, NEW s, NEW mem, Ready(s, mem, B, T, S)
  PROVE  /\ s \in Seq(MR(B, T, S)) /\ Len(s) \in Nat /\ DOMAIN s = 1 .. Len(s)
         /\ \A i \in 1 .. Len(s) : /\ s[i] \in MR(B, T, S) /\ s[i].start < s[i].end
                                   /\ s[i].start \in Nat /\ s[i].end \in Nat
         /\ \A i, j \in 1 .. Len(s) : i < j => s[i].end <= s[j].start
         /\ mem \in MR(B, T, S) /\ mem.start \in Nat /\ mem.end \in Nat /\ mem.start < mem.end
<1>1. s \in Seq(MR(B, T, S)) /\ NoneEmpty(s) /\ Chain(s, B, T, S)
  BY DEF Ready, Tidy, Chain
<1>2. /\ Len(s) \in Nat /\ DOMAIN s = 1 .. Len(s)
      /\ \A i \in 1 .. Len(s) : s[i] \in MR(B, T, S) /\ s[i].start \in Nat /\ s[i].end \in Nat
  BY <1>1, SeqFacts
<1>3. mem \in MR(B, T, S) /\ mem.start \in Nat /\ mem.end \in Nat /\ mem.start < mem.end
  BY RangeFacts DEF Ready
<1>. QED
  BY <1>1, <1>2, <1>3 DEF Chain, NoneEmpty

(* equal_range: the ranges before LowerBound end by the beginning of mem,  *)
(* and those from UpperBound on begin at its end or above.                 *)
LEMMA BoundsAre ==
  ASSUME NEW B \in Nat, NEW T, NEW S, NEW s, NEW mem, Ready(s, mem, B, T, S)
  PROVE  /\ LowerBound(s, mem) \in 1 .. Len(s) + 1
         /\ UpperBound(s, mem) \in 1 .. Len(s) + 1
         /\ LowerBound(s, mem) <= UpperBound(s, mem)
         /\ \A i \in 1 .. Len(s) : i < LowerBound(s, mem) <=> s[i].end <= mem.start
         /\ \A i \in 1 .. Len(s) : i < UpperBound(s, mem) <=> s[i].start < mem.end
<1>a. PICK n, L, U : n = Len(s) /\ L = LowerBound(s, mem) /\ U = UpperBound(s, mem)
  OBVIOUS
<1>b. PICK SL, SU : /\ SL = {i \in DOMAIN s : s[i].end > mem.start}
                    /\ SU = {i \in DOMAIN s : s[i].end > mem.start /\ s[i].start >= mem.end}
  OBVIOUS
<1>1. /\ n \in Nat /\ DOMAIN s = 1 .. n
      /\ \A i \in 1 .. n : s[i].start < s[i].end /\ s[i].start \in Nat /\ s[i].end \in Nat
      /\ \A i, j \in 1 .. n : i < j => s[i].end <= s[j].start
      /\ mem.start \in Nat /\ mem.end \in Nat /\ mem.start < mem.end
  BY <1>a, ReadyFacts
<1>2. ASSUME NEW i \in 1 .. n, NEW j \in 1 .. n, i < j
      PROVE  /\ s[i].end > mem.start => s[j].end > mem.start
             /\ s[i].start >= mem.end => s[j].start >= mem.end
  <2>1. s[i].end <= s[j].start /\ s[i].start < s[i].end /\ s[j].start < s[j].end
    BY <1>1, <1>2
  <2>. QED
    BY <1>1, <2>1
<1>3. L = FirstOr(SL, n + 1) /\ U = FirstOr(SU, n + 1)
  BY <1>a, <1>b DEF LowerBound, UpperBound
<1>4. /\ SL \in SUBSET (1 .. n) /\ SU \in SUBSET (1 .. n)
      /\ \A i \in SL, j \in 1 .. n : i < j => j \in SL
      /\ \A i \in SU, j \in 1 .. n : i < j => j \in SU
  BY <1>1, <1>2, <1>b
<1>5. L \in 1 .. n + 1 /\ \A i \in 1 .. n : i < L <=> i \notin SL
  BY <1>1, <1>3, <1>4, FirstIs
<1>6. U \in 1 .. n + 1 /\ \A i \in 1 .. n : i < U <=> i \notin SU
  BY <1>1, <1>3, <1>4, FirstIs
<1>7. ASSUME NEW i \in 1 .. n PROVE i < L <=> s[i].end <= mem.start
  <2>1. i \notin SL <=> s[i].end <= mem.start
    BY <1>1, <1>b
  <2>. QED
    BY <1>5, <2>1
<1>8. ASSUME NEW i \in 1 .. n PROVE i < U <=> s[i].start < mem.end
  <2>1. i \notin SU <=> s[i].start < mem.end
    BY <1>1, <1>b
  <2>. QED
    BY <1>6, <2>1
<1>9. L <= U
  <2>1. SUFFICES ASSUME U < L PROVE FALSE
    BY <1>5, <1>6
  <2>2. U \in 1 .. n /\ ~ (U < U)
    BY <1>1, <1>5, <1>6, <2>1
  <2>3. s[U].end <= mem.start /\ ~ (s[U].start < mem.end)
    BY <1>7, <1>8, <2>1, <2>2
  <2>. QED
    BY <1>1, <2>2, <2>3
<1>. QED
  BY <1>5, <1>6, <1>7, <1>8, <1>9, <1>a

(* What the overlapped ranges have below mem, above the ranges before.     *)
LEMMA BeforeIs ==
  ASSUME NEW B \in Nat, NEW T, NEW S, NEW s, NEW mem, Ready(s, mem, B, T, S)
  PROVE  /\ Before(s, mem) \in MR(B, T, S)
         /\ Before(s, mem).start <= mem.start /\ Before(s, mem).end = mem.start
         /\ \A i \in 1 .. LowerBound(s, mem) - 1 : s[i].end <= Before(s, mem).start
         /\ \/ Before(s, mem).start < mem.start
            \/ Same(Before(s, mem), mem.memtype, mem.status)
         /\ \A u \in Nat : \A t, st :
              In(Before(s, mem), u, t, st) <=>
                u < mem.start /\ \E i \in EqualRange(s, mem) : In(s[i], u, t, st)
<1>a. PICK n, L, U, b : n = Len(s) /\ L = LowerBound(s, mem) /\ U = UpperBound(s, mem)
                        /\ b = Before(s, mem)
  OBVIOUS
<1>1. /\ n \in Nat /\ DOMAIN s = 1 .. n
      /\ \A i \in 1 .. n : /\ s[i] \in MR(B, T, S) /\ s[i].start < s[i].end
                           /\ s[i].start \in Nat /\ s[i].end \in Nat
      /\ \A i, j \in 1 .. n : i < j => s[i].end <= s[j].start
      /\ mem \in MR(B, T, S) /\ mem.start \in Nat /\ mem.end \in Nat /\ mem.start < mem.end
  BY <1>a, ReadyFacts
<1>2. /\ L \in 1 .. n + 1 /\ U \in 1 .. n + 1 /\ L <= U
      /\ \A i \in 1 .. n : i < L <=> s[i].end <= mem.start
      /\ \A i \in 1 .. n : i < U <=> s[i].start < mem.end
  BY <1>a, BoundsAre
<1>3. EqualRange(s, mem) = L .. U - 1 /\ L .. U - 1 \subseteq 1 .. n
  BY <1>1, <1>2, <1>a DEF EqualRange
<1>b. PICK cut : cut = {i \in EqualRange(s, mem) : s[i].start < mem.start}
  OBVIOUS
<1>4. ASSUME NEW i \in cut PROVE i = L
  <2>1. SUFFICES ASSUME i # L PROVE FALSE
    OBVIOUS
  <2>2. i \in 1 .. n /\ L \in 1 .. n /\ L < i /\ s[i].start < mem.start
    BY <1>1, <1>2, <1>3, <1>b, <2>1
  <2>3. s[L].end <= s[i].start
    BY <1>1, <2>2
  <2>4. ~ (s[L].end <= mem.start)
    BY <1>2, <2>2
  <2>. QED
    BY <1>1, <2>2, <2>3, <2>4
<1>5. CASE cut = {}
  <2>1. b = [mem EXCEPT !.end = mem.start]
    BY <1>5, <1>a, <1>b DEF Before
  <2>2. /\ b \in MR(B, T, S) /\ b.start = mem.start /\ b.end = mem.start
        /\ Same(b, mem.memtype, mem.status)
    BY <1>1, <2>1 DEF MR, Same
  <2>3. \A i \in 1 .. L - 1 : s[i].end <= mem.start
    BY <1>1, <1>2
  <2>4. ASSUME NEW u \in Nat, NEW t, NEW st, u < mem.start, NEW i \in EqualRange(s, mem), In(s[i], u, t, st)
        PROVE  FALSE
    <3>1. i \in 1 .. n /\ ~ (s[i].start < mem.start) /\ s[i].start <= u
      BY <1>3, <1>5, <1>b, <2>4 DEF In
    <3>. QED
      BY <1>1, <2>4, <3>1
  <2>5. \A u \in Nat : \A t, st : ~ In(b, u, t, st)
    BY <1>1, <2>2 DEF In
  <2>6. \A u \in Nat : \A t, st :
          In(b, u, t, st) <=> u < mem.start /\ \E i \in EqualRange(s, mem) : In(s[i], u, t, st)
    BY <2>4, <2>5
  <2>. QED
    BY <1>1, <1>a, <2>2, <2>3, <2>6
<1>6. CASE cut # {}
  <2>0. PICK f : f = FirstOr(cut, 0)
    OBVIOUS
  <2>1. cut \in SUBSET Nat
    BY <1>3, <1>b
  <2>2. f \in cut
    BY <1>6, <2>0, <2>1, FirstOrIs
  <2>3. f = L /\ L \in EqualRange(s, mem) /\ L \in 1 .. n /\ s[L].start < mem.start
    BY <1>3, <1>4, <1>b, <2>2
  <2>4. b = [s[L] EXCEPT !.end = mem.start]
    BY <1>6, <1>a, <1>b, <2>0, <2>3 DEF Before
  <2>5. s[L] \in MR(B, T, S) /\ ~ (s[L].end <= mem.start)
    BY <1>1, <1>2, <2>3
  <2>6. /\ b \in MR(B, T, S) /\ b.start = s[L].start /\ b.end = mem.start
        /\ b.memtype = s[L].memtype /\ b.status = s[L].status
    BY <1>1, <2>4, <2>5 DEF MR
  <2>7. \A i \in 1 .. L - 1 : s[i].end <= b.start
    BY <1>1, <2>3, <2>6
  <2>8. ASSUME NEW u \in Nat, NEW t, NEW st
        PROVE  In(b, u, t, st) <=> u < mem.start /\ \E i \in EqualRange(s, mem) : In(s[i], u, t, st)
    <3>1. ASSUME In(b, u, t, st) PROVE u < mem.start /\ In(s[L], u, t, st)
      BY <1>1, <2>3, <2>5, <2>6, <3>1 DEF In, Same
    <3>2. ASSUME u < mem.start, NEW i \in EqualRange(s, mem), In(s[i], u, t, st)
          PROVE  In(b, u, t, st)
      <4>1. i \in 1 .. n /\ s[i].start <= u
        BY <1>3, <3>2 DEF In
      <4>2. i \in cut
        BY <1>1, <1>b, <3>2, <4>1
      <4>3. i = L
        BY <1>4, <4>2
      <4>. QED
        BY <2>6, <3>2, <4>3 DEF In, Same
    <3>. QED
      BY <2>3, <3>1, <3>2
  <2>. QED
    BY <1>1, <1>a, <2>3, <2>6, <2>7, <2>8
<1>. QED
  BY <1>5, <1>6

(* And what they have above mem, below the ranges after.                   *)
LEMMA AfterIs ==
  ASSUME NEW B \in Nat, NEW T, NEW S, NEW s, NEW mem, Ready(s, mem, B, T, S)
  PROVE  /\ After(s, mem) \in MR(B, T, S)
         /\ After(s, mem).start = mem.end /\ mem.end <= After(s, mem).end
         /\ \A i \in UpperBound(s, mem) .. Len(s) : After(s, mem).end <= s[i].start
         /\ \/ mem.end < After(s, mem).end
            \/ Same(After(s, mem), mem.memtype, mem.status)
         /\ \A u \in Nat : \A t, st :
              In(After(s, mem), u, t, st) <=>
                mem.end <= u /\ \E i \in EqualRange(s, mem) : In(s[i], u, t, st)
<1>a. PICK n, L, U, a : n = Len(s) /\ L = LowerBound(s, mem) /\ U = UpperBound(s, mem)
                        /\ a = After(s, mem)
  OBVIOUS
<1>1. /\ n \in Nat /\ DOMAIN s = 1 .. n
      /\ \A i \in 1 .. n : /\ s[i] \in MR(B, T, S) /\ s[i].start < s[i].end
                           /\ s[i].start \in Nat /\ s[i].end \in Nat
      /\ \A i, j \in 1 .. n : i < j => s[i].end <= s[j].start
      /\ mem \in MR(B, T, S) /\ mem.start \in Nat /\ mem.end \in Nat /\ mem.start < mem.end
  BY <1>a, ReadyFacts
<1>2. /\ L \in 1 .. n + 1 /\ U \in 1 .. n + 1 /\ L <= U
      /\ \A i \in 1 .. n : i < L <=> s[i].end <= mem.start
      /\ \A i \in 1 .. n : i < U <=> s[i].start < mem.end
  BY <1>a, BoundsAre
<1>3. EqualRange(s, mem) = L .. U - 1 /\ L .. U - 1 \subseteq 1 .. n
  BY <1>1, <1>2, <1>a DEF EqualRange
<1>b. PICK cut, l : cut = {i \in EqualRange(s, mem) : s[i].end > mem.end} /\ l = U - 1
  OBVIOUS
<1>4. ASSUME NEW i \in cut PROVE i = l
  <2>1. SUFFICES ASSUME i # l PROVE FALSE
    OBVIOUS
  <2>2. i \in 1 .. n /\ l \in 1 .. n /\ i < l /\ l < U /\ s[i].end > mem.end
    BY <1>1, <1>2, <1>3, <1>b, <2>1
  <2>3. s[i].end <= s[l].start
    BY <1>1, <2>2
  <2>4. s[l].start < mem.end
    BY <1>2, <2>2
  <2>. QED
    BY <1>1, <2>2, <2>3, <2>4
<1>5. CASE cut = {}
  <2>1. a = [mem EXCEPT !.start = mem.end]
    BY <1>5, <1>a, <1>b DEF After
  <2>2. /\ a \in MR(B, T, S) /\ a.start = mem.end /\ a.end = mem.end
        /\ Same(a, mem.memtype, mem.status)
    BY <1>1, <2>1 DEF MR, Same
  <2>3. \A i \in U .. n : mem.end <= s[i].start
    BY <1>1, <1>2
  <2>4. ASSUME NEW u \in Nat, NEW t, NEW st, mem.end <= u, NEW i \in EqualRange(s, mem), In(s[i], u, t, st)
        PROVE  FALSE
    <3>1. i \in 1 .. n /\ ~ (s[i].end > mem.end) /\ u < s[i].end
      BY <1>3, <1>5, <1>b, <2>4 DEF In
    <3>. QED
      BY <1>1, <2>4, <3>1
  <2>5. \A u \in Nat : \A t, st : ~ In(a, u, t, st)
    BY <1>1, <2>2 DEF In
  <2>6. \A u \in Nat : \A t, st :
          In(a, u, t, st) <=> mem.end <= u /\ \E i \in EqualRange(s, mem) : In(s[i], u, t, st)
    BY <2>4, <2>5
  <2>. QED
    BY <1>1, <1>a, <2>2, <2>3, <2>6
<1>6. CASE cut # {}
  <2>0. PICK f : f = FirstOr(cut, 0)
    OBVIOUS
  <2>1. cut \in SUBSET Nat
    BY <1>3, <1>b
  <2>2. f \in cut
    BY <1>6, <2>0, <2>1, FirstOrIs
  <2>3. f = l /\ l \in EqualRange(s, mem) /\ l \in 1 .. n /\ s[l].end > mem.end
    BY <1>3, <1>4, <1>b, <2>2
  <2>4. a = [s[l] EXCEPT !.start = mem.end]
    BY <1>6, <1>a, <1>b, <2>0, <2>3 DEF After
  <2>a. l < U
    BY <1>2, <1>b
  <2>5. s[l] \in MR(B, T, S) /\ s[l].start < mem.end
    BY <1>1, <1>2, <2>3, <2>a
  <2>6. /\ a \in MR(B, T, S) /\ a.start = mem.end /\ a.end = s[l].end
        /\ a.memtype = s[l].memtype /\ a.status = s[l].status
    BY <1>1, <2>4, <2>5 DEF MR
  <2>7. ASSUME NEW i \in U .. n PROVE a.end <= s[i].start
    <3>1. i \in 1 .. n /\ l < i
      BY <1>2, <1>b
    <3>. QED
      BY <1>1, <2>3, <2>6, <3>1
  <2>8. ASSUME NEW u \in Nat, NEW t, NEW st
        PROVE  In(a, u, t, st) <=> mem.end <= u /\ \E i \in EqualRange(s, mem) : In(s[i], u, t, st)
    <3>1. ASSUME In(a, u, t, st) PROVE mem.end <= u /\ In(s[l], u, t, st)
      BY <1>1, <2>3, <2>5, <2>6, <3>1 DEF In, Same
    <3>2. ASSUME mem.end <= u, NEW i \in EqualRange(s, mem), In(s[i], u, t, st)
          PROVE  In(a, u, t, st)
      <4>1. i \in 1 .. n /\ u < s[i].end
        BY <1>3, <3>2 DEF In
      <4>2. i \in cut
        BY <1>1, <1>b, <3>2, <4>1
      <4>3. i = l
        BY <1>4, <4>2
      <4>. QED
        BY <2>6, <3>2, <4>3 DEF In, Same
    <3>. QED
      BY <2>3, <3>1, <3>2
  <2>. QED
    BY <1>1, <1>a, <2>3, <2>6, <2>7, <2>8
<1>. QED
  BY <1>5, <1>6

(* add_memory leaves a tidy map; it says of the units of mem what mem      *)
(* says, and of all others what it said before.                            *)
LEMMA ReplacedKeeps ==
  ASSUME NEW B \in Nat, NEW T, NEW S, NEW s, NEW mem, Ready(s, mem, B, T, S)
  PROVE  /\ Tidy(Replaced(s, mem), B, T, S)
         /\ \A u \in Nat : \A t, st :
              Holds(Replaced(s, mem), u, t, st) <=>
                IF mem.start <= u /\ u < mem.end THEN Same(mem, t, st) ELSE Holds(s, u, t, st)
<1>a. PICK n, L, U, b, a : n = Len(s) /\ L = LowerBound(s, mem) /\ U = UpperBound(s, mem)
                           /\ b = Before(s, mem) /\ a = After(s, mem)
  OBVIOUS
<1>b. PICK low, high, mid : low = SubSeq(s, 1, L - 1) /\ high = SubSeq(s, U, n) /\ mid = <<b, mem, a>>
  OBVIOUS
<1>1. /\ n \in Nat /\ DOMAIN s = 1 .. n
      /\ \A i \in 1 .. n : /\ s[i] \in MR(B, T, S) /\ s[i].start < s[i].end
                           /\ s[i].start \in Nat /\ s[i].end \in Nat
      /\ \A i, j \in 1 .. n : i < j => s[i].end <= s[j].start
      /\ mem \in MR(B, T, S) /\ mem.start \in Nat /\ mem.end \in Nat /\ mem.start < mem.end
  BY <1>a, ReadyFacts
<1>2. /\ L \in 1 .. n + 1 /\ U \in 1 .. n + 1 /\ L <= U
      /\ \A i \in 1 .. n : i < L <=> s[i].end <= mem.start
      /\ \A i \in 1 .. n : i < U <=> s[i].start < mem.end
  BY <1>a, BoundsAre
<1>3. EqualRange(s, mem) = L .. U - 1
  BY <1>a DEF EqualRange
<1>4. /\ b \in MR(B, T, S) /\ b.start <= mem.start /\ b.end = mem.start
      /\ \A i \in 1 .. L - 1 : s[i].end <= b.start
      /\ b.start < mem.start \/ Same(b, mem.memtype, mem.status)
      /\ \A u \in Nat : \A t, st :
           In(b, u, t, st) <=> u < mem.start /\ \E i \in L .. U - 1 : In(s[i], u, t, st)
  BY <1>3, <1>a, BeforeIs, ZenonT(30)
<1>5. /\ a \in MR(B, T, S) /\ a.start = mem.end /\ mem.end <= a.end
      /\ \A i \in U .. n : a.end <= s[i].start
      /\ mem.end < a.end \/ Same(a, mem.memtype, mem.status)
      /\ \A u \in Nat : \A t, st :
           In(a, u, t, st) <=> mem.end <= u /\ \E i \in L .. U - 1 : In(s[i], u, t, st)
  BY <1>3, <1>a, AfterIs, ZenonT(30)
<1>6. /\ b.start \in Nat /\ b.end \in Nat /\ a.start \in Nat /\ a.end \in Nat
  BY <1>4, <1>5, RangeFacts
<1>7. /\ mid \in Seq(MR(B, T, S)) /\ DOMAIN mid = 1 .. 3 /\ Len(mid) = 3
      /\ mid[1] = b /\ mid[2] = mem /\ mid[3] = a
  BY <1>1, <1>4, <1>5, <1>b
<1>8. Chain(mid, B, T, S)
  <2>1. \A i \in 1 .. 3 : i = 1 \/ i = 2 \/ i = 3
    OBVIOUS
  <2>2. \A i \in 1 .. 3 : mid[i].start <= mid[i].end
    BY <1>1, <1>4, <1>5, <1>7, <2>1
  <2>3. \A i, j \in 1 .. 3 : i < j => mid[i].end <= mid[j].start
    BY <1>1, <1>4, <1>5, <1>6, <1>7, <2>1
  <2>. QED
    BY <1>7, <2>2, <2>3 DEF Chain
<1>9. Absorbed(mid)
  <2>1. b.start < b.end \/ CanConcat(b, mem)
    BY <1>1, <1>4 DEF CanConcat, Same
  <2>2. a.start < a.end \/ CanConcat(mem, a)
    BY <1>1, <1>5 DEF CanConcat, Same
  <2>3. \A i \in 1 .. 3 : i = 1 \/ i = 2 \/ i = 3
    OBVIOUS
  <2>4. 1 + 1 = 2 /\ 3 - 1 = 2 /\ 2 \in 1 .. 3
    OBVIOUS
  <2>5. mid[1].start < mid[1].end \/ Joins(mid, 1)
    BY <1>1, <1>7, <2>1, <2>4 DEF Joins
  <2>6. mid[3].start < mid[3].end \/ Joins(mid, 3)
    BY <1>1, <1>7, <2>2, <2>4 DEF Joins
  <2>. QED
    BY <1>1, <1>7, <2>3, <2>5, <2>6 DEF Absorbed
<1>10. Chain(s, B, T, S) /\ NoneEmpty(s)
  BY DEF Ready, Tidy
<1>11. /\ Chain(low, B, T, S) /\ Absorbed(low)
       /\ \A k \in DOMAIN low : \E m \in 1 .. L - 1 : low[k] = s[m]
       /\ \A u, t, st : Holds(low, u, t, st) <=> \E k \in 1 .. L - 1 : In(s[k], u, t, st)
  <2>1. 1 \in 1 .. Len(s) + 1 /\ L - 1 \in 0 .. Len(s) /\ 1 <= (L - 1) + 1
    BY <1>1, <1>2, <1>a
  <2>2. PICK j : j = L - 1
    OBVIOUS
  <2>3. 1 \in 1 .. Len(s) + 1 /\ j \in 0 .. Len(s) /\ 1 <= j + 1
    BY <2>1, <2>2
  <2>4. IsPart(SubSeq(s, 1, j), s, 1, j, B, T, S)
    BY <1>10, <2>3, PartKeeps, Zenon
  <2>. QED
    BY <1>b, <2>2, <2>4 DEF IsPart
<1>12. /\ Chain(high, B, T, S) /\ Absorbed(high)
       /\ \A k \in DOMAIN high : \E m \in U .. n : high[k] = s[m]
       /\ \A u, t, st : Holds(high, u, t, st) <=> \E k \in U .. n : In(s[k], u, t, st)
  <2>1. U \in 1 .. Len(s) + 1 /\ n \in 0 .. Len(s) /\ U <= n + 1
    BY <1>1, <1>2, <1>a
  <2>2. IsPart(SubSeq(s, U, n), s, U, n, B, T, S)
    BY <1>10, <2>1, PartKeeps, Zenon
  <2>. QED
    BY <1>b, <2>2 DEF IsPart
<1>13. \A u, t, st : Holds(mid, u, t, st) <=> \/ In(b, u, t, st) \/ In(mem, u, t, st)
                                              \/ In(a, u, t, st)
  <2>1. \A i : i \in 1 .. 3 <=> i = 1 \/ i = 2 \/ i = 3
    OBVIOUS
  <2>. QED
    BY <1>7, <2>1 DEF Holds
<1>c. PICK front : front = low \o mid
  OBVIOUS
<1>14. /\ Chain(front, B, T, S) /\ Absorbed(front)
       /\ \A i \in DOMAIN front : \/ \E j \in DOMAIN low : front[i] = low[j]
                                  \/ \E j \in DOMAIN mid : front[i] = mid[j]
       /\ \A u, t, st : Holds(front, u, t, st) <=> Holds(low, u, t, st) \/ Holds(mid, u, t, st)
  <2>1. ASSUME NEW i \in DOMAIN low, NEW j \in DOMAIN mid PROVE low[i].end <= mid[j].start
    <3>1. PICK k \in 1 .. L - 1 : low[i] = s[k]
      BY <1>11
    <3>2. k \in 1 .. n /\ s[k].end <= b.start
      BY <1>1, <1>2, <1>4
    <3>3. j = 1 \/ j = 2 \/ j = 3
      BY <1>7
    <3>. QED
      BY <1>1, <1>4, <1>5, <1>6, <1>7, <3>1, <3>2, <3>3
  <2>. QED
    BY <1>8, <1>9, <1>11, <1>c, <2>1, ConcatKeeps
<1>d. PICK all : all = front \o high
  OBVIOUS
<1>15. /\ Chain(all, B, T, S) /\ Absorbed(all)
       /\ \A u, t, st : Holds(all, u, t, st) <=> Holds(front, u, t, st) \/ Holds(high, u, t, st)
  <2>1. ASSUME NEW i \in DOMAIN front, NEW j \in DOMAIN high PROVE front[i].end <= high[j].start
    <3>1. PICK k \in U .. n : high[j] = s[k]
      BY <1>12
    <3>2. k \in 1 .. n /\ a.end <= s[k].start
      BY <1>1, <1>2, <1>5
    <3>3. CASE \E m \in DOMAIN mid : front[i] = mid[m]
      <4>1. front[i] = b \/ front[i] = mem \/ front[i] = a
        BY <1>7, <3>3
      <4>. QED
        BY <1>1, <1>4, <1>5, <1>6, <3>1, <3>2, <4>1
    <3>4. CASE \E m \in DOMAIN low : front[i] = low[m]
      <4>1. PICK m \in 1 .. L - 1 : front[i] = s[m]
        BY <1>11, <3>4
      <4>2. m \in 1 .. n /\ m < k
        BY <1>1, <1>2
      <4>. QED
        BY <1>1, <3>1, <3>2, <4>1, <4>2
    <3>. QED
      BY <1>14, <3>3, <3>4
  <2>. QED
    BY <1>12, <1>14, <1>d, <2>1, ConcatKeeps
<1>16. Replaced(s, mem) = Compact(all)
  BY <1>a, <1>b, <1>c, <1>d DEF Replaced
<1>17. /\ Tidy(Compact(all), B, T, S)
       /\ \A u \in Nat : \A t, st : Holds(Compact(all), u, t, st) <=> Holds(all, u, t, st)
  BY <1>15, CompactKeeps
<1>18. ASSUME NEW u \in Nat, NEW t, NEW st
       PROVE  Holds(all, u, t, st) <=>
                IF mem.start <= u /\ u < mem.end THEN Same(mem, t, st) ELSE Holds(s, u, t, st)
  <2>1. Holds(all, u, t, st) <=> \/ \E k \in 1 .. L - 1 : In(s[k], u, t, st)
                                 \/ In(b, u, t, st) \/ In(mem, u, t, st) \/ In(a, u, t, st)
                                 \/ \E k \in U .. n : In(s[k], u, t, st)
    BY <1>11, <1>12, <1>13, <1>14, <1>15
  <2>2. \A k \in 1 .. L - 1 : k \in 1 .. n /\ s[k].end <= mem.start
    BY <1>1, <1>2
  <2>3. \A k \in U .. n : k \in 1 .. n /\ mem.end <= s[k].start
    BY <1>1, <1>2
  <2>4. CASE mem.start <= u /\ u < mem.end
    <3>1. ~ In(b, u, t, st) /\ ~ In(a, u, t, st)
      BY <1>1, <1>4, <1>5, <2>4 DEF In
    <3>2. ~ \E k \in 1 .. L - 1 : In(s[k], u, t, st)
      BY <1>1, <2>2, <2>4 DEF In
    <3>3. ~ \E k \in U .. n : In(s[k], u, t, st)
      BY <1>1, <2>3, <2>4 DEF In
    <3>4. In(mem, u, t, st) <=> Same(mem, t, st)
      BY <2>4 DEF In
    <3>. QED
      BY <2>1, <2>4, <3>1, <3>2, <3>3, <3>4
  <2>5. CASE ~ (mem.start <= u /\ u < mem.end)
    <3>1. ~ In(mem, u, t, st)
      BY <2>5 DEF In
    <3>2. u < mem.start \/ mem.end <= u
      BY <1>1, <2>5
    <3>3. In(b, u, t, st) \/ In(a, u, t, st) <=> \E i \in L .. U - 1 : In(s[i], u, t, st)
      BY <1>4, <1>5, <3>2
    <3>4. \A k : k \in 1 .. n <=> k \in 1 .. L - 1 \/ k \in L .. U - 1 \/ k \in U .. n
      BY <1>1, <1>2
    <3>5. Holds(s, u, t, st) <=> \E k \in 1 .. n : In(s[k], u, t, st)
      BY <1>1 DEF Holds
    <3>. QED
      BY <2>1, <2>5, <3>1, <3>3, <3>4, <3>5
  <2>. QED
    BY <2>4, <2>5
<1>. QED
  BY <1>16, <1>17, <1>18

(* A map says one thing of an address.                                     *)
LEMMA OneEntry ==
  ASSUME NEW B \in Nat, NEW T, NEW S, NEW s, Tidy(s, B, T, S), NEW u \in Nat,
         NEW t, NEW st, Holds(s, u, t, st), NEW t2, NEW st2, Holds(s, u, t2, st2)
  PROVE  t = t2 /\ st = st2
<1>a. PICK n : n = Len(s)
  OBVIOUS
<1>1. /\ n \in Nat /\ DOMAIN s = 1 .. n
      /\ \A i \in 1 .. n : s[i].start \in Nat /\ s[i].end \in Nat
      /\ \A i, j \in 1 .. n : i < j => s[i].end <= s[j].start
  BY <1>a, SeqFacts DEF Tidy, Chain
<1>2. PICK i \in 1 .. n : In(s[i], u, t, st)
  BY <1>1 DEF Holds
<1>3. PICK j \in 1 .. n : In(s[j], u, t2, st2)
  BY <1>1 DEF Holds
<1>4. s[i].start <= u /\ u < s[i].end /\ s[j].start <= u /\ u < s[j].end
  BY <1>2, <1>3 DEF In
<1>5. i = j
  <2>1. ~ (i < j)
    BY <1>1, <1>4
  <2>2. ~ (j < i)
    BY <1>1, <1>4
  <2>. QED
    BY <2>1, <2>2
<1>. QED
  BY <1>2, <1>3, <1>5 DEF In, Same

(* add_memory refuses a range if and only if memory in it has another type *)
(* or would no longer be reserved.                                         *)
LEMMA AcceptsIs ==
  ASSUME NEW B \in Nat, NEW T, NEW S, NEW s, NEW mem, Ready(s, mem, B, T, S)
  PROVE  Accepts(s, mem) <=>
           \A u \in Nat : \A t, st :
             mem.start <= u /\ u < mem.end /\ Holds(s, u, t, st)
               => t = mem.memtype /\ ~ (st = "Reserved" /\ mem.status = "Free")
<1>a. PICK n, L, U : n = Len(s) /\ L = LowerBound(s, mem) /\ U = UpperBound(s, mem)
  OBVIOUS
<1>1. /\ n \in Nat /\ DOMAIN s = 1 .. n
      /\ \A i \in 1 .. n : /\ s[i] \in MR(B, T, S) /\ s[i].start < s[i].end
                           /\ s[i].start \in Nat /\ s[i].end \in Nat
      /\ mem \in MR(B, T, S) /\ mem.start \in Nat /\ mem.end \in Nat /\ mem.start < mem.end
  BY <1>a, ReadyFacts
<1>2. /\ L \in 1 .. n + 1 /\ U \in 1 .. n + 1 /\ L <= U
      /\ \A i \in 1 .. n : i < L <=> s[i].end <= mem.start
      /\ \A i \in 1 .. n : i < U <=> s[i].start < mem.end
  BY <1>a, BoundsAre
<1>3. EqualRange(s, mem) = L .. U - 1 /\ L .. U - 1 \subseteq 1 .. n
  BY <1>1, <1>2, <1>a DEF EqualRange
<1>. DEFINE Wrong(t, st) == t # mem.memtype \/ (st = "Reserved" /\ mem.status = "Free")
<1>4. ASSUME NEW i \in L .. U - 1, Wrong(s[i].memtype, s[i].status)
      PROVE  \E u \in Nat : /\ mem.start <= u /\ u < mem.end
                            /\ In(s[i], u, s[i].memtype, s[i].status)
  <2>1. i \in 1 .. n /\ ~ (i < L) /\ i < U
    BY <1>2, <1>3, <1>4
  <2>2. ~ (s[i].end <= mem.start) /\ s[i].start < mem.end
    BY <1>2, <2>1
  <2>3. CASE s[i].start <= mem.start
    BY <1>1, <2>1, <2>2, <2>3 DEF In, Same
  <2>4. CASE s[i].start > mem.start
    BY <1>1, <2>1, <2>2, <2>4 DEF In, Same
  <2>. QED
    BY <1>1, <2>1, <2>3, <2>4
<1>5. ASSUME NEW u \in Nat, NEW t, NEW st, mem.start <= u, u < mem.end, Holds(s, u, t, st)
      PROVE  \E i \in L .. U - 1 : s[i].memtype = t /\ s[i].status = st
  <2>1. PICK i \in 1 .. n : In(s[i], u, t, st)
    BY <1>1, <1>5 DEF Holds
  <2>2. s[i].start <= u /\ u < s[i].end /\ s[i].memtype = t /\ s[i].status = st
    BY <2>1 DEF In, Same
  <2>3. ~ (s[i].end <= mem.start) /\ s[i].start < mem.end
    BY <1>1, <1>5, <2>2
  <2>4. ~ (i < L) /\ i < U
    BY <1>2, <2>3
  <2>5. i \in L .. U - 1
    BY <1>2, <2>4
  <2>. QED
    BY <2>2, <2>5
<1>6. Accepts(s, mem) <=> \A i \in L .. U - 1 : ~ Wrong(s[i].memtype, s[i].status)
  <2>1. ~ IsEmptyRange(mem)
    BY <1>1 DEF IsEmptyRange
  <2>. QED
    BY <1>3, <2>1 DEF Accepts, Conflicts
<1>7. \A i \in L .. U - 1 : \A u : In(s[i], u, s[i].memtype, s[i].status)
                               => Holds(s, u, s[i].memtype, s[i].status)
  BY <1>1, <1>3 DEF Holds
<1>8. ASSUME Accepts(s, mem), NEW u \in Nat, NEW t, NEW st, mem.start <= u, u < mem.end, Holds(s, u, t, st)
      PROVE  ~ Wrong(t, st)
  <2>1. PICK i \in L .. U - 1 : s[i].memtype = t /\ s[i].status = st
    BY <1>5, <1>8
  <2>. QED
    BY <1>6, <1>8, <2>1
<1>9. ASSUME ~ Accepts(s, mem)
      PROVE  \E u \in Nat : \E t, st : mem.start <= u /\ u < mem.end /\ Holds(s, u, t, st) /\ Wrong(t, st)
  <2>1. PICK i \in L .. U - 1 : Wrong(s[i].memtype, s[i].status)
    BY <1>6, <1>9
  <2>2. PICK u \in Nat : /\ mem.start <= u /\ u < mem.end
                         /\ In(s[i], u, s[i].memtype, s[i].status)
    BY <1>4, <2>1
  <2>3. Holds(s, u, s[i].memtype, s[i].status)
    BY <1>7, <2>2
  <2>. QED
    BY <2>1, <2>2, <2>3
<1>. QED
  BY <1>8, <1>9

(* The free function add_memory, whatever it is called with.               *)
LEMMA AddToKeeps ==
  ASSUME NEW B \in Nat, NEW T, NEW S, NEW s, Tidy(s, B, T, S), NEW mem \in MR(B, T, S)
  PROVE  /\ Tidy(AddTo(s, mem), B, T, S)
         /\ \A u \in Nat : \A t, st :
              Holds(AddTo(s, mem), u, t, st) <=>
                IF Accepts(s, mem) /\ mem.start <= u /\ u < mem.end THEN Same(mem, t, st)
                ELSE Holds(s, u, t, st)
<1>1. mem.start \in Nat /\ mem.end \in Nat
  BY RangeFacts
<1>2. CASE Accepts(s, mem) /\ ~ IsEmptyRange(mem)
  <2>1. Ready(s, mem, B, T, S)
    BY <1>1, <1>2 DEF Ready, IsEmptyRange
  <2>2. AddTo(s, mem) = Replaced(s, mem)
    BY <1>2 DEF AddTo
  <2>. QED
    BY <1>2, <2>1, <2>2, ReplacedKeeps
<1>3. CASE ~ (Accepts(s, mem) /\ ~ IsEmptyRange(mem))
  <2>1. AddTo(s, mem) = s
    BY <1>3 DEF AddTo
  <2>2. ASSUME NEW u \in Nat PROVE ~ (Accepts(s, mem) /\ mem.start <= u /\ u < mem.end)
    BY <1>1, <1>3 DEF IsEmptyRange
  <2>. QED
    BY <2>1, <2>2
<1>. QED
  BY <1>2, <1>3

-----------------------------------------------------------------------------
(* Aligned addresses and the search for room.                              *)

(* No address wraps that the machine can have.                             *)
LEMMA WrapIs ==
  ASSUME Word \in Nat, NEW x \in Nat
  PROVE  /\ x < Word => Wrap(x) = x
         /\ Word # 0 => Wrap(x) \in Nat /\ Wrap(x) < Word
BY DEF Wrap

(* AlignUp returns the first multiple of p that is not below the address.  *)
LEMMA UpIs ==
  ASSUME NEW p \in Nat \ {0}, NEW x \in Nat, Word \in Nat, x + p <= Word
  PROVE  \E q \in Nat : /\ AlignUp(x, p) = q * p /\ AlignUp(x, p) \in Nat
                        /\ AlignUp(x, p) \div p = q /\ AlignUp(x, p) % p = 0
                        /\ x <= AlignUp(x, p) /\ AlignUp(x, p) < x + p
                        /\ \A k \in Nat : q <= k <=> x <= k * p
<1>. PICK y : y = x + p - 1
  OBVIOUS
<1>. PICK q, z : q = y \div p /\ z = (y \div p) * p
  OBVIOUS
<1>1. y \in Nat /\ y < Word /\ Wrap(y) = y
  BY WrapIs
<1>2. AlignUp(x, p) = z /\ z = q * p
  BY <1>1 DEF AlignUp, AlignDown
<1>3. q \in Nat /\ z \in Nat /\ z <= y /\ y < z + p
  BY <1>1, Down
<1>4. z % p = 0 /\ z \div p = q
  BY <1>2, <1>3, Multiples
<1>5. x <= z /\ z < x + p
  BY <1>3
<1>6. ASSUME NEW k \in Nat PROVE q <= k <=> x <= k * p
  <2>1. CASE q <= k
    <3>1. z <= k * p /\ k * p \in Nat
      BY <1>2, <1>3, <2>1, Products
    <3>. QED
      BY <1>3, <1>5, <2>1, <3>1
  <2>2. CASE k + 1 <= q
    <3>1. (k + 1) * p <= z /\ (k + 1) * p = k * p + p /\ k * p \in Nat
      <4>1. (k + 1) * p <= z
        BY <1>2, <1>3, <2>2, Products
      <4>2. k * p \in Nat
        BY Products
      <4>3. (k + 1) * p = k * p + p
        OBVIOUS
      <4>. QED
        BY <4>1, <4>2, <4>3
    <3>2. k * p < x
      BY <1>3, <3>1
    <3>. QED
      BY <1>3, <2>2, <3>1, <3>2
  <2>. QED
    BY <1>3, <2>1, <2>2
<1>. QED
  BY <1>2, <1>3, <1>4, <1>5, <1>6

(* The free ranges of a window: where they are, and what they hold.        *)
LEMMA FreeRangesAre ==
  ASSUME NEW B \in Nat, NEW T, NEW S, NEW s, Tidy(s, B, T, S), NEW b \in Nat, NEW e \in Nat
  PROVE  /\ \A r \in FreeRanges(s, b, e) :
              \E i \in 1 .. Len(s) :
                /\ s[i].status = "Free" /\ r = Overlap(s[i], b, e) /\ s[i] \in MR(B, T, S)
                /\ s[i].start \in Nat /\ s[i].end \in Nat
                /\ r.start = Larger(s[i].start, b) /\ r.end = Smaller(s[i].end, e)
                /\ r.memtype = s[i].memtype /\ r.status = "Free"
                /\ r.start \in Nat /\ r.end \in Nat /\ r.start < r.end
         /\ \A i \in 1 .. Len(s) :
              s[i].status = "Free" /\ Larger(s[i].start, b) < Smaller(s[i].end, e)
                => Overlap(s[i], b, e) \in FreeRanges(s, b, e)
<1>1. /\ s \in Seq(MR(B, T, S)) /\ DOMAIN s = 1 .. Len(s)
      /\ \A i \in 1 .. Len(s) : s[i] \in MR(B, T, S) /\ s[i].start \in Nat /\ s[i].end \in Nat
  BY SeqFacts DEF Tidy, Chain
<1>2. ASSUME NEW i \in 1 .. Len(s)
      PROVE  /\ Overlap(s[i], b, e).start = Larger(s[i].start, b)
             /\ Overlap(s[i], b, e).end = Smaller(s[i].end, e)
             /\ Overlap(s[i], b, e).memtype = s[i].memtype
             /\ Overlap(s[i], b, e).status = s[i].status
             /\ Larger(s[i].start, b) \in Nat /\ Smaller(s[i].end, e) \in Nat
  <2>1. s[i] \in MR(B, T, S)
    BY <1>1
  <2>2. /\ Overlap(s[i], b, e).start = Larger(s[i].start, b)
        /\ Overlap(s[i], b, e).end = Smaller(s[i].end, e)
        /\ Overlap(s[i], b, e).memtype = s[i].memtype
        /\ Overlap(s[i], b, e).status = s[i].status
    BY <2>1 DEF Overlap, MR
  <2>3. Larger(s[i].start, b) \in Nat /\ Smaller(s[i].end, e) \in Nat
    BY <1>1 DEF Larger, Smaller
  <2>. QED
    BY <2>2, <2>3
<1>3. \A i \in 1 .. Len(s) : ~ IsEmptyRange(Overlap(s[i], b, e))
                             <=> Larger(s[i].start, b) < Smaller(s[i].end, e)
  BY <1>2 DEF IsEmptyRange
<1>4. ASSUME NEW r \in FreeRanges(s, b, e)
      PROVE  \E i \in 1 .. Len(s) : /\ s[i].status = "Free" /\ r = Overlap(s[i], b, e)
                                    /\ Larger(s[i].start, b) < Smaller(s[i].end, e)
  BY <1>1, <1>3 DEF FreeRanges
<1>5. ASSUME NEW i \in 1 .. Len(s), s[i].status = "Free", Larger(s[i].start, b) < Smaller(s[i].end, e)
      PROVE  Overlap(s[i], b, e) \in FreeRanges(s, b, e)
  BY <1>1, <1>3, <1>5 DEF FreeRanges
<1>6. ASSUME NEW r \in FreeRanges(s, b, e)
      PROVE  \E i \in 1 .. Len(s) :
                /\ s[i].status = "Free" /\ r = Overlap(s[i], b, e) /\ s[i] \in MR(B, T, S)
                /\ s[i].start \in Nat /\ s[i].end \in Nat
                /\ r.start = Larger(s[i].start, b) /\ r.end = Smaller(s[i].end, e)
                /\ r.memtype = s[i].memtype /\ r.status = "Free"
                /\ r.start \in Nat /\ r.end \in Nat /\ r.start < r.end
  <2>1. PICK i \in 1 .. Len(s) : /\ s[i].status = "Free" /\ r = Overlap(s[i], b, e)
                                 /\ Larger(s[i].start, b) < Smaller(s[i].end, e)
    BY <1>4
  <2>. QED
    BY <1>1, <1>2, <2>1
<1>. QED
  BY <1>5, <1>6

(* What find_free_memory_in_range finds: nothing, or aligned units inside  *)
(* the window that the map calls free and regular, as many as were asked   *)
(* for; and the map lets them be reserved.                                 *)
LEMMA FoundIs ==
  ASSUME NEW B \in Nat, NEW T, NEW s, Tidy(s, B, T, {"Free", "Reserved"}),
         Word \in Nat, B < Word, NEW align \in Nat \ {0}, B + align <= Word,
         NEW size \in Nat, NEW b \in Nat, NEW e \in Nat, Rooms(s, b, e, size, align) # {},
         NEW found, found = Found(s, b, e, size, align)
  PROVE  /\ Accepts(s, found)
         /\ \/ AddTo(s, found) = s /\ IsEmptyRange(found) /\ Units(found.start, found.end) = {}
            \/ /\ found \in MR(B, T, {"Free", "Reserved"})
               /\ found.start < found.end
               /\ b <= found.start /\ found.end <= e
               /\ found.memtype = "Regular" /\ found.status = "Reserved"
               /\ found.start % align = 0
               /\ size < Word => found.end = found.start + size
               /\ \A u \in Nat : found.start <= u /\ u < found.end => Holds(s, u, "Regular", "Free")
<1>. DEFINE rooms == Rooms(s, b, e, size, align)
            starts == {r.start : r \in rooms}
<1>1. rooms \subseteq FreeRanges(s, b, e)
  BY DEF Rooms
<1>2. starts \subseteq Nat /\ starts # {}
  BY <1>1, FreeRangesAre, SMTT(30)
<1>3. PICK low \in starts : \A x \in starts : low <= x
  <2>. HIDE DEF starts
  <2>. QED
    BY <1>2, LeastElement
<1>4. \E r \in rooms : \A q \in rooms : r.start <= q.start
  BY <1>3
<1>5. PICK r : r = LowestOf(rooms)
  OBVIOUS
<1>6. r \in rooms
  <2>. HIDE DEF rooms
  <2>. QED
    BY <1>4, <1>5 DEF LowestOf
<1>7. r \in FreeRanges(s, b, e) /\ r.memtype = "Regular" /\ Wrap(AlignUp(r.start, align) + size) <= r.end
  BY <1>6 DEF Rooms
<1>8. PICK i \in 1 .. Len(s) :
        /\ s[i].status = "Free" /\ r = Overlap(s[i], b, e) /\ s[i] \in MR(B, T, {"Free", "Reserved"})
        /\ s[i].start \in Nat /\ s[i].end \in Nat
        /\ r.start = Larger(s[i].start, b) /\ r.end = Smaller(s[i].end, e)
        /\ r.memtype = s[i].memtype /\ r.status = "Free"
        /\ r.start \in Nat /\ r.end \in Nat /\ r.start < r.end
  BY <1>7, FreeRangesAre
<1>9. r.end <= B /\ s[i].memtype \in T /\ "Regular" \in T
  BY <1>7, <1>8, RangeFacts DEF Smaller
<1>10. PICK from, to : from = AlignUp(r.start, align) /\ to = Wrap(from + size)
  OBVIOUS
<1>11. from \in Nat /\ r.start <= from /\ from % align = 0
  <2>1. r.start + align <= Word
    BY <1>8, <1>9
  <2>2. PICK k \in Nat : /\ AlignUp(r.start, align) \in Nat /\ r.start <= AlignUp(r.start, align)
                         /\ AlignUp(r.start, align) % align = 0
    BY <1>8, <2>1, UpIs
  <2>. QED
    BY <1>10, <2>2
<1>12. to \in Nat /\ to <= r.end /\ (from + size < Word => to = from + size)
  BY <1>7, <1>10, <1>11, WrapIs
<1>13. found = MemoryRange(from, to, "Regular", "Reserved")
  BY <1>5, <1>7, <1>10 DEF Found
<1>14. /\ found.start = from /\ found.end = to /\ found.memtype = "Regular"
       /\ found.status = "Reserved"
  BY <1>13 DEF MemoryRange
<1>15. CASE from >= to
  <2>1. IsEmptyRange(found)
    BY <1>11, <1>12, <1>14, <1>15 DEF IsEmptyRange
  <2>2. AddTo(s, found) = s /\ Accepts(s, found)
    BY <2>1 DEF AddTo, Accepts
  <2>3. Units(found.start, found.end) = {}
    BY <1>11, <1>12, <1>14, <1>15 DEF Units
  <2>. QED
    BY <2>1, <2>2, <2>3
<1>16. CASE from < to
  <2>1. found \in MR(B, T, {"Free", "Reserved"})
    <3>1. from \in 0 .. B /\ to \in 0 .. B
      BY <1>8, <1>9, <1>11, <1>12, <1>16
    <3>. QED
      BY <1>9, <1>13, <3>1 DEF MemoryRange, MR
  <2>2. ASSUME NEW u \in Nat, found.start <= u, u < found.end PROVE Holds(s, u, "Regular", "Free")
    <3>1. s[i].start <= u /\ u < s[i].end
      BY <1>8, <1>11, <1>12, <1>14, <2>2 DEF Larger, Smaller
    <3>2. In(s[i], u, "Regular", "Free")
      BY <1>7, <1>8, <3>1 DEF In, Same
    <3>3. i \in DOMAIN s
      BY SeqFacts DEF Tidy, Chain
    <3>. QED
      BY <3>2, <3>3 DEF Holds
  <2>3. b <= from /\ to <= e
    BY <1>8, <1>11, <1>12 DEF Larger, Smaller
  <2>4. ASSUME size < Word PROVE to = from + size
    <3>1. SUFFICES ASSUME from + size >= Word PROVE FALSE
      BY <1>11, <1>12
    <3>2. from < Word /\ from + size - Word \in Nat /\ from + size - Word < Word
      BY <1>8, <1>9, <1>11, <1>12, <1>16, <2>4, <3>1
    <3>3. to = from + size - Word
      <4>1. (from + size) % Word = from + size - Word
        BY <1>11, <3>1, <3>2, SMTT(30)
      <4>. QED
        BY <1>10, <4>1 DEF Wrap
    <3>. QED
      BY <1>11, <1>12, <1>16, <2>4, <3>3
  <2>5. Accepts(s, found)
    <3>1. Ready(s, found, B, T, {"Free", "Reserved"})
      BY <1>14, <1>16, <2>1 DEF Ready
    <3>2. ASSUME NEW u \in Nat, NEW t, NEW st, found.start <= u, u < found.end, Holds(s, u, t, st)
          PROVE  t = found.memtype /\ ~ (st = "Reserved" /\ found.status = "Free")
      <4>1. t = "Regular"
        BY <2>2, <3>2, OneEntry
      <4>. QED
        BY <1>14, <4>1
    <3>. QED
      BY <3>1, <3>2, AcceptsIs
  <2>. QED
    BY <1>11, <1>14, <1>16, <2>1, <2>2, <2>3, <2>4, <2>5
<1>. QED
  BY <1>11, <1>12, <1>15, <1>16

(* So it is free memory, or nothing at all.                                *)
IsBlock(s, found, B, T) ==
  /\ Accepts(s, found)
  /\ \/ AddTo(s, found) = s /\ Units(found.start, found.end) = {}
     \/ /\ found \in MR(B, T, {"Free", "Reserved"})
        /\ found.memtype = "Regular" /\ found.status = "Reserved"
        /\ \A u \in Nat : found.start <= u /\ u < found.end => Holds(s, u, "Regular", "Free")

(* What is found has that form.                                            *)
LEMMA BlockIsFree ==
  ASSUME NEW B \in Nat, NEW T, NEW s, Tidy(s, B, T, {"Free", "Reserved"}),
         Word \in Nat, B < Word, NEW align \in Nat \ {0}, B + align <= Word,
         NEW size \in Nat, NEW b \in Nat, NEW e \in Nat, Rooms(s, b, e, size, align) # {}
  PROVE  IsBlock(s, Found(s, b, e, size, align), B, T)
<1>1. PICK found : found = Found(s, b, e, size, align)
  OBVIOUS
<1>2. Accepts(s, found)
  BY <1>1, FoundIs
<1>3. \/ AddTo(s, found) = s /\ Units(found.start, found.end) = {}
      \/ /\ found \in MR(B, T, {"Free", "Reserved"})
         /\ found.memtype = "Regular" /\ found.status = "Reserved"
         /\ \A u \in Nat : found.start <= u /\ u < found.end => Holds(s, u, "Regular", "Free")
  BY <1>1, FoundIs, SMTT(30)
<1>. QED
  BY <1>1, <1>2, <1>3 DEF IsBlock

(* In a tidy map a run of free regular units lies in one range.            *)
LEMMA RunInOneRange ==
  ASSUME NEW B \in Nat, NEW T, NEW S, NEW s, Tidy(s, B, T, S), NEW a \in Nat, NEW size \in Nat \ {0},
         NEW t, NEW st, \A u \in a .. a + size - 1 : Holds(s, u, t, st)
  PROVE  \E i \in 1 .. Len(s) : Same(s[i], t, st) /\ s[i].start <= a /\ a + size <= s[i].end
<1>a. PICK n : n = Len(s)
  OBVIOUS
<1>1. /\ n \in Nat /\ DOMAIN s = 1 .. n
      /\ \A i \in 1 .. n : s[i].start \in Nat /\ s[i].end \in Nat /\ s[i].start < s[i].end
      /\ \A i, j \in 1 .. n : i < j => s[i].end <= s[j].start
  <2>1. /\ n \in Nat /\ DOMAIN s = 1 .. n /\ s \in Seq(MR(B, T, S))
        /\ \A i \in 1 .. n : s[i].start \in Nat /\ s[i].end \in Nat
    BY <1>a, SeqFacts DEF Tidy, Chain
  <2>. QED
    BY <2>1 DEF Tidy, Chain, NoneEmpty
<1>2. a \in a .. a + size - 1
  OBVIOUS
<1>3. PICK i \in 1 .. n : In(s[i], a, t, st)
  BY <1>1, <1>2 DEF Holds
<1>4. PICK hi : hi = s[i].end
  OBVIOUS
<1>5. Same(s[i], t, st) /\ s[i].start <= a /\ a < hi /\ hi \in Nat /\ s[i].start \in Nat
  BY <1>1, <1>3, <1>4 DEF In
<1>6. ASSUME hi < a + size PROVE FALSE
  <2>1. hi \in a .. a + size - 1
    BY <1>5, <1>6
  <2>2. PICK j \in 1 .. n : In(s[j], hi, t, st)
    BY <1>1, <2>1 DEF Holds
  <2>3. /\ Same(s[j], t, st) /\ s[j].start <= hi /\ hi < s[j].end
        /\ s[j].start \in Nat /\ s[j].end \in Nat
    BY <1>1, <2>2 DEF In
  <2>4. i < j
    <3>1. j # i
      BY <1>4, <1>5, <2>3
    <3>2. ~ (j < i)
      BY <1>1, <1>5, <2>3
    <3>. QED
      BY <3>1, <3>2
  <2>5. PICK k : k = i + 1
    OBVIOUS
  <2>6. k \in 1 .. n /\ i < k /\ i \in 1 .. n - 1
    BY <1>1, <2>4, <2>5
  <2>7. hi <= s[k].start /\ s[k].start < s[k].end /\ s[k].start \in Nat /\ s[k].end \in Nat
    BY <1>1, <1>4, <2>6
  <2>8. k = j
    <3>1. SUFFICES ASSUME k < j PROVE FALSE
      BY <2>4, <2>5
    <3>2. s[k].end <= s[j].start
      BY <1>1, <2>6, <3>1
    <3>. QED
      BY <1>5, <2>3, <2>7, <3>2
  <2>9. s[k].start = hi
    BY <1>5, <2>3, <2>7, <2>8
  <2>10. CanConcat(s[i], s[k])
    BY <1>4, <1>5, <2>3, <2>8, <2>9 DEF CanConcat, Same
  <2>. QED
    BY <1>a, <2>5, <2>6, <2>10 DEF Tidy, NoneConcat
<1>. QED
  BY <1>a, <1>3, <1>4, <1>5, <1>6

(* The search finds every aligned run of free regular memory.              *)
LEMMA RoomIsFound ==
  ASSUME NEW B \in Nat, NEW T, NEW s, Tidy(s, B, T, {"Free", "Reserved"}),
         Word \in Nat, B < Word, NEW align \in Nat \ {0}, B + align <= Word,
         NEW size \in Nat \ {0}, NEW b \in Nat, NEW e \in Nat,
         NEW k \in Nat, b <= k * align, k * align + size <= e,
         \A u \in k * align .. k * align + size - 1 : Holds(s, u, "Regular", "Free")
  PROVE  Rooms(s, b, e, size, align) # {}
<1>a. PICK a : a = k * align
  OBVIOUS
<1>1. a \in Nat /\ b <= a /\ a + size <= e
  BY <1>a, Products
<1>2. PICK i \in 1 .. Len(s) : Same(s[i], "Regular", "Free") /\ s[i].start <= a /\ a + size <= s[i].end
  BY <1>1, <1>a, RunInOneRange
<1>3. s[i] \in MR(B, T, {"Free", "Reserved"}) /\ s[i].start \in Nat /\ s[i].end \in Nat
  BY SeqFacts DEF Tidy, Chain
<1>4. s[i].end <= B
  BY <1>3, RangeFacts
<1>5. PICK r : r = Overlap(s[i], b, e)
  OBVIOUS
<1>6. /\ r.start = Larger(s[i].start, b) /\ r.end = Smaller(s[i].end, e)
      /\ r.memtype = "Regular"
  BY <1>2, <1>3, <1>5 DEF Overlap, MR, Same
<1>7. /\ r.start \in Nat /\ r.end \in Nat /\ r.start <= a /\ a + size <= r.end /\ r.end <= B
      /\ s[i].status = "Free"
  BY <1>1, <1>2, <1>3, <1>4, <1>6 DEF Larger, Smaller, Same
<1>8. r \in FreeRanges(s, b, e)
  <2>1. Larger(s[i].start, b) < Smaller(s[i].end, e)
    BY <1>1, <1>6, <1>7
  <2>. QED
    BY <1>5, <1>7, <2>1, FreeRangesAre
<1>9. AlignUp(r.start, align) \in Nat /\ AlignUp(r.start, align) <= a
  <2>1. r.start + align <= Word
    BY <1>1, <1>7
  <2>2. PICK q \in Nat : /\ AlignUp(r.start, align) = q * align /\ AlignUp(r.start, align) \in Nat
                         /\ \A j \in Nat : q <= j <=> r.start <= j * align
    BY <1>7, <2>1, UpIs
  <2>3. q <= k
    BY <1>7, <1>a, <2>2
  <2>. QED
    BY <1>a, <2>2, <2>3, Products
<1>10. Wrap(AlignUp(r.start, align) + size) <= r.end
  <2>0. PICK y : y = AlignUp(r.start, align) + size
    OBVIOUS
  <2>1. y \in Nat /\ y < Word /\ y <= r.end
    BY <1>1, <1>7, <1>9, <2>0, SMTT(30)
  <2>2. Wrap(y) = y
    BY <2>1, WrapIs
  <2>. QED
    BY <2>0, <2>1, <2>2
<1>. QED
  BY <1>6, <1>8, <1>10 DEF Rooms

(* The units a specification speaks of are those a map holds.              *)
LEMMA UnitsAre ==
  ASSUME NEW B \in Nat, NEW T, NEW S, NEW s, Tidy(s, B, T, S)
  PROVE  /\ \A t, st, u : u \in UnitsAs(s, t, st) <=> u \in Nat /\ Holds(s, u, t, st)
         /\ \A t, u : u \in UnitsOfType(s, t) <=> u \in Nat /\ \E st : Holds(s, u, t, st)
<1>1. \A i \in DOMAIN s : s[i].start \in Nat /\ s[i].end \in Nat
  BY SeqFacts DEF Tidy, Chain
<1>2. \A i \in DOMAIN s : \A u : u \in Units(s[i].start, s[i].end)
                               <=> u \in Nat /\ s[i].start <= u /\ u < s[i].end
  BY <1>1 DEF Units
<1>3. \A I, u : u \in UnitsOf(s, I) <=> \E i \in I : u \in Units(s[i].start, s[i].end)
  BY DEF UnitsOf
<1>4. ASSUME NEW t, NEW st, NEW u
      PROVE  u \in UnitsAs(s, t, st) <=> u \in Nat /\ Holds(s, u, t, st)
  BY <1>2, <1>3 DEF UnitsAs, Holds, In, Same
<1>5. ASSUME NEW t, NEW u
      PROVE  u \in UnitsOfType(s, t) <=> u \in Nat /\ \E st : Holds(s, u, t, st)
  BY <1>2, <1>3 DEF UnitsOfType, Holds, In, Same
<1>. QED
  BY <1>4, <1>5

-----------------------------------------------------------------------------
(* The map: its inductive invariant.                                       *)

(* The two maps say the same of the types.                                 *)
AgreeOnTypes(s, z) ==
  \A u \in Nat : \A t : (\E st : Holds(s, u, t, st)) <=> (\E st : Holds(z, u, t, st))

MapInv ==
  /\ Tidy(memory, Limit, MemoryTypes, {"Free", "Reserved"})
  /\ Tidy(zones, Limit, MemoryTypes, {"Unknown"})
  /\ ~ failed => AgreeOnTypes(memory, zones)
  /\ failed \in BOOLEAN /\ panicked \in BOOLEAN
  /\ blocks \subseteq Addresses \X (1 .. MaxSize)

(* An empty map.                                                           *)
LEMMA EmptyMap ==
  ASSUME NEW B, NEW T, NEW S
  PROVE  /\ Tidy(<<>>, B, T, S)
         /\ \A u, t, st : ~ Holds(<<>>, u, t, st)
BY DEF Tidy, Chain, NoneEmpty, NoneConcat, Holds

(* An update of both parts keeps both tidy; when both accept it, they      *)
(* still agree.                                                            *)
LEMMA UpdateKeeps ==
  ASSUME NEW B \in Nat, NEW T,
         Tidy(memory, B, T, {"Free", "Reserved"}), Tidy(zones, B, T, {"Unknown"}),
         NEW mem \in MR(B, T, {"Free", "Reserved"}), UpdateBoth(mem)
  PROVE  /\ Tidy(memory', B, T, {"Free", "Reserved"}) /\ Tidy(zones', B, T, {"Unknown"})
         /\ \A u \in Nat : \A t, st :
              Holds(memory', u, t, st) <=>
                IF Accepts(memory, mem) /\ mem.start <= u /\ u < mem.end THEN Same(mem, t, st)
                ELSE Holds(memory, u, t, st)
         /\ AgreeOnTypes(memory, zones) /\ BothAccept(mem) => AgreeOnTypes(memory', zones')
<1>1. /\ Tidy(memory', B, T, {"Free", "Reserved"})
      /\ \A u \in Nat : \A t, st :
              Holds(memory', u, t, st) <=>
                IF Accepts(memory, mem) /\ mem.start <= u /\ u < mem.end THEN Same(mem, t, st)
                ELSE Holds(memory, u, t, st)
  BY AddToKeeps DEF UpdateBoth
<1>2. PICK zone : zone = ZoneOf(mem)
  OBVIOUS
<1>3. /\ zone \in MR(B, T, {"Unknown"}) /\ zone.start = mem.start /\ zone.end = mem.end
      /\ zone.memtype = mem.memtype
  BY <1>2 DEF ZoneOf, MR
<1>4. /\ Tidy(zones', B, T, {"Unknown"})
      /\ \A u \in Nat : \A t, st :
              Holds(zones', u, t, st) <=>
                IF Accepts(zones, zone) /\ zone.start <= u /\ u < zone.end THEN Same(zone, t, st)
                ELSE Holds(zones, u, t, st)
  BY <1>2, <1>3, AddToKeeps DEF UpdateBoth
<1>5. ASSUME AgreeOnTypes(memory, zones), BothAccept(mem), NEW u \in Nat, NEW t
      PROVE  (\E st : Holds(memory', u, t, st)) <=> (\E st : Holds(zones', u, t, st))
  <2>0. Accepts(memory, mem) /\ Accepts(zones, zone)
    BY <1>2, <1>5 DEF BothAccept
  <2>1. CASE mem.start <= u /\ u < mem.end
    <3>1. (\E st : Holds(memory', u, t, st)) <=> mem.memtype = t
      BY <1>1, <2>0, <2>1 DEF Same
    <3>2. (\E st : Holds(zones', u, t, st)) <=> mem.memtype = t
      BY <1>3, <1>4, <2>0, <2>1 DEF Same
    <3>. QED
      BY <3>1, <3>2
  <2>2. CASE ~ (mem.start <= u /\ u < mem.end)
    BY <1>1, <1>3, <1>4, <1>5, <2>2 DEF AgreeOnTypes
  <2>. QED
    BY <2>1, <2>2
<1>6. AgreeOnTypes(memory, zones) /\ BothAccept(mem) => AgreeOnTypes(memory', zones')
  BY <1>5 DEF AgreeOnTypes
<1>. QED
  BY <1>1, <1>4, <1>6

(* add_memory and reserve_memory.                                          *)
LEMMA DescribeInv ==
  ASSUME MapInv, NEW b \in Bounds, NEW e \in Bounds, NEW t \in MemoryTypes,
         NEW st \in {"Free", "Reserved"}, DescribeAs(b, e, t, st)
  PROVE  MapInv'
<1>1. PICK mem : mem = MemoryRange(b, e, t, st)
  OBVIOUS
<1>2. Limit \in Nat /\ mem \in MR(Limit, MemoryTypes, {"Free", "Reserved"})
  BY <1>1, MapAssumption DEF MemoryRange, MR, Bounds
<1>3. /\ UpdateBoth(mem) /\ failed' = (failed \/ ~ BothAccept(mem))
      /\ UNCHANGED <<panicked, blocks>>
  BY <1>1 DEF DescribeAs
<1>4. /\ Tidy(memory', Limit, MemoryTypes, {"Free", "Reserved"})
      /\ Tidy(zones', Limit, MemoryTypes, {"Unknown"})
      /\ AgreeOnTypes(memory, zones) /\ BothAccept(mem) => AgreeOnTypes(memory', zones')
  BY <1>2, <1>3, UpdateKeeps DEF MapInv
<1>5. failed' \in BOOLEAN /\ (~ failed' => AgreeOnTypes(memory', zones'))
  BY <1>3, <1>4 DEF MapInv
<1>. QED
  BY <1>3, <1>4, <1>5 DEF MapInv, Addresses

(* An allocation reserves a block of free regular memory, or nothing.      *)
Taken(a, size) ==
  /\ a \in Nat /\ size \in Nat \ {0} /\ a + size <= Limit
  /\ \A u \in Nat : a <= u /\ u < a + size => Holds(memory, u, "Regular", "Free")
  /\ \A u \in Nat : \A t, st :
       Holds(memory', u, t, st) <=>
         IF a <= u /\ u < a + size THEN t = "Regular" /\ st = "Reserved"
         ELSE Holds(memory, u, t, st)
  /\ blocks' = blocks \cup {<<a, size>>}

(* What a call that found room does.                                       *)
LEMMA TakeIs ==
  ASSUME MapInv, NEW b \in Nat, NEW e \in Nat, NEW size \in 0 .. MaxSize, NEW align \in Aligns,
         HasRoom(b, e, size, align), Take(b, e, size, align)
  PROVE  /\ Tidy(memory', Limit, MemoryTypes, {"Free", "Reserved"})
         /\ UNCHANGED <<zones, failed, panicked>>
         /\ UNCHANGED <<memory, blocks>> \/ \E a : Taken(a, size)
<1>1. /\ Limit \in Nat /\ Word \in Nat /\ Limit < Word /\ align \in Nat \ {0}
      /\ Limit + align <= Word /\ size \in Nat /\ size < Word /\ size <= MaxSize
  BY MapAssumption
<1>2. PICK found : found = Found(memory, b, e, size, align)
  OBVIOUS
<1>3. /\ memory' = AddTo(memory, found)
      /\ blocks' = IF IsEmptyRange(found) THEN blocks ELSE blocks \cup {<<found.start, size>>}
      /\ UNCHANGED <<zones, failed, panicked>>
  BY <1>2 DEF Take
<1>4. Tidy(memory, Limit, MemoryTypes, {"Free", "Reserved"})
  BY DEF MapInv
<1>5. /\ Accepts(memory, found)
      /\ \/ AddTo(memory, found) = memory /\ IsEmptyRange(found)
         \/ /\ found \in MR(Limit, MemoryTypes, {"Free", "Reserved"})
            /\ found.start < found.end
            /\ found.memtype = "Regular" /\ found.status = "Reserved"
            /\ size < Word => found.end = found.start + size
            /\ \A u \in Nat : found.start <= u /\ u < found.end => Holds(memory, u, "Regular", "Free")
  BY <1>1, <1>2, <1>4, FoundIs DEF HasRoom
<1>6. CASE AddTo(memory, found) = memory /\ IsEmptyRange(found)
  BY <1>3, <1>4, <1>6
<1>7. CASE /\ found \in MR(Limit, MemoryTypes, {"Free", "Reserved"})
           /\ found.start < found.end
           /\ found.memtype = "Regular" /\ found.status = "Reserved"
           /\ size < Word => found.end = found.start + size
           /\ \A u \in Nat : found.start <= u /\ u < found.end => Holds(memory, u, "Regular", "Free")
  <2>1. PICK a : a = found.start
    OBVIOUS
  <2>2. /\ a \in Nat /\ found.end \in 0 .. Limit /\ found.end = a + size /\ size \in Nat \ {0}
    BY <1>1, <1>7, <2>1, RangeFacts
  <2>3. /\ Tidy(AddTo(memory, found), Limit, MemoryTypes, {"Free", "Reserved"})
        /\ \A u \in Nat : \A t, st :
             Holds(AddTo(memory, found), u, t, st) <=>
               IF Accepts(memory, found) /\ found.start <= u /\ u < found.end THEN Same(found, t, st)
               ELSE Holds(memory, u, t, st)
    BY <1>1, <1>4, <1>7, AddToKeeps
  <2>4. \A u \in Nat : \A t, st :
             Holds(memory', u, t, st) <=>
               IF a <= u /\ u < a + size THEN t = "Regular" /\ st = "Reserved"
               ELSE Holds(memory, u, t, st)
    <3>1. \A t, st : Same(found, t, st) <=> t = "Regular" /\ st = "Reserved"
      BY <1>7 DEF Same
    <3>. QED
      BY <1>3, <1>5, <2>1, <2>2, <2>3, <3>1
  <2>5. blocks' = blocks \cup {<<a, size>>}
    BY <1>3, <1>7, <2>1, <2>2 DEF IsEmptyRange
  <2>6. Taken(a, size)
    BY <1>7, <2>1, <2>2, <2>4, <2>5 DEF Taken
  <2>. QED
    BY <1>3, <2>3, <2>6
<1>. QED
  BY <1>5, <1>6, <1>7

(* allocate and allocate_with_hint.                                        *)
LEMMA AllocateIs ==
  ASSUME MapInv, NEW w \in Windows, NEW size \in 0 .. MaxSize, NEW align \in Aligns,
         Allocate(w[1], w[2], size, align)
  PROVE  /\ Tidy(memory', Limit, MemoryTypes, {"Free", "Reserved"})
         /\ UNCHANGED <<zones, failed, panicked>>
         /\ UNCHANGED <<memory, blocks>> \/ \E a : Taken(a, size)
<1>1. w[1] \in Nat /\ w[2] \in Nat /\ 0 \in Nat /\ Word - 1 \in Nat
  BY MapAssumption DEF Windows, Bounds
<1>2. CASE HasRoom(w[1], w[2], size, align) /\ Take(w[1], w[2], size, align)
  BY <1>1, <1>2, TakeIs
<1>3. CASE HasRoom(0, Word - 1, size, align) /\ Take(0, Word - 1, size, align)
  <2>1. PICK top : top = Word - 1
    OBVIOUS
  <2>2. HasRoom(0, top, size, align) /\ Take(0, top, size, align) /\ top \in Nat
    BY <1>1, <1>3, <2>1
  <2>. QED
    BY <2>2, TakeIs
<1>. QED
  BY <1>2, <1>3 DEF Allocate

(* An allocation keeps the two parts of the map in step.                   *)
LEMMA AllocateInv ==
  ASSUME MapInv, NEW w \in Windows, NEW size \in 0 .. MaxSize, NEW align \in Aligns,
         Allocate(w[1], w[2], size, align)
  PROVE  MapInv'
<1>1. /\ Tidy(memory', Limit, MemoryTypes, {"Free", "Reserved"})
      /\ UNCHANGED <<zones, failed, panicked>>
  BY AllocateIs
<1>2. CASE UNCHANGED <<memory, blocks>>
  BY <1>1, <1>2 DEF MapInv, Addresses
<1>3. CASE \E a : Taken(a, size)
  <2>1. PICK a : Taken(a, size)
    BY <1>3
  <2>2. blocks' \subseteq Addresses \X (1 .. MaxSize)
    <3>1. a \in Addresses /\ size \in 1 .. MaxSize
      BY <2>1, MapAssumption DEF Taken, Addresses
    <3>. QED
      BY <2>1, <3>1 DEF Taken, MapInv
  <2>3. ASSUME NEW u \in Nat, NEW t
        PROVE  (\E st : Holds(memory', u, t, st)) <=> (\E st : Holds(memory, u, t, st))
    <3>1. CASE a <= u /\ u < a + size
      <4>1. Holds(memory, u, "Regular", "Free")
        BY <2>1, <3>1 DEF Taken
      <4>2. \A t2, st2 : Holds(memory, u, t2, st2) => t2 = "Regular"
        BY <4>1, OneEntry, MapAssumption DEF MapInv
      <4>3. (\E st : Holds(memory', u, t, st)) <=> t = "Regular"
        BY <2>1, <3>1 DEF Taken
      <4>. QED
        BY <4>1, <4>2, <4>3
    <3>2. CASE ~ (a <= u /\ u < a + size)
      BY <2>1, <3>2 DEF Taken
    <3>. QED
      BY <3>1, <3>2
  <2>4. AgreeOnTypes(memory, zones) => AgreeOnTypes(memory', zones)
    BY <2>3 DEF AgreeOnTypes
  <2>. QED
    BY <1>1, <2>2, <2>4 DEF MapInv, Addresses
<1>. QED
  BY <1>2, <1>3, AllocateIs

(* Every step keeps the invariant.                                         *)
LEMMA MapStepInv ==
  ASSUME MapInv, [MapNext]_mapVars
  PROVE  MapInv'
<1>1. ASSUME NEW b \in Bounds, NEW e \in Bounds, NEW t \in MemoryTypes,
             AddMemory(b, e, t) \/ ReserveMemory(b, e, t)
      PROVE  MapInv'
  BY <1>1, DescribeInv DEF AddMemory, ReserveMemory
<1>2. ASSUME NEW w \in Windows, NEW size \in 0 .. MaxSize, NEW align \in Aligns,
             Allocate(w[1], w[2], size, align)
      PROVE  MapInv'
  BY <1>2, AllocateInv
<1>3. CASE UNCHANGED mapVars
  BY <1>3 DEF MapInv, mapVars, Addresses
<1>4. ASSUME NEW w \in Windows, NEW size \in 0 .. MaxSize, NEW align \in Aligns,
             AllocateFails(w[1], w[2], size, align)
      PROVE  MapInv'
  BY <1>3, <1>4 DEF AllocateFails
<1>5. ASSUME NEW w \in Windows, NEW size \in 0 .. MaxSize, NEW align \in Aligns,
             AllocatePanics(w[1], w[2], size, align)
      PROVE  MapInv'
  BY <1>5 DEF AllocatePanics, MapInv, Addresses
<1>. QED
  BY <1>1, <1>2, <1>3, <1>4, <1>5 DEF MapNext, MapPanicked

(* After any calls the two maps are tidy, and they agree on the types as   *)
(* long as no call has failed.                                             *)
THEOREM RustMapInvariant == MapSpec => []MapInv
<1>1. MapInit => MapInv
  BY EmptyMap DEF MapInit, MapInv, AgreeOnTypes
<1>2. MapInv /\ [MapNext]_mapVars => MapInv'
  BY MapStepInv
<1>. QED
  BY <1>1, <1>2, PTL DEF MapSpec

(* The ranges of both parts are sorted, none is empty, no two overlap and  *)
(* no two neighbours could be one, whatever was added, cut, refused and    *)
(* allocated: on which the binary search of equal_range rests.             *)
THEOREM MapsStayCanonical == MapSpec => []MapsCanonical
<1>1. ASSUME NEW B \in Nat, NEW T, NEW S, NEW s, Tidy(s, B, T, S) PROVE Canonical(s)
  <2>1. /\ Len(s) \in Nat /\ DOMAIN s = 1 .. Len(s)
        /\ \A i \in 1 .. Len(s) : s[i].start \in Nat /\ s[i].end \in Nat
    BY <1>1, SeqFacts DEF Tidy, Chain
  <2>2. \A i \in DOMAIN s : ~ IsEmptyRange(s[i])
    BY <1>1, <2>1 DEF IsEmptyRange, Tidy, NoneEmpty
  <2>3. ASSUME NEW i \in 1 .. Len(s) - 1
        PROVE  s[i].end <= s[i + 1].start /\ ~ CanConcat(s[i], s[i + 1])
    <3>1. i \in 1 .. Len(s) /\ i + 1 \in 1 .. Len(s) /\ i < i + 1
      BY <2>1
    <3>. QED
      BY <1>1, <2>1, <3>1 DEF Tidy, Chain, NoneConcat
  <2>. QED
    BY <2>2, <2>3 DEF Canonical
<1>2. \A S : MR(Limit, MemoryTypes, S) = Ranges(S)
  BY DEF MR, Ranges, Bounds
<1>3. MapInv => MapTypeOK
  BY <1>2 DEF MapInv, MapTypeOK, Tidy, Chain
<1>4. MapInv => Canonical(memory) /\ Canonical(zones)
  BY <1>1, MapAssumption DEF MapInv
<1>5. MapInv => MapsCanonical
  BY <1>3, <1>4 DEF MapsCanonical
<1>. QED
  BY <1>5, RustMapInvariant, PTL

(* The zones of a type cover the memory of that type, free and reserved,   *)
(* as long as no call has failed.                                          *)
THEOREM ZonesAndMemoryAgree == MapSpec => []ZonesCoverMemory
<1>1. MapInv => ZonesCoverMemory
  <2>1. SUFFICES ASSUME MapInv, ~ failed, NEW t \in MemoryTypes
                 PROVE  UnitsOfType(zones, t) = UnitsOfType(memory, t)
    BY DEF ZonesCoverMemory
  <2>2. \A u : u \in UnitsOfType(zones, t) <=> u \in Nat /\ \E st : Holds(zones, u, t, st)
    BY <2>1, UnitsAre, MapAssumption DEF MapInv
  <2>3. \A u : u \in UnitsOfType(memory, t) <=> u \in Nat /\ \E st : Holds(memory, u, t, st)
    BY <2>1, UnitsAre, MapAssumption DEF MapInv
  <2>4. \A u \in Nat : (\E st : Holds(memory, u, t, st)) <=> (\E st : Holds(zones, u, t, st))
    BY <2>1 DEF MapInv, AgreeOnTypes
  <2>. QED
    BY <2>2, <2>3, <2>4
<1>. QED
  BY <1>1, RustMapInvariant, PTL

(* An aligned run of free regular memory in the window is always found,    *)
(* and the map never refuses to reserve what was found: allocate_in_range  *)
(* does not panic on its own search.                                       *)
THEOREM MapAllocationIsComplete == MapSpec => []AllocationComplete
<1>1. MapInv => AllocationComplete
  <2>1. SUFFICES ASSUME MapInv, NEW align \in Aligns, NEW size \in 1 .. MaxSize,
                        NEW b \in Bounds, NEW e \in Bounds
                 PROVE  /\ {a \in b .. e - size : a % align = 0 /\ Unused(a, size)} # {}
                             => HasRoom(b, e, size, align)
                        /\ HasRoom(b, e, size, align)
                             => Accepts(memory, Found(memory, b, e, size, align))
    BY DEF AllocationComplete
  <2>2. /\ Limit \in Nat /\ Word \in Nat /\ Limit < Word /\ align \in Nat \ {0}
        /\ Limit + align <= Word /\ size \in Nat \ {0} /\ b \in Nat /\ e \in Nat
    BY MapAssumption DEF Bounds
  <2>3. Tidy(memory, Limit, MemoryTypes, {"Free", "Reserved"})
    BY <2>1 DEF MapInv
  <2>4. ASSUME NEW a \in b .. e - size, a % align = 0, Unused(a, size)
        PROVE  HasRoom(b, e, size, align)
    <3>1. a \in Nat /\ b <= a /\ a + size <= e
      BY <2>2
    <3>2. PICK k : k = a \div align
      OBVIOUS
    <3>3. k \in Nat /\ k * align = a
      <4>1. k \in Nat
        BY <2>2, <3>1, <3>2, Down
      <4>2. align * (a \div align) + (a % align) = a
        BY <2>2, <3>1
      <4>3. k * align = align * k
        BY <2>2, <4>1
      <4>4. align * k = a
        <5>1. align * k \in Nat /\ align * k + 0 = a
          BY <2>2, <2>4, <3>2, <4>1, <4>2
        <5>. QED
          BY <5>1
      <4>. QED
        BY <4>1, <4>3, <4>4
    <3>4. ASSUME NEW u \in k * align .. k * align + size - 1 PROVE Holds(memory, u, "Regular", "Free")
      <4>1. u \in Units(a, a + size)
        BY <2>2, <3>1, <3>3 DEF Units
      <4>2. u \in UnitsAs(memory, "Regular", "Free")
        BY <2>4, <4>1 DEF Unused
      <4>. QED
        BY <2>2, <2>3, <4>2, UnitsAre
    <3>5. b <= k * align /\ k * align + size <= e
      BY <3>1, <3>3
    <3>. QED
      BY <2>2, <2>3, <3>3, <3>4, <3>5, RoomIsFound DEF HasRoom
  <2>5. ASSUME HasRoom(b, e, size, align)
        PROVE  Accepts(memory, Found(memory, b, e, size, align))
    <3>1. size \in Nat
      BY <2>2
    <3>2. PICK found : found = Found(memory, b, e, size, align)
      OBVIOUS
    <3>3. Accepts(memory, found)
      BY <2>2, <2>3, <2>5, <3>1, <3>2, FoundIs DEF HasRoom
    <3>. QED
      BY <3>2, <3>3
  <2>. QED
    BY <2>4, <2>5
<1>. QED
  BY <1>1, RustMapInvariant, PTL

-----------------------------------------------------------------------------
(* The map implements the book.                                            *)

(* What map s says of address u.                                           *)
EntryIn(s, u) ==
  LET S == {i \in DOMAIN s : u \in Units(s[i].start, s[i].end)}
  IN  IF S = {} THEN NoMemory ELSE LET r == s[CHOOSE i \in S : TRUE] IN <<r.memtype, r.status>>

(* An entry is what the map holds.                                         *)
LEMMA EntryIs ==
  ASSUME NEW B \in Nat, NEW T, NEW S, NEW s, Tidy(s, B, T, S), NEW u \in Nat
  PROVE  /\ \A t, st : Holds(s, u, t, st) => EntryIn(s, u) = <<t, st>>
         /\ (\A t, st : ~ Holds(s, u, t, st)) => EntryIn(s, u) = NoMemory
<1>1. \A i \in DOMAIN s : s[i].start \in Nat /\ s[i].end \in Nat
  BY SeqFacts DEF Tidy, Chain
<1>2. \A i \in DOMAIN s : u \in Units(s[i].start, s[i].end) <=> s[i].start <= u /\ u < s[i].end
  BY <1>1 DEF Units
<1>3. PICK at : at = {i \in DOMAIN s : u \in Units(s[i].start, s[i].end)}
  OBVIOUS
<1>4. PICK i : i = CHOOSE j \in at : TRUE
  OBVIOUS
<1>5. ASSUME at # {}
      PROVE  EntryIn(s, u) = <<s[i].memtype, s[i].status>> /\ Holds(s, u, s[i].memtype, s[i].status)
  <2>1. i \in at
    BY <1>4, <1>5
  <2>2. In(s[i], u, s[i].memtype, s[i].status) /\ i \in DOMAIN s
    BY <1>2, <1>3, <2>1 DEF In, Same
  <2>3. EntryIn(s, u) = <<s[i].memtype, s[i].status>>
    BY <1>3, <1>4, <1>5 DEF EntryIn
  <2>. QED
    BY <2>2, <2>3 DEF Holds
<1>6. ASSUME NEW t, NEW st, Holds(s, u, t, st) PROVE EntryIn(s, u) = <<t, st>>
  <2>1. at # {}
    BY <1>2, <1>3, <1>6 DEF Holds, In
  <2>2. s[i].memtype = t /\ s[i].status = st
    BY <1>5, <1>6, <2>1, OneEntry
  <2>. QED
    BY <1>5, <2>1, <2>2
<1>7. ASSUME \A t, st : ~ Holds(s, u, t, st) PROVE EntryIn(s, u) = NoMemory
  <2>1. at = {}
    BY <1>5, <1>7
  <2>. QED
    BY <1>3, <2>1 DEF EntryIn
<1>. QED
  BY <1>6, <1>7

(* new says <<t, st>> of the units from b to e - 1, and of others what s   *)
(* says.                                                                   *)
Rewritten(new, s, b, e, t, st) ==
  \A u \in Nat : \A t2, st2 :
    Holds(new, u, t2, st2) <=> IF b <= u /\ u < e THEN t2 = t /\ st2 = st
                               ELSE Holds(s, u, t2, st2)

(* A change of the map is the same change of the book.                     *)
LEMMA BookWrite ==
  ASSUME NEW B \in Nat, NEW T, NEW S, NEW s, Tidy(s, B, T, S), NEW new, Tidy(new, B, T, S),
         NEW b \in Nat, NEW e \in Nat, NEW t, NEW st, Rewritten(new, s, b, e, t, st)
  PROVE  \A u \in Nat : EntryIn(new, u) = IF u \in b .. e - 1 THEN <<t, st>> ELSE EntryIn(s, u)
<1>1. SUFFICES ASSUME NEW u \in Nat
               PROVE  EntryIn(new, u) = IF u \in b .. e - 1 THEN <<t, st>> ELSE EntryIn(s, u)
  OBVIOUS
<1>2. CASE u \in b .. e - 1
  <2>1. Holds(new, u, t, st)
    BY <1>2 DEF Rewritten
  <2>. QED
    BY <1>2, <2>1, EntryIs
<1>3. CASE u \notin b .. e - 1
  <2>1. \A t2, st2 : Holds(new, u, t2, st2) <=> Holds(s, u, t2, st2)
    BY <1>3 DEF Rewritten
  <2>2. CASE \E t2, st2 : Holds(s, u, t2, st2)
    <3>1. PICK t2, st2 : Holds(s, u, t2, st2)
      BY <2>2
    <3>2. EntryIn(new, u) = <<t2, st2>> /\ EntryIn(s, u) = <<t2, st2>>
      BY <2>1, <3>1, EntryIs
    <3>. QED
      BY <1>3, <3>2
  <2>3. CASE ~ \E t2, st2 : Holds(s, u, t2, st2)
    <3>1. EntryIn(new, u) = NoMemory /\ EntryIn(s, u) = NoMemory
      BY <2>1, <2>3, EntryIs
    <3>. QED
      BY <1>3, <3>1
  <2>. QED
    BY <2>2, <2>3
<1>. QED
  BY <1>2, <1>3

Book(s) == [u \in Addresses |-> EntryIn(s, u)]

(* add_memory and reserve_memory do to the book what the book allows, or   *)
(* nothing.                                                                *)
LEMMA DescribeBook ==
  ASSUME MapInv, NEW b \in Bounds, NEW e \in Bounds, NEW t \in MemoryTypes,
         NEW st \in {"Free", "Reserved"}, DescribeAs(b, e, t, st)
  PROVE  UNCHANGED <<memory, blocks>> \/ Abstract!Describe(b, e, t, st)
<1>1. PICK mem : mem = MemoryRange(b, e, t, st)
  OBVIOUS
<1>2. /\ Limit \in Nat /\ mem \in MR(Limit, MemoryTypes, {"Free", "Reserved"})
      /\ b \in Nat /\ e \in Nat
      /\ mem.start = b /\ mem.end = e /\ mem.memtype = t /\ mem.status = st
  BY <1>1, MapAssumption DEF MemoryRange, MR, Bounds
<1>3. memory' = AddTo(memory, mem) /\ UNCHANGED blocks
  BY <1>1 DEF DescribeAs, UpdateBoth
<1>4. Tidy(memory, Limit, MemoryTypes, {"Free", "Reserved"})
  BY DEF MapInv
<1>5. /\ Tidy(memory', Limit, MemoryTypes, {"Free", "Reserved"})
      /\ \A u \in Nat : \A t2, st2 :
              Holds(memory', u, t2, st2) <=>
                IF Accepts(memory, mem) /\ mem.start <= u /\ u < mem.end THEN Same(mem, t2, st2)
                ELSE Holds(memory, u, t2, st2)
  BY <1>2, <1>3, <1>4, AddToKeeps
<1>6. CASE ~ (Accepts(memory, mem) /\ ~ IsEmptyRange(mem))
  BY <1>3, <1>6 DEF AddTo
<1>7. CASE Accepts(memory, mem) /\ ~ IsEmptyRange(mem)
  <2>1. Ready(memory, mem, Limit, MemoryTypes, {"Free", "Reserved"})
    BY <1>2, <1>4, <1>7 DEF Ready, IsEmptyRange
  <2>2. \A u \in Nat : \A t2, st2 : b <= u /\ u < e /\ Holds(memory, u, t2, st2)
                                  => t2 = t /\ ~ (st2 = "Reserved" /\ st = "Free")
    BY <1>2, <1>7, <2>1, AcceptsIs
  <2>3. \A u \in Nat : \A t2, st2 : Holds(memory, u, t2, st2) => st2 \in {"Free", "Reserved"}
    <3>1. \A i \in DOMAIN memory : memory[i].status \in {"Free", "Reserved"}
      BY <1>2, <1>4, SeqFacts, RangeFacts DEF Tidy, Chain
    <3>. QED
      BY <3>1 DEF Holds, In, Same
  <2>4. ASSUME NEW u \in b .. e - 1
        PROVE  EntryIn(memory, u) \in {NoMemory, <<t, "Free">>} \cup
                                        (IF st = "Reserved" THEN {<<t, "Reserved">>} ELSE {})
    <3>1. u \in Nat /\ b <= u /\ u < e
      BY <1>2
    <3>2. CASE \E t2, st2 : Holds(memory, u, t2, st2)
      <4>1. PICK t2, st2 : Holds(memory, u, t2, st2)
        BY <3>2
      <4>2. t2 = t /\ ~ (st2 = "Reserved" /\ st = "Free") /\ st2 \in {"Free", "Reserved"}
        BY <2>2, <2>3, <3>1, <4>1
      <4>3. EntryIn(memory, u) = <<t2, st2>>
        BY <1>2, <1>4, <3>1, <4>1, EntryIs
      <4>. QED
        BY <4>2, <4>3
    <3>3. CASE ~ \E t2, st2 : Holds(memory, u, t2, st2)
      BY <1>2, <1>4, <3>1, <3>3, EntryIs
    <3>. QED
      BY <3>2, <3>3
  <2>5. Rewritten(memory', memory, b, e, t, st)
    BY <1>2, <1>5, <1>7 DEF Same, Rewritten
  <2>6. \A u \in Nat : EntryIn(memory', u) = IF u \in b .. e - 1 THEN <<t, st>> ELSE EntryIn(memory, u)
    BY <1>2, <1>4, <1>5, <2>5, BookWrite
  <2>7. Book(memory') = [u \in Addresses |-> IF u \in b .. e - 1 THEN <<t, st>> ELSE Book(memory)[u]]
    BY <2>6 DEF Book, Addresses
  <2>8. \A u \in b .. e - 1 : u \in Addresses
    BY MapAssumption DEF Addresses, Bounds
  <2>9. \A u \in b .. e - 1 :
          Book(memory)[u] \in {NoMemory, <<t, "Free">>} \cup
                                (IF st = "Reserved" THEN {<<t, "Reserved">>} ELSE {})
    BY <2>4, <2>8 DEF Book
  <2>. QED
    BY <1>3, <2>7, <2>9
    DEF Abstract!Describe, Abstract!Write, Abstract!BookUnits, Addresses, Book, EntryIn, EntryOf
<1>. QED
  BY <1>6, <1>7

(* An allocation takes a block of the book.                                *)
LEMMA TakenBook ==
  ASSUME MapInv, NEW a, NEW size, Taken(a, size),
         Tidy(memory', Limit, MemoryTypes, {"Free", "Reserved"})
  PROVE  Abstract!Allocate(a, size) /\ a \in 0 .. Limit /\ size \in 0 .. Limit
<1>1. /\ Limit \in Nat /\ a \in Nat /\ size \in Nat \ {0} /\ a + size <= Limit /\ a + size \in Nat
      /\ Tidy(memory, Limit, MemoryTypes, {"Free", "Reserved"})
      /\ blocks' = blocks \cup {<<a, size>>}
  BY MapAssumption DEF Taken, MapInv
<1>2. ASSUME NEW u \in a .. a + size - 1
      PROVE  u \in Addresses /\ Book(memory)[u] = <<"Regular", "Free">>
  <2>1. u \in Addresses /\ u \in Nat /\ a <= u /\ u < a + size
    BY <1>1 DEF Addresses
  <2>2. EntryIn(memory, u) = <<"Regular", "Free">>
    BY <1>1, <2>1, EntryIs DEF Taken
  <2>. QED
    BY <2>1, <2>2 DEF Book
<1>3. PICK e : e = a + size
  OBVIOUS
<1>4. \A u \in Nat : EntryIn(memory', u) = IF u \in a .. e - 1 THEN <<"Regular", "Reserved">>
                                           ELSE EntryIn(memory, u)
  <2>1. Rewritten(memory', memory, a, e, "Regular", "Reserved")
    BY <1>3 DEF Taken, Rewritten
  <2>2. e \in Nat
    BY <1>1, <1>3
  <2>. QED
    BY <1>1, <2>1, <2>2, BookWrite
<1>5. Book(memory') = [u \in Addresses |-> IF u \in a .. e - 1 THEN <<"Regular", "Reserved">>
                                           ELSE Book(memory)[u]]
  BY <1>4 DEF Book, Addresses
<1>6. /\ Book(memory) = [u \in 0 .. Limit - 1 |-> EntryOf(u)]
      /\ Book(memory') = [u \in 0 .. Limit - 1 |-> EntryOf(u)']
  BY DEF Book, Addresses, EntryIn, EntryOf
<1>7. Abstract!Write(a, a + size, "Regular", "Reserved")
  BY <1>3, <1>5, <1>6 DEF Abstract!Write, Abstract!BookUnits, Addresses
<1>8. \A u \in a .. a + size - 1 : u \in 0 .. Limit - 1 /\ Book(memory)[u] = <<"Regular", "Free">>
  BY <1>2 DEF Addresses
<1>9. Abstract!Allocate(a, size)
  BY <1>1, <1>6, <1>7, <1>8 DEF Abstract!Allocate, Abstract!BookUnits, Addresses
<1>. QED
  BY <1>1, <1>9

(* Every call on the map is a line in the book, or changes nothing of it.  *)
LEMMA BookStep ==
  ASSUME MapInv, [MapNext]_mapVars
  PROVE  Abstract!BookNext \/ UNCHANGED <<memory, blocks>>
<1>1. ASSUME NEW b \in Bounds, NEW e \in Bounds, NEW t \in MemoryTypes,
             AddMemory(b, e, t) \/ ReserveMemory(b, e, t)
      PROVE  Abstract!BookNext \/ UNCHANGED <<memory, blocks>>
  <2>1. PICK st \in {"Free", "Reserved"} : DescribeAs(b, e, t, st)
    BY <1>1 DEF AddMemory, ReserveMemory
  <2>2. UNCHANGED <<memory, blocks>> \/ Abstract!Describe(b, e, t, st)
    BY <2>1, DescribeBook
  <2>. QED
    BY <2>2 DEF Abstract!BookNext, Abstract!BookTypes, MemoryTypes, Bounds
<1>2. ASSUME NEW w \in Windows, NEW size \in 0 .. MaxSize, NEW align \in Aligns,
             Allocate(w[1], w[2], size, align)
      PROVE  Abstract!BookNext \/ UNCHANGED <<memory, blocks>>
  <2>1. /\ Tidy(memory', Limit, MemoryTypes, {"Free", "Reserved"})
        /\ UNCHANGED <<memory, blocks>> \/ \E a : Taken(a, size)
    BY <1>2, AllocateIs
  <2>2. ASSUME NEW a, Taken(a, size) PROVE Abstract!BookNext
    BY <2>1, <2>2, TakenBook DEF Abstract!BookNext
  <2>. QED
    BY <2>1, <2>2
<1>3. ASSUME NEW w \in Windows, NEW size \in 0 .. MaxSize, NEW align \in Aligns,
             AllocateFails(w[1], w[2], size, align) \/ AllocatePanics(w[1], w[2], size, align)
      PROVE  UNCHANGED <<memory, blocks>>
  BY <1>3 DEF AllocateFails, AllocatePanics, mapVars
<1>. QED
  BY <1>1, <1>2, <1>3 DEF MapNext, MapPanicked, mapVars

(* The map does what the book promises of every address by itself: memory  *)
(* keeps its type, reserved memory is never free again, and what is        *)
(* allocated was free and regular and is reserved from then on.            *)
THEOREM MapImplementsBook == MapSpec => ImplementsBook
<1>1. MapInit => Abstract!BookInit
  <2>1. SUFFICES ASSUME MapInit PROVE Abstract!BookInit
    OBVIOUS
  <2>2. \A u : {i \in DOMAIN memory : u \in Units(memory[i].start, memory[i].end)} = {}
    BY <2>1 DEF MapInit
  <2>3. \A u : EntryOf(u) = NoMemory
    BY <2>2 DEF EntryOf
  <2>. QED
    BY <2>1, <2>3 DEF MapInit, Abstract!BookInit, Abstract!BookUnits, Addresses
<1>2. MapInv /\ [MapNext]_mapVars => [Abstract!BookNext]_(Abstract!bookVars)
  <2>1. UNCHANGED <<memory, blocks>> => UNCHANGED Abstract!bookVars
    BY DEF Abstract!bookVars, EntryOf, Addresses
  <2>. QED
    BY <2>1, BookStep
<1>. QED
  BY <1>1, <1>2, RustMapInvariant, PTL DEF MapSpec, ImplementsBook, Abstract!BookSpec

-----------------------------------------------------------------------------
(* The boot of the page allocator: numbers and pages.                      *)

(* A block has pages.                                                      *)
LEMMA SizePositive == \A o \in 0 .. MaxOrder : Size[o] \in Nat \ {0}
<1>. DEFINE Bad == {o \in 0 .. MaxOrder : Size[o] \notin Nat \ {0}}
<1>0. /\ MaxOrder \in Nat /\ Size[0] = 1 /\ Size \in [0 .. MaxOrder -> Nat]
      /\ \A o \in 0 .. MaxOrder - 1 : Size[o + 1] = 2 * Size[o]
  BY MemoryAssumption
<1>1. SUFFICES ASSUME Bad # {} PROVE FALSE
  OBVIOUS
<1>2. PICK o \in Bad : \A q \in Bad : o <= q
  <2>1. Bad \in SUBSET Nat
    BY <1>0
  <2>. HIDE DEF Bad
  <2>. QED
    BY <1>1, <2>1, LeastElement
<1>3. o # 0
  BY <1>0
<1>4. o - 1 \in 0 .. MaxOrder - 1 /\ o - 1 \in 0 .. MaxOrder /\ (o - 1) + 1 = o /\ o - 1 \notin Bad
  BY <1>0, <1>2, <1>3
<1>5. Size[o - 1] \in Nat \ {0} /\ Size[(o - 1) + 1] = 2 * Size[o - 1]
  BY <1>0, <1>4
<1>6. Size[o] \in Nat \ {0}
  BY <1>4, <1>5
<1>. QED
  BY <1>2, <1>6

(* The whole pages between two addresses.                                  *)
LEMMA PagesInIs ==
  ASSUME NEW b \in 0 .. Top, NEW e \in Nat
  PROVE  \A p : p \in PagesIn(b, e)
                  <=> p \in Nat /\ b <= p * PageSize /\ (p + 1) * PageSize <= e
<1>a. PICK P : P = PageSize
  OBVIOUS
<1>1. P \in Nat \ {0} /\ Word \in Nat /\ b \in Nat /\ b + P <= Word
  BY <1>a, MemoryAssumption DEF Top
<1>2. PICK q \in Nat : /\ AlignUp(b, P) \div P = q
                       /\ \A k \in Nat : q <= k <=> b <= k * P
  BY <1>1, UpIs
<1>b. PICK z : z = e \div P
  OBVIOUS
<1>3. z \in Nat /\ \A k \in Nat : k <= z <=> k * P <= e
  BY <1>1, <1>b, Down
<1>4. AlignDown(e, P) \div P = z
  BY <1>1, <1>3, <1>b, Multiples DEF AlignDown
<1>5. PagesIn(b, e) = q .. z - 1
  BY <1>2, <1>4, <1>a DEF PagesIn
<1>6. ASSUME NEW p PROVE p \in q .. z - 1 <=> p \in Nat /\ b <= p * P /\ (p + 1) * P <= e
  <2>1. ASSUME p \in Nat PROVE p \in q .. z - 1 <=> b <= p * P /\ (p + 1) * P <= e
    <3>1. p + 1 \in Nat
      BY <2>1
    <3>2. q <= p <=> b <= p * P
      BY <1>2, <2>1
    <3>3. p + 1 <= z <=> (p + 1) * P <= e
      BY <1>3, <3>1
    <3>4. p \in q .. z - 1 <=> q <= p /\ p + 1 <= z
      BY <1>2, <1>3, <2>1
    <3>. QED
      BY <3>2, <3>3, <3>4
  <2>2. p \in q .. z - 1 => p \in Nat
    BY <1>2, <1>3
  <2>. QED
    BY <2>1, <2>2
<1>. QED
  BY <1>5, <1>6, <1>a

(* The units of a page.                                                    *)
PageUnit(p, u) == p * PageSize <= u /\ u < (p + 1) * PageSize

(* They are as many numbers as a page has bytes.                           *)
LEMMA PageUnitsAre ==
  ASSUME NEW p \in Nat
  PROVE  /\ \A u : u \in PageUnits({p}) <=> u \in Nat /\ PageUnit(p, u)
         /\ p * PageSize \in Nat /\ (p + 1) * PageSize \in Nat
         /\ p * PageSize + PageSize = (p + 1) * PageSize
         /\ PageUnit(p, p * PageSize)
<1>a. PICK P : P = PageSize
  OBVIOUS
<1>1. P \in Nat \ {0}
  BY <1>a, MemoryAssumption
<1>2. p * P \in Nat /\ (p + 1) * P \in Nat
  <2>1. p + 1 \in Nat
    OBVIOUS
  <2>. QED
    BY <1>1, <2>1, Products
<1>3. p * P + P = (p + 1) * P
  BY <1>1
<1>4. PageUnits({p}) = p * P .. (p + 1) * P - 1
  BY <1>a DEF PageUnits, Units
<1>. QED
  BY <1>1, <1>2, <1>3, <1>4, <1>a DEF PageUnit

-----------------------------------------------------------------------------
(* What the device tree and the bootstrap code say.                        *)

(* Units of memory that is not reserved.                                   *)
FreeUnits(in) == UnitsIn(in.nodes) \ (UnitsIn(in.reserved) \cup UnitsIn(in.boot))
TakenUnits(in) == UnitsIn(in.reserved) \cup UnitsIn(in.boot)
HeapOf(in) == PagesIn(in.heap[1], in.heap[2])

KernelRanges == MR(Top, {"Regular"}, {"Free", "Reserved"})

(* Addresses are numbers.                                                  *)
LEMMA TopIs == Top \in Nat /\ Word \in Nat /\ Top < Word /\ Top + PageSize <= Word
BY MemoryAssumption DEF Top

(* c adds the ranges with that status.                                     *)
IsAs(c, status, ranges) ==
  /\ c \in Seq(KernelRanges)
  /\ \A i \in 1 .. Len(c) : c[i].status = status
  /\ \A u \in Nat : (\E i \in 1 .. Len(c) : In(c[i], u, "Regular", status)) <=> u \in UnitsIn(ranges)

(* One kind of call of mmap_from_devicetree.                               *)
LEMMA AsIs ==
  ASSUME NEW ranges \in Seq((0 .. Top) \X (0 .. Top)), NEW status \in {"Free", "Reserved"}
  PROVE  IsAs(As(status, ranges), status, ranges)
<1>a. PICK n, c : n = Len(ranges) /\ c = As(status, ranges)
  OBVIOUS
<1>1. n \in Nat /\ DOMAIN ranges = 1 .. n /\ \A i \in 1 .. n : ranges[i] \in (0 .. Top) \X (0 .. Top)
  BY <1>a
<1>2. c = [i \in 1 .. n |-> MemoryRange(ranges[i][1], ranges[i][2], "Regular", status)]
  BY <1>1, <1>a DEF As
<1>3. \A i \in 1 .. n : /\ c[i] = MemoryRange(ranges[i][1], ranges[i][2], "Regular", status)
                        /\ c[i] \in KernelRanges
  BY <1>1, <1>2 DEF MemoryRange, KernelRanges, MR
<1>4. c \in [1 .. n -> KernelRanges]
  BY <1>2, <1>3
<1>b. ASSUME NEW i \in 1 .. n
      PROVE  /\ c[i].start = ranges[i][1] /\ c[i].end = ranges[i][2]
             /\ c[i].memtype = "Regular" /\ c[i].status = status
             /\ ranges[i][1] \in Nat /\ ranges[i][2] \in Nat
  <2>1. c[i] = MemoryRange(ranges[i][1], ranges[i][2], "Regular", status)
    BY <1>3
  <2>2. ranges[i][1] \in Nat /\ ranges[i][2] \in Nat
    BY <1>1
  <2>. QED
    BY <2>1, <2>2 DEF MemoryRange
<1>5. c \in Seq(KernelRanges) /\ Len(c) = n
  BY <1>1, <1>4, SeqDef
<1>6. ASSUME NEW u \in Nat, NEW i \in 1 .. n
      PROVE  In(c[i], u, "Regular", status) <=> u \in Units(ranges[i][1], ranges[i][2])
  BY <1>b DEF In, Same, Units
<1>7. \A u \in Nat : (\E i \in 1 .. n : In(c[i], u, "Regular", status)) <=> u \in UnitsIn(ranges)
  <2>1. \A u : u \in UnitsIn(ranges) <=> \E i \in 1 .. n : u \in Units(ranges[i][1], ranges[i][2])
    BY <1>1 DEF UnitsIn
  <2>. QED
    BY <1>6, <2>1
<1>8. \A i \in 1 .. n : c[i].status = status
  BY <1>b
<1>. QED
  BY <1>5, <1>7, <1>8, <1>a DEF IsAs

(* The first k calls say that of unit u.                                   *)
Told(c, k, u, st) == \E j \in 1 .. k : In(c[j], u, "Regular", st)

(* Ranges are added as free memory first; then some are reserved.          *)
LEMMA CallsAre ==
  ASSUME NEW in \in Inputs
  PROVE  /\ Calls(in) \in Seq(KernelRanges)
         /\ \A i, j \in 1 .. Len(Calls(in)) :
              Calls(in)[i].status = "Reserved" /\ Calls(in)[j].status = "Free" => j < i
         /\ \A u \in Nat : /\ Told(Calls(in), Len(Calls(in)), u, "Free") <=> u \in UnitsIn(in.nodes)
                           /\ Told(Calls(in), Len(Calls(in)), u, "Reserved") <=> u \in TakenUnits(in)
<1>1. {in.nodes, in.reserved, in.boot} \subseteq Seq((0 .. Top) \X (0 .. Top))
  BY InputAssumption
<1>a. PICK f, r, b, c : /\ f = As("Free", in.nodes) /\ r = As("Reserved", in.reserved)
                        /\ b = As("Reserved", in.boot) /\ c = Calls(in)
  OBVIOUS
<1>b. PICK nf, nr, nb : nf = Len(f) /\ nr = Len(r) /\ nb = Len(b)
  OBVIOUS
<1>2. /\ f \in Seq(KernelRanges) /\ nf \in Nat
      /\ \A i \in 1 .. nf : f[i].status = "Free"
      /\ \A u \in Nat : (\E i \in 1 .. nf : In(f[i], u, "Regular", "Free")) <=> u \in UnitsIn(in.nodes)
  <2>1. IsAs(f, "Free", in.nodes)
    BY <1>1, <1>a, AsIs
  <2>. QED
    BY <1>b, <2>1 DEF IsAs
<1>3. /\ r \in Seq(KernelRanges) /\ nr \in Nat
      /\ \A i \in 1 .. nr : r[i].status = "Reserved"
      /\ \A u \in Nat : (\E i \in 1 .. nr : In(r[i], u, "Regular", "Reserved")) <=> u \in UnitsIn(in.reserved)
  <2>1. IsAs(r, "Reserved", in.reserved)
    BY <1>1, <1>a, AsIs
  <2>. QED
    BY <1>b, <2>1 DEF IsAs
<1>4. /\ b \in Seq(KernelRanges) /\ nb \in Nat
      /\ \A i \in 1 .. nb : b[i].status = "Reserved"
      /\ \A u \in Nat : (\E i \in 1 .. nb : In(b[i], u, "Regular", "Reserved")) <=> u \in UnitsIn(in.boot)
  <2>1. IsAs(b, "Reserved", in.boot)
    BY <1>1, <1>a, AsIs
  <2>. QED
    BY <1>b, <2>1 DEF IsAs
<1>c. PICK fr : fr = f \o r
  OBVIOUS
<1>5. /\ fr \in Seq(KernelRanges) /\ Len(fr) = nf + nr
      /\ \A i \in 1 .. nf + nr : fr[i] = IF i <= nf THEN f[i] ELSE r[i - nf]
  BY <1>2, <1>3, <1>b, <1>c, ConcatProperties
<1>6. /\ c \in Seq(KernelRanges) /\ Len(c) = nf + nr + nb
      /\ \A i \in 1 .. nf + nr + nb : c[i] = IF i <= nf + nr THEN fr[i] ELSE b[i - (nf + nr)]
  <2>1. c = fr \o b
    BY <1>a, <1>c DEF Calls
  <2>2. /\ fr \o b \in Seq(KernelRanges) /\ Len(fr \o b) = Len(fr) + Len(b)
        /\ \A i \in 1 .. Len(fr) + Len(b) : (fr \o b)[i] = IF i <= Len(fr) THEN fr[i] ELSE b[i - Len(fr)]
    BY <1>4, <1>5, ConcatProperties
  <2>3. Len(fr) = nf + nr /\ Len(b) = nb
    BY <1>5, <1>b
  <2>. QED
    BY <2>1, <2>2, <2>3
<1>7. /\ \A i \in 1 .. nf : i \in 1 .. nf + nr + nb /\ c[i] = f[i]
      /\ \A i \in 1 .. nr : nf + i \in 1 .. nf + nr + nb /\ c[nf + i] = r[i]
      /\ \A i \in 1 .. nb : nf + nr + i \in 1 .. nf + nr + nb /\ c[nf + nr + i] = b[i]
  <2>1. nf \in Nat /\ nr \in Nat /\ nb \in Nat
    BY <1>2, <1>3, <1>4
  <2>2. ASSUME NEW i \in 1 .. nf PROVE i \in 1 .. nf + nr + nb /\ c[i] = f[i]
    <3>1. i \in 1 .. nf + nr + nb /\ i \in 1 .. nf + nr /\ i <= nf + nr /\ i <= nf
      BY <2>1
    <3>. QED
      BY <1>5, <1>6, <3>1, Zenon
  <2>3. ASSUME NEW i \in 1 .. nr PROVE nf + i \in 1 .. nf + nr + nb /\ c[nf + i] = r[i]
    <3>1. nf + i \in 1 .. nf + nr + nb /\ nf + i \in 1 .. nf + nr /\ nf + i <= nf + nr
          /\ ~ (nf + i <= nf) /\ (nf + i) - nf = i
      BY <2>1
    <3>. QED
      BY <1>5, <1>6, <3>1, Zenon
  <2>4. ASSUME NEW i \in 1 .. nb
        PROVE  nf + nr + i \in 1 .. nf + nr + nb /\ c[nf + nr + i] = b[i]
    <3>1. nf + nr + i \in 1 .. nf + nr + nb /\ ~ (nf + nr + i <= nf + nr)
          /\ (nf + nr + i) - (nf + nr) = i
      BY <2>1
    <3>. QED
      BY <1>6, <3>1, Zenon
  <2>. QED
    BY <2>2, <2>3, <2>4
<1>8. ASSUME NEW i \in 1 .. nf + nr + nb
      PROVE  \/ i \in 1 .. nf /\ c[i] = f[i]
             \/ i > nf /\ i - nf \in 1 .. nr /\ c[i] = r[i - nf]
             \/ i > nf /\ i - (nf + nr) \in 1 .. nb /\ c[i] = b[i - (nf + nr)]
  BY <1>2, <1>3, <1>4, <1>5, <1>6
<1>9. \A i \in 1 .. nf + nr + nb : \/ i <= nf /\ c[i].status = "Free"
                                   \/ i > nf /\ c[i].status = "Reserved"
  <2>1. SUFFICES ASSUME NEW i \in 1 .. nf + nr + nb
                 PROVE  \/ i <= nf /\ c[i].status = "Free"
                        \/ i > nf /\ c[i].status = "Reserved"
    OBVIOUS
  <2>2. CASE i \in 1 .. nf /\ c[i] = f[i]
    <3>1. i <= nf
      BY <1>2, <2>2
    <3>2. c[i].status = "Free"
      BY <1>2, <2>2, Zenon
    <3>. QED
      BY <3>1, <3>2
  <2>3. CASE i > nf /\ i - nf \in 1 .. nr /\ c[i] = r[i - nf]
    BY <1>3, <2>3
  <2>4. CASE i > nf /\ i - (nf + nr) \in 1 .. nb /\ c[i] = b[i - (nf + nr)]
    BY <1>4, <2>4
  <2>. QED
    BY <1>8, <2>2, <2>3, <2>4
<1>10. ASSUME NEW u \in Nat
       PROVE  /\ Told(c, nf + nr + nb, u, "Free") <=> u \in UnitsIn(in.nodes)
              /\ Told(c, nf + nr + nb, u, "Reserved") <=> u \in TakenUnits(in)
  <2>1. ASSUME Told(c, nf + nr + nb, u, "Free") PROVE u \in UnitsIn(in.nodes)
    <3>1. PICK i \in 1 .. nf + nr + nb : In(c[i], u, "Regular", "Free")
      BY <2>1 DEF Told
    <3>2. i \in 1 .. nf /\ c[i] = f[i]
      BY <1>2, <1>8, <1>9, <3>1 DEF In, Same
    <3>. QED
      BY <1>2, <3>1, <3>2
  <2>2. ASSUME u \in UnitsIn(in.nodes) PROVE Told(c, nf + nr + nb, u, "Free")
    BY <1>2, <1>7, <2>2 DEF Told
  <2>3. ASSUME Told(c, nf + nr + nb, u, "Reserved") PROVE u \in TakenUnits(in)
    <3>1. PICK i \in 1 .. nf + nr + nb : In(c[i], u, "Regular", "Reserved")
      BY <2>3 DEF Told
    <3>2. i > nf
      BY <1>9, <3>1 DEF In, Same
    <3>3. CASE i - nf \in 1 .. nr /\ c[i] = r[i - nf]
      BY <1>3, <3>1, <3>3 DEF TakenUnits
    <3>4. CASE i - (nf + nr) \in 1 .. nb /\ c[i] = b[i - (nf + nr)]
      BY <1>4, <3>1, <3>4 DEF TakenUnits
    <3>. QED
      BY <1>2, <1>8, <3>2, <3>3, <3>4
  <2>4. ASSUME u \in TakenUnits(in) PROVE Told(c, nf + nr + nb, u, "Reserved")
    BY <1>3, <1>4, <1>7, <2>4 DEF Told, TakenUnits
  <2>. QED
    BY <2>1, <2>2, <2>3, <2>4
<1>11. \A i, j \in 1 .. nf + nr + nb : c[i].status = "Reserved" /\ c[j].status = "Free" => j < i
  <2>1. \A i, j \in 1 .. nf + nr + nb : j <= nf /\ i > nf => j < i
    BY <1>2
  <2>. QED
    BY <1>9, <2>1
<1>. QED
  BY <1>6, <1>10, <1>11, <1>a

(* The memory of the nodes is in the map, and what is neither reserved nor *)
(* taken by a table (tb) is free.                                          *)
IsDescribed(mem, in, tb) ==
  /\ tb \subseteq FreeUnits(in)
  /\ \A u \in Nat : Holds(mem, u, "Regular", "Free") <=> u \in FreeUnits(in) \ tb
  /\ \A u \in Nat : u \in UnitsIn(in.nodes) \cup TakenUnits(in)
                      => \E st : Holds(mem, u, "Regular", st)

(* The map is what the calls made so far say; rest is what is still to be  *)
(* said.                                                                   *)
MapTells(mem, c, k) ==
  \A u \in Nat : /\ Holds(mem, u, "Regular", "Reserved") <=> Told(c, k, u, "Reserved")
                 /\ Holds(mem, u, "Regular", "Free")
                      <=> Told(c, k, u, "Free") /\ ~ Told(c, k, u, "Reserved")

IsRest(rest, c, k) ==
  /\ rest \in Seq(KernelRanges)
  /\ Len(rest) = Len(c) - k
  /\ \A j \in 1 .. Len(rest) : rest[j] = c[k + j]

IsTelling(mem, in, rest) ==
  \E k \in 0 .. Len(Calls(in)) : IsRest(rest, Calls(in), k) /\ MapTells(mem, Calls(in), k)

(* Before the first call.                                                  *)
LEMMA TellStart ==
  ASSUME NEW in \in Inputs
  PROVE  IsTelling(<<>>, in, Calls(in))
<1>1. PICK c : c = Calls(in)
  OBVIOUS
<1>2. c \in Seq(KernelRanges) /\ Len(c) \in Nat
  BY <1>1, CallsAre
<1>3. IsRest(c, c, 0)
  BY <1>2 DEF IsRest
<1>4. MapTells(<<>>, c, 0)
  BY EmptyMap DEF MapTells, Told
<1>5. 0 \in 0 .. Len(c)
  BY <1>2
<1>. QED
  BY <1>1, <1>3, <1>4, <1>5 DEF IsTelling

(* One call.                                                               *)
LEMMA TellStep ==
  ASSUME NEW in \in Inputs, NEW mem, NEW new, NEW rest, IsTelling(mem, in, rest), rest # <<>>
  PROVE  /\ Head(rest) \in KernelRanges
         /\ (\A u \in Nat : \A t, st :
               Holds(new, u, t, st) <=>
                 IF Head(rest).start <= u /\ u < Head(rest).end THEN Same(Head(rest), t, st)
                 ELSE Holds(mem, u, t, st))
            => IsTelling(new, in, Tail(rest))
<1>1. PICK c, r, tail : c = Calls(in) /\ r = Head(rest) /\ tail = Tail(rest)
  OBVIOUS
<1>2. PICK k \in 0 .. Len(c) : IsRest(rest, c, k) /\ MapTells(mem, c, k)
  BY <1>1 DEF IsTelling
<1>3. /\ c \in Seq(KernelRanges) /\ Len(c) \in Nat
      /\ \A i, j \in 1 .. Len(c) : c[i].status = "Reserved" /\ c[j].status = "Free" => j < i
  BY <1>1, CallsAre
<1>4. /\ rest \in Seq(KernelRanges) /\ Len(rest) = Len(c) - k /\ Len(rest) \in Nat \ {0}
      /\ \A j \in 1 .. Len(rest) : rest[j] = c[k + j]
  BY <1>2, <1>3, EmptySeq DEF IsRest
<1>5. PICK n : n = k + 1
  OBVIOUS
<1>6. n \in 0 .. Len(c) /\ n \in 1 .. Len(c) /\ k \in Nat /\ Len(rest) - 1 = Len(c) - n
  BY <1>3, <1>4, <1>5
<1>7. /\ r = c[n] /\ r \in KernelRanges
      /\ tail \in Seq(KernelRanges) /\ Len(tail) = Len(rest) - 1
      /\ \A j \in 1 .. Len(tail) : tail[j] = rest[j + 1]
  BY <1>1, <1>4, <1>5, HeadTailProperties
<1>8. /\ r.start \in Nat /\ r.end \in Nat /\ r.memtype = "Regular"
      /\ r.status = "Free" \/ r.status = "Reserved"
  BY <1>7, TopIs, RangeFacts DEF KernelRanges
<1>9. IsRest(tail, c, n)
  <2>1. ASSUME NEW j \in 1 .. Len(tail) PROVE tail[j] = c[n + j]
    <3>1. j + 1 \in 1 .. Len(rest) /\ k + (j + 1) = n + j
      BY <1>4, <1>5, <1>6, <1>7
    <3>2. rest[j + 1] = c[k + (j + 1)]
      BY <1>4, <3>1
    <3>. QED
      BY <1>7, <3>1, <3>2
  <2>. QED
    BY <1>6, <1>7, <2>1 DEF IsRest
<1>10. \A u, st : Told(c, n, u, st) <=> Told(c, k, u, st) \/ In(r, u, "Regular", st)
  <2>1. \A j : j \in 1 .. n <=> j \in 1 .. k \/ j = n
    BY <1>5, <1>6
  <2>. QED
    BY <1>7, <2>1 DEF Told
<1>11. ASSUME r.status = "Free", NEW u PROVE ~ Told(c, k, u, "Reserved")
  <2>1. SUFFICES ASSUME NEW j \in 1 .. k, In(c[j], u, "Regular", "Reserved") PROVE FALSE
    BY DEF Told
  <2>2. j \in 1 .. Len(c) /\ c[j].status = "Reserved" /\ ~ (n < j)
    BY <1>3, <1>5, <1>6, <2>1 DEF In, Same
  <2>. QED
    BY <1>3, <1>6, <1>7, <1>11, <2>2
<1>12. ASSUME \A u \in Nat : \A t, st : Holds(new, u, t, st) <=>
                                          IF r.start <= u /\ u < r.end THEN Same(r, t, st)
                                          ELSE Holds(mem, u, t, st)
       PROVE  MapTells(new, c, n)
  <2>1. SUFFICES ASSUME NEW u \in Nat
                 PROVE  /\ Holds(new, u, "Regular", "Reserved") <=> Told(c, n, u, "Reserved")
                        /\ Holds(new, u, "Regular", "Free")
                             <=> Told(c, n, u, "Free") /\ ~ Told(c, n, u, "Reserved")
    BY DEF MapTells
  <2>2. /\ Holds(mem, u, "Regular", "Reserved") <=> Told(c, k, u, "Reserved")
        /\ Holds(mem, u, "Regular", "Free")
             <=> Told(c, k, u, "Free") /\ ~ Told(c, k, u, "Reserved")
    BY <1>2 DEF MapTells
  <2>3. CASE r.start <= u /\ u < r.end
    <3>1. /\ Holds(new, u, "Regular", "Reserved") <=> r.status = "Reserved"
          /\ Holds(new, u, "Regular", "Free") <=> r.status = "Free"
          /\ In(r, u, "Regular", "Reserved") <=> r.status = "Reserved"
          /\ In(r, u, "Regular", "Free") <=> r.status = "Free"
      BY <1>8, <1>12, <2>3 DEF Same, In
    <3>2. r.status = "Free" => r.status # "Reserved"
      OBVIOUS
    <3>. QED
      BY <1>8, <1>10, <1>11, <3>1, <3>2
  <2>4. CASE ~ (r.start <= u /\ u < r.end)
    <3>1. \A st : ~ In(r, u, "Regular", st)
      BY <2>4 DEF In
    <3>. QED
      BY <1>10, <1>12, <2>2, <2>4, <3>1
  <2>. QED
    BY <2>3, <2>4
<1>. QED
  BY <1>1, <1>6, <1>7, <1>9, <1>12 DEF IsTelling

(* After the last call.                                                    *)
LEMMA TellEnd ==
  ASSUME NEW in \in Inputs, NEW mem, IsTelling(mem, in, <<>>)
  PROVE  IsDescribed(mem, in, {})
<1>1. PICK c : c = Calls(in)
  OBVIOUS
<1>2. PICK k \in 0 .. Len(c) : IsRest(<<>>, c, k) /\ MapTells(mem, c, k)
  BY <1>1 DEF IsTelling
<1>3. Len(c) \in Nat
  BY <1>1, CallsAre
<1>4. k = Len(c)
  BY <1>2, <1>3 DEF IsRest
<1>5. \A u \in Nat : /\ Told(c, k, u, "Free") <=> u \in UnitsIn(in.nodes)
                     /\ Told(c, k, u, "Reserved") <=> u \in TakenUnits(in)
  BY <1>1, <1>4, CallsAre
<1>6. \A u \in Nat : /\ Holds(mem, u, "Regular", "Reserved") <=> u \in TakenUnits(in)
                     /\ Holds(mem, u, "Regular", "Free")
                          <=> u \in UnitsIn(in.nodes) /\ u \notin TakenUnits(in)
  BY <1>2, <1>5 DEF MapTells
<1>. QED
  BY <1>6 DEF IsDescribed, FreeUnits, TakenUnits

-----------------------------------------------------------------------------
(* The tables.                                                             *)

KernelMaps(mem, z) ==
  /\ Tidy(mem, Top, {"Regular"}, {"Free", "Reserved"})
  /\ Tidy(z, Top, {"Regular"}, {"Unknown"})
  /\ AgreeOnTypes(mem, z)

(* A block for a table is taken from free memory.                          *)
LEMMA PlaceKeeps ==
  ASSUME NEW in, KernelMaps(memory, zones), IsDescribed(memory, in, tables),
         NEW b \in Nat, NEW e \in Nat, NEW size \in Nat, Place(<<b, e>>, size)
  PROVE  KernelMaps(memory', zones) /\ IsDescribed(memory', in, tables')
<1>1. PICK found \in FoundIn(<<b, e>>, size) :
        /\ memory' = AddTo(memory, found)
        /\ tables' = tables \cup Units(found.start, found.end)
  BY DEF Place
<1>2. PICK v : /\ v = <<b, e>> \/ v = Everything
               /\ Fits(v, size)
               /\ found = Found(memory, v[1], v[2], size, PageSize)
  BY <1>1 DEF FoundIn, FirstWindow
<1>3. PICK lo, hi : lo = v[1] /\ hi = v[2]
  OBVIOUS
<1>4. lo \in Nat /\ hi \in Nat
  <2>1. Word - 1 \in Nat
    BY TopIs
  <2>2. CASE v = <<b, e>>
    BY <1>3, <2>2
  <2>3. CASE v = Everything
    BY <1>3, <2>1, <2>3 DEF Everything
  <2>. QED
    BY <1>2, <2>2, <2>3
<1>5. /\ Tidy(memory, Top, {"Regular"}, {"Free", "Reserved"})
      /\ AgreeOnTypes(memory, zones)
  BY DEF KernelMaps
<1>6. /\ PageSize \in Nat \ {0} /\ Rooms(memory, lo, hi, size, PageSize) # {}
      /\ found = Found(memory, lo, hi, size, PageSize)
  BY <1>2, <1>3, MemoryAssumption DEF Fits
<1>7. IsBlock(memory, found, Top, {"Regular"})
  BY <1>4, <1>5, <1>6, TopIs, BlockIsFree
<1>8. CASE AddTo(memory, found) = memory /\ Units(found.start, found.end) = {}
  <2>1. memory' = memory /\ tables' = tables
    BY <1>1, <1>8
  <2>. QED
    BY <2>1
<1>9. CASE /\ found \in MR(Top, {"Regular"}, {"Free", "Reserved"})
           /\ found.memtype = "Regular" /\ found.status = "Reserved"
           /\ \A u \in Nat : found.start <= u /\ u < found.end => Holds(memory, u, "Regular", "Free")
  <2>1. found.start \in Nat /\ found.end \in Nat
    BY <1>9, TopIs, RangeFacts
  <2>2. \A u : u \in Units(found.start, found.end) <=> u \in Nat /\ found.start <= u /\ u < found.end
    BY <2>1 DEF Units
  <2>a. Accepts(memory, found)
    BY <1>7 DEF IsBlock
  <2>3. /\ Tidy(memory', Top, {"Regular"}, {"Free", "Reserved"})
        /\ \A u \in Nat : \A t, st :
             Holds(memory', u, t, st) <=>
               IF Accepts(memory, found) /\ found.start <= u /\ u < found.end THEN Same(found, t, st)
               ELSE Holds(memory, u, t, st)
    BY <1>1, <1>5, <1>9, TopIs, AddToKeeps
  <2>4. \A u \in Nat : \A t, st :
          Holds(memory', u, t, st) <=>
            IF found.start <= u /\ u < found.end THEN t = "Regular" /\ st = "Reserved"
            ELSE Holds(memory, u, t, st)
    BY <1>9, <2>a, <2>3 DEF Same
  <2>5. \A u \in Nat : \A t, st : Holds(memory, u, t, st) => t = "Regular"
    <3>1. \A i \in DOMAIN memory : memory[i].memtype = "Regular"
      BY <1>5, TopIs, SeqFacts, RangeFacts DEF Tidy, Chain
    <3>. QED
      BY <3>1 DEF Holds, In, Same
  <2>6. \A u \in Nat : \A t : (\E st : Holds(memory', u, t, st)) <=> (\E st : Holds(memory, u, t, st))
    <3>1. SUFFICES ASSUME NEW u \in Nat, NEW t
                   PROVE  (\E st : Holds(memory', u, t, st)) <=> (\E st : Holds(memory, u, t, st))
      OBVIOUS
    <3>2. CASE found.start <= u /\ u < found.end
      <4>1. Holds(memory, u, "Regular", "Free") /\ Holds(memory', u, "Regular", "Reserved")
        BY <1>9, <2>4, <3>2
      <4>2. \A st : Holds(memory', u, t, st) => t = "Regular"
        BY <2>4, <3>2
      <4>. QED
        BY <2>5, <4>1, <4>2
    <3>3. CASE ~ (found.start <= u /\ u < found.end)
      BY <2>4, <3>3
    <3>. QED
      BY <3>2, <3>3
  <2>7. AgreeOnTypes(memory', zones)
    BY <1>5, <2>6 DEF AgreeOnTypes
  <2>8. IsDescribed(memory', in, tables')
    <3>1. tables' \subseteq FreeUnits(in)
      BY <1>1, <1>9, <2>2 DEF IsDescribed
    <3>2. \A u \in Nat : Holds(memory', u, "Regular", "Free")
                           <=> Holds(memory, u, "Regular", "Free") /\ u \notin Units(found.start, found.end)
      BY <1>9, <2>2, <2>4
    <3>3. \A u \in Nat : Holds(memory', u, "Regular", "Free") <=> u \in FreeUnits(in) \ tables'
      BY <1>1, <3>2 DEF IsDescribed
    <3>. QED
      BY <2>6, <3>1, <3>3 DEF IsDescribed
  <2>. QED
    BY <2>3, <2>7, <2>8 DEF KernelMaps
<1>. QED
  BY <1>7, <1>8, <1>9 DEF IsBlock

(* r is the zone made for the range z: the whole pages in it.              *)
PageIn(p, z) == p \in Nat /\ z.start <= p * PageSize /\ (p + 1) * PageSize <= z.end
IsZone(r, z) ==
  /\ r \in [start : Nat, end : Nat]
  /\ \A p : p \in r.start .. r.end - 1 <=> PageIn(p, z)

IsTable(t, z) ==
  /\ t \in Seq([start : Nat, end : Nat])
  /\ Len(t) <= Len(z)
  /\ \A i \in 1 .. Len(t) : IsZone(t[i], z[i])

(* Two ranges have no page in common.                                      *)
LEMMA ZonesApart ==
  ASSUME NEW B \in Nat, NEW T, NEW S, NEW z, Tidy(z, B, T, S),
         NEW i \in 1 .. Len(z), NEW k \in 1 .. Len(z), NEW p, PageIn(p, z[i]), PageIn(p, z[k])
  PROVE  i = k
<1>1. /\ Len(z) \in Nat /\ DOMAIN z = 1 .. Len(z)
      /\ z[i].start \in Nat /\ z[i].end \in Nat /\ z[k].start \in Nat /\ z[k].end \in Nat
  BY SeqFacts DEF Tidy, Chain
<1>2. p \in Nat
  BY DEF PageIn
<1>3. /\ p * PageSize \in Nat /\ (p + 1) * PageSize \in Nat
      /\ p * PageSize < (p + 1) * PageSize
  <2>1. /\ p * PageSize \in Nat /\ (p + 1) * PageSize \in Nat
        /\ p * PageSize + PageSize = (p + 1) * PageSize /\ PageSize \in Nat \ {0}
    BY <1>2, PageUnitsAre, MemoryAssumption
  <2>. QED
    BY <2>1
<1>4. PICK x, y : x = p * PageSize /\ y = (p + 1) * PageSize
  OBVIOUS
<1>5. x \in Nat /\ y \in Nat /\ x < y
  BY <1>3, <1>4
<1>6. z[i].start <= x /\ y <= z[i].end /\ z[k].start <= x /\ y <= z[k].end
  BY <1>4 DEF PageIn
<1>7. ASSUME NEW a \in 1 .. Len(z), NEW b \in 1 .. Len(z), a < b PROVE z[a].end <= z[b].start
  BY <1>1, <1>7 DEF Tidy, Chain
<1>8. ~ (i < k)
  BY <1>1, <1>5, <1>6, <1>7
<1>9. ~ (k < i)
  BY <1>1, <1>5, <1>6, <1>7
<1>. QED
  BY <1>1, <1>8, <1>9

(* What Zone::new is given.                                                *)
ZoneRecord(i) ==
  [start |-> Start(i) \div PageSize, end |-> Start(i) \div PageSize + PagesOf(i)]

(* A range with a whole page in it, or none, gets its zone.                *)
LEMMA NewZone ==
  ASSUME Tidy(zones, Top, {"Regular"}, {"Unknown"}), NEW i \in 1 .. Len(zones), Start(i) <= End(i)
  PROVE  /\ Start(i) \in Nat /\ End(i) \in Nat /\ PagesOf(i) * PageBytes \in Nat
         /\ IsZone(ZoneRecord(i), zones[i])
<1>a. PICK P, b, e : P = PageSize /\ b = zones[i].start /\ e = zones[i].end
  OBVIOUS
<1>1. /\ P \in Nat \ {0} /\ PageBytes \in Nat /\ Word \in Nat /\ Top \in Nat
  BY <1>a, MemoryAssumption, TopIs
<1>2. b \in 0 .. Top /\ b \in Nat /\ e \in Nat
  <2>1. zones[i] \in MR(Top, {"Regular"}, {"Unknown"})
    BY TopIs, SeqFacts DEF Tidy, Chain
  <2>. QED
    BY <1>a, <2>1, TopIs, RangeFacts
<1>3. b + P <= Word
  BY <1>1, <1>2, <1>a, TopIs
<1>4. PICK q \in Nat : /\ AlignUp(b, P) = q * P /\ AlignUp(b, P) \in Nat
                       /\ AlignUp(b, P) \div P = q
  BY <1>1, <1>2, <1>3, UpIs
<1>5. PICK z : z = e \div P
  OBVIOUS
<1>6. z \in Nat /\ z * P \in Nat
  BY <1>1, <1>2, <1>5, Down
<1>7. AlignDown(e, P) = z * P /\ (z * P) \div P = z
  BY <1>1, <1>5, <1>6, Multiples DEF AlignDown
<1>8. Start(i) = q * P /\ End(i) = z * P /\ Start(i) \div PageSize = q
  BY <1>4, <1>7, <1>a DEF Start, End
<1>9. q <= z
  <2>1. q * P <= z * P
    BY <1>8
  <2>2. SUFFICES ASSUME z < q PROVE FALSE
    BY <1>4, <1>6
  <2>3. (z + 1) * P <= q * P
    BY <1>1, <1>4, <1>6, <2>2, Products
  <2>4. (z + 1) * P = z * P + P
    BY <1>1, <1>6
  <2>. QED
    BY <1>1, <1>4, <1>6, <2>1, <2>3, <2>4
<1>10. PICK n : n = z - q
  OBVIOUS
<1>11. n \in Nat /\ q + n = z /\ z * P - q * P = n * P
  BY <1>1, <1>4, <1>6, <1>9, <1>10
<1>12. PagesOf(i) = n
  <2>1. (n * P) \div P = n
    BY <1>1, <1>11, Multiples
  <2>. QED
    BY <1>8, <1>11, <1>a, <2>1 DEF PagesOf
<1>13. PagesOf(i) * PageBytes \in Nat
  BY <1>1, <1>11, <1>12, Products
<1>14. ZoneRecord(i) = [start |-> q, end |-> z]
  BY <1>8, <1>11, <1>12 DEF ZoneRecord
<1>15. PagesIn(b, e) = q .. z - 1
  BY <1>4, <1>7, <1>a DEF PagesIn
<1>16. \A p : p \in q .. z - 1 <=> PageIn(p, zones[i])
  BY <1>2, <1>15, <1>a, PagesInIs DEF PageIn
<1>17. IsZone(ZoneRecord(i), zones[i])
  BY <1>4, <1>6, <1>14, <1>16 DEF IsZone
<1>18. Start(i) \in Nat /\ End(i) \in Nat
  BY <1>4, <1>6, <1>8
<1>. QED
  BY <1>13, <1>17, <1>18

(* Pages and the addresses they begin at are in the same order.            *)
LEMMA Scale ==
  ASSUME NEW a \in Nat, NEW b \in Nat
  PROVE  a <= b <=> a * PageSize <= b * PageSize
<1>1. PICK P : P = PageSize
  OBVIOUS
<1>2. P \in Nat \ {0}
  BY <1>1, MemoryAssumption
<1>3. ASSUME a <= b PROVE a * P <= b * P
  BY <1>2, <1>3, Products
<1>4. ASSUME b < a PROVE b * P < a * P
  <2>1. b + 1 \in Nat /\ b + 1 <= a
    BY <1>4
  <2>2. (b + 1) * P <= a * P
    BY <1>2, <2>1, Products
  <2>3. (b + 1) * P = b * P + P /\ b * P \in Nat /\ a * P \in Nat
    BY <1>2, Products
  <2>. QED
    BY <1>2, <2>2, <2>3
<1>5. a * P \in Nat /\ b * P \in Nat
  BY <1>2, Products
<1>. QED
  BY <1>1, <1>3, <1>4, <1>5

(* The page p is free memory in which no table lies.                       *)
PageFree(p, in, tb) ==
  p \in Nat /\ \A u \in Nat : PageUnit(p, u) => u \in FreeUnits(in) \ tb

(* The window in which the free ranges of a zone are looked for.           *)
LEMMA WindowIs ==
  ASSUME NEW r, NEW z, IsZone(r, z)
  PROVE  /\ r.start * PageSize \in Nat /\ r.end * PageSize \in Nat
         /\ \A p : PageIn(p, z) <=> /\ p \in Nat
                                    /\ r.start * PageSize <= p * PageSize
                                    /\ (p + 1) * PageSize <= r.end * PageSize
<1>1. r.start \in Nat /\ r.end \in Nat /\ \A p : p \in r.start .. r.end - 1 <=> PageIn(p, z)
  BY DEF IsZone
<1>2. PageSize \in Nat
  BY MemoryAssumption
<1>3. r.start * PageSize \in Nat /\ r.end * PageSize \in Nat
  BY <1>1, <1>2, Products
<1>4. ASSUME NEW p \in Nat
      PROVE  p \in r.start .. r.end - 1 <=> /\ r.start * PageSize <= p * PageSize
                                            /\ (p + 1) * PageSize <= r.end * PageSize
  <2>1. p \in r.start .. r.end - 1 <=> r.start <= p /\ p + 1 <= r.end
    BY <1>1
  <2>2. r.start <= p <=> r.start * PageSize <= p * PageSize
    BY <1>1, Scale
  <2>3. p + 1 <= r.end <=> (p + 1) * PageSize <= r.end * PageSize
    <3>1. p + 1 \in Nat
      OBVIOUS
    <3>. QED
      BY <1>1, <3>1, Scale
  <2>. QED
    BY <2>1, <2>2, <2>3
<1>5. \A p : PageIn(p, z) => p \in Nat
  BY DEF PageIn
<1>. QED
  BY <1>1, <1>3, <1>4, <1>5

(* What Memory::new releases into a zone: its pages that are free.         *)
LEMMA FreePagesAre ==
  ASSUME NEW in, Tidy(memory, Top, {"Regular"}, {"Free", "Reserved"}),
         IsDescribed(memory, in, tables), NEW i, NEW z, IsZone(table[i], z)
  PROVE  \A p : p \in FreePages(i) <=> PageIn(p, z) /\ PageFree(p, in, tables)
<1>a. PICK b, e : b = table[i].start * PageSize /\ e = table[i].end * PageSize
  OBVIOUS
<1>1. /\ b \in Nat /\ e \in Nat
      /\ \A p : PageIn(p, z) <=> p \in Nat /\ b <= p * PageSize /\ (p + 1) * PageSize <= e
  BY <1>a, WindowIs
<1>2. /\ Len(memory) \in Nat /\ DOMAIN memory = 1 .. Len(memory)
      /\ \A j \in 1 .. Len(memory) : /\ memory[j].start \in Nat /\ memory[j].end \in Nat
                                     /\ memory[j].end \in 0 .. Top /\ memory[j].memtype = "Regular"
  <2>1. /\ Len(memory) \in Nat /\ DOMAIN memory = 1 .. Len(memory)
        /\ \A j \in 1 .. Len(memory) : memory[j] \in MR(Top, {"Regular"}, {"Free", "Reserved"})
    BY TopIs, SeqFacts DEF Tidy, Chain
  <2>2. ASSUME NEW j \in 1 .. Len(memory)
        PROVE  /\ memory[j].start \in Nat /\ memory[j].end \in Nat
               /\ memory[j].end \in 0 .. Top /\ memory[j].memtype = "Regular"
    <3>1. PICK m : m = memory[j]
      OBVIOUS
    <3>2. m \in MR(Top, {"Regular"}, {"Free", "Reserved"})
      BY <2>1, <3>1
    <3>3. m.start \in Nat /\ m.end \in Nat /\ m.end \in 0 .. Top /\ m.memtype \in {"Regular"}
      BY <3>2, TopIs, RangeFacts
    <3>. QED
      BY <3>1, <3>3
  <2>. QED
    BY <2>1, <2>2
<1>3. \A u \in Nat : Holds(memory, u, "Regular", "Free") <=> u \in FreeUnits(in) \ tables
  BY DEF IsDescribed
<1>4. \A p : p \in FreePages(i) <=> \E r \in FreeRanges(memory, b, e) : p \in PagesIn(r.start, r.end)
  BY <1>a DEF FreePages
<1>5. ASSUME NEW j \in 1 .. Len(memory), NEW bb, NEW ee,
             bb = Larger(memory[j].start, b), ee = Smaller(memory[j].end, e), bb < ee
      PROVE  /\ bb \in 0 .. Top /\ ee \in Nat
             /\ memory[j].start <= bb /\ b <= bb /\ ee <= memory[j].end /\ ee <= e
  BY <1>1, <1>2, <1>5, TopIs DEF Larger, Smaller
<1>6. ASSUME NEW r \in FreeRanges(memory, b, e), NEW p \in PagesIn(r.start, r.end)
      PROVE  PageIn(p, z) /\ PageFree(p, in, tables)
  <2>1. PICK j \in 1 .. Len(memory) :
          /\ memory[j].status = "Free"
          /\ r.start = Larger(memory[j].start, b) /\ r.end = Smaller(memory[j].end, e)
          /\ r.start < r.end
    BY <1>1, TopIs, FreeRangesAre
  <2>2. /\ r.start \in 0 .. Top /\ r.end \in Nat
        /\ memory[j].start <= r.start /\ b <= r.start
        /\ r.end <= memory[j].end /\ r.end <= e
    BY <1>5, <2>1
  <2>3. p \in Nat /\ r.start <= p * PageSize /\ (p + 1) * PageSize <= r.end
    BY <2>2, PagesInIs
  <2>4. PICK x, y, l, h : /\ x = p * PageSize /\ y = (p + 1) * PageSize
                         /\ l = r.start /\ h = r.end
    OBVIOUS
  <2>a. x \in Nat /\ y \in Nat
    BY <2>3, <2>4, PageUnitsAre
  <2>b. l \in Nat /\ h \in Nat
    BY <2>2, <2>4, TopIs
  <2>c. b <= l /\ l <= x /\ y <= h /\ h <= e /\ memory[j].start <= l /\ h <= memory[j].end
    BY <2>2, <2>3, <2>4
  <2>5. b <= p * PageSize /\ (p + 1) * PageSize <= e
    <3>1. b <= x /\ y <= e
      BY <1>1, <2>a, <2>b, <2>c
    <3>. QED
      BY <2>4, <3>1
  <2>6. ASSUME NEW u \in Nat, PageUnit(p, u) PROVE u \in FreeUnits(in) \ tables
    <3>1. x <= u /\ u < y
      BY <2>4, <2>6 DEF PageUnit
    <3>2. memory[j].start <= u /\ u < memory[j].end
      BY <1>2, <2>a, <2>b, <2>c, <3>1
    <3>3. Holds(memory, u, "Regular", "Free")
      BY <1>2, <2>1, <3>2 DEF Holds, In, Same
    <3>. QED
      BY <1>3, <3>3
  <2>. QED
    BY <1>1, <2>3, <2>5, <2>6 DEF PageFree
<1>7. ASSUME NEW p, PageIn(p, z), PageFree(p, in, tables) PROVE p \in FreePages(i)
  <2>1. /\ p \in Nat /\ b <= p * PageSize /\ (p + 1) * PageSize <= e
        /\ \A u \in Nat : PageUnit(p, u) => Holds(memory, u, "Regular", "Free")
    BY <1>1, <1>3, <1>7 DEF PageFree
  <2>2. PICK a, P, c : a = p * PageSize /\ P = PageSize /\ c = (p + 1) * PageSize
    OBVIOUS
  <2>3. a \in Nat /\ P \in Nat \ {0} /\ c = a + P /\ b <= a /\ c <= e /\ c \in Nat
    BY <2>1, <2>2, PageUnitsAre, MemoryAssumption
  <2>4. \A u \in a .. a + P - 1 : Holds(memory, u, "Regular", "Free")
    BY <2>1, <2>2, <2>3 DEF PageUnit
  <2>5. PICK j \in 1 .. Len(memory) :
          Same(memory[j], "Regular", "Free") /\ memory[j].start <= a /\ a + P <= memory[j].end
    BY <2>3, <2>4, TopIs, RunInOneRange
  <2>6. PICK bb, ee : bb = Larger(memory[j].start, b) /\ ee = Smaller(memory[j].end, e)
    OBVIOUS
  <2>7. bb <= a /\ c <= ee /\ bb < ee
    <3>1. memory[j].start \in Nat /\ memory[j].end \in Nat /\ memory[j].start <= a /\ c <= memory[j].end
      BY <1>2, <2>3, <2>5
    <3>2. bb <= a
      BY <1>1, <2>3, <2>6, <3>1 DEF Larger
    <3>3. c <= ee
      BY <1>1, <2>3, <2>6, <3>1 DEF Smaller
    <3>4. a < c /\ bb \in Nat /\ ee \in Nat
      BY <1>1, <2>3, <2>6, <3>1 DEF Larger, Smaller
    <3>. QED
      BY <2>3, <3>2, <3>3, <3>4
  <2>8. PICK r : r = Overlap(memory[j], b, e)
    OBVIOUS
  <2>9. r \in FreeRanges(memory, b, e)
    BY <1>1, <2>5, <2>6, <2>7, <2>8, TopIs, FreeRangesAre DEF Same
  <2>10. r.start = bb /\ r.end = ee
    <3>1. memory[j] \in MR(Top, {"Regular"}, {"Free", "Reserved"})
      BY TopIs, SeqFacts DEF Tidy, Chain
    <3>. QED
      BY <2>6, <2>8, <3>1 DEF Overlap, MR
  <2>11. bb \in 0 .. Top /\ ee \in Nat
    BY <1>5, <2>6, <2>7
  <2>12. p \in PagesIn(bb, ee)
    BY <2>1, <2>2, <2>7, <2>11, PagesInIs
  <2>. QED
    BY <1>4, <2>9, <2>10, <2>12
<1>. QED
  BY <1>4, <1>6, <1>7

(* A page of described memory lies in one zone.                            *)
LEMMA InSomeZone ==
  ASSUME NEW in, NEW mem, NEW z, KernelMaps(mem, z), NEW tb, IsDescribed(mem, in, tb),
         NEW p \in Nat, \A u \in Nat : PageUnit(p, u) => u \in UnitsIn(in.nodes) \cup TakenUnits(in)
  PROVE  \E i \in 1 .. Len(z) : PageIn(p, z[i])
<1>1. PICK a, P, c : a = p * PageSize /\ P = PageSize /\ c = (p + 1) * PageSize
  OBVIOUS
<1>2. a \in Nat /\ P \in Nat \ {0} /\ c = a + P
  BY <1>1, PageUnitsAre, MemoryAssumption
<1>3. Tidy(z, Top, {"Regular"}, {"Unknown"}) /\ AgreeOnTypes(mem, z)
  BY DEF KernelMaps
<1>4. ASSUME NEW u, NEW st, Holds(z, u, "Regular", st) PROVE st = "Unknown"
  <2>1. PICK i \in DOMAIN z : In(z[i], u, "Regular", st)
    BY <1>4 DEF Holds
  <2>2. z[i] \in MR(Top, {"Regular"}, {"Unknown"})
    BY <1>3, <2>1, TopIs, SeqFacts DEF Tidy, Chain
  <2>3. z[i].status \in {"Unknown"}
    BY <2>2, TopIs, RangeFacts
  <2>. QED
    BY <2>1, <2>3 DEF In, Same
<1>5. ASSUME NEW u \in a .. a + P - 1 PROVE Holds(z, u, "Regular", "Unknown")
  <2>1. u \in Nat /\ PageUnit(p, u)
    BY <1>1, <1>2 DEF PageUnit
  <2>2. \E st : Holds(mem, u, "Regular", st)
    BY <2>1 DEF IsDescribed
  <2>3. \E st : Holds(z, u, "Regular", st)
    BY <1>3, <2>1, <2>2 DEF AgreeOnTypes
  <2>. QED
    BY <1>4, <2>3
<1>6. PICK i \in 1 .. Len(z) : Same(z[i], "Regular", "Unknown") /\ z[i].start <= a /\ a + P <= z[i].end
  BY <1>2, <1>3, <1>5, TopIs, RunInOneRange
<1>. QED
  BY <1>1, <1>2, <1>6 DEF PageIn

(* A page of the heap is memory that the bootstrap code reserves.          *)
LEMMA HeapPage ==
  ASSUME NEW in \in Inputs, NEW p \in HeapOf(in)
  PROVE  p \in Nat /\ \A u \in Nat : PageUnit(p, u) => u \in TakenUnits(in)
<1>1. PICK b, e : b = in.heap[1] /\ e = in.heap[2]
  OBVIOUS
<1>2. b \in 0 .. Top /\ e \in 0 .. Top /\ Units(b, e) \subseteq UnitsIn(in.boot)
  BY <1>1, InputAssumption
<1>3. b \in Nat /\ e \in Nat
  BY <1>2, TopIs
<1>4. p \in Nat /\ b <= p * PageSize /\ (p + 1) * PageSize <= e
  BY <1>1, <1>2, <1>3, PagesInIs DEF HeapOf
<1>5. PICK a, c : a = p * PageSize /\ c = (p + 1) * PageSize
  OBVIOUS
<1>6. a \in Nat /\ c \in Nat /\ b <= a /\ c <= e
  BY <1>4, <1>5, PageUnitsAre
<1>7. ASSUME NEW u \in Nat, PageUnit(p, u) PROVE u \in Units(b, e)
  BY <1>3, <1>5, <1>6, <1>7 DEF PageUnit, Units
<1>. QED
  BY <1>2, <1>4, <1>7 DEF TakenUnits

(* A page of the heap is not among the free ones.                          *)
LEMMA HeapNotFree ==
  ASSUME NEW in \in Inputs, NEW tb, NEW p \in HeapOf(in)
  PROVE  ~ PageFree(p, in, tb)
<1>1. p \in Nat /\ \A u \in Nat : PageUnit(p, u) => u \in TakenUnits(in)
  BY HeapPage
<1>2. p * PageSize \in Nat /\ PageUnit(p, p * PageSize)
  BY <1>1, PageUnitsAre
<1>3. p * PageSize \in TakenUnits(in)
  BY <1>1, <1>2
<1>. QED
  BY <1>2, <1>3 DEF PageFree, FreeUnits, TakenUnits

(* The zone that a page belongs to.                                        *)
LEMMA HomeIs ==
  ASSUME NEW z, Tidy(z, Top, {"Regular"}, {"Unknown"}), IsTable(table, z), NEW p
  PROVE  /\ Home(p) # 0 => Home(p) \in 1 .. Len(table) /\ PageIn(p, z[Home(p)])
         /\ \A i \in 1 .. Len(table) : PageIn(p, z[i]) => Home(p) = i /\ Home(p) # 0
<1>1. /\ Len(table) \in Nat /\ DOMAIN table = 1 .. Len(table) /\ Len(z) \in Nat
      /\ Len(table) <= Len(z)
  BY TopIs, SeqFacts DEF IsTable, Tidy, Chain
<1>2. \A i \in 1 .. Len(table) : ContainsPage(i, p) <=> PageIn(p, z[i])
  BY DEF IsTable, IsZone, ContainsPage, ZonePages
<1>3. PICK S : S = {i \in DOMAIN table : ContainsPage(i, p)}
  OBVIOUS
<1>4. S \in SUBSET Nat /\ Home(p) = FirstOr(S, 0)
  BY <1>1, <1>3 DEF Home
<1>5. /\ S = {} => Home(p) = 0
      /\ S # {} => Home(p) \in S
  BY <1>4, FirstOrIs
<1>6. Home(p) \in S => /\ Home(p) \in 1 .. Len(table) /\ PageIn(p, z[Home(p)])
                       /\ Home(p) # 0
  BY <1>1, <1>2, <1>3
<1>7. Home(p) # 0 => Home(p) \in 1 .. Len(table) /\ PageIn(p, z[Home(p)])
  BY <1>5, <1>6
<1>8. ASSUME NEW i \in 1 .. Len(table), PageIn(p, z[i]) PROVE Home(p) = i /\ Home(p) # 0
  <2>1. i \in S
    BY <1>1, <1>2, <1>3, <1>8
  <2>2. PICK h : h = Home(p)
    OBVIOUS
  <2>3. h \in 1 .. Len(table) /\ PageIn(p, z[h]) /\ h # 0
    BY <1>5, <1>6, <2>1, <2>2
  <2>4. h \in 1 .. Len(z) /\ i \in 1 .. Len(z)
    BY <1>1, <2>3
  <2>5. h = i
    BY <1>8, <2>3, <2>4, TopIs, ZonesApart
  <2>. QED
    BY <2>2, <2>3, <2>5
<1>. QED
  BY <1>7, <1>8

-----------------------------------------------------------------------------
(* Who has which page.                                                     *)

InAvail(av, p) == \E i \in 1 .. Len(av) : p \in av[i]
InHeld(hd, p) == \E b \in hd : p \in Block(b[1], b[2])

(* A block that a caller holds lies in one zone.                           *)
IsHeld(b, z) ==
  \E p \in Nat : \E o \in 0 .. MaxOrder :
    /\ b = <<p, o>>
    /\ \E i \in 1 .. Len(z) : \A q \in Block(p, o) : PageIn(q, z[i])

(* Every page of free memory that no table lies in, and every page of the  *)
(* heap that is handed over, is with one zone, its own, or with one        *)
(* caller; and no other page is.                                           *)
InOwnZone(z, av) == \A i \in 1 .. Len(av) : \A p \in av[i] : PageIn(p, z[i])
InOneHand(av, hd) ==
  /\ \A p : ~ (InAvail(av, p) /\ InHeld(hd, p))
  /\ \A b, c \in hd : \A p : p \in Block(b[1], b[2]) /\ p \in Block(c[1], c[2]) => b = c
AllGiven(in, tb, av, lf, hd) ==
  \A p : InAvail(av, p) \/ InHeld(hd, p) <=> PageFree(p, in, tb) \/ (p \in HeapOf(in) /\ p \notin lf)

IsShared(z, in, tb, av, lf, hd) ==
  /\ InOwnZone(z, av)
  /\ \A b \in hd : IsHeld(b, z)
  /\ InOneHand(av, hd)
  /\ AllGiven(in, tb, av, lf, hd)
  /\ IsFiniteSet(hd) /\ Cardinality(hd) <= MaxHeld

Phases == {"describe", "table", "zones", "release", "heap", "run", "panicked"}

Untouched(in, av, lf, hd) ==
  (\A i \in 1 .. Len(av) : av[i] = {}) /\ hd = {} /\ lf = HeapOf(in)

(* The inductive invariant of the boot and of the allocator that it leads  *)
(* to, phase by phase.                                                     *)
MapPart ==
  /\ input \in Inputs /\ phase \in Phases
  /\ KernelMaps(memory, zones)
  /\ phase = "describe" => IsTelling(memory, input, todo) /\ tables = {}
  /\ phase # "describe" => IsDescribed(memory, input, tables)

TablePart ==
  /\ IsTable(table, zones)
  /\ avail \in Seq(SUBSET Nat) /\ Len(avail) = Len(table)
  /\ phase \in {"describe", "table"} => table = <<>>
  /\ phase \in {"release", "heap", "run"} => Len(table) = Len(zones)

PagePart ==
  /\ phase \notin {"heap", "run"} => Untouched(input, avail, left, held)
  /\ phase \in {"heap", "run"} => /\ IsShared(zones, input, tables, avail, left, held)
                                  /\ left \subseteq HeapOf(input)
  /\ phase = "run" => left = {}

MemInv == MapPart /\ TablePart /\ PagePart

(* Before the first call nothing is said, made or released.                *)
LEMMA MemInitInv == Init => MemInv
<1>. SUFFICES ASSUME Init PROVE MemInv
  OBVIOUS
<1>0. /\ input \in Inputs /\ phase = "describe" /\ todo = Calls(input)
      /\ memory = <<>> /\ zones = <<>> /\ table = <<>> /\ tables = {} /\ avail = <<>>
      /\ left = HeapOf(input) /\ held = {}
  BY DEF Init, HeapOf
<1>1. MapPart
  <2>1. IsTelling(memory, input, todo)
    BY <1>0, TellStart
  <2>2. KernelMaps(memory, zones)
    <3>1. AgreeOnTypes(<<>>, <<>>)
      BY DEF AgreeOnTypes
    <3>. QED
      BY <1>0, <3>1, EmptyMap DEF KernelMaps
  <2>. QED
    BY <1>0, <2>1, <2>2 DEF MapPart, Phases
<1>2. TablePart
  <2>1. IsTable(<<>>, <<>>)
    BY DEF IsTable
  <2>. QED
    BY <1>0, <2>1 DEF TablePart
<1>3. PagePart
  BY <1>0 DEF PagePart, Untouched
<1>. QED
  BY <1>1, <1>2, <1>3 DEF MemInv

(* Describe.                                                               *)
LEMMA DescribeMem ==
  ASSUME MemInv, Describe
  PROVE  MemInv'
<1>0. /\ phase = "describe" /\ todo # <<>> /\ BothAccept(Head(todo)) /\ UpdateBoth(Head(todo))
      /\ todo' = Tail(todo)
      /\ input' = input /\ phase' = phase /\ table' = table /\ tables' = tables
      /\ avail' = avail /\ left' = left /\ held' = held
  BY DEF Describe
<1>1. /\ input \in Inputs /\ KernelMaps(memory, zones)
      /\ IsTelling(memory, input, todo) /\ tables = {} /\ table = <<>>
      /\ TablePart /\ PagePart
  BY <1>0 DEF MemInv, MapPart, TablePart
<1>2. PICK mem : mem = Head(todo)
  OBVIOUS
<1>3. mem \in MR(Top, {"Regular"}, {"Free", "Reserved"})
  BY <1>0, <1>1, <1>2, TellStep DEF KernelRanges
<1>4. /\ Tidy(memory, Top, {"Regular"}, {"Free", "Reserved"})
      /\ Tidy(zones, Top, {"Regular"}, {"Unknown"})
      /\ AgreeOnTypes(memory, zones)
      /\ UpdateBoth(mem) /\ BothAccept(mem)
  BY <1>0, <1>1, <1>2 DEF KernelMaps
<1>5. /\ Tidy(memory', Top, {"Regular"}, {"Free", "Reserved"})
      /\ Tidy(zones', Top, {"Regular"}, {"Unknown"})
      /\ \A u \in Nat : \A t, st :
           Holds(memory', u, t, st) <=>
             IF Accepts(memory, mem) /\ mem.start <= u /\ u < mem.end THEN Same(mem, t, st)
             ELSE Holds(memory, u, t, st)
      /\ AgreeOnTypes(memory', zones')
  BY <1>3, <1>4, TopIs, UpdateKeeps
<1>6. \A u \in Nat : \A t, st :
           Holds(memory', u, t, st) <=>
             IF Head(todo).start <= u /\ u < Head(todo).end THEN Same(Head(todo), t, st)
             ELSE Holds(memory, u, t, st)
  <2>1. Accepts(memory, mem)
    BY <1>4 DEF BothAccept
  <2>. QED
    BY <1>2, <1>5, <2>1
<1>7. IsTelling(memory', input, Tail(todo))
  BY <1>0, <1>1, <1>6, TellStep
<1>8. MapPart'
  BY <1>0, <1>1, <1>5, <1>7 DEF MapPart, KernelMaps, Phases
<1>9. TablePart'
  <2>1. IsTable(<<>>, zones')
    <3>1. Len(zones') \in Nat
      BY <1>5, TopIs, SeqFacts DEF Tidy, Chain
    <3>. QED
      BY <3>1 DEF IsTable
  <2>. QED
    BY <1>0, <1>1, <2>1 DEF TablePart
<1>10. PagePart'
  BY <1>0, <1>1 DEF PagePart
<1>. QED
  BY <1>8, <1>9, <1>10 DEF MemInv

(* The last call is made.                                                  *)
LEMMA DescribedMem ==
  ASSUME MemInv, Described
  PROVE  MemInv'
<1>0. /\ phase = "describe" /\ todo = <<>> /\ phase' = "table"
      /\ UNCHANGED <<input, todo, memory, zones, table, tables, avail, left, held>>
  BY DEF Described, map
<1>1. MapPart /\ TablePart /\ PagePart
  BY DEF MemInv
<1>2. IsDescribed(memory, input, {}) /\ tables = {}
  BY <1>0, <1>1, TellEnd DEF MapPart
<1>3. MapPart'
  BY <1>0, <1>1, <1>2 DEF MapPart, Phases
<1>4. TablePart' /\ PagePart'
  BY <1>0, <1>1 DEF TablePart, PagePart
<1>. QED
  BY <1>3, <1>4 DEF MemInv

(* A table or page array is placed: what is known of the maps still holds. *)
LEMMA PlaceMem ==
  ASSUME MapPart, phase # "describe", NEW b \in Nat, NEW e \in Nat, NEW size \in Nat,
         Place(<<b, e>>, size), UNCHANGED <<input, zones>>, phase' \in Phases, phase' # "describe"
  PROVE  MapPart'
<1>1. KernelMaps(memory, zones) /\ IsDescribed(memory, input, tables) /\ input \in Inputs
  BY DEF MapPart
<1>2. KernelMaps(memory', zones) /\ IsDescribed(memory', input, tables')
  BY <1>1, PlaceKeeps
<1>3. zones' = zones /\ input' = input
  OBVIOUS
<1>. QED
  BY <1>1, <1>2, <1>3 DEF MapPart

(* The zone table is placed.                                               *)
LEMMA CreateTableMem ==
  ASSUME MemInv, CreateTable
  PROVE  MemInv'
<1>0. /\ phase = "table" /\ phase' = "zones" /\ Place(Everything, Len(zones) * ZoneBytes)
      /\ UNCHANGED <<input, todo, zones, table, avail, left, held>>
  BY DEF CreateTable
<1>1. MapPart /\ TablePart /\ PagePart
  BY DEF MemInv
<1>2. Word - 1 \in Nat /\ Everything = <<0, Word - 1>>
  BY TopIs DEF Everything
<1>3. Len(zones) * ZoneBytes \in Nat
  <2>1. Len(zones) \in Nat
    BY <1>1, TopIs, SeqFacts DEF MapPart, KernelMaps, Tidy, Chain
  <2>2. ZoneBytes \in Nat
    BY MemoryAssumption
  <2>. QED
    BY <2>1, <2>2, Products
<1>4. MapPart'
  <2>1. Place(<<0, Word - 1>>, Len(zones) * ZoneBytes)
    BY <1>0, <1>2
  <2>2. phase # "describe" /\ phase' \in Phases /\ phase' # "describe"
    BY <1>0 DEF Phases
  <2>3. 0 \in Nat
    OBVIOUS
  <2>. QED
    BY <1>0, <1>1, <1>2, <1>3, <2>1, <2>2, <2>3, PlaceMem
<1>5. TablePart' /\ PagePart'
  BY <1>0, <1>1 DEF TablePart, PagePart
<1>. QED
  BY <1>4, <1>5 DEF MemInv

(* A zone is created, with no pages available yet.                         *)
LEMMA CreateZoneMem ==
  ASSUME MemInv, CreateZone
  PROVE  MemInv'
<1>a. PICK i : i = Len(table) + 1
  OBVIOUS
<1>0. /\ phase = "zones" /\ i \in DOMAIN zones /\ Start(i) <= End(i)
      /\ Place(<<Start(i), End(i)>>, PagesOf(i) * PageBytes)
      /\ table' = Append(table, ZoneRecord(i)) /\ avail' = Append(avail, {})
      /\ UNCHANGED <<input, phase, todo, zones, left, held>>
  BY <1>a DEF CreateZone, Creating, ZoneRecord
<1>1. MapPart /\ TablePart /\ PagePart
  BY DEF MemInv
<1>2. Tidy(zones, Top, {"Regular"}, {"Unknown"})
  BY <1>1 DEF MapPart, KernelMaps
<1>3. Len(zones) \in Nat /\ DOMAIN zones = 1 .. Len(zones)
  BY <1>2, TopIs, SeqFacts DEF Tidy, Chain
<1>4. /\ Start(i) \in Nat /\ End(i) \in Nat /\ PagesOf(i) * PageBytes \in Nat
      /\ IsZone(ZoneRecord(i), zones[i])
  BY <1>0, <1>2, <1>3, NewZone
<1>5. MapPart'
  <2>1. phase # "describe" /\ phase' \in Phases /\ phase' # "describe"
    BY <1>0 DEF Phases
  <2>. QED
    BY <1>0, <1>1, <1>4, <2>1, PlaceMem
<1>b. PICK r, n : r = ZoneRecord(i) /\ n = Len(table)
  OBVIOUS
<1>6. /\ table \in Seq([start : Nat, end : Nat]) /\ n \in Nat /\ n <= Len(zones)
      /\ \A k \in 1 .. n : IsZone(table[k], zones[k])
      /\ avail \in Seq(SUBSET Nat) /\ Len(avail) = n
  BY <1>1, <1>b DEF TablePart, IsTable
<1>7. /\ i = n + 1 /\ IsZone(r, zones[i]) /\ r \in [start : Nat, end : Nat]
      /\ table' = Append(table, r)
  BY <1>0, <1>4, <1>a, <1>b DEF IsZone
<1>8. /\ table' \in Seq([start : Nat, end : Nat]) /\ Len(table') = n + 1
      /\ \A k \in 1 .. n : table'[k] = table[k]
      /\ table'[n + 1] = r
  BY <1>6, <1>7, <1>b, AppendProperties
<1>9. IsTable(table', zones)
  <2>1. n + 1 <= Len(zones)
    BY <1>0, <1>3, <1>7
  <2>2. ASSUME NEW k \in 1 .. n + 1 PROVE IsZone(table'[k], zones[k])
    <3>1. CASE k \in 1 .. n
      BY <1>6, <1>8, <3>1
    <3>2. CASE k = n + 1
      BY <1>7, <1>8, <3>2
    <3>. QED
      BY <1>6, <3>1, <3>2
  <2>. QED
    BY <1>8, <2>1, <2>2 DEF IsTable
<1>10. /\ avail' \in Seq(SUBSET Nat) /\ Len(avail') = n + 1
       /\ \A k \in 1 .. n : avail'[k] = avail[k]
       /\ avail'[n + 1] = {}
  BY <1>0, <1>6, AppendProperties
<1>11. TablePart'
  BY <1>0, <1>8, <1>9, <1>10 DEF TablePart
<1>12. PagePart'
  <2>1. Untouched(input, avail, left, held)
    BY <1>0, <1>1 DEF PagePart
  <2>2. \A k \in 1 .. n + 1 : avail'[k] = {}
    BY <1>6, <1>10, <2>1 DEF Untouched
  <2>3. Untouched(input', avail', left', held')
    BY <1>0, <1>10, <2>1, <2>2 DEF Untouched
  <2>. QED
    BY <1>0, <2>3 DEF PagePart
<1>. QED
  BY <1>5, <1>11, <1>12 DEF MemInv

(* Every zone is created.                                                  *)
LEMMA CreatedZonesMem ==
  ASSUME MemInv, CreatedZones
  PROVE  MemInv'
<1>0. /\ phase = "zones" /\ Len(table) + 1 \notin DOMAIN zones /\ phase' = "release"
      /\ UNCHANGED <<input, todo, memory, zones, table, tables, avail, left, held>>
  BY DEF CreatedZones, map, Creating
<1>1. MapPart /\ TablePart /\ PagePart
  BY DEF MemInv
<1>2. Len(zones) \in Nat /\ DOMAIN zones = 1 .. Len(zones)
  BY <1>1, TopIs, SeqFacts DEF MapPart, KernelMaps, Tidy, Chain
<1>3. Len(table) \in Nat /\ Len(table) <= Len(zones)
  BY <1>1 DEF TablePart, IsTable
<1>4. Len(table) = Len(zones)
  BY <1>0, <1>2, <1>3
<1>5. MapPart'
  BY <1>0, <1>1 DEF MapPart, Phases
<1>6. TablePart'
  BY <1>0, <1>1, <1>4 DEF TablePart
<1>7. PagePart'
  BY <1>0, <1>1 DEF PagePart
<1>. QED
  BY <1>5, <1>6, <1>7 DEF MemInv

(* There is no room, or a zone without a whole page.                       *)
LEMMA CreatePanicsMem ==
  ASSUME MemInv, CreatePanics
  PROVE  MemInv'
<1>0. /\ phase \in {"table", "zones"} /\ phase' = "panicked"
      /\ UNCHANGED <<input, todo, memory, zones, table, tables, avail, left, held>>
  BY DEF CreatePanics, map
<1>1. MapPart /\ TablePart /\ PagePart
  BY DEF MemInv
<1>2. MapPart'
  BY <1>0, <1>1 DEF MapPart, Phases
<1>3. TablePart'
  BY <1>0, <1>1 DEF TablePart
<1>4. PagePart'
  BY <1>0, <1>1 DEF PagePart
<1>. QED
  BY <1>2, <1>3, <1>4 DEF MemInv

(* The zones get their free pages.                                         *)
LEMMA ReleaseMem ==
  ASSUME MemInv, Release
  PROVE  MemInv'
<1>0. /\ phase = "release" /\ phase' = "heap"
      /\ avail' = [i \in DOMAIN avail |-> FreePages(i)]
      /\ UNCHANGED <<input, todo, memory, zones, table, tables, left, held>>
  BY DEF Release, map
<1>1. MapPart /\ TablePart /\ PagePart
  BY DEF MemInv
<1>2. /\ KernelMaps(memory, zones) /\ IsDescribed(memory, input, tables)
      /\ Tidy(memory, Top, {"Regular"}, {"Free", "Reserved"})
  BY <1>0, <1>1 DEF MapPart, KernelMaps
<1>3. Untouched(input, avail, left, held)
  BY <1>0, <1>1 DEF PagePart
<1>b. PICK n : n = Len(avail)
  OBVIOUS
<1>4. /\ n \in Nat /\ DOMAIN avail = 1 .. n /\ Len(table) = n /\ Len(zones) = n
      /\ \A i \in 1 .. n : IsZone(table[i], zones[i])
  BY <1>0, <1>1, <1>b DEF TablePart, IsTable
<1>5. \A i \in 1 .. n : \A p : p \in FreePages(i) <=> PageIn(p, zones[i]) /\ PageFree(p, input, tables)
  <2>1. SUFFICES ASSUME NEW i \in 1 .. n
                 PROVE  \A p : p \in FreePages(i) <=> PageIn(p, zones[i]) /\ PageFree(p, input, tables)
    OBVIOUS
  <2>2. IsZone(table[i], zones[i])
    BY <1>4
  <2>. QED
    BY <1>2, <2>2, FreePagesAre
<1>6. \A i \in 1 .. n : avail'[i] = FreePages(i)
  BY <1>0, <1>4
<1>7. avail' \in Seq(SUBSET Nat) /\ Len(avail') = n
  <2>1. \A i \in 1 .. n : FreePages(i) \in SUBSET Nat
    BY <1>5 DEF PageIn
  <2>2. avail' \in [1 .. n -> SUBSET Nat]
    BY <1>0, <1>4, <2>1
  <2>. QED
    BY <1>4, <2>2, SeqDef
<1>8. InOwnZone(zones, avail')
  BY <1>5, <1>6, <1>7 DEF InOwnZone
<1>9. \A p : InAvail(avail', p) <=> PageFree(p, input, tables)
  <2>1. \A p : InAvail(avail', p) => PageFree(p, input, tables)
    BY <1>5, <1>6, <1>7 DEF InAvail
  <2>2. ASSUME NEW p, PageFree(p, input, tables) PROVE InAvail(avail', p)
    <3>1. p \in Nat /\ \A u \in Nat : PageUnit(p, u) => u \in UnitsIn(input.nodes) \cup TakenUnits(input)
      BY <2>2 DEF PageFree, FreeUnits
    <3>2. PICK i \in 1 .. Len(zones) : PageIn(p, zones[i])
      BY <1>2, <3>1, InSomeZone
    <3>3. i \in 1 .. n /\ p \in FreePages(i)
      BY <1>4, <1>5, <2>2, <3>2
    <3>. QED
      BY <1>6, <1>7, <3>3 DEF InAvail
  <2>. QED
    BY <2>1, <2>2
<1>10. AllGiven(input, tables, avail', left, held)
  <2>1. \A p : ~ InHeld(held, p)
    BY <1>3 DEF InHeld, Untouched
  <2>2. left = HeapOf(input)
    BY <1>3 DEF Untouched
  <2>. QED
    BY <1>9, <2>1, <2>2 DEF AllGiven
<1>11. InOneHand(avail', held)
  BY <1>3 DEF InOneHand, InHeld, Untouched
<1>12. IsFiniteSet(held) /\ Cardinality(held) <= MaxHeld
  BY <1>3, FS_EmptySet, MemoryAssumption DEF Untouched
<1>13. IsShared(zones, input, tables, avail', left, held)
  <2>1. \A b \in held : IsHeld(b, zones)
    BY <1>3 DEF Untouched
  <2>. QED
    BY <1>8, <1>10, <1>11, <1>12, <2>1 DEF IsShared
<1>14. MapPart'
  BY <1>0, <1>1 DEF MapPart, Phases
<1>15. TablePart'
  BY <1>0, <1>1, <1>4, <1>7 DEF TablePart
<1>16. PagePart'
  <2>1. left = HeapOf(input)
    BY <1>3 DEF Untouched
  <2>. QED
    BY <1>0, <1>13, <2>1 DEF PagePart
<1>. QED
  BY <1>14, <1>15, <1>16 DEF MemInv

(* One zone's pages change.                                                *)
LEMMA OneZone ==
  ASSUME NEW av \in Seq(SUBSET Nat), NEW i \in 1 .. Len(av), NEW S \in SUBSET Nat,
         NEW new, new = [av EXCEPT ![i] = S]
  PROVE  /\ new \in Seq(SUBSET Nat) /\ Len(new) = Len(av) /\ DOMAIN new = 1 .. Len(av)
         /\ \A k \in 1 .. Len(av) : new[k] = IF k = i THEN S ELSE av[k]
OBVIOUS

(* A page of the heap is handed over.                                      *)
LEMMA HandOverMem ==
  ASSUME MemInv, HandOver
  PROVE  MemInv'
<1>a. PICK p : p = CHOOSE q \in left : \A r \in left : q <= r
  OBVIOUS
<1>b. PICK h : h = Home(p)
  OBVIOUS
<1>0. /\ phase = "heap" /\ left # {} /\ h # 0
      /\ avail' = [avail EXCEPT ![h] = @ \cup {p}] /\ left' = left \ {p}
      /\ UNCHANGED <<input, phase, todo, memory, zones, table, tables, held>>
  BY <1>a, <1>b DEF HandOver, map
<1>1. MapPart /\ TablePart /\ PagePart
  BY DEF MemInv
<1>2. /\ input \in Inputs /\ Tidy(zones, Top, {"Regular"}, {"Unknown"})
  BY <1>1 DEF MapPart, KernelMaps
<1>3. /\ IsShared(zones, input, tables, avail, left, held) /\ left \subseteq HeapOf(input)
  BY <1>0, <1>1 DEF PagePart
<1>4. left \in SUBSET Nat
  BY <1>2, <1>3, HeapPage
<1>5. \E q \in left : \A r \in left : q <= r
  BY <1>0, <1>4, LeastElement
<1>6. p \in left /\ p \in Nat /\ p \in HeapOf(input)
  BY <1>3, <1>4, <1>5, <1>a
<1>7. /\ IsTable(table, zones) /\ avail \in Seq(SUBSET Nat) /\ Len(avail) = Len(table)
      /\ Len(table) = Len(zones)
  BY <1>0, <1>1 DEF TablePart
<1>8. h \in 1 .. Len(avail) /\ PageIn(p, zones[h])
  BY <1>0, <1>2, <1>7, <1>b, HomeIs
<1>9. avail[h] \cup {p} \in SUBSET Nat
  BY <1>6, <1>7, <1>8
<1>10. /\ avail' \in Seq(SUBSET Nat) /\ Len(avail') = Len(avail)
       /\ \A k \in 1 .. Len(avail) : avail'[k] = IF k = h THEN avail[h] \cup {p} ELSE avail[k]
  <2>1. avail' = [avail EXCEPT ![h] = avail[h] \cup {p}]
    BY <1>0
  <2>. QED
    BY <1>7, <1>8, <1>9, <2>1, OneZone
<1>11. \A q : InAvail(avail', q) <=> InAvail(avail, q) \/ q = p
  BY <1>8, <1>10 DEF InAvail
<1>12. ~ PageFree(p, input, tables)
  BY <1>2, <1>6, HeapNotFree
<1>13. ~ InAvail(avail, p) /\ ~ InHeld(held, p)
  BY <1>3, <1>6, <1>12 DEF IsShared, AllGiven
<1>14. InOwnZone(zones, avail')
  BY <1>3, <1>8, <1>10 DEF IsShared, InOwnZone
<1>15. InOneHand(avail', held)
  BY <1>3, <1>11, <1>13 DEF IsShared, InOneHand
<1>16. AllGiven(input, tables, avail', left', held)
  BY <1>0, <1>3, <1>6, <1>11 DEF IsShared, AllGiven
<1>17. IsShared(zones, input, tables, avail', left', held)
  BY <1>3, <1>14, <1>15, <1>16 DEF IsShared
<1>18. MapPart'
  BY <1>0, <1>1 DEF MapPart
<1>19. TablePart'
  BY <1>0, <1>1, <1>10 DEF TablePart
<1>20. PagePart'
  BY <1>0, <1>3, <1>17 DEF PagePart
<1>. QED
  BY <1>18, <1>19, <1>20 DEF MemInv

(* The whole heap is handed over.                                          *)
LEMMA HandedOverMem ==
  ASSUME MemInv, HandedOver
  PROVE  MemInv'
<1>0. /\ phase = "heap" /\ left = {} /\ phase' = "run"
      /\ UNCHANGED <<input, todo, memory, zones, table, tables, avail, left, held>>
  BY DEF HandedOver, map
<1>1. MapPart /\ TablePart /\ PagePart
  BY DEF MemInv
<1>2. MapPart'
  BY <1>0, <1>1 DEF MapPart, Phases
<1>3. TablePart'
  BY <1>0, <1>1 DEF TablePart
<1>4. PagePart'
  BY <1>0, <1>1 DEF PagePart
<1>. QED
  BY <1>2, <1>3, <1>4 DEF MemInv

(* A block begins with its first page.                                     *)
LEMMA FirstPage ==
  ASSUME NEW p \in Nat, NEW o \in 0 .. MaxOrder
  PROVE  p \in Block(p, o)
<1>1. Size[o] \in Nat \ {0}
  BY SizePositive
<1>. QED
  BY <1>1 DEF Block

(* A block leaves a zone for a caller.                                     *)
LEMMA AllocateMem ==
  ASSUME MemInv, NEW o \in 0 .. MaxOrder, AllocatePages(o)
  PROVE  MemInv'
<1>a. PICK i \in DOMAIN avail :
        /\ phase = "run" /\ Cardinality(held) < MaxHeld
        /\ \E p \in FreeBlocksOf(i, o) :
             /\ avail' = [avail EXCEPT ![i] = @ \ Block(p, o)]
             /\ held' = held \cup {<<p, o>>}
        /\ UNCHANGED <<input, phase, map, table, tables, left>>
  BY DEF AllocatePages
<1>b. PICK p \in FreeBlocksOf(i, o) :
        avail' = [avail EXCEPT ![i] = @ \ Block(p, o)] /\ held' = held \cup {<<p, o>>}
  BY <1>a
<1>c. PICK B : B = Block(p, o)
  OBVIOUS
<1>0. /\ phase = "run" /\ Cardinality(held) < MaxHeld
      /\ avail' = [avail EXCEPT ![i] = avail[i] \ B] /\ held' = held \cup {<<p, o>>}
      /\ UNCHANGED <<input, phase, todo, memory, zones, table, tables, left>>
      /\ p \in avail[i] /\ B \subseteq avail[i]
  BY <1>a, <1>b, <1>c DEF FreeBlocksOf, map
<1>1. MapPart /\ TablePart /\ PagePart
  BY DEF MemInv
<1>2. /\ avail \in Seq(SUBSET Nat) /\ i \in 1 .. Len(avail) /\ avail[i] \in SUBSET Nat
      /\ Len(avail) = Len(table) /\ Len(table) = Len(zones)
  BY <1>0, <1>1 DEF TablePart
<1>3. /\ IsShared(zones, input, tables, avail, left, held)
      /\ left \subseteq HeapOf(input) /\ left = {}
  BY <1>0, <1>1 DEF PagePart
<1>4. p \in Nat /\ p \in B
  BY <1>0, <1>2, <1>c, FirstPage
<1>5. /\ avail' \in Seq(SUBSET Nat) /\ Len(avail') = Len(avail)
      /\ \A k \in 1 .. Len(avail) : avail'[k] = IF k = i THEN avail[i] \ B ELSE avail[k]
  <2>1. avail[i] \ B \in SUBSET Nat
    BY <1>2
  <2>. QED
    BY <1>0, <1>2, <2>1, OneZone
<1>6. \A q \in B : PageIn(q, zones[i]) /\ InAvail(avail, q)
  BY <1>0, <1>2, <1>3 DEF IsShared, InOwnZone, InAvail
<1>7. ASSUME NEW q PROVE InAvail(avail', q) <=> InAvail(avail, q) /\ q \notin B
  <2>1. InAvail(avail', q) => InAvail(avail, q)
    BY <1>5 DEF InAvail
  <2>2. ASSUME InAvail(avail, q), q \notin B PROVE InAvail(avail', q)
    <3>1. PICK k \in 1 .. Len(avail) : q \in avail[k]
      BY <2>2 DEF InAvail
    <3>2. q \in avail'[k]
      BY <1>5, <2>2, <3>1
    <3>. QED
      BY <1>5, <3>2 DEF InAvail
  <2>3. ASSUME InAvail(avail', q), q \in B PROVE FALSE
    <3>1. PICK k \in 1 .. Len(avail) : q \in avail'[k]
      BY <1>5, <2>3 DEF InAvail
    <3>2. k # i /\ q \in avail[k]
      BY <1>5, <2>3, <3>1
    <3>3. PageIn(q, zones[k]) /\ PageIn(q, zones[i])
      BY <1>3, <1>6, <2>3, <3>1, <3>2 DEF IsShared, InOwnZone
    <3>4. Tidy(zones, Top, {"Regular"}, {"Unknown"}) /\ k \in 1 .. Len(zones) /\ i \in 1 .. Len(zones)
      BY <1>1, <1>2, <3>1 DEF MapPart, KernelMaps
    <3>. QED
      BY <3>2, <3>3, <3>4, TopIs, ZonesApart
  <2>. QED
    BY <2>1, <2>2, <2>3
<1>8. \A q : InHeld(held', q) <=> InHeld(held, q) \/ q \in B
  <2>1. \A b : b \in held' <=> b \in held \/ b = <<p, o>>
    BY <1>0
  <2>2. <<p, o>>[1] = p /\ <<p, o>>[2] = o
    OBVIOUS
  <2>. QED
    BY <1>c, <2>1, <2>2 DEF InHeld
<1>9. \A q \in B : ~ InHeld(held, q)
  BY <1>3, <1>6 DEF IsShared, InOneHand
<1>10. InOwnZone(zones, avail')
  BY <1>3, <1>5 DEF IsShared, InOwnZone
<1>11. \A b \in held' : IsHeld(b, zones)
  <2>1. IsHeld(<<p, o>>, zones)
    BY <1>2, <1>4, <1>6, <1>c DEF IsHeld
  <2>. QED
    BY <1>0, <1>3, <2>1 DEF IsShared
<1>12. InOneHand(avail', held')
  <2>1. \A q : ~ (InAvail(avail', q) /\ InHeld(held', q))
    BY <1>3, <1>7, <1>8 DEF IsShared, InOneHand
  <2>2. ASSUME NEW b \in held', NEW c \in held', NEW q, q \in Block(b[1], b[2]), q \in Block(c[1], c[2])
        PROVE  b = c
    <3>1. CASE b \in held /\ c \in held
      BY <1>3, <2>2, <3>1 DEF IsShared, InOneHand
    <3>2. ASSUME NEW d \in held', d = <<p, o>> PROVE Block(d[1], d[2]) = B
      BY <1>c, <3>2
    <3>3. ASSUME NEW d \in held', q \in Block(d[1], d[2]), q \in B PROVE d = <<p, o>>
      <4>1. ~ InHeld(held, q)
        BY <1>9, <3>3
      <4>2. d \notin held
        BY <3>3, <4>1 DEF InHeld
      <4>. QED
        BY <1>0, <4>2
    <3>4. b \in held \/ b = <<p, o>>
      BY <1>0
    <3>5. c \in held \/ c = <<p, o>>
      BY <1>0
    <3>. QED
      BY <2>2, <3>1, <3>2, <3>3, <3>4, <3>5
  <2>. QED
    BY <2>1, <2>2 DEF InOneHand
<1>13. AllGiven(input, tables, avail', left, held')
  <2>1. \A q : InAvail(avail', q) \/ InHeld(held', q) <=> InAvail(avail, q) \/ InHeld(held, q)
    BY <1>6, <1>7, <1>8
  <2>. QED
    BY <1>3, <2>1 DEF IsShared, AllGiven
<1>14. IsFiniteSet(held') /\ Cardinality(held') <= MaxHeld
  <2>1. IsFiniteSet(held) /\ MaxHeld \in Nat
    BY <1>3, MemoryAssumption DEF IsShared
  <2>2. /\ IsFiniteSet(held \cup {<<p, o>>})
        /\ Cardinality(held \cup {<<p, o>>}) =
             IF <<p, o>> \in held THEN Cardinality(held) ELSE Cardinality(held) + 1
    BY <2>1, FS_AddElement
  <2>3. Cardinality(held) \in Nat
    BY <2>1, FS_CardinalityType
  <2>. QED
    BY <1>0, <2>1, <2>2, <2>3
<1>15. IsShared(zones, input, tables, avail', left, held')
  BY <1>10, <1>11, <1>12, <1>13, <1>14 DEF IsShared
<1>16. MapPart'
  BY <1>0, <1>1 DEF MapPart
<1>17. TablePart'
  BY <1>0, <1>1, <1>5 DEF TablePart
<1>18. PagePart'
  BY <1>0, <1>3, <1>15 DEF PagePart
<1>. QED
  BY <1>16, <1>17, <1>18 DEF MemInv

(* A caller gives a block back to the zone that its first page is in.      *)
LEMMA GiveBackMem ==
  ASSUME MemInv, NEW b \in held, GiveBack(b[1], b[2])
  PROVE  MemInv'
<1>1. MapPart /\ TablePart /\ PagePart
  BY DEF MemInv
<1>2. /\ avail \in Seq(SUBSET Nat) /\ IsTable(table, zones)
      /\ Len(avail) = Len(table) /\ Len(table) = Len(zones)
      /\ Tidy(zones, Top, {"Regular"}, {"Unknown"})
      /\ IsShared(zones, input, tables, avail, left, held)
      /\ left \subseteq HeapOf(input) /\ left = {}
  BY <1>1 DEF GiveBack, TablePart, PagePart, MapPart, KernelMaps
<1>3. IsHeld(b, zones)
  BY <1>2 DEF IsShared
<1>4. PICK p \in Nat, o \in 0 .. MaxOrder :
        /\ b = <<p, o>>
        /\ \E i \in 1 .. Len(zones) : \A q \in Block(p, o) : PageIn(q, zones[i])
  BY <1>3 DEF IsHeld
<1>5. PICK i \in 1 .. Len(zones) : \A q \in Block(p, o) : PageIn(q, zones[i])
  BY <1>4
<1>6. Home(p) = i
  BY <1>2, <1>5, FirstPage, HomeIs
<1>c. PICK B : B = Block(p, o)
  OBVIOUS
<1>0. /\ phase = "run" /\ b[1] = p /\ b[2] = o
      /\ avail' = [avail EXCEPT ![i] = avail[i] \cup B] /\ held' = held \ {b}
      /\ UNCHANGED <<input, phase, todo, memory, zones, table, tables, left>>
  BY <1>4, <1>6, <1>c DEF GiveBack, map
<1>7. i \in 1 .. Len(avail) /\ avail[i] \cup B \in SUBSET Nat
  <2>1. B \in SUBSET Nat
    BY <1>5, <1>c DEF PageIn
  <2>2. i \in 1 .. Len(avail) /\ avail[i] \in SUBSET Nat
    BY <1>2
  <2>. QED
    BY <2>1, <2>2
<1>8. /\ avail' \in Seq(SUBSET Nat) /\ Len(avail') = Len(avail)
      /\ \A k \in 1 .. Len(avail) : avail'[k] = IF k = i THEN avail[i] \cup B ELSE avail[k]
  BY <1>0, <1>2, <1>7, OneZone
<1>9. \A q : InAvail(avail', q) <=> InAvail(avail, q) \/ q \in B
  BY <1>7, <1>8 DEF InAvail
<1>10. \A q \in B : InHeld(held, q) /\ ~ InAvail(avail, q)
  <2>1. \A q \in B : InHeld(held, q)
    BY <1>0, <1>c DEF InHeld
  <2>. QED
    BY <1>2, <2>1 DEF IsShared, InOneHand
<1>11. ASSUME NEW q PROVE InHeld(held', q) <=> InHeld(held, q) /\ q \notin B
  <2>1. ASSUME InHeld(held', q) PROVE InHeld(held, q) /\ q \notin B
    <3>1. PICK c \in held : c # b /\ q \in Block(c[1], c[2])
      BY <1>0, <2>1 DEF InHeld
    <3>2. ASSUME q \in Block(b[1], b[2]) PROVE FALSE
      BY <1>2, <3>1, <3>2 DEF IsShared, InOneHand
    <3>. QED
      BY <1>0, <1>c, <3>1, <3>2 DEF InHeld
  <2>2. ASSUME InHeld(held, q), q \notin B PROVE InHeld(held', q)
    <3>1. PICK c \in held : q \in Block(c[1], c[2])
      BY <2>2 DEF InHeld
    <3>2. c # b
      BY <1>0, <1>c, <2>2, <3>1
    <3>. QED
      BY <1>0, <3>1, <3>2 DEF InHeld
  <2>. QED
    BY <2>1, <2>2
<1>12. InOwnZone(zones, avail')
  BY <1>2, <1>5, <1>8, <1>c DEF IsShared, InOwnZone
<1>13. InOneHand(avail', held')
  <2>1. \A q : ~ (InAvail(avail', q) /\ InHeld(held', q))
    BY <1>2, <1>9, <1>11 DEF IsShared, InOneHand
  <2>2. held' \subseteq held
    BY <1>0
  <2>. QED
    BY <1>2, <2>1, <2>2 DEF IsShared, InOneHand
<1>14. AllGiven(input, tables, avail', left, held')
  <2>1. \A q : InAvail(avail', q) \/ InHeld(held', q) <=> InAvail(avail, q) \/ InHeld(held, q)
    BY <1>9, <1>10, <1>11
  <2>. QED
    BY <1>2, <2>1 DEF IsShared, AllGiven
<1>15. IsFiniteSet(held') /\ Cardinality(held') <= MaxHeld
  <2>1. IsFiniteSet(held) /\ Cardinality(held) <= MaxHeld /\ MaxHeld \in Nat
    BY <1>2, MemoryAssumption DEF IsShared
  <2>2. held' \subseteq held
    BY <1>0
  <2>3. IsFiniteSet(held') /\ Cardinality(held') <= Cardinality(held)
    BY <2>1, <2>2, FS_Subset
  <2>4. Cardinality(held) \in Nat /\ Cardinality(held') \in Nat
    BY <2>1, <2>3, FS_CardinalityType
  <2>. QED
    BY <2>1, <2>3, <2>4
<1>16. IsShared(zones, input, tables, avail', left, held')
  <2>1. \A c \in held' : IsHeld(c, zones)
    BY <1>0, <1>2 DEF IsShared
  <2>. QED
    BY <1>12, <1>13, <1>14, <1>15, <2>1 DEF IsShared
<1>17. MapPart'
  BY <1>0, <1>1 DEF MapPart
<1>18. TablePart'
  BY <1>0, <1>1, <1>8 DEF TablePart
<1>19. PagePart'
  BY <1>0, <1>2, <1>16 DEF PagePart
<1>. QED
  BY <1>17, <1>18, <1>19 DEF MemInv

(* Every step of the boot and of the allocator keeps the invariant.        *)
LEMMA MemStepInv == MemInv /\ [Next]_vars => MemInv'
<1>. SUFFICES ASSUME MemInv, [Next]_vars PROVE MemInv'
  OBVIOUS
<1>1. CASE Boot
  BY <1>1, DescribeMem, DescribedMem, CreateTableMem, CreateZoneMem, CreatedZonesMem,
     CreatePanicsMem, ReleaseMem, HandOverMem, HandedOverMem DEF Boot
<1>2. ASSUME NEW o \in 0 .. MaxOrder, AllocatePages(o) PROVE MemInv'
  BY <1>2, AllocateMem
<1>3. ASSUME NEW b \in held, GiveBack(b[1], b[2]) PROVE MemInv'
  BY <1>3, GiveBackMem
<1>4. CASE UNCHANGED vars
  BY <1>4 DEF vars, map, MemInv, MapPart, TablePart, PagePart
<1>. QED
  BY <1>1, <1>2, <1>3, <1>4 DEF Next, Panicked, Running

(* Whatever the device tree says, boot goes through its phases in that     *)
(* state, and the allocator that it leaves keeps it.                       *)
THEOREM BootInvariant == Spec => []MemInv
BY MemInitInv, MemStepInv, PTL DEF Spec

(* The pages that zones and callers have.                                  *)
LEMMA PagesAre ==
  ASSUME TablePart
  PROVE  \A p : /\ p \in AvailPages <=> InAvail(avail, p)
                /\ p \in HeldPages <=> InHeld(held, p)
<1>1. DOMAIN avail = 1 .. Len(avail)
  BY DEF TablePart
<1>2. \A p : p \in AvailPages <=> \E i \in DOMAIN avail : p \in avail[i]
  BY DEF AvailPages
<1>3. \A p : p \in HeldPages <=> InHeld(held, p)
  BY DEF HeldPages, InHeld
<1>. QED
  BY <1>1, <1>2, <1>3 DEF InAvail

(* The units of a page lie in a set.                                       *)
LEMMA PageInSet ==
  ASSUME NEW p \in Nat, NEW X
  PROVE  PageUnits({p}) \subseteq X <=> \A u \in Nat : PageUnit(p, u) => u \in X
<1>1. \A u : u \in PageUnits({p}) <=> u \in Nat /\ PageUnit(p, u)
  BY PageUnitsAre
<1>. QED
  BY <1>1

(* What is said of memory that is not reserved, in the model's words.      *)
LEMMA OwnedIs ==
  ASSUME input \in Inputs
  PROVE  \A p : p \in Owned <=> PageFree(p, input, tables)
<1>1. ASSUME NEW p \in Nat
      PROVE  PageUnits({p}) \subseteq NodeUnits \ (ReservedUnits \cup tables)
               <=> PageFree(p, input, tables)
  <2>1. NodeUnits \ (ReservedUnits \cup tables) = FreeUnits(input) \ tables
    BY DEF NodeUnits, ReservedUnits, FreeUnits
  <2>2. PageUnits({p}) \subseteq FreeUnits(input) \ tables
          <=> \A u \in Nat : PageUnit(p, u) => u \in FreeUnits(input) \ tables
    BY PageInSet
  <2>. QED
    BY <2>1, <2>2 DEF PageFree
<1>a. PICK P : P = PageSize
  OBVIOUS
<1>2. P \in Nat \ {0} /\ Word \in Nat /\ Word \div P \in Nat
  <2>1. P \in Nat \ {0} /\ Word \in Nat
    BY <1>a, MemoryAssumption
  <2>. QED
    BY <2>1, Down
<1>3. ASSUME NEW p, PageFree(p, input, tables) PROVE p \in 0 .. Word \div P - 1
  <2>1. p \in Nat /\ \A u \in Nat : PageUnit(p, u) => u \in UnitsIn(input.nodes)
    BY <1>3 DEF PageFree, FreeUnits
  <2>2. PICK a, c : a = p * PageSize /\ c = (p + 1) * PageSize
    OBVIOUS
  <2>3. a \in Nat /\ c \in Nat /\ a + P = c
    BY <1>a, <2>1, <2>2, PageUnitsAre
  <2>4. c - 1 \in UnitsIn(input.nodes)
    <3>1. c - 1 \in Nat /\ a <= c - 1 /\ c - 1 < c
      BY <1>2, <2>3
    <3>2. PageUnit(p, c - 1)
      BY <2>2, <3>1 DEF PageUnit
    <3>. QED
      BY <2>1, <3>1, <3>2
  <2>5. PICK r \in (0 .. Top) \X (0 .. Top) : c - 1 \in Units(r[1], r[2])
    <3>1. input.nodes \in Seq((0 .. Top) \X (0 .. Top))
      BY InputAssumption
    <3>2. PICK i \in DOMAIN input.nodes : c - 1 \in Units(input.nodes[i][1], input.nodes[i][2])
      BY <2>4 DEF UnitsIn
    <3>3. input.nodes[i] \in (0 .. Top) \X (0 .. Top)
      BY <3>1, <3>2
    <3>. QED
      BY <3>2, <3>3
  <2>6. PICK x, y \in 0 .. Top : c - 1 \in x .. y - 1
    BY <2>5 DEF Units
  <2>7. c <= Word
    BY <2>3, <2>6, TopIs
  <2>8. p + 1 <= Word \div P
    <3>1. p + 1 \in Nat /\ (p + 1) * P <= Word
      BY <1>a, <2>1, <2>2, <2>7
    <3>. QED
      BY <1>2, <3>1, Down
  <2>. QED
    BY <1>2, <2>1, <2>8
<1>4. \A p \in 0 .. Word \div P - 1 : p \in Nat
  BY <1>2
<1>. QED
  BY <1>1, <1>3, <1>4, <1>a DEF Owned, PageFree

(* A page the kernel hands out is memory of a node or of the heap that was *)
(* handed over, not reserved by anyone, with no table in it: the map keeps *)
(* what from_devicetree was told, and Release reads it.                    *)
THEOREM PagesAreOwnMemory == Spec => []HandsOutOwnMemory
<1>1. MemInv => HandsOutOwnMemory
  <2>1. SUFFICES ASSUME MemInv, NEW p \in AvailPages \cup HeldPages
                 PROVE  LET U == PageUnits({p})
                        IN  /\ U \cap tables = {}
                            /\ \/ U \subseteq NodeUnits \ ReservedUnits
                               \/ p \in HeapPages \ left
    BY DEF HandsOutOwnMemory
  <2>2. MapPart /\ TablePart /\ PagePart
    BY <2>1 DEF MemInv
  <2>3. InAvail(avail, p) \/ InHeld(held, p)
    BY <2>1, <2>2, PagesAre
  <2>4. phase \in {"heap", "run"}
    <3>1. Untouched(input, avail, left, held) => ~ InAvail(avail, p) /\ ~ InHeld(held, p)
      BY DEF Untouched, InAvail, InHeld
    <3>. QED
      BY <2>2, <2>3, <3>1 DEF PagePart
  <2>5. /\ input \in Inputs /\ tables \subseteq FreeUnits(input)
        /\ PageFree(p, input, tables) \/ (p \in HeapOf(input) /\ p \notin left)
    <3>1. AllGiven(input, tables, avail, left, held)
      BY <2>2, <2>4 DEF PagePart, IsShared
    <3>2. PageFree(p, input, tables) \/ (p \in HeapOf(input) /\ p \notin left)
      BY <2>3, <3>1 DEF AllGiven
    <3>3. input \in Inputs /\ IsDescribed(memory, input, tables)
      BY <2>2, <2>4 DEF MapPart
    <3>. QED
      BY <3>2, <3>3 DEF IsDescribed
  <2>6. FreeUnits(input) = NodeUnits \ ReservedUnits /\ ReservedUnits = TakenUnits(input)
    BY DEF FreeUnits, TakenUnits, NodeUnits, ReservedUnits
  <2>7. CASE PageFree(p, input, tables)
    <3>1. PageUnits({p}) \subseteq FreeUnits(input) \ tables
      BY <2>7, PageInSet DEF PageFree
    <3>. QED
      BY <2>6, <3>1
  <2>8. CASE p \in HeapOf(input) /\ p \notin left
    <3>1. PageUnits({p}) \subseteq TakenUnits(input)
      BY <2>5, <2>8, HeapPage, PageInSet
    <3>2. PageUnits({p}) \cap tables = {}
      BY <2>5, <3>1 DEF FreeUnits, TakenUnits
    <3>3. p \in HeapPages \ left
      BY <2>8 DEF HeapOf, HeapPages
    <3>. QED
      BY <3>2, <3>3
  <2>. QED
    BY <2>5, <2>7, <2>8
<1>. QED
  BY <1>1, BootInvariant, PTL

(* No page is lost: once boot is done, every whole page of free memory     *)
(* that no table lies in, and every whole page of the heap, is in a zone   *)
(* or held.                                                                *)
THEOREM NoPageIsLost == Spec => []NothingLost
<1>1. MemInv => NothingLost
  <2>1. SUFFICES ASSUME MemInv, phase = "run"
                 PROVE  AvailPages \cup HeldPages = Owned \cup HeapPages
    BY DEF NothingLost
  <2>2. MapPart /\ TablePart /\ PagePart
    BY <2>1 DEF MemInv
  <2>3. AllGiven(input, tables, avail, left, held) /\ left = {} /\ input \in Inputs
    BY <2>1, <2>2 DEF PagePart, IsShared, MapPart
  <2>4. \A p : p \in AvailPages \cup HeldPages <=> InAvail(avail, p) \/ InHeld(held, p)
    BY <2>2, PagesAre
  <2>5. \A p : p \in Owned \cup HeapPages <=> PageFree(p, input, tables) \/ p \in HeapOf(input)
    BY <2>3, OwnedIs DEF HeapPages, HeapOf
  <2>. QED
    BY <2>3, <2>4, <2>5 DEF AllGiven
<1>. QED
  BY <1>1, BootInvariant, PTL

(* Every page is given once, to the zone it lies in: zones have no page in *)
(* common, a held page is not available, no two callers hold the same      *)
(* page, and a heap page is new to the zones when it is handed over.       *)
THEOREM PagesAreReleasedOnce == Spec => []ReleasedOnce
<1>1. MemInv => TypeOK
  <2>1. SUFFICES ASSUME MemInv PROVE TypeOK
    OBVIOUS
  <2>2. MapPart /\ TablePart /\ PagePart
    BY <2>1 DEF MemInv
  <2>3. DOMAIN avail = 1 .. Len(avail) /\ DOMAIN table = 1 .. Len(table) /\ Len(avail) = Len(table)
    BY <2>2 DEF TablePart, IsTable
  <2>4. \A i \in 1 .. Len(avail) : avail[i] \subseteq ZonePages(i)
    <3>1. CASE phase \notin {"heap", "run"}
      BY <2>2, <3>1 DEF PagePart, Untouched
    <3>2. CASE phase \in {"heap", "run"}
      <4>1. InOwnZone(zones, avail) /\ IsTable(table, zones)
        BY <2>2, <3>2 DEF PagePart, TablePart, IsShared
      <4>. QED
        BY <2>3, <4>1 DEF InOwnZone, IsTable, IsZone, ZonePages
    <3>. QED
      BY <3>1, <3>2
  <2>5. left \subseteq HeapPages /\ Cardinality(held) <= MaxHeld
    <3>1. CASE phase \notin {"heap", "run"}
      <4>1. left = HeapOf(input) /\ held = {}
        BY <2>2, <3>1 DEF PagePart, Untouched
      <4>2. Cardinality(held) = 0 /\ MaxHeld \in Nat
        BY <4>1, FS_EmptySet, MemoryAssumption
      <4>3. HeapOf(input) = HeapPages
        BY DEF HeapPages, HeapOf
      <4>. QED
        BY <4>1, <4>2, <4>3
    <3>2. CASE phase \in {"heap", "run"}
      BY <2>2, <3>2 DEF PagePart, IsShared, HeapPages, HeapOf
    <3>. QED
      BY <3>1, <3>2
  <2>6. phase \in Phases
    BY <2>2 DEF MapPart
  <2>. QED
    BY <2>3, <2>4, <2>5, <2>6 DEF TypeOK, Phases
<1>2. ASSUME MemInv PROVE \A i, k \in DOMAIN table : i # k => ZonePages(i) \cap ZonePages(k) = {}
  <2>1. /\ Tidy(zones, Top, {"Regular"}, {"Unknown"}) /\ IsTable(table, zones)
    BY <1>2 DEF MemInv, MapPart, KernelMaps, TablePart
  <2>2. SUFFICES ASSUME NEW i \in DOMAIN table, NEW k \in DOMAIN table, NEW p,
                        p \in ZonePages(i), p \in ZonePages(k)
                 PROVE  i = k
    OBVIOUS
  <2>3. Len(zones) \in Nat
    BY <2>1, TopIs, SeqFacts DEF Tidy, Chain
  <2>4. i \in 1 .. Len(table) /\ k \in 1 .. Len(table) /\ i \in 1 .. Len(zones) /\ k \in 1 .. Len(zones)
    <3>1. /\ DOMAIN table = 1 .. Len(table) /\ Len(table) \in Nat /\ Len(table) <= Len(zones)
      BY <2>1 DEF IsTable
    <3>. QED
      BY <2>2, <2>3, <3>1
  <2>5. PageIn(p, zones[i]) /\ PageIn(p, zones[k])
    BY <2>1, <2>2, <2>4 DEF IsTable, IsZone, ZonePages
  <2>. QED
    BY <2>1, <2>4, <2>5, TopIs, ZonesApart
<1>3. ASSUME MemInv
      PROVE  /\ AvailPages \cap HeldPages = {}
             /\ (AvailPages \cup HeldPages) \cap left = {}
             /\ \A b, c \in held : b # c => Block(b[1], b[2]) \cap Block(c[1], c[2]) = {}
  <2>1. MapPart /\ TablePart /\ PagePart
    BY <1>3 DEF MemInv
  <2>2. CASE phase \notin {"heap", "run"}
    <3>1. Untouched(input, avail, left, held)
      BY <2>1, <2>2 DEF PagePart
    <3>2. held = {} /\ \A p : ~ InAvail(avail, p) /\ ~ InHeld(held, p)
      BY <3>1 DEF Untouched, InAvail, InHeld
    <3>3. \A p : p \notin AvailPages /\ p \notin HeldPages
      BY <2>1, <3>2, PagesAre
    <3>. QED
      BY <3>2, <3>3
  <2>3. CASE phase \in {"heap", "run"}
    <3>1. /\ InOneHand(avail, held) /\ AllGiven(input, tables, avail, left, held)
          /\ left \subseteq HeapOf(input) /\ input \in Inputs
      BY <2>1, <2>3 DEF PagePart, IsShared, MapPart
    <3>2. \A p : p \in left => ~ InAvail(avail, p) /\ ~ InHeld(held, p)
      BY <3>1, HeapNotFree DEF AllGiven
    <3>3. \A p : ~ (InAvail(avail, p) /\ InHeld(held, p))
      BY <3>1 DEF InOneHand
    <3>4. \A b, c \in held : b # c => Block(b[1], b[2]) \cap Block(c[1], c[2]) = {}
      BY <3>1 DEF InOneHand
    <3>. QED
      BY <2>1, <3>2, <3>3, <3>4, PagesAre
  <2>. QED
    BY <2>2, <2>3
<1>4. MemInv => ReleasedOnce
  BY <1>1, <1>2, <1>3 DEF ReleasedOnce
<1>. QED
  BY <1>4, BootInvariant, PTL

(* HandOver needs no step for a page that no zone contains: the heap is    *)
(* among the ranges that the bootstrap code reserves, each of them is in   *)
(* the map, and every whole page of the map is in a zone.                  *)
THEOREM HeapIsInZones == Spec => [](phase = "heap" => \A p \in left : Home(p) # 0)
<1>1. MemInv => (phase = "heap" => \A p \in left : Home(p) # 0)
  <2>1. SUFFICES ASSUME MemInv, phase = "heap", NEW p \in left PROVE Home(p) # 0
    OBVIOUS
  <2>2. /\ input \in Inputs /\ KernelMaps(memory, zones) /\ IsDescribed(memory, input, tables)
        /\ Tidy(zones, Top, {"Regular"}, {"Unknown"})
        /\ IsTable(table, zones) /\ Len(table) = Len(zones)
        /\ p \in HeapOf(input)
    BY <2>1 DEF MemInv, MapPart, TablePart, PagePart, KernelMaps
  <2>3. p \in Nat /\ \A u \in Nat : PageUnit(p, u) => u \in UnitsIn(input.nodes) \cup TakenUnits(input)
    BY <2>2, HeapPage
  <2>4. PICK i \in 1 .. Len(zones) : PageIn(p, zones[i])
    BY <2>2, <2>3, InSomeZone
  <2>. QED
    BY <2>2, <2>4, HomeIs
<1>. QED
  BY <1>1, BootInvariant, PTL
=============================================================================
