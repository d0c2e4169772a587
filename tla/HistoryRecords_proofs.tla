----------------------- MODULE HistoryRecords_proofs -----------------------
(***************************************************************************)
(* Lemmas about the operators of HistoryRecords, for sequences of any      *)
(* length and any capacity.                                                *)
(***************************************************************************)
EXTENDS HistoryRecords, FiniteSetTheorems, SequenceTheorems, TLAPS

-----------------------------------------------------------------------------
(* Counting. *)

\* Of two indices in a finite set, the later one has the higher rank.
LEMMA RankIsStrict ==
  ASSUME NEW K \in SUBSET Int, IsFiniteSet(K), NEW i \in K, NEW j \in K, i < j
  PROVE  Rank(K, i) < Rank(K, j)
<1> DEFINE upto(x) == {k \in K : k <= x}
<1>1. IsFiniteSet(upto(i)) /\ IsFiniteSet(upto(j))
  BY FS_Subset, upto(i) \in SUBSET K, upto(j) \in SUBSET K
<1>2. upto(i) \in SUBSET upto(j) /\ j \in upto(j) /\ j \notin upto(i)
  <2>1. K \subseteq Int
    OBVIOUS
  <2>2. ASSUME NEW k \in K, k <= i PROVE k <= j
    BY <2>1, <2>2
  <2>3. ~(j <= i) /\ j <= j
    BY <2>1
  <2> QED BY <2>2, <2>3
<1>3. Cardinality(upto(i)) \in Nat /\ Cardinality(upto(j)) \in Nat
  BY <1>1, FS_CardinalityType
<1>4. Cardinality(upto(i)) <= Cardinality(upto(j)) /\ Cardinality(upto(i)) # Cardinality(upto(j))
  BY <1>1, <1>2, FS_Subset
<1> QED BY <1>3, <1>4 DEF Rank

\* Ranks run from 1 to the size of the set.
LEMMA RankRange ==
  ASSUME NEW K \in SUBSET Int, IsFiniteSet(K), NEW i \in K
  PROVE  Rank(K, i) \in 1 .. Cardinality(K)
<1> DEFINE upto == {k \in K : k <= i}
<1>1. upto \in SUBSET K /\ i \in upto
  OBVIOUS
<1>2. IsFiniteSet(upto) /\ Cardinality(upto) <= Cardinality(K) /\ upto # {}
  BY <1>1, FS_Subset
<1>3. Cardinality(upto) \in Nat /\ Cardinality(upto) # 0 /\ Cardinality(K) \in Nat
  BY <1>2, FS_CardinalityType, FS_EmptySet
<1> QED BY <1>2, <1>3 DEF Rank

\* Every position of the kept records is taken by one kept index.
LEMMA NthExists ==
  ASSUME NEW K \in SUBSET Int, IsFiniteSet(K), NEW j \in 1 .. Cardinality(K)
  PROVE  Nth(K, j) \in K /\ Rank(K, Nth(K, j)) = j
<1> DEFINE T == 1 .. Cardinality(K)
           f == [i \in K |-> Rank(K, i)]
<1>1. Cardinality(K) \in Nat
  BY FS_CardinalityType
<1>2. IsFiniteSet(T) /\ Cardinality(T) = Cardinality(K)
  BY <1>1, FS_Interval
<1>3. f \in Injection(K, T)
  <2>1. f \in [K -> T]
    BY RankRange
  <2>2. ASSUME NEW a \in K, NEW b \in K, f[a] = f[b] PROVE a = b
    <3>1. a < b \/ b < a \/ a = b
      OBVIOUS
    <3>2. Rank(K, a) \in Nat /\ Rank(K, b) \in Nat
      BY <1>1, RankRange
    <3>3. a < b => Rank(K, a) < Rank(K, b)
      BY RankIsStrict
    <3>4. b < a => Rank(K, b) < Rank(K, a)
      BY RankIsStrict
    <3> QED BY <3>1, <3>2, <3>3, <3>4, <2>2
  <2> QED BY <2>1, <2>2 DEF Injection, IsInjective
<1>4. f \in Surjection(K, T)
  BY <1>2, <1>3, FS_Injection
<1>5. \E i \in K : f[i] = j
  BY <1>4 DEF Surjection
<1>6. \E i \in K : Rank(K, i) = j
  BY <1>5
<1> QED BY <1>6 DEF Nth

-----------------------------------------------------------------------------
(* Sequences of records. *)

\* Trimming keeps the newest records and leaves a short sequence alone.
LEMMA TrimProperties ==
  ASSUME NEW L, NEW s \in Seq(L)
  PROVE  /\ Trim(s) \in Seq(L)
         /\ Len(Trim(s)) = IF Len(s) > MaxEntries THEN MaxEntries ELSE Len(s)
         /\ Len(s) <= MaxEntries => Trim(s) = s
         /\ s # <<>> => Trim(s) # <<>> /\ Newest(Trim(s)) = Newest(s)
<1>1. Len(s) \in Nat /\ MaxEntries \in Nat /\ MaxEntries > 0
  BY CapacityAssumption
<1>2. CASE Len(s) <= MaxEntries
  BY <1>1, <1>2 DEF Trim
<1>3. CASE Len(s) > MaxEntries
  <2> DEFINE m == Len(s) - MaxEntries + 1
             t == SubSeq(s, m, Len(s))
  <2>1. m \in 1 .. Len(s)
    BY <1>1, <1>3
  <2>2. t \in Seq(L) /\ Len(t) = MaxEntries /\ t[MaxEntries] = s[Len(s)]
    BY <1>1, <1>3, <2>1
  <2>3. Trim(s) = t
    BY <1>3 DEF Trim
  <2>4. t # <<>>
    <3> HIDE DEF t
    <3> QED BY <2>2, <1>1, EmptySeq
  <2> QED BY <1>1, <1>3, <2>2, <2>3, <2>4 DEF Newest
<1> QED BY <1>1, <1>2, <1>3

\* The indices that stay, as a finite set of positions.
LEMMA KeptIsFinite ==
  ASSUME NEW L, NEW s \in Seq(L), NEW removed
  PROVE  LET kept == DOMAIN s \ removed
         IN  /\ IsFiniteSet(kept)
             /\ kept \in SUBSET Int
             /\ Cardinality(kept) \in Nat
             /\ Cardinality(kept) <= Len(s)
             /\ removed \cap DOMAIN s # {} => Cardinality(kept) < Len(s)
<1> DEFINE kept == DOMAIN s \ removed
<1>1. DOMAIN s = 1 .. Len(s) /\ Len(s) \in Nat
  OBVIOUS
<1>2. IsFiniteSet(DOMAIN s) /\ Cardinality(DOMAIN s) = Len(s)
  BY <1>1, FS_Interval
<1>3. /\ IsFiniteSet(kept)
      /\ Cardinality(kept) <= Len(s)
      /\ Cardinality(kept) = Len(s) => kept = DOMAIN s
  BY <1>2, FS_Subset, kept \in SUBSET DOMAIN s
<1>4. Cardinality(kept) \in Nat
  BY <1>3, FS_CardinalityType
<1>5. kept \in SUBSET Int
  BY <1>1
<1>6. removed \cap DOMAIN s # {} => kept # DOMAIN s
  OBVIOUS
<1> QED BY <1>1, <1>3, <1>4, <1>5, <1>6

\* Removing records leaves a sequence of records, shorter if any was removed.
LEMMA RemoveProperties ==
  ASSUME NEW L, NEW s \in Seq(L), NEW removed
  PROVE  /\ RemoveIndices(s, removed) \in Seq(L)
         /\ Len(RemoveIndices(s, removed)) = Cardinality(DOMAIN s \ removed)
         /\ Len(RemoveIndices(s, removed)) <= Len(s)
         /\ removed \cap DOMAIN s # {} => Len(RemoveIndices(s, removed)) < Len(s)
<1> DEFINE kept == DOMAIN s \ removed
           t    == [j \in 1 .. Cardinality(kept) |-> s[Nth(kept, j)]]
<1>1. IsFiniteSet(kept) /\ kept \in SUBSET Int /\ Cardinality(kept) \in Nat
  BY KeptIsFinite
<1>2. ASSUME NEW j \in 1 .. Cardinality(kept) PROVE s[Nth(kept, j)] \in L
  <2>1. Nth(kept, j) \in kept
    BY <1>1, NthExists
  <2> QED BY <2>1
<1>3. t \in Seq(L) /\ Len(t) = Cardinality(kept)
  <2> DEFINE n == Cardinality(kept)
  <2>1. t \in [1 .. n -> L] /\ n \in Nat /\ DOMAIN t = 1 .. n
    BY <1>1, <1>2
  <2> HIDE DEF t, n
  <2>2. t \in Seq(L)
    BY <2>1, SeqDef
  <2>3. DOMAIN t = 1 .. Len(t) /\ Len(t) \in Nat
    BY <2>2, LenProperties
  <2> QED BY <2>1, <2>2, <2>3 DEF n
<1>4. RemoveIndices(s, removed) = t
  BY DEF RemoveIndices
<1> QED BY <1>3, <1>4, KeptIsFinite

\* When the newest record stays, it is the newest of what is left.
LEMMA RemoveKeepsNewest ==
  ASSUME NEW L, NEW s \in Seq(L), NEW removed, s # <<>>, Len(s) \notin removed
  PROVE  /\ RemoveIndices(s, removed) # <<>>
         /\ Newest(RemoveIndices(s, removed)) = Newest(s)
<1> DEFINE kept == DOMAIN s \ removed
           n    == Cardinality(kept)
<1>1. IsFiniteSet(kept) /\ kept \in SUBSET Int /\ n \in Nat
  BY KeptIsFinite
<1>2. Len(s) \in kept
  OBVIOUS
<1>3. {k \in kept : k <= Len(s)} = kept
  OBVIOUS
<1>4. Rank(kept, Len(s)) = n
  BY <1>3 DEF Rank
<1>5. n \in 1 .. n
  BY <1>1, <1>2, <1>4, RankRange
<1>6. Nth(kept, n) \in kept /\ Rank(kept, Nth(kept, n)) = n
  BY <1>1, <1>5, NthExists
<1>7. Nth(kept, n) = Len(s)
  <2>1. Nth(kept, n) <= Len(s)
    BY <1>6
  <2>2. SUFFICES ASSUME Nth(kept, n) < Len(s) PROVE FALSE
    BY <2>1, <1>6, <1>2
  <2>3. Rank(kept, Nth(kept, n)) < Rank(kept, Len(s))
    BY <1>1, <1>2, <1>6, <2>2, RankIsStrict
  <2> QED BY <1>1, <1>4, <1>6, <2>3
<1>8. /\ RemoveIndices(s, removed) \in Seq(L)
      /\ Len(RemoveIndices(s, removed)) = n
  BY RemoveProperties
<1>9. RemoveIndices(s, removed)[n] = s[Len(s)]
  BY <1>5, <1>7 DEF RemoveIndices
<1> QED BY <1>1, <1>5, <1>8, <1>9 DEF Newest

\* The index of a surviving newest record, as the code recomputes it, is the
\* end of what is left.
LEMMA ShiftedNewest ==
  ASSUME NEW L, NEW s \in Seq(L), NEW removed \in SUBSET DOMAIN s, s # <<>>, Len(s) \notin removed
  PROVE  ShiftedIndex(Len(s), removed) = Len(RemoveIndices(s, removed))
<1>1. DOMAIN s = 1 .. Len(s) /\ Len(s) \in Nat
  OBVIOUS
<1>2. {r \in removed : r < Len(s)} = removed
  BY <1>1
<1>3. IsFiniteSet(DOMAIN s) /\ Cardinality(DOMAIN s) = Len(s)
  BY <1>1, FS_Interval
<1>4. IsFiniteSet(removed)
  BY <1>3, FS_Subset
<1>5. DOMAIN s \cap removed = removed
  OBVIOUS
<1>6. Cardinality(DOMAIN s \ removed) = Len(s) - Cardinality(removed)
  BY <1>3, <1>5, FS_Difference
<1> QED BY <1>2, <1>6, RemoveProperties DEF ShiftedIndex

\* Removing the last record together with others is removing the others from
\* the rest: a buffered line leaves no trace in what is written.
LEMMA RemoveAppended ==
  ASSUME NEW L, NEW s \in Seq(L), NEW line \in L, NEW removed
  PROVE  RemoveIndices(Append(s, line), removed \cup {Len(s) + 1}) = RemoveIndices(s, removed)
<1> DEFINE a == Append(s, line)
           kept == DOMAIN s \ removed
<1>1. DOMAIN s = 1 .. Len(s) /\ Len(s) \in Nat /\ DOMAIN a = 1 .. Len(s) + 1
  OBVIOUS
<1>2. DOMAIN a \ (removed \cup {Len(s) + 1}) = kept
  BY <1>1
<1>3. ASSUME NEW j \in 1 .. Cardinality(kept) PROVE a[Nth(kept, j)] = s[Nth(kept, j)]
  <2>1. Nth(kept, j) \in kept
    BY KeptIsFinite, NthExists
  <2> QED BY <2>1, <1>1
<1> QED BY <1>2, <1>3 DEF RemoveIndices

\* The file never gets more records than the memory has, and it gets the newest
\* one unless that is sensitive.
LEMMA PayloadProperties ==
  ASSUME NEW L, NEW s \in Seq(L)
  PROVE  /\ Payload(s) \in Seq(L)
         /\ Len(Payload(s)) <= Len(s)
         /\ s # <<>> /\ ~Sensitive(Newest(s)) =>
              Payload(s) # <<>> /\ Newest(Payload(s)) = Newest(s)
<1> DEFINE hidden == {i \in DOMAIN s : Sensitive(s[i])}
<1>1. Payload(s) = RemoveIndices(s, hidden)
  BY DEF Payload
<1>2. s # <<>> /\ ~Sensitive(Newest(s)) => Len(s) \notin hidden
  BY DEF Newest
<1> QED BY <1>1, <1>2, RemoveProperties, RemoveKeepsNewest

\* What is trimmed is the newest part, position by position.
LEMMA TrimPositions ==
  ASSUME NEW L, NEW s \in Seq(L), NEW i \in DOMAIN Trim(s)
  PROVE  /\ Len(s) - Len(Trim(s)) + i \in DOMAIN s
         /\ Trim(s)[i] = s[Len(s) - Len(Trim(s)) + i]
<1>1. Len(s) \in Nat /\ MaxEntries \in Nat /\ MaxEntries > 0 /\ DOMAIN s = 1 .. Len(s)
  BY CapacityAssumption
<1>2. Trim(s) \in Seq(L)
  BY TrimProperties
<1>3. DOMAIN Trim(s) = 1 .. Len(Trim(s)) /\ Len(Trim(s)) \in Nat
  BY <1>2
<1>4. CASE Len(s) <= MaxEntries
  <2>1. Trim(s) = s
    BY <1>4, TrimProperties
  <2> QED BY <2>1, <1>1
<1>5. CASE Len(s) > MaxEntries
  <2> DEFINE m == Len(s) - MaxEntries + 1
  <2>1. Trim(s) = SubSeq(s, m, Len(s)) /\ Len(Trim(s)) = MaxEntries
    BY <1>5, TrimProperties DEF Trim
  <2>2. m \in 1 .. Len(s) /\ Len(s) - m + 1 = MaxEntries
    BY <1>1, <1>5
  <2>3. i \in 1 .. Len(s) - m + 1
    BY <1>3, <2>1, <2>2
  <2>4. SubSeq(s, m, Len(s))[i] = s[m + i - 1]
    <3>1. \A k \in m .. Len(s) : s[k] \in L
      BY <1>1, <2>2
    <3>2. m \in Int /\ Len(s) \in Int
      BY <1>1
    <3> HIDE DEF m
    <3> QED BY <2>3, <3>1, <3>2, SubSeqProperties
  <2>5. m + i - 1 = Len(s) - Len(Trim(s)) + i /\ m + i - 1 \in DOMAIN s
    BY <1>1, <2>1, <2>2, <2>3
  <2> QED BY <2>1, <2>4, <2>5
<1> QED BY <1>1, <1>4, <1>5

\* Records that are left were there, and were not to be removed.
LEMMA RemoveElements ==
  ASSUME NEW L, NEW s \in Seq(L), NEW removed, NEW j \in DOMAIN RemoveIndices(s, removed)
  PROVE  \E i \in DOMAIN s \ removed : RemoveIndices(s, removed)[j] = s[i]
<1> DEFINE kept == DOMAIN s \ removed
<1>1. j \in 1 .. Cardinality(kept)
  BY DEF RemoveIndices
<1>2. Nth(kept, j) \in kept
  BY <1>1, KeptIsFinite, NthExists
<1> QED BY <1>1, <1>2 DEF RemoveIndices

\* An index of a set that has all indices before it is the one of its rank.
LEMMA RankOfPrefix ==
  ASSUME NEW n \in Nat, NEW K, 1 .. n \subseteq K, K \subseteq Nat \ {0}, NEW i \in 1 .. n
  PROVE  Rank(K, i) = i
<1>1. {k \in K : k <= i} = 1 .. i
  <2>1. ASSUME NEW k \in 1 .. i PROVE k \in K /\ k <= i
    <3>1. k \in 1 .. n
      OBVIOUS
    <3> QED BY <3>1
  <2>2. ASSUME NEW k \in K, k <= i PROVE k \in 1 .. i
    BY <2>2
  <2> QED BY <2>1, <2>2
<1>2. Cardinality(1 .. i) = i
  BY FS_Interval
<1> QED BY <1>1, <1>2 DEF Rank

\* Removing the newest record leaves the ones before it as they are.
LEMMA RemoveBeyond ==
  ASSUME NEW L, NEW s \in Seq(L), NEW n \in 0 .. Len(s)
  PROVE  RemoveIndices(s, n + 1 .. Len(s)) = SubSeq(s, 1, n)
<1> DEFINE removed == n + 1 .. Len(s)
           t == RemoveIndices(s, removed)
           u == SubSeq(s, 1, n)
<1>1. Len(s) \in Nat /\ DOMAIN s = 1 .. Len(s) /\ n \in Nat
  OBVIOUS
<1>2. DOMAIN s \ removed = 1 .. n
  BY <1>1
<1>3. Cardinality(1 .. n) = n /\ IsFiniteSet(1 .. n)
  BY <1>1, FS_Interval
<1>4. t \in Seq(L) /\ Len(t) = n
  BY <1>2, <1>3, RemoveProperties
<1>5. u \in Seq(L) /\ Len(u) = n /\ \A i \in 1 .. n : u[i] = s[i]
  BY <1>1
<1>6. ASSUME NEW j \in 1 .. n PROVE t[j] = s[j]
  <2>1. Nth(1 .. n, j) \in 1 .. n /\ Rank(1 .. n, Nth(1 .. n, j)) = j
    BY <1>1, <1>3, NthExists
  <2>2. Rank(1 .. n, Nth(1 .. n, j)) = Nth(1 .. n, j)
    BY <1>1, <2>1, RankOfPrefix
  <2>3. t[j] = s[Nth(1 .. n, j)]
    BY <1>2, <1>3 DEF RemoveIndices
  <2> QED BY <2>1, <2>2, <2>3
<1> HIDE DEF t, u
<1>7. t = u
  BY <1>4, <1>5, <1>6, SeqEqual
<1> QED BY <1>7 DEF t, u

\* Where nothing is sensitive the file gets what the memory has.
LEMMA PayloadOfClean ==
  ASSUME NEW L, NEW s \in Seq(L), \A i \in DOMAIN s : ~Sensitive(s[i])
  PROVE  Payload(s) = s
<1>1. Len(s) \in Nat
  OBVIOUS
<1>2. Len(s) + 1 .. Len(s) = {} /\ {i \in DOMAIN s : Sensitive(s[i])} = {}
  BY <1>1
<1>3. RemoveIndices(s, Len(s) + 1 .. Len(s)) = SubSeq(s, 1, Len(s))
  BY <1>1, RemoveBeyond
<1>4. SubSeq(s, 1, Len(s)) = s
  BY SubSeqFull
<1> QED BY <1>2, <1>3, <1>4 DEF Payload

=============================================================================
