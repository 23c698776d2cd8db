------------------------ MODULE SpoolRecords_proofs ------------------------
(***************************************************************************)
(* Lemmas about the queue operations of SpoolRecords, for FlashSpool_proofs *)
(***************************************************************************)
EXTENDS SpoolRecords, FiniteSetTheorems, SequenceTheorems, TLAPS

\* Every non-empty set of numbers has a least element: what the pop loop of
\* append_with_compaction and the search of remove_stored_record_by_sequence
\* rely on to stop at a first position.  (The intervals 0 .. x are ordered by
\* inclusion, which is well founded on finite sets.)
LEMMA LeastElement ==
    ASSUME NEW T \in SUBSET Nat, T # {}
    PROVE  \E x \in T : \A y \in T : x <= y
<1>. DEFINE R == StrictSubsetOrdering(Nat)
            F == FiniteSubsetsOf(Nat)
            I == {0 .. x : x \in T}
<1>1. IsWellFoundedOn(R, F)
  BY FS_StrictSubsetOrderingWellFounded
<1>2. I \subseteq F
  <2>1. ASSUME NEW x \in T  PROVE 0 .. x \in F
    <3>1. 0 .. x \in SUBSET Nat
      OBVIOUS
    <3>2. IsFiniteSet(0 .. x)
      BY FS_Interval
    <3>. QED
      BY <3>1, <3>2 DEF FiniteSubsetsOf
  <2>. QED
    BY <2>1
<1>3. I # {}
  OBVIOUS
<1>4. \E s \in I : \A t \in I : ~(<<t, s>> \in R)
  <2>. HIDE DEF R, F, I
  <2>. QED
    BY <1>1, <1>2, <1>3, WFMin
<1>5. PICK x \in T : \A y \in T : ~(<<0 .. y, 0 .. x>> \in R)
  BY <1>4
<1>6. ASSUME NEW y \in T, y < x  PROVE FALSE
  <2>1. 0 .. y \in SUBSET Nat /\ 0 .. x \in SUBSET Nat
    OBVIOUS
  <2>2. 0 .. y \subseteq 0 .. x
    BY <1>6
  <2>3. x \in 0 .. x /\ x \notin 0 .. y
    BY <1>6
  <2>4. <<0 .. y, 0 .. x>> \in R
    BY <2>1, <2>2, <2>3 DEF StrictSubsetOrdering
  <2>. QED
    BY <2>4, <1>5
<1>. QED
  BY <1>6

-----------------------------------------------------------------------------
(* Sums.  SumFunction folds a function over its domain one chosen element  *)
(* after the other: a recursive function over sets.  An induction over     *)
(* sets is an argument about a smallest counterexample (SmallestSet).      *)

\* A family of finite sets that is not empty has a member that holds no other.
LEMMA SmallestSet ==
    ASSUME NEW S, IsFiniteSet(S), NEW B \in SUBSET SUBSET S, B # {}
    PROVE  \E m \in B : \A t \in SUBSET m : t \in B => t = m
<1>. DEFINE R == StrictSubsetOrdering(S)
<1>1. IsWellFoundedOn(R, FiniteSubsetsOf(S)) /\ FiniteSubsetsOf(S) = SUBSET S
  BY FS_StrictSubsetOrderingWellFounded, FS_FiniteSubsetsOfFinite
<1>2. PICK m \in B : \A t \in B : <<t, m>> \notin R
  <2>. HIDE DEF R
  <2>1. IsWellFoundedOn(R, SUBSET S) /\ B \subseteq SUBSET S
    BY <1>1
  <2>. QED
    BY <2>1, WFMin
<1>3. ASSUME NEW t \in SUBSET m, t \in B, t # m  PROVE FALSE
  <2>1. t \in SUBSET S /\ m \in SUBSET S
    OBVIOUS
  <2>2. <<t, m>> \in R
    BY <2>1, <1>3 DEF StrictSubsetOrdering
  <2>. QED
    BY <2>2, <1>2, <1>3
<1>. QED
  BY <1>3

\* The element a fold takes next, and the sums it computes for the sets on
\* its way.
Pick(s) == CHOOSE x \in s : TRUE
Sums(f, g, S) ==
    g = [s \in SUBSET S |-> IF s = {} THEN 0 ELSE f[Pick(s)] + g[s \ {Pick(s)}]]

LEMMA Picked ==
    ASSUME NEW s, s # {}
    PROVE  Pick(s) \in s
BY DEF Pick

LEMMA SumIsFold ==
    ASSUME NEW f, NEW S
    PROVE  SumFunctionOnSet(f, S) = (CHOOSE g : Sums(f, g, S))[S]
BY DEF SumFunctionOnSet, FoldFunctionOnSet, MapThenFoldSet, Sums, Pick

\* There is at most one such g, and its part below a subset is the subset's.
LEMMA SumsAgree ==
    ASSUME NEW f, NEW S, IsFiniteSet(S), NEW t \in SUBSET S, NEW g, NEW h,
           Sums(f, g, S), Sums(f, h, t)
    PROVE  h[t] = g[t]
<1>. DEFINE B == {s \in SUBSET t : h[s] # g[s]}
<1>1. SUFFICES ASSUME h[t] # g[t]  PROVE FALSE
  OBVIOUS
<1>2. B \in SUBSET SUBSET S /\ t \in B
  BY <1>1
<1>3. PICK m \in B : \A s \in SUBSET m : s \in B => s = m
  <2>. HIDE DEF B
  <2>. QED
    BY <1>2, SmallestSet
<1>4. m \in SUBSET t /\ m \in SUBSET S /\ h[m] # g[m]
  BY <1>3
<1>5. CASE m = {}
  BY <1>4, <1>5 DEF Sums
<1>6. CASE m # {}
  <2>. DEFINE u == m \ {Pick(m)}
  <2>1. u \in SUBSET t /\ u \in SUBSET S /\ u \in SUBSET m /\ u # m
    BY <1>4, <1>6, Picked
  <2>2. u \notin B
    BY <2>1, <1>3
  <2>3. h[u] = g[u]
    BY <2>1, <2>2
  <2>4. h[m] = f[Pick(m)] + h[u]
    BY <1>4, <1>6 DEF Sums
  <2>5. g[m] = f[Pick(m)] + g[u]
    BY <1>4, <1>6 DEF Sums
  <2>. QED
    BY <2>3, <2>4, <2>5, <1>4
<1>. QED
  BY <1>5, <1>6

\* There is one.
LEMMA SumsExist ==
    ASSUME NEW f, NEW S, IsFiniteSet(S)
    PROVE  \E g : Sums(f, g, S)
<1>. DEFINE B == {s \in SUBSET S : ~ \E g : Sums(f, g, s)}
<1>1. SUFFICES ASSUME S \in B  PROVE FALSE
  OBVIOUS
<1>2. B \in SUBSET SUBSET S /\ B # {}
  BY <1>1
<1>3. PICK m \in B : \A s \in SUBSET m : s \in B => s = m
  <2>. HIDE DEF B
  <2>. QED
    BY <1>2, SmallestSet
<1>. DEFINE H(u) == CHOOSE g : Sums(f, g, u)
            G == [s \in SUBSET m |-> IF s = {} THEN 0
                                     ELSE f[Pick(s)] + H(s \ {Pick(s)})[s \ {Pick(s)}]]
<1>4. \A u \in SUBSET m : u # m => Sums(f, H(u), u)
  <2>. SUFFICES ASSUME NEW u \in SUBSET m, u # m  PROVE Sums(f, H(u), u)
    OBVIOUS
  <2>1. \E g : Sums(f, g, u)
    BY <1>3
  <2>. QED
    BY <2>1
<1>5. ASSUME NEW u \in SUBSET m, u # m  PROVE H(u)[u] = G[u]
  <2>1. Sums(f, H(u), u) /\ IsFiniteSet(u) /\ u \in SUBSET u
    BY <1>4, <1>5, FS_Subset
  <2>2. CASE u = {}
    <3>1. H(u)[u] = 0
      <4>. HIDE DEF H
      <4>. QED
        BY <2>1, <2>2 DEF Sums
    <3>. QED
      BY <3>1, <2>2
  <2>3. CASE u # {}
    <3>. DEFINE w == u \ {Pick(u)}
    <3>1. w \in SUBSET u /\ w \in SUBSET m /\ w # m
      BY <2>3, Picked
    <3>2. Sums(f, H(w), w)
      BY <3>1, <1>4
    <3>3. H(w)[w] = H(u)[w]
      <4>. HIDE DEF H, w
      <4>. QED
        BY <2>1, <3>1, <3>2, SumsAgree
    <3>4. H(u)[u] = f[Pick(u)] + H(u)[w]
      <4>. HIDE DEF H
      <4>. QED
        BY <2>1, <2>3 DEF Sums
    <3>5. G[u] = f[Pick(u)] + H(w)[w]
      <4>. HIDE DEF H
      <4>. QED
        BY <2>3
    <3>. QED
      BY <3>3, <3>4, <3>5
  <2>. QED
    BY <2>2, <2>3
<1>6. Sums(f, G, m)
  <2>1. ASSUME NEW s \in SUBSET m, s # {}  PROVE G[s] = f[Pick(s)] + G[s \ {Pick(s)}]
    <3>. DEFINE u == s \ {Pick(s)}
    <3>1. u \in SUBSET m /\ u # m
      BY <2>1, Picked
    <3>2. H(u)[u] = G[u]
      <4>. HIDE DEF H, G
      <4>. QED
        BY <3>1, <1>5
    <3>3. G[s] = f[Pick(s)] + H(u)[u]
      <4>. HIDE DEF H
      <4>. QED
        BY <2>1
    <3>. QED
      BY <3>2, <3>3
  <2>2. G[{}] = 0
    OBVIOUS
  <2>3. G = [s \in SUBSET m |-> IF s = {} THEN 0 ELSE f[Pick(s)] + G[s \ {Pick(s)}]]
    <3>1. G = [s \in SUBSET m |-> G[s]]
      <4>. HIDE DEF H
      <4>. QED
        OBVIOUS
    <3>2. \A s \in SUBSET m : G[s] = IF s = {} THEN 0 ELSE f[Pick(s)] + G[s \ {Pick(s)}]
      <4>. HIDE DEF G
      <4>. QED
        BY <2>1, <2>2
    <3>. HIDE DEF G
    <3>. QED
      BY <3>1, <3>2
  <2>. HIDE DEF G
  <2>. QED
    BY <2>3 DEF Sums
<1>7. m \notin B
  <2>. HIDE DEF G
  <2>. QED
    BY <1>6
<1>. QED
  BY <1>3, <1>7

\* So the sum over a set is the chosen element's value and the sum over the rest.
LEMMA SumStep ==
    ASSUME NEW f, NEW S, IsFiniteSet(S)
    PROVE  /\ S = {} => SumFunctionOnSet(f, S) = 0
           /\ S # {} => SumFunctionOnSet(f, S) =
                            f[Pick(S)] + SumFunctionOnSet(f, S \ {Pick(S)})
<1>. DEFINE G(s) == CHOOSE g : Sums(f, g, s)
            T == S \ {Pick(S)}
<1>1. T \in SUBSET S /\ S \in SUBSET S /\ IsFiniteSet(T)
  BY FS_Subset
<1>2. Sums(f, G(S), S) /\ Sums(f, G(T), T)
  <2>1. (\E g : Sums(f, g, S)) /\ (\E g : Sums(f, g, T))
    BY <1>1, SumsExist
  <2>. HIDE DEF T
  <2>. QED
    BY <2>1
<1>3. SumFunctionOnSet(f, S) = G(S)[S] /\ SumFunctionOnSet(f, T) = G(T)[T]
  BY SumIsFold
<1>. HIDE DEF G
<1>4. G(T)[T] = G(S)[T]
  <2>. HIDE DEF T
  <2>. QED
    BY <1>1, <1>2, SumsAgree
<1>5. S = {} => G(S)[S] = 0
  BY <1>1, <1>2 DEF Sums
<1>6. S # {} => G(S)[S] = f[Pick(S)] + G(S)[T]
  BY <1>1, <1>2 DEF Sums
<1>. QED
  BY <1>3, <1>4, <1>5, <1>6

\* A sum of numbers is a number and the order of its terms does not matter.
LEMMA SumOfAny ==
    ASSUME NEW f, NEW S, IsFiniteSet(S), \A x \in S : f[x] \in Nat
    PROVE  /\ SumFunctionOnSet(f, S) \in Nat
           /\ \A y \in S : SumFunctionOnSet(f, S) = f[y] + SumFunctionOnSet(f, S \ {y})
<1>. DEFINE F(s) == SumFunctionOnSet(f, s)
            Good(s) == F(s) \in Nat /\ \A y \in s : F(s) = f[y] + F(s \ {y})
            B == {s \in SUBSET S : ~Good(s)}
<1>. HIDE DEF F
<1>1. SUFFICES ASSUME ~Good(S)  PROVE FALSE
  BY DEF F
<1>2. B \in SUBSET SUBSET S /\ B # {}
  BY <1>1
<1>3. PICK m \in B : \A s \in SUBSET m : s \in B => s = m
  <2>. HIDE DEF B
  <2>. QED
    BY <1>2, SmallestSet
<1>4. \A s \in SUBSET m : s # m => Good(s)
  BY <1>3
<1>5. IsFiniteSet(m)
  BY FS_Subset
<1>6. CASE m = {}
  <2>1. F(m) = 0
    BY <1>5, <1>6, SumStep DEF F
  <2>. QED
    BY <2>1, <1>3, <1>6
<1>7. CASE m # {}
  <2>. DEFINE x == Pick(m)
  <2>1. x \in m
    BY <1>7, Picked
  <2>2. F(m) = f[x] + F(m \ {x})
    BY <1>5, <1>7, SumStep DEF F
  <2>. HIDE DEF x
  <2>3. Good(m \ {x}) /\ f[x] \in Nat
    BY <2>1, <1>4
  <2>4. F(m) \in Nat
    BY <2>2, <2>3
  <2>5. ASSUME NEW y \in m  PROVE F(m) = f[y] + F(m \ {y})
    <3>1. CASE y = x
      BY <3>1, <2>2
    <3>2. CASE y # x
      <4>. DEFINE r == (m \ {x}) \ {y}
      <4>1. F(m \ {x}) = f[y] + F(r)
        BY <2>3, <3>2
      <4>2. Good(m \ {y}) /\ Good(r) /\ f[y] \in Nat
        BY <2>1, <1>4
      <4>3. F(m \ {y}) = f[x] + F((m \ {y}) \ {x})
        BY <4>2, <2>1, <3>2
      <4>4. (m \ {y}) \ {x} = r
        OBVIOUS
      <4>5. F(m \ {y}) = f[x] + F(r) /\ F(r) \in Nat
        BY <4>2, <4>3, <4>4
      <4>. QED
        BY <4>1, <4>2, <4>5, <2>2, <2>3
    <3>. QED
      BY <3>1, <3>2
  <2>. QED
    BY <2>4, <2>5, <1>3
<1>. QED
  BY <1>6, <1>7

\* Functions that agree on a set have the same sum over it.
LEMMA SumsEqual ==
    ASSUME NEW f, NEW h, NEW S, IsFiniteSet(S), \A x \in S : f[x] = h[x]
    PROVE  SumFunctionOnSet(f, S) = SumFunctionOnSet(h, S)
<1>. DEFINE F(s) == SumFunctionOnSet(f, s)
            G(s) == SumFunctionOnSet(h, s)
            B == {s \in SUBSET S : F(s) # G(s)}
<1>. HIDE DEF F, G
<1>1. SUFFICES ASSUME F(S) # G(S)  PROVE FALSE
  BY DEF F, G
<1>2. B \in SUBSET SUBSET S /\ B # {}
  BY <1>1
<1>3. PICK m \in B : \A s \in SUBSET m : s \in B => s = m
  <2>. HIDE DEF B
  <2>. QED
    BY <1>2, SmallestSet
<1>4. IsFiniteSet(m)
  BY FS_Subset
<1>5. CASE m = {}
  <2>1. F(m) = 0 /\ G(m) = 0
    BY <1>4, <1>5, SumStep DEF F, G
  <2>. QED
    BY <2>1, <1>3
<1>6. CASE m # {}
  <2>. DEFINE u == m \ {Pick(m)}
  <2>1. Pick(m) \in m /\ u \in SUBSET m /\ u # m /\ u \in SUBSET S
    BY <1>6, Picked
  <2>2. F(m) = f[Pick(m)] + F(u) /\ G(m) = h[Pick(m)] + G(u)
    BY <1>4, <1>6, SumStep DEF F, G
  <2>3. F(u) = G(u)
    BY <2>1, <1>3
  <2>4. f[Pick(m)] = h[Pick(m)]
    BY <2>1
  <2>. QED
    BY <2>2, <2>3, <2>4, <1>3
<1>. QED
  BY <1>5, <1>6

-----------------------------------------------------------------------------
\* A record is longer than its header (encoded_record_len).
LEMMA RecordWordsType ==
    ASSUME NEW r \in Record
    PROVE  RecordWords(r) \in Nat /\ RecordWords(r) > HeaderWords
BY SpoolAssumption DEF RecordWords, Record, HeaderWords

\* The records of a queue from a position on.
LEMMA FromProperties ==
    ASSUME NEW q \in Seq(Record), NEW k \in 1 .. Len(q) + 1
    PROVE  /\ From(q, k) \in Seq(Record)
           /\ Len(From(q, k)) = Len(q) - k + 1
           /\ \A i \in 1 .. Len(q) - k + 1 : From(q, k)[i] = q[i + k - 1]
<1>1. \A i \in k .. Len(q) : q[i] \in Record
  OBVIOUS
<1>2. k \in Int /\ Len(q) \in Int
  OBVIOUS
<1>. QED
  BY <1>1, <1>2, SubSeqProperties DEF From

\* DropOldestQueue::push never exceeds the capacity and keeps the new record.
LEMMA PushProperties ==
    ASSUME NEW q \in Seq(Record), Len(q) <= Capacity, NEW r \in Record
    PROVE  /\ Push(q, r) \in Seq(Record)
           /\ Len(Push(q, r)) \in 1 .. Capacity
           /\ Push(q, r)[Len(Push(q, r))] = r
<1>1. CASE Len(q) < Capacity
  BY <1>1, SpoolAssumption DEF Push
<1>2. CASE Len(q) = Capacity
  <2>1. q # <<>>
    BY <1>2, SpoolAssumption
  <2>2. Tail(q) \in Seq(Record) /\ Len(Tail(q)) = Len(q) - 1
    BY <2>1
  <2>. QED
    BY <1>2, <2>2, SpoolAssumption DEF Push
<1>. QED
  BY <1>1, <1>2, SpoolAssumption

\* The pop loop of append_with_compaction ends, at a position of the queue.
LEMMA FirstFittingType ==
    ASSUME NEW q \in Seq(Record), q # <<>>
    PROVE  FirstFitting(q) \in 1 .. Len(q)
<1>. DEFINE T == {k \in 1 .. Len(q) : k = Len(q) \/ FitsRegion(From(q, k))}
<1>1. T \in SUBSET Nat /\ Len(q) \in T
  OBVIOUS
<1>2. PICK k \in T : \A j \in T : k <= j
  BY <1>1, LeastElement
<1>3. \A j \in 1 .. k - 1 : j \in 1 .. Len(q) /\ j \notin T
  BY <1>2
<1>. QED
  BY <1>2, <1>3 DEF FirstFitting

LEMMA FittingProperties ==
    ASSUME NEW q \in Seq(Record), q # <<>>
    PROVE  /\ Fitting(q) \in Seq(Record)
           /\ Len(Fitting(q)) \in 1 .. Len(q)
           /\ Fitting(q)[Len(Fitting(q))] = q[Len(q)]
<1>1. PICK k \in 1 .. Len(q) : k = FirstFitting(q)
  BY FirstFittingType
<1>2. /\ From(q, k) \in Seq(Record)
      /\ Len(From(q, k)) = Len(q) - k + 1
      /\ \A i \in 1 .. Len(q) - k + 1 : From(q, k)[i] = q[i + k - 1]
  BY FromProperties
<1>3. Fitting(q) = From(q, k)
  BY <1>1 DEF Fitting
<1>4. Len(q) \in Nat /\ Len(q) - k + 1 \in 1 .. Len(q)
  OBVIOUS
<1>. QED
  BY <1>2, <1>3, <1>4

\* remove_stored_record_by_sequence removes at most one record ...
LEMMA WithoutProperties ==
    ASSUME NEW q \in Seq(Record), NEW s \in Sequence
    PROVE  Without(q, s) \in Seq(Record) /\ Len(Without(q, s)) <= Len(q)
<1>1. CASE \E i \in DOMAIN q : q[i].sequence = s
  <2>. DEFINE T == {i \in DOMAIN q : q[i].sequence = s}
              i == FirstWith(q, s)
  <2>1. T \in SUBSET Nat /\ T # {}
    BY <1>1
  <2>2. PICK k \in T : \A j \in T : k <= j
    BY <2>1, LeastElement
  <2>3. \A j \in 1 .. k - 1 : q[j].sequence # s
    BY <2>2
  <2>4. i \in 1 .. Len(q)
    BY <2>2, <2>3 DEF FirstWith
  <2>. HIDE DEF i
  <2>5. /\ SubSeq(q, 1, i - 1) \in Seq(Record)
        /\ Len(SubSeq(q, 1, i - 1)) = i - 1
    BY <2>4, SubSeqProperties
  <2>6. /\ From(q, i + 1) \in Seq(Record)
        /\ Len(From(q, i + 1)) = Len(q) - i
    BY <2>4, FromProperties
  <2>7. Without(q, s) = SubSeq(q, 1, i - 1) \o From(q, i + 1)
    BY <1>1 DEF Without, i
  <2>. QED
    BY <2>4, <2>5, <2>6, <2>7, ConcatProperties
<1>2. CASE ~ \E i \in DOMAIN q : q[i].sequence = s
  BY <1>2 DEF Without
<1>. QED
  BY <1>1, <1>2

\* ... and the oldest one when it is asked for the oldest one's number.
LEMMA WithoutHead ==
    ASSUME NEW q \in Seq(Record), q # <<>>
    PROVE  Without(q, Head(q).sequence) = Tail(q)
<1>. DEFINE s == Head(q).sequence
<1>1. 1 \in DOMAIN q /\ q[1].sequence = s
  OBVIOUS
<1>2. \A i \in DOMAIN q :
        (q[i].sequence = s /\ \A j \in 1 .. i - 1 : q[j].sequence # s) <=> i = 1
  <2>1. ASSUME NEW i \in DOMAIN q, i # 1
        PROVE  1 \in 1 .. i - 1
    BY <2>1
  <2>. QED
    BY <1>1, <2>1
<1>3. FirstWith(q, s) = 1
  BY <1>1, <1>2 DEF FirstWith
<1>4. Without(q, s) = SubSeq(q, 1, 0) \o From(q, 2)
  BY <1>1, <1>3 DEF Without
<1>5. SubSeq(q, 1, 0) = <<>>
  BY SubSeqEmpty
<1>6. From(q, 2) = Tail(q)
  BY TailIsSubSeq DEF From
<1>7. Tail(q) \in Seq(Record)
  OBVIOUS
<1>. QED
  BY <1>4, <1>5, <1>6, <1>7, ConcatEmptySeq

-----------------------------------------------------------------------------
\* u64::wrapping_add stays a sequence number.
LEMMA SequenceType ==
    /\ SequenceMod \in Nat \ {0}
    /\ 0 \in Sequence
    /\ \A s \in Sequence : NextOf(s) \in Sequence
<1>1. SequenceMod \in Nat
  BY SpoolAssumption DEF SequenceMod
<1>2. Radix * Radix > 0
  BY SpoolAssumption
<1>3. SequenceMod > 0
  <2>1. Radix * Radix \in Nat /\ Radix \in Nat /\ Radix > 0
    BY SpoolAssumption
  <2>. DEFINE a == Radix * Radix
  <2>2. a \in Nat /\ a > 0
    BY <1>2, <2>1
  <2>. HIDE DEF a
  <2>3. a * Radix > 0
    BY <2>1, <2>2
  <2>. QED
    BY <2>3 DEF SequenceMod, a
<1>. QED
  BY <1>1, <1>3 DEF Sequence, NextOf

\* A sequence number has three digits, and they determine it: encode_ack
\* followed by decode_ack is the identity.
LEMMA DigitsOfSequence ==
    ASSUME NEW s \in Sequence
    PROVE  /\ s % Radix \in 0 .. Radix - 1
           /\ (s \div Radix) % Radix \in 0 .. Radix - 1
           /\ (s \div Radix) \div Radix \in 0 .. Radix - 1
           /\ s = (s % Radix) + Radix * (((s \div Radix) % Radix)
                                         + Radix * ((s \div Radix) \div Radix))
<1>. DEFINE R == Radix
            a == s \div R
            b == a \div R
<1>1. R \in Nat /\ R >= 2 /\ s \in Nat /\ s < R * R * R
  BY SpoolAssumption, SequenceType DEF Sequence, SequenceMod
<1>2. a \in Nat /\ s % R \in 0 .. R - 1 /\ s = R * a + (s % R)
  BY <1>1
<1>3. b \in Nat /\ a % R \in 0 .. R - 1 /\ a = R * b + (a % R)
  <2>. HIDE DEF a
  <2>. QED
    BY <1>1, <1>2
<1>. HIDE DEF a, b
<1>4. b < R
  <2>. SUFFICES ASSUME b >= R  PROVE FALSE
    BY <1>1, <1>3
  <2>1. R * b >= R * R
    BY <1>1, <1>3
  <2>2. a >= R * R /\ R * R \in Nat
    BY <1>1, <1>3, <2>1
  <2>3. R * a >= R * (R * R)
    BY <1>1, <1>2, <2>2
  <2>4. R * (R * R) = R * R * R
    BY <1>1
  <2>. QED
    BY <1>1, <1>2, <2>3, <2>4
<1>. QED
  BY <1>1, <1>2, <1>3, <1>4 DEF a, b

\* Every three digits are those of a number: decode_ack returns a number for
\* whatever words a cut-off acknowledgement leaves.
LEMMA NumberOfDigits ==
    ASSUME NEW x \in 0 .. Radix - 1, NEW y \in 0 .. Radix - 1, NEW z \in 0 .. Radix - 1
    PROVE  \E s \in Sequence :
              s % Radix = x /\ (s \div Radix) % Radix = y /\ (s \div Radix) \div Radix = z
<1>. DEFINE R == Radix
<1>1. R \in Nat /\ R >= 2
  BY SpoolAssumption
<1>2. ASSUME NEW d \in 0 .. R - 1, NEW m \in Nat
      PROVE  (d + R * m) % R = d /\ (d + R * m) \div R = m
  <2>. DEFINE v == d + R * m
              k == v \div R
  <2>1. v \in Nat /\ R * m \in Nat
    BY <1>1
  <2>2. k \in Nat /\ v % R \in 0 .. R - 1 /\ v = R * k + (v % R)
    <3>. HIDE DEF v
    <3>. QED
      BY <1>1, <2>1
  <2>. HIDE DEF k
  <2>3. ~(m < k)
    <3>. SUFFICES ASSUME k >= m + 1  PROVE FALSE
      BY <2>2
    <3>1. R * k >= R * (m + 1) /\ R * (m + 1) = R * m + R
      BY <1>1, <2>2
    <3>. QED
      BY <1>1, <2>1, <2>2, <3>1
  <2>4. ~(k < m)
    <3>. SUFFICES ASSUME m >= k + 1  PROVE FALSE
      BY <2>2
    <3>1. R * m >= R * (k + 1) /\ R * (k + 1) = R * k + R
      BY <1>1, <2>2
    <3>. QED
      BY <1>1, <2>1, <2>2, <3>1
  <2>5. k = m
    BY <2>2, <2>3, <2>4
  <2>. QED
    BY <1>1, <2>1, <2>2, <2>5 DEF k
<1>. DEFINE m == y + R * z
            s == x + R * m
<1>3. m \in Nat /\ s \in Nat
  BY <1>1
<1>4. s % R = x /\ s \div R = m
  BY <1>2, <1>3
<1>5. m % R = y /\ m \div R = z
  BY <1>2
<1>6. s < R * R * R
  <2>1. R * z <= R * (R - 1) /\ R * (R - 1) = R * R - R /\ R * R \in Nat
    BY <1>1
  <2>2. m <= R * R - 1
    BY <1>1, <2>1
  <2>. HIDE DEF m
  <2>3. R * m <= R * (R * R - 1) /\ R * (R * R - 1) = R * R * R - R
    BY <1>1, <1>3, <2>1, <2>2
  <2>. QED
    BY <1>1, <1>3, <2>1, <2>3
<1>7. s \in Sequence
  <2>. HIDE DEF s
  <2>. QED
    BY <1>1, <1>3, <1>6 DEF Sequence, SequenceMod
<1>. QED
  BY <1>4, <1>5, <1>7

\* A record added behind stays behind whatever leaves from the front.
LEMMA FromAppended ==
    ASSUME NEW q \in Seq(Record), NEW r \in Record, NEW k \in 1 .. Len(q) + 1
    PROVE  From(Append(q, r), k) = From(q, k) \o <<r>>
<1>1. Append(q, r) \in Seq(Record) /\ Len(Append(q, r)) = Len(q) + 1
      /\ \A i \in 1 .. Len(q) : Append(q, r)[i] = q[i]
      /\ Append(q, r)[Len(q) + 1] = r
  OBVIOUS
<1>2. /\ From(Append(q, r), k) \in Seq(Record)
      /\ Len(From(Append(q, r), k)) = Len(q) - k + 2
      /\ \A i \in 1 .. Len(q) - k + 2 : From(Append(q, r), k)[i] = Append(q, r)[i + k - 1]
  <2>1. k \in 1 .. Len(Append(q, r)) + 1
    BY <1>1
  <2>2. /\ From(Append(q, r), k) \in Seq(Record)
        /\ Len(From(Append(q, r), k)) = Len(Append(q, r)) - k + 1
        /\ \A i \in 1 .. Len(Append(q, r)) - k + 1 : From(Append(q, r), k)[i] = Append(q, r)[i + k - 1]
    BY <1>1, <2>1, FromProperties
  <2>. QED
    BY <1>1, <2>2
<1>3. /\ From(q, k) \in Seq(Record) /\ Len(From(q, k)) = Len(q) - k + 1
      /\ \A i \in 1 .. Len(q) - k + 1 : From(q, k)[i] = q[i + k - 1]
  BY FromProperties
<1>. DEFINE s == From(Append(q, r), k)
            t == From(q, k) \o <<r>>
<1>4. t \in Seq(Record) /\ Len(t) = Len(q) - k + 2
      /\ \A i \in 1 .. Len(q) - k + 1 : t[i] = q[i + k - 1]
      /\ t[Len(q) - k + 2] = r
  <2>1. PICK f \in Seq(Record) : f = From(q, k)
    BY <1>3
  <2>2. f \o <<r>> \in Seq(Record) /\ Len(f \o <<r>>) = Len(f) + 1
        /\ (\A i \in 1 .. Len(f) : (f \o <<r>>)[i] = f[i])
        /\ (f \o <<r>>)[Len(f) + 1] = r
    OBVIOUS
  <2>3. Len(f) = Len(q) - k + 1 /\ t = f \o <<r>>
    BY <1>3, <2>1
  <2>. HIDE DEF t
  <2>6. Len(f) + 1 = Len(q) - k + 2
    BY <2>3
  <2>7. Len(t) = Len(f) + 1 /\ t[Len(f) + 1] = r
    BY <2>2, <2>3, Zenon
  <2>4. Len(t) = Len(q) - k + 2 /\ t[Len(q) - k + 2] = r
    BY <2>6, <2>7, Zenon
  <2>5. \A i \in 1 .. Len(q) - k + 1 : t[i] = q[i + k - 1]
    BY <1>3, <2>1, <2>2, <2>3
  <2>. QED
    BY <2>2, <2>3, <2>4, <2>5
<1>5. \A i \in 1 .. Len(s) : s[i] = t[i]
  <2>. SUFFICES ASSUME NEW i \in 1 .. Len(q) - k + 2 PROVE s[i] = t[i]
    BY <1>2
  <2>1. CASE i = Len(q) - k + 2
    <3>1. i + k - 1 = Len(q) + 1
      BY <2>1
    <3>2. s[i] = r
      BY <1>1, <1>2, <3>1
    <3>3. t[i] = r
      BY <1>4, <2>1
    <3>. QED
      BY <3>2, <3>3
  <2>2. CASE i # Len(q) - k + 2
    <3>1. i \in 1 .. Len(q) - k + 1 /\ i + k - 1 \in 1 .. Len(q)
      BY <2>2
    <3>. QED
      BY <1>1, <1>2, <1>4, <3>1
  <2>. QED
    BY <2>1, <2>2
<1>6. s \in Seq(Record) /\ t \in Seq(Record) /\ Len(s) = Len(t)
  BY <1>2, <1>4
<1>. HIDE DEF s, t
<1>7. s = t
  BY <1>5, <1>6, SeqEqual
<1>. QED
  BY <1>7 DEF s, t

\* Leaving from the front twice is leaving from the front.
LEMMA FromFrom ==
    ASSUME NEW q \in Seq(Record), NEW j \in 1 .. Len(q) + 1, NEW k \in 1 .. Len(From(q, j)) + 1
    PROVE  j + k - 1 \in 1 .. Len(q) + 1 /\ From(From(q, j), k) = From(q, j + k - 1)
<1>1. /\ From(q, j) \in Seq(Record) /\ Len(From(q, j)) = Len(q) - j + 1
      /\ \A i \in 1 .. Len(q) - j + 1 : From(q, j)[i] = q[i + j - 1]
  BY FromProperties
<1>. DEFINE s == From(From(q, j), k)
            t == From(q, j + k - 1)
<1>2. /\ s \in Seq(Record) /\ Len(s) = Len(From(q, j)) - k + 1
      /\ \A i \in 1 .. Len(From(q, j)) - k + 1 : s[i] = From(q, j)[i + k - 1]
  BY <1>1, FromProperties
<1>3. j + k - 1 \in 1 .. Len(q) + 1
  BY <1>1
<1>4. /\ t \in Seq(Record) /\ Len(t) = Len(q) - (j + k - 1) + 1
      /\ \A i \in 1 .. Len(q) - (j + k - 1) + 1 : t[i] = q[i + (j + k - 1) - 1]
  BY <1>3, FromProperties
<1>. HIDE DEF s, t
<1>5. Len(s) = Len(t)
  BY <1>1, <1>2, <1>4
<1>6. \A i \in 1 .. Len(s) : s[i] = t[i]
  <2>. SUFFICES ASSUME NEW i \in 1 .. Len(s) PROVE s[i] = t[i]
    OBVIOUS
  <2>1. i + k - 1 \in 1 .. Len(q) - j + 1 /\ i \in 1 .. Len(From(q, j)) - k + 1
    BY <1>1, <1>2
  <2>2. i \in 1 .. Len(q) - (j + k - 1) + 1 /\ (i + k - 1) + j - 1 = i + (j + k - 1) - 1
    BY <2>1, <1>1
  <2>. QED
    BY <1>1, <1>2, <1>4, <2>1, <2>2
<1>7. s = t
  BY <1>2, <1>4, <1>5, <1>6, SeqEqual
<1>. QED
  BY <1>3, <1>7 DEF s, t

\* Nothing leaves, or the oldest.
LEMMA FromEnds ==
    ASSUME NEW q \in Seq(Record)
    PROVE  From(q, 1) = q /\ (q # <<>> => From(q, 2) = Tail(q) /\ 2 \in 1 .. Len(q) + 1)
<1>1. From(q, 1) = q
  <2>1. /\ From(q, 1) \in Seq(Record) /\ Len(From(q, 1)) = Len(q) - 1 + 1
        /\ \A i \in 1 .. Len(q) - 1 + 1 : From(q, 1)[i] = q[i + 1 - 1]
    BY FromProperties
  <2>2. Len(From(q, 1)) = Len(q) /\ \A i \in 1 .. Len(q) : From(q, 1)[i] = q[i]
    BY <2>1
  <2>. QED
    BY <2>1, <2>2, SeqEqual
<1>2. ASSUME q # <<>> PROVE From(q, 2) = Tail(q) /\ 2 \in 1 .. Len(q) + 1
  <2>1. 2 \in 1 .. Len(q) + 1
    BY <1>2
  <2>2. /\ From(q, 2) \in Seq(Record) /\ Len(From(q, 2)) = Len(q) - 2 + 1
        /\ \A i \in 1 .. Len(q) - 2 + 1 : From(q, 2)[i] = q[i + 2 - 1]
    BY <2>1, FromProperties
  <2>3. Tail(q) \in Seq(Record) /\ Len(Tail(q)) = Len(q) - 1
        /\ \A i \in 1 .. Len(q) - 1 : Tail(q)[i] = q[i + 1]
    BY <1>2
  <2>4. Len(From(q, 2)) = Len(Tail(q)) /\ \A i \in 1 .. Len(From(q, 2)) : From(q, 2)[i] = Tail(q)[i]
    BY <2>2, <2>3
  <2>. QED
    BY <2>1, <2>2, <2>3, <2>4, SeqEqual
<1>. QED
  BY <1>1, <1>2

\* DropOldestQueue::push gives up a front of the queue and adds the record.
LEMMA PushKeeps ==
    ASSUME NEW q \in Seq(Record), Len(q) <= Capacity, NEW r \in Record
    PROVE  \E k \in 1 .. Len(q) + 1 : Push(q, r) = From(q, k) \o <<r>>
<1>1. \A s \in Seq(Record) : Append(s, r) = s \o <<r>>
  OBVIOUS
<1>2. CASE Len(q) < Capacity
  <2>1. 1 \in 1 .. Len(q) + 1 /\ From(q, 1) = q
    BY FromEnds
  <2>. QED
    BY <1>1, <1>2, <2>1 DEF Push
<1>3. CASE ~(Len(q) < Capacity)
  <2>1. q # <<>>
    BY <1>3, SpoolAssumption
  <2>2. Tail(q) \in Seq(Record) /\ 2 \in 1 .. Len(q) + 1 /\ From(q, 2) = Tail(q)
    BY <2>1, FromEnds
  <2>. QED
    BY <1>1, <1>3, <2>2 DEF Push
<1>. QED
  BY <1>2, <1>3

\* So does the pop loop of append_with_compaction, perhaps a longer front.
LEMMA FittingKeeps ==
    ASSUME NEW q \in Seq(Record), Len(q) <= Capacity, NEW r \in Record
    PROVE  \E k \in 1 .. Len(q) + 1 : Fitting(Push(q, r)) = From(q, k) \o <<r>>
<1>1. PICK j \in 1 .. Len(q) + 1 : Push(q, r) = From(q, j) \o <<r>>
  BY PushKeeps
<1>2. PICK f : f = From(q, j)
  OBVIOUS
<1>3. f \in Seq(Record) /\ Len(f) \in Nat
  BY <1>2, FromProperties
<1>4. Push(q, r) = Append(f, r)
  BY <1>1, <1>2, <1>3
<1>5. Append(f, r) \in Seq(Record) /\ Len(Append(f, r)) = Len(f) + 1 /\ Append(f, r) # <<>>
  BY <1>3
<1>6. PICK k \in 1 .. Len(f) + 1 : k = FirstFitting(Append(f, r))
  BY <1>5, FirstFittingType
<1>7. Fitting(Push(q, r)) = From(f, k) \o <<r>>
  BY <1>3, <1>4, <1>6, FromAppended DEF Fitting
<1>8. j + k - 1 \in 1 .. Len(q) + 1 /\ From(f, k) = From(q, j + k - 1)
  BY <1>2, <1>6, FromFrom
<1>. QED
  BY <1>7, <1>8

-----------------------------------------------------------------------------
(* The words a queue takes in flash (queue_encoded_len).                   *)

\* They are a number,
LEMMA WordsType ==
    ASSUME NEW q \in Seq(Record)
    PROVE  TotalWords(q) \in Nat
<1>. DEFINE f == [i \in DOMAIN q |-> RecordWords(q[i])]
<1>1. DOMAIN f = 1 .. Len(q) /\ Len(q) \in Nat
  OBVIOUS
<1>2. \A i \in 1 .. Len(q) : f[i] \in Nat
  <2>1. \A i \in 1 .. Len(q) : q[i] \in Record /\ f[i] = RecordWords(q[i])
    OBVIOUS
  <2>. QED
    BY <2>1, RecordWordsType
<1>3. TotalWords(q) = SumFunctionOnSet(f, 1 .. Len(q))
  BY <1>1 DEF TotalWords, SumFunction
<1>4. IsFiniteSet(1 .. Len(q))
  BY <1>1, FS_Interval
<1>. HIDE DEF f
<1>. QED
  BY <1>2, <1>3, <1>4, SumOfAny

\* none for an empty queue,
LEMMA WordsNone == TotalWords(<<>>) = 0
<1>. DEFINE f == [i \in DOMAIN <<>> |-> RecordWords(<<>>[i])]
<1>1. DOMAIN f = {}
  OBVIOUS
<1>2. TotalWords(<<>>) = SumFunctionOnSet(f, {})
  BY <1>1 DEF TotalWords, SumFunction
<1>3. IsFiniteSet({})
  BY FS_EmptySet
<1>. HIDE DEF f
<1>. QED
  BY <1>2, <1>3, SumStep

\* and they grow by those of the record appended.
LEMMA WordsAppended ==
    ASSUME NEW q \in Seq(Record), NEW r \in Record
    PROVE  /\ TotalWords(q) \in Nat
           /\ TotalWords(Append(q, r)) = TotalWords(q) + RecordWords(r)
<1>. DEFINE t == Append(q, r)
            f == [i \in DOMAIN q |-> RecordWords(q[i])]
            h == [i \in DOMAIN t |-> RecordWords(t[i])]
            n == Len(t)
<1>1. /\ t \in Seq(Record) /\ n \in Nat /\ n = Len(q) + 1 /\ t[n] = r
      /\ \A i \in 1 .. Len(q) : t[i] = q[i]
  OBVIOUS
<1>2. DOMAIN f = 1 .. Len(q) /\ DOMAIN h = 1 .. n
  BY <1>1
<1>3. \A i \in 1 .. n : h[i] \in Nat
  BY <1>1, RecordWordsType
<1>4. (\A i \in 1 .. Len(q) : f[i] = h[i]) /\ h[n] = RecordWords(r)
  BY <1>1
<1>5. IsFiniteSet(1 .. n) /\ IsFiniteSet(1 .. Len(q))
  BY <1>1, FS_Interval
<1>6. TotalWords(q) = SumFunctionOnSet(f, 1 .. Len(q)) /\ TotalWords(t) = SumFunctionOnSet(h, 1 .. n)
  BY <1>2 DEF TotalWords, SumFunction
<1>7. (1 .. n) \ {n} = 1 .. Len(q) /\ n \in 1 .. n
  BY <1>1
<1>. HIDE DEF f, h, n, t
<1>8. SumFunctionOnSet(f, 1 .. Len(q)) = SumFunctionOnSet(h, 1 .. Len(q))
  BY <1>4, <1>5, SumsEqual
<1>9. SumFunctionOnSet(h, 1 .. n) = h[n] + SumFunctionOnSet(h, 1 .. Len(q))
  <2>1. SumFunctionOnSet(h, 1 .. n) = h[n] + SumFunctionOnSet(h, (1 .. n) \ {n})
    BY <1>3, <1>5, <1>7, SumOfAny
  <2>. QED
    BY <1>7, <2>1
<1>10. SumFunctionOnSet(h, 1 .. Len(q)) \in Nat
  <2>1. \A i \in 1 .. Len(q) : h[i] \in Nat
    BY <1>1, <1>3
  <2>. QED
    BY <2>1, <1>5, SumOfAny
<1>11. RecordWords(r) \in Nat
  BY RecordWordsType
<1>. QED
  BY <1>4, <1>6, <1>8, <1>9, <1>10, <1>11 DEF t

\* A queue that is not empty ends in a record.
LEMMA LastRecord ==
    ASSUME NEW s \in Seq(Record), s # <<>>
    PROVE  \E f \in Seq(Record), r \in Record : s = Append(f, r) /\ Len(f) = Len(s) - 1
<1>. DEFINE n == Len(s)
            f == SubSeq(s, 1, n - 1)
            r == s[n]
<1>1. n \in Nat \ {0} /\ r \in Record /\ \A i \in 1 .. n - 1 : s[i] \in Record
  OBVIOUS
<1>2. /\ f \in Seq(Record) /\ Len(f) = n - 1
      /\ \A i \in 1 .. n - 1 : f[i] = s[i]
  <2>1. PICK m \in Nat : m = n - 1
    BY <1>1
  <2>2. \A i \in 1 .. m : s[i] \in Record
    BY <1>1, <2>1
  <2>3. /\ SubSeq(s, 1, m) \in Seq(Record)
        /\ Len(SubSeq(s, 1, m)) = IF 1 <= m THEN m - 1 + 1 ELSE 0
        /\ \A i \in 1 .. m - 1 + 1 : SubSeq(s, 1, m)[i] = s[1 + i - 1]
    BY <2>2, SubSeqProperties
  <2>4. f = SubSeq(s, 1, m)
    BY <2>1
  <2>. HIDE DEF f, r
  <2>5. f \in Seq(Record) /\ Len(f) = m
    BY <2>1, <2>3, <2>4
  <2>6. \A i \in 1 .. m : f[i] = s[i]
    BY <2>1, <2>3, <2>4
  <2>. QED
    BY <2>1, <2>5, <2>6
<1>. HIDE DEF f, r
<1>. DEFINE t == Append(f, r)
<1>3. t \in Seq(Record) /\ Len(t) = n /\ t[n] = r /\ \A i \in 1 .. n - 1 : t[i] = f[i]
  BY <1>1, <1>2, AppendProperties
<1>. HIDE DEF t
<1>4. \A i \in 1 .. n : s[i] = t[i]
  BY <1>1, <1>2, <1>3 DEF r
<1>5. s = t
  BY <1>1, <1>3, <1>4, SeqEqual
<1>. QED
  BY <1>1, <1>2, <1>5 DEF t

\* The tail of a queue takes no more words than the queue.
LEMMA WordsOfTail ==
    ASSUME NEW q \in Seq(Record), q # <<>>
    PROVE  TotalWords(Tail(q)) <= TotalWords(q)
<1>. DEFINE B == {n \in Nat : \E s \in Seq(Record) :
                    s # <<>> /\ Len(s) = n /\ ~(TotalWords(Tail(s)) <= TotalWords(s))}
<1>1. SUFFICES ASSUME ~(TotalWords(Tail(q)) <= TotalWords(q))  PROVE FALSE
  OBVIOUS
<1>2. Len(q) \in B /\ B \in SUBSET Nat
  BY <1>1
<1>3. PICK n \in B : \A k \in B : n <= k
  <2>. HIDE DEF B
  <2>. QED
    BY <1>2, LeastElement
<1>4. PICK s \in Seq(Record) : s # <<>> /\ Len(s) = n /\ ~(TotalWords(Tail(s)) <= TotalWords(s))
  BY <1>3
<1>. HIDE DEF B
<1>5. PICK f \in Seq(Record), r \in Record : s = Append(f, r) /\ Len(f) = Len(s) - 1
  BY <1>4, LastRecord
<1>6. n \in Nat /\ n > 0 /\ Len(f) = n - 1
  BY <1>4, <1>5
<1>7. CASE n = 1
  <2>1. f = <<>> /\ Tail(s) = f
    BY <1>5, <1>6, <1>7
  <2>2. TotalWords(f) \in Nat /\ TotalWords(s) = TotalWords(f) + RecordWords(r) /\ RecordWords(r) \in Nat
    BY <1>5, WordsAppended, RecordWordsType
  <2>3. TotalWords(Tail(s)) = TotalWords(f)
    BY <2>1, Zenon
  <2>. QED
    BY <1>4, <2>2, <2>3
<1>8. CASE n > 1
  <2>1. f # <<>> /\ Tail(f) \in Seq(Record) /\ Tail(s) = Append(Tail(f), r)
    BY <1>5, <1>6, <1>8
  <2>2. TotalWords(Tail(f)) <= TotalWords(f)
    <3>1. n - 1 \notin B
      BY <1>3, <1>6
    <3>. QED
      BY <2>1, <3>1, <1>5, <1>6 DEF B
  <2>3. /\ TotalWords(f) \in Nat /\ TotalWords(s) = TotalWords(f) + RecordWords(r)
        /\ TotalWords(Tail(f)) \in Nat /\ RecordWords(r) \in Nat
        /\ TotalWords(Tail(s)) = TotalWords(Tail(f)) + RecordWords(r)
    BY <1>5, <2>1, WordsAppended, RecordWordsType
  <2>. QED
    BY <1>4, <2>2, <2>3
<1>. QED
  BY <1>6, <1>7, <1>8

\* A queue that takes a record takes at most its words more.
LEMMA WordsPushed ==
    ASSUME NEW q \in Seq(Record), NEW r \in Record
    PROVE  TotalWords(Push(q, r)) <= TotalWords(q) + RecordWords(r)
<1>1. CASE Len(q) < Capacity
  BY <1>1, WordsAppended, RecordWordsType DEF Push
<1>2. CASE ~(Len(q) < Capacity)
  <2>1. q # <<>> /\ Tail(q) \in Seq(Record)
    BY <1>2, SpoolAssumption
  <2>2. TotalWords(Tail(q)) <= TotalWords(q) /\ TotalWords(q) \in Nat
    BY <2>1, WordsOfTail, WordsAppended
  <2>3. /\ TotalWords(Append(Tail(q), r)) = TotalWords(Tail(q)) + RecordWords(r)
        /\ TotalWords(Tail(q)) \in Nat /\ RecordWords(r) \in Nat
    BY <2>1, WordsAppended, RecordWordsType
  <2>. QED
    BY <1>2, <2>2, <2>3 DEF Push
<1>. QED
  BY <1>1, <1>2

\* The pop loop drops nothing from a queue that fits.
LEMMA FittingWhole ==
    ASSUME NEW q \in Seq(Record), q # <<>>, FitsRegion(q)
    PROVE  Fitting(q) = q
<1>1. From(q, 1) = q /\ 1 \in 1 .. Len(q)
  BY FromEnds
<1>2. FirstFitting(q) = 1
  BY <1>1 DEF FirstFitting
<1>. QED
  BY <1>1, <1>2 DEF Fitting
=============================================================================
