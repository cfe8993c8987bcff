--------------------------- MODULE SequenceLemmas ---------------------------
(***************************************************************************)
(* Facts about the two sequence operations the queues are made of, Append  *)
(* and Tail: what they do to the positions and to the range.               *)
(***************************************************************************)
EXTENDS Naturals, Sequences, Functions, SequenceTheorems,
  WellFoundedInduction, TLAPS

\* The elements of a sequence are those at its positions (used for
\* pool->queue and for the history of the linked list).
LEMMA RangeMember ==
  ASSUME NEW S, NEW s \in Seq(S), NEW x
  PROVE  x \in Range(s) <=> \E i \in 1..Len(s) : s[i] = x
  BY RangeEquality

\* A job put at the back joins the elements (threadpool_job_queue_add_job).
LEMMA RangeAppend ==
  ASSUME NEW S, NEW s \in Seq(S), NEW e \in S
  PROVE  Range(Append(s, e)) = Range(s) \cup {e}
<1> DEFINE t == Append(s, e)
<1>1. t \in Seq(S) /\ Len(t) = Len(s) + 1 /\ Len(s) \in Nat
  BY AppendProperties, LenProperties
<1>2. (\A i \in 1..Len(s) : t[i] = s[i]) /\ t[Len(s) + 1] = e
  BY AppendProperties
<1>3. ASSUME NEW x \in Range(t) PROVE x \in Range(s) \cup {e}
  <2>1. PICK i \in 1..Len(t) : t[i] = x
    BY <1>1, <1>3, RangeMember
  <2>2. CASE i = Len(s) + 1
    BY <1>2, <2>1, <2>2
  <2>3. CASE i \in 1..Len(s)
    BY <1>2, <2>1, <2>3, RangeMember
  <2> QED BY <1>1, <2>1, <2>2, <2>3
<1>4. ASSUME NEW x \in Range(s) PROVE x \in Range(t)
  <2>1. PICK i \in 1..Len(s) : s[i] = x
    BY <1>4, RangeMember
  <2>2. i \in 1..Len(t) /\ t[i] = x
    BY <1>1, <1>2, <2>1
  <2> QED BY <1>1, <2>2, RangeMember
<1>5. e \in Range(t)
  <2>1. Len(s) + 1 \in 1..Len(t) BY <1>1
  <2> QED BY <1>1, <1>2, <2>1, RangeMember
<1> QED BY <1>3, <1>4, <1>5

\* Appending an element that is not there keeps the elements distinct.
LEMMA DistinctAppend ==
  ASSUME NEW S, NEW s \in Seq(S), NEW e \in S, IsInjective(s), e \notin Range(s)
  PROVE  IsInjective(Append(s, e))
<1> DEFINE t == Append(s, e)
<1>1. Len(t) = Len(s) + 1 /\ Len(s) \in Nat
  BY AppendProperties, LenProperties
<1>2. (\A i \in 1..Len(s) : t[i] = s[i]) /\ t[Len(s) + 1] = e
  BY AppendProperties
<1>3. \A i \in 1..Len(s) : s[i] # e
  BY RangeMember
<1> QED BY <1>1, <1>2, <1>3 DEF IsInjective

\* Popping from a queue of distinct jobs removes its head and nothing else
\* (threadpool_job_queue_pop_job).
LEMMA TailOfDistinct ==
  ASSUME NEW S, NEW s \in Seq(S), s # <<>>, IsInjective(s)
  PROVE  /\ IsInjective(Tail(s))
         /\ Range(Tail(s)) = Range(s) \ {Head(s)}
         /\ Head(s) \in Range(s)
         /\ Head(s) = s[1]
<1> DEFINE t == Tail(s)
<1>1. /\ t \in Seq(S) /\ Len(t) = Len(s) - 1
      /\ \A i \in 1..Len(t) : t[i] = s[i + 1]
  BY HeadTailProperties
<1>2. Len(s) \in Nat /\ Len(s) > 0 /\ Head(s) = s[1]
  BY EmptySeq
<1>3. IsInjective(t)
  BY <1>1, <1>2 DEF IsInjective
<1>4. Head(s) \in Range(s)
  BY <1>2, RangeMember
<1>5. ASSUME NEW x \in Range(t) PROVE x \in Range(s) \ {Head(s)}
  <2>1. PICK i \in 1..Len(t) : t[i] = x
    BY <1>1, <1>5, RangeMember
  <2>2. i + 1 \in 1..Len(s) /\ s[i + 1] = x /\ i + 1 # 1
    BY <1>1, <1>2, <2>1
  <2> QED BY <1>2, <2>2, RangeMember DEF IsInjective
<1>6. ASSUME NEW x \in Range(s), x # Head(s) PROVE x \in Range(t)
  <2>1. PICK i \in 1..Len(s) : s[i] = x
    BY <1>6, RangeMember
  <2>2. i - 1 \in 1..Len(t) /\ t[i - 1] = x
    BY <1>1, <1>2, <1>6, <2>1
  <2> QED BY <1>1, <2>2, RangeMember
<1> QED BY <1>2, <1>3, <1>4, <1>5, <1>6

\* Taking the head off loses nothing but the head.
LEMMA RangeHeadTail ==
  ASSUME NEW S, NEW s \in Seq(S), s # <<>>
  PROVE  /\ Head(s) \in S /\ Tail(s) \in Seq(S)
         /\ Range(s) = Range(Tail(s)) \cup {Head(s)}
<1> DEFINE t == Tail(s)
<1>1. /\ t \in Seq(S) /\ Len(t) = Len(s) - 1
      /\ \A i \in 1..Len(t) : t[i] = s[i + 1]
  BY HeadTailProperties
<1>2. Len(s) \in Nat /\ Len(s) > 0 /\ Head(s) = s[1] /\ Head(s) \in S
  BY EmptySeq
<1>3. Head(s) \in Range(s)
  BY <1>2, RangeMember
<1>4. ASSUME NEW x \in Range(t) PROVE x \in Range(s)
  <2>1. PICK i \in 1..Len(t) : t[i] = x
    BY <1>1, <1>4, RangeMember
  <2>2. i + 1 \in 1..Len(s) /\ s[i + 1] = x
    BY <1>1, <1>2, <2>1
  <2> QED BY <2>2, RangeMember
<1>5. ASSUME NEW x \in Range(s), x # Head(s) PROVE x \in Range(t)
  <2>1. PICK i \in 1..Len(s) : s[i] = x
    BY <1>5, RangeMember
  <2>2. i - 1 \in 1..Len(t) /\ t[i - 1] = x
    BY <1>1, <1>2, <1>5, <2>1
  <2> QED BY <1>1, <2>2, RangeMember
<1> QED BY <1>1, <1>2, <1>3, <1>4, <1>5

\* A set of numbers that is not empty has a least one (the descriptor that the
\* kernel hands out, the route at which a lookup stops).
LEMMA LeastOf ==
  ASSUME NEW S, S \subseteq Nat, S # {}
  PROVE  \E n \in S : \A m \in S : n <= m
<1>1. \E n \in S : \A m \in S : ~ (<<m, n>> \in OpToRel(<, Nat))
  BY WFMin, NatLessThanWellFounded, Zenon
<1>2. \E n \in S : \A m \in S : m \in Nat /\ n \in Nat /\ ~ (m < n)
  BY <1>1, Zenon DEF OpToRel
<1> QED
  BY <1>2

\* A piece of a text (the parsers collect pieces of the texts they read).
LEMMA PieceOf ==
  ASSUME NEW S, NEW s \in Seq(S), NEW a \in 1 .. (Len(s) + 1), NEW b \in (a - 1) .. Len(s)
  PROVE  /\ SubSeq(s, a, b) \in Seq(S)
         /\ Len(SubSeq(s, a, b)) = b - a + 1
         /\ \A i \in 1..(b - a + 1) : SubSeq(s, a, b)[i] = s[a + i - 1]
<1>1. Len(s) \in Nat
  BY LenProperties
<1>2. a \in Int /\ b \in Int
  BY <1>1
<1>3. \A i \in a..b : s[i] \in S
  BY <1>1, <1>2, ElementOfSeq
<1> QED
  BY <1>1, <1>2, <1>3, SubSeqProperties

\* A piece that grows by the character behind it (strncat, a character at a time).
LEMMA PieceGrows ==
  ASSUME NEW S, NEW s \in Seq(S), NEW a \in 1 .. Len(s), NEW b \in a .. Len(s)
  PROVE  Append(SubSeq(s, a, b - 1), s[b]) = SubSeq(s, a, b)
<1>1. Len(s) \in Nat
  BY LenProperties
<1>2. a \in 1 .. (Len(s) + 1) /\ b - 1 \in (a - 1) .. Len(s) /\ b \in 1 .. Len(s)
  BY <1>1
<1>3. SubSeq(s, a, b - 1) \in Seq(S) /\ s[b] \in S
  BY <1>2, PieceOf, ElementOfSeq
<1>4. Append(SubSeq(s, a, b - 1), s[b]) = SubSeq(s, a, b - 1) \o <<s[b]>>
  BY <1>3, AppendIsConcat
<1> QED
  BY <1>4, SubSeqRecursiveSecond
=============================================================================
