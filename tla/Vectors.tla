------------------------------ MODULE Vectors ------------------------------
(***************************************************************************)
(* Facts about sequences, and about least elements of sets of numbers,     *)
(* which the proofs about several components need.                         *)
(***************************************************************************)
EXTENDS Integers, SequencesExt, SequenceTheorems, WellFoundedInduction, TLAPS

-----------------------------------------------------------------------------
(* Vectors: sequences without naming what their elements are *)

\* s is a sequence.
IsSeq(s) == s \in Seq(Range(s))

\* Sequences of any set are sequences.
LEMMA SeqIs == ASSUME NEW S, NEW s \in Seq(S)
  PROVE  IsSeq(s)
  BY ElementOfSeq, SeqDef DEF IsSeq, Range

LEMMA EmptyIs == IsSeq(<<>>)
<1> DEFINE none == {}
<1>1. <<>> \in Seq(none)
  BY EmptySeq
<1> HIDE DEF none
<1> QED  BY <1>1, SeqIs

\* Positions in a sequence.
LEMMA SeqFacts == ASSUME NEW s, IsSeq(s)
  PROVE Len(s) \in Nat /\ DOMAIN s = 1 .. Len(s)
  BY DEF IsSeq

\* What push_back does to a vector.
LEMMA AppendIs == ASSUME NEW s, IsSeq(s), NEW x
  PROVE /\ IsSeq(Append(s, x))
        /\ Len(Append(s, x)) = Len(s) + 1
        /\ \A k \in 1 .. Len(s) : Append(s, x)[k] = s[k]
        /\ Append(s, x)[Len(s) + 1] = x
        /\ Last(Append(s, x)) = x
<1> DEFINE S == Range(s) \cup {x}
<1>1. s \in Seq(S) /\ x \in S
  BY SeqDef DEF IsSeq
<1>2. Append(s, x) \in Seq(S)
  BY <1>1
<1> HIDE DEF S
<1>3. IsSeq(Append(s, x))
  BY <1>2, SeqIs
<1> QED  BY <1>1, <1>2, <1>3 DEF Last

\* The first m elements of a sequence.
LEMMA PrefixIs == ASSUME NEW s, IsSeq(s), NEW m \in Nat, m <= Len(s)
  PROVE /\ IsSeq(SubSeq(s, 1, m)) /\ Len(SubSeq(s, 1, m)) = m
        /\ \A k \in 1 .. m : SubSeq(s, 1, m)[k] = s[k]
<1> DEFINE S == Range(s)
<1>1. s \in Seq(S) /\ Len(s) \in Nat
  BY DEF IsSeq
<1> HIDE DEF S
<1>2. \A k \in 1 .. m : s[k] \in S
  BY <1>1
<1>3. /\ SubSeq(s, 1, m) \in Seq(S)
      /\ Len(SubSeq(s, 1, m)) = IF 1 <= m THEN m - 1 + 1 ELSE 0
      /\ \A k \in 1 .. m - 1 + 1 : SubSeq(s, 1, m)[k] = s[1 + k - 1]
  BY <1>2, SubSeqProperties
<1>4. Len(SubSeq(s, 1, m)) = m
  BY <1>3
<1>5. \A k \in 1 .. m : SubSeq(s, 1, m)[k] = s[k]
  BY <1>3
<1> QED  BY <1>3, <1>4, <1>5, SeqIs

\* What pop_back does to a vector.
LEMMA FrontIs == ASSUME NEW s, IsSeq(s), s # <<>>
  PROVE /\ IsSeq(Front(s))
        /\ Len(s) >= 1 /\ Len(Front(s)) = Len(s) - 1
        /\ \A k \in 1 .. Len(s) - 1 : Front(s)[k] = s[k]
        /\ Last(s) = s[Len(s)]
<1> DEFINE n == Len(s) - 1
<1>1. Len(s) \in Nat /\ Len(s) >= 1
  BY EmptySeq DEF IsSeq
<1>2. n \in Nat /\ n <= Len(s)
  BY <1>1
<1> HIDE DEF n
<1>3. /\ IsSeq(SubSeq(s, 1, n)) /\ Len(SubSeq(s, 1, n)) = n
      /\ \A k \in 1 .. n : SubSeq(s, 1, n)[k] = s[k]
  BY <1>2, PrefixIs
<1> QED  BY <1>1, <1>3 DEF Front, Last, n

\* The elements of two sequences in a row.
LEMMA ConcatIs == ASSUME NEW s, IsSeq(s), NEW t, IsSeq(t)
  PROVE /\ IsSeq(s \o t)
        /\ Len(s \o t) = Len(s) + Len(t)
        /\ \A k \in 1 .. Len(s) : (s \o t)[k] = s[k]
        /\ \A k \in Len(s) + 1 .. Len(s) + Len(t) : (s \o t)[k] = t[k - Len(s)]
<1> DEFINE S == Range(s) \cup Range(t)
<1>1. s \in Seq(S) /\ t \in Seq(S)
  BY SeqDef DEF IsSeq
<1> HIDE DEF S
<1>2. s \o t \in Seq(S) /\ Len(s \o t) = Len(s) + Len(t)
  BY <1>1, ConcatProperties
<1>3. IsSeq(s \o t)
  BY <1>2, SeqIs
<1>4. \A k \in 1 .. Len(s) + Len(t) :
        (s \o t)[k] = IF k <= Len(s) THEN s[k] ELSE t[k - Len(s)]
  BY <1>1, ConcatProperties, Zenon
<1>5. Len(s) \in Nat /\ Len(t) \in Nat
  BY <1>1
<1> QED  BY <1>2, <1>3, <1>4, <1>5

\* A sequence without its first element.
LEMMA TailIs == ASSUME NEW s, IsSeq(s), s # <<>>
  PROVE /\ IsSeq(Tail(s))
        /\ Len(s) >= 1 /\ Len(Tail(s)) = Len(s) - 1
        /\ \A k \in 1 .. Len(s) - 1 : Tail(s)[k] = s[k + 1]
        /\ Head(s) = s[1]
<1> DEFINE S == Range(s)
<1>1. s \in Seq(S)
  BY DEF IsSeq
<1> HIDE DEF S
<1>2. Tail(s) \in Seq(S) /\ Len(s) \in Nat /\ Len(Tail(s)) = Len(s) - 1
  BY <1>1, HeadTailProperties
<1>3. Len(s) >= 1
  BY <1>1, EmptySeq
<1>4. \A k \in 1 .. Len(s) - 1 : Tail(s)[k] = s[k + 1]
  BY <1>1, <1>2, HeadTailProperties
<1>5. IsSeq(Tail(s))
  BY <1>2, SeqIs
<1>6. Head(s) = s[1]
  BY <1>1
<1> QED  BY <1>2, <1>3, <1>4, <1>5, <1>6

\* An assignment to one element keeps the others.
LEMMA ExceptIs == ASSUME NEW s, IsSeq(s), NEW i, NEW x
  PROVE /\ IsSeq([s EXCEPT ![i] = x])
        /\ Len([s EXCEPT ![i] = x]) = Len(s)
        /\ i \in 1 .. Len(s) => [s EXCEPT ![i] = x][i] = x
        /\ \A k \in 1 .. Len(s) : k # i => [s EXCEPT ![i] = x][k] = s[k]
<1> DEFINE S == Range(s) \cup {x}
           t == [s EXCEPT ![i] = x]
<1>1. s \in Seq(S) /\ x \in S
  BY SeqDef DEF IsSeq
<1>1a. DOMAIN s = 1 .. Len(s) /\ Len(s) \in Nat /\ s \in [1 .. Len(s) -> S]
  BY <1>1, LenProperties, SeqDef
<1>2. t \in [1 .. Len(s) -> S]
  BY <1>1, <1>1a
<1> HIDE DEF S
<1>2a. DOMAIN t = 1 .. Len(s)
  BY <1>1a
<1>3. t \in Seq(S) /\ Len(t) = Len(s)
  <2> HIDE DEF t
  <2>1. t \in Seq(S)
    BY <1>2, <1>1a, SeqDef
  <2> QED  BY <2>1, <1>2a, <1>1a, LenProperties
<1> QED  BY <1>1a, <1>3, SeqIs

\* The same with a name for what results.
Assigned(s, i, x) == [s EXCEPT ![i] = x]

LEMMA AssignedIs == ASSUME NEW s, IsSeq(s), NEW i, NEW x
  PROVE /\ IsSeq(Assigned(s, i, x)) /\ Len(Assigned(s, i, x)) = Len(s)
        /\ i \in 1 .. Len(s) => Assigned(s, i, x)[i] = x
        /\ \A k \in 1 .. Len(s) : k # i => Assigned(s, i, x)[k] = s[k]
<1>1. DOMAIN s = 1 .. Len(s) /\ Len(s) \in Nat
  BY SeqFacts
<1>2. IsSeq(Assigned(s, i, x))
  BY ExceptIs DEF Assigned
<1>3. Len(Assigned(s, i, x)) = Len(s)
  BY ExceptIs DEF Assigned
<1>4. i \in 1 .. Len(s) => Assigned(s, i, x)[i] = x
  BY <1>1 DEF Assigned
<1>5. \A k \in 1 .. Len(s) : k # i => Assigned(s, i, x)[k] = s[k]
  BY <1>1 DEF Assigned
<1> QED  BY <1>2, <1>3, <1>4, <1>5

\* A function on 1 .. n is a sequence.
LEMMA FunctionIs == ASSUME NEW n \in Nat, NEW f, f = [k \in 1 .. n |-> f[k]]
  PROVE /\ IsSeq(f) /\ Len(f) = n /\ DOMAIN f = 1 .. n
<1> DEFINE S == {f[k] : k \in 1 .. n}
<1>1. f \in [1 .. n -> S]
  OBVIOUS
<1>2. f \in Seq(S) /\ Len(f) = n
  BY <1>1, SeqDef, LenProperties
<1> QED  BY <1>1, <1>2, SeqIs

\* The elements of a sequence from one on.
LEMMA SuffixIs == ASSUME NEW s, IsSeq(s), NEW m \in 1 .. Len(s) + 1
  PROVE /\ IsSeq(SubSeq(s, m, Len(s))) /\ Len(SubSeq(s, m, Len(s))) = Len(s) - m + 1
        /\ \A k \in 1 .. Len(s) - m + 1 : SubSeq(s, m, Len(s))[k] = s[m + k - 1]
<1> DEFINE S == Range(s)
           n == Len(s)
<1>1. s \in Seq(S) /\ n \in Nat
  BY DEF IsSeq
<1> HIDE DEF S
<1>2. \A k \in m .. n : s[k] \in S
  BY <1>1
<1>3. m \in Int /\ n \in Int
  BY <1>1
<1> HIDE DEF n
<1>4. /\ SubSeq(s, m, n) \in Seq(S)
      /\ Len(SubSeq(s, m, n)) = IF m <= n THEN n - m + 1 ELSE 0
      /\ \A k \in 1 .. n - m + 1 : SubSeq(s, m, n)[k] = s[m + k - 1]
  BY <1>2, <1>3, SubSeqProperties
<1>5. Len(SubSeq(s, m, n)) = n - m + 1
  BY <1>1, <1>4 DEF n
<1> QED  BY <1>4, <1>5, SeqIs DEF n

-----------------------------------------------------------------------------
(* Least elements *)

\* The least element of a set of numbers.
LEMMA LeastNatural ==
  ASSUME NEW S, S \subseteq Nat, S # {}
  PROVE  \E x \in S : \A y \in S : x <= y
  <1>1. PICK x \in S : \A y \in S : ~ (<<y, x>> \in OpToRel(<, Nat))
    BY WFMin, NatLessThanWellFounded
  <1>2. ASSUME NEW y \in S PROVE x <= y
    <2>1. x \in Nat /\ y \in Nat
      OBVIOUS
    <2>2. y < x => <<y, x>> \in OpToRel(<, Nat)
      BY <2>1 DEF OpToRel
    <2>3. ~ (y < x)
      BY <1>1, <2>2
    <2> QED
      BY <2>1, <2>3
  <1> QED
    BY <1>2

\* Min is it.
LEMMA MinNatural ==
  ASSUME NEW S, S \subseteq Nat, S # {}
  PROVE  Min(S) \in S /\ \A y \in S : Min(S) <= y
  BY LeastNatural DEF Min

-----------------------------------------------------------------------------
(* Sequences of sequences *)

\* What FlattenSeq concatenates one by one.
LEMMA Flattening ==
  ASSUME NEW seqs, NEW n \in Nat
  PROVE  \E f : f = [i \in 1 .. n |-> IF i = 1 THEN seqs[i] ELSE f[i - 1] \o seqs[i]]
<1> DEFINE Is(m, f) == f = [i \in 1 .. m |-> IF i = 1 THEN seqs[i] ELSE f[i - 1] \o seqs[i]]
           Bad == {m \in Nat : ~ \E f : Is(m, f)}
<1>1. SUFFICES ASSUME Bad # {} PROVE FALSE
  BY DEF Bad
<1>2. PICK m \in Bad : \A k \in Bad : m <= k
  <2>1. Bad \subseteq Nat
    OBVIOUS
  <2> HIDE DEF Bad
  <2> QED BY <1>1, <2>1, LeastNatural
<1>3. m \in Nat /\ ~ \E f : Is(m, f)
  BY <1>2
<1>4. m # 0
  <2>1. Is(0, [i \in {} |-> i])
    OBVIOUS
  <2> QED BY <2>1, <1>3
<1>5. PICK f : Is(m - 1, f)
  <2>1. m - 1 \in Nat /\ ~ (m <= m - 1)
    BY <1>3, <1>4
  <2>2. m - 1 \notin Bad
    BY <2>1, <1>2
  <2> QED BY <2>1, <2>2
<1> DEFINE g == [i \in 1 .. m |-> IF i = 1 THEN seqs[i]
                                  ELSE IF i < m THEN f[i] ELSE f[m - 1] \o seqs[m]]
<1>6. Is(m, g)
  <2>1. ASSUME NEW i \in 1 .. m
        PROVE  g[i] = IF i = 1 THEN seqs[i] ELSE g[i - 1] \o seqs[i]
    <3>1. CASE i = 1
      BY <3>1
    <3>2. CASE i # 1
      <4>1. i - 1 \in 1 .. m - 1 /\ m \in Nat /\ i \in Int
        BY <3>2, <1>3
      <4>2. g[i - 1] = f[i - 1]
        <5>1. CASE i - 1 = 1
          BY <5>1, <4>1, <1>5
        <5>2. CASE i - 1 # 1
          BY <5>2, <4>1
        <5> QED BY <5>1, <5>2
      <4>3. g[i] = f[i - 1] \o seqs[i]
        <5>1. CASE i = m
          <6>1. ~ (i < m)
            BY <5>1, <4>1
          <6>2. g[i] = f[m - 1] \o seqs[m]
            BY <6>1, <3>2, Zenon
          <6> QED BY <6>2, <5>1
        <5>2. CASE i # m
          <6>1. i \in 1 .. m - 1 /\ i < m
            BY <5>2, <4>1
          <6>2. f[i] = f[i - 1] \o seqs[i]
            BY <6>1, <3>2, <1>5
          <6> QED BY <6>1, <6>2, <3>2
        <5> QED BY <5>1, <5>2
      <4> QED BY <4>2, <4>3, <3>2
    <3> QED BY <3>1, <3>2
  <2>2. g = [i \in 1 .. m |-> g[i]]
    OBVIOUS
  <2> HIDE DEF g
  <2> QED BY <2>1, <2>2
<1> QED BY <1>3, <1>6

\* The concatenation of sequences has the elements of these, and no others.
LEMMA FlattenIs ==
  ASSUME NEW seqs, IsSeq(seqs), \A i \in 1 .. Len(seqs) : IsSeq(seqs[i])
  PROVE  /\ IsSeq(FlattenSeq(seqs))
         /\ \A n \in 1 .. Len(FlattenSeq(seqs)) :
              \E i \in 1 .. Len(seqs) : \E j \in 1 .. Len(seqs[i]) :
                FlattenSeq(seqs)[n] = seqs[i][j]
<1>1. CASE Len(seqs) = 0
  BY <1>1 DEF FlattenSeq
<1>2. CASE Len(seqs) # 0
  <2> DEFINE Is(f) == f = [i \in 1 .. Len(seqs) |->
                             IF i = 1 THEN seqs[i] ELSE f[i - 1] \o seqs[i]]
             f == CHOOSE f : Is(f)
  <2>1. Len(seqs) \in Nat
    BY SeqFacts, SMTT(30)
  <2>2. f = [i \in 1 .. Len(seqs) |-> IF i = 1 THEN seqs[i] ELSE f[i - 1] \o seqs[i]]
    <3>1. \E h : Is(h)
      BY <2>1, Flattening
    <3>2. Is(f)
      <4> HIDE DEF Is
      <4> QED BY <3>1
    <3> QED BY <3>2
  <2>3. FlattenSeq(seqs) = f[Len(seqs)]
    BY <1>2 DEF FlattenSeq
  <2> HIDE DEF f
  <2> DEFINE Taken(x) == \E i \in 1 .. Len(seqs) : \E j \in 1 .. Len(seqs[i]) : x = seqs[i][j]
             Good(i) == IsSeq(f[i]) /\ \A n \in 1 .. Len(f[i]) : Taken(f[i][n])
             Bad == {i \in 1 .. Len(seqs) : ~ Good(i)}
  <2>4. Bad = {}
    <3>1. SUFFICES ASSUME Bad # {} PROVE FALSE
      OBVIOUS
    <3>2. Bad \subseteq Nat
      OBVIOUS
    <3>3. PICK i \in Bad : \A k \in Bad : i <= k
      <4> HIDE DEF Bad
      <4> QED BY <3>1, <3>2, LeastNatural
    <3>4. i \in 1 .. Len(seqs) /\ ~ Good(i)
      <4> HIDE DEF Good
      <4> QED BY <3>3
    <3>5. i # 1
      <4>1. ASSUME i = 1 PROVE f[1] = seqs[1] /\ 1 \in 1 .. Len(seqs)
        BY <4>1, <3>4, <2>2
      <4> QED BY <4>1, <3>4
    <3>6. Good(i - 1)
      <4>1. i - 1 \in 1 .. Len(seqs) /\ ~ (i <= i - 1)
        BY <3>4, <3>5, <2>1
      <4> HIDE DEF Good
      <4> QED BY <4>1, <3>3
    <3>7. f[i] = f[i - 1] \o seqs[i]
      BY <3>4, <3>5, <2>2
    <3>8. IsSeq(seqs[i]) /\ IsSeq(f[i - 1])
      BY <3>4, <3>6
    <3> DEFINE s == f[i - 1]
               t == seqs[i]
    <3>9. /\ IsSeq(s \o t)
          /\ Len(s \o t) = Len(s) + Len(t)
          /\ \A k \in 1 .. Len(s) : (s \o t)[k] = s[k]
          /\ \A k \in Len(s) + 1 .. Len(s) + Len(t) : (s \o t)[k] = t[k - Len(s)]
      <4> HIDE DEF s, t
      <4>1. IsSeq(s) /\ IsSeq(t)
        BY <3>8 DEF s, t
      <4> QED BY <4>1, ConcatIs
    <3>10. Len(s) \in Nat /\ Len(t) \in Nat
      BY <3>8, SeqFacts
    <3>11. Len(s \o t) = Len(s) + Len(t)
      BY <3>9
    <3>12. ASSUME NEW n \in 1 .. Len(s \o t)  PROVE Taken((s \o t)[n])
      <4> HIDE DEF Taken, s, t
      <4>0. n \in 1 .. Len(s) + Len(t)
        BY <3>11
      <4>1. CASE n <= Len(s)
        <5>1. n \in 1 .. Len(s)
          BY <4>1, <4>0, <3>10
        <5>2. (s \o t)[n] = s[n]
          BY <5>1, <3>9
        <5> QED BY <5>1, <5>2, <3>6 DEF s
      <4>2. CASE ~ (n <= Len(s))
        <5>1. n \in Len(s) + 1 .. Len(s) + Len(t) /\ n - Len(s) \in 1 .. Len(t)
          BY <4>2, <4>0, <3>10
        <5>2. (s \o t)[n] = t[n - Len(s)]
          BY <5>1, <3>9
        <5>3. Taken(t[n - Len(s)])
          BY <5>1, <3>4 DEF Taken, t
        <5> QED BY <5>2, <5>3
      <4> QED BY <4>1, <4>2, <3>9, <3>10
    <3>13. f[i] = s \o t
      BY <3>7
    <3>14. Good(i)
      <4> HIDE DEF s, t, Taken
      <4> QED BY <3>9, <3>12, <3>13
    <3> QED BY <3>14, <3>4
  <2>5. Good(Len(seqs))
    <3>1. Len(seqs) \in 1 .. Len(seqs)
      BY <2>1, <1>2
    <3> HIDE DEF Good
    <3> QED BY <3>1, <2>4
  <2> QED BY <2>3, <2>5
<1> QED BY <1>1, <1>2
=============================================================================
