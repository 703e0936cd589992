---------------------------- MODULE LibraryFacts ----------------------------
(***************************************************************************)
(* What the proofs use of lists, of their elements, and of the least and   *)
(* greatest element of a set.                                              *)
(***************************************************************************)
EXTENDS Integers, FiniteSets, Sequences, SequencesExt, FiniteSetTheorems,
        SequenceTheorems, TLAPS

\* Every set of natural numbers has a least element.  (The principle behind the inductions
\* of the other proofs: the least counterexample.)
LEMMA LeastNat ==
  ASSUME NEW T \in SUBSET Nat, T # {}
  PROVE  \E x \in T : \A y \in T : x <= y
<1> DEFINE R == {ss \in Nat \X Nat : ss[1] < ss[2]}
<1>1. IsWellFoundedOn(R, Nat)
  BY NatLessThanWellFounded DEF OpToRel
<1>2. T \subseteq Nat
  OBVIOUS
<1>3. \E x \in T : \A y \in T : ~(<<y, x>> \in R)
  <2> HIDE DEF R
  <2> QED
    BY <1>1, <1>2, WFMin, Zenon
<1>4. ASSUME NEW x \in T, NEW y \in T, ~(<<y, x>> \in R) PROVE x <= y
  BY <1>4
<1> QED
  BY <1>3, <1>4, Zenon

\* The same from above: a set of integers with an upper bound has a greatest element.
LEMMA GreatestInt ==
  ASSUME NEW T \in SUBSET Int, T # {}, NEW b \in Int, \A x \in T : x <= b
  PROVE  \E x \in T : \A y \in T : y <= x
<1> DEFINE D == {n \in Nat : b - n \in T}
<1>1. D # {}
  <2>1. PICK x \in T : TRUE
    OBVIOUS
  <2>2. b - x \in D
    BY <2>1
  <2> QED
    BY <2>2
<1>2. PICK n \in D : \A m \in D : n <= m
  BY <1>1, LeastNat
<1>3. b - n \in T
  OBVIOUS
<1>4. ASSUME NEW y \in T PROVE y <= b - n
  <2>1. b - y \in Nat /\ b - (b - y) = y
    OBVIOUS
  <2>2. b - (b - y) \in T
    BY <2>1, Zenon
  <2>3. b - y \in D
    BY <2>1, <2>2, Zenon
  <2>4. n <= b - y
    BY <1>2, <2>3
  <2> QED
    BY <2>4
<1> QED
  BY <1>3, <1>4

\* Min of FiniteSetsExt, for a set of integers that is bounded from below.
LEMMA MinFacts ==
  ASSUME NEW T \in SUBSET Nat, T # {}
  PROVE  Min(T) \in T /\ \A y \in T : Min(T) <= y
<1>1. \E x \in T : \A y \in T : x <= y
  BY LeastNat
<1> QED
  BY <1>1 DEF Min

\* Max of FiniteSetsExt, for a bounded set of integers.
LEMMA MaxFacts ==
  ASSUME NEW T \in SUBSET Int, T # {}, NEW b \in Int, \A x \in T : x <= b
  PROVE  Max(T) \in T /\ \A y \in T : y <= Max(T)
<1>1. \E x \in T : \A y \in T : y <= x
  BY GreatestInt
<1> QED
  BY <1>1 DEF Max

-----------------------------------------------------------------------------

\* The elements of a list.
LEMMA ToSetDef ==
  ASSUME NEW S, NEW s \in Seq(S)
  PROVE  \A x : x \in ToSet(s) <=> \E i \in 1..Len(s) : s[i] = x
<1>1. DOMAIN s = 1..Len(s)
  OBVIOUS
<1> QED
  BY <1>1 DEF ToSet

\* The empty list, head and tail, a longer list.
LEMMA ToSetFacts ==
  ASSUME NEW S
  PROVE  /\ <<>> \in Seq(S) /\ ToSet(<<>>) = {}
         /\ \A s \in Seq(S) : ToSet(s) \subseteq S
         /\ \A s \in Seq(S) : s # <<>> =>
               /\ Head(s) = s[1] /\ Head(s) \in S
               /\ Tail(s) \in Seq(S) /\ Len(Tail(s)) = Len(s) - 1 /\ Len(s) > 0
               /\ \A i \in 1..Len(s) - 1 : Tail(s)[i] = s[i + 1]
               /\ ToSet(s) = {Head(s)} \cup ToSet(Tail(s))
         /\ \A s \in Seq(S), e \in S :
               /\ Append(s, e) \in Seq(S) /\ Len(Append(s, e)) = Len(s) + 1
               /\ \A i \in 1..Len(s) : Append(s, e)[i] = s[i]
               /\ Append(s, e)[Len(s) + 1] = e
               /\ ToSet(Append(s, e)) = ToSet(s) \cup {e}
         /\ \A s, t \in Seq(S) :
               /\ s \o t \in Seq(S) /\ Len(s \o t) = Len(s) + Len(t)
               /\ \A i \in 1..Len(s) : (s \o t)[i] = s[i]
               /\ \A i \in 1..Len(t) : (s \o t)[Len(s) + i] = t[i]
               /\ ToSet(s \o t) = ToSet(s) \cup ToSet(t)
         /\ \A e \in S : /\ <<e>> \in Seq(S) /\ Len(<<e>>) = 1 /\ <<e>>[1] = e
                         /\ ToSet(<<e>>) = {e}
<1>1. <<>> \in Seq(S) /\ ToSet(<<>>) = {}
  BY ToSetDef, EmptySeq DEF ToSet
<1>2. \A s \in Seq(S) : ToSet(s) \subseteq S
  BY ToSetDef
<1>3. ASSUME NEW s \in Seq(S), s # <<>>
      PROVE  /\ Head(s) = s[1] /\ Head(s) \in S
             /\ Tail(s) \in Seq(S) /\ Len(Tail(s)) = Len(s) - 1 /\ Len(s) > 0
             /\ \A i \in 1..Len(s) - 1 : Tail(s)[i] = s[i + 1]
             /\ ToSet(s) = {Head(s)} \cup ToSet(Tail(s))
  <2>1. /\ Head(s) = s[1] /\ Head(s) \in S
        /\ Tail(s) \in Seq(S) /\ Len(Tail(s)) = Len(s) - 1 /\ Len(s) \in Nat \ {0}
        /\ \A i \in 1..Len(s) - 1 : Tail(s)[i] = s[i + 1]
    BY <1>3, HeadTailProperties, EmptySeq
  <2>2. ASSUME NEW x \in ToSet(s) PROVE x \in {Head(s)} \cup ToSet(Tail(s))
    <3>1. PICK i \in 1..Len(s) : s[i] = x
      BY ToSetDef
    <3>2. CASE i = 1
      BY <2>1, <3>1, <3>2
    <3>3. CASE i # 1
      <4>1. i - 1 \in 1..Len(Tail(s)) /\ Tail(s)[i - 1] = x
        BY <2>1, <3>1, <3>3
      <4> QED
        BY <2>1, <4>1, ToSetDef
    <3> QED
      BY <3>2, <3>3
  <2>3. ASSUME NEW x \in ToSet(Tail(s)) PROVE x \in ToSet(s)
    <3>1. PICK i \in 1..Len(Tail(s)) : Tail(s)[i] = x
      BY <2>1, ToSetDef, ZenonT(60)
    <3>2. i + 1 \in 1..Len(s) /\ s[i + 1] = x
      BY <2>1, <3>1
    <3> QED
      BY <3>2, ToSetDef
  <2>4. Head(s) \in ToSet(s)
    <3>1. 1 \in 1..Len(s) /\ s[1] = Head(s)
      BY <2>1
    <3> QED
      BY <3>1, ToSetDef
  <2> QED
    BY <2>1, <2>2, <2>3, <2>4
<1>4. ASSUME NEW s \in Seq(S), NEW t \in Seq(S)
      PROVE  /\ s \o t \in Seq(S) /\ Len(s \o t) = Len(s) + Len(t)
             /\ \A i \in 1..Len(s) : (s \o t)[i] = s[i]
             /\ \A i \in 1..Len(t) : (s \o t)[Len(s) + i] = t[i]
             /\ ToSet(s \o t) = ToSet(s) \cup ToSet(t)
  <2>1. /\ s \o t \in Seq(S) /\ Len(s \o t) = Len(s) + Len(t)
        /\ \A i \in 1..Len(s) : (s \o t)[i] = s[i]
        /\ \A i \in 1..Len(t) : (s \o t)[Len(s) + i] = t[i]
        /\ Len(s) \in Nat /\ Len(t) \in Nat
    BY ConcatProperties, LenProperties
  <2>2. ASSUME NEW x \in ToSet(s \o t) PROVE x \in ToSet(s) \cup ToSet(t)
    <3>1. PICK i \in 1..Len(s \o t) : (s \o t)[i] = x
      BY <2>1, ToSetDef
    <3>2. CASE i <= Len(s)
      <4>1. i \in 1..Len(s) /\ s[i] = x
        BY <2>1, <3>1, <3>2
      <4> QED
        BY <4>1, ToSetDef
    <3>3. CASE ~(i <= Len(s))
      <4>1. i - Len(s) \in 1..Len(t) /\ t[i - Len(s)] = x
        <5>1. i - Len(s) \in 1..Len(t) /\ Len(s) + (i - Len(s)) = i
          BY <2>1, <3>1, <3>3
        <5> QED
          BY <2>1, <3>1, <5>1
      <4> QED
        BY <4>1, ToSetDef
    <3> QED
      BY <3>2, <3>3
  <2>3. ASSUME NEW x \in ToSet(s) PROVE x \in ToSet(s \o t)
    <3>1. PICK i \in 1..Len(s) : s[i] = x
      BY ToSetDef
    <3>2. i \in 1..Len(s \o t) /\ (s \o t)[i] = x
      BY <2>1, <3>1
    <3> QED
      BY <2>1, <3>2, ToSetDef
  <2>4. ASSUME NEW x \in ToSet(t) PROVE x \in ToSet(s \o t)
    <3>1. PICK i \in 1..Len(t) : t[i] = x
      BY ToSetDef
    <3>2. Len(s) + i \in 1..Len(s \o t) /\ (s \o t)[Len(s) + i] = x
      BY <2>1, <3>1
    <3> QED
      BY <2>1, <3>2, ToSetDef
  <2> QED
    BY <2>1, <2>2, <2>3, <2>4
<1>5. ASSUME NEW e \in S
      PROVE  /\ <<e>> \in Seq(S) /\ Len(<<e>>) = 1 /\ <<e>>[1] = e
             /\ ToSet(<<e>>) = {e}
  <2>1. <<e>> \in Seq(S) /\ Len(<<e>>) = 1 /\ <<e>>[1] = e
    OBVIOUS
  <2>2. \A x : x \in ToSet(<<e>>) <=> \E i \in 1..1 : <<e>>[i] = x
    BY <2>1, ToSetDef
  <2> QED
    BY <2>1, <2>2
<1>6. ASSUME NEW s \in Seq(S), NEW e \in S
      PROVE  /\ Append(s, e) \in Seq(S) /\ Len(Append(s, e)) = Len(s) + 1
             /\ \A i \in 1..Len(s) : Append(s, e)[i] = s[i]
             /\ Append(s, e)[Len(s) + 1] = e
             /\ ToSet(Append(s, e)) = ToSet(s) \cup {e}
  <2>1. Append(s, e) = s \o <<e>>
    BY AppendIsConcat
  <2>2. <<e>> \in Seq(S) /\ ToSet(<<e>>) = {e}
    BY <1>5
  <2>3. ToSet(s \o <<e>>) = ToSet(s) \cup ToSet(<<e>>)
    BY <2>2, <1>4
  <2> QED
    BY <2>1, <2>2, <2>3, AppendProperties
<1> QED
  BY <1>1, <1>2, <1>3, <1>4, <1>5, <1>6

\* A list in reverse order.
LEMMA ReverseFacts ==
  ASSUME NEW S, NEW s \in Seq(S)
  PROVE  /\ Reverse(s) \in Seq(S) /\ Len(Reverse(s)) = Len(s)
         /\ \A i \in 1..Len(s) : Reverse(s)[i] = s[Len(s) - i + 1]
         /\ ToSet(Reverse(s)) = ToSet(s)
<1>1. Len(s) \in Nat
  OBVIOUS
<1>2. /\ Reverse(s) \in Seq(S) /\ Len(Reverse(s)) = Len(s)
      /\ \A i \in 1..Len(s) : Reverse(s)[i] = s[Len(s) - i + 1]
  BY <1>1 DEF Reverse
<1>3. ASSUME NEW x PROVE x \in ToSet(Reverse(s)) <=> x \in ToSet(s)
  <2>1. ASSUME NEW i \in 1..Len(s)
        PROVE  /\ Len(s) - i + 1 \in 1..Len(s)
               /\ Len(s) - (Len(s) - i + 1) + 1 = i
    BY <1>1
  <2>2. (\E i \in 1..Len(s) : Reverse(s)[i] = x) <=> \E i \in 1..Len(s) : s[i] = x
    BY <1>2, <2>1
  <2> QED
    BY <1>2, <2>2, ToSetDef
<1> QED
  BY <1>2, <1>3

\* A list whose elements are different.
LEMMA InjectiveDef ==
  ASSUME NEW S, NEW s \in Seq(S)
  PROVE  IsInjective(s) <=> \A i, j \in 1..Len(s) : s[i] = s[j] => i = j
<1>1. DOMAIN s = 1..Len(s)
  OBVIOUS
<1> QED
  BY <1>1 DEF IsInjective

\* Its tail, a longer list, and the list in reverse order.
LEMMA InjectiveFacts ==
  ASSUME NEW S
  PROVE  /\ IsInjective(<<>>)
         /\ \A e \in S : IsInjective(<<e>>)
         /\ \A s \in Seq(S) : s # <<>> /\ IsInjective(s) =>
               IsInjective(Tail(s)) /\ Head(s) \notin ToSet(Tail(s))
         /\ \A s, t \in Seq(S) :
               IsInjective(s) /\ IsInjective(t) /\ ToSet(s) \cap ToSet(t) = {}
                  => IsInjective(s \o t)
         /\ \A s \in Seq(S), e \in S :
               IsInjective(s) /\ e \notin ToSet(s) => IsInjective(Append(s, e))
         /\ \A s \in Seq(S) : IsInjective(s) => IsInjective(Reverse(s))
<1>1. IsInjective(<<>>)
  BY DEF IsInjective
<1>2. \A e \in S : IsInjective(<<e>>)
  BY DEF IsInjective
<1>3. ASSUME NEW s \in Seq(S), s # <<>>, IsInjective(s)
      PROVE  IsInjective(Tail(s)) /\ Head(s) \notin ToSet(Tail(s))
  <2>1. /\ Head(s) = s[1] /\ Tail(s) \in Seq(S) /\ Len(Tail(s)) = Len(s) - 1 /\ Len(s) > 0
        /\ \A i \in 1..Len(s) - 1 : Tail(s)[i] = s[i + 1]
    BY <1>3, ToSetFacts
  <2>2. Len(s) \in Nat /\ \A i, j \in 1..Len(s) : s[i] = s[j] => i = j
    BY <1>3, InjectiveDef
  <2>3. ASSUME NEW i \in 1..Len(s) - 1, NEW j \in 1..Len(s) - 1, Tail(s)[i] = Tail(s)[j]
        PROVE  i = j
    <3>1. i + 1 \in 1..Len(s) /\ j + 1 \in 1..Len(s) /\ s[i + 1] = s[j + 1]
      BY <2>1, <2>2, <2>3
    <3>2. i + 1 = j + 1
      BY <2>2, <3>1
    <3> QED
      BY <2>2, <3>2
  <2>4. IsInjective(Tail(s))
    BY <2>1, <2>3, InjectiveDef
  <2>5. ASSUME Head(s) \in ToSet(Tail(s)) PROVE FALSE
    <3>0. \E i \in 1..Len(Tail(s)) : Tail(s)[i] = Head(s)
      BY <2>1, <2>5, ToSetDef, ZenonT(60)
    <3>1. PICK i \in 1..Len(s) - 1 : Tail(s)[i] = Head(s)
      BY <2>1, <3>0
    <3>2. i + 1 \in 1..Len(s) /\ 1 \in 1..Len(s) /\ s[i + 1] = s[1]
      BY <2>1, <2>2, <3>1
    <3>3. i + 1 = 1
      BY <2>2, <3>2
    <3> QED
      BY <2>2, <3>1, <3>3
  <2> QED
    BY <2>4, <2>5
<1>4. ASSUME NEW s \in Seq(S), NEW t \in Seq(S), IsInjective(s), IsInjective(t),
             ToSet(s) \cap ToSet(t) = {}
      PROVE  IsInjective(s \o t)
  <2>1. /\ s \o t \in Seq(S) /\ Len(s \o t) = Len(s) + Len(t)
        /\ \A i \in 1..Len(s) : (s \o t)[i] = s[i]
        /\ \A i \in 1..Len(t) : (s \o t)[Len(s) + i] = t[i]
        /\ Len(s) \in Nat /\ Len(t) \in Nat
    BY ToSetFacts
  <2> DEFINE u == s \o t
  <2>2. ASSUME NEW i \in 1..Len(s) + Len(t)
        PROVE  \/ i \in 1..Len(s) /\ u[i] = s[i] /\ u[i] \in ToSet(s)
               \/ i - Len(s) \in 1..Len(t) /\ u[i] = t[i - Len(s)] /\ u[i] \in ToSet(t)
    <3>1. CASE i <= Len(s)
      <4>1. i \in 1..Len(s) /\ u[i] = s[i]
        BY <2>1, <3>1
      <4> QED
        BY <4>1, ToSetDef
    <3>2. CASE ~(i <= Len(s))
      <4>1. i - Len(s) \in 1..Len(t) /\ Len(s) + (i - Len(s)) = i
        BY <2>1, <3>2
      <4>2. u[i] = t[i - Len(s)]
        BY <2>1, <4>1
      <4> QED
        BY <4>1, <4>2, ToSetDef
    <3> QED
      BY <3>1, <3>2
  <2> HIDE DEF u
  <2>3. \A i, j \in 1..Len(s) : s[i] = s[j] => i = j
    BY <1>4, InjectiveDef
  <2>4. \A i, j \in 1..Len(t) : t[i] = t[j] => i = j
    BY <1>4, InjectiveDef
  <2>5. ASSUME NEW i \in 1..Len(s) + Len(t), NEW j \in 1..Len(s) + Len(t), u[i] = u[j]
        PROVE  i = j
    <3>1. CASE u[i] \in ToSet(s)
      <4>1. i \in 1..Len(s) /\ j \in 1..Len(s) /\ s[i] = s[j]
        BY <1>4, <2>2, <2>5, <3>1
      <4> QED
        BY <2>3, <4>1
    <3>2. CASE u[i] \in ToSet(t)
      <4>1. i - Len(s) \in 1..Len(t) /\ j - Len(s) \in 1..Len(t)
            /\ t[i - Len(s)] = t[j - Len(s)]
        BY <1>4, <2>2, <2>5, <3>2
      <4>2. i - Len(s) = j - Len(s)
        BY <2>4, <4>1
      <4> QED
        BY <2>1, <4>2
    <3> QED
      BY <2>2, <3>1, <3>2
  <2>6. u \in Seq(S) /\ Len(u) = Len(s) + Len(t)
    BY <2>1 DEF u
  <2> QED
    BY <2>5, <2>6, InjectiveDef DEF u
<1>5. ASSUME NEW s \in Seq(S), NEW e \in S, IsInjective(s), e \notin ToSet(s)
      PROVE  IsInjective(Append(s, e))
  <2>1. Append(s, e) = s \o <<e>> /\ <<e>> \in Seq(S) /\ ToSet(<<e>>) = {e}
    BY ToSetFacts, AppendIsConcat
  <2> QED
    BY <1>2, <1>4, <1>5, <2>1
<1>6. ASSUME NEW s \in Seq(S), IsInjective(s) PROVE IsInjective(Reverse(s))
  <2>1. /\ Reverse(s) \in Seq(S) /\ Len(Reverse(s)) = Len(s) /\ Len(s) \in Nat
        /\ \A i \in 1..Len(s) : Reverse(s)[i] = s[Len(s) - i + 1]
    BY ReverseFacts
  <2>2. \A i, j \in 1..Len(s) : s[i] = s[j] => i = j
    BY <1>6, InjectiveDef
  <2>3. ASSUME NEW i \in 1..Len(s), NEW j \in 1..Len(s), Reverse(s)[i] = Reverse(s)[j]
        PROVE  i = j
    <3>1. Len(s) - i + 1 \in 1..Len(s) /\ Len(s) - j + 1 \in 1..Len(s)
      BY <2>1
    <3>2. Len(s) - i + 1 = Len(s) - j + 1
      BY <2>1, <2>2, <2>3, <3>1
    <3> QED
      BY <2>1, <3>2
  <2> QED
    BY <2>1, <2>3, InjectiveDef
<1> QED
  BY <1>1, <1>2, <1>3, <1>4, <1>5, <1>6

\* The first elements of a list.
LEMMA CutFacts ==
  ASSUME NEW S, NEW s \in Seq(S), NEW n \in 0..Len(s)
  PROVE  /\ SubSeq(s, 1, n) \in Seq(S) /\ Len(SubSeq(s, 1, n)) = n
         /\ \A x \in 1..n : SubSeq(s, 1, n)[x] = s[x]
<1>1. \A x \in 1..n : s[x] \in S
  OBVIOUS
<1>2. /\ SubSeq(s, 1, n) \in Seq(S)
      /\ Len(SubSeq(s, 1, n)) = IF 1 <= n THEN n - 1 + 1 ELSE 0
      /\ \A x \in 1..n - 1 + 1 : SubSeq(s, 1, n)[x] = s[1 + x - 1]
  BY <1>1, SubSeqProperties
<1>3. n - 1 + 1 = n /\ \A x \in 1..n : 1 + x - 1 = x
  OBVIOUS
<1> QED
  BY <1>2, <1>3

\* A list that another ends with.
LEMMA SuffixFacts ==
  ASSUME NEW S, NEW s \in Seq(S), NEW t \in Seq(S)
  PROVE  IsSuffix(s, t) <=> /\ Len(s) <= Len(t)
                            /\ \A i \in 0..Len(s) - 1 : s[Len(s) - i] = t[Len(t) - i]
<1> DEFINE m == Len(s)
           n == Len(t)
           u == Reverse(s)
           v == Reverse(t)
<1>1. m \in Nat /\ n \in Nat
  OBVIOUS
<1>2. /\ u \in Seq(S) /\ Len(u) = m /\ \A i \in 1..m : u[i] = s[m - i + 1]
      /\ v \in Seq(S) /\ Len(v) = n /\ \A i \in 1..n : v[i] = t[n - i + 1]
  BY ReverseFacts
<1>3. IsSuffix(s, t) <=> Len(u) <= Len(v) /\ SubSeq(u, 1, Len(u)) = SubSeq(v, 1, Len(u))
  BY DEF IsSuffix, IsPrefix
<1> HIDE DEF u, v, m, n
<1>4. ASSUME m <= n
      PROVE  SubSeq(u, 1, m) = SubSeq(v, 1, m) <=> \A i \in 0..m - 1 : s[m - i] = t[n - i]
  <2> DEFINE a == SubSeq(u, 1, m)
             b == SubSeq(v, 1, m)
  <2>1. m \in 0..Len(u) /\ m \in 0..Len(v)
    BY <1>1, <1>2, <1>4
  <2>2. a \in Seq(S) /\ Len(a) = m /\ \A x \in 1..m : a[x] = u[x]
    BY <1>2, <2>1, CutFacts
  <2>3. b \in Seq(S) /\ Len(b) = m /\ \A x \in 1..m : b[x] = v[x]
    BY <1>2, <2>1, CutFacts
  <2> HIDE DEF a, b
  <2>4. a = b <=> \A x \in 1..m : u[x] = v[x]
    BY <2>2, <2>3, SeqEqual
  <2>5. ASSUME NEW i \in 0..m - 1
        PROVE  i + 1 \in 1..m /\ u[i + 1] = s[m - i] /\ v[i + 1] = t[n - i]
    <3>1. i + 1 \in 1..m /\ i + 1 \in 1..n /\ m - (i + 1) + 1 = m - i /\ n - (i + 1) + 1 = n - i
      BY <1>1, <1>4
    <3> QED
      BY <1>2, <3>1
  <2>6. \A x \in 1..m : x - 1 \in 0..m - 1 /\ (x - 1) + 1 = x
    BY <1>1
  <2>7. (\A x \in 1..m : u[x] = v[x]) <=> \A i \in 0..m - 1 : s[m - i] = t[n - i]
    <3>1. ASSUME \A x \in 1..m : u[x] = v[x], NEW i \in 0..m - 1 PROVE s[m - i] = t[n - i]
      BY <2>5, <3>1
    <3>2. ASSUME \A i \in 0..m - 1 : s[m - i] = t[n - i], NEW x \in 1..m PROVE u[x] = v[x]
      <4> DEFINE i == x - 1
      <4>1. i \in 0..m - 1 /\ i + 1 = x
        BY <2>6
      <4> HIDE DEF i
      <4> QED
        BY <2>5, <3>2, <4>1
    <3> QED
      BY <3>1, <3>2
  <2> QED
    BY <2>4, <2>7 DEF a, b
<1> QED
  BY <1>2, <1>3, <1>4 DEF m, n

\* What a list ends with once an element is appended.
LEMMA SuffixOfAppend ==
  ASSUME NEW S, NEW w \in Seq(S), w # <<>>, NEW o \in Seq(S), NEW e \in S
  PROVE  IsSuffix(w, Append(o, e)) <=> Len(w) <= Len(o) + 1 /\ Last(w) = e /\ IsSuffix(Front(w), o)
<1> DEFINE m == Len(w)
           n == Len(o)
           f == Front(w)
           a == Append(o, e)
<1>1. m \in Nat \ {0} /\ n \in Nat
  BY EmptySeq
<1>2. a \in Seq(S) /\ Len(a) = n + 1 /\ a[n + 1] = e /\ \A x \in 1..n : a[x] = o[x]
  BY AppendProperties
<1>3. f \in Seq(S) /\ Len(f) = m - 1 /\ \A x \in 1..m - 1 : f[x] = w[x]
  <2>1. m - 1 \in 0..Len(w)
    BY <1>1
  <2> QED
    BY <2>1, CutFacts DEF Front
<1>4. Last(w) = w[m]
  BY DEF Last
<1>5. IsSuffix(w, a) <=> m <= Len(a) /\ \A i \in 0..m - 1 : w[m - i] = a[Len(a) - i]
  BY <1>2, SuffixFacts
<1>6. IsSuffix(f, o) <=> Len(f) <= n /\ \A i \in 0..Len(f) - 1 : f[Len(f) - i] = o[n - i]
  BY <1>3, SuffixFacts
<1> HIDE DEF m, n, f, a
<1>7. ASSUME m <= n + 1, NEW i \in 0..m - 2
      PROVE  f[(m - 1) - i] = w[m - (i + 1)] /\ a[(n + 1) - (i + 1)] = o[n - i]
  <2>1. (m - 1) - i \in 1..m - 1 /\ (m - 1) - i = m - (i + 1)
        /\ n - i \in 1..n /\ (n + 1) - (i + 1) = n - i
    BY <1>1, <1>7
  <2> QED
    BY <1>2, <1>3, <2>1
<1>8. ASSUME m <= n + 1
      PROVE  (\A i \in 0..m - 1 : w[m - i] = a[(n + 1) - i])
               <=> w[m] = e /\ \A i \in 0..(m - 1) - 1 : f[(m - 1) - i] = o[n - i]
  <2>1. ASSUME \A i \in 0..m - 1 : w[m - i] = a[(n + 1) - i] PROVE w[m] = e
    <3>1. 0 \in 0..m - 1 /\ m - 0 = m /\ (n + 1) - 0 = n + 1
      BY <1>1
    <3> QED
      BY <1>2, <2>1, <3>1
  <2>2. ASSUME \A i \in 0..m - 1 : w[m - i] = a[(n + 1) - i], NEW i \in 0..(m - 1) - 1
        PROVE  f[(m - 1) - i] = o[n - i]
    <3>1. i \in 0..m - 2 /\ i + 1 \in 0..m - 1
      BY <1>1
    <3> QED
      BY <1>7, <1>8, <2>2, <3>1
  <2>3. ASSUME w[m] = e, \A i \in 0..(m - 1) - 1 : f[(m - 1) - i] = o[n - i], NEW j \in 0..m - 1
        PROVE  w[m - j] = a[(n + 1) - j]
    <3>1. CASE j = 0
      <4>1. m - j = m /\ (n + 1) - j = n + 1
        BY <1>1, <3>1
      <4> QED
        BY <1>2, <2>3, <4>1
    <3>2. CASE j # 0
      <4> DEFINE i == j - 1
      <4>1. i \in 0..m - 2 /\ i \in 0..(m - 1) - 1 /\ i + 1 = j
        BY <1>1, <3>2
      <4> HIDE DEF i
      <4>2. f[(m - 1) - i] = w[m - j] /\ a[(n + 1) - j] = o[n - i]
        BY <1>7, <1>8, <4>1
      <4> QED
        BY <2>3, <4>1, <4>2
    <3> QED
      BY <3>1, <3>2
  <2> QED
    BY <2>1, <2>2, <2>3
<1>9. m - 1 <= n <=> m <= n + 1
  BY <1>1
<1> QED
  BY <1>2, <1>3, <1>4, <1>5, <1>6, <1>8, <1>9 DEF m, n, f, a

=============================================================================
