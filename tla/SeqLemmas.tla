------------------------------ MODULE SeqLemmas ------------------------------
(***************************************************************************)
(* Lemmas about the operators that the models take from the community      *)
(* modules: the largest of a set of numbers, prefixes, and what FlattenSeq *)
(* computes, for sequences of any length.                                  *)
(***************************************************************************)
EXTENDS Integers, Sequences, SequencesExt, SequenceTheorems, FiniteSetTheorems,
        WellFoundedInduction, TLAPS

(* Induction over the naturals for a set, rather than for an operator: a   *)
(* set that is not all of Nat has no least number outside it.              *)
LEMMA NatSetInduction ==
    ASSUME NEW S, 0 \in S, \A n \in Nat : n \in S => n + 1 \in S
    PROVE  \A n \in Nat : n \in S
  <1> DEFINE T == Nat \ S
             R == OpToRel(<, Nat)
  <1> SUFFICES ASSUME T # {} PROVE FALSE
    OBVIOUS
  <1>1. IsWellFoundedOn(R, Nat)
    BY NatLessThanWellFounded
  <1>2. \A x, y \in Nat : x < y => <<x, y>> \in R
    BY DEF OpToRel
  <1> HIDE DEF R
  <1>3. PICK x \in T : \A y \in T : ~ (<<y, x>> \in R)
    BY <1>1, WFMin
  <1>4. x # 0 /\ x \in Nat
    OBVIOUS
  <1>5. x - 1 \in Nat /\ x - 1 < x
    BY <1>4
  <1>6. x - 1 \in S
    BY <1>2, <1>3, <1>4, <1>5
  <1> QED  BY <1>4, <1>5, <1>6

(* A bounded set of numbers that is not empty has a largest one.           *)
LEMMA MaxOfBounded ==
    ASSUME NEW n \in Nat, NEW S \in SUBSET (0 .. n), S # {}
    PROVE  Max(S) \in S /\ \A y \in S : y <= Max(S)
  <1> DEFINE A == {m \in Nat : \A T \in SUBSET (0 .. m) : T # {} => \E x \in T : \A y \in T : x >= y}
  <1>1. 0 \in A
    <2>1. ASSUME NEW T \in SUBSET (0 .. 0), T # {}
          PROVE  \E x \in T : \A y \in T : x >= y
      <3>1. \A y \in T : y \in 0 .. 0
        BY <2>1
      <3>2. \A y \in T : y = 0
        BY <3>1
      <3>3. PICK x \in T : TRUE
        BY <2>1
      <3> QED  BY <3>2, <3>3
    <2> QED  BY <2>1
  <1>2. ASSUME NEW m \in Nat, m \in A
        PROVE  m + 1 \in A
    <2>1. SUFFICES ASSUME NEW T \in SUBSET (0 .. m + 1), T # {}
                   PROVE  \E x \in T : \A y \in T : x >= y
      OBVIOUS
    <2>2. CASE m + 1 \in T
      BY <2>2
    <2>3. CASE m + 1 \notin T
      <3>1. T \in SUBSET (0 .. m)
        BY <2>3
      <3> QED  BY <1>2, <2>1, <3>1
    <2> QED  BY <2>2, <2>3
  <1> HIDE DEF A
  <1>3. n \in A
    BY <1>1, <1>2, NatSetInduction
  <1>4. \E x \in S : \A y \in S : x >= y
    BY <1>3 DEF A
  <1> QED  BY <1>4 DEF Max

-----------------------------------------------------------------------------
(* Prefixes.                                                               *)

(* What a concatenation holds, and its length.                             *)
LEMMA ConcatBegins ==
    ASSUME NEW S, NEW s \in Seq(S), NEW t \in Seq(S)
    PROVE  /\ s \o t \in Seq(S) /\ Len(s \o t) = Len(s) + Len(t)
           /\ Len(s) \in Nat /\ Len(t) \in Nat
           /\ \A i \in 1 .. Len(s) : (s \o t)[i] = s[i]
           /\ \A i \in 1 .. Len(t) : (s \o t)[Len(s) + i] = t[i]
  <1>1. Len(s) \in Nat /\ Len(t) \in Nat
    BY LenProperties
  <1>2. s \o t \in Seq(S) /\ Len(s \o t) = Len(s) + Len(t)
    BY ConcatProperties
  <1>3. \A i \in 1 .. Len(s) + Len(t) : (s \o t)[i] = IF i <= Len(s) THEN s[i] ELSE t[i - Len(s)]
    BY ConcatProperties
  <1>4. ASSUME NEW i \in 1 .. Len(s) PROVE (s \o t)[i] = s[i]
    BY <1>1, <1>3
  <1>5. ASSUME NEW i \in 1 .. Len(t) PROVE (s \o t)[Len(s) + i] = t[i]
    <2>1. Len(s) + i \in 1 .. Len(s) + Len(t) /\ ~(Len(s) + i <= Len(s)) /\ (Len(s) + i) - Len(s) = i
      BY <1>1
    <2> QED  BY <1>3, <2>1
  <1> QED  BY <1>1, <1>2, <1>4, <1>5

(* A sequence that is not empty is its head and what follows it.           *)
LEMMA HeadThenTail ==
    ASSUME NEW S, NEW s \in Seq(S), s # <<>>
    PROVE  <<Head(s)>> \o Tail(s) = s
  <1> DEFINE h == <<Head(s)>>
             t == Tail(s)
  <1>1. /\ Head(s) \in S /\ t \in Seq(S) /\ Len(t) = Len(s) - 1 /\ Len(s) \in Nat
        /\ Head(s) = s[1] /\ \A i \in 1 .. Len(t) : t[i] = s[i + 1]
    BY HeadTailProperties, LenProperties
  <1>2. h \in Seq(S) /\ Len(h) = 1 /\ h[1] = s[1]
    BY <1>1
  <1>3. Len(s) # 0
    BY EmptySeq
  <1> HIDE DEF h, t
  <1>4. /\ h \o t \in Seq(S) /\ Len(h \o t) = Len(h) + Len(t)
        /\ \A i \in 1 .. Len(h) : (h \o t)[i] = h[i]
        /\ \A i \in 1 .. Len(t) : (h \o t)[Len(h) + i] = t[i]
    BY <1>1, <1>2, ConcatBegins, SMTT(30)
  <1>5. Len(h \o t) = Len(s)
    BY <1>1, <1>2, <1>4
  <1>6. ASSUME NEW i \in 1 .. Len(s) PROVE (h \o t)[i] = s[i]
    <2>1. CASE i = 1
      BY <1>2, <1>4, <2>1
    <2>2. CASE i # 1
      <3>1. i - 1 \in 1 .. Len(t) /\ 1 + (i - 1) = i /\ (i - 1) + 1 = i
        BY <1>1, <2>2
      <3> QED  BY <1>1, <1>2, <1>4, <3>1
    <2> QED  BY <2>1, <2>2
  <1>7. h \o t = s
    BY <1>4, <1>5, <1>6, SeqEqual
  <1> QED  BY <1>7 DEF h, t

(* A sequence is a prefix of what it becomes when more is added.           *)
LEMMA ConcatIsPrefix ==
    ASSUME NEW S, NEW s \in Seq(S), NEW t \in Seq(S)
    PROVE  IsPrefix(s, s \o t)
  <1>1. SubSeq(s \o t, 1, Len(s)) = s
    BY SubSeqOfConcat1, SubSeqFull, ConcatBegins
  <1>2. SubSeq(s, 1, Len(s)) = s
    BY SubSeqFull
  <1> QED  BY <1>1, <1>2, ConcatBegins DEF IsPrefix

(* So is one that ends by what comes before and the last element.          *)
LEMMA FrontThenLast ==
    ASSUME NEW S, NEW s \in Seq(S), s # <<>>
    PROVE  /\ Front(s) \in Seq(S) /\ Len(Front(s)) = Len(s) - 1 /\ Len(s) \in Nat \ {0}
           /\ Last(s) \in S /\ Last(s) = s[Len(s)]
           /\ \A i \in 1 .. Len(s) - 1 : Front(s)[i] = s[i]
           /\ s = Append(Front(s), Last(s))
  <1> DEFINE v == Front(s)
             x == Last(s)
  <1>1. Len(s) \in Nat \ {0}
    BY EmptySeq, LenProperties
  <1>2. v \in Seq(S) /\ Len(v) = Len(s) - 1 /\ \A i \in 1 .. Len(s) - 1 : v[i] = s[i]
    <2>1. v = SubSeq(s, 1, Len(s) - 1)
      BY DEF Front
    <2>2. 1 \in 1 .. Len(s) + 1 /\ Len(s) - 1 \in 1 - 1 .. Len(s) /\ (Len(s) - 1) - 1 + 1 = Len(s) - 1
      BY <1>1
    <2>3. ASSUME NEW i \in 1 .. Len(s) - 1
          PROVE  SubSeq(s, 1, Len(s) - 1)[i] = s[i]
      BY <1>1, SMTT(30)
    <2>4. /\ SubSeq(s, 1, Len(s) - 1) \in Seq(S)
          /\ Len(SubSeq(s, 1, Len(s) - 1)) = Len(s) - 1
      <3> DEFINE n == Len(s) - 1
      <3>1. n \in Nat /\ n \in 0 .. Len(s) /\ \A i \in 1 .. n : s[i] \in S
        BY <1>1, ElementOfSeq
      <3> HIDE DEF n
      <3>2. SubSeq(s, 1, n) = [i \in 1 .. n |-> s[i]]
        BY <3>1
      <3>3. SubSeq(s, 1, n) \in Seq(S) /\ Len(SubSeq(s, 1, n)) = n
        BY <3>1, <3>2
      <3> QED  BY <3>3 DEF n
    <2> HIDE DEF v
    <2> QED  BY <2>1, <2>3, <2>4
  <1>3. x = s[Len(s)] /\ x \in S
    BY <1>1, ElementOfSeq DEF Last
  <1> HIDE DEF v, x
  <1>4. /\ Append(v, x) \in Seq(S) /\ Len(Append(v, x)) = Len(s)
        /\ \A i \in 1 .. Len(v) : Append(v, x)[i] = v[i]
        /\ Append(v, x)[Len(v) + 1] = x
    BY <1>1, <1>2, <1>3, AppendProperties
  <1>5. \A i \in 1 .. Len(s) : Append(v, x)[i] = s[i]
    BY <1>1, <1>2, <1>3, <1>4
  <1>6. Append(v, x) = s
    BY <1>4, <1>5, SeqEqual
  <1> QED  BY <1>1, <1>2, <1>3, <1>6 DEF v, x

(* A sequence is one over any set that has its elements.                   *)
LEMMA SeqOver ==
    ASSUME NEW S, NEW T, NEW s \in Seq(S), \A i \in 1 .. Len(s) : s[i] \in T
    PROVE  s \in Seq(T)
  <1>1. Len(s) \in Nat /\ s = [i \in 1 .. Len(s) |-> s[i]]
    OBVIOUS
  <1>2. s \in [1 .. Len(s) -> T]
    BY <1>1
  <1> QED  BY <1>1, <1>2

(* A prefix is followed by a rest.                                         *)
LEMMA PrefixSplits ==
    ASSUME NEW S, NEW s \in Seq(S), NEW t \in Seq(S), IsPrefix(s, t)
    PROVE  \E u \in Seq(S) : t = s \o u
  <1> DEFINE u == SubSeq(t, Len(s) + 1, Len(t))
  <1>1. Len(s) \in Nat /\ Len(t) \in Nat /\ Len(s) <= Len(t)
    BY LenProperties DEF IsPrefix
  <1>2. s = SubSeq(t, 1, Len(s))
    BY SubSeqFull DEF IsPrefix
  <1>3. SubSeq(t, 1, Len(s)) \o u = SubSeq(t, 1, Len(t))
    <2>1. 1 \in 1 .. Len(t) + 1 /\ Len(s) \in 1 - 1 .. Len(t) /\ Len(t) \in Len(s) .. Len(t)
      BY <1>1
    <2> HIDE DEF u
    <2>2. SubSeq(t, 1, Len(s)) \o SubSeq(t, Len(s) + 1, Len(t)) = SubSeq(t, 1, Len(t))
      BY <2>1, ConcatAdjacentSubSeq
    <2> QED  BY <2>2 DEF u
  <1>4. u \in Seq(S)
    BY <1>1, SubSeqProperties
  <1> QED  BY <1>2, <1>3, <1>4, SubSeqFull

(* A prefix of a prefix is a prefix.                                       *)
LEMMA PrefixTransitive ==
    ASSUME NEW S, NEW s \in Seq(S), NEW t \in Seq(S), NEW r \in Seq(S),
           IsPrefix(s, t), IsPrefix(t, r)
    PROVE  IsPrefix(s, r)
  <1>1. PICK u \in Seq(S) : t = s \o u
    BY PrefixSplits
  <1>2. PICK v \in Seq(S) : r = t \o v
    BY PrefixSplits
  <1>3. u \o v \in Seq(S) /\ r = s \o (u \o v)
    BY <1>1, <1>2, ConcatProperties, ConcatAssociative, SMTT(30)
  <1> QED  BY <1>3, ConcatIsPrefix

(* Appending to what follows is appending to the whole.                    *)
LEMMA AppendAfterConcat ==
    ASSUME NEW S, NEW s \in Seq(S), NEW t \in Seq(S), NEW x \in S
    PROVE  s \o Append(t, x) = Append(s \o t, x)
  <1> DEFINE u == <<x>>
  <1>1. u \in Seq(S) /\ s \o t \in Seq(S)
    BY ConcatProperties
  <1>2. Append(t, x) = t \o u /\ Append(s \o t, x) = (s \o t) \o u
    BY <1>1, AppendIsConcat
  <1> HIDE DEF u
  <1>3. (s \o t) \o u = s \o (t \o u)
    BY <1>1, ConcatAssociative, SMTT(30)
  <1> QED  BY <1>2, <1>3

(* What is appended to a prefix that stays one is the next element.        *)
LEMMA AppendedPrefix ==
    ASSUME NEW S, NEW s \in Seq(S), NEW t \in Seq(S), NEW x \in S,
           IsPrefix(Append(s, x), t)
    PROVE  Len(s) < Len(t) /\ x = t[Len(s) + 1]
  <1> DEFINE a == Append(s, x)
  <1>1. /\ a \in Seq(S) /\ Len(a) = Len(s) + 1 /\ a[Len(s) + 1] = x
        /\ Len(s) \in Nat
    BY AppendProperties, LenProperties
  <1> HIDE DEF a
  <1>2. PICK u \in Seq(S) : t = a \o u
    BY <1>1, PrefixSplits DEF a
  <1>3. /\ Len(t) = Len(a) + Len(u) /\ Len(u) \in Nat
        /\ \A i \in 1 .. Len(a) : t[i] = a[i]
    BY <1>1, <1>2, ConcatBegins
  <1>4. Len(s) + 1 \in 1 .. Len(a)
    BY <1>1
  <1>5. Len(s) < Len(t)
    BY <1>1, <1>3
  <1> QED  BY <1>1, <1>3, <1>4, <1>5

-----------------------------------------------------------------------------
(* FlattenSeq.  Flattens(f, s): f satisfies the recursive definition that  *)
(* FlattenSeq chooses its function by.                                     *)

Flattens(f, s) == f = [i \in 1 .. Len(s) |-> IF i = 1 THEN s[i] ELSE f[i - 1] \o s[i]]

(* There is a function that flattens the beginnings of s one after the     *)
(* other: the induction over its length is one over a set.                 *)
LEMMA FlattensExists ==
    ASSUME NEW S, NEW s \in Seq(Seq(S))
    PROVE  \E f \in [1 .. Len(s) -> Seq(S)] : Flattens(f, s)
  <1> DEFINE Upto(f, n) == f = [i \in 1 .. n |-> IF i = 1 THEN s[i] ELSE f[i - 1] \o s[i]]
             Reached(n) == \E f \in [1 .. n -> Seq(S)] : Upto(f, n)
             A == {n \in Nat : n <= Len(s) => Reached(n)}
  <1>0. Len(s) \in Nat /\ \A i \in 1 .. Len(s) : s[i] \in Seq(S)
    BY LenProperties, ElementOfSeq
  <1>1. 0 \in A
    <2>1. 1 .. 0 = {}
      OBVIOUS
    <2>2. [i \in {} |-> s[i]] \in [{} -> Seq(S)]
      OBVIOUS
    <2>3. Upto([i \in {} |-> s[i]], 0)
      BY <2>1
    <2>4. Reached(0)
      BY <2>1, <2>2, <2>3
    <2> QED  BY <2>4
  <1>2. ASSUME NEW n \in Nat, n \in A
        PROVE  n + 1 \in A
    <2> HIDE DEF Reached
    <2>1. SUFFICES ASSUME n + 1 <= Len(s)
                   PROVE  Reached(n + 1)
      OBVIOUS
    <2>0. Reached(n)
      BY <1>0, <1>2, <2>1
    <2>2. PICK f \in [1 .. n -> Seq(S)] : Upto(f, n)
      BY <2>0 DEF Reached
    <2> DEFINE last == IF n + 1 = 1 THEN s[n + 1] ELSE f[n] \o s[n + 1]
               g == [i \in 1 .. n + 1 |-> IF i = n + 1 THEN last ELSE f[i]]
    <2>3. s[n + 1] \in Seq(S)
      BY <1>0, <2>1
    <2>4. last \in Seq(S)
      <3>1. CASE n = 0
        BY <2>3, <3>1
      <3>2. CASE n # 0
        <4>1. f[n] \in Seq(S)
          BY <2>2, <3>2
        <4> QED  BY <2>3, <3>2, <4>1, ConcatProperties
      <3> QED  BY <3>1, <3>2
    <2> HIDE DEF last
    <2>5. g \in [1 .. n + 1 -> Seq(S)]
      <3>1. \A i \in 1 .. n : f[i] \in Seq(S)
        BY <2>2
      <3>2. \A i \in 1 .. n + 1 : i # n + 1 => i \in 1 .. n
        OBVIOUS
      <3>3. \A i \in 1 .. n + 1 : (IF i = n + 1 THEN last ELSE f[i]) \in Seq(S)
        BY <2>4, <3>1, <3>2
      <3> QED  BY <3>3
    <2>6. ASSUME NEW i \in 1 .. n + 1
          PROVE  g[i] = IF i = 1 THEN s[i] ELSE g[i - 1] \o s[i]
      <3>1. CASE i = n + 1
        BY <3>1 DEF last
      <3>2. CASE i \in 1 .. n
        <4>1. f[i] = IF i = 1 THEN s[i] ELSE f[i - 1] \o s[i]
          BY <2>2, <3>2
        <4>2. g[i] = f[i] /\ (i # 1 => g[i - 1] = f[i - 1])
          BY <3>2
        <4> QED  BY <4>1, <4>2
      <3> QED  BY <3>1, <3>2
    <2>7. Upto(g, n + 1)
      BY <2>6
    <2> QED  BY <2>5, <2>7 DEF Reached
  <1> HIDE DEF A
  <1>3. Len(s) \in A
    BY <1>0, <1>1, <1>2, NatSetInduction
  <1> HIDE DEF Reached
  <1>4. Reached(Len(s))
    BY <1>0, <1>3 DEF A
  <1>5. PICK f \in [1 .. Len(s) -> Seq(S)] : Upto(f, Len(s))
    BY <1>4 DEF Reached
  <1> QED  BY <1>5 DEF Flattens

(* There is only one such function.                                        *)
LEMMA FlattensUnique ==
    ASSUME NEW s, Len(s) \in Nat, NEW f, NEW g, Flattens(f, s), Flattens(g, s)
    PROVE  f = g
  <1> DEFINE A == {n \in Nat : n \in 1 .. Len(s) => f[n] = g[n]}
  <1>0. /\ \A i \in 1 .. Len(s) : f[i] = IF i = 1 THEN s[i] ELSE f[i - 1] \o s[i]
        /\ \A i \in 1 .. Len(s) : g[i] = IF i = 1 THEN s[i] ELSE g[i - 1] \o s[i]
    BY DEF Flattens
  <1>1. 0 \in A
    OBVIOUS
  <1>2. ASSUME NEW n \in Nat, n \in A
        PROVE  n + 1 \in A
    <2>1. SUFFICES ASSUME n + 1 \in 1 .. Len(s) PROVE f[n + 1] = g[n + 1]
      OBVIOUS
    <2>2. CASE n = 0
      BY <1>0, <2>1, <2>2
    <2>3. CASE n # 0
      <3>1. f[n] = g[n]
        BY <1>2, <2>1, <2>3
      <3>2. f[n + 1] = f[(n + 1) - 1] \o s[n + 1] /\ g[n + 1] = g[(n + 1) - 1] \o s[n + 1]
        <4>1. n + 1 \in 1 .. Len(s) /\ n + 1 # 1
          BY <2>1, <2>3
        <4> QED  BY <1>0, <4>1
      <3>3. (n + 1) - 1 = n
        OBVIOUS
      <3> QED  BY <3>1, <3>2, <3>3
    <2> QED  BY <2>2, <2>3
  <1> HIDE DEF A
  <1>3. \A n \in Nat : n \in A
    BY <1>1, <1>2, NatSetInduction
  <1>4. \A n \in 1 .. Len(s) : f[n] = g[n]
    BY <1>3 DEF A
  <1> QED  BY <1>4 DEF Flattens

(* FlattenSeq is the last value of the function with its equation.         *)
LEMMA FlattenSeqIs ==
    ASSUME NEW S, NEW s \in Seq(Seq(S)), s # <<>>, NEW f, Flattens(f, s)
    PROVE  FlattenSeq(s) = f[Len(s)]
  <1> DEFINE g == CHOOSE g : g = [i \in 1 .. Len(s) |-> IF i = 1 THEN s[i] ELSE g[i - 1] \o s[i]]
  <1>1. Len(s) \in Nat /\ Len(s) # 0
    BY EmptySeq
  <1>2. FlattenSeq(s) = g[Len(s)]
    BY <1>1 DEF FlattenSeq
  <1>3. g = [i \in 1 .. Len(s) |-> IF i = 1 THEN s[i] ELSE g[i - 1] \o s[i]]
    BY DEF Flattens
  <1> HIDE DEF g
  <1>4. Flattens(g, s)
    BY <1>3 DEF Flattens
  <1>5. f = g
    BY <1>1, <1>4, FlattensUnique
  <1> QED  BY <1>2, <1>5

(* Nothing flattened is nothing.                                           *)
LEMMA FlattenEmpty == FlattenSeq(<<>>) = <<>>
  BY DEF FlattenSeq

(* FlattenSeq of sequences over S is a sequence over S.                    *)
LEMMA FlattenType ==
    ASSUME NEW S, NEW s \in Seq(Seq(S))
    PROVE  FlattenSeq(s) \in Seq(S)
  <1>1. CASE s = <<>>
    BY <1>1, FlattenEmpty, EmptySeq
  <1>2. CASE s # <<>>
    <2>1. PICK f \in [1 .. Len(s) -> Seq(S)] : Flattens(f, s)
      BY FlattensExists
    <2>2. Len(s) \in 1 .. Len(s)
      BY <1>2, EmptySeq
    <2>3. FlattenSeq(s) = f[Len(s)]
      BY <1>2, <2>1, FlattenSeqIs
    <2>4. f[Len(s)] \in Seq(S)
      BY <2>1, <2>2
    <2> QED  BY <2>3, <2>4
  <1> QED  BY <1>1, <1>2

(* One more sequence adds its elements at the end.                         *)
LEMMA FlattenAppend ==
    ASSUME NEW S, NEW s \in Seq(Seq(S)), NEW x \in Seq(S)
    PROVE  FlattenSeq(Append(s, x)) = FlattenSeq(s) \o x
  <1> DEFINE t == Append(s, x)
  <1>1. /\ t \in Seq(Seq(S)) /\ t # <<>> /\ Len(t) = Len(s) + 1 /\ Len(s) \in Nat
        /\ \A i \in 1 .. Len(s) : t[i] = s[i]
        /\ t[Len(s) + 1] = x
    BY AppendProperties, LenProperties
  <1> HIDE DEF t
  <1>2. PICK f \in [1 .. Len(t) -> Seq(S)] : Flattens(f, t)
    BY <1>1, FlattensExists
  <1>3. FlattenSeq(t) = f[Len(t)]
    BY <1>1, <1>2, FlattenSeqIs
  <1>4. \A i \in 1 .. Len(t) : f[i] = IF i = 1 THEN t[i] ELSE f[i - 1] \o t[i]
    BY <1>2 DEF Flattens
  <1>5. CASE s = <<>>
    <2>1. Len(s) = 0
      BY <1>5
    <2>2. f[1] = t[1]
      BY <1>1, <1>4, <2>1
    <2>3. FlattenSeq(t) = x
      BY <1>1, <1>3, <2>1, <2>2
    <2> QED  BY <1>5, <2>3, FlattenEmpty, ConcatEmptySeq DEF t
  <1>6. CASE s # <<>>
    <2> DEFINE g == [i \in 1 .. Len(s) |-> f[i]]
    <2>1. Len(s) # 0
      BY <1>6, EmptySeq
    <2>2. \A i \in 1 .. Len(s) : g[i] = IF i = 1 THEN s[i] ELSE g[i - 1] \o s[i]
      <3>1. ASSUME NEW i \in 1 .. Len(s)
            PROVE  g[i] = IF i = 1 THEN s[i] ELSE g[i - 1] \o s[i]
        <4>1. i \in 1 .. Len(t) /\ t[i] = s[i]
          BY <1>1
        <4>2. i # 1 => i - 1 \in 1 .. Len(s)
          BY <1>1
        <4> QED  BY <1>4, <4>1, <4>2
      <3> QED  BY <3>1
    <2>3. Flattens(g, s)
      BY <2>2 DEF Flattens
    <2>4. FlattenSeq(s) = g[Len(s)]
      BY <1>6, <2>3, FlattenSeqIs
    <2>5. FlattenSeq(s) = f[Len(s)]
      BY <1>1, <2>1, <2>4
    <2>6. f[Len(s) + 1] = f[(Len(s) + 1) - 1] \o t[Len(s) + 1]
      <3>1. Len(s) + 1 \in 1 .. Len(t) /\ Len(s) + 1 # 1
        BY <1>1, <2>1
      <3> QED  BY <1>4, <3>1
    <2>7. (Len(s) + 1) - 1 = Len(s)
      BY <1>1
    <2> QED  BY <1>1, <1>3, <2>5, <2>6, <2>7 DEF t
  <1> QED  BY <1>5, <1>6

(* The same for the families of sequences that the models flatten.         *)
LEMMA FlattenGrows ==
    ASSUME NEW S, NEW n \in Nat, NEW r \in [1 .. n + 1 -> Seq(S)]
    PROVE  /\ FlattenSeq([i \in 1 .. n |-> r[i]]) \in Seq(S)
           /\ FlattenSeq(r) = FlattenSeq([i \in 1 .. n |-> r[i]]) \o r[n + 1]
  <1> DEFINE q == [i \in 1 .. n |-> r[i]]
             a == Append(q, r[n + 1])
  <1>1. r \in Seq(Seq(S)) /\ Len(r) = n + 1 /\ r[n + 1] \in Seq(S)
    OBVIOUS
  <1>2. \A i \in 1 .. n : r[i] \in Seq(S)
    OBVIOUS
  <1>3. q \in Seq(Seq(S)) /\ Len(q) = n /\ \A i \in 1 .. n : q[i] = r[i]
    BY <1>2
  <1> HIDE DEF q
  <1>4. /\ a \in Seq(Seq(S)) /\ Len(a) = n + 1
        /\ \A i \in 1 .. n : a[i] = q[i]
        /\ a[n + 1] = r[n + 1]
    BY <1>1, <1>3, AppendProperties
  <1>5. FlattenSeq(a) = FlattenSeq(q) \o r[n + 1] /\ FlattenSeq(q) \in Seq(S)
    BY <1>1, <1>3, FlattenAppend, FlattenType
  <1> HIDE DEF a
  <1>6. \A i \in 1 .. n + 1 : i = n + 1 \/ i \in 1 .. n
    OBVIOUS
  <1>7. \A i \in 1 .. n + 1 : r[i] = a[i]
    BY <1>3, <1>4, <1>6
  <1>8. r = a
    BY <1>1, <1>4, <1>7, SeqEqual
  <1> QED  BY <1>5, <1>8 DEF q

(* The first k of a family, flattened.                                     *)
Firsts(r, k) == FlattenSeq([i \in 1 .. k |-> r[i]])

(* One more of a family, flattened, is appended to those before it.        *)
LEMMA FirstsGrow ==
    ASSUME NEW S, NEW n \in Nat, NEW r \in [1 .. n -> Seq(S)], NEW k \in 0 .. n
    PROVE  /\ Firsts(r, k) \in Seq(S)
           /\ k < n => Firsts(r, k + 1) = Firsts(r, k) \o r[k + 1]
  <1> DEFINE q == [i \in 1 .. k |-> r[i]]
  <1>1. \A i \in 1 .. k : r[i] \in Seq(S)
    OBVIOUS
  <1>2. q \in Seq(Seq(S))
    BY <1>1
  <1>3. Firsts(r, k) \in Seq(S)
    <2> HIDE DEF q
    <2>1. FlattenSeq(q) \in Seq(S)
      BY <1>2, FlattenType
    <2> QED  BY <2>1 DEF Firsts, q
  <1>4. ASSUME k < n
        PROVE  Firsts(r, k + 1) = Firsts(r, k) \o r[k + 1]
    <2> DEFINE t == [i \in 1 .. k + 1 |-> r[i]]
    <2>1. \A i \in 1 .. k + 1 : r[i] \in Seq(S)
      BY <1>4
    <2>2. t \in [1 .. k + 1 -> Seq(S)] /\ k \in Nat /\ t[k + 1] = r[k + 1]
      BY <2>1
    <2>3. q = [i \in 1 .. k |-> t[i]]
      OBVIOUS
    <2> HIDE DEF q, t
    <2>4. FlattenSeq(t) = FlattenSeq(q) \o t[k + 1]
      BY <2>2, <2>3, FlattenGrows
    <2> QED  BY <2>2, <2>4 DEF Firsts, q, t
  <1> QED  BY <1>3, <1>4

(* More of them only add at the end.                                       *)
Begins(s, t) == Len(s) <= Len(t) /\ \A j \in 1 .. Len(s) : t[j] = s[j]

(* Fewer of a family, flattened, are a beginning of more.                  *)
LEMMA FirstsBegin ==
    ASSUME NEW S, NEW n \in Nat, NEW r \in [1 .. n -> Seq(S)], NEW m \in 0 .. n, NEW k \in 0 .. m
    PROVE  Begins(Firsts(r, k), Firsts(r, m))
  <1> DEFINE A == {i \in Nat : k <= i /\ i <= n => Begins(Firsts(r, k), Firsts(r, i))}
  <1>0. Firsts(r, k) \in Seq(S) /\ Len(Firsts(r, k)) \in Nat
    <2>1. k \in 0 .. n
      OBVIOUS
    <2> QED  BY <2>1, FirstsGrow, LenProperties
  <1>1. 0 \in A
    <2>1. k <= 0 => k = 0
      OBVIOUS
    <2> QED  BY <1>0, <2>1 DEF Begins
  <1>2. ASSUME NEW i \in Nat, i \in A
        PROVE  i + 1 \in A
    <2>1. SUFFICES ASSUME k <= i + 1, i + 1 <= n
                   PROVE  Begins(Firsts(r, k), Firsts(r, i + 1))
      OBVIOUS
    <2>2. CASE k = i + 1
      BY <1>0, <2>2 DEF Begins
    <2>3. CASE k <= i
      <3>1. Begins(Firsts(r, k), Firsts(r, i)) /\ i \in 0 .. n /\ i < n /\ i + 1 \in 1 .. n
        BY <1>2, <2>1, <2>3
      <3> DEFINE a == Firsts(r, i)
                 b == r[i + 1]
                 c == Firsts(r, k)
      <3> HIDE DEF a, b, c
      <3>2. a \in Seq(S) /\ b \in Seq(S) /\ Firsts(r, i + 1) = a \o b
        <4>1. Firsts(r, i) \in Seq(S) /\ Firsts(r, i + 1) = Firsts(r, i) \o r[i + 1]
          BY <3>1, FirstsGrow
        <4> QED  BY <3>1, <4>1 DEF a, b
      <3>3. c \in Seq(S) /\ Len(c) \in Nat /\ Len(c) <= Len(a) /\ \A j \in 1 .. Len(c) : a[j] = c[j]
        BY <1>0, <3>1 DEF a, c, Begins
      <3>4. /\ Len(a \o b) = Len(a) + Len(b) /\ Len(a) \in Nat /\ Len(b) \in Nat
            /\ \A j \in 1 .. Len(a) : (a \o b)[j] = a[j]
        BY <3>2, ConcatBegins, LenProperties
      <3>5. Len(c) <= Len(a \o b) /\ \A j \in 1 .. Len(c) : (a \o b)[j] = c[j]
        BY <3>3, <3>4
      <3> QED  BY <3>2, <3>5 DEF c, Begins
    <2> QED  BY <2>1, <2>2, <2>3
  <1> HIDE DEF A
  <1>3. m \in A
    <2>1. m \in Nat
      OBVIOUS
    <2> QED  BY <1>1, <1>2, <2>1, NatSetInduction
  <1> QED  BY <1>3 DEF A

(* Where one of them is found in the whole.                                *)
FoundAt(r, n, k) ==
    /\ Len(Firsts(r, k)) \in Nat /\ Len(r[k + 1]) \in Nat
    /\ Len(Firsts(r, k + 1)) = Len(Firsts(r, k)) + Len(r[k + 1])
    /\ Len(Firsts(r, k + 1)) <= Len(Firsts(r, n))
    /\ \A j \in 1 .. Len(r[k + 1]) : Firsts(r, n)[Len(Firsts(r, k)) + j] = r[k + 1][j]

(* Where the next of a family stands in the flattened whole.               *)
LEMMA FirstsAt ==
    ASSUME NEW S, NEW n \in Nat, NEW r \in [1 .. n -> Seq(S)], NEW k \in 0 .. n - 1
    PROVE  FoundAt(r, n, k)
  <1> DEFINE a == Firsts(r, k)
             b == r[k + 1]
             w == Firsts(r, n)
  <1>1. k \in 0 .. n /\ k < n /\ k + 1 \in 1 .. n /\ n \in 0 .. n /\ k + 1 \in 0 .. n
    OBVIOUS
  <1>2. a \in Seq(S) /\ b \in Seq(S) /\ Firsts(r, k + 1) = a \o b
    BY <1>1, FirstsGrow
  <1>3. Len(Firsts(r, k + 1)) <= Len(w) /\ \A j \in 1 .. Len(Firsts(r, k + 1)) : w[j] = Firsts(r, k + 1)[j]
    <2>1. Begins(Firsts(r, k + 1), Firsts(r, n))
      BY <1>1, FirstsBegin
    <2> QED  BY <2>1 DEF Begins
  <1> HIDE DEF a, b, w
  <1>4. /\ Len(a \o b) = Len(a) + Len(b) /\ Len(a) \in Nat /\ Len(b) \in Nat
        /\ \A j \in 1 .. Len(b) : (a \o b)[Len(a) + j] = b[j]
    BY <1>2, ConcatBegins, LenProperties
  <1>5. \A j \in 1 .. Len(b) : w[Len(a) + j] = b[j]
    <2>1. ASSUME NEW j \in 1 .. Len(b)
          PROVE  w[Len(a) + j] = b[j]
      <3>1. Len(a) + j \in 1 .. Len(a \o b)
        BY <1>4
      <3> QED  BY <1>2, <1>3, <1>4, <3>1
    <2> QED  BY <2>1
  <1> QED  BY <1>2, <1>3, <1>4, <1>5 DEF a, b, w, FoundAt

-----------------------------------------------------------------------------
(* The elements of s at the places P, in their order.                      *)
Pick(s, P) == FlattenSeq([i \in 1 .. Len(s) |-> IF i \in P THEN <<s[i]>> ELSE <<>>])

(* They are as many as the places, and no others.                          *)
LEMMA PickProperties ==
    ASSUME NEW S, NEW s \in Seq(S), NEW P \in SUBSET (1 .. Len(s))
    PROVE  /\ Pick(s, P) \in Seq(S)
           /\ Len(Pick(s, P)) = Cardinality(P)
           /\ \A i \in 1 .. Len(Pick(s, P)) : \E j \in P : Pick(s, P)[i] = s[j]
           /\ \A j \in P : \E i \in 1 .. Len(Pick(s, P)) : Pick(s, P)[i] = s[j]
  <1> DEFINE n == Len(s)
             r == [i \in 1 .. n |-> IF i \in P THEN <<s[i]>> ELSE <<>>]
             Upto(m) == P \cap 1 .. m
             F(m) == Firsts(r, m)
             Good(m) == /\ Len(F(m)) = Cardinality(Upto(m))
                        /\ \A i \in 1 .. Len(F(m)) : \E j \in Upto(m) : F(m)[i] = s[j]
                        /\ \A j \in Upto(m) : \E i \in 1 .. Len(F(m)) : F(m)[i] = s[j]
             A == {m \in Nat : m <= n => Good(m)}
  <1>1. n \in Nat /\ \A i \in 1 .. n : s[i] \in S
    BY LenProperties, ElementOfSeq
  <1>2. r \in [1 .. n -> Seq(S)]
    BY <1>1
  <1>3. \A i \in 1 .. n : r[i] = IF i \in P THEN <<s[i]>> ELSE <<>>
    OBVIOUS
  <1> HIDE DEF r, n
  <1>4. 0 \in A
    <2>1. F(0) = <<>>
      <3>1. [i \in 1 .. 0 |-> r[i]] = <<>>
        OBVIOUS
      <3> QED  BY <3>1, FlattenEmpty DEF Firsts
    <2>2. Upto(0) = {}
      OBVIOUS
    <2>3. Cardinality({}) = 0
      BY FS_EmptySet
    <2>4. Len(<<>>) = 0
      OBVIOUS
    <2>5. 1 .. 0 = {}
      OBVIOUS
    <2> QED  BY <2>1, <2>2, <2>3, <2>4, <2>5
  <1>5. ASSUME NEW m \in Nat, m \in A
        PROVE  m + 1 \in A
    <2> SUFFICES ASSUME m + 1 <= n PROVE Good(m + 1)
      OBVIOUS
    <2>0. m \in 0 .. n /\ m <= n /\ m < n /\ m + 1 \in 1 .. n
      BY <1>1, SMTT(30)
    <2>1. Good(m)
      <3> HIDE DEF Good
      <3> QED  BY <1>5, <2>0
    <2>2. F(m) \in Seq(S) /\ F(m + 1) = F(m) \o r[m + 1]
      <3> HIDE DEF Good, Upto
      <3>1. /\ Firsts(r, m) \in Seq(S)
            /\ m < n => Firsts(r, m + 1) = Firsts(r, m) \o r[m + 1]
        BY <1>1, <1>2, <2>0, FirstsGrow
      <3> QED  BY <2>0, <3>1
    <2>3. IsFiniteSet(Upto(m)) /\ Cardinality(Upto(m)) \in Nat
      <3>1. IsFiniteSet(1 .. m)
        BY FS_Interval
      <3>2. Upto(m) \in SUBSET (1 .. m)
        OBVIOUS
      <3> HIDE DEF Upto
      <3> QED  BY <3>1, <3>2, FS_Subset, FS_CardinalityType
    <2>4. CASE m + 1 \notin P
      <3>1. r[m + 1] = <<>>
        BY <1>3, <2>0, <2>4
      <3>2. F(m + 1) = F(m)
        BY <2>2, <3>1, ConcatEmptySeq
      <3>3. Upto(m + 1) = Upto(m)
        BY <2>4
      <3> QED  BY <2>1, <3>2, <3>3
    <2>5. CASE m + 1 \in P
      <3>1. r[m + 1] = <<s[m + 1]>> /\ s[m + 1] \in S
        BY <1>1, <1>3, <2>0, <2>5
      <3>2. F(m + 1) = Append(F(m), s[m + 1])
        BY <2>2, <3>1, AppendIsConcat
      <3>3. Upto(m + 1) = Upto(m) \cup {m + 1} /\ m + 1 \notin Upto(m)
        BY <2>5
      <3>4. Cardinality(Upto(m) \cup {m + 1}) = Cardinality(Upto(m)) + 1
        <4> HIDE DEF Upto
        <4> QED  BY <2>3, <3>3, FS_AddElement
      <3>5. /\ Len(F(m + 1)) = Len(F(m)) + 1 /\ Len(F(m)) \in Nat
            /\ \A i \in 1 .. Len(F(m)) : F(m + 1)[i] = F(m)[i]
            /\ F(m + 1)[Len(F(m)) + 1] = s[m + 1]
        BY <2>2, <3>1, <3>2, AppendProperties, LenProperties
      <3> HIDE DEF F, Upto
      <3>6. Len(F(m + 1)) = Cardinality(Upto(m + 1))
        BY <2>1, <3>3, <3>4, <3>5
      <3>7. \A i \in 1 .. Len(F(m + 1)) : \E j \in Upto(m + 1) : F(m + 1)[i] = s[j]
        <4>1. ASSUME NEW i \in 1 .. Len(F(m + 1))
              PROVE  \E j \in Upto(m + 1) : F(m + 1)[i] = s[j]
          <5>1. CASE i \in 1 .. Len(F(m))
            <6>1. PICK j \in Upto(m) : F(m)[i] = s[j]
              BY <2>1, <5>1
            <6> QED  BY <3>3, <3>5, <5>1, <6>1
          <5>2. CASE i \notin 1 .. Len(F(m))
            <6>1. i = Len(F(m)) + 1
              BY <3>5, <5>2
            <6> QED  BY <3>3, <3>5, <6>1
          <5> QED  BY <5>1, <5>2
        <4> QED  BY <4>1
      <3>8. \A j \in Upto(m + 1) : \E i \in 1 .. Len(F(m + 1)) : F(m + 1)[i] = s[j]
        <4>1. ASSUME NEW j \in Upto(m) PROVE \E i \in 1 .. Len(F(m + 1)) : F(m + 1)[i] = s[j]
          <5>1. PICK i \in 1 .. Len(F(m)) : F(m)[i] = s[j]
            BY <2>1
          <5>2. i \in 1 .. Len(F(m + 1)) /\ F(m + 1)[i] = s[j]
            BY <3>5, <5>1
          <5> QED  BY <5>2
        <4>2. Len(F(m)) + 1 \in 1 .. Len(F(m + 1))
          BY <3>5
        <4> QED  BY <3>3, <3>5, <4>1, <4>2
      <3> QED  BY <3>6, <3>7, <3>8
    <2> QED  BY <2>4, <2>5
  <1> HIDE DEF A
  <1>6. n \in A
    BY <1>1, <1>4, <1>5, NatSetInduction
  <1>7. Good(n)
    <2> HIDE DEF Good
    <2>1. n <= n => Good(n)
      BY <1>6 DEF A
    <2> QED  BY <1>1, <2>1
  <1>8. F(n) = Pick(s, P)
    <2>1. [i \in 1 .. n |-> r[i]] = r
      BY <1>2
    <2> QED  BY <2>1 DEF Firsts, Pick, r, n
  <1>9. Upto(n) = P
    BY DEF n
  <1>10. F(n) \in Seq(S)
    <2>1. n \in 0 .. n
      BY <1>1
    <2> QED  BY <1>1, <1>2, <2>1, FirstsGrow
  <1> HIDE DEF F, Upto
  <1> QED  BY <1>7, <1>8, <1>9, <1>10

(* Flattening a concatenation flattens its parts.                          *)
LEMMA FlattenConcat ==
    ASSUME NEW S, NEW s \in Seq(Seq(S)), NEW t \in Seq(Seq(S))
    PROVE  FlattenSeq(s \o t) = FlattenSeq(s) \o FlattenSeq(t)
  <1> DEFINE A == {n \in Nat : \A u \in Seq(Seq(S)) :
                      Len(u) = n => FlattenSeq(s \o u) = FlattenSeq(s) \o FlattenSeq(u)}
  <1>0. FlattenSeq(s) \in Seq(S)
    BY FlattenType
  <1>1. 0 \in A
    <2>1. ASSUME NEW u \in Seq(Seq(S)), Len(u) = 0
          PROVE  FlattenSeq(s \o u) = FlattenSeq(s) \o FlattenSeq(u)
      <3>1. u = <<>>
        BY <2>1, EmptySeq
      <3>2. s \o <<>> = s
        BY ConcatEmptySeq
      <3>3. FlattenSeq(s) \o <<>> = FlattenSeq(s)
        BY <1>0, ConcatEmptySeq
      <3> QED  BY <3>1, <3>2, <3>3, FlattenEmpty
    <2> QED  BY <2>1
  <1>2. ASSUME NEW n \in Nat, n \in A
        PROVE  n + 1 \in A
    <2>1. ASSUME NEW u \in Seq(Seq(S)), Len(u) = n + 1
          PROVE  FlattenSeq(s \o u) = FlattenSeq(s) \o FlattenSeq(u)
      <3> DEFINE v == Front(u)
                 x == Last(u)
      <3>1. u # <<>>
        BY <2>1
      <3>2. v \in Seq(Seq(S)) /\ Len(v) = n /\ x \in Seq(S) /\ u = Append(v, x)
        <4> DEFINE T == Seq(S)
        <4>1. u \in Seq(T)
          BY <2>1
        <4> HIDE DEF T
        <4>2. v \in Seq(T) /\ Len(v) = Len(u) - 1 /\ x \in T /\ u = Append(v, x)
          BY <3>1, <4>1, FrontThenLast
        <4> QED  BY <2>1, <4>2 DEF T
      <3> HIDE DEF v, x
      <3>3. s \o u = Append(s \o v, x) /\ s \o v \in Seq(Seq(S))
        <4>1. <<x>> \in Seq(Seq(S)) /\ s \o v \in Seq(Seq(S))
          BY <3>2, ConcatProperties
        <4>2. u = v \o <<x>>
          BY <3>2, AppendIsConcat
        <4>3. Append(s \o v, x) = (s \o v) \o <<x>>
          BY <3>2, <4>1, AppendIsConcat
        <4>5. (s \o v) \o <<x>> = s \o (v \o <<x>>)
          <5> DEFINE T == Seq(S)
                     w == <<x>>
          <5>1. s \in Seq(T) /\ v \in Seq(T) /\ w \in Seq(T)
            BY <3>2, <4>1
          <5> HIDE DEF T, w
          <5>2. \A e, f, g \in Seq(T) : (e \o f) \o g = e \o (f \o g)
            BY ConcatAssociative, SMTT(40)
          <5>3. (s \o v) \o w = s \o (v \o w)
            BY <5>1, <5>2
          <5> QED  BY <5>3 DEF w
        <4> QED  BY <4>1, <4>2, <4>3, <4>5
      <3>4. FlattenSeq(s \o u) = FlattenSeq(s \o v) \o x
        BY <3>2, <3>3, FlattenAppend
      <3>5. FlattenSeq(s \o v) = FlattenSeq(s) \o FlattenSeq(v)
        BY <1>2, <3>2
      <3>6. FlattenSeq(u) = FlattenSeq(v) \o x /\ FlattenSeq(v) \in Seq(S)
        BY <3>2, FlattenAppend, FlattenType
      <3>7. (FlattenSeq(s) \o FlattenSeq(v)) \o x = FlattenSeq(s) \o (FlattenSeq(v) \o x)
        <4> DEFINE c == FlattenSeq(s)
                   d == FlattenSeq(v)
        <4>1. c \in Seq(S) /\ d \in Seq(S) /\ x \in Seq(S)
          BY <1>0, <3>2, <3>6
        <4> HIDE DEF c, d
        <4>2. \A e, f, g \in Seq(S) : (e \o f) \o g = e \o (f \o g)
          BY ConcatAssociative, SMTT(40)
        <4>3. (c \o d) \o x = c \o (d \o x)
          BY <4>1, <4>2
        <4> QED  BY <4>3 DEF c, d
      <3> QED  BY <3>4, <3>5, <3>6, <3>7
    <2> QED  BY <2>1
  <1> HIDE DEF A
  <1>3. Len(t) \in A
    BY <1>1, <1>2, NatSetInduction, LenProperties
  <1> QED  BY <1>3 DEF A
=============================================================================
