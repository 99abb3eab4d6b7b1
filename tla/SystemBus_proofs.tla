-------------------------- MODULE SystemBus_proofs --------------------------
EXTENDS SystemBus, SequenceTheorems, WellFoundedInduction, NaturalsInduction, TLAPS

-----------------------------------------------------------------------------
(* Induction.                                                               *)

\* Induction over the numbers, for a set of them: a set that has each number all of
\* whose predecessors it has, has them all.  (A set without a number has a least one
\* that it is without.)
LEMMA StrongSetInduction ==
    ASSUME NEW T, \A n \in Nat : (\A m \in Nat : m < n => m \in T) => n \in T
    PROVE  \A n \in Nat : n \in T
<1>1. SUFFICES ASSUME Nat \ T # {} PROVE FALSE
  OBVIOUS
<1>2. PICK n \in Nat \ T : \A y \in Nat \ T : ~(<<y, n>> \in OpToRel(<, Nat))
  <2>1. IsWellFoundedOn(OpToRel(<, Nat), Nat)
    BY NatLessThanWellFounded
  <2> HIDE DEF OpToRel
  <2>2. Nat \ T \subseteq Nat
    OBVIOUS
  <2> QED  BY <1>1, <2>1, <2>2, WFMin, Zenon
<1>3. \A y \in Nat \ T : ~(y < n)
  BY <1>2 DEF OpToRel
<1> QED  BY <1>3

\* The same from each number to the next.
LEMMA SetInduction ==
    ASSUME NEW T, 0 \in T, \A n \in Nat : n \in T => n + 1 \in T
    PROVE  \A n \in Nat : n \in T
<1>1. ASSUME NEW n \in Nat, \A m \in Nat : m < n => m \in T
      PROVE  n \in T
  <2>1. CASE n = 0
    BY <2>1
  <2>2. CASE n # 0
    <3>1. n - 1 \in Nat /\ n - 1 < n /\ (n - 1) + 1 = n
      BY <2>2
    <3> QED  BY <3>1, <1>1
  <2> QED  BY <2>1, <2>2
<1> QED  BY <1>1, StrongSetInduction

\* Append, under a name the provers leave as it is.
App(s, x) == Append(s, x)

\* Induction over sequences, from each to a longer one.
LEMMA SeqInduction ==
    ASSUME NEW A, NEW T, <<>> \in T, \A s \in Seq(A), x \in A : s \in T => App(s, x) \in T
    PROVE  \A s \in Seq(A) : s \in T
<1> DEFINE N == {n \in Nat : \A s \in Seq(A) : Len(s) = n => s \in T}
<1>1. 0 \in N
  BY EmptySeq
<1>2. ASSUME NEW n \in Nat, n \in N PROVE n + 1 \in N
  <2> SUFFICES ASSUME NEW s \in Seq(A), Len(s) = n + 1 PROVE s \in T
    OBVIOUS
  <2>1. s # <<>>
    BY EmptySeq
  <2>2. PICK r \in Seq(A), x \in A : s = App(r, x)
    BY <2>1, SequenceEmptyOrAppend DEF App
  <2>3. Len(r) = n
    BY <2>2, AppendProperties, LenProperties DEF App
  <2> QED BY <1>2, <2>2, <2>3
<1> HIDE DEF N
<1>3. \A n \in Nat : n \in N
  BY <1>1, <1>2, SetInduction
<1> QED BY <1>3, LenProperties DEF N

-----------------------------------------------------------------------------
(* Sequences and their elements.                                            *)

\* The elements of a sequence, by their places.
LEMMA SetOfSeq ==
    ASSUME NEW A, NEW s \in Seq(A)
    PROVE  /\ ToSet(s) = {s[i] : i \in 1..Len(s)} /\ ToSet(s) \subseteq A
           /\ \A i \in 1..Len(s) : s[i] \in ToSet(s)
           /\ IsInjective(s) <=> \A i, j \in 1..Len(s) : s[i] = s[j] => i = j
<1>1. DOMAIN s = 1..Len(s)
  BY LenProperties
<1>2. \A i \in 1..Len(s) : s[i] \in A
  BY ElementOfSeq
<1> QED BY <1>1, <1>2 DEF ToSet, IsInjective

\* The empty sequence has none.
LEMMA SetOfEmpty == ToSet(<<>>) = {} /\ IsInjective(<<>>)
<1>1. <<>> \in Seq({}) /\ Len(<<>>) = 0 /\ 1..0 = {}
  BY EmptySeq
<1> QED BY <1>1, SetOfSeq

\* The elements of two sequences, one behind the other.
LEMMA SetOfConcat ==
    ASSUME NEW A, NEW s \in Seq(A), NEW t \in Seq(A)
    PROVE  /\ s \o t \in Seq(A) /\ ToSet(s \o t) = ToSet(s) \cup ToSet(t)
           /\ IsInjective(s \o t) <=>
                 IsInjective(s) /\ IsInjective(t) /\ ToSet(s) \cap ToSet(t) = {}
<1>0. PICK u : u = s \o t
  OBVIOUS
<1> PICK m \in Nat, n \in Nat : m = Len(s) /\ n = Len(t)
  BY LenProperties
<1>1. /\ u \in Seq(A) /\ Len(u) = m + n
      /\ \A i \in 1..m + n : u[i] = IF i <= m THEN s[i] ELSE t[i - m]
  BY <1>0, ConcatProperties
<1>2. /\ \A i \in 1..m : i \in 1..m + n /\ u[i] = s[i]
      /\ \A i \in 1..n : i + m \in 1..m + n /\ u[i + m] = t[i]
      /\ \A i \in 1..m + n : \/ i \in 1..m /\ u[i] = s[i]
                             \/ i - m \in 1..n /\ u[i] = t[i - m]
  <2>1. \A i \in 1..m : i \in 1..m + n /\ u[i] = s[i]
    BY <1>1
  <2>2. ASSUME NEW i \in 1..n PROVE i + m \in 1..m + n /\ u[i + m] = t[i]
    <3>1. PICK j \in Int : j = i + m /\ j \in 1..m + n /\ ~(j <= m) /\ j - m = i
      OBVIOUS
    <3> QED BY <1>1, <3>1
  <2>3. \A i \in 1..m + n : \/ i \in 1..m /\ u[i] = s[i]
                            \/ i - m \in 1..n /\ u[i] = t[i - m]
    BY <1>1
  <2> QED BY <2>1, <2>2, <2>3
<1>3. /\ ToSet(s) = {s[i] : i \in 1..m} /\ ToSet(t) = {t[i] : i \in 1..n}
      /\ ToSet(u) = {u[i] : i \in 1..m + n}
      /\ IsInjective(s) <=> \A i, j \in 1..m : s[i] = s[j] => i = j
      /\ IsInjective(t) <=> \A i, j \in 1..n : t[i] = t[j] => i = j
      /\ IsInjective(u) <=> \A i, j \in 1..m + n : u[i] = u[j] => i = j
  <2>1. /\ ToSet(s) = {s[i] : i \in 1..m}
        /\ IsInjective(s) <=> \A i, j \in 1..m : s[i] = s[j] => i = j
    BY SetOfSeq
  <2>2. /\ ToSet(t) = {t[i] : i \in 1..n}
        /\ IsInjective(t) <=> \A i, j \in 1..n : t[i] = t[j] => i = j
    BY SetOfSeq
  <2>3. /\ ToSet(u) = {u[i] : i \in 1..Len(u)}
        /\ IsInjective(u) <=> \A i, j \in 1..Len(u) : u[i] = u[j] => i = j
    BY <1>1, SetOfSeq
  <2> QED BY <1>1, <2>1, <2>2, <2>3
<1>4. ToSet(u) = ToSet(s) \cup ToSet(t)
  <2>1. {s[i] : i \in 1..m} \subseteq {u[i] : i \in 1..m + n}
    BY <1>2
  <2>2. {t[i] : i \in 1..n} \subseteq {u[i] : i \in 1..m + n}
    BY <1>2
  <2>3. {u[i] : i \in 1..m + n} \subseteq {s[i] : i \in 1..m} \cup {t[i] : i \in 1..n}
    BY <1>2
  <2> QED BY <1>3, <2>1, <2>2, <2>3
<1>5. ASSUME IsInjective(u) PROVE IsInjective(s) /\ IsInjective(t) /\ ToSet(s) \cap ToSet(t) = {}
  <2>1. IsInjective(s)
    BY <1>2, <1>3, <1>5
  <2>2. ASSUME NEW i \in 1..n, NEW j \in 1..n, t[i] = t[j] PROVE i = j
    <3>1. i + m \in 1..m + n /\ j + m \in 1..m + n /\ u[i + m] = u[j + m]
      BY <1>2, <2>2
    <3>2. i + m = j + m
      BY <1>3, <1>5, <3>1
    <3> QED BY <3>2
  <2>3. ASSUME NEW i \in 1..m, NEW j \in 1..n, s[i] = t[j] PROVE FALSE
    <3>1. i \in 1..m + n /\ j + m \in 1..m + n /\ u[i] = u[j + m]
      BY <1>2, <2>3
    <3>2. i = j + m
      BY <1>3, <1>5, <3>1
    <3> QED BY <3>2
  <2> QED BY <1>3, <2>1, <2>2, <2>3
<1>6. ASSUME IsInjective(s), IsInjective(t), ToSet(s) \cap ToSet(t) = {} PROVE IsInjective(u)
  <2> SUFFICES ASSUME NEW i \in 1..m + n, NEW j \in 1..m + n, u[i] = u[j] PROVE i = j
    BY <1>3
  <2>1. CASE i <= m /\ j <= m
    BY <1>1, <1>3, <1>6, <2>1
  <2>2. CASE i > m /\ j > m
    <3>1. i - m \in 1..n /\ j - m \in 1..n /\ t[i - m] = t[j - m]
      BY <1>1, <2>2
    <3>2. i - m = j - m
      BY <1>3, <1>6, <3>1
    <3> QED BY <3>2
  <2>3. CASE i <= m /\ j > m
    <3>1. i \in 1..m /\ j - m \in 1..n /\ s[i] = t[j - m]
      BY <1>1, <2>3
    <3>2. s[i] \in ToSet(s) /\ t[j - m] \in ToSet(t)
      BY <1>3, <3>1
    <3> QED BY <1>6, <3>1, <3>2
  <2>4. CASE i > m /\ j <= m
    <3>1. j \in 1..m /\ i - m \in 1..n /\ s[j] = t[i - m]
      BY <1>1, <2>4
    <3>2. s[j] \in ToSet(s) /\ t[i - m] \in ToSet(t)
      BY <1>3, <3>1
    <3> QED BY <1>6, <3>1, <3>2
  <2> QED BY <2>1, <2>2, <2>3, <2>4
<1> QED BY <1>0, <1>1, <1>4, <1>5, <1>6

\* The elements of a sequence and one more.
LEMMA SetOfAppend ==
    ASSUME NEW A, NEW s \in Seq(A), NEW x \in A
    PROVE  /\ App(s, x) \in Seq(A)
           /\ ToSet(App(s, x)) = ToSet(s) \cup {x}
           /\ IsInjective(App(s, x)) <=> IsInjective(s) /\ x \notin ToSet(s)
<1>0. PICK q : q = <<x>>
  OBVIOUS
<1>1. q \in Seq(A) /\ Len(q) = 1 /\ q[1] = x
  BY <1>0
<1>2. ToSet(q) = {x} /\ IsInjective(q)
  <2>1. /\ ToSet(q) = {q[i] : i \in 1..Len(q)}
        /\ IsInjective(q) <=> \A i, j \in 1..Len(q) : q[i] = q[j] => i = j
    BY <1>1, SetOfSeq
  <2>2. 1..Len(q) = {1}
    BY <1>1
  <2> QED BY <1>1, <2>1, <2>2
<1>3. App(s, x) = s \o q
  BY <1>0, AppendIsConcat DEF App
<1>4. /\ s \o q \in Seq(A) /\ ToSet(s \o q) = ToSet(s) \cup ToSet(q)
      /\ IsInjective(s \o q) <=>
            IsInjective(s) /\ IsInjective(q) /\ ToSet(s) \cap ToSet(q) = {}
  BY <1>1, SetOfConcat
<1> QED BY <1>0, <1>1, <1>2, <1>3, <1>4

\* What is appended to two sequences is appended to the last.
LEMMA AppendToConcat ==
    ASSUME NEW A, NEW s \in Seq(A), NEW t \in Seq(A), NEW x \in A
    PROVE  s \o App(t, x) = App(s \o t, x)
<1>1. s \o t \in Seq(A) /\ <<x>> \in Seq(A)
  BY SetOfConcat
<1>2. App(t, x) = t \o <<x>> /\ App(s \o t, x) = (s \o t) \o <<x>>
  BY <1>1, AppendIsConcat DEF App
<1> QED BY <1>1, <1>2, ConcatAssociative

-----------------------------------------------------------------------------
(* Split(), Only() and FlattenSeq(), which are functions over the places of  *)
(* a sequence, from a sequence to a longer one.                              *)

\* What one more byte makes of a split.
Step(p, byte) ==
    LET rest == App(p.rest, byte) IN
    IF Whole(rest) THEN [whole |-> App(p.whole, rest), rest |-> <<>>]
                   ELSE [whole |-> p.whole, rest |-> rest]

SplitUpTo(b) == CHOOSE g : g = [i \in 0..Len(b) |->
    IF i = 0 THEN [whole |-> <<>>, rest |-> <<>>] ELSE Step(g[i - 1], b[i])]

\* The function behind Split() exists, and goes byte by byte.
LEMMA SplitFunction ==
    ASSUME NEW b \in Seq(Nat)
    PROVE  /\ Split(b) = SplitUpTo(b)[Len(b)]
           /\ SplitUpTo(b)[0] = [whole |-> <<>>, rest |-> <<>>]
           /\ \A i \in 1..Len(b) : SplitUpTo(b)[i] = Step(SplitUpTo(b)[i - 1], b[i])
<1> DEFINE Body(g, i) == IF i = 0 THEN [whole |-> <<>>, rest |-> <<>>] ELSE Step(g[i - 1], b[i])
<1>0. Split(b) = SplitUpTo(b)[Len(b)]
  BY DEF Split, SplitUpTo, Step, App
<1> PICK l \in Nat : l = Len(b)
  BY LenProperties
<1>1. \E g : g = [i \in 0..l |-> Body(g, i)]
  <2> DEFINE Upto(g, d) == /\ g = [i \in 0..l |-> g[i]]
                           /\ \A i \in 0..l : i <= d => g[i] = Body(g, i)
             T == {d \in Nat : \E g : Upto(g, d)}
  <2>1. 0 \in T
    <3> DEFINE g == [i \in 0..l |-> [whole |-> <<>>, rest |-> <<>>]]
    <3>1. \A i \in 0..l : i <= 0 => i = 0 /\ g[i] = [whole |-> <<>>, rest |-> <<>>]
      OBVIOUS
    <3>2. g = [i \in 0..l |-> g[i]]
      OBVIOUS
    <3> HIDE DEF g
    <3>3. Upto(g, 0)
      BY <3>1, <3>2
    <3> QED BY <3>3
  <2>2. ASSUME NEW d \in Nat, d \in T PROVE d + 1 \in T
    <3>1. PICK g : Upto(g, d)
      BY <2>2
    <3> DEFINE h == [i \in 0..l |-> Body(g, i)]
    <3>2. \A i \in 0..l : i <= d => h[i] = g[i]
      BY <3>1
    <3>3. ASSUME NEW i \in 0..l, i <= d + 1 PROVE h[i] = Body(h, i)
      <4>1. CASE i = 0
        BY <4>1
      <4>2. CASE i # 0
        <5>1. i - 1 \in 0..l /\ i - 1 <= d
          BY <3>3, <4>2
        <5>2. h[i - 1] = g[i - 1]
          BY <3>2, <5>1
        <5> QED BY <4>2, <5>2
      <4> QED BY <4>1, <4>2
    <3>4. h = [i \in 0..l |-> h[i]]
      OBVIOUS
    <3> HIDE DEF h
    <3>5. Upto(h, d + 1)
      BY <3>3, <3>4
    <3> QED BY <3>5, d + 1 \in Nat
  <2> HIDE DEF T
  <2>3. l \in T
    BY <2>1, <2>2, SetInduction
  <2>4. PICK g : Upto(g, l)
    BY <2>3 DEF T
  <2>5. \A i \in 0..l : g[i] = Body(g, i)
    <3>1. \A i \in 0..l : i <= l
      OBVIOUS
    <3> QED BY <2>4, <3>1
  <2>6. g = [i \in 0..l |-> Body(g, i)]
    BY <2>4, <2>5
  <2> QED BY <2>6
<1>2. SplitUpTo(b) = [i \in 0..l |-> Body(SplitUpTo(b), i)]
  BY <1>1 DEF SplitUpTo
<1>3. SplitUpTo(b)[0] = [whole |-> <<>>, rest |-> <<>>]
  <2>1. 0 \in 0..l
    OBVIOUS
  <2> QED BY <1>2, <2>1
<1>4. ASSUME NEW i \in 1..l PROVE SplitUpTo(b)[i] = Step(SplitUpTo(b)[i - 1], b[i])
  <2>1. i \in 0..l /\ i # 0
    OBVIOUS
  <2>2. SplitUpTo(b)[i] = Body(SplitUpTo(b), i)
    BY <1>2, <2>1
  <2> QED BY <2>1, <2>2
<1> QED BY <1>0, <1>3, <1>4

\* Split() of nothing.
LEMMA SplitEmpty == Split(<<>>) = [whole |-> <<>>, rest |-> <<>>]
BY SplitFunction, EmptySeq

\* Split() of one byte more.
LEMMA SplitAppend == \A b \in Seq(Nat), x \in Nat : Split(App(b, x)) = Step(Split(b), x)
<1>2. ASSUME NEW b \in Seq(Nat), NEW x \in Nat PROVE Split(App(b, x)) = Step(Split(b), x)
  <2>1. PICK c : c = App(b, x)
    OBVIOUS
  <2>2. PICK l \in Nat, k \in Nat : l = Len(b) /\ k = l + 1
    BY LenProperties
  <2>3. /\ c \in Seq(Nat) /\ Len(c) = k /\ c[k] = x /\ \A i \in 1..l : c[i] = b[i]
    BY <2>1, <2>2, AppendProperties DEF App
  <2>4. PICK f, g : f = SplitUpTo(b) /\ g = SplitUpTo(c)
    OBVIOUS
  <2>5. /\ Split(b) = f[l] /\ f[0] = [whole |-> <<>>, rest |-> <<>>]
        /\ \A i \in 1..l : f[i] = Step(f[i - 1], b[i])
    BY <2>2, <2>4, SplitFunction
  <2>6. /\ Split(c) = g[k] /\ g[0] = [whole |-> <<>>, rest |-> <<>>]
        /\ \A i \in 1..k : g[i] = Step(g[i - 1], c[i])
    BY <2>3, <2>4, SplitFunction
  <2> DEFINE T == {i \in Nat : i <= l => g[i] = f[i]}
  <2>7. 0 \in T
    BY <2>5, <2>6
  <2>8. ASSUME NEW i \in Nat, i \in T PROVE i + 1 \in T
    <3> SUFFICES ASSUME i + 1 <= l PROVE g[i + 1] = f[i + 1]
      OBVIOUS
    <3> PICK j \in Nat : j = i + 1
      OBVIOUS
    <3>1. j \in 1..l /\ j \in 1..k /\ j - 1 = i /\ i <= l
      BY <2>2
    <3>2. g[j] = Step(g[i], c[j]) /\ f[j] = Step(f[i], b[j]) /\ c[j] = b[j]
      BY <2>3, <2>5, <2>6, <3>1
    <3> QED BY <2>8, <3>1, <3>2
  <2> HIDE DEF T
  <2>9. l \in T
    BY <2>7, <2>8, SetInduction
  <2>10. g[l] = f[l]
    BY <2>9 DEF T
  <2>11. g[k] = Step(g[l], c[k])
    <3>1. k \in 1..k /\ k - 1 = l
      BY <2>2
    <3> QED BY <2>6, <3>1
  <2> QED BY <2>1, <2>3, <2>5, <2>6, <2>10, <2>11
<1> QED BY <1>2

OnlyUpTo(seq, S) == CHOOSE g : g = [i \in 0..Len(seq) |->
    IF i = 0 THEN <<>> ELSE IF seq[i] \in S THEN App(g[i - 1], seq[i]) ELSE g[i - 1]]

\* The function behind Only() exists.
LEMMA OnlyFunction ==
    ASSUME NEW A, NEW seq \in Seq(A), NEW S
    PROVE  /\ Only(seq, S) = OnlyUpTo(seq, S)[Len(seq)]
           /\ OnlyUpTo(seq, S)[0] = <<>>
           /\ \A i \in 1..Len(seq) :
                 OnlyUpTo(seq, S)[i] = IF seq[i] \in S THEN App(OnlyUpTo(seq, S)[i - 1], seq[i])
                                                       ELSE OnlyUpTo(seq, S)[i - 1]
<1> DEFINE Body(g, i) ==
        IF i = 0 THEN <<>> ELSE IF seq[i] \in S THEN App(g[i - 1], seq[i]) ELSE g[i - 1]
<1>0. Only(seq, S) = OnlyUpTo(seq, S)[Len(seq)]
  BY DEF Only, OnlyUpTo, App
<1> PICK l \in Nat : l = Len(seq)
  BY LenProperties
<1>1. \E g : g = [i \in 0..l |-> Body(g, i)]
  <2> DEFINE Upto(g, d) == /\ g = [i \in 0..l |-> g[i]]
                           /\ \A i \in 0..l : i <= d => g[i] = Body(g, i)
             T == {d \in Nat : \E g : Upto(g, d)}
  <2>1. 0 \in T
    <3> DEFINE g == [i \in 0..l |-> <<>>]
    <3>1. \A i \in 0..l : i <= 0 => i = 0 /\ g[i] = <<>>
      OBVIOUS
    <3>2. g = [i \in 0..l |-> g[i]]
      OBVIOUS
    <3> HIDE DEF g
    <3>3. Upto(g, 0)
      BY <3>1, <3>2
    <3> QED BY <3>3
  <2>2. ASSUME NEW d \in Nat, d \in T PROVE d + 1 \in T
    <3>1. PICK g : Upto(g, d)
      BY <2>2
    <3> DEFINE h == [i \in 0..l |-> Body(g, i)]
    <3>2. \A i \in 0..l : i <= d => h[i] = g[i]
      BY <3>1
    <3>3. ASSUME NEW i \in 0..l, i <= d + 1 PROVE h[i] = Body(h, i)
      <4>1. CASE i = 0
        BY <4>1
      <4>2. CASE i # 0
        <5>1. i - 1 \in 0..l /\ i - 1 <= d
          BY <3>3, <4>2
        <5>2. h[i - 1] = g[i - 1]
          BY <3>2, <5>1
        <5> QED BY <4>2, <5>2
      <4> QED BY <4>1, <4>2
    <3>4. h = [i \in 0..l |-> h[i]]
      OBVIOUS
    <3> HIDE DEF h
    <3>5. Upto(h, d + 1)
      BY <3>3, <3>4
    <3> QED BY <3>5, d + 1 \in Nat
  <2> HIDE DEF T
  <2>3. l \in T
    BY <2>1, <2>2, SetInduction
  <2>4. PICK g : Upto(g, l)
    BY <2>3 DEF T
  <2>5. \A i \in 0..l : g[i] = Body(g, i)
    <3>1. \A i \in 0..l : i <= l
      OBVIOUS
    <3> QED BY <2>4, <3>1
  <2>6. g = [i \in 0..l |-> Body(g, i)]
    BY <2>4, <2>5
  <2> QED BY <2>6
<1>2. OnlyUpTo(seq, S) = [i \in 0..l |-> Body(OnlyUpTo(seq, S), i)]
  BY <1>1 DEF OnlyUpTo
<1>3. OnlyUpTo(seq, S)[0] = <<>>
  <2>1. 0 \in 0..l
    OBVIOUS
  <2> QED BY <1>2, <2>1
<1>4. ASSUME NEW i \in 1..l
      PROVE  OnlyUpTo(seq, S)[i] = IF seq[i] \in S THEN App(OnlyUpTo(seq, S)[i - 1], seq[i])
                                                   ELSE OnlyUpTo(seq, S)[i - 1]
  <2>1. i \in 0..l /\ i # 0
    OBVIOUS
  <2>2. OnlyUpTo(seq, S)[i] = Body(OnlyUpTo(seq, S), i)
    BY <1>2, <2>1
  <2> QED BY <2>1, <2>2
<1> QED BY <1>0, <1>3, <1>4

\* Only() of nothing.
LEMMA OnlyEmpty == \A S : Only(<<>>, S) = <<>>
<1>1. PICK e : e = <<>>
  OBVIOUS
<1>2. e \in Seq({}) /\ Len(e) = 0
  BY <1>1
<1>3. ASSUME NEW S PROVE Only(e, S) = <<>>
  <2>1. PICK A : e \in Seq(A)
    BY <1>2
  <2>2. Only(e, S) = OnlyUpTo(e, S)[Len(e)] /\ OnlyUpTo(e, S)[0] = <<>>
    BY <2>1, OnlyFunction, Zenon
  <2> QED BY <1>2, <2>2
<1> QED BY <1>1, <1>3

\* Only() of one element more.
LEMMA OnlyAppend ==
    ASSUME NEW A, NEW S
    PROVE  \A b \in Seq(A), x \in A :
               Only(App(b, x), S) = IF x \in S THEN App(Only(b, S), x) ELSE Only(b, S)
<1>2. ASSUME NEW b \in Seq(A), NEW x \in A
      PROVE  Only(App(b, x), S) = IF x \in S THEN App(Only(b, S), x) ELSE Only(b, S)
  <2>1. PICK c : c = App(b, x)
    OBVIOUS
  <2>2. PICK l \in Nat, k \in Nat : l = Len(b) /\ k = l + 1
    BY LenProperties
  <2>3. /\ c \in Seq(A) /\ Len(c) = k /\ c[k] = x /\ \A i \in 1..l : c[i] = b[i]
    BY <2>1, <2>2, AppendProperties DEF App
  <2>4. PICK f, g : f = OnlyUpTo(b, S) /\ g = OnlyUpTo(c, S)
    OBVIOUS
  <2>5. /\ Only(b, S) = f[l] /\ f[0] = <<>>
        /\ \A i \in 1..l : f[i] = IF b[i] \in S THEN App(f[i - 1], b[i]) ELSE f[i - 1]
    BY <2>2, <2>4, OnlyFunction
  <2>6. /\ Only(c, S) = g[k] /\ g[0] = <<>>
        /\ \A i \in 1..k : g[i] = IF c[i] \in S THEN App(g[i - 1], c[i]) ELSE g[i - 1]
    <3>1. /\ Only(c, S) = OnlyUpTo(c, S)[Len(c)] /\ OnlyUpTo(c, S)[0] = <<>>
          /\ \A i \in 1..Len(c) :
                OnlyUpTo(c, S)[i] = IF c[i] \in S THEN App(OnlyUpTo(c, S)[i - 1], c[i])
                                                  ELSE OnlyUpTo(c, S)[i - 1]
      BY <2>3, OnlyFunction
    <3> QED BY <2>3, <2>4, <3>1
  <2> DEFINE T == {i \in Nat : i <= l => g[i] = f[i]}
  <2>7. 0 \in T
    BY <2>5, <2>6
  <2>8. ASSUME NEW i \in Nat, i \in T PROVE i + 1 \in T
    <3> SUFFICES ASSUME i + 1 <= l PROVE g[i + 1] = f[i + 1]
      OBVIOUS
    <3> PICK j \in Nat : j = i + 1
      OBVIOUS
    <3>1. j \in 1..l /\ j \in 1..k /\ j - 1 = i /\ i <= l
      BY <2>2
    <3>2. /\ g[j] = IF c[j] \in S THEN App(g[i], c[j]) ELSE g[i]
          /\ f[j] = IF b[j] \in S THEN App(f[i], b[j]) ELSE f[i]
          /\ c[j] = b[j]
      BY <2>3, <2>5, <2>6, <3>1
    <3> QED BY <2>8, <3>1, <3>2
  <2> HIDE DEF T
  <2>9. l \in T
    BY <2>7, <2>8, SetInduction
  <2>10. g[l] = f[l]
    BY <2>9 DEF T
  <2>11. g[k] = IF c[k] \in S THEN App(g[l], c[k]) ELSE g[l]
    <3>1. k \in 1..k /\ k - 1 = l
      BY <2>2
    <3> QED BY <2>6, <3>1
  <2> QED BY <2>1, <2>3, <2>5, <2>6, <2>10, <2>11
<1> QED BY <1>2

FlatUpTo(w) == CHOOSE g : g = [i \in 1..Len(w) |-> IF i = 1 THEN w[i] ELSE g[i - 1] \o w[i]]

\* The function behind FlattenSeq() exists.
LEMMA FlatFunction ==
    ASSUME NEW A, NEW w \in Seq(Seq(A)), w # <<>>
    PROVE  /\ FlattenSeq(w) = FlatUpTo(w)[Len(w)]
           /\ FlatUpTo(w)[1] = w[1]
           /\ \A i \in 2..Len(w) : FlatUpTo(w)[i] = FlatUpTo(w)[i - 1] \o w[i]
<1> DEFINE Body(g, i) == IF i = 1 THEN w[i] ELSE g[i - 1] \o w[i]
<1>0. FlattenSeq(w) = FlatUpTo(w)[Len(w)]
  BY EmptySeq DEF FlattenSeq, FlatUpTo
<1> PICK l \in Nat : l = Len(w) /\ l > 0
  BY LenProperties, EmptySeq
<1>1. \E g : g = [i \in 1..l |-> Body(g, i)]
  <2> DEFINE Upto(g, d) == /\ g = [i \in 1..l |-> g[i]]
                           /\ \A i \in 1..l : i <= d => g[i] = Body(g, i)
             T == {d \in Nat : \E g : Upto(g, d)}
  <2>1. 0 \in T
    <3> DEFINE g == [i \in 1..l |-> <<>>]
    <3>1. \A i \in 1..l : ~(i <= 0)
      OBVIOUS
    <3>2. g = [i \in 1..l |-> g[i]]
      OBVIOUS
    <3> HIDE DEF g
    <3>3. Upto(g, 0)
      BY <3>1, <3>2
    <3> QED BY <3>3
  <2>2. ASSUME NEW d \in Nat, d \in T PROVE d + 1 \in T
    <3>1. PICK g : Upto(g, d)
      BY <2>2
    <3> DEFINE h == [i \in 1..l |-> Body(g, i)]
    <3>2. \A i \in 1..l : i <= d => h[i] = g[i]
      BY <3>1
    <3>3. ASSUME NEW i \in 1..l, i <= d + 1 PROVE h[i] = Body(h, i)
      <4>1. CASE i = 1
        BY <4>1
      <4>2. CASE i # 1
        <5>1. i - 1 \in 1..l /\ i - 1 <= d
          BY <3>3, <4>2
        <5>2. h[i - 1] = g[i - 1]
          BY <3>2, <5>1
        <5> QED BY <4>2, <5>2
      <4> QED BY <4>1, <4>2
    <3>4. h = [i \in 1..l |-> h[i]]
      OBVIOUS
    <3> HIDE DEF h
    <3>5. Upto(h, d + 1)
      BY <3>3, <3>4
    <3> QED BY <3>5, d + 1 \in Nat
  <2> HIDE DEF T
  <2>3. l \in T
    BY <2>1, <2>2, SetInduction
  <2>4. PICK g : Upto(g, l)
    BY <2>3 DEF T
  <2>5. \A i \in 1..l : g[i] = Body(g, i)
    <3>1. \A i \in 1..l : i <= l
      OBVIOUS
    <3> QED BY <2>4, <3>1
  <2>6. g = [i \in 1..l |-> Body(g, i)]
    BY <2>4, <2>5
  <2> QED BY <2>6
<1>2. FlatUpTo(w) = [i \in 1..l |-> Body(FlatUpTo(w), i)]
  BY <1>1 DEF FlatUpTo
<1>3. FlatUpTo(w)[1] = w[1]
  <2>1. 1 \in 1..l
    OBVIOUS
  <2> QED BY <1>2, <2>1
<1>4. ASSUME NEW i \in 2..l PROVE FlatUpTo(w)[i] = FlatUpTo(w)[i - 1] \o w[i]
  <2>1. i \in 1..l /\ i # 1
    OBVIOUS
  <2>2. FlatUpTo(w)[i] = Body(FlatUpTo(w), i)
    BY <1>2, <2>1
  <2> QED BY <2>1, <2>2
<1> QED BY <1>0, <1>3, <1>4

\* FlattenSeq() of nothing.
LEMMA FlatEmpty == FlattenSeq(<<>>) = <<>>
BY EmptySeq DEF FlattenSeq

\* FlattenSeq() of one sequence more.
LEMMA FlatAppend ==
    ASSUME NEW A
    PROVE  \A w \in Seq(Seq(A)), m \in Seq(A) : FlattenSeq(App(w, m)) = FlattenSeq(w) \o m
<1>2. ASSUME NEW w \in Seq(Seq(A)), NEW m \in Seq(A)
      PROVE  FlattenSeq(App(w, m)) = FlattenSeq(w) \o m
  <2>1. PICK c : c = App(w, m)
    OBVIOUS
  <2>2. PICK l \in Nat, k \in Nat : l = Len(w) /\ k = l + 1
    BY LenProperties
  <2>3. /\ c \in Seq(Seq(A)) /\ Len(c) = k /\ c[k] = m /\ \A i \in 1..l : c[i] = w[i]
    BY <2>1, <2>2, AppendProperties DEF App
  <2>4. PICK f, g : f = FlatUpTo(w) /\ g = FlatUpTo(c)
    OBVIOUS
  <2>5. c # <<>>
    BY <2>2, <2>3, EmptySeq
  <2>6. /\ FlattenSeq(c) = g[k] /\ g[1] = c[1]
        /\ \A i \in 2..k : g[i] = g[i - 1] \o c[i]
    BY <2>3, <2>4, <2>5, FlatFunction
  <2>7. CASE w = <<>>
    <3>1. k = 1
      BY <2>2, <2>7, EmptySeq
    <3>2. <<>> \o m = m
      BY ConcatEmptySeq
    <3> QED BY <2>1, <2>3, <2>6, <2>7, <3>1, <3>2, FlatEmpty
  <2>8. CASE w # <<>>
    <3>1. /\ FlattenSeq(w) = f[l] /\ f[1] = w[1]
          /\ \A i \in 2..l : f[i] = f[i - 1] \o w[i]
      BY <2>2, <2>4, <2>8, FlatFunction
    <3>2. l > 0
      BY <2>2, <2>8, EmptySeq
    <3> DEFINE T == {i \in Nat : i + 1 <= l => g[i + 1] = f[i + 1]}
    <3>3. 0 \in T
      <4>1. 1 \in 1..l /\ 0 + 1 = 1
        BY <3>2
      <4> QED BY <2>3, <2>6, <3>1, <4>1
    <3>4. ASSUME NEW i \in Nat, i \in T PROVE i + 1 \in T
      <4> SUFFICES ASSUME (i + 1) + 1 <= l PROVE g[(i + 1) + 1] = f[(i + 1) + 1]
        OBVIOUS
      <4> PICK h \in Nat, j \in Nat : h = i + 1 /\ j = h + 1
        OBVIOUS
      <4>1. j \in 2..l /\ j \in 2..k /\ j - 1 = h /\ h <= l /\ j \in 1..l
        BY <2>2
      <4>2. g[j] = g[h] \o c[j] /\ f[j] = f[h] \o w[j] /\ c[j] = w[j]
        BY <2>3, <2>6, <3>1, <4>1
      <4> QED BY <3>4, <4>1, <4>2
    <3> HIDE DEF T
    <3>5. PICK h \in Nat : h = l - 1 /\ h + 1 = l
      BY <3>2
    <3>6. h \in T
      BY <3>3, <3>4, SetInduction
    <3>7. g[l] = f[l]
      BY <3>5, <3>6 DEF T
    <3>8. g[k] = g[l] \o c[k]
      <4>1. k \in 2..k /\ k - 1 = l
        BY <2>2, <3>2
      <4> QED BY <2>6, <4>1
    <3> QED BY <2>1, <2>3, <2>6, <3>1, <3>7, <3>8
  <2> QED BY <2>7, <2>8
<1> QED BY <1>2

-----------------------------------------------------------------------------
(* Concatenation, under a name the provers leave as it is.                  *)

Cat(s, t) == s \o t

\* The elements of both.
LEMMA CatSet ==
    \A A : \A s, t \in Seq(A) :
        /\ Cat(s, t) \in Seq(A) /\ ToSet(Cat(s, t)) = ToSet(s) \cup ToSet(t)
        /\ IsInjective(Cat(s, t)) <=>
              IsInjective(s) /\ IsInjective(t) /\ ToSet(s) \cap ToSet(t) = {}
BY SetOfConcat DEF Cat

\* With nothing.
LEMMA CatEmpty == \A A : \A s \in Seq(A) : Cat(s, <<>>) = s /\ Cat(<<>>, s) = s
BY ConcatEmptySeq DEF Cat

\* With one element more.
LEMMA CatAppend ==
    \A A : \A s, t \in Seq(A), x \in A : Cat(s, App(t, x)) = App(Cat(s, t), x)
BY AppendToConcat DEF Cat

\* Of three.
LEMMA CatAssociative ==
    \A A : \A s, t, u \in Seq(A) : Cat(Cat(s, t), u) = Cat(s, Cat(t, u))
BY ConcatAssociative DEF Cat

\* The places of the second are behind those of the first.
LEMMA CatAt ==
    \A A : \A s, t \in Seq(A) :
        /\ Len(Cat(s, t)) = Len(s) + Len(t)
        /\ \A i \in 1..Len(s) : Cat(s, t)[i] = s[i]
        /\ \A i \in 1..Len(t) : Cat(s, t)[Len(s) + i] = t[i]
<1> SUFFICES ASSUME NEW A, NEW s \in Seq(A), NEW t \in Seq(A)
             PROVE  /\ Len(Cat(s, t)) = Len(s) + Len(t)
                    /\ \A i \in 1..Len(s) : Cat(s, t)[i] = s[i]
                    /\ \A i \in 1..Len(t) : Cat(s, t)[Len(s) + i] = t[i]
  OBVIOUS
<1>0. PICK u : u = s \o t
  OBVIOUS
<1>1. PICK m \in Nat, n \in Nat : m = Len(s) /\ n = Len(t)
  BY LenProperties
<1>2. /\ Len(u) = m + n
      /\ \A i \in 1..m + n : u[i] = IF i <= m THEN s[i] ELSE t[i - m]
  BY <1>0, <1>1, ConcatProperties
<1>3. \A i \in 1..m : u[i] = s[i]
  BY <1>2
<1>4. ASSUME NEW i \in 1..n PROVE u[m + i] = t[i]
  <2>1. PICK j \in Int : j = m + i /\ j \in 1..m + n /\ ~(j <= m) /\ j - m = i
    OBVIOUS
  <2> QED BY <1>2, <2>1
<1>5. Cat(s, t) = u
  BY <1>0 DEF Cat
<1> QED BY <1>1, <1>2, <1>3, <1>4, <1>5

\* FlattenSeq() of one sequence more.
LEMMA FlatCat ==
    \A A : \A w \in Seq(Seq(A)), m \in Seq(A) : FlattenSeq(App(w, m)) = Cat(FlattenSeq(w), m)
BY FlatAppend DEF Cat

-----------------------------------------------------------------------------
(* What they do to a concatenation.                                         *)

\* Only() keeps the type, and what is behind the other.
LEMMA OnlyConcat ==
    ASSUME NEW A, NEW S, NEW s \in Seq(A)
    PROVE  /\ Only(s, S) \in Seq(A) /\ ToSet(Only(s, S)) = ToSet(s) \cap S
           /\ \A t \in Seq(A) : Only(Cat(s, t), S) = Cat(Only(s, S), Only(t, S))
<1>1. \A r \in Seq(A) : Only(r, S) \in Seq(A) /\ ToSet(Only(r, S)) = ToSet(r) \cap S
  <2> DEFINE T == {r \in Seq(A) : Only(r, S) \in Seq(A) /\ ToSet(Only(r, S)) = ToSet(r) \cap S}
  <2>1. <<>> \in T
    BY OnlyEmpty, EmptySeq, SetOfEmpty
  <2>2. ASSUME NEW r \in Seq(A), NEW x \in A, r \in T PROVE App(r, x) \in T
    <3>1. Only(r, S) \in Seq(A) /\ ToSet(Only(r, S)) = ToSet(r) \cap S
      BY <2>2
    <3>2. Only(App(r, x), S) = IF x \in S THEN App(Only(r, S), x) ELSE Only(r, S)
      BY OnlyAppend
    <3>3. App(r, x) \in Seq(A) /\ ToSet(App(r, x)) = ToSet(r) \cup {x}
      BY SetOfAppend
    <3>4. /\ App(Only(r, S), x) \in Seq(A)
          /\ ToSet(App(Only(r, S), x)) = ToSet(Only(r, S)) \cup {x}
      BY <3>1, SetOfAppend
    <3>5. CASE x \in S
      BY <3>1, <3>2, <3>3, <3>4, <3>5
    <3>6. CASE x \notin S
      BY <3>1, <3>2, <3>3, <3>6
    <3> QED BY <3>5, <3>6
  <2> HIDE DEF T
  <2>3. \A r \in Seq(A) : r \in T
    BY <2>1, <2>2, SeqInduction
  <2> QED BY <2>3 DEF T
<1>2. \A t \in Seq(A) : Only(Cat(s, t), S) = Cat(Only(s, S), Only(t, S))
  <2> DEFINE T == {t \in Seq(A) : Only(Cat(s, t), S) = Cat(Only(s, S), Only(t, S))}
  <2>1. <<>> \in T
    <3>1. Cat(s, <<>>) = s /\ Cat(Only(s, S), <<>>) = Only(s, S) /\ <<>> \in Seq(A)
      BY <1>1, CatEmpty, EmptySeq
    <3> QED BY <3>1, OnlyEmpty
  <2>2. ASSUME NEW t \in Seq(A), NEW x \in A, t \in T PROVE App(t, x) \in T
    <3>1. PICK u : u = Cat(s, t)
      OBVIOUS
    <3>2. PICK v : v = Only(s, S)
      OBVIOUS
    <3>3. PICK w : w = Only(t, S)
      OBVIOUS
    <3>4. u \in Seq(A)
      BY <3>1, CatSet
    <3>5. v \in Seq(A) /\ w \in Seq(A)
      BY <1>1, <3>2, <3>3
    <3>6. Cat(s, App(t, x)) = App(u, x)
      BY <3>1, CatAppend
    <3>7. Cat(v, App(w, x)) = App(Cat(v, w), x)
      BY <3>5, CatAppend
    <3>8. App(t, x) \in Seq(A)
      BY SetOfAppend
    <3>9. Only(App(u, x), S) = IF x \in S THEN App(Only(u, S), x) ELSE Only(u, S)
      BY <3>4, OnlyAppend
    <3>10. Only(App(t, x), S) = IF x \in S THEN App(w, x) ELSE w
      BY <3>3, OnlyAppend
    <3>11. Only(u, S) = Cat(v, w)
      BY <2>2, <3>1, <3>2, <3>3
    <3>12. Only(App(u, x), S) = Cat(v, Only(App(t, x), S))
      BY <3>7, <3>9, <3>10, <3>11
    <3> QED BY <3>2, <3>6, <3>8, <3>12
  <2> HIDE DEF T
  <2>3. \A t \in Seq(A) : t \in T
    BY <2>1, <2>2, SeqInduction
  <2> QED BY <2>3 DEF T
<1> QED BY <1>1, <1>2

\* Only() asks of the set just for the elements of the sequence.
LEMMA OnlySame ==
    ASSUME NEW A, NEW s \in Seq(A), NEW S, NEW R, ToSet(s) \cap S = ToSet(s) \cap R
    PROVE  Only(s, S) = Only(s, R)
<1> DEFINE T == {t \in Seq(A) : ToSet(t) \cap S = ToSet(t) \cap R => Only(t, S) = Only(t, R)}
<1>1. <<>> \in T
  BY OnlyEmpty, EmptySeq
<1>2. ASSUME NEW t \in Seq(A), NEW x \in A, t \in T PROVE App(t, x) \in T
  <2>1. App(t, x) \in Seq(A) /\ ToSet(App(t, x)) = ToSet(t) \cup {x}
    BY SetOfAppend
  <2> SUFFICES ASSUME ToSet(App(t, x)) \cap S = ToSet(App(t, x)) \cap R
               PROVE  Only(App(t, x), S) = Only(App(t, x), R)
    BY <2>1
  <2>2. ToSet(t) \cap S = ToSet(t) \cap R /\ (x \in S <=> x \in R)
    BY <2>1
  <2>3. Only(t, S) = Only(t, R)
    BY <1>2, <2>2
  <2>4. Only(App(t, x), S) = IF x \in S THEN App(Only(t, S), x) ELSE Only(t, S)
    BY OnlyAppend
  <2>5. Only(App(t, x), R) = IF x \in R THEN App(Only(t, R), x) ELSE Only(t, R)
    BY OnlyAppend
  <2> QED BY <2>2, <2>3, <2>4, <2>5
<1> HIDE DEF T
<1>3. s \in T
  BY <1>1, <1>2, SeqInduction
<1> QED BY <1>3 DEF T

\* All of them, or none.
LEMMA OnlyAllOrNone ==
    ASSUME NEW A, NEW s \in Seq(A), NEW S
    PROVE  /\ ToSet(s) \subseteq S => Only(s, S) = s
           /\ ToSet(s) \cap S = {} => Only(s, S) = <<>>
<1> DEFINE T == {t \in Seq(A) : Only(t, A) = t /\ Only(t, {}) = <<>>}
<1>1. <<>> \in T
  BY OnlyEmpty, EmptySeq
<1>2. ASSUME NEW t \in Seq(A), NEW x \in A, t \in T PROVE App(t, x) \in T
  <2>1. Only(App(t, x), A) = App(Only(t, A), x)
    BY OnlyAppend
  <2>2. Only(App(t, x), {}) = Only(t, {})
    <3>1. x \notin {}
      OBVIOUS
    <3> QED BY <3>1, OnlyAppend
  <2> QED BY <1>2, <2>1, <2>2, SetOfAppend
<1> HIDE DEF T
<1>3. s \in T
  BY <1>1, <1>2, SeqInduction
<1>4. Only(s, A) = s /\ Only(s, {}) = <<>>
  BY <1>3 DEF T
<1>5. ToSet(s) \subseteq A
  BY SetOfSeq
<1>6. ASSUME ToSet(s) \subseteq S PROVE Only(s, S) = s
  <2>1. ToSet(s) \cap S = ToSet(s) \cap A
    BY <1>5, <1>6
  <2> QED BY <1>4, <2>1, OnlySame
<1>7. ASSUME ToSet(s) \cap S = {} PROVE Only(s, S) = <<>>
  <2>1. ToSet(s) \cap S = ToSet(s) \cap {}
    BY <1>7
  <2> QED BY <1>4, <2>1, OnlySame
<1> QED BY <1>6, <1>7

\* What may stand in the place of the data.
Values == Nat \cup {data(m) : m \in Seq(Nat)}

\* Accepted(), from messages to one message more.
LEMMA AcceptedAppend ==
    /\ \A w \in Seq(Seq(Nat)) : Accepted(w) \in Seq(Values)
    /\ \A w \in Seq(Seq(Nat)), m \in Seq(Nat) :
          Accepted(App(w, m)) = IF IsForTopic(m) THEN App(Accepted(w), data(m)) ELSE Accepted(w)
<1> DEFINE V == {m \in Seq(Nat) : IsForTopic(m)}
           Map(v) == [i \in 1..Len(v) |-> data(v[i])]
<1>1. ASSUME NEW w \in Seq(Seq(Nat)) PROVE Accepted(w) = Map(Only(w, V))
  <2>1. ToSet(w) \cap {m \in ToSet(w) : IsForTopic(m)} = ToSet(w) \cap V
    BY SetOfSeq
  <2>2. Only(w, {m \in ToSet(w) : IsForTopic(m)}) = Only(w, V)
    BY <2>1, OnlySame
  <2> QED BY <2>2 DEF Accepted
<1>2. ASSUME NEW v \in Seq(Seq(Nat)) PROVE Map(v) \in Seq(Values)
  <2>1. PICK l \in Nat : l = Len(v)
    BY LenProperties
  <2>2. \A i \in 1..l : data(v[i]) \in Values
    <3>1. \A i \in 1..l : v[i] \in Seq(Nat)
      BY <2>1, ElementOfSeq
    <3> QED BY <3>1 DEF Values
  <2>3. Map(v) \in [1..l -> Values]
    BY <2>1, <2>2
  <2> HIDE DEF Map
  <2> QED BY <2>3, SeqDef
<1>3. ASSUME NEW v \in Seq(Seq(Nat)), NEW m \in Seq(Nat)
      PROVE  Map(App(v, m)) = App(Map(v), data(m))
  <2>1. PICK l \in Nat, k \in Nat : l = Len(v) /\ k = l + 1
    BY LenProperties
  <2>2. PICK c : c = App(v, m)
    OBVIOUS
  <2>3. c \in Seq(Seq(Nat)) /\ Len(c) = k /\ c[k] = m /\ \A i \in 1..l : c[i] = v[i]
    BY <2>1, <2>2, AppendProperties DEF App
  <2>4. PICK f : f = Map(v)
    OBVIOUS
  <2>5. f \in Seq(Values) /\ Len(f) = l /\ \A i \in 1..l : f[i] = data(v[i])
    <3>1. f \in Seq(Values)
      BY <1>2, <2>4
    <3>2. DOMAIN f = 1..l /\ \A i \in 1..l : f[i] = data(v[i])
      BY <2>1, <2>4
    <3>3. DOMAIN f = 1..Len(f) /\ Len(f) \in Nat
      BY <3>1, LenProperties
    <3> QED BY <3>1, <3>2, <3>3
  <2>6. data(m) \in Values
    BY DEF Values
  <2>7. PICK g : g = App(f, data(m))
    OBVIOUS
  <2>8. /\ g \in Seq(Values) /\ Len(g) = k /\ g[k] = data(m) /\ \A i \in 1..l : g[i] = f[i]
    BY <2>1, <2>5, <2>6, <2>7, AppendProperties DEF App
  <2>9. g = [i \in 1..k |-> data(c[i])]
    <3>1. g = [i \in 1..k |-> g[i]]
      BY <2>8, LenProperties
    <3>2. \A i \in 1..k : i \in 1..l \/ i = k
      BY <2>1
    <3>3. \A i \in 1..k : g[i] = data(c[i])
      BY <2>3, <2>5, <2>8, <3>2
    <3> QED BY <3>1, <3>3
  <2> QED BY <2>2, <2>3, <2>4, <2>7, <2>9
<1> HIDE DEF Map, V
<1>5. \A w \in Seq(Seq(Nat)) : Only(w, V) \in Seq(Seq(Nat))
  BY OnlyConcat
<1>6. \A w \in Seq(Seq(Nat)) : Accepted(w) \in Seq(Values)
  BY <1>1, <1>2, <1>5
<1>7. ASSUME NEW w \in Seq(Seq(Nat)), NEW m \in Seq(Nat)
      PROVE  Accepted(App(w, m))
                = IF IsForTopic(m) THEN App(Accepted(w), data(m)) ELSE Accepted(w)
  <2>1. App(w, m) \in Seq(Seq(Nat))
    BY SetOfAppend
  <2>2. Only(App(w, m), V) = IF m \in V THEN App(Only(w, V), m) ELSE Only(w, V)
    BY OnlyAppend
  <2>3. m \in V <=> IsForTopic(m)
    BY DEF V
  <2>4. Map(App(Only(w, V), m)) = App(Map(Only(w, V)), data(m))
    BY <1>3, <1>5
  <2> QED BY <1>1, <2>1, <2>2, <2>3, <2>4
<1> QED BY <1>6, <1>7

\* Nothing is accepted of nothing.
LEMMA AcceptedEmpty == Accepted(<<>>) = <<>>
<1>1. Only(<<>>, {m \in ToSet(<<>>) : IsForTopic(m)}) = <<>>
  BY OnlyEmpty
<1>2. [i \in 1..Len(<<>>) |-> data(<<>>[i])] = <<>>
  BY EmptySeq
<1> QED BY <1>1, <1>2 DEF Accepted

\* What is accepted of messages one behind the other.
LEMMA AcceptedConcat ==
    ASSUME NEW v \in Seq(Seq(Nat)), NEW w \in Seq(Seq(Nat))
    PROVE  Accepted(Cat(v, w)) = Cat(Accepted(v), Accepted(w))
<1> DEFINE T == {t \in Seq(Seq(Nat)) : Accepted(Cat(v, t)) = Cat(Accepted(v), Accepted(t))}
<1>0. Accepted(v) \in Seq(Values)
  BY AcceptedAppend
<1>1. <<>> \in T
  <2>1. Cat(v, <<>>) = v /\ Cat(Accepted(v), <<>>) = Accepted(v) /\ <<>> \in Seq(Seq(Nat))
    BY <1>0, CatEmpty, EmptySeq
  <2> QED BY <2>1, AcceptedEmpty
<1>2. ASSUME NEW t \in Seq(Seq(Nat)), NEW m \in Seq(Nat), t \in T PROVE App(t, m) \in T
  <2>1. PICK u : u = Cat(v, t)
    OBVIOUS
  <2>2. PICK a : a = Accepted(v)
    OBVIOUS
  <2>3. PICK c : c = Accepted(t)
    OBVIOUS
  <2>4. PICK d : d = data(m)
    OBVIOUS
  <2>5. u \in Seq(Seq(Nat))
    BY <2>1, CatSet
  <2>6. a \in Seq(Values) /\ c \in Seq(Values)
    BY <2>2, <2>3, AcceptedAppend
  <2>7. d \in Values
    BY <2>4 DEF Values
  <2>8. Cat(v, App(t, m)) = App(u, m)
    BY <2>1, CatAppend
  <2>9. Cat(a, App(c, d)) = App(Cat(a, c), d)
    BY <2>6, <2>7, CatAppend
  <2>10. App(t, m) \in Seq(Seq(Nat))
    BY SetOfAppend
  <2>11. Accepted(App(u, m)) = IF IsForTopic(m) THEN App(Accepted(u), d) ELSE Accepted(u)
    BY <2>4, <2>5, AcceptedAppend
  <2>12. Accepted(App(t, m)) = IF IsForTopic(m) THEN App(c, d) ELSE c
    BY <2>3, <2>4, AcceptedAppend
  <2>13. Accepted(u) = Cat(a, c)
    BY <1>2, <2>1, <2>2, <2>3
  <2>14. Accepted(App(u, m)) = Cat(a, Accepted(App(t, m)))
    BY <2>9, <2>11, <2>12, <2>13
  <2> QED BY <2>2, <2>8, <2>10, <2>14
<1> HIDE DEF T
<1>3. w \in T
  BY <1>1, <1>2, SeqInduction
<1> QED BY <1>3 DEF T

\* One byte more makes a whole message of the rest, or does not.
LEMMA SplitStep ==
    ASSUME NEW b \in Seq(Nat), NEW x \in Nat, NEW r, r = App(Split(b).rest, x)
    PROVE  /\ Whole(r) => Split(App(b, x)) = [whole |-> App(Split(b).whole, r), rest |-> <<>>]
           /\ ~Whole(r) => Split(App(b, x)) = [whole |-> Split(b).whole, rest |-> r]
BY SplitAppend DEF Step

\* Split() only cuts: the whole messages and the rest are the bytes again.  There is
\* no whole message in the rest, and nothing left of the whole messages alone.
LEMMA SplitFacts ==
    ASSUME NEW b \in Seq(Nat)
    PROVE  /\ Split(b).whole \in Seq(Seq(Nat)) /\ Split(b).rest \in Seq(Nat)
           /\ FlattenSeq(Split(b).whole) \in Seq(Nat)
           /\ Cat(FlattenSeq(Split(b).whole), Split(b).rest) = b
           /\ Split(Split(b).rest).whole = <<>> /\ Split(Split(b).rest).rest = Split(b).rest
           /\ Split(FlattenSeq(Split(b).whole)).whole = Split(b).whole
           /\ Split(FlattenSeq(Split(b).whole)).rest = <<>>
<1> DEFINE Fact(c) ==
           /\ Split(c).whole \in Seq(Seq(Nat)) /\ Split(c).rest \in Seq(Nat)
           /\ FlattenSeq(Split(c).whole) \in Seq(Nat)
           /\ Cat(FlattenSeq(Split(c).whole), Split(c).rest) = c
           /\ Split(Split(c).rest).whole = <<>> /\ Split(Split(c).rest).rest = Split(c).rest
           /\ Split(FlattenSeq(Split(c).whole)).whole = Split(c).whole
           /\ Split(FlattenSeq(Split(c).whole)).rest = <<>>
           T == {c \in Seq(Nat) : Fact(c)}
<1>0. /\ Split(<<>>).whole = <<>> /\ Split(<<>>).rest = <<>>
      /\ FlattenSeq(<<>>) = <<>> /\ <<>> \in Seq(Nat) /\ <<>> \in Seq(Seq(Nat))
  BY SplitEmpty, FlatEmpty, EmptySeq
<1>1. <<>> \in T
  <2>1. Cat(<<>>, <<>>) = <<>>
    BY <1>0, CatEmpty
  <2> QED BY <1>0, <2>1
<1>2. ASSUME NEW c \in Seq(Nat), NEW x \in Nat, c \in T PROVE App(c, x) \in T
  <2>1. PICK w, r, q, d, f : /\ w = Split(c).whole /\ r = Split(c).rest /\ q = App(r, x)
                             /\ d = App(c, x) /\ f = FlattenSeq(w)
    OBVIOUS
  <2>2. /\ w \in Seq(Seq(Nat)) /\ r \in Seq(Nat) /\ f \in Seq(Nat) /\ Cat(f, r) = c
        /\ Split(r).whole = <<>> /\ Split(r).rest = r
        /\ Split(f).whole = w /\ Split(f).rest = <<>>
    BY <1>2, <2>1
  <2>3. q \in Seq(Nat) /\ d \in Seq(Nat) /\ Cat(f, q) = d
    <3>1. q \in Seq(Nat)
      BY <2>1, <2>2, SetOfAppend
    <3>2. d \in Seq(Nat)
      BY <2>1, SetOfAppend
    <3>3. Cat(f, App(r, x)) = App(Cat(f, r), x)
      BY <2>2, CatAppend
    <3> QED BY <2>1, <2>2, <3>1, <3>2, <3>3
  <2>4. CASE Whole(q)
    <3>1. Split(d).whole = App(w, q) /\ Split(d).rest = <<>>
      <4>1. Split(d) = [whole |-> App(w, q), rest |-> <<>>]
        BY <2>1, <2>4, SplitStep
      <4> QED BY <4>1
    <3>2. FlattenSeq(App(w, q)) = d /\ App(w, q) \in Seq(Seq(Nat))
      <4>1. FlattenSeq(App(w, q)) = Cat(f, q)
        BY <2>1, <2>2, <2>3, FlatCat
      <4>2. App(w, q) \in Seq(Seq(Nat))
        BY <2>2, <2>3, SetOfAppend
      <4> QED BY <2>3, <4>1, <4>2
    <3>3. Cat(d, <<>>) = d
      BY <2>3, CatEmpty
    <3>4. Fact(d)
      BY <1>0, <2>3, <3>1, <3>2, <3>3
    <3> QED BY <2>1, <2>3, <3>4
  <2>5. CASE ~Whole(q)
    <3>1. Split(d).whole = w /\ Split(d).rest = q
      <4>1. Split(d) = [whole |-> w, rest |-> q]
        BY <2>1, <2>5, SplitStep
      <4> QED BY <4>1
    <3>2. Split(q).whole = <<>> /\ Split(q).rest = q
      <4>1. q = App(Split(r).rest, x)
        BY <2>1, <2>2
      <4>2. Split(App(r, x)) = [whole |-> Split(r).whole, rest |-> q]
        BY <2>2, <2>5, <4>1, SplitStep
      <4> QED BY <2>1, <2>2, <4>2
    <3>3. Fact(d)
      BY <2>1, <2>2, <2>3, <3>1, <3>2
    <3> QED BY <2>1, <2>3, <3>3
  <2> QED BY <2>4, <2>5
<1> HIDE DEF T
<1>3. b \in T
  BY <1>1, <1>2, SeqInduction
<1> QED BY <1>3 DEF T

\* Bytes that follow others are split from their rest on.
LEMMA SplitConcat ==
    ASSUME NEW a \in Seq(Nat), NEW b \in Seq(Nat)
    PROVE  /\ Split(Cat(a, b)).whole = Cat(Split(a).whole, Split(Cat(Split(a).rest, b)).whole)
           /\ Split(Cat(a, b)).rest = Split(Cat(Split(a).rest, b)).rest
<1>0. PICK w, r : /\ w = Split(a).whole /\ r = Split(a).rest
                  /\ w \in Seq(Seq(Nat)) /\ r \in Seq(Nat)
                  /\ Split(r).whole = <<>> /\ Split(r).rest = r
  BY SplitFacts
<1> DEFINE Fact(c) == /\ Split(Cat(a, c)).whole = Cat(w, Split(Cat(r, c)).whole)
                      /\ Split(Cat(a, c)).rest = Split(Cat(r, c)).rest
           T == {c \in Seq(Nat) : Fact(c)}
<1>1. <<>> \in T
  <2>1. Cat(a, <<>>) = a /\ Cat(r, <<>>) = r /\ Cat(w, <<>>) = w /\ <<>> \in Seq(Nat)
    BY <1>0, CatEmpty, EmptySeq
  <2> QED BY <1>0, <2>1
<1>2. ASSUME NEW c \in Seq(Nat), NEW x \in Nat, c \in T PROVE App(c, x) \in T
  <2>1. PICK e, f, q : e = Cat(a, c) /\ f = Cat(r, c) /\ q = App(Split(e).rest, x)
    OBVIOUS
  <2>2. /\ e \in Seq(Nat) /\ f \in Seq(Nat) /\ App(c, x) \in Seq(Nat)
        /\ Cat(a, App(c, x)) = App(e, x) /\ Cat(r, App(c, x)) = App(f, x)
    <3>1. e \in Seq(Nat)
      BY <2>1, CatSet
    <3>2. f \in Seq(Nat)
      BY <1>0, <2>1, CatSet
    <3>3. App(c, x) \in Seq(Nat)
      BY SetOfAppend
    <3>4. Cat(a, App(c, x)) = App(e, x)
      BY <2>1, CatAppend
    <3>5. Cat(r, App(c, x)) = App(f, x)
      BY <1>0, <2>1, CatAppend
    <3> QED BY <3>1, <3>2, <3>3, <3>4, <3>5
  <2>3. Split(e).whole = Cat(w, Split(f).whole) /\ Split(e).rest = Split(f).rest
    BY <1>2, <2>1
  <2>4. q = App(Split(f).rest, x) /\ Split(f).whole \in Seq(Seq(Nat)) /\ q \in Seq(Nat)
    <3>1. q = App(Split(f).rest, x)
      BY <2>1, <2>3
    <3>2. Split(f).whole \in Seq(Seq(Nat)) /\ Split(f).rest \in Seq(Nat)
      BY <2>2, SplitFacts
    <3>3. q \in Seq(Nat)
      BY <3>1, <3>2, SetOfAppend
    <3> QED BY <3>1, <3>2, <3>3
  <2>5. PICK e2, f2 : e2 = App(e, x) /\ f2 = App(f, x)
    OBVIOUS
  <2>6. Split(e2).whole = Cat(w, Split(f2).whole) /\ Split(e2).rest = Split(f2).rest
    <3>1. CASE Whole(q)
      <4>1. Split(e2) = [whole |-> App(Split(e).whole, q), rest |-> <<>>]
        BY <2>1, <2>2, <2>5, <3>1, SplitStep
      <4>2. Split(f2) = [whole |-> App(Split(f).whole, q), rest |-> <<>>]
        BY <2>2, <2>4, <2>5, <3>1, SplitStep
      <4>3. PICK y : y = Split(f).whole
        OBVIOUS
      <4>4. App(Cat(w, y), q) = Cat(w, App(y, q))
        <5>1. y \in Seq(Seq(Nat)) /\ q \in Seq(Nat) /\ w \in Seq(Seq(Nat))
          BY <1>0, <2>4, <4>3
        <5> QED BY <5>1, CatAppend
      <4> QED BY <2>3, <4>1, <4>2, <4>3, <4>4
    <3>2. CASE ~Whole(q)
      <4>1. Split(e2) = [whole |-> Split(e).whole, rest |-> q]
        BY <2>1, <2>2, <2>5, <3>2, SplitStep
      <4>2. Split(f2) = [whole |-> Split(f).whole, rest |-> q]
        BY <2>2, <2>4, <2>5, <3>2, SplitStep
      <4> QED BY <2>3, <4>1, <4>2
    <3> QED BY <3>1, <3>2
  <2>7. Fact(App(c, x))
    BY <2>2, <2>5, <2>6
  <2> QED BY <2>2, <2>7
<1> HIDE DEF T
<1>3. b \in T
  BY <1>1, <1>2, SeqInduction
<1> QED BY <1>0, <1>3 DEF T

-----------------------------------------------------------------------------
(* The bytes of a server, on their way to the daemon.                       *)

\* What may stand d places behind the byte x: behind the first byte of a message
\* comes the message, and behind the data the next message.
Fits(x, y, d) ==
    /\ x < 256 => x \in {0, 2, 131}
    /\ x = 131 => /\ d = 1 => y = 2
                  /\ d = 2 => y = 0
                  /\ d = 3 => y \in 256..(255 + MaxMessages)
    /\ x >= 256 => /\ d = 1 => y = 131
                   /\ d = 2 => y = 2

\* The bytes are a piece of messages one behind the other.
WellFormed(b) == \A i, j \in 1..Len(b) : Fits(b[i], b[j], j - i)

\* The last bytes of the messages, which are the numbers of the messages ...
Ends(b) == {j \in 1..Len(b) : \E i \in 1..Len(b) : b[i] = 131 /\ j = i + 3}
Numbers(b) == {b[j] : j \in Ends(b)}

\* ... and ascend: a server sends its messages in the order of their numbers.
Ascending(b) == \A i, j \in Ends(b) : i < j => b[i] < b[j]

\* The last message is there to its end.
Complete(b) == \A i \in 1..Len(b) : b[i] = 131 => \E j \in 1..Len(b) : j = i + 3

\* What holds of bytes holds of both parts of them, and no number is in both.
LEMMA StreamParts ==
    ASSUME NEW a \in Seq(Nat), NEW b \in Seq(Nat)
    PROVE  /\ WellFormed(Cat(a, b)) => WellFormed(a) /\ WellFormed(b)
           /\ Numbers(a) \cup Numbers(b) \subseteq Numbers(Cat(a, b))
           /\ Ascending(Cat(a, b)) =>
                 Ascending(a) /\ Ascending(b) /\ Numbers(a) \cap Numbers(b) = {}
           /\ Complete(Cat(a, b)) => Complete(b)
<1>1. PICK u : u = Cat(a, b)
  OBVIOUS
<1>0. PICK m \in Nat, n \in Nat : m = Len(a) /\ n = Len(b)
  BY LenProperties
<1>2. /\ m = Len(a) /\ n = Len(b) /\ Len(u) = m + n /\ u \in Seq(Nat)
      /\ \A i \in 1..m : u[i] = a[i] /\ a[i] \in Nat
      /\ \A i \in 1..n, j \in Int : j = m + i => u[j] = b[i] /\ b[i] \in Nat
  <2>1. /\ Len(u) = m + n
        /\ \A i \in 1..m : u[i] = a[i]
        /\ \A i \in 1..n : u[m + i] = b[i]
    BY <1>0, <1>1, CatAt
  <2>2. u \in Seq(Nat)
    BY <1>1, CatSet
  <2>3. \A i \in 1..m : a[i] \in Nat
    BY <1>0, ElementOfSeq
  <2>4. \A i \in 1..n : b[i] \in Nat
    BY <1>0, ElementOfSeq
  <2>5. ASSUME NEW i \in 1..n, NEW j \in Int, j = m + i PROVE u[j] = b[i] /\ b[i] \in Nat
    BY <2>1, <2>4, <2>5
  <2> QED BY <1>0, <2>1, <2>2, <2>3, <2>5
<1>3. ASSUME NEW j \in Ends(a) PROVE j \in 1..m /\ j \in Ends(u) /\ u[j] = a[j]
  <2>1. PICK i \in 1..m : a[i] = 131 /\ j = i + 3 /\ j \in 1..m
    BY <1>2 DEF Ends
  <2>2. i \in 1..m + n /\ j \in 1..m + n /\ u[i] = a[i] /\ u[j] = a[j]
    BY <1>2, <2>1
  <2> QED BY <1>2, <2>1, <2>2 DEF Ends
<1>4. ASSUME NEW j \in Ends(b) PROVE \E k \in Ends(u) : k = m + j /\ u[k] = b[j] /\ j \in 1..n
  <2>1. PICK i \in 1..n : b[i] = 131 /\ j = i + 3 /\ j \in 1..n
    BY <1>2 DEF Ends
  <2>2. PICK h \in 1..m + n, k \in 1..m + n : h = m + i /\ k = m + j /\ k = h + 3
    BY <2>1
  <2>3. u[h] = b[i] /\ u[k] = b[j]
    <3>1. u[h] = b[i]
      BY <1>2, <2>1, <2>2
    <3>2. j \in 1..n
      BY <2>1
    <3>3. u[k] = b[j]
      BY <1>2, <2>2, <3>2
    <3> QED BY <3>1, <3>3
  <2>4. k \in Ends(u)
    BY <1>2, <2>1, <2>2, <2>3 DEF Ends
  <2> QED BY <2>1, <2>2, <2>3, <2>4
<1>5. ASSUME WellFormed(u) PROVE WellFormed(a)
  <2> SUFFICES ASSUME NEW i \in 1..m, NEW j \in 1..m PROVE Fits(a[i], a[j], j - i)
    BY <1>2 DEF WellFormed
  <2>1. i \in 1..m + n /\ j \in 1..m + n /\ u[i] = a[i] /\ u[j] = a[j]
    BY <1>2
  <2>2. Fits(u[i], u[j], j - i)
    BY <1>2, <1>5, <2>1 DEF WellFormed
  <2> QED BY <2>1, <2>2
<1>6. ASSUME WellFormed(u) PROVE WellFormed(b)
  <2> SUFFICES ASSUME NEW i \in 1..n, NEW j \in 1..n PROVE Fits(b[i], b[j], j - i)
    BY <1>2 DEF WellFormed
  <2>1. PICK h \in 1..m + n, k \in 1..m + n : h = m + i /\ k = m + j
    OBVIOUS
  <2>2. u[h] = b[i] /\ u[k] = b[j]
    <3>1. h \in Int /\ k \in Int
      OBVIOUS
    <3>2. u[h] = b[i]
      BY <1>2, <2>1, <3>1
    <3>3. u[k] = b[j]
      BY <1>2, <2>1, <3>1
    <3> QED BY <3>2, <3>3
  <2>3. Fits(u[h], u[k], k - h)
    BY <1>2, <1>6 DEF WellFormed
  <2>4. k - h = j - i
    BY <2>1
  <2> QED BY <2>2, <2>3, <2>4
<1>7. Numbers(a) \subseteq Numbers(u)
  BY <1>3 DEF Numbers
<1>8. Numbers(b) \subseteq Numbers(u)
  BY <1>4 DEF Numbers
<1>9. ASSUME Ascending(u) PROVE Ascending(a)
  <2>1. \A j \in Ends(a) : j \in Ends(u) /\ u[j] = a[j]
    BY <1>3
  <2> QED BY <1>9, <2>1 DEF Ascending
<1>10. ASSUME Ascending(u) PROVE Ascending(b)
  <2> SUFFICES ASSUME NEW i \in Ends(b), NEW j \in Ends(b), i < j PROVE b[i] < b[j]
    BY DEF Ascending
  <2>1. PICK h \in Ends(u) : h = m + i /\ u[h] = b[i] /\ i \in 1..n
    BY <1>4
  <2>2. PICK k \in Ends(u) : k = m + j /\ u[k] = b[j] /\ j \in 1..n
    BY <1>4
  <2>3. h < k
    BY <2>1, <2>2
  <2> QED BY <1>10, <2>1, <2>2, <2>3 DEF Ascending
<1>11. ASSUME Ascending(u) PROVE Numbers(a) \cap Numbers(b) = {}
  <2> SUFFICES ASSUME NEW i \in Ends(a), NEW j \in Ends(b), a[i] = b[j] PROVE FALSE
    BY DEF Numbers
  <2>1. i \in 1..m /\ i \in Ends(u) /\ u[i] = a[i] /\ a[i] \in Nat
    BY <1>2, <1>3
  <2>2. PICK k \in Ends(u) : k = m + j /\ u[k] = b[j] /\ j \in 1..n
    BY <1>4
  <2>3. i < k
    BY <2>1, <2>2
  <2>4. u[i] < u[k]
    BY <1>11, <2>1, <2>3 DEF Ascending
  <2> QED BY <2>1, <2>2, <2>4
<1>12. ASSUME Complete(u) PROVE Complete(b)
  <2> SUFFICES ASSUME NEW i \in 1..n, b[i] = 131 PROVE \E j \in 1..n : j = i + 3
    BY <1>2 DEF Complete
  <2>1. PICK h \in 1..m + n : h = m + i
    OBVIOUS
  <2>2. u[h] = b[i]
    BY <1>2, <2>1
  <2>3. \E k \in 1..m + n : k = h + 3
    BY <1>2, <1>12, <2>2 DEF Complete
  <2> QED BY <2>1, <2>3
<1> QED BY <1>1, <1>5, <1>6, <1>7, <1>8, <1>9, <1>10, <1>11, <1>12

\* The value of a byte that is not the data of a message.
LEMMA ByteValue == \A x \in Nat : x < 256 => Value(x) = x
BY SystemBusAssumptions DEF Value

\* What the daemon or a server may take for a message, reading from any place of
\* well-formed bytes, is for the topic only if it is one: what starts with the data
\* of a message is for another target, whatever the data is.
LEMMA ForTopicIsMessage ==
    ASSUME NEW q \in Seq(Nat), WellFormed(q), Whole(q), IsForTopic(q)
    PROVE  Len(q) = 4 /\ q[1] = 131 /\ 4 \in Ends(q) /\ data(q) = q[4] /\ q[4] \in Nat
<1>1. PICK l \in Nat : l = Len(q)
  BY LenProperties
<1>2. l >= 4 /\ l = 2 + Value(q[2]) /\ Value(q[1]) \in {131, 132} /\ Value(q[3]) = 0
  BY <1>1 DEF IsForTopic, Whole, HEADER_LEN, Topic
<1>3. 1 \in 1..l /\ 2 \in 1..l /\ 3 \in 1..l /\ 4 \in 1..l
  BY <1>2
<1>4. PICK x, y, z : x = q[1] /\ y = q[2] /\ z = q[3]
  OBVIOUS
<1>5. x \in Nat /\ y \in Nat /\ z \in Nat /\ q[4] \in Nat
  BY <1>1, <1>3, <1>4, ElementOfSeq
<1>6. Fits(x, y, 1) /\ Fits(x, z, 2)
  <2>1. Fits(q[1], q[2], 2 - 1) /\ Fits(q[1], q[3], 3 - 1)
    BY <1>1, <1>3 DEF WellFormed
  <2>2. 2 - 1 = 1 /\ 3 - 1 = 2
    OBVIOUS
  <2> QED BY <1>4, <2>1, <2>2
<1>7. x < 256
  <2> SUFFICES ASSUME x >= 256 PROVE FALSE
    BY <1>5
  <2>1. z = 2
    BY <1>6 DEF Fits
  <2>2. Value(z) = 2
    BY <2>1, ByteValue
  <2> QED BY <1>2, <1>4, <2>2
<1>8. x = 131
  <2>1. Value(x) = x
    BY <1>5, <1>7, ByteValue
  <2>2. x \in {0, 2, 131}
    BY <1>6, <1>7 DEF Fits
  <2> QED BY <1>2, <1>4, <2>1, <2>2
<1>9. y = 2
  BY <1>6, <1>8 DEF Fits
<1>10. l = 4
  <2>1. Value(y) = 2
    BY <1>9, ByteValue
  <2> QED BY <1>2, <1>4, <2>1
<1>11. 4 \in Ends(q)
  <2>1. q[1] = 131 /\ 4 = 1 + 3
    BY <1>4, <1>8
  <2>2. \E i \in 1..l : q[i] = 131 /\ 4 = i + 3
    BY <1>3, <2>1
  <2> QED BY <1>1, <1>3, <2>2 DEF Ends
<1>12. data(q) = q[4]
  BY DEF data, HEADER_LEN
<1> QED BY <1>1, <1>4, <1>5, <1>8, <1>10, <1>11, <1>12

\* What is accepted of whole messages are numbers of their bytes, each of them once.
LEMMA AcceptedNumbers ==
    ASSUME NEW b \in Seq(Nat),
           WellFormed(FlattenSeq(Split(b).whole)), Ascending(FlattenSeq(Split(b).whole))
    PROVE  /\ ToSet(Accepted(Split(b).whole)) \subseteq Numbers(FlattenSeq(Split(b).whole))
           /\ IsInjective(Accepted(Split(b).whole))
<1> DEFINE Fact(w) == WellFormed(FlattenSeq(w)) /\ Ascending(FlattenSeq(w)) =>
                          /\ ToSet(Accepted(w)) \subseteq Numbers(FlattenSeq(w))
                          /\ IsInjective(Accepted(w))
           T == {c \in Seq(Nat) : Fact(Split(c).whole)}
<1>1. <<>> \in T
  <2>1. Fact(<<>>)
    BY AcceptedEmpty, SetOfEmpty
  <2>2. Split(<<>>).whole = <<>> /\ <<>> \in Seq(Nat)
    BY SplitEmpty, EmptySeq
  <2> QED BY <2>1, <2>2
<1>2. ASSUME NEW c \in Seq(Nat), NEW x \in Nat, c \in T PROVE App(c, x) \in T
  <2>1. PICK w, r, q, d, f : /\ w = Split(c).whole /\ r = Split(c).rest /\ q = App(r, x)
                             /\ d = App(c, x) /\ f = FlattenSeq(w)
    OBVIOUS
  <2>2. w \in Seq(Seq(Nat)) /\ r \in Seq(Nat) /\ f \in Seq(Nat)
    BY <2>1, SplitFacts
  <2>3. q \in Seq(Nat)
    BY <2>1, <2>2, SetOfAppend
  <2>4. d \in Seq(Nat)
    BY <2>1, SetOfAppend
  <2>5. Fact(w)
    BY <1>2, <2>1
  <2>6. CASE ~Whole(q)
    <3>1. Split(d) = [whole |-> w, rest |-> q]
      BY <2>1, <2>6, SplitStep
    <3>2. Split(d).whole = w
      BY <3>1
    <3> HIDE DEF Fact
    <3> QED BY <2>1, <2>4, <2>5, <3>2
  <2>7. CASE Whole(q)
    <3>1. Split(d) = [whole |-> App(w, q), rest |-> <<>>]
      BY <2>1, <2>7, SplitStep
    <3>2. Split(d).whole = App(w, q)
      BY <3>1
    <3>3. PICK g : g = FlattenSeq(App(w, q))
      OBVIOUS
    <3>4. g = Cat(f, q)
      BY <2>1, <2>2, <2>3, <3>3, FlatCat
    <3>5. PICK v : v = Accepted(w)
      OBVIOUS
    <3>6. PICK e : e = data(q)
      OBVIOUS
    <3>7. PICK z : z = Accepted(App(w, q))
      OBVIOUS
    <3>8. z = IF IsForTopic(q) THEN App(v, e) ELSE v
      BY <2>2, <2>3, <3>5, <3>6, <3>7, AcceptedAppend
    <3>9. v \in Seq(Values)
      BY <2>2, <3>5, AcceptedAppend
    <3>10. ASSUME WellFormed(g), Ascending(g)
           PROVE  ToSet(z) \subseteq Numbers(g) /\ IsInjective(z)
      <4>1. WellFormed(f) /\ WellFormed(q)
        BY <2>2, <2>3, <3>4, <3>10, StreamParts
      <4>2. Numbers(f) \cup Numbers(q) \subseteq Numbers(g)
        BY <2>2, <2>3, <3>4, StreamParts
      <4>3. Ascending(f) /\ Numbers(f) \cap Numbers(q) = {}
        BY <2>2, <2>3, <3>4, <3>10, StreamParts
      <4>4. ToSet(v) \subseteq Numbers(f) /\ IsInjective(v)
        BY <2>1, <2>5, <3>5, <4>1, <4>3
      <4>5. CASE ~IsForTopic(q)
        BY <3>8, <4>2, <4>4, <4>5
      <4>6. CASE IsForTopic(q)
        <5>1. e \in Numbers(q) /\ e \in Values
          <6>1. 4 \in Ends(q) /\ data(q) = q[4] /\ q[4] \in Nat
            BY <2>3, <2>7, <4>1, <4>6, ForTopicIsMessage
          <6> QED BY <3>6, <6>1 DEF Numbers, Values
        <5>2. e \notin ToSet(v)
          BY <4>3, <4>4, <5>1
        <5>3. ToSet(App(v, e)) = ToSet(v) \cup {e} /\ IsInjective(App(v, e))
          BY <3>9, <4>4, <5>1, <5>2, SetOfAppend
        <5>4. z = App(v, e)
          BY <3>8, <4>6
        <5> QED BY <4>2, <4>4, <5>1, <5>3, <5>4
      <4> QED BY <4>5, <4>6
    <3>11. Fact(App(w, q))
      BY <3>3, <3>7, <3>10
    <3> HIDE DEF Fact
    <3> QED BY <2>1, <2>4, <3>2, <3>11
  <2> QED BY <2>6, <2>7
<1>3. b \in T
  <2> HIDE DEF T
  <2> QED BY <1>1, <1>2, SeqInduction
<1> QED BY <1>3

\* The bytes of a message.
LEMMA MessageBytes ==
    ASSUME NEW n \in Nat, NEW m, m = toByteArray(n)
    PROVE  /\ m \in Seq(Nat) /\ Len(m) = 4
           /\ m[1] = 131 /\ m[2] = 2 /\ m[3] = 0 /\ m[4] = n
BY DEF toByteArray, WebSocketPublishText, Topic

\* A message with a greater number may follow complete messages.
LEMMA StreamAppend ==
    ASSUME NEW b \in Seq(Nat), NEW n \in 256..(255 + MaxMessages),
           WellFormed(b), Ascending(b), Complete(b), \A k \in Numbers(b) : k < n
    PROVE  /\ Cat(b, toByteArray(n)) \in Seq(Nat)
           /\ WellFormed(Cat(b, toByteArray(n))) /\ Ascending(Cat(b, toByteArray(n)))
           /\ Complete(Cat(b, toByteArray(n)))
           /\ Numbers(Cat(b, toByteArray(n))) \subseteq Numbers(b) \cup {n}
<1> USE SystemBusAssumptions
<1>0. PICK m : m = toByteArray(n)
  OBVIOUS
<1>1. PICK u : u = Cat(b, m)
  OBVIOUS
<1>2. n \in Nat /\ n >= 256
  OBVIOUS
<1>3. /\ m \in Seq(Nat) /\ Len(m) = 4
      /\ m[1] = 131 /\ m[2] = 2 /\ m[3] = 0 /\ m[4] = n
  BY <1>0, <1>2, MessageBytes
<1>4. PICK l \in Nat : l = Len(b)
  BY LenProperties
<1>5. u \in Seq(Nat)
  BY <1>1, <1>3, CatSet
<1>6. /\ Len(u) = l + 4
      /\ \A i \in 1..l : u[i] = b[i]
      /\ \A i \in 1..4 : u[l + i] = m[i]
  <2>1. m \in Seq(Nat)
    BY <1>3
  <2>2. PICK k \in Nat : k = Len(m)
    BY <2>1, LenProperties
  <2>3. /\ Len(u) = l + k
        /\ \A i \in 1..l : u[i] = b[i]
        /\ \A i \in 1..k : u[l + i] = m[i]
    BY <1>1, <1>4, <2>1, <2>2, CatAt
  <2> QED BY <1>3, <2>2, <2>3
<1>7. u[l + 1] = 131 /\ u[l + 2] = 2 /\ u[l + 3] = 0 /\ u[l + 4] = n
  BY <1>3, <1>6
<1>8. \A i \in 1..l : b[i] \in Nat /\ u[i] \in Nat
  BY <1>4, <1>6, ElementOfSeq
<1>9. \A i \in 1..l + 4 : \/ i \in 1..l \/ i = l + 1 \/ i = l + 2 \/ i = l + 3 \/ i = l + 4
  OBVIOUS
<1>10. \A i \in 1..l + 4 : u[i] = 131 => i = l + 1 \/ (i \in 1..l /\ i + 3 \in 1..l)
  <2> SUFFICES ASSUME NEW i \in 1..l + 4, u[i] = 131, i # l + 1
               PROVE  i \in 1..l /\ i + 3 \in 1..l
    OBVIOUS
  <2>1. i \in 1..l
    <3>1. CASE i = l + 2
      BY <1>7, <3>1
    <3>2. CASE i = l + 3
      BY <1>7, <3>2
    <3>3. CASE i = l + 4
      BY <1>2, <1>7, <3>3
    <3> QED BY <1>9, <3>1, <3>2, <3>3
  <2>2. b[i] = 131
    BY <1>6, <2>1
  <2>3. \E j \in 1..l : j = i + 3
    BY <1>4, <2>1, <2>2 DEF Complete
  <2> QED BY <2>1, <2>3
<1>11. WellFormed(u)
  <2> SUFFICES ASSUME NEW i \in 1..l + 4, NEW j \in 1..l + 4 PROVE Fits(u[i], u[j], j - i)
    BY <1>6 DEF WellFormed
  <2>1. CASE i \in 1..l /\ j \in 1..l
    <3>1. Fits(b[i], b[j], j - i)
      BY <1>4, <2>1 DEF WellFormed
    <3> QED BY <1>6, <2>1, <3>1
  <2>2. CASE i \in 1..l /\ j > l
    <3>1. PICK x, y : x = u[i] /\ y = u[j]
      OBVIOUS
    <3>2. x = b[i] /\ x \in Nat
      BY <1>6, <1>8, <2>2, <3>1
    <3>3. x < 256 => x \in {0, 2, 131}
      <4>1. Fits(b[i], b[i], i - i)
        BY <1>4, <2>2 DEF WellFormed
      <4> QED BY <3>2, <4>1 DEF Fits
    <3>4. x = 131 => j - i > 3
      <4> SUFFICES ASSUME x = 131 PROVE j - i > 3
        OBVIOUS
      <4>1. i # l + 1
        BY <2>2
      <4>2. i + 3 \in 1..l
        BY <1>10, <3>1, <4>1
      <4> QED BY <2>2, <4>2
    <3>5. x >= 256 => i = l \/ j - i > 2
      <4> SUFFICES ASSUME x >= 256, i # l, ~(j - i > 2) PROVE FALSE
        OBVIOUS
      <4>1. i + 1 = l /\ l \in 1..l /\ l - i = 1
        BY <2>2
      <4>2. Fits(b[i], b[l], 1)
        BY <1>4, <2>2, <4>1 DEF WellFormed
      <4>3. b[l] = 131
        BY <3>2, <4>2 DEF Fits
      <4>4. \E k \in 1..l : k = l + 3
        BY <1>4, <4>1, <4>3 DEF Complete
      <4> QED BY <4>4
    <3>6. i = l => /\ j - i = 1 => y = 131
                   /\ j - i = 2 => y = 2
      <4> SUFFICES ASSUME i = l PROVE /\ j - i = 1 => y = 131
                                      /\ j - i = 2 => y = 2
        OBVIOUS
      <4>1. j - i = 1 => j = l + 1
        OBVIOUS
      <4>2. j - i = 2 => j = l + 2
        OBVIOUS
      <4> QED BY <1>7, <3>1, <4>1, <4>2
    <3>7. PICK d \in Int : d = j - i
      OBVIOUS
    <3>8. Fits(x, y, d)
      <4>1. x = 131 => d # 1 /\ d # 2 /\ d # 3
        BY <3>4, <3>7
      <4>2. x >= 256 => (d = 1 => y = 131) /\ (d = 2 => y = 2)
        BY <3>5, <3>6, <3>7
      <4> QED BY <3>3, <4>1, <4>2 DEF Fits
    <3> QED BY <3>1, <3>7, <3>8
  <2>3. CASE i = l + 1
    <3>1. PICK d \in Int : d = j - i
      OBVIOUS
    <3>2. (d = 1 => j = l + 2) /\ (d = 2 => j = l + 3) /\ (d = 3 => j = l + 4)
      BY <2>3, <3>1
    <3>3. PICK y : y = u[j]
      OBVIOUS
    <3>4. (d = 1 => y = 2) /\ (d = 2 => y = 0) /\ (d = 3 => y = n)
      BY <1>7, <3>2, <3>3
    <3>5. Fits(131, y, d)
      BY <3>4 DEF Fits
    <3> QED BY <1>7, <2>3, <3>1, <3>3, <3>5
  <2>4. CASE i = l + 2 \/ i = l + 3
    <3>1. u[i] = 2 \/ u[i] = 0
      BY <1>7, <2>4
    <3> QED BY <3>1 DEF Fits
  <2>5. CASE i = l + 4
    <3>1. PICK d \in Int : d = j - i /\ d # 1 /\ d # 2
      BY <2>5
    <3>2. Fits(n, u[j], d)
      BY <1>2, <3>1 DEF Fits
    <3> QED BY <1>7, <2>5, <3>1, <3>2
  <2> QED BY <1>9, <2>1, <2>2, <2>3, <2>4, <2>5
<1>12. \A j \in Ends(u) : j = l + 4 \/ (j \in Ends(b) /\ j \in 1..l)
  <2> SUFFICES ASSUME NEW j \in Ends(u), j # l + 4 PROVE j \in Ends(b) /\ j \in 1..l
    OBVIOUS
  <2>1. PICK i \in 1..l + 4 : u[i] = 131 /\ j = i + 3 /\ j \in 1..l + 4
    BY <1>6 DEF Ends
  <2>2. i # l + 1
    BY <2>1
  <2>3. i \in 1..l /\ j \in 1..l
    BY <1>10, <2>1, <2>2
  <2>4. b[i] = 131
    BY <1>6, <2>1, <2>3
  <2> QED BY <1>4, <2>1, <2>3, <2>4 DEF Ends
<1>13. \A j \in Ends(b) : j \in 1..l /\ b[j] \in Numbers(b)
  BY <1>4 DEF Ends, Numbers
<1>14. Numbers(u) \subseteq Numbers(b) \cup {n}
  <2> SUFFICES ASSUME NEW j \in Ends(u) PROVE u[j] \in Numbers(b) \cup {n}
    BY DEF Numbers
  <2>1. CASE j = l + 4
    BY <1>7, <2>1
  <2>2. CASE j \in Ends(b) /\ j \in 1..l
    <3>1. u[j] = b[j]
      BY <1>6, <2>2
    <3>2. b[j] \in Numbers(b)
      BY <1>13, <2>2
    <3> QED BY <3>1, <3>2
  <2> QED BY <1>12, <2>1, <2>2
<1>15. Ascending(u)
  <2> SUFFICES ASSUME NEW i \in Ends(u), NEW j \in Ends(u), i < j PROVE u[i] < u[j]
    BY DEF Ascending
  <2>1. CASE i \in Ends(b) /\ j \in Ends(b)
    <3>1. b[i] < b[j]
      BY <2>1 DEF Ascending
    <3> QED BY <1>6, <1>13, <2>1, <3>1
  <2>2. CASE i \in Ends(b) /\ j = l + 4
    <3>1. b[i] < n
      BY <1>13, <2>2
    <3> QED BY <1>6, <1>7, <1>13, <2>2, <3>1
  <2>3. CASE i = l + 4
    <3>1. j = l + 4 \/ j <= l
      BY <1>12
    <3> QED BY <2>3, <3>1
  <2> QED BY <1>12, <2>1, <2>2, <2>3
<1>16. Complete(u)
  <2> SUFFICES ASSUME NEW i \in 1..l + 4, u[i] = 131 PROVE \E j \in 1..l + 4 : j = i + 3
    BY <1>6 DEF Complete
  <2> QED BY <1>10
<1> QED BY <1>0, <1>1, <1>5, <1>11, <1>14, <1>15, <1>16

\* A message is split into itself, and its number is accepted.
LEMMA MessageSplit ==
    ASSUME NEW n \in Nat
    PROVE  /\ toByteArray(n) \in Seq(Nat)
           /\ Split(toByteArray(n)).rest = <<>>
           /\ Accepted(Split(toByteArray(n)).whole) = App(<<>>, n)
<1>1. <<>> \in Seq(Nat) /\ <<>> \in Seq(Seq(Nat))
  BY EmptySeq
<1>0. PICK x \in Nat, y \in Nat, z \in Nat : x = 131 /\ y = 2 /\ z = 0
  OBVIOUS
<1>2. PICK a : a = App(<<>>, x)
  OBVIOUS
<1>3. PICK b : b = App(a, y)
  OBVIOUS
<1>4. PICK c : c = App(b, z)
  OBVIOUS
<1>5. PICK d : d = App(c, n)
  OBVIOUS
<1>6. a \in Seq(Nat) /\ Len(a) = 1 /\ a[1] = 131
  BY <1>0, <1>2 DEF App
<1>7. b \in Seq(Nat) /\ Len(b) = 2 /\ b[1] = 131 /\ b[2] = 2
  <2>1. a \in Seq(Nat) /\ y \in Nat
    BY <1>6
  <2>2. PICK l \in Nat, k \in Nat : l = Len(a) /\ k = l + 1
    BY <2>1, LenProperties
  <2>3. b \in Seq(Nat) /\ Len(b) = k /\ b[k] = y /\ \A i \in 1..l : b[i] = a[i]
    BY <1>3, <2>1, <2>2, AppendProperties DEF App
  <2>4. 1 \in 1..1 /\ 1 + 1 = 2
    OBVIOUS
  <2> QED BY <1>0, <1>6, <2>1, <2>2, <2>3, <2>4
<1>8. c \in Seq(Nat) /\ Len(c) = 3 /\ c[1] = 131 /\ c[2] = 2 /\ c[3] = 0
  <2>1. b \in Seq(Nat) /\ z \in Nat
    BY <1>7
  <2>2. PICK l \in Nat, k \in Nat : l = Len(b) /\ k = l + 1
    BY <2>1, LenProperties
  <2>3. c \in Seq(Nat) /\ Len(c) = k /\ c[k] = z /\ \A i \in 1..l : c[i] = b[i]
    BY <1>4, <2>1, <2>2, AppendProperties DEF App
  <2>4. 1 \in 1..2 /\ 2 \in 1..2 /\ 2 + 1 = 3
    OBVIOUS
  <2> QED BY <1>0, <1>7, <2>1, <2>2, <2>3, <2>4
<1>9. d \in Seq(Nat) /\ Len(d) = 4 /\ d[1] = 131 /\ d[2] = 2 /\ d[3] = 0 /\ d[4] = n
  <2>1. c \in Seq(Nat) /\ n \in Nat
    BY <1>8
  <2>2. PICK l \in Nat, k \in Nat : l = Len(c) /\ k = l + 1
    BY <2>1, LenProperties
  <2>3. d \in Seq(Nat) /\ Len(d) = k /\ d[k] = n /\ \A i \in 1..l : d[i] = c[i]
    BY <1>5, <2>1, <2>2, AppendProperties DEF App
  <2>4. 1 \in 1..3 /\ 2 \in 1..3 /\ 3 \in 1..3 /\ 3 + 1 = 4
    OBVIOUS
  <2> QED BY <1>0, <1>8, <2>1, <2>2, <2>3, <2>4
<1>10. d = toByteArray(n)
  <2>1. PICK m : m = toByteArray(n)
    OBVIOUS
  <2>2. m \in Seq(Nat) /\ Len(m) = 4 /\ m[1] = 131 /\ m[2] = 2 /\ m[3] = 0 /\ m[4] = n
    BY <2>1, MessageBytes
  <2>3. \A i \in 1..4 : i = 1 \/ i = 2 \/ i = 3 \/ i = 4
    OBVIOUS
  <2>4. \A i \in 1..Len(d) : d[i] = m[i]
    BY <1>9, <2>2, <2>3
  <2>5. Len(d) = Len(m)
    BY <1>9, <2>2
  <2> QED BY <1>9, <2>1, <2>2, <2>4, <2>5, SeqEqual
<1>11. ~Whole(a) /\ ~Whole(b) /\ ~Whole(c) /\ Whole(d)
  <2>1. Value(2) = 2
    BY ByteValue
  <2> QED BY <1>6, <1>7, <1>8, <1>9, <2>1 DEF Whole, HEADER_LEN
<1>12. Split(<<>>).whole = <<>> /\ Split(<<>>).rest = <<>>
  BY SplitEmpty
<1>13. Split(a).whole = <<>> /\ Split(a).rest = a
  <2>1. a = App(Split(<<>>).rest, x) /\ x \in Nat
    BY <1>2, <1>12
  <2>2. Split(App(<<>>, x)) = [whole |-> Split(<<>>).whole, rest |-> a]
    BY <1>1, <1>11, <2>1, SplitStep
  <2> QED BY <1>2, <1>12, <2>2
<1>14. Split(b).whole = <<>> /\ Split(b).rest = b
  <2>1. b = App(Split(a).rest, y) /\ y \in Nat
    BY <1>3, <1>13
  <2>2. Split(App(a, y)) = [whole |-> Split(a).whole, rest |-> b]
    BY <1>6, <1>11, <2>1, SplitStep
  <2> QED BY <1>3, <1>13, <2>2
<1>15. Split(c).whole = <<>> /\ Split(c).rest = c
  <2>1. c = App(Split(b).rest, z) /\ z \in Nat
    BY <1>4, <1>14
  <2>2. Split(App(b, z)) = [whole |-> Split(b).whole, rest |-> c]
    BY <1>7, <1>11, <2>1, SplitStep
  <2> QED BY <1>4, <1>14, <2>2
<1>16. Split(d).whole = App(<<>>, d) /\ Split(d).rest = <<>>
  <2>1. d = App(Split(c).rest, n)
    BY <1>5, <1>15
  <2>2. Split(App(c, n)) = [whole |-> App(Split(c).whole, d), rest |-> <<>>]
    BY <1>8, <1>11, <2>1, SplitStep
  <2>3. Split(d) = [whole |-> App(<<>>, d), rest |-> <<>>]
    BY <1>5, <1>15, <2>2
  <2> QED BY <2>3
<1>17. Accepted(App(<<>>, d)) = App(Accepted(<<>>), data(d))
  <2>0. Value(131) = 131 /\ Value(0) = 0
    BY ByteValue
  <2>1. IsForTopic(d)
    BY <1>9, <2>0 DEF IsForTopic, validate, HEADER_LEN, Topic
  <2> QED BY <1>1, <1>9, <2>1, AcceptedAppend
<1>18. data(d) = n
  BY <1>9 DEF data, HEADER_LEN
<1> QED BY <1>9, <1>10, <1>16, <1>17, <1>18, AcceptedEmpty

-----------------------------------------------------------------------------
(* Parts of sequences.                                                      *)

\* What is read of a socket, and what stays there.
LEMMA CutInTwo ==
    ASSUME NEW q \in Seq(Nat), NEW k \in 0..Len(q)
    PROVE  /\ SubSeq(q, 1, k) \in Seq(Nat) /\ SubSeq(q, k + 1, Len(q)) \in Seq(Nat)
           /\ Cat(SubSeq(q, 1, k), SubSeq(q, k + 1, Len(q))) = q
<1>1. PICK n \in Nat : n = Len(q)
  BY LenProperties
<1>2. \A i \in 1..n : q[i] \in Nat
  BY <1>1, ElementOfSeq
<1>3. k \in Int /\ n \in Int /\ k + 1 \in Int /\ 1..k \subseteq 1..n /\ (k + 1)..n \subseteq 1..n
  BY <1>1
<1>4. SubSeq(q, 1, k) \in Seq(Nat)
  BY <1>2, <1>3, SubSeqProperties
<1>5. SubSeq(q, k + 1, n) \in Seq(Nat)
  BY <1>2, <1>3, SubSeqProperties
<1>6. SubSeq(q, 1, k) \o SubSeq(q, k + 1, n) = q
  <2>1. 1 \in 1..n + 1 /\ k \in (1 - 1)..n /\ n \in k..n
    BY <1>1
  <2>2. SubSeq(q, 1, k) \o SubSeq(q, k + 1, n) = SubSeq(q, 1, n)
    BY <1>1, <2>1, ConcatAdjacentSubSeq
  <2> QED BY <1>1, <2>2, SubSeqFull
<1> QED BY <1>1, <1>4, <1>5, <1>6 DEF Cat

\* A sequence that stands in another.
Part(m, q) == \E i \in 1..(Len(q) + 1), j \in 0..Len(q) : m = SubSeq(q, i, j)

\* The middle one of three is a subsequence.
LEMMA MiddleIsSubSeq ==
    ASSUME NEW A, NEW a \in Seq(A), NEW b \in Seq(A), NEW c \in Seq(A),
           NEW u, u = Cat(a, Cat(b, c))
    PROVE  Part(b, u)
<1>1. PICK l \in Nat, m \in Nat, n \in Nat : l = Len(a) /\ m = Len(b) /\ n = Len(c)
  BY LenProperties
<1>2. PICK v : v = Cat(b, c)
  OBVIOUS
<1>3. v \in Seq(A)
  BY <1>2, CatSet
<1>4. u \in Seq(A)
  BY <1>2, <1>3, CatSet
<1>0. PICK k \in Nat : k = Len(v)
  BY <1>3, LenProperties
<1>5. k = m + n /\ \A i \in 1..m : v[i] = b[i]
  BY <1>0, <1>1, <1>2, CatAt
<1>6. k = m + n
  BY <1>5
<1>7. Len(u) = l + k /\ \A i \in 1..k : u[l + i] = v[i]
  <2>1. PICK y : y = Cat(a, v)
    OBVIOUS
  <2>2. Len(y) = l + k
    BY <1>0, <1>1, <1>3, <2>1, CatAt
  <2>3. \A i \in 1..k : y[l + i] = v[i]
    <3>1. \A i \in 1..Len(v) : Cat(a, v)[Len(a) + i] = v[i]
      BY <1>3, CatAt
    <3> QED BY <1>0, <1>1, <2>1, <3>1
  <2>4. y = u
    BY <1>2, <2>1
  <2> QED BY <2>2, <2>3, <2>4
<1>8. \A i \in 1..m : u[l + i] = b[i]
  BY <1>5, <1>6, <1>7
<1>9. PICK i \in Int, j \in Int : i = l + 1 /\ j = l + m
  OBVIOUS
<1>10. PICK d : d = SubSeq(u, i, j)
  OBVIOUS
<1>11. /\ d \in Seq(A) /\ Len(d) = (IF i <= j THEN j - i + 1 ELSE 0)
       /\ \A h \in 1..j - i + 1 : d[h] = u[i + h - 1]
  <2>1. \A h \in 1..l + k : u[h] \in A
    BY <1>4, <1>7, ElementOfSeq
  <2>2. \A h \in i..j : u[h] \in A
    BY <1>6, <1>9, <2>1
  <2> QED BY <1>10, <2>2, SubSeqProperties
<1>12. Len(d) = m
  BY <1>9, <1>11
<1>13. \A h \in 1..m : d[h] = b[h]
  <2> SUFFICES ASSUME NEW h \in 1..m PROVE d[h] = b[h]
    OBVIOUS
  <2>1. h \in 1..j - i + 1 /\ i + h - 1 = l + h
    BY <1>9
  <2>2. d[h] = u[i + h - 1]
    BY <1>11, <2>1
  <2> QED BY <1>8, <2>1, <2>2
<1>14. d = b
  <2>1. Len(d) = Len(b) /\ \A h \in 1..Len(d) : d[h] = b[h]
    BY <1>1, <1>12, <1>13
  <2> QED BY <1>11, <2>1, SeqEqual
<1>15. i \in 1..(Len(u) + 1) /\ j \in 0..Len(u)
  BY <1>6, <1>7, <1>9
<1> QED BY <1>10, <1>14, <1>15 DEF Part

\* Pub::publish() of messages, through one connection or none.
LEMMA Signals ==
    ASSUME NEW ns \in Seq(Values)
    PROVE  /\ FlattenSeq([i \in 1..Len(ns) |-> [k \in 1..1 |-> ns[i]]]) = ns
           /\ FlattenSeq([i \in 1..Len(ns) |-> [k \in 1..0 |-> ns[i]]]) = <<>>
<1> DEFINE Copies(s, c) == [i \in 1..Len(s) |-> [k \in 1..c |-> s[i]]]
<1>1. ASSUME NEW s \in Seq(Values), NEW c \in {0, 1}
      PROVE  Copies(s, c) \in Seq(Seq(Values))
  <2>1. PICK l \in Nat : l = Len(s)
    BY LenProperties
  <2>2. \A i \in 1..l : s[i] \in Values
    BY <2>1, ElementOfSeq
  <2>3. ASSUME NEW i \in 1..l PROVE [k \in 1..c |-> s[i]] \in Seq(Values)
    <3>1. [k \in 1..c |-> s[i]] \in [1..c -> Values] /\ c \in Nat
      BY <2>2
    <3>2. PICK f : f = [k \in 1..c |-> s[i]]
      OBVIOUS
    <3> QED BY <3>1, <3>2, SeqDef
  <2>4. PICK f : f = Copies(s, c)
    OBVIOUS
  <2>5. f \in [1..l -> Seq(Values)]
    BY <2>1, <2>3, <2>4
  <2> QED BY <2>4, <2>5, SeqDef
<1>2. ASSUME NEW s \in Seq(Values), NEW x \in Values, NEW c \in {0, 1}
      PROVE  Copies(App(s, x), c) = App(Copies(s, c), [k \in 1..c |-> x])
  <2>1. PICK l \in Nat, j \in Nat : l = Len(s) /\ j = l + 1
    BY LenProperties
  <2>2. PICK t : t = App(s, x)
    OBVIOUS
  <2>3. t \in Seq(Values) /\ Len(t) = j /\ t[j] = x /\ \A i \in 1..l : t[i] = s[i]
    BY <2>1, <2>2, AppendProperties DEF App
  <2>4. PICK f : f = Copies(s, c)
    OBVIOUS
  <2>5. f \in Seq(Seq(Values)) /\ Len(f) = l /\ \A i \in 1..l : f[i] = [k \in 1..c |-> s[i]]
    <3>1. f \in Seq(Seq(Values))
      BY <1>1, <2>4
    <3>2. DOMAIN f = 1..l /\ \A i \in 1..l : f[i] = [k \in 1..c |-> s[i]]
      BY <2>1, <2>4
    <3>3. DOMAIN f = 1..Len(f) /\ Len(f) \in Nat
      BY <3>1, LenProperties
    <3> QED BY <3>1, <3>2, <3>3
  <2>6. PICK y : y = [k \in 1..c |-> x]
    OBVIOUS
  <2>7. y \in Seq(Values)
    <3>1. y \in [1..c -> Values] /\ c \in Nat
      BY <2>6
    <3> QED BY <3>1, SeqDef
  <2>8. PICK g : g = App(f, y)
    OBVIOUS
  <2>9. g \in Seq(Seq(Values)) /\ Len(g) = j /\ g[j] = y /\ \A i \in 1..l : g[i] = f[i]
    BY <2>1, <2>5, <2>7, <2>8, AppendProperties DEF App
  <2>10. g = [i \in 1..j |-> [k \in 1..c |-> t[i]]]
    <3>1. g = [i \in 1..j |-> g[i]]
      BY <2>9, LenProperties
    <3>2. ASSUME NEW i \in 1..j PROVE g[i] = [k \in 1..c |-> t[i]]
      <4>1. CASE i = j
        BY <2>3, <2>6, <2>9, <4>1
      <4>2. CASE i \in 1..l
        <5>1. g[i] = f[i]
          BY <2>9, <4>2
        <5>2. f[i] = [k \in 1..c |-> s[i]]
          BY <2>5, <4>2
        <5>3. t[i] = s[i]
          BY <2>3, <4>2
        <5> QED BY <5>1, <5>2, <5>3
      <4> QED BY <2>1, <4>1, <4>2
    <3> QED BY <3>1, <3>2
  <2> QED BY <2>2, <2>3, <2>4, <2>6, <2>8, <2>10
<1>3. \A c \in {0, 1} : Copies(<<>>, c) = <<>>
  BY EmptySeq
<1> HIDE DEF Copies
<1>4. ASSUME NEW s \in Seq(Values), NEW x \in Values, NEW c \in {0, 1}
      PROVE  FlattenSeq(Copies(App(s, x), c)) = Cat(FlattenSeq(Copies(s, c)), [k \in 1..c |-> x])
  <2>1. PICK y : y = [k \in 1..c |-> x]
    OBVIOUS
  <2>2. y \in Seq(Values)
    <3>1. y \in [1..c -> Values] /\ c \in Nat
      BY <2>1
    <3> QED BY <3>1, SeqDef
  <2>3. Copies(App(s, x), c) = App(Copies(s, c), y)
    BY <1>2, <2>1
  <2>4. Copies(s, c) \in Seq(Seq(Values))
    BY <1>1
  <2>5. FlattenSeq(App(Copies(s, c), y)) = Cat(FlattenSeq(Copies(s, c)), y)
    BY <2>2, <2>4, FlatCat
  <2> QED BY <2>1, <2>3, <2>5
<1> DEFINE T == {s \in Seq(Values) : /\ FlattenSeq(Copies(s, 1)) = s
                                     /\ FlattenSeq(Copies(s, 0)) = <<>>}
<1>5. <<>> \in T
  BY <1>3, FlatEmpty, EmptySeq
<1>6. ASSUME NEW s \in Seq(Values), NEW x \in Values, s \in T PROVE App(s, x) \in T
  <2>1. App(s, x) \in Seq(Values)
    BY SetOfAppend
  <2>2. FlattenSeq(Copies(App(s, x), 0)) = <<>>
    <3>1. [k \in 1..0 |-> x] = <<>>
      OBVIOUS
    <3>2. Cat(<<>>, <<>>) = <<>>
      BY CatEmpty, EmptySeq
    <3>3. FlattenSeq(Copies(s, 0)) = <<>>
      BY <1>6
    <3> QED BY <1>4, <3>1, <3>2, <3>3
  <2>3. FlattenSeq(Copies(App(s, x), 1)) = App(s, x)
    <3>1. [k \in 1..1 |-> x] = <<x>>
      OBVIOUS
    <3>2. Cat(s, <<x>>) = App(s, x)
      BY AppendIsConcat DEF Cat, App
    <3>3. FlattenSeq(Copies(s, 1)) = s
      BY <1>6
    <3>4. FlattenSeq(Copies(App(s, x), 1)) = Cat(FlattenSeq(Copies(s, 1)), [k \in 1..1 |-> x])
      BY <1>4
    <3> QED BY <3>1, <3>2, <3>3, <3>4
  <2> QED BY <2>1, <2>2, <2>3
<1> HIDE DEF T
<1>7. ns \in T
  BY <1>5, <1>6, SeqInduction
<1> QED BY <1>7 DEF T, Copies

-----------------------------------------------------------------------------
(* The inductive invariant.                                                 *)

\* The bytes of a server that the daemon has not passed on: what it has read of the
\* message it waits for, what is in the socket, and what is in the server.
Stream(s) == Cat(IF reading = s THEN buf ELSE <<>>, Cat(toDaemon[s], sendBuffer[s]))

\* The bytes that a server has not taken for messages yet ...
Incoming(t) == Cat(readBuffer[t], toServer[t])

\* ... and all it has received when it has.
Rcv(t) == Cat(received[t], Accepted(Split(Incoming(t)).whole))

\* The messages that a server's bytes are, if they are read from a first byte on.
Coming(s) == Accepted(Split(Stream(s)).whole)

\* What has become of the messages of s for t: they are received, or on the way.
All(s, t) == Cat(Only(Rcv(t), ToSet(sent[s])), Coming(s))

BusTypes ==
    /\ up \in [Servers -> BOOLEAN] /\ cut \in [Servers -> BOOLEAN]
    /\ sendBuffer \in [Servers -> Seq(Nat)] /\ readBuffer \in [Servers -> Seq(Nat)]
    /\ toDaemon \in [Servers -> Seq(Nat)] /\ toServer \in [Servers -> Seq(Nat)]
    /\ buf \in Seq(Nat) /\ reading \in Servers \cup {Nobody} /\ socketSet \subseteq Servers
    /\ sent \in [Servers -> Seq(Values)] /\ received \in [Servers -> Seq(Values)]
    /\ got \in [Sockets -> Seq(Values)]
    /\ messages \in 0..MaxMessages
    /\ local \in [Sockets -> {"none", "on", "off"}] /\ connections \in [Sockets -> {0, 1}]
    /\ publishing \in [Servers -> SUBSET Nat]

\* A server that is down has nothing left but what is in its socket.  One that is not
\* connected has died, and has nothing yet.
DownIsEmpty ==
    \A s \in Servers :
        /\ ~up[s] => /\ s \in crashed /\ publishing[s] = {}
                     /\ sendBuffer[s] = <<>> /\ readBuffer[s] = <<>>
                     /\ sent[s] = <<>> /\ received[s] = <<>>
        /\ s \notin socketSet => /\ s \in crashed
                                 /\ up[s] => /\ toServer[s] = <<>> /\ readBuffer[s] = <<>>
                                             /\ received[s] = <<>>

\* The daemon waits for the rest of a message of a connected server.
DaemonWaits ==
    /\ reading = Nobody <=> buf = <<>>
    /\ reading # Nobody => reading \in socketSet

\* A subscriber has one connection, and a published message is one of the server's.
Subscribed ==
    /\ \A x \in Sockets : connections[x] = IF local[x] = "none" THEN 0 ELSE 1
    /\ \A x \in Sockets : ~up[Home[x]] => got[x] = <<>>
    /\ \A s \in Servers : publishing[s] \subseteq ToSet(sent[s])

\* What is on its way to the daemon; the messages of different servers differ.
Streams ==
    /\ \A s \in Servers : /\ WellFormed(Stream(s)) /\ Ascending(Stream(s))
                          /\ Numbers(Stream(s)) \subseteq 256..(255 + messages)
                          /\ up[s] => Complete(Stream(s))
    /\ \A s, t \in Servers : s # t => Numbers(Stream(s)) \cap Numbers(Stream(t)) = {}

\* The daemon writes whole messages, and readBus() leaves none of them.
Aligned ==
    \A t \in Servers : up[t] => /\ Split(Incoming(t)).rest = <<>>
                                /\ Split(readBuffer[t]).whole = <<>>

\* No number is sent twice, comes back to its sender, or comes twice.
Once ==
    \A t \in Servers :
        /\ IsInjective(sent[t]) /\ ToSet(sent[t]) \subseteq 256..(255 + messages)
        /\ \A s \in Servers : s # t => Numbers(Stream(s)) \cap ToSet(sent[t]) = {}
        /\ up[t] => /\ IsInjective(Rcv(t)) /\ ToSet(Rcv(t)) \subseteq 256..(255 + messages)
                    /\ ToSet(Rcv(t)) \cap ToSet(sent[t]) = {}
                    /\ \A s \in Servers : s # t => Numbers(Stream(s)) \cap ToSet(Rcv(t)) = {}

\* What a subscriber has been sent is received from the bus, or published here.
GotOnce ==
    \A x \in Sockets :
        /\ IsInjective(got[x])
        /\ ToSet(got[x]) \subseteq ToSet(received[Home[x]])
                                   \cup (ToSet(sent[Home[x]]) \ publishing[Home[x]])

\* The bytes of a server that has not been cut start with a first byte, and are the
\* last messages it has sent.
Uncut ==
    \A s \in Servers :
        up[s] /\ ~cut[s] => /\ Split(Stream(s)).rest = <<>>
                            /\ \E pre \in Seq(Values) : sent[s] = Cat(pre, Coming(s))

\* Of its messages another server has the last ones, or will have them; one that has
\* never died has all of them.
Passed ==
    \A s, t \in Servers :
        s # t /\ up[s] /\ ~cut[s] /\ up[t] =>
            /\ \E pre \in Seq(Values) : sent[s] = Cat(pre, All(s, t))
            /\ t \notin crashed => sent[s] = All(s, t)

BusInv == /\ BusTypes /\ DownIsEmpty /\ DaemonWaits /\ Subscribed
          /\ Streams /\ Aligned /\ Once /\ GotOnce /\ Uncut /\ Passed

\* The types of the bytes and the messages on the way.
LEMMA StreamTypes ==
    ASSUME BusTypes, NEW s \in Servers
    PROVE  /\ Stream(s) \in Seq(Nat) /\ Incoming(s) \in Seq(Nat)
           /\ Rcv(s) \in Seq(Values) /\ Coming(s) \in Seq(Values)
           /\ Split(Incoming(s)).whole \in Seq(Seq(Nat))
           /\ Split(Stream(s)).whole \in Seq(Seq(Nat))
<1>1. PICK a : a = IF reading = s THEN buf ELSE <<>>
  OBVIOUS
<1>2. a \in Seq(Nat)
  BY <1>1, EmptySeq DEF BusTypes
<1>3. toDaemon[s] \in Seq(Nat) /\ sendBuffer[s] \in Seq(Nat)
  BY DEF BusTypes
<1>4. Cat(toDaemon[s], sendBuffer[s]) \in Seq(Nat)
  BY <1>3, CatSet
<1>5. Cat(a, Cat(toDaemon[s], sendBuffer[s])) \in Seq(Nat)
  BY <1>2, <1>4, CatSet
<1>6. Stream(s) \in Seq(Nat)
  BY <1>1, <1>5 DEF Stream
<1>7. readBuffer[s] \in Seq(Nat) /\ toServer[s] \in Seq(Nat) /\ received[s] \in Seq(Values)
  BY DEF BusTypes
<1>8. Incoming(s) \in Seq(Nat)
  BY <1>7, CatSet DEF Incoming
<1>9. Split(Incoming(s)).whole \in Seq(Seq(Nat))
  BY <1>8, SplitFacts
<1>10. Split(Stream(s)).whole \in Seq(Seq(Nat))
  BY <1>6, SplitFacts
<1>11. Coming(s) \in Seq(Values)
  BY <1>10, AcceptedAppend DEF Coming
<1>12. Accepted(Split(Incoming(s)).whole) \in Seq(Values)
  BY <1>9, AcceptedAppend
<1>13. Rcv(s) \in Seq(Values)
  BY <1>7, <1>12, CatSet DEF Rcv
<1> QED BY <1>6, <1>8, <1>9, <1>10, <1>11, <1>13

\* Emit() adds the messages to what a subscriber has been sent, once, or nothing.
LEMMA EmitAdds ==
    ASSUME BusTypes, NEW s \in Servers, NEW x, NEW ns \in Seq(Values), Emit(s, x, ns)
    PROVE  /\ got' \in [Sockets -> Seq(Values)]
           /\ \A y \in Sockets : \/ got'[y] = got[y]
                                 \/ Home[y] = s /\ got'[y] = Cat(got[y], ns)
<1> DEFINE Copies(c) == FlattenSeq([i \in 1..Len(ns) |-> [k \in 1..c |-> ns[i]]])
<1>1. Copies(1) = ns /\ Copies(0) = <<>>
  BY Signals
<1>2. PICK except : got' = [y \in Sockets |-> IF Home[y] = s /\ y # except
                                              THEN got[y] \o Copies(connections[y])
                                              ELSE got[y]]
  BY DEF Emit
<1> HIDE DEF Copies
<1>3. ASSUME NEW y \in Sockets
      PROVE  /\ got'[y] \in Seq(Values)
             /\ got'[y] = got[y] \/ (Home[y] = s /\ got'[y] = Cat(got[y], ns))
  <2>1. got[y] \in Seq(Values) /\ connections[y] \in {0, 1}
    BY DEF BusTypes
  <2>2. CASE ~(Home[y] = s /\ y # except)
    BY <1>2, <2>1, <2>2
  <2>3. CASE Home[y] = s /\ y # except /\ connections[y] = 0
    <3>1. got'[y] = Cat(got[y], <<>>)
      BY <1>1, <1>2, <2>3 DEF Cat
    <3>2. Cat(got[y], <<>>) = got[y]
      BY <2>1, CatEmpty
    <3> QED BY <2>1, <3>1, <3>2
  <2>4. CASE Home[y] = s /\ y # except /\ connections[y] = 1
    <3>1. got'[y] = Cat(got[y], ns)
      BY <1>1, <1>2, <2>4 DEF Cat
    <3>2. Cat(got[y], ns) \in Seq(Values)
      BY <2>1, CatSet
    <3> QED BY <2>4, <3>1, <3>2
  <2> QED BY <2>1, <2>2, <2>3, <2>4
<1>4. got' = [y \in Sockets |-> got'[y]]
  BY <1>2
<1> QED BY <1>3, <1>4

\* A step that changes neither what is on the way nor what is sent.
LEMMA NothingMoves ==
    ASSUME Streams, Once, Uncut, Passed,
           UNCHANGED <<up, cut, sent, messages, crashed>>,
           \A s \in Servers : Stream(s)' = Stream(s) /\ Rcv(s)' = Rcv(s)
    PROVE  Streams' /\ Once' /\ Uncut' /\ Passed'
<1>1. Streams'
  BY DEF Streams
<1>2. Once'
  BY DEF Once
<1>3. \A s \in Servers : Coming(s)' = Coming(s)
  BY DEF Coming
<1>4. Uncut'
  BY <1>3 DEF Uncut
<1>5. \A s, t \in Servers : All(s, t)' = All(s, t)
  BY <1>3 DEF All
<1>6. Passed'
  BY <1>5 DEF Passed
<1> QED BY <1>1, <1>2, <1>4, <1>6

\* Nothing, as bytes and as messages.
LEMMA Nothing ==
    /\ <<>> \in Seq(Nat) /\ <<>> \in Seq(Values) /\ Cat(<<>>, <<>>) = <<>>
    /\ Split(<<>>).whole = <<>> /\ Split(<<>>).rest = <<>> /\ Accepted(<<>>) = <<>>
    /\ WellFormed(<<>>) /\ Ascending(<<>>) /\ Complete(<<>>) /\ Numbers(<<>>) = {}
    /\ ToSet(<<>>) = {} /\ IsInjective(<<>>)
<1>1. <<>> \in Seq(Nat) /\ <<>> \in Seq(Values)
  BY EmptySeq
<1>2. Cat(<<>>, <<>>) = <<>>
  BY <1>1, CatEmpty
<1>3. Len(<<>>) = 0 /\ 1..0 = {}
  BY EmptySeq
<1>4. Ends(<<>>) = {}
  BY <1>3 DEF Ends
<1>5. /\ WellFormed(<<>>) /\ Complete(<<>>)
      /\ Numbers(<<>>) = {} /\ Ascending(<<>>)
  BY <1>3, <1>4 DEF WellFormed, Complete, Numbers, Ascending
<1>6. Split(<<>>).whole = <<>> /\ Split(<<>>).rest = <<>>
  BY SplitEmpty
<1>7. ToSet(<<>>) = {} /\ IsInjective(<<>>)
  BY SetOfEmpty
<1> QED BY <1>1, <1>2, <1>5, <1>6, <1>7, AcceptedEmpty

-----------------------------------------------------------------------------
(* The steps of the invariant, action by action.                            *)

\* The initial state.
LEMMA BusInitially == Init => BusInv
<1> SUFFICES ASSUME Init PROVE BusInv
  OBVIOUS
<1> USE SystemBusAssumptions
<1>1. BusTypes
  BY Nothing DEF Init, BusTypes
<1>2. DownIsEmpty
  BY DEF Init, DownIsEmpty
<1>3. DaemonWaits
  BY DEF Init, DaemonWaits
<1>4. Subscribed
  BY DEF Init, Subscribed
<1>5. \A s \in Servers : Stream(s) = <<>> /\ Incoming(s) = <<>>
  BY Nothing DEF Init, Stream, Incoming
<1>6. \A s \in Servers : sent[s] = <<>> /\ received[s] = <<>>
  BY DEF Init
<1>7. \A s \in Servers : Coming(s) = <<>> /\ Rcv(s) = <<>>
  BY <1>5, <1>6, Nothing DEF Coming, Rcv
<1>8. Streams
  BY <1>5, Nothing DEF Streams
<1>9. Aligned
  BY <1>5, Nothing DEF Aligned, Init
<1>10. Once
  BY <1>5, <1>6, <1>7, Nothing DEF Once
<1>11. GotOnce
  BY Nothing DEF GotOnce, Init
<1>12. Uncut
  BY <1>5, <1>6, <1>7, Nothing DEF Uncut
<1>13. \A s, t \in Servers : All(s, t) = <<>>
  BY <1>7, Nothing, OnlyEmpty DEF All
<1>14. Passed
  BY <1>6, <1>13, Nothing DEF Passed
<1> QED BY <1>1, <1>2, <1>3, <1>4, <1>8, <1>9, <1>10, <1>11, <1>12, <1>14 DEF BusInv

\* What TPublisher does by itself leaves the bus alone.
LEMMA BusUntouched ==
    ASSUME BusInv, UNCHANGED <<busVars, history>>
    PROVE  DaemonWaits' /\ Streams' /\ Aligned' /\ Once' /\ Uncut' /\ Passed'
<1>1. /\ UNCHANGED <<up, cut, sent, messages, crashed, received>>
      /\ UNCHANGED <<sendBuffer, readBuffer, toDaemon, toServer, socketSet, reading, buf>>
  BY DEF busVars, history
<1>2. \A s \in Servers : Stream(s)' = Stream(s) /\ Incoming(s)' = Incoming(s)
  BY <1>1 DEF Stream, Incoming
<1>3. \A s \in Servers : Rcv(s)' = Rcv(s)
  BY <1>1, <1>2 DEF Rcv
<1>4. Streams /\ Once /\ Uncut /\ Passed /\ Aligned /\ DaemonWaits
  BY DEF BusInv
<1>5. Streams' /\ Once' /\ Uncut' /\ Passed'
  BY <1>1, <1>2, <1>3, <1>4, NothingMoves
<1>6. Aligned'
  BY <1>1, <1>2, <1>4 DEF Aligned
<1>7. DaemonWaits'
  BY <1>1, <1>4 DEF DaemonWaits
<1> QED BY <1>5, <1>6, <1>7

\* subscribe() and unsubscribe()
LEMMA SubscribeKeeps ==
    ASSUME BusInv, NEW x \in Sockets,
           Unsubscribe(x) \/ \E flag \in {"on", "off"} : Subscribe(x, flag)
    PROVE  BusInv'
<1>1. UNCHANGED <<busVars, history, publishing, got>>
  BY DEF Subscribe, Unsubscribe
<1>2. /\ UNCHANGED <<up, cut, sent, messages, crashed, received, publishing, got>>
      /\ UNCHANGED <<sendBuffer, readBuffer, toDaemon, toServer, socketSet, reading, buf>>
  BY <1>1 DEF busVars, history
<1>3. DaemonWaits' /\ Streams' /\ Aligned' /\ Once' /\ Uncut' /\ Passed'
  BY <1>1, BusUntouched
<1>4. BusTypes /\ Subscribed /\ DownIsEmpty /\ GotOnce
  BY DEF BusInv
<1>5. /\ local' \in [Sockets -> {"none", "on", "off"}]
      /\ connections' \in [Sockets -> {0, 1}]
      /\ \A y \in Sockets : connections'[y] = IF local'[y] = "none" THEN 0 ELSE 1
  <2>1. CASE Unsubscribe(x)
    BY <1>4, <2>1 DEF Unsubscribe, BusTypes, Subscribed
  <2>2. ASSUME NEW flag \in {"on", "off"}, Subscribe(x, flag)
        PROVE  <1>5!1 /\ <1>5!2 /\ <1>5!3
    <3>1. /\ local' = [local EXCEPT ![x] = flag]
          /\ connections' = [connections EXCEPT ![x] = IF local[x] = "none" THEN @ + 1 ELSE @]
      BY <2>2 DEF Subscribe, subscribe
    <3>2. /\ connections[x] = IF local[x] = "none" THEN 0 ELSE 1
          /\ connections'[x] = 1
      BY <1>4, <3>1 DEF Subscribed, BusTypes
    <3> QED BY <1>4, <3>1, <3>2 DEF BusTypes, Subscribed
  <2> QED BY <2>1, <2>2
<1>6. BusTypes'
  BY <1>2, <1>4, <1>5 DEF BusTypes
<1>7. DownIsEmpty'
  BY <1>2, <1>4 DEF DownIsEmpty
<1>8. Subscribed'
  BY <1>2, <1>4, <1>5 DEF Subscribed
<1>9. GotOnce'
  BY <1>2, <1>4 DEF GotOnce
<1> QED BY <1>3, <1>6, <1>7, <1>8, <1>9 DEF BusInv

\* A step that changes nothing.
LEMMA StutterKeeps == ASSUME BusInv, UNCHANGED vars PROVE BusInv'
<1>1. /\ UNCHANGED <<up, cut, sent, messages, crashes, crashed, received, publishing, got, sender>>
      /\ UNCHANGED <<sendBuffer, readBuffer, toDaemon, toServer, socketSet, reading, buf>>
      /\ UNCHANGED <<local, connections>>
  BY DEF vars
<1>2. UNCHANGED <<busVars, history>>
  BY <1>1 DEF busVars, history
<1>3. DaemonWaits' /\ Streams' /\ Aligned' /\ Once' /\ Uncut' /\ Passed'
  BY <1>2, BusUntouched
<1>4. BusTypes /\ Subscribed /\ DownIsEmpty /\ GotOnce
  BY DEF BusInv
<1>5. BusTypes'
  BY <1>1, <1>4 DEF BusTypes
<1>6. DownIsEmpty'
  BY <1>1, <1>4 DEF DownIsEmpty
<1>7. Subscribed'
  BY <1>1, <1>4 DEF Subscribed
<1>8. GotOnce'
  BY <1>1, <1>4 DEF GotOnce
<1> QED BY <1>3, <1>5, <1>6, <1>7, <1>8 DEF BusInv

\* publish(), the subscribers of this server: the message is one that they have not
\* been sent, since it is still being published and the bus does not bring it back.
LEMMA PublishHereKeeps ==
    ASSUME BusInv, NEW s \in Servers, NEW n, PublishHere(s, n)
    PROVE  BusInv'
<1>1. /\ n \in publishing[s] /\ Emit(s, sender[n], <<n>>)
      /\ publishing' = [publishing EXCEPT ![s] = @ \ {n}]
      /\ UNCHANGED <<busVars, history>> /\ UNCHANGED <<local, connections>>
  BY DEF PublishHere
<1>2. /\ UNCHANGED <<up, cut, sent, messages, crashed, received>>
      /\ UNCHANGED <<sendBuffer, readBuffer, toDaemon, toServer, socketSet, reading, buf>>
  BY <1>1 DEF busVars, history
<1>3. DaemonWaits' /\ Streams' /\ Aligned' /\ Once' /\ Uncut' /\ Passed'
  BY <1>1, BusUntouched
<1>4. BusTypes /\ Subscribed /\ DownIsEmpty /\ GotOnce /\ Once
  BY DEF BusInv
<1>5. n \in ToSet(sent[s]) /\ up[s] /\ n \in Nat
  BY <1>1, <1>4 DEF Subscribed, DownIsEmpty, BusTypes
<1>6. PICK ns : ns = <<n>>
  OBVIOUS
<1>7. ns \in Seq(Values) /\ ToSet(ns) = {n} /\ IsInjective(ns)
  <2>1. ns \in Seq(Values) /\ Len(ns) = 1 /\ ns[1] = n
    BY <1>5, <1>6 DEF Values
  <2>2. /\ ToSet(ns) = {ns[i] : i \in 1..Len(ns)}
        /\ IsInjective(ns) <=> \A i, j \in 1..Len(ns) : ns[i] = ns[j] => i = j
    <3>1. ns \in Seq(Values)
      BY <2>1
    <3> QED BY <3>1, SetOfSeq
  <2>3. 1..Len(ns) = {1}
    BY <2>1
  <2> QED BY <2>1, <2>2, <2>3
<1>8. /\ got' \in [Sockets -> Seq(Values)]
      /\ \A y \in Sockets : got'[y] = got[y] \/ (Home[y] = s /\ got'[y] = Cat(got[y], ns))
  BY <1>1, <1>4, <1>6, <1>7, EmitAdds
<1>9. BusTypes'
  BY <1>1, <1>2, <1>4, <1>8 DEF BusTypes
<1>10. \A u \in Servers : publishing'[u] \subseteq publishing[u]
  BY <1>1, <1>4 DEF BusTypes
<1>11. DownIsEmpty'
  BY <1>2, <1>4, <1>10 DEF DownIsEmpty
<1>12. Subscribed'
  BY <1>1, <1>2, <1>4, <1>5, <1>8, <1>10 DEF Subscribed
<1>13. n \notin ToSet(received[s])
  <2>1. ToSet(Rcv(s)) \cap ToSet(sent[s]) = {}
    BY <1>4, <1>5 DEF Once
  <2>2. received[s] \in Seq(Values) /\ Accepted(Split(Incoming(s)).whole) \in Seq(Values)
    BY <1>4, StreamTypes, AcceptedAppend DEF BusTypes
  <2>3. ToSet(received[s]) \subseteq ToSet(Rcv(s))
    BY <2>2, CatSet DEF Rcv
  <2> QED BY <1>5, <2>1, <2>3
<1>14. GotOnce'
  <2> SUFFICES ASSUME NEW x \in Sockets
               PROVE  /\ IsInjective(got'[x])
                      /\ ToSet(got'[x]) \subseteq ToSet(received[Home[x]])
                                         \cup (ToSet(sent[Home[x]]) \ publishing'[Home[x]])
    BY <1>2 DEF GotOnce
  <2>1. /\ IsInjective(got[x]) /\ Home[x] \in Servers
        /\ ToSet(got[x]) \subseteq ToSet(received[Home[x]])
                                   \cup (ToSet(sent[Home[x]]) \ publishing[Home[x]])
    BY <1>4, SystemBusAssumptions DEF GotOnce
  <2>2. CASE got'[x] = got[x]
    BY <1>10, <2>1, <2>2
  <2>3. CASE Home[x] = s /\ got'[x] = Cat(got[x], ns)
    <3>1. n \notin ToSet(got[x])
      BY <1>1, <1>13, <2>1, <2>3
    <3>2. got[x] \in Seq(Values)
      BY <1>4 DEF BusTypes
    <3>3. ToSet(got'[x]) = ToSet(got[x]) \cup {n}
      BY <1>7, <2>3, <3>2, CatSet
    <3>4. IsInjective(got'[x])
      BY <1>7, <2>1, <2>3, <3>1, <3>2, CatSet
    <3>5. n \notin publishing'[s]
      BY <1>1, <1>4 DEF BusTypes
    <3> QED BY <1>5, <1>10, <2>1, <2>3, <3>3, <3>4, <3>5
  <2> QED BY <1>8, <2>2, <2>3
<1> QED BY <1>3, <1>9, <1>11, <1>12, <1>14 DEF BusInv

\* writeBus(): the bytes move on.
LEMMA WriteBusKeeps ==
    ASSUME BusInv, NEW s \in Servers, writeBus(s)
    PROVE  BusInv'
<1>1. /\ up[s]
      /\ toDaemon' = [toDaemon EXCEPT ![s] = Cat(@, sendBuffer[s])]
      /\ sendBuffer' = [sendBuffer EXCEPT ![s] = <<>>]
      /\ UNCHANGED <<up, readBuffer, toServer, socketSet, reading, buf>>
      /\ UNCHANGED <<publishing, local, connections, got>>
      /\ UNCHANGED <<messages, crashed, sent, received, cut>>
  BY DEF writeBus, Cat, pubVars, history
<1>2. BusTypes /\ DownIsEmpty /\ DaemonWaits /\ Subscribed /\ Aligned /\ GotOnce
  BY DEF BusInv
<1>3. Streams /\ Once /\ Uncut /\ Passed
  BY DEF BusInv
<1>4. <<>> \in Seq(Nat)
  BY EmptySeq
<1>5. toDaemon[s] \in Seq(Nat) /\ sendBuffer[s] \in Seq(Nat)
  BY <1>2 DEF BusTypes
<1>6. PICK c : c = Cat(toDaemon[s], sendBuffer[s])
  OBVIOUS
<1>7. c \in Seq(Nat)
  BY <1>5, <1>6, CatSet
<1>8. toDaemon'[s] = c /\ sendBuffer'[s] = <<>>
  BY <1>1, <1>2, <1>6 DEF BusTypes
<1>9. \A u \in Servers : u # s => toDaemon'[u] = toDaemon[u] /\ sendBuffer'[u] = sendBuffer[u]
  BY <1>1, <1>2 DEF BusTypes
<1>10. Cat(toDaemon'[s], sendBuffer'[s]) = Cat(toDaemon[s], sendBuffer[s])
  <2>1. Cat(c, <<>>) = c
    BY <1>7, CatEmpty
  <2> QED BY <1>6, <1>8, <2>1
<1>11. \A u \in Servers : Stream(u)' = Stream(u)
  BY <1>1, <1>9, <1>10 DEF Stream
<1>12. \A u \in Servers : Rcv(u)' = Rcv(u) /\ Incoming(u)' = Incoming(u)
  BY <1>1 DEF Rcv, Incoming
<1>13. Streams' /\ Once' /\ Uncut' /\ Passed'
  BY <1>1, <1>3, <1>11, <1>12, NothingMoves
<1>14. BusTypes'
  BY <1>1, <1>2, <1>4, <1>6, <1>7 DEF BusTypes
<1>15. DownIsEmpty'
  BY <1>1, <1>2, <1>8, <1>9 DEF DownIsEmpty
<1>16. DaemonWaits' /\ Subscribed' /\ GotOnce'
  BY <1>1, <1>2 DEF DaemonWaits, Subscribed, GotOnce
<1>17. Aligned'
  BY <1>1, <1>2, <1>12 DEF Aligned
<1> QED BY <1>13, <1>14, <1>15, <1>16, <1>17 DEF BusInv

\* handleDisconnect() and acceptConnection()
LEMMA ConnectionKeeps ==
    ASSUME BusInv, NEW s \in Servers, handleDisconnect(s) \/ acceptConnection(s)
    PROVE  BusInv'
<1>1. /\ UNCHANGED <<up, sendBuffer, readBuffer, toDaemon, toServer, reading, buf>>
      /\ UNCHANGED <<publishing, local, connections, got>>
      /\ UNCHANGED <<messages, crashed, sent, received, cut>>
      /\ reading = Nobody
      /\ socketSet' \subseteq socketSet \cup {s}
      /\ \A u \in Servers : u \notin socketSet' =>
            u \notin socketSet \/ (u = s /\ ~up[s] /\ toDaemon[s] = <<>>)
  BY DEF handleDisconnect, acceptConnection, pubVars, history
<1>2. BusTypes /\ DownIsEmpty /\ DaemonWaits /\ Subscribed /\ Aligned /\ GotOnce
  BY DEF BusInv
<1>3. Streams /\ Once /\ Uncut /\ Passed
  BY DEF BusInv
<1>4. \A u \in Servers : Stream(u)' = Stream(u) /\ Incoming(u)' = Incoming(u)
  BY <1>1 DEF Stream, Incoming
<1>5. \A u \in Servers : Rcv(u)' = Rcv(u)
  BY <1>1, <1>4 DEF Rcv
<1>6. Streams' /\ Once' /\ Uncut' /\ Passed'
  BY <1>1, <1>3, <1>4, <1>5, NothingMoves
<1>7. BusTypes'
  BY <1>1, <1>2 DEF BusTypes
<1>8. DownIsEmpty'
  BY <1>1, <1>2 DEF DownIsEmpty
<1>9. DaemonWaits' /\ Subscribed' /\ GotOnce'
  BY <1>1, <1>2 DEF DaemonWaits, Subscribed, GotOnce
<1>10. Aligned'
  BY <1>1, <1>2, <1>4 DEF Aligned
<1> QED BY <1>6, <1>7, <1>8, <1>9, <1>10 DEF BusInv

\* readBus(): what was to come is received, and each subscriber is sent it once.
LEMMA ReadBusKeeps ==
    ASSUME BusInv, NEW s \in Servers, NEW k \in 1..Len(toServer[s]), readBus(s, k)
    PROVE  BusInv'
<1>1. BusTypes /\ DownIsEmpty /\ DaemonWaits /\ Subscribed /\ Aligned /\ GotOnce
  BY DEF BusInv
<1>2. Streams /\ Once /\ Uncut /\ Passed
  BY DEF BusInv
<1>3. PICK q, r, v : q = toServer[s] /\ r = readBuffer[s] /\ v = received[s]
  OBVIOUS
<1>4. q \in Seq(Nat) /\ r \in Seq(Nat) /\ v \in Seq(Values)
  BY <1>1, <1>3 DEF BusTypes
<1>5. PICK front, back : front = SubSeq(q, 1, k) /\ back = SubSeq(q, k + 1, Len(q))
  OBVIOUS
<1>6. front \in Seq(Nat) /\ back \in Seq(Nat) /\ Cat(front, back) = q
  <2>1. k \in 0..Len(q)
    <3>1. Len(q) \in Nat
      BY <1>4, LenProperties
    <3> QED BY <1>3, <3>1
  <2> QED BY <1>4, <1>5, <2>1, CutInTwo
<1>7. PICK b : b = Cat(r, front)
  OBVIOUS
<1>8. b \in Seq(Nat)
  BY <1>4, <1>6, <1>7, CatSet
<1>9. PICK w, z : w = Split(b).whole /\ z = Split(b).rest
  OBVIOUS
<1>10. w \in Seq(Seq(Nat)) /\ z \in Seq(Nat) /\ Split(z).whole = <<>>
  BY <1>8, <1>9, SplitFacts
<1>11. PICK ns : ns = Accepted(w)
  OBVIOUS
<1>12. ns \in Seq(Values)
  BY <1>10, <1>11, AcceptedAppend
<1>13. /\ up[s]
       /\ toServer' = [toServer EXCEPT ![s] = back]
       /\ readBuffer' = [readBuffer EXCEPT ![s] = z]
       /\ received' = [received EXCEPT ![s] = Cat(@, ns)]
       /\ Emit(s, Nobody, ns)
       /\ UNCHANGED <<up, sendBuffer, toDaemon, socketSet, reading, buf>>
       /\ UNCHANGED <<publishing, local, connections>>
       /\ UNCHANGED <<messages, crashed, sent, cut>>
  BY <1>3, <1>5, <1>7, <1>9, <1>11 DEF readBus, Cat
<1>14. /\ got' \in [Sockets -> Seq(Values)]
       /\ \A y \in Sockets : got'[y] = got[y] \/ (Home[y] = s /\ got'[y] = Cat(got[y], ns))
  BY <1>1, <1>12, <1>13, EmitAdds
<1>15. /\ toServer'[s] = back /\ readBuffer'[s] = z /\ received'[s] = Cat(v, ns)
       /\ \A u \in Servers : u # s => /\ toServer'[u] = toServer[u]
                                      /\ readBuffer'[u] = readBuffer[u]
                                      /\ received'[u] = received[u]
  BY <1>1, <1>3, <1>13 DEF BusTypes
<1>16. PICK c : c = Cat(z, back)
  OBVIOUS
<1>17. c \in Seq(Nat)
  BY <1>6, <1>10, <1>16, CatSet
<1>18. Incoming(s) = Cat(b, back)
  <2>1. Cat(Cat(r, front), back) = Cat(r, Cat(front, back))
    BY <1>4, <1>6, CatAssociative
  <2> QED BY <1>3, <1>6, <1>7, <2>1 DEF Incoming
<1>19. Incoming(s)' = c
  BY <1>15, <1>16 DEF Incoming
<1>20. /\ Split(Incoming(s)).whole = Cat(w, Split(c).whole)
       /\ Split(Incoming(s)).rest = Split(c).rest
  BY <1>6, <1>8, <1>9, <1>16, <1>18, SplitConcat
<1>21. PICK m : m = Accepted(Split(c).whole)
  OBVIOUS
<1>22. Split(c).whole \in Seq(Seq(Nat))
  BY <1>17, SplitFacts
<1>23. m \in Seq(Values)
  BY <1>21, <1>22, AcceptedAppend
<1>24. Accepted(Split(Incoming(s)).whole) = Cat(ns, m)
  BY <1>10, <1>11, <1>20, <1>21, <1>22, AcceptedConcat
<1>25. Rcv(s) = Cat(v, Cat(ns, m))
  BY <1>3, <1>24 DEF Rcv
<1>26. Rcv(s)' = Cat(Cat(v, ns), m)
  BY <1>15, <1>19, <1>21 DEF Rcv
<1>27. Cat(Cat(v, ns), m) = Cat(v, Cat(ns, m))
  BY <1>4, <1>12, <1>23, CatAssociative
<1>28. \A u \in Servers : u # s => Incoming(u)' = Incoming(u)
  BY <1>15 DEF Incoming
<1>29. \A u \in Servers : Rcv(u)' = Rcv(u)
  <2>1. \A u \in Servers : u # s => Rcv(u)' = Rcv(u)
    BY <1>15, <1>28 DEF Rcv
  <2> QED BY <1>25, <1>26, <1>27, <2>1
<1>30. \A u \in Servers : Stream(u)' = Stream(u)
  BY <1>13 DEF Stream
<1>31. Streams' /\ Once' /\ Uncut' /\ Passed'
  BY <1>2, <1>13, <1>29, <1>30, NothingMoves
<1>32. BusTypes'
  <2>1. Cat(v, ns) \in Seq(Values)
    BY <1>4, <1>12, CatSet
  <2>2. received' = [received EXCEPT ![s] = Cat(v, ns)]
    BY <1>3, <1>13
  <2>3. received' \in [Servers -> Seq(Values)]
    BY <1>1, <2>1, <2>2 DEF BusTypes
  <2>4. toServer' \in [Servers -> Seq(Nat)]
    BY <1>1, <1>6, <1>13 DEF BusTypes
  <2>5. readBuffer' \in [Servers -> Seq(Nat)]
    BY <1>1, <1>10, <1>13 DEF BusTypes
  <2> QED BY <1>1, <1>13, <1>14, <2>3, <2>4, <2>5 DEF BusTypes
<1>33. s \in socketSet
  <2>1. q # <<>>
    <3>1. Len(q) # 0
      <4>1. Len(q) \in Nat
        BY <1>4, LenProperties
      <4> QED BY <1>3, <4>1
    <3> QED BY <3>1, EmptySeq
  <2> QED BY <1>1, <1>3, <1>13, <2>1 DEF DownIsEmpty
<1>34. DownIsEmpty'
  BY <1>1, <1>13, <1>15, <1>33 DEF DownIsEmpty
<1>35. DaemonWaits'
  BY <1>1, <1>13 DEF DaemonWaits
<1>36. Subscribed'
  BY <1>1, <1>13, <1>14 DEF Subscribed
<1>37. Aligned'
  <2> SUFFICES ASSUME NEW t \in Servers, up[t]
               PROVE  Split(Incoming(t)').rest = <<>> /\ Split(readBuffer'[t]).whole = <<>>
    BY <1>13 DEF Aligned
  <2>1. Split(Incoming(t)).rest = <<>> /\ Split(readBuffer[t]).whole = <<>>
    BY <1>1 DEF Aligned
  <2>2. CASE t = s
    BY <1>10, <1>15, <1>19, <1>20, <2>1, <2>2
  <2>3. CASE t # s
    BY <1>15, <1>28, <2>1, <2>3
  <2> QED BY <2>2, <2>3
<1>38. /\ IsInjective(ns) /\ ToSet(ns) \cap ToSet(v) = {}
       /\ ToSet(ns) \cap ToSet(sent[s]) = {}
  <2>1. PICK d : d = Cat(ns, m)
    OBVIOUS
  <2>2. d \in Seq(Values) /\ ToSet(d) = ToSet(ns) \cup ToSet(m)
    BY <1>12, <1>23, <2>1, CatSet
  <2>3. Rcv(s) = Cat(v, d)
    BY <1>25, <2>1
  <2>4. ToSet(Rcv(s)) = ToSet(v) \cup ToSet(d)
    BY <1>4, <2>2, <2>3, CatSet
  <2>5. IsInjective(Rcv(s)) /\ ToSet(Rcv(s)) \cap ToSet(sent[s]) = {}
    BY <1>2, <1>13 DEF Once
  <2>6. IsInjective(d) /\ ToSet(v) \cap ToSet(d) = {}
    BY <1>4, <2>2, <2>3, <2>5, CatSet
  <2>7. IsInjective(ns)
    BY <1>12, <1>23, <2>1, <2>6, CatSet
  <2> QED BY <2>2, <2>4, <2>5, <2>6, <2>7
<1>39. GotOnce'
  <2> SUFFICES ASSUME NEW x \in Sockets
               PROVE  /\ IsInjective(got'[x])
                      /\ ToSet(got'[x]) \subseteq ToSet(received'[Home[x]])
                                         \cup (ToSet(sent[Home[x]]) \ publishing[Home[x]])
    BY <1>13 DEF GotOnce
  <2>1. /\ IsInjective(got[x]) /\ Home[x] \in Servers
        /\ ToSet(got[x]) \subseteq ToSet(received[Home[x]])
                                   \cup (ToSet(sent[Home[x]]) \ publishing[Home[x]])
    BY <1>1, SystemBusAssumptions DEF GotOnce
  <2>2. ToSet(received'[s]) = ToSet(v) \cup ToSet(ns)
    BY <1>4, <1>12, <1>15, CatSet
  <2>3. \A u \in Servers : ToSet(received[u]) \subseteq ToSet(received'[u])
    BY <1>3, <1>15, <2>2
  <2>4. CASE got'[x] = got[x]
    BY <2>1, <2>3, <2>4
  <2>5. CASE Home[x] = s /\ got'[x] = Cat(got[x], ns)
    <3>1. ToSet(got[x]) \cap ToSet(ns) = {}
      BY <1>3, <1>38, <2>1, <2>5
    <3>2. got[x] \in Seq(Values)
      BY <1>1 DEF BusTypes
    <3>3. ToSet(got'[x]) = ToSet(got[x]) \cup ToSet(ns)
      BY <1>12, <2>5, <3>2, CatSet
    <3>4. IsInjective(got'[x])
      BY <1>12, <1>38, <2>1, <2>5, <3>1, <3>2, CatSet
    <3> QED BY <1>3, <2>1, <2>2, <2>5, <3>3, <3>4
  <2> QED BY <1>14, <2>4, <2>5
<1> QED BY <1>31, <1>32, <1>34, <1>35, <1>36, <1>37, <1>39 DEF BusInv

\* A step after which there are no more numbers on the way to the daemon.
LEMMA StreamsShrink ==
    ASSUME Streams, UNCHANGED messages,
           \A u \in Servers : /\ WellFormed(Stream(u)') /\ Ascending(Stream(u)')
                              /\ Numbers(Stream(u)') \subseteq Numbers(Stream(u))
                              /\ up'[u] => Complete(Stream(u)')
    PROVE  Streams'
BY DEF Streams

\* The same, when also nothing more is sent and received.
LEMMA OnceShrinks ==
    ASSUME Once, UNCHANGED messages,
           \A u \in Servers : /\ Numbers(Stream(u)') \subseteq Numbers(Stream(u))
                              /\ sent'[u] = sent[u] \/ sent'[u] = <<>>
                              /\ up'[u] => (up[u] /\ Rcv(u)' = Rcv(u)) \/ Rcv(u)' = <<>>
    PROVE  Once'
<1> SUFFICES ASSUME NEW t \in Servers
             PROVE  /\ IsInjective(sent'[t]) /\ ToSet(sent'[t]) \subseteq 256..(255 + messages)
                    /\ \A s \in Servers : s # t => Numbers(Stream(s)') \cap ToSet(sent'[t]) = {}
                    /\ up'[t] =>
                          /\ IsInjective(Rcv(t)') /\ ToSet(Rcv(t)') \subseteq 256..(255 + messages)
                          /\ ToSet(Rcv(t)') \cap ToSet(sent'[t]) = {}
                          /\ \A s \in Servers :
                                s # t => Numbers(Stream(s)') \cap ToSet(Rcv(t)') = {}
  BY DEF Once
<1>1. /\ IsInjective(sent[t]) /\ ToSet(sent[t]) \subseteq 256..(255 + messages)
      /\ \A s \in Servers : s # t => Numbers(Stream(s)) \cap ToSet(sent[t]) = {}
      /\ up[t] => /\ IsInjective(Rcv(t)) /\ ToSet(Rcv(t)) \subseteq 256..(255 + messages)
                  /\ ToSet(Rcv(t)) \cap ToSet(sent[t]) = {}
                  /\ \A s \in Servers : s # t => Numbers(Stream(s)) \cap ToSet(Rcv(t)) = {}
  BY DEF Once
<1>2. ToSet(<<>>) = {} /\ IsInjective(<<>>)
  BY Nothing
<1>3. IsInjective(sent'[t]) /\ ToSet(sent'[t]) \subseteq ToSet(sent[t])
  BY <1>1, <1>2
<1>4. \A s \in Servers : s # t => Numbers(Stream(s)') \cap ToSet(sent'[t]) = {}
  BY <1>1, <1>3
<1>5. ASSUME up'[t]
      PROVE  /\ IsInjective(Rcv(t)') /\ ToSet(Rcv(t)') \subseteq 256..(255 + messages)
             /\ ToSet(Rcv(t)') \cap ToSet(sent'[t]) = {}
             /\ \A s \in Servers : s # t => Numbers(Stream(s)') \cap ToSet(Rcv(t)') = {}
  <2>1. CASE Rcv(t)' = <<>>
    BY <1>2, <2>1
  <2>2. CASE up[t] /\ Rcv(t)' = Rcv(t)
    BY <1>1, <1>3, <2>2
  <2> QED BY <1>5, <2>1, <2>2
<1> QED BY <1>1, <1>3, <1>4, <1>5

\* "Manager frame too short": bytes are dropped, and whole messages follow them.
LEMMA FrameTooShortKeeps == ASSUME BusInv, FrameTooShort PROVE BusInv'
<1>1. BusTypes /\ DownIsEmpty /\ DaemonWaits /\ Subscribed /\ Aligned /\ GotOnce
  BY DEF BusInv
<1>2. Streams /\ Once /\ Uncut /\ Passed
  BY DEF BusInv
<1>3. PICK s \in Servers : s = reading
  BY <1>1 DEF FrameTooShort, BusTypes
<1>4. /\ cut' = [cut EXCEPT ![s] = TRUE] /\ reading' = Nobody /\ buf' = <<>>
      /\ UNCHANGED <<up, sendBuffer, readBuffer, toDaemon, toServer, socketSet>>
      /\ UNCHANGED <<publishing, local, connections, got>>
      /\ UNCHANGED <<messages, crashed, sent, received>>
  BY <1>3 DEF FrameTooShort, pubVars
<1>5. \A u \in Servers : Incoming(u)' = Incoming(u)
  BY <1>4 DEF Incoming
<1>6. \A u \in Servers : Rcv(u)' = Rcv(u)
  BY <1>4, <1>5 DEF Rcv
<1>7. \A u \in Servers : u # Nobody
  BY SystemBusAssumptions
<1>8. ASSUME NEW u \in Servers, u # s PROVE Stream(u)' = Stream(u)
  BY <1>3, <1>4, <1>7, <1>8 DEF Stream
<1>9. PICK c : c = Cat(toDaemon[s], sendBuffer[s])
  OBVIOUS
<1>10. c \in Seq(Nat)
  BY <1>1, <1>9, CatSet DEF BusTypes
<1>11. buf \in Seq(Nat)
  BY <1>1 DEF BusTypes
<1>12. Stream(s) = Cat(buf, c)
  BY <1>3, <1>9 DEF Stream
<1>13. Stream(s)' = c
  <2>1. Stream(s)' = Cat(<<>>, c)
    BY <1>4, <1>7, <1>9 DEF Stream
  <2>2. Cat(<<>>, c) = c
    BY <1>10, CatEmpty
  <2> QED BY <2>1, <2>2
<1>14. /\ WellFormed(Stream(s)) /\ Ascending(Stream(s))
       /\ up[s] => Complete(Stream(s))
  BY <1>2 DEF Streams
<1>15. /\ WellFormed(c) /\ Ascending(c) /\ Numbers(c) \subseteq Numbers(Stream(s))
       /\ up[s] => Complete(c)
  <2>1. /\ WellFormed(Cat(buf, c)) => WellFormed(c)
        /\ Numbers(c) \subseteq Numbers(Cat(buf, c))
        /\ Ascending(Cat(buf, c)) => Ascending(c)
        /\ Complete(Cat(buf, c)) => Complete(c)
    BY <1>10, <1>11, StreamParts
  <2> QED BY <1>12, <1>14, <2>1
<1>16. \A u \in Servers : /\ WellFormed(Stream(u)') /\ Ascending(Stream(u)')
                          /\ Numbers(Stream(u)') \subseteq Numbers(Stream(u))
                          /\ up'[u] => Complete(Stream(u)')
  <2>1. \A u \in Servers : /\ WellFormed(Stream(u)) /\ Ascending(Stream(u))
                           /\ up[u] => Complete(Stream(u))
    BY <1>2 DEF Streams
  <2> QED BY <1>4, <1>8, <1>13, <1>15, <2>1
<1>17. Streams'
  BY <1>2, <1>4, <1>16, StreamsShrink
<1>18. Once'
  BY <1>2, <1>4, <1>6, <1>16, OnceShrinks
<1>19. \A u \in Servers : ~cut'[u] => u # s /\ ~cut[u]
  BY <1>1, <1>4 DEF BusTypes
<1>20. \A u \in Servers : u # s => Coming(u)' = Coming(u)
  BY <1>8 DEF Coming
<1>21. Uncut'
  BY <1>2, <1>4, <1>8, <1>19, <1>20 DEF Uncut
<1>22. \A u, t \in Servers : u # s => All(u, t)' = All(u, t)
  BY <1>4, <1>6, <1>20 DEF All
<1>23. Passed'
  BY <1>2, <1>4, <1>19, <1>22 DEF Passed
<1>24. BusTypes'
  BY <1>1, <1>4, Nothing DEF BusTypes
<1>25. DownIsEmpty'
  BY <1>1, <1>4 DEF DownIsEmpty
<1>26. DaemonWaits' /\ Subscribed' /\ GotOnce'
  BY <1>1, <1>4 DEF DaemonWaits, Subscribed, GotOnce
<1>27. Aligned'
  BY <1>1, <1>4, <1>5 DEF Aligned
<1> QED BY <1>17, <1>18, <1>21, <1>23, <1>24, <1>25, <1>26, <1>27 DEF BusInv

\* A server dies: of its bytes the first ones stay.
LEMMA CrashKeeps ==
    ASSUME BusInv, NEW s \in Servers, NEW k \in 0..Len(toDaemon[s]), Crash(s, k)
    PROVE  BusInv'
<1>1. BusTypes /\ DownIsEmpty /\ DaemonWaits /\ Subscribed /\ Aligned /\ GotOnce
  BY DEF BusInv
<1>2. Streams /\ Once /\ Uncut /\ Passed
  BY DEF BusInv
<1>3. PICK q, f, g, e : /\ q = toDaemon[s] /\ e = sendBuffer[s]
                        /\ f = SubSeq(q, 1, k) /\ g = SubSeq(q, k + 1, Len(q))
  OBVIOUS
<1>4. q \in Seq(Nat) /\ e \in Seq(Nat) /\ buf \in Seq(Nat)
  BY <1>1, <1>3 DEF BusTypes
<1>5. f \in Seq(Nat) /\ g \in Seq(Nat) /\ Cat(f, g) = q
  BY <1>3, <1>4, CutInTwo
<1>6. /\ up[s] /\ crashed' = crashed \cup {s}
      /\ up' = [up EXCEPT ![s] = FALSE]
      /\ toDaemon' = [toDaemon EXCEPT ![s] = f]
      /\ sendBuffer' = [sendBuffer EXCEPT ![s] = <<>>]
      /\ readBuffer' = [readBuffer EXCEPT ![s] = <<>>]
      /\ publishing' = [publishing EXCEPT ![s] = {}]
      /\ local' = [x \in Sockets |-> IF Home[x] = s THEN "none" ELSE local[x]]
      /\ connections' = [x \in Sockets |-> IF Home[x] = s THEN 0 ELSE connections[x]]
      /\ got' = [x \in Sockets |-> IF Home[x] = s THEN <<>> ELSE got[x]]
      /\ sent' = [sent EXCEPT ![s] = <<>>]
      /\ received' = [received EXCEPT ![s] = <<>>]
      /\ UNCHANGED <<toServer, socketSet, reading, buf, messages, cut>>
  BY <1>3 DEF Crash
<1>7. /\ ~up'[s] /\ toDaemon'[s] = f /\ sendBuffer'[s] = <<>> /\ readBuffer'[s] = <<>>
      /\ publishing'[s] = {} /\ sent'[s] = <<>> /\ received'[s] = <<>>
  BY <1>1, <1>6 DEF BusTypes
<1>8. \A u \in Servers : u # s =>
         /\ up'[u] = up[u] /\ toDaemon'[u] = toDaemon[u] /\ sendBuffer'[u] = sendBuffer[u]
         /\ readBuffer'[u] = readBuffer[u] /\ publishing'[u] = publishing[u]
         /\ sent'[u] = sent[u] /\ received'[u] = received[u]
  BY <1>1, <1>6 DEF BusTypes
<1>9. \A u \in Servers : u # s => Stream(u)' = Stream(u) /\ Incoming(u)' = Incoming(u)
  BY <1>6, <1>8 DEF Stream, Incoming
<1>10. \A u \in Servers : u # s => Rcv(u)' = Rcv(u) /\ Coming(u)' = Coming(u)
  BY <1>8, <1>9 DEF Rcv, Coming
<1>11. PICK a : a = IF reading = s THEN buf ELSE <<>>
  OBVIOUS
<1>12. a \in Seq(Nat)
  BY <1>4, <1>11, Nothing
<1>13. PICK b, c : b = Cat(a, f) /\ c = Cat(g, e)
  OBVIOUS
<1>14. b \in Seq(Nat)
  BY <1>5, <1>12, <1>13, CatSet
<1>15. c \in Seq(Nat)
  BY <1>4, <1>5, <1>13, CatSet
<1>16. Stream(s)' = b
  <2>1. Cat(f, <<>>) = f
    BY <1>5, CatEmpty
  <2> QED BY <1>6, <1>7, <1>11, <1>13, <2>1 DEF Stream
<1>17. Stream(s) = Cat(b, c)
  <2>1. Stream(s) = Cat(a, Cat(q, e))
    BY <1>3, <1>11 DEF Stream
  <2>2. Cat(Cat(f, g), e) = Cat(f, Cat(g, e))
    BY <1>4, <1>5, CatAssociative
  <2>3. Cat(Cat(a, f), c) = Cat(a, Cat(f, c))
    BY <1>5, <1>12, <1>15, CatAssociative
  <2> QED BY <1>5, <1>13, <2>1, <2>2, <2>3
<1>18. WellFormed(Stream(s)) /\ Ascending(Stream(s))
  BY <1>2 DEF Streams
<1>19. WellFormed(b) /\ Ascending(b) /\ Numbers(b) \subseteq Numbers(Stream(s))
  BY <1>14, <1>15, <1>17, <1>18, StreamParts
<1>20. \A u \in Servers : /\ WellFormed(Stream(u)') /\ Ascending(Stream(u)')
                          /\ Numbers(Stream(u)') \subseteq Numbers(Stream(u))
                          /\ up'[u] => Complete(Stream(u)')
  <2>1. \A u \in Servers : /\ WellFormed(Stream(u)) /\ Ascending(Stream(u))
                           /\ up[u] => Complete(Stream(u))
    BY <1>2 DEF Streams
  <2> QED BY <1>7, <1>8, <1>9, <1>16, <1>19, <2>1
<1>21. Streams'
  BY <1>2, <1>6, <1>20, StreamsShrink
<1>22. Once'
  <2>1. \A u \in Servers : /\ sent'[u] = sent[u] \/ sent'[u] = <<>>
                           /\ up'[u] => up[u] /\ Rcv(u)' = Rcv(u)
    BY <1>7, <1>8, <1>10
  <2> QED BY <1>2, <1>6, <1>20, <2>1, OnceShrinks
<1>23. Uncut'
  <2> SUFFICES ASSUME NEW u \in Servers, up'[u], ~cut[u]
               PROVE  /\ Split(Stream(u)').rest = <<>>
                      /\ \E pre \in Seq(Values) : sent'[u] = Cat(pre, Coming(u)')
    BY <1>6 DEF Uncut
  <2>1. u # s
    BY <1>7
  <2> QED BY <1>2, <1>8, <1>9, <1>10, <2>1 DEF Uncut
<1>24. Passed'
  <2> SUFFICES ASSUME NEW u \in Servers, NEW t \in Servers, u # t, up'[u], ~cut[u], up'[t]
               PROVE  /\ \E pre \in Seq(Values) : sent'[u] = Cat(pre, All(u, t)')
                      /\ t \notin crashed' => sent'[u] = All(u, t)'
    BY <1>6 DEF Passed
  <2>1. u # s /\ t # s
    BY <1>7
  <2>2. All(u, t)' = All(u, t)
    BY <1>8, <1>10, <2>1 DEF All
  <2> QED BY <1>2, <1>6, <1>8, <2>1, <2>2 DEF Passed
<1>25. BusTypes'
  <2>1. got' \in [Sockets -> Seq(Values)]
    BY <1>1, <1>6, Nothing DEF BusTypes
  <2>2. /\ up' \in [Servers -> BOOLEAN] /\ publishing' \in [Servers -> SUBSET Nat]
        /\ local' \in [Sockets -> {"none", "on", "off"}] /\ connections' \in [Sockets -> {0, 1}]
    BY <1>1, <1>6 DEF BusTypes
  <2>3. /\ toDaemon' \in [Servers -> Seq(Nat)] /\ sendBuffer' \in [Servers -> Seq(Nat)]
        /\ readBuffer' \in [Servers -> Seq(Nat)]
    BY <1>1, <1>5, <1>6, Nothing DEF BusTypes
  <2>4. sent' \in [Servers -> Seq(Values)] /\ received' \in [Servers -> Seq(Values)]
    BY <1>1, <1>6, Nothing DEF BusTypes
  <2> QED BY <1>1, <1>6, <2>1, <2>2, <2>3, <2>4 DEF BusTypes
<1>26. DownIsEmpty'
  BY <1>1, <1>6, <1>7, <1>8 DEF DownIsEmpty
<1>27. DaemonWaits'
  BY <1>1, <1>6 DEF DaemonWaits
<1>28. Subscribed'
  <2>1. \A x \in Sockets : Home[x] \in Servers
    BY SystemBusAssumptions
  <2> QED BY <1>1, <1>6, <1>7, <1>8, <2>1 DEF Subscribed
<1>29. Aligned'
  BY <1>1, <1>7, <1>8, <1>9 DEF Aligned
<1>30. GotOnce'
  <2> SUFFICES ASSUME NEW x \in Sockets
               PROVE  /\ IsInjective(got'[x])
                      /\ ToSet(got'[x]) \subseteq ToSet(received'[Home[x]])
                                         \cup (ToSet(sent'[Home[x]]) \ publishing'[Home[x]])
    BY DEF GotOnce
  <2>1. Home[x] \in Servers
    BY SystemBusAssumptions
  <2>2. CASE Home[x] = s
    BY <1>6, <2>2, Nothing
  <2>3. CASE Home[x] # s
    BY <1>1, <1>6, <1>8, <2>1, <2>3 DEF GotOnce
  <2> QED BY <2>2, <2>3
<1> QED BY <1>21, <1>22, <1>23, <1>24, <1>25, <1>26, <1>27, <1>28, <1>29, <1>30 DEF BusInv

\* A server starts again: nothing of it is on the way.
LEMMA RestartKeeps ==
    ASSUME BusInv, NEW s \in Servers, Restart(s)
    PROVE  BusInv'
<1>1. BusTypes /\ DownIsEmpty /\ DaemonWaits /\ Subscribed /\ Aligned /\ GotOnce
  BY DEF BusInv
<1>2. Streams /\ Once /\ Uncut /\ Passed
  BY DEF BusInv
<1>3. /\ ~up[s] /\ s \notin socketSet /\ toDaemon[s] = <<>>
      /\ up' = [up EXCEPT ![s] = TRUE]
      /\ toServer' = [toServer EXCEPT ![s] = <<>>]
      /\ cut' = [cut EXCEPT ![s] = FALSE]
      /\ UNCHANGED <<sendBuffer, readBuffer, toDaemon, socketSet, reading, buf>>
      /\ UNCHANGED <<publishing, local, connections, got>>
      /\ UNCHANGED <<messages, crashed, sent, received>>
  BY DEF Restart, pubVars
<1>4. /\ s \in crashed /\ sendBuffer[s] = <<>> /\ readBuffer[s] = <<>> /\ toDaemon[s] = <<>>
      /\ sent[s] = <<>> /\ received[s] = <<>> /\ publishing[s] = {}
  BY <1>1, <1>3 DEF DownIsEmpty
<1>5. reading # s
  BY <1>1, <1>3, SystemBusAssumptions DEF DaemonWaits
<1>6. toServer'[s] = <<>> /\ up'[s]
  BY <1>1, <1>3 DEF BusTypes
<1>7. \A u \in Servers : u # s => up'[u] = up[u] /\ toServer'[u] = toServer[u] /\ cut'[u] = cut[u]
  BY <1>1, <1>3 DEF BusTypes
<1>8. \A u \in Servers : Stream(u)' = Stream(u)
  BY <1>3 DEF Stream
<1>9. Stream(s) = <<>>
  BY <1>4, <1>5, Nothing DEF Stream
<1>10. Incoming(s)' = <<>>
  BY <1>3, <1>4, <1>6, Nothing DEF Incoming
<1>11. Rcv(s)' = <<>>
  BY <1>3, <1>4, <1>10, Nothing DEF Rcv
<1>12. \A u \in Servers : u # s => Incoming(u)' = Incoming(u)
  BY <1>3, <1>7 DEF Incoming
<1>13. \A u \in Servers : u # s => Rcv(u)' = Rcv(u)
  BY <1>3, <1>12 DEF Rcv
<1>14. \A u \in Servers : Coming(u)' = Coming(u)
  BY <1>8 DEF Coming
<1>15. Coming(s) = <<>>
  BY <1>9, Nothing DEF Coming
<1>16. \A u \in Servers : /\ WellFormed(Stream(u)') /\ Ascending(Stream(u)')
                          /\ Numbers(Stream(u)') \subseteq Numbers(Stream(u))
                          /\ up'[u] => Complete(Stream(u)')
  <2>1. \A u \in Servers : /\ WellFormed(Stream(u)) /\ Ascending(Stream(u))
                           /\ up[u] => Complete(Stream(u))
    BY <1>2 DEF Streams
  <2>2. Complete(Stream(s))
    BY <1>9, Nothing
  <2> QED BY <1>7, <1>8, <2>1, <2>2
<1>17. Streams'
  BY <1>2, <1>3, <1>16, StreamsShrink
<1>18. Once'
  <2>1. \A u \in Servers : up'[u] => (up[u] /\ Rcv(u)' = Rcv(u)) \/ Rcv(u)' = <<>>
    BY <1>7, <1>11, <1>13
  <2> QED BY <1>2, <1>3, <1>16, <2>1, OnceShrinks
<1>19. Uncut'
  <2> SUFFICES ASSUME NEW u \in Servers, up'[u], ~cut'[u]
               PROVE  /\ Split(Stream(u)').rest = <<>>
                      /\ \E pre \in Seq(Values) : sent[u] = Cat(pre, Coming(u)')
    BY <1>3 DEF Uncut
  <2>1. CASE u = s
    BY <1>4, <1>8, <1>9, <1>14, <1>15, <2>1, Nothing
  <2>2. CASE u # s
    BY <1>2, <1>7, <1>8, <1>14, <2>2 DEF Uncut
  <2> QED BY <2>1, <2>2
<1>20. Passed'
  <2> SUFFICES ASSUME NEW u \in Servers, NEW t \in Servers, u # t, up'[u], ~cut'[u], up'[t]
               PROVE  /\ \E pre \in Seq(Values) : sent[u] = Cat(pre, All(u, t)')
                      /\ t \notin crashed => sent[u] = All(u, t)'
    BY <1>3 DEF Passed
  <2>1. All(u, t)' = Cat(Only(Rcv(t)', ToSet(sent[u])), Coming(u))
    BY <1>3, <1>14 DEF All
  <2>2. CASE u = s
    <3>1. Rcv(t)' \in Seq(Values)
      BY <1>1, <1>13, <2>2, StreamTypes
    <3>2. Only(Rcv(t)', {}) = <<>>
      <4>1. ToSet(Rcv(t)') \cap {} = {}
        OBVIOUS
      <4> QED BY <3>1, <4>1, OnlyAllOrNone
    <3>3. All(u, t)' = <<>>
      BY <1>4, <1>15, <2>1, <2>2, <3>2, Nothing
    <3> QED BY <1>4, <2>2, <3>3, Nothing
  <2>3. CASE t = s
    <3>1. Coming(u) \in Seq(Values)
      BY <1>1, StreamTypes
    <3>2. Only(<<>>, ToSet(sent[u])) = <<>>
      BY OnlyEmpty
    <3>3. All(u, t)' = Coming(u)
      <4>1. Cat(<<>>, Coming(u)) = Coming(u)
        BY <3>1, CatEmpty
      <4> QED BY <1>11, <2>1, <2>3, <3>2, <4>1
    <3>4. u # s
      BY <2>3
    <3>5. \E pre \in Seq(Values) : sent[u] = Cat(pre, Coming(u))
      BY <1>2, <1>7, <3>4 DEF Uncut
    <3> QED BY <1>4, <2>3, <3>3, <3>5
  <2>4. CASE u # s /\ t # s
    <3>1. All(u, t)' = All(u, t)
      BY <1>13, <2>1, <2>4 DEF All
    <3> QED BY <1>2, <1>7, <2>4, <3>1 DEF Passed
  <2> QED BY <2>2, <2>3, <2>4
<1>21. BusTypes'
  BY <1>1, <1>3, Nothing DEF BusTypes
<1>22. DownIsEmpty'
  BY <1>1, <1>3, <1>4, <1>6, <1>7 DEF DownIsEmpty
<1>23. DaemonWaits'
  BY <1>1, <1>3 DEF DaemonWaits
<1>24. Subscribed'
  <2>1. \A x \in Sockets : Home[x] \in Servers
    BY SystemBusAssumptions
  <2> QED BY <1>1, <1>3, <1>6, <1>7, <2>1 DEF Subscribed
<1>25. GotOnce'
  BY <1>1, <1>3 DEF GotOnce
<1>26. Aligned'
  <2> SUFFICES ASSUME NEW t \in Servers, up'[t]
               PROVE  Split(Incoming(t)').rest = <<>> /\ Split(readBuffer[t]).whole = <<>>
    BY <1>3 DEF Aligned
  <2>1. CASE t = s
    BY <1>4, <1>10, <2>1, Nothing
  <2>2. CASE t # s
    BY <1>1, <1>7, <1>12, <2>2 DEF Aligned
  <2> QED BY <2>1, <2>2
<1> QED BY <1>17, <1>18, <1>19, <1>20, <1>21, <1>22, <1>23, <1>24, <1>25, <1>26 DEF BusInv

\* publish(): a new number follows those of the server.
LEMMA PublishKeeps ==
    ASSUME BusInv, NEW s \in Servers, NEW x, Publish(s, x)
    PROVE  BusInv'
<1>1. BusTypes /\ DownIsEmpty /\ DaemonWaits /\ Subscribed /\ Aligned /\ GotOnce
  BY DEF BusInv
<1>2. Streams /\ Once /\ Uncut /\ Passed
  BY DEF BusInv
<1>3. PICK n : n = 256 + messages
  OBVIOUS
<1>4. /\ up[s] /\ messages < MaxMessages /\ messages' = messages + 1
      /\ sendBuffer' = [sendBuffer EXCEPT ![s] = Cat(@, toByteArray(n))]
      /\ sent' = [sent EXCEPT ![s] = App(@, n)]
      /\ publishing' = [publishing EXCEPT ![s] = @ \cup Pending(s, n)]
      /\ UNCHANGED <<up, readBuffer, toDaemon, toServer, socketSet, reading, buf>>
      /\ UNCHANGED <<local, connections, crashed, received, got, cut>>
  BY <1>3 DEF Publish, send, Cat, App
<1>5. n \in 256..(255 + MaxMessages) /\ n \in Nat /\ messages \in Nat /\ n \in Values
  BY <1>1, <1>3, <1>4, SystemBusAssumptions DEF BusTypes, Values
<1>6. n \notin 256..(255 + messages) /\ 256..n = 256..(255 + messages) \cup {n}
  BY <1>3, <1>5
<1>a. 256..(255 + messages') = 256..n /\ Pending(s, n) \subseteq {n}
  BY <1>3, <1>4, <1>5 DEF Pending
<1>7. PICK m : m = toByteArray(n)
  OBVIOUS
<1>8. m \in Seq(Nat) /\ Split(m).rest = <<>> /\ Accepted(Split(m).whole) = App(<<>>, n)
  BY <1>5, <1>7, MessageSplit
<1>9. /\ sendBuffer'[s] = Cat(sendBuffer[s], m) /\ sent'[s] = App(sent[s], n)
      /\ publishing'[s] = publishing[s] \cup Pending(s, n)
      /\ \A u \in Servers : u # s => /\ sendBuffer'[u] = sendBuffer[u] /\ sent'[u] = sent[u]
                                     /\ publishing'[u] = publishing[u]
  BY <1>1, <1>4, <1>7 DEF BusTypes
<1>10. PICK a, b, c : /\ a = (IF reading = s THEN buf ELSE <<>>)
                      /\ b = Cat(toDaemon[s], sendBuffer[s])
                      /\ c = sendBuffer[s]
  OBVIOUS
<1>11. a \in Seq(Nat) /\ toDaemon[s] \in Seq(Nat) /\ c \in Seq(Nat)
  BY <1>1, <1>10, Nothing DEF BusTypes
<1>12. b \in Seq(Nat)
  BY <1>10, <1>11, CatSet
<1>13. PICK d : d = Stream(s)
  OBVIOUS
<1>14. d \in Seq(Nat) /\ d = Cat(a, b)
  <2>1. d \in Seq(Nat)
    BY <1>1, <1>13, StreamTypes
  <2> QED BY <1>10, <1>13, <2>1 DEF Stream
<1>15. Stream(s)' = Cat(d, m)
  <2>1. Stream(s)' = Cat(a, Cat(toDaemon[s], Cat(c, m)))
    BY <1>4, <1>9, <1>10 DEF Stream
  <2>2. Cat(Cat(toDaemon[s], c), m) = Cat(toDaemon[s], Cat(c, m))
    BY <1>8, <1>11, CatAssociative
  <2>3. Cat(Cat(a, b), m) = Cat(a, Cat(b, m))
    BY <1>8, <1>11, <1>12, CatAssociative
  <2> QED BY <1>10, <1>14, <2>1, <2>2, <2>3
<1>16. \A u \in Servers : u # s => Stream(u)' = Stream(u)
  BY <1>4, <1>9 DEF Stream
<1>17. \A u \in Servers : Incoming(u)' = Incoming(u)
  BY <1>4 DEF Incoming
<1>18. \A u \in Servers : Rcv(u)' = Rcv(u)
  BY <1>4, <1>17 DEF Rcv
<1>19. /\ WellFormed(d) /\ Ascending(d) /\ Complete(d) /\ Numbers(d) \subseteq 256..(255 + messages)
  BY <1>2, <1>4, <1>13 DEF Streams
<1>20. /\ WellFormed(Cat(d, m)) /\ Ascending(Cat(d, m)) /\ Complete(Cat(d, m))
       /\ Numbers(Cat(d, m)) \subseteq Numbers(d) \cup {n}
  <2>1. \A k \in Numbers(d) : k < n
    BY <1>3, <1>5, <1>19
  <2> QED BY <1>5, <1>7, <1>14, <1>19, <2>1, StreamAppend
<1>21. Numbers(Stream(s)') \subseteq Numbers(Stream(s)) \cup {n}
  BY <1>13, <1>15, <1>20
<1>22. \A u \in Servers : Numbers(Stream(u)) \subseteq 256..(255 + messages)
  BY <1>2 DEF Streams
<1>23. Streams'
  <2>1. ASSUME NEW u \in Servers
        PROVE  /\ WellFormed(Stream(u)') /\ Ascending(Stream(u)')
               /\ Numbers(Stream(u)') \subseteq 256..n /\ (up[u] => Complete(Stream(u)'))
    <3>1. CASE u = s
      BY <1>6, <1>15, <1>20, <1>21, <1>22, <3>1
    <3>2. CASE u # s
      <4>1. WellFormed(Stream(u)) /\ Ascending(Stream(u)) /\ (up[u] => Complete(Stream(u)))
        BY <1>2 DEF Streams
      <4> QED BY <1>6, <1>16, <1>22, <3>2, <4>1
    <3> QED BY <3>1, <3>2
  <2>2. ASSUME NEW u \in Servers, NEW t \in Servers, u # t
        PROVE  Numbers(Stream(u)') \cap Numbers(Stream(t)') = {}
    <3>1. Numbers(Stream(u)) \cap Numbers(Stream(t)) = {}
      BY <1>2, <2>2 DEF Streams
    <3>2. CASE u = s
      BY <1>6, <1>16, <1>21, <1>22, <2>2, <3>1, <3>2
    <3>3. CASE t = s
      BY <1>6, <1>16, <1>21, <1>22, <2>2, <3>1, <3>3
    <3>4. CASE u # s /\ t # s
      BY <1>16, <3>1, <3>4
    <3> QED BY <3>2, <3>3, <3>4
  <2> QED BY <1>4, <1>a, <2>1, <2>2 DEF Streams
<1>24. sent[s] \in Seq(Values)
  BY <1>1 DEF BusTypes
<1>25. ToSet(sent'[s]) = ToSet(sent[s]) \cup {n} /\ App(sent[s], n) \in Seq(Values)
  BY <1>5, <1>9, <1>24, SetOfAppend
<1>26. IsInjective(sent'[s]) <=> IsInjective(sent[s]) /\ n \notin ToSet(sent[s])
  BY <1>5, <1>9, <1>24, SetOfAppend
<1>27. Once'
  <2> SUFFICES ASSUME NEW t \in Servers
               PROVE  /\ IsInjective(sent'[t]) /\ ToSet(sent'[t]) \subseteq 256..(255 + messages')
                      /\ \A u \in Servers :
                            u # t => Numbers(Stream(u)') \cap ToSet(sent'[t]) = {}
                      /\ up[t] =>
                            /\ IsInjective(Rcv(t)) /\ ToSet(Rcv(t)) \subseteq 256..(255 + messages')
                            /\ ToSet(Rcv(t)) \cap ToSet(sent'[t]) = {}
                            /\ \A u \in Servers :
                                  u # t => Numbers(Stream(u)') \cap ToSet(Rcv(t)) = {}
    BY <1>4, <1>18 DEF Once
  <2>1. /\ IsInjective(sent[t]) /\ ToSet(sent[t]) \subseteq 256..(255 + messages)
        /\ \A u \in Servers : u # t => Numbers(Stream(u)) \cap ToSet(sent[t]) = {}
        /\ up[t] => /\ IsInjective(Rcv(t)) /\ ToSet(Rcv(t)) \subseteq 256..(255 + messages)
                    /\ ToSet(Rcv(t)) \cap ToSet(sent[t]) = {}
                    /\ \A u \in Servers : u # t => Numbers(Stream(u)) \cap ToSet(Rcv(t)) = {}
    BY <1>2 DEF Once
  <2>2. ToSet(sent'[t]) \subseteq ToSet(sent[t]) \cup {n} /\ (t # s => sent'[t] = sent[t])
    BY <1>9, <1>25
  <2>3. IsInjective(sent'[t])
    BY <1>6, <1>9, <1>26, <2>1
  <2>4. ASSUME NEW u \in Servers, u # t
        PROVE  Numbers(Stream(u)') \cap ToSet(sent'[t]) = {}
    <3>1. CASE u = s
      BY <1>6, <1>21, <2>1, <2>2, <2>4, <3>1
    <3>2. CASE u # s
      BY <1>6, <1>16, <1>22, <2>1, <2>2, <2>4, <3>2
    <3> QED BY <3>1, <3>2
  <2>5. ASSUME up[t]
        PROVE  /\ IsInjective(Rcv(t)) /\ ToSet(Rcv(t)) \subseteq 256..n
               /\ ToSet(Rcv(t)) \cap ToSet(sent'[t]) = {}
               /\ \A u \in Servers : u # t => Numbers(Stream(u)') \cap ToSet(Rcv(t)) = {}
    <3>1. \A u \in Servers : u # t => Numbers(Stream(u)') \cap ToSet(Rcv(t)) = {}
      BY <1>6, <1>16, <1>21, <2>1, <2>5
    <3> QED BY <1>6, <2>1, <2>2, <2>5, <3>1
  <2>6. ToSet(sent'[t]) \subseteq 256..n
    BY <1>6, <2>1, <2>2
  <2> QED BY <1>a, <2>3, <2>4, <2>5, <2>6
<1>28. \A u \in Servers : u # s => Coming(u)' = Coming(u)
  BY <1>16 DEF Coming
<1>29. Coming(s) \in Seq(Values)
  BY <1>1, StreamTypes
<1>30. ASSUME ~cut[s]
       PROVE  Split(Stream(s)').rest = <<>> /\ Coming(s)' = App(Coming(s), n)
  <2>1. Split(d).rest = <<>>
    BY <1>2, <1>4, <1>13, <1>30 DEF Uncut
  <2>2. Cat(<<>>, m) = m
    BY <1>8, CatEmpty
  <2>3. /\ Split(Cat(d, m)).whole = Cat(Split(d).whole, Split(Cat(Split(d).rest, m)).whole)
        /\ Split(Cat(d, m)).rest = Split(Cat(Split(d).rest, m)).rest
    BY <1>8, <1>14, SplitConcat
  <2>4. /\ Split(Stream(s)').whole = Cat(Split(d).whole, Split(m).whole)
        /\ Split(Stream(s)').rest = Split(m).rest
    BY <1>15, <2>1, <2>2, <2>3
  <2>5. Split(d).whole \in Seq(Seq(Nat)) /\ Split(m).whole \in Seq(Seq(Nat))
    BY <1>8, <1>14, SplitFacts
  <2>6. Coming(s)' = Cat(Coming(s), App(<<>>, n))
    <3>1. Accepted(Cat(Split(d).whole, Split(m).whole))
              = Cat(Accepted(Split(d).whole), Accepted(Split(m).whole))
      BY <2>5, AcceptedConcat
    <3> QED BY <1>8, <1>13, <2>4, <3>1 DEF Coming
  <2>7. Cat(Coming(s), App(<<>>, n)) = App(Coming(s), n)
    <3>1. PICK y : y = Coming(s)
      OBVIOUS
    <3>2. PICK e : e = <<>>
      OBVIOUS
    <3>3. y \in Seq(Values) /\ e \in Seq(Values)
      BY <1>29, <3>1, <3>2, Nothing
    <3>4. Cat(y, App(e, n)) = App(Cat(y, e), n)
      BY <1>5, <3>3, CatAppend
    <3>5. Cat(y, e) = y
      BY <3>2, <3>3, CatEmpty
    <3> QED BY <3>1, <3>2, <3>4, <3>5
  <2> QED BY <1>8, <2>4, <2>6, <2>7
<1>31. Uncut'
  <2> SUFFICES ASSUME NEW u \in Servers, up[u], ~cut[u]
               PROVE  /\ Split(Stream(u)').rest = <<>>
                      /\ \E pre \in Seq(Values) : sent'[u] = Cat(pre, Coming(u)')
    BY <1>4 DEF Uncut
  <2>0. /\ Split(Stream(u)).rest = <<>>
        /\ \E pre \in Seq(Values) : sent[u] = Cat(pre, Coming(u))
    BY <1>2 DEF Uncut
  <2>1. CASE u # s
    BY <1>9, <1>16, <1>28, <2>0, <2>1
  <2>2. CASE u = s
    <3>1. PICK pre \in Seq(Values) : sent[s] = Cat(pre, Coming(s))
      BY <2>0, <2>2
    <3>2. Cat(pre, App(Coming(s), n)) = App(Cat(pre, Coming(s)), n)
      BY <1>5, <1>29, CatAppend
    <3>3. sent'[s] = Cat(pre, Coming(s)')
      BY <1>9, <1>30, <2>2, <3>1, <3>2
    <3> QED BY <1>30, <2>2, <3>3
  <2> QED BY <2>1, <2>2
<1>32. Passed'
  <2> SUFFICES ASSUME NEW u \in Servers, NEW t \in Servers, u # t, up[u], ~cut[u], up[t]
               PROVE  /\ \E pre \in Seq(Values) : sent'[u] = Cat(pre, All(u, t)')
                      /\ t \notin crashed => sent'[u] = All(u, t)'
    BY <1>4 DEF Passed
  <2>0. /\ \E pre \in Seq(Values) : sent[u] = Cat(pre, All(u, t))
        /\ t \notin crashed => sent[u] = All(u, t)
    BY <1>2 DEF Passed
  <2>1. CASE u # s
    <3>1. All(u, t)' = All(u, t)
      BY <1>9, <1>18, <1>28, <2>1 DEF All
    <3> QED BY <1>9, <2>0, <2>1, <3>1
  <2>2. CASE u = s
    <3>1. PICK r : r = Rcv(t)
      OBVIOUS
    <3>2. r \in Seq(Values)
      BY <1>1, <3>1, StreamTypes
    <3>3. n \notin ToSet(r)
      BY <1>2, <1>6, <3>1 DEF Once
    <3>4. ToSet(r) \cap ToSet(sent'[s]) = ToSet(r) \cap ToSet(sent[s])
      BY <1>25, <3>3
    <3>5. PICK o : o = Only(r, ToSet(sent[s]))
      OBVIOUS
    <3>6. Only(r, ToSet(sent'[s])) = o
      BY <3>2, <3>4, <3>5, OnlySame
    <3>7. o \in Seq(Values)
      BY <3>2, <3>5, OnlyConcat
    <3>8. All(s, t)' = Cat(o, App(Coming(s), n))
      BY <1>18, <1>30, <2>2, <3>1, <3>6 DEF All
    <3>9. All(s, t) = Cat(o, Coming(s))
      BY <3>1, <3>5 DEF All
    <3>10. Cat(o, App(Coming(s), n)) = App(Cat(o, Coming(s)), n)
      BY <1>5, <1>29, <3>7, CatAppend
    <3>11. All(s, t)' = App(All(s, t), n)
      BY <3>8, <3>9, <3>10
    <3>12. All(s, t) \in Seq(Values)
      BY <1>29, <3>7, <3>9, CatSet
    <3>13. PICK pre \in Seq(Values) : sent[s] = Cat(pre, All(s, t))
      BY <2>0, <2>2
    <3>14. Cat(pre, App(All(s, t), n)) = App(Cat(pre, All(s, t)), n)
      BY <1>5, <3>12, CatAppend
    <3>15. sent'[s] = Cat(pre, All(s, t)')
      BY <1>9, <3>11, <3>13, <3>14
    <3>16. t \notin crashed => sent'[s] = All(s, t)'
      BY <1>9, <2>0, <2>2, <3>11
    <3> QED BY <2>2, <3>15, <3>16
  <2> QED BY <2>1, <2>2
<1>33. BusTypes'
  <2>1. sent' \in [Servers -> Seq(Values)]
    BY <1>1, <1>4, <1>25 DEF BusTypes
  <2>2. sendBuffer' \in [Servers -> Seq(Nat)]
    <3>1. Cat(c, m) \in Seq(Nat)
      BY <1>8, <1>11, CatSet
    <3> QED BY <1>1, <1>4, <1>7, <1>10, <3>1 DEF BusTypes
  <2>3. messages' \in 0..MaxMessages
    BY <1>4, <1>5, SystemBusAssumptions
  <2>4. publishing' \in [Servers -> SUBSET Nat]
    <3>1. publishing \in [Servers -> SUBSET Nat]
      BY <1>1 DEF BusTypes
    <3> QED BY <1>4, <1>5, <1>a, <3>1
  <2> QED BY <1>1, <1>4, <2>1, <2>2, <2>3, <2>4 DEF BusTypes
<1>34. DownIsEmpty'
  BY <1>1, <1>4, <1>9 DEF DownIsEmpty
<1>35. DaemonWaits'
  BY <1>1, <1>4 DEF DaemonWaits
<1>36. Subscribed'
  <2>1. \A u \in Servers : publishing'[u] \subseteq ToSet(sent'[u])
    BY <1>1, <1>9, <1>25, <1>a DEF Subscribed
  <2> QED BY <1>1, <1>4, <2>1 DEF Subscribed
<1>37. Aligned'
  BY <1>1, <1>4, <1>17 DEF Aligned
<1>38. GotOnce'
  <2> SUFFICES ASSUME NEW y \in Sockets
               PROVE  /\ IsInjective(got[y])
                      /\ ToSet(got[y]) \subseteq ToSet(received[Home[y]])
                                         \cup (ToSet(sent'[Home[y]]) \ publishing'[Home[y]])
    BY <1>4 DEF GotOnce
  <2>1. /\ IsInjective(got[y]) /\ Home[y] \in Servers
        /\ ToSet(got[y]) \subseteq ToSet(received[Home[y]])
                                   \cup (ToSet(sent[Home[y]]) \ publishing[Home[y]])
    BY <1>1, SystemBusAssumptions DEF GotOnce
  <2>2. n \notin ToSet(sent[s])
    BY <1>2, <1>6 DEF Once
  <2>3. CASE Home[y] = s
    BY <1>9, <1>25, <1>a, <2>1, <2>2, <2>3
  <2>4. CASE Home[y] # s
    BY <1>9, <2>1, <2>4
  <2> QED BY <2>3, <2>4
<1> QED BY <1>23, <1>27, <1>31, <1>32, <1>33, <1>34, <1>35, <1>36, <1>37, <1>38 DEF BusInv

\* What the daemon has read of a server is cut off its bytes: the whole messages are
\* written to the others, and the rest is kept.
LEMMA ForwardSplit ==
    ASSUME NEW b \in Seq(Nat), NEW c \in Seq(Nat), NEW f, f = FlattenSeq(Split(b).whole)
    PROVE  /\ f \in Seq(Nat) /\ Split(b).whole \in Seq(Seq(Nat)) /\ Split(b).rest \in Seq(Nat)
           /\ Cat(b, c) = Cat(f, Cat(Split(b).rest, c))
           /\ Split(f).whole = Split(b).whole /\ Split(f).rest = <<>>
<1>1. /\ f \in Seq(Nat) /\ Split(b).whole \in Seq(Seq(Nat)) /\ Split(b).rest \in Seq(Nat)
      /\ Split(f).whole = Split(b).whole /\ Split(f).rest = <<>>
  BY SplitFacts
<1>2. PICK r : r = Split(b).rest
  OBVIOUS
<1>3. Cat(f, r) = b /\ r \in Seq(Nat)
  BY <1>2, SplitFacts
<1>4. Cat(Cat(f, r), c) = Cat(f, Cat(r, c))
  BY <1>1, <1>3, CatAssociative
<1> QED BY <1>1, <1>2, <1>3, <1>4

\* Whole messages that follow bytes with no rest are split by themselves.
LEMMA SplitAfterWhole ==
    ASSUME NEW a \in Seq(Nat), NEW b \in Seq(Nat), Split(a).rest = <<>>
    PROVE  /\ Split(Cat(a, b)).rest = Split(b).rest
           /\ Accepted(Split(Cat(a, b)).whole)
                 = Cat(Accepted(Split(a).whole), Accepted(Split(b).whole))
<1>1. Cat(<<>>, b) = b
  BY CatEmpty
<1>2. /\ Split(Cat(a, b)).whole = Cat(Split(a).whole, Split(Cat(Split(a).rest, b)).whole)
      /\ Split(Cat(a, b)).rest = Split(Cat(Split(a).rest, b)).rest
  BY SplitConcat
<1>3. Split(Cat(a, b)).whole = Cat(Split(a).whole, Split(b).whole)
  BY <1>1, <1>2
<1>4. Split(a).whole \in Seq(Seq(Nat)) /\ Split(b).whole \in Seq(Seq(Nat))
  BY SplitFacts
<1>5. Accepted(Cat(Split(a).whole, Split(b).whole))
          = Cat(Accepted(Split(a).whole), Accepted(Split(b).whole))
  BY <1>4, AcceptedConcat
<1> QED BY <1>1, <1>2, <1>3, <1>5

\* The loop of readSocket(): numbers of one server become numbers that the others
\* are to receive.
LEMMA ForwardKeeps ==
    ASSUME BusInv, NEW s \in Servers, s \in socketSet, NEW k \in 1..Len(toDaemon[s]),
           NEW a \in Seq(Nat), a = (IF reading = s THEN buf ELSE <<>>), reading \in {s, Nobody},
           Forward(s, Cat(a, SubSeq(toDaemon[s], 1, k))),
           toDaemon' = [toDaemon EXCEPT ![s] = SubSeq(@, k + 1, Len(@))],
           UNCHANGED <<up, sendBuffer, readBuffer, socketSet>>,
           UNCHANGED <<publishing, local, connections, got>>,
           UNCHANGED <<messages, crashed, sent, received, cut>>
    PROVE  BusInv'
<1>1. BusTypes /\ DownIsEmpty /\ DaemonWaits /\ Subscribed /\ Aligned /\ GotOnce
  BY DEF BusInv
<1>2. Streams /\ Once /\ Uncut /\ Passed
  BY DEF BusInv
<1>3. PICK q, e, front, back : /\ q = toDaemon[s] /\ e = sendBuffer[s]
                               /\ front = SubSeq(q, 1, k) /\ back = SubSeq(q, k + 1, Len(q))
  OBVIOUS
<1>4. q \in Seq(Nat) /\ e \in Seq(Nat)
  BY <1>1, <1>3 DEF BusTypes
<1>5. front \in Seq(Nat) /\ back \in Seq(Nat) /\ Cat(front, back) = q
  <2>1. k \in 0..Len(q)
    <3>1. Len(q) \in Nat
      BY <1>4, LenProperties
    <3> QED BY <1>3, <3>1
  <2> QED BY <1>3, <1>4, <2>1, CutInTwo
<1>6. PICK b, c : b = Cat(a, front) /\ c = Cat(back, e)
  OBVIOUS
<1>7. b \in Seq(Nat)
  BY <1>5, <1>6, CatSet
<1>8. c \in Seq(Nat)
  BY <1>4, <1>5, <1>6, CatSet
<1>9. PICK w, z, f : w = Split(b).whole /\ z = Split(b).rest /\ f = FlattenSeq(w)
  OBVIOUS
<1>10. f \in Seq(Nat) /\ w \in Seq(Seq(Nat)) /\ z \in Seq(Nat)
  BY <1>7, <1>8, <1>9, ForwardSplit
<1>11. Cat(b, c) = Cat(f, Cat(z, c))
  BY <1>7, <1>8, <1>9, ForwardSplit
<1>12. Split(f).whole = w /\ Split(f).rest = <<>>
  BY <1>7, <1>8, <1>9, ForwardSplit
<1>13. /\ toServer' = [t \in Servers |-> IF t \in socketSet \ {s} THEN Cat(toServer[t], f)
                                                                  ELSE toServer[t]]
       /\ buf' = z /\ reading' = IF z = <<>> THEN Nobody ELSE s
  BY <1>3, <1>6, <1>9 DEF Forward, Cat
<1>14. \A u \in Servers : u # Nobody
  BY SystemBusAssumptions
<1>15. /\ toDaemon'[s] = back /\ \A u \in Servers : u # s => toDaemon'[u] = toDaemon[u]
  BY <1>1, <1>3 DEF BusTypes
<1>16. PICK d : d = Cat(z, c)
  OBVIOUS
<1>17. d \in Seq(Nat)
  BY <1>8, <1>10, <1>16, CatSet
<1>18. Stream(s)' = d
  <2>1. (IF reading' = s THEN buf' ELSE <<>>) = z
    BY <1>13, <1>14
  <2> QED BY <1>3, <1>6, <1>15, <1>16, <2>1 DEF Stream
<1>19. Stream(s) = Cat(f, d)
  <2>1. Stream(s) = Cat(a, Cat(q, e))
    BY <1>3 DEF Stream
  <2>2. Cat(Cat(front, back), e) = Cat(front, Cat(back, e))
    BY <1>4, <1>5, CatAssociative
  <2>3. Cat(Cat(a, front), c) = Cat(a, Cat(front, c))
    <3>1. PICK h : h = a
      OBVIOUS
    <3>2. h \in Seq(Nat)
      BY <3>1
    <3>3. Cat(Cat(h, front), c) = Cat(h, Cat(front, c))
      BY <1>5, <1>8, <3>2, CatAssociative
    <3> QED BY <3>1, <3>3
  <2> QED BY <1>5, <1>6, <1>11, <1>16, <2>1, <2>2, <2>3
<1>20. ASSUME NEW u \in Servers, u # s PROVE Stream(u)' = Stream(u)
  <2>1. reading # u /\ reading' # u
    BY <1>13, <1>14, <1>20
  <2> QED BY <1>15, <1>20, <2>1 DEF Stream
<1>21. WellFormed(Stream(s)) /\ Ascending(Stream(s))
  BY <1>2 DEF Streams
<1>22. /\ WellFormed(f) /\ WellFormed(d) /\ Ascending(f) /\ Ascending(d)
       /\ Numbers(f) \cap Numbers(d) = {}
       /\ Numbers(f) \cup Numbers(d) \subseteq Numbers(Stream(s))
       /\ Complete(Stream(s)) => Complete(d)
  <2>1. WellFormed(f) /\ WellFormed(d)
    BY <1>10, <1>17, <1>19, <1>21, StreamParts
  <2>2. Ascending(f) /\ Ascending(d) /\ Numbers(f) \cap Numbers(d) = {}
    BY <1>10, <1>17, <1>19, <1>21, StreamParts
  <2>3. Numbers(f) \cup Numbers(d) \subseteq Numbers(Stream(s))
    BY <1>10, <1>17, <1>19, StreamParts
  <2>4. Complete(Stream(s)) => Complete(d)
    BY <1>10, <1>17, <1>19, StreamParts
  <2> QED BY <2>1, <2>2, <2>3, <2>4
<1>23. \A u \in Servers : /\ WellFormed(Stream(u)') /\ Ascending(Stream(u)')
                          /\ Numbers(Stream(u)') \subseteq Numbers(Stream(u))
                          /\ up'[u] => Complete(Stream(u)')
  <2>1. \A u \in Servers : /\ WellFormed(Stream(u)) /\ Ascending(Stream(u))
                           /\ up[u] => Complete(Stream(u))
    BY <1>2 DEF Streams
  <2> QED BY <1>18, <1>20, <1>22, <2>1
<1>24. Streams'
  BY <1>2, <1>23, StreamsShrink
<1>25. PICK ns : ns = Accepted(w)
  OBVIOUS
<1>26. ns \in Seq(Values)
  BY <1>10, <1>25, AcceptedAppend
<1>27. ToSet(ns) \subseteq Numbers(f) /\ IsInjective(ns)
  BY <1>7, <1>9, <1>22, <1>25, AcceptedNumbers
<1>28. ASSUME NEW t \in Servers, t \in socketSet, t # s, up[t]
       PROVE  Split(Incoming(t)').rest = <<>> /\ Rcv(t)' = Cat(Rcv(t), ns)
  <2>1. PICK i, r, y, v : /\ i = Incoming(t) /\ r = readBuffer[t]
                          /\ y = toServer[t] /\ v = received[t]
    OBVIOUS
  <2>2. r \in Seq(Nat) /\ y \in Seq(Nat) /\ v \in Seq(Values)
    BY <1>1, <2>1 DEF BusTypes
  <2>3. i \in Seq(Nat)
    BY <1>1, <2>1, StreamTypes
  <2>4. toServer'[t] = Cat(y, f)
    BY <1>13, <1>28, <2>1
  <2>5. Cat(Cat(r, y), f) = Cat(r, Cat(y, f))
    BY <1>10, <2>2, CatAssociative
  <2>6. Incoming(t)' = Cat(i, f)
    BY <2>1, <2>4, <2>5 DEF Incoming
  <2>7. Split(i).rest = <<>>
    BY <1>1, <1>28, <2>1 DEF Aligned
  <2>8. /\ Split(Cat(i, f)).rest = Split(f).rest
        /\ Accepted(Split(Cat(i, f)).whole) =
             Cat(Accepted(Split(i).whole), Accepted(Split(f).whole))
    BY <1>10, <2>3, <2>7, SplitAfterWhole
  <2>9. PICK p : p = Accepted(Split(i).whole)
    OBVIOUS
  <2>10. p \in Seq(Values)
    <3>1. Split(i).whole \in Seq(Seq(Nat))
      BY <2>3, SplitFacts
    <3> QED BY <2>9, <3>1, AcceptedAppend
  <2>11. Rcv(t)' = Cat(v, Cat(p, ns))
    BY <1>12, <1>25, <2>1, <2>6, <2>8, <2>9 DEF Rcv
  <2>12. Rcv(t) = Cat(v, p)
    BY <2>1, <2>9 DEF Rcv
  <2>13. Cat(Cat(v, p), ns) = Cat(v, Cat(p, ns))
    BY <1>26, <2>2, <2>10, CatAssociative
  <2> QED BY <1>12, <2>6, <2>8, <2>11, <2>12, <2>13
<1>29. ASSUME NEW t \in Servers, t \notin socketSet \/ t = s
       PROVE  toServer'[t] = toServer[t] /\ Incoming(t)' = Incoming(t) /\ Rcv(t)' = Rcv(t)
  <2>1. toServer'[t] = toServer[t]
    BY <1>13, <1>29
  <2>2. Incoming(t)' = Incoming(t)
    BY <2>1 DEF Incoming
  <2> QED BY <2>1, <2>2 DEF Rcv
<1>30. ASSUME NEW t \in Servers, t # s PROVE ToSet(ns) \cap ToSet(sent[t]) = {}
  <2>1. Numbers(Stream(s)) \cap ToSet(sent[t]) = {}
    BY <1>2, <1>30 DEF Once
  <2> QED BY <1>22, <1>27, <2>1
<1>31. Once'
  <2> SUFFICES ASSUME NEW t \in Servers
               PROVE  /\ IsInjective(sent[t]) /\ ToSet(sent[t]) \subseteq 256..(255 + messages)
                      /\ \A u \in Servers : u # t => Numbers(Stream(u)') \cap ToSet(sent[t]) = {}
                      /\ up[t] =>
                            /\ IsInjective(Rcv(t)') /\ ToSet(Rcv(t)') \subseteq 256..(255 + messages)
                            /\ ToSet(Rcv(t)') \cap ToSet(sent[t]) = {}
                            /\ \A u \in Servers :
                                  u # t => Numbers(Stream(u)') \cap ToSet(Rcv(t)') = {}
    BY DEF Once
  <2>1. /\ IsInjective(sent[t]) /\ ToSet(sent[t]) \subseteq 256..(255 + messages)
        /\ \A u \in Servers : u # t => Numbers(Stream(u)) \cap ToSet(sent[t]) = {}
        /\ up[t] => /\ IsInjective(Rcv(t)) /\ ToSet(Rcv(t)) \subseteq 256..(255 + messages)
                    /\ ToSet(Rcv(t)) \cap ToSet(sent[t]) = {}
                    /\ \A u \in Servers : u # t => Numbers(Stream(u)) \cap ToSet(Rcv(t)) = {}
    BY <1>2 DEF Once
  <2>2. \A u \in Servers : u # t => Numbers(Stream(u)') \cap ToSet(sent[t]) = {}
    BY <1>23, <2>1
  <2>3. ASSUME up[t]
        PROVE  /\ IsInjective(Rcv(t)') /\ ToSet(Rcv(t)') \subseteq 256..(255 + messages)
               /\ ToSet(Rcv(t)') \cap ToSet(sent[t]) = {}
               /\ \A u \in Servers : u # t => Numbers(Stream(u)') \cap ToSet(Rcv(t)') = {}
    <3>1. CASE t \notin socketSet \/ t = s
      BY <1>23, <1>29, <2>1, <2>3, <3>1
    <3>2. CASE t \in socketSet /\ t # s
      <4>1. Rcv(t)' = Cat(Rcv(t), ns)
        BY <1>28, <2>3, <3>2
      <4>2. Rcv(t) \in Seq(Values)
        BY <1>1, StreamTypes
      <4>3. ToSet(ns) \cap ToSet(Rcv(t)) = {}
        <5>1. Numbers(Stream(s)) \cap ToSet(Rcv(t)) = {}
          BY <2>1, <2>3, <3>2
        <5> QED BY <1>22, <1>27, <5>1
      <4>4. IsInjective(Rcv(t)')
        BY <1>26, <1>27, <2>1, <2>3, <4>1, <4>2, <4>3, CatSet
      <4>5. ToSet(Rcv(t)') = ToSet(Rcv(t)) \cup ToSet(ns)
        BY <1>26, <4>1, <4>2, CatSet
      <4>6. ToSet(ns) \subseteq 256..(255 + messages)
        <5>1. Numbers(Stream(s)) \subseteq 256..(255 + messages)
          BY <1>2 DEF Streams
        <5> QED BY <1>22, <1>27, <5>1
      <4>7. ToSet(ns) \cap ToSet(sent[t]) = {}
        BY <1>30, <3>2
      <4>8. ASSUME NEW u \in Servers, u # t
            PROVE  Numbers(Stream(u)') \cap ToSet(Rcv(t)') = {}
        <5>1. Numbers(Stream(u)') \cap ToSet(ns) = {}
          <6>1. CASE u = s
            BY <1>18, <1>22, <1>27, <6>1
          <6>2. CASE u # s
            <7>1. Numbers(Stream(u)) \cap Numbers(Stream(s)) = {}
              BY <1>2, <6>2 DEF Streams
            <7> QED BY <1>22, <1>23, <1>27, <7>1
          <6> QED BY <6>1, <6>2
        <5>2. Numbers(Stream(u)') \cap ToSet(Rcv(t)) = {}
          BY <1>23, <2>1, <2>3, <4>8
        <5> QED BY <4>5, <5>1, <5>2
      <4>9. ToSet(Rcv(t)') \subseteq 256..(255 + messages) /\ ToSet(Rcv(t)') \cap ToSet(sent[t]) = {}
        BY <2>1, <2>3, <4>5, <4>6, <4>7
      <4> QED BY <4>4, <4>8, <4>9
    <3> QED BY <3>1, <3>2
  <2> QED BY <2>1, <2>2, <2>3
<1>32. \A u \in Servers : u # s => Coming(u)' = Coming(u)
  BY <1>20 DEF Coming
<1>33. Coming(s)' \in Seq(Values)
  <2>1. Split(d).whole \in Seq(Seq(Nat))
    BY <1>17, SplitFacts
  <2>2. Accepted(Split(d).whole) \in Seq(Values)
    BY <2>1, AcceptedAppend
  <2> QED BY <1>18, <2>2 DEF Coming
<1>34. /\ Split(Stream(s)').rest = Split(Stream(s)).rest
       /\ Coming(s) = Cat(ns, Coming(s)')
  <2>1. /\ Split(Cat(f, d)).rest = Split(d).rest
        /\ Accepted(Split(Cat(f, d)).whole)
              = Cat(Accepted(Split(f).whole), Accepted(Split(d).whole))
    BY <1>10, <1>12, <1>17, SplitAfterWhole
  <2> QED BY <1>12, <1>18, <1>19, <1>25, <2>1 DEF Coming
<1>35. ASSUME up[s], ~cut[s]
       PROVE  /\ \E pre \in Seq(Values) : sent[s] = Cat(pre, Coming(s)')
              /\ ToSet(ns) \subseteq ToSet(sent[s])
  <2>1. PICK y : y = Coming(s)'
    OBVIOUS
  <2>2. y \in Seq(Values)
    BY <1>33, <2>1
  <2>3. PICK p \in Seq(Values) : sent[s] = Cat(p, Cat(ns, y))
    BY <1>2, <1>34, <1>35, <2>1 DEF Uncut
  <2>4. Cat(Cat(p, ns), y) = Cat(p, Cat(ns, y))
    BY <1>26, <2>2, CatAssociative
  <2>5. Cat(p, ns) \in Seq(Values) /\ ToSet(Cat(p, ns)) = ToSet(p) \cup ToSet(ns)
    BY <1>26, CatSet
  <2>6. ToSet(Cat(Cat(p, ns), y)) = ToSet(Cat(p, ns)) \cup ToSet(y)
    BY <2>2, <2>5, CatSet
  <2>7. sent[s] = Cat(Cat(p, ns), y)
    BY <2>3, <2>4
  <2> QED BY <2>1, <2>5, <2>6, <2>7
<1>36. Uncut'
  <2> SUFFICES ASSUME NEW u \in Servers, up[u], ~cut[u]
               PROVE  /\ Split(Stream(u)').rest = <<>>
                      /\ \E pre \in Seq(Values) : sent[u] = Cat(pre, Coming(u)')
    BY DEF Uncut
  <2>1. /\ Split(Stream(u)).rest = <<>>
        /\ \E pre \in Seq(Values) : sent[u] = Cat(pre, Coming(u))
    BY <1>2 DEF Uncut
  <2>2. CASE u # s
    BY <1>20, <1>32, <2>1, <2>2
  <2>3. CASE u = s
    BY <1>34, <1>35, <2>1, <2>3
  <2> QED BY <2>2, <2>3
<1>37. Passed'
  <2> SUFFICES ASSUME NEW u \in Servers, NEW t \in Servers, u # t, up[u], ~cut[u], up[t]
               PROVE  /\ \E pre \in Seq(Values) : sent[u] = Cat(pre, All(u, t)')
                      /\ t \notin crashed => sent[u] = All(u, t)'
    BY DEF Passed
  <2>1. /\ \E pre \in Seq(Values) : sent[u] = Cat(pre, All(u, t))
        /\ t \notin crashed => sent[u] = All(u, t)
    BY <1>2 DEF Passed
  <2>2. PICK S : S = ToSet(sent[u])
    OBVIOUS
  <2>3. PICK r : r = Rcv(t)
    OBVIOUS
  <2>4. r \in Seq(Values)
    BY <1>1, <2>3, StreamTypes
  <2>5. PICK o : o = Only(r, S)
    OBVIOUS
  <2>6. o \in Seq(Values)
    BY <2>4, <2>5, OnlyConcat
  <2>7. Only(Cat(r, ns), S) = Cat(o, Only(ns, S))
    BY <1>26, <2>4, <2>5, OnlyConcat
  <2>8. All(u, t) = Cat(o, Coming(u)) /\ All(u, t)' = Cat(Only(Rcv(t)', S), Coming(u)')
    BY <2>2, <2>3, <2>5 DEF All
  <2>9. CASE u # s
    <3>1. Only(Rcv(t)', S) = o
      <4>1. CASE t \notin socketSet \/ t = s
        BY <1>29, <2>3, <2>5, <4>1
      <4>2. CASE t \in socketSet /\ t # s
        <5>1. Only(ns, S) = <<>>
          BY <1>26, <1>30, <2>2, <2>9, OnlyAllOrNone
        <5>2. Cat(o, <<>>) = o
          BY <2>6, CatEmpty
        <5>3. Rcv(t)' = Cat(r, ns)
          BY <1>28, <2>3, <4>2
        <5> QED BY <2>7, <5>1, <5>2, <5>3
      <4> QED BY <4>1, <4>2
    <3> QED BY <1>32, <2>1, <2>8, <2>9, <3>1
  <2>10. CASE u = s /\ t \in socketSet
    <3>1. Only(ns, S) = ns
      BY <1>26, <1>35, <2>2, <2>10, OnlyAllOrNone
    <3>2. Rcv(t)' = Cat(r, ns)
      BY <1>28, <2>3, <2>10
    <3>3. PICK y : y = Coming(s)'
      OBVIOUS
    <3>4. Cat(Cat(o, ns), y) = Cat(o, Cat(ns, y))
      BY <1>26, <1>33, <2>6, <3>3, CatAssociative
    <3>5. All(u, t)' = All(u, t)
      BY <1>34, <2>7, <2>8, <2>10, <3>1, <3>2, <3>3, <3>4
    <3> QED BY <2>1, <3>5
  <2>11. CASE u = s /\ t \notin socketSet
    <3>1. /\ t \in crashed /\ toServer[t] = <<>> /\ readBuffer[t] = <<>> /\ received[t] = <<>>
      BY <1>1, <2>11 DEF DownIsEmpty
    <3>2. Incoming(t) = <<>>
      BY <3>1, Nothing DEF Incoming
    <3>3. Rcv(t) = <<>>
      BY <3>1, <3>2, Nothing DEF Rcv
    <3>4. Rcv(t)' = <<>>
      BY <1>29, <2>11, <3>3
    <3>5. All(u, t)' = Cat(<<>>, Coming(s)')
      BY <2>8, <2>11, <3>4, OnlyEmpty
    <3>6. Cat(<<>>, Coming(s)') = Coming(s)'
      BY <1>33, CatEmpty
    <3> QED BY <1>35, <2>11, <3>1, <3>5, <3>6
  <2> QED BY <2>9, <2>10, <2>11
<1>38. BusTypes'
  <2>1. toServer' \in [Servers -> Seq(Nat)]
    <3>1. ASSUME NEW t \in Servers
          PROVE  toServer[t] \in Seq(Nat) /\ Cat(toServer[t], f) \in Seq(Nat)
      <4>1. toServer[t] \in Seq(Nat)
        BY <1>1 DEF BusTypes
      <4> QED BY <1>10, <4>1, CatSet
    <3> QED BY <1>13, <3>1
  <2>2. toDaemon' \in [Servers -> Seq(Nat)]
    <3>1. toDaemon' = [toDaemon EXCEPT ![s] = back]
      BY <1>3
    <3> QED BY <1>1, <1>5, <3>1 DEF BusTypes
  <2>3. buf' \in Seq(Nat) /\ reading' \in Servers \cup {Nobody}
    BY <1>10, <1>13
  <2> QED BY <1>1, <2>1, <2>2, <2>3 DEF BusTypes
<1>39. DownIsEmpty'
  BY <1>1, <1>15, <1>29 DEF DownIsEmpty
<1>40. DaemonWaits'
  BY <1>13, <1>14 DEF DaemonWaits
<1>41. Subscribed' /\ GotOnce'
  BY <1>1 DEF Subscribed, GotOnce
<1>42. Aligned'
  <2> SUFFICES ASSUME NEW t \in Servers, up[t]
               PROVE  Split(Incoming(t)').rest = <<>> /\ Split(readBuffer[t]).whole = <<>>
    BY DEF Aligned
  <2>1. Split(Incoming(t)).rest = <<>> /\ Split(readBuffer[t]).whole = <<>>
    BY <1>1 DEF Aligned
  <2>2. CASE t \notin socketSet \/ t = s
    BY <1>29, <2>1, <2>2
  <2>3. CASE t \in socketSet /\ t # s
    BY <1>28, <2>1, <2>3
  <2> QED BY <2>2, <2>3
<1> QED BY <1>24, <1>31, <1>36, <1>37, <1>38, <1>39, <1>40, <1>41, <1>42 DEF BusInv

\* Every step keeps the invariant.
LEMMA BusSteps ==
    ASSUME BusInv, [Next]_vars
    PROVE  BusInv'
<1>1. BusTypes /\ DaemonWaits
  BY DEF BusInv
<1>2. \A s \in Servers : toDaemon[s] \in Seq(Nat) /\ Len(toDaemon[s]) \in Nat
  BY <1>1, LenProperties DEF BusTypes
<1>3. ASSUME NEW s \in Servers, NEW k \in 1..(HEADER_LEN + 2) * MaxMessages,
             k <= Len(toDaemon[s]), readSocket(s, k) \/ MoreToRead(s, k)
      PROVE  BusInv'
  <2>1. k \in 1..Len(toDaemon[s]) /\ k \in 0..Len(toDaemon[s])
    BY <1>2, <1>3, SystemBusAssumptions DEF HEADER_LEN
  <2>2. SubSeq(toDaemon[s], 1, k) \in Seq(Nat)
    BY <1>2, <2>1, CutInTwo
  <2>3. /\ toDaemon' = [toDaemon EXCEPT ![s] = SubSeq(@, k + 1, Len(@))]
        /\ UNCHANGED <<up, sendBuffer, readBuffer, socketSet>>
        /\ UNCHANGED <<publishing, local, connections, got>>
        /\ UNCHANGED <<messages, crashed, sent, received, cut>>
    BY <1>3 DEF readSocket, MoreToRead, pubVars, history
  <2>4. s # Nobody
    BY SystemBusAssumptions
  <2>5. PICK a : a = (IF reading = s THEN buf ELSE <<>>)
    OBVIOUS
  <2>6. a \in Seq(Nat)
    BY <1>1, <2>5, Nothing DEF BusTypes
  <2>7. reading \in {s, Nobody} /\ s \in socketSet
    BY <1>1, <1>3, <2>4 DEF readSocket, MoreToRead, DaemonWaits
  <2>8. Forward(s, Cat(a, SubSeq(toDaemon[s], 1, k)))
    <3>1. CASE readSocket(s, k)
      <4>1. a = <<>> /\ Forward(s, SubSeq(toDaemon[s], 1, k))
        BY <2>4, <2>5, <3>1 DEF readSocket
      <4>2. Cat(<<>>, SubSeq(toDaemon[s], 1, k)) = SubSeq(toDaemon[s], 1, k)
        BY <2>2, CatEmpty
      <4> QED BY <4>1, <4>2
    <3>2. CASE MoreToRead(s, k)
      BY <2>5, <3>2 DEF MoreToRead, Cat
    <3> QED BY <1>3, <3>1, <3>2
  <2> QED BY <2>1, <2>3, <2>5, <2>6, <2>7, <2>8, ForwardKeeps
<1>4. CASE DaemonStep
  <2>1. CASE FrameTooShort
    BY <2>1, FrameTooShortKeeps
  <2>2. ASSUME NEW s \in Servers, handleDisconnect(s) \/ acceptConnection(s) PROVE BusInv'
    BY <2>2, ConnectionKeeps
  <2> QED BY <1>3, <1>4, <2>1, <2>2 DEF DaemonStep
<1>5. ASSUME NEW s \in Servers, MainStep(s) PROVE BusInv'
  <2>1. CASE writeBus(s)
    BY <2>1, WriteBusKeeps
  <2>2. ASSUME NEW k \in 1..Len(toServer[s]), readBus(s, k) PROVE BusInv'
    BY <2>2, ReadBusKeeps
  <2> QED BY <1>5, <2>1, <2>2 DEF MainStep
<1>6. ASSUME NEW s \in Servers, WorkerStep(s) PROVE BusInv'
  BY <1>6, PublishHereKeeps DEF WorkerStep
<1>7. ASSUME NEW s \in Servers, Restart(s) PROVE BusInv'
  BY <1>7, RestartKeeps
<1>8. ASSUME NEW s \in Servers, NEW x \in Sockets \cup {Nobody}, Publish(s, x) PROVE BusInv'
  BY <1>8, PublishKeeps
<1>9. ASSUME NEW s \in Servers, NEW k \in 0..Len(toDaemon[s]), Crash(s, k) PROVE BusInv'
  BY <1>9, CrashKeeps
<1>10. ASSUME NEW x \in Sockets,
              Unsubscribe(x) \/ \E flag \in {"on", "off"} : Subscribe(x, flag)
       PROVE  BusInv'
  BY <1>10, SubscribeKeeps
<1>11. CASE UNCHANGED vars
  BY <1>11, StutterKeeps
<1> QED BY <1>4, <1>5, <1>6, <1>7, <1>8, <1>9, <1>10, <1>11 DEF Next

\* The invariant holds in every state.
LEMMA BusInvariant == Spec => []BusInv
<1>1. BusInv /\ [Next]_vars => BusInv'
  BY BusSteps
<1> QED BY <1>1, BusInitially, PTL DEF Spec

-----------------------------------------------------------------------------
(* The properties, for every number of servers, subscribers, messages,       *)
(* subscriptions and crashes, and whatever byte the data of a message is.     *)

\* A subscriber is sent a message once, however often it has subscribed and on
\* whichever server the message was published.
THEOREM SubscribersGetEachOnce == Spec => []OncePerSubscriber
<1>1. BusInv => OncePerSubscriber
  BY DEF BusInv, GotOnce, OncePerSubscriber
<1> QED BY <1>1, BusInvariant, PTL

\* A server whose messages have not been given up half-read gets them to every other
\* server in order, without a gap and once, whatever became of the bytes of others.
THEOREM OthersAreUnharmed == Spec => []OthersUnharmed
<1>1. ASSUME BusInv PROVE OthersUnharmed
  <2> SUFFICES ASSUME NEW s \in Servers, NEW t \in Servers, s # t, ~cut[s],
                      NEW mine, mine = Only(received[t], ToSet(sent[s]))
               PROVE  \E i \in 1..(Len(sent[s]) + 1), j \in 0..Len(sent[s]) :
                         mine = SubSeq(sent[s], i, j)
    BY DEF OthersUnharmed
  <2>1. BusTypes /\ DownIsEmpty /\ Passed
    BY <1>1 DEF BusInv
  <2>2. PICK u, v, S : u = sent[s] /\ v = received[t] /\ S = ToSet(u)
    OBVIOUS
  <2>3. u \in Seq(Values) /\ v \in Seq(Values)
    BY <2>1, <2>2 DEF BusTypes
  <2>4. PICK o : o = Only(v, S)
    OBVIOUS
  <2>5. o \in Seq(Values)
    BY <2>3, <2>4, OnlyConcat
  <2>6. \E a, c \in Seq(Values) : u = Cat(a, Cat(o, c))
    <3>1. CASE up[s] /\ up[t]
      <4>1. PICK p \in Seq(Values) : u = Cat(p, All(s, t))
        BY <2>1, <2>2, <3>1 DEF Passed
      <4>2. PICK w : w = Accepted(Split(Incoming(t)).whole)
        OBVIOUS
      <4>3. w \in Seq(Values)
        BY <2>1, <4>2, StreamTypes, AcceptedAppend
      <4>4. Rcv(t) = Cat(v, w)
        BY <2>2, <4>2 DEF Rcv
      <4>5. PICK y, z : y = Only(w, S) /\ z = Coming(s)
        OBVIOUS
      <4>6. y \in Seq(Values)
        BY <4>3, <4>5, OnlyConcat
      <4>7. z \in Seq(Values)
        BY <2>1, <4>5, StreamTypes
      <4>8. Only(Cat(v, w), S) = Cat(o, y)
        BY <2>3, <2>4, <4>3, <4>5, OnlyConcat
      <4>9. All(s, t) = Cat(Cat(o, y), z)
        BY <2>2, <4>4, <4>5, <4>8 DEF All
      <4>10. Cat(Cat(o, y), z) = Cat(o, Cat(y, z))
        BY <2>5, <4>6, <4>7, CatAssociative
      <4>11. Cat(y, z) \in Seq(Values)
        BY <4>6, <4>7, CatSet
      <4> QED BY <4>1, <4>9, <4>10, <4>11
    <3>2. CASE ~up[s] \/ ~up[t]
      <4>1. o = <<>>
        <5>1. CASE ~up[s]
          <6>1. u = <<>>
            BY <2>1, <2>2, <5>1 DEF DownIsEmpty
          <6>2. ToSet(v) \cap S = {}
            BY <2>2, <6>1, Nothing
          <6> QED BY <2>3, <2>4, <6>2, OnlyAllOrNone
        <5>2. CASE ~up[t]
          <6>1. v = <<>>
            BY <2>1, <2>2, <5>2 DEF DownIsEmpty
          <6> QED BY <2>4, <6>1, OnlyEmpty
        <5> QED BY <3>2, <5>1, <5>2
      <4>2. Cat(<<>>, u) = u
        BY <2>3, CatEmpty
      <4>3. u = Cat(<<>>, Cat(o, u))
        BY <4>1, <4>2
      <4> QED BY <2>3, <4>3, Nothing
    <3> QED BY <3>1, <3>2
  <2>7. Part(o, u)
    <3>1. PICK a, c \in Seq(Values) : u = Cat(a, Cat(o, c))
      BY <2>6
    <3> QED BY <2>5, <3>1, MiddleIsSubSeq
  <2> QED BY <2>2, <2>4, <2>7 DEF Part
<1> QED BY <1>1, BusInvariant, PTL

\* When all buffers and sockets are empty, two servers that have not died have
\* received all that the other has published, unless the daemon has given up a
\* message of the latter.
THEOREM NothingGetsStuck == Spec => []NothingStuck
<1>1. ASSUME BusInv PROVE NothingStuck
  <2> SUFFICES ASSUME Quiet, NEW s \in Servers \ crashed, NEW t \in Servers \ crashed,
                      s # t, ~cut[s]
               PROVE  ToSet(sent[s]) \subseteq ToSet(received[t])
    BY DEF NothingStuck
  <2>1. BusTypes /\ DownIsEmpty /\ Passed /\ Aligned
    BY <1>1 DEF BusInv
  <2>2. up[s] /\ up[t]
    BY <2>1 DEF DownIsEmpty
  <2>3. sent[s] = All(s, t)
    BY <2>1, <2>2 DEF Passed
  <2>4. Stream(s) = <<>>
    <3>1. reading # s /\ toDaemon[s] = <<>> /\ sendBuffer[s] = <<>>
      BY SystemBusAssumptions DEF Quiet
    <3> QED BY <3>1, Nothing DEF Stream
  <2>5. Coming(s) = <<>>
    BY <2>4, Nothing DEF Coming
  <2>6. PICK r, v : r = readBuffer[t] /\ v = received[t]
    OBVIOUS
  <2>7. r \in Seq(Nat) /\ v \in Seq(Values)
    BY <2>1, <2>6 DEF BusTypes
  <2>8. Incoming(t) = r
    <3>1. Incoming(t) = Cat(r, <<>>)
      BY <2>6 DEF Quiet, Incoming
    <3>2. Cat(r, <<>>) = r
      BY <2>7, CatEmpty
    <3> QED BY <3>1, <3>2
  <2>9. Split(r).whole = <<>>
    BY <2>1, <2>2, <2>6 DEF Aligned
  <2>10. Rcv(t) = v
    <3>1. Rcv(t) = Cat(v, <<>>)
      BY <2>6, <2>8, <2>9, Nothing DEF Rcv
    <3>2. Cat(v, <<>>) = v
      BY <2>7, CatEmpty
    <3> QED BY <3>1, <3>2
  <2>11. PICK o : o = Only(v, ToSet(sent[s]))
    OBVIOUS
  <2>12. o \in Seq(Values) /\ ToSet(o) = ToSet(v) \cap ToSet(sent[s])
    BY <2>7, <2>11, OnlyConcat
  <2>13. sent[s] = o
    <3>1. All(s, t) = Cat(o, <<>>)
      BY <2>5, <2>10, <2>11 DEF All
    <3>2. Cat(o, <<>>) = o
      BY <2>12, CatEmpty
    <3> QED BY <2>3, <3>1, <3>2
  <2> QED BY <2>6, <2>12, <2>13
<1> QED BY <1>1, BusInvariant, PTL

=============================================================================
