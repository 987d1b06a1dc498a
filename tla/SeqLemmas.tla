----------------------------- MODULE SeqLemmas -----------------------------
(***************************************************************************)
(* Facts about the operations the queues of this project are made of,      *)
(* Append, concatenation and Tail, in the form in which the proofs use     *)
(* them: length, elements, domain, range and order in one place.           *)
(***************************************************************************)
EXTENDS Integers, Sequences, Functions, SequenceTheorems, TLAPS

\* The empty queue has no elements.
LEMMA EmptyFacts ==
    ASSUME NEW S
    PROVE  /\ <<>> \in Seq(S)
           /\ Len(<<>>) = 0
           /\ DOMAIN <<>> = {}
           /\ Range(<<>>) = {}
<1>1. <<>> \in Seq(S) /\ Len(<<>>) = 0
  BY EmptySeq
<1>2. DOMAIN <<>> = {} /\ Range(<<>>) = {}
  BY DEF Range
<1> QED BY <1>1, <1>2

\* Appending adds one element, at the end, and moves no other.
LEMMA AppendFacts ==
    ASSUME NEW S, NEW s \in Seq(S), NEW t \in S
    PROVE  /\ Len(s) \in Nat
           /\ DOMAIN s = 1 .. Len(s)
           /\ Append(s, t) \in Seq(S)
           /\ Append(s, t) # <<>>
           /\ Len(Append(s, t)) = Len(s) + 1
           /\ DOMAIN Append(s, t) = 1 .. Len(s) + 1
           /\ \A i \in 1 .. Len(s) : Append(s, t)[i] = s[i]
           /\ Append(s, t)[Len(s) + 1] = t
           /\ Range(Append(s, t)) = Range(s) \union {t}
<1>1. /\ Len(s) \in Nat
      /\ DOMAIN s = 1 .. Len(s)
      /\ Append(s, t) \in Seq(S)
      /\ Append(s, t) # <<>>
      /\ Len(Append(s, t)) = Len(s) + 1
      /\ DOMAIN Append(s, t) = 1 .. Len(s) + 1
      /\ \A i \in 1 .. Len(s) : Append(s, t)[i] = s[i]
      /\ Append(s, t)[Len(s) + 1] = t
  OBVIOUS
<1>2. Range(Append(s, t)) = Range(s) \union {t}
  BY <1>1 DEF Range
<1> QED BY <1>1, <1>2

\* Sequences of one or two elements, built by appending.
LEMMA AppendToFew ==
    ASSUME NEW d, NEW e
    PROVE  Append(<<>>, e) = <<e>> /\ Append(<<d>>, e) = <<d, e>>
<1>1. Append(<<>>, e) = <<e>>
  OBVIOUS
<1> DEFINE S == {d, e}
<1>2. /\ <<d>> \in Seq(S) /\ Len(<<d>>) = 1 /\ <<d>>[1] = d /\ e \in S
      /\ <<d, e>> \in Seq(S) /\ Len(<<d, e>>) = 2 /\ <<d, e>>[1] = d /\ <<d, e>>[2] = e
  OBVIOUS
<1> HIDE DEF S
<1>3. /\ Append(<<d>>, e) \in Seq(S) /\ Len(Append(<<d>>, e)) = 2
      /\ Append(<<d>>, e)[1] = d /\ Append(<<d>>, e)[2] = e
  BY <1>2, AppendFacts
<1>4. \A i \in 1 .. 2 : Append(<<d>>, e)[i] = <<d, e>>[i]
  BY <1>2, <1>3
<1>5. Append(<<d>>, e) = <<d, e>>
  BY <1>2, <1>3, <1>4, SeqEqual
<1> QED BY <1>1, <1>5

\* Taking the front element shifts the others by one place and splits the
\* range.
LEMMA TailFacts ==
    ASSUME NEW S, NEW s \in Seq(S), s # <<>>
    PROVE  /\ Len(s) \in Nat \ {0}
           /\ DOMAIN s = 1 .. Len(s)
           /\ Head(s) \in S
           /\ Head(s) = s[1]
           /\ Tail(s) \in Seq(S)
           /\ Len(Tail(s)) = Len(s) - 1
           /\ DOMAIN Tail(s) = 1 .. Len(s) - 1
           /\ \A i \in 1 .. Len(s) - 1 : Tail(s)[i] = s[i + 1]
           /\ Range(s) = {Head(s)} \union Range(Tail(s))
<1>1. /\ Len(s) \in Nat \ {0}
      /\ DOMAIN s = 1 .. Len(s)
      /\ Head(s) \in S
      /\ Head(s) = s[1]
      /\ Tail(s) \in Seq(S)
      /\ Len(Tail(s)) = Len(s) - 1
      /\ DOMAIN Tail(s) = 1 .. Len(s) - 1
      /\ \A i \in 1 .. Len(s) - 1 : Tail(s)[i] = s[i + 1]
  OBVIOUS
<1>2. Range(s) \subseteq {Head(s)} \union Range(Tail(s))
  <2> SUFFICES ASSUME NEW i \in DOMAIN s
               PROVE  s[i] \in {Head(s)} \union Range(Tail(s))
    BY DEF Range
  <2>1. CASE i = 1
    BY <2>1, <1>1
  <2>2. CASE i # 1
    <3>1. i - 1 \in DOMAIN Tail(s) /\ i - 1 \in 1 .. Len(s) - 1
      BY <2>2, <1>1
    <3>2. s[i] = Tail(s)[i - 1]
      BY <3>1, <1>1
    <3> QED BY <3>1, <3>2 DEF Range
  <2> QED BY <2>1, <2>2
<1>3. {Head(s)} \union Range(Tail(s)) \subseteq Range(s)
  <2>1. Head(s) \in Range(s)
    BY <1>1 DEF Range
  <2>2. ASSUME NEW i \in DOMAIN Tail(s) PROVE Tail(s)[i] \in Range(s)
    BY <1>1 DEF Range
  <2> QED BY <2>1, <2>2 DEF Range
<1> QED BY <1>1, <1>2, <1>3

\* A function on 1 .. n is a sequence of length n.
LEMMA FunctionIsSeq ==
    ASSUME NEW S, NEW n \in Nat, NEW f \in [1 .. n -> S]
    PROVE  f \in Seq(S) /\ Len(f) = n /\ DOMAIN f = 1 .. n
<1>1. f \in Seq(S)
  BY SeqDef
<1>2. Len(f) \in Nat /\ 1 .. n = 1 .. Len(f)
  BY <1>1, LenProperties
<1> QED BY <1>1, <1>2

\* Concatenation: where the elements of both parts end up.
LEMMA ConcatFacts ==
    ASSUME NEW S, NEW s \in Seq(S), NEW u \in Seq(S)
    PROVE  /\ s \o u \in Seq(S)
           /\ Len(s) \in Nat
           /\ Len(u) \in Nat
           /\ DOMAIN (s \o u) = 1 .. Len(s) + Len(u)
           /\ \A i \in 1 .. Len(s) : (s \o u)[i] = s[i]
           /\ \A i \in Len(s) + 1 .. Len(s) + Len(u) :
                  i - Len(s) \in 1 .. Len(u) /\ (s \o u)[i] = u[i - Len(s)]
<1>1. Len(s) \in Nat /\ Len(u) \in Nat
  OBVIOUS
<1>2. /\ s \o u \in Seq(S)
      /\ Len(s \o u) = Len(s) + Len(u)
      /\ \A i \in 1 .. Len(s) + Len(u) : (s \o u)[i] =
             IF i <= Len(s) THEN s[i] ELSE u[i - Len(s)]
  BY ConcatProperties
<1>3. DOMAIN (s \o u) = 1 .. Len(s) + Len(u)
  BY <1>2
<1>4. \A i \in 1 .. Len(s) : (s \o u)[i] = s[i]
  BY <1>1, <1>2
<1>5. \A i \in Len(s) + 1 .. Len(s) + Len(u) :
         i - Len(s) \in 1 .. Len(u) /\ (s \o u)[i] = u[i - Len(s)]
  BY <1>1, <1>2
<1> QED BY <1>1, <1>2, <1>3, <1>4, <1>5
-----------------------------------------------------------------------------
\* t is an element of s.
In(t, s) == \E i \in DOMAIN s : s[i] = t

\* The elements of a concatenation, and the first of them.
LEMMA InConcat ==
    ASSUME NEW S, NEW s \in Seq(S), NEW u \in Seq(S), NEW t
    PROVE  /\ s \o u \in Seq(S)
           /\ In(t, s \o u) <=> In(t, s) \/ In(t, u)
           /\ s # <<>> => s \o u # <<>> /\ (s \o u)[1] = s[1]
           /\ s = <<>> => s \o u = u
<1> DEFINE w == s \o u
<1>1. /\ w \in Seq(S) /\ Len(s) \in Nat /\ Len(u) \in Nat
      /\ DOMAIN w = 1 .. Len(s) + Len(u) /\ DOMAIN s = 1 .. Len(s) /\ DOMAIN u = 1 .. Len(u)
      /\ \A i \in 1 .. Len(s) : w[i] = s[i]
      /\ \A i \in Len(s) + 1 .. Len(s) + Len(u) :
             i - Len(s) \in 1 .. Len(u) /\ w[i] = u[i - Len(s)]
  BY ConcatFacts
<1>2. s = <<>> => w = u
  BY ConcatEmptySeq
<1> HIDE DEF w
<1>3. In(t, w) => In(t, s) \/ In(t, u)
  <2> SUFFICES ASSUME NEW i \in DOMAIN w, w[i] = t PROVE In(t, s) \/ In(t, u)
    BY DEF In
  <2>1. CASE i \in 1 .. Len(s)
    BY <1>1, <2>1 DEF In
  <2>2. CASE i \in Len(s) + 1 .. Len(s) + Len(u)
    BY <1>1, <2>2 DEF In
  <2> QED BY <1>1, <2>1, <2>2
<1>4. In(t, s) => In(t, w)
  BY <1>1 DEF In
<1>5. In(t, u) => In(t, w)
  <2> SUFFICES ASSUME NEW i \in DOMAIN u, u[i] = t PROVE In(t, w)
    BY DEF In
  <2>1. /\ i + Len(s) \in Len(s) + 1 .. Len(s) + Len(u) /\ i + Len(s) \in DOMAIN w
        /\ (i + Len(s)) - Len(s) = i
    BY <1>1
  <2>2. w[i + Len(s)] = t
    BY <1>1, <2>1
  <2> QED BY <2>1, <2>2 DEF In
<1>6. s # <<>> => w # <<>> /\ w[1] = s[1]
  <2> SUFFICES ASSUME s # <<>> PROVE w # <<>> /\ w[1] = s[1]
    OBVIOUS
  <2>1. 1 \in DOMAIN s /\ 1 \in DOMAIN w
    BY <1>1
  <2> QED BY <1>1, <2>1, EmptyFacts
<1> QED BY <1>1, <1>2, <1>3, <1>4, <1>5, <1>6 DEF w

\* Every element is the front one or behind it.
LEMMA InTail ==
    ASSUME NEW S, NEW s \in Seq(S), s # <<>>, NEW t
    PROVE  /\ In(t, s) <=> Head(s) = t \/ In(t, Tail(s))
           /\ Head(s) = s[1]
<1>1. /\ Len(s) \in Nat \ {0} /\ DOMAIN s = 1 .. Len(s) /\ Head(s) = s[1]
      /\ DOMAIN Tail(s) = 1 .. Len(s) - 1
      /\ \A i \in 1 .. Len(s) - 1 : Tail(s)[i] = s[i + 1]
  BY TailFacts
<1> DEFINE r == Tail(s)
<1> HIDE DEF r
<1>2. In(t, s) => s[1] = t \/ In(t, r)
  <2> SUFFICES ASSUME NEW i \in 1 .. Len(s), s[i] = t, i # 1 PROVE In(t, r)
    BY <1>1 DEF In
  <2>1. i - 1 \in 1 .. Len(s) - 1 /\ (i - 1) + 1 = i
    BY <1>1
  <2> QED BY <1>1, <2>1 DEF In, r
<1>3. s[1] = t => In(t, s)
  BY <1>1 DEF In
<1>4. In(t, r) => In(t, s)
  <2> SUFFICES ASSUME NEW i \in DOMAIN r, r[i] = t PROVE In(t, s)
    BY DEF In
  <2>1. i + 1 \in DOMAIN s /\ s[i + 1] = t
    BY <1>1 DEF r
  <2> QED BY <2>1 DEF In
<1> QED BY <1>1, <1>2, <1>3, <1>4 DEF r

\* The empty sequence has no element.
LEMMA InEmpty == ASSUME NEW t PROVE ~In(t, <<>>)
BY DEF In

\* Every a in s is behind every b.
AllBehind(a, b, s) == \A i, j \in DOMAIN s : s[i] = a /\ s[j] = b => j < i

\* What is appended must not have a b if there is an a to overtake.
LEMMA BehindConcat ==
    ASSUME NEW S, NEW s \in Seq(S), NEW u \in Seq(S), NEW a, NEW b,
           AllBehind(a, b, s), AllBehind(a, b, u), In(a, s) => ~In(b, u)
    PROVE  AllBehind(a, b, s \o u)
<1> DEFINE w == s \o u
<1>1. /\ Len(s) \in Nat /\ Len(u) \in Nat
      /\ DOMAIN w = 1 .. Len(s) + Len(u) /\ DOMAIN s = 1 .. Len(s) /\ DOMAIN u = 1 .. Len(u)
      /\ \A i \in 1 .. Len(s) : w[i] = s[i]
      /\ \A i \in Len(s) + 1 .. Len(s) + Len(u) :
             i - Len(s) \in 1 .. Len(u) /\ w[i] = u[i - Len(s)]
  BY ConcatFacts
<1> HIDE DEF w
<1>2. ASSUME NEW i \in DOMAIN w, NEW j \in DOMAIN w, w[i] = a, w[j] = b
      PROVE  j < i
  <2>1. CASE i \in 1 .. Len(s) /\ j \in 1 .. Len(s)
    BY <1>1, <1>2, <2>1 DEF AllBehind
  <2>2. CASE i \in 1 .. Len(s) /\ j \in Len(s) + 1 .. Len(s) + Len(u)
    <3>1. In(a, s) /\ In(b, u)
      BY <1>1, <1>2, <2>2 DEF In
    <3> QED BY <3>1
  <2>3. CASE i \in Len(s) + 1 .. Len(s) + Len(u) /\ j \in 1 .. Len(s)
    BY <1>1, <2>3
  <2>4. CASE /\ i \in Len(s) + 1 .. Len(s) + Len(u)
             /\ j \in Len(s) + 1 .. Len(s) + Len(u)
    <3>1. /\ i - Len(s) \in DOMAIN u /\ u[i - Len(s)] = a
          /\ j - Len(s) \in DOMAIN u /\ u[j - Len(s)] = b
      BY <1>1, <1>2, <2>4
    <3>2. j - Len(s) < i - Len(s)
      BY <3>1 DEF AllBehind
    <3> QED BY <1>1, <2>4, <3>2
  <2> QED BY <1>1, <2>1, <2>2, <2>3, <2>4
<1> QED BY <1>2 DEF AllBehind, w

\* Once an a is in front, there is no b any more.
LEMMA BehindTail ==
    ASSUME NEW S, NEW s \in Seq(S), s # <<>>, NEW a, NEW b, AllBehind(a, b, s)
    PROVE  /\ AllBehind(a, b, Tail(s))
           /\ Head(s) = a => ~In(b, Tail(s))
<1> DEFINE r == Tail(s)
<1>1. /\ Len(s) \in Nat \ {0} /\ DOMAIN s = 1 .. Len(s) /\ Head(s) = s[1]
      /\ DOMAIN r = 1 .. Len(s) - 1
      /\ \A i \in 1 .. Len(s) - 1 : r[i] = s[i + 1]
  BY TailFacts
<1> HIDE DEF r
<1>2. \A i \in DOMAIN r : i + 1 \in DOMAIN s /\ r[i] = s[i + 1]
  BY <1>1
<1>3. ASSUME NEW i \in DOMAIN r, NEW j \in DOMAIN r, r[i] = a, r[j] = b
      PROVE  j < i
  <2>1. j + 1 < i + 1
    BY <1>2, <1>3 DEF AllBehind
  <2> QED BY <1>1, <2>1
<1>4. ASSUME s[1] = a, NEW j \in DOMAIN r, r[j] = b PROVE FALSE
  <2>1. j + 1 < 1
    BY <1>1, <1>2, <1>4 DEF AllBehind
  <2> QED BY <1>1, <2>1
<1> QED BY <1>1, <1>3, <1>4 DEF AllBehind, In, r
=============================================================================
