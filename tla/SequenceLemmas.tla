--------------------------- MODULE SequenceLemmas ---------------------------
(***************************************************************************)
(* Lemmas about sequences and sets of numbers that the proofs about the    *)
(* components share.                                                       *)
(***************************************************************************)
EXTENDS Queues, Integers, SequencesExt, FiniteSetsExt, SequenceTheorems,
        FiniteSetTheorems, WellFoundedInduction, TLAPS

Elems(s) == {s[i] : i \in 1..Len(s)}

-----------------------------------------------------------------------------
(* What a sequence holds *)

LEMMA EmptyElems == Elems(<< >>) = {}
  BY DEF Elems

LEMMA AppendElems ==
  ASSUME NEW S, NEW s \in Seq(S), NEW e \in S
  PROVE  Append(s, e) \in Seq(S) /\ Elems(Append(s, e)) = Elems(s) \cup {e}
<1> DEFINE r == Append(s, e)
<1>1. /\ r \in Seq(S) /\ Len(r) = Len(s) + 1 /\ Len(s) \in Nat
      /\ \A i \in 1..Len(s) : r[i] = s[i]
      /\ r[Len(s) + 1] = e
  BY AppendProperties, LenProperties
<1> HIDE DEF r
<1>2. Elems(r) = Elems(s) \cup {e}
  BY <1>1 DEF Elems
<1> QED
  BY <1>1, <1>2 DEF r

LEMMA TailElems ==
  ASSUME NEW S, NEW s \in Seq(S), s # << >>
  PROVE  /\ Tail(s) \in Seq(S) /\ Head(s) \in S
         /\ Elems(s) = {Head(s)} \cup Elems(Tail(s))
<1> DEFINE r == Tail(s)
<1>1. /\ r \in Seq(S) /\ Head(s) \in S /\ Head(s) = s[1]
      /\ Len(r) = Len(s) - 1 /\ Len(s) \in Nat /\ Len(s) # 0
      /\ \A i \in 1..Len(r) : r[i] = s[i + 1]
  BY HeadTailProperties, LenProperties, EmptySeq
<1> HIDE DEF r
<1>2. \A i \in 1..Len(s) : i = 1 \/ (i - 1 \in 1..Len(r) /\ s[i] = r[i - 1])
  BY <1>1
<1>3. 1 \in 1..Len(s) /\ \A i \in 1..Len(r) : i + 1 \in 1..Len(s)
  BY <1>1
<1>4. Elems(s) = {s[1]} \cup Elems(r)
  BY <1>1, <1>2, <1>3 DEF Elems
<1> QED
  BY <1>1, <1>4 DEF r

LEMMA ConcatElems ==
  ASSUME NEW S, NEW s \in Seq(S), NEW t \in Seq(S)
  PROVE  s \o t \in Seq(S) /\ Elems(s \o t) = Elems(s) \cup Elems(t)
<1> DEFINE u == s \o t
<1>1. /\ u \in Seq(S) /\ Len(u) = Len(s) + Len(t)
      /\ Len(s) \in Nat /\ Len(t) \in Nat
      /\ \A i \in 1..Len(s) + Len(t) :
           u[i] = IF i <= Len(s) THEN s[i] ELSE t[i - Len(s)]
  BY ConcatProperties, LenProperties
<1> HIDE DEF u
<1>2. Elems(u) \subseteq Elems(s) \cup Elems(t)
  BY <1>1 DEF Elems
<1>3. Elems(s) \subseteq Elems(u)
  BY <1>1 DEF Elems
<1>4. ASSUME NEW i \in 1..Len(t) PROVE t[i] \in Elems(u)
  <2> DEFINE k == Len(s) + i
  <2>1. k \in 1..Len(u) /\ k \in 1..Len(s) + Len(t) /\ ~(k <= Len(s)) /\ k - Len(s) = i
    BY <1>1
  <2>2. u[k] = t[i]
    BY <1>1, <2>1
  <2> QED
    BY <2>1, <2>2 DEF Elems
<1>5. Elems(t) \subseteq Elems(u)
  BY <1>4 DEF Elems
<1> QED
  BY <1>1, <1>2, <1>3, <1>5 DEF u

\* Appending to the second of two sequences, and taking from the first.
LEMMA HeadAndTail ==
  ASSUME NEW S, NEW s \in Seq(S), s # << >>
  PROVE  s = <<Head(s)>> \o Tail(s)
<1> DEFINE n == Len(s)
<1>1. n \in Nat /\ n # 0
  BY LenProperties, EmptySeq
<1>2. SubSeq(s, 1, n) = <<s[1]>> \o SubSeq(s, 1 + 1, n)
  BY <1>1, SubSeqRecursiveFirst
<1>3. SubSeq(s, 1, n) = s /\ Tail(s) = SubSeq(s, 2, n)
  BY SubSeqFull, TailIsSubSeq
<1>4. 1 + 1 = 2 /\ Head(s) = s[1]
  OBVIOUS
<1> HIDE DEF n
<1> QED
  BY <1>2, <1>3, <1>4

LEMMA ConcatAppend ==
  ASSUME NEW S, NEW s \in Seq(S), NEW t \in Seq(S), NEW e \in S
  PROVE  s \o Append(t, e) = Append(s \o t, e)
<1>1. Append(t, e) = t \o <<e>> /\ <<e>> \in Seq(S)
  BY AppendIsConcat
<1>2. (s \o t) \o <<e>> = s \o (t \o <<e>>)
  BY <1>1, ConcatAssociative
<1>3. s \o t \in Seq(S)
  BY ConcatProperties
<1>4. Append(s \o t, e) = (s \o t) \o <<e>>
  BY <1>3, AppendIsConcat
<1> QED
  BY <1>1, <1>2, <1>4

LEMMA ConcatTail ==
  ASSUME NEW S, NEW s \in Seq(S), NEW t \in Seq(S), s # << >>
  PROVE  /\ s \o t # << >> /\ Head(s \o t) = Head(s)
         /\ Tail(s \o t) = Tail(s) \o t
<1> DEFINE u == s \o t  r == Tail(s)  v == r \o t
<1>1. /\ u \in Seq(S) /\ Len(u) = Len(s) + Len(t)
      /\ Len(s) \in Nat \ {0} /\ Len(t) \in Nat
      /\ \A i \in 1..Len(s) + Len(t) :
           u[i] = IF i <= Len(s) THEN s[i] ELSE t[i - Len(s)]
  BY ConcatProperties, LenProperties, EmptySeq
<1>2. /\ r \in Seq(S) /\ Len(r) = Len(s) - 1
      /\ \A i \in 1..Len(r) : r[i] = s[i + 1]
  BY HeadTailProperties
<1> HIDE DEF u, r
<1>3. /\ v \in Seq(S) /\ Len(v) = Len(r) + Len(t)
      /\ \A i \in 1..Len(r) + Len(t) :
           v[i] = IF i <= Len(r) THEN r[i] ELSE t[i - Len(r)]
  BY <1>2, ConcatProperties
<1> HIDE DEF v
<1>4. u # << >>
  BY <1>1, EmptySeq
<1>5. /\ Tail(u) \in Seq(S) /\ Len(Tail(u)) = Len(u) - 1
      /\ \A i \in 1..Len(Tail(u)) : Tail(u)[i] = u[i + 1]
  BY <1>1, <1>4, HeadTailProperties
<1>6. Len(Tail(u)) = Len(v) /\ \A i \in 1..Len(v) : Tail(u)[i] = v[i]
  <2>1. Len(Tail(u)) = Len(v) /\ Len(v) \in Nat
    BY <1>1, <1>2, <1>3, <1>5
  <2>2. ASSUME NEW i \in 1..Len(v) PROVE Tail(u)[i] = v[i]
    <3>1. i + 1 \in 1..Len(s) + Len(t) /\ Tail(u)[i] = u[i + 1]
      BY <1>1, <1>5, <2>1
    <3>2. CASE i <= Len(r)
      <4>1. u[i + 1] = s[i + 1] /\ v[i] = r[i] /\ r[i] = s[i + 1]
        BY <1>1, <1>2, <1>3, <3>1, <3>2
      <4> QED
        BY <3>1, <4>1
    <3>3. CASE ~(i <= Len(r))
      <4>1. u[i + 1] = t[i + 1 - Len(s)] /\ v[i] = t[i - Len(r)]
            /\ i + 1 - Len(s) = i - Len(r)
        BY <1>1, <1>2, <1>3, <3>1, <3>3
      <4> QED
        BY <3>1, <4>1
    <3> QED
      BY <3>2, <3>3
  <2> QED
    BY <2>1, <2>2
<1>7. Tail(u) = v
  BY <1>3, <1>5, <1>6, SeqEqual
<1>8. Head(u) = u[1] /\ Head(s) = s[1] /\ u[1] = s[1]
  BY <1>1
<1> QED
  BY <1>4, <1>7, <1>8 DEF u, r, v

LEMMA RemoveAtProperties ==
  ASSUME NEW S, NEW s \in Seq(S), NEW i \in 1..Len(s)
  PROVE  /\ RemoveAt(s, i) \in Seq(S) /\ Elems(RemoveAt(s, i)) \subseteq Elems(s)
         /\ Elems(s) \subseteq Elems(RemoveAt(s, i)) \cup {s[i]}
<1> DEFINE a == SubSeq(s, 1, i - 1)  b == SubSeq(s, i + 1, Len(s))
<1>1. (\A j \in 1..Len(s) : s[j] \in S) /\ Len(s) \in Nat
  BY ElementOfSeq, LenProperties
<1>2. a \in Seq(S) /\ Len(a) = i - 1 /\ \A j \in 1..(i - 1) : a[j] = s[j]
  BY <1>1, SubSeqProperties
<1>3. b \in Seq(S) /\ Len(b) = Len(s) - i /\ \A j \in 1..(Len(s) - i) : b[j] = s[i + j]
  BY <1>1, SubSeqProperties
<1> HIDE DEF a, b
<1>4. a \o b \in Seq(S) /\ Elems(a \o b) = Elems(a) \cup Elems(b)
  BY <1>2, <1>3, ConcatElems
<1>5. Elems(a) \subseteq Elems(s) /\ Elems(b) \subseteq Elems(s)
  <2>1. \A j \in 1..Len(a) : j \in 1..Len(s) /\ a[j] = s[j]
    BY <1>1, <1>2
  <2>2. \A j \in 1..Len(b) : i + j \in 1..Len(s) /\ b[j] = s[i + j]
    BY <1>1, <1>3
  <2> QED
    BY <2>1, <2>2 DEF Elems
<1>6. Elems(s) \subseteq Elems(a) \cup Elems(b) \cup {s[i]}
  <2> SUFFICES ASSUME NEW j \in 1..Len(s), j # i
               PROVE  s[j] \in Elems(a) \cup Elems(b)
    BY DEF Elems
  <2>1. CASE j < i
    <3>1. j \in 1..Len(a) /\ a[j] = s[j]
      BY <1>2, <2>1
    <3> QED
      BY <3>1 DEF Elems
  <2>2. CASE j > i
    <3>1. j - i \in 1..Len(b) /\ b[j - i] = s[i + (j - i)] /\ i + (j - i) = j
      BY <1>1, <1>3, <2>2
    <3> QED
      BY <3>1 DEF Elems
  <2> QED
    BY <2>1, <2>2
<1> QED
  BY <1>4, <1>5, <1>6 DEF RemoveAt, a, b

LEMMA PrefixOfConcat ==
  ASSUME NEW S, NEW s \in Seq(S), NEW u \in Seq(S)
  PROVE  IsPrefix(s, s \o u)
<1> DEFINE t == s \o u  n == Len(s)
<1>1. /\ t \in Seq(S) /\ Len(t) = n + Len(u) /\ n \in Nat /\ Len(u) \in Nat
      /\ \A i \in 1..(n + Len(u)) : t[i] = IF i <= n THEN s[i] ELSE u[i - n]
  BY ConcatProperties, LenProperties
<1> HIDE DEF t
<1>2. SubSeq(s, 1, n) = s
  BY SubSeqFull
<1>3. SubSeq(t, 1, n) = s
  <2> DEFINE r == SubSeq(t, 1, n)
  <2>1. n \in Int /\ 1 \in Int /\ n <= Len(t) /\ \A i \in 1..n : i \in 1..Len(t)
    BY <1>1
  <2>2. \A i \in 1..n : t[i] \in S /\ t[i] = s[i]
    BY <1>1, <2>1, ElementOfSeq
  <2>3. /\ r \in Seq(S) /\ Len(r) = IF 1 <= n THEN n - 1 + 1 ELSE 0
        /\ \A i \in 1..(n - 1 + 1) : r[i] = t[1 + i - 1]
    BY <2>1, <2>2, SubSeqProperties
  <2> HIDE DEF r
  <2>4. Len(r) = n /\ \A i \in 1..n : r[i] = t[i]
    BY <2>1, <2>3, LenProperties
  <2>5. r = s
    <3>1. \A i \in 1..n : r[i] = s[i]
      BY <2>2, <2>4
    <3> QED
      BY <2>3, <2>4, <3>1, SeqEqual
  <2> QED
    BY <2>5 DEF r
<1> QED
  BY <1>1, <1>2, <1>3 DEF IsPrefix, t

LEMMA PrefixOfItself ==
  ASSUME NEW S, NEW s \in Seq(S)
  PROVE  IsPrefix(s, s)
<1>1. << >> \in Seq(S) /\ s \o << >> = s
  BY EmptySeq, ConcatEmptySeq
<1> QED
  BY <1>1, PrefixOfConcat

LEMMA MoveHead ==
  ASSUME NEW S, NEW s \in Seq(S), NEW t \in Seq(S), t # << >>
  PROVE  Append(s, Head(t)) \o Tail(t) = s \o t
<1> DEFINE e == Head(t)  r == Tail(t)  a == <<e>>
<1>1. e \in S /\ r \in Seq(S) /\ a \in Seq(S)
  BY HeadTailProperties
<1>2. t = a \o r
  BY HeadAndTail
<1>3. Append(s, e) = s \o a
  BY <1>1, AppendIsConcat
<1> HIDE DEF e, r, a
<1>4. \A x, y, z \in Seq(S) : (x \o y) \o z = x \o (y \o z)
  BY ConcatAssociative, SMTT(30)
<1>5. (s \o a) \o r = s \o (a \o r)
  BY <1>1, <1>4
<1>6. Append(s, e) \o r = s \o t
  BY <1>2, <1>3, <1>5
<1> QED
  BY <1>6 DEF e, r

-----------------------------------------------------------------------------
(* The least of a set of numbers *)

\* The intervals 1..k are finite sets, of which one has no proper subset among
\* the others.
LEMMA LeastNumber ==
  ASSUME NEW T, T \subseteq Nat, T # {}
  PROVE  \E k \in T : \A j \in T : k <= j
<1> DEFINE F == {1..k : k \in T}
           R == StrictSubsetOrdering(Nat)
           S == FiniteSubsetsOf(Nat)
<1>1. \A k \in Nat : 1..k \subseteq Nat /\ IsFiniteSet(1..k)
  BY FS_Interval
<1>2. F \subseteq S /\ F # {}
  BY <1>1 DEF FiniteSubsetsOf
<1>3. IsWellFoundedOn(R, S)
  BY FS_StrictSubsetOrderingWellFounded
<1> HIDE DEF R, S
<1>4. PICK X \in F : \A Y \in F : ~(<<Y, X>> \in R)
  <2> HIDE DEF F
  <2> QED
    BY <1>2, <1>3, WFMin
<1>5. PICK k \in T : X = 1..k
  OBVIOUS
<1>6. ASSUME NEW j \in T, ~(k <= j) PROVE FALSE
  <2>1. j \in Nat /\ k \in Nat /\ j < k
    BY <1>6
  <2>2. 1..j \subseteq 1..k /\ 1..j # 1..k
    BY <2>1
  <2>3. <<1..j, 1..k>> \in R
    BY <1>1, <2>1, <2>2 DEF R, StrictSubsetOrdering
  <2> QED
    BY <1>4, <1>5, <2>3
<1> QED
  BY <1>6

LEMMA MinIsLeast ==
  ASSUME NEW T, T \subseteq Nat, T # {}
  PROVE  Min(T) \in T /\ \A j \in T : Min(T) <= j
  BY LeastNumber DEF Min

-----------------------------------------------------------------------------
(* Vec::remove *)

LEMMA RemoveAtOfDistinct ==
  ASSUME NEW S, NEW s \in Seq(S), IsInjective(s), NEW i \in 1..Len(s)
  PROVE  /\ IsInjective(RemoveAt(s, i)) /\ Len(RemoveAt(s, i)) = Len(s) - 1
         /\ Elems(RemoveAt(s, i)) = Elems(s) \ {s[i]}
<1> DEFINE a == SubSeq(s, 1, i - 1)  b == SubSeq(s, i + 1, Len(s))  r == a \o b
<1>1. (\A j \in 1..Len(s) : s[j] \in S) /\ Len(s) \in Nat /\ DOMAIN s = 1..Len(s)
  BY ElementOfSeq, LenProperties
<1>2. a \in Seq(S) /\ Len(a) = i - 1 /\ \A j \in 1..(i - 1) : a[j] = s[j]
  BY <1>1, SubSeqProperties
<1>3. b \in Seq(S) /\ Len(b) = Len(s) - i /\ \A j \in 1..(Len(s) - i) : b[j] = s[i + j]
  <2> DEFINE from == i + 1  to == Len(s)
  <2>1. from \in Int /\ to \in Int /\ from = i + 1 /\ to = Len(s)
        /\ i \in Int /\ i <= to
    BY <1>1
  <2>2. \A j \in from..to : s[j] \in S
    BY <1>1
  <2> HIDE DEF from, to
  <2>3. /\ SubSeq(s, from, to) \in Seq(S)
        /\ Len(SubSeq(s, from, to)) = IF from <= to THEN to - from + 1 ELSE 0
        /\ \A j \in 1..(to - from + 1) : SubSeq(s, from, to)[j] = s[from + j - 1]
    BY <2>1, <2>2, SubSeqProperties
  <2>4. SubSeq(s, from, to) = b
    BY <2>1
  <2> HIDE DEF b
  <2>5. \A j \in 1..(Len(s) - i) : from + j - 1 = i + j
    BY <2>1
  <2>6. to - from + 1 = Len(s) - i /\ (~(from <= to) => Len(s) - i = 0)
    BY <2>1
  <2>7. Len(b) = Len(s) - i
    BY <2>3, <2>4, <2>6
  <2> QED
    BY <2>3, <2>4, <2>5, <2>6, <2>7
<1> HIDE DEF a, b
<1>4. /\ r \in Seq(S) /\ Len(r) = Len(a) + Len(b)
      /\ \A j \in 1..(Len(a) + Len(b)) : r[j] = IF j <= Len(a) THEN a[j] ELSE b[j - Len(a)]
  BY <1>2, <1>3, ConcatProperties
<1>5. RemoveAt(s, i) = r
  BY DEF RemoveAt, r, a, b
<1> HIDE DEF r
<1>6. Len(r) = Len(s) - 1 /\ DOMAIN r = 1..(Len(s) - 1)
  BY <1>1, <1>2, <1>3, <1>4, LenProperties
<1> DEFINE From(j) == IF j < i THEN j ELSE j + 1
<1>7. ASSUME NEW j \in 1..(Len(s) - 1)
      PROVE  r[j] = s[From(j)] /\ From(j) \in 1..Len(s) /\ From(j) # i
  <2> j \in Int /\ i \in Int
    BY <1>1
  <2>1. CASE j < i
    <3>1. j \in 1..(i - 1) /\ j \in 1..(Len(a) + Len(b)) /\ j <= Len(a)
          /\ j \in 1..Len(s) /\ j # i
      BY <1>1, <1>2, <1>3, <2>1
    <3>2. r[j] = a[j] /\ a[j] = s[j]
      BY <1>2, <1>4, <3>1
    <3> QED
      BY <2>1, <3>1, <3>2
  <2>2. CASE ~(j < i)
    <3>1. j - (i - 1) \in 1..(Len(s) - i) /\ i + (j - (i - 1)) = j + 1
          /\ j + 1 \in 1..Len(s) /\ j + 1 # i
      BY <1>1, <2>2
    <3>2. r[j] = b[j - (i - 1)]
      <4>1. j \in 1..(Len(a) + Len(b)) /\ ~(j <= Len(a)) /\ Len(a) = i - 1
        BY <1>1, <1>2, <1>3, <2>2
      <4> QED
        BY <1>4, <4>1
    <3>3. b[j - (i - 1)] = s[j + 1]
      BY <1>3, <3>1
    <3> QED
      BY <2>2, <3>1, <3>2, <3>3
  <2> QED
    BY <2>1, <2>2
<1>8. \A j, k \in 1..(Len(s) - 1) : From(j) = From(k) => j = k
  BY <1>1
<1>9. \A j, k \in 1..Len(s) : s[j] = s[k] => j = k
  BY <1>1 DEF IsInjective
<1>10. ASSUME NEW k \in 1..Len(s), k # i
       PROVE  \E j \in 1..(Len(s) - 1) : From(j) = k
  <2>1. CASE k < i
    BY <1>1, <2>1
  <2>2. CASE ~(k < i)
    <3>1. k - 1 \in 1..(Len(s) - 1) /\ From(k - 1) = k
      BY <1>1, <1>10, <2>2
    <3> QED
      BY <3>1
  <2> QED
    BY <2>1, <2>2
<1> HIDE DEF From
<1>11. IsInjective(r)
  BY <1>6, <1>7, <1>8, <1>9 DEF IsInjective
<1>12. Elems(r) \subseteq Elems(s) \ {s[i]}
  BY <1>6, <1>7, <1>9 DEF Elems
<1>13. Elems(s) \ {s[i]} \subseteq Elems(r)
  BY <1>6, <1>7, <1>10 DEF Elems
<1> QED
  BY <1>5, <1>6, <1>11, <1>12, <1>13

LEMMA RemoveFirstProperties ==
  ASSUME NEW S, NEW s \in Seq(S), NEW e
  PROVE  /\ RemoveFirst(s, e) \in Seq(S)
         /\ Elems(RemoveFirst(s, e)) \subseteq Elems(s)
         /\ Elems(s) \subseteq Elems(RemoveFirst(s, e)) \cup {e}
         /\ IsInjective(s) =>
              /\ IsInjective(RemoveFirst(s, e))
              /\ Len(RemoveFirst(s, e)) <= Len(s)
              /\ Elems(RemoveFirst(s, e)) = Elems(s) \ {e}
<1>1. CASE ~\E i \in 1..Len(s) : s[i] = e
  <2>1. RemoveFirst(s, e) = s
    BY <1>1 DEF RemoveFirst
  <2> QED
    BY <1>1, <2>1, LenProperties DEF Elems
<1>2. CASE \E i \in 1..Len(s) : s[i] = e
  <2> DEFINE I == {i \in 1..Len(s) : s[i] = e}
  <2>1. I \subseteq Nat /\ I # {}
    BY <1>2
  <2>2. RemoveFirst(s, e) = RemoveAt(s, Min(I))
    BY <1>2, <2>1 DEF RemoveFirst, SelectInSeq
  <2>3. PICK i \in I : i = Min(I)
    BY <2>1, MinIsLeast
  <2>4. i \in 1..Len(s) /\ s[i] = e
    BY <2>3
  <2>5. /\ RemoveAt(s, i) \in Seq(S) /\ Elems(RemoveAt(s, i)) \subseteq Elems(s)
        /\ Elems(s) \subseteq Elems(RemoveAt(s, i)) \cup {e}
        /\ IsInjective(s) =>
             /\ IsInjective(RemoveAt(s, i)) /\ Len(RemoveAt(s, i)) = Len(s) - 1
             /\ Elems(RemoveAt(s, i)) = Elems(s) \ {s[i]}
    BY <2>4, RemoveAtProperties, RemoveAtOfDistinct
  <2> HIDE DEF I
  <2> QED
    BY <2>2, <2>3, <2>4, <2>5, LenProperties
<1> QED
  BY <1>1, <1>2

LEMMA AppendDistinct ==
  ASSUME NEW S, NEW s \in Seq(S), IsInjective(s), NEW e \in S, e \notin Elems(s)
  PROVE  IsInjective(Append(s, e))
<1> DEFINE r == Append(s, e)
<1>1. /\ r \in Seq(S) /\ Len(r) = Len(s) + 1 /\ Len(s) \in Nat
      /\ (\A i \in 1..Len(s) : r[i] = s[i]) /\ r[Len(s) + 1] = e
      /\ DOMAIN s = 1..Len(s)
  BY AppendProperties, LenProperties
<1> HIDE DEF r
<1>2. DOMAIN r = 1..(Len(s) + 1)
  BY <1>1, LenProperties
<1>3. \A j, k \in 1..Len(s) : s[j] = s[k] => j = k
  BY <1>1 DEF IsInjective
<1>4. \A j \in 1..Len(s) : s[j] # e
  BY DEF Elems
<1>5. IsInjective(r)
  BY <1>1, <1>2, <1>3, <1>4 DEF IsInjective
<1> QED
  BY <1>5 DEF r

-----------------------------------------------------------------------------
(* The elements at some positions, and Vec::retain *)

\* f lists the numbers of the set at in increasing order; there are n.
Enumerates(f, n, at) ==
  /\ n \in Nat /\ f \in [1..n -> at]
  /\ \A i, j \in 1..n : i < j => f[i] < f[j]
  /\ \A x \in at : \E i \in 1..n : f[i] = x

\* The elements of s that f names, in its order.
Named(s, f, n) == [k \in 1..n |-> s[f[k]]]

\* What f has listed by its k-th step.
Listed(f, at, k) == {x \in at : \E i \in 1..k : f[i] = x}

LEMMA EnumerationCounts ==
  ASSUME NEW at, at \subseteq Nat, NEW n, NEW f, Enumerates(f, n, at), NEW k \in 0..n
  PROVE  Cardinality(Listed(f, at, k)) = k
<1> DEFINE T == {x \in at : \E i \in 1..k : f[i] = x}
           g == [i \in 1..k |-> f[i]]
<1>1. /\ n \in Nat /\ k \in Nat /\ f \in [1..n -> at]
      /\ \A i \in 1..k : i \in 1..n
      /\ \A i, j \in 1..n : i < j => f[i] < f[j]
  BY DEF Enumerates
<1>2. \A i \in 1..k : f[i] \in at /\ f[i] \in T
  BY <1>1
<1>3. \A i, j \in 1..k : f[i] = f[j] => i = j
  <2> SUFFICES ASSUME NEW i \in 1..k, NEW j \in 1..k, i < j PROVE f[i] # f[j]
    BY <1>1
  <2>1. f[i] < f[j] /\ f[i] \in Nat /\ f[j] \in Nat
    BY <1>1, <1>2
  <2> QED
    BY <2>1
<1>4. \A x \in T : \E i \in 1..k : f[i] = x
  OBVIOUS
<1> DEFINE K == 1..k
<1>5. g \in [K -> T] /\ (\A i \in K : g[i] = f[i])
  BY <1>2
<1> HIDE DEF g, T
<1>6. g \in Bijection(K, T)
  <2>1. \A i, j \in K : g[i] = g[j] => i = j
    BY <1>3, <1>5
  <2>2. \A x \in T : \E i \in K : g[i] = x
    BY <1>4, <1>5
  <2> HIDE DEF K
  <2> QED
    BY <1>5, <2>1, <2>2 DEF Bijection, Injection, Surjection, IsInjective
<1>7. ExistsBijection(1..k, T)
  BY <1>6 DEF ExistsBijection
<1>8. Cardinality(T) = k
  BY <1>1, <1>7, FS_CountingElements
<1> QED
  BY <1>8 DEF T, Listed

LEMMA EnumerationIsPicked ==
  ASSUME NEW at, at \subseteq Nat, NEW n, NEW f, Enumerates(f, n, at), NEW s
  PROVE  Cardinality(at) = n /\ Picked(s, at) = Named(s, f, n)
<1> DEFINE Below(x) == {j \in at : j <= x}
           At(k) == CHOOSE x \in at : Cardinality(Below(x)) = k
<1>1. /\ n \in Nat /\ f \in [1..n -> at]
      /\ \A i, j \in 1..n : i < j => f[i] < f[j]
      /\ \A x \in at : \E i \in 1..n : f[i] = x
  BY DEF Enumerates
<1>a. \A k \in 1..n : f[k] \in at /\ f[k] \in Nat /\ k \in Nat
  <2> SUFFICES ASSUME NEW k \in 1..n PROVE f[k] \in at /\ f[k] \in Nat /\ k \in Nat
    OBVIOUS
  <2>1. f[k] \in at
    BY <1>1
  <2>2. n \in Nat
    BY <1>1
  <2>3. k \in Nat
    BY <2>2
  <2> QED
    BY <2>1, <2>3
<1>2. ASSUME NEW k \in 0..n PROVE Cardinality(Listed(f, at, k)) = k
  BY EnumerationCounts
<1>3. Listed(f, at, n) = at
  BY <1>1 DEF Listed
<1>4. Cardinality(at) = n
  <2> n \in 0..n
    BY <1>1
  <2> QED
    BY <1>2, <1>3
<1>5. ASSUME NEW k \in 1..n PROVE Below(f[k]) = Listed(f, at, k)
  <2>1. k \in Nat /\ f[k] \in Nat
    BY <1>a
  <2>2. ASSUME NEW x \in at, x <= f[k] PROVE \E i \in 1..k : f[i] = x
    <3>1. PICK i \in 1..n : f[i] = x
      BY <1>1
    <3>2. i <= k
      <4>1. k < i => f[k] < f[i]
        BY <1>1
      <4>2. i \in Nat /\ x \in Nat
        BY <1>a, <3>1
      <4> QED
        BY <2>1, <2>2, <3>1, <4>1, <4>2
    <3>3. i \in 1..k
      BY <2>1, <3>2
    <3> QED
      BY <3>1, <3>3
  <2>3. ASSUME NEW i \in 1..k PROVE f[i] <= f[k]
    <3>1. i \in 1..n /\ (i = k \/ i < k)
      BY <1>1
    <3>2. i < k => f[i] < f[k]
      BY <1>1, <3>1
    <3>3. f[i] \in Nat
      BY <1>a, <3>1
    <3> QED
      BY <2>1, <3>1, <3>2, <3>3
  <2> QED
    BY <2>2, <2>3 DEF Listed
<1>6. \A k \in 1..n : Cardinality(Below(f[k])) = k /\ f[k] \in at
  <2>1. \A k \in 1..n : k \in 0..n /\ f[k] \in at
    BY <1>1
  <2> HIDE DEF Below
  <2> QED
    BY <1>2, <1>5, <2>1
<1>7. \A k \in 1..n : At(k) = f[k]
  <2> SUFFICES ASSUME NEW k \in 1..n PROVE At(k) = f[k]
    OBVIOUS
  <2> HIDE DEF Below
  <2>1. At(k) \in at /\ Cardinality(Below(At(k))) = k
    BY <1>6
  <2>2. PICK i \in 1..n : f[i] = At(k)
    BY <1>1, <2>1
  <2> QED
    BY <1>6, <2>1, <2>2
<1>8. Picked(s, at) = [k \in 1..n |-> s[At(k)]]
  BY <1>4 DEF Picked
<1> HIDE DEF At
<1> QED
  BY <1>4, <1>7, <1>8 DEF Named

LEMMA PickedIsEnumerated ==
  ASSUME NEW S, NEW s \in Seq(S), NEW at \in SUBSET (1..Len(s))
  PROVE  \E n, f : /\ Enumerates(f, n, at)
                   /\ Picked(s, at) = Named(s, f, n)
                   /\ Picked(s, at) \in Seq(S) /\ Len(Picked(s, at)) = n
<1> DEFINE n == Cardinality(at)
           Below(i) == {j \in at : j <= i}
           place == [i \in at |-> Cardinality(Below(i))]
           At(k) == CHOOSE i \in at : Cardinality(Below(i)) = k
           f == [k \in 1..n |-> At(k)]
<1>1. /\ Len(s) \in Nat /\ IsFiniteSet(at) /\ \A i \in at : i \in Nat /\ s[i] \in S
  <2>1. Len(s) \in Nat /\ \A i \in 1..Len(s) : s[i] \in S
    BY LenProperties, ElementOfSeq
  <2>2. IsFiniteSet(1..Len(s))
    BY <2>1, FS_Interval
  <2>3. IsFiniteSet(at)
    BY <2>2, FS_Subset
  <2> QED
    BY <2>1, <2>3
<1>2. n \in Nat
  BY <1>1, FS_CardinalityType
<1>3. \A i \in at : /\ IsFiniteSet(Below(i)) /\ Below(i) \subseteq at
                    /\ Cardinality(Below(i)) \in Nat /\ place[i] \in 1..n
  <2> SUFFICES ASSUME NEW i \in at
               PROVE  /\ IsFiniteSet(Below(i)) /\ Below(i) \subseteq at
                      /\ Cardinality(Below(i)) \in Nat /\ place[i] \in 1..n
    OBVIOUS
  <2>1. Below(i) \in SUBSET at /\ i \in Below(i)
    BY <1>1
  <2>2. IsFiniteSet(Below(i)) /\ Cardinality(Below(i)) <= n
    BY <1>1, <2>1, FS_Subset
  <2>3. Cardinality(Below(i)) \in Nat /\ Cardinality(Below(i)) # 0
    BY <2>1, <2>2, FS_CardinalityType, FS_EmptySet
  <2> QED
    BY <1>2, <2>1, <2>2, <2>3
<1>4. \A i, j \in at : i < j => place[i] < place[j]
  <2> SUFFICES ASSUME NEW i \in at, NEW j \in at, i < j PROVE place[i] < place[j]
    OBVIOUS
  <2>0. \A x \in at : x \in Nat
    BY <1>1
  <2>a. \A x \in at : x <= i => x <= j
    BY <2>0
  <2>b. j <= j /\ ~(j <= i)
    BY <2>0
  <2>1. Below(i) \in SUBSET Below(j) /\ j \in Below(j) /\ j \notin Below(i)
    BY <2>a, <2>b
  <2>2. /\ IsFiniteSet(Below(j)) /\ Below(i) # Below(j)
        /\ Cardinality(Below(i)) \in Nat /\ Cardinality(Below(j)) \in Nat
    BY <1>3, <2>1
  <2>3. Cardinality(Below(i)) < Cardinality(Below(j))
    <3> DEFINE A == Below(i)  B == Below(j)
    <3>1. /\ IsFiniteSet(B) /\ A \in SUBSET B /\ A # B
          /\ Cardinality(A) \in Nat /\ Cardinality(B) \in Nat
      BY <2>1, <2>2
    <3> HIDE DEF A, B
    <3>2. Cardinality(A) # Cardinality(B) /\ Cardinality(A) <= Cardinality(B)
      BY <3>1, FS_Subset
    <3>3. Cardinality(A) < Cardinality(B)
      BY <3>1, <3>2
    <3> QED
      BY <3>3 DEF A, B
  <2> QED
    BY <2>3
<1>5. place \in [at -> 1..n]
  BY <1>3
<1>6. IsFiniteSet(1..n) /\ Cardinality(1..n) = n
  BY <1>2, FS_Interval
<1>7. \A i \in at : place[i] = Cardinality(Below(i))
  OBVIOUS
<1> HIDE DEF place
<1>8. place \in Injection(at, 1..n)
  <2>1. \A i, j \in at : place[i] = place[j] => i = j
    <3> SUFFICES ASSUME NEW i \in at, NEW j \in at, i < j PROVE place[i] # place[j]
      BY <1>1
    <3>1. place[i] < place[j] /\ place[i] \in Nat /\ place[j] \in Nat
      BY <1>4, <1>5
    <3> QED
      BY <3>1
  <2> QED
    BY <1>5, <2>1 DEF Injection, IsInjective
<1>9. place \in Surjection(at, 1..n)
  <2> DEFINE T == 1..n
  <2>1. IsFiniteSet(T) /\ Cardinality(at) = Cardinality(T) /\ place \in Injection(at, T)
    BY <1>6, <1>8
  <2> HIDE DEF T, n
  <2>2. place \in Surjection(at, T)
    BY <2>1, FS_Injection
  <2> QED
    BY <2>2 DEF T
<1>10. \A k \in 1..n : At(k) \in at /\ place[At(k)] = k
  <2>1. \A k \in 1..n : \E i \in at : Cardinality(Below(i)) = k
    BY <1>7, <1>9 DEF Surjection
  <2> QED
    BY <1>7, <2>1
<1> HIDE DEF At, n
<1>11. \A k \in 1..n : f[k] = At(k)
  OBVIOUS
<1>12. f \in [1..n -> at]
  BY <1>10
<1> HIDE DEF f
<1>13. \A i, j \in 1..n : i < j => f[i] < f[j]
  <2> SUFFICES ASSUME NEW i \in 1..n, NEW j \in 1..n, i < j PROVE f[i] < f[j]
    OBVIOUS
  <2>1. f[i] \in at /\ f[j] \in at /\ place[f[i]] = i /\ place[f[j]] = j
    BY <1>10, <1>11
  <2>2. f[j] < f[i] => place[f[j]] < place[f[i]]
    BY <1>4, <2>1
  <2>3. f[i] \in Nat /\ f[j] \in Nat
    BY <1>1, <2>1
  <2> QED
    BY <1>2, <2>1, <2>2, <2>3
<1>14. \A x \in at : \E i \in 1..n : f[i] = x
  BY <1>5, <1>8, <1>10, <1>11 DEF Injection, IsInjective
<1>15. Enumerates(f, n, at)
  BY <1>2, <1>12, <1>13, <1>14 DEF Enumerates
<1> DEFINE r == Picked(s, at)
<1>16. r = Named(s, f, n)
  <2>1. at \subseteq Nat
    BY <1>1
  <2>2. Picked(s, at) = Named(s, f, n)
    BY <1>15, <2>1, EnumerationIsPicked
  <2> QED
    BY <2>2
<1>17. r \in Seq(S) /\ Len(r) = n
  <2> DEFINE E(k) == s[f[k]]  q == [k \in 1..n |-> E(k)]
  <2>1. \A k \in 1..n : E(k) \in S
    BY <1>1, <1>12
  <2> HIDE DEF E
  <2>2. q \in Seq(S)
    BY <1>2, <2>1, IsASeq
  <2>3. q \in [1..n -> S]
    BY <2>1
  <2>4. q \in Seq(S) /\ Len(q) = n
    BY <1>2, <2>2, <2>3, LenProperties
  <2> QED
    BY <1>16, <2>4 DEF E, Named
<1> HIDE DEF r
<1> QED
  BY <1>15, <1>16, <1>17 DEF r

LEMMA RetainProperties ==
  ASSUME NEW S, NEW s \in Seq(S), NEW e
  PROVE  Retain(s, e) \in Seq(S) /\ Elems(Retain(s, e)) = Elems(s) \ {e}
<1> DEFINE left == {i \in 1..Len(s) : s[i] # e}  r == Picked(s, left)
<1>1. left \in SUBSET (1..Len(s))
  OBVIOUS
<1>2. Retain(s, e) = r
  BY DEF Retain
<1>3. \A i \in 1..Len(s) : i \in left <=> s[i] # e
  OBVIOUS
<1> HIDE DEF left
<1>4. PICK n, f : /\ Enumerates(f, n, left) /\ r = Named(s, f, n)
                  /\ r \in Seq(S) /\ Len(r) = n
  BY <1>1, PickedIsEnumerated
<1> HIDE DEF r
<1>5. /\ \A k \in 1..n : f[k] \in left /\ r[k] = s[f[k]]
      /\ \A x \in left : \E k \in 1..n : f[k] = x
  BY <1>4 DEF Enumerates, Named
<1>6. \A x \in Elems(r) : x \in Elems(s) /\ x # e
  <2> SUFFICES ASSUME NEW k \in 1..n PROVE r[k] \in Elems(s) /\ r[k] # e
    BY <1>4 DEF Elems
  <2>1. f[k] \in left /\ r[k] = s[f[k]]
    BY <1>5
  <2>2. f[k] \in 1..Len(s) /\ s[f[k]] # e
    BY <1>1, <1>3, <2>1
  <2> QED
    BY <2>1, <2>2 DEF Elems
<1>7. \A x \in Elems(s) : x # e => x \in Elems(r)
  <2> SUFFICES ASSUME NEW i \in 1..Len(s), s[i] # e PROVE s[i] \in Elems(r)
    BY DEF Elems
  <2>1. PICK k \in 1..n : f[k] = i
    BY <1>3, <1>5
  <2>2. r[k] = s[i]
    BY <1>5, <2>1
  <2> QED
    BY <1>4, <2>2 DEF Elems
<1> QED
  BY <1>2, <1>4, <1>6, <1>7

\* An enumeration is continued with greater numbers.
LEMMA EnumerateMore ==
  ASSUME NEW at, NEW more, at \subseteq Nat, more \subseteq Nat,
         \A x \in at : \A y \in more : x < y,
         NEW f \in Seq(Nat), NEW g \in Seq(Nat),
         Enumerates(f, Len(f), at), Enumerates(g, Len(g), more)
  PROVE  /\ f \o g \in Seq(Nat)
         /\ Enumerates(f \o g, Len(f \o g), at \cup more)
<1> DEFINE h == f \o g  n == Len(f)  m == Len(g)
<1>1. /\ h \in Seq(Nat) /\ Len(h) = n + m /\ n \in Nat /\ m \in Nat
      /\ \A i \in 1..(n + m) : h[i] = IF i <= n THEN f[i] ELSE g[i - n]
  BY ConcatProperties, LenProperties
<1>2. /\ f \in [1..n -> at] /\ (\A i, j \in 1..n : i < j => f[i] < f[j])
      /\ \A x \in at : \E i \in 1..n : f[i] = x
  BY DEF Enumerates
<1>3. /\ g \in [1..m -> more] /\ (\A i, j \in 1..m : i < j => g[i] < g[j])
      /\ \A x \in more : \E i \in 1..m : g[i] = x
  BY DEF Enumerates
<1>4. DOMAIN h = 1..(n + m) /\ h = [i \in 1..(n + m) |-> h[i]]
  BY <1>1, LenProperties
<1> HIDE DEF h, n, m
<1>5. /\ \A i \in 1..n : i \in 1..(n + m) /\ h[i] = f[i] /\ f[i] \in at
      /\ \A i \in 1..m : n + i \in 1..(n + m) /\ h[n + i] = g[i] /\ g[i] \in more
      /\ \A i \in 1..(n + m) : ~(i <= n) => i - n \in 1..m /\ h[i] = g[i - n]
  <2>1. \A i \in 1..n : i \in 1..(n + m) /\ h[i] = f[i] /\ f[i] \in at
    BY <1>1, <1>2
  <2>2. ASSUME NEW i \in 1..m
        PROVE  n + i \in 1..(n + m) /\ h[n + i] = g[i] /\ g[i] \in more
    <3>1. n + i \in 1..(n + m) /\ ~(n + i <= n) /\ (n + i) - n = i
      BY <1>1
    <3> QED
      BY <1>1, <1>3, <3>1
  <2>3. \A i \in 1..(n + m) : ~(i <= n) => i - n \in 1..m /\ h[i] = g[i - n]
    BY <1>1
  <2> QED
    BY <2>1, <2>2, <2>3
<1>6. \A i \in 1..(n + m) : h[i] \in at \cup more
  <2>1. ASSUME NEW i \in 1..(n + m) PROVE h[i] \in at \cup more
    <3>1. CASE i <= n
      <4>1. i \in 1..n
        BY <1>1, <3>1
      <4> QED
        BY <1>5, <4>1
    <3>2. CASE ~(i <= n)
      <4>1. i - n \in 1..m /\ h[i] = g[i - n]
        BY <1>5, <3>2
      <4> QED
        BY <1>3, <4>1
    <3> QED
      BY <3>1, <3>2
  <2> QED
    BY <2>1
<1>7. h \in [1..(n + m) -> at \cup more]
  BY <1>4, <1>6
<1>8. ASSUME NEW i \in 1..(n + m), NEW j \in 1..(n + m), i < j
      PROVE  h[i] < h[j]
  <2>1. CASE j <= n
    BY <1>1, <1>2, <1>5, <1>8, <2>1
  <2>2. CASE ~(j <= n) /\ i <= n
    <3>1. i \in 1..n /\ j - n \in 1..m /\ h[j] = g[j - n]
      BY <1>1, <1>5, <2>2
    <3>2. h[i] \in at /\ h[j] \in more
      BY <1>3, <1>5, <3>1
    <3> QED
      BY <3>2
  <2>3. CASE ~(i <= n)
    <3>1. /\ i - n \in 1..m /\ j - n \in 1..m /\ i - n < j - n
          /\ h[i] = g[i - n] /\ h[j] = g[j - n]
      BY <1>1, <1>5, <1>8, <2>3
    <3> QED
      BY <1>3, <3>1
  <2> QED
    BY <2>1, <2>2, <2>3
<1>9. \A x \in at \cup more : \E i \in 1..(n + m) : h[i] = x
  <2>1. ASSUME NEW x \in at PROVE \E i \in 1..(n + m) : h[i] = x
    BY <1>2, <1>5
  <2>2. ASSUME NEW x \in more PROVE \E i \in 1..(n + m) : h[i] = x
    BY <1>3, <1>5
  <2> QED
    BY <2>1, <2>2
<1>10. Len(h) \in Nat
  BY <1>1
<1> QED
  BY <1>1, <1>7, <1>8, <1>9, <1>10 DEF Enumerates, h

\* The numbers of a set that an enumeration of its smaller ones begins with.
LEMMA EnumerationIsPrefix ==
  ASSUME NEW n \in Nat, NEW at \in SUBSET (1..n), NEW k \in 0..n,
         NEW f \in Seq(Nat), Enumerates(f, Len(f), {x \in at : x <= k})
  PROVE  IsPrefix(f, Picked([i \in 1..n |-> i], at))
<1> DEFINE low == {x \in at : x <= k}  high == {x \in at : x > k}
           s == [i \in 1..n |-> i]
<1>1. s \in Seq(Nat) /\ Len(s) = n
  BY IsASeq
<1>2. low \subseteq Nat /\ high \subseteq Nat /\ at = low \cup high /\ at \subseteq Nat
      /\ high \in SUBSET (1..Len(s)) /\ at \in SUBSET (1..Len(s))
      /\ \A x \in low : \A y \in high : x < y
  <2>1. k \in Int /\ \A x \in at : x \in 1..n /\ x \in Nat /\ (x > k <=> ~(x <= k))
    OBVIOUS
  <2>2. \A x \in at : x <= k => \A y \in at : y > k => x < y
    BY <2>1
  <2>3. low \subseteq at /\ high \subseteq at /\ at = low \cup high
    BY <2>1
  <2>4. at \subseteq Nat /\ at \subseteq 1..Len(s)
    BY <1>1, <2>1
  <2>5. \A x \in low : \A y \in high : x < y
    BY <2>2
  <2> HIDE DEF low, high
  <2> QED
    BY <2>3, <2>4, <2>5
<1> HIDE DEF s, low, high
<1>3. PICK m, g : Enumerates(g, m, high)
  BY <1>1, <1>2, PickedIsEnumerated
<1>4. m \in Nat /\ g \in [1..m -> high]
  BY <1>3 DEF Enumerates
<1>5. g \in [1..m -> Nat]
  BY <1>2, <1>4
<1>6. g \in Seq(Nat) /\ Len(g) = m
  BY <1>4, <1>5, LenProperties
<1> DEFINE h == f \o g
<1>7. h \in Seq(Nat) /\ Enumerates(h, Len(h), at)
  <2>1. Enumerates(f, Len(f), low)
    BY DEF low
  <2>2. Enumerates(g, Len(g), high)
    BY <1>3, <1>6
  <2>3. h \in Seq(Nat) /\ Enumerates(h, Len(h), low \cup high)
    BY <1>2, <1>6, <2>1, <2>2, EnumerateMore
  <2> QED
    BY <1>2, <2>3
<1>8. IsPrefix(f, h)
  BY <1>6, PrefixOfConcat
<1> HIDE DEF h
<1>9. Picked(s, at) = Named(s, h, Len(h))
  BY <1>2, <1>7, EnumerationIsPicked
<1>10. Named(s, h, Len(h)) = h
  <2>1. Len(h) \in Nat /\ h \in [1..Len(h) -> at]
    BY <1>7 DEF Enumerates
  <2>2. \A j \in 1..Len(h) : h[j] \in 1..n
    BY <1>1, <1>2, <2>1
  <2>3. \A j \in 1..Len(h) : s[h[j]] = h[j]
    BY <2>2 DEF s
  <2> QED
    BY <2>1, <2>3 DEF Named
<1> QED
  BY <1>8, <1>9, <1>10 DEF s

LEMMA EnumerateOne ==
  ASSUME NEW x \in Nat
  PROVE  <<x>> \in Seq(Nat) /\ Len(<<x>>) = 1 /\ Enumerates(<<x>>, 1, {x})
  BY DEF Enumerates

LEMMA EnumerateNone == Enumerates(<< >>, 0, {})
  BY DEF Enumerates
=============================================================================
