----------------------- MODULE HybridTransportProofs -----------------------
(***************************************************************************)
(* Proofs about HybridTransport: the types, that a payload has one holder  *)
(* until a transport has taken it, that what arrives is returned in order, *)
(* and that QUIC skips nothing before a frame is cut.                      *)
(***************************************************************************)
EXTENDS HybridTransport, SequenceLemmas

-----------------------------------------------------------------------------
(* What went by one transport *)

\* The positions of what belongs to tr.
Places(tr, s) == {i \in DOMAIN s : s[i][1] = tr}

\* What f names, without the transport.
Cargoes(s, f, n) == [k \in 1..n |-> s[f[k]][2]]

\* What stands second in the entries of T.
Second(T, B) == \A x \in T : x[2] \in B

LEMMA ViaOfEnumeration ==
  ASSUME NEW T, NEW s \in Seq(T), NEW tr,
         NEW n, NEW f, Enumerates(f, n, Places(tr, s))
  PROVE  Via(tr, s) = Cargoes(s, f, n)
<1> DEFINE of == Picked(s, Places(tr, s))
<1>1. Places(tr, s) \subseteq Nat /\ n \in Nat
  <2>1. DOMAIN s = 1..Len(s) /\ Len(s) \in Nat
    BY LenProperties
  <2> QED
    BY <2>1 DEF Places, Enumerates
<1>2. of = Named(s, f, n)
  BY <1>1, EnumerationIsPicked
<1>3. Via(tr, s) = [i \in DOMAIN of |-> of[i][2]]
  BY DEF Via, Places
<1> HIDE DEF of
<1>4. DOMAIN of = 1..n /\ \A k \in 1..n : of[k] = s[f[k]]
  BY <1>2 DEF Named
<1> QED
  BY <1>3, <1>4 DEF Cargoes

LEMMA CargoesType ==
  ASSUME NEW T, NEW s \in Seq(T), NEW B, Second(T, B), NEW tr,
         NEW n, NEW f, Enumerates(f, n, Places(tr, s))
  PROVE  /\ Cargoes(s, f, n) \in Seq(B) /\ Len(Cargoes(s, f, n)) = n
         /\ \A k \in 1..n : Cargoes(s, f, n)[k] = s[f[k]][2]
<1> DEFINE E(k) == s[f[k]][2]  q == [k \in 1..n |-> E(k)]
<1>1. n \in Nat /\ \A k \in 1..n : f[k] \in Places(tr, s)
  BY DEF Enumerates
<1>2. \A i \in DOMAIN s : s[i] \in T
  BY LenProperties, ElementOfSeq
<1>3. \A k \in 1..n : E(k) \in B
  BY <1>1, <1>2 DEF Places, Second
<1> HIDE DEF E
<1>4. q \in Seq(B)
  BY <1>1, <1>3, IsASeq
<1>5. q \in [1..n -> B]
  BY <1>3
<1>6. q \in Seq(B) /\ Len(q) = n
  BY <1>1, <1>4, <1>5, LenProperties
<1>7. \A k \in 1..n : q[k] = E(k)
  OBVIOUS
<1> QED
  BY <1>6, <1>7 DEF E, Cargoes

LEMMA ViaIsEnumerated ==
  ASSUME NEW T, NEW s \in Seq(T), NEW tr
  PROVE  \E n, f : /\ Enumerates(f, n, Places(tr, s))
                   /\ Via(tr, s) = Cargoes(s, f, n)
<1> DEFINE P == Places(tr, s)
<1>1. P \in SUBSET (1..Len(s))
  BY LenProperties DEF Places
<1> HIDE DEF P
<1>3. PICK n, f : Enumerates(f, n, P)
  BY <1>1, PickedIsEnumerated
<1>4. Enumerates(f, n, Places(tr, s))
  BY <1>3 DEF P
<1>5. Via(tr, s) = Cargoes(s, f, n)
  BY <1>4, ViaOfEnumeration
<1> QED
  BY <1>4, <1>5

LEMMA ViaType ==
  ASSUME NEW T, NEW s \in Seq(T), NEW B, Second(T, B), NEW tr
  PROVE  Via(tr, s) \in Seq(B)
<1>1. PICK n, f : Enumerates(f, n, Places(tr, s)) /\ Via(tr, s) = Cargoes(s, f, n)
  BY ViaIsEnumerated
<1>2. Cargoes(s, f, n) \in Seq(B)
  BY <1>1, CargoesType
<1> QED
  BY <1>1, <1>2

LEMMA ViaEmpty ==
  ASSUME NEW tr
  PROVE  Via(tr, << >>) = << >>
<1> DEFINE s == << >>  f == [k \in 1..0 |-> k]
<1>1. Places(tr, s) = {} /\ s \in Seq({})
  BY DEF Places
<1>2. Enumerates(f, 0, {})
  BY DEF Enumerates
<1> HIDE DEF f, s
<1>3. Via(tr, s) = Cargoes(s, f, 0)
  BY <1>1, <1>2, ViaOfEnumeration
<1>4. Cargoes(s, f, 0) = << >>
  BY DEF Cargoes
<1> QED
  BY <1>3, <1>4 DEF s

LEMMA ViaAppend ==
  ASSUME NEW T, NEW s \in Seq(T), NEW B, Second(T, B), NEW tr, NEW e \in T
  PROVE  Via(tr, Append(s, e)) =
           IF e[1] = tr THEN Append(Via(tr, s), e[2]) ELSE Via(tr, s)
<1> DEFINE r == Append(s, e)  m == Len(s) + 1
<1>2. /\ r \in Seq(T) /\ Len(r) = m /\ Len(s) \in Nat
      /\ \A i \in 1..Len(s) : r[i] = s[i]
      /\ r[m] = e
  BY AppendProperties, LenProperties
<1>3. DOMAIN s = 1..Len(s) /\ DOMAIN r = 1..m /\ m \in Nat
  BY <1>2, LenProperties
<1> HIDE DEF r
<1>4. PICK n, f : Enumerates(f, n, Places(tr, s)) /\ Via(tr, s) = Cargoes(s, f, n)
  BY ViaIsEnumerated
<1>5. /\ n \in Nat /\ f \in [1..n -> Places(tr, s)]
      /\ \A i, j \in 1..n : i < j => f[i] < f[j]
      /\ \A x \in Places(tr, s) : \E i \in 1..n : f[i] = x
  BY <1>4 DEF Enumerates
<1>6. \A x \in Places(tr, s) : x \in 1..Len(s) /\ x < m /\ r[x] = s[x] /\ x \in Places(tr, r)
  BY <1>2, <1>3 DEF Places
<1>7. \A x \in Places(tr, r) : x \in Places(tr, s) \/ (x = m /\ e[1] = tr)
  BY <1>2, <1>3 DEF Places
<1>8. \A k \in 1..n : s[f[k]] = r[f[k]]
  BY <1>5, <1>6
<1>10. CASE e[1] = tr
  <2> DEFINE g == [k \in 1..(n + 1) |-> IF k = n + 1 THEN m ELSE f[k]]
  <2>1. m \in Places(tr, r)
    BY <1>2, <1>3, <1>10 DEF Places
  <2>2. /\ \A k \in 1..(n + 1) : k \in 1..n \/ k = n + 1
        /\ \A k \in 1..n : k \in 1..(n + 1) /\ k # n + 1
        /\ n + 1 \in 1..(n + 1) /\ n + 1 \in Nat
    BY <1>5
  <2>3. g[n + 1] = m /\ \A k \in 1..n : g[k] = f[k]
    BY <2>2
  <2>4. \A k \in 1..(n + 1) : g[k] \in Places(tr, r)
    BY <1>5, <1>6, <2>1, <2>2, <2>3
  <2>5. DOMAIN g = 1..(n + 1) /\ g \in [1..(n + 1) -> Places(tr, r)]
    BY <2>4
  <2> HIDE DEF g
  <2>6. ASSUME NEW i \in 1..(n + 1), NEW j \in 1..(n + 1), i < j PROVE g[i] < g[j]
    <3>1. i \in 1..n
      BY <1>5, <2>6
    <3>2. CASE j \in 1..n
      BY <1>5, <2>3, <2>6, <3>1, <3>2
    <3>3. CASE j = n + 1
      BY <1>5, <1>6, <2>3, <3>1, <3>3
    <3> QED
      BY <2>2, <3>2, <3>3
  <2>7. \A x \in Places(tr, r) : \E i \in 1..(n + 1) : g[i] = x
    <3> SUFFICES ASSUME NEW x \in Places(tr, r) PROVE \E i \in 1..(n + 1) : g[i] = x
      OBVIOUS
    <3>1. CASE x = m
      BY <2>2, <2>3, <3>1
    <3>2. CASE x \in Places(tr, s)
      BY <1>5, <2>2, <2>3, <3>2
    <3> QED
      BY <1>7, <3>1, <3>2
  <2>8. Enumerates(g, n + 1, Places(tr, r))
    BY <2>2, <2>5, <2>6, <2>7 DEF Enumerates
  <2>9. Via(tr, r) = Cargoes(r, g, n + 1)
    BY <1>2, <2>8, ViaOfEnumeration
  <2>10. /\ Cargoes(s, f, n) \in Seq(B) /\ Len(Cargoes(s, f, n)) = n
         /\ \A k \in 1..n : Cargoes(s, f, n)[k] = s[f[k]][2]
    BY <1>4, CargoesType
  <2>11. /\ Cargoes(r, g, n + 1) \in Seq(B) /\ Len(Cargoes(r, g, n + 1)) = n + 1
         /\ \A k \in 1..(n + 1) : Cargoes(r, g, n + 1)[k] = r[g[k]][2]
    BY <1>2, <2>8, CargoesType
  <2> DEFINE u == Cargoes(s, f, n)  v == Cargoes(r, g, n + 1)  w == Append(u, e[2])
  <2>12. /\ u \in Seq(B) /\ Len(u) = n /\ \A k \in 1..n : u[k] = s[f[k]][2]
         /\ v \in Seq(B) /\ Len(v) = n + 1 /\ \A k \in 1..(n + 1) : v[k] = r[g[k]][2]
    BY <2>10, <2>11
  <2> HIDE DEF u, v
  <2>13. /\ w \in Seq(B) /\ Len(w) = n + 1
         /\ \A k \in 1..n : w[k] = u[k]
         /\ w[n + 1] = e[2]
    <3>1. e[2] \in B
      BY DEF Second
    <3> QED
      BY <2>12, <3>1, AppendProperties
  <2> HIDE DEF w
  <2>14. ASSUME NEW k \in 1..n PROVE v[k] = w[k]
    <3>1. k \in 1..(n + 1)
      BY <2>2
    <3>2. v[k] = r[g[k]][2]
      BY <2>12, <3>1
    <3>3. g[k] = f[k]
      BY <2>3
    <3>4. w[k] = s[f[k]][2]
      BY <2>12, <2>13
    <3> QED
      BY <1>8, <3>2, <3>3, <3>4
  <2>15. v[n + 1] = w[n + 1]
    <3>1. v[n + 1] = r[g[n + 1]][2]
      BY <2>2, <2>12
    <3> QED
      BY <1>2, <2>3, <2>13, <3>1
  <2>16. v = w
    <3>1. Len(v) = Len(w) /\ \A k \in 1..Len(v) : v[k] = w[k]
      BY <2>2, <2>12, <2>13, <2>14, <2>15
    <3> QED
      BY <2>12, <2>13, <3>1, SeqEqual
  <2> QED
    BY <1>4, <1>10, <2>9, <2>16 DEF u, v, w, r
<1>11. CASE e[1] # tr
  <2>1. Places(tr, r) = Places(tr, s)
    BY <1>6, <1>7, <1>11
  <2>2. Via(tr, r) = Cargoes(r, f, n)
    BY <1>2, <1>4, <2>1, ViaOfEnumeration
  <2>3. Cargoes(r, f, n) = Cargoes(s, f, n)
    BY <1>8 DEF Cargoes
  <2> QED
    BY <1>4, <1>11, <2>2, <2>3 DEF r
<1> QED
  BY <1>10, <1>11

LEMMA ViaConcat ==
  ASSUME NEW T, NEW s \in Seq(T), NEW t \in Seq(T), NEW B, Second(T, B), NEW tr
  PROVE  Via(tr, s \o t) = Via(tr, s) \o Via(tr, t)
<1> DEFINE r == s \o t  l == Len(s)
<1>1. /\ r \in Seq(T) /\ l \in Nat /\ Len(t) \in Nat
      /\ DOMAIN s = 1..l /\ DOMAIN t = 1..Len(t) /\ DOMAIN r = 1..(l + Len(t))
  BY ConcatProperties, LenProperties
<1>2. \A i \in 1..l : i \in 1..(l + Len(t)) /\ r[i] = s[i] /\ i <= l
  <2> SUFFICES ASSUME NEW i \in 1..l
               PROVE  i \in 1..(l + Len(t)) /\ r[i] = s[i] /\ i <= l
    OBVIOUS
  <2>1. i \in 1..(l + Len(t)) /\ i <= l
    BY <1>1
  <2> QED
    BY <2>1, ConcatProperties
<1>3. \A i \in 1..Len(t) : l + i \in 1..(l + Len(t)) /\ r[l + i] = t[i] /\ i > 0 /\ i \in Nat
  <2> SUFFICES ASSUME NEW i \in 1..Len(t)
               PROVE  l + i \in 1..(l + Len(t)) /\ r[l + i] = t[i] /\ i > 0 /\ i \in Nat
    OBVIOUS
  <2>1. l + i \in 1..(l + Len(t)) /\ ~(l + i <= l) /\ (l + i) - l = i /\ i > 0 /\ i \in Nat
    BY <1>1
  <2>2. r[l + i] = t[(l + i) - l]
    BY <2>1, ConcatProperties
  <2> QED
    BY <2>1, <2>2
<1>4. \A i \in 1..(l + Len(t)) : i \in 1..l \/ \E j \in 1..Len(t) : i = l + j
  <2> SUFFICES ASSUME NEW i \in 1..(l + Len(t)), i \notin 1..l
               PROVE  \E j \in 1..Len(t) : i = l + j
    OBVIOUS
  <2>1. i - l \in 1..Len(t) /\ i = l + (i - l)
    BY <1>1
  <2> QED
    BY <2>1
<1> HIDE DEF r, l
<1>5. PICK n, f : Enumerates(f, n, Places(tr, s)) /\ Via(tr, s) = Cargoes(s, f, n)
  BY ViaIsEnumerated
<1>6. PICK m, g : Enumerates(g, m, Places(tr, t)) /\ Via(tr, t) = Cargoes(t, g, m)
  BY ViaIsEnumerated
<1>7. /\ n \in Nat /\ f \in [1..n -> Places(tr, s)]
      /\ \A i, j \in 1..n : i < j => f[i] < f[j]
      /\ \A x \in Places(tr, s) : \E i \in 1..n : f[i] = x
  BY <1>5 DEF Enumerates
<1>8. /\ m \in Nat /\ g \in [1..m -> Places(tr, t)]
      /\ \A i, j \in 1..m : i < j => g[i] < g[j]
      /\ \A x \in Places(tr, t) : \E i \in 1..m : g[i] = x
  BY <1>6 DEF Enumerates
<1> DEFINE N == 1..(n + m)
           h == [k \in N |-> IF k \in 1..n THEN f[k] ELSE l + g[k - n]]
<1>9. \A k \in 1..n : k \in N /\ h[k] = f[k]
  BY <1>7, <1>8
<1>10. \A k \in 1..m : n + k \in N /\ h[n + k] = l + g[k]
  <2> SUFFICES ASSUME NEW k \in 1..m PROVE n + k \in N /\ h[n + k] = l + g[k]
    OBVIOUS
  <2>1. n + k \in N /\ n + k \notin 1..n /\ (n + k) - n = k
    BY <1>7, <1>8
  <2> QED
    BY <2>1
<1>11. \A k \in N : k \in 1..n \/ \E j \in 1..m : k = n + j
  <2> SUFFICES ASSUME NEW k \in N, k \notin 1..n PROVE \E j \in 1..m : k = n + j
    OBVIOUS
  <2>1. k - n \in 1..m /\ k = n + (k - n)
    BY <1>7, <1>8
  <2> QED
    BY <2>1
<1>12. DOMAIN h = N
  OBVIOUS
<1>a. h = [k \in N |-> h[k]]
  OBVIOUS
<1> HIDE DEF h, N
<1>13. \A k \in 1..n : f[k] \in 1..l /\ f[k] \in Places(tr, r) /\ r[f[k]] = s[f[k]] /\ f[k] <= l
  <2> SUFFICES ASSUME NEW k \in 1..n
               PROVE  f[k] \in 1..l /\ f[k] \in Places(tr, r) /\ r[f[k]] = s[f[k]] /\ f[k] <= l
    OBVIOUS
  <2>1. f[k] \in 1..l /\ s[f[k]][1] = tr
    BY <1>1, <1>7 DEF Places
  <2> QED
    BY <1>1, <1>2, <2>1 DEF Places
<1>14. \A k \in 1..m : /\ g[k] \in 1..Len(t) /\ l + g[k] \in Places(tr, r)
                       /\ r[l + g[k]] = t[g[k]] /\ g[k] > 0 /\ g[k] \in Nat
  <2> SUFFICES ASSUME NEW k \in 1..m
               PROVE  /\ g[k] \in 1..Len(t) /\ l + g[k] \in Places(tr, r)
                      /\ r[l + g[k]] = t[g[k]] /\ g[k] > 0 /\ g[k] \in Nat
    OBVIOUS
  <2>1. g[k] \in 1..Len(t) /\ t[g[k]][1] = tr
    BY <1>1, <1>8 DEF Places
  <2> QED
    BY <1>1, <1>3, <2>1 DEF Places
<1>15. h \in [N -> Places(tr, r)]
  <2>1. \A k \in N : h[k] \in Places(tr, r)
    BY <1>9, <1>10, <1>11, <1>13, <1>14
  <2> QED
    BY <1>a, <2>1
<1>16. ASSUME NEW i \in N, NEW j \in N, i < j PROVE h[i] < h[j]
  <2>1. CASE i \in 1..n /\ j \in 1..n
    BY <1>7, <1>9, <1>16, <2>1
  <2>2. ASSUME i \in 1..n, NEW b \in 1..m, j = n + b PROVE h[i] < h[j]
    <3>1. h[i] <= l /\ h[i] \in 1..l /\ h[j] = l + g[b] /\ g[b] > 0 /\ g[b] \in Nat
      BY <1>9, <1>10, <1>13, <1>14, <2>2
    <3> QED
      BY <1>1, <3>1
  <2>3. ASSUME NEW a \in 1..m, i = n + a, j \in 1..n PROVE FALSE
    BY <1>7, <1>8, <1>16, <2>3
  <2>4. ASSUME NEW a \in 1..m, i = n + a, NEW b \in 1..m, j = n + b PROVE h[i] < h[j]
    <3>1. a < b
      BY <1>7, <1>8, <1>16, <2>4
    <3>2. g[a] < g[b] /\ g[a] \in Nat /\ g[b] \in Nat
      BY <1>8, <1>14, <3>1
    <3>3. h[i] = l + g[a] /\ h[j] = l + g[b]
      BY <1>10, <2>4
    <3> QED
      BY <1>1, <3>2, <3>3
  <2> QED
    BY <1>11, <2>1, <2>2, <2>3, <2>4
<1>17. ASSUME NEW x \in Places(tr, r) PROVE \E k \in N : h[k] = x
  <2>1. x \in 1..(l + Len(t)) /\ r[x][1] = tr
    BY <1>1 DEF Places
  <2>2. CASE x \in 1..l
    <3>1. x \in Places(tr, s)
      BY <1>1, <1>2, <2>1, <2>2 DEF Places
    <3> QED
      BY <1>7, <1>9, <3>1
  <2>3. ASSUME NEW j \in 1..Len(t), x = l + j PROVE \E k \in N : h[k] = x
    <3>1. j \in Places(tr, t)
      BY <1>1, <1>3, <2>1, <2>3 DEF Places
    <3>2. PICK k \in 1..m : g[k] = j
      BY <1>8, <3>1
    <3> QED
      BY <1>10, <2>3, <3>2
  <2> QED
    BY <1>4, <2>1, <2>2, <2>3
<1>18. Enumerates(h, n + m, Places(tr, r))
  <2>1. n + m \in Nat
    BY <1>7, <1>8
  <2> QED
    BY <1>15, <1>16, <1>17, <2>1 DEF Enumerates, N
<1>19. Via(tr, r) = Cargoes(r, h, n + m)
  BY <1>1, <1>18, ViaOfEnumeration
<1> DEFINE u == Cargoes(s, f, n)  v == Cargoes(t, g, m)  w == Cargoes(r, h, n + m)
           z == u \o v
<1>20. u \in Seq(B) /\ Len(u) = n /\ \A k \in 1..n : u[k] = s[f[k]][2]
  BY <1>5, CargoesType
<1>21. v \in Seq(B) /\ Len(v) = m /\ \A k \in 1..m : v[k] = t[g[k]][2]
  BY <1>6, CargoesType
<1>22. w \in Seq(B) /\ Len(w) = n + m /\ \A k \in N : w[k] = r[h[k]][2]
  BY <1>1, <1>18, CargoesType DEF N
<1> HIDE DEF u, v, w
<1>a1. /\ u \o v \in Seq(B) /\ Len(u \o v) = Len(u) + Len(v)
       /\ \A k \in 1..(Len(u) + Len(v)) :
            (u \o v)[k] = IF k <= Len(u) THEN u[k] ELSE v[k - Len(u)]
  BY <1>20, <1>21, ConcatProperties
<1>23. /\ z \in Seq(B) /\ Len(z) = n + m
       /\ \A k \in N : z[k] = IF k <= n THEN u[k] ELSE v[k - n]
  BY <1>20, <1>21, <1>a1 DEF N
<1> HIDE DEF z
<1>24. ASSUME NEW k \in N PROVE w[k] = z[k]
  <2>1. CASE k \in 1..n
    <3>1. k <= n
      BY <1>7, <2>1
    <3>2. z[k] = s[f[k]][2]
      BY <1>20, <1>23, <2>1, <3>1
    <3> QED
      BY <1>9, <1>13, <1>22, <2>1, <3>2
  <2>2. ASSUME NEW j \in 1..m, k = n + j PROVE w[k] = z[k]
    <3>1. ~(k <= n) /\ k - n = j
      BY <1>7, <1>8, <2>2
    <3>2. z[k] = t[g[j]][2]
      BY <1>21, <1>23, <3>1
    <3> QED
      BY <1>10, <1>14, <1>22, <2>2, <3>2
  <2> QED
    BY <1>11, <2>1, <2>2
<1>25. w = z
  <2>1. \A k \in 1..Len(w) : w[k] = z[k]
    BY <1>22, <1>24 DEF N
  <2>2. Len(w) = Len(z)
    BY <1>22, <1>23
  <2> QED
    BY <1>22, <1>23, <2>1, <2>2, SeqEqual
<1>26. Via(tr, s \o t) = w
  BY <1>19 DEF w, r
<1>27. Via(tr, s) \o Via(tr, t) = z
  BY <1>5, <1>6 DEF z, u, v
<1> QED
  BY <1>25, <1>26, <1>27

LEMMA ViaTail ==
  ASSUME NEW T, NEW s \in Seq(T), s # << >>, NEW B, Second(T, B), NEW tr
  PROVE  Via(tr, s) = (IF Head(s)[1] = tr THEN <<Head(s)[2]>> ELSE << >>) \o Via(tr, Tail(s))
<1> DEFINE e == Head(s)  a == Append(<< >>, e)  r == Tail(s)
<1>1. e \in T /\ r \in Seq(T) /\ << >> \in Seq(T)
  BY HeadTailProperties, EmptySeq
<1>2. s = a \o r
  BY HeadAndTail
<1> HIDE DEF e, r
<1>3. a \in Seq(T)
  BY <1>1, AppendProperties
<1>4. Via(tr, a) = IF e[1] = tr THEN Append(Via(tr, << >>), e[2]) ELSE Via(tr, << >>)
  <2> DEFINE d == << >>
  <2>1. d \in Seq(T) /\ e \in T
    BY <1>1
  <2> HIDE DEF d
  <2>2. Via(tr, Append(d, e)) = IF e[1] = tr THEN Append(Via(tr, d), e[2]) ELSE Via(tr, d)
    BY <2>1, ViaAppend
  <2> QED
    BY <2>2 DEF d
<1>5. Via(tr, a) = IF e[1] = tr THEN <<e[2]>> ELSE << >>
  <2>1. Via(tr, << >>) = << >>
    BY ViaEmpty
  <2>2. Append(<< >>, e[2]) = <<e[2]>>
    OBVIOUS
  <2> QED
    BY <1>4, <2>1, <2>2
<1> HIDE DEF a
<1>6. Via(tr, a \o r) = Via(tr, a) \o Via(tr, r)
  BY <1>1, <1>3, ViaConcat
<1> QED
  BY <1>2, <1>5, <1>6 DEF e, r

StartsWith(x, y, B) == \E rest \in Seq(B) : x = y \o rest

LEMMA ViaSubSeq ==
  ASSUME NEW T, NEW s \in Seq(T), NEW B, Second(T, B), NEW tr, NEW m \in 0..Len(s)
  PROVE  StartsWith(Via(tr, s), Via(tr, SubSeq(s, 1, m)), B)
<1> DEFINE a == SubSeq(s, 1, m)  b == SubSeq(s, m + 1, Len(s))
<1>1. /\ Len(s) \in Nat /\ \A i \in 1..Len(s) : s[i] \in T
  BY LenProperties, ElementOfSeq
<1>2. m \in Nat /\ m <= Len(s) /\ m \in Int /\ m + 1 \in Int /\ Len(s) \in Int
  BY <1>1
<1>3. (\A i \in 1..m : s[i] \in T) /\ (\A i \in (m + 1)..Len(s) : s[i] \in T)
  BY <1>1, <1>2
<1>4. a \in Seq(T) /\ b \in Seq(T)
  <2>1. a \in Seq(T)
    BY <1>2, <1>3, SubSeqProperties
  <2>2. b \in Seq(T)
    BY <1>2, <1>3, SubSeqProperties
  <2> QED
    BY <2>1, <2>2
<1>5. s = a \o b
  <2>1. 1 \in 1..(Len(s) + 1) /\ m \in (1 - 1)..Len(s) /\ Len(s) \in m..Len(s)
    BY <1>1, <1>2
  <2>2. SubSeq(s, 1, m) \o SubSeq(s, m + 1, Len(s)) = SubSeq(s, 1, Len(s))
    BY <2>1, ConcatAdjacentSubSeq
  <2> QED
    BY <2>2, SubSeqFull
<1> HIDE DEF a, b
<1>6. Via(tr, a \o b) = Via(tr, a) \o Via(tr, b) /\ Via(tr, b) \in Seq(B)
  BY <1>4, ViaConcat, ViaType
<1> QED
  BY <1>5, <1>6 DEF StartsWith, a

-----------------------------------------------------------------------------
(* A task that is not busy has nothing left. *)

BatchShape == \A t \in Tasks : at[t] \in {"idle", "gone"} => batch[t] = << >>

-----------------------------------------------------------------------------
(* Types *)

\* What the assumptions say of the constants.
LEMMA Constants ==
  /\ MaxSends \in Nat /\ RelayPayloads = Payloads /\ NoTask \notin Tasks
  /\ NoPayload \notin Payloads /\ ChannelCap \in Nat \ {0}
  /\ Callers \subseteq Tasks /\ FlushTasks \subseteq Tasks
  BY QuicAssumption, HybridAssumption, RelayTransportAssumption DEF Tasks

LEMMA Chunks ==
  /\ Marker \in Chunk /\ Junk \in Chunk
  /\ \A m \in Payloads : Prefix(m) \in Chunk /\ Body(m) \in Chunk
  /\ \A c \in Chunk : c.of \in Payloads \cup {NoPayload}
  BY DEF Marker, Junk, Prefix, Body, Chunk

QuicStep ==
  \/ QuicDial \/ QuicOpen \/ QuicAccept \/ QuicCloses
  \/ \E t \in Tasks, m \in Payloads : QuicSendPrefix(t, m) \/ QuicSendPayload(t, m)
  \/ \E t \in Tasks : QuicSendFails(t) \/ QuicSendAborted(t)
  \/ QuicRecvCalled \/ QuicReadPrefix \/ QuicRecvDropped \/ QuicMisreads
  \/ QuicRecvClosed \/ \E m \in Payloads : QuicReadPayload(m)

RelayStep ==
  \/ RelayJoin \/ RelayLinkDrops \/ RelayLinkNoticed \/ RelaySendFails
  \/ RelayLoses \/ RelayRead \/ RelayReaderExits \/ RelayRecvClosed
  \/ \E m \in Payloads : RelaySend(m) \/ RelayRecv(m)

LEMMA QuicTypes ==
  ASSUME QuicTypeOK(Tasks), QuicStep \/ UNCHANGED quicVars
  PROVE  QuicTypeOK(Tasks)'
<1> USE DEF QuicTypeOK, setupVars, readVars, RecvOver
<1>1. CASE UNCHANGED quicVars
  BY <1>1 DEF quicVars
<1>2. ASSUME QuicDial \/ QuicAccept PROVE QuicTypeOK(Tasks)'
  <2>1. stream # << >> => Tail(stream) \in Seq(Chunk)
    BY HeadTailProperties
  <2> QED
    BY <1>2, <2>1 DEF QuicDial, QuicAccept
<1>3. CASE QuicOpen
  <2>1. Append(stream, Marker) \in Seq(Chunk)
    BY Chunks, AppendProperties
  <2> QED
    BY <1>3, <2>1 DEF QuicOpen
<1>4. CASE QuicCloses
  <2>1. PICK n \in 0..Len(stream) : stream' = SubSeq(stream, 1, n)
    BY <1>4 DEF QuicCloses
  <2>2. stream' \in Seq(Chunk)
    <3>1. Len(stream) \in Nat
      BY LenProperties
    <3>2. n \in Int /\ 1 \in Int /\ \A i \in 1..n : stream[i] \in Chunk
      BY <3>1, ElementOfSeq
    <3> QED
      BY <2>1, <3>2, SubSeqProperties
  <2> QED
    BY <1>4, <2>2 DEF QuicCloses
<1>5. ASSUME NEW t \in Tasks, NEW m \in Payloads,
             QuicSendPrefix(t, m) \/ QuicSendPayload(t, m)
      PROVE  QuicTypeOK(Tasks)'
  <2>1. Append(stream, Prefix(m)) \in Seq(Chunk) /\ Append(stream, Body(m)) \in Seq(Chunk)
    BY Chunks, AppendProperties
  <2> QED
    BY <1>5, <2>1 DEF QuicSendPrefix, QuicSendPayload
<1>6. ASSUME NEW t \in Tasks, QuicSendFails(t) \/ QuicSendAborted(t)
      PROVE  QuicTypeOK(Tasks)'
  BY <1>6 DEF QuicSendFails, QuicSendAborted
<1>7. CASE QuicRecvCalled \/ QuicRecvDropped \/ QuicRecvClosed
  BY <1>7 DEF QuicRecvCalled, QuicRecvDropped, QuicRecvClosed
<1>8. CASE QuicReadPrefix
  <2>1. stream # << >>
    BY <1>8 DEF QuicReadPrefix
  <2>2. Tail(stream) \in Seq(Chunk) /\ Head(stream) \in Chunk
    BY <2>1, HeadTailProperties
  <2>3. Head(stream).of \in Payloads \cup {NoPayload}
    BY <2>2, Chunks
  <2> QED
    BY <1>8, <2>2, <2>3 DEF QuicReadPrefix
<1>9. ASSUME NEW m \in Payloads, QuicReadPayload(m) PROVE QuicTypeOK(Tasks)'
  <2>1. Tail(stream) \in Seq(Chunk)
    BY <1>9, HeadTailProperties DEF QuicReadPayload
  <2> QED
    BY <1>9, <2>1 DEF QuicReadPayload
<1>10. CASE QuicMisreads
  <2>1. PICK n \in 0..Len(stream) :
          \/ stream' = SubSeq(stream, n + 1, Len(stream))
          \/ /\ SubSeq(stream, n + 1, Len(stream)) # << >>
             /\ stream' = <<Junk>> \o Tail(SubSeq(stream, n + 1, Len(stream)))
    BY <1>10 DEF QuicMisreads
  <2> DEFINE rest == SubSeq(stream, n + 1, Len(stream))
  <2>2. rest \in Seq(Chunk)
    <3>1. Len(stream) \in Nat
      BY LenProperties
    <3>2. n + 1 \in Int /\ Len(stream) \in Int /\ \A i \in (n + 1)..Len(stream) : stream[i] \in Chunk
      BY <3>1, ElementOfSeq
    <3> QED
      BY <3>2, SubSeqProperties
  <2>3. stream' = rest \/ (rest # << >> /\ stream' = <<Junk>> \o Tail(rest))
    BY <2>1
  <2> HIDE DEF rest
  <2>4. stream' \in Seq(Chunk)
    <3>1. rest # << >> => Tail(rest) \in Seq(Chunk)
      BY <2>2, HeadTailProperties
    <3>2. <<Junk>> \in Seq(Chunk)
      BY Chunks
    <3>3. rest # << >> => <<Junk>> \o Tail(rest) \in Seq(Chunk)
      BY <3>1, <3>2, ConcatProperties
    <3> QED
      BY <2>2, <2>3, <3>3
  <2> QED
    BY <1>10, <2>4 DEF QuicMisreads
<1> QED
  BY <1>1, <1>2, <1>3, <1>4, <1>5, <1>6, <1>7, <1>8, <1>9, <1>10 DEF QuicStep

LEMMA RelayTypes ==
  ASSUME RelayTransportTypeOK, RelayStep \/ UNCHANGED relayVars
  PROVE  RelayTransportTypeOK'
<1> USE DEF RelayTransportTypeOK
<1>1. CASE UNCHANGED relayVars
  BY <1>1 DEF relayVars
<1>2. CASE \/ RelayJoin \/ RelayLinkDrops \/ RelayLinkNoticed \/ RelaySendFails
           \/ RelayLoses \/ RelayReaderExits
  BY <1>2 DEF RelayJoin, RelayLinkDrops, RelayLinkNoticed, RelaySendFails, RelayLoses,
     RelayReaderExits
<1>3. CASE RelayRecvClosed
  BY <1>3 DEF RelayRecvClosed, relayVars
<1>4. CASE RelayRead
  <2>1. PICK m \in relayed : /\ Len(incoming) < ChannelCap /\ RelayArrives(m)
                             /\ incoming' = Append(incoming, m)
    BY <1>4 DEF RelayRead
  <2>2. m \in RelayPayloads
    OBVIOUS
  <2>3. /\ Append(incoming, m) \in Seq(RelayPayloads)
        /\ Append(arrived, m) \in Seq(RelayPayloads)
        /\ Len(Append(incoming, m)) = Len(incoming) + 1
    BY <2>2, AppendProperties
  <2>4. Len(incoming) + 1 <= ChannelCap
    <3>1. Len(incoming) \in Nat
      BY LenProperties
    <3> QED
      BY <2>1, <3>1, Constants
  <2> QED
    BY <2>1, <2>3, <2>4 DEF RelayArrives
<1>5. ASSUME NEW m \in Payloads, RelaySend(m) PROVE RelayTransportTypeOK'
  BY <1>5, Constants DEF RelaySend
<1>6. ASSUME NEW m \in Payloads, RelayRecv(m) PROVE RelayTransportTypeOK'
  <2>1. incoming # << >>
    BY <1>6 DEF RelayRecv
  <2>2. Tail(incoming) \in Seq(RelayPayloads) /\ Len(Tail(incoming)) = Len(incoming) - 1
    BY <2>1, HeadTailProperties
  <2>3. Len(incoming) - 1 <= ChannelCap
    <3>1. Len(incoming) \in Nat
      BY LenProperties
    <3> QED
      BY <3>1, Constants
  <2> QED
    BY <1>6, <2>2, <2>3 DEF RelayRecv
<1> QED
  BY <1>1, <1>2, <1>3, <1>4, <1>5, <1>6 DEF RelayStep

-----------------------------------------------------------------------------
(* Tasks *)

Busy == {"preferred", "payload", "fallback", "queue"}

TaskShape ==
  /\ at \in [Tasks -> Busy \cup {"idle", "gone"}]
  /\ carried \in [Tasks -> Seq(Payloads)]
  /\ \A t \in Tasks : Len(carried[t]) = (IF at[t] \in {"idle", "gone"} THEN 0 ELSE 1)
  /\ batch \in [Tasks -> Seq(Payloads)]
  /\ BatchShape

\* What each task holds.
Hold == [t \in Tasks |-> HeldBy(t)]

LEMMA HoldShape ==
  ASSUME TaskShape, NEW t \in Tasks
  PROVE  /\ Hold[t] \in Seq(Payloads)
         /\ at[t] \in {"idle", "gone"} => Hold[t] = << >>
         /\ at[t] \in Busy => /\ Cargo(t) \in Payloads
                              /\ Hold[t] # << >> /\ Head(Hold[t]) = Cargo(t)
                              /\ Tail(Hold[t]) = batch[t]
<1> DEFINE c == carried[t]  b == batch[t]
<1>1. c \in Seq(Payloads) /\ b \in Seq(Payloads)
  BY DEF TaskShape
<1>2. Hold[t] = c \o b
  BY DEF Hold, HeldBy
<1>3. at[t] \in {"idle", "gone"} => Len(c) = 0 /\ b = << >>
  BY DEF TaskShape, BatchShape
<1>4. at[t] \in Busy => Len(c) = 1
  BY DEF TaskShape, Busy
<1>5. Cargo(t) = Head(c) /\ batch[t] = b
  BY DEF Cargo
<1> HIDE DEF c, b
<1>6. c \o b \in Seq(Payloads)
  BY <1>1, ConcatProperties
<1>7. Len(c) = 0 => c = << >>
  BY <1>1, EmptySeq
<1>8. << >> \o << >> = << >>
  OBVIOUS
<1>9. ASSUME Len(c) = 1
      PROVE  /\ Head(c) \in Payloads /\ c \o b # << >>
             /\ Head(c \o b) = Head(c) /\ Tail(c \o b) = b
  <2>1. PICK x \in Payloads : c = <<x>>
    BY <1>1, <1>9
  <2>2. Head(c) = x
    BY <2>1
  <2> DEFINE r == <<x>> \o b
  <2>3. /\ r \in Seq(Payloads) /\ Len(r) = 1 + Len(b) /\ Len(b) \in Nat
        /\ \A i \in 1..(1 + Len(b)) : r[i] = IF i <= 1 THEN <<x>>[i] ELSE b[i - 1]
    <3>1. <<x>> \in Seq(Payloads) /\ Len(<<x>>) = 1
      OBVIOUS
    <3> QED
      BY <1>1, <3>1, ConcatProperties, LenProperties
  <2> HIDE DEF r
  <2>4. Len(r) # 0 /\ r # << >>
    BY <2>3, EmptySeq
  <2>5. Head(r) = x
    <3>1. r[1] = x
      BY <2>3
    <3> QED
      BY <3>1
  <2>6. /\ Tail(r) \in Seq(Payloads) /\ Len(Tail(r)) = Len(r) - 1
        /\ \A i \in 1..Len(Tail(r)) : Tail(r)[i] = r[i + 1]
    BY <2>3, <2>4, HeadTailProperties
  <2>7. Len(Tail(r)) = Len(b)
    BY <2>3, <2>6
  <2>8. \A i \in 1..Len(b) : Tail(r)[i] = b[i]
    <3> SUFFICES ASSUME NEW i \in 1..Len(b) PROVE Tail(r)[i] = b[i]
      OBVIOUS
    <3>1. i + 1 \in 1..(1 + Len(b)) /\ ~(i + 1 <= 1) /\ (i + 1) - 1 = i
      BY <2>3
    <3> QED
      BY <2>3, <2>6, <2>7, <3>1
  <2>9. Tail(r) = b
    BY <1>1, <2>6, <2>7, <2>8, SeqEqual
  <2> QED
    BY <2>1, <2>2, <2>4, <2>5, <2>9 DEF r
<1> QED
  BY <1>2, <1>3, <1>4, <1>5, <1>6, <1>7, <1>8, <1>9

\* A task that goes to another await keeps what it holds.
LEMMA StepKeeps ==
  ASSUME TaskShape, NEW t \in Tasks, NEW s \in Busy, at[t] \in Busy,
         Step(t, s), UNCHANGED <<carried, batch>>
  PROVE  TaskShape' /\ UNCHANGED Hold
<1>1. at' \in [Tasks -> Busy \cup {"idle", "gone"}] /\ at'[t] = s
      /\ \A u \in Tasks : u # t => at'[u] = at[u]
  BY DEF Step, TaskShape
<1>2. s \notin {"idle", "gone"} /\ at[t] \notin {"idle", "gone"}
  BY DEF Busy
<1>3. TaskShape'
  <2>1. \A u \in Tasks : at'[u] \in {"idle", "gone"} <=> at[u] \in {"idle", "gone"}
    BY <1>1, <1>2
  <2> QED
    BY <1>1, <2>1 DEF TaskShape, BatchShape
<1>4. UNCHANGED Hold
  BY DEF Hold, HeldBy
<1> QED
  BY <1>3, <1>4

\* A task that goes on with a list holds the list.
LEMMA LoadHolds ==
  ASSUME TaskShape, NEW t \in Tasks, NEW list \in Seq(Payloads), Load(t, list),
         list = << >> => batch[t] = << >>
  PROVE  TaskShape' /\ Hold' = [Hold EXCEPT ![t] = list]
<1>0. at \in [Tasks -> Busy \cup {"idle", "gone"}] /\ carried \in [Tasks -> Seq(Payloads)]
      /\ batch \in [Tasks -> Seq(Payloads)]
  BY DEF TaskShape
<1>1. PICK c, b, s : /\ carried' = [carried EXCEPT ![t] = c] /\ batch' = [batch EXCEPT ![t] = b]
                     /\ at' = [at EXCEPT ![t] = s]
                     /\ c \in Seq(Payloads) /\ b \in Seq(Payloads) /\ c \o b = list
                     /\ \/ s = "idle" /\ Len(c) = 0 /\ b = << >>
                        \/ s = "preferred" /\ Len(c) = 1
  <2>1. CASE list = << >>
    <3>1. at' = [at EXCEPT ![t] = "idle"] /\ carried' = [carried EXCEPT ![t] = << >>]
      BY <2>1 DEF Load, Step
    <3>2. batch' = [batch EXCEPT ![t] = << >>]
      BY <1>0, <2>1 DEF Load
    <3>a. << >> \in Seq(Payloads) /\ Len(<< >>) = 0
      OBVIOUS
    <3>b. << >> \o << >> = << >>
      BY <3>a, ConcatEmptySeq
    <3>3. << >> \o << >> = << >> /\ << >> \in Seq(Payloads) /\ Len(<< >>) = 0
      BY <3>a, <3>b
    <3> QED
      BY <2>1, <3>1, <3>2, <3>3
  <2>2. CASE list # << >>
    <3>1. /\ at' = [at EXCEPT ![t] = "preferred"]
          /\ carried' = [carried EXCEPT ![t] = <<Head(list)>>]
          /\ batch' = [batch EXCEPT ![t] = Tail(list)]
      BY <2>2 DEF Load, Step
    <3>2. Head(list) \in Payloads /\ Tail(list) \in Seq(Payloads)
      BY <2>2, HeadTailProperties
    <3>3. <<Head(list)>> \in Seq(Payloads) /\ Len(<<Head(list)>>) = 1
      BY <3>2
    <3>4. <<Head(list)>> \o Tail(list) = list
      BY <2>2, HeadAndTail
    <3> QED
      BY <3>1, <3>2, <3>3, <3>4
  <2> QED
    BY <2>1, <2>2
<1>2. /\ at' \in [Tasks -> Busy \cup {"idle", "gone"}]
      /\ carried' \in [Tasks -> Seq(Payloads)] /\ batch' \in [Tasks -> Seq(Payloads)]
  BY <1>0, <1>1 DEF Busy
<1>3. /\ at'[t] = s /\ carried'[t] = c /\ batch'[t] = b
      /\ \A u \in Tasks : u # t => /\ at'[u] = at[u] /\ carried'[u] = carried[u]
                                   /\ batch'[u] = batch[u]
  BY <1>0, <1>1
<1>4. TaskShape'
  <2>1. ASSUME NEW u \in Tasks
        PROVE  /\ Len(carried'[u]) = (IF at'[u] \in {"idle", "gone"} THEN 0 ELSE 1)
               /\ at'[u] \in {"idle", "gone"} => batch'[u] = << >>
    <3>1. CASE u = t
      BY <1>1, <1>3, <3>1
    <3>2. CASE u # t
      BY <1>3, <3>2 DEF TaskShape, BatchShape
    <3> QED
      BY <3>1, <3>2
  <2> QED
    BY <1>2, <2>1 DEF TaskShape, BatchShape
<1>5. Hold' = [Hold EXCEPT ![t] = list]
  <2>1. ASSUME NEW u \in Tasks PROVE HeldBy(u)' = IF u = t THEN list ELSE HeldBy(u)
    <3>1. CASE u = t
      <4>1. carried'[u] = c /\ batch'[u] = b
        BY <1>3, <3>1
      <4>2. c \o b = list
        BY <1>1
      <4>3. carried'[u] \o batch'[u] = list
        BY <4>1, <4>2
      <4> QED
        BY <3>1, <4>3 DEF HeldBy
    <3>2. CASE u # t
      <4>1. carried'[u] = carried[u] /\ batch'[u] = batch[u]
        BY <1>3, <3>2
      <4> QED
        BY <3>2, <4>1 DEF HeldBy
    <3> QED
      BY <3>1, <3>2
  <2>2. Hold' = [u \in Tasks |-> HeldBy(u)'] /\ Hold = [u \in Tasks |-> HeldBy(u)]
    BY DEF Hold
  <2> HIDE DEF HeldBy
  <2> QED
    BY <2>1, <2>2
<1> QED
  BY <1>4, <1>5

-----------------------------------------------------------------------------
(* What a step does to the payloads *)

Stays == UNCHANGED <<sends, pending, handed, Hold>>
TakesNew(t) ==
  /\ Hold[t] = << >> /\ sends < MaxSends /\ sends' = sends + 1
  /\ Hold' = [Hold EXCEPT ![t] = <<sends + 1>>]
  /\ UNCHANGED <<pending, handed>>
QueuesNew ==
  /\ sends < MaxSends /\ sends' = sends + 1 /\ pending' = Append(pending, sends + 1)
  /\ UNCHANGED <<handed, Hold>>
Hands(t, tr) ==
  /\ Hold[t] # << >>
  /\ Hold' = [Hold EXCEPT ![t] = Tail(Hold[t])]
  /\ handed' = Append(handed, <<tr, Head(Hold[t])>>)
  /\ UNCHANGED <<sends, pending>>
Requeues(t) ==
  /\ Hold[t] # << >>
  /\ Hold' = [Hold EXCEPT ![t] = Tail(Hold[t])]
  /\ pending' = Append(pending, Head(Hold[t]))
  /\ UNCHANGED <<sends, handed>>
Drains(t) ==
  /\ Hold[t] = << >>
  /\ Hold' = [Hold EXCEPT ![t] = pending]
  /\ pending' = << >>
  /\ UNCHANGED <<sends, handed>>
Drops(f) ==
  /\ at[f] # "gone" /\ at'[f] = "gone"
  /\ Hold' = [Hold EXCEPT ![f] = << >>]
  /\ UNCHANGED <<sends, pending, handed>>

Moves ==
  \/ Stays
  \/ \E t \in Tasks : TakesNew(t) \/ QueuesNew \/ Requeues(t) \/ Drains(t)
  \/ \E t \in Tasks, tr \in Transports : Hands(t, tr)
  \/ \E f \in FlushTasks : Drops(f)

RestTypes ==
  /\ sends \in 0..MaxSends /\ pending \in Seq(Payloads)
  /\ handed \in Seq(Transports \X Payloads)
  /\ returned \in Seq(Transports \X Payloads)

TypeInv ==
  QuicTypeOK(Tasks) /\ RelayTransportTypeOK /\ TaskShape /\ RestTypes

LEMMA TypeInvIsTypeOK == TypeInv <=> TypeOK /\ BatchShape
<1>1. Busy \cup {"idle", "gone"} =
        {"idle", "preferred", "payload", "fallback", "queue", "gone"}
  BY DEF Busy
<1> QED
  BY <1>1 DEF TypeInv, TypeOK, TaskShape, RestTypes

Moved == /\ QuicStep \/ UNCHANGED quicVars
         /\ RelayStep \/ UNCHANGED relayVars
         /\ TaskShape' /\ RestTypes' /\ Moves

LEMMA AppendEntry ==
  ASSUME NEW s \in Seq(Transports \X Payloads), NEW tr \in Transports, NEW m \in Payloads
  PROVE  Append(s, <<tr, m>>) \in Seq(Transports \X Payloads)
  BY AppendProperties

LEMMA NumberIsPayload ==
  ASSUME RestTypes, sends < MaxSends
  PROVE  sends + 1 \in Payloads /\ sends + 1 \in 0..MaxSends
  BY Constants DEF RestTypes, Payloads

\* The end of a send: what the task carried is done with.
LEMMA UnloadHolds ==
  ASSUME TaskShape, NEW t \in Tasks, at[t] \in Busy, Unload(t)
  PROVE  TaskShape' /\ Hold' = [Hold EXCEPT ![t] = Tail(Hold[t])]
<1>1. batch[t] \in Seq(Payloads)
  BY DEF TaskShape
<1>2. Load(t, batch[t])
  BY DEF Unload
<1>3. TaskShape' /\ Hold' = [Hold EXCEPT ![t] = batch[t]]
  BY <1>1, <1>2, LoadHolds
<1> QED
  BY <1>3, HoldShape

LEMMA SendMoves ==
  ASSUME TypeInv, NEW c \in Callers, Send(c)
  PROVE  Moved
<1>1. c \in Tasks
  BY Constants
<1>2. TaskShape /\ RestTypes /\ at[c] = "idle" /\ sends < MaxSends /\ sends' = sends + 1
  BY DEF TypeInv, Send
<1>3. sends + 1 \in Payloads /\ sends + 1 \in 0..MaxSends
  BY <1>2, NumberIsPayload
<1> DEFINE list == <<sends + 1>>
<1>4. list \in Seq(Payloads) /\ list # << >> /\ Head(list) = sends + 1 /\ Tail(list) = << >>
  BY <1>3
<1>5. batch[c] = << >> /\ batch = [batch EXCEPT ![c] = << >>]
  BY <1>1, <1>2 DEF TaskShape, BatchShape
<1>6. Load(c, list)
  <2>1. Step(c, "preferred") /\ carried' = [carried EXCEPT ![c] = <<sends + 1>>]
        /\ UNCHANGED batch
    BY <1>2 DEF Send
  <2> HIDE DEF list
  <2> QED
    BY <1>4, <1>5, <2>1 DEF Load
<1>7. TaskShape' /\ Hold' = [Hold EXCEPT ![c] = list]
  <2> HIDE DEF list
  <2> QED
    BY <1>1, <1>2, <1>4, <1>5, <1>6, LoadHolds
<1>8. Hold[c] = << >>
  BY <1>1, <1>2, HoldShape
<1>9. UNCHANGED <<quicVars, relayVars, pending, handed, returned>>
  BY DEF Send
<1>10. RestTypes'
  BY <1>2, <1>3, <1>9 DEF RestTypes
<1>11. Moves
  BY <1>1, <1>2, <1>7, <1>8, <1>9 DEF Moves, TakesNew
<1> QED
  BY <1>7, <1>9, <1>10, <1>11 DEF Moved

LEMMA EnqueueByHandMoves ==
  ASSUME TypeInv, NEW c \in Callers, EnqueueByHand(c)
  PROVE  Moved
<1>1. TaskShape /\ RestTypes /\ sends < MaxSends /\ sends' = sends + 1
      /\ pending' = Append(pending, sends + 1)
  BY DEF TypeInv, EnqueueByHand
<1>2. sends + 1 \in Payloads /\ sends + 1 \in 0..MaxSends
  BY <1>1, NumberIsPayload
<1>3. Append(pending, sends + 1) \in Seq(Payloads)
  BY <1>1, <1>2, AppendProperties DEF RestTypes
<1>4. UNCHANGED <<quicVars, relayVars, at, carried, batch, handed, returned>>
  BY DEF EnqueueByHand
<1>5. TaskShape' /\ UNCHANGED Hold
  BY <1>1, <1>4 DEF TaskShape, BatchShape, Hold, HeldBy
<1>6. RestTypes'
  BY <1>1, <1>2, <1>3, <1>4 DEF RestTypes
<1>7. c \in Tasks
  BY Constants
<1> QED
  BY <1>1, <1>4, <1>5, <1>6, <1>7 DEF Moved, Moves, QueuesNew

LEMMA TryPreferredMoves ==
  ASSUME TypeInv, NEW t \in Tasks, TryPreferred(t)
  PROVE  Moved
<1>1. TaskShape /\ RestTypes /\ at[t] = "preferred" /\ at[t] \in Busy
  BY DEF TypeInv, TryPreferred, Busy
<1>2. Cargo(t) \in Payloads
  BY <1>1, HoldShape
<1>3. QuicStep \/ UNCHANGED quicVars
  BY <1>2 DEF TryPreferred, QuicStep
<1>4. /\ \E s \in Busy : Step(t, s)
      /\ UNCHANGED <<relayVars, sends, carried, batch, pending, handed, returned>>
  BY DEF TryPreferred, Busy
<1>5. TaskShape' /\ UNCHANGED Hold
  BY <1>1, <1>4, StepKeeps
<1>6. RestTypes'
  BY <1>1, <1>4 DEF RestTypes
<1> QED
  BY <1>3, <1>4, <1>5, <1>6 DEF Moved, Moves, Stays

LEMMA FinishPreferredMoves ==
  ASSUME TypeInv, NEW t \in Tasks, FinishPreferred(t)
  PROVE  Moved
<1>1. TaskShape /\ RestTypes /\ at[t] = "payload" /\ at[t] \in Busy
  BY DEF TypeInv, FinishPreferred, Busy
<1>2. Cargo(t) \in Payloads /\ Hold[t] # << >> /\ Head(Hold[t]) = Cargo(t)
  BY <1>1, HoldShape
<1>3. UNCHANGED <<relayVars, sends, pending, returned>>
  BY DEF FinishPreferred
<1>4. CASE /\ QuicSendPayload(t, Cargo(t)) /\ handed' = Append(handed, <<"quic", Cargo(t)>>)
           /\ Unload(t)
  <2>1. TaskShape' /\ Hold' = [Hold EXCEPT ![t] = Tail(Hold[t])]
    BY <1>1, <1>4, UnloadHolds
  <2>2. "quic" \in Transports
    BY DEF Transports
  <2>3. RestTypes'
    BY <1>1, <1>2, <1>3, <1>4, <2>2, AppendEntry DEF RestTypes
  <2>4. Hands(t, "quic")
    BY <1>2, <1>3, <1>4, <2>1 DEF Hands
  <2> QED
    BY <1>2, <1>3, <1>4, <2>1, <2>2, <2>3, <2>4 DEF Moved, Moves, QuicStep
<1>5. CASE QuicSendFails(t) /\ Step(t, "fallback") /\ UNCHANGED <<carried, batch, handed>>
  <2>1. "fallback" \in Busy
    BY DEF Busy
  <2>2. TaskShape' /\ UNCHANGED Hold
    BY <1>1, <1>5, <2>1, StepKeeps
  <2>3. RestTypes'
    BY <1>1, <1>3, <1>5 DEF RestTypes
  <2> QED
    BY <1>3, <1>5, <2>2, <2>3 DEF Moved, Moves, Stays, QuicStep
<1> QED
  BY <1>4, <1>5 DEF FinishPreferred

LEMMA TryFallbackMoves ==
  ASSUME TypeInv, NEW t \in Tasks, TryFallback(t)
  PROVE  Moved
<1>1. TaskShape /\ RestTypes /\ at[t] = "fallback" /\ at[t] \in Busy
  BY DEF TypeInv, TryFallback, Busy
<1>2. Cargo(t) \in Payloads /\ Hold[t] # << >> /\ Head(Hold[t]) = Cargo(t)
  BY <1>1, HoldShape
<1>3. UNCHANGED <<quicVars, sends, pending, returned>>
  BY DEF TryFallback
<1>4. CASE /\ RelaySend(Cargo(t)) /\ handed' = Append(handed, <<"relay", Cargo(t)>>)
           /\ Unload(t)
  <2>1. TaskShape' /\ Hold' = [Hold EXCEPT ![t] = Tail(Hold[t])]
    BY <1>1, <1>4, UnloadHolds
  <2>2. "relay" \in Transports
    BY DEF Transports
  <2>3. RestTypes'
    BY <1>1, <1>2, <1>3, <1>4, <2>2, AppendEntry DEF RestTypes
  <2>4. Hands(t, "relay")
    BY <1>2, <1>3, <1>4, <2>1 DEF Hands
  <2> QED
    BY <1>2, <1>3, <1>4, <2>1, <2>2, <2>3, <2>4 DEF Moved, Moves, RelayStep
<1>5. CASE RelaySendFails /\ Step(t, "queue") /\ UNCHANGED <<carried, batch, handed>>
  <2>1. "queue" \in Busy
    BY DEF Busy
  <2>2. TaskShape' /\ UNCHANGED Hold
    BY <1>1, <1>5, <2>1, StepKeeps
  <2>3. RestTypes'
    BY <1>1, <1>3, <1>5 DEF RestTypes
  <2> QED
    BY <1>3, <1>5, <2>2, <2>3 DEF Moved, Moves, Stays, RelayStep
<1> QED
  BY <1>4, <1>5 DEF TryFallback

LEMMA EnqueueMoves ==
  ASSUME TypeInv, NEW t \in Tasks, Enqueue(t)
  PROVE  Moved
<1>1. TaskShape /\ RestTypes /\ at[t] = "queue" /\ at[t] \in Busy
  BY DEF TypeInv, Enqueue, Busy
<1>2. Cargo(t) \in Payloads /\ Hold[t] # << >> /\ Head(Hold[t]) = Cargo(t)
  BY <1>1, HoldShape
<1>3. /\ UNCHANGED <<quicVars, relayVars, sends, handed, returned>>
      /\ pending' = Append(pending, Cargo(t)) /\ Unload(t)
  BY DEF Enqueue
<1>4. TaskShape' /\ Hold' = [Hold EXCEPT ![t] = Tail(Hold[t])]
  BY <1>1, <1>3, UnloadHolds
<1>5. Append(pending, Cargo(t)) \in Seq(Payloads)
  BY <1>1, <1>2, AppendProperties DEF RestTypes
<1>6. RestTypes'
  BY <1>1, <1>3, <1>5 DEF RestTypes
<1>7. Requeues(t)
  BY <1>2, <1>3, <1>4 DEF Requeues
<1> QED
  BY <1>3, <1>4, <1>6, <1>7 DEF Moved, Moves

LEMMA DrainAllMoves ==
  ASSUME TypeInv, NEW t \in Tasks, DrainAll(t)
  PROVE  Moved
<1>1. TaskShape /\ RestTypes /\ at[t] = "idle" /\ pending # << >> /\ pending \in Seq(Payloads)
  BY DEF TypeInv, DrainAll, RestTypes
<1>2. /\ UNCHANGED <<quicVars, relayVars, sends, handed, returned>>
      /\ pending' = << >> /\ Load(t, pending)
  BY DEF DrainAll
<1>3. TaskShape' /\ Hold' = [Hold EXCEPT ![t] = pending]
  BY <1>1, <1>2, LoadHolds
<1>4. Hold[t] = << >>
  BY <1>1, HoldShape
<1>5. << >> \in Seq(Payloads)
  OBVIOUS
<1>6. RestTypes'
  BY <1>1, <1>2, <1>5 DEF RestTypes
<1>7. Drains(t)
  BY <1>2, <1>3, <1>4 DEF Drains
<1> QED
  BY <1>2, <1>3, <1>6, <1>7 DEF Moved, Moves

LEMMA AbortFlushMoves ==
  ASSUME TypeInv, NEW f \in FlushTasks, AbortFlush(f)
  PROVE  Moved
<1>1. f \in Tasks /\ TaskShape /\ RestTypes
  BY Constants DEF TypeInv
<1>2. /\ at[f] # "gone" /\ QuicSendAborted(f) /\ at' = [at EXCEPT ![f] = "gone"]
      /\ carried' = [carried EXCEPT ![f] = << >>] /\ batch' = [batch EXCEPT ![f] = << >>]
      /\ UNCHANGED <<relayVars, sends, pending, handed, returned>>
  BY DEF AbortFlush, Step
<1>3. /\ at \in [Tasks -> Busy \cup {"idle", "gone"}]
      /\ carried \in [Tasks -> Seq(Payloads)] /\ batch \in [Tasks -> Seq(Payloads)]
  BY <1>1 DEF TaskShape
<1>4. << >> \in Seq(Payloads) /\ Len(<< >>) = 0 /\ << >> \o << >> = << >>
  OBVIOUS
<1>5. /\ at' \in [Tasks -> Busy \cup {"idle", "gone"}]
      /\ carried' \in [Tasks -> Seq(Payloads)] /\ batch' \in [Tasks -> Seq(Payloads)]
  BY <1>2, <1>3, <1>4
<1>6. /\ at'[f] = "gone" /\ carried'[f] = << >> /\ batch'[f] = << >>
      /\ \A u \in Tasks : u # f => /\ at'[u] = at[u] /\ carried'[u] = carried[u]
                                   /\ batch'[u] = batch[u]
  BY <1>1, <1>2, <1>3
<1>7. TaskShape'
  <2>1. ASSUME NEW u \in Tasks
        PROVE  /\ Len(carried'[u]) = (IF at'[u] \in {"idle", "gone"} THEN 0 ELSE 1)
               /\ at'[u] \in {"idle", "gone"} => batch'[u] = << >>
    <3>1. CASE u = f
      BY <1>4, <1>6, <3>1
    <3>2. CASE u # f
      BY <1>1, <1>6, <3>2 DEF TaskShape, BatchShape
    <3> QED
      BY <3>1, <3>2
  <2> QED
    BY <1>5, <2>1 DEF TaskShape, BatchShape
<1>8. Hold' = [Hold EXCEPT ![f] = << >>]
  <2>1. ASSUME NEW u \in Tasks PROVE HeldBy(u)' = IF u = f THEN << >> ELSE HeldBy(u)
    <3>1. CASE u = f
      <4>1. carried'[u] \o batch'[u] = << >>
        BY <1>4, <1>6, <3>1
      <4> QED
        BY <3>1, <4>1 DEF HeldBy
    <3>2. CASE u # f
      <4>1. carried'[u] = carried[u] /\ batch'[u] = batch[u]
        BY <1>6, <3>2
      <4> QED
        BY <3>2, <4>1 DEF HeldBy
    <3> QED
      BY <3>1, <3>2
  <2>2. Hold' = [u \in Tasks |-> HeldBy(u)'] /\ Hold = [u \in Tasks |-> HeldBy(u)]
    BY DEF Hold
  <2> HIDE DEF HeldBy
  <2> QED
    BY <2>1, <2>2
<1>9. RestTypes'
  BY <1>1, <1>2 DEF RestTypes
<1>10. Drops(f)
  BY <1>2, <1>6, <1>8 DEF Drops
<1> QED
  BY <1>1, <1>2, <1>7, <1>9, <1>10 DEF Moved, Moves, QuicStep

\* The steps of the network and of the receiver leave the payloads to the tasks.
LEMMA OtherMoves ==
  ASSUME TypeInv, Setup \/ Network \/ Receiver
  PROVE  Moved /\ UNCHANGED <<taskVars, handed>>
<1>1. UNCHANGED <<taskVars, handed>>
  BY DEF Setup, Network, Receiver, Recv, RecvReadsPrefix, RecvFromPreferred,
         RecvFromFallback, RecvGivenUp, RecvFails
<1>2. /\ QuicStep \/ UNCHANGED quicVars
      /\ RelayStep \/ UNCHANGED relayVars
  <2>1. ASSUME Setup \/ Network
        PROVE  (QuicStep \/ UNCHANGED quicVars) /\ (RelayStep \/ UNCHANGED relayVars)
    BY <2>1 DEF Setup, Network, QuicStep, RelayStep
  <2>2. ASSUME Recv \/ RecvReadsPrefix \/ RecvFromPreferred \/ RecvFails
        PROVE  (QuicStep \/ UNCHANGED quicVars) /\ (RelayStep \/ UNCHANGED relayVars)
    BY <2>2 DEF Recv, RecvReadsPrefix, RecvFromPreferred, RecvFails, QuicStep
  <2>3. ASSUME RecvFromFallback \/ RecvGivenUp
        PROVE  (QuicStep \/ UNCHANGED quicVars) /\ (RelayStep \/ UNCHANGED relayVars)
    BY <2>3 DEF RecvFromFallback, RecvGivenUp, QuicStep, RelayStep
  <2> QED
    BY <2>1, <2>2, <2>3 DEF Receiver
<1>3. returned' \in Seq(Transports \X Payloads)
  <2>0. returned \in Seq(Transports \X Payloads) /\ "quic" \in Transports /\ "relay" \in Transports
    BY DEF TypeInv, RestTypes, Transports
  <2>1. \/ UNCHANGED returned
        \/ \E m \in Payloads : \/ returned' = Append(returned, <<"quic", m>>)
                               \/ returned' = Append(returned, <<"relay", m>>)
    BY DEF Setup, Network, Receiver, Recv, RecvReadsPrefix, RecvFromPreferred,
         RecvFromFallback, RecvGivenUp, RecvFails
  <2>2. ASSUME NEW m \in Payloads
        PROVE  /\ Append(returned, <<"quic", m>>) \in Seq(Transports \X Payloads)
               /\ Append(returned, <<"relay", m>>) \in Seq(Transports \X Payloads)
    BY <2>0, AppendEntry
  <2> QED
    BY <2>0, <2>1, <2>2
<1>4. TaskShape' /\ UNCHANGED Hold
  BY <1>1 DEF TypeInv, TaskShape, BatchShape, taskVars, Hold, HeldBy
<1>5. RestTypes'
  BY <1>1, <1>3 DEF TypeInv, RestTypes, taskVars
<1>6. Stays
  BY <1>1, <1>4 DEF Stays, taskVars
<1> QED
  BY <1>1, <1>2, <1>4, <1>5, <1>6 DEF Moved, Moves

LEMMA StepMoves ==
  ASSUME TypeInv, [Next]_vars
  PROVE  Moved
<1>1. CASE UNCHANGED vars
  <2>1. UNCHANGED <<quicVars, relayVars, taskVars, handed, returned>>
    BY <1>1 DEF vars
  <2>2. TaskShape' /\ RestTypes' /\ UNCHANGED Hold
    BY <2>1 DEF TypeInv, TaskShape, BatchShape, RestTypes, taskVars, Hold, HeldBy
  <2> QED
    BY <2>1, <2>2 DEF Moved, Moves, Stays, taskVars
<1>2. CASE Setup \/ Network \/ Receiver
  BY <1>2, OtherMoves
<1>3. ASSUME NEW c \in Callers, Send(c) \/ EnqueueByHand(c) PROVE Moved
  BY <1>3, SendMoves, EnqueueByHandMoves
<1>4. ASSUME NEW t \in Tasks, TaskStep(t) PROVE Moved
  BY <1>4, TryPreferredMoves, FinishPreferredMoves, TryFallbackMoves, EnqueueMoves,
     DrainAllMoves DEF TaskStep
<1>5. ASSUME NEW f \in FlushTasks, AbortFlush(f) PROVE Moved
  BY <1>5, AbortFlushMoves
<1> QED
  BY <1>1, <1>2, <1>3, <1>4, <1>5 DEF Next

LEMMA TypeInvStep ==
  ASSUME TypeInv, [Next]_vars
  PROVE  TypeInv'
<1>1. Moved
  BY StepMoves
<1>2. QuicTypeOK(Tasks)' /\ RelayTransportTypeOK'
  BY <1>1, QuicTypes, RelayTypes DEF Moved, TypeInv
<1> QED
  BY <1>1, <1>2 DEF Moved, TypeInv

-----------------------------------------------------------------------------
(* One holder for each payload *)

\* The payloads the transports have taken, in the order in which they did.
Went == [i \in DOMAIN handed |-> handed[i][2]]

LEMMA InjectiveAppend ==
  ASSUME NEW S, NEW s \in Seq(S), NEW e \in S, IsInjective(s), e \notin Elems(s)
  PROVE  IsInjective(Append(s, e))
<1> DEFINE r == Append(s, e)  n == Len(s)
<1>1. /\ r \in Seq(S) /\ Len(r) = n + 1 /\ n \in Nat
      /\ \A i \in 1..n : r[i] = s[i]
      /\ r[n + 1] = e
  BY AppendProperties, LenProperties
<1>2. DOMAIN r = 1..(n + 1) /\ DOMAIN s = 1..n
  BY <1>1, LenProperties
<1> HIDE DEF r, n
<1>3. \A i \in 1..(n + 1) : i \in 1..n \/ i = n + 1
  BY <1>1
<1>4. \A i \in 1..n : r[i] # e
  BY <1>1 DEF Elems, n
<1>5. \A i, j \in 1..n : s[i] = s[j] => i = j
  BY <1>2 DEF IsInjective
<1>6. ASSUME NEW i \in 1..(n + 1), NEW j \in 1..(n + 1), r[i] = r[j] PROVE i = j
  BY <1>1, <1>3, <1>4, <1>5, <1>6
<1>7. IsInjective(r)
  BY <1>2, <1>6 DEF IsInjective
<1> QED
  BY <1>7 DEF r

LEMMA InjectiveTail ==
  ASSUME NEW S, NEW s \in Seq(S), s # << >>, IsInjective(s)
  PROVE  IsInjective(Tail(s)) /\ Head(s) \notin Elems(Tail(s))
<1> DEFINE r == Tail(s)  n == Len(s)
<1>1. /\ r \in Seq(S) /\ Len(r) = n - 1 /\ n \in Nat /\ n # 0
      /\ \A i \in 1..(n - 1) : r[i] = s[i + 1]
  BY HeadTailProperties, LenProperties, EmptySeq
<1>2. DOMAIN r = 1..(n - 1) /\ DOMAIN s = 1..n
  BY <1>1, LenProperties
<1> HIDE DEF r, n
<1>3. \A i, j \in 1..n : s[i] = s[j] => i = j
  BY <1>2 DEF IsInjective
<1>4. \A i \in 1..(n - 1) : i + 1 \in 1..n /\ i + 1 # 1 /\ i \in Nat
  BY <1>1
<1>5. Head(s) = s[1] /\ 1 \in 1..n
  BY <1>1
<1>6. ASSUME NEW i \in 1..(n - 1), NEW j \in 1..(n - 1), r[i] = r[j] PROVE i = j
  <2>1. s[i + 1] = s[j + 1]
    BY <1>1, <1>6
  <2>2. i + 1 = j + 1
    BY <1>3, <1>4, <2>1
  <2> QED
    BY <1>4, <2>2
<1>7. IsInjective(r)
  BY <1>2, <1>6 DEF IsInjective
<1>8. ASSUME NEW i \in 1..(n - 1) PROVE r[i] # Head(s)
  BY <1>1, <1>3, <1>4, <1>5
<1>9. Head(s) \notin Elems(r)
  BY <1>1, <1>8 DEF Elems
<1> QED
  BY <1>7, <1>9 DEF r

LEMMA Singleton ==
  ASSUME NEW x
  PROVE  IsInjective(<<x>>) /\ Elems(<<x>>) = {x}
<1>1. Len(<<x>>) = 1 /\ DOMAIN <<x>> = {1} /\ <<x>>[1] = x /\ 1..1 = {1}
  OBVIOUS
<1> QED
  BY <1>1 DEF IsInjective, Elems

LEMMA Nothing == IsInjective(<< >>) /\ Elems(<< >>) = {}
  BY EmptyElems DEF IsInjective

\* H[t] is what task t holds, P the queue, W what the transports have, and n the
\* number of the newest payload: all are different.
Uniq(H, P, W, n) ==
  /\ IsInjective(P) /\ IsInjective(W)
  /\ \A t \in Tasks : IsInjective(H[t])
  /\ \A m \in Elems(P) : m <= n /\ m \notin Elems(W)
  /\ \A m \in Elems(W) : m <= n
  /\ \A t \in Tasks : \A m \in Elems(H[t]) :
       /\ m <= n /\ m \notin Elems(P) /\ m \notin Elems(W)
       /\ \A u \in Tasks : u # t => m \notin Elems(H[u])

\* What one task, the queue and the transports have among them may change hands.
Shared(h, P, W) == Elems(h) \cup Elems(P) \cup Elems(W)
Apart(h, P, W) ==
  /\ \A m \in Elems(h) : m \notin Elems(P) /\ m \notin Elems(W)
  /\ \A m \in Elems(P) : m \notin Elems(W)

LEMMA UniqStep ==
  ASSUME NEW H, NEW P, NEW W, NEW n \in Nat, Uniq(H, P, W, n),
         NEW H2, NEW P2, NEW W2, NEW n2 \in Nat, n <= n2,
         NEW t \in Tasks, \A u \in Tasks : u # t => H2[u] = H[u],
         \A u \in Tasks : Elems(H[u]) \subseteq Nat,
         IsInjective(H2[t]), IsInjective(P2), IsInjective(W2), Apart(H2[t], P2, W2),
         \A m \in Shared(H2[t], P2, W2) :
           m \in Nat /\ m <= n2 /\ (m \in Shared(H[t], P, W) \/ n < m)
  PROVE  Uniq(H2, P2, W2, n2)
<1>1. ASSUME NEW u \in Tasks, u # t, NEW m \in Elems(H2[u])
      PROVE  m \in Elems(H[u]) /\ m \in Nat /\ m <= n /\ m <= n2 /\ m \notin Shared(H[t], P, W)
  <2>1. m \in Elems(H[u]) /\ m \in Nat
    BY <1>1
  <2>2. m <= n /\ m \notin Elems(P) /\ m \notin Elems(W) /\ m \notin Elems(H[t])
    BY <1>1, <2>1 DEF Uniq
  <2>3. m <= n2
    BY <2>1, <2>2
  <2> QED
    BY <2>1, <2>2, <2>3 DEF Shared
<1>2. ASSUME NEW u \in Tasks, u # t, NEW m \in Elems(H2[u])
      PROVE  m \notin Elems(H2[t]) /\ m \notin Elems(P2) /\ m \notin Elems(W2)
  <2>1. m \in Nat /\ m <= n /\ m \notin Shared(H[t], P, W) /\ ~(n < m)
    BY <1>1, <1>2
  <2>2. m \notin Shared(H2[t], P2, W2)
    BY <2>1
  <2> QED
    BY <2>2 DEF Shared
<1>3. \A u \in Tasks : IsInjective(H2[u])
  BY DEF Uniq
<1>4. ASSUME NEW u \in Tasks, NEW m \in Elems(H2[u])
      PROVE  /\ m <= n2 /\ m \notin Elems(P2) /\ m \notin Elems(W2)
             /\ \A v \in Tasks : v # u => m \notin Elems(H2[v])
  <2>1. CASE u = t
    <3>1. m \in Shared(H2[t], P2, W2)
      BY <1>4, <2>1 DEF Shared
    <3>2. \A v \in Tasks : v # t => m \notin Elems(H2[v])
      BY <1>2, <1>4, <2>1
    <3> QED
      BY <1>4, <2>1, <3>1, <3>2 DEF Apart
  <2>2. CASE u # t
    <3>1. \A v \in Tasks : v # u /\ v # t => m \notin Elems(H2[v])
      BY <1>1, <1>4, <2>2 DEF Uniq
    <3> QED
      BY <1>1, <1>2, <1>4, <2>2, <3>1
  <2> QED
    BY <2>1, <2>2
<1>5. /\ \A m \in Elems(P2) : m <= n2 /\ m \notin Elems(W2)
      /\ \A m \in Elems(W2) : m <= n2
  BY DEF Apart, Shared
<1> QED
  BY <1>3, <1>4, <1>5 DEF Uniq

OneInv == Uniq(Hold, pending, Went, sends)

LEMMA WentType ==
  ASSUME RestTypes
  PROVE  Went \in Seq(Payloads) /\ Elems(Went) = Taken /\ DOMAIN Went = DOMAIN handed
<1> DEFINE E(i) == handed[i][2]  n == Len(handed)
<1>1. /\ n \in Nat /\ DOMAIN handed = 1..n
      /\ \A i \in 1..n : handed[i] \in Transports \X Payloads
  BY LenProperties, ElementOfSeq DEF RestTypes
<1>2. \A i \in 1..n : E(i) \in Payloads
  BY <1>1
<1>3. Went = [i \in 1..n |-> E(i)]
  BY <1>1 DEF Went
<1>4. Taken = {E(i) : i \in 1..n}
  BY <1>1 DEF Taken
<1>a. \A i \in 1..n : Went[i] = E(i)
  BY <1>3
<1> HIDE DEF E
<1>5. Went \in Seq(Payloads)
  BY <1>1, <1>2, <1>3, IsASeq
<1>6. Len(Went) = n /\ DOMAIN Went = 1..n
  BY <1>1, <1>3, <1>5, LenProperties
<1>7. Elems(Went) = Taken
  BY <1>4, <1>6, <1>a DEF Elems
<1> QED
  BY <1>1, <1>5, <1>6, <1>7

LEMMA WentAppend ==
  ASSUME RestTypes, RestTypes', NEW tr, NEW m, handed' = Append(handed, <<tr, m>>),
         tr \in Transports, m \in Payloads
  PROVE  Went' = Append(Went, m)
<1> DEFINE n == Len(handed)  w == Went'  v == Append(Went, m)
<1>1. /\ n \in Nat /\ Len(handed') = n + 1 /\ handed'[n + 1] = <<tr, m>>
      /\ \A i \in 1..n : handed'[i] = handed[i]
  BY AppendProperties, LenProperties DEF RestTypes
<1>2. DOMAIN handed = 1..n /\ DOMAIN handed' = 1..(n + 1)
  BY <1>1, LenProperties DEF RestTypes
<1>3. Went \in Seq(Payloads) /\ DOMAIN Went = 1..n /\ Len(Went) = n
  BY <1>1, <1>2, WentType, LenProperties
<1>4. w \in Seq(Payloads) /\ DOMAIN w = 1..(n + 1)
  <2>1. (Went \in Seq(Payloads) /\ DOMAIN Went = DOMAIN handed)'
    BY WentType, PTL
  <2> QED
    BY <1>2, <2>1
<1>5. Len(w) = n + 1
  BY <1>1, <1>4, LenProperties
<1>6. /\ v \in Seq(Payloads) /\ Len(v) = n + 1 /\ v[n + 1] = m
      /\ \A i \in 1..n : v[i] = Went[i]
  BY <1>3, AppendProperties
<1>7. \A i \in 1..n : Went[i] = handed[i][2]
  BY <1>2 DEF Went
<1>8. \A i \in 1..(n + 1) : w[i] = handed'[i][2]
  BY <1>2 DEF Went
<1> HIDE DEF v, w, n
<1>9. \A i \in 1..(n + 1) : i \in 1..n \/ i = n + 1
  BY <1>1 DEF n
<1>10. n + 1 \in 1..(n + 1) /\ \A i \in 1..n : i \in 1..(n + 1)
  BY <1>1 DEF n
<1>11. \A i \in 1..Len(w) : w[i] = v[i]
  BY <1>1, <1>5, <1>6, <1>7, <1>8, <1>9, <1>10
<1>12. w = v
  BY <1>4, <1>5, <1>6, <1>11, SeqEqual
<1> QED
  BY <1>12 DEF w, v

\* The sorts of what OneInv speaks of.
LEMMA HeldTypes ==
  ASSUME TaskShape, RestTypes
  PROVE  /\ sends \in Nat /\ pending \in Seq(Payloads) /\ Went \in Seq(Payloads)
         /\ \A t \in Tasks : Hold[t] \in Seq(Payloads) /\ Elems(Hold[t]) \subseteq Nat
         /\ Elems(pending) \subseteq Nat /\ Elems(Went) \subseteq Nat
         /\ \A m \in Payloads : m \in Nat
<1>1. \A m \in Payloads : m \in Nat
  BY Constants DEF Payloads
<1>2. sends \in Nat /\ pending \in Seq(Payloads) /\ Went \in Seq(Payloads)
  BY Constants, WentType DEF RestTypes
<1>3. ASSUME NEW s \in Seq(Payloads) PROVE Elems(s) \subseteq Nat
  BY <1>1, LenProperties, ElementOfSeq DEF Elems
<1>4. \A t \in Tasks : Hold[t] \in Seq(Payloads)
  BY HoldShape
<1> QED
  BY <1>1, <1>2, <1>3, <1>4

LEMMA OneTakesNew ==
  ASSUME TaskShape, RestTypes, OneInv, NEW t \in Tasks, TakesNew(t)
  PROVE  OneInv'
<1> DEFINE H == Hold  P == pending  W == Went  n == sends
           h == <<n + 1>>  H2 == [Hold EXCEPT ![t] = h]
<1>1. /\ n \in Nat /\ Uniq(H, P, W, n) /\ H[t] = << >>
      /\ \A u \in Tasks : Elems(H[u]) \subseteq Nat
      /\ Elems(P) \subseteq Nat /\ Elems(W) \subseteq Nat
  BY HeldTypes DEF OneInv, TakesNew
<1>2. H2[t] = h /\ \A u \in Tasks : u # t => H2[u] = H[u]
  BY DEF Hold
<1>3. IsInjective(h) /\ Elems(h) = {n + 1}
  BY Singleton
<1>4. Hold' = H2 /\ pending' = P /\ Went' = W /\ sends' = n + 1
  BY DEF TakesNew, Went
<1> HIDE DEF H, P, W, n, h, H2
<1>5. IsInjective(P) /\ IsInjective(W)
      /\ (\A m \in Elems(P) : m <= n /\ m \notin Elems(W)) /\ (\A m \in Elems(W) : m <= n)
  BY <1>1 DEF Uniq
<1>6. Apart(h, P, W)
  <2>1. n + 1 \notin Elems(P) /\ n + 1 \notin Elems(W)
    BY <1>1, <1>5
  <2> QED
    BY <1>3, <1>5, <2>1 DEF Apart
<1>7. ASSUME NEW m \in Shared(h, P, W)
      PROVE  m \in Nat /\ m <= n + 1 /\ (m \in Shared(H[t], P, W) \/ n < m)
  <2>1. CASE m = n + 1
    BY <1>1, <2>1
  <2>2. CASE m \in Elems(P) \/ m \in Elems(W)
    <3>1. m \in Nat /\ m <= n
      BY <1>1, <1>5, <2>2
    <3> QED
      BY <1>1, <2>2, <3>1 DEF Shared
  <2> QED
    BY <1>3, <1>7, <2>1, <2>2 DEF Shared
<1>8. n + 1 \in Nat /\ n <= n + 1
  BY <1>1
<1>9. Uniq(H2, P, W, n + 1)
  BY <1>1, <1>2, <1>3, <1>5, <1>6, <1>7, <1>8, UniqStep
<1> QED
  BY <1>4, <1>9 DEF OneInv

LEMMA OneQueuesNew ==
  ASSUME TaskShape, RestTypes, OneInv, NEW t \in Tasks, QueuesNew
  PROVE  OneInv'
<1> DEFINE H == Hold  P == pending  W == Went  n == sends  P2 == Append(pending, sends + 1)
<1>1. /\ n \in Nat /\ Uniq(H, P, W, n) /\ P \in Seq(Payloads)
      /\ \A u \in Tasks : Elems(H[u]) \subseteq Nat
      /\ Elems(P) \subseteq Nat /\ Elems(W) \subseteq Nat
  BY HeldTypes DEF OneInv
<1>2. n + 1 \in Payloads
  BY NumberIsPayload DEF QueuesNew
<1>3. Hold' = H /\ pending' = P2 /\ Went' = W /\ sends' = n + 1
  BY DEF QueuesNew, Went
<1>4. /\ IsInjective(P) /\ IsInjective(W) /\ IsInjective(H[t])
      /\ (\A m \in Elems(P) : m <= n /\ m \notin Elems(W)) /\ (\A m \in Elems(W) : m <= n)
      /\ (\A m \in Elems(H[t]) : m <= n /\ m \notin Elems(P) /\ m \notin Elems(W))
  BY <1>1 DEF Uniq
<1>5. /\ n + 1 \notin Elems(P) /\ n + 1 \notin Elems(W) /\ n + 1 \notin Elems(H[t])
      /\ n + 1 \in Nat /\ n <= n + 1
  BY <1>1, <1>4
<1>6. IsInjective(P2) /\ Elems(P2) = Elems(P) \cup {n + 1}
  BY <1>1, <1>2, <1>4, <1>5, InjectiveAppend, AppendElems
<1> HIDE DEF H, P, W, n, P2
<1>7. Apart(H[t], P2, W)
  BY <1>4, <1>5, <1>6 DEF Apart
<1>8. ASSUME NEW m \in Shared(H[t], P2, W)
      PROVE  m \in Nat /\ m <= n + 1 /\ (m \in Shared(H[t], P, W) \/ n < m)
  <2>1. CASE m = n + 1
    BY <1>1, <2>1
  <2>2. CASE m \in Elems(P) \/ m \in Elems(W) \/ m \in Elems(H[t])
    <3>1. m \in Nat /\ m <= n
      BY <1>1, <1>4, <2>2
    <3> QED
      BY <1>1, <2>2, <3>1 DEF Shared
  <2> QED
    BY <1>6, <1>8, <2>1, <2>2 DEF Shared
<1>9. Uniq(H, P2, W, n + 1)
  BY <1>1, <1>4, <1>5, <1>6, <1>7, <1>8, UniqStep
<1> QED
  BY <1>3, <1>9 DEF OneInv

LEMMA OneHands ==
  ASSUME TaskShape, RestTypes, RestTypes', OneInv, NEW t \in Tasks, NEW tr \in Transports,
         Hands(t, tr)
  PROVE  OneInv'
<1> DEFINE H == Hold  P == pending  W == Went  n == sends  g == Hold[t]
           h == Tail(g)  e == Head(g)  W2 == Append(W, e)  H2 == [Hold EXCEPT ![t] = h]
<1>1. /\ n \in Nat /\ Uniq(H, P, W, n) /\ W \in Seq(Payloads)
      /\ \A u \in Tasks : Elems(H[u]) \subseteq Nat
      /\ Elems(P) \subseteq Nat /\ Elems(W) \subseteq Nat
      /\ g \in Seq(Payloads) /\ g # << >> /\ g = H[t]
  BY HeldTypes DEF OneInv, Hands
<1>2. H2[t] = h /\ \A u \in Tasks : u # t => H2[u] = H[u]
  BY DEF Hold
<1>3. e \in Payloads
  BY <1>1, HeadTailProperties
<1>4. Hold' = H2 /\ pending' = P /\ Went' = W2 /\ sends' = n
  <2>1. handed' = Append(handed, <<tr, e>>) /\ Hold' = H2 /\ pending' = P /\ sends' = n
    BY DEF Hands
  <2> HIDE DEF e
  <2>2. Went' = Append(Went, e)
    BY <1>3, <2>1, WentAppend
  <2> QED
    BY <2>1, <2>2
<1>5. /\ IsInjective(P) /\ IsInjective(W) /\ IsInjective(g)
      /\ (\A m \in Elems(P) : m <= n /\ m \notin Elems(W)) /\ (\A m \in Elems(W) : m <= n)
      /\ (\A m \in Elems(g) : m <= n /\ m \notin Elems(P) /\ m \notin Elems(W))
  BY <1>1 DEF Uniq
<1> HIDE DEF g
<1>6. IsInjective(h) /\ e \notin Elems(h) /\ Elems(g) = {e} \cup Elems(h)
  BY <1>1, <1>5, InjectiveTail, TailElems
<1> HIDE DEF H, P, W, n, h, e
<1>7. IsInjective(W2) /\ Elems(W2) = Elems(W) \cup {e}
  <2>1. e \notin Elems(W)
    BY <1>5, <1>6
  <2> QED
    BY <1>1, <1>3, <1>5, <2>1, InjectiveAppend, AppendElems
<1> HIDE DEF H2, W2
<1>8. Apart(h, P, W2)
  BY <1>5, <1>6, <1>7 DEF Apart
<1>9. ASSUME NEW m \in Shared(h, P, W2)
      PROVE  m \in Nat /\ m <= n /\ (m \in Shared(H[t], P, W) \/ n < m)
  <2>1. m \in Elems(g) \/ m \in Elems(P) \/ m \in Elems(W)
    BY <1>6, <1>7, <1>9 DEF Shared
  <2> QED
    BY <1>1, <1>5, <2>1 DEF Shared
<1>10. n <= n
  BY <1>1
<1>11. Uniq(H2, P, W2, n)
  BY <1>1, <1>2, <1>5, <1>6, <1>7, <1>8, <1>9, <1>10, UniqStep
<1> QED
  BY <1>4, <1>11 DEF OneInv

LEMMA OneRequeues ==
  ASSUME TaskShape, RestTypes, OneInv, NEW t \in Tasks, Requeues(t)
  PROVE  OneInv'
<1> DEFINE H == Hold  P == pending  W == Went  n == sends  g == Hold[t]
           h == Tail(g)  e == Head(g)  P2 == Append(P, e)  H2 == [Hold EXCEPT ![t] = h]
<1>1. /\ n \in Nat /\ Uniq(H, P, W, n) /\ P \in Seq(Payloads)
      /\ \A u \in Tasks : Elems(H[u]) \subseteq Nat
      /\ Elems(P) \subseteq Nat /\ Elems(W) \subseteq Nat
      /\ g \in Seq(Payloads) /\ g # << >> /\ g = H[t]
  BY HeldTypes DEF OneInv, Requeues
<1>2. H2[t] = h /\ \A u \in Tasks : u # t => H2[u] = H[u]
  BY DEF Hold
<1>3. e \in Payloads
  BY <1>1, HeadTailProperties
<1>4. Hold' = H2 /\ pending' = P2 /\ Went' = W /\ sends' = n
  BY DEF Requeues, Went
<1>5. /\ IsInjective(P) /\ IsInjective(W) /\ IsInjective(g)
      /\ (\A m \in Elems(P) : m <= n /\ m \notin Elems(W)) /\ (\A m \in Elems(W) : m <= n)
      /\ (\A m \in Elems(g) : m <= n /\ m \notin Elems(P) /\ m \notin Elems(W))
  BY <1>1 DEF Uniq
<1> HIDE DEF g
<1>6. IsInjective(h) /\ e \notin Elems(h) /\ Elems(g) = {e} \cup Elems(h)
  BY <1>1, <1>5, InjectiveTail, TailElems
<1> HIDE DEF H, P, W, n, h, e
<1>7. IsInjective(P2) /\ Elems(P2) = Elems(P) \cup {e}
  <2>1. e \notin Elems(P)
    BY <1>5, <1>6
  <2> QED
    BY <1>1, <1>3, <1>5, <2>1, InjectiveAppend, AppendElems
<1> HIDE DEF H2, P2
<1>8. Apart(h, P2, W)
  BY <1>5, <1>6, <1>7 DEF Apart
<1>9. ASSUME NEW m \in Shared(h, P2, W)
      PROVE  m \in Nat /\ m <= n /\ (m \in Shared(H[t], P, W) \/ n < m)
  <2>1. m \in Elems(g) \/ m \in Elems(P) \/ m \in Elems(W)
    BY <1>6, <1>7, <1>9 DEF Shared
  <2> QED
    BY <1>1, <1>5, <2>1 DEF Shared
<1>10. n <= n
  BY <1>1
<1>11. Uniq(H2, P2, W, n)
  BY <1>1, <1>2, <1>5, <1>6, <1>7, <1>8, <1>9, <1>10, UniqStep
<1> QED
  BY <1>4, <1>11 DEF OneInv

LEMMA OneDrains ==
  ASSUME TaskShape, RestTypes, OneInv, NEW t \in Tasks, Drains(t)
  PROVE  OneInv'
<1> DEFINE H == Hold  P == pending  W == Went  n == sends  P2 == << >>
           H2 == [Hold EXCEPT ![t] = P]
<1>1. /\ n \in Nat /\ Uniq(H, P, W, n)
      /\ \A u \in Tasks : Elems(H[u]) \subseteq Nat
      /\ Elems(P) \subseteq Nat /\ Elems(W) \subseteq Nat
  BY HeldTypes DEF OneInv
<1>2. H2[t] = P /\ \A u \in Tasks : u # t => H2[u] = H[u]
  BY DEF Hold
<1>3. Hold' = H2 /\ pending' = P2 /\ Went' = W /\ sends' = n
  BY DEF Drains, Went
<1>4. IsInjective(P2) /\ Elems(P2) = {}
  BY Nothing
<1> HIDE DEF H, P, W, n, P2, H2
<1>5. /\ IsInjective(P) /\ IsInjective(W)
      /\ (\A m \in Elems(P) : m <= n /\ m \notin Elems(W)) /\ (\A m \in Elems(W) : m <= n)
  BY <1>1 DEF Uniq
<1>6. Apart(P, P2, W)
  BY <1>4, <1>5 DEF Apart
<1>7. ASSUME NEW m \in Shared(P, P2, W)
      PROVE  m \in Nat /\ m <= n /\ (m \in Shared(H[t], P, W) \/ n < m)
  <2>1. m \in Elems(P) \/ m \in Elems(W)
    BY <1>4, <1>7 DEF Shared
  <2> QED
    BY <1>1, <1>5, <2>1 DEF Shared
<1>8. n <= n
  BY <1>1
<1>9. Uniq(H2, P2, W, n)
  BY <1>1, <1>2, <1>4, <1>5, <1>6, <1>7, <1>8, UniqStep
<1> QED
  BY <1>3, <1>9 DEF OneInv

LEMMA OneDrops ==
  ASSUME TaskShape, RestTypes, OneInv, NEW t \in Tasks, Drops(t)
  PROVE  OneInv'
<1> DEFINE H == Hold  P == pending  W == Went  n == sends  h == << >>
           H2 == [Hold EXCEPT ![t] = h]
<1>1. /\ n \in Nat /\ Uniq(H, P, W, n)
      /\ \A u \in Tasks : Elems(H[u]) \subseteq Nat
      /\ Elems(P) \subseteq Nat /\ Elems(W) \subseteq Nat
  BY HeldTypes DEF OneInv
<1>2. H2[t] = h /\ \A u \in Tasks : u # t => H2[u] = H[u]
  BY DEF Hold
<1>3. Hold' = H2 /\ pending' = P /\ Went' = W /\ sends' = n
  BY DEF Drops, Went
<1>4. IsInjective(h) /\ Elems(h) = {}
  BY Nothing
<1> HIDE DEF H, P, W, n, h, H2
<1>5. /\ IsInjective(P) /\ IsInjective(W)
      /\ (\A m \in Elems(P) : m <= n /\ m \notin Elems(W)) /\ (\A m \in Elems(W) : m <= n)
  BY <1>1 DEF Uniq
<1>6. Apart(h, P, W)
  BY <1>4, <1>5 DEF Apart
<1>7. ASSUME NEW m \in Shared(h, P, W)
      PROVE  m \in Nat /\ m <= n /\ (m \in Shared(H[t], P, W) \/ n < m)
  <2>1. m \in Elems(P) \/ m \in Elems(W)
    BY <1>4, <1>7 DEF Shared
  <2> QED
    BY <1>1, <1>5, <2>1 DEF Shared
<1>8. n <= n
  BY <1>1
<1>9. Uniq(H2, P, W, n)
  BY <1>1, <1>2, <1>4, <1>5, <1>6, <1>7, <1>8, UniqStep
<1> QED
  BY <1>3, <1>9 DEF OneInv

LEMMA OneInvStep ==
  ASSUME TaskShape, RestTypes, RestTypes', OneInv, Moves
  PROVE  OneInv'
<1>1. CASE Stays
  BY <1>1 DEF Stays, OneInv, Went
<1>2. ASSUME NEW f \in FlushTasks, Drops(f) PROVE OneInv'
  BY <1>2, Constants, OneDrops
<1> QED
  BY <1>1, <1>2, OneTakesNew, OneQueuesNew, OneHands, OneRequeues, OneDrains DEF Moves

LEMMA OneInvIsOneHolder ==
  ASSUME TaskShape, RestTypes, OneInv
  PROVE  OneHolder
<1>1. \A t \in Tasks : ToSet(HeldBy(t)) = Elems(Hold[t]) /\ HeldBy(t) = Hold[t]
  <2> SUFFICES ASSUME NEW t \in Tasks PROVE ToSet(Hold[t]) = Elems(Hold[t]) /\ HeldBy(t) = Hold[t]
    BY DEF Hold
  <2>1. DOMAIN Hold[t] = 1..Len(Hold[t])
    BY HoldShape, LenProperties
  <2> QED
    BY <2>1 DEF ToSet, Elems, Hold
<1>2. ToSet(pending) = Elems(pending)
  BY LenProperties DEF RestTypes, ToSet, Elems
<1>3. Elems(Went) = Taken /\ DOMAIN Went = DOMAIN handed
  BY WentType
<1>4. \A i \in DOMAIN handed : Went[i] = handed[i][2]
  BY DEF Went
<1>5. IsInjective(pending) /\ \A i, j \in DOMAIN handed : handed[i][2] = handed[j][2] => i = j
  BY <1>3, <1>4 DEF OneInv, Uniq, IsInjective
<1>6. Taken \cap Held = {}
  <2>1. ASSUME NEW m \in Taken, m \in Held PROVE FALSE
    <3>1. m \in Elems(Went)
      BY <1>3
    <3>2. m \in Elems(pending) \/ \E t \in Tasks : m \in Elems(Hold[t])
      BY <1>1, <1>2, <2>1 DEF Held
    <3> QED
      BY <3>1, <3>2 DEF OneInv, Uniq
  <2> QED
    BY <2>1
<1>7. ASSUME NEW t \in Tasks
      PROVE  /\ IsInjective(HeldBy(t)) /\ ToSet(HeldBy(t)) \cap ToSet(pending) = {}
             /\ \A u \in Tasks \ {t} : ToSet(HeldBy(t)) \cap ToSet(HeldBy(u)) = {}
  <2>1. IsInjective(Hold[t])
    BY DEF OneInv, Uniq
  <2>2. Elems(Hold[t]) \cap Elems(pending) = {}
    BY DEF OneInv, Uniq
  <2>3. \A u \in Tasks \ {t} : Elems(Hold[t]) \cap Elems(Hold[u]) = {}
    BY DEF OneInv, Uniq
  <2> QED
    BY <1>1, <1>2, <2>1, <2>2, <2>3
<1> QED
  BY <1>5, <1>6, <1>7 DEF OneHolder

LEMMA HeldElems ==
  ASSUME TaskShape, RestTypes, NEW m
  PROVE  m \in Held <=> m \in Elems(pending) \/ \E t \in Tasks : m \in Elems(Hold[t])
<1>1. \A t \in Tasks : ToSet(HeldBy(t)) = Elems(Hold[t])
  <2> SUFFICES ASSUME NEW t \in Tasks PROVE ToSet(Hold[t]) = Elems(Hold[t])
    BY DEF Hold
  <2>1. DOMAIN Hold[t] = 1..Len(Hold[t])
    BY HoldShape, LenProperties
  <2> QED
    BY <2>1 DEF ToSet, Elems
<1>2. ToSet(pending) = Elems(pending)
  BY LenProperties DEF RestTypes, ToSet, Elems
<1> QED
  BY <1>1, <1>2 DEF Held

\* A payload that nobody holds any more was handed to a transport, or went with the
\* flush task that held it.
LEMMA HeldLeaves ==
  ASSUME TaskShape, RestTypes, TaskShape', RestTypes', Moves, NEW m \in Held, m \notin Held'
  PROVE  m \in Taken' \/ \E f \in FlushTasks : at[f] # "gone" /\ at'[f] = "gone"
<1>1. m \in Elems(pending) \/ \E t \in Tasks : m \in Elems(Hold[t])
  BY HeldElems
<1>2. m \notin Elems(pending') /\ \A t \in Tasks : m \notin Elems(Hold'[t])
  <2>1. (m \in Held <=> m \in Elems(pending) \/ \E t \in Tasks : m \in Elems(Hold[t]))'
    BY HeldElems, PTL
  <2> QED
    BY <2>1
<1>3. CASE Stays
  BY <1>1, <1>2, <1>3 DEF Stays
<1>4. ASSUME NEW t \in Tasks, Hold[t] = << >>, \A u \in Tasks : u # t => Hold'[u] = Hold[u],
             m \in Elems(pending) => m \in Elems(pending') \/ m \in Elems(Hold'[t])
      PROVE  FALSE
  <2>1. m \notin Elems(Hold[t])
    BY <1>4, EmptyElems
  <2> QED
    BY <1>1, <1>2, <1>4, <2>1
<1>5. ASSUME NEW t \in Tasks, TakesNew(t) \/ Drains(t) PROVE FALSE
  <2>1. Hold[t] = << >> /\ (\A u \in Tasks : u # t => Hold'[u] = Hold[u])
    BY <1>5 DEF TakesNew, Drains, Hold
  <2>2. pending' = pending \/ Hold'[t] = pending
    BY <1>5 DEF TakesNew, Drains, Hold
  <2> QED
    BY <1>4, <2>1, <2>2
<1>6. CASE QueuesNew
  <2>1. sends + 1 \in Payloads /\ pending \in Seq(Payloads)
    BY <1>6, NumberIsPayload DEF QueuesNew, RestTypes
  <2>2. Elems(Append(pending, sends + 1)) = Elems(pending) \cup {sends + 1}
    BY <2>1, AppendElems
  <2>3. pending' = Append(pending, sends + 1) /\ Hold' = Hold
    BY <1>6 DEF QueuesNew
  <2> QED
    BY <1>1, <1>2, <2>2, <2>3
<1>7. ASSUME NEW t \in Tasks, Hold[t] # << >>, Hold' = [Hold EXCEPT ![t] = Tail(Hold[t])],
             m \in Elems(pending) => m \in Elems(pending')
      PROVE  m = Head(Hold[t]) /\ m \in Payloads
  <2>1. /\ Head(Hold[t]) \in Payloads
        /\ Elems(Hold[t]) = {Head(Hold[t])} \cup Elems(Tail(Hold[t]))
    BY <1>7, HoldShape, TailElems
  <2>2. Hold'[t] = Tail(Hold[t]) /\ \A u \in Tasks : u # t => Hold'[u] = Hold[u]
    BY <1>7 DEF Hold
  <2> QED
    BY <1>1, <1>2, <1>7, <2>1, <2>2
<1>8. ASSUME NEW t \in Tasks, Requeues(t) PROVE FALSE
  <2> DEFINE e == Head(Hold[t])
  <2>1. /\ Hold[t] # << >> /\ Hold' = [Hold EXCEPT ![t] = Tail(Hold[t])]
        /\ pending' = Append(pending, e)
    BY <1>8 DEF Requeues
  <2>2. e \in Payloads /\ pending \in Seq(Payloads)
    BY <2>1, HoldShape, HeadTailProperties DEF RestTypes
  <2> HIDE DEF e
  <2>3. Elems(pending') = Elems(pending) \cup {e}
    BY <2>1, <2>2, AppendElems
  <2>4. m = e
    BY <1>7, <2>1, <2>3 DEF e
  <2> QED
    BY <1>2, <2>3, <2>4
<1>9. ASSUME NEW t \in Tasks, NEW tr \in Transports, Hands(t, tr) PROVE m \in Taken'
  <2>1. /\ Hold[t] # << >> /\ Hold' = [Hold EXCEPT ![t] = Tail(Hold[t])]
        /\ pending' = pending /\ handed' = Append(handed, <<tr, Head(Hold[t])>>)
    BY <1>9 DEF Hands
  <2>2. m = Head(Hold[t]) /\ m \in Payloads
    BY <1>7, <2>1
  <2>3. Went' = Append(Went, m)
    BY <2>1, <2>2, WentAppend
  <2>4. Elems(Append(Went, m)) = Elems(Went) \cup {m}
    BY <2>2, WentType, AppendElems
  <2>5. (Elems(Went) = Taken)'
    BY WentType, PTL
  <2> QED
    BY <2>3, <2>4, <2>5
<1>10. ASSUME NEW f \in FlushTasks, Drops(f)
       PROVE  \E g \in FlushTasks : at[g] # "gone" /\ at'[g] = "gone"
  BY <1>10 DEF Drops
<1> QED
  BY <1>3, <1>5, <1>6, <1>8, <1>9, <1>10 DEF Moves

-----------------------------------------------------------------------------

LEMMA TypeInvInit ==
  ASSUME Init
  PROVE  TypeInv /\ OneInv
<1> DEFINE e == << >>
<1>1. e \in Seq(Payloads) /\ e \in Seq(RelayPayloads) /\ e \in Seq(Chunk)
      /\ e \in Seq(Transports \X Payloads) /\ Len(e) = 0 /\ e \o e = e
  OBVIOUS
<1>2. IsInjective(e) /\ Elems(e) = {} /\ DOMAIN e = {}
  BY Nothing
<1> HIDE DEF e
<1>3. /\ QuicInit /\ RelayTransportInit /\ sends = 0
      /\ at = [t \in Tasks |-> "idle"] /\ carried = [t \in Tasks |-> e]
      /\ batch = [t \in Tasks |-> e] /\ pending = e /\ handed = e /\ returned = e
  BY DEF Init, e
<1>4. QuicTypeOK(Tasks)
  BY <1>1, <1>3 DEF QuicInit, QuicTypeOK, e
<1>5. RelayTransportTypeOK
  <2>1. relayed = {} /\ arrived = e /\ incoming = e
    BY <1>3 DEF RelayTransportInit, e
  <2>2. 0 <= ChannelCap
    BY Constants
  <2> QED
    BY <1>1, <1>3, <2>1, <2>2 DEF RelayTransportInit, RelayTransportTypeOK
<1>6. TaskShape
  <2>1. \A t \in Tasks : at[t] = "idle" /\ carried[t] = e /\ batch[t] = e
    BY <1>3
  <2>2. batch = [t \in Tasks |-> batch[t]] /\ \A t \in Tasks : batch[t] = << >>
    BY <1>3, <2>1 DEF e
  <2> QED
    BY <1>1, <1>3, <2>1, <2>2 DEF TaskShape, BatchShape
<1>7. RestTypes
  BY <1>1, <1>3, Constants DEF RestTypes
<1>8. Hold = [t \in Tasks |-> e]
  BY <1>1, <1>3 DEF Hold, HeldBy
<1>9. Went = e
  <2>1. Elems(Went) = Taken /\ Went \in Seq(Payloads) /\ DOMAIN Went = DOMAIN handed
    BY <1>7, WentType
  <2>2. Len(Went) = 0
    BY <1>2, <1>3, <2>1, LenProperties
  <2> QED
    BY <2>1, <2>2, EmptySeq DEF e
<1>10. \A t \in Tasks : Hold[t] = e
  BY <1>8
<1>11. OneInv
  BY <1>2, <1>3, <1>9, <1>10 DEF OneInv, Uniq
<1> QED
  BY <1>4, <1>5, <1>6, <1>7, <1>11 DEF TypeInv

LEMMA OneHolds == Spec => [](TypeInv /\ OneInv)
<1>1. TypeInv /\ OneInv /\ [Next]_vars => (TypeInv /\ OneInv)'
  <2> SUFFICES ASSUME TypeInv, OneInv, [Next]_vars PROVE TypeInv' /\ OneInv'
    OBVIOUS
  <2>1. TypeInv' /\ Moved
    BY TypeInvStep, StepMoves
  <2> QED
    BY <2>1, OneInvStep DEF TypeInv, Moved
<1> QED
  BY <1>1, TypeInvInit, PTL DEF Spec

\* Every variable of the transports, the tasks and the queue keeps its type.
THEOREM HybridTypeCorrect == Spec => []TypeOK
<1>1. TypeInv => TypeOK
  BY TypeInvIsTypeOK
<1> QED
  BY <1>1, OneHolds, PTL

\* send, flush_pending: a payload is in the queue, with one task or with one transport,
\* and who lets go of it has handed it on, unless it is a flush task that is aborted.
THEOREM HybridHeldUntilHanded == Spec => HeldUntilHanded
<1> DEFINE A == /\ OneHolder'
                /\ \A m \in Held \ Held' :
                     m \in Taken' \/ \E f \in FlushTasks : at[f] # "gone" /\ at'[f] = "gone"
<1>1. ASSUME TypeInv, OneInv, [Next]_vars PROVE A
  <2>1. TypeInv' /\ Moved
    BY <1>1, TypeInvStep, StepMoves
  <2>2. OneInv'
    BY <1>1, <2>1, OneInvStep DEF TypeInv, Moved
  <2>3. OneHolder'
    <3>1. (TaskShape /\ RestTypes /\ OneInv)'
      BY <2>1, <2>2 DEF TypeInv
    <3> QED
      BY <3>1, OneInvIsOneHolder, PTL
  <2>4. \A m \in Held \ Held' :
          m \in Taken' \/ \E f \in FlushTasks : at[f] # "gone" /\ at'[f] = "gone"
    BY <1>1, <2>1, HeldLeaves DEF TypeInv, Moved
  <2> QED
    BY <2>3, <2>4
<1>2. TypeInv /\ OneInv /\ [Next]_vars => [A]_vars
  BY <1>1
<1>3. Spec => [][A]_vars
  BY <1>2, OneHolds, PTL DEF Spec
<1> QED
  BY <1>3 DEF HeldUntilHanded

-----------------------------------------------------------------------------
(* What a step does to the two transports *)

\* Nothing is sent before the transports are there.
BuiltFirst == sends > 0 => Built

LEMMA BusyBuilt ==
  ASSUME TypeInv, OneInv, BuiltFirst, NEW t \in Tasks, at[t] \in Busy
  PROVE  Built
<1>1. Hold[t] \in Seq(Payloads) /\ Hold[t] # << >>
  BY HoldShape DEF TypeInv
<1> DEFINE m == Head(Hold[t])
<1>2. m \in Payloads /\ m \in Elems(Hold[t])
  BY <1>1, TailElems
<1> HIDE DEF m
<1>3. m <= sends /\ m > 0 /\ sends \in Nat /\ m \in Nat
  <2>1. m <= sends
    BY <1>2 DEF OneInv, Uniq
  <2>2. m > 0 /\ m \in Nat
    BY <1>2, Constants DEF Payloads
  <2> QED
    BY <2>1, <2>2, HeldTypes DEF TypeInv
<1> QED
  BY <1>3 DEF BuiltFirst

LEMMA EntryAdds ==
  ASSUME NEW s \in Seq(Transports \X Payloads), NEW a \in Transports, NEW b \in Transports,
         a # b, NEW m \in Payloads
  PROVE  /\ Via(a, Append(s, <<a, m>>)) = Append(Via(a, s), m)
         /\ Via(b, Append(s, <<a, m>>)) = Via(b, s)
<1> DEFINE T == Transports \X Payloads  e == <<a, m>>
<1>1. s \in Seq(T) /\ e \in T /\ e[1] = a /\ e[2] = m
  OBVIOUS
<1>2. Second(T, Payloads)
  BY DEF Second
<1> HIDE DEF T, e
<1>3. Via(a, Append(s, e)) = IF e[1] = a THEN Append(Via(a, s), e[2]) ELSE Via(a, s)
  BY <1>1, <1>2, ViaAppend
<1>4. Via(b, Append(s, e)) = IF e[1] = b THEN Append(Via(b, s), e[2]) ELSE Via(b, s)
  BY <1>1, <1>2, ViaAppend
<1>5. Via(a, Append(s, e)) = Append(Via(a, s), m) /\ Via(b, Append(s, e)) = Via(b, s)
  BY <1>1, <1>3, <1>4
<1> QED
  BY <1>5 DEF e

LEMMA EntryViaType ==
  ASSUME NEW s \in Seq(Transports \X Payloads), NEW tr
  PROVE  Via(tr, s) \in Seq(Payloads)
<1> DEFINE T == Transports \X Payloads
<1>1. s \in Seq(T) /\ Second(T, Payloads)
  BY DEF Second
<1> HIDE DEF T
<1> QED
  BY <1>1, ViaType

SameVia(tr) == /\ Via(tr, handed') = Via(tr, handed)
               /\ Via(tr, returned') = Via(tr, returned)

\* A task that is not between the two writes of a frame does something else.
Aside ==
  /\ UNCHANGED quicVars /\ SameVia("quic")
  /\ \A u \in Tasks : /\ at'[u] = "payload" <=> at[u] = "payload"
                      /\ at[u] = "payload" => carried'[u] = carried[u]
QuicMoves ==
  /\ \/ QuicDial \/ QuicOpen \/ QuicAccept \/ QuicCloses \/ QuicRecvCalled \/ QuicReadPrefix
     \/ QuicRecvDropped \/ QuicMisreads \/ QuicRecvClosed
  /\ UNCHANGED <<at, carried>> /\ SameVia("quic")
Reads(m) ==
  /\ QuicReadPayload(m) /\ UNCHANGED <<at, carried>>
  /\ Via("quic", handed') = Via("quic", handed)
  /\ Via("quic", returned') = Append(Via("quic", returned), m)
Begins(t) ==
  /\ at[t] = "preferred" /\ dialer = "ready"
  /\ QuicSendPrefix(t, Cargo(t)) /\ Step(t, "payload")
  /\ UNCHANGED carried /\ SameVia("quic")
Fails(t) ==
  /\ at[t] \in {"preferred", "payload"}
  /\ QuicSendFails(t) /\ Step(t, "fallback")
  /\ UNCHANGED carried /\ SameVia("quic")
Ends(t) ==
  /\ at[t] = "payload" /\ QuicSendPayload(t, Cargo(t))
  /\ \E s \in {"idle", "preferred"} : Step(t, s)
  /\ Via("quic", handed') = Append(Via("quic", handed), Cargo(t))
  /\ Via("quic", returned') = Via("quic", returned)
Aborts(t) ==
  /\ QuicSendAborted(t) /\ Step(t, "gone")
  /\ \A u \in Tasks : u # t => carried'[u] = carried[u]
  /\ SameVia("quic")

QuicEvent ==
  \/ Aside \/ QuicMoves
  \/ \E m \in Payloads : Reads(m)
  \/ \E t \in Tasks : \/ Aborts(t) \/ Fails(t)
                      \/ Cargo(t) \in Payloads /\ (Begins(t) \/ Ends(t))

RelayEvent ==
  \/ /\ \/ UNCHANGED relayVars \/ RelayJoin \/ RelayLinkDrops \/ RelayLinkNoticed
        \/ RelayLoses \/ RelayRead \/ RelayReaderExits \/ RelaySendFails
     /\ SameVia("relay")
  \/ \E m \in Payloads :
       \/ /\ RelaySend(m)
          /\ Via("relay", handed') = Append(Via("relay", handed), m)
          /\ Via("relay", returned') = Via("relay", returned)
       \/ /\ RelayRecv(m)
          /\ Via("relay", handed') = Via("relay", handed)
          /\ Via("relay", returned') = Append(Via("relay", returned), m)

\* No payload before the transports are built, and they stay.
Counts == /\ sends' = sends \/ Built
          /\ Built => Built'

Events == QuicEvent /\ RelayEvent /\ Counts

LEMMA LoadSteps ==
  ASSUME TaskShape, NEW t \in Tasks, NEW list, Load(t, list)
  PROVE  /\ \E s \in {"idle", "preferred"} : Step(t, s)
         /\ \A u \in Tasks : u # t => at'[u] = at[u] /\ carried'[u] = carried[u]
         /\ at'[t] # "payload"
  BY DEF Load, Step, TaskShape

LEMMA TaskEvents ==
  ASSUME TypeInv, OneInv, BuiltFirst, NEW t \in Tasks, TaskStep(t)
  PROVE  Events
<1>0. /\ TaskShape /\ RestTypes /\ at \in [Tasks -> Busy \cup {"idle", "gone"}]
      /\ handed \in Seq(Transports \X Payloads) /\ "quic" \in Transports /\ "relay" \in Transports
  BY DEF TypeInv, TaskShape, RestTypes, Transports
<1>1. ASSUME at[t] \in Busy PROVE Built /\ Cargo(t) \in Payloads
  BY <1>0, <1>1, BusyBuilt, HoldShape
<1>2. CASE TryPreferred(t)
  <2>1. Built /\ Cargo(t) \in Payloads /\ at[t] = "preferred"
    BY <1>1, <1>2 DEF TryPreferred, Busy
  <2>2. UNCHANGED <<relayVars, sends, carried, batch, pending, handed, returned>>
    BY <1>2 DEF TryPreferred
  <2>3. SameVia("quic") /\ SameVia("relay")
    BY <2>2 DEF SameVia
  <2>4. CASE QuicSendPrefix(t, Cargo(t)) /\ Step(t, "payload")
    <3>1. Begins(t)
      BY <2>1, <2>2, <2>3, <2>4 DEF Begins, Built
    <3>2. Counts
      BY <2>2, <2>4 DEF Counts, Built, QuicSendPrefix, setupVars, relayVars
    <3> QED
      BY <2>1, <2>2, <2>3, <3>1, <3>2 DEF Events, QuicEvent, RelayEvent
  <2>5. CASE QuicSendFails(t) /\ Step(t, "fallback")
    <3>1. Fails(t)
      BY <2>1, <2>2, <2>3, <2>5 DEF Fails
    <3>2. Counts
      BY <2>2, <2>5 DEF Counts, Built, QuicSendFails, setupVars, relayVars
    <3> QED
      BY <2>1, <2>2, <2>3, <3>1, <3>2 DEF Events, QuicEvent, RelayEvent
  <2>6. CASE Step(t, "fallback") /\ UNCHANGED quicVars
    <3>1. Aside
      BY <1>0, <2>1, <2>2, <2>3, <2>6 DEF Aside, Step
    <3>2. Counts
      BY <2>2, <2>6 DEF Counts, Built, quicVars, setupVars, relayVars
    <3> QED
      BY <2>1, <2>2, <2>3, <3>1, <3>2 DEF Events, QuicEvent, RelayEvent
  <2> QED
    BY <1>2, <2>4, <2>5, <2>6 DEF TryPreferred
<1>3. CASE FinishPreferred(t)
  <2>1. Built /\ Cargo(t) \in Payloads /\ at[t] = "payload"
    BY <1>1, <1>3 DEF FinishPreferred, Busy
  <2>2. UNCHANGED <<relayVars, sends, pending, returned>>
    BY <1>3 DEF FinishPreferred
  <2>3. CASE /\ QuicSendPayload(t, Cargo(t)) /\ handed' = Append(handed, <<"quic", Cargo(t)>>)
             /\ Unload(t)
    <3>0. /\ Via("quic", Append(handed, <<"quic", Cargo(t)>>))
             = Append(Via("quic", handed), Cargo(t))
          /\ Via("relay", Append(handed, <<"quic", Cargo(t)>>)) = Via("relay", handed)
      BY <1>0, <2>1, EntryAdds
    <3>1. Via("quic", handed') = Append(Via("quic", handed), Cargo(t))
      BY <2>3, <3>0
    <3>2. Via("relay", handed') = Via("relay", handed)
      BY <2>3, <3>0
    <3>3. \E s \in {"idle", "preferred"} : Step(t, s)
      BY <1>0, <2>3, LoadSteps DEF Unload
    <3>4. Ends(t)
      BY <2>1, <2>2, <2>3, <3>1, <3>3 DEF Ends
    <3>5. Counts
      BY <2>2, <2>3 DEF Counts, Built, QuicSendPayload, setupVars, relayVars
    <3> QED
      BY <2>1, <2>2, <3>2, <3>4, <3>5 DEF Events, QuicEvent, RelayEvent, SameVia
  <2>4. CASE QuicSendFails(t) /\ Step(t, "fallback") /\ UNCHANGED <<carried, batch, handed>>
    <3>1. SameVia("quic") /\ SameVia("relay")
      BY <2>2, <2>4 DEF SameVia
    <3>2. Fails(t)
      BY <2>1, <2>4, <3>1 DEF Fails
    <3>3. Counts
      BY <2>2, <2>4 DEF Counts, Built, QuicSendFails, setupVars, relayVars
    <3> QED
      BY <2>2, <3>1, <3>2, <3>3 DEF Events, QuicEvent, RelayEvent
  <2> QED
    BY <1>3, <2>3, <2>4 DEF FinishPreferred
<1>4. ASSUME UNCHANGED <<quicVars, sends>>, SameVia("quic"),
             Unload(t) \/ Load(t, pending) \/ \E s \in Busy \ {"payload"} :
                                                 Step(t, s) /\ UNCHANGED carried,
             at[t] # "payload"
      PROVE  QuicEvent
  <2>1. \A u \in Tasks : u # t => at'[u] = at[u] /\ carried'[u] = carried[u]
    BY <1>0, <1>4, LoadSteps DEF Unload, Step
  <2>2. at'[t] # "payload"
    BY <1>0, <1>4, LoadSteps DEF Unload, Step
  <2>3. Aside
    BY <1>4, <2>1, <2>2 DEF Aside
  <2> QED
    BY <2>3 DEF QuicEvent
<1>5. CASE TryFallback(t)
  <2>1. Cargo(t) \in Payloads /\ at[t] = "fallback"
    BY <1>1, <1>5 DEF TryFallback, Busy
  <2>2. UNCHANGED <<quicVars, sends, pending, returned>>
    BY <1>5 DEF TryFallback
  <2>3. CASE /\ RelaySend(Cargo(t)) /\ handed' = Append(handed, <<"relay", Cargo(t)>>)
             /\ Unload(t)
    <3>0. /\ Via("relay", Append(handed, <<"relay", Cargo(t)>>))
             = Append(Via("relay", handed), Cargo(t))
          /\ Via("quic", Append(handed, <<"relay", Cargo(t)>>)) = Via("quic", handed)
      BY <1>0, <2>1, EntryAdds
    <3>1. Via("relay", handed') = Append(Via("relay", handed), Cargo(t))
      BY <2>3, <3>0
    <3>2. Via("quic", handed') = Via("quic", handed)
      BY <2>3, <3>0
    <3>3. SameVia("quic")
      BY <2>2, <3>2 DEF SameVia
    <3>4. RelayEvent
      BY <2>1, <2>2, <2>3, <3>1 DEF RelayEvent
    <3>5. Counts
      BY <2>2, <2>3 DEF Counts, Built, RelaySend, setupVars, quicVars
    <3> QED
      BY <1>4, <2>1, <2>2, <2>3, <3>3, <3>4, <3>5 DEF Events
  <2>4. CASE RelaySendFails /\ Step(t, "queue") /\ UNCHANGED <<carried, batch, handed>>
    <3>1. SameVia("quic") /\ SameVia("relay")
      BY <2>2, <2>4 DEF SameVia
    <3>2. Counts
      BY <2>2, <2>4 DEF Counts, Built, RelaySendFails, setupVars, quicVars
    <3>3. "queue" \in Busy \ {"payload"}
      BY DEF Busy
    <3>4. RelayEvent
      BY <2>4, <3>1 DEF RelayEvent
    <3> QED
      BY <1>4, <2>1, <2>2, <2>4, <3>1, <3>2, <3>3, <3>4 DEF Events
  <2> QED
    BY <1>5, <2>3, <2>4 DEF TryFallback
<1>6. ASSUME Enqueue(t) \/ DrainAll(t) PROVE Events
  <2>1. UNCHANGED <<quicVars, relayVars, sends, handed, returned>> /\ at[t] # "payload"
        /\ (Unload(t) \/ Load(t, pending))
    BY <1>6 DEF Enqueue, DrainAll
  <2>2. SameVia("quic") /\ SameVia("relay")
    BY <2>1 DEF SameVia
  <2>3. Counts
    BY <2>1 DEF Counts, Built, relayVars, setupVars, quicVars
  <2> QED
    BY <1>4, <2>1, <2>2, <2>3 DEF Events, RelayEvent
<1> QED
  BY <1>2, <1>3, <1>5, <1>6 DEF TaskStep

LEMMA CallerEvents ==
  ASSUME TypeInv, NEW c \in Callers, Send(c) \/ EnqueueByHand(c)
  PROVE  Events
<1>1. Built /\ UNCHANGED <<quicVars, relayVars, handed, returned>> /\ at[c] = "idle" /\ c \in Tasks
  BY Constants DEF Send, EnqueueByHand
<1>2. SameVia("quic") /\ SameVia("relay")
  BY <1>1 DEF SameVia
<1>3. Counts
  BY <1>1 DEF Counts, Built, relayVars, setupVars, quicVars
<1>4. \/ at' = [at EXCEPT ![c] = "preferred"] /\ \E x : carried' = [carried EXCEPT ![c] = x]
      \/ UNCHANGED <<at, carried>>
  BY DEF Send, EnqueueByHand, Step
<1>5. \A u \in Tasks : /\ at'[u] = "payload" <=> at[u] = "payload"
                       /\ at[u] = "payload" => carried'[u] = carried[u]
  BY <1>1, <1>4 DEF TypeInv, TaskShape
<1> QED
  BY <1>1, <1>2, <1>3, <1>5 DEF Events, QuicEvent, RelayEvent, Aside

LEMMA AbortEvents ==
  ASSUME TypeInv, NEW f \in FlushTasks, AbortFlush(f)
  PROVE  Events
<1>1. /\ f \in Tasks /\ QuicSendAborted(f) /\ Step(f, "gone")
      /\ carried' = [carried EXCEPT ![f] = << >>]
      /\ UNCHANGED <<relayVars, sends, pending, handed, returned>>
  BY Constants DEF AbortFlush
<1>2. SameVia("quic") /\ SameVia("relay")
  BY <1>1 DEF SameVia
<1>3. \A u \in Tasks : u # f => carried'[u] = carried[u]
  BY <1>1 DEF TypeInv, TaskShape
<1>4. Counts
  BY <1>1 DEF Counts, Built, QuicSendAborted, setupVars, relayVars
<1> QED
  BY <1>1, <1>2, <1>3, <1>4 DEF Events, QuicEvent, RelayEvent, Aborts

LEMMA OtherEvents ==
  ASSUME TypeInv, Setup \/ Network \/ Receiver
  PROVE  Events
<1>0. UNCHANGED <<taskVars, handed>>
  BY OtherMoves
<1>1. UNCHANGED <<at, carried, sends, handed>>
  BY <1>0 DEF taskVars
<1>2. returned \in Seq(Transports \X Payloads) /\ "quic" \in Transports /\ "relay" \in Transports
  BY DEF TypeInv, RestTypes, Transports
<1>3. ASSUME UNCHANGED returned PROVE SameVia("quic") /\ SameVia("relay")
  BY <1>1, <1>3 DEF SameVia
<1>a. ASSUME UNCHANGED quicVars, SameVia("quic") PROVE QuicEvent
  BY <1>1, <1>a DEF QuicEvent, Aside
<1>b. ASSUME UNCHANGED relayVars, SameVia("relay") PROVE RelayEvent
  BY <1>b DEF RelayEvent
<1>4. CASE Setup
  <2>1. (QuicDial \/ QuicOpen \/ QuicAccept) /\ UNCHANGED <<relayVars, returned>>
    BY <1>4 DEF Setup
  <2>2. Counts
    BY <1>1, <2>1 DEF Counts, Built, QuicDial, QuicOpen, QuicAccept, relayVars
  <2>3. QuicEvent
    BY <1>1, <1>3, <2>1 DEF QuicEvent, QuicMoves
  <2> QED
    BY <1>3, <1>b, <2>1, <2>2, <2>3 DEF Events
<1>5. CASE Network
  <2>1. CASE QuicCloses /\ UNCHANGED <<relayVars, returned>>
    <3>1. Counts
      BY <1>1, <2>1 DEF Counts, Built, QuicCloses, relayVars, setupVars
    <3>2. QuicEvent
      BY <1>1, <1>3, <2>1 DEF QuicEvent, QuicMoves
    <3> QED
      BY <1>3, <1>b, <2>1, <3>1, <3>2 DEF Events
  <2>2. CASE /\ \/ RelayJoin \/ RelayLinkDrops \/ RelayLinkNoticed \/ RelayLoses
                \/ RelayRead \/ RelayReaderExits
             /\ UNCHANGED <<quicVars, returned>>
    <3>1. Counts
      BY <1>1, <2>2 DEF Counts, Built, quicVars, setupVars, RelayJoin, RelayLinkDrops,
         RelayLinkNoticed, RelayLoses, RelayRead, RelayArrives, RelayReaderExits
    <3>2. RelayEvent
      BY <1>3, <2>2 DEF RelayEvent
    <3> QED
      BY <1>3, <1>a, <2>2, <3>1, <3>2 DEF Events
  <2> QED
    BY <1>5, <2>1, <2>2 DEF Network
<1>6. CASE Recv \/ RecvReadsPrefix \/ RecvFails
  <2>1. /\ QuicRecvCalled \/ QuicReadPrefix \/ QuicMisreads \/ QuicRecvClosed
        /\ UNCHANGED <<relayVars, returned>>
    BY <1>6 DEF Recv, RecvReadsPrefix, RecvFails
  <2>2. Counts
    BY <1>1, <2>1 DEF Counts, Built, QuicRecvCalled, QuicReadPrefix, QuicMisreads, QuicRecvClosed,
       setupVars, relayVars
  <2>3. QuicEvent
    BY <1>1, <1>3, <2>1 DEF QuicEvent, QuicMoves
  <2> QED
    BY <1>3, <1>b, <2>1, <2>2, <2>3 DEF Events
<1>7. CASE RecvFromPreferred
  <2>1. PICK m \in Payloads : /\ QuicReadPayload(m) /\ returned' = Append(returned, <<"quic", m>>)
                              /\ UNCHANGED relayVars
    BY <1>7 DEF RecvFromPreferred
  <2>0. /\ Via("quic", Append(returned, <<"quic", m>>)) = Append(Via("quic", returned), m)
        /\ Via("relay", Append(returned, <<"quic", m>>)) = Via("relay", returned)
    BY <1>2, EntryAdds
  <2>2. /\ Via("quic", returned') = Append(Via("quic", returned), m)
        /\ Via("relay", returned') = Via("relay", returned)
    BY <2>0, <2>1
  <2>3. Counts
    BY <1>1, <2>1 DEF Counts, Built, QuicReadPayload, setupVars, relayVars
  <2>4. QuicEvent
    BY <1>1, <2>1, <2>2 DEF QuicEvent, Reads
  <2> QED
    BY <1>1, <1>b, <2>1, <2>2, <2>3, <2>4 DEF Events, SameVia
<1>8. CASE RecvFromFallback
  <2>1. PICK m \in Payloads : /\ RelayRecv(m) /\ QuicRecvDropped
                              /\ returned' = Append(returned, <<"relay", m>>)
    BY <1>8 DEF RecvFromFallback
  <2>0. /\ Via("relay", Append(returned, <<"relay", m>>)) = Append(Via("relay", returned), m)
        /\ Via("quic", Append(returned, <<"relay", m>>)) = Via("quic", returned)
    BY <1>2, EntryAdds
  <2>2. /\ Via("relay", returned') = Append(Via("relay", returned), m)
        /\ Via("quic", returned') = Via("quic", returned)
    BY <2>0, <2>1
  <2>3. Counts
    BY <1>1, <2>1 DEF Counts, Built, QuicRecvDropped, RelayRecv, setupVars
  <2>4. QuicEvent
    BY <1>1, <2>1, <2>2 DEF QuicEvent, QuicMoves, SameVia
  <2>5. RelayEvent
    BY <1>1, <2>1, <2>2 DEF RelayEvent
  <2> QED
    BY <2>3, <2>4, <2>5 DEF Events
<1>9. CASE RecvGivenUp
  <2>1. QuicRecvDropped /\ UNCHANGED <<relayVars, returned>>
    BY <1>9 DEF RecvGivenUp, RelayRecvClosed
  <2>2. Counts
    BY <1>1, <2>1 DEF Counts, Built, QuicRecvDropped, relayVars, setupVars
  <2>3. QuicEvent
    BY <1>1, <1>3, <2>1 DEF QuicEvent, QuicMoves
  <2> QED
    BY <1>3, <1>b, <2>1, <2>2, <2>3 DEF Events
<1> QED
  BY <1>4, <1>5, <1>6, <1>7, <1>8, <1>9 DEF Receiver

LEMMA StepEvents ==
  ASSUME TypeInv, OneInv, BuiltFirst, [Next]_vars
  PROVE  Events
<1>1. CASE UNCHANGED vars
  <2>1. UNCHANGED <<quicVars, relayVars, taskVars, handed, returned>>
    BY <1>1 DEF vars
  <2> QED
    BY <2>1 DEF Events, QuicEvent, RelayEvent, Aside, SameVia, Counts, Built, taskVars, quicVars,
       setupVars, relayVars
<1>2. ASSUME NEW f \in FlushTasks, AbortFlush(f) PROVE Events
  BY <1>2, AbortEvents
<1>3. ASSUME NEW t \in Tasks, TaskStep(t) PROVE Events
  BY <1>3, TaskEvents
<1>4. ASSUME NEW c \in Callers, Send(c) \/ EnqueueByHand(c) PROVE Events
  BY <1>4, CallerEvents
<1> QED
  BY <1>1, <1>2, <1>3, <1>4, OtherEvents DEF Next

-----------------------------------------------------------------------------
(* The mutex and the setup *)

\* The writes of a frame are one task's.
MutexShape == \A t \in Tasks : at[t] = "payload" <=> writing = t

\* The listener has not taken the marker off the stream.
Unmarked == listener \in {"accept", "stream", "marker"}

SetupShape ==
  /\ dialer = "dial" => conn = "none"
  /\ conn = "none" => dialer \in {"dial", "failed"} /\ listener = "accept"
  /\ conn = "up" => dialer \in {"open", "mark", "ready"} /\ listener # "failed"
  /\ dialer # "ready" => /\ stream = << >> /\ writing = NoTask
                         /\ listener \notin {"marker", "ready"}
  /\ dialer = "ready" /\ conn = "up" /\ Unmarked => stream # << >>
  /\ reading # "off" => listener = "ready"

LEMMA MutexStep ==
  ASSUME QuicTypeOK(Tasks), TaskShape, MutexShape, QuicEvent
  PROVE  MutexShape'
<1> USE DEF MutexShape
<1>0. NoTask \notin Tasks /\ at \in [Tasks -> Busy \cup {"idle", "gone"}]
  BY Constants DEF TaskShape
<1>1. CASE Aside
  BY <1>1 DEF Aside, quicVars
<1>2. CASE QuicMoves
  BY <1>2 DEF QuicMoves, QuicDial, QuicOpen, QuicAccept, QuicCloses, QuicRecvCalled, QuicReadPrefix,
     QuicRecvDropped, QuicMisreads, QuicRecvClosed
<1>3. ASSUME NEW m \in Payloads, Reads(m) PROVE MutexShape'
  BY <1>3 DEF Reads, QuicReadPayload
<1>4. ASSUME NEW t \in Tasks, Aborts(t) PROVE MutexShape'
  BY <1>0, <1>4 DEF Aborts, QuicSendAborted, Step
<1>5. ASSUME NEW t \in Tasks, Fails(t) PROVE MutexShape'
  BY <1>0, <1>5 DEF Fails, QuicSendFails, Step
<1>6. ASSUME NEW t \in Tasks, Begins(t) PROVE MutexShape'
  BY <1>0, <1>6 DEF Begins, QuicSendPrefix, Step
<1>7. ASSUME NEW t \in Tasks, Ends(t) PROVE MutexShape'
  BY <1>0, <1>7 DEF Ends, QuicSendPayload, Step
<1> QED
  BY <1>1, <1>2, <1>3, <1>4, <1>5, <1>6, <1>7 DEF QuicEvent

LEMMA SetupStep ==
  ASSUME QuicTypeOK(Tasks), SetupShape, MutexShape, QuicEvent
  PROVE  SetupShape'
<1> USE DEF SetupShape, Unmarked, QuicTypeOK, setupVars, readVars, RecvOver
<1>1. CASE Aside
  BY <1>1 DEF Aside, quicVars
<1>2. CASE QuicMoves
  <2>1. CASE QuicDial
    BY <2>1 DEF QuicDial
  <2>2. CASE QuicOpen
    <3>1. Append(stream, Marker) # << >>
      BY Chunks, AppendProperties
    <3> QED
      BY <2>2, <3>1 DEF QuicOpen
  <2>3. CASE QuicAccept
    BY <2>3 DEF QuicAccept
  <2>4. CASE QuicCloses
    <3>1. stream = << >> => stream' = << >>
      BY <2>4 DEF QuicCloses
    <3> QED
      BY <2>4, <3>1 DEF QuicCloses
  <2>5. CASE QuicRecvCalled \/ QuicReadPrefix \/ QuicRecvDropped \/ QuicMisreads \/ QuicRecvClosed
    BY <2>5 DEF QuicRecvCalled, QuicReadPrefix, QuicRecvDropped, QuicMisreads, QuicRecvClosed
  <2> QED
    BY <1>2, <2>1, <2>2, <2>3, <2>4, <2>5 DEF QuicMoves
<1>3. ASSUME NEW m \in Payloads, Reads(m) PROVE SetupShape'
  BY <1>3 DEF Reads, QuicReadPayload
<1>4. ASSUME NEW t \in Tasks, Aborts(t) \/ Fails(t) PROVE SetupShape'
  BY <1>4 DEF Aborts, Fails, QuicSendAborted, QuicSendFails
<1>5. ASSUME NEW t \in Tasks, Cargo(t) \in Payloads, Begins(t) \/ Ends(t) PROVE SetupShape'
  <2>1. stream' # << >>
    BY <1>5, Chunks, AppendProperties DEF Begins, Ends, QuicSendPrefix, QuicSendPayload
  <2>2. dialer = "ready"
    BY <1>5, Constants DEF Begins, Ends, QuicSendPayload
  <2> QED
    BY <1>5, <2>1, <2>2 DEF Begins, Ends, QuicSendPrefix, QuicSendPayload
<1> QED
  BY <1>1, <1>2, <1>3, <1>4, <1>5 DEF QuicEvent

-----------------------------------------------------------------------------
(* The frames on the stream *)

\* What comes behind a prefix is its payload, and behind the rest is a prefix.
Follows(c, d) == \/ c.part = "prefix" /\ d = Body(c.of)
                 \/ c.part # "prefix" /\ \E m \in Payloads : d = Prefix(m)
Chained(s) == \A i \in 1..(Len(s) - 1) : Follows(s[i], s[i + 1])

\* The chunk that recv, or accept, is about to read.
First(c) == IF Unmarked THEN c = Marker
            ELSE IF reading = "payload" THEN c = Body(expected)
            ELSE \E m \in Payloads : c = Prefix(m)

\* The last chunk that was written, which recv may have read.
LastIs(m) == IF stream # << >> THEN Last(stream) = Prefix(m)
             ELSE reading = "payload" /\ expected = m
Unfinished == IF stream # << >> THEN Last(stream).part = "prefix" ELSE reading = "payload"

StreamShape ==
  /\ stream # << >> => First(Head(stream))
  /\ Chained(stream)
  /\ conn = "up" => IF writing = NoTask THEN ~Unfinished ELSE LastIs(Cargo(writing))

LEMMA ChainedEmpty == Chained(<< >>)
  BY DEF Chained

LEMMA ChainedTail ==
  ASSUME NEW s \in Seq(Chunk), s # << >>, Chained(s)
  PROVE  /\ Head(s) \in Chunk /\ Tail(s) \in Seq(Chunk) /\ Chained(Tail(s))
         /\ Tail(s) # << >> => Follows(Head(s), Head(Tail(s))) /\ Last(Tail(s)) = Last(s)
         /\ Tail(s) = << >> => Last(s) = Head(s)
<1> DEFINE r == Tail(s)  n == Len(s)
<1>1. /\ r \in Seq(Chunk) /\ n \in Nat /\ n # 0 /\ Len(r) = n - 1 /\ Head(s) \in Chunk
      /\ \A i \in 1..Len(r) : r[i] = s[i + 1]
  BY HeadTailProperties, LenProperties, EmptySeq
<1>2. Head(s) = s[1] /\ (r # << >> => Head(r) = r[1])
  BY <1>1
<1>3. r = << >> <=> Len(r) = 0
  BY <1>1, EmptySeq
<1> HIDE DEF r
<1>4. Chained(r)
  <2> SUFFICES ASSUME NEW i \in 1..(Len(r) - 1) PROVE Follows(r[i], r[i + 1])
    BY DEF Chained
  <2>1. i \in 1..Len(r) /\ i + 1 \in 1..Len(r) /\ i + 1 \in 1..(n - 1)
    BY <1>1
  <2>2. r[i] = s[i + 1] /\ r[i + 1] = s[(i + 1) + 1]
    BY <1>1, <2>1
  <2> QED
    BY <2>1, <2>2 DEF Chained
<1>5. ASSUME r # << >> PROVE Follows(Head(s), Head(r)) /\ Last(r) = Last(s)
  <2>1. Len(r) \in 1..Len(r) /\ 1 \in 1..Len(r) /\ 1 \in 1..(n - 1) /\ Len(r) + 1 = n
    BY <1>1, <1>3, <1>5
  <2>2. r[1] = s[1 + 1] /\ r[Len(r)] = s[n]
    BY <1>1, <2>1
  <2>3. Follows(s[1], s[1 + 1])
    BY <2>1 DEF Chained
  <2> QED
    BY <1>2, <1>5, <2>2, <2>3 DEF Last
<1>6. ASSUME r = << >> PROVE Last(s) = Head(s)
  <2>1. n = 1
    BY <1>1, <1>3, <1>6
  <2> QED
    BY <1>2, <2>1 DEF Last
<1> QED
  BY <1>1, <1>4, <1>5, <1>6 DEF r

LEMMA ChainedAppend ==
  ASSUME NEW s \in Seq(Chunk), NEW e \in Chunk, Chained(s), s # << >> => Follows(Last(s), e)
  PROVE  /\ Append(s, e) # << >> /\ Chained(Append(s, e)) /\ Last(Append(s, e)) = e
         /\ Head(Append(s, e)) = IF s = << >> THEN e ELSE Head(s)
<1> DEFINE r == Append(s, e)  n == Len(s)
<1>1. /\ r \in Seq(Chunk) /\ r # << >> /\ Len(r) = n + 1 /\ n \in Nat
      /\ \A i \in 1..n : r[i] = s[i]
      /\ r[n + 1] = e
  BY AppendProperties, LenProperties
<1>2. (s = << >> <=> n = 0) /\ Head(s) = s[1] /\ Head(r) = r[1]
  BY <1>1, EmptySeq
<1> HIDE DEF r
<1>3. Chained(r)
  <2> SUFFICES ASSUME NEW i \in 1..(Len(r) - 1) PROVE Follows(r[i], r[i + 1])
    BY DEF Chained
  <2>1. i \in 1..n /\ r[i] = s[i]
    BY <1>1
  <2>2. CASE i = n
    BY <1>1, <1>2, <2>1, <2>2 DEF Last
  <2>3. CASE i # n
    <3>1. i \in 1..(n - 1) /\ i + 1 \in 1..n
      BY <1>1, <2>1, <2>3
    <3>2. r[i + 1] = s[i + 1]
      BY <1>1, <3>1
    <3> QED
      BY <2>1, <3>1, <3>2 DEF Chained
  <2> QED
    BY <2>2, <2>3
<1>4. Last(r) = e
  BY <1>1 DEF Last
<1>5. Head(r) = IF s = << >> THEN e ELSE Head(s)
  <2>1. CASE n = 0
    BY <1>1, <1>2, <2>1
  <2>2. CASE n # 0
    <3>1. 1 \in 1..n
      BY <1>1, <2>2
    <3> QED
      BY <1>1, <1>2, <2>2, <3>1
  <2> QED
    BY <2>1, <2>2
<1> QED
  BY <1>1, <1>3, <1>4, <1>5 DEF r

LEMMA ChainedSubSeq ==
  ASSUME NEW s \in Seq(Chunk), Chained(s), NEW n \in 0..Len(s)
  PROVE  /\ Chained(SubSeq(s, 1, n))
         /\ SubSeq(s, 1, n) # << >> => s # << >> /\ Head(SubSeq(s, 1, n)) = Head(s)
<1> DEFINE r == SubSeq(s, 1, n)
<1>1. Len(s) \in Nat /\ n \in Nat /\ n <= Len(s)
  BY LenProperties
<1>2. /\ r \in Seq(Chunk) /\ Len(r) = n
      /\ \A i \in 1..n : r[i] = s[i]
  <2>1. n \in Int /\ 1 \in Int /\ \A i \in 1..n : s[i] \in Chunk
    BY <1>1, ElementOfSeq
  <2>2. /\ r \in Seq(Chunk) /\ Len(r) = IF 1 <= n THEN n - 1 + 1 ELSE 0
        /\ \A i \in 1..(n - 1 + 1) : r[i] = s[1 + i - 1]
    BY <2>1, SubSeqProperties
  <2> HIDE DEF r
  <2> QED
    BY <1>1, <2>2
<1> HIDE DEF r
<1>3. Chained(r)
  <2> SUFFICES ASSUME NEW i \in 1..(Len(r) - 1) PROVE Follows(r[i], r[i + 1])
    BY DEF Chained
  <2>1. i \in 1..n /\ i + 1 \in 1..n /\ i \in 1..(Len(s) - 1)
    BY <1>1, <1>2
  <2> QED
    BY <1>2, <2>1 DEF Chained
<1>4. ASSUME r # << >> PROVE s # << >> /\ Head(r) = Head(s)
  <2>1. n # 0
    BY <1>2, <1>4, EmptySeq
  <2>2. 1 \in 1..n /\ Len(s) # 0
    BY <1>1, <2>1
  <2>3. s # << >> /\ Head(s) = s[1] /\ Head(r) = r[1]
    BY <2>2
  <2> QED
    BY <1>2, <2>2, <2>3
<1> QED
  BY <1>3, <1>4 DEF r

LEMMA FollowsKinds ==
  ASSUME NEW c \in Chunk, NEW d, Follows(c, d)
  PROVE  /\ c = Marker => \E m \in Payloads : d = Prefix(m)
         /\ \A m : c = Prefix(m) => d = Body(m)
         /\ \A m : c = Body(m) => \E k \in Payloads : d = Prefix(k)
  BY DEF Follows, Marker, Prefix, Body

LEMMA ChunkKinds ==
  /\ Marker.part = "marker"
  /\ \A m : /\ Prefix(m).part = "prefix" /\ Prefix(m).of = m
            /\ Body(m).part = "payload" /\ Body(m).of = m
            /\ Prefix(m) # Marker /\ Body(m) # Marker
            /\ \A k : Prefix(m) # Body(k) /\ (Prefix(m) = Prefix(k) => m = k)
  BY DEF Marker, Prefix, Body

LEMMA MisreadsTorn ==
  ASSUME SetupShape, StreamShape, QuicTypeOK(Tasks), QuicMisreads
  PROVE  FALSE
<1>1. stream # << >> /\ reading \in {"prefix", "payload"} /\ OutOfStep
  BY DEF QuicMisreads, QuicTypeOK
<1>2. First(Head(stream)) /\ ~Unmarked
  BY <1>1 DEF StreamShape, SetupShape, Unmarked
<1>3. CASE reading = "payload"
  BY <1>1, <1>2, <1>3 DEF First, OutOfStep
<1>4. CASE reading = "prefix"
  BY <1>1, <1>2, <1>4, ChunkKinds DEF First, OutOfStep
<1> QED
  BY <1>1, <1>3, <1>4

\* recv, and accept, take the first chunk off the stream.
LEMMA TailShape ==
  ASSUME QuicTypeOK(Tasks), StreamShape, stream # << >>, stream' = Tail(stream),
         UNCHANGED <<conn, writing, carried>>,
         \A d : Follows(Head(stream), d) => First(d)',
         \A m : Head(stream) = Prefix(m) => reading' = "payload" /\ expected' = m,
         Head(stream).part # "prefix" => reading' # "payload"
  PROVE  StreamShape'
<1>1. stream \in Seq(Chunk) /\ Chained(stream) /\ First(Head(stream))
  BY DEF QuicTypeOK, StreamShape
<1> DEFINE r == Tail(stream)
<1>2. /\ Head(stream) \in Chunk /\ r \in Seq(Chunk) /\ Chained(r)
      /\ r # << >> => Follows(Head(stream), Head(r)) /\ Last(r) = Last(stream)
      /\ r = << >> => Last(stream) = Head(stream)
  BY <1>1, ChainedTail
<1>3. stream' = r
  OBVIOUS
<1> HIDE DEF r
<1>4. stream' # << >> => First(Head(stream))'
  BY <1>2, <1>3 DEF First
<1>5. Chained(stream)'
  BY <1>2, <1>3
<1>6. CASE stream' # << >>
  <2>1. Unfinished' <=> Unfinished
    BY <1>2, <1>3, <1>6 DEF Unfinished
  <2>2. LastIs(Cargo(writing))' <=> LastIs(Cargo(writing))
    BY <1>2, <1>3, <1>6 DEF LastIs, Cargo
  <2> QED
    BY <1>4, <1>5, <2>1, <2>2 DEF StreamShape
<1>7. CASE stream' = << >>
  <2>1. Last(stream) = Head(stream)
    BY <1>2, <1>3, <1>7
  <2>2. ASSUME conn = "up", writing = NoTask PROVE ~Unfinished'
    <3>1. Head(stream).part # "prefix"
      BY <2>1, <2>2 DEF StreamShape, Unfinished
    <3> QED
      BY <1>7, <3>1 DEF Unfinished
  <2>3. ASSUME conn = "up", writing # NoTask PROVE LastIs(Cargo(writing))'
    <3>1. Head(stream) = Prefix(Cargo(writing))
      BY <2>1, <2>3 DEF StreamShape, LastIs
    <3>2. reading' = "payload" /\ expected' = Cargo(writing)
      BY <3>1
    <3> QED
      BY <1>7, <3>2 DEF LastIs, Cargo
  <2> QED
    BY <1>4, <1>5, <2>2, <2>3 DEF StreamShape
<1> QED
  BY <1>6, <1>7

\* A write puts a chunk behind the last.
LEMMA AppendShape ==
  ASSUME QuicTypeOK(Tasks), StreamShape, NEW e \in Chunk, stream' = Append(stream, e),
         UNCHANGED <<listener, readVars>>,
         stream = << >> => First(e),
         stream # << >> => Follows(Last(stream), e),
         IF writing' = NoTask THEN e.part # "prefix" ELSE e = Prefix(Cargo(writing)')
  PROVE  StreamShape'
<1> DEFINE r == Append(stream, e)
<1>1. stream \in Seq(Chunk) /\ Chained(stream)
  BY DEF QuicTypeOK, StreamShape
<1>2. /\ r # << >> /\ Chained(r) /\ Last(r) = e
      /\ Head(r) = IF stream = << >> THEN e ELSE Head(stream)
  BY <1>1, ChainedAppend
<1>3. stream' = r
  OBVIOUS
<1> HIDE DEF r
<1>4. First(Head(r))
  BY <1>2 DEF StreamShape
<1>5. First(Head(stream))'
  BY <1>3, <1>4 DEF First, Unmarked, readVars
<1>6. IF writing' = NoTask THEN ~Unfinished' ELSE LastIs(Cargo(writing))'
  BY <1>2, <1>3 DEF Unfinished, LastIs
<1> QED
  BY <1>2, <1>3, <1>5, <1>6 DEF StreamShape

LEMMA SameShape ==
  ASSUME StreamShape, UNCHANGED <<stream, writing, readVars>>,
         Unmarked' <=> Unmarked, conn' = "up" => conn = "up",
         conn' = "up" /\ writing # NoTask => Cargo(writing)' = Cargo(writing)
  PROVE  StreamShape'
<1>1. UNCHANGED <<reading, expected>>
  BY DEF readVars
<1>2. stream' # << >> => First(Head(stream))'
  BY <1>1 DEF StreamShape, First
<1>3. Unfinished' <=> Unfinished
  BY <1>1 DEF Unfinished
<1>4. \A m : LastIs(m)' <=> LastIs(m)
  BY <1>1 DEF LastIs
<1>5. conn' = "up" => IF writing' = NoTask THEN ~Unfinished' ELSE LastIs(Cargo(writing))'
  <2>1. CASE conn' = "up" /\ writing # NoTask
    <3>1. LastIs(Cargo(writing))
      BY <2>1 DEF StreamShape
    <3>2. LastIs(Cargo(writing)')
      BY <2>1, <3>1
    <3> QED
      BY <1>1, <2>1, <3>2 DEF LastIs
  <2>2. CASE conn' = "up" /\ writing = NoTask
    BY <1>3, <2>2 DEF StreamShape
  <2> QED
    BY <2>1, <2>2
<1> QED
  BY <1>2, <1>5 DEF StreamShape

FramesInv == ~torn => StreamShape

LEMMA FramesStep ==
  ASSUME QuicTypeOK(Tasks), SetupShape, MutexShape, FramesInv, QuicEvent
  PROVE  FramesInv'
<1> SUFFICES ASSUME ~torn' PROVE StreamShape'
  BY DEF FramesInv
<1> USE DEF setupVars, readVars, RecvOver
<1>0. /\ stream \in Seq(Chunk) /\ writing \in Tasks \cup {NoTask} /\ NoTask \notin Tasks
      /\ torn \in BOOLEAN /\ reading \in {"off", "prefix", "payload"}
  BY Constants DEF QuicTypeOK
<1>1. ASSUME torn' = torn PROVE StreamShape
  BY <1>1 DEF FramesInv
<1>2. CASE Aside
  <2>1. UNCHANGED <<stream, writing, reading, expected, listener, conn, torn>>
    BY <1>2 DEF Aside, quicVars
  <2>2. writing # NoTask => Cargo(writing)' = Cargo(writing)
    BY <1>0, <1>2, <2>1 DEF Aside, MutexShape, Cargo
  <2> QED
    BY <1>1, <2>1, <2>2, SameShape DEF Unmarked
<1>3. ASSUME UNCHANGED <<stream, writing, reading, expected, carried, torn>>, Unmarked' <=> Unmarked,
             conn' = "up" => conn = "up"
      PROVE  StreamShape'
  BY <1>1, <1>3, SameShape DEF Cargo
<1>4. CASE QuicMoves
  <2>0. UNCHANGED carried
    BY <1>4 DEF QuicMoves
  <2>1. CASE QuicDial
    <3>1. stream = << >> /\ writing = NoTask /\ reading = "off"
      BY <2>1 DEF QuicDial, SetupShape
    <3>2. stream' = << >> /\ writing' = NoTask /\ reading' = "off"
      BY <2>1, <3>1 DEF QuicDial
    <3> QED
      BY <3>2, ChainedEmpty DEF StreamShape, Unfinished
  <2>2. CASE QuicOpen
    <3>1. CASE UNCHANGED stream
      BY <1>3, <2>0, <2>2, <3>1 DEF QuicOpen, Unmarked
    <3>2. CASE dialer = "mark" /\ conn = "up" /\ stream' = Append(stream, Marker)
      <4>1. stream = << >> /\ writing = NoTask /\ writing' = NoTask /\ Unmarked
        BY <2>2, <3>2 DEF QuicOpen, SetupShape, Unmarked, QuicTypeOK
      <4>2. Marker.part # "prefix" /\ Marker \in Chunk /\ First(Marker)
        BY <4>1, ChunkKinds, Chunks DEF First
      <4>3. UNCHANGED <<listener, readVars, torn>>
        BY <2>2 DEF QuicOpen
      <4> QED
        BY <1>1, <3>2, <4>1, <4>2, <4>3, AppendShape
    <3> QED
      BY <2>2, <3>1, <3>2 DEF QuicOpen
  <2>3. CASE QuicAccept
    <3>1. CASE UNCHANGED stream /\ (listener' \in {"stream", "marker"} \/ conn = "closed")
      <4>1. CASE listener' \in {"stream", "marker"}
        BY <1>3, <2>0, <2>3, <3>1, <4>1 DEF QuicAccept, Unmarked
      <4>2. CASE conn = "closed" /\ stream = << >>
        <5>1. Chained(stream)' /\ stream' = << >> /\ conn' # "up"
          BY <2>3, <3>1, <4>2, ChainedEmpty DEF QuicAccept
        <5> QED
          BY <5>1 DEF StreamShape
      <4> QED
        BY <2>3, <3>1, <4>1, <4>2 DEF QuicAccept
    <3>2. CASE listener = "marker" /\ stream # << >> /\ listener' = "ready" /\ stream' = Tail(stream)
      <4>1. UNCHANGED <<conn, writing, carried, reading, expected, torn>>
        BY <2>0, <2>3, <3>2 DEF QuicAccept
      <4>2. StreamShape
        BY <1>1, <4>1
      <4>3. Head(stream) = Marker /\ reading = "off"
        BY <1>0, <3>2, <4>2 DEF StreamShape, First, Unmarked, SetupShape
      <4>4. ASSUME NEW d, Follows(Head(stream), d) PROVE First(d)'
        <5>1. \E m \in Payloads : d = Prefix(m)
          BY <4>3, <4>4, Chunks, FollowsKinds
        <5> QED
          BY <3>2, <4>1, <4>3, <5>1 DEF First, Unmarked
      <4>5. (\A m : Head(stream) # Prefix(m)) /\ reading' # "payload"
        BY <4>1, <4>3, ChunkKinds
      <4> QED
        BY <3>2, <4>1, <4>2, <4>4, <4>5, TailShape
    <3> QED
      BY <2>3, <3>1, <3>2 DEF QuicAccept
  <2>4. CASE QuicCloses
    <3>1. PICK n \in 0..Len(stream) : stream' = SubSeq(stream, 1, n)
      BY <2>4 DEF QuicCloses
    <3>2. StreamShape /\ conn' = "closed" /\ UNCHANGED <<reading, expected, listener>>
      BY <1>1, <2>4 DEF QuicCloses
    <3>3. Chained(SubSeq(stream, 1, n))
          /\ (SubSeq(stream, 1, n) # << >>
                => stream # << >> /\ Head(SubSeq(stream, 1, n)) = Head(stream))
      BY <1>0, <3>2, ChainedSubSeq DEF StreamShape
    <3>4. Chained(stream') /\ (stream' # << >> => First(Head(stream')))
      BY <3>1, <3>2, <3>3 DEF StreamShape
    <3> QED
      BY <3>2, <3>4 DEF StreamShape, First, Unmarked
  <2>5. CASE QuicRecvCalled
    <3>1. StreamShape /\ reading = "off" /\ reading' = "prefix"
          /\ UNCHANGED <<stream, writing, carried, conn, listener, expected>>
      BY <1>1, <2>0, <2>5 DEF QuicRecvCalled
    <3> QED
      BY <3>1 DEF StreamShape, First, Unmarked, Unfinished, LastIs, Cargo
  <2>6. CASE QuicReadPrefix
    <3>1. /\ reading = "prefix" /\ stream # << >> /\ stream' = Tail(stream) /\ reading' = "payload"
          /\ expected' = Head(stream).of /\ UNCHANGED <<listener, conn, writing, carried, torn>>
      BY <2>0, <2>6 DEF QuicReadPrefix
    <3>2. StreamShape /\ ~Unmarked
      BY <1>1, <3>1 DEF SetupShape, Unmarked
    <3>3. PICK m \in Payloads : Head(stream) = Prefix(m)
      BY <3>1, <3>2 DEF StreamShape, First
    <3>4. expected' = m
      BY <3>1, <3>3, ChunkKinds
    <3>5. ASSUME NEW d, Follows(Head(stream), d) PROVE First(d)'
      <4>1. d = Body(m)
        BY <3>3, <3>5, Chunks, FollowsKinds
      <4> QED
        BY <3>1, <3>2, <3>4, <4>1 DEF First, Unmarked
    <3>6. ASSUME NEW k, Head(stream) = Prefix(k) PROVE expected' = k
      BY <3>1, <3>6, ChunkKinds
    <3>7. Head(stream).part = "prefix"
      BY <3>3, ChunkKinds
    <3> QED
      BY <3>1, <3>2, <3>5, <3>6, <3>7, TailShape
  <2>7. CASE QuicRecvDropped
    <3>1. /\ reading' = "off" /\ UNCHANGED <<stream, writing, carried, conn, listener>>
          /\ torn = FALSE /\ reading # "payload"
      BY <1>0, <2>0, <2>7 DEF QuicRecvDropped
    <3>2. StreamShape
      BY <3>1 DEF FramesInv
    <3> QED
      BY <3>1, <3>2 DEF StreamShape, First, Unmarked, Unfinished, LastIs, Cargo
  <2>8. CASE QuicMisreads
    <3>1. StreamShape
      BY <1>1, <2>8 DEF QuicMisreads
    <3> QED
      BY <2>8, <3>1, MisreadsTorn
  <2>9. CASE QuicRecvClosed
    <3>1. stream' = << >> /\ conn' # "up"
      BY <2>9 DEF QuicRecvClosed
    <3> QED
      BY <3>1, ChainedEmpty DEF StreamShape
  <2> QED
    BY <1>4, <2>1, <2>2, <2>3, <2>4, <2>5, <2>6, <2>7, <2>8, <2>9 DEF QuicMoves
<1>5. ASSUME NEW m \in Payloads, Reads(m) PROVE StreamShape'
  <2>1. /\ reading = "payload" /\ expected = m /\ stream # << >> /\ Head(stream) = Body(m)
        /\ stream' = Tail(stream) /\ reading' = "off"
        /\ UNCHANGED <<listener, conn, writing, carried, torn>>
    BY <1>5 DEF Reads, QuicReadPayload
  <2>2. StreamShape /\ ~Unmarked
    BY <1>1, <2>1 DEF SetupShape, Unmarked
  <2>3. ASSUME NEW d, Follows(Head(stream), d) PROVE First(d)'
    <3>1. \E k \in Payloads : d = Prefix(k)
      BY <2>1, <2>3, Chunks, FollowsKinds
    <3> QED
      BY <2>1, <2>2, <3>1 DEF First, Unmarked
  <2>4. \A k : Head(stream) # Prefix(k)
    BY <2>1, ChunkKinds
  <2> QED
    BY <2>1, <2>2, <2>3, <2>4, TailShape
<1>6. ASSUME NEW t \in Tasks, Aborts(t) PROVE StreamShape'
  <2>1. UNCHANGED <<stream, reading, expected, listener, conn>> /\ torn = FALSE /\ writing # t
    BY <1>0, <1>6 DEF Aborts, QuicSendAborted
  <2>2. UNCHANGED <<writing, torn>>
    BY <1>0, <1>6, <2>1 DEF Aborts, QuicSendAborted
  <2>3. writing # NoTask => Cargo(writing)' = Cargo(writing)
    BY <1>0, <1>6, <2>1, <2>2 DEF Aborts, Cargo
  <2> QED
    BY <1>1, <2>1, <2>2, <2>3, SameShape DEF Unmarked
<1>7. ASSUME NEW t \in Tasks, Fails(t) PROVE StreamShape'
  <2>1. UNCHANGED <<stream, reading, expected, listener, conn, torn>> /\ conn = "closed"
    BY <1>7 DEF Fails, QuicSendFails
  <2> QED
    BY <1>1, <2>1 DEF StreamShape, First, Unmarked
<1>8. ASSUME NEW t \in Tasks, Cargo(t) \in Payloads, Begins(t) PROVE StreamShape'
  <2>1. /\ dialer = "ready" /\ conn = "up" /\ writing = NoTask /\ writing' = t
        /\ stream' = Append(stream, Prefix(Cargo(t)))
        /\ UNCHANGED <<listener, reading, expected, carried, torn>>
    BY <1>8 DEF Begins, QuicSendPrefix
  <2>2. StreamShape /\ ~Unfinished
    BY <1>1, <2>1 DEF StreamShape
  <2>3. ASSUME stream = << >> PROVE First(Prefix(Cargo(t)))
    <3>1. ~Unmarked /\ reading # "payload"
      BY <2>1, <2>2, <2>3 DEF SetupShape, Unfinished
    <3> QED
      BY <1>8, <3>1 DEF First
  <2>4. ASSUME stream # << >> PROVE Follows(Last(stream), Prefix(Cargo(t)))
    BY <1>8, <2>2, <2>4 DEF Unfinished, Follows
  <2>5. Prefix(Cargo(t)) \in Chunk /\ Cargo(writing)' = Cargo(t) /\ writing' # NoTask
    BY <1>0, <1>8, <2>1, Chunks DEF Cargo
  <2> QED
    BY <2>1, <2>2, <2>3, <2>4, <2>5, AppendShape
<1>9. ASSUME NEW t \in Tasks, Cargo(t) \in Payloads, Ends(t) PROVE StreamShape'
  <2>1. /\ conn = "up" /\ writing = t /\ writing' = NoTask
        /\ stream' = Append(stream, Body(Cargo(t)))
        /\ UNCHANGED <<listener, reading, expected, torn>>
    BY <1>9 DEF Ends, QuicSendPayload
  <2>2. StreamShape /\ LastIs(Cargo(t))
    BY <1>0, <1>1, <2>1 DEF StreamShape
  <2>3. ASSUME stream = << >> PROVE First(Body(Cargo(t)))
    BY <2>2, <2>3 DEF First, LastIs, SetupShape, Unmarked
  <2>4. ASSUME stream # << >> PROVE Follows(Last(stream), Body(Cargo(t)))
    <3>1. Last(stream) = Prefix(Cargo(t))
      BY <2>2, <2>4 DEF LastIs
    <3> QED
      BY <3>1, ChunkKinds DEF Follows
  <2>5. Body(Cargo(t)) \in Chunk /\ Body(Cargo(t)).part # "prefix"
    BY <1>9, Chunks, ChunkKinds
  <2> QED
    BY <2>1, <2>2, <2>3, <2>4, <2>5, AppendShape
<1> QED
  BY <1>2, <1>4, <1>5, <1>6, <1>7, <1>8, <1>9 DEF QuicEvent

-----------------------------------------------------------------------------
(* The payloads on the stream *)

Parts == {"marker", "prefix", "payload", "junk"}
Numbers == Payloads \cup {NoPayload}
Comings == Parts \X Numbers
Coming(s) == [i \in DOMAIN s |-> <<s[i].part, s[i].of>>]
Bodies(s) == Via("payload", Coming(s))

LEMMA ComingsSecond == Second(Comings, Numbers)
  BY DEF Second, Comings

LEMMA ComingType ==
  ASSUME NEW s \in Seq(Chunk)
  PROVE  /\ Coming(s) \in Seq(Comings) /\ Len(Coming(s)) = Len(s)
         /\ \A i \in 1..Len(s) : Coming(s)[i] = <<s[i].part, s[i].of>>
         /\ \A i \in 1..Len(s) : s[i] \in Chunk
         /\ Coming(s) = << >> <=> s = << >>
<1> DEFINE E(i) == <<s[i].part, s[i].of>>  q == [i \in 1..Len(s) |-> E(i)]
<1>1. Len(s) \in Nat /\ DOMAIN s = 1..Len(s) /\ \A i \in 1..Len(s) : s[i] \in Chunk
  BY LenProperties, ElementOfSeq
<1>2. \A i \in 1..Len(s) : E(i) \in Comings
  BY <1>1 DEF Chunk, Comings, Parts, Numbers
<1>3. Coming(s) = q
  BY <1>1 DEF Coming
<1> HIDE DEF E
<1>4. q \in Seq(Comings)
  BY <1>1, <1>2, IsASeq
<1>5. q \in [1..Len(s) -> Comings]
  BY <1>2
<1>6. Len(q) = Len(s)
  BY <1>1, <1>4, <1>5, LenProperties
<1>7. \A i \in 1..Len(s) : q[i] = E(i)
  OBVIOUS
<1>8. q = << >> <=> s = << >>
  BY <1>4, <1>6, EmptySeq
<1> QED
  BY <1>1, <1>3, <1>4, <1>6, <1>7, <1>8 DEF E

LEMMA ComingAppend ==
  ASSUME NEW s \in Seq(Chunk), NEW c \in Chunk
  PROVE  /\ <<c.part, c.of>> \in Comings
         /\ Coming(Append(s, c)) = Append(Coming(s), <<c.part, c.of>>)
<1> DEFINE r == Append(s, c)  a == Coming(r)  b == Coming(s)  e == <<c.part, c.of>>
           d == Append(b, e)  n == Len(s)
<1>1. /\ r \in Seq(Chunk) /\ Len(r) = n + 1 /\ n \in Nat /\ r[n + 1] = c
      /\ \A i \in 1..n : r[i] = s[i]
  BY AppendProperties, LenProperties
<1> HIDE DEF r
<1>2. a \in Seq(Comings) /\ Len(a) = n + 1 /\ \A i \in 1..(n + 1) : a[i] = <<r[i].part, r[i].of>>
  BY <1>1, ComingType
<1>3. b \in Seq(Comings) /\ Len(b) = n /\ \A i \in 1..n : b[i] = <<s[i].part, s[i].of>>
  BY ComingType
<1> HIDE DEF a, b
<1>4. e \in Comings
  BY DEF Chunk, Comings, Parts, Numbers
<1>5. d \in Seq(Comings) /\ Len(d) = n + 1 /\ d[n + 1] = e /\ \A i \in 1..n : d[i] = b[i]
  BY <1>3, <1>4, AppendProperties
<1> HIDE DEF d
<1>6. ASSUME NEW i \in 1..(n + 1) PROVE a[i] = d[i]
  <2>1. CASE i = n + 1
    BY <1>1, <1>2, <1>5, <2>1
  <2>2. CASE i \in 1..n
    <3>1. a[i] = <<s[i].part, s[i].of>>
      BY <1>1, <1>2, <2>2
    <3> QED
      BY <1>3, <1>5, <2>2, <3>1
  <2> QED
    BY <1>1, <2>1, <2>2
<1>7. a = d
  BY <1>2, <1>5, <1>6, SeqEqual
<1> QED
  BY <1>4, <1>7 DEF a, b, d, r

LEMMA ComingTail ==
  ASSUME NEW s \in Seq(Chunk), s # << >>
  PROVE  /\ Coming(s) # << >>
         /\ Head(Coming(s)) = <<Head(s).part, Head(s).of>>
         /\ Coming(Tail(s)) = Tail(Coming(s))
<1> DEFINE r == Tail(s)  a == Coming(r)  b == Coming(s)  d == Tail(b)  n == Len(s)
<1>1. /\ r \in Seq(Chunk) /\ Len(r) = n - 1 /\ n \in Nat /\ n # 0 /\ Head(s) = s[1]
      /\ \A i \in 1..(n - 1) : r[i] = s[i + 1]
  BY HeadTailProperties, LenProperties, EmptySeq
<1> HIDE DEF r
<1>2. a \in Seq(Comings) /\ Len(a) = n - 1 /\ \A i \in 1..(n - 1) : a[i] = <<r[i].part, r[i].of>>
  BY <1>1, ComingType
<1>3. /\ b \in Seq(Comings) /\ b # << >> /\ Len(b) = n
      /\ \A i \in 1..n : b[i] = <<s[i].part, s[i].of>>
  BY ComingType
<1> HIDE DEF a, b
<1>4. /\ d \in Seq(Comings) /\ Len(d) = n - 1 /\ Head(b) = b[1]
      /\ \A i \in 1..(n - 1) : d[i] = b[i + 1]
  BY <1>3, HeadTailProperties
<1> HIDE DEF d
<1>5. ASSUME NEW i \in 1..(n - 1) PROVE a[i] = d[i]
  <2>1. i + 1 \in 1..n
    BY <1>1
  <2> QED
    BY <1>1, <1>2, <1>3, <1>4, <2>1
<1>6. a = d
  BY <1>2, <1>4, <1>5, SeqEqual
<1>7. Head(b) = <<Head(s).part, Head(s).of>>
  <2>1. 1 \in 1..n
    BY <1>1
  <2> QED
    BY <1>1, <1>3, <1>4, <2>1
<1> QED
  BY <1>3, <1>6, <1>7 DEF a, b, d, r

LEMMA ComingSubSeq ==
  ASSUME NEW s \in Seq(Chunk), NEW n \in 0..Len(s)
  PROVE  Coming(SubSeq(s, 1, n)) = SubSeq(Coming(s), 1, n)
<1> DEFINE r == SubSeq(s, 1, n)  a == Coming(r)  b == Coming(s)  d == SubSeq(b, 1, n)
<1>0. Len(s) \in Nat /\ n \in Nat /\ n <= Len(s) /\ n \in Int /\ 1 \in Int
      /\ \A i \in 1..n : i \in 1..Len(s)
  BY LenProperties
<1>1. r \in Seq(Chunk) /\ Len(r) = n /\ \A i \in 1..n : r[i] = s[i]
  <2>1. \A i \in 1..n : s[i] \in Chunk
    BY <1>0, ElementOfSeq
  <2>2. /\ r \in Seq(Chunk) /\ Len(r) = IF 1 <= n THEN n - 1 + 1 ELSE 0
        /\ \A i \in 1..(n - 1 + 1) : r[i] = s[1 + i - 1]
    BY <1>0, <2>1, SubSeqProperties
  <2> HIDE DEF r
  <2> QED
    BY <1>0, <2>2
<1> HIDE DEF r
<1>2. a \in Seq(Comings) /\ Len(a) = n /\ \A i \in 1..n : a[i] = <<r[i].part, r[i].of>>
  BY <1>1, ComingType
<1>3. /\ b \in Seq(Comings) /\ Len(b) = Len(s)
      /\ \A i \in 1..Len(s) : b[i] = <<s[i].part, s[i].of>>
  BY ComingType
<1> HIDE DEF a, b
<1>4. d \in Seq(Comings) /\ Len(d) = n /\ \A i \in 1..n : d[i] = b[i]
  <2>1. \A i \in 1..n : b[i] \in Comings
    BY <1>0, <1>3, ElementOfSeq
  <2>2. /\ d \in Seq(Comings) /\ Len(d) = IF 1 <= n THEN n - 1 + 1 ELSE 0
        /\ \A i \in 1..(n - 1 + 1) : d[i] = b[1 + i - 1]
    BY <1>0, <2>1, SubSeqProperties
  <2> HIDE DEF d
  <2> QED
    BY <1>0, <2>2
<1> HIDE DEF d
<1>5. ASSUME NEW i \in 1..n PROVE a[i] = d[i]
  BY <1>0, <1>1, <1>2, <1>3, <1>4
<1>6. a = d
  BY <1>2, <1>4, <1>5, SeqEqual
<1> QED
  BY <1>6 DEF a, b, d, r

LEMMA BodiesType ==
  ASSUME NEW s \in Seq(Chunk)
  PROVE  Bodies(s) \in Seq(Numbers)
  BY ComingType, ComingsSecond, ViaType DEF Bodies

LEMMA BodiesEmpty == Bodies(<< >>) = << >>
<1>1. << >> \in Seq(Chunk)
  BY EmptySeq
<1>2. Coming(<< >>) = << >>
  BY <1>1, ComingType
<1> QED
  BY <1>2, ViaEmpty DEF Bodies

LEMMA BodiesAppend ==
  ASSUME NEW s \in Seq(Chunk), NEW c \in Chunk
  PROVE  Bodies(Append(s, c)) =
           IF c.part = "payload" THEN Append(Bodies(s), c.of) ELSE Bodies(s)
<1> DEFINE e == <<c.part, c.of>>  a == Coming(s)
<1>1. e \in Comings /\ Coming(Append(s, c)) = Append(a, e) /\ e[1] = c.part /\ e[2] = c.of
  BY ComingAppend
<1>2. a \in Seq(Comings)
  BY ComingType
<1> HIDE DEF e, a
<1>3. Via("payload", Append(a, e)) =
        IF e[1] = "payload" THEN Append(Via("payload", a), e[2]) ELSE Via("payload", a)
  BY <1>1, <1>2, ComingsSecond, ViaAppend
<1> QED
  BY <1>1, <1>3 DEF Bodies, a

LEMMA BodiesTail ==
  ASSUME NEW s \in Seq(Chunk), s # << >>
  PROVE  Bodies(s) = (IF Head(s).part = "payload" THEN <<Head(s).of>> ELSE << >>)
                       \o Bodies(Tail(s))
<1> DEFINE a == Coming(s)  h == Head(a)
<1>1. /\ a \in Seq(Comings) /\ a # << >> /\ Coming(Tail(s)) = Tail(a)
      /\ h[1] = Head(s).part /\ h[2] = Head(s).of
  BY ComingTail, ComingType
<1> HIDE DEF a
<1>2. Via("payload", a) = (IF h[1] = "payload" THEN <<h[2]>> ELSE << >>)
                            \o Via("payload", Tail(a))
  BY <1>1, ComingsSecond, ViaTail
<1> QED
  BY <1>1, <1>2 DEF Bodies, a

LEMMA BodiesSubSeq ==
  ASSUME NEW s \in Seq(Chunk), NEW n \in 0..Len(s)
  PROVE  StartsWith(Bodies(s), Bodies(SubSeq(s, 1, n)), Numbers)
<1> DEFINE a == Coming(s)
<1>1. a \in Seq(Comings) /\ n \in 0..Len(a) /\ Coming(SubSeq(s, 1, n)) = SubSeq(a, 1, n)
  BY ComingType, ComingSubSeq
<1> HIDE DEF a
<1>2. StartsWith(Via("payload", a), Via("payload", SubSeq(a, 1, n)), Numbers)
  BY <1>1, ComingsSecond, ViaSubSeq
<1> QED
  BY <1>1, <1>2 DEF Bodies, a

LEMMA PrefixAppend ==
  ASSUME NEW S, NEW s \in Seq(S), NEW t \in Seq(S), NEW e \in S, IsPrefix(s, t)
  PROVE  IsPrefix(s, Append(t, e))
<1> DEFINE r == Append(t, e)  n == Len(s)
<1>1. /\ r \in Seq(S) /\ Len(r) = Len(t) + 1 /\ n \in Nat /\ Len(t) \in Nat /\ n <= Len(t)
      /\ \A i \in 1..Len(t) : r[i] = t[i] /\ t[i] \in S
      /\ SubSeq(s, 1, n) = SubSeq(t, 1, n)
  BY AppendProperties, LenProperties, ElementOfSeq DEF IsPrefix
<1> HIDE DEF r
<1>2. SubSeq(r, 1, n) = SubSeq(t, 1, n)
  <2> DEFINE a == SubSeq(r, 1, n)  b == SubSeq(t, 1, n)
  <2>1. n \in Int /\ 1 \in Int /\ \A i \in 1..n : r[i] = t[i] /\ t[i] \in S /\ r[i] \in S
    BY <1>1
  <2>2. /\ a \in Seq(S) /\ Len(a) = IF 1 <= n THEN n - 1 + 1 ELSE 0
        /\ \A i \in 1..(n - 1 + 1) : a[i] = r[1 + i - 1]
    BY <2>1, SubSeqProperties
  <2>3. /\ b \in Seq(S) /\ Len(b) = IF 1 <= n THEN n - 1 + 1 ELSE 0
        /\ \A i \in 1..(n - 1 + 1) : b[i] = t[1 + i - 1]
    BY <2>1, SubSeqProperties
  <2> HIDE DEF a, b
  <2>4. Len(a) = n /\ Len(b) = n /\ \A i \in 1..n : a[i] = b[i]
    BY <1>1, <2>1, <2>2, <2>3
  <2>5. a = b
    BY <2>2, <2>3, <2>4, SeqEqual
  <2> QED
    BY <2>5 DEF a, b
<1> QED
  BY <1>1, <1>2 DEF IsPrefix, r

LEMMA LongerBehind ==
  ASSUME NEW S, NEW s \in Seq(S), NEW t \in Seq(S), NEW u \in Seq(S)
  PROVE  IsPrefix(s \o t, s \o (t \o u))
<1>1. s \o t \in Seq(S)
  BY ConcatProperties
<1>4. \A x, y, z \in Seq(S) : (x \o y) \o z = x \o (y \o z)
  BY ConcatAssociative, SMTT(30)
<1>2. (s \o t) \o u = s \o (t \o u)
  BY <1>4
<1>3. IsPrefix(s \o t, (s \o t) \o u)
  BY <1>1, PrefixOfConcat
<1> QED
  BY <1>2, <1>3

LEMMA ViaNumbers ==
  ASSUME NEW s \in Seq(Transports \X Payloads), NEW tr
  PROVE  Via(tr, s) \in Seq(Numbers)
<1> DEFINE T == Transports \X Payloads
<1>1. s \in Seq(T) /\ Second(T, Numbers)
  BY DEF Second, Numbers
<1> HIDE DEF T
<1> QED
  BY <1>1, ViaType

-----------------------------------------------------------------------------
(* The order *)

\* What recv has returned or is still to read of what QUIC was handed.
QuicLine == Via("quic", returned) \o Bodies(stream)

LEMMA QuicLineIsOnQuic == OnQuic = QuicLine
  BY DEF OnQuic, QuicLine, Bodies, Coming

QuicOrder ==
  ~torn => /\ IsPrefix(QuicLine, Via("quic", handed))
           /\ conn # "closed" => QuicLine = Via("quic", handed)

LEMMA QuicOrderStep ==
  ASSUME TypeInv, SetupShape, FramesInv, QuicOrder, QuicEvent
  PROVE  QuicOrder'
<1> DEFINE R == Via("quic", returned)  H == Via("quic", handed)  b == Bodies(stream)
<1>0. /\ R \in Seq(Numbers) /\ H \in Seq(Numbers) /\ b \in Seq(Numbers)
      /\ stream \in Seq(Chunk) /\ QuicLine = R \o b
  BY ViaNumbers, BodiesType DEF TypeInv, RestTypes, QuicTypeOK, QuicLine
<1>1. SUFFICES ASSUME ~torn' PROVE QuicOrder'
  BY DEF QuicOrder
<1>2. ASSUME torn' = torn PROVE StreamShape /\ ~torn
  BY <1>1, <1>2 DEF FramesInv
<1> HIDE DEF R, H, b
<1>3. ASSUME torn' = torn, UNCHANGED <<R, H>>, b' = b, conn' # "closed" => conn # "closed"
      PROVE  QuicOrder'
  BY <1>1, <1>3 DEF QuicOrder, QuicLine, R, H, b
<1>4. CASE SameVia("quic") /\ UNCHANGED <<stream, torn, conn>>
  BY <1>3, <1>4 DEF SameVia, R, H, b
<1>5. ASSUME stream # << >>, stream' = Tail(stream), Head(stream).part # "payload" PROVE b' = b
  <2> DEFINE c == Bodies(Tail(stream))
  <2>1. b = << >> \o c
    BY <1>0, <1>5, BodiesTail DEF b
  <2>2. Tail(stream) \in Seq(Chunk)
    BY <1>0, <1>5, HeadTailProperties
  <2>3. c \in Seq(Numbers)
    BY <2>2, BodiesType
  <2>4. b' = c
    BY <1>5 DEF b
  <2> HIDE DEF c
  <2> QED
    BY <2>1, <2>3, <2>4, ConcatEmptySeq
<1>6. ASSUME NEW e \in Chunk, e.part # "payload", stream' = Append(stream, e) PROVE b' = b
  BY <1>0, <1>6, BodiesAppend DEF b
<1>7. CASE Aside
  BY <1>4, <1>7 DEF Aside, quicVars
<1>8. CASE QuicMoves
  <2>0. SameVia("quic") /\ UNCHANGED <<R, H>>
    BY <1>8 DEF QuicMoves, SameVia, R, H
  <2>1. CASE QuicDial \/ QuicRecvCalled \/ QuicRecvClosed
    <3>1. UNCHANGED <<stream, torn>> /\ (conn' # "closed" => conn # "closed")
      BY <2>1 DEF QuicDial, QuicRecvCalled, QuicRecvClosed, SetupShape
    <3> QED
      BY <1>3, <2>0, <3>1 DEF b
  <2>2. CASE QuicOpen
    <3>1. UNCHANGED <<torn, conn>> /\ (stream' = stream \/ stream' = Append(stream, Marker))
      BY <2>2 DEF QuicOpen
    <3>2. b' = b
      BY <1>6, <3>1, Chunks, ChunkKinds DEF b
    <3> QED
      BY <1>3, <2>0, <3>1, <3>2
  <2>3. CASE QuicAccept
    <3>1. UNCHANGED <<torn, conn>>
      BY <2>3 DEF QuicAccept
    <3>2. CASE UNCHANGED stream
      BY <1>4, <2>0, <3>1, <3>2
    <3>3. CASE listener = "marker" /\ stream # << >> /\ stream' = Tail(stream)
      <4>1. Head(stream) = Marker
        BY <1>2, <3>1, <3>3 DEF StreamShape, First, Unmarked
      <4>2. b' = b
        BY <1>5, <3>3, <4>1, ChunkKinds
      <4> QED
        BY <1>3, <2>0, <3>1, <4>2
    <3> QED
      BY <2>3, <3>2, <3>3 DEF QuicAccept
  <2>4. CASE QuicCloses
    <3>1. PICK n \in 0..Len(stream) : stream' = SubSeq(stream, 1, n)
      BY <2>4 DEF QuicCloses
    <3>2. torn' = torn /\ conn = "up" /\ conn' = "closed"
      BY <2>4 DEF QuicCloses, readVars
    <3>3. b' = Bodies(SubSeq(stream, 1, n))
      BY <3>1 DEF b
    <3>4. StartsWith(b, b', Numbers)
      BY <1>0, <3>3, BodiesSubSeq DEF b
    <3>5. PICK rest \in Seq(Numbers) : b = b' \o rest
      BY <3>4 DEF StartsWith
    <3>6. b' \in Seq(Numbers)
      <4>1. Len(stream) \in Nat
        BY <1>0, LenProperties
      <4>2. n \in Int /\ 1 \in Int /\ \A i \in 1..n : stream[i] \in Chunk
        BY <1>0, <4>1, ElementOfSeq
      <4>3. SubSeq(stream, 1, n) \in Seq(Chunk)
        BY <4>2, SubSeqProperties
      <4> QED
        BY <3>3, <4>3, BodiesType
    <3>7. H = R \o b
      BY <1>0, <1>2, <3>2 DEF QuicOrder, H
    <3> DEFINE c == b'
    <3>a. c \in Seq(Numbers) /\ b = c \o rest
      BY <3>5, <3>6
    <3> HIDE DEF c
    <3>b. IsPrefix(R \o c, R \o (c \o rest))
      BY <1>0, <3>a, LongerBehind
    <3>8. IsPrefix(R \o b', H)
      BY <3>7, <3>a, <3>b DEF c
    <3>9. QuicLine' = R \o b' /\ Via("quic", handed)' = H
      BY <2>0 DEF QuicLine, R, H, b
    <3> QED
      BY <3>2, <3>8, <3>9 DEF QuicOrder
  <2>5. CASE QuicReadPrefix
    <3>1. /\ stream # << >> /\ Head(stream).part = "prefix" /\ stream' = Tail(stream)
          /\ conn' = conn
      BY <2>5 DEF QuicReadPrefix
    <3>2. torn' = torn
      BY <1>1, <2>5 DEF QuicReadPrefix
    <3>3. b' = b
      BY <1>5, <3>1
    <3> QED
      BY <1>3, <2>0, <3>1, <3>2, <3>3
  <2>6. CASE QuicRecvDropped
    <3>1. torn \in BOOLEAN
      BY DEF TypeInv, QuicTypeOK
    <3>2. torn' = torn /\ UNCHANGED <<conn, stream>>
      BY <1>1, <2>6, <3>1 DEF QuicRecvDropped
    <3> QED
      BY <1>4, <2>0, <3>2
  <2>7. CASE QuicMisreads
    <3>1. StreamShape
      BY <1>2, <2>7 DEF QuicMisreads
    <3> QED
      BY <2>7, <3>1, MisreadsTorn DEF TypeInv
  <2> QED
    BY <1>8, <2>1, <2>2, <2>3, <2>4, <2>5, <2>6, <2>7 DEF QuicMoves
<1>9. ASSUME NEW m \in Payloads, Reads(m) PROVE QuicOrder'
  <2>1. /\ stream # << >> /\ Head(stream) = Body(m) /\ stream' = Tail(stream)
        /\ UNCHANGED <<torn, conn>>
        /\ H' = H /\ R' = Append(R, m)
    BY <1>9 DEF Reads, QuicReadPayload, R, H
  <2> DEFINE c == Bodies(Tail(stream))
  <2>a. Head(stream).part = "payload" /\ Head(stream).of = m
    BY <2>1, ChunkKinds
  <2>2. b = <<m>> \o c /\ b' = c
    BY <1>0, <2>1, <2>a, BodiesTail DEF b
  <2>3. c \in Seq(Numbers) /\ m \in Numbers /\ <<m>> \in Seq(Numbers)
    <3>1. Tail(stream) \in Seq(Chunk)
      BY <1>0, <2>1, HeadTailProperties
    <3>2. c \in Seq(Numbers)
      BY <3>1, BodiesType
    <3>3. m \in Numbers
      BY DEF Numbers
    <3> QED
      BY <3>2, <3>3
  <2> HIDE DEF c
  <2>4. Append(R, m) = R \o <<m>>
    BY <1>0, <2>3, AppendIsConcat
  <2>5. (R \o <<m>>) \o c = R \o (<<m>> \o c)
    BY <1>0, <2>3, ConcatAssociative
  <2>6. R' \o b' = R \o b
    BY <2>1, <2>2, <2>4, <2>5
  <2>7. QuicLine' = QuicLine
    BY <1>0, <2>6 DEF QuicLine, R, b
  <2> QED
    BY <1>2, <2>1, <2>7 DEF QuicOrder, H
<1>10. ASSUME NEW t \in Tasks, Aborts(t) PROVE QuicOrder'
  <2>1. torn \in BOOLEAN
    BY DEF TypeInv, QuicTypeOK
  <2>2. torn' = torn /\ UNCHANGED <<conn, stream>>
    BY <1>1, <1>10, <2>1 DEF Aborts, QuicSendAborted
  <2> QED
    BY <1>4, <1>10, <2>2 DEF Aborts
<1>11. ASSUME NEW t \in Tasks, Fails(t) PROVE QuicOrder'
  BY <1>4, <1>11 DEF Fails, QuicSendFails
<1>12. ASSUME NEW t \in Tasks, Cargo(t) \in Payloads, Begins(t) PROVE QuicOrder'
  <2>1. /\ stream' = Append(stream, Prefix(Cargo(t))) /\ UNCHANGED <<conn, torn>>
        /\ UNCHANGED <<R, H>>
    BY <1>12 DEF Begins, QuicSendPrefix, SameVia, R, H
  <2>2. b' = b
    BY <1>6, <1>12, <2>1, Chunks, ChunkKinds
  <2> QED
    BY <1>3, <2>1, <2>2
<1>13. ASSUME NEW t \in Tasks, Cargo(t) \in Payloads, Ends(t) PROVE QuicOrder'
  <2> DEFINE m == Cargo(t)
  <2>1. /\ stream' = Append(stream, Body(m)) /\ UNCHANGED <<conn, torn>> /\ conn = "up"
        /\ R' = R /\ H' = Append(H, m)
    BY <1>13 DEF Ends, QuicSendPayload, R, H
  <2>2. Body(m) \in Chunk /\ m \in Numbers
    BY <1>13, Chunks DEF Numbers
  <2> HIDE DEF m
  <2>a. Body(m).part = "payload" /\ Body(m).of = m
    BY ChunkKinds
  <2>3. b' = Append(b, m)
    BY <1>0, <2>1, <2>2, <2>a, BodiesAppend DEF b
  <2>4. R \o b = H
    BY <1>0, <1>2, <2>1 DEF QuicOrder, H
  <2>5. R \o Append(b, m) = Append(R \o b, m)
    BY <1>0, <2>2, ConcatAppend
  <2>6. R' \o b' = H'
    BY <2>1, <2>3, <2>4, <2>5
  <2>7. QuicLine' = Via("quic", handed)' /\ H' \in Seq(Numbers)
    <3>1. H' \in Seq(Numbers)
      BY <1>0, <2>1, <2>2, AppendProperties
    <3> QED
      BY <2>6, <3>1 DEF QuicLine, R, b, H
  <2>8. IsPrefix(H', H')
    BY <2>7, PrefixOfItself
  <2> QED
    BY <2>7, <2>8 DEF QuicOrder, H
<1> QED
  BY <1>7, <1>8, <1>9, <1>10, <1>11, <1>12, <1>13 DEF QuicEvent

-----------------------------------------------------------------------------
(* What arrives *)

\* The payloads in r, and behind them those on the stream t, come in the order of h.
Within(x, h) == \E i \in 1..Len(h) : h[i] = x
Earlier(x, y, h) == \E i, j \in 1..Len(h) : i < j /\ h[i] = x /\ h[j] = y
Loaded(t, j) == j \in 1..Len(t) /\ t[j].part = "payload"

Orderly(r, t, h) ==
  /\ \A i \in 1..Len(r) : Within(r[i], h)
  /\ \A j : Loaded(t, j) => Within(t[j].of, h)
  /\ \A i, j \in 1..Len(r) : i < j => Earlier(r[i], r[j], h)
  /\ \A i \in 1..Len(r) : \A j : Loaded(t, j) => Earlier(r[i], t[j].of, h)
  /\ \A i, j : Loaded(t, i) /\ Loaded(t, j) /\ i < j => Earlier(t[i].of, t[j].of, h)

\* Every payload on u is on t, n places further back.
Shifted(u, t, n) == \A j : Loaded(u, j) => Loaded(t, j + n) /\ u[j] = t[j + n]

LEMMA OrderlyShift ==
  ASSUME NEW r, NEW t, NEW h, Orderly(r, t, h), NEW u \in Seq(Chunk), NEW n \in Nat,
         Shifted(u, t, n)
  PROVE  Orderly(r, u, h)
<1>1. \A i, j : Loaded(u, i) /\ Loaded(u, j) /\ i < j => i + n < j + n
  BY LenProperties DEF Loaded
<1>2. \A j : Loaded(u, j) => Loaded(t, j + n) /\ u[j].of = t[j + n].of
  BY DEF Shifted
<1>3. \A j : Loaded(u, j) => Within(u[j].of, h)
  BY <1>2 DEF Orderly
<1>4. \A i \in 1..Len(r) : \A j : Loaded(u, j) => Earlier(r[i], u[j].of, h)
  BY <1>2 DEF Orderly
<1>5. ASSUME NEW i, NEW j, Loaded(u, i), Loaded(u, j), i < j
      PROVE  Earlier(u[i].of, u[j].of, h)
  <2>1. Loaded(t, i + n) /\ Loaded(t, j + n) /\ i + n < j + n
    BY <1>1, <1>2, <1>5
  <2>2. Earlier(t[i + n].of, t[j + n].of, h)
    BY <2>1 DEF Orderly
  <2> QED
    BY <1>2, <1>5, <2>2
<1> QED
  BY <1>3, <1>4, <1>5 DEF Orderly

LEMMA TailShifted ==
  ASSUME NEW t \in Seq(Chunk), t # << >>
  PROVE  Shifted(Tail(t), t, 1)
<1>1. /\ Len(t) \in Nat /\ Len(Tail(t)) = Len(t) - 1
      /\ \A i \in 1..(Len(t) - 1) : Tail(t)[i] = t[i + 1]
  BY LenProperties, HeadTailProperties
<1> QED
  BY <1>1 DEF Shifted, Loaded

LEMMA SubSeqShifted ==
  ASSUME NEW t \in Seq(Chunk), NEW m \in 1..(Len(t) + 1), NEW n \in (m - 1)..Len(t)
  PROVE  /\ SubSeq(t, m, n) \in Seq(Chunk)
         /\ Shifted(SubSeq(t, m, n), t, m - 1)
<1> DEFINE u == SubSeq(t, m, n)
<1>1. Len(t) \in Nat /\ m \in Int /\ n \in Int /\ \A i \in m..n : t[i] \in Chunk
  BY LenProperties, ElementOfSeq
<1>2. /\ u \in Seq(Chunk) /\ Len(u) = IF m <= n THEN n - m + 1 ELSE 0
      /\ \A i \in 1..(n - m + 1) : u[i] = t[m + i - 1]
  BY <1>1, SubSeqProperties
<1> HIDE DEF u
<1>3. Len(u) = n - m + 1
  BY <1>1, <1>2
<1>4. ASSUME NEW j, Loaded(u, j) PROVE Loaded(t, j + (m - 1)) /\ u[j] = t[j + (m - 1)]
  <2>1. j \in 1..(n - m + 1) /\ j + (m - 1) \in 1..Len(t) /\ m + j - 1 = j + (m - 1)
    BY <1>1, <1>3, <1>4 DEF Loaded
  <2>2. u[j] = t[j + (m - 1)]
    BY <1>2, <2>1
  <2> QED
    BY <1>4, <2>1, <2>2 DEF Loaded
<1>5. Shifted(u, t, m - 1)
  BY <1>4 DEF Shifted
<1> QED
  BY <1>2, <1>5 DEF u

LEMMA ShiftedTwice ==
  ASSUME NEW t, NEW u, NEW w \in Seq(Chunk), NEW n \in Nat, Shifted(u, t, n), Shifted(w, u, 1)
  PROVE  Shifted(w, t, n + 1)
<1>1. ASSUME NEW j, Loaded(w, j) PROVE Loaded(t, j + (n + 1)) /\ w[j] = t[j + (n + 1)]
  <2>1. Loaded(u, j + 1) /\ w[j] = u[j + 1]
    BY <1>1 DEF Shifted
  <2>2. Loaded(t, (j + 1) + n) /\ u[j + 1] = t[(j + 1) + n]
    BY <2>1 DEF Shifted
  <2>3. (j + 1) + n = j + (n + 1)
    BY <1>1, LenProperties DEF Loaded
  <2> QED
    BY <2>1, <2>2, <2>3
<1> QED
  BY <1>1 DEF Shifted

\* A chunk that is no payload, before or behind the others.
LEMMA JunkBefore ==
  ASSUME NEW t, NEW w \in Seq(Chunk), NEW n \in Nat, Shifted(w, t, n + 1)
  PROVE  Shifted(<<Junk>> \o w, t, n) /\ <<Junk>> \o w \in Seq(Chunk)
<1> DEFINE u == <<Junk>> \o w
<1>1. <<Junk>> \in Seq(Chunk) /\ Len(<<Junk>>) = 1 /\ <<Junk>>[1] = Junk
  BY Chunks
<1>2. /\ u \in Seq(Chunk) /\ Len(u) = 1 + Len(w) /\ Len(w) \in Nat
      /\ u[1] = Junk /\ \A j \in 2..Len(u) : u[j] = w[j - 1]
  <2>1. /\ u \in Seq(Chunk) /\ Len(u) = Len(<<Junk>>) + Len(w)
        /\ \A i \in 1..Len(<<Junk>>) : u[i] = <<Junk>>[i]
        /\ \A i \in (Len(<<Junk>>) + 1)..(Len(<<Junk>>) + Len(w)) : u[i] = w[i - Len(<<Junk>>)]
    BY <1>1, ConcatProperties
  <2> QED
    BY <1>1, <2>1, LenProperties
<1> HIDE DEF u
<1>3. ASSUME NEW j, Loaded(u, j) PROVE Loaded(t, j + n) /\ u[j] = t[j + n]
  <2>1. j # 1
    BY <1>2, <1>3 DEF Loaded, Junk
  <2>2. j \in 2..Len(u) /\ j - 1 \in 1..Len(w) /\ u[j] = w[j - 1] /\ (j - 1) + (n + 1) = j + n
    BY <1>2, <1>3, <2>1 DEF Loaded
  <2>3. Loaded(w, j - 1)
    BY <1>3, <2>2 DEF Loaded
  <2> QED
    BY <2>2, <2>3 DEF Shifted
<1> QED
  BY <1>2, <1>3 DEF Shifted, u

LEMMA NonPayloadBehind ==
  ASSUME NEW t \in Seq(Chunk), NEW c \in Chunk, c.part # "payload"
  PROVE  Shifted(Append(t, c), t, 0) /\ Append(t, c) \in Seq(Chunk)
<1> DEFINE u == Append(t, c)
<1>1. /\ u \in Seq(Chunk) /\ Len(u) = Len(t) + 1 /\ Len(t) \in Nat
      /\ u[Len(t) + 1] = c /\ \A i \in 1..Len(t) : u[i] = t[i]
  BY AppendProperties, LenProperties
<1> HIDE DEF u
<1>2. ASSUME NEW j, Loaded(u, j) PROVE Loaded(t, j + 0) /\ u[j] = t[j + 0]
  <2>1. j \in 1..Len(t) /\ j + 0 = j
    BY <1>1, <1>2 DEF Loaded
  <2> QED
    BY <1>1, <1>2, <2>1 DEF Loaded
<1> QED
  BY <1>1, <1>2 DEF Shifted, u

\* The first payload on the stream is read.
LEMMA OrderlyRead ==
  ASSUME NEW r \in Seq(Numbers), NEW t \in Seq(Chunk), NEW h, Orderly(r, t, h), t # << >>,
         NEW m \in Numbers, Head(t).part = "payload", Head(t).of = m
  PROVE  Orderly(Append(r, m), Tail(t), h)
<1> DEFINE q == Append(r, m)  u == Tail(t)
<1>1. /\ Len(q) = Len(r) + 1 /\ Len(r) \in Nat /\ q[Len(r) + 1] = m
      /\ \A i \in 1..Len(r) : q[i] = r[i]
  BY AppendProperties, LenProperties
<1>2. u \in Seq(Chunk) /\ Shifted(u, t, 1) /\ Head(t) = t[1] /\ Len(t) \in Nat /\ Len(t) >= 1
  BY TailShifted, HeadTailProperties, LenProperties
<1> HIDE DEF q, u
<1>3. Loaded(t, 1) /\ t[1].of = m
  BY <1>2 DEF Loaded
<1>4. Orderly(r, u, h)
  BY <1>2, OrderlyShift
<1>5. Within(m, h) /\ \A i \in 1..Len(r) : Earlier(r[i], m, h)
  BY <1>3 DEF Orderly
<1>6. \A j : Loaded(u, j) => Earlier(m, u[j].of, h)
  <2>1. ASSUME NEW j, Loaded(u, j) PROVE Earlier(m, u[j].of, h)
    <3>1. Loaded(t, j + 1) /\ u[j] = t[j + 1] /\ 1 < j + 1
      BY <1>2, <2>1, LenProperties DEF Shifted, Loaded
    <3>2. Earlier(t[1].of, t[j + 1].of, h)
      BY <1>3, <3>1 DEF Orderly
    <3> QED
      BY <1>3, <3>1, <3>2
  <2> QED
    BY <2>1
<1>7. \A i \in 1..Len(q) : (i \in 1..Len(r) /\ q[i] = r[i]) \/ (i = Len(r) + 1 /\ q[i] = m)
  BY <1>1
<1>8. \A i \in 1..Len(q) : Within(q[i], h)
  BY <1>4, <1>5, <1>7 DEF Orderly
<1>9. \A i, j \in 1..Len(q) : i < j => Earlier(q[i], q[j], h)
  <2>1. ASSUME NEW i \in 1..Len(q), NEW j \in 1..Len(q), i < j PROVE Earlier(q[i], q[j], h)
    <3>1. i \in 1..Len(r) /\ q[i] = r[i]
      BY <1>1, <2>1
    <3> QED
      BY <1>4, <1>5, <1>7, <2>1, <3>1 DEF Orderly
  <2> QED
    BY <2>1
<1>10. \A i \in 1..Len(q) : \A j : Loaded(u, j) => Earlier(q[i], u[j].of, h)
  BY <1>4, <1>6, <1>7 DEF Orderly
<1> QED
  BY <1>4, <1>8, <1>9, <1>10 DEF Orderly, q, u

\* A payload is written, and handed over with that.
LEMMA OrderlyWrite ==
  ASSUME NEW r, NEW t \in Seq(Chunk), NEW h \in Seq(Numbers), Orderly(r, t, h),
         NEW m \in Numbers, NEW c \in Chunk, c.part = "payload", c.of = m
  PROVE  Orderly(r, Append(t, c), Append(h, m))
<1> DEFINE g == Append(h, m)  u == Append(t, c)
<1>1. /\ Len(g) = Len(h) + 1 /\ Len(h) \in Nat /\ g[Len(h) + 1] = m
      /\ \A i \in 1..Len(h) : g[i] = h[i]
  BY AppendProperties, LenProperties
<1>2. /\ Len(u) = Len(t) + 1 /\ Len(t) \in Nat /\ u[Len(t) + 1] = c
      /\ \A i \in 1..Len(t) : u[i] = t[i]
  BY AppendProperties, LenProperties
<1> HIDE DEF g, u
<1>3. \A x, y : Earlier(x, y, h) => Earlier(x, y, g)
  <2>1. 1..Len(h) \subseteq 1..Len(g)
    BY <1>1
  <2> QED
    BY <1>1, <2>1 DEF Earlier
<1>4. \A x : Within(x, h) => Within(x, g) /\ Earlier(x, m, g)
  <2>1. ASSUME NEW x, NEW i \in 1..Len(h), h[i] = x PROVE Within(x, g) /\ Earlier(x, m, g)
    <3>1. i \in 1..Len(g) /\ Len(h) + 1 \in 1..Len(g) /\ i < Len(h) + 1 /\ g[i] = x
      BY <1>1, <2>1
    <3> QED
      BY <1>1, <3>1 DEF Within, Earlier
  <2> QED
    BY <2>1 DEF Within
<1>5. Within(m, g)
  <2>1. Len(h) + 1 \in 1..Len(g)
    BY <1>1
  <2> QED
    BY <1>1, <2>1 DEF Within
<1>6. \A j : Loaded(u, j) => \/ Loaded(t, j) /\ u[j] = t[j]
                             \/ j = Len(t) + 1 /\ u[j].of = m
  BY <1>2 DEF Loaded
<1>7. \A j : Loaded(u, j) => Within(u[j].of, g)
  BY <1>4, <1>5, <1>6 DEF Orderly
<1>8. \A i \in 1..Len(r) : Within(r[i], g) /\ Earlier(r[i], m, g)
  BY <1>4 DEF Orderly
<1>9. \A i \in 1..Len(r) : \A j : Loaded(u, j) => Earlier(r[i], u[j].of, g)
  BY <1>3, <1>6, <1>8 DEF Orderly
<1>10. ASSUME NEW i, NEW j, Loaded(u, i), Loaded(u, j), i < j
       PROVE  Earlier(u[i].of, u[j].of, g)
  <2>1. Loaded(t, i) /\ u[i] = t[i]
    BY <1>2, <1>6, <1>10 DEF Loaded
  <2>2. CASE Loaded(t, j) /\ u[j] = t[j]
    BY <1>3, <1>10, <2>1, <2>2 DEF Orderly
  <2>3. CASE u[j].of = m
    <3>1. Within(t[i].of, h)
      BY <2>1 DEF Orderly
    <3> QED
      BY <1>4, <2>1, <2>3, <3>1
  <2> QED
    BY <1>6, <1>10, <2>2, <2>3
<1>11. \A i, j \in 1..Len(r) : i < j => Earlier(r[i], r[j], g)
  BY <1>3 DEF Orderly
<1> QED
  BY <1>7, <1>8, <1>9, <1>10, <1>11 DEF Orderly, g, u

\* What QUIC returns comes in order, whatever was cut before.
QuicOrderly == Orderly(Via("quic", returned), stream, Via("quic", handed))

LEMMA QuicOrderlyStep ==
  ASSUME TypeInv, QuicOrderly, QuicEvent
  PROVE  QuicOrderly'
<1> DEFINE R == Via("quic", returned)  H == Via("quic", handed)
<1>0. R \in Seq(Numbers) /\ H \in Seq(Numbers) /\ stream \in Seq(Chunk) /\ Orderly(R, stream, H)
  BY ViaNumbers DEF TypeInv, RestTypes, QuicTypeOK, QuicOrderly
<1> HIDE DEF R, H
<1>1. ASSUME NEW n \in Nat, NEW u \in Seq(Chunk), stream' = u, Shifted(u, stream, n),
             UNCHANGED <<R, H>>
      PROVE  QuicOrderly'
  <2>1. Orderly(R, u, H)
    BY <1>0, <1>1, OrderlyShift
  <2> QED
    BY <1>1, <2>1 DEF QuicOrderly, R, H
<1>2. ASSUME stream' = stream, UNCHANGED <<R, H>> PROVE QuicOrderly'
  BY <1>0, <1>2 DEF QuicOrderly, R, H
<1>3. ASSUME stream # << >>, stream' = Tail(stream), UNCHANGED <<R, H>> PROVE QuicOrderly'
  <2>1. Tail(stream) \in Seq(Chunk) /\ Shifted(Tail(stream), stream, 1)
    BY <1>0, <1>3, TailShifted, HeadTailProperties
  <2> QED
    BY <1>1, <1>3, <2>1
<1>4. ASSUME NEW c \in Chunk, c.part # "payload", stream' = Append(stream, c),
             UNCHANGED <<R, H>>
      PROVE  QuicOrderly'
  <2>1. Append(stream, c) \in Seq(Chunk) /\ Shifted(Append(stream, c), stream, 0)
    BY <1>0, <1>4, NonPayloadBehind
  <2> QED
    BY <1>1, <1>4, <2>1
<1>5. CASE Aside
  BY <1>2, <1>5 DEF Aside, quicVars, SameVia, R, H
<1>6. CASE QuicMoves
  <2>0. UNCHANGED <<R, H>>
    BY <1>6 DEF QuicMoves, SameVia, R, H
  <2>1. CASE QuicDial \/ QuicRecvCalled \/ QuicRecvClosed \/ QuicRecvDropped
    BY <1>2, <2>0, <2>1 DEF QuicDial, QuicRecvCalled, QuicRecvClosed, QuicRecvDropped
  <2>2. CASE QuicOpen
    <3>1. stream' = stream \/ stream' = Append(stream, Marker)
      BY <2>2 DEF QuicOpen
    <3> QED
      BY <1>2, <1>4, <2>0, <3>1, Chunks, ChunkKinds
  <2>3. CASE QuicAccept \/ QuicReadPrefix
    <3>1. stream' = stream \/ (stream # << >> /\ stream' = Tail(stream))
      BY <2>3 DEF QuicAccept, QuicReadPrefix
    <3> QED
      BY <1>2, <1>3, <2>0, <3>1
  <2>4. CASE QuicCloses
    <3>1. PICK n \in 0..Len(stream) : stream' = SubSeq(stream, 1, n)
      BY <2>4 DEF QuicCloses
    <3>2. Len(stream) \in Nat /\ 1 \in 1..(Len(stream) + 1) /\ n \in (1 - 1)..Len(stream)
      BY <1>0, <3>1, LenProperties
    <3>3. SubSeq(stream, 1, n) \in Seq(Chunk) /\ Shifted(SubSeq(stream, 1, n), stream, 1 - 1)
      BY <1>0, <3>2, SubSeqShifted
    <3>4. 1 - 1 \in Nat
      OBVIOUS
    <3> QED
      BY <1>1, <2>0, <3>1, <3>3, <3>4
  <2>5. CASE QuicMisreads
    <3>1. PICK n \in 0..Len(stream) :
            \/ stream' = SubSeq(stream, n + 1, Len(stream))
            \/ /\ SubSeq(stream, n + 1, Len(stream)) # << >>
               /\ stream' = <<Junk>> \o Tail(SubSeq(stream, n + 1, Len(stream)))
      BY <2>5 DEF QuicMisreads
    <3> DEFINE rest == SubSeq(stream, n + 1, Len(stream))
    <3>2. /\ Len(stream) \in Nat /\ n \in Nat /\ n + 1 \in 1..(Len(stream) + 1)
          /\ Len(stream) \in ((n + 1) - 1)..Len(stream) /\ (n + 1) - 1 = n
      BY <1>0, LenProperties
    <3>3. rest \in Seq(Chunk) /\ Shifted(rest, stream, n)
      BY <1>0, <3>2, SubSeqShifted
    <3>4. stream' = rest \/ (rest # << >> /\ stream' = <<Junk>> \o Tail(rest))
      BY <3>1
    <3> HIDE DEF rest
    <3>5. CASE stream' = rest
      BY <1>1, <2>0, <3>2, <3>3, <3>5
    <3>6. CASE rest # << >> /\ stream' = <<Junk>> \o Tail(rest)
      <4> DEFINE w == Tail(rest)
      <4>1. w \in Seq(Chunk) /\ Shifted(w, rest, 1)
        BY <3>3, <3>6, TailShifted, HeadTailProperties
      <4> HIDE DEF w
      <4>2. Shifted(w, stream, n + 1)
        BY <3>2, <3>3, <4>1, ShiftedTwice
      <4>3. Shifted(<<Junk>> \o w, stream, n) /\ <<Junk>> \o w \in Seq(Chunk)
        BY <3>2, <4>1, <4>2, JunkBefore
      <4>4. stream' = <<Junk>> \o w
        BY <3>6 DEF w
      <4> QED
        BY <1>1, <2>0, <3>2, <4>3, <4>4
    <3> QED
      BY <3>4, <3>5, <3>6
  <2> QED
    BY <1>6, <2>1, <2>2, <2>3, <2>4, <2>5 DEF QuicMoves
<1>7. ASSUME NEW m \in Payloads, Reads(m) PROVE QuicOrderly'
  <2>1. /\ stream # << >> /\ Head(stream) = Body(m) /\ stream' = Tail(stream)
        /\ H' = H /\ R' = Append(R, m)
    BY <1>7 DEF Reads, QuicReadPayload, R, H
  <2>2. Head(stream).part = "payload" /\ Head(stream).of = m /\ m \in Numbers
    BY <2>1, ChunkKinds DEF Numbers
  <2>3. Orderly(Append(R, m), Tail(stream), H)
    BY <1>0, <2>1, <2>2, OrderlyRead
  <2> QED
    BY <2>1, <2>3 DEF QuicOrderly, R, H
<1>8. ASSUME NEW t \in Tasks, Aborts(t) \/ Fails(t) PROVE QuicOrderly'
  BY <1>2, <1>8 DEF Aborts, Fails, QuicSendAborted, QuicSendFails, SameVia, R, H
<1>9. ASSUME NEW t \in Tasks, Cargo(t) \in Payloads, Begins(t) PROVE QuicOrderly'
  <2>1. stream' = Append(stream, Prefix(Cargo(t))) /\ UNCHANGED <<R, H>>
    BY <1>9 DEF Begins, QuicSendPrefix, SameVia, R, H
  <2>2. Prefix(Cargo(t)) \in Chunk /\ Prefix(Cargo(t)).part # "payload"
    BY <1>9, Chunks, ChunkKinds
  <2> QED
    BY <1>4, <2>1, <2>2
<1>10. ASSUME NEW t \in Tasks, Cargo(t) \in Payloads, Ends(t) PROVE QuicOrderly'
  <2> DEFINE m == Cargo(t)
  <2>1. stream' = Append(stream, Body(m)) /\ R' = R /\ H' = Append(H, m)
    BY <1>10 DEF Ends, QuicSendPayload, R, H
  <2>2. Body(m) \in Chunk /\ Body(m).part = "payload" /\ Body(m).of = m /\ m \in Numbers
    BY <1>10, Chunks, ChunkKinds DEF Numbers
  <2> HIDE DEF m
  <2>3. Orderly(R, Append(stream, Body(m)), Append(H, m))
    BY <1>0, <2>2, OrderlyWrite
  <2> QED
    BY <2>1, <2>3 DEF QuicOrderly, R, H
<1> QED
  BY <1>5, <1>6, <1>7, <1>8, <1>9, <1>10 DEF QuicEvent

\* What reader_loop has read is returned in the order of its arrival, or waits.
RelayKept == Via("relay", returned) \o incoming = arrived

LEMMA RelayKeptStep ==
  ASSUME TypeInv, RelayKept, RelayEvent
  PROVE  RelayKept'
<1> DEFINE R == Via("relay", returned)
<1>0. R \in Seq(Payloads) /\ incoming \in Seq(Payloads) /\ R \o incoming = arrived
  BY EntryViaType, Constants DEF TypeInv, RestTypes, RelayTransportTypeOK, RelayKept
<1> HIDE DEF R
<1>1. CASE SameVia("relay") /\ UNCHANGED <<incoming, arrived>>
  BY <1>0, <1>1 DEF SameVia, RelayKept, R
<1>2. CASE SameVia("relay") /\ (\/ UNCHANGED relayVars \/ RelayJoin \/ RelayLinkDrops
                                \/ RelayLinkNoticed \/ RelayLoses \/ RelayReaderExits
                                \/ RelaySendFails)
  BY <1>1, <1>2 DEF relayVars, RelayJoin, RelayLinkDrops, RelayLinkNoticed, RelayLoses,
     RelayReaderExits, RelaySendFails
<1>3. CASE SameVia("relay") /\ RelayRead
  <2>1. PICK m \in relayed : RelayArrives(m) /\ incoming' = Append(incoming, m)
    BY <1>3 DEF RelayRead
  <2>2. m \in Payloads /\ arrived' = Append(arrived, m) /\ R' = R
    BY <1>3, <2>1, Constants DEF RelayArrives, TypeInv, RelayTransportTypeOK, SameVia, R
  <2>3. R \o Append(incoming, m) = Append(R \o incoming, m)
    BY <1>0, <2>2, ConcatAppend
  <2>4. R' \o incoming' = arrived'
    BY <1>0, <2>1, <2>2, <2>3
  <2> QED
    BY <2>4 DEF RelayKept, R
<1>4. ASSUME NEW m \in Payloads, RelaySend(m), R' = R PROVE RelayKept'
  <2>1. UNCHANGED <<incoming, arrived>>
    BY <1>4 DEF RelaySend
  <2> QED
    BY <1>0, <1>4, <2>1 DEF RelayKept, R
<1>5. ASSUME NEW m \in Payloads, RelayRecv(m), R' = Append(R, m) PROVE RelayKept'
  <2>1. incoming # << >> /\ Head(incoming) = m /\ incoming' = Tail(incoming) /\ arrived' = arrived
    BY <1>5 DEF RelayRecv
  <2>2. Append(R, Head(incoming)) \o Tail(incoming) = R \o incoming
    BY <1>0, <2>1, MoveHead
  <2>3. R' \o incoming' = arrived'
    BY <1>0, <1>5, <2>1, <2>2
  <2> QED
    BY <2>3 DEF RelayKept, R
<1> QED
  BY <1>2, <1>3, <1>4, <1>5 DEF RelayEvent, R

-----------------------------------------------------------------------------
(* What recv returns *)

OrderInv ==
  /\ BuiltFirst /\ MutexShape /\ SetupShape /\ FramesInv /\ QuicOrder
  /\ QuicOrderly /\ RelayKept

LEMMA OrderInit == Init => OrderInv
<1> SUFFICES ASSUME Init PROVE OrderInv
  OBVIOUS
<1> USE DEF Init, QuicInit, RelayTransportInit
<1>1. BuiltFirst
  BY DEF BuiltFirst
<1>2. MutexShape
  BY Constants DEF MutexShape
<1>3. SetupShape
  BY DEF SetupShape
<1>4. FramesInv
  BY ChainedEmpty DEF FramesInv, StreamShape, Unfinished
<1>5. /\ Via("quic", returned) = << >> /\ Via("quic", handed) = << >>
      /\ Via("relay", returned) = << >> /\ Bodies(stream) = << >>
  BY ViaEmpty, BodiesEmpty
<1> DEFINE d == << >>
<1>6. d \in Seq(Numbers) /\ Len(d) = 0
  OBVIOUS
<1> HIDE DEF d
<1>7. d \o d = d /\ IsPrefix(d, d)
  BY <1>6, PrefixOfItself, ConcatEmptySeq DEF d
<1>8. QuicOrder
  BY <1>5, <1>7 DEF QuicOrder, QuicLine, d
<1>9. QuicOrderly
  <2>1. Orderly(d, d, d)
    BY <1>6 DEF Orderly, Loaded
  <2> QED
    BY <1>5, <2>1 DEF QuicOrderly, d
<1>10. RelayKept
  BY <1>5, <1>7 DEF RelayKept, d
<1> QED
  BY <1>1, <1>2, <1>3, <1>4, <1>8, <1>9, <1>10 DEF OrderInv

LEMMA OrderStep ==
  ASSUME TypeInv, OneInv, OrderInv, [Next]_vars
  PROVE  OrderInv'
<1> USE DEF OrderInv
<1>1. QuicEvent /\ RelayEvent /\ Counts
  BY StepEvents DEF Events
<1>2. BuiltFirst'
  BY <1>1 DEF Counts, BuiltFirst
<1>3. QuicTypeOK(Tasks) /\ TaskShape
  BY DEF TypeInv
<1>4. MutexShape'
  BY <1>1, <1>3, MutexStep
<1>5. SetupShape'
  BY <1>1, <1>3, SetupStep
<1>6. FramesInv'
  BY <1>1, <1>3, FramesStep
<1>7. QuicOrder'
  BY <1>1, QuicOrderStep
<1>8. QuicOrderly' /\ RelayKept'
  BY <1>1, QuicOrderlyStep, RelayKeptStep
<1> QED
  BY <1>2, <1>4, <1>5, <1>6, <1>7, <1>8

LEMMA OrderHolds == Spec => [](TypeInv /\ OrderInv)
<1>1. OrderInv /\ TypeInv /\ OneInv /\ [Next]_vars => OrderInv'
  BY OrderStep
<1>2. Spec => []OrderInv
  BY OrderInit, OneHolds, <1>1, PTL DEF Spec
<1> QED
  BY <1>2, OneHolds, PTL

\* Each return of recv drops the receive of the other transport. What QUIC returns comes
\* in the order in which it was handed over, each payload once, whatever was cut; and
\* what reader_loop has read from the relay is returned in the order of its arrival, or
\* waits.
THEOREM HybridReceivedInOrder == Spec => []ReceivedInOrder
<1>1. TypeInv /\ OrderInv => ReceivedInOrder
  <2> SUFFICES ASSUME TypeInv, OrderInv PROVE ReceivedInOrder
    OBVIOUS
  <2> DEFINE R == Via("quic", returned)  H == Via("quic", handed)
  <2>1. R \in Seq(Numbers) /\ H \in Seq(Numbers)
    BY ViaNumbers DEF TypeInv, RestTypes
  <2>2. Orderly(R, stream, H)
    BY DEF OrderInv, QuicOrderly
  <2>3. Via("relay", returned) \o incoming = arrived
    BY DEF OrderInv, RelayKept
  <2> HIDE DEF R, H
  <2>4. DOMAIN R = 1..Len(R) /\ DOMAIN H = 1..Len(H)
    BY <2>1, LenProperties
  <2>5. \A i, j \in DOMAIN R : i < j => Before(H, R[i], R[j])
    <3>1. \A i, j \in 1..Len(R) : i < j => Earlier(R[i], R[j], H)
      BY <2>2 DEF Orderly
    <3>2. \A x, y : Earlier(x, y, H) => Before(H, x, y)
      BY <2>4 DEF Earlier, Before
    <3> QED
      BY <2>4, <3>1, <3>2
  <2> QED
    BY <2>3, <2>5 DEF ReceivedInOrder, R, H
<1> QED
  BY <1>1, OrderHolds, PTL

\* A connected QUIC transport skips nothing that was handed to it before a frame is cut
\* (a dropped receive, an aborted flush, a refused length): nothing else loses one.
THEOREM HybridOnlyCutsSkip == Spec => []OnlyCutsSkip
<1>1. OrderInv => OnlyCutsSkip
  BY QuicLineIsOnQuic DEF OrderInv, QuicOrder, OnlyCutsSkip
<1> QED
  BY <1>1, OrderHolds, PTL
=============================================================================
