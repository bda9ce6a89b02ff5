---------------------------- MODULE Counting_proofs ----------------------------
(* Lemmas about the copies of a value on one list and on several, and about what the *)
(* list commands do to them.                                                         *)
EXTENDS RedisList, FiniteSetTheorems, FunctionTheorems, SequenceTheorems, TLAPS

LEMMA CopiesType ==
  ASSUME NEW S, NEW s \in Seq(S), NEW v
  PROVE  IsFiniteSet(Where(s, v)) /\ Copies(s, v) \in Nat
<1>1. Where(s, v) \in SUBSET (1 .. Len(s)) /\ Len(s) \in Nat
  BY LenProperties DEF Where
<1>2. IsFiniteSet(1 .. Len(s))
  BY <1>1, FS_Interval
<1> QED BY <1>1, <1>2, FS_Subset, FS_CardinalityType DEF Copies

LEMMA CopiesEmpty ==
  ASSUME NEW v
  PROVE  Copies(<< >>, v) = 0
<1>1. Where(<< >>, v) = {}
  BY DEF Where
<1> QED BY <1>1, FS_EmptySet DEF Copies

LEMMA CopiesAppend ==
  ASSUME NEW S, NEW s \in Seq(S), NEW e \in S, NEW v
  PROVE  Copies(Append(s, e), v) = Copies(s, v) + IF e = v THEN 1 ELSE 0
<1> DEFINE n == Len(s)
           a == Append(s, e)
<1>1. /\ n \in Nat /\ DOMAIN s = 1 .. n /\ DOMAIN a = 1 .. n + 1
      /\ \A i \in 1 .. n : a[i] = s[i]
      /\ a[n + 1] = e
  BY LenProperties, AppendProperties
<1>2. n + 1 \notin Where(s, v)
  BY <1>1 DEF Where
<1>3. IsFiniteSet(Where(s, v))
  BY CopiesType
<1>4. Where(a, v) = IF e = v THEN Where(s, v) \cup {n + 1} ELSE Where(s, v)
  <2>1. 1 .. n + 1 = (1 .. n) \cup {n + 1}
    BY <1>1
  <2> HIDE DEF n, a
  <2> QED BY <1>1, <2>1 DEF Where
<1>5. Copies(s, v) \in Nat
  BY CopiesType
<1>6. CASE e = v
  <2>1. Cardinality(Where(s, v) \cup {n + 1}) = Cardinality(Where(s, v)) + 1
    BY <1>2, <1>3, FS_AddElement
  <2> QED BY <1>4, <1>5, <1>6, <2>1 DEF Copies
<1>7. CASE e # v
  BY <1>4, <1>5, <1>7 DEF Copies
<1> QED BY <1>6, <1>7

LEMMA CopiesOne ==
  ASSUME NEW e, NEW v
  PROVE  Copies(<<e>>, v) = IF e = v THEN 1 ELSE 0
<1>1. << >> \in Seq({e}) /\ e \in {e} /\ <<e>> = Append(<< >>, e)
  OBVIOUS
<1>2. \A s \in Seq({e}) : Copies(Append(s, e), v) = Copies(s, v) + IF e = v THEN 1 ELSE 0
  BY <1>1, CopiesAppend
<1>3. Copies(Append(<< >>, e), v) = Copies(<< >>, v) + IF e = v THEN 1 ELSE 0
  BY <1>1, <1>2
<1> QED BY <1>1, <1>3, CopiesEmpty

LEMMA CopiesTail ==
  ASSUME NEW S, NEW s \in Seq(S), s # << >>, NEW v
  PROVE  Copies(s, v) = Copies(Tail(s), v) + IF Head(s) = v THEN 1 ELSE 0
<1> DEFINE n == Len(s)
           t == Tail(s)
           W == Where(s, v) \ {1}
           f == [i \in Where(t, v) |-> i + 1]
<1>1. /\ n \in Nat /\ n > 0 /\ DOMAIN s = 1 .. n /\ Head(s) = s[1]
      /\ t \in Seq(S) /\ DOMAIN t = 1 .. n - 1
      /\ \A i \in 1 .. n - 1 : t[i] = s[i + 1]
  BY LenProperties, HeadTailProperties, EmptySeq
<1>2. f \in Bijection(Where(t, v), W)
  <2> HIDE DEF t, n
  <2>1. f \in [Where(t, v) -> W]
    BY <1>1 DEF Where
  <2>2. \A i, j \in Where(t, v) : f[i] = f[j] => i = j
    BY <1>1 DEF Where
  <2>3. ASSUME NEW j \in W PROVE \E i \in Where(t, v) : f[i] = j
    <3>1. j - 1 \in Where(t, v)
      BY <1>1 DEF Where
    <3> QED BY <3>1, <1>1 DEF Where
  <2> QED BY <2>1, <2>2, <2>3, Fun_IsBij
<1>3. IsFiniteSet(Where(t, v)) /\ Copies(t, v) \in Nat
  BY <1>1, CopiesType
<1>4. IsFiniteSet(W) /\ Cardinality(W) = Copies(t, v)
  BY <1>2, <1>3, FS_Bijection, Fun_ExistsBij DEF Copies
<1>5. Where(s, v) = IF Head(s) = v THEN W \cup {1} ELSE W
  <2> HIDE DEF t, n
  <2> QED BY <1>1 DEF Where
<1>6. 1 \notin W
  OBVIOUS
<1> HIDE DEF W
<1>7. CASE Head(s) = v
  <2>1. Cardinality(W \cup {1}) = Cardinality(W) + 1
    BY <1>4, <1>6, FS_AddElement
  <2> QED BY <1>3, <1>4, <1>5, <1>7, <2>1 DEF Copies
<1>8. CASE Head(s) # v
  BY <1>3, <1>4, <1>5, <1>8 DEF Copies
<1> QED BY <1>7, <1>8

LEMMA CopiesWithoutLast ==
  ASSUME NEW S, NEW s \in Seq(S), s # << >>, NEW v
  PROVE  /\ SubSeq(s, 1, Len(s) - 1) \in Seq(S)
         /\ Len(SubSeq(s, 1, Len(s) - 1)) = Len(s) - 1
         /\ Copies(s, v) = Copies(SubSeq(s, 1, Len(s) - 1), v)
                           + IF s[Len(s)] = v THEN 1 ELSE 0
<1>1. PICK b \in Seq(S), e \in S : s = Append(b, e)
  BY SequenceEmptyOrAppend
<1>2. Len(b) \in Nat /\ Len(s) = Len(b) + 1 /\ s[Len(s)] = e
  BY <1>1, LenProperties, AppendProperties
<1>3. SubSeq(s, 1, Len(s) - 1) = b
  BY <1>1, <1>2
<1>4. Copies(Append(b, e), v) = Copies(b, v) + IF e = v THEN 1 ELSE 0
  BY CopiesAppend
<1>5. Len(s) - 1 = Len(b)
  BY <1>2
<1>6. (IF e = v THEN 1 ELSE 0) = IF s[Len(s)] = v THEN 1 ELSE 0
  BY <1>2
<1> QED BY <1>1, <1>3, <1>4, <1>5, <1>6

\* A value is at most once on a list without repetitions.
LEMMA CopiesInjective ==
  ASSUME NEW S, NEW s \in Seq(S), NEW v, \A i, j \in DOMAIN s : s[i] = s[j] => i = j
  PROVE  Copies(s, v) = IF \E i \in DOMAIN s : s[i] = v THEN 1 ELSE 0
<1>1. CASE \E i \in DOMAIN s : s[i] = v
  <2>1. PICK i \in DOMAIN s : s[i] = v
    BY <1>1
  <2>2. Where(s, v) = {i}
    BY <2>1 DEF Where
  <2> QED BY <1>1, <2>2, FS_Singleton DEF Copies
<1>2. CASE ~ \E i \in DOMAIN s : s[i] = v
  <2>1. Where(s, v) = {}
    BY <1>2 DEF Where
  <2> QED BY <1>2, <2>1, FS_EmptySet DEF Copies
<1> QED BY <1>1, <1>2
--------------------------------------------------------------------------------
(* Several lists. *)

\* Functions from K to lists, and functions that differ at x at most.
Lists(K, S) == [K -> Seq(S)]
SameBut(g, h, K, x) == \A k \in K \ {x} : g[k] = h[k]

LEMMA CopiesAmongType ==
  ASSUME NEW S, NEW K, IsFiniteSet(K), NEW h, h \in Lists(K, S), NEW v
  PROVE  IsFiniteSet(Spots(h, v)) /\ CopiesAmong(h, v) \in Nat
<1> DEFINE T == {{k} \X Where(h[k], v) : k \in K}
           f == [k \in K |-> {k} \X Where(h[k], v)]
<1>1. f \in Surjection(K, T)
  BY DEF Surjection
<1>2. IsFiniteSet(T)
  BY <1>1, FS_Surjection
<1>3. \A k \in K : IsFiniteSet({k} \X Where(h[k], v))
  BY CopiesType, FS_Singleton, FS_Product DEF Lists
<1>4. IsFiniteSet(Spots(h, v))
  BY <1>2, <1>3, FS_UNION DEF Spots, Lists
<1> QED BY <1>4, FS_CardinalityType DEF CopiesAmong

LEMMA CopiesAmongAdd ==
  ASSUME NEW S, NEW K, IsFiniteSet(K), NEW x \in K, NEW g, g \in Lists(K \ {x}, S),
         NEW h, h \in Lists(K, S), SameBut(h, g, K, x), NEW v
  PROVE  CopiesAmong(h, v) = CopiesAmong(g, v) + Copies(h[x], v)
<1> DEFINE W == {x} \X Where(h[x], v)
<1>1. h[x] \in Seq(S) /\ IsFiniteSet(K \ {x})
  BY FS_Subset DEF Lists
<1>2. IsFiniteSet(Spots(g, v)) /\ CopiesAmong(g, v) \in Nat
  BY <1>1, CopiesAmongType
<1>3. IsFiniteSet(Where(h[x], v)) /\ Copies(h[x], v) \in Nat
  BY <1>1, CopiesType
<1>4. IsFiniteSet({x}) /\ Cardinality({x}) = 1
  BY FS_Singleton
<1>5. IsFiniteSet(W) /\ Cardinality(W) = 1 * Copies(h[x], v)
  BY <1>3, <1>4, FS_Product DEF Copies
<1>6. Spots(h, v) = Spots(g, v) \cup W /\ Spots(g, v) \cap W = {}
  <2>1. DOMAIN h = K /\ DOMAIN g = K \ {x}
    BY DEF Lists
  <2> QED BY <2>1 DEF Spots, SameBut
<1>7. Cardinality(Spots(g, v) \cup W)
        = Cardinality(Spots(g, v)) + Cardinality(W) - Cardinality(Spots(g, v) \cap W)
  BY <1>2, <1>5, FS_Union
<1>8. Cardinality({}) = 0
  BY FS_EmptySet
<1> HIDE DEF W
<1>9. Cardinality(W) = Copies(h[x], v)
  BY <1>3, <1>5
<1>10. Cardinality(Spots(h, v)) = Cardinality(Spots(g, v)) + Cardinality(W) - 0
  BY <1>6, <1>7, <1>8
<1> QED BY <1>2, <1>3, <1>9, <1>10 DEF CopiesAmong

LEMMA CopiesAmongDiffer ==
  ASSUME NEW S, NEW K, IsFiniteSet(K), NEW h, h \in Lists(K, S), NEW g, g \in Lists(K, S),
         NEW v, NEW x \in K, SameBut(g, h, K, x)
  PROVE  CopiesAmong(g, v) = CopiesAmong(h, v) - Copies(h[x], v) + Copies(g[x], v)
<1> DEFINE r == [k \in K \ {x} |-> h[k]]
<1>1. IsFiniteSet(K \ {x})
  BY FS_Subset
<1>2. r \in Lists(K \ {x}, S) /\ SameBut(h, r, K, x) /\ SameBut(g, r, K, x)
  BY DEF Lists, SameBut
<1> HIDE DEF r
<1>3. CopiesAmong(h, v) = CopiesAmong(r, v) + Copies(h[x], v)
  BY <1>2, CopiesAmongAdd
<1>4. CopiesAmong(g, v) = CopiesAmong(r, v) + Copies(g[x], v)
  BY <1>2, CopiesAmongAdd
<1>5. CopiesAmong(r, v) \in Nat
  BY <1>1, <1>2, CopiesAmongType
<1>6. Copies(h[x], v) \in Nat /\ Copies(g[x], v) \in Nat
  BY CopiesType DEF Lists
<1> QED BY <1>3, <1>4, <1>5, <1>6

\* The lists of A are emptied.
LEMMA CopiesAmongClear ==
  ASSUME NEW S, NEW K, IsFiniteSet(K), NEW A, A \subseteq K, NEW v,
         NEW h, h \in Lists(K, S), NEW g, g = [k \in K |-> IF k \in A THEN << >> ELSE h[k]]
  PROVE  /\ g \in Lists(K, S)
         /\ CopiesAmong(h, v) = CopiesAmong(g, v) + CopiesAt(h, A, v)
         /\ CopiesAt(h, A, v) \in Nat
<1> DEFINE r == [k \in A |-> h[k]]
<1>1. g \in Lists(K, S) /\ r \in Lists(A, S) /\ IsFiniteSet(A)
  BY FS_Subset DEF Lists
<1>2. /\ IsFiniteSet(Spots(g, v)) /\ CopiesAmong(g, v) \in Nat
      /\ IsFiniteSet(Spots(r, v)) /\ CopiesAmong(r, v) \in Nat
  BY <1>1, CopiesAmongType
<1>3. Where(<< >>, v) = {}
  BY DEF Where
<1>4. Spots(h, v) = Spots(g, v) \cup Spots(r, v) /\ Spots(g, v) \cap Spots(r, v) = {}
  <2>1. DOMAIN h = K /\ DOMAIN g = K /\ DOMAIN r = A
    BY DEF Lists
  <2>2. \A k \in A : r[k] = h[k] /\ g[k] = << >>
    OBVIOUS
  <2>3. \A k \in K \ A : g[k] = h[k]
    OBVIOUS
  <2> HIDE DEF r
  <2> DEFINE P(k) == {k} \X Where(h[k], v)
  <2>4. Spots(h, v) = UNION {P(k) : k \in K}
    BY <2>1 DEF Spots
  <2>5. Spots(r, v) = UNION {P(k) : k \in A}
    BY <2>1, <2>2 DEF Spots
  <2>6. Spots(g, v) = UNION {P(k) : k \in K \ A}
    <3>1. \A k \in A : {k} \X Where(g[k], v) = {}
      BY <1>3, <2>2
    <3>2. \A k \in K \ A : {k} \X Where(g[k], v) = P(k)
      BY <2>3
    <3> HIDE DEF P
    <3> QED BY <2>1, <3>1, <3>2 DEF Spots
  <2>7. \A k, j \in K : k # j => P(k) \cap P(j) = {}
    OBVIOUS
  <2> HIDE DEF P
  <2> QED BY <2>4, <2>5, <2>6, <2>7
<1>5. Cardinality(Spots(g, v) \cup Spots(r, v))
        = Cardinality(Spots(g, v)) + Cardinality(Spots(r, v))
          - Cardinality(Spots(g, v) \cap Spots(r, v))
  BY <1>2, FS_Union
<1>6. Cardinality({}) = 0
  BY FS_EmptySet
<1>7. CopiesAt(h, A, v) = CopiesAmong(r, v)
  BY DEF CopiesAt
<1>8. Cardinality(Spots(h, v)) = Cardinality(Spots(g, v)) + Cardinality(Spots(r, v)) - 0
  BY <1>4, <1>5, <1>6
<1> HIDE DEF r
<1> QED BY <1>1, <1>2, <1>7, <1>8 DEF CopiesAmong

LEMMA CopiesAmongEmpty ==
  ASSUME NEW h, \A k \in DOMAIN h : h[k] = << >>, NEW v
  PROVE  CopiesAmong(h, v) = 0
<1>1. \A k \in DOMAIN h : Where(h[k], v) = {}
  BY DEF Where
<1>2. Spots(h, v) = {}
  BY <1>1 DEF Spots
<1> QED BY <1>2, FS_EmptySet DEF CopiesAmong

\* How many values there are on several lists.
LEMMA TotalType ==
  ASSUME NEW S, NEW K, IsFiniteSet(K), NEW h, h \in Lists(K, S)
  PROVE  IsFiniteSet(UNION {{k} \X DOMAIN h[k] : k \in K}) /\ Total(h) \in Nat
<1> DEFINE T == {{k} \X DOMAIN h[k] : k \in K}
           f == [k \in K |-> {k} \X DOMAIN h[k]]
<1>1. f \in Surjection(K, T)
  BY DEF Surjection
<1>2. IsFiniteSet(T)
  BY <1>1, FS_Surjection
<1>3. ASSUME NEW k \in K PROVE IsFiniteSet({k} \X DOMAIN h[k])
  <2>1. h[k] \in Seq(S)
    BY DEF Lists
  <2>2. Len(h[k]) \in Nat /\ DOMAIN h[k] = 1 .. Len(h[k])
    BY <2>1, LenProperties
  <2>3. IsFiniteSet(1 .. Len(h[k]))
    BY <2>2, FS_Interval
  <2> QED BY <2>2, <2>3, FS_Singleton, FS_Product
<1>4. IsFiniteSet(UNION T)
  BY <1>2, <1>3, FS_UNION
<1>5. DOMAIN h = K
  BY DEF Lists
<1> QED BY <1>4, <1>5, FS_CardinalityType DEF Total

LEMMA TotalAdd ==
  ASSUME NEW S, NEW K, IsFiniteSet(K), NEW x \in K, NEW g, g \in Lists(K \ {x}, S),
         NEW h, h \in Lists(K, S), SameBut(h, g, K, x)
  PROVE  Total(h) = Total(g) + Len(h[x])
<1> DEFINE W == {x} \X DOMAIN h[x]
           H == UNION {{k} \X DOMAIN h[k] : k \in K}
           G == UNION {{k} \X DOMAIN g[k] : k \in K \ {x}}
<1>1. h[x] \in Seq(S) /\ IsFiniteSet(K \ {x})
  BY FS_Subset DEF Lists
<1>2. IsFiniteSet(G) /\ Total(g) \in Nat
  BY <1>1, TotalType
<1>3. Len(h[x]) \in Nat /\ DOMAIN h[x] = 1 .. Len(h[x])
  BY <1>1, LenProperties
<1>4. IsFiniteSet(DOMAIN h[x]) /\ Cardinality(DOMAIN h[x]) = Len(h[x])
  BY <1>3, FS_Interval
<1>5. IsFiniteSet({x}) /\ Cardinality({x}) = 1
  BY FS_Singleton
<1>6. IsFiniteSet(W) /\ Cardinality(W) = 1 * Len(h[x])
  BY <1>4, <1>5, FS_Product
<1>7. DOMAIN h = K /\ DOMAIN g = K \ {x}
  BY DEF Lists
<1>8. H = G \cup W /\ G \cap W = {}
  BY DEF SameBut
<1>9. Cardinality(G \cup W) = Cardinality(G) + Cardinality(W) - Cardinality(G \cap W)
  BY <1>2, <1>6, FS_Union
<1>10. Cardinality({}) = 0
  BY FS_EmptySet
<1>11. Total(h) = Cardinality(H) /\ Total(g) = Cardinality(G)
  BY <1>7 DEF Total
<1> HIDE DEF W, H, G
<1>12. Cardinality(W) = Len(h[x])
  BY <1>3, <1>6
<1>13. Cardinality(H) = Cardinality(G) + Cardinality(W) - 0
  BY <1>8, <1>9, <1>10
<1> QED BY <1>2, <1>3, <1>11, <1>12, <1>13

LEMMA TotalDiffer ==
  ASSUME NEW S, NEW K, IsFiniteSet(K), NEW h, h \in Lists(K, S), NEW g, g \in Lists(K, S),
         NEW x \in K, SameBut(g, h, K, x)
  PROVE  Total(g) = Total(h) - Len(h[x]) + Len(g[x])
<1> DEFINE r == [k \in K \ {x} |-> h[k]]
<1>1. IsFiniteSet(K \ {x})
  BY FS_Subset
<1>2. r \in Lists(K \ {x}, S) /\ SameBut(h, r, K, x) /\ SameBut(g, r, K, x)
  BY DEF Lists, SameBut
<1> HIDE DEF r
<1>3. Total(h) = Total(r) + Len(h[x])
  BY <1>2, TotalAdd
<1>4. Total(g) = Total(r) + Len(g[x])
  BY <1>2, TotalAdd
<1>5. Total(r) \in Nat
  BY <1>1, <1>2, TotalType
<1>6. Len(h[x]) \in Nat /\ Len(g[x]) \in Nat
  BY LenProperties DEF Lists
<1> QED BY <1>3, <1>4, <1>5, <1>6

LEMMA TotalEmpty ==
  ASSUME NEW h, \A k \in DOMAIN h : h[k] = << >>
  PROVE  Total(h) = 0
<1>1. UNION {{k} \X DOMAIN h[k] : k \in DOMAIN h} = {}
  OBVIOUS
<1> QED BY <1>1, FS_EmptySet DEF Total
--------------------------------------------------------------------------------
(* Several sets. *)

\* Functions from K to finite sets.
FiniteSetsOf(K, f) == DOMAIN f = K /\ \A k \in K : IsFiniteSet(f[k])

LEMMA SizeType ==
  ASSUME NEW K, IsFiniteSet(K), NEW f, FiniteSetsOf(K, f)
  PROVE  IsFiniteSet(UNION {{k} \X f[k] : k \in K}) /\ SizeAmong(f) \in Nat
<1> DEFINE T == {{k} \X f[k] : k \in K}
           s == [k \in K |-> {k} \X f[k]]
<1>1. s \in Surjection(K, T)
  BY DEF Surjection
<1>2. IsFiniteSet(T)
  BY <1>1, FS_Surjection
<1>3. \A k \in K : IsFiniteSet({k} \X f[k])
  BY FS_Singleton, FS_Product DEF FiniteSetsOf
<1>4. IsFiniteSet(UNION T)
  BY <1>2, <1>3, FS_UNION
<1> QED BY <1>4, FS_CardinalityType DEF SizeAmong, FiniteSetsOf

LEMMA SizeAdd ==
  ASSUME NEW K, IsFiniteSet(K), NEW x \in K, NEW g, FiniteSetsOf(K \ {x}, g),
         NEW f, FiniteSetsOf(K, f), SameBut(f, g, K, x)
  PROVE  SizeAmong(f) = SizeAmong(g) + Cardinality(f[x])
<1> DEFINE W == {x} \X f[x]
           F == UNION {{k} \X f[k] : k \in K}
           G == UNION {{k} \X g[k] : k \in K \ {x}}
<1>1. IsFiniteSet(f[x]) /\ IsFiniteSet(K \ {x})
  BY FS_Subset DEF FiniteSetsOf
<1>2. IsFiniteSet(G) /\ SizeAmong(g) \in Nat
  BY <1>1, SizeType
<1>3. IsFiniteSet({x}) /\ Cardinality({x}) = 1
  BY FS_Singleton
<1>4. IsFiniteSet(W) /\ Cardinality(W) = 1 * Cardinality(f[x])
  BY <1>1, <1>3, FS_Product
<1>5. Cardinality(f[x]) \in Nat
  BY <1>1, FS_CardinalityType
<1>6. F = G \cup W /\ G \cap W = {}
  BY DEF SameBut
<1>7. Cardinality(G \cup W) = Cardinality(G) + Cardinality(W) - Cardinality(G \cap W)
  BY <1>2, <1>4, FS_Union
<1>8. Cardinality({}) = 0
  BY FS_EmptySet
<1>9. SizeAmong(f) = Cardinality(F) /\ SizeAmong(g) = Cardinality(G)
  BY DEF SizeAmong, FiniteSetsOf
<1> HIDE DEF W, F, G
<1>10. Cardinality(W) = Cardinality(f[x])
  BY <1>4, <1>5
<1>11. Cardinality(F) = Cardinality(G) + Cardinality(W) - 0
  BY <1>6, <1>7, <1>8
<1> QED BY <1>2, <1>5, <1>9, <1>10, <1>11

LEMMA SizeDiffer ==
  ASSUME NEW K, IsFiniteSet(K), NEW f, FiniteSetsOf(K, f), NEW g, FiniteSetsOf(K, g),
         NEW x \in K, SameBut(g, f, K, x)
  PROVE  /\ SizeAmong(g) = SizeAmong(f) - Cardinality(f[x]) + Cardinality(g[x])
         /\ SizeAmong(g) >= Cardinality(g[x])
<1> DEFINE r == [k \in K \ {x} |-> f[k]]
<1>1. IsFiniteSet(K \ {x})
  BY FS_Subset
<1>2. FiniteSetsOf(K \ {x}, r) /\ SameBut(f, r, K, x) /\ SameBut(g, r, K, x)
  BY DEF FiniteSetsOf, SameBut
<1> HIDE DEF r
<1>3. SizeAmong(f) = SizeAmong(r) + Cardinality(f[x])
  BY <1>2, SizeAdd
<1>4. SizeAmong(g) = SizeAmong(r) + Cardinality(g[x])
  BY <1>2, SizeAdd
<1>5. SizeAmong(r) \in Nat
  BY <1>1, <1>2, SizeType
<1>6. Cardinality(f[x]) \in Nat /\ Cardinality(g[x]) \in Nat
  BY FS_CardinalityType DEF FiniteSetsOf
<1> QED BY <1>3, <1>4, <1>5, <1>6

LEMMA SizeEmpty ==
  ASSUME NEW f, \A k \in DOMAIN f : f[k] = {}
  PROVE  SizeAmong(f) = 0
<1>1. UNION {{k} \X f[k] : k \in DOMAIN f} = {}
  OBVIOUS
<1> QED BY <1>1, FS_EmptySet DEF SizeAmong
--------------------------------------------------------------------------------
(* A list of lists. *)

LEMMA ListsOfSeq ==
  ASSUME NEW S, NEW q \in Seq(Seq(S)), NEW v
  PROVE  /\ Len(q) \in Nat /\ IsFiniteSet(1 .. Len(q)) /\ q \in Lists(1 .. Len(q), S)
         /\ IsFiniteSet(Spots(q, v)) /\ CopiesAmong(q, v) \in Nat
<1>1. Len(q) \in Nat /\ q \in [1 .. Len(q) -> Seq(S)]
  BY LenProperties
<1>2. IsFiniteSet(1 .. Len(q))
  BY <1>1, FS_Interval
<1>3. q \in Lists(1 .. Len(q), S)
  BY <1>1 DEF Lists
<1> QED BY <1>1, <1>2, <1>3, CopiesAmongType

LEMMA CopiesAmongAppend ==
  ASSUME NEW S, NEW q \in Seq(Seq(S)), NEW s \in Seq(S), NEW v
  PROVE  CopiesAmong(Append(q, s), v) = CopiesAmong(q, v) + Copies(s, v)
<1> DEFINE n == Len(q)
           a == Append(q, s)
           K == 1 .. n + 1
<1>1. n \in Nat /\ q \in Lists(1 .. n, S)
  BY ListsOfSeq
<1>2. /\ a \in Seq(Seq(S)) /\ Len(a) = n + 1
      /\ \A i \in 1 .. n : a[i] = q[i]
      /\ a[n + 1] = s
  BY AppendProperties
<1>3. a \in Lists(K, S) /\ IsFiniteSet(K)
  BY <1>2, ListsOfSeq
<1> HIDE DEF n, a
<1>4. K \ {n + 1} = 1 .. n /\ n + 1 \in K
  BY <1>1
<1>5. SameBut(a, q, K, n + 1)
  BY <1>2, <1>4 DEF SameBut
<1> HIDE DEF K
<1>6. CopiesAmong(a, v) = CopiesAmong(q, v) + Copies(a[n + 1], v)
  BY <1>1, <1>3, <1>4, <1>5, CopiesAmongAdd
<1> QED BY <1>2, <1>6 DEF a

LEMMA CopiesAmongTail ==
  ASSUME NEW S, NEW q \in Seq(Seq(S)), q # << >>, NEW v
  PROVE  CopiesAmong(q, v) = CopiesAmong(Tail(q), v) + Copies(Head(q), v)
<1> DEFINE n == Len(q)
           K == 1 .. n
           t == Tail(q)
           g == [k \in 2 .. n |-> q[k]]
           f == [p \in Spots(t, v) |-> <<p[1] + 1, p[2]>>]
<1>1. /\ n \in Nat /\ n > 0 /\ Head(q) = q[1]
      /\ t \in Seq(Seq(S)) /\ DOMAIN t = 1 .. n - 1 /\ DOMAIN q = 1 .. n
      /\ \A i \in 1 .. n - 1 : t[i] = q[i + 1]
  BY LenProperties, HeadTailProperties, EmptySeq
<1>2. q \in Lists(K, S) /\ IsFiniteSet(K)
  BY ListsOfSeq
<1>3. 1 \in K /\ K \ {1} = 2 .. n
  BY <1>1
<1>4. g \in Lists(K \ {1}, S) /\ SameBut(q, g, K, 1)
  BY <1>2, <1>3 DEF Lists, SameBut
<1>5. CopiesAmong(q, v) = CopiesAmong(g, v) + Copies(q[1], v)
  <2> HIDE DEF K, g
  <2> QED BY <1>2, <1>3, <1>4, CopiesAmongAdd
<1>6. f \in Bijection(Spots(t, v), Spots(g, v))
  <2>1. /\ \A p : p \in Spots(t, v) <=> /\ p = <<p[1], p[2]>> /\ p[1] \in 1 .. n - 1
                                       /\ p[2] \in Where(q[p[1] + 1], v)
        /\ \A p : p \in Spots(g, v) <=> /\ p = <<p[1], p[2]>> /\ p[1] \in 2 .. n
                                       /\ p[2] \in Where(q[p[1]], v)
    <3>1. \A k \in 1 .. n - 1 : Where(t[k], v) = Where(q[k + 1], v)
      BY <1>1
    <3>2. \A k \in 2 .. n : Where(g[k], v) = Where(q[k], v)
      OBVIOUS
    <3>3. DOMAIN g = 2 .. n
      OBVIOUS
    <3> HIDE DEF n, t, g
    <3> QED BY <1>1, <3>1, <3>2, <3>3 DEF Spots
  <2> HIDE DEF t, n, g
  <2>2. ASSUME NEW p \in Spots(t, v) PROVE f[p] \in Spots(g, v)
    <3>1. p[1] \in 1 .. n - 1 /\ p[2] \in Where(q[p[1] + 1], v)
      BY <2>1
    <3>2. f[p] = <<p[1] + 1, p[2]>> /\ p[1] + 1 \in 2 .. n
      BY <1>1, <3>1
    <3> HIDE DEF f
    <3> QED BY <2>1, <3>1, <3>2
  <2>3. ASSUME NEW p \in Spots(t, v), NEW r \in Spots(t, v), f[p] = f[r] PROVE p = r
    <3>1. /\ p = <<p[1], p[2]>> /\ p[1] \in 1 .. n - 1
          /\ r = <<r[1], r[2]>> /\ r[1] \in 1 .. n - 1
      BY <2>1
    <3>2. f[p] = <<p[1] + 1, p[2]>> /\ f[r] = <<r[1] + 1, r[2]>>
      OBVIOUS
    <3> HIDE DEF f
    <3>3. <<p[1] + 1, p[2]>> = <<r[1] + 1, r[2]>>
      BY <2>3, <3>2
    <3>4. p[1] + 1 = r[1] + 1 /\ p[2] = r[2]
      BY <3>3
    <3>5. p[1] = r[1]
      BY <1>1, <3>1, <3>4
    <3> QED BY <3>1, <3>4, <3>5
  <2>4. ASSUME NEW r \in Spots(g, v) PROVE \E p \in Spots(t, v) : f[p] = r
    <3>1. r = <<r[1], r[2]>> /\ r[1] \in 2 .. n /\ r[2] \in Where(q[r[1]], v)
      BY <2>1
    <3>2. r[1] - 1 \in 1 .. n - 1 /\ (r[1] - 1) + 1 = r[1]
      <4>1. \A i \in 2 .. n : i - 1 \in 1 .. n - 1 /\ (i - 1) + 1 = i
        BY <1>1
      <4> QED BY <3>1, <4>1
    <3> DEFINE p == <<r[1] - 1, r[2]>>
    <3>3. p[1] = r[1] - 1 /\ p[2] = r[2] /\ p = <<p[1], p[2]>>
      OBVIOUS
    <3> HIDE DEF p
    <3>4. p \in Spots(t, v)
      BY <2>1, <3>1, <3>2, <3>3
    <3>5. f[p] = <<p[1] + 1, p[2]>>
      BY <3>4
    <3> HIDE DEF f
    <3> QED BY <3>1, <3>2, <3>3, <3>4, <3>5
  <2>5. f \in [Spots(t, v) -> Spots(g, v)]
    BY <2>2
  <2> HIDE DEF f
  <2> QED BY <2>3, <2>4, <2>5, Fun_IsBij
<1>7. IsFiniteSet(Spots(t, v)) /\ CopiesAmong(t, v) \in Nat
  BY <1>1, ListsOfSeq
<1>8. CopiesAmong(g, v) = CopiesAmong(t, v)
  BY <1>6, <1>7, FS_Bijection, Fun_ExistsBij DEF CopiesAmong
<1> QED BY <1>1, <1>5, <1>8

LEMMA CopiesConcat ==
  ASSUME NEW S, NEW a \in Seq(S), NEW b \in Seq(S), NEW v
  PROVE  Copies(a \o b, v) = Copies(a, v) + Copies(b, v)
<1> DEFINE n == Len(a)
           c == a \o b
           W == Where(c, v) \ Where(a, v)
           f == [i \in Where(b, v) |-> n + i]
<1>1. /\ n \in Nat /\ Len(b) \in Nat /\ DOMAIN a = 1 .. n /\ DOMAIN b = 1 .. Len(b)
      /\ DOMAIN c = 1 .. n + Len(b)
      /\ \A i \in 1 .. n : c[i] = a[i]
      /\ \A i \in 1 .. Len(b) : c[n + i] = b[i]
  BY LenProperties, ConcatProperties
<1>2. Where(a, v) \subseteq Where(c, v)
  <2> HIDE DEF c, n
  <2> QED BY <1>1 DEF Where
<1>3. f \in Bijection(Where(b, v), W)
  <2> HIDE DEF c, n
  <2>1. f \in [Where(b, v) -> W]
    BY <1>1 DEF Where
  <2>2. \A i, j \in Where(b, v) : f[i] = f[j] => i = j
    BY <1>1 DEF Where
  <2>3. ASSUME NEW j \in W PROVE \E i \in Where(b, v) : f[i] = j
    <3>1. j \in 1 .. n + Len(b) /\ c[j] = v /\ ~ (j \in 1 .. n /\ a[j] = v)
      BY <1>1 DEF Where
    <3>2. j \notin 1 .. n
      BY <1>1, <3>1
    <3>3. j - n \in 1 .. Len(b) /\ n + (j - n) = j
      BY <1>1, <3>1, <3>2
    <3>4. j - n \in Where(b, v)
      BY <1>1, <3>1, <3>3 DEF Where
    <3> QED BY <3>3, <3>4
  <2> HIDE DEF f
  <2> QED BY <2>1, <2>2, <2>3, Fun_IsBij
<1>4. /\ IsFiniteSet(Where(a, v)) /\ Copies(a, v) \in Nat
      /\ IsFiniteSet(Where(b, v)) /\ Copies(b, v) \in Nat
  BY CopiesType
<1>5. IsFiniteSet(W) /\ Cardinality(W) = Copies(b, v)
  BY <1>3, <1>4, FS_Bijection, Fun_ExistsBij DEF Copies
<1>6. Where(c, v) = Where(a, v) \cup W /\ Where(a, v) \cap W = {}
  BY <1>2
<1> HIDE DEF W
<1>7. Cardinality(Where(a, v) \cup W)
        = Cardinality(Where(a, v)) + Cardinality(W) - Cardinality(Where(a, v) \cap W)
  BY <1>4, <1>5, FS_Union
<1>8. Cardinality({}) = 0
  BY FS_EmptySet
<1>9. Cardinality(Where(c, v)) = Cardinality(Where(a, v)) + Cardinality(W) - 0
  BY <1>6, <1>7, <1>8
<1>10. Copies(c, v) = Copies(a, v) + Copies(b, v) - 0
  BY <1>5, <1>9 DEF Copies
<1> QED BY <1>4, <1>10
--------------------------------------------------------------------------------
(* The list commands. *)

LEMMA PushedCopies ==
  ASSUME NEW S, NEW s \in Seq(S), NEW e \in S, NEW o, NEW v
  PROVE  /\ Pushed(s, e, o) \in Seq(S)
         /\ Copies(Pushed(s, e, o), v)
              = Copies(s, v) + IF o # "failed" /\ e = v THEN 1 ELSE 0
<1>1. CASE o = "failed"
  <2>1. Copies(s, v) \in Nat
    BY CopiesType
  <2> QED BY <1>1, <2>1 DEF Pushed
<1>2. CASE o # "failed"
  <2>1. Pushed(s, e, o) = Append(s, e) /\ Append(s, e) \in Seq(S)
    BY <1>2 DEF Pushed
  <2>2. Copies(Append(s, e), v) = Copies(s, v) + IF e = v THEN 1 ELSE 0
    BY CopiesAppend
  <2> QED BY <1>2, <2>1, <2>2
<1> QED BY <1>1, <1>2

LEMMA PoppedCopies ==
  ASSUME NEW S, NEW s \in Seq(S), NEW o, NEW v
  PROVE  /\ Popped(s, o) \in Seq(S)
         /\ Copies(s, v) = Copies(Popped(s, o), v)
                           + IF o # "failed" /\ s # << >> /\ Head(s) = v THEN 1 ELSE 0
<1>1. CASE o = "failed" \/ s = << >>
  <2>1. Copies(s, v) \in Nat
    BY CopiesType
  <2> QED BY <1>1, <2>1 DEF Popped
<1>2. CASE o # "failed" /\ s # << >>
  <2>1. Popped(s, o) = Tail(s) /\ Tail(s) \in Seq(S)
    BY <1>2 DEF Popped
  <2>2. Copies(s, v) = Copies(Tail(s), v) + IF Head(s) = v THEN 1 ELSE 0
    BY <1>2, CopiesTail
  <2> QED BY <1>2, <2>1, <2>2
<1> QED BY <1>1, <1>2
================================================================================
