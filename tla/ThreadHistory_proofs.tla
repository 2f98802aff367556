------------------------- MODULE ThreadHistory_proofs -------------------------
(* Proofs about ThreadHistory, for any number of items, of rollbacks and of   *)
(* other detours: every request pairs calls and outputs, memory and rollout   *)
(* hold the same conversation, and turns that were rolled back stay gone.     *)
EXTENDS ThreadHistory, SequenceTheorems, WellFoundedInduction, TLAPS

-----------------------------------------------------------------------------
(* Induction, and the recursive functions that HistoryItems is made of. *)

\* What is well-founded has minimal elements.
LEMMA LeastIn ==
  ASSUME NEW Q, NEW S, IsWellFoundedOn(Q, S), NEW T, T \subseteq S, T # {}
  PROVE  \E x \in T : \A y \in T : <<y, x>> \notin Q
BY WFMin

\* Every nonempty set of natural numbers has a least element.
LEMMA LeastNat ==
  ASSUME NEW T, T \subseteq Nat, T # {}
  PROVE  \E m \in T : \A n \in T : m <= n
<1>1. \A x, y \in Nat : x < y => <<x, y>> \in OpToRel(<, Nat)
  BY DEF OpToRel
<1>2. IsWellFoundedOn(OpToRel(<, Nat), Nat)
  BY NatLessThanWellFounded
<1> HIDE DEF OpToRel
<1>3. ASSUME NEW Q, NEW S, IsWellFoundedOn(Q, S), T \subseteq S,
             \A x, y \in S : x < y => <<x, y>> \in Q
      PROVE  \E m \in T : \A n \in T : ~(n < m)
  <2>1. PICK m \in T : \A n \in T : <<n, m>> \notin Q
    <3>1. IsWellFoundedOn(Q, S) /\ T \subseteq S /\ T # {}
      BY <1>3
    <3> QED BY ONLY <3>1, LeastIn
  <2>2. \A n \in T : ~(n < m)
    BY <1>3, <2>1, Zenon
  <2> QED BY <2>2
<1>4. \A Q, S : IsWellFoundedOn(Q, S) /\ T \subseteq S
           /\ (\A x, y \in S : x < y => <<x, y>> \in Q) => \E m \in T : \A n \in T : ~(n < m)
  BY <1>3
<1>5. \E m \in T : \A n \in T : ~(n < m)
  BY <1>1, <1>2, <1>4
<1> QED BY <1>5

\* Induction, over a set instead of a predicate.
LEMMA NatInduct ==
  ASSUME NEW T, T \subseteq Nat, 0 \in T, \A n \in T : n + 1 \in T
  PROVE  T = Nat
<1> SUFFICES ASSUME Nat \ T # {} PROVE FALSE
  OBVIOUS
<1>1. PICK m \in Nat \ T : \A n \in Nat \ T : m <= n
  BY LeastNat
<1>2. m - 1 \in T /\ m - 1 + 1 = m
  BY <1>1
<1> QED BY <1>1, <1>2

\* A set of sequences that holds <<>> and is closed under Append holds them all.
LEMMA SeqInduct ==
  ASSUME NEW X, NEW T, <<>> \in T,
         \A s \in Seq(X), e \in X : s \in T => Append(s, e) \in T
  PROVE  Seq(X) \subseteq T
<1> DEFINE N == {n \in Nat : \A s \in Seq(X) : Len(s) = n => s \in T}
<1>1. 0 \in N
  BY EmptySeq
<1>2. ASSUME NEW n \in N PROVE n + 1 \in N
  <2> SUFFICES ASSUME NEW s \in Seq(X), Len(s) = n + 1 PROVE s \in T
    OBVIOUS
  <2>1. s # <<>>
    OBVIOUS
  <2>2. PICK t \in Seq(X), e \in X : s = Append(t, e)
    BY <2>1, SequenceEmptyOrAppend
  <2>3. Len(t) = n
    BY <2>2
  <2> QED BY <2>2, <2>3
<1>3. N = Nat
  BY <1>1, <1>2, NatInduct
<1> QED BY <1>3, LenProperties

\* A recursive function exists.
LEMMA RecursiveFcn ==
  ASSUME NEW T, NEW a \in T, NEW n \in Nat, NEW g \in [1..n -> [T -> T]]
  PROVE  \E f \in [0..n -> T] : f[0] = a /\ \A k \in 1..n : f[k] = g[k][f[k - 1]]
<1> DEFINE Good(f, m) == f[0] = a /\ \A k \in 1..m : f[k] = g[k][f[k - 1]]
           N == {m \in Nat : m <= n => \E f \in [0..m -> T] : Good(f, m)}
<1>1. 0 \in N
  <2>1. Good([k \in 0..0 |-> a], 0)
    OBVIOUS
  <2> QED BY <2>1
<1>2. ASSUME NEW m \in N PROVE m + 1 \in N
  <2>0. m \in Nat /\ m + 1 \in Nat
    OBVIOUS
  <2> SUFFICES ASSUME m + 1 <= n PROVE \E f \in [0..m + 1 -> T] : Good(f, m + 1)
    BY <2>0, Zenon
  <2>1. PICK f \in [0..m -> T] : Good(f, m)
    OBVIOUS
  <2> DEFINE h == [k \in 0..m + 1 |-> IF k = m + 1 THEN g[m + 1][f[m]] ELSE f[k]]
  <2>2. g[m + 1][f[m]] \in T
    OBVIOUS
  <2>3. h \in [0..m + 1 -> T]
    BY <2>2
  <2>4. h[0] = a
    BY <2>1
  <2>5. ASSUME NEW k \in 1..m + 1 PROVE h[k] = g[k][h[k - 1]]
    <3>1. CASE k = m + 1
      <4>1. k - 1 = m /\ m \in 0..m + 1 /\ m # m + 1 /\ k \in 0..m + 1
        BY <3>1
      <4>2. h[k] = g[m + 1][f[m]] /\ h[m] = f[m]
        BY <3>1, <4>1
      <4> HIDE DEF h
      <4> QED BY <3>1, <4>1, <4>2
    <3>2. CASE k # m + 1
      <4>1. k \in 1..m /\ k - 1 \in 0..m /\ k - 1 # m + 1 /\ k - 1 \in 0..m + 1 /\ k \in 0..m + 1
        BY <3>2
      <4>2. h[k] = f[k] /\ h[k - 1] = f[k - 1]
        BY <4>1, <3>2
      <4> HIDE DEF h
      <4> QED BY <2>1, <4>1, <4>2
    <3> QED BY <3>1, <3>2
  <2> HIDE DEF h
  <2> QED BY <2>3, <2>4, <2>5
<1> HIDE DEF Good
<1>3. N = Nat
  BY <1>1, <1>2, NatInduct
<1>4. \E f \in [0..n -> T] : Good(f, n)
  BY <1>3
<1> QED BY <1>4 DEF Good

-----------------------------------------------------------------------------
(* What is left of a sequence when only some items are kept. *)

\* f keeps the items of S, as the recursive function of Only does.
Filters(f, X, items, S) ==
  /\ f \in [0..Len(items) -> Seq(X)]
  /\ f[0] = <<>>
  /\ \A k \in 1..Len(items) :
       f[k] = IF items[k] \in S THEN Append(f[k - 1], items[k]) ELSE f[k - 1]

\* Only is the recursion it is defined by.
LEMMA OnlyFcn ==
  ASSUME NEW X, NEW items \in Seq(X), NEW S
  PROVE  \E f : Filters(f, X, items, S) /\ Only(items, S) = f[Len(items)]
<1> DEFINE g == [k \in 1..Len(items) |-> [s \in Seq(X) |->
                   IF items[k] \in S THEN Append(s, items[k]) ELSE s]]
           only[n \in 0..Len(items)] ==
             IF n = 0 THEN <<>>
             ELSE IF items[n] \in S THEN Append(only[n - 1], items[n]) ELSE only[n - 1]
<1>1. g \in [1..Len(items) -> [Seq(X) -> Seq(X)]]
  BY ElementOfSeq, AppendProperties
<1>2. \A k \in 1..Len(items), s \in Seq(X) :
        g[k][s] = IF items[k] \in S THEN Append(s, items[k]) ELSE s
  OBVIOUS
<1> HIDE DEF g
<1>3. PICK f \in [0..Len(items) -> Seq(X)] :
        f[0] = <<>> /\ \A k \in 1..Len(items) : f[k] = g[k][f[k - 1]]
  <2>1. <<>> \in Seq(X) /\ Len(items) \in Nat
    BY EmptySeq
  <2> DEFINE T == Seq(X)
             z == <<>>
             n == Len(items)
  <2>2. z \in T /\ n \in Nat /\ g \in [1..n -> [T -> T]]
    BY <1>1, <2>1
  <2> HIDE DEF T, z, n
  <2>3. \E f \in [0..n -> T] : f[0] = z /\ \A k \in 1..n : f[k] = g[k][f[k - 1]]
    BY ONLY <2>2, RecursiveFcn
  <2> QED BY <2>3 DEF T, z, n
<1>4. \A k \in 1..Len(items) :
        f[k] = IF items[k] \in S THEN Append(f[k - 1], items[k]) ELSE f[k - 1]
  <2> TAKE k \in 1..Len(items)
  <2>1. f[k - 1] \in Seq(X)
    BY <1>3
  <2> QED BY <1>2, <1>3, <2>1
<1>5. f = [n \in 0..Len(items) |->
             IF n = 0 THEN <<>>
             ELSE IF items[n] \in S THEN Append(f[n - 1], items[n]) ELSE f[n - 1]]
  <2>1. ASSUME NEW n \in 0..Len(items)
        PROVE  f[n] = IF n = 0 THEN <<>>
             ELSE IF items[n] \in S THEN Append(f[n - 1], items[n]) ELSE f[n - 1]
    <3>1. CASE n = 0
      BY <1>3, <3>1
    <3>2. CASE n # 0
      <4>1. n \in 1..Len(items)
        BY <3>2
      <4> QED BY <1>4, <3>2, <4>1, Zenon
    <3> QED BY <3>1, <3>2
  <2>2. f = [n \in 0..Len(items) |-> f[n]]
    OBVIOUS
  <2> QED BY <2>1, <2>2, Zenon
<1>6. only = [n \in 0..Len(items) |->
             IF n = 0 THEN <<>>
             ELSE IF items[n] \in S THEN Append(only[n - 1], items[n]) ELSE only[n - 1]]
  BY <1>5
<1>7. Only(items, S) = only[Len(items)]
  BY DEF Only
<1> HIDE DEF only
<1> DEFINE N == {m \in Nat : m <= Len(items) => only[m] = f[m]}
<1>8. 0 \in N
  BY <1>3, <1>6
<1>9. ASSUME NEW m \in N PROVE m + 1 \in N
  <2> SUFFICES ASSUME m + 1 <= Len(items) PROVE only[m + 1] = f[m + 1]
    OBVIOUS
  <2>1. m + 1 \in 1..Len(items) /\ m + 1 \in 0..Len(items) /\ m + 1 # 0 /\ m + 1 - 1 = m
    OBVIOUS
  <2>2. only[m] = f[m]
    OBVIOUS
  <2>3. only[m + 1] = IF items[m + 1] \in S THEN Append(only[m], items[m + 1]) ELSE only[m]
    <3> DEFINE F == [n \in 0..Len(items) |->
             IF n = 0 THEN <<>>
             ELSE IF items[n] \in S THEN Append(only[n - 1], items[n]) ELSE only[n - 1]]
    <3>1. F[m + 1] = IF items[m + 1] \in S THEN Append(only[m], items[m + 1]) ELSE only[m]
      BY ONLY <2>1
    <3>2. only = F
      BY <1>6
    <3> QED BY ONLY <3>1, <3>2, Zenon
  <2> QED BY <1>4, <2>1, <2>2, <2>3
<1>10. N = Nat
  BY <1>8, <1>9, NatInduct
<1>11. Filters(f, X, items, S)
  BY <1>3, <1>4 DEF Filters
<1> QED BY <1>7, <1>10, <1>11

\* Two recursions that make the same steps end alike.
LEMMA SameSteps ==
  ASSUME NEW m \in Nat, NEW f, NEW h, f[0] = h[0],
         \A k \in 1..m : f[k - 1] = h[k - 1] => f[k] = h[k]
  PROVE  f[m] = h[m]
<1> DEFINE N == {k \in Nat : k <= m => f[k] = h[k]}
<1>1. 0 \in N
  OBVIOUS
<1>2. ASSUME NEW k \in N PROVE k + 1 \in N
  <2>1. k + 1 - 1 = k /\ k \in Nat /\ k + 1 \in Nat
    OBVIOUS
  <2> SUFFICES ASSUME k + 1 <= m PROVE f[k + 1] = h[k + 1]
    BY <2>1, Zenon
  <2>2. k + 1 \in 1..m /\ f[k] = h[k]
    OBVIOUS
  <2> QED BY <2>1, <2>2
<1>3. N = Nat
  BY <1>1, <1>2, NatInduct
<1> QED BY <1>3

LEMMA OnlyEmpty ==
  ASSUME NEW S
  PROVE  Only(<<>>, S) = <<>>
<1>1. <<>> \in Seq({}) /\ Len(<<>>) = 0
  BY EmptySeq
<1>2. PICK f : Filters(f, {}, <<>>, S) /\ Only(<<>>, S) = f[Len(<<>>)]
  BY <1>1, OnlyFcn, Zenon
<1> QED BY <1>1, <1>2 DEF Filters

LEMMA OnlyInSeq ==
  ASSUME NEW X, NEW items \in Seq(X), NEW S
  PROVE  Only(items, S) \in Seq(X)
<1>1. PICK f : Filters(f, X, items, S) /\ Only(items, S) = f[Len(items)]
  BY OnlyFcn, Zenon
<1>2. Len(items) \in 0..Len(items)
  OBVIOUS
<1> QED BY <1>1, <1>2 DEF Filters

\* The last element is kept if it is in S.
LEMMA OnlyAppend ==
  ASSUME NEW X, NEW items \in Seq(X), NEW e \in X, NEW S
  PROVE  Only(Append(items, e), S) =
           IF e \in S THEN Append(Only(items, S), e) ELSE Only(items, S)
<1> DEFINE n == Len(items)
<1>1. n \in Nat /\ Append(items, e) \in Seq(X) /\ Len(Append(items, e)) = n + 1
  BY AppendProperties
<1>2. PICK f : Filters(f, X, items, S) /\ Only(items, S) = f[n]
  BY OnlyFcn, Zenon
<1>3. PICK h : Filters(h, X, Append(items, e), S) /\ Only(Append(items, e), S) = h[n + 1]
  BY <1>1, OnlyFcn, Zenon
<1>4. /\ \A k \in 1..n : Append(items, e)[k] = items[k]
      /\ Append(items, e)[n + 1] = e
  BY AppendProperties
<1> HIDE DEF n
<1>5. h[n] = f[n]
  <2>1. h[0] = f[0]
    BY <1>2, <1>3 DEF Filters
  <2>2. ASSUME NEW k \in 1..n, h[k - 1] = f[k - 1] PROVE h[k] = f[k]
    <3>1. k \in 1..n + 1
      BY <1>1
    <3>2. f[k] = IF items[k] \in S THEN Append(f[k - 1], items[k]) ELSE f[k - 1]
      BY <1>2 DEF Filters, n
    <3>3. h[k] = IF Append(items, e)[k] \in S
                 THEN Append(h[k - 1], Append(items, e)[k]) ELSE h[k - 1]
      BY <1>1, <1>3, <3>1 DEF Filters
    <3>4. Append(items, e)[k] = items[k]
      BY <1>4
    <3> QED BY ONLY <2>2, <3>2, <3>3, <3>4
  <2> QED BY ONLY <1>1, <2>1, <2>2, SameSteps
<1>6. n + 1 \in 1..n + 1 /\ n + 1 - 1 = n /\ n \in 0..n
  BY <1>1
<1>7. h[n + 1] = IF Append(items, e)[n + 1] \in S
                 THEN Append(h[n + 1 - 1], Append(items, e)[n + 1]) ELSE h[n + 1 - 1]
  BY <1>1, <1>3, <1>6 DEF Filters
<1>8. f[n] \in Seq(X)
  BY <1>2, <1>6 DEF Filters, n
<1> QED BY ONLY <1>2, <1>3, <1>4, <1>5, <1>6, <1>7, <1>8

LEMMA OnlyType ==
  ASSUME NEW X, NEW items \in Seq(X), NEW S
  PROVE  Only(items, S) \in Seq(X \intersect S)
<1> DEFINE P(s) == Only(s, S) \in Seq(X \intersect S)
<1>1. P(<<>>)
  BY OnlyEmpty, EmptySeq
<1>2. ASSUME NEW s \in Seq(X), NEW e \in X, P(s) PROVE P(Append(s, e))
  <2>1. s \in Seq(X) /\ Append(s, e) \in Seq(X)
    BY AppendProperties
  <2>2. Only(Append(s, e), S) = IF e \in S THEN Append(Only(s, S), e) ELSE Only(s, S)
    BY <2>1, OnlyAppend, Zenon
  <2>3. ASSUME e \in S PROVE Append(Only(s, S), e) \in Seq(X \intersect S)
    <3>1. e \in X \intersect S /\ Only(s, S) \in Seq(X \intersect S)
      BY <1>2, <2>3
    <3> QED BY <3>1, AppendProperties
  <2> QED BY <1>2, <2>1, <2>2, <2>3
<1>3. \A s \in Seq(X) : P(s)
  <2> HIDE DEF P
  <2> DEFINE T == {s \in Seq(X) : P(s)}
  <2>1. <<>> \in T
    BY <1>1, EmptySeq
  <2>2. \A s \in Seq(X), e \in X : s \in T => Append(s, e) \in T
    BY <1>2, AppendProperties
  <2>3. Seq(X) \subseteq T
    <3> HIDE DEF T
    <3> QED BY <2>1, <2>2, SeqInduct
  <2> QED BY <2>3
<1> QED BY <1>3

LEMMA OnlyAll ==
  ASSUME NEW S, NEW items \in Seq(S)
  PROVE  Only(items, S) = items
<1> DEFINE P(s) == Only(s, S) = s
<1>1. P(<<>>)
  BY OnlyEmpty, EmptySeq
<1>2. ASSUME NEW s \in Seq(S), NEW e \in S, P(s) PROVE P(Append(s, e))
  BY <1>2, OnlyAppend
<1>3. \A s \in Seq(S) : P(s)
  <2> HIDE DEF P
  <2> DEFINE T == {s \in Seq(S) : P(s)}
  <2>1. <<>> \in T
    BY <1>1, EmptySeq
  <2>2. \A s \in Seq(S), e \in S : s \in T => Append(s, e) \in T
    BY <1>2, AppendProperties
  <2>3. Seq(S) \subseteq T
    <3> HIDE DEF T
    <3> QED BY <2>1, <2>2, SeqInduct
  <2> QED BY <2>3
<1> QED BY <1>3

LEMMA OnlyNone ==
  ASSUME NEW X, NEW items \in Seq(X), NEW S, X \intersect S = {}
  PROVE  Only(items, S) = <<>>
<1> DEFINE P(s) == Only(s, S) = <<>>
<1>1. P(<<>>)
  BY OnlyEmpty, EmptySeq
<1>2. ASSUME NEW s \in Seq(X), NEW e \in X, P(s) PROVE P(Append(s, e))
  BY <1>2, OnlyAppend
<1>3. \A s \in Seq(X) : P(s)
  <2> HIDE DEF P
  <2> DEFINE T == {s \in Seq(X) : P(s)}
  <2>1. <<>> \in T
    BY <1>1, EmptySeq
  <2>2. \A s \in Seq(X), e \in X : s \in T => Append(s, e) \in T
    BY <1>2, AppendProperties
  <2>3. Seq(X) \subseteq T
    <3> HIDE DEF T
    <3> QED BY <2>1, <2>2, SeqInduct
  <2> QED BY <2>3
<1> QED BY <1>3

\* Filtering twice is filtering by the smaller set.
LEMMA OnlyOnly ==
  ASSUME NEW X, NEW items \in Seq(X), NEW R, NEW S, R \subseteq S
  PROVE  Only(Only(items, S), R) = Only(items, R)
<1> DEFINE P(s) == Only(Only(s, S), R) = Only(s, R)
<1>1. P(<<>>)
  BY OnlyEmpty, EmptySeq
<1>2. ASSUME NEW s \in Seq(X), NEW e \in X, P(s) PROVE P(Append(s, e))
  <2>1. Only(s, S) \in Seq(X) /\ Only(s, R) \in Seq(X) /\ Append(s, e) \in Seq(X)
    BY OnlyInSeq, AppendProperties
  <2>2. Only(Append(s, e), S) = IF e \in S THEN Append(Only(s, S), e) ELSE Only(s, S)
    BY OnlyAppend, Zenon
  <2>3. Only(Append(s, e), R) = IF e \in R THEN Append(Only(s, R), e) ELSE Only(s, R)
    BY OnlyAppend, Zenon
  <2>4. Only(Append(Only(s, S), e), R) =
          IF e \in R THEN Append(Only(Only(s, S), R), e) ELSE Only(Only(s, S), R)
    BY <2>1, OnlyAppend, Zenon
  <2> QED BY <1>2, <2>1, <2>2, <2>3, <2>4
<1>3. \A s \in Seq(X) : P(s)
  <2> HIDE DEF P
  <2> DEFINE T == {s \in Seq(X) : P(s)}
  <2>1. <<>> \in T
    BY <1>1, EmptySeq
  <2>2. \A s \in Seq(X), e \in X : s \in T => Append(s, e) \in T
    BY <1>2, AppendProperties
  <2>3. Seq(X) \subseteq T
    <3> HIDE DEF T
    <3> QED BY <2>1, <2>2, SeqInduct
  <2> QED BY <2>3
<1> QED BY <1>3

\* Two filters that agree on the elements of a sequence leave the same.
LEMMA OnlyAgrees ==
  ASSUME NEW X, NEW items \in Seq(X), NEW R, NEW S, X \intersect R = X \intersect S
  PROVE  Only(items, R) = Only(items, S)
<1> DEFINE P(s) == Only(s, R) = Only(s, S)
<1>1. P(<<>>)
  BY OnlyEmpty, EmptySeq
<1>2. ASSUME NEW s \in Seq(X), NEW e \in X, P(s) PROVE P(Append(s, e))
  <2>1. (e \in R <=> e \in S) /\ s \in Seq(X)
    OBVIOUS
  <2>2. Only(Append(s, e), S) = IF e \in S THEN Append(Only(s, S), e) ELSE Only(s, S)
    BY OnlyAppend, Zenon
  <2>3. Only(Append(s, e), R) = IF e \in R THEN Append(Only(s, R), e) ELSE Only(s, R)
    BY OnlyAppend, Zenon
  <2> QED BY <1>2, <2>1, <2>2, <2>3, AppendProperties
<1>3. \A s \in Seq(X) : P(s)
  <2> HIDE DEF P
  <2> DEFINE T == {s \in Seq(X) : P(s)}
  <2>1. <<>> \in T
    BY <1>1, EmptySeq
  <2>2. \A s \in Seq(X), e \in X : s \in T => Append(s, e) \in T
    BY <1>2, AppendProperties
  <2>3. Seq(X) \subseteq T
    <3> HIDE DEF T
    <3> QED BY <2>1, <2>2, SeqInduct
  <2> QED BY <2>3
<1> QED BY <1>3

LEMMA AppendConcat ==
  ASSUME NEW X, NEW s \in Seq(X), NEW t \in Seq(X), NEW e \in X
  PROVE  s \o Append(t, e) = Append(s \o t, e)
OBVIOUS

LEMMA OnlyConcat ==
  ASSUME NEW X, NEW items \in Seq(X), NEW more \in Seq(X), NEW S
  PROVE  Only(items \o more, S) = Only(items, S) \o Only(more, S)
<1> DEFINE P(s) == Only(items \o s, S) = Only(items, S) \o Only(s, S)
<1>1. P(<<>>)
  <2>1. Only(items, S) \in Seq(X)
    BY OnlyInSeq
  <2> QED BY <2>1, OnlyEmpty, EmptySeq, ConcatEmptySeq
<1>2. ASSUME NEW s \in Seq(X), NEW e \in X, P(s) PROVE P(Append(s, e))
  <2>1. Only(s, S) \in Seq(X) /\ Only(items, S) \in Seq(X) /\ Append(s, e) \in Seq(X)
        /\ items \o s \in Seq(X)
    BY OnlyInSeq, AppendProperties, ConcatProperties
  <2>2. Only(Append(s, e), S) = IF e \in S THEN Append(Only(s, S), e) ELSE Only(s, S)
    BY OnlyAppend, Zenon
  <2>3. Only(items \o Append(s, e), S)
          = IF e \in S THEN Append(Only(items \o s, S), e) ELSE Only(items \o s, S)
    <3>1. items \o Append(s, e) = Append(items \o s, e)
      BY AppendConcat
    <3> QED BY <2>1, <3>1, OnlyAppend, Zenon
  <2>4. Only(items, S) \o Append(Only(s, S), e) = Append(Only(items, S) \o Only(s, S), e)
    BY <2>1, AppendConcat
  <2> QED BY <1>2, <2>1, <2>2, <2>3, <2>4
<1>3. \A s \in Seq(X) : P(s)
  <2> HIDE DEF P
  <2> DEFINE T == {s \in Seq(X) : P(s)}
  <2>1. <<>> \in T
    BY <1>1, EmptySeq
  <2>2. \A s \in Seq(X), e \in X : s \in T => Append(s, e) \in T
    BY <1>2, AppendProperties
  <2>3. Seq(X) \subseteq T
    <3> HIDE DEF T
    <3> QED BY <2>1, <2>2, SeqInduct
  <2> QED BY <2>3
<1> QED BY <1>3

LEMMA RangeAppend ==
  ASSUME NEW X, NEW s \in Seq(X), NEW e \in X
  PROVE  ToSet(Append(s, e)) = ToSet(s) \union {e}
<1> DEFINE a == Append(s, e)
<1>1. /\ DOMAIN a = 1..Len(s) + 1 /\ DOMAIN s = 1..Len(s) /\ Len(s) \in Nat
      /\ \A i \in 1..Len(s) : a[i] = s[i]
      /\ a[Len(s) + 1] = e
  BY AppendProperties
<1> HIDE DEF a
<1>2. 1..Len(s) + 1 = (1..Len(s)) \union {Len(s) + 1}
  BY <1>1
<1> QED BY <1>1, <1>2 DEF ToSet, a

LEMMA OnlyRange ==
  ASSUME NEW X, NEW items \in Seq(X), NEW S
  PROVE  ToSet(Only(items, S)) = ToSet(items) \intersect S
<1> DEFINE P(s) == ToSet(Only(s, S)) = ToSet(s) \intersect S
<1>1. P(<<>>)
  <2>1. ToSet(<<>>) = {}
    BY DEF ToSet
  <2> QED BY <2>1, OnlyEmpty, EmptySeq
<1>2. ASSUME NEW s \in Seq(X), NEW e \in X, P(s) PROVE P(Append(s, e))
  <2>1. Only(s, S) \in Seq(X) /\ Append(s, e) \in Seq(X)
    BY OnlyInSeq, AppendProperties
  <2>2. Only(Append(s, e), S) = IF e \in S THEN Append(Only(s, S), e) ELSE Only(s, S)
    BY OnlyAppend
  <2>3. ToSet(Append(s, e)) = ToSet(s) \union {e}
    BY RangeAppend
  <2>4. ToSet(Append(Only(s, S), e)) = ToSet(Only(s, S)) \union {e}
    BY <2>1, RangeAppend
  <2> QED BY <1>2, <2>1, <2>2, <2>3, <2>4
<1>3. \A s \in Seq(X) : P(s)
  <2> HIDE DEF P
  <2> DEFINE T == {s \in Seq(X) : P(s)}
  <2>1. <<>> \in T
    BY <1>1, EmptySeq
  <2>2. \A s \in Seq(X), e \in X : s \in T => Append(s, e) \in T
    BY <1>2, AppendProperties
  <2>3. Seq(X) \subseteq T
    <3> HIDE DEF T
    <3> QED BY <2>1, <2>2, SeqInduct
  <2> QED BY <2>3
<1> QED BY <1>3

-----------------------------------------------------------------------------
(* The items of each kind. *)

\* Every item that a history can hold.
AllItems == Items(ItemKinds)

\* The sets that items are filtered by.
LEMMA KindsOfItems ==
  /\ \A e \in AllItems : e \in Items(ItemKinds \ {"ghost"}) <=> ~IsGhost(e)
  /\ \A e \in AllItems : e \in Items({"ghost"}) <=> IsGhost(e)
  /\ \A e \in AllItems : e \in Items({"user", "aborted"}) <=> e.kind \in {"user", "aborted"}
  /\ Items({"user", "aborted"}) \subseteq Items(ItemKinds \ {"ghost"})
  /\ Items({"user", "aborted"}) \subseteq AllItems
  /\ Items({"ghost"}) \intersect Items(ItemKinds \ {"ghost"}) = {}
BY DEF AllItems, Items, IsGhost, ItemKinds, MessageKinds, CallKinds, OutputKinds

LEMMA ItemTyped ==
  ASSUME NEW K, NEW kind \in K, NEW id \in Nat
  PROVE  Item(kind, id) \in Items(K)
BY DEF Item, Items

\* A new item is part of the conversation, unless it is a ghost snapshot.
LEMMA ConversationAppend ==
  ASSUME NEW x \in Seq(AllItems), NEW e \in AllItems
  PROVE  Conversation(Append(x, e)) =
           IF IsGhost(e) THEN Conversation(x) ELSE Append(Conversation(x), e)
<1> DEFINE S == Items(ItemKinds \ {"ghost"})
<1>1. Only(Append(x, e), S) = IF e \in S THEN Append(Only(x, S), e) ELSE Only(x, S)
  BY OnlyAppend, Zenon
<1> QED BY <1>1, KindsOfItems DEF Conversation

LEMMA ConversationTyped ==
  ASSUME NEW x \in Seq(AllItems)
  PROVE  /\ Conversation(x) \in Seq(AllItems)
         /\ Ghosts(x) \in Seq(AllItems)
         /\ CollectUserMessages(x) \in Seq(AllItems)
         /\ CollectUserMessages(x) \in Seq(Items({"user", "aborted"}))
<1>1. CollectUserMessages(x) \in Seq(AllItems \intersect Items({"user", "aborted"}))
  BY OnlyType DEF CollectUserMessages
<1>2. CollectUserMessages(x) \in Seq(Items({"user", "aborted"}))
  BY <1>1, SeqMonotonic
<1>3. /\ Only(x, Items(ItemKinds \ {"ghost"})) \in Seq(AllItems)
      /\ Only(x, Items({"ghost"})) \in Seq(AllItems)
      /\ Only(x, Items({"user", "aborted"})) \in Seq(AllItems)
  BY OnlyInSeq
<1> QED BY <1>2, <1>3 DEF Conversation, Ghosts, CollectUserMessages

LEMMA ConversationEmpty ==
  Conversation(<<>>) = <<>> /\ CollectUserMessages(<<>>) = <<>> /\ Ghosts(<<>>) = <<>>
BY OnlyEmpty DEF Conversation, CollectUserMessages, Ghosts

\* Two parts of a history are filtered one by one.
LEMMA ConversationConcat ==
  ASSUME NEW x \in Seq(AllItems), NEW y \in Seq(AllItems)
  PROVE  /\ Conversation(x \o y) = Conversation(x) \o Conversation(y)
         /\ CollectUserMessages(x \o y) = CollectUserMessages(x) \o CollectUserMessages(y)
<1>1. \A S : Only(x \o y, S) = Only(x, S) \o Only(y, S)
  <2> TAKE S
  <2> QED BY OnlyConcat
<1> QED BY <1>1 DEF Conversation, CollectUserMessages

\* User messages and ghosts of a conversation.
LEMMA ConversationOf ==
  ASSUME NEW x \in Seq(AllItems)
  PROVE  /\ Conversation(Ghosts(x)) = <<>>
         /\ CollectUserMessages(Conversation(x)) = CollectUserMessages(x)
         /\ Conversation(CollectUserMessages(x)) = CollectUserMessages(x)
<1>1. Ghosts(x) \in Seq(AllItems \intersect Items({"ghost"}))
  BY OnlyType DEF Ghosts
<1>2. AllItems \intersect Items({"ghost"}) \intersect Items(ItemKinds \ {"ghost"}) = {}
  BY KindsOfItems
<1>3. Conversation(Ghosts(x)) = <<>>
  BY <1>1, <1>2, OnlyNone DEF Conversation
<1>4. CollectUserMessages(Conversation(x)) = CollectUserMessages(x)
  BY KindsOfItems, OnlyOnly, Zenon DEF Conversation, CollectUserMessages
<1>5. CollectUserMessages(x) \in Seq(Items(ItemKinds \ {"ghost"}))
  BY ConversationTyped, KindsOfItems, SeqMonotonic
<1>6. Conversation(CollectUserMessages(x)) = CollectUserMessages(x)
  BY <1>5, OnlyAll DEF Conversation
<1> QED BY <1>3, <1>4, <1>6

LEMMA ConversationRange ==
  ASSUME NEW x \in Seq(AllItems)
  PROVE  /\ ToSet(Conversation(x)) = {e \in ToSet(x) : ~IsGhost(e)}
         /\ ToSet(Ghosts(x)) = {e \in ToSet(x) : IsGhost(e)}
         /\ ToSet(CollectUserMessages(x)) = {e \in ToSet(x) : e.kind \in {"user", "aborted"}}
<1>1. ToSet(x) \subseteq AllItems
  BY ElementOfSeq, LenProperties DEF ToSet
<1>2. /\ ToSet(Conversation(x)) = ToSet(x) \intersect Items(ItemKinds \ {"ghost"})
      /\ ToSet(Ghosts(x)) = ToSet(x) \intersect Items({"ghost"})
      /\ ToSet(CollectUserMessages(x)) = ToSet(x) \intersect Items({"user", "aborted"})
  BY OnlyRange, Zenon DEF Conversation, Ghosts, CollectUserMessages
<1> QED BY <1>1, <1>2, KindsOfItems

-----------------------------------------------------------------------------
(* Where the user messages are. *)

LEMMA PositionsEmpty == UserMessagePositions(<<>>) = <<>>
<1>1. [i \in DOMAIN <<>> |-> i] = <<>>
  OBVIOUS
<1> QED BY <1>1, OnlyEmpty DEF UserMessagePositions

\* A new item that is a user message has the last position.
LEMMA PositionsAppend ==
  ASSUME NEW X, NEW x \in Seq(X), NEW e \in X
  PROVE  UserMessagePositions(Append(x, e)) =
           IF IsUserTurnBoundary(e) THEN Append(UserMessagePositions(x), Len(x) + 1)
           ELSE UserMessagePositions(x)
<1> DEFINE a == Append(x, e)
           n == Len(x)
           p == [i \in DOMAIN x |-> i]
           q == [i \in DOMAIN a |-> i]
           S == {i \in DOMAIN x : IsUserTurnBoundary(x[i])}
           T == {i \in DOMAIN a : IsUserTurnBoundary(a[i])}
<1>1. /\ n \in Nat /\ DOMAIN x = 1..n /\ DOMAIN a = 1..n + 1
      /\ \A i \in 1..n : a[i] = x[i]
      /\ a[n + 1] = e
  BY AppendProperties, LenProperties
<1>2. p \in Seq(1..n) /\ Len(p) = n
  BY <1>1
<1>3. q = Append(p, n + 1)
  BY <1>1
<1>4. (1..n) \intersect S = (1..n) \intersect T
  BY <1>1
<1>5. n + 1 \in T <=> IsUserTurnBoundary(e)
  BY <1>1
<1> HIDE DEF a, n, p, q, S, T
<1>6. Only(p, S) = Only(p, T)
  BY <1>2, <1>4, OnlyAgrees
<1>7. p \in Seq(Nat) /\ n + 1 \in Nat
  BY <1>1, <1>2, SeqMonotonic
<1>8. Only(q, T) = IF n + 1 \in T THEN Append(Only(p, T), n + 1) ELSE Only(p, T)
  <2>1. Only(Append(p, n + 1), T)
          = IF n + 1 \in T THEN Append(Only(p, T), n + 1) ELSE Only(p, T)
    <3> DEFINE e1 == n + 1
    <3>1. e1 \in Nat
      BY <1>7
    <3> HIDE DEF e1
    <3>2. Only(Append(p, e1), T) = IF e1 \in T THEN Append(Only(p, T), e1) ELSE Only(p, T)
      BY <1>7, <3>1, OnlyAppend, Zenon
    <3> QED BY <3>2 DEF e1
  <2> QED BY <1>3, <2>1
<1>9. UserMessagePositions(x) = Only(p, S) /\ UserMessagePositions(a) = Only(q, T)
  BY DEF UserMessagePositions, p, q, S, T
<1> QED BY <1>5, <1>6, <1>8, <1>9 DEF a, n

\* Positions are within the history and increase.
LEMMA PositionsTyped ==
  ASSUME NEW X, NEW x \in Seq(X)
  PROVE  /\ UserMessagePositions(x) \in Seq(1..Len(x))
         /\ \A i, j \in 1..Len(UserMessagePositions(x)) :
              i < j => UserMessagePositions(x)[i] < UserMessagePositions(x)[j]
<1> DEFINE P(s) == /\ UserMessagePositions(s) \in Seq(1..Len(s))
                   /\ \A i, j \in 1..Len(UserMessagePositions(s)) :
                        i < j => UserMessagePositions(s)[i] < UserMessagePositions(s)[j]
<1>1. P(<<>>)
  <2>1. <<>> \in Seq(1..Len(<<>>)) /\ Len(<<>>) = 0
    BY EmptySeq
  <2>2. UserMessagePositions(<<>>) \in Seq(1..Len(<<>>)) /\ Len(UserMessagePositions(<<>>)) = 0
    BY <2>1, PositionsEmpty, Zenon
  <2> QED BY <2>2
<1>2. ASSUME NEW s \in Seq(X), NEW e \in X, P(s) PROVE P(Append(s, e))
  <2> DEFINE p == UserMessagePositions(s)
             q == UserMessagePositions(Append(s, e))
             n == Len(s)
  <2>1. n \in Nat /\ Len(Append(s, e)) = n + 1
    BY AppendProperties
  <2>2. q = IF IsUserTurnBoundary(e) THEN Append(p, n + 1) ELSE p
    BY PositionsAppend, Zenon
  <2>3. p \in Seq(1..n) /\ \A i, j \in 1..Len(p) : i < j => p[i] < p[j]
    BY <1>2
  <2> HIDE DEF p, q, n
  <2>4. p \in Seq(1..n + 1)
    BY <2>1, <2>3, SeqMonotonic
  <2>5. Append(p, n + 1) \in Seq(1..n + 1)
    BY <2>1, <2>4, AppendProperties
  <2>6. ASSUME NEW i \in 1..Len(q), NEW j \in 1..Len(q), i < j PROVE q[i] < q[j]
    <3>1. \A k \in 1..Len(p) : p[k] \in 1..n
      BY <2>3, ElementOfSeq
    <3> QED BY <2>1, <2>2, <2>3, <2>4, <2>6, <3>1, AppendProperties
  <2>7. q \in Seq(1..n + 1)
    BY <2>2, <2>4, <2>5
  <2> QED BY <2>1, <2>6, <2>7 DEF q, n
<1>3. \A s \in Seq(X) : P(s)
  <2> HIDE DEF P
  <2> DEFINE T == {s \in Seq(X) : P(s)}
  <2>1. <<>> \in T
    BY <1>1, EmptySeq
  <2>2. \A s \in Seq(X), e \in X : s \in T => Append(s, e) \in T
    BY <1>2, AppendProperties
  <2>3. Seq(X) \subseteq T
    <3> HIDE DEF T
    <3> QED BY <2>1, <2>2, SeqInduct
  <2> QED BY <2>3
<1> QED BY <1>3

-----------------------------------------------------------------------------
(* Rollbacks: a history is cut before one of its user messages. *)

LEMMA PrefixOfAppend ==
  ASSUME NEW X, NEW x \in Seq(X), NEW e \in X, NEW k \in 0..Len(x)
  PROVE  SubSeq(Append(x, e), 1, k) = SubSeq(x, 1, k)
<1>1. Append(x, e) \in Seq(X) /\ Len(Append(x, e)) = Len(x) + 1 /\ Len(x) \in Nat
      /\ \A i \in 1..Len(x) : Append(x, e)[i] = x[i]
  BY AppendProperties
<1>2. SubSeq(Append(x, e), 1, k) \in Seq(X) /\ SubSeq(x, 1, k) \in Seq(X)
      /\ Len(SubSeq(x, 1, k)) = k /\ Len(SubSeq(Append(x, e), 1, k)) = k
      /\ \A i \in 1..k : /\ SubSeq(x, 1, k)[i] = x[i]
                         /\ SubSeq(Append(x, e), 1, k)[i] = Append(x, e)[i]
  BY <1>1, ElementOfSeq, SubSeqProperties
<1> QED BY <1>1, <1>2, SeqEqual

LEMMA WholeOfAppend ==
  ASSUME NEW X, NEW x \in Seq(X), NEW e \in X
  PROVE  SubSeq(Append(x, e), 1, Len(x)) = x
BY PrefixOfAppend, SubSeqFull, LenProperties

\* The part of the conversation before a user message is the conversation of
\* the part before it.
LEMMA BoundaryPrefix ==
  ASSUME NEW x \in Seq(AllItems)
  PROVE  /\ Len(UserMessagePositions(Conversation(x))) = Len(UserMessagePositions(x))
         /\ \A j \in 1..Len(UserMessagePositions(x)) :
              Conversation(SubSeq(x, 1, UserMessagePositions(x)[j] - 1)) =
                SubSeq(Conversation(x), 1, UserMessagePositions(Conversation(x))[j] - 1)
<1> DEFINE X == AllItems
           U(s) == UserMessagePositions(s)
           C(s) == Conversation(s)
           P(s) == /\ Len(U(C(s))) = Len(U(s))
                   /\ \A j \in 1..Len(U(s)) :
                        C(SubSeq(s, 1, U(s)[j] - 1)) = SubSeq(C(s), 1, U(C(s))[j] - 1)
<1>1. P(<<>>)
  <2>1. Len(<<>>) = 0
    BY EmptySeq
  <2> QED BY <2>1, PositionsEmpty, ConversationEmpty
<1>2. ASSUME NEW s \in Seq(X), NEW e \in X, P(s) PROVE P(Append(s, e))
  <2> DEFINE a == Append(s, e)
             n == Len(U(s))
  <2>1. /\ a \in Seq(X) /\ C(s) \in Seq(X)
        /\ U(s) \in Seq(1..Len(s)) /\ U(C(s)) \in Seq(1..Len(C(s)))
        /\ Len(s) \in Nat /\ Len(C(s)) \in Nat
    BY AppendProperties, ConversationTyped, PositionsTyped, LenProperties
  <2>2. C(a) = IF IsGhost(e) THEN C(s) ELSE Append(C(s), e)
    BY ConversationAppend
  <2>3. U(a) = IF IsUserTurnBoundary(e) THEN Append(U(s), Len(s) + 1) ELSE U(s)
    BY PositionsAppend, Zenon
  <2>4. U(Append(C(s), e)) =
          IF IsUserTurnBoundary(e) THEN Append(U(C(s)), Len(C(s)) + 1) ELSE U(C(s))
    BY <2>1, PositionsAppend, Zenon
  <2>5. IsGhost(e) => ~IsUserTurnBoundary(e)
    BY DEF IsGhost, IsUserTurnBoundary
  <2>6. /\ n \in Nat /\ Len(U(C(s))) = n
        /\ \A j \in 1..n : U(s)[j] \in 1..Len(s) /\ U(C(s))[j] \in 1..Len(C(s))
    BY <1>2, <2>1, ElementOfSeq, LenProperties
  <2>7. ASSUME NEW j \in 1..n
        PROVE  /\ C(SubSeq(a, 1, U(s)[j] - 1)) = C(SubSeq(s, 1, U(s)[j] - 1))
               /\ SubSeq(Append(C(s), e), 1, U(C(s))[j] - 1) = SubSeq(C(s), 1, U(C(s))[j] - 1)
    <3>1. U(s)[j] - 1 \in 0..Len(s) /\ U(C(s))[j] - 1 \in 0..Len(C(s))
      BY <2>1, <2>6
    <3> QED BY <2>1, <3>1, PrefixOfAppend
  <2>8. /\ C(SubSeq(a, 1, Len(s) + 1 - 1)) = C(s)
        /\ SubSeq(Append(C(s), e), 1, Len(C(s)) + 1 - 1) = C(s)
    <3>1. Len(s) + 1 - 1 = Len(s) /\ Len(C(s)) + 1 - 1 = Len(C(s))
      BY <2>1
    <3> QED BY <2>1, <3>1, WholeOfAppend
  <2>9. \A j \in 1..n : C(SubSeq(s, 1, U(s)[j] - 1)) = SubSeq(C(s), 1, U(C(s))[j] - 1)
    BY <1>2
  <2>10. /\ IsUserTurnBoundary(e) =>
              /\ Len(U(a)) = n + 1 /\ U(a)[n + 1] = Len(s) + 1
              /\ \A j \in 1..n : U(a)[j] = U(s)[j]
         /\ ~IsUserTurnBoundary(e) => U(a) = U(s)
    BY <2>1, <2>3, AppendProperties
  <2>11. /\ IsUserTurnBoundary(e) =>
              /\ Len(U(C(a))) = n + 1 /\ U(C(a))[n + 1] = Len(C(s)) + 1
              /\ \A j \in 1..n : U(C(a))[j] = U(C(s))[j]
         /\ ~IsUserTurnBoundary(e) => U(C(a)) = U(C(s))
    <3>1. CASE IsUserTurnBoundary(e)
      <4>1. U(C(a)) = Append(U(C(s)), Len(C(s)) + 1)
        BY <2>2, <2>4, <2>5, <3>1
      <4>2. U(C(s)) \in Seq(Nat) /\ Len(C(s)) + 1 \in Nat
        BY <2>1, SeqMonotonic
      <4> HIDE DEF U, C, a
      <4> QED BY <2>6, <3>1, <4>1, <4>2, AppendProperties
    <3>2. CASE ~IsUserTurnBoundary(e)
      BY <2>2, <2>4, <3>2
    <3> QED BY <3>1, <3>2
  <2> HIDE DEF a, n, U, C
  <2>12. CASE IsUserTurnBoundary(e)
    <3>1. C(a) = Append(C(s), e)
      BY <2>2, <2>5, <2>12
    <3>2. ASSUME NEW j \in 1..n + 1
          PROVE  C(SubSeq(a, 1, U(a)[j] - 1)) = SubSeq(C(a), 1, U(C(a))[j] - 1)
      <4>1. CASE j = n + 1
        <5>1. U(a)[j] = Len(s) + 1 /\ U(C(a))[j] = Len(C(s)) + 1
          BY <2>10, <2>11, <2>12, <4>1
        <5> QED BY <2>8, <3>1, <5>1
      <4>2. CASE j # n + 1
        <5>1. j \in 1..n
          BY <2>6, <4>2
        <5>2. U(a)[j] = U(s)[j] /\ U(C(a))[j] = U(C(s))[j]
          BY <2>10, <2>11, <2>12, <5>1
        <5> QED BY <2>7, <2>9, <3>1, <5>1, <5>2
      <4> QED BY <4>1, <4>2
    <3> QED BY <2>10, <2>11, <2>12, <3>2 DEF a
  <2>13. CASE ~IsUserTurnBoundary(e)
    <3>1. ASSUME NEW j \in 1..n
          PROVE  C(SubSeq(a, 1, U(a)[j] - 1)) = SubSeq(C(a), 1, U(C(a))[j] - 1)
      BY <2>2, <2>7, <2>9, <2>10, <2>11, <2>13
    <3>2. Len(U(C(a))) = Len(U(a)) /\ Len(U(a)) = n
      BY <2>6, <2>10, <2>11, <2>13 DEF n
    <3> QED BY <3>1, <3>2 DEF a
  <2> QED BY <2>12, <2>13
<1>3. \A s \in Seq(X) : P(s)
  <2> HIDE DEF P, X
  <2> DEFINE T == {s \in Seq(X) : P(s)}
  <2>1. <<>> \in T
    BY <1>1, EmptySeq
  <2>2. \A s \in Seq(X), e \in X : s \in T => Append(s, e) \in T
    BY <1>2, AppendProperties
  <2>3. Seq(X) \subseteq T
    <3> HIDE DEF T
    <3> QED BY <2>1, <2>2, SeqInduct
  <2> QED BY <2>3
<1> QED BY <1>3

\* A rollback leaves a prefix of the history.
LEMMA DropTyped ==
  ASSUME NEW X, NEW x \in Seq(X), NEW n \in Nat
  PROVE  /\ DropLastNUserTurns(x, n) \in Seq(X)
         /\ \E k \in 0..Len(x) : DropLastNUserTurns(x, n) = SubSeq(x, 1, k)
<1> DEFINE p == UserMessagePositions(x)
           cut == IF n >= Len(p) THEN p[1] ELSE p[Len(p) - n + 1]
<1>1. p \in Seq(1..Len(x)) /\ Len(x) \in Nat /\ Len(p) \in Nat
  BY PositionsTyped, LenProperties
<1>2. CASE n = 0 \/ p = <<>>
  <2>1. DropLastNUserTurns(x, n) = x
    BY <1>2 DEF DropLastNUserTurns
  <2>2. x = SubSeq(x, 1, Len(x)) /\ Len(x) \in 0..Len(x)
    BY <1>1, SubSeqFull
  <2> QED BY <2>1, <2>2
<1>3. CASE n # 0 /\ p # <<>>
  <2>1. DropLastNUserTurns(x, n) = SubSeq(x, 1, cut - 1)
    BY <1>3, Zenon DEF DropLastNUserTurns
  <2>2. cut \in 1..Len(x)
    BY <1>1, <1>3, ElementOfSeq
  <2>3. cut - 1 \in 0..Len(x)
    BY <1>1, <2>2
  <2>4. SubSeq(x, 1, cut - 1) \in Seq(X)
    BY <1>1, <2>3, ElementOfSeq, SubSeqProperties
  <2> QED BY <2>1, <2>3, <2>4
<1> QED BY <1>2, <1>3

\* Ghost snapshots do not count for a rollback.
LEMMA DropConversation ==
  ASSUME NEW x \in Seq(AllItems), NEW n \in Nat
  PROVE  Conversation(DropLastNUserTurns(x, n)) = DropLastNUserTurns(Conversation(x), n)
<1> DEFINE p == UserMessagePositions(x)
           y == Conversation(x)
           q == UserMessagePositions(y)
           k == IF n >= Len(p) THEN 1 ELSE Len(p) - n + 1
<1>1. p \in Seq(1..Len(x)) /\ y \in Seq(AllItems) /\ q \in Seq(1..Len(y)) /\ Len(q) = Len(p)
      /\ Len(p) \in Nat
  BY ConversationTyped, PositionsTyped, BoundaryPrefix, LenProperties
<1>2. CASE n = 0 \/ p = <<>>
  <2>1. n = 0 \/ q = <<>>
    BY <1>1, <1>2, EmptySeq
  <2> QED BY <1>2, <2>1 DEF DropLastNUserTurns
<1>3. CASE n # 0 /\ p # <<>>
  <2>1. q # <<>> /\ k \in 1..Len(p)
    BY <1>1, <1>3, EmptySeq
  <2>2. DropLastNUserTurns(x, n) = SubSeq(x, 1, p[k] - 1)
    <3>1. DropLastNUserTurns(x, n)
            = SubSeq(x, 1, (IF n >= Len(p) THEN p[1] ELSE p[Len(p) - n + 1]) - 1)
      BY <1>3, Zenon DEF DropLastNUserTurns
    <3> QED BY <3>1
  <2>3. DropLastNUserTurns(y, n) = SubSeq(y, 1, q[k] - 1)
    <3>1. DropLastNUserTurns(y, n)
            = SubSeq(y, 1, (IF n >= Len(q) THEN q[1] ELSE q[Len(q) - n + 1]) - 1)
      BY <1>3, <2>1, Zenon DEF DropLastNUserTurns
    <3> QED BY <1>1, <3>1
  <2>4. Conversation(SubSeq(x, 1, p[k] - 1)) = SubSeq(y, 1, q[k] - 1)
    BY <2>1, BoundaryPrefix
  <2> QED BY <2>2, <2>3, <2>4
<1> QED BY <1>2, <1>3

-----------------------------------------------------------------------------
(* Compaction, and the lines of the rollout that are replayed. *)

\* The lines of the rollout.
ItemLines == [line : {"item"}, item : AllItems]
CompactedLines == [line : {"compacted"}, summary : Nat, replacement : Seq(AllItems)]
RolledBackLines == [line : {"rolled_back"}, turns : Nat]
Lines == ItemLines \union CompactedLines \union RolledBackLines

\* A compacted history has the context, user messages and the summary only.
LEMMA BuildTyped ==
  ASSUME NEW X, Context \in X, NEW messages \in Seq(X), NEW summary,
         Item("summary", summary) \in X
  PROVE  /\ BuildCompactedHistory(messages, summary) \in Seq(X)
         /\ BuildCompactedHistory(messages, summary) # <<>>
         /\ ToSet(BuildCompactedHistory(messages, summary)) \subseteq
              ToSet(messages) \union {Context, Item("summary", summary)}
<1> DEFINE first == IF Len(messages) > MaxKept THEN Len(messages) - MaxKept + 1 ELSE 1
           n == Len(messages)
           kept == SubSeq(messages, first, Len(messages))
           s == Item("summary", summary)
<1>1. n \in Nat /\ first \in 1..n + 1
  BY MaxKeptAssumption
<1>2. /\ kept \in Seq(X)
      /\ Len(kept) = IF first <= n THEN n - first + 1 ELSE 0
      /\ \A i \in 1..n - first + 1 : kept[i] = messages[first + i - 1]
  <2> HIDE DEF first
  <2> QED BY <1>1, ElementOfSeq, SubSeqProperties
<1>3. BuildCompactedHistory(messages, summary) = <<Context>> \o kept \o <<s>>
  BY Zenon DEF BuildCompactedHistory
<1> DEFINE built == <<Context>> \o kept \o <<s>>
<1>4. <<Context>> \in Seq(X) /\ <<s>> \in Seq(X) /\ Len(<<Context>>) = 1 /\ Len(<<s>>) = 1
      /\ <<Context>>[1] = Context /\ <<s>>[1] = s
  OBVIOUS
<1> HIDE DEF kept, s, first
<1>5. /\ <<Context>> \o kept \in Seq(X) /\ Len(<<Context>> \o kept) = 1 + Len(kept)
      /\ \A i \in 1..1 + Len(kept) :
           (<<Context>> \o kept)[i] = IF i <= 1 THEN Context ELSE kept[i - 1]
  BY <1>2, <1>4, ConcatProperties
<1>6. /\ built \in Seq(X) /\ Len(built) = Len(kept) + 2
      /\ \A i \in 1..Len(kept) + 2 :
           built[i] = IF i <= 1 THEN Context
                      ELSE IF i <= 1 + Len(kept) THEN kept[i - 1] ELSE s
  BY <1>2, <1>4, <1>5, ConcatProperties
<1>7. ASSUME NEW i \in 1..Len(kept) PROVE kept[i] \in ToSet(messages)
  <2>1. first + i - 1 \in 1..n /\ kept[i] = messages[first + i - 1]
    BY <1>1, <1>2
  <2> QED BY <2>1, LenProperties DEF ToSet
<1>8. ASSUME NEW i \in DOMAIN built PROVE built[i] \in ToSet(messages) \union {Context, s}
  <2>1. i \in 1..Len(kept) + 2 /\ Len(kept) \in Nat
    BY <1>2, <1>6, LenProperties
  <2>2. i > 1 /\ i <= 1 + Len(kept) => i - 1 \in 1..Len(kept)
    BY <2>1
  <2> HIDE DEF built
  <2> QED BY <1>6, <1>7, <2>1, <2>2
<1>9. built # <<>>
  BY <1>2, <1>6, EmptySeq
<1> QED BY <1>3, <1>6, <1>8, <1>9 DEF ToSet, s

\* A compacted history has no ghosts.
LEMMA ConversationOfBuilt ==
  ASSUME NEW x \in Seq(AllItems), NEW summary \in Nat
  PROVE  /\ BuildCompactedHistory(CollectUserMessages(x), summary) \in Seq(AllItems)
         /\ Conversation(BuildCompactedHistory(CollectUserMessages(x), summary))
              = BuildCompactedHistory(CollectUserMessages(x), summary)
<1> DEFINE S == Items(ItemKinds \ {"ghost"})
<1>1. CollectUserMessages(x) \in Seq(S) /\ S \subseteq AllItems
  <2>1. S \subseteq AllItems /\ Items({"user", "aborted"}) \subseteq S
    BY KindsOfItems DEF Items, AllItems
  <2> QED BY <2>1, ConversationTyped, SeqMonotonic
<1>2. Context \in S /\ Item("summary", summary) \in S
  BY ItemTyped DEF Context, ItemKinds, MessageKinds
<1>3. BuildCompactedHistory(CollectUserMessages(x), summary) \in Seq(S)
  BY <1>1, <1>2, BuildTyped
<1> QED BY <1>1, <1>3, OnlyAll, SeqMonotonic DEF Conversation

LEMMA LineKinds ==
  ASSUME NEW l \in Lines
  PROVE  \/ l \in ItemLines /\ l.line = "item" /\ l.item \in AllItems
         \/ /\ l \in CompactedLines /\ l.line = "compacted"
            /\ l.summary \in Nat /\ l.replacement \in Seq(AllItems)
         \/ l \in RolledBackLines /\ l.line = "rolled_back" /\ l.turns \in Nat
BY DEF Lines, ItemLines, CompactedLines, RolledBackLines

\* What each kind of line does.
LEMMA ReplayKinds ==
  ASSUME NEW x, NEW l
  PROVE  /\ l.line = "item" => ReplayLine(x, l) = Append(x, l.item)
         /\ l.line = "compacted" /\ l.replacement # <<>> => ReplayLine(x, l) = l.replacement
         /\ l.line = "compacted" /\ l.replacement = <<>> =>
              ReplayLine(x, l) = BuildCompactedHistory(CollectUserMessages(x), l.summary)
         /\ l.line = "rolled_back" => ReplayLine(x, l) = DropLastNUserTurns(x, l.turns)
BY DEF ReplayLine

LEMMA ReplayTyped ==
  ASSUME NEW x \in Seq(AllItems), NEW l \in Lines
  PROVE  ReplayLine(x, l) \in Seq(AllItems)
<1>1. CASE l.line = "item" /\ l.item \in AllItems
  BY <1>1, ReplayKinds, AppendProperties
<1>2. CASE l.line = "compacted" /\ l.summary \in Nat /\ l.replacement \in Seq(AllItems)
  BY <1>2, ReplayKinds, ConversationOfBuilt
<1>3. CASE l.line = "rolled_back" /\ l.turns \in Nat
  <2>1. DropLastNUserTurns(x, l.turns) \in Seq(AllItems)
    BY <1>3, DropTyped
  <2> QED BY <1>3, <2>1, ReplayKinds
<1> QED BY <1>1, <1>2, <1>3, LineKinds

\* Ghost snapshots change nothing of what a line does to the conversation.
LEMMA ReplayRespects ==
  ASSUME NEW x \in Seq(AllItems), NEW y \in Seq(AllItems), NEW l \in Lines,
         Conversation(x) = Conversation(y)
  PROVE  Conversation(ReplayLine(x, l)) = Conversation(ReplayLine(y, l))
<1>1. CASE l.line = "item" /\ l.item \in AllItems
  <2>1. /\ Conversation(Append(x, l.item)) =
             IF IsGhost(l.item) THEN Conversation(x) ELSE Append(Conversation(x), l.item)
        /\ Conversation(Append(y, l.item)) =
             IF IsGhost(l.item) THEN Conversation(y) ELSE Append(Conversation(y), l.item)
    BY <1>1, ConversationAppend
  <2> QED BY <1>1, <2>1, ReplayKinds
<1>2. CASE l.line = "compacted" /\ l.summary \in Nat /\ l.replacement \in Seq(AllItems)
  <2>1. CollectUserMessages(x) = CollectUserMessages(y)
    <3>1. /\ CollectUserMessages(x) = CollectUserMessages(Conversation(x))
          /\ CollectUserMessages(y) = CollectUserMessages(Conversation(y))
      BY ConversationOf
    <3> QED BY <3>1
  <2>2. CASE l.replacement = <<>>
    BY <1>2, <2>1, <2>2, ReplayKinds
  <2>3. CASE l.replacement # <<>>
    BY <1>2, <2>3, ReplayKinds
  <2> QED BY <2>2, <2>3
<1>3. CASE l.line = "rolled_back" /\ l.turns \in Nat
  <2>1. /\ Conversation(DropLastNUserTurns(x, l.turns)) = DropLastNUserTurns(Conversation(x), l.turns)
        /\ Conversation(DropLastNUserTurns(y, l.turns)) = DropLastNUserTurns(Conversation(y), l.turns)
    BY <1>3, DropConversation
  <2> QED BY <1>3, <2>1, ReplayKinds
<1> QED BY <1>1, <1>2, <1>3, LineKinds

\* f replays the lines, as ReconstructHistoryFromRollout does.
Replays(f, lines) ==
  /\ f \in [0..Len(lines) -> Seq(AllItems)]
  /\ f[0] = <<>>
  /\ \A k \in 1..Len(lines) : f[k] = ReplayLine(f[k - 1], lines[k])

\* Replaying is the recursion it is defined by.
LEMMA ReconstructFcn ==
  ASSUME NEW lines \in Seq(Lines)
  PROVE  \E f : Replays(f, lines) /\ ReconstructHistoryFromRollout(lines) = f[Len(lines)]
<1> DEFINE L == Len(lines)
           T == Seq(AllItems)
           g == [k \in 1..L |-> [s \in T |-> ReplayLine(s, lines[k])]]
<1>1. g \in [1..L -> [T -> T]] /\ L \in Nat /\ <<>> \in T
  <2>1. L \in Nat /\ <<>> \in T
    BY EmptySeq
  <2>2. \A k \in 1..L, s \in T : ReplayLine(s, lines[k]) \in T
    BY ElementOfSeq, ReplayTyped
  <2> HIDE DEF L, T
  <2> QED BY <2>1, <2>2
<1>2. \A k \in 1..L, s \in T : g[k][s] = ReplayLine(s, lines[k])
  OBVIOUS
<1> HIDE DEF g, L, T
<1>3. PICK f \in [0..L -> T] : f[0] = <<>> /\ \A k \in 1..L : f[k] = g[k][f[k - 1]]
  <2> DEFINE z == <<>>
  <2>1. z \in T /\ L \in Nat /\ g \in [1..L -> [T -> T]]
    BY <1>1
  <2> HIDE DEF z
  <2>2. \E f \in [0..L -> T] : f[0] = z /\ \A k \in 1..L : f[k] = g[k][f[k - 1]]
    BY ONLY <2>1, RecursiveFcn
  <2> QED BY <2>2 DEF z
<1>4. ASSUME NEW k \in 1..L PROVE f[k] = ReplayLine(f[k - 1], lines[k])
  <2>1. f[k - 1] \in T
    BY <1>1, <1>3
  <2> QED BY <1>2, <1>3, <2>1
<1>5. f = [n \in 0..L |-> IF n = 0 THEN <<>> ELSE ReplayLine(f[n - 1], lines[n])]
  <2>1. ASSUME NEW n \in 0..L
        PROVE  f[n] = IF n = 0 THEN <<>> ELSE ReplayLine(f[n - 1], lines[n])
    <3>1. CASE n = 0
      BY <1>3, <3>1
    <3>2. CASE n # 0
      <4>1. n \in 1..L
        BY <1>1, <3>2
      <4> QED BY <1>4, <3>2, <4>1, Zenon
    <3> QED BY <3>1, <3>2
  <2>2. f = [n \in 0..L |-> f[n]]
    OBVIOUS
  <2> QED BY <2>1, <2>2, Zenon
<1> DEFINE replayed[n \in 0..Len(lines)] ==
             IF n = 0 THEN <<>> ELSE ReplayLine(replayed[n - 1], lines[n])
<1>6. replayed = [n \in 0..L |-> IF n = 0 THEN <<>> ELSE ReplayLine(replayed[n - 1], lines[n])]
  BY <1>5 DEF L
<1>7. ReconstructHistoryFromRollout(lines) = replayed[L]
  BY DEF ReconstructHistoryFromRollout, L
<1> HIDE DEF replayed
<1>8. ASSUME NEW n \in 0..L
      PROVE  replayed[n] = IF n = 0 THEN <<>> ELSE ReplayLine(replayed[n - 1], lines[n])
  <2> DEFINE F == [k \in 0..L |-> IF k = 0 THEN <<>> ELSE ReplayLine(replayed[k - 1], lines[k])]
  <2>1. F[n] = IF n = 0 THEN <<>> ELSE ReplayLine(replayed[n - 1], lines[n])
    OBVIOUS
  <2>2. replayed = F
    BY <1>6
  <2> QED BY ONLY <2>1, <2>2, Zenon
<1>9. replayed[0] = f[0]
  BY <1>1, <1>3, <1>8
<1>10. ASSUME NEW k \in 1..L, replayed[k - 1] = f[k - 1] PROVE replayed[k] = f[k]
  <2>1. k \in 0..L /\ k # 0
    BY <1>1
  <2>2. replayed[k] = ReplayLine(replayed[k - 1], lines[k])
    BY <1>8, <2>1
  <2>3. f[k] = ReplayLine(f[k - 1], lines[k])
    BY <1>4
  <2> QED BY ONLY <1>10, <2>2, <2>3
<1>11. replayed[L] = f[L]
  BY ONLY <1>1, <1>9, <1>10, SameSteps
<1>12. Replays(f, lines)
  BY <1>3, <1>4 DEF Replays, L, T
<1> QED BY <1>7, <1>11, <1>12 DEF L

LEMMA ReconstructTyped ==
  ASSUME NEW lines \in Seq(Lines)
  PROVE  ReconstructHistoryFromRollout(lines) \in Seq(AllItems)
<1>1. PICK f : Replays(f, lines) /\ ReconstructHistoryFromRollout(lines) = f[Len(lines)]
  BY ReconstructFcn
<1>2. Len(lines) \in 0..Len(lines)
  OBVIOUS
<1> QED BY <1>1, <1>2 DEF Replays

LEMMA ReconstructEmpty == ReconstructHistoryFromRollout(<<>>) = <<>>
<1>1. <<>> \in Seq(Lines) /\ Len(<<>>) = 0
  BY EmptySeq
<1>2. PICK f : Replays(f, <<>>) /\ ReconstructHistoryFromRollout(<<>>) = f[Len(<<>>)]
  BY <1>1, ReconstructFcn
<1> QED BY <1>1, <1>2 DEF Replays

\* One line more is replayed last.
LEMMA ReconstructAppend ==
  ASSUME NEW lines \in Seq(Lines), NEW l \in Lines
  PROVE  ReconstructHistoryFromRollout(Append(lines, l)) =
           ReplayLine(ReconstructHistoryFromRollout(lines), l)
<1> DEFINE n == Len(lines)
           a == Append(lines, l)
<1>1. /\ n \in Nat /\ a \in Seq(Lines) /\ Len(a) = n + 1
      /\ \A k \in 1..n : a[k] = lines[k]
      /\ a[n + 1] = l
  BY AppendProperties
<1>2. PICK f : Replays(f, lines) /\ ReconstructHistoryFromRollout(lines) = f[n]
  BY ReconstructFcn
<1>3. PICK h : Replays(h, a) /\ ReconstructHistoryFromRollout(a) = h[n + 1]
  BY <1>1, ReconstructFcn
<1> HIDE DEF n, a
<1>4. h[0] = f[0]
  BY <1>2, <1>3 DEF Replays
<1>5. ASSUME NEW k \in 1..n, h[k - 1] = f[k - 1] PROVE h[k] = f[k]
  <2>1. k \in 1..n + 1
    BY <1>1
  <2>2. f[k] = ReplayLine(f[k - 1], lines[k])
    BY <1>2 DEF Replays, n
  <2>3. h[k] = ReplayLine(h[k - 1], a[k])
    BY <1>1, <1>3, <2>1 DEF Replays
  <2>4. a[k] = lines[k]
    BY <1>1
  <2> QED BY ONLY <1>5, <2>2, <2>3, <2>4
<1>6. h[n] = f[n]
  BY ONLY <1>1, <1>4, <1>5, SameSteps
<1>7. n + 1 \in 1..n + 1 /\ n + 1 - 1 = n
  BY <1>1
<1>8. h[n + 1] = ReplayLine(h[n], a[n + 1])
  <2>1. h[n + 1] = ReplayLine(h[n + 1 - 1], a[n + 1])
    BY <1>1, <1>3, <1>7 DEF Replays
  <2> QED BY <1>7, <2>1
<1> QED BY <1>1, <1>2, <1>3, <1>6, <1>8 DEF a

-----------------------------------------------------------------------------
(* Calls and their outputs. *)

\* Calls have outputs of their own.
LEMMA OutputsOfCalls ==
  ASSUME NEW c \in AllItems, IsCall(c)
  PROVE  /\ OutputOf(c) \in AllItems
         /\ IsOutput(OutputOf(c))
         /\ ~IsCall(OutputOf(c)) /\ ~IsOutput(c) /\ ~IsGhost(OutputOf(c))
         /\ \A d \in AllItems : IsCall(d) /\ OutputOf(d) = OutputOf(c) => d = c
BY DEF AllItems, Items, IsCall, IsOutput, IsGhost, OutputOf, Item, ItemKinds, CallKinds,
       OutputKinds, MessageKinds

\* Every output follows its call, and no call and no output occurs twice.
Coherent(items) ==
  /\ \A o \in DOMAIN items : IsOutput(items[o]) =>
       \E c \in DOMAIN items : c < o /\ Answers(items[o], items[c])
  /\ \A i, j \in DOMAIN items :
       (IsCall(items[i]) \/ IsOutput(items[i])) /\ items[i] = items[j] => i = j

LEMMA CoherentEmpty == Coherent(<<>>)
<1>1. DOMAIN <<>> = {}
  OBVIOUS
<1> QED BY <1>1 DEF Coherent

\* What keeps a history coherent when an item is recorded.
LEMMA CoherentAppend ==
  ASSUME NEW x \in Seq(AllItems), NEW e \in AllItems
  PROVE  Coherent(Append(x, e)) <=>
           /\ Coherent(x)
           /\ IsOutput(e) => \E c \in ToSet(x) : Answers(e, c)
           /\ IsCall(e) \/ IsOutput(e) => e \notin ToSet(x)
<1> DEFINE a == Append(x, e)
           n == Len(x)
<1>1. /\ n \in Nat /\ DOMAIN x = 1..n /\ DOMAIN a = 1..n + 1
      /\ \A i \in 1..n : a[i] = x[i]
      /\ a[n + 1] = e
  BY AppendProperties, LenProperties
<1> HIDE DEF a, n
<1>2. /\ \A i \in 1..n : i \in 1..n + 1 /\ i < n + 1
      /\ n + 1 \in 1..n + 1
      /\ \A i \in 1..n + 1 : i # n + 1 => i \in 1..n
      /\ \A i, c \in 1..n + 1 : c < i => c \in 1..n
      /\ n + 1 \notin 1..n
  BY <1>1
<1>3. ASSUME Coherent(a)
      PROVE  /\ Coherent(x)
             /\ IsOutput(e) => \E c \in ToSet(x) : Answers(e, c)
             /\ IsCall(e) \/ IsOutput(e) => e \notin ToSet(x)
  <2>1. ASSUME NEW o \in 1..n, IsOutput(x[o])
        PROVE  \E c \in 1..n : c < o /\ Answers(x[o], x[c])
    <3>1. PICK c \in 1..n + 1 : c < o /\ Answers(a[o], a[c])
      BY <1>1, <1>2, <1>3, <2>1 DEF Coherent
    <3> QED BY <1>1, <1>2, <3>1
  <2>2. ASSUME NEW i \in 1..n, NEW j \in 1..n, IsCall(x[i]) \/ IsOutput(x[i]), x[i] = x[j]
        PROVE  i = j
    BY <1>1, <1>2, <1>3, <2>2 DEF Coherent
  <2>3. ASSUME IsOutput(e) PROVE \E c \in ToSet(x) : Answers(e, c)
    <3>1. PICK c \in 1..n + 1 : c < n + 1 /\ Answers(a[n + 1], a[c])
      BY <1>1, <1>2, <1>3, <2>3 DEF Coherent
    <3>2. c \in 1..n /\ a[c] = x[c]
      BY <1>1, <1>2, <3>1
    <3> QED BY <1>1, <3>1, <3>2 DEF ToSet
  <2>4. ASSUME IsCall(e) \/ IsOutput(e), e \in ToSet(x) PROVE FALSE
    <3>1. PICK j \in 1..n : x[j] = e
      BY <1>1, <2>4 DEF ToSet
    <3> QED BY <1>1, <1>2, <1>3, <2>4, <3>1 DEF Coherent
  <2> QED BY <1>1, <2>1, <2>2, <2>3, <2>4 DEF Coherent
<1>4. ASSUME Coherent(x),
             IsOutput(e) => \E c \in ToSet(x) : Answers(e, c),
             IsCall(e) \/ IsOutput(e) => e \notin ToSet(x)
      PROVE  Coherent(a)
  <2>1. ASSUME NEW o \in 1..n + 1, IsOutput(a[o])
        PROVE  \E c \in 1..n + 1 : c < o /\ Answers(a[o], a[c])
    <3>1. CASE o \in 1..n
      <4>1. PICK c \in 1..n : c < o /\ Answers(x[o], x[c])
        BY <1>1, <1>4, <2>1, <3>1 DEF Coherent
      <4> QED BY <1>1, <1>2, <3>1, <4>1
    <3>2. CASE o = n + 1
      <4>1. PICK c \in 1..n : Answers(e, x[c])
        BY <1>1, <1>4, <2>1, <3>2 DEF ToSet
      <4> QED BY <1>1, <1>2, <3>2, <4>1
    <3> QED BY <1>2, <3>1, <3>2
  <2>2. ASSUME NEW i \in 1..n + 1, NEW j \in 1..n + 1, IsCall(a[i]) \/ IsOutput(a[i]), a[i] = a[j]
        PROVE  i = j
    <3>1. \A k \in 1..n : x[k] \in ToSet(x)
      BY <1>1 DEF ToSet
    <3>2. CASE i \in 1..n /\ j \in 1..n
      BY <1>1, <1>4, <2>2, <3>2 DEF Coherent
    <3>3. CASE i = n + 1 \/ j = n + 1
      BY <1>1, <1>2, <1>4, <2>2, <3>1, <3>3
    <3> QED BY <1>2, <3>2, <3>3
  <2> QED BY <1>1, <2>1, <2>2 DEF Coherent
<1> QED BY <1>3, <1>4 DEF a

\* A rollback cuts no output from its call, only calls from their outputs.
LEMMA CoherentPrefix ==
  ASSUME NEW x \in Seq(AllItems), Coherent(x), NEW k \in 0..Len(x)
  PROVE  Coherent(SubSeq(x, 1, k)) /\ SubSeq(x, 1, k) \in Seq(AllItems)
<1> DEFINE y == SubSeq(x, 1, k)
<1>1. /\ y \in Seq(AllItems) /\ Len(y) = k
      /\ \A i \in 1..k : y[i] = x[i]
  BY ElementOfSeq, SubSeqProperties
<1>2. DOMAIN y = 1..k /\ DOMAIN x = 1..Len(x) /\ Len(x) \in Nat
  BY <1>1, LenProperties
<1> HIDE DEF y
<1>3. \A i \in 1..k : i \in 1..Len(x) /\ \A c \in 1..Len(x) : c < i => c \in 1..k
  BY <1>2
<1>4. ASSUME NEW o \in 1..k, IsOutput(y[o])
      PROVE  \E c \in 1..k : c < o /\ Answers(y[o], y[c])
  BY <1>1, <1>2, <1>3, <1>4 DEF Coherent
<1>5. ASSUME NEW i \in 1..k, NEW j \in 1..k, IsCall(y[i]) \/ IsOutput(y[i]), y[i] = y[j]
      PROVE  i = j
  BY <1>1, <1>2, <1>3, <1>5 DEF Coherent
<1> QED BY <1>1, <1>2, <1>4, <1>5 DEF Coherent, y

\* Messages alone are coherent.
LEMMA CoherentPlain ==
  ASSUME NEW x, \A e \in ToSet(x) : ~IsCall(e) /\ ~IsOutput(e)
  PROVE  Coherent(x)
<1>1. \A i \in DOMAIN x : x[i] \in ToSet(x)
  BY DEF ToSet
<1> QED BY <1>1 DEF Coherent

\* Whatever else is left out, calls and outputs are kept.
LEMMA CoherentOnly ==
  ASSUME NEW x \in Seq(AllItems), Coherent(x), NEW S,
         \A e \in AllItems : IsCall(e) \/ IsOutput(e) => e \in S
  PROVE  Coherent(Only(x, S))
<1> DEFINE P(s) == Coherent(s) => Coherent(Only(s, S))
<1>1. P(<<>>)
  BY OnlyEmpty
<1>2. ASSUME NEW s \in Seq(AllItems), NEW e \in AllItems, P(s) PROVE P(Append(s, e))
  <2> SUFFICES ASSUME Coherent(Append(s, e)) PROVE Coherent(Only(Append(s, e), S))
    OBVIOUS
  <2>1. Only(Append(s, e), S) = IF e \in S THEN Append(Only(s, S), e) ELSE Only(s, S)
    BY OnlyAppend, Zenon
  <2>2. /\ Coherent(s)
        /\ IsOutput(e) => \E c \in ToSet(s) : Answers(e, c)
        /\ IsCall(e) \/ IsOutput(e) => e \notin ToSet(s)
    BY CoherentAppend
  <2>3. Only(s, S) \in Seq(AllItems) /\ ToSet(Only(s, S)) = ToSet(s) \intersect S
    BY OnlyInSeq, OnlyRange
  <2>4. ToSet(s) \subseteq AllItems
    BY ElementOfSeq, LenProperties DEF ToSet
  <2>5. IsOutput(e) => \E c \in ToSet(Only(s, S)) : Answers(e, c)
    BY <2>2, <2>3, <2>4 DEF Answers
  <2>6. Coherent(Only(s, S))
    BY <1>2, <2>2
  <2>7. Coherent(Append(Only(s, S), e))
    BY <2>2, <2>3, <2>5, <2>6, CoherentAppend
  <2> QED BY <2>1, <2>6, <2>7
<1>3. \A s \in Seq(AllItems) : P(s)
  <2> HIDE DEF P
  <2> DEFINE T == {s \in Seq(AllItems) : P(s)}
  <2>1. <<>> \in T
    BY <1>1, EmptySeq
  <2>2. \A s \in Seq(AllItems), e \in AllItems : s \in T => Append(s, e) \in T
    BY <1>2, AppendProperties
  <2>3. Seq(AllItems) \subseteq T
    <3> HIDE DEF T
    <3> QED BY <2>1, <2>2, SeqInduct
  <2> QED BY <2>3
<1> QED BY <1>3

\* Items are left out at some positions; if they are outputs or unanswered
\* calls, the rest stays coherent.
LEMMA CoherentPart ==
  ASSUME NEW x \in Seq(AllItems), Coherent(x), NEW y \in Seq(AllItems),
         NEW m \in [1..Len(y) -> 1..Len(x)],
         \A i, j \in 1..Len(y) : i < j => m[i] < m[j],
         \A i \in 1..Len(y) : y[i] = x[m[i]],
         \A i \in 1..Len(y), c \in 1..Len(x) :
           Answers(y[i], x[c]) => \E j \in 1..Len(y) : m[j] = c
  PROVE  Coherent(y)
<1>1. DOMAIN x = 1..Len(x) /\ DOMAIN y = 1..Len(y) /\ Len(x) \in Nat /\ Len(y) \in Nat
  BY LenProperties
<1>2. ASSUME NEW o \in 1..Len(y), IsOutput(y[o])
      PROVE  \E c \in 1..Len(y) : c < o /\ Answers(y[o], y[c])
  <2>1. PICK c \in 1..Len(x) : c < m[o] /\ Answers(x[m[o]], x[c])
    BY <1>1, <1>2 DEF Coherent
  <2>2. PICK j \in 1..Len(y) : m[j] = c
    BY <2>1
  <2>3. j < o
    <3>1. o < j => m[o] < m[j]
      OBVIOUS
    <3>2. m[o] \in Int /\ m[j] \in Int /\ m[j] < m[o]
      BY <1>1, <2>1, <2>2
    <3> QED BY <1>1, <3>1, <3>2
  <2> QED BY <2>1, <2>2, <2>3
<1>3. ASSUME NEW i \in 1..Len(y), NEW j \in 1..Len(y), IsCall(y[i]) \/ IsOutput(y[i]), y[i] = y[j]
      PROVE  i = j
  <2>1. m[i] = m[j]
    BY <1>1, <1>3 DEF Coherent
  <2>2. m[i] \in Int
    BY <1>1
  <2> QED BY <1>1, <2>1, <2>2
<1> QED BY <1>1, <1>2, <1>3 DEF Coherent

-----------------------------------------------------------------------------
(* An item is removed, with its other half. *)

LEMMA MinIn ==
  ASSUME NEW S, S \subseteq Nat, S # {}
  PROVE  Min(S) \in S
<1>1. \E m \in S : \A n \in S : m <= n
  BY LeastNat
<1> QED BY <1>1, Zenon DEF Min

LEMMA MaxIn ==
  ASSUME NEW S, NEW n \in Nat, S \subseteq 0..n, S # {}
  PROVE  Max(S) \in S
<1> DEFINE T == {n - i : i \in S}
<1>1. T \subseteq Nat /\ T # {}
  <2>1. \A i \in S : i \in 0..n /\ n - i \in Nat
    OBVIOUS
  <2> QED BY <2>1
<1>2. PICK m \in T : \A k \in T : m <= k
  <2> HIDE DEF T
  <2> QED BY <1>1, LeastNat
<1>3. PICK x \in S : m = n - x
  BY <1>2
<1>4. \A y \in S : x >= y
  BY <1>2, <1>3
<1>5. \E z \in S : \A y \in S : z >= y
  BY <1>4
<1> QED BY <1>5, Zenon DEF Max

LEMMA RemoveAtIndexes ==
  ASSUME NEW X, NEW x \in Seq(X), NEW k \in 1..Len(x)
  PROVE  /\ RemoveAt(x, k) \in Seq(X)
         /\ Len(RemoveAt(x, k)) = Len(x) - 1
         /\ \A i \in 1..Len(x) - 1 : RemoveAt(x, k)[i] = x[IF i < k THEN i ELSE i + 1]
<1> DEFINE p == SubSeq(x, 1, k - 1)
           s == SubSeq(x, k + 1, Len(x))
<1>1. /\ p \in Seq(X) /\ Len(p) = k - 1
      /\ \A i \in 1..k - 1 : p[i] = x[i]
  <2>1. \A i \in 1..k - 1 : x[i] \in X
    BY ElementOfSeq
  <2> QED BY <2>1, SubSeqProperties
<1>2. /\ s \in Seq(X) /\ Len(s) = Len(x) - k
      /\ \A i \in 1..Len(x) - k : s[i] = x[k + i]
  <2>1. \A i \in k + 1..Len(x) : x[i] \in X
    BY ElementOfSeq
  <2>2. k + 1 \in Int /\ Len(x) \in Int
    OBVIOUS
  <2>3. /\ s \in Seq(X)
        /\ Len(s) = IF k + 1 <= Len(x) THEN Len(x) - (k + 1) + 1 ELSE 0
        /\ \A i \in 1..Len(x) - (k + 1) + 1 : s[i] = x[k + 1 + i - 1]
    BY <2>1, <2>2, SubSeqProperties
  <2> QED BY <2>3
<1> HIDE DEF p, s
<1>3. /\ p \o s \in Seq(X) /\ Len(p \o s) = Len(x) - 1
      /\ \A i \in 1..Len(x) - 1 : (p \o s)[i] = IF i <= k - 1 THEN p[i] ELSE s[i - (k - 1)]
  BY <1>1, <1>2, ConcatProperties
<1>4. RemoveAt(x, k) = p \o s
  BY DEF RemoveAt, p, s
<1>5. ASSUME NEW i \in 1..Len(x) - 1
      PROVE  (p \o s)[i] = x[IF i < k THEN i ELSE i + 1]
  <2>1. CASE i < k
    BY <1>1, <1>3, <2>1
  <2>2. CASE ~(i < k)
    <3>1. i - (k - 1) \in 1..Len(x) - k /\ k + (i - (k - 1)) = i + 1
      BY <2>2
    <3> QED BY <1>2, <1>3, <2>2, <3>1
  <2> QED BY <2>1, <2>2
<1> QED BY <1>3, <1>4, <1>5

\* What is removed at a position may be a call only if it is not answered.
LEMMA CoherentRemoveAt ==
  ASSUME NEW x \in Seq(AllItems), Coherent(x), NEW k \in 1..Len(x),
         \A i \in 1..Len(x) : i # k => ~Answers(x[i], x[k])
  PROVE  /\ RemoveAt(x, k) \in Seq(AllItems)
         /\ Coherent(RemoveAt(x, k))
         /\ ToSet(RemoveAt(x, k)) \subseteq ToSet(x)
<1> DEFINE y == RemoveAt(x, k)
           m == [i \in 1..Len(x) - 1 |-> IF i < k THEN i ELSE i + 1]
<1>1. /\ y \in Seq(AllItems) /\ Len(y) = Len(x) - 1 /\ Len(x) \in Nat
      /\ \A i \in 1..Len(x) - 1 : y[i] = x[IF i < k THEN i ELSE i + 1]
  BY RemoveAtIndexes, LenProperties
<1> HIDE DEF y
<1>2. /\ m \in [1..Len(y) -> 1..Len(x)]
      /\ \A i, j \in 1..Len(y) : i < j => m[i] < m[j]
      /\ \A i \in 1..Len(y) : y[i] = x[m[i]] /\ m[i] # k
      /\ \A c \in 1..Len(x) : c # k => \E j \in 1..Len(y) : m[j] = c
  <2>1. \A i \in 1..Len(y) : y[i] = x[m[i]] /\ m[i] # k
    BY <1>1
  <2>2. ASSUME NEW c \in 1..Len(x), c # k PROVE \E j \in 1..Len(y) : m[j] = c
    <3>1. CASE c < k
      <4>1. c \in 1..Len(y) /\ m[c] = c
        BY <1>1, <3>1
      <4> QED BY <4>1
    <3>2. CASE c > k
      <4>1. c - 1 \in 1..Len(y) /\ m[c - 1] = c
        BY <1>1, <3>2
      <4> QED BY <4>1
    <3> QED BY <1>1, <2>2, <3>1, <3>2
  <2>3. Len(y) = Len(x) - 1 /\ k \in Nat /\ Len(x) \in Nat
    BY <1>1
  <2>4. \A i \in 1..Len(y) : m[i] = IF i < k THEN i ELSE i + 1
    BY <2>3
  <2>5. \A i, j \in 1..Len(y) : i < j => m[i] < m[j]
    BY <2>3, <2>4
  <2>6. m \in [1..Len(y) -> 1..Len(x)]
    BY <2>3
  <2> HIDE DEF m
  <2> QED BY <2>1, <2>2, <2>5, <2>6
<1> HIDE DEF m
<1>3. Coherent(y)
  <2>1. ASSUME NEW i \in 1..Len(y), NEW c \in 1..Len(x), Answers(y[i], x[c])
        PROVE  \E j \in 1..Len(y) : m[j] = c
    BY <1>2, <2>1
  <2> QED BY <1>1, <1>2, <2>1, CoherentPart
<1>4. ToSet(y) \subseteq ToSet(x)
  <2>1. DOMAIN y = 1..Len(y) /\ DOMAIN x = 1..Len(x)
    BY <1>1, LenProperties
  <2> QED BY <1>2, <2>1 DEF ToSet
<1> QED BY <1>1, <1>3, <1>4 DEF y

\* The first item leaves with its other half.
LEMMA CoherentRemoveFirst ==
  ASSUME NEW x \in Seq(AllItems), Coherent(x)
  PROVE  /\ RemoveFirstItem(x) \in Seq(AllItems)
         /\ Coherent(RemoveFirstItem(x))
         /\ ToSet(RemoveFirstItem(x)) \subseteq ToSet(x)
<1>1. CASE x = <<>>
  BY <1>1 DEF RemoveFirstItem
<1>2. CASE x # <<>>
  <2> DEFINE t == Tail(x)
             h == x[1]
             matches == {i \in DOMAIN t : Answers(t[i], h) \/ Answers(h, t[i])}
  <2>1. /\ t \in Seq(AllItems) /\ Len(t) = Len(x) - 1 /\ Len(x) \in Nat /\ Len(x) > 0
        /\ \A i \in 1..Len(t) : t[i] = x[i + 1]
        /\ Head(x) = h /\ DOMAIN t = 1..Len(t) /\ DOMAIN x = 1..Len(x)
    BY <1>2, HeadTailProperties, LenProperties
  <2>2. RemoveFirstItem(x) = IF matches = {} THEN t ELSE RemoveAt(t, Min(matches))
    BY <1>2, <2>1 DEF RemoveFirstItem, RemoveCorrespondingFor
  <2> HIDE DEF t, h
  <2>3. ~IsOutput(h)
    BY <2>1 DEF Coherent, h
  <2>4. \A i \in 1..Len(t) : ~Answers(h, t[i])
    <3> SUFFICES ASSUME NEW i \in 1..Len(t), Answers(h, t[i]) PROVE FALSE
      OBVIOUS
    <3>1. t[i] \in AllItems /\ IsCall(t[i]) /\ h = OutputOf(t[i])
      BY <2>1, ElementOfSeq DEF Answers
    <3> QED BY <2>3, <3>1, OutputsOfCalls
  <2>5. ToSet(t) \subseteq ToSet(x)
    <3>1. \A i \in 1..Len(t) : i + 1 \in 1..Len(x)
      BY <2>1
    <3> QED BY <2>1, <3>1 DEF ToSet
  <2>6. ASSUME NEW i \in 1..Len(t), NEW j \in 1..Len(t), IsOutput(t[i]), t[i] = t[j]
        PROVE  i = j
    <3>1. i + 1 \in 1..Len(x) /\ j + 1 \in 1..Len(x)
      BY <2>1
    <3>2. i + 1 = j + 1
      BY <2>1, <2>6, <3>1 DEF Coherent
    <3> QED BY <3>2
  <2>7. ASSUME NEW o \in 1..Len(t), IsOutput(t[o]), ~Answers(t[o], h)
        PROVE  \E c \in 1..Len(t) : c < o /\ Answers(t[o], t[c])
    <3>1. o + 1 \in 1..Len(x) /\ t[o] = x[o + 1]
      BY <2>1
    <3>2. PICK c \in 1..Len(x) : c < o + 1 /\ Answers(x[o + 1], x[c])
      BY <2>1, <2>7, <3>1 DEF Coherent
    <3>3. c # 1
      BY <2>7, <3>1, <3>2 DEF h
    <3>4. c - 1 \in 1..Len(t) /\ c - 1 < o /\ t[c - 1] = x[c]
      BY <2>1, <3>2, <3>3
    <3> QED BY <3>1, <3>2, <3>4
  <2>8. ASSUME NEW i \in 1..Len(t), NEW j \in 1..Len(t), IsCall(t[i]) \/ IsOutput(t[i]), t[i] = t[j]
        PROVE  i = j
    <3>1. i + 1 \in 1..Len(x) /\ j + 1 \in 1..Len(x)
      BY <2>1
    <3>2. i + 1 = j + 1
      BY <2>1, <2>8, <3>1 DEF Coherent
    <3> QED BY <3>2
  <2>9. CASE matches = {}
    <3>1. Coherent(t)
      BY <2>1, <2>7, <2>8, <2>9 DEF Coherent
    <3> QED BY <2>1, <2>2, <2>5, <2>9, <3>1
  <2>10. CASE matches # {}
    <3> DEFINE k == Min(matches)
               y == RemoveAt(t, k)
               m == [i \in 1..Len(x) - 2 |-> IF i < k THEN i + 1 ELSE i + 2]
    <3>1. k \in 1..Len(t) /\ Answers(t[k], h)
      <4>1. matches \subseteq Nat
        BY <2>1
      <4>2. k \in matches
        <5> HIDE DEF matches
        <5> QED BY <2>10, <4>1, MinIn
      <4> QED BY <2>1, <2>4, <4>2
    <3> HIDE DEF k
    <3>2. /\ y \in Seq(AllItems) /\ Len(y) = Len(x) - 2
          /\ \A i \in 1..Len(x) - 2 : y[i] = t[IF i < k THEN i ELSE i + 1]
      <4>1. Len(t) - 1 = Len(x) - 2
        BY <2>1
      <4>2. /\ y \in Seq(AllItems) /\ Len(y) = Len(t) - 1
            /\ \A i \in 1..Len(t) - 1 : y[i] = t[IF i < k THEN i ELSE i + 1]
        BY <2>1, <3>1, RemoveAtIndexes
      <4> HIDE DEF y
      <4> QED BY <4>1, <4>2
    <3> HIDE DEF y
    <3>3. /\ m \in [1..Len(y) -> 1..Len(x)]
          /\ \A i, j \in 1..Len(y) : i < j => m[i] < m[j]
      BY <2>1, <3>1, <3>2
    <3>4. ASSUME NEW i \in 1..Len(y)
          PROVE  y[i] = x[m[i]] /\ m[i] # 1 /\ m[i] # k + 1
      <4>1. CASE i < k
        <5>1. i \in 1..Len(t) /\ i \in 1..Len(x) - 2 /\ k \in Nat
          BY <2>1, <3>1, <3>2
        <5>2. y[i] = t[i] /\ t[i] = x[i + 1] /\ m[i] = i + 1
          BY <2>1, <3>2, <4>1, <5>1
        <5> QED BY <4>1, <5>1, <5>2
      <4>2. CASE ~(i < k)
        <5>1. i + 1 \in 1..Len(t)
          BY <2>1, <3>1, <3>2, <4>2
        <5> QED BY <2>1, <3>1, <3>2, <4>2, <5>1
      <4> QED BY <4>1, <4>2
    <3>5. ASSUME NEW c \in 1..Len(x), c # 1, c # k + 1 PROVE \E j \in 1..Len(y) : m[j] = c
      <4>1. CASE c < k + 1
        <5>1. c - 1 \in 1..Len(y) /\ m[c - 1] = c
          BY <2>1, <3>1, <3>2, <3>5, <4>1
        <5> QED BY <5>1
      <4>2. CASE c > k + 1
        <5>1. c - 2 \in 1..Len(y) /\ m[c - 2] = c
          BY <2>1, <3>1, <3>2, <4>2
        <5> QED BY <5>1
      <4>3. c \in Int /\ k \in Int
        BY <2>1, <3>1
      <4>4. c < k + 1 \/ c > k + 1
        BY <3>5, <4>3
      <4> QED BY <4>1, <4>2, <4>4, Zenon
    <3> HIDE DEF m
    <3>6. h \in AllItems /\ IsCall(h) /\ t[k] = OutputOf(h) /\ x[k + 1] = t[k] /\ k + 1 \in 1..Len(x)
      BY <2>1, <3>1, ElementOfSeq DEF Answers, h
    <3>7. ASSUME NEW i \in 1..Len(y), NEW c \in 1..Len(x), Answers(y[i], x[c])
          PROVE  \E j \in 1..Len(y) : m[j] = c
      <4>1. c # k + 1
        BY <3>6, <3>7, OutputsOfCalls DEF Answers
      <4>2. ASSUME c = 1 PROVE FALSE
        <5>1. x[m[i]] = x[k + 1]
          BY <3>4, <3>6, <3>7, <4>2 DEF Answers, h
        <5>2. IsOutput(x[k + 1])
          BY <3>6, OutputsOfCalls
        <5>3. m[i] = k + 1
          BY <2>1, <3>3, <3>6, <5>1, <5>2 DEF Coherent
        <5> QED BY <3>4, <5>3
      <4> QED BY <3>5, <4>1, <4>2
    <3>8. Coherent(y)
      BY <3>2, <3>3, <3>4, <3>7, CoherentPart
    <3>9. ToSet(y) \subseteq ToSet(x)
      <4>1. DOMAIN y = 1..Len(y)
        BY <3>2, LenProperties
      <4> QED BY <2>1, <3>3, <3>4, <4>1 DEF ToSet
    <3> QED BY <2>2, <2>10, <3>2, <3>8, <3>9 DEF y, k
  <2> QED BY <2>9, <2>10
<1> QED BY <1>1, <1>2

\* The last item leaves with its other half.
LEMMA CoherentRemoveLast ==
  ASSUME NEW x \in Seq(AllItems), Coherent(x)
  PROVE  /\ RemoveLastItem(x) \in Seq(AllItems)
         /\ Coherent(RemoveLastItem(x))
         /\ ToSet(RemoveLastItem(x)) \subseteq ToSet(x)
<1>1. CASE x = <<>>
  BY <1>1 DEF RemoveLastItem
<1>2. CASE x # <<>>
  <2> DEFINE n == Len(x)
             f == Front(x)
             l == x[n]
             matches == {i \in DOMAIN f : Answers(f[i], l) \/ Answers(l, f[i])}
  <2>1. /\ n \in Nat /\ n >= 1 /\ DOMAIN x = 1..n
        /\ f \in Seq(AllItems) /\ Len(f) = n - 1 /\ DOMAIN f = 1..n - 1
        /\ \A i \in 1..n - 1 : f[i] = x[i]
        /\ f = SubSeq(x, 1, n - 1)
        /\ l \in AllItems
    <3>1. n \in Nat /\ n >= 1 /\ DOMAIN x = 1..n /\ f = SubSeq(x, 1, n - 1)
      BY <1>2, EmptySeq, LenProperties DEF Front
    <3>2. /\ f \in Seq(AllItems) /\ Len(f) = n - 1
          /\ \A i \in 1..n - 1 : f[i] = x[i]
      BY <3>1, ElementOfSeq, SubSeqProperties
    <3> QED BY <3>1, <3>2, ElementOfSeq, LenProperties
  <2>2. RemoveLastItem(x) = IF matches = {} THEN f ELSE RemoveAt(f, Min(matches))
    BY <1>2 DEF RemoveLastItem, RemoveCorrespondingFor, Last
  <2>3. Coherent(f)
    <3>1. n - 1 \in 0..Len(x)
      BY <2>1
    <3> QED BY <2>1, <3>1, CoherentPrefix
  <2>4. ToSet(f) \subseteq ToSet(x)
    <3>1. \A i \in 1..n - 1 : i \in 1..n
      BY <2>1
    <3> QED BY <2>1, <3>1 DEF ToSet
  <2> HIDE DEF f, l, n
  <2>5. ASSUME NEW i \in 1..n - 1 PROVE ~Answers(f[i], l)
    <3> SUFFICES ASSUME Answers(f[i], l) PROVE FALSE
      OBVIOUS
    <3>1. i \in 1..n /\ n \in 1..n /\ x[i] = OutputOf(l) /\ IsCall(l)
      BY <2>1 DEF Answers
    <3>2. PICK c \in 1..n : c < i /\ Answers(x[i], x[c])
      BY <2>1, <3>1, OutputsOfCalls DEF Coherent
    <3>3. x[c] = l
      BY <2>1, <3>1, <3>2, ElementOfSeq, OutputsOfCalls DEF Answers, n
    <3>4. c = n
      BY <2>1, <3>1, <3>3 DEF Coherent, l
    <3> QED BY <2>1, <3>2, <3>4
  <2>6. CASE matches = {}
    BY <2>1, <2>2, <2>3, <2>4, <2>6
  <2>7. CASE matches # {}
    <3> DEFINE k == Min(matches)
    <3>1. k \in 1..n - 1 /\ Answers(l, f[k])
      <4>1. matches \subseteq Nat
        BY <2>1
      <4>2. k \in matches
        <5> HIDE DEF matches
        <5> QED BY <2>7, <4>1, MinIn
      <4> QED BY <2>1, <2>5, <4>2
    <3> HIDE DEF k
    <3>2. ASSUME NEW i \in 1..n - 1, Answers(f[i], f[k]) PROVE FALSE
      <4>1. i \in 1..n /\ n \in 1..n /\ x[i] = x[n]
        BY <2>1, <3>1, <3>2 DEF Answers, l
      <4>2. f[k] \in AllItems /\ IsOutput(x[n])
        BY <2>1, <3>1, ElementOfSeq, OutputsOfCalls DEF Answers, l
      <4>3. i = n
        BY <2>1, <4>1, <4>2 DEF Coherent
      <4> QED BY <2>1, <4>3
    <3>3. /\ RemoveAt(f, k) \in Seq(AllItems)
          /\ Coherent(RemoveAt(f, k))
          /\ ToSet(RemoveAt(f, k)) \subseteq ToSet(f)
      BY <2>1, <2>3, <3>1, <3>2, CoherentRemoveAt
    <3> QED BY <2>2, <2>4, <2>7, <3>3 DEF k
  <2> QED BY <2>6, <2>7
<1> QED BY <1>1, <1>2

\* What removing the last item preserves, trimming preserves.
LEMMA TrimIn ==
  ASSUME NEW T, NEW x \in T, NEW n \in Nat,
         \A y \in T : y # <<>> /\ IsCodexGenerated(Last(y)) => RemoveLastItem(y) \in T
  PROVE  TrimOutputs(x, n) \in T
<1> DEFINE step(y) == IF y = <<>> \/ ~IsCodexGenerated(Last(y)) THEN y ELSE RemoveLastItem(y)
           g == [k \in 1..n |-> [y \in T |-> step(y)]]
<1>1. g \in [1..n -> [T -> T]]
  OBVIOUS
<1>2. \A k \in 1..n, y \in T : g[k][y] = step(y)
  OBVIOUS
<1> HIDE DEF g
<1>3. PICK f \in [0..n -> T] : f[0] = x /\ \A k \in 1..n : f[k] = g[k][f[k - 1]]
  <2>1. x \in T /\ n \in Nat
    OBVIOUS
  <2> QED BY ONLY <1>1, <2>1, RecursiveFcn
<1> HIDE DEF step
<1>4. ASSUME NEW k \in 1..n PROVE f[k] = step(f[k - 1])
  <2>1. f[k - 1] \in T
    BY <1>3
  <2> QED BY <1>2, <1>3, <2>1
<1>5. f = [k \in 0..n |->
             IF k = 0 THEN x
             ELSE IF f[k - 1] = <<>> \/ ~IsCodexGenerated(Last(f[k - 1]))
                  THEN f[k - 1]
             ELSE RemoveLastItem(f[k - 1])]
  <2>1. ASSUME NEW k \in 0..n
        PROVE  f[k] = IF k = 0 THEN x ELSE step(f[k - 1])
    <3>1. CASE k = 0
      BY <1>3, <3>1
    <3>2. CASE k # 0
      <4>1. k \in 1..n
        BY <3>2
      <4> QED BY <1>4, <3>2, <4>1, Zenon
    <3> QED BY <3>1, <3>2
  <2>2. f = [k \in 0..n |-> f[k]]
    OBVIOUS
  <2> QED BY <2>1, <2>2, Zenon DEF step
<1> DEFINE trimmed[k \in 0..n] ==
        IF k = 0 THEN x
        ELSE IF trimmed[k - 1] = <<>> \/ ~IsCodexGenerated(Last(trimmed[k - 1]))
                  THEN trimmed[k - 1]
        ELSE RemoveLastItem(trimmed[k - 1])
<1>6. trimmed = [k \in 0..n |->
             IF k = 0 THEN x
             ELSE IF trimmed[k - 1] = <<>> \/ ~IsCodexGenerated(Last(trimmed[k - 1]))
                  THEN trimmed[k - 1]
             ELSE RemoveLastItem(trimmed[k - 1])]
  BY <1>5
<1>7. TrimOutputs(x, n) = trimmed[n]
  BY DEF TrimOutputs
<1> HIDE DEF trimmed
<1>8. ASSUME NEW k \in 0..n
      PROVE  trimmed[k] = IF k = 0 THEN x ELSE step(trimmed[k - 1])
  <2> DEFINE F == [i \in 0..n |->
             IF i = 0 THEN x
             ELSE IF trimmed[i - 1] = <<>> \/ ~IsCodexGenerated(Last(trimmed[i - 1]))
                  THEN trimmed[i - 1]
             ELSE RemoveLastItem(trimmed[i - 1])]
  <2>1. F[k] = IF k = 0 THEN x ELSE step(trimmed[k - 1])
    BY DEF step
  <2>2. trimmed = F
    BY <1>6
  <2> QED BY ONLY <2>1, <2>2, Zenon
<1>9. trimmed[0] = f[0]
  BY <1>3, <1>8
<1>10. ASSUME NEW k \in 1..n, trimmed[k - 1] = f[k - 1] PROVE trimmed[k] = f[k]
  <2>1. k \in 0..n /\ k # 0
    OBVIOUS
  <2> QED BY <1>4, <1>8, <1>10, <2>1
<1>11. trimmed[n] = f[n]
  BY ONLY n \in Nat, <1>9, <1>10, SameSteps
<1> QED BY <1>3, <1>7, <1>11

\* Trimming what Codex generated before a remote compaction keeps the rest coherent.
LEMMA CoherentTrim ==
  ASSUME NEW x \in Seq(AllItems), Coherent(x), NEW n \in Nat
  PROVE  /\ TrimOutputs(x, n) \in Seq(AllItems)
         /\ Coherent(TrimOutputs(x, n))
         /\ ToSet(TrimOutputs(x, n)) \subseteq ToSet(x)
<1> DEFINE T == {y \in Seq(AllItems) : Coherent(y) /\ ToSet(y) \subseteq ToSet(x)}
<1>1. x \in T
  OBVIOUS
<1>2. \A y \in T : RemoveLastItem(y) \in T
  BY CoherentRemoveLast
<1>3. TrimOutputs(x, n) \in T
  <2> HIDE DEF T
  <2> QED BY <1>1, <1>2, TrimIn
<1> QED BY <1>3

\* f inserts the outputs that are missing, as EnsureCallOutputsPresent does.
Ensures(f, items) ==
  /\ f \in [0..Len(items) -> Seq(AllItems)]
  /\ f[0] = <<>>
  /\ \A n \in 1..Len(items) :
       f[n] = IF IsCall(items[n]) /\ ~Contains(items, OutputOf(items[n]))
              THEN f[n - 1] \o <<items[n], OutputOf(items[n])>>
              ELSE Append(f[n - 1], items[n])

\* Normalisation is the recursion it is defined by.
LEMMA EnsureFcn ==
  ASSUME NEW items \in Seq(AllItems)
  PROVE  \E f : Ensures(f, items) /\ EnsureCallOutputsPresent(items) = f[Len(items)]
<1> DEFINE L == Len(items)
           T == Seq(AllItems)
           step(n, s) == IF IsCall(items[n]) /\ ~Contains(items, OutputOf(items[n]))
                         THEN s \o <<items[n], OutputOf(items[n])>>
                         ELSE Append(s, items[n])
           g == [k \in 1..L |-> [s \in T |-> step(k, s)]]
           z == <<>>
<1>1. L \in Nat /\ z \in T
  BY EmptySeq
<1>2. \A k \in 1..L, s \in T : step(k, s) \in T
  <2> SUFFICES ASSUME NEW k \in 1..L, NEW s \in T PROVE step(k, s) \in T
    OBVIOUS
  <2>1. items[k] \in AllItems
    BY ElementOfSeq
  <2>2. CASE IsCall(items[k])
    <3>1. <<items[k], OutputOf(items[k])>> \in Seq(AllItems)
      BY <2>1, <2>2, OutputsOfCalls
    <3> QED BY <2>1, <3>1, ConcatProperties, AppendProperties
  <2>3. CASE ~IsCall(items[k])
    BY <2>1, <2>3, AppendProperties
  <2> QED BY <2>2, <2>3
<1> HIDE DEF L, T, z, step
<1>3. g \in [1..L -> [T -> T]]
  BY <1>2
<1>4. \A k \in 1..L, s \in T : g[k][s] = step(k, s)
  OBVIOUS
<1> HIDE DEF g
<1>5. PICK f \in [0..L -> T] : f[0] = z /\ \A k \in 1..L : f[k] = g[k][f[k - 1]]
  BY <1>1, <1>3, RecursiveFcn
<1>6. ASSUME NEW k \in 1..L PROVE f[k] = step(k, f[k - 1])
  <2>1. f[k - 1] \in T
    BY <1>1, <1>5
  <2> QED BY <1>4, <1>5, <2>1
<1>7. ASSUME NEW k \in 0..L PROVE f[k] = IF k = 0 THEN z ELSE step(k, f[k - 1])
  <2>1. CASE k = 0
    BY <1>5, <2>1
  <2>2. CASE k # 0
    <3>1. k \in 1..L
      BY <1>1, <2>2
    <3> QED BY <1>6, <2>2, <3>1, Zenon
  <2> QED BY <2>1, <2>2
<1>8. f = [n \in 0..Len(items) |->
             IF n = 0 THEN <<>>
             ELSE IF IsCall(items[n]) /\ ~Contains(items, OutputOf(items[n]))
                  THEN f[n - 1] \o <<items[n], OutputOf(items[n])>>
                  ELSE Append(f[n - 1], items[n])]
  <2>1. f = [k \in 0..L |-> f[k]]
    OBVIOUS
  <2> QED BY <1>7, <2>1, Zenon DEF step, L, z
<1> DEFINE ensured[n \in 0..Len(items)] ==
        IF n = 0 THEN <<>>
        ELSE IF IsCall(items[n]) /\ ~Contains(items, OutputOf(items[n]))
             THEN ensured[n - 1] \o <<items[n], OutputOf(items[n])>>
             ELSE Append(ensured[n - 1], items[n])
<1>9. ensured = [n \in 0..Len(items) |->
             IF n = 0 THEN <<>>
             ELSE IF IsCall(items[n]) /\ ~Contains(items, OutputOf(items[n]))
                  THEN ensured[n - 1] \o <<items[n], OutputOf(items[n])>>
                  ELSE Append(ensured[n - 1], items[n])]
  BY <1>8
<1>10. EnsureCallOutputsPresent(items) = ensured[L]
  BY DEF EnsureCallOutputsPresent, L
<1> HIDE DEF ensured
<1>11. ASSUME NEW k \in 0..L
      PROVE  ensured[k] = IF k = 0 THEN z ELSE step(k, ensured[k - 1])
  <2> DEFINE F == [n \in 0..Len(items) |->
             IF n = 0 THEN <<>>
             ELSE IF IsCall(items[n]) /\ ~Contains(items, OutputOf(items[n]))
                  THEN ensured[n - 1] \o <<items[n], OutputOf(items[n])>>
                  ELSE Append(ensured[n - 1], items[n])]
  <2>1. F[k] = IF k = 0 THEN z ELSE step(k, ensured[k - 1])
    BY DEF step, z, L
  <2>2. ensured = F
    BY <1>9
  <2> QED BY ONLY <2>1, <2>2, Zenon
<1>12. ensured[0] = f[0]
  BY <1>1, <1>5, <1>11
<1>13. ASSUME NEW k \in 1..L, ensured[k - 1] = f[k - 1] PROVE ensured[k] = f[k]
  <2>1. k \in 0..L /\ k # 0
    BY <1>1
  <2> QED BY <1>6, <1>11, <1>13, <2>1
<1>14. ensured[L] = f[L]
  BY ONLY <1>1, <1>12, <1>13, SameSteps
<1>15. Ensures(f, items)
  BY <1>5, <1>6 DEF Ensures, L, T, z, step
<1> QED BY <1>10, <1>14, <1>15 DEF L

\* Normalisation: every call gets an output behind it.
LEMMA EnsureProperties ==
  ASSUME NEW x \in Seq(AllItems)
  PROVE  /\ EnsureCallOutputsPresent(x) \in Seq(AllItems)
         /\ \A e \in ToSet(EnsureCallOutputsPresent(x)) : e \in ToSet(x) \/ IsOutput(e)
         /\ \A c \in ToSet(EnsureCallOutputsPresent(x)) :
              IsCall(c) => OutputOf(c) \in ToSet(EnsureCallOutputsPresent(x))
         /\ Coherent(x) => Coherent(EnsureCallOutputsPresent(x))
<1>1. PICK f : Ensures(f, x) /\ EnsureCallOutputsPresent(x) = f[Len(x)]
  BY EnsureFcn
<1> DEFINE L == Len(x)
           P(n) == /\ \A i \in 1..n : x[i] \in ToSet(f[n])
                   /\ \A e \in ToSet(f[n]) :
                        \/ \E i \in 1..n : e = x[i]
                        \/ \E i \in 1..n : IsCall(x[i]) /\ e = OutputOf(x[i]) /\ e \notin ToSet(x)
                   /\ \A i \in 1..n : IsCall(x[i]) => OutputOf(x[i]) \in ToSet(x) \union ToSet(f[n])
                   /\ Coherent(x) => Coherent(f[n])
           N == {n \in Nat : n <= L => P(n)}
<1>2. /\ L \in Nat /\ DOMAIN x = 1..L
      /\ \A i \in 1..L : x[i] \in AllItems /\ x[i] \in ToSet(x)
      /\ \A e \in ToSet(x) : \E i \in 1..L : e = x[i]
      /\ \A e : Contains(x, e) <=> e \in ToSet(x)
      /\ \A n \in 0..L : f[n] \in Seq(AllItems)
  BY <1>1, ElementOfSeq, LenProperties DEF ToSet, Contains, Ensures
<1> HIDE DEF L
<1>3. 0 \in N
  <2>1. f[0] = <<>> /\ ToSet(<<>>) = {} /\ Coherent(<<>>)
    BY <1>1, CoherentEmpty DEF Ensures, ToSet
  <2> QED BY <2>1
<1>4. ASSUME NEW n \in N PROVE n + 1 \in N
  <2>1. n \in Nat /\ n + 1 \in Nat
    OBVIOUS
  <2> SUFFICES ASSUME n + 1 <= L PROVE P(n + 1)
    BY <2>1, Zenon
  <2>2. P(n) /\ n + 1 \in 1..L /\ n \in 0..L
    BY <1>2, <2>1
  <2> HIDE DEF N
  <2> DEFINE s == f[n]
             e == x[n + 1]
             o == OutputOf(e)
  <2>3. s \in Seq(AllItems) /\ e \in AllItems /\ e \in ToSet(x) /\ Append(s, e) \in Seq(AllItems)
    BY <1>2, <2>2, AppendProperties
  <2>4. f[n + 1] = IF IsCall(e) /\ o \notin ToSet(x) THEN s \o <<e, o>> ELSE Append(s, e)
    <3>1. f[n + 1] = IF IsCall(e) /\ ~Contains(x, o) THEN f[n + 1 - 1] \o <<e, o>>
                     ELSE Append(f[n + 1 - 1], e)
      BY <1>1, <2>2 DEF Ensures, L
    <3>2. n + 1 - 1 = n
      BY <2>1
    <3> QED BY <1>2, <3>1, <3>2
  <2>5. ToSet(Append(s, e)) = ToSet(s) \union {e}
    BY <2>3, RangeAppend
  <2>6. \A i : i \in 1..n + 1 <=> i \in 1..n \/ i = n + 1
    BY <2>1
  <2>7. ASSUME Coherent(x)
        PROVE  /\ Coherent(s)
               /\ IsOutput(e) => \E c \in ToSet(s) : Answers(e, c)
               /\ IsCall(e) \/ IsOutput(e) => e \notin ToSet(s)
    <3>1. ASSUME IsOutput(e) PROVE \E c \in ToSet(s) : Answers(e, c)
      <4>1. PICK c \in 1..L : c < n + 1 /\ Answers(e, x[c])
        BY <1>2, <2>2, <2>7, <3>1 DEF Coherent
      <4>2. c \in 1..n
        BY <1>2, <2>1, <4>1
      <4> QED BY <2>2, <4>1, <4>2
    <3>2. ASSUME IsCall(e) \/ IsOutput(e), e \in ToSet(s) PROVE FALSE
      <4>1. CASE \E i \in 1..n : e = x[i]
        <5>1. PICK i \in 1..n : e = x[i]
          BY <4>1
        <5>2. i \in 1..L /\ i # n + 1
          BY <1>2, <2>1, <2>2
        <5> QED BY <1>2, <2>2, <2>7, <3>2, <5>1, <5>2 DEF Coherent
      <4>2. CASE \E i \in 1..n : IsCall(x[i]) /\ e = OutputOf(x[i]) /\ e \notin ToSet(x)
        BY <2>3, <4>2
      <4> QED BY <2>2, <3>2, <4>1, <4>2
    <3> QED BY <2>2, <2>7, <3>1, <3>2
  <2>8. Coherent(x) => Coherent(Append(s, e))
    BY <2>3, <2>7, CoherentAppend
  <2>9. \A i \in 1..n : i \in 1..L
    BY <1>2, <2>1, <2>2
  <2> HIDE DEF s, e, o
  <2>10. CASE ~(IsCall(e) /\ o \notin ToSet(x))
    <3>1. f[n + 1] = Append(s, e)
      BY <2>4, <2>10
    <3>2. \A i \in 1..n + 1 : x[i] \in ToSet(Append(s, e))
      BY <2>2, <2>5, <2>6 DEF s, e
    <3>3. \A d \in ToSet(Append(s, e)) :
            \/ \E i \in 1..n + 1 : d = x[i]
            \/ \E i \in 1..n + 1 : IsCall(x[i]) /\ d = OutputOf(x[i]) /\ d \notin ToSet(x)
      BY <2>2, <2>5, <2>6 DEF s, e
    <3>4. \A i \in 1..n + 1 :
            IsCall(x[i]) => OutputOf(x[i]) \in ToSet(x) \union ToSet(Append(s, e))
      BY <2>2, <2>5, <2>6, <2>10 DEF s, e, o
    <3> QED BY <2>8, <3>1, <3>2, <3>3, <3>4
  <2>11. CASE IsCall(e) /\ o \notin ToSet(x)
    <3> DEFINE a == Append(s, e)
               b == Append(a, o)
    <3>1. o \in AllItems /\ IsOutput(o) /\ ~IsCall(o) /\ ~IsOutput(e) /\ Answers(o, e)
      BY <2>3, <2>11, OutputsOfCalls DEF Answers, o
    <3>2. f[n + 1] = b
      <4>1. s \o <<e, o>> = b
        BY <2>3, <3>1
      <4> QED BY <2>4, <2>11, <4>1
    <3>3. ToSet(b) = ToSet(s) \union {e, o}
      <4>1. a \in Seq(AllItems) /\ o \in AllItems
        BY <2>3, <3>1
      <4>2. ToSet(b) = ToSet(a) \union {o}
        <5> HIDE DEF a
        <5> QED BY ONLY <4>1, RangeAppend
      <4> QED BY <2>5, <4>2
    <3>4. ASSUME Coherent(x) PROVE o \notin ToSet(a)
      <4>1. o # e
        BY <3>1
      <4>2. ASSUME o \in ToSet(s) PROVE FALSE
        <5>1. CASE \E i \in 1..n : o = x[i]
          BY <1>2, <2>9, <2>11, <5>1
        <5>2. CASE \E i \in 1..n : IsCall(x[i]) /\ o = OutputOf(x[i])
          <6>1. PICK i \in 1..n : IsCall(x[i]) /\ o = OutputOf(x[i])
            BY <5>2
          <6>2. x[i] = e /\ i \in 1..L
            BY <1>2, <2>3, <2>9, <2>11, <6>1, OutputsOfCalls DEF o
          <6>3. i = n + 1
            BY <1>2, <2>2, <3>4, <6>1, <6>2 DEF Coherent, e
          <6> QED BY <2>1, <6>1, <6>3
        <5> QED BY <2>2, <4>2, <5>1, <5>2 DEF s
      <4> QED BY <2>5, <4>1, <4>2
    <3>5. Coherent(x) => Coherent(b)
      <4>1. \E c \in ToSet(a) : Answers(o, c)
        BY <2>5, <3>1
      <4> QED BY <2>3, <2>8, <3>1, <3>4, <4>1, CoherentAppend
    <3> HIDE DEF a, b
    <3>6. \A i \in 1..n + 1 : x[i] \in ToSet(b)
      BY <2>2, <2>6, <3>3 DEF s, e
    <3>7. \A d \in ToSet(b) :
            \/ \E i \in 1..n + 1 : d = x[i]
            \/ \E i \in 1..n + 1 : IsCall(x[i]) /\ d = OutputOf(x[i]) /\ d \notin ToSet(x)
      BY <2>2, <2>6, <2>11, <3>3 DEF s, e, o
    <3>8. \A i \in 1..n + 1 : IsCall(x[i]) => OutputOf(x[i]) \in ToSet(x) \union ToSet(b)
      BY <2>2, <2>6, <3>3 DEF s, e, o
    <3> QED BY <3>2, <3>5, <3>6, <3>7, <3>8
  <2> QED BY <2>10, <2>11
<1>5. P(L) /\ L \in 0..L
  <2>1. N = Nat
    BY <1>3, <1>4, NatInduct
  <2>2. L \in N /\ L \in 0..L
    <3> HIDE DEF N
    <3> QED BY <1>2, <2>1
  <2>3. L \in N => P(L)
    <3> HIDE DEF P
    <3> QED BY <1>2
  <2> QED BY <2>2, <2>3, Zenon
<1>6. EnsureCallOutputsPresent(x) = f[L]
  BY <1>1 DEF L
<1>7. ASSUME NEW c \in ToSet(f[L]), IsCall(c) PROVE OutputOf(c) \in ToSet(f[L])
  <2>1. c \in ToSet(x) \/ IsOutput(c)
    BY <1>2, <1>5, OutputsOfCalls
  <2>2. ~IsOutput(c)
    BY <1>2, <1>5, <1>7, <2>1, OutputsOfCalls DEF IsCall, IsOutput, CallKinds, OutputKinds
  <2>3. PICK i \in 1..L : c = x[i]
    BY <1>2, <2>1, <2>2
  <2>4. ToSet(x) \subseteq ToSet(f[L])
    BY <1>2, <1>5
  <2> QED BY <1>5, <1>7, <2>3, <2>4
<1>8. \A e \in ToSet(f[L]) : e \in ToSet(x) \/ IsOutput(e)
  BY <1>2, <1>5, OutputsOfCalls
<1> QED BY <1>2, <1>5, <1>6, <1>7, <1>8

-----------------------------------------------------------------------------
(* The request that is made of a history. *)

LEMMA RangeTyped ==
  ASSUME NEW X, NEW x \in Seq(X)
  PROVE  ToSet(x) \subseteq X /\ x \in Seq(ToSet(x))
<1>1. x \in [1..Len(x) -> X] /\ DOMAIN x = 1..Len(x) /\ Len(x) \in Nat
  BY LenProperties
<1>2. \A i \in 1..Len(x) : x[i] \in X /\ x[i] \in ToSet(x)
  BY <1>1 DEF ToSet
<1>3. x \in [1..Len(x) -> ToSet(x)]
  BY <1>1, <1>2
<1>4. ToSet(x) \subseteq X
  BY <1>1, <1>2 DEF ToSet
<1>5. x \in Seq(ToSet(x))
  <2> DEFINE n == Len(x)
             R == ToSet(x)
  <2>1. n \in Nat /\ x \in [1..n -> R]
    BY <1>1, <1>3
  <2> HIDE DEF n, R
  <2>2. x \in Seq(R)
    BY <2>1, SeqDef
  <2> QED BY <2>2 DEF R
<1> QED BY <1>4, <1>5

LEMMA RangeConcat ==
  ASSUME NEW X, NEW x \in Seq(X), NEW y \in Seq(X)
  PROVE  ToSet(x \o y) = ToSet(x) \union ToSet(y)
<1> DEFINE P(s) == ToSet(x \o s) = ToSet(x) \union ToSet(s)
<1>1. P(<<>>)
  BY ConcatEmptySeq DEF ToSet
<1>2. ASSUME NEW s \in Seq(X), NEW e \in X, P(s) PROVE P(Append(s, e))
  <2>1. x \o s \in Seq(X) /\ x \o Append(s, e) = Append(x \o s, e)
    BY AppendConcat, ConcatProperties
  <2>2. ToSet(Append(x \o s, e)) = ToSet(x \o s) \union {e}
    <3> DEFINE xs == x \o s
    <3>1. xs \in Seq(X)
      BY <2>1
    <3> HIDE DEF xs
    <3>2. ToSet(Append(xs, e)) = ToSet(xs) \union {e}
      BY <3>1, RangeAppend
    <3> QED BY <3>2 DEF xs
  <2>3. ToSet(Append(s, e)) = ToSet(s) \union {e}
    BY RangeAppend
  <2> QED BY <1>2, <2>1, <2>2, <2>3
<1>3. \A s \in Seq(X) : P(s)
  <2> HIDE DEF P
  <2> DEFINE T == {s \in Seq(X) : P(s)}
  <2>1. <<>> \in T
    BY <1>1, EmptySeq
  <2>2. \A s \in Seq(X), e \in X : s \in T => Append(s, e) \in T
    BY <1>2, AppendProperties
  <2>3. Seq(X) \subseteq T
    <3> HIDE DEF T
    <3> QED BY <2>1, <2>2, SeqInduct
  <2> QED BY <2>3
<1> QED BY <1>3

LEMMA RangePrefix ==
  ASSUME NEW X, NEW x \in Seq(X), NEW k \in 0..Len(x)
  PROVE  ToSet(SubSeq(x, 1, k)) \subseteq ToSet(x) /\ SubSeq(x, 1, k) \in Seq(X)
<1> DEFINE y == SubSeq(x, 1, k)
<1>1. /\ y \in Seq(X) /\ Len(y) = k
      /\ \A i \in 1..k : y[i] = x[i]
  BY ElementOfSeq, SubSeqProperties
<1>2. DOMAIN y = 1..k /\ DOMAIN x = 1..Len(x) /\ \A i \in 1..k : i \in 1..Len(x)
  BY <1>1, LenProperties
<1> QED BY <1>1, <1>2 DEF ToSet

\* Normalisation finds no orphan in a coherent history.
LEMMA NoOrphans ==
  ASSUME NEW x \in Seq(AllItems), Coherent(x)
  PROVE  RemoveOrphanOutputs(x) = x
<1> DEFINE S == {i \in ToSet(x) : IsOutput(i) => \E c \in ToSet(x) : Answers(i, c)}
<1>1. S = ToSet(x)
  <2> SUFFICES ASSUME NEW i \in ToSet(x), IsOutput(i) PROVE \E c \in ToSet(x) : Answers(i, c)
    OBVIOUS
  <2>1. PICK o \in DOMAIN x : i = x[o]
    BY DEF ToSet
  <2>2. PICK c \in DOMAIN x : Answers(x[o], x[c])
    BY <2>1 DEF Coherent
  <2> QED BY <2>1, <2>2 DEF ToSet
<1>2. RemoveOrphanOutputs(x) = Only(x, ToSet(x))
  BY <1>1, Zenon DEF RemoveOrphanOutputs
<1> QED BY <1>2, RangeTyped, OnlyAll

LEMMA ForPromptTyped ==
  ASSUME NEW x \in Seq(AllItems)
  PROVE  /\ ForPrompt(x) \in Seq(AllItems)
         /\ \A e \in ToSet(ForPrompt(x)) : e \in ToSet(x) \/ IsOutput(e)
<1> DEFINE y == EnsureCallOutputsPresent(x)
           z == RemoveOrphanOutputs(y)
<1>1. y \in Seq(AllItems) /\ \A e \in ToSet(y) : e \in ToSet(x) \/ IsOutput(e)
  BY EnsureProperties
<1> HIDE DEF y
<1>2. z \in Seq(AllItems) /\ ToSet(z) \subseteq ToSet(y)
  <2> DEFINE S == {i \in ToSet(y) : IsOutput(i) => \E c \in ToSet(y) : Answers(i, c)}
  <2>1. z = Only(y, S)
    BY Zenon DEF RemoveOrphanOutputs
  <2> HIDE DEF S
  <2>2. Only(y, S) \in Seq(AllItems) /\ ToSet(Only(y, S)) = ToSet(y) \intersect S
    BY <1>1, OnlyInSeq, OnlyRange
  <2> QED BY <2>1, <2>2
<1> HIDE DEF z
<1>3. Conversation(z) \in Seq(AllItems) /\ ToSet(Conversation(z)) \subseteq ToSet(z)
  BY <1>2, ConversationTyped, ConversationRange
<1>4. ForPrompt(x) = Conversation(z)
  BY DEF ForPrompt, y, z
<1> QED BY <1>1, <1>2, <1>3, <1>4

\* A request made of coherent items pairs calls and outputs.
LEMMA ForPromptPaired ==
  ASSUME NEW x \in Seq(AllItems), Coherent(x)
  PROVE  Paired(ForPrompt(x))
<1> DEFINE y == EnsureCallOutputsPresent(x)
           z == Conversation(y)
<1>1. y \in Seq(AllItems) /\ Coherent(y)
      /\ \A c \in ToSet(y) : IsCall(c) => OutputOf(c) \in ToSet(y)
  BY EnsureProperties
<1>2. ForPrompt(x) = z
  BY <1>1, NoOrphans DEF ForPrompt
<1> HIDE DEF y
<1>3. /\ z \in Seq(AllItems)
      /\ ToSet(z) = {e \in ToSet(y) : ~IsGhost(e)}
      /\ ToSet(y) \subseteq AllItems
  BY <1>1, ConversationTyped, ConversationRange, RangeTyped
<1>4. Coherent(z)
  <2>1. \A e \in AllItems : IsCall(e) \/ IsOutput(e) => e \in Items(ItemKinds \ {"ghost"})
    BY KindsOfItems DEF IsCall, IsOutput, IsGhost, CallKinds, OutputKinds
  <2> QED BY <1>1, <2>1, CoherentOnly DEF Conversation
<1> HIDE DEF z
<1>5. ASSUME NEW c \in DOMAIN z, IsCall(z[c])
      PROVE  \E o \in DOMAIN z :
               o > c /\ {j \in DOMAIN z : Answers(z[j], z[c])} = {o}
  <2>1. DOMAIN z = 1..Len(z) /\ Len(z) \in Nat /\ \A i \in DOMAIN z : z[i] \in AllItems
    BY <1>3, ElementOfSeq, LenProperties
  <2>2. z[c] \in ToSet(z)
    BY DEF ToSet
  <2>3. OutputOf(z[c]) \in ToSet(z) /\ IsOutput(OutputOf(z[c]))
    BY <1>1, <1>3, <1>5, <2>1, <2>2, OutputsOfCalls
  <2>4. PICK o \in DOMAIN z : z[o] = OutputOf(z[c])
    BY <2>3 DEF ToSet
  <2>5. PICK d \in DOMAIN z : d < o /\ Answers(z[o], z[d])
    BY <1>4, <2>3, <2>4 DEF Coherent
  <2>6. z[d] = z[c]
    BY <1>5, <2>1, <2>4, <2>5, OutputsOfCalls DEF Answers
  <2>7. d = c
    BY <1>4, <1>5, <2>6 DEF Coherent
  <2>8. {j \in DOMAIN z : Answers(z[j], z[c])} = {o}
    <3>1. Answers(z[o], z[c])
      BY <2>5, <2>7
    <3>2. ASSUME NEW j \in DOMAIN z, Answers(z[j], z[c]) PROVE j = o
      BY <1>4, <2>3, <2>4, <3>2 DEF Coherent, Answers
    <3> QED BY <3>1, <3>2
  <2> QED BY <2>1, <2>5, <2>7, <2>8
<1>6. ASSUME NEW o \in DOMAIN z, IsOutput(z[o])
      PROVE  \E c \in DOMAIN z : Answers(z[o], z[c])
  BY <1>4, <1>6 DEF Coherent
<1> QED BY <1>2, <1>5, <1>6 DEF Paired

-----------------------------------------------------------------------------
(* What a line brings back. *)

\* The items that a line brings back, apart from context and summaries.
ItemsOf(l) ==
  IF l.line = "item" THEN {l.item}
  ELSE IF l.line = "compacted" THEN ToSet(l.replacement) ELSE {}

\* Where the items come from once a line is replayed.
LEMMA ReplayRange ==
  ASSUME NEW x \in Seq(AllItems), NEW l \in Lines
  PROVE  \A e \in ToSet(ReplayLine(x, l)) :
           \/ e \in ToSet(x) \/ e \in ItemsOf(l)
           \/ e.kind \in {"context", "summary"}
<1>1. CASE l.line = "item" /\ l.item \in AllItems
  <2>1. ToSet(Append(x, l.item)) = ToSet(x) \union {l.item}
    BY <1>1, RangeAppend
  <2>2. ReplayLine(x, l) = Append(x, l.item) /\ ItemsOf(l) = {l.item}
    BY <1>1, ReplayKinds DEF ItemsOf
  <2> QED BY <2>1, <2>2
<1>2. CASE l.line = "compacted" /\ l.summary \in Nat /\ l.replacement \in Seq(AllItems)
  <2>1. CASE l.replacement # <<>>
    BY <1>2, <2>1, ReplayKinds DEF ItemsOf
  <2>2. CASE l.replacement = <<>>
    <3> DEFINE u == CollectUserMessages(x)
               b == BuildCompactedHistory(u, l.summary)
    <3>1. u \in Seq(AllItems) /\ ToSet(u) \subseteq ToSet(x)
      BY ConversationTyped, ConversationRange
    <3>2. Context \in AllItems /\ Item("summary", l.summary) \in AllItems
      BY <1>2, ItemTyped DEF Context, ItemKinds, MessageKinds, AllItems
    <3>3. ToSet(b) \subseteq ToSet(u) \union {Context, Item("summary", l.summary)}
      <4> HIDE DEF u
      <4> QED BY <3>1, <3>2, BuildTyped
    <3>4. ReplayLine(x, l) = b
      BY <1>2, <2>2, ReplayKinds
    <3> HIDE DEF u, b
    <3>5. Context.kind = "context" /\ Item("summary", l.summary).kind = "summary"
      BY DEF Context, Item
    <3> QED BY <3>1, <3>3, <3>4, <3>5
  <2> QED BY <2>1, <2>2
<1>3. CASE l.line = "rolled_back" /\ l.turns \in Nat
  <2>1. PICK k \in 0..Len(x) : DropLastNUserTurns(x, l.turns) = SubSeq(x, 1, k)
    BY <1>3, DropTyped
  <2> QED BY <1>3, <2>1, RangePrefix, ReplayKinds
<1> QED BY <1>1, <1>2, <1>3, LineKinds

\* What keeps the items coherent when a line is replayed.
LEMMA ReplayCoherent ==
  ASSUME NEW x \in Seq(AllItems), Coherent(x), NEW l \in Lines,
         l.line = "item" => Coherent(Append(x, l.item)),
         l.line = "compacted" => Coherent(l.replacement)
  PROVE  Coherent(ReplayLine(x, l))
<1>1. CASE l.line = "item"
  BY <1>1, ReplayKinds
<1>2. CASE l.line = "compacted" /\ l.summary \in Nat /\ l.replacement \in Seq(AllItems)
  <2>1. CASE l.replacement # <<>>
    BY <1>2, <2>1, ReplayKinds
  <2>2. CASE l.replacement = <<>>
    <3> DEFINE u == CollectUserMessages(x)
               b == BuildCompactedHistory(u, l.summary)
    <3>1. u \in Seq(AllItems) /\ \A e \in ToSet(u) : e.kind \in {"user", "aborted"}
      BY ConversationTyped, ConversationRange
    <3>2. Context \in AllItems /\ Item("summary", l.summary) \in AllItems
      BY <1>2, ItemTyped DEF Context, ItemKinds, MessageKinds, AllItems
    <3>3. ToSet(b) \subseteq ToSet(u) \union {Context, Item("summary", l.summary)}
      <4> HIDE DEF u
      <4> QED BY <3>1, <3>2, BuildTyped
    <3>4. ReplayLine(x, l) = b
      BY <1>2, <2>2, ReplayKinds
    <3> HIDE DEF u, b
    <3>5. Context.kind = "context" /\ Item("summary", l.summary).kind = "summary"
      BY DEF Context, Item
    <3>6. \A e \in ToSet(b) : ~IsCall(e) /\ ~IsOutput(e)
      BY <3>1, <3>3, <3>5 DEF IsCall, IsOutput, CallKinds, OutputKinds
    <3> QED BY <3>4, <3>6, CoherentPlain
  <2> QED BY <2>1, <2>2
<1>3. CASE l.line = "rolled_back" /\ l.turns \in Nat
  <2>1. PICK k \in 0..Len(x) : DropLastNUserTurns(x, l.turns) = SubSeq(x, 1, k)
    BY <1>3, DropTyped
  <2> QED BY <1>3, <2>1, CoherentPrefix, ReplayKinds
<1> QED BY <1>1, <1>2, <1>3, LineKinds

-----------------------------------------------------------------------------
(* Every step preserves the types. *)

LEMMA ConcatOne ==
  ASSUME NEW X, NEW s \in Seq(X), NEW e \in X
  PROVE  s \o <<e>> = Append(s, e) /\ Append(s, e) \in Seq(X) /\ Len(Append(s, e)) = Len(s) + 1
OBVIOUS

LEMMA LinesTyped ==
  /\ \A item \in AllItems : ItemLine(item) \in Lines
  /\ \A item : ItemLine(item).line = "item" /\ ItemLine(item).item = item
  /\ \A n \in Nat : RolledBackLine(n) \in Lines
  /\ \A n : RolledBackLine(n).line = "rolled_back" /\ RolledBackLine(n).turns = n
  /\ \A s \in Nat, r \in Seq(AllItems) : CompactedLine(s, r) \in Lines
  /\ \A s, r : CompactedLine(s, r).line = "compacted"
               /\ CompactedLine(s, r).summary = s /\ CompactedLine(s, r).replacement = r
BY DEF ItemLine, RolledBackLine, CompactedLine, Lines, ItemLines, RolledBackLines, CompactedLines

LEMMA AllTyped ==
  ASSUME NEW kind \in ItemKinds, NEW id \in Nat
  PROVE  Item(kind, id) \in AllItems /\ Item(kind, id).kind = kind /\ Item(kind, id).id = id
<1>1. Item(kind, id) \in Items(ItemKinds)
  BY ItemTyped
<1> QED BY <1>1 DEF AllItems, Item

\* Without its other half an item leaves a sequence of items.
LEMMA RemovedTyped ==
  ASSUME NEW x \in Seq(AllItems)
  PROVE  /\ \A e : RemoveCorrespondingFor(x, e) \in Seq(AllItems)
         /\ RemoveFirstItem(x) \in Seq(AllItems)
         /\ RemoveLastItem(x) \in Seq(AllItems)
<1>1. ASSUME NEW y \in Seq(AllItems), NEW e PROVE RemoveCorrespondingFor(y, e) \in Seq(AllItems)
  <2> DEFINE matches == {i \in DOMAIN y : Answers(y[i], e) \/ Answers(e, y[i])}
  <2>1. RemoveCorrespondingFor(y, e) = IF matches = {} THEN y ELSE RemoveAt(y, Min(matches))
    BY DEF RemoveCorrespondingFor
  <2>2. matches \subseteq 1..Len(y) /\ Len(y) \in Nat
    BY LenProperties
  <2> HIDE DEF matches
  <2>3. CASE matches # {}
    <3>1. Min(matches) \in matches
      <4>1. matches \subseteq Nat
        BY <2>2
      <4> QED BY <2>3, <4>1, MinIn
    <3>2. RemoveAt(y, Min(matches)) \in Seq(AllItems)
      BY <2>2, <3>1, RemoveAtIndexes
    <3> QED BY <2>1, <2>3, <3>2
  <2> QED BY <2>1, <2>3
<1>2. x = <<>> \/ (Tail(x) \in Seq(AllItems) /\ Front(x) \in Seq(AllItems))
  <2>1. CASE x # <<>>
    <3>1. Len(x) \in Nat /\ Len(x) - 1 \in 0..Len(x)
      BY <2>1, EmptySeq, LenProperties
    <3>2. SubSeq(x, 1, Len(x) - 1) \in Seq(AllItems)
      BY <3>1, RangePrefix
    <3> QED BY <2>1, <3>2, HeadTailProperties DEF Front
  <2> QED BY <2>1
<1> QED BY <1>1, <1>2 DEF RemoveFirstItem, RemoveLastItem

LEMMA TrimTyped ==
  ASSUME NEW x \in Seq(AllItems), NEW n \in Nat
  PROVE  TrimOutputs(x, n) \in Seq(AllItems)
BY TrimIn, RemovedTyped

\* The types that the other invariants need.
Typed ==
  /\ history \in Seq(AllItems) /\ copy \in Seq(AllItems)
  /\ calls \in Seq(Items(CallKinds))
  /\ log \in Seq(Lines) /\ flushed \in 0..Len(log)
  /\ pending = <<>> \/ \E l \in Lines : pending = <<l>>
  /\ next \in 0..MaxItems /\ detours \in Nat
  /\ seeded \in BOOLEAN /\ torn \in BOOLEAN /\ unsaved \in BOOLEAN
  /\ pc \in {"idle", "updating", "aborting", "rollback", "rolled_back"} \union TaskPCs
  /\ back \in {"idle", "begin", "sampling"}
  /\ snapping \subseteq 1..next /\ snapped \subseteq 1..next
  /\ snapping \intersect snapped = {}

\* Which steps may find what of the turn.
Steps ==
  /\ pending # <<>> => pc \notin {"begin", "undo", "compact", "rebuild", "remote"}
  /\ pc = "rollback" => \E n \in Nat : pending = <<RolledBackLine(n)>>
  /\ pc = "undo" => \E i \in DOMAIN copy : IsGhost(copy[i])
  /\ unsaved => pc \in {"compact", "rebuild"}
  /\ calls # <<>> => /\ pc \in {"sampling", "draining"}
                     /\ pending = <<>> \/ \E i \in AllItems : pending = <<ItemLine(i)>>

LEMMA RecordTyped ==
  ASSUME Typed, NEW item \in AllItems, RecordItem(item)
  PROVE  /\ history' \in Seq(AllItems)
         /\ pending' = <<ItemLine(item)>> /\ ItemLine(item) \in Lines
         /\ pending' # <<>>
BY LinesTyped, ConcatOne DEF Typed, RecordItem, RecordIntoHistory

LEMMA InitTyped == Init => Typed /\ Steps
<1> SUFFICES ASSUME Init PROVE Typed /\ Steps
  OBVIOUS
<1>1. Context \in AllItems
  BY AllTyped DEF Context, ItemKinds, MessageKinds
<1>2. ItemLine(Context) \in Lines
  BY <1>1, LinesTyped
<1>3. Typed
  <2>1. <<Context>> \in Seq(AllItems) /\ <<>> \in Seq(AllItems)
        /\ <<>> \in Seq(Items(CallKinds))
    BY <1>1
  <2>2. <<ItemLine(Context)>> \in Seq(Lines) /\ 1 \in 0..Len(<<ItemLine(Context)>>)
    BY <1>2
  <2>3. 0 \in 0..MaxItems
    BY BoundAssumption
  <2> QED BY <2>1, <2>2, <2>3 DEF Init, Typed
<1>4. Steps
  BY DEF Init, Steps
<1> QED BY <1>3, <1>4

\* Every step preserves the types.
LEMMA TypedStep ==
  ASSUME Typed, Steps, [Next]_vars
  PROVE  Typed' /\ Steps'
<1> USE BoundAssumption
<1>a. /\ history \in Seq(AllItems) /\ copy \in Seq(AllItems)
      /\ calls \in Seq(Items(CallKinds)) /\ log \in Seq(Lines)
      /\ flushed \in Nat /\ Len(log) \in Nat /\ flushed <= Len(log)
      /\ next \in Nat /\ next <= MaxItems /\ detours \in Nat /\ MaxItems \in Nat
      /\ <<>> \in Seq(AllItems) /\ <<>> \in Seq(Items(CallKinds))
  BY LenProperties, EmptySeq DEF Typed
<1>b. \A kind \in ItemKinds, id \in Nat : Item(kind, id) \in AllItems
  BY AllTyped
<1>c. /\ {"context", "developer", "user", "assistant", "aborted", "ghost", "compaction"}
           \subseteq ItemKinds
      /\ Outputs \subseteq ItemKinds
  BY DEF ItemKinds, MessageKinds, CallKinds
<1>d. CASE UNCHANGED vars
  BY <1>d DEF vars, turnVars, ghostVars, logVars, auxVars, rollVars, Typed, Steps
<1>1. CASE Persist
  <2>1. PICK l \in Lines : pending = <<l>>
    BY <1>1 DEF Persist, Typed
  <2>2. log \o <<l>> \in Seq(Lines) /\ Len(log \o <<l>>) = Len(log) + 1
    BY <1>a, ConcatOne
  <2>3. log' \in Seq(Lines) /\ flushed' \in 0..Len(log')
    BY <1>1, <1>a, <2>1, <2>2 DEF Persist
  <2>4. Typed'
    BY <1>1, <2>3 DEF Persist, Typed, ghostVars, auxVars, rollVars
  <2>5. Steps'
    BY <1>1 DEF Persist, Steps, ghostVars, auxVars, rollVars, TaskPCs
  <2> QED BY <2>4, <2>5
<1>2. CASE SeedInitialContextIfNeeded
  <2>1. Context \in AllItems
    BY <1>b, <1>c DEF Context
  <2>2. /\ history' \in Seq(AllItems) /\ pending' = <<ItemLine(Context)>>
        /\ ItemLine(Context) \in Lines
    BY <1>2, <2>1, RecordTyped DEF SeedInitialContextIfNeeded
  <2>3. Typed'
    BY <1>2, <2>2 DEF SeedInitialContextIfNeeded, Goto, Typed, ghostVars, logVars, auxVars, rollVars
  <2>4. Steps'
    BY <1>2 DEF SeedInitialContextIfNeeded, Goto, Steps, ghostVars, logVars, auxVars, rollVars
  <2> QED BY <2>3, <2>4
<1>3. CASE SpawnTurn
  BY <1>3 DEF SpawnTurn, Goto, Typed, Steps, ghostVars, logVars, auxVars, rollVars, TaskPCs
<1>4. CASE RecordUserPrompt
  <2>1. next' = next + 1 /\ next' \in 0..MaxItems /\ next' \in Nat
    BY <1>4, <1>a DEF RecordUserPrompt, Numbered
  <2>2. Item("user", next') \in AllItems
    BY <1>b, <1>c, <2>1
  <2>3. /\ history' \in Seq(AllItems) /\ pending' = <<ItemLine(Item("user", next'))>>
        /\ ItemLine(Item("user", next')) \in Lines
    BY <1>4, <2>2, RecordTyped DEF RecordUserPrompt
  <2>4. /\ snapping' \subseteq 1..next' /\ snapped' \subseteq 1..next'
        /\ snapping' \intersect snapped' = {} /\ detours' \in Nat
    <3>1. /\ snapping \subseteq 1..next /\ snapped \subseteq 1..next
          /\ snapping \intersect snapped = {} /\ snapped' = snapped
      BY <1>4 DEF RecordUserPrompt, Typed
    <3>2. next' \in 1..next' /\ next' \notin 1..next /\ 1..next \subseteq 1..next'
      BY <1>a, <2>1
    <3>3. snapping' = snapping \union {next'} \/ snapping' = snapping
      BY <1>4 DEF RecordUserPrompt
    <3>4. detours' \in Nat
      BY <1>4, <1>a DEF RecordUserPrompt, Detour
    <3> QED BY <3>1, <3>2, <3>3, <3>4
  <2>5. Typed'
    BY <1>4, <2>1, <2>3, <2>4
    DEF RecordUserPrompt, Goto, Typed, logVars, rollVars, TaskPCs
  <2>6. Steps'
    BY <1>4 DEF RecordUserPrompt, Goto, Steps, logVars, rollVars
  <2> QED BY <2>5, <2>6
<1>5. CASE RecordPendingInput
  <2>1. next' = next + 1 /\ next' \in 0..MaxItems /\ next' \in Nat
    BY <1>5, <1>a DEF RecordPendingInput, Numbered
  <2>2. Item("user", next') \in AllItems
    BY <1>b, <1>c, <2>1
  <2>3. /\ history' \in Seq(AllItems) /\ pending' = <<ItemLine(Item("user", next'))>>
        /\ ItemLine(Item("user", next')) \in Lines
    BY <1>5, <2>2, RecordTyped DEF RecordPendingInput
  <2>4. snapping \subseteq 1..next' /\ snapped \subseteq 1..next'
    BY <1>a, <2>1 DEF Typed
  <2>5. Typed'
    BY <1>5, <2>1, <2>3, <2>4
    DEF RecordPendingInput, Goto, Typed, ghostVars, logVars, rollVars, TaskPCs
  <2>6. Steps'
    BY <1>5 DEF RecordPendingInput, Goto, Steps, ghostVars, logVars, rollVars
  <2> QED BY <2>5, <2>6
<1>6. CASE HandleOutputItemDone
  <2>1. next' = next + 1 /\ next' \in 0..MaxItems /\ next' \in Nat
    BY <1>6, <1>a DEF HandleOutputItemDone, Numbered
  <2>2. PICK kind \in Outputs :
          /\ RecordItem(Item(kind, next'))
          /\ calls' = IF IsCall(Item(kind, next')) THEN Append(calls, Item(kind, next'))
                      ELSE calls
    BY <1>6 DEF HandleOutputItemDone
  <2>3. Item(kind, next') \in AllItems
    BY <1>b, <1>c, <2>1
  <2>4. /\ history' \in Seq(AllItems) /\ pending' = <<ItemLine(Item(kind, next'))>>
        /\ ItemLine(Item(kind, next')) \in Lines
    BY <2>2, <2>3, RecordTyped
  <2>5. calls' \in Seq(Items(CallKinds))
    <3>1. ASSUME IsCall(Item(kind, next')) PROVE Item(kind, next') \in Items(CallKinds)
      BY <2>1, <3>1 DEF IsCall, Item, Items
    <3> QED BY <1>a, <2>2, <3>1, ConcatOne
  <2>6. snapping \subseteq 1..next' /\ snapped \subseteq 1..next'
    BY <1>a, <2>1 DEF Typed
  <2>7. Typed'
    BY <1>6, <2>1, <2>4, <2>5, <2>6
    DEF HandleOutputItemDone, Goto, Typed, ghostVars, logVars, rollVars, TaskPCs
  <2>8. Steps'
    BY <1>6, <2>3, <2>4 DEF HandleOutputItemDone, Goto, Steps, ghostVars, logVars, rollVars
  <2> QED BY <2>7, <2>8
<1>7. CASE StreamOver
  BY <1>7 DEF StreamOver, Goto, Typed, Steps, ghostVars, logVars, auxVars, rollVars, TaskPCs
<1>8. CASE DrainOutput
  <2>1. Head(calls) \in Items(CallKinds) /\ Tail(calls) \in Seq(Items(CallKinds))
    BY <1>8, <1>a, HeadTailProperties DEF DrainOutput
  <2>2. Head(calls) \in AllItems /\ IsCall(Head(calls))
    BY <2>1 DEF Items, AllItems, IsCall, ItemKinds
  <2>3. OutputOf(Head(calls)) \in AllItems
    BY <2>2, OutputsOfCalls
  <2>4. /\ history' \in Seq(AllItems) /\ pending' = <<ItemLine(OutputOf(Head(calls)))>>
        /\ ItemLine(OutputOf(Head(calls))) \in Lines
    BY <1>8, <2>3, RecordTyped DEF DrainOutput
  <2>5. Typed'
    BY <1>8, <2>1, <2>4 DEF DrainOutput, Goto, Typed, ghostVars, logVars, auxVars, rollVars
  <2>6. Steps'
    BY <1>8, <2>3, <2>4 DEF DrainOutput, Goto, Steps, ghostVars, logVars, auxVars, rollVars
  <2> QED BY <2>5, <2>6
<1>9. CASE DrainFails
  <2>1. Tail(calls) \in Seq(Items(CallKinds))
    BY <1>9, <1>a, HeadTailProperties DEF DrainFails
  <2> QED BY <1>9, <2>1
          DEF DrainFails, Goto, Typed, Steps, ghostVars, logVars, auxVars, rollVars, TaskPCs
<1>10. CASE Drained
  BY <1>10 DEF Drained, Goto, Typed, Steps, ghostVars, logVars, auxVars, rollVars, TaskPCs
<1>11. CASE \E g \in 1..MaxItems : SnapshotTaken(g)
  <2>1. PICK g \in 1..MaxItems : SnapshotTaken(g)
    BY <1>11
  <2>2. Item("ghost", g) \in AllItems
    BY <1>b, <1>c
  <2>3. history' \in Seq(AllItems)
    BY <1>a, <2>1, <2>2, ConcatOne DEF SnapshotTaken, RecordIntoHistory
  <2>4. Typed'
    BY <2>1, <2>3 DEF SnapshotTaken, Typed, turnVars, logVars, auxVars, rollVars
  <2>5. Steps'
    BY <2>1 DEF SnapshotTaken, Steps, turnVars, logVars, auxVars, rollVars
  <2> QED BY <2>4, <2>5
<1>12. CASE \E g \in 1..MaxItems : SnapshotPersisted(g)
  <2>1. PICK g \in 1..MaxItems : SnapshotPersisted(g)
    BY <1>12
  <2>2. ItemLine(Item("ghost", g)) \in Lines
    BY <1>b, <1>c, LinesTyped
  <2>3. log' \in Seq(Lines) /\ Len(log') = Len(log) + 1
    BY <1>a, <2>1, <2>2, ConcatOne DEF SnapshotPersisted
  <2>4. flushed \in 0..Len(log')
    BY <1>a, <2>3
  <2>5. Typed'
    BY <2>1, <2>3, <2>4 DEF SnapshotPersisted, Typed, turnVars, auxVars, rollVars
  <2>6. Steps'
    BY <2>1 DEF SnapshotPersisted, Steps, turnVars, auxVars, rollVars
  <2> QED BY <2>5, <2>6
<1>13. CASE \E g \in 1..MaxItems : SnapshotFails(g)
  BY <1>13 DEF SnapshotFails, Typed, Steps, turnVars, logVars, auxVars, rollVars
<1>14. CASE SpawnUndo
  <2>1. \E i \in DOMAIN history : IsGhost(history[i])
    <3>1. Ghosts(history) \in Seq(AllItems) /\ Ghosts(history) # <<>>
      BY <1>14, <1>a, ConversationTyped DEF SpawnUndo
    <3>2. Ghosts(history)[1] \in ToSet(Ghosts(history))
      BY <3>1 DEF ToSet
    <3>3. \A e \in ToSet(Ghosts(history)) : e \in ToSet(history) /\ IsGhost(e)
      BY <1>a, ConversationRange
    <3> QED BY <3>2, <3>3 DEF ToSet
  <2>2. Typed'
    BY <1>14 DEF SpawnUndo, Goto, Typed, ghostVars, logVars, auxVars, rollVars, TaskPCs
  <2>3. Steps'
    BY <1>14, <2>1 DEF SpawnUndo, Goto, Steps, ghostVars, logVars, auxVars, rollVars
  <2> QED BY <2>2, <2>3
<1>15. CASE UndoRestored
  <2> DEFINE ghosts == {i \in DOMAIN copy : IsGhost(copy[i])}
  <2>1. ghosts \subseteq 1..Len(copy) /\ Len(copy) \in Nat /\ ghosts # {}
    BY <1>15, <1>a, LenProperties DEF UndoRestored, Steps
  <2> HIDE DEF ghosts
  <2>2. Max(ghosts) \in ghosts
    <3>1. ghosts \subseteq 0..Len(copy)
      BY <2>1
    <3> QED BY <2>1, <3>1, MaxIn
  <2>3. RemoveAt(copy, Max(ghosts)) \in Seq(AllItems)
    BY <1>a, <2>1, <2>2, RemoveAtIndexes
  <2>4. history' \in Seq(AllItems)
    BY <1>15, <2>3 DEF UndoRestored, ghosts
  <2>5. Typed'
    BY <1>15, <1>a, <2>4 DEF UndoRestored, Goes, Typed, ghostVars, logVars, auxVars, rollVars
  <2>6. Steps'
    BY <1>15 DEF UndoRestored, Goes, Steps, ghostVars, logVars, auxVars, rollVars
  <2> QED BY <2>5, <2>6
<1>16. CASE UndoFails
  BY <1>16, <1>a DEF UndoFails, Goes, Typed, Steps, ghostVars, logVars, auxVars, rollVars
<1>17. CASE BeginLocal
  <2>1. Item("user", 0) \in AllItems
    BY <1>b, <1>c
  <2>2. copy' \in Seq(AllItems)
    BY <1>17, <1>a, <2>1, ConcatOne DEF BeginLocal
  <2>3. detours' \in Nat
    BY <1>17, <1>a DEF BeginLocal, BeginCompaction, Detour
  <2>4. Typed'
    BY <1>17, <2>2, <2>3
    DEF BeginLocal, BeginCompaction, Goto, Typed, ghostVars, logVars, rollVars, TaskPCs
  <2>5. Steps'
    BY <1>17 DEF BeginLocal, BeginCompaction, Goto, Steps, ghostVars, logVars, rollVars
  <2> QED BY <2>4, <2>5
<1>18. CASE TrimOldest
  <2>1. copy' \in Seq(AllItems)
    BY <1>18, <1>a, RemovedTyped DEF TrimOldest
  <2> QED BY <1>18, <2>1
          DEF TrimOldest, Goto, Typed, Steps, ghostVars, logVars, auxVars, rollVars
<1>19. CASE Summarise
  <2>1. next' = next + 1 /\ next' \in 0..MaxItems /\ next' \in Nat
    BY <1>19, <1>a DEF Summarise, Numbered
  <2>2. Item("assistant", next') \in AllItems
    BY <1>b, <1>c, <2>1
  <2>3. history' \in Seq(AllItems)
    BY <1>19, <1>a, <2>2, ConcatOne DEF Summarise, RecordIntoHistory
  <2>4. snapping \subseteq 1..next' /\ snapped \subseteq 1..next'
    BY <1>a, <2>1 DEF Typed
  <2>5. Typed'
    BY <1>19, <2>1, <2>3, <2>4 DEF Summarise, Goto, Typed, ghostVars, logVars, rollVars
  <2>6. Steps'
    BY <1>19 DEF Summarise, Goto, Steps, ghostVars, logVars, rollVars
  <2> QED BY <2>5, <2>6
<1>20. CASE CompactFails
  <2>1. Typed'
    BY <1>20, <1>a DEF CompactFails, Goes, Typed, ghostVars, logVars, rollVars, TaskPCs
  <2>2. Steps'
    BY <1>20, <1>a DEF CompactFails, Goes, Steps, Typed, ghostVars, logVars, rollVars
  <2> QED BY <2>1, <2>2
<1>21. CASE CloneHistory
  BY <1>21 DEF CloneHistory, Goto, Typed, Steps, ghostVars, logVars, auxVars, rollVars, TaskPCs
<1>22. CASE ReplaceLocal
  <2> DEFINE b == BuildCompactedHistory(CollectUserMessages(copy), detours)
  <2>1. b \in Seq(AllItems) /\ Ghosts(copy) \in Seq(AllItems)
    BY <1>a, ConversationOfBuilt, ConversationTyped
  <2> HIDE DEF b
  <2>2. b \o Ghosts(copy) \in Seq(AllItems)
    BY <2>1, ConcatProperties
  <2>3. history' \in Seq(AllItems)
    BY <1>22, <2>2 DEF ReplaceLocal, b
  <2>4. CompactedLine(detours, <<>>) \in Lines
    BY <1>a, LinesTyped
  <2>5. Typed'
    BY <1>22, <2>3, <2>4 DEF ReplaceLocal, Goto, Typed, ghostVars, logVars, rollVars, TaskPCs
  <2>6. Steps'
    BY <1>22 DEF ReplaceLocal, Goto, Steps, ghostVars, logVars, rollVars
  <2> QED BY <2>5, <2>6
<1>23. CASE BeginRemote
  <2>1. PICK n \in 0..Len(history) : copy' = TrimOutputs(history, n)
    BY <1>23 DEF BeginRemote
  <2>2. n \in Nat
    BY <1>a, LenProperties
  <2>3. copy' \in Seq(AllItems)
    BY <1>a, <2>1, <2>2, TrimTyped
  <2>4. detours' \in Nat
    BY <1>23, <1>a DEF BeginRemote, BeginCompaction, Detour
  <2>5. Typed'
    BY <1>23, <2>3, <2>4
    DEF BeginRemote, BeginCompaction, Goto, Typed, ghostVars, logVars, rollVars, TaskPCs
  <2>6. Steps'
    BY <1>23 DEF BeginRemote, BeginCompaction, Goto, Steps, ghostVars, logVars, rollVars
  <2> QED BY <2>5, <2>6
<1>24. CASE ReplaceRemote
  <2> DEFINE p == ForPrompt(copy)
             a == RemoteAnswer(p)
  <2>1. p \in Seq(AllItems)
    BY <1>a, ForPromptTyped
  <2> HIDE DEF p
  <2>2. CollectUserMessages(p) \in Seq(AllItems) /\ Item("compaction", detours) \in AllItems
    BY <1>a, <1>b, <1>c, <2>1, ConversationTyped
  <2>3. a \in Seq(AllItems)
    BY <2>2, ConcatOne DEF RemoteAnswer
  <2> HIDE DEF a
  <2>4. a \o Ghosts(copy) \in Seq(AllItems)
    BY <1>a, <2>3, ConversationTyped, ConcatProperties
  <2>5. history' \in Seq(AllItems)
    BY <1>24, <2>4 DEF ReplaceRemote, a, p
  <2>6. CompactedLine(detours, history') \in Lines
    BY <1>a, <2>5, LinesTyped
  <2>7. Typed'
    BY <1>24, <2>5, <2>6
    DEF ReplaceRemote, Goto, Typed, ghostVars, logVars, auxVars, rollVars, TaskPCs
  <2>8. Steps'
    BY <1>24 DEF ReplaceRemote, Goto, Steps, ghostVars, logVars, auxVars, rollVars
  <2> QED BY <2>7, <2>8
<1>25. CASE CompactionOver
  <2>1. Typed'
    BY <1>25, <1>a DEF CompactionOver, Goes, Typed, ghostVars, logVars, auxVars, rollVars, TaskPCs
  <2>2. Steps'
    BY <1>25 DEF CompactionOver, Goes, Steps, Typed, ghostVars, logVars, auxVars, rollVars
  <2> QED BY <2>1, <2>2
<1>26. CASE ReplaceTask
  <2>1. detours' \in Nat
    BY <1>26, <1>a DEF ReplaceTask, DropTask, Detour
  <2>2. Typed'
    BY <1>26, <1>a, <2>1
    DEF ReplaceTask, DropTask, Goes, Typed, ghostVars, logVars, rollVars, TaskPCs
  <2>3. Steps'
    BY <1>26 DEF ReplaceTask, DropTask, Goes, Steps
  <2> QED BY <2>2, <2>3
<1>27. CASE InterruptTask
  <2>1. next' = next + 1 /\ next' \in 0..MaxItems /\ next' \in Nat /\ detours' \in Nat
    BY <1>27, <1>a DEF InterruptTask, Numbered, DropTask, Detour
  <2>2. Item("aborted", next') \in AllItems
    BY <1>b, <1>c, <2>1
  <2>3. /\ history' \in Seq(AllItems) /\ pending' = <<ItemLine(Item("aborted", next'))>>
        /\ ItemLine(Item("aborted", next')) \in Lines
    BY <1>27, <2>2, RecordTyped DEF InterruptTask
  <2>4. snapping \subseteq 1..next' /\ snapped \subseteq 1..next'
    BY <1>a, <2>1 DEF Typed
  <2>5. Typed'
    BY <1>27, <1>a, <2>1, <2>3, <2>4
    DEF InterruptTask, DropTask, Goes, Typed, ghostVars, logVars, rollVars
  <2>6. Steps'
    BY <1>27 DEF InterruptTask, DropTask, Goes, Steps
  <2> QED BY <2>5, <2>6
<1>28. CASE ThreadRollback
  <2>1. PICK n \in 1..2 : /\ copy' = DropLastNUserTurns(history, n)
                          /\ pending' = <<RolledBackLine(n)>>
    BY <1>28 DEF ThreadRollback
  <2>2. copy' \in Seq(AllItems) /\ RolledBackLine(n) \in Lines /\ n \in Nat
    <3>1. n \in Nat
      OBVIOUS
    <3> QED BY <1>a, <2>1, <3>1, DropTyped, LinesTyped
  <2>3. detours' \in Nat
    BY <1>28, <1>a DEF ThreadRollback, Detour
  <2>4. Typed'
    BY <1>28, <2>1, <2>2, <2>3 DEF ThreadRollback, Goto, Typed, ghostVars, logVars, rollVars
  <2>5. Steps'
    BY <1>28, <2>1, <2>2 DEF ThreadRollback, Goto, Steps, ghostVars, logVars, rollVars
  <2> QED BY <2>4, <2>5
<1>29. CASE ReplaceRolledBack
  <2>1. Typed'
    BY <1>29 DEF ReplaceRolledBack, Typed, ghostVars, logVars
  <2>2. Steps'
    BY <1>29 DEF ReplaceRolledBack, Steps, ghostVars, logVars
  <2> QED BY <2>1, <2>2
<1>30. CASE AnnounceRollback
  <2>1. Typed'
    BY <1>30, <1>a DEF AnnounceRollback, Goes, Typed, ghostVars
  <2>2. Steps'
    BY <1>30 DEF AnnounceRollback, Goes, Steps, ghostVars
  <2> QED BY <2>1, <2>2
<1>31. CASE Restart
  <2>1. PICK n \in flushed..Len(log) : log' = SubSeq(log, 1, n)
    BY <1>31 DEF Restart
  <2>2. n \in 0..Len(log)
    BY <1>a
  <2>3. log' \in Seq(Lines) /\ Len(log') \in Nat
    BY <1>a, <2>1, <2>2, RangePrefix, LenProperties
  <2>4. history' \in Seq(AllItems)
    BY <1>31, <2>3, ReconstructTyped DEF Restart
  <2>5. detours' \in Nat
    BY <1>31, <1>a DEF Restart, Detour
  <2>6. flushed' \in 0..Len(log')
    BY <1>31, <2>3 DEF Restart
  <2>7. /\ copy' = <<>> /\ calls' = <<>> /\ pending' = <<>> /\ pc' = "idle" /\ back' = "idle"
        /\ snapping' = {} /\ snapped' = {} /\ next' = next
        /\ seeded' = FALSE /\ unsaved' = FALSE /\ torn' = FALSE
    BY <1>31 DEF Restart, Goes
  <2>8. Typed'
    BY <1>a, <2>3, <2>4, <2>5, <2>6, <2>7 DEF Typed
  <2>9. Steps'
    BY <2>7 DEF Steps
  <2> QED BY <2>8, <2>9
<1>32. CASE RecordSettingsUpdate
  <2>1. next' = next + 1 /\ next' \in 0..MaxItems /\ next' \in Nat
    BY <1>32, <1>a DEF RecordSettingsUpdate, Numbered
  <2>2. Item("developer", next') \in AllItems
    BY <1>b, <1>c, <2>1
  <2>3. /\ history' \in Seq(AllItems) /\ pending' = <<ItemLine(Item("developer", next'))>>
        /\ ItemLine(Item("developer", next')) \in Lines
    BY <1>32, <2>2, RecordTyped DEF RecordSettingsUpdate
  <2>4. snapping \subseteq 1..next' /\ snapped \subseteq 1..next'
    BY <1>a, <2>1 DEF Typed
  <2>5. Typed'
    BY <1>32, <2>1, <2>3, <2>4
    DEF RecordSettingsUpdate, Goto, Typed, ghostVars, logVars, rollVars, TaskPCs
  <2>6. Steps'
    BY <1>32 DEF RecordSettingsUpdate, Goto, Steps, ghostVars, logVars, rollVars
  <2> QED BY <2>5, <2>6
<1> QED
  BY <1>d, <1>1, <1>2, <1>3, <1>4, <1>5, <1>6, <1>7, <1>8, <1>9, <1>10, <1>11, <1>12, <1>13,
     <1>14, <1>15, <1>16, <1>17, <1>18, <1>19, <1>20, <1>21, <1>22, <1>23, <1>24, <1>25,
     <1>26, <1>27, <1>28, <1>29, <1>30, <1>31, <1>32 DEF Next

\* Every step of the loop, of its task and of the writer keeps to the types, and
\* at every step the turn is where that step expects it.
THEOREM Types == Spec => [](Typed /\ Steps)
<1>1. Init => Typed /\ Steps
  BY InitTyped
<1>2. Typed /\ Steps /\ [Next]_vars => (Typed /\ Steps)'
  BY TypedStep
<1> QED BY <1>1, <1>2, PTL DEF Spec

-----------------------------------------------------------------------------
(* Memory and rollout hold the same conversation. *)

\* The conversation that the rollout holds, and that it holds once what is
\* pending is persisted.
Persisted == ReconstructHistoryFromRollout(log)
Recorded == ReconstructHistoryFromRollout(log \o pending)

\* What a restart would find when the pending line is persisted.
LEMMA ReconstructPending ==
  ASSUME NEW lines \in Seq(Lines)
  PROVE  /\ ReconstructHistoryFromRollout(lines) \in Seq(AllItems)
         /\ ReconstructHistoryFromRollout(lines \o <<>>) = ReconstructHistoryFromRollout(lines)
         /\ \A l \in Lines :
              /\ ReconstructHistoryFromRollout(lines \o <<l>>)
                   = ReplayLine(ReconstructHistoryFromRollout(lines), l)
              /\ ReconstructHistoryFromRollout(Append(lines, l))
                   = ReplayLine(ReconstructHistoryFromRollout(lines), l)
              /\ ReconstructHistoryFromRollout(lines \o <<l>>) \in Seq(AllItems)
<1>1. lines \o <<>> = lines
  BY ConcatEmptySeq
<1>2. ASSUME NEW l \in Lines
      PROVE  /\ lines \o <<l>> = Append(lines, l)
             /\ ReconstructHistoryFromRollout(Append(lines, l))
                  = ReplayLine(ReconstructHistoryFromRollout(lines), l)
  BY ConcatOne, ReconstructAppend
<1>3. \A l \in Lines : Append(lines, l) \in Seq(Lines)
  BY ConcatOne
<1>4. ReconstructHistoryFromRollout(lines) \in Seq(AllItems)
  BY ReconstructTyped
<1>5. \A l \in Lines : ReconstructHistoryFromRollout(Append(lines, l)) \in Seq(AllItems)
  BY <1>3, ReconstructTyped
<1> QED BY <1>1, <1>2, <1>4, <1>5

LEMMA CollectAppend ==
  ASSUME NEW x \in Seq(AllItems), NEW e \in AllItems, e.kind \notin {"user", "aborted"}
  PROVE  CollectUserMessages(Append(x, e)) = CollectUserMessages(x)
<1> DEFINE S == Items({"user", "aborted"})
<1>1. Only(Append(x, e), S) = IF e \in S THEN Append(Only(x, S), e) ELSE Only(x, S)
  BY OnlyAppend, Zenon
<1>2. e \notin S
  BY KindsOfItems
<1> QED BY <1>1, <1>2 DEF CollectUserMessages

\* The same conversation has the same user messages.
LEMMA CollectAgrees ==
  ASSUME NEW x \in Seq(AllItems), NEW y \in Seq(AllItems), Conversation(x) = Conversation(y)
  PROVE  CollectUserMessages(x) = CollectUserMessages(y)
<1>1. CollectUserMessages(Conversation(x)) = CollectUserMessages(x)
  BY ConversationOf
<1>2. CollectUserMessages(Conversation(y)) = CollectUserMessages(y)
  BY ConversationOf
<1> QED BY <1>1, <1>2

\* A ghost snapshot changes nothing of the conversation.
LEMMA GhostAppend ==
  ASSUME NEW x \in Seq(AllItems), NEW g \in Nat
  PROVE  /\ Item("ghost", g) \in AllItems /\ IsGhost(Item("ghost", g))
         /\ Append(x, Item("ghost", g)) \in Seq(AllItems)
         /\ Conversation(Append(x, Item("ghost", g))) = Conversation(x)
         /\ CollectUserMessages(Append(x, Item("ghost", g))) = CollectUserMessages(x)
<1>1. Item("ghost", g) \in AllItems /\ Item("ghost", g).kind = "ghost"
  BY AllTyped DEF ItemKinds
<1>2. IsGhost(Item("ghost", g))
  BY <1>1 DEF IsGhost
<1>3. Append(x, Item("ghost", g)) \in Seq(AllItems)
  BY <1>1, ConcatOne
<1>4. Conversation(Append(x, Item("ghost", g))) = Conversation(x)
  BY <1>1, <1>2, ConversationAppend
<1> QED BY <1>1, <1>2, <1>3, <1>4, CollectAppend

\* Without one of its ghosts a sequence has the same conversation.
LEMMA ConversationWithoutGhost ==
  ASSUME NEW x \in Seq(AllItems), NEW k \in 1..Len(x), IsGhost(x[k])
  PROVE  Conversation(RemoveAt(x, k)) = Conversation(x)
<1> DEFINE a == SubSeq(x, 1, k - 1)
           b == SubSeq(x, k + 1, Len(x))
<1>1. Len(x) \in Nat /\ k - 1 \in 0..Len(x) /\ x[k] \in AllItems
  BY LenProperties, ElementOfSeq
<1>2. a \in Seq(AllItems)
  BY <1>1, RangePrefix
<1>3. b \in Seq(AllItems)
  <2>1. \A i \in k + 1..Len(x) : x[i] \in AllItems
    BY <1>1, ElementOfSeq
  <2> QED BY <1>1, <2>1, SubSeqProperties
<1>4. Append(a, x[k]) \in Seq(AllItems) /\ Append(a, x[k]) = SubSeq(x, 1, k)
  BY <1>1
<1>5. x = Append(a, x[k]) \o b
  <2>1. x = SubSeq(x, 1, k) \o b
    BY <1>1
  <2> QED BY <1>4, <2>1
<1>6. RemoveAt(x, k) = a \o b
  BY DEF RemoveAt
<1> HIDE DEF a, b
<1>7. Conversation(a \o b) = Conversation(a) \o Conversation(b)
  BY <1>2, <1>3, ConversationConcat
<1>8. Conversation(Append(a, x[k]) \o b) = Conversation(Append(a, x[k])) \o Conversation(b)
  BY <1>3, <1>4, ConversationConcat
<1>9. Conversation(Append(a, x[k])) = Conversation(a)
  BY <1>1, <1>2, ConversationAppend
<1> QED BY <1>5, <1>6, <1>7, <1>8, <1>9

\* The history after a local compaction has the conversation that replaying its
\* line builds.
LEMMA LocalAnswer ==
  ASSUME NEW x \in Seq(AllItems), NEW d \in Nat
  PROVE  BuildCompactedHistory(CollectUserMessages(x), d) \in Seq(AllItems)
         /\ Conversation(BuildCompactedHistory(CollectUserMessages(x), d) \o Ghosts(x))
              = BuildCompactedHistory(CollectUserMessages(x), d)
<1> DEFINE b == BuildCompactedHistory(CollectUserMessages(x), d)
<1>1. b \in Seq(AllItems) /\ Conversation(b) = b
  BY ConversationOfBuilt
<1>2. Ghosts(x) \in Seq(AllItems) /\ Conversation(Ghosts(x)) = <<>>
  BY ConversationTyped, ConversationOf
<1> HIDE DEF b
<1>3. Conversation(b \o Ghosts(x)) = Conversation(b) \o Conversation(Ghosts(x))
  BY <1>1, <1>2, ConversationConcat
<1>4. b \o <<>> = b
  BY <1>1, ConcatEmptySeq
<1> QED BY <1>1, <1>2, <1>3, <1>4 DEF b

\* What the memory and the rollout have in common, wherever the loop and its
\* task are.
Agree == ~torn =>
  /\ pc # "rollback" /\ ~unsaved => Conversation(Recorded) = Conversation(history)
  /\ unsaved => CollectUserMessages(Recorded) = CollectUserMessages(history)
  /\ pc = "rebuild" => CollectUserMessages(copy) = CollectUserMessages(history)
  /\ pc = "undo" => Conversation(copy) = Conversation(history)
  /\ pc = "rollback" =>
       /\ Conversation(Persisted) = Conversation(history)
       /\ \A n \in Nat : pending = <<RolledBackLine(n)>> =>
            Conversation(copy) = DropLastNUserTurns(Conversation(history), n)

\* What is recorded is what is persisted, with the pending line replayed.
LEMMA TypedRecorded ==
  ASSUME Typed
  PROVE  /\ Persisted \in Seq(AllItems) /\ Recorded \in Seq(AllItems)
         /\ pending = <<>> => Recorded = Persisted
         /\ \A l \in Lines : pending = <<l>> => Recorded = ReplayLine(Persisted, l)
BY ReconstructPending DEF Typed, Persisted, Recorded

\* An item is recorded in the memory and is pending for the rollout.
LEMMA RecordAgrees ==
  ASSUME Typed, Agree, ~torn, ~unsaved, pc # "rollback", pending = <<>>, log' = log,
         NEW item \in AllItems, RecordItem(item)
  PROVE  Conversation(Recorded') = Conversation(history')
<1>1. pending' = <<ItemLine(item)>> /\ ItemLine(item) \in Lines
  BY LinesTyped DEF RecordItem
<1>2. Recorded' = ReplayLine(Persisted, ItemLine(item))
  BY <1>1, ReconstructPending DEF Recorded, Persisted, Typed
<1>3. Conversation(Persisted) = Conversation(history)
  BY TypedRecorded DEF Agree
<1>4. Conversation(ReplayLine(Persisted, ItemLine(item)))
        = Conversation(ReplayLine(history, ItemLine(item)))
  BY <1>1, <1>3, TypedRecorded, ReplayRespects DEF Typed
<1>5. ReplayLine(history, ItemLine(item)) = history'
  BY LinesTyped, ReplayKinds DEF RecordItem, RecordIntoHistory
<1> QED BY <1>2, <1>4, <1>5

LEMMA InitAgree == Init => Agree
<1> SUFFICES ASSUME Init PROVE Agree
  OBVIOUS
<1>1. Context \in AllItems
  BY AllTyped DEF Context, ItemKinds, MessageKinds
<1>2. <<>> \in Seq(Lines) /\ ItemLine(Context) \in Lines
  BY <1>1, LinesTyped
<1>3. log = Append(<<>>, ItemLine(Context)) /\ pending = <<>>
  BY DEF Init
<1>4. Persisted = ReplayLine(<<>>, ItemLine(Context))
  BY <1>2, <1>3, ReconstructAppend, ReconstructEmpty DEF Persisted
<1>5. ReplayLine(<<>>, ItemLine(Context)) = Append(<<>>, Context)
  <2> DEFINE l == ItemLine(Context)
  <2>1. l.line = "item" /\ l.item = Context
    BY LinesTyped
  <2> HIDE DEF l
  <2>2. ReplayLine(<<>>, l) = Append(<<>>, l.item)
    BY <2>1, ReplayKinds
  <2> QED BY <2>1, <2>2 DEF l
<1>6. Recorded = history
  BY <1>3, <1>4, <1>5, InitTyped, TypedRecorded DEF Init
<1> QED BY <1>6 DEF Init, Agree

\* Every step preserves what memory and rollout have in common.
LEMMA AgreeStep ==
  ASSUME Typed, Steps, Agree, [Next]_vars
  PROVE  Agree'
<1>a. /\ history \in Seq(AllItems) /\ copy \in Seq(AllItems) /\ log \in Seq(Lines)
      /\ next \in Nat /\ detours \in Nat
      /\ Persisted \in Seq(AllItems) /\ Recorded \in Seq(AllItems)
      /\ pending = <<>> => Recorded = Persisted
  BY TypedRecorded DEF Typed
<1>b. Typed' /\ Steps'
  BY TypedStep
<1>c. \A kind \in ItemKinds, id \in Nat : Item(kind, id) \in AllItems
  BY AllTyped
<1>d. /\ {"context", "developer", "user", "assistant", "aborted", "ghost", "compaction"}
           \subseteq ItemKinds
      /\ Outputs \subseteq ItemKinds
  BY BoundAssumption DEF ItemKinds, MessageKinds, CallKinds
<1>e. CASE UNCHANGED vars
  BY <1>e DEF vars, turnVars, logVars, auxVars, Agree, Recorded, Persisted
<1>1. CASE Persist
  <2>1. PICK l \in Lines : pending = <<l>>
    BY <1>1 DEF Persist, Typed
  <2>2. Recorded' = Recorded
    <3>1. log' = log \o pending /\ pending' = <<>> /\ log' \in Seq(Lines)
      BY <1>1, <1>b DEF Persist, Typed
    <3> QED BY <3>1, ReconstructPending DEF Recorded
  <2> QED BY <1>1, <2>2 DEF Persist, Agree, Steps, auxVars
<1>2. CASE SeedInitialContextIfNeeded
  <2>1. Context \in AllItems
    BY <1>c, <1>d DEF Context
  <2>2. ~torn => Conversation(Recorded') = Conversation(history')
    BY <1>2, <2>1, RecordAgrees DEF SeedInitialContextIfNeeded, Goto, logVars, Steps
  <2> QED BY <1>2, <2>2 DEF SeedInitialContextIfNeeded, Goto, auxVars, Agree, Steps
<1>3. CASE SpawnTurn
  BY <1>3 DEF SpawnTurn, Goto, logVars, auxVars, Agree, Recorded
<1>4. CASE RecordUserPrompt
  <2>1. Item("user", next') \in AllItems
    BY <1>4, <1>a, <1>c, <1>d DEF RecordUserPrompt, Numbered
  <2>2. ~torn => Conversation(Recorded') = Conversation(history')
    BY <1>4, <2>1, RecordAgrees DEF RecordUserPrompt, Goto, logVars, Steps
  <2> QED BY <1>4, <2>2 DEF RecordUserPrompt, Goto, Agree, Steps
<1>5. CASE RecordPendingInput
  <2>1. Item("user", next') \in AllItems
    BY <1>5, <1>a, <1>c, <1>d DEF RecordPendingInput, Numbered
  <2>2. ~torn => Conversation(Recorded') = Conversation(history')
    BY <1>5, <2>1, RecordAgrees DEF RecordPendingInput, Goto, logVars, Steps
  <2> QED BY <1>5, <2>2 DEF RecordPendingInput, Goto, Agree, Steps
<1>6. CASE HandleOutputItemDone
  <2>1. PICK kind \in Outputs : RecordItem(Item(kind, next'))
    BY <1>6 DEF HandleOutputItemDone
  <2>2. Item(kind, next') \in AllItems
    BY <1>6, <1>a, <1>c, <1>d DEF HandleOutputItemDone, Numbered
  <2>3. ~torn => Conversation(Recorded') = Conversation(history')
    BY <1>6, <2>1, <2>2, RecordAgrees DEF HandleOutputItemDone, Goto, logVars, Steps
  <2> QED BY <1>6, <2>3 DEF HandleOutputItemDone, Goto, Agree, Steps
<1>7. CASE StreamOver
  BY <1>7 DEF StreamOver, Goto, logVars, auxVars, Agree, Recorded
<1>8. CASE DrainOutput
  <2>1. Head(calls) \in Items(CallKinds)
    BY <1>8, HeadTailProperties DEF DrainOutput, Typed
  <2>2. Head(calls) \in AllItems /\ IsCall(Head(calls))
    BY <2>1 DEF Items, AllItems, IsCall, ItemKinds
  <2>3. OutputOf(Head(calls)) \in AllItems
    BY <2>2, OutputsOfCalls
  <2>4. ~torn => Conversation(Recorded') = Conversation(history')
    BY <1>8, <2>3, RecordAgrees DEF DrainOutput, Goto, logVars, Steps
  <2> QED BY <1>8, <2>4 DEF DrainOutput, Goto, auxVars, Agree, Steps
<1>9. CASE DrainFails
  BY <1>9 DEF DrainFails, Goto, logVars, auxVars, Agree, Recorded
<1>10. CASE Drained
  BY <1>10 DEF Drained, Goto, logVars, auxVars, Agree, Recorded
<1>11. CASE \E g \in 1..MaxItems : SnapshotTaken(g)
  <2>1. PICK g \in 1..MaxItems : SnapshotTaken(g)
    BY <1>11
  <2>2. /\ Conversation(history') = Conversation(history)
        /\ CollectUserMessages(history') = CollectUserMessages(history)
    BY <1>a, <2>1, GhostAppend DEF SnapshotTaken, RecordIntoHistory
  <2> QED BY <2>1, <2>2
          DEF SnapshotTaken, turnVars, logVars, auxVars, Agree, Recorded, Persisted
<1>12. CASE \E g \in 1..MaxItems : SnapshotPersisted(g)
  <2>1. PICK g \in 1..MaxItems : SnapshotPersisted(g)
    BY <1>12
  <2> DEFINE l == ItemLine(Item("ghost", g))
  <2>2. l \in Lines /\ log' = Append(log, l) /\ pending' = pending
    BY <1>c, <1>d, <2>1, LinesTyped DEF SnapshotPersisted, turnVars
  <2>3. ReplayLine(Persisted, l) = Append(Persisted, Item("ghost", g))
    BY LinesTyped, ReplayKinds
  <2> HIDE DEF l
  <2>4. Persisted' = Append(Persisted, Item("ghost", g))
    BY <1>a, <2>2, <2>3, ReconstructAppend DEF Persisted
  <2>5. Conversation(Persisted') = Conversation(Persisted) /\ Persisted' \in Seq(AllItems)
    BY <1>a, <2>4, GhostAppend
  <2>6. Conversation(Recorded') = Conversation(Recorded)
    <3>1. pending' = <<>> => Recorded' = Persisted'
      BY <1>b, ReconstructPending DEF Typed, Persisted, Recorded
    <3>2. ASSUME NEW p \in Lines, pending = <<p>>
          PROVE  Conversation(Recorded') = Conversation(Recorded)
      <4>1. Recorded = ReplayLine(Persisted, p)
        BY <3>2, TypedRecorded
      <4>2. Recorded' = ReplayLine(Persisted', p)
        BY <1>b, <2>2, <3>2, ReconstructPending DEF Typed, Persisted, Recorded
      <4> QED BY <1>a, <2>5, <4>1, <4>2, ReplayRespects
    <3> QED BY <1>a, <2>2, <2>5, <3>1, <3>2 DEF Typed
  <2>7. CollectUserMessages(Recorded') = CollectUserMessages(Recorded)
    <3>1. Recorded' \in Seq(AllItems)
      <4>1. log' \in Seq(Lines) /\ (pending' = <<>> \/ \E p \in Lines : pending' = <<p>>)
        BY <1>b DEF Typed
      <4> QED BY <4>1, ReconstructPending DEF Recorded
    <3> QED BY <1>a, <2>6, <3>1, CollectAgrees
  <2> QED BY <2>1, <2>5, <2>6, <2>7 DEF SnapshotPersisted, turnVars, auxVars, Agree
<1>13. CASE \E g \in 1..MaxItems : SnapshotFails(g)
  BY <1>13 DEF SnapshotFails, turnVars, logVars, auxVars, Agree, Recorded, Persisted
<1>14. CASE SpawnUndo
  BY <1>14 DEF SpawnUndo, Goto, logVars, auxVars, Agree, Recorded
<1>15. CASE UndoRestored
  <2> DEFINE ghosts == {i \in DOMAIN copy : IsGhost(copy[i])}
             k == Max(ghosts)
  <2>1. ghosts \subseteq 1..Len(copy) /\ Len(copy) \in Nat /\ ghosts # {}
    BY <1>15, <1>a, LenProperties DEF UndoRestored, Steps
  <2>2. k \in ghosts
    <3> HIDE DEF ghosts
    <3>1. ghosts \subseteq 0..Len(copy)
      BY <2>1
    <3> QED BY <2>1, <3>1, MaxIn
  <2>3. k \in 1..Len(copy) /\ IsGhost(copy[k])
    BY <2>1, <2>2
  <2>4. history' = RemoveAt(copy, k)
    BY <1>15 DEF UndoRestored
  <2> HIDE DEF ghosts, k
  <2>5. Conversation(history') = Conversation(copy)
    BY <1>a, <2>3, <2>4, ConversationWithoutGhost
  <2> QED BY <1>15, <2>5 DEF UndoRestored, Goes, logVars, auxVars, Agree, Steps, Recorded
<1>16. CASE UndoFails
  BY <1>16 DEF UndoFails, Goes, logVars, auxVars, Agree, Steps, Recorded
<1>17. CASE BeginLocal
  BY <1>17 DEF BeginLocal, BeginCompaction, Goto, logVars, Agree, Recorded, Steps
<1>18. CASE TrimOldest
  BY <1>18 DEF TrimOldest, Goto, logVars, auxVars, Agree, Recorded
<1>19. CASE Summarise
  <2>1. /\ Item("assistant", next') \in AllItems
        /\ Item("assistant", next').kind = "assistant"
    <3>1. "assistant" \in ItemKinds /\ next' \in Nat
      BY <1>19, <1>a, <1>d DEF Summarise, Numbered
    <3> QED BY <3>1, AllTyped
  <2>2. CollectUserMessages(history') = CollectUserMessages(history)
    BY <1>19, <1>a, <2>1, CollectAppend DEF Summarise, RecordIntoHistory
  <2>3. ~torn => CollectUserMessages(Recorded) = CollectUserMessages(history)
    BY <1>19, <1>a, CollectAgrees DEF Summarise, Goto, Agree
  <2> QED BY <1>19, <2>2, <2>3 DEF Summarise, Goto, logVars, Agree, Recorded
<1>20. CASE CompactFails
  BY <1>20 DEF CompactFails, Goes, logVars, Agree, Recorded, Typed
<1>21. CASE CloneHistory
  BY <1>21 DEF CloneHistory, Goto, logVars, auxVars, Agree, Recorded
<1>22. CASE ReplaceLocal
  <2> DEFINE b == BuildCompactedHistory(CollectUserMessages(copy), detours)
             l == CompactedLine(detours, <<>>)
  <2>1. b \in Seq(AllItems) /\ Conversation(history') = b
    BY <1>22, <1>a, LocalAnswer DEF ReplaceLocal
  <2>2. l \in Lines /\ pending' = <<l>> /\ log' = log
    BY <1>22, <1>a, LinesTyped, EmptySeq DEF ReplaceLocal, logVars
  <2>3. ReplayLine(Persisted, l) = BuildCompactedHistory(CollectUserMessages(Persisted), detours)
    BY LinesTyped, ReplayKinds
  <2> HIDE DEF l
  <2>4. Recorded' = ReplayLine(Persisted, l)
    BY <1>a, <2>2, ReconstructPending DEF Recorded, Persisted
  <2>5. ASSUME ~torn
        PROVE  CollectUserMessages(Persisted) = CollectUserMessages(copy)
    BY <1>22, <1>a, <2>5, CollectAgrees DEF ReplaceLocal, Goto, Agree
  <2>6. Conversation(Recorded') = Recorded'
    BY <1>a, <2>3, <2>4, ConversationOfBuilt
  <2>7. ~torn => Conversation(Recorded') = Conversation(history')
    BY <2>1, <2>3, <2>4, <2>5, <2>6
  <2> QED BY <1>22, <2>7 DEF ReplaceLocal, Goto, Agree
<1>23. CASE BeginRemote
  BY <1>23 DEF BeginRemote, BeginCompaction, Goto, logVars, Agree, Recorded, Steps
<1>24. CASE ReplaceRemote
  <2> DEFINE l == CompactedLine(detours, history')
  <2>1. history' \in Seq(AllItems) /\ l \in Lines /\ pending' = <<l>> /\ log' = log
    BY <1>24, <1>a, <1>b, LinesTyped DEF ReplaceRemote, logVars, Typed
  <2>2. history' # <<>>
    <3> DEFINE u == CollectUserMessages(ForPrompt(copy))
               e == Item("compaction", detours)
    <3>1. u \in Seq(AllItems) /\ e \in AllItems /\ Ghosts(copy) \in Seq(AllItems)
      BY <1>a, <1>c, <1>d, ForPromptTyped, ConversationTyped
    <3>2. history' = (u \o <<e>>) \o Ghosts(copy)
      BY <1>24 DEF ReplaceRemote, RemoteAnswer
    <3> HIDE DEF u, e
    <3>3. Append(u, e) \in Seq(AllItems) /\ Len(Append(u, e)) > 0 /\ u \o <<e>> = Append(u, e)
      BY <3>1, ConcatOne, LenProperties
    <3>4. Len(history') > 0
      BY <3>1, <3>2, <3>3, ConcatProperties, LenProperties
    <3> QED BY <3>4, EmptySeq
  <2>3. ReplayLine(Persisted, l) = history'
    BY <2>2, LinesTyped, <2>1, <1>a, ReplayKinds
  <2> HIDE DEF l
  <2>4. Recorded' = history'
    BY <1>a, <2>1, <2>3, ReconstructPending DEF Recorded, Persisted
  <2> QED BY <1>24, <2>4 DEF ReplaceRemote, Goto, auxVars, Agree
<1>25. CASE CompactionOver
  BY <1>25 DEF CompactionOver, Goes, logVars, auxVars, Agree, Recorded, Steps, Typed
<1>26. CASE ReplaceTask
  BY <1>26 DEF ReplaceTask, DropTask, Goes, TaskPCs, logVars, Agree, Recorded
<1>27. CASE InterruptTask
  <2>1. Item("aborted", next') \in AllItems
    BY <1>27, <1>a, <1>c, <1>d DEF InterruptTask, Numbered
  <2>2. ~torn' => ~torn /\ ~unsaved /\ pending = <<>> /\ pc # "rollback"
    BY <1>27 DEF InterruptTask, DropTask, TaskPCs
  <2>3. ~torn' => Conversation(Recorded') = Conversation(history')
    BY <1>27, <2>1, <2>2, RecordAgrees DEF InterruptTask, logVars
  <2> QED BY <1>27, <2>3 DEF InterruptTask, DropTask, Goes, Agree
<1>28. CASE ThreadRollback
  <2>1. PICK n \in 1..2 : /\ copy' = DropLastNUserTurns(history, n)
                          /\ pending' = <<RolledBackLine(n)>>
    BY <1>28 DEF ThreadRollback
  <2>2. n \in Nat
    OBVIOUS
  <2>3. Conversation(copy') = DropLastNUserTurns(Conversation(history), n)
    BY <1>a, <2>1, <2>2, DropConversation
  <2>4. ~torn => Conversation(Persisted) = Conversation(history)
    BY <1>28, <1>a DEF ThreadRollback, Goto, Agree, Steps
  <2>5. \A m \in Nat : pending' = <<RolledBackLine(m)>> => m = n
    BY <2>1, LinesTyped
  <2> QED BY <1>28, <2>3, <2>4, <2>5
          DEF ThreadRollback, Goto, logVars, Agree, Persisted, Steps
<1>29. CASE ReplaceRolledBack
  <2>1. PICK n \in Nat : pending = <<RolledBackLine(n)>>
    BY <1>29 DEF ReplaceRolledBack, Steps
  <2>2. RolledBackLine(n) \in Lines
    BY LinesTyped
  <2>3. Recorded = DropLastNUserTurns(Persisted, n)
    BY <2>1, <2>2, TypedRecorded, LinesTyped, ReplayKinds
  <2>4. Conversation(Recorded) = DropLastNUserTurns(Conversation(Persisted), n)
    BY <1>a, <2>3, DropConversation
  <2>5. ~torn => Conversation(Recorded) = Conversation(copy)
    BY <1>29, <2>1, <2>4 DEF ReplaceRolledBack, Agree
  <2> QED BY <1>29, <2>5 DEF ReplaceRolledBack, logVars, Agree, Recorded, Steps
<1>30. CASE AnnounceRollback
  BY <1>30 DEF AnnounceRollback, Goes, Agree, Recorded, Steps
<1>31. CASE Restart
  <2>1. /\ log' \in Seq(Lines) /\ pending' = <<>> /\ pc' = "idle" /\ ~unsaved'
        /\ history' = ReconstructHistoryFromRollout(log')
    BY <1>31, <1>b DEF Restart, Goes, Typed
  <2>2. Recorded' = history'
    BY <2>1, ReconstructPending DEF Recorded
  <2> QED BY <2>1, <2>2 DEF Agree
<1>32. CASE RecordSettingsUpdate
  <2>1. Item("developer", next') \in AllItems
    BY <1>32, <1>a, <1>c, <1>d DEF RecordSettingsUpdate, Numbered
  <2>2. ~torn => Conversation(Recorded') = Conversation(history')
    BY <1>32, <2>1, RecordAgrees DEF RecordSettingsUpdate, Goto, logVars, Steps
  <2> QED BY <1>32, <2>2 DEF RecordSettingsUpdate, Goto, Agree, Steps
<1> QED
  BY <1>e, <1>1, <1>2, <1>3, <1>4, <1>5, <1>6, <1>7, <1>8, <1>9, <1>10, <1>11, <1>12, <1>13,
     <1>14, <1>15, <1>16, <1>17, <1>18, <1>19, <1>20, <1>21, <1>22, <1>23, <1>24, <1>25,
     <1>26, <1>27, <1>28, <1>29, <1>30, <1>31, <1>32 DEF Next

\* At every step of compaction, undo and rollback the history in memory and the
\* rollout, with what is pending for it, have the same in common.
THEOREM SameConversation == Spec => []Agree
<1>1. Init => Agree
  BY InitAgree
<1>2. Typed /\ Steps /\ Agree /\ [Next]_vars => Agree'
  BY AgreeStep
<1> QED BY <1>1, <1>2, Types, PTL DEF Spec

\* Whenever the loop waits for an Op and no abort tore memory and rollout apart,
\* resuming rebuilds from the rollout the conversation that is in memory.
THEOREM ResumedThreadsAgree == Spec => []ResumeAgrees
<1>1. Typed /\ Steps /\ Agree => ResumeAgrees
  BY TypedRecorded DEF Agree, ResumeAgrees, AtRest, Persisted, Recorded, Steps
<1> QED BY <1>1, Types, SameConversation, PTL

-----------------------------------------------------------------------------
(* What requests can be made of, and what is gone for good. *)

\* Items that a request can be made of: they are coherent, their calls have
\* been numbered, and no user message is of a turn that is gone.
Kept(items, n, dropped) ==
  /\ Coherent(items)
  /\ \A e \in ToSet(items) :
       /\ IsCall(e) => e.id <= n
       /\ e.kind = "user" => e.id \in (1..n) \ dropped

LEMMA KeptEmpty == \A n, dropped : Kept(<<>>, n, dropped)
BY CoherentEmpty DEF Kept, ToSet

LEMMA KeptMore ==
  ASSUME NEW x \in Seq(AllItems), NEW n \in Nat, NEW m \in Nat, n <= m, NEW dropped,
         Kept(x, n, dropped)
  PROVE  Kept(x, m, dropped)
<1>1. ASSUME NEW e \in ToSet(x)
      PROVE  /\ IsCall(e) => e.id <= m
             /\ e.kind = "user" => e.id \in (1..m) \ dropped
  <2>1. e \in AllItems
    BY RangeTyped
  <2>2. e.id \in Nat
    BY <2>1 DEF AllItems, Items
  <2> QED BY <1>1, <2>2 DEF Kept
<1> QED BY <1>1 DEF Kept

\* What is left of kept items, with items that are neither calls nor turns.
LEMMA KeptPart ==
  ASSUME NEW x, NEW y, NEW n, NEW dropped, Kept(x, n, dropped), Coherent(y),
         \A e \in ToSet(y) : e \in ToSet(x) \/ (~IsCall(e) /\ e.kind # "user")
  PROVE  Kept(y, n, dropped)
BY DEF Kept

\* An item with a new number is recorded: a message or a call.
LEMMA KeptNew ==
  ASSUME NEW x \in Seq(AllItems), NEW n \in Nat, NEW dropped, dropped \subseteq 1..n,
         Kept(x, n, dropped), NEW kind \in ItemKinds \ OutputKinds
  PROVE  /\ Item(kind, n + 1) \in AllItems
         /\ Kept(Append(x, Item(kind, n + 1)), n + 1, dropped)
<1> DEFINE e == Item(kind, n + 1)
<1>1. e \in AllItems /\ e.kind = kind /\ e.id = n + 1 /\ ~IsOutput(e)
  BY AllTyped DEF IsOutput
<1> HIDE DEF e
<1>2. ToSet(Append(x, e)) = ToSet(x) \union {e}
  BY <1>1, RangeAppend
<1>3. Coherent(x) /\ Kept(x, n + 1, dropped)
  BY KeptMore DEF Kept
<1>4. IsCall(e) => e \notin ToSet(x)
  BY <1>1 DEF Kept
<1>5. Coherent(Append(x, e))
  BY <1>1, <1>3, <1>4, CoherentAppend
<1>6. Kept(Append(x, e), n + 1, dropped)
  BY <1>1, <1>2, <1>3, <1>5 DEF Kept
<1> QED BY <1>1, <1>6 DEF e

LEMMA KeptPlain ==
  ASSUME NEW x \in Seq(AllItems), NEW n, NEW dropped, Kept(x, n, dropped),
         NEW e \in AllItems, ~IsCall(e), ~IsOutput(e), e.kind # "user"
  PROVE  Kept(Append(x, e), n, dropped)
<1>1. ToSet(Append(x, e)) = ToSet(x) \union {e}
  BY RangeAppend
<1>2. Coherent(Append(x, e))
  BY CoherentAppend DEF Kept
<1> QED BY <1>1, <1>2 DEF Kept

\* The output of a call that has none is recorded.
LEMMA KeptOutput ==
  ASSUME NEW x \in Seq(AllItems), NEW n, NEW dropped, Kept(x, n, dropped),
         NEW c \in ToSet(x), IsCall(c), OutputOf(c) \notin ToSet(x)
  PROVE  Kept(Append(x, OutputOf(c)), n, dropped)
<1> DEFINE e == OutputOf(c)
<1>1. c \in AllItems
  BY RangeTyped
<1>2. e \in AllItems /\ IsOutput(e) /\ ~IsCall(e) /\ Answers(e, c)
  BY <1>1, OutputsOfCalls DEF Answers
<1>3. e.kind # "user"
  BY <1>2 DEF IsOutput, OutputKinds
<1>4. e \notin ToSet(x)
  OBVIOUS
<1> HIDE DEF e
<1>5. ToSet(Append(x, e)) = ToSet(x) \union {e}
  BY <1>2, RangeAppend
<1>6. Coherent(Append(x, e))
  BY <1>2, <1>4, CoherentAppend DEF Kept
<1>7. Kept(Append(x, e), n, dropped)
  BY <1>2, <1>3, <1>5, <1>6 DEF Kept
<1> QED BY <1>7 DEF e

LEMMA KeptPrefix ==
  ASSUME NEW x \in Seq(AllItems), NEW n, NEW dropped, Kept(x, n, dropped), NEW k \in 0..Len(x)
  PROVE  Kept(SubSeq(x, 1, k), n, dropped)
BY CoherentPrefix, RangePrefix DEF Kept

\* What keeps the rebuilt items when a line is replayed.
LEMMA KeptReplay ==
  ASSUME NEW x \in Seq(AllItems), NEW n, NEW dropped, Kept(x, n, dropped), NEW l \in Lines,
         l.line = "item" => Kept(Append(x, l.item), n, dropped),
         l.line = "compacted" => Kept(l.replacement, n, dropped)
  PROVE  Kept(ReplayLine(x, l), n, dropped)
<1>1. CASE l.line = "item"
  BY <1>1, ReplayKinds
<1>2. CASE l.line # "item"
  <2>1. Coherent(ReplayLine(x, l))
    BY <1>2, ReplayCoherent DEF Kept
  <2>2. ASSUME NEW e \in ToSet(ReplayLine(x, l))
        PROVE  /\ IsCall(e) => e.id <= n
               /\ e.kind = "user" => e.id \in (1..n) \ dropped
    <3>1. e \in ToSet(x) \/ e \in ItemsOf(l) \/ e.kind \in {"context", "summary"}
      BY ReplayRange
    <3>2. CASE e \in ToSet(x)
      BY <3>2 DEF Kept
    <3>3. CASE e \in ItemsOf(l)
      BY <1>2, <3>3 DEF Kept, ItemsOf
    <3>4. CASE e.kind \in {"context", "summary"}
      BY <3>4 DEF IsCall, CallKinds
    <3> QED BY <3>1, <3>2, <3>3, <3>4
  <2> QED BY <2>1, <2>2 DEF Kept
<1> QED BY <1>1, <1>2

\* A snapshot that is persisted before the line changes none of that.
LEMMA KeptReplayGhost ==
  ASSUME NEW x \in Seq(AllItems), NEW n, NEW dropped, Kept(x, n, dropped), NEW l \in Lines,
         Kept(ReplayLine(x, l), n, dropped), NEW g \in AllItems, IsGhost(g)
  PROVE  Kept(ReplayLine(Append(x, g), l), n, dropped)
<1>1. ~IsCall(g) /\ ~IsOutput(g) /\ g.kind # "user"
  BY DEF IsGhost, IsCall, IsOutput, CallKinds, OutputKinds
<1>2. Kept(Append(x, g), n, dropped) /\ Append(x, g) \in Seq(AllItems)
  BY <1>1, KeptPlain, ConcatOne
<1>3. ToSet(Append(x, g)) = ToSet(x) \union {g}
  BY RangeAppend
<1> DEFINE y == Append(x, g)
<1> HIDE DEF y
<1>4. CASE l.line = "item" /\ l.item \in AllItems
  <2>1. Kept(Append(x, l.item), n, dropped)
    BY <1>4, ReplayKinds
  <2>2. ToSet(Append(x, l.item)) = ToSet(x) \union {l.item}
        /\ ToSet(Append(y, l.item)) = ToSet(y) \union {l.item}
    <3>1. y \in Seq(AllItems)
      BY <1>2 DEF y
    <3> QED BY <1>4, <3>1, RangeAppend
  <2>3. /\ IsOutput(l.item) => \E c \in ToSet(x) : Answers(l.item, c)
        /\ IsCall(l.item) \/ IsOutput(l.item) => l.item \notin ToSet(x)
    BY <1>4, <2>1, CoherentAppend DEF Kept
  <2>4. Coherent(Append(y, l.item))
    BY <1>1, <1>2, <1>3, <1>4, <2>3, CoherentAppend DEF Kept, y
  <2>5. Kept(Append(y, l.item), n, dropped)
    BY <1>1, <1>3, <2>1, <2>2, <2>4 DEF Kept, y
  <2> QED BY <1>2, <1>4, <2>5, ReplayKinds DEF y
<1>5. CASE l.line = "compacted" /\ l.summary \in Nat /\ l.replacement \in Seq(AllItems)
  <2>1. Kept(l.replacement, n, dropped)
    BY <1>5, ReplayKinds, KeptEmpty
  <2> QED BY <1>2, <1>5, <2>1, KeptReplay
<1>6. CASE l.line = "rolled_back" /\ l.turns \in Nat
  BY <1>2, <1>6, KeptReplay
<1> QED BY <1>4, <1>5, <1>6, LineKinds

\* The memory, the clone, and whatever a restart may be left with.
MemoryKept ==
  /\ Kept(history, next, gone)
  /\ Coherent(copy)
  /\ pc # "compact" => Kept(copy, next, gone)

PrefixesKept == \A n \in flushed..Len(log) :
  Kept(ReconstructHistoryFromRollout(SubSeq(log, 1, n)), next, gone)

RolloutKept == PrefixesKept /\ Kept(Recorded, next, gone)

\* A rollback under way has dropped its turns from the memory.
Dropping ==
  /\ rolled \subseteq 1..next /\ gone \subseteq 1..next
  /\ pc = "rolled_back" => Turns(history) \intersect rolled = {}
  /\ rolled # {} => pc = "rolled_back" /\ ~torn

\* The calls that are awaited are recorded, their outputs are not.
Awaits(items, awaited) == \A i \in DOMAIN awaited :
  awaited[i] \in ToSet(items) /\ OutputOf(awaited[i]) \notin ToSet(items)

Awaited ==
  /\ \A i, j \in DOMAIN calls : calls[i] = calls[j] => i = j
  /\ Awaits(history, calls) /\ Awaits(Recorded, calls)

\* The invariant of the proofs about requests and rollbacks.
IInv == MemoryKept /\ RolloutKept /\ Dropping /\ Awaited

\* A restart may find the whole rollout.
LEMMA WholeLog ==
  ASSUME Typed
  PROVE  SubSeq(log, 1, Len(log)) = log /\ Len(log) \in flushed..Len(log)
<1>1. log \in Seq(Lines) /\ flushed \in 0..Len(log) /\ Len(log) \in Nat
  BY LenProperties DEF Typed
<1>2. SubSeq(log, 1, Len(log)) = log
  BY <1>1
<1> QED BY <1>1, <1>2

LEMMA PersistedKept ==
  ASSUME Typed, PrefixesKept
  PROVE  Kept(Persisted, next, gone)
BY WholeLog DEF PrefixesKept, Persisted

\* Nothing is persisted by this step.
LEMMA SameLog ==
  ASSUME Typed, PrefixesKept, log' = log, flushed' = flushed, gone' = gone,
         next' \in Nat, next <= next'
  PROVE  PrefixesKept'
<1> SUFFICES ASSUME NEW n \in flushed..Len(log)
             PROVE  Kept(ReconstructHistoryFromRollout(SubSeq(log, 1, n)), next', gone)
  BY DEF PrefixesKept
<1>1. n \in 0..Len(log) /\ log \in Seq(Lines) /\ next \in Nat
  BY LenProperties DEF Typed
<1>2. SubSeq(log, 1, n) \in Seq(Lines)
  BY <1>1, RangePrefix
<1>3. ReconstructHistoryFromRollout(SubSeq(log, 1, n)) \in Seq(AllItems)
  BY <1>2, ReconstructTyped
<1> QED BY <1>1, <1>3, KeptMore DEF PrefixesKept

\* A line more: what a restart may be left with is what it was, or all of it.
LEMMA LineMore ==
  ASSUME Typed, PrefixesKept, NEW l \in Lines, log' = Append(log, l), flushed' \in Nat,
         flushed <= flushed', gone' = gone, next' = next,
         Kept(ReconstructHistoryFromRollout(log'), next, gone)
  PROVE  PrefixesKept'
<1>1. log \in Seq(Lines) /\ Len(log) \in Nat /\ flushed \in Nat
  BY LenProperties DEF Typed
<1>2. Len(log') = Len(log) + 1 /\ log' \in Seq(Lines)
  BY <1>1, ConcatOne
<1> SUFFICES ASSUME NEW n \in flushed'..Len(log')
             PROVE  Kept(ReconstructHistoryFromRollout(SubSeq(log', 1, n)), next, gone)
  BY DEF PrefixesKept
<1>3. CASE n = Len(log')
  <2>1. SubSeq(log', 1, Len(log')) = log'
    BY <1>2
  <2> QED BY <1>3, <2>1
<1>4. CASE n # Len(log')
  <2>1. n \in flushed..Len(log) /\ n \in 0..Len(log)
    BY <1>1, <1>2, <1>4
  <2>2. SubSeq(log', 1, n) = SubSeq(log, 1, n)
    BY <1>1, <2>1, PrefixOfAppend
  <2> QED BY <2>1, <2>2 DEF PrefixesKept
<1> QED BY <1>3, <1>4

\* An item is recorded in the memory and is pending for the rollout.
LEMMA RecordKept ==
  ASSUME Typed, IInv, NEW item \in AllItems, RecordItem(item),
         log' = log, flushed' = flushed, gone' = gone, next' \in Nat, next <= next',
         Kept(Append(history, item), next', gone),
         Kept(Append(Persisted, item), next', gone)
  PROVE  /\ Kept(history', next', gone')
         /\ RolloutKept'
         /\ history' = Append(history, item)
         /\ Recorded' = Append(Persisted, item)
<1>1. pending' = <<ItemLine(item)>> /\ ItemLine(item) \in Lines /\ history' = Append(history, item)
  BY LinesTyped DEF RecordItem, RecordIntoHistory
<1>2. Recorded' = ReplayLine(Persisted, ItemLine(item))
  BY <1>1, ReconstructPending DEF Recorded, Persisted, Typed
<1> DEFINE l == ItemLine(item)
<1>3. l.line = "item" /\ l.item = item
  BY LinesTyped
<1> HIDE DEF l
<1>4. ReplayLine(Persisted, l) = Append(Persisted, item)
  BY <1>3, ReplayKinds
<1>5. Recorded' = Append(Persisted, item)
  BY <1>2, <1>4 DEF l
<1>6. PrefixesKept'
  BY SameLog DEF IInv, RolloutKept
<1> QED BY <1>1, <1>5, <1>6 DEF RolloutKept

\* Recording something else leaves the awaited calls without outputs.
LEMMA AwaitsAppend ==
  ASSUME NEW x \in Seq(AllItems), NEW awaited, Awaits(x, awaited), NEW e \in AllItems,
         \A i \in DOMAIN awaited : OutputOf(awaited[i]) # e
  PROVE  Awaits(Append(x, e), awaited)
BY RangeAppend DEF Awaits

LEMMA NoneAwaited ==
  ASSUME calls' = <<>>
  PROVE  Awaited'
BY DEF Awaited, Awaits

LEMMA InitIInv == Init => IInv
<1> SUFFICES ASSUME Init PROVE IInv
  OBVIOUS
<1>1. Context \in AllItems /\ Context.kind = "context"
  BY AllTyped DEF Context, ItemKinds, MessageKinds
<1>2. Typed
  BY InitTyped
<1>3. <<>> \in Seq(Lines) /\ ItemLine(Context) \in Lines /\ log = Append(<<>>, ItemLine(Context))
  BY <1>1, LinesTyped DEF Init
<1> DEFINE l == ItemLine(Context)
<1>4. l.line = "item" /\ l.item = Context
  BY LinesTyped
<1> HIDE DEF l
<1>5. ReplayLine(<<>>, l) = Append(<<>>, Context)
  BY <1>4, ReplayKinds
<1>6. Persisted = history
  <2>1. l \in Lines /\ log = Append(<<>>, l)
    BY <1>3 DEF l
  <2>2. ReconstructHistoryFromRollout(Append(<<>>, l)) = ReplayLine(<<>>, l)
    BY <1>3, <2>1, ReconstructAppend, ReconstructEmpty
  <2>3. history = Append(<<>>, Context)
    BY DEF Init
  <2> QED BY <1>5, <2>1, <2>2, <2>3 DEF Persisted
<1>7. Recorded = history
  BY <1>2, <1>6, TypedRecorded DEF Init
<1>8. Kept(history, next, gone)
  <2>1. <<>> \in Seq(AllItems) /\ history = Append(<<>>, Context)
    BY DEF Init
  <2>2. ~IsCall(Context) /\ ~IsOutput(Context) /\ Context.kind # "user"
    BY <1>1 DEF IsCall, IsOutput, CallKinds, OutputKinds
  <2> QED BY <1>1, <2>1, <2>2, KeptEmpty, KeptPlain
<1>9. MemoryKept
  BY <1>8, KeptEmpty, CoherentEmpty DEF MemoryKept, Init
<1>10. PrefixesKept
  <2>1. flushed = 1 /\ Len(log) = 1
    BY DEF Init
  <2>2. SubSeq(log, 1, 1) = log
    BY <1>2, <2>1, WholeLog
  <2>3. \A n \in flushed..Len(log) : n = 1
    BY <2>1
  <2> QED BY <1>6, <1>8, <2>2, <2>3 DEF PrefixesKept, Persisted
<1>11. Dropping /\ Awaited
  BY DEF Init, Dropping, Awaited, Awaits
<1> QED BY <1>7, <1>8, <1>9, <1>10, <1>11 DEF IInv, RolloutKept

LEMMA SameRollout ==
  ASSUME RolloutKept, UNCHANGED <<log, pending, flushed, next, gone>>
  PROVE  RolloutKept' /\ Recorded' = Recorded
BY DEF RolloutKept, PrefixesKept, Recorded

\* What was pending is not persisted.
LEMMA PendingDropped ==
  ASSUME Typed, RolloutKept, UNCHANGED <<log, flushed, next, gone>>, pending' = <<>>
  PROVE  RolloutKept'
<1>1. Recorded' = Persisted
  BY ReconstructPending DEF Typed, Recorded, Persisted
<1>2. PrefixesKept'
  BY DEF RolloutKept, PrefixesKept
<1> QED BY <1>1, <1>2, PersistedKept DEF RolloutKept

\* A line of the loop or its task is pending.
LEMMA LinePending ==
  ASSUME Typed, RolloutKept, UNCHANGED <<log, flushed, next, gone>>,
         NEW l \in Lines, pending' = <<l>>,
         l.line # "item", l.line = "compacted" => Kept(l.replacement, next, gone)
  PROVE  RolloutKept'
<1>1. Recorded' = ReplayLine(Persisted, l)
  BY ReconstructPending DEF Typed, Recorded, Persisted
<1>2. Kept(ReplayLine(Persisted, l), next, gone)
  BY PersistedKept, TypedRecorded, KeptReplay DEF RolloutKept
<1>3. PrefixesKept'
  BY DEF RolloutKept, PrefixesKept
<1> QED BY <1>1, <1>2, <1>3 DEF RolloutKept

LEMMA GhostKept ==
  ASSUME NEW x \in Seq(AllItems), NEW n, NEW dropped, Kept(x, n, dropped), NEW g \in Nat
  PROVE  /\ Kept(Append(x, Item("ghost", g)), n, dropped)
         /\ Turns(Append(x, Item("ghost", g))) = Turns(x)
         /\ \A awaited \in Seq(Items(CallKinds)) :
              Awaits(x, awaited) => Awaits(Append(x, Item("ghost", g)), awaited)
<1> DEFINE e == Item("ghost", g)
<1>1. e \in AllItems /\ e.kind = "ghost"
  BY AllTyped DEF ItemKinds
<1> HIDE DEF e
<1>2. ~IsCall(e) /\ ~IsOutput(e) /\ e.kind # "user"
  BY <1>1 DEF IsCall, IsOutput, CallKinds, OutputKinds
<1>3. ToSet(Append(x, e)) = ToSet(x) \union {e}
  BY <1>1, RangeAppend
<1>4. Kept(Append(x, e), n, dropped)
  BY <1>1, <1>2, KeptPlain
<1>5. Turns(Append(x, e)) = Turns(x)
  BY <1>2, <1>3 DEF Turns
<1>6. ASSUME NEW awaited \in Seq(Items(CallKinds)), Awaits(x, awaited)
      PROVE  Awaits(Append(x, e), awaited)
  <2>1. ASSUME NEW i \in DOMAIN awaited PROVE OutputOf(awaited[i]) # e
    <3>1. awaited[i] \in Items(CallKinds)
      BY ElementOfSeq, LenProperties
    <3>2. awaited[i] \in AllItems /\ IsCall(awaited[i])
      BY <3>1 DEF Items, AllItems, IsCall, ItemKinds
    <3> QED BY <1>2, <3>2, OutputsOfCalls
  <2> QED BY <1>1, <1>6, <2>1, AwaitsAppend
<1> QED BY <1>4, <1>5, <1>6 DEF e

\* What is kept has no turn that is gone.
LEMMA TurnsKept ==
  ASSUME NEW x, NEW n, NEW dropped, Kept(x, n, dropped)
  PROVE  Turns(x) \subseteq (1..n) \ dropped
BY DEF Kept, Turns

\* The turns of a history are those of its conversation.
LEMMA TurnsOfConversation ==
  ASSUME NEW x \in Seq(AllItems)
  PROVE  Turns(Conversation(x)) = Turns(x)
BY ConversationRange DEF Turns, IsGhost

\* What a local and a remote compaction leave.
LEMMA LocalKept ==
  ASSUME NEW x \in Seq(AllItems), NEW n, NEW dropped, Kept(x, n, dropped), NEW d \in Nat
  PROVE  Kept(BuildCompactedHistory(CollectUserMessages(x), d) \o Ghosts(x), n, dropped)
<1> DEFINE u == CollectUserMessages(x)
           b == BuildCompactedHistory(u, d)
           s == Item("summary", d)
<1>1. u \in Seq(AllItems) /\ ToSet(u) = {e \in ToSet(x) : e.kind \in {"user", "aborted"}}
  BY ConversationTyped, ConversationRange
<1>2. Ghosts(x) \in Seq(AllItems) /\ ToSet(Ghosts(x)) = {e \in ToSet(x) : IsGhost(e)}
  BY ConversationTyped, ConversationRange
<1>3. /\ Context \in AllItems /\ Context.kind = "context"
      /\ s \in AllItems /\ s.kind = "summary"
  BY AllTyped DEF Context, ItemKinds, MessageKinds
<1> HIDE DEF u, s
<1>4. b \in Seq(AllItems) /\ ToSet(b) \subseteq ToSet(u) \union {Context, s}
  BY <1>1, <1>3, BuildTyped DEF s
<1> HIDE DEF b
<1>5. ToSet(b \o Ghosts(x)) = ToSet(b) \union ToSet(Ghosts(x))
  BY <1>2, <1>4, RangeConcat
<1>6. ASSUME NEW e \in ToSet(b \o Ghosts(x))
      PROVE  /\ ~IsCall(e) /\ ~IsOutput(e)
             /\ e \in ToSet(x) \/ e.kind # "user"
  BY <1>1, <1>2, <1>3, <1>4, <1>5
     DEF IsCall, IsOutput, IsGhost, CallKinds, OutputKinds
<1>7. Coherent(b \o Ghosts(x))
  BY <1>6, CoherentPlain
<1>8. Kept(b \o Ghosts(x), n, dropped)
  BY <1>6, <1>7, KeptPart
<1> QED BY <1>8 DEF b, u

LEMMA RemoteKept ==
  ASSUME NEW x \in Seq(AllItems), NEW n, NEW dropped, Kept(x, n, dropped), detours \in Nat
  PROVE  Kept(RemoteAnswer(ForPrompt(x)) \o Ghosts(x), n, dropped)
<1> DEFINE p == ForPrompt(x)
           u == CollectUserMessages(p)
           e == Item("compaction", detours)
<1>1. p \in Seq(AllItems) /\ \A i \in ToSet(p) : i \in ToSet(x) \/ IsOutput(i)
  BY ForPromptTyped
<1> HIDE DEF p
<1>2. u \in Seq(AllItems) /\ ToSet(u) = {i \in ToSet(p) : i.kind \in {"user", "aborted"}}
  BY <1>1, ConversationTyped, ConversationRange
<1>3. e \in AllItems /\ e.kind = "compaction"
  BY AllTyped DEF ItemKinds
<1>4. Ghosts(x) \in Seq(AllItems) /\ ToSet(Ghosts(x)) = {i \in ToSet(x) : IsGhost(i)}
  BY ConversationTyped, ConversationRange
<1> HIDE DEF u, e
<1>5. /\ u \o <<e>> = Append(u, e) /\ Append(u, e) \in Seq(AllItems)
      /\ ToSet(Append(u, e)) = ToSet(u) \union {e}
  BY <1>2, <1>3, ConcatOne, RangeAppend
<1> DEFINE a == Append(u, e)
<1>6. a \in Seq(AllItems) /\ ToSet(a) = ToSet(u) \union {e} /\ RemoteAnswer(p) = a
  BY <1>5 DEF RemoteAnswer, u, e
<1> HIDE DEF a
<1>7. ToSet(a \o Ghosts(x)) = ToSet(a) \union ToSet(Ghosts(x))
  BY <1>4, <1>6, RangeConcat
<1>8. ASSUME NEW i \in ToSet(a \o Ghosts(x))
      PROVE  /\ ~IsCall(i) /\ ~IsOutput(i)
             /\ i \in ToSet(x) \/ i.kind # "user"
  BY <1>1, <1>2, <1>3, <1>4, <1>6, <1>7
     DEF IsCall, IsOutput, IsGhost, CallKinds, OutputKinds
<1>9. Coherent(a \o Ghosts(x))
  BY <1>8, CoherentPlain
<1>10. Kept(a \o Ghosts(x), n, dropped)
  BY <1>8, <1>9, KeptPart
<1> QED BY <1>6, <1>10 DEF p

\* Every step preserves the invariant.
LEMMA IInvStep ==
  ASSUME Typed, Steps, Agree, IInv, [Next]_vars
  PROVE  IInv'
<1>a. /\ history \in Seq(AllItems) /\ copy \in Seq(AllItems) /\ log \in Seq(Lines)
      /\ calls \in Seq(Items(CallKinds))
      /\ next \in Nat /\ detours \in Nat /\ flushed \in Nat
      /\ Persisted \in Seq(AllItems) /\ Recorded \in Seq(AllItems)
      /\ pending = <<>> => Recorded = Persisted
  BY TypedRecorded DEF Typed
<1>b. Typed' /\ Steps' /\ Agree'
  BY TypedStep, AgreeStep
<1>c. /\ Kept(history, next, gone) /\ Kept(Persisted, next, gone) /\ Kept(Recorded, next, gone)
      /\ Coherent(copy)
      /\ pc # "compact" => Kept(copy, next, gone)
      /\ rolled \subseteq 1..next /\ gone \subseteq 1..next
  BY PersistedKept DEF IInv, MemoryKept, RolloutKept, Dropping
<1>d. \A i \in DOMAIN calls : calls[i] \in AllItems /\ IsCall(calls[i])
  <2> SUFFICES ASSUME NEW i \in DOMAIN calls PROVE calls[i] \in AllItems /\ IsCall(calls[i])
    OBVIOUS
  <2>1. calls[i] \in Items(CallKinds)
    BY <1>a, ElementOfSeq, LenProperties
  <2> QED BY <2>1 DEF Items, AllItems, IsCall, ItemKinds
<1>e. \A n, dropped : Kept(<<>>, n, dropped)
  BY KeptEmpty
\* An item with a new number is recorded.
<1>f. ASSUME pending = <<>>, next' = next + 1, gone' = gone, log' = log, flushed' = flushed,
             NEW kind \in ItemKinds \ OutputKinds, RecordItem(Item(kind, next'))
      PROVE  /\ Kept(history', next', gone')
             /\ RolloutKept'
             /\ Awaits(history', calls) /\ Awaits(Recorded', calls)
             /\ history' = Append(history, Item(kind, next'))
             /\ Recorded' = Append(Recorded, Item(kind, next'))
  <2> DEFINE e == Item(kind, next')
  <2>1. e \in AllItems /\ e.kind = kind /\ next' \in Nat /\ next <= next'
    BY <1>a, <1>f, AllTyped
  <2>2. Kept(Append(history, e), next', gone) /\ Kept(Append(Persisted, e), next', gone)
    BY <1>a, <1>c, <1>f, KeptNew
  <2>3. \A i \in DOMAIN calls : OutputOf(calls[i]) # e
    BY <1>d, <1>f, <2>1, OutputsOfCalls DEF IsOutput
  <2> HIDE DEF e
  <2>4. /\ Kept(history', next', gone') /\ RolloutKept'
        /\ history' = Append(history, e) /\ Recorded' = Append(Persisted, e)
    BY <1>f, <2>1, <2>2, RecordKept DEF e
  <2>5. Awaits(Append(history, e), calls) /\ Awaits(Append(Recorded, e), calls)
    BY <1>a, <2>1, <2>3, AwaitsAppend DEF IInv, Awaited
  <2> QED BY <1>a, <1>f, <2>4, <2>5 DEF e
<1>g. CASE UNCHANGED vars
  BY <1>g DEF vars, turnVars, ghostVars, logVars, auxVars, rollVars, IInv, MemoryKept,
              RolloutKept, PrefixesKept, Dropping, Awaited, Recorded
<1>1. CASE Persist
  <2>1. PICK l \in Lines : pending = <<l>>
    BY <1>1 DEF Persist, Typed
  <2>2. log' = Append(log, l) /\ pending' = <<>>
    BY <1>1, <1>a, <2>1, ConcatOne DEF Persist
  <2>3. Recorded' = Recorded /\ Recorded = ReconstructHistoryFromRollout(log')
    BY <1>1, <1>b, ReconstructPending DEF Persist, Recorded, Typed
  <2>4. flushed' \in Nat /\ flushed <= flushed'
    <3>1. log' \in Seq(Lines) /\ Len(log') = Len(log) + 1 /\ flushed \in 0..Len(log)
      BY <1>a, <2>1, <2>2, ConcatOne DEF Typed
    <3> QED BY <1>1, <1>a, <3>1, LenProperties DEF Persist
  <2>5. gone' = gone /\ next' = next
    BY <1>1 DEF Persist, auxVars, rollVars
  <2>6. PrefixesKept'
    BY <1>c, <2>1, <2>2, <2>3, <2>4, <2>5, LineMore DEF IInv, RolloutKept
  <2>7. RolloutKept'
    BY <1>c, <2>3, <2>5, <2>6 DEF RolloutKept
  <2>8. MemoryKept'
    BY <1>1 DEF Persist, auxVars, rollVars, IInv, MemoryKept
  <2>9. Dropping'
    BY <1>1 DEF Persist, auxVars, rollVars, IInv, Dropping
  <2>10. Awaited'
    BY <1>1, <2>3 DEF Persist, IInv, Awaited
  <2> QED BY <2>7, <2>8, <2>9, <2>10 DEF IInv
<1>2. CASE SeedInitialContextIfNeeded
  <2>1. Context \in AllItems /\ Context.kind = "context"
    BY AllTyped DEF Context, ItemKinds, MessageKinds
  <2>2. ~IsCall(Context) /\ ~IsOutput(Context) /\ Context.kind # "user"
    BY <2>1 DEF IsCall, IsOutput, CallKinds, OutputKinds
  <2>3. Kept(Append(history, Context), next, gone) /\ Kept(Append(Persisted, Context), next, gone)
    BY <1>a, <1>c, <2>1, <2>2, KeptPlain
  <2>4. Kept(history', next', gone') /\ RolloutKept'
    BY <1>2, <1>a, <2>1, <2>3, RecordKept
    DEF SeedInitialContextIfNeeded, logVars, auxVars, rollVars
  <2>5. MemoryKept' /\ Dropping'
    BY <1>2, <2>4 DEF SeedInitialContextIfNeeded, Goto, auxVars, rollVars, IInv, MemoryKept,
                      Dropping
  <2>6. calls' = <<>>
    BY <1>2 DEF SeedInitialContextIfNeeded, Goto, Steps
  <2> QED BY <2>4, <2>5, <2>6, NoneAwaited DEF IInv
<1>3. CASE SpawnTurn
  <2>1. RolloutKept' /\ Recorded' = Recorded
    BY <1>3, SameRollout DEF SpawnTurn, Goto, logVars, auxVars, rollVars, IInv
  <2> QED BY <1>3, <2>1
          DEF SpawnTurn, Goto, auxVars, rollVars, IInv, MemoryKept, Dropping, Awaited
<1>4. CASE RecordUserPrompt
  <2>1. "user" \in ItemKinds \ OutputKinds
    BY DEF ItemKinds, MessageKinds, OutputKinds
  <2>2. /\ Kept(history', next', gone') /\ RolloutKept'
        /\ next' = next + 1 /\ gone' = gone
    BY <1>4, <1>f, <2>1 DEF RecordUserPrompt, Goto, Numbered, logVars, rollVars
  <2>3. Kept(copy, next', gone)
    BY <1>4, <1>a, <1>c, <2>2, KeptMore DEF RecordUserPrompt, Goto
  <2>4. MemoryKept'
    BY <1>4, <1>c, <2>2, <2>3 DEF RecordUserPrompt, MemoryKept
  <2>5. Dropping'
    BY <1>4, <1>a, <1>c, <2>2 DEF RecordUserPrompt, Goto, rollVars, IInv, Dropping
  <2>6. calls' = <<>>
    BY <1>4 DEF RecordUserPrompt, Goto, Steps
  <2> QED BY <2>2, <2>4, <2>5, <2>6, NoneAwaited DEF IInv
<1>5. CASE RecordPendingInput
  <2>1. "user" \in ItemKinds \ OutputKinds
    BY DEF ItemKinds, MessageKinds, OutputKinds
  <2>2. /\ Kept(history', next', gone') /\ RolloutKept'
        /\ next' = next + 1 /\ gone' = gone
    BY <1>5, <1>f, <2>1 DEF RecordPendingInput, Goto, Numbered, logVars, rollVars
  <2>3. Kept(copy, next', gone)
    BY <1>5, <1>a, <1>c, <2>2, KeptMore DEF RecordPendingInput, Goto
  <2>4. MemoryKept'
    BY <1>5, <1>c, <2>2, <2>3 DEF RecordPendingInput, MemoryKept
  <2>5. Dropping'
    BY <1>5, <1>a, <1>c, <2>2 DEF RecordPendingInput, Goto, rollVars, IInv, Dropping
  <2>6. calls' = <<>>
    BY <1>5 DEF RecordPendingInput
  <2> QED BY <2>2, <2>4, <2>5, <2>6, NoneAwaited DEF IInv
<1>6. CASE HandleOutputItemDone
  <2>1. PICK kind \in Outputs :
          /\ RecordItem(Item(kind, next'))
          /\ calls' = IF IsCall(Item(kind, next')) THEN Append(calls, Item(kind, next'))
                      ELSE calls
    BY <1>6 DEF HandleOutputItemDone
  <2> DEFINE e == Item(kind, next')
  <2>2. kind \in ItemKinds \ OutputKinds
    BY BoundAssumption DEF ItemKinds, MessageKinds, CallKinds, OutputKinds
  <2>3. next' = next + 1 /\ gone' = gone /\ pending = <<>> /\ next' \in Nat
    BY <1>6, <1>a DEF HandleOutputItemDone, Goto, Numbered, rollVars
  <2>4. /\ Kept(history', next', gone') /\ RolloutKept'
        /\ Awaits(history', calls) /\ Awaits(Recorded', calls)
        /\ history' = Append(history, e) /\ Recorded' = Append(Recorded, e)
    BY <1>6, <1>f, <2>1, <2>2, <2>3 DEF HandleOutputItemDone, logVars
  <2>5. Kept(copy, next', gone)
    BY <1>6, <1>a, <1>c, <2>3, KeptMore DEF HandleOutputItemDone, Goto
  <2>6. MemoryKept'
    BY <1>6, <1>c, <2>3, <2>4, <2>5 DEF HandleOutputItemDone, MemoryKept
  <2>7. Dropping'
    BY <1>6, <1>a, <1>c, <2>3 DEF HandleOutputItemDone, Goto, rollVars, IInv, Dropping
  <2>8. e \in AllItems /\ e.id = next + 1 /\ ~IsOutput(e)
    BY <2>2, <2>3, AllTyped DEF IsOutput
  <2> HIDE DEF e
  <2>9. ASSUME IsCall(e) PROVE Awaited'
    <3>1. calls' = Append(calls, e)
      BY <2>1, <2>9 DEF e
    <3>2. ASSUME NEW x \in Seq(AllItems), Kept(x, next, gone)
          PROVE  e \notin ToSet(x) /\ OutputOf(e) \notin ToSet(Append(x, e))
      <4>1. e \notin ToSet(x)
        BY <1>a, <2>8, <2>9, <3>2 DEF Kept
      <4>2. ASSUME OutputOf(e) \in ToSet(x) PROVE FALSE
        <5>1. PICK o \in DOMAIN x : x[o] = OutputOf(e)
          BY <4>2 DEF ToSet
        <5>2. IsOutput(x[o])
          BY <2>8, <2>9, <5>1, OutputsOfCalls
        <5>3. PICK c \in DOMAIN x : Answers(x[o], x[c])
          BY <3>2, <5>2 DEF Kept, Coherent
        <5>4. x[c] \in ToSet(x) /\ x[c] \in AllItems
          BY <3>2, RangeTyped DEF ToSet
        <5>5. x[c] = e
          BY <2>8, <2>9, <5>1, <5>3, <5>4, OutputsOfCalls DEF Answers
        <5> QED BY <4>1, <5>4, <5>5
      <4>3. OutputOf(e) # e
        BY <2>8, <2>9, OutputsOfCalls
      <4> QED BY <2>8, <3>2, <4>1, <4>2, <4>3, RangeAppend
    <3>3. /\ e \in ToSet(history') /\ e \in ToSet(Recorded')
          /\ OutputOf(e) \notin ToSet(history') /\ OutputOf(e) \notin ToSet(Recorded')
      BY <1>a, <1>c, <2>4, <2>8, <3>2, RangeAppend
    <3>4. \A i \in DOMAIN calls : calls[i] # e
      BY <1>a, <1>c, <3>2 DEF IInv, Awaited, Awaits
    <3>5. /\ DOMAIN calls' = 1..Len(calls) + 1 /\ DOMAIN calls = 1..Len(calls) /\ Len(calls) \in Nat
          /\ \A i \in 1..Len(calls) : calls'[i] = calls[i]
          /\ calls'[Len(calls) + 1] = e
      <4>1. e \in Items(CallKinds)
        BY <2>8, <2>9 DEF IsCall, AllItems, Items
      <4> QED BY <1>a, <3>1, <4>1, AppendProperties, LenProperties
    <3>6. \A i \in 1..Len(calls) + 1 : i \in 1..Len(calls) \/ i = Len(calls) + 1
      BY <3>5
    <3>7. \A i, j \in DOMAIN calls' : calls'[i] = calls'[j] => i = j
      BY <3>4, <3>5, <3>6 DEF IInv, Awaited
    <3>8. Awaits(history', calls') /\ Awaits(Recorded', calls')
      BY <2>4, <3>3, <3>5, <3>6 DEF Awaits
    <3> QED BY <3>7, <3>8 DEF Awaited
  <2>10. ASSUME ~IsCall(e) PROVE Awaited'
    BY <2>1, <2>4, <2>10 DEF IInv, Awaited, e
  <2> QED BY <2>4, <2>6, <2>7, <2>9, <2>10 DEF IInv
<1>7. CASE StreamOver
  <2>1. RolloutKept' /\ Recorded' = Recorded
    BY <1>7, SameRollout DEF StreamOver, Goto, logVars, auxVars, rollVars, IInv
  <2> QED BY <1>7, <2>1
          DEF StreamOver, Goto, auxVars, rollVars, IInv, MemoryKept, Dropping, Awaited
<1>8. CASE DrainOutput
  <2> DEFINE c == Head(calls)
             e == OutputOf(c)
  <2>1. /\ calls' = Tail(calls) /\ DOMAIN calls = 1..Len(calls) /\ Len(calls) \in Nat
        /\ 1 \in DOMAIN calls /\ c = calls[1]
        /\ DOMAIN calls' = 1..Len(calls) - 1
        /\ \A i \in DOMAIN calls' : i + 1 \in DOMAIN calls /\ calls'[i] = calls[i + 1]
    <3>1. calls # <<>> /\ calls' = Tail(calls)
      BY <1>8 DEF DrainOutput
    <3>2. DOMAIN calls = 1..Len(calls) /\ Len(calls) \in Nat /\ Len(calls) # 0
      BY <1>a, <3>1, EmptySeq, LenProperties
    <3>3. /\ Tail(calls) \in Seq(Items(CallKinds)) /\ Len(Tail(calls)) = Len(calls) - 1
          /\ \A i \in 1..Len(calls) - 1 : Tail(calls)[i] = calls[i + 1]
      BY <1>a, <3>1, HeadTailProperties
    <3>4. DOMAIN Tail(calls) = 1..Len(calls) - 1
      BY <3>3, LenProperties
    <3>5. Head(calls) = calls[1]
      BY <1>a, <3>1
    <3> QED BY <3>1, <3>2, <3>3, <3>4, <3>5
  <2>2. c \in AllItems /\ IsCall(c) /\ e \in AllItems
    BY <1>d, <2>1, OutputsOfCalls
  <2>3. /\ c \in ToSet(history) /\ e \notin ToSet(history)
        /\ c \in ToSet(Recorded) /\ e \notin ToSet(Recorded)
    BY <2>1 DEF IInv, Awaited, Awaits
  <2>4. /\ pending = <<>> /\ next' = next /\ gone' = gone /\ log' = log /\ flushed' = flushed
        /\ RecordItem(e)
    BY <1>8 DEF DrainOutput, Goto, logVars, auxVars, rollVars
  <2> HIDE DEF c
  <2>5. Kept(Append(history, e), next, gone) /\ Kept(Append(Persisted, e), next, gone)
    BY <1>a, <1>c, <2>2, <2>3, <2>4, KeptOutput
  <2>6. \A i \in DOMAIN calls' : OutputOf(calls'[i]) # e
    <3> SUFFICES ASSUME NEW i \in DOMAIN calls', OutputOf(calls'[i]) = e PROVE FALSE
      OBVIOUS
    <3>1. i + 1 \in DOMAIN calls /\ calls'[i] = calls[i + 1] /\ i \in Nat /\ i >= 1
      BY <2>1
    <3>2. calls[i + 1] = c
      BY <1>d, <2>2, <3>1, OutputsOfCalls
    <3>3. i + 1 = 1
      BY <2>1, <3>1, <3>2 DEF IInv, Awaited
    <3> QED BY <3>1, <3>3
  <2> HIDE DEF e
  <2>7. /\ Kept(history', next', gone') /\ RolloutKept'
        /\ history' = Append(history, e) /\ Recorded' = Append(Recorded, e)
    BY <1>a, <2>2, <2>4, <2>5, RecordKept
  <2>8. Awaits(history, calls') /\ Awaits(Recorded, calls')
    BY <2>1 DEF IInv, Awaited, Awaits
  <2>9. Awaits(history', calls') /\ Awaits(Recorded', calls')
    BY <1>a, <2>2, <2>6, <2>7, <2>8, AwaitsAppend
  <2>10. Awaited'
    <3>1. ASSUME NEW i \in DOMAIN calls', NEW j \in DOMAIN calls', calls'[i] = calls'[j]
          PROVE  i = j
      <4>1. i + 1 = j + 1 /\ i \in Nat /\ j \in Nat
        BY <2>1, <3>1 DEF IInv, Awaited
      <4> QED BY <4>1
    <3> QED BY <2>9, <3>1 DEF Awaited
  <2>11. MemoryKept' /\ Dropping'
    BY <1>8, <2>7 DEF DrainOutput, Goto, auxVars, rollVars, IInv, MemoryKept, Dropping
  <2> QED BY <2>7, <2>10, <2>11 DEF IInv
<1>9. CASE DrainFails
  <2>1. RolloutKept' /\ Recorded' = Recorded
    BY <1>9, SameRollout DEF DrainFails, Goto, logVars, auxVars, rollVars, IInv
  <2>2. MemoryKept' /\ Dropping'
    BY <1>9 DEF DrainFails, Goto, auxVars, rollVars, IInv, MemoryKept, Dropping
  <2>3. /\ calls' = Tail(calls) /\ DOMAIN calls' = 1..Len(calls) - 1
        /\ \A i \in DOMAIN calls' : i + 1 \in DOMAIN calls /\ calls'[i] = calls[i + 1]
    <3>1. calls # <<>> /\ calls' = Tail(calls)
      BY <1>9 DEF DrainFails
    <3>2. DOMAIN calls = 1..Len(calls) /\ Len(calls) \in Nat
      BY <1>a, LenProperties
    <3>3. /\ Tail(calls) \in Seq(Items(CallKinds)) /\ Len(Tail(calls)) = Len(calls) - 1
          /\ \A i \in 1..Len(calls) - 1 : Tail(calls)[i] = calls[i + 1]
      BY <1>a, <3>1, HeadTailProperties
    <3>4. DOMAIN Tail(calls) = 1..Len(calls) - 1
      BY <3>3, LenProperties
    <3> QED BY <3>1, <3>2, <3>3, <3>4
  <2>4. Awaits(history, calls') /\ Awaits(Recorded, calls')
    BY <2>3 DEF IInv, Awaited, Awaits
  <2>5. ASSUME NEW i \in DOMAIN calls', NEW j \in DOMAIN calls', calls'[i] = calls'[j]
        PROVE  i = j
    <3>1. i + 1 = j + 1 /\ i \in Int /\ j \in Int
      BY <2>3, <2>5 DEF IInv, Awaited
    <3> QED BY <3>1
  <2>6. Awaited'
    BY <1>9, <2>1, <2>4, <2>5 DEF DrainFails, Awaited
  <2> QED BY <2>1, <2>2, <2>6 DEF IInv
<1>10. CASE Drained
  <2>1. RolloutKept' /\ Recorded' = Recorded
    BY <1>10, SameRollout DEF Drained, Goto, logVars, auxVars, rollVars, IInv
  <2> QED BY <1>10, <2>1
          DEF Drained, Goto, auxVars, rollVars, IInv, MemoryKept, Dropping, Awaited
<1>11. CASE \E g \in 1..MaxItems : SnapshotTaken(g)
  <2>1. PICK g \in 1..MaxItems : SnapshotTaken(g)
    BY <1>11
  <2>2. g \in Nat
    OBVIOUS
  <2>3. RolloutKept' /\ Recorded' = Recorded
    BY <2>1, SameRollout DEF SnapshotTaken, turnVars, logVars, auxVars, rollVars, IInv
  <2>4. /\ Kept(history', next, gone) /\ Turns(history') = Turns(history)
        /\ Awaits(history', calls)
    BY <1>a, <1>c, <2>1, <2>2, GhostKept DEF SnapshotTaken, RecordIntoHistory, IInv, Awaited
  <2>5. MemoryKept' /\ Dropping'
    BY <2>1, <2>4 DEF SnapshotTaken, turnVars, auxVars, rollVars, IInv, MemoryKept, Dropping
  <2>6. Awaited'
    BY <2>1, <2>3, <2>4 DEF SnapshotTaken, turnVars, IInv, Awaited
  <2> QED BY <2>3, <2>5, <2>6 DEF IInv
<1>12. CASE \E g \in 1..MaxItems : SnapshotPersisted(g)
  <2>1. PICK g \in 1..MaxItems : SnapshotPersisted(g)
    BY <1>12
  <2> DEFINE e == Item("ghost", g)
             l == ItemLine(e)
  <2>2. g \in Nat /\ e \in AllItems /\ IsGhost(e)
    BY <1>a, GhostAppend
  <2>3. l \in Lines /\ l.line = "item" /\ l.item = e
    BY <2>2, LinesTyped
  <2>4. log' = Append(log, l) /\ pending' = pending /\ gone' = gone /\ next' = next
        /\ flushed' = flushed /\ history' = history /\ calls' = calls
    BY <2>1 DEF SnapshotPersisted, turnVars, auxVars, rollVars
  <2> HIDE DEF l
  <2>5. ReplayLine(Persisted, l) = Append(Persisted, e)
    BY <2>3, ReplayKinds
  <2>6. Persisted' = Append(Persisted, e)
    BY <1>a, <2>3, <2>4, <2>5, ReconstructAppend DEF Persisted
  <2>7. Kept(Persisted', next, gone)
    BY <1>a, <1>c, <2>2, <2>6, GhostKept
  <2>8. PrefixesKept'
    BY <1>a, <2>3, <2>4, <2>7, LineMore DEF IInv, RolloutKept, Persisted
  <2>9. pending' = <<>> => Recorded' = Persisted'
    BY <1>b, ReconstructPending DEF Typed, Persisted, Recorded
  <2>10. \A p \in Lines : pending = <<p>> =>
           Recorded = ReplayLine(Persisted, p) /\ Recorded' = ReplayLine(Persisted', p)
    BY <1>b, <2>4, TypedRecorded, ReconstructPending DEF Typed, Persisted, Recorded
  <2>11. Kept(Recorded', next, gone)
    <3>1. ASSUME NEW p \in Lines, pending = <<p>> PROVE Kept(Recorded', next, gone)
      <4>1. Kept(ReplayLine(Persisted, p), next, gone)
        BY <1>c, <2>10, <3>1
      <4>2. Kept(ReplayLine(Append(Persisted, e), p), next, gone)
        BY <1>a, <1>c, <2>2, <4>1, KeptReplayGhost
      <4> QED BY <2>6, <2>10, <3>1, <4>2
    <3> QED BY <2>4, <2>7, <2>9, <3>1 DEF Typed
  <2>12. Awaited'
    <3>1. CASE calls = <<>>
      BY <2>4, <3>1, NoneAwaited
    <3>2. CASE pending = <<>>
      <4>1. Awaits(Append(Persisted, e), calls)
        BY <1>a, <1>c, <2>2, <3>2, GhostKept DEF IInv, Awaited
      <4> QED BY <2>4, <2>6, <2>9, <3>2, <4>1 DEF IInv, Awaited
    <3>3. ASSUME NEW i \in AllItems, pending = <<ItemLine(i)>> PROVE Awaited'
      <4> DEFINE p == ItemLine(i)
      <4>1. p \in Lines /\ p.line = "item" /\ p.item = i
        BY LinesTyped
      <4> HIDE DEF p
      <4>2. Recorded = ReplayLine(Persisted, p) /\ Recorded' = ReplayLine(Append(Persisted, e), p)
        BY <2>6, <2>10, <3>3, <4>1 DEF p
      <4>3. Recorded = Append(Persisted, i) /\ Recorded' = Append(Append(Persisted, e), i)
        BY <4>1, <4>2, ReplayKinds
      <4>4. Append(Persisted, e) \in Seq(AllItems)
        BY <1>a, <2>2, ConcatOne
      <4>5. ToSet(Append(Persisted, e)) = ToSet(Persisted) \union {e}
        BY <1>a, <2>2, RangeAppend
      <4>6. ToSet(Recorded') = ToSet(Append(Persisted, e)) \union {i}
        <5> DEFINE s == Append(Persisted, e)
        <5>1. s \in Seq(AllItems) /\ Recorded' = Append(s, i)
          BY <4>3, <4>4
        <5> HIDE DEF s
        <5>2. ToSet(Recorded') = ToSet(s) \union {i}
          BY <5>1, RangeAppend
        <5> QED BY <5>2 DEF s
      <4>7. ToSet(Recorded) = ToSet(Persisted) \union {i}
        BY <1>a, <4>3, RangeAppend
      <4>8. \A k \in DOMAIN calls : OutputOf(calls[k]) # e
        BY <1>d, <2>2, OutputsOfCalls
      <4>9. Awaits(Recorded', calls)
        BY <4>5, <4>6, <4>7, <4>8 DEF IInv, Awaited, Awaits
      <4> QED BY <2>4, <4>9 DEF IInv, Awaited
    <3> QED BY <3>1, <3>2, <3>3 DEF Steps
  <2>13. MemoryKept' /\ Dropping'
    BY <2>1 DEF SnapshotPersisted, turnVars, auxVars, rollVars, IInv, MemoryKept, Dropping
  <2> QED BY <2>4, <2>8, <2>11, <2>12, <2>13 DEF IInv, RolloutKept
<1>13. CASE \E g \in 1..MaxItems : SnapshotFails(g)
  <2>1. RolloutKept' /\ Recorded' = Recorded
    BY <1>13, SameRollout DEF SnapshotFails, turnVars, logVars, auxVars, rollVars, IInv
  <2> QED BY <1>13, <2>1
          DEF SnapshotFails, turnVars, auxVars, rollVars, IInv, MemoryKept, Dropping, Awaited
<1>14. CASE SpawnUndo
  <2>1. RolloutKept' /\ Recorded' = Recorded
    BY <1>14, SameRollout DEF SpawnUndo, Goto, logVars, auxVars, rollVars, IInv
  <2>2. Coherent(history)
    BY <1>c DEF Kept
  <2> QED BY <1>14, <2>1, <2>2
          DEF SpawnUndo, Goto, auxVars, rollVars, IInv, MemoryKept, Dropping, Awaited
<1>15. CASE UndoRestored
  <2> DEFINE ghosts == {i \in DOMAIN copy : IsGhost(copy[i])}
             k == Max(ghosts)
  <2>1. ghosts \subseteq 1..Len(copy) /\ Len(copy) \in Nat /\ ghosts # {}
    BY <1>15, <1>a, LenProperties DEF UndoRestored, Steps
  <2>2. k \in ghosts
    <3> HIDE DEF ghosts
    <3>1. ghosts \subseteq 0..Len(copy)
      BY <2>1
    <3> QED BY <2>1, <3>1, MaxIn
  <2>3. k \in 1..Len(copy) /\ IsGhost(copy[k])
    BY <2>1, <2>2
  <2>4. history' = RemoveAt(copy, k)
    BY <1>15 DEF UndoRestored
  <2> HIDE DEF ghosts, k
  <2>5. Kept(copy, next, gone)
    BY <1>15, <1>c DEF UndoRestored
  <2>6. \A i \in 1..Len(copy) : i # k => ~Answers(copy[i], copy[k])
    BY <2>3 DEF Answers, IsGhost, IsCall, CallKinds
  <2>7. Coherent(history') /\ ToSet(history') \subseteq ToSet(copy)
    BY <1>a, <2>3, <2>4, <2>5, <2>6, CoherentRemoveAt DEF Kept
  <2>8. Kept(history', next, gone)
    BY <2>5, <2>7, KeptPart
  <2>9. MemoryKept'
    BY <1>15, <1>e, <2>8, CoherentEmpty DEF UndoRestored, Goes, auxVars, rollVars, MemoryKept
  <2>10. RolloutKept'
    BY <1>15, SameRollout DEF UndoRestored, logVars, auxVars, rollVars, IInv
  <2>11. Dropping'
    BY <1>15 DEF UndoRestored, Goes, auxVars, rollVars, IInv, Dropping
  <2>12. calls' = <<>>
    BY <1>15 DEF UndoRestored, Steps
  <2> QED BY <2>9, <2>10, <2>11, <2>12, NoneAwaited DEF IInv
<1>16. CASE UndoFails
  <2>1. RolloutKept' /\ Recorded' = Recorded
    BY <1>16, SameRollout DEF UndoFails, logVars, auxVars, rollVars, IInv
  <2> QED BY <1>16, <1>e, <2>1, CoherentEmpty
          DEF UndoFails, Goes, auxVars, rollVars, IInv, MemoryKept, Dropping, Awaited
<1>17. CASE BeginLocal
  <2>1. RolloutKept' /\ Recorded' = Recorded
    BY <1>17, SameRollout DEF BeginLocal, BeginCompaction, logVars, rollVars, IInv
  <2>2. Coherent(copy')
    <3> DEFINE e == Item("user", 0)
    <3>1. e \in AllItems /\ e.kind = "user"
      BY AllTyped DEF ItemKinds, MessageKinds
    <3>2. copy' = Append(history, e)
      BY <1>17 DEF BeginLocal
    <3> HIDE DEF e
    <3>3. ~IsCall(e) /\ ~IsOutput(e)
      BY <3>1 DEF IsCall, IsOutput, CallKinds, OutputKinds
    <3> QED BY <1>a, <1>c, <3>1, <3>2, <3>3, CoherentAppend DEF Kept
  <2>3. MemoryKept' /\ Dropping'
    BY <1>17, <2>2 DEF BeginLocal, BeginCompaction, Goto, rollVars, IInv, MemoryKept, Dropping
  <2>4. Awaited'
    BY <1>17, <2>1 DEF BeginLocal, BeginCompaction, IInv, Awaited
  <2> QED BY <2>1, <2>3, <2>4 DEF IInv
<1>18. CASE TrimOldest
  <2>1. RolloutKept' /\ Recorded' = Recorded
    BY <1>18, SameRollout DEF TrimOldest, Goto, logVars, auxVars, rollVars, IInv
  <2>2. Coherent(copy')
    BY <1>18, <1>a, <1>c, CoherentRemoveFirst DEF TrimOldest
  <2> QED BY <1>18, <2>1, <2>2
          DEF TrimOldest, Goto, auxVars, rollVars, IInv, MemoryKept, Dropping, Awaited
<1>19. CASE Summarise
  <2>1. "assistant" \in ItemKinds \ OutputKinds
    BY DEF ItemKinds, MessageKinds, OutputKinds
  <2>2. next' = next + 1 /\ next' \in Nat /\ next <= next' /\ gone' = gone
    BY <1>19, <1>a DEF Summarise, Numbered, rollVars
  <2>3. Kept(history', next', gone')
    BY <1>19, <1>a, <1>c, <2>1, <2>2, KeptNew DEF Summarise, RecordIntoHistory
  <2>4. MemoryKept'
    BY <1>19, <1>c, <2>3 DEF Summarise, Goto, MemoryKept
  <2>5. PrefixesKept'
    BY <1>19, <2>2, SameLog DEF Summarise, logVars, IInv, RolloutKept
  <2>6. Recorded' = Recorded
    BY <1>19 DEF Summarise, logVars, Recorded
  <2>7. Kept(Recorded, next', gone)
    BY <1>a, <1>c, <2>2, KeptMore
  <2>8. Dropping'
    BY <1>19, <1>a, <1>c, <2>2 DEF Summarise, Goto, rollVars, IInv, Dropping
  <2>9. calls' = <<>>
    BY <1>19 DEF Summarise, Goto, Steps
  <2> QED BY <2>2, <2>4, <2>5, <2>6, <2>7, <2>8, <2>9, NoneAwaited DEF IInv, RolloutKept
<1>20. CASE CompactFails
  <2>1. RolloutKept' /\ Recorded' = Recorded
    BY <1>20, SameRollout DEF CompactFails, logVars, rollVars, IInv
  <2>2. MemoryKept'
    BY <1>20, <1>c, <1>e, CoherentEmpty DEF CompactFails, Goes, rollVars, MemoryKept
  <2>3. Dropping'
    BY <1>20 DEF CompactFails, Goes, rollVars, IInv, Dropping, Typed
  <2>4. Awaited'
    BY <1>20, <2>1 DEF CompactFails, IInv, Awaited
  <2> QED BY <2>1, <2>2, <2>3, <2>4 DEF IInv
<1>21. CASE CloneHistory
  <2>1. RolloutKept' /\ Recorded' = Recorded
    BY <1>21, SameRollout DEF CloneHistory, Goto, logVars, auxVars, rollVars, IInv
  <2>2. Coherent(history)
    BY <1>c DEF Kept
  <2> QED BY <1>21, <2>1, <2>2
          DEF CloneHistory, Goto, auxVars, rollVars, IInv, MemoryKept, Dropping, Awaited
<1>22. CASE ReplaceLocal
  <2>1. Kept(copy, next, gone)
    BY <1>22, <1>c DEF ReplaceLocal, Goto
  <2>2. Kept(history', next, gone)
    BY <1>22, <1>a, <2>1, LocalKept DEF ReplaceLocal
  <2> DEFINE l == CompactedLine(detours, <<>>)
  <2>3. l \in Lines /\ l.line = "compacted" /\ l.replacement = <<>> /\ pending' = <<l>>
    BY <1>22, <1>a, LinesTyped, EmptySeq DEF ReplaceLocal
  <2> HIDE DEF l
  <2>4. RolloutKept'
    BY <1>22, <1>e, <2>3, LinePending DEF ReplaceLocal, logVars, rollVars, IInv
  <2>5. MemoryKept'
    BY <1>22, <1>c, <2>1, <2>2 DEF ReplaceLocal, Goto, rollVars, MemoryKept
  <2>6. Dropping'
    BY <1>22 DEF ReplaceLocal, Goto, rollVars, IInv, Dropping
  <2>7. calls' = <<>>
    BY <1>22 DEF ReplaceLocal, Goto, Steps
  <2> QED BY <2>4, <2>5, <2>6, <2>7, NoneAwaited DEF IInv
<1>23. CASE BeginRemote
  <2>1. RolloutKept' /\ Recorded' = Recorded
    BY <1>23, SameRollout DEF BeginRemote, BeginCompaction, logVars, rollVars, IInv
  <2>2. PICK n \in 0..Len(history) : copy' = TrimOutputs(history, n)
    BY <1>23 DEF BeginRemote
  <2>3. n \in Nat
    BY <1>a, LenProperties
  <2>4. Coherent(copy') /\ ToSet(copy') \subseteq ToSet(history)
    BY <1>a, <1>c, <2>2, <2>3, CoherentTrim DEF Kept
  <2>5. Kept(copy', next, gone)
    BY <1>c, <2>4, KeptPart
  <2>6. MemoryKept' /\ Dropping'
    BY <1>23, <2>4, <2>5
    DEF BeginRemote, BeginCompaction, Goto, rollVars, IInv, MemoryKept, Dropping
  <2>7. Awaited'
    BY <1>23, <2>1 DEF BeginRemote, BeginCompaction, IInv, Awaited
  <2> QED BY <2>1, <2>6, <2>7 DEF IInv
<1>24. CASE ReplaceRemote
  <2>1. Kept(copy, next, gone)
    BY <1>24, <1>c DEF ReplaceRemote, Goto
  <2>2. Kept(history', next, gone) /\ history' \in Seq(AllItems)
    BY <1>24, <1>a, <1>b, <2>1, RemoteKept DEF ReplaceRemote, Typed
  <2> DEFINE l == CompactedLine(detours, history')
  <2>3. l \in Lines /\ l.line = "compacted" /\ l.replacement = history' /\ pending' = <<l>>
    BY <1>24, <1>a, <2>2, LinesTyped DEF ReplaceRemote
  <2> HIDE DEF l
  <2>4. RolloutKept'
    BY <1>24, <2>2, <2>3, LinePending DEF ReplaceRemote, logVars, auxVars, rollVars, IInv
  <2>5. MemoryKept'
    BY <1>24, <1>c, <2>1, <2>2 DEF ReplaceRemote, Goto, auxVars, rollVars, MemoryKept
  <2>6. Dropping'
    BY <1>24 DEF ReplaceRemote, Goto, auxVars, rollVars, IInv, Dropping
  <2>7. calls' = <<>>
    BY <1>24 DEF ReplaceRemote, Goto, Steps
  <2> QED BY <2>4, <2>5, <2>6, <2>7, NoneAwaited DEF IInv
<1>25. CASE CompactionOver
  <2>1. RolloutKept' /\ Recorded' = Recorded
    BY <1>25, SameRollout DEF CompactionOver, logVars, auxVars, rollVars, IInv
  <2>2. MemoryKept'
    BY <1>25, <1>c, <1>e, CoherentEmpty DEF CompactionOver, Goes, auxVars, rollVars, MemoryKept
  <2>3. Dropping'
    BY <1>25 DEF CompactionOver, Goes, auxVars, rollVars, IInv, Dropping, Typed
  <2>4. Awaited'
    BY <1>25, <2>1 DEF CompactionOver, IInv, Awaited
  <2> QED BY <2>1, <2>2, <2>3, <2>4 DEF IInv
<1>26. CASE ReplaceTask
  <2>1. RolloutKept'
    BY <1>26, PendingDropped DEF ReplaceTask, logVars, rollVars, IInv
  <2>2. MemoryKept'
    BY <1>26, <1>c, <1>e, CoherentEmpty DEF ReplaceTask, Goes, rollVars, MemoryKept
  <2>3. rolled = {}
    BY <1>26 DEF ReplaceTask, DropTask, TaskPCs, IInv, Dropping
  <2>4. Dropping'
    BY <1>26, <2>3 DEF ReplaceTask, Goes, rollVars, IInv, Dropping
  <2>5. calls' = <<>>
    BY <1>26 DEF ReplaceTask, DropTask
  <2> QED BY <2>1, <2>2, <2>4, <2>5, NoneAwaited DEF IInv
<1>27. CASE InterruptTask
  <2>1. "aborted" \in ItemKinds \ OutputKinds
    BY DEF ItemKinds, MessageKinds, OutputKinds
  <2>2. next' = next + 1 /\ next' \in Nat /\ next <= next' /\ gone' = gone
    BY <1>27, <1>a DEF InterruptTask, Numbered, rollVars
  <2> DEFINE e == Item("aborted", next')
  <2>3. /\ e \in AllItems /\ RecordItem(e)
        /\ Kept(Append(history, e), next', gone) /\ Kept(Append(Persisted, e), next', gone)
    BY <1>27, <1>a, <1>c, <2>1, <2>2, KeptNew DEF InterruptTask
  <2> HIDE DEF e
  <2>4. Kept(history', next', gone') /\ RolloutKept'
    BY <1>27, <2>2, <2>3, RecordKept DEF InterruptTask, logVars
  <2>5. MemoryKept'
    BY <1>27, <1>e, <2>4, CoherentEmpty DEF InterruptTask, Goes, MemoryKept
  <2>6. rolled = {}
    BY <1>27 DEF InterruptTask, DropTask, TaskPCs, IInv, Dropping
  <2>7. Dropping'
    BY <1>27, <1>a, <1>c, <2>2, <2>6 DEF InterruptTask, Goes, rollVars, Dropping
  <2>8. calls' = <<>>
    BY <1>27 DEF InterruptTask, DropTask
  <2> QED BY <2>4, <2>5, <2>7, <2>8, NoneAwaited DEF IInv
<1>28. CASE ThreadRollback
  <2>1. PICK n \in 1..2 : /\ copy' = DropLastNUserTurns(history, n)
                          /\ pending' = <<RolledBackLine(n)>>
    BY <1>28 DEF ThreadRollback
  <2>2. n \in Nat
    OBVIOUS
  <2>3. PICK k \in 0..Len(history) : copy' = SubSeq(history, 1, k)
    BY <1>a, <2>1, <2>2, DropTyped
  <2>4. Kept(copy', next, gone)
    BY <1>a, <1>c, <2>3, KeptPrefix
  <2> DEFINE l == RolledBackLine(n)
  <2>5. l \in Lines /\ l.line = "rolled_back" /\ pending' = <<l>>
    BY <2>1, <2>2, LinesTyped
  <2> HIDE DEF l
  <2>6. RolloutKept'
    BY <1>28, <2>5, LinePending DEF ThreadRollback, logVars, rollVars, IInv
  <2>7. MemoryKept'
    BY <1>28, <1>c, <2>4 DEF ThreadRollback, rollVars, MemoryKept, Kept
  <2>8. Dropping'
    BY <1>28 DEF ThreadRollback, Goto, rollVars, IInv, Dropping
  <2>9. calls' = <<>>
    BY <1>28 DEF ThreadRollback, Goto, Steps
  <2> QED BY <2>6, <2>7, <2>8, <2>9, NoneAwaited DEF IInv
<1>29. CASE ReplaceRolledBack
  <2>1. RolloutKept' /\ Recorded' = Recorded
    BY <1>29, SameRollout DEF ReplaceRolledBack, logVars, IInv
  <2>2. Kept(copy, next, gone)
    BY <1>29, <1>c DEF ReplaceRolledBack
  <2>3. MemoryKept'
    BY <1>29, <1>c, <2>2 DEF ReplaceRolledBack, MemoryKept
  <2>4. Turns(history) \subseteq 1..next
    BY <1>c, TurnsKept
  <2>5. Dropping'
    BY <1>29, <1>c, <2>4 DEF ReplaceRolledBack, Dropping
  <2>6. calls' = <<>>
    BY <1>29 DEF ReplaceRolledBack, Steps
  <2> QED BY <2>1, <2>3, <2>5, <2>6, NoneAwaited DEF IInv
<1>30. CASE AnnounceRollback
  <2>1. /\ pc = "rolled_back" /\ pending = <<>> /\ pending' = <<>> /\ copy' = <<>> /\ pc' = "idle"
        /\ flushed' = Len(log) /\ gone' = gone \union rolled /\ rolled' = {}
        /\ history' = history /\ log' = log /\ next' = next /\ calls' = calls
    BY <1>30 DEF AnnounceRollback, Goes
  <2>2. Turns(history) \intersect rolled = {}
    BY <2>1 DEF IInv, Dropping
  <2>3. ASSUME rolled # {} PROVE Turns(Persisted) = Turns(history)
    <3>1. ~torn /\ ~unsaved
      BY <2>1, <2>3 DEF IInv, Dropping, Steps
    <3>2. Conversation(Persisted) = Conversation(history)
      BY <1>a, <2>1, <3>1 DEF Agree
    <3>3. /\ Turns(Conversation(Persisted)) = Turns(Persisted)
          /\ Turns(Conversation(history)) = Turns(history)
      BY <1>a, TurnsOfConversation
    <3> QED BY <3>2, <3>3
  <2>4. ASSUME NEW x, Kept(x, next, gone), Turns(x) \intersect rolled = {}
        PROVE  Kept(x, next, gone')
    <3>1. ASSUME NEW e \in ToSet(x), e.kind = "user" PROVE e.id \in (1..next) \ gone'
      <4>1. e.id \in Turns(x) /\ e.id \in (1..next) \ gone
        BY <2>4, <3>1 DEF Turns, Kept
      <4> QED BY <2>1, <2>4, <4>1
    <3> QED BY <2>4, <3>1 DEF Kept
  <2>5. Kept(history, next, gone') /\ Kept(Persisted, next, gone')
    BY <1>c, <2>2, <2>3, <2>4
  <2>6. MemoryKept'
    BY <1>e, <2>1, <2>5, CoherentEmpty DEF MemoryKept
  <2>7. Recorded' = Persisted
    BY <1>a, <2>1 DEF Recorded
  <2>8. PrefixesKept'
    <3>1. Len(log) \in Nat
      BY <1>a, LenProperties
    <3>2. \A n \in flushed'..Len(log') : n = Len(log)
      BY <2>1, <3>1
    <3> QED BY <2>1, <2>5, <3>2, WholeLog DEF PrefixesKept, Persisted
  <2>9. Dropping'
    BY <1>c, <2>1 DEF Dropping
  <2>10. calls' = <<>>
    BY <2>1 DEF Steps
  <2> QED BY <2>1, <2>5, <2>6, <2>7, <2>8, <2>9, <2>10, NoneAwaited DEF IInv, RolloutKept
<1>31. CASE Restart
  <2>1. PICK n \in flushed..Len(log) : log' = SubSeq(log, 1, n)
    BY <1>31 DEF Restart
  <2>2. /\ history' = ReconstructHistoryFromRollout(log') /\ flushed' = Len(log')
        /\ pending' = <<>> /\ calls' = <<>> /\ copy' = <<>> /\ pc' = "idle"
        /\ rolled' = {} /\ gone' = gone /\ next' = next
    BY <1>31 DEF Restart, Goes
  <2>3. Kept(history', next, gone)
    BY <2>1, <2>2 DEF IInv, RolloutKept, PrefixesKept
  <2>4. MemoryKept'
    BY <1>e, <2>2, <2>3, CoherentEmpty DEF MemoryKept
  <2>5. log' \in Seq(Lines) /\ Len(log') \in Nat
    BY <1>b, LenProperties DEF Typed
  <2>6. Recorded' = history'
    BY <2>2, <2>5, ReconstructPending DEF Recorded
  <2>7. PrefixesKept'
    <3>1. SubSeq(log', 1, Len(log')) = log'
      BY <2>5
    <3>2. \A m \in flushed'..Len(log') : m = Len(log')
      BY <2>2, <2>5
    <3> QED BY <2>2, <2>3, <3>1, <3>2 DEF PrefixesKept
  <2>8. Dropping'
    BY <1>c, <2>2 DEF Dropping
  <2> QED BY <2>2, <2>3, <2>4, <2>6, <2>7, <2>8, NoneAwaited DEF IInv, RolloutKept
<1>32. CASE RecordSettingsUpdate
  <2>1. "developer" \in ItemKinds \ OutputKinds
    BY DEF ItemKinds, MessageKinds, OutputKinds
  <2>2. /\ Kept(history', next', gone') /\ RolloutKept'
        /\ next' = next + 1 /\ gone' = gone
    BY <1>32, <1>f, <2>1 DEF RecordSettingsUpdate, Goto, Numbered, logVars, rollVars
  <2>3. Kept(copy, next', gone)
    BY <1>32, <1>a, <1>c, <2>2, KeptMore DEF RecordSettingsUpdate, Goto
  <2>4. MemoryKept'
    BY <1>32, <1>c, <2>2, <2>3 DEF RecordSettingsUpdate, MemoryKept
  <2>5. Dropping'
    BY <1>32, <1>a, <1>c, <2>2 DEF RecordSettingsUpdate, Goto, rollVars, IInv, Dropping
  <2>6. calls' = <<>>
    BY <1>32 DEF RecordSettingsUpdate, Goto, Steps
  <2> QED BY <2>2, <2>4, <2>5, <2>6, NoneAwaited DEF IInv
<1> QED
  BY <1>g, <1>1, <1>2, <1>3, <1>4, <1>5, <1>6, <1>7, <1>8, <1>9, <1>10, <1>11, <1>12, <1>13,
     <1>14, <1>15, <1>16, <1>17, <1>18, <1>19, <1>20, <1>21, <1>22, <1>23, <1>24, <1>25,
     <1>26, <1>27, <1>28, <1>29, <1>30, <1>31, <1>32 DEF Next

\* Memory, clone and every part of the rollout that may survive a crash are
\* coherent and free of the turns that are gone.
THEOREM Inductive == Spec => []IInv
<1>1. Init => IInv
  BY InitIInv
<1>2. Typed /\ Steps /\ Agree /\ IInv /\ [Next]_vars => IInv'
  BY IInvStep
<1> QED BY <1>1, <1>2, Types, SameConversation, PTL DEF Spec

\* The history never gets a turn back whose rollback was announced, unless an
\* abort had torn memory and rollout apart before that rollback.
THEOREM RolledBackTurnsStayGone == Spec => []RolledBackStaysGone
<1>1. IInv => RolledBackStaysGone
  BY TurnsKept DEF IInv, MemoryKept, RolledBackStaysGone
<1> QED BY <1>1, Inductive, PTL

\* The variables of the thread keep to their types in every run.
THEOREM TypeCorrect == Spec => []TypeOK
<1>1. Typed /\ Steps /\ IInv => TypeOK
  <2> SUFFICES ASSUME Typed, Steps, IInv PROVE TypeOK
    OBVIOUS
  <2>1. Len(pending) <= 1
    <3>1. pending = <<>> \/ \E l \in Lines : pending = <<l>>
      BY DEF Typed
    <3>2. Len(<<>>) = 0 /\ \A l : Len(<<l>>) = 1
      OBVIOUS
    <3> QED BY <3>1, <3>2
  <2>2. snapping \union snapped \union rolled \union gone \subseteq 1..next
    BY DEF Typed, IInv, Dropping
  <2> QED BY <2>1, <2>2 DEF Typed, Steps, TypeOK, AllItems, Items
<1> QED BY <1>1, Types, Inductive, PTL

\* Every request to the model has one output for each call, and no other outputs.
THEOREM PromptsArePaired == Spec => []PromptPaired
<1>1. Typed /\ IInv => PromptPaired
  <2> SUFFICES ASSUME Typed, IInv PROVE PromptPaired
    OBVIOUS
  <2>1. /\ history \in Seq(AllItems) /\ Coherent(history)
        /\ copy \in Seq(AllItems) /\ Coherent(copy)
    BY DEF Typed, IInv, MemoryKept, Kept
  <2> QED BY <2>1, ForPromptPaired, NoOrphans DEF PromptPaired
<1> QED BY <1>1, Types, Inductive, PTL

-----------------------------------------------------------------------------
(* Forks: the lines of the user messages. *)

\* The n-th line moves the lines of the user messages like this.
MovePositions(positions, line, n) ==
  CASE line.line = "item" /\ IsUserTurnBoundary(line.item) -> Append(positions, n)
    [] line.line = "rolled_back" -> SubSeq(positions, 1, Len(positions) - line.turns)
    [] OTHER -> positions

\* f goes through the lines, as UserMessagePositionsInRollout does.
Moves(f, lines) ==
  /\ f[0] = <<>>
  /\ \A k \in 0..Len(lines) : f[k] \in Seq(Nat)
  /\ \A k \in 1..Len(lines) : f[k] = MovePositions(f[k - 1], lines[k], k)

LEMMA MoveKinds ==
  ASSUME NEW p \in Seq(Nat), NEW l \in Lines, NEW n \in Nat
  PROVE  /\ l.line = "item" =>
              MovePositions(p, l, n) = IF IsUserTurnBoundary(l.item) THEN Append(p, n) ELSE p
         /\ l.line = "rolled_back" =>
              MovePositions(p, l, n) = SubSeq(p, 1, Len(p) - l.turns)
         /\ MovePositions(p, l, n) \in Seq(Nat)
<1>1. CASE l.line = "item"
  <2>1. MovePositions(p, l, n) = IF IsUserTurnBoundary(l.item) THEN Append(p, n) ELSE p
    BY <1>1 DEF MovePositions
  <2> QED BY <1>1, <2>1, AppendProperties
<1>2. CASE l.line = "compacted"
  BY <1>2 DEF MovePositions
<1>3. CASE l.line = "rolled_back" /\ l.turns \in Nat
  <2>1. MovePositions(p, l, n) = SubSeq(p, 1, Len(p) - l.turns)
    BY <1>3 DEF MovePositions
  <2>2. Len(p) \in Nat
    BY LenProperties
  <2>3. CASE Len(p) - l.turns \in 0..Len(p)
    BY <1>3, <2>1, <2>3, RangePrefix
  <2>4. CASE Len(p) - l.turns < 0
    <3>1. SubSeq(p, 1, Len(p) - l.turns) = <<>>
      BY <1>3, <2>2, <2>4
    <3> QED BY <1>3, <2>1, <3>1, EmptySeq
  <2> QED BY <1>3, <2>2, <2>3, <2>4
<1> QED BY <1>1, <1>2, <1>3, LineKinds

\* Counting the lines of the user messages is the recursion it is defined by.
LEMMA PositionsFcn ==
  ASSUME NEW lines \in Seq(Lines)
  PROVE  \E f : Moves(f, lines) /\ UserMessagePositionsInRollout(lines) = f[Len(lines)]
<1> DEFINE L == Len(lines)
           T == Seq(Nat)
           g == [k \in 1..L |-> [s \in T |-> MovePositions(s, lines[k], k)]]
<1>1. L \in Nat /\ <<>> \in T /\ g \in [1..L -> [T -> T]]
  <2>1. L \in Nat /\ <<>> \in T
    BY EmptySeq
  <2>2. \A k \in 1..L, s \in T : MovePositions(s, lines[k], k) \in T
    <3> SUFFICES ASSUME NEW k \in 1..L, NEW s \in T PROVE MovePositions(s, lines[k], k) \in T
      OBVIOUS
    <3>1. lines[k] \in Lines /\ k \in Nat
      BY <2>1, ElementOfSeq
    <3> QED BY <3>1, MoveKinds
  <2> HIDE DEF L, T
  <2> QED BY <2>1, <2>2
<1>2. \A k \in 1..L, s \in T : g[k][s] = MovePositions(s, lines[k], k)
  OBVIOUS
<1> HIDE DEF g, L, T
<1>3. PICK f \in [0..L -> T] : f[0] = <<>> /\ \A k \in 1..L : f[k] = g[k][f[k - 1]]
  <2> DEFINE z == <<>>
  <2>1. z \in T /\ L \in Nat /\ g \in [1..L -> [T -> T]]
    BY <1>1
  <2> HIDE DEF z
  <2>2. \E f \in [0..L -> T] : f[0] = z /\ \A k \in 1..L : f[k] = g[k][f[k - 1]]
    BY ONLY <2>1, RecursiveFcn
  <2> QED BY <2>2 DEF z
<1>4. ASSUME NEW k \in 1..L PROVE f[k] = MovePositions(f[k - 1], lines[k], k)
  <2>1. f[k - 1] \in T
    BY <1>1, <1>3
  <2> QED BY <1>2, <1>3, <2>1
<1>5. f = [n \in 0..L |-> IF n = 0 THEN <<>> ELSE MovePositions(f[n - 1], lines[n], n)]
  <2>1. ASSUME NEW n \in 0..L
        PROVE  f[n] = IF n = 0 THEN <<>> ELSE MovePositions(f[n - 1], lines[n], n)
    <3>1. CASE n = 0
      BY <1>3, <3>1
    <3>2. CASE n # 0
      <4>1. n \in 1..L
        BY <1>1, <3>2
      <4> QED BY <1>4, <3>2, <4>1, Zenon
    <3> QED BY <3>1, <3>2
  <2>2. f = [n \in 0..L |-> f[n]]
    OBVIOUS
  <2> QED BY <2>1, <2>2, Zenon
<1> DEFINE positions[n \in 0..Len(lines)] ==
        IF n = 0 THEN <<>>
        ELSE CASE lines[n].line = "item" /\ IsUserTurnBoundary(lines[n].item) ->
                    Append(positions[n - 1], n)
               [] lines[n].line = "rolled_back" ->
                    SubSeq(positions[n - 1], 1, Len(positions[n - 1]) - lines[n].turns)
               [] OTHER -> positions[n - 1]
<1>6. positions = [n \in 0..L |->
                     IF n = 0 THEN <<>> ELSE MovePositions(positions[n - 1], lines[n], n)]
  BY <1>5 DEF L, MovePositions
<1>7. UserMessagePositionsInRollout(lines) = positions[L]
  BY DEF UserMessagePositionsInRollout, L
<1> HIDE DEF positions
<1>8. ASSUME NEW n \in 0..L
      PROVE  positions[n] = IF n = 0 THEN <<>> ELSE MovePositions(positions[n - 1], lines[n], n)
  <2> DEFINE F == [k \in 0..L |->
                     IF k = 0 THEN <<>> ELSE MovePositions(positions[k - 1], lines[k], k)]
  <2>1. F[n] = IF n = 0 THEN <<>> ELSE MovePositions(positions[n - 1], lines[n], n)
    OBVIOUS
  <2>2. positions = F
    BY <1>6
  <2> QED BY ONLY <2>1, <2>2, Zenon
<1>9. positions[0] = f[0]
  BY <1>1, <1>3, <1>8
<1>10. ASSUME NEW k \in 1..L, positions[k - 1] = f[k - 1] PROVE positions[k] = f[k]
  <2>1. k \in 0..L /\ k # 0
    BY <1>1
  <2>2. positions[k] = MovePositions(positions[k - 1], lines[k], k)
    BY <1>8, <2>1
  <2>3. f[k] = MovePositions(f[k - 1], lines[k], k)
    BY <1>4
  <2> QED BY ONLY <1>10, <2>2, <2>3
<1>11. positions[L] = f[L]
  BY ONLY <1>1, <1>9, <1>10, SameSteps
<1>12. Moves(f, lines)
  BY <1>3, <1>4 DEF Moves, L, T
<1> QED BY <1>7, <1>11, <1>12 DEF L

LEMMA RolloutPositionsTyped ==
  ASSUME NEW lines \in Seq(Lines)
  PROVE  UserMessagePositionsInRollout(lines) \in Seq(Nat)
<1>1. PICK f : Moves(f, lines) /\ UserMessagePositionsInRollout(lines) = f[Len(lines)]
  BY PositionsFcn
<1>2. Len(lines) \in 0..Len(lines)
  OBVIOUS
<1> QED BY <1>1, <1>2 DEF Moves

LEMMA RolloutPositionsEmpty == UserMessagePositionsInRollout(<<>>) = <<>>
<1>1. <<>> \in Seq(Lines) /\ Len(<<>>) = 0
  BY EmptySeq
<1>2. PICK f : Moves(f, <<>>) /\ UserMessagePositionsInRollout(<<>>) = f[Len(<<>>)]
  BY <1>1, PositionsFcn
<1> QED BY <1>1, <1>2 DEF Moves

\* One line more is counted last.
LEMMA RolloutPositionsAppend ==
  ASSUME NEW lines \in Seq(Lines), NEW l \in Lines
  PROVE  UserMessagePositionsInRollout(Append(lines, l)) =
           MovePositions(UserMessagePositionsInRollout(lines), l, Len(lines) + 1)
<1> DEFINE n == Len(lines)
           a == Append(lines, l)
<1>1. /\ n \in Nat /\ a \in Seq(Lines) /\ Len(a) = n + 1
      /\ \A k \in 1..n : a[k] = lines[k]
      /\ a[n + 1] = l
  BY AppendProperties
<1>2. PICK f : Moves(f, lines) /\ UserMessagePositionsInRollout(lines) = f[n]
  BY PositionsFcn
<1>3. PICK h : Moves(h, a) /\ UserMessagePositionsInRollout(a) = h[n + 1]
  BY <1>1, PositionsFcn
<1> HIDE DEF n, a
<1>4. h[0] = f[0]
  BY <1>2, <1>3 DEF Moves
<1>5. ASSUME NEW k \in 1..n, h[k - 1] = f[k - 1] PROVE h[k] = f[k]
  <2>1. k \in 1..n + 1
    BY <1>1
  <2>2. f[k] = MovePositions(f[k - 1], lines[k], k)
    BY <1>2 DEF Moves, n
  <2>3. h[k] = MovePositions(h[k - 1], a[k], k)
    BY <1>1, <1>3, <2>1 DEF Moves
  <2>4. a[k] = lines[k]
    BY <1>1
  <2> QED BY ONLY <1>5, <2>2, <2>3, <2>4
<1>6. h[n] = f[n]
  BY ONLY <1>1, <1>4, <1>5, SameSteps
<1>7. n + 1 \in 1..n + 1 /\ n + 1 - 1 = n
  BY <1>1
<1>8. h[n + 1] = MovePositions(h[n], a[n + 1], n + 1)
  <2>1. h[n + 1] = MovePositions(h[n + 1 - 1], a[n + 1], n + 1)
    BY <1>1, <1>3, <1>7 DEF Moves
  <2> QED BY <1>7, <2>1
<1> QED BY <1>1, <1>2, <1>3, <1>6, <1>8 DEF a, n

LEMMA PrefixOfPrefix ==
  ASSUME NEW X, NEW x \in Seq(X), NEW m \in 0..Len(x), NEW k \in 0..m
  PROVE  SubSeq(SubSeq(x, 1, m), 1, k) = SubSeq(x, 1, k)
<1>1. Len(x) \in Nat /\ m \in Nat /\ k \in Nat /\ k <= m /\ m <= Len(x)
  BY LenProperties
<1>2. \A i \in 1..m : x[i] \in X
  BY <1>1, ElementOfSeq
<1> DEFINE y == SubSeq(x, 1, m)
<1>3. y \in Seq(X) /\ Len(y) = m /\ \A i \in 1..m : y[i] = x[i]
  BY <1>1, <1>2, SubSeqProperties
<1> HIDE DEF y
<1>4. \A i \in 1..k : i \in 1..m /\ y[i] \in X /\ x[i] \in X
  BY <1>1, <1>2, <1>3
<1>5. /\ SubSeq(y, 1, k) \in Seq(X) /\ Len(SubSeq(y, 1, k)) = k
      /\ \A i \in 1..k : SubSeq(y, 1, k)[i] = y[i]
  BY <1>1, <1>4, SubSeqProperties
<1>6. /\ SubSeq(x, 1, k) \in Seq(X) /\ Len(SubSeq(x, 1, k)) = k
      /\ \A i \in 1..k : SubSeq(x, 1, k)[i] = x[i]
  BY <1>1, <1>4, SubSeqProperties
<1>7. SubSeq(y, 1, k) = SubSeq(x, 1, k)
  BY <1>3, <1>4, <1>5, <1>6, SeqEqual
<1> QED BY <1>7 DEF y

\* What is before the k-th user message has the messages before the k-th.
LEMMA PositionsBefore ==
  ASSUME NEW X, NEW x \in Seq(X), NEW k \in 1..Len(UserMessagePositions(x))
  PROVE  UserMessagePositions(SubSeq(x, 1, UserMessagePositions(x)[k] - 1))
           = SubSeq(UserMessagePositions(x), 1, k - 1)
<1> DEFINE U(s) == UserMessagePositions(s)
           P(s) == \A j \in 1..Len(U(s)) :
                     U(SubSeq(s, 1, U(s)[j] - 1)) = SubSeq(U(s), 1, j - 1)
<1>1. P(<<>>)
  BY PositionsEmpty, EmptySeq
<1>2. ASSUME NEW s \in Seq(X), NEW e \in X, P(s) PROVE P(Append(s, e))
  <2> DEFINE a == Append(s, e)
             n == Len(U(s))
  <2>1. /\ U(s) \in Seq(1..Len(s)) /\ Len(s) \in Nat /\ n \in Nat
        /\ \A j \in 1..n : U(s)[j] \in 1..Len(s)
    BY PositionsTyped, LenProperties, ElementOfSeq
  <2>2. U(a) = IF IsUserTurnBoundary(e) THEN Append(U(s), Len(s) + 1) ELSE U(s)
    BY PositionsAppend, Zenon
  <2>3. ASSUME NEW j \in 1..n
        PROVE  U(SubSeq(a, 1, U(s)[j] - 1)) = SubSeq(U(s), 1, j - 1)
    <3>1. U(s)[j] - 1 \in 0..Len(s)
      BY <2>1
    <3>2. SubSeq(a, 1, U(s)[j] - 1) = SubSeq(s, 1, U(s)[j] - 1)
      BY <3>1, PrefixOfAppend
    <3> QED BY <1>2, <3>2
  <2> HIDE DEF a
  <2>4. CASE ~IsUserTurnBoundary(e)
    <3>1. U(a) = U(s)
      BY <2>2, <2>4
    <3>2. P(a)
      BY <2>3, <3>1
    <3> QED BY <3>2 DEF a
  <2>5. CASE IsUserTurnBoundary(e)
    <3>1. U(a) = Append(U(s), Len(s) + 1)
      BY <2>2, <2>5
    <3>2. U(s) \in Seq(1..Len(s) + 1) /\ Len(s) + 1 \in 1..Len(s) + 1
      <4>1. 1..Len(s) \subseteq 1..Len(s) + 1 /\ Len(s) + 1 \in 1..Len(s) + 1
        BY <2>1
      <4> QED BY <2>1, <4>1, SeqMonotonic
    <3>3. /\ Len(U(a)) = n + 1
          /\ \A j \in 1..n : U(a)[j] = U(s)[j]
          /\ U(a)[n + 1] = Len(s) + 1
      BY <3>1, <3>2, AppendProperties
    <3>4. ASSUME NEW j \in 1..n
          PROVE  U(SubSeq(a, 1, U(a)[j] - 1)) = SubSeq(U(a), 1, j - 1)
      <4>1. j - 1 \in 0..Len(U(s))
        BY <2>1
      <4>2. SubSeq(Append(U(s), Len(s) + 1), 1, j - 1) = SubSeq(U(s), 1, j - 1)
        BY <3>2, <4>1, PrefixOfAppend
      <4> QED BY <2>3, <3>1, <3>3, <4>2
    <3>5. U(SubSeq(a, 1, U(a)[n + 1] - 1)) = SubSeq(U(a), 1, n)
      <4>1. U(a)[n + 1] - 1 = Len(s)
        BY <2>1, <3>3
      <4>2. SubSeq(a, 1, Len(s)) = s
        BY WholeOfAppend DEF a
      <4>3. SubSeq(Append(U(s), Len(s) + 1), 1, Len(U(s))) = U(s)
        BY <3>2, WholeOfAppend
      <4> QED BY <3>1, <4>1, <4>2, <4>3
    <3>6. \A j \in 1..n + 1 : j \in 1..n \/ (j = n + 1 /\ j - 1 = n)
      BY <2>1
    <3>7. P(a)
      BY <3>3, <3>4, <3>5, <3>6
    <3> QED BY <3>7 DEF a
  <2> QED BY <2>4, <2>5
<1>3. \A s \in Seq(X) : P(s)
  <2> HIDE DEF P
  <2> DEFINE T == {s \in Seq(X) : P(s)}
  <2>1. <<>> \in T
    BY <1>1, EmptySeq
  <2>2. \A s \in Seq(X), e \in X : s \in T => Append(s, e) \in T
    BY <1>2, AppendProperties
  <2>3. Seq(X) \subseteq T
    <3> HIDE DEF T
    <3> QED BY <2>1, <2>2, SeqInduct
  <2> QED BY <2>3
<1> QED BY <1>3

\* As long as nothing was compacted, the n-th line that truncation.rs counts is
\* that of the n-th user message, and the lines before it rebuild what is before
\* that message.
Counts(lines) ==
  LET q == UserMessagePositionsInRollout(lines)
      x == ReconstructHistoryFromRollout(lines)
      p == UserMessagePositions(x)
  IN /\ Len(q) = Len(p)
     /\ \A j \in 1..Len(q) :
          /\ q[j] \in 1..Len(lines)
          /\ ReconstructHistoryFromRollout(SubSeq(lines, 1, q[j] - 1)) = SubSeq(x, 1, p[j] - 1)

\* Nothing was compacted.
Uncompacted(lines) == \A i \in DOMAIN lines : lines[i].line # "compacted"

LEMMA CountsEmpty == Counts(<<>>)
BY RolloutPositionsEmpty, ReconstructEmpty, PositionsEmpty, EmptySeq DEF Counts

\* A line that is not a compaction keeps the counts equal.
LEMMA CountsAppend ==
  ASSUME NEW s \in Seq(Lines), NEW l \in Lines, Counts(s), l.line # "compacted"
  PROVE  Counts(Append(s, l))
<1> DEFINE R(t) == ReconstructHistoryFromRollout(t)
           a == Append(s, l)
           q == UserMessagePositionsInRollout(s)
           x == R(s)
           p == UserMessagePositions(x)
           n == Len(p)
           qa == UserMessagePositionsInRollout(a)
           xa == R(a)
           pa == UserMessagePositions(xa)
<1>1. /\ a \in Seq(Lines) /\ Len(a) = Len(s) + 1 /\ Len(s) \in Nat
      /\ q \in Seq(Nat) /\ x \in Seq(AllItems)
      /\ p \in Seq(1..Len(x)) /\ Len(x) \in Nat /\ n \in Nat
  BY AppendProperties, LenProperties, RolloutPositionsTyped, ReconstructTyped, PositionsTyped
<1>2. Len(q) = n
  BY DEF Counts
<1>3. \A j \in 1..n : /\ q[j] \in 1..Len(s)
                      /\ R(SubSeq(s, 1, q[j] - 1)) = SubSeq(x, 1, p[j] - 1)
  BY <1>2 DEF Counts
<1>4. \A j \in 1..n : p[j] \in 1..Len(x)
  BY <1>1, ElementOfSeq
<1>5. \A i, j \in 1..n : i < j => p[i] < p[j]
  BY <1>1, PositionsTyped
<1>6. xa = ReplayLine(x, l)
  BY ReconstructAppend
<1>7. qa = MovePositions(q, l, Len(s) + 1)
  BY RolloutPositionsAppend
<1>8. \A j \in 1..n : R(SubSeq(a, 1, q[j] - 1)) = SubSeq(x, 1, p[j] - 1)
  <2> SUFFICES ASSUME NEW j \in 1..n
               PROVE  R(SubSeq(a, 1, q[j] - 1)) = SubSeq(x, 1, p[j] - 1)
    OBVIOUS
  <2>1. q[j] - 1 \in 0..Len(s)
    BY <1>1, <1>3
  <2>2. SubSeq(a, 1, q[j] - 1) = SubSeq(s, 1, q[j] - 1)
    BY <2>1, PrefixOfAppend
  <2> QED BY <1>3, <2>2
<1>9. SubSeq(a, 1, Len(s)) = s
  BY WholeOfAppend
<1>10. SUFFICES
         /\ Len(qa) = Len(pa)
         /\ \A j \in 1..Len(qa) :
              qa[j] \in 1..Len(a) /\ R(SubSeq(a, 1, qa[j] - 1)) = SubSeq(xa, 1, pa[j] - 1)
  BY DEF Counts
<1> HIDE DEF a, q, x, p, n, qa, xa, pa, R
<1>11. CASE l.line = "item" /\ l.item \in AllItems
  <2> DEFINE e == l.item
  <2>1. xa = Append(x, e) /\ xa \in Seq(AllItems) /\ e \in AllItems
    <3>1. ReplayLine(x, l) = Append(x, l.item)
      BY <1>11, ReplayKinds
    <3>2. Append(x, l.item) \in Seq(AllItems)
      BY <1>1, <1>11, AppendProperties
    <3> QED BY <1>6, <1>11, <3>1, <3>2
  <2>2. qa = IF IsUserTurnBoundary(e) THEN Append(q, Len(s) + 1) ELSE q
    <3>1. Len(s) + 1 \in Nat
      BY <1>1
    <3>2. MovePositions(q, l, Len(s) + 1) =
            IF IsUserTurnBoundary(l.item) THEN Append(q, Len(s) + 1) ELSE q
      BY <1>1, <1>11, <3>1, MoveKinds
    <3> QED BY <1>7, <3>2
  <2>3. pa = IF IsUserTurnBoundary(e) THEN Append(p, Len(x) + 1) ELSE p
    <3>1. UserMessagePositions(Append(x, e)) =
            IF IsUserTurnBoundary(e) THEN Append(UserMessagePositions(x), Len(x) + 1)
            ELSE UserMessagePositions(x)
      BY <1>1, <1>11, PositionsAppend, Zenon
    <3> QED BY <2>1, <3>1 DEF pa, p
  <2> HIDE DEF e
  <2>4. ASSUME NEW j \in 1..n
        PROVE  /\ q[j] \in 1..Len(a)
               /\ R(SubSeq(a, 1, q[j] - 1)) = SubSeq(xa, 1, p[j] - 1)
    <3>1. p[j] - 1 \in 0..Len(x)
      BY <1>1, <1>4
    <3>2. SubSeq(xa, 1, p[j] - 1) = SubSeq(x, 1, p[j] - 1)
      <4>1. SubSeq(Append(x, e), 1, p[j] - 1) = SubSeq(x, 1, p[j] - 1)
        BY <1>1, <2>1, <3>1, PrefixOfAppend
      <4> QED BY <2>1, <4>1
    <3>3. q[j] \in 1..Len(a)
      <4>1. q[j] \in 1..Len(s)
        BY <1>3
      <4> QED BY <1>1, <4>1
    <3> QED BY <1>8, <3>2, <3>3
  <2>5. CASE ~IsUserTurnBoundary(e)
    <3>1. qa = q /\ pa = p
      BY <2>2, <2>3, <2>5
    <3> QED BY <1>2, <2>4, <3>1 DEF n
  <2>6. CASE IsUserTurnBoundary(e)
    <3>1. qa = Append(q, Len(s) + 1) /\ pa = Append(p, Len(x) + 1)
      BY <2>2, <2>3, <2>6
    <3>2. /\ Len(qa) = n + 1 /\ qa[n + 1] = Len(s) + 1
          /\ \A j \in 1..n : qa[j] = q[j]
      <4>1. Len(s) + 1 \in Nat
        BY <1>1
      <4> QED BY <1>1, <1>2, <3>1, <4>1, AppendProperties
    <3>3. /\ Len(pa) = n + 1 /\ pa[n + 1] = Len(x) + 1
          /\ \A j \in 1..n : pa[j] = p[j]
      <4>1. p \in Seq(Nat) /\ Len(x) + 1 \in Nat /\ Len(p) = n
        <5>1. 1..Len(x) \subseteq Nat
          BY <1>1
        <5> QED BY <1>1, <5>1, SeqMonotonic DEF n
      <4> QED BY <3>1, <4>1, AppendProperties
    <3>4. SubSeq(xa, 1, Len(x)) = x
      BY <1>1, <2>1, WholeOfAppend
    <3>5. /\ qa[n + 1] \in 1..Len(a)
          /\ R(SubSeq(a, 1, qa[n + 1] - 1)) = SubSeq(xa, 1, pa[n + 1] - 1)
      <4>1. qa[n + 1] - 1 = Len(s) /\ pa[n + 1] - 1 = Len(x) /\ qa[n + 1] \in 1..Len(a)
        BY <1>1, <3>2, <3>3
      <4>2. R(s) = x
        BY DEF x
      <4> QED BY <1>9, <3>4, <4>1, <4>2
    <3>6. \A j \in 1..n + 1 : j \in 1..n \/ j = n + 1
      BY <1>1
    <3> QED BY <2>4, <3>2, <3>3, <3>5, <3>6
  <2> QED BY <2>5, <2>6
<1>12. CASE l.line = "rolled_back" /\ l.turns \in Nat
  <2> DEFINE m == l.turns
  <2>1. xa = DropLastNUserTurns(x, m)
    BY <1>6, <1>12, ReplayKinds
  <2>2. qa = SubSeq(q, 1, n - m)
    <3>1. Len(s) + 1 \in Nat
      BY <1>1
    <3> QED BY <1>1, <1>2, <1>7, <1>12, <3>1, MoveKinds
  <2>3. CASE m = 0 \/ n = 0
    <3>1. m = 0 \/ p = <<>>
      BY <1>1, <2>3, EmptySeq DEF n
    <3>2. xa = x
      BY <2>1, <3>1 DEF DropLastNUserTurns, p
    <3>3. qa = q
      <4>1. CASE m = 0
        <5>1. SubSeq(q, 1, Len(q)) = q
          BY <1>1, SubSeqFull
        <5> QED BY <1>1, <1>2, <2>2, <4>1, <5>1
      <4>2. CASE n = 0
        <5>1. q = <<>>
          BY <1>1, <1>2, <4>2, EmptySeq
        <5>2. n - m \in Int /\ n - m < 1
          BY <1>12, <4>2
        <5>3. SubSeq(q, 1, n - m) = <<>>
          BY <5>2, SubSeqEmpty
        <5> QED BY <2>2, <5>1, <5>3
      <4> QED BY <2>3, <4>1, <4>2
    <3>4. pa = p
      BY <3>2 DEF pa, p
    <3>5. \A j \in 1..n : q[j] \in 1..Len(a)
      BY <1>1, <1>3
    <3> QED BY <1>2, <1>8, <3>2, <3>3, <3>4, <3>5 DEF n
  <2>4. CASE m # 0 /\ n # 0
    <3> DEFINE k == IF m >= n THEN 1 ELSE n - m + 1
    <3>1. k \in 1..n /\ k - 1 = (IF m >= n THEN 0 ELSE n - m)
      BY <1>1, <1>12, <2>4
    <3>2. p # <<>>
      BY <1>1, <2>4, EmptySeq DEF n
    <3>3. xa = SubSeq(x, 1, p[k] - 1)
      BY <2>1, <2>4, <3>2 DEF DropLastNUserTurns, p, n
    <3>4. pa = SubSeq(p, 1, k - 1)
      BY <1>1, <3>1, <3>3, PositionsBefore DEF pa, p, n
    <3>5. qa = SubSeq(q, 1, k - 1)
      <4>1. CASE m >= n
        <5>1. n - m \in Int /\ n - m < 1 /\ k - 1 = 0
          BY <1>1, <1>12, <3>1, <4>1
        <5>2. SubSeq(q, 1, n - m) = <<>> /\ SubSeq(q, 1, 0) = <<>>
          BY <5>1, SubSeqEmpty
        <5> QED BY <2>2, <5>1, <5>2
      <4>2. CASE ~(m >= n)
        BY <2>2, <3>1, <4>2
      <4> QED BY <4>1, <4>2
    <3> HIDE DEF k
    <3>6. /\ Len(pa) = k - 1 /\ \A j \in 1..k - 1 : pa[j] = p[j]
      <4>1. \A j \in 1..k - 1 : j \in 1..n
        BY <1>1, <3>1
      <4>2. k - 1 \in 0..n
        BY <1>1, <3>1
      <4> QED BY <1>1, <1>4, <3>4, <4>1, <4>2, SubSeqProperties
    <3>7. /\ Len(qa) = k - 1 /\ \A j \in 1..k - 1 : qa[j] = q[j]
      <4>1. \A j \in 1..k - 1 : j \in 1..n /\ q[j] \in Nat
        BY <1>1, <1>2, <3>1, ElementOfSeq
      <4>2. k - 1 \in 0..n
        BY <1>1, <3>1
      <4> QED BY <1>1, <3>5, <4>1, <4>2, SubSeqProperties
    <3>8. ASSUME NEW j \in 1..k - 1
          PROVE  qa[j] \in 1..Len(a) /\ R(SubSeq(a, 1, qa[j] - 1)) = SubSeq(xa, 1, pa[j] - 1)
      <4>1. j \in 1..n /\ j < k /\ k \in 1..n
        BY <1>1, <3>1
      <4>2. p[j] < p[k] /\ p[j] \in 1..Len(x) /\ p[k] \in 1..Len(x) /\ q[j] \in 1..Len(s)
        BY <1>3, <1>4, <1>5, <4>1
      <4>3. p[k] - 1 \in 0..Len(x) /\ p[j] - 1 \in 0..p[k] - 1
        <5> DEFINE pj == p[j]
                   pk == p[k]
        <5>1. pj < pk /\ pj \in 1..Len(x) /\ pk \in 1..Len(x) /\ Len(x) \in Nat
          BY <1>1, <4>2
        <5> HIDE DEF pj, pk
        <5>2. pk - 1 \in 0..Len(x) /\ pj - 1 \in 0..pk - 1
          BY <5>1
        <5> QED BY <5>2 DEF pj, pk
      <4>4. SubSeq(xa, 1, p[j] - 1) = SubSeq(x, 1, p[j] - 1)
        BY <1>1, <3>3, <4>3, PrefixOfPrefix
      <4>5. q[j] \in 1..Len(a)
        BY <1>1, <4>2
      <4> QED BY <1>8, <3>6, <3>7, <4>1, <4>4, <4>5
    <3> QED BY <3>6, <3>7, <3>8
  <2> QED BY <2>3, <2>4
<1> QED BY <1>11, <1>12, LineKinds

LEMMA CountsUncompacted ==
  ASSUME NEW lines \in Seq(Lines), Uncompacted(lines)
  PROVE  Counts(lines)
<1> DEFINE T == {s \in Seq(Lines) : Uncompacted(s) => Counts(s)}
<1>1. <<>> \in T
  BY CountsEmpty, EmptySeq
<1>2. ASSUME NEW s \in Seq(Lines), NEW l \in Lines, s \in T PROVE Append(s, l) \in T
  <2>1. Append(s, l) \in Seq(Lines)
    BY AppendProperties
  <2>2. ASSUME Uncompacted(Append(s, l)) PROVE Counts(Append(s, l))
    <3>1. /\ DOMAIN s = 1..Len(s) /\ Len(s) \in Nat /\ DOMAIN Append(s, l) = 1..Len(s) + 1
          /\ \A i \in 1..Len(s) : Append(s, l)[i] = s[i]
          /\ Append(s, l)[Len(s) + 1] = l
      BY AppendProperties, LenProperties
    <3>2. Uncompacted(s) /\ l.line # "compacted"
      BY <2>2, <3>1 DEF Uncompacted
    <3> QED BY <1>2, <3>2, CountsAppend
  <2> QED BY <2>1, <2>2
<1>3. Seq(Lines) \subseteq T
  <2> HIDE DEF T
  <2> QED BY <1>1, <1>2, SeqInduct
<1> QED BY <1>3

\* Until something is compacted, forking at the n-th user message copies from the
\* rollout what is before the n-th user message in memory.
THEOREM ForksMatch == Spec => []ForkMatches
<1>1. ASSUME Typed, Agree, Steps PROVE ForkMatches
  <2> DEFINE x == ReconstructHistoryFromRollout(log)
             q == UserMessagePositionsInRollout(log)
             P(s) == UserMessagePositions(s)
             C(s) == Conversation(s)
  <2> SUFFICES ASSUME AtRest, Uncompacted(log), NEW n \in 0..Len(P(history)) - 1
               PROVE  C(ReconstructHistoryFromRollout(
                          TruncateRolloutBeforeNthUserMessage(log, n)))
                        = C(SubSeq(history, 1, P(history)[n + 1] - 1))
    BY DEF ForkMatches, Uncompacted
  <2>1. history \in Seq(AllItems) /\ log \in Seq(Lines) /\ x \in Seq(AllItems)
    BY <1>1, ReconstructTyped DEF Typed
  <2>2. C(x) = C(history)
    BY <1>1, TypedRecorded DEF AtRest, Agree, Steps, Persisted
  <2>3. Counts(log)
    BY <2>1, CountsUncompacted
  <2>4. /\ Len(q) = Len(P(x))
        /\ \A j \in 1..Len(q) :
             ReconstructHistoryFromRollout(SubSeq(log, 1, q[j] - 1)) = SubSeq(x, 1, P(x)[j] - 1)
    BY <2>3 DEF Counts
  <2>5. /\ Len(P(C(x))) = Len(P(x))
        /\ \A j \in 1..Len(P(x)) : C(SubSeq(x, 1, P(x)[j] - 1)) = SubSeq(C(x), 1, P(C(x))[j] - 1)
    BY <2>1, BoundaryPrefix
  <2>6. /\ Len(P(C(history))) = Len(P(history))
        /\ \A j \in 1..Len(P(history)) :
             C(SubSeq(history, 1, P(history)[j] - 1))
               = SubSeq(C(history), 1, P(C(history))[j] - 1)
    BY <2>1, BoundaryPrefix
  <2>7. Len(q) = Len(P(history)) /\ Len(P(x)) = Len(P(history)) /\ Len(P(history)) \in Nat
    <3>1. P(history) \in Seq(1..Len(history))
      BY <2>1, PositionsTyped
    <3> QED BY <2>2, <2>4, <2>5, <2>6, <3>1, LenProperties
  <2>8. n + 1 \in 1..Len(P(history)) /\ ~(n >= Len(q))
    BY <2>7
  <2>9. TruncateRolloutBeforeNthUserMessage(log, n) = SubSeq(log, 1, q[n + 1] - 1)
    BY <2>8 DEF TruncateRolloutBeforeNthUserMessage
  <2> HIDE DEF x, q, P, C
  <2>10. ReconstructHistoryFromRollout(SubSeq(log, 1, q[n + 1] - 1)) = SubSeq(x, 1, P(x)[n + 1] - 1)
    BY <2>4, <2>7, <2>8
  <2>11. C(SubSeq(x, 1, P(x)[n + 1] - 1)) = SubSeq(C(x), 1, P(C(x))[n + 1] - 1)
    BY <2>5, <2>7, <2>8
  <2>12. C(SubSeq(history, 1, P(history)[n + 1] - 1))
           = SubSeq(C(history), 1, P(C(history))[n + 1] - 1)
    BY <2>6, <2>8
  <2> QED BY <2>2, <2>9, <2>10, <2>11, <2>12
<1> QED BY <1>1, Types, SameConversation, PTL
=============================================================================
