------------------------ MODULE MiddlewareChainProofs ------------------------
(***************************************************************************)
(* Proofs about MiddlewareChain, for any configuration, request and        *)
(* upstream that have the shapes its assumptions name: any number of       *)
(* endpoints, files, middlewares and rules, in any order.                  *)
(*                                                                         *)
(* Recursive functions are reasoned about with Induction and Recursion     *)
(* below.  The invariant is at IInv, the theorems are at the end.          *)
(***************************************************************************)
EXTENDS MiddlewareChain, FiniteSetTheorems, SequenceTheorems,
        WellFoundedInduction, TLAPS

-----------------------------------------------------------------------------
(* Induction and recursion over 0..n, with sets for the predicates. *)

\* A set of naturals that is not empty has a least element.
LEMMA LeastElement ==
    ASSUME NEW T \in SUBSET Nat, T # {}
    PROVE  \E x \in T : \A y \in T : x <= y
<1> DEFINE R == OpToRel(<, Nat)
<1>1. IsWellFoundedOn(R, Nat)
  BY NatLessThanWellFounded
<1>2. \A x, y \in Nat : x < y => <<x, y>> \in R
  BY DEF OpToRel
<1> HIDE DEF R
<1>3. \E x \in T : \A y \in T : ~ (<<y, x>> \in R)
  BY <1>1, WFMin
<1>4. PICK x \in T : \A y \in T : ~ (<<y, x>> \in R)
  BY <1>3
<1>5. \A y \in T : ~(y < x)
  BY <1>4, <1>2
<1>6. \A y \in T : x <= y
  BY <1>5
<1> QED
  BY <1>6

\* Induction up to n, for a property given as the set T of those that have
\* it.
LEMMA Induction ==
    ASSUME NEW n \in Nat, NEW T, 0 \in T, \A i \in 0..(n - 1) : i \in T => i + 1 \in T
    PROVE  \A i \in 0..n : i \in T
<1> SUFFICES ASSUME NEW i \in 0..n, i \notin T PROVE FALSE
  OBVIOUS
<1> DEFINE B == {j \in 0..n : j \notin T}
<1>1. B \in SUBSET Nat /\ B # {}
  OBVIOUS
<1>2. PICK x \in B : \A y \in B : x <= y
  BY <1>1, LeastElement
<1>3. x # 0 /\ x \in 1..n
  BY <1>2
<1>4. x - 1 \in 0..(n-1) /\ x - 1 \notin B
  BY <1>2, <1>3
<1> QED
  BY <1>2, <1>3, <1>4

\* There is a function that starts with c and goes from i - 1 to i by
\* step[i].
Iterates(n, S, c, step) ==
    \E f \in [0..n -> S] : f[0] = c /\ \A i \in 1..n : f[i] = step[i][f[i - 1]]

\* Such a function always exists, so a recursive function over 0..n is
\* defined by its equation.
LEMMA Recursion ==
    ASSUME NEW n \in Nat, NEW S, NEW c \in S, NEW step \in [1..n -> [S -> S]]
    PROVE  Iterates(n, S, c, step)
<1> DEFINE P(k) == \E f \in [0..k -> S] : f[0] = c /\ \A i \in 1..k : f[i] = step[i][f[i - 1]]
<1> DEFINE T == {k \in 0..n : P(k)}
<1>1. 0 \in T
  <2> DEFINE f == [i \in 0..0 |-> c]
  <2>1. f \in [0..0 -> S] /\ f[0] = c /\ \A i \in 1..0 : f[i] = step[i][f[i - 1]]
    OBVIOUS
  <2> HIDE DEF f
  <2>2. P(0)
    BY <2>1
  <2> QED
    BY <2>2
<1>2. ASSUME NEW k \in 0..(n - 1), k \in T
      PROVE  k + 1 \in T
  <2>1. PICK f \in [0..k -> S] : f[0] = c /\ \A i \in 1..k : f[i] = step[i][f[i - 1]]
    BY <1>2
  <2> DEFINE g == [i \in 0..(k + 1) |-> IF i <= k THEN f[i] ELSE step[k + 1][f[k]]]
  <2>2. f[k] \in S /\ step[k + 1][f[k]] \in S
    BY <2>1
  <2>3. g \in [0..(k + 1) -> S]
    BY <2>1, <2>2
  <2>4. g[0] = c
    BY <2>1
  <2>5. ASSUME NEW i \in 1..(k + 1)
        PROVE  g[i] = step[i][g[i - 1]]
    BY <2>1, <2>5
  <2> HIDE DEF g
  <2>6. P(k + 1)
    BY <2>3, <2>4, <2>5
  <2>7. k + 1 \in 0..n
    OBVIOUS
  <2> QED
    BY <2>6, <2>7
<1> HIDE DEF T
<1>3. \A k \in 0..n : k \in T
  BY <1>1, <1>2, Induction
<1> QED
  BY <1>3 DEF T, Iterates

-----------------------------------------------------------------------------
(* BuildMiddleware puts every known middleware in its place. *)

\* The stages of BuildMiddleware: f[n] has the last n middlewares around
\* next.
BuiltFrom(ms, next, S) ==
    \E f \in [0..Len(ms) -> Seq(S)] :
       /\ f[0] = next
       /\ \A n \in 1..Len(ms) : f[n] = Wrap(ms[Len(ms) + 1 - n], f[n - 1])
       /\ BuildMiddleware(ms, next) = f[Len(ms)]

\* BuildMiddleware goes through these stages (proxy.go: for i := len(ms) - 1;
\* i >= 0).
LEMMA BuiltStep ==
    ASSUME NEW S, NEW ms, Len(ms) \in Nat, NEW next \in Seq(S),
           \A i \in 1..Len(ms) : Create(ms[i]) \in S
    PROVE  BuiltFrom(ms, next, S)
<1> DEFINE N == Len(ms)
           W(n, s) == Wrap(ms[N + 1 - n], s)
           step == [n \in 1..N |-> [s \in Seq(S) |-> W(n, s)]]
           B(f) == [n \in 0..N |-> IF n = 0 THEN next ELSE W(n, f[n - 1])]
<1>1. N \in Nat /\ \A n \in 1..N, s \in Seq(S) : W(n, s) \in Seq(S)
  BY DEF Wrap
<1> HIDE DEF W, N
<1>2. step \in [1..N -> [Seq(S) -> Seq(S)]]
  BY <1>1
<1>3. \A n \in 1..N, s \in Seq(S) : step[n][s] = W(n, s)
  OBVIOUS
<1> HIDE DEF step
<1>4. PICK f \in [0..N -> Seq(S)] : f[0] = next /\ \A i \in 1..N : f[i] = step[i][f[i - 1]]
  <2>1. Iterates(N, Seq(S), next, step)
    BY <1>1, <1>2, Recursion
  <2> QED
    BY <2>1 DEF Iterates
<1>5. ASSUME NEW i \in 1..N PROVE f[i - 1] \in Seq(S) /\ f[i] = W(i, f[i - 1])
  <2>1. f[i - 1] \in Seq(S)
    BY <1>1, <1>4
  <2> QED
    BY <2>1, <1>3, <1>4
<1>6. f = B(f)
  BY <1>1, <1>4, <1>5
<1> DEFINE g == CHOOSE x : x = B(x)
<1>7. g = B(g)
  BY <1>6
<1>8. BuildMiddleware(ms, next) = g[N]
  BY DEF BuildMiddleware, W, N
<1> HIDE DEF g
<1>9. g[0] = next /\ \A i \in 1..N : g[i] = W(i, g[i - 1])
  BY <1>1, <1>7
<1>10. \A i \in 0..N : g[i] = f[i]
  <2> DEFINE T == {i \in 0..N : g[i] = f[i]}
  <2>1. 0 \in T
    BY <1>1, <1>4, <1>9
  <2>2. ASSUME NEW i \in 0..(N - 1), i \in T PROVE i + 1 \in T
    BY <1>1, <1>5, <1>9, <2>2
  <2> HIDE DEF T
  <2>3. \A i \in 0..N : i \in T
    BY <1>1, <2>1, <2>2, Induction
  <2> QED
    BY <2>3 DEF T
<1>11. g[N] = f[N]
  BY <1>1, <1>10
<1> QED
  BY <1>1, <1>4, <1>5, <1>8, <1>11 DEF W, N, BuiltFrom

\* The places from a to b at which the registry knows the name.
Known(all, a, b) == {k \in a..b : all[k].name \in Registered}

\* Counting the known ones from the front.
LEMMA KnownCount ==
    ASSUME NEW all, NEW a \in Int, NEW b \in Int
    PROVE  /\ IsFiniteSet(Known(all, a, b))
           /\ Cardinality(Known(all, a, b)) \in Nat
           /\ b < a => Cardinality(Known(all, a, b)) = 0
           /\ a <= b /\ all[a].name \in Registered =>
                 Cardinality(Known(all, a, b)) = Cardinality(Known(all, a + 1, b)) + 1
           /\ a <= b /\ all[a].name \notin Registered =>
                 Cardinality(Known(all, a, b)) = Cardinality(Known(all, a + 1, b))
           /\ \A c \in a..b : Cardinality(Known(all, a, c)) <= Cardinality(Known(all, a, b))
           /\ a <= b /\ all[b].name \in Registered => Cardinality(Known(all, a, b)) >= 1
<1>1. \A c, d \in Int : IsFiniteSet(Known(all, c, d)) /\ Cardinality(Known(all, c, d)) \in Nat
  <2>1. \A c, d \in Int : Known(all, c, d) \in SUBSET (c..d) /\ IsFiniteSet(c..d)
    BY FS_Interval DEF Known
  <2> QED
    BY <2>1, FS_Subset, FS_CardinalityType
<1>2. b < a => Known(all, a, b) = {}
  BY DEF Known
<1>3. ASSUME a <= b
      PROVE  Known(all, a, b) = IF all[a].name \in Registered THEN Known(all, a + 1, b) \cup {a}
                                ELSE Known(all, a + 1, b)
  BY <1>3 DEF Known
<1>4. a \notin Known(all, a + 1, b)
  BY DEF Known
<1>5. \A c \in a..b : Known(all, a, c) \in SUBSET Known(all, a, b)
  BY DEF Known
<1>6. a <= b /\ all[b].name \in Registered => b \in Known(all, a, b)
  BY DEF Known
<1>7. b < a => Cardinality(Known(all, a, b)) = 0
  BY <1>2, FS_EmptySet
<1>8. ASSUME a <= b, all[a].name \in Registered
      PROVE  Cardinality(Known(all, a, b)) = Cardinality(Known(all, a + 1, b)) + 1
  <2>1. IsFiniteSet(Known(all, a + 1, b))
    BY <1>1
  <2>2. Cardinality(Known(all, a + 1, b) \cup {a}) = Cardinality(Known(all, a + 1, b)) + 1
    BY <2>1, <1>4, FS_AddElement
  <2> QED
    BY <2>2, <1>3, <1>8
<1>8a. a <= b /\ all[a].name \notin Registered =>
         Cardinality(Known(all, a, b)) = Cardinality(Known(all, a + 1, b))
  BY <1>3
<1>9. \A c \in a..b : Cardinality(Known(all, a, c)) <= Cardinality(Known(all, a, b))
  BY <1>1, <1>5, FS_Subset
<1>10. ASSUME a <= b, all[b].name \in Registered
       PROVE  Cardinality(Known(all, a, b)) >= 1
  <2>1. Known(all, a, b) # {}
    BY <1>6, <1>10
  <2>2. Cardinality(Known(all, a, b)) # 0
    BY <2>1, <1>1, FS_EmptySet
  <2>3. Cardinality(Known(all, a, b)) \in Nat
    BY <1>1
  <2> QED
    BY <2>2, <2>3
<1> QED
  BY <1>1, <1>7, <1>8, <1>8a, <1>9, <1>10

\* Wrapping from the end leaves each known middleware at the place its rank
\* among the known ones gives it.
LEMMA WrappedInOrder ==
    ASSUME NEW S, NEW all, Len(all) \in Nat, NEW F \in [0..Len(all) -> Seq(S)],
           F[0] = <<>>,
           \A n \in 1..Len(all) : F[n] = Wrap(all[Len(all) + 1 - n], F[n - 1]),
           \A i \in 1..Len(all) : Create(all[i]) \in S
    PROVE  /\ Len(F[Len(all)]) = Cardinality(Known(all, 1, Len(all)))
           /\ \A j \in 1..Len(all) : all[j].name \in Registered =>
                 F[Len(all)][Cardinality(Known(all, 1, j))] = Create(all[j])
<1> DEFINE L == Len(all)
           C(a, b) == Cardinality(Known(all, a, b))
           P(n) == /\ Len(F[n]) = C(L + 1 - n, L)
                   /\ \A j \in (L + 1 - n)..L : all[j].name \in Registered =>
                         F[n][C(L + 1 - n, j)] = Create(all[j])
           T == {n \in 0..L : P(n)}
<1>0. L \in Nat
  OBVIOUS
<1>1. /\ \A a, b \in Int : C(a, b) \in Nat
      /\ \A a, b \in Int : b < a => C(a, b) = 0
      /\ \A a, b \in Int : a <= b /\ all[a].name \in Registered => C(a, b) = C(a + 1, b) + 1
      /\ \A a, b \in Int : a <= b /\ all[a].name \notin Registered => C(a, b) = C(a + 1, b)
      /\ \A a, b \in Int : \A c \in a..b : C(a, c) <= C(a, b)
      /\ \A a, b \in Int : a <= b /\ all[b].name \in Registered => C(a, b) >= 1
  BY KnownCount
<1> HIDE DEF C
<1>2. 0 \in T
  <2>1. C(L + 1 - 0, L) = 0
    BY <1>0, <1>1
  <2>2. \A j \in (L + 1 - 0)..L : FALSE
    BY <1>0
  <2> QED
    BY <2>1, <2>2, <1>0
<1>3. ASSUME NEW n \in 0..(L - 1), n \in T
      PROVE  n + 1 \in T
  <2> DEFINE M == L - n
  <2>1. M \in 1..L /\ L + 1 - (n + 1) = M /\ L + 1 - n = M + 1 /\ n + 1 \in 1..L /\ n \in 0..L
    BY <1>0
  <2>2. F[n + 1] = Wrap(all[M], F[n]) /\ F[n] \in Seq(S)
    <3>1. F[n + 1] = Wrap(all[Len(all) + 1 - (n + 1)], F[(n + 1) - 1])
      BY <2>1
    <3>2. (n + 1) - 1 = n
      BY <2>1, <1>0
    <3>3. F[n] \in Seq(S)
      BY <2>1, Zenon
    <3> QED
      BY <3>1, <3>2, <3>3, <2>1
  <2>3. Len(F[n]) = C(M + 1, L)
    BY <1>3, <2>1
  <2>4. ASSUME NEW j \in (M + 1)..L, all[j].name \in Registered
        PROVE  F[n][C(M + 1, j)] = Create(all[j])
    BY <1>3, <2>1, <2>4
  <2>5. ASSUME NEW j \in M..L
        PROVE  /\ C(M, j) \in Nat /\ C(M + 1, j) \in Nat /\ C(M + 1, j) <= C(M + 1, L)
               /\ all[M].name \in Registered => C(M, j) = C(M + 1, j) + 1
               /\ all[M].name \notin Registered => C(M, j) = C(M + 1, j)
    <3>1. M \in Int /\ M + 1 \in Int /\ j \in Int /\ M <= j /\ L \in Int
      BY <2>1, <1>0
    <3>2. C(M + 1, j) <= C(M + 1, L)
      <4>1. CASE j = M
        <5>1. C(M + 1, j) = 0 /\ C(M + 1, L) \in Nat
          <6>1. j < M + 1
            BY <4>1, <3>1
          <6>2. C(M + 1, j) = 0
            BY ONLY <6>1, <3>1, <1>1
          <6> QED
            BY <6>2, <3>1, <1>1
        <5> QED
          BY <5>1
      <4>2. CASE j # M
        BY <4>2, <3>1, <1>1
      <4> QED
        BY <4>1, <4>2
    <3> QED
      BY <3>1, <3>2, <1>1
  <2> HIDE DEF M
  <2>6. CASE all[M].name \in Registered
    <3>1. F[n + 1] = <<Create(all[M])>> \o F[n] /\ Create(all[M]) \in S
      BY <2>2, <2>6, <2>1 DEF Wrap
    <3>2. Len(F[n + 1]) = C(M, L)
      <4>1. C(M, L) = C(M + 1, L) + 1
        BY <2>5, <2>6, <2>1, <1>0
      <4>2. Len(F[n + 1]) = Len(F[n]) + 1
        BY <3>1, <2>2
      <4> QED
        BY <4>1, <4>2, <2>3
    <3>3. ASSUME NEW j \in M..L, all[j].name \in Registered
          PROVE  F[n + 1][C(M, j)] = Create(all[j])
      <4>1. CASE j = M
        <5>1. C(M + 1, M) = 0
          BY <2>1, <1>0, <1>1
        <5>2. C(M, M) = 1
          BY <5>1, <2>6, <2>5, <4>1
        <5> QED
          BY <4>1, <5>2, <3>1, <2>2
      <4>2. CASE j # M
        <5>1. j \in (M + 1)..L
          BY <4>2, <2>1, <1>0
        <5>2. C(M, j) = C(M + 1, j) + 1
          BY <2>6, <2>5
        <5>3. C(M + 1, j) \in 1..Len(F[n])
          <6>1. C(M + 1, j) >= 1
            <7>1. M + 1 \in Int /\ j \in Int /\ M + 1 <= j
              BY <5>1, <2>1, <1>0
            <7> QED
              BY ONLY <7>1, <3>3, <1>1
          <6> QED
            BY <6>1, <2>3, <2>5
        <5>4. F[n + 1][C(M + 1, j) + 1] = F[n][C(M + 1, j)]
          <6>1. ASSUME NEW i \in 1..Len(F[n])
                PROVE  F[n + 1][i + 1] = F[n][i]
            BY <3>1, <2>2
          <6> QED
            BY <5>3, <6>1
        <5> QED
          BY <5>1, <5>2, <5>4, <2>4, <3>3
      <4> QED
        BY <4>1, <4>2
    <3> QED
      BY <3>2, <3>3, <2>1
  <2>7. CASE all[M].name \notin Registered
    <3>1. F[n + 1] = F[n]
      BY <2>2, <2>7 DEF Wrap
    <3>2. Len(F[n + 1]) = C(M, L)
      BY <3>1, <2>3, <2>5, <2>7, <1>0, <2>1
    <3>3. ASSUME NEW j \in M..L, all[j].name \in Registered
          PROVE  F[n + 1][C(M, j)] = Create(all[j])
      <4>1. j \in (M + 1)..L
        BY <3>3, <2>7, <2>1, <1>0
      <4>2. C(M, j) = C(M + 1, j)
        BY <2>7, <2>5
      <4> QED
        BY <4>1, <4>2, <3>1, <2>4, <3>3
    <3> QED
      BY <3>2, <3>3, <2>1
  <2> QED
    BY <2>6, <2>7
<1> HIDE DEF T
<1>4. \A n \in 0..L : n \in T
  BY <1>0, <1>2, <1>3, Induction
<1>5. P(L)
  BY <1>0, <1>4 DEF T
<1>6. L + 1 - L = 1
  BY <1>0
<1> QED
  BY <1>5, <1>6 DEF C

\* The chain of an endpoint: the global middlewares, then its own, each known
\* one at its place.
LEMMA ChainInOrder ==
    ASSUME NEW g, NEW e, AreMiddlewares(g), AreMiddlewares(e)
    PROVE  LET all == g \o e
               c   == BuildMiddleware(g, BuildMiddleware(e, <<>>))
           IN  /\ Len(all) \in Nat /\ DOMAIN all = 1..Len(all)
               /\ c \in Seq({Create(all[j]) : j \in 1..Len(all)})
               /\ \A j \in 1..Len(all) : IsMiddleware(all[j])
               /\ Len(c) = Cardinality(Known(all, 1, Len(all)))
               /\ \A j \in 1..Len(all) : all[j].name \in Registered =>
                     c[Cardinality(Known(all, 1, j))] = Create(all[j])
<1> DEFINE all == g \o e
           S   == {Create(all[j]) : j \in 1..Len(all)}
           G   == Len(g)
           E   == Len(e)
<1>1. /\ G \in Nat /\ E \in Nat /\ Len(all) = G + E
      /\ \A i \in 1..G : all[i] = g[i] /\ IsMiddleware(g[i])
      /\ \A i \in 1..E : all[G + i] = e[i] /\ IsMiddleware(e[i])
      /\ DOMAIN all = 1..Len(all)
  <2>1. g \in Seq(Range(g)) /\ e \in Seq(Range(e))
    BY DEF AreMiddlewares
  <2> DEFINE U == Range(g) \cup Range(e)
  <2>2. g \in Seq(U) /\ e \in Seq(U)
    <3>1. Range(g) \subseteq U /\ Range(e) \subseteq U
      OBVIOUS
    <3> HIDE DEF U
    <3> QED
      BY <2>1, <3>1, SeqMonotonic
  <2> HIDE DEF U
  <2>3. DOMAIN g = 1..G /\ DOMAIN e = 1..E /\ G \in Nat /\ E \in Nat
    BY <2>2
  <2>4. \A i \in 1..G : IsMiddleware(g[i])
    BY <2>3 DEF AreMiddlewares
  <2>5. \A i \in 1..E : IsMiddleware(e[i])
    BY <2>3 DEF AreMiddlewares
  <2> QED
    BY <2>2, <2>3, <2>4, <2>5
<1> HIDE DEF all
<1>2. \A i \in 1..(G + E) : Create(all[i]) \in S
  BY <1>1
<1>3. (\A i \in 1..G : Create(g[i]) \in S) /\ (\A i \in 1..E : Create(e[i]) \in S)
  <2> HIDE DEF S, G, E
  <2>1. ASSUME NEW i \in 1..G PROVE Create(g[i]) \in S
    <3>1. i \in 1..(G + E) /\ all[i] = g[i]
      BY <1>1
    <3> QED
      BY <3>1, <1>2, Zenon
  <2>2. ASSUME NEW i \in 1..E PROVE Create(e[i]) \in S
    <3>1. G + i \in 1..(G + E) /\ all[G + i] = e[i]
      BY <1>1
    <3> QED
      BY <3>1, <1>2, Zenon
  <2> QED
    BY <2>1, <2>2
<1>4. \A j \in 1..Len(all) : IsMiddleware(all[j])
  <2> SUFFICES ASSUME NEW j \in 1..Len(all)
               PROVE  IsMiddleware(all[j])
    OBVIOUS
  <2>1. CASE j <= G
    BY <2>1, <1>1
  <2>2. CASE j > G
    <3>1. j - G \in 1..E /\ G + (j - G) = j
      BY <2>2, <1>1
    <3>2. all[G + (j - G)] = e[j - G] /\ IsMiddleware(e[j - G])
      BY <3>1, <1>1
    <3> QED
      BY <3>1, <3>2
  <2> QED
    BY <2>1, <2>2, <1>1
<1> HIDE DEF S
<1>5. PICK fe \in [0..E -> Seq(S)] :
         /\ fe[0] = <<>>
         /\ \A n \in 1..E : fe[n] = Wrap(e[E + 1 - n], fe[n - 1])
         /\ BuildMiddleware(e, <<>>) = fe[E]
  <2>1. <<>> \in Seq(S)
    OBVIOUS
  <2>2. BuiltFrom(e, <<>>, S)
    BY <2>1, <1>1, <1>3, BuiltStep
  <2> QED
    BY <2>2 DEF BuiltFrom
<1>6. fe[E] \in Seq(S)
  BY <1>1, <1>5
<1>7. PICK fg \in [0..G -> Seq(S)] :
         /\ fg[0] = fe[E]
         /\ \A n \in 1..G : fg[n] = Wrap(g[G + 1 - n], fg[n - 1])
         /\ BuildMiddleware(g, fe[E]) = fg[G]
  <2>1. BuiltFrom(g, fe[E], S)
    BY <1>1, <1>3, <1>6, BuiltStep
  <2> QED
    BY <2>1 DEF BuiltFrom
<1> DEFINE F == [n \in 0..Len(all) |-> IF n <= E THEN fe[n] ELSE fg[n - E]]
<1>8. F \in [0..Len(all) -> Seq(S)]
  BY <1>1, <1>5, <1>7
<1>9. F[0] = <<>> /\ F[Len(all)] = fg[G]
  BY <1>1, <1>5, <1>7
<1>10. ASSUME NEW n \in 1..Len(all)
       PROVE  F[n] = Wrap(all[Len(all) + 1 - n], F[n - 1])
  <2>1. CASE n <= E
    <3>1. n \in 1..E /\ E + 1 - n \in 1..E /\ Len(all) + 1 - n = G + (E + 1 - n) /\ n - 1 <= E
          /\ n - 1 \in 0..Len(all)
      BY <2>1, <1>1
    <3>2. all[G + (E + 1 - n)] = e[E + 1 - n]
      BY <3>1, <1>1
    <3>3. fe[n] = Wrap(e[E + 1 - n], fe[n - 1])
      BY <3>1, <1>5
    <3> QED
      BY <2>1, <3>1, <3>2, <3>3
  <2>2. CASE n > E
    <3>1. n - E \in 1..G /\ G + 1 - (n - E) \in 1..G /\ Len(all) + 1 - n = G + 1 - (n - E)
          /\ n - 1 \in 0..Len(all)
      BY <2>2, <1>1
    <3>2. all[G + 1 - (n - E)] = g[G + 1 - (n - E)]
      BY <3>1, <1>1
    <3>3. fg[n - E] = Wrap(g[G + 1 - (n - E)], fg[(n - E) - 1])
      BY <3>1, <1>7
    <3>4. F[n] = fg[n - E]
      BY <2>2, <1>1
    <3>5. F[n - 1] = fg[(n - E) - 1]
      <4>1. CASE n = E + 1
        BY <4>1, <1>1, <1>7, <3>1
      <4>2. CASE n # E + 1
        BY <4>2, <2>2, <1>1, <3>1
      <4> QED
        BY <4>1, <4>2
    <3> QED
      BY <3>1, <3>2, <3>3, <3>4, <3>5
  <2> QED
    BY <2>1, <2>2, <1>1
<1> HIDE DEF F
<1>11. Len(all) \in Nat /\ \A i \in 1..Len(all) : Create(all[i]) \in S
  BY <1>1, <1>2
<1>12. /\ Len(F[Len(all)]) = Cardinality(Known(all, 1, Len(all)))
       /\ \A j \in 1..Len(all) : all[j].name \in Registered =>
             F[Len(all)][Cardinality(Known(all, 1, j))] = Create(all[j])
  BY <1>8, <1>9, <1>10, <1>11, WrappedInOrder
<1>13. BuildMiddleware(g, BuildMiddleware(e, <<>>)) = F[Len(all)]
  BY <1>5, <1>7, <1>9
<1>14. F[Len(all)] \in Seq(S)
  BY <1>8, <1>11
<1> DEFINE c == BuildMiddleware(g, BuildMiddleware(e, <<>>))
<1>15. c = F[Len(all)]
  BY <1>13
<1> HIDE DEF c
<1>16. /\ Len(all) \in Nat /\ DOMAIN all = 1..Len(all) /\ c \in Seq(S)
       /\ \A j \in 1..Len(all) : IsMiddleware(all[j])
       /\ Len(c) = Cardinality(Known(all, 1, Len(all)))
       /\ \A j \in 1..Len(all) : all[j].name \in Registered =>
             c[Cardinality(Known(all, 1, j))] = Create(all[j])
  BY <1>1, <1>4, <1>11, <1>12, <1>14, <1>15, Zenon
<1> QED
  BY <1>16, Zenon DEF all, S, c

-----------------------------------------------------------------------------
(* The priority merge. *)

\* The items of the files are endpoints, one file after the other.
LEMMA ItemsType ==
    ASSUME NEW E, NEW files, Len(files) \in Nat,
           \A i \in 1..Len(files) : files[i].endpoints \in Seq(E)
    PROVE  Items(files) \in Seq(E)
<1> DEFINE N == Len(files)
           A(n, s) == s \o Held(files[n])
           step == [n \in 1..N |-> [s \in Seq(E) |-> A(n, s)]]
           B(f) == [n \in 0..N |-> IF n = 0 THEN <<>> ELSE A(n, f[n - 1])]
<1>1. N \in Nat /\ \A n \in 1..N, s \in Seq(E) : A(n, s) \in Seq(E)
  <2>1. \A n \in 1..N : Held(files[n]) \in Seq(E)
    BY DEF Held
  <2> QED
    BY <2>1
<1> HIDE DEF A, N
<1>2. step \in [1..N -> [Seq(E) -> Seq(E)]]
  BY <1>1
<1>3. \A n \in 1..N, s \in Seq(E) : step[n][s] = A(n, s)
  OBVIOUS
<1> HIDE DEF step
<1>4. PICK f \in [0..N -> Seq(E)] : f[0] = <<>> /\ \A i \in 1..N : f[i] = step[i][f[i - 1]]
  <2>1. <<>> \in Seq(E)
    OBVIOUS
  <2>2. Iterates(N, Seq(E), <<>>, step)
    BY <2>1, <1>1, <1>2, Recursion
  <2> QED
    BY <2>2 DEF Iterates
<1>5. ASSUME NEW i \in 1..N PROVE f[i - 1] \in Seq(E) /\ f[i] = A(i, f[i - 1])
  <2>1. f[i - 1] \in Seq(E)
    BY <1>1, <1>4
  <2> QED
    BY <2>1, <1>3, <1>4
<1>6. f = B(f)
  BY <1>1, <1>4, <1>5
<1> DEFINE g == CHOOSE x : x = B(x)
<1>7. g = B(g)
  BY <1>6
<1>8. Items(files) = g[N]
  BY DEF Items, A, N
<1> HIDE DEF g
<1>9. g[0] = <<>> /\ \A i \in 1..N : g[i] = A(i, g[i - 1])
  BY <1>1, <1>7
<1>10. \A i \in 0..N : g[i] \in Seq(E)
  <2> DEFINE T == {i \in 0..N : g[i] \in Seq(E)}
  <2>1. 0 \in T
    BY <1>1, <1>9
  <2>2. ASSUME NEW i \in 0..(N - 1), i \in T PROVE i + 1 \in T
    BY <1>1, <1>9, <2>2
  <2> HIDE DEF T
  <2>3. \A i \in 0..N : i \in T
    BY <1>1, <2>1, <2>2, Induction
  <2> QED
    BY <2>3 DEF T
<1> QED
  BY <1>1, <1>8, <1>10

\* The index that mergePriorityConfig builds points at an endpoint with the
\* key.
LEMMA IndexPlace ==
    ASSUME NEW E, NEW origin \in Seq(E), NEW k \in Keys(origin)
    PROVE  Index(origin)[k] \in Places(origin, k)
<1> DEFINE L == Len(origin)
           Q == Places(origin, k)
           T == {L - i : i \in Q}
<1>1. L \in Nat /\ DOMAIN origin = 1..L
  OBVIOUS
<1>2. Q \subseteq 1..L /\ Q # {}
  BY <1>1 DEF Places, Keys
<1>3. T \in SUBSET Nat /\ T # {}
  BY <1>1, <1>2
<1>4. PICK t \in T : \A y \in T : t <= y
  BY <1>3, LeastElement
<1>5. PICK i \in Q : t = L - i
  BY <1>4
<1>6. ASSUME NEW j \in Q
      PROVE  j <= i
  <2>1. L - j \in T
    OBVIOUS
  <2>2. L - i <= L - j
    BY <2>1, <1>4, <1>5
  <2>3. i \in 1..L /\ j \in 1..L
    BY <1>2, <1>5
  <2> QED
    BY <2>2, <2>3, <1>1
<1>7. \E p \in DOMAIN origin :
         /\ origin[p].key = k
         /\ \A j \in DOMAIN origin : origin[j].key = k => j <= p
  BY <1>6, <1>5 DEF Places
<1> QED
  BY <1>7 DEF Index, Places

\* The stages of the merge: f[n] has the first n items replaced or prepended.
MergedFrom(origin, items, E) ==
    \E f \in [0..Len(items) -> Seq(E)] :
       /\ f[0] = origin
       /\ \A n \in 1..Len(items) : f[n] = ReplaceOrPrepend(Index(origin), f[n - 1], items[n])
       /\ Merged(origin, items) = f[Len(items)]

\* Merged goes through these stages.
LEMMA MergedStep ==
    ASSUME NEW E, NEW origin \in Seq(E), NEW items \in Seq(E)
    PROVE  MergedFrom(origin, items, E)
<1> DEFINE N == Len(items)
           A(n, s) == ReplaceOrPrepend(Index(origin), s, items[n])
           step == [n \in 1..N |-> [s \in Seq(E) |-> A(n, s)]]
           B(f) == [n \in 0..N |-> IF n = 0 THEN origin ELSE A(n, f[n - 1])]
<1>1. N \in Nat /\ \A n \in 1..N, s \in Seq(E) : A(n, s) \in Seq(E)
  <2> SUFFICES ASSUME NEW n \in 1..N, NEW s \in Seq(E)
               PROVE  A(n, s) \in Seq(E)
    OBVIOUS
  <2>1. items[n] \in E
    OBVIOUS
  <2>2. ASSUME NEW i
        PROVE  [s EXCEPT ![i] = items[n]] \in Seq(E)
    <3>1. CASE i \in 1..Len(s)
      BY <3>1, <2>1, ExceptSeq
    <3>2. CASE i \notin 1..Len(s)
      <4>1. [s EXCEPT ![i] = items[n]] = s
        BY <3>2
      <4> QED
        BY <4>1
    <3> QED
      BY <3>1, <3>2
  <2>3. <<items[n]>> \o s \in Seq(E)
    BY <2>1
  <2> QED
    BY <2>2, <2>3 DEF ReplaceOrPrepend
<1> HIDE DEF A, N
<1>2. step \in [1..N -> [Seq(E) -> Seq(E)]]
  BY <1>1
<1>3. \A n \in 1..N, s \in Seq(E) : step[n][s] = A(n, s)
  OBVIOUS
<1> HIDE DEF step
<1>4. PICK f \in [0..N -> Seq(E)] : f[0] = origin /\ \A i \in 1..N : f[i] = step[i][f[i - 1]]
  <2>1. Iterates(N, Seq(E), origin, step)
    BY <1>1, <1>2, Recursion
  <2> QED
    BY <2>1 DEF Iterates
<1>5. ASSUME NEW i \in 1..N PROVE f[i - 1] \in Seq(E) /\ f[i] = A(i, f[i - 1])
  <2>1. f[i - 1] \in Seq(E)
    BY <1>1, <1>4
  <2> QED
    BY <2>1, <1>3, <1>4
<1>6. f = B(f)
  BY <1>1, <1>4, <1>5
<1> DEFINE g == CHOOSE x : x = B(x)
<1>7. g = B(g)
  BY <1>6
<1>8. Merged(origin, items) = g[N]
  BY DEF Merged, A, N
<1> HIDE DEF g
<1>9. g[0] = origin /\ \A i \in 1..N : g[i] = A(i, g[i - 1])
  BY <1>1, <1>7
<1>10. \A i \in 0..N : g[i] = f[i]
  <2> DEFINE T == {i \in 0..N : g[i] = f[i]}
  <2>1. 0 \in T
    BY <1>1, <1>4, <1>9
  <2>2. ASSUME NEW i \in 0..(N - 1), i \in T PROVE i + 1 \in T
    BY <1>1, <1>5, <1>9, <2>2
  <2> HIDE DEF T
  <2>3. \A i \in 0..N : i \in T
    BY <1>1, <2>1, <2>2, Induction
  <2> QED
    BY <2>3 DEF T
<1>11. g[N] = f[N]
  BY <1>1, <1>10
<1> QED
  BY <1>1, <1>4, <1>5, <1>8, <1>11 DEF A, N, MergedFrom

\* Two lists with the same endpoints at the places of a key serve it alike.
LEMMA SameServed ==
    ASSUME NEW a, NEW b, NEW k, Places(a, k) = Places(b, k), \A i \in Places(a, k) : a[i] = b[i]
    PROVE  ServedBy(a, k) = ServedBy(b, k)
<1> DEFINE F == {p \in Places(a, k) : \A q \in Places(a, k) : p <= q}
<1>1. ServedBy(a, k) = {a[i] : i \in F} /\ ServedBy(b, k) = {b[i] : i \in F}
  BY DEF ServedBy
<1>2. \A i \in F : a[i] = b[i]
  OBVIOUS
<1> HIDE DEF F
<1> QED
  BY <1>1, <1>2

\* A key is served by the endpoint at its first place.
LEMMA FirstServed ==
    ASSUME NEW a, NEW k, NEW i \in Places(a, k), i \in Int,
           \A j \in Places(a, k) : j \in Int /\ i <= j
    PROVE  ServedBy(a, k) = {a[i]}
<1> DEFINE F == {p \in Places(a, k) : \A q \in Places(a, k) : p <= q}
<1>1. F = {i}
  <2>1. i \in F
    OBVIOUS
  <2>2. ASSUME NEW p \in F PROVE p = i
    <3>1. p \in Int /\ i <= p /\ p <= i
      OBVIOUS
    <3> QED
      BY <3>1
  <2> QED
    BY <2>1, <2>2
<1>2. ServedBy(a, k) = {a[j] : j \in F}
  BY DEF ServedBy
<1> HIDE DEF F
<1> QED
  BY <1>1, <1>2

\* An endpoint put in front changes nothing for other keys.
LEMMA PrependServed ==
    ASSUME NEW E, NEW a \in Seq(E), NEW x \in E, NEW k, x.key # k
    PROVE  ServedBy(<<x>> \o a, k) = ServedBy(a, k)
<1> DEFINE b == <<x>> \o a
           P == Places(a, k)
           Q == Places(b, k)
           F == {p \in P : \A q \in P : p <= q}
           G == {p \in Q : \A q \in Q : p <= q}
<1>1. /\ b \in Seq(E) /\ Len(b) = Len(a) + 1 /\ b[1] = x
      /\ \A i \in 1..Len(a) : b[i + 1] = a[i]
      /\ Len(a) \in Nat /\ DOMAIN a = 1..Len(a) /\ DOMAIN b = 1..Len(b)
  OBVIOUS
<1> HIDE DEF b
<1>2. P \subseteq 1..Len(a) /\ Q \subseteq 1..(Len(a) + 1)
  BY <1>1 DEF Places
<1>3. \A i \in 1..Len(a) : i \in P <=> i + 1 \in Q
  BY <1>1 DEF Places
<1>4. 1 \notin Q
  BY <1>1 DEF Places
<1>5. \A j \in Q : j - 1 \in P /\ j \in Int
  <2> SUFFICES ASSUME NEW j \in Q
               PROVE  j - 1 \in P /\ j \in Int
    OBVIOUS
  <2>1. j \in 2..(Len(a) + 1)
    BY <1>1, <1>2, <1>4
  <2>2. j - 1 \in 1..Len(a) /\ (j - 1) + 1 = j
    BY <2>1, <1>1
  <2> QED
    BY <2>1, <2>2, <1>3
<1>6. \A i \in P : i + 1 \in Q /\ i \in Int
  BY <1>2, <1>3
<1> HIDE DEF P, Q
<1>7. \A i \in F : i + 1 \in G
  <2> SUFFICES ASSUME NEW i \in F
               PROVE  i + 1 \in G
    OBVIOUS
  <2>1. i + 1 \in Q /\ i \in Int
    BY <1>6
  <2>2. ASSUME NEW q \in Q PROVE i + 1 <= q
    <3>1. q - 1 \in P /\ q \in Int
      BY <1>5
    <3>2. i <= q - 1
      BY <3>1
    <3> QED
      BY <3>1, <3>2, <2>1
  <2> QED
    BY <2>1, <2>2
<1>8. \A j \in G : j - 1 \in F
  <2> SUFFICES ASSUME NEW j \in G
               PROVE  j - 1 \in F
    OBVIOUS
  <2>1. j - 1 \in P /\ j \in Int
    BY <1>5
  <2>2. ASSUME NEW q \in P PROVE j - 1 <= q
    <3>1. q + 1 \in Q /\ q \in Int
      BY <1>6
    <3>2. j <= q + 1
      BY <3>1
    <3> QED
      BY <3>1, <3>2, <2>1
  <2> QED
    BY <2>1, <2>2
<1>9. (\A i \in F : i \in 1..Len(a)) /\ (\A j \in G : j \in Int /\ j - 1 \in 1..Len(a))
  BY <1>2, <1>5 DEF P
<1>10. ServedBy(a, k) = {a[i] : i \in F} /\ ServedBy(b, k) = {b[j] : j \in G}
  BY DEF ServedBy, P, Q
<1> HIDE DEF F, G
<1>11. \A i \in F : b[i + 1] = a[i]
  BY <1>1, <1>9
<1>12. \A j \in G : b[j] = a[j - 1]
  <2> SUFFICES ASSUME NEW j \in G
               PROVE  b[j] = a[j - 1]
    OBVIOUS
  <2>1. j \in Int /\ j - 1 \in 1..Len(a) /\ (j - 1) + 1 = j
    BY <1>9
  <2> QED
    BY <2>1, <1>1
<1>13. {a[i] : i \in F} = {b[j] : j \in G}
  BY <1>7, <1>8, <1>11, <1>12
<1> QED
  BY <1>10, <1>13 DEF b

\* Effective, for the first n items.
EffectiveUpTo(origin, items, k, n) ==
    LET places == {i \in 1..n : items[i].key = k}
    IN  IF places = {} THEN ServedBy(origin, k)
        ELSE {items[i] : i \in {p \in places : \A q \in places : q <= p}}

\* The last item that names a key is the one in force.
LEMMA EffectiveNamed ==
    ASSUME NEW origin, NEW items, NEW m \in Nat \ {0}
    PROVE  EffectiveUpTo(origin, items, items[m].key, m) = {items[m]}
<1> DEFINE k == items[m].key
           n == m - 1
           A == {i \in 1..(n + 1) : items[i].key = k}
           F == {p \in A : \A q \in A : q <= p}
<1>0. n \in Nat /\ n + 1 = m
  OBVIOUS
<1> HIDE DEF n
<1>1. n + 1 \in A /\ \A q \in A : q \in Int /\ q <= n + 1
  BY <1>0
<1>2. EffectiveUpTo(origin, items, k, n + 1) = {items[i] : i \in F}
  BY <1>1 DEF EffectiveUpTo
<1> HIDE DEF A
<1>3. F = {n + 1}
  <2>1. n + 1 \in F
    BY <1>1
  <2>2. ASSUME NEW p \in F
        PROVE  p = n + 1
    <3>1. p \in Int /\ p <= n + 1 /\ n + 1 <= p
      BY <1>1
    <3> QED
      BY <3>1, <1>0
  <2> QED
    BY <2>1, <2>2
<1> HIDE DEF F
<1> QED
  BY <1>0, <1>2, <1>3

\* An item changes nothing for the keys it does not name.
LEMMA EffectiveOther ==
    ASSUME NEW origin, NEW items, NEW k
    PROVE  /\ EffectiveUpTo(origin, items, k, 0) = ServedBy(origin, k)
           /\ \A n \in Nat : items[n + 1].key # k =>
                 EffectiveUpTo(origin, items, k, n + 1) = EffectiveUpTo(origin, items, k, n)
<1> DEFINE A(m) == {i \in 1..m : items[i].key = k}
<1>1. A(0) = {}
  OBVIOUS
<1>2. \A n \in Nat : items[n + 1].key # k => A(n + 1) = A(n)
  OBVIOUS
<1> QED
  BY <1>1, <1>2 DEF EffectiveUpTo

\* The merge serves each key as the reference says, unless an endpoint is
\* prepended before one is replaced or main repeats a key that a file names.
LEMMA PriorityWins ==
    ASSUME NEW E, NEW origin \in Seq(E), NEW items \in Seq(E), NEW k,
           ~Shifts(origin, items),
           ~ (k \in Keys(items) /\ Repeats(origin, k))
    PROVE  ServedBy(Merged(origin, items), k) = Effective(origin, items, k)
<1> DEFINE N == Len(items)
           L == Len(origin)
           Eff(n) == EffectiveUpTo(origin, items, k, n)
<1>1. N \in Nat /\ L \in Nat /\ DOMAIN items = 1..N /\ DOMAIN origin = 1..L
      /\ \A i \in 1..N : items[i] \in E
  OBVIOUS
<1>2. PICK f \in [0..N -> Seq(E)] :
         /\ f[0] = origin
         /\ \A n \in 1..N : f[n] = ReplaceOrPrepend(Index(origin), f[n - 1], items[n])
         /\ Merged(origin, items) = f[N]
  <2>1. MergedFrom(origin, items, E)
    BY MergedStep
  <2> QED
    BY <2>1 DEF MergedFrom
<1> DEFINE Replaces(n) == \A i \in 1..n : items[i].key \in Keys(origin)
           Stays(n) == Len(f[n]) = L /\ \A i \in 1..L : f[n][i].key = origin[i].key
           P(n) == (Replaces(n) => Stays(n)) /\ ServedBy(f[n], k) = Eff(n)
           T == {n \in 0..N : P(n)}
<1>3. 0 \in T
  <2>1. Stays(0)
    BY <1>2
  <2>2. ServedBy(f[0], k) = Eff(0)
    BY <1>2, EffectiveOther
  <2> QED
    BY <2>1, <2>2, <1>1
<1>4. ASSUME NEW n \in 0..(N - 1), n \in T
      PROVE  n + 1 \in T
  <2> DEFINE it == items[n + 1]
  <2>1. n \in Nat /\ n + 1 \in 1..N /\ n + 1 \in 0..N /\ (n + 1) - 1 = n
    BY <1>1
  <2>2. it \in E /\ f[n] \in Seq(E) /\ f[n + 1] = ReplaceOrPrepend(Index(origin), f[n], it)
    BY <1>1, <1>2, <2>1
  <2>3. /\ it.key = k => Eff(n + 1) = {it}
        /\ it.key # k => Eff(n + 1) = Eff(n)
    <3>1. ASSUME items[n + 1].key = k
          PROVE  EffectiveUpTo(origin, items, k, n + 1) = {items[n + 1]}
      <4>1. n + 1 \in Nat \ {0}
        BY <2>1
      <4>2. EffectiveUpTo(origin, items, items[n + 1].key, n + 1) = {items[n + 1]}
        BY <4>1, EffectiveNamed
      <4> QED
        BY <3>1, <4>2
    <3>2. ASSUME items[n + 1].key # k
          PROVE  EffectiveUpTo(origin, items, k, n + 1) = EffectiveUpTo(origin, items, k, n)
      BY <3>2, <2>1, EffectiveOther
    <3> QED
      BY <3>1, <3>2
  <2>4. (Replaces(n) => Stays(n)) /\ ServedBy(f[n], k) = Eff(n)
    BY <1>4
  <2>5. it.key = k => k \in Keys(items)
    BY <2>1, <1>1 DEF Keys
  <2> HIDE DEF Eff
  <2>6. CASE it.key \in Keys(origin)
    <3> DEFINE x == Index(origin)[it.key]
    <3>1. Replaces(n)
      <4> SUFFICES ASSUME NEW i \in 1..n, items[i].key \notin Keys(origin)
                   PROVE  FALSE
        OBVIOUS
      <4>1. i \in DOMAIN items /\ n + 1 \in DOMAIN items /\ i < n + 1
        BY <2>1, <1>1
      <4> QED
        BY <4>1, <2>6 DEF Shifts
    <3>2. x \in 1..L /\ origin[x].key = it.key
      BY <2>6, IndexPlace, <1>1 DEF Places
    <3>3. f[n + 1] = [f[n] EXCEPT ![x] = it]
      BY <2>2, <2>6 DEF ReplaceOrPrepend, Index
    <3> HIDE DEF x
    <3>4. DOMAIN f[n] = 1..L /\ \A i \in 1..L : f[n][i].key = origin[i].key
      BY <3>1, <2>4, <2>2
    <3>5. f[n + 1] \in Seq(E) /\ DOMAIN f[n + 1] = 1..L /\ f[n + 1][x] = it
          /\ \A i \in 1..L : i # x => f[n + 1][i] = f[n][i]
      <4>1. f[n + 1] \in Seq(E)
        BY <2>1, <1>2
      <4> QED
        BY <4>1, <3>3, <3>4, <3>2
    <3>6. Len(f[n + 1]) = L
      BY <3>5, <1>1
    <3>7. \A i \in 1..L : f[n + 1][i].key = origin[i].key
      BY <3>2, <3>4, <3>5
    <3>8. Places(f[n + 1], k) = Places(origin, k) /\ Places(f[n], k) = Places(origin, k)
      BY <3>4, <3>5, <3>7, <1>1 DEF Places
    <3>9. CASE it.key = k
      <4>1. \A j \in Places(origin, k) : j = x
        <5>1. x \in Places(origin, k)
          BY <3>2, <3>9, <1>1 DEF Places
        <5> QED
          BY <5>1, <2>5, <3>9 DEF Repeats
      <4>2. /\ x \in Places(f[n + 1], k) /\ x \in Int
            /\ \A j \in Places(f[n + 1], k) : j \in Int /\ x <= j
        BY <4>1, <3>2, <3>8, <3>9, <1>1 DEF Places
      <4>3. ServedBy(f[n + 1], k) = {it}
        <5>1. ServedBy(f[n + 1], k) = {f[n + 1][x]}
          BY <4>2, FirstServed
        <5> QED
          BY <5>1, <3>5
      <4> QED
        BY <4>3, <2>3, <3>6, <3>7, <3>9, <2>1
    <3>10. CASE it.key # k
      <4>1. \A i \in Places(f[n + 1], k) : f[n + 1][i] = f[n][i]
        BY <3>10, <3>2, <3>5, <3>8, <1>1 DEF Places
      <4>2. ServedBy(f[n + 1], k) = ServedBy(f[n], k)
        BY <4>1, <3>8, SameServed
      <4> QED
        BY <4>2, <2>3, <2>4, <3>6, <3>7, <3>10, <2>1
    <3> QED
      BY <3>9, <3>10
  <2>7. CASE it.key \notin Keys(origin)
    <3>1. ~Replaces(n + 1)
      BY <2>7, <2>1
    <3>2. f[n + 1] = <<it>> \o f[n]
      BY <2>2, <2>7 DEF ReplaceOrPrepend, Index
    <3>3. CASE it.key = k
      <4>1. f[n + 1][1] = it /\ DOMAIN f[n + 1] = 1..(Len(f[n]) + 1) /\ Len(f[n]) \in Nat
        BY <3>2, <2>2
      <4>2. 1 \in Places(f[n + 1], k) /\ 1 \in Int
            /\ \A j \in Places(f[n + 1], k) : j \in Int /\ 1 <= j
        BY <4>1, <3>3 DEF Places
      <4>3. ServedBy(f[n + 1], k) = {it}
        BY <4>1, <4>2, FirstServed
      <4> QED
        BY <4>3, <2>3, <3>1, <3>3, <2>1
    <3>4. CASE it.key # k
      <4>1. ServedBy(f[n + 1], k) = ServedBy(f[n], k)
        BY <3>2, <3>4, <2>2, PrependServed
      <4> QED
        BY <4>1, <2>3, <2>4, <3>1, <3>4, <2>1
    <3> QED
      BY <3>3, <3>4
  <2> QED
    BY <2>6, <2>7
<1> HIDE DEF T
<1>5. \A n \in 0..N : n \in T
  BY <1>1, <1>3, <1>4, Induction
<1>6. ServedBy(f[N], k) = Eff(N)
  BY <1>1, <1>5 DEF T
<1>7. Eff(N) = Effective(origin, items, k)
  BY <1>1 DEF EffectiveUpTo, Effective, Places
<1> QED
  BY <1>2, <1>6, <1>7

-----------------------------------------------------------------------------
(* Match decides what Covers describes. *)

\* All texts; the provers do not know that a literal is a string.
Text == STRING \cup {"", "b"}

\* The stretch of a path that an element of an expression takes.
LEMMA Stretch ==
    ASSUME NEW path \in Seq(Text), NEW a \in 0..Len(path), NEW c \in 0..Len(path), a <= c
    PROVE  /\ Len(SubSeq(path, a + 1, c)) = c - a
           /\ c = a => SubSeq(path, a + 1, c) = <<>>
           /\ c = a + 1 => SubSeq(path, a + 1, c) = <<path[a + 1]>>
           /\ \A x : SubSeq(path, a + 1, c) = <<x>> => c = a + 1 /\ x = path[a + 1]
           /\ SubSeq(path, a + 1, c) = <<>> => c = a
           /\ Len(SubSeq(path, a + 1, c)) = 1 =>
                 c = a + 1 /\ SubSeq(path, a + 1, c)[1] = path[a + 1]
<1> DEFINE s == SubSeq(path, a + 1, c)
<1>1. Len(path) \in Nat /\ \A i \in (a + 1)..c : path[i] \in Text
  OBVIOUS
<1>2. /\ s \in Seq(Text)
      /\ Len(s) = c - a
      /\ \A i \in 1..(c - a) : s[i] = path[a + i]
  <2>1. /\ s \in Seq(Text)
        /\ Len(s) = IF a + 1 <= c THEN c - (a + 1) + 1 ELSE 0
        /\ \A i \in 1..(c - (a + 1) + 1) : s[i] = path[(a + 1) + i - 1]
    BY <1>1, SubSeqProperties
  <2> QED
    BY <2>1
<1> HIDE DEF s
<1>3. c = a => s = <<>>
  BY <1>2
<1>4. c = a + 1 => s = <<path[a + 1]>>
  BY <1>2
<1>5. \A x : s = <<x>> => c = a + 1 /\ x = path[a + 1]
  <2> SUFFICES ASSUME NEW x, s = <<x>>
               PROVE  c = a + 1 /\ x = path[a + 1]
    OBVIOUS
  <2>1. Len(s) = 1 /\ s[1] = x
    OBVIOUS
  <2> QED
    BY <2>1, <1>2
<1>6. s = <<>> => c = a
  BY <1>2
<1>7. ASSUME Len(s) = 1
      PROVE  c = a + 1 /\ s[1] = path[a + 1]
  <2>1. c - a = 1
    BY <1>2, <1>7, Zenon
  <2>0. a \in Int /\ c \in Int
    BY <1>1
  <2>2. c = a + 1
    BY ONLY <2>0, <2>1
  <2> QED
    BY <2>2, <1>4
<1> QED
  BY <1>2, <1>3, <1>4, <1>5, <1>6, <1>7 DEF s

\* Parameters have names, and so are not empty.
Named(els) == \A i \in DOMAIN els : els[i].t = "param" => els[i].v # ""

\* An element agrees with a segment: it is the same, or a parameter.
Agrees(e, x) == x = e.v \/ (e.t = "param" /\ x # "")

\* What an expression whose wildcard can only be the last element covers.
CoversPath(els, path) ==
    LET n == IF Wild(els[Len(els)]) THEN Len(els) - 1 ELSE Len(els)
    IN  /\ Len(path) >= n
        /\ \A i \in 1..n : Agrees(els[i], path[i])
        /\ \/ Len(path) = n
           \/ els[Len(els)].t = "deep"
           \/ els[Len(els)].t = "star" /\ Len(path) = n + 1 /\ path[n + 1] # ""

\* The regular expression that NewPathMatcher builds matches just these
\* paths.
LEMMA ExpressionCovers ==
    ASSUME NEW els \in Seq(Elements), els # <<>>, NEW path \in Seq(Text),
           Named(els),
           \A i \in 1..(Len(els) - 1) : ~Wild(els[i])
    PROVE  MatchesExpression(els, path) <=> CoversPath(els, path)
<1> DEFINE N == Len(els)
           M == Len(path)
           n == IF Wild(els[N]) THEN N - 1 ELSE N
<1>1. N \in Nat /\ M \in Nat /\ DOMAIN els = 1..N
  OBVIOUS
<1>1a. N >= 1
  <2>1. N # 0
    BY EmptySeq
  <2> QED
    BY <2>1, <1>1
<1>2. \A i \in 1..N : els[i].t \in {"lit", "param", "star", "deep"}
  <2>1. \A i \in 1..N : els[i] \in Elements
    BY <1>1, ElementOfSeq
  <2> QED
    BY <2>1 DEF Elements
<1>2a. (Wild(els[N]) => n = N - 1) /\ (~Wild(els[N]) => n = N)
  OBVIOUS
<1>5. CoversPath(els, path) <=>
        /\ M >= n
        /\ \A i \in 1..n : Agrees(els[i], path[i])
        /\ \/ M = n
           \/ els[N].t = "deep"
           \/ els[N].t = "star" /\ M = n + 1 /\ path[n + 1] # ""
  BY Zenon DEF CoversPath
<1>5a. MatchesExpression(els, path) <=>
        \E cut \in [0..N -> 0..M] :
           /\ cut[0] = 0
           /\ cut[N] = M
           /\ \A i \in 1..N :
                 /\ cut[i - 1] <= cut[i]
                 /\ Fits(els[i], SubSeq(path, cut[i - 1] + 1, cut[i]), cut[i] = M)
  BY <1>1, Zenon DEF MatchesExpression
<1>5b. \A i \in 1..(N - 1) : ~Wild(els[i])
  OBVIOUS
<1>5c. \A i \in 1..N : els[i].t = "param" => els[i].v # ""
  BY <1>1, Zenon DEF Named
<1>5d. \A a, c \in 0..M : a <= c =>
         /\ Len(SubSeq(path, a + 1, c)) = c - a
         /\ c = a => SubSeq(path, a + 1, c) = <<>>
         /\ c = a + 1 => SubSeq(path, a + 1, c) = <<path[a + 1]>>
         /\ \A x : SubSeq(path, a + 1, c) = <<x>> => c = a + 1 /\ x = path[a + 1]
         /\ SubSeq(path, a + 1, c) = <<>> => c = a
         /\ Len(SubSeq(path, a + 1, c)) = 1 =>
               c = a + 1 /\ SubSeq(path, a + 1, c)[1] = path[a + 1]
  BY Stretch, Zenon
<1> HIDE DEF n, N, M
<1>2b. n \in Nat /\ n <= N
  BY <1>1, <1>1a, <1>2a
<1>3. \A i \in 1..n : ~Wild(els[i])
  <2> SUFFICES ASSUME NEW i \in 1..n PROVE ~Wild(els[i])
    OBVIOUS
  <2>1. CASE Wild(els[N])
    <3>1. i \in 1..(N - 1)
      BY <2>1, <1>1, <1>2a
    <3> QED
      BY <3>1, <1>5b
  <2>2. CASE ~Wild(els[N])
    <3>1. CASE i = N
      BY <3>1, <2>2
    <3>2. CASE i # N
      <4>1. i \in 1..(N - 1)
        BY <3>2, <2>2, <1>1, <1>2a
      <4> QED
        BY <4>1, <1>5b
    <3> QED
      BY <3>1, <3>2
  <2> QED
    BY <2>1, <2>2
<1>3a. \A i \in 1..n : i \in 1..N
  BY <1>1, <1>2b
<1>4. \A i \in 1..n : els[i].t \in {"lit", "param"}
  BY <1>3a, <1>2, <1>3, Zenon DEF Wild
<1>6. ASSUME MatchesExpression(els, path)
      PROVE  CoversPath(els, path)
  <2>1. PICK cut \in [0..N -> 0..M] :
           /\ cut[0] = 0
           /\ cut[N] = M
           /\ \A i \in 1..N :
                 /\ cut[i - 1] <= cut[i]
                 /\ Fits(els[i], SubSeq(path, cut[i - 1] + 1, cut[i]), cut[i] = M)
    BY <1>5a, <1>6
  <2>2. \A i \in 0..N : cut[i] \in 0..M
    BY <1>1, <2>1
  <2>3. ASSUME NEW i \in 1..n
        PROVE  /\ cut[i] = cut[i - 1] + 1
               /\ Agrees(els[i], path[cut[i - 1] + 1])
    <3>1. i \in 1..N /\ i \in 0..N /\ i - 1 \in 0..N
      BY <1>1, <1>2b
    <3>2. cut[i - 1] \in 0..M /\ cut[i] \in 0..M /\ cut[i - 1] <= cut[i]
      BY <3>1, <2>1, <2>2
    <3> DEFINE s == SubSeq(path, cut[i - 1] + 1, cut[i])
    <3>3. Fits(els[i], s, cut[i] = M)
      BY <3>1, <2>1
    <3>4. (els[i].t = "lit" /\ s = <<els[i].v>>) \/ (els[i].t = "param" /\ Len(s) = 1 /\ s[1] # "")
      BY <3>3, <1>4 DEF Fits
    <3>5. /\ Len(s) = cut[i] - cut[i - 1]
          /\ \A x : s = <<x>> => cut[i] = cut[i - 1] + 1 /\ x = path[cut[i - 1] + 1]
          /\ Len(s) = 1 => cut[i] = cut[i - 1] + 1 /\ s[1] = path[cut[i - 1] + 1]
      BY <3>2, <1>5d
    <3> HIDE DEF s
    <3>6. CASE els[i].t = "lit" /\ s = <<els[i].v>>
      BY <3>5, <3>6, Zenon DEF Agrees
    <3>7. CASE els[i].t = "param" /\ Len(s) = 1 /\ s[1] # ""
      <4>1. cut[i] = cut[i - 1] + 1
        BY <3>5, <3>7, Zenon
      <4> QED
        BY <4>1, <3>5, <3>7, Zenon DEF Agrees
    <3> QED
      BY <3>4, <3>6, <3>7
  <2>4. \A i \in 0..n : cut[i] = i
    <3> DEFINE T == {i \in 0..n : cut[i] = i}
    <3>1. 0 \in T
      BY <2>1, <1>2b
    <3>2. ASSUME NEW i \in 0..(n - 1), i \in T PROVE i + 1 \in T
      <4>1. i + 1 \in 1..n /\ (i + 1) - 1 = i
        BY <1>2b
      <4>2. cut[i + 1] = cut[i] + 1
        BY <4>1, <2>3
      <4> QED
        BY <4>1, <4>2, <3>2
    <3> HIDE DEF T
    <3>3. n \in Nat
      BY <1>2b
    <3>4. \A i \in 0..n : i \in T
      BY <3>1, <3>2, <3>3, Induction
    <3> QED
      BY <3>4 DEF T
  <2>5. \A i \in 1..n : Agrees(els[i], path[i])
    <3> SUFFICES ASSUME NEW i \in 1..n
                 PROVE  Agrees(els[i], path[i])
      OBVIOUS
    <3>1. cut[i - 1] + 1 = i
      <4>1. i - 1 \in 0..n
        BY <1>2b
      <4> QED
        BY <4>1, <2>4
    <3> QED
      BY <3>1, <2>3
  <2>6. cut[n] = n /\ n \in 0..M
    <3>1. n \in 0..n /\ n \in 0..N
      BY <1>1, <1>2b
    <3> QED
      BY <3>1, <2>2, <2>4
  <2>6a. M >= n
    BY <2>6
  <2>7. CASE ~Wild(els[N])
    <3>1. n = N /\ M = n
      BY <1>2a, <2>1, <2>6, <2>7
    <3> QED
      BY <3>1, <2>5, <2>6, <1>2b, <1>5
  <2>8. CASE Wild(els[N])
    <3>1. n = N - 1 /\ N \in 1..N /\ N \in 0..N
      BY <1>1, <1>1a, <1>2a, <2>8
    <3> DEFINE s == SubSeq(path, n + 1, M)
    <3>2. Fits(els[N], s, cut[N] = M)
      BY <3>1, <2>1, <2>6
    <3>3. /\ Len(s) = M - n
          /\ s = <<>> => M = n
          /\ Len(s) = 1 => M = n + 1 /\ s[1] = path[n + 1]
      <4>1. M \in 0..M /\ n <= M
        BY <1>1, <2>6
      <4> QED
        BY <4>1, <2>6, <1>5d
    <3> HIDE DEF s
    <3>4. CASE els[N].t = "deep"
      BY <3>4, <2>5, <2>6, <1>1, <1>2b, <1>5
    <3>5. CASE els[N].t = "star"
      <4>1. s = <<>> \/ (Len(s) = 1 /\ s[1] # "")
        BY <3>2, <3>5 DEF Fits
      <4>2. CASE s = <<>>
        BY <4>2, <3>3, <2>5, <2>6, <1>1, <1>2b, <1>5
      <4>3. CASE Len(s) = 1 /\ s[1] # ""
        <5>1. M = n + 1 /\ path[n + 1] # ""
          BY <4>3, <3>3, Zenon
        <5> QED
          BY <5>1, <3>5, <2>5, <2>6a, <1>5, Zenon
      <4> QED
        BY <4>1, <4>2, <4>3
    <3> QED
      BY <3>4, <3>5, <2>8 DEF Wild
  <2> QED
    BY <2>7, <2>8
<1>7. ASSUME CoversPath(els, path)
      PROVE  MatchesExpression(els, path)
  <2>1. /\ M >= n
        /\ \A i \in 1..n : Agrees(els[i], path[i])
        /\ \/ M = n
           \/ els[N].t = "deep"
           \/ els[N].t = "star" /\ M = n + 1 /\ path[n + 1] # ""
    BY <1>5, <1>7
  <2>1a. M >= n
    BY <2>1, Zenon
  <2> DEFINE cut == [i \in 0..N |-> IF i <= n THEN i ELSE M]
  <2>2. cut \in [0..N -> 0..M] /\ cut[0] = 0
    BY <1>1, <1>2b, <2>1a
  <2>3. cut[N] = M
    <3>1. CASE ~Wild(els[N])
      <4>1. n = N /\ els[N].t \notin {"star", "deep"}
        BY <3>1, <1>2a DEF Wild
      <4> QED
        <5>1. M = n
          BY <4>1, <2>1, Zenon
        <5> QED
          BY <4>1, <5>1, <1>1
    <3>2. CASE Wild(els[N])
      BY <3>2, <1>1, <1>1a, <1>2a
    <3> QED
      BY <3>1, <3>2
  <2>4. ASSUME NEW i \in 1..N
        PROVE  /\ cut[i - 1] <= cut[i]
               /\ Fits(els[i], SubSeq(path, cut[i - 1] + 1, cut[i]), cut[i] = M)
    <3>1. CASE i <= n
      <4>1. i \in 1..n /\ cut[i - 1] = i - 1 /\ cut[i] = i
        BY <3>1, <1>1, <1>2b
      <4>2. i - 1 \in 0..M /\ i \in 0..M /\ i - 1 <= i /\ (i - 1) + 1 = i
        BY <4>1, <2>1a, <1>1, <1>2b
      <4>3. SubSeq(path, i, i) = <<path[i]>>
        <5>1. i = (i - 1) + 1
          BY <4>1, <1>1
        <5>2. SubSeq(path, (i - 1) + 1, i) = <<path[(i - 1) + 1]>>
          BY <4>2, <5>1, <1>5d, Zenon
        <5> QED
          BY <4>2, <5>2, Zenon
      <4>4. els[i].t \in {"lit", "param"} /\ (els[i].t = "param" => els[i].v # "")
        BY <4>1, <1>3a, <1>4, <1>5c
      <4>5. Agrees(els[i], path[i])
        BY <4>1, <2>1
      <4>6. Fits(els[i], <<path[i]>>, cut[i] = M)
        <5>1. Len(<<path[i]>>) = 1 /\ <<path[i]>>[1] = path[i]
          OBVIOUS
        <5>2. CASE els[i].t = "lit"
          BY <5>2, <4>5, Zenon DEF Fits, Agrees
        <5>3. CASE els[i].t = "param"
          BY <5>1, <5>3, <4>4, <4>5, Zenon DEF Fits, Agrees
        <5> QED
          BY <5>2, <5>3, <4>4
      <4> QED
        BY <4>1, <4>2, <4>3, <4>6
    <3>2. CASE i > n
      <4>1. i = N /\ n = N - 1 /\ Wild(els[N]) /\ cut[i - 1] = n /\ cut[i] = M
        BY <3>2, <1>1, <1>2a, <1>2b
      <4>2. n \in 0..M /\ M \in 0..M /\ n <= M
        BY <2>1a, <1>1, <1>2b
      <4>3. /\ M = n => SubSeq(path, n + 1, M) = <<>>
            /\ M = n + 1 => SubSeq(path, n + 1, M) = <<path[n + 1]>>
        BY <4>2, <1>5d
      <4>4. Fits(els[N], SubSeq(path, n + 1, M), TRUE)
        <5>1. CASE els[N].t = "deep"
          BY <5>1 DEF Fits
        <5>2. CASE els[N].t = "star"
          <6>1. CASE M = n
            BY <6>1, <5>2, <4>3 DEF Fits
          <6>2. CASE M # n
            <7>1. SubSeq(path, n + 1, M) = <<path[n + 1]>> /\ path[n + 1] # ""
              BY <6>2, <5>2, <4>3, <2>1
            <7>2. Len(<<path[n + 1]>>) = 1 /\ <<path[n + 1]>>[1] = path[n + 1]
              OBVIOUS
            <7> QED
              BY <7>1, <7>2, <5>2 DEF Fits
          <6> QED
            BY <6>1, <6>2
        <5> QED
          BY <5>1, <5>2, <4>1 DEF Wild
      <4> QED
        BY <4>1, <4>2, <4>4 DEF Fits
    <3> QED
      BY <3>1, <3>2, <1>1, <1>2b
  <2> HIDE DEF cut
  <2> QED
    BY <2>2, <2>3, <2>4, <1>5a
<1> QED
  BY <1>6, <1>7, Zenon

\* A list of one element is a list.
LEMMA Singleton ==
    ASSUME NEW S, NEW x \in S
    PROVE  <<x>> \in Seq(S)
OBVIOUS

\* Front and Last of an expression.
LEMMA FrontFacts ==
    ASSUME NEW els \in Seq(Elements), els # <<>>
    PROVE  /\ Len(els) \in Nat /\ Len(els) >= 1
           /\ Front(els) \in Seq(Elements)
           /\ Len(Front(els)) = Len(els) - 1
           /\ \A i \in 1..(Len(els) - 1) : Front(els)[i] = els[i]
           /\ Last(els) = els[Len(els)]
<1>1. Len(els) \in Nat /\ Len(els) # 0
  BY EmptySeq
<1>2. \A i \in 1..(Len(els) - 1) : els[i] \in Elements
  BY <1>1, ElementOfSeq
<1>3. 1 \in 1..Len(els)+1 /\ Len(els) - 1 \in 0..Len(els)
  BY <1>1
<1>4. /\ SubSeq(els, 1, Len(els) - 1) \in Seq(Elements)
      /\ Len(SubSeq(els, 1, Len(els) - 1)) = IF 1 <= Len(els) - 1 THEN (Len(els) - 1) - 1 + 1 ELSE 0
      /\ \A i \in 1..((Len(els) - 1) - 1 + 1) : SubSeq(els, 1, Len(els) - 1)[i] = els[1 + i - 1]
  BY <1>1, <1>2, SubSeqProperties
<1>5. Front(els) = SubSeq(els, 1, Len(els) - 1) /\ Last(els) = els[Len(els)]
  BY DEF Front, Last
<1>6. Len(Front(els)) = Len(els) - 1
  <2>1. CASE 1 <= Len(els) - 1
    BY <2>1, <1>1, <1>4, <1>5
  <2>2. CASE ~(1 <= Len(els) - 1)
    <3>0. ASSUME NEW x \in Nat, x # 0, ~(1 <= x - 1)
          PROVE  x - 1 = 0
      BY ONLY <3>0
    <3>1. Len(els) - 1 = 0
      BY <3>0, <2>2, <1>1, Zenon
    <3> QED
      BY <2>2, <3>1, <1>4, <1>5, Zenon
  <2> QED
    BY <2>1, <2>2
<1>7. ASSUME NEW i \in 1..(Len(els) - 1) PROVE Front(els)[i] = els[i]
  <2>1. i \in 1..((Len(els) - 1) - 1 + 1) /\ 1 + i - 1 = i
    BY <1>1
  <2> QED
    BY <2>1, <1>4, <1>5
<1> QED
  BY <1>1, <1>4, <1>5, <1>6, <1>7

\* An expression without its trailing slash is an expression.
LEMMA TrimType ==
    ASSUME NEW els \in Seq(Elements)
    PROVE  TrimSlash(els) \in Seq(Elements)
<1>1. CASE Len(els) > 1 /\ Last(els) = Lit("")
  <2>1. els # <<>>
    <3>1. Len(els) > 1
      BY <1>1, Zenon
    <3> QED
      BY <3>1
  <2> QED
    BY <2>1, <1>1, FrontFacts DEF TrimSlash
<1>2. CASE ~(Len(els) > 1 /\ Last(els) = Lit(""))
  BY <1>2, Zenon DEF TrimSlash
<1> QED
  BY <1>1, <1>2, Zenon

\* The path part of Covers and of its exception.
PathCoveredFrom(base, els, glued, path) ==
    LET n == Len(base)
        agrees(i) == \/ path[i] = base[i].v
                     \/ base[i].t = "param" /\ ~glued /\ path[i] # ""
                     \/ glued /\ i = n /\ HasPrefix(path[i], base[i].v)
    IN  /\ Len(path) >= n
        /\ \A i \in 1..n : agrees(i)
        /\ \/ Len(path) = n
           \/ glued \/ Last(els).t = "deep"
           \/ Last(els).t = "star" /\ Len(path) = n + 1 /\ Last(path) # ""
PathCovered(els, glued, path) ==
    PathCoveredFrom(IF Wild(Last(els)) /\ ~glued THEN Front(els) ELSE els, els, glued, path)

\* A prefix rule, quoted into a regular expression, matches what the
\* reference covers.
LEMMA QuotedCovered ==
    ASSUME NEW els \in Seq(Elements), els # <<>>, NEW path
    PROVE  MatchesQuoted(els, path) <=> PathCovered(els, TRUE, path)
<1>1. Len(els) \in Nat /\ Len(els) >= 1 /\ Last(els) = els[Len(els)]
  BY FrontFacts
<1> DEFINE N == Len(els)
           ok(i) == path[i] = els[i].v
           pre(i) == HasPrefix(path[i], els[i].v)
<1>2. \A i : ok(i) => pre(i)
  BY Zenon DEF HasPrefix
<1>3. PathCovered(els, TRUE, path) <=> Len(path) >= N /\ \A i \in 1..N : ok(i) \/ (i = N /\ pre(i))
  BY Zenon DEF PathCovered, PathCoveredFrom
<1>4. MatchesQuoted(els, path) <=> Len(path) >= N /\ (\A i \in 1..(N - 1) : ok(i)) /\ pre(N)
  BY <1>1, Zenon DEF MatchesQuoted
<1>5. N \in Nat /\ N >= 1
  BY <1>1
<1> HIDE DEF N, ok, pre
<1>6. (\A i \in 1..N : ok(i) \/ (i = N /\ pre(i))) <=> (\A i \in 1..(N - 1) : ok(i)) /\ pre(N)
  <2>1. ASSUME \A i \in 1..N : ok(i) \/ (i = N /\ pre(i))
        PROVE  (\A i \in 1..(N - 1) : ok(i)) /\ pre(N)
    <3>1. N \in 1..N
      BY <1>5
    <3>2. ASSUME NEW i \in 1..(N - 1) PROVE i \in 1..N /\ i # N
      BY <1>5
    <3> QED
      BY <3>1, <3>2, <2>1, <1>2, Zenon
  <2>2. ASSUME \A i \in 1..(N - 1) : ok(i), pre(N), NEW i \in 1..N
        PROVE  ok(i) \/ (i = N /\ pre(i))
    <3>1. i = N \/ i \in 1..(N - 1)
      BY <1>5
    <3> QED
      BY <3>1, <2>2, Zenon
  <2> QED
    BY <2>1, <2>2, Zenon
<1> QED
  BY <1>3, <1>4, <1>6, Zenon

\* The reference covers the paths of CoversPath.
LEMMA ExpressionCovered ==
    ASSUME NEW els \in Seq(Elements), els # <<>>, NEW path \in Seq(Text)
    PROVE  CoversPath(els, path) <=> PathCovered(els, FALSE, path)
<1>1. /\ Len(els) \in Nat /\ Len(els) >= 1 /\ Last(els) = els[Len(els)]
      /\ Len(Front(els)) = Len(els) - 1
      /\ \A i \in 1..(Len(els) - 1) : Front(els)[i] = els[i]
  BY FrontFacts
<1> DEFINE N == Len(els)
           n == IF Wild(els[N]) THEN N - 1 ELSE N
           base == IF Wild(els[N]) THEN Front(els) ELSE els
           end(x) == \/ Len(path) = n
                     \/ els[N].t = "deep"
                     \/ els[N].t = "star" /\ Len(path) = n + 1 /\ x # ""
<1>2. Len(base) = n /\ \A i \in 1..n : base[i] = els[i]
  <2>1. CASE Wild(els[N])
    BY <2>1, <1>1, Zenon
  <2>2. CASE ~Wild(els[N])
    BY <2>2, <1>1, Zenon
  <2> QED
    BY <2>1, <2>2, Zenon
<1>3. CoversPath(els, path) <=> Len(path) >= n /\ (\A i \in 1..n : Agrees(els[i], path[i]))
        /\ end(path[n + 1])
  BY Zenon DEF CoversPath, Agrees
<1>4. PathCovered(els, FALSE, path) <=> Len(path) >= n
        /\ (\A i \in 1..n : Agrees(base[i], path[i])) /\ end(Last(path))
  <2>1. Wild(Last(els)) /\ ~FALSE <=> Wild(els[N])
    BY <1>1, Zenon
  <2>2. (IF Wild(Last(els)) /\ ~FALSE THEN Front(els) ELSE els) = base
    BY <2>1, Zenon
  <2>3. \A i : Agrees(base[i], path[i]) <=>
          \/ path[i] = base[i].v
          \/ base[i].t = "param" /\ ~FALSE /\ path[i] # ""
          \/ FALSE /\ i = n /\ HasPrefix(path[i], base[i].v)
    BY Zenon DEF Agrees
  <2> HIDE DEF base, n
  <2> QED
    BY <2>2, <2>3, <1>1, <1>2, Zenon DEF PathCovered, PathCoveredFrom
<1>5. end(path[n + 1]) <=> end(Last(path))
  <2>1. Len(path) = n + 1 => Last(path) = path[n + 1]
    BY Zenon DEF Last
  <2> QED
    BY <2>1, Zenon
<1> HIDE DEF n, base, end
<1>6. (\A i \in 1..n : Agrees(els[i], path[i])) <=> (\A i \in 1..n : Agrees(base[i], path[i]))
  BY <1>2, Zenon
<1> QED
  BY <1>3, <1>4, <1>5, <1>6, Zenon

\* The reference with its exception, told apart by the length of the path.
LEMMA CoversOrBare ==
    ASSUME NEW rule \in Rules, NEW method, NEW urlPath \in Seq(Text),
           TrimSlash(rule.els) \in Seq(Elements), TrimSlash(rule.els) # <<>>,
           PathOf(urlPath) \in Seq(Text)
    PROVE  Covers(rule, method, urlPath) \/ OnBarePath(rule, method, urlPath) <=>
              /\ rule.methods = {} \/ \E m \in rule.methods : ToUpper(m) = method
              /\ PathCovered(TrimSlash(rule.els), rule.glued, PathOf(urlPath))
<1> DEFINE path == PathOf(urlPath)
           els  == TrimSlash(rule.els)
           byMethod == rule.methods = {} \/ \E m \in rule.methods : ToUpper(m) = method
           base == Base(rule)
           n == Len(base)
           agrees(i) == \/ path[i] = base[i].v
                        \/ base[i].t = "param" /\ ~rule.glued /\ path[i] # ""
                        \/ rule.glued /\ i = n /\ HasPrefix(path[i], base[i].v)
           begins == Len(path) >= n /\ \A i \in 1..n : agrees(i)
           child == Last(path) # ""
           end == Last(els).t
<1>1. Len(path) \in Nat /\ n \in Nat
  <2>1. Front(els) \in Seq(Elements)
    BY FrontFacts
  <2>2. base \in Seq(Elements)
    BY <2>1 DEF Base
  <2> QED
    BY <2>2
<1>2. EndsWild(rule) <=> (end = "star" \/ end = "deep") /\ ~rule.glued
  BY DEF EndsWild, Wild
<1>3. StartsWithBase(rule, method, path) <=> byMethod /\ begins
  BY Zenon DEF StartsWithBase
<1>4. PathCovered(els, rule.glued, path) <=>
        /\ begins
        /\ \/ Len(path) = n
           \/ rule.glued \/ end = "deep"
           \/ end = "star" /\ Len(path) = n + 1 /\ child
  <2>1. (IF Wild(Last(els)) /\ ~rule.glued THEN Front(els) ELSE els) = base
    BY Zenon DEF Base, EndsWild
  <2>2. PathCovered(els, rule.glued, path) <=> PathCoveredFrom(base, els, rule.glued, path)
    BY <2>1, Zenon DEF PathCovered
  <2> QED
    BY <2>2, Zenon DEF PathCoveredFrom
<1>5. Covers(rule, method, urlPath) <=>
        /\ StartsWithBase(rule, method, path)
        /\ \/ rule.glued
           \/ ~EndsWild(rule) /\ Len(path) - n = 0
           \/ EndsWild(rule) /\ end = "deep" /\ Len(path) - n > 0
           \/ EndsWild(rule) /\ end = "star" /\ Len(path) - n = 1 /\ child
  BY Zenon DEF Covers
<1>6. OnBarePath(rule, method, urlPath) <=>
        EndsWild(rule) /\ StartsWithBase(rule, method, path) /\ Len(path) = n
  BY Zenon DEF OnBarePath
<1>7. begins => Len(path) >= n
  OBVIOUS
<1> DEFINE covered == \/ rule.glued
                      \/ ~EndsWild(rule) /\ Len(path) - n = 0
                      \/ EndsWild(rule) /\ end = "deep" /\ Len(path) - n > 0
                      \/ EndsWild(rule) /\ end = "star" /\ Len(path) - n = 1 /\ child
           bare == EndsWild(rule) /\ Len(path) = n
           either == \/ Len(path) = n
                     \/ rule.glued \/ end = "deep"
                     \/ end = "star" /\ Len(path) = n + 1 /\ child
<1> HIDE DEF path, byMethod, n, base, begins, child, end, els
<1>8. begins => (covered \/ bare <=> either)
  BY <1>1, <1>2, <1>7
<1>9. Covers(rule, method, urlPath) <=> byMethod /\ begins /\ covered
  BY <1>3, <1>5, Zenon
<1>10. OnBarePath(rule, method, urlPath) <=> byMethod /\ begins /\ bare
  BY <1>3, <1>6, Zenon
<1>11. PathCovered(els, rule.glued, path) <=> begins /\ either
  BY <1>4, Zenon
<1> HIDE DEF covered, bare, either
<1>12. Covers(rule, method, urlPath) \/ OnBarePath(rule, method, urlPath)
         <=> byMethod /\ PathCovered(els, rule.glued, path)
  BY <1>8, <1>9, <1>10, <1>11, Zenon
<1> QED
  BY <1>12, Zenon DEF els, byMethod, path

(***************************************************************************)
(* For any rule whose wildcard is at the end, and any method and path, the *)
(* regular expression that NewPathMatcher builds and Match runs takes what *)
(* the README's reading of the rule covers, the bare path before the       *)
(* wildcard, and nothing else (routerfilter.go:107-127).                   *)
(***************************************************************************)
THEOREM MatchIsCovers ==
    ASSUME NEW rule \in Rules, Plain(rule), NEW method, NEW urlPath \in Seq(Text)
    PROVE  Match(NewPathMatcher(rule), method, urlPath) <=>
              Covers(rule, method, urlPath) \/ OnBarePath(rule, method, urlPath)
<1> DEFINE path == PathOf(urlPath)
           els  == TrimSlash(rule.els)
           byMethod == rule.methods = {} \/ \E m \in rule.methods : ToUpper(m) = method
<1>1. rule.els \in Seq(Elements) /\ rule.glued \in BOOLEAN
  BY DEF Rules
<1>2. els \in Seq(Elements)
  BY <1>1, TrimType
<1>3. path \in Seq(Text)
  <2>1. <<"">> \in Seq(Text)
    <3>1. "" \in Text
      BY DEF Text
    <3> QED
      BY <3>1, Singleton, Zenon
  <2> QED
    BY <2>1 DEF PathOf
<1>4. els # <<>> /\ Named(els) /\ (rule.glued \/ \A i \in 1..(Len(els) - 1) : ~Wild(els[i]))
  BY Zenon DEF Plain, Named
<1> DEFINE matcher == NewPathMatcher(rule)
<1>5. matcher.els = els /\ matcher.glued = rule.glued
        /\ matcher.methods = {ToUpper(m) : m \in rule.methods}
  BY DEF NewPathMatcher
<1>6. (matcher.methods = {} \/ method \in matcher.methods) <=> byMethod
  <2>1. {ToUpper(m) : m \in rule.methods} = {} <=> rule.methods = {}
    OBVIOUS
  <2>2. method \in {ToUpper(m) : m \in rule.methods} <=> \E m \in rule.methods : ToUpper(m) = method
    OBVIOUS
  <2> QED
    BY <2>1, <2>2, <1>5, Zenon
<1>7. Match(matcher, method, urlPath) <=>
        byMethod /\ IF rule.glued THEN MatchesQuoted(els, path) ELSE MatchesExpression(els, path)
  <2> HIDE DEF matcher, byMethod, els
  <2> QED
    BY <1>5, <1>6, Zenon DEF Match
<1>8. Covers(rule, method, urlPath) \/ OnBarePath(rule, method, urlPath)
        <=> byMethod /\ PathCovered(els, rule.glued, path)
  BY <1>2, <1>3, <1>4, CoversOrBare, Zenon
<1> HIDE DEF els, path, matcher, byMethod
<1>9. CASE rule.glued = TRUE
  <2>1. MatchesQuoted(els, path) <=> PathCovered(els, TRUE, path)
    BY <1>2, <1>4, QuotedCovered, Zenon
  <2> QED
    BY <2>1, <1>7, <1>8, <1>9, Zenon DEF matcher
<1>10. CASE rule.glued = FALSE
  <2>0. \A i \in 1..(Len(els) - 1) : ~Wild(els[i])
    BY <1>4, <1>10, Zenon
  <2>1. MatchesExpression(els, path) <=> CoversPath(els, path)
    BY <2>0, <1>2, <1>3, <1>4, ExpressionCovers, Zenon
  <2>2. CoversPath(els, path) <=> PathCovered(els, FALSE, path)
    BY <1>2, <1>3, <1>4, ExpressionCovered, Zenon
  <2> QED
    BY <2>1, <2>2, <1>7, <1>8, <1>10, Zenon DEF matcher
<1> QED
  BY <1>1, <1>9, <1>10, Zenon

-----------------------------------------------------------------------------
(* A rewritten path is a path. *)

\* path.Clean returns a path.
LEMMA CleanType ==
    ASSUME NEW path \in Seq(Text)
    PROVE  Clean(path) \in Seq(Text)
<1> DEFINE N == Len(path)
           K(n, s) == IF path[n] = "" THEN s ELSE Append(s, path[n])
           step == [n \in 1..N |-> [s \in Seq(Text) |-> K(n, s)]]
           B(f) == [n \in 0..N |-> IF n = 0 THEN <<>> ELSE K(n, f[n - 1])]
<1>1. N \in Nat
  OBVIOUS
<1>2. ASSUME NEW n \in 1..N, NEW s \in Seq(Text)
      PROVE  K(n, s) \in Seq(Text)
  <2>1. path[n] \in Text
    BY ElementOfSeq
  <2>2. Append(s, path[n]) \in Seq(Text)
    BY <2>1
  <2> QED
    BY <2>2, Zenon
<1>2a. <<>> \in Seq(Text)
  OBVIOUS
<1>2b. Clean(path) = LET g == CHOOSE x : x = B(x)
                     IN  IF g[N] = <<>> THEN <<"">> ELSE g[N]
  BY DEF Clean
<1> HIDE DEF K, N
<1>3. step \in [1..N -> [Seq(Text) -> Seq(Text)]]
  BY <1>2
<1>4. \A n \in 1..N, s \in Seq(Text) : step[n][s] = K(n, s)
  OBVIOUS
<1> HIDE DEF step
<1>5. PICK f \in [0..N -> Seq(Text)] : f[0] = <<>> /\ \A i \in 1..N : f[i] = step[i][f[i - 1]]
  <2>1. Iterates(N, Seq(Text), <<>>, step)
    BY <1>1, <1>2a, <1>3, Recursion
  <2> QED
    BY <2>1 DEF Iterates
<1>6. ASSUME NEW i \in 1..N PROVE f[i - 1] \in Seq(Text) /\ f[i] = K(i, f[i - 1])
  <2>1. f[i - 1] \in Seq(Text)
    BY <1>1, <1>5
  <2> QED
    BY <2>1, <1>4, <1>5
<1>7. f = B(f)
  BY <1>1, <1>5, <1>6
<1> DEFINE g == CHOOSE x : x = B(x)
<1>8. g = B(g)
  BY <1>7
<1>9. Clean(path) = IF g[N] = <<>> THEN <<"">> ELSE g[N]
  BY <1>2b
<1> HIDE DEF g
<1>10. g[0] = <<>> /\ \A i \in 1..N : g[i] = K(i, g[i - 1])
  BY <1>1, <1>8
<1>11. \A i \in 0..N : g[i] = f[i]
  <2> DEFINE T == {i \in 0..N : g[i] = f[i]}
  <2>1. 0 \in T
    BY <1>1, <1>5, <1>10
  <2>2. ASSUME NEW i \in 0..(N - 1), i \in T PROVE i + 1 \in T
    BY <1>1, <1>6, <1>10, <2>2
  <2> HIDE DEF T
  <2>3. \A i \in 0..N : i \in T
    BY <1>1, <2>1, <2>2, Induction
  <2> QED
    BY <2>3 DEF T
<1>12. g[N] \in Seq(Text)
  BY <1>1, <1>5, <1>11
<1>13. <<"">> \in Seq(Text)
  <2>1. "" \in Text
    BY DEF Text
  <2> QED
    BY <2>1, Singleton, Zenon
<1> QED
  BY <1>9, <1>12, <1>13, Zenon

\* So does stripPrefix.
LEMMA StripPrefixType ==
    ASSUME NEW origin \in Seq(Text), NEW prefix \in Seq(Text), prefix # <<>>
    PROVE  StripPrefix(origin, prefix) \in Seq(Text)
<1> DEFINE n    == Len(prefix)
           rest == SubSeq(origin, n + 1, Len(origin))
           cut  == IF prefix[n] = "" THEN origin[n] ELSE Chop[<<origin[n], prefix[n]>>]
           starts == /\ Len(origin) >= n
                     /\ \A i \in 1..(n - 1) : origin[i] = prefix[i]
                     /\ HasPrefix(origin[n], prefix[n])
<1>1. n \in Nat /\ n # 0
  BY EmptySeq
<1>2. "" \in Text /\ "b" \in Text
  BY DEF Text
<1>3. rest \in Seq(Text)
  <2>1. \A i \in (n + 1)..Len(origin) : origin[i] \in Text
    <3> SUFFICES ASSUME NEW i \in (n + 1)..Len(origin)
                 PROVE  origin[i] \in Text
      OBVIOUS
    <3>1. i \in 1..Len(origin)
      BY <1>1
    <3> QED
      BY <3>1, ElementOfSeq
  <2> QED
    BY <1>1, <2>1, SubSeqProperties
<1>4. ASSUME starts, origin[n] # prefix[n]
      PROVE  cut \in Text
  <2>1. CASE prefix[n] = ""
    <3>1. n \in 1..Len(origin)
      BY <1>1, <1>4
    <3>2. origin[n] \in Text
      BY <3>1, ElementOfSeq
    <3> QED
      BY <3>2, <2>1, Zenon
  <2>2. CASE prefix[n] # ""
    <3>1. <<origin[n], prefix[n]>> \in {<<"ab", "a">>}
      BY <1>4, <2>2, Zenon DEF HasPrefix, Chop
    <3>2. Chop[<<origin[n], prefix[n]>>] = "b"
      BY <3>1, Zenon DEF Chop
    <3> QED
      BY <3>2, <2>2, <1>2, Zenon
  <2> QED
    BY <2>1, <2>2
<1>5. StripPrefix(origin, prefix) =
        IF ~starts THEN origin
        ELSE IF origin[n] # prefix[n] THEN Clean(<<cut>> \o rest)
        ELSE IF rest = <<>> THEN <<"">> ELSE rest
  BY Zenon DEF StripPrefix, Join
<1>6. <<"">> \in Seq(Text)
  BY <1>2, Singleton, Zenon
<1> HIDE DEF n, rest, cut, starts
<1>7. ASSUME starts, origin[n] # prefix[n]
      PROVE  Clean(<<cut>> \o rest) \in Seq(Text)
  <2>1. <<cut>> \in Seq(Text)
    BY <1>4, <1>7, Singleton
  <2>2. <<cut>> \o rest \in Seq(Text)
    BY <2>1, <1>3
  <2> QED
    BY <2>2, CleanType
<1> QED
  BY <1>3, <1>5, <1>6, <1>7, Zenon

\* So does the whole rewrite of the path.
LEMMA RewritePathType ==
    ASSUME NEW o, o.stripPrefix \in Seq(STRING), o.pathRewrite \in Seq(STRING),
           NEW path \in Seq(Text)
    PROVE  RewritePath(o, path) \in Seq(Text)
<1>0. STRING \subseteq Text
  BY DEF Text
<1>1. o.stripPrefix \in Seq(Text) /\ o.pathRewrite \in Seq(Text)
  BY <1>0, SeqMonotonic
<1> DEFINE stripped == IF o.stripPrefix = <<>> THEN path ELSE StripPrefix(path, o.stripPrefix)
<1>2. stripped \in Seq(Text)
  BY <1>1, StripPrefixType
<1>3. RewritePath(o, path) = IF o.pathRewrite = <<>> THEN stripped
        ELSE Clean(o.pathRewrite \o stripped)
  BY Zenon DEF RewritePath, Join
<1> HIDE DEF stripped
<1>4. o.pathRewrite \o stripped \in Seq(Text)
  BY <1>1, <1>2
<1>5. Clean(o.pathRewrite \o stripped) \in Seq(Text)
  BY <1>4, CleanType
<1> QED
  BY <1>2, <1>3, <1>5, Zenon

-----------------------------------------------------------------------------
(* Every error becomes a readable answer. *)

\* What AnswersAreReadable asks of the status and the body of an error.
ReadableBody(a) ==
    /\ a.status \in 400..599
    /\ a.body.code # "unknown"
    /\ a.body.reason \notin {"", "UNKNOWN", "no_available_node"}
    /\ a.body.message \in ReasonMessages \cup {"own"}

\* The answer names the origin of the request, once.
Echoes(a, origin) ==
    "Allow-Origin" \in DOMAIN a.hdr /\ a.hdr["Allow-Origin"] = <<origin>>

\* An error answer that a browser at this origin can read.
ReadableError(a, origin) ==
    /\ a.kind = "error"
    /\ ReadableBody(a)
    /\ origin # <<>> => Echoes(a, origin) /\ a.hdr["Expose-Headers"] = <<"X-Error-Reason">>

\* The reason of a status is one that has a message.
LEMMA StatusReason ==
    ASSUME NEW status
    PROVE  ReasonFromStatus(status) \in ReasonMessages
BY DEF ReasonFromStatus, ReasonMessages

\* Such a reason is not one of the useless ones.
LEMMA KnownReasons ==
    ASSUME NEW r \in ReasonMessages
    PROVE  r \notin {"", "UNKNOWN", "no_available_node"}
BY DEF ReasonMessages

\* Nor is a normalised one.
LEMMA NormalReason ==
    ASSUME NEW reason, NEW status
    PROVE  NormalizeReason(reason, status) \notin {"", "UNKNOWN", "no_available_node"}
<1>1. CASE UpperSnake(reason) \in {"", "UNKNOWN"}
  <2>1. NormalizeReason(reason, status) = ReasonFromStatus(status)
    BY <1>1, Zenon DEF NormalizeReason
  <2> QED
    BY <2>1, StatusReason, KnownReasons
<1>2. CASE UpperSnake(reason) \notin {"", "UNKNOWN"}
  <2>1. NormalizeReason(reason, status) = UpperSnake(reason)
    BY <1>2, Zenon DEF NormalizeReason
  <2>2. UpperSnake(reason) # "no_available_node"
    <3>1. CASE reason = "no_available_node"
      BY <3>1 DEF UpperSnake
    <3>2. CASE reason = "unknown"
      BY <3>2 DEF UpperSnake
    <3>3. CASE reason # "no_available_node" /\ reason # "unknown"
      BY <3>3 DEF UpperSnake
    <3> QED
      BY <3>1, <3>2, <3>3
  <2> QED
    BY <2>1, <2>2, <1>2
<1> QED
  BY <1>1, <1>2

\* Normalize keeps the status and gives a reason and a message.
LEMMA NormalMessage ==
    ASSUME NEW status, NEW reason, NEW text
    PROVE  /\ Normalize(status, reason, text).status = status
           /\ Normalize(status, reason, text).reason \notin {"", "UNKNOWN", "no_available_node"}
           /\ Normalize(status, reason, text).message \in ReasonMessages \cup {"own"}
<1> DEFINE r == NormalizeReason(reason, status)
           m == IF text THEN "own" ELSE DefaultMessage(r, status)
<1>1. r \notin {"", "UNKNOWN", "no_available_node"}
  BY NormalReason
<1>2. DefaultMessage(r, status) \in ReasonMessages
  BY StatusReason, Zenon DEF DefaultMessage
<1>3. m \in ReasonMessages \cup {"own"}
  BY <1>2, Zenon
<1>4. Normalize(status, reason, text) = [status |-> status, reason |-> r, message |-> m]
  BY Zenon DEF Normalize
<1> HIDE DEF r, m
<1>5. /\ Normalize(status, reason, text).status = status
      /\ Normalize(status, reason, text).reason = r
      /\ Normalize(status, reason, text).message = m
  BY <1>4
<1> QED
  BY <1>1, <1>3, <1>5, Zenon

\* Every error status has a Connect code.
LEMMA ErrorCode ==
    ASSUME NEW status \in 400..599
    PROVE  ConnectCodeFromHTTP(status) # "unknown"
<1>1. status >= 400
  OBVIOUS
<1> QED
  BY <1>1 DEF ConnectCodeFromHTTP

\* What Classify finds out is fit for an answer.
GoodInfo(c) ==
    /\ c.status \in 400..599
    /\ c.reason \notin {"", "UNKNOWN", "no_available_node"}
    /\ c.message \in ReasonMessages \cup {"own"}

\* Classify finds it out for every error.
LEMMA Classified ==
    ASSUME NEW e, IsError(e)
    PROVE  GoodInfo(Classify(e))
<1>0. ASSUME NEW status \in 400..599, NEW reason, NEW text
      PROVE  GoodInfo(Normalize(status, reason, text))
  <2>1. /\ Normalize(status, reason, text).status = status
        /\ Normalize(status, reason, text).reason \notin {"", "UNKNOWN", "no_available_node"}
        /\ Normalize(status, reason, text).message \in ReasonMessages \cup {"own"}
    BY NormalMessage, Zenon
  <2>2. Normalize(status, reason, text).status \in 400..599
    BY <2>1, <1>0
  <2> QED
    BY <2>1, <2>2, Zenon DEF GoodInfo
<1>0a. 500 \in 400..599 /\ 504 \in 400..599 /\ StatusClientClosedRequest \in 400..599
  BY DEF StatusClientClosedRequest
<1>1. CASE e.kind = "kratos"
  <2> DEFINE s == IF e.code <= 0 THEN 500 ELSE e.code
  <2>1. Classify(e) = Normalize(s, e.reason, e.text)
    BY <1>1, Zenon DEF Classify
  <2>2. s \in 400..599
    <3>1. e.code \in Int /\ (e.code <= 0 \/ e.code \in 400..599)
      BY <1>1, Zenon DEF IsError
    <3> QED
      BY <3>1, <1>0a, ZenonT(60)
  <2> HIDE DEF s
  <2>3. GoodInfo(Normalize(s, e.reason, e.text))
    BY <1>0, <2>2
  <2> QED
    BY <2>1, <2>3
<1>2. CASE e.kind # "kratos" /\ e.kind \in {"canceled", "disconnected"}
  <2>1. Classify(e) = Normalize(StatusClientClosedRequest, "CANCELED", e.text)
    BY <1>2 DEF Classify
  <2>2. GoodInfo(Normalize(StatusClientClosedRequest, "CANCELED", e.text))
    BY <1>0, <1>0a
  <2> QED
    BY <2>1, <2>2
<1>3. CASE e.kind # "kratos" /\ e.kind \notin {"canceled", "disconnected"} /\ e.kind = "deadline"
  <2>1. Classify(e) = Normalize(504, "DEADLINE_EXCEEDED", e.text)
    BY <1>3 DEF Classify
  <2>2. GoodInfo(Normalize(504, "DEADLINE_EXCEEDED", e.text))
    BY <1>0, <1>0a
  <2> QED
    BY <2>1, <2>2
<1>4. CASE e.kind # "kratos" /\ e.kind \notin {"canceled", "disconnected"} /\ e.kind # "deadline"
  <2>1. Classify(e) = Normalize(500, "UNKNOWN_ERROR", e.text)
    BY <1>4 DEF Classify
  <2>2. GoodInfo(Normalize(500, "UNKNOWN_ERROR", e.text))
    BY <1>0, <1>0a
  <2> QED
    BY <2>1, <2>2
<1> QED
  BY <1>1, <1>2, <1>3, <1>4, Zenon

\* Classify and Write turn every error into an answer the browser can read,
\* for any headers of the request: an error status, a known code, a reason, a
\* message, and the origin echoed.
THEOREM ErrorsAreReadable ==
    ASSUME NEW h, NEW e, IsError(e), NEW g
    PROVE  ReadableError(Write(h, e, g), OriginOf(h))
<1> DEFINE body == Build(e)
           cors == WriteCORSHeaders(OriginOf(h))
<1>1. PICK own : Write(h, e, g) = [kind |-> "error", status |-> body.status, body |-> body,
                                   hdr |-> Over(cors, own)]
  BY Zenon DEF Write
<1>2. body = [status |-> Classify(e).status, reason |-> Classify(e).reason,
              message |-> Classify(e).message, code |-> ConnectCodeFromHTTP(Classify(e).status)]
  BY Zenon DEF Build
<1>3. /\ Classify(e).status \in 400..599
      /\ Classify(e).reason \notin {"", "UNKNOWN", "no_available_node"}
      /\ Classify(e).message \in ReasonMessages \cup {"own"}
  BY Classified, Zenon DEF GoodInfo
<1>4. ConnectCodeFromHTTP(Classify(e).status) # "unknown"
  BY <1>3, ErrorCode
<1> HIDE DEF body
<1>5. body.status \in 400..599 /\ body.code # "unknown"
      /\ body.reason \notin {"", "UNKNOWN", "no_available_node"}
      /\ body.message \in ReasonMessages \cup {"own"}
  BY <1>2, <1>3, <1>4, Zenon
<1> DEFINE a == Write(h, e, g)
<1> HIDE DEF cors, a
<1>6. a.kind = "error" /\ a.status = body.status /\ a.body = body /\ a.hdr = Over(cors, own)
  BY <1>1 DEF a
<1>7. ReadableBody(a)
  BY <1>5, <1>6, ZenonT(60) DEF ReadableBody
<1>8. ASSUME OriginOf(h) # <<>>
      PROVE  Echoes(a, OriginOf(h)) /\ a.hdr["Expose-Headers"] = <<"X-Error-Reason">>
  <2>1. /\ "Allow-Origin" \in DOMAIN cors /\ cors["Allow-Origin"] = <<OriginOf(h)>>
        /\ "Expose-Headers" \in DOMAIN cors /\ cors["Expose-Headers"] = <<"X-Error-Reason">>
    BY <1>8 DEF cors, WriteCORSHeaders
  <2>2. \A x \in DOMAIN cors : x \in DOMAIN Over(cors, own) /\ Over(cors, own)[x] = cors[x]
    BY Zenon DEF Over
  <2> QED
    BY <2>1, <2>2, <1>6, Zenon DEF Echoes
<1> QED
  BY <1>6, <1>7, <1>8, Zenon DEF ReadableError, a

-----------------------------------------------------------------------------
(* What one middleware does to the request and to the outcome. *)

\* Middlewares that leave the Origin header and a response alone.
Calm == {"ip", "logging", "empty", "jwt", "rbac"}

\* The fields of a request.
Fields == {"route", "method", "path", "hdr", "remote", "host", "frames"}

\* A request inside the chain: rewritten paths are texts.
IsReq(r) == DOMAIN r = Fields /\ r.path \in Seq(Text)

\* What RoundTrip returns anywhere in the chain.
Outcome(o) == IsResponse(o) \/ (o.kind = "err" /\ IsError(o.err))

\* A rule of the middleware matches the request.
Matched(m, r) == MatchesAny(m.rules, r.method, r.path)

\* The requests that ip, jwt, rbac, rewrite and transcoder pass on.
WithIp(r) == [r EXCEPT !.hdr = SetKey(@, "X-Client-IP", GetClientIP(r))]
WithUser(r) == [r EXCEPT !.hdr = SetKey(SetKey(@, "x-md-global-user-id", "user"),
                                        "x-md-global-name", "name")]
WithRole(r) == [r EXCEPT !.hdr = SetKey(SetKey(@, "x-md-global-role", "role"),
                                        "x-md-global-owner", "owner")]
Rewritten(m, r) ==
    [r EXCEPT !.host = IF m.rewrite.host = "" THEN @ ELSE m.rewrite.host,
              !.path = RewritePath(m.rewrite, @),
              !.hdr  = RewriteHeaders(m.rewrite.request, @)]
Frames(r, e) == e.protocol = "GRPC" /\ Get(r.hdr, "Content-Type") \in DOMAIN GrpcContentType
Framed(r) ==
    [r EXCEPT !.frames = @ + 1,
              !.hdr = Del(SetKey(@, "Content-Type",
                          GrpcContentType[Get(@, "Content-Type")]), "Content-Length")]

\* Middlewares that pass on what they are given.
Unchanging == {"logging", "empty", "cors", "router_filter", "bbr"}

\* The request that m passes on for r, on endpoint e.
Passes(m, r, next, e) ==
    \/ m.name \in Unchanging /\ next = r
    \/ m.name = "ip" /\ next = WithIp(r)
    \/ m.name = "jwt" /\ Matched(m, r) /\ next = r
    \/ m.name = "jwt" /\ ~Matched(m, r) /\ next = WithUser(r)
    \/ m.name = "rbac" /\ Matched(m, r) /\ next = r
    \/ m.name = "rbac" /\ ~Matched(m, r) /\ next = WithRole(r)
    \/ m.name = "rewrite" /\ next = Rewritten(m, r)
    \/ m.name = "transcoder" /\ Frames(r, e) /\ next = Framed(r)
    \/ m.name = "transcoder" /\ ~Frames(r, e) /\ next = r

\* One step of the way in: router_filter lets only matched requests by.
Hop(m, r, next, e) ==
    Passes(m, r, next, e) /\ (m.name = "router_filter" => Matched(m, r))

\* What m may answer in the place of the rest of the chain.
Turned(m, r, o) ==
    /\ Outcome(o)
    /\ m.name \in Calm => o.kind = "err"
    /\ /\ m.name = "cors" /\ OriginOf(r.hdr) # <<>>
       /\ IsOriginAllowed(OriginOf(r.hdr), m.cors.allowOrigins)
       => Echoes(o, OriginOf(r.hdr))

\* What m may make of the outcome o on the way out, if it was given r.
Handed(m, r, o, next) ==
    /\ Outcome(next)
    /\ m.name \in Calm => next = o
    /\ m.name = "cors" /\ OriginOf(r.hdr) # <<>> =>
          next.kind = "err" \/ Echoes(next, OriginOf(r.hdr))

\* The three things a middleware does: pass on, answer, hand back.
GoesIn ==
    \E r : /\ PassOn(r) /\ Hop(here, req, r, endpoint)
           /\ \/ here.name = "bbr" /\ permits' = permits + 1
              \/ here.name # "bbr" /\ permits' = permits
TurnsBack == \E o : Return(o) /\ permits' = permits /\ Turned(here, req, o)
GoesOut ==
    \E o : /\ Hand(o) /\ Handed(here, stack[pos], out, o)
           /\ \/ here.name = "bbr" /\ permits' = permits - 1
              \/ here.name # "bbr" /\ permits' = permits

\* Setting another header leaves the origin alone.
LEMMA OriginKept ==
    ASSUME NEW h, NEW k, k # "Origin", NEW v
    PROVE  OriginOf(SetKey(h, k, v)) = OriginOf(h)
<1>1. "Origin" \in DOMAIN SetKey(h, k, v) <=> "Origin" \in DOMAIN h
  BY Zenon DEF SetKey
<1>2. "Origin" \in DOMAIN h => SetKey(h, k, v)["Origin"] = h["Origin"]
  BY Zenon DEF SetKey
<1> QED
  BY <1>1, <1>2, Zenon DEF OriginOf

\* A header that was set is there.
LEMMA SetKeyHolds ==
    ASSUME NEW h, NEW k, NEW v
    PROVE  k \in DOMAIN SetKey(h, k, v) /\ SetKey(h, k, v)[k] = <<v>>
BY Zenon DEF SetKey

\* A request with other headers is a request.
LEMMA WithHeader ==
    ASSUME NEW r, IsReq(r), NEW h
    PROVE  /\ IsReq([r EXCEPT !.hdr = h])
           /\ [r EXCEPT !.hdr = h].hdr = h
BY DEF IsReq, Fields

\* A hop yields a request, a calm one with the same origin; jwt names a user
\* unless a rule matched.
LEMMA HopKeeps ==
    ASSUME NEW m, IsMiddleware(m), NEW r, IsReq(r), NEW next, NEW e, Hop(m, r, next, e)
    PROVE  /\ IsReq(next)
           /\ m.name \in Calm => OriginOf(next.hdr) = OriginOf(r.hdr)
           /\ m.name = "jwt" /\ ~Matched(m, r) => Get(next.hdr, "x-md-global-user-id") = "user"
<1>1. ASSUME next = r
      PROVE  IsReq(next) /\ OriginOf(next.hdr) = OriginOf(r.hdr)
  BY <1>1, Zenon
<1>2. ASSUME next = WithIp(r)
      PROVE  IsReq(next) /\ OriginOf(next.hdr) = OriginOf(r.hdr)
  <2> DEFINE h == SetKey(r.hdr, "X-Client-IP", GetClientIP(r))
  <2>1. next = [r EXCEPT !.hdr = h]
    BY <1>2, Zenon DEF WithIp
  <2>2. OriginOf(h) = OriginOf(r.hdr)
    <3>1. "X-Client-IP" # "Origin"
      OBVIOUS
    <3> QED
      BY <3>1, OriginKept
  <2> HIDE DEF h
  <2> QED
    BY <2>1, <2>2, WithHeader
<1>3. ASSUME next = WithUser(r)
      PROVE  /\ IsReq(next) /\ OriginOf(next.hdr) = OriginOf(r.hdr)
             /\ Get(next.hdr, "x-md-global-user-id") = "user"
  <2> DEFINE u == SetKey(r.hdr, "x-md-global-user-id", "user")
             h == SetKey(u, "x-md-global-name", "name")
  <2>1. next = [r EXCEPT !.hdr = h]
    BY <1>3, Zenon DEF WithUser
  <2>2. OriginOf(h) = OriginOf(r.hdr)
    <3>1. "x-md-global-user-id" # "Origin" /\ "x-md-global-name" # "Origin"
      OBVIOUS
    <3> QED
      BY <3>1, OriginKept
  <2>3. Get(h, "x-md-global-user-id") = "user"
    <3>1. "x-md-global-user-id" \in DOMAIN u /\ u["x-md-global-user-id"] = <<"user">>
      BY SetKeyHolds
    <3> HIDE DEF u
    <3>2. "x-md-global-user-id" \in DOMAIN h /\ h["x-md-global-user-id"] = <<"user">>
      BY <3>1 DEF SetKey
    <3>3. <<"user">> # <<>> /\ <<"user">>[1] = "user"
      OBVIOUS
    <3> HIDE DEF h
    <3> QED
      BY <3>2, <3>3, Zenon DEF Get
  <2> HIDE DEF h
  <2> QED
    BY <2>1, <2>2, <2>3, WithHeader
<1>4. ASSUME next = WithRole(r)
      PROVE  IsReq(next) /\ OriginOf(next.hdr) = OriginOf(r.hdr)
  <2> DEFINE u == SetKey(r.hdr, "x-md-global-role", "role")
             h == SetKey(u, "x-md-global-owner", "owner")
  <2>1. next = [r EXCEPT !.hdr = h]
    BY <1>4, Zenon DEF WithRole
  <2>2. OriginOf(h) = OriginOf(r.hdr)
    <3>1. "x-md-global-role" # "Origin" /\ "x-md-global-owner" # "Origin"
      OBVIOUS
    <3> QED
      BY <3>1, OriginKept
  <2> HIDE DEF h
  <2> QED
    BY <2>1, <2>2, WithHeader
<1>5. ASSUME next = Rewritten(m, r)
      PROVE  IsReq(next)
  <2>1. RewritePath(m.rewrite, r.path) \in Seq(Text)
    BY RewritePathType DEF IsMiddleware, IsReq
  <2>2. /\ DOMAIN Rewritten(m, r) = DOMAIN r
        /\ Rewritten(m, r).path = RewritePath(m.rewrite, r.path)
    BY DEF Rewritten, IsReq, Fields
  <2> QED
    BY <1>5, <2>1, <2>2 DEF IsReq
<1>6. ASSUME next = Framed(r)
      PROVE  IsReq(next)
  <2>1. DOMAIN Framed(r) = DOMAIN r /\ Framed(r).path = r.path
    BY DEF Framed, IsReq, Fields
  <2> QED
    BY <1>6, <2>1 DEF IsReq
<1>7. m.name \in Calm => m.name \notin {"rewrite", "transcoder"}
  BY Zenon DEF Calm
<1>8. Passes(m, r, next, e)
  BY Zenon DEF Hop
<1> QED
  BY <1>1, <1>2, <1>3, <1>4, <1>5, <1>6, <1>7, <1>8, Zenon DEF Passes, Unchanging

\* What is passed on depends on the middleware, the request and the endpoint
\* only.
LEMMA HopDeterministic ==
    ASSUME NEW m, NEW r, NEW e, NEW a, NEW b, Hop(m, r, a, e), Hop(m, r, b, e)
    PROVE  a = b
<1> DEFINE is(x) ==
             /\ m.name \in Unchanging => x = r
             /\ m.name = "ip" => x = WithIp(r)
             /\ m.name = "jwt" /\ Matched(m, r) => x = r
             /\ m.name = "jwt" /\ ~Matched(m, r) => x = WithUser(r)
             /\ m.name = "rbac" /\ Matched(m, r) => x = r
             /\ m.name = "rbac" /\ ~Matched(m, r) => x = WithRole(r)
             /\ m.name = "rewrite" => x = Rewritten(m, r)
             /\ m.name = "transcoder" /\ Frames(r, e) => x = Framed(r)
             /\ m.name = "transcoder" /\ ~Frames(r, e) => x = r
<1>1. ASSUME NEW x, Passes(m, r, x, e)
      PROVE  is(x)
  <2>1. /\ "ip" \notin Unchanging /\ "jwt" \notin Unchanging /\ "rbac" \notin Unchanging
        /\ "rewrite" \notin Unchanging /\ "transcoder" \notin Unchanging
    BY Zenon DEF Unchanging
  <2>2. CASE m.name \in Unchanging
    BY <2>1, <2>2, <1>1, Zenon DEF Passes
  <2>3. CASE m.name = "ip"
    BY <2>1, <2>3, <1>1, Zenon DEF Passes
  <2>4. CASE m.name = "jwt"
    BY <2>1, <2>4, <1>1, Zenon DEF Passes
  <2>5. CASE m.name = "rbac"
    BY <2>1, <2>5, <1>1, Zenon DEF Passes
  <2>6. CASE m.name = "rewrite"
    BY <2>1, <2>6, <1>1, Zenon DEF Passes
  <2>7. CASE m.name = "transcoder"
    BY <2>1, <2>7, <1>1, Zenon DEF Passes
  <2> QED
    BY <2>2, <2>3, <2>4, <2>5, <2>6, <2>7, <1>1, Zenon DEF Passes
<1>2. is(a) /\ is(b) /\ Passes(m, r, a, e)
  BY <1>1, Zenon DEF Hop
<1> QED
  BY <1>2, Zenon DEF Passes

\* Resp makes a response.
LEMMA RespIs ==
    ASSUME NEW s, NEW h
    PROVE  IsResponse(Resp(s, h)) /\ Resp(s, h).hdr = h
BY DEF IsResponse, Resp

\* Err makes an outcome.
LEMMA ErrIs ==
    ASSUME NEW e, IsError(e)
    PROVE  Outcome(Err(e)) /\ Err(e).kind = "err" /\ Err(e).err = e
<1>1. Err(e).kind = "err" /\ Err(e).err = e
  BY DEF Err
<1> QED
  BY <1>1, Zenon DEF Outcome

\* The errors of the middlewares and of the proxy are errors.
LEMMA OwnErrors ==
    /\ \A c \in 400..599 : \A r, t : IsError(KratosError(c, r, t))
    /\ \A k : k # "kratos" => IsError(PlainError(k))
    /\ IsError(ErrPermissionDenied) /\ IsError(ErrForbiddenRoute) /\ IsError(ErrAuthCheckFailed)
    /\ IsError(ErrRouteNotFound) /\ IsError(ErrMethodNotAllowed) /\ IsError(ErrBadGateway)
<1>1. ASSUME NEW c \in 400..599, NEW r, NEW t
      PROVE  IsError(KratosError(c, r, t))
  <2>1. KratosError(c, r, t).code = c
    BY DEF KratosError
  <2>2. c \in Int
    OBVIOUS
  <2> QED
    BY <2>1, <2>2, Zenon DEF IsError
<1>2. ASSUME NEW k, k # "kratos"
      PROVE  IsError(PlainError(k))
  <2>1. PlainError(k).kind = k
    BY DEF PlainError
  <2> QED
    BY <2>1, <1>2, Zenon DEF IsError
<1>3. 403 \in 400..599 /\ 404 \in 400..599 /\ 405 \in 400..599 /\ 500 \in 400..599
        /\ 502 \in 400..599
  OBVIOUS
<1>4. /\ IsError(ErrPermissionDenied) /\ IsError(ErrForbiddenRoute) /\ IsError(ErrAuthCheckFailed)
      /\ IsError(ErrRouteNotFound) /\ IsError(ErrMethodNotAllowed) /\ IsError(ErrBadGateway)
  <2>1. IsError(ErrPermissionDenied)
    <3>1. \A r, t : IsError(KratosError(403, r, t))
      BY <1>1, <1>3
    <3> QED
      BY <3>1, ZenonT(60) DEF ErrPermissionDenied
  <2>2. IsError(ErrForbiddenRoute)
    <3>1. \A r, t : IsError(KratosError(403, r, t))
      BY <1>1, <1>3
    <3> QED
      BY <3>1, ZenonT(60) DEF ErrForbiddenRoute
  <2>3. IsError(ErrAuthCheckFailed)
    <3>1. \A r, t : IsError(KratosError(500, r, t))
      BY <1>1, <1>3
    <3> QED
      BY <3>1, ZenonT(60) DEF ErrAuthCheckFailed
  <2>4. IsError(ErrRouteNotFound)
    <3>1. \A r, t : IsError(KratosError(404, r, t))
      BY <1>1, <1>3
    <3> QED
      BY <3>1, ZenonT(60) DEF ErrRouteNotFound
  <2>5. IsError(ErrMethodNotAllowed)
    <3>1. \A r, t : IsError(KratosError(405, r, t))
      BY <1>1, <1>3
    <3> QED
      BY <3>1, ZenonT(60) DEF ErrMethodNotAllowed
  <2>6. IsError(ErrBadGateway)
    <3>1. \A r, t : IsError(KratosError(502, r, t))
      BY <1>1, <1>3
    <3> QED
      BY <3>1, ZenonT(60) DEF ErrBadGateway
  <2> QED
    BY <2>1, <2>2, <2>3, <2>4, <2>5, <2>6
<1> QED
  BY <1>1, <1>2, <1>4

\* Any middleware but cors may answer with an error,
LEMMA TurnedByError ==
    ASSUME NEW m, m.name # "cors", NEW r, NEW e, IsError(e)
    PROVE  Turned(m, r, Err(e))
BY ErrIs, Zenon DEF Turned

\* and one that is not calm with a response.
LEMMA TurnedByAnswer ==
    ASSUME NEW m, m.name \notin Calm, m.name # "cors", NEW r, NEW o, IsResponse(o)
    PROVE  Turned(m, r, o)
BY Zenon DEF Turned, Outcome

\* On the way in, before a middleware.
Inside == phase = "in" /\ pos <= Len(chain)

\* Each of the Enter actions passes on or answers, as Hop and Turned say.
LEMMA EnterShape ==
    ASSUME Enter
    PROVE  Inside /\ (GoesIn \/ TurnsBack)
<1>0. "logging" # "bbr" /\ "empty" # "bbr" /\ "ip" # "bbr" /\ "cors" # "bbr"
        /\ "router_filter" # "bbr"
      /\ "jwt" # "bbr" /\ "rbac" # "bbr" /\ "rewrite" # "bbr" /\ "transcoder" # "bbr"
  OBVIOUS
<1>0a. ASSUME NEW r, PassOn(r), Hop(here, req, r, endpoint), here.name # "bbr", UNCHANGED permits
       PROVE  GoesIn
  BY <1>0a, Zenon DEF GoesIn
<1>0b. ASSUME NEW o, Return(o), Turned(here, req, o), UNCHANGED permits
       PROVE  TurnsBack
  BY <1>0b, Zenon DEF TurnsBack
<1>0c. Skips <=> Matched(here, req)
  BY Zenon DEF Skips, Matched
<1>0d. \A n : At(n) => Inside /\ here.name = n
  BY Zenon DEF At, Inside
<1> HIDE DEF here
<1>1. CASE EnterPlain
  <2>1. here.name \in {"logging", "empty"} /\ Inside /\ PassOn(req) /\ UNCHANGED permits
    BY <1>1, <1>0d, Zenon DEF EnterPlain
  <2>2. Hop(here, req, req, endpoint)
    BY <2>1, Zenon DEF Hop, Passes, Unchanging
  <2> QED
    BY <2>1, <2>2, <1>0, <1>0a, Zenon
<1>2. CASE EnterIp
  <2>1. here.name = "ip" /\ Inside /\ PassOn(WithIp(req)) /\ UNCHANGED permits
    BY <1>2, <1>0d, Zenon DEF EnterIp, WithIp
  <2>2. Hop(here, req, WithIp(req), endpoint)
    BY <2>1, Zenon DEF Hop, Passes
  <2> QED
    BY <2>1, <2>2, <1>0, <1>0a, Zenon
<1>3. CASE EnterCors
  <2> DEFINE origin == OriginOf(req.hdr)
             ok == IsOriginAllowed(origin, here.cors.allowOrigins)
  <2>1. /\ here.name = "cors" /\ Inside /\ UNCHANGED permits
        /\ \/ PassOn(req)
           \/ origin # <<>> /\ ~ok /\ Return(Resp(403, NoHeader))
           \/ Return(Resp(200, Preflight(here.cors, origin)))
    BY <1>3, <1>0d, Zenon DEF EnterCors
  <2>2. CASE PassOn(req)
    <3>1. Hop(here, req, req, endpoint)
      BY <2>1, Zenon DEF Hop, Passes, Unchanging
    <3> QED
      BY <2>1, <2>2, <3>1, <1>0, <1>0a, Zenon
  <2>3. CASE origin # <<>> /\ ~ok /\ Return(Resp(403, NoHeader))
    <3>1. Turned(here, req, Resp(403, NoHeader))
      BY <2>1, <2>3, RespIs, ZenonT(60) DEF Turned, Outcome, Calm
    <3> QED
      BY <2>1, <2>3, <3>1, <1>0b, Zenon
  <2>4. CASE Return(Resp(200, Preflight(here.cors, origin)))
    <3>1. Echoes(Resp(200, Preflight(here.cors, origin)), origin)
      <4> DEFINE p == Preflight(here.cors, origin)
      <4>1. "Allow-Origin" \in DOMAIN p /\ p["Allow-Origin"] = <<origin>>
        BY SetKeyHolds DEF Preflight
      <4> HIDE DEF p, origin
      <4>2. Resp(200, p).hdr = p
        BY RespIs
      <4> QED
        BY <4>1, <4>2 DEF Echoes, p
    <3>2. Turned(here, req, Resp(200, Preflight(here.cors, origin)))
      BY <2>1, <3>1, RespIs, ZenonT(60) DEF Turned, Outcome, Calm
    <3> QED
      BY <2>1, <2>4, <3>2, <1>0b, Zenon
  <2> QED
    BY <2>1, <2>2, <2>3, <2>4, Zenon
<1>4. CASE EnterRouterFilter
  <2>0. PICK h1, h2 :
          /\ At("router_filter") /\ UNCHANGED permits
          /\ \/ Return([Resp(204, h1) EXCEPT !.data = "nil"])
             \/ Skips /\ PassOn(req)
             \/ Return(Resp(403, h2))
    BY <1>4, Zenon DEF EnterRouterFilter
  <2>1. here.name = "router_filter" /\ Inside /\ UNCHANGED permits
    BY <2>0, <1>0d, Zenon
  <2>2. here.name \notin Calm /\ here.name # "cors"
    BY <2>1, Zenon DEF Calm
  <2>3. CASE Skips /\ PassOn(req)
    <3>1. Hop(here, req, req, endpoint)
      BY <2>1, <2>3, <1>0c, Zenon DEF Hop, Passes, Unchanging
    <3> QED
      BY <2>1, <2>3, <3>1, <1>0, <1>0a, Zenon
  <2>4. CASE Return(Resp(403, h2))
    BY <2>1, <2>2, <2>4, <1>0b, RespIs, TurnedByAnswer, ZenonT(60)
  <2>5. CASE Return([Resp(204, h1) EXCEPT !.data = "nil"])
    <3>1. IsResponse([Resp(204, h1) EXCEPT !.data = "nil"])
      BY DEF Resp, IsResponse
    <3> QED
      BY <2>1, <2>2, <2>5, <3>1, <1>0b, TurnedByAnswer, Zenon
  <2> QED
    BY <2>0, <2>3, <2>4, <2>5, Zenon
<1>5. CASE EnterJwt
  <2>0. \/ Skips /\ PassOn(req)
        \/ Return(Err(KratosError(401, "MISSING_AUTH_TOKEN", TRUE)))
        \/ \E t : Return(Err(KratosError(401, t, TRUE)))
        \/ ~Skips /\ PassOn(WithUser(req))
    BY <1>5, ZenonT(60) DEF EnterJwt, WithUser
  <2>1. here.name = "jwt" /\ Inside /\ UNCHANGED permits
    BY <1>5, <1>0d, Zenon DEF EnterJwt
  <2>2. 401 \in 400..599
    OBVIOUS
  <2>3. \A t : Turned(here, req, Err(KratosError(401, t, TRUE)))
    <3> SUFFICES ASSUME NEW t
                 PROVE  Turned(here, req, Err(KratosError(401, t, TRUE)))
      OBVIOUS
    <3>1. IsError(KratosError(401, t, TRUE))
      BY <2>2, OwnErrors, ZenonT(60)
    <3>2. here.name # "cors"
      BY <2>1
    <3> QED
      BY <3>1, <3>2, TurnedByError
  <2>4. /\ Skips => Hop(here, req, req, endpoint)
        /\ ~Skips => Hop(here, req, WithUser(req), endpoint)
    BY <2>1, <1>0c, Zenon DEF Hop, Passes
  <2> QED
    BY <2>0, <2>1, <2>3, <2>4, <1>0, <1>0a, <1>0b, ZenonT(60)
<1>6. CASE EnterRbac
  <2>0. \/ Skips /\ PassOn(req)
        \/ \E e \in {ErrPermissionDenied, ErrAuthCheckFailed, ErrForbiddenRoute} : Return(Err(e))
        \/ ~Skips /\ PassOn(WithRole(req))
    BY <1>6, Zenon DEF EnterRbac, WithRole
  <2>1. here.name = "rbac" /\ Inside /\ UNCHANGED permits
    BY <1>6, <1>0d, Zenon DEF EnterRbac
  <2>2. here.name # "cors"
    BY <2>1
  <2>3. \A e \in {ErrPermissionDenied, ErrAuthCheckFailed, ErrForbiddenRoute} :
           Turned(here, req, Err(e))
    BY <2>2, OwnErrors, TurnedByError, Zenon
  <2>4. /\ Skips => Hop(here, req, req, endpoint)
        /\ ~Skips => Hop(here, req, WithRole(req), endpoint)
    BY <2>1, <1>0c, Zenon DEF Hop, Passes
  <2> QED
    BY <2>0, <2>1, <2>3, <2>4, <1>0, <1>0a, <1>0b, Zenon
<1>7. CASE EnterBbr
  <2>1. /\ here.name = "bbr" /\ Inside
        /\ \/ PassOn(req) /\ permits' = permits + 1
           \/ Return([Resp(429, NoHeader) EXCEPT !.bare = TRUE]) /\ UNCHANGED permits
    BY <1>7, <1>0d, Zenon DEF EnterBbr
  <2>2. here.name \notin Calm /\ here.name # "cors"
    BY <2>1, Zenon DEF Calm
  <2>3. Hop(here, req, req, endpoint)
    BY <2>1, Zenon DEF Hop, Passes, Unchanging
  <2>4. IsResponse([Resp(429, NoHeader) EXCEPT !.bare = TRUE])
    BY DEF Resp, IsResponse
  <2>5. CASE PassOn(req) /\ permits' = permits + 1
    BY <2>1, <2>3, <2>5, Zenon DEF GoesIn
  <2>6. CASE Return([Resp(429, NoHeader) EXCEPT !.bare = TRUE]) /\ UNCHANGED permits
    BY <2>1, <2>2, <2>4, <2>6, <1>0b, TurnedByAnswer, ZenonT(60)
  <2> QED
    BY <2>1, <2>5, <2>6, Zenon
<1>8. CASE EnterRewrite
  <2>1. here.name = "rewrite" /\ Inside /\ PassOn(Rewritten(here, req)) /\ UNCHANGED permits
    BY <1>8, <1>0d, Zenon DEF EnterRewrite, Rewritten
  <2>2. Hop(here, req, Rewritten(here, req), endpoint)
    BY <2>1, Zenon DEF Hop, Passes
  <2> QED
    BY <2>1, <2>2, <1>0, <1>0a, Zenon
<1>9. CASE EnterTranscoder
  <2>0. \/ Frames(req, endpoint) /\ PassOn(Framed(req))
        \/ ~Frames(req, endpoint) /\ PassOn(req)
    BY <1>9, Zenon DEF EnterTranscoder, Transcodes, Frames, Framed
  <2>1. here.name = "transcoder" /\ Inside /\ UNCHANGED permits
    BY <1>9, <1>0d, Zenon DEF EnterTranscoder
  <2>2. /\ Frames(req, endpoint) => Hop(here, req, Framed(req), endpoint)
        /\ ~Frames(req, endpoint) => Hop(here, req, req, endpoint)
    BY <2>1, Zenon DEF Hop, Passes
  <2> QED
    BY <2>0, <2>1, <2>2, <1>0, <1>0a, Zenon
<1> QED
  BY <1>1, <1>2, <1>3, <1>4, <1>5, <1>6, <1>7, <1>8, <1>9, Zenon DEF Enter

\* On the way out, in a middleware.
Outside == phase = "out" /\ pos > 0

\* Each of the Leave actions hands back as Handed says, or panics.
LEMMA LeaveShape ==
    ASSUME Leave, Outcome(out)
    PROVE  Outside /\ (GoesOut \/ Panic)
<1>0. ASSUME NEW o, Hand(o), Handed(here, stack[pos], out, o), here.name # "bbr", UNCHANGED permits
      PROVE  GoesOut
  BY <1>0, Zenon DEF GoesOut
<1>0a. \A names : Leaving(names) => Outside /\ here.name \in names
  BY Zenon DEF Leaving, Outside
<1>0d. \A n : Leaving({n}) => Outside /\ here.name = n
  BY Zenon DEF Leaving, Outside
<1>0b. out.kind # "err" => IsResponse(out)
  BY Zenon DEF Outcome
<1>0c. ASSUME NEW o, Outcome(o), here.name \in {"rewrite", "transcoder"}
       PROVE  Handed(here, stack[pos], out, o)
  BY <1>0c, Zenon DEF Handed, Calm
<1> HIDE DEF here
<1>1. CASE LeavePlain
  <2>1. /\ here.name \in {"logging", "empty", "ip", "router_filter", "jwt", "rbac"}
        /\ Outside /\ Hand(out) /\ UNCHANGED permits
    BY <1>1, <1>0a, Zenon DEF LeavePlain
  <2>2. here.name # "bbr" /\ here.name # "cors"
    BY <2>1, Zenon
  <2>3. Handed(here, stack[pos], out, out)
    BY <2>2, Zenon DEF Handed
  <2> QED
    BY <2>1, <2>2, <2>3, <1>0, Zenon
<1>2. CASE LeaveCors
  <2> DEFINE origin == OriginOf(stack[pos].hdr)
             o == [out EXCEPT !.hdr = WithCors(here.cors, origin, @), !.bare = FALSE]
  <2>1. /\ here.name = "cors" /\ Outside /\ UNCHANGED permits
        /\ \/ (out.kind = "err" \/ origin = <<>>) /\ Hand(out)
           \/ out.kind # "err" /\ Hand(o)
    BY <1>2, <1>0d, Zenon DEF LeaveCors
  <2>2. here.name # "bbr" /\ here.name \notin Calm
    BY <2>1, Zenon DEF Calm
  <2>3. CASE (out.kind = "err" \/ origin = <<>>) /\ Hand(out)
    <3>1. Handed(here, stack[pos], out, out)
      BY <2>3, Zenon DEF Handed
    <3> QED
      BY <2>1, <2>2, <2>3, <3>1, <1>0, Zenon
  <2>4. CASE out.kind # "err" /\ Hand(o)
    <3>1. IsResponse(out)
      BY <2>4, <1>0b
    <3>2. IsResponse(o) /\ o.hdr = WithCors(here.cors, origin, out.hdr)
      <4> DEFINE w == WithCors(here.cors, origin, out.hdr)
      <4>1. o = [out EXCEPT !.hdr = w, !.bare = FALSE]
        OBVIOUS
      <4> HIDE DEF w, o
      <4> QED
        BY <4>1, <3>1 DEF IsResponse, w
    <3>3. Echoes(o, origin)
      <4> HIDE DEF o, origin
      <4> QED
        BY <3>2, SetKeyHolds, ZenonT(60) DEF Echoes, WithCors
    <3>4. Handed(here, stack[pos], out, o)
      <4> HIDE DEF o
      <4> QED
        BY <2>2, <3>2, <3>3, Zenon DEF Handed, Outcome
    <3> QED
      BY <2>1, <2>2, <2>4, <3>4, <1>0, Zenon
  <2> QED
    BY <2>1, <2>3, <2>4, Zenon
<1>3. CASE LeaveBbr
  <2>1. here.name = "bbr" /\ Outside /\ Hand(out) /\ permits' = permits - 1
    BY <1>3, <1>0d, Zenon DEF LeaveBbr
  <2>2. Handed(here, stack[pos], out, out)
    BY <2>1, Zenon DEF Handed, Calm
  <2> QED
    BY <2>1, <2>2, Zenon DEF GoesOut
<1>4. CASE LeaveRewrite
  <2> DEFINE o == [out EXCEPT !.hdr = RewriteHeaders(here.rewrite.response, @)]
  <2>1. /\ here.name = "rewrite" /\ Outside
        /\ \/ Hand(out) /\ UNCHANGED permits
           \/ Panic
           \/ out.kind # "err" /\ Hand(o) /\ UNCHANGED permits
    BY <1>4, <1>0d, Zenon DEF LeaveRewrite
  <2>2. here.name # "bbr" /\ here.name \in {"rewrite", "transcoder"}
    BY <2>1
  <2>3. CASE Hand(out) /\ UNCHANGED permits
    BY <2>1, <2>2, <2>3, <1>0, <1>0c, Zenon
  <2>4. CASE out.kind # "err" /\ Hand(o) /\ UNCHANGED permits
    <3>1. IsResponse(o)
      <4> DEFINE w == RewriteHeaders(here.rewrite.response, out.hdr)
      <4>1. o = [out EXCEPT !.hdr = w]
        OBVIOUS
      <4> HIDE DEF w, o
      <4> QED
        BY <4>1, <2>4, <1>0b DEF IsResponse
    <3> HIDE DEF o
    <3> QED
      BY <2>1, <2>2, <2>4, <3>1, <1>0, <1>0c, Zenon DEF Outcome
  <2> QED
    BY <2>1, <2>3, <2>4, Zenon
<1>5. CASE LeaveTranscoder
  <2> DEFINE o == Transcoded(out, Get(stack[pos].hdr, "Content-Type"))
  <2>1. /\ here.name = "transcoder" /\ Outside
        /\ \/ Hand(out) /\ UNCHANGED permits
           \/ Panic
           \/ out.kind # "err" /\ Hand(o) /\ UNCHANGED permits
           \/ Hand(Err(PlainError("other"))) /\ UNCHANGED permits
    BY <1>5, <1>0d, Zenon DEF LeaveTranscoder
  <2>2. here.name # "bbr" /\ here.name \in {"rewrite", "transcoder"}
    BY <2>1
  <2>3. CASE Hand(out) /\ UNCHANGED permits
    BY <2>1, <2>2, <2>3, <1>0, <1>0c, Zenon
  <2>4. Outcome(Err(PlainError("other")))
    <3>1. "other" # "kratos"
      OBVIOUS
    <3> QED
      BY <3>1, OwnErrors, ErrIs, Zenon
  <2>5. CASE out.kind # "err" /\ Hand(o) /\ UNCHANGED permits
    <3>1. PICK h : \/ o = Err(PlainError("other"))
                   \/ o = Resp(200, h)
                   \/ o = [out EXCEPT !.hdr = h, !.trailer = NoHeader]
      BY Zenon DEF Transcoded
    <3>2. IsResponse([out EXCEPT !.hdr = h, !.trailer = NoHeader])
      BY <2>5, <1>0b DEF IsResponse
    <3>3. Outcome(o)
      <4> HIDE DEF o
      <4>1. CASE o = Err(PlainError("other"))
        BY <4>1, <2>4
      <4>2. CASE o = Resp(200, h)
        BY <4>2, RespIs DEF Outcome
      <4>3. CASE o = [out EXCEPT !.hdr = h, !.trailer = NoHeader]
        BY <4>3, <3>2 DEF Outcome
      <4> QED
        BY <3>1, <4>1, <4>2, <4>3
    <3> HIDE DEF o
    <3> QED
      BY <2>1, <2>2, <2>5, <3>3, <1>0, <1>0c, Zenon
  <2>6. CASE Hand(Err(PlainError("other"))) /\ UNCHANGED permits
    BY <2>1, <2>2, <2>4, <2>6, <1>0, <1>0c, Zenon
  <2> QED
    BY <2>1, <2>3, <2>5, <2>6, Zenon
<1> QED
  BY <1>1, <1>2, <1>3, <1>4, <1>5, Zenon DEF Leave

-----------------------------------------------------------------------------
(* The inductive invariant. *)

\* A sequence of whatever it holds.
IsSeq(s) == s \in Seq(Range(s))

\* The requests t that the middlewares of c were given, from the first on.
Trail(t, c, first, e) ==
    /\ t[1] = first
    /\ \A i \in 1..Len(t) : IsReq(t[i])
    /\ \A i \in 1..(Len(t) - 1) : Hop(c[i], t[i], t[i + 1], e)

\* A configuration as the loader parses it.
Conf(c) ==
    /\ AreEndpoints(c.main) /\ AreMiddlewares(c.global)
    /\ IsSeq(c.files) /\ \A i \in DOMAIN c.files : AreEndpoints(c.files[i].endpoints)

\* The origin of the client, and a cors in the chain that allows it, with
\* nothing outside that rewrites or answers.
Origin == OriginOf(client.hdr)
Allowed(i) ==
    /\ chain[i].name = "cors"
    /\ IsOriginAllowed(Origin, chain[i].cors.allowOrigins)
    /\ \A j \in 1..(i - 1) : chain[j].name \in Calm

\* The limiters among the first k middlewares.
Limited(c, k) == {i \in 1..k : c[i].name = "bbr"}

\* What comes from outside keeps its shape.
Configured == Conf(cfg) /\ IsReq(client)

\* After loading, the merge is in force.
Loaded == phase # "load" => endpoints = MergePriorityConfig(cfg.main, cfg.files)

\* The chain is a sequence of middlewares,
ChainShape ==
    /\ Len(chain) \in Nat /\ DOMAIN chain = 1..Len(chain)
    /\ \A i \in 1..Len(chain) : IsMiddleware(chain[i])

\* A request is being served.
Serving == phase \in {"attempt", "in", "out", "deliver"}

\* and the configured one as soon as a request is served.
Placed ==
    /\ phase \in {"load", "route"} => sent = <<>>
    /\ Serving \/ sent # <<>> => ChainIsConfigured

\* On the way in and out the stack is the trail of this attempt,
Walk ==
    /\ phase = "in" => pos \in Nat /\ pos <= Len(chain) + 1 /\ Len(stack) = pos - 1
    /\ phase = "out" => pos \in Nat /\ pos <= Len(stack) /\ Len(stack) <= Len(chain)
    /\ phase \in {"in", "out"} =>
          IsSeq(stack) /\ Trail(Append(stack, req), chain, client, endpoint)

\* and everything that was sent went the whole way from the client's request,
\* over the same chain.
Sent ==
    /\ IsSeq(sent)
    /\ \A n \in DOMAIN sent :
          /\ IsSeq(sent[n].seen) /\ Len(sent[n].seen) = Len(chain)
          /\ Trail(Append(sent[n].seen, sent[n].req), chain, client, endpoint)

\* An attempt has an outcome.
Judged == phase \in {"deliver"} \/ (phase = "attempt" /\ attempt > 0)

\* The outcome is a response or an error.
Outcomes ==
    /\ attempt \in Nat
    /\ phase \in {"load", "route"} => attempt = 0
    /\ phase = "out" \/ Judged => Outcome(out)

\* The limiters hold one permit for each of them that the request is inside
\* of.
Counted ==
    /\ panicked \in BOOLEAN
    /\ panicked => phase = "done"
    /\ phase = "in" => permits = Cardinality(Limited(chain, pos - 1))
    /\ phase = "out" => permits = Cardinality(Limited(chain, pos))
    /\ phase \notin {"in", "out"} /\ ~panicked => permits = 0

\* Once the outcome is outside of a cors that allows the origin, it is an
\* error or names the origin.
Echoed ==
    \A i \in 1..Len(chain) :
       /\ Allowed(i) /\ Origin # <<>>
       /\ Judged \/ (phase = "out" /\ pos < i)
       => out.kind = "err" \/ Echoes(out, Origin)

\* An answer is a readable error, or a response with the origin.
Answered ==
    phase = "done" =>
       \/ ReadableError(answer, Origin)
       \/ /\ answer.kind # "error"
          /\ \A i \in 1..Len(chain) : Allowed(i) /\ Origin # <<>> => Echoes(answer, Origin)

\* All of it.
IInv == /\ Configured /\ Loaded /\ ChainShape /\ Placed /\ Walk /\ Sent /\ Outcomes
        /\ Counted /\ Echoed /\ Answered

-----------------------------------------------------------------------------
(* Sequences and trails. *)

\* A sequence is one over its own range.
LEMMA SeqOwnRange ==
    ASSUME NEW S, NEW s \in Seq(S)
    PROVE  IsSeq(s)
<1>1. Len(s) \in Nat /\ s \in [1..Len(s) -> S] /\ DOMAIN s = 1..Len(s)
  BY LenProperties
<1>2. s \in [1..Len(s) -> Range(s)]
  BY <1>1 DEF Range
<1> QED
  BY <1>1, <1>2, SeqDef DEF IsSeq

\* Append to a sequence of anything.
LEMMA AppendFacts ==
    ASSUME NEW s, IsSeq(s), NEW x
    PROVE  /\ Len(s) \in Nat /\ DOMAIN s = 1..Len(s)
           /\ IsSeq(Append(s, x))
           /\ Len(Append(s, x)) = Len(s) + 1
           /\ DOMAIN Append(s, x) = 1..(Len(s) + 1)
           /\ \A i \in 1..Len(s) : Append(s, x)[i] = s[i]
           /\ Append(s, x)[Len(s) + 1] = x
<1> DEFINE S == Range(s) \cup {x}
<1>1. s \in Seq(S)
  <2>1. Range(s) \subseteq S
    OBVIOUS
  <2> HIDE DEF S
  <2> QED
    BY <2>1, SeqMonotonic DEF IsSeq
<1>2. x \in S
  OBVIOUS
<1> HIDE DEF S
<1>3. Append(s, x) \in Seq(S)
  BY <1>1, <1>2
<1>4. Len(s) \in Nat /\ DOMAIN s = 1..Len(s)
  BY <1>1
<1>5. Len(Append(s, x)) = Len(s) + 1
  BY <1>1, <1>2
<1>6. DOMAIN Append(s, x) = 1..(Len(s) + 1)
  BY <1>3, <1>5
<1>7. Append(s, x)[Len(s) + 1] = x
  BY <1>1, <1>2
<1>8. \A i \in 1..Len(s) : Append(s, x)[i] = s[i]
  BY <1>1, <1>2
<1> QED
  BY <1>3, <1>4, <1>5, <1>6, <1>7, <1>8, SeqOwnRange

\* A trail begins with the request of the client.
LEMMA TrailStart ==
    ASSUME NEW c, NEW r, IsReq(r), NEW e
    PROVE  IsSeq(<<>>) /\ Len(<<>>) = 0 /\ Trail(Append(<<>>, r), c, r, e)
<1>1. IsSeq(<<>>) /\ Len(<<>>) = 0
  <2>1. <<>> \in Seq({})
    OBVIOUS
  <2> QED
    BY <2>1, SeqOwnRange
<1> DEFINE t == Append(<<>>, r)
<1>2. Len(t) = 1 /\ t[1] = r
  BY <1>1, AppendFacts
<1> HIDE DEF t
<1>3. \A i \in 1..Len(t) : t[i] = r
  BY <1>2
<1>4. \A i \in 1..(Len(t) - 1) : FALSE
  BY <1>2
<1>5. Trail(t, c, r, e)
  BY <1>2, <1>3, <1>4, Zenon DEF Trail
<1> QED
  BY <1>1, <1>5 DEF t

\* The requests and the hops of a trail.
LEMMA TrailEnd ==
    ASSUME NEW s, IsSeq(s), NEW r, NEW c, NEW f, NEW e, Trail(Append(s, r), c, f, e)
    PROVE  /\ IsReq(r)
           /\ \A i \in 1..Len(s) : IsReq(s[i])
           /\ \A i \in 1..Len(s) : Hop(c[i], s[i], Append(s, r)[i + 1], e)
<1> DEFINE t == Append(s, r)
<1>1. /\ Len(s) \in Nat /\ Len(t) = Len(s) + 1
      /\ \A i \in 1..Len(s) : t[i] = s[i]
      /\ t[Len(s) + 1] = r
  BY AppendFacts
<1>1a. /\ \A i \in 1..Len(t) : IsReq(t[i])
       /\ \A i \in 1..(Len(t) - 1) : Hop(c[i], t[i], t[i + 1], e)
  BY Zenon DEF Trail
<1> HIDE DEF t
<1>2. IsReq(r)
  <2>1. Len(s) + 1 \in 1..Len(t)
    BY <1>1
  <2> QED
    BY <2>1, <1>1, <1>1a, Zenon
<1>3. ASSUME NEW i \in 1..Len(s)
      PROVE  IsReq(s[i]) /\ Hop(c[i], s[i], t[i + 1], e)
  <2>1. i \in 1..Len(t) /\ i \in 1..(Len(t) - 1)
    BY <1>1
  <2> QED
    BY <2>1, <1>1, <1>1a, Zenon
<1> QED
  BY <1>2, <1>3, Zenon DEF t

\* A hop makes a trail longer.
LEMMA TrailGrows ==
    ASSUME NEW s, IsSeq(s), NEW r, NEW c, NEW f, NEW e, Trail(Append(s, r), c, f, e),
           NEW next, IsReq(next), Hop(c[Len(s) + 1], r, next, e)
    PROVE  Trail(Append(Append(s, r), next), c, f, e)
<1> DEFINE t == Append(s, r)
           u == Append(t, next)
<1>1. /\ Len(s) \in Nat /\ Len(t) = Len(s) + 1 /\ IsSeq(t)
      /\ t[Len(s) + 1] = r
  BY AppendFacts
<1>1a. /\ t[1] = f
       /\ \A i \in 1..Len(t) : IsReq(t[i])
       /\ \A i \in 1..(Len(t) - 1) : Hop(c[i], t[i], t[i + 1], e)
  BY Zenon DEF Trail
<1> HIDE DEF t
<1>2. /\ Len(u) = Len(t) + 1
      /\ \A i \in 1..Len(t) : u[i] = t[i]
      /\ u[Len(t) + 1] = next
  BY <1>1, AppendFacts
<1> HIDE DEF u
<1>3. u[1] = f
  <2>1. 1 \in 1..Len(t)
    BY <1>1
  <2> QED
    BY <2>1, <1>1a, <1>2, Zenon
<1>4. ASSUME NEW i \in 1..Len(u) PROVE IsReq(u[i])
  <2>1. i \in 1..Len(t) \/ i = Len(t) + 1
    BY <1>1, <1>2
  <2> QED
    BY <2>1, <1>1a, <1>2, Zenon
<1>5. ASSUME NEW i \in 1..(Len(u) - 1) PROVE Hop(c[i], u[i], u[i + 1], e)
  <2>1. CASE i = Len(t)
    <3>1. i = Len(s) + 1 /\ i \in 1..Len(t)
      BY <2>1, <1>1
    <3>2. u[i] = r /\ u[i + 1] = next
      BY <3>1, <2>1, <1>1, <1>2, Zenon
    <3> QED
      BY <3>1, <3>2, Zenon
  <2>2. CASE i # Len(t)
    <3>1. i \in 1..Len(t) /\ i + 1 \in 1..Len(t) /\ i \in 1..(Len(t) - 1)
      BY <2>2, <1>1, <1>2
    <3> QED
      BY <3>1, <1>1a, <1>2, Zenon
  <2> QED
    BY <2>1, <2>2
<1>6. Trail(u, c, f, e)
  BY <1>3, <1>4, <1>5, Zenon DEF Trail
<1> QED
  BY <1>6 DEF t, u

\* Two trails of the same length over the same chain end with the same
\* request: hops are deterministic.
LEMMA TrailsAgree ==
    ASSUME NEW t, NEW u, Len(t) \in Nat, Len(t) >= 1, Len(u) = Len(t), NEW c, NEW f, NEW e,
           Trail(t, c, f, e), Trail(u, c, f, e)
    PROVE  t[Len(t)] = u[Len(t)]
<1> DEFINE n == Len(t) - 1
           T == {i \in 0..n : t[i + 1] = u[i + 1]}
<1>1. n \in Nat /\ n + 1 = Len(t)
  OBVIOUS
<1>2. /\ t[1] = f /\ u[1] = f
      /\ \A i \in 1..n : Hop(c[i], t[i], t[i + 1], e)
      /\ \A i \in 1..n : Hop(c[i], u[i], u[i + 1], e)
  BY Zenon DEF Trail
<1> HIDE DEF n
<1>3. 0 \in T
  <2>1. 0 \in 0..n /\ 0 + 1 = 1
    BY <1>1
  <2> QED
    BY <2>1, <1>2
<1>4. ASSUME NEW i \in 0..(n - 1), i \in T PROVE i + 1 \in T
  <2>1. i + 1 \in 1..n /\ i + 1 \in 0..n
    BY <1>1
  <2>2. t[i + 1] = u[i + 1]
    BY <1>4
  <2>3. Hop(c[i + 1], t[i + 1], t[(i + 1) + 1], e) /\ Hop(c[i + 1], t[i + 1], u[(i + 1) + 1], e)
    BY <2>1, <2>2, <1>2, Zenon
  <2>4. t[(i + 1) + 1] = u[(i + 1) + 1]
    BY <2>3, HopDeterministic, Zenon
  <2> QED
    BY <2>1, <2>4
<1> HIDE DEF T
<1>5. \A i \in 0..n : i \in T
  BY <1>1, <1>3, <1>4, Induction
<1>6. n \in T
  BY <1>1, <1>5
<1> QED
  BY <1>1, <1>6 DEF T

\* A trail through calm middlewares keeps the origin.
LEMMA CalmOrigin ==
    ASSUME NEW t, Len(t) \in Nat, NEW c, NEW f, NEW e, Trail(t, c, f, e),
           NEW k \in 1..Len(t),
           \A i \in 1..(k - 1) : c[i].name \in Calm /\ IsMiddleware(c[i])
    PROVE  OriginOf(t[k].hdr) = OriginOf(f.hdr)
<1> DEFINE n == k - 1
           T == {i \in 0..n : OriginOf(t[i + 1].hdr) = OriginOf(f.hdr)}
<1>1. n \in Nat /\ n + 1 = k /\ \A i \in 1..n : i \in 1..Len(t) /\ i \in 1..(Len(t) - 1)
  OBVIOUS
<1>2. /\ t[1] = f
      /\ \A i \in 1..Len(t) : IsReq(t[i])
      /\ \A i \in 1..(Len(t) - 1) : Hop(c[i], t[i], t[i + 1], e)
  BY Zenon DEF Trail
<1>3. \A i \in 1..n : c[i].name \in Calm /\ IsMiddleware(c[i])
  OBVIOUS
<1> HIDE DEF n
<1>4. \A i \in 1..n : OriginOf(t[i + 1].hdr) = OriginOf(t[i].hdr)
  <2> SUFFICES ASSUME NEW i \in 1..n
               PROVE  OriginOf(t[i + 1].hdr) = OriginOf(t[i].hdr)
    OBVIOUS
  <2>1. IsReq(t[i]) /\ Hop(c[i], t[i], t[i + 1], e) /\ c[i].name \in Calm /\ IsMiddleware(c[i])
    BY <1>1, <1>2, <1>3, Zenon
  <2> QED
    BY <2>1, HopKeeps, Zenon
<1>5. 0 \in T
  <2>1. 0 \in 0..n /\ 0 + 1 = 1
    BY <1>1
  <2> QED
    BY <2>1, <1>2
<1>6. ASSUME NEW i \in 0..(n - 1), i \in T PROVE i + 1 \in T
  <2>1. i + 1 \in 1..n /\ i + 1 \in 0..n
    BY <1>1
  <2> QED
    BY <2>1, <1>4, <1>6
<1> HIDE DEF T
<1>7. \A i \in 0..n : i \in T
  BY <1>1, <1>5, <1>6, Induction
<1>8. n \in T
  BY <1>1, <1>7
<1> QED
  BY <1>1, <1>8 DEF T

-----------------------------------------------------------------------------
(* What Serve builds, and the count of limiters. *)

\* All the endpoints of a configuration.
EndpointSet(c) == (UNION {Range(c.files[i].endpoints) : i \in DOMAIN c.files}) \cup Range(c.main)

\* The merge neither invents endpoints nor loses their shape.
LEMMA EndpointsKept ==
    ASSUME NEW c, Conf(c)
    PROVE  /\ c.main \in Seq(EndpointSet(c)) /\ Items(c.files) \in Seq(EndpointSet(c))
           /\ MergePriorityConfig(c.main, c.files) \in Seq(EndpointSet(c))
           /\ \A e \in EndpointSet(c) : AreMiddlewares(e.middlewares)
<1> DEFINE E == EndpointSet(c)
<1>0. \A x : x \in E <=> (\E i \in DOMAIN c.files : x \in Range(c.files[i].endpoints))
        \/ x \in Range(c.main)
  <2> DEFINE r(i) == Range(c.files[i].endpoints)
             D == DOMAIN c.files
             M == Range(c.main)
  <2>1. E = (UNION {r(i) : i \in D}) \cup M
    BY DEF EndpointSet
  <2> HIDE DEF r, D, M, E
  <2>2. \A x : x \in (UNION {r(i) : i \in D}) \cup M <=> (\E i \in D : x \in r(i)) \/ x \in M
    OBVIOUS
  <2> QED
    BY <2>1, <2>2, Zenon DEF r, D, M
<1>1. /\ AreEndpoints(c.main) /\ IsSeq(c.files)
      /\ \A i \in DOMAIN c.files : AreEndpoints(c.files[i].endpoints)
  BY Zenon DEF Conf
<1>2. ASSUME NEW es, AreEndpoints(es), NEW x \in Range(es)
      PROVE  AreMiddlewares(x.middlewares)
  BY <1>2, Zenon DEF AreEndpoints, Range
<1>3. \A e \in E : AreMiddlewares(e.middlewares)
  <2> SUFFICES ASSUME NEW e \in E
               PROVE  AreMiddlewares(e.middlewares)
    OBVIOUS
  <2>1. CASE e \in Range(c.main)
    BY <2>1, <1>1, <1>2
  <2>2. CASE \E i \in DOMAIN c.files : e \in Range(c.files[i].endpoints)
    BY <2>2, <1>1, <1>2
  <2> QED
    BY <2>1, <2>2, <1>0, Zenon
<1>4. Range(c.main) \subseteq E /\ \A i \in DOMAIN c.files : Range(c.files[i].endpoints) \subseteq E
  BY <1>0, Zenon
<1> HIDE DEF E
<1>5. ASSUME NEW es, AreEndpoints(es), Range(es) \subseteq E
      PROVE  es \in Seq(E)
  BY <1>5, SeqMonotonic DEF AreEndpoints
<1>6. c.main \in Seq(E)
  BY <1>1, <1>4, <1>5, Zenon
<1>7. Len(c.files) \in Nat /\ DOMAIN c.files = 1..Len(c.files)
  BY <1>1 DEF IsSeq
<1>8. \A i \in 1..Len(c.files) : c.files[i].endpoints \in Seq(E)
  BY <1>1, <1>4, <1>5, <1>7, Zenon
<1>9. Items(c.files) \in Seq(E)
  BY <1>7, <1>8, ItemsType
<1> DEFINE items == Items(c.files)
<1> HIDE DEF items
<1>10. Merged(c.main, items) \in Seq(E)
  <2>1. items \in Seq(E)
    BY <1>9 DEF items
  <2>2. MergedFrom(c.main, items, E)
    BY <1>6, <2>1, MergedStep
  <2>3. PICK f \in [0..Len(items) -> Seq(E)] : Merged(c.main, items) = f[Len(items)]
    BY <2>2 DEF MergedFrom
  <2>4. Len(items) \in 0..Len(items)
    BY <2>1
  <2> QED
    BY <2>3, <2>4
<1> QED
  BY <1>3, <1>6, <1>9, <1>10 DEF MergePriorityConfig, items, E

\* ChainIsConfigured, for any chain.
Configures(g, e, c) ==
    LET all      == g \o e.middlewares
        place(j) == Cardinality({k \in 1..j : all[k].name \in Registered})
    IN  /\ Len(c) = place(Len(all))
        /\ \A j \in DOMAIN all :
              all[j].name \in Registered =>
                 c[place(j)] = IF all[j].required THEN all[j] ELSE Create(all[j])

\* A required middleware that does not fail its endpoint is created as it is.
LEMMA RequiredIsCreated ==
    ASSUME NEW g, NEW l, AreMiddlewares(g), AreMiddlewares(l), ~ChainFails(g), ~ChainFails(l)
    PROVE  LET all == g \o l
           IN  \A j \in 1..Len(all) : all[j].name \in Registered =>
                  Create(all[j]) = IF all[j].required THEN all[j] ELSE Create(all[j])
<1> DEFINE all == g \o l
<1>1. /\ Len(g) \in Nat /\ DOMAIN g = 1..Len(g)
      /\ Len(l) \in Nat /\ DOMAIN l = 1..Len(l)
      /\ Len(all) = Len(g) + Len(l)
      /\ \A j \in 1..Len(all) : all[j] = IF j <= Len(g) THEN g[j] ELSE l[j - Len(g)]
  BY DEF AreMiddlewares
<1>2. ASSUME NEW j \in 1..Len(all), all[j].name \in Registered, all[j].required
      PROVE  Create(all[j]) = all[j]
  <2>1. (\E i \in DOMAIN g : all[j] = g[i]) \/ (\E i \in DOMAIN l : all[j] = l[i])
    <3>1. CASE j <= Len(g)
      <4>1. j \in DOMAIN g /\ all[j] = g[j]
        BY <1>1, <3>1
      <4> QED
        BY <4>1
    <3>2. CASE ~(j <= Len(g))
      <4>1. j - Len(g) \in DOMAIN l /\ all[j] = l[j - Len(g)]
        BY <1>1, <3>2
      <4> QED
        BY <4>1
    <3> QED
      BY <3>1, <3>2
  <2> HIDE DEF all
  <2>2. ~CreateFails(all[j])
    BY <2>1, <1>2, Zenon DEF ChainFails
  <2> QED
    BY <2>2, Zenon DEF Create
<1> HIDE DEF all
<1> SUFFICES ASSUME NEW j \in 1..Len(all), all[j].name \in Registered
             PROVE  Create(all[j]) = IF all[j].required THEN all[j] ELSE Create(all[j])
  BY Zenon DEF all
<1>3. CASE all[j].required
  BY <1>2, <1>3, Zenon
<1>4. CASE ~all[j].required
  BY <1>4, Zenon
<1> QED
  BY <1>3, <1>4, Zenon

\* The empty middleware is one too.
LEMMA CreatedIsMiddleware ==
    ASSUME NEW m, IsMiddleware(m)
    PROVE  IsMiddleware(Create(m))
<1>1. IsMiddleware(EmptyMiddleware(m))
  BY DEF EmptyMiddleware, IsMiddleware
<1> QED
  BY <1>1, Zenon DEF Create

\* What buildEndpoint builds is the configured chain.
LEMMA ChainBuilt ==
    ASSUME NEW g, NEW e, AreMiddlewares(g), AreMiddlewares(e.middlewares),
           ~ChainFails(g), ~ChainFails(e.middlewares)
    PROVE  LET c == BuildMiddleware(g, BuildMiddleware(e.middlewares, <<>>))
           IN  /\ Len(c) \in Nat /\ DOMAIN c = 1..Len(c)
               /\ \A i \in 1..Len(c) : IsMiddleware(c[i])
               /\ Configures(g, e, c)
<1> DEFINE all == g \o e.middlewares
           c   == BuildMiddleware(g, BuildMiddleware(e.middlewares, <<>>))
           S   == {Create(all[j]) : j \in 1..Len(all)}
<1>1. /\ Len(all) \in Nat /\ DOMAIN all = 1..Len(all)
      /\ c \in Seq(S)
      /\ \A j \in 1..Len(all) : IsMiddleware(all[j])
      /\ Len(c) = Cardinality(Known(all, 1, Len(all)))
      /\ \A j \in 1..Len(all) : all[j].name \in Registered =>
            c[Cardinality(Known(all, 1, j))] = Create(all[j])
  <2> DEFINE ms == e.middlewares
  <2>1. AreMiddlewares(ms)
    OBVIOUS
  <2> HIDE DEF ms
  <2>2. LET al == g \o ms
            d  == BuildMiddleware(g, BuildMiddleware(ms, <<>>))
        IN  /\ Len(al) \in Nat /\ DOMAIN al = 1..Len(al)
            /\ d \in Seq({Create(al[j]) : j \in 1..Len(al)})
            /\ \A j \in 1..Len(al) : IsMiddleware(al[j])
            /\ Len(d) = Cardinality(Known(al, 1, Len(al)))
            /\ \A j \in 1..Len(al) : al[j].name \in Registered =>
                  d[Cardinality(Known(al, 1, j))] = Create(al[j])
    BY <2>1, ChainInOrder, Zenon
  <2> QED
    BY <2>2, Zenon DEF ms
<1>2. \A x \in S : IsMiddleware(x)
  BY <1>1, CreatedIsMiddleware, Zenon
<1>5. \A j \in 1..Len(all) : all[j].name \in Registered =>
         Create(all[j]) = IF all[j].required THEN all[j] ELSE Create(all[j])
  <2> DEFINE ms == e.middlewares
  <2>1. AreMiddlewares(ms) /\ ~ChainFails(ms)
    OBVIOUS
  <2> HIDE DEF ms
  <2>2. LET al == g \o ms
        IN  \A j \in 1..Len(al) : al[j].name \in Registered =>
               Create(al[j]) = IF al[j].required THEN al[j] ELSE Create(al[j])
    BY <2>1, RequiredIsCreated, Zenon
  <2> QED
    BY <2>2, Zenon DEF ms
<1> HIDE DEF all, c, S
<1>3. Len(c) \in Nat /\ DOMAIN c = 1..Len(c) /\ \A i \in 1..Len(c) : c[i] \in S
  BY <1>1
<1>4. Configures(g, e, c)
  <2>1. \A j \in DOMAIN all : all[j].name \in Registered =>
           c[Cardinality(Known(all, 1, j))] = IF all[j].required THEN all[j] ELSE Create(all[j])
    BY <1>1, <1>5, Zenon
  <2> QED
    BY <1>1, <2>1, Zenon DEF Configures, Known, all
<1> QED
  BY <1>2, <1>3, <1>4, Zenon DEF c

\* Going past a limiter adds one to the count, past another middleware none.
LEMMA CountLimited ==
    ASSUME NEW c, NEW k \in Nat
    PROVE  /\ Cardinality(Limited(c, 0)) = 0
           /\ Cardinality(Limited(c, k)) \in Nat
           /\ c[k + 1].name = "bbr" =>
                 Cardinality(Limited(c, k + 1)) = Cardinality(Limited(c, k)) + 1
           /\ c[k + 1].name # "bbr" =>
                 Cardinality(Limited(c, k + 1)) = Cardinality(Limited(c, k))
<1>1. IsFiniteSet(Limited(c, k)) /\ Cardinality(Limited(c, k)) \in Nat
  <2>1. Limited(c, k) \in SUBSET (1..k)
    BY Zenon DEF Limited
  <2>2. 1 \in Int /\ k \in Int
    OBVIOUS
  <2>3. IsFiniteSet(1..k)
    BY <2>2, FS_Interval, Zenon
  <2>4. IsFiniteSet(Limited(c, k))
    BY <2>1, <2>3, FS_Subset, Zenon
  <2> QED
    BY <2>4, FS_CardinalityType, Zenon
<1>2. Cardinality(Limited(c, 0)) = 0
  <2>1. Limited(c, 0) = {}
    BY DEF Limited
  <2> QED
    BY <2>1, FS_EmptySet
<1>3. k + 1 \notin Limited(c, k)
  BY DEF Limited
<1>4. c[k + 1].name = "bbr" => Limited(c, k + 1) = Limited(c, k) \cup {k + 1}
  BY DEF Limited
<1>5. c[k + 1].name # "bbr" => Limited(c, k + 1) = Limited(c, k)
  BY DEF Limited
<1>6. Cardinality(Limited(c, k) \cup {k + 1}) = Cardinality(Limited(c, k)) + 1
  BY <1>1, <1>3, FS_AddElement
<1> QED
  BY <1>1, <1>2, <1>4, <1>5, <1>6

-----------------------------------------------------------------------------
(* The kinds of steps, and what each part of the invariant needs. *)

\* Every step is of one of these kinds.  The fourteen middleware actions are
\* reduced to the three shapes they share.
Kinds ==
    \/ Load \/ Refuse \/ Serve \/ StartAttempt \/ StopRetrying \/ ContextDone
    \/ JudgeAttempt \/ Deliver
    \/ (Inside /\ GoesIn) \/ (Inside /\ TurnsBack) \/ RoundTrip
    \/ (Outside /\ GoesOut) \/ (Outside /\ Panic)
    \/ UNCHANGED vars

\* Every step of the specification is of one of these kinds.
LEMMA StepKinds ==
    ASSUME Outcomes, [Next]_vars
    PROVE  Kinds
<1>1. CASE Enter
  BY <1>1, EnterShape, Zenon DEF Kinds
<1>2. CASE Leave
  <2>1. phase = "out"
    BY <1>2, Zenon DEF Leave, LeavePlain, LeaveCors, LeaveBbr, LeaveRewrite, LeaveTranscoder,
       Leaving
  <2>2. Outcome(out)
    BY <2>1, Zenon DEF Outcomes
  <2> QED
    BY <1>2, <2>2, LeaveShape, Zenon DEF Kinds
<1>3. CASE Terminated \/ UNCHANGED vars
  BY <1>3, Zenon DEF Kinds, Terminated
<1> QED
  BY <1>1, <1>2, <1>3, Zenon DEF Next, Kinds

\* Which kinds change the configuration, the route and the history.
LEMMA Frame ==
    ASSUME Kinds
    PROVE  /\ cfg' = cfg
           /\ Serve \/ (client' = client /\ endpoint' = endpoint /\ chain' = chain)
           /\ Load \/ endpoints' = endpoints
           /\ RoundTrip \/ sent' = sent
<1>1. CASE Load
  BY <1>1 DEF Load, progress
<1>2. CASE Refuse
  BY <1>2 DEF Refuse, progress, route
<1>3. CASE Serve
  BY <1>3 DEF Serve, progress
<1>4. CASE StartAttempt
  BY <1>4 DEF StartAttempt, route
<1>5. CASE StopRetrying
  BY <1>5 DEF StopRetrying, route, progress
<1>6. CASE ContextDone
  BY <1>6 DEF ContextDone, route, progress
<1>7. CASE JudgeAttempt
  BY <1>7 DEF JudgeAttempt, route
<1>8. CASE Deliver
  BY <1>8 DEF Deliver, route, progress
<1>9. CASE Inside /\ GoesIn
  BY <1>9 DEF GoesIn, PassOn, route
<1>10. CASE Inside /\ TurnsBack
  BY <1>10 DEF TurnsBack, Return, route
<1>11. CASE RoundTrip
  BY <1>11 DEF RoundTrip, route
<1>12. CASE Outside /\ GoesOut
  BY <1>12 DEF GoesOut, Hand, route
<1>13. CASE Outside /\ Panic
  BY <1>13 DEF Panic, route, progress
<1>14. CASE UNCHANGED vars
  BY <1>14 DEF vars
<1> QED
  BY <1>1, <1>2, <1>3, <1>4, <1>5, <1>6, <1>7, <1>8, <1>9, <1>10, <1>11, <1>12, <1>13, <1>14,
     Zenon DEF Kinds

\* Where each phase can be entered from.
LEMMA PhaseFrame ==
    ASSUME Kinds
    PROVE  /\ phase = "load" => phase' \in {"load", "route"}
           /\ phase' = "load" => phase = "load"
           /\ phase' = "route" => Load \/ phase = "route"
           /\ phase = "done" => UNCHANGED vars
           /\ phase' \in {"attempt", "in", "out", "deliver"} => Serve \/ Serving
           /\ Serve => phase = "route" /\ phase' = "attempt"
           /\ Load => phase = "load" /\ phase' = "route"
           /\ RoundTrip => phase = "in" /\ phase' = "out"
<1>0. ASSUME UNCHANGED vars
      PROVE  phase' = phase
  BY <1>0 DEF vars
<1>1. CASE Load
  BY <1>1, Zenon DEF Load, Serve, RoundTrip
<1>2. CASE Refuse
  BY <1>2, Zenon DEF Refuse, Finish, Load, Serve, RoundTrip
<1>3. CASE Serve
  BY <1>3, Zenon DEF Serve, Load, RoundTrip
<1>4. CASE StartAttempt
  BY <1>4, Zenon DEF StartAttempt, Load, Serve, RoundTrip, Serving
<1>5. CASE StopRetrying
  BY <1>5, Zenon DEF StopRetrying, Load, Serve, RoundTrip, Serving
<1>6. CASE ContextDone
  BY <1>6, Zenon DEF ContextDone, Load, Serve, RoundTrip, Serving
<1>7. CASE JudgeAttempt
  <2>1. phase = "out" /\ phase' \in {"deliver", "attempt"}
    BY <1>7, Zenon DEF JudgeAttempt
  <2> QED
    BY <2>1, Zenon DEF Load, Serve, RoundTrip, Serving
<1>8. CASE Deliver
  BY <1>8, Zenon DEF Deliver, Finish, Load, Serve, RoundTrip, Serving
<1>9. CASE Inside /\ GoesIn
  <2>1. phase = "in" /\ phase' = "in"
    BY <1>9 DEF GoesIn, PassOn, Inside
  <2> QED
    BY <2>1, Zenon DEF Load, Serve, RoundTrip, Serving
<1>10. CASE Inside /\ TurnsBack
  <2>1. phase = "in" /\ phase' = "out"
    BY <1>10, Zenon DEF TurnsBack, Return, Inside
  <2> QED
    BY <2>1, Zenon DEF Load, Serve, RoundTrip, Serving
<1>11. CASE RoundTrip
  BY <1>11, Zenon DEF RoundTrip, Load, Serve, Serving
<1>12. CASE Outside /\ GoesOut
  <2>1. phase = "out" /\ phase' = "out"
    BY <1>12 DEF GoesOut, Hand, Outside
  <2> QED
    BY <2>1, Zenon DEF Load, Serve, RoundTrip, Serving
<1>13. CASE Outside /\ Panic
  BY <1>13, Zenon DEF Panic, Finish, Outside, Load, Serve, RoundTrip, Serving
<1>14. CASE UNCHANGED vars
  BY <1>14, <1>0, Zenon DEF Load, Serve, RoundTrip, Serving
<1> QED
  BY <1>1, <1>2, <1>3, <1>4, <1>5, <1>6, <1>7, <1>8, <1>9, <1>10, <1>11, <1>12, <1>13, <1>14,
     Zenon DEF Kinds

\* The configuration is never written; Serve only adds X-Forwarded-For to the
\* request.
LEMMA ConfiguredStep ==
    ASSUME Configured, Kinds
    PROVE  Configured'
<1>1. cfg' = cfg /\ Conf(cfg) /\ IsReq(client)
  BY Frame, Zenon DEF Configured
<1>2. IsReq(client')
  <2>1. CASE Serve
    <3>1. PICK h : client' = [client EXCEPT !.hdr = h]
      BY <2>1, Zenon DEF Serve, SetXFFHeader
    <3> QED
      BY <3>1, <1>1, WithHeader
  <2>2. CASE client' = client
    BY <2>2, <1>1
  <2> QED
    BY <2>1, <2>2, Frame, Zenon
<1> QED
  BY <1>1, <1>2 DEF Configured

\* The endpoints are written by Load alone.
LEMMA LoadedStep ==
    ASSUME Loaded, Kinds
    PROVE  Loaded'
<1>1. CASE Load
  BY <1>1, Zenon DEF Load, Loaded
<1>2. CASE ~Load
  <2>1. cfg' = cfg /\ endpoints' = endpoints /\ (phase = "load" => phase' = "load")
    BY <1>2, Frame, PhaseFrame, Zenon DEF Kinds
  <2> QED
    BY <2>1, Zenon DEF Loaded
<1> QED
  BY <1>1, <1>2

\* Serve installs the configured chain of one of the merged endpoints.
LEMMA ServedChain ==
    ASSUME Configured, Loaded, Serve
    PROVE  /\ Len(chain') \in Nat /\ DOMAIN chain' = 1..Len(chain')
           /\ \A i \in 1..Len(chain') : IsMiddleware(chain'[i])
           /\ Configures(cfg.global, endpoint', chain')
<1>1. endpoints \in Seq(EndpointSet(cfg))
        /\ \A e \in EndpointSet(cfg) : AreMiddlewares(e.middlewares)
  <2>1. Conf(cfg) /\ endpoints = MergePriorityConfig(cfg.main, cfg.files)
    <3>1. phase # "load"
      BY DEF Serve
    <3> QED
      BY <3>1, Zenon DEF Configured, Loaded
  <2> QED
    BY <2>1, EndpointsKept
<1>2. endpoint' \in EndpointSet(cfg)
  <2>1. PICK i \in DOMAIN endpoints : endpoint' = endpoints[i]
    BY Zenon DEF Serve
  <2> QED
    BY <2>1, <1>1
<1>3. AreMiddlewares(endpoint'.middlewares) /\ AreMiddlewares(cfg.global)
  BY <1>1, <1>2, Zenon DEF Configured, Conf
<1>4. chain' = BuildMiddleware(cfg.global, BuildMiddleware(endpoint'.middlewares, <<>>))
  BY Zenon DEF Serve, ChainOf
<1>5. ~ChainFails(cfg.global) /\ ~ChainFails(endpoint'.middlewares)
  BY Zenon DEF Serve, Serves, Routes, Builds
<1> QED
  BY <1>3, <1>4, <1>5, ChainBuilt

\* The chain is written by Serve alone.
LEMMA ChainShapeStep ==
    ASSUME Configured, Loaded, ChainShape, Kinds
    PROVE  ChainShape'
<1>1. CASE Serve
  BY <1>1, ServedChain, Zenon DEF ChainShape
<1>2. CASE chain' = chain
  BY <1>2 DEF ChainShape
<1> QED
  BY <1>1, <1>2, Frame, Zenon

\* Nothing is sent before the chain is there, and neither changes after.
LEMMA PlacedStep ==
    ASSUME Configured, Loaded, Placed, Kinds
    PROVE  Placed'
<1>1. ChainIsConfigured <=> Configures(cfg.global, endpoint, chain)
  BY Zenon DEF ChainIsConfigured, Configures
<1>2. ChainIsConfigured' <=> Configures(cfg'.global, endpoint', chain')
  BY Zenon DEF ChainIsConfigured, Configures
<1>3. CASE Serve
  <2>1. ChainIsConfigured'
    BY <1>3, <1>2, ServedChain, Frame, Zenon
  <2>2. phase' \notin {"load", "route"}
    BY <1>3 DEF Serve
  <2> QED
    BY <2>1, <2>2, Zenon DEF Placed
<1>4. CASE ~Serve
  <2>1. ChainIsConfigured' <=> ChainIsConfigured
    BY <1>4, <1>1, <1>2, Frame
  <2>2. CASE RoundTrip
    BY <2>1, <2>2, PhaseFrame, Zenon DEF Placed, Serving
  <2>3. CASE sent' = sent
    <3>1. phase' \in {"load", "route"} => phase \in {"load", "route"}
      BY PhaseFrame, Zenon
    <3>2. Serving' => Serving
      BY <1>4, PhaseFrame, Zenon DEF Serving
    <3> QED
      BY <2>1, <2>3, <3>1, <3>2, Zenon DEF Placed
  <2> QED
    BY <2>2, <2>3, Frame, Zenon
<1> QED
  BY <1>3, <1>4

\* Every middleware turns an outcome into an outcome.
LEMMA OutcomesStep ==
    ASSUME Outcomes, Kinds
    PROVE  Outcomes'
<1>0. attempt \in Nat /\ (phase \in {"load", "route"} => attempt = 0)
      /\ (phase = "out" \/ Judged => Outcome(out))
  BY Zenon DEF Outcomes
<1>1. CASE Load \/ Refuse \/ Serve
  <2>1. /\ attempt' = attempt /\ phase \in {"load", "route"}
        /\ phase' \in {"route", "done", "attempt"}
    BY <1>1 DEF Load, Refuse, Serve, progress, Finish
  <2>2. attempt = 0 /\ ~(attempt' > 0)
    BY <2>1, <1>0
  <2> QED
    BY <2>1, <2>2, <1>0, Zenon DEF Outcomes, Judged
<1>2. CASE StartAttempt \/ Deliver \/ (Inside /\ GoesIn) \/ (Outside /\ Panic)
  <2>1. attempt' = attempt /\ phase' \in {"in", "done"}
    BY <1>2 DEF StartAttempt, Deliver, GoesIn, PassOn, Inside, Panic, progress, Finish
  <2> QED
    BY <2>1, <1>0, Zenon DEF Outcomes, Judged
<1>3. CASE StopRetrying
  <2>1. attempt' = attempt /\ out' = out /\ phase' = "deliver" /\ Judged
    BY <1>3 DEF StopRetrying, progress, Judged
  <2> QED
    BY <2>1, <1>0, Zenon DEF Outcomes, Judged
<1>4. CASE ContextDone
  <2>1. attempt' = attempt /\ phase' = "deliver"
    BY <1>4 DEF ContextDone, progress
  <2>2. PICK why \in {"canceled", "deadline"} : out' = Err(PlainError(why))
    BY <1>4, Zenon DEF ContextDone
  <2>3. why # "kratos"
    OBVIOUS
  <2>4. Outcome(out')
    BY <2>2, <2>3, OwnErrors, ErrIs, Zenon
  <2> QED
    BY <2>1, <2>4, <1>0, Zenon DEF Outcomes, Judged
<1>5. CASE JudgeAttempt
  <2>1. attempt' = attempt + 1 /\ out' = out /\ phase = "out"
    BY <1>5 DEF JudgeAttempt
  <2>1a. phase' \in {"deliver", "attempt"}
    BY <1>5, Zenon DEF JudgeAttempt
  <2>2. attempt' \in Nat
    BY <2>1, <1>0
  <2> QED
    BY <2>1, <2>1a, <2>2, <1>0, Zenon DEF Outcomes, Judged
<1>6. CASE Inside /\ TurnsBack
  <2>1. PICK o : Return(o) /\ Turned(here, req, o)
    BY <1>6, Zenon DEF TurnsBack
  <2>2. attempt' = attempt /\ phase' = "out" /\ out' = o
    BY <2>1 DEF Return
  <2>3. Outcome(o)
    BY <2>1, Zenon DEF Turned
  <2> QED
    BY <2>2, <2>3, <1>0, Zenon DEF Outcomes, Judged
<1>7. CASE RoundTrip
  <2>1. attempt' = attempt /\ phase' = "out"
    BY <1>7 DEF RoundTrip
  <2>2. PICK o \in Upstream : out' = o
    BY <1>7, Zenon DEF RoundTrip
  <2>3. Outcome(o)
    BY <2>2, UpstreamAssumption, Zenon DEF Outcome
  <2> QED
    BY <2>1, <2>2, <2>3, <1>0, Zenon DEF Outcomes, Judged
<1>8. CASE Outside /\ GoesOut
  <2>1. PICK o : Hand(o) /\ Handed(here, stack[pos], out, o)
    BY <1>8, Zenon DEF GoesOut
  <2>2. attempt' = attempt /\ phase' = "out" /\ out' = o
    BY <2>1, <1>8 DEF Hand, Outside
  <2>3. Outcome(o)
    BY <2>1, Zenon DEF Handed
  <2> QED
    BY <2>2, <2>3, <1>0, Zenon DEF Outcomes, Judged
<1>9. CASE UNCHANGED vars
  BY <1>9 DEF vars, Outcomes, Judged
<1> QED
  BY <1>1, <1>2, <1>3, <1>4, <1>5, <1>6, <1>7, <1>8, <1>9, Zenon DEF Kinds

\* A hop lengthens the trail; a fresh attempt starts again from the request
\* of the client (the clone of proxy.go:301).
LEMMA WalkStep ==
    ASSUME Configured, ChainShape, Walk, Kinds
    PROVE  Walk'
<1>1. CASE StartAttempt
  <2>1. /\ req' = client /\ pos' = 1 /\ stack' = <<>> /\ phase' = "in"
        /\ client' = client /\ chain' = chain /\ endpoint' = endpoint
    BY <1>1 DEF StartAttempt, route
  <2>2. IsSeq(<<>>) /\ Len(<<>>) = 0 /\ Trail(Append(<<>>, client), chain, client, endpoint)
    BY TrailStart, Zenon DEF Configured
  <2>3. IsSeq(stack') /\ Len(stack') = 0 /\ Trail(Append(stack', req'), chain', client', endpoint')
    BY <2>1, <2>2
  <2>4. pos' \in Nat /\ pos' <= Len(chain') + 1 /\ Len(stack') = pos' - 1
    <3>1. Len(chain') \in Nat
      BY <2>1 DEF ChainShape
    <3> QED
      BY <3>1, <2>1, <2>3
  <2> QED
    BY <2>1, <2>3, <2>4, Zenon DEF Walk
<1>2. CASE Inside /\ GoesIn
  <2>1. PICK r : PassOn(r) /\ Hop(here, req, r, endpoint)
    BY <1>2, Zenon DEF GoesIn
  <2>2. /\ req' = r /\ stack' = Append(stack, req) /\ pos' = pos + 1 /\ phase' = "in"
        /\ client' = client /\ chain' = chain /\ endpoint' = endpoint
    BY <2>1, <1>2 DEF PassOn, route, Inside
  <2>3. /\ phase = "in" /\ pos <= Len(chain)
        /\ pos \in Nat /\ Len(stack) = pos - 1
        /\ IsSeq(stack) /\ Trail(Append(stack, req), chain, client, endpoint)
    BY <1>2, Zenon DEF Inside, Walk
  <2>4. Len(stack) \in Nat /\ IsSeq(stack') /\ Len(stack') = Len(stack) + 1
    BY <2>2, <2>3, AppendFacts
  <2>5. Len(chain) \in Nat /\ pos = Len(stack) + 1 /\ pos \in 1..Len(chain)
    BY <2>3, <2>4 DEF ChainShape
  <2>6. IsMiddleware(here) /\ here = chain[Len(stack) + 1]
    BY <2>5, Zenon DEF ChainShape, here
  <2>7. IsReq(req)
    BY <2>3, TrailEnd, Zenon
  <2>8. IsReq(r) /\ Hop(chain[Len(stack) + 1], req, r, endpoint)
    BY <2>1, <2>6, <2>7, HopKeeps, Zenon
  <2>9. Trail(Append(Append(stack, req), r), chain, client, endpoint)
    BY <2>3, <2>8, TrailGrows, Zenon
  <2>10. Trail(Append(stack', req'), chain', client', endpoint')
    BY <2>2, <2>9
  <2>11. pos' \in Nat /\ pos' <= Len(chain') + 1 /\ Len(stack') = pos' - 1
    BY <2>2, <2>3, <2>4, <2>5
  <2> QED
    BY <2>2, <2>4, <2>10, <2>11, Zenon DEF Walk
<1>3. CASE Inside /\ TurnsBack
  <2>1. PICK o : Return(o)
    BY <1>3, Zenon DEF TurnsBack
  <2>2. /\ req' = req /\ stack' = stack /\ pos' = pos - 1 /\ phase' = "out"
        /\ client' = client /\ chain' = chain /\ endpoint' = endpoint
    BY <2>1 DEF Return, route
  <2>3. /\ pos <= Len(chain)
        /\ pos \in Nat /\ Len(stack) = pos - 1
        /\ IsSeq(stack) /\ Trail(Append(stack, req), chain, client, endpoint)
    BY <1>3, Zenon DEF Inside, Walk
  <2>4. Len(stack) \in Nat
    BY <2>3, AppendFacts, Zenon
  <2>5. pos' \in Nat /\ pos' <= Len(stack') /\ Len(stack') <= Len(chain')
    <3>1. Len(chain) \in Nat
      BY DEF ChainShape
    <3> QED
      BY <3>1, <2>2, <2>3, <2>4
  <2>6. IsSeq(stack') /\ Trail(Append(stack', req'), chain', client', endpoint')
    BY <2>2, <2>3
  <2> QED
    BY <2>2, <2>5, <2>6, Zenon DEF Walk
<1>4. CASE RoundTrip
  <2>2. /\ req' = req /\ stack' = stack /\ pos' = Len(chain) /\ phase' = "out"
        /\ client' = client /\ chain' = chain /\ endpoint' = endpoint
        /\ phase = "in" /\ pos = Len(chain) + 1
    BY <1>4 DEF RoundTrip, route
  <2>3. /\ pos \in Nat /\ Len(stack) = pos - 1
        /\ IsSeq(stack) /\ Trail(Append(stack, req), chain, client, endpoint)
    BY <2>2, Zenon DEF Walk
  <2>5. pos' \in Nat /\ pos' <= Len(stack') /\ Len(stack') <= Len(chain')
    <3>1. Len(chain) \in Nat
      BY DEF ChainShape
    <3> QED
      BY <3>1, <2>2, <2>3
  <2>6. IsSeq(stack') /\ Trail(Append(stack', req'), chain', client', endpoint')
    BY <2>2, <2>3
  <2> QED
    BY <2>2, <2>5, <2>6, Zenon DEF Walk
<1>5. CASE Outside /\ GoesOut
  <2>1. PICK o : Hand(o)
    BY <1>5, Zenon DEF GoesOut
  <2>2. /\ req' = req /\ stack' = stack /\ pos' = pos - 1 /\ phase' = "out"
        /\ client' = client /\ chain' = chain /\ endpoint' = endpoint
        /\ phase = "out" /\ pos > 0
    BY <2>1, <1>5 DEF Hand, route, Outside
  <2>3. /\ pos \in Nat /\ pos <= Len(stack) /\ Len(stack) <= Len(chain)
        /\ IsSeq(stack) /\ Trail(Append(stack, req), chain, client, endpoint)
    BY <2>2, Zenon DEF Walk
  <2>4. Len(stack) \in Nat
    BY <2>3, AppendFacts, Zenon
  <2>5. pos' \in Nat /\ pos' <= Len(stack') /\ Len(stack') <= Len(chain')
    BY <2>2, <2>3, <2>4
  <2>6. IsSeq(stack') /\ Trail(Append(stack', req'), chain', client', endpoint')
    BY <2>2, <2>3
  <2> QED
    BY <2>2, <2>5, <2>6, Zenon DEF Walk
<1>6. CASE UNCHANGED vars
  BY <1>6 DEF vars, Walk
<1>7. CASE phase' \notin {"in", "out"}
  BY <1>7, Zenon DEF Walk
<1>8. ASSUME Load \/ Refuse \/ Serve \/ StopRetrying \/ ContextDone \/ JudgeAttempt \/ Deliver
               \/ (Outside /\ Panic)
      PROVE  phase' \notin {"in", "out"}
  <2>1. CASE JudgeAttempt
    BY <2>1, Zenon DEF JudgeAttempt
  <2>2. CASE Load \/ Refuse \/ Serve \/ StopRetrying
    BY <2>2, Zenon DEF Load, Refuse, Serve, StopRetrying, Finish
  <2>3. CASE ContextDone \/ Deliver \/ Panic
    BY <2>3, Zenon DEF ContextDone, Deliver, Panic, Finish
  <2> QED
    BY <1>8, <2>1, <2>2, <2>3, Zenon
<1> QED
  BY <1>1, <1>2, <1>3, <1>4, <1>5, <1>6, <1>7, <1>8, Zenon DEF Kinds

\* RoundTrip records a trail that has the length of the chain.
LEMMA SentStep ==
    ASSUME ChainShape, Walk, Placed, Sent, Kinds
    PROVE  Sent'
<1>1. CASE RoundTrip
  <2> DEFINE x == [req |-> req, seen |-> stack]
  <2>1. /\ sent' = Append(sent, x) /\ phase = "in" /\ pos = Len(chain) + 1
        /\ client' = client /\ chain' = chain /\ endpoint' = endpoint
    BY <1>1 DEF RoundTrip, route
  <2>2. /\ pos \in Nat /\ Len(stack) = pos - 1
        /\ IsSeq(stack) /\ Trail(Append(stack, req), chain, client, endpoint)
    BY <2>1, Zenon DEF Walk
  <2>3. Len(stack) = Len(chain)
    <3>1. Len(chain) \in Nat
      BY DEF ChainShape
    <3> QED
      BY <3>1, <2>1, <2>2
  <2>4. x.req = req /\ x.seen = stack
    OBVIOUS
  <2> HIDE DEF x
  <2>5. /\ Len(sent) \in Nat /\ DOMAIN sent = 1..Len(sent) /\ IsSeq(sent')
        /\ DOMAIN sent' = 1..(Len(sent) + 1)
        /\ \A i \in 1..Len(sent) : sent'[i] = sent[i]
        /\ sent'[Len(sent) + 1] = x
    BY <2>1, AppendFacts DEF Sent
  <2>6. ASSUME NEW n \in DOMAIN sent'
        PROVE  /\ IsSeq(sent'[n].seen) /\ Len(sent'[n].seen) = Len(chain')
               /\ Trail(Append(sent'[n].seen, sent'[n].req), chain', client', endpoint')
    <3>1. CASE n = Len(sent) + 1
      <4>1. sent'[n].req = req /\ sent'[n].seen = stack
        BY <3>1, <2>4, <2>5, Zenon
      <4> QED
        BY <4>1, <2>1, <2>2, <2>3, Zenon
    <3>2. CASE n # Len(sent) + 1
      <4>1. n \in DOMAIN sent /\ sent'[n] = sent[n]
        BY <3>2, <2>5
      <4> QED
        BY <4>1, <2>1, Zenon DEF Sent
    <3> QED
      BY <3>1, <3>2
  <2> QED
    BY <2>5, <2>6, Zenon DEF Sent
<1>2. CASE Serve
  <2>1. sent = <<>> /\ sent' = sent
    <3>1. phase \in {"load", "route"} /\ sent' = sent
      BY <1>2 DEF Serve, progress
    <3> QED
      BY <3>1, Zenon DEF Placed
  <2>2. DOMAIN sent' = {}
    BY <2>1
  <2> QED
    BY <2>1, <2>2, Zenon DEF Sent
<1>3. CASE ~RoundTrip /\ ~Serve
  <2>1. sent' = sent /\ client' = client /\ chain' = chain /\ endpoint' = endpoint
    BY <1>3, Frame, Zenon
  <2> QED
    BY <2>1 DEF Sent
<1> QED
  BY <1>1, <1>2, <1>3, Zenon

\* A limiter takes one permit on the way in and returns it on the way out; a
\* panic is the exception.
LEMMA CountedStep ==
    ASSUME ChainShape, Walk, Counted, Kinds
    PROVE  Counted'
<1>0. /\ panicked \in BOOLEAN /\ (panicked => phase = "done")
      /\ phase = "in" => permits = Cardinality(Limited(chain, pos - 1))
      /\ phase = "out" => permits = Cardinality(Limited(chain, pos))
      /\ phase \notin {"in", "out"} /\ ~panicked => permits = 0
  BY Zenon DEF Counted
<1>1. CASE \/ Load \/ Refuse \/ Serve \/ StopRetrying \/ ContextDone \/ Deliver
  <2>1. /\ permits' = permits /\ panicked' = panicked
        /\ phase \notin {"in", "out", "done"} /\ phase' \notin {"in", "out"}
    <3>1. CASE Load \/ Refuse \/ Serve
      BY <3>1 DEF Load, Refuse, Serve, Finish
    <3>2. CASE StopRetrying \/ ContextDone \/ Deliver
      BY <3>2 DEF StopRetrying, ContextDone, Deliver, Finish
    <3> QED
      BY <1>1, <3>1, <3>2, Zenon
  <2> QED
    BY <2>1, <1>0, Zenon DEF Counted
<1>2. CASE StartAttempt
  <2>1. /\ permits' = permits /\ panicked' = panicked /\ phase = "attempt" /\ phase' = "in"
        /\ chain' = chain /\ pos' = 1
    BY <1>2 DEF StartAttempt, route
  <2>2. permits = 0 /\ ~panicked
    BY <2>1, <1>0, Zenon
  <2>3. Cardinality(Limited(chain, 0)) = 0 /\ pos' - 1 = 0
    <3>1. 0 \in Nat
      OBVIOUS
    <3> QED
      BY <3>1, <2>1, CountLimited
  <2>4. permits' = Cardinality(Limited(chain', pos' - 1))
    BY <2>1, <2>2, <2>3, Zenon
  <2> QED
    BY <2>1, <2>2, <2>4, <1>0, Zenon DEF Counted
<1>3. CASE JudgeAttempt
  <2>1. /\ permits' = permits /\ panicked' = panicked /\ phase = "out" /\ pos = 0
    BY <1>3 DEF JudgeAttempt
  <2>2. phase' \in {"deliver", "attempt"}
    BY <1>3, Zenon DEF JudgeAttempt
  <2>3. permits = 0 /\ ~panicked
    <3>1. 0 \in Nat
      OBVIOUS
    <3>2. Cardinality(Limited(chain, 0)) = 0
      BY <3>1, CountLimited
    <3> QED
      BY <3>2, <2>1, <1>0, Zenon
  <2> QED
    BY <2>1, <2>2, <2>3, <1>0, Zenon DEF Counted
<1>4. CASE Inside /\ GoesIn
  <2>1. PICK r : PassOn(r) /\ ((here.name = "bbr" /\ permits' = permits + 1)
               \/ (here.name # "bbr" /\ permits' = permits))
    BY <1>4, Zenon DEF GoesIn
  <2>2. /\ panicked' = panicked /\ chain' = chain /\ pos' = pos + 1 /\ phase' = "in" /\ phase = "in"
    BY <2>1, <1>4 DEF PassOn, Inside, route
  <2>3. pos \in Nat /\ Len(stack) = pos - 1 /\ IsSeq(stack)
    BY <2>2, Zenon DEF Walk
  <2>3a. Len(stack) \in Nat
    BY <2>3, AppendFacts, Zenon
  <2> DEFINE k == pos - 1
  <2>4. k \in Nat /\ k + 1 = pos /\ pos' - 1 = k + 1
    BY <2>2, <2>3, <2>3a
  <2>4a. permits = Cardinality(Limited(chain, k)) /\ ~panicked
    BY <2>2, <1>0, Zenon
  <2>4b. here = chain[k + 1]
    BY <2>4, Zenon DEF here
  <2> HIDE DEF k
  <2>5. permits' = Cardinality(Limited(chain, k + 1))
    BY <2>1, <2>4, <2>4a, <2>4b, CountLimited, Zenon
  <2>6. permits' = Cardinality(Limited(chain', pos' - 1))
    BY <2>5, <2>4, <2>2, Zenon
  <2> QED
    BY <2>2, <2>4a, <2>6, <1>0, Zenon DEF Counted
<1>5. CASE Inside /\ TurnsBack
  <2>1. PICK o : Return(o) /\ permits' = permits
    BY <1>5, Zenon DEF TurnsBack
  <2>2. /\ panicked' = panicked /\ chain' = chain /\ pos' = pos - 1 /\ phase' = "out"
             /\ phase = "in"
    BY <2>1, <1>5 DEF Return, Inside, route
  <2>3. permits' = Cardinality(Limited(chain', pos')) /\ ~panicked
    BY <2>1, <2>2, <1>0, Zenon
  <2> QED
    BY <2>2, <2>3, <1>0, Zenon DEF Counted
<1>6. CASE RoundTrip
  <2>1. /\ panicked' = panicked /\ chain' = chain /\ pos' = Len(chain) /\ phase' = "out"
             /\ phase = "in"
        /\ permits' = permits /\ pos = Len(chain) + 1
    BY <1>6 DEF RoundTrip, route
  <2>2. pos - 1 = pos'
    <3>1. Len(chain) \in Nat
      BY DEF ChainShape
    <3> QED
      BY <3>1, <2>1
  <2>3. permits' = Cardinality(Limited(chain', pos')) /\ ~panicked
    BY <2>1, <2>2, <1>0, Zenon
  <2> QED
    BY <2>1, <2>3, <1>0, Zenon DEF Counted
<1>7. CASE Outside /\ GoesOut
  <2>1. PICK o : Hand(o) /\ ((here.name = "bbr" /\ permits' = permits - 1)
               \/ (here.name # "bbr" /\ permits' = permits))
    BY <1>7, Zenon DEF GoesOut
  <2>2. /\ panicked' = panicked /\ chain' = chain /\ pos' = pos - 1 /\ phase' = "out"
             /\ phase = "out"
        /\ pos > 0
    BY <2>1, <1>7 DEF Hand, Outside, route
  <2>3. pos \in Nat
    BY <2>2, Zenon DEF Walk
  <2> DEFINE k == pos - 1
  <2>4. k \in Nat /\ k + 1 = pos /\ pos' = k
    BY <2>2, <2>3
  <2>4b. here = chain[k + 1]
    BY <2>4, Zenon DEF here
  <2> HIDE DEF k
  <2>4a. permits = Cardinality(Limited(chain, k + 1)) /\ ~panicked
    BY <2>2, <2>4, <1>0, Zenon
  <2>5. permits' = Cardinality(Limited(chain, k))
    <3>1. CASE here.name = "bbr" /\ permits' = permits - 1
      <4>1. Cardinality(Limited(chain, k + 1)) = Cardinality(Limited(chain, k)) + 1
            /\ Cardinality(Limited(chain, k)) \in Nat
        BY <3>1, <2>4, <2>4b, CountLimited, Zenon
      <4> QED
        BY <4>1, <3>1, <2>4a
    <3>2. CASE here.name # "bbr" /\ permits' = permits
      BY <3>2, <2>4, <2>4a, <2>4b, CountLimited, Zenon
    <3> QED
      BY <2>1, <3>1, <3>2, Zenon
  <2>6. permits' = Cardinality(Limited(chain', pos'))
    BY <2>5, <2>4, <2>2, Zenon
  <2> QED
    BY <2>2, <2>4a, <2>6, <1>0, Zenon DEF Counted
<1>8. CASE Outside /\ Panic
  <2>1. panicked' = TRUE /\ phase' = "done"
    BY <1>8, Zenon DEF Panic, Finish
  <2> QED
    BY <2>1, Zenon DEF Counted
<1>9. CASE UNCHANGED vars
  BY <1>9 DEF vars, Counted
<1> QED
  BY <1>1, <1>2, <1>3, <1>4, <1>5, <1>6, <1>7, <1>8, <1>9, Zenon DEF Kinds

\* What Allowed and Origin say depends on the client and the chain only.
LEMMA AllowedFrame ==
    ASSUME client' = client, chain' = chain
    PROVE  Origin' = Origin /\ \A i : Allowed(i)' <=> Allowed(i)
<1>1. Origin' = Origin
  BY Zenon DEF Origin
<1> QED
  BY <1>1, Zenon DEF Allowed

\* On a way that leads to a cors that allows the origin, who stands before it
\* is calm.
LEMMA AllowedBefore ==
    ASSUME NEW i \in Nat, Allowed(i), NEW p \in Nat, p <= i, p > 0
    PROVE  (p = i /\ chain[p].name = "cors") \/ (p < i /\ chain[p].name \in Calm)
<1>1. CASE p = i
  BY <1>1, Zenon DEF Allowed
<1>2. CASE p # i
  <2>1. p < i /\ p \in 1..(i - 1)
    BY <1>2
  <2> QED
    BY <2>1, Zenon DEF Allowed
<1> QED
  BY <1>1, <1>2

\* cors sees the origin of the client.
LEMMA AllowedOrigin ==
    ASSUME ChainShape, NEW i \in 1..Len(chain), Allowed(i), NEW t, Len(t) \in Nat, i <= Len(t),
           Trail(t, chain, client, endpoint)
    PROVE  OriginOf(t[i].hdr) = Origin
<1>1. Len(chain) \in Nat /\ \A j \in 1..Len(chain) : IsMiddleware(chain[j])
  BY Zenon DEF ChainShape
<1>2. i \in 1..Len(t)
  BY <1>1
<1>3. \A j \in 1..(i - 1) : j \in 1..Len(chain)
  BY <1>1
<1>4. \A j \in 1..(i - 1) : chain[j].name \in Calm /\ IsMiddleware(chain[j])
  BY <1>1, <1>3, Zenon DEF Allowed
<1> QED
  BY <1>2, <1>4, CalmOrigin DEF Origin

\* cors writes the origin into the response; what is outside of it is calm
\* and leaves that alone.
LEMMA EchoedStep ==
    ASSUME ChainShape, Walk, Outcomes, Echoed, Kinds
    PROVE  Echoed'
<1>0. Len(chain) \in Nat
  BY DEF ChainShape
<1>0a. \A i \in 1..Len(chain) : i \in Nat /\ i > 0
  BY <1>0
<1>1. CASE Load \/ Refuse \/ Serve \/ StartAttempt \/ Deliver \/ (Inside /\ GoesIn)
             \/ (Outside /\ Panic)
  <2>1. phase' \notin {"out", "deliver"} /\ ~(phase' = "attempt" /\ attempt' > 0)
    <3>1. CASE Serve
      <4>1. phase' = "attempt" /\ attempt' = attempt /\ phase \in {"load", "route"}
        BY <3>1 DEF Serve, progress
      <4>2. attempt' = 0
        BY <4>1, Zenon DEF Outcomes
      <4> QED
        BY <4>1, <4>2
    <3>2. CASE Load \/ Refuse \/ Deliver \/ Panic
      BY <3>2, Zenon DEF Load, Refuse, Deliver, Panic, Finish
    <3>3. CASE StartAttempt \/ (Inside /\ GoesIn)
      <4>1. phase' = "in"
        BY <3>3 DEF StartAttempt, GoesIn, PassOn, Inside
      <4> QED
        BY <4>1, Zenon
    <3> QED
      BY <1>1, <3>1, <3>2, <3>3, Zenon
  <2> QED
    BY <2>1, Zenon DEF Echoed, Judged
<1>2. CASE StopRetrying
  <2>1. /\ phase = "attempt" /\ attempt > 0 /\ out' = out /\ client' = client /\ chain' = chain
    BY <1>2 DEF StopRetrying, route, progress
  <2>2. Judged
    BY <2>1, Zenon DEF Judged
  <2> QED
    BY <2>1, <2>2, AllowedFrame, Zenon DEF Echoed
<1>3. CASE ContextDone
  <2>1. PICK why : out' = Err(PlainError(why))
    BY <1>3, Zenon DEF ContextDone
  <2>2. out'.kind = "err"
    BY <2>1 DEF Err
  <2> QED
    BY <2>2, Zenon DEF Echoed
<1>4. CASE JudgeAttempt
  <2>1. /\ phase = "out" /\ pos = 0 /\ out' = out /\ client' = client /\ chain' = chain
    BY <1>4 DEF JudgeAttempt, route
  <2>2. \A i \in 1..Len(chain) : pos < i
    BY <2>1, <1>0
  <2> QED
    BY <2>1, <2>2, AllowedFrame, Zenon DEF Echoed
<1>5. CASE Inside /\ TurnsBack
  <2>1. PICK o : Return(o) /\ Turned(here, req, o)
    BY <1>5, Zenon DEF TurnsBack
  <2>2. /\ out' = o /\ phase' = "out" /\ pos' = pos - 1 /\ client' = client /\ chain' = chain
        /\ phase = "in" /\ pos <= Len(chain)
    BY <2>1, <1>5 DEF Return, route, Inside
  <2>3. /\ pos \in Nat /\ Len(stack) = pos - 1 /\ IsSeq(stack)
        /\ Trail(Append(stack, req), chain, client, endpoint)
    BY <2>2, Zenon DEF Walk
  <2>4. Len(stack) \in Nat /\ Append(stack, req)[Len(stack) + 1] = req
          /\ Len(Append(stack, req)) = Len(stack) + 1
    BY <2>3, AppendFacts, Zenon
  <2>5. ASSUME NEW i \in 1..Len(chain), Allowed(i), Origin # <<>>, pos' < i
        PROVE  o.kind = "err" \/ Echoes(o, Origin)
    <3>1. i \in Nat /\ pos <= i /\ pos > 0
      BY <2>5, <2>2, <2>3, <2>4, <1>0
    <3>2. CASE pos < i /\ chain[pos].name \in Calm
      BY <3>2, <2>1, Zenon DEF Turned, here
    <3>3. CASE pos = i /\ chain[pos].name = "cors"
      <4>1. i <= Len(Append(stack, req)) /\ Len(Append(stack, req)) \in Nat /\ i = Len(stack) + 1
        BY <3>3, <2>3, <2>4
      <4>2. OriginOf(req.hdr) = Origin
        <5>1. OriginOf(Append(stack, req)[i].hdr) = Origin
          BY <4>1, <2>3, <2>5, AllowedOrigin, Zenon
        <5> QED
          BY <5>1, <4>1, <2>4, Zenon
      <4>3. IsOriginAllowed(OriginOf(req.hdr), here.cors.allowOrigins) /\ here.name = "cors"
        BY <4>2, <3>3, <2>5, Zenon DEF Allowed, here
      <4> QED
        BY <4>2, <4>3, <2>5, <2>1, Zenon DEF Turned
    <3> QED
      BY <3>1, <3>2, <3>3, <2>3, <2>5, AllowedBefore, Zenon
  <2>6. ~Judged'
    BY <2>2, Zenon DEF Judged
  <2> QED
    BY <2>2, <2>5, <2>6, AllowedFrame, Zenon DEF Echoed
<1>6. CASE RoundTrip
  <2>1. /\ pos' = Len(chain) /\ phase' = "out" /\ client' = client /\ chain' = chain
    BY <1>6 DEF RoundTrip, route
  <2>2. \A i \in 1..Len(chain) : ~(pos' < i)
    BY <2>1, <1>0
  <2>3. ~Judged'
    BY <2>1, Zenon DEF Judged
  <2> QED
    BY <2>1, <2>2, <2>3, Zenon DEF Echoed
<1>7. CASE Outside /\ GoesOut
  <2>1. PICK o : Hand(o) /\ Handed(here, stack[pos], out, o)
    BY <1>7, Zenon DEF GoesOut
  <2>2. /\ out' = o /\ phase' = "out" /\ pos' = pos - 1 /\ client' = client /\ chain' = chain
        /\ phase = "out" /\ pos > 0
    BY <2>1, <1>7 DEF Hand, route, Outside
  <2>3. /\ pos \in Nat /\ pos <= Len(stack) /\ IsSeq(stack)
        /\ Trail(Append(stack, req), chain, client, endpoint)
    BY <2>2, Zenon DEF Walk
  <2>4. /\ Len(stack) \in Nat /\ Len(Append(stack, req)) = Len(stack) + 1
        /\ \A i \in 1..Len(stack) : Append(stack, req)[i] = stack[i]
    BY <2>3, AppendFacts
  <2>5. ASSUME NEW i \in 1..Len(chain), Allowed(i), Origin # <<>>, pos' < i
        PROVE  o.kind = "err" \/ Echoes(o, Origin)
    <3>1. i \in Nat /\ pos <= i
      BY <2>5, <2>2, <2>3, <1>0
    <3>2. CASE pos < i /\ chain[pos].name \in Calm
      <4>1. o = out
        BY <3>2, <2>1, Zenon DEF Handed, here
      <4> QED
        BY <4>1, <3>2, <2>2, <2>5, Zenon DEF Echoed
    <3>3. CASE pos = i /\ chain[pos].name = "cors"
      <4>1. i <= Len(Append(stack, req)) /\ Len(Append(stack, req)) \in Nat /\ i \in 1..Len(stack)
        BY <3>1, <3>3, <2>2, <2>3, <2>4
      <4>2. OriginOf(stack[pos].hdr) = Origin
        <5>1. OriginOf(Append(stack, req)[i].hdr) = Origin
          BY <4>1, <2>3, <2>5, AllowedOrigin, Zenon
        <5> QED
          BY <5>1, <4>1, <2>4, <3>3, Zenon
      <4> QED
        BY <4>2, <3>3, <2>5, <2>1, Zenon DEF Handed, here
    <3> QED
      BY <3>1, <3>2, <3>3, <2>2, <2>3, <2>5, AllowedBefore, Zenon
  <2>6. ~Judged'
    BY <2>2, Zenon DEF Judged
  <2> QED
    BY <2>2, <2>5, <2>6, AllowedFrame, Zenon DEF Echoed
<1>8. CASE UNCHANGED vars
  <2>1. /\ out' = out /\ phase' = phase /\ pos' = pos /\ client' = client /\ chain' = chain
        /\ attempt' = attempt
    BY <1>8 DEF vars
  <2> QED
    BY <2>1, AllowedFrame, Zenon DEF Echoed, Judged
<1> QED
  BY <1>1, <1>2, <1>3, <1>4, <1>5, <1>6, <1>7, <1>8, Zenon DEF Kinds

\* Every answer is an error that Write wrote or the outcome of the chain.
LEMMA AnsweredStep ==
    ASSUME Outcomes, Echoed, Answered, Kinds
    PROVE  Answered'
<1>1. CASE Refuse \/ (Outside /\ Panic)
  <2>1. client' = client
    BY <1>1 DEF Refuse, Panic
  <2>2. PICK e : IsError(e) /\ \E g : answer' = Write(client.hdr, e, g)
    <3>1. CASE Refuse
      <4>1. PICK e \in {ErrMethodNotAllowed, ErrRouteNotFound} :
                   answer' = Write(client.hdr, e, FALSE)
        <5>1. \/ answer' = Write(client.hdr, ErrMethodNotAllowed, FALSE)
              \/ answer' = Write(client.hdr, ErrRouteNotFound, FALSE)
          BY <3>1, Zenon DEF Refuse, Finish
        <5> QED
          BY <5>1, Zenon
      <4> QED
        BY <4>1, OwnErrors, Zenon
    <3>2. CASE Panic
      BY <3>2, OwnErrors, Zenon DEF Panic, Finish
    <3> QED
      BY <1>1, <3>1, <3>2
  <2>3. ReadableError(answer', Origin)
    BY <2>2, ErrorsAreReadable, Zenon DEF Origin
  <2>4. ReadableError(answer', Origin')
    BY <2>1, <2>3, Zenon DEF Origin
  <2> QED
    BY <2>4, Zenon DEF Answered
<1>2. CASE Deliver
  <2>1. client' = client /\ chain' = chain /\ phase = "deliver"
    BY <1>2 DEF Deliver, route
  <2>2. Outcome(out) /\ Judged
    BY <2>1, Zenon DEF Outcomes, Judged
  <2>3. Origin' = Origin /\ \A i : Allowed(i)' <=> Allowed(i)
    BY <2>1, AllowedFrame, Zenon
  <2>4. CASE out.kind = "err"
    <3>1. IsError(out.err)
      BY <2>2, <2>4, Zenon DEF Outcome, IsResponse
    <3>2. \E g : answer' = Write(client.hdr, out.err, g)
      BY <1>2, <2>4, Zenon DEF Deliver, Finish
    <3>3. ReadableError(answer', Origin)
      BY <3>1, <3>2, ErrorsAreReadable, Zenon DEF Origin
    <3> QED
      BY <2>3, <3>3, Zenon DEF Answered
  <2>5. CASE out.kind # "err"
    <3>1. answer' = out
      BY <1>2, <2>5, Zenon DEF Deliver, Finish
    <3>2. out.kind # "error"
      BY <2>2, <2>5, Zenon DEF Outcome, IsResponse
    <3>3. \A i \in 1..Len(chain) : Allowed(i) /\ Origin # <<>> => Echoes(out, Origin)
      BY <2>2, <2>5, Zenon DEF Echoed
    <3> QED
      BY <2>1, <2>3, <3>1, <3>2, <3>3, Zenon DEF Answered
  <2> QED
    BY <2>4, <2>5
<1>3. CASE UNCHANGED vars
  <2>1. phase' = phase /\ client' = client /\ chain' = chain /\ answer' = answer
    BY <1>3 DEF vars
  <2> QED
    BY <2>1, AllowedFrame, Zenon DEF Answered
<1>4. CASE phase' # "done"
  BY <1>4, Zenon DEF Answered
<1>5. ASSUME \/ Load \/ Serve \/ StartAttempt \/ StopRetrying \/ ContextDone \/ JudgeAttempt
             \/ (Inside /\ GoesIn) \/ (Inside /\ TurnsBack) \/ RoundTrip \/ (Outside /\ GoesOut)
      PROVE  phase' # "done"
  <2>1. CASE Load \/ Serve \/ StartAttempt \/ StopRetrying \/ ContextDone
    BY <2>1, Zenon DEF Load, Serve, StartAttempt, StopRetrying, ContextDone
  <2>2. CASE JudgeAttempt
    BY <2>2, Zenon DEF JudgeAttempt
  <2>3. CASE Inside /\ GoesIn
    BY <2>3 DEF GoesIn, PassOn, Inside
  <2>4. CASE TurnsBack \/ RoundTrip
    BY <2>4, Zenon DEF TurnsBack, Return, RoundTrip
  <2>5. CASE Outside /\ GoesOut
    BY <2>5 DEF GoesOut, Hand, Outside
  <2> QED
    BY <1>5, <2>1, <2>2, <2>3, <2>4, <2>5, Zenon
<1> QED
  BY <1>1, <1>2, <1>3, <1>4, <1>5, Zenon DEF Kinds

-----------------------------------------------------------------------------
(* The theorems. *)

\* The invariant holds at first,
LEMMA InitInv ==
    ASSUME Init
    PROVE  IInv
<1>1. PICK s \in Scenarios :
         /\ cfg = [main |-> s.main, files |-> s.files, global |-> s.global]
         /\ client = s.client
  BY Zenon DEF Init
<1>2. /\ endpoints = <<>> /\ chain = <<>> /\ phase = "load" /\ attempt = 0 /\ pos = 0
      /\ sent = <<>> /\ permits = 0 /\ panicked = FALSE
  BY Zenon DEF Init
<1>3. Configured
  <2>1. cfg.main = s.main /\ cfg.files = s.files /\ cfg.global = s.global
    BY <1>1
  <2>2. Conf(cfg)
    BY <2>1, ScenariosAssumption DEF Conf, IsSeq
  <2>3. IsReq(client)
    <3>1. IsRequest(client)
      BY <1>1, ScenariosAssumption, Zenon
    <3>2. STRING \subseteq Text
      BY DEF Text
    <3>3. client.path \in Seq(Text)
      BY <3>1, <3>2, SeqMonotonic DEF IsRequest
    <3> QED
      BY <3>1, <3>3, Zenon DEF IsRequest, IsReq, Fields
  <2> QED
    BY <2>2, <2>3, Zenon DEF Configured
<1>4. IsSeq(<<>>) /\ Len(<<>>) = 0 /\ DOMAIN <<>> = {}
  <2>1. <<>> \in Seq({})
    OBVIOUS
  <2>2. IsSeq(<<>>)
    BY <2>1, SeqOwnRange
  <2> QED
    BY <2>2
<1>5. ChainShape
  <2>1. Len(chain) = 0 /\ DOMAIN chain = {}
    BY <1>2, <1>4
  <2>2. 1..0 = {} /\ 0 \in Nat
    OBVIOUS
  <2> QED
    BY <2>1, <2>2, Zenon DEF ChainShape
<1>6. Loaded /\ Placed /\ Walk /\ Answered
  BY <1>2, Zenon DEF Loaded, Placed, Serving, Walk, Answered
<1>7. Sent
  <2>1. IsSeq(sent) /\ DOMAIN sent = {}
    BY <1>2, <1>4
  <2> QED
    BY <2>1, Zenon DEF Sent
<1>8. Outcomes
  <2>1. attempt \in Nat
    BY <1>2
  <2> QED
    BY <2>1, <1>2, Zenon DEF Outcomes, Judged
<1>9. Counted
  BY <1>2, Zenon DEF Counted
<1>10. Echoed
  BY <1>2, Zenon DEF Echoed, Judged
<1> QED
  BY <1>3, <1>5, <1>6, <1>7, <1>8, <1>9, <1>10, Zenon DEF IInv

\* and every step keeps it.
LEMMA NextInv ==
    ASSUME IInv, [Next]_vars
    PROVE  IInv'
<1>1. Configured /\ Loaded /\ ChainShape /\ Placed /\ Walk /\ Sent /\ Outcomes /\ Counted
      /\ Echoed /\ Answered
  BY Zenon DEF IInv
<1>2. Kinds
  BY <1>1, StepKinds, Zenon
<1>3. Configured' /\ Loaded' /\ ChainShape' /\ Placed'
  BY <1>1, <1>2, ConfiguredStep, LoadedStep, ChainShapeStep, PlacedStep
<1>4. Walk' /\ Sent' /\ Outcomes' /\ Counted'
  BY <1>1, <1>2, WalkStep, SentStep, OutcomesStep, CountedStep
<1>5. Echoed' /\ Answered'
  BY <1>1, <1>2, EchoedStep, AnsweredStep
<1> QED
  BY <1>3, <1>4, <1>5 DEF IInv

(***************************************************************************)
(* The inductive invariant, for any configuration, request and upstream:   *)
(* the chain is the configured one, whatever was sent went through all of  *)
(* it hop by hop from the request of the client, and the outcome, the      *)
(* permits and the origin are what the way out needs (Proxy.buildEndpoint, *)
(* buildMiddleware and the retry loop of proxy.go with the RoundTrip of    *)
(* every middleware).                                                      *)
(***************************************************************************)
THEOREM ChainInvariant == Spec => []IInv
<1>1. Init => IInv
  BY InitInv
<1>2. IInv /\ [Next]_vars => IInv'
  BY NextInv
<1> QED
  BY <1>1, <1>2, PTL DEF Spec

\* Two requests that were sent are the ends of two trails over one chain.
LEMMA SameRequest ==
    ASSUME Sent, ChainShape
    PROVE  AttemptsSendTheSameRequest
<1> SUFFICES ASSUME NEW i \in DOMAIN sent, NEW j \in DOMAIN sent
             PROVE  sent[i].req = sent[j].req
  BY Zenon DEF AttemptsSendTheSameRequest
<1> DEFINE t == Append(sent[i].seen, sent[i].req)
           u == Append(sent[j].seen, sent[j].req)
<1>0. Len(chain) \in Nat
  BY DEF ChainShape
<1>1. /\ IsSeq(sent[i].seen) /\ Len(sent[i].seen) = Len(chain) /\ Trail(t, chain, client, endpoint)
      /\ IsSeq(sent[j].seen) /\ Len(sent[j].seen) = Len(chain) /\ Trail(u, chain, client, endpoint)
  BY Zenon DEF Sent
<1>2. Len(t) = Len(chain) + 1 /\ t[Len(chain) + 1] = sent[i].req
  BY <1>1, AppendFacts
<1>3. Len(u) = Len(chain) + 1 /\ u[Len(chain) + 1] = sent[j].req
  BY <1>1, AppendFacts
<1> HIDE DEF t, u
<1>4. Len(t) \in Nat /\ Len(t) >= 1 /\ Len(u) = Len(t)
  BY <1>0, <1>2, <1>3
<1>5. t[Len(t)] = u[Len(t)]
  BY <1>1, <1>4, TrailsAgree, Zenon
<1> QED
  BY <1>2, <1>3, <1>5, Zenon

(***************************************************************************)
(* For any chain, endpoint and upstream, and any number of attempts, a     *)
(* retry sends what the first attempt sent, since each attempt works on a  *)
(* clone (proxy.go:301) and what a middleware passes on depends on what it *)
(* is given only.                                                          *)
(***************************************************************************)
THEOREM SameRequestTheorem == Spec => []AttemptsSendTheSameRequest
<1>1. IInv => AttemptsSendTheSameRequest
  BY SameRequest, Zenon DEF IInv
<1> QED
  BY <1>1, ChainInvariant, PTL

\* MatchesAny decides as the reference does, for any list of plain rules.
LEMMA RulesRead ==
    ASSUME NEW rules \in Seq(Rules), \A k \in DOMAIN rules : Plain(rules[k]),
           NEW method, NEW path \in Seq(Text)
    PROVE  MatchesAny(rules, method, path) <=>
              \E k \in DOMAIN rules :
                 Covers(rules[k], method, path) \/ OnBarePath(rules[k], method, path)
<1>1. \A k \in DOMAIN rules : rules[k] \in Rules
  OBVIOUS
<1>2. \A k \in DOMAIN rules :
         Match(NewPathMatcher(rules[k]), method, path) <=>
            Covers(rules[k], method, path) \/ OnBarePath(rules[k], method, path)
  BY <1>1, MatchIsCovers, Zenon
<1> QED
  BY <1>2, Zenon DEF MatchesAny

\* A trail of the length of the chain went by every guard.
LEMMA GuardsPassed ==
    ASSUME IInv
    PROVE  EveryGuardWasPassed
<1> DEFINE plain(m) == \A k \in DOMAIN m.rules : Plain(m.rules[k])
<1>1. ChainShape /\ Walk /\ Sent /\ Placed
  BY Zenon DEF IInv
<1>2. Len(chain) \in Nat /\ DOMAIN chain = 1..Len(chain)
      /\ \A i \in 1..Len(chain) : chain[i].rules \in Seq(Rules) /\ IsMiddleware(chain[i])
  BY <1>1, Zenon DEF ChainShape, IsMiddleware
<1>3. ASSUME phase = "in", pos <= Len(chain), plain(here)
      PROVE  Skips = CoveredBy(here.rules, req)
  <2>1. /\ pos \in Nat /\ Len(stack) = pos - 1 /\ IsSeq(stack)
        /\ Trail(Append(stack, req), chain, client, endpoint)
    BY <1>1, <1>3, Zenon DEF Walk
  <2>2. Len(stack) \in Nat
    BY <2>1, AppendFacts, Zenon
  <2>3. pos \in 1..Len(chain)
    BY <2>1, <2>2, <1>2, <1>3
  <2>4. here.rules \in Seq(Rules)
    BY <2>3, <1>2, Zenon DEF here
  <2>5. req.path \in Seq(Text)
    BY <2>1, TrailEnd, Zenon DEF IsReq
  <2>6. Skips <=> CoveredBy(here.rules, req)
    BY <2>4, <2>5, <1>3, RulesRead, Zenon DEF Skips, CoveredBy
  <2>7. Skips \in BOOLEAN /\ CoveredBy(here.rules, req) \in BOOLEAN
    BY Zenon DEF Skips, MatchesAny, CoveredBy
  <2> QED
    BY <2>6, <2>7, Zenon DEF CoveredBy
<1>4. ASSUME NEW n \in DOMAIN sent
      PROVE  /\ ChainIsConfigured
             /\ Len(sent[n].seen) = Len(chain)
             /\ \A i \in DOMAIN chain : plain(chain[i]) =>
                   /\ chain[i].name = "router_filter" => Covered(n, i)
                   /\ chain[i].name = "jwt" =>
                         Covered(n, i) \/ Get(PassedOn(n, i).hdr, "x-md-global-user-id") = "user"
  <2>1. /\ IsSeq(sent[n].seen) /\ Len(sent[n].seen) = Len(chain)
        /\ Trail(Append(sent[n].seen, sent[n].req), chain, client, endpoint)
    BY <1>1, Zenon DEF Sent
  <2>2. ChainIsConfigured
    <3>1. sent # <<>>
      OBVIOUS
    <3> QED
      BY <3>1, <1>1, Zenon DEF Placed
  <2>3. ASSUME NEW i \in DOMAIN chain, plain(chain[i])
        PROVE  /\ chain[i].name = "router_filter" => Covered(n, i)
               /\ chain[i].name = "jwt" =>
                     Covered(n, i) \/ Get(PassedOn(n, i).hdr, "x-md-global-user-id") = "user"
    <3> DEFINE r == sent[n].seen[i]
               x == PassedOn(n, i)
    <3>1. i \in 1..Len(sent[n].seen) /\ i \in 1..Len(chain)
      BY <2>1, <1>2, Zenon
    <3>2. IsReq(r) /\ Hop(chain[i], r, x, endpoint)
      BY <2>1, <3>1, TrailEnd, Zenon DEF PassedOn
    <3>3. chain[i].rules \in Seq(Rules) /\ IsMiddleware(chain[i]) /\ r.path \in Seq(Text)
      BY <3>1, <3>2, <1>2, Zenon DEF IsReq
    <3> HIDE DEF r, x
    <3>4. Matched(chain[i], r) <=> CoveredBy(chain[i].rules, r)
      BY <3>3, <2>3, RulesRead, Zenon DEF Matched, CoveredBy
    <3>5. Matched(chain[i], r) <=> Covered(n, i)
      BY <3>4, Zenon DEF Covered, r
    <3>6. chain[i].name = "router_filter" => Matched(chain[i], r)
      BY <3>2, Zenon DEF Hop
    <3>7. chain[i].name = "jwt" => Matched(chain[i], r)
            \/ Get(x.hdr, "x-md-global-user-id") = "user"
      BY <3>2, <3>3, HopKeeps, Zenon
    <3> QED
      BY <3>5, <3>6, <3>7, Zenon DEF x
  <2> QED
    BY <2>1, <2>2, <2>3, Zenon
<1> QED
  BY <1>3, <1>4, Zenon DEF EveryGuardWasPassed

(***************************************************************************)
(* For any configuration no request reaches the upstream around a          *)
(* middleware: it went by every middleware that the configuration names,   *)
(* in order and, if required, as it is configured; and router_filter and   *)
(* jwt let it by only on a rule that covers the path they saw, on the bare *)
(* path before the wildcard of one, or with a user (buildMiddleware of     *)
(* proxy.go, and routerfilter.go for any rule, method and path).           *)
(***************************************************************************)
THEOREM GuardTheorem == Spec => []EveryGuardWasPassed
<1>1. IInv => EveryGuardWasPassed
  BY GuardsPassed
<1> QED
  BY <1>1, ChainInvariant, PTL

\* What Answered says is what AnswersAreReadable asks.
LEMMA AnswersReadable ==
    ASSUME Answered, ChainShape
    PROVE  AnswersAreReadable
<1>1. SUFFICES ASSUME phase = "done"
               PROVE /\ Origin # <<>> /\ (answer.kind = "error"
                          \/ \E i \in DOMAIN chain : Allowed(i))
                          => Echoes(answer, Origin)
                     /\ answer.kind = "error" => 
                          /\ ReadableBody(answer)
                          /\ Origin # <<>> => answer.hdr["Expose-Headers"] = <<"X-Error-Reason">>
  BY ZenonT(60) DEF AnswersAreReadable, Origin, Allowed, Calm, Echoes, ReadableBody
<1>2. CASE ReadableError(answer, Origin)
  BY <1>2, Zenon DEF ReadableError
<1>3. CASE /\ answer.kind # "error"
           /\ \A i \in 1..Len(chain) : Allowed(i) /\ Origin # <<>> => Echoes(answer, Origin)
  BY <1>3, Zenon DEF ChainShape
<1> QED
  BY <1>1, <1>2, <1>3, Zenon DEF Answered

(***************************************************************************)
(* For any chain and upstream the browser can read the answer: an error    *)
(* echoes the origin with a known code, reason and message (Classify and   *)
(* Write of errors), and cors names an allowed origin on whatever comes    *)
(* from inside it.                                                         *)
(***************************************************************************)
THEOREM ReadableTheorem == Spec => []AnswersAreReadable
<1>1. IInv => AnswersAreReadable
  BY AnswersReadable, Zenon DEF IInv
<1> QED
  BY <1>1, ChainInvariant, PTL

(***************************************************************************)
(* For any chain, with any number of limiters, every permit is returned    *)
(* when the request is answered, unless a middleware panicked (bbr.go:33   *)
(* calls done on errors too).                                              *)
(***************************************************************************)
THEOREM PermitsTheorem == Spec => []PermitsAreReturned
<1>1. IInv => PermitsAreReturned
  BY Zenon DEF IInv, Counted, PermitsAreReturned
<1> QED
  BY <1>1, ChainInvariant, PTL

\* After loading, the merge is what PriorityWins is about.
LEMMA PriorityHolds ==
    ASSUME Configured, Loaded
    PROVE  PriorityEndpointsWin
<1> DEFINE items == Items(cfg.files)
<1>1. SUFFICES ASSUME phase # "load", ~Shifts(cfg.main, items), NEW k,
                      ~ (k \in Keys(items) /\ Repeats(cfg.main, k))
               PROVE  ServedBy(endpoints, k) = Effective(cfg.main, items, k)
  BY Zenon DEF PriorityEndpointsWin
<1>2. Conf(cfg) /\ endpoints = Merged(cfg.main, items)
  BY <1>1, Zenon DEF Configured, Loaded, MergePriorityConfig
<1>3. cfg.main \in Seq(EndpointSet(cfg)) /\ items \in Seq(EndpointSet(cfg))
  BY <1>2, EndpointsKept
<1> HIDE DEF items
<1> QED
  BY <1>1, <1>2, <1>3, PriorityWins, Zenon

(***************************************************************************)
(* For any main configuration and any priority files, each key is served   *)
(* by the last file that names it, and otherwise as main says, outside of  *)
(* the two exceptions of mergePriorityConfig (config.go:250).              *)
(***************************************************************************)
THEOREM PriorityTheorem == Spec => []PriorityEndpointsWin
<1>1. IInv => PriorityEndpointsWin
  BY PriorityHolds, Zenon DEF IInv
<1> QED
  BY <1>1, ChainInvariant, PTL
==============================================================================
