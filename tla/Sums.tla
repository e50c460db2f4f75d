-------------------------------- MODULE Sums ----------------------------------
(***************************************************************************)
(* Totals of finitely many numbers, as MapThenSumSet takes them: what one  *)
(* more number adds, and that the order in which they are taken is no      *)
(* matter.                                                                 *)
(***************************************************************************)
EXTENDS Integers, FiniteSetsExt, FiniteSetTheorems, WellFoundedInduction, TLAPS

\* The element of a set that is taken first.
First(s) == CHOOSE x \in s : TRUE

\* h has the totals of f over the subsets of its domain.
Adds(h, f) ==
  h = [s \in SUBSET DOMAIN f |-> IF s = {} THEN 0 ELSE f[First(s)] + h[s \ {First(s)}]]

Total(f) == (CHOOSE h : Adds(h, f))[DOMAIN f]

LEMMA FirstIn == ASSUME NEW s, s # {} PROVE First(s) \in s
BY DEF First

\* A non-empty set of naturals has a least element.
LEMMA NatLeast ==
  ASSUME NEW N, N \subseteq Nat, N # {}
  PROVE  \E m \in N : \A i \in N : m <= i
<1>1. PICK x \in N : \A y \in N : ~ (<<y, x>> \in OpToRel(<, Nat))
  BY NatLessThanWellFounded, WFMin
<1>2. ASSUME NEW y \in N PROVE x <= y
  <2>1. x \in Nat /\ y \in Nat
    OBVIOUS
  <2>2. <<y, x>> \in Nat \X Nat
    BY <2>1
  <2>3. ~ (y < x)
    BY <1>1, <2>2 DEF OpToRel
  <2>. QED  BY <2>1, <2>3
<1>. QED  BY <1>2

\* What holds of a finite set when it holds of it without any one element holds of
\* all its subsets.
LEMMA BySize ==
  ASSUME NEW S, IsFiniteSet(S), NEW Good,
         \A s \in SUBSET S : (\A x \in s : s \ {x} \in Good) => s \in Good
  PROVE  \A s \in SUBSET S : s \in Good
<1>. DEFINE Bad == {s \in SUBSET S : s \notin Good}
            Sizes == {Cardinality(s) : s \in Bad}
<1>. SUFFICES ASSUME Bad # {} PROVE FALSE
  OBVIOUS
<1>1. Sizes \subseteq Nat /\ Sizes # {}
  BY FS_Subset, FS_CardinalityType
<1>2. PICK m \in Sizes : \A i \in Sizes : m <= i
  BY <1>1, NatLeast
<1>3. PICK s \in Bad : m = Cardinality(s)
  BY <1>2
<1>4. IsFiniteSet(s)
  BY FS_Subset
<1>5. ASSUME NEW x \in s, s \ {x} \notin Good PROVE FALSE
  <2>1. s \ {x} \in Bad
    BY <1>5
  <2>2. Cardinality(s \ {x}) \in Sizes
    BY <2>1
  <2>3. Cardinality(s \ {x}) = m - 1
    <3>. HIDE DEF Bad, Sizes
    <3>. QED  BY <1>3, <1>4, FS_RemoveElement
  <2>4. m \in Nat /\ m <= m - 1
    <3>. HIDE DEF Sizes
    <3>. QED  BY <1>1, <1>2, <2>2, <2>3
  <2>. QED  BY <2>4
<1>. QED  BY <1>5

\* The totals exist.
LEMMA AddsExists ==
  ASSUME NEW S, IsFiniteSet(S), NEW f, DOMAIN f = S
  PROVE  \E h : Adds(h, f)
<1>. DEFINE Up(n) == {s \in SUBSET S : Cardinality(s) <= n}
            Fits(h, n) == h = [s \in Up(n) |-> IF s = {} THEN 0 ELSE f[First(s)] + h[s \ {First(s)}]]
            None == {n \in Nat : ~ \E h : Fits(h, n)}
<1>1. \A s \in SUBSET S : IsFiniteSet(s) /\ Cardinality(s) \in Nat /\ (Cardinality(s) = 0 <=> s = {})
  BY FS_Subset, FS_CardinalityType, FS_EmptySet
<1>2. Fits([s \in Up(0) |-> 0], 0)
  BY <1>1
<1>3. None = {}
  <2>. SUFFICES ASSUME None # {} PROVE FALSE
    OBVIOUS
  <2>1. None \subseteq Nat
    OBVIOUS
  <2>2. PICK m \in None : \A i \in None : m <= i
    BY <2>1, NatLeast
  <2>3. m \in Nat /\ m # 0
    <3>1. \E h : Fits(h, 0)
      <4>. WITNESS [s \in Up(0) |-> 0]
      <4>. HIDE DEF Fits
      <4>. QED  BY <1>2
    <3>2. 0 \notin None
      <4>. HIDE DEF Fits
      <4>. QED  BY <3>1
    <3>3. m \in Nat
      OBVIOUS
    <3>. HIDE DEF None
    <3>. QED  BY <2>2, <3>2, <3>3
  <2>4. m - 1 \in Nat /\ m - 1 \notin None
    <3>1. \A i \in None : m <= i
      BY <2>2
    <3>. HIDE DEF None
    <3>. QED  BY <2>3, <3>1
  <2>5. PICK h : Fits(h, m - 1)
    BY <2>4
  <2>. DEFINE g == [s \in Up(m) |-> IF s = {} THEN 0 ELSE f[First(s)] + h[s \ {First(s)}]]
  <2>6. ASSUME NEW s \in Up(m), s # {} PROVE g[s \ {First(s)}] = h[s \ {First(s)}]
    <3>. DEFINE t == s \ {First(s)}
    <3>1. Cardinality(t) = Cardinality(s) - 1 /\ t \in SUBSET S
      BY <1>1, <2>6, FirstIn, FS_RemoveElement
    <3>2. t \in Up(m - 1) /\ t \in Up(m)
      BY <3>1, <1>1, <2>3
    <3>3. h[t] = IF t = {} THEN 0 ELSE f[First(t)] + h[t \ {First(t)}]
      <4>. HIDE DEF t
      <4>. QED  BY <2>5, <3>2
    <3>4. g[t] = IF t = {} THEN 0 ELSE f[First(t)] + h[t \ {First(t)}]
      <4>. HIDE DEF t
      <4>. QED  BY <3>2
    <3>. QED  BY <3>3, <3>4
  <2>7. Fits(g, m)
    BY <2>6
  <2>. QED  BY <2>7, <2>2
<1>4. Cardinality(S) \in Nat /\ Up(Cardinality(S)) = SUBSET S
  BY FS_Subset, FS_CardinalityType
<1>5. PICK h : Fits(h, Cardinality(S))
  BY <1>3, <1>4
<1>6. Adds(h, f)
  BY <1>4, <1>5 DEF Adds
<1>. QED  BY <1>6

\* What the totals are, one element at a time, and that they are numbers.
Stepwise(h, f) ==
  /\ DOMAIN h = SUBSET DOMAIN f /\ h[{}] = 0
  /\ \A s \in SUBSET DOMAIN f : s # {} => h[s] = f[First(s)] + h[s \ {First(s)}]

LEMMA AddsSteps == ASSUME NEW f, NEW h, Adds(h, f) PROVE Stepwise(h, f)
<1>1. h = [s \in SUBSET DOMAIN f |-> IF s = {} THEN 0 ELSE f[First(s)] + h[s \ {First(s)}]]
  BY DEF Adds
<1>2. DOMAIN h = SUBSET DOMAIN f
  BY <1>1
<1>3. ASSUME NEW s \in SUBSET DOMAIN f
      PROVE  h[s] = IF s = {} THEN 0 ELSE f[First(s)] + h[s \ {First(s)}]
  BY <1>1
<1>. QED  BY <1>2, <1>3 DEF Stepwise

LEMMA AddsNumbers ==
  ASSUME NEW S, IsFiniteSet(S), NEW V, V \in {Nat, Int}, NEW f \in [S -> V], NEW h, Adds(h, f)
  PROVE  h \in [SUBSET S -> V]
<1>. DEFINE Good == {s \in SUBSET S : h[s] \in V}
<1>1. 0 \in V /\ \A a, b \in V : a + b \in V
  OBVIOUS
<1>4. /\ DOMAIN h = SUBSET S /\ h[{}] = 0
      /\ \A s \in SUBSET S : s # {} => h[s] = f[First(s)] + h[s \ {First(s)}]
  <2>1. DOMAIN f = S
    OBVIOUS
  <2>. QED  BY <2>1, AddsSteps DEF Stepwise
<1>2. ASSUME NEW s \in SUBSET S, \A x \in s : s \ {x} \in Good
      PROVE  s \in Good
  <2>1. CASE s = {}
    BY <1>1, <1>4, <2>1
  <2>2. CASE s # {}
    <3>1. First(s) \in s
      BY <2>2, FirstIn
    <3>2. h[s] = f[First(s)] + h[s \ {First(s)}]
      BY <1>4, <2>2
    <3>3. f[First(s)] \in V /\ h[s \ {First(s)}] \in V
      BY <1>2, <3>1
    <3>. QED  BY <1>1, <3>2, <3>3
  <2>. QED  BY <2>1, <2>2
<1>3. \A s \in SUBSET S : s \in Good
  <2>. HIDE DEF Good
  <2>. QED  BY <1>2, BySize
<1>5. \A s \in SUBSET S : h[s] \in V
  BY <1>3
<1>6. h = [s \in SUBSET S |-> h[s]]
  <2>1. DOMAIN f = S
    OBVIOUS
  <2>2. h = [s \in SUBSET S |-> IF s = {} THEN 0 ELSE f[First(s)] + h[s \ {First(s)}]]
    BY <2>1 DEF Adds
  <2>. QED  BY <2>2
<1>. QED  BY <1>5, <1>6

\* Whichever element is taken first.
LEMMA AnyFirst ==
  ASSUME NEW S, IsFiniteSet(S), NEW f \in [S -> Int], NEW h, Adds(h, f)
  PROVE  \A s \in SUBSET S : \A x \in s : h[s] = f[x] + h[s \ {x}]
<1>. DEFINE Good == {s \in SUBSET S : \A x \in s : h[s] = f[x] + h[s \ {x}]}
<1>1. h \in [SUBSET S -> Int]
  BY AddsNumbers
<1>4. \A s \in SUBSET S : s # {} => h[s] = f[First(s)] + h[s \ {First(s)}]
  <2>1. DOMAIN f = S
    OBVIOUS
  <2>. QED  BY <2>1, AddsSteps DEF Stepwise
<1>2. ASSUME NEW s \in SUBSET S, \A x \in s : s \ {x} \in Good
      PROVE  s \in Good
  <2>. SUFFICES ASSUME NEW x \in s PROVE h[s] = f[x] + h[s \ {x}]
    OBVIOUS
  <2>. DEFINE y == First(s)
  <2>1. y \in s
    BY FirstIn
  <2>2. h[s] = f[y] + h[s \ {y}]
    BY <1>4
  <2>3. CASE x = y
    BY <2>2, <2>3
  <2>4. CASE x # y
    <3>. HIDE DEF y
    <3>1. h[s \ {y}] = f[x] + h[(s \ {y}) \ {x}]
      BY <1>2, <2>1, <2>4
    <3>2. h[s \ {x}] = f[y] + h[(s \ {x}) \ {y}]
      BY <1>2, <2>1, <2>4
    <3>3. (s \ {y}) \ {x} = (s \ {x}) \ {y}
      OBVIOUS
    <3>4. f[x] \in Int /\ f[y] \in Int /\ h[(s \ {x}) \ {y}] \in Int
      BY <1>1, <2>1
    <3>5. h[s] = f[y] + (f[x] + h[(s \ {x}) \ {y}])
      BY <2>2, <3>1, <3>3
    <3>6. f[y] + (f[x] + h[(s \ {x}) \ {y}]) = f[x] + (f[y] + h[(s \ {x}) \ {y}])
      BY <3>4
    <3>. QED  BY <3>2, <3>5, <3>6
  <2>. QED  BY <2>3, <2>4
<1>3. \A s \in SUBSET S : s \in Good
  <2>. HIDE DEF Good
  <2>. QED  BY <1>2, BySize
<1>. QED  BY <1>3

\* Totals of the same numbers are the same, also as part of a larger set of them.
LEMMA AddsAgree ==
  ASSUME NEW S, IsFiniteSet(S), NEW f, NEW h, Adds(h, f), NEW g, NEW k, Adds(k, g),
         S \subseteq DOMAIN f, S \subseteq DOMAIN g, \A x \in S : f[x] = g[x]
  PROVE  h[S] = k[S]
<1>. DEFINE Good == {s \in SUBSET S : h[s] = k[s]}
<1>4. /\ h[{}] = 0
      /\ \A s \in SUBSET S : s # {} => h[s] = f[First(s)] + h[s \ {First(s)}]
  <2>1. Stepwise(h, f)
    BY AddsSteps
  <2>2. SUBSET S \subseteq SUBSET DOMAIN f
    OBVIOUS
  <2>. QED  BY <2>1, <2>2 DEF Stepwise
<1>5. /\ k[{}] = 0
      /\ \A s \in SUBSET S : s # {} => k[s] = g[First(s)] + k[s \ {First(s)}]
  <2>1. Stepwise(k, g)
    BY AddsSteps
  <2>2. SUBSET S \subseteq SUBSET DOMAIN g
    OBVIOUS
  <2>. QED  BY <2>1, <2>2 DEF Stepwise
<1>2. ASSUME NEW s \in SUBSET S, \A x \in s : s \ {x} \in Good
      PROVE  s \in Good
  <2>1. CASE s = {}
    BY <1>4, <1>5, <2>1
  <2>2. CASE s # {}
    <3>1. First(s) \in s
      BY <2>2, FirstIn
    <3>2. h[s] = f[First(s)] + h[s \ {First(s)}]
      BY <1>4, <1>5, <2>2
    <3>3. k[s] = g[First(s)] + k[s \ {First(s)}]
      BY <1>4, <1>5, <2>2
    <3>. QED  BY <1>2, <3>1, <3>2, <3>3
  <2>. QED  BY <2>1, <2>2
<1>3. \A s \in SUBSET S : s \in Good
  <2>. HIDE DEF Good
  <2>. QED  BY <1>2, BySize
<1>. QED  BY <1>3

-----------------------------------------------------------------------------

LEMMA TotalAdds ==
  ASSUME NEW f, IsFiniteSet(DOMAIN f)
  PROVE  \E h : Adds(h, f) /\ Total(f) = h[DOMAIN f]
<1>. DEFINE h == CHOOSE h : Adds(h, f)
<1>1. Adds(h, f)
  BY AddsExists
<1>2. Total(f) = h[DOMAIN f]
  BY DEF Total
<1>. HIDE DEF h
<1>. QED  BY <1>1, <1>2

LEMMA TotalNumber ==
  ASSUME NEW S, IsFiniteSet(S), NEW V, V \in {Nat, Int}, NEW f \in [S -> V]
  PROVE  Total(f) \in V
<1>1. DOMAIN f = S
  OBVIOUS
<1>2. PICK h : Adds(h, f) /\ Total(f) = h[S]
  BY <1>1, TotalAdds
<1>3. h \in [SUBSET S -> V]
  BY <1>2, AddsNumbers
<1>. QED  BY <1>2, <1>3

LEMMA TotalOfNone == ASSUME NEW f, DOMAIN f = {} PROVE Total(f) = 0
<1>1. PICK h : Adds(h, f) /\ Total(f) = h[{}]
  BY TotalAdds, FS_EmptySet
<1>. QED  BY <1>1, AddsSteps DEF Stepwise

\* The same numbers have the same total.
LEMMA TotalSame ==
  ASSUME NEW f, NEW g, IsFiniteSet(DOMAIN f), DOMAIN f = DOMAIN g, \A x \in DOMAIN f : f[x] = g[x]
  PROVE  Total(f) = Total(g)
<1>1. PICK h : Adds(h, f) /\ Total(f) = h[DOMAIN f]
  BY TotalAdds
<1>2. PICK k : Adds(k, g) /\ Total(g) = k[DOMAIN g]
  BY TotalAdds
<1>. QED  BY <1>1, <1>2, AddsAgree

\* One more number adds to the total.
LEMMA TotalOneMore ==
  ASSUME NEW S, IsFiniteSet(S), NEW x, x \notin S,
         NEW f \in [S -> Int], NEW g \in [S \cup {x} -> Int], \A y \in S : f[y] = g[y]
  PROVE  Total(g) = Total(f) + g[x]
<1>1. PICK h : Adds(h, f) /\ Total(f) = h[S]
  BY TotalAdds
<1>2. IsFiniteSet(S \cup {x})
  BY FS_AddElement
<1>3. PICK k : Adds(k, g) /\ Total(g) = k[S \cup {x}]
  BY <1>2, TotalAdds
<1>4. (S \cup {x}) \ {x} = S
  OBVIOUS
<1>5. k[S \cup {x}] = g[x] + k[S]
  BY <1>2, <1>3, <1>4, AnyFirst
<1>6. h[S] = k[S]
  BY <1>1, <1>3, AddsAgree
<1>7. Total(f) \in Int /\ g[x] \in Int
  BY TotalNumber
<1>. QED  BY <1>1, <1>3, <1>5, <1>6, <1>7

\* A number taken away takes away from the total; one that changes changes it as much.
LEMMA TotalOneLess ==
  ASSUME NEW S, IsFiniteSet(S), NEW f \in [S -> Int], NEW x \in S
  PROVE  Total(f) = Total([y \in S \ {x} |-> f[y]]) + f[x]
<1>. DEFINE T == S \ {x}
            g == [y \in T |-> f[y]]
<1>1. IsFiniteSet(T) /\ x \notin T /\ T \cup {x} = S
  BY FS_RemoveElement
<1>2. g \in [T -> Int] /\ \A y \in T : g[y] = f[y]
  OBVIOUS
<1>3. f \in [T \cup {x} -> Int]
  BY <1>1
<1>. HIDE DEF g, T
<1>4. Total(f) = Total(g) + f[x]
  BY <1>1, <1>2, <1>3, TotalOneMore
<1>. QED  BY <1>4 DEF g, T

LEMMA TotalOneChanged ==
  ASSUME NEW S, IsFiniteSet(S), NEW f \in [S -> Int], NEW g \in [S -> Int], NEW x \in S,
         \A y \in S \ {x} : f[y] = g[y]
  PROVE  Total(g) = Total(f) + (g[x] - f[x])
<1>. DEFINE c == [y \in S \ {x} |-> f[y]]
            d == [y \in S \ {x} |-> g[y]]
<1>1. c = d
  OBVIOUS
<1>2. Total(f) = Total(c) + f[x] /\ Total(g) = Total(d) + g[x]
  BY TotalOneLess
<1>3. IsFiniteSet(S \ {x})
  BY FS_RemoveElement
<1>4. Total(c) \in Int
  BY <1>3, TotalNumber
<1>5. f[x] \in Int /\ g[x] \in Int
  OBVIOUS
<1>. HIDE DEF c, d
<1>. QED  BY <1>1, <1>2, <1>4, <1>5

\* A number that grows, or one more of them, adds as much to the total.
LEMMA TotalOneRaised ==
  ASSUME NEW S, IsFiniteSet(S), NEW x, NEW d \in Int, NEW f \in [S -> Int],
         NEW g \in [S \cup {x} -> Int], \A y \in S \ {x} : f[y] = g[y],
         g[x] = (IF x \in S THEN f[x] ELSE 0) + d
  PROVE  Total(g) = Total(f) + d
<1>1. Total(f) \in Int
  BY TotalNumber
<1>2. CASE x \in S
  <2>1. S \cup {x} = S
    BY <1>2
  <2>2. Total(g) = Total(f) + (g[x] - f[x])
    BY <1>2, <2>1, TotalOneChanged
  <2>3. f[x] \in Int /\ g[x] = f[x] + d
    BY <1>2
  <2>. QED  BY <1>1, <2>2, <2>3
<1>3. CASE x \notin S
  <2>1. Total(g) = Total(f) + g[x]
    BY <1>3, TotalOneMore
  <2>2. g[x] = d
    BY <1>3
  <2>. QED  BY <2>1, <2>2
<1>. QED  BY <1>2, <1>3

LEMMA TotalOfZeros ==
  ASSUME NEW S, IsFiniteSet(S), NEW f, f = [x \in S |-> 0]
  PROVE  Total(f) = 0
<1>. DEFINE Zeros(s) == [x \in s |-> 0]
            Good == {s \in SUBSET S : Total(Zeros(s)) = 0}
<1>1. ASSUME NEW s \in SUBSET S, \A x \in s : s \ {x} \in Good
      PROVE  s \in Good
  <2>1. CASE s = {}
    <3>1. Total(Zeros(s)) = 0
      BY <2>1, TotalOfNone
    <3>. QED  BY <3>1
  <2>2. ASSUME NEW x \in s PROVE s \in Good
    <3>. DEFINE t == s \ {x}
                g == Zeros(t)
                h == Zeros(s)
    <3>1. IsFiniteSet(t) /\ x \notin t /\ t \cup {x} = s /\ Total(g) = 0
      BY <1>1, <2>2, FS_Subset
    <3>2. /\ g \in [t -> Int] /\ h \in [t \cup {x} -> Int] /\ h[x] = 0
          /\ \A y \in t : g[y] = h[y]
      BY <2>2
    <3>. HIDE DEF g, h, t
    <3>3. Total(h) = Total(g) + h[x]
      BY <3>1, <3>2, TotalOneMore
    <3>. QED  BY <3>1, <3>2, <3>3 DEF h
  <2>. QED  BY <2>1, <2>2
<1>. HIDE DEF Good
<1>2. S \in Good
  BY <1>1, BySize
<1>. QED  BY <1>2 DEF Good

\* More and larger numbers have a larger total, if none is below zero.
LEMMA TotalGrows ==
  ASSUME NEW S, IsFiniteSet(S), NEW T \in SUBSET S, NEW f \in [T -> Nat], NEW g \in [S -> Nat],
         \A x \in T : f[x] <= g[x]
  PROVE  Total(f) <= Total(g)
<1>. DEFINE Some(s) == [x \in s \cap T |-> f[x]]
            All(s) == [x \in s |-> g[x]]
            Good == {s \in SUBSET S : Total(Some(s)) <= Total(All(s))}
<1>1. ASSUME NEW s \in SUBSET S, \A x \in s : s \ {x} \in Good
      PROVE  s \in Good
  <2>1. CASE s = {}
    <3>1. Total(Some(s)) = 0 /\ Total(All(s)) = 0
      BY <2>1, TotalOfNone
    <3>. QED  BY <3>1
  <2>2. ASSUME NEW x \in s PROVE s \in Good
    <3>. DEFINE t == s \ {x}
    <3>1. /\ IsFiniteSet(t) /\ IsFiniteSet(t \cap T) /\ x \notin t /\ t \cup {x} = s
          /\ Total(Some(t)) <= Total(All(t))
      BY <1>1, <2>2, FS_Subset
    <3>2. /\ Some(t) \in [t \cap T -> Nat] /\ All(t) \in [t -> Nat] /\ All(s) \in [s -> Nat]
          /\ \A y \in t : All(t)[y] = All(s)[y]
      OBVIOUS
    <3>3. Total(Some(t)) \in Nat /\ Total(All(t)) \in Nat
      <4>. HIDE DEF Some, All, t
      <4>. QED  BY <3>1, <3>2, TotalNumber
    <3>4. Total(All(s)) = Total(All(t)) + All(s)[x]
      <4>1. All(s) \in [t \cup {x} -> Int] /\ All(t) \in [t -> Int]
        BY <3>1, <3>2
      <4>. HIDE DEF Some, All, t
      <4>. QED  BY <3>1, <3>2, <4>1, TotalOneMore
    <3>5. CASE x \in T
      <4>. DEFINE u == t \cap T
      <4>1. /\ x \notin u /\ Some(t) \in [u -> Int] /\ Some(s) \in [u \cup {x} -> Int]
            /\ \A y \in u : Some(t)[y] = Some(s)[y]
        BY <2>2, <3>5
      <4>2. Total(Some(s)) = Total(Some(t)) + Some(s)[x]
        <5>. HIDE DEF Some, t
        <5>1. IsFiniteSet(u)
          BY <3>1
        <5>. HIDE DEF u
        <5>. QED  BY <4>1, <5>1, TotalOneMore
      <4>3. Some(s)[x] \in Nat /\ All(s)[x] \in Nat /\ Some(s)[x] <= All(s)[x]
        BY <2>2, <3>5
      <4>. HIDE DEF Some, All, t
      <4>. QED  BY <3>1, <3>3, <3>4, <4>2, <4>3
    <3>6. CASE x \notin T
      <4>1. Some(s) = Some(t) /\ All(s)[x] \in Nat
        BY <2>2, <3>6
      <4>. HIDE DEF Some, All, t
      <4>. QED  BY <3>1, <3>3, <3>4, <4>1
    <3>. QED  BY <3>5, <3>6
  <2>. QED  BY <2>1, <2>2
<1>2. S \in Good
  <2>. HIDE DEF Good
  <2>. QED  BY <1>1, BySize
<1>3. Some(S) = f /\ All(S) = g
  OBVIOUS
<1>. HIDE DEF Some, All
<1>. QED  BY <1>2, <1>3

\* Some of the numbers.
Portion(f, s) == [y \in s |-> f[y]]

LEMMA TotalExtended ==
  ASSUME NEW S, IsFiniteSet(S), NEW x, x \notin S, NEW f, \A y \in S \cup {x} : f[y] \in Int
  PROVE  /\ Total(Portion(f, S \cup {x})) = Total(Portion(f, S)) + f[x]
         /\ Total(Portion(f, S)) \in Int
<1>1. PICK a, b : a = Portion(f, S) /\ b = Portion(f, S \cup {x})
  OBVIOUS
<1>2. a \in [S -> Int] /\ b \in [S \cup {x} -> Int] /\ (\A y \in S : a[y] = b[y]) /\ b[x] = f[x]
  BY <1>1 DEF Portion
<1>3. Total(b) = Total(a) + b[x]
  BY <1>2, TotalOneMore
<1>4. Total(a) \in Int
  BY <1>2, TotalNumber
<1>. QED  BY <1>1, <1>2, <1>3, <1>4

\* A total is that of some of the numbers and that of the others.
LEMMA TotalSplit ==
  ASSUME NEW S, IsFiniteSet(S), NEW T \in SUBSET S, NEW f \in [S -> Int]
  PROVE  Total(f) = Total(Portion(f, T)) + Total(Portion(f, S \ T))
<1>. DEFINE All(s) == Portion(f, s)
            Good == {s \in SUBSET S : Total(All(s)) = Total(All(s \cap T)) + Total(All(s \ T))}
<1>1. ASSUME NEW s \in SUBSET S, \A x \in s : s \ {x} \in Good
      PROVE  s \in Good
  <2>1. CASE s = {}
    <3>1. Total(All(s)) = 0 /\ Total(All(s \cap T)) = 0 /\ Total(All(s \ T)) = 0
      BY <2>1, TotalOfNone DEF Portion
    <3>. QED  BY <3>1
  <2>2. ASSUME NEW x \in s PROVE s \in Good
    <3>1. PICK t : t = s \ {x}
      OBVIOUS
    <3>2. /\ t \in SUBSET S /\ IsFiniteSet(t) /\ IsFiniteSet(t \cap T) /\ IsFiniteSet(t \ T)
          /\ x \notin t /\ t \cup {x} = s
          /\ Total(All(t)) = Total(All(t \cap T)) + Total(All(t \ T))
      BY <1>1, <2>2, <3>1, FS_Subset
    <3>3. ASSUME NEW u \in SUBSET S, IsFiniteSet(u), x \notin u
          PROVE  Total(All(u \cup {x})) = Total(All(u)) + f[x] /\ Total(All(u)) \in Int
      <4>1. \A y \in u \cup {x} : f[y] \in Int
        BY <2>2
      <4>2. /\ Total(Portion(f, u \cup {x})) = Total(Portion(f, u)) + f[x]
            /\ Total(Portion(f, u)) \in Int
        BY <3>3, <4>1, TotalExtended
      <4>. QED  BY <4>2
    <3>4. f[x] \in Int
      BY <2>2
    <3>5. Total(All(s)) = Total(All(t)) + f[x] /\ Total(All(t)) \in Int
      <4>. HIDE DEF All
      <4>. QED  BY <3>2, <3>3
    <3>6. CASE x \in T
      <4>1. s \cap T = (t \cap T) \cup {x} /\ s \ T = t \ T
        BY <3>1, <3>6
      <4>2. Total(All(s \cap T)) = Total(All(t \cap T)) + f[x] /\ Total(All(t \cap T)) \in Int
        <5>1. t \cap T \in SUBSET S /\ x \notin t \cap T
          BY <3>2
        <5>. HIDE DEF All
        <5>. QED  BY <3>2, <3>3, <4>1, <5>1
      <4>3. Total(All(t \ T)) \in Int
        <5>1. t \ T \in SUBSET S /\ x \notin t \ T
          BY <3>2
        <5>. HIDE DEF All
        <5>. QED  BY <3>2, <3>3, <5>1
      <4>4. Total(All(s)) = Total(All(s \cap T)) + Total(All(s \ T))
        <5>1. /\ s \cap T = t \cap T => Total(All(s \cap T)) = Total(All(t \cap T))
              /\ s \ T = t \ T => Total(All(s \ T)) = Total(All(t \ T))
          OBVIOUS
        <5>. HIDE DEF All
        <5>. QED  BY <3>2, <3>4, <3>5, <4>1, <4>2, <4>3, <5>1
      <4>. QED  BY <4>4
    <3>7. CASE x \notin T
      <4>1. s \cap T = t \cap T /\ s \ T = (t \ T) \cup {x}
        BY <2>2, <3>1, <3>7
      <4>2. Total(All(s \ T)) = Total(All(t \ T)) + f[x] /\ Total(All(t \ T)) \in Int
        <5>1. t \ T \in SUBSET S /\ x \notin t \ T
          BY <3>2
        <5>. HIDE DEF All
        <5>. QED  BY <3>2, <3>3, <4>1, <5>1
      <4>3. Total(All(t \cap T)) \in Int
        <5>1. t \cap T \in SUBSET S /\ x \notin t \cap T
          BY <3>2
        <5>. HIDE DEF All
        <5>. QED  BY <3>2, <3>3, <5>1
      <4>4. Total(All(s)) = Total(All(s \cap T)) + Total(All(s \ T))
        <5>1. /\ s \cap T = t \cap T => Total(All(s \cap T)) = Total(All(t \cap T))
              /\ s \ T = t \ T => Total(All(s \ T)) = Total(All(t \ T))
          OBVIOUS
        <5>. HIDE DEF All
        <5>. QED  BY <3>2, <3>4, <3>5, <4>1, <4>2, <4>3, <5>1
      <4>. QED  BY <4>4
    <3>. QED  BY <3>6, <3>7
  <2>. QED  BY <2>1, <2>2
<1>2. S \in Good
  <2>. HIDE DEF Good
  <2>. QED  BY <1>1, BySize
<1>3. All(S) = f /\ S \cap T = T
  BY DEF Portion
<1>4. Total(All(S)) = Total(All(S \cap T)) + Total(All(S \ T))
  BY <1>2
<1>. HIDE DEF Good
<1>. QED  BY <1>3, <1>4

\* Numbers that are nothing may be left out.
LEMMA TotalPadded ==
  ASSUME NEW S, IsFiniteSet(S), NEW T \in SUBSET S, NEW f \in [S -> Int],
         \A x \in S \ T : f[x] = 0
  PROVE  Total(f) = Total(Portion(f, T))
<1>. DEFINE rest == Portion(f, S \ T)
            some == Portion(f, T)
<1>1. rest = [x \in S \ T |-> 0] /\ some \in [T -> Int]
  BY DEF Portion
<1>2. IsFiniteSet(S \ T) /\ IsFiniteSet(T)
  BY FS_Subset
<1>3. Total(f) = Total(some) + Total(rest)
  BY TotalSplit
<1>. HIDE DEF rest, some
<1>4. Total(rest) = 0 /\ Total(some) \in Int
  BY <1>1, <1>2, TotalOfZeros, TotalNumber
<1>5. Total(f) = Total(some)
  BY <1>3, <1>4
<1>. QED  BY <1>5 DEF some

\* Numbers added one by one.
LEMMA TotalOfSums ==
  ASSUME NEW S, IsFiniteSet(S), NEW f \in [S -> Int], NEW g \in [S -> Int],
         NEW h \in [S -> Int], \A x \in S : h[x] = f[x] + g[x]
  PROVE  Total(h) = Total(f) + Total(g)
<1>. DEFINE Of(k, s) == Portion(k, s)
            Good == {s \in SUBSET S : Total(Of(h, s)) = Total(Of(f, s)) + Total(Of(g, s))}
<1>1. ASSUME NEW s \in SUBSET S, \A x \in s : s \ {x} \in Good
      PROVE  s \in Good
  <2>1. CASE s = {}
    <3>1. Total(Of(h, s)) = 0 /\ Total(Of(f, s)) = 0 /\ Total(Of(g, s)) = 0
      BY <2>1, TotalOfNone DEF Portion
    <3>. QED  BY <3>1
  <2>2. ASSUME NEW x \in s PROVE s \in Good
    <3>1. PICK t : t = s \ {x}
      OBVIOUS
    <3>2. /\ t \in SUBSET S /\ IsFiniteSet(t) /\ x \notin t /\ t \cup {x} = s
          /\ Total(Of(h, t)) = Total(Of(f, t)) + Total(Of(g, t))
      BY <1>1, <2>2, <3>1, FS_Subset
    <3>3. ASSUME NEW k \in [S -> Int]
          PROVE  Total(Of(k, s)) = Total(Of(k, t)) + k[x] /\ Total(Of(k, t)) \in Int /\ k[x] \in Int
      <4>1. (\A y \in t \cup {x} : k[y] \in Int) /\ k[x] \in Int
        BY <2>2, <3>2
      <4>2. /\ Total(Portion(k, t \cup {x})) = Total(Portion(k, t)) + k[x]
            /\ Total(Portion(k, t)) \in Int
        BY <3>2, <4>1, TotalExtended
      <4>3. Total(Of(k, s)) = Total(Of(k, t \cup {x}))
        BY <3>2
      <4>. QED  BY <4>1, <4>2, <4>3
    <3>4. /\ Total(Of(h, s)) = Total(Of(h, t)) + h[x] /\ Total(Of(f, s)) = Total(Of(f, t)) + f[x]
          /\ Total(Of(g, s)) = Total(Of(g, t)) + g[x] /\ f[x] \in Int /\ g[x] \in Int
          /\ Total(Of(f, t)) \in Int /\ Total(Of(g, t)) \in Int
      <4>. HIDE DEF Of
      <4>. QED  BY <3>3
    <3>5. h[x] = f[x] + g[x]
      BY <2>2
    <3>6. Total(Of(h, s)) = Total(Of(f, s)) + Total(Of(g, s))
      <4>. HIDE DEF Of
      <4>. QED  BY <3>2, <3>4, <3>5
    <3>. QED  BY <3>6
  <2>. QED  BY <2>1, <2>2
<1>2. S \in Good
  <2>1. \A s \in SUBSET S : (\A x \in s : s \ {x} \in Good) => s \in Good
    BY <1>1
  <2>. HIDE DEF Good
  <2>2. \A s \in SUBSET S : s \in Good
    BY <2>1, BySize
  <2>. QED  BY <2>2
<1>3. Of(h, S) = h /\ Of(f, S) = f /\ Of(g, S) = g
  BY DEF Portion
<1>4. Total(Of(h, S)) = Total(Of(f, S)) + Total(Of(g, S))
  BY <1>2
<1>. HIDE DEF Good
<1>. QED  BY <1>3, <1>4

\* The community module's sum is the total.
LEMMA FunctionSumIsTotal ==
  ASSUME NEW f
  PROVE  SumFunction(f) = Total(f)
BY DEF SumFunction, SumFunctionOnSet, FoldFunctionOnSet, MapThenFoldSet, Total, Adds, First

\* The total of as many ones is how many they are.
Ones(s) == [x \in s |-> 1]

LEMMA TotalOfOnes ==
  ASSUME NEW S, IsFiniteSet(S)
  PROVE  Total(Ones(S)) = Cardinality(S)
<1>. DEFINE Good == {s \in SUBSET S : Total(Ones(s)) = Cardinality(s)}
<1>1. ASSUME NEW s \in SUBSET S, \A x \in s : s \ {x} \in Good
      PROVE  s \in Good
  <2>1. CASE s = {}
    <3>1. Total(Ones(s)) = 0
      BY <2>1, TotalOfNone DEF Ones
    <3>. QED  BY <2>1, <3>1, FS_EmptySet
  <2>2. ASSUME NEW x \in s PROVE s \in Good
    <3>1. PICK t : t = s \ {x}
      OBVIOUS
    <3>2. /\ IsFiniteSet(t) /\ IsFiniteSet(s) /\ x \notin t /\ t \cup {x} = s
          /\ Total(Ones(t)) = Cardinality(t)
      BY <1>1, <2>2, <3>1, FS_Subset
    <3>3. PICK a, b : a = Ones(t) /\ b = Ones(s)
      OBVIOUS
    <3>4. a \in [t -> Int] /\ b \in [t \cup {x} -> Int] /\ b[x] = 1 /\ \A y \in t : a[y] = b[y]
      BY <3>2, <3>3 DEF Ones
    <3>5. Total(b) = Total(a) + b[x]
      BY <3>2, <3>4, TotalOneMore
    <3>6. Cardinality(s) = Cardinality(t) + 1
      BY <3>2, FS_AddElement
    <3>. QED  BY <3>2, <3>3, <3>4, <3>5, <3>6
  <2>. QED  BY <2>1, <2>2
<1>2. S \in Good
  <2>1. \A s \in SUBSET S : (\A x \in s : s \ {x} \in Good) => s \in Good
    BY <1>1
  <2>. HIDE DEF Good
  <2>2. \A s \in SUBSET S : s \in Good
    BY <2>1, BySize
  <2>. QED  BY <2>2
<1>. QED  BY <1>2

\* A total is that of the totals of groups.
InGroup(key, s, g) == {x \in s : key[x] = g}
ByGroup(f, key, s, groups) == [g \in groups |-> Total(Portion(f, InGroup(key, s, g)))]

LEMMA TotalByGroups ==
  ASSUME NEW S, IsFiniteSet(S), NEW f \in [S -> Int], NEW G, IsFiniteSet(G), NEW key \in [S -> G]
  PROVE  /\ Total(f) = Total(ByGroup(f, key, S, G))
         /\ ByGroup(f, key, S, G) \in [G -> Int]
<1>. DEFINE Good == {s \in SUBSET S : Total(Portion(f, s)) = Total(ByGroup(f, key, s, G))}
<1>1. ASSUME NEW s \in SUBSET S, NEW g \in G
      PROVE  ByGroup(f, key, s, G)[g] = Total(Portion(f, InGroup(key, s, g)))
             /\ ByGroup(f, key, s, G)[g] \in Int
  <2>1. InGroup(key, s, g) \in SUBSET S /\ IsFiniteSet(InGroup(key, s, g))
    BY FS_Subset DEF InGroup
  <2>2. Portion(f, InGroup(key, s, g)) \in [InGroup(key, s, g) -> Int]
    BY <2>1 DEF Portion
  <2>3. Total(Portion(f, InGroup(key, s, g))) \in Int
    BY <2>1, <2>2, TotalNumber
  <2>. QED  BY <2>3 DEF ByGroup
<1>2. ASSUME NEW s \in SUBSET S PROVE ByGroup(f, key, s, G) \in [G -> Int]
  <2>1. ByGroup(f, key, s, G) = [g \in G |-> ByGroup(f, key, s, G)[g]]
    BY DEF ByGroup
  <2>. QED  BY <1>1, <2>1
<1>3. ASSUME NEW s \in SUBSET S, \A x \in s : s \ {x} \in Good
      PROVE  s \in Good
  <2>1. CASE s = {}
    <3>1. Total(Portion(f, s)) = 0
      BY <2>1, TotalOfNone DEF Portion
    <3>2. ASSUME NEW g \in G PROVE ByGroup(f, key, s, G)[g] = 0
      <4>1. DOMAIN Portion(f, InGroup(key, s, g)) = {}
        BY <2>1 DEF Portion, InGroup
      <4>. QED  BY <1>1, <4>1, TotalOfNone
    <3>3. ByGroup(f, key, s, G) = [g \in G |-> 0]
      BY <1>2, <3>2
    <3>4. Total(ByGroup(f, key, s, G)) = 0
      BY <3>3, TotalOfZeros
    <3>. QED  BY <3>1, <3>4
  <2>2. ASSUME NEW x \in s PROVE s \in Good
    <3>1. PICK t : t = s \ {x}
      OBVIOUS
    <3>2. /\ t \in SUBSET S /\ IsFiniteSet(t) /\ x \notin t /\ t \cup {x} = s
          /\ Total(Portion(f, t)) = Total(ByGroup(f, key, t, G)) /\ f[x] \in Int
      BY <1>3, <2>2, <3>1, FS_Subset
    <3>3. Total(Portion(f, s)) = Total(Portion(f, t)) + f[x]
      <4>1. \A y \in t \cup {x} : f[y] \in Int
        BY <3>2
      <4>. QED  BY <3>2, <4>1, TotalExtended
    <3>4. PICK k \in G : k = key[x]
      BY <2>2
    <3>5. PICK a, b : a = ByGroup(f, key, t, G) /\ b = ByGroup(f, key, s, G)
      OBVIOUS
    <3>6. ASSUME NEW g \in G, g # k PROVE a[g] = b[g]
      <4>1. InGroup(key, s, g) = InGroup(key, t, g)
        BY <3>2, <3>4, <3>6 DEF InGroup
      <4>. QED  BY <1>1, <3>2, <3>5, <4>1
    <3>7. b[k] = a[k] + f[x]
      <4>1. PICK i : i = InGroup(key, t, k)
        OBVIOUS
      <4>2. InGroup(key, s, k) = i \cup {x} /\ x \notin i /\ i \in SUBSET S /\ IsFiniteSet(i)
        <5>1. InGroup(key, s, k) = i \cup {x} /\ x \notin i /\ i \in SUBSET S /\ i \in SUBSET t
          BY <2>2, <3>2, <3>4, <4>1 DEF InGroup
        <5>. QED  BY <3>2, <5>1, FS_Subset
      <4>3. \A y \in i \cup {x} : f[y] \in Int
        BY <2>2, <4>2
      <4>4. Total(Portion(f, i \cup {x})) = Total(Portion(f, i)) + f[x]
        BY <4>2, <4>3, TotalExtended
      <4>. QED  BY <1>1, <3>2, <3>5, <4>1, <4>2, <4>4
    <3>8. a \in [G -> Int] /\ b \in [G -> Int]
      BY <1>2, <3>2, <3>5
    <3>9. Total(b) = Total(a) + (b[k] - a[k]) /\ Total(a) \in Int
      <4>1. \A g \in G \ {k} : a[g] = b[g]
        BY <3>6
      <4>. QED  BY <3>8, <4>1, TotalOneChanged, TotalNumber
    <3>10. a[k] \in Int
      BY <3>8
    <3>. QED  BY <3>2, <3>3, <3>5, <3>7, <3>9, <3>10
  <2>. QED  BY <2>1, <2>2
<1>4. S \in Good
  <2>1. \A s \in SUBSET S : (\A x \in s : s \ {x} \in Good) => s \in Good
    BY <1>3
  <2>. HIDE DEF Good
  <2>2. \A s \in SUBSET S : s \in Good
    BY <2>1, BySize
  <2>. QED  BY <2>2
<1>5. Portion(f, S) = f
  BY DEF Portion
<1>. QED  BY <1>2, <1>4, <1>5
===============================================================================
