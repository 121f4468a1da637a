-------------------------------- MODULE Sums --------------------------------
(***************************************************************************)
(* Facts about SumFunctionOnSet(f, S), the sum of f[x] for x in a finite   *)
(* set S: what the models count rewards, levels and spell points with.     *)
(*                                                                         *)
(* The sum takes its elements one by one in an order given by CHOOSE.      *)
(* That it is a number, that any element can be taken first, and that it   *)
(* only depends on the values of f over S are shown by induction over the  *)
(* subsets of S.  An induction theorem over a predicate cannot be applied  *)
(* here, so each takes the set of the counterexamples, and of it a minimal *)
(* one, which MinimalSubset provides.                                      *)
(***************************************************************************)
EXTENDS Integers, FiniteSets, Functions, FiniteSetTheorems, WellFoundedInduction, TLAPS

\* Of a nonempty family of subsets of a finite set, one has no other inside.
LEMMA MinimalSubset ==
    ASSUME NEW S, IsFiniteSet(S), NEW T, T \subseteq SUBSET S, T # {}
    PROVE  \E t \in T : \A u \in T : u \subseteq t => u = t
<1>1. T \subseteq FiniteSubsetsOf(S)
  BY FS_FiniteSubsetsOfFinite
<1>2. \E t \in T : \A u \in T : <<u, t>> \notin StrictSubsetOrdering(S)
  BY <1>1, FS_StrictSubsetOrderingWellFounded, WFMin
<1>. QED  BY <1>2 DEF StrictSubsetOrdering

Chosen(s) == CHOOSE x \in s : TRUE

\* it is a function that sums as the library does, over the subsets of S.
Sums(it, f, S) ==
    it = [s \in SUBSET S |-> IF s = {} THEN 0 ELSE f[Chosen(s)] + it[s \ {Chosen(s)}]]

\* The library's sum is the value for S of such a function.
LEMMA SumIsRecursive ==
    ASSUME NEW f, NEW S
    PROVE  SumFunctionOnSet(f, S) = (CHOOSE it : Sums(it, f, S))[S]
BY DEF SumFunctionOnSet, FoldFunctionOnSet, Sums, Chosen, MapThenFoldSet

LEMMA ChosenIn == \A s : s # {} => Chosen(s) \in s
BY DEF Chosen

\* Two of them agree where both are defined.
LEMMA SumsAgree ==
    ASSUME NEW f, NEW S, IsFiniteSet(S), NEW S1, NEW S2, S \subseteq S1, S \subseteq S2,
           NEW g, Sums(g, f, S1), NEW h, Sums(h, f, S2)
    PROVE  g[S] = h[S]
<1> DEFINE T == {t \in SUBSET S : g[t] # h[t]}
<1>1. SUFFICES ASSUME T # {} PROVE FALSE
  OBVIOUS
<1>2. PICK t \in T : \A u \in T : u \subseteq t => u = t
  <2>1. T \subseteq SUBSET S
    OBVIOUS
  <2> HIDE DEF T
  <2>2. \E t \in T : \A u \in T : u \subseteq t => u = t
    BY <1>1, <2>1, MinimalSubset
  <2>. QED  BY <2>2
<1>3. t \in SUBSET S1 /\ t \in SUBSET S2
  OBVIOUS
<1>4. CASE t = {}
  BY <1>3, <1>4 DEF Sums
<1>5. CASE t # {}
  <2>1. Chosen(t) \in t
    BY <1>5, ChosenIn
  <2> DEFINE u == t \ {Chosen(t)}
  <2>2. g[t] = f[Chosen(t)] + g[u] /\ h[t] = f[Chosen(t)] + h[u]
    BY <1>3, <1>5 DEF Sums
  <2>3. u \subseteq t /\ u # t
    BY <2>1
  <2>4. u \notin T
    BY <2>3, <1>2
  <2>5. g[u] = h[u]
    BY <2>4
  <2>. QED  BY <2>2, <2>5
<1>. QED  BY <1>4, <1>5

\* There is one.
LEMMA SumsExist ==
    ASSUME NEW f, NEW S, IsFiniteSet(S)
    PROVE  \E it : Sums(it, f, S)
<1> DEFINE T == {t \in SUBSET S : ~ \E it : Sums(it, f, t)}
<1>1. SUFFICES ASSUME T # {} PROVE FALSE
  OBVIOUS
<1>2. PICK t \in T : \A u \in T : u \subseteq t => u = t
  <2>1. T \subseteq SUBSET S
    OBVIOUS
  <2> HIDE DEF T
  <2>2. \E t \in T : \A u \in T : u \subseteq t => u = t
    BY <1>1, <2>1, MinimalSubset
  <2>. QED  BY <2>2
<1> DEFINE of(u) == CHOOSE it : Sums(it, f, u)
<1>3. ASSUME NEW u, u \subseteq t, u # t
      PROVE  Sums(of(u), f, u)
  BY <1>2, <1>3
<1>4. IsFiniteSet(t)
  BY FS_Subset
<1> DEFINE it == [s \in SUBSET t |-> IF s = {} THEN 0 ELSE f[Chosen(s)] + of(s \ {Chosen(s)})[s \ {Chosen(s)}]]
<1> HIDE DEF of
<1>5. ASSUME NEW u, u \subseteq t, u # t
      PROVE  it[u] = of(u)[u]
  <2>1. CASE u = {}
    <3>1. Sums(of(u), f, u)
      BY <1>3, <1>5
    <3>2. of(u)[u] = 0
      BY <3>1, <2>1 DEF Sums
    <3>. QED  BY <3>2, <2>1, <1>5
  <2>2. CASE u # {}
    <3> DEFINE v == u \ {Chosen(u)}
    <3>1. Chosen(u) \in u
      BY <2>2, ChosenIn
    <3>2. v \subseteq u /\ v # u /\ v \subseteq t /\ v # t
      BY <3>1, <1>5
    <3>3. Sums(of(u), f, u) /\ Sums(of(v), f, v)
      BY <1>3, <1>5, <3>2
    <3>4. of(u)[u] = f[Chosen(u)] + of(u)[v]
      BY <3>3, <2>2 DEF Sums
    <3>5. IsFiniteSet(v)
      BY <1>4, <3>2, FS_Subset
    <3>6. of(u)[v] = of(v)[v]
      BY <3>2, <3>3, <3>5, SumsAgree
    <3>. QED  BY <3>4, <3>6, <2>2, <1>5
  <2>. QED  BY <2>1, <2>2
<1>6. ASSUME NEW s \in SUBSET t, s # {}
      PROVE  it[s] = f[Chosen(s)] + it[s \ {Chosen(s)}]
  <2>1. Chosen(s) \in s
    BY <1>6, ChosenIn
  <2> DEFINE v == s \ {Chosen(s)}
  <2>2. v \subseteq t /\ v # t
    BY <2>1
  <2>3. it[v] = of(v)[v]
    BY <2>2, <1>5
  <2>. QED  BY <2>3, <1>6
<1>7. it[{}] = 0
  OBVIOUS
<1>8. it = [s \in SUBSET t |-> it[s]]
  OBVIOUS
<1> HIDE DEF it
<1>9. it = [s \in SUBSET t |-> IF s = {} THEN 0 ELSE f[Chosen(s)] + it[s \ {Chosen(s)}]]
  BY <1>6, <1>7, <1>8
<1>10. Sums(it, f, t)
  BY <1>9 DEF Sums
<1>. QED  BY <1>10, <1>2

\* The sum over no element, and over one more than a smaller set has.
LEMMA SumEmpty == \A f : SumFunctionOnSet(f, {}) = 0
<1>1. TAKE f
<1>2. \E it : Sums(it, f, {})
  BY SumsExist, FS_EmptySet
<1>3. Sums(CHOOSE it : Sums(it, f, {}), f, {})
  BY <1>2
<1> DEFINE it == CHOOSE g : Sums(g, f, {})
<1>4. it[{}] = 0
  <2> HIDE DEF it
  <2>1. Sums(it, f, {})
    BY <1>3 DEF it
  <2>. QED  BY <2>1 DEF Sums
<1>. QED  BY <1>4, SumIsRecursive

LEMMA SumStep ==
    ASSUME NEW f, NEW S, IsFiniteSet(S), S # {}
    PROVE  SumFunctionOnSet(f, S) = f[Chosen(S)] + SumFunctionOnSet(f, S \ {Chosen(S)})
<1> DEFINE of(u) == CHOOSE it : Sums(it, f, u)
           v == S \ {Chosen(S)}
<1>1. \A u : SumFunctionOnSet(f, u) = of(u)[u]
  BY SumIsRecursive
<1>2. ASSUME NEW u, IsFiniteSet(u) PROVE Sums(of(u), f, u)
  BY <1>2, SumsExist
<1> HIDE DEF of
<1>3. IsFiniteSet(v)
  BY FS_Subset
<1>4. of(S)[S] = f[Chosen(S)] + of(S)[v]
  BY <1>2 DEF Sums
<1>5. of(S)[v] = of(v)[v]
  <2>1. Sums(of(S), f, S) /\ Sums(of(v), f, v)
    BY <1>2, <1>3
  <2>2. v \subseteq S
    OBVIOUS
  <2> HIDE DEF v
  <2>3. \A g, h : Sums(g, f, S) /\ Sums(h, f, v) => g[v] = h[v]
    BY <2>2, <1>3, SumsAgree
  <2>. QED  BY <2>1, <2>3
<1>. QED  BY <1>1, <1>4, <1>5

----------------------------------------------------------------------------
\* The sum of integers is one.
LEMMA SumIsInt ==
    ASSUME NEW S, IsFiniteSet(S), NEW f, \A x \in S : f[x] \in Int
    PROVE  SumFunctionOnSet(f, S) \in Int
<1> DEFINE T == {t \in SUBSET S : SumFunctionOnSet(f, t) \notin Int}
<1>1. SUFFICES ASSUME T # {} PROVE FALSE
  OBVIOUS
<1>2. PICK t \in T : \A u \in T : u \subseteq t => u = t
  <2>1. T \subseteq SUBSET S
    OBVIOUS
  <2> HIDE DEF T
  <2>2. \E t \in T : \A u \in T : u \subseteq t => u = t
    BY <1>1, <2>1, MinimalSubset
  <2>. QED  BY <2>2
<1>3. t # {}
  <2>1. SumFunctionOnSet(f, {}) \in Int
    BY SumEmpty
  <2>2. SumFunctionOnSet(f, t) \notin Int
    OBVIOUS
  <2>. QED  BY <2>1, <2>2
<1> DEFINE v == t \ {Chosen(t)}
<1>4. Chosen(t) \in t
  BY <1>3, ChosenIn
<1>5. v \subseteq t /\ v # t
  BY <1>4
<1>6. SumFunctionOnSet(f, v) \in Int
  BY <1>2, <1>5
<1>7. IsFiniteSet(t)
  BY FS_Subset
<1>8. SumFunctionOnSet(f, t) = f[Chosen(t)] + SumFunctionOnSet(f, v)
  BY <1>3, <1>7, SumStep
<1>9. f[Chosen(t)] \in Int
  BY <1>4
<1>. QED  BY <1>2, <1>6, <1>8, <1>9

\* The sum of naturals is one.
LEMMA SumIsNat ==
    ASSUME NEW S, IsFiniteSet(S), NEW f, \A x \in S : f[x] \in Nat
    PROVE  SumFunctionOnSet(f, S) \in Nat
<1> DEFINE T == {t \in SUBSET S : SumFunctionOnSet(f, t) \notin Nat}
<1>1. SUFFICES ASSUME T # {} PROVE FALSE
  OBVIOUS
<1>2. PICK t \in T : \A u \in T : u \subseteq t => u = t
  <2>1. T \subseteq SUBSET S
    OBVIOUS
  <2> HIDE DEF T
  <2>2. \E t \in T : \A u \in T : u \subseteq t => u = t
    BY <1>1, <2>1, MinimalSubset
  <2>. QED  BY <2>2
<1>3. t # {}
  <2>1. SumFunctionOnSet(f, {}) \in Nat
    BY SumEmpty
  <2>2. SumFunctionOnSet(f, t) \notin Nat
    OBVIOUS
  <2>. QED  BY <2>1, <2>2
<1> DEFINE v == t \ {Chosen(t)}
<1>4. Chosen(t) \in t
  BY <1>3, ChosenIn
<1>5. v \subseteq t /\ v # t
  BY <1>4
<1>6. SumFunctionOnSet(f, v) \in Nat
  BY <1>2, <1>5
<1>7. IsFiniteSet(t)
  BY FS_Subset
<1>8. SumFunctionOnSet(f, t) = f[Chosen(t)] + SumFunctionOnSet(f, v)
  BY <1>3, <1>7, SumStep
<1>9. f[Chosen(t)] \in Nat
  BY <1>4
<1>. QED  BY <1>2, <1>6, <1>8, <1>9

\* Any element may be taken out of the sum.
LEMMA SumWithout ==
    ASSUME NEW S, IsFiniteSet(S), NEW f, \A y \in S : f[y] \in Int, NEW x \in S
    PROVE  SumFunctionOnSet(f, S) = f[x] + SumFunctionOnSet(f, S \ {x})
<1> DEFINE Holds(t, y) == SumFunctionOnSet(f, t) = f[y] + SumFunctionOnSet(f, t \ {y})
           T == {t \in SUBSET S : \E y \in t : ~ Holds(t, y)}
<1>1. SUFFICES ASSUME T # {} PROVE FALSE
  OBVIOUS
<1>2. PICK t \in T : \A u \in T : u \subseteq t => u = t
  <2>1. T \subseteq SUBSET S
    OBVIOUS
  <2> HIDE DEF T
  <2>2. \E t \in T : \A u \in T : u \subseteq t => u = t
    BY <1>1, <2>1, MinimalSubset
  <2>. QED  BY <2>2
<1>3. PICK y \in t : ~ Holds(t, y)
  BY <1>2
<1> DEFINE c == Chosen(t)
           v == t \ {c}
           w == t \ {y}
<1>4. c \in t /\ y \in t
  BY <1>3, ChosenIn
<1>5. IsFiniteSet(t)
  BY FS_Subset
<1>6. Holds(t, c)
  BY <1>4, <1>5, SumStep
<1>7. c # y
  BY <1>3, <1>6
<1>8. Holds(v, y)
  <2>1. v \notin T /\ v \in SUBSET S /\ y \in v
    BY <1>2, <1>4, <1>7
  <2> HIDE DEF Holds, v
  <2>. QED  BY <2>1
<1>9. Holds(w, c)
  <2>1. w \notin T /\ w \in SUBSET S /\ c \in w
    BY <1>2, <1>4, <1>7
  <2> HIDE DEF Holds, w, c
  <2>. QED  BY <2>1
<1>10. v \ {y} = w \ {c}
  OBVIOUS
<1>11. /\ f[c] \in Int /\ f[y] \in Int
       /\ SumFunctionOnSet(f, v \ {y}) \in Int
  <2>1. IsFiniteSet(v \ {y})
    BY <1>5, FS_Subset
  <2>2. \A z \in v \ {y} : f[z] \in Int
    OBVIOUS
  <2>3. SumFunctionOnSet(f, v \ {y}) \in Int
    BY <2>1, <2>2, SumIsInt
  <2>4. f[c] \in Int /\ f[y] \in Int
    BY <1>4
  <2>. QED  BY <2>3, <2>4
<1>12. Holds(t, y)
  <2>1. SumFunctionOnSet(f, t) = f[c] + SumFunctionOnSet(f, v)
    BY <1>6
  <2>2. SumFunctionOnSet(f, v) = f[y] + SumFunctionOnSet(f, v \ {y})
    BY <1>8
  <2>3. SumFunctionOnSet(f, w) = f[c] + SumFunctionOnSet(f, v \ {y})
    BY <1>9, <1>10
  <2> DEFINE a == SumFunctionOnSet(f, v \ {y})
  <2> HIDE DEF a, c, v
  <2>4. a \in Int /\ f[c] \in Int /\ f[y] \in Int
    BY <1>11 DEF a
  <2>5. SumFunctionOnSet(f, t) = f[c] + (f[y] + a) /\ SumFunctionOnSet(f, w) = f[c] + a
    BY <2>1, <2>2, <2>3 DEF a
  <2>6. SumFunctionOnSet(f, t) = f[y] + SumFunctionOnSet(f, w)
    <3> HIDE DEF w
    <3>. QED  BY <2>4, <2>5
  <2>. QED  BY <2>6
<1>. QED  BY <1>3, <1>12

LEMMA SumWith ==
    ASSUME NEW S, IsFiniteSet(S), NEW x, x \notin S, NEW f, \A y \in S \cup {x} : f[y] \in Int
    PROVE  SumFunctionOnSet(f, S \cup {x}) = SumFunctionOnSet(f, S) + f[x]
<1>1. IsFiniteSet(S \cup {x})
  BY FS_AddElement
<1>2. (S \cup {x}) \ {x} = S
  OBVIOUS
<1>3. SumFunctionOnSet(f, S \cup {x}) = f[x] + SumFunctionOnSet(f, S)
  BY <1>1, <1>2, SumWithout
<1>4. SumFunctionOnSet(f, S) \in Int /\ f[x] \in Int
  BY SumIsInt
<1>. QED  BY <1>3, <1>4

\* Only the values over the set count.
LEMMA SumEqual ==
    ASSUME NEW S, IsFiniteSet(S), NEW f, NEW g, \A x \in S : f[x] = g[x], \A x \in S : f[x] \in Int
    PROVE  SumFunctionOnSet(f, S) = SumFunctionOnSet(g, S)
<1> DEFINE T == {t \in SUBSET S : SumFunctionOnSet(f, t) # SumFunctionOnSet(g, t)}
<1>1. SUFFICES ASSUME T # {} PROVE FALSE
  OBVIOUS
<1>2. PICK t \in T : \A u \in T : u \subseteq t => u = t
  <2>1. T \subseteq SUBSET S
    OBVIOUS
  <2> HIDE DEF T
  <2>2. \E t \in T : \A u \in T : u \subseteq t => u = t
    BY <1>1, <2>1, MinimalSubset
  <2>. QED  BY <2>2
<1>3. t # {}
  BY <1>2, SumEmpty
<1> DEFINE v == t \ {Chosen(t)}
<1>4. Chosen(t) \in t
  BY <1>3, ChosenIn
<1>5. v \subseteq t /\ v # t
  BY <1>4
<1>6. SumFunctionOnSet(f, v) = SumFunctionOnSet(g, v)
  BY <1>2, <1>5
<1>7. IsFiniteSet(t)
  BY FS_Subset
<1>8. /\ SumFunctionOnSet(f, t) = f[Chosen(t)] + SumFunctionOnSet(f, v)
      /\ SumFunctionOnSet(g, t) = g[Chosen(t)] + SumFunctionOnSet(g, v)
  BY <1>3, <1>7, SumStep
<1>9. f[Chosen(t)] = g[Chosen(t)]
  BY <1>4
<1>. QED  BY <1>2, <1>6, <1>8, <1>9

\* A sum of zeros is zero.
LEMMA SumZero ==
    ASSUME NEW S, IsFiniteSet(S), NEW f, \A x \in S : f[x] = 0
    PROVE  SumFunctionOnSet(f, S) = 0
<1> DEFINE T == {t \in SUBSET S : SumFunctionOnSet(f, t) # 0}
<1>1. SUFFICES ASSUME T # {} PROVE FALSE
  OBVIOUS
<1>2. PICK t \in T : \A u \in T : u \subseteq t => u = t
  <2>1. T \subseteq SUBSET S
    OBVIOUS
  <2> HIDE DEF T
  <2>2. \E t \in T : \A u \in T : u \subseteq t => u = t
    BY <1>1, <2>1, MinimalSubset
  <2>. QED  BY <2>2
<1>3. t # {} /\ IsFiniteSet(t)
  BY <1>2, SumEmpty, FS_Subset
<1> DEFINE x == Chosen(t)
<1>4. x \in t
  BY <1>3, ChosenIn
<1>5. SumFunctionOnSet(f, t) = f[x] + SumFunctionOnSet(f, t \ {x})
  BY <1>3, SumStep
<1>6. SumFunctionOnSet(f, t \ {x}) = 0 /\ f[x] = 0
  <2> HIDE DEF x
  <2>. QED  BY <1>2, <1>4
<1>. QED  BY <1>2, <1>5, <1>6

\* Functions that differ at one element have sums that differ by as much.
LEMMA SumChanged ==
    ASSUME NEW S, IsFiniteSet(S), NEW f, NEW g, NEW x \in S,
           \A y \in S : f[y] \in Int /\ g[y] \in Int, \A y \in S \ {x} : f[y] = g[y]
    PROVE  SumFunctionOnSet(g, S) = (SumFunctionOnSet(f, S) - f[x]) + g[x]
<1> DEFINE v == S \ {x}
<1>1. IsFiniteSet(v)
  BY FS_Subset
<1>2. /\ SumFunctionOnSet(f, S) = f[x] + SumFunctionOnSet(f, v)
      /\ SumFunctionOnSet(g, S) = g[x] + SumFunctionOnSet(g, v)
  BY SumWithout
<1>3. SumFunctionOnSet(f, v) = SumFunctionOnSet(g, v)
  BY <1>1, SumEqual
<1>4. SumFunctionOnSet(f, v) \in Int /\ f[x] \in Int /\ g[x] \in Int
  BY <1>1, SumIsInt
<1> HIDE DEF v
<1>. QED  BY <1>2, <1>3, <1>4

\* The sum over two disjoint sets.
LEMMA SumOfBoth ==
    ASSUME NEW S, IsFiniteSet(S), NEW R, IsFiniteSet(R), S \cap R = {},
           NEW f, \A x \in S \cup R : f[x] \in Int
    PROVE  SumFunctionOnSet(f, S \cup R) = SumFunctionOnSet(f, S) + SumFunctionOnSet(f, R)
<1> DEFINE T == {t \in SUBSET R : SumFunctionOnSet(f, S \cup t) # SumFunctionOnSet(f, S) + SumFunctionOnSet(f, t)}
<1>1. SUFFICES ASSUME T # {} PROVE FALSE
  OBVIOUS
<1>2. PICK t \in T : \A u \in T : u \subseteq t => u = t
  <2>1. T \subseteq SUBSET R
    OBVIOUS
  <2> HIDE DEF T
  <2>. QED  BY <1>1, <2>1, MinimalSubset
<1>3. SumFunctionOnSet(f, S) \in Int
  BY SumIsInt
<1>4. t # {}
  <2>1. S \cup {} = S
    OBVIOUS
  <2>2. SumFunctionOnSet(f, {}) = 0
    BY SumEmpty
  <2>3. SumFunctionOnSet(f, S \cup {}) = SumFunctionOnSet(f, S) + SumFunctionOnSet(f, {})
    BY <1>3, <2>1, <2>2
  <2>4. SumFunctionOnSet(f, S \cup t) # SumFunctionOnSet(f, S) + SumFunctionOnSet(f, t)
    BY <1>2
  <2>. QED  BY <2>3, <2>4
<1> DEFINE x == Chosen(t)
           v == t \ {x}
<1>5. x \in t
  BY <1>4, ChosenIn
<1>6. SumFunctionOnSet(f, S \cup v) = SumFunctionOnSet(f, S) + SumFunctionOnSet(f, v)
  <2>1. v \subseteq t /\ v # t
    BY <1>5
  <2>. QED  BY <1>2, <2>1
<1>7. IsFiniteSet(t) /\ IsFiniteSet(v) /\ IsFiniteSet(S \cup v)
  <2>1. IsFiniteSet(t)
    BY FS_Subset
  <2>2. IsFiniteSet(v)
    BY <2>1, FS_Subset
  <2> HIDE DEF v
  <2>. QED  BY <2>1, <2>2, FS_Union
<1>8. (S \cup v) \cup {x} = S \cup t /\ v \cup {x} = t /\ x \notin S \cup v /\ x \notin v
  BY <1>5
<1>9. SumFunctionOnSet(f, S \cup t) = SumFunctionOnSet(f, S \cup v) + f[x]
  <2>1. \A y \in (S \cup v) \cup {x} : f[y] \in Int
    BY <1>5
  <2> HIDE DEF x, v
  <2>2. SumFunctionOnSet(f, (S \cup v) \cup {x}) = SumFunctionOnSet(f, S \cup v) + f[x]
    BY <1>7, <1>8, <2>1, SumWith
  <2>. QED  BY <2>2, <1>8
<1>10. SumFunctionOnSet(f, t) = SumFunctionOnSet(f, v) + f[x]
  <2>1. \A y \in v \cup {x} : f[y] \in Int
    BY <1>5
  <2> HIDE DEF x, v
  <2>2. SumFunctionOnSet(f, v \cup {x}) = SumFunctionOnSet(f, v) + f[x]
    BY <1>7, <1>8, <2>1, SumWith
  <2>. QED  BY <2>2, <1>8
<1>11. f[x] \in Int /\ SumFunctionOnSet(f, v) \in Int
  BY <1>5, <1>7, SumIsInt
<1> HIDE DEF x, v
<1>12. SumFunctionOnSet(f, S \cup t) = SumFunctionOnSet(f, S) + SumFunctionOnSet(f, t)
  BY <1>3, <1>6, <1>9, <1>10, <1>11
<1>. QED  BY <1>12, <1>2
=============================================================================
