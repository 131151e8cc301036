-------------------------- MODULE WebFiguresProofs --------------------------
(***************************************************************************)
(* What holds of the figures of the web client, for all details, events    *)
(* and prices: sums over finite sets, and what the charts, cards and       *)
(* tables that are computed along different ways have in common.           *)
(***************************************************************************)
EXTENDS DetailFigures, OverviewCharts, UsageTables, FiniteSetTheorems, TLAPS

-----------------------------------------------------------------------------
(* Sums. *)

(* A family that holds the empty set and grows by an element holds S. *)
LEMMA SetsByRemoval ==
  ASSUME NEW S, IsFiniteSet(S), NEW F, {} \in F,
         \A T \in SUBSET S : T # {} /\ (\A x \in T : T \ {x} \in F) => T \in F
  PROVE  S \in F
<1> DEFINE Bad == FiniteSubsetsOf(S) \ F
<1>1. SUFFICES ASSUME Bad # {} PROVE FALSE
  <2>1. S \in FiniteSubsetsOf(S)
    BY DEF FiniteSubsetsOf
  <2>2. QED
    BY <2>1
<1>2. Bad \subseteq FiniteSubsetsOf(S)
  OBVIOUS
<1>3. PICK T \in Bad : \A U \in Bad : <<U, T>> \notin StrictSubsetOrdering(S)
  <2>1. IsWellFoundedOn(StrictSubsetOrdering(S), FiniteSubsetsOf(S))
    BY FS_StrictSubsetOrderingWellFounded
  <2> HIDE DEF Bad
  <2>2. QED
    BY <1>1, <1>2, <2>1, WFMin
<1>4. T \subseteq S /\ IsFiniteSet(T) /\ T \notin F
  BY DEF FiniteSubsetsOf
<1>5. ASSUME NEW x \in T PROVE T \ {x} \in F
  <2>1. T \ {x} \in SUBSET S /\ T \ {x} # T /\ IsFiniteSet(T \ {x})
    BY <1>4, FS_RemoveElement
  <2>2. <<T \ {x}, T>> \in StrictSubsetOrdering(S)
    BY <2>1, <1>4 DEF StrictSubsetOrdering
  <2>3. QED
    BY <1>3, <2>1, <2>2 DEF FiniteSubsetsOf
<1>6. QED
  BY <1>4, <1>5

(* The recursive function behind SumOf, on the subsets S. *)
First(s) == CHOOSE x \in s : TRUE
IsSum(g, f, S) ==
  g = [s \in SUBSET S |-> IF s = {} THEN 0 ELSE f[First(s)] + g[s \ {First(s)}]]
SumOver(f, S) == (CHOOSE g : IsSum(g, f, S))[S]

LEMMA SumOfIs == ASSUME NEW f PROVE SumOf(f) = SumOver(f, DOMAIN f)
BY DEF SumOf, MapThenSumSet, MapThenFoldSet, IsSum, SumOver, First

LEMMA FirstIn == ASSUME NEW s, s # {} PROVE First(s) \in s
BY DEF First

LEMMA SumStep ==
  ASSUME NEW f, NEW S, NEW g, IsSum(g, f, S), NEW s \in SUBSET S
  PROVE  g[s] = IF s = {} THEN 0 ELSE f[First(s)] + g[s \ {First(s)}]
BY DEF IsSum

LEMMA SumUnique ==
  ASSUME NEW f, NEW S, NEW T, NEW g, NEW h, IsSum(g, f, S), IsSum(h, f, T),
         NEW U \in SUBSET (S \cap T), IsFiniteSet(U)
  PROVE  g[U] = h[U]
<1> DEFINE F == {V \in SUBSET U : g[V] = h[V]}
<1>1. {} \in F
  <2>1. {} \in SUBSET S /\ {} \in SUBSET T
    OBVIOUS
  <2>2. g[{}] = 0
    BY <2>1, SumStep
  <2>3. h[{}] = 0
    BY <2>1, SumStep
  <2>4. QED
    BY <2>2, <2>3
<1>2. ASSUME NEW V \in SUBSET U, V # {}, \A x \in V : V \ {x} \in F PROVE V \in F
  <2>1. First(V) \in V
    BY <1>2, FirstIn
  <2>2. g[V] = f[First(V)] + g[V \ {First(V)}]
    <3> V \in SUBSET S
      OBVIOUS
    <3> QED
      BY <1>2, SumStep
  <2>3. h[V] = f[First(V)] + h[V \ {First(V)}]
    <3>1. V \in SUBSET T
      OBVIOUS
    <3>2. h[V] = IF V = {} THEN 0 ELSE f[First(V)] + h[V \ {First(V)}]
      BY <3>1, SumStep
    <3>3. QED
      BY <1>2, <3>2
  <2>4. QED
    BY <2>1, <2>2, <2>3, <1>2
<1> HIDE DEF F
<1>3. U \in F
  BY <1>1, <1>2, SetsByRemoval
<1>4. QED
  BY <1>3 DEF F

LEMMA SumExists ==
  ASSUME NEW f, NEW S, IsFiniteSet(S)
  PROVE  \E g : IsSum(g, f, S)
<1> DEFINE F == {T \in SUBSET S : \A U \in SUBSET T : \E g : IsSum(g, f, U)}
<1>1. {} \in F
  <2>1. ASSUME NEW U \in SUBSET {} PROVE \E g : IsSum(g, f, U)
    <3>1. IsSum([s \in {{}} |-> 0], f, U)
      <4>1. SUBSET U = {{}}
        OBVIOUS
      <4>2. QED
        BY <4>1, Zenon DEF IsSum
    <3>2. QED
      BY <3>1
  <2>2. QED
    BY <2>1
<1>2. ASSUME NEW T \in SUBSET S, T # {}, \A x \in T : T \ {x} \in F PROVE T \in F
  <2>1. ASSUME NEW U \in SUBSET T, U # T PROVE \E g : IsSum(g, f, U)
    <3>1. PICK x \in T : U \subseteq T \ {x}
      BY <2>1
    <3>2. QED
      BY <3>1, <1>2
  <2> DEFINE h == [s \in SUBSET T |->
                     IF s = {} THEN 0 ELSE f[First(s)] + SumOver(f, s \ {First(s)})]
  <2>2. ASSUME NEW s \in SUBSET T, s # {} PROVE SumOver(f, s \ {First(s)}) = h[s \ {First(s)}]
    <3> DEFINE t == s \ {First(s)}
    <3>1. t \in SUBSET T /\ t # T /\ IsFiniteSet(t)
      BY <2>2, FirstIn, FS_Subset
    <3> HIDE DEF t
    <3>2. PICK g : g = CHOOSE k : IsSum(k, f, t)
      OBVIOUS
    <3>3. IsSum(g, f, t) /\ SumOver(f, t) = g[t]
      BY <2>1, <3>1, <3>2 DEF SumOver
    <3>4. g[t] = IF t = {} THEN 0 ELSE f[First(t)] + g[t \ {First(t)}]
      BY <3>3, SumStep, t \in SUBSET t
    <3>5. CASE t = {}
      BY <3>1, <3>3, <3>4, <3>5 DEF t
    <3>6. CASE t # {}
      <4> DEFINE w == t \ {First(t)}
      <4>1. w \in SUBSET T /\ w # T /\ IsFiniteSet(w) /\ w \in SUBSET t
        BY <3>1, <3>6, FirstIn, FS_Subset
      <4>2. PICK k : k = CHOOSE j : IsSum(j, f, w)
        OBVIOUS
      <4>3. IsSum(k, f, w) /\ SumOver(f, w) = k[w]
        BY <2>1, <4>1, <4>2 DEF SumOver
      <4>4. k[w] = g[w]
        <5> HIDE DEF w
        <5> w \in SUBSET (w \cap t)
          BY <4>1
        <5> QED
          BY <4>1, <4>3, <3>3, SumUnique
      <4>5. QED
        BY <4>3, <4>4, <3>1, <3>3, <3>4, <3>6 DEF t
    <3>7. QED
      BY <3>5, <3>6
  <2>3. IsSum(h, f, T)
    <3>1. h = [s \in SUBSET T |-> IF s = {} THEN 0 ELSE f[First(s)] + h[s \ {First(s)}]]
      <4> DEFINE k == [s \in SUBSET T |-> IF s = {} THEN 0 ELSE f[First(s)] + h[s \ {First(s)}]]
      <4>1. ASSUME NEW s \in SUBSET T PROVE h[s] = k[s]
        <5>1. h[s] = IF s = {} THEN 0 ELSE f[First(s)] + SumOver(f, s \ {First(s)})
          OBVIOUS
        <5>2. k[s] = IF s = {} THEN 0 ELSE f[First(s)] + h[s \ {First(s)}]
          BY Zenon
        <5> HIDE DEF h, k
        <5>3. QED
          BY <5>1, <5>2, <2>2
      <4>2. /\ h = [s \in SUBSET T |-> h[s]]
            /\ k = [s \in SUBSET T |-> k[s]]
        OBVIOUS
      <4> HIDE DEF h, k
      <4>3. h = k
        BY <4>1, <4>2
      <4>4. QED
        BY <4>3 DEF k
    <3> HIDE DEF h
    <3>2. QED
      BY <3>1 DEF IsSum
  <2>4. QED
    BY <2>1, <2>3
<1> HIDE DEF F
<1>3. S \in F
  BY <1>1, <1>2, SetsByRemoval
<1>4. QED
  BY <1>3 DEF F

(* The defining equation of a sum. *)
LEMMA SumOverStep ==
  ASSUME NEW f, NEW S, IsFiniteSet(S)
  PROVE  SumOver(f, S) = IF S = {} THEN 0 ELSE f[First(S)] + SumOver(f, S \ {First(S)})
<1>1. PICK g : g = CHOOSE k : IsSum(k, f, S)
  OBVIOUS
<1>2. IsSum(g, f, S) /\ SumOver(f, S) = g[S]
  BY <1>1, SumExists DEF SumOver
<1>3. g[S] = IF S = {} THEN 0 ELSE f[First(S)] + g[S \ {First(S)}]
  BY <1>2, SumStep, S \in SUBSET S
<1>4. CASE S # {}
  <2> DEFINE t == S \ {First(S)}
  <2>1. IsFiniteSet(t) /\ t \in SUBSET (t \cap S)
    BY FS_RemoveElement
  <2>2. PICK h : h = CHOOSE k : IsSum(k, f, t)
    OBVIOUS
  <2>3. IsSum(h, f, t) /\ SumOver(f, t) = h[t]
    BY <2>1, <2>2, SumExists DEF SumOver
  <2>4. h[t] = g[t]
    <3> HIDE DEF t
    <3>1. QED
      BY <2>1, <2>3, <1>2, SumUnique
  <2>5. QED
    BY <1>2, <1>3, <1>4, <2>3, <2>4
<1>5. QED
  BY <1>2, <1>3, <1>4

LEMMA SumOverEmpty == ASSUME NEW f PROVE SumOver(f, {}) = 0
BY FS_EmptySet, SumOverStep

(* Sums of functions that agree. *)
LEMMA SumOverSame ==
  ASSUME NEW f, NEW g, NEW S, IsFiniteSet(S), \A x \in S : f[x] = g[x]
  PROVE  SumOver(f, S) = SumOver(g, S)
<1> DEFINE F == {T \in SUBSET S : SumOver(f, T) = SumOver(g, T)}
<1>1. {} \in F
  BY SumOverEmpty
<1>2. ASSUME NEW T \in SUBSET S, T # {}, \A x \in T : T \ {x} \in F PROVE T \in F
  <2>1. IsFiniteSet(T) /\ First(T) \in T
    BY <1>2, FirstIn, FS_Subset
  <2>2. /\ SumOver(f, T) = f[First(T)] + SumOver(f, T \ {First(T)})
        /\ SumOver(g, T) = g[First(T)] + SumOver(g, T \ {First(T)})
    BY <1>2, <2>1, SumOverStep
  <2>3. QED
    BY <2>1, <2>2, <1>2
<1> HIDE DEF F
<1>3. S \in F
  BY <1>1, <1>2, SetsByRemoval
<1>4. QED
  BY <1>3 DEF F

LEMMA SumOverInt ==
  ASSUME NEW f, NEW S, IsFiniteSet(S), \A x \in S : f[x] \in Int
  PROVE  SumOver(f, S) \in Int
<1> DEFINE F == {T \in SUBSET S : SumOver(f, T) \in Int}
<1>1. {} \in F
  BY SumOverEmpty
<1>2. ASSUME NEW T \in SUBSET S, T # {}, \A x \in T : T \ {x} \in F PROVE T \in F
  <2>1. IsFiniteSet(T) /\ First(T) \in T
    BY <1>2, FirstIn, FS_Subset
  <2>2. SumOver(f, T) = f[First(T)] + SumOver(f, T \ {First(T)})
    BY <1>2, <2>1, SumOverStep
  <2>3. f[First(T)] \in Int /\ SumOver(f, T \ {First(T)}) \in Int
    BY <2>1, <1>2
  <2>4. QED
    BY <2>2, <2>3
<1> HIDE DEF F
<1>3. S \in F
  BY <1>1, <1>2, SetsByRemoval
<1>4. QED
  BY <1>3 DEF F

(* The order of the elements does not matter: any one may come first. *)
LEMMA SumOverRemove ==
  ASSUME NEW f, NEW S, IsFiniteSet(S), \A x \in S : f[x] \in Int, NEW y \in S
  PROVE  SumOver(f, S) = f[y] + SumOver(f, S \ {y})
<1> DEFINE F == {T \in SUBSET S : \A z \in T : SumOver(f, T) = f[z] + SumOver(f, T \ {z})}
<1>1. {} \in F
  OBVIOUS
<1>2. ASSUME NEW T \in SUBSET S, T # {}, \A x \in T : T \ {x} \in F PROVE T \in F
  <2> DEFINE a == First(T)
  <2>1. IsFiniteSet(T) /\ a \in T
    BY <1>2, FirstIn, FS_Subset
  <2>2. SumOver(f, T) = f[a] + SumOver(f, T \ {a})
    BY <1>2, <2>1, SumOverStep
  <2>3. ASSUME NEW z \in T, z # a PROVE SumOver(f, T) = f[z] + SumOver(f, T \ {z})
    <3> DEFINE U == (T \ {a}) \ {z}
    <3>1. SumOver(f, T \ {a}) = f[z] + SumOver(f, U)
      BY <1>2, <2>1, <2>3
    <3>2. SumOver(f, T \ {z}) = f[a] + SumOver(f, (T \ {z}) \ {a})
      BY <1>2, <2>1, <2>3
    <3>3. (T \ {z}) \ {a} = U
      OBVIOUS
    <3>4. f[a] \in Int /\ f[z] \in Int
      BY <2>1
    <3>5. SumOver(f, U) \in Int
      <4>1. IsFiniteSet(U) /\ U \subseteq S
        BY <2>1, FS_Subset
      <4>2. \A x \in U : f[x] \in Int
        BY <4>1
      <4> HIDE DEF U
      <4>3. QED
        BY <4>1, <4>2, SumOverInt
    <3> HIDE DEF U, a
    <3>6. f[a] + (f[z] + SumOver(f, U)) = f[z] + (f[a] + SumOver(f, U))
      BY <3>4, <3>5
    <3>7. QED
      BY <2>2, <3>1, <3>2, <3>3, <3>6
  <2>4. QED
    BY <2>2, <2>3
<1> HIDE DEF F
<1>3. S \in F
  BY <1>1, <1>2, SetsByRemoval
<1>4. QED
  BY <1>3 DEF F

(* The sum over two sets without a common element. *)
LEMMA SumOverUnion ==
  ASSUME NEW f, NEW S, NEW T, IsFiniteSet(S), IsFiniteSet(T), S \cap T = {},
         \A x \in S \cup T : f[x] \in Int
  PROVE  SumOver(f, S \cup T) = SumOver(f, S) + SumOver(f, T)
<1> DEFINE F == {U \in SUBSET S : SumOver(f, U \cup T) = SumOver(f, U) + SumOver(f, T)}
<1>0. SumOver(f, T) \in Int
  BY SumOverInt
<1>1. {} \in F
  <2>1. {} \cup T = T
    OBVIOUS
  <2>2. SumOver(f, T) = 0 + SumOver(f, T)
    BY <1>0
  <2>3. QED
    BY <2>1, <2>2, SumOverEmpty
<1>2. ASSUME NEW U \in SUBSET S, U # {}, \A x \in U : U \ {x} \in F PROVE U \in F
  <2>1. PICK y : y \in U
    BY <1>2
  <2>2. IsFiniteSet(U) /\ IsFiniteSet(U \cup T) /\ IsFiniteSet(U \ {y})
    BY FS_Subset, FS_Union
  <2>3. SumOver(f, U) = f[y] + SumOver(f, U \ {y})
    BY <2>1, <2>2, SumOverRemove
  <2>4. SumOver(f, U \cup T) = f[y] + SumOver(f, (U \ {y}) \cup T)
    <3>1. (U \cup T) \ {y} = (U \ {y}) \cup T
      BY <2>1
    <3>2. \A x \in U \cup T : f[x] \in Int
      OBVIOUS
    <3>3. SumOver(f, U \cup T) = f[y] + SumOver(f, (U \cup T) \ {y})
      BY <2>1, <2>2, <3>2, SumOverRemove
    <3>4. QED
      BY <3>1, <3>3
  <2>5. SumOver(f, (U \ {y}) \cup T) = SumOver(f, U \ {y}) + SumOver(f, T)
    BY <1>2, <2>1
  <2>6. f[y] \in Int /\ SumOver(f, U \ {y}) \in Int
    <3>1. \A x \in U \ {y} : f[x] \in Int
      OBVIOUS
    <3>2. QED
      BY <2>1, <2>2, <3>1, SumOverInt
  <2>7. f[y] + (SumOver(f, U \ {y}) + SumOver(f, T)) = (f[y] + SumOver(f, U \ {y})) + SumOver(f, T)
    BY <1>0, <2>6
  <2>8. QED
    BY <2>3, <2>4, <2>5, <2>7
<1> HIDE DEF F
<1>3. S \in F
  BY <1>1, <1>2, SetsByRemoval
<1>4. QED
  BY <1>3 DEF F

(* Larger amounts make a larger sum, and amounts add up. *)
LEMMA SumOverLess ==
  ASSUME NEW f, NEW g, NEW S, IsFiniteSet(S),
         \A x \in S : f[x] \in Int /\ g[x] \in Int /\ f[x] <= g[x]
  PROVE  SumOver(f, S) <= SumOver(g, S)
<1> DEFINE F == {T \in SUBSET S : SumOver(f, T) <= SumOver(g, T)}
<1>1. {} \in F
  BY SumOverEmpty
<1>2. ASSUME NEW T \in SUBSET S, T # {}, \A x \in T : T \ {x} \in F PROVE T \in F
  <2>1. PICK y : y \in T
    BY <1>2
  <2> DEFINE U == T \ {y}
  <2>2. /\ IsFiniteSet(T) /\ IsFiniteSet(U)
        /\ \A x \in T : f[x] \in Int /\ g[x] \in Int
        /\ \A x \in U : f[x] \in Int /\ g[x] \in Int
    BY FS_Subset
  <2>3. /\ SumOver(f, T) = f[y] + SumOver(f, U)
        /\ SumOver(g, T) = g[y] + SumOver(g, U)
    BY <2>1, <2>2, SumOverRemove
  <2>4. SumOver(f, U) <= SumOver(g, U)
    BY <1>2, <2>1
  <2> HIDE DEF U
  <2>5. SumOver(f, U) \in Int /\ SumOver(g, U) \in Int
    BY <2>2, SumOverInt
  <2>6. PICK a \in Int, b \in Int, c \in Int, d \in Int :
          a = f[y] /\ b = g[y] /\ c = SumOver(f, U) /\ d = SumOver(g, U)
    BY <2>1, <2>2, <2>5
  <2>7. a <= b
    BY <2>1, <2>6
  <2>8. a + c <= b + d
    BY <2>4, <2>6, <2>7
  <2>9. QED
    BY <2>3, <2>6, <2>8
<1> HIDE DEF F
<1>3. S \in F
  BY <1>1, <1>2, SetsByRemoval
<1>4. QED
  BY <1>3 DEF F

LEMMA SumOverPlus ==
  ASSUME NEW f, NEW g, NEW h, NEW S, IsFiniteSet(S),
         \A x \in S : f[x] \in Int /\ g[x] \in Int /\ h[x] = f[x] + g[x]
  PROVE  SumOver(h, S) = SumOver(f, S) + SumOver(g, S)
<1> DEFINE F == {T \in SUBSET S : SumOver(h, T) = SumOver(f, T) + SumOver(g, T)}
<1>1. {} \in F
  BY SumOverEmpty
<1>2. ASSUME NEW T \in SUBSET S, T # {}, \A x \in T : T \ {x} \in F PROVE T \in F
  <2>1. PICK y : y \in T
    BY <1>2
  <2> DEFINE U == T \ {y}
  <2>2. /\ IsFiniteSet(T) /\ IsFiniteSet(U)
        /\ \A x \in T : f[x] \in Int /\ g[x] \in Int /\ h[x] \in Int
        /\ \A x \in U : f[x] \in Int /\ g[x] \in Int
    BY FS_Subset
  <2>3. /\ SumOver(f, T) = f[y] + SumOver(f, U)
        /\ SumOver(g, T) = g[y] + SumOver(g, U)
        /\ SumOver(h, T) = h[y] + SumOver(h, U)
    BY <2>1, <2>2, SumOverRemove
  <2>4. SumOver(h, U) = SumOver(f, U) + SumOver(g, U)
    BY <1>2, <2>1
  <2> HIDE DEF U
  <2>5. SumOver(f, U) \in Int /\ SumOver(g, U) \in Int
    BY <2>2, SumOverInt
  <2>6. PICK a \in Int, b \in Int, c \in Int, d \in Int :
          a = f[y] /\ b = g[y] /\ c = SumOver(f, U) /\ d = SumOver(g, U)
    BY <2>1, <2>2, <2>5
  <2>7. h[y] = a + b
    BY <2>1, <2>6
  <2>8. (a + b) + (c + d) = (a + c) + (b + d)
    OBVIOUS
  <2>9. QED
    BY <2>3, <2>4, <2>6, <2>7, <2>8
<1> HIDE DEF F
<1>3. S \in F
  BY <1>1, <1>2, SetsByRemoval
<1>4. QED
  BY <1>3 DEF F

LEMMA SumOverZero ==
  ASSUME NEW f, NEW S, IsFiniteSet(S), \A x \in S : f[x] = 0
  PROVE  SumOver(f, S) = 0
<1> DEFINE F == {T \in SUBSET S : SumOver(f, T) = 0}
<1>1. {} \in F
  BY SumOverEmpty
<1>2. ASSUME NEW T \in SUBSET S, T # {}, \A x \in T : T \ {x} \in F PROVE T \in F
  <2>1. PICK y : y \in T
    BY <1>2
  <2>2. IsFiniteSet(T) /\ \A x \in T : f[x] \in Int
    BY FS_Subset
  <2>3. SumOver(f, T) = f[y] + SumOver(f, T \ {y})
    BY <2>1, <2>2, SumOverRemove
  <2>4. SumOver(f, T \ {y}) = 0 /\ f[y] = 0
    BY <1>2, <2>1
  <2>5. QED
    BY <2>3, <2>4
<1> HIDE DEF F
<1>3. S \in F
  BY <1>1, <1>2, SetsByRemoval
<1>4. QED
  BY <1>3 DEF F

LEMMA SumOverNat ==
  ASSUME NEW f, NEW S, IsFiniteSet(S), \A x \in S : f[x] \in Nat
  PROVE  SumOver(f, S) \in Nat
<1> DEFINE g == [x \in S |-> 0]
<1>1. SumOver(g, S) = 0
  <2>1. \A x \in S : g[x] = 0
    OBVIOUS
  <2> HIDE DEF g
  <2>2. QED
    BY <2>1, SumOverZero
<1>2. SumOver(g, S) <= SumOver(f, S)
  <2>1. \A x \in S : f[x] \in Int /\ g[x] \in Int /\ g[x] <= f[x]
    OBVIOUS
  <2> HIDE DEF g
  <2>2. QED
    BY <2>1, SumOverLess
<1>3. SumOver(f, S) \in Int
  BY SumOverInt
<1>4. QED
  BY <1>1, <1>2, <1>3

(* A part of a sum of natural numbers is not larger than the sum. *)
LEMMA SumOverPart ==
  ASSUME NEW f, NEW S, IsFiniteSet(S), NEW T \in SUBSET S, \A x \in S : f[x] \in Nat
  PROVE  SumOver(f, T) <= SumOver(f, S)
<1>1. IsFiniteSet(T) /\ IsFiniteSet(S \ T)
  BY FS_Subset
<1>2. SumOver(f, T \cup (S \ T)) = SumOver(f, T) + SumOver(f, S \ T)
  <2>1. T \cap (S \ T) = {} /\ \A x \in T \cup (S \ T) : f[x] \in Int
    OBVIOUS
  <2>2. QED
    BY <1>1, <2>1, SumOverUnion
<1>3. T \cup (S \ T) = S
  OBVIOUS
<1>4. PICK a \in Nat, b \in Nat : a = SumOver(f, T) /\ b = SumOver(f, S \ T)
  BY <1>1, SumOverNat
<1>5. SumOver(f, S) = a + b
  BY <1>2, <1>3, <1>4
<1>6. a <= a + b
  OBVIOUS
<1>7. QED
  BY <1>4, <1>5, <1>6

(* What is 0 outside a part may be left out. *)
LEMMA SumOverSupport ==
  ASSUME NEW f, NEW S, IsFiniteSet(S), NEW T \in SUBSET S,
         \A x \in T : f[x] \in Int, \A x \in S \ T : f[x] = 0
  PROVE  SumOver(f, S) = SumOver(f, T)
<1>1. IsFiniteSet(T) /\ IsFiniteSet(S \ T)
  BY FS_Subset
<1>2. SumOver(f, T \cup (S \ T)) = SumOver(f, T) + SumOver(f, S \ T)
  <2>1. T \cap (S \ T) = {} /\ \A x \in T \cup (S \ T) : f[x] \in Int
    OBVIOUS
  <2>2. QED
    BY <1>1, <2>1, SumOverUnion
<1>3. T \cup (S \ T) = S
  OBVIOUS
<1>4. SumOver(f, T) \in Int /\ SumOver(f, S \ T) = 0
  BY <1>1, SumOverInt, SumOverZero
<1>5. QED
  BY <1>2, <1>3, <1>4

(* Ones count. *)
LEMMA SumOverOnes ==
  ASSUME NEW f, NEW S, IsFiniteSet(S), \A x \in S : f[x] = 1
  PROVE  SumOver(f, S) = Cardinality(S)
<1> DEFINE F == {T \in SUBSET S : SumOver(f, T) = Cardinality(T)}
<1>1. {} \in F
  BY SumOverEmpty, FS_EmptySet
<1>2. ASSUME NEW T \in SUBSET S, T # {}, \A x \in T : T \ {x} \in F PROVE T \in F
  <2>1. PICK y : y \in T
    BY <1>2
  <2>2. IsFiniteSet(T) /\ \A x \in T : f[x] \in Int
    BY FS_Subset
  <2>3. SumOver(f, T) = f[y] + SumOver(f, T \ {y})
    BY <2>1, <2>2, SumOverRemove
  <2>4. SumOver(f, T \ {y}) = Cardinality(T \ {y}) /\ f[y] = 1
    BY <1>2, <2>1
  <2>5. Cardinality(T \ {y}) = Cardinality(T) - 1 /\ Cardinality(T) \in Nat
    BY <2>1, <2>2, FS_RemoveElement, FS_CardinalityType
  <2>6. QED
    BY <2>3, <2>4, <2>5
<1> HIDE DEF F
<1>3. S \in F
  BY <1>1, <1>2, SetsByRemoval
<1>4. QED
  BY <1>3 DEF F

(* Adding up by key first and over the keys then. *)
Fibre(D, key, k) == {d \in D : key[d] = k}

LEMMA SumByKey ==
  ASSUME NEW f, NEW D, IsFiniteSet(D), NEW K, IsFiniteSet(K), NEW key, NEW g,
         \A d \in D : f[d] \in Int /\ key[d] \in K,
         \A k \in K : g[k] = SumOver(f, Fibre(D, key, k))
  PROVE  SumOver(g, K) = SumOver(f, D)
<1> DEFINE By(T) == [k \in K |-> SumOver(f, {d \in T : key[d] = k})]
           F == {T \in SUBSET D : SumOver(By(T), K) = SumOver(f, T)}
<1>1. {} \in F
  <2>1. \A k \in K : By({})[k] = 0
    <3>1. \A k \in K : {d \in {} : key[d] = k} = {}
      OBVIOUS
    <3>2. QED
      BY <3>1, SumOverEmpty
  <2>2. SumOver(By({}), K) = 0
    <3> HIDE DEF By
    <3>1. QED
      BY <2>1, SumOverZero
  <2>3. QED
    BY <2>2, SumOverEmpty
<1>2. ASSUME NEW T \in SUBSET D, T # {}, \A x \in T : T \ {x} \in F PROVE T \in F
  <2>1. PICK y : y \in T
    BY <1>2
  <2> DEFINE U == T \ {y}
             c == key[y]
  <2>2. /\ IsFiniteSet(T) /\ IsFiniteSet(U) /\ c \in K
        /\ \A x \in T : f[x] \in Int
    BY <2>1, FS_Subset
  <2>3. SumOver(f, T) = f[y] + SumOver(f, U)
    BY <2>1, <2>2, SumOverRemove
  <2>4. \A k \in K : By(T)[k] \in Int /\ By(U)[k] \in Int
    <3> TAKE k \in K
    <3>1. /\ By(T)[k] = SumOver(f, {d \in T : key[d] = k})
          /\ By(U)[k] = SumOver(f, {d \in U : key[d] = k})
      OBVIOUS
    <3>2. /\ IsFiniteSet({d \in T : key[d] = k}) /\ IsFiniteSet({d \in U : key[d] = k})
          /\ \A x \in {d \in T : key[d] = k} : f[x] \in Int
          /\ \A x \in {d \in U : key[d] = k} : f[x] \in Int
      BY <2>2, FS_Subset
    <3>3. QED
      BY <3>1, <3>2, SumOverInt
  <2>5. By(T)[c] = f[y] + By(U)[c]
    <3> DEFINE E == {d \in T : key[d] = c}
    <3>1. y \in E /\ E \ {y} = {d \in U : key[d] = c} /\ IsFiniteSet(E) /\ \A x \in E : f[x] \in Int
      BY <2>1, <2>2, FS_Subset
    <3>2. By(T)[c] = SumOver(f, E) /\ By(U)[c] = SumOver(f, E \ {y})
      BY <2>2, <3>1
    <3> HIDE DEF E, By, U, c
    <3>3. QED
      BY <3>1, <3>2, SumOverRemove
  <2>6. \A k \in K \ {c} : By(T)[k] = By(U)[k]
    <3> TAKE k \in K \ {c}
    <3>1. {d \in T : key[d] = k} = {d \in U : key[d] = k}
      OBVIOUS
    <3>2. QED
      BY <3>1
  <2>7. SumOver(By(U), K) = SumOver(f, U)
    BY <1>2, <2>1
  <2> DEFINE p == By(T)
             q == By(U)
  <2>8. \A k \in K : p[k] \in Int /\ q[k] \in Int
    BY <2>4
  <2>9. p[c] = f[y] + q[c] /\ \A k \in K \ {c} : p[k] = q[k]
    BY <2>5, <2>6
  <2>10. SumOver(q, K) = SumOver(f, U)
    BY <2>7
  <2>11. SumOver(p, K) = SumOver(f, T)
    <3> HIDE DEF p, q, By, U, F, c
    <3>1. /\ SumOver(p, K) = p[c] + SumOver(p, K \ {c})
          /\ SumOver(q, K) = q[c] + SumOver(q, K \ {c})
      BY <2>2, <2>8, SumOverRemove
    <3>2. IsFiniteSet(K \ {c})
      BY FS_RemoveElement
    <3>3. SumOver(p, K \ {c}) = SumOver(q, K \ {c})
      BY <2>9, <3>2, SumOverSame
    <3>4. SumOver(q, K \ {c}) \in Int
      BY <2>8, <3>2, SumOverInt
    <3>5. f[y] \in Int /\ q[c] \in Int
      BY <2>1, <2>2, <2>8
    <3>6. (f[y] + q[c]) + SumOver(q, K \ {c}) = f[y] + (q[c] + SumOver(q, K \ {c}))
      BY <3>4, <3>5
    <3>7. QED
      BY <3>1, <3>3, <3>6, <2>3, <2>9, <2>10
  <2>12. QED
    BY <2>11
<1>3. D \in F
  <2> HIDE DEF F
  <2>1. QED
    BY <1>1, <1>2, SetsByRemoval
<1>4. SumOver(By(D), K) = SumOver(f, D)
  BY <1>3
<1>5. \A k \in K : By(D)[k] = g[k]
  BY DEF Fibre
<1>6. QED
  <2> HIDE DEF By, F
  <2>1. QED
    BY <1>4, <1>5, SumOverSame

(* What a function takes on a finite set is finite. *)
LEMMA ImageFinite ==
  ASSUME NEW key, NEW D, IsFiniteSet(D)
  PROVE  IsFiniteSet({key[d] : d \in D})
<1> DEFINE f == [d \in D |-> key[d]]
<1>1. f \in Surjection(D, {key[d] : d \in D})
  BY DEF Surjection
<1>2. QED
  BY <1>1, FS_Surjection

(* Sums of function expressions. *)
LEMMA SumOfOver ==
  ASSUME NEW f, NEW g, IsFiniteSet(DOMAIN g), NEW S, S = DOMAIN g, \A x \in S : f[x] = g[x]
  PROVE  SumOf(g) = SumOver(f, S)
<1>1. SumOf(g) = SumOver(g, S)
  BY SumOfIs
<1>2. QED
  BY <1>1, SumOverSame

(* The value of a bucket, and the sum of the buckets of some keys. *)
OfBucket(period, S, k) == {d \in S : BucketKey(period, d) = k}
OfBuckets(period, S, K) == {d \in S : BucketKey(period, d) \in K}

LEMMA SumsValue ==
  ASSUME NEW period, NEW f, NEW S, IsFiniteSet(S), NEW v, DOMAIN v = S,
         \A d \in S : v[d] = f[d], NEW k
  PROVE  At(Sums(period, v), k) = SumOver(f, OfBucket(period, S, k))
<1> DEFINE E == OfBucket(period, S, k)
           w == [d \in E |-> v[d]]
<1>1. IsFiniteSet(E) /\ DOMAIN w = E /\ \A d \in E : f[d] = w[d]
  BY FS_Subset DEF OfBucket
<1>2. SumOf(w) = SumOver(f, E)
  <2> HIDE DEF w, E
  <2>1. QED
    BY <1>1, SumOfOver
<1>3. DOMAIN Sums(period, v) = {BucketKey(period, d) : d \in S}
  BY DEF Sums
<1>4. CASE k \in DOMAIN Sums(period, v)
  <2>1. Sums(period, v)[k] = SumOf(w)
    BY <1>3, <1>4, Zenon DEF Sums, OfBucket
  <2>2. QED
    BY <1>2, <1>4, <2>1 DEF At
<1>5. CASE k \notin DOMAIN Sums(period, v)
  <2>1. E = {}
    BY <1>3, <1>5 DEF OfBucket
  <2>2. SumOver(f, E) = 0
    BY <2>1, SumOverEmpty
  <2>3. QED
    BY <1>5, <2>2 DEF At
<1>6. QED
  BY <1>4, <1>5

(* Some buckets of a series hold what has its key among theirs. *)
LEMMA BucketsSum ==
  ASSUME NEW period, NEW f, NEW S, IsFiniteSet(S), NEW v, DOMAIN v = S,
         \A d \in S : v[d] = f[d] /\ f[d] \in Int,
         NEW K, IsFiniteSet(K)
  PROVE  SumOf([k \in K |-> At(Sums(period, v), k)]) = SumOver(f, OfBuckets(period, S, K))
<1> DEFINE E == OfBuckets(period, S, K)
           g == [k \in K |-> At(Sums(period, v), k)]
           key == [d \in S |-> BucketKey(period, d)]
<1>0. \A d \in S : v[d] = f[d]
  OBVIOUS
<1>1. SumOf(g) = SumOver(g, K)
  BY SumOfIs
<1>2. IsFiniteSet(E) /\ \A d \in E : f[d] \in Int /\ key[d] \in K
  BY FS_Subset DEF OfBuckets
<1>3. ASSUME NEW k \in K PROVE g[k] = SumOver(f, Fibre(E, key, k))
  <2>1. Fibre(E, key, k) = OfBucket(period, S, k)
    BY DEF Fibre, OfBucket, OfBuckets
  <2>2. At(Sums(period, v), k) = SumOver(f, OfBucket(period, S, k))
    BY <1>0, SumsValue
  <2>3. QED
    BY <2>1, <2>2
<1>4. SumOver(g, K) = SumOver(f, E)
  <2>1. \A k \in K : g[k] = SumOver(f, Fibre(E, key, k))
    BY <1>3
  <2> HIDE DEF g, key, E
  <2>2. QED
    BY <1>2, <2>1, SumByKey
<1>5. QED
  BY <1>1, <1>4

LEMMA AllBucketsSum ==
  ASSUME NEW period, NEW f, NEW S, IsFiniteSet(S), NEW v, DOMAIN v = S,
         \A d \in S : v[d] = f[d] /\ f[d] \in Int
  PROVE  SumOf(Sums(period, v)) = SumOver(f, S)
<1> DEFINE K == DOMAIN Sums(period, v)
           g == [k \in K |-> At(Sums(period, v), k)]
           key == [d \in S |-> BucketKey(period, d)]
<1>0. \A d \in S : v[d] = f[d]
  OBVIOUS
<1>1. K = {key[d] : d \in S}
  <2>1. K = {BucketKey(period, d) : d \in S}
    BY DEF Sums
  <2>2. QED
    BY <2>1
<1>2. IsFiniteSet(K)
  <2> HIDE DEF K, key
  <2>1. QED
    BY <1>1, ImageFinite
<1>3. SumOf(Sums(period, v)) = SumOver(g, K)
  <2>1. \A k \in K : g[k] = Sums(period, v)[k]
    BY DEF At
  <2> HIDE DEF g
  <2>2. QED
    BY <1>2, <2>1, SumOfOver
<1>4. SumOf(g) = SumOver(g, K)
  BY SumOfIs
<1>5. OfBuckets(period, S, K) = S
  BY <1>1 DEF OfBuckets
<1>6. SumOf(g) = SumOver(f, OfBuckets(period, S, K))
  BY <1>2, BucketsSum
<1>7. QED
  BY <1>3, <1>4, <1>5, <1>6

-----------------------------------------------------------------------------
(* Hours. *)

LEMMA HourInt ==
  ASSUME NEW t \in Int
  PROVE  HourNumber(t) \in Int
<1>1. HourTicks \in Nat \ {0}
  BY FiguresAssumption
<1>2. QED
  BY <1>1 DEF HourNumber

LEMMA HourShift ==
  ASSUME NEW t \in Int, NEW n \in Int
  PROVE  HourNumber(t) \in Int /\ HourNumber(t - n * HourTicks) = HourNumber(t) - n
<1>1. HourTicks \in Nat \ {0}
  BY FiguresAssumption
<1>2. PICK q \in Int, r \in 0 .. HourTicks - 1 : t = HourTicks * q + r
  BY <1>1, t = HourTicks * (t \div HourTicks) + (t % HourTicks)
<1>3. t \div HourTicks = q
  BY <1>1, <1>2
<1>4. (t - n * HourTicks) \div HourTicks = q - n
  <2>1. t - n * HourTicks = HourTicks * (q - n) + r
    BY <1>1, <1>2
  <2>2. q - n \in Int
    OBVIOUS
  <2>3. QED
    BY <1>1, <2>1, <2>2
<1>5. QED
  BY <1>3, <1>4 DEF HourNumber

LEMMA HourOrder ==
  ASSUME NEW s \in Int, NEW t \in Int, s <= t
  PROVE  HourNumber(s) <= HourNumber(t)
<1>1. HourTicks \in Nat \ {0}
  BY FiguresAssumption
<1>2. QED
  BY <1>1 DEF HourNumber

-----------------------------------------------------------------------------
(* The answer the page shows, and the events behind it. *)

ServedModels == {e.model : e \in ServedEvent}
Counter == {"requests", "tokens", "cost", "reasoning"}

EventsOK(D) ==
  /\ IsFiniteSet(D)
  /\ \A d \in D : /\ d.tokens \in Int /\ d.cost \in Int /\ d.reasoning \in Int
                  /\ d.at \in Nat \ {0} /\ d.model \in ServedModels

(* The page shows the counters of the events D of its window. *)
Shown(D) ==
  /\ EventsOK(D)
  /\ answer.usage = BuildUsageOverview(answer.range, answer.filter, D)
  /\ answer.range \in DOMAIN PresetHours \cup {"all", "today", "custom"}
  /\ answer.refreshed \in Nat \ {0}
  /\ answer.range = "all" => answer.filter.end = Missing
  /\ answer.range # "all" =>
       answer.filter.end \in Nat \ {0} /\ \A d \in D : d.at <= answer.filter.end
  /\ answer.range \in DOMAIN PresetHours =>
       \A d \in D : d.at >= answer.filter.end - PresetHours[answer.range] * HourTicks
  /\ answer.range = "custom" =>
       /\ answer.filter.start \in Int
       /\ D # {} => answer.filter.end - answer.filter.start + 1 >= DayHours * HourTicks

(* The events of the hourly series: the last DayHours hours of a window    *)
(* with an end.                                                            *)
HourlyEvents(filter, D) ==
  LET first == LatestHourlySeriesStart(filter, D)
  IN  IF first = Missing THEN D ELSE {d \in D : HourKey(d) >= first}

ChartHours == BuildHourlyWindow(GetOverviewHourWindowHours, GetOverviewChartEnd, tick)
LastHour == HourNumber(GetOverviewChartEnd)

LEMMA ChartEndIs ==
  ASSUME NEW D, Shown(D)
  PROVE  /\ GetOverviewChartEnd \in Nat \ {0}
         /\ answer.range # "all" => GetOverviewChartEnd = answer.filter.end
<1>1. Missing \notin Int
  BY FiguresAssumption
<1>2. CASE answer.range = "all"
  <2>1. answer.filter.end = Missing /\ answer.refreshed \in Nat \ {0}
    BY <1>2 DEF Shown
  <2>2. FilterWindow.end = Missing
    BY <1>2 DEF FilterWindow, NoWindow
  <2>3. QED
    BY <1>2, <2>1, <2>2 DEF GetOverviewChartEnd
<1>3. CASE answer.range # "all"
  <2>1. answer.filter.end \in Nat \ {0}
    BY <1>3 DEF Shown
  <2>2. answer.filter.end # Missing
    BY <1>1, <2>1
  <2>3. QED
    BY <2>1, <2>2 DEF GetOverviewChartEnd
<1>4. QED
  BY <1>2, <1>3

(* The hours of a window of at least DayHours - 1 hours. *)
LEMMA WindowHours ==
  ASSUME NEW start \in Int, NEW end \in Int
  PROVE  /\ WindowOf(start, end).hours \in Nat \ {0}
         /\ end - start + 1 >= DayHours * HourTicks => WindowOf(start, end).hours >= DayHours - 1
<1>1. HourTicks \in Nat \ {0} /\ DayHours \in Nat \ {0}
  BY FiguresAssumption
<1> DEFINE a == end - start + HourTicks - 1
<1>2. PICK q \in Int : q = a \div HourTicks
  BY <1>1
<1>3. WindowOf(start, end).hours = Bigger(q, 1)
  BY <1>2 DEF WindowOf
<1>4. ASSUME end - start + 1 >= DayHours * HourTicks PROVE q >= DayHours - 1
  <2>1. (DayHours - 1) * HourTicks = DayHours * HourTicks - HourTicks
    BY <1>1
  <2>2. DayHours * HourTicks \in Int /\ (DayHours - 1) * HourTicks \in Int
    BY <1>1
  <2>3. a >= (DayHours - 1) * HourTicks
    BY <1>1, <1>4, <2>1, <2>2
  <2>4. ((DayHours - 1) * HourTicks) \div HourTicks = DayHours - 1
    BY <1>1
  <2>5. QED
    <3>1. HourNumber((DayHours - 1) * HourTicks) <= HourNumber(a)
      BY <1>1, <2>2, <2>3, HourOrder
    <3>2. QED
      BY <1>2, <2>4, <3>1 DEF HourNumber
<1>5. QED
  BY <1>1, <1>2, <1>3, <1>4 DEF Bigger

LEMMA OverviewHours ==
  ASSUME NEW D, Shown(D)
  PROVE  /\ GetOverviewHourWindowHours \in Nat \ {0}
         /\ GetOverviewHourWindowHours <= DayHours
         /\ ShortRange => GetOverviewHourWindowHours = PresetHours[answer.range]
         /\ answer.range = "today" => GetOverviewHourWindowHours = DayHours
         /\ answer.range = "custom" /\ D # {} => GetOverviewHourWindowHours >= DayHours - 1
<1>1. /\ DayHours \in Nat \ {0} /\ Missing \notin Int
      /\ PresetHours \in [DOMAIN PresetHours -> Nat \ {0}]
      /\ "all" \notin DOMAIN PresetHours /\ "today" \notin DOMAIN PresetHours
      /\ "custom" \notin DOMAIN PresetHours
  BY FiguresAssumption
<1>2. CASE answer.range \in {"all", "today"}
  BY <1>1, <1>2 DEF GetOverviewHourWindowHours, ShortRange
<1>3. CASE answer.range = "custom"
  <2>1. answer.filter.start \in Int /\ answer.filter.end \in Int
    BY <1>3 DEF Shown
  <2> DEFINE h == WindowOf(answer.filter.start, answer.filter.end).hours
  <2>2. FilterWindow.hours = h
    BY <1>3 DEF FilterWindow
  <2>3. h \in Nat \ {0} /\ (D # {} => h >= DayHours - 1)
    <3>1. D # {} => answer.filter.end - answer.filter.start + 1 >= DayHours * HourTicks
      BY <1>3 DEF Shown
    <3>2. QED
      BY <2>1, <3>1, WindowHours
  <2> HIDE DEF h
  <2>4. GetOverviewHourWindowHours = Smaller(Bigger(h, 1), DayHours)
    BY <1>1, <1>3, <2>2, <2>3 DEF GetOverviewHourWindowHours
  <2>5. ~ShortRange
    BY <1>1, <1>3 DEF ShortRange
  <2>6. QED
    BY <1>1, <1>3, <2>3, <2>4, <2>5 DEF Smaller, Bigger
<1>4. CASE answer.range \in DOMAIN PresetHours
  <2>1. PICK p \in Nat \ {0} : p = PresetHours[answer.range]
    BY <1>1, <1>4
  <2>2. GetOverviewHourWindowHours = Smaller(p, DayHours)
    BY <1>1, <1>4, <2>1 DEF GetOverviewHourWindowHours
  <2>3. QED
    BY <1>1, <1>4, <2>1, <2>2 DEF Smaller, ShortRange
<1>5. QED
  BY <1>2, <1>3, <1>4 DEF Shown

(* The buckets of the hour charts, and which of them can hold events. *)
LEMMA ChartHoursAre ==
  ASSUME NEW D, Shown(D)
  PROVE  LET count == ResolveHourBucketCount(GetOverviewHourWindowHours) IN
         /\ LastHour \in Int /\ count \in Nat \ {0}
         /\ ChartHours = (LastHour - count + 1) .. LastHour
         /\ NormalizeHourWindow(GetOverviewHourWindowHours) = GetOverviewHourWindowHours
         /\ count = IF GetOverviewHourWindowHours >= DayHours THEN DayHours
                    ELSE GetOverviewHourWindowHours + 1
<1>1. DayHours \in Nat \ {0} /\ Missing \notin Int
  BY FiguresAssumption
<1>2. PICK e : e = GetOverviewChartEnd
  OBVIOUS
<1>3. e \in Nat \ {0}
  BY <1>2, ChartEndIs
<1>4. PICK h : h = GetOverviewHourWindowHours
  OBVIOUS
<1>5. h \in Nat \ {0} /\ h <= DayHours
  BY <1>4, OverviewHours
<1>6. NormalizeHourWindow(h) = h
  BY <1>1, <1>5 DEF NormalizeHourWindow, Smaller, Bigger
<1>7. ToValidTimestamp(e) = e /\ e # Missing
  BY <1>1, <1>3 DEF ToValidTimestamp
<1>8. HourNumber(e) \in Int
  BY <1>3, HourInt
<1>9. ResolveHourBucketCount(h) = IF h >= DayHours THEN DayHours ELSE h + 1
  BY <1>6 DEF ResolveHourBucketCount
<1>10. BuildHourlyWindow(h, e, tick)
         = (HourNumber(e) - (IF h >= DayHours THEN DayHours ELSE h + 1) + 1) .. HourNumber(e)
  BY <1>6, <1>7 DEF BuildHourlyWindow
<1>11. QED
  BY <1>1, <1>2, <1>4, <1>5, <1>6, <1>8, <1>9, <1>10 DEF LastHour, ChartHours

(* A chart of a range with an end has a bucket for all the server sent. *)
LEMMA HourlyEventsFit ==
  ASSUME NEW D, Shown(D), answer.range # "all", NEW d \in HourlyEvents(answer.filter, D)
  PROVE  HourKey(d) \in ChartHours
<1>1. /\ DayHours \in Nat \ {0} /\ HourTicks \in Nat \ {0} /\ Missing \notin Int
      /\ PresetHours \in [DOMAIN PresetHours -> Nat \ {0}]
  BY FiguresAssumption
<1>2. PICK e \in Nat \ {0} : e = answer.filter.end
  BY DEF Shown
<1>3. e # Missing /\ GetOverviewChartEnd = e
  BY <1>1, <1>2, ChartEndIs
<1>4. PICK last \in Int : last = HourNumber(e)
  BY <1>2, HourInt
<1>5. LatestHourlySeriesStart(answer.filter, D) = last - (DayHours - 1)
  BY <1>2, <1>3, <1>4 DEF LatestHourlySeriesStart
<1>6. d \in D /\ HourKey(d) >= last - (DayHours - 1)
  <2>1. last - (DayHours - 1) # Missing
    BY <1>1
  <2>2. QED
    BY <1>5, <2>1 DEF HourlyEvents
<1>7. d.at \in Nat \ {0} /\ d.at <= e
  BY <1>2, <1>6 DEF Shown, EventsOK
<1>8. PICK k \in Int : k = HourKey(d) /\ k = HourNumber(d.at)
  BY <1>7, HourInt DEF HourKey, Dated
<1>9. k <= last
  BY <1>4, <1>7, <1>8, HourOrder
<1>10. PICK h \in Nat \ {0} : h = GetOverviewHourWindowHours
  BY OverviewHours
<1>11. ChartHours = (last - (IF h >= DayHours THEN DayHours ELSE h + 1) + 1) .. last
  BY <1>3, <1>4, <1>10, ChartHoursAre DEF LastHour
<1>12. k >= last - h
  <2>1. CASE answer.range = "today"
    BY <1>1, <1>6, <1>8, <1>10, <2>1, OverviewHours
  <2>2. CASE answer.range = "custom"
    <3>1. h >= DayHours - 1
      BY <1>6, <1>10, <2>2, OverviewHours
    <3>2. QED
      BY <1>1, <1>6, <1>8, <3>1
  <2>3. CASE answer.range \in DOMAIN PresetHours
    <3>1. PICK p \in Nat \ {0} : p = PresetHours[answer.range]
      BY <1>1, <2>3
    <3>2. CASE p < DayHours
      <4>1. h = p
        BY <1>10, <2>3, <3>1, <3>2, OverviewHours DEF ShortRange
      <4>2. d.at >= e - p * HourTicks
        BY <1>2, <1>6, <2>3, <3>1 DEF Shown
      <4>3. e - p * HourTicks \in Int /\ HourNumber(e - p * HourTicks) = last - p
        BY <1>1, <1>4, HourShift
      <4>4. QED
        BY <1>7, <1>8, <4>1, <4>2, <4>3, HourOrder
    <3>3. CASE p >= DayHours
      <4>1. h = DayHours
        BY <1>1, <1>10, <2>3, <3>1, <3>3, FiguresAssumption DEF GetOverviewHourWindowHours, Smaller
      <4>2. QED
        BY <1>1, <1>6, <1>8, <4>1
    <3>4. QED
      BY <1>1, <3>1, <3>2, <3>3
  <2>4. QED
    BY <2>1, <2>2, <2>3 DEF Shown
<1>13. QED
  BY <1>1, <1>6, <1>8, <1>9, <1>11, <1>12

(* The server cuts nothing off a range shorter than a day. *)
LEMMA ShortRangeWhole ==
  ASSUME NEW D, Shown(D), ShortRange
  PROVE  HourlyEvents(answer.filter, D) = D
<1>1. /\ DayHours \in Nat \ {0} /\ HourTicks \in Nat \ {0} /\ Missing \notin Int
      /\ PresetHours \in [DOMAIN PresetHours -> Nat \ {0}]
      /\ "all" \notin DOMAIN PresetHours
  BY FiguresAssumption
<1>2. /\ answer.range \in DOMAIN PresetHours /\ answer.range # "all"
      /\ PresetHours[answer.range] < DayHours
  BY <1>1 DEF ShortRange
<1>3. PICK e \in Nat \ {0} : e = answer.filter.end
  BY <1>2 DEF Shown
<1>4. PICK last \in Int : last = HourNumber(e)
  BY HourInt
<1>5. PICK p \in Nat \ {0} : p = PresetHours[answer.range]
  BY <1>1, <1>2
<1>6. LatestHourlySeriesStart(answer.filter, D) = last - (DayHours - 1)
  BY <1>1, <1>3, <1>4 DEF LatestHourlySeriesStart
<1>7. ASSUME NEW d \in D PROVE HourKey(d) >= last - (DayHours - 1)
  <2>1. d.at \in Nat \ {0} /\ d.at >= e - p * HourTicks
    BY <1>2, <1>3, <1>5 DEF Shown, EventsOK
  <2>2. e - p * HourTicks \in Int /\ HourNumber(e - p * HourTicks) = last - p
    BY <1>1, <1>4, HourShift
  <2>3. HourKey(d) = HourNumber(d.at) /\ HourNumber(d.at) \in Int
    BY <2>1, HourInt DEF HourKey, Dated
  <2>4. HourNumber(d.at) >= last - p
    BY <2>1, <2>2, HourOrder
  <2>5. QED
    BY <1>1, <1>2, <1>5, <2>3, <2>4
<1>8. QED
  BY <1>6, <1>7 DEF HourlyEvents

-----------------------------------------------------------------------------
(* The series of an answer. *)

PartOf(E, D) == E \subseteq D

Amounts(counter, D) == IF counter = "requests" THEN Ones(D) ELSE [d \in D |-> d[counter]]
OfModel(D, m) == {d \in D : d.model = m}
ModelsOf(D) == {d.model : d \in D}

(* The series of all models, and that of one. *)
WholeSeries(source, counter) == source.all[counter]
ModelSeries(source, m, counter) == source.models[m][counter]

LEMMA SeriesOfAll ==
  ASSUME NEW period, NEW D, NEW counter \in Counter
  PROVE  WholeSeries(OverviewSeries(period, D), counter) = Sums(period, Amounts(counter, D))
<1>1. CASE counter = "requests"
  BY <1>1 DEF OverviewSeries, Amounts, OfModel, ModelsOf, WholeSeries
<1>2. CASE counter = "tokens"
  BY <1>2 DEF OverviewSeries, Amounts, OfModel, ModelsOf, WholeSeries
<1>3. CASE counter = "cost"
  BY <1>3 DEF OverviewSeries, Amounts, OfModel, ModelsOf, WholeSeries
<1>4. CASE counter = "reasoning"
  BY <1>4 DEF OverviewSeries, Amounts, OfModel, ModelsOf, WholeSeries
<1>5. QED
  BY <1>1, <1>2, <1>3, <1>4 DEF Counter

LEMMA SeriesModels ==
  ASSUME NEW period, NEW D
  PROVE  DOMAIN OverviewSeries(period, D).models = ModelsOf(D)
BY DEF OverviewSeries, ModelsOf

LEMMA SeriesOfModel ==
  ASSUME NEW period, NEW D, NEW counter \in Counter, NEW m \in ModelsOf(D)
  PROVE  ModelSeries(OverviewSeries(period, D), m, counter)
           = Sums(period, Amounts(counter, OfModel(D, m)))
<1>1. CASE counter = "requests"
  BY <1>1 DEF OverviewSeries, Amounts, OfModel, ModelsOf, ModelSeries
<1>2. CASE counter = "tokens"
  BY <1>2 DEF OverviewSeries, Amounts, OfModel, ModelsOf, ModelSeries
<1>3. CASE counter = "cost"
  BY <1>3 DEF OverviewSeries, Amounts, OfModel, ModelsOf, ModelSeries
<1>4. CASE counter = "reasoning"
  BY <1>4 DEF OverviewSeries, Amounts, OfModel, ModelsOf, ModelSeries
<1>5. QED
  BY <1>1, <1>2, <1>3, <1>4 DEF Counter

LEMMA AmountsAre ==
  ASSUME NEW D, EventsOK(D), NEW E \in SUBSET D, NEW counter \in Counter
  PROVE  /\ IsFiniteSet(E) /\ DOMAIN Amounts(counter, E) = E
         /\ \A d \in E : /\ Amounts(counter, E)[d] = Amounts(counter, D)[d]
                         /\ Amounts(counter, D)[d] \in Int
<1>1. IsFiniteSet(E)
  BY FS_Subset DEF EventsOK
<1>2. CASE counter = "requests"
  BY <1>1, <1>2 DEF Amounts, Ones
<1>3. CASE counter # "requests"
  <2>1. counter \in {"tokens", "cost", "reasoning"}
    BY <1>3 DEF Counter
  <2>2. \A d \in D : d[counter] \in Int
    BY <2>1 DEF EventsOK
  <2>3. QED
    BY <1>1, <1>3, <2>2 DEF Amounts
<1>4. QED
  BY <1>2, <1>3

LEMMA AnswerIs ==
  ASSUME NEW D, Shown(D), NEW counter \in Counter
  PROVE  /\ answer.usage.summary[counter] = SumOver(Amounts(counter, D), D)
         /\ answer.usage.hourly = OverviewSeries("hour", HourlyEvents(answer.filter, D))
         /\ answer.usage.daily = OverviewSeries("day", D)
         /\ \E period \in {"hour", "day"} : answer.usage.series = OverviewSeries(period, D)
<1>1. answer.usage = BuildUsageOverview(answer.range, answer.filter, D) /\ EventsOK(D) /\ IsFiniteSet(D)
  BY DEF Shown, EventsOK
<1>2. /\ answer.usage.hourly = OverviewSeries("hour", HourlyEvents(answer.filter, D))
      /\ answer.usage.daily = OverviewSeries("day", D)
      /\ answer.usage.series =
           OverviewSeries(IF ShouldBucketUsageOverviewByDay(answer.range, answer.filter)
                          THEN "day" ELSE "hour", D)
  BY <1>1 DEF BuildUsageOverview, HourlyEvents
<1>3. CASE counter = "requests"
  <2>1. answer.usage.summary[counter] = Cardinality(D)
    BY <1>1, <1>3 DEF BuildUsageOverview
  <2>2. \A d \in D : Amounts(counter, D)[d] = 1
    BY <1>3 DEF Amounts, Ones
  <2>3. QED
    BY <1>1, <1>2, <2>1, <2>2, SumOverOnes
<1>4. CASE counter # "requests"
  <2>1. answer.usage.summary[counter] = SumOf([d \in D |-> d[counter]])
    <3>1. CASE counter = "tokens"
      BY <1>1, <3>1 DEF BuildUsageOverview
    <3>2. CASE counter = "cost"
      BY <1>1, <3>2 DEF BuildUsageOverview
    <3>3. CASE counter = "reasoning"
      BY <1>1, <3>3 DEF BuildUsageOverview
    <3>4. QED
      BY <1>4, <3>1, <3>2, <3>3 DEF Counter
  <2>2. Amounts(counter, D) = [d \in D |-> d[counter]] /\ DOMAIN Amounts(counter, D) = D
    BY <1>4 DEF Amounts
  <2>3. SumOf(Amounts(counter, D)) = SumOver(Amounts(counter, D), D)
    BY <2>2, SumOfIs
  <2>4. QED
    BY <1>2, <2>1, <2>2, <2>3
<1>5. QED
  BY <1>3, <1>4

-----------------------------------------------------------------------------
(* The lines of a chart. *)

LEMMA ChartHoursFinite ==
  ASSUME NEW D, Shown(D)
  PROVE  IsFiniteSet(ChartHours)
<1>1. PICK c \in Nat \ {0}, last \in Int :
        last = LastHour /\ c = ResolveHourBucketCount(GetOverviewHourWindowHours)
  BY ChartHoursAre
<1>2. ChartHours = (last - c + 1) .. last /\ last - c + 1 \in Int
  BY <1>1, ChartHoursAre
<1>3. QED
  BY <1>2, FS_Interval

(* A chart of the events E, all of them with amounts. *)
ChartKeys(period, counter, E) ==
  IF period = "day" THEN DOMAIN Sums(period, Amounts(counter, E)) ELSE ChartHours

(* The chart of the events E, and what of S it shows. *)
ChartOf(period, E, counter, lines) == BuildChart(OverviewSeries(period, E), period, counter, lines)
Charted(period, E, counter, D, S) ==
  SumOver(Amounts(counter, D), OfBuckets(period, S, ChartKeys(period, counter, E)))

LEMMA ChartKeysFinite ==
  ASSUME NEW D, Shown(D), NEW E, PartOf(E, D), NEW counter \in Counter, NEW period
  PROVE  IsFiniteSet(ChartKeys(period, counter, E))
<1>1. CASE period = "day"
  <2> DEFINE key == [d \in E |-> BucketKey(period, d)]
  <2>1. EventsOK(D)
    BY DEF Shown
  <2>2. IsFiniteSet(E) /\ DOMAIN Amounts(counter, E) = E
    BY <2>1, AmountsAre DEF PartOf
  <2>3. DOMAIN Sums(period, Amounts(counter, E)) = {key[d] : d \in E}
    BY <2>2 DEF Sums
  <2>4. QED
    <3> HIDE DEF key
    <3>1. QED
      BY <1>1, <2>2, <2>3, ImageFinite DEF ChartKeys
<1>2. CASE period # "day"
  BY <1>2, ChartHoursFinite DEF ChartKeys
<1>3. QED
  BY <1>1, <1>2

LinesFor(lines, E) == lines \cap ({"all"} \cup ModelsOf(E))

LEMMA NoAmounts ==
  ASSUME NEW D, Shown(D), NEW E, PartOf(E, D), NEW counter \in Counter, NEW period
  PROVE  DOMAIN Sums(period, Amounts(counter, E)) = {} <=> E = {}
<1>1. DOMAIN Amounts(counter, E) = E
  BY AmountsAre DEF PartOf, Shown
<1>2. DOMAIN Sums(period, Amounts(counter, E)) = {BucketKey(period, d) : d \in E}
  BY <1>1 DEF Sums
<1>3. QED
  BY <1>2

LEMMA ChartDomain ==
  ASSUME NEW D, Shown(D), NEW E, PartOf(E, D), NEW counter \in Counter, NEW period, NEW lines
  PROVE  DOMAIN ChartOf(period, E, counter, lines) = IF E = {} THEN {} ELSE LinesFor(lines, E)
<1> DEFINE source == OverviewSeries(period, E)
<1>1. WholeSeries(source, counter) = Sums(period, Amounts(counter, E))
  BY SeriesOfAll
<1>2. DOMAIN source.models = ModelsOf(E)
  BY SeriesModels
<1>3. DOMAIN Sums(period, Amounts(counter, E)) = {} <=> E = {}
  BY NoAmounts
<1> HIDE DEF source
<1>4. DOMAIN BuildChart(source, period, counter, lines) = IF E = {} THEN {} ELSE LinesFor(lines, E)
  BY <1>1, <1>2, <1>3 DEF BuildChart, LinesFor, WholeSeries
<1>5. QED
  BY <1>4 DEF ChartOf, source

(* The buckets of a line add up to what of the line's events they hold. *)
LEMMA PartSum ==
  ASSUME NEW D, Shown(D), NEW E, PartOf(E, D), NEW S, PartOf(S, D), NEW counter \in Counter,
         NEW period
  PROVE  SumOf([k \in ChartKeys(period, counter, E) |-> At(Sums(period, Amounts(counter, S)), k)])
           = Charted(period, E, counter, D, S)
<1> DEFINE v == Amounts(counter, S)
           f == Amounts(counter, D)
           keys == ChartKeys(period, counter, E)
<1>1. EventsOK(D) /\ S \in SUBSET D
  BY DEF Shown, PartOf
<1>2. IsFiniteSet(S) /\ DOMAIN v = S /\ \A d \in S : v[d] = f[d] /\ f[d] \in Int
  BY <1>1, AmountsAre
<1>3. IsFiniteSet(keys)
  BY ChartKeysFinite
<1> HIDE DEF v, f, keys
<1>4. SumOf([k \in keys |-> At(Sums(period, v), k)]) = SumOver(f, OfBuckets(period, S, keys))
  BY <1>2, <1>3, BucketsSum
<1>5. QED
  BY <1>4 DEF v, f, keys, Charted

LEMMA AllLineOfChart ==
  ASSUME NEW D, Shown(D), NEW E, PartOf(E, D), NEW counter \in Counter, NEW period, NEW lines,
         "all" \in DOMAIN ChartOf(period, E, counter, lines)
  PROVE  SumOf(ChartOf(period, E, counter, lines)["all"]) = Charted(period, E, counter, D, E)
<1> DEFINE source == OverviewSeries(period, E)
           keys == ChartKeys(period, counter, E)
           v == Amounts(counter, E)
<1>1. WholeSeries(source, counter) = Sums(period, v)
  BY SeriesOfAll
<1>2. "all" \in DOMAIN BuildChart(source, period, counter, lines)
  BY DEF ChartOf
<1>3. BuildChart(source, period, counter, lines)["all"] = [k \in keys |-> At(Sums(period, v), k)]
  <2> HIDE DEF source
  <2>1. QED
    BY <1>1, <1>2 DEF BuildChart, ChartKeys, ChartHours, WholeSeries
<1>4. SumOf([k \in keys |-> At(Sums(period, v), k)]) = Charted(period, E, counter, D, E)
  BY PartSum
<1>5. QED
  BY <1>3, <1>4 DEF ChartOf

LEMMA ModelLineOfChart ==
  ASSUME NEW D, Shown(D), NEW E, PartOf(E, D), NEW counter \in Counter, NEW period, NEW lines,
         NEW m \in ModelsOf(E), m \in DOMAIN ChartOf(period, E, counter, lines), m # "all"
  PROVE  SumOf(ChartOf(period, E, counter, lines)[m])
           = Charted(period, E, counter, D, OfModel(E, m))
<1> DEFINE source == OverviewSeries(period, E)
           keys == ChartKeys(period, counter, E)
           S == OfModel(E, m)
           v == Amounts(counter, S)
<1>1. WholeSeries(source, counter) = Sums(period, Amounts(counter, E))
  BY SeriesOfAll
<1>2. ModelSeries(source, m, counter) = Sums(period, v)
  BY SeriesOfModel
<1>3. m \in DOMAIN BuildChart(source, period, counter, lines)
  BY DEF ChartOf
<1>4. BuildChart(source, period, counter, lines)[m] = [k \in keys |-> At(Sums(period, v), k)]
  <2> HIDE DEF source
  <2>1. QED
    BY <1>1, <1>2, <1>3 DEF BuildChart, ChartKeys, ChartHours, WholeSeries, ModelSeries
<1>5. PartOf(S, D)
  BY DEF PartOf, OfModel
<1> HIDE DEF S
<1>6. SumOf([k \in keys |-> At(Sums(period, v), k)]) = Charted(period, E, counter, D, S)
  BY <1>5, PartSum
<1>7. QED
  BY <1>4, <1>6 DEF ChartOf, S

ModelLines(chart) == SumOf([m \in DOMAIN chart \ {"all"} |-> SumOf(chart[m])])

LEMMA ChartIsWhole ==
  ASSUME NEW D, Shown(D), NEW E, PartOf(E, D), NEW counter \in Counter, NEW period, NEW lines,
         "all" \in lines
  PROVE  AllLine(ChartOf(period, E, counter, lines)) = Charted(period, E, counter, D, E)
<1> DEFINE chart == ChartOf(period, E, counter, lines)
<1>1. CASE E = {}
  <2>1. DOMAIN chart = {}
    BY <1>1, ChartDomain
  <2>2. OfBuckets(period, E, ChartKeys(period, counter, E)) = {}
    BY <1>1 DEF OfBuckets
  <2>3. QED
    BY <2>1, <2>2, SumOverEmpty DEF AllLine, Charted
<1>2. CASE E # {}
  <2>1. "all" \in DOMAIN chart
    <3>1. DOMAIN chart = LinesFor(lines, E)
      BY <1>2, ChartDomain
    <3>2. QED
      BY <3>1 DEF LinesFor
  <2>2. SumOf(chart["all"]) = Charted(period, E, counter, D, E)
    BY <2>1, AllLineOfChart
  <2>3. QED
    BY <2>1, <2>2 DEF AllLine
<1>3. QED
  BY <1>1, <1>2

LEMMA ModelLinesAddUp ==
  ASSUME NEW D, Shown(D), NEW E, PartOf(E, D), NEW counter \in Counter, NEW period
  PROVE  ModelLines(ChartOf(period, E, counter, {"all"} \cup ServedModels))
           = AllLine(ChartOf(period, E, counter, {"all"} \cup ServedModels))
<1> DEFINE lines == {"all"} \cup ServedModels
           chart == ChartOf(period, E, counter, lines)
           keys == ChartKeys(period, counter, E)
           f == Amounts(counter, D)
           B == OfBuckets(period, E, keys)
           models == ModelsOf(E)
           g == [m \in DOMAIN chart \ {"all"} |-> SumOf(chart[m])]
           model == [d \in E |-> d.model]
<1>1. EventsOK(D)
  BY DEF Shown
<1>2. IsFiniteSet(E) /\ \A d \in E : f[d] \in Int
  BY <1>1, AmountsAre DEF PartOf
<1>3. models \subseteq ServedModels /\ "all" \notin ServedModels
  <2>1. models \subseteq ServedModels
    BY <1>1 DEF EventsOK, ModelsOf, PartOf
  <2>2. "all" \notin ServedModels
    BY ChartsAssumption DEF ServedModels
  <2>3. QED
    BY <2>1, <2>2
<1>4. DOMAIN chart = IF E = {} THEN {} ELSE LinesFor(lines, E)
  BY ChartDomain
<1>5. DOMAIN chart \ {"all"} = models
  <2>1. E = {} => models = {}
    BY DEF ModelsOf
  <2>2. LinesFor(lines, E) \ {"all"} = models
    BY <1>3 DEF LinesFor
  <2> HIDE DEF models, chart
  <2>3. QED
    BY <1>4, <2>1, <2>2
<1>6. IsFiniteSet(models)
  <2>1. models = {model[d] : d \in E}
    BY DEF ModelsOf
  <2> HIDE DEF model, models
  <2>2. QED
    BY <1>2, <2>1, ImageFinite
<1>7. IsFiniteSet(B) /\ \A d \in B : f[d] \in Int /\ model[d] \in models
  BY <1>2, FS_Subset DEF OfBuckets, ModelsOf
<1>8. ASSUME NEW m \in models PROVE g[m] = SumOver(f, Fibre(B, model, m))
  <2>1. Fibre(B, model, m) = OfBuckets(period, OfModel(E, m), keys)
    BY DEF Fibre, OfBuckets, OfModel
  <2>2. g[m] = SumOf(chart[m])
    BY <1>5
  <2>3. SumOf(chart[m]) = SumOver(f, OfBuckets(period, OfModel(E, m), keys))
    <3>1. m \in DOMAIN chart /\ m # "all"
      BY <1>5
    <3>2. SumOf(chart[m]) = Charted(period, E, counter, D, OfModel(E, m))
      BY <3>1, ModelLineOfChart
    <3>3. QED
      BY <3>2 DEF Charted
  <2>4. QED
    BY <2>1, <2>2, <2>3
<1>9. SumOf(g) = SumOver(g, models)
  <2>1. DOMAIN g = models
    BY <1>5
  <2> HIDE DEF g, models
  <2>2. QED
    BY <2>1, SumOfIs
<1>10. SumOver(g, models) = SumOver(f, B)
  <2>1. \A m \in models : g[m] = SumOver(f, Fibre(B, model, m))
    BY <1>8
  <2> HIDE DEF g, models, model, B, f
  <2>2. QED
    BY <1>6, <1>7, <2>1, SumByKey
<1>11. AllLine(chart) = SumOver(f, B)
  BY ChartIsWhole DEF Charted
<1>12. QED
  BY <1>9, <1>10, <1>11 DEF ModelLines

-----------------------------------------------------------------------------
(* The charts of an answer against its cards. *)

LEMMA ShownMatchesCards ==
  ASSUME NEW D, Shown(D), answer # NoAnswer
  PROVE  ChartsMatchCards
<1> DEFINE E == HourlyEvents(answer.filter, D)
           card == answer.usage.summary
           hourly == answer.usage.hourly
           daily == answer.usage.daily
           series == answer.usage.series
           Total(counter) == SumOver(Amounts(counter, D), D)
<1>1. EventsOK(D) /\ PartOf(D, D) /\ PartOf(E, D)
  BY DEF Shown, HourlyEvents, PartOf
<1>2. /\ hourly = OverviewSeries("hour", E) /\ daily = OverviewSeries("day", D)
      /\ \A counter \in Counter : card[counter] = Total(counter)
      /\ \E period \in {"hour", "day"} : series = OverviewSeries(period, D)
  BY AnswerIs DEF Counter
<1>3. \A counter \in Counter : OfBuckets("day", D, ChartKeys("day", counter, D)) = D
  <2> TAKE counter \in Counter
  <2>1. DOMAIN Amounts(counter, D) = D
    BY <1>1, AmountsAre DEF PartOf
  <2>2. QED
    BY <2>1 DEF OfBuckets, ChartKeys, Sums
<1>4. \A counter \in Counter :
        AllLine(BuildChart(daily, "day", counter, {"all"})) = Total(counter)
  <2> TAKE counter \in Counter
  <2>1. AllLine(ChartOf("day", D, counter, {"all"})) = Charted("day", D, counter, D, D)
    BY <1>1, ChartIsWhole
  <2>2. QED
    BY <1>2, <1>3, <2>1 DEF ChartOf, Charted
<1>sums. ASSUME NEW period \in {"hour", "day"}, NEW counter \in Counter
       PROVE  SumOf(OverviewSeries(period, D).all[counter]) = Total(counter)
  <2>1. OverviewSeries(period, D).all[counter] = Sums(period, Amounts(counter, D))
    BY SeriesOfAll DEF WholeSeries
  <2> DEFINE v == Amounts(counter, D)
  <2>2. IsFiniteSet(D) /\ DOMAIN v = D /\ \A d \in D : v[d] = v[d] /\ v[d] \in Int
    BY <1>1, AmountsAre DEF PartOf
  <2>3. SumOf(Sums(period, v)) = SumOver(v, D)
    <3> HIDE DEF v
    <3>1. QED
      BY <2>2, AllBucketsSum
  <2>4. QED
    BY <2>1, <2>3
<1>5. \A counter \in Counter :
        /\ daily.all[counter] = Sums("day", Amounts(counter, D))
        /\ SumOf(daily.all[counter]) = Total(counter)
  BY <1>2, <1>sums, SeriesOfAll DEF WholeSeries
<1>6. \A counter \in Counter : hourly.all[counter] = Sums("hour", Amounts(counter, E))
  <2> TAKE counter \in Counter
  <2> HIDE DEF E
  <2>1. QED
    BY <1>2, SeriesOfAll DEF WholeSeries
<1>7. \A counter \in Counter :
        AllLine(BuildChart(hourly, "hour", counter, {"all"}))
          = SumOver(Amounts(counter, D), OfBuckets("hour", E, ChartHours))
  <2> TAKE counter \in Counter
  <2> HIDE DEF E
  <2>1. AllLine(ChartOf("hour", E, counter, {"all"})) = Charted("hour", E, counter, D, E)
    BY <1>1, ChartIsWhole
  <2>2. QED
    BY <1>2, <2>1 DEF ChartOf, Charted, ChartKeys
<1>8. \A counter \in Counter :
        SumOf([k \in ChartHours |-> At(hourly.all[counter], k)])
          = SumOver(Amounts(counter, D), OfBuckets("hour", E, ChartHours))
  <2> TAKE counter \in Counter
  <2> DEFINE v == Amounts(counter, E)
             f == Amounts(counter, D)
  <2>1. IsFiniteSet(E) /\ DOMAIN v = E /\ \A d \in E : v[d] = f[d] /\ f[d] \in Int
    BY <1>1, AmountsAre DEF PartOf
  <2> HIDE DEF E, v, f
  <2>2. SumOf([k \in ChartHours |-> At(Sums("hour", v), k)]) = SumOver(f, OfBuckets("hour", E, ChartHours))
    BY <2>1, ChartHoursFinite, BucketsSum
  <2>3. QED
    BY <1>6, <2>2 DEF v, f
<1>9. answer.range # "all" => OfBuckets("hour", E, ChartHours) = E
  <2>1. ASSUME answer.range # "all", NEW d \in E PROVE BucketKey("hour", d) \in ChartHours
    BY <2>1, HourlyEventsFit DEF BucketKey
  <2>2. QED
    BY <2>1 DEF OfBuckets
<1>10. ShortRange => E = D /\ answer.range # "all"
  BY ShortRangeWhole, FiguresAssumption DEF ShortRange
<1> HIDE DEF E
<1>11. BuildStatCardMetrics = card
  BY DEF BuildStatCardMetrics
<1>12. /\ RequestsChart("day", {"all"}) = BuildChart(daily, "day", "requests", {"all"})
       /\ TokensChart("day", {"all"}) = BuildChart(daily, "day", "tokens", {"all"})
       /\ RequestsChart("hour", {"all"}) = BuildChart(hourly, "hour", "requests", {"all"})
       /\ TokensChart("hour", {"all"}) = BuildChart(hourly, "hour", "tokens", {"all"})
  BY DEF RequestsChart, TokensChart
<1>13. /\ BuildOverviewCostTrendSeries("day") = daily.all["cost"]
  BY DEF BuildOverviewCostTrendSeries
<1>14. BuildOverviewCostTrendSeries("hour") = [k \in ChartHours |-> At(hourly.all["cost"], k)]
  BY ChartHoursAre DEF BuildOverviewCostTrendSeries, LastHour
<1>15. SumOf(BuildTokenBreakdownChartSeries("day")) = card.reasoning
  <2> DEFINE w == daily.all.reasoning
             g == BuildTokenBreakdownChartSeries("day")
  <2>1. g = [k \in DOMAIN w |-> At(w, k)]
    BY DEF BuildTokenBreakdownChartSeries
  <2>2. w = [k \in DOMAIN w |-> w[k]]
    <3>1. w = Sums("day", Amounts("reasoning", D))
      BY <1>5 DEF Counter
    <3>2. QED
      BY <3>1 DEF Sums
  <2>3. g = w
    <3> HIDE DEF g, w
    <3>1. QED
      BY <2>1, <2>2 DEF At
  <2>4. QED
    BY <1>2, <1>5, <2>3 DEF Counter
<1>16. ShortRange =>
         SumOf(BuildTokenBreakdownChartSeries("hour"))
           = card.reasoning - At(hourly.all.reasoning, PartialHour)
  <2> SUFFICES ASSUME ShortRange
               PROVE  SumOf(BuildTokenBreakdownChartSeries("hour"))
                        = card.reasoning - At(hourly.all.reasoning, PartialHour)
    OBVIOUS
  <2> DEFINE w == hourly.all.reasoning
             G == [k \in ChartHours |-> At(w, k)]
             L == ChartHours \ {PartialHour}
             breakdown == BuildTokenBreakdownChartSeries("hour")
  <2>1. "reasoning" \in Counter /\ E = D /\ w = Sums("hour", Amounts("reasoning", E))
    BY <1>6, <1>10 DEF Counter
  <2>2. SumOf(G) = card.reasoning
    BY <1>2, <1>8, <1>9, <1>10, <2>1
  <2>3. DOMAIN w = {} <=> E = {}
    BY <1>1, <2>1, NoAmounts
  <2>4. IsFiniteSet(ChartHours) /\ PartialHour \in ChartHours
        /\ L = (LastHour - NormalizeHourWindow(GetOverviewHourWindowHours) + 1) .. LastHour
    <3>1. IsFiniteSet(ChartHours)
      BY ChartHoursFinite
    <3>2. PICK last \in Int : last = LastHour
      BY ChartHoursAre
    <3>3. PICK h \in Nat \ {0} : h = GetOverviewHourWindowHours
      BY OverviewHours
    <3>4. h < DayHours /\ DayHours \in Nat
      BY <3>3, OverviewHours, FiguresAssumption DEF ShortRange
    <3>5. ChartHours = (last - (h + 1) + 1) .. last /\ NormalizeHourWindow(h) = h
      BY <3>2, <3>3, <3>4, ChartHoursAre
    <3>6. PartialHour = last - h
      BY <3>2, <3>3 DEF PartialHour, LastHour
    <3> HIDE DEF L
    <3>7. PartialHour \in ChartHours
      BY <3>5, <3>6
    <3>8. ChartHours \ {PartialHour} = (last - h + 1) .. last
      BY <3>5, <3>6
    <3>9. QED
      BY <3>1, <3>2, <3>3, <3>5, <3>7, <3>8 DEF L
  <2>5. CASE E = {}
    <3>1. At(w, PartialHour) = 0
      BY <2>3, <2>5 DEF At
    <3>2. card.reasoning = 0
      BY <1>2, <2>1, <2>5, SumOverEmpty
    <3>3. breakdown = [k \in {} |-> At(w, k)]
      BY <2>3, <2>5 DEF BuildTokenBreakdownChartSeries, BuildHourlyLabels
    <3>4. SumOf(breakdown) = 0
      <4>1. DOMAIN breakdown = {}
        BY <3>3
      <4> HIDE DEF breakdown
      <4>2. SumOf(breakdown) = SumOver(breakdown, {})
        BY <4>1, SumOfIs, FS_EmptySet
      <4>3. QED
        BY <4>2, SumOverEmpty
    <3>5. QED
      BY <3>1, <3>2, <3>4
  <2>6. CASE E # {}
    <3>1. breakdown = [k \in L |-> At(w, k)]
      BY <2>3, <2>4, <2>6 DEF BuildTokenBreakdownChartSeries, BuildHourlyLabels, LastHour
    <3>2. \A k \in ChartHours : G[k] \in Int
      <4> SUFFICES ASSUME NEW k \in ChartHours PROVE G[k] \in Int
        OBVIOUS
      <4> DEFINE v == Amounts("reasoning", E)
                 B == OfBucket("hour", E, k)
      <4>1. IsFiniteSet(E) /\ DOMAIN v = E /\ \A d \in E : v[d] \in Int
        BY <1>1, <2>1, AmountsAre DEF PartOf
      <4>2. IsFiniteSet(B) /\ B \subseteq E
        BY <4>1, FS_Subset DEF OfBucket
      <4>3. G[k] = At(Sums("hour", v), k)
        BY <2>1
      <4> HIDE DEF v, G
      <4>4. At(Sums("hour", v), k) = SumOver(v, B)
        BY <4>1, SumsValue
      <4> HIDE DEF B
      <4>5. SumOver(v, B) \in Int
        BY <4>1, <4>2, SumOverInt
      <4>6. QED
        BY <4>3, <4>4, <4>5
    <3>3. G[PartialHour] = At(w, PartialHour)
      BY <2>4
    <3>4. SumOf(G) = SumOver(G, ChartHours)
      <4>1. DOMAIN G = ChartHours
        OBVIOUS
      <4> HIDE DEF G
      <4>2. QED
        BY <2>4, <4>1, SumOfIs
    <3>5. SumOf(breakdown) = SumOver(G, L)
      <4>1. IsFiniteSet(L) /\ L = DOMAIN breakdown /\ \A k \in L : G[k] = breakdown[k]
        BY <2>4, <3>1, FS_Subset
      <4> HIDE DEF G, L, breakdown
      <4>2. QED
        BY <4>1, SumOfOver
    <3> HIDE DEF G, breakdown
    <3>6. SumOver(G, ChartHours) = G[PartialHour] + SumOver(G, L)
      BY <2>4, <3>2, SumOverRemove
    <3>7. SumOver(G, L) \in Int
      <4>1. IsFiniteSet(L) /\ \A k \in L : G[k] \in Int
        BY <2>4, <3>2, FS_Subset
      <4> HIDE DEF L
      <4>2. QED
        BY <4>1, SumOverInt
    <3>8. G[PartialHour] \in Int
      BY <2>4, <3>2
    <3>9. QED
      <4>1. PICK a \in Int, b \in Int : a = G[PartialHour] /\ b = SumOver(G, L)
        BY <3>7, <3>8
      <4>2. card.reasoning = a + b /\ At(w, PartialHour) = a /\ SumOf(breakdown) = b
        BY <2>2, <3>3, <3>4, <3>5, <3>6, <4>1
      <4>3. QED
        BY <4>1, <4>2 DEF breakdown
  <2>7. QED
    BY <2>5, <2>6
<1>17. answer.range # "all" =>
         AllLine(RequestsChart("hour", {"all"})) = SumOf(hourly.all["requests"])
  <2> SUFFICES ASSUME answer.range # "all"
               PROVE  AllLine(RequestsChart("hour", {"all"})) = SumOf(hourly.all["requests"])
    OBVIOUS
  <2> DEFINE v == Amounts("requests", E)
             f == Amounts("requests", D)
  <2>1. "requests" \in Counter
    BY DEF Counter
  <2>2. IsFiniteSet(E) /\ DOMAIN v = E /\ \A d \in E : v[d] = f[d] /\ f[d] \in Int
    BY <1>1, <2>1, AmountsAre DEF PartOf
  <2>3. AllLine(RequestsChart("hour", {"all"})) = SumOver(f, E)
    BY <1>7, <1>9, <1>12, <2>1
  <2>4. hourly.all["requests"] = Sums("hour", v)
    BY <1>6, <2>1
  <2> HIDE DEF v, f
  <2>5. SumOf(Sums("hour", v)) = SumOver(f, E)
    BY <2>2, AllBucketsSum
  <2>6. QED
    BY <2>3, <2>4, <2>5
<1>18. ASSUME NEW period \in {"hour", "day"}
       PROVE  LET chart == TokensChart(period, {"all"} \cup ServedModels)
              IN  ModelLines(chart) = AllLine(chart)
  <2>1. "tokens" \in Counter
    BY DEF Counter
  <2>2. CASE period = "hour"
    <3>1. TokensChart(period, {"all"} \cup ServedModels)
            = ChartOf(period, E, "tokens", {"all"} \cup ServedModels)
      BY <1>2, <2>2 DEF TokensChart, ChartOf
    <3>2. QED
      BY <1>1, <2>1, <3>1, ModelLinesAddUp
  <2>3. CASE period = "day"
    <3>1. TokensChart(period, {"all"} \cup ServedModels)
            = ChartOf(period, D, "tokens", {"all"} \cup ServedModels)
      BY <1>2, <2>3 DEF TokensChart, ChartOf
    <3>2. QED
      BY <1>1, <2>1, <3>1, ModelLinesAddUp
  <2>4. QED
    BY <2>2, <2>3
<1>19. ShortRange =>
         /\ AllLine(RequestsChart("hour", {"all"})) = card.requests
         /\ AllLine(TokensChart("hour", {"all"})) = card.tokens
         /\ SumOf(BuildOverviewCostTrendSeries("hour")) = card.cost
  BY <1>2, <1>7, <1>8, <1>9, <1>10, <1>12, <1>14 DEF Counter
<1>20. /\ AllLine(RequestsChart("day", {"all"})) = card.requests
       /\ AllLine(TokensChart("day", {"all"})) = card.tokens
       /\ SumOf(BuildOverviewCostTrendSeries("day")) = card.cost
  BY <1>2, <1>4, <1>5, <1>12, <1>13 DEF Counter
<1>21. \A metric \in {"requests", "tokens", "cost"} :
         SumOf(BuildUsageSparklineSeries[metric]) = card[metric]
  <2>1. PICK period \in {"hour", "day"} : series = OverviewSeries(period, D)
    BY <1>2
  <2>2. BuildUsageSparklineSeries = OverviewSeries(period, D).all
    BY <2>1 DEF BuildUsageSparklineSeries
  <2>3. QED
    BY <1>2, <1>sums, <2>2 DEF Counter
<1>22. QED
  BY <1>11, <1>15, <1>16, <1>17, <1>18, <1>19, <1>20, <1>21
     DEF ChartsMatchCards, ModelLines, ServedModels

-----------------------------------------------------------------------------
(* The invariant of the charts: what the page shows is the answer to some  *)
(* events in its window, none of them after the clock.                     *)
ServedOK ==
  /\ tick \in FirstTick..LastTick
  /\ IsFiniteSet(served)
  /\ \A d \in served : /\ d.tokens \in Int /\ d.cost \in Int /\ d.reasoning \in Int
                       /\ d.at \in FirstTick..tick /\ d.model \in ServedModels

AnswerOK ==
  answer # NoAnswer => (\E D : Shown(D)) /\ answer.refreshed \in FirstTick..tick

ChartsInv == ServedOK /\ AnswerOK

LEMMA DayEnd ==
  ASSUME NEW t \in Nat \ {0}
  PROVE  DayStart(DayNumber(t) + 1) - 1 \in Nat \ {0}
<1>1. HourTicks \in Nat \ {0} /\ DayHours \in Nat \ {0} /\ ZoneShift \in Int
  BY FiguresAssumption
<1>2. PICK n \in Nat \ {0} : n = DayHours * HourTicks
  BY <1>1
<1>3. PICK q \in Int : q = (t + ZoneShift) \div n
  BY <1>1, <1>2
<1>4. (q + 1) * n > t + ZoneShift
  BY <1>1, <1>2, <1>3
<1>5. DayStart(DayNumber(t) + 1) = (q + 1) * n - ZoneShift
  <2>1. DayNumber(t) = q
    BY <1>2, <1>3 DEF DayNumber
  <2>2. DayStart(q + 1) = (q + 1) * DayHours * HourTicks - ZoneShift
    BY DEF DayStart
  <2>3. (q + 1) * DayHours * HourTicks = (q + 1) * n
    BY <1>1, <1>2
  <2>4. QED
    BY <2>1, <2>2, <2>3
<1>6. PICK m \in Int : m = (q + 1) * n
  OBVIOUS
<1>7. QED
  BY <1>1, <1>4, <1>5, <1>6

(* A custom range that holds a moment holds a day. *)
LEMMA DaysLast ==
  ASSUME NEW a \in Int, NEW b \in Int, NEW t \in Int,
         DayStart(a) <= t, t <= DayStart(b + 1) - 1
  PROVE  (DayStart(b + 1) - 1) - DayStart(a) + 1 >= DayHours * HourTicks
<1>1. HourTicks \in Nat \ {0} /\ DayHours \in Nat \ {0} /\ ZoneShift \in Int
  BY FiguresAssumption
<1>2. PICK n \in Nat \ {0} : n = DayHours * HourTicks
  BY <1>1
<1>3. ASSUME NEW x \in Int PROVE DayStart(x) = x * n - ZoneShift
  <2>1. x * DayHours * HourTicks = x * n
    BY <1>1, <1>2
  <2>2. QED
    BY <2>1 DEF DayStart
<1>4. DayStart(a) = a * n - ZoneShift /\ DayStart(b + 1) = (b + 1) * n - ZoneShift
  BY <1>3
<1>5. a * n < (b + 1) * n
  <2>1. PICK u \in Int, v \in Int : u = a * n /\ v = (b + 1) * n
    OBVIOUS
  <2>2. u - ZoneShift <= t /\ t <= v - ZoneShift - 1
    BY <1>4, <2>1
  <2>3. u < v
    BY <1>1, <2>2
  <2>4. QED
    BY <2>1, <2>3
<1>6. b + 1 - a >= 1
  <2>1. CASE a >= b + 1
    BY <1>2, <1>5, <2>1
  <2>2. QED
    BY <2>1
<1>7. (b + 1 - a) * n >= n
  BY <1>2, <1>6
<1>8. (b + 1) * n - a * n >= n
  <2>1. (b + 1 - a) * n = (b + 1) * n - a * n
    BY <1>2
  <2>2. QED
    BY <1>7, <2>1
<1>9. PICK u \in Int, v \in Int : u = a * n /\ v = (b + 1) * n
  OBVIOUS
<1>10. QED
  BY <1>1, <1>2, <1>4, <1>8, <1>9

(* What Shown says of a filter and its events. *)
FilterOK(range, filter, D) ==
  /\ EventsOK(D)
  /\ range \in DOMAIN PresetHours \cup {"all", "today", "custom"}
  /\ range = "all" => filter.end = Missing
  /\ range # "all" => filter.end \in Nat \ {0} /\ \A d \in D : d.at <= filter.end
  /\ range \in DOMAIN PresetHours =>
       \A d \in D : d.at >= filter.end - PresetHours[range] * HourTicks
  /\ range = "custom" =>
       /\ filter.start \in Int
       /\ D # {} => filter.end - filter.start + 1 >= DayHours * HourTicks

LEMMA DayStartInt ==
  ASSUME NEW a \in Int
  PROVE  DayStart(a) \in Int
<1>1. HourTicks \in Int /\ DayHours \in Int /\ ZoneShift \in Int
  BY FiguresAssumption
<1>2. a * DayHours \in Int
  BY <1>1
<1>3. a * DayHours * HourTicks \in Int
  BY <1>1, <1>2
<1>4. QED
  BY <1>1, <1>3 DEF DayStart

LEMMA FilteredOK ==
  ASSUME ServedOK, NEW filter
  PROVE  EventsOK(FilteredEvents(filter))
<1>1. FirstTick \in Nat \ {0} /\ LastTick \in Nat
  BY ChartsAssumption
<1>2. FilteredEvents(filter) \subseteq served /\ IsFiniteSet(FilteredEvents(filter))
  BY FS_Subset DEF FilteredEvents, ServedOK
<1>3. \A d \in served : d.at \in Nat \ {0}
  BY <1>1 DEF ServedOK
<1>4. QED
  BY <1>2, <1>3 DEF EventsOK, ServedOK

LEMMA FilterFits ==
  ASSUME ServedOK, NEW range, NEW days,
         \/ range \in DOMAIN PresetHours \cup {"all", "today"}
         \/ range = "custom" /\ days \in CustomDays
  PROVE  LET filter == ParseUsageFilter(range, days)
         IN  FilterOK(range, filter, FilteredEvents(filter))
<1>1. PICK filter : filter = ParseUsageFilter(range, days)
  OBVIOUS
<1>2. PICK D : D = FilteredEvents(filter)
  OBVIOUS
<1>3. EventsOK(D)
  BY <1>2, FilteredOK
<1>4. /\ "all" \notin DOMAIN PresetHours /\ "today" \notin DOMAIN PresetHours
      /\ "custom" \notin DOMAIN PresetHours /\ Missing \notin Int
      /\ PresetHours \in [DOMAIN PresetHours -> Nat \ {0}]
      /\ HourTicks \in Nat \ {0}
  BY FiguresAssumption
<1>5. tick \in Nat \ {0}
  BY ChartsAssumption DEF ServedOK
<1>6. \A d \in D : InWindow(d, filter)
  BY <1>2 DEF FilteredEvents
<1>7. CASE range = "all"
  <2>1. filter.end = Missing
    BY <1>1, <1>7 DEF ParseUsageFilter
  <2>2. QED
    BY <1>1, <1>2, <1>3, <1>4, <1>7, <2>1 DEF FilterOK
<1>8. CASE range = "today"
  <2>1. filter.end = DayStart(DayNumber(tick) + 1) - 1
    BY <1>1, <1>8 DEF ParseUsageFilter
  <2>2. filter.end \in Nat \ {0}
    BY <1>5, <2>1, DayEnd
  <2>3. \A d \in D : d.at <= filter.end
    BY <1>4, <1>6, <2>2 DEF InWindow
  <2>4. QED
    BY <1>1, <1>2, <1>3, <1>4, <1>8, <2>2, <2>3 DEF FilterOK
<1>9. CASE range \in DOMAIN PresetHours
  <2>1. range # "all" /\ range # "today" /\ range # "custom"
    BY <1>4, <1>9
  <2>2. PICK p \in Nat \ {0} : p = PresetHours[range]
    BY <1>4, <1>9
  <2>3. filter.end = tick /\ filter.start = tick - p * HourTicks
    BY <1>1, <2>1, <2>2 DEF ParseUsageFilter
  <2>4. filter.start \in Int
    BY <1>4, <1>5, <2>3
  <2>5. \A d \in D : d.at <= filter.end /\ d.at >= filter.start
    BY <1>4, <1>5, <1>6, <2>3, <2>4 DEF InWindow
  <2>6. QED
    BY <1>1, <1>2, <1>3, <1>5, <1>9, <2>1, <2>2, <2>3, <2>5 DEF FilterOK
<1>10. CASE range = "custom" /\ days \in CustomDays
  <2>1. PICK a \in Int : a = days[1]
    BY <1>10, ChartsAssumption
  <2>2. PICK b \in Int : b = days[2] /\ DayStart(b + 1) > 1
    BY <1>10, ChartsAssumption
  <2>3. filter.start = DayStart(a) /\ filter.end = DayStart(b + 1) - 1
    BY <1>1, <1>10, <2>1, <2>2 DEF ParseUsageFilter
  <2>4. filter.start \in Int /\ filter.end \in Nat \ {0}
    BY <2>2, <2>3, DayStartInt
  <2>5. \A d \in D : d.at <= filter.end /\ d.at >= filter.start
    BY <1>4, <1>6, <2>4 DEF InWindow
  <2>6. D # {} => filter.end - filter.start + 1 >= DayHours * HourTicks
    <3> SUFFICES ASSUME NEW d \in D PROVE filter.end - filter.start + 1 >= DayHours * HourTicks
      OBVIOUS
    <3>1. d.at \in Int
      BY <1>3 DEF EventsOK
    <3>2. DayStart(a) <= d.at /\ d.at <= DayStart(b + 1) - 1
      BY <2>3, <2>4, <2>5, <3>1
    <3>3. QED
      BY <2>3, <3>1, <3>2, DaysLast
  <2>7. QED
    BY <1>1, <1>2, <1>3, <1>4, <1>10, <2>4, <2>5, <2>6 DEF FilterOK
<1>11. QED
  BY <1>7, <1>8, <1>9, <1>10

LEMMA ChartsInitInv == ASSUME ChartsInit PROVE ChartsInv
BY FS_EmptySet, ChartsAssumption DEF ChartsInit, ChartsInv, ServedOK, AnswerOK

LEMMA ChartsStepInv == ASSUME ChartsInv, [ChartsNext]_chartVars PROVE ChartsInv'
<1>1. ServedOK /\ AnswerOK
  BY DEF ChartsInv
<1>2. FirstTick \in Nat \ {0} /\ LastTick \in Nat /\ tick \in FirstTick..LastTick
  BY <1>1, ChartsAssumption DEF ServedOK
<1>3. ASSUME UNCHANGED answer, tick' \in FirstTick..LastTick, tick' >= tick
      PROVE  AnswerOK'
  <2>1. ASSUME NEW D, Shown(D) PROVE Shown(D)'
    BY <1>3, <2>1 DEF Shown
  <2>2. QED
    BY <1>1, <1>2, <1>3, <2>1 DEF AnswerOK
<1>4. ASSUME NEW e \in ServedEvent, Serve(e) PROVE ChartsInv'
  <2>1. ServedOK'
    <3> DEFINE d == [id |-> e.id, model |-> e.model, tokens |-> e.tokens,
                     reasoning |-> e.reasoning, cost |-> e.cost, at |-> tick]
    <3>1. served' = served \cup {d} /\ tick' = tick
      BY <1>4 DEF Serve
    <3>2. /\ d.tokens \in Int /\ d.cost \in Int /\ d.reasoning \in Int
          /\ d.at \in FirstTick..tick /\ d.model \in ServedModels
      BY <1>2, ChartsAssumption DEF ServedModels
    <3> HIDE DEF d
    <3>3. IsFiniteSet(served')
      BY <1>1, <3>1, FS_AddElement DEF ServedOK
    <3>4. QED
      BY <1>1, <3>1, <3>2, <3>3 DEF ServedOK
  <2>2. QED
    BY <1>2, <1>3, <1>4, <2>1 DEF ChartsInv, Serve
<1>5. CASE AdvanceClock
  <2>1. tick' = tick + 1 /\ tick < LastTick /\ served' = served /\ answer' = answer
    BY <1>5 DEF AdvanceClock
  <2>2. QED
    BY <1>1, <1>2, <1>3, <2>1 DEF ChartsInv, ServedOK
<1>6. ASSUME NEW range, NEW days, ShowOverview(range, days),
             \/ range \in DOMAIN PresetHours \cup {"all", "today"}
             \/ range = "custom" /\ days \in CustomDays
      PROVE  ChartsInv'
  <2>1. PICK filter : filter = ParseUsageFilter(range, days)
    OBVIOUS
  <2>2. PICK D : D = FilteredEvents(filter)
    OBVIOUS
  <2>3. /\ answer' = [range |-> range, refreshed |-> tick, filter |-> filter,
                      usage |-> BuildUsageOverview(range, filter, D)]
        /\ served' = served /\ tick' = tick
    BY <1>6, <2>1, <2>2 DEF ShowOverview
  <2>4. FilterOK(range, filter, D)
    BY <1>1, <1>6, <2>1, <2>2, FilterFits
  <2>5. /\ answer'.range = range /\ answer'.refreshed = tick /\ answer'.filter = filter
        /\ answer'.usage = BuildUsageOverview(range, filter, D)
    BY <2>3
  <2>6. tick \in Nat \ {0}
    BY <1>2
  <2>7. Shown(D)'
    BY <2>4, <2>5, <2>6 DEF Shown, FilterOK
  <2>8. answer'.refreshed \in FirstTick..tick'
    BY <1>2, <2>3, <2>5
  <2>9. AnswerOK'
    BY <2>7, <2>8 DEF AnswerOK
  <2>10. ServedOK'
    BY <1>1, <2>3 DEF ServedOK
  <2>11. QED
    BY <2>9, <2>10 DEF ChartsInv
<1>7. CASE UNCHANGED chartVars
  <2>1. tick' = tick /\ served' = served /\ answer' = answer
    BY <1>7 DEF chartVars
  <2>2. QED
    BY <1>1, <1>2, <1>3, <2>1 DEF ChartsInv, ServedOK
<1>8. QED
  BY <1>4, <1>5, <1>6, <1>7 DEF ChartsNext

(* The clock, the times of the events and that of the refresh. *)
THEOREM ChartsTypeCorrect == ChartsSpec => []ChartsTypeOK
<1>1. ChartsInit => ChartsInv
  BY ChartsInitInv
<1>2. ChartsInv /\ [ChartsNext]_chartVars => ChartsInv'
  BY ChartsStepInv
<1>3. ChartsInv => ChartsTypeOK
  BY DEF ChartsInv, ServedOK, AnswerOK, ChartsTypeOK
<1>4. QED
  BY <1>1, <1>2, <1>3, PTL DEF ChartsSpec

(* The charts of the overview page and its cards count the same events.    *)
THEOREM ChartsMatchTheCards == ChartsSpec => []ChartsMatchCards
<1>1. ChartsInit => ChartsInv
  BY ChartsInitInv
<1>2. ChartsInv /\ [ChartsNext]_chartVars => ChartsInv'
  BY ChartsStepInv
<1>3. ChartsInv => ChartsMatchCards
  <2>1. CASE answer = NoAnswer
    BY <2>1 DEF ChartsMatchCards
  <2>2. ASSUME ChartsInv, answer # NoAnswer PROVE ChartsMatchCards
    BY <2>2, ShownMatchesCards DEF ChartsInv, AnswerOK
  <2>3. QED
    BY <2>1, <2>2
<1>4. QED
  BY <1>1, <1>2, <1>3, PTL DEF ChartsSpec

LEMMA SumOverSingle ==
  ASSUME NEW f, NEW x, f[x] \in Int
  PROVE  SumOver(f, {x}) = f[x]
<1>1. SumOver(f, {x}) = f[x] + SumOver(f, {x} \ {x})
  BY FS_Singleton, SumOverRemove
<1>2. {x} \ {x} = {}
  OBVIOUS
<1>3. QED
  BY <1>1, <1>2, SumOverEmpty

LEMMA SumOverTimes ==
  ASSUME NEW f, NEW g, NEW S, IsFiniteSet(S), NEW p \in Int,
         \A x \in S : f[x] \in Int /\ g[x] = f[x] * p
  PROVE  SumOver(g, S) = SumOver(f, S) * p
<1> DEFINE F == {T \in SUBSET S : SumOver(g, T) = SumOver(f, T) * p}
<1>1. {} \in F
  BY SumOverEmpty
<1>2. ASSUME NEW T \in SUBSET S, T # {}, \A x \in T : T \ {x} \in F PROVE T \in F
  <2>1. PICK y \in T : TRUE
    BY <1>2
  <2>2. IsFiniteSet(T) /\ IsFiniteSet(T \ {y})
    BY FS_Subset
  <2>3. \A x \in S : g[x] \in Int
    OBVIOUS
  <2>4. SumOver(g, T) = g[y] + SumOver(g, T \ {y})
    BY <2>2, <2>3, SumOverRemove
  <2>5. SumOver(f, T) = f[y] + SumOver(f, T \ {y})
    BY <2>2, SumOverRemove
  <2>6. SumOver(g, T \ {y}) = SumOver(f, T \ {y}) * p
    BY <1>2
  <2>7. PICK a \in Int, b \in Int : a = f[y] /\ b = SumOver(f, T \ {y})
    BY <2>2, SumOverInt
  <2>8. SumOver(g, T) = a * p + b * p /\ SumOver(f, T) * p = (a + b) * p
    BY <2>4, <2>5, <2>6, <2>7
  <2>9. (a + b) * p = a * p + b * p
    BY <2>7
  <2>10. QED
    BY <2>8, <2>9
<1> HIDE DEF F
<1>3. S \in F
  BY <1>1, <1>2, SetsByRemoval
<1>4. QED
  BY <1>3 DEF F

-----------------------------------------------------------------------------
(* Rows of a table. *)

RowsOf(row, K) == {row[k] : k \in K}

NamedBy(row, K, name) == \A k \in K : row[k][name] = k

(* A column of rows that are told apart by a name. *)
LEMMA ColumnSum ==
  ASSUME NEW K, IsFiniteSet(K), NEW row, NEW name, NamedBy(row, K, name), NEW field, NEW g,
         \A k \in K : row[k][field] \in Int /\ g[k] = row[k][field]
  PROVE  TotalOf(field, RowsOf(row, K)) = SumOver(g, K)
<1> DEFINE rows == RowsOf(row, K)
           f == [r \in rows |-> r[field]]
           key == [r \in rows |-> r[name]]
<1>1. IsFiniteSet(rows)
  BY ImageFinite DEF RowsOf
<1>2. TotalOf(field, rows) = SumOver(f, rows)
  <2>1. TotalOf(field, rows) = SumOf(f)
    BY DEF TotalOf
  <2>2. DOMAIN f = rows
    OBVIOUS
  <2> HIDE DEF f, rows
  <2>3. QED
    BY <2>1, <2>2, SumOfIs
<1>3. \A r \in rows : f[r] \in Int /\ key[r] \in K
  BY DEF RowsOf, NamedBy
<1>4. ASSUME NEW k \in K PROVE g[k] = SumOver(f, Fibre(rows, key, k))
  <2>1. Fibre(rows, key, k) = {row[k]}
    BY DEF RowsOf, Fibre, NamedBy
  <2>2. f[row[k]] = g[k] /\ f[row[k]] \in Int
    BY DEF RowsOf
  <2> HIDE DEF f, key, rows
  <2>3. SumOver(f, {row[k]}) = f[row[k]]
    BY <2>2, SumOverSingle
  <2>4. QED
    BY <2>1, <2>2, <2>3
<1>5. SumOver(g, K) = SumOver(f, rows)
  <2>1. \A k \in K : g[k] = SumOver(f, Fibre(rows, key, k))
    BY <1>4
  <2> HIDE DEF f, key, rows
  <2>2. QED
    BY <1>1, <1>3, <2>1, SumByKey
<1>6. QED
  BY <1>2, <1>5

(* The columns of a table that splits the rows R by a field. *)
FieldOf(field, R) == [r \in R |-> r[field]]
RowsWith(R, name, k) == {r \in R : r[name] = k}
NamesIn(R, name) == {r[name] : r \in R}

LEMMA TotalIs ==
  ASSUME NEW R, NEW f, IsFiniteSet(R), NEW field, \A r \in R : f[r] = r[field]
  PROVE  TotalOf(field, R) = SumOver(f, R)
<1> DEFINE g == [r \in R |-> r[field]]
<1>1. SumOf(g) = SumOver(g, R)
  BY SumOfIs
<1>2. SumOver(g, R) = SumOver(f, R)
  <2>1. \A r \in R : g[r] = f[r]
    OBVIOUS
  <2> HIDE DEF g
  <2>2. QED
    BY <2>1, SumOverSame
<1>3. QED
  BY <1>1, <1>2 DEF TotalOf

LEMMA NamesFinite ==
  ASSUME NEW R, IsFiniteSet(R), NEW name
  PROVE  IsFiniteSet(NamesIn(R, name))
<1> DEFINE key == [r \in R |-> r[name]]
<1>1. NamesIn(R, name) = {key[r] : r \in R}
  BY DEF NamesIn
<1> HIDE DEF key
<1>2. QED
  BY <1>1, ImageFinite

(* A sum of the rows is the sum of those by name. *)
LEMMA SumByName ==
  ASSUME NEW R, IsFiniteSet(R), NEW name, NEW f, \A r \in R : f[r] \in Int,
         NEW g, \A k \in NamesIn(R, name) : g[k] = SumOver(f, RowsWith(R, name, k))
  PROVE  SumOver(g, NamesIn(R, name)) = SumOver(f, R)
<1> DEFINE key == [r \in R |-> r[name]]
<1>1. \A r \in R : f[r] \in Int /\ key[r] \in NamesIn(R, name)
  BY DEF NamesIn
<1>2. \A k \in NamesIn(R, name) : g[k] = SumOver(f, Fibre(R, key, k))
  <2> TAKE k \in NamesIn(R, name)
  <2>1. Fibre(R, key, k) = RowsWith(R, name, k)
    BY DEF Fibre, RowsWith
  <2>2. QED
    BY <2>1
<1>3. IsFiniteSet(NamesIn(R, name))
  BY NamesFinite
<1> HIDE DEF key
<1>4. QED
  BY <1>1, <1>2, <1>3, SumByKey

RowField == {"requests", "success", "tokens", "input", "output", "cached", "latency", "samples"}

RowsOK(R) ==
  /\ IsFiniteSet(R)
  /\ \A r \in R : \A field \in RowField : r[field] \in Nat

LEMMA AnsweredOK == ASSUME TablesTypeOK PROVE RowsOK(answered)
BY TablesAssumption, FS_Subset DEF TablesTypeOK, RowsOK, RowField

LEMMA RowsWithOK ==
  ASSUME NEW R, RowsOK(R), NEW name, NEW k
  PROVE  RowsOK(RowsWith(R, name, k))
BY FS_Subset DEF RowsOK, RowsWith

(* A column of the rows, and its total. *)
LEMMA RowTotal ==
  ASSUME NEW R, RowsOK(R), NEW S, S \subseteq R, NEW field \in RowField
  PROVE  TotalOf(field, S) = SumOver(FieldOf(field, R), S)
<1>1. IsFiniteSet(S) /\ \A r \in S : FieldOf(field, R)[r] = r[field]
  BY FS_Subset DEF RowsOK, FieldOf
<1>2. QED
  BY <1>1, TotalIs

LEMMA RowTotalNat ==
  ASSUME NEW R, RowsOK(R), NEW field \in RowField
  PROVE  TotalOf(field, R) \in Nat
<1> DEFINE f == FieldOf(field, R)
<1>1. IsFiniteSet(R) /\ \A r \in R : f[r] \in Nat
  BY DEF RowsOK, FieldOf
<1>2. SumOver(f, R) \in Nat
  <2> HIDE DEF f
  <2>1. QED
    BY <1>1, SumOverNat
<1>3. QED
  BY <1>2, RowTotal

(* The rows by a name add up to all of them, in each column. *)
LEMMA TotalsByName ==
  ASSUME NEW R, RowsOK(R), NEW name, NEW field \in RowField,
         NEW g, \A k \in NamesIn(R, name) : g[k] = TotalOf(field, RowsWith(R, name, k))
  PROVE  SumOver(g, NamesIn(R, name)) = TotalOf(field, R)
<1> DEFINE f == FieldOf(field, R)
<1>1. IsFiniteSet(R) /\ \A r \in R : f[r] \in Int
  BY DEF RowsOK, FieldOf
<1>2. \A k \in NamesIn(R, name) : g[k] = SumOver(f, RowsWith(R, name, k))
  <2> TAKE k \in NamesIn(R, name)
  <2>1. RowsWith(R, name, k) \subseteq R
    BY DEF RowsWith
  <2>2. TotalOf(field, RowsWith(R, name, k)) = SumOver(f, RowsWith(R, name, k))
    BY <2>1, RowTotal
  <2>3. QED
    BY <2>2
<1>3. TotalOf(field, R) = SumOver(f, R)
  BY RowTotal
<1> HIDE DEF f
<1>4. QED
  BY <1>1, <1>2, <1>3, SumByName

-----------------------------------------------------------------------------
(* The cost of rows of one model. *)

CostOf(r) == AnalysisCost(r.model, {r})

(* What an API bills of a row beyond its cached tokens. *)
Uncached(r) == Bigger(r.input - r.cached, 0)

PriceOf(m) == ModelPrices[m]

LEMMA PricesOK ==
  ASSUME NEW m \in DOMAIN ModelPrices
  PROVE  /\ PriceOf(m).prompt \in Nat /\ PriceOf(m).completion \in Nat
         /\ PriceOf(m).cache \in Nat
BY FiguresAssumption DEF PriceOf

LEMMA CostIs ==
  ASSUME NEW R, RowsOK(R), NEW m \in DOMAIN ModelPrices
  PROVE  AnalysisCost(m, R)
           = Bigger(TotalOf("input", R) - TotalOf("cached", R), 0) * PriceOf(m).prompt
             + TotalOf("output", R) * PriceOf(m).completion
             + TotalOf("cached", R) * PriceOf(m).cache
<1>1. PICK i \in Nat : i = TotalOf("input", R)
  BY RowTotalNat DEF RowField
<1>2. PICK o \in Nat : o = TotalOf("output", R)
  BY RowTotalNat DEF RowField
<1>3. PICK c \in Nat : c = TotalOf("cached", R)
  BY RowTotalNat DEF RowField
<1>4. Bigger(i, 0) = i /\ Bigger(o, 0) = o /\ Bigger(c, 0) = c
  BY DEF Bigger
<1>5. QED
  BY <1>1, <1>2, <1>3, <1>4 DEF AnalysisCost, PriceOf

LEMMA RowCostIs ==
  ASSUME NEW R, RowsOK(R), NEW r \in R, r.model \in DOMAIN ModelPrices
  PROVE  CostOf(r) = Uncached(r) * PriceOf(r.model).prompt
                     + r.output * PriceOf(r.model).completion
                     + r.cached * PriceOf(r.model).cache
<1>1. RowsOK({r})
  BY FS_Singleton DEF RowsOK
<1>2. ASSUME NEW field \in RowField PROVE TotalOf(field, {r}) = r[field]
  <2>1. TotalOf(field, {r}) = SumOver(FieldOf(field, {r}), {r})
    BY <1>1, RowTotal
  <2>2. FieldOf(field, {r})[r] = r[field] /\ r[field] \in Int
    BY <1>1 DEF FieldOf, RowsOK
  <2>3. QED
    BY <2>1, <2>2, SumOverSingle
<1>3. TotalOf("input", {r}) = r.input /\ TotalOf("cached", {r}) = r.cached
      /\ TotalOf("output", {r}) = r.output
  <2>1. TotalOf("input", {r}) = r["input"]
    BY <1>2 DEF RowField
  <2>2. TotalOf("cached", {r}) = r["cached"]
    BY <1>2 DEF RowField
  <2>3. TotalOf("output", {r}) = r["output"]
    BY <1>2 DEF RowField
  <2>4. QED
    BY <2>1, <2>2, <2>3
<1>4. QED
  BY <1>1, <1>3, CostIs DEF CostOf, Uncached

LEMMA UnpricedCost ==
  ASSUME NEW R, NEW m, m \notin DOMAIN ModelPrices
  PROVE  AnalysisCost(m, R) = 0
BY DEF AnalysisCost

RowCosts(R) == [r \in R |-> CostOf(r)]

LEMMA CostNat ==
  ASSUME NEW R, RowsOK(R), NEW r \in R
  PROVE  CostOf(r) \in Nat
<1>1. CASE r.model \in DOMAIN ModelPrices
  <2>1. PICK p \in Nat : p = PriceOf(r.model).prompt
    BY <1>1, PricesOK
  <2>2. PICK q \in Nat : q = PriceOf(r.model).completion
    BY <1>1, PricesOK
  <2>3. PICK s \in Nat : s = PriceOf(r.model).cache
    BY <1>1, PricesOK
  <2>4. r.input \in Nat /\ r.cached \in Nat /\ r.output \in Nat
    BY DEF RowsOK, RowField
  <2>5. PICK u \in Nat : u = Uncached(r)
    BY <2>4 DEF Uncached, Bigger
  <2>6. PICK o \in Nat, c \in Nat : o = r.output /\ c = r.cached
    BY <2>4
  <2>7. CostOf(r) = u * p + o * q + c * s
    BY <1>1, <2>1, <2>2, <2>3, <2>5, <2>6, RowCostIs
  <2>8. QED
    BY <2>7
<1>2. CASE r.model \notin DOMAIN ModelPrices
  BY <1>2, UnpricedCost DEF CostOf
<1>3. QED
  BY <1>1, <1>2

(* A model's rows, priced together and one by one. *)
LEMMA CostsOfModel ==
  ASSUME NEW R, RowsOK(R), NEW m, \A r \in R : r.model = m, m \in DOMAIN ModelPrices
  PROVE  \E a \in Nat, b \in Nat :
           /\ AnalysisCost(m, R) = a /\ SumOver(RowCosts(R), R) = b /\ a <= b
           /\ (\A r \in R : r.cached <= r.input) => a = b
<1>1. PICK p \in Nat : p = PriceOf(m).prompt
  BY PricesOK
<1>2. PICK q \in Nat : q = PriceOf(m).completion
  BY PricesOK
<1>3. PICK s \in Nat : s = PriceOf(m).cache
  BY PricesOK
<1> DEFINE i == FieldOf("input", R)
           o == FieldOf("output", R)
           c == FieldOf("cached", R)
           u == [r \in R |-> Uncached(r)]
           up == [r \in R |-> Uncached(r) * p]
           oq == [r \in R |-> r.output * q]
           cs == [r \in R |-> r.cached * s]
           ocs == [r \in R |-> r.output * q + r.cached * s]
           cost == RowCosts(R)
           uc == [r \in R |-> Uncached(r) + r.cached]
<1>4. ASSUME NEW r \in R
      PROVE  /\ r.input \in Nat /\ r.output \in Nat /\ r.cached \in Nat /\ Uncached(r) \in Nat
             /\ r.input <= Uncached(r) + r.cached
             /\ r.cached <= r.input => r.input = Uncached(r) + r.cached
             /\ CostOf(r) = Uncached(r) * p + r.output * q + r.cached * s
  <2>1. r.input \in Nat /\ r.output \in Nat /\ r.cached \in Nat
    BY DEF RowsOK, RowField
  <2>2. /\ Uncached(r) \in Nat /\ r.input <= Uncached(r) + r.cached
        /\ r.cached <= r.input => r.input = Uncached(r) + r.cached
    BY <2>1 DEF Uncached, Bigger
  <2>3. CostOf(r) = Uncached(r) * p + r.output * q + r.cached * s
    BY <1>1, <1>2, <1>3, RowCostIs
  <2>4. QED
    BY <2>1, <2>2, <2>3
<1>5. IsFiniteSet(R)
  BY DEF RowsOK
<1>6. /\ TotalOf("input", R) = SumOver(i, R) /\ TotalOf("output", R) = SumOver(o, R)
      /\ TotalOf("cached", R) = SumOver(c, R)
  <2>1. TotalOf("input", R) = SumOver(i, R)
    BY RowTotal DEF RowField
  <2>2. TotalOf("output", R) = SumOver(o, R)
    BY RowTotal DEF RowField
  <2>3. TotalOf("cached", R) = SumOver(c, R)
    BY RowTotal DEF RowField
  <2>4. QED
    BY <2>1, <2>2, <2>3
<1>7. ASSUME NEW r \in R
      PROVE  /\ i[r] \in Nat /\ o[r] \in Nat /\ c[r] \in Nat /\ u[r] \in Nat
             /\ up[r] = u[r] * p /\ oq[r] = o[r] * q /\ cs[r] = c[r] * s
             /\ up[r] \in Int /\ oq[r] \in Int /\ cs[r] \in Int /\ ocs[r] \in Int
             /\ ocs[r] = oq[r] + cs[r] /\ uc[r] = u[r] + c[r] /\ uc[r] \in Int
             /\ i[r] <= uc[r] /\ (r.cached <= r.input => i[r] = uc[r])
             /\ cost[r] = up[r] + ocs[r]
  <2>1. PICK ir \in Nat, or \in Nat : ir = r.input /\ or = r.output
    BY <1>4
  <2>2. PICK cr \in Nat, ur \in Nat : cr = r.cached /\ ur = Uncached(r)
    BY <1>4
  <2>3. /\ i[r] = ir /\ o[r] = or /\ c[r] = cr /\ u[r] = ur
        /\ up[r] = ur * p /\ oq[r] = or * q /\ cs[r] = cr * s
        /\ ocs[r] = or * q + cr * s /\ uc[r] = ur + cr
    BY <2>1, <2>2 DEF FieldOf
  <2>4. cost[r] = ur * p + or * q + cr * s
    BY <1>4, <2>1, <2>2 DEF RowCosts
  <2>5. ur * p \in Int /\ or * q \in Int /\ cr * s \in Int
    OBVIOUS
  <2>6. PICK x \in Int, y \in Int : x = ur * p /\ y = or * q
    BY <2>5
  <2>7. PICK z \in Int : z = cr * s
    BY <2>5
  <2>8. cost[r] = x + y + z /\ up[r] = x /\ oq[r] = y /\ cs[r] = z /\ ocs[r] = y + z
    BY <2>3, <2>4, <2>6, <2>7
  <2>9. cost[r] = up[r] + ocs[r]
    BY <2>8
  <2>10. i[r] <= uc[r] /\ (r.cached <= r.input => i[r] = uc[r])
    BY <1>4, <2>1, <2>2, <2>3
  <2> HIDE DEF i, o, c, u, up, oq, cs, ocs, uc, cost
  <2>11. QED
    BY <2>3, <2>6, <2>7, <2>8, <2>9, <2>10
<1> HIDE DEF i, o, c, u, up, oq, cs, ocs, uc, cost
<1>8. PICK I \in Nat : I = SumOver(i, R)
  BY <1>5, <1>7, SumOverNat
<1>9. PICK O \in Nat : O = SumOver(o, R)
  BY <1>5, <1>7, SumOverNat
<1>10. PICK C \in Nat : C = SumOver(c, R)
  BY <1>5, <1>7, SumOverNat
<1>11. PICK U \in Nat : U = SumOver(u, R)
  BY <1>5, <1>7, SumOverNat
<1>12. SumOver(up, R) = U * p
  <2>1. \A r \in R : u[r] \in Int /\ up[r] = u[r] * p
    BY <1>7
  <2>2. QED
    BY <1>5, <1>11, <2>1, SumOverTimes
<1>13. SumOver(oq, R) = O * q
  <2>1. \A r \in R : o[r] \in Int /\ oq[r] = o[r] * q
    BY <1>7
  <2>2. QED
    BY <1>5, <1>9, <2>1, SumOverTimes
<1>14. SumOver(cs, R) = C * s
  <2>1. \A r \in R : c[r] \in Int /\ cs[r] = c[r] * s
    BY <1>7
  <2>2. QED
    BY <1>5, <1>10, <2>1, SumOverTimes
<1>15. SumOver(ocs, R) = O * q + C * s
  <2>1. \A r \in R : oq[r] \in Int /\ cs[r] \in Int /\ ocs[r] = oq[r] + cs[r]
    BY <1>7
  <2>2. SumOver(ocs, R) = SumOver(oq, R) + SumOver(cs, R)
    BY <1>5, <2>1, SumOverPlus
  <2>3. QED
    BY <1>13, <1>14, <2>2
<1>16. SumOver(cost, R) = U * p + (O * q + C * s)
  <2>1. \A r \in R : up[r] \in Int /\ ocs[r] \in Int /\ cost[r] = up[r] + ocs[r]
    BY <1>7
  <2>2. SumOver(cost, R) = SumOver(up, R) + SumOver(ocs, R)
    BY <1>5, <2>1, SumOverPlus
  <2>3. QED
    BY <1>12, <1>15, <2>2
<1>17. SumOver(uc, R) = U + C
  <2>1. \A r \in R : u[r] \in Int /\ c[r] \in Int /\ uc[r] = u[r] + c[r]
    BY <1>7
  <2>2. QED
    BY <1>5, <1>10, <1>11, <2>1, SumOverPlus
<1>18. I <= U + C
  <2>1. \A r \in R : i[r] \in Int /\ uc[r] \in Int /\ i[r] <= uc[r]
    BY <1>7
  <2>2. QED
    BY <1>5, <1>8, <1>17, <2>1, SumOverLess
<1>19. (\A r \in R : r.cached <= r.input) => I = U + C
  <2>1. (\A r \in R : r.cached <= r.input) => \A r \in R : i[r] = uc[r]
    BY <1>7
  <2>2. (\A r \in R : i[r] = uc[r]) => SumOver(i, R) = SumOver(uc, R)
    BY <1>5, SumOverSame
  <2>3. QED
    BY <1>8, <1>17, <2>1, <2>2
<1>20. PICK b \in Nat : b = Bigger(I - C, 0) /\ b <= U /\ (I = U + C => b = U)
  BY <1>18 DEF Bigger
<1>21. AnalysisCost(m, R) = b * p + O * q + C * s
  BY <1>1, <1>2, <1>3, <1>6, <1>8, <1>9, <1>10, <1>20, CostIs
<1>22. b * p <= U * p
  BY <1>20
<1>23. b * p \in Nat /\ U * p \in Nat /\ O * q \in Nat /\ C * s \in Nat
  OBVIOUS
<1>24. PICK x \in Nat, y \in Nat : x = b * p /\ y = U * p
  BY <1>23
<1>25. PICK z \in Nat, t \in Nat : z = O * q /\ t = C * s
  BY <1>23
<1>26. x + z + t <= y + (z + t) /\ (x = y => x + z + t = y + (z + t))
  BY <1>22, <1>24
<1>27. AnalysisCost(m, R) = x + z + t /\ SumOver(cost, R) = y + (z + t)
  BY <1>16, <1>21, <1>24, <1>25
<1>28. (\A r \in R : r.cached <= r.input) => x = y
  BY <1>19, <1>20, <1>24
<1>29. QED
  <2>1. /\ AnalysisCost(m, R) = x + z + t /\ SumOver(RowCosts(R), R) = y + (z + t)
        /\ x + z + t <= y + (z + t)
        /\ (\A r \in R : r.cached <= r.input) => x + z + t = y + (z + t)
    BY <1>26, <1>27, <1>28 DEF cost
  <2>2. x + z + t \in Nat /\ y + (z + t) \in Nat
    OBVIOUS
  <2>3. QED
    BY <2>1, <2>2

(* A model's cost is at most that of its rows. *)
LEMMA ModelCostLess ==
  ASSUME NEW R, RowsOK(R), NEW m, \A r \in R : r.model = m
  PROVE  /\ AnalysisCost(m, R) \in Nat /\ SumOver(RowCosts(R), R) \in Nat
         /\ AnalysisCost(m, R) <= SumOver(RowCosts(R), R)
         /\ (\A r \in R : r.cached <= r.input) => AnalysisCost(m, R) = SumOver(RowCosts(R), R)
<1>1. CASE m \in DOMAIN ModelPrices
  BY <1>1, CostsOfModel
<1>2. CASE m \notin DOMAIN ModelPrices
  <2>1. AnalysisCost(m, R) = 0
    BY <1>2, UnpricedCost
  <2>2. \A r \in R : RowCosts(R)[r] = 0
    BY <1>2, UnpricedCost DEF RowCosts, CostOf
  <2>3. SumOver(RowCosts(R), R) = 0
    BY <2>2, SumOverZero DEF RowsOK
  <2>4. QED
    BY <2>1, <2>3
<1>3. QED
  BY <1>1, <1>2

Models == NamesIn(answered, "model")
Apis == NamesIn(answered, "api")
ModelRowOf == [m \in Models |-> ModelRow(m)]
ApiRowOf == [a \in Apis |-> ApiRow(a)]
ModelPart(m) == RowsWith(answered, "model", m)
ApiPart(a) == RowsWith(answered, "api", a)

LEMMA ModelRowsAre == ModelRows = RowsOf(ModelRowOf, Models)
BY DEF ModelRows, RowsOf, ModelRowOf, Models, NamesIn

LEMMA ApiRowsAre == ApiRows = RowsOf(ApiRowOf, Apis)
BY DEF ApiRows, RowsOf, ApiRowOf, Apis, NamesIn

LEMMA ModelRowIs ==
  ASSUME NEW m \in Models
  PROVE  /\ ModelRowOf[m].model = m
         /\ ModelRowOf[m].requests = TotalOf("requests", ModelPart(m))
         /\ ModelRowOf[m].tokens = TotalOf("tokens", ModelPart(m))
         /\ ModelRowOf[m].cost = AnalysisCost(m, ModelPart(m))
BY DEF ModelRowOf, ModelRow, ModelPart, RowsWith

LEMMA ApiRowIs ==
  ASSUME NEW a \in Apis
  PROVE  /\ ApiRowOf[a].endpoint = a
         /\ ApiRowOf[a].requests = TotalOf("requests", ApiPart(a))
         /\ ApiRowOf[a].tokens = TotalOf("tokens", ApiPart(a))
         /\ ApiRowOf[a].cost = SumOf([r \in ApiPart(a) |-> AnalysisCost(r.model, {r})])
         /\ ApiRowOf[a].models = [m \in NamesIn(ApiPart(a), "model") |->
              TotalOf("requests", RowsWith(ApiPart(a), "model", m))]
BY DEF ApiRowOf, ApiRow, ApiPart, RowsWith, NamesIn

LEMMA RowsNamed == NamedBy(ModelRowOf, Models, "model") /\ NamedBy(ApiRowOf, Apis, "endpoint")
BY ModelRowIs, ApiRowIs DEF NamedBy

LEMMA NamesOK ==
  ASSUME TablesTypeOK
  PROVE  RowsOK(answered) /\ IsFiniteSet(Models) /\ IsFiniteSet(Apis)
BY AnsweredOK, NamesFinite DEF RowsOK, Models, Apis

(* The requests, and the tokens, of the two tables. *)
LEMMA ColumnsAgree ==
  ASSUME TablesTypeOK, NEW field \in {"requests", "tokens"}
  PROVE  TotalOf(field, ModelRows) = TotalOf(field, ApiRows)
<1>1. RowsOK(answered) /\ IsFiniteSet(Models) /\ IsFiniteSet(Apis) /\ field \in RowField
  BY NamesOK DEF RowField
<1>2. TotalOf(field, ModelRows) = TotalOf(field, answered)
  <2> DEFINE g == [m \in Models |-> TotalOf(field, ModelPart(m))]
  <2>1. ASSUME NEW m \in Models
        PROVE  /\ ModelRowOf[m]["model"] = m /\ ModelRowOf[m][field] \in Int
               /\ g[m] = ModelRowOf[m][field]
    <3>1. ModelRowOf[m][field] = TotalOf(field, ModelPart(m)) /\ ModelRowOf[m]["model"] = m
      BY ModelRowIs
    <3>2. RowsOK(ModelPart(m))
      BY <1>1, RowsWithOK DEF ModelPart
    <3>3. TotalOf(field, ModelPart(m)) \in Nat
      BY <1>1, <3>2, RowTotalNat
    <3>4. QED
      BY <3>1, <3>3
  <2>2. \A m \in Models : g[m] = TotalOf(field, RowsWith(answered, "model", m))
    BY DEF ModelPart
  <2> HIDE DEF g
  <2>3. TotalOf(field, RowsOf(ModelRowOf, Models)) = SumOver(g, Models)
    BY <1>1, <2>1, RowsNamed, ColumnSum
  <2>4. SumOver(g, Models) = TotalOf(field, answered)
    BY <1>1, <2>2, TotalsByName DEF Models
  <2>5. QED
    BY <2>3, <2>4, ModelRowsAre
<1>3. TotalOf(field, ApiRows) = TotalOf(field, answered)
  <2> DEFINE g == [a \in Apis |-> TotalOf(field, ApiPart(a))]
  <2>1. ASSUME NEW a \in Apis
        PROVE  /\ ApiRowOf[a]["endpoint"] = a /\ ApiRowOf[a][field] \in Int
               /\ g[a] = ApiRowOf[a][field]
    <3>1. ApiRowOf[a][field] = TotalOf(field, ApiPart(a)) /\ ApiRowOf[a]["endpoint"] = a
      BY ApiRowIs
    <3>2. RowsOK(ApiPart(a))
      BY <1>1, RowsWithOK DEF ApiPart
    <3>3. TotalOf(field, ApiPart(a)) \in Nat
      BY <1>1, <3>2, RowTotalNat
    <3>4. QED
      BY <3>1, <3>3
  <2>2. \A a \in Apis : g[a] = TotalOf(field, RowsWith(answered, "api", a))
    BY DEF ApiPart
  <2> HIDE DEF g
  <2>3. TotalOf(field, RowsOf(ApiRowOf, Apis)) = SumOver(g, Apis)
    BY <1>1, <2>1, RowsNamed, ColumnSum
  <2>4. SumOver(g, Apis) = TotalOf(field, answered)
    BY <1>1, <2>2, TotalsByName DEF Apis
  <2>5. QED
    BY <2>3, <2>4, ApiRowsAre
<1>4. QED
  BY <1>2, <1>3

(* The costs of the rows of some of the rows. *)
LEMMA PartCosts ==
  ASSUME NEW R, RowsOK(R), NEW S, S \subseteq R
  PROVE  SumOver(RowCosts(S), S) = SumOver(RowCosts(R), S)
<1>1. IsFiniteSet(S) /\ \A r \in S : RowCosts(S)[r] = RowCosts(R)[r]
  BY FS_Subset DEF RowsOK, RowCosts
<1>2. QED
  BY <1>1, SumOverSame

LEMMA ApiCosts ==
  ASSUME TablesTypeOK
  PROVE  TotalOf("cost", ApiRows) = SumOver(RowCosts(answered), answered)
<1>1. RowsOK(answered) /\ IsFiniteSet(answered) /\ IsFiniteSet(Apis)
  BY NamesOK DEF RowsOK
<1> DEFINE f == RowCosts(answered)
           g == [a \in Apis |-> SumOver(f, ApiPart(a))]
<1>2. ASSUME NEW a \in Apis
      PROVE  ApiRowOf[a]["endpoint"] = a /\ ApiRowOf[a]["cost"] \in Int /\ g[a] = ApiRowOf[a]["cost"]
  <2> DEFINE P == ApiPart(a)
  <2>1. RowsOK(P) /\ IsFiniteSet(P) /\ P \subseteq answered
    <3>1. RowsOK(P)
      BY <1>1, RowsWithOK DEF ApiPart
    <3>2. P \subseteq answered
      BY DEF ApiPart, RowsWith
    <3>3. QED
      BY <3>1, <3>2 DEF RowsOK
  <2>2. ApiRowOf[a]["cost"] = SumOf(RowCosts(P)) /\ ApiRowOf[a]["endpoint"] = a
    BY ApiRowIs DEF RowCosts, CostOf
  <2>3. DOMAIN RowCosts(P) = P
    BY DEF RowCosts
  <2>4. SumOf(RowCosts(P)) = SumOver(RowCosts(P), P)
    BY <2>3, SumOfIs
  <2>5. SumOver(RowCosts(P), P) = SumOver(f, P)
    BY <1>1, <2>1, PartCosts
  <2>6. \A r \in P : f[r] \in Int
    BY <1>1, <2>1, CostNat DEF RowCosts
  <2>7. SumOver(f, P) \in Int
    <3> HIDE DEF f, P
    <3>1. QED
      BY <2>1, <2>6, SumOverInt
  <2>8. g[a] = SumOver(f, P)
    OBVIOUS
  <2> HIDE DEF f, g, P
  <2>9. QED
    BY <2>2, <2>4, <2>5, <2>7, <2>8
<1>3. \A a \in Apis : g[a] = SumOver(f, RowsWith(answered, "api", a))
  BY DEF ApiPart
<1>4. \A r \in answered : f[r] \in Int
  BY <1>1, CostNat DEF RowCosts
<1> HIDE DEF f, g
<1>5. TotalOf("cost", RowsOf(ApiRowOf, Apis)) = SumOver(g, Apis)
  BY <1>1, <1>2, RowsNamed, ColumnSum
<1>6. SumOver(g, Apis) = SumOver(f, answered)
  BY <1>1, <1>3, <1>4, SumByName DEF Apis
<1>7. QED
  BY <1>5, <1>6, ApiRowsAre DEF f

LEMMA ModelCosts ==
  ASSUME TablesTypeOK
  PROVE  /\ TotalOf("cost", ModelRows) <= SumOver(RowCosts(answered), answered)
         /\ (\A r \in answered : r.cached <= r.input) =>
              TotalOf("cost", ModelRows) = SumOver(RowCosts(answered), answered)
<1>1. RowsOK(answered) /\ IsFiniteSet(answered) /\ IsFiniteSet(Models)
  BY NamesOK DEF RowsOK
<1> DEFINE f == RowCosts(answered)
           g == [m \in Models |-> SumOver(f, ModelPart(m))]
           h == [m \in Models |-> AnalysisCost(m, ModelPart(m))]
<1>2. ASSUME NEW m \in Models
      PROVE  /\ ModelRowOf[m]["model"] = m /\ ModelRowOf[m]["cost"] \in Int
             /\ h[m] = ModelRowOf[m]["cost"] /\ h[m] \in Int /\ g[m] \in Int /\ h[m] <= g[m]
             /\ (\A r \in answered : r.cached <= r.input) => h[m] = g[m]
  <2> DEFINE P == ModelPart(m)
  <2>1. RowsOK(P) /\ P \subseteq answered /\ \A r \in P : r.model = m
    <3>1. RowsOK(P)
      BY <1>1, RowsWithOK DEF ModelPart
    <3>2. P \subseteq answered /\ \A r \in P : r.model = m
      BY DEF ModelPart, RowsWith
    <3>3. QED
      BY <3>1, <3>2
  <2>2. ModelRowOf[m]["cost"] = AnalysisCost(m, P) /\ ModelRowOf[m]["model"] = m
    BY ModelRowIs
  <2>3. SumOver(RowCosts(P), P) = SumOver(f, P)
    BY <1>1, <2>1, PartCosts
  <2>4. /\ AnalysisCost(m, P) \in Nat /\ SumOver(RowCosts(P), P) \in Nat
        /\ AnalysisCost(m, P) <= SumOver(RowCosts(P), P)
        /\ (\A r \in P : r.cached <= r.input) => AnalysisCost(m, P) = SumOver(RowCosts(P), P)
    <3> HIDE DEF P
    <3>1. QED
      BY <2>1, ModelCostLess
  <2>5. g[m] = SumOver(f, P) /\ h[m] = AnalysisCost(m, P)
    OBVIOUS
  <2> HIDE DEF f, g, h, P
  <2>6. QED
    BY <2>1, <2>2, <2>3, <2>4, <2>5
<1>3. \A m \in Models : g[m] = SumOver(f, RowsWith(answered, "model", m))
  BY DEF ModelPart
<1>4. \A r \in answered : f[r] \in Int
  BY <1>1, CostNat DEF RowCosts
<1> HIDE DEF f, g, h
<1>5. TotalOf("cost", RowsOf(ModelRowOf, Models)) = SumOver(h, Models)
  <2>1. \A m \in Models : /\ ModelRowOf[m]["model"] = m /\ ModelRowOf[m]["cost"] \in Int
                          /\ h[m] = ModelRowOf[m]["cost"]
    BY <1>2
  <2>2. QED
    BY <1>1, <2>1, RowsNamed, ColumnSum
<1>6. SumOver(g, Models) = SumOver(f, answered)
  BY <1>1, <1>3, <1>4, SumByName DEF Models
<1>7. SumOver(h, Models) <= SumOver(g, Models)
  <2>1. \A m \in Models : h[m] \in Int /\ g[m] \in Int /\ h[m] <= g[m]
    BY <1>2
  <2>2. QED
    BY <1>1, <2>1, SumOverLess
<1>8. ASSUME \A r \in answered : r.cached <= r.input PROVE SumOver(h, Models) = SumOver(g, Models)
  <2>1. \A m \in Models : h[m] = g[m]
    BY <1>2, <1>8
  <2>2. QED
    BY <1>1, <2>1, SumOverSame
<1>9. QED
  BY <1>5, <1>6, <1>7, <1>8, ModelRowsAre DEF f

(* An API's models list all its requests. *)
LEMMA ApiModels ==
  ASSUME TablesTypeOK, NEW row \in ApiRows
  PROVE  SumOf(row.models) = row.requests
<1>1. RowsOK(answered)
  BY NamesOK
<1>2. PICK a \in Apis : row = ApiRowOf[a]
  BY ApiRowsAre DEF RowsOf
<1> DEFINE P == ApiPart(a)
           g == [m \in NamesIn(P, "model") |-> TotalOf("requests", RowsWith(P, "model", m))]
<1>3. RowsOK(P)
  BY <1>1, RowsWithOK DEF ApiPart
<1>4. row.models = g /\ row.requests = TotalOf("requests", P)
  BY <1>2, ApiRowIs
<1>5. IsFiniteSet(NamesIn(P, "model")) /\ DOMAIN g = NamesIn(P, "model")
  BY <1>3, NamesFinite DEF RowsOK
<1>6. \A m \in NamesIn(P, "model") : g[m] = TotalOf("requests", RowsWith(P, "model", m))
  OBVIOUS
<1>7. "requests" \in RowField
  BY DEF RowField
<1> HIDE DEF g, P
<1>8. SumOf(g) = SumOver(g, NamesIn(P, "model"))
  BY <1>5, SumOfIs
<1>9. SumOver(g, NamesIn(P, "model")) = TotalOf("requests", P)
  BY <1>3, <1>6, <1>7, TotalsByName
<1>10. QED
  BY <1>4, <1>8, <1>9

LEMMA TablesDoAgree == ASSUME TablesTypeOK PROVE TablesAgree
BY ColumnsAgree, ModelCosts, ApiCosts, ApiModels DEF TablesAgree

-----------------------------------------------------------------------------
(* Sorting. *)

ValuesOK(R, sort) == \A r \in R : SortValue(r, sort.key) \in Int \cup {Missing}

Ordered(s, n, sort) ==
  \A i \in 1..n : \A j \in 1..n : i < j => ~Precedes(s[j], s[i], sort)
Distinct(s, n) == \A i \in 1..n : \A j \in 1..n : i # j => s[i] # s[j]

(* What an order of the rows is: each row once, and none before one that   *)
(* the comparator puts first.                                              *)
LEMMA SortedIs ==
  ASSUME NEW R, IsFiniteSet(R), NEW sort, NEW s
  PROVE  s \in SortedBy(R, sort) <=> /\ s \in [1..Cardinality(R) -> R]
                                     /\ Distinct(s, Cardinality(R))
                                     /\ Ordered(s, Cardinality(R), sort)
<1>1. PICK n \in Nat : n = Cardinality(R)
  BY FS_CardinalityType
<1>2. SetToSeqs(R) = {f \in [1..n -> R] : \A i, j \in 1..n : i # j => f[i] # f[j]}
  BY <1>1 DEF SetToSeqs
<1>3. SortedBy(R, sort) = {f \in SetToSeqs(R) : \A i, j \in DOMAIN f : i < j => ~Precedes(f[j], f[i], sort)}
  BY DEF SortedBy
<1>4. \A f \in [1..n -> R] : DOMAIN f = 1..n
  OBVIOUS
<1>5. QED
  BY <1>1, <1>2, <1>3, <1>4 DEF Distinct, Ordered

LEMMA PlacesFinite ==
  ASSUME NEW n \in Nat
  PROVE  IsFiniteSet(1..n) /\ Cardinality(1..n) = n
<1>1. IsFiniteSet(1..n) /\ Cardinality(1..n) = IF 1 > n THEN 0 ELSE n - 1 + 1
  BY FS_Interval
<1>2. QED
  BY <1>1

LEMMA SortedHasAll ==
  ASSUME NEW R, IsFiniteSet(R), NEW sort, NEW s \in SortedBy(R, sort), NEW r \in R
  PROVE  \E i \in 1..Cardinality(R) : s[i] = r
<1>1. PICK n \in Nat : n = Cardinality(R)
  BY FS_CardinalityType
<1>2. s \in [1..n -> R] /\ Distinct(s, n)
  BY <1>1, SortedIs
<1>3. s \in Injection(1..n, R)
  BY <1>2 DEF Injection, IsInjective, Distinct
<1>4. Cardinality(1..n) = n
  BY PlacesFinite
<1>5. s \in Surjection(1..n, R)
  BY <1>1, <1>3, <1>4, FS_Injection
<1>6. QED
  BY <1>1, <1>5 DEF Surjection

(* Some row can come last. *)
LEMMA LastExists ==
  ASSUME NEW R, IsFiniteSet(R), R # {}, NEW sort, ValuesOK(R, sort)
  PROVE  \E y \in R : \A x \in R : ~Precedes(y, x, sort)
<1> DEFINE HasLast(T) == \E y \in T : \A x \in T : ~Precedes(y, x, sort)
           F == {T \in SUBSET R : T = {} \/ HasLast(T)}
<1>1. {} \in F
  OBVIOUS
<1>2. ASSUME NEW T \in SUBSET R, T # {}, \A x \in T : T \ {x} \in F PROVE T \in F
  <2>1. PICK z \in T : TRUE
    BY <1>2
  <2>2. Missing \notin Int /\ \A r \in T : SortValue(r, sort.key) \in Int \cup {Missing}
    BY FiguresAssumption DEF ValuesOK
  <2>3. ~Precedes(z, z, sort)
    BY <2>2 DEF Precedes
  <2>4. CASE T \ {z} = {}
    <3>1. T = {z}
      BY <2>4
    <3>2. QED
      BY <2>3, <3>1
  <2>5. CASE HasLast(T \ {z})
    <3>1. PICK y \in T \ {z} : \A x \in T \ {z} : ~Precedes(y, x, sort)
      BY <2>5
    <3>2. CASE Precedes(y, z, sort)
      <4>1. ASSUME NEW x \in T \ {z}, Precedes(z, x, sort) PROVE FALSE
        <5>1. ~Precedes(y, x, sort)
          BY <3>1
        <5>2. Precedes(y, x, sort)
          BY <2>2, <3>2, <4>1 DEF Precedes
        <5>3. QED
          BY <5>1, <5>2
      <4>2. \A x \in T : ~Precedes(z, x, sort)
        BY <2>3, <4>1
      <4>3. QED
        BY <4>2
    <3>3. CASE ~Precedes(y, z, sort)
      <4>1. \A x \in T : ~Precedes(y, x, sort)
        BY <3>1, <3>3
      <4>2. QED
        BY <4>1
    <3>4. QED
      BY <3>2, <3>3
  <2>6. T \ {z} \in F
    BY <1>2
  <2>7. QED
    BY <2>4, <2>5, <2>6
<1> HIDE DEF F
<1>3. R \in F
  BY <1>1, <1>2, SetsByRemoval
<1>4. QED
  BY <1>3 DEF F

LEMMA SortExists ==
  ASSUME NEW R, IsFiniteSet(R), NEW sort, ValuesOK(R, sort)
  PROVE  SortedBy(R, sort) # {}
<1> DEFINE F == {T \in SUBSET R : SortedBy(T, sort) # {}}
<1>1. {} \in F
  <2>1. Cardinality({}) = 0 /\ IsFiniteSet({})
    BY FS_EmptySet
  <2>2. 1..0 = {}
    OBVIOUS
  <2>3. PICK s : s = [i \in {} |-> 0]
    OBVIOUS
  <2>4. s \in [1..0 -> {}] /\ Distinct(s, 0) /\ Ordered(s, 0, sort)
    BY <2>2, <2>3 DEF Distinct, Ordered
  <2>5. s \in SortedBy({}, sort)
    BY <2>1, <2>4, SortedIs
  <2>6. QED
    BY <2>5
<1>2. ASSUME NEW T \in SUBSET R, T # {}, \A x \in T : T \ {x} \in F PROVE T \in F
  <2>1. IsFiniteSet(T) /\ ValuesOK(T, sort)
    BY FS_Subset DEF ValuesOK
  <2>2. PICK y \in T : \A x \in T : ~Precedes(y, x, sort)
    BY <1>2, <2>1, LastExists
  <2> DEFINE U == T \ {y}
  <2>3. PICK s : s \in SortedBy(U, sort)
    BY <1>2
  <2>4. IsFiniteSet(U)
    BY <2>1, FS_Subset
  <2>5. PICK n \in Nat : n = Cardinality(U)
    BY <2>4, FS_CardinalityType
  <2>6. s \in [1..n -> U] /\ Distinct(s, n) /\ Ordered(s, n, sort)
    BY <2>3, <2>4, <2>5, SortedIs
  <2>7. Cardinality(T) = n + 1
    <3>1. Cardinality(T \ {y}) = Cardinality(T) - 1 /\ Cardinality(T) \in Nat
      BY <2>1, FS_RemoveElement, FS_CardinalityType
    <3>2. QED
      BY <2>5, <3>1
  <2>8. PICK t : t = [i \in 1..(n + 1) |-> IF i = n + 1 THEN y ELSE s[i]]
    OBVIOUS
  <2>9. t[n + 1] = y /\ \A i \in 1..n : t[i] = s[i] /\ s[i] \in T /\ s[i] # y
    BY <2>6, <2>8
  <2>10. t \in [1..(n + 1) -> T]
    <3>1. \A i \in 1..(n + 1) : i = n + 1 \/ i \in 1..n
      OBVIOUS
    <3>2. QED
      BY <2>8, <2>9, <3>1
  <2>11. Distinct(t, n + 1)
    <3> SUFFICES ASSUME NEW i \in 1..(n + 1), NEW j \in 1..(n + 1), i # j PROVE t[i] # t[j]
      BY DEF Distinct
    <3>1. CASE i \in 1..n /\ j \in 1..n
      BY <2>6, <2>9, <3>1 DEF Distinct
    <3>2. CASE i = n + 1 /\ j \in 1..n
      BY <2>9, <3>2
    <3>3. CASE i \in 1..n /\ j = n + 1
      BY <2>9, <3>3
    <3>4. QED
      BY <3>1, <3>2, <3>3
  <2>12. Ordered(t, n + 1, sort)
    <3> SUFFICES ASSUME NEW i \in 1..(n + 1), NEW j \in 1..(n + 1), i < j
                 PROVE  ~Precedes(t[j], t[i], sort)
      BY DEF Ordered
    <3>1. i \in 1..n
      OBVIOUS
    <3>2. CASE j \in 1..n
      BY <2>6, <2>9, <3>1, <3>2 DEF Ordered
    <3>3. CASE j = n + 1
      BY <2>2, <2>9, <3>1, <3>3
    <3>4. QED
      BY <3>2, <3>3
  <2>13. t \in SortedBy(T, sort)
    BY <2>1, <2>7, <2>10, <2>11, <2>12, SortedIs
  <2>14. QED
    BY <2>13
<1> HIDE DEF F
<1>3. R \in F
  BY <1>1, <1>2, SetsByRemoval
<1>4. QED
  BY <1>3 DEF F

LEMMA RankNat ==
  ASSUME TablesTypeOK, NEW r \in answered
  PROVE  Rank(r.model) \in Nat /\ Rank(r.api) \in Nat
<1>1. r.api \in ToSet(NameOrder) /\ r.model \in ToSet(NameOrder) /\ DOMAIN NameOrder \subseteq Nat
  BY TablesAssumption DEF TablesTypeOK
<1>2. \A n \in ToSet(NameOrder) : \E i \in DOMAIN NameOrder : NameOrder[i] = n
  BY DEF ToSet
<1>3. \A n \in ToSet(NameOrder) : Rank(n) \in DOMAIN NameOrder
  BY <1>2 DEF Rank
<1>4. QED
  BY <1>1, <1>3

LEMMA RateInt ==
  ASSUME NEW a \in Nat, NEW b \in Nat
  PROVE  SuccessRate(a, b) \in Int
BY DEF SuccessRate

LEMMA ModelRowsOK ==
  ASSUME TablesTypeOK, NEW sort, sort.key \in ModelSortKey
  PROVE  IsFiniteSet(ModelRows) /\ ValuesOK(ModelRows, sort)
<1>1. RowsOK(answered) /\ IsFiniteSet(Models)
  BY NamesOK
<1>2. IsFiniteSet(ModelRows)
  BY <1>1, ModelRowsAre, ImageFinite DEF RowsOf
<1>3. ASSUME NEW row \in ModelRows PROVE SortValue(row, sort.key) \in Int \cup {Missing}
  <2>1. PICK m \in Models : row = ModelRow(m)
    BY <1>3 DEF ModelRows, Models, NamesIn
  <2> DEFINE P == ModelPart(m)
  <2>2. RowsOK(P)
    BY <1>1, RowsWithOK DEF ModelPart
  <2>3. \A field \in RowField : TotalOf(field, P) \in Nat
    <3> HIDE DEF P
    <3>1. QED
      BY <2>2, RowTotalNat
  <2>4. PICK r \in answered : r.model = m
    BY DEF Models, NamesIn
  <2>5. Rank(m) \in Nat
    BY <2>4, RankNat
  <2>6. AnalysisCost(m, P) \in Nat
    <3>1. \A q \in P : q.model = m
      BY DEF ModelPart, RowsWith
    <3> HIDE DEF P
    <3>2. QED
      BY <2>2, <3>1, ModelCostLess
  <2>7. PICK l \in Nat, n \in Nat : l = TotalOf("latency", P) /\ n = TotalOf("samples", P)
    BY <2>3 DEF RowField
  <2>8. TotalOf("requests", P) \in Nat /\ TotalOf("tokens", P) \in Nat /\ TotalOf("success", P) \in Nat
    BY <2>3 DEF RowField
  <2>9. SuccessRate(TotalOf("success", P), TotalOf("requests", P)) \in Int
    BY <2>8, RateInt
  <2>10. n > 0 => l \div n \in Int
    BY <2>7
  <2>11. row = [model |-> m, requests |-> TotalOf("requests", P), tokens |-> TotalOf("tokens", P),
                cost |-> AnalysisCost(m, P),
                successRate |-> SuccessRate(TotalOf("success", P), TotalOf("requests", P)),
                averageLatencyMs |-> IF n > 0 THEN l \div n ELSE Missing,
                totalLatencyMs |-> IF n > 0 THEN l ELSE Missing]
    BY <2>1, <2>7 DEF ModelRow, ModelPart, RowsWith
  <2> HIDE DEF P
  <2>12. CASE sort.key = "model"
    BY <2>5, <2>11, <2>12 DEF SortValue
  <2>13. CASE sort.key # "model"
    <3>1. sort.key \in {"requests", "tokens", "cost", "successRate", "averageLatencyMs", "totalLatencyMs"}
      BY <2>13 DEF ModelSortKey
    <3>2. SortValue(row, sort.key) = row[sort.key]
      BY <3>1 DEF SortValue
    <3>3. row[sort.key] \in Int \cup {Missing}
      BY <2>6, <2>7, <2>8, <2>9, <2>10, <2>11, <3>1
    <3>4. QED
      BY <3>2, <3>3
  <2>14. QED
    BY <2>12, <2>13
<1>4. QED
  BY <1>2, <1>3 DEF ValuesOK

LEMMA ApiRowsOK ==
  ASSUME TablesTypeOK
  PROVE  IsFiniteSet(ApiRows) /\ ValuesOK(ApiRows, apiSort)
<1>1. RowsOK(answered) /\ IsFiniteSet(Apis)
  BY NamesOK
<1>2. IsFiniteSet(ApiRows)
  BY <1>1, ApiRowsAre, ImageFinite DEF RowsOf
<1>3. ASSUME NEW row \in ApiRows PROVE SortValue(row, apiSort.key) \in Int \cup {Missing}
  <2>1. PICK a \in Apis : row = ApiRowOf[a]
    BY <1>3, ApiRowsAre DEF RowsOf
  <2> DEFINE P == ApiPart(a)
  <2>2. RowsOK(P) /\ IsFiniteSet(P)
    <3>1. RowsOK(P)
      BY <1>1, RowsWithOK DEF ApiPart
    <3>2. QED
      BY <3>1 DEF RowsOK
  <2>3. TotalOf("requests", P) \in Nat /\ TotalOf("tokens", P) \in Nat
    <3>1. "requests" \in RowField /\ "tokens" \in RowField
      BY DEF RowField
    <3> HIDE DEF P
    <3>2. QED
      BY <2>2, <3>1, RowTotalNat
  <2>4. PICK r \in answered : r.api = a
    BY DEF Apis, NamesIn
  <2>5. Rank(a) \in Nat
    BY <2>4, RankNat
  <2>6. row.cost \in Int
    <3>1. row.cost = SumOf(RowCosts(P))
      BY <2>1, ApiRowIs DEF RowCosts, CostOf
    <3>2. DOMAIN RowCosts(P) = P /\ \A q \in P : RowCosts(P)[q] = CostOf(q)
      BY DEF RowCosts
    <3>3. \A q \in P : CostOf(q) \in Int
      <4> HIDE DEF P
      <4>1. QED
        BY <2>2, CostNat
    <3>4. SumOf(RowCosts(P)) = SumOver(RowCosts(P), P)
      BY <3>2, SumOfIs
    <3>5. SumOver(RowCosts(P), P) \in Int
      BY <2>2, <3>2, <3>3, SumOverInt
    <3>6. QED
      BY <3>1, <3>4, <3>5
  <2>7. row.endpoint = a /\ row.requests \in Int /\ row.tokens \in Int
    <3>1. /\ ApiRowOf[a].endpoint = a /\ ApiRowOf[a].requests = TotalOf("requests", P)
          /\ ApiRowOf[a].tokens = TotalOf("tokens", P)
      BY ApiRowIs
    <3> HIDE DEF P
    <3>2. QED
      BY <2>1, <2>3, <3>1
  <2>8. apiSort.key \in ApiSortKey
    BY DEF TablesTypeOK
  <2>9. CASE apiSort.key = "endpoint"
    BY <2>5, <2>7, <2>9 DEF SortValue
  <2>10. CASE apiSort.key = "requests"
    BY <2>7, <2>10 DEF SortValue
  <2>11. CASE apiSort.key = "tokens"
    BY <2>7, <2>11 DEF SortValue
  <2>12. CASE apiSort.key = "cost"
    BY <2>6, <2>12 DEF SortValue
  <2>13. QED
    BY <2>8, <2>9, <2>10, <2>11, <2>12 DEF ApiSortKey
<1>4. QED
  BY <1>2, <1>3 DEF ValuesOK

(* Where a row stands. *)
PlaceIn(q, row) == CHOOSE i \in DOMAIN q : q[i] = row

LEMMA PlaceIs ==
  ASSUME NEW R, IsFiniteSet(R), NEW sort, NEW s \in SortedBy(R, sort), NEW r \in R
  PROVE  PlaceIn(s, r) \in 1..Cardinality(R) /\ s[PlaceIn(s, r)] = r
<1>1. s \in [1..Cardinality(R) -> R]
  BY SortedIs
<1>2. \E i \in 1..Cardinality(R) : s[i] = r
  BY SortedHasAll
<1>3. \E i \in DOMAIN s : s[i] = r
  BY <1>1, <1>2
<1>4. QED
  BY <1>1, <1>3 DEF PlaceIn

LEMMA FirstStands ==
  ASSUME NEW R, IsFiniteSet(R), NEW sort, ValuesOK(R, sort), NEW s \in SortedBy(R, sort),
         NEW a \in R, NEW b \in R, Precedes(a, b, sort)
  PROVE  PlaceIn(s, a) < PlaceIn(s, b)
<1>1. PICK n \in Nat : n = Cardinality(R)
  BY FS_CardinalityType
<1>2. PICK i \in 1..n : i = PlaceIn(s, a) /\ s[i] = a
  BY <1>1, PlaceIs
<1>3. PICK j \in 1..n : j = PlaceIn(s, b) /\ s[j] = b
  BY <1>1, PlaceIs
<1>4. Ordered(s, n, sort)
  BY <1>1, SortedIs
<1>5. ~Precedes(a, a, sort)
  BY FiguresAssumption DEF Precedes, ValuesOK
<1>6. i # j
  BY <1>2, <1>3, <1>5
<1>7. ~(j < i)
  BY <1>2, <1>3, <1>4 DEF Ordered
<1>8. QED
  BY <1>2, <1>3, <1>6, <1>7

LEMMA SortsDoSound == ASSUME TablesTypeOK PROVE SortsAreSound
<1> DEFINE turned == HandleSort(modelSort, modelSort.key, "model")
           Value(row) == SortValue(row, modelSort.key)
<1>1. modelSort.key \in ModelSortKey /\ modelSort.dir \in {"asc", "desc"}
  BY DEF TablesTypeOK
<1>2. turned.key = modelSort.key /\ turned.dir = IF modelSort.dir = "asc" THEN "desc" ELSE "asc"
  <2>1. modelSort = [key |-> modelSort.key, dir |-> modelSort.dir]
    BY DEF TablesTypeOK
  <2>2. QED
    BY <2>1 DEF HandleSort
<1> HIDE DEF turned
<1>3. /\ IsFiniteSet(ModelRows) /\ ValuesOK(ModelRows, modelSort) /\ ValuesOK(ModelRows, turned)
      /\ IsFiniteSet(ApiRows) /\ ValuesOK(ApiRows, apiSort)
  BY <1>1, <1>2, ModelRowsOK, ApiRowsOK
<1>4. SortedBy(ModelRows, modelSort) # {} /\ SortedBy(ApiRows, apiSort) # {}
  BY <1>3, SortExists
<1>5. PICK n \in Nat : n = Cardinality(ModelRows)
  BY <1>3, FS_CardinalityType
<1>6. ASSUME NEW s \in SortedBy(ModelRows, modelSort), NEW i \in 1..n, NEW j \in 1..n, i < j,
             Value(s[i]) = Missing
      PROVE  Value(s[j]) = Missing
  <2>1. Ordered(s, n, modelSort) /\ s \in [1..n -> ModelRows]
    BY <1>3, <1>5, SortedIs
  <2>2. ~Precedes(s[j], s[i], modelSort)
    BY <1>6, <2>1 DEF Ordered
  <2>3. QED
    BY <1>6, <2>2 DEF Precedes
<1>7. ASSUME NEW s \in SortedBy(ModelRows, modelSort), NEW t \in SortedBy(ModelRows, turned),
             NEW a \in ModelRows, NEW b \in ModelRows,
             Missing \notin {Value(a), Value(b)}, Value(a) # Value(b)
      PROVE  PlaceIn(s, a) < PlaceIn(s, b) <=> PlaceIn(t, b) < PlaceIn(t, a)
  <2>1. PICK x \in Int, y \in Int : x = Value(a) /\ y = Value(b)
    BY <1>3, <1>7 DEF ValuesOK
  <2>2. x # y /\ x # Missing /\ y # Missing
    BY <1>7, <2>1
  <2>3. \/ Precedes(a, b, modelSort) /\ Precedes(b, a, turned)
        \/ Precedes(b, a, modelSort) /\ Precedes(a, b, turned)
    BY <1>1, <1>2, <2>1, <2>2 DEF Precedes
  <2>4. PICK i \in 1..n, j \in 1..n : i = PlaceIn(s, a) /\ j = PlaceIn(s, b)
    BY <1>3, <1>5, PlaceIs
  <2>5. PICK k \in 1..n, l \in 1..n : k = PlaceIn(t, a) /\ l = PlaceIn(t, b)
    BY <1>3, <1>5, PlaceIs
  <2>6. CASE Precedes(a, b, modelSort) /\ Precedes(b, a, turned)
    <3>1. PlaceIn(s, a) < PlaceIn(s, b)
      BY <1>3, <2>6, FirstStands
    <3>2. PlaceIn(t, b) < PlaceIn(t, a)
      BY <1>3, <2>6, FirstStands
    <3>3. QED
      BY <3>1, <3>2
  <2>7. CASE Precedes(b, a, modelSort) /\ Precedes(a, b, turned)
    <3>1. PlaceIn(s, b) < PlaceIn(s, a)
      BY <1>3, <2>7, FirstStands
    <3>2. PlaceIn(t, a) < PlaceIn(t, b)
      BY <1>3, <2>7, FirstStands
    <3>3. j < i /\ k < l
      BY <2>4, <2>5, <3>1, <3>2
    <3>4. ~(i < j) /\ ~(l < k)
      BY <3>3
    <3>5. QED
      BY <2>4, <2>5, <3>4
  <2>8. QED
    BY <2>3, <2>6, <2>7
<1>8. QED
  BY <1>4, <1>5, <1>6, <1>7 DEF SortsAreSound, PlaceIn, turned

(* The positions of the rows with requests, in order. *)
LEMMA PlacesOnto ==
  ASSUME NEW m \in Nat, NEW P \in SUBSET (1..m), NEW n \in 1..Cardinality(P)
  PROVE  \E i \in P : Cardinality({k \in P : k < i}) = n - 1
<1> DEFINE Before(i) == {k \in P : k < i}
           c == Cardinality(P)
           f == [i \in P |-> Cardinality(Before(i))]
<1>1. IsFiniteSet(P) /\ c \in Nat
  <2>1. IsFiniteSet(1..m)
    BY FS_Interval
  <2>2. QED
    BY <2>1, FS_Subset, FS_CardinalityType
<1>2. ASSUME NEW i \in P
      PROVE  /\ IsFiniteSet(Before(i)) /\ Cardinality(Before(i)) \in Nat
             /\ \A S \in SUBSET P : Before(i) \cup {i} \subseteq S =>
                  Cardinality(Before(i)) + 1 <= Cardinality(S)
  <2>1. IsFiniteSet(Before(i)) /\ Cardinality(Before(i)) \in Nat
    <3>1. Before(i) \in SUBSET P
      OBVIOUS
    <3>2. QED
      BY <1>1, <3>1, FS_Subset, FS_CardinalityType
  <2>2. Cardinality(Before(i) \cup {i}) = Cardinality(Before(i)) + 1
    <3>1. i \notin Before(i)
      OBVIOUS
    <3> HIDE DEF Before
    <3>2. QED
      BY <2>1, <3>1, FS_AddElement
  <2>3. ASSUME NEW S \in SUBSET P, Before(i) \cup {i} \subseteq S
        PROVE  Cardinality(Before(i)) + 1 <= Cardinality(S)
    <3>1. IsFiniteSet(S)
      BY <1>1, FS_Subset
    <3>2. Cardinality(Before(i) \cup {i}) <= Cardinality(S)
      BY <2>3, <3>1, FS_Subset
    <3>3. QED
      BY <2>2, <3>2
  <2>4. QED
    BY <2>1, <2>3
<1>3. f \in [P -> 0..(c - 1)]
  <2>1. ASSUME NEW i \in P PROVE Cardinality(Before(i)) \in 0..(c - 1)
    <3>1. Before(i) \cup {i} \subseteq P
      OBVIOUS
    <3>2. Cardinality(Before(i)) \in Nat /\ Cardinality(Before(i)) + 1 <= c
      BY <1>2, <3>1
    <3>3. QED
      BY <1>1, <3>2
  <2>2. QED
    BY <2>1
<1>4. ASSUME NEW i \in P, NEW j \in P, i < j PROVE f[i] < f[j]
  <2>1. Before(i) \cup {i} \subseteq Before(j) /\ Before(j) \in SUBSET P
    <3>1. i \in Nat /\ j \in Nat /\ P \subseteq Nat
      OBVIOUS
    <3>2. ASSUME NEW k \in P, k < i PROVE k < j
      BY <1>4, <3>1, <3>2
    <3>3. QED
      BY <1>4, <3>2
  <2>2. f[i] = Cardinality(Before(i)) /\ f[j] = Cardinality(Before(j))
    OBVIOUS
  <2>3. Cardinality(Before(i)) \in Nat /\ Cardinality(Before(j)) \in Nat
    BY <1>2
  <2>4. Cardinality(Before(i)) + 1 <= Cardinality(Before(j))
    BY <1>2, <2>1
  <2> HIDE DEF f, Before
  <2>5. QED
    BY <2>2, <2>3, <2>4
<1>5. f \in Injection(P, 0..(c - 1))
  <2>1. ASSUME NEW i \in P, NEW j \in P, f[i] = f[j] PROVE i = j
    <3>1. i \in Int /\ j \in Int /\ f[i] \in Int /\ f[j] \in Int
      BY <1>3
    <3>2. ~(i < j) /\ ~(j < i)
      <4> HIDE DEF f
      <4>1. QED
        BY <1>4, <2>1, <3>1
    <3>3. QED
      BY <3>1, <3>2
  <2> HIDE DEF f
  <2>2. QED
    BY <1>3, <2>1 DEF Injection, IsInjective
<1>6. IsFiniteSet(0..(c - 1)) /\ Cardinality(0..(c - 1)) = c
  <2> HIDE DEF c
  <2>1. 0 \in Int /\ c - 1 \in Int
    BY <1>1
  <2>2. QED
    BY <1>1, <2>1, FS_Interval
<1>7. f \in Surjection(P, 0..(c - 1))
  BY <1>1, <1>5, <1>6, FS_Injection
<1>8. n - 1 \in 0..(c - 1)
  BY <1>1
<1>9. PICK i \in P : f[i] = n - 1
  BY <1>7, <1>8 DEF Surjection
<1>10. QED
  BY <1>9

-----------------------------------------------------------------------------
(* Credentials, filters and pages. *)

CredentialRows == {CredentialRow(c) : c \in Identities}
ByTotal == [key |-> "total", dir |-> "desc"]

LEMMA CredentialTotals ==
  /\ IsFiniteSet(CredentialRows)
  /\ \A c \in CredentialRows : c.total \in Nat
<1>1. IsFiniteSet(CredentialRows)
  <2> DEFINE row == [c \in Identities |-> CredentialRow(c)]
  <2>1. CredentialRows = {row[c] : c \in Identities} /\ IsFiniteSet(Identities)
    BY TablesAssumption DEF CredentialRows
  <2> HIDE DEF row
  <2>2. QED
    BY <2>1, ImageFinite
<1>2. ASSUME NEW c \in Identities PROVE CredentialRow(c).total \in Nat
  <2>1. c.success \in Nat \cup {Missing} /\ c.failure \in Nat \cup {Missing}
        /\ c.total \in Nat \cup {Missing}
    BY TablesAssumption
  <2>2. PICK s \in Nat, f \in Nat : s = ToNumber(c.success) /\ f = ToNumber(c.failure)
    BY <2>1 DEF ToNumber
  <2>3. ToNumber(c.total) # 0 => c.total \in Nat
    BY <2>1 DEF ToNumber
  <2>4. CredentialRow(c).total = IF ToNumber(c.total) # 0 THEN c.total ELSE s + f
    BY <2>2 DEF CredentialRow
  <2>5. QED
    BY <2>3, <2>4
<1>3. QED
  BY <1>1, <1>2 DEF CredentialRows

Used(rows) == {i \in DOMAIN rows : rows[i].total > 0}
UsedBefore(rows, i) == {j \in Used(rows) : j < i}
TopPlace(rows, k) == CHOOSE i \in Used(rows) : Cardinality(UsedBefore(rows, i)) = k - 1

LEMMA TopIs ==
  ASSUME NEW rows
  PROVE  GetTopCredentialRows(rows)
           = [k \in 1..Smaller(TopLimit, Cardinality(Used(rows))) |-> rows[TopPlace(rows, k)]]
BY DEF GetTopCredentialRows, TopPlace, UsedBefore, Used

(* A row above another has fewer rows before it. *)
LEMMA FewerBefore ==
  ASSUME NEW rows, NEW n \in Nat, DOMAIN rows = 1..n, NEW i \in Used(rows), NEW j \in Used(rows), i < j
  PROVE  /\ Cardinality(UsedBefore(rows, i)) \in Nat /\ Cardinality(UsedBefore(rows, j)) \in Nat
         /\ Cardinality(UsedBefore(rows, i)) < Cardinality(UsedBefore(rows, j))
<1> DEFINE A == UsedBefore(rows, i)
           B == UsedBefore(rows, j)
<1>1. IsFiniteSet(1..n) /\ Used(rows) \subseteq 1..n
  BY PlacesFinite DEF Used
<1>2. A \subseteq 1..n /\ B \subseteq 1..n
  BY <1>1 DEF UsedBefore
<1>3. A \subseteq B /\ i \in B /\ i \notin A
  <2>1. i \in Int /\ j \in Int /\ \A k \in Used(rows) : k \in Int
    BY <1>1
  <2>2. ASSUME NEW k \in A PROVE k \in B
    <3>1. k \in Used(rows) /\ k < i
      BY DEF UsedBefore
    <3>2. k < j
      BY <2>1, <3>1
    <3>3. QED
      BY <3>1, <3>2 DEF UsedBefore
  <2>3. i \in B
    BY DEF UsedBefore
  <2>4. i \notin A
    BY <2>1 DEF UsedBefore
  <2> HIDE DEF A, B
  <2>5. QED
    BY <2>2, <2>3, <2>4
<1>4. IsFiniteSet(A) /\ IsFiniteSet(B)
  BY <1>1, <1>2, FS_Subset
<1> HIDE DEF A, B
<1>5. Cardinality(A) \in Nat /\ Cardinality(B) \in Nat
  BY <1>4, FS_CardinalityType
<1>6. Cardinality(A) <= Cardinality(B) /\ (A # B => Cardinality(A) # Cardinality(B))
  BY <1>3, <1>4, FS_Subset
<1>7. QED
  BY <1>3, <1>5, <1>6 DEF A, B

LEMMA TopIsTop ==
  ASSUME NEW rows \in BuildCredentialRows, NEW c \in CredentialRows, c.total > 0,
         c \notin ToSet(GetTopCredentialRows(rows))
  PROVE  /\ Len(GetTopCredentialRows(rows)) = TopLimit
         /\ \A i \in DOMAIN GetTopCredentialRows(rows) : GetTopCredentialRows(rows)[i].total >= c.total
<1> DEFINE top == GetTopCredentialRows(rows)
<1>1. IsFiniteSet(CredentialRows) /\ \A d \in CredentialRows : d.total \in Nat
  BY CredentialTotals
<1>2. rows \in SortedBy(CredentialRows, ByTotal)
  BY DEF BuildCredentialRows, CredentialRows, ByTotal
<1>3. PICK n \in Nat : n = Cardinality(CredentialRows)
  BY <1>1, FS_CardinalityType
<1>4. rows \in [1..n -> CredentialRows] /\ Ordered(rows, n, ByTotal)
  BY <1>1, <1>2, <1>3, SortedIs
<1>5. PICK p \in 1..n : rows[p] = c
  BY <1>1, <1>2, <1>3, SortedHasAll
<1>6. p \in Used(rows) /\ Used(rows) \in SUBSET (1..n) /\ DOMAIN rows = 1..n
  BY <1>4, <1>5 DEF Used
<1>7. PICK u \in Nat : u = Cardinality(Used(rows))
  <2>1. IsFiniteSet(Used(rows))
    BY <1>6, PlacesFinite, FS_Subset
  <2>2. QED
    BY <2>1, FS_CardinalityType
<1>8. PICK b \in Nat : b = Cardinality(UsedBefore(rows, p)) /\ b < u
  <2>1. UsedBefore(rows, p) \subseteq Used(rows) /\ p \notin UsedBefore(rows, p)
    BY <1>5 DEF UsedBefore
  <2>2. IsFiniteSet(Used(rows))
    BY <1>6, PlacesFinite, FS_Subset
  <2>3. IsFiniteSet(UsedBefore(rows, p)) /\ Cardinality(UsedBefore(rows, p)) \in Nat
    BY <2>1, <2>2, FS_Subset, FS_CardinalityType
  <2>4. Cardinality(UsedBefore(rows, p)) <= u
        /\ (UsedBefore(rows, p) # Used(rows) => Cardinality(UsedBefore(rows, p)) # u)
    BY <1>7, <2>1, <2>2, FS_Subset
  <2>5. QED
    BY <1>6, <1>7, <2>1, <2>3, <2>4
<1>9. PICK m \in Nat : m = Smaller(TopLimit, u)
  BY TablesAssumption DEF Smaller
<1>10. top = [k \in 1..m |-> rows[TopPlace(rows, k)]]
  BY <1>7, <1>9, TopIs
<1>11. ASSUME NEW k \in 1..m
       PROVE  /\ TopPlace(rows, k) \in Used(rows)
              /\ Cardinality(UsedBefore(rows, TopPlace(rows, k))) = k - 1
  <2>1. m <= u
    BY <1>9, TablesAssumption DEF Smaller
  <2>2. k \in 1..u
    BY <2>1
  <2>3. \E i \in Used(rows) : Cardinality({j \in Used(rows) : j < i}) = k - 1
    BY <1>6, <1>7, <2>2, PlacesOnto
  <2>4. \E i \in Used(rows) : Cardinality(UsedBefore(rows, i)) = k - 1
    BY <2>3 DEF UsedBefore
  <2>5. QED
    BY <2>4, Zenon DEF TopPlace
<1>12. ASSUME b + 1 \in 1..m PROVE FALSE
  <2>1. PICK q \in Used(rows) : q = TopPlace(rows, b + 1) /\ Cardinality(UsedBefore(rows, q)) = b
    BY <1>8, <1>11, <1>12
  <2>2. q \in 1..n
    BY <1>6
  <2>3. q = p
    <3>1. ~(q < p)
      BY <1>6, <1>8, <2>1, FewerBefore
    <3>2. ~(p < q)
      BY <1>6, <1>8, <2>1, FewerBefore
    <3>3. QED
      BY <2>2, <3>1, <3>2
  <2>4. top[b + 1] = c /\ b + 1 \in DOMAIN top
    BY <1>5, <1>10, <1>12, <2>1, <2>3
  <2> HIDE DEF top
  <2>5. c \in ToSet(top)
    BY <2>4 DEF ToSet
  <2>6. QED
    BY <2>5 DEF top
<1>13. m <= b /\ m = TopLimit
  <2>1. m <= b
    BY <1>12
  <2>2. QED
    BY <1>8, <1>9, <2>1, TablesAssumption DEF Smaller
<1>14. Len(top) = TopLimit
  BY <1>10, <1>13
<1>15. ASSUME NEW k \in DOMAIN top PROVE top[k].total >= c.total
  <2>1. k \in 1..m /\ top[k] = rows[TopPlace(rows, k)]
    BY <1>10
  <2>2. PICK q \in Used(rows) : q = TopPlace(rows, k) /\ Cardinality(UsedBefore(rows, q)) = k - 1
    BY <1>11, <2>1
  <2>3. q \in 1..n
    BY <1>6
  <2>4. k - 1 < b
    BY <1>13, <2>1
  <2>5. q # p /\ ~(p < q)
    <3>1. q # p
      BY <1>8, <2>1, <2>2, <2>4
    <3>2. ASSUME p < q PROVE FALSE
      <4>1. Cardinality(UsedBefore(rows, p)) < Cardinality(UsedBefore(rows, q))
        BY <1>6, <3>2, FewerBefore
      <4>2. QED
        BY <1>8, <2>1, <2>2, <2>4, <4>1
    <3>3. QED
      BY <3>1, <3>2
  <2>6. q < p
    BY <2>3, <2>5
  <2>7. ~Precedes(rows[p], rows[q], ByTotal)
    BY <1>4, <2>3, <2>6 DEF Ordered
  <2>8. PICK x \in Nat, y \in Nat : x = rows[q].total /\ y = c.total
    BY <1>1, <1>4, <2>3
  <2>9. ~(y > x)
    <3>1. SortValue(rows[p], "total") = y /\ SortValue(rows[q], "total") = x
      BY <1>5, <2>8 DEF SortValue
    <3>2. y # Missing /\ x # Missing
      BY FiguresAssumption
    <3>3. QED
      BY <2>7, <3>1, <3>2 DEF Precedes, ByTotal
  <2>10. QED
    BY <2>1, <2>2, <2>8, <2>9
<1>16. QED
  BY <1>14, <1>15

LEMMA PagesFit ==
  ASSUME NEW size \in 0..2, NEW count \in 0..3, NEW rows \in 0..2, NEW page \in 1..4,
         NEW total,
         total = SafeTotalPages(IF size = 0 THEN 0 ELSE (count + size - 1) \div size, count, size, rows),
         page <= total
  PROVE  /\ PreviousEnabled(page, total) => page - 1 \in 1..total
         /\ NextEnabled(page, total) => page + 1 \in 1..total
<1>1. total \in Nat
  <2>1. PICK q \in Int : q = IF size = 0 THEN 0 ELSE (count + size - 1) \div size
    BY DEF SafeTotalPages
  <2>2. size > 0 => q = (count + size - 1) \div size
    BY <2>1
  <2>3. q >= 0
    <3>1. CASE size = 0
      BY <2>1, <3>1
    <3>2. CASE size > 0
      BY <2>1, <3>2
    <3>3. QED
      BY <3>1, <3>2
  <2>4. total = Bigger(Bigger(q, IF size > 0 THEN q ELSE 0), IF rows > 0 THEN 1 ELSE 0)
    BY <2>1, <2>2 DEF SafeTotalPages
  <2>5. QED
    BY <2>3, <2>4 DEF Bigger
<1>2. SafePage(page, total) = page
  BY <1>1 DEF SafePage, Smaller, Bigger
<1>3. QED
  BY <1>1, <1>2 DEF PreviousEnabled, NextEnabled

LEMMA ListsDoAgree == ListsAgree
<1>1. ASSUME NEW rows \in BuildCredentialRows, NEW c \in CredentialRows, c.total > 0,
             c \notin ToSet(GetTopCredentialRows(rows))
      PROVE  /\ Len(GetTopCredentialRows(rows)) = TopLimit
             /\ \A i \in DOMAIN GetTopCredentialRows(rows) :
                  GetTopCredentialRows(rows)[i].total >= c.total
  BY <1>1, TopIsTop
<1>2. ASSUME NEW backend, NEW selected
      PROVE  EffectiveFilter(FilterOptions(backend, selected), selected) = selected
  BY DEF EffectiveFilter, FilterOptions, AppendSelectedOption
<1>3. QED
  BY <1>1, <1>2, PagesFit DEF ListsAgree, CredentialRows

LEMMA TablesInitOK == ASSUME TablesInit PROVE TablesTypeOK
BY DEF TablesInit, TablesTypeOK, ModelSortKey, ApiSortKey

LEMMA TablesStepOK == ASSUME TablesTypeOK, [TablesNext]_tableVars PROVE TablesTypeOK'
<1> USE DEF TablesTypeOK
<1>1. ASSUME NEW key \in ModelSortKey, SortModels(key) PROVE TablesTypeOK'
  BY <1>1 DEF SortModels, HandleSort
<1>2. ASSUME NEW key \in ApiSortKey, SortApis(key) PROVE TablesTypeOK'
  BY <1>2 DEF SortApis, HandleSort
<1>3. ASSUME NEW a \in {r.api : r \in AnalysisRow}, ToggleExpand(a) PROVE TablesTypeOK'
  BY <1>3 DEF ToggleExpand
<1>4. ASSUME NEW R \in SUBSET AnalysisRow, ShowAnalysis(R) PROVE TablesTypeOK'
  BY <1>4 DEF ShowAnalysis
<1>5. CASE UNCHANGED tableVars
  BY <1>5 DEF tableVars
<1>6. QED
  BY <1>1, <1>2, <1>3, <1>4, <1>5 DEF TablesNext

(* The rows, the orders and the opened rows of the tables keep their types. *)
THEOREM TablesTypeCorrect == TablesSpec => []TablesTypeOK
<1>1. TablesInit => TablesTypeOK
  BY TablesInitOK
<1>2. TablesTypeOK /\ [TablesNext]_tableVars => TablesTypeOK'
  BY TablesStepOK
<1>3. QED
  BY <1>1, <1>2, PTL DEF TablesSpec

(* The tables of models, of APIs and of credentials say the same of the    *)
(* same rows, and every order they are shown in is a sound one.            *)
THEOREM TablesStayTrue == TablesSpec => []TablesTrue
<1>1. TablesInit => TablesTypeOK
  BY TablesInitOK
<1>2. TablesTypeOK /\ [TablesNext]_tableVars => TablesTypeOK'
  BY TablesStepOK
<1>3. TablesTypeOK => TablesTrue
  BY SortsDoSound, TablesDoAgree, ListsDoAgree DEF TablesTrue
<1>4. QED
  BY <1>1, <1>2, <1>3, PTL DEF TablesSpec

-----------------------------------------------------------------------------
(* Images. *)

ImageOf(h, D) == {h[d] : d \in D}
OneToOne(h, D) == \A d, e \in D : h[d] = h[e] => d = e

(* A sum over the image of distinct things is one over the things. *)
LEMMA SumOverImage ==
  ASSUME NEW D, IsFiniteSet(D), NEW h, OneToOne(h, D), NEW f, NEW g,
         \A d \in D : f[h[d]] \in Int /\ g[d] = f[h[d]]
  PROVE  SumOver(f, ImageOf(h, D)) = SumOver(g, D)
<1> DEFINE K == ImageOf(h, D)
<1>1. IsFiniteSet(K)
  BY ImageFinite DEF ImageOf
<1>2. \A d \in D : g[d] \in Int /\ h[d] \in K
  BY DEF ImageOf
<1>3. ASSUME NEW k \in K PROVE f[k] = SumOver(g, Fibre(D, h, k))
  <2>1. PICK d \in D : k = h[d]
    BY DEF ImageOf
  <2>2. Fibre(D, h, k) = {d}
    BY <2>1 DEF Fibre, OneToOne
  <2>3. SumOver(g, {d}) = g[d]
    <3>1. g[d] \in Int
      OBVIOUS
    <3>2. SumOver(g, {d}) = g[d] + SumOver(g, {d} \ {d})
      BY <3>1, FS_Singleton, SumOverRemove
    <3>3. {d} \ {d} = {}
      OBVIOUS
    <3>4. QED
      BY <3>1, <3>2, <3>3, SumOverEmpty
  <2>4. QED
    BY <2>1, <2>2, <2>3
<1> HIDE DEF K
<1>4. SumOver(f, K) = SumOver(g, D)
  BY <1>1, <1>2, <1>3, SumByKey
<1>5. QED
  BY <1>4 DEF K

-----------------------------------------------------------------------------
(* Details. *)

DetailName == {d.api : d \in UsageDetail} \cup {d.model : d \in UsageDetail} \cup {"unknown"}

DetailRecord ==
  [id : Int, api : DetailName, model : DetailName, at : Nat, failed : BOOLEAN,
   latency : Int \cup {Missing}, input : Nat, output : Nat, reasoning : Nat,
   cached : Nat, cache : Nat \cup {Missing}, total : Nat]

DetailsOK(D) ==
  /\ IsFiniteSet(D) /\ D \subseteq DetailRecord
  /\ \A d, e \in D : d.id = e.id => d = e

(* A detail as it is collected, and as a rebuilt payload holds it. *)
Timed(d) == [d EXCEPT !.latency = ToNumber(@)]
TimedOf(D) == [d \in D |-> Timed(d)]
RebuiltOf(D) == [d \in D |-> Rebuilt(d)]

LEMMA RecordedAreDetails == UsageDetail \subseteq DetailRecord
<1> SUFFICES ASSUME NEW d \in UsageDetail PROVE d \in DetailRecord
  OBVIOUS
<1>1. d \in [id : Int, api : STRING, model : STRING, at : Nat, failed : BOOLEAN,
              latency : Int \cup {Missing}, input : Nat, output : Nat, reasoning : Nat,
              cached : Nat, cache : Nat \cup {Missing}, total : Nat]
  BY DetailsAssumption
<1>2. d.api \in DetailName /\ d.model \in DetailName
  BY DEF DetailName
<1>3. QED
  BY <1>1, <1>2 DEF DetailRecord

LEMMA ToNumberInt ==
  ASSUME NEW v \in Int \cup {Missing}
  PROVE  ToNumber(v) \in Int
BY DEF ToNumber

LEMMA ToNumberNat ==
  ASSUME NEW v \in Nat \cup {Missing}
  PROVE  ToNumber(v) \in Nat
BY DEF ToNumber

LEMMA ToNumberOf ==
  ASSUME NEW v \in Int
  PROVE  ToNumber(v) = v
BY FiguresAssumption DEF ToNumber

LEMMA TimedIs ==
  ASSUME NEW d \in DetailRecord
  PROVE  /\ Timed(d) \in DetailRecord /\ Timed(d).latency = ToNumber(d.latency)
         /\ \A x \in {"id", "api", "model", "at", "failed", "input", "output", "reasoning",
                      "cached", "cache", "total"} : Timed(d)[x] = d[x]
<1>1. ToNumber(d.latency) \in Int
  BY ToNumberInt DEF DetailRecord
<1>2. QED
  BY <1>1 DEF Timed, DetailRecord

LEMMA TokenParts ==
  ASSUME NEW d \in DetailRecord
  PROVE  /\ ToNumber(d.input) = d.input /\ ToNumber(d.output) = d.output
         /\ ToNumber(d.reasoning) = d.reasoning /\ ToNumber(d.cached) = d.cached
         /\ ToNumber(d.total) = d.total /\ ToNumber(d.cache) \in Nat /\ CachedTokens(d) \in Nat
         /\ ExtractTotalTokens(d) =
              IF d.total > 0 THEN d.total
              ELSE d.input + d.output + d.reasoning + CachedTokens(d)
         /\ ExtractTotalTokens(d) \in Nat
<1>1. d.input \in Nat /\ d.output \in Nat /\ d.reasoning \in Nat /\ d.cached \in Nat /\ d.total \in Nat
  BY DEF DetailRecord
<1>2. /\ ToNumber(d.input) = d.input /\ ToNumber(d.output) = d.output
      /\ ToNumber(d.reasoning) = d.reasoning /\ ToNumber(d.cached) = d.cached
      /\ ToNumber(d.total) = d.total
  BY <1>1, ToNumberOf
<1>3. ToNumber(d.cache) \in Nat
  BY ToNumberNat DEF DetailRecord
<1>4. CachedTokens(d) \in Nat
  BY <1>1, <1>2, <1>3 DEF CachedTokens, Bigger
<1>5. QED
  BY <1>1, <1>2, <1>3, <1>4 DEF ExtractTotalTokens

LEMMA RebuiltIs ==
  ASSUME NEW d \in DetailRecord
  PROVE  /\ Rebuilt(d) \in DetailRecord
         /\ Rebuilt(d).id = d.id /\ Rebuilt(d).at = d.at /\ Rebuilt(d).failed = d.failed
         /\ Rebuilt(d).api = Named(d.api) /\ Rebuilt(d).model = Named(d.model)
         /\ Rebuilt(d).latency = ToNumber(d.latency) /\ Rebuilt(d).input = d.input
         /\ Rebuilt(d).output = d.output /\ Rebuilt(d).reasoning = d.reasoning
         /\ Rebuilt(d).cached = CachedTokens(d) /\ Rebuilt(d).cache = Missing
         /\ Rebuilt(d).total = ExtractTotalTokens(d)
<1>1. /\ ToNumber(d.latency) \in Int /\ CachedTokens(d) \in Nat /\ ExtractTotalTokens(d) \in Nat
      /\ ToNumber(d.input) = d.input /\ ToNumber(d.output) = d.output
      /\ ToNumber(d.reasoning) = d.reasoning
  BY ToNumberInt, TokenParts DEF DetailRecord
<1>2. Named(d.api) \in DetailName /\ Named(d.model) \in DetailName
  <2>1. d.api \in DetailName /\ d.model \in DetailName
    BY DEF DetailRecord
  <2>2. \A name \in DetailName : Named(name) \in DetailName
    BY DEF Named, DetailName
  <2>3. QED
    BY <2>1, <2>2
<1>3. QED
  BY <1>1, <1>2 DEF Rebuilt, DetailRecord

(* Rebuilding again changes nothing. *)
LEMMA RebuiltTwice ==
  ASSUME NEW d \in DetailRecord
  PROVE  Rebuilt(Rebuilt(d)) = Rebuilt(d)
<1> DEFINE r == Rebuilt(d)
           s == Rebuilt(r)
<1>1. r \in DetailRecord /\ s \in DetailRecord
  BY RebuiltIs
<1>2. ToNumber(d.latency) \in Int /\ CachedTokens(d) \in Nat /\ ExtractTotalTokens(d) \in Nat
  BY ToNumberInt, TokenParts DEF DetailRecord
<1>3. ToNumber(r.latency) = r.latency
  BY <1>2, RebuiltIs, ToNumberOf
<1>4. CachedTokens(r) = r.cached
  <2>1. r.cached = CachedTokens(d) /\ r.cache = Missing
    BY RebuiltIs
  <2>2. ToNumber(r.cached) = r.cached /\ ToNumber(r.cache) = 0
    BY <1>2, <2>1, ToNumberOf DEF ToNumber
  <2>3. QED
    BY <1>2, <2>1, <2>2 DEF CachedTokens, Bigger
<1>5. ExtractTotalTokens(r) = r.total
  <2>1. r.total = ExtractTotalTokens(d) /\ r.cached = CachedTokens(d) /\ r.input = d.input
        /\ r.output = d.output /\ r.reasoning = d.reasoning
    BY RebuiltIs
  <2>2. ExtractTotalTokens(d) = IF d.total > 0 THEN d.total
                                ELSE d.input + d.output + d.reasoning + CachedTokens(d)
    BY TokenParts
  <2>3. ExtractTotalTokens(r) = IF r.total > 0 THEN r.total
                                ELSE r.input + r.output + r.reasoning + CachedTokens(r)
    BY <1>1, TokenParts
  <2>4. d.total \in Nat /\ d.input \in Nat /\ d.output \in Nat /\ d.reasoning \in Nat
    BY DEF DetailRecord
  <2> HIDE DEF r
  <2>5. QED
    BY <1>2, <1>4, <2>1, <2>2, <2>3, <2>4
<1>6. Named(r.api) = r.api /\ Named(r.model) = r.model
  <2>1. r.api = Named(d.api) /\ r.model = Named(d.model)
    BY RebuiltIs
  <2>2. QED
    BY <2>1 DEF Named
<1>7. /\ s.id = r.id /\ s.at = r.at /\ s.failed = r.failed /\ s.api = r.api /\ s.model = r.model
      /\ s.latency = r.latency /\ s.input = r.input /\ s.output = r.output
      /\ s.reasoning = r.reasoning /\ s.cached = r.cached /\ s.cache = r.cache /\ s.total = r.total
  <2>1. /\ s.id = r.id /\ s.at = r.at /\ s.failed = r.failed
        /\ s.api = Named(r.api) /\ s.model = Named(r.model)
        /\ s.latency = ToNumber(r.latency) /\ s.input = r.input
        /\ s.output = r.output /\ s.reasoning = r.reasoning
        /\ s.cached = CachedTokens(r) /\ s.cache = Missing
        /\ s.total = ExtractTotalTokens(r)
    BY <1>1, RebuiltIs
  <2>2. r.cache = Missing
    BY RebuiltIs
  <2>3. QED
    BY <1>3, <1>4, <1>5, <1>6, <2>1, <2>2
<1> HIDE DEF r, s
<1>8. s = r
  BY <1>1, <1>7 DEF DetailRecord
<1>9. QED
  BY <1>8 DEF r, s

-----------------------------------------------------------------------------
(* A snapshot, cell by cell. *)

ApisOf(u) == DOMAIN u.apis
ModelsAt(u, a) == DOMAIN u.apis[a].models
DetailsAt(u, a, m) == u.apis[a].models[m].details
ApiTally(u, a) == u.apis[a].tally
CellTally(u, a, m) == u.apis[a].models[m].tally

PartAt(D, a) == RowsWith(D, "api", a)
CellAt(D, a, m) == RowsWith(PartAt(D, a), "model", m)

LEMMA SnapshotApis ==
  ASSUME NEW t
  PROVE  ApisOf(Snapshot(t)) = NamesIn(DOMAIN t, "api")
BY DEF ApisOf, Snapshot, NamesIn

LEMMA SnapshotModels ==
  ASSUME NEW t, NEW a \in NamesIn(DOMAIN t, "api")
  PROVE  ModelsAt(Snapshot(t), a) = NamesIn(PartAt(DOMAIN t, a), "model")
BY DEF ModelsAt, Snapshot, NamesIn, PartAt, RowsWith

LEMMA SnapshotDetailsAt ==
  ASSUME NEW t, NEW a \in NamesIn(DOMAIN t, "api"), NEW m \in NamesIn(PartAt(DOMAIN t, a), "model")
  PROVE  DetailsAt(Snapshot(t), a, m) = CellAt(DOMAIN t, a, m)
BY DEF DetailsAt, Snapshot, NamesIn, PartAt, CellAt, RowsWith

LEMMA SnapshotApiTally ==
  ASSUME NEW t, NEW a \in NamesIn(DOMAIN t, "api")
  PROVE  ApiTally(Snapshot(t), a) = Tally(Restrict(t, PartAt(DOMAIN t, a)))
BY DEF ApiTally, Snapshot, NamesIn, PartAt, RowsWith

LEMMA SnapshotCellTally ==
  ASSUME NEW t, NEW a \in NamesIn(DOMAIN t, "api"), NEW m \in NamesIn(PartAt(DOMAIN t, a), "model")
  PROVE  CellTally(Snapshot(t), a, m) = Tally(Restrict(t, CellAt(DOMAIN t, a, m)))
BY DEF CellTally, Snapshot, NamesIn, PartAt, CellAt, RowsWith

LEMMA PartIn ==
  ASSUME NEW D, NEW a
  PROVE  PartAt(D, a) \subseteq D
BY DEF PartAt, RowsWith

LEMMA CellIn ==
  ASSUME NEW D, NEW a, NEW m
  PROVE  CellAt(D, a, m) \subseteq D
BY DEF CellAt, PartAt, RowsWith

LEMMA SnapshotEvents ==
  ASSUME NEW t
  PROVE  CollectUsageEvents(Snapshot(t)) = DOMAIN t
<1> DEFINE D == DOMAIN t
           u == Snapshot(t)
<1>1. CollectUsageEvents(u) = UNION {UNION {DetailsAt(u, a, m) : m \in ModelsAt(u, a)} : a \in ApisOf(u)}
  BY DEF CollectUsageEvents, DetailsAt, ModelsAt, ApisOf
<1> HIDE DEF u
<1>2. ASSUME NEW d \in D PROVE d \in CollectUsageEvents(u)
  <2>1. d.api \in NamesIn(D, "api") /\ d \in PartAt(D, d.api)
    BY DEF NamesIn, PartAt, RowsWith
  <2>2. d.model \in NamesIn(PartAt(D, d.api), "model") /\ d \in CellAt(D, d.api, d.model)
    BY <2>1 DEF NamesIn, CellAt, RowsWith
  <2>3. d \in DetailsAt(u, d.api, d.model) /\ d.model \in ModelsAt(u, d.api) /\ d.api \in ApisOf(u)
    <3>1. ApisOf(u) = NamesIn(D, "api")
      BY SnapshotApis DEF u
    <3>2. ModelsAt(u, d.api) = NamesIn(PartAt(D, d.api), "model")
      BY <2>1, SnapshotModels DEF u
    <3>3. DetailsAt(u, d.api, d.model) = CellAt(D, d.api, d.model)
      BY <2>1, <2>2, SnapshotDetailsAt DEF u
    <3>4. QED
      BY <2>1, <2>2, <3>1, <3>2, <3>3
  <2>4. QED
    BY <1>1, <2>3
<1>3. ASSUME NEW d \in CollectUsageEvents(u) PROVE d \in D
  <2>1. PICK a \in ApisOf(u) : \E m \in ModelsAt(u, a) : d \in DetailsAt(u, a, m)
    BY <1>1
  <2>2. PICK m \in ModelsAt(u, a) : d \in DetailsAt(u, a, m)
    BY <2>1
  <2>3. a \in NamesIn(D, "api")
    BY SnapshotApis DEF u
  <2>4. m \in NamesIn(PartAt(D, a), "model")
    BY <2>3, SnapshotModels DEF u
  <2>5. d \in CellAt(D, a, m)
    BY <2>2, <2>3, <2>4, SnapshotDetailsAt DEF u
  <2>6. QED
    BY <2>5, CellIn
<1>4. QED
  BY <1>2, <1>3 DEF u

LEMMA CollectedAre ==
  ASSUME NEW usage
  PROVE  CollectUsageDetails(usage) = {Timed(d) : d \in CollectUsageEvents(usage)}
BY DEF CollectUsageDetails, CollectUsageEvents, Timed

LEMMA SnapshotCollected ==
  ASSUME NEW t
  PROVE  CollectUsageDetails(Snapshot(t)) = ImageOf(TimedOf(DOMAIN t), DOMAIN t)
<1>1. CollectUsageDetails(Snapshot(t)) = {Timed(d) : d \in CollectUsageEvents(Snapshot(t))}
  BY CollectedAre
<1>2. CollectUsageEvents(Snapshot(t)) = DOMAIN t
  BY SnapshotEvents
<1>3. QED
  BY <1>1, <1>2 DEF ImageOf, TimedOf

-----------------------------------------------------------------------------
(* Collecting and rebuilding keep details apart. *)

LEMMA TimedOneToOne ==
  ASSUME NEW D, DetailsOK(D)
  PROVE  OneToOne(TimedOf(D), D)
<1>1. \A d \in D : TimedOf(D)[d].id = d.id
  BY TimedIs DEF DetailsOK, TimedOf
<1>2. QED
  BY <1>1 DEF OneToOne, DetailsOK

LEMMA RebuiltOneToOne ==
  ASSUME NEW D, DetailsOK(D)
  PROVE  OneToOne(RebuiltOf(D), D)
<1>1. \A d \in D : RebuiltOf(D)[d].id = d.id
  BY RebuiltIs DEF DetailsOK, RebuiltOf
<1>2. QED
  BY <1>1 DEF OneToOne, DetailsOK

LEMMA ImageOK ==
  ASSUME NEW D, DetailsOK(D), NEW h, \A d \in D : h[d] \in DetailRecord /\ h[d].id = d.id
  PROVE  DetailsOK(ImageOf(h, D))
<1>1. IsFiniteSet(ImageOf(h, D))
  BY ImageFinite DEF ImageOf, DetailsOK
<1>2. ImageOf(h, D) \subseteq DetailRecord
  BY DEF ImageOf
<1>3. ASSUME NEW d \in ImageOf(h, D), NEW e \in ImageOf(h, D), d.id = e.id PROVE d = e
  <2>1. PICK x \in D : d = h[x]
    BY DEF ImageOf
  <2>2. PICK y \in D : e = h[y]
    BY DEF ImageOf
  <2>3. x = y
    BY <1>3, <2>1, <2>2 DEF DetailsOK
  <2>4. QED
    BY <2>1, <2>2, <2>3
<1>4. QED
  BY <1>1, <1>2, <1>3 DEF DetailsOK

LEMMA TimedOK ==
  ASSUME NEW D, DetailsOK(D)
  PROVE  DetailsOK(ImageOf(TimedOf(D), D))
<1>1. \A d \in D : TimedOf(D)[d] \in DetailRecord /\ TimedOf(D)[d].id = d.id
  BY TimedIs DEF DetailsOK, TimedOf
<1>2. QED
  BY <1>1, ImageOK

LEMMA RebuiltOK ==
  ASSUME NEW D, DetailsOK(D)
  PROVE  DetailsOK(ImageOf(RebuiltOf(D), D))
<1>1. \A d \in D : RebuiltOf(D)[d] \in DetailRecord /\ RebuiltOf(D)[d].id = d.id
  BY RebuiltIs DEF DetailsOK, RebuiltOf
<1>2. QED
  BY <1>1, ImageOK

LEMMA SubsetOK ==
  ASSUME NEW D, DetailsOK(D), NEW S, S \subseteq D
  PROVE  DetailsOK(S)
BY FS_Subset DEF DetailsOK

-----------------------------------------------------------------------------
(* The invariant of the recorded details. *)

FiguresInv ==
  /\ recorded \subseteq UsageDetail /\ IsFiniteSet(recorded)
  /\ clock \in Opening..Closing
  /\ \A d \in recorded : d.at <= clock

LEMMA FiguresInitInv == ASSUME FiguresInit PROVE FiguresInv
BY FS_EmptySet, DetailsAssumption DEF FiguresInit, FiguresInv

LEMMA FiguresStepInv == ASSUME FiguresInv, [FiguresNext]_figureVars PROVE FiguresInv'
<1>1. ASSUME PassTime PROVE FiguresInv'
  <2>1. clock \in Int /\ Opening \in Int /\ Closing \in Int
    BY DetailsAssumption DEF FiguresInv
  <2>2. clock' \in Opening..Closing
    BY <1>1, <2>1 DEF PassTime, FiguresInv
  <2>3. \A d \in recorded : d.at \in Int
    BY RecordedAreDetails DEF FiguresInv, DetailRecord
  <2>4. \A d \in recorded' : d.at <= clock'
    BY <1>1, <2>1, <2>3 DEF PassTime, FiguresInv
  <2>5. QED
    BY <1>1, <2>2, <2>4 DEF PassTime, FiguresInv
<1>2. ASSUME NEW d \in UsageDetail, RecordDetail(d) PROVE FiguresInv'
  <2>1. IsFiniteSet(recorded')
    BY <1>2, FS_AddElement DEF RecordDetail, FiguresInv
  <2>2. QED
    BY <1>2, <2>1 DEF RecordDetail, FiguresInv
<1>3. ASSUME UNCHANGED figureVars PROVE FiguresInv'
  BY <1>3 DEF figureVars, FiguresInv
<1>4. QED
  BY <1>1, <1>2, <1>3 DEF FiguresNext

LEMMA RecordedOK ==
  ASSUME FiguresInv
  PROVE  DetailsOK(recorded)
BY RecordedAreDetails, DetailsAssumption DEF FiguresInv, DetailsOK

(* The figures are of details of the declared kinds, and at ticks of the   *)
(* clock: RecordDetail and PassTime are the whole story of a payload.      *)
THEOREM FiguresTypeCorrect == FiguresSpec => []FiguresTypeOK
<1>1. FiguresInit => FiguresInv
  BY FiguresInitInv
<1>2. FiguresInv /\ [FiguresNext]_figureVars => FiguresInv'
  BY FiguresStepInv
<1>3. FiguresInv => FiguresTypeOK
  BY DEF FiguresInv, FiguresTypeOK
<1>4. QED
  BY <1>1, <1>2, <1>3, PTL DEF FiguresSpec

-----------------------------------------------------------------------------
(* The blocks of the health grid. *)

BlockOf(t) == t \div BlockTicks
Newest == clock \div BlockTicks + 1
BlockStart(i) == (Newest - Blocks + i - 1) * BlockTicks

LEMMA BlockIs ==
  ASSUME NEW t \in Int, NEW k \in Int
  PROVE  /\ BlockOf(t) \in Int
         /\ BlockOf(t) = k <=> t >= k * BlockTicks /\ t < k * BlockTicks + BlockTicks
         /\ BlockOf(t) >= k <=> t >= k * BlockTicks
<1>1. PICK B \in Nat \ {0} : B = BlockTicks
  BY DetailsAssumption
<1>2. PICK q \in Int, r \in 0 .. B - 1 : t = B * q + r
  <2>1. t \div B \in Int /\ t % B \in 0 .. B - 1
    OBVIOUS
  <2>2. t = B * (t \div B) + (t % B)
    OBVIOUS
  <2>3. QED
    BY <2>1, <2>2
<1>3. t \div B = q
  BY <1>1, <1>2
<1>4. PICK p \in Int : p = B * k
  BY <1>1
<1>5. k > q => p >= B * q + B
  <2>1. k > q => k >= q + 1
    OBVIOUS
  <2>2. ASSUME k >= q + 1 PROVE B * k >= B * (q + 1)
    BY <2>2
  <2>3. B * (q + 1) = B * q + B
    OBVIOUS
  <2>4. QED
    BY <1>4, <2>1, <2>2, <2>3
<1>6. k < q => p + B <= B * q
  <2>1. k < q => k + 1 <= q
    OBVIOUS
  <2>2. ASSUME k + 1 <= q PROVE B * (k + 1) <= B * q
    BY <2>2
  <2>3. B * (k + 1) = B * k + B
    OBVIOUS
  <2>4. QED
    BY <1>4, <2>1, <2>2, <2>3
<1>7. k = q => p = B * q
  BY <1>4
<1>8. PICK s \in Int : s = B * q
  OBVIOUS
<1>9. k * BlockTicks = p
  BY <1>1, <1>4
<1>10. QED
  BY <1>1, <1>2, <1>3, <1>5, <1>6, <1>7, <1>8, <1>9 DEF BlockOf

InBlock(D, i) == {d \in D : d.at >= BlockStart(i) /\ d.at < BlockStart(i) + BlockTicks}
Failed(D) == {d \in D : d.failed}
Succeeded(D) == {d \in D : ~d.failed}

(* What fails and what does not are all there is. *)
LEMMA OutcomesAddUp ==
  ASSUME NEW D, DetailsOK(D)
  PROVE  /\ Cardinality(Succeeded(D)) \in Nat /\ Cardinality(Failed(D)) \in Nat
         /\ Cardinality(Succeeded(D)) + Cardinality(Failed(D)) = Cardinality(D)
<1>1. IsFiniteSet(Succeeded(D)) /\ IsFiniteSet(Failed(D))
  BY FS_Subset DEF DetailsOK, Succeeded, Failed
<1>2. Succeeded(D) \cap Failed(D) = {} /\ Succeeded(D) \cup Failed(D) = D
  BY DEF Succeeded, Failed
<1>3. Cardinality(Succeeded(D) \cup Failed(D))
        = Cardinality(Succeeded(D)) + Cardinality(Failed(D)) - Cardinality(Succeeded(D) \cap Failed(D))
  BY <1>1, FS_Union
<1>4. Cardinality(Succeeded(D)) \in Nat /\ Cardinality(Failed(D)) \in Nat
      /\ Cardinality(Succeeded(D) \cap Failed(D)) = 0
  BY <1>1, <1>2, FS_CardinalityType, FS_EmptySet
<1>5. QED
  BY <1>2, <1>3, <1>4

LEMMA HealthIs ==
  /\ ServiceHealth(recorded, clock).totalSuccess = Cardinality(Succeeded(recorded))
  /\ ServiceHealth(recorded, clock).totalFailure = Cardinality(Failed(recorded))
  /\ ServiceHealth(recorded, clock).windowStart = BlockStart(1)
  /\ ServiceHealth(recorded, clock).windowEnd = Newest * BlockTicks
BY DEF ServiceHealth, Succeeded, Failed, BlockStart, Newest

LEMMA BlockCounts ==
  ASSUME NEW i \in 1..Blocks
  PROVE  /\ ServiceHealth(recorded, clock).blocks[i].success
              = Cardinality(Succeeded(InBlock(recorded, i)))
         /\ ServiceHealth(recorded, clock).blocks[i].failure
              = Cardinality(Failed(InBlock(recorded, i)))
BY DEF ServiceHealth, Succeeded, Failed, BlockStart, Newest, InBlock

LEMMA BlocksAre ==
  ASSUME FiguresInv
  PROVE  /\ Newest \in Int /\ Blocks \in Nat \ {0} /\ clock \in Nat
         /\ BlockOf(clock) = Newest - 1
<1>1. clock \in Nat /\ Blocks \in Nat \ {0}
  BY DetailsAssumption DEF FiguresInv
<1>2. BlockOf(clock) \in Int
  BY <1>1, BlockIs
<1>3. QED
  BY <1>1, <1>2 DEF Newest, BlockOf

LEMMA HealthDoesAgree == ASSUME FiguresInv PROVE HealthAgrees
<1> DEFINE health == ServiceHealth(recorded, clock)
           inGrid == {d \in recorded : d.at >= health.windowStart}
           counts == [i \in 1..Blocks |-> health.blocks[i].success + health.blocks[i].failure]
           first == Newest - Blocks
           key == [d \in recorded |-> BlockOf(d.at) - first + 1]
<1>0. first \in Int /\ Newest \in Int /\ Blocks \in Nat \ {0} /\ clock \in Nat
  BY BlocksAre
<1>1. BlockStart(1) = first * BlockTicks
  BY <1>0, first + 1 - 1 = first DEF BlockStart
<1>2. health.windowStart <= clock
  <2>1. BlockOf(clock) >= first
    BY BlocksAre
  <2>2. QED
    BY <1>0, <1>1, <2>1, BlockIs, HealthIs
<1>3. clock < health.windowEnd
  <2>1. ~(BlockOf(clock) >= Newest)
    BY BlocksAre
  <2>2. clock < Newest * BlockTicks
    <3>1. Newest * BlockTicks \in Int
      BY <1>0, DetailsAssumption
    <3>2. ~(clock >= Newest * BlockTicks)
      BY <1>0, <2>1, BlockIs
    <3>3. QED
      BY <1>0, <3>1, <3>2
  <2>3. QED
    BY <2>2, HealthIs
<1>4. ASSUME NEW d \in recorded
      PROVE  /\ d.at \in Int /\ key[d] \in Int
             /\ d \in inGrid => key[d] \in 1..Blocks
             /\ \A i \in 1..Blocks : d \in InBlock(recorded, i) <=> key[d] = i
  <2>1. d.at \in Int /\ d.at <= clock
    BY RecordedAreDetails DEF FiguresInv, DetailRecord
  <2>2. BlockOf(d.at) \in Int
    BY <1>0, <2>1, BlockIs
  <2>3. d \in inGrid => BlockOf(d.at) >= first
    <3>1. d \in inGrid => d.at >= first * BlockTicks
      BY <1>1, HealthIs
    <3>2. QED
      BY <1>0, <2>1, <3>1, BlockIs
  <2>4. BlockOf(d.at) < Newest
    <3>1. ~(d.at >= Newest * BlockTicks)
      <4>1. PICK w \in Int : w = Newest * BlockTicks
        BY <1>0, DetailsAssumption
      <4>2. clock < w
        BY <1>3, <4>1, HealthIs
      <4>3. QED
        BY <1>0, <2>1, <4>1, <4>2
    <3>2. QED
      BY <1>0, <2>1, <2>2, <3>1, BlockIs
  <2>5. ASSUME NEW i \in 1..Blocks PROVE d \in InBlock(recorded, i) <=> key[d] = i
    <3>1. first + i - 1 \in Int
      BY <1>0
    <3>2. BlockOf(d.at) = first + i - 1 <=>
             d.at >= (first + i - 1) * BlockTicks /\ d.at < (first + i - 1) * BlockTicks + BlockTicks
      BY <2>1, <3>1, BlockIs
    <3>3. BlockStart(i) = (first + i - 1) * BlockTicks
      BY DEF BlockStart
    <3>4. d \in InBlock(recorded, i) <=> BlockOf(d.at) = first + i - 1
      BY <3>2, <3>3 DEF InBlock
    <3>5. key[d] = i <=> BlockOf(d.at) = first + i - 1
      BY <1>0, <2>2
    <3>6. QED
      BY <3>4, <3>5
  <2>6. key[d] = BlockOf(d.at) - first + 1
    OBVIOUS
  <2> HIDE DEF key, first, inGrid
  <2>7. key[d] \in Int
    BY <1>0, <2>2, <2>6
  <2>8. d \in inGrid => key[d] \in 1..Blocks
    BY <1>0, <2>2, <2>3, <2>4, <2>6 DEF first
  <2>9. QED
    BY <2>1, <2>5, <2>7, <2>8
<1>5. DetailsOK(recorded) /\ IsFiniteSet(inGrid) /\ IsFiniteSet(1..Blocks)
  BY RecordedOK, FS_Subset, FS_Interval, <1>0 DEF DetailsOK
<1>6. SumOf(counts) = Cardinality(inGrid)
  <2> DEFINE ones == [d \in inGrid |-> 1]
  <2>1. SumOver(ones, inGrid) = Cardinality(inGrid)
    <3>1. \A d \in inGrid : ones[d] = 1
      OBVIOUS
    <3> HIDE DEF ones, inGrid
    <3>2. QED
      BY <1>5, <3>1, SumOverOnes
  <2>2. ASSUME NEW i \in 1..Blocks PROVE counts[i] = SumOver(ones, Fibre(inGrid, key, i))
    <3>1. Fibre(inGrid, key, i) = InBlock(recorded, i)
      <4>1. \A d \in recorded : d \in InBlock(recorded, i) => d \in inGrid
        <5> TAKE d \in recorded
        <5>1. d \in InBlock(recorded, i) => key[d] = i
          BY <1>4
        <5>2. key[d] = i => d.at >= first * BlockTicks
          <6>1. BlockOf(d.at) \in Int /\ d.at \in Int
            BY <1>0, <1>4, BlockIs
          <6>2. key[d] = i => BlockOf(d.at) >= first
            BY <1>0, <6>1
          <6>3. QED
            BY <1>0, <6>1, <6>2, BlockIs
        <5>3. QED
          BY <1>1, <5>1, <5>2, HealthIs
      <4>2. \A d \in InBlock(recorded, i) : d \in recorded
        BY DEF InBlock
      <4>3. \A d \in inGrid : d \in recorded
        OBVIOUS
      <4> HIDE DEF key, inGrid
      <4>4. QED
        BY <1>4, <4>1, <4>2, <4>3 DEF Fibre
    <3>2. DetailsOK(InBlock(recorded, i)) /\ InBlock(recorded, i) \subseteq inGrid
      <4>1. InBlock(recorded, i) \subseteq inGrid
        BY <3>1 DEF Fibre
      <4>2. InBlock(recorded, i) \subseteq recorded
        BY DEF InBlock
      <4>3. QED
        BY <4>1, <4>2, <1>5, SubsetOK
    <3>3. SumOver(ones, InBlock(recorded, i)) = Cardinality(InBlock(recorded, i))
      <4>1. \A d \in InBlock(recorded, i) : ones[d] = 1
        BY <3>2
      <4> HIDE DEF ones
      <4>2. QED
        BY <3>2, <4>1, SumOverOnes DEF DetailsOK
    <3>4. counts[i] = Cardinality(Succeeded(InBlock(recorded, i))) + Cardinality(Failed(InBlock(recorded, i)))
      BY BlockCounts
    <3> HIDE DEF counts, ones, inGrid, key
    <3>5. QED
      BY <3>1, <3>2, <3>3, <3>4, OutcomesAddUp
  <2>3. \A d \in inGrid : ones[d] \in Int /\ key[d] \in 1..Blocks
    BY <1>4
  <2>4. SumOf(counts) = SumOver(counts, 1..Blocks)
    BY SumOfIs
  <2>5. \A i \in 1..Blocks : counts[i] = SumOver(ones, Fibre(inGrid, key, i))
    BY <2>2
  <2> DEFINE places == 1..Blocks
  <2> HIDE DEF counts, ones, inGrid, key, places
  <2>6. SumOver(counts, places) = SumOver(ones, inGrid)
    <3>1. IsFiniteSet(places) /\ IsFiniteSet(inGrid)
      BY <1>5 DEF places
    <3>2. /\ \A d \in inGrid : ones[d] \in Int /\ key[d] \in places
          /\ \A i \in places : counts[i] = SumOver(ones, Fibre(inGrid, key, i))
      BY <2>3, <2>5 DEF places
    <3>3. QED
      BY <3>1, <3>2, SumByKey
  <2>7. QED
    BY <2>1, <2>4, <2>6 DEF places
<1>7. health.totalSuccess + health.totalFailure = Cardinality(recorded)
  BY <1>5, HealthIs, OutcomesAddUp
<1> HIDE DEF health, counts, inGrid
<1>8. QED
  BY <1>2, <1>3, <1>6, <1>7 DEF HealthAgrees, health, counts, inGrid

-----------------------------------------------------------------------------
(* The parts of a duration. *)

Seconds(ms) == ms \div 1000
PartValue(ms, i) ==
  (IF i = 1 THEN Seconds(ms) ELSE Seconds(ms) % DurationUnits[i - 1]) \div DurationUnits[i]
ShownParts(ms) == {i \in 1..4 : PartValue(ms, i) > 0}
PartsBefore(ms, i) == Cardinality({j \in ShownParts(ms) : j < i})
PartPlace(ms, k) == CHOOSE i \in ShownParts(ms) : PartsBefore(ms, i) = k - 1
PartCount(ms, units) == Smaller(NormalizeMaxUnits(units), Cardinality(ShownParts(ms)))

LEMMA PartsAre ==
  ASSUME NEW ms, NEW units
  PROVE  DurationParts(ms, units)
           = [k \in 1..PartCount(ms, units) |->
               [unit |-> DurationUnits[PartPlace(ms, k)], value |-> PartValue(ms, PartPlace(ms, k))]]
BY DEF DurationParts, PartCount, PartPlace, PartsBefore, ShownParts, PartValue, Seconds

LEMMA UnitsAre ==
  /\ DurationUnits[1] = 86400 /\ DurationUnits[2] = 3600
  /\ DurationUnits[3] = 60 /\ DurationUnits[4] = 1
BY DEF DurationUnits

(* The seconds, split at the units. *)
LEMMA PartValues ==
  ASSUME NEW ms \in Nat
  PROVE  /\ Seconds(ms) \in Nat
         /\ PartValue(ms, 1) = Seconds(ms) \div 86400
         /\ PartValue(ms, 2) = (Seconds(ms) % 86400) \div 3600
         /\ PartValue(ms, 3) = (Seconds(ms) % 3600) \div 60
         /\ PartValue(ms, 4) = Seconds(ms) % 60
<1>1. Seconds(ms) \in Nat
  BY DEF Seconds
<1>2. PartValue(ms, 1) = Seconds(ms) \div 86400
  BY UnitsAre DEF PartValue
<1>3. PartValue(ms, 2) = (Seconds(ms) % 86400) \div 3600
  BY UnitsAre DEF PartValue
<1>4. PartValue(ms, 3) = (Seconds(ms) % 3600) \div 60
  BY UnitsAre DEF PartValue
<1>5. PartValue(ms, 4) = Seconds(ms) % 60
  BY <1>1, UnitsAre DEF PartValue
<1>6. QED
  BY <1>1, <1>2, <1>3, <1>4, <1>5

LEMMA PartNat ==
  ASSUME NEW ms \in Nat, NEW i \in 1..4
  PROVE  PartValue(ms, i) \in Nat
<1>1. PICK s \in Nat : s = Seconds(ms)
  BY PartValues, SMT
<1>2. i = 1 \/ i = 2 \/ i = 3 \/ i = 4
  BY SMT
<1>3. CASE i = 1
  BY <1>1, <1>3, PartValues, SMT
<1>4. CASE i = 2
  BY <1>1, <1>4, PartValues, SMT
<1>5. CASE i = 3
  BY <1>1, <1>5, PartValues, SMT
<1>6. CASE i = 4
  BY <1>1, <1>6, PartValues, SMT
<1>7. QED
  BY <1>2, <1>3, <1>4, <1>5, <1>6

(* What the parts up to one of them hold, and what is left. *)
UpTo(ms, i) ==
  PartValue(ms, 1) * 86400 + (IF i >= 2 THEN PartValue(ms, 2) * 3600 ELSE 0)
  + (IF i >= 3 THEN PartValue(ms, 3) * 60 ELSE 0) + (IF i >= 4 THEN PartValue(ms, 4) ELSE 0)

LEMMA UpToIs ==
  ASSUME NEW ms \in Nat, NEW i \in 1..4
  PROVE  /\ UpTo(ms, i) \in Nat /\ UpTo(ms, i) <= Seconds(ms)
         /\ Seconds(ms) < UpTo(ms, i) + DurationUnits[i]
<1>1. PICK s \in Nat : s = Seconds(ms)
  BY PartValues, SMT
<1>2. /\ PartValue(ms, 1) \in Nat /\ PartValue(ms, 2) \in Nat
      /\ PartValue(ms, 3) \in Nat /\ PartValue(ms, 4) \in Nat
  BY PartNat, 1 \in 1..4, 2 \in 1..4, 3 \in 1..4, 4 \in 1..4
<1>3. PICK a \in Nat : a = PartValue(ms, 1)
  BY <1>2, SMT
<1>4. PICK b \in Nat : b = PartValue(ms, 2)
  BY <1>2, SMT
<1>5. PICK c \in Nat : c = PartValue(ms, 3)
  BY <1>2, SMT
<1>6. PICK d \in Nat : d = PartValue(ms, 4)
  BY <1>2, SMT
<1>7. PICK x \in Nat : x = s % 86400 /\ x < 86400
  BY SMT
<1>8. s = a * 86400 + x
  <2>1. a = s \div 86400
    BY <1>1, <1>3, PartValues, SMT
  <2>2. QED
    BY <1>7, <2>1, SMT
<1>9. PICK y \in Nat : y = x % 3600 /\ y < 3600
  BY <1>7, SMT
<1>10. x = b * 3600 + y
  <2>1. b = x \div 3600
    BY <1>1, <1>4, <1>7, PartValues, SMT
  <2>2. QED
    BY <1>9, <2>1, SMT
<1>11. s % 3600 = y
  <2>1. PICK q \in Nat : q = 24 * a + b
    BY SMT
  <2>2. s = 3600 * q + y
    BY <1>8, <1>10, <2>1, SMT
  <2>3. QED
    BY <1>9, <2>2, SMT
<1>12. PICK z \in Nat : z = y % 60 /\ z < 60
  BY <1>9, SMT
<1>13. y = c * 60 + z
  <2>1. c = y \div 60
    BY <1>1, <1>5, <1>11, PartValues, SMT
  <2>2. QED
    BY <1>12, <2>1, SMT
<1>14. s % 60 = z
  <2>1. PICK q \in Nat : q = 1440 * a + 60 * b + c
    BY SMT
  <2>2. s = 60 * q + z
    BY <1>8, <1>10, <1>13, <2>1, SMT
  <2>3. QED
    BY <1>12, <2>2, SMT
<1>15. d = z
  BY <1>1, <1>6, <1>14, PartValues, SMT
<1>16. UpTo(ms, i) = a * 86400 + (IF i >= 2 THEN b * 3600 ELSE 0)
                    + (IF i >= 3 THEN c * 60 ELSE 0) + (IF i >= 4 THEN d ELSE 0)
  BY <1>3, <1>4, <1>5, <1>6, SMT DEF UpTo
<1>17. CASE i = 1
  <2>1. UpTo(ms, i) = a * 86400 /\ DurationUnits[i] = 86400
    BY <1>16, <1>17, UnitsAre, SMT
  <2>2. a * 86400 <= s /\ s < a * 86400 + 86400
    BY <1>7, <1>8, SMT
  <2>3. QED
    BY <1>1, <2>1, <2>2, SMT
<1>18. CASE i = 2
  <2>1. UpTo(ms, i) = a * 86400 + b * 3600 /\ DurationUnits[i] = 3600
    BY <1>16, <1>18, UnitsAre, SMT
  <2>2. a * 86400 + b * 3600 <= s /\ s < (a * 86400 + b * 3600) + 3600
    BY <1>8, <1>9, <1>10, SMT
  <2>3. QED
    BY <1>1, <2>1, <2>2, SMT
<1>19. CASE i = 3
  <2>1. UpTo(ms, i) = a * 86400 + b * 3600 + c * 60 /\ DurationUnits[i] = 60
    BY <1>16, <1>19, UnitsAre, SMT
  <2>2. a * 86400 + b * 3600 + c * 60 <= s /\ s < (a * 86400 + b * 3600 + c * 60) + 60
    BY <1>8, <1>10, <1>12, <1>13, SMT
  <2>3. QED
    BY <1>1, <2>1, <2>2, SMT
<1>20. CASE i = 4
  <2>1. UpTo(ms, i) = a * 86400 + b * 3600 + c * 60 + d /\ DurationUnits[i] = 1
    BY <1>16, <1>20, UnitsAre, SMT
  <2>2. s = a * 86400 + b * 3600 + c * 60 + d
    BY <1>8, <1>10, <1>13, <1>15, SMT
  <2>3. QED
    BY <1>1, <2>1, <2>2, SMT
<1>21. QED
  BY <1>17, <1>18, <1>19, <1>20, SMT

-----------------------------------------------------------------------------
(* Rank in a finite set of numbers. *)
LEMMA RankLess ==
  ASSUME NEW P, IsFiniteSet(P), P \subseteq Int, NEW i \in P, NEW j \in P, i < j
  PROVE  /\ Cardinality({k \in P : k < i}) \in Nat /\ Cardinality({k \in P : k < j}) \in Nat
         /\ Cardinality({k \in P : k < i}) < Cardinality({k \in P : k < j})
<1> DEFINE A == {k \in P : k < i}
           B == {k \in P : k < j}
<1>1. IsFiniteSet(A) /\ IsFiniteSet(B)
  BY FS_Subset
<1>2. A \subseteq B /\ i \in B /\ i \notin A
  <2>1. i \in Int /\ j \in Int
    OBVIOUS
  <2>2. ASSUME NEW k \in A PROVE k \in B
    <3>1. k \in P /\ k \in Int /\ k < i
      OBVIOUS
    <3>2. k < j
      BY <2>1, <3>1
    <3>3. QED
      BY <3>1, <3>2
  <2>3. i \in B /\ ~(i < i)
    BY <2>1
  <2>4. i \notin A
    BY <2>3
  <2> HIDE DEF A, B
  <2>5. QED
    BY <2>2, <2>3, <2>4
<1> HIDE DEF A, B
<1>3. Cardinality(A) <= Cardinality(B) /\ (Cardinality(A) = Cardinality(B) => A = B)
  BY <1>1, <1>2, FS_Subset
<1>4. Cardinality(A) \in Nat /\ Cardinality(B) \in Nat
  BY <1>1, FS_CardinalityType
<1>5. Cardinality(A) < Cardinality(B)
  BY <1>2, <1>3, <1>4
<1>6. QED
  BY <1>4, <1>5 DEF A, B

LEMMA SumOverInterval ==
  ASSUME NEW f, NEW n \in Nat \ {0}, \A i \in 1..n : f[i] \in Int
  PROVE  SumOver(f, 1..n) = f[n] + SumOver(f, 1..(n - 1))
<1>1. IsFiniteSet(1..n) /\ n \in 1..n
  BY FS_Interval
<1>2. (1..n) \ {n} = 1..(n - 1)
  OBVIOUS
<1>3. SumOver(f, 1..n) = f[n] + SumOver(f, (1..n) \ {n})
  BY <1>1, SumOverRemove
<1>4. QED
  BY <1>2, <1>3

PartSeconds(ms) == [i \in 1..4 |-> DurationUnits[i] * PartValue(ms, i)]

LEMMA PartSecondsAre ==
  ASSUME NEW ms \in Nat
  PROVE  /\ PartSeconds(ms)[1] = PartValue(ms, 1) * 86400
         /\ PartSeconds(ms)[2] = PartValue(ms, 2) * 3600
         /\ PartSeconds(ms)[3] = PartValue(ms, 3) * 60
         /\ PartSeconds(ms)[4] = PartValue(ms, 4)
         /\ \A i \in 1..4 : PartSeconds(ms)[i] \in Nat
<1>1. \A i \in 1..4 : PartValue(ms, i) \in Nat
  BY PartNat
<1>2. \A i \in 1..4 : PartSeconds(ms)[i] = DurationUnits[i] * PartValue(ms, i)
  BY DEF PartSeconds
<1>3. PICK a \in Nat, b \in Nat, c \in Nat, d \in Nat :
        a = PartValue(ms, 1) /\ b = PartValue(ms, 2) /\ c = PartValue(ms, 3) /\ d = PartValue(ms, 4)
  <2>1. PartValue(ms, 1) \in Nat /\ PartValue(ms, 2) \in Nat /\ PartValue(ms, 3) \in Nat
        /\ PartValue(ms, 4) \in Nat
    BY <1>1, 1 \in 1..4, 2 \in 1..4, 3 \in 1..4, 4 \in 1..4
  <2>2. QED
    BY <2>1, SMT
<1>4. /\ PartSeconds(ms)[1] = 86400 * a /\ PartSeconds(ms)[2] = 3600 * b
      /\ PartSeconds(ms)[3] = 60 * c /\ PartSeconds(ms)[4] = 1 * d
  BY <1>2, <1>3, UnitsAre, SMT
<1>5. /\ PartSeconds(ms)[1] = a * 86400 /\ PartSeconds(ms)[2] = b * 3600
      /\ PartSeconds(ms)[3] = c * 60 /\ PartSeconds(ms)[4] = d
  BY <1>4, SMT
<1>6. \A i \in 1..4 : PartSeconds(ms)[i] \in Nat
  <2> TAKE i \in 1..4
  <2>1. i = 1 \/ i = 2 \/ i = 3 \/ i = 4
    BY SMT
  <2>2. QED
    BY <1>5, <2>1, SMT
<1>7. QED
  BY <1>3, <1>5, <1>6

LEMMA UpToSum ==
  ASSUME NEW ms \in Nat, NEW n \in 1..4
  PROVE  SumOver(PartSeconds(ms), 1..n) = UpTo(ms, n)
<1> DEFINE f == PartSeconds(ms)
           S(k) == SumOver(f, 1..k)
<1>1. \A i \in 1..4 : f[i] \in Nat
  BY PartSecondsAre
<1>2. \A k \in 1..4 : S(k) = f[k] + S(k - 1)
  <2> TAKE k \in 1..4
  <2>1. k \in Nat \ {0} /\ \A i \in 1..k : f[i] \in Int
    BY <1>1, SMT
  <2> HIDE DEF f
  <2>2. QED
    BY <2>1, SumOverInterval
<1>3. S(0) = 0
  <2>1. 1..0 = {}
    BY SMT
  <2>2. QED
    BY <2>1, SumOverEmpty
<1> HIDE DEF f, S
<1>4. /\ f[1] \in Nat /\ f[2] \in Nat /\ f[3] \in Nat /\ f[4] \in Nat
  BY <1>1, 1 \in 1..4, 2 \in 1..4, 3 \in 1..4, 4 \in 1..4
<1>5. /\ S(1) = f[1] + S(0) /\ S(2) = f[2] + S(1) /\ S(3) = f[3] + S(2) /\ S(4) = f[4] + S(3)
  BY <1>2, 1 - 1 = 0, 2 - 1 = 1, 3 - 1 = 2, 4 - 1 = 3, 1 \in 1..4, 2 \in 1..4, 3 \in 1..4, 4 \in 1..4
<1>6. /\ f[1] = PartValue(ms, 1) * 86400 /\ f[2] = PartValue(ms, 2) * 3600
      /\ f[3] = PartValue(ms, 3) * 60 /\ f[4] = PartValue(ms, 4)
  BY PartSecondsAre DEF f
<1>7. UpTo(ms, n) = f[1] + (IF n >= 2 THEN f[2] ELSE 0) + (IF n >= 3 THEN f[3] ELSE 0)
                    + (IF n >= 4 THEN f[4] ELSE 0)
  BY <1>6, SMT DEF UpTo
<1>8. n = 1 \/ n = 2 \/ n = 3 \/ n = 4
  BY SMT
<1>9. S(n) = UpTo(ms, n)
  BY <1>3, <1>4, <1>5, <1>7, <1>8, SMT
<1>10. QED
  BY <1>9 DEF S, f

LEMMA UnitsShown ==
  ASSUME NEW ms \in Nat, Seconds(ms) >= 60, NEW units \in {Missing} \cup 0..5
  PROVE  /\ PartCount(ms, units) \in Nat \ {0}
         /\ PartCount(ms, units) <= Cardinality(ShownParts(ms))
         /\ Cardinality(ShownParts(ms)) \in Nat /\ ShownParts(ms) \in SUBSET (1..4)
<1>1. ShownParts(ms) \in SUBSET (1..4) /\ IsFiniteSet(ShownParts(ms))
  <2>1. ShownParts(ms) \in SUBSET (1..4)
    BY DEF ShownParts
  <2>2. IsFiniteSet(1..4)
    BY PlacesFinite, 4 \in Nat, Zenon
  <2>3. QED
    BY <2>1, <2>2, FS_Subset
<1>2. ShownParts(ms) # {}
  <2>1. SUFFICES ASSUME ShownParts(ms) = {} PROVE FALSE
    OBVIOUS
  <2>2. \A i \in 1..4 : PartValue(ms, i) = 0
    <3>1. \A i \in 1..4 : ~(PartValue(ms, i) > 0)
      BY <2>1 DEF ShownParts
    <3>2. \A i \in 1..4 : PartValue(ms, i) \in Nat
      BY PartNat
    <3>3. QED
      BY <3>1, <3>2, SMT
  <2>3. PartValue(ms, 1) = 0 /\ PartValue(ms, 2) = 0 /\ PartValue(ms, 3) = 0
    BY <2>2, 1 \in 1..4, 2 \in 1..4, 3 \in 1..4
  <2>4. UpTo(ms, 3) = 0
    BY <2>3, SMT DEF UpTo
  <2>5. Seconds(ms) < 0 + 60
    BY <2>4, 3 \in 1..4, UpToIs, UnitsAre
  <2>6. QED
    BY <2>5, PartValues, SMT
<1>3. Cardinality(ShownParts(ms)) \in Nat /\ Cardinality(ShownParts(ms)) # 0
  BY <1>1, <1>2, FS_CardinalityType, FS_EmptySet
<1>4. NormalizeMaxUnits(units) \in 1..4
  BY FiguresAssumption, SMT DEF NormalizeMaxUnits, Smaller
<1>5. PICK c \in Nat \ {0} : c = Cardinality(ShownParts(ms))
  BY <1>3
<1>6. PICK n \in 1..4 : n = NormalizeMaxUnits(units)
  BY <1>4
<1>7. PartCount(ms, units) = IF n <= c THEN n ELSE c
  BY <1>5, <1>6 DEF PartCount, Smaller
<1>8. PartCount(ms, units) \in Nat \ {0} /\ PartCount(ms, units) <= c
  BY <1>7, SMT
<1>9. QED
  BY <1>1, <1>3, <1>5, <1>8

LEMMA PartPlaceIs ==
  ASSUME NEW ms \in Nat, Seconds(ms) >= 60, NEW units \in {Missing} \cup 0..5,
         NEW k \in 1..PartCount(ms, units)
  PROVE  PartPlace(ms, k) \in ShownParts(ms) /\ PartsBefore(ms, PartPlace(ms, k)) = k - 1
<1>1. k \in 1..Cardinality(ShownParts(ms)) /\ ShownParts(ms) \in SUBSET (1..4)
  <2>1. PICK m \in Nat, c \in Nat : m = PartCount(ms, units) /\ c = Cardinality(ShownParts(ms)) /\ m <= c
    BY UnitsShown
  <2>2. k \in 1..c
    BY <2>1, SMT
  <2>3. QED
    BY <2>1, <2>2, UnitsShown
<1>2. \E i \in ShownParts(ms) : Cardinality({j \in ShownParts(ms) : j < i}) = k - 1
  BY <1>1, 4 \in Nat, PlacesOnto
<1>3. QED
  BY <1>2 DEF PartPlace, PartsBefore

LEMMA PlacesApart ==
  ASSUME NEW ms \in Nat, NEW i \in ShownParts(ms), NEW j \in ShownParts(ms), i < j
  PROVE  PartsBefore(ms, i) \in Nat /\ PartsBefore(ms, j) \in Nat
         /\ PartsBefore(ms, i) < PartsBefore(ms, j)
<1>1. IsFiniteSet(ShownParts(ms)) /\ ShownParts(ms) \subseteq Int
  <2>1. ShownParts(ms) \in SUBSET (1..4)
    BY DEF ShownParts
  <2>2. IsFiniteSet(1..4)
    BY PlacesFinite, 4 \in Nat, Zenon
  <2>3. 1..4 \subseteq Int
    BY SMT
  <2>4. QED
    BY <2>1, <2>2, <2>3, FS_Subset
<1>2. QED
  BY <1>1, RankLess DEF PartsBefore

(* The parts that are read hold everything up to the last of them. *)
LastUnit(parts) == parts[Len(parts)].unit
LastPart(ms, units) == PartPlace(ms, PartCount(ms, units))

LEMMA PlacesShown ==
  ASSUME NEW ms \in Nat, Seconds(ms) >= 60, NEW units \in {Missing} \cup 0..5,
         NEW i \in ShownParts(ms)
  PROVE  i <= LastPart(ms, units) <=> \E k \in 1..PartCount(ms, units) : PartPlace(ms, k) = i
<1> DEFINE m == PartCount(ms, units)
           last == LastPart(ms, units)
<1>1. m \in Nat \ {0} /\ m \in 1..m
  BY UnitsShown
<1>2. last \in ShownParts(ms) /\ PartsBefore(ms, last) = m - 1
  BY <1>1, PartPlaceIs DEF LastPart
<1>3. \A j \in ShownParts(ms) : j \in Int
  BY DEF ShownParts
<1>4. ASSUME NEW k \in 1..m, PartPlace(ms, k) = i PROVE i <= last
  <2>1. PartsBefore(ms, i) = k - 1
    BY <1>4, PartPlaceIs
  <2>2. SUFFICES ASSUME last < i PROVE FALSE
    BY <1>2, <1>3
  <2>3. PartsBefore(ms, last) < PartsBefore(ms, i)
    BY <1>2, <2>2, PlacesApart
  <2> HIDE DEF m, last
  <2>4. m - 1 < k - 1
    BY <1>2, <2>1, <2>3
  <2>5. QED
    BY <1>1, <2>4
<1>5. ASSUME i <= last PROVE \E k \in 1..m : PartPlace(ms, k) = i
  <2>1. i < last \/ i = last
    BY <1>2, <1>3, <1>5
  <2>2. CASE i = last
    BY <1>1, <2>2 DEF LastPart
  <2>3. CASE i < last
    <3>1. PartsBefore(ms, i) \in Nat /\ PartsBefore(ms, i) < PartsBefore(ms, last)
      BY <1>2, <2>3, PlacesApart
    <3>2. PICK b \in Nat : b = PartsBefore(ms, i)
      BY <3>1
    <3> HIDE DEF m, last
    <3>3. b + 1 \in 1..m
      BY <1>1, <1>2, <3>1, <3>2
    <3>4. PICK j : j = PartPlace(ms, b + 1)
      OBVIOUS
    <3>5. j \in ShownParts(ms) /\ PartsBefore(ms, j) = b
      <4>1. PartsBefore(ms, j) = (b + 1) - 1 /\ j \in ShownParts(ms)
        BY <3>3, <3>4, PartPlaceIs DEF m
      <4>2. QED
        BY <4>1
    <3>6. ~(i < j)
      <4>1. i < j => PartsBefore(ms, i) < PartsBefore(ms, j)
        BY <3>5, PlacesApart
      <4>2. QED
        BY <3>2, <3>5, <4>1
    <3>7. ~(j < i)
      <4>1. j < i => PartsBefore(ms, j) < PartsBefore(ms, i)
        BY <3>5, PlacesApart
      <4>2. QED
        BY <3>2, <3>5, <4>1
    <3>8. i = j
      BY <1>3, <3>5, <3>6, <3>7
    <3>9. QED
      BY <3>3, <3>4, <3>8
  <2>4. QED
    BY <2>1, <2>2, <2>3
<1>6. QED
  BY <1>4, <1>5

LEMMA DurationPartsSum ==
  ASSUME NEW ms \in Nat, Seconds(ms) >= 60, NEW units \in {Missing} \cup 0..5
  PROVE  /\ LastPart(ms, units) \in 1..4
         /\ LastUnit(DurationParts(ms, units)) = DurationUnits[LastPart(ms, units)]
         /\ PartsRead(DurationParts(ms, units)) = 1000 * UpTo(ms, LastPart(ms, units))
<1> DEFINE m == PartCount(ms, units)
           last == LastPart(ms, units)
           parts == DurationParts(ms, units)
           K == 1..m
           p == [k \in K |-> PartPlace(ms, k)]
           f == PartSeconds(ms)
           g == [k \in DOMAIN parts |-> parts[k].unit * parts[k].value]
<1>1. m \in Nat \ {0} /\ m \in K /\ IsFiniteSet(K)
  <2>1. m \in Nat \ {0}
    BY UnitsShown
  <2>2. IsFiniteSet(K)
    BY <2>1, PlacesFinite
  <2>3. QED
    BY <2>1, <2>2
<1>2. \A i \in ShownParts(ms) : i \in 1..4
  BY DEF ShownParts
<1>3. \A k \in K : p[k] \in ShownParts(ms) /\ PartsBefore(ms, p[k]) = k - 1
  BY PartPlaceIs
<1>4. last = p[m] /\ last \in 1..4
  BY <1>1, <1>2, <1>3 DEF LastPart
<1>5. /\ DOMAIN parts = K
      /\ \A k \in K : parts[k].unit = DurationUnits[p[k]] /\ parts[k].value = PartValue(ms, p[k])
  BY PartsAre
<1>6. Len(parts) = m
  <2>1. parts = [k \in K |-> [unit |-> DurationUnits[PartPlace(ms, k)],
                              value |-> PartValue(ms, PartPlace(ms, k))]]
    BY PartsAre
  <2> HIDE DEF parts
  <2>2. QED
    BY <1>1, <2>1
<1>7. parts[Len(parts)].unit = DurationUnits[last]
  BY <1>1, <1>4, <1>5, <1>6
<1>8. DOMAIN g = K /\ \A k \in K : g[k] = f[p[k]]
  <2>1. \A i \in 1..4 : f[i] = DurationUnits[i] * PartValue(ms, i)
    BY DEF PartSeconds
  <2>2. \A k \in K : g[k] = parts[k].unit * parts[k].value
    BY <1>5
  <2> HIDE DEF g, parts, f, p, K
  <2>3. \A k \in K : g[k] = DurationUnits[p[k]] * PartValue(ms, p[k])
    BY <1>5, <2>2
  <2>4. \A k \in K : p[k] \in 1..4
    BY <1>2, <1>3
  <2>5. DOMAIN g = K
    BY <1>5 DEF g
  <2>6. QED
    BY <2>1, <2>3, <2>4, <2>5
<1>9. OneToOne(p, K)
  <2>1. \A k, j \in K : p[k] = p[j] => k - 1 = j - 1
    BY <1>3
  <2>2. \A k, j \in K : k - 1 = j - 1 => k = j
    BY <1>1
  <2> HIDE DEF p, K
  <2>3. QED
    BY <2>1, <2>2 DEF OneToOne
<1>10. \A i \in 1..4 : f[i] \in Nat
  BY PartSecondsAre
<1>11. SumOf(g) = SumOver(g, K)
  BY <1>8, SumOfIs
<1>12. SumOver(f, ImageOf(p, K)) = SumOver(g, K)
  <2>1. \A k \in K : f[p[k]] \in Int /\ g[k] = f[p[k]]
    BY <1>2, <1>3, <1>8, <1>10
  <2> HIDE DEF p, K, f, g
  <2>2. QED
    BY <1>1, <1>9, <2>1, SumOverImage
<1>13. /\ ImageOf(p, K) \in SUBSET (1..last)
       /\ \A i \in 1..last \ ImageOf(p, K) : f[i] = 0
  <2>1. \A i \in ShownParts(ms) : i <= last <=> \E k \in K : p[k] = i
    <3> TAKE i \in ShownParts(ms)
    <3>1. i <= last <=> \E k \in K : PartPlace(ms, k) = i
      BY PlacesShown
    <3>2. \A k \in K : p[k] = PartPlace(ms, k)
      OBVIOUS
    <3> HIDE DEF p, K
    <3>3. QED
      BY <3>1, <3>2
  <2>2. \A i \in 1..4 : i \notin ShownParts(ms) => f[i] = 0
    <3> TAKE i \in 1..4
    <3>1. i \notin ShownParts(ms) => PartValue(ms, i) = 0
      BY PartNat DEF ShownParts
    <3>2. PICK u \in Nat : u = DurationUnits[i]
      <4>1. i = 1 \/ i = 2 \/ i = 3 \/ i = 4
        BY SMT
      <4>2. DurationUnits[i] \in Nat
        BY <4>1, UnitsAre, SMT
      <4>3. QED
        BY <4>2
    <3>3. f[i] = u * PartValue(ms, i)
      BY <3>2 DEF PartSeconds
    <3>4. QED
      BY <3>1, <3>2, <3>3, SMT
  <2> HIDE DEF p, K, f, last
  <2>3. 1..last \subseteq 1..4 /\ \A i \in 1..4 : i \in 1..last <=> i <= last
    BY <1>4, SMT
  <2>4. \A i \in ImageOf(p, K) : i \in 1..last
    BY <1>2, <1>3, <2>1, <2>3 DEF ImageOf
  <2>5. \A i \in 1..last : i \in ShownParts(ms) => i \in ImageOf(p, K)
    BY <2>1, <2>3 DEF ImageOf
  <2>6. QED
    BY <2>2, <2>3, <2>4, <2>5
<1>14. SumOver(f, 1..last) = SumOver(f, ImageOf(p, K))
  <2>1. IsFiniteSet(1..last) /\ \A i \in ImageOf(p, K) : f[i] \in Int
    <3>1. IsFiniteSet(1..last)
      BY <1>4, PlacesFinite
    <3> HIDE DEF p, K, f, last
    <3>2. 1..last \subseteq 1..4
      BY <1>4, SMT
    <3>3. \A i \in 1..4 : f[i] \in Int
      BY <1>10
    <3>4. QED
      BY <1>13, <3>1, <3>2, <3>3
  <2> HIDE DEF p, K, f, last
  <2>2. QED
    BY <1>13, <2>1, SumOverSupport
<1>15. SumOver(f, 1..last) = UpTo(ms, last)
  BY <1>4, UpToSum
<1>16. SumOf(g) = UpTo(ms, last)
  BY <1>11, <1>12, <1>14, <1>15
<1>17. PartsRead(parts) = 1000 * SumOf(g)
  BY DEF PartsRead
<1>18. QED
  BY <1>4, <1>7, <1>16, <1>17 DEF LastUnit

LEMMA RoundedClose ==
  ASSUME NEW ms \in Nat, NEW decimals \in {1, 2}
  PROVE  RoundTo(decimals, ms) - ms <= 50 /\ ms - RoundTo(decimals, ms) <= 50
<1>1. PICK unit \in {10, 100} : unit = <<1000, 100, 10, 1>>[decimals + 1]
  <2>1. CASE decimals = 1
    <3>1. <<1000, 100, 10, 1>>[2] = 100 /\ decimals + 1 = 2
      BY <2>1
    <3>2. QED
      BY <3>1
  <2>2. CASE decimals = 2
    <3>1. <<1000, 100, 10, 1>>[3] = 10 /\ decimals + 1 = 3
      BY <2>2
    <3>2. QED
      BY <3>1
  <2>3. QED
    BY <2>1, <2>2
<1>2. RoundTo(decimals, ms) = ((2 * ms + unit) \div (2 * unit)) * unit
  BY <1>1 DEF RoundTo
<1>3. CASE unit = 10
  <2>1. PICK q \in Nat : q = (2 * ms + 10) \div 20
    BY SMT
  <2>2. RoundTo(decimals, ms) = q * 10
    BY <1>2, <1>3, <2>1, SMT
  <2>3. 20 * q <= 2 * ms + 10 /\ 2 * ms + 10 < 20 * q + 20
    BY <2>1, SMT
  <2>4. QED
    BY <2>2, <2>3, SMT
<1>4. CASE unit = 100
  <2>1. PICK q \in Nat : q = (2 * ms + 100) \div 200
    BY SMT
  <2>2. RoundTo(decimals, ms) = q * 100
    BY <1>2, <1>4, <2>1, SMT
  <2>3. 200 * q <= 2 * ms + 100 /\ 2 * ms + 100 < 200 * q + 200
    BY <2>1, SMT
  <2>4. QED
    BY <2>2, <2>3, SMT
<1>5. QED
  BY <1>3, <1>4

LEMMA FormatIs ==
  ASSUME NEW ms \in Nat, NEW units
  PROVE  FormatDuration(ms, units, Missing)
           = IF ms < 1000 THEN ms
             ELSE IF ms < 60000 THEN RoundTo(SecondDecimals(ms \div 1000, Missing), ms)
             ELSE PartsRead(DurationParts(ms, units))
<1>1. ms # Missing /\ ~(ms < 0)
  BY FiguresAssumption
<1>2. QED
  BY <1>1 DEF FormatDuration

LEMMA ShortDuration ==
  ASSUME NEW ms \in Nat, ms < 60000, NEW units
  PROVE  /\ FormatDuration(ms, units, Missing) - ms <= 50
         /\ ms - FormatDuration(ms, units, Missing) <= 50
<1>1. CASE ms < 1000
  <2>1. FormatDuration(ms, units, Missing) = ms
    BY <1>1, FormatIs
  <2>2. QED
    BY <2>1, SMT
<1>2. CASE ~(ms < 1000)
  <2>1. PICK decimals \in {1, 2} : decimals = SecondDecimals(ms \div 1000, Missing)
    BY DEF SecondDecimals
  <2>2. ms >= 1000
    BY <1>2, SMT
  <2>3. FormatDuration(ms, units, Missing) = RoundTo(decimals, ms)
    BY <2>1, <2>2, FormatIs
  <2>4. QED
    BY <2>3, RoundedClose
<1>3. QED
  BY <1>1, <1>2

LongReads(ms, units) ==
  LET read == FormatDuration(ms, units, Missing)
      parts == DurationParts(ms, units)
  IN  read <= ms /\ ms < read + 1000 * parts[Len(parts)].unit

LEMMA LongDuration ==
  ASSUME NEW ms \in Nat, ms >= 60000, NEW units \in {Missing} \cup 0..5
  PROVE  LongReads(ms, units)
<1> DEFINE read == FormatDuration(ms, units, Missing)
           parts == DurationParts(ms, units)
           last == LastPart(ms, units)
<1>1. read = PartsRead(parts)
  <2>1. ~(ms < 1000) /\ ~(ms < 60000)
    BY SMT
  <2>2. QED
    BY <2>1, FormatIs
<1>2. PICK s \in Nat : s = Seconds(ms) /\ s >= 60 /\ 1000 * s <= ms /\ ms < 1000 * s + 1000
  BY SMT DEF Seconds
<1>3. Seconds(ms) >= 60
  BY <1>2
<1>4. /\ last \in 1..4 /\ LastUnit(parts) = DurationUnits[last]
      /\ read = 1000 * UpTo(ms, last)
  <2>1. LastPart(ms, units) \in 1..4
    BY <1>3, DurationPartsSum
  <2>2. LastUnit(DurationParts(ms, units)) = DurationUnits[LastPart(ms, units)]
    BY <1>3, DurationPartsSum
  <2>3. PartsRead(DurationParts(ms, units)) = 1000 * UpTo(ms, LastPart(ms, units))
    BY <1>3, DurationPartsSum
  <2>4. QED
    BY <1>1, <2>1, <2>2, <2>3
<1> HIDE DEF read, parts, last
<1>5. PICK t \in Nat : t = UpTo(ms, last) /\ t <= s /\ s < t + DurationUnits[last]
  <2>1. /\ UpTo(ms, last) \in Nat /\ UpTo(ms, last) <= Seconds(ms)
        /\ Seconds(ms) < UpTo(ms, last) + DurationUnits[last]
    <3>1. last \in 1..4
      BY <1>4
    <3>2. last \in 1..4 => UpTo(ms, last) \in Nat
      BY UpToIs
    <3>3. last \in 1..4 => UpTo(ms, last) <= Seconds(ms)
      BY UpToIs
    <3>4. last \in 1..4 => Seconds(ms) < UpTo(ms, last) + DurationUnits[last]
      BY UpToIs
    <3>5. QED
      BY <3>1, <3>2, <3>3, <3>4
  <2>2. QED
    BY <1>2, <2>1
<1>6. PICK u \in Nat : u = DurationUnits[last]
  <2>1. last = 1 \/ last = 2 \/ last = 3 \/ last = 4
    BY <1>4, SMT
  <2>2. DurationUnits[last] \in Nat
    BY <2>1, UnitsAre, SMT
  <2>3. QED
    BY <2>2
<1>7. read = 1000 * t /\ s < t + u
  BY <1>4, <1>5, <1>6
<1>8. read <= ms /\ ms < read + 1000 * u
  BY <1>2, <1>5, <1>7, SMT
<1>9. QED
  BY <1>4, <1>6, <1>8 DEF read, parts, LastUnit, LongReads

LEMMA DurationDoesRead ==
  ASSUME NEW ms \in Nat, NEW units \in {Missing} \cup 0..5
  PROVE  DurationReads(ms, units)
<1>1. CASE ms < 60000
  <2>1. /\ FormatDuration(ms, units, Missing) - ms <= 50
        /\ ms - FormatDuration(ms, units, Missing) <= 50
    BY <1>1, ShortDuration
  <2>2. QED
    BY <1>1, <2>1, SMT DEF DurationReads
<1>2. CASE ~(ms < 60000)
  <2>1. ms >= 60000
    BY <1>2, SMT
  <2>2. LongReads(ms, units)
    BY <2>1, LongDuration
  <2>3. QED
    BY <1>2, <2>2, SMT DEF DurationReads, LongReads
<1>3. QED
  BY <1>1, <1>2

LEMMA DurationsDoRead == DurationsRead
<1>1. Durations \subseteq Nat
  BY DetailsAssumption
<1>2. QED
  BY <1>1, DurationDoesRead DEF DurationsRead

-----------------------------------------------------------------------------
(* The counters of a snapshot, as sums over its details. *)

TallyField == {"total_requests", "success_count", "failure_count", "total_tokens"}

TokensOK(t) == DetailsOK(DOMAIN t) /\ \A d \in DOMAIN t : t[d] \in Nat

Weight(field, t) ==
  [d \in DOMAIN t |->
    IF field = "total_tokens" THEN t[d]
    ELSE IF \/ field = "success_count" /\ d.failed
            \/ field = "failure_count" /\ ~d.failed THEN 0
    ELSE 1]

LEMMA WeightNat ==
  ASSUME NEW t, TokensOK(t), NEW field, NEW d \in DOMAIN t
  PROVE  Weight(field, t)[d] \in Nat
BY DEF TokensOK, Weight

LEMMA CardinalityIs ==
  ASSUME NEW S, IsFiniteSet(S), NEW T \in SUBSET S, NEW f,
         \A d \in T : f[d] = 1, \A d \in S \ T : f[d] = 0
  PROVE  Cardinality(T) = SumOver(f, S)
<1>1. IsFiniteSet(T)
  BY FS_Subset
<1>2. SumOver(f, T) = Cardinality(T)
  BY <1>1, SumOverOnes
<1>3. \A d \in T : f[d] \in Int
  OBVIOUS
<1>4. SumOver(f, S) = SumOver(f, T)
  BY <1>3, SumOverSupport
<1>5. QED
  BY <1>2, <1>4

LEMMA TallyIs ==
  ASSUME NEW t, TokensOK(t), NEW field \in TallyField
  PROVE  Tally(t)[field] = SumOver(Weight(field, t), DOMAIN t)
<1> DEFINE D == DOMAIN t
           f == Weight(field, t)
<1>1. IsFiniteSet(D)
  BY DEF TokensOK, DetailsOK
<1>2. CASE field = "total_requests"
  <2>1. Tally(t)[field] = Cardinality(D)
    BY <1>2 DEF Tally
  <2>2. \A d \in D : f[d] = 1
    BY <1>2 DEF Weight
  <2> HIDE DEF f, D
  <2>3. QED
    BY <1>1, <2>1, <2>2, SumOverOnes DEF f, D
<1>3. CASE field = "success_count"
  <2>1. Tally(t)[field] = Cardinality(Succeeded(D))
    BY <1>3 DEF Tally, Succeeded
  <2>2. Succeeded(D) \in SUBSET D /\ \A d \in Succeeded(D) : f[d] = 1
    BY <1>3 DEF Weight, Succeeded
  <2>3. \A d \in D \ Succeeded(D) : f[d] = 0
    BY <1>3 DEF Weight, Succeeded
  <2>4. Cardinality(Succeeded(D)) = SumOver(f, D)
    <3> HIDE DEF f, D
    <3> QED
      BY <1>1, <2>2, <2>3, CardinalityIs
  <2>5. QED
    BY <2>1, <2>4
<1>4. CASE field = "failure_count"
  <2>1. Tally(t)[field] = Cardinality(Failed(D))
    BY <1>4 DEF Tally, Failed
  <2>2. Failed(D) \in SUBSET D /\ \A d \in Failed(D) : f[d] = 1
    BY <1>4 DEF Weight, Failed
  <2>3. \A d \in D \ Failed(D) : f[d] = 0
    BY <1>4 DEF Weight, Failed
  <2>4. Cardinality(Failed(D)) = SumOver(f, D)
    <3> HIDE DEF f, D
    <3> QED
      BY <1>1, <2>2, <2>3, CardinalityIs
  <2>5. QED
    BY <2>1, <2>4
<1>5. CASE field = "total_tokens"
  <2>1. Tally(t)[field] = SumOver(t, D)
    BY <1>5, SumOfIs DEF Tally
  <2>2. \A d \in D : t[d] = f[d]
    BY <1>5 DEF Weight
  <2>3. SumOver(t, D) = SumOver(f, D)
    <3> HIDE DEF f, D
    <3> QED
      BY <1>1, <2>2, SumOverSame
  <2>4. QED
    BY <2>1, <2>3
<1>6. QED
  BY <1>2, <1>3, <1>4, <1>5 DEF TallyField

LEMMA RestrictOK ==
  ASSUME NEW t, TokensOK(t), NEW S, S \subseteq DOMAIN t
  PROVE  TokensOK(Restrict(t, S)) /\ DOMAIN Restrict(t, S) = S
BY SubsetOK DEF TokensOK, Restrict

(* The tally of a part of the details. *)
LEMMA PartTally ==
  ASSUME NEW t, TokensOK(t), NEW S, S \subseteq DOMAIN t, NEW field \in TallyField
  PROVE  Tally(Restrict(t, S))[field] = SumOver(Weight(field, t), S)
<1> DEFINE u == Restrict(t, S)
<1>1. TokensOK(u) /\ DOMAIN u = S
  BY RestrictOK
<1>2. Tally(u)[field] = SumOver(Weight(field, u), S)
  <2> HIDE DEF u
  <2> QED
    BY <1>1, TallyIs
<1>3. \A d \in S : Weight(field, u)[d] = Weight(field, t)[d]
  BY DEF Weight, Restrict
<1>4. SumOver(Weight(field, u), S) = SumOver(Weight(field, t), S)
  <2>1. IsFiniteSet(S)
    BY <1>1 DEF TokensOK, DetailsOK
  <2> HIDE DEF u
  <2>2. QED
    BY <1>3, <2>1, SumOverSame
<1>5. QED
  BY <1>2, <1>4

-----------------------------------------------------------------------------
(* Adding up the APIs, and the models, of a snapshot. *)

LEMMA PartsFinite ==
  ASSUME NEW D, IsFiniteSet(D), NEW a
  PROVE  IsFiniteSet(PartAt(D, a))
BY PartIn, FS_Subset

LEMMA SumByApi ==
  ASSUME NEW D, IsFiniteSet(D), NEW f, \A d \in D : f[d] \in Int,
         NEW g, \A a \in NamesIn(D, "api") : g[a] = SumOver(f, PartAt(D, a))
  PROVE  SumOver(g, NamesIn(D, "api")) = SumOver(f, D)
BY SumByName DEF PartAt

LEMMA SumByModelAt ==
  ASSUME NEW D, IsFiniteSet(D), NEW f, \A d \in D : f[d] \in Int, NEW a,
         NEW g, \A m \in NamesIn(PartAt(D, a), "model") : g[m] = SumOver(f, CellAt(D, a, m))
  PROVE  SumOver(g, NamesIn(PartAt(D, a), "model")) = SumOver(f, PartAt(D, a))
<1> DEFINE E == PartAt(D, a)
<1>1. IsFiniteSet(E) /\ \A d \in E : f[d] \in Int
  BY PartIn, PartsFinite
<1>2. \A m \in NamesIn(E, "model") : g[m] = SumOver(f, RowsWith(E, "model", m))
  BY DEF CellAt
<1> HIDE DEF E
<1>3. SumOver(g, NamesIn(E, "model")) = SumOver(f, E)
  BY <1>1, <1>2, SumByName
<1>4. QED
  BY <1>3 DEF E

TalliesOfApis(u, field) == SumOf([a \in ApisOf(u) |-> ApiTally(u, a)[field]])
TalliesOfModels(u, field) ==
  SumOf([a \in ApisOf(u) |-> SumOf([m \in ModelsAt(u, a) |-> CellTally(u, a, m)[field]])])

LEMMA TalliesByApi ==
  ASSUME NEW t, TokensOK(t), NEW field \in TallyField
  PROVE  TalliesOfApis(Snapshot(t), field) = SumOver(Weight(field, t), DOMAIN t)
<1> DEFINE D == DOMAIN t
           u == Snapshot(t)
           f == Weight(field, t)
           g == [a \in ApisOf(u) |-> ApiTally(u, a)[field]]
<1>1. ApisOf(u) = NamesIn(D, "api")
  BY SnapshotApis
<1>2. SumOf(g) = SumOver(g, NamesIn(D, "api"))
  BY <1>1, SumOfIs
<1>3. ASSUME NEW a \in NamesIn(D, "api") PROVE g[a] = SumOver(f, PartAt(D, a))
  <2>1. g[a] = Tally(Restrict(t, PartAt(D, a)))[field]
    BY <1>1, SnapshotApiTally
  <2>2. QED
    BY <2>1, PartIn, PartTally
<1>4. IsFiniteSet(D) /\ \A d \in D : f[d] \in Int
  BY WeightNat DEF TokensOK, DetailsOK
<1>5. SumOver(g, NamesIn(D, "api")) = SumOver(f, D)
  <2>1. \A a \in NamesIn(D, "api") : g[a] = SumOver(f, PartAt(D, a))
    BY <1>3
  <2> HIDE DEF g, f, D
  <2>2. QED
    BY <1>4, <2>1, SumByApi
<1>6. QED
  BY <1>2, <1>5 DEF TalliesOfApis

LEMMA TalliesByModel ==
  ASSUME NEW t, TokensOK(t), NEW field \in TallyField
  PROVE  TalliesOfModels(Snapshot(t), field) = SumOver(Weight(field, t), DOMAIN t)
<1> DEFINE D == DOMAIN t
           u == Snapshot(t)
           f == Weight(field, t)
           g == [a \in ApisOf(u) |-> SumOf([m \in ModelsAt(u, a) |-> CellTally(u, a, m)[field]])]
<1>1. ApisOf(u) = NamesIn(D, "api")
  BY SnapshotApis
<1>2. SumOf(g) = SumOver(g, NamesIn(D, "api"))
  BY <1>1, SumOfIs
<1>3. IsFiniteSet(D) /\ \A d \in D : f[d] \in Int
  BY WeightNat DEF TokensOK, DetailsOK
<1>4. ASSUME NEW a \in NamesIn(D, "api") PROVE g[a] = SumOver(f, PartAt(D, a))
  <2> DEFINE h == [m \in ModelsAt(u, a) |-> CellTally(u, a, m)[field]]
             M == NamesIn(PartAt(D, a), "model")
  <2>1. ModelsAt(u, a) = M
    BY SnapshotModels
  <2>2. g[a] = SumOf(h)
    BY <1>1
  <2>3. SumOf(h) = SumOver(h, M)
    BY <2>1, SumOfIs
  <2>4. \A m \in M : h[m] = SumOver(f, CellAt(D, a, m))
    <3> TAKE m \in M
    <3>1. h[m] = Tally(Restrict(t, CellAt(D, a, m)))[field]
      BY <2>1, SnapshotCellTally
    <3>2. QED
      BY <3>1, CellIn, PartTally
  <2>5. SumOver(h, M) = SumOver(f, PartAt(D, a))
    <3> HIDE DEF h, f, D
    <3> QED
      BY <1>3, <2>4, SumByModelAt
  <2>6. QED
    BY <2>2, <2>3, <2>5
<1>5. SumOver(g, NamesIn(D, "api")) = SumOver(f, D)
  <2>1. \A a \in NamesIn(D, "api") : g[a] = SumOver(f, PartAt(D, a))
    BY <1>4
  <2> HIDE DEF g, f, D
  <2>2. QED
    BY <1>3, <2>1, SumByApi
<1>6. QED
  BY <1>2, <1>5 DEF TalliesOfModels

(* As many details are collected as the snapshot is of. *)
LEMMA CardinalityOfImage ==
  ASSUME NEW D, IsFiniteSet(D), NEW h, OneToOne(h, D)
  PROVE  Cardinality(ImageOf(h, D)) = Cardinality(D)
<1> DEFINE f == [x \in ImageOf(h, D) |-> 1]
           g == [x \in D |-> 1]
<1>1. IsFiniteSet(ImageOf(h, D))
  BY ImageFinite DEF ImageOf
<1>2. \A x \in ImageOf(h, D) : f[x] = 1
  OBVIOUS
<1>3. \A x \in D : g[x] = 1 /\ f[h[x]] \in Int /\ g[x] = f[h[x]]
  BY DEF ImageOf
<1> HIDE DEF f, g
<1>4. SumOver(f, ImageOf(h, D)) = Cardinality(ImageOf(h, D))
  BY <1>1, <1>2, SumOverOnes
<1>5. SumOver(g, D) = Cardinality(D)
  BY <1>3, SumOverOnes
<1>6. SumOver(f, ImageOf(h, D)) = SumOver(g, D)
  BY <1>3, SumOverImage
<1>7. QED
  BY <1>4, <1>5, <1>6

IdsOf(D) == {d.id : d \in D}

LEMMA SnapshotIds ==
  ASSUME NEW t, TokensOK(t)
  PROVE  Ids(Snapshot(t)) = IdsOf(DOMAIN t)
<1> DEFINE D == DOMAIN t
<1>1. Ids(Snapshot(t)) = {d.id : d \in ImageOf(TimedOf(D), D)}
  BY SnapshotCollected DEF Ids
<1>2. \A d \in D : TimedOf(D)[d].id = d.id
  BY TimedIs DEF TokensOK, DetailsOK, TimedOf
<1>3. QED
  BY <1>1, <1>2 DEF ImageOf, IdsOf

LEMMA IdsCount ==
  ASSUME NEW D, DetailsOK(D)
  PROVE  Cardinality(IdsOf(D)) = Cardinality(D)
<1> DEFINE h == [d \in D |-> d.id]
<1>1. IdsOf(D) = ImageOf(h, D)
  BY DEF IdsOf, ImageOf
<1>2. OneToOne(h, D)
  BY DEF OneToOne, DetailsOK
<1>3. IsFiniteSet(D)
  BY DEF DetailsOK
<1> HIDE DEF h
<1>4. QED
  BY <1>1, <1>2, <1>3, CardinalityOfImage

LEMMA SnapshotTally ==
  ASSUME NEW t
  PROVE  Snapshot(t).tally = Tally(t)
BY DEF Snapshot

(* Every snapshot tells one story: overall, by API, by model and in time. *)
LEMMA SnapshotCountsAgree ==
  ASSUME NEW t, TokensOK(t)
  PROVE  CountsAgree(Snapshot(t))
<1> DEFINE D == DOMAIN t
           u == Snapshot(t)
<1>1. IsFiniteSet(D) /\ DetailsOK(D) /\ \A d \in D : t[d] \in Int
  BY DEF TokensOK, DetailsOK
<1>2. u.tally = Tally(t)
  BY SnapshotTally
<1>3. DOMAIN u.tally = TallyField
  BY <1>2 DEF Tally, TallyField
<1>4. \A field \in TallyField :
        SumOf([a \in DOMAIN u.apis |-> u.apis[a].tally[field]]) = u.tally[field]
  <2> TAKE field \in TallyField
  <2>1. SumOf([a \in DOMAIN u.apis |-> u.apis[a].tally[field]]) = TalliesOfApis(u, field)
    BY DEF TalliesOfApis, ApisOf, ApiTally
  <2> HIDE DEF u
  <2>2. TalliesOfApis(u, field) = Tally(t)[field]
    BY TalliesByApi, TallyIs DEF u
  <2>3. QED
    BY <1>2, <2>1, <2>2
<1>5. \A field \in TallyField :
        SumOf([a \in DOMAIN u.apis |->
          SumOf([m \in DOMAIN u.apis[a].models |-> u.apis[a].models[m].tally[field]])])
          = u.tally[field]
  <2> TAKE field \in TallyField
  <2>1. SumOf([a \in DOMAIN u.apis |->
          SumOf([m \in DOMAIN u.apis[a].models |-> u.apis[a].models[m].tally[field]])])
          = TalliesOfModels(u, field)
    BY DEF TalliesOfModels, ApisOf, ModelsAt, CellTally
  <2> HIDE DEF u
  <2>2. TalliesOfModels(u, field) = Tally(t)[field]
    BY TalliesByModel, TallyIs DEF u
  <2>3. QED
    BY <1>2, <2>1, <2>2
<1>6. /\ u.tally.total_requests = Cardinality(D)
      /\ u.tally.success_count = Cardinality(Succeeded(D))
      /\ u.tally.failure_count = Cardinality(Failed(D))
      /\ u.tally.total_tokens = SumOf(t)
  BY <1>2 DEF Tally, Succeeded, Failed
<1>7. u.tally.total_requests = Cardinality(Ids(u))
  BY <1>1, <1>6, SnapshotIds, IdsCount
<1>8. u.tally.success_count + u.tally.failure_count = u.tally.total_requests
  BY <1>1, <1>6, OutcomesAddUp
<1>9. SumOf(u.requests_by_day) = u.tally.total_requests
  <2>1. u.requests_by_day = Sums("day", Ones(D))
    BY DEF Snapshot
  <2>2. DOMAIN Ones(D) = D /\ \A d \in D : Ones(D)[d] = 1 /\ Ones(D)[d] \in Int
    BY DEF Ones
  <2> HIDE DEF D
  <2>3. SumOf(Sums("day", Ones(D))) = SumOver(Ones(D), D)
    BY <1>1, <2>2, AllBucketsSum
  <2>4. SumOver(Ones(D), D) = Cardinality(D)
    BY <1>1, <2>2, SumOverOnes
  <2>5. QED
    BY <1>6, <2>1, <2>3, <2>4
<1>10. SumOf(u.tokens_by_hour) = u.tally.total_tokens
  <2>1. u.tokens_by_hour = Sums("hour", t)
    BY DEF Snapshot
  <2>2. SumOf(Sums("hour", t)) = SumOver(t, DOMAIN t)
    BY <1>1, AllBucketsSum
  <2>3. SumOf(t) = SumOver(t, DOMAIN t)
    BY SumOfIs
  <2>4. QED
    BY <1>6, <2>1, <2>2, <2>3
<1> HIDE DEF u, D
<1>11. QED
  BY <1>3, <1>4, <1>5, <1>7, <1>8, <1>9, <1>10 DEF CountsAgree, u

LEMMA TokensOfOK ==
  ASSUME NEW D, DetailsOK(D)
  PROVE  TokensOK(TokensOf(D)) /\ DOMAIN TokensOf(D) = D
<1>1. \A d \in D : ExtractTotalTokens(d) \in Nat
  BY TokenParts DEF DetailsOK
<1>2. QED
  BY <1>1 DEF TokensOK, TokensOf

LEMMA RebuiltIsSnapshot ==
  ASSUME NEW D
  PROVE  BuildUsageFromDetails(D) = Snapshot(TokensOf(ImageOf(RebuiltOf(D), D)))
<1>1. {Rebuilt(d) : d \in D} = ImageOf(RebuiltOf(D), D)
  BY DEF ImageOf, RebuiltOf
<1>2. QED
  BY <1>1 DEF BuildUsageFromDetails

-----------------------------------------------------------------------------
(* The first and the last of some moments. *)

LEMMA MaxIs ==
  ASSUME NEW S, IsFiniteSet(S), S # {}, S \subseteq Int
  PROVE  Max(S) \in S /\ \A x \in S : x <= Max(S)
<1> DEFINE HasMax(T) == \E y \in T : \A x \in T : x <= y
           F == {T \in SUBSET S : T = {} \/ HasMax(T)}
<1>1. {} \in F
  OBVIOUS
<1>2. ASSUME NEW T \in SUBSET S, T # {}, \A x \in T : T \ {x} \in F PROVE T \in F
  <2>1. PICK z \in T : TRUE
    BY <1>2
  <2>2. CASE T \ {z} = {}
    <3>1. \A x \in T : x = z
      BY <2>2
    <3>2. HasMax(T)
      BY <2>1, <3>1
    <3>3. QED
      BY <3>2
  <2>3. CASE HasMax(T \ {z})
    <3>1. PICK y \in T \ {z} : \A x \in T \ {z} : x <= y
      BY <2>3
    <3>2. y \in Int /\ z \in Int /\ \A x \in T : x \in Int
      BY <3>1
    <3>3. CASE z <= y
      <4>1. \A x \in T : x <= y
        BY <3>1, <3>2, <3>3
      <4>2. QED
        BY <3>1, <4>1
    <3>4. CASE ~(z <= y)
      <4>1. \A x \in T : x <= z
        <5> TAKE x \in T
        <5>1. CASE x = z
          BY <3>2, <5>1
        <5>2. CASE x # z
          BY <3>1, <3>2, <3>4, <5>2
        <5>3. QED
          BY <5>1, <5>2
      <4>2. QED
        BY <2>1, <4>1
    <3>5. QED
      BY <3>3, <3>4
  <2>4. QED
    BY <1>2, <2>1, <2>2, <2>3
<1> HIDE DEF F
<1>3. S \in F
  BY <1>1, <1>2, SetsByRemoval
<1>4. \E y \in S : \A x \in S : x <= y
  BY <1>3 DEF F
<1>5. \E y \in S : \A x \in S : y >= x
  BY <1>4
<1>6. QED
  BY <1>4, <1>5 DEF Max

LEMMA MinIs ==
  ASSUME NEW S, IsFiniteSet(S), S # {}, S \subseteq Int
  PROVE  Min(S) \in S
<1> DEFINE h == [x \in S |-> 0 - x]
           T == {h[x] : x \in S}
<1>1. IsFiniteSet(T) /\ T # {} /\ T \subseteq Int
  <2>1. IsFiniteSet(T)
    BY ImageFinite
  <2>2. \A x \in S : h[x] \in Int
    OBVIOUS
  <2>3. T # {} /\ T \subseteq Int
    <3> HIDE DEF h
    <3> QED
      BY <2>2
  <2>4. QED
    BY <2>1, <2>3
<1>2. PICK x \in S : 0 - x = Max(T)
  <2>1. Max(T) \in T
    <3> HIDE DEF T
    <3> QED
      BY <1>1, MaxIs
  <2>2. QED
    BY <2>1
<1>3. \A y \in S : 0 - y <= 0 - x
  <2>1. \A z \in T : z <= Max(T)
    <3> HIDE DEF T
    <3> QED
      BY <1>1, MaxIs
  <2>2. QED
    BY <1>2, <2>1
<1>4. \A y \in S : x <= y
  BY <1>3
<1>5. QED
  BY <1>4 DEF Min

-----------------------------------------------------------------------------
(* The bounds of details, the windows of the filter. *)

Times(D) == {d.at : d \in {e \in D : Dated(e)}}

LEMMA TimesAre ==
  ASSUME NEW D, DetailsOK(D)
  PROVE  IsFiniteSet(Times(D)) /\ Times(D) \subseteq Nat \ {0}
<1> DEFINE key == [d \in D |-> d.at]
           E == {e \in D : Dated(e)}
<1>1. IsFiniteSet(E)
  BY FS_Subset DEF DetailsOK
<1>2. Times(D) = {key[d] : d \in E}
  BY DEF Times
<1>3. \A d \in D : d.at \in Nat
  BY DEF DetailsOK, DetailRecord
<1>4. Times(D) \subseteq Nat \ {0}
  BY <1>3 DEF Times, Dated
<1> HIDE DEF key, E
<1>5. QED
  BY <1>1, <1>2, <1>4, ImageFinite

LEMMA BoundsAre ==
  ASSUME NEW D, DetailsOK(D), DetailTimestampBounds(D) # Missing
  PROVE  /\ Times(D) # {}
         /\ DetailTimestampBounds(D).earliest \in Nat \ {0}
         /\ DetailTimestampBounds(D).latest \in Times(D)
         /\ DetailTimestampBounds(D).latest \in Nat \ {0}
         /\ \A d \in D : Dated(d) => d.at <= DetailTimestampBounds(D).latest
<1>1. DetailTimestampBounds(D) = IF Times(D) = {} THEN Missing
                                 ELSE [earliest |-> Min(Times(D)), latest |-> Max(Times(D))]
  BY DEF DetailTimestampBounds, Times
<1>2. Times(D) # {}
  BY <1>1
<1>3. DetailTimestampBounds(D).earliest = Min(Times(D))
      /\ DetailTimestampBounds(D).latest = Max(Times(D))
  BY <1>1, <1>2
<1>4. Min(Times(D)) \in Times(D) /\ Max(Times(D)) \in Times(D)
      /\ \A x \in Times(D) : x <= Max(Times(D))
  <2>1. IsFiniteSet(Times(D)) /\ Times(D) \subseteq Int /\ Times(D) # {}
    BY <1>2, TimesAre
  <2>2. QED
    BY <2>1, MaxIs, MinIs
<1>5. \A d \in D : Dated(d) => d.at \in Times(D)
  BY DEF Times
<1>6. QED
  BY <1>2, <1>3, <1>4, <1>5, TimesAre

-----------------------------------------------------------------------------
(* The payload. *)

Collected == ImageOf(TimedOf(recorded), recorded)

LEMMA PayloadIs ==
  ASSUME FiguresInv
  PROVE  /\ CollectUsageDetails(Payload) = Collected
         /\ CollectUsageEvents(Payload) = recorded
         /\ DetailsOK(recorded) /\ DetailsOK(Collected)
         /\ TokensOK(TokensOf(recorded))
<1>1. DetailsOK(recorded)
  BY RecordedOK
<1>2. TokensOK(TokensOf(recorded)) /\ DOMAIN TokensOf(recorded) = recorded
  BY <1>1, TokensOfOK
<1>3. CollectUsageDetails(Payload) = Collected
  BY <1>2, SnapshotCollected DEF Payload, Collected
<1>4. CollectUsageEvents(Payload) = recorded
  BY <1>2, SnapshotEvents DEF Payload
<1>5. DetailsOK(Collected)
  BY <1>1, TimedOK DEF Collected
<1>6. QED
  BY <1>1, <1>2, <1>3, <1>4, <1>5

LEMMA CollectedIs ==
  ASSUME FiguresInv
  PROVE  /\ \A d \in Collected : \E e \in recorded : d = Timed(e)
         /\ \A e \in recorded : Timed(e) \in Collected
         /\ Collected = {} <=> recorded = {}
BY DEF Collected, ImageOf, TimedOf

-----------------------------------------------------------------------------
(* A window is open, or has two ends. *)

WindowOK(w) == w.start \in Int /\ w.end \in Int

LEMMA WindowOfOK ==
  ASSUME NEW start \in Int, NEW end \in Int
  PROVE  WindowOK(WindowOf(start, end)) /\ WindowOf(start, end).start = start
         /\ WindowOf(start, end).end = end
BY DEF WindowOK, WindowOf

LEMMA DayBeginInt ==
  ASSUME FiguresInv
  PROVE  DayNumber(clock) * DayHours * HourTicks - ZoneShift \in Int
<1>1. clock \in Int /\ ZoneShift \in Int /\ DayHours \in Nat \ {0} /\ HourTicks \in Nat \ {0}
  BY FiguresAssumption, DetailsAssumption DEF FiguresInv
<1>2. PICK h \in Nat \ {0} : h = DayHours * HourTicks
  <2>1. PICK a \in Nat \ {0}, b \in Nat \ {0} : a = DayHours /\ b = HourTicks
    BY <1>1
  <2>2. a * b \in Nat \ {0}
    OBVIOUS
  <2>3. QED
    BY <2>1, <2>2
<1>3. PICK k \in Int : k = DayNumber(clock)
  BY <1>1, <1>2 DEF DayNumber
<1>4. k * DayHours * HourTicks \in Int
  BY <1>1
<1>5. QED
  BY <1>1, <1>3, <1>4

LEMMA ResolvedPreset ==
  ASSUME FiguresInv, NEW usage, NEW r \in DOMAIN PresetHours, NEW a, NEW b
  PROVE  ResolveUsageFilterWindow(usage, r, clock, a, b)
           = WindowOf(clock - PresetHours[r] * HourTicks, clock)
<1>1. r # "all" /\ r # "today" /\ r # "custom"
  BY FiguresAssumption
<1>2. QED
  BY <1>1, Zenon DEF ResolveUsageFilterWindow

LEMMA PresetStart ==
  ASSUME FiguresInv, NEW r \in DOMAIN PresetHours
  PROVE  PresetHours[r] \in Nat \ {0} /\ PresetHours[r] * HourTicks \in Nat
         /\ clock - PresetHours[r] * HourTicks \in Int /\ clock \in Int
<1>1. PresetHours[r] \in Nat \ {0} /\ HourTicks \in Nat \ {0} /\ clock \in Int
  BY FiguresAssumption, DetailsAssumption DEF FiguresInv
<1>2. PICK a \in Nat \ {0}, b \in Nat \ {0} : a = PresetHours[r] /\ b = HourTicks
  BY <1>1
<1>3. a * b \in Nat
  OBVIOUS
<1>4. PresetHours[r] * HourTicks \in Nat
  BY <1>2, <1>3
<1>5. QED
  BY <1>1, <1>4

LEMMA WindowsOK ==
  ASSUME FiguresInv, NEW w \in Windows
  PROVE  w = NoWindow \/ WindowOK(w)
<1>1. ASSUME NEW r \in DOMAIN PresetHours,
             w = ResolveUsageFilterWindow(Payload, r, clock, Missing, Missing)
      PROVE  WindowOK(w)
  BY <1>1, ResolvedPreset, PresetStart, WindowOfOK
<1>2. ASSUME w = ResolveUsageFilterWindow(Payload, "today", clock, Missing, Missing)
      PROVE  WindowOK(w)
  <2>1. w = WindowOf(DayNumber(clock) * DayHours * HourTicks - ZoneShift, clock)
    BY <1>2, Zenon DEF ResolveUsageFilterWindow
  <2>2. clock \in Int
    BY DetailsAssumption DEF FiguresInv
  <2>3. QED
    BY <2>1, <2>2, DayBeginInt, WindowOfOK
<1>3. ASSUME w = ResolveUsageFilterWindow(Payload, "all", clock, Missing, Missing)
      PROVE  w = NoWindow \/ WindowOK(w)
  <2> DEFINE bounds == DetailTimestampBounds(CollectUsageDetails(Payload))
  <2>1. w = IF bounds = Missing THEN NoWindow ELSE WindowOf(bounds.earliest, bounds.latest)
    BY <1>3, Zenon DEF ResolveUsageFilterWindow
  <2>2. bounds # Missing => bounds.earliest \in Int /\ bounds.latest \in Int
    BY PayloadIs, BoundsAre
  <2> HIDE DEF bounds
  <2>3. QED
    BY <2>1, <2>2, WindowOfOK
<1>4. ASSUME NEW c \in CustomWindow,
             w = ResolveUsageFilterWindow(Payload, "custom", clock, c[1], c[2])
      PROVE  w = NoWindow \/ WindowOK(w)
  <2> DEFINE start == ToValidTimestamp(c[1])
             end == ToValidTimestamp(c[2])
  <2>1. w = IF start = Missing \/ end = Missing THEN NoWindow
            ELSE IF start > end THEN NoWindow ELSE WindowOf(start, end)
    BY <1>4, Zenon DEF ResolveUsageFilterWindow
  <2>2. c[1] \in Int \cup {Missing} /\ c[2] \in Int \cup {Missing}
    BY DetailsAssumption
  <2>3. start \in Int \cup {Missing} /\ end \in Int \cup {Missing}
    BY <2>2 DEF ToValidTimestamp
  <2> HIDE DEF start, end
  <2>4. CASE start = Missing \/ end = Missing
    BY <2>1, <2>4
  <2>5. CASE ~(start = Missing \/ end = Missing)
    BY <2>1, <2>3, <2>5, WindowOfOK
  <2>6. QED
    BY <2>4, <2>5
<1>5. \/ \E r \in DOMAIN PresetHours \cup {"all", "today"} :
           w = ResolveUsageFilterWindow(Payload, r, clock, Missing, Missing)
      \/ \E c \in CustomWindow : w = ResolveUsageFilterWindow(Payload, "custom", clock, c[1], c[2])
  BY DEF Windows
<1>6. CASE \E r \in DOMAIN PresetHours \cup {"all", "today"} :
             w = ResolveUsageFilterWindow(Payload, r, clock, Missing, Missing)
  BY <1>1, <1>2, <1>3, <1>6
<1>7. CASE \E c \in CustomWindow :
             w = ResolveUsageFilterWindow(Payload, "custom", clock, c[1], c[2])
  BY <1>4, <1>7
<1>8. QED
  BY <1>5, <1>6, <1>7

-----------------------------------------------------------------------------
(* What a window keeps of details. *)

InWindowOf(D, w) == {d \in D : InWindow(d, w)}
Kept(D, w) == ImageOf(RebuiltOf(InWindowOf(D, w)), InWindowOf(D, w))

LEMMA FilterIs ==
  ASSUME NEW usage, NEW w, WindowOK(w), CollectUsageDetails(usage) # {}
  PROVE  FilterUsageByWindow(usage, w) = Snapshot(TokensOf(Kept(CollectUsageDetails(usage), w)))
<1> DEFINE D == CollectUsageDetails(usage)
           E == InWindowOf(D, w)
<1>1. w.start # Missing
  BY FiguresAssumption DEF WindowOK
<1>2. FilterUsageByWindow(usage, w) = BuildUsageFromDetails(E)
  <2>1. {d \in CollectUsageDetails(usage) : InWindow(d, w)} = E
    BY DEF InWindowOf
  <2>2. FilterUsageByWindow(usage, w)
          = IF D = {} \/ (w.start = Missing /\ w.end = Missing) THEN usage
            ELSE BuildUsageFromDetails(E)
    BY <2>1 DEF FilterUsageByWindow
  <2> HIDE DEF E, D
  <2>3. QED
    BY <1>1, <2>2 DEF D
<1>3. BuildUsageFromDetails(E) = Snapshot(TokensOf(ImageOf(RebuiltOf(E), E)))
  BY RebuiltIsSnapshot
<1>4. QED
  BY <1>2, <1>3 DEF Kept

LEMMA FilterNothing ==
  ASSUME NEW usage, NEW w, CollectUsageDetails(usage) = {}
  PROVE  FilterUsageByWindow(usage, w) = usage
BY DEF FilterUsageByWindow

LEMMA FilterOpen ==
  ASSUME NEW usage
  PROVE  FilterUsageByWindow(usage, NoWindow) = usage
BY DEF FilterUsageByWindow, NoWindow

LEMMA InWindowOK ==
  ASSUME NEW D, DetailsOK(D), NEW w
  PROVE  DetailsOK(InWindowOf(D, w)) /\ InWindowOf(D, w) \subseteq D
<1>1. InWindowOf(D, w) \subseteq D
  BY DEF InWindowOf
<1>2. QED
  BY <1>1, SubsetOK

LEMMA KeptOK ==
  ASSUME NEW D, DetailsOK(D), NEW w
  PROVE  DetailsOK(Kept(D, w)) /\ TokensOK(TokensOf(Kept(D, w))) /\ DOMAIN TokensOf(Kept(D, w)) = Kept(D, w)
<1>1. DetailsOK(Kept(D, w))
  BY InWindowOK, RebuiltOK DEF Kept
<1>2. QED
  BY <1>1, TokensOfOK

(* A moment is in a window or not; nothing else of a detail matters. *)
LEMMA SameMoment ==
  ASSUME NEW d, NEW e, NEW w, d.at = e.at
  PROVE  InWindow(d, w) <=> InWindow(e, w)
BY DEF InWindow, Dated

(* A rebuilt detail is collected as it is. *)
LEMMA RebuiltTimed ==
  ASSUME NEW d \in DetailRecord
  PROVE  Timed(Rebuilt(d)) = Rebuilt(d)
<1> DEFINE r == Rebuilt(d)
           s == Timed(r)
<1>1. r \in DetailRecord /\ s \in DetailRecord
  BY RebuiltIs, TimedIs
<1>2. s.latency = r.latency
  <2>1. r.latency = ToNumber(d.latency) /\ ToNumber(d.latency) \in Int
    BY RebuiltIs, ToNumberInt DEF DetailRecord
  <2>2. s.latency = ToNumber(r.latency)
    BY <1>1, TimedIs
  <2>3. QED
    BY <2>1, <2>2, ToNumberOf
<1>3. \A x \in {"id", "api", "model", "at", "failed", "input", "output", "reasoning",
                "cached", "cache", "total"} : s[x] = r[x]
  BY <1>1, TimedIs
<1>4. /\ s.id = r.id /\ s.at = r.at /\ s.failed = r.failed /\ s.api = r.api /\ s.model = r.model
      /\ s.input = r.input /\ s.output = r.output /\ s.reasoning = r.reasoning
      /\ s.cached = r.cached /\ s.cache = r.cache /\ s.total = r.total
  BY <1>3
<1> HIDE DEF r, s
<1>5. s = r
  BY <1>1, <1>2, <1>4 DEF DetailRecord
<1>6. QED
  BY <1>5 DEF r, s

LEMMA KeptIs ==
  ASSUME NEW D, DetailsOK(D), NEW w, NEW r \in Kept(D, w)
  PROVE  \E d \in D : InWindow(d, w) /\ r = Rebuilt(d) /\ d \in DetailRecord
BY DEF Kept, ImageOf, RebuiltOf, InWindowOf, DetailsOK

LEMMA SnapshotOfKept ==
  ASSUME NEW D, DetailsOK(D), NEW w
  PROVE  CollectUsageDetails(Snapshot(TokensOf(Kept(D, w)))) = Kept(D, w)
<1> DEFINE R == Kept(D, w)
<1>1. CollectUsageDetails(Snapshot(TokensOf(R))) = ImageOf(TimedOf(R), R)
  BY KeptOK, SnapshotCollected
<1>2. \A r \in R : TimedOf(R)[r] = r
  <2> TAKE r \in R
  <2>1. PICK d \in DetailRecord : r = Rebuilt(d)
    BY KeptIs
  <2>2. Timed(r) = r
    BY <2>1, RebuiltTimed
  <2>3. QED
    BY <2>2 DEF TimedOf
<1> HIDE DEF R
<1>3. ImageOf(TimedOf(R), R) = R
  BY <1>2 DEF ImageOf
<1>4. QED
  BY <1>1, <1>3 DEF R

(* Filtering again keeps everything, as it is. *)
LEMMA KeptAgain ==
  ASSUME NEW D, DetailsOK(D), NEW w
  PROVE  Kept(Kept(D, w), w) = Kept(D, w)
<1> DEFINE R == Kept(D, w)
<1>1. \A r \in R : InWindow(r, w) /\ Rebuilt(r) = r
  <2> TAKE r \in R
  <2>1. PICK d \in DetailRecord : InWindow(d, w) /\ r = Rebuilt(d)
    BY KeptIs
  <2>2. r.at = d.at
    BY <2>1, RebuiltIs
  <2>3. QED
    BY <2>1, <2>2, SameMoment, RebuiltTwice
<1> HIDE DEF R
<1>2. InWindowOf(R, w) = R
  BY <1>1 DEF InWindowOf
<1>3. ImageOf(RebuiltOf(R), R) = R
  BY <1>1 DEF ImageOf, RebuiltOf
<1>4. Kept(R, w) = R
  BY <1>2, <1>3 DEF Kept
<1>5. QED
  BY <1>4 DEF R

LEMMA KeptIds ==
  ASSUME NEW D, DetailsOK(D), NEW w
  PROVE  IdsOf(Kept(D, w)) = IdsOf(InWindowOf(D, w))
<1> DEFINE E == InWindowOf(D, w)
<1>1. \A d \in E : RebuiltOf(E)[d].id = d.id
  BY InWindowOK, RebuiltIs DEF DetailsOK, RebuiltOf
<1> HIDE DEF E
<1>2. IdsOf(ImageOf(RebuiltOf(E), E)) = IdsOf(E)
  BY <1>1 DEF IdsOf, ImageOf
<1>3. QED
  BY <1>2 DEF Kept, E

LEMMA CollectedInWindow ==
  ASSUME FiguresInv, NEW w
  PROVE  IdsOf(InWindowOf(Collected, w)) = IdsOf(InWindowOf(recorded, w))
<1>1. \A d \in recorded : /\ TimedOf(recorded)[d].id = d.id
                          /\ TimedOf(recorded)[d].at = d.at
  BY PayloadIs, TimedIs DEF DetailsOK, TimedOf
<1>2. \A d \in recorded : InWindow(TimedOf(recorded)[d], w) <=> InWindow(d, w)
  BY <1>1, SameMoment
<1>3. QED
  BY <1>1, <1>2 DEF IdsOf, InWindowOf, Collected, ImageOf

LEMMA ShownIs ==
  ASSUME FiguresInv, NEW w, WindowOK(w)
  PROVE  Ids(FilterUsageByWindow(Payload, w)) = IdsOf(InWindowOf(recorded, w))
<1>1. CASE recorded = {}
  <2>1. FilterUsageByWindow(Payload, w) = Payload
    BY <1>1, PayloadIs, CollectedIs, FilterNothing
  <2>2. Ids(Payload) = IdsOf(recorded)
    <3>1. TokensOK(TokensOf(recorded)) /\ DOMAIN TokensOf(recorded) = recorded
      BY PayloadIs, TokensOfOK
    <3>2. QED
      BY <3>1, SnapshotIds DEF Payload
  <2>3. QED
    BY <1>1, <2>1, <2>2 DEF IdsOf, InWindowOf
<1>2. CASE recorded # {}
  <2>1. FilterUsageByWindow(Payload, w) = Snapshot(TokensOf(Kept(Collected, w)))
    BY <1>2, PayloadIs, CollectedIs, FilterIs
  <2>2. Ids(Snapshot(TokensOf(Kept(Collected, w)))) = IdsOf(Kept(Collected, w))
    BY PayloadIs, KeptOK, SnapshotIds
  <2>3. QED
    BY <2>1, <2>2, PayloadIs, KeptIds, CollectedInWindow
<1>3. QED
  BY <1>1, <1>2

LEMMA ShownCounts ==
  ASSUME FiguresInv, NEW w, w = NoWindow \/ WindowOK(w)
  PROVE  CountsAgree(FilterUsageByWindow(Payload, w))
<1>1. CountsAgree(Payload)
  BY PayloadIs, SnapshotCountsAgree DEF Payload
<1>2. CASE w = NoWindow
  BY <1>1, <1>2, FilterOpen
<1>3. CASE WindowOK(w)
  <2>1. CASE recorded = {}
    BY <1>1, <2>1, PayloadIs, CollectedIs, FilterNothing
  <2>2. CASE recorded # {}
    <3>1. FilterUsageByWindow(Payload, w) = Snapshot(TokensOf(Kept(Collected, w)))
      BY <1>3, <2>2, PayloadIs, CollectedIs, FilterIs
    <3>2. TokensOK(TokensOf(Kept(Collected, w)))
      BY PayloadIs, KeptOK
    <3>3. QED
      BY <3>1, <3>2, SnapshotCountsAgree
  <2>3. QED
    BY <2>1, <2>2
<1>4. QED
  BY <1>2, <1>3

LEMMA ShownAgain ==
  ASSUME FiguresInv, NEW w, WindowOK(w), recorded # {}
  PROVE  FilterUsageByWindow(FilterUsageByWindow(Payload, w), w) = FilterUsageByWindow(Payload, w)
<1> DEFINE R == Kept(Collected, w)
           shown == FilterUsageByWindow(Payload, w)
<1>1. shown = Snapshot(TokensOf(R))
  BY PayloadIs, CollectedIs, FilterIs
<1>2. CollectUsageDetails(Snapshot(TokensOf(R))) = R
  BY PayloadIs, SnapshotOfKept
<1>3. CollectUsageDetails(shown) = R
  BY <1>1, <1>2
<1>4. Kept(R, w) = R
  BY PayloadIs, KeptAgain
<1> HIDE DEF R, shown
<1>5. CASE R = {}
  BY <1>3, <1>5, FilterNothing DEF shown
<1>6. CASE R # {}
  <2>1. FilterUsageByWindow(shown, w) = Snapshot(TokensOf(Kept(R, w)))
    BY <1>3, <1>6, FilterIs
  <2>2. QED
    BY <1>1, <1>4, <2>1 DEF shown
<1>7. QED
  BY <1>5, <1>6

-----------------------------------------------------------------------------
(* The presets. *)

SinceIds(start) == IdsOf({d \in recorded : Dated(d) /\ d.at >= start})
StartOf(r) == clock - PresetHours[r] * HourTicks

LEMMA MomentsAre ==
  ASSUME FiguresInv, NEW d \in recorded
  PROVE  d.at \in Nat /\ d.at <= clock /\ clock \in Nat
BY RecordedAreDetails, DetailsAssumption DEF FiguresInv, DetailRecord

LEMMA PresetIds ==
  ASSUME FiguresInv, NEW r \in DOMAIN PresetHours
  PROVE  Ids(ByRange(r)) = SinceIds(StartOf(r))
<1> DEFINE w == WindowOf(StartOf(r), clock)
<1>1. ByRange(r) = FilterUsageByWindow(Payload, w)
  BY ResolvedPreset DEF ByRange, FilterUsageByTimeRange, StartOf
<1>2. WindowOK(w) /\ w.start = StartOf(r) /\ w.end = clock
  BY PresetStart, WindowOfOK DEF StartOf
<1>3. Ids(ByRange(r)) = IdsOf(InWindowOf(recorded, w))
  BY <1>1, <1>2, ShownIs
<1>4. \A d \in recorded : InWindow(d, w) <=> Dated(d) /\ d.at >= StartOf(r)
  <2> TAKE d \in recorded
  <2>1. d.at <= clock
    BY MomentsAre
  <2>2. w.start # Missing
    BY <1>2, FiguresAssumption DEF WindowOK
  <2> HIDE DEF w
  <2>3. QED
    BY <1>2, <2>1, <2>2 DEF InWindow
<1> HIDE DEF w
<1>5. InWindowOf(recorded, w) = {d \in recorded : Dated(d) /\ d.at >= StartOf(r)}
  BY <1>4 DEF InWindowOf
<1>6. QED
  BY <1>3, <1>5 DEF SinceIds

LEMMA LaterStart ==
  ASSUME FiguresInv, NEW a \in Int, NEW b \in Int, a <= b
  PROVE  SinceIds(b) \subseteq SinceIds(a)
<1>1. \A d \in recorded : d.at >= b => d.at >= a
  <2> TAKE d \in recorded
  <2>1. d.at \in Int
    BY MomentsAre
  <2>2. QED
    BY <2>1
<1>2. QED
  BY <1>1 DEF SinceIds, IdsOf

LEMMA PresetsNest ==
  ASSUME FiguresInv, NEW r \in DOMAIN PresetHours, NEW s \in DOMAIN PresetHours,
         PresetHours[r] <= PresetHours[s]
  PROVE  Ids(ByRange(r)) \subseteq Ids(ByRange(s))
<1>1. PICK a \in Nat, b \in Nat, h \in Nat : a = PresetHours[r] /\ b = PresetHours[s] /\ h = HourTicks
  BY PresetStart, FiguresAssumption
<1>2. PICK n \in Int : n = clock
  BY PresetStart
<1>3. n - b * h <= n - a * h
  <2>1. a <= b
    BY <1>1
  <2>2. a * h <= b * h
    BY <2>1
  <2>3. PICK x \in Nat, y \in Nat : x = a * h /\ y = b * h
    OBVIOUS
  <2>4. n - y <= n - x
    BY <2>2, <2>3
  <2>5. QED
    BY <2>3, <2>4
<1>4. StartOf(s) <= StartOf(r)
  BY <1>1, <1>2, <1>3 DEF StartOf
<1>5. StartOf(r) \in Int /\ StartOf(s) \in Int
  BY PresetStart DEF StartOf
<1>6. QED
  BY <1>4, <1>5, PresetIds, LaterStart

Older(r) ==
  {d \in recorded :
     Dated(d) /\ d.at >= DetailTimestampBounds(recorded).latest - PresetHours[r] * HourTicks}
OlderTokens(r) == [d \in Older(r) |-> TotalTokens(d)]

LEMMA OlderIs ==
  ASSUME FiguresInv, NEW r \in DOMAIN PresetHours, DetailTimestampBounds(recorded) # Missing
  PROVE  /\ FilterUsageSnapshot(Payload, r, clock) = Snapshot(OlderTokens(r))
         /\ TokensOK(OlderTokens(r)) /\ DOMAIN OlderTokens(r) = Older(r)
<1> DEFINE E == Older(r)
           t == OlderTokens(r)
<1>1. r # "all" /\ r # "today" /\ r # "custom" /\ r \notin {"all", "custom"}
  BY FiguresAssumption
<1>2. FilterUsageSnapshot(Payload, r, clock) = Snapshot(t)
  BY <1>1, PayloadIs DEF FilterUsageSnapshot, OlderTokens, Older
<1>3. E \subseteq recorded /\ DOMAIN t = E
  BY DEF Older, OlderTokens
<1>4. DetailsOK(E)
  <2> HIDE DEF E
  <2> QED
    BY <1>3, PayloadIs, SubsetOK
<1>5. \A d \in E : t[d] \in Nat
  <2>1. \A d \in recorded : d.total \in Nat
    BY PayloadIs DEF DetailsOK, DetailRecord
  <2>2. QED
    BY <1>3, <2>1 DEF TotalTokens, OlderTokens
<1> HIDE DEF E, t
<1>6. TokensOK(t)
  BY <1>3, <1>4, <1>5 DEF TokensOK
<1>7. QED
  BY <1>2, <1>3, <1>6 DEF E, t

LEMMA OlderIds ==
  ASSUME FiguresInv, NEW r \in DOMAIN PresetHours, DetailTimestampBounds(recorded) # Missing
  PROVE  Ids(FilterUsageSnapshot(Payload, r, clock))
           = SinceIds(DetailTimestampBounds(recorded).latest - PresetHours[r] * HourTicks)
<1>1. Ids(FilterUsageSnapshot(Payload, r, clock)) = IdsOf(Older(r))
  BY OlderIs, SnapshotIds
<1>2. QED
  BY <1>1 DEF SinceIds, Older

LEMMA RangesDoNest == ASSUME FiguresInv PROVE RangesNest
<1>1. ASSUME NEW window \in Windows
      PROVE  LET shown == FilterUsageByWindow(Payload, window) IN
             /\ CountsAgree(shown)
             /\ FilterUsageByWindow(shown, window) = shown \/ window = NoWindow \/ recorded = {}
             /\ window # NoWindow =>
                  Ids(shown) = {d.id : d \in {e \in recorded : InWindow(e, window)}}
  <2>1. window = NoWindow \/ WindowOK(window)
    BY WindowsOK
  <2>2. CountsAgree(FilterUsageByWindow(Payload, window))
    BY <2>1, ShownCounts
  <2>3. WindowOK(window) /\ recorded # {} =>
          FilterUsageByWindow(FilterUsageByWindow(Payload, window), window)
            = FilterUsageByWindow(Payload, window)
    BY ShownAgain
  <2>4. WindowOK(window) =>
          Ids(FilterUsageByWindow(Payload, window))
            = {d.id : d \in {e \in recorded : InWindow(e, window)}}
    BY ShownIs DEF IdsOf, InWindowOf
  <2>5. QED
    BY <2>1, <2>2, <2>3, <2>4
<1>2. ASSUME NEW r \in DOMAIN PresetHours, DetailTimestampBounds(recorded) # Missing
      PROVE  LET older == Ids(FilterUsageSnapshot(Payload, r, clock))
             IN  /\ Ids(ByRange(r)) \subseteq older
                 /\ DetailTimestampBounds(recorded).latest = clock => Ids(ByRange(r)) = older
  <2>1. PICK last \in Nat : last = DetailTimestampBounds(recorded).latest
    BY <1>2, PayloadIs, BoundsAre
  <2>2. last <= clock
    <3>1. DetailTimestampBounds(recorded).latest \in Times(recorded)
      BY <1>2, PayloadIs, BoundsAre
    <3>2. QED
      BY <2>1, <3>1, MomentsAre DEF Times
  <2>3. PICK n \in Int, p \in Nat : n = clock /\ p = PresetHours[r] * HourTicks
    BY PresetStart
  <2>4. Ids(FilterUsageSnapshot(Payload, r, clock)) = SinceIds(last - p)
    BY <1>2, <2>1, <2>3, OlderIds
  <2>5. Ids(ByRange(r)) = SinceIds(n - p)
    BY <2>3, PresetIds DEF StartOf
  <2>6. SinceIds(n - p) \subseteq SinceIds(last - p)
    <3>1. last - p <= n - p /\ last - p \in Int /\ n - p \in Int
      BY <2>2, <2>3
    <3>2. QED
      BY <3>1, LaterStart
  <2>7. QED
    BY <2>1, <2>3, <2>4, <2>5, <2>6
<1>3. \A r, s \in DOMAIN PresetHours :
        PresetHours[r] <= PresetHours[s] => Ids(ByRange(r)) \subseteq Ids(ByRange(s))
  BY PresetsNest
<1>4. \A r \in DOMAIN PresetHours :
        LET older == Ids(FilterUsageSnapshot(Payload, r, clock))
            latest == DetailTimestampBounds(recorded)
        IN  \/ latest = Missing
            \/ /\ Ids(ByRange(r)) \subseteq older
               /\ latest.latest = clock => Ids(ByRange(r)) = older
  BY <1>2
<1>5. \A window \in Windows :
        LET shown == FilterUsageByWindow(Payload, window) IN
        /\ CountsAgree(shown)
        /\ FilterUsageByWindow(shown, window) = shown \/ window = NoWindow \/ recorded = {}
        /\ window # NoWindow =>
             Ids(shown) = {d.id : d \in {e \in recorded : InWindow(e, window)}}
  BY <1>1
<1>6. QED
  BY <1>3, <1>4, <1>5, Zenon DEF RangesNest

-----------------------------------------------------------------------------
(* Latency. *)

Samples(D) == {d \in D : ExtractLatency(d) # Missing}
Latencies(D) == [d \in D |-> ToNumber(ExtractLatency(d))]
SampleOnes(D) == [d \in D |-> IF ExtractLatency(d) # Missing THEN 1 ELSE 0]

LEMMA ExtractedIs ==
  ASSUME NEW d \in DetailRecord
  PROVE  /\ ExtractLatency(d) \in Int \cup {Missing} /\ ToNumber(ExtractLatency(d)) \in Int
         /\ ExtractLatency(d) # Missing => ToNumber(ExtractLatency(d)) = ExtractLatency(d)
         /\ ExtractLatency(d) = Missing => ToNumber(ExtractLatency(d)) = 0
BY DEF ExtractLatency, DetailRecord, ToNumber

LEMMA SampleCountIs ==
  ASSUME NEW D, DetailsOK(D), NEW S, S \subseteq D
  PROVE  LatencyStats(S).sampleCount = SumOver(SampleOnes(D), S)
<1>1. LatencyStats(S).sampleCount = Cardinality(Samples(S))
  BY DEF LatencyStats, Samples
<1>2. IsFiniteSet(S) /\ Samples(S) \in SUBSET S
  BY SubsetOK DEF DetailsOK, Samples
<1>3. \A d \in Samples(S) : SampleOnes(D)[d] = 1
  BY DEF Samples, SampleOnes
<1>4. \A d \in S \ Samples(S) : SampleOnes(D)[d] = 0
  BY DEF Samples, SampleOnes
<1>5. QED
  BY <1>1, <1>2, <1>3, <1>4, CardinalityIs

LEMMA TotalLatencyIs ==
  ASSUME NEW D, DetailsOK(D), NEW S, S \subseteq D
  PROVE  ToNumber(LatencyStats(S).totalMs) = SumOver(Latencies(D), S)
<1> DEFINE T == Samples(S)
           f == Latencies(D)
           g == [d \in T |-> ExtractLatency(d)]
<1>1. LatencyStats(S).totalMs = IF T = {} THEN Missing ELSE SumOf(g)
  BY DEF LatencyStats, Samples
<1>2. IsFiniteSet(S) /\ T \in SUBSET S /\ IsFiniteSet(T)
  <2>1. IsFiniteSet(S) /\ T \in SUBSET S
    BY SubsetOK DEF DetailsOK, Samples
  <2>2. QED
    BY <2>1, FS_Subset
<1>3. \A d \in D : /\ ToNumber(ExtractLatency(d)) \in Int
                   /\ ExtractLatency(d) # Missing => ToNumber(ExtractLatency(d)) = ExtractLatency(d)
                   /\ ExtractLatency(d) = Missing => ToNumber(ExtractLatency(d)) = 0
  BY ExtractedIs DEF DetailsOK
<1>4. \A d \in D : f[d] = ToNumber(ExtractLatency(d))
  BY DEF Latencies
<1>5. \A d \in T : f[d] \in Int /\ f[d] = g[d]
  BY <1>3, <1>4 DEF Samples
<1>6. \A d \in S \ T : f[d] = 0
  BY <1>3, <1>4 DEF Samples
<1> HIDE DEF f, T
<1>7. SumOver(f, S) = SumOver(f, T)
  BY <1>2, <1>5, <1>6, SumOverSupport
<1>8. SumOf(g) = SumOver(f, T)
  <2>1. SumOf(g) = SumOver(g, T)
    BY SumOfIs
  <2> HIDE DEF g
  <2>2. QED
    BY <1>2, <1>5, <2>1, SumOverSame
<1>9. SumOver(f, T) \in Int
  BY <1>2, <1>5, SumOverInt
<1> HIDE DEF g
<1>10. CASE T = {}
  <2>1. LatencyStats(S).totalMs = Missing
    BY <1>1, <1>10
  <2>2. SumOver(f, T) = 0
    BY <1>10, SumOverEmpty
  <2>3. ToNumber(Missing) = 0
    BY DEF ToNumber
  <2>4. QED
    BY <1>7, <2>1, <2>2, <2>3 DEF f
<1>11. CASE T # {}
  <2>1. LatencyStats(S).totalMs = SumOver(f, T)
    BY <1>1, <1>8, <1>11
  <2>2. ToNumber(SumOver(f, T)) = SumOver(f, T)
    BY <1>9, ToNumberOf
  <2>3. QED
    BY <1>7, <2>1, <2>2 DEF f
<1>12. QED
  BY <1>10, <1>11

-----------------------------------------------------------------------------
(* The rows of the model statistics. *)

RowName(d) == IF d.model = "" THEN "-" ELSE d.model
RowNames(D) == {RowName(d) : d \in D}
OfRow(D, m) == {d \in D : RowName(d) = m}

LEMMA ModelStatsAre ==
  ASSUME NEW usage
  PROVE  DOMAIN GetModelStats(usage) = RowNames(CollectUsageDetails(usage))
BY DEF GetModelStats, RowNames, RowName

LEMMA ModelStatsOf ==
  ASSUME NEW usage, NEW m \in RowNames(CollectUsageDetails(usage))
  PROVE  /\ GetModelStats(usage)[m].latency.sampleCount
              = LatencyStats(OfRow(CollectUsageDetails(usage), m)).sampleCount
         /\ GetModelStats(usage)[m].latency.totalMs
              = ToNumber(LatencyStats(OfRow(CollectUsageDetails(usage), m)).totalMs)
         /\ GetModelStats(usage)[m].cost = TotalCost(OfRow(CollectUsageDetails(usage), m))
BY DEF GetModelStats, LatencyStats, RowNames, RowName, OfRow

LEMMA SumByRow ==
  ASSUME NEW D, IsFiniteSet(D), NEW f, \A d \in D : f[d] \in Int,
         NEW g, \A m \in RowNames(D) : g[m] = SumOver(f, OfRow(D, m))
  PROVE  SumOver(g, RowNames(D)) = SumOver(f, D)
<1> DEFINE key == [d \in D |-> RowName(d)]
<1>1. \A d \in D : f[d] \in Int /\ key[d] \in RowNames(D)
  BY DEF RowNames
<1>2. \A m \in RowNames(D) : g[m] = SumOver(f, Fibre(D, key, m))
  <2> TAKE m \in RowNames(D)
  <2>1. Fibre(D, key, m) = OfRow(D, m)
    BY DEF Fibre, OfRow
  <2>2. QED
    BY <2>1
<1>3. IsFiniteSet(RowNames(D))
  <2>1. RowNames(D) = {key[d] : d \in D}
    BY DEF RowNames
  <2> HIDE DEF key
  <2>2. QED
    BY <2>1, ImageFinite
<1> HIDE DEF key
<1>4. QED
  BY <1>1, <1>2, <1>3, SumByKey

LEMMA LatenciesAddUp ==
  ASSUME FiguresInv
  PROVE  LET models == GetModelStats(Payload)
             all == LatencyStats(CollectUsageDetails(Payload))
         IN  /\ SumOf([m \in DOMAIN models |-> models[m].latency.sampleCount]) = all.sampleCount
             /\ SumOf([m \in DOMAIN models |-> models[m].latency.totalMs])
                  = ToNumber(all.totalMs)
<1> DEFINE C == Collected
           models == GetModelStats(Payload)
           counts == [m \in DOMAIN models |-> models[m].latency.sampleCount]
           totals == [m \in DOMAIN models |-> models[m].latency.totalMs]
<1>1. CollectUsageDetails(Payload) = C /\ DetailsOK(C) /\ IsFiniteSet(C)
  BY PayloadIs DEF DetailsOK
<1>2. DOMAIN models = RowNames(C)
  BY <1>1, ModelStatsAre
<1>3. \A m \in RowNames(C) :
        /\ models[m].latency.sampleCount = LatencyStats(OfRow(C, m)).sampleCount
        /\ models[m].latency.totalMs = ToNumber(LatencyStats(OfRow(C, m)).totalMs)
  BY <1>1, ModelStatsOf
<1>4. \A m \in RowNames(C) : OfRow(C, m) \subseteq C
  BY DEF OfRow
<1>5. /\ \A m \in RowNames(C) : counts[m] = SumOver(SampleOnes(C), OfRow(C, m))
      /\ \A m \in RowNames(C) : totals[m] = SumOver(Latencies(C), OfRow(C, m))
  BY <1>1, <1>2, <1>3, <1>4, SampleCountIs, TotalLatencyIs
<1>6. \A d \in C : SampleOnes(C)[d] \in Int /\ Latencies(C)[d] \in Int
  <2>1. \A d \in C : ToNumber(ExtractLatency(d)) \in Int
    BY <1>1, ExtractedIs DEF DetailsOK
  <2>2. QED
    BY <2>1 DEF SampleOnes, Latencies
<1>7. SumOf(counts) = SumOver(counts, RowNames(C)) /\ SumOf(totals) = SumOver(totals, RowNames(C))
  BY <1>2, SumOfIs
<1>8. /\ LatencyStats(C).sampleCount = SumOver(SampleOnes(C), C)
      /\ ToNumber(LatencyStats(C).totalMs) = SumOver(Latencies(C), C)
  BY <1>1, SampleCountIs, TotalLatencyIs
<1> HIDE DEF C, models, counts, totals
<1>9. SumOver(counts, RowNames(C)) = SumOver(SampleOnes(C), C)
  BY <1>1, <1>5, <1>6, SumByRow
<1>10. SumOver(totals, RowNames(C)) = SumOver(Latencies(C), C)
  BY <1>1, <1>5, <1>6, SumByRow
<1>11. QED
  BY <1>1, <1>7, <1>8, <1>9, <1>10 DEF counts, totals, models

-----------------------------------------------------------------------------
(* The newest requests. *)

LEMMA BoundsMissing ==
  ASSUME NEW D, DetailsOK(D)
  PROVE  DetailTimestampBounds(D) = Missing <=> Times(D) = {}
<1> DEFINE bounds == [earliest |-> Min(Times(D)), latest |-> Max(Times(D))]
<1>1. DetailTimestampBounds(D) = IF Times(D) = {} THEN Missing ELSE bounds
  BY DEF DetailTimestampBounds, Times
<1>2. Times(D) # {} => bounds # Missing
  <2>1. IsFiniteSet(Times(D)) /\ Times(D) \subseteq Int
    BY TimesAre
  <2>2. Times(D) # {} => Min(Times(D)) \in Int /\ Max(Times(D)) \in Int
    BY <2>1, MinIs, MaxIs
  <2>3. Times(D) # {} => bounds \in [earliest : Int, latest : Int]
    BY <2>2
  <2>4. QED
    BY <2>3, FiguresAssumption
<1>3. QED
  BY <1>1, <1>2

Latest == DetailTimestampBounds(recorded).latest
RecentRequests == {d \in recorded : Dated(d) /\ d.at >= Latest - RateTicks}

LEMMA RateIs ==
  ASSUME FiguresInv
  PROVE  BuildRateStats(Payload).requestCount
           = IF Times(recorded) = {} THEN 0 ELSE Cardinality(RecentRequests)
<1>1. DetailTimestampBounds(recorded) = Missing <=> Times(recorded) = {}
  BY PayloadIs, BoundsMissing
<1>2. BuildRateStats(Payload).requestCount
        = Cardinality(IF DetailTimestampBounds(recorded) = Missing THEN {} ELSE RecentRequests)
  BY PayloadIs DEF BuildRateStats, RecentRequests, Latest
<1>3. QED
  BY <1>1, <1>2, FS_EmptySet

LEMMA LatestIs ==
  ASSUME FiguresInv, Times(recorded) # {}
  PROVE  /\ Latest \in Nat /\ DetailTimestampBounds(recorded) # Missing
         /\ \E d \in recorded : Dated(d) /\ d.at = Latest
         /\ \A d \in recorded : Dated(d) => d.at <= Latest
BY PayloadIs, BoundsMissing, BoundsAre DEF Latest, Times

LEMMA RecentAre ==
  ASSUME FiguresInv
  PROVE  /\ RecentRequests \subseteq recorded /\ IsFiniteSet(RecentRequests)
         /\ Cardinality(RecentRequests) \in Nat
<1>1. IsFiniteSet(recorded) /\ RecentRequests \in SUBSET recorded
  BY DEF FiguresInv, RecentRequests
<1>2. QED
  BY <1>1, FS_Subset, FS_CardinalityType

LEMMA RateOfDated ==
  ASSUME FiguresInv
  PROVE  BuildRateStats(Payload).requestCount > 0 <=> \E d \in recorded : Dated(d)
<1>1. CASE Times(recorded) = {}
  <2>1. \A d \in recorded : ~Dated(d)
    BY <1>1 DEF Times
  <2>2. BuildRateStats(Payload).requestCount = 0
    BY <1>1, RateIs
  <2>3. QED
    BY <2>1, <2>2
<1>2. CASE Times(recorded) # {}
  <2>1. PICK d \in recorded : Dated(d) /\ d.at = Latest
    BY <1>2, LatestIs
  <2>2. Latest >= Latest - RateTicks
    BY <1>2, LatestIs, DetailsAssumption
  <2>3. d \in RecentRequests
    BY <2>1, <2>2 DEF RecentRequests
  <2>4. Cardinality(RecentRequests) # 0 /\ Cardinality(RecentRequests) \in Nat
    BY <2>3, RecentAre, FS_EmptySet
  <2>5. QED
    BY <1>2, <2>1, <2>4, RateIs
<1>3. QED
  BY <1>1, <1>2

LEMMA RateInPreset ==
  ASSUME FiguresInv, NEW r \in DOMAIN PresetHours
  PROVE  \/ PresetHours[r] * HourTicks < RateTicks
         \/ BuildRateStats(Payload).requestCount
              <= FilterUsageSnapshot(Payload, r, clock).tally.total_requests
<1>1. PICK p \in Nat, n \in Nat : p = PresetHours[r] * HourTicks /\ n = RateTicks
  BY PresetStart, DetailsAssumption
<1>2. CASE Times(recorded) = {}
  <2>1. FilterUsageSnapshot(Payload, r, clock) = Payload
    BY <1>2, PayloadIs, BoundsMissing DEF FilterUsageSnapshot
  <2>2. Payload.tally = Tally(TokensOf(recorded))
    BY SnapshotTally DEF Payload
  <2>3. Payload.tally.total_requests = Cardinality(DOMAIN TokensOf(recorded))
    BY <2>2 DEF Tally
  <2>4. DOMAIN TokensOf(recorded) = recorded /\ IsFiniteSet(recorded)
    BY PayloadIs, TokensOfOK DEF FiguresInv
  <2>5. Payload.tally.total_requests \in Nat
    BY <2>3, <2>4, FS_CardinalityType
  <2>6. QED
    BY <1>2, <2>1, <2>5, RateIs
<1>3. CASE Times(recorded) # {} /\ ~(p < n)
  <2>1. PICK last \in Nat : last = Latest
    BY <1>3, LatestIs
  <2>2. FilterUsageSnapshot(Payload, r, clock) = Snapshot(OlderTokens(r)) /\ DOMAIN OlderTokens(r) = Older(r)
    BY <1>3, LatestIs, OlderIs
  <2>3. FilterUsageSnapshot(Payload, r, clock).tally.total_requests = Cardinality(Older(r))
    <3>1. FilterUsageSnapshot(Payload, r, clock).tally = Tally(OlderTokens(r))
      BY <2>2, SnapshotTally
    <3>2. Tally(OlderTokens(r)).total_requests = Cardinality(DOMAIN OlderTokens(r))
      BY DEF Tally
    <3>3. QED
      BY <2>2, <3>1, <3>2
  <2>4. RecentRequests \subseteq Older(r)
    <3>1. Older(r) = {d \in recorded : Dated(d) /\ d.at >= last - p}
      BY <1>1, <2>1 DEF Older, Latest
    <3>2. RecentRequests = {d \in recorded : Dated(d) /\ d.at >= last - n}
      BY <1>1, <2>1 DEF RecentRequests
    <3>3. \A d \in recorded : d.at \in Int
      BY MomentsAre
    <3>4. \A d \in recorded : d.at >= last - n => d.at >= last - p
      BY <1>3, <3>3
    <3>5. QED
      BY <3>1, <3>2, <3>4
  <2>5. IsFiniteSet(Older(r))
    <3>1. Older(r) \in SUBSET recorded /\ IsFiniteSet(recorded)
      BY DEF Older, FiguresInv
    <3>2. QED
      BY <3>1, FS_Subset
  <2>6. Cardinality(RecentRequests) <= Cardinality(Older(r))
    BY <2>4, <2>5, FS_Subset
  <2>7. QED
    BY <1>3, <2>3, <2>6, RateIs
<1>4. QED
  BY <1>1, <1>2, <1>3

-----------------------------------------------------------------------------
(* The recent list. *)

LEMMA RecentListIs ==
  ASSUME FiguresInv, NEW recent \in BuildRecentEvents(Payload)
  PROVE  /\ recent \subseteq recorded /\ IsFiniteSet(recent)
         /\ Cardinality(recent) <= RecentLimit
         /\ \A d \in recent, e \in recorded \ recent : d.at >= e.at
<1>1. /\ recent \in kSubset(Smaller(RecentLimit, Cardinality(recorded)), recorded)
      /\ \A d \in recent, e \in recorded \ recent : d.at >= e.at
  BY PayloadIs DEF BuildRecentEvents
<1>2. recent \in SUBSET recorded /\ Cardinality(recent) = Smaller(RecentLimit, Cardinality(recorded))
  BY <1>1 DEF kSubset
<1>3. IsFiniteSet(recorded) /\ Cardinality(recorded) \in Nat
  BY FS_CardinalityType DEF FiguresInv
<1>4. Smaller(RecentLimit, Cardinality(recorded)) <= RecentLimit
  BY <1>3, DetailsAssumption DEF Smaller
<1>5. QED
  BY <1>1, <1>2, <1>3, <1>4, FS_Subset

LEMMA RecentListIsRecent ==
  ASSUME FiguresInv, NEW recent \in BuildRecentEvents(Payload),
         BuildRateStats(Payload).requestCount >= RecentLimit, NEW d \in recent
  PROVE  d.at >= Latest - RateTicks
<1>1. /\ recent \subseteq recorded /\ IsFiniteSet(recent) /\ Cardinality(recent) <= RecentLimit
      /\ \A e \in recorded \ recent : d.at >= e.at
  BY RecentListIs
<1>2. Cardinality(recent \ {d}) = Cardinality(recent) - 1 /\ IsFiniteSet(recent \ {d})
      /\ Cardinality(recent) \in Nat /\ Cardinality(recent) # 0
  BY <1>1, FS_RemoveElement, FS_CardinalityType, FS_EmptySet
<1>3. RecentLimit \in Nat /\ RateTicks \in Nat
  BY DetailsAssumption
<1>4. Times(recorded) # {} /\ Cardinality(RecentRequests) >= RecentLimit
  BY <1>1, <1>2, <1>3, RateIs
<1>5. SUFFICES ASSUME ~(d.at >= Latest - RateTicks) PROVE FALSE
  OBVIOUS
<1>6. PICK last \in Nat, n \in Nat : last = Latest /\ n = RateTicks
  BY <1>3, <1>4, LatestIs
<1>7. \A e \in recorded : e.at \in Int
  BY MomentsAre
<1>8. RecentRequests \subseteq recent \ {d}
  <2> SUFFICES ASSUME NEW e \in RecentRequests PROVE e \in recent \ {d}
    OBVIOUS
  <2>1. e \in recorded /\ e.at >= last - n
    BY <1>6 DEF RecentRequests
  <2>2. d \in recorded /\ ~(d.at >= last - n)
    BY <1>1, <1>5, <1>6
  <2>3. ~(d.at >= e.at)
    BY <1>7, <2>1, <2>2
  <2>4. QED
    BY <1>1, <2>1, <2>2, <2>3
<1>9. Cardinality(RecentRequests) <= Cardinality(recent \ {d})
  BY <1>2, <1>8, FS_Subset
<1>10. Cardinality(RecentRequests) \in Nat
  BY RecentAre
<1>11. QED
  BY <1>1, <1>2, <1>3, <1>4, <1>9, <1>10

-----------------------------------------------------------------------------
(* The series of a trend. *)

LEMMA SeriesKept ==
  ASSUME FiguresInv, \A d \in recorded : Dated(d),
         NEW kept \in BuildSeriesTrends(Payload, "model", "requests")
  PROVE  /\ Cardinality(kept) = TopSeries \/ kept = {d.model : d \in recorded}
         /\ \A m \in kept : SumOf(SeriesOf(Payload, "model", "requests")[m])
                             = Cardinality({d \in recorded : d.model = m})
<1> DEFINE K == NamesIn(recorded, "model")
           Of(m) == {d \in recorded : d.model = m}
           One(m) == [d \in Of(m) |-> SeriesValue("requests", d)]
<1>0. ~Throws(CollectUsageEvents(Payload)) /\ CollectUsageEvents(Payload) = recorded
  BY PayloadIs DEF Throws
<1>1. /\ DOMAIN SeriesOf(Payload, "model", "requests") = K
      /\ \A m \in K : SeriesOf(Payload, "model", "requests")[m] = Sums("hour", One(m))
  BY <1>0 DEF SeriesOf, NamesIn
<1>2. kept \in kSubset(Smaller(TopSeries, Cardinality(K)), K)
  BY <1>0, <1>1 DEF BuildSeriesTrends
<1>3. kept \in SUBSET K /\ Cardinality(kept) = Smaller(TopSeries, Cardinality(K))
  BY <1>2 DEF kSubset
<1>4. IsFiniteSet(K)
  BY NamesFinite DEF FiguresInv
<1>5. Cardinality(kept) = TopSeries \/ Cardinality(kept) = Cardinality(K)
  BY <1>3 DEF Smaller
<1>6. Cardinality(kept) = Cardinality(K) => kept = K
  BY <1>3, <1>4, FS_Subset
<1>7. ASSUME NEW m \in K PROVE SumOf(Sums("hour", One(m))) = Cardinality(Of(m))
  <2> DEFINE v == One(m)
  <2>1. IsFiniteSet(Of(m)) /\ DOMAIN v = Of(m) /\ \A d \in Of(m) : v[d] = 1
    <3>1. IsFiniteSet(recorded)
      BY PayloadIs DEF DetailsOK
    <3>2. QED
      BY <3>1, FS_Subset DEF SeriesValue
  <2> DEFINE S == Of(m)
  <2> HIDE DEF v, S
  <2>2. SumOf(Sums("hour", v)) = SumOver(v, S)
    BY <2>1, AllBucketsSum DEF S
  <2>3. QED
    BY <2>1, <2>2, SumOverOnes DEF v, S
<1>8. QED
  BY <1>1, <1>3, <1>5, <1>6, <1>7 DEF NamesIn

LEMMA RatesDoAgree == ASSUME FiguresInv PROVE RatesAgree
<1>1. BuildRateStats(Payload).requestCount > 0 <=> \E d \in recorded : Dated(d)
  BY RateOfDated
<1>2. \A r \in DOMAIN PresetHours :
        \/ PresetHours[r] * HourTicks < RateTicks
        \/ BuildRateStats(Payload).requestCount
             <= FilterUsageSnapshot(Payload, r, clock).tally.total_requests
  BY RateInPreset
<1>3. \A recent \in BuildRecentEvents(Payload) :
        BuildRateStats(Payload).requestCount >= RecentLimit =>
          \A d \in recent : d.at >= DetailTimestampBounds(recorded).latest - RateTicks
  BY RecentListIsRecent DEF Latest
<1>4. (\A d \in recorded : Dated(d)) =>
        \A kept \in BuildSeriesTrends(Payload, "model", "requests") :
          /\ Cardinality(kept) = TopSeries \/ kept = {d.model : d \in recorded}
          /\ \A m \in kept : SumOf(SeriesOf(Payload, "model", "requests")[m])
                              = Cardinality({d \in recorded : d.model = m})
  BY SeriesKept
<1>5. QED
  BY <1>1, <1>2, <1>3, <1>4, LatenciesAddUp, Zenon DEF RatesAgree

-----------------------------------------------------------------------------
(* What a detail costs, by either formula. *)

Uncharged(d) == Bigger(d.input - CachedTokens(d), 0)

LEMMA CostFormula ==
  ASSUME NEW d \in DetailRecord
  PROVE  CalculateCost(d)
           = IF d.model \notin DOMAIN ModelPrices THEN 0
             ELSE Uncharged(d) * PriceOf(d.model).prompt + d.output * PriceOf(d.model).completion
                  + CachedTokens(d) * PriceOf(d.model).cache
<1>1. /\ ToNumber(d.input) = d.input /\ ToNumber(d.output) = d.output
      /\ d.input \in Nat /\ d.output \in Nat
  BY TokenParts DEF DetailRecord
<1>2. Bigger(d.input, 0) = d.input /\ Bigger(d.output, 0) = d.output
  BY <1>1 DEF Bigger
<1>3. QED
  BY <1>1, <1>2, Zenon DEF CalculateCost, Uncharged, PriceOf

LEMMA UnchargedNat ==
  ASSUME NEW d \in DetailRecord
  PROVE  Uncharged(d) \in Nat /\ Uncharged(d) <= d.input
<1>1. d.input \in Nat /\ CachedTokens(d) \in Nat
  BY TokenParts DEF DetailRecord
<1>2. QED
  BY <1>1 DEF Uncharged, Bigger

LEMMA DetailCostNat ==
  ASSUME NEW d \in DetailRecord
  PROVE  CalculateCost(d) \in Nat
<1>1. CASE d.model \notin DOMAIN ModelPrices
  BY <1>1, CostFormula
<1>2. CASE d.model \in DOMAIN ModelPrices
  <2>1. PICK x \in Nat, y \in Nat, z \in Nat, p \in Nat, q \in Nat, r \in Nat :
          /\ x = Uncharged(d) /\ y = d.output /\ z = CachedTokens(d)
          /\ p = PriceOf(d.model).prompt /\ q = PriceOf(d.model).completion
          /\ r = PriceOf(d.model).cache
    BY <1>2, UnchargedNat, TokenParts, PricesOK DEF DetailRecord
  <2>2. CalculateCost(d) = x * p + y * q + z * r
    BY <1>2, <2>1, CostFormula
  <2>3. x * p \in Nat /\ y * q \in Nat /\ z * r \in Nat
    OBVIOUS
  <2>4. QED
    BY <2>2, <2>3
<1>3. QED
  BY <1>1, <1>2

LEMMA TimedCost ==
  ASSUME NEW d \in DetailRecord
  PROVE  CalculateCost(Timed(d)) = CalculateCost(d)
<1> DEFINE e == Timed(d)
<1>1. e \in DetailRecord
  BY TimedIs
<1>2. /\ e.input = d.input /\ e.output = d.output /\ e.model = d.model
      /\ e.cached = d.cached /\ e.cache = d.cache
  <2>1. \A x \in {"model", "input", "output", "cached", "cache"} : e[x] = d[x]
    BY TimedIs
  <2> HIDE DEF e
  <2>2. QED
    BY <2>1
<1> HIDE DEF e
<1>3. CachedTokens(e) = CachedTokens(d)
  BY <1>2 DEF CachedTokens
<1>4. Uncharged(e) = Uncharged(d)
  BY <1>2, <1>3 DEF Uncharged
<1>5. CalculateCost(e) = CalculateCost(d)
  BY <1>1, <1>2, <1>3, <1>4, CostFormula, Zenon
<1>6. QED
  BY <1>5 DEF e

LEMMA EventCostFormula ==
  ASSUME NEW d \in DetailRecord
  PROVE  CalculateEventCost(d)
           = IF d.model \notin DOMAIN ModelPrices THEN 0
             ELSE d.input * PriceOf(d.model).prompt + d.output * PriceOf(d.model).completion
                  + d.cached * PriceOf(d.model).cache
<1>1. d.input \in Nat /\ d.output \in Nat /\ d.cached \in Nat
  BY DEF DetailRecord
<1>2. CASE d.model \notin DOMAIN ModelPrices
  BY <1>1, <1>2 DEF CalculateEventCost, GetPrice
<1>3. CASE d.model \in DOMAIN ModelPrices
  <2>1. GetPrice(d) = PriceOf(d.model)
    BY <1>3 DEF GetPrice, PriceOf
  <2>2. QED
    BY <1>3, <2>1 DEF CalculateEventCost
<1>4. QED
  BY <1>2, <1>3

LEMMA EventCostNat ==
  ASSUME NEW d \in DetailRecord
  PROVE  CalculateEventCost(d) \in Nat
<1>1. CASE d.model \notin DOMAIN ModelPrices
  BY <1>1, EventCostFormula
<1>2. CASE d.model \in DOMAIN ModelPrices
  <2>1. PICK x \in Nat, y \in Nat, z \in Nat, p \in Nat, q \in Nat, r \in Nat :
          /\ x = d.input /\ y = d.output /\ z = d.cached
          /\ p = PriceOf(d.model).prompt /\ q = PriceOf(d.model).completion
          /\ r = PriceOf(d.model).cache
    BY <1>2, PricesOK DEF DetailRecord
  <2>2. CalculateEventCost(d) = x * p + y * q + z * r
    BY <1>2, <2>1, EventCostFormula
  <2>3. x * p \in Nat /\ y * q \in Nat /\ z * r \in Nat
    OBVIOUS
  <2>4. QED
    BY <2>2, <2>3
<1>3. QED
  BY <1>1, <1>2

(* A detail that has been rebuilt has its cached tokens in one place. *)
LEMMA FormulasCompare ==
  ASSUME NEW d \in DetailRecord, d.cache = Missing
  PROVE  /\ CalculateCost(d) <= CalculateEventCost(d)
         /\ d.cached = 0 => CalculateCost(d) = CalculateEventCost(d)
<1>1. CachedTokens(d) = d.cached /\ d.input \in Nat /\ d.cached \in Nat /\ d.output \in Nat
  <2>1. d.input \in Nat /\ d.cached \in Nat /\ d.output \in Nat /\ ToNumber(d.cached) = d.cached
    BY TokenParts DEF DetailRecord
  <2>2. ToNumber(d.cache) = 0
    BY DEF ToNumber
  <2>3. QED
    BY <2>1, <2>2 DEF CachedTokens, Bigger
<1>2. CASE d.model \notin DOMAIN ModelPrices
  BY <1>2, CostFormula, EventCostFormula
<1>3. CASE d.model \in DOMAIN ModelPrices
  <2>1. PICK x \in Nat, i \in Nat, y \in Nat, z \in Nat, p \in Nat, q \in Nat, r \in Nat :
          /\ x = Uncharged(d) /\ i = d.input /\ y = d.output /\ z = d.cached
          /\ p = PriceOf(d.model).prompt /\ q = PriceOf(d.model).completion
          /\ r = PriceOf(d.model).cache
    BY <1>1, <1>3, UnchargedNat, PricesOK
  <2>2. CalculateCost(d) = x * p + y * q + z * r
    BY <1>1, <1>3, <2>1, CostFormula
  <2>3. CalculateEventCost(d) = i * p + y * q + z * r
    BY <1>3, <2>1, EventCostFormula
  <2>4. x <= i /\ (z = 0 => x = i)
    <3>1. x <= i
      BY <2>1, UnchargedNat
    <3>2. x = Bigger(i - z, 0)
      BY <1>1, <2>1 DEF Uncharged
    <3>3. z = 0 => x = i
      BY <3>2 DEF Bigger
    <3>4. QED
      BY <3>1, <3>3
  <2>5. PICK a \in Nat, b \in Nat, c \in Nat, e \in Nat : a = x * p /\ b = i * p /\ c = y * q /\ e = z * r
    OBVIOUS
  <2>6. a <= b
    BY <2>4, <2>5
  <2>7. z = 0 => a = b
    BY <2>4, <2>5
  <2>8. CalculateCost(d) = a + c + e /\ CalculateEventCost(d) = b + c + e
    BY <2>2, <2>3, <2>5
  <2>9. QED
    BY <2>1, <2>6, <2>7, <2>8
<1>4. QED
  BY <1>2, <1>3

LEMMA NormalIs ==
  ASSUME FiguresInv, NEW d \in Normal
  PROVE  d \in DetailRecord /\ d.cache = Missing
<1> DEFINE R == ImageOf(RebuiltOf(recorded), recorded)
<1>1. DetailsOK(recorded) /\ DetailsOK(R)
  BY PayloadIs, RebuiltOK
<1>2. DOMAIN TokensOf(R) = R
  BY <1>1, TokensOfOK
<1>3. Normal = ImageOf(TimedOf(R), R)
  BY <1>2, RebuiltIsSnapshot, SnapshotCollected DEF Normal
<1>4. PICK r \in R : d = Timed(r)
  <2> HIDE DEF R
  <2> QED
    BY <1>3 DEF ImageOf, TimedOf
<1>5. PICK e \in recorded : r = Rebuilt(e)
  BY DEF ImageOf, RebuiltOf
<1>6. e \in DetailRecord
  BY <1>1 DEF DetailsOK
<1>7. d = Rebuilt(e)
  BY <1>4, <1>5, <1>6, RebuiltTimed
<1>8. QED
  BY <1>6, <1>7, RebuiltIs

-----------------------------------------------------------------------------
(* Adding up costs. *)

Costs(D) == [d \in D |-> CalculateCost(d)]
EventCosts(D) == [d \in D |-> CalculateEventCost(d)]

LEMMA CostsInt ==
  ASSUME NEW D, DetailsOK(D), NEW d \in D
  PROVE  Costs(D)[d] \in Nat /\ EventCosts(D)[d] \in Nat
BY DetailCostNat, EventCostNat DEF DetailsOK, Costs, EventCosts

LEMMA TotalCostIs ==
  ASSUME NEW D, DetailsOK(D), NEW S, S \subseteq D
  PROVE  TotalCost(S) = SumOver(Costs(D), S)
<1>1. TotalCost(S) = SumOf(Costs(S))
  BY DEF TotalCost, Costs
<1>2. DOMAIN Costs(S) = S /\ IsFiniteSet(S) /\ \A d \in S : Costs(D)[d] = Costs(S)[d]
  BY SubsetOK DEF Costs, DetailsOK
<1>3. SumOf(Costs(S)) = SumOver(Costs(D), S)
  BY <1>2, SumOfOver
<1>4. QED
  BY <1>1, <1>3

LEMMA EventsCostIs ==
  ASSUME NEW D, DetailsOK(D), NEW S, S \subseteq D
  PROVE  EventsCost(S) = SumOver(EventCosts(D), S)
<1>1. EventsCost(S) = SumOf(EventCosts(S))
  BY DEF EventsCost, EventCosts
<1>2. DOMAIN EventCosts(S) = S /\ IsFiniteSet(S) /\ \A d \in S : EventCosts(D)[d] = EventCosts(S)[d]
  BY SubsetOK DEF EventCosts, DetailsOK
<1>3. SumOf(EventCosts(S)) = SumOver(EventCosts(D), S)
  BY <1>2, SumOfOver
<1>4. QED
  BY <1>1, <1>3

(* Sums per model, added up per API, and these added up. *)
LEMMA SumByCells ==
  ASSUME NEW D, IsFiniteSet(D), NEW f, \A d \in D : f[d] \in Int, NEW h, NEW g,
         \A a \in NamesIn(D, "api") :
           /\ g[a] = SumOf(h[a]) /\ DOMAIN h[a] = NamesIn(PartAt(D, a), "model")
           /\ \A m \in NamesIn(PartAt(D, a), "model") : h[a][m] = SumOver(f, CellAt(D, a, m))
  PROVE  SumOver(g, NamesIn(D, "api")) = SumOver(f, D)
<1>1. ASSUME NEW a \in NamesIn(D, "api") PROVE g[a] = SumOver(f, PartAt(D, a))
  <2> DEFINE M == NamesIn(PartAt(D, a), "model")
             c == h[a]
  <2>1. g[a] = SumOf(c) /\ DOMAIN c = M /\ \A m \in M : c[m] = SumOver(f, CellAt(D, a, m))
    OBVIOUS
  <2>2. SumOf(c) = SumOver(c, M)
    BY <2>1, SumOfIs
  <2>3. SumOver(c, M) = SumOver(f, PartAt(D, a))
    <3> HIDE DEF c
    <3> QED
      BY <2>1, SumByModelAt
  <2>4. QED
    BY <2>1, <2>2, <2>3
<1>2. \A a \in NamesIn(D, "api") : g[a] = SumOver(f, PartAt(D, a))
  BY <1>1
<1>3. QED
  BY <1>2, SumByApi

LEMMA PayloadApis ==
  ASSUME FiguresInv
  PROVE  DOMAIN Payload.apis = NamesIn(recorded, "api")
<1>1. ApisOf(Payload) = NamesIn(recorded, "api")
  BY PayloadIs, TokensOfOK, SnapshotApis DEF Payload
<1>2. QED
  BY <1>1 DEF ApisOf

LEMMA PayloadModels ==
  ASSUME FiguresInv, NEW a \in NamesIn(recorded, "api")
  PROVE  DOMAIN Payload.apis[a].models = NamesIn(PartAt(recorded, a), "model")
<1>1. ModelsAt(Payload, a) = NamesIn(PartAt(recorded, a), "model")
  BY PayloadIs, TokensOfOK, SnapshotModels DEF Payload
<1>2. QED
  BY <1>1 DEF ModelsAt

LEMMA PayloadDetails ==
  ASSUME FiguresInv, NEW a \in NamesIn(recorded, "api"),
         NEW m \in NamesIn(PartAt(recorded, a), "model")
  PROVE  Payload.apis[a].models[m].details = CellAt(recorded, a, m)
<1>1. DetailsAt(Payload, a, m) = CellAt(recorded, a, m)
  BY PayloadIs, TokensOfOK, SnapshotDetailsAt DEF Payload
<1>2. QED
  BY <1>1 DEF DetailsAt

LEMMA CollectedCosts ==
  ASSUME FiguresInv
  PROVE  TotalCost(Collected) = SumOver(Costs(recorded), recorded)
<1> DEFINE h == TimedOf(recorded)
           f == Costs(Collected)
           g == Costs(recorded)
<1>1. DetailsOK(recorded) /\ DetailsOK(Collected) /\ IsFiniteSet(recorded)
  BY PayloadIs DEF DetailsOK
<1>2. TotalCost(Collected) = SumOver(f, Collected)
  BY <1>1, TotalCostIs
<1>3. OneToOne(h, recorded)
  BY <1>1, TimedOneToOne
<1>4. \A d \in recorded : f[h[d]] \in Int /\ g[d] = f[h[d]]
  <2> TAKE d \in recorded
  <2>1. h[d] = Timed(d) /\ Timed(d) \in Collected /\ d \in DetailRecord
    BY <1>1, CollectedIs DEF TimedOf, DetailsOK
  <2>2. f[Timed(d)] = CalculateCost(Timed(d)) /\ f[Timed(d)] \in Nat
    BY <1>1, <2>1, CostsInt DEF Costs
  <2>3. g[d] = CalculateCost(d)
    BY DEF Costs
  <2>4. CalculateCost(Timed(d)) = CalculateCost(d)
    BY <2>1, TimedCost
  <2> HIDE DEF f, g, h
  <2>5. QED
    BY <2>1, <2>2, <2>3, <2>4
<1>5. SumOver(f, ImageOf(h, recorded)) = SumOver(g, recorded)
  <2> HIDE DEF f, g, h
  <2> QED
    BY <1>1, <1>3, <1>4, SumOverImage
<1>6. QED
  BY <1>2, <1>5 DEF Collected

LEMMA ApisCost ==
  ASSUME FiguresInv
  PROVE  SumOf([a \in DOMAIN GetApiStats(Payload) |-> GetApiStats(Payload)[a].totalCost])
           = TotalCost(CollectUsageDetails(Payload))
<1> DEFINE A == NamesIn(recorded, "api")
           f == Costs(recorded)
           g == [a \in DOMAIN GetApiStats(Payload) |-> GetApiStats(Payload)[a].totalCost]
           h == [a \in A |-> [m \in DOMAIN Payload.apis[a].models |->
                                TotalCost(Payload.apis[a].models[m].details)]]
<1>1. DetailsOK(recorded) /\ IsFiniteSet(recorded) /\ \A d \in recorded : f[d] \in Int
  BY PayloadIs, CostsInt DEF DetailsOK
<1>2. DOMAIN GetApiStats(Payload) = A
  BY PayloadApis DEF GetApiStats
<1>3. ASSUME NEW a \in A
      PROVE  /\ g[a] = SumOf(h[a]) /\ DOMAIN h[a] = NamesIn(PartAt(recorded, a), "model")
             /\ \A m \in NamesIn(PartAt(recorded, a), "model") :
                  h[a][m] = SumOver(f, CellAt(recorded, a, m))
  <2>1. g[a] = SumOf(h[a])
    BY <1>2, PayloadApis DEF GetApiStats
  <2>2. DOMAIN h[a] = NamesIn(PartAt(recorded, a), "model")
    BY PayloadModels
  <2>3. ASSUME NEW m \in NamesIn(PartAt(recorded, a), "model")
        PROVE  h[a][m] = SumOver(f, CellAt(recorded, a, m))
    <3>1. h[a][m] = TotalCost(Payload.apis[a].models[m].details)
      BY PayloadModels
    <3>2. Payload.apis[a].models[m].details = CellAt(recorded, a, m)
      BY PayloadDetails
    <3>3. TotalCost(CellAt(recorded, a, m)) = SumOver(f, CellAt(recorded, a, m))
      BY <1>1, CellIn, TotalCostIs
    <3>4. QED
      BY <3>1, <3>2, <3>3
  <2>4. QED
    BY <2>1, <2>2, <2>3
<1>4. SumOf(g) = SumOver(g, A)
  BY <1>2, SumOfIs
<1> HIDE DEF f, g, h
<1>5. SumOver(g, A) = SumOver(f, recorded)
  BY <1>1, <1>3, SumByCells
<1>6. QED
  BY <1>4, <1>5, PayloadIs, CollectedCosts DEF f, g

LEMMA ModelsCost ==
  ASSUME FiguresInv
  PROVE  SumOf([m \in DOMAIN GetModelStats(Payload) |-> GetModelStats(Payload)[m].cost])
           = TotalCost(CollectUsageDetails(Payload))
<1> DEFINE C == Collected
           f == Costs(C)
           g == [m \in DOMAIN GetModelStats(Payload) |-> GetModelStats(Payload)[m].cost]
<1>1. CollectUsageDetails(Payload) = C /\ DetailsOK(C) /\ IsFiniteSet(C) /\ \A d \in C : f[d] \in Int
  BY PayloadIs, CostsInt DEF DetailsOK
<1>2. DOMAIN GetModelStats(Payload) = RowNames(C)
  BY <1>1, ModelStatsAre
<1>3. \A m \in RowNames(C) : g[m] = SumOver(f, OfRow(C, m))
  <2> TAKE m \in RowNames(C)
  <2>1. g[m] = TotalCost(OfRow(C, m))
    BY <1>1, <1>2, ModelStatsOf
  <2>2. OfRow(C, m) \subseteq C
    BY DEF OfRow
  <2>3. QED
    BY <1>1, <2>1, <2>2, TotalCostIs
<1>4. SumOf(g) = SumOver(g, RowNames(C))
  BY <1>2, SumOfIs
<1>5. TotalCost(C) = SumOver(f, C)
  BY <1>1, TotalCostIs
<1> HIDE DEF C, f, g
<1>6. SumOver(g, RowNames(C)) = SumOver(f, C)
  BY <1>1, <1>3, SumByRow
<1>7. QED
  BY <1>1, <1>4, <1>5, <1>6 DEF g

LEMMA DailyCost ==
  ASSUME NEW D, DetailsOK(D)
  PROVE  SumOf(DailyCostSeries(D)) = TotalCost({d \in D : Dated(d)})
<1> DEFINE S == {d \in D : Dated(d)}
           v == Costs(S)
<1>1. DailyCostSeries(D) = Sums("day", v)
  BY DEF DailyCostSeries, Costs
<1>2. DetailsOK(S) /\ IsFiniteSet(S) /\ DOMAIN v = S
  <2>1. S \subseteq D
    OBVIOUS
  <2>2. DOMAIN v = S
    BY DEF Costs
  <2> HIDE DEF S
  <2>3. DetailsOK(S)
    BY <2>1, SubsetOK
  <2>4. QED
    BY <2>2, <2>3 DEF DetailsOK
<1> HIDE DEF S
<1>3. \A d \in S : v[d] \in Int
  BY <1>2, CostsInt
<1>4. TotalCost(S) = SumOver(v, S)
  BY <1>2, TotalCostIs
<1> HIDE DEF v
<1>5. SumOf(Sums("day", v)) = SumOver(v, S)
  BY <1>2, <1>3, AllBucketsSum
<1>6. QED
  BY <1>1, <1>4, <1>5 DEF S

LEMMA TrendCost ==
  ASSUME FiguresInv, \A d \in recorded : Dated(d)
  PROVE  SumOf(BuildCostTrendPoints(Payload)) = BuildCostSummary(Payload)
<1> DEFINE D == recorded
           v == EventCosts(D)
<1>1. BuildCostTrendPoints(Payload) = Sums("hour", v) /\ BuildCostSummary(Payload) = EventsCost(D)
  BY PayloadIs DEF BuildCostTrendPoints, BuildCostSummary, EventCosts, Throws
<1>2. DetailsOK(D) /\ IsFiniteSet(D) /\ DOMAIN v = D
  BY PayloadIs DEF DetailsOK, EventCosts
<1>3. \A d \in D : v[d] \in Int
  BY <1>2, CostsInt
<1>4. EventsCost(D) = SumOver(v, D)
  BY <1>2, EventsCostIs
<1> HIDE DEF v, D
<1>5. SumOf(Sums("hour", v)) = SumOver(v, D)
  BY <1>2, <1>3, AllBucketsSum
<1>6. QED
  BY <1>1, <1>4, <1>5

-----------------------------------------------------------------------------
(* The two summaries of the older figures. *)

ModelsOfApi(usage, a) == DOMAIN usage.apis[a].models
EventCostAt(usage, a, m) == EventsCost(usage.apis[a].models[m].details)
SummaryRows(usage, a) == {row \in DOMAIN BuildModelSummary(usage) : row[1] = a}
RowAt(usage, a) == [m \in ModelsOfApi(usage, a) |-> <<a, m>>]

LEMMA SummaryDomain ==
  ASSUME NEW usage
  PROVE  DOMAIN BuildModelSummary(usage)
           = UNION {{a} \X ModelsOfApi(usage, a) : a \in DOMAIN usage.apis}
BY DEF BuildModelSummary, ModelsOfApi

LEMMA SummaryRowsAre ==
  ASSUME NEW usage, NEW a \in DOMAIN usage.apis
  PROVE  SummaryRows(usage, a) = ImageOf(RowAt(usage, a), ModelsOfApi(usage, a))
<1>1. ASSUME NEW row \in SummaryRows(usage, a)
      PROVE  row \in ImageOf(RowAt(usage, a), ModelsOfApi(usage, a))
  <2>1. row \in UNION {{b} \X ModelsOfApi(usage, b) : b \in DOMAIN usage.apis} /\ row[1] = a
    BY SummaryDomain DEF SummaryRows
  <2>2. PICK b \in DOMAIN usage.apis : row \in {b} \X ModelsOfApi(usage, b)
    BY <2>1
  <2>3. PICK m \in ModelsOfApi(usage, b) : row = <<b, m>>
    BY <2>2
  <2>4. b = a
    BY <2>1, <2>3
  <2>5. m \in ModelsOfApi(usage, a) /\ row = RowAt(usage, a)[m]
    BY <2>3, <2>4 DEF RowAt
  <2>6. QED
    BY <2>5 DEF ImageOf
<1>2. ASSUME NEW row \in ImageOf(RowAt(usage, a), ModelsOfApi(usage, a))
      PROVE  row \in SummaryRows(usage, a)
  <2>1. PICK m \in ModelsOfApi(usage, a) : row = RowAt(usage, a)[m]
    BY DEF ImageOf
  <2>2. row = <<a, m>>
    BY <2>1 DEF RowAt
  <2>3. row \in {a} \X ModelsOfApi(usage, a) /\ row[1] = a
    BY <2>2
  <2>4. row \in UNION {{b} \X ModelsOfApi(usage, b) : b \in DOMAIN usage.apis}
    BY <2>3
  <2>5. QED
    BY <2>3, <2>4, SummaryDomain DEF SummaryRows
<1>3. QED
  BY <1>1, <1>2

LEMMA SummaryCost ==
  ASSUME NEW usage, NEW a \in DOMAIN usage.apis, NEW m \in ModelsOfApi(usage, a)
  PROVE  BuildModelSummary(usage)[<<a, m>>].totalCost = EventCostAt(usage, a, m)
<1>1. <<a, m>> \in {a} \X ModelsOfApi(usage, a)
  OBVIOUS
<1>2. <<a, m>> \in UNION {{b} \X ModelsOfApi(usage, b) : b \in DOMAIN usage.apis}
  BY <1>1
<1>3. QED
  BY <1>2 DEF BuildModelSummary, ModelsOfApi, EventCostAt

LEMMA ApiSummaryCost ==
  ASSUME NEW usage, NEW a \in DOMAIN usage.apis
  PROVE  BuildApiSummary(usage)[a].totalCost
           = SumOf([m \in ModelsOfApi(usage, a) |-> EventCostAt(usage, a, m)])
BY DEF BuildApiSummary, ModelsOfApi, EventCostAt

LEMMA RowsAddUp ==
  ASSUME NEW usage, NEW a \in DOMAIN usage.apis, IsFiniteSet(ModelsOfApi(usage, a)),
         \A m \in ModelsOfApi(usage, a) : EventCostAt(usage, a, m) \in Int
  PROVE  BuildApiSummary(usage)[a].totalCost
           = SumOf([row \in SummaryRows(usage, a) |-> BuildModelSummary(usage)[row].totalCost])
<1> DEFINE M == ModelsOfApi(usage, a)
           R == SummaryRows(usage, a)
           h == RowAt(usage, a)
           f == [row \in R |-> BuildModelSummary(usage)[row].totalCost]
           g == [m \in M |-> EventCostAt(usage, a, m)]
<1>1. R = ImageOf(h, M)
  BY SummaryRowsAre
<1>2. OneToOne(h, M)
  <2>1. \A m \in M : h[m] = <<a, m>>
    BY DEF RowAt
  <2>2. QED
    BY <2>1 DEF OneToOne
<1>3. \A m \in M : f[h[m]] \in Int /\ g[m] = f[h[m]]
  <2> TAKE m \in M
  <2>1. h[m] = <<a, m>> /\ h[m] \in R
    BY <1>1 DEF RowAt, ImageOf
  <2>2. f[h[m]] = BuildModelSummary(usage)[<<a, m>>].totalCost
    BY <2>1
  <2>3. BuildModelSummary(usage)[<<a, m>>].totalCost = EventCostAt(usage, a, m)
    BY SummaryCost
  <2>4. QED
    BY <2>2, <2>3
<1>4. SumOf(f) = SumOver(f, R) /\ SumOf(g) = SumOver(g, M)
  BY SumOfIs
<1>5. BuildApiSummary(usage)[a].totalCost = SumOf(g)
  BY ApiSummaryCost
<1>6. IsFiniteSet(M)
  OBVIOUS
<1> HIDE DEF M, R, h, f, g
<1>7. SumOver(f, ImageOf(h, M)) = SumOver(g, M)
  BY <1>2, <1>3, <1>6, SumOverImage
<1>8. QED
  BY <1>1, <1>4, <1>5, <1>7 DEF f, R

LEMMA CellCost ==
  ASSUME FiguresInv, NEW a \in NamesIn(recorded, "api"),
         NEW m \in NamesIn(PartAt(recorded, a), "model")
  PROVE  /\ EventCostAt(Payload, a, m) = SumOver(EventCosts(recorded), CellAt(recorded, a, m))
         /\ EventCostAt(Payload, a, m) \in Int
<1>1. DetailsOK(recorded) /\ CellAt(recorded, a, m) \subseteq recorded
  BY PayloadIs, CellIn
<1>2. EventCostAt(Payload, a, m) = EventsCost(CellAt(recorded, a, m))
  BY PayloadDetails DEF EventCostAt
<1>3. EventsCost(CellAt(recorded, a, m)) = SumOver(EventCosts(recorded), CellAt(recorded, a, m))
  BY <1>1, EventsCostIs
<1>4. IsFiniteSet(CellAt(recorded, a, m)) /\ \A d \in CellAt(recorded, a, m) : EventCosts(recorded)[d] \in Int
  <2>1. IsFiniteSet(CellAt(recorded, a, m))
    BY <1>1, SubsetOK DEF DetailsOK
  <2>2. QED
    BY <1>1, <2>1, CostsInt
<1>5. SumOver(EventCosts(recorded), CellAt(recorded, a, m)) \in Int
  BY <1>4, SumOverInt
<1>6. QED
  BY <1>2, <1>3, <1>5

LEMMA OlderRows ==
  ASSUME FiguresInv, NEW a \in DOMAIN BuildApiSummary(Payload)
  PROVE  BuildApiSummary(Payload)[a].totalCost
           = SumOf([row \in SummaryRows(Payload, a) |-> BuildModelSummary(Payload)[row].totalCost])
<1>1. a \in DOMAIN Payload.apis /\ a \in NamesIn(recorded, "api")
  BY PayloadApis DEF BuildApiSummary
<1>2. ModelsOfApi(Payload, a) = NamesIn(PartAt(recorded, a), "model")
  BY <1>1, PayloadModels DEF ModelsOfApi
<1>3. IsFiniteSet(ModelsOfApi(Payload, a))
  BY <1>2, PartsFinite, NamesFinite DEF FiguresInv
<1>4. \A m \in ModelsOfApi(Payload, a) : EventCostAt(Payload, a, m) \in Int
  BY <1>1, <1>2, CellCost
<1>5. QED
  BY <1>1, <1>3, <1>4, RowsAddUp

LEMMA OlderCost ==
  ASSUME FiguresInv
  PROVE  SumOf([a \in DOMAIN BuildApiSummary(Payload) |-> BuildApiSummary(Payload)[a].totalCost])
           = BuildCostSummary(Payload)
<1> DEFINE A == NamesIn(recorded, "api")
           f == EventCosts(recorded)
           g == [a \in DOMAIN BuildApiSummary(Payload) |-> BuildApiSummary(Payload)[a].totalCost]
           h == [a \in A |-> [m \in ModelsOfApi(Payload, a) |-> EventCostAt(Payload, a, m)]]
<1>1. DetailsOK(recorded) /\ IsFiniteSet(recorded) /\ \A d \in recorded : f[d] \in Int
  BY PayloadIs, CostsInt DEF DetailsOK
<1>2. DOMAIN BuildApiSummary(Payload) = A /\ DOMAIN Payload.apis = A
  BY PayloadApis DEF BuildApiSummary
<1>3. ASSUME NEW a \in A
      PROVE  /\ g[a] = SumOf(h[a]) /\ DOMAIN h[a] = NamesIn(PartAt(recorded, a), "model")
             /\ \A m \in NamesIn(PartAt(recorded, a), "model") :
                  h[a][m] = SumOver(f, CellAt(recorded, a, m))
  <2>1. g[a] = SumOf(h[a])
    BY <1>2, ApiSummaryCost
  <2>2. ModelsOfApi(Payload, a) = NamesIn(PartAt(recorded, a), "model")
    BY PayloadModels DEF ModelsOfApi
  <2>3. \A m \in NamesIn(PartAt(recorded, a), "model") :
          h[a][m] = SumOver(f, CellAt(recorded, a, m))
    BY <2>2, CellCost
  <2>4. QED
    BY <2>1, <2>2, <2>3
<1>4. SumOf(g) = SumOver(g, A)
  BY <1>2, SumOfIs
<1>5. BuildCostSummary(Payload) = SumOver(f, recorded)
  BY <1>1, PayloadIs, EventsCostIs DEF BuildCostSummary
<1> HIDE DEF f, g, h
<1>6. SumOver(g, A) = SumOver(f, recorded)
  BY <1>1, <1>3, SumByCells
<1>7. QED
  BY <1>4, <1>5, <1>6 DEF g

LEMMA CostsDoAgree == ASSUME FiguresInv PROVE CostsAgree
<1>1. SumOf([a \in DOMAIN GetApiStats(Payload) |-> GetApiStats(Payload)[a].totalCost])
        = TotalCost(CollectUsageDetails(Payload))
  BY ApisCost
<1>2. SumOf([m \in DOMAIN GetModelStats(Payload) |-> GetModelStats(Payload)[m].cost])
        = TotalCost(CollectUsageDetails(Payload))
  BY ModelsCost
<1>3. SumOf(DailyCostSeries(CollectUsageDetails(Payload)))
        = TotalCost({d \in CollectUsageDetails(Payload) : Dated(d)})
  BY PayloadIs, DailyCost
<1>4. \A a \in DOMAIN BuildApiSummary(Payload) :
        BuildApiSummary(Payload)[a].totalCost
          = SumOf([row \in {r \in DOMAIN BuildModelSummary(Payload) : r[1] = a} |->
                     BuildModelSummary(Payload)[row].totalCost])
  BY OlderRows DEF SummaryRows
<1>5. SumOf([a \in DOMAIN BuildApiSummary(Payload) |-> BuildApiSummary(Payload)[a].totalCost])
        = BuildCostSummary(Payload)
  BY OlderCost
<1>6. {d \in CollectUsageDetails(Payload) : Dated(d)} = CollectUsageDetails(Payload) =>
        SumOf(BuildCostTrendPoints(Payload)) = BuildCostSummary(Payload)
  <2> SUFFICES ASSUME {d \in CollectUsageDetails(Payload) : Dated(d)} = CollectUsageDetails(Payload)
               PROVE  \A e \in recorded : Dated(e)
    BY TrendCost
  <2> TAKE e \in recorded
  <2>1. Timed(e) \in CollectUsageDetails(Payload) /\ Timed(e).at = e.at
    BY PayloadIs, CollectedIs, RecordedOK DEF Timed, DetailsOK, DetailRecord
  <2>2. Dated(Timed(e))
    BY <2>1
  <2>3. QED
    BY <2>1, <2>2 DEF Dated
<1>7. \A d \in Normal : /\ CalculateCost(d) <= CalculateEventCost(d)
                        /\ d.cached = 0 => CalculateCost(d) = CalculateEventCost(d)
  BY NormalIs, FormulasCompare
<1>8. QED
  BY <1>1, <1>2, <1>3, <1>4, <1>5, <1>6, <1>7, Zenon DEF CostsAgree

-----------------------------------------------------------------------------
(* The lines of the day chart. *)

DatedDetails == {d \in CollectUsageDetails(Payload) : Dated(d)}

(* A detail's API is no model's name, nor is the line of all details. *)
LinesApart(D) == \A d, e \in D : e.model \notin {"all", d.api}

LEMMA DatedAre ==
  ASSUME FiguresInv
  PROVE  /\ DetailsOK(DatedDetails) /\ LinesApart(DatedDetails)
         /\ \A d \in DatedDetails : Dated(d) /\ d.at \in Nat /\ d.at <= clock
         /\ {d \in DatedDetails : Dated(d)} = DatedDetails
<1>1. DetailsOK(Collected) /\ DatedDetails = {d \in Collected : Dated(d)}
  BY PayloadIs DEF DatedDetails
<1>2. DetailsOK(DatedDetails)
  <2>1. DatedDetails \subseteq Collected
    BY <1>1
  <2>2. QED
    BY <1>1, <2>1, SubsetOK
<1>3. ASSUME NEW d \in DatedDetails
      PROVE  \E e \in recorded : d.at = e.at /\ d.model = e.model /\ d.api = e.api
  <2>1. PICK e \in recorded : d = Timed(e)
    BY <1>1, CollectedIs
  <2>2. e \in DetailRecord
    BY PayloadIs DEF DetailsOK
  <2>3. \A x \in {"at", "model", "api"} : Timed(e)[x] = e[x]
    BY <2>2, TimedIs
  <2>4. d.at = e.at /\ d.model = e.model /\ d.api = e.api
    BY <2>1, <2>3
  <2>5. QED
    BY <2>4
<1>4. LinesApart(DatedDetails)
  <2>1. \A d, e \in recorded : e.model \notin {"all", d.api}
    BY DetailsAssumption DEF FiguresInv
  <2>2. QED
    BY <1>3, <2>1 DEF LinesApart
<1>5. \A d \in DatedDetails : d.at \in Nat /\ d.at <= clock
  BY <1>3, MomentsAre
<1>6. (\A d \in DatedDetails : Dated(d)) /\ {d \in DatedDetails : Dated(d)} = DatedDetails
  BY DEF DatedDetails
<1>7. QED
  BY <1>2, <1>4, <1>5, <1>6

Metrics(metric, D) == [d \in D |-> Metric(metric, d)]

LEMMA MetricInt ==
  ASSUME NEW D, DetailsOK(D), NEW metric, NEW d \in D
  PROVE  Metrics(metric, D)[d] \in Int
<1>1. ExtractTotalTokens(d) \in Nat
  BY TokenParts DEF DetailsOK
<1>2. QED
  BY <1>1 DEF Metrics, Metric

LEMMA MeasuredIs ==
  ASSUME NEW D, DetailsOK(D), NEW metric, NEW S, S \subseteq D
  PROVE  Measured(metric, S) = SumOver(Metrics(metric, D), S)
<1> DEFINE g == Metrics(metric, S)
           f == Metrics(metric, D)
<1>1. Measured(metric, S) = SumOf(g)
  BY DEF Measured, Metrics
<1>2. DOMAIN g = S /\ IsFiniteSet(S) /\ \A d \in S : f[d] = g[d]
  BY SubsetOK DEF Metrics, DetailsOK
<1> HIDE DEF f, g
<1>3. SumOf(g) = SumOver(f, S)
  BY <1>2, SumOfOver
<1>4. QED
  BY <1>1, <1>3 DEF f

LEMMA LineIsModel ==
  ASSUME NEW D, LinesApart(D), NEW lines, NEW d \in D, NEW m \in NamesIn(D, "model"), m \in lines
  PROVE  LineOf(d, lines) = m <=> d.model = m
<1>1. m # "all" /\ m # d.api
  BY DEF LinesApart, NamesIn
<1>2. QED
  BY <1>1 DEF LineOf

ByModel(D, m) == {d \in D : d.model = m}

LEMMA AddedIs ==
  ASSUME NEW D, LinesApart(D), NEW lines, NEW m \in NamesIn(D, "model"), m \in lines, NEW S, S \subseteq D,
         DetailsOK(D), NEW metric
  PROVE  AddedTo(m, S, lines, metric)
           = SumOver(Metrics(metric, D), ByModel(S, m))
<1> DEFINE T == {d \in S : LineOf(d, lines) = m /\ m \in lines}
           U == {d \in S : d.model = m}
<1>1. T = U
  BY LineIsModel
<1>2. m # "all"
  BY DEF LinesApart, NamesIn
<1>3. AddedTo(m, S, lines, metric) = Measured(metric, T) + 0
  BY <1>2 DEF AddedTo
<1>4. U \subseteq D
  OBVIOUS
<1>5. IsFiniteSet(U) /\ \A d \in U : Metrics(metric, D)[d] \in Int
  <2> HIDE DEF U
  <2>1. IsFiniteSet(U)
    BY <1>4, SubsetOK DEF DetailsOK
  <2>2. QED
    BY <1>4, <2>1, MetricInt
<1> HIDE DEF T, U
<1>6. Measured(metric, U) = SumOver(Metrics(metric, D), U)
  BY <1>4, MeasuredIs
<1>7. SumOver(Metrics(metric, D), U) \in Int
  BY <1>5, SumOverInt
<1>8. QED
  BY <1>1, <1>3, <1>6, <1>7 DEF U, ByModel

(* Grouping by the day adds up to the whole. *)
LEMMA DaysSum ==
  ASSUME NEW D, IsFiniteSet(D), NEW f, \A d \in D : f[d] \in Int, NEW K, IsFiniteSet(K),
         \A d \in D : DayKey(d) \in K,
         NEW g, \A k \in K : g[k] = SumOver(f, {d \in D : DayKey(d) = k})
  PROVE  SumOver(g, K) = SumOver(f, D)
<1> DEFINE key == [d \in D |-> DayKey(d)]
<1>1. \A d \in D : f[d] \in Int /\ key[d] \in K
  OBVIOUS
<1>2. \A k \in K : g[k] = SumOver(f, Fibre(D, key, k))
  <2> TAKE k \in K
  <2>1. Fibre(D, key, k) = {d \in D : DayKey(d) = k}
    BY DEF Fibre
  <2>2. QED
    BY <2>1
<1> HIDE DEF key
<1>3. QED
  BY <1>1, <1>2, SumByKey

DayKeys(D) == {DayKey(d) : d \in D}

LEMMA DayKeysFinite ==
  ASSUME NEW D, IsFiniteSet(D)
  PROVE  IsFiniteSet(DayKeys(D))
<1> DEFINE key == [d \in D |-> DayKey(d)]
<1>1. DayKeys(D) = {key[d] : d \in D}
  BY DEF DayKeys
<1> HIDE DEF key
<1>2. QED
  BY <1>1, ImageFinite

AllDated(D) == {d \in D : Dated(d)} = D

LEMMA ModelLine ==
  ASSUME NEW D, DetailsOK(D), LinesApart(D), AllDated(D),
         NEW lines, NEW metric, NEW m \in NamesIn(D, "model"), m \in lines
  PROVE  SumOf(DayChart(D, metric, lines)[m]) = Measured(metric, ByModel(D, m))
<1> DEFINE g == [k \in DayKeys(D) |-> AddedTo(m, {d \in D : DayKey(d) = k}, lines, metric)]
           U == {d \in D : d.model = m}
           f == Metrics(metric, D)
<1>0. ASSUME NEW S, S \subseteq D
      PROVE  AddedTo(m, S, lines, metric) = SumOver(Metrics(metric, D), ByModel(S, m))
  BY <1>0, AddedIs
<1>1. ChartLines(lines) = lines
  BY DEF ChartLines
<1>2. m \in LinesDrawn(D, lines)
  <2>1. PICK e \in D : LineOf(e, lines) = m
    BY DEF LineOf, NamesIn
  <2>2. QED
    BY <2>1 DEF LinesDrawn
<1>3. DayChart(D, metric, lines)
        = [line \in LinesDrawn(D, lines) |->
            [k \in {DayKey(d) : d \in D} |-> AddedTo(line, {d \in D : DayKey(d) = k}, lines, metric)]]
  BY <1>1, Zenon DEF DayChart, AllDated
<1>4. DayChart(D, metric, lines)[m] = g
  BY <1>2, <1>3 DEF DayKeys
<1>5. IsFiniteSet(U) /\ IsFiniteSet(DayKeys(D)) /\ U \subseteq D
  <2>1. U \subseteq D
    OBVIOUS
  <2> HIDE DEF U
  <2>2. IsFiniteSet(U)
    BY <2>1, SubsetOK DEF DetailsOK
  <2>3. IsFiniteSet(DayKeys(D))
    BY DayKeysFinite DEF DetailsOK
  <2>4. QED
    BY <2>1, <2>2, <2>3
<1>6. \A k \in DayKeys(D) : g[k] = SumOver(f, {d \in U : DayKey(d) = k})
  <2> TAKE k \in DayKeys(D)
  <2> DEFINE S == {d \in D : DayKey(d) = k}
  <2>1. S \subseteq D /\ {d \in S : d.model = m} = {d \in U : DayKey(d) = k}
    OBVIOUS
  <2>2. g[k] = AddedTo(m, S, lines, metric)
    OBVIOUS
  <2> HIDE DEF S, f, g, U
  <2>3. AddedTo(m, S, lines, metric) = SumOver(Metrics(metric, D), ByModel(S, m))
    BY <1>0, <2>1
  <2>4. QED
    BY <2>1, <2>2, <2>3 DEF f, ByModel
<1>7. \A d \in U : f[d] \in Int /\ DayKey(d) \in DayKeys(D)
  BY MetricInt DEF DayKeys
<1>8. SumOf(g) = SumOver(g, DayKeys(D))
  BY SumOfIs
<1>9. Measured(metric, U) = SumOver(f, U)
  BY <1>5, MeasuredIs
<1> HIDE DEF U, f, g
<1>10. SumOver(g, DayKeys(D)) = SumOver(f, U)
  BY <1>5, <1>6, <1>7, DaysSum
<1>11. QED
  BY <1>4, <1>8, <1>9, <1>10 DEF U, ByModel

-----------------------------------------------------------------------------
(* The hours of a short preset. *)

ShortPresets == {p \in DOMAIN PresetHours : PresetHours[p] < DayHours}
HoursOf(r) == (HourNumber(clock) - PresetHours[r]) .. HourNumber(clock)
Since(r) == {d \in DatedDetails : d.at >= StartOf(r)}
AtHour(D, k) == {d \in D : HourKey(d) = k}
InHours(D, K) == {d \in D : HourKey(d) \in K}

LEMMA HoursAre ==
  ASSUME FiguresInv, NEW r \in ShortPresets, NEW D
  PROVE  HourChartKeys(D, PresetHours[r], clock, clock) = HoursOf(r)
<1>1. PICK h \in Nat \ {0}, n \in Nat \ {0}, w \in Nat \ {0} :
        h = PresetHours[r] /\ n = clock /\ w = DayHours
  BY PresetStart, FiguresAssumption, DetailsAssumption DEF ShortPresets, FiguresInv
<1>2. h < w
  BY <1>1 DEF ShortPresets
<1>3. ToValidTimestamp(n) = n /\ n # Missing /\ h # Missing
  BY FiguresAssumption DEF ToValidTimestamp
<1>4. ResolveHourlyChartEnd(D, n) = n
  BY <1>3 DEF ResolveHourlyChartEnd
<1>5. NormalizeHourWindow(h) = h
  BY <1>1, <1>2, <1>3 DEF NormalizeHourWindow, Smaller, Bigger
<1>6. PICK last \in Int : last = HourNumber(n)
  BY HourInt
<1>7. BuildHourlyWindow(h, n, n) = (last - h) .. last
  <2>1. ~(h >= DayHours)
    BY <1>1, <1>2
  <2>2. BuildHourlyWindow(h, n, n) = (last - (h + 1) + 1) .. last
    BY <1>3, <1>5, <1>6, <2>1 DEF BuildHourlyWindow
  <2>3. last - (h + 1) + 1 = last - h
    OBVIOUS
  <2>4. QED
    BY <2>2, <2>3
<1>8. HourChartKeys(D, h, n, n) = (last - h) .. last
  BY <1>4, <1>7 DEF HourChartKeys
<1>9. QED
  BY <1>1, <1>6, <1>8 DEF HoursOf

LEMMA HoursFinite ==
  ASSUME FiguresInv, NEW r \in ShortPresets
  PROVE  IsFiniteSet(HoursOf(r))
<1>1. PICK a \in Int, b \in Int : a = HourNumber(clock) - PresetHours[r] /\ b = HourNumber(clock)
  BY HourInt, PresetStart DEF ShortPresets
<1>2. QED
  BY <1>1, FS_Interval DEF HoursOf

LEMMA SinceInHours ==
  ASSUME FiguresInv, NEW r \in ShortPresets, NEW d \in Since(r)
  PROVE  HourKey(d) \in HoursOf(r)
<1>1. d \in DatedDetails /\ Dated(d) /\ d.at \in Int /\ d.at <= clock /\ d.at >= StartOf(r)
  BY DatedAre DEF Since
<1>2. PICK h \in Int, n \in Int : h = PresetHours[r] /\ n = clock
  BY PresetStart DEF ShortPresets
<1>3. HourKey(d) = HourNumber(d.at)
  BY <1>1 DEF HourKey
<1>4. HourNumber(d.at) \in Int /\ HourNumber(n) \in Int
  BY <1>1, HourInt
<1>5. HourNumber(d.at) <= HourNumber(n)
  BY <1>1, <1>2, HourOrder
<1>6. HourNumber(n) - h <= HourNumber(d.at)
  <2>1. PICK s \in Int : s = n - h * HourTicks
    BY FiguresAssumption
  <2>2. HourNumber(s) = HourNumber(n) - h
    BY <2>1, HourShift
  <2>3. s <= d.at
    BY <1>1, <1>2, <2>1 DEF StartOf
  <2>4. HourNumber(s) <= HourNumber(d.at)
    BY <1>1, <2>3, HourOrder
  <2>5. QED
    BY <2>2, <2>4
<1>7. QED
  BY <1>2, <1>3, <1>4, <1>5, <1>6 DEF HoursOf

(* Grouping some hours adds up to what they hold. *)
LEMMA HoursSum ==
  ASSUME NEW D, IsFiniteSet(D), NEW f, \A d \in D : f[d] \in Int, NEW K, IsFiniteSet(K),
         NEW g, \A k \in K : g[k] = SumOver(f, AtHour(D, k))
  PROVE  SumOver(g, K) = SumOver(f, InHours(D, K))
<1> DEFINE E == InHours(D, K)
           key == [d \in E |-> HourKey(d)]
<1>1. IsFiniteSet(E) /\ \A d \in E : f[d] \in Int /\ key[d] \in K
  <2>1. E \in SUBSET D
    BY DEF InHours
  <2>2. IsFiniteSet(E)
    BY <2>1, FS_Subset
  <2>3. \A d \in E : f[d] \in Int /\ key[d] \in K
    BY <2>1 DEF InHours
  <2>4. QED
    BY <2>2, <2>3
<1>2. \A k \in K : g[k] = SumOver(f, Fibre(E, key, k))
  <2> TAKE k \in K
  <2>1. Fibre(E, key, k) = AtHour(D, k)
    BY DEF Fibre, InHours, AtHour
  <2>2. QED
    BY <2>1
<1> HIDE DEF key, E
<1>3. SumOver(g, K) = SumOver(f, E)
  BY <1>1, <1>2, SumByKey
<1>4. QED
  BY <1>3 DEF E

LEMMA HourlyCosts ==
  ASSUME FiguresInv, NEW r \in ShortPresets
  PROVE  LET D == DatedDetails
             costs == HourlyCostSeries(D, PresetHours[r], clock, clock)
         IN  /\ DOMAIN costs = HoursOf(r)
             /\ SumOf(costs) = SumOver(Costs(D), InHours(D, HoursOf(r)))
<1> DEFINE D == DatedDetails
           K == HoursOf(r)
           f == Costs(D)
           costs == HourlyCostSeries(D, PresetHours[r], clock, clock)
<1>1. DetailsOK(D) /\ IsFiniteSet(D) /\ \A d \in D : Dated(d) /\ f[d] \in Int
  BY DatedAre, CostsInt DEF DetailsOK
<1>2. costs = [k \in K |-> TotalCost({d \in D : Dated(d) /\ HourKey(d) = k})]
  BY HoursAre DEF HourlyCostSeries
<1>3. \A k \in K : costs[k] = SumOver(f, AtHour(D, k))
  <2> TAKE k \in K
  <2> DEFINE S == AtHour(D, k)
  <2>1. {d \in D : Dated(d) /\ HourKey(d) = k} = S
    BY <1>1 DEF AtHour
  <2>2. costs[k] = TotalCost(S)
    BY <1>2, <2>1
  <2>3. S \subseteq D
    BY DEF AtHour
  <2> HIDE DEF S, D
  <2>4. TotalCost(S) = SumOver(Costs(D), S)
    BY <1>1, <2>3, TotalCostIs
  <2>5. QED
    BY <2>2, <2>4 DEF S
<1>4. DOMAIN costs = K
  BY <1>2
<1>5. SumOf(costs) = SumOver(costs, K)
  BY <1>4, SumOfIs
<1>6. IsFiniteSet(K)
  BY HoursFinite
<1> HIDE DEF f, costs, K, D
<1>7. SumOver(costs, K) = SumOver(f, InHours(D, K))
  BY <1>1, <1>3, <1>6, HoursSum
<1>8. QED
  BY <1>4, <1>5, <1>7 DEF costs, K, D, f

LEMMA HourlyCostsBetween ==
  ASSUME FiguresInv, NEW r \in ShortPresets
  PROVE  LET costs == HourlyCostSeries(DatedDetails, PresetHours[r], clock, clock)
         IN  /\ SumOf(costs) >= TotalCost(Since(r))
             /\ SumOf(costs) <= SumOf(DailyCostSeries(DatedDetails))
<1> DEFINE D == DatedDetails
           E == InHours(D, HoursOf(r))
           S == Since(r)
           f == Costs(D)
           costs == HourlyCostSeries(D, PresetHours[r], clock, clock)
<1>1. DetailsOK(D) /\ IsFiniteSet(D) /\ {d \in D : Dated(d)} = D
  BY DatedAre DEF DetailsOK
<1>2. \A d \in D : f[d] \in Nat
  BY <1>1, CostsInt
<1>3. S \in SUBSET D /\ E \in SUBSET D /\ S \in SUBSET E
  <2>1. S \subseteq D /\ E \subseteq D
    BY DEF Since, InHours
  <2>2. S \subseteq E
    BY <2>1, SinceInHours DEF InHours
  <2>3. QED
    BY <2>1, <2>2
<1>4. IsFiniteSet(E) /\ IsFiniteSet(S)
  BY <1>1, <1>3, FS_Subset
<1>5. SumOf(costs) = SumOver(f, E)
  BY HourlyCosts
<1>6. TotalCost(S) = SumOver(f, S)
  BY <1>1, <1>3, TotalCostIs
<1>7. SumOf(DailyCostSeries(D)) = SumOver(f, D)
  <2>1. SumOf(DailyCostSeries(D)) = TotalCost(D)
    BY <1>1, DailyCost
  <2>2. TotalCost(D) = SumOver(f, D)
    BY <1>1, TotalCostIs
  <2>3. QED
    BY <2>1, <2>2
<1> HIDE DEF D, E, S, f, costs
<1>8. SumOver(f, S) <= SumOver(f, E)
  BY <1>2, <1>3, <1>4, SumOverPart
<1>9. SumOver(f, E) <= SumOver(f, D)
  BY <1>1, <1>2, <1>3, SumOverPart
<1>10. SumOver(f, S) \in Int /\ SumOver(f, E) \in Int
  BY <1>2, <1>3, <1>4, SumOverInt
<1>11. QED
  BY <1>5, <1>6, <1>7, <1>8, <1>9, <1>10 DEF D, S, costs

TokenCategory == {"input", "output", "cached", "reasoning"}
Categories(c, D) == [d \in D |-> Category(c, d)]

LEMMA CategoryNat ==
  ASSUME NEW D, DetailsOK(D), NEW c \in TokenCategory, NEW d \in D
  PROVE  Categories(c, D)[d] \in Nat
<1>1. /\ ToNumber(d.input) \in Nat /\ ToNumber(d.output) \in Nat
      /\ ToNumber(d.reasoning) \in Nat /\ CachedTokens(d) \in Nat
  BY TokenParts DEF DetailsOK, DetailRecord
<1>2. Category(c, d) \in Nat
  BY <1>1 DEF Category, TokenCategory
<1>3. QED
  BY <1>2 DEF Categories

LEMMA HourlyTokens ==
  ASSUME FiguresInv, NEW r \in ShortPresets, NEW c \in TokenCategory
  PROVE  LET D == DatedDetails
             tokens == HourlyTokenBreakdown(D, PresetHours[r], clock, clock)
         IN  /\ DOMAIN tokens[c] = HoursOf(r)
             /\ SumOf(tokens[c]) = SumOver(Categories(c, D), InHours(D, HoursOf(r)))
<1> DEFINE D == DatedDetails
           K == HoursOf(r)
           f == Categories(c, D)
           g == HourlyTokenBreakdown(D, PresetHours[r], clock, clock)[c]
<1>1. DetailsOK(D) /\ IsFiniteSet(D) /\ \A d \in D : Dated(d) /\ f[d] \in Int
  BY DatedAre, CategoryNat DEF DetailsOK
<1>2. g = [k \in K |-> SumOf([d \in {e \in D : Dated(e) /\ HourKey(e) = k} |-> Category(c, d)])]
  BY HoursAre DEF HourlyTokenBreakdown, TokenCategory
<1>3. \A k \in K : g[k] = SumOver(f, AtHour(D, k))
  <2> TAKE k \in K
  <2> DEFINE S == AtHour(D, k)
             v == [d \in S |-> Category(c, d)]
  <2>1. {e \in D : Dated(e) /\ HourKey(e) = k} = S
    BY <1>1 DEF AtHour
  <2>2. g[k] = SumOf(v)
    BY <1>2, <2>1
  <2>3. S \subseteq D /\ DOMAIN v = S /\ \A d \in S : f[d] = v[d]
    BY DEF Categories, AtHour
  <2> HIDE DEF S, v, D, f
  <2>4. IsFiniteSet(S)
    BY <1>1, <2>3, SubsetOK DEF DetailsOK
  <2>5. SumOf(v) = SumOver(f, S)
    BY <2>3, <2>4, SumOfOver
  <2>6. QED
    BY <2>2, <2>5 DEF S
<1>4. DOMAIN g = K
  BY <1>2
<1>5. SumOf(g) = SumOver(g, K)
  BY <1>4, SumOfIs
<1>6. IsFiniteSet(K)
  BY HoursFinite
<1> HIDE DEF f, g, K, D
<1>7. SumOver(g, K) = SumOver(f, InHours(D, K))
  BY <1>1, <1>3, <1>6, HoursSum
<1>8. QED
  BY <1>4, <1>5, <1>7 DEF g, K, D, f

LEMMA HourlyTokensBelow ==
  ASSUME FiguresInv, NEW r \in ShortPresets, NEW c \in TokenCategory
  PROVE  SumOf(HourlyTokenBreakdown(DatedDetails, PresetHours[r], clock, clock)[c])
           <= SumOf(DailyTokenBreakdown(DatedDetails)[c])
<1> DEFINE D == DatedDetails
           E == InHours(D, HoursOf(r))
           f == Categories(c, D)
<1>1. DetailsOK(D) /\ IsFiniteSet(D) /\ {d \in D : Dated(d)} = D
  BY DatedAre DEF DetailsOK
<1>2. \A d \in D : f[d] \in Nat
  BY <1>1, CategoryNat
<1>3. E \in SUBSET D
  BY DEF InHours
<1>4. SumOf(HourlyTokenBreakdown(D, PresetHours[r], clock, clock)[c]) = SumOver(f, E)
  BY HourlyTokens
<1>5. DailyTokenBreakdown(D)[c] = Sums("day", f)
  BY <1>1 DEF DailyTokenBreakdown, Categories, TokenCategory
<1>6. DOMAIN f = D
  BY DEF Categories
<1> HIDE DEF D, E, f
<1>7. SumOf(Sums("day", f)) = SumOver(f, D)
  BY <1>1, <1>2, <1>6, AllBucketsSum
<1>8. SumOver(f, E) <= SumOver(f, D)
  BY <1>1, <1>2, <1>3, SumOverPart
<1>9. QED
  BY <1>4, <1>5, <1>7, <1>8 DEF D

LEMMA ChartsDoAgree == ASSUME FiguresInv PROVE ChartsAgree
<1> DEFINE D == DatedDetails
<1>1. ASSUME NEW lines \in LineChoices, NEW metric \in {"requests", "tokens"},
             NEW m \in lines \cap {d.model : d \in D}
      PROVE  SumOf(DayChart(D, metric, lines)[m]) = Measured(metric, {d \in D : d.model = m})
  <2>1. m \in lines /\ m \in NamesIn(D, "model")
    BY DEF NamesIn
  <2>2. DetailsOK(D) /\ LinesApart(D) /\ AllDated(D)
    BY DatedAre DEF AllDated
  <2> HIDE DEF D
  <2>3. SumOf(DayChart(D, metric, lines)[m]) = Measured(metric, ByModel(D, m))
    BY <2>1, <2>2, ModelLine
  <2>4. QED
    BY <2>3 DEF ByModel
<1>2. ASSUME NEW r \in ShortPresets
      PROVE  LET shown == {d \in D : d.at >= clock - PresetHours[r] * HourTicks}
                 costs == HourlyCostSeries(D, PresetHours[r], clock, clock)
                 tokens == HourlyTokenBreakdown(D, PresetHours[r], clock, clock)
             IN  /\ {HourKey(d) : d \in shown} \subseteq DOMAIN costs
                 /\ SumOf(costs) >= TotalCost(shown) /\ SumOf(costs) <= SumOf(DailyCostSeries(D))
                 /\ \A c \in DOMAIN tokens : SumOf(tokens[c]) <= SumOf(DailyTokenBreakdown(D)[c])
                 /\ DOMAIN tokens["input"] = DOMAIN costs
  <2> DEFINE costs == HourlyCostSeries(D, PresetHours[r], clock, clock)
             tokens == HourlyTokenBreakdown(D, PresetHours[r], clock, clock)
  <2>1. {d \in D : d.at >= clock - PresetHours[r] * HourTicks} = Since(r)
    BY DEF Since, StartOf
  <2>2. DOMAIN costs = HoursOf(r)
    BY HourlyCosts
  <2>3. {HourKey(d) : d \in Since(r)} \subseteq DOMAIN costs
    BY <2>2, SinceInHours
  <2>4. SumOf(costs) >= TotalCost(Since(r)) /\ SumOf(costs) <= SumOf(DailyCostSeries(D))
    BY HourlyCostsBetween
  <2>5. DOMAIN tokens = TokenCategory
    BY DEF HourlyTokenBreakdown, TokenCategory
  <2>6. \A c \in DOMAIN tokens : SumOf(tokens[c]) <= SumOf(DailyTokenBreakdown(D)[c])
    BY <2>5, HourlyTokensBelow
  <2>7. DOMAIN tokens["input"] = DOMAIN costs
    <3>1. "input" \in TokenCategory
      BY DEF TokenCategory
    <3>2. DOMAIN tokens["input"] = HoursOf(r)
      BY <3>1, HourlyTokens
    <3>3. QED
      BY <2>2, <3>2
  <2>8. QED
    BY <2>1, <2>3, <2>4, <2>6, <2>7, Zenon
<1>3. D = {d \in CollectUsageDetails(Payload) : Dated(d)}
  BY DEF DatedDetails
<1>4. ShortPresets = {p \in DOMAIN PresetHours : PresetHours[p] < DayHours}
  BY DEF ShortPresets
<1> HIDE DEF D
<1>5. QED
  BY <1>1, <1>2, <1>3, <1>4, Zenon DEF ChartsAgree

-----------------------------------------------------------------------------
(* FiguresAgree: whatever details are recorded, in any order and by any    *)
(* clock, the figures that the client computes along different ways from   *)
(* the same payload agree.                                                 *)
THEOREM FiguresStayInAgreement == FiguresSpec => []FiguresAgree
<1>1. FiguresInit => FiguresInv
  BY FiguresInitInv
<1>2. FiguresInv /\ [FiguresNext]_figureVars => FiguresInv'
  BY FiguresStepInv
<1>3. FiguresInv => FiguresAgree
  BY RangesDoNest, CostsDoAgree, ChartsDoAgree, HealthDoesAgree, RatesDoAgree, DurationsDoRead, Zenon
  DEF FiguresAgree
<1>4. QED
  BY <1>1, <1>2, <1>3, PTL DEF FiguresSpec
=============================================================================
