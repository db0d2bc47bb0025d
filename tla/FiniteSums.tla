----------------------------- MODULE FiniteSums -----------------------------
(***************************************************************************)
(* Sums over finite sets, as SumFunction computes them.  What a sum is   *)
(* does not depend on the order in which elements are picked, so a sum     *)
(* over one element more is the sum and that element's value.              *)
(*                                                                         *)
(* Each induction over sets here is a proof that no cardinality is the     *)
(* least one of a counterexample.                                          *)
(***************************************************************************)
EXTENDS Integers, FiniteSets, Functions, FiniteSetTheorems, TLAPS

Picked(s) == CHOOSE x \in s : TRUE

(* For each s in D, g[s] is the sum of val[x] for the x in s.              *)
Adds(g, val, D) ==
  g = [s \in D |->
         IF s = {} THEN 0 ELSE val[Picked(s)] + g[s \ {Picked(s)}]]

(* The sums of all subsets of S. *)
Sums(g, val, S) == Adds(g, val, SUBSET S)

IntOn(val, S) == \A x \in S : val[x] \in Int
SameOn(val, w, S) == \A x \in S : val[x] = w[x]

(* A set of naturals that is not empty has a least element.                *)
LEMMA Least ==
  ASSUME NEW T \in SUBSET Nat, T # {}
  PROVE  \E m \in T : \A n \in T : m <= n
<1>1. PICK m \in T : \A n \in T : <<n, m>> \notin OpToRel(<, Nat)
  BY NatLessThanWellFounded, WFMin, Zenon
<1>2. \A n \in T : ~(n < m)
  BY <1>1 DEF OpToRel
<1> QED BY <1>2

(* Every finite set has the sums of its subsets.                           *)
LEMMA SumsExist ==
  ASSUME NEW val, NEW S, IsFiniteSet(S)
  PROVE  \E g : Sums(g, val, S)
<1> DEFINE Small(n) == {s \in SUBSET S : Cardinality(s) <= n}
           Bad == {n \in Nat : ~ \E g : Adds(g, val, Small(n))}
<1>s. \A s \in SUBSET S : IsFiniteSet(s) /\ Cardinality(s) \in Nat /\ Cardinality(s) <= Cardinality(S)
  BY FS_Subset, FS_CardinalityType
<1>1. ASSUME Bad # {} PROVE FALSE
  <2>1. PICK m \in Bad : \A n \in Bad : m <= n
    BY <1>1, Least
  <2>2. CASE m = 0
    <3> DEFINE g == [s \in Small(0) |-> 0]
    <3>1. \A s \in Small(0) : s = {}
      BY <1>s, FS_EmptySet
    <3>2. Adds(g, val, Small(0))
      BY <3>1 DEF Sums, Adds
    <3> QED BY <2>2, <3>2
  <2>3. CASE m # 0
    <3>0. m \in Nat
      OBVIOUS
    <3>1. m - 1 \in Nat /\ m - 1 \notin Bad
      <4> HIDE DEF Bad
      <4> QED BY <2>1, <2>3, <3>0
    <3>2. PICK g : Adds(g, val, Small(m - 1))
      BY <3>1
    <3> DEFINE h == [s \in Small(m) |->
                       IF s = {} THEN 0 ELSE val[Picked(s)] + g[s \ {Picked(s)}]]
    <3>3. ASSUME NEW s \in Small(m), s # {}
          PROVE  s \ {Picked(s)} \in Small(m - 1) /\ s \ {Picked(s)} \in Small(m)
      <4>1. Picked(s) \in s
        BY <3>3 DEF Picked
      <4>2. Cardinality(s \ {Picked(s)}) = Cardinality(s) - 1
        BY <4>1, <1>s, FS_RemoveElement
      <4> QED BY <4>2, <1>s, <3>1
    <3>4. \A t \in Small(m - 1) :
            g[t] = IF t = {} THEN 0 ELSE val[Picked(t)] + g[t \ {Picked(t)}]
      BY <3>2 DEF Sums, Adds
    <3>5. \A t \in Small(m - 1) : t \in Small(m) => h[t] = g[t]
      BY <3>4
    <3>6. \A s \in Small(m) :
            s # {} => h[s \ {Picked(s)}] = g[s \ {Picked(s)}]
      BY <3>3, <3>5
    <3>7. Adds(h, val, Small(m))
      BY <3>6 DEF Sums, Adds
    <3> QED BY <3>7
  <2> QED BY <2>2, <2>3
<1>2. \E g : Adds(g, val, Small(Cardinality(S)))
  BY <1>1, <1>s
<1>3. Small(Cardinality(S)) = SUBSET S
  BY <1>s
<1> QED BY <1>2, <1>3 DEF Sums

(* SumFunctionOnSet computes such a sum.                                   *)
LEMMA SumIsFold ==
  ASSUME NEW val, NEW S, IsFiniteSet(S)
  PROVE  \E g : Sums(g, val, S) /\ SumFunctionOnSet(val, S) = g[S]
<1> DEFINE it == CHOOSE iter : iter = [s \in SUBSET S |->
         IF s = {} THEN 0 ELSE val[Picked(s)] + iter[s \ {Picked(s)}]]
<1>1. Sums(it, val, S)
  <2>1. PICK g : Sums(g, val, S)
    BY SumsExist
  <2>2. g = [s \in SUBSET S |->
               IF s = {} THEN 0 ELSE val[Picked(s)] + g[s \ {Picked(s)}]]
    BY <2>1 DEF Sums, Adds
  <2> QED BY <2>2 DEF Sums, Adds
<1>2. SumFunctionOnSet(val, S) = it[S]
  BY DEF SumFunctionOnSet, FoldFunctionOnSet, MapThenFoldSet, Picked
<1> QED BY <1>1, <1>2

-----------------------------------------------------------------------------
(* What a sum is *)

(* The first step of each induction: a set of subsets of S, unless it is   *)
(* empty, has one with the fewest elements.                                *)
LEMMA Smallest ==
  ASSUME NEW S, IsFiniteSet(S), NEW B \in SUBSET (SUBSET S), B # {}
  PROVE  \E s \in B : \A t \in B : Cardinality(s) <= Cardinality(t)
<1> DEFINE T == {Cardinality(s) : s \in B}
<1>1. T \in SUBSET Nat /\ T # {}
  BY FS_Subset, FS_CardinalityType
<1>2. PICK m \in T : \A n \in T : m <= n
  <2> HIDE DEF T
  <2> QED BY <1>1, Least
<1> QED BY <1>2

LEMMA PickedIsIn ==
  ASSUME NEW s, s # {}
  PROVE  Picked(s) \in s
BY DEF Picked

(* Without one of its elements a set is smaller.                           *)
LEMMA Smaller ==
  ASSUME NEW S, IsFiniteSet(S), NEW s \in SUBSET S, NEW x \in s
  PROVE  ~(Cardinality(s) <= Cardinality(s \ {x}))
<1>1. IsFiniteSet(s) /\ Cardinality(s) \in Nat
  BY FS_Subset, FS_CardinalityType
<1>2. Cardinality(s \ {x}) = Cardinality(s) - 1
  BY <1>1, FS_RemoveElement
<1> QED BY <1>1, <1>2

LEMMA EmptySum ==
  ASSUME NEW val, NEW S, NEW g, Sums(g, val, S)
  PROVE  g[{}] = 0
BY DEF Sums, Adds

LEMMA SumUnfolds ==
  ASSUME NEW val, NEW S, NEW g, Sums(g, val, S), NEW s, s \subseteq S, s # {}
  PROVE  g[s] = val[Picked(s)] + g[s \ {Picked(s)}]
BY DEF Sums, Adds

LEMMA SumIsInt ==
  ASSUME NEW val, NEW S, IsFiniteSet(S), IntOn(val, S),
         NEW g, Sums(g, val, S)
  PROVE  \A s \in SUBSET S : g[s] \in Int
<1>e. g[{}] = 0
  BY EmptySum
<1> DEFINE B == {s \in SUBSET S : g[s] \notin Int}
<1> SUFFICES ASSUME B # {} PROVE FALSE
  OBVIOUS
<1>1. PICK s \in B : \A t \in B : Cardinality(s) <= Cardinality(t)
  BY Smallest
<1>2. s # {}
  <2>1. g[{}] \in Int
    <3> HIDE DEF B
    <3> QED BY <1>e
  <2> QED BY <2>1, Zenon
<1>s. s \subseteq S
  OBVIOUS
<1>3. Picked(s) \in s
  BY <1>2, PickedIsIn
<1>4. s \ {Picked(s)} \notin B
  BY <1>1, <1>3, Smaller
<1>5. g[s \ {Picked(s)}] \in Int /\ val[Picked(s)] \in Int
  BY <1>3, <1>4 DEF IntOn
<1>6. g[s] = val[Picked(s)] + g[s \ {Picked(s)}]
  <2> HIDE DEF B
  <2> QED BY <1>2, <1>s, SumUnfolds
<1>7. g[s] \in Int
  <2> HIDE DEF B
  <2> QED BY <1>5, <1>6
<1> QED BY <1>7

(* The sums of equal values are equal, in whatever set they are taken.     *)
LEMMA SumsAgree ==
  ASSUME NEW S, IsFiniteSet(S), NEW U, S \subseteq U,
         NEW val, NEW w, SameOn(val, w, S),
         NEW g, Sums(g, val, S), NEW h, Sums(h, w, U)
  PROVE  \A s \in SUBSET S : g[s] = h[s]
<1>e. g[{}] = 0 /\ h[{}] = 0
  BY EmptySum
<1> DEFINE B == {s \in SUBSET S : g[s] # h[s]}
<1> SUFFICES ASSUME B # {} PROVE FALSE
  OBVIOUS
<1>1. PICK s \in B : \A t \in B : Cardinality(s) <= Cardinality(t)
  BY Smallest
<1>2. s # {} /\ s \in SUBSET S /\ s \in SUBSET U
  BY <1>e
<1>3. Picked(s) \in s
  BY <1>2, PickedIsIn
<1>4. s \ {Picked(s)} \notin B
  BY <1>1, <1>3, Smaller
<1>5. g[s \ {Picked(s)}] = h[s \ {Picked(s)}]
  BY <1>2, <1>4
<1>6. val[Picked(s)] = w[Picked(s)]
  BY <1>2, <1>3 DEF SameOn
<1>7. /\ g[s] = val[Picked(s)] + g[s \ {Picked(s)}]
      /\ h[s] = w[Picked(s)] + h[s \ {Picked(s)}]
  BY <1>2, SumUnfolds
<1>8. g[s] = h[s]
  <2> HIDE DEF B
  <2> QED BY <1>5, <1>6, <1>7
<1> QED BY <1>8

(* Any element may be picked first.                                        *)
LEMMA SumTakesAny ==
  ASSUME NEW val, NEW S, IsFiniteSet(S), IntOn(val, S),
         NEW g, Sums(g, val, S)
  PROVE  \A s \in SUBSET S, a \in S : a \in s => g[s] = val[a] + g[s \ {a}]
<1>i. \A s \in SUBSET S : g[s] \in Int
  BY SumIsInt
<1> DEFINE B == {s \in SUBSET S : \E a \in s : g[s] # val[a] + g[s \ {a}]}
<1> SUFFICES ASSUME B # {} PROVE FALSE
  OBVIOUS
<1>1. PICK s \in B : \A t \in B : Cardinality(s) <= Cardinality(t)
  BY Smallest
<1>2. PICK a \in s : g[s] # val[a] + g[s \ {a}]
  OBVIOUS
<1>3. s \subseteq S /\ s # {}
  BY <1>2
<1> DEFINE x == Picked(s)
<1>4. x \in s /\ g[s] = val[x] + g[s \ {x}]
  <2> HIDE DEF B
  <2> QED BY <1>3, SumUnfolds, PickedIsIn
<1> HIDE DEF x
<1>5. x # a
  BY <1>2, <1>4
<1>6. s \ {x} \notin B /\ s \ {a} \notin B
  BY <1>1, <1>2, <1>3, <1>4, Smaller
<1>7. /\ g[s \ {x}] = val[a] + g[(s \ {x}) \ {a}]
      /\ g[s \ {a}] = val[x] + g[(s \ {a}) \ {x}]
  BY <1>2, <1>3, <1>4, <1>5, <1>6
<1>8. (s \ {x}) \ {a} = (s \ {a}) \ {x}
  OBVIOUS
<1>9. g[(s \ {x}) \ {a}] \in Int /\ val[a] \in Int /\ val[x] \in Int
  BY <1>2, <1>3, <1>4, <1>i DEF IntOn
<1>10. g[s] = val[a] + g[s \ {a}]
  <2> DEFINE rest == g[(s \ {x}) \ {a}]
  <2>1. g[s] = val[x] + (val[a] + rest) /\ g[s \ {a}] = val[x] + rest
    BY <1>4, <1>7, <1>8
  <2>2. rest \in Int
    BY <1>9
  <2> HIDE DEF rest
  <2> QED BY <2>1, <2>2, <1>9
<1> QED BY <1>2, <1>10

-----------------------------------------------------------------------------
(* Sums that SumFunction computes                                          *)

LEMMA NoValues ==
  ASSUME NEW f, DOMAIN f = {}
  PROVE  SumFunction(f) = 0
<1>1. PICK g : Sums(g, f, {}) /\ SumFunctionOnSet(f, {}) = g[{}]
  BY SumIsFold, FS_EmptySet, Zenon
<1>2. g[{}] = 0
  BY <1>1, EmptySum, Zenon
<1> QED BY <1>1, <1>2 DEF SumFunction

LEMMA SumFunctionIsInt ==
  ASSUME NEW S, IsFiniteSet(S), NEW f \in [S -> Int]
  PROVE  SumFunction(f) \in Int
<1>1. IntOn(f, S) /\ DOMAIN f = S
  BY DEF IntOn
<1>2. PICK g : Sums(g, f, S) /\ SumFunctionOnSet(f, S) = g[S]
  BY SumIsFold
<1>3. g[S] \in Int
  BY <1>1, <1>2, SumIsInt
<1> QED BY <1>1, <1>2, <1>3 DEF SumFunction

(* With one value more a sum is that much more.                            *)
LEMMA OneValueMore ==
  ASSUME NEW S, IsFiniteSet(S), NEW f \in [S -> Int],
         NEW a, a \notin S, NEW k \in [S \cup {a} -> Int], \A x \in S : k[x] = f[x]
  PROVE  SumFunction(k) = SumFunction(f) + k[a]
<1> DEFINE U == S \cup {a}
<1>1. IsFiniteSet(U) /\ S \subseteq U /\ U \in SUBSET U /\ a \in U
  BY FS_AddElement
<1>2. IntOn(k, U) /\ IntOn(f, S) /\ SameOn(f, k, S) /\ DOMAIN k = U /\ DOMAIN f = S
  BY DEF IntOn, SameOn
<1>3. U \ {a} = S
  OBVIOUS
<1> HIDE DEF U
<1>4. PICK g : Sums(g, f, S) /\ SumFunctionOnSet(f, S) = g[S]
  BY SumIsFold
<1>5. PICK h : Sums(h, k, U) /\ SumFunctionOnSet(k, U) = h[U]
  BY <1>1, SumIsFold
<1>6. \A s \in SUBSET S : g[s] = h[s]
  BY <1>1, <1>2, <1>4, <1>5, SumsAgree
<1>7. h[U] = k[a] + h[U \ {a}]
  BY <1>1, <1>2, <1>5, SumTakesAny
<1>8. h[U] = k[a] + g[S]
  BY <1>3, <1>6, <1>7
<1>9. g[S] \in Int /\ k[a] \in Int
  BY <1>1, <1>2, <1>4, SumIsInt DEF IntOn
<1>10. SumFunction(k) = h[U] /\ SumFunction(f) = g[S]
  BY <1>2, <1>4, <1>5 DEF SumFunction
<1> QED BY <1>8, <1>9, <1>10

(* When one value changes, the sum changes by as much.                     *)
LEMMA OneValueChanges ==
  ASSUME NEW S, IsFiniteSet(S), NEW f \in [S -> Int], NEW k \in [S -> Int],
         NEW a \in S, \A x \in S \ {a} : k[x] = f[x]
  PROVE  SumFunction(k) = SumFunction(f) + (k[a] - f[a])
<1> DEFINE T == S \ {a}
           r == [x \in T |-> f[x]]
<1>1. IsFiniteSet(T) /\ a \notin T /\ T \cup {a} = S
  BY FS_RemoveElement
<1>2. r \in [T -> Int] /\ (\A x \in T : f[x] = r[x] /\ k[x] = r[x])
  OBVIOUS
<1>3. k[a] \in Int /\ f[a] \in Int
  OBVIOUS
<1> HIDE DEF T, r
<1>4. f \in [T \cup {a} -> Int] /\ k \in [T \cup {a} -> Int]
  BY <1>1
<1>5. SumFunction(f) = SumFunction(r) + f[a]
  BY <1>1, <1>2, <1>4, OneValueMore
<1>6. SumFunction(k) = SumFunction(r) + k[a]
  BY <1>1, <1>2, <1>4, OneValueMore
<1>7. SumFunction(r) \in Int
  BY <1>1, <1>2, SumFunctionIsInt
<1> QED BY <1>3, <1>5, <1>6, <1>7
=============================================================================
