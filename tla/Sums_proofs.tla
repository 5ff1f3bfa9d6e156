----------------------------- MODULE Sums_proofs -----------------------------
(***************************************************************************)
(* What the proofs need of sums over finite sets, whatever the order their *)
(* members are added in, and of functions that are given step by step.     *)
(***************************************************************************)
EXTENDS Integers, Sequences, FiniteSets, Functions, FiniteSetTheorems,
        WellFoundedInduction, TLAPS

-----------------------------------------------------------------------------
(* Sums *)

(* What holds of all sets of a finite set is shown by the smallest one of  *)
(* which it does not.                                                      *)
LEMMA Least ==
  ASSUME NEW T, T \subseteq Nat, T # {}
  PROVE  \E x \in T : \A y \in T : x <= y
<1> DEFINE R == OpToRel(<, Nat)
<1>1. IsWellFoundedOn(R, Nat)
  BY NatLessThanWellFounded
<1>2. PICK x \in T : \A y \in T : ~ (<<y, x>> \in R)
  <2> HIDE DEF R
  <2> QED BY <1>1, WFMin
<1>3. \A y \in Nat : <<y, x>> \in R <=> y < x
  BY DEF OpToRel
<1>4. ASSUME NEW y \in T PROVE x <= y
  <2> HIDE DEF R
  <2>1. ~ (y < x)
    BY <1>2, <1>3
  <2> QED BY <2>1
<1> QED BY <1>4

(* Of some parts of a finite set one is the smallest.                      *)
LEMMA Smallest ==
  ASSUME NEW S, IsFiniteSet(S), NEW B, B \subseteq SUBSET S, B # {}
  PROVE  \E T \in B : \A x \in T : T \ {x} \notin B
<1> DEFINE N == {Cardinality(T) : T \in B}
<1>1. \A T \in B : IsFiniteSet(T) /\ Cardinality(T) \in Nat
  BY FS_Subset, FS_CardinalityType
<1>2. N \subseteq Nat /\ N # {}
  BY <1>1
<1>3. PICK n \in N : \A z \in N : n <= z
  <2> HIDE DEF N
  <2> QED BY <1>2, Least
<1>4. PICK T \in B : n = Cardinality(T)
  OBVIOUS
<1>5. ASSUME NEW x \in T, T \ {x} \in B PROVE FALSE
  <2>1. Cardinality(T \ {x}) = Cardinality(T) - 1
    BY <1>1, FS_RemoveElement
  <2>2. n <= Cardinality(T \ {x})
    BY <1>3, <1>5
  <2> QED BY <1>1, <1>4, <2>1, <2>2
<1> QED BY <1>4, <1>5

(* The sums of the community modules are what a function over the subsets  *)
(* gives that takes out one member at a time.                              *)
Pick(s) == CHOOSE x \in s : TRUE
Adds(f, S, g) ==
  g = [s \in SUBSET S |-> IF s = {} THEN 0 ELSE f[Pick(s)] + g[s \ {Pick(s)}]]
Adder(f, S) == CHOOSE g : Adds(f, S, g)

AddsUp(f, S, g) ==
  \A s \in SUBSET S : g[s] = IF s = {} THEN 0 ELSE f[Pick(s)] + g[s \ {Pick(s)}]

(* The sum of a set is what the function gives for it.                     *)
LEMMA SumIs == \A f, S : SumFunctionOnSet(f, S) = Adder(f, S)[S]
BY DEF SumFunctionOnSet, FoldFunctionOnSet, MapThenFoldSet, Adder, Adds, Pick

(* What is taken out is a member.                                          *)
LEMMA Picked == \A s : s # {} => Pick(s) \in s
BY DEF Pick

(* There is such a function: it can be given for the sets of at most n     *)
(* members, and then for those of one more.                                *)
LEMMA AdderExists ==
  ASSUME NEW S, IsFiniteSet(S), NEW f, \A x \in S : f[x] \in Int
  PROVE  \E g \in [SUBSET S -> Int] : Adds(f, S, g)
<1> DEFINE Value(g, s) == IF s = {} THEN 0 ELSE f[Pick(s)] + g[s \ {Pick(s)}]
           Good(n) == \E g \in [SUBSET S -> Int] :
                        \A s \in SUBSET S : Cardinality(s) <= n => g[s] = Value(g, s)
           Bad == {n \in Nat : ~Good(n)}
<1>1. \A s \in SUBSET S : IsFiniteSet(s) /\ Cardinality(s) \in Nat
  BY FS_Subset, FS_CardinalityType
<1>2. Good(0)
  <2> DEFINE g == [s \in SUBSET S |-> 0]
  <2>1. \A s \in SUBSET S : Cardinality(s) <= 0 => s = {}
    BY <1>1, FS_EmptySet
  <2>2. g \in [SUBSET S -> Int]
    OBVIOUS
  <2>3. ASSUME NEW s \in SUBSET S, Cardinality(s) <= 0 PROVE g[s] = Value(g, s)
    BY <2>1, <2>3
  <2> HIDE DEF g, Value
  <2> QED BY <2>2, <2>3
<1>3. ASSUME NEW n \in Nat, Good(n) PROVE Good(n + 1)
  <2>1. PICK g \in [SUBSET S -> Int] :
          \A s \in SUBSET S : Cardinality(s) <= n => g[s] = Value(g, s)
    BY <1>3
  <2> DEFINE h == [s \in SUBSET S |-> IF Cardinality(s) <= n THEN g[s] ELSE Value(g, s)]
  <2>2. ASSUME NEW s \in SUBSET S, s # {}
        PROVE  /\ Pick(s) \in s /\ s \ {Pick(s)} \in SUBSET S
               /\ Cardinality(s \ {Pick(s)}) = Cardinality(s) - 1
    BY <1>1, <2>2, Picked, FS_RemoveElement
  <2>3. \A s \in SUBSET S : Value(g, s) \in Int
    <3> SUFFICES ASSUME NEW s \in SUBSET S PROVE Value(g, s) \in Int
      OBVIOUS
    <3>1. s # {} => f[Pick(s)] \in Int /\ g[s \ {Pick(s)}] \in Int
      <4> SUFFICES ASSUME s # {} PROVE f[Pick(s)] \in Int /\ g[s \ {Pick(s)}] \in Int
        OBVIOUS
      <4>1. Pick(s) \in S /\ s \ {Pick(s)} \in SUBSET S
        BY <2>2
      <4> QED BY <2>1, <4>1
    <3> QED BY <3>1
  <2>4. h \in [SUBSET S -> Int]
    <3> HIDE DEF Value
    <3> QED BY <2>1, <2>3
  <2>5. ASSUME NEW s \in SUBSET S, Cardinality(s) <= n + 1
        PROVE  h[s] = Value(h, s)
    <3>1. h[s] = Value(g, s)
      <4> HIDE DEF Value
      <4> QED BY <2>1
    <3>2. s # {} => h[s \ {Pick(s)}] = g[s \ {Pick(s)}]
      <4> SUFFICES ASSUME s # {} PROVE h[s \ {Pick(s)}] = g[s \ {Pick(s)}]
        OBVIOUS
      <4>1. Cardinality(s \ {Pick(s)}) <= n /\ s \ {Pick(s)} \in SUBSET S
        BY <1>1, <2>2, <2>5
      <4> HIDE DEF Value
      <4> QED BY <4>1
    <3> HIDE DEF h
    <3> QED BY <3>1, <3>2
  <2> HIDE DEF h
  <2> QED BY <2>4, <2>5
<1>4. Bad = {}
  <2> SUFFICES ASSUME Bad # {} PROVE FALSE
    OBVIOUS
  <2>1. Bad \subseteq Nat
    OBVIOUS
  <2> HIDE DEF Bad
  <2>2. PICK n \in Bad : \A z \in Bad : n <= z
    BY <2>1, Least
  <2> HIDE DEF Good
  <2>3. n \in Nat /\ ~Good(n) /\ n # 0
    BY <1>2 DEF Bad
  <2>4. n - 1 \in Nat /\ n - 1 \notin Bad
    BY <2>2, <2>3
  <2>5. Good(n - 1)
    BY <2>4 DEF Bad
  <2>6. n = (n - 1) + 1
    BY <2>3
  <2> QED BY <1>3, <2>3, <2>4, <2>5, <2>6
<1>5. Cardinality(S) \in Nat
  BY <1>1
<1>6. Good(Cardinality(S))
  <2> HIDE DEF Good
  <2> QED BY <1>4, <1>5
<1>7. PICK g \in [SUBSET S -> Int] :
        \A s \in SUBSET S : Cardinality(s) <= Cardinality(S) => g[s] = Value(g, s)
  BY <1>6
<1>8. \A s \in SUBSET S : Cardinality(s) <= Cardinality(S)
  BY FS_Subset
<1>9. \A s \in SUBSET S : g[s] = Value(g, s)
  BY <1>7, <1>8
<1>10. g = [s \in SUBSET S |-> Value(g, s)]
  <2> HIDE DEF Value
  <2> QED BY <1>9
<1> QED BY <1>10 DEF Adds

(* and only one.                                                           *)
LEMMA AdderUnique ==
  ASSUME NEW S, IsFiniteSet(S), NEW f, NEW g, NEW h, AddsUp(f, S, g), AddsUp(f, S, h)
  PROVE  \A s \in SUBSET S : g[s] = h[s]
<1> DEFINE Bad == {s \in SUBSET S : g[s] # h[s]}
<1> SUFFICES ASSUME Bad # {} PROVE FALSE
  OBVIOUS
<1>1. PICK T \in Bad : \A x \in T : T \ {x} \notin Bad
  <2>1. Bad \subseteq SUBSET S
    OBVIOUS
  <2> HIDE DEF Bad
  <2> QED BY <2>1, Smallest
<1>2. T # {}
  BY DEF AddsUp
<1>3. Pick(T) \in T /\ T \ {Pick(T)} \in SUBSET S
  BY <1>2, Picked
<1>4. g[T \ {Pick(T)}] = h[T \ {Pick(T)}]
  BY <1>1, <1>3
<1> QED BY <1>2, <1>4 DEF AddsUp

(* So the function that is chosen adds up.                                 *)
LEMMA AdderAdds ==
  ASSUME NEW S, IsFiniteSet(S), NEW f, \A x \in S : f[x] \in Int
  PROVE  /\ Adder(f, S) \in [SUBSET S -> Int]
         /\ AddsUp(f, S, Adder(f, S))
<1> DEFINE g == Adder(f, S)
<1>1. PICK h \in [SUBSET S -> Int] : Adds(f, S, h)
  BY AdderExists
<1>2. Adds(f, S, g)
  BY <1>1 DEF Adder
<1> HIDE DEF g
<1>3. AddsUp(f, S, g)
  BY <1>2 DEF Adds, AddsUp
<1>4. AddsUp(f, S, h)
  BY <1>1 DEF Adds, AddsUp
<1>5. \A s \in SUBSET S : g[s] = h[s]
  BY <1>3, <1>4, AdderUnique
<1>6. g = [s \in SUBSET S |-> g[s]]
  BY <1>2 DEF Adds
<1>7. g \in [SUBSET S -> Int]
  BY <1>5, <1>6
<1> QED BY <1>3, <1>7 DEF g

(* The function of a set gives the sums of its parts too.                  *)
LEMMA SumOfPart ==
  ASSUME NEW S, IsFiniteSet(S), NEW f, \A x \in S : f[x] \in Int, NEW T \in SUBSET S
  PROVE  SumFunctionOnSet(f, T) = Adder(f, S)[T]
<1>1. IsFiniteSet(T)
  BY FS_Subset
<1> DEFINE g == Adder(f, S)
           h == Adder(f, T)
<1>2. AddsUp(f, T, g)
  <2>1. AddsUp(f, S, g)
    BY AdderAdds
  <2> HIDE DEF g
  <2> QED BY <2>1 DEF AddsUp
<1>3. AddsUp(f, T, h)
  BY <1>1, AdderAdds
<1> HIDE DEF g, h
<1>4. \A s \in SUBSET T : g[s] = h[s]
  BY <1>1, <1>2, <1>3, AdderUnique
<1>5. g[T] = h[T]
  BY <1>4
<1> QED BY <1>5, SumIs DEF g, h

(* The sum of a finite set, whatever the order.                            *)
LEMMA SumType ==
  ASSUME NEW S, IsFiniteSet(S), NEW f, \A x \in S : f[x] \in Int
  PROVE  SumFunctionOnSet(f, S) \in Int
<1>1. S \in SUBSET S /\ Adder(f, S) \in [SUBSET S -> Int]
  BY AdderAdds
<1>2. Adder(f, S)[S] \in Int
  BY <1>1
<1> QED BY <1>2, SumIs

(* Nothing adds up to 0.                                                   *)
LEMMA SumEmpty == \A f : SumFunctionOnSet(f, {}) = 0
<1> SUFFICES ASSUME NEW f PROVE SumFunctionOnSet(f, {}) = 0
  OBVIOUS
<1>1. IsFiniteSet({}) /\ \A x \in {} : f[x] \in Int
  BY FS_EmptySet
<1>2. AddsUp(f, {}, Adder(f, {}))
  BY <1>1, AdderAdds
<1>3. Adder(f, {})[{}] = 0
  BY <1>2 DEF AddsUp
<1> QED BY <1>3, SumIs

(* The member that is taken out first counts once,                         *)
LEMMA SumPick ==
  ASSUME NEW S, IsFiniteSet(S), NEW f, \A x \in S : f[x] \in Int, S # {}
  PROVE  SumFunctionOnSet(f, S) = f[Pick(S)] + SumFunctionOnSet(f, S \ {Pick(S)})
<1>1. S \ {Pick(S)} \in SUBSET S /\ S \in SUBSET S
  OBVIOUS
<1>2. Adder(f, S)[S] = f[Pick(S)] + Adder(f, S)[S \ {Pick(S)}]
  <2>1. AddsUp(f, S, Adder(f, S))
    BY AdderAdds
  <2> QED BY <1>1, <2>1 DEF AddsUp
<1> QED BY <1>1, <1>2, SumOfPart

(* and so does any other member.                                           *)
LEMMA SumRemove ==
  ASSUME NEW S, IsFiniteSet(S), NEW f, \A x \in S : f[x] \in Int, NEW x \in S
  PROVE  SumFunctionOnSet(f, S) = f[x] + SumFunctionOnSet(f, S \ {x})
<1> DEFINE Sum(T) == SumFunctionOnSet(f, T)
           Bad == {T \in SUBSET S : \E y \in T : Sum(T) # f[y] + Sum(T \ {y})}
<1> SUFFICES ASSUME Bad # {} PROVE FALSE
  OBVIOUS
<1>1. PICK T \in Bad : \A y \in T : T \ {y} \notin Bad
  <2>1. Bad \subseteq SUBSET S
    OBVIOUS
  <2> HIDE DEF Bad
  <2> QED BY <2>1, Smallest
<1>2. PICK y \in T : Sum(T) # f[y] + Sum(T \ {y})
  OBVIOUS
<1> DEFINE c == Pick(T)
<1>3. c \in T
  BY <1>2, Picked
<1>4. \A U \in SUBSET T : IsFiniteSet(U) /\ Sum(U) \in Int
  <2> SUFFICES ASSUME NEW U \in SUBSET T PROVE IsFiniteSet(U) /\ Sum(U) \in Int
    OBVIOUS
  <2>1. U \subseteq S /\ \A z \in U : f[z] \in Int
    OBVIOUS
  <2>2. IsFiniteSet(U)
    BY <2>1, FS_Subset
  <2> QED BY <2>1, <2>2, SumType
<1>5. Sum(T) = f[c] + Sum(T \ {c})
  <2>1. IsFiniteSet(T) /\ \A z \in T : f[z] \in Int
    BY <1>4
  <2> QED BY <1>2, <2>1, SumPick
<1>6. y # c
  BY <1>2, <1>5
<1> HIDE DEF c
<1>7. Sum(T \ {c}) = f[y] + Sum((T \ {c}) \ {y})
  <2>1. T \ {c} \notin Bad /\ y \in T \ {c} /\ T \ {c} \in SUBSET S
    BY <1>1, <1>3, <1>6
  <2> QED BY <2>1
<1>8. Sum(T \ {y}) = f[c] + Sum((T \ {y}) \ {c})
  <2>1. T \ {y} \notin Bad /\ c \in T \ {y} /\ T \ {y} \in SUBSET S
    BY <1>1, <1>3, <1>6
  <2> QED BY <2>1
<1>9. (T \ {c}) \ {y} = (T \ {y}) \ {c}
  OBVIOUS
<1>10. f[c] \in Int /\ f[y] \in Int /\ Sum((T \ {y}) \ {c}) \in Int
  BY <1>3, <1>4
<1>11. Sum(T) # f[y] + Sum(T \ {y})
  BY <1>2
<1>12. Sum(T) = f[c] + (f[y] + Sum((T \ {y}) \ {c}))
  BY <1>5, <1>7, <1>9
<1> HIDE DEF Sum
<1> QED BY ONLY <1>8, <1>10, <1>11, <1>12

(* Sets without a common member add up to the sum of their union.          *)
LEMMA SumUnion ==
  ASSUME NEW S, IsFiniteSet(S), NEW f, \A x \in S : f[x] \in Int,
         NEW A \in SUBSET S, NEW B \in SUBSET S, A \cap B = {}
  PROVE  SumFunctionOnSet(f, A \cup B) = SumFunctionOnSet(f, A) + SumFunctionOnSet(f, B)
<1> DEFINE Sum(T) == SumFunctionOnSet(f, T)
           Bad == {T \in SUBSET B : Sum(A \cup T) # Sum(A) + Sum(T)}
<1>0. IsFiniteSet(B)
  BY FS_Subset
<1> SUFFICES ASSUME Bad # {} PROVE FALSE
  OBVIOUS
<1>1. PICK T \in Bad : \A y \in T : T \ {y} \notin Bad
  <2>1. Bad \subseteq SUBSET B
    OBVIOUS
  <2> HIDE DEF Bad
  <2> QED BY <1>0, <2>1, Smallest
<1>2. \A U \in SUBSET S : IsFiniteSet(U) /\ Sum(U) \in Int
  <2> SUFFICES ASSUME NEW U \in SUBSET S PROVE IsFiniteSet(U) /\ Sum(U) \in Int
    OBVIOUS
  <2>1. IsFiniteSet(U) /\ \A z \in U : f[z] \in Int
    BY FS_Subset
  <2> QED BY <2>1, SumType
<1>3. T # {}
  <2>1. Sum({}) = 0 /\ Sum(A) \in Int /\ A \cup {} = A
    BY <1>2, SumEmpty
  <2>2. Sum(A \cup T) # Sum(A) + Sum(T)
    OBVIOUS
  <2>3. ASSUME T = {} PROVE FALSE
    <3>1. A \cup T = A
      BY <2>3
    <3>2. Sum(A \cup T) = Sum(A) /\ Sum(T) = 0
      BY <3>1, <2>1, <2>3
    <3> HIDE DEF Sum
    <3> QED BY ONLY <2>1, <2>2, <3>2
  <2> QED BY <2>3
<1>4. PICK y \in T : TRUE
  BY <1>3
<1>5. Sum(A \cup (T \ {y})) = Sum(A) + Sum(T \ {y})
  <2>1. T \ {y} \notin Bad /\ T \ {y} \in SUBSET B
    BY <1>1
  <2> HIDE DEF Sum
  <2> QED BY <2>1
<1>6. Sum(T) = f[y] + Sum(T \ {y})
  <2>1. IsFiniteSet(T) /\ \A z \in T : f[z] \in Int
    BY <1>2
  <2> QED BY <2>1, SumRemove
<1>7. Sum(A \cup T) = f[y] + Sum((A \cup T) \ {y})
  <2>1. A \cup T \in SUBSET S /\ y \in A \cup T
    OBVIOUS
  <2>2. IsFiniteSet(A \cup T) /\ \A z \in A \cup T : f[z] \in Int
    BY <1>2, <2>1
  <2> HIDE DEF Sum
  <2> QED BY <2>1, <2>2, SumRemove DEF Sum
<1>8. (A \cup T) \ {y} = A \cup (T \ {y})
  OBVIOUS
<1>9. f[y] \in Int /\ Sum(A) \in Int /\ Sum(T \ {y}) \in Int /\ Sum(A \cup T) # Sum(A) + Sum(T)
  BY <1>2
<1>10. Sum(A \cup T) = f[y] + (Sum(A) + Sum(T \ {y}))
  BY <1>5, <1>7, <1>8
<1>11. Sum(A) + Sum(T) = Sum(A) + (f[y] + Sum(T \ {y}))
  BY <1>6
<1> HIDE DEF Sum
<1> QED BY ONLY <1>9, <1>10, <1>11

(* A sum depends on the values of the members alone.                       *)
LEMMA SumSame ==
  ASSUME NEW S, IsFiniteSet(S), NEW f, NEW g, \A x \in S : f[x] \in Int /\ g[x] = f[x]
  PROVE  SumFunctionOnSet(g, S) = SumFunctionOnSet(f, S)
<1> DEFINE h == Adder(f, S)
           k == Adder(g, S)
<1>1. AddsUp(f, S, h)
  BY AdderAdds
<1>2. AddsUp(g, S, k)
  BY AdderAdds
<1> HIDE DEF h, k
<1>3. \A s \in SUBSET S : s # {} => g[Pick(s)] = f[Pick(s)]
  BY Picked
<1>4. AddsUp(f, S, k)
  BY <1>2, <1>3 DEF AddsUp
<1>5. \A s \in SUBSET S : k[s] = h[s]
  BY <1>1, <1>4, AdderUnique
<1>6. k[S] = h[S]
  BY <1>5
<1> QED BY <1>6, SumIs DEF h, k

(* Natural numbers add up to one.                                          *)
LEMMA SumOfNumbers ==
  ASSUME NEW S, IsFiniteSet(S), NEW f, \A x \in S : f[x] \in Nat
  PROVE  SumFunctionOnSet(f, S) \in Nat
<1> DEFINE Bad == {T \in SUBSET S : SumFunctionOnSet(f, T) \notin Nat}
<1> SUFFICES ASSUME Bad # {} PROVE FALSE
  OBVIOUS
<1>1. PICK T \in Bad : \A y \in T : T \ {y} \notin Bad
  <2>1. Bad \subseteq SUBSET S
    OBVIOUS
  <2> HIDE DEF Bad
  <2> QED BY <2>1, Smallest
<1>2. T # {}
  BY SumEmpty
<1>3. PICK y \in T : TRUE
  BY <1>2
<1>4. SumFunctionOnSet(f, T \ {y}) \in Nat
  BY <1>1
<1>5. IsFiniteSet(T) /\ \A x \in T : f[x] \in Int
  BY FS_Subset
<1>6. SumFunctionOnSet(f, T) = f[y] + SumFunctionOnSet(f, T \ {y})
  BY <1>5, SumRemove
<1>7. f[y] \in Nat
  OBVIOUS
<1>8. SumFunctionOnSet(f, T) \in Nat
  BY <1>4, <1>6, <1>7
<1> QED BY <1>8

(* A sum may be taken class by class.                                      *)
Class(S, key, c) == {x \in S : key[x] = c}

LEMMA SumByClass ==
  ASSUME NEW S, IsFiniteSet(S), NEW f, \A x \in S : f[x] \in Int,
         NEW K, IsFiniteSet(K), NEW key, \A x \in S : key[x] \in K,
         NEW part, \A c \in K : part[c] = SumFunctionOnSet(f, Class(S, key, c))
  PROVE  SumFunctionOnSet(part, K) = SumFunctionOnSet(f, S)
<1> DEFINE Sum(T) == SumFunctionOnSet(f, T)
           Of(C) == {x \in S : key[x] \in C}
           Bad == {C \in SUBSET K : SumFunctionOnSet(part, C) # Sum(Of(C))}
<1>1. \A U \in SUBSET S : IsFiniteSet(U) /\ Sum(U) \in Int
  <2> SUFFICES ASSUME NEW U \in SUBSET S PROVE IsFiniteSet(U) /\ Sum(U) \in Int
    OBVIOUS
  <2>1. IsFiniteSet(U) /\ \A z \in U : f[z] \in Int
    BY FS_Subset
  <2> QED BY <2>1, SumType
<1>2. \A c \in K : part[c] \in Int /\ part[c] = Sum(Of({c}))
  <2> SUFFICES ASSUME NEW c \in K PROVE part[c] \in Int /\ part[c] = Sum(Of({c}))
    OBVIOUS
  <2>1. Class(S, key, c) = Of({c})
    BY DEF Class
  <2> HIDE DEF Of
  <2>2. Of({c}) \in SUBSET S
    BY DEF Of
  <2> QED BY <1>1, <2>1, <2>2
<1>3. Bad = {}
  <2> SUFFICES ASSUME Bad # {} PROVE FALSE
    OBVIOUS
  <2>1. PICK C \in Bad : \A c \in C : C \ {c} \notin Bad
    <3>1. Bad \subseteq SUBSET K
      OBVIOUS
    <3> HIDE DEF Bad
    <3> QED BY <3>1, Smallest
  <2>2. C \subseteq K /\ SumFunctionOnSet(part, C) # Sum(Of(C))
    OBVIOUS
  <2>3. C # {}
    <3>1. Of({}) = {}
      OBVIOUS
    <3> HIDE DEF Of
    <3> QED BY <2>2, <3>1, SumEmpty
  <2>4. PICK c \in C : TRUE
    BY <2>3
  <2>5. SumFunctionOnSet(part, C \ {c}) = Sum(Of(C \ {c}))
    BY <2>1, <2>2
  <2>6. SumFunctionOnSet(part, C) = part[c] + SumFunctionOnSet(part, C \ {c})
    <3>1. IsFiniteSet(C)
      BY <2>2, FS_Subset
    <3>2. \A d \in C : part[d] \in Int
      BY <1>2, <2>2
    <3> QED BY <3>1, <3>2, SumRemove
  <2>7. /\ Of(C) = Of(C \ {c}) \cup Of({c}) /\ Of(C \ {c}) \cap Of({c}) = {}
        /\ Of(C \ {c}) \in SUBSET S /\ Of({c}) \in SUBSET S
    OBVIOUS
  <2> HIDE DEF Of
  <2>8. Sum(Of(C)) = Sum(Of(C \ {c})) + Sum(Of({c}))
    <3>1. \A A, B \in SUBSET S :
            A \cap B = {} => Sum(A \cup B) = Sum(A) + Sum(B)
      BY SumUnion
    <3> HIDE DEF Sum
    <3> QED BY <2>7, <3>1
  <2>9. part[c] = Sum(Of({c})) /\ Sum(Of(C \ {c})) \in Int /\ Sum(Of({c})) \in Int
    BY <1>1, <1>2, <2>2, <2>7
  <2> HIDE DEF Sum
  <2> QED BY <2>2, <2>5, <2>6, <2>8, <2>9
<1>4. K \notin Bad /\ Of(K) = S
  BY <1>3
<1> QED BY <1>4

-----------------------------------------------------------------------------
(* Steps *)

(* What holds at the start, and of one more whenever it holds of a number, *)
(* holds up to the last.                                                   *)
LEMMA Upward ==
  ASSUME NEW n \in Nat, NEW G, 0 \in G, \A i \in 0 .. n - 1 : i \in G => i + 1 \in G
  PROVE  \A i \in 0 .. n : i \in G
<1> DEFINE Bad == {i \in 0 .. n : i \notin G}
<1> SUFFICES ASSUME Bad # {} PROVE FALSE
  OBVIOUS
<1>1. PICK x \in Bad : \A y \in Bad : x <= y
  <2>1. Bad \subseteq Nat
    OBVIOUS
  <2> HIDE DEF Bad
  <2> QED BY <2>1, Least
<1>2. x # 0 /\ x \in 0 .. n
  OBVIOUS
<1>3. x - 1 \in 0 .. n - 1 /\ x - 1 \notin Bad
  BY <1>1, <1>2
<1>4. x - 1 \in G
  BY <1>3
<1>5. x - 1 + 1 \in G
  BY <1>3, <1>4
<1> QED BY <1>2, <1>5

(* Steps from one value to the next lead to a last one.                    *)
Leads(f, a, step, n) == f[0] = a /\ \A i \in 1 .. n : f[i] = step[<<i, f[i - 1]>>]

(* A function of the steps exists, which is what a recursive definition    *)
(* over 0 .. n chooses.                                                    *)
LEMMA Stepwise ==
  ASSUME NEW n \in Nat, NEW V, NEW a \in V, NEW step \in [(1 .. n) \X V -> V]
  PROVE  \E f \in [0 .. n -> V] : Leads(f, a, step, n)
<1> DEFINE G == {k \in 0 .. n : \E f \in [0 .. k -> V] : Leads(f, a, step, k)}
<1>1. 0 \in G
  <2> DEFINE f == [i \in 0 .. 0 |-> a]
  <2>1. f \in [0 .. 0 -> V] /\ Leads(f, a, step, 0)
    BY DEF Leads
  <2> QED BY <2>1
<1>2. ASSUME NEW i \in 0 .. n - 1, i \in G PROVE i + 1 \in G
  <2>1. PICK f \in [0 .. i -> V] : Leads(f, a, step, i)
    BY <1>2
  <2> DEFINE g == [j \in 0 .. i + 1 |-> IF j <= i THEN f[j] ELSE step[<<i + 1, f[i]>>]]
  <2>2. f[i] \in V /\ <<i + 1, f[i]>> \in (1 .. n) \X V
    OBVIOUS
  <2>3. step[<<i + 1, f[i]>>] \in V
    BY <2>2
  <2>4. g \in [0 .. i + 1 -> V]
    BY <2>3
  <2>5. Leads(g, a, step, i + 1)
    <3>1. g[0] = a
      BY <2>1 DEF Leads
    <3>2. ASSUME NEW j \in 1 .. i + 1 PROVE g[j] = step[<<j, g[j - 1]>>]
      <4>1. CASE j <= i
        <5>1. j \in 1 .. i /\ j \in 0 .. i + 1 /\ j - 1 \in 0 .. i + 1 /\ j - 1 <= i
          BY <4>1
        <5>2. g[j] = f[j] /\ g[j - 1] = f[j - 1]
          BY <4>1, <5>1
        <5> HIDE DEF g
        <5> QED BY <2>1, <5>1, <5>2 DEF Leads
      <4>2. CASE ~ (j <= i)
        <5>1. j = i + 1 /\ j - 1 = i /\ i \in 0 .. i + 1
          BY <4>2
        <5>2. g[j] = step[<<i + 1, f[i]>>] /\ g[i] = f[i]
          BY <4>2, <5>1
        <5> HIDE DEF g
        <5> QED BY <5>1, <5>2
      <4> QED BY <4>1, <4>2
    <3> HIDE DEF g
    <3> QED BY <3>1, <3>2 DEF Leads
  <2>6. i + 1 \in 0 .. n
    OBVIOUS
  <2> HIDE DEF g
  <2> QED BY <2>4, <2>5, <2>6
<1>3. \A i \in 0 .. n : i \in G
  <2> HIDE DEF G
  <2> QED BY <1>1, <1>2, Upward
<1> QED BY <1>3
=============================================================================
