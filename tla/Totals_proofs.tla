---------------------------- MODULE Totals_proofs ----------------------------
(***************************************************************************)
(* What a sum over a finite set is, for every set and every amounts.       *)
(*                                                                         *)
(* The community modules define a fold over a set as a recursive function  *)
(* on its subsets, which takes the elements in the order of a CHOOSE.      *)
(* Nothing is taken on trust about it here: that the function exists, that *)
(* it is the only one and that the order does not matter are proved, each  *)
(* by taking a smallest counterexample out of a well-founded set.          *)
(***************************************************************************)
EXTENDS Totals, FiniteSetTheorems, WellFoundedInduction, TLAPS

\* A set of natural numbers has a least element.
LEMMA LeastNat ==
    ASSUME NEW T \in SUBSET Nat, T # {}
    PROVE  \E n \in T : \A m \in T : n <= m
<1> DEFINE R == OpToRel(<, Nat)
<1>1. IsWellFoundedOn(R, Nat)
    BY NatLessThanWellFounded
<1>2. PICK n \in T : \A m \in T : <<m, n>> \notin R
    <2> HIDE DEF R
    <2> QED BY <1>1, WFMin
<1>3. \A m \in T : ~(m < n)
    BY <1>2 DEF OpToRel
<1> QED BY <1>3

\* Of a set of finite sets, one has the fewest elements.
LEMMA SmallestSet ==
    ASSUME NEW W, W # {}, \A s \in W : IsFiniteSet(s)
    PROVE  \E s \in W : \A t \in W : Cardinality(s) <= Cardinality(t)
<1> DEFINE sizes == {Cardinality(s) : s \in W}
<1>1. sizes \in SUBSET Nat /\ sizes # {}
    BY FS_CardinalityType
<1>2. PICK n \in sizes : \A m \in sizes : n <= m
    <2> HIDE DEF sizes
    <2> QED BY <1>1, LeastNat
<1> QED BY <1>2

(***************************************************************************)
(* The recursive function behind a sum.                                    *)
(***************************************************************************)
First(s) == CHOOSE x \in s : TRUE

\* g sums the amounts of every set of family F, which is closed under taking
\* the first element away.
Sums(g, amount, F) ==
    g = [s \in F |-> IF s = {} THEN 0 ELSE amount[First(s)] + g[s \ {First(s)}]]

LEMMA SumOverDef ==
    ASSUME NEW amount, NEW S
    PROVE  SumOver(amount, S) = (CHOOSE g : Sums(g, amount, SUBSET S))[S]
BY DEF SumOver, MapThenSumSet, MapThenFoldSet, Sums, First

LEMMA FirstIn == \A s : s # {} => First(s) \in s
BY DEF First

\* The sets with at most n elements, out of the subsets of S.
UpTo(n, S) == {s \in SUBSET S : Cardinality(s) <= n}

LEMMA RestIsSmaller ==
    ASSUME NEW S, IsFiniteSet(S), NEW s \in SUBSET S, s # {}
    PROVE  /\ s \ {First(s)} \in SUBSET S
           /\ Cardinality(s) \in Nat
           /\ Cardinality(s \ {First(s)}) = Cardinality(s) - 1
           /\ Cardinality(s \ {First(s)}) \in Nat
BY FS_Subset, FS_RemoveElement, FS_CardinalityType, FirstIn

\* One step of the construction of the function: sets with one more element.
LEMMA SumsGrow ==
    ASSUME NEW amount, NEW S, IsFiniteSet(S), NEW n \in Nat,
           NEW g, Sums(g, amount, UpTo(n, S))
    PROVE  \E h : Sums(h, amount, UpTo(n + 1, S))
<1> DEFINE h == [s \in UpTo(n + 1, S) |->
                    IF s = {} THEN 0 ELSE amount[First(s)] + g[s \ {First(s)}]]
<1>1. ASSUME NEW s \in UpTo(n + 1, S), s # {}
      PROVE  s \ {First(s)} \in UpTo(n, S) /\ s \ {First(s)} \in UpTo(n + 1, S)
    BY <1>1, RestIsSmaller DEF UpTo
<1>2. \A s \in UpTo(n, S) :
         g[s] = IF s = {} THEN 0 ELSE amount[First(s)] + g[s \ {First(s)}]
    BY DEF Sums
<1>3. \A s \in UpTo(n, S) : s \in UpTo(n + 1, S) => h[s] = g[s]
    BY <1>2
<1>4. \A s \in UpTo(n + 1, S) : s # {} => h[s \ {First(s)}] = g[s \ {First(s)}]
    BY <1>1, <1>3
<1>5. Sums(h, amount, UpTo(n + 1, S))
    BY <1>4 DEF Sums
<1> QED BY <1>5

LEMMA SumsExist ==
    ASSUME NEW amount, NEW S, IsFiniteSet(S)
    PROVE  \E g : Sums(g, amount, SUBSET S)
<1> DEFINE Bad == {n \in Nat : ~\E g : Sums(g, amount, UpTo(n, S))}
<1>1. \E g : Sums(g, amount, UpTo(0, S))
  <2> DEFINE g == [s \in UpTo(0, S) |-> 0]
  <2>1. \A s \in UpTo(0, S) : s = {}
    BY FS_Subset, FS_EmptySet, FS_CardinalityType DEF UpTo
  <2>2. Sums(g, amount, UpTo(0, S))
    BY <2>1 DEF Sums
  <2> QED BY <2>2
<1>2. Bad = {}
  <2>1. SUFFICES ASSUME Bad # {} PROVE FALSE
    OBVIOUS
  <2>2. PICK n \in Bad : \A m \in Bad : n <= m
    BY <2>1, LeastNat
  <2>3. n - 1 \in Nat /\ n - 1 \notin Bad /\ n = (n - 1) + 1
    BY <1>1, <2>2
  <2>4. PICK m \in Nat : m = n - 1
    BY <2>3
  <2>5. PICK g : Sums(g, amount, UpTo(m, S))
    BY <2>3, <2>4
  <2>6. \E h : Sums(h, amount, UpTo(m + 1, S))
    BY <2>5, SumsGrow
  <2> QED BY <2>2, <2>3, <2>4, <2>6
<1>3. UpTo(Cardinality(S), S) = SUBSET S /\ Cardinality(S) \in Nat
    BY FS_Subset, FS_CardinalityType DEF UpTo
<1>4. Cardinality(S) \notin Bad
    BY <1>2
<1> QED BY <1>3, <1>4

\* The functions for two sets agree on what is a subset of both.
LEMMA SumsAgree ==
    ASSUME NEW amount, NEW S, NEW T, NEW g, NEW h, NEW U,
           IsFiniteSet(S), IsFiniteSet(T), U \subseteq S, U \subseteq T,
           Sums(g, amount, SUBSET S), Sums(h, amount, SUBSET T)
    PROVE  g[U] = h[U]
<1> DEFINE W == {s \in SUBSET U : g[s] # h[s]}
<1>1. SUFFICES ASSUME W # {} PROVE FALSE
    OBVIOUS
<1>2. \A s \in W : IsFiniteSet(s) /\ s \in SUBSET S /\ s \in SUBSET T
    BY FS_Subset
<1>3. PICK s \in W : \A t \in W : Cardinality(s) <= Cardinality(t)
  <2> HIDE DEF W
  <2> QED BY <1>1, <1>2, SmallestSet
<1>4. s \in SUBSET S /\ s \in SUBSET T /\ s \in SUBSET U /\ g[s] # h[s]
    BY <1>2, <1>3
<1>5. g[s] = IF s = {} THEN 0 ELSE amount[First(s)] + g[s \ {First(s)}]
    BY <1>4 DEF Sums
<1>6. h[s] = IF s = {} THEN 0 ELSE amount[First(s)] + h[s \ {First(s)}]
    BY <1>4 DEF Sums
<1>7. s # {}
    BY <1>4, <1>5, <1>6
<1>8. Cardinality(s \ {First(s)}) < Cardinality(s)
    BY <1>4, <1>7, RestIsSmaller
<1>9. s \ {First(s)} \notin W
  <2> DEFINE t == s \ {First(s)}
  <2>1. Cardinality(t) < Cardinality(s) /\ Cardinality(t) \in Nat
        /\ Cardinality(s) \in Nat
    BY <1>4, <1>7, <1>8, RestIsSmaller
  <2> QED BY <1>3, <2>1
<1>10. s \ {First(s)} \in SUBSET U
    BY <1>4
<1> QED BY <1>4, <1>5, <1>6, <1>7, <1>9, <1>10

(***************************************************************************)
(* Sums.                                                                   *)
(***************************************************************************)
LEMMA SumEmpty == \A amount : SumOver(amount, {}) = 0
<1> TAKE amount
<1>1. PICK g : Sums(g, amount, SUBSET {})
    BY SumsExist, FS_EmptySet
<1> DEFINE h == CHOOSE x : Sums(x, amount, SUBSET {})
<1>2. Sums(h, amount, SUBSET {})
    BY <1>1
<1> HIDE DEF h
<1>3. h[{}] = 0
    BY <1>2 DEF Sums
<1> QED BY <1>3, SumOverDef DEF h

\* Any such function gives the sum of a set it is defined for.
LEMMA SumsGive ==
    ASSUME NEW amount, NEW S, NEW g, NEW U,
           IsFiniteSet(S), Sums(g, amount, SUBSET S), U \subseteq S
    PROVE  g[U] = SumOver(amount, U)
<1>1. IsFiniteSet(U) /\ U \subseteq U
    BY FS_Subset
<1>2. PICK h : Sums(h, amount, SUBSET U) /\ SumOver(amount, U) = h[U]
    BY <1>1, SumsExist, SumOverDef
<1> QED BY <1>1, <1>2, SumsAgree

LEMMA SumFirst ==
    ASSUME NEW amount, NEW S, IsFiniteSet(S), S # {}
    PROVE  SumOver(amount, S)
              = amount[First(S)] + SumOver(amount, S \ {First(S)})
<1>1. PICK g : Sums(g, amount, SUBSET S)
    BY SumsExist
<1>2. g[S] = amount[First(S)] + g[S \ {First(S)}]
    BY <1>1 DEF Sums
<1>3. S \subseteq S /\ S \ {First(S)} \subseteq S
    OBVIOUS
<1> QED BY <1>1, <1>2, <1>3, SumsGive

Amounts(amount, S) == \A x \in S : amount[x] \in Nat

LEMMA SumType ==
    ASSUME NEW S, IsFiniteSet(S), NEW amount, Amounts(amount, S)
    PROVE  SumOver(amount, S) \in Nat
<1> DEFINE W == {s \in SUBSET S : SumOver(amount, s) \notin Nat}
<1>1. SUFFICES ASSUME W # {} PROVE FALSE
    OBVIOUS
<1>2. \A s \in W : IsFiniteSet(s) /\ s \in SUBSET S
    BY FS_Subset
<1>3. PICK s \in W : \A t \in W : Cardinality(s) <= Cardinality(t)
  <2> HIDE DEF W
  <2> QED BY <1>1, <1>2, SmallestSet
<1>4. s \in SUBSET S /\ IsFiniteSet(s) /\ SumOver(amount, s) \notin Nat
    BY <1>2, <1>3
<1>5. s # {}
    BY <1>4, SumEmpty
<1> DEFINE t == s \ {First(s)}
<1>6. /\ Cardinality(t) < Cardinality(s) /\ Cardinality(t) \in Nat
      /\ Cardinality(s) \in Nat /\ t \in SUBSET S
    BY <1>4, <1>5, RestIsSmaller
<1>7. t \notin W
    BY <1>3, <1>6
<1>8. SumOver(amount, s) = amount[First(s)] + SumOver(amount, t)
    BY <1>4, <1>5, SumFirst
<1>9. amount[First(s)] \in Nat
    BY <1>4, <1>5, FirstIn DEF Amounts
<1> QED BY <1>4, <1>6, <1>7, <1>8, <1>9

\* The order of the elements does not matter: any element may go first.
LEMMA SumRemove ==
    ASSUME NEW S, IsFiniteSet(S), NEW amount, Amounts(amount, S), NEW z \in S
    PROVE  SumOver(amount, S) = amount[z] + SumOver(amount, S \ {z})
<1> DEFINE Splits(s, x) == SumOver(amount, s) = amount[x] + SumOver(amount, s \ {x})
           W == {s \in SUBSET S : \E x \in s : ~Splits(s, x)}
<1>1. SUFFICES ASSUME W # {} PROVE FALSE
    OBVIOUS
<1>2. \A s \in W : IsFiniteSet(s) /\ s \in SUBSET S
    BY FS_Subset
<1>3. PICK s \in W : \A t \in W : Cardinality(s) <= Cardinality(t)
  <2> HIDE DEF W
  <2> QED BY <1>1, <1>2, SmallestSet
<1>4. PICK x \in s : ~Splits(s, x)
    BY <1>3
<1>5. s \in SUBSET S /\ IsFiniteSet(s) /\ s # {}
    BY <1>2, <1>3, <1>4
<1> DEFINE y == First(s)
           t == s \ {y}
           u == s \ {x}
           v == s \ {x, y}
<1>6. Splits(s, y) /\ y \in s /\ x # y
    BY <1>4, <1>5, SumFirst, FirstIn
<1>7. /\ t \in SUBSET S /\ IsFiniteSet(t) /\ x \in t /\ t \ {x} = v
      /\ u \in SUBSET S /\ IsFiniteSet(u) /\ y \in u /\ u \ {y} = v
      /\ IsFiniteSet(v) /\ v \in SUBSET S
    BY <1>4, <1>5, <1>6, FS_Subset
<1>8. /\ Cardinality(s) \in Nat
      /\ Cardinality(t) = Cardinality(s) - 1
      /\ Cardinality(u) = Cardinality(s) - 1
    BY <1>4, <1>5, <1>6, FS_CardinalityType, FS_RemoveElement
<1>9. t \notin W /\ u \notin W
  <2> HIDE DEF W
  <2> QED BY <1>3, <1>8
<1>10. Splits(t, x) /\ Splits(u, y)
    BY <1>7, <1>9
<1>11. /\ SumOver(amount, s) = amount[y] + SumOver(amount, t)
       /\ SumOver(amount, t) = amount[x] + SumOver(amount, v)
       /\ SumOver(amount, u) = amount[y] + SumOver(amount, v)
       /\ SumOver(amount, s) # amount[x] + SumOver(amount, u)
    BY <1>4, <1>6, <1>7, <1>10
<1>12. amount[x] \in Nat /\ amount[y] \in Nat /\ SumOver(amount, v) \in Nat
  <2>1. Amounts(amount, v)
    BY <1>7 DEF Amounts
  <2> QED BY <1>4, <1>5, <1>6, <1>7, <2>1, SumType DEF Amounts
<1> HIDE DEF y, t, u, v
<1> QED BY <1>11, <1>12

LEMMA SumAdd ==
    ASSUME NEW S, IsFiniteSet(S), NEW x, x \notin S,
           NEW amount, Amounts(amount, S \cup {x})
    PROVE  SumOver(amount, S \cup {x}) = SumOver(amount, S) + amount[x]
<1> DEFINE T == S \cup {x}
<1>1. IsFiniteSet(T) /\ x \in T /\ T \ {x} = S
    BY FS_AddElement
<1>2. SumOver(amount, T) = amount[x] + SumOver(amount, S)
  <2> HIDE DEF T
  <2> QED BY <1>1, SumRemove
<1>3. amount[x] \in Nat /\ SumOver(amount, S) \in Nat
  <2>1. Amounts(amount, S)
    BY DEF Amounts
  <2> QED BY <2>1, SumType DEF Amounts
<1> QED BY <1>2, <1>3

\* Two columns that agree on a set have one sum over it.
LEMMA SumSame ==
    ASSUME NEW S, IsFiniteSet(S), NEW a, NEW b, \A x \in S : a[x] = b[x]
    PROVE  SumOver(a, S) = SumOver(b, S)
<1> DEFINE W == {s \in SUBSET S : SumOver(a, s) # SumOver(b, s)}
<1>1. SUFFICES ASSUME W # {} PROVE FALSE
    OBVIOUS
<1>2. \A s \in W : IsFiniteSet(s) /\ s \in SUBSET S
    BY FS_Subset
<1>3. PICK s \in W : \A t \in W : Cardinality(s) <= Cardinality(t)
  <2> HIDE DEF W
  <2> QED BY <1>1, <1>2, SmallestSet
<1>4. s \in SUBSET S /\ IsFiniteSet(s) /\ SumOver(a, s) # SumOver(b, s)
    BY <1>2, <1>3
<1>5. s # {}
    BY <1>4, SumEmpty
<1> DEFINE t == s \ {First(s)}
<1>6. /\ Cardinality(t) < Cardinality(s) /\ Cardinality(t) \in Nat
      /\ Cardinality(s) \in Nat /\ t \in SUBSET S
    BY <1>4, <1>5, RestIsSmaller
<1>7. t \notin W
    BY <1>3, <1>6
<1>8. /\ SumOver(a, s) = a[First(s)] + SumOver(a, t)
      /\ SumOver(b, s) = b[First(s)] + SumOver(b, t)
    BY <1>4, <1>5, SumFirst
<1>9. a[First(s)] = b[First(s)]
    BY <1>4, <1>5, FirstIn
<1> QED BY <1>4, <1>6, <1>7, <1>8, <1>9

\* Rows that count for nothing can be left out.
LEMMA SumZeros ==
    ASSUME NEW S, IsFiniteSet(S), NEW T \in SUBSET S,
           NEW amount, Amounts(amount, S), \A x \in S \ T : amount[x] = 0
    PROVE  SumOver(amount, S) = SumOver(amount, T)
<1> DEFINE W == {s \in SUBSET S : T \subseteq s
                                  /\ SumOver(amount, s) # SumOver(amount, T)}
<1>1. SUFFICES ASSUME W # {} PROVE FALSE
    OBVIOUS
<1>2. \A s \in W : IsFiniteSet(s) /\ s \in SUBSET S
    BY FS_Subset
<1>3. PICK s \in W : \A t \in W : Cardinality(s) <= Cardinality(t)
  <2> HIDE DEF W
  <2> QED BY <1>1, <1>2, SmallestSet
<1>4. /\ s \in SUBSET S /\ IsFiniteSet(s) /\ T \subseteq s
      /\ SumOver(amount, s) # SumOver(amount, T)
    BY <1>2, <1>3
<1>5. Amounts(amount, s)
    BY <1>4 DEF Amounts
<1>6. PICK x \in s : x \notin T
    BY <1>4
<1> DEFINE t == s \ {x}
<1>7. /\ Cardinality(t) = Cardinality(s) - 1 /\ Cardinality(s) \in Nat
      /\ t \in SUBSET S /\ T \subseteq t /\ IsFiniteSet(t)
    BY <1>4, <1>6, FS_RemoveElement, FS_CardinalityType
<1>8. t \notin W
  <2> HIDE DEF W
  <2> QED BY <1>3, <1>7
<1>9. SumOver(amount, t) = SumOver(amount, T)
    BY <1>7, <1>8
<1>10. SumOver(amount, s) = amount[x] + SumOver(amount, t)
    BY <1>4, <1>5, <1>6, SumRemove
<1>11. amount[x] = 0 /\ SumOver(amount, t) \in Nat
  <2>1. Amounts(amount, t)
    BY <1>7, <1>5 DEF Amounts
  <2> QED BY <1>4, <1>6, <1>7, <2>1, SumType
<1> QED BY <1>4, <1>9, <1>10, <1>11

\* f pairs the elements of S with those of T.
Pairs(f, S, T) ==
    /\ \A x \in S : f[x] \in T
    /\ \A x, y \in S : f[x] = f[y] => x = y
    /\ \A z \in T : \E x \in S : f[x] = z

LEMMA PairedSize ==
    ASSUME NEW S, IsFiniteSet(S), NEW T, NEW f, Pairs(f, S, T)
    PROVE  IsFiniteSet(T) /\ Cardinality(T) = Cardinality(S)
<1> DEFINE g == [x \in S |-> f[x]]
<1>1. g \in Bijection(S, T)
    BY DEF Pairs, Bijection, Injection, Surjection, IsInjective
<1>2. ExistsBijection(S, T)
    BY <1>1 DEF ExistsBijection
<1> QED BY <1>2, FS_Bijection

\* What is paired with equal amounts has the same sum.
LEMMA SumPaired ==
    ASSUME NEW S, IsFiniteSet(S), NEW T, NEW f, Pairs(f, S, T),
           NEW a, Amounts(a, S), NEW b, \A x \in S : b[f[x]] = a[x]
    PROVE  SumOver(b, T) = SumOver(a, S)
<1> DEFINE Image(s) == {f[x] : x \in s}
           W == {s \in SUBSET S : SumOver(b, Image(s)) # SumOver(a, s)}
<1>1. SUFFICES W = {}
  <2>1. Image(S) = T
      BY DEF Pairs
  <2>2. SumOver(b, Image(S)) = SumOver(a, S)
      OBVIOUS
  <2> QED BY <2>1, <2>2
<1>2. SUFFICES ASSUME W # {} PROVE FALSE
    OBVIOUS
<1>3. \A s \in W : IsFiniteSet(s) /\ s \in SUBSET S
    BY FS_Subset
<1>4. PICK s \in W : \A t \in W : Cardinality(s) <= Cardinality(t)
  <2> HIDE DEF W
  <2> QED BY <1>2, <1>3, SmallestSet
<1>5. s \in SUBSET S /\ IsFiniteSet(s) /\ SumOver(b, Image(s)) # SumOver(a, s)
    BY <1>3, <1>4
<1>6. s # {}
  <2>1. Image({}) = {}
      OBVIOUS
  <2> QED BY <1>5, <2>1, SumEmpty
<1>7. PICK x \in s : x = First(s)
    BY <1>6, FirstIn
<1>8. PICK t : t = s \ {x}
    OBVIOUS
<1>9. /\ t \in SUBSET S /\ IsFiniteSet(t) /\ x \notin t /\ s = t \cup {x}
      /\ x \in S
    BY <1>5, <1>7, <1>8, FS_RemoveElement
<1>10. Cardinality(t) < Cardinality(s)
  <2>1. Cardinality(s \ {x}) = Cardinality(s) - 1 /\ Cardinality(s) \in Nat
      BY <1>5, <1>7, FS_RemoveElement, FS_CardinalityType
  <2> QED BY <1>8, <2>1
<1>11. SumOver(b, Image(t)) = SumOver(a, t)
  <2>1. t \notin W
    <3> HIDE DEF W
    <3>1. Cardinality(t) \in Nat /\ Cardinality(s) \in Nat
        BY <1>5, <1>9, FS_CardinalityType
    <3> QED BY <1>4, <1>10, <3>1
  <2> QED BY <1>9, <2>1
<1>12. PICK I : I = Image(t)
    OBVIOUS
<1>13. PICK y : y = f[x]
    OBVIOUS
<1>14. IsFiniteSet(I)
  <2>1. Pairs(f, t, I)
      BY <1>9, <1>12 DEF Pairs
  <2> QED BY <1>9, <2>1, PairedSize
<1>15. y \notin I /\ Image(s) = I \cup {y}
    BY <1>9, <1>12, <1>13 DEF Pairs
<1>16. Amounts(b, I \cup {y})
    BY <1>9, <1>12, <1>13 DEF Amounts
<1>17. SumOver(b, Image(s)) = SumOver(b, I) + b[y]
  <2>1. SumOver(b, I \cup {y}) = SumOver(b, I) + b[y]
      BY <1>14, <1>15, <1>16, SumAdd
  <2> QED BY <1>15, <2>1
<1>18. SumOver(a, s) = SumOver(a, t) + a[x]
  <2>1. Amounts(a, t \cup {x})
      BY <1>9 DEF Amounts
  <2> QED BY <1>9, <2>1, SumAdd
<1>19. b[y] = a[x]
    BY <1>9, <1>13
<1> QED BY <1>5, <1>11, <1>12, <1>17, <1>18, <1>19
=============================================================================
