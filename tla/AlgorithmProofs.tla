---------------------------- MODULE AlgorithmProofs ----------------------------
(***************************************************************************)
(* Proofs about the two algorithms, the pairing and the results. Of the    *)
(* pairing: sums over finite sets, matchings and what they cost, and with  *)
(* them the minimum-cost flow: the flow of a layer is always the cheapest  *)
(* of its size, and the pairs of a finished room repeat no more than they  *)
(* must. Of the results: fractions in lowest terms, their totals and       *)
(* averages, and lists in order, and with them that the results and the    *)
(* correction editor agree, and that every rank is the one that is due.    *)
(***************************************************************************)
EXTENDS Pairing, Scoring, Integers, FiniteSetTheorems, FunctionTheorems, WellFoundedInduction, TLAPS

(***************************************************************************)
(* Sums over finite sets.                                                  *)
(***************************************************************************)

(* Induction over the numbers, as a fact about a set of numbers.            *)
LEMMA SetOfNaturals ==
    ASSUME NEW T, 0 \in T, \A n \in Nat : n \in T => n + 1 \in T
    PROVE  Nat \subseteq T
<1> SUFFICES ASSUME Nat \ T # {} PROVE FALSE
  OBVIOUS
<1>1. PICK least \in Nat \ T : \A y \in Nat \ T : ~(<<y, least>> \in OpToRel(<, Nat))
  BY NatLessThanWellFounded, WFMin
<1>2. \A y \in Nat \ T : ~(y < least)
  <2> TAKE y \in Nat \ T
  <2>1. QED
    BY <1>1 DEF OpToRel
<1> HIDE <1>1
<1>3. least \in Nat /\ least # 0 /\ least - 1 \in Nat /\ least - 1 < least
  OBVIOUS
<1>4. least - 1 \in T
  BY <1>2, <1>3
<1>5. (least - 1) + 1 \in T
  BY <1>3, <1>4
<1>6. QED
  BY <1>3, <1>5

(* Induction over the parts of a finite set, as a fact about a set of its   *)
(* parts.                                                                   *)
LEMMA SetOfFiniteSets ==
    ASSUME NEW S, IsFiniteSet(S), NEW T, {} \in T,
           \A A \in SUBSET S : \A x \in S \ A : A \in T => A \cup {x} \in T
    PROVE  S \in T
<1> DEFINE Grown == {n \in Nat : \A A \in SUBSET S : Cardinality(A) = n => A \in T}
<1>1. \A A \in SUBSET S : IsFiniteSet(A) /\ Cardinality(A) \in Nat
  BY FS_Subset, FS_CardinalityType
<1>2. 0 \in Grown
  BY <1>1, FS_EmptySet
<1>3. \A n \in Nat : n \in Grown => n + 1 \in Grown
  <2> SUFFICES ASSUME NEW n \in Nat, n \in Grown, NEW A \in SUBSET S, Cardinality(A) = n + 1
               PROVE  A \in T
    OBVIOUS
  <2>1. PICK x \in A : TRUE
    <3>1. IsFiniteSet(A) /\ Cardinality(A) # 0
      BY <1>1
    <3>2. QED
      BY <3>1, FS_EmptySet
  <2> DEFINE B == A \ {x}
  <2>2. Cardinality(B) = n
    BY <1>1, FS_RemoveElement
  <2>3. B \in SUBSET S /\ x \in S \ B /\ B \cup {x} = A
    BY <2>1
  <2>4. B \in T
    BY <2>2, <2>3
  <2> HIDE DEF B
  <2>5. QED
    BY <2>3, <2>4
<1> HIDE DEF Grown
<1>4. Nat \subseteq Grown
  BY <1>2, <1>3, SetOfNaturals
<1>5. Cardinality(S) \in Grown
  BY <1>1, <1>4
<1>6. QED
  BY <1>5 DEF Grown

(* One element less.                                                        *)
LEMMA OneFewer ==
    ASSUME NEW A, IsFiniteSet(A), NEW n \in Nat, Cardinality(A) = n + 1, NEW x \in A
    PROVE  IsFiniteSet(A \ {x}) /\ Cardinality(A \ {x}) = n
<1>1. Cardinality(A \ {x}) = Cardinality(A) - 1 /\ IsFiniteSet(A \ {x})
  BY FS_RemoveElement
<1>2. QED
  BY <1>1

(* The fold takes some element first, then adds up the others.              *)
Taken(s) == CHOOSE x \in s : TRUE
AddedUp(f, g, s) == IF s = {} THEN 0 ELSE f[Taken(s)] + g[s \ {Taken(s)}]
IsSum(f, g, X) == g = [s \in X |-> AddedUp(f, g, s)]
Parts(S, n) == {s \in SUBSET S : Cardinality(s) <= n}

(* The sums of all parts up to a size exist as a function.                  *)
LEMMA PartialSums ==
    ASSUME NEW f, NEW S, IsFiniteSet(S), NEW n \in Nat
    PROVE  \E g : IsSum(f, g, Parts(S, n))
<1> DEFINE T == {m \in Nat : \E g : IsSum(f, g, Parts(S, m))}
<1>1. \A A \in SUBSET S : IsFiniteSet(A) /\ Cardinality(A) \in Nat
  BY FS_Subset, FS_CardinalityType
<1>2. 0 \in T
  <2> DEFINE g == [s \in Parts(S, 0) |-> 0]
  <2>1. \A s \in Parts(S, 0) : s = {}
    BY <1>1, FS_EmptySet DEF Parts
  <2>2. \A s \in Parts(S, 0) : AddedUp(f, g, s) = 0
    BY <2>1 DEF AddedUp
  <2>3. IsSum(f, g, Parts(S, 0))
    BY <2>2 DEF IsSum
  <2>4. QED
    BY <2>3
<1>3. \A m \in Nat : m \in T => m + 1 \in T
  <2> SUFFICES ASSUME NEW m \in Nat, m \in T PROVE m + 1 \in T
    OBVIOUS
  <2>0. PICK g : IsSum(f, g, Parts(S, m))
    OBVIOUS
  <2>1. g = [s \in Parts(S, m) |-> AddedUp(f, g, s)]
    BY <2>0 DEF IsSum
  <2> DEFINE h == [s \in Parts(S, m + 1) |-> AddedUp(f, g, s)]
  <2>2. ASSUME NEW s \in Parts(S, m + 1), s # {}
        PROVE  s \ {Taken(s)} \in Parts(S, m)
    <3>1. Taken(s) \in s
      BY <2>2 DEF Taken
    <3>2. s \in SUBSET S /\ Cardinality(s) \in Nat /\ Cardinality(s) <= m + 1 /\ IsFiniteSet(s)
      BY <1>1, <2>2 DEF Parts
    <3>3. Cardinality(s \ {Taken(s)}) = Cardinality(s) - 1
      BY <3>1, <3>2, FS_RemoveElement
    <3>4. QED
      BY <3>2, <3>3 DEF Parts
  <2>3. Parts(S, m) \subseteq Parts(S, m + 1)
    BY <1>1 DEF Parts
  <2>4. \A s \in Parts(S, m) : g[s] = h[s]
    BY <2>1, <2>3
  <2>5. \A s \in Parts(S, m + 1) : AddedUp(f, g, s) = AddedUp(f, h, s)
    BY <2>2, <2>4 DEF AddedUp
  <2>6. IsSum(f, h, Parts(S, m + 1))
    BY <2>5 DEF IsSum
  <2> HIDE DEF h
  <2>7. QED
    BY <2>6
<1> HIDE DEF T
<1>4. n \in T
  BY <1>2, <1>3, SetOfNaturals
<1>5. QED
  BY <1>4 DEF T

Sums(f, S) == CHOOSE g : IsSum(f, g, SUBSET S)

(* The function that the recursion of the folds describes.                  *)
LEMMA SumsExist ==
    ASSUME NEW f, NEW S, IsFiniteSet(S)
    PROVE  IsSum(f, Sums(f, S), SUBSET S)
<1>1. Cardinality(S) \in Nat
  BY FS_CardinalityType
<1>2. Parts(S, Cardinality(S)) = SUBSET S
  BY FS_Subset DEF Parts
<1>3. \E g : IsSum(f, g, Parts(S, Cardinality(S)))
  BY <1>1, PartialSums
<1>4. QED
  BY <1>2, <1>3 DEF Sums

(* It follows the recursion.                                                *)
LEMMA SumsOfParts ==
    ASSUME NEW f, NEW S, IsFiniteSet(S), NEW s \in SUBSET S
    PROVE  Sums(f, S)[s] = AddedUp(f, Sums(f, S), s)
<1> DEFINE g == Sums(f, S)
<1>1. IsSum(f, g, SUBSET S)
  BY SumsExist
<1> HIDE DEF g
<1>2. g[s] = AddedUp(f, g, s)
  BY <1>1 DEF IsSum
<1>3. QED
  BY <1>2 DEF g

(* The sum over a set is what that function gives for the whole of it.      *)
LEMMA SumIsLast ==
    ASSUME NEW f, NEW S
    PROVE  SumFunctionOnSet(f, S) = Sums(f, S)[S]
  BY DEF SumFunctionOnSet, FoldFunctionOnSet, MapThenFoldSet, Sums, IsSum, AddedUp, Taken

(* The sum over a part is the same in whichever larger set it is computed.  *)
LEMMA SumsAgree ==
    ASSUME NEW f, NEW g, NEW S, IsFiniteSet(S), NEW A \in SUBSET S,
           \A x \in A : f[x] = g[x]
    PROVE  Sums(f, S)[A] = SumFunctionOnSet(g, A)
<1> DEFINE s == Sums(f, S) t == Sums(g, A)
           T == {B \in SUBSET A : s[B] = t[B]}
           E == {n \in Nat : \A B \in SUBSET A : Cardinality(B) <= n => B \in T}
<1>1. IsFiniteSet(A) /\ \A B \in SUBSET A : IsFiniteSet(B) /\ Cardinality(B) \in Nat
  BY FS_Subset, FS_CardinalityType
<1>2. \A B \in SUBSET S : s[B] = AddedUp(f, s, B)
  BY SumsOfParts
<1>3. \A B \in SUBSET A : t[B] = AddedUp(g, t, B)
  BY <1>1, SumsOfParts
<1> HIDE DEF s, t
<1>4. 0 \in E
  <2> SUFFICES ASSUME NEW B \in SUBSET A, Cardinality(B) <= 0 PROVE s[B] = t[B]
    OBVIOUS
  <2>1. Cardinality(B) = 0
    BY <1>1
  <2>2. B = {}
    BY <1>1, <2>1, FS_EmptySet
  <2>3. QED
    BY <1>2, <1>3, <2>2 DEF AddedUp
<1>5. \A n \in Nat : n \in E => n + 1 \in E
  <2> SUFFICES ASSUME NEW n \in Nat, n \in E, NEW B \in SUBSET A, Cardinality(B) <= n + 1
               PROVE  s[B] = t[B]
    OBVIOUS
  <2>0. CASE B = {}
    BY <1>2, <1>3, <2>0 DEF AddedUp
  <2>1. CASE B # {}
    <3>1. Taken(B) \in B
      BY <2>1 DEF Taken
    <3> DEFINE C == B \ {Taken(B)}
    <3>2. Cardinality(C) <= n /\ C \in SUBSET A
      <4>1. Cardinality(C) = Cardinality(B) - 1
        BY <1>1, <3>1, FS_RemoveElement
      <4>2. Cardinality(B) \in Nat
        BY <1>1
      <4>3. QED
        BY <4>1, <4>2
    <3>3. s[C] = t[C]
      BY <3>2
    <3>4. s[B] = f[Taken(B)] + s[C] /\ t[B] = g[Taken(B)] + t[C]
      BY <1>2, <1>3, <2>1 DEF AddedUp
    <3>5. QED
      BY <3>1, <3>3, <3>4
  <2>2. QED
    BY <2>0, <2>1
<1> HIDE DEF E
<1>6. Cardinality(A) \in E
  BY <1>1, <1>4, <1>5, SetOfNaturals
<1>7. A \in T
  BY <1>1, <1>6 DEF E
<1>8. QED
  BY <1>7, SumIsLast DEF s, t

(* The sum's defining equation, for the element it happens to choose.        *)
LEMMA SumOfParts ==
    ASSUME NEW f, NEW S, IsFiniteSet(S), S # {}
    PROVE  \E x \in S : SumFunctionOnSet(f, S) = f[x] + SumFunctionOnSet(f, S \ {x})
<1> DEFINE x == Taken(S)
<1>1. x \in S
  BY DEF Taken
<1>2. Sums(f, S)[S] = f[x] + Sums(f, S)[S \ {x}]
  BY SumsOfParts DEF AddedUp
<1>3. S \ {x} \in SUBSET S
  OBVIOUS
<1> HIDE DEF x
<1>4. Sums(f, S)[S \ {x}] = SumFunctionOnSet(f, S \ {x})
  BY <1>3, SumsAgree
<1>5. QED
  BY <1>1, <1>2, <1>4, SumIsLast

(* Nothing adds up to nothing.                                              *)
LEMMA SumOfEmpty == ASSUME NEW f PROVE SumFunctionOnSet(f, {}) = 0
<1>1. Sums(f, {})[{}] = 0
  BY SumsOfParts, FS_EmptySet DEF AddedUp
<1>2. QED
  BY <1>1, SumIsLast

(* The sum depends on the values over the set only.                         *)
LEMMA SumOfEqual ==
    ASSUME NEW f, NEW g, NEW S, IsFiniteSet(S), \A x \in S : f[x] = g[x]
    PROVE  SumFunctionOnSet(f, S) = SumFunctionOnSet(g, S)
<1>1. Sums(f, S)[S] = SumFunctionOnSet(g, S)
  BY SumsAgree
<1>2. QED
  BY <1>1, SumIsLast

AllNumbers(f, S) == \A x \in S : f[x] \in Int

(* A sum of integers is one.                                                *)
LEMMA SumIsInteger ==
    ASSUME NEW f, NEW S, IsFiniteSet(S), AllNumbers(f, S)
    PROVE  SumFunctionOnSet(f, S) \in Int
<1> DEFINE T == {n \in Nat : \A A \in SUBSET S : Cardinality(A) = n => SumFunctionOnSet(f, A) \in Int}
<1>1. \A A \in SUBSET S : IsFiniteSet(A) /\ Cardinality(A) \in Nat
  BY FS_Subset, FS_CardinalityType
<1>2. 0 \in T
  BY <1>1, FS_EmptySet, SumOfEmpty
<1>3. \A n \in Nat : n \in T => n + 1 \in T
  <2> SUFFICES ASSUME NEW n \in Nat, n \in T, NEW A \in SUBSET S, Cardinality(A) = n + 1
               PROVE  SumFunctionOnSet(f, A) \in Int
    OBVIOUS
  <2>1. IsFiniteSet(A) /\ A # {}
    BY <1>1, FS_EmptySet
  <2>2. PICK x \in A : SumFunctionOnSet(f, A) = f[x] + SumFunctionOnSet(f, A \ {x})
    BY <2>1, SumOfParts
  <2>3. Cardinality(A \ {x}) = n /\ A \ {x} \in SUBSET S
    BY <2>1, OneFewer
  <2>4. SumFunctionOnSet(f, A \ {x}) \in Int
    BY <2>3
  <2>5. QED
    BY <2>2, <2>4 DEF AllNumbers
<1> HIDE DEF T
<1>4. Cardinality(S) \in T /\ S \in SUBSET S
  BY <1>1, <1>2, <1>3, SetOfNaturals
<1>5. QED
  BY <1>4 DEF T

(* Any element of the set may be taken out first.                            *)
LEMMA SumTakesOut ==
    ASSUME NEW f, NEW S, IsFiniteSet(S), AllNumbers(f, S), NEW y \in S
    PROVE  SumFunctionOnSet(f, S) = f[y] + SumFunctionOnSet(f, S \ {y})
<1> DEFINE Splits(A) == \A z \in A : SumFunctionOnSet(f, A) = f[z] + SumFunctionOnSet(f, A \ {z})
           T == {n \in Nat : \A A \in SUBSET S : Cardinality(A) = n => Splits(A)}
<1>1. \A A \in SUBSET S : IsFiniteSet(A) /\ Cardinality(A) \in Nat
  BY FS_Subset, FS_CardinalityType
<1>2. 0 \in T
  <2> SUFFICES ASSUME NEW A \in SUBSET S, Cardinality(A) = 0 PROVE Splits(A)
    OBVIOUS
  <2>1. A = {}
    BY <1>1, FS_EmptySet
  <2>2. QED
    BY <2>1
<1>3. \A n \in Nat : n \in T => n + 1 \in T
  <2> SUFFICES ASSUME NEW n \in Nat, n \in T, NEW A \in SUBSET S, Cardinality(A) = n + 1,
                      NEW z \in A
               PROVE  SumFunctionOnSet(f, A) = f[z] + SumFunctionOnSet(f, A \ {z})
    OBVIOUS
  <2>1. IsFiniteSet(A) /\ A # {}
    BY <1>1
  <2>2. PICK x \in A : SumFunctionOnSet(f, A) = f[x] + SumFunctionOnSet(f, A \ {x})
    BY <2>1, SumOfParts
  <2>3. ASSUME x # z
        PROVE  SumFunctionOnSet(f, A) = f[z] + SumFunctionOnSet(f, A \ {z})
    <3> DEFINE Ax == A \ {x} Az == A \ {z} C == A \ {x, z}
    <3>1. Cardinality(Ax) = n /\ Cardinality(Az) = n
      BY <2>1, OneFewer
    <3>2. Ax \in SUBSET S /\ Az \in SUBSET S /\ C \in SUBSET S
      OBVIOUS
    <3>3. Splits(Ax) /\ Splits(Az)
      BY <3>1, <3>2
    <3>4. z \in Ax /\ x \in Az /\ Ax \ {z} = C /\ Az \ {x} = C
      BY <2>3
    <3>5. /\ SumFunctionOnSet(f, Ax) = f[z] + SumFunctionOnSet(f, C)
          /\ SumFunctionOnSet(f, Az) = f[x] + SumFunctionOnSet(f, C)
      BY <3>3, <3>4
    <3>6. SumFunctionOnSet(f, C) \in Int
      BY <1>1, <3>2, SumIsInteger DEF AllNumbers
    <3>7. f[x] \in Int /\ f[z] \in Int
      BY DEF AllNumbers
    <3>8. SumFunctionOnSet(f, A) = f[x] + SumFunctionOnSet(f, Ax)
      BY <2>2
    <3> HIDE DEF Ax, C
    <3>9. f[x] + (f[z] + SumFunctionOnSet(f, C)) = f[z] + (f[x] + SumFunctionOnSet(f, C))
      BY <3>6, <3>7
    <3>10. QED
      BY <3>5, <3>8, <3>9
  <2>4. QED
    BY <2>2, <2>3
<1> HIDE DEF T
<1>4. Cardinality(S) \in T /\ S \in SUBSET S
  BY <1>1, <1>2, <1>3, SetOfNaturals
<1>5. QED
  BY <1>4 DEF T

(* One more summand.                                                        *)
LEMMA SumWith ==
    ASSUME NEW f, NEW S, IsFiniteSet(S), NEW y, y \notin S, AllNumbers(f, S \cup {y})
    PROVE  SumFunctionOnSet(f, S \cup {y}) = f[y] + SumFunctionOnSet(f, S)
<1> DEFINE U == S \cup {y}
<1>1. IsFiniteSet(U) /\ y \in U /\ U \ {y} = S
  BY FS_AddElement
<1> HIDE DEF U
<1>2. SumFunctionOnSet(f, U) = f[y] + SumFunctionOnSet(f, U \ {y})
  BY <1>1, SumTakesOut DEF U
<1>3. QED
  BY <1>1, <1>2 DEF U

(* A sum is that over a part and that over the rest.                        *)
LEMMA SumOfUnion ==
    ASSUME NEW f, NEW S, IsFiniteSet(S), AllNumbers(f, S), NEW A \in SUBSET S
    PROVE  SumFunctionOnSet(f, S) = SumFunctionOnSet(f, A) + SumFunctionOnSet(f, S \ A)
<1> DEFINE B == S \ A
           T == {C \in SUBSET A : SumFunctionOnSet(f, C \cup B) = SumFunctionOnSet(f, C) + SumFunctionOnSet(f, B)}
<1>1. \A C \in SUBSET S : IsFiniteSet(C) /\ AllNumbers(f, C) /\ SumFunctionOnSet(f, C) \in Int
  <2> TAKE C \in SUBSET S
  <2>1. IsFiniteSet(C) /\ AllNumbers(f, C)
    BY FS_Subset DEF AllNumbers
  <2>2. QED
    BY <2>1, SumIsInteger
<1>2. {} \in T
  <2>1. {} \cup B = B /\ SumFunctionOnSet(f, B) \in Int
    BY <1>1
  <2>2. QED
    BY <2>1, SumOfEmpty
<1>3. \A C \in SUBSET A : \A x \in A \ C : C \in T => C \cup {x} \in T
  <2> SUFFICES ASSUME NEW C \in SUBSET A, NEW x \in A \ C, C \in T PROVE C \cup {x} \in T
    OBVIOUS
  <2> DEFINE Cx == C \cup {x} CB == C \cup B CxB == CB \cup {x}
  <2>1. /\ Cx \in SUBSET S /\ CB \in SUBSET S /\ CxB \in SUBSET S /\ C \in SUBSET S
        /\ x \notin C /\ x \notin CB /\ Cx \cup B = CxB /\ Cx \in SUBSET A
    OBVIOUS
  <2>2. SumFunctionOnSet(f, Cx) = f[x] + SumFunctionOnSet(f, C)
    BY <1>1, <2>1, SumWith
  <2>3. SumFunctionOnSet(f, CxB) = f[x] + SumFunctionOnSet(f, CB)
    BY <1>1, <2>1, SumWith
  <2>4. SumFunctionOnSet(f, CB) = SumFunctionOnSet(f, C) + SumFunctionOnSet(f, B)
    OBVIOUS
  <2>5. /\ SumFunctionOnSet(f, C) \in Int /\ SumFunctionOnSet(f, B) \in Int /\ f[x] \in Int
    BY <1>1, <2>1 DEF AllNumbers
  <2>6. SumFunctionOnSet(f, CxB) = SumFunctionOnSet(f, Cx) + SumFunctionOnSet(f, B)
    <3> HIDE DEF Cx, CB, CxB, B
    <3>1. QED
      BY <2>2, <2>3, <2>4, <2>5
  <2>7. QED
    BY <2>1, <2>6
<1>4. IsFiniteSet(A) /\ A \cup B = S
  BY <1>1
<1> HIDE DEF T
<1>5. A \in T
  BY <1>2, <1>3, <1>4, SetOfFiniteSets
<1>6. QED
  BY <1>4, <1>5 DEF T

-----------------------------------------------------------------------------
(***************************************************************************)
(* Matchings, and what leads from one to another.                          *)
(***************************************************************************)

(* A matching seats some of D in places of W, nobody in the same place.      *)
IsMatching(m, D, W) == DOMAIN m \subseteq D /\ m \in Injection(DOMAIN m, W)
(* Who sits elsewhere in n, and n with the places of m over a set.           *)
SeatedElsewhere(m, n) == {r \in DOMAIN n : r \in DOMAIN m => m[r] # n[r]}
Swapped(m, n, A) ==
    [r \in (DOMAIN n \ A) \cup (A \cap DOMAIN m) |-> IF r \in A THEN m[r] ELSE n[r]]

(* The recruits of a path: the first takes a free place of n, each next one   *)
(* the place its predecessor had, and only the last had none.                 *)
IsRoute(m, n, W, slot, p, len) ==
    /\ slot \in W \ Range(m)
    /\ len \in Nat \ {0}
    /\ p \in Injection(1..len, SeatedElsewhere(m, n))
    /\ n[p[1]] = slot
    /\ \A i \in 1..len : p[i] \in DOMAIN m <=> i < len
    /\ \A i \in 1..len - 1 : n[p[i + 1]] = m[p[i]]
    /\ Swapped(m, n, Range(p)) \in Injection(DOMAIN Swapped(m, n, Range(p)), W)

(* A matching takes as many places as it seats recruits.                    *)
LEMMA MatchingFinite ==
    ASSUME NEW D, IsFiniteSet(D), NEW W, NEW m, IsMatching(m, D, W)
    PROVE  /\ IsFiniteSet(DOMAIN m) /\ Cardinality(DOMAIN m) \in Nat
           /\ Range(m) \subseteq W /\ IsFiniteSet(Range(m)) /\ Cardinality(Range(m)) = Cardinality(DOMAIN m)
<1>1. IsFiniteSet(DOMAIN m) /\ Cardinality(DOMAIN m) \in Nat
  BY FS_Subset, FS_CardinalityType DEF IsMatching
<1>2. m \in Injection(DOMAIN m, Range(m)) /\ m \in Surjection(DOMAIN m, Range(m))
  BY DEF IsMatching, Injection, Surjection, Range, IsInjective
<1>3. QED
  BY <1>1, <1>2, FS_Surjection DEF Range, IsMatching, Injection

(* A larger matching takes a place the smaller one leaves free.             *)
LEMMA PlaceToGain ==
    ASSUME NEW D, IsFiniteSet(D), NEW W, NEW m, IsMatching(m, D, W), NEW n, IsMatching(n, D, W),
           Cardinality(DOMAIN n) = Cardinality(DOMAIN m) + 1
    PROVE  \E r \in DOMAIN n : n[r] \notin Range(m)
<1>1. /\ IsFiniteSet(DOMAIN m) /\ Cardinality(DOMAIN m) \in Nat
      /\ IsFiniteSet(Range(m)) /\ Cardinality(Range(m)) = Cardinality(DOMAIN m)
  BY MatchingFinite
<1> SUFFICES ASSUME \A r \in DOMAIN n : n[r] \in Range(m) PROVE FALSE
  OBVIOUS
<1>2. n \in Injection(DOMAIN n, Range(m))
  BY DEF IsMatching, Injection
<1>3. Cardinality(DOMAIN n) <= Cardinality(Range(m))
  BY <1>1, <1>2, FS_Injection
<1>4. QED
  BY <1>1, <1>3

(* Moving one recruit to a free place keeps a matching.                     *)
LEMMA Reseated ==
    ASSUME NEW D, NEW W, NEW m, IsMatching(m, D, W), NEW r \in DOMAIN m, NEW s \in W \ Range(m)
    PROVE  /\ IsMatching([m EXCEPT ![r] = s], D, W) /\ DOMAIN [m EXCEPT ![r] = s] = DOMAIN m
           /\ Range([m EXCEPT ![r] = s]) = (Range(m) \ {m[r]}) \cup {s}
<1> DEFINE k == [m EXCEPT ![r] = s]
<1>1. DOMAIN k = DOMAIN m /\ k[r] = s /\ \A x \in DOMAIN m \ {r} : k[x] = m[x]
  BY DEF IsMatching, Injection
<1>2. k \in [DOMAIN m -> W]
  BY DEF IsMatching, Injection
<1>3. \A x \in DOMAIN m : m[x] # s /\ m[x] \in Range(m)
  BY DEF Range
<1>4. \A x, y \in DOMAIN m : m[x] = m[y] => x = y
  BY DEF IsMatching, Injection, IsInjective
<1> HIDE DEF k
<1>5. \A x, y \in DOMAIN m : k[x] = k[y] => x = y
  BY <1>1, <1>3, <1>4
<1>6. IsMatching(k, D, W)
  BY <1>1, <1>2, <1>5 DEF IsMatching, Injection, IsInjective
<1>7. Range(k) = (Range(m) \ {m[r]}) \cup {s}
  BY <1>1, <1>3, <1>4 DEF Range
<1>8. QED
  BY <1>1, <1>6, <1>7 DEF k

(* A recruit without a place that n gives a free one is a route.            *)
LEMMA RouteOfOne ==
    ASSUME NEW D, NEW W, NEW m, IsMatching(m, D, W), NEW n, IsMatching(n, D, W),
           NEW r \in DOMAIN n, n[r] \notin Range(m), r \notin DOMAIN m
    PROVE  IsRoute(m, n, W, n[r], [i \in 1..1 |-> r], 1)
<1> DEFINE p == [i \in 1..1 |-> r]
<1>1. r \in SeatedElsewhere(m, n)
  BY DEF SeatedElsewhere
<1>2. p[1] = r /\ 1..1 = {1} /\ Range(p) = {r}
  BY DEF Range
<1>3. p \in Injection(1..1, SeatedElsewhere(m, n))
  BY <1>1, <1>2 DEF Injection, IsInjective
<1>4. n \in [DOMAIN n -> W] /\ \A x, y \in DOMAIN n : n[x] = n[y] => x = y
  BY DEF IsMatching, Injection, IsInjective
<1>5. Swapped(m, n, {r}) = [x \in DOMAIN n \ {r} |-> n[x]]
  BY DEF Swapped
<1>6. Swapped(m, n, {r}) \in Injection(DOMAIN Swapped(m, n, {r}), W)
  BY <1>4, <1>5 DEF Injection, IsInjective
<1>7. \A i \in 1..1 : p[i] \in DOMAIN m <=> i < 1
  BY <1>2
<1>8. \A i \in 1..1 - 1 : n[p[i + 1]] = m[p[i]]
  OBVIOUS
<1>9. n[r] \in W \ Range(m)
  BY <1>4
<1> HIDE DEF p
<1>10. 1 \in Nat \ {0} /\ n[p[1]] = n[r]
  BY <1>2
<1>11. IsRoute(m, n, W, n[r], p, 1)
  BY <1>2, <1>3, <1>6, <1>7, <1>8, <1>9, <1>10 DEF IsRoute
<1>12. QED
  BY <1>11 DEF p

(* A route after one recruit has moved to its place in n is a route before, *)
(* or one with that recruit at its head.                                    *)
LEMMA RouteStays ==
    ASSUME NEW D, NEW W, NEW m, IsMatching(m, D, W), NEW n, IsMatching(n, D, W),
           NEW r \in DOMAIN n \cap DOMAIN m, n[r] \notin Range(m),
           NEW slot, NEW p, NEW len, IsRoute([m EXCEPT ![r] = n[r]], n, W, slot, p, len)
    PROVE  \E s, q, l : IsRoute(m, n, W, s, q, l)
<1> DEFINE k == [m EXCEPT ![r] = n[r]]
           A == Range(p)
           q == [i \in 1..len + 1 |-> IF i = 1 THEN r ELSE p[i - 1]]
<1>1. /\ m \in [DOMAIN m -> W] /\ \A x, y \in DOMAIN m : m[x] = m[y] => x = y
      /\ n \in [DOMAIN n -> W] /\ \A x, y \in DOMAIN n : n[x] = n[y] => x = y
  BY DEF IsMatching, Injection, IsInjective
<1>2. /\ DOMAIN k = DOMAIN m /\ k[r] = n[r] /\ \A x \in DOMAIN m \ {r} : k[x] = m[x]
      /\ Range(k) = (Range(m) \ {m[r]}) \cup {n[r]}
  BY <1>1, Reseated DEF Range
<1>3. /\ slot \in W \ Range(k) /\ len \in Nat \ {0}
      /\ p \in [1..len -> SeatedElsewhere(k, n)] /\ \A i, j \in 1..len : p[i] = p[j] => i = j
      /\ n[p[1]] = slot
      /\ \A i \in 1..len : p[i] \in DOMAIN k <=> i < len
      /\ \A i \in 1..len - 1 : n[p[i + 1]] = k[p[i]]
      /\ Swapped(k, n, A) \in Injection(DOMAIN Swapped(k, n, A), W)
  BY DEF IsRoute, Injection, IsInjective
<1> HIDE DEF k
<1>4. SeatedElsewhere(k, n) = SeatedElsewhere(m, n) \ {r} /\ r \in SeatedElsewhere(m, n)
  BY <1>2 DEF SeatedElsewhere, Range
<1>5. A \subseteq SeatedElsewhere(k, n) /\ r \notin A
  BY <1>3, <1>4 DEF Range
<1>6. SeatedElsewhere(m, n) \subseteq DOMAIN n /\ m[r] \in Range(m)
  BY DEF SeatedElsewhere, Range
<1>7. \A i \in 1..len - 1 : i \in 1..len /\ p[i] # r /\ p[i] \in DOMAIN m
  BY <1>2, <1>3, <1>4
<1>8. \A i \in 1..len - 1 : n[p[i + 1]] = m[p[i]]
  BY <1>2, <1>3, <1>7
<1>9. CASE slot # m[r]
  <2>1. slot \in W \ Range(m)
    BY <1>2, <1>3, <1>9
  <2>2. Swapped(m, n, A) = Swapped(k, n, A)
    BY <1>2, <1>5 DEF Swapped
  <2>3. p \in Injection(1..len, SeatedElsewhere(m, n))
    BY <1>3, <1>4 DEF Injection, IsInjective
  <2>4. IsRoute(m, n, W, slot, p, len)
    BY <1>2, <1>3, <1>8, <2>1, <2>2, <2>3 DEF IsRoute
  <2>5. QED
    BY <2>4
<1>10. CASE slot = m[r]
  <2>1. /\ len + 1 \in Nat \ {0} /\ 1 \in 1..len + 1 /\ q[1] = r
        /\ \A i \in 2..len + 1 : q[i] = p[i - 1] /\ i - 1 \in 1..len /\ p[i - 1] \in SeatedElsewhere(k, n)
        /\ \A i \in 1..len + 1 : i = 1 \/ i \in 2..len + 1
    BY <1>3
  <2>2. q \in [1..len + 1 -> SeatedElsewhere(m, n)]
    BY <1>4, <2>1
  <2>3. \A i, j \in 1..len + 1 : q[i] = q[j] => i = j
    <3> SUFFICES ASSUME NEW i \in 1..len + 1, NEW j \in 1..len + 1, q[i] = q[j] PROVE i = j
      OBVIOUS
    <3> HIDE DEF q
    <3>1. CASE i = 1 /\ j = 1
      BY <3>1
    <3>2. CASE i \in 2..len + 1 /\ j \in 2..len + 1
      <4>1. p[i - 1] = p[j - 1] /\ i - 1 \in 1..len /\ j - 1 \in 1..len
        BY <2>1, <3>2
      <4>2. i - 1 = j - 1
        BY <1>3, <4>1
      <4>3. QED
        BY <4>2
    <3>3. CASE i = 1 /\ j \in 2..len + 1
      BY <1>4, <2>1, <3>3
    <3>4. CASE j = 1 /\ i \in 2..len + 1
      BY <1>4, <2>1, <3>4
    <3>5. QED
      BY <2>1, <3>1, <3>2, <3>3, <3>4
  <2>4. Range(q) = A \cup {r}
    <3>1. \A x \in Range(q) : x \in A \cup {r}
      BY <1>3, <2>1 DEF Range
    <3>2. \A i \in 1..len : i + 1 \in 2..len + 1 /\ q[i + 1] = p[i]
      BY <1>3
    <3>3. \A i \in 1..len : i + 1 \in DOMAIN q
      BY <1>3
    <3> HIDE DEF q
    <3>4. \A x \in A : x \in Range(q)
      BY <1>3, <3>2, <3>3 DEF Range
    <3>5. r \in Range(q)
      BY <2>1, <2>2 DEF Range
    <3>6. QED
      BY <3>1, <3>4, <3>5
  <2> HIDE DEF q
  <2>5. \A i \in 1..len + 1 : q[i] \in DOMAIN m <=> i < len + 1
    <3> TAKE i \in 1..len + 1
    <3>1. CASE i = 1
      BY <1>3, <2>1, <3>1
    <3>2. CASE i \in 2..len + 1
      <4>1. i - 1 \in 1..len /\ q[i] = p[i - 1]
        BY <2>1, <3>2
      <4>2. p[i - 1] \in DOMAIN m <=> i - 1 < len
        BY <1>2, <1>3, <4>1
      <4>3. QED
        BY <1>3, <4>1, <4>2
    <3>3. QED
      BY <2>1, <3>1, <3>2
  <2>6. \A i \in 1..(len + 1) - 1 : n[q[i + 1]] = m[q[i]]
    <3> TAKE i \in 1..(len + 1) - 1
    <3>1. i \in 1..len /\ i + 1 \in 2..len + 1 /\ q[i + 1] = p[i]
      <4>1. i \in 1..len /\ i + 1 \in 2..len + 1 /\ (i + 1) - 1 = i
        BY <1>3
      <4>2. QED
        BY <2>1, <4>1
    <3>2. CASE i = 1
      BY <1>3, <1>10, <2>1, <3>1, <3>2
    <3>3. CASE i # 1
      <4>1. i \in 2..len + 1 /\ i - 1 \in 1..len - 1 /\ (i - 1) + 1 = i
        BY <1>3, <3>1, <3>3
      <4>2. n[p[(i - 1) + 1]] = m[p[i - 1]]
        BY <1>8, <4>1
      <4>3. QED
        BY <2>1, <3>1, <4>1, <4>2
    <3>4. QED
      BY <3>2, <3>3
  <2>7. n[r] \in W \ Range(m) /\ n[q[1]] = n[r]
    BY <1>1, <2>1
  <2>8. Swapped(m, n, A \cup {r}) \in Injection(DOMAIN Swapped(m, n, A \cup {r}), W)
    <3> DEFINE b == Swapped(m, n, A \cup {r}) c == Swapped(k, n, A)
    <3>1. A \subseteq DOMAIN n
      BY <1>5, <1>6, <1>4
    <3>2. DOMAIN b = DOMAIN c /\ r \in DOMAIN b
      BY <1>2, <1>5, <3>1 DEF Swapped
    <3>3. b[r] = m[r] /\ \A x \in DOMAIN b \ {r} : b[x] = c[x]
      BY <1>2, <1>5, <3>1 DEF Swapped
    <3>4. \A x \in DOMAIN b \ {r} : b[x] # m[r]
      <4> TAKE x \in DOMAIN b \ {r}
      <4>1. CASE x \in A
        <5>1. x \in DOMAIN m /\ b[x] = m[x]
          BY <4>1 DEF Swapped
        <5>2. QED
          BY <1>1, <5>1
      <4>2. CASE x \notin A
        <5>1. x \in DOMAIN n /\ b[x] = n[x]
          BY <4>2 DEF Swapped
        <5>2. p[1] \in A /\ n[p[1]] = m[r] /\ p[1] \in DOMAIN n
          BY <1>3, <1>10, <3>1 DEF Range
        <5>3. QED
          BY <1>1, <4>2, <5>1, <5>2
      <4>3. QED
        BY <4>1, <4>2
    <3>5. c \in [DOMAIN c -> W] /\ \A x, y \in DOMAIN c : c[x] = c[y] => x = y
      BY <1>3 DEF Injection, IsInjective
    <3>6. b \in [DOMAIN b -> W]
      <4>1. b = [x \in DOMAIN b |-> b[x]]
        BY DEF Swapped
      <4> HIDE DEF b, c
      <4>2. \A x \in DOMAIN b : b[x] \in W
        BY <1>1, <3>2, <3>3, <3>5
      <4>3. QED
        BY <4>1, <4>2
    <3> HIDE DEF b, c
    <3>7. \A x, y \in DOMAIN b : b[x] = b[y] => x = y
      BY <3>2, <3>3, <3>4, <3>5
    <3>8. b \in Injection(DOMAIN b, W)
      BY <3>6, <3>7 DEF Injection, IsInjective
    <3>9. QED
      BY <3>8 DEF b
  <2>9. q \in Injection(1..len + 1, SeatedElsewhere(m, n))
    BY <2>2, <2>3 DEF Injection, IsInjective
  <2>10. IsRoute(m, n, W, n[r], q, len + 1)
    BY <2>1, <2>4, <2>5, <2>6, <2>7, <2>8, <2>9 DEF IsRoute
  <2>11. QED
    BY <2>10
<1>11. QED
  BY <1>9, <1>10

(* A matching with one recruit more differs from a matching along a route.  *)
LEMMA RouteExists ==
    ASSUME NEW D, IsFiniteSet(D), NEW W, NEW m, IsMatching(m, D, W), NEW n, IsMatching(n, D, W),
           Cardinality(DOMAIN n) = Cardinality(DOMAIN m) + 1
    PROVE  \E slot, p, len : IsRoute(m, n, W, slot, p, len)
<1> DEFINE Smaller(k) == IsMatching(k, D, W) /\ Cardinality(DOMAIN n) = Cardinality(DOMAIN k) + 1
           T == {c \in Nat : \A k : Smaller(k) /\ Cardinality(SeatedElsewhere(k, n)) = c =>
                               \E slot, p, len : IsRoute(k, n, W, slot, p, len)}
<1>1. IsFiniteSet(DOMAIN n)
  BY MatchingFinite
<1>2. \A k : SeatedElsewhere(k, n) \subseteq DOMAIN n /\ IsFiniteSet(SeatedElsewhere(k, n)) /\ Cardinality(SeatedElsewhere(k, n)) \in Nat
  <2> TAKE k
  <2>1. SeatedElsewhere(k, n) \in SUBSET DOMAIN n
    BY DEF SeatedElsewhere
  <2>2. QED
    BY <1>1, <2>1, FS_Subset, FS_CardinalityType
<1>3. ASSUME NEW k, Smaller(k)
      PROVE  \E r \in DOMAIN n : n[r] \notin Range(k) /\ r \in SeatedElsewhere(k, n)
  <2>1. PICK r \in DOMAIN n : n[r] \notin Range(k)
    BY <1>3, PlaceToGain
  <2>2. r \in SeatedElsewhere(k, n)
    BY <2>1 DEF SeatedElsewhere, Range
  <2>3. QED
    BY <2>1, <2>2
<1>4. 0 \in T
  <2> SUFFICES ASSUME NEW k, Smaller(k), Cardinality(SeatedElsewhere(k, n)) = 0 PROVE FALSE
    OBVIOUS
  <2>1. SeatedElsewhere(k, n) = {}
    BY <1>2, FS_EmptySet
  <2>2. QED
    BY <1>3, <2>1
<1>5. \A c \in Nat : c \in T => c + 1 \in T
  <2> SUFFICES ASSUME NEW c \in Nat, c \in T, NEW k, Smaller(k), Cardinality(SeatedElsewhere(k, n)) = c + 1
               PROVE  \E slot, p, len : IsRoute(k, n, W, slot, p, len)
    OBVIOUS
  <2>1. PICK r \in DOMAIN n : n[r] \notin Range(k) /\ r \in SeatedElsewhere(k, n)
    BY <1>3
  <2>2. CASE r \notin DOMAIN k
    <3>1. IsRoute(k, n, W, n[r], [i \in 1..1 |-> r], 1)
      BY <2>1, <2>2, RouteOfOne
    <3>2. QED
      BY <3>1
  <2>3. CASE r \in DOMAIN k
    <3> DEFINE h == [k EXCEPT ![r] = n[r]]
    <3>1. n[r] \in W \ Range(k)
      BY <2>1 DEF IsMatching, Injection
    <3>2. IsMatching(h, D, W) /\ DOMAIN h = DOMAIN k
      BY <2>3, <3>1, Reseated
    <3>3. Smaller(h)
      BY <3>2
    <3>4. SeatedElsewhere(h, n) = SeatedElsewhere(k, n) \ {r}
      <4>1. h[r] = n[r] /\ \A x \in DOMAIN k \ {r} : h[x] = k[x]
        BY <2>3, <3>2
      <4> HIDE DEF h
      <4>2. QED
        BY <2>1, <2>3, <3>2, <4>1 DEF SeatedElsewhere
    <3>5. Cardinality(SeatedElsewhere(h, n)) = c
      <4>1. IsFiniteSet(SeatedElsewhere(k, n)) /\ Cardinality(SeatedElsewhere(k, n)) = c + 1
        BY <1>2
      <4>2. Cardinality(SeatedElsewhere(k, n) \ {r}) = c
        BY <2>1, <4>1, OneFewer
      <4>3. QED
        BY <3>4, <4>2
    <3>6. PICK slot, p, len : IsRoute(h, n, W, slot, p, len)
      BY <3>3, <3>5
    <3>7. QED
      BY <2>1, <2>3, <3>6, RouteStays
  <2>4. QED
    BY <2>2, <2>3
<1> HIDE DEF T
<1>6. Cardinality(SeatedElsewhere(m, n)) \in T
  BY <1>2, <1>4, <1>5, SetOfNaturals
<1>7. QED
  BY <1>6 DEF T

-----------------------------------------------------------------------------
(* Two matchings of the same recruits: what n gives a place for, m has to     *)
(* give up a place for.                                                       *)
Exchanged(m, n, A) == [r \in DOMAIN n |-> IF r \in A THEN m[r] ELSE n[r]]

IsExchange(m, n, W, s, t, A) ==
    /\ A \subseteq SeatedElsewhere(m, n) /\ A # {}
    /\ t \in W /\ t # s
    /\ \A r \in A : m[r] # s /\ n[r] # t
    /\ {n[r] : r \in A} \cup {t} = {m[r] : r \in A} \cup {s}
    /\ Exchanged(m, n, A) \in Injection(DOMAIN n, W)
    /\ Exchanged(n, m, A) \in Injection(DOMAIN n, W)

(* A recruit whose two places are both taken by nobody else.                *)
LEMMA ExchangeOfOne ==
    ASSUME NEW D, NEW W, NEW m \in Injection(D, W), NEW n \in Injection(D, W),
           NEW r \in D, n[r] \notin Range(m), m[r] \notin Range(n)
    PROVE  IsExchange(m, n, W, n[r], m[r], {r})
<1>1. /\ m \in [D -> W] /\ \A x, y \in D : m[x] = m[y] => x = y
      /\ n \in [D -> W] /\ \A x, y \in D : n[x] = n[y] => x = y
  BY DEF Injection, IsInjective
<1>2. \A x \in D : n[x] # m[r] /\ m[x] # n[r]
  BY <1>1 DEF Range
<1>3. {r} \subseteq SeatedElsewhere(m, n)
  BY <1>1, <1>2 DEF SeatedElsewhere
<1>4. \A f, g : f \in [D -> W] /\ g \in [D -> W] /\ (\A x, y \in D : g[x] = g[y] => x = y) /\ (\A x \in D : g[x] # f[r])
        => Exchanged(f, g, {r}) \in Injection(D, W)
  BY DEF Exchanged, Injection, IsInjective
<1>5. Exchanged(m, n, {r}) \in Injection(D, W) /\ Exchanged(n, m, {r}) \in Injection(D, W)
  BY <1>1, <1>2, <1>4
<1>6. DOMAIN n = D
  BY <1>1
<1>7. QED
  BY <1>1, <1>2, <1>3, <1>5, <1>6 DEF IsExchange

(* An exchange after a recruit has moved to its place in n, with that       *)
(* recruit, is one before.                                                  *)
LEMMA ExchangeGrows ==
    ASSUME NEW D, NEW W, NEW m \in Injection(D, W), NEW n \in Injection(D, W),
           NEW r \in D, n[r] \notin Range(m),
           NEW t, NEW A, IsExchange([m EXCEPT ![r] = n[r]], n, W, m[r], t, A)
    PROVE  IsExchange(m, n, W, n[r], t, A \cup {r})
<1> DEFINE k == [m EXCEPT ![r] = n[r]]  B == A \cup {r}
<1>1. /\ m \in [D -> W] /\ \A x, y \in D : m[x] = m[y] => x = y
      /\ n \in [D -> W] /\ \A x, y \in D : n[x] = n[y] => x = y
  BY DEF Injection, IsInjective
<1>2. k \in [D -> W] /\ k[r] = n[r] /\ \A x \in D \ {r} : k[x] = m[x]
  BY <1>1
<1>3. \A x \in D : m[x] # n[r]
  BY <1>1 DEF Range
<1>4. /\ A \subseteq SeatedElsewhere(k, n) /\ A # {}
      /\ t \in W /\ t # m[r]
      /\ \A x \in A : k[x] # m[r] /\ n[x] # t
      /\ {n[x] : x \in A} \cup {t} = {k[x] : x \in A} \cup {m[r]}
      /\ Exchanged(k, n, A) \in Injection(D, W) /\ Exchanged(n, k, A) \in Injection(D, W)
  BY <1>1 DEF IsExchange
<1> HIDE DEF k
<1>5. A \subseteq D /\ r \notin A /\ A \subseteq SeatedElsewhere(m, n) /\ r \in SeatedElsewhere(m, n)
  BY <1>1, <1>2, <1>3, <1>4 DEF SeatedElsewhere
<1>6. \A x \in A : k[x] = m[x]
  BY <1>2, <1>5
<1>7. t # n[r]
  BY <1>1, <1>3, <1>4, <1>5, <1>6
<1>8. \A x \in B : m[x] # n[r] /\ n[x] # t
  BY <1>3, <1>4, <1>5, <1>7
<1>9. {n[x] : x \in B} \cup {t} = {m[x] : x \in B} \cup {n[r]}
  BY <1>4, <1>6
<1>10. Exchanged(n, m, B) = Exchanged(n, k, A)
  BY <1>1, <1>2, <1>5 DEF Exchanged
<1>11. Exchanged(m, n, B) \in Injection(D, W)
  <2> DEFINE b == Exchanged(m, n, B)  c == Exchanged(k, n, A)
  <2>1. c \in [D -> W] /\ \A x, y \in D : c[x] = c[y] => x = y
    BY <1>4 DEF Injection, IsInjective
  <2>2. b \in [D -> W] /\ b[r] = m[r] /\ \A x \in D \ {r} : b[x] = c[x]
    BY <1>1, <1>2, <1>5 DEF Exchanged
  <2>3. \A x \in A : b[x] = m[x]
    BY <1>1, <1>5 DEF Exchanged
  <2>4. PICK z \in A : n[z] = m[r]
    BY <1>4
  <2>5. \A x \in D \ B : b[x] = n[x] /\ x # z
    BY <1>1, <2>4 DEF Exchanged
  <2> HIDE DEF b, c
  <2>6. \A x \in D \ {r} : b[x] # m[r]
    BY <1>1, <1>5, <2>3, <2>4, <2>5
  <2>7. \A x, y \in D : b[x] = b[y] => x = y
    BY <2>1, <2>2, <2>6
  <2>8. b \in Injection(D, W)
    BY <2>2, <2>7 DEF Injection, IsInjective
  <2>9. QED
    BY <2>8 DEF b
<1>12. B \subseteq SeatedElsewhere(m, n) /\ B # {} /\ DOMAIN n = D
  BY <1>1, <1>5
<1>13. QED
  BY <1>4, <1>7, <1>8, <1>9, <1>10, <1>11, <1>12 DEF IsExchange

(* A place of n that m leaves free is gained in some exchange.              *)
LEMMA ExchangeExists ==
    ASSUME NEW D, IsFiniteSet(D), NEW W, NEW m \in Injection(D, W), NEW n \in Injection(D, W),
           NEW r \in D, n[r] \notin Range(m)
    PROVE  \E t, A : t \in Range(m) /\ IsExchange(m, n, W, n[r], t, A)
<1> DEFINE T == {c \in Nat : \A k \in Injection(D, W), x \in D :
                    n[x] \notin Range(k) /\ Cardinality(SeatedElsewhere(k, n)) = c =>
                       \E t, A : t \in Range(k) /\ IsExchange(k, n, W, n[x], t, A)}
<1>1. n \in [D -> W] /\ (\A x, y \in D : n[x] = n[y] => x = y) /\ DOMAIN n = D
  BY DEF Injection, IsInjective
<1>2. \A k : IsFiniteSet(SeatedElsewhere(k, n)) /\ Cardinality(SeatedElsewhere(k, n)) \in Nat
  <2> TAKE k
  <2>1. SeatedElsewhere(k, n) \in SUBSET D
    BY <1>1 DEF SeatedElsewhere
  <2>2. QED
    BY <2>1, FS_Subset, FS_CardinalityType
<1>3. \A k \in Injection(D, W), x \in D : n[x] \notin Range(k) => x \in SeatedElsewhere(k, n)
  BY <1>1 DEF SeatedElsewhere, Range, Injection
<1>4. 0 \in T
  <2> SUFFICES ASSUME NEW k \in Injection(D, W), NEW x \in D, n[x] \notin Range(k), Cardinality(SeatedElsewhere(k, n)) = 0
               PROVE  FALSE
    OBVIOUS
  <2>1. SeatedElsewhere(k, n) = {}
    BY <1>2, FS_EmptySet
  <2>2. QED
    BY <1>3, <2>1
<1>5. \A c \in Nat : c \in T => c + 1 \in T
  <2> SUFFICES ASSUME NEW c \in Nat, c \in T, NEW k \in Injection(D, W), NEW x \in D,
                      n[x] \notin Range(k), Cardinality(SeatedElsewhere(k, n)) = c + 1
               PROVE  \E t, A : t \in Range(k) /\ IsExchange(k, n, W, n[x], t, A)
    OBVIOUS
  <2>1. k \in [D -> W] /\ (\A a, b \in D : k[a] = k[b] => a = b) /\ k[x] \in Range(k)
    BY DEF Injection, IsInjective, Range
  <2>2. CASE k[x] \notin Range(n)
    BY <2>1, <2>2, ExchangeOfOne
  <2>3. CASE k[x] \in Range(n)
    <3> DEFINE h == [k EXCEPT ![x] = n[x]]
    <3>1. PICK y \in D : n[y] = k[x]
      BY <1>1, <2>3 DEF Range
    <3>2. IsMatching(k, D, W) /\ n[x] \in W \ Range(k) /\ x \in DOMAIN k
      BY <1>1, <2>1 DEF IsMatching
    <3>3. IsMatching(h, D, W) /\ DOMAIN h = DOMAIN k /\ Range(h) = (Range(k) \ {k[x]}) \cup {n[x]}
      <4> DEFINE s == n[x]
      <4> HIDE DEF s, T
      <4>1. s \in W \ Range(k)
        BY <3>2 DEF s
      <4>2. Range([k EXCEPT ![x] = s]) = (Range(k) \ {k[x]}) \cup {s}
        BY <3>2, <4>1, Reseated
      <4>3. IsMatching([k EXCEPT ![x] = s], D, W)
        BY <3>2, <4>1, Reseated
      <4>4. QED
        BY <4>2, <4>3 DEF s
    <3>4. h \in Injection(D, W)
      BY <2>1, <3>3 DEF IsMatching
    <3>5. n[y] \notin Range(h)
      BY <2>1, <3>1, <3>3
    <3>6. SeatedElsewhere(h, n) = SeatedElsewhere(k, n) \ {x} /\ x \in SeatedElsewhere(k, n)
      <4>1. h[x] = n[x] /\ \A z \in DOMAIN k \ {x} : h[z] = k[z]
        BY <2>1
      <4> HIDE DEF h
      <4>2. QED
        BY <1>1, <1>3, <2>1, <3>3, <4>1 DEF SeatedElsewhere
    <3>7. Cardinality(SeatedElsewhere(h, n)) = c
      <4>1. IsFiniteSet(SeatedElsewhere(k, n)) /\ Cardinality(SeatedElsewhere(k, n)) = c + 1
        BY <1>2
      <4>2. Cardinality(SeatedElsewhere(k, n) \ {x}) = c
        BY <3>6, <4>1, OneFewer
      <4>3. QED
        BY <3>6, <4>2
    <3>8. PICK t, A : t \in Range(h) /\ IsExchange(h, n, W, n[y], t, A)
      BY <3>4, <3>5, <3>7
    <3>9. IsExchange(k, n, W, n[x], t, A \cup {x})
      BY <3>1, <3>8, ExchangeGrows
    <3>10. t # n[x]
      BY <3>9 DEF IsExchange
    <3>11. t \in Range(k)
      BY <3>3, <3>8, <3>10
    <3>12. QED
      BY <3>9, <3>11
  <2>4. QED
    BY <2>2, <2>3
<1> HIDE DEF T
<1>6. Cardinality(SeatedElsewhere(m, n)) \in T
  BY <1>2, <1>4, <1>5, SetOfNaturals
<1>7. QED
  BY <1>6 DEF T

-----------------------------------------------------------------------------
(***************************************************************************)
(* What a matching costs.                                                  *)
(***************************************************************************)

(* What matching m costs over a set of recruits.                             *)
WeightOf(w, m, A) == SumFunctionOnSet([r \in A |-> w[<<m[r], r>>]], A)
Weighs(w, W, D) == \A s \in W, r \in D : w[<<s, r>>] \in Int
Priced(w, m, A) == \A r \in A : w[<<m[r], r>>] \in Int

(* The costs of a matching over a set add up to an integer.                 *)
LEMMA WeightIsInteger ==
    ASSUME NEW w, NEW m, NEW A, IsFiniteSet(A), Priced(w, m, A)
    PROVE  WeightOf(w, m, A) \in Int
<1>1. AllNumbers([r \in A |-> w[<<m[r], r>>]], A)
  BY DEF AllNumbers, Priced
<1>2. QED
  BY <1>1, SumIsInteger DEF WeightOf

(* Nobody costs nothing.                                                    *)
LEMMA WeightOfEmpty == ASSUME NEW w, NEW m PROVE WeightOf(w, m, {}) = 0
  BY SumOfEmpty DEF WeightOf

(* Matchings that agree over a set cost the same there.                     *)
LEMMA WeightAgrees ==
    ASSUME NEW w, NEW m, NEW n, NEW A, IsFiniteSet(A), \A r \in A : m[r] = n[r]
    PROVE  WeightOf(w, m, A) = WeightOf(w, n, A)
<1>1. [r \in A |-> w[<<m[r], r>>]] = [r \in A |-> w[<<n[r], r>>]]
  OBVIOUS
<1>2. QED
  BY <1>1 DEF WeightOf

(* The cost of a part and that of the rest.                                 *)
LEMMA WeightSplits ==
    ASSUME NEW w, NEW m, NEW S, IsFiniteSet(S), Priced(w, m, S), NEW A \in SUBSET S
    PROVE  WeightOf(w, m, S) = WeightOf(w, m, A) + WeightOf(w, m, S \ A)
<1> DEFINE f == [r \in S |-> w[<<m[r], r>>]]  B == S \ A
           g == [r \in A |-> w[<<m[r], r>>]]  h == [r \in B |-> w[<<m[r], r>>]]
<1>1. AllNumbers(f, S)
  BY DEF AllNumbers, Priced
<1>2. IsFiniteSet(A) /\ IsFiniteSet(B) /\ B \in SUBSET S
  BY FS_Subset
<1>3. (\A r \in A : f[r] = g[r]) /\ (\A r \in B : f[r] = h[r])
  OBVIOUS
<1>4. WeightOf(w, m, S) = SumFunctionOnSet(f, S) /\ WeightOf(w, m, A) = SumFunctionOnSet(g, A) /\ WeightOf(w, m, B) = SumFunctionOnSet(h, B)
  BY DEF WeightOf
<1> HIDE DEF f, g, h
<1>5. SumFunctionOnSet(f, S) = SumFunctionOnSet(f, A) + SumFunctionOnSet(f, B)
  BY <1>1, SumOfUnion
<1>6. SumFunctionOnSet(f, A) = SumFunctionOnSet(g, A)
  BY <1>2, <1>3, SumOfEqual
<1>7. SumFunctionOnSet(f, B) = SumFunctionOnSet(h, B)
  BY <1>2, <1>3, SumOfEqual
<1>8. QED
  BY <1>4, <1>5, <1>6, <1>7

(* The cost of one.                                                         *)
LEMMA WeightOfOne ==
    ASSUME NEW w, NEW m, NEW r, w[<<m[r], r>>] \in Int
    PROVE  WeightOf(w, m, {r}) = w[<<m[r], r>>]
<1> DEFINE f == [x \in {r} |-> w[<<m[x], x>>]]
<1>1. f[r] = w[<<m[r], r>>] /\ AllNumbers(f, {} \cup {r}) /\ {} \cup {r} = {r} /\ r \notin {}
  BY DEF AllNumbers
<1>2. WeightOf(w, m, {r}) = SumFunctionOnSet(f, {r})
  BY DEF WeightOf
<1> HIDE DEF f
<1>3. SumFunctionOnSet(f, {} \cup {r}) = f[r] + SumFunctionOnSet(f, {})
  BY <1>1, FS_EmptySet, SumWith
<1>4. QED
  BY <1>1, <1>2, <1>3, SumOfEmpty

(* The cost of one more.                                                    *)
LEMMA WeightWith ==
    ASSUME NEW w, NEW m, NEW C, IsFiniteSet(C), NEW x, x \notin C, Priced(w, m, C \cup {x})
    PROVE  WeightOf(w, m, C \cup {x}) = w[<<m[x], x>>] + WeightOf(w, m, C)
<1> DEFINE S == C \cup {x}
<1>1. IsFiniteSet(S) /\ {x} \in SUBSET S /\ S \ {x} = C /\ w[<<m[x], x>>] \in Int
  BY FS_AddElement DEF Priced
<1> HIDE DEF S
<1>2. WeightOf(w, m, S) = WeightOf(w, m, {x}) + WeightOf(w, m, S \ {x})
  BY <1>1, WeightSplits DEF S
<1>3. WeightOf(w, m, {x}) = w[<<m[x], x>>]
  BY <1>1, WeightOfOne
<1>4. QED
  BY <1>1, <1>2, <1>3 DEF S

(* The path of n that m takes, and the rest of n with what m had on the path. *)
Extended(m, n, A) == [r \in DOMAIN m \cup A |-> IF r \in A THEN n[r] ELSE m[r]]

(* Exchanging two matchings over a set keeps what they cost together.       *)
LEMMA RouteKeepsWeight ==
    ASSUME NEW D, IsFiniteSet(D), NEW W, NEW w, Weighs(w, W, D),
           NEW m, IsMatching(m, D, W), NEW n, IsMatching(n, D, W), NEW A \in SUBSET DOMAIN n
    PROVE  WeightOf(w, Extended(m, n, A), DOMAIN m \cup A)
             + WeightOf(w, Swapped(m, n, A), DOMAIN Swapped(m, n, A))
           = WeightOf(w, m, DOMAIN m) + WeightOf(w, n, DOMAIN n)
<1> DEFINE x == Extended(m, n, A)  X == DOMAIN m \cup A
           y == Swapped(m, n, A)  Y == (DOMAIN n \ A) \cup (A \cap DOMAIN m)
           B == A \cap DOMAIN m  M == DOMAIN m \ A  N == DOMAIN n \ A
<1>1. DOMAIN m \subseteq D /\ DOMAIN n \subseteq D /\ A \subseteq D
  BY DEF IsMatching
<1>2. (\A r \in DOMAIN m : m[r] \in W) /\ (\A r \in DOMAIN n : n[r] \in W)
  BY DEF IsMatching, Injection
<1>3. /\ \A r \in A : x[r] = n[r] /\ r \in DOMAIN n
      /\ \A r \in M : x[r] = m[r] /\ r \in DOMAIN m
      /\ \A r \in B : y[r] = m[r] /\ r \in DOMAIN m
      /\ \A r \in N : y[r] = n[r] /\ r \in DOMAIN n
  BY DEF Extended, Swapped
<1>4. DOMAIN y = Y
  BY DEF Swapped
<1>5. /\ \A r \in X : r \in A \/ r \in M
      /\ \A r \in Y : r \in B \/ r \in N
      /\ X \ A = M /\ Y \ B = N /\ (DOMAIN m) \ B = M /\ (DOMAIN n) \ A = N
      /\ A \in SUBSET X /\ B \in SUBSET Y /\ B \in SUBSET DOMAIN m
      /\ X \subseteq D /\ Y \subseteq D /\ M \subseteq D /\ N \subseteq D /\ B \subseteq D
  BY <1>1
<1> HIDE DEF x, y, X, Y, B, M, N
<1>6. /\ Priced(w, x, X) /\ Priced(w, y, Y) /\ Priced(w, m, DOMAIN m) /\ Priced(w, n, DOMAIN n)
      /\ Priced(w, m, B) /\ Priced(w, m, M) /\ Priced(w, n, A) /\ Priced(w, n, N)
  BY <1>1, <1>2, <1>3, <1>5 DEF Priced, Weighs
<1>7. /\ IsFiniteSet(X) /\ IsFiniteSet(Y) /\ IsFiniteSet(DOMAIN m) /\ IsFiniteSet(DOMAIN n)
      /\ IsFiniteSet(A) /\ IsFiniteSet(B) /\ IsFiniteSet(M) /\ IsFiniteSet(N)
  BY <1>1, <1>5, FS_Subset
<1>8. WeightOf(w, x, X) = WeightOf(w, n, A) + WeightOf(w, m, M)
  <2>1. WeightOf(w, x, X) = WeightOf(w, x, A) + WeightOf(w, x, M)
    BY <1>5, <1>6, <1>7, WeightSplits
  <2>2. WeightOf(w, x, A) = WeightOf(w, n, A)
    BY <1>3, <1>7, WeightAgrees
  <2>3. WeightOf(w, x, M) = WeightOf(w, m, M)
    BY <1>3, <1>7, WeightAgrees
  <2>4. QED
    BY <2>1, <2>2, <2>3
<1>9. WeightOf(w, y, Y) = WeightOf(w, m, B) + WeightOf(w, n, N)
  <2>1. WeightOf(w, y, Y) = WeightOf(w, y, B) + WeightOf(w, y, N)
    BY <1>5, <1>6, <1>7, WeightSplits
  <2>2. WeightOf(w, y, B) = WeightOf(w, m, B)
    BY <1>3, <1>7, WeightAgrees
  <2>3. WeightOf(w, y, N) = WeightOf(w, n, N)
    BY <1>3, <1>7, WeightAgrees
  <2>4. QED
    BY <2>1, <2>2, <2>3
<1>10. WeightOf(w, m, DOMAIN m) = WeightOf(w, m, B) + WeightOf(w, m, M)
  BY <1>5, <1>6, <1>7, WeightSplits
<1>11. WeightOf(w, n, DOMAIN n) = WeightOf(w, n, A) + WeightOf(w, n, N)
  BY <1>5, <1>6, <1>7, WeightSplits
<1>12. /\ WeightOf(w, m, B) \in Int /\ WeightOf(w, m, M) \in Int
       /\ WeightOf(w, n, A) \in Int /\ WeightOf(w, n, N) \in Int
  BY <1>6, <1>7, WeightIsInteger
<1>13. WeightOf(w, x, X) + WeightOf(w, y, Y) = WeightOf(w, m, DOMAIN m) + WeightOf(w, n, DOMAIN n)
  BY <1>8, <1>9, <1>10, <1>11, <1>12
<1>14. QED
  BY <1>4, <1>13 DEF x, y, X

(* What n becomes when m keeps its places along the route is a matching of  *)
(* the size of m.                                                           *)
LEMMA SwappedCounts ==
    ASSUME NEW D, IsFiniteSet(D), NEW W, NEW m, IsMatching(m, D, W), NEW n, IsMatching(n, D, W),
           Cardinality(DOMAIN n) = Cardinality(DOMAIN m) + 1,
           NEW slot, NEW p, NEW len, IsRoute(m, n, W, slot, p, len)
    PROVE  /\ IsMatching(Swapped(m, n, Range(p)), D, W)
           /\ Cardinality(DOMAIN Swapped(m, n, Range(p))) = Cardinality(DOMAIN m)
           /\ Range(p) \in SUBSET DOMAIN n
<1> DEFINE A == Range(p)
<1>1. /\ p \in [1..len -> SeatedElsewhere(m, n)] /\ (\A i, j \in 1..len : p[i] = p[j] => i = j) /\ len \in Nat \ {0}
      /\ \A i \in 1..len : p[i] \in DOMAIN m <=> i < len
      /\ Swapped(m, n, A) \in Injection(DOMAIN Swapped(m, n, A), W)
  BY DEF IsRoute, Injection, IsInjective
<1>2. A \subseteq DOMAIN n
  BY <1>1 DEF Range, SeatedElsewhere
<1>3. len \in 1..len /\ p[len] \in A /\ p[len] \notin DOMAIN m
  BY <1>1 DEF Range
<1>4. \A r \in A : r = p[len] \/ r \in DOMAIN m
  <2> SUFFICES ASSUME NEW i \in 1..len PROVE p[i] = p[len] \/ p[i] \in DOMAIN m
    BY <1>1 DEF Range
  <2>1. QED
    BY <1>1
<1> HIDE DEF A
<1>5. DOMAIN Swapped(m, n, A) = DOMAIN n \ {p[len]}
  BY <1>2, <1>3, <1>4 DEF Swapped
<1>6. IsFiniteSet(DOMAIN n) /\ Cardinality(DOMAIN m) \in Nat
  BY MatchingFinite
<1>7. Cardinality(DOMAIN n \ {p[len]}) = Cardinality(DOMAIN m)
  BY <1>2, <1>3, <1>6, OneFewer
<1>8. IsMatching(Swapped(m, n, A), D, W)
  BY <1>1, <1>5 DEF IsMatching
<1>9. QED
  BY <1>2, <1>5, <1>7, <1>8 DEF A

(* No matching of as many recruits costs less.                               *)
IsCheapest(w, m, D, W) ==
    \A k : IsMatching(k, D, W) /\ Cardinality(DOMAIN k) = Cardinality(DOMAIN m)
              => WeightOf(w, m, DOMAIN m) <= WeightOf(w, k, DOMAIN k)

(* The cost of a matching is an integer.                                    *)
LEMMA MatchingWeight ==
    ASSUME NEW D, IsFiniteSet(D), NEW W, NEW w, Weighs(w, W, D), NEW m, IsMatching(m, D, W)
    PROVE  WeightOf(w, m, DOMAIN m) \in Int
<1>1. IsFiniteSet(DOMAIN m)
  BY MatchingFinite
<1>2. Priced(w, m, DOMAIN m)
  BY DEF Priced, Weighs, IsMatching, Injection
<1>3. QED
  BY <1>1, <1>2, WeightIsInteger

(* From a cheapest matching some route leads to one that costs no more than *)
(* any given matching with one recruit more: the step of the minimum-cost   *)
(* flow.                                                                    *)
LEMMA CheapRouteExists ==
    ASSUME NEW D, IsFiniteSet(D), NEW W, NEW w, Weighs(w, W, D),
           NEW m, IsMatching(m, D, W), IsCheapest(w, m, D, W),
           NEW n, IsMatching(n, D, W), Cardinality(DOMAIN n) = Cardinality(DOMAIN m) + 1
    PROVE  \E slot, p, len :
              /\ IsRoute(m, n, W, slot, p, len)
              /\ WeightOf(w, Extended(m, n, Range(p)), DOMAIN m \cup Range(p)) <= WeightOf(w, n, DOMAIN n)
<1>1. PICK slot, p, len : IsRoute(m, n, W, slot, p, len)
  BY RouteExists
<1> DEFINE A == Range(p)  y == Swapped(m, n, A)  x == WeightOf(w, Extended(m, n, A), DOMAIN m \cup A)
<1>2. IsMatching(y, D, W) /\ Cardinality(DOMAIN y) = Cardinality(DOMAIN m) /\ A \in SUBSET DOMAIN n
  BY <1>1, SwappedCounts
<1> HIDE DEF A
<1>3. x + WeightOf(w, y, DOMAIN y) = WeightOf(w, m, DOMAIN m) + WeightOf(w, n, DOMAIN n)
  BY <1>2, RouteKeepsWeight
<1>4. WeightOf(w, m, DOMAIN m) <= WeightOf(w, y, DOMAIN y)
  BY <1>2 DEF IsCheapest
<1>5. WeightOf(w, y, DOMAIN y) \in Int /\ WeightOf(w, m, DOMAIN m) \in Int /\ WeightOf(w, n, DOMAIN n) \in Int
  BY <1>2, MatchingWeight
<1>6. x \in Int
  <2>1. A \subseteq D /\ DOMAIN m \subseteq D /\ DOMAIN n \subseteq D
    BY <1>2 DEF IsMatching
  <2>2. IsFiniteSet(DOMAIN m \cup A)
    BY <2>1, FS_Subset
  <2>3. (\A r \in DOMAIN m : m[r] \in W) /\ (\A r \in DOMAIN n : n[r] \in W)
    BY DEF IsMatching, Injection
  <2>4. Priced(w, Extended(m, n, A), DOMAIN m \cup A)
    BY <1>2, <2>1, <2>3 DEF Priced, Weighs, Extended
  <2>5. QED
    BY <2>2, <2>4, WeightIsInteger
<1> HIDE DEF x, y
<1>7. x <= WeightOf(w, n, DOMAIN n)
  BY <1>3, <1>4, <1>5, <1>6
<1>8. QED
  BY <1>1, <1>7 DEF x, A

-----------------------------------------------------------------------------
Within(w, m, A, B) == \A r \in A : w[<<m[r], r>>] \in Int /\ 0 <= w[<<m[r], r>>] /\ w[<<m[r], r>>] <= B

(* So many costs within a bound.                                            *)
LEMMA WeightIsBounded ==
    ASSUME NEW w, NEW m, NEW A, IsFiniteSet(A), NEW B \in Nat, Within(w, m, A, B)
    PROVE  WeightOf(w, m, A) \in Int /\ 0 <= WeightOf(w, m, A) /\ WeightOf(w, m, A) <= B * Cardinality(A)
<1> DEFINE T == {C \in SUBSET A : 0 <= WeightOf(w, m, C) /\ WeightOf(w, m, C) <= B * Cardinality(C)}
<1>1. \A C \in SUBSET A : IsFiniteSet(C) /\ Cardinality(C) \in Nat
  BY FS_Subset, FS_CardinalityType
<1>2. \A C \in SUBSET A : Priced(w, m, C) /\ WeightOf(w, m, C) \in Int
  <2> TAKE C \in SUBSET A
  <2>1. Priced(w, m, C)
    BY DEF Priced, Within
  <2>2. QED
    BY <1>1, <2>1, WeightIsInteger
<1>3. {} \in T
  BY WeightOfEmpty, FS_EmptySet
<1>4. \A C \in SUBSET A : \A x \in A \ C : C \in T => C \cup {x} \in T
  <2> SUFFICES ASSUME NEW C \in SUBSET A, NEW x \in A \ C, C \in T PROVE C \cup {x} \in T
    OBVIOUS
  <2> DEFINE S == C \cup {x}
  <2>1. S \in SUBSET A /\ IsFiniteSet(C) /\ Cardinality(C) \in Nat /\ x \notin C
    BY <1>1
  <2>2. Cardinality(S) = Cardinality(C) + 1
    BY <2>1, FS_AddElement
  <2>3. WeightOf(w, m, S) = w[<<m[x], x>>] + WeightOf(w, m, C)
    BY <1>2, <2>1, WeightWith
  <2>4. 0 <= WeightOf(w, m, C) /\ WeightOf(w, m, C) <= B * Cardinality(C) /\ WeightOf(w, m, C) \in Int
    BY <1>2
  <2>5. w[<<m[x], x>>] \in Int /\ 0 <= w[<<m[x], x>>] /\ w[<<m[x], x>>] <= B
    BY DEF Within
  <2>6. B * (Cardinality(C) + 1) = B * Cardinality(C) + B /\ B * Cardinality(C) \in Int
    BY <2>1
  <2> HIDE DEF S
  <2>7. 0 <= WeightOf(w, m, S) /\ WeightOf(w, m, S) <= B * Cardinality(S)
    BY <2>2, <2>3, <2>4, <2>5, <2>6
  <2>8. QED
    BY <2>1, <2>7 DEF S
<1> HIDE DEF T
<1>5. A \in T
  BY <1>3, <1>4, SetOfFiniteSets
<1>6. QED
  BY <1>2, <1>5 DEF T

(* A cost that only depends on the places is the sum over the places.         *)
LEMMA WeightOfPlaces ==
    ASSUME NEW g, NEW w, NEW m, NEW A, IsFiniteSet(A),
           \A r \in A : w[<<m[r], r>>] = g[m[r]] /\ g[m[r]] \in Int,
           \A x, y \in A : m[x] = m[y] => x = y
    PROVE  WeightOf(w, m, A) = SumFunctionOnSet(g, {m[r] : r \in A})
<1> DEFINE Im(C) == {m[r] : r \in C}
           T == {C \in SUBSET A : IsFiniteSet(Im(C)) /\ WeightOf(w, m, C) = SumFunctionOnSet(g, Im(C))}
<1>1. {} \in T
  <2>1. Im({}) = {}
    OBVIOUS
  <2>2. QED
    BY <2>1, WeightOfEmpty, SumOfEmpty, FS_EmptySet
<1>2. \A C \in SUBSET A : \A x \in A \ C : C \in T => C \cup {x} \in T
  <2> SUFFICES ASSUME NEW C \in SUBSET A, NEW x \in A \ C, C \in T PROVE C \cup {x} \in T
    OBVIOUS
  <2>1. IsFiniteSet(C) /\ Priced(w, m, C \cup {x})
    BY FS_Subset DEF Priced
  <2>2. WeightOf(w, m, C \cup {x}) = w[<<m[x], x>>] + WeightOf(w, m, C)
    BY <2>1, WeightWith
  <2> DEFINE I == Im(C)
  <2>3. Im(C \cup {x}) = I \cup {m[x]} /\ IsFiniteSet(I)
    OBVIOUS
  <2>4. m[x] \notin I
    OBVIOUS
  <2>5. AllNumbers(g, I \cup {m[x]})
    <3>1. \A r \in C \cup {x} : g[m[r]] \in Int
      OBVIOUS
    <3>2. QED
      BY <3>1 DEF AllNumbers
  <2>6. WeightOf(w, m, C) = SumFunctionOnSet(g, I)
    OBVIOUS
  <2> HIDE DEF I, Im
  <2>7. SumFunctionOnSet(g, I \cup {m[x]}) = g[m[x]] + SumFunctionOnSet(g, I) /\ IsFiniteSet(I \cup {m[x]})
    BY <2>3, <2>4, <2>5, SumWith, FS_AddElement
  <2>8. QED
    BY <2>2, <2>3, <2>6, <2>7
<1> HIDE DEF T
<1>3. A \in T
  BY <1>1, <1>2, SetOfFiniteSets
<1>4. QED
  BY <1>3 DEF T

(* A cost that is a sum adds up to the sum.                                 *)
LEMMA WeightIsSum ==
    ASSUME NEW K \in Int, NEW w, NEW a, NEW b, NEW c, NEW m, NEW A, IsFiniteSet(A),
           Priced(a, m, A), Priced(b, m, A), Priced(c, m, A),
           \A r \in A : w[<<m[r], r>>] = K * a[<<m[r], r>>] + b[<<m[r], r>>] + c[<<m[r], r>>]
    PROVE  WeightOf(w, m, A) = K * WeightOf(a, m, A) + WeightOf(b, m, A) + WeightOf(c, m, A)
<1> DEFINE T == {C \in SUBSET A : WeightOf(w, m, C) = K * WeightOf(a, m, C) + WeightOf(b, m, C) + WeightOf(c, m, C)}
<1>1. {} \in T
  BY WeightOfEmpty
<1>2. \A C \in SUBSET A : \A x \in A \ C : C \in T => C \cup {x} \in T
  <2> SUFFICES ASSUME NEW C \in SUBSET A, NEW x \in A \ C, C \in T PROVE C \cup {x} \in T
    OBVIOUS
  <2>1. /\ IsFiniteSet(C) /\ C \cup {x} \in SUBSET A
        /\ Priced(w, m, C \cup {x}) /\ Priced(a, m, C \cup {x}) /\ Priced(b, m, C \cup {x}) /\ Priced(c, m, C \cup {x})
        /\ Priced(a, m, C) /\ Priced(b, m, C) /\ Priced(c, m, C)
    BY FS_Subset DEF Priced
  <2>2. WeightOf(w, m, C \cup {x}) = w[<<m[x], x>>] + WeightOf(w, m, C)
    BY <2>1, WeightWith
  <2>3. WeightOf(a, m, C \cup {x}) = a[<<m[x], x>>] + WeightOf(a, m, C)
    BY <2>1, WeightWith
  <2>4. WeightOf(b, m, C \cup {x}) = b[<<m[x], x>>] + WeightOf(b, m, C)
    BY <2>1, WeightWith
  <2>5. WeightOf(c, m, C \cup {x}) = c[<<m[x], x>>] + WeightOf(c, m, C)
    BY <2>1, WeightWith
  <2>6. /\ a[<<m[x], x>>] \in Int /\ b[<<m[x], x>>] \in Int /\ c[<<m[x], x>>] \in Int
        /\ w[<<m[x], x>>] = K * a[<<m[x], x>>] + b[<<m[x], x>>] + c[<<m[x], x>>]
    BY DEF Priced
  <2>7. WeightOf(a, m, C) \in Int /\ WeightOf(b, m, C) \in Int /\ WeightOf(c, m, C) \in Int
    BY <2>1, WeightIsInteger
  <2>8. WeightOf(w, m, C) = K * WeightOf(a, m, C) + WeightOf(b, m, C) + WeightOf(c, m, C)
    OBVIOUS
  <2>9. WeightOf(w, m, C \cup {x}) = K * WeightOf(a, m, C \cup {x}) + WeightOf(b, m, C \cup {x}) + WeightOf(c, m, C \cup {x})
    BY <2>2, <2>3, <2>4, <2>5, <2>6, <2>7, <2>8
  <2>10. QED
    BY <2>1, <2>9
<1> HIDE DEF T
<1>3. A \in T
  BY <1>1, <1>2, SetOfFiniteSets
<1>4. QED
  BY <1>3 DEF T

-----------------------------------------------------------------------------
(***************************************************************************)
(* What the cheapest matching counts.                                      *)
(***************************************************************************)

(* A cost of K for what is counted, a price of the place, and a tie.          *)
IsCost(w, K, a, g, c, W, D, G, B) ==
    /\ K \in Nat /\ G \in Nat /\ B \in Nat
    /\ \A s \in W : g[s] \in Int /\ 0 <= g[s] /\ g[s] <= G
    /\ \A s \in W, r \in D :
          /\ a[<<s, r>>] \in Int
          /\ c[<<s, r>>] \in Int /\ 0 <= c[<<s, r>>] /\ c[<<s, r>>] <= B
          /\ w[<<s, r>>] = K * a[<<s, r>>] + g[s] + c[<<s, r>>]

Places(m, A) == {m[r] : r \in A}

(* The cost of a part: what is counted, the prices of the places, and the   *)
(* ties.                                                                    *)
LEMMA CostOfPart ==
    ASSUME NEW D, IsFiniteSet(D), NEW W, NEW w, NEW K, NEW a, NEW g, NEW c, NEW G, NEW B,
           IsCost(w, K, a, g, c, W, D, G, B), NEW m \in Injection(D, W), NEW A \in SUBSET D
    PROVE  \E ties \in Int :
              /\ 0 <= ties /\ ties <= B * Cardinality(D)
              /\ WeightOf(w, m, A) = K * WeightOf(a, m, A) + SumFunctionOnSet(g, Places(m, A)) + ties
              /\ WeightOf(w, m, A) \in Int /\ WeightOf(a, m, A) \in Int /\ IsFiniteSet(Places(m, A))
              /\ SumFunctionOnSet(g, Places(m, A)) \in Int
<1> DEFINE b == [q \in W \X D |-> g[q[1]]]
<1>1. K \in Int /\ B \in Nat
  BY DEF IsCost
<1>2. IsFiniteSet(A) /\ Cardinality(A) \in Nat /\ Cardinality(A) <= Cardinality(D) /\ Cardinality(D) \in Nat
  BY FS_Subset, FS_CardinalityType
<1>3. (\A r \in D : m[r] \in W) /\ \A x, y \in D : m[x] = m[y] => x = y
  BY DEF Injection, IsInjective
<1>4. \A r \in A : <<m[r], r>> \in W \X D /\ m[r] \in W /\ r \in D
  BY <1>3
<1>5. \A r \in A : b[<<m[r], r>>] = g[m[r]] /\ g[m[r]] \in Int
  BY <1>4 DEF IsCost
<1> HIDE DEF b
<1>6. Priced(a, m, A) /\ Priced(b, m, A) /\ Priced(c, m, A) /\ Within(c, m, A, B)
  BY <1>4, <1>5 DEF Priced, Within, IsCost
<1>7. \A r \in A : w[<<m[r], r>>] = K * a[<<m[r], r>>] + b[<<m[r], r>>] + c[<<m[r], r>>]
  BY <1>4, <1>5 DEF IsCost
<1>8. WeightOf(w, m, A) = K * WeightOf(a, m, A) + WeightOf(b, m, A) + WeightOf(c, m, A)
  BY <1>1, <1>2, <1>6, <1>7, WeightIsSum
<1>9. WeightOf(b, m, A) = SumFunctionOnSet(g, Places(m, A))
  BY <1>2, <1>3, <1>5, WeightOfPlaces DEF Places
<1>10. WeightOf(c, m, A) \in Int /\ 0 <= WeightOf(c, m, A) /\ WeightOf(c, m, A) <= B * Cardinality(A)
  BY <1>1, <1>2, <1>6, WeightIsBounded
<1>11. WeightOf(a, m, A) \in Int /\ WeightOf(b, m, A) \in Int
  BY <1>2, <1>6, WeightIsInteger
<1>12. B * Cardinality(A) <= B * Cardinality(D)
  BY <1>1, <1>2
<1>13. IsFiniteSet(Places(m, A))
  <2> DEFINE h == [r \in A |-> m[r]]
  <2>1. h \in Surjection(A, Places(m, A))
    BY DEF Surjection, Places
  <2>2. QED
    BY <1>2, <2>1, FS_Surjection
<1>14. WeightOf(c, m, A) <= B * Cardinality(D) /\ B * Cardinality(A) \in Int /\ B * Cardinality(D) \in Int
  BY <1>1, <1>2, <1>10, <1>12
<1>15. WeightOf(w, m, A) \in Int /\ K * WeightOf(a, m, A) \in Int
  BY <1>1, <1>8, <1>10, <1>11
<1>16. QED
  BY <1>8, <1>9, <1>10, <1>11, <1>13, <1>14, <1>15

(* The costs are integers.                                                  *)
LEMMA InjectionWeight ==
    ASSUME NEW D, IsFiniteSet(D), NEW W, NEW w, NEW K, NEW a, NEW g, NEW c, NEW G, NEW B,
           IsCost(w, K, a, g, c, W, D, G, B), NEW m \in Injection(D, W)
    PROVE  Weighs(a, W, D) /\ Weighs(w, W, D) /\ Priced(a, m, D) /\ Priced(w, m, D)
<1>1. \A s \in W, r \in D : a[<<s, r>>] \in Int /\ w[<<s, r>>] \in Int
  <2> TAKE s \in W, r \in D
  <2>1. /\ a[<<s, r>>] \in Int /\ K \in Int /\ g[s] \in Int /\ c[<<s, r>>] \in Int
        /\ w[<<s, r>>] = K * a[<<s, r>>] + g[s] + c[<<s, r>>]
    BY DEF IsCost
  <2>2. K * a[<<s, r>>] \in Int
    BY <2>1
  <2>3. QED
    BY <2>1, <2>2
<1>2. \A r \in D : m[r] \in W
  BY DEF Injection
<1>3. QED
  BY <1>1, <1>2 DEF Weighs, Priced

(* The cost after an exchange.                                              *)
LEMMA ExchangedWeight ==
    ASSUME NEW D, IsFiniteSet(D), NEW W, NEW w, Weighs(w, W, D), NEW m \in Injection(D, W), NEW n \in Injection(D, W),
           NEW A \in SUBSET D
    PROVE  /\ WeightOf(w, Exchanged(m, n, A), D) = WeightOf(w, m, A) + WeightOf(w, n, D \ A)
           /\ WeightOf(w, n, D) = WeightOf(w, n, A) + WeightOf(w, n, D \ A)
           /\ WeightOf(w, m, A) \in Int /\ WeightOf(w, n, A) \in Int /\ WeightOf(w, n, D \ A) \in Int
<1> DEFINE x == Exchanged(m, n, A)  C == D \ A
<1>1. (\A r \in D : m[r] \in W /\ n[r] \in W) /\ DOMAIN n = D
  BY DEF Injection
<1>2. IsFiniteSet(A) /\ IsFiniteSet(C) /\ C \in SUBSET D
  BY FS_Subset
<1>3. /\ \A r \in A : x[r] = m[r]
      /\ \A r \in C : x[r] = n[r]
      /\ \A r \in D : r \in A \/ r \in C
  BY <1>1 DEF Exchanged
<1> HIDE DEF x
<1>4. Priced(w, x, D) /\ Priced(w, n, D) /\ Priced(w, m, A) /\ Priced(w, n, A) /\ Priced(w, n, C)
  BY <1>1, <1>3 DEF Priced, Weighs
<1> HIDE DEF C
<1>5. C = D \ A
  BY DEF C
<1>6. WeightOf(w, x, D) = WeightOf(w, x, A) + WeightOf(w, x, C)
  BY <1>4, <1>5, WeightSplits
<1>7. WeightOf(w, x, A) = WeightOf(w, m, A)
  BY <1>2, <1>3, WeightAgrees
<1>8. WeightOf(w, x, C) = WeightOf(w, n, C)
  BY <1>2, <1>3, WeightAgrees
<1>9. WeightOf(w, n, D) = WeightOf(w, n, A) + WeightOf(w, n, C)
  BY <1>4, <1>5, WeightSplits
<1>10. WeightOf(w, m, A) \in Int /\ WeightOf(w, n, A) \in Int /\ WeightOf(w, n, C) \in Int
  BY <1>2, <1>4, WeightIsInteger
<1>11. QED
  BY <1>5, <1>6, <1>7, <1>8, <1>9, <1>10 DEF x

(* An exchange saves at most one price and the ties, apart from what is     *)
(* counted.                                                                 *)
LEMMA ExchangeIsCheap ==
    ASSUME NEW D, IsFiniteSet(D), NEW W, NEW w, NEW K, NEW a, NEW g, NEW c, NEW G, NEW B,
           IsCost(w, K, a, g, c, W, D, G, B), NEW m \in Injection(D, W), NEW n \in Injection(D, W),
           NEW s \in W, NEW t, NEW A, IsExchange(m, n, W, s, t, A)
    PROVE  WeightOf(w, n, A) + K * WeightOf(a, m, A)
             <= WeightOf(w, m, A) + K * WeightOf(a, n, A) + G + B * Cardinality(D)
<1>1. A \in SUBSET D
  BY DEF IsExchange, SeatedElsewhere, Injection
<1>2. PICK x \in Int :
         /\ 0 <= x /\ x <= B * Cardinality(D)
         /\ WeightOf(w, m, A) = K * WeightOf(a, m, A) + SumFunctionOnSet(g, Places(m, A)) + x
         /\ WeightOf(w, m, A) \in Int /\ WeightOf(a, m, A) \in Int /\ IsFiniteSet(Places(m, A))
         /\ SumFunctionOnSet(g, Places(m, A)) \in Int
  BY <1>1, CostOfPart
<1>3. PICK y \in Int :
         /\ 0 <= y /\ y <= B * Cardinality(D)
         /\ WeightOf(w, n, A) = K * WeightOf(a, n, A) + SumFunctionOnSet(g, Places(n, A)) + y
         /\ WeightOf(w, n, A) \in Int /\ WeightOf(a, n, A) \in Int /\ IsFiniteSet(Places(n, A))
         /\ SumFunctionOnSet(g, Places(n, A)) \in Int
  BY <1>1, CostOfPart
<1>4. /\ s \notin Places(m, A) /\ t \notin Places(n, A) /\ t \in W
      /\ Places(n, A) \cup {t} = Places(m, A) \cup {s}
  BY DEF IsExchange, Places
<1>5. Places(m, A) \subseteq W /\ Places(n, A) \subseteq W
  BY <1>1 DEF Places, Injection
<1>6. AllNumbers(g, Places(n, A) \cup {t}) /\ AllNumbers(g, Places(m, A) \cup {s})
  BY <1>4, <1>5 DEF AllNumbers, IsCost
<1>7. SumFunctionOnSet(g, Places(n, A) \cup {t}) = g[t] + SumFunctionOnSet(g, Places(n, A))
  BY <1>3, <1>4, <1>6, SumWith
<1>8. SumFunctionOnSet(g, Places(m, A) \cup {s}) = g[s] + SumFunctionOnSet(g, Places(m, A))
  BY <1>2, <1>4, <1>6, SumWith
<1>9. g[t] + SumFunctionOnSet(g, Places(n, A)) = g[s] + SumFunctionOnSet(g, Places(m, A))
  BY <1>4, <1>7, <1>8
<1>10. g[t] \in Int /\ g[s] \in Int /\ 0 <= g[t] /\ g[s] <= G /\ G \in Nat /\ K \in Int /\ B \in Nat
  BY <1>4 DEF IsCost
<1>11. Cardinality(D) \in Nat /\ B * Cardinality(D) \in Int
  BY <1>10, FS_CardinalityType
<1>12. K * WeightOf(a, m, A) \in Int /\ K * WeightOf(a, n, A) \in Int
  BY <1>2, <1>3, <1>10
<1> DEFINE P == SumFunctionOnSet(g, Places(m, A))  Q == SumFunctionOnSet(g, Places(n, A))
<1> HIDE DEF P, Q
<1>13. QED
  BY <1>2, <1>3, <1>9, <1>10, <1>11, <1>12 DEF P, Q

(* Whatever is counted for less than the rest of the cost is counted as       *)
(* seldom as possible by the cheapest matching.                               *)
LEMMA CheapestCountsFewest ==
    ASSUME NEW D, IsFiniteSet(D), NEW W, NEW w, NEW K, NEW a, NEW g, NEW c, NEW G, NEW B,
           IsCost(w, K, a, g, c, W, D, G, B), G + B * Cardinality(D) < K,
           NEW m \in Injection(D, W), \A k \in Injection(D, W) : WeightOf(w, m, D) <= WeightOf(w, k, D),
           NEW n \in Injection(D, W)
    PROVE  WeightOf(a, m, D) <= WeightOf(a, n, D)
<1> DEFINE Fewer(k) == WeightOf(a, m, D) <= WeightOf(a, k, D)
           T == {d \in Nat : \A k \in Injection(D, W) : Cardinality(SeatedElsewhere(m, k)) <= d => Fewer(k)}
           E == B * Cardinality(D)
<1>1. K \in Nat /\ G \in Nat /\ B \in Nat /\ Cardinality(D) \in Nat /\ E \in Int /\ G + E < K
  <2>1. K \in Nat /\ G \in Nat /\ B \in Nat
    BY DEF IsCost
  <2>2. QED
    BY <2>1, FS_CardinalityType
<1> HIDE DEF E
<1>2. Weighs(a, W, D) /\ Weighs(w, W, D)
  BY InjectionWeight
<1>3. \A k \in Injection(D, W) : WeightOf(a, k, D) \in Int /\ WeightOf(w, k, D) \in Int
  <2> TAKE k \in Injection(D, W)
  <2>1. Priced(a, k, D) /\ Priced(w, k, D)
    BY InjectionWeight
  <2>2. QED
    BY <2>1, WeightIsInteger
<1>4. m \in [D -> W] /\ \A x, y \in D : m[x] = m[y] => x = y
  BY DEF Injection, IsInjective
<1>5. \A k \in Injection(D, W) : IsFiniteSet(SeatedElsewhere(m, k)) /\ Cardinality(SeatedElsewhere(m, k)) \in Nat /\ SeatedElsewhere(m, k) \subseteq D
  <2> TAKE k \in Injection(D, W)
  <2>1. SeatedElsewhere(m, k) \in SUBSET D
    BY DEF SeatedElsewhere, Injection
  <2>2. QED
    BY <2>1, FS_Subset, FS_CardinalityType
<1>6. ASSUME NEW i \in Int, NEW j \in Int, i < j
      PROVE  K * i + K <= K * j /\ K * i \in Int /\ K * j \in Int
  <2>1. j - i - 1 \in Nat
    BY <1>6
  <2>2. K * (j - i - 1) \in Nat
    BY <1>1, <2>1
  <2>3. K * (j - i - 1) = K * j - K * i - K /\ K * i \in Int /\ K * j \in Int
    BY <1>1
  <2>4. QED
    BY <1>1, <2>2, <2>3
<1>7. ASSUME NEW k \in Injection(D, W), \A r \in D : k[r] \in Range(m)
      PROVE  Fewer(k)
  <2>1. k \in [D -> W] /\ \A x, y \in D : k[x] = k[y] => x = y
    BY DEF Injection, IsInjective
  <2>2. k \in Injection(D, Range(m)) /\ m \in Injection(D, Range(m)) /\ m \in Surjection(D, Range(m))
    BY <1>4, <1>7, <2>1 DEF Injection, IsInjective, Surjection, Range
  <2>3. IsFiniteSet(Range(m)) /\ Cardinality(Range(m)) = Cardinality(D)
    BY <2>2, FS_Surjection
  <2>4. k \in Surjection(D, Range(m))
    BY <2>2, <2>3, FS_Injection
  <2>5. Places(k, D) = Places(m, D)
    <3>1. \A x \in D : k[x] \in Places(m, D)
      BY <1>4, <1>7 DEF Places, Range
    <3>2. \A x \in D : \E y \in D : k[y] = m[x]
      BY <1>4, <2>4 DEF Range, Surjection
    <3>3. QED
      BY <3>1, <3>2 DEF Places
  <2>6. PICK x \in Int :
           /\ 0 <= x /\ x <= E
           /\ WeightOf(w, m, D) = K * WeightOf(a, m, D) + SumFunctionOnSet(g, Places(m, D)) + x
           /\ SumFunctionOnSet(g, Places(m, D)) \in Int
    BY CostOfPart DEF E
  <2>7. PICK y \in Int :
           /\ 0 <= y /\ y <= E
           /\ WeightOf(w, k, D) = K * WeightOf(a, k, D) + SumFunctionOnSet(g, Places(k, D)) + y
           /\ SumFunctionOnSet(g, Places(k, D)) \in Int
    BY CostOfPart DEF E
  <2>8. WeightOf(w, m, D) <= WeightOf(w, k, D)
    OBVIOUS
  <2>9. WeightOf(a, k, D) \in Int /\ WeightOf(a, m, D) \in Int
    BY <1>3
  <2>10. ASSUME WeightOf(a, k, D) < WeightOf(a, m, D) PROVE FALSE
    <3>1. K * WeightOf(a, k, D) + K <= K * WeightOf(a, m, D) /\ K * WeightOf(a, k, D) \in Int /\ K * WeightOf(a, m, D) \in Int
      BY <1>6, <2>9, <2>10
    <3>2. QED
      BY <1>1, <2>5, <2>6, <2>7, <2>8, <3>1
  <2>11. QED
    BY <2>9, <2>10
<1>8. 0 \in T
  <2> SUFFICES ASSUME NEW k \in Injection(D, W), Cardinality(SeatedElsewhere(m, k)) <= 0 PROVE Fewer(k)
    OBVIOUS
  <2>1. SeatedElsewhere(m, k) = {}
    <3>1. Cardinality(SeatedElsewhere(m, k)) = 0 /\ IsFiniteSet(SeatedElsewhere(m, k))
      BY <1>5
    <3>2. QED
      BY <3>1, FS_EmptySet
  <2>2. \A r \in D : k[r] \in Range(m)
    BY <1>4, <2>1 DEF SeatedElsewhere, Range, Injection
  <2>3. QED
    BY <1>7, <2>2
<1>9. \A d \in Nat : d \in T => d + 1 \in T
  <2> SUFFICES ASSUME NEW d \in Nat, d \in T, NEW k \in Injection(D, W), Cardinality(SeatedElsewhere(m, k)) <= d + 1
               PROVE  Fewer(k)
    OBVIOUS
  <2>1. CASE \A r \in D : k[r] \in Range(m)
    BY <1>7, <2>1
  <2>2. CASE \E r \in D : k[r] \notin Range(m)
    <3>1. PICK r \in D : k[r] \notin Range(m)
      BY <2>2
    <3>2. PICK t, A : IsExchange(m, k, W, k[r], t, A)
      BY <3>1, ExchangeExists
    <3> DEFINE f == Exchanged(k, m, A)  h == Exchanged(m, k, A)
    <3>3. /\ A \subseteq SeatedElsewhere(m, k) /\ A # {} /\ A \in SUBSET D /\ k[r] \in W
          /\ f \in Injection(D, W) /\ h \in Injection(D, W) /\ DOMAIN k = D
      BY <3>2 DEF IsExchange, SeatedElsewhere, Injection
    <3>4. /\ WeightOf(w, f, D) = WeightOf(w, k, A) + WeightOf(w, m, D \ A)
          /\ WeightOf(w, m, D) = WeightOf(w, m, A) + WeightOf(w, m, D \ A)
          /\ WeightOf(w, k, A) \in Int /\ WeightOf(w, m, A) \in Int /\ WeightOf(w, m, D \ A) \in Int
      <4>1. A \in SUBSET D
        BY <3>3
      <4> HIDE DEF T, Fewer
      <4>2. Weighs(w, W, D)
        BY <1>2
      <4>3. WeightOf(w, f, D) = WeightOf(w, k, A) + WeightOf(w, m, D \ A)
        BY <4>1, <4>2, ExchangedWeight
      <4>4. WeightOf(w, m, D) = WeightOf(w, m, A) + WeightOf(w, m, D \ A)
        BY <4>1, <4>2, ExchangedWeight
      <4>5. WeightOf(w, k, A) \in Int /\ WeightOf(w, m, A) \in Int /\ WeightOf(w, m, D \ A) \in Int
        BY <4>1, <4>2, ExchangedWeight
      <4>6. QED
        BY <4>3, <4>4, <4>5
    <3>5. /\ WeightOf(a, h, D) = WeightOf(a, m, A) + WeightOf(a, k, D \ A)
          /\ WeightOf(a, k, D) = WeightOf(a, k, A) + WeightOf(a, k, D \ A)
          /\ WeightOf(a, m, A) \in Int /\ WeightOf(a, k, A) \in Int /\ WeightOf(a, k, D \ A) \in Int
      BY <1>2, <3>3, ExchangedWeight
    <3>6. WeightOf(w, k, A) + K * WeightOf(a, m, A) <= WeightOf(w, m, A) + K * WeightOf(a, k, A) + G + E
      BY <3>2, <3>3, ExchangeIsCheap DEF E
    <3>7. WeightOf(w, m, D) <= WeightOf(w, f, D)
      BY <3>3
    <3>8. ASSUME WeightOf(a, k, A) < WeightOf(a, m, A) PROVE FALSE
      <4>1. K * WeightOf(a, k, A) + K <= K * WeightOf(a, m, A) /\ K * WeightOf(a, k, A) \in Int /\ K * WeightOf(a, m, A) \in Int
        BY <1>6, <3>5, <3>8
      <4>2. QED
        BY <1>1, <3>4, <3>6, <3>7, <4>1
    <3>9. WeightOf(a, h, D) <= WeightOf(a, k, D)
      BY <3>5, <3>8
    <3>10. SeatedElsewhere(m, h) = SeatedElsewhere(m, k) \ A
      <4>1. DOMAIN h = D /\ (\A x \in A : h[x] = m[x]) /\ \A x \in D \ A : h[x] = k[x]
        BY <3>3 DEF Exchanged
      <4> HIDE DEF h
      <4>2. QED
        BY <1>4, <3>3, <4>1 DEF SeatedElsewhere
    <3>11. PICK x \in A : TRUE
      BY <3>3
    <3>12. Cardinality(SeatedElsewhere(m, h)) <= d
      <4>1. IsFiniteSet(SeatedElsewhere(m, k)) /\ x \in SeatedElsewhere(m, k)
        BY <1>5, <3>3
      <4>2. /\ Cardinality(SeatedElsewhere(m, k) \ {x}) = Cardinality(SeatedElsewhere(m, k)) - 1
            /\ IsFiniteSet(SeatedElsewhere(m, k) \ {x}) /\ Cardinality(SeatedElsewhere(m, k)) \in Nat
        BY <1>5, <4>1, FS_RemoveElement
      <4>3. SeatedElsewhere(m, h) \in SUBSET (SeatedElsewhere(m, k) \ {x})
        BY <3>10
      <4>4. Cardinality(SeatedElsewhere(m, h)) <= Cardinality(SeatedElsewhere(m, k) \ {x})
        BY <4>2, <4>3, FS_Subset
      <4>5. Cardinality(SeatedElsewhere(m, h)) \in Nat
        BY <1>5, <3>3
      <4>6. QED
        BY <4>2, <4>4, <4>5
    <3>13. Fewer(h)
      BY <3>3, <3>12
    <3>14. WeightOf(a, m, D) \in Int /\ WeightOf(a, h, D) \in Int /\ WeightOf(a, k, D) \in Int
      BY <1>3, <3>3
    <3>15. QED
      BY <3>9, <3>13, <3>14
  <2>3. QED
    BY <2>1, <2>2
<1> HIDE DEF T
<1>10. Cardinality(SeatedElsewhere(m, n)) \in T /\ Cardinality(SeatedElsewhere(m, n)) \in Nat
  BY <1>5, <1>8, <1>9, SetOfNaturals
<1>11. QED
  BY <1>10 DEF T

(* A cost of one for some and none for the others counts the former.          *)
LEMMA WeightCounts ==
    ASSUME NEW a, NEW m, NEW A, IsFiniteSet(A), NEW R \in SUBSET A,
           \A r \in A : a[<<m[r], r>>] = IF r \in R THEN 1 ELSE 0
    PROVE  WeightOf(a, m, A) = Cardinality(R)
<1> DEFINE T == {C \in SUBSET A : WeightOf(a, m, C) = Cardinality(C \cap R)}
<1>1. {} \in T
  <2>1. {} \cap R = {}
    OBVIOUS
  <2>2. QED
    BY <2>1, WeightOfEmpty, FS_EmptySet
<1>2. \A C \in SUBSET A : \A x \in A \ C : C \in T => C \cup {x} \in T
  <2> SUFFICES ASSUME NEW C \in SUBSET A, NEW x \in A \ C, C \in T PROVE C \cup {x} \in T
    OBVIOUS
  <2> DEFINE I == C \cap R
  <2>1. IsFiniteSet(C) /\ IsFiniteSet(I) /\ Cardinality(I) \in Nat /\ x \notin I
    BY FS_Subset, FS_CardinalityType
  <2>2. Priced(a, m, C \cup {x})
    BY DEF Priced
  <2>3. WeightOf(a, m, C \cup {x}) = a[<<m[x], x>>] + WeightOf(a, m, C)
    BY <2>1, <2>2, WeightWith
  <2>4. WeightOf(a, m, C) = Cardinality(I) /\ a[<<m[x], x>>] = IF x \in R THEN 1 ELSE 0
    OBVIOUS
  <2>5. ASSUME x \in R PROVE WeightOf(a, m, C \cup {x}) = Cardinality((C \cup {x}) \cap R)
    <3>0. (C \cup {x}) \cap R = I \cup {x}
      BY <2>5
    <3> HIDE DEF T, I
    <3>1. Cardinality((C \cup {x}) \cap R) = Cardinality(I \cup {x})
      BY <3>0
    <3>2. Cardinality(I \cup {x}) = Cardinality(I) + 1
      BY <2>1, FS_AddElement
    <3>3. QED
      BY <2>1, <2>3, <2>4, <2>5, <3>1, <3>2
  <2>6. ASSUME x \notin R PROVE WeightOf(a, m, C \cup {x}) = Cardinality((C \cup {x}) \cap R)
    <3>0. (C \cup {x}) \cap R = I
      BY <2>6
    <3> HIDE DEF T, I
    <3>1. Cardinality((C \cup {x}) \cap R) = Cardinality(I)
      BY <3>0
    <3>2. QED
      BY <2>1, <2>3, <2>4, <2>6, <3>1
  <2>7. QED
    BY <2>5, <2>6
<1> HIDE DEF T
<1>3. A \in T
  BY <1>1, <1>2, SetOfFiniteSets
<1>4. A \cap R = R
  OBVIOUS
<1>5. QED
  BY <1>3, <1>4 DEF T

-----------------------------------------------------------------------------
(***************************************************************************)
(* Pairing.                                                                *)
(***************************************************************************)

(* A room's places: each of its evaluators, as often as the capacity allows.  *)
Seats(room) == PlacedIn(room) \X (1..CapacityOf(room))

PairingTyped ==
    /\ roomCount \in RoomCounts
    /\ recruitRoom \in [Participants -> RoomNumbers]
    /\ DOMAIN placed \subseteq Assessors /\ placed \in [DOMAIN placed -> RoomNumbers]
    /\ scope \in 0..roomCount + 1 /\ layer \in 1..MaximumAssessors /\ tie \in Ties
    /\ pairings \subseteq [evaluator : Assessors, recruit : Participants, slot : 1..MaximumAssessors]

(* The flow of a layer gives each slot to at most one recruit of the room.    *)
MatchFits ==
    /\ DOMAIN match \subseteq InScope
    /\ match \in Injection(DOMAIN match, Slots)

(* The primary pairs of a room are an injection of its recruits into its      *)
(* places.                                                                    *)
SeatedBy(room, f) ==
    {p \in PairedIn(room) : p.slot = 1}
        = {[evaluator |-> f[r][1], recruit |-> r, slot |-> 1] : r \in RecruitsIn(room)}

(* No other injection of the recruits into the places seats fewer of them     *)
(* with an evaluator they have met.                                           *)
Met(room, f) == {r \in RecruitsIn(room) : <<f[r][1], r>> \in past}
FewestSeats(room, f) ==
    \A g \in Injection(RecruitsIn(room), Seats(room)) : Cardinality(Met(room, f)) <= Cardinality(Met(room, g))

HasSeats(room) ==
    \E f \in Injection(RecruitsIn(room), Seats(room)) :
        SeatedBy(room, f) /\ (RepeatsOutweigh(room) => FewestSeats(room, f))

SlotsDiffer(room) ==
    \A p, q \in PairedIn(room) : p.recruit = q.recruit /\ p.slot = q.slot => p = q
EvaluatorsDiffer(room) ==
    \A p, q \in PairedIn(room) : p.evaluator = q.evaluator => p = q
HasMore(room) == \E p \in PairedIn(room) : p.slot > 1

RoomIsPaired(room) ==
    /\ HasSeats(room)
    /\ SlotsDiffer(room)
    /\ HasMore(room) => EvaluatorsDiffer(room)

(* The flow is at each size the cheapest there is: what MinCostFlow keeps.    *)
Costs == [q \in Slots \X InScope |-> Cost(q[1], q[2])]
MatchIsCheapest == IsCheapest(Costs, match, InScope, Slots)

PairingInv ==
    /\ PairingTyped
    /\ scope = 0 => match = NoOne
    /\ MatchFits
    /\ MatchIsCheapest
    /\ \A p \in pairings : recruitRoom[p.recruit] <= scope
    /\ \A p \in PairedHere : p.slot < layer
    /\ layer > 1 => Staff # {} /\ RoomIsPaired(scope) /\ EvaluatorsDiffer(scope)
    /\ \A room \in 1..scope - 1 : PlacedIn(room) # {} => RoomIsPaired(room)

-----------------------------------------------------------------------------
LEMMA RoomsCounted == ASSUME PairingTyped PROVE roomCount \in Nat /\ roomCount >= 1 /\ RoomNumbers \subseteq Nat
<1>1. roomCount \in 1..Cardinality(Participants)
  BY PairingAssumption DEF PairingTyped
<1>2. Cardinality(Participants) \in Nat
  BY PairingAssumption, FS_CardinalityType
<1>3. QED
  BY <1>1, <1>2 DEF RoomNumbers

LEMMA RoomSets ==
    ASSUME PairingTyped, NEW room
    PROVE  /\ RecruitsIn(room) \subseteq Participants /\ IsFiniteSet(RecruitsIn(room))
           /\ Cardinality(RecruitsIn(room)) \in Nat
           /\ PlacedIn(room) \subseteq Assessors /\ IsFiniteSet(PlacedIn(room))
           /\ Cardinality(PlacedIn(room)) \in Nat
           /\ PlacedIn(room) # {} => Cardinality(PlacedIn(room)) # 0
<1>1. RecruitsIn(room) \subseteq Participants /\ PlacedIn(room) \subseteq Assessors
  BY DEF RecruitsIn, PlacedIn, PairingTyped
<1>2. IsFiniteSet(RecruitsIn(room)) /\ IsFiniteSet(PlacedIn(room))
  BY <1>1, PairingAssumption, FS_Subset
<1>3. QED
  BY <1>1, <1>2, FS_CardinalityType, FS_EmptySet

(* The places of a room suffice for its recruits.                             *)
LEMMA RoundedUp ==
    ASSUME NEW n \in Nat, NEW m \in Nat \ {0}
    PROVE  /\ (n + m - 1) \div m \in Nat
           /\ m * ((n + m - 1) \div m) >= n
           /\ n >= 1 /\ m >= n => (n + m - 1) \div m = 1
<1>1. n + m - 1 \in Nat
  OBVIOUS
<1> DEFINE k == (n + m - 1) \div m
           c == (n + m - 1) % m
<1>2. k \in Int /\ c \in 0..m - 1 /\ n + m - 1 = m * k + c
  BY <1>1
<1> HIDE DEF k, c
<1>3. k \in Nat
  <2> SUFFICES ASSUME k < 0 PROVE FALSE
    BY <1>2
  <2>1. m * k <= -m
    BY <1>2
  <2>2. QED
    BY <1>1, <1>2, <2>1
<1>4. m * k >= n
  BY <1>2
<1>5. n >= 1 /\ m >= n => k = 1
  <2> SUFFICES ASSUME n >= 1, m >= n PROVE k = 1
    OBVIOUS
  <2>1. n + m - 1 < 2 * m
    OBVIOUS
  <2>2. ~(k >= 2)
    <3> SUFFICES ASSUME k >= 2 PROVE FALSE
      OBVIOUS
    <3>1. m * k >= 2 * m
      BY <1>2
    <3>2. QED
      BY <1>2, <2>1, <3>1
  <2>3. k # 0
    BY <1>2
  <2>4. QED
    BY <1>3, <2>2, <2>3
<1>6. QED
  BY <1>3, <1>4, <1>5 DEF k

LEMMA SeatsSuffice ==
    ASSUME PairingTyped, NEW room, PlacedIn(room) # {}
    PROVE  /\ CapacityOf(room) \in Nat
           /\ IsFiniteSet(Seats(room)) /\ Cardinality(Seats(room)) >= Cardinality(RecruitsIn(room))
           /\ Cardinality(Seats(room)) \in Nat
           /\ /\ RecruitsIn(room) # {} /\ Cardinality(PlacedIn(room)) >= Cardinality(RecruitsIn(room))
              => CapacityOf(room) = 1
<1> DEFINE n == Cardinality(RecruitsIn(room))
           m == Cardinality(PlacedIn(room))
<1>1. n \in Nat /\ m \in Nat \ {0} /\ IsFiniteSet(PlacedIn(room)) /\ IsFiniteSet(RecruitsIn(room))
  BY RoomSets
<1>2. CapacityOf(room) = (n + m - 1) \div m
  BY DEF CapacityOf
<1>3. RecruitsIn(room) # {} => n # 0
  BY <1>1, FS_EmptySet
<1> HIDE DEF n, m
<1>4. /\ CapacityOf(room) \in Nat /\ m * CapacityOf(room) >= n
      /\ n >= 1 /\ m >= n => CapacityOf(room) = 1
  BY <1>1, <1>2, RoundedUp
<1>5. IsFiniteSet(1..CapacityOf(room)) /\ Cardinality(1..CapacityOf(room)) = CapacityOf(room)
  BY <1>4, FS_Interval
<1>6. IsFiniteSet(Seats(room)) /\ Cardinality(Seats(room)) = m * CapacityOf(room)
  BY <1>1, <1>5, FS_Product DEF Seats, m
<1>7. Cardinality(Seats(room)) \in Nat
  BY <1>6, FS_CardinalityType
<1>8. RecruitsIn(room) # {} /\ m >= n => CapacityOf(room) = 1
  BY <1>1, <1>3, <1>4
<1>9. QED
  BY <1>4, <1>6, <1>7, <1>8 DEF n, m

LEMMA PrimarySlots == layer = 1 /\ Staff # {} => Slots = Seats(scope)
  BY DEF Slots, Seats, Staff, Capacity

LEMMA MatchIsFinite ==
    ASSUME PairingTyped, MatchFits
    PROVE  IsFiniteSet(DOMAIN match) /\ Cardinality(DOMAIN match) \in Nat
<1>1. DOMAIN match \subseteq RecruitsIn(scope) /\ IsFiniteSet(RecruitsIn(scope))
  BY RoomSets DEF MatchFits, InScope
<1>2. QED
  BY <1>1, FS_Subset, FS_CardinalityType

LEMMA SlotsAre ==
    ASSUME NEW s \in Slots
    PROVE  /\ s[1] \in Staff
           /\ layer = 1 => s \in Seats(scope)
           /\ layer # 1 => s[1] \in Unpaired /\ s[2] = 1 /\ s = <<s[1], 1>>
<1>1. CASE layer = 1
  BY <1>1 DEF Slots, Seats, Staff, Capacity
<1>2. CASE layer # 1
  BY <1>2 DEF Slots, Unpaired
<1>3. QED
  BY <1>1, <1>2

(* An augmenting path gives one more recruit a slot, and takes none away.     *)
LEMMA AugmentedFits ==
    ASSUME PairingTyped, MatchFits, NEW m \in Augmented
    PROVE  DOMAIN m \subseteq InScope /\ m \in Injection(DOMAIN m, Slots)
<1>1. PICK slot \in Slots \ Range(match), p \in Paths : m = Shifted(slot, p)
  BY DEF Augmented
<1>2. PICK n \in Nat \ {0} : p \in [1..n -> InScope] /\ DOMAIN p = 1..n /\ Len(p) = n
  <2>1. PICK n \in 1..Cardinality(DOMAIN match) + 1 : p \in [1..n -> InScope]
    BY DEF Paths
  <2>2. n \in Nat \ {0}
    BY MatchIsFinite
  <2>3. QED
    BY <2>1, <2>2
<1>2a. IsInjective(p) /\ \A i \in 1..n : p[i] \in DOMAIN match <=> i < n
  BY <1>2 DEF Paths
<1>3. ASSUME NEW r \in Range(p), r # p[1]
      PROVE  \E i \in 2..n : p[i] = r /\ Predecessor(p, r) = p[i - 1] /\ Predecessor(p, r) \in DOMAIN match
  <2>1. PICK i \in 1..n : p[i] = r
    BY <1>2 DEF Range
  <2>2. \A j \in DOMAIN p : p[j] = r => j = i
    BY <1>2, <1>2a, <2>1 DEF IsInjective
  <2>3. (CHOOSE j \in DOMAIN p : p[j] = r) = i
    BY <1>2, <2>1, <2>2
  <2>4. i \in 2..n /\ i - 1 \in 1..n /\ i - 1 < n
    BY <1>2, <1>3, <2>1
  <2>5. QED
    BY <1>2, <1>2a, <2>1, <2>3, <2>4 DEF Predecessor
<1>4. /\ DOMAIN m = DOMAIN match \cup Range(p)
      /\ \A r \in DOMAIN m : r \notin Range(p) => m[r] = match[r] /\ r \in DOMAIN match
      /\ p[1] \in DOMAIN m /\ m[p[1]] = slot
      /\ \A r \in Range(p) : r # p[1] => m[r] = match[Predecessor(p, r)]
  <2>1. p[1] \in Range(p)
    BY <1>2 DEF Range
  <2>2. QED
    BY <1>1, <2>1 DEF Shifted
<1>5. /\ match \in [DOMAIN match -> Slots] /\ DOMAIN match \subseteq InScope
      /\ \A r, s \in DOMAIN match : match[r] = match[s] => r = s
  BY DEF MatchFits, Injection, IsInjective
<1>6. DOMAIN m \subseteq InScope
  BY <1>2, <1>4, <1>5 DEF Range
<1>7. \A r \in DOMAIN m : r = p[1] \/ (m[r] \in Slots /\ m[r] \in Range(match))
  <2> SUFFICES ASSUME NEW r \in DOMAIN m, r # p[1]
               PROVE  m[r] \in Slots /\ m[r] \in Range(match)
    OBVIOUS
  <2>1. CASE r \in Range(p)
    BY <1>3, <1>4, <1>5, <2>1 DEF Range
  <2>2. CASE r \notin Range(p)
    BY <1>4, <1>5, <2>2 DEF Range
  <2>3. QED
    BY <2>1, <2>2
<1>8. \A r \in DOMAIN m : m[r] \in Slots
  BY <1>1, <1>4, <1>7
<1>9. m \in [DOMAIN m -> Slots]
  <2>1. m = [r \in DOMAIN m |-> m[r]]
    BY <1>1, <1>4 DEF Shifted
  <2>2. QED
    BY <1>8, <2>1
<1>10. ASSUME NEW r \in DOMAIN m, NEW s \in DOMAIN m, m[r] = m[s], r # p[1], s # p[1]
       PROVE  r = s
  <2>1. CASE r \notin Range(p) /\ s \notin Range(p)
    BY <1>4, <1>5, <1>10, <2>1
  <2>2. ASSUME NEW x \in DOMAIN m, NEW y \in Range(p), x \notin Range(p), y # p[1], m[x] = m[y]
        PROVE  FALSE
    <3>1. Predecessor(p, y) \in Range(p) /\ Predecessor(p, y) \in DOMAIN match
      BY <1>2, <1>3, <2>2 DEF Range
    <3>2. match[x] = match[Predecessor(p, y)] /\ x \in DOMAIN match
      BY <1>4, <2>2
    <3>3. QED
      BY <1>5, <2>2, <3>1, <3>2
  <2>3. CASE r \in Range(p) /\ s \in Range(p)
    <3>1. PICK i \in 2..n : p[i] = r /\ Predecessor(p, r) = p[i - 1] /\ Predecessor(p, r) \in DOMAIN match
      BY <1>3, <1>10, <2>3
    <3>2. PICK j \in 2..n : p[j] = s /\ Predecessor(p, s) = p[j - 1] /\ Predecessor(p, s) \in DOMAIN match
      BY <1>3, <1>10, <2>3
    <3>3. p[i - 1] = p[j - 1]
      BY <1>4, <1>5, <1>10, <2>3, <3>1, <3>2
    <3>4. i - 1 \in DOMAIN p /\ j - 1 \in DOMAIN p
      BY <1>2
    <3>5. i - 1 = j - 1
      BY <1>2a, <3>3, <3>4 DEF IsInjective
    <3>6. QED
      BY <3>1, <3>2, <3>5
  <2>4. QED
    BY <1>10, <2>1, <2>2, <2>3
<1>11. \A r, s \in DOMAIN m : m[r] = m[s] => r = s
  BY <1>1, <1>4, <1>7, <1>10
<1>12. QED
  BY <1>6, <1>9, <1>11 DEF Injection, IsInjective

(* As long as a recruit of the first layer has no slot, there is a path.      *)
LEMMA PathExists ==
    ASSUME PairingTyped, MatchFits, layer = 1, Staff # {},
           Cardinality(DOMAIN match) < Cardinality(InScope)
    PROVE  Augmented # {}
<1>1. match \in [DOMAIN match -> Slots] /\ DOMAIN match \subseteq InScope /\ IsInjective(match)
  BY DEF MatchFits, Injection
<1>2. IsFiniteSet(DOMAIN match) /\ Cardinality(DOMAIN match) \in Nat
  BY MatchIsFinite
<1>3. PICK r \in InScope : r \notin DOMAIN match
  BY <1>1, <1>2
<1>4. PICK slot \in Slots : slot \notin Range(match)
  <2>1. Range(match) \subseteq Slots
    BY <1>1 DEF Range
  <2>2. match \in Surjection(DOMAIN match, Range(match))
    BY <1>1 DEF Surjection, Range
  <2>3. Cardinality(Range(match)) <= Cardinality(DOMAIN match) /\ IsFiniteSet(Range(match))
    BY <1>2, <2>2, FS_Surjection
  <2>4. Cardinality(Range(match)) \in Nat
    BY <2>3, FS_CardinalityType
  <2>5. Cardinality(Slots) >= Cardinality(InScope) /\ Cardinality(Slots) \in Nat
    BY PrimarySlots, SeatsSuffice DEF InScope, Staff
  <2>6. Cardinality(InScope) \in Nat
    BY RoomSets DEF InScope
  <2>7. Range(match) # Slots
    BY <1>2, <2>3, <2>4, <2>5, <2>6
  <2>8. QED
    BY <2>1, <2>7
<1> DEFINE p == [i \in 1..1 |-> r]
<1>5. /\ p \in [1..1 -> InScope] /\ IsInjective(p) /\ Len(p) = 1 /\ p[1] = r
      /\ \A i \in 1..Len(p) : p[i] \in DOMAIN match <=> i < Len(p)
  BY <1>3 DEF IsInjective
<1> HIDE DEF p
<1>6. 1 \in 1..Cardinality(DOMAIN match) + 1
  BY <1>2
<1>7. p \in Paths
  BY <1>5, <1>6 DEF Paths
<1>8. QED
  BY <1>4, <1>7 DEF Augmented

-----------------------------------------------------------------------------
(* The flow stays cheapest.                                                   *)

LEMMA PairsAreFinite == ASSUME PairingTyped PROVE IsFiniteSet(pairings)
<1> DEFINE Triples == (Assessors \X Participants) \X (1..MaximumAssessors)
           f == [p \in pairings |-> <<<<p.evaluator, p.recruit>>, p.slot>>]
<1>1. MaximumAssessors \in Nat /\ IsFiniteSet(Assessors) /\ IsFiniteSet(Participants)
  BY PairingAssumption
<1>2. IsFiniteSet(1..MaximumAssessors)
  BY <1>1, FS_Interval
<1>3. IsFiniteSet(Assessors \X Participants)
  BY <1>1, FS_Product
<1>4. IsFiniteSet(Triples)
  BY <1>2, <1>3, FS_Product
<1>5. \A p \in pairings : /\ p \in [evaluator : Assessors, recruit : Participants, slot : 1..MaximumAssessors]
                          /\ p = [evaluator |-> p.evaluator, recruit |-> p.recruit, slot |-> p.slot]
  BY DEF PairingTyped
<1>6. f \in [pairings -> Triples]
  BY <1>5
<1>7. \A p, q \in pairings : f[p] = f[q] => p = q
  BY <1>5
<1> HIDE DEF Triples, f
<1>8. f \in Injection(pairings, Triples)
  BY <1>6, <1>7 DEF Injection, IsInjective
<1>9. QED
  BY <1>4, <1>8, FS_Injection

LEMMA LargestTieIs == LargestTie \in Nat
  BY DEF LargestTie

LEMMA CostIsInteger ==
    ASSUME PairingTyped, NEW s \in Slots, NEW r \in InScope
    PROVE  /\ s[1] \in Assessors /\ r \in Participants
           /\ tie[<<s[1], r>>] \in Int /\ 0 <= tie[<<s[1], r>>] /\ tie[<<s[1], r>>] <= LargestTie
           /\ Cost(s, r) \in Int
<1>1. s[1] \in Staff /\ (layer = 1 => s \in Seats(scope))
  BY SlotsAre
<1>2. s[1] \in Assessors /\ r \in Participants
  BY <1>1, RoomSets DEF Staff, InScope
<1>3. tie \in [Assessors \X Participants -> 0..LargestTie]
  <2>1. Ties \subseteq [Assessors \X Participants -> 0..LargestTie]
    BY PairingAssumption
  <2>2. tie \in Ties
    BY DEF PairingTyped
  <2>3. QED
    BY <2>1, <2>2
<1>4. tie[<<s[1], r>>] \in Int /\ 0 <= tie[<<s[1], r>>] /\ tie[<<s[1], r>>] <= LargestTie
  BY <1>2, <1>3, LargestTieIs
<1>5. RolePriority[s[1]] \in Int /\ SecondPriority[s[1]] \in Int /\ PriorSeconds[r] \in Int
  BY <1>2, PairingAssumption
<1>6. Additional(r) \in Int
  <2>1. IsFiniteSet({p \in PairedHere : p.recruit = r /\ p.slot > 1})
    BY PairsAreFinite, FS_Subset DEF PairedHere, PairedIn
  <2>2. QED
    BY <2>1, FS_CardinalityType DEF Additional
<1>7. layer = 1 => PrimaryPrice(s) \in Int
  <2> SUFFICES ASSUME layer = 1 PROVE PrimaryPrice(s) \in Int
    OBVIOUS
  <2>1. s[2] \in 1..CapacityOf(scope) /\ CapacityOf(scope) \in Nat
    BY <1>1, SeatsSuffice DEF Seats, Staff
  <2>2. (s[2] - 1) * (s[2] - 1) \in Int
    BY <2>1
  <2> DEFINE load == (s[2] - 1) * (s[2] - 1)
  <2> HIDE DEF load
  <2>3. 20000 * load \in Int /\ 5000 * RolePriority[s[1]] \in Int
    BY <1>5, <2>2 DEF load
  <2>4. QED
    BY <2>3 DEF PrimaryPrice, load
<1>8. SecondaryPrice(s, r) \in Int
  BY <1>5, <1>6 DEF SecondaryPrice
<1>9. RepeatCost \in Int
  BY SMT DEF RepeatCost
<1>10. Cost(s, r) \in Int
  BY <1>4, <1>7, <1>8, <1>9, SMT DEF Cost
<1>11. QED
  BY <1>2, <1>4, <1>10

(* TotalCost adds up the costs of the flow.                                   *)
LEMMA TotalIsWeight ==
    ASSUME PairingTyped, NEW m, IsMatching(m, InScope, Slots)
    PROVE  TotalCost(m) = WeightOf(Costs, m, DOMAIN m)
<1>1. \A r \in DOMAIN m : m[r] \in Slots /\ r \in InScope
  BY DEF IsMatching, Injection
<1>2. \A r \in DOMAIN m : Costs[<<m[r], r>>] = Cost(m[r], r)
  BY <1>1 DEF Costs
<1>3. [r \in DOMAIN m |-> Cost(m[r], r)] = [r \in DOMAIN m |-> Costs[<<m[r], r>>]]
  BY <1>2
<1>4. DOMAIN [r \in DOMAIN m |-> Costs[<<m[r], r>>]] = DOMAIN m
  OBVIOUS
<1>5. QED
  BY <1>3, <1>4 DEF TotalCost, SumFunction, WeightOf

LEMMA CostsWeigh ==
    ASSUME PairingTyped
    PROVE  Weighs(Costs, Slots, InScope) /\ IsFiniteSet(InScope)
<1>1. \A s \in Slots, r \in InScope : Costs[<<s, r>>] = Cost(s, r)
  BY DEF Costs
<1>2. QED
  <2>1. \A s \in Slots, r \in InScope : Cost(s, r) \in Int
    BY CostIsInteger
  <2>2. Weighs(Costs, Slots, InScope)
    BY <1>1, <2>1 DEF Weighs
  <2>3. IsFiniteSet(InScope)
    BY RoomSets DEF InScope
  <2>4. QED
    BY <2>2, <2>3

(* An augmenting path adds one recruit to the flow.                           *)
LEMMA AugmentedCounts ==
    ASSUME PairingTyped, MatchFits, NEW m \in Augmented
    PROVE  Cardinality(DOMAIN m) = Cardinality(DOMAIN match) + 1
<1>1. PICK slot \in Slots \ Range(match), p \in Paths : m = Shifted(slot, p)
  BY DEF Augmented
<1>2. PICK n \in Nat \ {0} : p \in [1..n -> InScope] /\ DOMAIN p = 1..n /\ Len(p) = n
  <2>1. PICK n \in 1..Cardinality(DOMAIN match) + 1 : p \in [1..n -> InScope]
    BY DEF Paths
  <2>2. n \in Nat \ {0}
    BY MatchIsFinite
  <2>3. QED
    BY <2>1, <2>2
<1>3. \A i \in 1..n : p[i] \in DOMAIN match <=> i < n
  BY <1>2 DEF Paths
<1>4. n \in 1..n /\ p[n] \notin DOMAIN match
  BY <1>2, <1>3
<1>5. \A i \in 1..n : p[i] = p[n] \/ p[i] \in DOMAIN match
  <2> TAKE i \in 1..n
  <2>1. i = n \/ i < n
    BY <1>2
  <2>2. QED
    BY <1>3, <2>1
<1>6. DOMAIN m = DOMAIN match \cup {p[n]}
  <2>1. Range(p) \subseteq DOMAIN match \cup {p[n]} /\ p[n] \in Range(p)
    BY <1>2, <1>4, <1>5 DEF Range
  <2>2. DOMAIN m = DOMAIN match \cup Range(p)
    BY <1>1 DEF Shifted
  <2>3. QED
    BY <2>1, <2>2
<1>7. QED
  BY <1>4, <1>6, MatchIsFinite, FS_AddElement

(* The route along which a matching with one more recruit differs from the    *)
(* flow is one of the paths the flow can be augmented along.                  *)
LEMMA RouteIsPath ==
    ASSUME PairingTyped, MatchFits, NEW n, IsMatching(n, InScope, Slots),
           NEW slot, NEW p, NEW len, IsRoute(match, n, Slots, slot, p, len)
    PROVE  /\ Extended(match, n, Range(p)) \in Augmented
           /\ DOMAIN Extended(match, n, Range(p)) = DOMAIN match \cup Range(p)
<1>1. /\ slot \in Slots \ Range(match) /\ len \in Nat \ {0}
      /\ p \in [1..len -> SeatedElsewhere(match, n)] /\ \A i, j \in 1..len : p[i] = p[j] => i = j
      /\ n[p[1]] = slot
      /\ \A i \in 1..len : p[i] \in DOMAIN match <=> i < len
      /\ \A i \in 1..len - 1 : n[p[i + 1]] = match[p[i]]
  BY DEF IsRoute, Injection, IsInjective
<1>2. p \in [1..len -> InScope] /\ IsInjective(p) /\ DOMAIN p = 1..len /\ Len(p) = len
  <2>1. SeatedElsewhere(match, n) \subseteq InScope
    BY DEF SeatedElsewhere, IsMatching
  <2>2. p \in [1..len -> InScope] /\ DOMAIN p = 1..len
    BY <1>1, <2>1
  <2>3. p \in Seq(InScope) /\ Len(p) = len
    BY <1>1, <2>2
  <2>4. QED
    BY <1>1, <2>2, <2>3 DEF IsInjective
<1>3. len \in 1..Cardinality(DOMAIN match) + 1
  <2> DEFINE front == [i \in 1..len - 1 |-> p[i]]
  <2>1. \A i \in 1..len - 1 : i \in 1..len /\ i < len
    BY <1>1
  <2>2. front \in Injection(1..len - 1, DOMAIN match)
    BY <1>1, <2>1 DEF Injection, IsInjective
  <2>3. len - 1 \in Nat /\ Cardinality(1..len - 1) = len - 1
    BY <1>1, FS_Interval
  <2> HIDE DEF front
  <2>4. len - 1 <= Cardinality(DOMAIN match) /\ Cardinality(DOMAIN match) \in Nat
    BY <2>2, <2>3, MatchIsFinite, FS_Injection
  <2>5. QED
    BY <1>1, <2>4
<1>4. p \in Paths
  BY <1>1, <1>2, <1>3 DEF Paths
<1>5. ASSUME NEW r \in Range(p), r # p[1]
      PROVE  n[r] = match[Predecessor(p, r)]
  <2>1. PICK i \in 1..len : p[i] = r
    BY <1>2 DEF Range
  <2>2. (CHOOSE j \in DOMAIN p : p[j] = r) = i
    BY <1>1, <1>2, <2>1
  <2>3. i # 1 /\ i - 1 \in 1..len - 1 /\ (i - 1) + 1 = i
    BY <1>1, <1>5, <2>1
  <2>4. n[p[(i - 1) + 1]] = match[p[i - 1]]
    BY <1>1, <2>3
  <2>5. QED
    BY <2>1, <2>2, <2>3, <2>4 DEF Predecessor
<1>6. p[1] \in Range(p)
  BY <1>1, <1>2 DEF Range
<1>7. \A r \in DOMAIN match \cup Range(p) : Shifted(slot, p)[r] = Extended(match, n, Range(p))[r]
  BY <1>1, <1>5, <1>6 DEF Shifted, Extended
<1>8. Shifted(slot, p) = Extended(match, n, Range(p))
  BY <1>7 DEF Shifted, Extended
<1>9. Shifted(slot, p) \in Augmented
  BY <1>1, <1>4 DEF Augmented
<1>10. QED
  BY <1>8, <1>9 DEF Extended

(* Along a cheapest path a cheapest flow becomes the cheapest with one more   *)
(* recruit: the invariant of MinCostFlow.                                     *)
LEMMA AugmentedIsCheapest ==
    ASSUME PairingTyped, MatchFits, MatchIsCheapest, NEW m \in Augmented,
           \A n \in Augmented : TotalCost(m) <= TotalCost(n)
    PROVE  IsCheapest(Costs, m, InScope, Slots)
<1>1. Weighs(Costs, Slots, InScope) /\ IsFiniteSet(InScope)
  BY CostsWeigh
<1>2. \A k \in Augmented : IsMatching(k, InScope, Slots)
  BY AugmentedFits DEF IsMatching
<1>3. IsMatching(match, InScope, Slots) /\ IsCheapest(Costs, match, InScope, Slots)
  BY DEF MatchFits, IsMatching, MatchIsCheapest
<1> SUFFICES ASSUME NEW k, IsMatching(k, InScope, Slots), Cardinality(DOMAIN k) = Cardinality(DOMAIN m)
             PROVE  WeightOf(Costs, m, DOMAIN m) <= WeightOf(Costs, k, DOMAIN k)
  BY DEF IsCheapest
<1>4. Cardinality(DOMAIN k) = Cardinality(DOMAIN match) + 1
  BY AugmentedCounts
<1>5. PICK slot, p, len :
         /\ IsRoute(match, k, Slots, slot, p, len)
         /\ WeightOf(Costs, Extended(match, k, Range(p)), DOMAIN match \cup Range(p)) <= WeightOf(Costs, k, DOMAIN k)
  BY <1>1, <1>3, <1>4, CheapRouteExists
<1> DEFINE x == Extended(match, k, Range(p))
<1>6. x \in Augmented /\ DOMAIN x = DOMAIN match \cup Range(p)
  BY <1>5, RouteIsPath
<1> HIDE DEF x
<1>7. WeightOf(Costs, x, DOMAIN x) <= WeightOf(Costs, k, DOMAIN k)
  BY <1>5, <1>6 DEF x
<1>8. TotalCost(m) = WeightOf(Costs, m, DOMAIN m) /\ TotalCost(x) = WeightOf(Costs, x, DOMAIN x)
  BY <1>2, <1>6, TotalIsWeight
<1>9. WeightOf(Costs, m, DOMAIN m) <= WeightOf(Costs, x, DOMAIN x)
  BY <1>6, <1>8
<1>10. /\ WeightOf(Costs, m, DOMAIN m) \in Int /\ WeightOf(Costs, x, DOMAIN x) \in Int
       /\ WeightOf(Costs, k, DOMAIN k) \in Int
  BY <1>1, <1>2, <1>6, MatchingWeight
<1>11. QED
  BY <1>7, <1>9, <1>10

(* Nobody is the cheapest flow of nobody.                                     *)
LEMMA NoOneIsCheapest ==
    ASSUME NEW w, NEW D, IsFiniteSet(D), NEW W
    PROVE  IsCheapest(w, NoOne, D, W)
<1>1. DOMAIN NoOne = {} /\ Cardinality(DOMAIN NoOne) = 0
  BY FS_EmptySet DEF NoOne
<1>2. \A k : IsMatching(k, D, W) /\ Cardinality(DOMAIN k) = 0 => DOMAIN k = {}
  BY FS_Subset, FS_EmptySet DEF IsMatching
<1>3. \A k : WeightOf(w, k, {}) = 0
  BY WeightOfEmpty
<1>4. QED
  BY <1>1, <1>2, <1>3 DEF IsCheapest

-----------------------------------------------------------------------------
(* The cheapest first layer repeats the fewest pairs.                         *)

(* A number of evaluators: a square does not pass the square of its bound.    *)
LEMMA SquaresGrow ==
    ASSUME NEW x \in Nat, NEW y \in Nat, x <= y
    PROVE  x * x \in Nat /\ y * y \in Nat /\ x * x <= y * y
<1>1. x * x <= x * y
  OBVIOUS
<1>2. x * y <= y * y
  OBVIOUS
<1>3. QED
  BY <1>1, <1>2

(* The cost of a primary pair: a repeat, the price of the place, and a tie;   *)
(* where a repeat outweighs the rest, price and ties stay below it.           *)
LEMMA PrimaryCosts ==
    ASSUME PairingTyped, layer = 1, Staff # {}, RepeatsOutweigh(scope)
    PROVE  \E a, g, c, G :
              /\ IsCost(Costs, RepeatCost, a, g, c, Slots, InScope, G, LargestTie)
              /\ G + LargestTie * Cardinality(InScope) < RepeatCost
              /\ \A s \in Slots, r \in InScope : a[<<s, r>>] = IF Repeated(s[1], r) THEN 1 ELSE 0
<1> DEFINE a == [q \in Slots \X InScope |-> IF Repeated(q[1][1], q[2]) THEN 1 ELSE 0]
           g == [s \in Slots |-> PrimaryPrice(s)]
           c == [q \in Slots \X InScope |-> tie[<<q[1][1], q[2]>>]]
           all == LargestTie * Cardinality(InScope)
           G == RepeatCost - 1 - all
           extra == CapacityOf(scope) - 1
<1>1. RepeatCost \in Nat
  BY SMT DEF RepeatCost
<1>2. Cardinality(InScope) \in Nat /\ all \in Nat /\ LargestTie \in Nat
  <2>1. Cardinality(InScope) \in Nat /\ LargestTie \in Nat
    BY RoomSets, LargestTieIs DEF InScope
  <2>2. QED
    BY <2>1
<1>3. \A e \in Staff : RolePriority[e] \in Nat
  BY RoomSets, PairingAssumption DEF Staff
<1> DEFINE square == extra * extra
<1>4. \A e \in Staff : 5000 * RolePriority[e] + 20000 * square + all < RepeatCost
  BY DEF RepeatsOutweigh, Staff, InScope
<1>5. \A s \in Slots : s[1] \in Staff /\ s[2] \in 1..CapacityOf(scope) /\ CapacityOf(scope) \in Nat
  BY SlotsAre, SeatsSuffice DEF Seats, Staff
<1>6. ASSUME NEW s \in Slots
      PROVE  g[s] \in Int /\ 0 <= g[s] /\ g[s] <= G
  <2> DEFINE load == s[2] - 1
  <2>1. load \in Nat /\ extra \in Nat /\ load <= extra
    BY <1>5
  <2>2. load * load \in Nat /\ square \in Nat /\ load * load <= square
    <3> HIDE DEF load, extra
    <3>1. QED
      BY <2>1, SquaresGrow
  <2> DEFINE held == load * load
  <2>3. g[s] = 5000 * RolePriority[s[1]] + 20000 * held
    BY DEF PrimaryPrice
  <2>4. RolePriority[s[1]] \in Nat /\ 5000 * RolePriority[s[1]] + 20000 * square + all < RepeatCost
    BY <1>3, <1>4, <1>5
  <2> HIDE DEF g, held, square, all, load
  <2>5. held \in Nat /\ square \in Nat /\ held <= square
    BY <2>2 DEF held
  <2>6. QED
    BY <1>1, <1>2, <2>3, <2>4, <2>5, SMT
<1>7. G \in Nat /\ G + all < RepeatCost
  <2>1. PICK e \in Staff : TRUE
    OBVIOUS
  <2>2. CapacityOf(scope) \in Nat
    BY SeatsSuffice DEF Staff
  <2>3. square \in Nat
    <3>1. extra \in Nat \/ extra = -1
      BY <2>2
    <3>2. extra \in Nat => extra * extra \in Nat
      OBVIOUS
    <3>3. extra = -1 => extra * extra \in Nat
      OBVIOUS
    <3>4. QED
      BY <3>1, <3>2, <3>3
  <2> HIDE DEF square, all
  <2>4. RolePriority[e] \in Nat /\ 5000 * RolePriority[e] + 20000 * square + all < RepeatCost
    BY <1>3, <1>4
  <2>5. QED
    BY <1>1, <1>2, <2>3, <2>4, SMT
<1>8. ASSUME NEW s \in Slots, NEW r \in InScope
      PROVE  /\ a[<<s, r>>] = IF Repeated(s[1], r) THEN 1 ELSE 0
             /\ g[s] = PrimaryPrice(s)
             /\ c[<<s, r>>] = tie[<<s[1], r>>]
             /\ Costs[<<s, r>>] = Cost(s, r)
  BY DEF Costs
<1> HIDE DEF a, g, c, G, all
<1>9. ASSUME NEW s \in Slots, NEW r \in InScope
      PROVE  /\ a[<<s, r>>] \in Int
             /\ c[<<s, r>>] \in Int /\ 0 <= c[<<s, r>>] /\ c[<<s, r>>] <= LargestTie
             /\ Costs[<<s, r>>] = RepeatCost * a[<<s, r>>] + g[s] + c[<<s, r>>]
  <2>1. a[<<s, r>>] = IF Repeated(s[1], r) THEN 1 ELSE 0
    BY <1>8
  <2>2. c[<<s, r>>] \in Int /\ 0 <= c[<<s, r>>] /\ c[<<s, r>>] <= LargestTie
    BY <1>8, CostIsInteger
  <2>3. Costs[<<s, r>>] = (IF Repeated(s[1], r) THEN RepeatCost ELSE 0) + g[s] + c[<<s, r>>]
    BY <1>8 DEF Cost
  <2>4. g[s] \in Int
    BY <1>6
  <2>5. Costs[<<s, r>>] = RepeatCost * a[<<s, r>>] + g[s] + c[<<s, r>>]
    BY <1>1, <2>1, <2>2, <2>3, <2>4
  <2>6. QED
    BY <2>1, <2>2, <2>5
<1>10. IsCost(Costs, RepeatCost, a, g, c, Slots, InScope, G, LargestTie)
  <2>1. \A s \in Slots : g[s] \in Int /\ 0 <= g[s] /\ g[s] <= G
    BY <1>6
  <2>2. \A s \in Slots, r \in InScope :
          /\ a[<<s, r>>] \in Int
          /\ c[<<s, r>>] \in Int /\ 0 <= c[<<s, r>>] /\ c[<<s, r>>] <= LargestTie
          /\ Costs[<<s, r>>] = RepeatCost * a[<<s, r>>] + g[s] + c[<<s, r>>]
    BY <1>9
  <2>3. QED
    BY <1>1, <1>2, <1>7, <2>1, <2>2 DEF IsCost
<1>11. G + LargestTie * Cardinality(InScope) < RepeatCost
  BY <1>7 DEF all
<1>12. \A s \in Slots, r \in InScope : a[<<s, r>>] = IF Repeated(s[1], r) THEN 1 ELSE 0
  BY <1>8
<1>13. QED
  BY <1>10, <1>11, <1>12

LEMMA FirstLayerIsFewest ==
    ASSUME PairingTyped, MatchFits, MatchIsCheapest, layer = 1, Staff # {}, DOMAIN match = InScope,
           RepeatsOutweigh(scope)
    PROVE  FewestSeats(scope, match)
<1> DEFINE D == InScope  W == Slots
<1>1. /\ D = RecruitsIn(scope) /\ W = Seats(scope) /\ IsFiniteSet(D)
      /\ match \in Injection(D, W) /\ IsCheapest(Costs, match, D, W)
  BY PrimarySlots, CostsWeigh DEF InScope, MatchFits, MatchIsCheapest
<1>2. PICK a, g, c, G :
         /\ IsCost(Costs, RepeatCost, a, g, c, W, D, G, LargestTie)
         /\ G + LargestTie * Cardinality(D) < RepeatCost
         /\ \A s \in W, r \in D : a[<<s, r>>] = IF Repeated(s[1], r) THEN 1 ELSE 0
  BY PrimaryCosts
<1> HIDE DEF D, W
<1>3. \A k \in Injection(D, W) : WeightOf(Costs, match, D) <= WeightOf(Costs, k, D)
  <2> TAKE k \in Injection(D, W)
  <2>1. DOMAIN k = D /\ DOMAIN match = D /\ IsMatching(k, D, W)
    BY <1>1 DEF Injection, IsMatching
  <2>2. QED
    BY <1>1, <2>1 DEF IsCheapest
<1>4. ASSUME NEW n \in Injection(D, W)
      PROVE  WeightOf(a, n, D) = Cardinality(Met(scope, n))
  <2>1. \A r \in D : n[r] \in W
    BY DEF Injection
  <2>2. Met(scope, n) \in SUBSET D
    BY <1>1 DEF Met
  <2>3. \A r \in D : a[<<n[r], r>>] = IF r \in Met(scope, n) THEN 1 ELSE 0
    BY <1>1, <1>2, <2>1 DEF Met, Repeated
  <2>4. QED
    BY <1>1, <2>2, <2>3, WeightCounts
<1>5. \A n \in Injection(D, W) : WeightOf(a, match, D) <= WeightOf(a, n, D)
  BY <1>1, <1>2, <1>3, CheapestCountsFewest
<1>6. \A n \in Injection(D, W) : Cardinality(Met(scope, match)) <= Cardinality(Met(scope, n))
  BY <1>1, <1>4, <1>5
<1>7. QED
  BY <1>1, <1>6 DEF FewestSeats

-----------------------------------------------------------------------------
(* Any sharing of the recruits within the capacity can be seated.             *)
LEMMA SharingIsSeated ==
    ASSUME PairingTyped, NEW room, PlacedIn(room) # {},
           NEW h \in [RecruitsIn(room) -> PlacedIn(room)], WithinCapacity(h, room)
    PROVE  \E g \in Injection(RecruitsIn(room), Seats(room)) : \A r \in RecruitsIn(room) : g[r][1] = h[r]
<1> DEFINE R == RecruitsIn(room)  cap == CapacityOf(room)
           Of(e) == {r \in R : h[r] = e}
           num == [e \in PlacedIn(room) |-> CHOOSE b : b \in Injection(Of(e), 1..cap)]
           g == [r \in R |-> <<h[r], num[h[r]][r]>>]
<1>1. IsFiniteSet(R) /\ cap \in Nat
  BY RoomSets, SeatsSuffice
<1>2. \A e \in PlacedIn(room) : num[e] \in Injection(Of(e), 1..cap)
  <2> TAKE e \in PlacedIn(room)
  <2>1. IsFiniteSet(Of(e)) /\ Cardinality(Of(e)) <= cap
    BY <1>1, FS_Subset DEF WithinCapacity
  <2>2. num[e] = CHOOSE b : b \in Injection(Of(e), 1..cap)
    OBVIOUS
  <2> DEFINE S == Of(e)
  <2> HIDE DEF Of, num, cap, S
  <2>3. Cardinality(S) \in Nat /\ ExistsBijection(1..Cardinality(S), S)
    BY <2>1, FS_CardinalityType DEF S
  <2>4. ExistsBijection(S, 1..Cardinality(S))
    BY <2>3, Fun_ExistsBijSymmetric
  <2>5. PICK b : b \in Injection(S, 1..Cardinality(S))
    BY <2>4 DEF ExistsBijection, Bijection
  <2>6. 1..Cardinality(S) \subseteq 1..cap
    BY <1>1, <2>1, <2>3 DEF S
  <2>7. b \in Injection(S, 1..cap)
    BY <2>5, <2>6 DEF Injection
  <2>8. QED
    BY <2>2, <2>7 DEF S
<1> HIDE DEF num, cap
<1>3. ASSUME NEW r \in R
      PROVE  h[r] \in PlacedIn(room) /\ r \in Of(h[r]) /\ num[h[r]][r] \in 1..cap
  <2>1. h[r] \in PlacedIn(room) /\ r \in Of(h[r])
    OBVIOUS
  <2> HIDE DEF Of
  <2>2. QED
    BY <1>2, <2>1 DEF Injection
<1>4. g \in [R -> Seats(room)]
  BY <1>3 DEF Seats, cap
<1>5. \A r, s \in R : g[r] = g[s] => r = s
  <2> SUFFICES ASSUME NEW r \in R, NEW s \in R, g[r] = g[s] PROVE r = s
    OBVIOUS
  <2>1. h[r] = h[s] /\ num[h[r]][r] = num[h[s]][s]
    OBVIOUS
  <2>2. r \in Of(h[r]) /\ s \in Of(h[r]) /\ h[r] \in PlacedIn(room)
    BY <1>3, <2>1
  <2> HIDE DEF Of, g
  <2>3. QED
    BY <1>2, <2>1, <2>2 DEF Injection, IsInjective
<1>6. \A r \in R : g[r][1] = h[r]
  OBVIOUS
<1> HIDE DEF g
<1>7. g \in Injection(R, Seats(room))
  BY <1>4, <1>5 DEF Injection, IsInjective
<1>8. QED
  BY <1>6, <1>7

-----------------------------------------------------------------------------
(* What a layer adds.                                                         *)
AddedByLayer == {[evaluator |-> match[r][1], recruit |-> r, slot |-> layer] : r \in DOMAIN match}

(* What was paired before, outside this room and inside it, stays.            *)
LEMMA OtherRoomsKept ==
    ASSUME MatchFits, pairings' = pairings \cup AddedByLayer, UNCHANGED <<recruitRoom, placed>>,
           NEW room, room # scope
    PROVE  PairedIn(room)' = PairedIn(room) /\ RecruitsIn(room)' = RecruitsIn(room)
           /\ PlacedIn(room)' = PlacedIn(room)
<1>1. RecruitsIn(room)' = RecruitsIn(room) /\ PlacedIn(room)' = PlacedIn(room)
  BY DEF RecruitsIn, PlacedIn
<1>2. \A p \in AddedByLayer : p.recruit \notin RecruitsIn(room)
  BY DEF AddedByLayer, MatchFits, InScope, RecruitsIn
<1>3. QED
  BY <1>1, <1>2 DEF PairedIn

LEMMA ThisRoomGains ==
    ASSUME MatchFits, pairings' = pairings \cup AddedByLayer, UNCHANGED <<recruitRoom, placed>>
    PROVE  /\ {p \in pairings' : p.recruit \in RecruitsIn(scope)} = PairedHere \cup AddedByLayer
           /\ RecruitsIn(scope)' = {r \in Participants : recruitRoom[r] = scope'}
<1>1. \A p \in AddedByLayer : p.recruit \in RecruitsIn(scope)
  BY DEF AddedByLayer, MatchFits, InScope
<1>2. QED
  BY <1>1 DEF PairedHere, PairedIn, RecruitsIn

(* A first layer that cannot be extended gives every recruit a primary        *)
(* evaluator.                                                                 *)
LEMMA FirstLayerIsFull ==
    ASSUME PairingTyped, MatchFits, layer = 1, Staff # {},
           Cardinality(DOMAIN match) = Requested \/ Augmented = {}
    PROVE  DOMAIN match = InScope
<1>1. DOMAIN match \subseteq InScope /\ IsFiniteSet(InScope) /\ Cardinality(InScope) \in Nat
  BY RoomSets DEF MatchFits, InScope
<1>2. Cardinality(DOMAIN match) <= Cardinality(InScope) /\ Cardinality(DOMAIN match) \in Nat
  BY <1>1, FS_Subset, MatchIsFinite
<1>3. Requested = Cardinality(InScope)
  BY DEF Requested
<1>4. Cardinality(DOMAIN match) = Cardinality(InScope)
  BY <1>1, <1>2, <1>3, PathExists
<1>5. QED
  BY <1>1, <1>4, FS_Subset

(* The pairs of this room, and of the flow that is added to them.             *)
LEMMA AddedPairs ==
    ASSUME MatchFits, NEW r \in DOMAIN match
    PROVE  /\ [evaluator |-> match[r][1], recruit |-> r, slot |-> layer] \in AddedByLayer
           /\ match[r] \in Slots
  BY DEF AddedByLayer, MatchFits, Injection

LEMMA AddedTyped ==
    ASSUME PairingTyped, MatchFits
    PROVE  AddedByLayer \subseteq [evaluator : Assessors, recruit : Participants, slot : 1..MaximumAssessors]
<1> SUFFICES ASSUME NEW r \in DOMAIN match
             PROVE  match[r][1] \in Assessors /\ r \in Participants /\ layer \in 1..MaximumAssessors
  BY DEF AddedByLayer
<1>1. match[r][1] \in Staff
  BY AddedPairs, SlotsAre
<1>2. QED
  BY <1>1, RoomSets DEF Staff, PairingTyped, MatchFits, InScope

(* Adding a layer keeps the slots of each recruit apart, and evaluators apart *)
(* as long as nobody is loaded twice.                                         *)
LEMMA LayerKeepsApart ==
    ASSUME PairingTyped, MatchFits, \A p \in PairedHere : p.slot < layer,
           NEW p \in PairedHere \cup AddedByLayer, NEW q \in PairedHere \cup AddedByLayer
    PROVE  /\ /\ SlotsDiffer(scope) \/ layer = 1
              /\ p.recruit = q.recruit /\ p.slot = q.slot
              => p = q
           /\ /\ (layer = 1 /\ CapacityOf(scope) = 1) \/ (layer # 1 /\ EvaluatorsDiffer(scope))
              /\ p.evaluator = q.evaluator
              => p = q
<1>1. layer \in Nat /\ layer >= 1 /\ \A x \in PairedHere : x.slot \in Nat /\ x.slot >= 1
  <2>1. layer \in 1..MaximumAssessors /\ \A x \in PairedHere : x.slot \in 1..MaximumAssessors
    BY DEF PairingTyped, PairedHere, PairedIn
  <2>2. MaximumAssessors \in Nat
    BY PairingAssumption
  <2>3. QED
    BY <2>1, <2>2
<1>2. layer = 1 => PairedHere = {}
  BY <1>1
<1>3. \A x \in AddedByLayer : x.slot = layer
  BY DEF AddedByLayer
<1>4. ASSUME NEW x \in AddedByLayer, NEW y \in PairedHere
      PROVE  x.slot # y.slot /\ (layer # 1 => x.evaluator # y.evaluator)
  <2>1. PICK r \in DOMAIN match : x = [evaluator |-> match[r][1], recruit |-> r, slot |-> layer]
    BY DEF AddedByLayer
  <2>2. layer # 1 => match[r][1] \in Unpaired
    BY AddedPairs, SlotsAre
  <2>3. x.slot = layer /\ x.evaluator = match[r][1]
    BY <2>1
  <2>4. y.slot # layer
    BY <1>1
  <2>5. QED
    BY <2>2, <2>3, <2>4 DEF Unpaired
<1>5. ASSUME NEW x \in AddedByLayer, NEW y \in AddedByLayer
      PROVE  /\ x.recruit = y.recruit => x = y
             /\ /\ layer = 1 => CapacityOf(scope) = 1
                /\ x.evaluator = y.evaluator
                => x = y
  <2>1. PICK r \in DOMAIN match : x = [evaluator |-> match[r][1], recruit |-> r, slot |-> layer]
    BY DEF AddedByLayer
  <2>2. PICK s \in DOMAIN match : y = [evaluator |-> match[s][1], recruit |-> s, slot |-> layer]
    BY DEF AddedByLayer
  <2>3. x.recruit = r /\ y.recruit = s /\ x.evaluator = match[r][1] /\ y.evaluator = match[s][1]
    BY <2>1, <2>2
  <2>4. match[r] = match[s] => r = s
    BY DEF MatchFits, Injection, IsInjective
  <2>5. ASSUME layer = 1 => CapacityOf(scope) = 1, match[r][1] = match[s][1]
        PROVE  match[r] = match[s]
    <3>1. match[r] \in Slots /\ match[s] \in Slots
      BY AddedPairs
    <3>2. CASE layer = 1
      BY <2>5, <3>1, <3>2, SlotsAre DEF Seats
    <3>3. CASE layer # 1
      BY <2>5, <3>1, <3>3, SlotsAre
    <3>4. QED
      BY <3>2, <3>3
  <2>6. QED
    BY <2>1, <2>2, <2>3, <2>4, <2>5
<1>6. QED
  BY <1>2, <1>3, <1>4, <1>5 DEF SlotsDiffer, EvaluatorsDiffer, PairedHere

(* The first layer seats every recruit; the later ones leave them there.      *)
LEMMA LayerSeats ==
    ASSUME PairingTyped, MatchFits, MatchIsCheapest, \A p \in PairedHere : p.slot < layer, Staff # {},
           Cardinality(DOMAIN match) = Requested \/ Augmented = {},
           layer > 1 => HasSeats(scope)
    PROVE  \E f \in Injection(RecruitsIn(scope), Seats(scope)) :
              /\ {p \in PairedHere \cup AddedByLayer : p.slot = 1}
                   = {[evaluator |-> f[r][1], recruit |-> r, slot |-> 1] : r \in RecruitsIn(scope)}
              /\ RepeatsOutweigh(scope) => FewestSeats(scope, f)
<1>1. layer \in Nat /\ layer >= 1 /\ \A x \in PairedHere : x.slot \in Nat /\ x.slot >= 1
  <2>1. layer \in 1..MaximumAssessors /\ \A x \in PairedHere : x.slot \in 1..MaximumAssessors
    BY DEF PairingTyped, PairedHere, PairedIn
  <2>2. MaximumAssessors \in Nat
    BY PairingAssumption
  <2>3. QED
    BY <2>1, <2>2
<1>2. \A x \in AddedByLayer : x.slot = layer
  BY DEF AddedByLayer
<1>3. CASE layer = 1
  <2>1. DOMAIN match = RecruitsIn(scope)
    BY <1>3, FirstLayerIsFull DEF InScope
  <2>2. match \in Injection(RecruitsIn(scope), Seats(scope))
    BY <1>3, <2>1, PrimarySlots DEF MatchFits
  <2>3. PairedHere = {} /\ {p \in PairedHere \cup AddedByLayer : p.slot = 1} = AddedByLayer
    BY <1>1, <1>2, <1>3
  <2>4. AddedByLayer = {[evaluator |-> match[r][1], recruit |-> r, slot |-> 1] : r \in RecruitsIn(scope)}
    BY <1>3, <2>1 DEF AddedByLayer
  <2>5. RepeatsOutweigh(scope) => FewestSeats(scope, match)
    BY <1>3, <2>1, FirstLayerIsFewest DEF InScope
  <2>6. QED
    BY <2>2, <2>3, <2>4, <2>5
<1>4. CASE layer > 1
  <2>1. PICK f \in Injection(RecruitsIn(scope), Seats(scope)) :
           SeatedBy(scope, f) /\ (RepeatsOutweigh(scope) => FewestSeats(scope, f))
    BY <1>4 DEF HasSeats
  <2>2. {p \in PairedHere \cup AddedByLayer : p.slot = 1} = {p \in PairedHere : p.slot = 1}
    BY <1>2, <1>4
  <2>3. QED
    BY <2>1, <2>2 DEF SeatedBy, PairedHere
<1>5. QED
  BY <1>1, <1>3, <1>4

LEMMA FinishLayerKeepsInv == ASSUME PairingInv, FinishLayer PROVE PairingInv'
<1>1. /\ PairingTyped /\ MatchFits /\ MatchIsCheapest /\ \A p \in PairedHere : p.slot < layer
      /\ \A p \in pairings : recruitRoom[p.recruit] <= scope
  BY DEF PairingInv
<1>2. /\ scope \in RoomNumbers /\ pairings' = pairings \cup AddedByLayer /\ match' = NoOne
      /\ Cardinality(DOMAIN match) = Requested \/ Augmented = {}
      /\ UNCHANGED <<roomCount, recruitRoom, fixedRoom, past, placed>> /\ tie' \in Ties
      /\ \/ MoreLayers /\ layer' = layer + 1 /\ scope' = scope
         \/ ~MoreLayers /\ layer' = 1 /\ scope' = scope + 1
  BY DEF FinishLayer, AddedByLayer
<1>3. /\ layer \in Nat /\ layer >= 1 /\ scope \in Nat /\ scope >= 1 /\ roomCount \in Nat /\ scope <= roomCount
      /\ MaximumAssessors \in Nat /\ layer <= MaximumAssessors /\ MaximumAssessors >= 1
  BY <1>1, <1>2, RoomsCounted, PairingAssumption DEF PairingTyped, RoomNumbers
<1>4. MoreLayers => layer < MaximumAssessors /\ Cardinality(Staff) >= Cardinality(InScope) /\ Staff # {} /\ InScope # {}
  <2>1. SUFFICES ASSUME MoreLayers
                 PROVE  layer < MaximumAssessors /\ Cardinality(Staff) >= Cardinality(InScope)
                        /\ Staff # {} /\ InScope # {}
    OBVIOUS
  <2>2. layer < MaximumAssessors /\ ~(Cardinality(Staff) < Cardinality(InScope)) /\ Staff # {} /\ match # NoOne
    BY <2>1 DEF MoreLayers, Shortage
  <2>3. Cardinality(Staff) \in Nat /\ Cardinality(InScope) \in Nat
    BY <1>1, RoomSets DEF Staff, InScope
  <2>4. InScope # {}
    <3>1. SUFFICES ASSUME DOMAIN match = {}
                   PROVE  match = NoOne
      BY <1>1, <2>2 DEF MatchFits
    <3>2. match = [r \in DOMAIN match |-> match[r]]
      BY <1>1 DEF MatchFits, Injection
    <3>3. QED
      BY <3>1, <3>2 DEF NoOne
  <2>5. QED
    BY <2>2, <2>3, <2>4
<1>5. PairingTyped'
  <2>1. RoomNumbers' = RoomNumbers
    BY <1>2 DEF RoomNumbers
  <2>2. scope' \in 0..roomCount + 1 /\ layer' \in 1..MaximumAssessors
    BY <1>2, <1>3, <1>4
  <2>3. pairings' \subseteq [evaluator : Assessors, recruit : Participants, slot : 1..MaximumAssessors]
    BY <1>1, <1>2, AddedTyped DEF PairingTyped
  <2>4. QED
    BY <1>1, <1>2, <2>1, <2>2, <2>3 DEF PairingTyped
<1>6. MatchFits' /\ (scope' = 0 => match' = NoOne)
  <2>1. DOMAIN NoOne = {} /\ NoOne \in [{} -> Slots']
    BY DEF NoOne
  <2>2. QED
    BY <1>2, <2>1 DEF MatchFits, Injection, IsInjective
<1>6a. MatchIsCheapest'
  <2>1. IsFiniteSet(InScope')
    <3>1. InScope' \subseteq Participants
      BY DEF InScope, RecruitsIn
    <3>2. QED
      BY <3>1, PairingAssumption, FS_Subset
  <2> DEFINE w == Costs'  D == InScope'  W == Slots'
  <2> HIDE DEF w, D, W
  <2>2. IsCheapest(w, NoOne, D, W)
    BY <2>1, NoOneIsCheapest DEF D
  <2>3. IsCheapest(Costs', match', InScope', Slots')
    BY <1>2, <2>2 DEF w, D, W
  <2>4. QED
    BY <2>3 DEF MatchIsCheapest, IsCheapest
<1>7. \A p \in pairings' : recruitRoom'[p.recruit] <= scope
  <2>1. \A p \in AddedByLayer : recruitRoom[p.recruit] = scope
    BY <1>1 DEF AddedByLayer, MatchFits, InScope, RecruitsIn
  <2>2. QED
    BY <1>1, <1>2, <1>3, <2>1
<1>8. \A p \in pairings' : recruitRoom'[p.recruit] <= scope'
  <2>1. \A p \in pairings' : recruitRoom'[p.recruit] \in Nat
    <3>1. recruitRoom' \in [Participants -> RoomNumbers] /\ RoomNumbers \subseteq Nat
      BY <1>1, <1>2, RoomsCounted DEF PairingTyped
    <3>2. QED
      BY <1>5, <3>1 DEF PairingTyped
  <2>2. QED
    BY <1>2, <1>3, <1>7, <2>1
<1>9. PICK room \in Nat : room = scope
  BY <1>3
<1>10. /\ PairedIn(room)' = PairedHere \cup AddedByLayer /\ RecruitsIn(room)' = RecruitsIn(room)
       /\ PlacedIn(room)' = PlacedIn(room) /\ CapacityOf(room)' = CapacityOf(room)
  <2>1. RecruitsIn(room)' = RecruitsIn(room) /\ PlacedIn(room)' = PlacedIn(room)
    BY <1>2 DEF RecruitsIn, PlacedIn
  <2>2. PairedIn(room)' = {p \in pairings' : p.recruit \in RecruitsIn(room)}
    BY <2>1 DEF PairedIn
  <2>3. PairedIn(room)' = PairedHere \cup AddedByLayer
    BY <1>1, <1>2, <1>9, <2>2, ThisRoomGains
  <2>4. QED
    BY <2>1, <2>3 DEF CapacityOf
<1>11. \A x \in AddedByLayer : x.slot = layer
  BY DEF AddedByLayer
<1>12. layer = 1 => PairedHere = {}
  BY <1>1, <1>3 DEF PairingTyped, PairedHere, PairedIn
<1>13. layer > 1 => Staff # {} /\ RoomIsPaired(scope) /\ EvaluatorsDiffer(scope)
  BY DEF PairingInv
<1>14. ASSUME Staff # {}
       PROVE  RoomIsPaired(room)'
  <2>1. HasSeats(room)'
    <3>1. PICK f \in Injection(RecruitsIn(scope), Seats(scope)) :
              /\ {p \in PairedHere \cup AddedByLayer : p.slot = 1}
                   = {[evaluator |-> f[r][1], recruit |-> r, slot |-> 1] : r \in RecruitsIn(scope)}
              /\ RepeatsOutweigh(scope) => FewestSeats(scope, f)
      BY <1>1, <1>2, <1>13, <1>14, LayerSeats DEF RoomIsPaired
    <3>2. Seats(room)' = Seats(scope)
      BY <1>9, <1>10 DEF Seats
    <3>3. SeatedBy(room, f)'
      BY <1>9, <1>10, <3>1 DEF SeatedBy
    <3>4. RepeatsOutweigh(room)' => FewestSeats(room, f)'
      BY <1>2, <1>9, <1>10, <3>1, <3>2 DEF RepeatsOutweigh, FewestSeats, Met
    <3>5. QED
      BY <1>9, <1>10, <3>1, <3>2, <3>3, <3>4 DEF HasSeats
  <2>2. SlotsDiffer(room)'
    <3>1. SlotsDiffer(scope) \/ layer = 1
      BY <1>3, <1>13 DEF RoomIsPaired
    <3>2. \A p, q \in PairedHere \cup AddedByLayer : p.recruit = q.recruit /\ p.slot = q.slot => p = q
      BY <1>1, <3>1, LayerKeepsApart
    <3>3. QED
      BY <1>10, <3>2 DEF SlotsDiffer
  <2>3. HasMore(room)' => EvaluatorsDiffer(room)'
    <3>1. CASE layer = 1
      BY <1>10, <1>11, <1>12, <3>1 DEF HasMore
    <3>2. CASE layer # 1
      <4>1. EvaluatorsDiffer(scope)
        BY <1>3, <1>13, <3>2
      <4>2. \A p, q \in PairedHere \cup AddedByLayer : p.evaluator = q.evaluator => p = q
        BY <1>1, <3>2, <4>1, LayerKeepsApart
      <4>3. QED
        BY <1>10, <4>2 DEF EvaluatorsDiffer
    <3>3. QED
      BY <3>1, <3>2
  <2>4. QED
    BY <2>1, <2>2, <2>3 DEF RoomIsPaired
<1>15. ASSUME MoreLayers
       PROVE  EvaluatorsDiffer(room)'
  <2>1. layer = 1 => CapacityOf(scope) = 1
    BY <1>1, <1>4, <1>15, SeatsSuffice DEF Staff, InScope
  <2>2. layer # 1 => EvaluatorsDiffer(scope)
    BY <1>3, <1>13
  <2>3. \A p, q \in PairedHere \cup AddedByLayer : p.evaluator = q.evaluator => p = q
    BY <1>1, <2>1, <2>2, LayerKeepsApart
  <2>4. QED
    BY <1>10, <2>3 DEF EvaluatorsDiffer
<1>16. ASSUME NEW other \in 1..room - 1
       PROVE  PlacedIn(other)' # {} => RoomIsPaired(other)'
  <2>1. other # scope /\ other \in 1..scope - 1
    BY <1>9, <1>16
  <2>2. /\ PairedIn(other)' = PairedIn(other) /\ RecruitsIn(other)' = RecruitsIn(other)
        /\ PlacedIn(other)' = PlacedIn(other)
    BY <1>1, <1>2, <2>1, OtherRoomsKept
  <2>3. PlacedIn(other) # {} => RoomIsPaired(other)
    BY <2>1 DEF PairingInv
  <2>4. RoomIsPaired(other)' <=> RoomIsPaired(other)
    BY <1>2, <2>2 DEF RoomIsPaired, HasSeats, SeatedBy, SlotsDiffer, EvaluatorsDiffer, HasMore, Seats, CapacityOf,
                      RepeatsOutweigh, FewestSeats, Met
  <2>5. QED
    BY <2>2, <2>3, <2>4
<1>17. CASE MoreLayers
  <2>1. scope' = room /\ layer' = layer + 1
    BY <1>2, <1>9, <1>17
  <2>2. \A p \in PairedIn(room)' : p.slot < layer'
    <3>1. \A p \in PairedHere : p.slot < layer /\ p.slot \in Nat
      BY <1>1, <1>3 DEF PairingTyped, PairedHere, PairedIn
    <3>2. QED
      BY <1>3, <1>10, <1>11, <2>1, <3>1
  <2>3. PairedHere' = PairedIn(room)' /\ Staff' = PlacedIn(room)' /\ RoomIsPaired(scope)' = RoomIsPaired(room)'
        /\ EvaluatorsDiffer(scope)' = EvaluatorsDiffer(room)'
    BY <2>1 DEF PairedHere, Staff, RoomIsPaired, HasSeats, SeatedBy, SlotsDiffer, EvaluatorsDiffer, HasMore, PairedIn,
                RecruitsIn, PlacedIn, Seats, CapacityOf, RepeatsOutweigh, FewestSeats, Met
  <2>4. Staff' # {} /\ RoomIsPaired(scope)' /\ EvaluatorsDiffer(scope)'
    BY <1>4, <1>9, <1>10, <1>14, <1>15, <1>17, <2>3 DEF Staff
  <2>5. \A other \in 1..scope' - 1 : PlacedIn(other)' # {} => RoomIsPaired(other)'
    BY <1>16, <2>1
  <2>6. QED
    BY <1>5, <1>6, <1>6a, <1>8, <2>2, <2>3, <2>4, <2>5 DEF PairingInv
<1>18. CASE ~MoreLayers
  <2>1. scope' = room + 1 /\ layer' = 1
    BY <1>2, <1>9, <1>18
  <2>2. PairedHere' = {}
    <3>1. \A p \in pairings' : recruitRoom'[p.recruit] # room + 1
      BY <1>3, <1>7, <1>9
    <3>2. QED
      BY <2>1, <3>1 DEF PairedHere, PairedIn, RecruitsIn
  <2>3. \A other \in 1..scope' - 1 : PlacedIn(other)' # {} => RoomIsPaired(other)'
    <3>1. \A other \in 1..scope' - 1 : other \in 1..room - 1 \/ other = room
      BY <2>1
    <3>2. PlacedIn(room)' # {} => RoomIsPaired(room)'
      BY <1>9, <1>10, <1>14 DEF Staff
    <3>3. QED
      BY <1>16, <3>1, <3>2
  <2>4. QED
    BY <1>5, <1>6, <1>6a, <1>8, <2>1, <2>2, <2>3 DEF PairingInv
<1>19. QED
  BY <1>17, <1>18

LEMMA RoomsStay ==
    ASSUME UNCHANGED <<recruitRoom, past, placed, pairings, scope>>
    PROVE  /\ \A room : PlacedIn(room)' = PlacedIn(room) /\ RoomIsPaired(room)' = RoomIsPaired(room)
           /\ RoomIsPaired(scope)' = RoomIsPaired(scope) /\ EvaluatorsDiffer(scope)' = EvaluatorsDiffer(scope)
  BY DEF RoomIsPaired, HasSeats, SeatedBy, SlotsDiffer, EvaluatorsDiffer, HasMore, PairedIn,
         RecruitsIn, PlacedIn, Seats, CapacityOf, RepeatsOutweigh, FewestSeats, Met

LEMMA CostsStay ==
    ASSUME UNCHANGED <<past, layer, tie>>, Slots' = Slots, InScope' = InScope, PairedHere' = PairedHere
    PROVE  Costs' = Costs
<1>1. \A s, r : Cost(s, r)' = Cost(s, r)
  BY DEF Cost, Repeated, PrimaryPrice, SecondaryPrice, Additional
<1>2. QED
  BY <1>1 DEF Costs

LEMMA AugmentKeepsInv == ASSUME PairingInv, Augment PROVE PairingInv'
<1>1. /\ match' \in Augmented /\ \A n \in Augmented : TotalCost(match') <= TotalCost(n)
      /\ UNCHANGED <<roomCount, recruitRoom, fixedRoom, past, placed, scope, layer, tie, pairings>>
      /\ scope \in RoomNumbers
  BY DEF Augment
<1>2. DOMAIN match' \subseteq InScope /\ match' \in Injection(DOMAIN match', Slots)
  BY <1>1, AugmentedFits DEF PairingInv
<1>3. Slots' = Slots /\ InScope' = InScope /\ Staff' = Staff /\ PairedHere' = PairedHere
  BY <1>1 DEF Slots, InScope, Staff, Capacity, CapacityOf, Unpaired, PairedHere, PairedIn, PlacedIn, RecruitsIn
<1>4. scope # 0
  BY <1>1 DEF RoomNumbers
<1>5. PairingTyped'
  BY <1>1 DEF PairingInv, PairingTyped, RoomNumbers
<1>6. MatchFits'
  BY <1>2, <1>3 DEF MatchFits
<1>7. /\ \A room : PlacedIn(room)' = PlacedIn(room) /\ RoomIsPaired(room)' = RoomIsPaired(room)
      /\ RoomIsPaired(scope)' = RoomIsPaired(scope) /\ EvaluatorsDiffer(scope)' = EvaluatorsDiffer(scope)
  BY <1>1, RoomsStay
<1>8. MatchIsCheapest'
  <2>1. IsCheapest(Costs, match', InScope, Slots)
    BY <1>1, AugmentedIsCheapest DEF PairingInv
  <2>2. Costs' = Costs
    BY <1>1, <1>3, CostsStay
  <2>3. QED
    BY <1>3, <2>1, <2>2 DEF MatchIsCheapest, IsCheapest
<1>9. QED
  BY <1>1, <1>3, <1>4, <1>5, <1>6, <1>7, <1>8 DEF PairingInv

(* While evaluators are placed, nobody is paired.                             *)
LEMMA NothingPaired == ASSUME PairingInv, scope = 0 PROVE pairings = {} /\ match = NoOne /\ layer = 1
<1>1. \A p \in pairings : recruitRoom[p.recruit] \in Nat /\ recruitRoom[p.recruit] >= 1
  <2>1. \A p \in pairings : p.recruit \in Participants
    BY DEF PairingInv, PairingTyped
  <2>2. \A r \in Participants : recruitRoom[r] \in 1..roomCount
    BY DEF PairingInv, PairingTyped, RoomNumbers
  <2>3. roomCount \in Nat
    BY RoomsCounted DEF PairingInv
  <2>4. QED
    BY <2>1, <2>2, <2>3
<1>2. pairings = {}
  BY <1>1 DEF PairingInv
<1>3. Staff = {}
  BY DEF Staff, PlacedIn, PairingInv, PairingTyped, RoomNumbers
<1>4. layer \in Nat /\ layer >= 1
  BY PairingAssumption DEF PairingInv, PairingTyped
<1>5. QED
  BY <1>2, <1>3, <1>4 DEF PairingInv

NothingIsPaired == PairingTyped /\ pairings = {} /\ match = NoOne /\ layer = 1 /\ scope \in {0, 1}

LEMMA UnpairedInv == NothingIsPaired => PairingInv
<1> SUFFICES ASSUME NothingIsPaired
             PROVE  PairingInv
  OBVIOUS
<1>1. DOMAIN NoOne = {} /\ NoOne \in [{} -> Slots]
  BY DEF NoOne
<1>2. MatchFits
  BY <1>1 DEF NothingIsPaired, MatchFits, Injection, IsInjective
<1>3. 1..scope - 1 = {}
  BY DEF NothingIsPaired
<1>4. MatchIsCheapest
  <2>1. IsFiniteSet(InScope)
    BY RoomSets DEF NothingIsPaired, InScope
  <2>2. QED
    BY <2>1, NoOneIsCheapest DEF NothingIsPaired, MatchIsCheapest
<1>5. QED
  BY <1>2, <1>3, <1>4 DEF NothingIsPaired, PairingInv, PairedHere, PairedIn

(* What the plan draws: recruits dealt to the rooms, some evaluators fixed.   *)
LEMMA DrawnInv ==
    ASSUME NEW rooms \in RoomCounts, NEW dealt \in [Participants -> 1..rooms], NEW met,
           NEW fixed, NEW seeded \in Ties, DOMAIN fixed \subseteq Assessors, fixed \in [DOMAIN fixed -> 1..rooms],
           Drawn(rooms, dealt, met, fixed, seeded)
    PROVE  PairingInv
<1>1. rooms \in Nat
  BY PairingAssumption, FS_CardinalityType
<1>2. /\ roomCount = rooms /\ recruitRoom = dealt /\ placed = fixed
      /\ scope = 0 /\ layer = 1 /\ tie = seeded /\ match = NoOne /\ pairings = {}
  BY DEF Drawn
<1>3. PairingTyped
  <2>1. MaximumAssessors \in Nat \ {0}
    BY PairingAssumption
  <2>2. QED
    BY <1>1, <1>2, <2>1 DEF PairingTyped, RoomNumbers
<1>4. QED
  BY <1>2, <1>3, UnpairedInv DEF NothingIsPaired

LEMMA InitPairingInv == InitPairing => PairingInv
<1> SUFFICES ASSUME InitPairing
             PROVE  PairingInv
  OBVIOUS
<1>1. PICK rooms \in RoomCounts, met \in SUBSET (Assessors \X Participants) :
         \E dealt \in Deals(rooms),
            fixed \in UNION {[S -> 1..rooms] : S \in {T \in SUBSET Assessors : Cardinality(T) <= MaxMandatory}},
            seeded \in Ties :
             Drawn(rooms, dealt, met, fixed, seeded)
  BY DEF InitPairing
<1>2. PICK dealt \in Deals(rooms),
           fixed \in UNION {[S -> 1..rooms] : S \in {T \in SUBSET Assessors : Cardinality(T) <= MaxMandatory}},
           seeded \in Ties :
             Drawn(rooms, dealt, met, fixed, seeded)
  BY <1>1
<1>3. dealt \in [Participants -> 1..rooms]
  BY DEF Deals
<1>4. DOMAIN fixed \subseteq Assessors /\ fixed \in [DOMAIN fixed -> 1..rooms]
  <2>1. PICK S \in SUBSET Assessors : fixed \in [S -> 1..rooms]
    OBVIOUS
  <2>2. QED
    BY <2>1
<1>5. QED
  BY <1>2, <1>3, <1>4, DrawnInv

LEMMA PairingStep == PairingInv /\ [NextPairing]_pairingVars => PairingInv'
<1> SUFFICES ASSUME PairingInv, [NextPairing]_pairingVars
             PROVE  PairingInv'
  OBVIOUS
<1>1. CASE PlaceEvaluator
  <2>1. PICK e \in Assessors \ DOMAIN placed, room \in RoomNumbers :
           placed' = [f \in DOMAIN placed \cup {e} |-> IF f = e THEN room ELSE placed[f]]
    BY <1>1 DEF PlaceEvaluator
  <2>2. scope = 0 /\ UNCHANGED <<roomCount, recruitRoom, fixedRoom, past, scope, layer, tie, match, pairings>>
    BY <1>1 DEF PlaceEvaluator
  <2>3. PairingTyped'
    BY <2>1, <2>2 DEF PairingInv, PairingTyped, RoomNumbers
  <2>4. NothingIsPaired'
    BY <2>2, <2>3, NothingPaired DEF NothingIsPaired
  <2>5. QED
    BY <2>4, UnpairedInv, PTL
<1>2. CASE EvaluatorsPlaced
  <2>1. scope = 0 /\ scope' = 1 /\ UNCHANGED <<roomCount, recruitRoom, fixedRoom, past, placed, layer, tie, match, pairings>>
    BY <1>2 DEF EvaluatorsPlaced
  <2>2. 1 \in 0..roomCount + 1
    BY RoomsCounted DEF PairingInv
  <2>3. PairingTyped'
    BY <2>1, <2>2 DEF PairingInv, PairingTyped, RoomNumbers
  <2>4. NothingIsPaired'
    BY <2>1, <2>3, NothingPaired DEF NothingIsPaired
  <2>5. QED
    BY <2>4, UnpairedInv, PTL
<1>3. CASE Augment
  BY <1>3, AugmentKeepsInv
<1>4. CASE FinishLayer
  BY <1>4, FinishLayerKeepsInv
<1>5. CASE UNCHANGED pairingVars
  <2>1. UNCHANGED <<roomCount, recruitRoom, past, placed, scope, layer, tie, match, pairings>>
    BY <1>5 DEF pairingVars
  <2>2. Slots' = Slots /\ InScope' = InScope /\ Staff' = Staff /\ PairedHere' = PairedHere
    BY <2>1 DEF Slots, InScope, Staff, Capacity, CapacityOf, Unpaired, PairedHere, PairedIn, PlacedIn, RecruitsIn
  <2>3. PairingTyped' /\ MatchFits'
    BY <2>1, <2>2 DEF PairingInv, PairingTyped, MatchFits, RoomNumbers
  <2>4. /\ \A room : PlacedIn(room)' = PlacedIn(room) /\ RoomIsPaired(room)' = RoomIsPaired(room)
        /\ RoomIsPaired(scope)' = RoomIsPaired(scope) /\ EvaluatorsDiffer(scope)' = EvaluatorsDiffer(scope)
    BY <2>1, RoomsStay
  <2>5. MatchIsCheapest'
    <3>1. Costs' = Costs
      BY <2>1, <2>2, CostsStay
    <3>2. QED
      BY <2>1, <2>2, <3>1 DEF PairingInv, MatchIsCheapest, IsCheapest
  <2>6. QED
    BY <2>1, <2>2, <2>3, <2>4, <2>5 DEF PairingInv
<1>6. QED
  BY <1>1, <1>2, <1>3, <1>4, <1>5 DEF NextPairing

LEMMA PairingIsTyped == PairingInv => TypeOKPairing
<1> SUFFICES ASSUME PairingInv
             PROVE  TypeOKPairing
  OBVIOUS
<1>1. DOMAIN match \subseteq Participants
  BY RoomSets DEF PairingInv, MatchFits, InScope
<1>2. Range(placed) \subseteq RoomNumbers
  BY DEF PairingInv, PairingTyped, Range
<1>3. QED
  BY <1>1, <1>2 DEF PairingInv, PairingTyped, TypeOKPairing

-----------------------------------------------------------------------------
(* The primary evaluator of a recruit is the one it is seated with.           *)
LEMMA PrimaryIsSeated ==
    ASSUME NEW room, SlotsDiffer(room), NEW f, SeatedBy(room, f)
    PROVE  \A r \in RecruitsIn(room) :
              /\ PrimaryOf(room)[r] = f[r][1]
              /\ \E p \in PairedIn(room) : p.recruit = r /\ p.slot = 1
<1> DEFINE pair(r) == [evaluator |-> f[r][1], recruit |-> r, slot |-> 1]
<1>1. ASSUME NEW r \in RecruitsIn(room)
      PROVE  /\ pair(r) \in PairedIn(room) /\ pair(r).recruit = r /\ pair(r).slot = 1
             /\ \A p \in PairedIn(room) : p.recruit = r /\ p.slot = 1 => p = pair(r)
  <2>1. pair(r) \in {p \in PairedIn(room) : p.slot = 1}
    BY DEF SeatedBy
  <2>2. pair(r).recruit = r /\ pair(r).slot = 1
    OBVIOUS
  <2> HIDE DEF pair
  <2>3. QED
    BY <2>1, <2>2 DEF SlotsDiffer
<1>2. \A r \in RecruitsIn(room) : PrimaryOf(room)[r] = f[r][1]
  <2> SUFFICES ASSUME NEW r \in RecruitsIn(room)
               PROVE  PrimaryOf(room)[r] = f[r][1]
    OBVIOUS
  <2>1. pair(r).evaluator = f[r][1]
    OBVIOUS
  <2> HIDE DEF pair
  <2>2. (CHOOSE p \in PairedIn(room) : p.recruit = r /\ p.slot = 1) = pair(r)
    BY <1>1
  <2>3. QED
    BY <2>1, <2>2 DEF PrimaryOf
<1> HIDE DEF pair
<1>3. QED
  BY <1>1, <1>2

(* A place is taken once, so every evaluator stays within the capacity.       *)
LEMMA SeatedOnce ==
    ASSUME PairingTyped, NEW room, PlacedIn(room) # {}, RoomIsPaired(room)
    PROVE  CoveredOnce(room)
<1>1. PICK f \in Injection(RecruitsIn(room), Seats(room)) : SeatedBy(room, f)
  BY DEF RoomIsPaired, HasSeats
<1>2. /\ f \in [RecruitsIn(room) -> Seats(room)]
      /\ \A r, s \in RecruitsIn(room) : f[r] = f[s] => r = s
  BY DEF Injection, IsInjective
<1>3. \A r \in RecruitsIn(room) : PrimaryOf(room)[r] = f[r][1]
  BY <1>1, PrimaryIsSeated DEF RoomIsPaired
<1>4. \A r \in RecruitsIn(room) : \E p \in PairedIn(room) : p.recruit = r /\ p.slot = 1
  BY <1>1, PrimaryIsSeated DEF RoomIsPaired
<1>5. WithinCapacity(PrimaryOf(room), room)
  <2> SUFFICES ASSUME NEW e \in PlacedIn(room)
               PROVE  Cardinality({r \in RecruitsIn(room) : PrimaryOf(room)[r] = e}) <= CapacityOf(room)
    BY DEF WithinCapacity
  <2> DEFINE S == {r \in RecruitsIn(room) : PrimaryOf(room)[r] = e}
             g == [r \in S |-> f[r][2]]
  <2>1. \A r \in S : f[r] = <<e, f[r][2]>> /\ f[r][2] \in 1..CapacityOf(room)
    BY <1>2, <1>3 DEF Seats
  <2>2. g \in Injection(S, 1..CapacityOf(room))
    BY <1>2, <2>1 DEF Injection, IsInjective
  <2>3. IsFiniteSet(1..CapacityOf(room)) /\ Cardinality(1..CapacityOf(room)) = CapacityOf(room)
    BY SeatsSuffice, FS_Interval
  <2> HIDE DEF S, g
  <2>4. Cardinality(S) <= CapacityOf(room)
    BY <2>2, <2>3, FS_Injection
  <2>5. QED
    BY <2>4 DEF S
<1>6. \A p, q \in PairedIn(room) : (p.recruit = q.recruit /\ p # q) => p.evaluator # q.evaluator /\ p.slot # q.slot
  <2> SUFFICES ASSUME NEW p \in PairedIn(room), NEW q \in PairedIn(room), p.recruit = q.recruit, p # q
               PROVE  p.evaluator # q.evaluator /\ p.slot # q.slot
    OBVIOUS
  <2>1. p.slot # q.slot
    BY DEF RoomIsPaired, SlotsDiffer
  <2>2. p.slot \in 1..MaximumAssessors /\ q.slot \in 1..MaximumAssessors
    BY DEF PairedIn, PairingTyped
  <2>3. p.slot > 1 \/ q.slot > 1
    BY <2>1, <2>2, PairingAssumption
  <2>4. EvaluatorsDiffer(room)
    BY <2>3 DEF RoomIsPaired, HasMore
  <2>5. QED
    BY <2>1, <2>4 DEF EvaluatorsDiffer
<1>7. (\E p \in PairedIn(room) : p.slot > 1) =>
            \A p, q \in PairedIn(room) : p.evaluator = q.evaluator => p = q
  BY DEF RoomIsPaired, HasMore, EvaluatorsDiffer
<1>8. QED
  BY <1>4, <1>5, <1>6, <1>7 DEF CoveredOnce

(* Where a repeat outweighs the other costs, the pairs of a finished room     *)
(* repeat no more than any other sharing within the capacity would.           *)
LEMMA SeatedRepeatsFewest ==
    ASSUME PairingTyped, NEW room, PlacedIn(room) # {}, RoomIsPaired(room), RepeatsOutweigh(room)
    PROVE  FewestRepeats(room)
<1> DEFINE R == RecruitsIn(room)
           repeats(f) == Cardinality({r \in R : <<f[r], r>> \in past})
<1>1. PICK f \in Injection(R, Seats(room)) : SeatedBy(room, f) /\ FewestSeats(room, f)
  BY DEF RoomIsPaired, HasSeats
<1>2. \A r \in R : PrimaryOf(room)[r] = f[r][1]
  BY <1>1, PrimaryIsSeated DEF RoomIsPaired
<1>3. ASSUME NEW h, NEW g, \A r \in R : h[r] = g[r][1]
      PROVE  repeats(h) = Cardinality(Met(room, g))
  <2>1. {r \in R : <<h[r], r>> \in past} = Met(room, g)
    BY <1>3 DEF Met
  <2>2. QED
    BY <2>1
<1>4. ASSUME NEW h \in [R -> PlacedIn(room)], WithinCapacity(h, room)
      PROVE  repeats(PrimaryOf(room)) <= repeats(h)
  <2>1. PICK g \in Injection(R, Seats(room)) : \A r \in R : g[r][1] = h[r]
    BY <1>4, SharingIsSeated
  <2>2. repeats(h) = Cardinality(Met(room, g))
    BY <1>3, <2>1
  <2>3. repeats(PrimaryOf(room)) = Cardinality(Met(room, f))
    BY <1>2, <1>3
  <2>4. Cardinality(Met(room, f)) <= Cardinality(Met(room, g))
    BY <1>1, <2>1 DEF FewestSeats
  <2>5. QED
    BY <2>2, <2>3, <2>4
<1>5. QED
  BY <1>4 DEF FewestRepeats

(* The invariant of the pairings: the flow of a layer gives each slot to one  *)
(* recruit of the room, and the rooms that are paired stay so.                *)
THEOREM PairingInvariant == SpecPairing => []PairingInv
<1>1. QED
  BY InitPairingInv, PairingStep, PTL DEF SpecPairing

(* TypeOKPairing: the rooms, the layers and the pairs are those there are.    *)
THEOREM PairingTypeCorrect == SpecPairing => []TypeOKPairing
<1>1. QED
  BY PairingInvariant, PairingIsTyped, PTL

LEMMA PairedIsBest == PairingInv => PairingsAreBest
  BY SeatedOnce, SeatedRepeatsFewest DEF PairingInv, PairingsAreBest

(* PairingsAreBest: in every room that generate_pairings has finished and     *)
(* that has an evaluator, every recruit has a primary evaluator within the    *)
(* rounded-up load, none is added to the same recruit twice, and none is      *)
(* loaded twice once there is a second layer; and where one repeated pair     *)
(* costs more than the dearest role and load and all ties, the primary pairs  *)
(* repeat no more than any sharing within the capacity must.                  *)
THEOREM PairingsAreAlwaysBest == SpecPairing => []PairingsAreBest
<1>1. QED
  BY PairedIsBest, PairingInvariant, PTL

(* MinCostFlow.solve: along cheapest paths, the flow of a layer is after each *)
(* round the cheapest that gives that many recruits a place.                  *)
THEOREM FlowIsAlwaysCheapest == SpecPairing => []MatchIsCheapest
<1>1. PairingInv => MatchIsCheapest
  BY DEF PairingInv
<1>2. QED
  BY <1>1, PairingInvariant, PTL

-----------------------------------------------------------------------------
(***************************************************************************)
(* The results.                                                            *)
(***************************************************************************)

(* Greatest common divisors.                                                *)

Divides(d, n) == \E k \in Int : n = d * k
IsGcd(d, a, b) ==
    /\ d \in Nat /\ Divides(d, a) /\ Divides(d, b)
    /\ \E s, t \in Int : d = s * a + t * b
IsEuclid(g) == g = [p \in Nat \X Nat |-> IF p[2] = 0 THEN p[1] ELSE g[<<p[2], p[1] % p[2]>>]]

(* What division leaves.                                                    *)
LEMMA Remainder ==
    ASSUME NEW a \in Nat, NEW b \in Nat \ {0}
    PROVE  /\ a \div b \in Nat /\ a % b \in Nat /\ a % b < b
           /\ a = b * (a \div b) + (a % b)
<1>1. a \div b \in Int /\ a \div b >= 0
  OBVIOUS
<1>2. a % b \in Int /\ a % b >= 0 /\ a % b < b
  OBVIOUS
<1>3. a = b * (a \div b) + (a % b)
  OBVIOUS
<1>4. QED
  BY <1>1, <1>2, <1>3

(* A step of Euclid's algorithm keeps the greatest common divisor.          *)
LEMMA GcdOfRemainder ==
    ASSUME NEW a \in Nat, NEW b \in Nat \ {0}, NEW d, IsGcd(d, b, a % b)
    PROVE  IsGcd(d, a, b)
<1> DEFINE q == a \div b rest == a % b
<1>1. q \in Int /\ rest \in Int /\ a = b * q + rest
  BY Remainder
<1>2. d \in Nat
  BY DEF IsGcd
<1>3. PICK k, l \in Int : b = d * k /\ rest = d * l
  BY DEF IsGcd, Divides
<1>4. PICK s, t \in Int : d = s * b + t * rest
  BY DEF IsGcd
<1> HIDE DEF q, rest
<1>5. Divides(d, a)
  <2>1. k * q + l \in Int
    BY <1>1, <1>3
  <2>2. a = d * (k * q + l)
    BY <1>1, <1>2, <1>3
  <2>3. QED
    BY <2>1, <2>2 DEF Divides
<1>6. s - t * q \in Int
  BY <1>1, <1>4
<1>7. d = t * a + (s - t * q) * b
  BY <1>1, <1>2, <1>4
<1>8. QED
  BY <1>2, <1>3, <1>4, <1>5, <1>6, <1>7 DEF IsGcd, Divides

(* Where the algorithm stops.                                               *)
LEMMA GcdWithNothing ==
    ASSUME NEW a \in Nat
    PROVE  IsGcd(a, a, 0)
<1>1. a = a * 1 /\ 0 = a * 0 /\ a = 1 * a + 0 * 0 /\ 1 \in Int /\ 0 \in Int
  OBVIOUS
<1>2. QED
  BY <1>1 DEF IsGcd, Divides

(* Numbers that divide each other are equal.                                *)
LEMMA MutualDivisors ==
    ASSUME NEW d \in Nat, NEW e \in Nat, Divides(d, e), Divides(e, d)
    PROVE  d = e
<1>1. PICK k, l \in Int : e = d * k /\ d = e * l
  BY DEF Divides
<1>2. CASE d = 0 \/ e = 0
  BY <1>1, <1>2
<1>3. CASE d > 0 /\ e > 0
  <2>1. k > 0
    <3>1. k <= 0 => d * k <= 0
      OBVIOUS
    <3>2. QED
      BY <1>1, <1>3, <3>1
  <2>2. l > 0
    <3>1. l <= 0 => e * l <= 0
      OBVIOUS
    <3>2. QED
      BY <1>1, <1>3, <3>1
  <2>3. d * k >= d
    BY <2>1
  <2>4. e * l >= e
    BY <2>2
  <2>5. QED
    BY <1>1, <2>3, <2>4
<1>4. QED
  BY <1>2, <1>3

(* There is one greatest common divisor at most.                            *)
LEMMA GcdIsUnique ==
    ASSUME NEW a \in Int, NEW b \in Int, NEW d, NEW e, IsGcd(d, a, b), IsGcd(e, a, b)
    PROVE  d = e
<1>1. ASSUME NEW x, NEW y, IsGcd(x, a, b), IsGcd(y, a, b)
      PROVE  Divides(x, y)
  <2>1. x \in Nat /\ y \in Nat
    BY <1>1 DEF IsGcd
  <2>2. PICK k, l \in Int : a = x * k /\ b = x * l
    BY <1>1 DEF IsGcd, Divides
  <2>3. PICK s, t \in Int : y = s * a + t * b
    BY <1>1 DEF IsGcd
  <2>4. y = x * (s * k + t * l) /\ s * k + t * l \in Int
    BY <2>1, <2>2, <2>3
  <2>5. QED
    BY <2>4 DEF Divides
<1>2. QED
  BY <1>1, MutualDivisors DEF IsGcd

(* By induction over the second number: there is one.                       *)
LEMMA GcdExists ==
    ASSUME NEW a \in Nat, NEW b \in Nat
    PROVE  \E d : IsGcd(d, a, b)
<1> DEFINE T == {n \in Nat : \A y \in 0..n : \A x \in Nat : \E d : IsGcd(d, x, y)}
<1>1. 0 \in T
  BY GcdWithNothing
<1>2. \A n \in Nat : n \in T => n + 1 \in T
  <2> TAKE n \in Nat
  <2> HAVE n \in T
  <2>0. n + 1 \in Nat
    OBVIOUS
  <2> SUFFICES ASSUME NEW y \in 0..n + 1, NEW x \in Nat
               PROVE  \E d : IsGcd(d, x, y)
    BY <2>0
  <2>1. CASE y = 0
    BY <2>1, GcdWithNothing
  <2>2. CASE y # 0
    <3>1. y \in Nat \ {0}
      BY <2>2
    <3>2. x % y \in 0..n
      BY <3>1, Remainder
    <3>3. PICK d : IsGcd(d, y, x % y)
      BY <3>1, <3>2
    <3>4. QED
      BY <3>1, <3>3, GcdOfRemainder
  <2>3. QED
    BY <2>1, <2>2
<1> HIDE DEF T
<1>3. b \in T
  BY <1>1, <1>2, SetOfNaturals
<1>4. QED
  BY <1>3 DEF T

(* The recursion of Gcd has a solution, so Gcd is one.                      *)
LEMMA EuclidExists == \E g : IsEuclid(g)
<1> DEFINE gcd(a, b) == CHOOSE d : IsGcd(d, a, b)
           g == [p \in Nat \X Nat |-> gcd(p[1], p[2])]
<1>1. \A a, b \in Nat : IsGcd(gcd(a, b), a, b)
  BY GcdExists
<1> HIDE DEF gcd
<1>2. ASSUME NEW a \in Nat, NEW b \in Nat
      PROVE  g[<<a, b>>] = IF b = 0 THEN a ELSE g[<<b, a % b>>]
  <2>1. CASE b = 0
    BY <1>1, <2>1, GcdWithNothing, GcdIsUnique
  <2>2. CASE b # 0
    <3>1. b \in Nat \ {0} /\ a % b \in Nat
      BY <2>2, Remainder
    <3>2. IsGcd(gcd(b, a % b), a, b)
      BY <1>1, <3>1, GcdOfRemainder
    <3>3. gcd(b, a % b) = gcd(a, b)
      BY <1>1, <3>2, GcdIsUnique
    <3>4. QED
      BY <2>2, <3>1, <3>3
  <2>3. QED
    BY <2>1, <2>2
<1>3. IsEuclid(g)
  <2> DEFINE next(p) == IF p[2] = 0 THEN p[1] ELSE g[<<p[2], p[1] % p[2]>>]
  <2>1. ASSUME NEW p \in Nat \X Nat
        PROVE  g[p] = next(p)
    <3>1. p[1] \in Nat /\ p[2] \in Nat /\ p = <<p[1], p[2]>>
      OBVIOUS
    <3>2. QED
      BY <1>2, <3>1
  <2>2. g = [p \in Nat \X Nat |-> g[p]]
    OBVIOUS
  <2> HIDE DEF g
  <2>3. QED
    BY <2>1, <2>2 DEF IsEuclid
<1> HIDE DEF g
<1>4. QED
  BY <1>3

LEMMA GcdIsEuclid == IsEuclid(Gcd)
<1>1. Gcd = CHOOSE g : IsEuclid(g)
  BY DEF Gcd, IsEuclid
<1>2. QED
  BY <1>1, EuclidExists

(* Euclid's algorithm computes it.                                           *)
LEMMA GcdIsGcd ==
    ASSUME NEW a \in Nat, NEW b \in Nat
    PROVE  IsGcd(Gcd[<<a, b>>], a, b)
<1> DEFINE T == {n \in Nat : \A y \in 0..n : \A x \in Nat : IsGcd(Gcd[<<x, y>>], x, y)}
<1>0. \A x, y \in Nat : Gcd[<<x, y>>] = IF y = 0 THEN x ELSE Gcd[<<y, x % y>>]
  BY GcdIsEuclid DEF IsEuclid
<1>1. 0 \in T
  <2>1. \A x \in Nat : IsGcd(Gcd[<<x, 0>>], x, 0)
    BY <1>0, GcdWithNothing
  <2>2. \A y \in 0..0 : y = 0
    OBVIOUS
  <2>3. QED
    BY <2>1, <2>2
<1>2. \A n \in Nat : n \in T => n + 1 \in T
  <2> TAKE n \in Nat
  <2> HAVE n \in T
  <2>0. n + 1 \in Nat
    OBVIOUS
  <2> SUFFICES ASSUME NEW y \in 0..n + 1, NEW x \in Nat
               PROVE  IsGcd(Gcd[<<x, y>>], x, y)
    BY <2>0
  <2>1. CASE y = 0
    BY <1>0, <2>1, GcdWithNothing
  <2>2. CASE y # 0
    <3>1. y \in Nat \ {0}
      BY <2>2
    <3>2. x % y \in 0..n
      BY <3>1, Remainder
    <3>3. IsGcd(Gcd[<<y, x % y>>], y, x % y)
      BY <3>1, <3>2
    <3>4. QED
      BY <1>0, <3>1, <3>3, GcdOfRemainder
  <2>3. QED
    BY <2>1, <2>2
<1> HIDE DEF T
<1>3. b \in T
  BY <1>1, <1>2, SetOfNaturals
<1>4. QED
  BY <1>3 DEF T

-----------------------------------------------------------------------------
(* Fractions: in lowest terms each value has one only.                      *)

Size(n) == IF n < 0 THEN -n ELSE n
Fractions == {x \in Int \X Nat : x[2] > 0}
LowestTerms == {x \in Fractions : IsGcd(1, Size(x[1]), x[2])}
Same(x, y) == x[1] * y[2] = y[1] * x[2]

(* Equations are divided by what is not zero.                               *)
LEMMA Cancel ==
    ASSUME NEW a \in Int, NEW b \in Int, NEW c \in Int, c # 0, a * c = b * c
    PROVE  a = b
  OBVIOUS

(* A numerator and a positive denominator.                                  *)
LEMMA PartsOf ==
    ASSUME NEW x \in Fractions
    PROVE  x[1] \in Int /\ x[2] \in Nat /\ x[2] > 0 /\ x[2] # 0 /\ x[2] \in Int /\ x = <<x[1], x[2]>>
  BY DEF Fractions

LEMMA FractionOf ==
    ASSUME NEW n \in Int, NEW d \in Nat \ {0}
    PROVE  <<n, d>> \in Fractions
  BY DEF Fractions

LEMMA SameIsSymmetric ==
    ASSUME NEW x, NEW y, Same(x, y)
    PROVE  Same(y, x)
  BY DEF Same

LEMMA SameIsTransitive ==
    ASSUME NEW x \in Fractions, NEW y \in Fractions, NEW z \in Fractions, Same(x, y), Same(y, z)
    PROVE  Same(x, z)
<1> DEFINE a == x[1] b == x[2] c == y[1] d == y[2] e == z[1] f == z[2]
<1>1. a \in Int /\ b \in Int /\ c \in Int /\ d \in Int /\ e \in Int /\ f \in Int /\ d # 0
  BY PartsOf
<1>2. a * d = c * b /\ c * f = e * d
  BY DEF Same
<1> SUFFICES a * f = e * b
  BY DEF Same
<1> HIDE DEF a, b, c, d, e, f
<1>3. (a * f) * d = (a * d) * f /\ (c * b) * f = (c * f) * b /\ (e * d) * b = (e * b) * d
  BY <1>1
<1>4. (a * f) * d = (e * b) * d
  BY <1>2, <1>3
<1>5. a * f \in Int /\ e * b \in Int
  BY <1>1
<1>6. QED
  BY <1>1, <1>4, <1>5, Cancel

(* Reducing reaches lowest terms and keeps the value.                       *)
LEMMA ReducedIsLowest ==
    ASSUME NEW x \in Fractions
    PROVE  Reduced(x) \in LowestTerms /\ Same(Reduced(x), x)
<1> DEFINE n == x[1] d == x[2] a == Size(n) g == Gcd[<<a, d>>]
<1>1. n \in Int /\ d \in Nat /\ d > 0
  BY PartsOf
<1>2. a \in Nat /\ (a = n \/ a = -n)
  BY <1>1 DEF Size
<1>3. IsGcd(g, a, d)
  BY <1>1, <1>2, GcdIsGcd
<1>4. Reduced(x) = <<n \div g, d \div g>>
  BY DEF Reduced, Size
<1> HIDE DEF n, d, a, g
<1>5. g \in Nat
  BY <1>3 DEF IsGcd
<1>6. PICK k, l \in Int : a = g * k /\ d = g * l
  BY <1>3 DEF IsGcd, Divides
<1>7. PICK s, t \in Int : g = s * a + t * d
  BY <1>3 DEF IsGcd
<1>8. g > 0
  <2>1. g = 0 => d = 0
    BY <1>6
  <2>2. QED
    BY <1>1, <1>5, <2>1
<1>9. k >= 0 /\ l > 0
  <2>1. k < 0 => g * k < 0
    BY <1>5, <1>6, <1>8
  <2>2. l <= 0 => g * l <= 0
    BY <1>5, <1>6, <1>8
  <2>3. QED
    BY <1>1, <1>2, <1>6, <2>1, <2>2
<1> DEFINE m == IF a = n THEN k ELSE -k
<1>10. m \in Int /\ n = g * m
  BY <1>1, <1>2, <1>5, <1>6
<1>11. Size(m) = k
  BY <1>6, <1>9 DEF Size
<1> HIDE DEF m
<1>12. n \div g = m /\ d \div g = l
  <2>1. \A i \in Int : (g * i) \div g = i
    BY <1>5, <1>8
  <2>2. QED
    BY <1>6, <1>10, <2>1
<1>13. 1 = s * k + t * l
  <2>1. g * 1 = g * (s * k + t * l)
    BY <1>5, <1>6, <1>7
  <2>2. s * k + t * l \in Int
    BY <1>6, <1>7
  <2> DEFINE sum == s * k + t * l
  <2>3. 1 * g = sum * g
    BY <1>5, <2>1, <2>2
  <2> HIDE DEF sum
  <2>4. 1 = sum
    BY <1>5, <1>8, <2>2, <2>3, Cancel DEF sum
  <2>5. QED
    BY <2>4 DEF sum
<1>14. Divides(1, k) /\ Divides(1, l)
  <2>1. k = 1 * k /\ l = 1 * l
    BY <1>6
  <2>2. QED
    BY <1>6, <2>1 DEF Divides
<1>15. IsGcd(1, k, l)
  BY <1>7, <1>13, <1>14 DEF IsGcd
<1>16. <<m, l>> \in LowestTerms
  <2>1. <<m, l>> \in Fractions
    BY <1>6, <1>9, <1>10, FractionOf
  <2>2. QED
    BY <1>11, <1>15, <2>1 DEF LowestTerms
<1>17. m * d = n * l
  BY <1>5, <1>6, <1>10
<1>18. QED
  BY <1>4, <1>12, <1>16, <1>17 DEF Same, n, d

(* Equal values in lowest terms are the same pair of numbers.               *)
LEMMA LowestIsUnique ==
    ASSUME NEW x \in LowestTerms, NEW y \in LowestTerms, Same(x, y)
    PROVE  x = y
<1>1. x \in Fractions /\ y \in Fractions
  BY DEF LowestTerms
<1>2. ASSUME NEW u \in LowestTerms, NEW v \in LowestTerms, Same(u, v)
      PROVE  Divides(u[2], v[2])
  <2> DEFINE p == u[1] q == u[2] m == v[1] n == v[2]
  <2>1. p \in Int /\ q \in Int /\ m \in Int /\ n \in Int
    BY PartsOf DEF LowestTerms
  <2>2. p * n = m * q
    BY <1>2 DEF Same
  <2>3. PICK s, t \in Int : 1 = s * Size(p) + t * q
    BY DEF LowestTerms, IsGcd
  <2> HIDE DEF p, q, m, n
  <2>4. \E r \in Int : 1 = r * p + t * q
    <3>1. CASE p < 0
      <4>1. Size(p) = -p /\ -s \in Int
        BY <2>1, <2>3, <3>1 DEF Size
      <4>2. 1 = (-s) * p + t * q
        BY <2>1, <2>3, <4>1
      <4>3. QED
        BY <4>1, <4>2
    <3>2. CASE ~(p < 0)
      BY <2>3, <3>2 DEF Size
    <3>3. QED
      BY <3>1, <3>2
  <2>5. PICK r \in Int : 1 = r * p + t * q
    BY <2>4
  <2>6. n = q * (r * m + t * n) /\ r * m + t * n \in Int
    <3>1. n * 1 = n * (r * p + t * q)
      BY <2>5
    <3>2. n * (r * p + t * q) = r * (p * n) + (t * n) * q
      BY <2>1, <2>3, <2>5
    <3>3. r * (m * q) + (t * n) * q = q * (r * m + t * n)
      BY <2>1, <2>3, <2>5
    <3>4. r * m + t * n \in Int
      BY <2>1, <2>3, <2>5
    <3>5. n * 1 = n
      BY <2>1
    <3>6. QED
      BY <2>2, <3>1, <3>2, <3>3, <3>4, <3>5
  <2>7. QED
    BY <2>6 DEF Divides, q, n
<1>3. x[2] = y[2]
  <2>1. Divides(x[2], y[2]) /\ Divides(y[2], x[2])
    BY <1>2, SameIsSymmetric
  <2>2. x[2] \in Nat /\ y[2] \in Nat
    BY <1>1, PartsOf
  <2>3. QED
    BY <2>1, <2>2, MutualDivisors
<1>4. x[1] = y[1]
  <2>1. x[1] * x[2] = y[1] * x[2]
    BY <1>3 DEF Same
  <2>2. QED
    BY <1>1, <2>1, PartsOf, Cancel
<1>5. QED
  BY <1>1, <1>3, <1>4, PartsOf

(* Equal values are reduced to the same pair.                               *)
LEMMA ReducedAlike ==
    ASSUME NEW x \in Fractions, NEW y \in Fractions, Same(x, y)
    PROVE  Reduced(x) = Reduced(y)
<1>1. Reduced(x) \in LowestTerms /\ Reduced(y) \in LowestTerms
  BY ReducedIsLowest
<1>2. Reduced(x) \in Fractions /\ Reduced(y) \in Fractions
  BY <1>1 DEF LowestTerms
<1>3. Same(Reduced(x), x) /\ Same(y, Reduced(y))
  BY ReducedIsLowest, SameIsSymmetric
<1>4. Same(Reduced(x), Reduced(y))
  BY <1>2, <1>3, SameIsTransitive
<1>5. QED
  BY <1>1, <1>4, LowestIsUnique

LEMMA WholeIsLowest ==
    ASSUME NEW n \in Int
    PROVE  Whole(n) \in LowestTerms
<1>1. Whole(n) \in Fractions
  BY FractionOf DEF Whole
<1>2. IsGcd(1, Size(n), 1)
  <2>1. Size(n) \in Int
    BY DEF Size
  <2>2. Size(n) = 1 * Size(n) /\ 1 = 1 * 1 /\ 1 = 0 * Size(n) + 1 * 1 /\ 0 \in Int /\ 1 \in Int /\ 1 \in Nat
    BY <2>1
  <2>3. QED
    BY <2>1, <2>2 DEF IsGcd, Divides
<1>3. Whole(n)[1] = n /\ Whole(n)[2] = 1
  BY DEF Whole
<1>4. QED
  BY <1>1, <1>2, <1>3 DEF LowestTerms

(* Sums and multiples: in lowest terms, and of the value they should have.  *)
LEMMA PlusIsLowest ==
    ASSUME NEW x \in Fractions, NEW y \in Fractions
    PROVE  /\ Plus(x, y) \in LowestTerms
           /\ Plus(x, y)[1] * (x[2] * y[2]) = (x[1] * y[2] + y[1] * x[2]) * Plus(x, y)[2]
<1> DEFINE z == <<x[1] * y[2] + y[1] * x[2], x[2] * y[2]>>
<1>1. x[1] * y[2] + y[1] * x[2] \in Int /\ x[2] * y[2] \in Nat \ {0}
  BY PartsOf
<1>2. z \in Fractions
  BY <1>1, FractionOf
<1>3. Plus(x, y) = Reduced(z)
  BY DEF Plus
<1>4. z[1] = x[1] * y[2] + y[1] * x[2] /\ z[2] = x[2] * y[2]
  OBVIOUS
<1> HIDE DEF z
<1>5. QED
  BY <1>2, <1>3, <1>4, ReducedIsLowest DEF Same

LEMMA ScaledIsLowest ==
    ASSUME NEW x \in Fractions, NEW n \in Int, NEW d \in Nat \ {0}
    PROVE  /\ <<x[1] * n, x[2] * d>> \in Fractions
           /\ Scaled(x, n, d) = Reduced(<<x[1] * n, x[2] * d>>)
           /\ Scaled(x, n, d) \in LowestTerms
           /\ Scaled(x, n, d)[1] * (x[2] * d) = (x[1] * n) * Scaled(x, n, d)[2]
<1> DEFINE z == <<x[1] * n, x[2] * d>>
<1>1. x[1] * n \in Int /\ x[2] * d \in Nat \ {0}
  BY PartsOf
<1>2. z \in Fractions
  BY <1>1, FractionOf
<1>3. Scaled(x, n, d) = Reduced(z)
  BY DEF Scaled
<1>4. z[1] = x[1] * n /\ z[2] = x[2] * d
  OBVIOUS
<1>5. QED
  <2> HIDE DEF z
  <2>1. Scaled(x, n, d) \in LowestTerms /\ Scaled(x, n, d)[1] * (x[2] * d) = (x[1] * n) * Scaled(x, n, d)[2]
    BY <1>2, <1>3, <1>4, ReducedIsLowest DEF Same
  <2>2. QED
    BY <1>2, <1>3, <2>1 DEF z

-----------------------------------------------------------------------------
(* Totals of fractions.                                                     *)

TotalUp(f, g, s) == IF s = {} THEN Whole(0) ELSE Plus(f[Taken(s)], g[s \ {Taken(s)}])
IsTotal(f, g, X) == g = [s \in X |-> TotalUp(f, g, s)]
Totals(f, S) == CHOOSE g : IsTotal(f, g, SUBSET S)

(* Totals are defined part by part, as the sums above.                      *)
LEMMA PartialTotals ==
    ASSUME NEW f, NEW S, IsFiniteSet(S), NEW n \in Nat
    PROVE  \E g : IsTotal(f, g, Parts(S, n))
<1> DEFINE T == {m \in Nat : \E g : IsTotal(f, g, Parts(S, m))}
<1>1. \A A \in SUBSET S : IsFiniteSet(A) /\ Cardinality(A) \in Nat
  BY FS_Subset, FS_CardinalityType
<1>2. 0 \in T
  <2> DEFINE g == [s \in Parts(S, 0) |-> Whole(0)]
  <2>1. \A s \in Parts(S, 0) : s = {}
    BY <1>1, FS_EmptySet DEF Parts
  <2>2. \A s \in Parts(S, 0) : TotalUp(f, g, s) = Whole(0)
    BY <2>1 DEF TotalUp
  <2>3. IsTotal(f, g, Parts(S, 0))
    BY <2>2 DEF IsTotal
  <2>4. QED
    BY <2>3
<1>3. \A m \in Nat : m \in T => m + 1 \in T
  <2> SUFFICES ASSUME NEW m \in Nat, m \in T PROVE m + 1 \in T
    OBVIOUS
  <2>0. PICK g : IsTotal(f, g, Parts(S, m))
    OBVIOUS
  <2>1. g = [s \in Parts(S, m) |-> TotalUp(f, g, s)]
    BY <2>0 DEF IsTotal
  <2> DEFINE h == [s \in Parts(S, m + 1) |-> TotalUp(f, g, s)]
  <2>2. ASSUME NEW s \in Parts(S, m + 1), s # {}
        PROVE  s \ {Taken(s)} \in Parts(S, m)
    <3>1. Taken(s) \in s
      BY <2>2 DEF Taken
    <3>2. s \in SUBSET S /\ Cardinality(s) \in Nat /\ Cardinality(s) <= m + 1 /\ IsFiniteSet(s)
      BY <1>1, <2>2 DEF Parts
    <3>3. Cardinality(s \ {Taken(s)}) = Cardinality(s) - 1
      BY <3>1, <3>2, FS_RemoveElement
    <3>4. QED
      BY <3>2, <3>3 DEF Parts
  <2>3. Parts(S, m) \subseteq Parts(S, m + 1)
    BY <1>1 DEF Parts
  <2>4. \A s \in Parts(S, m) : g[s] = h[s]
    BY <2>1, <2>3
  <2>5. \A s \in Parts(S, m + 1) : TotalUp(f, g, s) = TotalUp(f, h, s)
    BY <2>2, <2>4 DEF TotalUp
  <2>6. IsTotal(f, h, Parts(S, m + 1))
    BY <2>5 DEF IsTotal
  <2> HIDE DEF h
  <2>7. QED
    BY <2>6
<1> HIDE DEF T
<1>4. n \in T
  BY <1>2, <1>3, SetOfNaturals
<1>5. QED
  BY <1>4 DEF T

LEMMA TotalsOfParts ==
    ASSUME NEW f, NEW S, IsFiniteSet(S), NEW s \in SUBSET S
    PROVE  Totals(f, S)[s] = TotalUp(f, Totals(f, S), s)
<1> DEFINE g == Totals(f, S)
<1>1. Cardinality(S) \in Nat
  BY FS_CardinalityType
<1>2. Parts(S, Cardinality(S)) = SUBSET S
  BY FS_Subset DEF Parts
<1>3. \E t : IsTotal(f, t, Parts(S, Cardinality(S)))
  BY <1>1, PartialTotals
<1>4. IsTotal(f, g, SUBSET S)
  BY <1>2, <1>3 DEF Totals
<1> HIDE DEF g
<1>5. g[s] = TotalUp(f, g, s)
  BY <1>4 DEF IsTotal
<1>6. QED
  BY <1>5 DEF g

LEMMA TotalIsLast ==
    ASSUME NEW f
    PROVE  Total(f) = Totals(f, DOMAIN f)[DOMAIN f]
  BY DEF Total, FoldFunction, FoldFunctionOnSet, MapThenFoldSet, Totals, IsTotal, TotalUp, Taken

AllFractions(f) == \A x \in DOMAIN f : f[x] \in Fractions

(* By induction over the number of addends.                                 *)
LEMMA TotalsAreLowest ==
    ASSUME NEW f, IsFiniteSet(DOMAIN f), AllFractions(f)
    PROVE  \A s \in SUBSET DOMAIN f : Totals(f, DOMAIN f)[s] \in LowestTerms
<1> DEFINE S == DOMAIN f
           g == Totals(f, S)
           T == {n \in Nat : \A s \in SUBSET S : Cardinality(s) = n => g[s] \in LowestTerms}
<1>1. \A s \in SUBSET S : IsFiniteSet(s) /\ Cardinality(s) \in Nat
  BY FS_Subset, FS_CardinalityType
<1>2. \A s \in SUBSET S : g[s] = TotalUp(f, g, s)
  BY TotalsOfParts
<1> HIDE DEF g
<1>3. 0 \in T
  <2> SUFFICES ASSUME NEW s \in SUBSET S, Cardinality(s) = 0 PROVE g[s] \in LowestTerms
    OBVIOUS
  <2>1. s = {}
    BY <1>1, FS_EmptySet
  <2>2. QED
    BY <1>2, <2>1, WholeIsLowest DEF TotalUp
<1>4. \A n \in Nat : n \in T => n + 1 \in T
  <2> TAKE n \in Nat
  <2> HAVE n \in T
  <2>0. n + 1 \in Nat
    OBVIOUS
  <2> SUFFICES ASSUME NEW s \in SUBSET S, Cardinality(s) = n + 1 PROVE g[s] \in LowestTerms
    BY <2>0
  <2>1. s # {}
    BY FS_EmptySet
  <2>2. Taken(s) \in s
    BY <2>1 DEF Taken
  <2> DEFINE rest == s \ {Taken(s)}
  <2>3. rest \in SUBSET S /\ Cardinality(rest) = n
    BY <1>1, <2>2, OneFewer
  <2>4. g[rest] \in LowestTerms
    BY <2>3
  <2>5. f[Taken(s)] \in Fractions
    BY <2>2 DEF AllFractions
  <2>6. g[s] = Plus(f[Taken(s)], g[rest])
    BY <1>2, <2>1 DEF TotalUp
  <2>7. QED
    BY <2>4, <2>5, <2>6, PlusIsLowest DEF LowestTerms
<1> HIDE DEF T
<1>5. \A n \in Nat : n \in T
  BY <1>3, <1>4, SetOfNaturals
<1>6. QED
  BY <1>1, <1>5 DEF T, g

LEMMA TotalIsLowest ==
    ASSUME NEW f, IsFiniteSet(DOMAIN f), AllFractions(f)
    PROVE  Total(f) \in LowestTerms
  BY TotalsAreLowest, TotalIsLast

(* y is what x, of n grades, is on a scale of the given length from low.     *)
OnScale(x, y, n, low, length) ==
    y[1] * (x[2] * length) = (x[1] - (low * n) * x[2]) * y[2]

(* The total of grades that were put on the scale one by one.                *)
LEMMA TotalOnScale ==
    ASSUME NEW f, NEW h, DOMAIN h = DOMAIN f, IsFiniteSet(DOMAIN f), AllFractions(f), AllFractions(h),
           NEW low \in Int, NEW length \in Nat \ {0},
           \A x \in DOMAIN f : OnScale(f[x], h[x], 1, low, length)
    PROVE  OnScale(Total(f), Total(h), Cardinality(DOMAIN f), low, length)
<1> DEFINE S == DOMAIN f
           F == Totals(f, S)
           H == Totals(h, S)
           T == {n \in Nat : \A s \in SUBSET S : Cardinality(s) = n => OnScale(F[s], H[s], n, low, length)}
<1>1. \A s \in SUBSET S : IsFiniteSet(s) /\ Cardinality(s) \in Nat
  BY FS_Subset, FS_CardinalityType
<1>2. \A s \in SUBSET S : F[s] = TotalUp(f, F, s) /\ H[s] = TotalUp(h, H, s)
  BY TotalsOfParts
<1>3. \A s \in SUBSET S : F[s] \in LowestTerms /\ H[s] \in LowestTerms
  BY TotalsAreLowest
<1> HIDE DEF F, H
<1>4. 0 \in T
  <2> SUFFICES ASSUME NEW s \in SUBSET S, Cardinality(s) = 0 PROVE OnScale(F[s], H[s], 0, low, length)
    OBVIOUS
  <2>1. s = {}
    BY <1>1, FS_EmptySet
  <2>2. F[s] = <<0, 1>> /\ H[s] = <<0, 1>>
    BY <1>2, <2>1 DEF TotalUp, Whole
  <2>3. OnScale(<<0, 1>>, <<0, 1>>, 0, low, length)
    BY DEF OnScale
  <2>4. QED
    BY <2>2, <2>3
<1>5. \A n \in Nat : n \in T => n + 1 \in T
  <2> TAKE n \in Nat
  <2> HAVE n \in T
  <2>0. n + 1 \in Nat
    OBVIOUS
  <2> SUFFICES ASSUME NEW s \in SUBSET S, Cardinality(s) = n + 1 PROVE OnScale(F[s], H[s], n + 1, low, length)
    BY <2>0
  <2> DEFINE t == Taken(s) rest == s \ {t}
  <2>1. s # {}
    <3>1. s = {} => Cardinality(s) = 0
      BY FS_EmptySet
    <3>2. n + 1 # 0
      OBVIOUS
    <3>3. QED
      BY <3>1, <3>2
  <2>2. t \in s
    BY <2>1 DEF Taken
  <2>3. rest \in SUBSET S /\ Cardinality(rest) = n
    BY <1>1, <2>2, OneFewer
  <2>4. OnScale(F[rest], H[rest], n, low, length)
    BY <2>3
  <2>5. F[rest] \in Fractions /\ H[rest] \in Fractions
    BY <1>3, <2>3 DEF LowestTerms
  <2>6. f[t] \in Fractions /\ h[t] \in Fractions /\ OnScale(f[t], h[t], 1, low, length)
    BY <2>2 DEF AllFractions
  <2>7. F[s] = Plus(f[t], F[rest]) /\ H[s] = Plus(h[t], H[rest])
    BY <1>2, <2>1 DEF TotalUp
  <2> DEFINE a == f[t][1] b == f[t][2] c == h[t][1] d == h[t][2]
             p == F[rest][1] q == F[rest][2] u == H[rest][1] v == H[rest][2]
             pp == F[s][1] qq == F[s][2] uu == H[s][1] vv == H[s][2]
  <2>8. /\ a \in Int /\ b \in Int /\ c \in Int /\ d \in Int /\ b # 0 /\ d # 0
        /\ p \in Int /\ q \in Int /\ u \in Int /\ v \in Int /\ q # 0 /\ v # 0
    BY <2>5, <2>6, PartsOf
  <2>9. pp \in Int /\ qq \in Int /\ uu \in Int /\ vv \in Int
    BY <1>3, PartsOf DEF LowestTerms
  <2>10. pp * (b * q) = (a * q + p * b) * qq /\ uu * (d * v) = (c * v + u * d) * vv
    BY <2>5, <2>6, <2>7, PlusIsLowest
  <2>11. c * (b * length) = (a - low * b) * d
    BY <2>6, <2>8 DEF OnScale
  <2>12. u * (q * length) = (p - (low * n) * q) * v
    BY <2>4 DEF OnScale
  <2> SUFFICES uu * (qq * length) = (pp - (low * (n + 1)) * qq) * vv
    BY DEF OnScale
  <2> HIDE DEF a, b, c, d, p, q, u, v, pp, qq, uu, vv
  <2>13. length \in Int /\ n \in Int
    OBVIOUS
  <2>14. QED
    <3> DEFINE z == (b * q) * (d * v)
               left == uu * (qq * length)
               right == (pp - (low * (n + 1)) * qq) * vv
    <3>1. z \in Int /\ z # 0
      BY <2>8, <2>9, <2>10, <2>11, <2>12, <2>13
    <3>2. left * z = (uu * (d * v)) * (qq * length * b * q)
      BY <2>8, <2>9, <2>10, <2>11, <2>12, <2>13
    <3>3. (uu * (d * v)) * (qq * length * b * q) = ((c * v + u * d) * vv) * (qq * length * b * q)
      BY <2>8, <2>9, <2>10, <2>11, <2>12, <2>13
    <3>4. ((c * v + u * d) * vv) * (qq * length * b * q)
             = (c * (b * length)) * (v * q * vv * qq) + (u * (q * length)) * (d * b * vv * qq)
      BY <2>8, <2>9, <2>10, <2>11, <2>12, <2>13
    <3>5. (c * (b * length)) * (v * q * vv * qq) + (u * (q * length)) * (d * b * vv * qq)
             = ((a - low * b) * d) * (v * q * vv * qq) + ((p - (low * n) * q) * v) * (d * b * vv * qq)
      BY <2>8, <2>9, <2>10, <2>11, <2>12, <2>13
    <3>6. ((a - low * b) * d) * (v * q * vv * qq) + ((p - (low * n) * q) * v) * (d * b * vv * qq)
             = ((a * q + p * b) * qq) * (d * v * vv) - (low * (n + 1)) * (b * q * d * v * vv * qq)
      BY <2>8, <2>9, <2>10, <2>11, <2>12, <2>13
    <3>7. ((a * q + p * b) * qq) * (d * v * vv) = (pp * (b * q)) * (d * v * vv)
      BY <2>8, <2>9, <2>10, <2>11, <2>12, <2>13
    <3>8. (pp * (b * q)) * (d * v * vv) - (low * (n + 1)) * (b * q * d * v * vv * qq) = right * z
      BY <2>8, <2>9, <2>10, <2>11, <2>12, <2>13
    <3>9. left * z = right * z
      BY <3>2, <3>3, <3>4, <3>5, <3>6, <3>7, <3>8
    <3>10. left \in Int /\ right \in Int
      BY <2>8, <2>9, <2>10, <2>11, <2>12, <2>13
    <3> HIDE DEF z, left, right
    <3>11. left = right
      BY <3>1, <3>9, <3>10, Cancel
    <3>12. QED
      BY <3>11 DEF left, right
<1> HIDE DEF T
<1>6. \A n \in Nat : n \in T
  BY <1>4, <1>5, SetOfNaturals
<1>7. Cardinality(S) \in T
  BY <1>1, <1>6
<1>8. OnScale(F[S], H[S], Cardinality(S), low, length)
  BY <1>7 DEF T
<1>9. QED
  BY <1>8, TotalIsLast DEF F, H

-----------------------------------------------------------------------------
(* Grades and their averages.                                               *)

LEMMA AtLeastOne ==
    ASSUME NEW n \in Nat
    PROVE  Max({n, 1}) = IF n = 0 THEN 1 ELSE n
<1> DEFINE m == IF n = 0 THEN 1 ELSE n
<1>1. m \in {n, 1} /\ \A y \in {n, 1} : m >= y
  OBVIOUS
<1>2. \A x \in {n, 1} : (\A y \in {n, 1} : x >= y) => x = m
  OBVIOUS
<1> HIDE DEF m
<1>3. Max({n, 1}) = m
  BY <1>1, <1>2 DEF Max
<1>4. QED
  BY <1>3 DEF m

Divided(n) == IF n = 0 THEN 1 ELSE n

(* An average is the total divided, by one at least.                        *)
LEMMA AverageIsLowest ==
    ASSUME NEW f, IsFiniteSet(DOMAIN f), AllFractions(f), NEW n \in Nat
    PROVE  /\ Average(f, n) \in LowestTerms
           /\ Average(f, n)[1] * (Total(f)[2] * Divided(n)) = Total(f)[1] * Average(f, n)[2]
<1>1. Average(f, n) = Scaled(Total(f), 1, Divided(n))
  BY AtLeastOne DEF Average, Divided
<1>2. Total(f) \in Fractions /\ Divided(n) \in Nat \ {0} /\ 1 \in Int
  BY TotalIsLowest DEF LowestTerms, Divided
<1>3. Total(f)[1] * 1 = Total(f)[1]
  BY <1>2, PartsOf
<1>4. QED
  BY <1>1, <1>2, <1>3, ScaledIsLowest

(* A scale has a length: its highest grade is above its lowest.             *)
LEMMA ScalesAreLong ==
    ASSUME NEW c \in DOMAIN Criterion
    PROVE  Lowest(c) \in Int /\ Highest(c) - Lowest(c) \in Nat \ {0}
  BY ScoringAssumption DEF Lowest, Highest

(* A grade put on its scale.                                                *)
LEMMA NormalisedIsLowest ==
    ASSUME NEW c \in DOMAIN Criterion, NEW x \in Fractions
    PROVE  /\ Normalised(c, x) \in LowestTerms
           /\ OnScale(x, Normalised(c, x), 1, Lowest(c), Highest(c) - Lowest(c))
<1> DEFINE low == Lowest(c) length == Highest(c) - Lowest(c)
           w == Whole(-low) y == Plus(x, w) z == Normalised(c, x)
<1>1. low \in Int /\ length \in Nat \ {0} /\ length \in Int
  BY ScalesAreLong
<1>2. w \in Fractions /\ w[1] = -low /\ w[2] = 1
  <2>1. -low \in Int
    BY <1>1
  <2>2. QED
    BY <2>1, WholeIsLowest DEF LowestTerms, Whole
<1>3. y \in Fractions /\ y[1] * (x[2] * w[2]) = (x[1] * w[2] + w[1] * x[2]) * y[2]
  BY <1>2, PlusIsLowest DEF LowestTerms
<1>4. z = Scaled(y, 1, length)
  BY DEF Normalised
<1> HIDE DEF low, length, w, y, z
<1>5. z \in LowestTerms /\ z[1] * (y[2] * length) = (y[1] * 1) * z[2]
  <2>1. 1 \in Int
    OBVIOUS
  <2>2. /\ Scaled(y, 1, length) \in LowestTerms
        /\ Scaled(y, 1, length)[1] * (y[2] * length) = (y[1] * 1) * Scaled(y, 1, length)[2]
    BY <1>1, <1>3, <2>1, ScaledIsLowest
  <2>3. QED
    BY <1>4, <2>2
<1> DEFINE a == x[1] b == x[2] p == y[1] q == y[2] u == z[1] v == z[2]
<1>6. /\ a \in Int /\ b \in Int /\ b # 0 /\ p \in Int /\ q \in Int /\ q # 0
      /\ u \in Int /\ v \in Int
  BY <1>3, <1>5, PartsOf DEF LowestTerms
<1>7. p * (b * 1) = (a * 1 + (-low) * b) * q /\ u * (q * length) = (p * 1) * v
  BY <1>2, <1>3, <1>5
<1> SUFFICES u * (b * length) = (a - (low * 1) * b) * v
  BY <1>5 DEF OnScale, low, length, z
<1> HIDE DEF a, b, p, q, u, v
<1>8. (u * (b * length)) * q = (u * (q * length)) * b
  BY <1>1, <1>6
<1>9. ((p * 1) * v) * b = (p * (b * 1)) * v
  BY <1>6
<1>10. ((a * 1 + (-low) * b) * q) * v = ((a - (low * 1) * b) * v) * q
  BY <1>1, <1>6
<1>11. (u * (b * length)) * q = ((a - (low * 1) * b) * v) * q
  BY <1>7, <1>8, <1>9, <1>10
<1>12. u * (b * length) \in Int /\ (a - (low * 1) * b) * v \in Int
  BY <1>1, <1>6
<1>13. QED
  BY <1>6, <1>11, <1>12, Cancel

(* Averaging grades and putting the average on the scale, or averaging what *)
(* was put on the scale one by one: the same, for a scale from zero or for   *)
(* as many grades as are averaged over.                                      *)
LEMMA AveragesAgree ==
    ASSUME NEW c \in DOMAIN Criterion, NEW f, IsFiniteSet(DOMAIN f), AllFractions(f),
           NEW n \in Nat, Lowest(c) = 0 \/ (n = Cardinality(DOMAIN f) /\ n # 0)
    PROVE  Average([x \in DOMAIN f |-> Normalised(c, f[x])], n) = Normalised(c, Average(f, n))
<1> DEFINE low == Lowest(c) length == Highest(c) - Lowest(c)
           h == [x \in DOMAIN f |-> Normalised(c, f[x])]
           N == Divided(n) k == Cardinality(DOMAIN f)
           F == Total(f) H == Total(h)
           x == Average(f, n) y == Normalised(c, x) z == Average(h, n)
<1>1. low \in Int /\ length \in Nat \ {0} /\ length \in Int
  BY ScalesAreLong
<1>2. N \in Nat \ {0} /\ k \in Nat
  BY FS_CardinalityType DEF Divided
<1>3. low * k = low * N
  BY <1>1, <1>2 DEF Divided
<1>4. DOMAIN h = DOMAIN f
  OBVIOUS
<1>5. \A i \in DOMAIN f : h[i] \in LowestTerms /\ OnScale(f[i], h[i], 1, low, length)
  BY NormalisedIsLowest DEF AllFractions
<1>6. AllFractions(h)
  BY <1>4, <1>5 DEF AllFractions, LowestTerms
<1> HIDE DEF h, low, length
<1>7. OnScale(F, H, k, low, length)
  BY <1>1, <1>4, <1>5, <1>6, TotalOnScale
<1>8. F \in Fractions /\ H \in Fractions
  BY <1>4, <1>6, TotalIsLowest DEF LowestTerms
<1>9. x \in LowestTerms /\ x[1] * (F[2] * N) = F[1] * x[2]
  BY AverageIsLowest
<1>10. z \in LowestTerms /\ z[1] * (H[2] * N) = H[1] * z[2]
  BY <1>4, <1>6, AverageIsLowest
<1>11. y \in LowestTerms /\ OnScale(x, y, 1, low, length)
  BY <1>9, NormalisedIsLowest DEF LowestTerms, low, length
<1> DEFINE p == F[1] q == F[2] u == H[1] v == H[2]
           a == x[1] b == x[2] s == y[1] t == y[2] d == z[1] e == z[2]
<1>12. /\ p \in Int /\ q \in Int /\ u \in Int /\ v \in Int /\ q # 0 /\ v # 0
       /\ a \in Int /\ b \in Int /\ s \in Int /\ t \in Int /\ d \in Int /\ e \in Int
       /\ b # 0 /\ t # 0 /\ e # 0
  BY <1>8, <1>9, <1>10, <1>11, PartsOf DEF LowestTerms
<1>13. u * (q * length) = (p - (low * N) * q) * v
  BY <1>3, <1>7 DEF OnScale
<1>14. a * (q * N) = p * b /\ d * (v * N) = u * e
  BY <1>9, <1>10
<1>15. s * (b * length) = (a - (low * 1) * b) * t
  BY <1>11 DEF OnScale
<1>16. y \in Fractions /\ z \in Fractions
  BY <1>10, <1>11 DEF LowestTerms
<1> HIDE DEF N, k, F, H, x, y, z
<1>17. d * t = s * e
  <2> HIDE DEF p, q, u, v, a, b, s, t, d, e
  <2> DEFINE m == (v * N) * ((q * b) * length)
  <2>1. N \in Int /\ N # 0 /\ length # 0
    BY <1>1, <1>2
  <2>2. m \in Int /\ m # 0
    <3>1. v * N \in Int /\ v * N # 0
      BY <1>12, <2>1
    <3>2. q * b \in Int /\ q * b # 0
      BY <1>12
    <3>3. (q * b) * length \in Int /\ (q * b) * length # 0
      BY <1>1, <2>1, <3>2
    <3> DEFINE m1 == v * N m2 == (q * b) * length
    <3> HIDE DEF m1, m2
    <3>4. m1 * m2 \in Int /\ m1 * m2 # 0
      BY <3>1, <3>3 DEF m1, m2
    <3>5. QED
      BY <3>4 DEF m1, m2
  <2>3. (d * t) * m = (d * (v * N)) * (t * q * b * length)
    BY <1>1, <1>12, <2>1
  <2>4. (d * (v * N)) * (t * q * b * length) = (u * e) * (t * q * b * length)
    BY <1>14
  <2>5. (u * e) * (t * q * b * length) = (u * (q * length)) * (e * t * b)
    BY <1>1, <1>12
  <2>6. (u * (q * length)) * (e * t * b) = ((p - (low * N) * q) * v) * (e * t * b)
    BY <1>13
  <2>7. ((p - (low * N) * q) * v) * (e * t * b) = (p * b) * (v * e * t) - (low * N * q) * (v * e * t * b)
    BY <1>1, <1>12, <2>1
  <2>8. (p * b) * (v * e * t) - (low * N * q) * (v * e * t * b)
           = (a * (q * N)) * (v * e * t) - (low * N * q) * (v * e * t * b)
    BY <1>14
  <2>9. (a * (q * N)) * (v * e * t) - (low * N * q) * (v * e * t * b)
           = ((a - (low * 1) * b) * t) * (q * N * v * e)
    BY <1>1, <1>12, <2>1
  <2>10. ((a - (low * 1) * b) * t) * (q * N * v * e) = (s * (b * length)) * (q * N * v * e)
    BY <1>15
  <2>11. (s * (b * length)) * (q * N * v * e) = (s * e) * m
    BY <1>1, <1>12, <2>1
  <2>12. (d * t) * m = (s * e) * m
    BY <2>3, <2>4, <2>5, <2>6, <2>7, <2>8, <2>9, <2>10, <2>11
  <2>13. d * t \in Int /\ s * e \in Int
    BY <1>12
  <2> HIDE DEF m
  <2>14. QED
    BY <2>2, <2>12, <2>13, Cancel
<1>18. Same(z, y)
  BY <1>17 DEF Same, d, t, s, e
<1>19. z = y
  BY <1>10, <1>11, <1>18, LowestIsUnique
<1>20. QED
  BY <1>19 DEF h, x, y, z

-----------------------------------------------------------------------------
(* Everything the results are computed from is a fraction.                  *)

AllPositive(f, S) == \A x \in S : f[x] \in Nat \ {0}

(* Weights are positive, and so is their sum.                               *)
LEMMA SumIsPositive ==
    ASSUME NEW f, NEW S, IsFiniteSet(S), AllPositive(f, S)
    PROVE  SumFunctionOnSet(f, S) \in Nat /\ (S # {} => SumFunctionOnSet(f, S) \in Nat \ {0})
<1> DEFINE T == {A \in SUBSET S : /\ SumFunctionOnSet(f, A) \in Nat
                                  /\ A # {} => SumFunctionOnSet(f, A) \in Nat \ {0}}
<1>1. {} \in T
  BY SumOfEmpty
<1>2. \A A \in SUBSET S : \A x \in S \ A : A \in T => A \cup {x} \in T
  <2> SUFFICES ASSUME NEW A \in SUBSET S, NEW x \in S \ A, A \in T
               PROVE  A \cup {x} \in T
    OBVIOUS
  <2>1. IsFiniteSet(A) /\ AllNumbers(f, A \cup {x})
    BY FS_Subset DEF AllNumbers, AllPositive
  <2>2. SumFunctionOnSet(f, A \cup {x}) = f[x] + SumFunctionOnSet(f, A)
    BY <2>1, SumWith
  <2>3. f[x] \in Nat \ {0} /\ SumFunctionOnSet(f, A) \in Nat
    BY DEF AllPositive
  <2>4. SumFunctionOnSet(f, A \cup {x}) \in Nat \ {0}
    BY <2>2, <2>3
  <2>5. QED
    BY <2>4
<1>3. S \in T
  BY <1>1, <1>2, SetOfFiniteSets
<1>4. QED
  BY <1>3

LEMMA WeightIsPositive ==
    ASSUME NEW S \in SUBSET DOMAIN Criterion, S # {}
    PROVE  Weight(S) \in Nat \ {0}
<1> DEFINE f == [c \in S |-> Criterion[c].weight]
<1>1. IsFiniteSet(S) /\ AllPositive(f, S)
  BY ScoringAssumption, FS_Subset DEF AllPositive
<1>2. Weight(S) = SumFunctionOnSet(f, S)
  BY DEF Weight, SumFunction
<1> HIDE DEF f
<1>3. QED
  BY <1>1, <1>2, SumIsPositive

LEMMA LowestAreFractions == LowestTerms \subseteq Fractions
  BY DEF LowestTerms

LEMMA ReducedFraction ==
    ASSUME NEW n \in Int, NEW d \in Nat \ {0}
    PROVE  Reduced(<<n, d>>) \in Fractions
  BY FractionOf, ReducedIsLowest, LowestAreFractions

(* The grade of a valid number: no target and no result that is divided by  *)
(* is zero.                                                                 *)
LEMMA GradeIsFraction ==
    ASSUME NEW c \in DOMAIN Criterion, NEW n \in Int, Valid(c, n)
    PROVE  Grade(c, n) \in Fractions
<1> DEFINE t == Criterion[c].target
           higher == Reduced(<<5 * n, t>>) lower == Reduced(<<5 * t, n>>)
<1>1. Whole(5) \in Fractions /\ Whole(n) \in Fractions
  <2>1. 5 \in Int
    OBVIOUS
  <2>2. QED
    BY <2>1, WholeIsLowest, LowestAreFractions
<1>2. CASE Criterion[c].activity \notin Converted
  BY <1>1, <1>2 DEF Grade
<1>3. CASE Criterion[c].activity \in Converted
  <2>1. t \in Nat \ {0} /\ n >= 0
    BY <1>3, ScoringAssumption DEF Valid
  <2>2. Grade(c, n) \in {Whole(5), higher} \/ (n # 0 /\ Grade(c, n) = lower)
    BY <1>3 DEF Grade
  <2> HIDE DEF t
  <2>3. 5 * n \in Int /\ 5 * t \in Int /\ (n # 0 => n \in Nat \ {0})
    BY <2>1
  <2>4. higher \in Fractions /\ (n # 0 => lower \in Fractions)
    BY <2>1, <2>3, ReducedFraction
  <2> HIDE DEF higher, lower
  <2>5. QED
    BY <1>1, <2>2, <2>4
<1>4. QED
  BY <1>2, <1>3

LEMMA WeighedIsFraction ==
    ASSUME NEW x \in Fractions, NEW w \in Nat
    PROVE  Scaled(x, w, 1) \in LowestTerms
<1>1. w \in Int /\ 1 \in Nat \ {0}
  OBVIOUS
<1>2. QED
  BY <1>1, ScaledIsLowest

LEMMA CriteriaHaveWeights ==
    ASSUME NEW c \in DOMAIN Criterion
    PROVE  Criterion[c].weight \in Nat /\ 5 * Criterion[c].weight \in Nat
  BY ScoringAssumption

(* An activity has criteria, so its weights can be divided by.              *)
LEMMA CriteriaOfActivity ==
    ASSUME NEW a \in ActivityNames
    PROVE  CriteriaOf(a) \in SUBSET DOMAIN Criterion /\ CriteriaOf(a) # {} /\ IsFiniteSet(CriteriaOf(a))
<1>1. CriteriaOf(a) \in SUBSET DOMAIN Criterion /\ CriteriaOf(a) # {}
  BY DEF CriteriaOf, ActivityNames
<1>2. QED
  BY <1>1, ScoringAssumption, FS_Subset

(* What a response holds for a criterion.                                   *)
LEMMA ResponseOf ==
    ASSUME NEW a, NEW f \in Responses(a), NEW c \in CriteriaOf(a)
    PROVE  f[c] \in Int /\ Valid(c, f[c])
<1>1. c \in DOMAIN Criterion /\ f[c] \in Entered[c] /\ Valid(c, f[c])
  BY DEF Responses, CriteriaOf
<1>2. Entered[c] \subseteq Int
  BY <1>1, ScoringAssumption
<1>3. QED
  BY <1>1, <1>2

LEMMA RoundedIsFraction ==
    ASSUME NEW x \in Fractions
    PROVE  TwoPlaces(x) \in Fractions
<1>1. 200 * x[1] + x[2] \in Int /\ 2 * x[2] \in Int /\ 2 * x[2] > 0
  BY PartsOf
<1>2. (200 * x[1] + x[2]) \div (2 * x[2]) \in Int
  BY <1>1
<1>3. 100 \in Nat \ {0}
  OBVIOUS
<1>4. QED
  BY <1>2, <1>3, FractionOf DEF TwoPlaces

(* The score of an evaluation.                                              *)
LEMMA ScoreIsFraction ==
    ASSUME NEW a \in ActivityNames, NEW f \in Responses(a)
    PROVE  Score(a, f) \in Fractions
<1> DEFINE part(c) == Scaled(Normalised(c, Grade(c, f[c])), 5 * Criterion[c].weight, 1)
           h == [c \in CriteriaOf(a) |-> part(c)]
           w == Weight(CriteriaOf(a))
<1>1. ASSUME NEW c \in CriteriaOf(a)
      PROVE  part(c) \in Fractions
  <2>1. c \in DOMAIN Criterion
    BY DEF CriteriaOf
  <2>2. Grade(c, f[c]) \in Fractions
    BY <2>1, ResponseOf, GradeIsFraction
  <2>3. Normalised(c, Grade(c, f[c])) \in Fractions
    BY <2>1, <2>2, NormalisedIsLowest, LowestAreFractions
  <2>4. QED
    BY <2>1, <2>3, CriteriaHaveWeights, WeighedIsFraction, LowestAreFractions
<1>2. w \in Nat \ {0}
  BY CriteriaOfActivity, WeightIsPositive
<1>3. Score(a, f) = TwoPlaces(Scaled(Total(h), 1, w))
  BY DEF Score
<1> HIDE DEF part, w
<1>4. DOMAIN h = CriteriaOf(a) /\ AllFractions(h)
  BY <1>1 DEF AllFractions
<1> HIDE DEF h
<1>5. Total(h) \in Fractions
  BY <1>4, CriteriaOfActivity, TotalIsLowest, LowestAreFractions
<1>6. Scaled(Total(h), 1, w) \in Fractions
  <2>1. 1 \in Int
    OBVIOUS
  <2>2. QED
    BY <1>2, <1>5, <2>1, ScaledIsLowest, LowestAreFractions
<1>7. QED
  BY <1>3, <1>6, RoundedIsFraction

-----------------------------------------------------------------------------
(* What is entered of one recruit.                                          *)

(* The assignments of a recruit in an activity are finitely many.           *)
LEMMA ExpectedTasks ==
    ASSUME NEW r, NEW a
    PROVE  /\ IsFiniteSet(Expected(r, a)) /\ IsFiniteSet(Submitted(r, a))
           /\ Cardinality(Expected(r, a)) \in Nat /\ Cardinality(Submitted(r, a)) \in Nat
           /\ Submitted(r, a) \subseteq DOMAIN evaluations
           /\ Submitted(r, a) \subseteq Expected(r, a)
           /\ \A t \in Submitted(r, a) : t.activity = a
<1>1. Expected(r, a) \subseteq ActivityTasks /\ Submitted(r, a) \subseteq ActivityTasks
  BY DEF Expected, Submitted
<1>2. IsFiniteSet(Expected(r, a)) /\ IsFiniteSet(Submitted(r, a))
  BY <1>1, ScoringAssumption, FS_Subset
<1>3. QED
  BY <1>2, FS_CardinalityType DEF Expected, Submitted

(* How many evaluations are averaged over.                                  *)
LEMMA DivisorIsNumber ==
    ASSUME NEW r, NEW a, NEW n \in Nat
    PROVE  Divisor(r, a, n) \in Nat
  BY ExpectedTasks DEF Divisor

(* The score of an activity.                                                *)
LEMMA ActivityIsFraction ==
    ASSUME TypeOKScoring, NEW r \in Graded, NEW a \in ActivityNames
    PROVE  AutomaticActivity(r, a) \in Fractions
<1>1. CASE ByAdmin(r, a)
  <2>1. adminEvaluations[<<r, a>>] \in Responses(a)
    BY <1>1 DEF TypeOKScoring, ByAdmin
  <2>2. QED
    BY <1>1, <2>1, ScoreIsFraction DEF AutomaticActivity
<1>2. CASE ~ByAdmin(r, a)
  <2> DEFINE h == [t \in Submitted(r, a) |-> Score(a, evaluations[t])]
             n == Divisor(r, a, Cardinality(Submitted(r, a)))
  <2>1. n \in Nat
    BY ExpectedTasks, DivisorIsNumber
  <2>2. \A t \in Submitted(r, a) : evaluations[t] \in Responses(a)
    BY ExpectedTasks DEF TypeOKScoring
  <2>3. IsFiniteSet(DOMAIN h) /\ AllFractions(h)
    BY <2>2, ExpectedTasks, ScoreIsFraction DEF AllFractions
  <2>4. AutomaticActivity(r, a) = Average(h, n)
    BY <1>2 DEF AutomaticActivity
  <2> HIDE DEF h, n
  <2>5. QED
    BY <2>1, <2>3, <2>4, AverageIsLowest, LowestAreFractions
<1>3. QED
  BY <1>1, <1>2

(* The responses a grade comes from: the administrator's one, or those      *)
(* submitted.                                                               *)
LEMMA SourcesOf ==
    ASSUME TypeOKScoring, NEW r \in Graded, NEW a \in ActivityNames
    PROVE  /\ IsFiniteSet(DOMAIN Sources(r, a))
           /\ \A x \in DOMAIN Sources(r, a) : Sources(r, a)[x] \in Responses(a)
           /\ ByAdmin(r, a) => Cardinality(DOMAIN Sources(r, a)) = 1
           /\ ~ByAdmin(r, a) => DOMAIN Sources(r, a) = Submitted(r, a)
<1>1. CASE ByAdmin(r, a)
  <2> DEFINE x == <<r, a>>
  <2>1. adminEvaluations[x] \in Responses(a)
    BY <1>1 DEF TypeOKScoring, ByAdmin
  <2>2. Sources(r, a) = [y \in {x} |-> adminEvaluations[y]]
    BY <1>1 DEF Sources
  <2> HIDE DEF x
  <2>3. IsFiniteSet({x}) /\ Cardinality({x}) = 1
    BY FS_Singleton
  <2>4. QED
    BY <1>1, <2>1, <2>2, <2>3
<1>2. CASE ~ByAdmin(r, a)
  <2>1. Sources(r, a) = [t \in Submitted(r, a) |-> evaluations[t]]
    BY <1>2 DEF Sources, Restrict
  <2>2. \A t \in Submitted(r, a) : evaluations[t] \in Responses(a)
    BY ExpectedTasks DEF TypeOKScoring
  <2>3. QED
    BY <1>2, <2>1, <2>2, ExpectedTasks
<1>3. QED
  BY <1>1, <1>2

(* The grades of a criterion.                                               *)
LEMMA GradesAreFractions ==
    ASSUME TypeOKScoring, NEW r \in Graded, NEW c \in DOMAIN Criterion
    PROVE  /\ Criterion[c].activity \in ActivityNames
           /\ DOMAIN GradesOf(r, c) = DOMAIN Sources(r, Criterion[c].activity)
           /\ IsFiniteSet(DOMAIN GradesOf(r, c)) /\ AllFractions(GradesOf(r, c))
           /\ Cardinality(DOMAIN GradesOf(r, c)) \in Nat
<1> DEFINE a == Criterion[c].activity
           from == Sources(r, a)
<1>1. a \in ActivityNames /\ c \in CriteriaOf(a)
  BY DEF ActivityNames, CriteriaOf
<1>2. GradesOf(r, c) = [x \in DOMAIN from |-> Grade(c, from[x][c])]
  BY DEF GradesOf
<1> HIDE DEF a, from
<1>3. \A x \in DOMAIN from : from[x] \in Responses(a)
  BY <1>1, SourcesOf DEF from
<1>4. \A x \in DOMAIN from : Grade(c, from[x][c]) \in Fractions
  BY <1>1, <1>3, ResponseOf, GradeIsFraction
<1>5. DOMAIN GradesOf(r, c) = DOMAIN from /\ AllFractions(GradesOf(r, c))
  BY <1>2, <1>4 DEF AllFractions
<1>6. IsFiniteSet(DOMAIN from)
  BY <1>1, SourcesOf DEF from
<1>7. QED
  BY <1>1, <1>5, <1>6, FS_CardinalityType DEF from, a

LEMMA AverageOfGrades ==
    ASSUME TypeOKScoring, NEW r \in Graded, NEW c \in DOMAIN Criterion
    PROVE  Divisor(r, Criterion[c].activity, Cardinality(DOMAIN GradesOf(r, c))) \in Nat
  BY GradesAreFractions, DivisorIsNumber

(* A fact of the editor, corrected or averaged.                             *)
LEMMA FactIsFraction ==
    ASSUME TypeOKScoring, NEW r \in Graded, NEW c \in DOMAIN Criterion
    PROVE  Fact(r, c) \in Fractions
<1> DEFINE grades == GradesOf(r, c)
           h == [x \in DOMAIN grades |-> Normalised(c, grades[x])]
           n == Divisor(r, Criterion[c].activity, Cardinality(DOMAIN grades))
<1>1. CASE <<r, c>> \in DOMAIN overrides
  <2>1. Fact(r, c) \in {<<0, 1>>, <<1, 1>>}
    BY <1>1 DEF Fact, TypeOKScoring
  <2>2. QED
    BY <2>1 DEF Fractions
<1>2. CASE <<r, c>> \notin DOMAIN overrides
  <2>1. Fact(r, c) = Average(h, n)
    BY <1>2 DEF Fact
  <2>2. n \in Nat /\ IsFiniteSet(DOMAIN grades) /\ AllFractions(grades)
    BY AverageOfGrades, GradesAreFractions
  <2> HIDE DEF grades, n
  <2>3. IsFiniteSet(DOMAIN h) /\ AllFractions(h)
    BY <2>2, NormalisedIsLowest, LowestAreFractions DEF AllFractions
  <2> HIDE DEF h
  <2>4. QED
    BY <2>1, <2>2, <2>3, AverageIsLowest, LowestAreFractions
<1>3. QED
  BY <1>1, <1>2

(* What the editor shows of a set of criteria.                              *)
LEMMA WeightedIsLowest ==
    ASSUME TypeOKScoring, NEW r \in Graded, NEW S \in SUBSET DOMAIN Criterion, S # {}
    PROVE  Weighted(r, S) \in LowestTerms
<1> DEFINE h == [c \in S |-> Scaled(Fact(r, c), Criterion[c].weight, 1)]
<1>1. IsFiniteSet(S)
  BY ScoringAssumption, FS_Subset
<1>2. \A c \in S : Scaled(Fact(r, c), Criterion[c].weight, 1) \in Fractions
  BY FactIsFraction, CriteriaHaveWeights, WeighedIsFraction, LowestAreFractions
<1>3. AllFractions(h) /\ DOMAIN h = S
  BY <1>2 DEF AllFractions
<1>4. Weighted(r, S) = Scaled(Total(h), 1, Weight(S))
  BY DEF Weighted
<1> HIDE DEF h
<1>5. Total(h) \in Fractions /\ Weight(S) \in Nat \ {0} /\ 1 \in Int
  BY <1>1, <1>3, TotalIsLowest, LowestAreFractions, WeightIsPositive
<1>6. QED
  BY <1>4, <1>5, ScaledIsLowest

-----------------------------------------------------------------------------
(* Dimensions and the overall score.                                        *)

(* What a criterion adds to its dimension in the results.                   *)
LEMMA CriterionShareIsLowest ==
    ASSUME TypeOKScoring, NEW r \in Graded, NEW c \in DOMAIN Criterion
    PROVE  CriterionShare(r, c) \in LowestTerms
<1> DEFINE grades == GradesOf(r, c)
           k == Cardinality(DOMAIN grades)
           n == Divisor(r, Criterion[c].activity, k)
           average == IF k = 0 THEN Whole(0) ELSE Average(grades, n)
<1>1. IsFiniteSet(DOMAIN grades) /\ AllFractions(grades) /\ n \in Nat
  BY GradesAreFractions, AverageOfGrades
<1>2. CriterionShare(r, c) = Scaled(Normalised(c, average), Criterion[c].weight, 1)
  BY DEF CriterionShare
<1> HIDE DEF grades, n, k
<1>3. Average(grades, n) \in Fractions /\ Whole(0) \in Fractions
  <2>1. 0 \in Int
    OBVIOUS
  <2>2. QED
    BY <1>1, <2>1, AverageIsLowest, WholeIsLowest, LowestAreFractions
<1>4. average \in Fractions
  BY <1>3
<1> HIDE DEF average
<1>5. Normalised(c, average) \in Fractions
  BY <1>4, NormalisedIsLowest, LowestAreFractions
<1>6. QED
  BY <1>2, <1>5, CriteriaHaveWeights, WeighedIsFraction

(* A dimension is an activity or has criteria of its own.                   *)
LEMMA DimensionsHaveCriteria ==
    ASSUME NEW d \in DOMAIN Dimension
    PROVE  /\ InDimension(d) \in SUBSET DOMAIN Criterion
           /\ Dimension[d].source = "activity" => Dimension[d].activity \in ActivityNames
           /\ Dimension[d].source # "activity" => InDimension(d) # {}
<1>1. InDimension(d) \in SUBSET DOMAIN Criterion
  BY DEF InDimension
<1>2. \/ Dimension[d].source = "criteria" /\ InDimension(d) # {}
      \/ Dimension[d].source = "activity" /\ Dimension[d].activity \in ActivityNames
  BY ScoringAssumption
<1>3. QED
  BY <1>1, <1>2

(* Activities are scored up to five, dimensions up to one.                  *)
LEMMA FifthIsLowest ==
    ASSUME NEW x \in Fractions
    PROVE  Scaled(x, 1, 5) \in LowestTerms /\ Scaled(x, 5, 1) \in LowestTerms
<1>1. 1 \in Int /\ 5 \in Int /\ 1 \in Nat \ {0} /\ 5 \in Nat \ {0}
  OBVIOUS
<1>2. QED
  BY <1>1, ScaledIsLowest

(* A dimension nobody corrected.                                            *)
LEMMA AutomaticDimensionIsLowest ==
    ASSUME TypeOKScoring, NEW r \in Graded, NEW d \in DOMAIN Dimension
    PROVE  AutomaticDimension(r, d) \in LowestTerms
<1>1. CASE Dimension[d].source = "activity"
  <2>1. AutomaticActivity(r, Dimension[d].activity) \in Fractions
    BY <1>1, DimensionsHaveCriteria, ActivityIsFraction
  <2>2. AutomaticDimension(r, d) = Scaled(AutomaticActivity(r, Dimension[d].activity), 1, 5)
    BY <1>1 DEF AutomaticDimension
  <2>3. QED
    BY <2>1, <2>2, FifthIsLowest
<1>2. CASE Dimension[d].source # "activity"
  <2> DEFINE S == InDimension(d)
             h == [c \in S |-> CriterionShare(r, c)]
  <2>1. S \in SUBSET DOMAIN Criterion /\ S # {}
    BY <1>2, DimensionsHaveCriteria
  <2>2. AutomaticDimension(r, d) = Scaled(Total(h), 1, Weight(S))
    BY <1>2 DEF AutomaticDimension
  <2> HIDE DEF S
  <2>3. IsFiniteSet(S) /\ Weight(S) \in Nat \ {0} /\ 1 \in Int
    BY <2>1, ScoringAssumption, FS_Subset, WeightIsPositive
  <2>4. DOMAIN h = S /\ AllFractions(h)
    BY <2>1, CriterionShareIsLowest, LowestAreFractions DEF AllFractions
  <2> HIDE DEF h
  <2>5. Total(h) \in Fractions
    BY <2>3, <2>4, TotalIsLowest, LowestAreFractions
  <2>6. QED
    BY <2>2, <2>3, <2>5, ScaledIsLowest
<1>3. QED
  BY <1>1, <1>2

(* An activity, corrected or not.                                           *)
LEMMA ActivityValueIsFraction ==
    ASSUME TypeOKScoring, NEW r \in Graded, NEW a \in ActivityNames
    PROVE  ActivityValue(r, a) \in Fractions
<1>1. Weighted(r, CriteriaOf(a)) \in Fractions
  BY CriteriaOfActivity, WeightedIsLowest, LowestAreFractions
<1>2. QED
  BY <1>1, FifthIsLowest, ActivityIsFraction, LowestAreFractions DEF ActivityValue

(* A dimension, corrected or not.                                           *)
LEMMA DimensionValueIsLowest ==
    ASSUME TypeOKScoring, NEW r \in Graded, NEW d \in DOMAIN Dimension
    PROVE  DimensionValue(r, d) \in LowestTerms
<1> DEFINE corrected == Corrected(r, Contributing(d))
           automatic == AutomaticDimension(r, d)
           fifth == Scaled(ActivityValue(r, Dimension[d].activity), 1, 5)
           weighted == Weighted(r, InDimension(d))
<1>1. automatic \in LowestTerms
  BY AutomaticDimensionIsLowest
<1>2. Dimension[d].source = "activity" => fifth \in LowestTerms
  BY DimensionsHaveCriteria, ActivityValueIsFraction, FifthIsLowest
<1>3. Dimension[d].source # "activity" => weighted \in LowestTerms
  BY DimensionsHaveCriteria, WeightedIsLowest
<1>4. DimensionValue(r, d) = CASE ~corrected -> automatic
                               [] Dimension[d].source = "activity" -> fifth
                               [] OTHER -> weighted
  BY DEF DimensionValue
<1> HIDE DEF corrected, automatic, fifth, weighted
<1>5. QED
  BY <1>1, <1>2, <1>3, <1>4

(* The average of the general assessment.                                   *)
LEMMA GeneralAverageIsFraction ==
    ASSUME TypeOKScoring, NEW r \in Graded
    PROVE  GeneralAverage(r) \in Fractions
<1> DEFINE A == AssessedFactors(r)
           part(g) == Reduced(<<assessed[<<r, g>>], GeneralFactor[g]>>)
           h == [g \in A |-> part(g)]
           n == Cardinality(DOMAIN GeneralFactor)
<1>1. GeneralAverage(r) = IF DOMAIN GeneralFactor = {} THEN Whole(0) ELSE Average(h, n)
  BY DEF GeneralAverage
<1>2. n \in Nat /\ A \subseteq DOMAIN GeneralFactor /\ IsFiniteSet(A)
  <2>1. A \subseteq DOMAIN GeneralFactor
    BY DEF AssessedFactors
  <2>2. QED
    BY <2>1, ScoringAssumption, FS_Subset, FS_CardinalityType
<1>3. ASSUME NEW g \in A
      PROVE  part(g) \in Fractions
  <2>1. g \in DOMAIN GeneralFactor /\ <<r, g>> \in DOMAIN assessed
    BY DEF AssessedFactors
  <2>2. GeneralFactor[g] \in Nat \ {0}
    BY <2>1, ScoringAssumption
  <2>3. assessed[<<r, g>>] \in 0..GeneralFactor[g]
    BY <2>1 DEF TypeOKScoring
  <2>4. assessed[<<r, g>>] \in Int
    BY <2>2, <2>3
  <2>5. QED
    BY <2>2, <2>4, ReducedFraction
<1> HIDE DEF A, part, n
<1>4. DOMAIN h = A /\ AllFractions(h)
  BY <1>3 DEF AllFractions
<1> HIDE DEF h
<1>5. Average(h, n) \in Fractions
  BY <1>2, <1>4, AverageIsLowest, LowestAreFractions
<1>6. Whole(0) \in Fractions
  <2>1. 0 \in Int
    OBVIOUS
  <2>2. QED
    BY <2>1, WholeIsLowest, LowestAreFractions
<1>7. QED
  BY <1>1, <1>5, <1>6

(* The overall score: the weights that count are never zero together.       *)
LEMMA OverallScoreIsLowest ==
    ASSUME TypeOKScoring, NEW r \in Graded
    PROVE  OverallScore(r) \in LowestTerms
<1> DEFINE value(k) == IF k.source = "general" THEN GeneralAverage(r) ELSE DimensionValue(r, k.key)
           I == Included(r)
           counted == IF policy.missing = "exclude" THEN I ELSE Components
           w == SumFunction([k \in counted |-> k.weight])
           h == [k \in I |-> Scaled(value(k), k.weight, 1)]
<1>1. OverallScore(r) = IF I = {} THEN Whole(0) ELSE Scaled(Total(h), OfficialMaximum, w)
  BY DEF OverallScore
<1>2. CASE I = {}
  <2>1. 0 \in Int
    OBVIOUS
  <2>2. QED
    BY <1>1, <1>2, <2>1, WholeIsLowest
<1>3. CASE I # {}
  <2>1. I \subseteq Components /\ counted \subseteq Components /\ counted # {}
    BY <1>3 DEF Included
  <2>2. IsFiniteSet(I) /\ IsFiniteSet(counted)
    BY <2>1, ScoringAssumption, FS_Subset
  <2> HIDE DEF counted, I
  <2>3. w \in Nat \ {0}
    <3> DEFINE f == [k \in counted |-> k.weight]
    <3>1. w = SumFunctionOnSet(f, counted)
      BY DEF SumFunction
    <3>2. AllPositive(f, counted)
      BY <2>1, ScoringAssumption DEF AllPositive
    <3> HIDE DEF f
    <3>3. QED
      BY <2>1, <2>2, <3>1, <3>2, SumIsPositive
  <2> HIDE DEF w
  <2>4. ASSUME NEW k \in I
        PROVE  Scaled(value(k), k.weight, 1) \in Fractions
    <3>1. k.weight \in Nat /\ (k.source = "general" \/ k.key \in DOMAIN Dimension)
      BY <2>1, ScoringAssumption
    <3>2. value(k) \in Fractions
      BY <3>1, GeneralAverageIsFraction, DimensionValueIsLowest, LowestAreFractions
    <3> HIDE DEF value
    <3>3. QED
      BY <3>1, <3>2, WeighedIsFraction, LowestAreFractions
  <2> HIDE DEF value
  <2>5. DOMAIN h = I /\ AllFractions(h)
    BY <2>4 DEF AllFractions
  <2> HIDE DEF h
  <2>6. Total(h) \in Fractions
    BY <2>2, <2>5, TotalIsLowest, LowestAreFractions
  <2>7. OfficialMaximum \in Int
    BY ScoringAssumption
  <2>8. QED
    BY <1>1, <1>3, <2>3, <2>6, <2>7, ScaledIsLowest
<1>4. QED
  BY <1>2, <1>3

-----------------------------------------------------------------------------
(* What is not corrected, and complete or scaled from zero, is computed     *)
(* alike by the results and by the editor.                                  *)

(* Nothing adds up to zero.                                                 *)
LEMMA EmptyTotal ==
    ASSUME NEW f, DOMAIN f = {}
    PROVE  Total(f) = Whole(0)
<1>1. IsFiniteSet({}) /\ {} \in SUBSET {}
  BY FS_EmptySet
<1>2. Totals(f, {})[{}] = TotalUp(f, Totals(f, {}), {})
  BY <1>1, TotalsOfParts
<1>3. QED
  BY <1>2, TotalIsLast DEF TotalUp

(* A criterion nobody corrected: the editor averages what is on the scale,  *)
(* the results put the average on it.                                       *)
LEMMA FactsAgree ==
    ASSUME TypeOKScoring, NEW r \in Graded, NEW c \in DOMAIN Criterion,
           <<r, c>> \notin DOMAIN overrides,
           ActivityComplete(r, Criterion[c].activity) \/ Lowest(c) = 0
    PROVE  Scaled(Fact(r, c), Criterion[c].weight, 1) = CriterionShare(r, c)
<1> DEFINE grades == GradesOf(r, c)
           a == Criterion[c].activity
           k == Cardinality(DOMAIN grades)
           n == Divisor(r, a, k)
           average == IF k = 0 THEN Whole(0) ELSE Average(grades, n)
<1>1. /\ IsFiniteSet(DOMAIN grades) /\ AllFractions(grades) /\ n \in Nat /\ k \in Nat
      /\ a \in ActivityNames /\ DOMAIN grades = DOMAIN Sources(r, a)
  BY GradesAreFractions, AverageOfGrades
<1>2. CriterionShare(r, c) = Scaled(Normalised(c, average), Criterion[c].weight, 1)
  BY DEF CriterionShare
<1>3. Fact(r, c) = Average([x \in DOMAIN grades |-> Normalised(c, grades[x])], n)
  BY DEF Fact
<1>4. Lowest(c) = 0 \/ (n = k /\ n # 0)
  <2> SUFFICES ASSUME Lowest(c) # 0 PROVE n = k /\ n # 0
    OBVIOUS
  <2>1. ActivityComplete(r, a)
    OBVIOUS
  <2>2. CASE ByAdmin(r, a)
    <3>1. k = 1
      BY <1>1, <2>2, SourcesOf
    <3>2. n = k
      BY <2>2 DEF Divisor, MissingAsZero
    <3>3. QED
      BY <3>1, <3>2
  <2>3. CASE ~ByAdmin(r, a)
    <3>1. Expected(r, a) # {} /\ Submitted(r, a) = Expected(r, a)
      BY <2>1, <2>3 DEF ActivityComplete
    <3>2. k = Cardinality(Expected(r, a))
      BY <1>1, <2>3, <3>1, SourcesOf
    <3>3. k # 0
      BY <3>1, <3>2, ExpectedTasks, FS_EmptySet
    <3>4. n = k
      BY <3>2 DEF Divisor
    <3>5. QED
      BY <3>3, <3>4
  <2>4. QED
    BY <2>2, <2>3
<1> HIDE DEF grades, n, k, a
<1>5. Fact(r, c) = Normalised(c, Average(grades, n))
  BY <1>1, <1>3, <1>4, AveragesAgree DEF k
<1>6. Average(grades, n) = average
  <2>1. CASE k # 0
    BY <2>1
  <2>2. CASE k = 0
    <3>1. DOMAIN grades = {}
      BY <1>1, <2>2, FS_EmptySet DEF k
    <3>2. Total(grades) = Whole(0)
      BY <3>1, EmptyTotal
    <3> DEFINE y == Average(grades, n)
    <3>3. y \in LowestTerms /\ y[1] * (1 * Divided(n)) = 0 * y[2]
      BY <1>1, <3>2, AverageIsLowest DEF Whole
    <3>4. Divided(n) \in Nat \ {0}
      BY <1>1 DEF Divided
    <3>5. y[1] \in Int /\ y[2] \in Int
      BY <3>3, PartsOf, LowestAreFractions
    <3> HIDE DEF y
    <3> DEFINE p == y[1] q == y[2] N == Divided(n)
    <3>6. p = 0
      <4>1. p \in Int /\ q \in Int /\ N \in Int /\ N # 0 /\ p * (1 * N) = 0 * q
        BY <3>3, <3>4, <3>5
      <4> HIDE DEF p, q, N
      <4>2. p * N = 0 * N
        BY <4>1
      <4>3. QED
        BY <4>1, <4>2, Cancel
    <3>7. Whole(0) \in LowestTerms
      <4>1. 0 \in Int
        OBVIOUS
      <4>2. QED
        BY <4>1, WholeIsLowest
    <3>8. Same(y, Whole(0))
      BY <3>5, <3>6 DEF Same, Whole
    <3>9. y = Whole(0)
      BY <3>3, <3>7, <3>8, LowestIsUnique
    <3>10. QED
      BY <2>2, <3>9 DEF y
  <2>3. QED
    BY <2>1, <2>2
<1>7. QED
  BY <1>2, <1>5, <1>6

(* The first half of ResultsAgree: the correction editor's value of a       *)
(* dimension nobody corrected is the one of the results.                    *)
LEMMA EditorAgrees ==
    ASSUME TypeOKScoring, NEW r \in Graded, NEW d \in DOMAIN Dimension,
           Dimension[d].source = "criteria", ~Corrected(r, InDimension(d)), Comparable(r, d)
    PROVE  Weighted(r, InDimension(d)) = AutomaticDimension(r, d)
<1> DEFINE S == InDimension(d)
           f == [c \in S |-> Scaled(Fact(r, c), Criterion[c].weight, 1)]
           h == [c \in S |-> CriterionShare(r, c)]
<1>1. S \in SUBSET DOMAIN Criterion
  BY DimensionsHaveCriteria
<1>2. \A c \in S : <<r, c>> \notin DOMAIN overrides
  BY DEF Corrected
<1>3. \A c \in S : ActivityComplete(r, Criterion[c].activity) \/ Lowest(c) = 0
  BY DEF Comparable, DimensionComplete
<1>4. Weighted(r, S) = Scaled(Total(f), 1, Weight(S))
  BY DEF Weighted
<1>5. AutomaticDimension(r, d) = Scaled(Total(h), 1, Weight(S))
  BY DEF AutomaticDimension
<1> HIDE DEF S
<1>6. f = h
  BY <1>1, <1>2, <1>3, FactsAgree
<1>7. QED
  BY <1>4, <1>5, <1>6 DEF S

-----------------------------------------------------------------------------
(* A finite set in order.                                                   *)

Orders(R, S) ==
    /\ \A x \in S : <<x, x>> \notin R
    /\ \A x, y, z \in S : <<x, y>> \in R /\ <<y, z>> \in R => <<x, z>> \in R
    /\ \A x, y \in S : x # y => <<x, y>> \in R \/ <<y, x>> \in R

PriorTo(R, S, x) == {q \in S : <<q, x>> \in R}
Lists(s, R, S) == \A i, j \in DOMAIN s : i < j => <<s[i], s[j]>> \in R
Listing(s, R, S) == s \in [1..Cardinality(S) -> S] /\ Lists(s, R, S)
Counts(s, R, S) ==
    /\ \A i, j \in 1..Cardinality(S) : s[i] = s[j] => i = j
    /\ \A x \in S : \E i \in 1..Cardinality(S) : s[i] = x
    /\ \A i \in 1..Cardinality(S) :
        /\ PriorTo(R, S, s[i]) = {s[j] : j \in 1..(i - 1)}
        /\ Cardinality(PriorTo(R, S, s[i])) = i - 1

(* Each at the place after those before it.                                 *)
LEMMA ListingExists ==
    ASSUME NEW S, IsFiniteSet(S), NEW R, Orders(R, S)
    PROVE  \E s : Listing(s, R, S)
<1> DEFINE n == Cardinality(S)
           count(x) == Cardinality(PriorTo(R, S, x))
           place == [x \in S |-> count(x) + 1]
<1>1. n \in Nat /\ IsFiniteSet(1..n) /\ Cardinality(1..n) = n
  <2>1. n \in Nat
    BY FS_CardinalityType
  <2>2. 1 \in Int /\ n \in Int
    BY <2>1
  <2>3. IsFiniteSet(1..n) /\ Cardinality(1..n) = IF 1 > n THEN 0 ELSE n - 1 + 1
    BY <2>2, FS_Interval
  <2>4. QED
    BY <2>1, <2>3
<1>2. ASSUME NEW x \in S
      PROVE  count(x) \in Nat /\ count(x) < n
  <2>1. PriorTo(R, S, x) \in SUBSET S /\ PriorTo(R, S, x) # S
    BY DEF PriorTo, Orders
  <2>2. IsFiniteSet(PriorTo(R, S, x)) /\ count(x) \in Nat
    BY <2>1, FS_Subset, FS_CardinalityType
  <2>3. count(x) <= n /\ count(x) # n
    BY <2>1, FS_Subset
  <2>4. QED
    BY <1>1, <2>2, <2>3
<1>3. ASSUME NEW x \in S, NEW y \in S, <<x, y>> \in R
      PROVE  count(x) < count(y)
  <2> DEFINE A == PriorTo(R, S, x) B == PriorTo(R, S, y)
  <2>1. A \in SUBSET B /\ A # B
    BY <1>3 DEF PriorTo, Orders
  <2>2. IsFiniteSet(B)
    <3>1. B \in SUBSET S
      BY DEF PriorTo
    <3>2. QED
      BY <3>1, FS_Subset
  <2>3. Cardinality(A) <= Cardinality(B) /\ Cardinality(A) # Cardinality(B)
    BY <2>1, <2>2, FS_Subset
  <2>4. QED
    BY <1>2, <2>3
<1> HIDE DEF count
<1>4. place \in Injection(S, 1..n)
  <2>1. place \in [S -> 1..n]
    BY <1>1, <1>2
  <2>2. \A x, y \in S : x # y => place[x] # place[y]
    <3> SUFFICES ASSUME NEW x \in S, NEW y \in S, x # y PROVE count(x) + 1 # count(y) + 1
      OBVIOUS
    <3>1. count(x) < count(y) \/ count(y) < count(x)
      BY <1>3 DEF Orders
    <3>2. QED
      BY <1>2, <3>1
  <2>3. QED
    BY <2>1, <2>2 DEF Injection, IsInjective
<1>5. place \in Surjection(S, 1..n)
  BY <1>1, <1>4, FS_Injection
<1>6. \A i \in 1..n : \E x \in S : place[x] = i
  BY <1>5 DEF Surjection
<1> DEFINE s == [i \in 1..n |-> CHOOSE x \in S : place[x] = i]
<1>7. \A i \in 1..n : s[i] \in S /\ place[s[i]] = i
  BY <1>6
<1>8. s \in [1..n -> S]
  BY <1>7
<1>9. ASSUME NEW i \in 1..n, NEW j \in 1..n, i < j
      PROVE  <<s[i], s[j]>> \in R
  <2> DEFINE x == s[i] y == s[j]
  <2>1. x \in S /\ y \in S /\ count(x) + 1 = i /\ count(y) + 1 = j
    BY <1>7
  <2> HIDE DEF x, y
  <2>2. x # y /\ ~(count(y) < count(x))
    BY <1>2, <1>9, <2>1
  <2>3. <<x, y>> \in R
    BY <1>3, <2>1, <2>2 DEF Orders
  <2>4. QED
    BY <2>3 DEF x, y
<1> HIDE DEF place
<1>10. DOMAIN s = 1..n
  OBVIOUS
<1> HIDE DEF s
<1>11. Listing(s, R, S)
  BY <1>8, <1>9, <1>10 DEF Listing, Lists
<1>12. QED
  BY <1>11

(* In order, those before one are those listed before it.                   *)
LEMMA ListingCounts ==
    ASSUME NEW S, IsFiniteSet(S), NEW R, Orders(R, S), NEW s, Listing(s, R, S)
    PROVE  Counts(s, R, S)
<1> DEFINE n == Cardinality(S)
<1>0. s \in [1..n -> S] /\ Lists(s, R, S)
  BY DEF Listing
<1>1. n \in Nat /\ n \in Int
  BY FS_CardinalityType
<1>2. \A m \in Nat : IsFiniteSet(1..m) /\ Cardinality(1..m) = m
  <2> TAKE m \in Nat
  <2>1. 1 \in Int /\ m \in Int
    OBVIOUS
  <2>2. IsFiniteSet(1..m) /\ Cardinality(1..m) = IF 1 > m THEN 0 ELSE m - 1 + 1
    BY <2>1, FS_Interval
  <2>3. QED
    BY <2>2
<1>3. \A i, j \in 1..n : s[i] = s[j] => i = j
  <2> SUFFICES ASSUME NEW i \in 1..n, NEW j \in 1..n, i # j PROVE s[i] # s[j]
    OBVIOUS
  <2>1. s[i] \in S /\ s[j] \in S /\ DOMAIN s = 1..n
    BY <1>0
  <2>2. i < j \/ j < i
    BY <1>1
  <2>3. <<s[i], s[j]>> \in R \/ <<s[j], s[i]>> \in R
    BY <1>0, <2>1, <2>2 DEF Lists
  <2>4. QED
    BY <2>1, <2>3 DEF Orders
<1>4. s \in Injection(1..n, S)
  BY <1>0, <1>3 DEF Injection, IsInjective
<1>5. s \in Surjection(1..n, S)
  BY <1>1, <1>2, <1>4, FS_Injection
<1>6. \A x \in S : \E i \in 1..n : s[i] = x
  BY <1>5 DEF Surjection
<1>7. ASSUME NEW i \in 1..n
      PROVE  /\ PriorTo(R, S, s[i]) = {s[j] : j \in 1..(i - 1)}
             /\ Cardinality(PriorTo(R, S, s[i])) = i - 1
  <2> DEFINE T == {s[j] : j \in 1..(i - 1)} m == i - 1
  <2>1. i \in Int /\ m \in Nat /\ 1..m \subseteq 1..n /\ DOMAIN s = 1..n
    BY <1>0, <1>1
  <2>2. ASSUME NEW j \in 1..n
        PROVE  <<s[j], s[i]>> \in R <=> j < i
    <3>1. s[i] \in S /\ s[j] \in S
      BY <1>0
    <3>2. CASE j < i
      BY <1>0, <2>1, <3>2 DEF Lists
    <3>3. CASE j = i
      BY <3>1, <3>3, <2>1 DEF Orders
    <3>4. CASE i < j
      <4>1. <<s[i], s[j]>> \in R
        BY <1>0, <2>1, <3>4 DEF Lists
      <4>2. <<s[j], s[i]>> \notin R
        BY <3>1, <4>1 DEF Orders
      <4>3. QED
        BY <2>1, <3>4, <4>2
    <3>5. QED
      BY <1>1, <3>2, <3>3, <3>4
  <2>3. PriorTo(R, S, s[i]) \subseteq T
    <3> SUFFICES ASSUME NEW q \in S, <<q, s[i]>> \in R PROVE q \in T
      BY DEF PriorTo
    <3>1. PICK j \in 1..n : s[j] = q
      BY <1>6
    <3>2. j < i
      BY <2>2, <3>1
    <3>3. j \in 1..(i - 1)
      BY <2>1, <3>2
    <3>4. QED
      BY <3>1, <3>3
  <2>4. T \subseteq PriorTo(R, S, s[i])
    <3> SUFFICES ASSUME NEW j \in 1..(i - 1) PROVE s[j] \in PriorTo(R, S, s[i])
      OBVIOUS
    <3>1. j \in 1..n /\ j < i
      BY <2>1
    <3>2. QED
      BY <1>0, <2>1, <2>2, <3>1 DEF PriorTo
  <2>5. PriorTo(R, S, s[i]) = T
    BY <2>3, <2>4
  <2> DEFINE t == [j \in 1..m |-> s[j]]
  <2>6. t \in Surjection(1..m, T)
    BY DEF Surjection
  <2>7. t \in Injection(1..m, T)
    <3>1. t \in [1..m -> T]
      OBVIOUS
    <3>2. \A j, k \in 1..m : t[j] = t[k] => j = k
      BY <1>3, <2>1
    <3> HIDE DEF t, T
    <3>3. QED
      BY <3>1, <3>2 DEF Injection, IsInjective
  <2>8. Cardinality(1..m) = m /\ IsFiniteSet(1..m)
    BY <1>2, <2>1
  <2> HIDE DEF t, T
  <2>9. Cardinality(T) = m
    BY <2>6, <2>7, <2>8, FS_Surjection
  <2>10. QED
    BY <2>5, <2>9 DEF T
<1>8. QED
  BY <1>3, <1>6, <1>7 DEF Counts

-----------------------------------------------------------------------------
(* Ranks.                                                                   *)

Above(x, y) == ~AtMost(x, y)

(* Inequalities are multiplied by what is positive.                         *)
LEMMA Multiplied ==
    ASSUME NEW a \in Int, NEW b \in Int, NEW c \in Int, c > 0
    PROVE  a * c <= b * c <=> a <= b
<1>1. CASE a <= b
  <2> DEFINE d == b - a
  <2>1. d \in Int /\ d >= 0
    BY <1>1
  <2>2. d * c >= 0 /\ d * c \in Int
    <3> HIDE DEF d
    <3>1. QED
      BY <2>1
  <2>3. b * c = a * c + d * c
    OBVIOUS
  <2>4. a * c \in Int /\ b * c \in Int
    OBVIOUS
  <2> HIDE DEF d
  <2> DEFINE p == a * c q == b * c t == d * c
  <2>5. p \in Int /\ t \in Int /\ t >= 0 /\ q = p + t
    BY <2>2, <2>3, <2>4
  <2> HIDE DEF p, q, t
  <2>6. p <= q
    BY <2>5
  <2>7. QED
    BY <1>1, <2>6 DEF p, q
<1>2. CASE ~(a <= b)
  <2> DEFINE d == a - b
  <2>1. d \in Int /\ d > 0
    BY <1>2
  <2>2. d * c > 0 /\ d * c \in Int
    <3> HIDE DEF d
    <3>1. QED
      BY <2>1
  <2>3. a * c = b * c + d * c
    OBVIOUS
  <2>4. a * c \in Int /\ b * c \in Int
    OBVIOUS
  <2> HIDE DEF d
  <2> DEFINE p == a * c q == b * c t == d * c
  <2>5. q \in Int /\ t \in Int /\ t > 0 /\ p = q + t
    BY <2>2, <2>3, <2>4
  <2> HIDE DEF p, q, t
  <2>6. ~(p <= q)
    BY <2>5
  <2>7. QED
    BY <1>2, <2>6 DEF p, q
<1>3. QED
  BY <1>1, <1>2

(* Fractions are compared across.                                           *)
LEMMA AtMostIsTransitive ==
    ASSUME NEW x \in Fractions, NEW y \in Fractions, NEW z \in Fractions, AtMost(x, y), AtMost(y, z)
    PROVE  AtMost(x, z)
<1> DEFINE a == x[1] b == x[2] c == y[1] d == y[2] e == z[1] f == z[2]
<1>1. /\ a \in Int /\ b \in Int /\ c \in Int /\ d \in Int /\ e \in Int /\ f \in Int
      /\ b > 0 /\ d > 0 /\ f > 0
  BY PartsOf
<1>2. a * d <= c * b /\ c * f <= e * d
  BY DEF AtMost
<1> SUFFICES a * f <= e * b
  BY DEF AtMost
<1> HIDE DEF a, b, c, d, e, f
<1>3. a * d \in Int /\ c * b \in Int /\ c * f \in Int /\ e * d \in Int /\ a * f \in Int /\ e * b \in Int
  BY <1>1
<1>4. (a * d) * f <= (c * b) * f /\ (c * f) * b <= (e * d) * b
  BY <1>1, <1>2, <1>3, Multiplied
<1>5. (a * f) * d = (a * d) * f /\ (c * b) * f = (c * f) * b /\ (e * d) * b = (e * b) * d
  BY <1>1
<1> DEFINE p == (a * d) * f q == (c * b) * f t == (e * d) * b
<1>6. p \in Int /\ q \in Int /\ t \in Int /\ p <= q /\ q <= t
  BY <1>1, <1>3, <1>4, <1>5
<1>7. p <= t
  <2> HIDE DEF p, q, t
  <2>1. QED
    BY <1>6
<1>8. (a * f) * d <= (e * b) * d
  BY <1>5, <1>7
<1>9. QED
  BY <1>1, <1>3, <1>8, Multiplied

(* Scores in lowest terms are strictly ordered.                             *)
LEMMA AboveIsOrder ==
    ASSUME NEW x \in LowestTerms, NEW y \in LowestTerms, NEW z \in LowestTerms
    PROVE  /\ ~Above(x, x)
           /\ Above(x, y) /\ Above(y, z) => Above(x, z)
           /\ x = y \/ Above(x, y) \/ Above(y, x)
           /\ ~(Above(x, y) /\ Above(y, x))
<1>1. \A u, v \in LowestTerms : u[1] * v[2] \in Int /\ v[1] * u[2] \in Int
  BY PartsOf, LowestAreFractions
<1>2. \A u, v \in LowestTerms : AtMost(u, v) \/ AtMost(v, u)
  BY <1>1 DEF AtMost
<1>3. \A u, v \in LowestTerms : AtMost(u, v) /\ AtMost(v, u) => u = v
  BY <1>1, LowestIsUnique DEF AtMost, Same
<1>4. \A u, v, w \in LowestTerms : AtMost(u, v) /\ AtMost(v, w) => AtMost(u, w)
  BY LowestAreFractions, AtMostIsTransitive
<1>5. AtMost(x, x)
  BY <1>2
<1>6. QED
  BY <1>2, <1>3, <1>4, <1>5 DEF Above

(* What configured_ranks sorts by.                                          *)
Ahead(value) == {p \in Graded \X Graded :
    IF value[p[1]] = value[p[2]] THEN p[1] < p[2] ELSE Above(value[p[1]], value[p[2]])}

LEMMA AheadPair ==
    ASSUME NEW value, NEW x \in Graded, NEW y \in Graded
    PROVE  <<x, y>> \in Ahead(value) <=>
             IF value[x] = value[y] THEN x < y ELSE Above(value[x], value[y])
  BY DEF Ahead

(* Sorting by score and by id leaves no two alike.                          *)
LEMMA AheadOrders ==
    ASSUME NEW value \in [Graded -> LowestTerms]
    PROVE  Orders(Ahead(value), Graded)
<1> DEFINE R == Ahead(value)
<1>1. \A x \in Graded : x \in Int /\ value[x] \in LowestTerms
  BY ScoringAssumption
<1>2. \A x, y \in Graded : <<x, y>> \in R <=> IF value[x] = value[y] THEN x < y ELSE Above(value[x], value[y])
  BY AheadPair
<1> HIDE DEF R
<1>3. \A x \in Graded : <<x, x>> \notin R
  BY <1>1, <1>2
<1>4. \A x, y \in Graded : x # y => <<x, y>> \in R \/ <<y, x>> \in R
  <2> SUFFICES ASSUME NEW x \in Graded, NEW y \in Graded, x # y
               PROVE  <<x, y>> \in R \/ <<y, x>> \in R
    OBVIOUS
  <2>1. x < y \/ y < x
    BY <1>1
  <2>2. value[x] = value[y] \/ Above(value[x], value[y]) \/ Above(value[y], value[x])
    BY <1>1, AboveIsOrder
  <2>3. QED
    BY <1>2, <2>1, <2>2
<1>5. ASSUME NEW x \in Graded, NEW y \in Graded, NEW z \in Graded, <<x, y>> \in R, <<y, z>> \in R
      PROVE  <<x, z>> \in R
  <2> DEFINE u == value[x] v == value[y] w == value[z]
  <2>1. u \in LowestTerms /\ v \in LowestTerms /\ w \in LowestTerms
    BY <1>1
  <2>2. /\ IF u = v THEN x < y ELSE Above(u, v)
        /\ IF v = w THEN y < z ELSE Above(v, w)
    BY <1>2, <1>5
  <2>3. <<x, z>> \in R <=> IF u = w THEN x < z ELSE Above(u, w)
    BY <1>2
  <2> HIDE DEF u, v, w
  <2>4. ~(Above(u, v) /\ Above(v, u)) /\ (Above(u, v) /\ Above(v, w) => Above(u, w)) /\ ~Above(u, u)
    BY <2>1, AboveIsOrder
  <2>5. CASE u = v /\ v = w
    <3>1. x < z
      BY <1>1, <2>2, <2>5
    <3>2. QED
      BY <2>3, <2>5, <3>1
  <2>6. CASE ~(u = v /\ v = w)
    BY <2>2, <2>3, <2>4, <2>6
  <2>7. QED
    BY <2>5, <2>6
<1>6. QED
  BY <1>3, <1>4, <1>5 DEF Orders, R

(* The standing is such a list.                                             *)
LEMMA StandingLists ==
    ASSUME NEW value \in [Graded -> LowestTerms]
    PROVE  Listing(Standing(value), Ahead(value), Graded)
<1> DEFINE R == Ahead(value) n == Cardinality(Graded)
           ahead(x, y) == IF value[x] = value[y] THEN x < y ELSE ~AtMost(value[x], value[y])
           sorted(s) == \A i, j \in DOMAIN s : i < j => ahead(s[i], s[j])
<1>1. \E s : Listing(s, R, Graded)
  BY ScoringAssumption, AheadOrders, ListingExists
<1>2. \A s \in [1..n -> Graded] : Lists(s, R, Graded) <=> sorted(s)
  <2> SUFFICES ASSUME NEW s \in [1..n -> Graded]
               PROVE  Lists(s, R, Graded) <=> sorted(s)
    OBVIOUS
  <2>1. \A i, j \in DOMAIN s : <<s[i], s[j]>> \in R <=> ahead(s[i], s[j])
    BY AheadPair DEF Above
  <2> HIDE DEF R, ahead
  <2>2. QED
    BY <2>1 DEF Lists
<1>3. Standing(value) = CHOOSE s \in [1..n -> Graded] : sorted(s)
  BY DEF Standing
<1> HIDE DEF R, sorted
<1>4. Standing(value) \in [1..n -> Graded] /\ sorted(Standing(value))
  BY <1>1, <1>2, <1>3 DEF Listing
<1>5. QED
  BY <1>2, <1>4 DEF R, n, Listing

-----------------------------------------------------------------------------
(* Who is better than whom.                                                 *)

Better(value, r) == {q \in Graded : Above(value[q], value[r])}
ScoresOf(value, A) == {value[q] : q \in A}
SameFirst(value, r) == {q \in Graded : value[q] = value[r] /\ q < r}

(* Better recruits, and the scores they have, are finitely many.            *)
LEMMA BetterAreFinite ==
    ASSUME NEW value, NEW r
    PROVE  /\ IsFiniteSet(Better(value, r)) /\ Cardinality(Better(value, r)) \in Nat
           /\ IsFiniteSet(ScoresOf(value, Better(value, r)))
           /\ Cardinality(ScoresOf(value, Better(value, r))) \in Nat
<1> DEFINE A == Better(value, r) V == ScoresOf(value, A)
           f == [q \in A |-> value[q]]
<1>1. A \in SUBSET Graded
  BY DEF Better
<1>2. IsFiniteSet(A)
  BY <1>1, ScoringAssumption, FS_Subset
<1>3. f \in Surjection(A, V)
  BY DEF Surjection, ScoresOf
<1> HIDE DEF A, V, f
<1>4. IsFiniteSet(V)
  BY <1>2, <1>3, FS_Surjection
<1>5. QED
  BY <1>2, <1>4, FS_CardinalityType DEF A, V

(* Who is better than the one at a place of the standing.                   *)
LEMMA PlacesCount ==
    ASSUME NEW value \in [Graded -> LowestTerms], NEW i \in 1..Cardinality(Graded)
    PROVE  LET s == Standing(value)
               A == Better(value, s[i])
               B == Better(value, s[i - 1])
               tied == value[s[i]] = value[s[i - 1]]
           IN  /\ Cardinality(A \cup SameFirst(value, s[i])) = i - 1
               /\ i = 1 => A = {}
               /\ i > 1 /\ tied => A = B
               /\ i > 1 /\ ~tied => Cardinality(A) = i - 1
               /\ i > 1 /\ ~tied => Cardinality(ScoresOf(value, A)) = 1 + Cardinality(ScoresOf(value, B))
<1> DEFINE n == Cardinality(Graded)
           s == Standing(value)
           R == Ahead(value)
           A == Better(value, s[i])
           B == Better(value, s[i - 1])
           x == s[i] y == s[i - 1]
           first == {s[j] : j \in 1..(i - 1)}
<1>1. n \in Nat /\ s \in [1..n -> Graded] /\ Lists(s, R, Graded)
  BY ScoringAssumption, FS_CardinalityType, StandingLists DEF Listing
<1>2. /\ PriorTo(R, Graded, x) = first /\ Cardinality(PriorTo(R, Graded, x)) = i - 1
      /\ \A q \in Graded : \E j \in 1..n : s[j] = q
  <2>1. Counts(s, R, Graded)
    BY ScoringAssumption, AheadOrders, StandingLists, ListingCounts
  <2> HIDE DEF R, s
  <2>2. QED
    BY <2>1 DEF Counts
<1>3. \A q, p \in Graded : <<q, p>> \in R <=> IF value[q] = value[p] THEN q < p ELSE Above(value[q], value[p])
  BY AheadPair
<1>4. x \in Graded /\ i \in Nat /\ i >= 1 /\ DOMAIN s = 1..n
  BY <1>1
<1>5. \A q \in Graded : value[q] \in LowestTerms
  OBVIOUS
<1>6. i > 1 => /\ i - 1 \in 1..n /\ y \in Graded /\ y \in first
               /\ <<y, x>> \in R
  <2> SUFFICES ASSUME i > 1
               PROVE  i - 1 \in 1..n /\ y \in Graded /\ y \in first /\ <<y, x>> \in R
    OBVIOUS
  <2>1. i - 1 \in 1..n /\ i - 1 \in 1..(i - 1) /\ i - 1 < i
    BY <1>1, <1>4
  <2>2. y \in Graded /\ y \in first
    BY <1>1, <2>1
  <2>3. <<y, x>> \in R
    BY <1>4, <1>1, <2>1 DEF Lists
  <2>4. QED
    BY <2>1, <2>2, <2>3
<1> HIDE DEF s, R, x, y, first, n
<1>7. A \cup SameFirst(value, x) = PriorTo(R, Graded, x)
  <2> SUFFICES ASSUME NEW q \in Graded
               PROVE  <<q, x>> \in R <=> Above(value[q], value[x]) \/ (value[q] = value[x] /\ q < x)
    BY DEF Better, SameFirst, PriorTo, x
  <2>1. ~Above(value[q], value[q])
    BY <1>5, AboveIsOrder
  <2>2. QED
    BY <1>3, <1>4, <2>1
<1>8. A \subseteq first
  BY <1>2, <1>7
<1>9. Cardinality(A \cup SameFirst(value, s[i])) = i - 1
  BY <1>2, <1>7 DEF x
<1>10. i = 1 => A = {}
  BY <1>8 DEF first
<1>11. i > 1 /\ value[x] = value[y] => A = B
  BY DEF Better, x, y
<1>12. ASSUME i > 1, value[x] # value[y]
       PROVE  A = first /\ Above(value[y], value[x])
  <2>1. Above(value[y], value[x])
    BY <1>3, <1>4, <1>6, <1>12
  <2>2. ASSUME NEW q \in first
        PROVE  q \in A
    <3>1. PICK j \in 1..(i - 1) : q = s[j]
      BY DEF first
    <3>2. j \in 1..n /\ q \in Graded /\ (j = i - 1 \/ j < i - 1)
      BY <1>1, <1>4, <1>6, <1>12, <3>1 DEF n
    <3>3. q = y \/ <<q, y>> \in R
      BY <1>1, <1>4, <1>6, <1>12, <3>1, <3>2 DEF Lists, y
    <3>4. value[q] = value[y] \/ Above(value[q], value[y])
      BY <1>3, <1>6, <1>12, <3>2, <3>3
    <3>5. Above(value[q], value[x])
      <4> DEFINE u == value[q] v == value[y] w == value[x]
      <4>1. u \in LowestTerms /\ v \in LowestTerms /\ w \in LowestTerms
        BY <1>4, <1>5, <1>6, <1>12, <3>2
      <4>2. (u = v \/ Above(u, v)) /\ Above(v, w)
        BY <2>1, <3>4
      <4> HIDE DEF u, v, w
      <4>3. Above(u, w)
        BY <4>1, <4>2, AboveIsOrder
      <4>4. QED
        BY <4>3 DEF u, w
    <3>6. QED
      BY <3>2, <3>5 DEF Better, x
  <2>3. QED
    BY <1>8, <2>1, <2>2
<1>13. ASSUME i > 1, value[x] # value[y]
       PROVE  Cardinality(A) = i - 1
  BY <1>2, <1>12, <1>13
<1>14. ASSUME i > 1, value[x] # value[y]
       PROVE  Cardinality(ScoresOf(value, A)) = 1 + Cardinality(ScoresOf(value, B))
  <2> DEFINE w == value[x] v == value[y]
             V == ScoresOf(value, A) W == ScoresOf(value, B)
  <2>1. y \in Graded /\ v \in LowestTerms /\ w \in LowestTerms /\ Above(v, w)
    BY <1>4, <1>5, <1>6, <1>12, <1>14
  <2>2. v \notin W
    <3> SUFFICES ASSUME NEW q \in B, value[q] = v PROVE FALSE
      BY DEF ScoresOf
    <3>1. Above(v, v)
      BY DEF Better, y
    <3>2. QED
      BY <2>1, <3>1, AboveIsOrder
  <2>3. W \cup {v} \subseteq V
    <3>1. y \in A
      BY <2>1 DEF Better, x
    <3>2. ASSUME NEW q \in B
          PROVE  q \in A
      <4>1. q \in Graded /\ Above(value[q], v)
        BY DEF Better, y
      <4>2. Above(value[q], w)
        BY <1>5, <2>1, <4>1, AboveIsOrder
      <4>3. QED
        BY <4>1, <4>2 DEF Better, x
    <3>3. QED
      BY <3>1, <3>2 DEF ScoresOf
  <2>4. V \subseteq W \cup {v}
    <3> SUFFICES ASSUME NEW q \in A, value[q] # v PROVE q \in B
      BY DEF ScoresOf
    <3>1. PICK j \in 1..(i - 1) : q = s[j]
      BY <1>8 DEF first
    <3>2. j \in 1..n /\ q \in Graded /\ (j = i - 1 \/ j < i - 1)
      BY <1>1, <1>4, <1>6, <1>14, <3>1 DEF n
    <3>3. <<q, y>> \in R
      BY <1>1, <1>4, <1>6, <1>14, <3>1, <3>2 DEF Lists, y
    <3>4. Above(value[q], v)
      BY <1>3, <2>1, <3>2, <3>3
    <3>5. QED
      BY <3>2, <3>4 DEF Better, y
  <2>5. V = W \cup {v}
    BY <2>3, <2>4
  <2>6. IsFiniteSet(W) /\ Cardinality(W) \in Nat
    BY BetterAreFinite
  <2> HIDE DEF V, W, v
  <2>7. Cardinality(V) = Cardinality(W) + 1
    BY <2>2, <2>5, <2>6, FS_AddElement
  <2>8. QED
    BY <2>6, <2>7 DEF V, W
<1>15. QED
  BY <1>9, <1>10, <1>11, <1>13, <1>14 DEF s, x, y

-----------------------------------------------------------------------------
(* One pass over the standing gives every recruit the rank that is due.     *)

RankUp(value, order, g, i) ==
    LET tied(j) == j > 1 /\ value[order[j]] = value[order[j - 1]]
    IN  CASE policy.ranking = "ordinal" \/ i = 1 -> i
          [] policy.ranking = "competition" -> IF tied(i) THEN g[i - 1] ELSE i
          [] OTHER -> IF tied(i) THEN g[i - 1] ELSE g[i - 1] + 1

IsRanking(value, order, g) == g = [i \in DOMAIN order |-> RankUp(value, order, g, i)]
Ranking(value, order) == CHOOSE g : IsRanking(value, order, g)

(* The rank that is due, by the ranking mode.                               *)
LEMMA DueByMode ==
    ASSUME NEW value, NEW r
    PROVE  /\ policy.ranking = "competition" => RankDue(value, r) = 1 + Cardinality(Better(value, r))
           /\ policy.ranking = "dense" => RankDue(value, r) = 1 + Cardinality(ScoresOf(value, Better(value, r)))
           /\ policy.ranking = "ordinal" =>
                RankDue(value, r) = 1 + Cardinality(Better(value, r) \cup SameFirst(value, r))
<1> DEFINE A == Better(value, r)
           m == Cardinality(A) k == Cardinality(ScoresOf(value, A))
           l == Cardinality(A \cup SameFirst(value, r))
<1>1. RankDue(value, r) = 1 + CASE policy.ranking = "competition" -> m
                                [] policy.ranking = "dense" -> k
                                [] OTHER -> l
  BY DEF RankDue, Better, ScoresOf, SameFirst, Above
<1> HIDE DEF A, m, k, l
<1>2. QED
  BY <1>1 DEF A, m, k, l

LEMMA NoScores ==
    ASSUME NEW value, NEW A, A = {}
    PROVE  Cardinality(A) = 0 /\ Cardinality(ScoresOf(value, A)) = 0
<1>1. ScoresOf(value, A) = {}
  BY DEF ScoresOf
<1>2. QED
  BY <1>1, FS_EmptySet

(* The rank due at a place, from the one before.                            *)
LEMMA DueGoesUp ==
    ASSUME TypeOKScoring, NEW value \in [Graded -> LowestTerms],
           NEW i \in 1..Cardinality(Graded), NEW g,
           i > 1 => g[i - 1] = RankDue(value, Standing(value)[i - 1])
    PROVE  RankUp(value, Standing(value), g, i) = RankDue(value, Standing(value)[i])
<1> DEFINE s == Standing(value)
           A == Better(value, s[i])
           B == Better(value, s[i - 1])
           C == A \cup SameFirst(value, s[i])
           tied == i > 1 /\ value[s[i]] = value[s[i - 1]]
           due == RankDue(value, s[i])
           last == g[i - 1]
           mode == policy.ranking
           a == Cardinality(A) b == Cardinality(B) c == Cardinality(C)
           v == Cardinality(ScoresOf(value, A)) w == Cardinality(ScoresOf(value, B))
<1>1. mode \in {"competition", "dense", "ordinal"}
  BY ScoringAssumption DEF TypeOKScoring
<1>2. i \in Nat /\ i >= 1
  BY ScoringAssumption, FS_CardinalityType
<1>3. a \in Nat /\ b \in Nat /\ v \in Nat /\ w \in Nat
  BY BetterAreFinite
<1>4. /\ c = i - 1
      /\ i = 1 => A = {}
      /\ tied => A = B
      /\ i > 1 /\ ~tied => a = i - 1 /\ v = 1 + w
  BY PlacesCount
<1>5. i = 1 => a = 0 /\ v = 0
  BY <1>4, NoScores
<1>6. tied => a = b /\ v = w
  BY <1>4
<1>7. /\ mode = "competition" => due = 1 + a
      /\ mode = "dense" => due = 1 + v
      /\ mode = "ordinal" => due = 1 + c
  BY DueByMode
<1>8. i > 1 => /\ mode = "competition" => last = 1 + b
               /\ mode = "dense" => last = 1 + w
  BY DueByMode
<1>9. RankUp(value, s, g, i) = CASE mode = "ordinal" \/ i = 1 -> i
                                 [] mode = "competition" -> IF tied THEN last ELSE i
                                 [] OTHER -> IF tied THEN last ELSE last + 1
  BY DEF RankUp
<1>10. tied => i > 1
  OBVIOUS
<1> HIDE DEF s, A, B, C, tied, due, last, mode, a, b, c, v, w
<1>11. CASE mode = "ordinal" \/ i = 1
  <2>1. due = i
    BY <1>1, <1>2, <1>4, <1>5, <1>7, <1>11
  <2>2. i = 1 => ~tied
    BY <1>10
  <2>3. RankUp(value, s, g, i) = i
    BY <1>9, <1>11, <2>2
  <2>4. QED
    BY <2>1, <2>3 DEF s, due
<1>12. CASE i # 1 /\ mode = "competition"
  <2>1. due = IF tied THEN last ELSE i
    BY <1>2, <1>3, <1>4, <1>6, <1>7, <1>8, <1>12
  <2>2. RankUp(value, s, g, i) = IF tied THEN last ELSE i
    BY <1>9, <1>12
  <2>3. QED
    BY <2>1, <2>2 DEF s, due
<1>13. CASE i # 1 /\ mode = "dense"
  <2>1. due = IF tied THEN last ELSE last + 1
    BY <1>2, <1>3, <1>4, <1>6, <1>7, <1>8, <1>13
  <2>2. RankUp(value, s, g, i) = IF tied THEN last ELSE last + 1
    BY <1>9, <1>13
  <2>3. QED
    BY <2>1, <2>2 DEF s, due
<1>14. QED
  BY <1>1, <1>11, <1>12, <1>13 DEF mode

(* By induction along the standing.                                         *)
LEMMA RankingIsDue ==
    ASSUME TypeOKScoring, NEW value \in [Graded -> LowestTerms]
    PROVE  \A i \in 1..Cardinality(Graded) :
             Ranking(value, Standing(value))[i] = RankDue(value, Standing(value)[i])
<1> DEFINE n == Cardinality(Graded)
           s == Standing(value)
           due == [i \in 1..n |-> RankDue(value, s[i])]
           g == Ranking(value, s)
<1>1. n \in Nat /\ DOMAIN s = 1..n
  BY ScoringAssumption, FS_CardinalityType, StandingLists DEF Listing
<1>2. \A i \in 1..n : i > 1 => i - 1 \in 1..n
  BY <1>1
<1>3. ASSUME NEW h, NEW i \in 1..n, i > 1 => h[i - 1] = RankDue(value, s[i - 1])
      PROVE  RankUp(value, s, h, i) = RankDue(value, s[i])
  BY <1>3, DueGoesUp
<1> HIDE DEF n, s
<1>4. \A i \in 1..n : RankUp(value, s, due, i) = RankDue(value, s[i])
  BY <1>2, <1>3
<1>5. IsRanking(value, s, due)
  BY <1>1, <1>4 DEF IsRanking
<1> HIDE DEF due
<1>6. IsRanking(value, s, g)
  BY <1>5 DEF Ranking
<1> HIDE DEF g
<1>7. \A i \in 1..n : g[i] = RankUp(value, s, g, i)
  BY <1>1, <1>6 DEF IsRanking
<1> DEFINE T == {m \in Nat : m \in 1..n => g[m] = RankDue(value, s[m])}
<1>8. 0 \in T
  OBVIOUS
<1>9. \A m \in Nat : m \in T => m + 1 \in T
  <2> SUFFICES ASSUME NEW m \in Nat, m \in 1..n => g[m] = RankDue(value, s[m]), m + 1 \in 1..n
               PROVE  g[m + 1] = RankDue(value, s[m + 1])
    OBVIOUS
  <2>1. m + 1 > 1 => g[m + 1 - 1] = RankDue(value, s[m + 1 - 1])
    <3>1. m + 1 - 1 = m /\ (m + 1 > 1 => m \in 1..n)
      BY <1>1
    <3>2. QED
      BY <3>1
  <2>2. RankUp(value, s, g, m + 1) = RankDue(value, s[m + 1])
    BY <1>3, <2>1
  <2>3. QED
    BY <1>7, <2>2
<1> HIDE DEF T
<1>10. Nat \subseteq T
  BY <1>8, <1>9, SetOfNaturals
<1>11. \A i \in 1..n : i \in Nat
  BY <1>1
<1>12. QED
  BY <1>10, <1>11 DEF T, n, s, g

(* Ranks reads the pass at each recruit's place.                            *)
LEMMA RanksOfRanking ==
    ASSUME NEW value
    PROVE  Ranks(value) = [q \in DOMAIN value |->
             Ranking(value, Standing(value))[CHOOSE i \in DOMAIN Standing(value) : Standing(value)[i] = q]]
  BY DEF Ranks, Ranking, IsRanking, RankUp

(* Each recruit's rank is the one that is due.                              *)
LEMMA RanksAreDue ==
    ASSUME TypeOKScoring, NEW value \in [Graded -> LowestTerms], NEW r \in Graded
    PROVE  Ranks(value)[r] = RankDue(value, r)
<1> DEFINE s == Standing(value)
           place == CHOOSE i \in DOMAIN s : s[i] = r
<1>1. Ranks(value) = [q \in DOMAIN value |-> Ranking(value, s)[CHOOSE i \in DOMAIN s : s[i] = q]]
  BY RanksOfRanking, Zenon
<1>2. Ranks(value)[r] = Ranking(value, s)[place]
  <2> HIDE DEF s
  <2>1. DOMAIN value = Graded
    OBVIOUS
  <2>2. QED
    BY <1>1, <2>1
<1>3. DOMAIN s = 1..Cardinality(Graded)
  BY StandingLists DEF Listing
<1>4. \E i \in DOMAIN s : s[i] = r
  <2>1. Counts(s, Ahead(value), Graded)
    BY ScoringAssumption, AheadOrders, StandingLists, ListingCounts
  <2> HIDE DEF s
  <2>2. QED
    BY <1>3, <2>1 DEF Counts
<1> HIDE DEF s
<1>5. place \in DOMAIN s /\ s[place] = r
  BY <1>4
<1> HIDE DEF place
<1>6. Ranking(value, s)[place] = RankDue(value, s[place])
  BY <1>3, <1>5, RankingIsDue DEF s
<1>7. QED
  BY <1>2, <1>5, <1>6

(* Both halves together: what is typed agrees.                              *)
LEMMA TypedResultsAgree ==
    ASSUME TypeOKScoring
    PROVE  ResultsAgree
<1> DEFINE value == [r \in Graded |-> OverallScore(r)]
           rank == Ranks(value)
<1>1. value \in [Graded -> LowestTerms]
  BY OverallScoreIsLowest
<1> HIDE DEF value
<1>2. \A r \in Graded : rank[r] = RankDue(value, r)
  BY <1>1, RanksAreDue
<1>3. \A r \in Graded, d \in DOMAIN Dimension :
         Dimension[d].source = "criteria" /\ ~Corrected(r, InDimension(d)) /\ Comparable(r, d)
         => Weighted(r, InDimension(d)) = AutomaticDimension(r, d)
  BY EditorAgrees
<1>4. QED
  BY <1>2, <1>3 DEF ResultsAgree, value

-----------------------------------------------------------------------------
(* The type invariant of the results.                                       *)

(* Nothing is entered at first.                                             *)
LEMMA InitScoringTyped == InitScoring => TypeOKScoring
  BY DEF InitScoring, Unscored, None, TypeOKScoring

(* What is entered is valid.                                                *)
LEMMA ScoringStep == TypeOKScoring /\ [NextScoring]_scoringVars => TypeOKScoring'
<1> SUFFICES ASSUME TypeOKScoring, [NextScoring]_scoringVars
             PROVE  TypeOKScoring'
  OBVIOUS
<1>1. CASE Evaluate
  <2>1. PICK t \in ActivityTasks, response \in UNION {Responses(u.activity) : u \in ActivityTasks} :
           /\ response \in Responses(t.activity) /\ evaluations' = Entering(evaluations, t, response)
           /\ UNCHANGED <<policy, adminEvaluations, assessed, overrides>>
    BY <1>1 DEF Evaluate
  <2>2. QED
    BY <2>1 DEF TypeOKScoring, Entering
<1>2. CASE EvaluateAsAdmin
  <2>1. PICK r \in Graded, a \in ActivityNames, response \in UNION {Responses(b) : b \in ActivityNames} :
           /\ response \in Responses(a) /\ adminEvaluations' = Entering(adminEvaluations, <<r, a>>, response)
           /\ UNCHANGED <<policy, evaluations, assessed, overrides>>
    BY <1>2 DEF EvaluateAsAdmin
  <2>2. <<r, a>> \in Graded \X ActivityNames /\ <<r, a>>[2] = a
    OBVIOUS
  <2> DEFINE entry == <<r, a>>
  <2>3. /\ entry \in Graded \X ActivityNames /\ response \in Responses(entry[2])
        /\ adminEvaluations' = Entering(adminEvaluations, entry, response)
    BY <2>1, <2>2
  <2> HIDE DEF entry
  <2>4. QED
    BY <2>1, <2>3 DEF TypeOKScoring, Entering
<1>3. CASE AssessGenerally
  <2>1. PICK r \in Graded, g \in DOMAIN GeneralFactor :
           /\ \E n \in 0..GeneralFactor[g] : assessed' = Entering(assessed, <<r, g>>, n)
           /\ UNCHANGED <<policy, evaluations, adminEvaluations, overrides>>
    BY <1>3 DEF AssessGenerally
  <2>2. PICK n \in 0..GeneralFactor[g] : assessed' = Entering(assessed, <<r, g>>, n)
    BY <2>1
  <2> DEFINE entry == <<r, g>>
  <2>3. entry \in Graded \X DOMAIN GeneralFactor /\ n \in 0..GeneralFactor[entry[2]]
    BY <2>1, <2>2
  <2>4. assessed' = Entering(assessed, entry, n)
    BY <2>2
  <2> HIDE DEF entry
  <2>5. \A x \in DOMAIN assessed' :
           x \in Graded \X DOMAIN GeneralFactor /\ assessed'[x] \in 0..GeneralFactor[x[2]]
    BY <2>3, <2>4 DEF TypeOKScoring, Entering
  <2>6. QED
    BY <2>1, <2>5 DEF TypeOKScoring
<1>4. CASE CorrectGrades
  <2>1. PICK r \in Graded, x \in {<<0, 1>>, <<1, 1>>},
             S \in {Contributing(d) : d \in DOMAIN Dimension} \cup {{c} : c \in DOMAIN Criterion} :
           /\ overrides' = [i \in DOMAIN overrides \cup ({r} \X S) |->
                                IF i \in {r} \X S THEN x ELSE overrides[i]]
           /\ UNCHANGED <<policy, evaluations, adminEvaluations, assessed>>
    BY <1>4 DEF CorrectGrades
  <2>2. S \subseteq DOMAIN Criterion
    BY <2>1 DEF Contributing, CriteriaOf, InDimension
  <2>3. {r} \X S \subseteq Graded \X DOMAIN Criterion
    BY <2>1, <2>2
  <2> DEFINE new == {r} \X S
  <2>4. \A i \in DOMAIN overrides' :
           i \in Graded \X DOMAIN Criterion /\ overrides'[i] \in {<<0, 1>>, <<1, 1>>}
    <3>1. overrides' = [i \in DOMAIN overrides \cup new |-> IF i \in new THEN x ELSE overrides[i]]
      BY <2>1
    <3>2. new \subseteq Graded \X DOMAIN Criterion
      BY <2>3
    <3> HIDE DEF new
    <3>3. QED
      BY <2>1, <3>1, <3>2 DEF TypeOKScoring
  <2>5. QED
    BY <2>1, <2>4 DEF TypeOKScoring
<1>5. CASE UNCHANGED scoringVars
  BY <1>5 DEF scoringVars, TypeOKScoring
<1>6. QED
  BY <1>1, <1>2, <1>3, <1>4, <1>5 DEF NextScoring

(* TypeOKScoring: every evaluation, by an evaluator or an administrator, has  *)
(* a valid number for each criterion of its activity and no other, and every  *)
(* assessment and correction is of a recruit and a criterion there is, and    *)
(* within its scale.                                                          *)
THEOREM ScoringTypeCorrect == SpecScoring => []TypeOKScoring
<1>1. QED
  BY InitScoringTyped, ScoringStep, PTL DEF SpecScoring

(* ResultsAgree: whatever was entered, the results (services 1277-1365) and   *)
(* the correction editor (correction_scoring 7-46) compute the same value of  *)
(* a dimension nobody corrected, unless an evaluation is missing on a scale   *)
(* that does not start at zero; and the one pass of configured_ranks gives    *)
(* each recruit one more than those that are better, in every mode.           *)
THEOREM ResultsAlwaysAgree == SpecScoring => []ResultsAgree
<1>1. QED
  BY ScoringTypeCorrect, TypedResultsAgree, PTL
=================================================================================
