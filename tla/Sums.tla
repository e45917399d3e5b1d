-------------------------------- MODULE Sums --------------------------------
(***************************************************************************)
(* Facts about numbers that the other proofs cite: induction, stated with  *)
(* a set of numbers where one would write a predicate, and the sums of the *)
(* community module Functions, which are folds over finite sets.           *)
(***************************************************************************)
EXTENDS Functions, FiniteSetTheorems, TLAPS

(* Every non-empty set of naturals has a least element. *)
LEMMA LeastNumber ==
  ASSUME NEW T, T \subseteq Nat, T # {}
  PROVE  \E m \in T : \A k \in T : m <= k
<1> DEFINE R == OpToRel(<, Nat)
<1>1. IsWellFoundedOn(R, Nat)
  BY NatLessThanWellFounded
<1>2. \A x, y \in Nat : <<x, y>> \in R <=> x < y
  BY DEF OpToRel
<1> HIDE DEF R
<1>3. PICK m \in T : \A k \in T : ~ (<<k, m>> \in R)
  BY <1>1, WFMin
<1>4. \A k \in T : ~ (k < m)
  BY <1>2, <1>3, Zenon
<1>5. \A k \in T : m <= k
  BY <1>4
<1> QED BY <1>5

(* Induction. What is to be shown of n is that n is in T.                  *)
LEMMA SetInduction ==
  ASSUME NEW T, 0 \in T, \A n \in Nat : n \in T => n + 1 \in T
  PROVE  \A n \in Nat : n \in T
<1> DEFINE Wrong == Nat \ T
<1> SUFFICES ASSUME Wrong # {} PROVE FALSE
  OBVIOUS
<1>1. PICK m \in Wrong : \A k \in Wrong : m <= k
  <2>1. Wrong \subseteq Nat OBVIOUS
  <2> HIDE DEF Wrong
  <2> QED BY <2>1, LeastNumber
<1>2. m # 0 /\ m - 1 \in Nat /\ (m - 1) + 1 = m
  OBVIOUS
<1>3. m - 1 \in T
  BY <1>1, <1>2
<1> QED BY <1>2, <1>3

----------------------------------------------------------------------------
(* The recursion that a sum is defined by: g solves it on the subsets of   *)
(* S that have at most n elements.                                         *)
Chosen(s) == CHOOSE x \in s : TRUE
Added(f, g, s) == IF s = {} THEN 0 ELSE f[Chosen(s)] + g[s \ {Chosen(s)}]
Solves(f, S, g, n) == \A s \in SUBSET S : Cardinality(s) <= n => g[s] = Added(f, g, s)

LEMMA Smaller ==
  ASSUME NEW S, IsFiniteSet(S), NEW s \in SUBSET S
  PROVE  /\ IsFiniteSet(s) /\ Cardinality(s) \in Nat
         /\ Cardinality(s) = 0 <=> s = {}
         /\ s # {} => Chosen(s) \in s
         /\ \A x \in s : /\ s \ {x} \in SUBSET S
                         /\ IsFiniteSet(s \ {x})
                         /\ Cardinality(s \ {x}) = Cardinality(s) - 1
<1>1. IsFiniteSet(s) /\ Cardinality(s) \in Nat
  BY FS_Subset, FS_CardinalityType
<1>2. Cardinality(s) = 0 <=> s = {}
  BY <1>1, FS_EmptySet
<1>3. \A x \in s : IsFiniteSet(s \ {x}) /\ Cardinality(s \ {x}) = Cardinality(s) - 1
  BY <1>1, FS_RemoveElement
<1> QED BY <1>1, <1>2, <1>3 DEF Chosen

LEMMA SolutionExists ==
  ASSUME NEW f, NEW S, IsFiniteSet(S)
  PROVE  \E g : g = [s \in SUBSET S |-> Added(f, g, s)]
<1> DEFINE T == {n \in Nat : \E g : Solves(f, S, g, n)}
<1>1. 0 \in T
  <2>1. Solves(f, S, [s \in SUBSET S |-> 0], 0)
    BY Smaller DEF Solves, Added
  <2> QED BY <2>1
<1>2. ASSUME NEW n \in Nat, NEW g, Solves(f, S, g, n)
      PROVE  Solves(f, S, [s \in SUBSET S |-> Added(f, g, s)], n + 1)
  <2> DEFINE h == [s \in SUBSET S |-> Added(f, g, s)]
  <2> SUFFICES ASSUME NEW s \in SUBSET S, Cardinality(s) <= n + 1
               PROVE  h[s] = Added(f, h, s)
    BY DEF Solves
  <2>1. CASE s = {}
    BY <2>1 DEF Added
  <2>2. CASE s # {}
    <3> DEFINE r == s \ {Chosen(s)}
    <3>1. r \in SUBSET S /\ Cardinality(r) <= n
      <4>1. Chosen(s) \in s /\ Cardinality(s) \in Nat BY <2>2, Smaller
      <4>2. r \in SUBSET S /\ Cardinality(r) = Cardinality(s) - 1 BY <4>1, Smaller
      <4> QED BY <4>1, <4>2
    <3>2. g[r] = h[r]
      BY <1>2, <3>1 DEF Solves
    <3>3. h[s] = f[Chosen(s)] + g[r] /\ Added(f, h, s) = f[Chosen(s)] + h[r]
      BY <2>2 DEF Added
    <3> QED BY <3>2, <3>3
  <2> QED BY <2>1, <2>2
<1>3. \A n \in Nat : n \in T
  <2>1. ASSUME NEW n \in Nat, n \in T PROVE n + 1 \in T
    <3>1. PICK g : Solves(f, S, g, n) BY <2>1
    <3>2. \E h : Solves(f, S, h, n + 1) BY <1>2, <3>1
    <3> QED BY <3>2
  <2> HIDE DEF T
  <2> QED BY <1>1, <2>1, SetInduction
<1>4. PICK g : Solves(f, S, g, Cardinality(S))
  BY <1>3, FS_CardinalityType
<1>5. \A s \in SUBSET S : g[s] = Added(f, g, s)
  BY <1>4, FS_Subset DEF Solves
<1> DEFINE h == [s \in SUBSET S |-> g[s]]
<1>6. h = [s \in SUBSET S |-> Added(f, h, s)]
  <2>1. ASSUME NEW s \in SUBSET S PROVE Added(f, g, s) = Added(f, h, s)
    BY DEF Added
  <2> QED BY <1>5, <2>1
<1> QED BY <1>6

(* The function that a sum applies to its set. *)
Totals(f, S) == CHOOSE g : g = [s \in SUBSET S |-> Added(f, g, s)]

LEMMA SumIsTotal ==
  ASSUME NEW f, NEW S
  PROVE  SumFunctionOnSet(f, S) = Totals(f, S)[S]
BY DEF SumFunctionOnSet, FoldFunctionOnSet, MapThenFoldSet, Totals, Added, Chosen

LEMMA TotalsAdd ==
  ASSUME NEW f, NEW S, IsFiniteSet(S), NEW s \in SUBSET S
  PROVE  Totals(f, S)[s] = Added(f, Totals(f, S), s)
<1> DEFINE Good(g) == g = [t \in SUBSET S |-> Added(f, g, t)]
<1>1. \E g : Good(g)
  BY SolutionExists
<1>2. Totals(f, S) = CHOOSE g : Good(g)
  BY DEF Totals
<1> HIDE DEF Good
<1>3. Good(Totals(f, S))
  BY <1>1, <1>2
<1> DEFINE g == Totals(f, S)
<1>4. g = [t \in SUBSET S |-> Added(f, g, t)]
  BY <1>3 DEF Good
<1> HIDE DEF g
<1>5. g[s] = Added(f, g, s)
  BY <1>4
<1> QED BY <1>5 DEF g

(* The recursion of a larger set gives the same on a smaller one. *)
LEMMA TotalsAgree ==
  ASSUME NEW f, NEW S, IsFiniteSet(S), NEW R \in SUBSET S, NEW s \in SUBSET R
  PROVE  Totals(f, S)[s] = Totals(f, R)[s]
<1> DEFINE T == {n \in Nat : \A t \in SUBSET R : Cardinality(t) = n
                               => Totals(f, S)[t] = Totals(f, R)[t]}
<1>0. IsFiniteSet(R)
  BY FS_Subset
<1>1. ASSUME NEW n \in Nat, n = 0 \/ n - 1 \in T,
             NEW t \in SUBSET R, Cardinality(t) = n
      PROVE  Totals(f, S)[t] = Totals(f, R)[t]
  <2>1. Totals(f, S)[t] = Added(f, Totals(f, S), t) /\ Totals(f, R)[t] = Added(f, Totals(f, R), t)
    BY <1>0, TotalsAdd
  <2>2. CASE t = {}
    BY <2>1, <2>2 DEF Added
  <2>3. CASE t # {}
    <3>1. Chosen(t) \in t /\ n # 0
      BY <1>0, <1>1, <2>3, Smaller
    <3>2. t \ {Chosen(t)} \in SUBSET R /\ Cardinality(t \ {Chosen(t)}) = n - 1
      BY <1>0, <1>1, <3>1, Smaller
    <3>3. Totals(f, S)[t \ {Chosen(t)}] = Totals(f, R)[t \ {Chosen(t)}]
      BY <1>1, <3>1, <3>2
    <3> QED BY <2>1, <3>3 DEF Added
  <2> QED BY <2>2, <2>3
<1>2. \A n \in Nat : n \in T
  <2>1. 0 \in T BY <1>1
  <2>2. ASSUME NEW n \in Nat, n \in T PROVE n + 1 \in T
    <3>1. n + 1 \in Nat /\ (n + 1) - 1 \in T BY <2>2
    <3> QED BY <1>1, <3>1
  <2> HIDE DEF T
  <2> QED BY <2>1, <2>2, SetInduction
<1> QED BY <1>0, <1>2, Smaller

LEMMA SumEmpty ==
  ASSUME NEW f
  PROVE  SumFunctionOnSet(f, {}) = 0
BY SumIsTotal, TotalsAdd, FS_EmptySet DEF Added

LEMMA SumChosen ==
  ASSUME NEW f, NEW S, IsFiniteSet(S), S # {}
  PROVE  SumFunctionOnSet(f, S)
           = f[Chosen(S)] + SumFunctionOnSet(f, S \ {Chosen(S)})
<1>1. Totals(f, S)[S] = f[Chosen(S)] + Totals(f, S)[S \ {Chosen(S)}]
  BY TotalsAdd DEF Added
<1>2. Totals(f, S)[S \ {Chosen(S)}] = Totals(f, S \ {Chosen(S)})[S \ {Chosen(S)}]
  BY TotalsAgree
<1> QED BY <1>1, <1>2, SumIsTotal

----------------------------------------------------------------------------
(* The sum of integers is one, and any element of the set may be taken out *)
(* first.                                                                  *)
LEMMA SumTakesOut ==
  ASSUME NEW S, IsFiniteSet(S), NEW f, \A x \in S : f[x] \in Int
  PROVE  /\ SumFunctionOnSet(f, S) \in Int
         /\ \A x \in S : SumFunctionOnSet(f, S) = f[x] + SumFunctionOnSet(f, S \ {x})
<1> DEFINE Sum(s) == SumFunctionOnSet(f, s)
           Claim(s) == Sum(s) \in Int /\ \A x \in s : Sum(s) = f[x] + Sum(s \ {x})
           T == {n \in Nat : \A s \in SUBSET S : Cardinality(s) <= n => Claim(s)}
<1>1. Claim({})
  BY SumEmpty
<1>2. ASSUME NEW n \in Nat, n \in T, NEW s \in SUBSET S, Cardinality(s) <= n + 1,
             s # {}
      PROVE  Claim(s)
  <2> DEFINE c == Chosen(s)
  <2>1. IsFiniteSet(s) /\ c \in s
    BY <1>2, Smaller
  <2> HIDE DEF c
  <2>2. Sum(s) = f[c] + Sum(s \ {c})
    BY <1>2, <2>1, SumChosen DEF c
  <2>3. ASSUME NEW x \in s
        PROVE  s \ {x} \in SUBSET S /\ Claim(s \ {x})
    <3>1. s \ {x} \in SUBSET S /\ Cardinality(s \ {x}) <= n
      BY <1>2, Smaller
    <3> QED BY <1>2, <3>1
  <2>4. Sum(s) \in Int
    BY <2>1, <2>2, <2>3
  <2>5. ASSUME NEW x \in s, x # c PROVE Sum(s) = f[x] + Sum(s \ {x})
    <3>1. Sum(s \ {c}) = f[x] + Sum((s \ {c}) \ {x})
      BY <2>1, <2>3, <2>5
    <3>2. (s \ {c}) \ {x} = (s \ {x}) \ {c}
      OBVIOUS
    <3>3. Sum(s \ {x}) = f[c] + Sum((s \ {c}) \ {x})
      BY <2>1, <2>3, <2>5, <3>2
    <3>4. Sum((s \ {c}) \ {x}) \in Int
      <4>1. PICK r \in SUBSET S : r = s \ {x} /\ c \in r /\ r \ {c} \in SUBSET S
        BY <2>1, <2>5
      <4>2. Cardinality(r) = Cardinality(s) - 1 /\ Cardinality(s) \in Nat
        BY <4>1, Smaller
      <4>3. Cardinality(r \ {c}) = Cardinality(r) - 1
        BY <4>1, Smaller
      <4>4. Cardinality(r \ {c}) <= n
        BY <1>2, <4>2, <4>3
      <4> QED BY <1>2, <3>2, <4>1, <4>4
    <3>5. f[x] \in Int /\ f[c] \in Int
      BY <2>1
    <3> HIDE DEF Sum
    <3> QED BY <2>2, <3>1, <3>3, <3>4, <3>5
  <2> QED BY <2>2, <2>4, <2>5
<1>3. \A n \in Nat : n \in T
  <2>1. \A n \in Nat : n \in T => n + 1 \in T BY <1>1, <1>2
  <2>2. 0 \in T
    <3>1. \A s \in SUBSET S : Cardinality(s) <= 0 => s = {} BY Smaller
    <3> QED BY <1>1, <3>1
  <2> HIDE DEF T
  <2> QED BY <2>1, <2>2, SetInduction
<1>4. Cardinality(S) \in T
  BY <1>3, FS_CardinalityType
<1> QED BY <1>4

LEMMA SumAdds ==
  ASSUME NEW S, IsFiniteSet(S), NEW x, x \notin S, NEW f, \A y \in S \cup {x} : f[y] \in Int
  PROVE  SumFunctionOnSet(f, S \cup {x}) = f[x] + SumFunctionOnSet(f, S)
<1>1. IsFiniteSet(S \cup {x}) /\ (S \cup {x}) \ {x} = S
  BY FS_AddElement
<1> QED BY <1>1, SumTakesOut

(* Induction over the subsets of a finite set. *)
LEMMA SubsetInduction ==
  ASSUME NEW S, IsFiniteSet(S), NEW T, {} \in T,
         \A s \in SUBSET S : \A x \in S \ s : s \in T => s \cup {x} \in T
  PROVE  S \in T
<1> DEFINE N == {n \in Nat : \A s \in SUBSET S : Cardinality(s) = n => s \in T}
<1>1. 0 \in N
  BY Smaller
<1>2. ASSUME NEW n \in Nat, n \in N, NEW s \in SUBSET S, Cardinality(s) = n + 1
      PROVE  s \in T
  <2>1. PICK x \in s : s \ {x} \in SUBSET S /\ Cardinality(s \ {x}) = n
    <3>1. Cardinality(s) # 0 BY <1>2
    <3>2. PICK x : x \in s BY <3>1, Smaller
    <3> QED BY <1>2, <3>2, Smaller
  <2>2. s \ {x} \in T /\ x \in S \ (s \ {x}) /\ (s \ {x}) \cup {x} = s
    BY <1>2, <2>1
  <2> QED BY <2>1, <2>2
<1>3. \A n \in Nat : n \in N
  <2>1. \A n \in Nat : n \in N => n + 1 \in N BY <1>2
  <2> HIDE DEF N
  <2> QED BY <1>1, <2>1, SetInduction
<1>4. Cardinality(S) \in N
  BY <1>3, FS_CardinalityType
<1> QED BY <1>4

(* The sum depends on the summands of its set only. *)
LEMMA SumSame ==
  ASSUME NEW S, IsFiniteSet(S), NEW f, NEW g, \A x \in S : f[x] \in Int /\ g[x] = f[x]
  PROVE  SumFunctionOnSet(g, S) = SumFunctionOnSet(f, S)
<1> DEFINE T == {s \in SUBSET S : SumFunctionOnSet(g, s) = SumFunctionOnSet(f, s)}
<1>1. {} \in T
  BY SumEmpty
<1>2. ASSUME NEW s \in SUBSET S, NEW x \in S \ s, s \in T
      PROVE  s \cup {x} \in T
  <2>1. IsFiniteSet(s)
    BY FS_Subset
  <2>2. /\ SumFunctionOnSet(f, s \cup {x}) = f[x] + SumFunctionOnSet(f, s)
        /\ SumFunctionOnSet(g, s \cup {x}) = g[x] + SumFunctionOnSet(g, s)
    BY <2>1, SumAdds
  <2> QED BY <1>2, <2>2
<1>3. S \in T
  <2>1. \A s \in SUBSET S : \A x \in S \ s : s \in T => s \cup {x} \in T BY <1>2
  <2> HIDE DEF T
  <2> QED BY <1>1, <2>1, SubsetInduction
<1> QED BY <1>3

(* A sum of bounded summands is bounded. *)
LEMMA SumBounds ==
  ASSUME NEW S, IsFiniteSet(S), NEW f, NEW top \in Nat, \A x \in S : f[x] \in 0 .. top
  PROVE  SumFunctionOnSet(f, S) \in 0 .. Cardinality(S) * top
<1> DEFINE T == {s \in SUBSET S : SumFunctionOnSet(f, s) \in 0 .. Cardinality(s) * top}
<1>1. {} \in T
  BY SumEmpty, FS_EmptySet
<1>2. ASSUME NEW s \in SUBSET S, NEW x \in S \ s, s \in T
      PROVE  s \cup {x} \in T
  <2>1. IsFiniteSet(s) /\ Cardinality(s) \in Nat /\ Cardinality(s \cup {x}) = Cardinality(s) + 1
    BY FS_Subset, FS_AddElement, FS_CardinalityType
  <2>2. SumFunctionOnSet(f, s \cup {x}) = f[x] + SumFunctionOnSet(f, s)
    <3>1. \A y \in s \cup {x} : f[y] \in Int OBVIOUS
    <3> QED BY <2>1, <3>1, SumAdds
  <2>3. f[x] \in 0 .. top
    OBVIOUS
  <2>4. \A n \in Nat : (n + 1) * top = n * top + top /\ n * top \in Nat
    OBVIOUS
  <2>5. f[x] + SumFunctionOnSet(f, s) \in 0 .. Cardinality(s) * top + top
    BY <1>2, <2>1, <2>3, <2>4
  <2> QED BY <2>1, <2>2, <2>4, <2>5
<1>3. S \in T
  <2>1. \A s \in SUBSET S : \A x \in S \ s : s \in T => s \cup {x} \in T BY <1>2
  <2> HIDE DEF T
  <2> QED BY <1>1, <2>1, SubsetInduction
<1> QED BY <1>3

(* One summand replaced. *)
LEMMA SumReplaces ==
  ASSUME NEW S, IsFiniteSet(S), NEW f, \A x \in S : f[x] \in Int,
         NEW y \in S, NEW g, g[y] \in Int, \A x \in S \ {y} : g[x] = f[x]
  PROVE  SumFunctionOnSet(g, S) = SumFunctionOnSet(f, S) - f[y] + g[y]
<1>1. IsFiniteSet(S \ {y})
  BY FS_RemoveElement
<1>2. SumFunctionOnSet(g, S \ {y}) = SumFunctionOnSet(f, S \ {y})
  BY <1>1, SumSame
<1>3. /\ SumFunctionOnSet(f, S) = f[y] + SumFunctionOnSet(f, S \ {y})
      /\ SumFunctionOnSet(g, S) = g[y] + SumFunctionOnSet(g, S \ {y})
  BY SumTakesOut
<1>4. SumFunctionOnSet(f, S \ {y}) \in Int /\ f[y] \in Int
  BY <1>1, SumTakesOut
<1> QED BY <1>2, <1>3, <1>4

LEMMA SumOfNext ==
  ASSUME NEW n \in Nat, NEW f, \A k \in 1 .. n + 1 : f[k] \in Int
  PROVE  SumFunctionOnSet(f, 1 .. n + 1) = f[n + 1] + SumFunctionOnSet(f, 1 .. n)
<1>0. IsFiniteSet(1 .. n)
  BY FS_Interval
<1>1. PICK S : S = 1 .. n /\ IsFiniteSet(S) /\ n + 1 \notin S /\ 1 .. n + 1 = S \cup {n + 1}
  BY <1>0
<1>2. \A k \in S \cup {n + 1} : f[k] \in Int
  BY <1>1
<1>3. SumFunctionOnSet(f, S \cup {n + 1}) = f[n + 1] + SumFunctionOnSet(f, S)
  BY <1>1, <1>2, SumAdds
<1> QED BY <1>1, <1>3

(* The summands of a sequence moved by one place. *)
LEMMA SumShifts ==
  ASSUME NEW n \in Nat, NEW f, \A k \in 1 .. n + 1 : f[k] \in Int,
         NEW g, \A k \in 1 .. n : g[k] = f[k + 1]
  PROVE  SumFunctionOnSet(f, 1 .. n + 1) = f[1] + SumFunctionOnSet(g, 1 .. n)
<1> DEFINE T == {m \in Nat : m <= n => SumFunctionOnSet(f, 1 .. m + 1)
                                         = f[1] + SumFunctionOnSet(g, 1 .. m)}
<1>0. \A m \in Nat : IsFiniteSet(1 .. m)
  BY FS_Interval
<1>1. 0 \in T
  <2>1. 1 .. 0 = {} /\ 1 .. 1 = {} \cup {1} /\ f[1] \in Int
    OBVIOUS
  <2>2. SumFunctionOnSet(f, {} \cup {1}) = f[1] + SumFunctionOnSet(f, {})
    BY <2>1, SumAdds, FS_EmptySet
  <2> QED BY <2>1, <2>2, SumEmpty
<1>2. ASSUME NEW m \in Nat, m \in T PROVE m + 1 \in T
  <2> SUFFICES ASSUME m + 1 <= n
               PROVE  SumFunctionOnSet(f, 1 .. (m + 1) + 1) = f[1] + SumFunctionOnSet(g, 1 .. m + 1)
    OBVIOUS
  <2>1. PICK o \in Nat : o = m + 1 /\ o \in 1 .. n
    OBVIOUS
  <2>2. SumFunctionOnSet(f, 1 .. o + 1) = f[o + 1] + SumFunctionOnSet(f, 1 .. o)
    BY <2>1, SumOfNext
  <2>3. SumFunctionOnSet(g, 1 .. m + 1) = g[m + 1] + SumFunctionOnSet(g, 1 .. m)
    <3>1. \A k \in 1 .. m + 1 : g[k] \in Int OBVIOUS
    <3> QED BY <3>1, SumOfNext
  <2>4. SumFunctionOnSet(g, 1 .. m) \in Int
    <3>1. \A k \in 1 .. m : g[k] \in Int OBVIOUS
    <3> QED BY <1>0, <3>1, SumTakesOut
  <2>5. g[m + 1] = f[(m + 1) + 1] /\ f[(m + 1) + 1] \in Int /\ f[1] \in Int
    OBVIOUS
  <2>6. SumFunctionOnSet(f, 1 .. m + 1) = f[1] + SumFunctionOnSet(g, 1 .. m)
    BY <1>2
  <2> QED BY <2>1, <2>2, <2>3, <2>4, <2>5, <2>6
<1>3. \A m \in Nat : m \in T
  <2>1. \A m \in Nat : m \in T => m + 1 \in T BY <1>2
  <2> HIDE DEF T
  <2> QED BY <1>1, <2>1, SetInduction
<1> QED BY <1>3

----------------------------------------------------------------------------
(* A word is made of two, six, four and four bits, and parted into them.   *)
Made(w, a, b, c, d)   == w = (a * 64 + b) * 256 + c * 16 + d
Parted(w, a, b, c, d) == /\ w \div 16384 = a /\ (w \div 256) % 64 = b
                         /\ (w \div 16) % 16 = c /\ w % 16 = d

LEMMA Digits ==
  ASSUME NEW a \in 0 .. 3, NEW b \in 0 .. 63, NEW c \in 0 .. 15, NEW d \in 0 .. 15,
         NEW w, Made(w, a, b, c, d)
  PROVE  Parted(w, a, b, c, d)
<1>1. c * 16 + d \in 0 .. 255
  OBVIOUS
<1>2. \E byte \in 0 .. 255 : byte = c * 16 + d
  BY <1>1
<1>3. PICK byte \in 0 .. 255 : byte = c * 16 + d
  BY <1>2
<1>4. \E low \in 0 .. 16383 : low = b * 256 + byte
  <2>1. b * 256 + byte \in 0 .. 16383
    BY ONLY b \in 0 .. 63, byte \in 0 .. 255
  <2> QED BY <2>1
<1>5. PICK low \in 0 .. 16383 : low = b * 256 + byte
  BY <1>4
<1>6. PICK top \in Nat : top = a * 64 + b
  OBVIOUS
<1>7. PICK high \in Nat : high = top * 16 + c
  OBVIOUS
<1>8. w = a * 16384 + low /\ w = top * 256 + byte /\ w = high * 16 + d
  BY <1>3, <1>5, <1>6, <1>7 DEF Made
<1>9. w \div 16384 = a
  <2>1. (a * 16384 + low) \div 16384 = a
    BY ONLY a \in 0 .. 3, low \in 0 .. 16383
  <2> QED BY <2>1, <1>8
<1>10. w \div 256 = top /\ top % 64 = b
  BY <1>6, <1>8
<1>11. w \div 16 = high /\ w % 16 = d /\ high % 16 = c
  <2>1. (high * 16 + d) \div 16 = high /\ (high * 16 + d) % 16 = d
    BY ONLY high \in Nat, d \in 0 .. 15
  <2>2. (top * 16 + c) % 16 = c
    BY ONLY top \in Nat, c \in 0 .. 15
  <2>3. w = high * 16 + d
    BY <1>8
  <2>4. w \div 16 = high /\ w % 16 = d
    BY ONLY <2>1, <2>3
  <2>5. high % 16 = c
    BY ONLY <2>2, <1>7
  <2> QED BY <2>4, <2>5
<1> QED BY <1>9, <1>10, <1>11 DEF Parted
=============================================================================
