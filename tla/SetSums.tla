------------------------------- MODULE SetSums -------------------------------
(* What the sums over finite sets, and the least elements, that several          *)
(* components' modules are written with amount to.  The library's induction      *)
(* theorems take an operator; these proofs take instead a smallest               *)
(* counterexample, which WFMin provides for a set.                               *)
EXTENDS Integers, FiniteSets, FiniteSetsExt, FiniteSetTheorems, WellFoundedInduction, TLAPS

(***************************************************************************)
(* The least element of a set of naturals, and of a set of subsets          *)
(***************************************************************************)

LEMMA LeastExists ==
    ASSUME NEW T, T \subseteq Nat, T # {}
    PROVE  \E x \in T : \A y \in T : x <= y
  <1>1. PICK R : R = OpToRel(<, Nat)
    OBVIOUS
  <1>2. IsWellFoundedOn(R, Nat)
    BY <1>1, NatLessThanWellFounded
  <1>3. PICK x \in T : \A y \in T : ~ (<<y, x>> \in R)
    BY <1>2, WFMin
  <1>4. \A y \in T : x <= y
    <2> SUFFICES ASSUME NEW y \in T, ~(x <= y) PROVE FALSE
      OBVIOUS
    <2>1. y < x /\ <<y, x>> \in Nat \X Nat
      OBVIOUS
    <2>2. R = {ss \in Nat \X Nat : ss[1] < ss[2]}
      BY <1>1 DEF OpToRel
    <2>3. <<y, x>> \in R
      BY <2>1, <2>2
    <2> QED
      BY <2>3, <1>3
  <1> QED
    BY <1>4

LEMMA MinIsLeast ==
    ASSUME NEW T, T \subseteq Nat, T # {}
    PROVE  Min(T) \in T /\ \A y \in T : Min(T) <= y
  BY LeastExists DEF Min

\* Stands in for induction on a finite set: of the subsets that lack a property,
\* if there are any, one is smallest.
LEMMA SmallestSubset ==
    ASSUME NEW S, IsFiniteSet(S), NEW Bad \in SUBSET (SUBSET S), Bad # {}
    PROVE  \E T \in Bad : \A U \in SUBSET T : U # T => U \notin Bad
  <1>1. PICK N : N = {Cardinality(T) : T \in Bad}
    OBVIOUS
  <1>2. \A T \in Bad : IsFiniteSet(T) /\ Cardinality(T) \in Nat
    BY FS_Subset, FS_CardinalityType
  <1>3. N \subseteq Nat /\ N # {}
    BY <1>1, <1>2
  <1>4. PICK n \in N : \A m \in N : n <= m
    BY <1>3, LeastExists
  <1>5. PICK T \in Bad : n = Cardinality(T)
    BY <1>1, <1>4
  <1>6. ASSUME NEW U \in SUBSET T, U # T, U \in Bad PROVE FALSE
    <2>1. Cardinality(U) < Cardinality(T)
      BY <1>2, <1>5, <1>6, FS_Subset
    <2>2. n <= Cardinality(U) /\ n \in Nat /\ Cardinality(U) \in Nat
      BY <1>1, <1>2, <1>3, <1>4, <1>6
    <2> QED
      BY <2>1, <2>2, <1>5
  <1> QED
    BY <1>6

(***************************************************************************)
(* What MapThenSumSet computes on a finite set                             *)
(***************************************************************************)

\* The sum of g over S, as the components' modules write it.
SumOver(g, S) == MapThenSumSet(LAMBDA x : g[x], S)

Picked(s) == CHOOSE x \in s : TRUE

\* One step of the recursion of MapThenFoldSet, from a table of smaller sums.
SumStep(g, f, s) == IF s = {} THEN 0 ELSE g[Picked(s)] + f[s \ {Picked(s)}]

SumTable(g, S) == CHOOSE f : f = [s \in SUBSET S |-> SumStep(g, f, s)]

LEMMA SumIsTable ==
    ASSUME NEW g, NEW S
    PROVE  SumOver(g, S) = SumTable(g, S)[S]
  BY DEF SumOver, SumTable, SumStep, Picked, MapThenSumSet, MapThenFoldSet

LEMMA PickedIsIn ==
    ASSUME NEW s, s # {}
    PROVE  Picked(s) \in s
  BY DEF Picked

\* The table exists: it is built up by the size of the subsets.
LEMMA TableExists ==
    ASSUME NEW g, NEW S, IsFiniteSet(S)
    PROVE  \E f : f = [s \in SUBSET S |-> SumStep(g, f, s)]
  <1> DEFINE Level(n) == {s \in SUBSET S : Cardinality(s) <= n}
             Built(n) == \E f : f = [s \in Level(n) |-> SumStep(g, f, s)]
  <1>1. \A s \in SUBSET S : IsFiniteSet(s) /\ Cardinality(s) \in Nat /\ Cardinality(s) <= Cardinality(S)
    BY FS_Subset, FS_CardinalityType
  <1>2. \A s \in SUBSET S : s # {} => Cardinality(s \ {Picked(s)}) = Cardinality(s) - 1
    BY <1>1, PickedIsIn, FS_RemoveElement
  <1>3. Built(0)
    <2>1. \A s \in Level(0) : s = {}
      BY <1>1, FS_EmptySet
    <2>2. PICK f : f = [s \in Level(0) |-> 0]
      OBVIOUS
    <2>3. f = [s \in Level(0) |-> SumStep(g, f, s)]
      BY <2>1, <2>2 DEF SumStep
    <2> QED
      BY <2>3
  <1>4. ASSUME NEW n \in Nat, Built(n) PROVE Built(n + 1)
    <2>1. PICK f : f = [s \in Level(n) |-> SumStep(g, f, s)]
      BY <1>4
    <2>2. PICK h : h = [s \in Level(n + 1) |-> SumStep(g, f, s)]
      OBVIOUS
    <2>3. ASSUME NEW s \in Level(n + 1) PROVE SumStep(g, h, s) = SumStep(g, f, s)
      <3>1. CASE s = {}
        BY <3>1 DEF SumStep
      <3>2. CASE s # {}
        <4>1. PICK t : t = s \ {Picked(s)}
          OBVIOUS
        <4>2. t \in Level(n) /\ t \in Level(n + 1)
          BY <1>1, <1>2, <3>2, <4>1
        <4>3. h[t] = f[t]
          BY <2>1, <2>2, <4>2
        <4> QED
          BY <3>2, <4>1, <4>3 DEF SumStep
      <3> QED
        BY <3>1, <3>2
    <2>4. h = [s \in Level(n + 1) |-> SumStep(g, h, s)]
      BY <2>2, <2>3
    <2> QED
      BY <2>4
  <1> HIDE DEF Built
  <1>5. ASSUME NEW m \in Nat, ~Built(m) PROVE FALSE
    <2>1. PICK B : B = {n \in Nat : ~Built(n)}
      OBVIOUS
    <2>2. PICK k \in B : \A y \in B : k <= y
      BY <1>5, <2>1, LeastExists
    <2>3. k # 0 /\ k \in Nat
      BY <1>3, <2>1, <2>2
    <2>4. k - 1 \in Nat /\ k - 1 \notin B
      BY <2>1, <2>2, <2>3
    <2>5. Built(k - 1)
      BY <2>1, <2>4
    <2>6. Built((k - 1) + 1)
      BY <1>4, <2>4, <2>5
    <2>7. (k - 1) + 1 = k
      BY <2>3
    <2> QED
      BY <2>1, <2>2, <2>6, <2>7
  <1>6. Built(Cardinality(S))
    BY <1>1, <1>5
  <1>7. Level(Cardinality(S)) = SUBSET S
    BY <1>1
  <1> QED
    BY <1>6, <1>7 DEF Built

LEMMA TableSteps ==
    ASSUME NEW g, NEW S, IsFiniteSet(S), NEW s \in SUBSET S
    PROVE  SumTable(g, S)[s] = SumStep(g, SumTable(g, S), s)
  <1>1. PICK f : f = SumTable(g, S)
    OBVIOUS
  <1>2. f = [t \in SUBSET S |-> SumStep(g, f, t)]
    BY <1>1, TableExists DEF SumTable
  <1>3. f[s] = SumStep(g, f, s)
    BY <1>2
  <1> QED
    BY <1>1, <1>3

\* The tables of a set and of a subset agree.
LEMMA TablesAgree ==
    ASSUME NEW g, NEW S, IsFiniteSet(S), NEW T \in SUBSET S
    PROVE  SumTable(g, S)[T] = SumTable(g, T)[T]
  <1>1. PICK a : a = SumTable(g, S)
    OBVIOUS
  <1>2. PICK b : b = SumTable(g, T)
    OBVIOUS
  <1>3. IsFiniteSet(T)
    BY FS_Subset
  <1>4. \A s \in SUBSET T : a[s] = SumStep(g, a, s) /\ b[s] = SumStep(g, b, s)
    <2> SUFFICES ASSUME NEW s \in SUBSET T PROVE a[s] = SumStep(g, a, s) /\ b[s] = SumStep(g, b, s)
      OBVIOUS
    <2>1. s \in SUBSET S
      OBVIOUS
    <2> QED
      BY <1>1, <1>2, <1>3, <2>1, TableSteps
  <1>5. PICK Bad : Bad = {s \in SUBSET T : a[s] # b[s]}
    OBVIOUS
  <1>6. CASE Bad # {}
    <2>1. PICK s \in Bad : \A u \in SUBSET s : u # s => u \notin Bad
      BY <1>3, <1>5, <1>6, SmallestSubset
    <2>2. s \in SUBSET T /\ a[s] # b[s]
      BY <1>5, <2>1
    <2>3. CASE s = {}
      BY <1>4, <2>2, <2>3 DEF SumStep
    <2>4. CASE s # {}
      <3>1. s \ {Picked(s)} \in SUBSET s /\ s \ {Picked(s)} # s
        BY <2>4, PickedIsIn
      <3>2. a[s \ {Picked(s)}] = b[s \ {Picked(s)}]
        BY <1>5, <2>1, <2>2, <3>1
      <3> QED
        BY <1>4, <2>2, <2>4, <3>2 DEF SumStep
    <2> QED
      BY <2>3, <2>4
  <1>7. CASE Bad = {}
    BY <1>1, <1>2, <1>5, <1>7
  <1> QED
    BY <1>6, <1>7

LEMMA SumEmpty ==
    ASSUME NEW g
    PROVE  SumOver(g, {}) = 0
  <1>1. {} \in SUBSET {}
    OBVIOUS
  <1>2. SumTable(g, {})[{}] = SumStep(g, SumTable(g, {}), {})
    BY <1>1, TableSteps, FS_EmptySet
  <1> QED
    BY <1>2, SumIsTable DEF SumStep

LEMMA SumPicked ==
    ASSUME NEW g, NEW S, IsFiniteSet(S), S # {}
    PROVE  SumOver(g, S) = g[Picked(S)] + SumOver(g, S \ {Picked(S)})
  <1>1. PICK T : T = S \ {Picked(S)}
    OBVIOUS
  <1>2. SumTable(g, S)[S] = g[Picked(S)] + SumTable(g, S)[T]
    <2>1. S \in SUBSET S
      OBVIOUS
    <2>2. SumTable(g, S)[S] = SumStep(g, SumTable(g, S), S)
      BY <2>1, TableSteps
    <2> QED
      BY <1>1, <2>2 DEF SumStep
  <1>3. SumTable(g, S)[T] = SumTable(g, T)[T]
    BY <1>1, TablesAgree
  <1> QED
    BY <1>1, <1>2, <1>3, SumIsTable

\* A sum of integers is one.
LEMMA SumIsInt ==
    ASSUME NEW S, IsFiniteSet(S), NEW g, \A x \in S : g[x] \in Int
    PROVE  SumOver(g, S) \in Int
  <1>1. PICK Bad : Bad = {T \in SUBSET S : SumOver(g, T) \notin Int}
    OBVIOUS
  <1>2. CASE Bad # {}
    <2>1. PICK T \in Bad : \A U \in SUBSET T : U # T => U \notin Bad
      BY <1>1, <1>2, SmallestSubset
    <2>2. T \in SUBSET S /\ IsFiniteSet(T) /\ SumOver(g, T) \notin Int
      BY <1>1, <2>1, FS_Subset
    <2>3. T # {}
      BY <2>2, SumEmpty
    <2>4. Picked(T) \in T /\ g[Picked(T)] \in Int
      BY <2>2, <2>3, PickedIsIn
    <2>5. SumOver(g, T \ {Picked(T)}) \in Int
      BY <1>1, <2>1, <2>2, <2>4
    <2> QED
      BY <2>2, <2>3, <2>4, <2>5, SumPicked
  <1>3. CASE Bad = {}
    BY <1>1, <1>3
  <1> QED
    BY <1>2, <1>3

\* Any element may be taken out first.
LEMMA SumRemove ==
    ASSUME NEW S, IsFiniteSet(S), NEW g, \A x \in S : g[x] \in Int, NEW e \in S
    PROVE  SumOver(g, S) = g[e] + SumOver(g, S \ {e})
  <1> DEFINE Fine(T) == \A x \in T : SumOver(g, T) = g[x] + SumOver(g, T \ {x})
  <1>0. \A T \in SUBSET S : IsFiniteSet(T) /\ SumOver(g, T) \in Int
    BY FS_Subset, SumIsInt
  <1>1. PICK Bad \in SUBSET (SUBSET S) : Bad = {T \in SUBSET S : ~Fine(T)}
    OBVIOUS
  <1>2. CASE Bad # {}
    <2>1. PICK T \in Bad : \A U \in SUBSET T : U # T => U \notin Bad
      BY <1>2, SmallestSubset
    <2>2. T \in SUBSET S /\ IsFiniteSet(T) /\ ~Fine(T)
      BY <1>0, <1>1, <2>1
    <2>3. PICK x \in T : SumOver(g, T) # g[x] + SumOver(g, T \ {x})
      BY <2>2
    <2>4. PICK p : p = Picked(T)
      OBVIOUS
    <2>5. p \in T /\ SumOver(g, T) = g[p] + SumOver(g, T \ {p})
      BY <2>2, <2>3, <2>4, PickedIsIn, SumPicked
    <2>6. x # p
      BY <2>3, <2>5
    <2>7. Fine(T \ {p}) /\ Fine(T \ {x})
      <3>1. T \ {p} \in SUBSET T /\ T \ {p} # T /\ T \ {x} \in SUBSET T /\ T \ {x} # T
        BY <2>3, <2>5
      <3>2. T \ {p} \notin Bad /\ T \ {x} \notin Bad
        BY <2>1, <3>1
      <3> QED
        BY <1>1, <2>2, <3>1, <3>2
    <2>8. /\ SumOver(g, T \ {p}) = g[x] + SumOver(g, (T \ {p}) \ {x})
          /\ SumOver(g, T \ {x}) = g[p] + SumOver(g, (T \ {x}) \ {p})
      BY <2>3, <2>5, <2>6, <2>7
    <2>9. (T \ {p}) \ {x} = (T \ {x}) \ {p}
      OBVIOUS
    <2>10. PICK rest \in Int : rest = SumOver(g, (T \ {x}) \ {p})
      BY <1>0, <2>2
    <2>11. g[x] \in Int /\ g[p] \in Int
      BY <2>2, <2>3, <2>5
    <2>12. SumOver(g, T) = g[p] + (g[x] + rest) /\ g[x] + SumOver(g, T \ {x}) = g[x] + (g[p] + rest)
      BY <2>5, <2>8, <2>9, <2>10
    <2> QED
      BY <2>3, <2>10, <2>11, <2>12
  <1>3. CASE Bad = {}
    <2>1. Fine(S)
      BY <1>1, <1>3
    <2> QED
      BY <2>1
  <1> QED
    BY <1>2, <1>3

\* Only the values on the set count.
LEMMA SumAgrees ==
    ASSUME NEW S, IsFiniteSet(S), NEW g, NEW h, \A x \in S : g[x] = h[x]
    PROVE  SumOver(g, S) = SumOver(h, S)
  <1>1. PICK Bad : Bad = {T \in SUBSET S : SumOver(g, T) # SumOver(h, T)}
    OBVIOUS
  <1>2. CASE Bad # {}
    <2>1. PICK T \in Bad : \A U \in SUBSET T : U # T => U \notin Bad
      BY <1>1, <1>2, SmallestSubset
    <2>2. T \in SUBSET S /\ IsFiniteSet(T) /\ SumOver(g, T) # SumOver(h, T)
      BY <1>1, <2>1, FS_Subset
    <2>3. T # {}
      BY <2>2, SumEmpty
    <2>4. Picked(T) \in T /\ g[Picked(T)] = h[Picked(T)]
      BY <2>2, <2>3, PickedIsIn
    <2>5. SumOver(g, T \ {Picked(T)}) = SumOver(h, T \ {Picked(T)})
      BY <1>1, <2>1, <2>2, <2>4
    <2> QED
      BY <2>2, <2>3, <2>4, <2>5, SumPicked
  <1>3. CASE Bad = {}
    BY <1>1, <1>3
  <1> QED
    BY <1>2, <1>3

LEMMA SumOfZeros ==
    ASSUME NEW S, IsFiniteSet(S), NEW g, \A x \in S : g[x] = 0
    PROVE  SumOver(g, S) = 0
  <1>1. PICK Bad : Bad = {T \in SUBSET S : SumOver(g, T) # 0}
    OBVIOUS
  <1>2. CASE Bad # {}
    <2>1. PICK T \in Bad : \A U \in SUBSET T : U # T => U \notin Bad
      BY <1>1, <1>2, SmallestSubset
    <2>2. T \in SUBSET S /\ IsFiniteSet(T) /\ SumOver(g, T) # 0
      BY <1>1, <2>1, FS_Subset
    <2>3. T # {}
      BY <2>2, SumEmpty
    <2>4. Picked(T) \in T /\ g[Picked(T)] = 0
      BY <2>2, <2>3, PickedIsIn
    <2>5. SumOver(g, T \ {Picked(T)}) = 0
      BY <1>1, <2>1, <2>2, <2>4
    <2> QED
      BY <2>2, <2>3, <2>4, <2>5, SumPicked
  <1>3. CASE Bad = {}
    BY <1>1, <1>3
  <1> QED
    BY <1>2, <1>3

\* Changing the value of one element changes the sum by as much.
LEMMA SumExcept ==
    ASSUME NEW S, IsFiniteSet(S), NEW e \in S, NEW g, NEW h, \A x \in S : g[x] \in Int,
           h[e] \in Int, \A x \in S : x # e => h[x] = g[x]
    PROVE  SumOver(h, S) = SumOver(g, S) - g[e] + h[e]
  <1>1. IsFiniteSet(S \ {e})
    BY FS_Subset
  <1>2. SumOver(h, S \ {e}) = SumOver(g, S \ {e})
    BY <1>1, SumAgrees
  <1>3. \A x \in S : h[x] \in Int
    OBVIOUS
  <1>4. SumOver(h, S) = h[e] + SumOver(h, S \ {e}) /\ SumOver(g, S) = g[e] + SumOver(g, S \ {e})
    BY <1>3, SumRemove
  <1>5. SumOver(g, S \ {e}) \in Int /\ g[e] \in Int
    BY <1>1, SumIsInt
  <1> QED
    BY <1>2, <1>4, <1>5

\* The elements that count for something are no more than their sum.
LEMMA SumBoundsSupport ==
    ASSUME NEW S, IsFiniteSet(S), NEW g, \A x \in S : g[x] \in Nat
    PROVE  SumOver(g, S) \in Nat /\ Cardinality({x \in S : g[x] > 0}) <= SumOver(g, S)
  <1> DEFINE Support(T) == {x \in T : g[x] > 0}
             Fine(T) == SumOver(g, T) \in Nat /\ Cardinality(Support(T)) <= SumOver(g, T)
  <1>1. PICK Bad \in SUBSET (SUBSET S) : Bad = {T \in SUBSET S : ~Fine(T)}
    OBVIOUS
  <1>2. CASE Bad # {}
    <2>1. PICK T \in Bad : \A U \in SUBSET T : U # T => U \notin Bad
      BY <1>2, SmallestSubset
    <2>2. T \in SUBSET S /\ IsFiniteSet(T) /\ ~Fine(T)
      BY <1>1, <2>1, FS_Subset
    <2>3. T # {}
      <3>1. CASE T = {}
        <4>1. Support(T) = {}
          BY <3>1
        <4> QED
          BY <2>2, <3>1, <4>1, SumEmpty, FS_EmptySet
      <3> QED
        BY <3>1
    <2>4. PICK p \in T : p = Picked(T)
      BY <2>3, PickedIsIn
    <2>5. PICK U : U = T \ {p}
      OBVIOUS
    <2>6. Fine(U)
      <3>1. U \in SUBSET T /\ U # T
        BY <2>4, <2>5
      <3>2. U \in SUBSET S /\ U \notin Bad
        BY <2>1, <2>2, <3>1
      <3> QED
        BY <1>1, <3>2
    <2>7. SumOver(g, T) = g[p] + SumOver(g, U) /\ g[p] \in Nat
      BY <2>2, <2>3, <2>4, <2>5, SumPicked
    <2>8. IsFiniteSet(Support(U)) /\ Cardinality(Support(U)) \in Nat
      BY <2>2, <2>5, FS_Subset, FS_CardinalityType
    <2>9. CASE g[p] = 0
      <3>1. Support(T) = Support(U)
        BY <2>5, <2>9
      <3>2. SumOver(g, T) = SumOver(g, U)
        BY <2>6, <2>7, <2>9
      <3> QED
        BY <2>2, <2>6, <3>1, <3>2
    <2>10. CASE g[p] > 0
      <3>1. Support(T) = Support(U) \cup {p} /\ p \notin Support(U)
        BY <2>5, <2>10
      <3>2. Cardinality(Support(T)) = Cardinality(Support(U)) + 1
        BY <2>8, <3>1, FS_AddElement
      <3>3. PICK n \in Nat : n = SumOver(g, U)
        BY <2>6
      <3>4. PICK c \in Nat : c = Cardinality(Support(U))
        BY <2>8
      <3>5. c <= n /\ Cardinality(Support(T)) = c + 1 /\ SumOver(g, T) = g[p] + n
        BY <2>6, <2>7, <3>2, <3>3, <3>4
      <3>6. g[p] + n \in Nat /\ c + 1 <= g[p] + n
        BY <2>7, <2>10, <3>5
      <3>7. Fine(T)
        BY <3>5, <3>6
      <3> QED
        BY <2>2, <3>7
    <2> QED
      BY <2>7, <2>9, <2>10
  <1>3. CASE Bad = {}
    <2>1. Fine(S)
      BY <1>1, <1>3
    <2> QED
      BY <2>1
  <1> QED
    BY <1>2, <1>3

\* k times x is within b of y.
Near(k, b, x, y) == -b <= k * x - y /\ k * x - y <= b

\* Two sums, the first times k, are as far apart as their elements may be: those
\* in Z agree, the others are within b.
LEMMA SumsWithin ==
    ASSUME NEW S, IsFiniteSet(S), NEW Z, NEW g, NEW e, NEW k \in Int, NEW b \in Nat,
           \A x \in S : g[x] \in Int /\ e[x] \in Int,
           \A x \in S : Near(k, b, g[x], e[x]),
           \A x \in S \cap Z : Near(k, 0, g[x], e[x])
    PROVE  /\ SumOver(g, S) \in Int /\ SumOver(e, S) \in Int /\ Cardinality(S \ Z) \in Nat
           /\ Near(k, b * Cardinality(S \ Z), SumOver(g, S), SumOver(e, S))
  <1> DEFINE Off(T) == k * SumOver(g, T) - SumOver(e, T)
             Fine(T) == -(b * Cardinality(T \ Z)) <= Off(T) /\ Off(T) <= b * Cardinality(T \ Z)
  <1>0. \A T \in SUBSET S : /\ IsFiniteSet(T) /\ IsFiniteSet(T \ Z) /\ Cardinality(T \ Z) \in Nat
                            /\ SumOver(g, T) \in Int /\ SumOver(e, T) \in Int
    <2> SUFFICES ASSUME NEW T \in SUBSET S
                 PROVE  /\ IsFiniteSet(T) /\ IsFiniteSet(T \ Z) /\ Cardinality(T \ Z) \in Nat
                        /\ SumOver(g, T) \in Int /\ SumOver(e, T) \in Int
      OBVIOUS
    <2>1. IsFiniteSet(T) /\ IsFiniteSet(T \ Z)
      BY FS_Subset
    <2>2. Cardinality(T \ Z) \in Nat
      BY <2>1, FS_CardinalityType
    <2>3. SumOver(g, T) \in Int /\ SumOver(e, T) \in Int
      BY <2>1, SumIsInt
    <2> QED
      BY <2>1, <2>2, <2>3
  <1>1. PICK Bad \in SUBSET (SUBSET S) : Bad = {T \in SUBSET S : ~Fine(T)}
    OBVIOUS
  <1>2. CASE Bad # {}
    <2>1. PICK T \in Bad : \A U \in SUBSET T : U # T => U \notin Bad
      BY <1>2, SmallestSubset
    <2>2. T \in SUBSET S /\ IsFiniteSet(T) /\ ~Fine(T)
      BY <1>0, <1>1, <2>1
    <2>3. T # {}
      <3> SUFFICES ASSUME T = {} PROVE FALSE
        OBVIOUS
      <3>1. T \ Z = {} /\ Cardinality(T \ Z) = 0
        BY FS_EmptySet
      <3>2. Off(T) = 0
        BY SumEmpty
      <3> QED
        BY <2>2, <3>1, <3>2
    <2>4. PICK p \in T : p = Picked(T)
      BY <2>3, PickedIsIn
    <2>5. PICK U \in SUBSET T : U = T \ {p}
      OBVIOUS
    <2>6. Fine(U) /\ U \in SUBSET S
      <3>1. U \in SUBSET S /\ U # T
        BY <2>2, <2>4, <2>5
      <3>2. U \notin Bad
        BY <2>1, <3>1
      <3> QED
        BY <1>1, <3>1, <3>2
    <2>7. SumOver(g, T) = g[p] + SumOver(g, U) /\ SumOver(e, T) = e[p] + SumOver(e, U)
      BY <2>2, <2>3, <2>4, <2>5, SumPicked
    <2>8. PICK gu \in Int, eu \in Int, gp \in Int, ep \in Int :
              gu = SumOver(g, U) /\ eu = SumOver(e, U) /\ gp = g[p] /\ ep = e[p]
      BY <1>0, <2>2, <2>4, <2>6
    <2>9. k * (gp + gu) = k * gp + k * gu /\ k * gp \in Int /\ k * gu \in Int
      OBVIOUS
    <2>10. Off(T) = (k * gp - ep) + Off(U) /\ k * gp - ep \in Int /\ Off(U) \in Int
      BY <2>7, <2>8, <2>9
    <2>11. PICK n \in Nat : n = Cardinality(U \ Z)
      BY <1>0, <2>6
    <2>12. b * (n + 1) = b * n + b /\ b * n \in Nat
      OBVIOUS
    <2>13. CASE p \in Z
      <3>1. T \ Z = U \ Z
        BY <2>5, <2>13
      <3>2. k * gp - ep = 0
        <4>1. p \in S \cap Z
          BY <2>2, <2>4, <2>13
        <4>2. -0 <= k * gp - ep /\ k * gp - ep <= 0
          BY <2>8, <4>1 DEF Near
        <4> QED
          BY <2>10, <4>2
      <3>3. Off(T) = Off(U)
        BY <2>10, <3>2
      <3> QED
        BY <2>2, <2>6, <3>1, <3>3
    <2>14. CASE p \notin Z
      <3>1. T \ Z = (U \ Z) \cup {p} /\ p \notin U \ Z /\ IsFiniteSet(U \ Z)
        BY <1>0, <2>4, <2>5, <2>6, <2>14
      <3>2. Cardinality(T \ Z) = n + 1
        BY <2>11, <3>1, FS_AddElement
      <3>3. -b <= k * gp - ep /\ k * gp - ep <= b
        BY <2>2, <2>4, <2>8 DEF Near
      <3>4. -(b * n) <= Off(U) /\ Off(U) <= b * n
        BY <2>6, <2>11
      <3>5. PICK ou \in Int, op \in Int, bn \in Nat : ou = Off(U) /\ op = k * gp - ep /\ bn = b * n
        BY <2>10, <2>12
      <3>6. Off(T) = op + ou /\ -b <= op /\ op <= b /\ -bn <= ou /\ ou <= bn /\ b * Cardinality(T \ Z) = bn + b
        BY <2>10, <2>12, <3>2, <3>3, <3>4, <3>5
      <3>7. -(bn + b) <= op + ou /\ op + ou <= bn + b
        BY <3>6
      <3> QED
        BY <2>2, <3>6, <3>7
    <2> QED
      BY <2>13, <2>14
  <1>3. CASE Bad = {}
    <2>1. S \in SUBSET S
      OBVIOUS
    <2>2. Fine(S)
      BY <1>1, <1>3, <2>1
    <2> QED
      BY <1>0, <2>1, <2>2 DEF Near
  <1> QED
    BY <1>2, <1>3

LEMMA SumUnion ==
    ASSUME NEW A, IsFiniteSet(A), NEW S, IsFiniteSet(S), A \cap S = {}, NEW g, \A x \in A \cup S : g[x] \in Int
    PROVE  SumOver(g, A \cup S) = SumOver(g, A) + SumOver(g, S)
  <1> DEFINE Fine(T) == SumOver(g, A \cup T) = SumOver(g, A) + SumOver(g, T)
  <1>0. SumOver(g, A) \in Int
    BY SumIsInt
  <1>1. PICK Bad \in SUBSET (SUBSET S) : Bad = {T \in SUBSET S : ~Fine(T)}
    OBVIOUS
  <1>2. CASE Bad # {}
    <2>1. PICK T \in Bad : \A U \in SUBSET T : U # T => U \notin Bad
      BY <1>2, SmallestSubset
    <2>2. T \in SUBSET S /\ IsFiniteSet(T) /\ IsFiniteSet(A \cup T) /\ ~Fine(T)
      BY <1>1, <2>1, FS_Subset, FS_Union
    <2>3. T # {}
      <3> SUFFICES ASSUME T = {} PROVE FALSE
        OBVIOUS
      <3>1. A \cup T = A /\ SumOver(g, T) = 0
        BY SumEmpty
      <3> QED
        BY <1>0, <2>2, <3>1
    <2>4. PICK p \in T : TRUE
      BY <2>3
    <2>5. PICK U : U = T \ {p}
      OBVIOUS
    <2>6. Fine(U)
      <3>1. U \in SUBSET T /\ U # T /\ U \in SUBSET S
        BY <2>2, <2>4, <2>5
      <3> QED
        BY <1>1, <2>1, <3>1
    <2>7. SumOver(g, T) = g[p] + SumOver(g, U)
      BY <2>2, <2>4, <2>5, SumRemove
    <2>8. SumOver(g, A \cup T) = g[p] + SumOver(g, A \cup U)
      <3>1. (A \cup T) \ {p} = A \cup U /\ p \in A \cup T /\ \A x \in A \cup T : g[x] \in Int
        BY <2>2, <2>4, <2>5
      <3> QED
        BY <2>2, <3>1, SumRemove
    <2>9. PICK u \in Int, a \in Int, e \in Int : u = SumOver(g, U) /\ a = SumOver(g, A) /\ e = g[p]
      <3>1. IsFiniteSet(U) /\ \A x \in U : g[x] \in Int
        BY <2>2, <2>5, FS_Subset
      <3> QED
        BY <1>0, <2>2, <2>4, <3>1, SumIsInt
    <2>10. SumOver(g, A \cup T) = e + (a + u) /\ SumOver(g, T) = e + u
      BY <2>6, <2>7, <2>8, <2>9
    <2> QED
      BY <2>2, <2>9, <2>10
  <1>3. CASE Bad = {}
    <2>1. Fine(S)
      BY <1>1, <1>3
    <2> QED
      BY <2>1
  <1> QED
    BY <1>2, <1>3

LEMMA SumPlus ==
    ASSUME NEW S, IsFiniteSet(S), NEW g, NEW d, NEW h,
           \A x \in S : g[x] \in Int /\ d[x] \in Int /\ h[x] = g[x] + d[x]
    PROVE  SumOver(h, S) = SumOver(g, S) + SumOver(d, S)
  <1> DEFINE Fine(T) == SumOver(h, T) = SumOver(g, T) + SumOver(d, T)
  <1>1. PICK Bad \in SUBSET (SUBSET S) : Bad = {T \in SUBSET S : ~Fine(T)}
    OBVIOUS
  <1>2. CASE Bad # {}
    <2>1. PICK T \in Bad : \A U \in SUBSET T : U # T => U \notin Bad
      BY <1>2, SmallestSubset
    <2>2. T \in SUBSET S /\ IsFiniteSet(T) /\ ~Fine(T)
      BY <1>1, <2>1, FS_Subset
    <2>3. T # {}
      <3> SUFFICES ASSUME T = {} PROVE FALSE
        OBVIOUS
      <3>1. SumOver(h, T) = 0 /\ SumOver(g, T) = 0 /\ SumOver(d, T) = 0
        BY SumEmpty
      <3> QED
        BY <2>2, <3>1
    <2>4. PICK p \in T : p = Picked(T)
      BY <2>3, PickedIsIn
    <2>5. PICK U : U = T \ {p}
      OBVIOUS
    <2>6. Fine(U) /\ U \in SUBSET S
      <3>1. U \in SUBSET T /\ U # T /\ U \in SUBSET S
        BY <2>2, <2>4, <2>5
      <3> QED
        BY <1>1, <2>1, <3>1
    <2>7. /\ SumOver(h, T) = h[p] + SumOver(h, U) /\ SumOver(g, T) = g[p] + SumOver(g, U)
          /\ SumOver(d, T) = d[p] + SumOver(d, U)
      BY <2>2, <2>3, <2>4, <2>5, SumPicked
    <2>8. PICK gu \in Int, du \in Int, gp \in Int, dp \in Int :
              gu = SumOver(g, U) /\ du = SumOver(d, U) /\ gp = g[p] /\ dp = d[p]
      <3>1. IsFiniteSet(U)
        BY <2>2, <2>5, FS_Subset
      <3>2. SumOver(g, U) \in Int /\ SumOver(d, U) \in Int
        BY <2>6, <3>1, SumIsInt
      <3> QED
        BY <2>2, <2>4, <3>2
    <2>9. h[p] = gp + dp /\ SumOver(h, U) = gu + du
      BY <2>2, <2>4, <2>6, <2>8
    <2>10. SumOver(h, T) = (gp + dp) + (gu + du) /\ SumOver(g, T) = gp + gu /\ SumOver(d, T) = dp + du
      BY <2>7, <2>8, <2>9
    <2> QED
      BY <2>2, <2>8, <2>10
  <1>3. CASE Bad = {}
    <2>1. Fine(S)
      BY <1>1, <1>3
    <2> QED
      BY <2>1
  <1> QED
    BY <1>2, <1>3

\* Grouped by a key, and added up by group.
Group(f, S, k) == {x \in S : f[x] = k}
GroupSums(g, f, S, K) == [k \in K |-> SumOver(g, Group(f, S, k))]

LEMMA SumByKey ==
    ASSUME NEW S, IsFiniteSet(S), NEW K, IsFiniteSet(K), NEW g, \A x \in S : g[x] \in Int,
           NEW f, \A x \in S : f[x] \in K
    PROVE  SumOver(GroupSums(g, f, S, K), K) = SumOver(g, S)
  <1> DEFINE Fine(T) == SumOver(GroupSums(g, f, T, K), K) = SumOver(g, T)
  <1>0. \A T \in SUBSET S : \A k \in K :
            /\ IsFiniteSet(T) /\ IsFiniteSet(Group(f, T, k)) /\ Group(f, T, k) \subseteq T
            /\ GroupSums(g, f, T, K)[k] = SumOver(g, Group(f, T, k)) /\ SumOver(g, Group(f, T, k)) \in Int
    <2> SUFFICES ASSUME NEW T \in SUBSET S, NEW k \in K
                 PROVE  /\ IsFiniteSet(T) /\ IsFiniteSet(Group(f, T, k)) /\ Group(f, T, k) \subseteq T
                        /\ GroupSums(g, f, T, K)[k] = SumOver(g, Group(f, T, k)) /\ SumOver(g, Group(f, T, k)) \in Int
      OBVIOUS
    <2>1. Group(f, T, k) \subseteq T
      BY DEF Group
    <2>2. IsFiniteSet(T) /\ IsFiniteSet(Group(f, T, k))
      BY <2>1, FS_Subset
    <2>3. SumOver(g, Group(f, T, k)) \in Int
      BY <2>1, <2>2, SumIsInt
    <2>4. GroupSums(g, f, T, K)[k] = SumOver(g, Group(f, T, k))
      BY DEF GroupSums
    <2> QED
      BY <2>1, <2>2, <2>3, <2>4
  <1>1. PICK Bad \in SUBSET (SUBSET S) : Bad = {T \in SUBSET S : ~Fine(T)}
    OBVIOUS
  <1>2. CASE Bad # {}
    <2>1. PICK T \in Bad : \A U \in SUBSET T : U # T => U \notin Bad
      BY <1>2, SmallestSubset
    <2>2. T \in SUBSET S /\ IsFiniteSet(T) /\ ~Fine(T)
      BY <1>1, <2>1, FS_Subset
    <2>3. T # {}
      <3> SUFFICES ASSUME T = {} PROVE FALSE
        OBVIOUS
      <3>1. \A k \in K : Group(f, T, k) = {}
        BY DEF Group
      <3>2. \A k \in K : GroupSums(g, f, T, K)[k] = 0
        <4>1. SumOver(g, {}) = 0
          BY SumEmpty
        <4> QED
          BY <1>0, <2>2, <3>1, <4>1
      <3>3. SumOver(GroupSums(g, f, T, K), K) = 0
        BY <3>2, SumOfZeros
      <3> QED
        BY <2>2, <3>3, SumEmpty
    <2>4. PICK p \in T : TRUE
      BY <2>3
    <2>5. PICK U : U = T \ {p}
      OBVIOUS
    <2>6. Fine(U) /\ U \in SUBSET S
      <3>1. U \in SUBSET T /\ U # T /\ U \in SUBSET S
        BY <2>2, <2>4, <2>5
      <3> QED
        BY <1>1, <2>1, <3>1
    <2>7. PICK e \in K : e = f[p]
      BY <2>2, <2>4
    <2>8. PICK before, after : before = GroupSums(g, f, U, K) /\ after = GroupSums(g, f, T, K)
      OBVIOUS
    <2>9. \A k \in K : k # e => after[k] = before[k]
      <3> SUFFICES ASSUME NEW k \in K, k # e PROVE after[k] = before[k]
        OBVIOUS
      <3>1. Group(f, T, k) = Group(f, U, k)
        BY <2>5, <2>7 DEF Group
      <3> QED
        BY <1>0, <2>2, <2>6, <2>8, <3>1
    <2>10. after[e] = g[p] + before[e] /\ before[e] \in Int /\ g[p] \in Int
      <3>1. p \in Group(f, T, e) /\ Group(f, T, e) \ {p} = Group(f, U, e)
        BY <2>4, <2>5, <2>7 DEF Group
      <3>2. IsFiniteSet(Group(f, T, e)) /\ \A x \in Group(f, T, e) : g[x] \in Int
        BY <1>0, <2>2
      <3>3. SumOver(g, Group(f, T, e)) = g[p] + SumOver(g, Group(f, U, e))
        BY <3>1, <3>2, SumRemove
      <3> QED
        BY <1>0, <2>2, <2>4, <2>6, <2>8, <3>3
    <2>11. SumOver(after, K) = SumOver(before, K) - before[e] + after[e]
      <3>1. \A k \in K : before[k] \in Int
        BY <1>0, <2>6, <2>8
      <3>2. after[e] \in Int
        BY <2>10
      <3> QED
        BY <2>9, <3>1, <3>2, SumExcept
    <2>12. SumOver(g, T) = g[p] + SumOver(g, U)
      BY <2>2, <2>4, <2>5, SumRemove
    <2>13. PICK u \in Int, b \in Int, a \in Int : u = SumOver(g, U) /\ b = before[e] /\ a = g[p]
      <3>1. IsFiniteSet(U)
        BY <2>2, <2>5, FS_Subset
      <3>2. SumOver(g, U) \in Int
        BY <2>6, <3>1, SumIsInt
      <3> QED
        BY <2>10, <3>2
    <2>14. SumOver(after, K) = u - b + (a + b) /\ SumOver(g, T) = a + u
      BY <2>6, <2>8, <2>10, <2>11, <2>12, <2>13
    <2> QED
      BY <2>2, <2>8, <2>13, <2>14
  <1>3. CASE Bad = {}
    <2>1. Fine(S)
      BY <1>1, <1>3
    <2> QED
      BY <2>1
  <1> QED
    BY <1>2, <1>3
==============================================================================
