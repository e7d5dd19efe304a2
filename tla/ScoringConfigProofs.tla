------------------------ MODULE ScoringConfigProofs ------------------------
(***************************************************************************)
(* What a flush pays and what the score card shows, for every set of       *)
(* activities, table of weights and dwells, batch and budget of edits,     *)
(* reloads and faults.                                                     *)
(*                                                                         *)
(* Most of it is a small theory of Total, the sum of a function over a     *)
(* finite set, which the library defines by a recursive function: that it  *)
(* exists and is unique is shown by looking at a smallest set where it     *)
(* would fail, and so is every law of sums used below.                     *)
(***************************************************************************)
EXTENDS ScoringConfig, FiniteSetTheorems, WellFoundedInduction, TLAPS

-----------------------------------------------------------------------------
(***************************************************************************)
(* Sums over finite sets                                                   *)
(***************************************************************************)

\* Every set of subsets of a finite set has a smallest one: what fails for a subset fails
\* for one of whose proper subsets it holds.
LEMMA SmallestSubset ==
  ASSUME NEW U, IsFiniteSet(U), NEW T \in SUBSET (SUBSET U), T # {}
  PROVE  \E s \in T : \A r \in SUBSET s : r = s \/ r \notin T
<1>1. IsWellFoundedOn(StrictSubsetOrdering(U), FiniteSubsetsOf(U)) /\ FiniteSubsetsOf(U) = SUBSET U
  BY FS_StrictSubsetOrderingWellFounded, FS_FiniteSubsetsOfFinite, Zenon
<1>2. IsWellFoundedOn(StrictSubsetOrdering(U), SUBSET U)
  BY <1>1
<1>3. PICK s \in T : \A r \in T : ~(<<r, s>> \in StrictSubsetOrdering(U))
  BY <1>2, WFMin, Zenon
<1>4. ASSUME NEW r \in SUBSET s, r # s, r \in T PROVE FALSE
  <2>1. <<r, s>> \in StrictSubsetOrdering(U)
    BY <1>4 DEF StrictSubsetOrdering
  <2> QED BY <1>3, <1>4, <2>1
<1> QED BY <1>4

\* The element a fold takes next, and the equation of the function Total is defined by.
Pick(s) == CHOOSE x \in s : TRUE
SumsUp(h, f, U) ==
  h = [s \in SUBSET U |-> IF s = {} THEN 0 ELSE f[Pick(s)] + h[s \ {Pick(s)}]]

\* What Total stands for.
LEMMA TotalChosen ==
  ASSUME NEW f, NEW U
  PROVE  Total(f, U) = (CHOOSE h : SumsUp(h, f, U))[U]
BY DEF Total, FoldFunctionOnSet, MapThenFoldSet, SumsUp, Pick

\* An element taken from a set that is not empty.
LEMMA PickIn == ASSUME NEW s, s # {} PROVE Pick(s) \in s
BY DEF Pick

\* Two functions that obey the equation agree on the sets they have in common.
LEMMA SumsAgree ==
  ASSUME NEW U, NEW W, IsFiniteSet(U), NEW f, NEW g, NEW h, SumsUp(g, f, U), SumsUp(h, f, W),
         NEW s \in SUBSET (U \cap W)
  PROVE  g[s] = h[s]
<1> DEFINE T == {r \in SUBSET (U \cap W) : g[r] # h[r]}
<1>1. SUFFICES ASSUME T # {} PROVE FALSE
  OBVIOUS
<1>2. T \in SUBSET (SUBSET U)
  OBVIOUS
<1>3. \E r \in T : \A q \in SUBSET r : q = r \/ q \notin T
  <2> HIDE DEF T
  <2> QED BY <1>1, <1>2, SmallestSubset, Zenon
<1>4. PICK r \in T : \A q \in SUBSET r : q = r \/ q \notin T
  BY <1>3, Zenon
<1>5. /\ r \in SUBSET U /\ r \in SUBSET W /\ g[r] # h[r]
      /\ g[r] = IF r = {} THEN 0 ELSE f[Pick(r)] + g[r \ {Pick(r)}]
      /\ h[r] = IF r = {} THEN 0 ELSE f[Pick(r)] + h[r \ {Pick(r)}]
  BY DEF SumsUp
<1>6. r # {}
  BY <1>5
<1>7. /\ r \ {Pick(r)} \in SUBSET r /\ r \ {Pick(r)} # r
      /\ r \ {Pick(r)} \in SUBSET (U \cap W)
  BY <1>5, <1>6, PickIn
<1>8. g[r \ {Pick(r)}] = h[r \ {Pick(r)}]
  BY <1>4, <1>7
<1> QED BY <1>5, <1>6, <1>8

\* Over a finite set there is such a function.
LEMMA SumsExist ==
  ASSUME NEW U, IsFiniteSet(U), NEW f
  PROVE  \E h : SumsUp(h, f, U)
<1> DEFINE T == {r \in SUBSET U : ~ \E h : SumsUp(h, f, r)}
<1>1. SUFFICES ASSUME T # {} PROVE FALSE
  OBVIOUS
<1>2. PICK s \in T : \A q \in SUBSET s : q = s \/ q \notin T
  <2>1. T \in SUBSET (SUBSET U)
    OBVIOUS
  <2> HIDE DEF T
  <2> QED BY <1>1, <2>1, SmallestSubset, Zenon
<1> DEFINE of(r) == CHOOSE h : SumsUp(h, f, r)
           value(r) == IF r = {} THEN 0 ELSE f[Pick(r)] + of(r \ {Pick(r)})[r \ {Pick(r)}]
           h == [r \in SUBSET s |-> value(r)]
<1>3. \A r \in SUBSET s : r # s => SumsUp(of(r), f, r) /\ IsFiniteSet(r)
  BY <1>2, FS_Subset
<1> HIDE DEF of
<1>4. ASSUME NEW r \in SUBSET s, r # {}
      PROVE  h[r \ {Pick(r)}] = of(r \ {Pick(r)})[r \ {Pick(r)}]
  <2> DEFINE q == r \ {Pick(r)}
  <2>1. q \in SUBSET s /\ q # s
    BY <1>4, PickIn
  <2>2. SumsUp(of(q), f, q) /\ q \in SUBSET q /\ IsFiniteSet(q)
    BY <1>3, <2>1
  <2>3. of(q)[q] = IF q = {} THEN 0 ELSE f[Pick(q)] + of(q)[q \ {Pick(q)}]
    BY <2>2 DEF SumsUp
  <2>4. ASSUME q # {} PROVE of(q)[q \ {Pick(q)}] = of(q \ {Pick(q)})[q \ {Pick(q)}]
    <3>1. q \ {Pick(q)} \in SUBSET s /\ q \ {Pick(q)} # s
      BY <2>1
    <3>2. SumsUp(of(q \ {Pick(q)}), f, q \ {Pick(q)})
      BY <1>3, <3>1
    <3>3. q \ {Pick(q)} \in SUBSET (q \cap (q \ {Pick(q)}))
      OBVIOUS
    <3> HIDE DEF q
    <3> QED BY <2>2, <3>2, <3>3, SumsAgree
  <2>5. h[q] = value(q)
    BY <2>1
  <2> QED BY <2>3, <2>4, <2>5
<1>5. SumsUp(h, f, s)
  BY <1>4 DEF SumsUp
<1> QED BY <1>5

\* The equation itself: nothing sums up to 0, and one element can be taken out.
LEMMA TotalUnfold ==
  ASSUME NEW U, IsFiniteSet(U), NEW f
  PROVE  Total(f, U) = IF U = {} THEN 0 ELSE f[Pick(U)] + Total(f, U \ {Pick(U)})
<1> DEFINE of(r) == CHOOSE h : SumsUp(h, f, r)
           q == U \ {Pick(U)}
<1>1. IsFiniteSet(q)
  BY FS_Subset
<1>2. SumsUp(of(U), f, U) /\ SumsUp(of(q), f, q)
  BY <1>1, SumsExist
<1>3. Total(f, U) = of(U)[U] /\ Total(f, q) = of(q)[q]
  BY TotalChosen
<1> HIDE DEF of
<1>4. of(U)[U] = IF U = {} THEN 0 ELSE f[Pick(U)] + of(U)[q]
  BY <1>2 DEF SumsUp
<1>5. of(U)[q] = of(q)[q]
  <2>1. q \in SUBSET (U \cap q)
    OBVIOUS
  <2> HIDE DEF q
  <2> QED BY <1>2, <2>1, SumsAgree
<1> QED BY <1>3, <1>4, <1>5

\* A sum of natural numbers is one.
LEMMA TotalType ==
  ASSUME NEW U, IsFiniteSet(U), NEW f, \A x \in U : f[x] \in Nat
  PROVE  Total(f, U) \in Nat
<1> DEFINE T == {s \in SUBSET U : Total(f, s) \notin Nat}
<1>1. SUFFICES ASSUME T # {} PROVE FALSE
  OBVIOUS
<1>2. PICK s \in T : \A r \in SUBSET s : r = s \/ r \notin T
  <2>1. T \in SUBSET (SUBSET U)
    OBVIOUS
  <2> HIDE DEF T
  <2> QED BY <1>1, <2>1, SmallestSubset, Zenon
<1>3. s \in SUBSET U /\ Total(f, s) \notin Nat /\ IsFiniteSet(s)
  BY FS_Subset
<1>4. Total(f, s) = IF s = {} THEN 0 ELSE f[Pick(s)] + Total(f, s \ {Pick(s)})
  BY <1>3, TotalUnfold
<1>5. s # {}
  BY <1>3, <1>4
<1>6. s \ {Pick(s)} \in SUBSET s /\ s \ {Pick(s)} # s /\ Pick(s) \in U
  BY <1>3, <1>5, PickIn
<1>7. Total(f, s \ {Pick(s)}) \in Nat
  BY <1>2, <1>3, <1>6
<1> QED BY <1>3, <1>4, <1>5, <1>6, <1>7

\* Whichever element is taken out first, the sum is the same.
LEMMA TotalTake ==
  ASSUME NEW U, IsFiniteSet(U), NEW f, \A x \in U : f[x] \in Nat, NEW y \in U
  PROVE  Total(f, U) = f[y] + Total(f, U \ {y})
<1> DEFINE T == {s \in SUBSET U : \E z \in s : Total(f, s) # f[z] + Total(f, s \ {z})}
<1>1. SUFFICES ASSUME T # {} PROVE FALSE
  OBVIOUS
<1>2. PICK s \in T : \A r \in SUBSET s : r = s \/ r \notin T
  <2>1. T \in SUBSET (SUBSET U)
    OBVIOUS
  <2> HIDE DEF T
  <2> QED BY <1>1, <2>1, SmallestSubset, Zenon
<1>3. PICK z \in s : Total(f, s) # f[z] + Total(f, s \ {z})
  OBVIOUS
<1>4. s \in SUBSET U /\ IsFiniteSet(s) /\ s # {}
  BY FS_Subset
<1> DEFINE x == Pick(s)
<1>5. Total(f, s) = f[x] + Total(f, s \ {x})
  BY <1>4, TotalUnfold
<1>6. x \in s /\ x # z
  BY <1>3, <1>4, <1>5, PickIn
<1>7. \A r \in SUBSET s : r # s => r \in SUBSET U /\ \A w \in r : Total(f, r) = f[w] + Total(f, r \ {w})
  BY <1>2, <1>4
<1> HIDE DEF x, T
<1>8. Total(f, s \ {x}) = f[z] + Total(f, (s \ {x}) \ {z})
  <2>1. s \ {x} \in SUBSET s /\ s \ {x} # s /\ z \in s \ {x}
    BY <1>3, <1>6
  <2> QED BY <1>7, <2>1
<1>9. Total(f, s \ {z}) = f[x] + Total(f, (s \ {z}) \ {x})
  <2>1. s \ {z} \in SUBSET s /\ s \ {z} # s /\ x \in s \ {z}
    BY <1>3, <1>6
  <2> QED BY <1>7, <2>1
<1>10. (s \ {x}) \ {z} = (s \ {z}) \ {x}
  OBVIOUS
<1>11. f[x] \in Nat /\ f[z] \in Nat /\ Total(f, (s \ {z}) \ {x}) \in Nat
  <2>1. IsFiniteSet((s \ {z}) \ {x})
    BY <1>4, FS_Subset
  <2> QED BY <1>3, <1>4, <1>6, <2>1, TotalType
<1> QED BY <1>3, <1>5, <1>8, <1>9, <1>10, <1>11

\* The empty sum, and the sums of one and of two elements.
LEMMA TotalSmall ==
  /\ \A f : Total(f, {}) = 0
  /\ \A f, x : f[x] \in Nat => Total(f, {x}) = f[x]
  /\ \A f, x, y : x # y /\ f[x] \in Nat /\ f[y] \in Nat => Total(f, {x, y}) = f[x] + f[y]
<1>1. ASSUME NEW f PROVE Total(f, {}) = 0
  BY TotalUnfold, FS_EmptySet
<1>2. ASSUME NEW f, NEW x, f[x] \in Nat PROVE Total(f, {x}) = f[x]
  <2>1. IsFiniteSet({x}) /\ {x} \ {x} = {}
    BY FS_Singleton
  <2>2. Total(f, {x}) = f[x] + Total(f, {x} \ {x})
    BY <1>2, <2>1, TotalTake
  <2> QED BY <1>1, <1>2, <2>1, <2>2
<1>3. ASSUME NEW f, NEW x, NEW y, x # y, f[x] \in Nat, f[y] \in Nat
      PROVE  Total(f, {x, y}) = f[x] + f[y]
  <2>1. IsFiniteSet({x, y}) /\ {x, y} \ {x} = {y}
    <3>1. IsFiniteSet({x} \cup {y})
      BY FS_Singleton, FS_AddElement
    <3> QED BY <1>3, <3>1
  <2>2. Total(f, {x, y}) = f[x] + Total(f, {x, y} \ {x})
    BY <1>3, <2>1, TotalTake
  <2> QED BY <1>2, <1>3, <2>1, <2>2
<1> QED BY <1>1, <1>2, <1>3

\* Sums grow with what is summed up; functions that agree have the same sum.
LEMMA TotalMonotone ==
  ASSUME NEW U, IsFiniteSet(U), NEW f, NEW g, \A x \in U : f[x] \in Nat /\ g[x] \in Nat,
         \A x \in U : f[x] <= g[x]
  PROVE  Total(f, U) <= Total(g, U)
<1> DEFINE T == {s \in SUBSET U : ~(Total(f, s) <= Total(g, s))}
<1>1. SUFFICES ASSUME T # {} PROVE FALSE
  OBVIOUS
<1>2. PICK s \in T : \A r \in SUBSET s : r = s \/ r \notin T
  <2>1. T \in SUBSET (SUBSET U)
    OBVIOUS
  <2> HIDE DEF T
  <2> QED BY <1>1, <2>1, SmallestSubset, Zenon
<1>3. s \in SUBSET U /\ ~(Total(f, s) <= Total(g, s)) /\ IsFiniteSet(s)
  BY FS_Subset
<1>4. /\ Total(f, s) = IF s = {} THEN 0 ELSE f[Pick(s)] + Total(f, s \ {Pick(s)})
      /\ Total(g, s) = IF s = {} THEN 0 ELSE g[Pick(s)] + Total(g, s \ {Pick(s)})
  BY <1>3, TotalUnfold
<1>5. s # {}
  BY <1>3, <1>4
<1>6. /\ s \ {Pick(s)} \in SUBSET s /\ s \ {Pick(s)} # s /\ Pick(s) \in U
      /\ IsFiniteSet(s \ {Pick(s)})
  BY <1>3, <1>5, PickIn, FS_Subset
<1>7. Total(f, s \ {Pick(s)}) <= Total(g, s \ {Pick(s)})
  BY <1>2, <1>3, <1>6
<1>8. Total(f, s \ {Pick(s)}) \in Nat /\ Total(g, s \ {Pick(s)}) \in Nat
  BY <1>3, <1>6, TotalType
<1> QED BY <1>3, <1>4, <1>5, <1>6, <1>7, <1>8

\* Functions that agree on a set have the same sum over it.
LEMMA TotalSame ==
  ASSUME NEW U, IsFiniteSet(U), NEW f, NEW g, \A x \in U : f[x] \in Nat /\ g[x] = f[x]
  PROVE  Total(f, U) = Total(g, U)
<1>1. Total(f, U) <= Total(g, U) /\ Total(g, U) <= Total(f, U)
  BY TotalMonotone
<1>2. Total(f, U) \in Nat /\ Total(g, U) \in Nat
  BY TotalType
<1> QED BY <1>1, <1>2

\* The sum of a multiple and of two functions together.
LEMMA TotalLinear ==
  ASSUME NEW U, IsFiniteSet(U), NEW f, NEW g, NEW h, NEW k \in Nat,
         \A x \in U : f[x] \in Nat /\ g[x] \in Nat /\ h[x] = k * f[x] + g[x]
  PROVE  Total(h, U) = k * Total(f, U) + Total(g, U)
<1> DEFINE T == {s \in SUBSET U : Total(h, s) # k * Total(f, s) + Total(g, s)}
<1>1. SUFFICES ASSUME T # {} PROVE FALSE
  OBVIOUS
<1>2. PICK s \in T : \A r \in SUBSET s : r = s \/ r \notin T
  <2>1. T \in SUBSET (SUBSET U)
    OBVIOUS
  <2> HIDE DEF T
  <2> QED BY <1>1, <2>1, SmallestSubset, Zenon
<1>3. s \in SUBSET U /\ Total(h, s) # k * Total(f, s) + Total(g, s) /\ IsFiniteSet(s)
  BY FS_Subset
<1> DEFINE x == Pick(s)
           r == s \ {x}
<1>4. /\ Total(f, s) = IF s = {} THEN 0 ELSE f[x] + Total(f, r)
      /\ Total(g, s) = IF s = {} THEN 0 ELSE g[x] + Total(g, r)
      /\ Total(h, s) = IF s = {} THEN 0 ELSE h[x] + Total(h, r)
  BY <1>3, TotalUnfold
<1>5. s # {}
  BY <1>3, <1>4
<1>6. r \in SUBSET s /\ r # s /\ x \in U /\ IsFiniteSet(r)
  BY <1>3, <1>5, PickIn, FS_Subset
<1>7. Total(h, r) = k * Total(f, r) + Total(g, r)
  BY <1>2, <1>3, <1>6
<1>8. Total(f, r) \in Nat /\ Total(g, r) \in Nat /\ f[x] \in Nat /\ g[x] \in Nat
      /\ h[x] = k * f[x] + g[x]
  BY <1>3, <1>6, TotalType
<1> HIDE DEF x, r
<1>9. k * (f[x] + Total(f, r)) = k * f[x] + k * Total(f, r) /\ k * f[x] \in Nat /\ k * Total(f, r) \in Nat
  BY <1>8
<1> QED BY <1>3, <1>4, <1>5, <1>7, <1>8, <1>9

\* A subset sums up to less by what the others have: to the same if they have nothing.
LEMMA TotalSubset ==
  ASSUME NEW U, IsFiniteSet(U), NEW V \in SUBSET U, NEW f, \A x \in U : f[x] \in Nat
  PROVE  /\ Total(f, V) <= Total(f, U)
         /\ (\A x \in U \ V : f[x] = 0) => Total(f, V) = Total(f, U)
<1> DEFINE P(s) == /\ Total(f, V) <= Total(f, V \cup s)
                   /\ (\A x \in s : f[x] = 0) => Total(f, V) = Total(f, V \cup s)
           T == {s \in SUBSET (U \ V) : ~P(s)}
<1>0. V \cup (U \ V) = U /\ U \ V \in SUBSET (U \ V) /\ IsFiniteSet(U \ V)
  BY FS_Subset
<1>1. SUFFICES ASSUME T # {} PROVE FALSE
  <2>1. P(U \ V) => /\ Total(f, V) <= Total(f, U)
                    /\ (\A x \in U \ V : f[x] = 0) => Total(f, V) = Total(f, U)
    BY ONLY <1>0
  <2>2. T = {} => P(U \ V)
    BY ONLY <1>0
  <2> HIDE DEF P, T
  <2> QED BY <2>1, <2>2
<1>2. PICK s \in T : \A r \in SUBSET s : r = s \/ r \notin T
  <2>1. T \in SUBSET (SUBSET (U \ V))
    OBVIOUS
  <2> HIDE DEF T
  <2> QED BY <1>0, <1>1, <2>1, SmallestSubset, Zenon
<1>3. s \in SUBSET (U \ V) /\ ~P(s)
  OBVIOUS
<1>4. V \cup s \in SUBSET U /\ IsFiniteSet(V \cup s) /\ IsFiniteSet(V) /\ Total(f, V) \in Nat
  <2>1. V \cup s \in SUBSET U
    BY <1>3
  <2> QED BY <2>1, FS_Subset, TotalType
<1>5. s # {}
  <2>1. s = {} => V \cup s = V
    OBVIOUS
  <2> QED BY <1>3, <1>4, <2>1
<1>6. PICK x \in s : TRUE
  BY <1>5
<1>7. /\ s \ {x} \in SUBSET s /\ s \ {x} # s /\ s \ {x} \in SUBSET (U \ V)
      /\ (V \cup s) \ {x} = V \cup (s \ {x}) /\ x \in U /\ f[x] \in Nat
      /\ V \cup (s \ {x}) \in SUBSET U
  BY <1>3, <1>6
<1>8. P(s \ {x})
  BY <1>2, <1>7
<1>9. Total(f, V \cup s) = f[x] + Total(f, V \cup (s \ {x}))
  <2>1. x \in V \cup s /\ \A y \in V \cup s : f[y] \in Nat
    BY <1>4
  <2> QED BY <1>4, <1>7, <2>1, TotalTake
<1>10. Total(f, V \cup (s \ {x})) \in Nat
  BY <1>7, FS_Subset, TotalType
<1> QED BY <1>3, <1>4, <1>6, <1>7, <1>8, <1>9, <1>10

\* No element is larger than the sum.
LEMMA TotalMember ==
  ASSUME NEW U, IsFiniteSet(U), NEW f, \A x \in U : f[x] \in Nat, NEW y \in U
  PROVE  f[y] <= Total(f, U)
<1>1. Total(f, {y}) = f[y]
  BY TotalSmall
<1> QED BY <1>1, TotalSubset

-----------------------------------------------------------------------------
(***************************************************************************)
(* The share of an activity                                                *)
(***************************************************************************)

\* A multiple of a divisor of the interval is divided without a remainder.
LEMMA ShareExact ==
  ASSUME NEW n \in Nat \ {0}, NEW i \in Nat, i % n = 0, NEW b \in Nat
  PROVE  /\ (i * b) \div n \in Nat
         /\ ((i * b) \div n) * n = i * b
<1> DEFINE q == i \div n
<1>1. i = n * q + (i % n) /\ q \in Nat
  OBVIOUS
<1> HIDE DEF q
<1>2. i = n * q
  BY <1>1
<1>3. i * b = n * (q * b) /\ q * b \in Nat
  BY <1>1, <1>2
<1> DEFINE k == q * b
<1> HIDE DEF k
<1>4. k \in Nat /\ i * b = n * k
  BY <1>3 DEF k
<1>5. (n * k) \div n = k
  BY <1>4
<1> QED BY <1>4, <1>5

\* The columns of the row are finitely many.
LEMMA ColumnsFinite == IsFiniteSet(Columns) /\ Axes \subseteq Columns
<1>1. IsFiniteSet({"coding"})
  BY FS_Singleton
<1>2. IsFiniteSet({"coding", "collaborating"})
  <2>1. {"coding", "collaborating"} = {"coding"} \cup {"collaborating"}
    OBVIOUS
  <2> QED BY <1>1, <2>1, FS_AddElement
<1>3. IsFiniteSet({"coding", "collaborating", "mentoring"})
  <2>1. {"coding", "collaborating", "mentoring"} = {"coding", "collaborating"} \cup {"mentoring"}
    OBVIOUS
  <2> QED BY <1>2, <2>1, FS_AddElement
<1>4. IsFiniteSet(Axes)
  <2>1. Axes = ({"coding", "collaborating", "mentoring"} \cup {"presenting"}) \cup {"networking"}
    BY DEF Axes
  <2> QED BY <1>3, <2>1, FS_AddElement
<1>5. Columns = (Axes \cup {"helping"}) \cup {"idle"}
  BY DEF Axes, Columns
<1> QED BY <1>4, <1>5, FS_AddElement

\* What the columns get together is what the activities have together, however these share
\* columns.
LEMMA TotalByColumn ==
  ASSUME NEW U, IsFiniteSet(U), NEW f, \A x \in U : f[x] \in Nat /\ Column(x) \in Columns
  PROVE  Total([c \in Columns |-> Total(f, {x \in U : Column(x) = c})], Columns) = Total(f, U)
<1> DEFINE part(s, c) == {x \in s : Column(x) = c}
           parts(s) == [c \in Columns |-> Total(f, part(s, c))]
           T == {s \in SUBSET U : Total(parts(s), Columns) # Total(f, s)}
<1>1. SUFFICES ASSUME T # {} PROVE FALSE
  OBVIOUS
<1>2. PICK s \in T : \A r \in SUBSET s : r = s \/ r \notin T
  <2>1. T \in SUBSET (SUBSET U)
    OBVIOUS
  <2> HIDE DEF T
  <2> QED BY <1>1, <2>1, SmallestSubset, Zenon
<1>3. s \in SUBSET U /\ Total(parts(s), Columns) # Total(f, s) /\ IsFiniteSet(s)
  BY FS_Subset
<1>4. \A r \in SUBSET s, c \in Columns : IsFiniteSet(part(r, c)) /\ parts(r)[c] = Total(f, part(r, c))
                                         /\ parts(r)[c] \in Nat
  <2> SUFFICES ASSUME NEW r \in SUBSET s, NEW c \in Columns
               PROVE  IsFiniteSet(part(r, c)) /\ Total(f, part(r, c)) \in Nat
    OBVIOUS
  <2>1. part(r, c) \in SUBSET U
    BY <1>3
  <2> HIDE DEF part
  <2>2. IsFiniteSet(part(r, c))
    BY <2>1, FS_Subset
  <2> QED BY <2>1, <2>2, TotalType
<1> HIDE DEF T, parts
<1>5. CASE s = {}
  <2>1. \A c \in Columns : parts(s)[c] = 0
    <3>1. \A c : part(s, c) = {}
      BY <1>5
    <3>2. s \in SUBSET s
      OBVIOUS
    <3> HIDE DEF part
    <3>3. \A c \in Columns : parts(s)[c] = Total(f, part(s, c))
      BY <1>4, <3>2
    <3> QED BY <3>1, <3>3, TotalSmall
  <2>2. Total(parts(s), {}) = Total(parts(s), Columns)
    BY <1>4, <2>1, ColumnsFinite, TotalSubset
  <2> QED BY <1>3, <1>5, <2>2, TotalSmall
<1>6. CASE s # {}
  <2>1. PICK x \in s : TRUE
    BY <1>6
  <2> DEFINE r == s \ {x}
             d == Column(x)
  <2>2. r \in SUBSET s /\ r # s /\ d \in Columns /\ IsFiniteSet(r) /\ f[x] \in Nat
    BY <1>3, <2>1, FS_Subset
  <2>3. Total(parts(r), Columns) = Total(f, r)
    BY <1>2, <1>3, <2>2 DEF T
  <2>4. parts(s)[d] = f[x] + parts(r)[d]
    <3>1. x \in part(s, d) /\ part(s, d) \ {x} = part(r, d) /\ part(s, d) \in SUBSET U
      BY <1>3
    <3> HIDE DEF part
    <3>2. Total(f, part(s, d)) = f[x] + Total(f, part(s, d) \ {x})
      BY <1>4, <2>2, <3>1, TotalTake
    <3> QED BY <1>4, <2>2, <3>1, <3>2
  <2>5. \A c \in Columns \ {d} : parts(s)[c] = parts(r)[c]
    <3>1. \A c \in Columns \ {d} : part(s, c) = part(r, c)
      OBVIOUS
    <3> HIDE DEF part
    <3> QED BY <1>4, <2>2, <3>1
  <2> HIDE DEF r, d
  <2>6. IsFiniteSet(Columns \ {d}) /\ IsFiniteSet(Columns)
    BY ColumnsFinite, FS_Subset
  <2>7. /\ Total(parts(s), Columns) = parts(s)[d] + Total(parts(s), Columns \ {d})
        /\ Total(parts(r), Columns) = parts(r)[d] + Total(parts(r), Columns \ {d})
    BY <1>4, <2>2, <2>6, TotalTake
  <2>8. Total(parts(s), Columns \ {d}) = Total(parts(r), Columns \ {d})
    BY <1>4, <2>2, <2>5, <2>6, TotalSame
  <2>9. Total(f, s) = f[x] + Total(f, r)
    BY <1>3, <2>1, TotalTake DEF r
  <2>10. parts(r)[d] \in Nat /\ Total(parts(r), Columns \ {d}) \in Nat
    BY <1>4, <2>2, <2>6, TotalType
  <2> HIDE DEF part
  <2>11. Total(parts(s), Columns) = f[x] + Total(parts(r), Columns)
    BY ONLY <2>2, <2>4, <2>7, <2>8, <2>10
  <2> QED BY <1>3, <2>3, <2>9, <2>11
<1> QED BY <1>5, <1>6

\* The sum of a multiple.
LEMMA TotalScaled ==
  ASSUME NEW U, IsFiniteSet(U), NEW f, NEW h, NEW k \in Nat,
         \A x \in U : f[x] \in Nat /\ h[x] = k * f[x]
  PROVE  Total(h, U) = k * Total(f, U)
<1> DEFINE zero == [x \in U |-> 0]
<1>1. \A x \in U : zero[x] = 0 /\ h[x] = k * f[x] + zero[x]
  OBVIOUS
<1> HIDE DEF zero
<1>2. Total(h, U) = k * Total(f, U) + Total(zero, U)
  BY <1>1, TotalLinear
<1>3. Total(zero, U) = Total(zero, {})
  BY <1>1, TotalSubset
<1>4. Total(f, U) \in Nat
  BY TotalType
<1> QED BY <1>2, <1>3, <1>4, TotalSmall

\* Comparing two numbers of seconds is comparing their multiples.
LEMMA Multiples ==
  ASSUME NEW n \in Nat \ {0}, NEW x \in Nat, NEW y \in Nat
  PROVE  (x < y <=> x * n < y * n) /\ (x <= y <=> x * n <= y * n) /\ x * n \in Nat
OBVIOUS

\* The batch of a participant's turn and the tables its seconds are held against.
Batches == {b \in [Activities -> 0..MaxBatch] : Total(b, Activities) \in 1..MaxBatch}

\* The seconds that pass the dwell are exact shares of the interval, and together at most
\* the interval.
LEMMA AppliedShares ==
  ASSUME NEW batch \in Batches, NEW cfg \in Tables, NEW applied,
         applied = ApplyMinDwell(Minutes(batch), cfg)
  PROVE  /\ DOMAIN applied = {a \in Activities : batch[a] > 0 /\ cfg[a] # None}
         /\ IsFiniteSet(DOMAIN applied)
         /\ \A a \in DOMAIN applied :
              /\ applied[a] \in Nat /\ cfg[a].dwell \in Nat
              /\ applied[a] * Total(batch, Activities)
                   = IF Interval * batch[a] < cfg[a].dwell * Total(batch, Activities)
                     THEN 0 ELSE Interval * batch[a]
         /\ Total(applied, DOMAIN applied) <= Interval
<1> DEFINE n == Total(batch, Activities)
           D == DOMAIN applied
<1>1. /\ batch \in [Activities -> 0..MaxBatch] /\ n \in 1..MaxBatch /\ IsFiniteSet(Activities)
      /\ n \in Nat \ {0} /\ Interval \in Nat /\ Interval % n = 0
      /\ \A a \in Activities : batch[a] \in Nat
  BY ConstantsAssumption DEF Batches
<1>2. DOMAIN applied = {a \in Activities : batch[a] > 0 /\ cfg[a] # None}
  BY DEF ApplyMinDwell, Minutes
<1>3. IsFiniteSet(D)
  BY <1>1, <1>2, FS_Subset
<1> HIDE DEF n
<1>4. ASSUME NEW a \in D
      PROVE  /\ applied[a] \in Nat /\ cfg[a].dwell \in Nat
             /\ applied[a] * n = IF Interval * batch[a] < cfg[a].dwell * n THEN 0 ELSE Interval * batch[a]
  <2> DEFINE m == (Interval * batch[a]) \div n
  <2>1. a \in Activities /\ cfg[a] # None /\ batch[a] > 0
    BY <1>2
  <2>2. cfg[a].dwell \in Nat
    <3>1. cfg[a] \in Settings
      BY <2>1 DEF Tables
    <3> QED BY <3>1, ConstantsAssumption
  <2>3. m \in Nat /\ m * n = Interval * batch[a]
    <3>1. batch[a] \in Nat
      BY <1>1, <2>1
    <3> QED BY ONLY <1>1, <3>1, ShareExact
  <2>4. applied[a] = IF m < cfg[a].dwell THEN 0 ELSE m
    BY <2>1 DEF ApplyMinDwell, Minutes, n
  <2> HIDE DEF m
  <2>5. m < cfg[a].dwell <=> Interval * batch[a] < cfg[a].dwell * n
    BY <1>1, <2>2, <2>3, Multiples
  <2>6. 0 * n = 0
    BY <1>1
  <2> QED BY <2>2, <2>3, <2>4, <2>5, <2>6
<1>5. Total(applied, D) <= Interval
  <2> DEFINE scaled == [a \in D |-> n * applied[a]]
             shares == [a \in Activities |-> Interval * batch[a]]
  <2>1. \A a \in D : scaled[a] = n * applied[a] /\ applied[a] \in Nat /\ n * applied[a] \in Nat
    BY <1>1, <1>4
  <2>2. \A a \in Activities : shares[a] = Interval * batch[a] /\ batch[a] \in Nat /\ shares[a] \in Nat
    BY <1>1
  <2>3. \A a \in D : scaled[a] \in Nat /\ shares[a] \in Nat /\ scaled[a] <= shares[a]
    <3> SUFFICES ASSUME NEW a \in D
                 PROVE  scaled[a] \in Nat /\ shares[a] \in Nat /\ scaled[a] <= shares[a]
      OBVIOUS
    <3>1. a \in Activities /\ n * applied[a] = applied[a] * n
      BY <1>1, <1>2, <1>4
    <3>2. applied[a] * n = 0 \/ applied[a] * n = Interval * batch[a]
      BY <1>4
    <3>3. shares[a] = Interval * batch[a] /\ shares[a] \in Nat
      BY <2>2, <3>1
    <3>4. scaled[a] = n * applied[a] /\ scaled[a] \in Nat
      BY <2>1
    <3> HIDE DEF scaled, shares
    <3> QED BY <3>1, <3>2, <3>3, <3>4
  <2> HIDE DEF scaled, shares
  <2>4. Total(scaled, D) = n * Total(applied, D)
    BY <1>1, <1>3, <2>1, TotalScaled
  <2>5. Total(shares, Activities) = Interval * n
    BY <1>1, <2>2, TotalScaled DEF n
  <2>6. Total(scaled, D) <= Total(shares, D)
    BY <1>3, <2>3, TotalMonotone
  <2>7. Total(shares, D) <= Total(shares, Activities)
    <3>1. D \in SUBSET Activities
      BY <1>2
    <3> QED BY <1>1, <2>2, <3>1, TotalSubset
  <2>8. /\ Total(applied, D) \in Nat /\ Total(scaled, D) \in Nat /\ Total(shares, D) \in Nat
    BY <1>3, <2>1, <2>3, TotalType
  <2>9. Total(applied, D) * n <= Interval * n
    <3>1. n * Total(applied, D) = Total(applied, D) * n /\ Interval * n \in Nat
      BY <1>1, <2>8
    <3> QED BY <2>4, <2>5, <2>6, <2>7, <2>8, <3>1
  <2> QED BY <1>1, <2>8, <2>9, Multiples
<1> QED BY <1>2, <1>3, <1>4, <1>5 DEF n

\* The points are what is due for the shares that pass one table's dwells at the weights of
\* another.
LEMMA PointsPay ==
  ASSUME NEW batch \in Batches, NEW cfg \in Tables, NEW w \in Tables, NEW applied,
         applied = ApplyMinDwell(Minutes(batch), cfg)
  PROVE  /\ PeriodPoints(applied, w) \in Nat
         /\ PeriodPoints(applied, w) * Total(batch, Activities) = Pay(batch, cfg, w)
<1> DEFINE n == Total(batch, Activities)
           D == DOMAIN applied
           points == [a \in D |-> IF w[a] = None THEN 0 ELSE applied[a] * w[a].weight]
           due == [a \in Activities |->
                     IF /\ cfg[a] # None /\ w[a] # None
                        /\ Interval * batch[a] >= cfg[a].dwell * n
                     THEN Interval * batch[a] * w[a].weight ELSE 0]
<1>1. /\ n \in Nat \ {0} /\ IsFiniteSet(Activities) /\ Interval \in Nat
      /\ \A a \in Activities : batch[a] \in Nat
  BY ConstantsAssumption DEF Batches
<1>2. /\ D = {a \in Activities : batch[a] > 0 /\ cfg[a] # None} /\ IsFiniteSet(D)
      /\ \A a \in D : /\ applied[a] \in Nat /\ cfg[a].dwell \in Nat
                      /\ applied[a] * n = IF Interval * batch[a] < cfg[a].dwell * n
                                          THEN 0 ELSE Interval * batch[a]
  BY AppliedShares
<1>3. \A a \in Activities : w[a] # None => w[a].weight \in Nat
  <2> SUFFICES ASSUME NEW a \in Activities, w[a] # None PROVE w[a].weight \in Nat
    OBVIOUS
  <2>1. w[a] \in Settings
    BY DEF Tables
  <2> QED BY <2>1, ConstantsAssumption
<1>4. Total(points, D) = PeriodPoints(applied, w) /\ Total(due, Activities) = Pay(batch, cfg, w)
  BY DEF PeriodPoints, Pay
<1> HIDE DEF n
<1>5. \A a \in D : points[a] \in Nat /\ due[a] = n * points[a]
  <2> SUFFICES ASSUME NEW a \in D PROVE points[a] \in Nat /\ due[a] = n * points[a]
    OBVIOUS
  <2>1. /\ a \in Activities /\ cfg[a] # None /\ batch[a] \in Nat /\ applied[a] \in Nat
        /\ cfg[a].dwell \in Nat /\ Interval * batch[a] \in Nat /\ cfg[a].dwell * n \in Nat
    BY <1>1, <1>2
  <2>2. CASE w[a] = None
    <3>1. points[a] = 0 /\ due[a] = 0
      BY <2>1, <2>2
    <3> QED BY <1>1, <3>1
  <2>3. CASE w[a] # None
    <3> DEFINE k == w[a].weight
    <3>1. k \in Nat
      BY <1>3, <2>1, <2>3
    <3>2. points[a] = applied[a] * k
      BY <2>3
    <3>3. due[a] = IF Interval * batch[a] >= cfg[a].dwell * n THEN Interval * batch[a] * k ELSE 0
      BY <2>1, <2>3
    <3> HIDE DEF k, points, due
    <3>4. due[a] = (applied[a] * n) * k
      <4>1. CASE Interval * batch[a] < cfg[a].dwell * n
        <5>1. applied[a] * n = 0
          BY <1>2, <4>1
        <5>2. due[a] = 0
          BY <2>1, <3>3, <4>1
        <5> QED BY <3>1, <5>1, <5>2
      <4>2. CASE ~(Interval * batch[a] < cfg[a].dwell * n)
        <5>1. applied[a] * n = Interval * batch[a]
          BY <1>2, <4>2
        <5>2. Interval * batch[a] >= cfg[a].dwell * n
          BY <2>1, <4>2
        <5> QED BY <3>3, <5>1, <5>2
      <4> QED BY <4>1, <4>2
    <3>5. (applied[a] * n) * k = n * (applied[a] * k) /\ applied[a] * k \in Nat
      BY <1>1, <2>1, <3>1
    <3> QED BY <3>2, <3>4, <3>5
  <2> QED BY <2>2, <2>3
<1>6. \A a \in Activities \ D : due[a] = 0
  <2> SUFFICES ASSUME NEW a \in Activities \ D, cfg[a] # None, w[a] # None PROVE due[a] = 0
    OBVIOUS
  <2>1. batch[a] = 0 /\ w[a].weight \in Nat
    BY <1>1, <1>2, <1>3
  <2>2. Interval * batch[a] * w[a].weight = 0
    BY <1>1, <2>1
  <2> QED BY <2>2
<1> HIDE DEF points, due
<1>7. Total(due, D) = n * Total(points, D)
  BY <1>1, <1>2, <1>5, TotalScaled
<1>8. \A a \in Activities : due[a] \in Nat
  <2>1. \A a \in D : n * points[a] \in Nat
    BY <1>1, <1>5
  <2> QED BY <1>5, <1>6, <2>1
<1>9. Total(due, D) = Total(due, Activities)
  <2>1. D \in SUBSET Activities
    BY <1>2
  <2> QED BY <1>1, <1>6, <1>8, <2>1, TotalSubset
<1>10. Total(points, D) \in Nat
  BY <1>2, <1>5, TotalType
<1>11. n * Total(points, D) = Total(points, D) * n
  BY <1>1, <1>10
<1> QED BY <1>4, <1>7, <1>9, <1>10, <1>11 DEF n

-----------------------------------------------------------------------------
(***************************************************************************)
(* The row and the score card                                              *)
(***************************************************************************)

\* The equation of the function MergeMinutes is defined by.
MergesInto(h, m, f) ==
  h = [s \in SUBSET (DOMAIN f) |->
         IF s = {} THEN m ELSE [h[s \ {Pick(s)}] EXCEPT ![Column(Pick(s))] = @ + f[Pick(s)]]]

\* What MergeMinutes stands for.
LEMMA MergeChosen ==
  ASSUME NEW m, NEW f
  PROVE  MergeMinutes(m, f) = (CHOOSE h : MergesInto(h, m, f))[DOMAIN f]
BY DEF MergeMinutes, FoldSet, MapThenFoldSet, MergesInto, Pick

\* Merging activity by activity is adding what each column gets.
THEOREM MergeAdds ==
  ASSUME NEW m \in [Columns -> Nat], NEW f, IsFiniteSet(DOMAIN f),
         \A a \in DOMAIN f : f[a] \in Nat /\ Column(a) \in Columns
  PROVE  MergeMinutes(m, f) = [c \in Columns |-> m[c] + MinuteDeltas(f)[c]]
<1> DEFINE D == DOMAIN f
           part(s, c) == {a \in s : Column(a) = c}
           sums == [s \in SUBSET D |-> [c \in Columns |-> m[c] + Total(f, part(s, c))]]
<1>1. \A s \in SUBSET D, c \in Columns : IsFiniteSet(part(s, c)) /\ Total(f, part(s, c)) \in Nat
  <2> SUFFICES ASSUME NEW s \in SUBSET D, NEW c \in Columns
               PROVE  IsFiniteSet(part(s, c)) /\ Total(f, part(s, c)) \in Nat
    OBVIOUS
  <2>1. part(s, c) \in SUBSET D
    OBVIOUS
  <2> HIDE DEF part
  <2>2. IsFiniteSet(part(s, c))
    BY <2>1, FS_Subset
  <2> QED BY <2>1, <2>2, TotalType
<1>2. ASSUME NEW s \in SUBSET D, s # {}
      PROVE  sums[s] = [sums[s \ {Pick(s)}] EXCEPT ![Column(Pick(s))] = @ + f[Pick(s)]]
  <2> DEFINE x == Pick(s)
             r == s \ {x}
  <2>1. x \in s /\ r \in SUBSET D /\ Column(x) \in Columns /\ f[x] \in Nat
    BY <1>2, PickIn
  <2> HIDE DEF x
  <2>2. \A c \in Columns \ {Column(x)} : part(s, c) = part(r, c)
    OBVIOUS
  <2>3. Total(f, part(s, Column(x))) = f[x] + Total(f, part(r, Column(x)))
    <3>1. /\ x \in part(s, Column(x)) /\ part(s, Column(x)) \ {x} = part(r, Column(x))
          /\ part(s, Column(x)) \in SUBSET D
      BY <2>1
    <3>2. IsFiniteSet(part(s, Column(x)))
      BY <1>1, <2>1
    <3> DEFINE q == part(s, Column(x))
    <3>3. \A a \in q : f[a] \in Nat
      BY <3>1
    <3> HIDE DEF part
    <3>4. Total(f, q) = f[x] + Total(f, q \ {x})
      <4> HIDE DEF q
      <4> QED BY <3>1, <3>2, <3>3, TotalTake DEF q
    <3> QED BY <3>1, <3>4
  <2>4. \A c \in Columns : m[c] \in Nat /\ Total(f, part(r, c)) \in Nat /\ Total(f, part(s, c)) \in Nat
    BY <1>1, <2>1
  <2> HIDE DEF r, part
  <2>5. \A c \in Columns :
          m[c] + Total(f, part(s, c)) = IF c = Column(x) THEN m[c] + Total(f, part(r, c)) + f[x]
                                         ELSE m[c] + Total(f, part(r, c))
    BY <2>1, <2>2, <2>3, <2>4
  <2>6. /\ sums[s] = [c \in Columns |-> m[c] + Total(f, part(s, c))]
        /\ sums[r] = [c \in Columns |-> m[c] + Total(f, part(r, c))]
    BY <2>1
  <2> HIDE DEF sums
  <2>7. [sums[r] EXCEPT ![Column(x)] = @ + f[x]]
          = [c \in Columns |-> IF c = Column(x) THEN m[c] + Total(f, part(r, c)) + f[x]
                               ELSE m[c] + Total(f, part(r, c))]
    BY <2>1, <2>6
  <2>8. sums[s] = [sums[r] EXCEPT ![Column(x)] = @ + f[x]]
    BY <2>5, <2>6, <2>7
  <2> QED BY <2>8 DEF x, r
<1>3. sums[{}] = m
  <2>1. \A c \in Columns : part({}, c) = {}
    OBVIOUS
  <2> HIDE DEF part
  <2>2. \A c \in Columns : m[c] + Total(f, part({}, c)) = m[c]
    BY <2>1, TotalSmall
  <2>3. sums[{}] = [c \in Columns |-> m[c] + Total(f, part({}, c))]
    OBVIOUS
  <2> HIDE DEF sums
  <2>4. sums[{}] = [c \in Columns |-> m[c]]
    BY <2>2, <2>3
  <2> QED BY <2>4
<1>4. MergesInto(sums, m, f)
  <2>1. DOMAIN sums = SUBSET D /\ sums = [s \in SUBSET D |-> sums[s]]
    OBVIOUS
  <2> HIDE DEF sums
  <2>2. \A s \in SUBSET D :
          sums[s] = IF s = {} THEN m ELSE [sums[s \ {Pick(s)}] EXCEPT ![Column(Pick(s))] = @ + f[Pick(s)]]
    BY <1>2, <1>3
  <2>3. sums = [s \in SUBSET D |->
                  IF s = {} THEN m ELSE [sums[s \ {Pick(s)}] EXCEPT ![Column(Pick(s))] = @ + f[Pick(s)]]]
    BY <2>1, <2>2
  <2> QED BY <2>3 DEF MergesInto
<1>5. PICK h : MergesInto(h, m, f) /\ MergeMinutes(m, f) = h[D]
  BY <1>4, MergeChosen
<1>6. h[D] = sums[D]
  <2> DEFINE T == {s \in SUBSET D : h[s] # sums[s]}
  <2>1. SUFFICES ASSUME T # {} PROVE FALSE
    OBVIOUS
  <2>2. PICK s \in T : \A r \in SUBSET s : r = s \/ r \notin T
    <3>1. T \in SUBSET (SUBSET D)
      OBVIOUS
    <3> HIDE DEF T
    <3> QED BY <2>1, <3>1, SmallestSubset, Zenon
  <2>3. s \in SUBSET D /\ h[s] # sums[s]
    OBVIOUS
  <2>4. h[s] = IF s = {} THEN m ELSE [h[s \ {Pick(s)}] EXCEPT ![Column(Pick(s))] = @ + f[Pick(s)]]
    BY <1>5, <2>3 DEF MergesInto
  <2> HIDE DEF sums
  <2>5. s # {}
    BY <1>3, <2>3, <2>4
  <2>6. s \ {Pick(s)} \in SUBSET s /\ s \ {Pick(s)} # s
    BY <2>5, PickIn
  <2>7. h[s \ {Pick(s)}] = sums[s \ {Pick(s)}]
    BY <2>2, <2>3, <2>6
  <2> QED BY <1>2, <2>3, <2>4, <2>5, <2>7
<1> QED BY <1>5, <1>6 DEF MinuteDeltas

\* What the columns get is together what the activities bring.
LEMMA DeltasAdd ==
  ASSUME NEW m \in [Columns -> Nat], NEW f, IsFiniteSet(DOMAIN f),
         \A a \in DOMAIN f : f[a] \in Nat /\ Column(a) \in Columns
  PROVE  /\ [c \in Columns |-> m[c] + MinuteDeltas(f)[c]] \in [Columns -> Nat]
         /\ Total([c \in Columns |-> m[c] + MinuteDeltas(f)[c]], Columns)
              = Total(m, Columns) + Total(f, DOMAIN f)
         /\ Total(m, Columns) \in Nat /\ Total(f, DOMAIN f) \in Nat
<1> DEFINE d == MinuteDeltas(f)
           sum == [c \in Columns |-> m[c] + d[c]]
<1>1. ASSUME NEW c \in Columns PROVE d[c] \in Nat
  <2> DEFINE part == {a \in DOMAIN f : Column(a) = c}
  <2>1. part \in SUBSET (DOMAIN f) /\ d[c] = Total(f, part)
    BY DEF MinuteDeltas
  <2> HIDE DEF part
  <2>2. IsFiniteSet(part)
    BY <2>1, FS_Subset
  <2> QED BY <2>1, <2>2, TotalType
<1>2. Total(d, Columns) = Total(f, DOMAIN f)
  BY TotalByColumn DEF MinuteDeltas
<1> HIDE DEF d
<1>3. \A c \in Columns : m[c] \in Nat /\ d[c] \in Nat /\ sum[c] = 1 * m[c] + d[c]
  BY <1>1
<1>4. sum \in [Columns -> Nat]
  BY <1>1
<1> HIDE DEF sum
<1>5. Total(sum, Columns) = 1 * Total(m, Columns) + Total(d, Columns)
  BY <1>3, ColumnsFinite, TotalLinear
<1>6. Total(m, Columns) \in Nat /\ Total(f, DOMAIN f) \in Nat
  BY <1>3, ColumnsFinite, TotalType
<1> QED BY <1>2, <1>4, <1>5, <1>6 DEF sum, d

\* A card computed from the row does not contradict tags computed from the same row.
LEMMA CardFits ==
  ASSUME NEW m \in [Columns -> Nat], NEW tags, tags = AssignTags(m)
  PROVE  LET card == Breakdown(m)
             radar == Radar(m)
             over(columns, limit) == Total(card.percentage, columns) > limit * card.of
         IN /\ "Builder" \in tags <=> over({"coding"}, 50)
            /\ "Mentor" \in tags <=> over({"mentoring", "helping"}, 15)
            /\ "Collaborator" \in tags <=> over({"collaborating"}, 30)
            /\ "Networker" \in tags <=> over({"networking"}, 20)
            /\ card.of = Total(m, Columns)
            /\ Total(card.percentage, Columns) = 100 * card.of
            /\ \A x \in Axes : 100 * radar.share[x] * card.of >= card.percentage[x] * radar.of
<1> DEFINE total == Total(m, Columns)
           axes == Total(m, Axes)
           p == [c \in Columns |-> 100 * m[c]]
<1>1. /\ \A c \in Columns : m[c] \in Nat /\ p[c] = 100 * m[c] /\ p[c] \in Nat
      /\ {"coding", "mentoring", "helping", "collaborating", "networking"} \subseteq Columns
      /\ IsFiniteSet(Columns) /\ Axes \in SUBSET Columns /\ IsFiniteSet(Axes)
  <2>1. IsFiniteSet(Columns) /\ Axes \in SUBSET Columns /\ IsFiniteSet(Axes)
    BY ColumnsFinite, FS_Subset
  <2>2. {"coding", "mentoring", "helping", "collaborating", "networking"} \subseteq Columns
    BY DEF Columns
  <2> QED BY <2>1, <2>2
<1>2. /\ Breakdown(m).percentage = p /\ Breakdown(m).of = total
      /\ \A x \in Axes : Radar(m).share[x] = m[x]
      /\ Radar(m).of = IF axes = 0 THEN 1 ELSE axes
  BY DEF Breakdown, Radar
<1> HIDE DEF p
<1>3. /\ total \in Nat /\ axes \in Nat /\ axes <= total
      /\ \A c \in Columns : m[c] <= total
      /\ \A x \in Axes : m[x] <= axes
      /\ Total(p, Columns) = 100 * total
  BY <1>1, TotalType, TotalSubset, TotalMember, TotalScaled
<1>4. /\ Total(p, {"coding"}) = 100 * m["coding"]
      /\ Total(p, {"collaborating"}) = 100 * m["collaborating"]
      /\ Total(p, {"networking"}) = 100 * m["networking"]
      /\ Total(p, {"mentoring", "helping"}) = 100 * m["mentoring"] + 100 * m["helping"]
  <2>1. \A c \in {"coding", "mentoring", "helping", "collaborating", "networking"} :
          p[c] = 100 * m[c] /\ p[c] \in Nat
    BY <1>1
  <2>2. \A c \in {"coding", "collaborating", "networking"} : Total(p, {c}) = p[c]
    BY <2>1, TotalSmall
  <2>3. "mentoring" # "helping" /\ p["mentoring"] \in Nat /\ p["helping"] \in Nat
    BY <2>1
  <2>4. Total(p, {"mentoring", "helping"}) = p["mentoring"] + p["helping"]
    BY <2>3, TotalSmall
  <2> QED BY <2>1, <2>2, <2>4
<1>5. /\ "Builder" \in tags <=> total > 0 /\ 100 * m["coding"] > 50 * total
      /\ "Mentor" \in tags <=> total > 0 /\ 100 * (m["mentoring"] + m["helping"]) > 15 * total
      /\ "Collaborator" \in tags <=> total > 0 /\ 100 * m["collaborating"] > 30 * total
      /\ "Networker" \in tags <=> total > 0 /\ 100 * m["networking"] > 20 * total
  BY <1>3 DEF AssignTags
<1> HIDE DEF total, axes
<1>6. /\ "Builder" \in tags <=> Total(p, {"coding"}) > 50 * total
      /\ "Mentor" \in tags <=> Total(p, {"mentoring", "helping"}) > 15 * total
      /\ "Collaborator" \in tags <=> Total(p, {"collaborating"}) > 30 * total
      /\ "Networker" \in tags <=> Total(p, {"networking"}) > 20 * total
  BY <1>1, <1>3, <1>4, <1>5
<1>7. ASSUME NEW x \in Axes
      PROVE  100 * m[x] * total >= 100 * m[x] * (IF axes = 0 THEN 1 ELSE axes)
  <2> DEFINE k == 100 * m[x]
  <2>1. k \in Nat /\ m[x] \in Nat /\ m[x] <= axes /\ total \in Nat /\ axes \in Nat /\ axes <= total
    BY <1>1, <1>3
  <2>2. axes = 0 => k = 0
    BY <2>1
  <2> HIDE DEF k
  <2>3. CASE axes = 0
    BY <2>1, <2>2, <2>3
  <2>4. CASE axes # 0
    <3>1. k * total >= k * axes
      BY ONLY <2>1
    <3> QED BY <2>4, <3>1 DEF k
  <2> QED BY <2>3, <2>4 DEF k
<1>8. \A x \in Axes : 100 * Radar(m).share[x] * total >= p[x] * Radar(m).of
  BY <1>1, <1>2, <1>7
<1> QED BY <1>2, <1>3, <1>6, <1>8 DEF total

-----------------------------------------------------------------------------
(***************************************************************************)
(* The inductive invariant                                                 *)
(***************************************************************************)

\* A request is one of those administrators send, and the worker's table is one of tables.
RequestFits ==
  request # None =>
    /\ request = [body |-> request.body, committed |-> request.committed]
    /\ request.body \in Bodies /\ request.committed \in BOOLEAN
ConfigFits ==
  /\ saved \in Tables /\ config \in Tables /\ \E a \in Activities : config[a] # None
  /\ loading # None => loading \in Tables /\ \E a \in Activities : loading[a] # None

\* Every edit on its way to the worker, and every reload of a flush, is of a request of its
\* own: requests, announcements and reloads in progress.
Reloads == IF loading = None THEN 0 ELSE 1
Requests == IF request = None THEN 0 ELSE 1
UnderWay == notices + Reloads + Requests
EditsCounted ==
  /\ notices \in Nat /\ puts \in 0..MaxPuts /\ UnderWay <= puts
  /\ flush # None => Len(flush.configs) + UnderWay <= puts + 1

\* A flush remembers the tables the worker had since it began, and has used them in order.
FlushFits ==
  flush # None =>
    /\ flush = [step |-> flush.step, batch |-> flush.batch, applied |-> flush.applied,
                points |-> flush.points, configs |-> flush.configs]
    /\ flush.step \in {"dwell", "points", "commit"} /\ flush.batch \in Batches
    /\ flush.configs \in Seq(Tables) /\ Len(flush.configs) > 0
    /\ flush.configs[Len(flush.configs)] = config
    /\ flush.step # "dwell" =>
         \E i \in DOMAIN flush.configs :
           /\ flush.applied = ApplyMinDwell(Minutes(flush.batch), flush.configs[i])
           /\ flush.step = "commit" =>
                \E j \in DOMAIN flush.configs :
                  i <= j /\ flush.points = PeriodPoints(flush.applied, flush.configs[j])

\* The row holds the tags of its own minutes, and no more minutes than were flushed.
RowFits ==
  /\ row.minutes \in [Columns -> Nat] /\ row.total \in Nat
  /\ row.tags = AssignTags(row.minutes)
  /\ Total(row.minutes, Columns) <= Interval * flushes

Bounds ==
  /\ listener \in {"starting", "listening", "dead"} /\ missed \in BOOLEAN
  /\ flushes \in 0..MaxFlushes /\ faults \in 0..MaxFaults
  /\ flush # None => flushes < MaxFlushes

IInv == RequestFits /\ ConfigFits /\ EditsCounted /\ FlushFits /\ RowFits /\ Bounds

-----------------------------------------------------------------------------
\* Loading a table gives one, and the file when nothing is set.
LEMMA LoadedType ==
  ASSUME NEW t \in Tables
  PROVE  Loaded(t) \in Tables /\ \E a \in Activities : Loaded(t)[a] # None
BY ConstantsAssumption DEF Loaded, Tables

\* The initial states satisfy the invariant.
LEMMA InitInvariant == Init => IInv
<1> SUFFICES ASSUME Init PROVE IInv
  OBVIOUS
<1> USE ConstantsAssumption
<1>1. saved \in Tables
  BY DEF Init, Tables
<1>2. RequestFits /\ ConfigFits
  BY <1>1, LoadedType DEF Init, RequestFits, ConfigFits
<1>3. EditsCounted /\ FlushFits /\ Bounds
  <2>1. flush = None /\ notices = 0 /\ loading = None /\ request = None /\ puts = 0
    BY DEF Init
  <2>2. UnderWay = 0
    BY <2>1 DEF UnderWay, Reloads, Requests
  <2>3. EditsCounted /\ FlushFits
    BY <2>1, <2>2 DEF EditsCounted, FlushFits
  <2>4. missed \in BOOLEAN
    BY Zenon DEF Init
  <2> QED BY <2>1, <2>3, <2>4 DEF Init, Bounds
<1>4. RowFits
  <2>1. /\ row.minutes = NoMinutes /\ row.total = 0 /\ row.tags = {} /\ flushes = 0
    BY DEF Init
  <2>2. NoMinutes \in [Columns -> Nat] /\ \A c \in Columns : NoMinutes[c] = 0
    BY DEF NoMinutes
  <2>3. Total(NoMinutes, Columns) = 0
    <3>1. Total(NoMinutes, {}) = Total(NoMinutes, Columns)
      BY <2>2, ColumnsFinite, TotalSubset
    <3> QED BY <3>1, TotalSmall
  <2>4. AssignTags(NoMinutes) = {}
    BY <2>3 DEF AssignTags
  <2> QED BY <2>1, <2>2, <2>3, <2>4 DEF RowFits
<1> QED BY <1>2, <1>3, <1>4 DEF IInv

\* Requests and tables: an edit sets activities of the list it was sent.
LEMMA ConfigStep ==
  ASSUME RequestFits, ConfigFits, [Next]_vars
  PROVE  RequestFits' /\ ConfigFits'
<1> USE ConstantsAssumption
<1>1. ASSUME NEW body \in Bodies, Put(body) PROVE RequestFits' /\ ConfigFits'
  BY <1>1 DEF Put, worker, RequestFits, ConfigFits
<1>2. ASSUME CommitPut PROVE RequestFits' /\ ConfigFits'
  <2>1. /\ request = [body |-> request.body, committed |-> request.committed]
        /\ request.body \in Bodies /\ UNCHANGED <<config, loading>>
        /\ saved' = [a \in Activities |-> IF a \in DOMAIN request.body THEN request.body[a] ELSE saved[a]]
        /\ request' = [request EXCEPT !.committed = TRUE]
    BY <1>2 DEF CommitPut, worker, RequestFits
  <2>2. \A a \in DOMAIN request.body : request.body[a] \in Settings
    BY <2>1
  <2>3. saved' \in Tables
    BY <2>1, <2>2 DEF ConfigFits, Tables
  <2>4. request' = [body |-> request.body, committed |-> TRUE]
    BY <2>1
  <2> QED BY <2>1, <2>3, <2>4 DEF RequestFits, ConfigFits
<1>3. ASSUME NEW arrives \in BOOLEAN, PublishPut(arrives) PROVE RequestFits' /\ ConfigFits'
  BY <1>3 DEF PublishPut, RequestFits, ConfigFits
<1>4. ASSUME RestartWorker PROVE RequestFits' /\ ConfigFits'
  BY <1>4, LoadedType DEF RestartWorker, RequestFits, ConfigFits
<1>5. ASSUME NEW answers \in BOOLEAN, ReadConfig(answers) PROVE RequestFits' /\ ConfigFits'
  BY <1>5, LoadedType DEF ReadConfig, RequestFits, ConfigFits
<1>6. ASSUME AssignConfig PROVE RequestFits' /\ ConfigFits'
  BY <1>6 DEF AssignConfig, RequestFits, ConfigFits
<1>7. ASSUME UNCHANGED <<saved, request, config, loading>> PROVE RequestFits' /\ ConfigFits'
  BY <1>7 DEF RequestFits, ConfigFits
<1>8. CASE /\ \A body \in Bodies : ~Put(body)
           /\ \A b \in BOOLEAN : ~PublishPut(b) /\ ~ReadConfig(b)
           /\ ~CommitPut /\ ~RestartWorker /\ ~AssignConfig
  <2>1. UNCHANGED <<saved, request, config, loading>>
    BY <1>8 DEF Next, Subscribe, ListenerDies, BeginFlush, FlushNothing, ApplyDwell,
       CalculatePoints, CommitFlush, vars, worker
  <2> QED BY <2>1, <1>7
<1> QED BY <1>1, <1>2, <1>3, <1>4, <1>5, <1>6, <1>8

\* Appending a table to those of a flush leaves the others where they were.
LEMMA Appended ==
  ASSUME NEW S, NEW s \in Seq(S), NEW t \in S
  PROVE  /\ Append(s, t) \in Seq(S) /\ Len(Append(s, t)) = Len(s) + 1 /\ Len(s) \in Nat
         /\ Append(s, t)[Len(s) + 1] = t
         /\ DOMAIN s \subseteq DOMAIN Append(s, t) /\ DOMAIN s \subseteq Nat
         /\ \A i \in DOMAIN s : Append(s, t)[i] = s[i]
OBVIOUS

\* What AssignConfig does to a flush in progress.
LEMMA AssignToFlush ==
  ASSUME ConfigFits, FlushFits, AssignConfig, flush # None
  PROVE  /\ flush' = [step |-> flush.step, batch |-> flush.batch, applied |-> flush.applied,
                      points |-> flush.points, configs |-> Append(flush.configs, loading)]
         /\ loading \in Tables /\ config' = loading
<1>1. flush' = [flush EXCEPT !.configs = Append(flush.configs, loading)]
  BY DEF AssignConfig
<1>2. flush = [step |-> flush.step, batch |-> flush.batch, applied |-> flush.applied,
               points |-> flush.points, configs |-> flush.configs]
  BY DEF FlushFits
<1>3. loading \in Tables /\ config' = loading
  BY DEF AssignConfig, ConfigFits
<1> QED BY <1>1, <1>2, <1>3

\* Three counts make a count.
LEMMA ThreeCounts ==
  ASSUME NEW a \in Nat, NEW b \in Nat, NEW c \in Nat
  PROVE  a + b + c \in Nat
OBVIOUS

\* What grows no faster than a bound stays within it.
LEMMA StaysWithin ==
  ASSUME NEW a \in Nat, NEW b \in Nat, NEW c \in Nat, NEW d \in Nat, NEW n \in Nat, NEW k \in Nat,
         a + c <= b + d, n + b <= c + k
  PROVE  n + a <= d + k
OBVIOUS

\* A step that takes away as much as it adds keeps the count.
LEMMA EditsKept ==
  ASSUME EditsCounted, flush # None => Len(flush.configs) \in Nat,
         flush' = None \/ flush' = flush, notices' \in Nat, puts' \in 0..MaxPuts,
         UnderWay' + puts <= UnderWay + puts'
  PROVE  EditsCounted'
<1>1. MaxPuts \in Nat
  BY ConstantsAssumption
<1>2. notices \in Nat /\ puts \in Nat /\ UnderWay <= puts
  BY <1>1 DEF EditsCounted
<1>3. puts' \in Nat
  BY <1>1
<1>4. Reloads \in Nat /\ Requests \in Nat /\ Reloads' \in Nat /\ Requests' \in Nat
  BY DEF Reloads, Requests
<1>5. UnderWay \in Nat /\ UnderWay' \in Nat
  BY <1>2, <1>4, ThreeCounts, Zenon DEF UnderWay
<1>6. ASSUME NEW n \in Nat, NEW k \in Nat, n + UnderWay <= puts + k
      PROVE  n + UnderWay' <= puts' + k
  BY <1>2, <1>3, <1>5, <1>6, StaysWithin
<1>7. UnderWay' <= puts'
  <2>1. \A a \in Nat, b \in Nat : a <= b <=> 0 + a <= b + 0
    OBVIOUS
  <2>2. 0 + UnderWay <= puts + 0 /\ 0 \in Nat
    BY <1>2, <1>5
  <2>3. 0 + UnderWay' <= puts' + 0
    BY <1>6, <2>2
  <2> QED BY <1>3, <1>5, <2>1, <2>3, Zenon
<1>8. ASSUME flush' # None PROVE Len(flush'.configs) + UnderWay' <= puts' + 1
  <2>1. flush' = flush /\ flush # None
    BY <1>8
  <2>2. Len(flush.configs) \in Nat /\ Len(flush.configs) + UnderWay <= puts + 1 /\ 1 \in Nat
    BY <2>1 DEF EditsCounted
  <2>3. Len(flush'.configs) = Len(flush.configs)
    BY <2>1
  <2>4. Len(flush.configs) + UnderWay' <= puts' + 1
    BY <1>6, <2>2, Zenon
  <2> QED BY <2>3, <2>4
<1> QED BY <1>7, <1>8 DEF EditsCounted

\* Edits become announcements, reloads and tables of a flush, each at most once.
LEMMA EditsStep ==
  ASSUME ConfigFits, EditsCounted, FlushFits, [Next]_vars
  PROVE  EditsCounted'
<1> USE ConstantsAssumption
<1>0. flush # None => Len(flush.configs) \in Nat
  BY DEF FlushFits
<1>1. ASSUME NEW body \in Bodies, Put(body) PROVE EditsCounted'
  <2>1. /\ request = None /\ puts' = puts + 1 /\ puts' \in 0..MaxPuts
        /\ UNCHANGED <<notices, loading, flush>>
    BY <1>1 DEF Put, worker, EditsCounted
  <2>2. UnderWay' <= UnderWay + 1
    BY <2>1 DEF EditsCounted, UnderWay, Reloads, Requests
  <2>3. puts \in Int /\ puts' \in 0..MaxPuts /\ notices' \in Nat
    BY <2>1, <2>2 DEF EditsCounted
  <2>4. UnderWay' + puts <= UnderWay + puts'
    BY <2>1, <2>2, <2>3 DEF EditsCounted, UnderWay, Reloads, Requests
  <2> QED BY <1>0, <2>1, <2>3, <2>4, EditsKept
<1>2. ASSUME CommitPut PROVE EditsCounted'
  <2>1. request # None /\ UNCHANGED <<notices, loading, flush, puts>>
    BY <1>2 DEF CommitPut, worker
  <2>2. UnderWay' <= UnderWay
    BY <2>1 DEF EditsCounted, UnderWay, Reloads, Requests
  <2>3. puts \in Int /\ puts' \in 0..MaxPuts /\ notices' \in Nat
    BY <2>1, <2>2 DEF EditsCounted
  <2>4. UnderWay' + puts <= UnderWay + puts'
    BY <2>1, <2>2, <2>3 DEF EditsCounted, UnderWay, Reloads, Requests
  <2> QED BY <1>0, <2>1, <2>3, <2>4, EditsKept
<1>3. ASSUME NEW arrives \in BOOLEAN, PublishPut(arrives) PROVE EditsCounted'
  <2>1. /\ request # None /\ request' = None /\ UNCHANGED <<loading, flush, puts>>
        /\ notices' = notices \/ notices' = notices + 1
    BY <1>3 DEF PublishPut
  <2>2. UnderWay' <= UnderWay /\ notices' \in Nat
    BY <2>1 DEF EditsCounted, UnderWay, Reloads, Requests
  <2>3. puts \in Int /\ puts' \in 0..MaxPuts /\ notices' \in Nat
    BY <2>1, <2>2 DEF EditsCounted
  <2>4. UnderWay' \in Int /\ UnderWay \in Int
    BY <2>1 DEF EditsCounted, UnderWay, Reloads, Requests
  <2>5. \A a, b, c \in Int : a <= b => a + c <= b + c
    OBVIOUS
  <2>6. UnderWay' + puts <= UnderWay + puts
    BY <2>2, <2>3, <2>4, <2>5, Zenon
  <2>7. UnderWay' + puts <= UnderWay + puts'
    BY <2>1, <2>6, Zenon
  <2> QED BY <1>0, <2>1, <2>3, <2>7, EditsKept
<1>4. ASSUME RestartWorker PROVE EditsCounted'
  <2>1. /\ flush' = None /\ notices' = 0 /\ loading' = None /\ UNCHANGED <<request, puts>>
    BY <1>4 DEF RestartWorker
  <2>2. UnderWay' <= UnderWay
    BY <2>1 DEF EditsCounted, UnderWay, Reloads, Requests
  <2>3. puts \in Int /\ puts' \in 0..MaxPuts /\ notices' \in Nat
    BY <2>1, <2>2 DEF EditsCounted
  <2>4. UnderWay' + puts <= UnderWay + puts'
    BY <2>1, <2>2, <2>3 DEF EditsCounted, UnderWay, Reloads, Requests
  <2> QED BY <1>0, <2>1, <2>3, <2>4, EditsKept
<1>5. ASSUME ListenerDies PROVE EditsCounted'
  <2>1. notices' = 0 /\ UNCHANGED <<request, loading, flush, puts>>
    BY <1>5 DEF ListenerDies
  <2>2. UnderWay' <= UnderWay
    BY <2>1 DEF EditsCounted, UnderWay, Reloads, Requests
  <2>3. puts \in Int /\ puts' \in 0..MaxPuts /\ notices' \in Nat
    BY <2>1, <2>2 DEF EditsCounted
  <2>4. UnderWay' + puts <= UnderWay + puts'
    BY <2>1, <2>2, <2>3 DEF EditsCounted, UnderWay, Reloads, Requests
  <2> QED BY <1>0, <2>1, <2>3, <2>4, EditsKept
<1>6. ASSUME NEW answers \in BOOLEAN, ReadConfig(answers) PROVE EditsCounted'
  <2>1. /\ loading = None /\ notices > 0 /\ notices' = notices - 1
        /\ UNCHANGED <<request, flush, puts>>
    BY <1>6 DEF ReadConfig
  <2>2. UnderWay' <= UnderWay /\ notices' \in Nat
    BY <2>1 DEF EditsCounted, UnderWay, Reloads, Requests
  <2>3. puts \in Int /\ puts' \in 0..MaxPuts /\ notices' \in Nat
    BY <2>1, <2>2 DEF EditsCounted
  <2>4. UnderWay' + puts <= UnderWay + puts'
    BY <2>1, <2>2, <2>3 DEF EditsCounted, UnderWay, Reloads, Requests
  <2> QED BY <1>0, <2>1, <2>3, <2>4, EditsKept
<1>7. ASSUME AssignConfig PROVE EditsCounted'
  <2>1. loading # None /\ loading' = None /\ notices' = notices /\ UNCHANGED <<request, puts>>
    BY <1>7 DEF AssignConfig, StillToHear
  <2>2. UnderWay' = UnderWay - 1 /\ UnderWay \in Nat
    BY <2>1 DEF EditsCounted, UnderWay, Reloads, Requests
  <2>3. CASE flush = None
    <3>1. flush' = None
      BY <1>7, <2>3 DEF AssignConfig
    <3> QED BY <2>1, <2>2, <3>1 DEF EditsCounted
  <2>4. CASE flush # None
    <3>1. flush'.configs = Append(flush.configs, loading) /\ loading \in Tables
      BY <1>7, <2>4, AssignToFlush
    <3>2. Len(flush'.configs) = Len(flush.configs) + 1
      BY <2>4, <3>1, Appended DEF FlushFits
    <3> QED BY <1>0, <2>1, <2>2, <2>4, <3>2 DEF EditsCounted
  <2> QED BY <2>3, <2>4
<1>8. ASSUME NEW batch \in [Activities -> 0..MaxBatch], BeginFlush(batch) PROVE EditsCounted'
  <2>1. Len(flush'.configs) = 1 /\ UNCHANGED <<notices, loading, request, puts>>
    BY <1>8 DEF BeginFlush, worker
  <2> QED BY <2>1 DEF EditsCounted, UnderWay, Reloads, Requests
<1>9. ASSUME ApplyDwell \/ CalculatePoints PROVE EditsCounted'
  <2>1. flush # None /\ flush'.configs = flush.configs /\ UNCHANGED <<notices, loading, request, puts>>
    BY <1>9 DEF ApplyDwell, CalculatePoints, worker, FlushFits
  <2> QED BY <2>1 DEF EditsCounted, UnderWay, Reloads, Requests
<1>10. ASSUME NEW commits \in BOOLEAN, CommitFlush(commits) PROVE EditsCounted'
  BY <1>10 DEF CommitFlush, worker, EditsCounted, UnderWay, Reloads, Requests
<1>11. ASSUME Subscribe \/ FlushNothing \/ UNCHANGED vars PROVE EditsCounted'
  BY <1>11 DEF Subscribe, FlushNothing, vars, worker, EditsCounted, UnderWay, Reloads, Requests
<1> QED
  BY <1>1, <1>2, <1>3, <1>4, <1>5, <1>6, <1>7, <1>8, <1>9, <1>10, <1>11 DEF Next

\* Whatever is reloaded while a flush runs, it has used tables of its list, in order.
LEMMA FlushStep ==
  ASSUME ConfigFits, FlushFits, [Next]_vars
  PROVE  FlushFits'
<1>1. ASSUME flush' = None PROVE FlushFits'
  BY <1>1 DEF FlushFits
<1>2. ASSUME UNCHANGED <<config, flush>> PROVE FlushFits'
  BY <1>2 DEF FlushFits
<1>3. ASSUME AssignConfig, flush # None PROVE FlushFits'
  <2> DEFINE cs == flush.configs
             ds == Append(cs, loading)
  <2>1. /\ flush' = [step |-> flush.step, batch |-> flush.batch, applied |-> flush.applied,
                     points |-> flush.points, configs |-> ds]
        /\ loading \in Tables /\ config' = loading
    BY <1>3, AssignToFlush
  <2>2. /\ cs \in Seq(Tables) /\ flush.step \in {"dwell", "points", "commit"}
        /\ flush.batch \in Batches
        /\ flush.step # "dwell" =>
             \E i \in DOMAIN cs :
               /\ flush.applied = ApplyMinDwell(Minutes(flush.batch), cs[i])
               /\ flush.step = "commit" =>
                    \E j \in DOMAIN cs :
                      i <= j /\ flush.points = PeriodPoints(flush.applied, cs[j])
    BY <1>3 DEF FlushFits
  <2>3. /\ ds \in Seq(Tables) /\ Len(ds) = Len(cs) + 1 /\ ds[Len(cs) + 1] = loading
        /\ Len(cs) \in Nat /\ DOMAIN cs \subseteq DOMAIN ds /\ \A i \in DOMAIN cs : ds[i] = cs[i]
    BY <2>1, <2>2, Appended
  <2> HIDE DEF ds
  <2>4. flush.step # "dwell" =>
          \E i \in DOMAIN ds :
            /\ flush.applied = ApplyMinDwell(Minutes(flush.batch), ds[i])
            /\ flush.step = "commit" =>
                 \E j \in DOMAIN ds : i <= j /\ flush.points = PeriodPoints(flush.applied, ds[j])
    <3> SUFFICES ASSUME flush.step # "dwell"
                 PROVE  \E i \in DOMAIN ds :
                          /\ flush.applied = ApplyMinDwell(Minutes(flush.batch), ds[i])
                          /\ flush.step = "commit" =>
                               \E j \in DOMAIN ds :
                                 i <= j /\ flush.points = PeriodPoints(flush.applied, ds[j])
      OBVIOUS
    <3>1. PICK i \in DOMAIN cs :
            /\ flush.applied = ApplyMinDwell(Minutes(flush.batch), cs[i])
            /\ flush.step = "commit" =>
                 \E j \in DOMAIN cs : i <= j /\ flush.points = PeriodPoints(flush.applied, cs[j])
      BY <2>2
    <3> QED BY <2>3, <3>1
  <2> QED BY <2>1, <2>2, <2>3, <2>4 DEF FlushFits
<1>4. ASSUME NEW batch \in [Activities -> 0..MaxBatch], BeginFlush(batch) PROVE FlushFits'
  <2>1. /\ flush' = [step |-> "dwell", batch |-> batch, applied |-> None, points |-> 0,
                     configs |-> <<config>>]
        /\ Total(batch, Activities) \in 1..MaxBatch /\ config' = config
    BY <1>4 DEF BeginFlush, worker
  <2>2. batch \in Batches /\ <<config>> \in Seq(Tables) /\ Len(<<config>>) = 1 /\ <<config>>[1] = config
    BY <2>1 DEF Batches, ConfigFits
  <2> QED BY <2>1, <2>2 DEF FlushFits
<1>5. ASSUME ApplyDwell PROVE FlushFits'
  <2>1. /\ flush # None /\ config' = config
        /\ flush' = [flush EXCEPT !.step = "points",
                                  !.applied = ApplyMinDwell(Minutes(flush.batch), config)]
    BY <1>5 DEF ApplyDwell, worker
  <2>2. flush = [step |-> flush.step, batch |-> flush.batch, applied |-> flush.applied,
                 points |-> flush.points, configs |-> flush.configs]
    BY <2>1 DEF FlushFits
  <2>3. flush' = [step |-> "points", batch |-> flush.batch,
                  applied |-> ApplyMinDwell(Minutes(flush.batch), config),
                  points |-> flush.points, configs |-> flush.configs]
    BY <2>1, <2>2
  <2>4. /\ flush.batch \in Batches /\ flush.configs \in Seq(Tables) /\ Len(flush.configs) > 0
        /\ flush.configs[Len(flush.configs)] = config
        /\ Len(flush.configs) \in DOMAIN flush.configs
    BY <2>1 DEF FlushFits
  <2> QED BY <2>1, <2>3, <2>4 DEF FlushFits
<1>6. ASSUME CalculatePoints PROVE FlushFits'
  <2>1. /\ flush # None /\ flush.step = "points" /\ config' = config
        /\ flush' = [flush EXCEPT !.step = "commit", !.points = PeriodPoints(flush.applied, config)]
    BY <1>6 DEF CalculatePoints, worker
  <2>2. flush = [step |-> flush.step, batch |-> flush.batch, applied |-> flush.applied,
                 points |-> flush.points, configs |-> flush.configs]
    BY <2>1 DEF FlushFits
  <2>3. flush' = [step |-> "commit", batch |-> flush.batch, applied |-> flush.applied,
                  points |-> PeriodPoints(flush.applied, config), configs |-> flush.configs]
    BY <2>1, <2>2
  <2>4. /\ flush.batch \in Batches /\ flush.configs \in Seq(Tables) /\ Len(flush.configs) > 0
        /\ flush.configs[Len(flush.configs)] = config
        /\ Len(flush.configs) \in DOMAIN flush.configs
        /\ DOMAIN flush.configs = 1..Len(flush.configs) /\ Len(flush.configs) \in Nat
    BY <2>1 DEF FlushFits
  <2>5. PICK i \in DOMAIN flush.configs :
          flush.applied = ApplyMinDwell(Minutes(flush.batch), flush.configs[i])
    BY <2>1 DEF FlushFits
  <2>6. i <= Len(flush.configs)
    BY <2>4
  <2>7. \E k \in DOMAIN flush.configs :
          /\ flush.applied = ApplyMinDwell(Minutes(flush.batch), flush.configs[k])
          /\ \E j \in DOMAIN flush.configs :
               k <= j /\ PeriodPoints(flush.applied, config) = PeriodPoints(flush.applied, flush.configs[j])
    BY <2>4, <2>5, <2>6
  <2>8. flush'.step = "commit" /\ flush'.batch = flush.batch /\ flush'.configs = flush.configs
        /\ flush'.applied = flush.applied /\ flush'.points = PeriodPoints(flush.applied, config)
    BY <2>3
  <2> QED BY <2>1, <2>3, <2>4, <2>7, <2>8 DEF FlushFits
<1>7. CASE /\ ~AssignConfig /\ ~ApplyDwell /\ ~CalculatePoints
           /\ \A batch \in [Activities -> 0..MaxBatch] : ~BeginFlush(batch)
  <2>1. flush' = None \/ UNCHANGED <<config, flush>>
    BY <1>7 DEF Next, Put, CommitPut, PublishPut, RestartWorker, Subscribe, ListenerDies,
       ReadConfig, FlushNothing, CommitFlush, vars, worker
  <2> QED BY <1>1, <1>2, <2>1
<1>8. CASE AssignConfig /\ flush = None
  <2>1. flush' = None
    BY <1>8 DEF AssignConfig
  <2> QED BY <1>1, <2>1
<1> QED BY <1>3, <1>4, <1>5, <1>6, <1>7, <1>8

\* A flush adds an interval at most to the row, and computes the tags of the row it writes.
LEMMA RowStep ==
  ASSUME FlushFits, RowFits, Bounds, [Next]_vars
  PROVE  RowFits'
<1> USE ConstantsAssumption
<1>1. ASSUME UNCHANGED <<row, flushes>> PROVE RowFits'
  BY <1>1 DEF RowFits
<1>2. ASSUME CommitFlush(TRUE) PROVE RowFits'
  <2> DEFINE m == row.minutes
             f == flush.applied
             new == [c \in Columns |-> m[c] + MinuteDeltas(f)[c]]
  <2>1. /\ flush # None /\ flush.step = "commit" /\ flushes' = flushes + 1
        /\ row' = [minutes |-> new, total |-> row.total + flush.points,
                   tags |-> AssignTags(MergeMinutes(m, f))]
    BY <1>2 DEF CommitFlush
  <2>2. PICK i \in DOMAIN flush.configs, j \in DOMAIN flush.configs :
          /\ f = ApplyMinDwell(Minutes(flush.batch), flush.configs[i])
          /\ flush.points = PeriodPoints(f, flush.configs[j])
    BY <2>1 DEF FlushFits
  <2>3. flush.batch \in Batches /\ flush.configs[i] \in Tables /\ flush.configs[j] \in Tables
    BY <2>1 DEF FlushFits
  <2>4. /\ DOMAIN f \subseteq Activities /\ IsFiniteSet(DOMAIN f)
        /\ \A a \in DOMAIN f : f[a] \in Nat
        /\ Total(f, DOMAIN f) <= Interval
    <3>1. DOMAIN f = {a \in Activities : flush.batch[a] > 0 /\ flush.configs[i][a] # None}
      BY <2>2, <2>3, AppliedShares
    <3>2. IsFiniteSet(DOMAIN f) /\ Total(f, DOMAIN f) <= Interval
      BY <2>2, <2>3, AppliedShares
    <3>3. \A a \in DOMAIN f : f[a] \in Nat
      BY <2>2, <2>3, AppliedShares
    <3> QED BY <3>1, <3>2, <3>3
  <2>5. flush.points \in Nat
    BY <2>2, <2>3, PointsPay
  <2>6. m \in [Columns -> Nat] /\ \A a \in DOMAIN f : f[a] \in Nat /\ Column(a) \in Columns
    BY <2>4 DEF RowFits
  <2> HIDE DEF m, f
  <2>7. MergeMinutes(m, f) = new
    BY <2>4, <2>6, MergeAdds
  <2>8. /\ new \in [Columns -> Nat]
        /\ Total(new, Columns) = Total(m, Columns) + Total(f, DOMAIN f)
        /\ Total(m, Columns) \in Nat /\ Total(f, DOMAIN f) \in Nat
    BY <2>4, <2>6, DeltasAdd
  <2> HIDE DEF new
  <2>9. /\ Interval \in Nat /\ flushes \in Nat /\ row.total \in Nat
        /\ Total(m, Columns) <= Interval * flushes
    BY DEF RowFits, Bounds, m
  <2>10. Interval * (flushes + 1) = Interval * flushes + Interval /\ Interval * flushes \in Nat
    BY <2>9
  <2>11. Total(new, Columns) <= Interval * (flushes + 1)
    BY <2>4, <2>8, <2>9, <2>10
  <2> QED BY <2>1, <2>5, <2>7, <2>8, <2>9, <2>11 DEF RowFits
<1>3. CASE ~CommitFlush(TRUE)
  <2>1. UNCHANGED <<row, flushes>>
    BY <1>3 DEF Next, Put, CommitPut, PublishPut, RestartWorker, Subscribe, ListenerDies,
       ReadConfig, AssignConfig, BeginFlush, FlushNothing, ApplyDwell, CalculatePoints,
       CommitFlush, vars
  <2> QED BY <1>1, <2>1
<1> QED BY <1>2, <1>3

\* The counters stay within their bounds.
LEMMA BoundsStep ==
  ASSUME FlushFits, Bounds, [Next]_vars
  PROVE  Bounds'
<1> USE ConstantsAssumption DEF Bounds
<1>1. ASSUME flush' = None, UNCHANGED <<listener, missed>>,
             flushes' \in 0..MaxFlushes, faults' \in 0..MaxFaults
      PROVE  Bounds'
  BY <1>1
<1>2. ASSUME NEW commits \in BOOLEAN, CommitFlush(commits) PROVE Bounds'
  <2>1. flush # None /\ flush' = None /\ UNCHANGED <<listener, missed>>
    BY <1>2 DEF CommitFlush, worker
  <2>2. flushes' \in 0..MaxFlushes /\ faults' \in 0..MaxFaults
    BY <1>2, <2>1 DEF CommitFlush
  <2> QED BY <1>1, <2>1, <2>2
<1>3. ASSUME NEW batch \in [Activities -> 0..MaxBatch], BeginFlush(batch) PROVE Bounds'
  BY <1>3 DEF BeginFlush, worker
<1>4. ASSUME NEW arrives \in BOOLEAN, PublishPut(arrives) PROVE Bounds'
  <2>1. missed' \in BOOLEAN
    BY <1>4, Zenon DEF PublishPut
  <2> QED BY <1>4, <2>1 DEF PublishPut
<1>5. ASSUME NEW answers \in BOOLEAN, ReadConfig(answers) PROVE Bounds'
  <2>1. missed' \in BOOLEAN
    BY <1>5, Zenon DEF ReadConfig
  <2> QED BY <1>5, <2>1 DEF ReadConfig
<1>6. ASSUME RestartWorker PROVE Bounds'
  <2>1. missed' \in BOOLEAN
    BY <1>6, Zenon DEF RestartWorker
  <2> QED BY <1>6, <2>1 DEF RestartWorker
<1>7. ASSUME ListenerDies PROVE Bounds'
  <2>1. missed' \in BOOLEAN
    BY <1>7, Zenon DEF ListenerDies
  <2> QED BY <1>7, <2>1 DEF ListenerDies
<1>8. ASSUME Subscribe PROVE Bounds'
  BY <1>8 DEF Subscribe
<1>9. ASSUME AssignConfig PROVE Bounds'
  BY <1>9 DEF AssignConfig
<1>10. ASSUME ApplyDwell \/ CalculatePoints PROVE Bounds'
  BY <1>10 DEF ApplyDwell, CalculatePoints, worker
<1>11. ASSUME NEW body \in Bodies, Put(body) PROVE Bounds'
  BY <1>11 DEF Put, worker
<1>12. ASSUME CommitPut \/ FlushNothing \/ UNCHANGED vars PROVE Bounds'
  BY <1>12 DEF CommitPut, FlushNothing, vars, worker
<1> QED
  BY <1>2, <1>3, <1>4, <1>5, <1>6, <1>7, <1>8, <1>9, <1>10, <1>11, <1>12 DEF Next

-----------------------------------------------------------------------------
\* The inductive invariant holds in every reachable state.
THEOREM Inductive == Spec => []IInv
<1>1. IInv /\ [Next]_vars => IInv'
  BY ConfigStep, EditsStep, FlushStep, RowStep, BoundsStep DEF IInv
<1> QED BY <1>1, InitInvariant, PTL DEF Spec

\* Every reachable state is well typed: the worker always has a configuration, and the tables
\* a flush can see are bounded by the edits.
THEOREM TypeCorrect == Spec => []TypeOK
<1>1. IInv => TypeOK
  <2> SUFFICES ASSUME IInv PROVE TypeOK
    OBVIOUS
  <2> USE ConstantsAssumption
  <2>1. RequestFits /\ ConfigFits /\ EditsCounted /\ FlushFits /\ RowFits /\ Bounds
    BY DEF IInv
  <2>2. UnderWay \in Nat /\ notices <= UnderWay
    BY <2>1 DEF EditsCounted, UnderWay, Reloads, Requests
  <2>3. notices \in 0..MaxPuts /\ puts \in 0..MaxPuts
    BY <2>1, <2>2 DEF EditsCounted
  <2>4. flush # None => /\ flush.step \in {"dwell", "points", "commit"}
                        /\ Len(flush.configs) \in 1..(MaxPuts + 2)
    <3>1. flush # None => Len(flush.configs) \in Nat /\ Len(flush.configs) > 0
      BY <2>1 DEF FlushFits
    <3>2. flush # None => Len(flush.configs) <= MaxPuts + 1
      BY <2>1, <2>2, <3>1 DEF EditsCounted
    <3> QED BY <2>1, <3>1, <3>2 DEF FlushFits
  <2>5. request # None => DOMAIN request.body \subseteq Activities /\ request.committed \in BOOLEAN
    BY <2>1 DEF RequestFits
  <2> QED BY <2>1, <2>3, <2>4, <2>5 DEF TypeOK, ConfigFits, RowFits, Bounds
<1> QED BY <1>1, Inductive, PTL

\* The points of a flush are what its events are worth by one table's dwells and the weights
\* of the same or of a later one, whatever is reloaded between the two uses, for every interval
\* that the batches divide.
THEOREM FlushPaysRight == Spec => []FlushPays
<1>1. IInv => FlushPays
  <2> SUFFICES ASSUME IInv, flush # None, flush.step = "commit"
               PROVE  \E i, j \in DOMAIN flush.configs :
                        i <= j /\ flush.points * Total(flush.batch, Activities)
                                  = Pay(flush.batch, flush.configs[i], flush.configs[j])
    BY DEF FlushPays
  <2>1. PICK i \in DOMAIN flush.configs, j \in DOMAIN flush.configs :
          /\ flush.applied = ApplyMinDwell(Minutes(flush.batch), flush.configs[i])
          /\ i <= j /\ flush.points = PeriodPoints(flush.applied, flush.configs[j])
    BY DEF IInv, FlushFits
  <2>2. flush.batch \in Batches /\ flush.configs[i] \in Tables /\ flush.configs[j] \in Tables
    BY DEF IInv, FlushFits
  <2>3. flush.points * Total(flush.batch, Activities)
          = Pay(flush.batch, flush.configs[i], flush.configs[j])
    BY <2>1, <2>2, PointsPay
  <2> QED BY <2>1, <2>3
<1> QED BY <1>1, Inductive, PTL

\* The score card and the radar agree with the tags, and hold an interval per flush at most,
\* however the activities share columns and whatever the rows were merged from.
THEOREM CardTrue == Spec => []CardAgrees
<1>1. IInv => CardAgrees
  <2> SUFFICES ASSUME IInv PROVE CardAgrees
    OBVIOUS
  <2>1. /\ row.minutes \in [Columns -> Nat] /\ row.tags = AssignTags(row.minutes)
        /\ Total(row.minutes, Columns) <= Interval * flushes
    BY DEF IInv, RowFits
  <2> QED BY <2>1, CardFits DEF CardAgrees
<1> QED BY <1>1, Inductive, PTL
=============================================================================
