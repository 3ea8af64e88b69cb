--------------------------- MODULE InsightsProofs ---------------------------
(***************************************************************************)
(* Theorems about the algorithms for all figures and targets, where the    *)
(* runs of Insights see a few, and about Insights itself: where a sync     *)
(* files figures, what the overview adds up to, what the audit and the     *)
(* decision of a split test make of it, for any number of campaigns,       *)
(* trees, days and syncs in progress.                                   *)
(***************************************************************************)
EXTENDS InsightsInvariants, FiniteSetTheorems, WellFoundedInduction, TLAPS

-----------------------------------------------------------------------------
(* Sums over finite sets: SumFunctionOnSet is a recursive function, and    *)
(* what is true of it is shown by looking for a smallest counterexample.   *)

Below == {p \in Nat \X Nat : p[1] < p[2]}

LEMMA LeastNumber ==
    ASSUME NEW S \in SUBSET Nat, S # {}
    PROVE  \E m \in S : \A n \in S : m <= n
<1>1. IsWellFoundedOn(Below, Nat)
  BY NatLessThanWellFounded DEF OpToRel, Below
<1>2. PICK m \in S : \A n \in S : <<n, m>> \notin Below
  BY <1>1, WFMin
<1>3. \A k, n \in Nat : <<n, k>> \notin Below => k <= n
  BY DEF Below
<1>4. QED
  BY <1>2, <1>3

\* Induction over the subsets of a finite set, the property being a set of them.
LEMMA SubsetInduction ==
    ASSUME NEW D, IsFiniteSet(D), NEW Good \in SUBSET SUBSET D,
           \A s \in SUBSET D : (\A x \in s : s \ {x} \in Good) => s \in Good
    PROVE  \A s \in SUBSET D : s \in Good
<1> SUFFICES ASSUME \E s \in SUBSET D : s \notin Good PROVE FALSE
  OBVIOUS
<1> DEFINE Bad == {s \in SUBSET D : s \notin Good}
<1> DEFINE sizes == {n \in Nat : \E s \in Bad : Cardinality(s) = n}
<1>1. \A s \in SUBSET D : IsFiniteSet(s) /\ Cardinality(s) \in Nat
  BY FS_Subset, FS_CardinalityType
<1>2. sizes \in SUBSET Nat /\ sizes # {}
  BY <1>1
<1>3. PICK n \in sizes : \A m \in sizes : n <= m
  <2> HIDE DEF sizes
  <2> QED BY <1>2, LeastNumber
<1>4. PICK s \in Bad : Cardinality(s) = n
  BY <1>3
<1>5. \A x \in s : Cardinality(s \ {x}) = n - 1 /\ s \ {x} \in SUBSET D
  BY <1>1, <1>4, FS_RemoveElement
<1>6. n \in Nat
  BY <1>3
<1>7. \A x \in s : s \ {x} \in Good
  <2> TAKE x \in s
  <2>1. SUFFICES ASSUME s \ {x} \notin Good PROVE FALSE
    OBVIOUS
  <2>2. s \ {x} \in Bad
    BY <2>1, <1>5
  <2>3. n - 1 \in Nat
    BY <1>1, <1>5, Cardinality(s \ {x}) = n - 1
  <2>4. n - 1 \in sizes
    BY <2>2, <2>3, <1>5
  <2>5. QED
    BY <2>4, <1>3, <1>6
<1>8. QED
  BY <1>4, <1>7

\* The recursive function in the definition of a sum.
Pick(s) == CHOOSE x \in s : TRUE
AddUp(g, f, s) == IF s = {} THEN 0 ELSE f[Pick(s)] + g[s \ {Pick(s)}]
Adds(g, f, D) == g = [s \in SUBSET D |-> AddUp(g, f, s)]

LEMMA SumIsFold ==
    ASSUME NEW f, NEW D
    PROVE  SumFunctionOnSet(f, D) = (CHOOSE g : Adds(g, f, D))[D]
BY DEF SumFunctionOnSet, FoldFunctionOnSet, MapThenFoldSet, Adds, AddUp, Pick

LEMMA PickIn ==
    ASSUME NEW s, s # {}
    PROVE  Pick(s) \in s
BY DEF Pick

LEMMA CountingUp ==
    ASSUME NEW T \in SUBSET Nat, 0 \in T, \A n \in T : n + 1 \in T
    PROVE  \A n \in Nat : n \in T
<1> SUFFICES ASSUME Nat \ T # {} PROVE FALSE
  OBVIOUS
<1>1. PICK m \in Nat \ T : \A n \in Nat \ T : m <= n
  <2>1. Nat \ T \in SUBSET Nat
    OBVIOUS
  <2>2. QED
    BY <2>1, LeastNumber
<1>2. m - 1 \in Nat /\ ~(m <= m - 1)
  BY <1>1
<1>3. m - 1 \in T
  BY <1>1, <1>2
<1>4. QED
  BY <1>1, <1>2, <1>3

\* It exists.
LEMMA SomeAdds ==
    ASSUME NEW f, NEW D, IsFiniteSet(D)
    PROVE  \E g : Adds(g, f, D)
<1> DEFINE UpTo(n) == {s \in SUBSET D : Cardinality(s) <= n}
           reached == {n \in Nat : \E g : g = [s \in UpTo(n) |-> AddUp(g, f, s)]}
<1>1. \A s \in SUBSET D : IsFiniteSet(s) /\ Cardinality(s) \in Nat
  BY FS_Subset, FS_CardinalityType
<1>2. \A s \in UpTo(0) : s = {}
  BY <1>1, FS_EmptySet
<1>3. 0 \in reached
  <2> DEFINE g == [s \in UpTo(0) |-> 0]
  <2>1. g = [s \in UpTo(0) |-> AddUp(g, f, s)]
    BY <1>2 DEF AddUp
  <2>2. QED
    BY <2>1
<1>4. ASSUME NEW n \in reached PROVE n + 1 \in reached
  <2>1. PICK g : g = [s \in UpTo(n) |-> AddUp(g, f, s)]
    OBVIOUS
  <2> DEFINE h == [s \in UpTo(n + 1) |-> AddUp(g, f, s)]
  <2>2. ASSUME NEW s \in UpTo(n + 1) PROVE AddUp(h, f, s) = AddUp(g, f, s)
    <3>1. CASE s = {}
      BY <3>1 DEF AddUp
    <3>2. CASE s # {}
      <4> DEFINE t == s \ {Pick(s)}
      <4>1. t \in SUBSET D /\ Cardinality(t) = Cardinality(s) - 1
        BY <3>2, <1>1, PickIn, FS_RemoveElement
      <4>2. t \in UpTo(n) /\ t \in UpTo(n + 1)
        BY <4>1, <1>1
      <4>3. h[t] = g[t]
        <5> HIDE DEF t, UpTo
        <5> QED BY <4>2, <2>1
      <4>4. QED
        BY <4>3, <3>2 DEF AddUp
    <3>3. QED
      BY <3>1, <3>2
  <2>3. h = [s \in UpTo(n + 1) |-> AddUp(h, f, s)]
    <3> HIDE DEF UpTo
    <3>1. h = [s \in UpTo(n + 1) |-> AddUp(g, f, s)]
      OBVIOUS
    <3> HIDE DEF h
    <3> QED BY <2>2, <3>1
  <2>4. \E k : k = [s \in UpTo(n + 1) |-> AddUp(k, f, s)]
    <3> HIDE DEF UpTo, h
    <3> QED BY <2>3
  <2>5. QED
    <3> HIDE DEF UpTo
    <3> QED BY <2>4
<1>5. Cardinality(D) \in reached
  <2> HIDE DEF reached
  <2>1. reached \in SUBSET Nat
    BY DEF reached
  <2>2. \A n \in Nat : n \in reached
    BY <2>1, <1>3, <1>4, CountingUp
  <2>3. QED
    BY <2>2, FS_CardinalityType
<1>6. UpTo(Cardinality(D)) = SUBSET D
  BY FS_Subset
<1>7. PICK g : g = [s \in UpTo(Cardinality(D)) |-> AddUp(g, f, s)]
  BY <1>5
<1>8. QED
  BY <1>6, <1>7 DEF Adds

\* Only one, whatever larger set it is defined on.
LEMMA AddsIsUnique ==
    ASSUME NEW f, NEW D, IsFiniteSet(D), NEW E, D \in SUBSET E,
           NEW g, Adds(g, f, D), NEW h, Adds(h, f, E)
    PROVE  \A s \in SUBSET D : g[s] = h[s]
<1> DEFINE Good == {s \in SUBSET D : g[s] = h[s]}
<1>1. ASSUME NEW s \in SUBSET D, \A x \in s : s \ {x} \in Good
      PROVE  s \in Good
  <2>1. s \in SUBSET E
    OBVIOUS
  <2>2. g[s] = AddUp(g, f, s)
    BY DEF Adds
  <2>3. h[s] = AddUp(h, f, s)
    BY <2>1 DEF Adds
  <2>4. AddUp(g, f, s) = AddUp(h, f, s)
    BY <1>1, PickIn DEF AddUp
  <2>5. QED
    BY <2>2, <2>3, <2>4
<1>2. Good \in SUBSET SUBSET D
  OBVIOUS
<1>3. \A s \in SUBSET D : s \in Good
  <2> HIDE DEF Good
  <2> QED BY <1>1, <1>2, SubsetInduction
<1>4. QED
  BY <1>3

LEMMA SumOfNothing ==
    ASSUME NEW f
    PROVE  SumFunctionOnSet(f, {}) = 0
<1>1. PICK g : Adds(g, f, {})
  BY SomeAdds, FS_EmptySet
<1>2. Adds(CHOOSE h : Adds(h, f, {}), f, {})
  BY <1>1
<1>3. QED
  BY <1>2, SumIsFold DEF Adds, AddUp

LEMMA SumStep ==
    ASSUME NEW f, NEW D, IsFiniteSet(D), D # {}
    PROVE  SumFunctionOnSet(f, D) = f[Pick(D)] + SumFunctionOnSet(f, D \ {Pick(D)})
<1> DEFINE E == D \ {Pick(D)}
           g == CHOOSE h : Adds(h, f, D)
           k == CHOOSE h : Adds(h, f, E)
<1>1. IsFiniteSet(E) /\ E \in SUBSET D
  BY FS_RemoveElement
<1>2. Adds(g, f, D)
  BY SomeAdds
<1>3. Adds(k, f, E)
  BY <1>1, SomeAdds
<1>4. SumFunctionOnSet(f, D) = g[D] /\ SumFunctionOnSet(f, E) = k[E]
  BY SumIsFold
<1> HIDE DEF E, g, k
<1>5. k[E] = g[E]
  BY <1>1, <1>2, <1>3, AddsIsUnique
<1>6. g[D] = f[Pick(D)] + g[E]
  BY <1>2 DEF Adds, AddUp, E
<1>7. QED
  BY <1>4, <1>5, <1>6 DEF E

LEMMA SumIsNumber ==
    ASSUME NEW f, NEW D, IsFiniteSet(D), \A x \in D : f[x] \in Nat
    PROVE  SumFunctionOnSet(f, D) \in Nat
<1> DEFINE Good == {s \in SUBSET D : SumFunctionOnSet(f, s) \in Nat}
<1>1. ASSUME NEW s \in SUBSET D, \A x \in s : s \ {x} \in Good
      PROVE  s \in Good
  <2>1. CASE s = {}
    BY <2>1, SumOfNothing
  <2>2. CASE s # {}
    <3>1. IsFiniteSet(s)
      BY FS_Subset
    <3>2. Pick(s) \in s
      BY <2>2, PickIn
    <3>3. SumFunctionOnSet(f, s) = f[Pick(s)] + SumFunctionOnSet(f, s \ {Pick(s)})
      BY <2>2, <3>1, SumStep
    <3>4. SumFunctionOnSet(f, s \ {Pick(s)}) \in Nat
      BY <1>1, <3>2
    <3>5. QED
      BY <3>2, <3>3, <3>4
  <2>3. QED
    BY <2>1, <2>2
<1>2. Good \in SUBSET SUBSET D
  OBVIOUS
<1>3. \A s \in SUBSET D : s \in Good
  <2> HIDE DEF Good
  <2> QED BY <1>1, <1>2, SubsetInduction
<1>4. QED
  BY <1>3

\* A sum takes its terms in any order.
LEMMA SumTakes ==
    ASSUME NEW f, NEW D, IsFiniteSet(D), \A x \in D : f[x] \in Nat, NEW x \in D
    PROVE  SumFunctionOnSet(f, D) = f[x] + SumFunctionOnSet(f, D \ {x})
<1> DEFINE Takes(s) == \A y \in s : SumFunctionOnSet(f, s) = f[y] + SumFunctionOnSet(f, s \ {y})
           Good == {s \in SUBSET D : Takes(s)}
<1>0. \A s \in SUBSET D : IsFiniteSet(s) /\ SumFunctionOnSet(f, s) \in Nat
  BY FS_Subset, SumIsNumber
<1>1. ASSUME NEW s \in SUBSET D, \A y \in s : s \ {y} \in Good
      PROVE  s \in Good
  <2> SUFFICES ASSUME NEW y \in s
               PROVE  SumFunctionOnSet(f, s) = f[y] + SumFunctionOnSet(f, s \ {y})
    OBVIOUS
  <2> DEFINE z == Pick(s)
  <2>1. z \in s
    BY PickIn
  <2>2. SumFunctionOnSet(f, s) = f[z] + SumFunctionOnSet(f, s \ {z})
    BY <1>0, SumStep
  <2>3. CASE y = z
    BY <2>2, <2>3
  <2>4. CASE y # z
    <3> HIDE DEF z
    <3>1. y \in s \ {z} /\ z \in s \ {y}
      BY <2>1, <2>4
    <3>2. SumFunctionOnSet(f, s \ {z}) = f[y] + SumFunctionOnSet(f, (s \ {z}) \ {y})
      BY <1>1, <2>1, <3>1
    <3>3. SumFunctionOnSet(f, s \ {y}) = f[z] + SumFunctionOnSet(f, (s \ {y}) \ {z})
      BY <1>1, <3>1
    <3>4. (s \ {y}) \ {z} = (s \ {z}) \ {y} /\ (s \ {y}) \ {z} \in SUBSET D
      OBVIOUS
    <3>5. SumFunctionOnSet(f, (s \ {y}) \ {z}) \in Nat
      BY <1>0, <3>4
    <3>6. f[y] \in Nat /\ f[z] \in Nat
      BY <2>1
    <3>7. QED
      BY <2>2, <3>2, <3>3, <3>4, <3>5, <3>6
  <2>5. QED
    BY <2>3, <2>4
<1>2. Good \in SUBSET SUBSET D
  OBVIOUS
<1>3. D \in Good
  <2> HIDE DEF Good
  <2> QED BY <1>1, <1>2, SubsetInduction
<1>4. QED
  BY <1>3

LEMMA ImageIsFinite ==
    ASSUME NEW D, IsFiniteSet(D), NEW m
    PROVE  IsFiniteSet({m[x] : x \in D})
<1> DEFINE E == {m[x] : x \in D}
           onto == [x \in D |-> m[x]]
<1>1. onto \in Surjection(D, E)
  BY DEF Surjection
<1>2. QED
  BY <1>1, FS_Surjection

LEMMA SumMoved ==
    ASSUME NEW D, IsFiniteSet(D), NEW E, NEW m \in [D -> E],
           \A x, y \in D : m[x] = m[y] => x = y, \A z \in E : \E x \in D : m[x] = z,
           NEW f, NEW h, \A x \in D : f[x] \in Nat /\ h[m[x]] = f[x]
    PROVE  SumFunctionOnSet(f, D) = SumFunctionOnSet(h, E)
<1> DEFINE To(s) == {m[x] : x \in s}
           Good == {s \in SUBSET D : SumFunctionOnSet(f, s) = SumFunctionOnSet(h, To(s))}
<1>1. \A s \in SUBSET D : IsFiniteSet(s)
  BY FS_Subset
<1>2. \A s \in SUBSET D : IsFiniteSet(To(s))
  BY <1>1, ImageIsFinite
<1>3. ASSUME NEW s \in SUBSET D, \A x \in s : s \ {x} \in Good
      PROVE  s \in Good
  <2>1. CASE s = {}
    <3>1. To(s) = {}
      BY <2>1
    <3>2. QED
      BY <2>1, <3>1, SumOfNothing
  <2>2. CASE s # {}
    <3>1. PICK x \in s : TRUE
      BY <2>2
    <3>2. SumFunctionOnSet(f, s) = f[x] + SumFunctionOnSet(f, s \ {x})
      BY <1>1, SumTakes
    <3>3. To(s \ {x}) = To(s) \ {m[x]} /\ m[x] \in To(s)
      OBVIOUS
    <3>4. \A z \in To(s) : h[z] \in Nat
      OBVIOUS
    <3>5. SumFunctionOnSet(h, To(s)) = h[m[x]] + SumFunctionOnSet(h, To(s) \ {m[x]})
      <4> HIDE DEF To
      <4> QED BY <1>2, <3>3, <3>4, SumTakes
    <3>6. SumFunctionOnSet(f, s \ {x}) = SumFunctionOnSet(h, To(s \ {x}))
      BY <1>3
    <3>7. QED
      BY <3>2, <3>3, <3>5, <3>6
  <2>3. QED
    BY <2>1, <2>2
<1>4. Good \in SUBSET SUBSET D
  OBVIOUS
<1>5. D \in Good
  <2> HIDE DEF Good
  <2> QED BY <1>3, <1>4, SubsetInduction
<1>6. To(D) = E
  OBVIOUS
<1>7. QED
  BY <1>5, <1>6

\* The sum over two sets that have no element in common.
LEMMA SumOfTwo ==
    ASSUME NEW A, IsFiniteSet(A), NEW B, IsFiniteSet(B), A \cap B = {},
           NEW f, \A x \in A \cup B : f[x] \in Nat
    PROVE  SumFunctionOnSet(f, A \cup B) = SumFunctionOnSet(f, A) + SumFunctionOnSet(f, B)
<1> DEFINE Good == {s \in SUBSET A : SumFunctionOnSet(f, s \cup B)
                                       = SumFunctionOnSet(f, s) + SumFunctionOnSet(f, B)}
<1>1. \A s \in SUBSET A : /\ IsFiniteSet(s) /\ SumFunctionOnSet(f, s) \in Nat
                          /\ IsFiniteSet(s \cup B)
  BY FS_Subset, FS_Union, SumIsNumber
<1>2. SumFunctionOnSet(f, B) \in Nat
  BY SumIsNumber
<1>3. ASSUME NEW s \in SUBSET A, \A x \in s : s \ {x} \in Good
      PROVE  s \in Good
  <2>1. CASE s = {}
    <3>1. s \cup B = B
      BY <2>1
    <3>2. QED
      BY <2>1, <3>1, <1>2, SumOfNothing
  <2>2. CASE s # {}
    <3>1. PICK x \in s : TRUE
      BY <2>2
    <3>0. \A y \in s \cup B : f[y] \in Nat
      OBVIOUS
    <3>2. SumFunctionOnSet(f, s) = f[x] + SumFunctionOnSet(f, s \ {x})
      <4>1. IsFiniteSet(s) /\ \A y \in s : f[y] \in Nat
        BY <1>1, <3>0
      <4>2. QED
        BY <3>1, <4>1, SumTakes
    <3>3. (s \cup B) \ {x} = (s \ {x}) \cup B
      BY <3>1
    <3>4. SumFunctionOnSet(f, s \cup B) = f[x] + SumFunctionOnSet(f, (s \cup B) \ {x})
      <4>1. x \in s \cup B /\ IsFiniteSet(s \cup B)
        BY <1>1, <3>1
      <4>2. QED
        BY <3>0, <4>1, SumTakes
    <3>5. SumFunctionOnSet(f, (s \ {x}) \cup B)
            = SumFunctionOnSet(f, s \ {x}) + SumFunctionOnSet(f, B)
      BY <1>3
    <3>6. f[x] \in Nat /\ SumFunctionOnSet(f, s \ {x}) \in Nat
      <4>1. s \ {x} \in SUBSET A
        OBVIOUS
      <4>2. QED
        BY <1>1, <3>0, <3>1, <4>1
    <3>7. SumFunctionOnSet(f, s \cup B) = SumFunctionOnSet(f, s) + SumFunctionOnSet(f, B)
      <4>1. SumFunctionOnSet(f, s \cup B)
              = f[x] + (SumFunctionOnSet(f, s \ {x}) + SumFunctionOnSet(f, B))
        BY <3>3, <3>4, <3>5
      <4>2. QED
        BY <4>1, <3>2, <3>6, <1>2
    <3>8. QED
      BY <3>7
  <2>3. QED
    BY <2>1, <2>2
<1>4. Good \in SUBSET SUBSET A
  OBVIOUS
<1>5. A \in Good
  <2> HIDE DEF Good
  <2> QED BY <1>3, <1>4, SubsetInduction
<1>6. QED
  BY <1>5

\* Row by row or all at once: v has a number at each pair of a table, and r the sum of
\* each row over the columns of that row.
Tabulated(X, P, table, v, r, row, columns) ==
    /\ IsFiniteSet(X) /\ IsFiniteSet(P) /\ table \in SUBSET (X \X P)
    /\ \A e \in table : v[e] \in Nat
    /\ \A x \in X : /\ r[x] \in Nat
                    /\ columns[x] = {p \in P : <<x, p>> \in table}
                    /\ r[x] = SumFunctionOnSet(row[x], columns[x])
    /\ \A x \in X, p \in P : <<x, p>> \in table => row[x][p] = v[<<x, p>>]

LEMMA SumByRows ==
    ASSUME NEW X, NEW P, NEW table, NEW v, NEW r, NEW row, NEW columns,
           Tabulated(X, P, table, v, r, row, columns)
    PROVE  SumFunctionOnSet(r, X) = SumFunctionOnSet(v, table)
<1>0. /\ IsFiniteSet(X) /\ IsFiniteSet(P) /\ table \in SUBSET (X \X P)
      /\ \A e \in table : v[e] \in Nat
      /\ \A x \in X : /\ r[x] \in Nat
                      /\ columns[x] = {p \in P : <<x, p>> \in table}
                      /\ r[x] = SumFunctionOnSet(row[x], columns[x])
      /\ \A x \in X, p \in P : <<x, p>> \in table => row[x][p] = v[<<x, p>>]
  BY DEF Tabulated
<1> DEFINE Of(s) == {e \in table : e[1] \in s}
           Good == {s \in SUBSET X : SumFunctionOnSet(r, s) = SumFunctionOnSet(v, Of(s))}
<1>1. IsFiniteSet(table) /\ \A s \in SUBSET X : IsFiniteSet(s) /\ IsFiniteSet(Of(s))
  BY <1>0, FS_Product, FS_Subset
<1>2. ASSUME NEW x \in X
      PROVE  r[x] = SumFunctionOnSet(v, Of({x}))
  <2> DEFINE places == {p \in P : <<x, p>> \in table}
             m == [p \in places |-> <<x, p>>]
             line == row[x]
             E == Of({x})
  <2>1. IsFiniteSet(places)
    BY <1>0, FS_Subset
  <2>2. m \in [places -> E] /\ \A p \in places : m[p] = <<x, p>>
    BY <1>0
  <2>3. \A p, q \in places : m[p] = m[q] => p = q
    OBVIOUS
  <2>4. \A e \in E : \E p \in places : m[p] = e
    BY <1>0
  <2>5. \A p \in places : line[p] \in Nat /\ v[m[p]] = line[p]
    BY <1>0
  <2>6. r[x] = SumFunctionOnSet(line, places)
    <3>1. r[x] = SumFunctionOnSet(row[x], columns[x]) /\ columns[x] = {p \in P : <<x, p>> \in table}
      BY <1>0
    <3>2. QED
      BY <3>1
  <2> HIDE DEF places, m, E, line
  <2>7. SumFunctionOnSet(line, places) = SumFunctionOnSet(v, E)
    BY <2>1, <2>2, <2>3, <2>4, <2>5, SumMoved
  <2>8. QED
    BY <2>6, <2>7 DEF E
<1>3. ASSUME NEW s \in SUBSET X, \A x \in s : s \ {x} \in Good
      PROVE  s \in Good
  <2>1. CASE s = {}
    <3>1. Of(s) = {}
      BY <2>1
    <3>2. QED
      BY <2>1, <3>1, SumOfNothing
  <2>2. CASE s # {}
    <3>1. PICK x \in s : TRUE
      BY <2>2
    <3>2. SumFunctionOnSet(r, s) = r[x] + SumFunctionOnSet(r, s \ {x})
      <4>1. IsFiniteSet(s) /\ \A y \in s : r[y] \in Nat
        BY <1>0, <1>1
      <4>2. QED
        BY <3>1, <4>1, SumTakes
    <3>3. Of(s) = Of({x}) \cup Of(s \ {x}) /\ Of({x}) \cap Of(s \ {x}) = {}
      BY <1>0, <3>1
    <3>4. IsFiniteSet(Of({x})) /\ IsFiniteSet(Of(s \ {x})) /\ \A e \in Of(s) : v[e] \in Nat
      BY <1>0, <1>1, <3>1
    <3>5. SumFunctionOnSet(v, Of(s)) = SumFunctionOnSet(v, Of({x})) + SumFunctionOnSet(v, Of(s \ {x}))
      <4>1. \A e \in Of({x}) \cup Of(s \ {x}) : v[e] \in Nat
        BY <3>3, <3>4
      <4> HIDE DEF Of
      <4>2. SumFunctionOnSet(v, Of({x}) \cup Of(s \ {x}))
              = SumFunctionOnSet(v, Of({x})) + SumFunctionOnSet(v, Of(s \ {x}))
        BY <4>1, <3>3, <3>4, SumOfTwo
      <4>3. QED
        BY <4>2, <3>3
    <3>6. SumFunctionOnSet(r, s \ {x}) = SumFunctionOnSet(v, Of(s \ {x}))
      BY <1>3
    <3>7. QED
      BY <3>2, <3>5, <3>6, <1>2
  <2>3. QED
    BY <2>1, <2>2
<1>4. Good \in SUBSET SUBSET X
  OBVIOUS
<1>5. X \in Good
  <2>1. IsFiniteSet(X)
    BY <1>0
  <2> HIDE DEF Good
  <2> QED BY <1>3, <1>4, <2>1, SubsetInduction
<1>6. Of(X) = table
  BY <1>0
<1>7. QED
  BY <1>5, <1>6

-----------------------------------------------------------------------------
(* The rules and the audit.                                                *)

\* What justifies switching an entity off never justifies spending more on it: a CPA
\* cannot be above twice and below 0.8 times the target (rules K1, K2 against S1, S2).
LEMMA KillExcludesScale ==
    ASSUME NEW m \in Figure, NEW target \in Nat
    PROVE  ZeroConverter(m, target) \/ ExpensiveConverter(m, target)
             => ~SteadyWinner(m, target) /\ ~StrongWinner(m, target)
<1> DEFINE r == ResultsOf(m)
           cost == target * r
<1>1. r \in Nat /\ m.spend \in Nat
  BY DEF Figure, ResultsOf
<1>2. cost \in Nat
  BY <1>1
<1>3. 2 * target * r = 2 * cost /\ 8 * target * r = 8 * cost /\ 6 * target * r = 6 * cost
  BY <1>1
<1>4. ZeroConverter(m, target) => r = 0
  BY DEF ZeroConverter
<1>5. ExpensiveConverter(m, target) => m.spend > 2 * cost
  BY <1>3 DEF ExpensiveConverter
<1>6. SteadyWinner(m, target) => r >= 5 /\ 10 * m.spend <= 8 * cost
  BY <1>3 DEF SteadyWinner
<1>7. StrongWinner(m, target) => r >= 10 /\ 10 * m.spend <= 6 * cost
  BY <1>3 DEF StrongWinner
<1> HIDE DEF r, cost
<1>8. QED
  BY <1>1, <1>2, <1>4, <1>5, <1>6, <1>7

\* A finding comes from a rule that fires on the entity it names.
LEMMA FindingsFire ==
    ASSUME NEW metrics, NEW target, NEW p50,
           NEW f \in EvaluateRules(metrics, target, p50)
    PROVE  /\ f.entity \in DOMAIN metrics
           /\ f.type = "KILL_AD" =>
                \/ ZeroConverter(metrics[f.entity], target)
                \/ ExpensiveConverter(metrics[f.entity], target)
           /\ f.type = "SCALE_BUDGET" =>
                \/ SteadyWinner(metrics[f.entity], target)
                \/ StrongWinner(metrics[f.entity], target)
<1>0. \A x \in DOMAIN metrics : DOMAIN RulesOn(metrics[x], target, p50) = 1..6
  BY DEF RulesOn
<1>1. PICK x \in DOMAIN metrics, i \in 1..6 :
         /\ RulesOn(metrics[x], target, p50)[i].fires
         /\ f.type = RulesOn(metrics[x], target, p50)[i].type
         /\ f.entity = x
  BY <1>0 DEF EvaluateRules
<1>2. i = 1 \/ i = 2 \/ i = 3 \/ i = 4 \/ i = 5 \/ i = 6
  OBVIOUS
<1>3. CASE i = 1  BY <1>1, <1>3 DEF RulesOn
<1>4. CASE i = 2  BY <1>1, <1>4 DEF RulesOn
<1>5. CASE i = 3  BY <1>1, <1>5 DEF RulesOn
<1>6. CASE i = 4  BY <1>1, <1>6 DEF RulesOn
<1>7. CASE i = 5  BY <1>1, <1>7 DEF RulesOn
<1>8. CASE i = 6  BY <1>1, <1>8 DEF RulesOn
<1>9. QED
  BY <1>2, <1>3, <1>4, <1>5, <1>6, <1>7, <1>8

\* No analysis, of whatever figures and for whatever target, tells the user both to
\* switch an entity off and to raise its budget (evaluateRules).
THEOREM NeverKillAndScale ==
    ASSUME NEW metrics, NEW target \in Nat, NEW p50,
           \A x \in DOMAIN metrics : metrics[x] \in Figure,
           NEW f \in EvaluateRules(metrics, target, p50),
           NEW g \in EvaluateRules(metrics, target, p50),
           f.entity = g.entity, f.type = "KILL_AD"
    PROVE  g.type # "SCALE_BUDGET"
<1>1. metrics[f.entity] \in Figure
  BY FindingsFire
<1>2. QED
  BY <1>1, FindingsFire, KillExcludesScale

-----------------------------------------------------------------------------
(* The audit *)

LEMMA Quotients ==
    ASSUME NEW a \in Nat, NEW b \in Nat, a <= b
    PROVE  /\ a \div 10 \in Nat /\ a \div 10 <= b \div 10
           /\ a \div 100 \in Nat /\ a \div 100 <= b \div 100
  OBVIOUS

LEMMA CapProperties ==
    ASSUME NEW n \in Nat
    PROVE  /\ AtMost100(n) \in 0..100 /\ AtMost100(n) <= n
           /\ AtMost100(n) = (IF n < 100 THEN n ELSE 100)
<1>1. \A y \in {100, n} : (IF n < 100 THEN n ELSE 100) <= y
  OBVIOUS
<1>2. AtMost100(n) = (IF n < 100 THEN n ELSE 100)
  BY <1>1 DEF AtMost100, Min
<1>3. QED
  BY <1>2

\* The parts of the score that come from what the account has.
LEMMA FactScores ==
    ASSUME NEW facts \in AccountFacts
    PROVE  /\ TrackingScore(facts) \in 0..100
           /\ CreativeScore(facts) \in 0..100
           /\ AudienceScore(facts) \in 0..100
<1>1. facts.creatives \in Nat /\ facts.styles \in Nat
  BY DEF AccountFacts
<1>2. AtMost100(10 * facts.creatives) \in 0..100 /\ AtMost100(20 * facts.styles) \in 0..100
  BY <1>1, CapProperties
<1>3. CreativeScore(facts) \in 0..100
  BY <1>2 DEF CreativeScore
<1>4. QED
  BY <1>3 DEF TrackingScore, AudienceScore

\* The weighted sum of category scores, in hundredths, and with the half to round up.
Points(t, c, h, a, s, r) == 20 * t + 20 * c + 20 * h + 15 * a + 15 * s + 10 * r + 50

\* The health score is a percentage for every account (auditAccount).
THEOREM ScoreIsPercentage ==
    ASSUME NEW facts \in AccountFacts, NEW d \in Scores
    PROVE  AuditScore(facts, d) \in 0..100
<1> DEFINE points == Points(TrackingScore(facts), CreativeScore(facts), d.hygiene,
                            AudienceScore(facts), d.sufficiency, d.structure)
<1>1. points \in Nat /\ points <= 10050
  <2>1. PICK h \in 0..100, s \in 0..100, r \in 0..100 :
          d.hygiene = h /\ d.sufficiency = s /\ d.structure = r
    BY DEF Scores
  <2>2. PICK t \in 0..100, c \in 0..100, a \in 0..100 :
          TrackingScore(facts) = t /\ CreativeScore(facts) = c /\ AudienceScore(facts) = a
    BY FactScores
  <2>3. points = Points(t, c, h, a, s, r)
    BY <2>1, <2>2
  <2> HIDE DEF points
  <2>4. QED
    BY <2>3 DEF Points
<1>2. AuditScore(facts, d) = points \div 100
  BY DEF AuditScore, Points
<1> HIDE DEF points
<1>3. points \div 100 \in Nat /\ points \div 100 <= 10050 \div 100
  BY ONLY <1>1, 10050 \in Nat, Quotients
<1>4. 10050 \div 100 = 100
  OBVIOUS
<1>5. QED
  BY <1>2, <1>3, <1>4

\* Connecting a pixel, adding creatives, styles or audiences never lowers it.
THEOREM FixesNeverLowerTheScore ==
    ASSUME NEW f \in AccountFacts, NEW g \in AccountFacts, NEW d \in Scores,
           \A asset \in {"pixel", "remarketing", "lookalike"} : g[asset] => f[asset],
           f.creatives >= g.creatives, f.styles >= g.styles
    PROVE  AuditScore(f, d) >= AuditScore(g, d)
<1>1. TrackingScore(f) >= TrackingScore(g)
  BY DEF TrackingScore
<1>2. /\ f.creatives \in Nat /\ g.creatives \in Nat
      /\ f.styles \in Nat /\ g.styles \in Nat
  BY DEF AccountFacts
<1>3. /\ AtMost100(10 * f.creatives) >= AtMost100(10 * g.creatives)
      /\ AtMost100(20 * f.styles) >= AtMost100(20 * g.styles)
  BY <1>2, CapProperties
<1>4. /\ AtMost100(10 * f.creatives) \in 0..100 /\ AtMost100(10 * g.creatives) \in 0..100
      /\ AtMost100(20 * f.styles) \in 0..100 /\ AtMost100(20 * g.styles) \in 0..100
  BY <1>2, CapProperties
<1> DEFINE creative(x) == 7 * AtMost100(10 * x.creatives) + 3 * AtMost100(20 * x.styles)
           points(x) == Points(TrackingScore(x), CreativeScore(x), d.hygiene,
                               AudienceScore(x), d.sufficiency, d.structure)
<1>5. CreativeScore(f) >= CreativeScore(g)
  <2>1. creative(f) \in Nat /\ creative(g) \in Nat /\ creative(g) <= creative(f)
    <3> DEFINE a == AtMost100(10 * f.creatives)
               b == AtMost100(20 * f.styles)
               c == AtMost100(10 * g.creatives)
               e == AtMost100(20 * g.styles)
    <3>1. a \in 0..100 /\ b \in 0..100 /\ c \in 0..100 /\ e \in 0..100 /\ a >= c /\ b >= e
      BY <1>3, <1>4
    <3>2. creative(f) = 7 * a + 3 * b /\ creative(g) = 7 * c + 3 * e
      OBVIOUS
    <3> HIDE DEF a, b, c, e, creative
    <3>3. QED
      BY <3>1, <3>2
  <2>2. CreativeScore(f) = creative(f) \div 10 /\ CreativeScore(g) = creative(g) \div 10
    BY DEF CreativeScore
  <2> HIDE DEF creative
  <2>3. QED
    BY <2>1, <2>2, Quotients
<1>6. AudienceScore(f) >= AudienceScore(g)
  BY DEF AudienceScore
<1>7. points(f) \in Nat /\ points(g) \in Nat /\ points(g) <= points(f)
  <2>1. PICK h \in 0..100, s \in 0..100, r \in 0..100 :
          d.hygiene = h /\ d.sufficiency = s /\ d.structure = r
    BY DEF Scores
  <2>2. PICK t \in 0..100, c \in 0..100, a \in 0..100 :
          TrackingScore(f) = t /\ CreativeScore(f) = c /\ AudienceScore(f) = a
    BY FactScores
  <2>3. PICK u \in 0..100, v \in 0..100, w \in 0..100 :
          TrackingScore(g) = u /\ CreativeScore(g) = v /\ AudienceScore(g) = w
    BY FactScores
  <2>4. u <= t /\ v <= c /\ w <= a
    BY <1>1, <1>5, <1>6, <2>2, <2>3
  <2>5. points(f) = Points(t, c, h, a, s, r) /\ points(g) = Points(u, v, h, w, s, r)
    BY <2>1, <2>2, <2>3
  <2>6. Points(u, v, h, w, s, r) <= Points(t, c, h, a, s, r)
    BY <2>4 DEF Points
  <2> HIDE DEF points
  <2>7. QED
    BY <2>5, <2>6 DEF Points
<1>8. AuditScore(f, d) = points(f) \div 100 /\ AuditScore(g, d) = points(g) \div 100
  BY DEF AuditScore, Points
<1> HIDE DEF points
<1>9. QED
  BY <1>7, <1>8, Quotients

-----------------------------------------------------------------------------
(* The decision of a split test.                                           *)

LEMMA RatesAreOrdered ==
    ASSUME NEW a \in Variant, NEW b \in Variant, RateBelow(a, b)
    PROVE  ~RateBelow(b, a)
<1> DEFINE x == a.successes * b.trials
           y == b.successes * a.trials
<1>1. x \in Nat /\ y \in Nat
  BY DEF Variant
<1>2. CASE a.trials = 0 \/ b.trials = 0
  BY <1>2 DEF RateBelow, Variant
<1>3. CASE a.trials # 0 /\ b.trials # 0
  <2>1. x < y
    BY <1>3 DEF RateBelow
  <2>2. RateBelow(b, a) => y < x
    BY <1>3 DEF RateBelow
  <2> HIDE DEF x, y
  <2>3. QED
    BY <1>1, <2>1, <2>2
<1>4. QED
  BY <1>2, <1>3

\* The order in which the variants are named decides nothing.
LEMMA ControlOfBoth ==
    ASSUME NEW a \in Variant, NEW b \in Variant, a.id # b.id
    PROVE  /\ Control(a, b) = Control(b, a) /\ Challenger(a, b) = Challenger(b, a)
           /\ Control(a, b) # Challenger(a, b)
           /\ ~RateBelow(Challenger(a, b), Control(a, b))
<1>1. a.id \in Nat /\ b.id \in Nat /\ a # b
  BY DEF Variant
<1>2. a.id <= b.id <=> ~(b.id <= a.id)
  BY <1>1
<1>3. ~(RateBelow(a, b) /\ RateBelow(b, a))
  BY RatesAreOrdered
<1>4. Control(a, b) = Control(b, a)
  BY <1>2, <1>3 DEF Control, SameRate
<1>5. Control(a, b) \in {a, b}
  BY DEF Control
<1>6. Challenger(a, b) = Challenger(b, a) /\ Control(a, b) # Challenger(a, b)
  BY <1>1, <1>4, <1>5 DEF Challenger
<1>7. ~RateBelow(Challenger(a, b), Control(a, b))
  BY <1>1, <1>3 DEF Control, Challenger, SameRate
<1>8. QED
  BY <1>4, <1>6, <1>7

\* A difference in rates that is significant is a difference in rates.
LEMMA SignificantDiffers ==
    ASSUME NEW v \in Variant, NEW w \in Variant, Significant(v, w)
    PROVE  ~SameRate(v, w)
<1> DEFINE n == v.trials + w.trials
           s == v.successes + w.successes
           x == v.successes * w.trials
           y == w.successes * v.trials
           k == v.trials * w.trials
<1>1. /\ v.trials > 0 /\ w.trials > 0 /\ s > 0 /\ s < n
      /\ 10 * ((10 * (y - x) * (y - x)) \div k) * n > 384 * s * (n - s)
  BY DEF Significant
<1>2. x \in Nat /\ y \in Nat /\ n \in Nat /\ s \in Nat
  BY DEF Variant
<1>3. k \in Nat \ {0}
  BY <1>1 DEF Variant
<1>4. SameRate(v, w) => ~(x < y) /\ ~(y < x)
  BY <1>1 DEF SameRate, RateBelow, Variant
<1> HIDE DEF n, s, x, y, k
<1>5. SUFFICES ASSUME x = y PROVE FALSE
  BY <1>2, <1>4
<1>6. (10 * (y - x) * (y - x)) \div k = 0
  <2>1. 10 * (y - x) * (y - x) = 0
    BY <1>2, <1>5
  <2>2. 0 \div k = 0
    BY <1>3
  <2>3. QED
    BY <2>1, <2>2
<1>7. 384 * s * (n - s) \in Nat
  <2>1. n - s \in Nat /\ 384 * s \in Nat
    BY <1>1, <1>2
  <2>2. \A p, q \in Nat : p * q \in Nat
    OBVIOUS
  <2>3. QED
    BY <2>1, <2>2
<1>8. 10 * 0 * n = 0
  BY <1>2
<1>9. QED
  BY <1>1, <1>6, <1>7, <1>8

\* A split test that is decided is decided for the variant with the higher rate, and
\* for the same one whichever variant comes first (evaluateAbTest).
THEOREM WinnerHasTheHigherRate ==
    ASSUME NEW a \in Variant, NEW b \in Variant, a.id # b.id
    PROVE  /\ EvaluateAbTest(a, b).sufficient = EvaluateAbTest(b, a).sufficient
           /\ EvaluateAbTest(a, b).variant = EvaluateAbTest(b, a).variant
           /\ EvaluateAbTest(a, b).decided = EvaluateAbTest(b, a).decided
           /\ EvaluateAbTest(a, b).decided =>
                \/ EvaluateAbTest(a, b).variant = b.id /\ RateBelow(a, b)
                \/ EvaluateAbTest(a, b).variant = a.id /\ RateBelow(b, a)
<1>1. /\ Control(a, b) = Control(b, a) /\ Challenger(a, b) = Challenger(b, a)
      /\ Control(a, b) # Challenger(a, b)
      /\ ~RateBelow(Challenger(a, b), Control(a, b))
  BY ControlOfBoth
<1>2. /\ Control(a, b) \in {a, b} /\ Challenger(a, b) \in {a, b}
  BY DEF Control, Challenger
<1>3. SufficientSample(a, b) = SufficientSample(b, a)
  <2>1. a.successes + b.successes = b.successes + a.successes
    BY DEF Variant
  <2>2. QED
    BY <2>1 DEF SufficientSample
<1>4. Significant(Control(a, b), Challenger(a, b)) => RateBelow(Control(a, b), Challenger(a, b))
  <2>1. Control(a, b) \in Variant /\ Challenger(a, b) \in Variant
    BY <1>2
  <2>2. QED
    BY <1>1, <2>1, SignificantDiffers DEF SameRate
<1>5. /\ EvaluateAbTest(a, b).sufficient = SufficientSample(a, b)
      /\ EvaluateAbTest(a, b).variant = Challenger(a, b).id
      /\ EvaluateAbTest(a, b).decided =
           (SufficientSample(a, b) /\ Significant(Control(a, b), Challenger(a, b)))
  BY DEF EvaluateAbTest
<1>6. /\ EvaluateAbTest(b, a).sufficient = SufficientSample(b, a)
      /\ EvaluateAbTest(b, a).variant = Challenger(b, a).id
      /\ EvaluateAbTest(b, a).decided =
           (SufficientSample(b, a) /\ Significant(Control(b, a), Challenger(b, a)))
  BY DEF EvaluateAbTest
<1>7. QED
  BY <1>1, <1>2, <1>3, <1>4, <1>5, <1>6

-----------------------------------------------------------------------------
(* Budget tiers.                                                           *)

\* The shares of a tier add up to the whole budget, except above 500 for a client without
\* any audience to remarket to: there a fifth of the budget is given to no layer. Layers
\* for people who know the client are there only for a client who has such people
\* (recommendBudgetTier).
THEOREM SharesOfATier ==
    ASSUME NEW budget \in Nat, NEW stats \in [Sources \cup Seeds -> Nat]
    PROVE  LET tier == RecommendBudgetTier(budget, stats)
           IN  /\ ShareSpent(tier) = IF budget > 500 /\ ~CanRemarket(stats) THEN 80 ELSE 100
               /\ \A name \in DOMAIN tier.layers :
                    tier.layers[name].stage # "TOF" => CanRemarket(stats) /\ budget >= 100
<1>1. CASE budget < 100
  BY <1>1 DEF RecommendBudgetTier, ShareSpent, Share, Layer
<1>2. CASE budget >= 100 /\ budget <= 500 /\ CanRemarket(stats)
  BY <1>2 DEF RecommendBudgetTier, ShareSpent, Share, Layer
<1>3. CASE budget >= 100 /\ budget <= 500 /\ ~CanRemarket(stats)
  BY <1>3 DEF RecommendBudgetTier, ShareSpent, Share, Layer
<1>4. CASE budget > 500 /\ CanRemarket(stats)
  BY <1>4 DEF RecommendBudgetTier, ShareSpent, Share, Layer
<1>5. CASE budget > 500 /\ ~CanRemarket(stats)
  BY <1>5 DEF RecommendBudgetTier, ShareSpent, Share, Layer
<1>6. QED
  BY <1>1, <1>2, <1>3, <1>4, <1>5

-----------------------------------------------------------------------------
(* Where figures are filed.                                                *)

LEMMA RecentPast ==
    ASSUME TypeOK, NEW window \in Nat, NEW p \in Recent(window)
    PROVE  p \in 1..day /\ p \in Days
<1>1. MaxDay \in Nat /\ day \in 0..MaxDay
  BY InsightsAssumption DEF TypeOK
<1>2. p \in 1..MaxDay /\ p <= day
  BY DEF Recent, Days
<1>3. QED
  BY <1>1, <1>2 DEF Days

LEMMA IdleJob == Idle \in [pc : {"idle", "asked"}, answer : Answers, fresh : BOOLEAN]
  BY DEF Idle, Answers

\* The entity of a tree that somebody built.
LEMMA EntityType ==
    ASSUME Typed, Owned, NEW t \in Trees, owner[t] # None
    PROVE  EntityOf(t) \in Entities /\ Filed(EntityOf(t), [tree |-> t, result |-> None], owner, campaign)
<1> DEFINE row == [tree |-> t, result |-> None]
<1>0. row.tree = t /\ Campaigns \cap Trees = {} /\ None \notin Trees
  BY InsightsAssumption
<1> HIDE DEF row
<1>1. CASE \E c \in Campaigns : campaign[c].tree = t
  <2>1. EntityOf(t) \in Campaigns /\ campaign[EntityOf(t)].tree = t
    BY <1>1 DEF EntityOf
  <2>2. owner[t] = EntityOf(t)
    BY <1>0, <2>1 DEF Owned
  <2>3. EntityOf(t) \notin Trees
    BY <1>0, <2>1
  <2>4. QED
    BY <1>0, <2>1, <2>2, <2>3 DEF Filed, Entities, row
<1>2. CASE ~ \E c \in Campaigns : campaign[c].tree = t
  <2>1. EntityOf(t) = t
    BY <1>2 DEF EntityOf
  <2>2. owner[t] \in Campaigns => campaign[owner[t]].tree # t
    BY <1>2
  <2>3. QED
    BY <1>0, <2>1, <2>2 DEF Filed, Entities, row
<1>3. QED
  BY <1>1, <1>2

\* What an upsert leaves in the rows.
LEMMA Upserted ==
    ASSUME Typed, Owned, NEW figures \in Answers, \A f \in figures : owner[f.tree] # None
    PROVE  /\ Upsert(figures) \in
                [Entities -> [Days -> [tree : Trees, result : Results] \cup {None}]]
           /\ \A x \in Entities, p \in Days :
                \/ Upsert(figures)[x][p] = rows[x][p]
                \/ Filed(x, Upsert(figures)[x][p], owner, campaign)
<1> DEFINE new == Upsert(figures)
           Has(x, p) == \E f \in figures : EntityOf(f.tree) = x /\ f.day = p
           The(x, p) == CHOOSE f \in figures : EntityOf(f.tree) = x /\ f.day = p
<1>1. \A x \in Entities, p \in Days :
        new[x][p] = IF Has(x, p) THEN [tree |-> The(x, p).tree, result |-> The(x, p).result]
                    ELSE rows[x][p]
  BY DEF Upsert
<1>2. new = [x \in Entities |-> [p \in Days |-> new[x][p]]]
  BY DEF Upsert
<1>3. ASSUME NEW x \in Entities, NEW p \in Days, Has(x, p)
      PROVE  The(x, p) \in figures /\ EntityOf(The(x, p).tree) = x
  BY <1>3
<1> HIDE DEF new, Has, The
<1>4. ASSUME NEW x \in Entities, NEW p \in Days
      PROVE  /\ new[x][p] \in [tree : Trees, result : Results] \cup {None}
             /\ new[x][p] = rows[x][p] \/ Filed(x, new[x][p], owner, campaign)
  <2>1. CASE Has(x, p)
    <3>1. /\ The(x, p) \in figures /\ EntityOf(The(x, p).tree) = x
          /\ The(x, p).tree \in Trees /\ The(x, p).result \in Results
      BY <1>3, <2>1 DEF Answers
    <3>2. new[x][p] = [tree |-> The(x, p).tree, result |-> The(x, p).result]
      BY <1>1, <2>1
    <3>3. Filed(x, [tree |-> The(x, p).tree, result |-> None], owner, campaign)
      BY <3>1, EntityType
    <3>4. QED
      BY <3>1, <3>2, <3>3 DEF Filed
  <2>2. CASE ~Has(x, p)
    <3>1. rows \in [Entities -> [Days -> [tree : Trees, result : Results] \cup {None}]]
      BY DEF Typed, TypeOK
    <3>2. QED
      BY <1>1, <2>2, <3>1
  <2>3. QED
    BY <2>1, <2>2
<1>5. new \in [Entities -> [Days -> [tree : Trees, result : Results] \cup {None}]]
  BY <1>2, <1>4
<1>6. QED
  BY <1>4, <1>5 DEF new

-----------------------------------------------------------------------------
(* The invariant is inductive.                                             *)

LEMMA SyncInit == Init => SyncInvariant
<1> SUFFICES ASSUME Init PROVE SyncInvariant
  OBVIOUS
<1>1. /\ \A c \in Campaigns : campaign[c].status = "DRAFT" /\ campaign[c].tree = None
      /\ campaign \in [Campaigns -> [status : Statuses, tree : Trees \cup {None}]]
  BY DEF Init, Statuses
<1>2. MaxDay \in Nat
  BY InsightsAssumption
<1>3. job \in [Workers -> [pc : {"idle", "asked"}, answer : Answers, fresh : BOOLEAN]]
  BY IdleJob DEF Init
<1>4. \A w \in Workers : job[w] = Idle /\ job[w].answer = {} /\ job[w].pc = "idle"
                          /\ job[w].fresh = FALSE
  BY DEF Init, Idle
<1>5. TypeOK
  <2>1. day \in 0..MaxDay /\ owner \in [Trees -> Campaigns \cup {Outside, None}]
    BY <1>2 DEF Init
  <2>2. reported \in [Trees -> [Days -> Results \cup {None}]]
    BY DEF Init
  <2>3. rows \in [Entities -> [Days -> [tree : Trees, result : Results] \cup {None}]]
    BY DEF Init
  <2>4. serving = {} /\ upToDate \in BOOLEAN
    BY DEF Init
  <2>5. QED
    BY <1>1, <1>4, <2>1, <2>2, <2>3, <2>4 DEF TypeOK
<1>6. Owned
  BY <1>1, <1>4 DEF Init, Owned
<1>7. \A x \in Entities, p \in Days : rows[x][p] = None
  BY DEF Init
<1>8. QED
  BY <1>3, <1>5, <1>6, <1>7 DEF SyncInvariant, Typed

\* Rows stay where they belong: a tree keeps the one who built it, and an abandoned
\* tree is never pointed at again.
LEMMA FiledStays ==
    ASSUME NEW x \in Entities, NEW t \in Trees, NEW row, row.tree = t,
           Filed(x, row, owner, campaign),
           owner[t] # None => owner'[t] = owner[t],
           Abandoned(t) => Abandoned(t)'
    PROVE  Filed(x, row, owner', campaign')
<1>1. None \notin Campaigns
  BY InsightsAssumption
<1>2. owner[t] # None
  BY <1>1 DEF Filed, Entities
<1>3. QED
  BY <1>2 DEF Filed, Abandoned

\* Steps that file nothing: the figures they may add are of trees that somebody built.
LEMMA NothingFiled ==
    ASSUME SyncInvariant, Typed', Owned', UNCHANGED rows,
           \A t \in Trees : owner[t] # None => owner'[t] = owner[t],
           \A t \in Trees : Abandoned(t) => Abandoned(t)'
    PROVE  SyncInvariant'
<1>1. ASSUME NEW x \in Entities, NEW p \in Days, rows'[x][p] # None
      PROVE  Filed(x, rows'[x][p], owner', campaign')
  <2>1. /\ Filed(x, rows[x][p], owner, campaign)
        /\ rows[x][p] \in [tree : Trees, result : Results]
    BY <1>1 DEF SyncInvariant, Typed, TypeOK
  <2>2. QED
    BY <2>1, FiledStays
<1>2. QED
  BY <1>1 DEF SyncInvariant

\* Answers that are no longer what Meta says.
LEMMA ChangeType ==
    ASSUME Typed, MetaChanged, day' \in Nat, day <= day'
    PROVE  /\ job' \in [Workers -> [pc : {"idle", "asked"}, answer : Answers', fresh : BOOLEAN]]
           /\ \A w \in Workers : job'[w].answer = job[w].answer
           /\ upToDate' \in BOOLEAN
<1>1. day \in Nat
  BY InsightsAssumption DEF Typed, TypeOK
<1>2. Answers \subseteq Answers'
  BY <1>1 DEF Answers
<1>3. ASSUME NEW w \in Workers
      PROVE  /\ job'[w] \in [pc : {"idle", "asked"}, answer : Answers', fresh : BOOLEAN]
             /\ job'[w].answer = job[w].answer
  <2>1. job[w] \in [pc : {"idle", "asked"}, answer : Answers, fresh : BOOLEAN]
    BY DEF Typed
  <2>2. job'[w] = [job[w] EXCEPT !.fresh = FALSE]
    BY DEF MetaChanged
  <2>3. QED
    BY <1>2, <2>1, <2>2
<1>4. job' = [w \in Workers |-> job'[w]]
  BY DEF MetaChanged
<1>5. QED
  BY <1>3, <1>4 DEF MetaChanged

\* The jobs of a well-typed state, one by one.
LEMMA JobsType ==
    ASSUME job' \in [Workers -> [pc : {"idle", "asked"}, answer : Answers', fresh : BOOLEAN]]
    PROVE  \A w \in Workers :
             /\ job'[w].pc \in {"idle", "asked"} /\ job'[w].fresh \in BOOLEAN
             /\ job'[w].answer \subseteq [tree : Trees, day : 1..day', result : Results]
  BY DEF Answers

LEMMA PublishKeeps ==
    ASSUME SyncInvariant, NEW c \in Campaigns, NEW t \in Trees, Publish(c, t)
    PROVE  SyncInvariant'
<1>0. /\ Typed /\ Owned /\ owner \in [Trees -> Campaigns \cup {Outside, None}]
      /\ serving \subseteq {u \in Trees : owner[u] # None}
      /\ campaign \in [Campaigns -> [status : Statuses, tree : Trees \cup {None}]]
      /\ None \notin Campaigns
  BY InsightsAssumption DEF SyncInvariant, Typed, TypeOK
<1>1. /\ owner[t] = None /\ owner' = [owner EXCEPT ![t] = c]
      /\ serving' \subseteq serving \cup {t}
      /\ UNCHANGED <<day, reported, rows, job, upToDate>>
  BY DEF Publish
<1>2. PICK status \in {"PUBLISHED", "ERROR"} :
        campaign' = [campaign EXCEPT ![c] = [status |-> status, tree |-> t]]
  BY DEF Publish
<1>3. /\ owner' \in [Trees -> Campaigns \cup {Outside, None}]
      /\ owner'[t] = c /\ \A u \in Trees : u # t => owner'[u] = owner[u]
  BY <1>0, <1>1
<1>4. /\ campaign' \in [Campaigns -> [status : Statuses, tree : Trees \cup {None}]]
      /\ campaign'[c].tree = t
      /\ \A d \in Campaigns : d # c => campaign'[d] = campaign[d]
  BY <1>0, <1>2 DEF Statuses
<1>5. serving' \subseteq {u \in Trees : owner'[u] # None}
  BY <1>0, <1>1, <1>3
<1>6. TypeOK'
  BY <1>0, <1>1, <1>3, <1>4, <1>5 DEF Typed, TypeOK
<1>7. Typed'
  BY <1>0, <1>1, <1>6 DEF Typed, Answers
<1>8. Owned'
  <2>1. ASSUME NEW d \in Campaigns, campaign'[d].tree # None
        PROVE  owner'[campaign'[d].tree] = d
    <3>1. CASE d = c
      BY <1>3, <1>4, <3>1
    <3>2. CASE d # c
      <4>1. campaign'[d] = campaign[d] /\ owner[campaign[d].tree] = d
        BY <1>0, <1>4, <2>1, <3>2 DEF Owned
      <4>2. campaign[d].tree # t /\ campaign[d].tree \in Trees
        BY <1>0, <1>1, <2>1, <4>1
      <4>3. QED
        BY <1>3, <4>1, <4>2
    <3>3. QED
      BY <3>1, <3>2
  <2>2. \A u \in Trees : owner[u] # None => owner'[u] # None
    BY <1>0, <1>1, <1>3
  <2>3. ASSUME NEW w \in Workers, NEW f \in job'[w].answer
        PROVE  owner'[f.tree] # None
    <3>1. f \in job[w].answer /\ f.tree \in Trees
      BY <1>0, <1>1, <2>3 DEF Typed, Answers
    <3>2. QED
      BY <1>0, <2>2, <3>1 DEF Owned
  <2>4. QED
    BY <1>0, <1>1, <2>1, <2>2, <2>3 DEF Owned
<1>9. \A u \in Trees : /\ owner[u] # None => owner'[u] = owner[u]
                       /\ Abandoned(u) => Abandoned(u)'
  BY <1>0, <1>1, <1>3, <1>4 DEF Abandoned
<1>10. QED
  BY <1>1, <1>7, <1>8, <1>9, NothingFiled

LEMMA StartOutsideKeeps ==
    ASSUME SyncInvariant, NEW t \in Trees, StartOutside(t)
    PROVE  SyncInvariant'
<1>0. /\ Typed /\ Owned /\ owner \in [Trees -> Campaigns \cup {Outside, None}]
      /\ serving \subseteq {u \in Trees : owner[u] # None}
      /\ campaign \in [Campaigns -> [status : Statuses, tree : Trees \cup {None}]]
      /\ None \notin Campaigns /\ None # Outside /\ Outside \notin Campaigns
  BY InsightsAssumption DEF SyncInvariant, Typed, TypeOK
<1>1. /\ owner[t] = None /\ owner' = [owner EXCEPT ![t] = Outside]
      /\ serving' = serving \cup {t}
      /\ UNCHANGED <<day, campaign, reported, rows, job, upToDate>>
  BY DEF StartOutside
<1>2. /\ owner' \in [Trees -> Campaigns \cup {Outside, None}]
      /\ owner'[t] = Outside /\ \A u \in Trees : u # t => owner'[u] = owner[u]
  BY <1>0, <1>1
<1>3. serving' \subseteq {u \in Trees : owner'[u] # None}
  BY <1>0, <1>1, <1>2
<1>4. TypeOK'
  BY <1>0, <1>1, <1>2, <1>3 DEF Typed, TypeOK
<1>5. Typed'
  BY <1>0, <1>1, <1>4 DEF Typed, Answers
<1>6. \A u \in Trees : /\ owner[u] # None => owner'[u] = owner[u]
                       /\ Abandoned(u) => Abandoned(u)'
  BY <1>0, <1>1, <1>2 DEF Abandoned
<1>7. Owned'
  <2>1. \A c \in Campaigns : campaign[c].tree # None =>
          campaign[c].tree \in Trees /\ owner[campaign[c].tree] # None
    BY <1>0 DEF Owned
  <2>2. \A w \in Workers : \A f \in job[w].answer : f.tree \in Trees
    BY <1>0 DEF Typed, Answers
  <2>3. QED
    BY <1>0, <1>1, <1>6, <2>1, <2>2 DEF Owned
<1>8. QED
  BY <1>1, <1>5, <1>6, <1>7, NothingFiled

\* A campaign that is paused or removed.
LEMMA WithdrawKeeps ==
    ASSUME SyncInvariant, NEW c \in Campaigns, Pause(c) \/ Remove(c)
    PROVE  SyncInvariant'
<1>0. /\ Typed /\ Owned
      /\ serving \subseteq {u \in Trees : owner[u] # None}
      /\ campaign \in [Campaigns -> [status : Statuses, tree : Trees \cup {None}]]
      /\ None \notin Trees
  BY InsightsAssumption DEF SyncInvariant, Typed, TypeOK
<1>1. /\ serving' \subseteq serving
      /\ UNCHANGED <<day, owner, reported, rows, job, upToDate>>
  BY DEF Pause, Remove
<1>2. /\ campaign' \in [Campaigns -> [status : Statuses, tree : Trees \cup {None}]]
      /\ \A d \in Campaigns : campaign'[d].tree \in {campaign[d].tree, None}
  <2>1. CASE Pause(c)
    BY <1>0, <2>1 DEF Pause, Statuses
  <2>2. CASE Remove(c)
    BY <1>0, <2>2 DEF Remove, Statuses
  <2>3. QED
    BY <2>1, <2>2
<1>3. TypeOK'
  BY <1>0, <1>1, <1>2 DEF Typed, TypeOK
<1>4. Typed'
  BY <1>0, <1>1, <1>3 DEF Typed, Answers
<1>5. Owned'
  BY <1>0, <1>1, <1>2 DEF Owned
<1>6. \A u \in Trees : Abandoned(u) => Abandoned(u)'
  BY <1>0, <1>1, <1>2 DEF Abandoned
<1>7. QED
  BY <1>1, <1>4, <1>5, <1>6, NothingFiled

\* Meta has new figures, of trees that serve or served.
LEMMA FiguresKeep ==
    ASSUME SyncInvariant, Deliver \/ (\E t \in Trees : Restate(t))
    PROVE  SyncInvariant'
<1>0. /\ Typed /\ TypeOK /\ Owned /\ day \in 0..MaxDay /\ MaxDay \in Nat
      /\ serving \subseteq {u \in Trees : owner[u] # None}
      /\ reported \in [Trees -> [Days -> Results \cup {None}]]
      /\ None \notin Results
  BY InsightsAssumption DEF SyncInvariant, Typed, TypeOK
<1>1. MetaChanged /\ UNCHANGED <<owner, serving, campaign, rows>>
  BY DEF Deliver, Restate
<1>2. /\ day' \in 0..MaxDay /\ day <= day'
      /\ reported' \in [Trees -> [Days -> Results \cup {None}]]
      /\ \A t \in Trees, p \in Days : reported'[t][p] # None => owner[t] # None
  <2>1. CASE Deliver
    <3>1. PICK achieved \in [serving -> Results] :
            reported' = [t \in Trees |-> IF t \in serving
                           THEN [reported[t] EXCEPT ![day + 1] = achieved[t]]
                           ELSE reported[t]]
      BY <2>1 DEF Deliver
    <3>2. day' = day + 1 /\ day < MaxDay
      BY <2>1 DEF Deliver
    <3>3. \A t \in Trees : reported'[t] \in [Days -> Results \cup {None}]
      BY <1>0, <3>1
    <3>4. \A t \in Trees, p \in Days : reported'[t][p] # None => owner[t] # None
      BY <1>0, <3>1 DEF Owned
    <3>5. QED
      BY <1>0, <3>1, <3>2, <3>3, <3>4
  <2>2. ASSUME NEW t \in Trees, Restate(t)
        PROVE  /\ day' = day
               /\ reported' \in [Trees -> [Days -> Results \cup {None}]]
               /\ \A u \in Trees, p \in Days : reported'[u][p] # None => owner[u] # None
    <3>1. PICK r \in Results : /\ <<reported[t][day], r>> \in Corrections
                               /\ reported' = [reported EXCEPT ![t][day] = r]
      BY <2>2 DEF Restate
    <3>2. day > 0 /\ day' = day /\ day \in Days
      BY <1>0, <2>2 DEF Restate, Days
    <3>3. reported[t][day] # None
      BY <1>0, <3>1, InsightsAssumption
    <3>4. owner[t] # None
      BY <1>0, <3>2, <3>3 DEF Owned
    <3>5. /\ \A u \in Trees : u # t => reported'[u] = reported[u]
          /\ reported' \in [Trees -> [Days -> Results \cup {None}]]
      BY <1>0, <3>1, <3>2
    <3>6. QED
      BY <1>0, <3>2, <3>4, <3>5 DEF Owned
  <2>3. QED
    BY <1>0, <2>1, <2>2
<1>3. /\ job' \in [Workers -> [pc : {"idle", "asked"}, answer : Answers', fresh : BOOLEAN]]
      /\ \A w \in Workers : job'[w].answer = job[w].answer
      /\ upToDate' \in BOOLEAN
  BY <1>0, <1>1, <1>2, ChangeType
<1>4. TypeOK'
  <2>1. \A w \in Workers :
          /\ job'[w].pc \in {"idle", "asked"} /\ job'[w].fresh \in BOOLEAN
          /\ job'[w].answer \subseteq [tree : Trees, day : 1..day', result : Results]
    BY <1>3, JobsType
  <2>2. QED
    BY <1>0, <1>1, <1>2, <1>3, <2>1 DEF TypeOK
<1>5. Typed'
  BY <1>3, <1>4 DEF Typed
<1>6. Owned'
  BY <1>0, <1>1, <1>2, <1>3 DEF Owned
<1>7. \A u \in Trees : Abandoned(u) => Abandoned(u)'
  BY <1>1 DEF Abandoned
<1>8. QED
  BY <1>1, <1>5, <1>6, <1>7, NothingFiled

LEMMA AskKeeps ==
    ASSUME SyncInvariant, NEW w \in Workers, Ask(w)
    PROVE  SyncInvariant'
<1>0. /\ Typed /\ TypeOK /\ Owned
      /\ reported \in [Trees -> [Days -> Results \cup {None}]]
      /\ SyncWindow \in Nat
  BY InsightsAssumption DEF SyncInvariant, Typed, TypeOK
<1>1. PICK page \in SUBSET MetaFigures :
        job' = [job EXCEPT ![w] = [pc |-> "asked", fresh |-> TRUE,
                  answer |-> {[tree |-> f[1], day |-> f[2],
                               result |-> reported[f[1]][f[2]]] : f \in page}]]
  BY DEF Ask
<1> DEFINE answer == {[tree |-> f[1], day |-> f[2], result |-> reported[f[1]][f[2]]] : f \in page}
<1>2. UNCHANGED <<day, owner, serving, campaign, reported, rows, upToDate>>
  BY DEF Ask
<1>3. ASSUME NEW f \in page
      PROVE  /\ f[1] \in Trees /\ f[2] \in 1..day /\ reported[f[1]][f[2]] \in Results
             /\ owner[f[1]] # None
  <2>1. f[1] \in Trees /\ f[2] \in Recent(SyncWindow) /\ reported[f[1]][f[2]] # None
    BY DEF MetaFigures
  <2>2. f[2] \in 1..day /\ f[2] \in Days
    BY <1>0, <2>1, RecentPast
  <2>3. QED
    BY <1>0, <2>1, <2>2 DEF Owned
<1>4. answer \in Answers /\ \A f \in answer : owner[f.tree] # None
  BY <1>3 DEF Answers
<1>5. job' = [job EXCEPT ![w] = [pc |-> "asked", fresh |-> TRUE, answer |-> answer]]
  BY <1>1
<1> HIDE DEF answer
<1>6. [pc |-> "asked", fresh |-> TRUE, answer |-> answer]
        \in [pc : {"idle", "asked"}, answer : Answers, fresh : BOOLEAN]
  BY <1>4
<1>7. /\ job' \in [Workers -> [pc : {"idle", "asked"}, answer : Answers, fresh : BOOLEAN]]
      /\ job'[w].answer = answer /\ \A v \in Workers : v # w => job'[v] = job[v]
  BY <1>0, <1>5, <1>6 DEF Typed
<1>8. Answers' = Answers
  BY <1>2 DEF Answers
<1>9. TypeOK'
  <2>1. \A v \in Workers :
          /\ job'[v].pc \in {"idle", "asked"} /\ job'[v].fresh \in BOOLEAN
          /\ job'[v].answer \subseteq [tree : Trees, day : 1..day', result : Results]
    BY <1>7, <1>8, JobsType
  <2>2. QED
    BY <1>0, <1>2, <2>1 DEF TypeOK
<1>10. Typed'
  BY <1>7, <1>8, <1>9 DEF Typed
<1>11. Owned'
  BY <1>0, <1>2, <1>4, <1>7 DEF Owned
<1>12. \A u \in Trees : Abandoned(u) => Abandoned(u)'
  BY <1>2 DEF Abandoned
<1>13. QED
  BY <1>2, <1>10, <1>11, <1>12, NothingFiled

\* All figures of an answer are filed, or some of them.
LEMMA StoreKeeps ==
    ASSUME SyncInvariant, NEW w \in Workers, Store(w) \/ StoreBreaks(w)
    PROVE  SyncInvariant'
<1>0. /\ Typed /\ TypeOK /\ Owned
      /\ job[w] \in [pc : {"idle", "asked"}, answer : Answers, fresh : BOOLEAN]
  BY DEF SyncInvariant, Typed
<1>1. PICK figures \in SUBSET job[w].answer : rows' = Upsert(figures)
  BY DEF Store, StoreBreaks
<1>2. /\ job' = [job EXCEPT ![w] = Idle] /\ upToDate' \in BOOLEAN
      /\ UNCHANGED <<day, owner, serving, campaign, reported>>
  BY <1>0 DEF Store, StoreBreaks
<1>3. figures \in Answers /\ \A f \in figures : owner[f.tree] # None
  BY <1>0 DEF Answers, Owned
<1>4. /\ rows' \in [Entities -> [Days -> [tree : Trees, result : Results] \cup {None}]]
      /\ \A x \in Entities, p \in Days :
           rows'[x][p] = rows[x][p] \/ Filed(x, rows'[x][p], owner, campaign)
  BY <1>0, <1>1, <1>3, Upserted
<1>5. Answers' = Answers
  BY <1>2 DEF Answers
<1>6. /\ job' \in [Workers -> [pc : {"idle", "asked"}, answer : Answers, fresh : BOOLEAN]]
      /\ job'[w].answer = {} /\ \A v \in Workers : v # w => job'[v] = job[v]
  BY <1>0, <1>2, IdleJob DEF Typed, Idle
<1>7. TypeOK'
  <2>1. \A v \in Workers :
          /\ job'[v].pc \in {"idle", "asked"} /\ job'[v].fresh \in BOOLEAN
          /\ job'[v].answer \subseteq [tree : Trees, day : 1..day', result : Results]
    BY <1>5, <1>6, JobsType
  <2>2. QED
    BY <1>0, <1>2, <1>4, <2>1 DEF TypeOK
<1>8. Typed'
  BY <1>5, <1>6, <1>7 DEF Typed
<1>9. Owned'
  BY <1>0, <1>2, <1>6 DEF Owned
<1>10. ASSUME NEW x \in Entities, NEW p \in Days, rows'[x][p] # None
       PROVE  Filed(x, rows'[x][p], owner', campaign')
  BY <1>2, <1>4, <1>10 DEF SyncInvariant
<1>11. QED
  BY <1>8, <1>9, <1>10 DEF SyncInvariant

LEMMA SyncAlways == Spec => []SyncInvariant
<1>1. ASSUME SyncInvariant, [Next]_vars
      PROVE  SyncInvariant'
  <2>1. CASE UNCHANGED vars
    BY <1>1, <2>1 DEF vars, SyncInvariant, Typed, TypeOK, Answers, Owned
  <2>2. CASE Next
    BY <1>1, <2>2, PublishKeeps, StartOutsideKeeps, WithdrawKeeps, FiguresKeep, AskKeeps,
       StoreKeeps DEF Next
  <2>3. QED
    BY <1>1, <2>1, <2>2
<1>2. QED
  BY <1>1, SyncInit, PTL DEF Spec

-----------------------------------------------------------------------------
(* What follows.                                                           *)

\* Snapshots, answers and campaigns have their types, and a sync only ever holds
\* figures of days that are over (SyncService.runSync).
THEOREM SyncTypes == Spec => []TypeOK
<1>1. SyncInvariant => TypeOK
  BY DEF SyncInvariant, Typed
<1>2. QED
  BY <1>1, SyncAlways, PTL

\* However syncs, publishes, restatements and work in Ads Manager interleave, the same
\* figures are filed twice only for a tree that its campaign has abandoned
\* (runSync maps by metaCampaignId).
THEOREM CountedOnceAlways == Spec => []CountedOnce
<1>1. ASSUME SyncInvariant
      PROVE  CountedOnce
  <2>1. ASSUME NEW x \in Entities, NEW y \in Entities, NEW p \in Days,
               rows[x][p] # None, rows[y][p] # None, x # y,
               rows[x][p].tree = rows[y][p].tree
        PROVE  Abandoned(rows[x][p].tree)
    <3>1. /\ Filed(x, rows[x][p], owner, campaign) /\ Filed(y, rows[y][p], owner, campaign)
          /\ Campaigns \cap Trees = {}
      BY <1>1, <2>1, InsightsAssumption DEF SyncInvariant
    <3>2. QED
      BY <2>1, <3>1 DEF Filed, Entities, Abandoned
  <2>2. QED
    BY <2>1 DEF CountedOnce
<1>2. QED
  BY <1>1, SyncAlways, PTL

-----------------------------------------------------------------------------
(* The overview.                                                           *)

\* The entity of a tree depends on who built it alone, as long as the campaign that did
\* points at it.
Place(t, points) ==
    IF \E c \in Campaigns : points[c].tree = t
    THEN CHOOSE c \in Campaigns : points[c].tree = t
    ELSE t

LEMMA PlaceOfOwned ==
    ASSUME NEW built, NEW points, NEW t \in Trees,
           \A c \in Campaigns : points[c].tree # None => built[points[c].tree] = c,
           built[t] \in Campaigns => points[built[t]].tree = t
    PROVE  Place(t, points) = IF built[t] \in Campaigns THEN built[t] ELSE t
<1>0. \A c \in Campaigns : points[c].tree = t => built[t] = c
  BY InsightsAssumption
<1>1. CASE built[t] \in Campaigns
  <2>1. Place(t, points) \in Campaigns /\ points[Place(t, points)].tree = t
    BY <1>1 DEF Place
  <2>2. QED
    BY <1>0, <1>1, <2>1
<1>2. CASE built[t] \notin Campaigns
  <2>1. ~ \E c \in Campaigns : points[c].tree = t
    BY <1>0, <1>2
  <2>2. QED
    BY <1>2, <2>1 DEF Place
<1>3. QED
  BY <1>1, <1>2

LEMMA EntityOfOwned ==
    ASSUME Owned, NEW t \in Trees, ~Abandoned(t)
    PROVE  EntityOf(t) = IF owner[t] \in Campaigns THEN owner[t] ELSE t
<1>1. EntityOf(t) = Place(t, campaign)
  BY DEF EntityOf, Place
<1>2. /\ \A c \in Campaigns : campaign[c].tree # None => owner[campaign[c].tree] = c
      /\ owner[t] \in Campaigns => campaign[owner[t]].tree = t
  BY DEF Owned, Abandoned
<1>3. Place(t, campaign) = IF owner[t] \in Campaigns THEN owner[t] ELSE t
  BY <1>2, PlaceOfOwned
<1>4. QED
  BY <1>1, <1>3

LEMMA EntityOfOwnedNext ==
    ASSUME Owned', NEW t \in Trees, ~Abandoned(t)'
    PROVE  EntityOf(t)' = IF owner'[t] \in Campaigns THEN owner'[t] ELSE t
<1>1. EntityOf(t)' = Place(t, campaign')
  BY DEF EntityOf, Place
<1>2. /\ \A c \in Campaigns : campaign'[c].tree # None => owner'[campaign'[c].tree] = c
      /\ owner'[t] \in Campaigns => campaign'[owner'[t]].tree = t
  BY DEF Owned, Abandoned
<1>3. Place(t, campaign') = IF owner'[t] \in Campaigns THEN owner'[t] ELSE t
  BY <1>2, PlaceOfOwned
<1>4. QED
  BY <1>1, <1>3

\* A tree keeps the one who built it, and an abandoned tree stays abandoned.
LEMMA OwnersKept ==
    ASSUME SyncInvariant, Next
    PROVE  \A t \in Trees : /\ owner[t] # None => owner'[t] = owner[t]
                            /\ Abandoned(t) => Abandoned(t)'
<1>0. /\ owner \in [Trees -> Campaigns \cup {Outside, None}]
      /\ campaign \in [Campaigns -> [status : Statuses, tree : Trees \cup {None}]]
      /\ None \notin Campaigns /\ Outside \notin Campaigns /\ None \notin Trees
  BY InsightsAssumption DEF SyncInvariant, Typed, TypeOK
<1>1. ASSUME NEW c \in Campaigns, NEW u \in Trees, Publish(c, u), NEW t \in Trees
      PROVE  (owner[t] # None => owner'[t] = owner[t]) /\ (Abandoned(t) => Abandoned(t)')
  <2>1. /\ owner[u] = None /\ owner' = [owner EXCEPT ![u] = c]
        /\ \E status \in {"PUBLISHED", "ERROR"} :
             campaign' = [campaign EXCEPT ![c] = [status |-> status, tree |-> u]]
    BY <1>1 DEF Publish
  <2>2. /\ owner'[t] = IF t = u THEN c ELSE owner[t]
        /\ campaign'[c].tree = u /\ \A d \in Campaigns : d # c => campaign'[d] = campaign[d]
    BY <1>0, <2>1
  <2>3. QED
    BY <1>0, <2>1, <2>2 DEF Abandoned
<1>2. ASSUME NEW u \in Trees, StartOutside(u), NEW t \in Trees
      PROVE  (owner[t] # None => owner'[t] = owner[t]) /\ (Abandoned(t) => Abandoned(t)')
  BY <1>0, <1>2 DEF StartOutside, Abandoned
<1>3. ASSUME NEW c \in Campaigns, Pause(c) \/ Remove(c), NEW t \in Trees
      PROVE  (owner[t] # None => owner'[t] = owner[t]) /\ (Abandoned(t) => Abandoned(t)')
  <2>1. owner' = owner /\ \A d \in Campaigns : campaign'[d].tree \in {campaign[d].tree, None}
    BY <1>0, <1>3 DEF Pause, Remove
  <2>2. QED
    BY <1>0, <2>1 DEF Abandoned
<1>4. ASSUME \/ Deliver
             \/ \E u \in Trees : Restate(u)
             \/ \E w \in Workers : Ask(w) \/ Store(w) \/ StoreBreaks(w)
      PROVE  UNCHANGED <<owner, campaign>>
  BY <1>4 DEF Deliver, Restate, Ask, Store, StoreBreaks
<1>5. CASE UNCHANGED <<owner, campaign>>
  BY <1>5 DEF Abandoned
<1>6. QED
  BY <1>1, <1>2, <1>3, <1>4, <1>5 DEF Next

LEMMA DaysAreFinite == IsFiniteSet(Days)
<1>1. MaxDay \in Nat
  BY InsightsAssumption
<1>2. QED
  BY <1>1, FS_Interval DEF Days

LEMMA FiguresAreFinite == IsFiniteSet(MetaFigures)
<1>1. IsFiniteSet(Trees) /\ IsFiniteSet(Days) /\ Recent(SyncWindow) \in SUBSET Days
  BY InsightsAssumption, DaysAreFinite DEF Recent
<1>2. IsFiniteSet(Trees \X Days) /\ MetaFigures \in SUBSET (Trees \X Days)
  BY <1>1, FS_Product DEF MetaFigures
<1>3. QED
  BY <1>2, FS_Subset

LEMMA OverviewInit == Init => OverviewInvariant
<1> SUFFICES ASSUME Init PROVE OverviewInvariant
  OBVIOUS
<1>1. /\ \A w \in Workers : job[w].answer = {} /\ job[w].pc = "idle"
      /\ \A x \in Entities, p \in Days : rows[x][p] = None
      /\ upToDate = FALSE
  BY DEF Init, Idle
<1>2. QED
  BY <1>1, SyncInit DEF OverviewInvariant, Grounded, FreshIsAll, FiledIsAll

\* Steps that change who builds what, and neither figures nor snapshots.
LEMMA BuildingKeeps ==
    ASSUME OverviewInvariant, SyncInvariant',
           UNCHANGED <<day, reported, rows, job, upToDate>>,
           \A t \in Trees : /\ owner[t] # None => owner'[t] = owner[t]
                            /\ Abandoned(t) => Abandoned(t)'
    PROVE  OverviewInvariant'
<1>1. MetaFigures' = MetaFigures
  BY DEF MetaFigures, Recent
<1>2. Grounded' /\ FreshIsAll'
  BY <1>1 DEF OverviewInvariant, Grounded, FreshIsAll, OnOnePage
<1>3. FiledIsAll'
  <2> SUFFICES ASSUME upToDate, OnOnePage, NoneAbandoned', NEW e \in MetaFigures
               PROVE  rows[EntityOf(e[1])'][e[2]] = [tree |-> e[1], result |-> reported[e[1]][e[2]]]
    BY <1>1 DEF FiledIsAll, OnOnePage
  <2>1. e[1] \in Trees /\ e[2] \in Days /\ reported[e[1]][e[2]] # None
    BY DEF MetaFigures, Recent
  <2>2. owner[e[1]] # None /\ owner'[e[1]] = owner[e[1]]
    BY <2>1 DEF OverviewInvariant, SyncInvariant, Owned
  <2>3. ~Abandoned(e[1]) /\ ~Abandoned(e[1])' /\ NoneAbandoned
    BY <2>1 DEF NoneAbandoned
  <2>4. EntityOf(e[1]) = IF owner[e[1]] \in Campaigns THEN owner[e[1]] ELSE e[1]
    BY <2>1, <2>2, <2>3, EntityOfOwned DEF OverviewInvariant, SyncInvariant
  <2>5. EntityOf(e[1])' = IF owner'[e[1]] \in Campaigns THEN owner'[e[1]] ELSE e[1]
    BY <2>1, <2>3, EntityOfOwnedNext DEF SyncInvariant
  <2>6. QED
    BY <2>2, <2>3, <2>4, <2>5 DEF OverviewInvariant, FiledIsAll
<1>4. QED
  BY <1>2, <1>3 DEF OverviewInvariant
\* Steps that change what Meta says.
LEMMA RestatingKeeps ==
    ASSUME OverviewInvariant, SyncInvariant', Deliver \/ (\E t \in Trees : Restate(t))
    PROVE  OverviewInvariant'
<1>0. /\ Typed /\ TypeOK /\ day \in 0..MaxDay /\ MaxDay \in Nat
      /\ serving \subseteq Trees /\ None \notin Results
      /\ reported \in [Trees -> [Days -> Results \cup {None}]]
      /\ rows \in [Entities -> [Days -> [tree : Trees, result : Results] \cup {None}]]
  BY InsightsAssumption DEF OverviewInvariant, SyncInvariant, Typed, TypeOK
<1>1. MetaChanged /\ rows' = rows /\ day' \in Nat /\ day <= day'
  BY <1>0 DEF Deliver, Restate
<1>2. \A t \in Trees, p \in Days : reported[t][p] # None => reported'[t][p] # None
  <2>1. CASE Deliver
    <3>1. PICK achieved \in [serving -> Results] :
            reported' = [t \in Trees |-> IF t \in serving
                           THEN [reported[t] EXCEPT ![day + 1] = achieved[t]]
                           ELSE reported[t]]
      BY <2>1 DEF Deliver
    <3>2. QED
      BY <1>0, <3>1
  <2>2. CASE \E t \in Trees : Restate(t)
    <3>1. PICK t \in Trees, r \in Results : reported' = [reported EXCEPT ![t][day] = r]
      BY <2>2 DEF Restate
    <3>2. QED
      BY <1>0, <3>1
  <2>3. QED
    BY <2>1, <2>2
<1>3. /\ \A w \in Workers : job'[w].answer = job[w].answer
      /\ \A w \in Workers : job'[w].fresh = FALSE
      /\ upToDate' = FALSE
  <2>1. \A w \in Workers : job'[w] = [job[w] EXCEPT !.fresh = FALSE]
    BY <1>1 DEF MetaChanged
  <2>2. \A w \in Workers : job[w] \in [pc : {"idle", "asked"}, answer : Answers, fresh : BOOLEAN]
    BY <1>0 DEF Typed
  <2>3. QED
    BY <1>1, <2>1, <2>2 DEF MetaChanged
<1>4. \A w \in Workers : \A f \in job[w].answer : f.tree \in Trees /\ f.day \in Days
  <2>1. \A w \in Workers : \A f \in job[w].answer : f.tree \in Trees /\ f.day \in 1..day
    BY <1>0 DEF TypeOK
  <2>2. QED
    BY <1>0, <2>1 DEF Days
<1>5. Grounded'
  BY <1>0, <1>1, <1>2, <1>3, <1>4 DEF OverviewInvariant, Grounded
<1>6. FreshIsAll' /\ FiledIsAll'
  BY <1>3 DEF FreshIsAll, FiledIsAll
<1>7. QED
  BY <1>5, <1>6 DEF OverviewInvariant

LEMMA AskingKeeps ==
    ASSUME OverviewInvariant, SyncInvariant', NEW w \in Workers, Ask(w)
    PROVE  OverviewInvariant'
<1>0. /\ IsFiniteSet(MetaFigures) /\ Cardinality(MetaFigures) \in Nat /\ PageSize \in Nat
      /\ job \in [Workers -> [pc : {"idle", "asked"}, answer : Answers, fresh : BOOLEAN]]
  BY FiguresAreFinite, FS_CardinalityType, InsightsAssumption
     DEF OverviewInvariant, SyncInvariant, Typed
<1>1. UNCHANGED <<day, owner, serving, campaign, reported, rows, upToDate>>
  BY DEF Ask
<1>2. PICK page \in SUBSET MetaFigures :
        /\ Cardinality(page) = Min({PageSize, Cardinality(MetaFigures)})
        /\ job' = [job EXCEPT ![w] = [pc |-> "asked", fresh |-> TRUE,
                     answer |-> {[tree |-> f[1], day |-> f[2],
                                  result |-> reported[f[1]][f[2]]] : f \in page}]]
  BY DEF Ask
<1> DEFINE answer == {[tree |-> f[1], day |-> f[2], result |-> reported[f[1]][f[2]]] : f \in page}
<1>3. job'[w].answer = answer /\ \A v \in Workers : v # w => job'[v] = job[v]
  BY <1>0, <1>2
<1>4. OnOnePage => page = MetaFigures
  <2> SUFFICES ASSUME OnOnePage PROVE page = MetaFigures
    OBVIOUS
  <2>1. \A y \in {PageSize, Cardinality(MetaFigures)} : Cardinality(MetaFigures) <= y
    BY <1>0 DEF OnOnePage
  <2>2. Min({PageSize, Cardinality(MetaFigures)}) = Cardinality(MetaFigures)
    BY <1>0, <2>1 DEF Min
  <2>3. QED
    BY <1>0, <1>2, <2>2, FS_Subset
<1>5. \A f \in answer : f.result = reported[f.tree][f.day] /\ reported[f.tree][f.day] # None
  BY DEF MetaFigures
<1>6. OnOnePage => \A e \in MetaFigures : \E f \in answer : f.tree = e[1] /\ f.day = e[2]
  <2> SUFFICES ASSUME OnOnePage, NEW e \in MetaFigures
               PROVE  \E f \in answer : f.tree = e[1] /\ f.day = e[2]
    OBVIOUS
  <2> DEFINE f == [tree |-> e[1], day |-> e[2], result |-> reported[e[1]][e[2]]]
  <2>1. f \in answer
    BY <1>4
  <2>2. f.tree = e[1] /\ f.day = e[2]
    OBVIOUS
  <2> HIDE DEF f, answer
  <2>3. QED
    BY <2>1, <2>2
<1> HIDE DEF answer
<1>7. MetaFigures' = MetaFigures /\ (OnOnePage' <=> OnOnePage)
  BY <1>1 DEF MetaFigures, Recent, OnOnePage
<1>8. Grounded'
  BY <1>1, <1>3, <1>5 DEF OverviewInvariant, Grounded
<1>9. FreshIsAll'
  BY <1>1, <1>3, <1>5, <1>6, <1>7 DEF OverviewInvariant, FreshIsAll
<1>10. FiledIsAll'
  BY <1>1, <1>7 DEF OverviewInvariant, FiledIsAll, NoneAbandoned, Abandoned, EntityOf
<1>11. QED
  BY <1>8, <1>9, <1>10 DEF OverviewInvariant

\* The figure that is filed for an entity and a day, among some of an answer.
LEMMA UpsertFiles ==
    ASSUME SyncInvariant, NEW figures \in Answers, NEW x \in Entities, NEW p \in Days
    PROVE  \/ Upsert(figures)[x][p] = rows[x][p] /\ ~ \E f \in figures : EntityOf(f.tree) = x /\ f.day = p
           \/ \E f \in figures : /\ EntityOf(f.tree) = x /\ f.day = p
                                 /\ Upsert(figures)[x][p] = [tree |-> f.tree, result |-> f.result]
<1> DEFINE Has == \E f \in figures : EntityOf(f.tree) = x /\ f.day = p
           The == CHOOSE f \in figures : EntityOf(f.tree) = x /\ f.day = p
<1>1. Upsert(figures)[x][p] = IF Has THEN [tree |-> The.tree, result |-> The.result] ELSE rows[x][p]
  BY DEF Upsert
<1>2. Has => The \in figures /\ EntityOf(The.tree) = x /\ The.day = p
  OBVIOUS
<1> HIDE DEF The
<1>3. QED
  BY <1>1, <1>2

LEMMA StoringKeeps ==
    ASSUME OverviewInvariant, SyncInvariant', NEW w \in Workers, Store(w) \/ StoreBreaks(w)
    PROVE  OverviewInvariant'
<1>0. /\ SyncInvariant /\ Typed /\ TypeOK /\ Owned /\ day \in 0..MaxDay /\ MaxDay \in Nat
      /\ job \in [Workers -> [pc : {"idle", "asked"}, answer : Answers, fresh : BOOLEAN]]
  BY InsightsAssumption DEF OverviewInvariant, SyncInvariant, Typed, TypeOK
<1>1. PICK figures \in SUBSET job[w].answer :
        /\ rows' = Upsert(figures)
        /\ upToDate' => figures = job[w].answer /\ job[w].fresh
  BY DEF Store, StoreBreaks
<1>2. /\ job[w].pc = "asked" /\ job' = [job EXCEPT ![w] = Idle]
      /\ UNCHANGED <<day, owner, serving, campaign, reported>>
  BY DEF Store, StoreBreaks
<1>3. /\ job'[w].answer = {} /\ job'[w].pc = "idle"
      /\ \A v \in Workers : v # w => job'[v] = job[v]
  BY <1>0, <1>2 DEF Idle
<1>4. figures \in Answers
  BY <1>0 DEF Answers
<1>5. \A f \in figures : /\ f \in [tree : Trees, day : 1..day, result : Results]
                         /\ reported[f.tree][f.day] # None /\ owner[f.tree] # None
  BY <1>0, <1>4 DEF OverviewInvariant, Grounded, Owned, Answers
<1>6. Grounded'
  <2>1. ASSUME NEW x \in Entities, NEW p \in Days, rows'[x][p] # None
        PROVE  reported[rows'[x][p].tree][p] # None
    <3>1. CASE rows'[x][p] = rows[x][p]
      BY <2>1, <3>1 DEF OverviewInvariant, Grounded
    <3>2. CASE rows'[x][p] # rows[x][p]
      <4>1. PICK f \in figures : f.day = p /\ rows'[x][p] = [tree |-> f.tree, result |-> f.result]
        BY <1>0, <1>1, <1>4, <3>2, UpsertFiles
      <4>2. QED
        BY <1>5, <4>1
    <3>3. QED
      BY <3>1, <3>2
  <2>2. QED
    BY <1>2, <1>3, <2>1 DEF OverviewInvariant, Grounded
<1>7. MetaFigures' = MetaFigures /\ (OnOnePage' <=> OnOnePage) /\ (NoneAbandoned' <=> NoneAbandoned)
      /\ \A t : EntityOf(t)' = EntityOf(t)
  BY <1>2 DEF MetaFigures, Recent, OnOnePage, NoneAbandoned, Abandoned, EntityOf
<1>8. FreshIsAll'
  BY <1>2, <1>3, <1>7 DEF OverviewInvariant, FreshIsAll
<1>9. FiledIsAll'
  <2> SUFFICES ASSUME upToDate', OnOnePage, NoneAbandoned, NEW e \in MetaFigures
               PROVE  rows'[EntityOf(e[1])][e[2]] = [tree |-> e[1], result |-> reported[e[1]][e[2]]]
    BY <1>2, <1>7 DEF FiledIsAll
  <2>1. e[1] \in Trees /\ e[2] \in Days /\ owner[e[1]] # None
    BY <1>0 DEF MetaFigures, Recent, Owned
  <2>2. PICK g \in figures : g.tree = e[1] /\ g.day = e[2]
    BY <1>1, <1>2 DEF OverviewInvariant, FreshIsAll
  <2>3. EntityOf(e[1]) \in Entities
    BY <1>0, <2>1, EntityType
  <2>4. PICK f \in figures :
          /\ EntityOf(f.tree) = EntityOf(e[1]) /\ f.day = e[2]
          /\ rows'[EntityOf(e[1])][e[2]] = [tree |-> f.tree, result |-> f.result]
    <3>1. \E f \in figures : EntityOf(f.tree) = EntityOf(e[1]) /\ f.day = e[2]
      BY <2>2
    <3>2. \E f \in figures :
            /\ EntityOf(f.tree) = EntityOf(e[1]) /\ f.day = e[2]
            /\ Upsert(figures)[EntityOf(e[1])][e[2]] = [tree |-> f.tree, result |-> f.result]
      BY <1>0, <1>4, <2>1, <2>3, <3>1, UpsertFiles
    <3>3. QED
      BY <1>1, <3>2
  <2>5. f.tree \in Trees /\ f.result = reported[f.tree][f.day]
    BY <1>1, <1>2, <1>5 DEF OverviewInvariant, FreshIsAll
  <2>6. f.tree = e[1]
    <3>1. /\ EntityOf(f.tree) = IF owner[f.tree] \in Campaigns THEN owner[f.tree] ELSE f.tree
          /\ EntityOf(e[1]) = IF owner[e[1]] \in Campaigns THEN owner[e[1]] ELSE e[1]
      BY <1>0, <2>1, <2>5, EntityOfOwned DEF NoneAbandoned
    <3>2. Campaigns \cap Trees = {} /\ ~Abandoned(f.tree) /\ ~Abandoned(e[1])
      BY <2>1, <2>5, InsightsAssumption DEF NoneAbandoned
    <3>3. QED
      BY <2>1, <2>4, <2>5, <3>1, <3>2 DEF Abandoned
  <2>7. QED
    BY <2>4, <2>5, <2>6
<1>10. QED
  BY <1>6, <1>8, <1>9 DEF OverviewInvariant

LEMMA OverviewAlways == Spec => []OverviewInvariant
<1>1. ASSUME OverviewInvariant, SyncInvariant', [Next]_vars
      PROVE  OverviewInvariant'
  <2>1. CASE UNCHANGED vars
    <3>1. UNCHANGED <<day, reported, rows, job, upToDate>> /\ UNCHANGED <<owner, campaign>>
      BY <2>1 DEF vars
    <3>2. QED
      BY <1>1, <3>1, BuildingKeeps DEF Abandoned
  <2>2. CASE Next
    <3>1. \A t \in Trees : /\ owner[t] # None => owner'[t] = owner[t]
                           /\ Abandoned(t) => Abandoned(t)'
      BY <1>1, <2>2, OwnersKept DEF OverviewInvariant
    <3>2. CASE \/ \E c \in Campaigns : Pause(c) \/ Remove(c)
               \/ \E c \in Campaigns, t \in Trees : Publish(c, t)
               \/ \E t \in Trees : StartOutside(t)
      <4>1. UNCHANGED <<day, reported, rows, job, upToDate>>
        BY <3>2 DEF Pause, Remove, Publish, StartOutside
      <4>2. QED
        BY <1>1, <3>1, <4>1, BuildingKeeps
    <3>3. QED
      BY <1>1, <2>2, <3>2, RestatingKeeps, AskingKeeps, StoringKeeps DEF Next
  <2>3. QED
    BY <1>1, <2>1, <2>2
<1>2. QED
  BY <1>1, SyncAlways, OverviewInit, PTL DEF Spec

\* Where the rows of the overview come from: one row for each figure that Meta reports.
LEMMA RowsAreFigures ==
    ASSUME OverviewInvariant, upToDate, OnOnePage, NoneAbandoned
    PROVE  /\ \A e \in MetaFigures :
                /\ EntityOf(e[1]) \in Entities /\ e[2] \in Recent(SyncWindow) /\ e[2] \in Days
                /\ rows[EntityOf(e[1])][e[2]] = [tree |-> e[1], result |-> reported[e[1]][e[2]]]
                /\ rows[EntityOf(e[1])][e[2]] # None
                /\ e = <<e[1], e[2]>>
           /\ \A x \in Entities, p \in Recent(SyncWindow) : rows[x][p] # None =>
                /\ <<rows[x][p].tree, p>> \in MetaFigures
                /\ EntityOf(rows[x][p].tree) = x
<1>0. /\ Typed /\ TypeOK /\ Owned /\ None \notin Trees /\ Campaigns \cap Trees = {}
      /\ rows \in [Entities -> [Days -> [tree : Trees, result : Results] \cup {None}]]
      /\ None \notin Results /\ Recent(SyncWindow) \subseteq Days
  BY InsightsAssumption DEF OverviewInvariant, SyncInvariant, Typed, TypeOK, Recent
<1>1. ASSUME NEW x \in Entities, NEW p \in Recent(SyncWindow), rows[x][p] # None
      PROVE  /\ <<rows[x][p].tree, p>> \in MetaFigures
             /\ EntityOf(rows[x][p].tree) = x
  <2>1. /\ rows[x][p].tree \in Trees /\ p \in Days
        /\ Filed(x, rows[x][p], owner, campaign)
        /\ reported[rows[x][p].tree][p] # None
    BY <1>0, <1>1 DEF OverviewInvariant, SyncInvariant, Grounded
  <2>2. <<rows[x][p].tree, p>> \in MetaFigures
    BY <2>1 DEF MetaFigures
  <2>3. ~Abandoned(rows[x][p].tree)
    BY <2>1 DEF NoneAbandoned
  <2>4. EntityOf(rows[x][p].tree)
          = IF owner[rows[x][p].tree] \in Campaigns THEN owner[rows[x][p].tree]
            ELSE rows[x][p].tree
    BY <1>0, <2>1, <2>3, EntityOfOwned
  <2>5. QED
    BY <1>0, <2>1, <2>2, <2>3, <2>4 DEF Filed, Entities, Abandoned
<1>2. ASSUME NEW e \in MetaFigures
      PROVE  /\ EntityOf(e[1]) \in Entities /\ e[2] \in Recent(SyncWindow) /\ e[2] \in Days
             /\ rows[EntityOf(e[1])][e[2]] = [tree |-> e[1], result |-> reported[e[1]][e[2]]]
             /\ rows[EntityOf(e[1])][e[2]] # None
             /\ e = <<e[1], e[2]>>
  <2>1. /\ e[1] \in Trees /\ e[2] \in Recent(SyncWindow) /\ e[2] \in Days
        /\ e = <<e[1], e[2]>> /\ reported[e[1]][e[2]] # None
    BY <1>0 DEF MetaFigures
  <2>2. EntityOf(e[1]) \in Entities
    BY <1>0, <2>1, EntityType DEF Owned
  <2>3. rows[EntityOf(e[1])][e[2]] = [tree |-> e[1], result |-> reported[e[1]][e[2]]]
    BY DEF OverviewInvariant, FiledIsAll
  <2>4. rows[EntityOf(e[1])][e[2]] # None
    <3>1. reported[e[1]][e[2]] \in Results
      BY <1>0, <2>1 DEF TypeOK
    <3>2. [tree |-> e[1], result |-> reported[e[1]][e[2]]] \in [tree : Trees, result : Results]
      BY <2>1, <3>1
    <3>3. QED
      BY <2>3, <3>2, InsightsAssumption
  <2>5. QED
    BY <2>1, <2>2, <2>3, <2>4
<1>3. QED
  BY <1>1, <1>2

LEMMA FiguresOfRecent ==
    ASSUME NEW window, NEW x
    PROVE  /\ IsFiniteSet(Figures(x, window)) /\ Figures(x, window) \in SUBSET Days
<1>1. IsFiniteSet(Days) /\ Figures(x, window) \in SUBSET Days
  BY DaysAreFinite DEF Figures, Seen, Recent
<1>2. QED
  BY <1>1, FS_Subset

\* What the tool sees of a window is the window without its first day.
LEMMA SeenIsRest ==
    ASSUME TypeOK, NEW window \in Nat \ {0}
    PROVE  Seen(window) = {p \in Recent(window) : p # day - window + 1}
<1>1. day \in Nat /\ \A p \in Days : p \in Nat
  BY InsightsAssumption DEF TypeOK, Days
<1>2. QED
  BY <1>1 DEF Seen, Recent

LEMMA EntitiesAreFinite == IsFiniteSet(Entities)
  BY InsightsAssumption, FS_Union DEF Entities

LEMMA TotalIsNumber ==
    ASSUME TypeOK, NEW x \in Entities, NEW window,
           NEW field \in {"spend", "impressions", "reach", "clicks", "leads"}
    PROVE  Total(x, window, field) \in Nat
<1> DEFINE line == [p \in Figures(x, window) |-> rows[x][p].result[field]]
<1>1. \A p \in Figures(x, window) : line[p] \in Nat
  <2> TAKE p \in Figures(x, window)
  <2>1. p \in Days /\ rows[x][p] # None
    BY FiguresOfRecent DEF Figures
  <2>2. rows[x][p].result \in Results
    BY <2>1 DEF TypeOK
  <2>3. QED
    BY <2>2, ResultsAssumption
<1>2. Total(x, window, field) = SumFunctionOnSet(line, Figures(x, window))
  BY DEF Total, SumFunction
<1> HIDE DEF line
<1>3. QED
  BY <1>1, <1>2, FiguresOfRecent, SumIsNumber

\* As long as nothing changes at Meta after a sync whose answer fits on a page, and no
\* campaign has abandoned a tree, the overview is what Meta reports of all the days the sync
\* asked for but the first, which it never shows: for any number of campaigns, trees, days
\* and syncs at once, and any length of the window (clientOverview).
THEOREM OverviewAgreesAlways == Spec => []OverviewAgrees
<1>1. ASSUME OverviewInvariant
      PROVE  OverviewAgrees
  <2> SUFFICES ASSUME upToDate, OnOnePage, NoneAbandoned, NEW field \in {"spend", "leads"}
               PROVE  Overview(SyncWindow, field) = MetaTotal(field)
    BY DEF OverviewAgrees, OnOnePage, NoneAbandoned
  <2>0. TypeOK /\ IsFiniteSet(Entities) /\ IsFiniteSet(Days) /\ IsFiniteSet(MetaFigures)
    BY <1>1, EntitiesAreFinite, FiguresAreFinite, DaysAreFinite
       DEF OverviewInvariant, SyncInvariant, Typed
  <2>a. /\ \A e \in MetaFigures : e \in SeenFigures <=> e[2] \in Seen(SyncWindow)
        /\ SeenFigures \in SUBSET MetaFigures /\ Seen(SyncWindow) \in SUBSET Recent(SyncWindow)
        /\ IsFiniteSet(SeenFigures)
    <3>1. Seen(SyncWindow) = {p \in Recent(SyncWindow) : p # day - SyncWindow + 1}
      BY <2>0, InsightsAssumption, SeenIsRest
    <3>2. \A e \in MetaFigures : e[2] \in Recent(SyncWindow)
      BY DEF MetaFigures
    <3>3. SeenFigures \in SUBSET MetaFigures
      BY DEF SeenFigures
    <3>4. IsFiniteSet(SeenFigures)
      BY <2>0, <3>3, FS_Subset
    <3>5. QED
      BY <3>1, <3>2, <3>3, <3>4 DEF SeenFigures
  <2> DEFINE table == {e \in Entities \X Days :
                         e[2] \in Seen(SyncWindow) /\ rows[e[1]][e[2]] # None}
             v == [e \in table |-> rows[e[1]][e[2]].result[field]]
             f == [e \in SeenFigures |-> reported[e[1]][e[2]][field]]
             m == [e \in SeenFigures |-> <<EntityOf(e[1]), e[2]>>]
             row == [x \in Entities |->
                       [p \in Figures(x, SyncWindow) |-> rows[x][p].result[field]]]
             r == [x \in Entities |-> Total(x, SyncWindow, field)]
             columns == [x \in Entities |-> Figures(x, SyncWindow)]
  <2>1. \A e \in SeenFigures : m[e] \in table /\ v[m[e]] = f[e]
    <3> TAKE e \in SeenFigures
    <3>1. /\ EntityOf(e[1]) \in Entities /\ e[2] \in Seen(SyncWindow) /\ e[2] \in Days
          /\ rows[EntityOf(e[1])][e[2]] = [tree |-> e[1], result |-> reported[e[1]][e[2]]]
          /\ rows[EntityOf(e[1])][e[2]] # None
      BY <1>1, <2>a, RowsAreFigures
    <3>2. m[e] = <<EntityOf(e[1]), e[2]>> /\ m[e] \in table
      BY <3>1
    <3>3. v[m[e]] = rows[EntityOf(e[1])][e[2]].result[field]
      BY <3>2
    <3>4. f[e] = reported[e[1]][e[2]][field]
      OBVIOUS
    <3> HIDE DEF m, v, f, table
    <3>5. QED
      BY <3>1, <3>2, <3>3, <3>4
  <2>2. \A d, e \in SeenFigures : m[d] = m[e] => d = e
    <3> SUFFICES ASSUME NEW d \in SeenFigures, NEW e \in SeenFigures, m[d] = m[e]
                 PROVE  d = e
      OBVIOUS
    <3>1. EntityOf(d[1]) = EntityOf(e[1]) /\ d[2] = e[2]
      OBVIOUS
    <3>2. [tree |-> d[1], result |-> reported[d[1]][d[2]]]
            = [tree |-> e[1], result |-> reported[e[1]][e[2]]]
      BY <1>1, <2>a, <3>1, RowsAreFigures
    <3>3. d[1] = e[1]
      BY <3>2
    <3>4. d = <<d[1], d[2]>> /\ e = <<e[1], e[2]>>
      BY <1>1, <2>a, RowsAreFigures
    <3>5. QED
      BY <3>1, <3>3, <3>4
  <2>3. \A z \in table : \E e \in SeenFigures : m[e] = z
    <3> SUFFICES ASSUME NEW z \in table PROVE \E e \in SeenFigures : m[e] = z
      OBVIOUS
    <3>1. z[1] \in Entities /\ z[2] \in Seen(SyncWindow) /\ rows[z[1]][z[2]] # None
          /\ z = <<z[1], z[2]>>
      OBVIOUS
    <3> DEFINE e == <<rows[z[1]][z[2]].tree, z[2]>>
    <3>2. e \in SeenFigures /\ EntityOf(e[1]) = z[1] /\ e[2] = z[2]
      BY <1>1, <2>a, <3>1, RowsAreFigures
    <3>3. m[e] = <<EntityOf(e[1]), e[2]>>
      BY <3>2
    <3> HIDE DEF e, m
    <3>4. QED
      BY <3>1, <3>2, <3>3
  <2>4. \A z \in table : v[z] \in Nat
    <3> TAKE z \in table
    <3>1. rows[z[1]][z[2]].result \in Results
      BY <2>0 DEF TypeOK
    <3>2. QED
      BY <3>1, ResultsAssumption
  <2>5. \A x \in Entities : columns[x] = {p \in Days : <<x, p>> \in table}
    BY DEF Figures, Seen, Recent
  <2>6. \A x \in Entities : r[x] \in Nat /\ r[x] = SumFunctionOnSet(row[x], columns[x])
    <3> TAKE x \in Entities
    <3>1. r[x] = Total(x, SyncWindow, field) /\ Total(x, SyncWindow, field) \in Nat
      BY <2>0, TotalIsNumber
    <3>2. /\ row[x] = [p \in Figures(x, SyncWindow) |-> rows[x][p].result[field]]
          /\ columns[x] = Figures(x, SyncWindow)
      OBVIOUS
    <3>3. QED
      BY <3>1, <3>2 DEF Total, SumFunction
  <2>7. \A x \in Entities, p \in Days : <<x, p>> \in table => row[x][p] = v[<<x, p>>]
    BY DEF Figures
  <2>8. /\ Overview(SyncWindow, field) = SumFunctionOnSet(r, Entities)
        /\ MetaTotal(field) = SumFunctionOnSet(f, SeenFigures)
    BY DEF Overview, MetaTotal, SumFunction
  <2>9. table \in SUBSET (Entities \X Days) /\ m \in [SeenFigures -> table]
    BY <2>1
  <2> HIDE DEF table, v, f, m, row, r, columns
  <2>10. SumFunctionOnSet(f, SeenFigures) = SumFunctionOnSet(v, table)
    <3>1. \A e \in SeenFigures : f[e] \in Nat /\ v[m[e]] = f[e]
      BY <2>1, <2>4
    <3>2. IsFiniteSet(SeenFigures) /\ m \in [SeenFigures -> table]
      BY <2>9, <2>a
    <3>3. QED
      BY <2>2, <2>3, <3>1, <3>2, SumMoved
  <2>11. SumFunctionOnSet(r, Entities) = SumFunctionOnSet(v, table)
    <3>1. \A x \in Entities : r[x] \in Nat
      BY <2>6
    <3>2. \A x \in Entities : /\ columns[x] = {p \in Days : <<x, p>> \in table}
                              /\ r[x] = SumFunctionOnSet(row[x], columns[x])
      BY <2>5, <2>6
    <3>3. \A x \in Entities, p \in Days : <<x, p>> \in table => row[x][p] = v[<<x, p>>]
      BY <2>7
    <3>4. \A e \in table : v[e] \in Nat
      BY <2>4
    <3>5. /\ IsFiniteSet(Entities) /\ IsFiniteSet(Days)
          /\ table \in SUBSET (Entities \X Days)
      BY <2>0, <2>9
    <3>6. Tabulated(Entities, Days, table, v, r, row, columns)
      BY <3>1, <3>2, <3>3, <3>4, <3>5 DEF Tabulated
    <3>7. QED
      BY <3>6, SumByRows
  <2>12. QED
    BY <2>8, <2>10, <2>11
<1>2. QED
  BY <1>1, OverviewAlways, PTL

\* What Meta reports of a variant are counts.
LEMMA CellIsVariant ==
    ASSUME TypeOK, NEW t \in Trees, NEW i \in {1, 2}
    PROVE  Cell(t, i) \in Variant /\ Cell(t, i).id = i
<1> DEFINE past == {p \in Days : reported[t][p] # None}
           trials == [p \in past |-> reported[t][p].cells[i].trials]
           successes == [p \in past |-> reported[t][p].cells[i].successes]
<1>1. IsFiniteSet(past)
  BY DaysAreFinite, FS_Subset
<1>2. \A p \in past : trials[p] \in Nat /\ successes[p] \in Nat
  <2> TAKE p \in past
  <2>1. reported[t][p] \in Results
    BY DEF TypeOK
  <2>2. reported[t][p].cells[i] \in [trials : Nat, successes : Nat]
    BY <2>1, ResultsAssumption
  <2>3. QED
    BY <2>2
<1>3. Cell(t, i) = [id |-> i, trials |-> SumFunctionOnSet(trials, past),
                    successes |-> SumFunctionOnSet(successes, past)]
  BY DEF Cell, SumFunction
<1> HIDE DEF past, trials, successes
<1>4. SumFunctionOnSet(trials, past) \in Nat /\ SumFunctionOnSet(successes, past) \in Nat
  BY <1>1, <1>2, SumIsNumber
<1>5. QED
  BY <1>3, <1>4 DEF Variant

\* Whatever Meta has reported of the variants, a split test is decided for the one with the
\* higher rate, and the same whichever comes first (refreshResults, evaluateAbTest).
THEOREM WinnerIsRealAlways == Spec => []WinnerIsReal
<1>1. ASSUME SyncInvariant
      PROVE  WinnerIsReal
  <2> SUFFICES ASSUME NEW t \in Trees
               PROVE  LET a == Cell(t, 1)
                          b == Cell(t, 2)
                          verdict == EvaluateAbTest(a, b)
                          back == EvaluateAbTest(b, a)
                      IN  /\ verdict.decided = back.decided
                          /\ verdict.decided =>
                               /\ verdict.variant = back.variant
                               /\ IF verdict.variant = 1 THEN RateBelow(b, a) ELSE RateBelow(a, b)
    BY DEF WinnerIsReal
  <2> DEFINE a == Cell(t, 1)
             b == Cell(t, 2)
  <2>1. a \in Variant /\ b \in Variant /\ a.id = 1 /\ b.id = 2
    BY <1>1, CellIsVariant DEF SyncInvariant, Typed
  <2> HIDE DEF a, b
  <2>2. /\ EvaluateAbTest(a, b).variant = EvaluateAbTest(b, a).variant
        /\ EvaluateAbTest(a, b).decided = EvaluateAbTest(b, a).decided
        /\ EvaluateAbTest(a, b).decided =>
             \/ EvaluateAbTest(a, b).variant = b.id /\ RateBelow(a, b)
             \/ EvaluateAbTest(a, b).variant = a.id /\ RateBelow(b, a)
    BY <2>1, WinnerHasTheHigherRate
  <2>3. QED
    BY <2>1, <2>2 DEF a, b
<1>2. QED
  BY <1>1, SyncAlways, PTL

-----------------------------------------------------------------------------
(* Worse results and the audit.                                            *)

LEMMA FloorProperties ==
    ASSUME NEW low \in Nat, NEW n \in Int
    PROVE  AtLeast(low, n) = (IF n < low THEN low ELSE n)
<1>1. \A y \in {low, n} : y <= (IF n < low THEN low ELSE n)
  OBVIOUS
<1>2. (IF n < low THEN low ELSE n) \in {low, n}
  OBVIOUS
<1>3. QED
  BY <1>1, <1>2 DEF AtLeast, Max

\* What an entity costs the hygiene score: without results, with dear ones, or as a creative.
Hopeless(metrics, target) ==
    {x \in DOMAIN metrics : EnoughSpend(metrics[x], target) /\ ZeroConverter(metrics[x], target)}
Dear(metrics, target) ==
    {x \in DOMAIN metrics : EnoughSpend(metrics[x], target) /\ ExpensiveConverter(metrics[x], target)}
Dead(metrics, p50) ==
    {x \in DOMAIN metrics : EnoughDelivery(metrics[x]) /\ DeadCreative(metrics[x], p50)}

K1(x) == [rule |-> "K1", type |-> "KILL_AD", severity |-> "CRITICAL", entity |-> x]
K2(x) == [rule |-> "K2", type |-> "KILL_AD", severity |-> "WARNING", entity |-> x]
K3(x) == [rule |-> "K3", type |-> "REFRESH_CREATIVE", severity |-> "WARNING", entity |-> x]

LEMMA HopelessIsNotDear ==
    ASSUME NEW metrics, NEW target, \A x \in DOMAIN metrics : metrics[x] \in Figure
    PROVE  Hopeless(metrics, target) \cap Dear(metrics, target) = {}
  BY DEF Hopeless, Dear, ZeroConverter, ExpensiveConverter

\* The findings that cost something are of these three rules, whatever else fires.
LEMMA CostlyFindings ==
    ASSUME NEW metrics, NEW target, NEW p50, \A x \in DOMAIN metrics : metrics[x] \in Figure
    PROVE  /\ {f \in EvaluateRules(metrics, target, p50) : f.severity = "CRITICAL"}
                = {K1(x) : x \in Hopeless(metrics, target)}
           /\ {f \in EvaluateRules(metrics, target, p50) : f.severity = "WARNING"}
                = {K2(x) : x \in Dear(metrics, target)} \cup {K3(x) : x \in Dead(metrics, p50)}
<1> DEFINE tried(x) == RulesOn(metrics[x], target, p50)
           Fires(x, i) == /\ tried(x)[i].fires
                          /\ \A j \in 1..(i - 1) : tried(x)[j].fires => tried(x)[j].type # tried(x)[i].type
           Finding(x, i) == [rule |-> tried(x)[i].rule, type |-> tried(x)[i].type,
                             severity |-> tried(x)[i].severity, entity |-> x]
           found == EvaluateRules(metrics, target, p50)
<1>1. \A x \in DOMAIN metrics : DOMAIN tried(x) = 1..6
  BY DEF RulesOn
<1>2. \A f : f \in found <=> \E x \in DOMAIN metrics, i \in 1..6 : Fires(x, i) /\ f = Finding(x, i)
  <2>1. found = UNION {{Finding(x, i) : i \in {i \in DOMAIN tried(x) : Fires(x, i)}}
                         : x \in DOMAIN metrics}
    BY DEF EvaluateRules
  <2>2. \A x \in DOMAIN metrics : {i \in DOMAIN tried(x) : Fires(x, i)} = {i \in 1..6 : Fires(x, i)}
    BY <1>1
  <2> HIDE DEF found, tried, Fires, Finding
  <2>3. found = UNION {{Finding(x, i) : i \in {i \in 1..6 : Fires(x, i)}} : x \in DOMAIN metrics}
    BY <2>1, <2>2
  <2>4. QED
    BY <2>3
<1>3. ASSUME NEW x \in DOMAIN metrics
      PROVE  /\ Finding(x, 1) = K1(x) /\ Finding(x, 2) = K2(x) /\ Finding(x, 3) = K3(x)
             /\ \A i \in 4..6 : Finding(x, i).severity = "SUGGESTION"
             /\ Fires(x, 1) <=> x \in Hopeless(metrics, target)
             /\ Fires(x, 2) <=> x \in Dear(metrics, target)
             /\ Fires(x, 3) <=> x \in Dead(metrics, p50)
  <2>1. Finding(x, 1) = K1(x) /\ Finding(x, 2) = K2(x) /\ Finding(x, 3) = K3(x)
    BY DEF RulesOn, K1, K2, K3
  <2>2. /\ tried(x)[4].severity = "SUGGESTION" /\ tried(x)[5].severity = "SUGGESTION"
        /\ tried(x)[6].severity = "SUGGESTION"
    BY DEF RulesOn
  <2>3. /\ tried(x)[1].fires <=> x \in Hopeless(metrics, target)
        /\ tried(x)[2].fires <=> x \in Dear(metrics, target)
        /\ tried(x)[3].fires <=> x \in Dead(metrics, p50)
    BY DEF RulesOn, Hopeless, Dear, Dead
  <2>4. tried(x)[1].type = "KILL_AD" /\ tried(x)[2].type = "KILL_AD" /\ tried(x)[3].type = "REFRESH_CREATIVE"
    BY DEF RulesOn
  <2>5. ~(x \in Hopeless(metrics, target) /\ x \in Dear(metrics, target))
    BY HopelessIsNotDear
  <2> HIDE DEF tried
  <2>6. \A i \in 4..6 : Finding(x, i).severity = "SUGGESTION"
    <3>1. \A i \in 4..6 : i = 4 \/ i = 5 \/ i = 6
      OBVIOUS
    <3>2. QED
      BY <2>2, <3>1
  <2>7. Fires(x, 1) <=> x \in Hopeless(metrics, target)
    BY <2>3
  <2>8. Fires(x, 2) <=> x \in Dear(metrics, target)
    <3>1. \A j \in 1..(2 - 1) : j = 1
      OBVIOUS
    <3>2. QED
      BY <2>3, <2>4, <2>5, <3>1
  <2>9. Fires(x, 3) <=> x \in Dead(metrics, p50)
    <3>1. \A j \in 1..(3 - 1) : j = 1 \/ j = 2
      OBVIOUS
    <3>2. QED
      BY <2>3, <2>4, <3>1
  <2>10. QED
    BY <2>1, <2>6, <2>7, <2>8, <2>9
<1> HIDE DEF Fires, Finding, found
<1>4. \A i \in 1..6 : i = 1 \/ i = 2 \/ i = 3 \/ i \in 4..6
  OBVIOUS
<1> DEFINE OfH(f) == \E x \in Hopeless(metrics, target) : f = K1(x)
           OfE(f) == \E x \in Dear(metrics, target) : f = K2(x)
           OfD(f) == \E x \in Dead(metrics, p50) : f = K3(x)
           Other(f) == \E x \in DOMAIN metrics, i \in 4..6 : Fires(x, i) /\ f = Finding(x, i)
<1>5. \A f : f \in found <=> OfH(f) \/ OfE(f) \/ OfD(f) \/ Other(f)
  <2>1. 1 \in 1..6 /\ 2 \in 1..6 /\ 3 \in 1..6 /\ 4..6 \subseteq 1..6
    OBVIOUS
  <2>2. /\ Hopeless(metrics, target) \subseteq DOMAIN metrics
        /\ Dear(metrics, target) \subseteq DOMAIN metrics /\ Dead(metrics, p50) \subseteq DOMAIN metrics
    BY DEF Hopeless, Dear, Dead
  <2>3. ASSUME NEW f \in found
        PROVE  OfH(f) \/ OfE(f) \/ OfD(f) \/ Other(f)
    <3>1. PICK x \in DOMAIN metrics, i \in 1..6 : Fires(x, i) /\ f = Finding(x, i)
      BY <1>2
    <3>2. CASE i = 1  BY <1>3, <3>1, <3>2
    <3>3. CASE i = 2  BY <1>3, <3>1, <3>3
    <3>4. CASE i = 3  BY <1>3, <3>1, <3>4
    <3>5. CASE i \in 4..6  BY <3>1, <3>5
    <3>6. QED
      BY <1>4, <3>2, <3>3, <3>4, <3>5
  <2>4. ASSUME NEW x \in Hopeless(metrics, target) PROVE K1(x) \in found
    BY <1>2, <1>3, <2>1, <2>2
  <2>5. ASSUME NEW x \in Dear(metrics, target) PROVE K2(x) \in found
    BY <1>2, <1>3, <2>1, <2>2
  <2>6. ASSUME NEW x \in Dead(metrics, p50) PROVE K3(x) \in found
    BY <1>2, <1>3, <2>1, <2>2
  <2>7. ASSUME NEW x \in DOMAIN metrics, NEW i \in 4..6, Fires(x, i) PROVE Finding(x, i) \in found
    BY <1>2, <2>1, <2>7
  <2>8. ASSUME NEW f, OfH(f) \/ OfE(f) \/ OfD(f) \/ Other(f)
        PROVE  f \in found
    <3>1. CASE OfH(f)  BY <2>4, <3>1
    <3>2. CASE OfE(f)  BY <2>5, <3>2
    <3>3. CASE OfD(f)  BY <2>6, <3>3
    <3>4. CASE Other(f)  BY <2>7, <3>4
    <3>5. QED
      BY <2>8, <3>1, <3>2, <3>3, <3>4
  <2> HIDE DEF OfH, OfE, OfD, Other
  <2>9. QED
    BY <2>3, <2>8
<1>6. \A x : K1(x).severity = "CRITICAL" /\ K2(x).severity = "WARNING" /\ K3(x).severity = "WARNING"
  BY DEF K1, K2, K3
<1>7. \A f : /\ OfH(f) => f.severity = "CRITICAL"
             /\ OfE(f) \/ OfD(f) => f.severity = "WARNING"
             /\ Other(f) => f.severity = "SUGGESTION"
  BY <1>3, <1>6
<1>8. /\ \A f : f \in {K1(x) : x \in Hopeless(metrics, target)} <=> OfH(f)
      /\ \A f : f \in {K2(x) : x \in Dear(metrics, target)} <=> OfE(f)
      /\ \A f : f \in {K3(x) : x \in Dead(metrics, p50)} <=> OfD(f)
  OBVIOUS
<1> HIDE DEF OfH, OfE, OfD, Other
<1>9. \A f : /\ f \in found /\ f.severity = "CRITICAL" <=> OfH(f)
             /\ f \in found /\ f.severity = "WARNING" <=> OfE(f) \/ OfD(f)
  BY <1>5, <1>7
<1>10. {f \in found : f.severity = "CRITICAL"} = {K1(x) : x \in Hopeless(metrics, target)}
  BY <1>8, <1>9
<1>11. {f \in found : f.severity = "WARNING"}
         = {K2(x) : x \in Dear(metrics, target)} \cup {K3(x) : x \in Dead(metrics, p50)}
  BY <1>8, <1>9
<1>12. QED
  BY <1>10, <1>11 DEF found

LEMMA SameCount ==
    ASSUME NEW S, IsFiniteSet(S), NEW T, NEW m \in [S -> T],
           \A x, y \in S : m[x] = m[y] => x = y, \A z \in T : \E x \in S : m[x] = z
    PROVE  IsFiniteSet(T) /\ Cardinality(T) = Cardinality(S)
<1>1. m \in Injection(S, T) /\ m \in Surjection(S, T)
  BY DEF Injection, IsInjective, Surjection
<1>2. QED
  BY <1>1, FS_Bijection DEF ExistsBijection, Bijection

LEMMA CountOfFindings ==
    ASSUME NEW metrics, IsFiniteSet(DOMAIN metrics), NEW target, NEW p50,
           \A x \in DOMAIN metrics : metrics[x] \in Figure
    PROVE  /\ Cardinality({f \in EvaluateRules(metrics, target, p50) : f.severity = "CRITICAL"})
                = Cardinality(Hopeless(metrics, target))
           /\ Cardinality({f \in EvaluateRules(metrics, target, p50) : f.severity = "WARNING"})
                = Cardinality(Dear(metrics, target)) + Cardinality(Dead(metrics, p50))
<1> DEFINE H == Hopeless(metrics, target)
           E == Dear(metrics, target)
           D == Dead(metrics, p50)
           OfH == {K1(x) : x \in H}
           OfE == {K2(x) : x \in E}
           OfD == {K3(x) : x \in D}
<1>1. IsFiniteSet(H) /\ IsFiniteSet(E) /\ IsFiniteSet(D)
  BY FS_Subset DEF Hopeless, Dear, Dead
<1>2. \A x, y : (K1(x) = K1(y) => x = y) /\ (K2(x) = K2(y) => x = y)
                /\ (K3(x) = K3(y) => x = y) /\ K2(x) # K3(y)
  BY DEF K1, K2, K3
<1>3. IsFiniteSet(OfH) /\ Cardinality(OfH) = Cardinality(H)
  <2> DEFINE m == [x \in H |-> K1(x)]
  <2>1. m \in [H -> OfH] /\ \A z \in OfH : \E x \in H : m[x] = z
    OBVIOUS
  <2>2. \A x, y \in H : m[x] = m[y] => x = y
    BY <1>2
  <2> HIDE DEF m, H, OfH
  <2>3. QED
    BY <1>1, <2>1, <2>2, SameCount
<1>4. IsFiniteSet(OfE) /\ Cardinality(OfE) = Cardinality(E)
  <2> DEFINE m == [x \in E |-> K2(x)]
  <2>1. m \in [E -> OfE] /\ \A z \in OfE : \E x \in E : m[x] = z
    OBVIOUS
  <2>2. \A x, y \in E : m[x] = m[y] => x = y
    BY <1>2
  <2> HIDE DEF m, E, OfE
  <2>3. QED
    BY <1>1, <2>1, <2>2, SameCount
<1>5. IsFiniteSet(OfD) /\ Cardinality(OfD) = Cardinality(D)
  <2> DEFINE m == [x \in D |-> K3(x)]
  <2>1. m \in [D -> OfD] /\ \A z \in OfD : \E x \in D : m[x] = z
    OBVIOUS
  <2>2. \A x, y \in D : m[x] = m[y] => x = y
    BY <1>2
  <2> HIDE DEF m, D, OfD
  <2>3. QED
    BY <1>1, <2>1, <2>2, SameCount
<1>6. Cardinality(OfE \cup OfD) = Cardinality(OfE) + Cardinality(OfD)
  <2>1. OfE \cap OfD = {}
    BY <1>2
  <2>2. Cardinality(OfE \cap OfD) = 0
    BY <2>1, FS_EmptySet
  <2> HIDE DEF OfE, OfD
  <2>3. Cardinality(OfE) \in Nat /\ Cardinality(OfD) \in Nat
    BY <1>4, <1>5, FS_CardinalityType
  <2>4. IsFiniteSet(OfE) /\ IsFiniteSet(OfD)
    BY <1>4, <1>5
  <2>5. Cardinality(OfE \cup OfD)
          = Cardinality(OfE) + Cardinality(OfD) - Cardinality(OfE \cap OfD)
    BY <2>4, FS_Union
  <2>6. QED
    BY <2>2, <2>3, <2>5
<1>7. QED
  BY <1>3, <1>4, <1>5, <1>6, CostlyFindings

\* w is what m would have been with fewer results at the same cost.
NoBetter(w, m) ==
    /\ w.level = m.level /\ w.spend = m.spend /\ w.impressions = m.impressions
    /\ w.reach = m.reach /\ w.clicks = m.clicks /\ w.days = m.days
    /\ ResultsOf(w) <= ResultsOf(m)

LEMMA ResultsAreNumbers ==
    ASSUME NEW m \in Figure
    PROVE  ResultsOf(m) \in Nat
  BY DEF Figure, ResultsOf

LEMMA ProductsAreOrdered ==
    ASSUME NEW t \in Nat, NEW a \in Nat, NEW b \in Nat, a <= b
    PROVE  2 * t * a \in Nat /\ 2 * t * b \in Nat /\ 2 * t * a <= 2 * t * b
<1>1. PICK d \in Nat : b = a + d
  <2>1. b - a \in Nat /\ b = a + (b - a)
    OBVIOUS
  <2>2. QED
    BY <2>1
<1>2. \A x, y \in Nat : x * y \in Nat
  OBVIOUS
<1>3. 2 * t \in Nat
  OBVIOUS
<1>4. (2 * t) * b = (2 * t) * a + (2 * t) * d
  BY <1>1, <1>3
<1>5. (2 * t) * a \in Nat /\ (2 * t) * b \in Nat /\ (2 * t) * d \in Nat
  BY <1>2, <1>3
<1>6. QED
  BY <1>4, <1>5

\* One entity with fewer results: hopeless or dear entities do not get better.
LEMMA WorseCostsMore ==
    ASSUME NEW w \in Figure, NEW m \in Figure, NoBetter(w, m), NEW target \in Nat, NEW p50
    PROVE  /\ EnoughSpend(m, target) <=> EnoughSpend(w, target)
           /\ ZeroConverter(m, target) => ZeroConverter(w, target)
           /\ ExpensiveConverter(m, target) =>
                ZeroConverter(w, target) \/ ExpensiveConverter(w, target)
           /\ EnoughDelivery(m) /\ DeadCreative(m, p50)
                <=> EnoughDelivery(w) /\ DeadCreative(w, p50)
           /\ 10 * ResultsOf(m) < 3 * m.days => 10 * ResultsOf(w) < 3 * w.days
<1>1. /\ ResultsOf(m) \in Nat /\ ResultsOf(w) \in Nat /\ ResultsOf(w) <= ResultsOf(m)
      /\ m.spend \in Nat /\ m.days \in Nat
      /\ w.spend = m.spend /\ w.days = m.days
  BY ResultsAreNumbers DEF NoBetter, Figure
<1>2. EnoughSpend(m, target) <=> EnoughSpend(w, target)
  BY <1>1 DEF EnoughSpend
<1>3. ZeroConverter(m, target) => ZeroConverter(w, target)
  BY <1>1 DEF ZeroConverter
<1>4. ExpensiveConverter(m, target) => ZeroConverter(w, target) \/ ExpensiveConverter(w, target)
  <2> SUFFICES ASSUME ExpensiveConverter(m, target)
               PROVE  ZeroConverter(w, target) \/ ExpensiveConverter(w, target)
    OBVIOUS
  <2>1. m.spend >= 5 * target /\ m.spend > 2 * target * ResultsOf(m)
    BY DEF ExpensiveConverter
  <2>2. CASE ResultsOf(w) = 0
    BY <1>1, <2>1, <2>2 DEF ZeroConverter
  <2>3. CASE ResultsOf(w) # 0
    <3>1. /\ 2 * target * ResultsOf(w) \in Nat /\ 2 * target * ResultsOf(m) \in Nat
          /\ 2 * target * ResultsOf(w) <= 2 * target * ResultsOf(m)
      BY <1>1, ProductsAreOrdered
    <3>2. w.spend > 2 * target * ResultsOf(w)
      BY <1>1, <2>1, <3>1
    <3>3. QED
      BY <1>1, <2>1, <2>3, <3>2 DEF ExpensiveConverter
  <2>4. QED
    BY <2>2, <2>3
<1>5. EnoughDelivery(m) /\ DeadCreative(m, p50) <=> EnoughDelivery(w) /\ DeadCreative(w, p50)
  BY DEF EnoughDelivery, DeadCreative, NoBetter
<1>6. 10 * ResultsOf(m) < 3 * m.days => 10 * ResultsOf(w) < 3 * w.days
  BY <1>1
<1>7. QED
  BY <1>2, <1>3, <1>4, <1>5, <1>6

\* Figures of the same entities, none of them better.
NoneBetter(worse, metrics) ==
    /\ DOMAIN worse = DOMAIN metrics /\ IsFiniteSet(DOMAIN metrics)
    /\ \A x \in DOMAIN metrics : /\ metrics[x] \in Figure /\ worse[x] \in Figure
                                 /\ NoBetter(worse[x], metrics[x])

LEMMA HygieneFalls ==
    ASSUME NEW worse, NEW metrics, NoneBetter(worse, metrics), NEW target \in Nat
    PROVE  /\ HygieneScore(worse, target) \in 0..100 /\ HygieneScore(metrics, target) \in 0..100
           /\ HygieneScore(worse, target) <= HygieneScore(metrics, target)
<1>0. /\ DOMAIN worse = DOMAIN metrics /\ IsFiniteSet(DOMAIN metrics) /\ IsFiniteSet(DOMAIN worse)
      /\ \A x \in DOMAIN metrics : metrics[x] \in Figure
      /\ \A x \in DOMAIN worse : worse[x] \in Figure
      /\ \A x \in DOMAIN metrics : NoBetter(worse[x], metrics[x])
  BY DEF NoneBetter
<1> DEFINE H == Hopeless(metrics, target)
           E == Dear(metrics, target)
           D == Dead(metrics, 35)
           WH == Hopeless(worse, target)
           WE == Dear(worse, target)
           WD == Dead(worse, 35)
<1>1. /\ H \subseteq DOMAIN metrics /\ E \subseteq DOMAIN metrics /\ D \subseteq DOMAIN metrics
      /\ WH \subseteq DOMAIN metrics /\ WE \subseteq DOMAIN metrics /\ WD \subseteq DOMAIN metrics
  BY <1>0 DEF Hopeless, Dear, Dead
<1>2. H \subseteq WH /\ E \subseteq WH \cup WE /\ WD = D
  <2>1. \A x \in DOMAIN metrics :
          /\ EnoughSpend(metrics[x], target) <=> EnoughSpend(worse[x], target)
          /\ ZeroConverter(metrics[x], target) => ZeroConverter(worse[x], target)
          /\ ExpensiveConverter(metrics[x], target) =>
               ZeroConverter(worse[x], target) \/ ExpensiveConverter(worse[x], target)
          /\ EnoughDelivery(metrics[x]) /\ DeadCreative(metrics[x], 35)
               <=> EnoughDelivery(worse[x]) /\ DeadCreative(worse[x], 35)
    BY <1>0, WorseCostsMore
  <2>2. QED
    BY <1>0, <2>1 DEF Hopeless, Dear, Dead
<1>3. H \cap E = {} /\ WH \cap WE = {}
  BY <1>0, HopelessIsNotDear
<1> DEFINE h == Cardinality(H)
           e == Cardinality(E)
           d == Cardinality(D)
           wh == Cardinality(WH)
           we == Cardinality(WE)
<1>4. /\ HygieneScore(metrics, target)
           = IF DOMAIN metrics = {} THEN 50 ELSE AtLeast(0, 100 - 25 * h - 10 * (e + d))
      /\ HygieneScore(worse, target)
           = IF DOMAIN metrics = {} THEN 50 ELSE AtLeast(0, 100 - 25 * wh - 10 * (we + Cardinality(WD)))
  BY <1>0, CountOfFindings DEF HygieneScore
<1> HIDE DEF H, E, D, WH, WE, WD
<1>5. /\ IsFiniteSet(H) /\ IsFiniteSet(E) /\ IsFiniteSet(D) /\ IsFiniteSet(WH) /\ IsFiniteSet(WE)
      /\ h \in Nat /\ e \in Nat /\ d \in Nat /\ wh \in Nat /\ we \in Nat
  BY <1>0, <1>1, FS_Subset, FS_CardinalityType
<1>6. h <= wh
  BY <1>2, <1>5, FS_Subset
<1>7. h + e <= wh + we
  <2>1. IsFiniteSet(H \cup E) /\ Cardinality(H \cup E) = h + e - Cardinality(H \cap E)
    BY <1>5, FS_Union
  <2>2. IsFiniteSet(WH \cup WE) /\ Cardinality(WH \cup WE) = wh + we - Cardinality(WH \cap WE)
    BY <1>5, FS_Union
  <2>3. Cardinality(H \cap E) = 0 /\ Cardinality(WH \cap WE) = 0
    BY <1>3, FS_EmptySet
  <2>4. H \cup E \in SUBSET (WH \cup WE)
    BY <1>2
  <2>5. Cardinality(H \cup E) <= Cardinality(WH \cup WE)
    BY <2>2, <2>4, FS_Subset
  <2>6. QED
    BY <1>5, <2>1, <2>2, <2>3, <2>5
<1>8. Cardinality(WD) = d
  BY <1>2
<1> HIDE DEF h, e, d, wh, we
<1>9. 25 * h + 10 * (e + d) <= 25 * wh + 10 * (we + d)
  BY <1>5, <1>6, <1>7
<1> DEFINE n == 100 - 25 * h - 10 * (e + d)
           wn == 100 - 25 * wh - 10 * (we + d)
<1>10. n \in Int /\ wn \in Int /\ wn <= n /\ n <= 100
  BY <1>5, <1>9
<1> HIDE DEF n, wn
<1>11. /\ AtLeast(0, n) = (IF n < 0 THEN 0 ELSE n)
       /\ AtLeast(0, wn) = (IF wn < 0 THEN 0 ELSE wn)
  BY <1>10, FloorProperties
<1>12. /\ HygieneScore(metrics, target) = IF DOMAIN metrics = {} THEN 50 ELSE AtLeast(0, n)
       /\ HygieneScore(worse, target) = IF DOMAIN metrics = {} THEN 50 ELSE AtLeast(0, wn)
  BY <1>4, <1>8 DEF n, wn
<1>13. CASE DOMAIN metrics = {}
  BY <1>12, <1>13
<1>14. CASE DOMAIN metrics # {}
  <2>1. /\ HygieneScore(metrics, target) = IF n < 0 THEN 0 ELSE n
        /\ HygieneScore(worse, target) = IF wn < 0 THEN 0 ELSE wn
    BY <1>11, <1>12, <1>14
  <2>2. QED
    BY <1>10, <2>1
<1>15. QED
  BY <1>13, <1>14

LEMMA SufficiencyFalls ==
    ASSUME NEW worse, NEW metrics, NoneBetter(worse, metrics), NEW live
    PROVE  /\ SufficiencyScore(live, worse) \in 0..100 /\ SufficiencyScore(live, metrics) \in 0..100
           /\ SufficiencyScore(live, worse) <= SufficiencyScore(live, metrics)
<1> DEFINE U == Underfunded(live, metrics)
           W == Underfunded(live, worse)
           u == Cardinality(U)
           w == Cardinality(W)
<1>1. U \in SUBSET W /\ W \in SUBSET DOMAIN metrics
  <2>1. \A x \in DOMAIN metrics :
          /\ worse[x].days = metrics[x].days
          /\ 10 * ResultsOf(metrics[x]) < 3 * metrics[x].days
               => 10 * ResultsOf(worse[x]) < 3 * worse[x].days
    <3> TAKE x \in DOMAIN metrics
    <3>1. metrics[x] \in Figure /\ worse[x] \in Figure /\ NoBetter(worse[x], metrics[x])
      BY DEF NoneBetter
    <3>2. QED
      BY <3>1, WorseCostsMore, 0 \in Nat DEF NoBetter
  <2>2. QED
    BY <2>1 DEF Underfunded, NoneBetter
<1>2. IsFiniteSet(W) /\ IsFiniteSet(U)
  BY <1>1, FS_Subset DEF NoneBetter
<1>3. u \in Nat /\ w \in Nat /\ u <= w
  BY <1>1, <1>2, FS_Subset, FS_CardinalityType
<1>4. /\ SufficiencyScore(live, metrics) = IF u = 0 THEN 100 ELSE AtLeast(30, 100 - 25 * u)
      /\ SufficiencyScore(live, worse) = IF w = 0 THEN 100 ELSE AtLeast(30, 100 - 25 * w)
  BY DEF SufficiencyScore
<1> HIDE DEF u, w
<1>5. /\ AtLeast(30, 100 - 25 * u) = (IF 100 - 25 * u < 30 THEN 30 ELSE 100 - 25 * u)
      /\ AtLeast(30, 100 - 25 * w) = (IF 100 - 25 * w < 30 THEN 30 ELSE 100 - 25 * w)
  <2>1. 100 - 25 * u \in Int /\ 100 - 25 * w \in Int /\ 30 \in Nat
    BY <1>3
  <2>2. QED
    BY <2>1, FloorProperties
<1>6. QED
  BY <1>3, <1>4, <1>5

LEMMA StructureIsScore ==
    ASSUME NEW live, IsFiniteSet(DOMAIN live)
    PROVE  StructureScore(live) \in 0..100
<1> DEFINE n == Cardinality({c \in DOMAIN live : live[c] > 4})
<1>1. n \in Nat
  BY FS_Subset, FS_CardinalityType
<1>2. StructureScore(live) = AtLeast(0, 100 - 15 * n)
  BY DEF StructureScore
<1> HIDE DEF n
<1>3. AtLeast(0, 100 - 15 * n) = (IF 100 - 15 * n < 0 THEN 0 ELSE 100 - 15 * n)
  BY <1>1, FloorProperties
<1>4. QED
  BY <1>1, <1>2, <1>3

\* Fewer results at the same cost, of any number of entities at once, never raise the health
\* score, whatever the account has and whatever the target. Results are the conversions, or
\* the leads of an entity without any: conversions that fall to zero are fewer results only
\* when no more leads remain than there were conversions (auditAccount).
THEOREM WorseResultsNeverRaiseTheScore ==
    ASSUME NEW worse, NEW metrics, NoneBetter(worse, metrics), NEW target \in Nat,
           NEW live, IsFiniteSet(DOMAIN live), NEW facts \in AccountFacts
    PROVE  AuditScore(facts, Delivery(live, worse, target))
             <= AuditScore(facts, Delivery(live, metrics, target))
<1> DEFINE before == Delivery(live, metrics, target)
           after == Delivery(live, worse, target)
           points(d) == Points(TrackingScore(facts), CreativeScore(facts), d.hygiene,
                               AudienceScore(facts), d.sufficiency, d.structure)
<1>1. PICK h \in 0..100, wh \in 0..100, s \in 0..100, ws \in 0..100, r \in 0..100 :
        /\ before.hygiene = h /\ after.hygiene = wh /\ wh <= h
        /\ before.sufficiency = s /\ after.sufficiency = ws /\ ws <= s
        /\ before.structure = r /\ after.structure = r
  BY HygieneFalls, SufficiencyFalls, StructureIsScore DEF Delivery
<1>2. PICK t \in 0..100, c \in 0..100, a \in 0..100 :
        TrackingScore(facts) = t /\ CreativeScore(facts) = c /\ AudienceScore(facts) = a
  BY FactScores
<1>3. points(before) = Points(t, c, h, a, s, r) /\ points(after) = Points(t, c, wh, a, ws, r)
  BY <1>1, <1>2
<1>4. AuditScore(facts, before) = points(before) \div 100 /\ AuditScore(facts, after) = points(after) \div 100
  BY DEF AuditScore, Points
<1> HIDE DEF points, before, after
<1>5. points(before) \in Nat /\ points(after) \in Nat /\ points(after) <= points(before)
  BY <1>1, <1>3 DEF Points
<1>6. QED
  BY <1>4, <1>5, Quotients DEF before, after
-----------------------------------------------------------------------------
(* The audit of what was synced.                                           *)

LEMMA TargetIsNumber ==
    ASSUME NEW vertical
    PROVE  TargetCpa(vertical) \in Nat
<1>1. \A v \in DOMAIN TypicalCpl : TypicalCpl[v] \in Nat
  BY DEF TypicalCpl
<1>2. QED
  BY <1>1 DEF TargetCpa

LEMMA MetricsAreFigures ==
    ASSUME TypeOK
    PROVE  /\ DOMAIN Metrics \in SUBSET Entities /\ IsFiniteSet(DOMAIN Metrics)
           /\ \A x \in DOMAIN Metrics : Metrics[x] \in Figure
<1>1. DOMAIN Metrics = {x \in Entities : Figures(x, RuleWindow) # {}}
  BY DEF Metrics
<1>2. IsFiniteSet(DOMAIN Metrics)
  BY <1>1, EntitiesAreFinite, FS_Subset
<1>3. ASSUME NEW x \in DOMAIN Metrics
      PROVE  Metrics[x] \in Figure
  <2> DEFINE line == [p \in Figures(x, RuleWindow) |-> Conversions(rows[x][p].result)]
             conversions == SumFunctionOnSet(line, Figures(x, RuleWindow))
  <2>1. \A p \in Figures(x, RuleWindow) : line[p] \in Nat
    <3> TAKE p \in Figures(x, RuleWindow)
    <3>1. p \in Days /\ rows[x][p] # None /\ x \in Entities
      BY <1>1, FiguresOfRecent DEF Figures
    <3>2. rows[x][p].result \in Results
      BY <3>1 DEF TypeOK
    <3>3. QED
      BY <3>2, ResultsAssumption DEF Conversions
  <2>2. Metrics[x] = [level |-> "CAMPAIGN",
                      spend |-> Total(x, RuleWindow, "spend"),
                      impressions |-> Total(x, RuleWindow, "impressions"),
                      reach |-> Total(x, RuleWindow, "reach"),
                      clicks |-> Total(x, RuleWindow, "clicks"),
                      leads |-> Total(x, RuleWindow, "leads"),
                      conversions |-> conversions,
                      days |-> Cardinality(Figures(x, RuleWindow))]
    BY <1>1 DEF Metrics, MetricsOf, Total, SumFunction
  <2> HIDE DEF line
  <2>3. conversions \in Nat
    BY <2>1, FiguresOfRecent, SumIsNumber
  <2> HIDE DEF conversions
  <2>4. /\ Total(x, RuleWindow, "spend") \in Nat /\ Total(x, RuleWindow, "impressions") \in Nat
        /\ Total(x, RuleWindow, "reach") \in Nat /\ Total(x, RuleWindow, "clicks") \in Nat
        /\ Total(x, RuleWindow, "leads") \in Nat /\ Cardinality(Figures(x, RuleWindow)) \in Nat
    BY <1>1, TotalIsNumber, FiguresOfRecent, FS_CardinalityType
  <2>5. QED
    BY <2>2, <2>3, <2>4 DEF Figure
<1>4. QED
  BY <1>1, <1>2, <1>3

LEMMA WorseIsNoBetter ==
    ASSUME NEW m \in Figure, NEW w \in Worse(m)
    PROVE  w \in Figure /\ NoBetter(w, m)
<1>1. PICK v \in {0, m.leads} \X {0, m.conversions \div 2, m.conversions} :
        /\ w = [m EXCEPT !.leads = v[1], !.conversions = v[2]]
        /\ (v[2] = 0 /\ m.conversions > 0) => v[1] <= m.conversions
  BY DEF Worse
<1>2. /\ m.leads \in Nat /\ m.conversions \in Nat
      /\ m.conversions \div 2 \in Nat /\ m.conversions \div 2 <= m.conversions
  BY DEF Figure
<1>3. /\ v[1] \in Nat /\ v[2] \in Nat /\ v[1] <= m.leads /\ v[2] <= m.conversions
  BY <1>2
<1>4. /\ w.leads = v[1] /\ w.conversions = v[2]
      /\ w.level = m.level /\ w.spend = m.spend /\ w.impressions = m.impressions
      /\ w.reach = m.reach /\ w.clicks = m.clicks /\ w.days = m.days
      /\ w \in Figure
  BY <1>1, <1>3 DEF Figure
<1>5. ResultsOf(w) <= ResultsOf(m)
  BY <1>1, <1>2, <1>3, <1>4 DEF ResultsOf
<1>6. QED
  BY <1>4, <1>5 DEF NoBetter

\* Of whatever was synced, the audit never pays for worse results of an entity (see Worse for
\* what it leaves out), nor for an asset that is missing (auditAccount).
THEOREM AuditIsMonotoneAlways == Spec => []AuditIsMonotone
<1>1. ASSUME SyncInvariant
      PROVE  AuditIsMonotone
  <2> DEFINE target == TargetCpa(Vertical)
  <2>0. /\ IsFiniteSet(DOMAIN Metrics) /\ \A x \in DOMAIN Metrics : Metrics[x] \in Figure
        /\ target \in Nat /\ Facts \subseteq AccountFacts
    BY <1>1, MetricsAreFigures, TargetIsNumber, FactsAssumption
       DEF SyncInvariant, Typed, AccountFacts
  <2>1. IsFiniteSet(DOMAIN Live)
    BY InsightsAssumption, FS_Subset DEF Live
  <2> DEFINE metrics == Metrics
             delivered == Delivered(metrics)
  <2>2. \A any : Delivered(any) = Delivery(Live, any, target)
    BY DEF Delivered
  <2> HIDE DEF target, metrics
  <2>3. IsFiniteSet(DOMAIN metrics) /\ \A x \in DOMAIN metrics : metrics[x] \in Figure
    BY <2>0 DEF metrics
  <2>4. delivered \in Scores
    <3>1. \A x \in DOMAIN metrics : NoBetter(metrics[x], metrics[x])
      BY <2>3, ResultsAreNumbers DEF NoBetter
    <3>2. NoneBetter(metrics, metrics)
      BY <2>3, <3>1 DEF NoneBetter
    <3>3. /\ HygieneScore(metrics, target) \in 0..100 /\ SufficiencyScore(Live, metrics) \in 0..100
          /\ StructureScore(Live) \in 0..100
      BY <2>0, <2>1, <3>2, HygieneFalls, SufficiencyFalls, StructureIsScore
    <3>4. QED
      BY <2>2, <3>3 DEF Delivery, Scores
  <2> HIDE DEF delivered
  <2>5. \A f, g \in Facts : AtLeastAsGood(g, f) =>
          AuditScore(g, delivered) >= AuditScore(f, delivered)
    BY <2>0, <2>4, FixesNeverLowerTheScore DEF AtLeastAsGood
  <2>6. ASSUME NEW x \in DOMAIN metrics, NEW m \in Worse(metrics[x]), NEW f \in Facts
        PROVE  AuditScore(f, Delivered([metrics EXCEPT ![x] = m])) <= AuditScore(f, delivered)
    <3> DEFINE worse == [metrics EXCEPT ![x] = m]
    <3>1. m \in Figure /\ NoBetter(m, metrics[x])
      BY <2>3, WorseIsNoBetter
    <3>2. DOMAIN worse = DOMAIN metrics /\ \A y \in DOMAIN metrics : worse[y] = IF y = x THEN m ELSE metrics[y]
      OBVIOUS
    <3> HIDE DEF worse
    <3>3. \A y \in DOMAIN metrics : NoBetter(metrics[y], metrics[y])
      BY <2>3, ResultsAreNumbers DEF NoBetter
    <3>4. NoneBetter(worse, metrics)
      BY <2>3, <3>1, <3>2, <3>3 DEF NoneBetter
    <3>5. /\ Delivered(worse) = Delivery(Live, worse, target)
          /\ delivered = Delivery(Live, metrics, target)
      BY <2>2 DEF delivered
    <3>6. f \in AccountFacts
      BY <2>0
    <3>7. AuditScore(f, Delivery(Live, worse, target)) <= AuditScore(f, Delivery(Live, metrics, target))
      BY <2>0, <2>1, <3>4, <3>6, WorseResultsNeverRaiseTheScore
    <3>8. QED
      BY <3>5, <3>7 DEF worse
  <2>7. QED
    BY <2>5, <2>6 DEF AuditIsMonotone, metrics, delivered
<1>2. QED
  BY <1>1, SyncAlways, PTL
=============================================================================
