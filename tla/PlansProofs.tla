---------------------------- MODULE PlansProofs ----------------------------
EXTENDS Plans, Integers, FiniteSetTheorems, WellFoundedInduction, TLAPS

\* A set of numbers has a least one: the form in which induction is used below.
LEMMA LeastNat ==
    ASSUME NEW S, S \subseteq Nat, S # {}
    PROVE  \E m \in S : \A k \in S : m <= k
<1> DEFINE R == {p \in Nat \X Nat : p[1] < p[2]}
<1>1. OpToRel(<, Nat) = R
  BY DEF OpToRel
<1>2. IsWellFoundedOn(R, Nat)
  BY <1>1, NatLessThanWellFounded
<1>3. \A k, m \in Nat : k < m => <<k, m>> \in R
  OBVIOUS
<1> HIDE DEF R
<1>4. PICK m \in S : \A k \in S : <<k, m>> \notin R
  BY <1>2, WFMin
<1>5. ASSUME NEW k \in S PROVE m <= k
  <2>1. k \in Nat /\ m \in Nat
    OBVIOUS
  <2>2. ~(k < m)
    BY <1>3, <1>4, <2>1
  <2> QED
    BY <2>1, <2>2
<1> QED
  BY <1>5

LEMMA SmallestSubset ==
    ASSUME NEW S, IsFiniteSet(S), NEW B, B \subseteq SUBSET S, B # {}
    PROVE  \E s \in B : \A x \in s : s \ {x} \notin B
<1> DEFINE Sizes == {Cardinality(s) : s \in B}
<1>1. \A s \in B : IsFiniteSet(s) /\ Cardinality(s) \in Nat
  BY FS_Subset, FS_CardinalityType
<1>2. PICK m \in Sizes : \A k \in Sizes : m <= k
  <2>1. Sizes \subseteq Nat /\ Sizes # {}
    BY <1>1
  <2> HIDE DEF Sizes
  <2> QED
    BY <2>1, LeastNat
<1>3. PICK s \in B : m = Cardinality(s)
  OBVIOUS
<1>4. ASSUME NEW x \in s PROVE s \ {x} \notin B
  <2>1. Cardinality(s \ {x}) = Cardinality(s) - 1
    BY <1>1, FS_RemoveElement
  <2>2. SUFFICES ASSUME s \ {x} \in B PROVE FALSE
    OBVIOUS
  <2>3. m <= Cardinality(s \ {x})
    BY <1>2, <2>2
  <2> QED
    BY <1>1, <1>3, <2>1, <2>3
<1> QED
  BY <1>4
----------------------------------------------------------------------------
(* Sums over finite sets. *)

SumBody(f, s, sum) ==
    IF s = {} THEN 0
    ELSE f[CHOOSE x \in s : TRUE] + sum[s \ {CHOOSE x \in s : TRUE}]

\* SumFunctionOnSet is defined by recursion on the subsets; the recursion is sound.
LEMMA SumEquation ==
    ASSUME NEW S, IsFiniteSet(S), NEW f
    PROVE  \E sum : /\ sum = [s \in SUBSET S |-> SumBody(f, s, sum)]
                    /\ SumFunctionOnSet(f, S) = sum[S]
<1> DEFINE Upto(k) == {s \in SUBSET S : Cardinality(s) <= k}
           Good(k) == \E sum : sum = [s \in Upto(k) |-> SumBody(f, s, sum)]
           Bad == {k \in Nat : ~Good(k)}
<1>1. \A s \in SUBSET S : IsFiniteSet(s) /\ Cardinality(s) \in Nat /\ Cardinality(s) <= Cardinality(S)
  BY FS_Subset, FS_CardinalityType
<1>2. Cardinality(S) \in Nat
  BY FS_CardinalityType
<1>3. ASSUME Bad # {} PROVE FALSE
  <2>1. PICK m \in Bad : \A k \in Bad : m <= k
    <3>1. Bad \subseteq Nat
      OBVIOUS
    <3> HIDE DEF Bad
    <3> QED
      BY <1>3, <3>1, LeastNat
  <2>2. m # 0
    <3>1. Upto(0) = {{}}
      BY <1>1, FS_EmptySet
    <3>2. [s \in Upto(0) |-> 0] = [s \in Upto(0) |-> SumBody(f, s, [s1 \in Upto(0) |-> 0])]
      BY <3>1 DEF SumBody
    <3> QED
      BY <3>2
  <2>3. m \in Nat /\ m - 1 \in Nat /\ m - 1 \notin Bad
    <3>1. m \in Nat
      OBVIOUS
    <3>2. m - 1 \in Nat /\ ~(m <= m - 1)
      BY <2>2, <3>1
    <3> QED
      BY <2>1, <3>1, <3>2
  <2>4. PICK it : it = [s \in Upto(m - 1) |-> SumBody(f, s, it)]
    BY <2>3
  <2> DEFINE new == [s \in Upto(m) |-> SumBody(f, s, it)]
  <2>5. \A s \in Upto(m - 1) : s \in Upto(m) /\ new[s] = it[s]
    <3>1. \A s \in Upto(m - 1) : s \in Upto(m)
      BY <1>1, <2>3
    <3>2. \A s \in Upto(m - 1) : it[s] = SumBody(f, s, it)
      BY <2>4
    <3> QED
      BY <3>1, <3>2
  <2>6. ASSUME NEW s \in Upto(m), NEW x \in s PROVE s \ {x} \in Upto(m - 1)
    <3>1. Cardinality(s \ {x}) = Cardinality(s) - 1 /\ Cardinality(s) <= m /\ Cardinality(s) \in Nat
      BY <1>1, FS_RemoveElement
    <3> QED
      BY <2>3, <3>1
  <2>7. ASSUME NEW s \in Upto(m) PROVE SumBody(f, s, it) = SumBody(f, s, new)
    <3>1. CASE s = {}
      BY <3>1 DEF SumBody
    <3>2. CASE s # {}
      <4> DEFINE x == CHOOSE y \in s : TRUE
      <4>1. x \in s
        BY <3>2
      <4>2. new[s \ {x}] = it[s \ {x}]
        BY <2>5, <2>6, <4>1
      <4> QED
        BY <3>2, <4>2 DEF SumBody
    <3> QED
      BY <3>1, <3>2
  <2>8. new = [s \in Upto(m) |-> SumBody(f, s, new)]
    BY <2>7
  <2>9. Good(m)
    <3> HIDE DEF new
    <3> QED
      BY <2>8
  <2> QED
    BY <2>9
<1>4. Upto(Cardinality(S)) = SUBSET S
  BY <1>1
<1>5. \E sum : sum = [s \in SUBSET S |-> SumBody(f, s, sum)]
  <2>1. Good(Cardinality(S))
    BY <1>2, <1>3
  <2> QED
    BY <1>4, <2>1
<1>6. SumFunctionOnSet(f, S) =
        (CHOOSE sum : sum = [s \in SUBSET S |-> SumBody(f, s, sum)])[S]
  BY DEF SumFunctionOnSet, FoldFunctionOnSet, MapThenFoldSet, SumBody
<1> DEFINE sum == CHOOSE sum : sum = [s \in SUBSET S |-> SumBody(f, s, sum)]
<1>7. sum = [s \in SUBSET S |-> SumBody(f, s, sum)]
  BY <1>5
<1> QED
  BY <1>6, <1>7

LEMMA SumMonotone ==
    ASSUME NEW S, IsFiniteSet(S), NEW f \in [S -> Nat], NEW g \in [S -> Nat],
           \A x \in S : f[x] <= g[x]
    PROVE  /\ SumFunctionOnSet(f, S) \in Nat /\ SumFunctionOnSet(g, S) \in Nat
           /\ SumFunctionOnSet(f, S) <= SumFunctionOnSet(g, S)
<1>1. PICK sumF : /\ sumF = [s \in SUBSET S |-> SumBody(f, s, sumF)]
                  /\ SumFunctionOnSet(f, S) = sumF[S]
  BY SumEquation
<1>2. PICK sumG : /\ sumG = [s \in SUBSET S |-> SumBody(g, s, sumG)]
                  /\ SumFunctionOnSet(g, S) = sumG[S]
  BY SumEquation
<1> DEFINE Bad == {s \in SUBSET S : ~(sumF[s] \in Nat /\ sumG[s] \in Nat /\ sumF[s] <= sumG[s])}
<1>3. ASSUME Bad # {} PROVE FALSE
  <2>1. PICK s \in Bad : \A x \in s : s \ {x} \notin Bad
    <3>1. Bad \subseteq SUBSET S
      OBVIOUS
    <3> HIDE DEF Bad
    <3> QED
      BY <1>3, <3>1, SmallestSubset
  <2>2. sumF[s] = SumBody(f, s, sumF) /\ sumG[s] = SumBody(g, s, sumG)
    BY <1>1, <1>2
  <2>3. CASE s = {}
    BY <2>2, <2>3 DEF SumBody
  <2>4. CASE s # {}
    <3> DEFINE x == CHOOSE y \in s : TRUE
    <3>1. x \in s
      BY <2>4
    <3> HIDE DEF Bad
    <3>2. s \ {x} \notin Bad
      BY <2>1, <3>1
    <3>3. /\ sumF[s \ {x}] \in Nat /\ sumG[s \ {x}] \in Nat /\ sumF[s \ {x}] <= sumG[s \ {x}]
          /\ f[x] \in Nat /\ g[x] \in Nat /\ f[x] <= g[x]
      BY <3>1, <3>2 DEF Bad
    <3>4. sumF[s] = f[x] + sumF[s \ {x}] /\ sumG[s] = g[x] + sumG[s \ {x}]
      BY <2>2, <2>4 DEF SumBody
    <3> HIDE DEF x
    <3>5. sumF[s] \in Nat /\ sumG[s] \in Nat /\ sumF[s] <= sumG[s]
      BY <3>3, <3>4
    <3> QED
      BY <3>5 DEF Bad
  <2> QED
    BY <2>3, <2>4
<1> QED
  BY <1>1, <1>2, <1>3

LEMMA SumAtLeast ==
    ASSUME NEW S, IsFiniteSet(S), NEW f \in [S -> Nat], NEW x \in S
    PROVE  SumFunctionOnSet(f, S) >= f[x]
<1>1. PICK sum : /\ sum = [s \in SUBSET S |-> SumBody(f, s, sum)]
                 /\ SumFunctionOnSet(f, S) = sum[S]
  BY SumEquation
<1> DEFINE Bad == {s \in SUBSET S : ~(sum[s] \in Nat /\ (x \in s => sum[s] >= f[x]))}
<1>2. ASSUME Bad # {} PROVE FALSE
  <2>1. PICK s \in Bad : \A y \in s : s \ {y} \notin Bad
    <3>1. Bad \subseteq SUBSET S
      OBVIOUS
    <3> HIDE DEF Bad
    <3> QED
      BY <1>2, <3>1, SmallestSubset
  <2>2. sum[s] = SumBody(f, s, sum)
    BY <1>1
  <2>3. CASE s = {}
    BY <2>2, <2>3 DEF SumBody
  <2>4. CASE s # {}
    <3> DEFINE y == CHOOSE z \in s : TRUE
    <3>1. y \in s
      BY <2>4
    <3> HIDE DEF Bad
    <3>2. s \ {y} \notin Bad
      BY <2>1, <3>1
    <3>3. /\ sum[s \ {y}] \in Nat /\ (x \in s \ {y} => sum[s \ {y}] >= f[x])
          /\ f[y] \in Nat /\ f[x] \in Nat
      BY <3>1, <3>2 DEF Bad
    <3>4. sum[s] = f[y] + sum[s \ {y}]
      BY <2>2, <2>4 DEF SumBody
    <3> HIDE DEF y
    <3>5. sum[s] \in Nat /\ (x \in s => sum[s] >= f[x])
      BY <3>3, <3>4
    <3> QED
      BY <3>5 DEF Bad
  <2> QED
    BY <2>3, <2>4
<1> QED
  BY <1>1, <1>2

LEMMA SumPositive ==
    ASSUME NEW S, IsFiniteSet(S), NEW f \in [S -> Nat], SumFunctionOnSet(f, S) > 0
    PROVE  \E x \in S : f[x] > 0
<1> SUFFICES ASSUME \A x \in S : ~(f[x] > 0) PROVE FALSE
  OBVIOUS
<1>0. \A x \in S : f[x] = 0
  <2> SUFFICES ASSUME NEW x \in S PROVE f[x] = 0
    OBVIOUS
  <2>1. f[x] \in Nat /\ ~(f[x] > 0)
    OBVIOUS
  <2> QED
    BY <2>1
<1>1. PICK sum : /\ sum = [s \in SUBSET S |-> SumBody(f, s, sum)]
                 /\ SumFunctionOnSet(f, S) = sum[S]
  BY SumEquation
<1> DEFINE Bad == {s \in SUBSET S : sum[s] # 0}
<1>2. ASSUME Bad # {} PROVE FALSE
  <2>1. PICK s \in Bad : \A y \in s : s \ {y} \notin Bad
    <3>1. Bad \subseteq SUBSET S
      OBVIOUS
    <3> HIDE DEF Bad
    <3> QED
      BY <1>2, <3>1, SmallestSubset
  <2>2. sum[s] = SumBody(f, s, sum)
    BY <1>1
  <2>3. CASE s = {}
    BY <2>2, <2>3 DEF SumBody
  <2>4. CASE s # {}
    <3> DEFINE y == CHOOSE z \in s : TRUE
    <3>1. y \in s
      BY <2>4
    <3> HIDE DEF Bad
    <3>2. s \ {y} \notin Bad
      BY <2>1, <3>1
    <3>3. sum[s \ {y}] = 0 /\ f[y] = 0
      BY <1>0, <3>1, <3>2 DEF Bad
    <3>4. sum[s] = f[y] + sum[s \ {y}]
      BY <2>2, <2>4 DEF SumBody
    <3> HIDE DEF y
    <3>5. sum[s] = 0
      BY <3>3, <3>4
    <3> QED
      BY <3>5 DEF Bad
  <2> QED
    BY <2>3, <2>4
<1>3. sum[S] = 0
  BY <1>2
<1> QED
  BY <1>1, <1>3
----------------------------------------------------------------------------
(* The measures of a plan. *)

LEMMA ChildrenBelow ==
    \A n \in Nodes : /\ Children(n) \subseteq Nodes /\ IsFiniteSet(Children(n))
                     /\ \A m \in Children(n) : m < n /\ Copies[n][m] \in Nat \ {0}
<1>1. IsFiniteSet(Nodes)
  BY FS_Interval, NodesAssumption DEF Nodes
<1> SUFFICES ASSUME NEW n \in Nodes
             PROVE  /\ Children(n) \subseteq Nodes /\ IsFiniteSet(Children(n))
                    /\ \A m \in Children(n) : m < n /\ Copies[n][m] \in Nat \ {0}
  OBVIOUS
<1>2. Children(n) \subseteq Nodes
  BY DEF Children
<1>3. \A m \in Children(n) : m < n /\ Copies[n][m] \in Nat \ {0}
  <2> SUFFICES ASSUME NEW m \in Children(n) PROVE m < n /\ Copies[n][m] \in Nat \ {0}
    OBVIOUS
  <2>1. m \in Nodes /\ Copies[n][m] > 0 /\ Copies[n][m] \in Nat
    BY NodesAssumption DEF Children
  <2> QED
    BY <2>1, NodesAssumption
<1> QED
  BY <1>1, <1>2, <1>3, FS_Subset

\* In a set of nodes there is one without children in the set.
LEMMA LowestNode ==
    ASSUME NEW B, B \subseteq Nodes, B # {}
    PROVE  \E n \in B : \A m \in Children(n) : m \notin B
<1>1. B \subseteq Nat
  BY DEF Nodes
<1>2. PICK n \in B : \A m \in B : n <= m
  BY <1>1, LeastNat
<1>3. ASSUME NEW m \in Children(n), m \in B PROVE FALSE
  <2>1. m < n /\ m \in Nat /\ n \in Nat
    BY <1>1, <1>3, ChildrenBelow
  <2>2. n <= m
    BY <1>2, <1>3
  <2> QED
    BY <2>1, <2>2
<1> QED
  BY <1>3

Terms(total, n) == [m \in Children(n) |-> Copies[n][m] * total[m]]

TotalBody(measure, scan, cached, total, n) ==
    IF n \in cached THEN scan[n] ELSE measure[n] + SumFunctionOnSet(Terms(total, n), Children(n))

\* The recursion of Total is sound: a node is above its children.
LEMMA TotalEquation ==
    ASSUME NEW measure, NEW scan, NEW cached
    PROVE  \A n \in Nodes :
             Total(measure, scan, cached)[n]
               = TotalBody(measure, scan, cached, Total(measure, scan, cached), n)
<1> DEFINE Body(total, n) == TotalBody(measure, scan, cached, total, n)
           Good(k) == \E total : total = [n \in 1..k |-> Body(total, n)]
           Bad == {k \in 0..NumNodes : ~Good(k)}
<1>1. ASSUME Bad # {} PROVE FALSE
  <2>1. PICK k \in Bad : \A i \in Bad : k <= i
    <3>1. Bad \subseteq Nat
      BY NodesAssumption
    <3> HIDE DEF Bad
    <3> QED
      BY <1>1, <3>1, LeastNat
  <2>2. k # 0
    <3>1. [n \in 1..0 |-> 0] = [n \in 1..0 |-> Body([n1 \in 1..0 |-> 0], n)]
      OBVIOUS
    <3> QED
      BY <3>1
  <2>3. k \in 1..NumNodes /\ k - 1 \in 0..NumNodes /\ ~(k <= k - 1)
    BY <2>2, NodesAssumption
  <2>4. PICK total : total = [n \in 1..(k - 1) |-> Body(total, n)]
    BY <2>1, <2>3
  <2> DEFINE new == [n \in 1..k |-> Body(total, n)]
  <2>5. \A n \in 1..(k - 1) : new[n] = total[n]
    <3>1. \A n \in 1..(k - 1) : total[n] = Body(total, n)
      BY <2>4
    <3>2. \A n \in 1..(k - 1) : n \in 1..k
      BY <2>3
    <3> QED
      BY <3>1, <3>2
  <2>6. ASSUME NEW n \in 1..k PROVE Body(total, n) = Body(new, n)
    <3>1. n \in Nodes
      BY <2>3, NodesAssumption DEF Nodes
    <3>2. \A m \in Children(n) : m \in 1..(k - 1)
      BY <2>3, <3>1, ChildrenBelow, NodesAssumption DEF Nodes
    <3> HIDE DEF new
    <3>3. Terms(total, n) = Terms(new, n)
      BY <2>5, <3>2 DEF Terms
    <3> QED
      BY <3>3 DEF TotalBody
  <2>7. new = [n \in 1..k |-> Body(new, n)]
    BY <2>6
  <2>8. Good(k)
    <3> HIDE DEF new, Body
    <3> QED
      BY <2>7
  <2> QED
    BY <2>8
<1>2. Good(NumNodes)
  <2>1. NumNodes \in 0..NumNodes
    BY NodesAssumption
  <2> HIDE DEF Good
  <2> QED
    BY <1>1, <2>1
<1> DEFINE total == CHOOSE total : total = [n \in Nodes |-> Body(total, n)]
<1>3. total = [n \in Nodes |-> Body(total, n)]
  BY <1>2 DEF Nodes
<1>4. Total(measure, scan, cached) = total
  BY DEF Total, TotalBody, Terms
<1> HIDE DEF total
<1> QED
  BY <1>3, <1>4

LEMMA TotalParts ==
    ASSUME NEW measure \in [Nodes -> Nat], NEW scan \in [Nodes -> Nat], NEW cached, NEW n \in Nodes
    PROVE  LET total == Total(measure, scan, cached)
           IN /\ n \in cached => total[n] = scan[n]
              /\ n \notin cached =>
                   total[n] = measure[n] + SumFunctionOnSet(Terms(total, n), Children(n))
BY TotalEquation DEF TotalBody

LEMMA TotalType ==
    ASSUME NEW measure \in [Nodes -> Nat], NEW scan \in [Nodes -> Nat], NEW cached
    PROVE  \A n \in Nodes : Total(measure, scan, cached)[n] \in Nat
<1> DEFINE total == Total(measure, scan, cached)
           Bad == {n \in Nodes : total[n] \notin Nat}
<1> HIDE DEF total
<1>1. ASSUME Bad # {} PROVE FALSE
  <2>1. PICK n \in Bad : \A m \in Children(n) : m \notin Bad
    <3>1. Bad \subseteq Nodes
      OBVIOUS
    <3> HIDE DEF Bad
    <3> QED
      BY <1>1, <3>1, LowestNode
  <2>2. \A m \in Children(n) : total[m] \in Nat /\ Copies[n][m] \in Nat
    BY <2>1, ChildrenBelow
  <2>3. Terms(total, n) \in [Children(n) -> Nat]
    BY <2>2 DEF Terms
  <2>4. SumFunctionOnSet(Terms(total, n), Children(n)) \in Nat
    <3> DEFINE T == Terms(total, n)
    <3>1. IsFiniteSet(Children(n)) /\ T \in [Children(n) -> Nat] /\ \A m \in Children(n) : T[m] <= T[m]
      BY <2>3, ChildrenBelow
    <3> HIDE DEF T
    <3>2. SumFunctionOnSet(T, Children(n)) \in Nat
      BY <3>1, SumMonotone
    <3> QED
      BY <3>2 DEF T
  <2>5. total[n] \in Nat
    BY <2>4, TotalParts DEF total
  <2> QED
    BY <2>5
<1> QED
  BY <1>1 DEF total

LEMMA TermsTypes ==
    ASSUME NEW measure \in [Nodes -> Nat], NEW scan \in [Nodes -> Nat], NEW cached, NEW n \in Nodes
    PROVE  LET total == Total(measure, scan, cached)
           IN /\ Terms(total, n) \in [Children(n) -> Nat]
              /\ \A m \in Children(n) : Terms(total, n)[m] = Copies[n][m] * total[m]
<1> DEFINE total == Total(measure, scan, cached)
<1>1. \A m \in Children(n) : total[m] \in Nat /\ Copies[n][m] \in Nat
  BY TotalType, ChildrenBelow
<1> HIDE DEF total
<1>2. /\ Terms(total, n) \in [Children(n) -> Nat]
      /\ \A m \in Children(n) : Terms(total, n)[m] = Copies[n][m] * total[m]
  BY <1>1 DEF Terms
<1> QED
  BY <1>2 DEF total

\* A plan that is not cached measures at least as much as each of its children.
LEMMA TotalAtLeastChild ==
    ASSUME NEW measure \in [Nodes -> Nat], NEW scan \in [Nodes -> Nat], NEW cached, NEW n \in Nodes \ cached,
           NEW m \in Children(n)
    PROVE  Total(measure, scan, cached)[n] >= Total(measure, scan, cached)[m]
<1> DEFINE total == Total(measure, scan, cached)
           T == Terms(total, n)
<1>1. T \in [Children(n) -> Nat] /\ T[m] = Copies[n][m] * total[m]
  BY TermsTypes
<1>2. total[n] = measure[n] + SumFunctionOnSet(T, Children(n)) /\ measure[n] \in Nat
  BY TotalParts
<1>3. total[m] \in Nat /\ Copies[n][m] \in Nat \ {0} /\ IsFiniteSet(Children(n))
  BY TotalType, ChildrenBelow
<1> HIDE DEF T, total
<1>4. \A x \in Nat \ {0}, y \in Nat : x * y >= y
  <2> SUFFICES ASSUME NEW x \in Nat \ {0}, NEW y \in Nat PROVE x * y >= y
    OBVIOUS
  <2>1. PICK z \in Nat : x = z + 1
    <3>1. x - 1 \in Nat /\ x = (x - 1) + 1
      OBVIOUS
    <3> QED
      BY <3>1
  <2>2. z * y \in Nat /\ x * y = z * y + y
    BY <2>1
  <2> QED
    BY <2>2
<1>5. SumFunctionOnSet(T, Children(n)) \in Nat /\ SumFunctionOnSet(T, Children(n)) >= T[m]
  <2>1. \A y \in Children(n) : T[y] <= T[y]
    BY <1>1
  <2>2. SumFunctionOnSet(T, Children(n)) \in Nat
    BY <1>1, <1>3, <2>1, SumMonotone
  <2>3. SumFunctionOnSet(T, Children(n)) >= T[m]
    BY <1>1, <1>3, SumAtLeast
  <2> QED
    BY <2>2, <2>3
<1>6. T[m] \in Nat /\ T[m] >= total[m]
  BY <1>1, <1>3, <1>4
<1>7. total[n] >= total[m]
  BY <1>2, <1>3, <1>5, <1>6
<1> QED
  BY <1>7 DEF total

LEMMA ScanTypes ==
    /\ ScanVariables \in [Nodes -> Nat] /\ ScanOperations \in [Nodes -> Nat]
    /\ ScanJoins \in [Nodes -> Nat]
BY NodesAssumption DEF ScanVariables, ScanOperations, ScanJoins

LEMMA MeasureTypes ==
    ASSUME NEW cached, NEW n \in Nodes
    PROVE  /\ TotalVariables(cached)[n] \in Nat /\ TotalOperations(cached)[n] \in Nat
           /\ TotalJoins(cached)[n] \in Nat /\ Complexity(cached)[n] \in Nat
           /\ Complexity(cached)[n] =
                TotalVariables(cached)[n] * TotalOperations(cached)[n] * (1 + TotalJoins(cached)[n])
<1>1. /\ TotalVariables(cached)[n] \in Nat /\ TotalOperations(cached)[n] \in Nat
      /\ TotalJoins(cached)[n] \in Nat
  BY ScanTypes, TotalType, NodesAssumption DEF TotalVariables, TotalOperations, TotalJoins
<1>2. Complexity(cached)[n] =
        TotalVariables(cached)[n] * TotalOperations(cached)[n] * (1 + TotalJoins(cached)[n])
  BY DEF Complexity
<1>3. \A x, y, z \in Nat : x * y * (1 + z) \in Nat
  OBVIOUS
<1> QED
  BY <1>1, <1>2, <1>3

\* A cached plan is as complex as the scan of its table.
LEMMA CachedComplexity ==
    ASSUME NEW cached, NEW n \in Nodes \cap cached
    PROVE  Complexity(cached)[n] = 3 * (Fields[n] + 1)
<1>1. /\ Total(Variables, ScanVariables, cached)[n] = Fields[n] + 1
      /\ Total(Operations, ScanOperations, cached)[n] = 3
      /\ Total(Joins, ScanJoins, cached)[n] = 0
  BY TotalEquation DEF TotalBody, ScanVariables, ScanOperations, ScanJoins
<1>2. Fields[n] + 1 \in Nat
  BY NodesAssumption
<1>3. Complexity(cached)[n] = (Fields[n] + 1) * 3 * (1 + 0)
  BY <1>1, MeasureTypes DEF TotalVariables, TotalOperations, TotalJoins
<1> QED
  BY <1>2, <1>3

LEMMA ProductMonotone ==
    ASSUME NEW x1 \in Nat, NEW x2 \in Nat, NEW y1 \in Nat, NEW y2 \in Nat, x1 <= x2, y1 <= y2
    PROVE  x1 * y1 \in Nat /\ x2 * y2 \in Nat /\ x1 * y1 <= x2 * y2
<1>1. \A a, b, z \in Nat : a <= b => z * a <= z * b /\ a * z <= b * z
  OBVIOUS
<1>2. x1 * y1 <= x1 * y2 /\ x1 * y2 <= x2 * y2
  BY <1>1
<1>3. x1 * y1 \in Nat /\ x1 * y2 \in Nat /\ x2 * y2 \in Nat
  OBVIOUS
<1> DEFINE p == x1 * y1
           q == x1 * y2
           r == x2 * y2
<1>4. p \in Nat /\ q \in Nat /\ r \in Nat /\ p <= q /\ q <= r
  BY <1>2, <1>3
<1> HIDE DEF p, q, r
<1>5. p <= r
  BY <1>4
<1> QED
  BY <1>3, <1>5 DEF p, r

----------------------------------------------------------------------------
(* The candidates for caching. *)

CountBody(root, complexity, count, n) ==
    IF complexity[n] < MinComplexity \/ n > root THEN 0
    ELSE IF n = root THEN 1
    ELSE SumFunctionOnSet([p \in Parents(n) |-> count[p] * Copies[p][n]], Parents(n))

\* The recursion of Occurrences is sound: a node is below its parents.
LEMMA OccurrencesEquation ==
    ASSUME NEW root, NEW complexity
    PROVE  \A n \in Nodes :
             Occurrences(root, complexity)[n]
               = CountBody(root, complexity, Occurrences(root, complexity), n)
<1> DEFINE Body(count, n) == CountBody(root, complexity, count, n)
           From(k) == (NumNodes + 1 - k)..NumNodes
           Good(k) == \E count : count = [n \in From(k) |-> Body(count, n)]
           Bad == {k \in 0..NumNodes : ~Good(k)}
<1>0. \A n \in Nodes : \A p \in Parents(n) : p \in Nodes /\ n < p
  <2> SUFFICES ASSUME NEW n \in Nodes, NEW p \in Parents(n) PROVE p \in Nodes /\ n < p
    OBVIOUS
  <2>1. p \in Nodes /\ Copies[p][n] > 0
    BY DEF Parents
  <2> QED
    BY <2>1, NodesAssumption
<1>1. ASSUME Bad # {} PROVE FALSE
  <2>1. PICK k \in Bad : \A i \in Bad : k <= i
    <3>1. Bad \subseteq Nat
      BY NodesAssumption
    <3> HIDE DEF Bad
    <3> QED
      BY <1>1, <3>1, LeastNat
  <2>2. k # 0
    <3>1. From(0) = {}
      BY NodesAssumption
    <3>2. [n \in From(0) |-> 0] = [n \in From(0) |-> Body([n1 \in From(0) |-> 0], n)]
      BY <3>1
    <3> QED
      BY <3>2
  <2>3. k \in 1..NumNodes /\ k - 1 \in 0..NumNodes /\ ~(k <= k - 1)
    BY <2>2, NodesAssumption
  <2>4. PICK count : count = [n \in From(k - 1) |-> Body(count, n)]
    BY <2>1, <2>3
  <2> DEFINE new == [n \in From(k) |-> Body(count, n)]
  <2>5. \A n \in From(k - 1) : new[n] = count[n]
    <3>1. \A n \in From(k - 1) : count[n] = Body(count, n)
      BY <2>4
    <3>2. \A n \in From(k - 1) : n \in From(k)
      BY <2>3, NodesAssumption
    <3> QED
      BY <3>1, <3>2
  <2>6. ASSUME NEW n \in From(k) PROVE Body(count, n) = Body(new, n)
    <3>1. n \in Nodes
      BY <2>3, NodesAssumption DEF Nodes
    <3>2. \A p \in Parents(n) : p \in From(k - 1)
      BY <1>0, <2>3, <3>1, NodesAssumption DEF Nodes
    <3> HIDE DEF new
    <3>3. [p \in Parents(n) |-> count[p] * Copies[p][n]] = [p \in Parents(n) |-> new[p] * Copies[p][n]]
      BY <2>5, <3>2
    <3> QED
      BY <3>3 DEF CountBody
  <2>7. new = [n \in From(k) |-> Body(new, n)]
    BY <2>6
  <2>8. Good(k)
    <3> HIDE DEF new, Body
    <3> QED
      BY <2>7
  <2> QED
    BY <2>8
<1>2. Good(NumNodes)
  <2>1. NumNodes \in 0..NumNodes
    BY NodesAssumption
  <2> HIDE DEF Good
  <2> QED
    BY <1>1, <2>1
<1> DEFINE count == CHOOSE count : count = [n \in Nodes |-> Body(count, n)]
<1>3. count = [n \in Nodes |-> Body(count, n)]
  <2>1. From(NumNodes) = Nodes
    BY NodesAssumption DEF Nodes
  <2> QED
    BY <1>2, <2>1
<1>4. Occurrences(root, complexity) = count
  BY DEF Occurrences, CountBody
<1> HIDE DEF count
<1> QED
  BY <1>3, <1>4

\* A candidate is not above the plan, is in the range, and is cached only if it is wide.
LEMMA TargetsInRange ==
    ASSUME NEW root, NEW cached, NEW n \in Targets(root, cached)
    PROVE  /\ n \in Nodes /\ ~(n > root) /\ (n \in cached => n \in Wide)
           /\ Complexity(cached)[n] >= MinComplexity /\ Complexity(cached)[n] <= Limit
<1> DEFINE complexity == Complexity(cached)
           count == Occurrences(root, complexity)
<1>1. n \in Nodes /\ count[n] > 0 /\ complexity[n] <= Limit
  BY DEF Targets
<1>2. count[n] = CountBody(root, complexity, count, n)
  BY <1>1, OccurrencesEquation
<1> HIDE DEF count
<1>3. ~(complexity[n] < MinComplexity \/ n > root)
  <2>1. count[n] # 0
    BY <1>1
  <2> QED
    BY <1>2, <2>1 DEF CountBody
<1>4. complexity[n] \in Nat /\ MinComplexity \in Nat
  BY <1>1, MeasureTypes, LimitAssumption
<1>5. complexity[n] >= MinComplexity
  BY <1>3, <1>4
<1>6. n \in cached => n \in Wide
  BY <1>1, <1>5, CachedComplexity DEF Wide
<1> QED
  BY <1>1, <1>3, <1>5, <1>6
----------------------------------------------------------------------------
(* What is visited of a plan. *)

VisitedBody(cached, visited, n) ==
    {n} \cup (IF n \in cached THEN {} ELSE UNION {visited[m] : m \in Children(n)})

\* The recursion of Visited is sound: a node is above its children.
LEMMA VisitedEquation ==
    ASSUME NEW cached
    PROVE  \A n \in Nodes :
             Visited(n, cached) =
               {n} \cup (IF n \in cached THEN {} ELSE UNION {Visited(m, cached) : m \in Children(n)})
<1> DEFINE Body(visited, n) == VisitedBody(cached, visited, n)
           Good(k) == \E visited : visited = [n \in 1..k |-> Body(visited, n)]
           Bad == {k \in 0..NumNodes : ~Good(k)}
<1>1. ASSUME Bad # {} PROVE FALSE
  <2>1. PICK k \in Bad : \A i \in Bad : k <= i
    <3>1. Bad \subseteq Nat
      BY NodesAssumption
    <3> HIDE DEF Bad
    <3> QED
      BY <1>1, <3>1, LeastNat
  <2>2. k # 0
    <3>1. [n \in 1..0 |-> 0] = [n \in 1..0 |-> Body([n1 \in 1..0 |-> 0], n)]
      OBVIOUS
    <3> QED
      BY <3>1
  <2>3. k \in 1..NumNodes /\ k - 1 \in 0..NumNodes /\ ~(k <= k - 1)
    BY <2>2, NodesAssumption
  <2>4. PICK visited : visited = [n \in 1..(k - 1) |-> Body(visited, n)]
    BY <2>1, <2>3
  <2> DEFINE new == [n \in 1..k |-> Body(visited, n)]
  <2>5. \A n \in 1..(k - 1) : new[n] = visited[n]
    <3>1. \A n \in 1..(k - 1) : visited[n] = Body(visited, n)
      BY <2>4
    <3>2. \A n \in 1..(k - 1) : n \in 1..k
      BY <2>3
    <3> QED
      BY <3>1, <3>2
  <2>6. ASSUME NEW n \in 1..k PROVE Body(visited, n) = Body(new, n)
    <3>1. n \in Nodes
      BY <2>3, NodesAssumption DEF Nodes
    <3>2. \A m \in Children(n) : m \in 1..(k - 1)
      BY <2>3, <3>1, ChildrenBelow, NodesAssumption DEF Nodes
    <3> HIDE DEF new
    <3>3. {visited[m] : m \in Children(n)} = {new[m] : m \in Children(n)}
      BY <2>5, <3>2
    <3> QED
      BY <3>3 DEF VisitedBody
  <2>7. new = [n \in 1..k |-> Body(new, n)]
    BY <2>6
  <2>8. Good(k)
    <3> HIDE DEF new, Body
    <3> QED
      BY <2>7
  <2> QED
    BY <2>8
<1>2. Good(NumNodes)
  <2>1. NumNodes \in 0..NumNodes
    BY NodesAssumption
  <2> HIDE DEF Good
  <2> QED
    BY <1>1, <2>1
<1> DEFINE visited == CHOOSE visited : visited = [n \in Nodes |-> Body(visited, n)]
<1>3. visited = [n \in Nodes |-> Body(visited, n)]
  BY <1>2 DEF Nodes
<1>4. \A n : Visited(n, cached) = visited[n]
  BY DEF Visited, VisitedBody
<1> HIDE DEF visited
<1>5. \A n \in Nodes : visited[n] = Body(visited, n)
  BY <1>3
<1>6. ASSUME NEW n \in Nodes
      PROVE  Visited(n, cached) =
               {n} \cup (IF n \in cached THEN {} ELSE UNION {Visited(m, cached) : m \in Children(n)})
  <2>1. {visited[m] : m \in Children(n)} = {Visited(m, cached) : m \in Children(n)}
    BY <1>4
  <2> QED
    BY <1>4, <1>5, <2>1 DEF VisitedBody
<1> QED
  BY <1>6

\* A node that is visited is the root or a child of another one, which is not cached.
LEMMA VisitedParents ==
    ASSUME NEW cached
    PROVE  \A root \in Nodes :
             /\ root \in Visited(root, cached)
             /\ \A n \in Visited(root, cached) :
                  /\ n \in Nodes /\ n <= root
                  /\ n # root => \E p \in Visited(root, cached) \ cached : n \in Children(p)
             /\ \A p \in Visited(root, cached) \ cached : Children(p) \subseteq Visited(root, cached)
<1> DEFINE V(r) == Visited(r, cached)
           Parented(r) == \A n \in V(r) :
                            /\ n \in Nodes /\ n <= r
                            /\ n # r => \E p \in V(r) \ cached : n \in Children(p)
           Closed(r) == \A p \in V(r) \ cached : Children(p) \subseteq V(r)
           Good(r) == r \in V(r) /\ Parented(r) /\ Closed(r)
           Bad == {r \in Nodes : ~Good(r)}
<1>1. ASSUME Bad # {} PROVE FALSE
  <2>1. PICK r \in Bad : \A m \in Children(r) : m \notin Bad
    <3>1. Bad \subseteq Nodes
      OBVIOUS
    <3> HIDE DEF Bad
    <3> QED
      BY <1>1, <3>1, LowestNode
  <2>2. r \in Nodes /\ \A m \in Children(r) : m \in Nodes /\ m < r /\ Good(m)
    BY <2>1, ChildrenBelow
  <2>3. V(r) = {r} \cup (IF r \in cached THEN {} ELSE UNION {V(m) : m \in Children(r)})
    BY <2>2, VisitedEquation
  <2> HIDE DEF V
  <2>4. ASSUME NEW n \in V(r), n # r
        PROVE  r \notin cached /\ \E m \in Children(r) : n \in V(m)
    BY <2>3, <2>4
  <2>5. ASSUME NEW n \in V(r)
        PROVE  /\ n \in Nodes /\ n <= r
               /\ n # r => \E p \in V(r) \ cached : n \in Children(p)
    <3>1. CASE n = r
      <4>1. r <= r
        BY <2>2 DEF Nodes
      <4> QED
        BY <2>2, <3>1, <4>1
    <3>2. CASE n # r
      <4>1. PICK m \in Children(r) : n \in V(m)
        BY <2>4, <3>2
      <4>2. r \notin cached /\ r \in V(r) /\ V(m) \subseteq V(r)
        BY <2>3, <2>4, <3>2, <4>1
      <4>3. n \in Nodes /\ n <= m /\ m < r /\ m \in Nodes
        BY <2>2, <4>1
      <4>4. n <= r
        BY <2>2, <4>3 DEF Nodes
      <4>5. \E p \in V(r) \ cached : n \in Children(p)
        <5>1. CASE n = m
          BY <4>1, <4>2, <5>1
        <5>2. CASE n # m
          <6>1. PICK p \in V(m) \ cached : n \in Children(p)
            BY <2>2, <4>1, <5>2
          <6> QED
            BY <4>2, <6>1
        <5> QED
          BY <5>1, <5>2
      <4> QED
        BY <4>3, <4>4, <4>5
    <3> QED
      BY <3>1, <3>2
  <2>6. ASSUME NEW p \in V(r) \ cached PROVE Children(p) \subseteq V(r)
    <3>1. CASE p = r
      <4>1. \A m \in Children(r) : m \in V(m)
        BY <2>2
      <4> QED
        BY <2>3, <3>1, <4>1
    <3>2. CASE p # r
      <4>1. PICK m \in Children(r) : p \in V(m)
        BY <2>4, <3>2
      <4>2. Children(p) \subseteq V(m) /\ V(m) \subseteq V(r)
        BY <2>2, <2>3, <2>4, <3>2, <4>1
      <4> QED
        BY <4>2
    <3> QED
      BY <3>1, <3>2
  <2>7. r \in V(r)
    BY <2>3
  <2> QED
    BY <2>1, <2>5, <2>6, <2>7
<1> QED
  BY <1>1

\* The subtrees of a subtree are subtrees of the plan, and what is visited is among them.
LEMMA SubtreesOfSubtrees ==
    \A root \in Nodes :
        /\ root \in Subtrees(root) /\ Subtrees(root) \subseteq Nodes
        /\ \A n \in Subtrees(root) : Subtrees(n) \subseteq Subtrees(root)
<1> DEFINE Good(r) == \A n \in Subtrees(r) : Subtrees(n) \subseteq Subtrees(r)
           Bad == {r \in Nodes : ~Good(r)}
<1>1. ASSUME Bad # {} PROVE FALSE
  <2>1. PICK r \in Bad : \A m \in Children(r) : m \notin Bad
    <3>1. Bad \subseteq Nodes
      OBVIOUS
    <3> HIDE DEF Bad
    <3> QED
      BY <1>1, <3>1, LowestNode
  <2>2. r \in Nodes /\ \A m \in Children(r) : m \in Nodes /\ Good(m)
    BY <2>1, ChildrenBelow
  <2>3. Subtrees(r) = {r} \cup UNION {Subtrees(m) : m \in Children(r)}
    BY <2>2, VisitedEquation DEF Subtrees
  <2>4. ASSUME NEW n \in Subtrees(r) PROVE Subtrees(n) \subseteq Subtrees(r)
    <3>1. CASE n = r
      BY <3>1
    <3>2. CASE n # r
      <4>1. PICK m \in Children(r) : n \in Subtrees(m)
        BY <2>3, <3>2
      <4>2. Subtrees(n) \subseteq Subtrees(m)
        BY <2>2, <4>1
      <4> QED
        BY <2>3, <4>1, <4>2
    <3> QED
      BY <3>1, <3>2
  <2> QED
    BY <2>1, <2>4
<1>2. \A root \in Nodes : root \in Subtrees(root) /\ Subtrees(root) \subseteq Nodes
  BY VisitedParents DEF Subtrees
<1> QED
  BY <1>1, <1>2

LEMMA VisitedAreParts ==
    ASSUME NEW cached
    PROVE  \A root \in Nodes : Visited(root, cached) \subseteq Subtrees(root)
<1> DEFINE Bad == {r \in Nodes : ~(Visited(r, cached) \subseteq Subtrees(r))}
<1>1. ASSUME Bad # {} PROVE FALSE
  <2>1. PICK r \in Bad : \A m \in Children(r) : m \notin Bad
    <3>1. Bad \subseteq Nodes
      OBVIOUS
    <3> HIDE DEF Bad
    <3> QED
      BY <1>1, <3>1, LowestNode
  <2>2. r \in Nodes /\ \A m \in Children(r) : Visited(m, cached) \subseteq Subtrees(m)
    BY <2>1, ChildrenBelow
  <2>3. Subtrees(r) = {r} \cup UNION {Subtrees(m) : m \in Children(r)}
    BY <2>2, VisitedEquation DEF Subtrees
  <2>4. Visited(r, cached) \subseteq {r} \cup UNION {Visited(m, cached) : m \in Children(r)}
    BY <2>2, VisitedEquation
  <2> QED
    BY <2>1, <2>2, <2>3, <2>4
<1> QED
  BY <1>1

LEMMA CountTypes ==
    ASSUME NEW root, NEW complexity
    PROVE  \A n \in Nodes : /\ Occurrences(root, complexity)[n] \in Nat
                            /\ Parents(n) \subseteq Nodes /\ IsFiniteSet(Parents(n))
<1> DEFINE count == Occurrences(root, complexity)
           Bad == {k \in Nat : \E n \in Nodes : n + k = NumNodes /\ count[n] \notin Nat}
<1>0. \A n \in Nodes : Parents(n) \subseteq Nodes /\ IsFiniteSet(Parents(n))
  <2>1. IsFiniteSet(Nodes)
    BY FS_Interval, NodesAssumption DEF Nodes
  <2> QED
    BY <2>1, FS_Subset DEF Parents
<1>1. ASSUME Bad # {} PROVE FALSE
  <2>1. PICK k \in Bad : \A i \in Bad : k <= i
    <3>1. Bad \subseteq Nat
      OBVIOUS
    <3> HIDE DEF Bad
    <3> QED
      BY <1>1, <3>1, LeastNat
  <2>2. PICK n \in Nodes : n + k = NumNodes /\ count[n] \notin Nat
    BY <2>1
  <2>3. ASSUME NEW p \in Parents(n) PROVE count[p] \in Nat /\ Copies[p][n] \in Nat
    <3>1. p \in Nodes /\ n < p /\ Copies[p][n] \in Nat
      BY <1>0, NodesAssumption DEF Parents
    <3>2. NumNodes - p \in Nat /\ p + (NumNodes - p) = NumNodes /\ ~(k <= NumNodes - p)
      BY <2>2, <3>1, NodesAssumption DEF Nodes
    <3> QED
      BY <2>1, <3>1, <3>2
  <2>4. count[n] = CountBody(root, complexity, count, n)
    BY OccurrencesEquation
  <2> HIDE DEF count
  <2> DEFINE f == [p \in Parents(n) |-> count[p] * Copies[p][n]]
  <2>5. f \in [Parents(n) -> Nat]
    BY <2>3
  <2> HIDE DEF f
  <2>6. SumFunctionOnSet(f, Parents(n)) \in Nat
    <3>1. \A p \in Parents(n) : f[p] <= f[p]
      BY <2>5
    <3> QED
      BY <1>0, <2>5, <3>1, SumMonotone
  <2> QED
    BY <2>2, <2>4, <2>6 DEF CountBody, f
<1>2. ASSUME NEW n \in Nodes PROVE count[n] \in Nat
  <2>1. NumNodes - n \in Nat /\ n + (NumNodes - n) = NumNodes
    BY NodesAssumption DEF Nodes
  <2> HIDE DEF count
  <2> QED
    BY <1>1, <2>1
<1> QED
  BY <1>0, <1>2

\* A plan is as complex as each of its children, unless it is cached.
LEMMA ComplexityOfChild ==
    ASSUME NEW cached, NEW n \in Nodes \ cached, NEW m \in Children(n)
    PROVE  Complexity(cached)[m] <= Complexity(cached)[n]
<1> DEFINE v(k) == TotalVariables(cached)[k]
           o(k) == TotalOperations(cached)[k]
           j(k) == 1 + TotalJoins(cached)[k]
<1>1. m \in Nodes
  BY ChildrenBelow
<1>2. /\ v(n) \in Nat /\ v(m) \in Nat /\ o(n) \in Nat /\ o(m) \in Nat
      /\ j(n) \in Nat /\ j(m) \in Nat
  BY <1>1, MeasureTypes
<1>3. v(m) <= v(n) /\ o(m) <= o(n) /\ j(m) <= j(n)
  <2>1. v(m) <= v(n)
    BY <1>2, TotalAtLeastChild, ScanTypes, NodesAssumption DEF TotalVariables
  <2>2. o(m) <= o(n)
    BY <1>2, TotalAtLeastChild, ScanTypes, NodesAssumption DEF TotalOperations
  <2>3. TotalJoins(cached)[m] <= TotalJoins(cached)[n]
    BY <1>1, MeasureTypes, TotalAtLeastChild, ScanTypes, NodesAssumption DEF TotalJoins
  <2> QED
    BY <1>1, <2>1, <2>2, <2>3, MeasureTypes
<1>4. Complexity(cached)[n] = v(n) * o(n) * j(n) /\ Complexity(cached)[m] = v(m) * o(m) * j(m)
  BY <1>1, MeasureTypes
<1> HIDE DEF v, o, j
<1>5. v(m) * o(m) \in Nat /\ v(n) * o(n) \in Nat /\ v(m) * o(m) <= v(n) * o(n)
  BY <1>2, <1>3, ProductMonotone
<1>6. (v(m) * o(m)) * j(m) <= (v(n) * o(n)) * j(n)
  BY <1>2, <1>3, <1>5, ProductMonotone
<1> QED
  BY <1>4, <1>6

Counted(root, cached) == {n \in Nodes : Occurrences(root, Complexity(cached))[n] > 0}

\* The recursion counts the subtrees that are visited and complex enough, and no others:
\* what is complex enough is not hidden below something that is not.  It goes on below
\* a wide cached table.
LEMMA CountedAreVisited ==
    ASSUME NEW root \in Nodes, NEW cached
    PROVE  Counted(root, cached) =
             {n \in Visited(root, cached \ Wide) : Complexity(cached)[n] >= MinComplexity}
<1> DEFINE complexity == Complexity(cached)
           count == Occurrences(root, complexity)
           narrow == cached \ Wide
           V == Visited(root, narrow)
           Good(n) == (count[n] > 0) <=> (n \in V /\ complexity[n] >= MinComplexity)
           Bad == {k \in Nat : \E n \in Nodes : n + k = NumNodes /\ ~Good(n)}
<1>1. ASSUME Bad # {} PROVE FALSE
  <2>1. PICK k \in Bad : \A i \in Bad : k <= i
    <3>1. Bad \subseteq Nat
      OBVIOUS
    <3> HIDE DEF Bad
    <3> QED
      BY <1>1, <3>1, LeastNat
  <2>2. PICK n \in Nodes : n + k = NumNodes /\ ~Good(n)
    BY <2>1
  <2>3. count[n] = CountBody(root, complexity, count, n)
    BY OccurrencesEquation
  <2>4. \A m \in Nodes : /\ count[m] \in Nat /\ complexity[m] \in Nat
                         /\ Parents(m) \subseteq Nodes /\ IsFiniteSet(Parents(m))
    BY CountTypes, MeasureTypes
  <2>5. ASSUME NEW p \in Nodes, n \in Children(p)
        PROVE  p \in Parents(n) /\ Good(p) /\ Copies[p][n] \in Nat \ {0}
    <3>1. n < p /\ Copies[p][n] \in Nat \ {0} /\ p \in Parents(n)
      BY <2>5, ChildrenBelow DEF Children, Parents
    <3>2. NumNodes - p \in Nat /\ p + (NumNodes - p) = NumNodes /\ ~(k <= NumNodes - p)
      BY <2>2, <3>1, NodesAssumption DEF Nodes
    <3> QED
      BY <2>1, <3>1, <3>2
  <2>6. /\ root \in V
        /\ n \in V => n <= root
        /\ n \in V /\ n # root => \E p \in V \ narrow : p \in Nodes /\ n \in Children(p)
        /\ \A p \in V \ narrow : Children(p) \subseteq V
    BY VisitedParents
  <2>7. ASSUME NEW p \in Nodes \ narrow, n \in Children(p), complexity[n] >= MinComplexity
        PROVE  complexity[p] >= MinComplexity
    <3>1. CASE p \in cached
      BY <3>1, CachedComplexity DEF Wide
    <3>2. CASE p \notin cached
      <4>1. complexity[n] <= complexity[p]
        BY <2>7, <3>2, ComplexityOfChild
      <4> QED
        BY <2>4, <2>7, <4>1, LimitAssumption
    <3> QED
      BY <3>1, <3>2
  <2>8. \A p \in Nodes : complexity[p] >= MinComplexity => p \notin narrow
    BY CachedComplexity DEF Wide
  <2>9. n \in Nat /\ root \in Nat /\ MinComplexity \in Nat
    BY LimitAssumption DEF Nodes
  <2> DEFINE f == [p \in Parents(n) |-> count[p] * Copies[p][n]]
  <2>10. f \in [Parents(n) -> Nat]
    <3>1. \A p \in Parents(n) : count[p] \in Nat /\ Copies[p][n] \in Nat
      BY <2>4, NodesAssumption
    <3> QED
      BY <3>1
  <2> HIDE DEF count, complexity, V, narrow
  <2>11. CASE n = root
    <3>1. count[n] = IF complexity[n] < MinComplexity THEN 0 ELSE 1
      BY <2>3, <2>9, <2>11 DEF CountBody
    <3> QED
      BY <2>2, <2>4, <2>6, <2>9, <2>11, <3>1
  <2>12. CASE n # root /\ (complexity[n] < MinComplexity \/ n > root)
    <3>1. count[n] = 0
      BY <2>3, <2>12 DEF CountBody
    <3>2. ~(n \in V /\ complexity[n] >= MinComplexity)
      BY <2>4, <2>6, <2>9, <2>12
    <3> QED
      BY <2>2, <3>1, <3>2
  <2>13. CASE n # root /\ ~(complexity[n] < MinComplexity \/ n > root)
    <3>1. count[n] = SumFunctionOnSet(f, Parents(n))
      BY <2>3, <2>13 DEF CountBody
    <3>2. complexity[n] >= MinComplexity
      BY <2>4, <2>9, <2>13
    <3>3. ASSUME count[n] > 0 PROVE n \in V
      <4>1. PICK p \in Parents(n) : f[p] > 0
        <5> HIDE DEF f
        <5> QED
          BY <2>4, <2>10, <3>1, <3>3, SumPositive
      <4>2. p \in Nodes /\ n \in Children(p) /\ count[p] \in Nat
        BY <2>4 DEF Parents, Children
      <4>3. Good(p) /\ Copies[p][n] \in Nat
        BY <2>5, <4>2
      <4>4. count[p] # 0
        BY <4>1, <4>2, <4>3
      <4>5. p \in V /\ complexity[p] >= MinComplexity
        BY <4>2, <4>3, <4>4
      <4> QED
        BY <2>6, <2>8, <4>2, <4>5
    <3>4. ASSUME n \in V PROVE count[n] > 0
      <4>1. PICK p \in V \ narrow : p \in Nodes /\ n \in Children(p)
        BY <2>6, <2>13, <3>4
      <4>2. complexity[p] >= MinComplexity
        BY <2>7, <3>2, <4>1
      <4>3. count[p] > 0 /\ p \in Parents(n) /\ Copies[p][n] \in Nat \ {0} /\ count[p] \in Nat
        BY <2>4, <2>5, <4>1, <4>2
      <4>4. \A x, y \in Nat : x > 0 /\ y # 0 => x * y > 0
        OBVIOUS
      <4>5. f[p] > 0
        BY <4>3, <4>4
      <4>6. SumFunctionOnSet(f, Parents(n)) >= f[p] /\ f[p] \in Nat
        <5> HIDE DEF f
        <5> QED
          BY <2>4, <2>10, <4>3, SumAtLeast
      <4> QED
        BY <2>4, <3>1, <4>5, <4>6
    <3> QED
      BY <2>2, <3>2, <3>3, <3>4
  <2> QED
    BY <2>11, <2>12, <2>13
<1>2. ASSUME NEW n \in Nodes PROVE Good(n)
  <2>1. NumNodes - n \in Nat /\ n + (NumNodes - n) = NumNodes
    BY NodesAssumption DEF Nodes
  <2> HIDE DEF Good
  <2> QED
    BY <1>1, <2>1
<1>3. V \subseteq Nodes
  BY VisitedParents
<1> QED
  BY <1>2, <1>3 DEF Counted

\* A finite set of numbered things has one with the highest number.
LEMMA HighestScore ==
    ASSUME NEW S, IsFiniteSet(S), S # {}, NEW f \in [S -> Nat]
    PROVE  \E n \in S : \A m \in S : f[m] <= f[n]
<1> DEFINE Bounds == {k \in Nat : \A n \in S : f[n] <= k}
<1>1. Bounds # {}
  <2>1. SumFunctionOnSet(f, S) \in Nat
    <3>1. \A n \in S : f[n] <= f[n]
      OBVIOUS
    <3> QED
      BY <3>1, SumMonotone
  <2>2. \A n \in S : f[n] <= SumFunctionOnSet(f, S)
    <3> SUFFICES ASSUME NEW n \in S PROVE f[n] <= SumFunctionOnSet(f, S)
      OBVIOUS
    <3>1. SumFunctionOnSet(f, S) >= f[n] /\ f[n] \in Nat
      BY SumAtLeast
    <3> QED
      BY <2>1, <3>1
  <2> QED
    BY <2>1, <2>2
<1>2. PICK k \in Bounds : \A i \in Bounds : k <= i
  <2>1. Bounds \subseteq Nat
    OBVIOUS
  <2> HIDE DEF Bounds
  <2> QED
    BY <1>1, <2>1, LeastNat
<1>3. k \in Nat /\ \A n \in S : f[n] <= k /\ f[n] \in Nat
  OBVIOUS
<1>4. ASSUME \A n \in S : f[n] # k PROVE FALSE
  <2>1. k # 0 /\ k - 1 \in Nat /\ \A n \in S : f[n] <= k - 1
    BY <1>3, <1>4
  <2>2. k - 1 \in Bounds
    BY <2>1
  <2> QED
    BY <1>2, <1>3, <2>2
<1> QED
  BY <1>3, <1>4

\* select_cache_target (tree_properties.py:68-115) chooses, for every plan and cache, a
\* subtree that is visited, in the range, and not cached unless its table is wide, and it
\* finds none only if there is none: the search is cut off at simple subtrees and at
\* narrow cached tables, and misses nothing.
THEOREM CacheTarget ==
    ASSUME NEW root \in Nodes, NEW cached
    PROVE  LET inRange == {n \in Visited(root, cached \ Wide) :
                             Complexity(cached)[n] \in MinComplexity..Limit}
           IN /\ Targets(root, cached) \subseteq inRange
              /\ inRange \cap cached \subseteq Wide
              /\ Targets(root, cached) = {} => inRange = {}
<1> DEFINE complexity == Complexity(cached)
           count == Occurrences(root, complexity)
           candidates == {n \in Nodes : count[n] > 0 /\ complexity[n] <= Limit}
           visited == Visited(root, cached \ Wide)
           inRange == {n \in visited : complexity[n] \in MinComplexity..Limit}
           score == [n \in candidates |-> complexity[n] * count[n] * count[n]]
<1>1. \A n \in Nodes : complexity[n] \in Nat /\ count[n] \in Nat
  BY CountTypes, MeasureTypes
<1>2. candidates = inRange
  <2>1. visited \subseteq Nodes /\ MinComplexity \in Nat /\ Limit \in Nat
    BY VisitedParents, LimitAssumption
  <2>2. \A n \in Nodes :
          (count[n] > 0) <=> (n \in visited /\ complexity[n] >= MinComplexity)
    BY <2>1, CountedAreVisited DEF Counted
  <2> HIDE DEF count, complexity
  <2> QED
    BY <1>1, <2>1, <2>2
<1>3. Targets(root, cached) = {n \in candidates : \A m \in candidates :
                                 complexity[m] * count[m] * count[m] <= complexity[n] * count[n] * count[n]}
  BY DEF Targets
<1>4. inRange \cap cached \subseteq Wide
  <2>1. \A n \in inRange : n \in Nodes /\ complexity[n] >= MinComplexity
    BY VisitedParents, LimitAssumption
  <2> QED
    BY <2>1, CachedComplexity DEF Wide
<1>5. candidates # {} => Targets(root, cached) # {}
  <2>1. IsFiniteSet(candidates)
    <3>1. IsFiniteSet(Nodes)
      BY FS_Interval, NodesAssumption DEF Nodes
    <3> QED
      BY <3>1, FS_Subset
  <2>2. score \in [candidates -> Nat]
    <3>1. \A x, y \in Nat : x * y * y \in Nat
      OBVIOUS
    <3> HIDE DEF count, complexity
    <3> QED
      BY <1>1, <3>1
  <2>3. candidates # {} => \E n \in candidates : \A m \in candidates : score[m] <= score[n]
    <3> HIDE DEF score, candidates
    <3> QED
      BY <2>1, <2>2, HighestScore
  <2> HIDE DEF count, complexity
  <2> QED
    BY <1>3, <2>3
<1> QED
  BY <1>2, <1>3, <1>4, <1>5
=============================================================================
