-------------------------- MODULE Analyses_proofs --------------------------
(***************************************************************************)
(* AnswerIsWhole and TypeOK for every number of segments, fan-in,          *)
(* concurrency and number of faults and restarts.  A completed step must   *)
(* agree with what its children store; that needs the rows of goroutines   *)
(* whose lease was outlived (Claims), what a goroutine has read (Knows),   *)
(* and that steps complete only under a whole manifest (Grown).  The       *)
(* bounds of TypeOK need an account of claims: each claim after a step's   *)
(* first is paid for by a fault or a restart (Within).                     *)
(***************************************************************************)
EXTENDS Analyses, TLAPS, WellFoundedInduction, FiniteSetTheorems

-----------------------------------------------------------------------------
\* The step tree.

\* A set of natural numbers that is not empty has a least one.
LEMMA LeastOfSet ==
  ASSUME NEW T \in SUBSET Nat, T # {}
  PROVE  \E x \in T : \A y \in T : x <= y
<1> DEFINE R == {ss \in Nat \X Nat : ss[1] < ss[2]}
<1>1. \E x \in T : \A y \in T : ~(<<y, x>> \in R)
  <2>1. IsWellFoundedOn(R, Nat)  BY NatLessThanWellFounded DEF OpToRel
  <2> HIDE DEF R
  <2> QED BY <2>1, WFMin
<1>2. PICK x \in T : \A y \in T : ~(<<y, x>> \in R)  BY <1>1
<1>3. \A y \in T : ~(y < x)  BY <1>2
<1> HIDE DEF R
<1>4. \A y \in T : x <= y  BY <1>3
<1> QED BY <1>4

\* Induction, stated for a set: zero is in it, and with a number its successor.
LEMMA SetInduction ==
  ASSUME NEW G, 0 \in G, \A n \in Nat : n \in G => n + 1 \in G
  PROVE  \A n \in Nat : n \in G
<1> DEFINE T == {n \in Nat : n \notin G}
<1> SUFFICES ASSUME T # {} PROVE FALSE OBVIOUS
<1>1. T \in SUBSET Nat OBVIOUS
<1> HIDE DEF T
<1>2. PICK x \in T : \A y \in T : x <= y BY <1>1, LeastOfSet
<1> USE DEF T
<1>3. x \in Nat /\ x # 0 /\ x - 1 \in Nat OBVIOUS
<1>4. x - 1 \in G BY <1>2, <1>3
<1>5. (x - 1) + 1 \in G BY <1>3, <1>4
<1> QED BY <1>3, <1>5

\* A level of k steps gives at least one group and, for two steps or more, fewer
\* groups than steps.
LEMMA GroupCount ==
  ASSUME NEW k \in Nat, k >= 1
  PROVE  LET q == (k + FanIn - 1) \div FanIn
         IN  q \in Nat /\ q >= 1 /\ q <= k /\ (k >= 2 => q < k)
<1> USE FanInAssumption
<1> DEFINE q == (k + FanIn - 1) \div FanIn
<1>1. q \in Int /\ FanIn * q <= k + FanIn - 1 /\ k + FanIn - 1 < FanIn * q + FanIn
  OBVIOUS
<1> HIDE DEF q
<1>2. q >= 1
  <2> SUFFICES ASSUME q <= 0 PROVE FALSE  BY <1>1
  <2>1. FanIn * q <= 0  BY <1>1
  <2> QED BY <1>1, <2>1
<1>3. (q - 1) * FanIn <= k - 1  BY <1>1
<1>4. (q - 1) * 2 <= (q - 1) * FanIn  BY <1>1, <1>2
<1>5. (q - 1) * 2 <= k - 1  BY <1>1, <1>3, <1>4
<1>6. q \in Nat /\ q >= 1 /\ q <= k /\ (k >= 2 => q < k) BY <1>1, <1>2, <1>5
<1> QED BY <1>6 DEF q

\* All groups of a level but the last are full.
LEMMA GroupFloor ==
  ASSUME NEW k \in Nat, k >= 1
  PROVE  (((k + FanIn - 1) \div FanIn) - 1) * FanIn <= k - 1
<1> USE FanInAssumption
<1> DEFINE q == (k + FanIn - 1) \div FanIn
<1>1. q \in Int /\ FanIn * q <= k + FanIn - 1  OBVIOUS
<1> HIDE DEF q
<1>2. (q - 1) * FanIn <= k - 1  BY <1>1
<1> QED BY <1>2 DEF q

\* f gives the sizes of the levels 0 to n.
Levels(f, n) == /\ f \in [0..n -> Nat]
                /\ f[0] = Leaves
                /\ \A l \in 1..n : f[l] = (f[l - 1] + FanIn - 1) \div FanIn
                /\ \A l \in 0..n : f[l] >= 1

\* There are such sizes for every number of levels.
LEMMA LevelsExist == \A n \in Nat : \E f : Levels(f, n)
<1> DEFINE G == {n \in Nat : \E f : Levels(f, n)}
<1>1. 0 \in G
  <2> DEFINE f == [l \in 0..0 |-> Leaves]
  <2>1. Levels(f, 0)  BY LeavesAssumption DEF Levels
  <2> QED BY <2>1
<1>2. ASSUME NEW n \in Nat, n \in G PROVE n + 1 \in G
  <2> PICK f : Levels(f, n)  BY <1>2
  <2> DEFINE v == (f[n] + FanIn - 1) \div FanIn
             g == [l \in 0..n + 1 |-> IF l = n + 1 THEN v ELSE f[l]]
  <2>1. v \in Nat /\ v >= 1  BY GroupCount DEF Levels
  <2>4. n \in 0..n /\ 0 \in 0..n /\ n + 1 # 0 OBVIOUS
  <2>5. \A l \in 0..n : g[l] = f[l] OBVIOUS
  <2>6. g[n + 1] = v OBVIOUS
  <2> HIDE DEF v
  <2>2. g \in [0..n + 1 -> Nat]  BY <2>1 DEF Levels
  <2> HIDE DEF g
  <2>7. \A l \in 1..n + 1 : g[l] = (g[l - 1] + FanIn - 1) \div FanIn
    <3> TAKE l \in 1..n + 1
    <3>1. CASE l = n + 1
      <4>1. l - 1 = n  BY <3>1
      <4> QED BY <2>4, <2>5, <2>6, <3>1, <4>1 DEF v
    <3>2. CASE l \in 1..n
      <4>1. l \in 0..n /\ l - 1 \in 0..n  BY <3>2
      <4> QED BY <2>5, <3>2, <4>1 DEF Levels
    <3> QED BY <3>1, <3>2
  <2>8. \A l \in 0..n + 1 : g[l] >= 1
    <3>1. \A l \in 0..n : f[l] >= 1  BY DEF Levels
    <3>2. \A l \in 0..n + 1 : l = n + 1 \/ l \in 0..n  OBVIOUS
    <3> QED BY <2>1, <2>5, <2>6, <3>1, <3>2
  <2>9. g[0] = Leaves BY <2>4, <2>5 DEF Levels
  <2>3. Levels(g, n + 1)  BY <2>2, <2>7, <2>8, <2>9 DEF Levels
  <2> QED BY <2>3
<1> HIDE DEF G
<1>3. \A n \in Nat : n \in G  BY <1>1, <1>2, SetInduction
<1> QED BY <1>3 DEF G

\* The recursive definition of Size defines them.
LEMMA SizeDef == Levels(Size, Leaves)
<1> DEFINE F(f) == [level \in 0..Leaves |->
  IF level = 0 THEN Leaves ELSE (f[level - 1] + FanIn - 1) \div FanIn]
<1>1. PICK f : Levels(f, Leaves)  BY LevelsExist, LeavesAssumption
<1>2. f = F(f)  BY <1>1, LeavesAssumption DEF Levels
<1>3. Size = CHOOSE h : h = F(h)  BY DEF Size
<1>4. Size = F(Size)  BY <1>2, <1>3
<1>5. Size[0] = Leaves /\ \A l \in 1..Leaves : Size[l] = (Size[l - 1] + FanIn - 1) \div FanIn
  BY <1>4, LeavesAssumption
<1> DEFINE G == {n \in Nat : n <= Leaves => Size[n] = f[n]}
<1>6. 0 \in G  BY <1>1, <1>5 DEF Levels
<1>7. ASSUME NEW n \in Nat, n \in G PROVE n + 1 \in G
  <2> SUFFICES ASSUME n + 1 <= Leaves PROVE Size[n + 1] = f[n + 1] OBVIOUS
  <2>1. n + 1 \in 1..Leaves /\ (n + 1) - 1 = n /\ n <= Leaves BY LeavesAssumption
  <2> QED BY <1>1, <1>5, <1>7, <2>1 DEF Levels
<1> HIDE DEF G
<1>8. \A n \in Nat : n \in G  BY <1>6, <1>7, SetInduction
<1>9. \A n \in 0..Leaves : Size[n] = f[n]  BY <1>8, LeavesAssumption DEF G
<1>10. Size = f BY <1>1, <1>4, <1>9 DEF Levels
<1> QED BY <1>1, <1>10

\* Grouping ends: some level has one step, and Depth is the first one above the
\* leaves that has.
LEMMA Top == Depth \in 1..Leaves /\ Size[Depth] = 1
<1> USE LeavesAssumption
<1> DEFINE G == {n \in Nat : n <= Leaves => Size[n] = 1 \/ Size[n] + n <= Leaves}
<1>1. 0 \in G  BY SizeDef DEF Levels
<1>2. ASSUME NEW n \in Nat, n \in G PROVE n + 1 \in G
  <2> SUFFICES ASSUME n + 1 <= Leaves PROVE Size[n + 1] = 1 \/ Size[n + 1] + (n + 1) <= Leaves OBVIOUS
  <2>1. n + 1 \in 1..Leaves /\ (n + 1) - 1 = n /\ n \in 0..Leaves OBVIOUS
  <2> DEFINE k == Size[n]
  <2>2. k \in Nat /\ k >= 1  BY <2>1, SizeDef DEF Levels
  <2>3. Size[n + 1] = (k + FanIn - 1) \div FanIn  BY <2>1, SizeDef DEF Levels
  <2>4. k = 1 \/ k + n <= Leaves  BY <1>2
  <2> HIDE DEF k
  <2>5. Size[n + 1] \in Nat /\ Size[n + 1] >= 1 /\ Size[n + 1] <= k /\ (k >= 2 => Size[n + 1] < k)
    BY <2>2, <2>3, GroupCount
  <2> QED BY <2>2, <2>4, <2>5
<1> HIDE DEF G
<1>3. \A n \in Nat : n \in G  BY <1>1, <1>2, SetInduction
<1>4. Size[Leaves] \in Nat /\ Size[Leaves] >= 1  BY SizeDef DEF Levels
<1>5. Size[Leaves] = 1  BY <1>3, <1>4 DEF G
<1> DEFINE T == {d \in 1..Leaves : Size[d] = 1}
<1>6. Leaves \in T  BY <1>5
<1>7. T \in SUBSET Nat  OBVIOUS
<1> HIDE DEF T
<1>8. PICK d \in T : \A e \in T : d <= e  BY <1>6, <1>7, LeastOfSet
<1> QED BY <1>8 DEF Depth, T

\* No level above the leaves and below Depth has one step.
LEMMA DepthIsFirst == \A l \in 1..Leaves : Size[l] = 1 => Depth <= l
<1> USE LeavesAssumption
<1> DEFINE T == {d \in 1..Leaves : Size[d] = 1}
<1>1. Depth \in T  BY Top
<1>2. T \in SUBSET Nat  OBVIOUS
<1> HIDE DEF T
<1>3. PICK d \in T : \A e \in T : d <= e  BY <1>1, <1>2, LeastOfSet
<1>4. Depth = CHOOSE x \in 1..Leaves : Size[x] = 1 /\ \A e \in 1..Leaves : Size[e] = 1 => x <= e
  BY DEF Depth
<1>5. d \in 1..Leaves /\ Size[d] = 1 /\ \A e \in 1..Leaves : Size[e] = 1 => d <= e
  BY <1>3 DEF T
<1> QED BY <1>4, <1>5

\* The root that maybeComplete looks up is one of the inserted steps.
LEMMA RootIsStep == Root \in Step
<1>1. Depth \in 0..Depth /\ 0 \in 0..(Size[Depth] - 1)  BY Top, LeavesAssumption
<1>2. Root \in {Depth} \X (0..Size[Depth] - 1)  BY <1>1 DEF Root
<1> QED BY <1>1, <1>2 DEF Step

\* PrepareSteps builds a tree: every reduction it prepares has children, no more
\* than the fan-in allows and all of the level below, and every other step than
\* the root is the child of one reduction.
TreeShape ==
  /\ Root \in Step
  /\ \A s \in Step \ Leaf :
       /\ Children[s] # {}
       /\ \A c \in Children[s] : c[2] \in FanIn * s[2] .. FanIn * s[2] + FanIn - 1
  /\ \A c \in Step \ {Root} :
       \E s \in Step : c \in Children[s] /\ \A t \in Step : c \in Children[t] => t = s

\* A group's number is that of its steps over the fan-in.
LEMMA GroupOf ==
  ASSUME NEW k \in Nat
  PROVE  LET g == k \div FanIn
         IN  g \in Nat /\ FanIn * g <= k /\ k <= FanIn * g + FanIn - 1
<1> DEFINE g == k \div FanIn
<1>1. g \in Int /\ FanIn * g <= k /\ k <= FanIn * g + FanIn - 1  BY FanInAssumption
<1> HIDE DEF g
<1>2. g >= 0
  <2> SUFFICES ASSUME g <= -1 PROVE FALSE  BY <1>1
  <2>1. FanIn * (g + 1) <= 0  BY FanInAssumption, <1>1
  <2> QED BY FanInAssumption, <1>1, <2>1
<1> QED BY <1>1, <1>2 DEF g

\* The groups of a level are those its steps are in, each with a first step.
LEMMA GroupsOfLevel ==
  ASSUME NEW n \in Nat, n >= 1, NEW i \in Nat
  PROVE  LET m == (n + FanIn - 1) \div FanIn
         IN  /\ i < m => FanIn * i \in Nat /\ FanIn * i < n /\ (FanIn * i) \div FanIn = i
             /\ i < n => i \div FanIn < m
<1> USE FanInAssumption
<1> DEFINE m == (n + FanIn - 1) \div FanIn
<1>1. m \in Int /\ FanIn * m <= n + FanIn - 1 /\ n + FanIn - 1 < FanIn * m + FanIn
  OBVIOUS
<1> HIDE DEF m
<1>2. ASSUME i < m PROVE FanIn * i \in Nat /\ FanIn * i < n /\ (FanIn * i) \div FanIn = i
  <2>1. FanIn * (m - i - 1) >= 0  BY <1>1, <1>2
  <2>2. FanIn * i \in Nat /\ FanIn * i < n  BY <1>1, <2>1
  <2>3. (FanIn * i) \div FanIn = i  OBVIOUS
  <2> QED BY <2>2, <2>3
<1>3. ASSUME i < n PROVE i \div FanIn < m
  <2> DEFINE g == i \div FanIn
  <2>1. g \in Nat /\ FanIn * g <= i  BY GroupOf
  <2> HIDE DEF g
  <2> SUFFICES ASSUME m <= g PROVE FALSE  BY <1>1, <2>1 DEF g
  <2>2. FanIn * (g - m) >= 0  BY <1>1, <2>1
  <2> QED BY <1>1, <1>3, <2>1, <2>2
<1> QED BY <1>2, <1>3 DEF m

\* The steps that the worker inserts have the shape that claiming and completing
\* them relies on, for every number of segments and every fan-in.
THEOREM StepsFormTree == TreeShape
<1> USE LeavesAssumption, FanInAssumption
<1>1. \A s \in Step : s[1] \in 0..Depth /\ s[2] \in 0..Size[s[1]] - 1 /\ s = <<s[1], s[2]>>
  BY DEF Step
<1>7. Depth \in Nat /\ Depth >= 1 /\ Depth <= Leaves  BY Top
<1>8. /\ Size \in [0..Leaves -> Nat]
      /\ \A l \in 0..Leaves : Size[l] >= 1
      /\ \A l \in 1..Leaves : Size[l] = (Size[l - 1] + FanIn - 1) \div FanIn
  BY SizeDef DEF Levels
<1>9. 0..Depth \subseteq 0..Leaves /\ 1..Depth \subseteq 1..Leaves  BY <1>7
<1>3. \A l \in 0..Depth : Size[l] \in Nat /\ Size[l] >= 1  BY <1>8, <1>9
<1>4. \A l \in 1..Depth : Size[l] = (Size[l - 1] + FanIn - 1) \div FanIn
  BY <1>8, <1>9
<1>2. ASSUME NEW l \in 0..Depth, NEW i \in Nat, i < Size[l] PROVE <<l, i>> \in Step
  <2>1. i \in 0..Size[l] - 1  BY <1>2, <1>3
  <2>2. <<l, i>> \in {l} \X (0..Size[l] - 1)  BY <2>1
  <2> QED BY <2>2 DEF Step
<1>5. ASSUME NEW s \in Step \ Leaf
      PROVE  /\ Children[s] # {}
             /\ \A c \in Children[s] : c[2] \in FanIn * s[2] .. FanIn * s[2] + FanIn - 1
  <2> DEFINE l == s[1]
             i == s[2]
             n == Size[l - 1]
  <2>1. l \in 1..Depth /\ l - 1 \in 0..Depth /\ i \in Nat /\ i < Size[l]
    BY <1>1, <1>3, Top DEF Leaf
  <2>2. n \in Nat /\ n >= 1 /\ Size[l] = (n + FanIn - 1) \div FanIn  BY <1>3, <1>4, <2>1
  <2>3. Children[s] = {c \in Step : c[1] = l - 1 /\ c[2] \div FanIn = i}  BY DEF Children
  <2> HIDE DEF l, i, n
  <2>4. FanIn * i \in Nat /\ FanIn * i < n /\ (FanIn * i) \div FanIn = i
    BY <2>1, <2>2, GroupsOfLevel
  <2>5. <<l - 1, FanIn * i>> \in Step  BY <1>2, <2>1, <2>4 DEF n
  <2>6. <<l - 1, FanIn * i>> \in Children[s]  BY <2>3, <2>4, <2>5
  <2>7. ASSUME NEW c \in Children[s]
        PROVE  c[2] \in FanIn * i .. FanIn * i + FanIn - 1
    <3>1. c \in Step /\ c[2] \div FanIn = i  BY <2>3
    <3>2. c[2] \in Nat  BY <1>1, <1>3, <3>1
    <3> DEFINE k == c[2]
    <3>3. k \in Nat /\ k \div FanIn = i  BY <3>1, <3>2
    <3> HIDE DEF k
    <3>4. FanIn * i <= k /\ k <= FanIn * i + FanIn - 1  BY <3>3, GroupOf
    <3>5. k \in FanIn * i .. FanIn * i + FanIn - 1  BY <2>4, <3>3, <3>4
    <3> QED BY <3>5 DEF k
  <2> QED BY <2>6, <2>7 DEF i
<1>6. ASSUME NEW c \in Step \ {Root}
      PROVE  \E s \in Step : c \in Children[s] /\ \A t \in Step : c \in Children[t] => t = s
  <2>1. c[1] \in 0..Depth /\ c[2] \in Nat /\ c[2] < Size[c[1]] /\ c = <<c[1], c[2]>>
    BY <1>1, <1>3
  <2>2. c[1] # Depth
    <3> SUFFICES ASSUME c[1] = Depth PROVE c = Root  OBVIOUS
    <3> QED BY <2>1, Top DEF Root
  <2> DEFINE l == c[1] + 1
             g == c[2] \div FanIn
             p == <<l, g>>
  <2>3. l \in 1..Depth /\ l - 1 = c[1]  BY <2>1, <2>2, Top
  <2>4. g \in Nat  BY <2>1, GroupOf
  <2>5. g < Size[l]  BY <1>3, <1>4, <2>1, <2>3, GroupsOfLevel
  <2>6. p \in Step  BY <1>2, <2>3, <2>4, <2>5
  <2>7. p[1] = l /\ p[2] = g  OBVIOUS
  <2> HIDE DEF g, l, p
  <2>8. p \notin Leaf  BY <2>3, <2>7 DEF Leaf
  <2>9. c \in Children[p]  BY <2>3, <2>6, <2>7, <2>8 DEF Children, g
  <2>10. ASSUME NEW t \in Step, c \in Children[t] PROVE t = p
    <3>1. t \notin Leaf /\ c[1] = t[1] - 1 /\ g = t[2]  BY <2>10 DEF Children, g
    <3>2. t[1] \in Int /\ c[1] \in Int /\ t = <<t[1], t[2]>>  BY <1>1, <2>1
    <3>3. t[1] = l  BY <3>1, <3>2 DEF l
    <3> QED BY <3>1, <3>2, <3>3 DEF p
  <2> QED BY <2>6, <2>9, <2>10
<1> QED BY <1>5, <1>6, RootIsStep DEF TreeShape

\* AnalysisReductionTreeSatisfiable multiplies the fan-in as often as the limits
\* allow levels; when that reaches the number of segments, grouping ends within
\* those levels, so that PrepareSteps never refuses a tree as too deep.
THEOREM DepthSuffices ==
  ASSUME NEW d \in Nat, NEW cap \in [0..d -> Nat],
         cap[0] = 1, \A l \in 1..d : cap[l] = cap[l - 1] * FanIn, cap[d] >= Leaves
  PROVE  Depth <= d \/ Depth = 1
<1> USE LeavesAssumption, FanInAssumption
<1>1. /\ Size \in [0..Leaves -> Nat] /\ Size[0] = Leaves
      /\ \A l \in 0..Leaves : Size[l] >= 1
      /\ \A l \in 1..Leaves : Size[l] = (Size[l - 1] + FanIn - 1) \div FanIn
  BY SizeDef DEF Levels
<1>2. Depth \in 1..Leaves /\ \A l \in 1..Leaves : Size[l] = 1 => Depth <= l
  BY Top, DepthIsFirst
<1>3. CASE d > Leaves  BY <1>2, <1>3
<1>4. CASE d <= Leaves
  <2> DEFINE G == {l \in Nat : l <= d => (Size[l] - 1) * cap[l] < Leaves}
  <2>1. 0 \in G  BY <1>1
  <2>2. ASSUME NEW n \in Nat, n \in G PROVE n + 1 \in G
    <3> SUFFICES ASSUME n + 1 <= d PROVE (Size[n + 1] - 1) * cap[n + 1] < Leaves  OBVIOUS
    <3>1. n \in 0..d /\ n + 1 \in 1..d /\ n \in 0..Leaves /\ n + 1 \in 1..Leaves /\ (n + 1) - 1 = n
             /\ n + 1 \in 0..Leaves
      BY <1>4
    <3> DEFINE p == Size[n]
               c == cap[n]
               s == Size[n + 1]
    <3>2. p \in Nat /\ p >= 1 /\ c \in Nat /\ s \in Nat /\ s = (p + FanIn - 1) \div FanIn
      BY <1>1, <3>1
    <3>3. cap[n + 1] = c * FanIn  BY <3>1
    <3>4. (p - 1) * c < Leaves  BY <2>2, <3>1
    <3> HIDE DEF p, c, s
    <3>5. (s - 1) * FanIn <= p - 1  BY <3>2, GroupFloor
    <3>6. ((s - 1) * FanIn) * c <= (p - 1) * c
      <4> DEFINE x == (s - 1) * FanIn
                 y == p - 1
      <4>1. x \in Int /\ y \in Int /\ x <= y  BY <3>2, <3>5
      <4> HIDE DEF x, y
      <4>2. x * c <= y * c  BY <3>2, <4>1
      <4> QED BY <4>2 DEF x, y
    <3>7. (s - 1) * (c * FanIn) = ((s - 1) * FanIn) * c
      <4>1. \A x, y, z \in Int : x * (y * z) = (x * z) * y  OBVIOUS
      <4> QED BY <3>2, <4>1
    <3>8. (s - 1) * (c * FanIn) < Leaves  BY <3>2, <3>4, <3>6, <3>7
    <3> QED BY <3>3, <3>8 DEF s
  <2> HIDE DEF G
  <2>3. \A n \in Nat : n \in G  BY <2>1, <2>2, SetInduction
  <2>4. (Size[d] - 1) * cap[d] < Leaves  BY <2>3 DEF G
  <2>5. Size[d] = 1
    <3>1. Size[d] \in Nat /\ Size[d] >= 1 /\ cap[d] \in Nat  BY <1>1, <1>4
    <3> SUFFICES ASSUME Size[d] - 1 >= 1 PROVE FALSE  BY <3>1
    <3>2. \A m, n \in Nat : m >= 1 => m * n >= n
      <4> TAKE m, n \in Nat
      <4> HAVE m >= 1
      <4>1. (m - 1) * n >= 0  OBVIOUS
      <4>2. m * n = (m - 1) * n + n  OBVIOUS
      <4> QED BY <4>1, <4>2
    <3> DEFINE x == Size[d] - 1
               y == cap[d]
    <3>4. x \in Nat /\ y \in Nat /\ x >= 1  BY <3>1
    <3> HIDE DEF x, y
    <3>5. x * y >= y  BY <3>2, <3>4
    <3>3. (Size[d] - 1) * cap[d] >= cap[d]  BY <3>5 DEF x, y
    <3> QED BY <2>4, <3>1, <3>3
  <2>6. CASE d = 0
    <3>1. Leaves = 1  BY <1>1, <2>5, <2>6
    <3> QED BY <1>2, <3>1
  <2>7. CASE d >= 1  BY <1>2, <1>4, <2>5, <2>7
  <2> QED BY <2>6, <2>7
<1> QED BY <1>3, <1>4

-----------------------------------------------------------------------------
\* The inductive invariant.

Payload == [by : Nat, of : SUBSET (Step \X Nat)]

Rows == [state : {"none", "prepared", "claimed", "completed", "failed"},
         lease : Nat, ripe : BOOLEAN,
         payload : Payload, digest : Nat]

Goroutines ==
  {r \in [s : Step, lease : Nat, of : SUBSET (Step \X Nat),
          at : {"queued", "start", "model", "evidence", "payload", "complete"}] :
     r.at \in {"queued", "start"} => r.of = {}}

States == {"none", "preparing", "running", "completed", "failed"}

Typed ==
  /\ analysis \in [Analysis -> States]
  /\ published = [a \in Analysis |-> published[a]]
  /\ step \in [Analysis -> [Step -> Rows]]
  /\ runs \subseteq Goroutines

\* The worker is on an analysis whenever it works on one.
Placed ==
  /\ worker \in [at : {"down", "idle", "list", "prepare", "insert", "mark", "drain", "wait", "check"},
                 on : Analysis \union {None}, todo : SUBSET Analysis, left : SUBSET Step]
  /\ worker.at \notin {"down", "idle", "list"} => worker.on \in Analysis
  /\ runs # {} => worker.at \in {"drain", "wait"}

Inputs(a, s) == {<<c, step[a][c].digest>> : c \in Children[s]}

ChildrenDone(a, s) == \A c \in Children[s] : step[a][c].state = "completed"

\* The rows: all there under a manifest, claimed only over completed children,
\* completed with one claim's payload made of what the children store.
Grown ==
  /\ \A a \in Analysis, s \in Step :
       /\ step[a][s].state # "none" => s \in Leaf \/ Children[s] # {}
       /\ step[a][s].state \in {"claimed", "completed"} => ChildrenDone(a, s)
       /\ step[a][s].state = "completed" =>
            /\ a \in manifest
            /\ step[a][s].digest = step[a][s].payload.by
            /\ step[a][s].payload.of = Inputs(a, s)
       /\ a \in manifest => step[a][s].state # "none"
  /\ worker.at = "insert" =>
       \A s \in Step \ worker.left : step[worker.on][s].state # "none"

\* No two goroutines have one claim, and none has a later one than its row.
Claims ==
  /\ \A r \in runs : r.lease <= step[worker.on][r.s].lease
  /\ \A q, r \in runs : q.s = r.s /\ q.lease = r.lease => q = r

\* What a goroutine has read stays what its children store, and what the one
\* that holds the claim has written stays in the row.
Knows ==
  \A r \in runs :
    /\ ChildrenDone(worker.on, r.s)
    /\ r.s \in Leaf \/ Children[r.s] # {}
    /\ r.at \notin {"queued", "start"} =>
         /\ r.of = Inputs(worker.on, r.s)
         /\ r.s \in Leaf => worker.on \in manifest
    /\ r.at = "complete" /\ Holds(worker.on, r) =>
         step[worker.on][r.s].payload = [by |-> r.lease, of |-> r.of]

Finished ==
  \A a \in Analysis :
    /\ analysis[a] = "completed" => /\ \A s \in Step : step[a][s].state = "completed"
                                    /\ published[a] = step[a][Root].payload.by
    /\ analysis[a] # "completed" => published[a] = 0

IInv == Typed /\ Placed /\ Grown /\ Claims /\ Knows /\ Finished

-----------------------------------------------------------------------------
\* A row that moves on without completing: it fails, is prepared again, or the
\* time it waits for passes.
Softer(a, s) ==
  \/ step'[a][s] = step[a][s]
  \/ /\ step[a][s].state \in {"prepared", "claimed"}
     /\ step'[a][s].state \in {step[a][s].state, "prepared", "failed"}
     /\ step'[a][s].lease = step[a][s].lease
     /\ step'[a][s].payload = step[a][s].payload
     /\ step'[a][s].digest = step[a][s].digest

\* An analysis that neither completes nor leaves completion.
Still(a) ==
  analysis'[a] = analysis[a] \/ (analysis[a] # "completed" /\ analysis'[a] # "completed")

\* What children store does not change once they are completed.
LEMMA InputsStay ==
  ASSUME NEW a \in Analysis, NEW s \in Step, ChildrenDone(a, s),
         \A t \in Step : step[a][t].state = "completed" => step'[a][t] = step[a][t]
  PROVE  ChildrenDone(a, s)' /\ Inputs(a, s)' = Inputs(a, s)
<1>1. Children[s] \subseteq Step  BY DEF Children
<1>2. \A c \in Children[s] : step'[a][c] = step[a][c]  BY <1>1 DEF ChildrenDone
<1> QED BY <1>2 DEF ChildrenDone, Inputs

\* Steps in which no row completes, no claim is made, and analyses neither
\* complete nor leave completion.
LEMMA NothingGrows ==
  ASSUME IInv, Typed', Placed',
         \A a \in Analysis, s \in Step : Softer(a, s),
         manifest' = manifest, published' = published, runs' \subseteq runs,
         runs' # {} => worker'.on = worker.on,
         worker'.at = "insert" =>
           \A s \in Step \ worker'.left : step[worker'.on][s].state # "none",
         \A a \in Analysis : Still(a)
  PROVE  IInv'
<1> USE DEF IInv, Still
<1>1. \A a \in Analysis, s \in Step :
        /\ step[a][s].state = "completed" => step'[a][s] = step[a][s]
        /\ step'[a][s].state = "completed" => step[a][s].state = "completed"
  BY DEF Softer
<1>2. \A a \in Analysis, s \in Step :
        ChildrenDone(a, s) => ChildrenDone(a, s)' /\ Inputs(a, s)' = Inputs(a, s)
  BY <1>1, InputsStay
<1>3. Grown'
  <2>1. \A a \in Analysis, s \in Step :
          /\ step[a][s].state # "none" <=> step'[a][s].state # "none"
          /\ step'[a][s].state = "claimed" => step[a][s].state = "claimed" \/ step'[a][s].state = step[a][s].state
    BY DEF Softer
  <2>2. \A a \in Analysis, s \in Step :
          step'[a][s].state = "claimed" => step[a][s].state = "claimed"
    BY DEF Softer
  <2>3. worker'.at = "insert" => worker'.on \in Analysis  BY DEF Placed
  <2> QED BY <1>1, <1>2, <2>1, <2>2, <2>3 DEF Grown
<1>4. Claims' /\ Knows'
  <2> SUFFICES ASSUME runs' # {} PROVE Claims' /\ Knows'  BY DEF Claims, Knows
  <2>1. worker'.on = worker.on /\ worker.on \in Analysis  BY DEF Placed
  <2>2. \A r \in runs' : r \in runs /\ r.s \in Step  BY DEF Typed, Goroutines
  <2>3. \A r \in runs' : step'[worker.on][r.s].lease = step[worker.on][r.s].lease
    BY <2>1, <2>2 DEF Softer
  <2>4. Claims'  BY <2>1, <2>2, <2>3 DEF Claims
  <2>5. \A r \in runs' : Holds(worker.on, r)' => Holds(worker.on, r)
                           /\ step'[worker.on][r.s].payload = step[worker.on][r.s].payload
    BY <2>1, <2>2 DEF Softer, Holds
  <2>6. Knows'
    <3> SUFFICES ASSUME NEW r \in runs'
                 PROVE  /\ ChildrenDone(worker.on, r.s)'
                        /\ r.s \in Leaf \/ Children[r.s] # {}
                        /\ r.at \notin {"queued", "start"} =>
                             /\ r.of = Inputs(worker.on, r.s)'
                             /\ r.s \in Leaf => worker'.on \in manifest'
                        /\ r.at = "complete" /\ Holds(worker.on, r)' =>
                             step'[worker'.on][r.s].payload = [by |-> r.lease, of |-> r.of]
      BY DEF Knows
    <3>1. r \in runs /\ r.s \in Step  BY <2>2
    <3>2. ChildrenDone(worker.on, r.s)  BY <3>1 DEF Knows
    <3>3. /\ ChildrenDone(worker.on, r.s)'
          /\ Inputs(worker.on, r.s)' = Inputs(worker.on, r.s)
      BY <1>2, <2>1, <3>1, <3>2 DEF ChildrenDone, Inputs
    <3>4. r.at = "complete" /\ Holds(worker.on, r)' =>
            step'[worker'.on][r.s].payload = [by |-> r.lease, of |-> r.of]
      BY <2>1, <2>5, <3>1 DEF Knows
    <3> QED BY <2>1, <3>1, <3>3, <3>4 DEF Knows
  <2> QED BY <2>4, <2>6
<1>5. Finished'
  <2> SUFFICES ASSUME NEW a \in Analysis
               PROVE  /\ analysis'[a] = "completed" =>
                           /\ \A s \in Step : step'[a][s].state = "completed"
                           /\ published'[a] = step'[a][Root].payload.by
                      /\ analysis'[a] # "completed" => published'[a] = 0
    BY DEF Finished
  <2>1. CASE analysis[a] = "completed"
    <3>1. \A s \in Step : step'[a][s] = step[a][s]  BY <1>1, <2>1 DEF Finished
    <3>2. step'[a] = step[a]  BY <3>1 DEF Typed
    <3> QED BY <2>1, <3>1, <3>2 DEF Finished
  <2>2. CASE analysis[a] # "completed"  BY <2>2 DEF Finished
  <2> QED BY <2>1, <2>2
<1> QED BY <1>3, <1>4, <1>5

\* Steps of a goroutine that write no row: what it knows by then is still so.
LEMMA RunMoves ==
  ASSUME IInv, Typed', Placed', NEW r \in runs, NEW q,
         q.s = r.s, q.lease = r.lease, q.at # "complete",
         q.at \notin {"queued", "start"} =>
           /\ q.of = Inputs(worker.on, r.s)
           /\ r.s \in Leaf => worker.on \in manifest,
         runs' = (runs \ {r}) \union {q},
         UNCHANGED <<step, manifest, analysis, published, worker>>
  PROVE  IInv'
<1> USE DEF IInv
<1>1. Grown' /\ Finished'
  BY DEF Grown, Finished, ChildrenDone, Inputs
<1>2. Claims'  BY DEF Claims
<1>3. Knows'
  <2> SUFFICES ASSUME NEW x \in runs'
               PROVE  /\ ChildrenDone(worker.on, x.s)
                      /\ x.s \in Leaf \/ Children[x.s] # {}
                      /\ x.at \notin {"queued", "start"} =>
                           /\ x.of = Inputs(worker.on, x.s)
                           /\ x.s \in Leaf => worker.on \in manifest
                      /\ x.at = "complete" /\ Holds(worker.on, x) =>
                           step[worker.on][x.s].payload = [by |-> x.lease, of |-> x.of]
    <3>1. worker' = worker /\ step' = step /\ manifest' = manifest  OBVIOUS
    <3>2. \A x \in runs' :
            /\ ChildrenDone(worker.on, x.s)' <=> ChildrenDone(worker.on, x.s)
            /\ Inputs(worker.on, x.s)' = Inputs(worker.on, x.s)
            /\ Holds(worker.on, x)' <=> Holds(worker.on, x)
      BY <3>1 DEF ChildrenDone, Inputs, Holds
    <3> QED BY <3>1, <3>2, Zenon DEF Knows
  <2>1. CASE x = q  BY <2>1 DEF Knows
  <2>2. CASE x \in runs  BY <2>2 DEF Knows
  <2> QED BY <2>1, <2>2
<1> QED BY <1>1, <1>2, <1>3

-----------------------------------------------------------------------------
\* The steps that write what others rely on, one lemma each.

LEMMA InsertKeeps ==
  ASSUME IInv, NEW a \in Analysis, InsertStep(a)
  PROVE  IInv'
<1> USE DEF IInv
<1> UNCHANGED <<analysis, manifest, published, runs>> /\ worker.at = "insert" /\ worker.on = a
  BY DEF InsertStep
<1> PICK s \in worker.left :
      IF step[a][s].state = "none" /\ (s \in Leaf \/ Children[s] # {})
      THEN /\ step' = [step EXCEPT ![a][s] = Row("prepared", 0, TRUE)]
           /\ worker' = [worker EXCEPT !.left = @ \ {s}]
      ELSE Return /\ UNCHANGED step
  BY DEF InsertStep
<1> s \in Step /\ runs = {}  BY DEF Placed
<1>1. CASE step[a][s].state = "none" /\ (s \in Leaf \/ Children[s] # {})
  <2>1. /\ step' = [step EXCEPT ![a][s] = Row("prepared", 0, TRUE)]
        /\ worker' = [worker EXCEPT !.left = @ \ {s}]
    BY <1>1
  <2>2. Row("prepared", 0, TRUE) \in Rows  BY DEF Row, NoPayload, Rows, Payload
  <2>3. Typed'  BY <2>1, <2>2 DEF Typed
  <2>4. Placed'  BY <2>1 DEF Placed
  <2>5. \A b \in Analysis, t \in Step :
          step'[b][t] = IF b = a /\ t = s THEN Row("prepared", 0, TRUE) ELSE step[b][t]
    BY <2>1 DEF Typed
  <2>6. Row("prepared", 0, TRUE).state = "prepared"  BY DEF Row
  <2>7. \A b \in Analysis, t \in Step : ChildrenDone(b, t) =>
          ChildrenDone(b, t)' /\ Inputs(b, t)' = Inputs(b, t)
    BY <1>1, <2>5, InputsStay
  <2>8. Grown'
    <3>1. worker'.on = a /\ worker'.left = worker.left \ {s}  BY <2>1 DEF Placed
    <3>5. \A t \in Step \ worker.left : step[a][t].state # "none"
      BY DEF Grown
    <3>6. \A t \in Step \ worker'.left : step'[a][t].state # "none"
      BY <2>5, <2>6, <3>1, <3>5
    <3>2. \A t \in Step \ worker'.left : step'[worker'.on][t].state # "none"
      BY <3>1, <3>6
    <3>3. a \notin manifest  BY <1>1 DEF Grown
    <3>4. ASSUME NEW b \in Analysis, NEW t \in Step
          PROVE  /\ step'[b][t].state # "none" => t \in Leaf \/ Children[t] # {}
                 /\ step'[b][t].state \in {"claimed", "completed"} => ChildrenDone(b, t)'
                 /\ step'[b][t].state = "completed" =>
                      /\ b \in manifest'
                      /\ step'[b][t].digest = step'[b][t].payload.by
                      /\ step'[b][t].payload.of = Inputs(b, t)'
                 /\ b \in manifest' => step'[b][t].state # "none"
      <4>1. CASE b = a /\ t = s  BY <1>1, <2>5, <2>6, <3>3, <4>1
      <4>2. CASE ~(b = a /\ t = s)
        <5>1. step'[b][t] = step[b][t]  BY <2>5, <4>2
        <5> QED BY <2>7, <5>1 DEF Grown
      <4> QED BY <4>1, <4>2
    <3> QED BY <3>2, <3>4 DEF Grown
  <2>9. Finished'
    <3>1. \A b \in Analysis : analysis[b] = "completed" => step'[b] = step[b]
      BY <1>1, <2>1 DEF Finished, Typed
    <3> QED BY <3>1 DEF Finished
  <2> QED BY <2>3, <2>4, <2>8, <2>9 DEF Claims, Knows
<1>2. CASE ~(step[a][s].state = "none" /\ (s \in Leaf \/ Children[s] # {}))
  <2>1. Return /\ UNCHANGED step  BY <1>2
  <2>2. Typed' /\ Placed'  BY <2>1 DEF Typed, Placed, Return
  <2>3. \A b \in Analysis, t \in Step : Softer(b, t)  BY <2>1 DEF Softer
  <2>4. worker'.at # "insert"  BY <2>1 DEF Return, Placed
  <2> QED BY <2>2, <2>3, <2>4, NothingGrows DEF Still
<1> QED BY <1>1, <1>2

LEMMA ManifestKeeps ==
  ASSUME IInv, NEW a \in Analysis, WriteManifest(a)
  PROVE  IInv'
<1> USE DEF IInv
<1>1. /\ manifest' = manifest \union {a} /\ worker.on = a /\ worker.at = "insert"
      /\ worker.left = {} /\ worker' = [worker EXCEPT !.at = "mark", !.left = {}]
      /\ UNCHANGED <<analysis, step, published, runs>>
  BY DEF WriteManifest, Go
<1>2. Typed' /\ Placed'  BY <1>1 DEF Typed, Placed
<1>3. \A s \in Step : step[a][s].state # "none"  BY <1>1 DEF Grown
<1>4. worker'.at = "mark"  BY <1>1 DEF Placed
<1>5. Grown'  BY <1>1, <1>3, <1>4 DEF Grown, ChildrenDone, Inputs
<1>6. runs' = {}  BY <1>1 DEF Placed
<1> QED BY <1>1, <1>2, <1>5, <1>6 DEF Claims, Knows, Finished

\* A claim changes its row's state, lease and ripeness alone.
LEMMA RowClaimed ==
  ASSUME NEW old \in Rows
  PROVE  LET row == [old EXCEPT !.state = "claimed", !.lease = old.lease + 1, !.ripe = FALSE]
         IN  /\ row \in Rows /\ row.state = "claimed" /\ row.lease = old.lease + 1
             /\ row.payload = old.payload /\ row.digest = old.digest
<1>1. old.lease + 1 \in Nat  BY DEF Rows
<1> DEFINE n == old.lease + 1
<1>2. n \in Nat  BY <1>1
<1> HIDE DEF n
<1>3. LET row == [old EXCEPT !.state = "claimed", !.lease = n, !.ripe = FALSE]
      IN  /\ row \in Rows /\ row.state = "claimed" /\ row.lease = n
          /\ row.payload = old.payload /\ row.digest = old.digest
  BY <1>2 DEF Rows
<1> QED BY <1>3 DEF n

LEMMA ClaimKeeps ==
  ASSUME IInv, NEW a \in Analysis, Claim(a)
  PROVE  IInv'
<1> USE DEF IInv
<1> PICK s \in Claimable(a) :
      /\ step' = [step EXCEPT ![a][s] = [@ EXCEPT !.state = "claimed",
                                           !.lease = step[a][s].lease + 1, !.ripe = FALSE]]
      /\ runs' = runs \union {Run(s, step[a][s].lease + 1, "queued")}
  BY DEF Claim
<1> DEFINE old == step[a][s]
           row == [old EXCEPT !.state = "claimed", !.lease = old.lease + 1, !.ripe = FALSE]
           new == Run(s, step[a][s].lease + 1, "queued")
<1>1. /\ UNCHANGED <<analysis, manifest, published, worker>>
      /\ worker.on = a /\ worker.at = "drain"
  BY DEF Claim
<1>2. /\ s \in Step /\ step[a][s].state \in {"prepared", "claimed"}
      /\ ChildrenDone(a, s)
  BY DEF Claimable, Due, ChildrenDone
<1>3. old \in Rows  BY <1>2 DEF Typed
<1>12. step[a][s].lease \in Nat  BY <1>3 DEF Rows
<1>4. /\ row \in Rows /\ row.state = "claimed" /\ row.lease = step[a][s].lease + 1
      /\ row.payload = step[a][s].payload /\ row.digest = step[a][s].digest
  BY <1>3, RowClaimed
<1>5. \A b \in Analysis, t \in Step :
        step'[b][t] = IF b = a /\ t = s THEN row ELSE step[b][t]
  BY <1>2 DEF Typed
<1>6. /\ new \in Goroutines /\ new.s = s /\ new.lease = step[a][s].lease + 1
      /\ new.at = "queued"
  BY <1>2, <1>3 DEF Run, Goroutines, Rows
<1>16. runs' = runs \union {new} /\ step' = [step EXCEPT ![a][s] = row]  OBVIOUS
<1> HIDE DEF row, new, old
<1>7. Typed'
  <2>1. step' \in [Analysis -> [Step -> Rows]]
    BY <1>2, <1>4, <1>16 DEF Typed
  <2> QED BY <1>1, <1>6, <1>16, <2>1 DEF Typed
<1>8. Placed'  BY <1>1 DEF Placed
<1>9. \A b \in Analysis, t \in Step : ChildrenDone(b, t) =>
        ChildrenDone(b, t)' /\ Inputs(b, t)' = Inputs(b, t)
  BY <1>2, <1>5, InputsStay
<1>10. Grown'
  <2>1. worker'.at # "insert"  BY <1>1
  <2>2. step[a][s].state # "none" /\ (s \in Leaf \/ Children[s] # {})
    BY <1>2 DEF Grown
  <2> QED BY <1>1, <1>2, <1>4, <1>5, <1>9, <2>1, <2>2 DEF Grown
<1>11. \A r \in runs : r.s \in Step /\ r.lease \in Nat  BY DEF Typed, Goroutines
<1>13. Claims'
  <2>1. \A r \in runs : r.lease <= step[a][r.s].lease  BY <1>1 DEF Claims
  <2>2. \A r \in runs : r.s = s => r.lease # new.lease  BY <1>6, <1>11, <1>12, <2>1
  <2>3. \A r \in runs' : r \in runs \/ r = new  BY <1>16
  <2>4. \A r \in runs' : r.lease <= step'[a][r.s].lease
    BY <1>2, <1>4, <1>5, <1>6, <1>11, <1>12, <2>1, <2>3
  <2>5. \A q, r \in runs' : q.s = r.s /\ q.lease = r.lease => q = r
    BY <1>6, <2>2, <2>3 DEF Claims
  <2> QED BY <1>1, <2>4, <2>5 DEF Claims
<1>14. Knows'
  <2>1. \A r \in runs' : r \in runs \/ r = new  BY <1>16
  <2> SUFFICES ASSUME NEW r \in runs'
               PROVE  /\ ChildrenDone(a, r.s)'
                      /\ r.s \in Leaf \/ Children[r.s] # {}
                      /\ r.at \notin {"queued", "start"} =>
                           /\ r.of = Inputs(a, r.s)'
                           /\ r.s \in Leaf => a \in manifest'
                      /\ r.at = "complete" /\ Holds(a, r)' =>
                           step'[a][r.s].payload = [by |-> r.lease, of |-> r.of]
    <3>1. worker'.on = a  BY <1>1
    <3>2. \A r \in runs' :
            /\ ChildrenDone(worker.on, r.s)' <=> ChildrenDone(a, r.s)'
            /\ Inputs(worker.on, r.s)' = Inputs(a, r.s)'
            /\ Holds(worker.on, r)' <=> Holds(a, r)'
            /\ step'[worker'.on][r.s].payload = step'[a][r.s].payload
      BY <3>1 DEF ChildrenDone, Inputs, Holds
    <3>3. worker'.on \in manifest' <=> a \in manifest'  BY <3>1
    <3> QED BY <3>2, <3>3, ZenonT(60) DEF Knows
  <2>2. CASE r = new
    BY <1>2, <1>6, <1>9, <2>2 DEF Grown, ChildrenDone, Inputs
  <2>3. CASE r \in runs
    <3>1. r.s \in Step /\ ChildrenDone(a, r.s)  BY <1>1, <1>11, <2>3 DEF Knows
    <3>2. /\ ChildrenDone(a, r.s)' /\ Inputs(a, r.s)' = Inputs(a, r.s)
      BY <1>9, <3>1
    <3>3. Holds(a, r)' => Holds(a, r) /\ step'[a][r.s].payload = step[a][r.s].payload
      <4>1. r.lease <= step[a][r.s].lease  BY <1>1, <2>3 DEF Claims
      <4>2. r.s = s => r.lease # row.lease  BY <1>4, <1>11, <1>12, <2>3, <4>1
      <4> QED BY <1>5, <3>1, <4>2, ZenonT(60) DEF Holds
    <3> QED BY <1>1, <2>3, <3>2, <3>3 DEF Knows
  <2> QED BY <2>1, <2>2, <2>3
<1>15. Finished'
  <2>1. \A b \in Analysis : analysis[b] = "completed" => b # a
    BY <1>2 DEF Finished
  <2>2. \A b \in Analysis : b # a => step'[b] = step[b]  BY <1>16 DEF Typed
  <2> QED BY <1>1, <2>1, <2>2 DEF Finished
<1> QED BY <1>7, <1>8, <1>10, <1>13, <1>14, <1>15

\* The payload is stored under the claim that its goroutine still holds.
LEMMA PayloadKeeps ==
  ASSUME IInv, NEW r \in runs, WritePayload(worker.on, r)
  PROVE  IInv'
<1> USE DEF IInv
<1> DEFINE a == worker.on
<1>1. /\ UNCHANGED <<analysis, manifest, published, worker>>
      /\ r.at = "payload" /\ worker.at \in {"drain", "wait"}
  BY DEF WritePayload, Placed
<1>2. a \in Analysis /\ r \in Goroutines /\ r.s \in Step  BY <1>1 DEF Placed, Typed, Goroutines
<1>3. worker'.at # "insert"  BY <1>1
<1>4. Placed'  BY <1>1, <1>2 DEF Placed
<1> HIDE DEF a
<1>5. CASE Holds(a, r)
  <2> DEFINE load == [by |-> r.lease, of |-> r.of]
             q == [r EXCEPT !.at = "complete"]
             row == [step[a][r.s] EXCEPT !.payload = load]
  <2>1. /\ step' = [step EXCEPT ![a][r.s] = row]
        /\ runs' = (runs \ {r}) \union {q}
    BY <1>5 DEF WritePayload, Advance, a
  <2>2. step[a][r.s] \in Rows /\ step[a][r.s].state = "claimed" /\ step[a][r.s].lease = r.lease
    BY <1>2, <1>5 DEF Typed, Holds
  <2>3. load \in Payload  BY <1>2 DEF Payload, Goroutines
  <2>4. q \in Goroutines /\ q.s = r.s /\ q.lease = r.lease /\ q.of = r.of /\ q.at = "complete"
    BY <1>2 DEF Goroutines
  <2>5. /\ row \in Rows /\ row.state = "claimed" /\ row.lease = r.lease /\ row.payload = load
    BY <2>2, <2>3 DEF Rows
  <2> HIDE DEF row, q
  <2>6. \A b \in Analysis, t \in Step :
          step'[b][t] = IF b = a /\ t = r.s THEN row ELSE step[b][t]
    BY <1>2, <2>1 DEF Typed
  <2>7. Typed'
    <3>1. step' \in [Analysis -> [Step -> Rows]]  BY <1>2, <2>1, <2>5 DEF Typed
    <3> QED BY <1>1, <2>1, <2>4, <3>1 DEF Typed
  <2>8. \A b \in Analysis, t \in Step : ChildrenDone(b, t) =>
          ChildrenDone(b, t)' /\ Inputs(b, t)' = Inputs(b, t)
    BY <2>2, <2>6, InputsStay
  <2>9. \A b \in Analysis, t \in Step : /\ step'[b][t].state = step[b][t].state
                                        /\ step'[b][t].lease = step[b][t].lease
    BY <2>2, <2>5, <2>6
  <2>10. Grown'
    <3>1. \A b \in Analysis, t \in Step :
            step[b][t].state = "completed" => step'[b][t] = step[b][t]
      BY <2>2, <2>6
    <3> QED BY <1>1, <1>3, <2>8, <2>9, <3>1 DEF Grown
  <2>11. \A x \in runs' : x = q \/ (x \in runs /\ x # r)  BY <2>1
  <2>12. Claims'
    <3>1. worker'.on = a  BY <1>1 DEF a
    <3>2. \A x \in runs' : x.lease <= step'[a][x.s].lease
      <4>1. \A x \in runs : x.lease <= step[a][x.s].lease /\ x.s \in Step
        BY DEF Claims, a, Typed, Goroutines
      <4> QED BY <1>2, <2>4, <2>9, <2>11, <4>1
    <3>3. \A x, y \in runs' : x.s = y.s /\ x.lease = y.lease => x = y
      BY <2>4, <2>11 DEF Claims
    <3> QED BY <3>1, <3>2, <3>3 DEF Claims
  <2>13. Knows'
    <3> SUFFICES ASSUME NEW x \in runs'
                 PROVE  /\ ChildrenDone(worker.on, x.s)'
                        /\ x.s \in Leaf \/ Children[x.s] # {}
                        /\ x.at \notin {"queued", "start"} =>
                             /\ x.of = Inputs(worker.on, x.s)'
                             /\ x.s \in Leaf => worker'.on \in manifest'
                        /\ x.at = "complete" /\ Holds(worker.on, x)' =>
                             step'[worker'.on][x.s].payload = [by |-> x.lease, of |-> x.of]
      BY DEF Knows
    <3> USE DEF a
    <3>1. r.at \notin {"queued", "start", "complete"}  BY <1>1
    <3>2. PICK y \in runs : y.s = x.s /\ y.of = x.of /\ y.lease = x.lease
                             /\ (x.at \notin {"queued", "start"} => y.at \notin {"queued", "start"})
                             /\ (x = q \/ y = x)
      BY <2>4, <2>11, <3>1
    <3>3. y.s \in Step  BY DEF Typed, Goroutines
    <3>4. /\ ChildrenDone(a, y.s)
          /\ y.s \in Leaf \/ Children[y.s] # {}
          /\ y.at \notin {"queued", "start"} =>
               /\ y.of = Inputs(a, y.s)
               /\ y.s \in Leaf => a \in manifest
      BY DEF Knows
    <3>5. ChildrenDone(a, y.s)' /\ Inputs(a, y.s)' = Inputs(a, y.s)
      BY <1>1, <1>2, <2>8, <3>3, <3>4 DEF ChildrenDone, Inputs
    <3>6. ASSUME x.at = "complete", Holds(a, x)'
          PROVE  step'[worker'.on][x.s].payload = [by |-> x.lease, of |-> x.of]
      <4>1. worker'.on = a  BY <1>1
      <4>2. CASE x = q  BY <1>2, <2>4, <2>5, <2>6, <4>1, <4>2
      <4>3. CASE x \in runs /\ x # r
        <5>1. x.s \in Step  BY <4>3 DEF Typed, Goroutines
        <5>2. Holds(a, x)  BY <1>2, <2>9, <3>6, <4>1, <5>1 DEF Holds
        <5>3. x.s # r.s
          <6> SUFFICES ASSUME x.s = r.s PROVE FALSE  OBVIOUS
          <6>1. x.lease = r.lease  BY <2>2, <5>2 DEF Holds
          <6> QED BY <4>3, <6>1 DEF Claims
        <5>4. step'[a][x.s] = step[a][x.s]  BY <1>2, <2>6, <5>1, <5>3
        <5> QED BY <3>6, <4>1, <4>3, <5>2, <5>4 DEF Knows
      <4> QED BY <2>11, <4>2, <4>3
    <3>7. ChildrenDone(a, x.s)' /\ Inputs(a, x.s)' = Inputs(a, x.s)
      BY <3>2, <3>5 DEF ChildrenDone, Inputs
    <3>8. Inputs(a, x.s) = Inputs(a, y.s)  BY <3>2 DEF Inputs
    <3> QED BY <1>1, <3>2, <3>4, <3>6, <3>7, <3>8
  <2>14. Finished'
    <3>1. analysis[a] # "completed"  BY <1>2, <2>2 DEF Finished
    <3>2. \A b \in Analysis : b # a => step'[b] = step[b]  BY <2>1 DEF Typed
    <3> QED BY <1>1, <3>1, <3>2 DEF Finished
  <2> QED BY <1>4, <2>7, <2>10, <2>12, <2>13, <2>14
<1>6. CASE ~Holds(a, r)
  <2>1. UNCHANGED step /\ runs' = runs \ {r}  BY <1>6 DEF WritePayload, End, a
  <2>2. Typed'  BY <1>1, <2>1 DEF Typed
  <2>3. \A b \in Analysis, t \in Step : Softer(b, t)  BY <2>1 DEF Softer
  <2> QED BY <1>1, <1>3, <1>4, <2>1, <2>2, <2>3, NothingGrows DEF Still
<1> QED BY <1>5, <1>6

\* A step completes with the payload its goroutine wrote; a reduction's children
\* show that the manifest is stored, a leaf's segment was read from it.
LEMMA CompleteKeeps ==
  ASSUME IInv, NEW r \in runs, CompleteStep(worker.on, r)
  PROVE  IInv'
<1> USE DEF IInv
<1> DEFINE a == worker.on
<1>1. /\ UNCHANGED <<analysis, manifest, published, worker>>
      /\ r.at = "complete" /\ worker.at \in {"drain", "wait"} /\ runs' = runs \ {r}
  BY DEF CompleteStep, Placed, End
<1>2. a \in Analysis /\ r \in Goroutines /\ r.s \in Step /\ r.lease \in Nat
  BY <1>1 DEF Placed, Typed, Goroutines
<1>3. worker'.at # "insert"  BY <1>1
<1>4. Placed'  BY <1>1, <1>2 DEF Placed
<1> HIDE DEF a
<1>5. CASE Holds(a, r)
  <2> DEFINE row == [step[a][r.s] EXCEPT !.state = "completed", !.digest = r.lease]
  <2>1. step' = [step EXCEPT ![a][r.s] = row]  BY <1>5 DEF CompleteStep, a
  <2>2. step[a][r.s] \in Rows /\ step[a][r.s].state = "claimed"
    BY <1>2, <1>5 DEF Typed, Holds
  <2>3. /\ row \in Rows /\ row.state = "completed" /\ row.digest = r.lease
        /\ row.payload = step[a][r.s].payload /\ row.lease = step[a][r.s].lease
    BY <1>2, <2>2 DEF Rows
  <2>4. step[a][r.s].payload = [by |-> r.lease, of |-> r.of]  BY <1>1, <1>5 DEF Knows, a
  <2>5. ChildrenDone(a, r.s) /\ r.of = Inputs(a, r.s)  BY <1>1 DEF Knows, a
  <2> HIDE DEF row
  <2>6. \A b \in Analysis, t \in Step :
          step'[b][t] = IF b = a /\ t = r.s THEN row ELSE step[b][t]
    BY <1>2, <2>1 DEF Typed
  <2>7. Typed'
    <3>1. step' \in [Analysis -> [Step -> Rows]]  BY <1>2, <2>1, <2>3 DEF Typed
    <3> QED BY <1>1, <3>1 DEF Typed
  <2>8. \A b \in Analysis, t \in Step : ChildrenDone(b, t) =>
          ChildrenDone(b, t)' /\ Inputs(b, t)' = Inputs(b, t)
    BY <2>2, <2>6, InputsStay
  <2>9. a \in manifest
    <3>1. CASE r.s \in Leaf  BY <1>1, <3>1 DEF Knows, a
    <3>2. CASE r.s \notin Leaf
      <4>1. PICK c \in Children[r.s] : TRUE  BY <3>2 DEF Knows
      <4>2. c \in Step  BY <1>2 DEF Children
      <4> QED BY <1>2, <2>5, <4>2 DEF ChildrenDone, Grown
    <3> QED BY <3>1, <3>2
  <2>10. Grown'
    <3>1. ASSUME NEW b \in Analysis, NEW t \in Step
          PROVE  /\ step'[b][t].state # "none" => t \in Leaf \/ Children[t] # {}
                 /\ step'[b][t].state \in {"claimed", "completed"} => ChildrenDone(b, t)'
                 /\ step'[b][t].state = "completed" =>
                      /\ b \in manifest'
                      /\ step'[b][t].digest = step'[b][t].payload.by
                      /\ step'[b][t].payload.of = Inputs(b, t)'
                 /\ b \in manifest' => step'[b][t].state # "none"
      <4>1. CASE b = a /\ t = r.s
        <5>1. step'[b][t] = row  BY <2>6, <4>1
        <5>2. ChildrenDone(b, t)' /\ Inputs(b, t)' = r.of  BY <2>5, <2>8, <4>1
        <5>3. t \in Leaf \/ Children[t] # {}  BY <4>1 DEF Knows
        <5> QED BY <1>1, <2>3, <2>4, <2>9, <4>1, <5>1, <5>2, <5>3
      <4>2. CASE ~(b = a /\ t = r.s)
        <5>1. step'[b][t] = step[b][t]  BY <2>6, <4>2
        <5> QED BY <1>1, <2>8, <5>1 DEF Grown
      <4> QED BY <4>1, <4>2
    <3> QED BY <1>3, <3>1 DEF Grown
  <2>11. \A x \in runs : x.s \in Step  BY DEF Typed, Goroutines
  <2>12. \A t \in Step : step'[a][t].lease = step[a][t].lease  BY <1>2, <2>3, <2>6
  <2>13. Claims'
    <3>1. worker'.on = a /\ worker.on = a  BY <1>1 DEF a
    <3> QED BY <1>1, <2>11, <2>12, <3>1 DEF Claims
  <2>14. Knows'
    <3> USE DEF a
    <3> SUFFICES ASSUME NEW x \in runs'
                 PROVE  /\ ChildrenDone(worker.on, x.s)'
                        /\ x.s \in Leaf \/ Children[x.s] # {}
                        /\ x.at \notin {"queued", "start"} =>
                             /\ x.of = Inputs(worker.on, x.s)'
                             /\ x.s \in Leaf => worker'.on \in manifest'
                        /\ x.at = "complete" /\ Holds(worker.on, x)' =>
                             step'[worker'.on][x.s].payload = [by |-> x.lease, of |-> x.of]
      BY DEF Knows
    <3>1. x \in runs /\ x.s \in Step  BY <1>1, <2>11
    <3>2. /\ ChildrenDone(a, x.s)
          /\ x.s \in Leaf \/ Children[x.s] # {}
          /\ x.at \notin {"queued", "start"} =>
               /\ x.of = Inputs(a, x.s)
               /\ x.s \in Leaf => a \in manifest
      BY <3>1 DEF Knows
    <3>3. ChildrenDone(a, x.s)' /\ Inputs(a, x.s)' = Inputs(a, x.s)
      BY <1>1, <1>2, <2>8, <3>1, <3>2 DEF ChildrenDone, Inputs
    <3>4. ASSUME x.at = "complete", Holds(a, x)'
          PROVE  step'[worker'.on][x.s].payload = [by |-> x.lease, of |-> x.of]
      <4>1. worker'.on = a  BY <1>1
      <4>2. step'[a][x.s].state = "claimed"  BY <3>4, <4>1 DEF Holds
      <4>3. x.s # r.s  BY <1>2, <2>3, <2>6, <4>2
      <4>4. step'[a][x.s] = step[a][x.s]  BY <1>2, <2>6, <3>1, <4>3
      <4>5. Holds(a, x)  BY <3>4, <4>1, <4>4 DEF Holds
      <4> QED BY <3>1, <3>4, <4>1, <4>4, <4>5 DEF Knows
    <3> QED BY <1>1, <3>2, <3>3, <3>4
  <2>15. Finished'
    <3>1. analysis[a] # "completed"  BY <1>2, <2>2 DEF Finished
    <3>2. \A b \in Analysis : b # a => step'[b] = step[b]  BY <2>1 DEF Typed
    <3> QED BY <1>1, <3>1, <3>2 DEF Finished
  <2> QED BY <1>4, <2>7, <2>10, <2>13, <2>14, <2>15
<1>6. CASE ~Holds(a, r)
  <2>1. UNCHANGED step  BY <1>6 DEF CompleteStep, a
  <2>2. Typed'  BY <1>1, <2>1 DEF Typed
  <2>3. \A b \in Analysis, t \in Step : Softer(b, t)  BY <2>1 DEF Softer
  <2> QED BY <1>1, <1>3, <1>4, <2>1, <2>2, <2>3, NothingGrows DEF Still
<1> QED BY <1>5, <1>6

\* A failed analysis was not completed, and is not.
LEMMA FailedAlone ==
  ASSUME Typed, NEW a \in Analysis, analysis' = Failed(a)
  PROVE  /\ analysis' \in [Analysis -> States]
         /\ \A b \in Analysis : Still(b)
<1> USE DEF Still
<1>0. analysis \in [Analysis -> States]  BY DEF Typed
<1>1. CASE analysis[a] \in Active
  <2>1. analysis' = [analysis EXCEPT ![a] = "failed"] /\ analysis[a] # "completed"
    BY <1>1 DEF Failed, Active
  <2>2. "failed" \in States /\ "failed" # "completed"  BY DEF States
  <2>3. analysis' \in [Analysis -> States]  BY <1>0, <2>1, <2>2
  <2>4. analysis'[a] # "completed" /\ \A b \in Analysis : b # a => analysis'[b] = analysis[b]
    BY <1>0, <2>1, <2>2
  <2> QED BY <2>1, <2>3, <2>4
<1>2. CASE analysis[a] \notin Active
  <2>1. analysis' = analysis  BY <1>2 DEF Failed
  <2> QED BY <1>0, <2>1
<1> QED BY <1>1, <1>2

\* The check publishes only what the whole tree stands behind.
LEMMA CheckKeeps ==
  ASSUME IInv, NEW a \in Analysis, Check(a)
  PROVE  IInv'
<1> USE DEF IInv
<1>1. /\ worker.at = "check" /\ worker' = [worker EXCEPT !.at = "list", !.on = None, !.left = {}]
      /\ UNCHANGED <<manifest, step, runs>>
  BY DEF Check, Return
<1>2. runs = {} /\ runs' = {} /\ worker'.at = "list"  BY <1>1 DEF Placed
<1>3. Placed'  BY <1>1, <1>2 DEF Placed
<1>4. \A b \in Analysis, t \in Step : Softer(b, t)  BY <1>1 DEF Softer
<1>5. CASE UNCHANGED published /\ (analysis' = analysis \/ analysis' = Failed(a))
  <2>2. /\ analysis' \in [Analysis -> States]
        /\ \A b \in Analysis : Still(b)
    <3>1. CASE analysis' = analysis  BY <3>1, Zenon DEF Typed, Still
    <3>2. CASE analysis' = Failed(a)  BY <3>2, FailedAlone
    <3> QED BY <1>5, <3>1, <3>2
  <2>1. Typed'  BY <1>1, <1>5, <2>2 DEF Typed
  <2> QED BY <1>1, <1>2, <1>3, <1>4, <1>5, <2>1, <2>2, NothingGrows
<1>6. CASE /\ Unfinished(a) = {} /\ step[a][Root].state = "completed"
           /\ analysis[a] \in Active \union {"completed"}
           /\ analysis' = [analysis EXCEPT ![a] = "completed"]
           /\ published' = [published EXCEPT ![a] = IF @ = 0 THEN step[a][Root].payload.by ELSE @]
  <2>1. Typed'  BY <1>1, <1>6 DEF Typed, States
  <2>2. a \in manifest  BY <1>6, RootIsStep DEF Grown
  <2>3. \A s \in Step : step[a][s].state = "completed"
    BY <1>6, <2>2 DEF Unfinished, Grown
  <2>4. published'[a] = step[a][Root].payload.by
    <3>1. published'[a] = IF published[a] = 0 THEN step[a][Root].payload.by ELSE published[a]
      BY <1>6 DEF Typed
    <3>2. published[a] = 0 \/ published[a] = step[a][Root].payload.by
      BY DEF Finished
    <3> QED BY <3>1, <3>2
  <2>5. analysis'[a] = "completed"  BY <1>6 DEF Typed
  <2>6. \A b \in Analysis : b # a => analysis'[b] = analysis[b] /\ published'[b] = published[b]
    BY <1>6 DEF Typed
  <2>7. Finished'  BY <1>1, <2>3, <2>4, <2>5, <2>6 DEF Finished
  <2>8. Grown'  BY <1>1, <1>2 DEF Grown, ChildrenDone, Inputs
  <2> QED BY <1>2, <1>3, <2>1, <2>7, <2>8 DEF Claims, Knows
<1> QED BY <1>5, <1>6 DEF Check

-----------------------------------------------------------------------------
\* The other actions.

\* Steps of the worker between its store calls, and those that only fail or hand
\* back what they hold.
LEMMA WorkerKeeps ==
  ASSUME IInv,
         \/ Tick \/ EndTick
         \/ \E a \in Analysis :
              \/ Process(a) \/ Prepare(a) \/ CannotPrepare(a) \/ PreparationFails(a) \/ MarkFails(a)
              \/ MarkRunning(a) \/ Drained(a) \/ DrainFails(a) \/ Waited(a) \/ CheckFails(a)
  PROVE  IInv'
<1> USE DEF IInv
<1>1. UNCHANGED <<step, manifest, published, runs>>
  BY DEF Tick, EndTick, Process, Prepare, CannotPrepare, PreparationFails, MarkFails,
         MarkRunning, Drained, DrainFails, Waited, CheckFails, rows
<1>2. \A a \in Analysis, s \in Step : Softer(a, s)  BY <1>1 DEF Softer
<1>3. /\ analysis' \in [Analysis -> States]
      /\ \A b \in Analysis : Still(b)
  <2>1. CASE analysis' = analysis  BY <2>1, Zenon DEF Typed, Still
  <2>2. CASE \E a \in Analysis : analysis' = Failed(a)  BY <2>2, FailedAlone
  <2>3. ASSUME NEW a \in Analysis, MarkRunning(a)
        PROVE  /\ analysis' \in [Analysis -> States]
               /\ \A b \in Analysis : Still(b)
    <3>1. analysis \in [Analysis -> States]  BY DEF Typed
    <3>2. analysis' = [analysis EXCEPT ![a] = IF @ = "preparing" THEN "running" ELSE @]
      BY <2>3 DEF MarkRunning
    <3>3. analysis' \in [Analysis -> States]  BY <3>1, <3>2 DEF States
    <3>4. \A b \in Analysis : b # a => analysis'[b] = analysis[b]  BY <3>1, <3>2
    <3>5. analysis'[a] = analysis[a] \/ (analysis[a] = "preparing" /\ analysis'[a] = "running")
      BY <3>1, <3>2
    <3> QED BY <3>3, <3>4, <3>5 DEF Still
  <2> QED BY <2>1, <2>2, <2>3
       DEF Tick, EndTick, Process, Prepare, CannotPrepare, PreparationFails, MarkFails,
           Drained, DrainFails, Waited, CheckFails, rows
<1>4. Typed'  BY <1>1, <1>3 DEF Typed
<1> DEFINE Moves == /\ Placed'
                    /\ runs # {} => worker'.on = worker.on
                    /\ worker'.at = "insert" => worker'.left = Step
<1>5. ASSUME Tick PROVE Moves  BY <1>1, <1>5 DEF Tick, Placed
<1>6. ASSUME EndTick PROVE Moves  BY <1>1, <1>6 DEF EndTick, Placed, Resting
<1>7. ASSUME NEW a \in Analysis, Process(a) PROVE Moves
  <2>1. worker.at = "list" /\ runs = {}  BY <1>7 DEF Process, Placed
  <2>2. \/ worker' = [worker EXCEPT !.todo = @ \ {a}]
        \/ worker' = [worker EXCEPT !.todo = @ \ {a}, !.on = a, !.at = "prepare"]
    BY <1>7 DEF Process
  <2> QED BY <1>1, <2>1, <2>2 DEF Placed
<1>8. ASSUME NEW a \in Analysis, Prepare(a) PROVE Moves
  <2>1. worker.at = "prepare" /\ runs = {}  BY <1>8 DEF Prepare, Placed
  <2>2. \/ worker' = [worker EXCEPT !.at = "mark", !.left = {}]
        \/ worker' = [worker EXCEPT !.at = "insert", !.left = Step]
    BY <1>8 DEF Prepare, Go
  <2> QED BY <1>1, <2>1, <2>2 DEF Placed
<1>9. ASSUME NEW a \in Analysis, CannotPrepare(a) PROVE Moves
  BY <1>1, <1>9 DEF CannotPrepare, Go, Placed
<1>10. ASSUME NEW a \in Analysis, PreparationFails(a) PROVE Moves
  BY <1>1, <1>10 DEF PreparationFails, Return, Placed
<1>11. ASSUME NEW a \in Analysis, MarkFails(a) \/ MarkRunning(a) PROVE Moves
  BY <1>1, <1>11 DEF MarkFails, MarkRunning, Go, Placed
<1>12. ASSUME NEW a \in Analysis, Drained(a) \/ DrainFails(a) PROVE Moves
  BY <1>1, <1>12 DEF Drained, DrainFails, Go, Placed
<1>13. ASSUME NEW a \in Analysis, Waited(a) PROVE Moves  BY <1>1, <1>13 DEF Waited, Go, Placed
<1>14. ASSUME NEW a \in Analysis, CheckFails(a) PROVE Moves
  BY <1>1, <1>14 DEF CheckFails, Return, Placed
<1>15. Moves
  BY <1>5, <1>6, <1>7, <1>8, <1>9, <1>10, <1>11, <1>12, <1>13, <1>14
<1> QED BY <1>1, <1>2, <1>3, <1>4, <1>15, NothingGrows

\* A goroutine that gives its step up leaves the row softer.
LEMMA RowSofter ==
  ASSUME Typed, NEW a \in Analysis, NEW r, r.s \in Step,
         step' = step \/ FailStep(a, r) \/ RetryStep(a, r)
  PROVE  /\ step' \in [Analysis -> [Step -> Rows]]
         /\ \A b \in Analysis, t \in Step : Softer(b, t)
<1>1. CASE UNCHANGED step  BY <1>1 DEF Typed, Softer
<1>2. CASE Holds(a, r) /\ FailStep(a, r)
  <2> DEFINE row == [step[a][r.s] EXCEPT !.state = "failed"]
  <2>1. step' = [step EXCEPT ![a][r.s] = row]  BY <1>2 DEF FailStep
  <2>2. step[a][r.s] \in Rows /\ step[a][r.s].state = "claimed"
    BY <1>2 DEF Typed, Holds
  <2>3. /\ row \in Rows /\ row.state = "failed" /\ row.lease = step[a][r.s].lease
        /\ row.payload = step[a][r.s].payload /\ row.digest = step[a][r.s].digest
    BY <2>2 DEF Rows
  <2> HIDE DEF row
  <2> QED BY <2>1, <2>2, <2>3 DEF Typed, Softer
<1>3. CASE Holds(a, r) /\ RetryStep(a, r)
  <2> DEFINE row == [step[a][r.s] EXCEPT !.state = "prepared", !.ripe = FALSE]
  <2>1. step' = [step EXCEPT ![a][r.s] = row]  BY <1>3 DEF RetryStep
  <2>2. step[a][r.s] \in Rows /\ step[a][r.s].state = "claimed"
    BY <1>3 DEF Typed, Holds
  <2>3. /\ row \in Rows /\ row.state = "prepared" /\ row.lease = step[a][r.s].lease
        /\ row.payload = step[a][r.s].payload /\ row.digest = step[a][r.s].digest
    BY <2>2 DEF Rows
  <2> HIDE DEF row
  <2> QED BY <2>1, <2>2, <2>3 DEF Typed, Softer
<1> QED BY <1>1, <1>2, <1>3 DEF FailStep, RetryStep

\* A goroutine ends without completing its step.
LEMMA RunEnds ==
  ASSUME IInv, NEW r \in runs,
         \/ ReadSegment(worker.on, r) /\ worker.on \notin manifest
         \/ RunFails(worker.on, r)
  PROVE  IInv'
<1> USE DEF IInv
<1> DEFINE a == worker.on
<1>1. /\ UNCHANGED <<analysis, manifest, published, worker>> /\ runs' = runs \ {r}
      /\ step' = step \/ FailStep(a, r) \/ RetryStep(a, r)
  BY DEF ReadSegment, RunFails, OutputInvalid, NoPermit, LeaveClaimed, End, rows
<1>2. /\ worker.at \in {"drain", "wait"} /\ a \in Analysis /\ r.s \in Step
  BY DEF Placed, Typed, Goroutines
<1> HIDE DEF a
<1>3. /\ step' \in [Analysis -> [Step -> Rows]]
      /\ \A b \in Analysis, t \in Step : Softer(b, t)
  BY <1>1, <1>2, RowSofter
<1>4. Typed' /\ Placed'  BY <1>1, <1>2, <1>3 DEF Typed, Placed
<1>5. worker'.at # "insert"  BY <1>1, <1>2
<1> QED BY <1>1, <1>3, <1>4, <1>5, NothingGrows DEF Still

\* A goroutine is started, reads, or has an answer: no row is written.
LEMMA RunKeeps ==
  ASSUME IInv, NEW r \in runs, RunStep(worker.on, r)
  PROVE  IInv'
<1> USE DEF IInv
<1>1. r \in Goroutines /\ r.s \in Step /\ worker.on \in Analysis
  BY DEF Placed, Typed, Goroutines
<1>2. ASSUME NEW q \in Goroutines, q.s = r.s, q.lease = r.lease, q.at # "complete",
             q.at \notin {"queued", "start"} =>
               /\ q.of = Inputs(worker.on, r.s)
               /\ r.s \in Leaf => worker.on \in manifest,
             runs' = (runs \ {r}) \union {q},
             UNCHANGED <<step, manifest, analysis, published, worker>>
      PROVE  IInv'
  <2>1. Typed' /\ Placed'  BY <1>1, <1>2 DEF Typed, Placed
  <2> QED BY <1>2, <2>1, RunMoves
<1>3. CASE Launch(r)
  <2> DEFINE q == [r EXCEPT !.at = "start"]
  <2>1. q \in Goroutines /\ q.s = r.s /\ q.lease = r.lease /\ q.at = "start"
    BY <1>1, <1>3 DEF Goroutines, Launch
  <2>2. runs' = (runs \ {r}) \union {q} /\ UNCHANGED <<step, manifest, analysis, published, worker>>
    BY <1>3 DEF Launch, rows
  <2> HIDE DEF q
  <2> QED BY <1>2, <2>1, <2>2
<1>4. CASE LoadChildren(worker.on, r)
  <2> DEFINE a == worker.on
             of == {<<c, step[a][c].payload.by>> : c \in Children[r.s]}
             q == [r EXCEPT !.at = "model", !.of = of]
  <2>1. runs' = (runs \ {r}) \union {q} /\ UNCHANGED <<step, manifest, analysis, published, worker>>
    BY <1>4 DEF LoadChildren, Advance, rows
  <2>2. Children[r.s] \subseteq Step  BY <1>1 DEF Children
  <2>3. \A c \in Children[r.s] : step[a][c].payload.by = step[a][c].digest
    BY <1>1, <2>2 DEF Knows, ChildrenDone, Grown
  <2>4. \A c \in Children[r.s] : step[a][c].payload.by \in Nat
    BY <1>1, <2>2 DEF Typed, Rows, Payload
  <2>5. of = Inputs(a, r.s)  BY <2>3 DEF Inputs
  <2>6. of \in SUBSET (Step \X Nat)  BY <2>2, <2>4
  <2> HIDE DEF of
  <2>7. /\ q \in Goroutines /\ q.s = r.s /\ q.lease = r.lease /\ q.at = "model" /\ q.of = of
    BY <1>1, <2>6 DEF Goroutines
  <2>8. r.s \notin Leaf  BY <1>4 DEF LoadChildren
  <2> HIDE DEF q
  <2> QED BY <1>2, <2>1, <2>5, <2>7, <2>8
<1>5. CASE ReadSegment(worker.on, r) /\ worker.on \in manifest
  <2> DEFINE q == [r EXCEPT !.at = "model"]
  <2>1. runs' = (runs \ {r}) \union {q} /\ UNCHANGED <<step, manifest, analysis, published, worker>>
    BY <1>5 DEF ReadSegment, Advance
  <2>2. q \in Goroutines /\ q.s = r.s /\ q.lease = r.lease /\ q.at = "model" /\ q.of = r.of
    BY <1>1 DEF Goroutines
  <2>3. r.s \in Leaf /\ r.of = {}  BY <1>1, <1>5 DEF ReadSegment, Goroutines
  <2>4. r.of = Inputs(worker.on, r.s)  BY <1>1, <2>3 DEF Inputs, Children
  <2> HIDE DEF q
  <2> QED BY <1>2, <1>5, <2>1, <2>2, <2>4
<1>6. CASE Analyze(r) \/ WriteEvidence(worker.on, r)
  <2> PICK at \in {"evidence", "payload"} : runs' = (runs \ {r}) \union {[r EXCEPT !.at = at]}
    BY <1>6 DEF Analyze, WriteEvidence, Advance
  <2> DEFINE q == [r EXCEPT !.at = at]
  <2>1. runs' = (runs \ {r}) \union {q} /\ UNCHANGED <<step, manifest, analysis, published, worker>>
    BY <1>6 DEF Analyze, WriteEvidence, rows
  <2>2. q \in Goroutines /\ q.s = r.s /\ q.lease = r.lease /\ q.at = at /\ q.of = r.of
    BY <1>1 DEF Goroutines
  <2>3. r.at \notin {"queued", "start"}  BY <1>6 DEF Analyze, WriteEvidence
  <2>4. r.of = Inputs(worker.on, r.s) /\ (r.s \in Leaf => worker.on \in manifest)
    BY <2>3 DEF Knows
  <2> HIDE DEF q
  <2> QED BY <1>2, <2>1, <2>2, <2>4
<1> QED BY <1>3, <1>4, <1>5, <1>6, RunEnds, PayloadKeeps, CompleteKeeps DEF RunStep

\* Time passes, analyses are asked for, and the process stops and starts.
LEMMA AroundKeeps ==
  ASSUME IInv,
         \/ \E a \in Analysis : Request(a) \/ WallTime(a)
         \/ \E a \in Analysis, s \in Step : Ripen(a, s) \/ Outlived(a, s)
         \/ Stop \/ Start
  PROVE  IInv'
<1> USE DEF IInv
<1>1. CASE \E a \in Analysis : Request(a) \/ WallTime(a)
  <2> PICK a \in Analysis : Request(a) \/ WallTime(a)  BY <1>1
  <2>1. UNCHANGED <<step, manifest, published, worker, runs>>  BY DEF Request, WallTime, rows
  <2>2. \A b \in Analysis, s \in Step : Softer(b, s)  BY <2>1 DEF Softer
  <2>3. /\ analysis' \in [Analysis -> States]
        /\ \A b \in Analysis : Still(b)
    <3>1. analysis \in [Analysis -> States]  BY DEF Typed
    <3>2. CASE analysis' = analysis  BY <3>1, <3>2, Zenon DEF Still
    <3>3. CASE analysis[a] = "none" /\ analysis' = [analysis EXCEPT ![a] = "preparing"]
      <4>1. analysis' \in [Analysis -> States]  BY <3>1, <3>3 DEF States
      <4>2. analysis'[a] = "preparing" /\ \A b \in Analysis : b # a => analysis'[b] = analysis[b]
        BY <3>1, <3>3
      <4> QED BY <3>3, <4>1, <4>2 DEF Still
    <3> QED BY <3>2, <3>3 DEF Request, WallTime, rows
  <2>4. Typed' /\ Placed'  BY <2>1, <2>3 DEF Typed, Placed
  <2> QED BY <2>1, <2>2, <2>3, <2>4, NothingGrows DEF Grown
<1>2. CASE \E a \in Analysis, s \in Step : Ripen(a, s) \/ Outlived(a, s)
  <2> PICK a \in Analysis, s \in Step : Ripen(a, s) \/ Outlived(a, s)  BY <1>2
  <2> DEFINE row == [step[a][s] EXCEPT !.ripe = TRUE]
  <2>1. /\ UNCHANGED <<analysis, manifest, published, worker, runs>>
        /\ step' = [step EXCEPT ![a][s] = row]
        /\ step[a][s].state \in {"prepared", "claimed"}
    BY DEF Ripen, Outlived
  <2>2. step[a][s] \in Rows  BY DEF Typed
  <2>3. /\ row \in Rows /\ row.state = step[a][s].state /\ row.lease = step[a][s].lease
        /\ row.payload = step[a][s].payload /\ row.digest = step[a][s].digest
    BY <2>2 DEF Rows
  <2> HIDE DEF row
  <2>4. step' \in [Analysis -> [Step -> Rows]] /\ \A b \in Analysis, t \in Step : Softer(b, t)
    BY <2>1, <2>3 DEF Typed, Softer
  <2>5. Typed' /\ Placed'  BY <2>1, <2>4 DEF Typed, Placed
  <2> QED BY <2>1, <2>4, <2>5, NothingGrows DEF Grown, Still
<1>3. CASE Stop \/ Start
  <2>1. UNCHANGED <<analysis, step, manifest, published>> /\ runs' \subseteq runs
    BY <1>3 DEF Stop, Start, rows
  <2>2. /\ Placed' /\ runs' = {} /\ worker'.at # "insert"
    BY <1>3 DEF Stop, Start, Placed, Resting
  <2>3. Typed'  BY <2>1 DEF Typed
  <2>4. \A b \in Analysis, s \in Step : Softer(b, s)  BY <2>1 DEF Softer
  <2> QED BY <2>1, <2>2, <2>3, <2>4, NothingGrows DEF Still
<1> QED BY <1>1, <1>2, <1>3

-----------------------------------------------------------------------------
\* Every step of the worker, its goroutines, time and restarts preserves IInv.
THEOREM Inductive == IInv /\ [Next]_vars => IInv'
<1> SUFFICES ASSUME IInv, [Next]_vars PROVE IInv'  OBVIOUS
<1>1. CASE \E a \in Analysis : InsertStep(a) \/ WriteManifest(a) \/ Claim(a) \/ Check(a)
  BY <1>1, InsertKeeps, ManifestKeeps, ClaimKeeps, CheckKeeps
<1>2. CASE \E r \in runs : RunStep(worker.on, r) \/ RunFails(worker.on, r)
  BY <1>2, RunKeeps, RunEnds
<1>3. CASE vars' = vars
  <2>1. UNCHANGED <<analysis, step, manifest, published, worker, runs>>  BY <1>3 DEF vars, rows
  <2> QED BY <2>1 DEF IInv, Typed, Placed, Grown, Claims, Knows, Finished,
                      ChildrenDone, Inputs, Holds
<1> QED BY <1>1, <1>2, <1>3, WorkerKeeps, AroundKeeps
        DEF Next, WorkerStep, WorkerFails, Running

\* The empty store satisfies IInv.
LEMMA InitHolds == Init => IInv
<1> SUFFICES ASSUME Init PROVE IInv  OBVIOUS
<1>1. Row("none", 0, FALSE) \in Rows /\ Row("none", 0, FALSE).state = "none"
  BY DEF Row, NoPayload, Rows, Payload
<1>2. Typed  BY <1>1 DEF Init, Typed, States
<1>3. Placed  BY DEF Init, Placed, Resting
<1>4. \A a \in Analysis, s \in Step : step[a][s].state = "none"  BY <1>1 DEF Init
<1>5. Grown  BY <1>3, <1>4 DEF Init, Grown, Resting
<1> QED BY <1>2, <1>3, <1>5 DEF Init, Claims, Knows, Finished, IInv

\* A completed step stands for the payload it stores, made of what its children
\* store for good, and a published packet for the whole tree: under leases that
\* slow model calls outlive, failed calls and restarts.
THEOREM AnswersAreWhole == Spec => []AnswerIsWhole
<1>1. IInv => AnswerIsWhole  BY DEF IInv, AnswerIsWhole, Grown, Finished, Inputs
<1> QED BY <1>1, InitHolds, Inductive, PTL DEF Spec


-----------------------------------------------------------------------------
\* The bounds that TypeOK states.  A step is claimed again when its claim was
\* lost, and a claim is lost to a fault or to a restart, which is counted when
\* the process has stopped.
Spent == faults + restarts + (IF worker.at = "down" THEN 1 ELSE 0)

Counted == /\ faults \in 0..MaxFaults
           /\ restarts \in Nat
           /\ restarts + (IF worker.at = "down" THEN 1 ELSE 0) <= MaxRestarts

\* Only a claim that a goroutine still works under is not paid for yet.
Affordable(a, s) ==
  /\ step[a][s].state = "none" => step[a][s].lease = 0
  /\ step[a][s].lease <= 1 + Spent
  /\ step[a][s].state = "prepared" => step[a][s].lease <= Spent
  /\ step[a][s].state = "claimed" /\ (step[a][s].ripe \/ ~Live(a, s)) =>
       step[a][s].lease <= Spent

\* The places of the goroutines, and the one that waits for a place.
Seated == /\ IsFiniteSet(Started) /\ Cardinality(Started) <= Concurrency
          /\ \A q, r \in runs : q.at = "queued" /\ r.at = "queued" => q = r

Stored == /\ overdue \subseteq Analysis /\ manifest \subseteq Analysis
          /\ evidence \in [Leaf -> Analysis \union {None}]

Within == Counted /\ Seated /\ Stored /\ \A a \in Analysis, s \in Step : Affordable(a, s)

\* How a step's row and the goroutine that works under its claim may change:
\* the row's claim stays as it is, is paid for, is over, or is a new one.
ClaimsMove(a, s) ==
  LET old == step[a][s]
      new == step'[a][s]
  IN  \/ /\ new.lease = old.lease /\ new.state = old.state /\ new.ripe = old.ripe
         /\ old.state = "claimed" /\ Live(a, s) => Live(a, s)'
      \/ /\ new.lease = old.lease /\ (new.state = "none" => old.state = "none")
         /\ Spent' > Spent
      \/ new.lease = old.lease /\ new.state \in {"completed", "failed"}
      \/ new.lease = 0 /\ new.state = "prepared"
      \/ /\ Due(old) /\ new.lease = old.lease + 1 /\ new.state = "claimed" /\ ~new.ripe
         /\ Live(a, s)'
      \/ /\ old.state \in {"prepared", "claimed"} /\ ~Live(a, s)
         /\ new.lease = old.lease /\ new.state = old.state

LEMMA SpentTyped == Counted => Spent \in Nat
BY BoundsAssumption DEF Counted, Spent

LEMMA SumTyped == \A i, j, k \in Nat : i + j + k \in Nat
OBVIOUS

LEMMA SpentTypedNext == Counted' => Spent' \in Nat
<1> SUFFICES ASSUME Counted' PROVE Spent' \in Nat  OBVIOUS
<1> DEFINE down == IF worker'.at = "down" THEN 1 ELSE 0
<1>1. faults' \in Nat /\ restarts' \in Nat  BY BoundsAssumption DEF Counted
<1>2. Spent' = faults' + restarts' + down  BY DEF Spent
<1>3. down \in Nat  OBVIOUS
<1> HIDE DEF down
<1> QED BY <1>1, <1>2, <1>3, SumTyped, Zenon

LEMMA ClaimsPaid ==
  ASSUME NEW a \in Analysis, NEW s \in Step, step[a][s] \in Rows, step'[a][s] \in Rows,
         Spent \in Nat, Spent' \in Nat, Spent' >= Spent, Affordable(a, s), ClaimsMove(a, s)
  PROVE  Affordable(a, s)'
<1> DEFINE old == step[a][s]
           new == step'[a][s]
           before == Live(a, s)
           after == Live(a, s)'
<1>1. /\ old.lease \in Nat /\ new.lease \in Nat /\ new.ripe \in BOOLEAN
      /\ old.state = "none" => old.lease = 0
      /\ old.lease <= 1 + Spent
      /\ old.state = "prepared" => old.lease <= Spent
      /\ old.state = "claimed" /\ (old.ripe \/ ~before) => old.lease <= Spent
  BY DEF Rows, Affordable
<1>2. \/ /\ new.lease = old.lease /\ new.state = old.state /\ new.ripe = old.ripe
         /\ old.state = "claimed" /\ before => after
      \/ /\ new.lease = old.lease /\ (new.state = "none" => old.state = "none")
         /\ Spent' > Spent
      \/ new.lease = old.lease /\ new.state \in {"completed", "failed"}
      \/ new.lease = 0 /\ new.state = "prepared"
      \/ /\ old.state \in {"prepared", "claimed"} /\ old.ripe
         /\ new.lease = old.lease + 1 /\ new.state = "claimed" /\ ~new.ripe
         /\ after
      \/ /\ old.state \in {"prepared", "claimed"} /\ ~before
         /\ new.lease = old.lease /\ new.state = old.state
  BY DEF ClaimsMove, Due
<1> HIDE DEF old, new, before, after
<1>3. /\ new.state = "none" => new.lease = 0
      /\ new.lease <= 1 + Spent'
      /\ new.state = "prepared" => new.lease <= Spent'
      /\ new.state = "claimed" /\ (new.ripe \/ ~after) => new.lease <= Spent'
  BY <1>1, <1>2
<1> QED BY <1>3 DEF old, new, after, Affordable

\* The budgets only grow.
Uncounted == UNCHANGED bounds /\ (worker'.at = "down" <=> worker.at = "down")

Faulted == Fault /\ (worker'.at = "down" <=> worker.at = "down")

LEMMA StepsCount ==
  ASSUME Placed, Next
  PROVE  Uncounted \/ Faulted \/ Stop \/ Start
<1> USE DEF Placed
<1>1. ASSUME \/ Tick \/ EndTick
             \/ \E a \in Analysis :
                  \/ Process(a) \/ Prepare(a) \/ InsertStep(a) \/ WriteManifest(a)
                  \/ MarkRunning(a) \/ Claim(a) \/ Drained(a) \/ Waited(a) \/ Check(a)
      PROVE  Uncounted
  <2>1. CASE Tick \/ EndTick
    <3>1. CASE Tick
      <4> DEFINE todo == {a \in Analysis : analysis[a] \in Active}
      <4>1. worker' = [worker EXCEPT !.at = "list", !.todo = todo] /\ worker.at = "idle"
        BY <3>1 DEF Tick
      <4> HIDE DEF todo
      <4>2. worker'.at = "list"  BY <4>1
      <4> QED BY <3>1, <4>1, <4>2 DEF Tick, Uncounted
    <3>2. CASE EndTick  BY <3>2 DEF EndTick, Resting, Uncounted
    <3> QED BY <2>1, <3>1, <3>2
  <2>2. ASSUME NEW a \in Analysis, Process(a) \/ Prepare(a) \/ InsertStep(a) \/ Check(a)
        PROVE  Uncounted
    BY <2>2 DEF Uncounted, Process, Prepare, InsertStep, Check, Go, Return
  <2>3. ASSUME NEW a \in Analysis,
               \/ WriteManifest(a) \/ MarkRunning(a) \/ Claim(a) \/ Drained(a) \/ Waited(a)
        PROVE  Uncounted
    BY <2>3 DEF Uncounted, WriteManifest, MarkRunning, Claim, Drained, Waited, Go
  <2> QED BY <1>1, <2>1, <2>2, <2>3
<1>2. ASSUME WorkerFails PROVE Faulted
  <2> PICK a \in Analysis : \/ CannotPrepare(a) \/ PreparationFails(a) \/ MarkFails(a)
                           \/ DrainFails(a) \/ CheckFails(a)
    BY <1>2 DEF WorkerFails
  <2>1. CASE CannotPrepare(a) \/ MarkFails(a) \/ DrainFails(a)
    BY <2>1 DEF Faulted, CannotPrepare, MarkFails, DrainFails, Go
  <2>2. CASE PreparationFails(a) \/ CheckFails(a)
    BY <2>2 DEF Faulted, PreparationFails, CheckFails, Return
  <2> QED BY <2>1, <2>2
<1>3. ASSUME NEW r \in runs, RunStep(worker.on, r) PROVE Uncounted
  BY <1>3 DEF Uncounted, RunStep, Launch, LoadChildren, ReadSegment, Analyze, WriteEvidence,
              WritePayload, CompleteStep
<1>4. ASSUME NEW r \in runs, RunFails(worker.on, r) PROVE Faulted
  BY <1>4 DEF Faulted, RunFails, OutputInvalid, NoPermit, LeaveClaimed
<1>5. ASSUME NEW a \in Analysis, Request(a) \/ WallTime(a) PROVE Uncounted
  BY <1>5 DEF Uncounted, Request, WallTime
<1>6. ASSUME NEW a \in Analysis, NEW s \in Step, Ripen(a, s) PROVE Uncounted
  BY <1>6 DEF Uncounted, Ripen
<1>7. ASSUME NEW a \in Analysis, NEW s \in Step, Outlived(a, s) PROVE Faulted
  BY <1>7 DEF Faulted, Outlived
<1> QED BY <1>1, <1>2, <1>3, <1>4, <1>5, <1>6, <1>7 DEF Next, WorkerStep, Running

LEMMA BudgetGrows ==
  ASSUME Placed, Counted, Next
  PROVE  /\ Counted' /\ Spent' >= Spent
         /\ Faulted \/ Stop => Spent' > Spent
<1> USE BoundsAssumption
<1>1. CASE Uncounted /\ ~Faulted /\ ~Stop
  BY <1>1 DEF Counted, Spent, bounds, Uncounted
<1>2. CASE Faulted
  BY <1>2 DEF Counted, Spent, Fault, Faulted, Stop
<1>3. CASE Stop
  BY <1>3 DEF Counted, Spent, Stop, Resting, bounds
<1>4. CASE Start /\ ~Faulted /\ ~Stop
  BY <1>4 DEF Counted, Spent, Start, Resting
<1> QED BY <1>1, <1>2, <1>3, <1>4, StepsCount

-----------------------------------------------------------------------------
\* What each step does to the claims.

\* A row keeps its claim and its goroutine.
LEMMA ClaimStays ==
  ASSUME NEW a \in Analysis, NEW s \in Step,
         step'[a][s].lease = step[a][s].lease, step'[a][s].state = step[a][s].state,
         step'[a][s].ripe = step[a][s].ripe, worker'.on = worker.on,
         \A r \in runs : r.s = s /\ r.lease = step[a][s].lease /\ step[a][s].state = "claimed"
                           /\ worker.on = a
           => \E q \in runs' : q.s = r.s /\ q.lease = r.lease
  PROVE  ClaimsMove(a, s)
BY DEF ClaimsMove, Live

\* No goroutine is at work: rows that stay keep what claims they have.
LEMMA NobodyClaims ==
  ASSUME NEW a \in Analysis, NEW s \in Step, step'[a][s] = step[a][s], runs = {}
  PROVE  ClaimsMove(a, s)
BY DEF ClaimsMove, Live

ClaimsMoves == \A a \in Analysis, s \in Step : ClaimsMove(a, s)

LEMMA WorkerClaims ==
  ASSUME IInv, WorkerStep
  PROVE  ClaimsMoves
<1> USE DEF IInv, ClaimsMoves
<1>1. ASSUME UNCHANGED <<step, runs>>, runs # {} => worker'.on = worker.on
      PROVE  ClaimsMoves
  BY <1>1, ClaimStays, NobodyClaims
<1>2. CASE Tick \/ EndTick
  BY <1>1, <1>2 DEF Tick, EndTick, Placed, rows
<1>3. ASSUME NEW a \in Analysis, Process(a) \/ Prepare(a) \/ WriteManifest(a) \/ Check(a)
      PROVE  ClaimsMoves
  <2>1. UNCHANGED <<step, runs>> /\ runs = {}
    BY <1>3 DEF Process, Prepare, WriteManifest, Check, Placed, rows
  <2> QED BY <1>1, <2>1
<1>4. ASSUME NEW a \in Analysis, MarkRunning(a) \/ Drained(a) \/ Waited(a)
      PROVE  ClaimsMoves
  <2>1. UNCHANGED <<step, runs>> /\ worker'.on = worker.on
    BY <1>4 DEF MarkRunning, Drained, Waited, Go, Placed, rows
  <2> QED BY <1>1, <2>1
<1>5. ASSUME NEW a \in Analysis, InsertStep(a)
      PROVE  ClaimsMoves
  <2>1. runs = {}  BY <1>5 DEF InsertStep, Placed
  <2>2. CASE UNCHANGED step  BY <2>1, <2>2, NobodyClaims
  <2>3. CASE \E s \in worker.left : step' = [step EXCEPT ![a][s] = Row("prepared", 0, TRUE)]
    <3> PICK s \in worker.left : step' = [step EXCEPT ![a][s] = Row("prepared", 0, TRUE)]
      BY <2>3
    <3>1. s \in Step  BY DEF Placed
    <3>2. Row("prepared", 0, TRUE).state = "prepared" /\ Row("prepared", 0, TRUE).lease = 0
      BY DEF Row
    <3>3. \A b \in Analysis, t \in Step :
            step'[b][t] = IF b = a /\ t = s THEN Row("prepared", 0, TRUE) ELSE step[b][t]
      BY <3>1 DEF Typed
    <3>4. ASSUME NEW b \in Analysis, NEW t \in Step PROVE ClaimsMove(b, t)
      <4>1. CASE b = a /\ t = s  BY <3>2, <3>3, <4>1 DEF ClaimsMove
      <4>2. CASE ~(b = a /\ t = s)  BY <2>1, <3>3, <4>2, NobodyClaims
      <4> QED BY <4>1, <4>2
    <3> QED BY <3>4
  <2> QED BY <1>5, <2>2, <2>3 DEF InsertStep
<1>6. ASSUME NEW a \in Analysis, Claim(a)
      PROVE  ClaimsMoves
  <2> PICK s \in Claimable(a) :
        /\ step' = [step EXCEPT ![a][s] = [@ EXCEPT !.state = "claimed",
                                             !.lease = step[a][s].lease + 1, !.ripe = FALSE]]
        /\ runs' = runs \union {Run(s, step[a][s].lease + 1, "queued")}
    BY <1>6 DEF Claim
  <2>1. worker'.on = a /\ worker.on = a  BY <1>6 DEF Claim
  <2>2. s \in Step /\ Due(step[a][s])  BY DEF Claimable
  <2> DEFINE old == step[a][s]
             row == [old EXCEPT !.state = "claimed", !.lease = old.lease + 1, !.ripe = FALSE]
             new == Run(s, step[a][s].lease + 1, "queued")
  <2>3. old \in Rows  BY <2>2 DEF Typed
  <2>4. /\ row.state = "claimed" /\ row.lease = step[a][s].lease + 1
    BY <2>3, RowClaimed
  <2>5. row.ripe = FALSE  BY <2>3 DEF Rows
  <2>6. new.s = s /\ new.lease = step[a][s].lease + 1  BY DEF Run
  <2>7. \A b \in Analysis, t \in Step :
          step'[b][t] = IF b = a /\ t = s THEN row ELSE step[b][t]
    BY <2>2 DEF Typed
  <2>8. new \in runs' /\ runs \subseteq runs'  OBVIOUS
  <2> HIDE DEF row, new, old
  <2>9. ASSUME NEW b \in Analysis, NEW t \in Step PROVE ClaimsMove(b, t)
    <3>1. CASE b = a /\ t = s
      <4>1. step'[b][t] = row  BY <2>7, <3>1
      <4>2. Live(b, t)'  BY <2>1, <2>4, <2>6, <2>8, <3>1, <4>1 DEF Live
      <4> QED BY <2>2, <2>4, <2>5, <3>1, <4>1, <4>2 DEF ClaimsMove
    <3>2. CASE ~(b = a /\ t = s)
      <4>1. step'[b][t] = step[b][t]  BY <2>7, <3>2
      <4> QED BY <2>1, <2>8, <4>1, ClaimStays
    <3> QED BY <3>1, <3>2
  <2> QED BY <2>9
<1> QED BY <1>2, <1>3, <1>4, <1>5, <1>6, Zenon DEF WorkerStep

\* A row whose claim is over or paid for moves, and no other.
LEMMA RunClaims ==
  ASSUME IInv, IInv', Counted, NEW r \in runs, RunStep(worker.on, r) \/ RunFails(worker.on, r)
  PROVE  ClaimsMoves
<1> USE DEF IInv, ClaimsMoves
<1>1. r \in Goroutines /\ r.s \in Step /\ worker.on \in Analysis /\ worker' = worker
  BY DEF Placed, Typed, Goroutines, RunStep, Launch, LoadChildren, ReadSegment, Analyze,
         WriteEvidence, WritePayload, CompleteStep, RunFails, OutputInvalid, NoPermit,
         LeaveClaimed
<1> DEFINE a == worker.on
<1>2. ASSUME UNCHANGED step, NEW q, q.s = r.s, q.lease = r.lease,
             runs' = (runs \ {r}) \union {q}
      PROVE  ClaimsMoves
  <2>1. \A x \in runs : \E y \in runs' : y.s = x.s /\ y.lease = x.lease  BY <1>2
  <2> QED BY <1>1, <1>2, <2>1, ClaimStays
<1>3. ASSUME UNCHANGED step, runs' = runs \ {r}, ~Holds(a, r)
      PROVE  ClaimsMoves
  <2>1. ASSUME NEW b \in Analysis, NEW s \in Step,
               NEW x \in runs, x.s = s, x.lease = step[b][s].lease, worker.on = b,
               step[b][s].state = "claimed"
        PROVE  x \in runs'
    BY <1>3, <2>1 DEF Holds
  <2> QED BY <1>1, <1>3, <2>1, ClaimStays
<1>4. ASSUME NEW row, step' = [step EXCEPT ![a][r.s] = row],
             row.lease = step[a][r.s].lease,
             \/ row.state \in {"completed", "failed"}
             \/ row.state = step[a][r.s].state /\ row.ripe = step[a][r.s].ripe
                  /\ \E q \in runs' : q.s = r.s /\ q.lease = r.lease,
             \A x \in runs : x # r => x \in runs', Holds(a, r)
      PROVE  ClaimsMoves
  <2>1. \A b \in Analysis, t \in Step :
          step'[b][t] = IF b = a /\ t = r.s THEN row ELSE step[b][t]
    BY <1>1, <1>4 DEF Typed
  <2>2. ASSUME NEW b \in Analysis, NEW t \in Step PROVE ClaimsMove(b, t)
    <3>1. CASE ~(b = a /\ t = r.s)
      <4>1. \A x \in runs : x.s = t /\ worker.on = b => x \in runs'  BY <1>4, <3>1
      <4> QED BY <1>1, <2>1, <3>1, <4>1, ClaimStays
    <3>2. CASE b = a /\ t = r.s
      <4>1. step'[b][t] = row  BY <2>1, <3>2
      <4>2. CASE row.state \in {"completed", "failed"}
        BY <1>4, <3>2, <4>1, <4>2 DEF ClaimsMove
      <4>3. CASE row.state = step[a][r.s].state /\ row.ripe = step[a][r.s].ripe
                  /\ \E q \in runs' : q.s = r.s /\ q.lease = r.lease
        <5>1. r.lease = step[b][t].lease  BY <1>4, <3>2 DEF Holds
        <5> QED BY <1>1, <1>4, <3>2, <4>1, <4>3, <5>1, ClaimStays
      <4> QED BY <1>4, <4>2, <4>3
    <3> QED BY <3>1, <3>2
  <2> QED BY <2>2
<1>5. CASE Launch(r) \/ Analyze(r) \/ WriteEvidence(a, r)
  <2> PICK at : runs' = (runs \ {r}) \union {[r EXCEPT !.at = at]}
    BY <1>5 DEF Launch, Analyze, WriteEvidence, Advance
  <2> DEFINE q == [r EXCEPT !.at = at]
  <2>1. q.s = r.s /\ q.lease = r.lease  BY <1>1 DEF Goroutines
  <2>2. UNCHANGED step  BY <1>5 DEF Launch, Analyze, WriteEvidence, rows
  <2>3. runs' = (runs \ {r}) \union {q}  OBVIOUS
  <2> HIDE DEF q
  <2> QED BY <1>2, <2>1, <2>2, <2>3
<1>6. CASE LoadChildren(a, r)
  <2> PICK of : runs' = (runs \ {r}) \union {[r EXCEPT !.at = "model", !.of = of]}
    BY <1>6 DEF LoadChildren, Advance
  <2> DEFINE q == [r EXCEPT !.at = "model", !.of = of]
  <2>1. q.s = r.s /\ q.lease = r.lease  BY <1>1 DEF Goroutines
  <2>2. UNCHANGED step  BY <1>6 DEF LoadChildren, rows
  <2>3. runs' = (runs \ {r}) \union {q}  OBVIOUS
  <2> HIDE DEF q
  <2> QED BY <1>2, <2>1, <2>2, <2>3
<1>7. CASE ReadSegment(a, r)
  <2>1. CASE a \in manifest
    <3> DEFINE q == [r EXCEPT !.at = "model"]
    <3>1. q.s = r.s /\ q.lease = r.lease  BY <1>1 DEF Goroutines
    <3>2. UNCHANGED step /\ runs' = (runs \ {r}) \union {q}
      BY <1>7, <2>1 DEF ReadSegment, Advance
    <3> HIDE DEF q
    <3> QED BY <1>2, <3>1, <3>2
  <2>2. CASE a \notin manifest
    <3>1. FailStep(a, r) /\ runs' = runs \ {r}  BY <1>7, <2>2 DEF ReadSegment, End
    <3>2. CASE ~Holds(a, r)  BY <1>3, <3>1, <3>2 DEF FailStep
    <3>3. CASE Holds(a, r)
      <4> DEFINE row == [step[a][r.s] EXCEPT !.state = "failed"]
      <4>1. step' = [step EXCEPT ![a][r.s] = row]  BY <3>1, <3>3 DEF FailStep
      <4>2. step[a][r.s] \in Rows  BY <1>1 DEF Typed
      <4>3. row.state = "failed" /\ row.lease = step[a][r.s].lease  BY <4>2 DEF Rows
      <4> HIDE DEF row, a
      <4> QED BY <1>4, <3>1, <3>3, <4>1, <4>3
    <3> QED BY <3>2, <3>3
  <2> QED BY <2>1, <2>2
<1>8. CASE WritePayload(a, r)
  <2>1. CASE ~Holds(a, r)  BY <1>3, <1>8, <2>1 DEF WritePayload, End
  <2>2. CASE Holds(a, r)
    <3> DEFINE row == [step[a][r.s] EXCEPT !.payload = [by |-> r.lease, of |-> r.of]]
               q == [r EXCEPT !.at = "complete"]
    <3>1. step' = [step EXCEPT ![a][r.s] = row] /\ runs' = (runs \ {r}) \union {q}
      BY <1>8, <2>2 DEF WritePayload, Advance
    <3>2. step[a][r.s] \in Rows  BY <1>1 DEF Typed
    <3>3. /\ row.state = step[a][r.s].state /\ row.lease = step[a][r.s].lease
          /\ row.ripe = step[a][r.s].ripe
      BY <3>2 DEF Rows
    <3>4. q.s = r.s /\ q.lease = r.lease  BY <1>1 DEF Goroutines
    <3> HIDE DEF row, a, q
    <3> QED BY <1>4, <2>2, <3>1, <3>3, <3>4
  <2> QED BY <2>1, <2>2
<1>9. CASE CompleteStep(a, r)
  <2>1. CASE ~Holds(a, r)  BY <1>3, <1>9, <2>1 DEF CompleteStep, End
  <2>2. CASE Holds(a, r)
    <3> DEFINE row == [step[a][r.s] EXCEPT !.state = "completed", !.digest = r.lease]
    <3>1. step' = [step EXCEPT ![a][r.s] = row] /\ runs' = runs \ {r}
      BY <1>9, <2>2 DEF CompleteStep, End
    <3>2. step[a][r.s] \in Rows  BY <1>1 DEF Typed
    <3>3. row.state = "completed" /\ row.lease = step[a][r.s].lease  BY <3>2 DEF Rows
    <3> HIDE DEF row, a
    <3> QED BY <1>4, <2>2, <3>1, <3>3
  <2> QED BY <2>1, <2>2
<1>10. CASE RunFails(a, r)
  <2>1. Spent' > Spent
    <3>1. Faulted
      BY <1>1, <1>10 DEF Faulted, RunFails, OutputInvalid, NoPermit, LeaveClaimed
    <3> QED BY <3>1, BoundsAssumption DEF Counted, Spent, Fault, Faulted
  <2>2. \A b \in Analysis, s \in Step : Softer(b, s)
    <3>1. step' = step \/ FailStep(a, r) \/ RetryStep(a, r)
      BY <1>10 DEF RunFails, OutputInvalid, NoPermit, LeaveClaimed, rows
    <3> HIDE DEF a
    <3>2. a \in Analysis  BY <1>1 DEF a
    <3> QED BY <1>1, <3>1, <3>2, RowSofter
  <2>3. ASSUME NEW b \in Analysis, NEW s \in Step PROVE ClaimsMove(b, s)
    BY <2>1, <2>2 DEF ClaimsMove, Softer
  <2> QED BY <2>3
<1> QED BY <1>5, <1>6, <1>7, <1>8, <1>9, <1>10 DEF RunStep

\* Time and restarts: a lease ends under a goroutine at the price of a fault, and
\* under nobody for free.
LEMMA AroundClaims ==
  ASSUME IInv, IInv', Counted,
         \/ \E a \in Analysis : Request(a) \/ WallTime(a)
         \/ \E a \in Analysis, s \in Step : Ripen(a, s) \/ Outlived(a, s)
         \/ Stop \/ Start
  PROVE  ClaimsMoves
<1> USE DEF IInv, ClaimsMoves
<1>1. CASE \E a \in Analysis : Request(a) \/ WallTime(a)
  <2>1. UNCHANGED <<step, runs, worker>>  BY <1>1 DEF Request, WallTime, rows
  <2> QED BY <2>1, ClaimStays
<1>2. CASE \E a \in Analysis, s \in Step : Ripen(a, s) \/ Outlived(a, s)
  <2> PICK a \in Analysis, s \in Step : Ripen(a, s) \/ Outlived(a, s)  BY <1>2
  <2> DEFINE row == [step[a][s] EXCEPT !.ripe = TRUE]
  <2>1. /\ step' = [step EXCEPT ![a][s] = row] /\ UNCHANGED <<runs, worker>>
        /\ step[a][s].state \in {"prepared", "claimed"}
    BY DEF Ripen, Outlived
  <2>2. step[a][s] \in Rows  BY DEF Typed
  <2>3. row.state = step[a][s].state /\ row.lease = step[a][s].lease
    BY <2>2 DEF Rows
  <2> HIDE DEF row
  <2>4. \A b \in Analysis, t \in Step :
          step'[b][t] = IF b = a /\ t = s THEN row ELSE step[b][t]
    BY <2>1 DEF Typed
  <2>5. ~Live(a, s) \/ Spent' > Spent
    <3>1. CASE Ripen(a, s)  BY <3>1 DEF Ripen
    <3>2. CASE Outlived(a, s)
      <4>1. Faulted  BY <3>2 DEF Faulted, Outlived
      <4> QED BY <4>1, BoundsAssumption DEF Counted, Spent, Fault, Faulted
    <3> QED BY <3>1, <3>2
  <2>6. ASSUME NEW b \in Analysis, NEW t \in Step PROVE ClaimsMove(b, t)
    <3>1. CASE b = a /\ t = s  BY <2>1, <2>3, <2>4, <2>5, <3>1 DEF ClaimsMove
    <3>2. CASE ~(b = a /\ t = s)
      <4>1. step'[b][t] = step[b][t]  BY <2>4, <3>2
      <4> QED BY <2>1, <4>1, ClaimStays
    <3> QED BY <3>1, <3>2
  <2> QED BY <2>6
<1>3. CASE Stop
  <2>1. Spent' > Spent
    BY <1>3, BoundsAssumption DEF Counted, Spent, Stop, Resting, bounds
  <2>2. UNCHANGED step  BY <1>3 DEF Stop, rows
  <2> QED BY <2>1, <2>2 DEF ClaimsMove
<1>4. CASE Start
  <2>1. UNCHANGED step /\ runs = {}  BY <1>4 DEF Start, Placed, rows
  <2> QED BY <2>1, NobodyClaims
<1> QED BY <1>1, <1>2, <1>3, <1>4

\* A failing worker writes no step and keeps its goroutines.
LEMMA FailsClaims ==
  ASSUME IInv, WorkerFails
  PROVE  ClaimsMoves
<1> USE DEF IInv, ClaimsMoves
<1>1. PICK a \in Analysis : \/ CannotPrepare(a) \/ PreparationFails(a) \/ MarkFails(a)
                            \/ DrainFails(a) \/ CheckFails(a)
  BY DEF WorkerFails
<1>2. UNCHANGED <<step, runs>>
  BY <1>1 DEF CannotPrepare, PreparationFails, MarkFails, DrainFails, CheckFails, rows
<1>3. runs = {} \/ worker'.on = worker.on
  BY <1>1 DEF CannotPrepare, PreparationFails, MarkFails, DrainFails, CheckFails, Go, Return,
              Placed
<1> QED BY <1>2, <1>3, ClaimStays, NobodyClaims

LEMMA ClaimsNext ==
  ASSUME IInv, IInv', Counted, Next
  PROVE  ClaimsMoves
<1> QED BY WorkerClaims, RunClaims, AroundClaims, FailsClaims DEF Next, Running

-----------------------------------------------------------------------------
\* The places.
LEMMA FewerSeated ==
  ASSUME Seated, runs' \subseteq runs
  PROVE  Seated'
<1>1. Started' \subseteq Started  BY DEF Started
<1>2. IsFiniteSet(Started') /\ Cardinality(Started') <= Cardinality(Started)
  BY <1>1, FS_Subset DEF Seated
<1>3. Cardinality(Started) \in Nat /\ Cardinality(Started') \in Nat
  BY <1>2, FS_CardinalityType DEF Seated
<1> QED BY <1>2, <1>3, BoundsAssumption DEF Seated

\* A goroutine at work that goes on keeps its place.
LEMMA MovedSeated ==
  ASSUME Seated, NEW r \in runs, r.at # "queued", NEW q, q.at # "queued",
         runs' = (runs \ {r}) \union {q}
  PROVE  Seated'
<1>1. Started' = (Started \ {r}) \union {q}  BY DEF Started
<1>2. r \in Started  BY DEF Started
<1>3. /\ IsFiniteSet(Started \ {r})
      /\ Cardinality(Started \ {r}) = Cardinality(Started) - 1
  BY <1>2, FS_RemoveElement DEF Seated
<1>4. /\ IsFiniteSet(Started')
      /\ Cardinality(Started') = Cardinality(Started \ {r})
           \/ Cardinality(Started') = Cardinality(Started \ {r}) + 1
  BY <1>1, <1>3, FS_AddElement
<1>5. Cardinality(Started) \in Nat  BY FS_CardinalityType DEF Seated
<1>6. Cardinality(Started') <= Concurrency
  BY <1>3, <1>4, <1>5, BoundsAssumption DEF Seated
<1> QED BY <1>4, <1>6 DEF Seated

LEMMA SeatedNext ==
  ASSUME IInv, Seated, Next
  PROVE  Seated'
<1> USE DEF IInv
<1>1. ASSUME runs' \subseteq runs PROVE Seated'  BY <1>1, FewerSeated
<1>2. ASSUME NEW a \in Analysis, Claim(a) PROVE Seated'
  <2> PICK s \in Claimable(a) : runs' = runs \union {Run(s, step[a][s].lease + 1, "queued")}
    BY <1>2 DEF Claim
  <2> DEFINE new == Run(s, step[a][s].lease + 1, "queued")
  <2>1. new.at = "queued" /\ runs' = runs \union {new}  BY DEF Run
  <2>2. Started = runs  BY <1>2 DEF Claim
  <2> HIDE DEF new
  <2>3. \A q \in runs : q.at # "queued"  BY <2>2 DEF Started
  <2>4. Started' = Started  BY <2>1, <2>3 DEF Started
  <2> QED BY <2>1, <2>3, <2>4 DEF Seated
<1>3. ASSUME NEW r \in runs, Launch(r) PROVE Seated'
  <2> DEFINE q == [r EXCEPT !.at = "start"]
  <2>1. runs' = (runs \ {r}) \union {q} /\ r.at = "queued" /\ Cardinality(Started) < Concurrency
    BY <1>3 DEF Launch
  <2>2. q.at = "start"  BY DEF Typed, Goroutines
  <2> HIDE DEF q
  <2>3. Started' = Started \union {q}  BY <2>1, <2>2 DEF Started
  <2>4. /\ IsFiniteSet(Started')
        /\ Cardinality(Started') = Cardinality(Started) \/ Cardinality(Started') = Cardinality(Started) + 1
    BY <2>3, FS_AddElement DEF Seated
  <2>5. Cardinality(Started) \in Nat  BY FS_CardinalityType DEF Seated
  <2>6. Cardinality(Started') <= Concurrency  BY <2>1, <2>4, <2>5, BoundsAssumption
  <2> QED BY <2>1, <2>2, <2>4, <2>6 DEF Seated
<1>4. ASSUME NEW r \in runs, RunStep(worker.on, r), ~Launch(r) PROVE Seated'
  <2>1. r \in Goroutines  BY DEF Typed
  <2>2. CASE LoadChildren(worker.on, r)
    <3> PICK of : runs' = (runs \ {r}) \union {[r EXCEPT !.at = "model", !.of = of]}
      BY <2>2 DEF LoadChildren, Advance
    <3> DEFINE q == [r EXCEPT !.at = "model", !.of = of]
    <3>1. q.at = "model"  BY <2>1 DEF Goroutines
    <3>2. r.at # "queued" /\ runs' = (runs \ {r}) \union {q}  BY <2>2 DEF LoadChildren
    <3> HIDE DEF q
    <3> QED BY <3>1, <3>2, MovedSeated
  <2>3. CASE \E at \in {"model", "evidence", "payload", "complete"} :
               r.at # "queued" /\ runs' = (runs \ {r}) \union {[r EXCEPT !.at = at]}
    <3> PICK at \in {"model", "evidence", "payload", "complete"} :
               r.at # "queued" /\ runs' = (runs \ {r}) \union {[r EXCEPT !.at = at]}
      BY <2>3
    <3> DEFINE q == [r EXCEPT !.at = at]
    <3>1. q.at = at  BY <2>1 DEF Goroutines
    <3>2. r.at # "queued" /\ runs' = (runs \ {r}) \union {q}  OBVIOUS
    <3> HIDE DEF q
    <3> QED BY <3>1, <3>2, MovedSeated
  <2>4. CASE runs' = runs \ {r}  BY <1>1, <2>4
  <2> QED BY <1>4, <2>2, <2>3, <2>4
       DEF RunStep, ReadSegment, Analyze, WriteEvidence, WritePayload, CompleteStep, Advance, End
<1>5. ASSUME NEW r \in runs, RunFails(worker.on, r) PROVE Seated'
  BY <1>1, <1>5 DEF RunFails, OutputInvalid, NoPermit, LeaveClaimed, End
<1>6. ASSUME \/ Tick \/ EndTick \/ WorkerFails \/ Stop \/ Start
             \/ \E a \in Analysis :
                  \/ Process(a) \/ Prepare(a) \/ InsertStep(a) \/ WriteManifest(a)
                  \/ MarkRunning(a) \/ Drained(a) \/ Waited(a) \/ Check(a)
                  \/ Request(a) \/ WallTime(a)
                  \/ \E s \in Step : Ripen(a, s) \/ Outlived(a, s)
      PROVE  Seated'
  BY <1>1, <1>6
     DEF Tick, EndTick, WorkerFails, Stop, Start, Process, Prepare, InsertStep, WriteManifest,
         MarkRunning, Drained, Waited, Check, Request, WallTime, Ripen, Outlived,
         CannotPrepare, PreparationFails, MarkFails, DrainFails, CheckFails
<1> QED BY <1>2, <1>3, <1>4, <1>5, <1>6 DEF Next, WorkerStep, Running

\* What is stored is about analyses that there are.
LEMMA StoredNext ==
  ASSUME IInv, Stored, Next
  PROVE  Stored'
<1> USE DEF IInv
<1>1. ASSUME NEW a \in Analysis, WallTime(a) PROVE Stored'
  BY <1>1 DEF WallTime, Stored, rows
<1>2. ASSUME NEW a \in Analysis, WriteManifest(a) PROVE Stored'
  BY <1>2 DEF WriteManifest, Stored
<1>3. ASSUME NEW r \in runs, WriteEvidence(worker.on, r) PROVE Stored'
  <2>1. worker.on \in Analysis  BY DEF Placed
  <2> QED BY <1>3, <2>1 DEF WriteEvidence, Stored
<1>4. ASSUME UNCHANGED <<overdue, manifest, evidence>> PROVE Stored'
  BY <1>4 DEF Stored
<1>5. ASSUME NEW r \in runs, RunStep(worker.on, r) \/ RunFails(worker.on, r), ~WriteEvidence(worker.on, r)
      PROVE  Stored'
  BY <1>4, <1>5 DEF RunStep, RunFails, Launch, LoadChildren, ReadSegment, Analyze, WritePayload,
                    CompleteStep, OutputInvalid, NoPermit, LeaveClaimed, rows
<1>6. ASSUME \/ Tick \/ EndTick \/ WorkerFails \/ Stop \/ Start
             \/ \E a \in Analysis :
                  \/ Process(a) \/ Prepare(a) \/ InsertStep(a) \/ MarkRunning(a) \/ Claim(a)
                  \/ Drained(a) \/ Waited(a) \/ Check(a) \/ Request(a)
                  \/ \E s \in Step : Ripen(a, s) \/ Outlived(a, s)
      PROVE  Stored'
  BY <1>4, <1>6
     DEF Tick, EndTick, WorkerFails, Stop, Start, Process, Prepare, InsertStep, MarkRunning,
         Claim, Drained, Waited, Check, Request, Ripen, Outlived, CannotPrepare,
         PreparationFails, MarkFails, DrainFails, CheckFails, rows
<1> QED BY <1>1, <1>2, <1>3, <1>5, <1>6 DEF Next, WorkerStep, Running

-----------------------------------------------------------------------------
LEMMA WithinNext == IInv /\ IInv' /\ Within /\ [Next]_vars => Within'
<1> SUFFICES ASSUME IInv, IInv', Within, [Next]_vars PROVE Within'  OBVIOUS
<1>1. CASE Next
  <2>1. /\ Counted' /\ Spent' >= Spent /\ Spent \in Nat
    BY <1>1, BudgetGrows, SpentTyped DEF Within, IInv
  <2>2. Spent' \in Nat  BY <2>1, SpentTypedNext
  <2>3. ClaimsMoves  BY <1>1, ClaimsNext DEF Within
  <2>4. ASSUME NEW a \in Analysis, NEW s \in Step PROVE Affordable(a, s)'
    <3>1. step[a][s] \in Rows /\ step'[a][s] \in Rows  BY DEF IInv, Typed
    <3> QED BY <2>1, <2>2, <2>3, <3>1, ClaimsPaid DEF Within, ClaimsMoves
  <2> QED BY <1>1, <2>1, <2>4, SeatedNext, StoredNext DEF Within
<1>2. CASE vars' = vars
  <2>1. UNCHANGED <<step, runs, worker, faults, restarts, overdue, manifest, evidence>>
    BY <1>2 DEF vars, rows, bounds
  <2> QED BY <2>1 DEF Within, Counted, Spent, Seated, Started, Stored, Affordable, Live
<1> QED BY <1>1, <1>2

LEMMA InitWithin == Init => Within
<1> SUFFICES ASSUME Init PROVE Within  OBVIOUS
<1>1. Counted /\ Spent \in Nat  BY BoundsAssumption DEF Init, Counted, Spent, Resting
<1>2. Started = {}  BY DEF Init, Started
<1>3. Seated  BY <1>2, FS_EmptySet, BoundsAssumption DEF Seated, Init
<1>4. Stored  BY DEF Init, Stored
<1>5. \A a \in Analysis, s \in Step : step[a][s] = Row("none", 0, FALSE)  BY DEF Init
<1>6. Row("none", 0, FALSE).state = "none" /\ Row("none", 0, FALSE).lease = 0  BY DEF Row
<1>7. ASSUME NEW a \in Analysis, NEW s \in Step PROVE Affordable(a, s)
  <2>1. step[a][s].state = "none" /\ step[a][s].lease = 0  BY <1>5, <1>6
  <2>2. 0 <= 1 + Spent  BY <1>1
  <2> QED BY <2>1, <2>2 DEF Affordable
<1> QED BY <1>1, <1>3, <1>4, <1>7 DEF Within

\* The claims of a step are as few as the faults and restarts allow, and at most
\* one goroutine waits while the others are at work.
LEMMA WithinBounds == IInv /\ Within => TypeOK
<1> SUFFICES ASSUME IInv, Within PROVE TypeOK  OBVIOUS
<1> USE DEF IInv, Within
<1>1. ASSUME NEW a \in Analysis, NEW s \in Step
      PROVE  step[a][s].lease \in 0..(1 + MaxFaults + MaxRestarts)
  <2>1. step[a][s].lease \in Nat /\ step[a][s].lease <= 1 + Spent
    BY DEF Typed, Rows, Affordable
  <2>2. Spent \in Nat /\ Spent <= MaxFaults + MaxRestarts
    BY BoundsAssumption DEF Counted, Spent
  <2> QED BY <2>1, <2>2, BoundsAssumption
<1>2. Cardinality(runs) <= Concurrency + 1
  <2>1. /\ IsFiniteSet(Started) /\ Cardinality(Started) <= Concurrency
        /\ Cardinality(Started) \in Nat
    BY FS_CardinalityType DEF Seated
  <2>2. CASE \E q \in runs : q.at = "queued"
    <3> PICK q \in runs : q.at = "queued"  BY <2>2
    <3>1. runs = Started \union {q}  BY DEF Seated, Started
    <3> QED BY <2>1, <3>1, FS_AddElement, BoundsAssumption
  <2>3. CASE \A q \in runs : q.at # "queued"
    <3>1. runs = Started  BY <2>3 DEF Started
    <3> QED BY <2>1, <3>1, BoundsAssumption
  <2> QED BY <2>2, <2>3
<1>3. \A a \in Analysis : DOMAIN step[a] = Step
  BY DEF Typed
<1>4. \A a \in Analysis, s \in Step :
        step[a][s].state \in {"none", "prepared", "claimed", "completed", "failed"}
  BY DEF Typed, Rows
<1>5. \A r \in runs : r.at \in {"queued", "start", "model", "evidence", "payload", "complete"}
  BY DEF Typed, Goroutines
<1>6. analysis \in [Analysis -> {"none", "completed", "failed"} \union Active]
  <2>1. States = {"none", "completed", "failed"} \union Active  BY DEF States, Active
  <2> QED BY <2>1 DEF Typed
<1>7. worker.at \in {"down", "idle", "list", "prepare", "insert", "mark", "drain", "wait", "check"}
  BY DEF Placed
<1> QED BY <1>1, <1>2, <1>3, <1>4, <1>5, <1>6, <1>7 DEF TypeOK, Stored

\* Rows, goroutines and excerpts stay within their types and their bounds: over
\* all behaviours a step is claimed once more than faults and restarts took claims
\* away, and a drain never has more goroutines than places and one that waits.
THEOREM TypeCorrect == Spec => []TypeOK
<1>1. Init => IInv /\ Within  BY InitHolds, InitWithin
<1>2. IInv /\ Within /\ [Next]_vars => IInv' /\ Within'  BY Inductive, WithinNext
<1> QED BY <1>1, <1>2, WithinBounds, PTL DEF Spec
=============================================================================
