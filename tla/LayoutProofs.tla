---------------------------- MODULE LayoutProofs ----------------------------
(***************************************************************************)
(* Proofs about Angles and Layout, for all directions, texts and layouts.  *)
(*                                                                         *)
(* Angles: what qsort needs of its comparison, that testing neighbours is  *)
(* enough, and that sorting by atan2 gives the cyclic order, wherever      *)
(* atan2 begins to count.                                                  *)
(*                                                                         *)
(* Layout: regions and nodes agree, derivations put nodes where the        *)
(* smallest circles are, a deformation said to be stable moves no node,    *)
(* and what is parsed is valid.  LayoutInv is the inductive invariant;     *)
(* recursive functions are unfolded step by step, and an induction over    *)
(* them is an argument about a least number where something fails.         *)
(***************************************************************************)
EXTENDS Layout, TLAPS, SequenceTheorems, WellFoundedInduction, FiniteSetTheorems

-----------------------------------------------------------------------------
(* Directions.                                                             *)

\* The sign of a product.
LEMMA Signs ==
  ASSUME NEW x \in Int, NEW y \in Int
  PROVE  /\ x * y \in Int
         /\ x > 0 /\ y > 0 => x * y > 0
         /\ x < 0 /\ y < 0 => x * y > 0
         /\ x > 0 /\ y < 0 => x * y < 0
         /\ x < 0 /\ y > 0 => x * y < 0
         /\ x = 0 \/ y = 0 => x * y = 0
  OBVIOUS

\* Between the cross products of three directions there is this relation.
LEMMA Plucker ==
  ASSUME NEW a1 \in Int, NEW a2 \in Int, NEW b1 \in Int, NEW b2 \in Int,
         NEW c1 \in Int, NEW c2 \in Int
  PROVE  (a1 * c2 - a2 * c1) * b2 = (a1 * b2 - a2 * b1) * c2 + (b1 * c2 - b2 * c1) * a2
  OBVIOUS

\* The three halves.
LEMMA HalfType ==
  ASSUME NEW d \in Directions
  PROVE  /\ d[1] \in Int /\ d[2] \in Int /\ (d[1] # 0 \/ d[2] # 0)
         /\ Half(d) \in {0, 1, 2}
         /\ Half(d) = 0 => d[2] < 0
         /\ Half(d) = 1 => d[2] > 0 \/ (d[2] = 0 /\ d[1] > 0)
         /\ Half(d) = 2 => d[2] = 0 /\ d[1] < 0
<1>1. d[1] \in Int /\ d[2] \in Int /\ (d[1] # 0 \/ d[2] # 0)
  BY DEF Directions
<1> QED
  BY <1>1 DEF Half

\* The upper half begins at angle 0.
LEMMA Upper ==
  \A d \in Directions : Half(d) = 1 => d[2] >= 0 /\ (d[2] = 0 => d[1] > 0)
<1> TAKE d \in Directions
<1> QED
  BY HalfType

\* The cross product of two directions is a number.
LEMMA CrossType ==
  ASSUME NEW d \in Directions, NEW e \in Directions
  PROVE  /\ Cross(d, e) \in Int
         /\ Cross(e, d) = - Cross(d, e)
         /\ Cross(d, d) = 0
  BY HalfType DEF Cross

\* The same with the products named.
LEMMA CrossRelation ==
  ASSUME NEW d \in Directions, NEW e \in Directions, NEW f \in Directions
  PROVE  Cross(d, f) * e[2] = Cross(d, e) * f[2] + Cross(e, f) * d[2]
  BY HalfType, Plucker DEF Cross

\* A direction on the axis.
LEMMA OnAxis ==
  ASSUME NEW d \in Directions, NEW e \in Directions
  PROVE  /\ d[2] = 0 => Cross(d, e) = d[1] * e[2]
         /\ e[2] = 0 => Cross(d, e) = - (d[2] * e[1])
  BY HalfType DEF Cross

\* Within one half, turning left twice is turning left, and nothing in the half
\* that is west alone turns left.
LEMMA TwoLeftTurns ==
  ASSUME NEW d \in Directions, NEW e \in Directions, NEW f \in Directions,
         Half(d) = Half(e), Half(e) = Half(f), Cross(d, e) > 0, Cross(e, f) > 0
  PROVE  Cross(d, f) > 0
<1>0. /\ Cross(d, e) \in Int /\ Cross(e, f) \in Int /\ Cross(d, f) \in Int
      /\ d[2] \in Int /\ e[2] \in Int /\ f[2] \in Int
      /\ d[1] \in Int /\ e[1] \in Int /\ f[1] \in Int
  BY CrossType, HalfType
<1>1. Cross(d, f) * e[2] = Cross(d, e) * f[2] + Cross(e, f) * d[2]
  BY CrossRelation
<1>2. CASE Half(e) = 0
  <2>1. d[2] < 0 /\ e[2] < 0 /\ f[2] < 0
    BY <1>2, HalfType
  <2>2. Cross(d, e) * f[2] < 0 /\ Cross(e, f) * d[2] < 0
    BY <1>0, <2>1, Signs
  <2>3. Cross(d, f) * e[2] < 0
    BY <1>0, <1>1, <2>2, Signs
  <2> QED
    BY <1>0, <2>1, <2>3, Signs
<1>3. CASE Half(e) = 1
  <2>1. d[2] >= 0 /\ e[2] >= 0 /\ f[2] >= 0
    BY <1>3, Upper
  <2>2. CASE e[2] = 0
    <3>1. Cross(d, e) = - (d[2] * e[1]) /\ e[1] > 0
      BY <1>3, <2>2, OnAxis, HalfType
    <3>2. d[2] * e[1] >= 0
      BY <1>0, <2>1, <3>1, Signs
    <3> QED
      BY <1>0, <3>1, <3>2, Signs
  <2>3. CASE e[2] > 0
    <3>1. Cross(d, e) * f[2] >= 0 /\ Cross(e, f) * d[2] >= 0
      BY <1>0, <2>1, Signs
    <3>2. f[2] > 0
      <4>1. SUFFICES ASSUME f[2] = 0 PROVE FALSE
        BY <1>0, <2>1
      <4>2. Cross(e, f) = - (e[2] * f[1]) /\ f[1] > 0
        BY <1>3, <4>1, OnAxis, Upper
      <4> QED
        BY <1>0, <2>3, <4>2, Signs
    <3>3. Cross(d, e) * f[2] > 0
      BY <1>0, <3>2, Signs
    <3>4. Cross(d, f) * e[2] > 0
      BY <1>0, <1>1, <3>1, <3>3, Signs
    <3> QED
      BY <1>0, <2>3, <3>4, Signs
  <2> QED
    BY <1>0, <2>1, <2>2, <2>3
<1>4. CASE Half(e) = 2
  <2>1. d[2] = 0 /\ e[2] = 0
    BY <1>4, HalfType
  <2>2. Cross(d, e) = d[1] * e[2]
    BY <2>1, OnAxis
  <2> QED
    BY <1>0, <2>1, <2>2, Signs
<1> QED
  BY <1>2, <1>3, <1>4, HalfType

\* Coming before is transitive.
LEMMA Transitive ==
  ASSUME NEW d \in Directions, NEW e \in Directions, NEW f \in Directions,
         compare_angles(d, e), compare_angles(e, f)
  PROVE  compare_angles(d, f)
<1>1. Half(d) \in {0, 1, 2} /\ Half(e) \in {0, 1, 2} /\ Half(f) \in {0, 1, 2}
  BY HalfType
<1>2. CASE Half(d) = Half(e) /\ Half(e) = Half(f)
  BY <1>1, <1>2, TwoLeftTurns DEF compare_angles
<1>3. CASE Half(d) < Half(e) \/ Half(e) < Half(f)
  BY <1>1, <1>3 DEF compare_angles
<1> QED
  BY <1>1, <1>2, <1>3 DEF compare_angles

\* Directions that are the same compare alike with every other.
LEMMA SameCompare ==
  ASSUME NEW d \in Directions, NEW e \in Directions, NEW f \in Directions,
         SameDirection(d, e), compare_angles(e, f)
  PROVE  compare_angles(d, f)
<1>0. /\ Cross(d, e) \in Int /\ Cross(e, f) \in Int /\ Cross(d, f) \in Int
      /\ d[2] \in Int /\ e[2] \in Int /\ f[2] \in Int
      /\ d[1] \in Int /\ e[1] \in Int /\ f[1] \in Int
  BY CrossType, HalfType
<1>1. Half(d) = Half(e) /\ Cross(d, e) = 0
  BY DEF SameDirection
<1>2. SUFFICES ASSUME Half(e) = Half(f), Cross(e, f) > 0 PROVE Cross(d, f) > 0
  BY <1>1 DEF compare_angles
<1>3. Cross(d, f) * e[2] = Cross(e, f) * d[2]
  <2>1. Cross(d, f) * e[2] = Cross(d, e) * f[2] + Cross(e, f) * d[2]
    BY CrossRelation
  <2>2. Cross(d, e) * f[2] = 0 /\ Cross(e, f) * d[2] \in Int
    BY <1>0, <1>1, Signs
  <2> QED
    BY <2>1, <2>2
<1>4. CASE Half(e) = 0
  <2>1. d[2] < 0 /\ e[2] < 0
    BY <1>1, <1>4, HalfType
  <2>2. Cross(d, f) * e[2] < 0
    BY <1>0, <1>2, <1>3, <2>1, Signs
  <2> QED
    BY <1>0, <2>1, <2>2, Signs
<1>5. CASE Half(e) = 1
  <2>1. d[2] >= 0 /\ (d[2] = 0 => d[1] > 0) /\ e[2] >= 0 /\ (e[2] = 0 => e[1] > 0)
    BY <1>1, <1>5, Upper
  <2>2. CASE e[2] = 0
    <3>1. Cross(e, f) = e[1] * f[2] /\ Cross(d, e) = - (d[2] * e[1]) /\ e[1] > 0
      BY <2>1, <2>2, OnAxis
    <3>2. d[2] = 0 /\ f[2] > 0
      BY <1>0, <1>1, <1>2, <2>1, <3>1, Signs
    <3>3. Cross(d, f) = d[1] * f[2] /\ d[1] > 0
      BY <2>1, <3>2, OnAxis
    <3> QED
      BY <1>0, <3>2, <3>3, Signs
  <2>3. CASE e[2] > 0
    <3>1. d[2] > 0
      <4>1. SUFFICES ASSUME d[2] = 0 PROVE FALSE
        BY <1>0, <2>1
      <4>2. Cross(d, e) = d[1] * e[2] /\ d[1] > 0
        BY <2>1, <4>1, OnAxis
      <4> QED
        BY <1>0, <1>1, <2>3, <4>2, Signs
    <3>2. Cross(d, f) * e[2] > 0
      BY <1>0, <1>2, <1>3, <3>1, Signs
    <3> QED
      BY <1>0, <2>3, <3>2, Signs
  <2> QED
    BY <1>0, <2>1, <2>2, <2>3
<1>6. CASE Half(e) = 2
  <2>1. e[2] = 0 /\ f[2] = 0
    BY <1>2, <1>6, HalfType
  <2>2. Cross(e, f) = e[1] * f[2]
    BY <2>1, OnAxis
  <2> QED
    BY <1>0, <1>2, <2>1, <2>2, Signs
<1> QED
  BY <1>4, <1>5, <1>6, HalfType

\* compare_angles (cyclic_order.c:57) is what qsort requires of a comparison, on all
\* directions: it is irreflexive and transitive, and two directions that it does not
\* tell apart are the same and compare alike with every other.
THEOREM ComparisonConsistent ==
  ASSUME NEW d \in Directions, NEW e \in Directions, NEW f \in Directions
  PROVE  /\ ~ compare_angles(d, d)
         /\ compare_angles(d, e) /\ compare_angles(e, f) => compare_angles(d, f)
         /\ SameDirection(d, e) <=> ~ compare_angles(d, e) /\ ~ compare_angles(e, d)
         /\ SameDirection(d, e) => (compare_angles(d, f) <=> compare_angles(e, f))
<1>1. ~ compare_angles(d, d)
  BY CrossType, HalfType DEF compare_angles
<1>2. compare_angles(d, e) /\ compare_angles(e, f) => compare_angles(d, f)
  BY Transitive
<1>3. SameDirection(d, e) <=> ~ compare_angles(d, e) /\ ~ compare_angles(e, d)
  <2>1. Cross(d, e) \in Int /\ Cross(e, d) = - Cross(d, e)
    BY CrossType
  <2>2. Half(d) \in {0, 1, 2} /\ Half(e) \in {0, 1, 2}
    BY HalfType
  <2> QED
    BY <2>1, <2>2 DEF compare_angles, SameDirection
<1>4. ASSUME SameDirection(d, e) PROVE compare_angles(d, f) <=> compare_angles(e, f)
  <2>1. SameDirection(e, d)
    BY <1>4, CrossType DEF SameDirection
  <2> QED
    BY <1>4, <2>1, SameCompare
<1> QED
  BY <1>1, <1>2, <1>3, <1>4

\* Three directions in the order of atan2 turn to the left: twice by less than
\* half a turn, or else back by more than none.
LeftTurn(a, b, c) ==
  \/ a > 0 /\ b > 0
  \/ a > 0 /\ b = 0 /\ c <= 0
  \/ a = 0 /\ b > 0 /\ c <= 0
  \/ a > 0 /\ b < 0 /\ c < 0
  \/ a < 0 /\ b > 0 /\ c < 0

\* In sorted order, turning to the left from a direction meets the next one first.
LEMMA SortedTurn ==
  ASSUME NEW d \in Directions, NEW e \in Directions, NEW f \in Directions,
         compare_angles(d, e), compare_angles(e, f)
  PROVE  LeftTurn(Cross(d, e), Cross(e, f), Cross(d, f))
<1>0. /\ Cross(d, e) \in Int /\ Cross(e, f) \in Int /\ Cross(d, f) \in Int
      /\ d[2] \in Int /\ e[2] \in Int /\ f[2] \in Int
      /\ d[1] \in Int /\ e[1] \in Int /\ f[1] \in Int
  BY CrossType, HalfType
<1>1. Cross(d, f) * e[2] = Cross(d, e) * f[2] + Cross(e, f) * d[2]
  BY CrossRelation
<1>2. Half(d) \in {0, 1, 2} /\ Half(e) \in {0, 1, 2} /\ Half(f) \in {0, 1, 2}
  BY HalfType
<1>3. CASE Half(d) = Half(e) /\ Half(e) = Half(f)
  <2>1. Cross(d, e) > 0 /\ Cross(e, f) > 0
    BY <1>2, <1>3 DEF compare_angles
  <2> QED
    BY <2>1 DEF LeftTurn
<1>4. CASE Half(d) = 0 /\ Half(e) = 0 /\ Half(f) # 0
  <2>1. d[2] < 0 /\ e[2] < 0 /\ f[2] >= 0
    BY <1>0, <1>2, <1>4, HalfType
  <2>2. Cross(d, e) > 0
    BY <1>4 DEF compare_angles
  <2>3. Cross(d, e) * f[2] >= 0
    BY <1>0, <2>1, <2>2, Signs
  <2>4. CASE Cross(e, f) > 0
    BY <2>2, <2>4 DEF LeftTurn
  <2>5. CASE Cross(e, f) = 0
    <3>1. Cross(d, f) * e[2] >= 0
      BY <1>0, <1>1, <2>3, <2>5, Signs
    <3>2. Cross(d, f) <= 0
      BY <1>0, <2>1, <3>1, Signs
    <3> QED
      BY <2>2, <2>5, <3>2 DEF LeftTurn
  <2>6. CASE Cross(e, f) < 0
    <3>1. Cross(e, f) * d[2] > 0
      BY <1>0, <2>1, <2>6, Signs
    <3>2. Cross(d, f) * e[2] > 0
      BY <1>0, <1>1, <2>3, <3>1, Signs
    <3>3. Cross(d, f) < 0
      BY <1>0, <2>1, <3>2, Signs
    <3> QED
      BY <2>2, <2>6, <3>3 DEF LeftTurn
  <2> QED
    BY <1>0, <2>4, <2>5, <2>6
<1>5. CASE Half(d) = 1 /\ Half(e) = 1 /\ Half(f) = 2
  <2>1. /\ e[2] >= 0 /\ (e[2] = 0 => e[1] > 0) /\ d[2] >= 0
        /\ f[2] = 0 /\ f[1] < 0
    BY <1>5, Upper, HalfType
  <2>2. Cross(d, e) > 0
    BY <1>5 DEF compare_angles
  <2>3. e[2] > 0
    <3>1. SUFFICES ASSUME e[2] = 0 PROVE FALSE
      BY <1>0, <2>1
    <3>2. Cross(d, e) = - (d[2] * e[1]) /\ e[1] > 0
      BY <2>1, <3>1, OnAxis
    <3> QED
      BY <1>0, <2>1, <2>2, <3>2, Signs
  <2>4. Cross(e, f) > 0
    <3>1. Cross(e, f) = - (e[2] * f[1])
      BY <2>1, OnAxis
    <3> QED
      BY <1>0, <2>1, <2>3, <3>1, Signs
  <2> QED
    BY <2>2, <2>4 DEF LeftTurn
<1>6. CASE Half(d) = 0 /\ Half(e) = 1 /\ Half(f) = 1
  <2>1. d[2] < 0 /\ e[2] >= 0 /\ f[2] >= 0
    BY <1>6, Upper, HalfType
  <2>2. Cross(e, f) > 0
    BY <1>6 DEF compare_angles
  <2>3. Cross(e, f) * d[2] < 0
    BY <1>0, <2>1, <2>2, Signs
  <2>4. CASE Cross(d, e) > 0
    BY <2>2, <2>4 DEF LeftTurn
  <2>5. CASE Cross(d, e) <= 0
    <3>1. Cross(d, e) * f[2] <= 0
      BY <1>0, <2>1, <2>5, Signs
    <3>2. Cross(d, f) * e[2] < 0
      BY <1>0, <1>1, <2>3, <3>1, Signs
    <3>3. Cross(d, f) < 0
      BY <1>0, <2>1, <3>2, Signs
    <3> QED
      BY <1>0, <2>2, <2>5, <3>3 DEF LeftTurn
  <2> QED
    BY <1>0, <2>4, <2>5
<1>7. CASE Half(d) = 0 /\ Half(e) = 1 /\ Half(f) = 2
  <2>1. /\ d[2] < 0 /\ e[2] >= 0 /\ (e[2] = 0 => e[1] > 0)
        /\ f[2] = 0 /\ f[1] < 0
    BY <1>7, Upper, HalfType
  <2>2. Cross(e, f) = - (e[2] * f[1]) /\ Cross(d, f) = - (d[2] * f[1])
    BY <2>1, OnAxis
  <2>3. Cross(d, f) < 0
    BY <1>0, <2>1, <2>2, Signs
  <2>4. CASE e[2] > 0
    <3>1. Cross(e, f) > 0
      BY <1>0, <2>1, <2>2, <2>4, Signs
    <3> QED
      BY <1>0, <2>3, <3>1 DEF LeftTurn
  <2>5. CASE e[2] = 0
    <3>1. Cross(d, e) = - (d[2] * e[1])
      BY <2>5, OnAxis
    <3>2. Cross(d, e) > 0 /\ Cross(e, f) = 0
      BY <1>0, <2>1, <2>2, <2>5, <3>1, Signs
    <3> QED
      BY <1>0, <2>3, <3>2 DEF LeftTurn
  <2> QED
    BY <1>0, <2>1, <2>4, <2>5
<1>8. ~ (Half(e) = 2 /\ Half(f) = 2)
  <2>1. SUFFICES ASSUME Half(e) = 2, Half(f) = 2 PROVE FALSE
    OBVIOUS
  <2>2. e[2] = 0 /\ f[2] = 0 /\ Cross(e, f) > 0
    BY <2>1, HalfType DEF compare_angles
  <2>3. Cross(e, f) = e[1] * f[2]
    BY <2>2, OnAxis
  <2> QED
    BY <1>0, <2>2, <2>3, Signs
<1>9. Half(d) <= Half(e) /\ Half(e) <= Half(f)
  BY <1>2 DEF compare_angles
<1> QED
  BY <1>2, <1>3, <1>4, <1>5, <1>6, <1>7, <1>8, <1>9

\* A left turn, seen from each of the three.
LEMMA TurnMeets ==
  ASSUME NEW d \in Directions, NEW e \in Directions, NEW f \in Directions,
         LeftTurn(Cross(d, e), Cross(e, f), Cross(d, f))
  PROVE  MetBefore(d, e, f) /\ MetBefore(e, f, d) /\ MetBefore(f, d, e)
<1>1. /\ Cross(d, e) \in Int /\ Cross(e, f) \in Int /\ Cross(d, f) \in Int
      /\ Cross(e, d) = - Cross(d, e) /\ Cross(f, e) = - Cross(e, f) /\ Cross(f, d) = - Cross(d, f)
  BY CrossType
<1>2. MetBefore(d, e, f)
  BY <1>1 DEF LeftTurn, MetBefore, Turn
<1>3. MetBefore(e, f, d)
  BY <1>1 DEF LeftTurn, MetBefore, Turn
<1>4. MetBefore(f, d, e)
  BY <1>1 DEF LeftTurn, MetBefore, Turn
<1> QED
  BY <1>2, <1>3, <1>4

\* However many members a region has: when arc_geo_derive_cyclic_order has sorted
\* their directions by atan2, the one that arc_cyclic_next gives after a member is
\* the first that is met on turning to the left from it.  The order is that of the
\* drawing alone, and does not depend on where atan2 begins to count.
THEOREM SortedIsCyclic ==
  ASSUME NEW s \in Seq(Directions), Sorted(s),
         NEW i \in 1 .. Len(s), NEW k \in 1 .. Len(s), k # i, k # (i % Len(s)) + 1
  PROVE  MetBefore(s[i], s[(i % Len(s)) + 1], s[k])
<1>0. Len(s) \in Nat /\ \A m \in 1 .. Len(s) : s[m] \in Directions
  OBVIOUS
<1>1. CASE i < Len(s)
  <2>1. i % Len(s) = i
    BY <1>0, <1>1
  <2>2. i + 1 \in 1 .. Len(s) /\ compare_angles(s[i], s[i + 1])
    BY <1>0, <1>1 DEF Sorted
  <2>3. CASE k > i + 1
    <3>1. compare_angles(s[i + 1], s[k])
      BY <1>0, <2>2, <2>3 DEF Sorted
    <3> QED
      BY <1>0, <2>1, <2>2, <3>1, SortedTurn, TurnMeets
  <2>4. CASE k < i
    <3>1. compare_angles(s[k], s[i])
      BY <1>0, <2>4 DEF Sorted
    <3> QED
      BY <1>0, <2>1, <2>2, <3>1, SortedTurn, TurnMeets
  <2> QED
    BY <1>0, <2>1, <2>3, <2>4
<1>2. CASE i = Len(s)
  <2>1. i % Len(s) = 0
    BY <1>0, <1>2
  <2>2. 1 \in 1 .. Len(s) /\ 1 < k /\ k < i
    BY <1>0, <1>2, <2>1
  <2>3. compare_angles(s[1], s[k]) /\ compare_angles(s[k], s[i])
    BY <1>0, <2>2 DEF Sorted
  <2> QED
    BY <1>0, <2>1, <2>2, <2>3, SortedTurn, TurnMeets
<1> QED
  BY <1>0, <1>1, <1>2

\* arc_geo_derive_cyclic_order looks for directions that are too close, equal ones
\* among them, at neighbours only (cyclic_order.c:128).  For equal ones that is
\* enough: in the order that qsort leaves, if no two neighbours have the same
\* direction, no two members have, and the order is strict.
THEOREM NeighboursSuffice ==
  ASSUME NEW s \in Seq(Directions),
         \A i, j \in 1 .. Len(s) : i < j => ~ compare_angles(s[j], s[i]),
         \A i \in 1 .. Len(s) - 1 : ~ SameDirection(s[i], s[i + 1])
  PROVE  /\ Sorted(s)
         /\ \A i, j \in 1 .. Len(s) : i # j => ~ SameDirection(s[i], s[j])
<1>0. Len(s) \in Nat /\ \A m \in 1 .. Len(s) : s[m] \in Directions
  OBVIOUS
<1>1. ASSUME NEW i \in 1 .. Len(s), NEW j \in 1 .. Len(s), i < j
      PROVE  compare_angles(s[i], s[j])
  <2>1. i + 1 \in 1 .. Len(s) /\ i \in 1 .. Len(s) - 1 /\ i < i + 1
    BY <1>0, <1>1
  <2>2. compare_angles(s[i], s[i + 1])
    BY <1>0, <2>1, ComparisonConsistent
  <2>3. CASE j = i + 1
    BY <2>2, <2>3
  <2>4. CASE j > i + 1
    <3>1. ~ compare_angles(s[j], s[i + 1]) /\ ~ compare_angles(s[j], s[i])
      BY <1>0, <1>1, <2>1, <2>4
    <3>2. SUFFICES ASSUME SameDirection(s[i], s[j]) PROVE FALSE
      BY <1>0, <3>1, ComparisonConsistent
    <3>3. compare_angles(s[i], s[i + 1]) <=> compare_angles(s[j], s[i + 1])
      BY <1>0, <2>1, <3>2, ComparisonConsistent
    <3> QED
      BY <2>2, <3>1, <3>3
  <2> QED
    BY <1>0, <1>1, <2>1, <2>3, <2>4
<1>2. Sorted(s)
  BY <1>1 DEF Sorted
<1>3. ASSUME NEW i \in 1 .. Len(s), NEW j \in 1 .. Len(s), i # j
      PROVE  ~ SameDirection(s[i], s[j])
  <2>1. compare_angles(s[i], s[j]) \/ compare_angles(s[j], s[i])
    BY <1>0, <1>1, <1>3
  <2> QED
    BY <1>0, <2>1, ComparisonConsistent
<1> QED
  BY <1>2, <1>3

-----------------------------------------------------------------------------
(* Induction.                                                              *)

\* A set of numbers that is not empty has a least one.
LEMMA Least ==
  ASSUME NEW T, T \subseteq Nat, T # {}
  PROVE  \E k \in T : \A j \in T : k <= j
<1>1. IsWellFoundedOn(OpToRel(<, Nat), Nat)
  BY NatLessThanWellFounded
<1>2. PICK k \in T : \A j \in T : ~ (<<j, k>> \in OpToRel(<, Nat))
  BY <1>1, WFMin
<1>3. \A j \in T : ~ (j < k)
  BY <1>2 DEF OpToRel
<1> QED
  BY <1>3

\* A set of numbers that has 0 and with every number the next one has them all.
LEMMA Induct ==
  ASSUME NEW T, 0 \in T, \A k \in Nat : k \in T => k + 1 \in T
  PROVE  \A k \in Nat : k \in T
<1> SUFFICES ASSUME Nat \ T # {} PROVE FALSE
  OBVIOUS
<1>1. PICK k \in Nat \ T : \A j \in Nat \ T : k <= j
  BY Least
<1>2. k - 1 \in Nat /\ k - 1 \notin Nat \ T /\ (k - 1) + 1 = k
  BY <1>1
<1> QED
  BY <1>1, <1>2

\* The first index of a set of them.
LEMMA FirstIs ==
  ASSUME NEW n \in Nat, NEW I, I \subseteq 1 .. n
  PROVE  /\ (IF I # {} THEN Min(I) ELSE 0) \in 0 .. n
         /\ I # {} => Min(I) \in I /\ \A i \in I : Min(I) <= i
<1>1. CASE I # {}
  <2>1. I \subseteq Nat
    OBVIOUS
  <2>2. \E k \in I : \A j \in I : k <= j
    BY <1>1, <2>1, Least
  <2>3. Min(I) \in I /\ \A j \in I : Min(I) <= j
    BY <2>2 DEF Min
  <2>4. Min(I) \in 1 .. n
    BY <2>3
  <2> QED
    BY <1>1, <2>3, <2>4
<1>2. CASE I = {}
  BY <1>2
<1> QED
  BY <1>1, <1>2

-----------------------------------------------------------------------------
(* Sequences of anything.                                                  *)

IsSeq(s) == s \in Seq(Range(s))

\* A sequence is a function on its indices.
LEMMA SeqIs ==
  ASSUME NEW s, IsSeq(s)
  PROVE  Len(s) \in Nat /\ DOMAIN s = 1 .. Len(s) /\ s = [i \in 1 .. Len(s) |-> s[i]]
  BY DEF IsSeq

\* A sequence over any set is one over its own range.
LEMMA IsSeqOver ==
  ASSUME NEW S, NEW s \in Seq(S)
  PROVE  IsSeq(s)
<1>1. \A i \in 1 .. Len(s) : s[i] \in Range(s)
  BY DEF Range
<1> QED
  BY <1>1 DEF IsSeq

\* The sequence without elements.
LEMMA NoneIsSeq == IsSeq(<<>>)
<1> DEFINE R == Range(<<>>)
<1>1. <<>> \in Seq(R)
  <2> HIDE DEF R
  <2> QED
    OBVIOUS
<1> QED
  BY <1>1, Zenon DEF IsSeq

\* Append (the lists of a graph only grow at the end).
LEMMA AppendSeq ==
  ASSUME NEW s, IsSeq(s), NEW x
  PROVE  /\ IsSeq(Append(s, x)) /\ Len(Append(s, x)) = Len(s) + 1 /\ Len(s) \in Nat
         /\ Append(s, x)[Len(s) + 1] = x
         /\ \A i \in 1 .. Len(s) : Append(s, x)[i] = s[i]
<1> DEFINE S == Range(s) \cup {x}
<1>1. s \in Seq(S)
  <2>1. s \in Seq(Range(s)) /\ Range(s) \subseteq S
    BY DEF IsSeq
  <2> HIDE DEF S
  <2> QED
    BY <2>1
<1>2. x \in S
  OBVIOUS
<1> HIDE DEF S
<1>3. Append(s, x) \in Seq(S)
  BY <1>1, <1>2
<1>4. IsSeq(Append(s, x))
  BY <1>3, IsSeqOver
<1> QED
  BY <1>1, <1>2, <1>4

\* An element in the place of another.
LEMMA ChangeSeq ==
  ASSUME NEW s, IsSeq(s), NEW k \in 1 .. Len(s), NEW x
  PROVE  /\ IsSeq([s EXCEPT ![k] = x]) /\ Len([s EXCEPT ![k] = x]) = Len(s) /\ Len(s) \in Nat
         /\ [s EXCEPT ![k] = x][k] = x
         /\ \A i \in 1 .. Len(s) : i # k => [s EXCEPT ![k] = x][i] = s[i]
<1> DEFINE S == Range(s) \cup {x}
<1>1. s \in Seq(S)
  <2>1. s \in Seq(Range(s)) /\ Range(s) \subseteq S
    BY DEF IsSeq
  <2> HIDE DEF S
  <2> QED
    BY <2>1
<1>2. x \in S
  OBVIOUS
<1> HIDE DEF S
<1>3. [s EXCEPT ![k] = x] \in Seq(S)
  BY <1>1, <1>2
<1>4. IsSeq([s EXCEPT ![k] = x])
  BY <1>3, IsSeqOver
<1> QED
  BY <1>1, <1>2, <1>3, <1>4

\* A sequence without its last element.
LEMMA FrontSeq ==
  ASSUME NEW s, IsSeq(s), Len(s) > 0
  PROVE  /\ IsSeq(Front(s)) /\ Len(Front(s)) = Len(s) - 1 /\ Len(s) \in Nat
         /\ \A i \in 1 .. Len(s) - 1 : Front(s)[i] = s[i]
<1> DEFINE S == Range(s)
<1>1. s \in Seq(S)
  BY DEF IsSeq
<1> HIDE DEF S
<1>2. SubSeq(s, 1, Len(s) - 1) \in Seq(S)
  BY <1>1
<1>3. IsSeq(SubSeq(s, 1, Len(s) - 1))
  BY <1>2, IsSeqOver
<1>6. Len(s) \in Nat /\ Len(s) - 1 \in 0 .. Len(s)
  BY <1>1
<1>7. \A i \in 1 .. Len(s) - 1 : s[i] \in S
  BY <1>1
<1>4. Len(SubSeq(s, 1, Len(s) - 1)) = Len(s) - 1
  <2> DEFINE k == Len(s) - 1
  <2>1. k \in Nat /\ 1 \in Int /\ \A i \in 1 .. k : s[i] \in S
    BY <1>6, <1>7
  <2> HIDE DEF k
  <2>2. Len(SubSeq(s, 1, k)) = IF 1 <= k THEN k - 1 + 1 ELSE 0
    BY <2>1, SubSeqProperties
  <2>3. Len(SubSeq(s, 1, k)) = k
    BY <2>1, <2>2
  <2> QED
    BY <2>3, Zenon DEF k
<1>5. \A i \in 1 .. Len(s) - 1 : SubSeq(s, 1, Len(s) - 1)[i] = s[i]
  BY <1>1
<1> QED
  BY <1>3, <1>4, <1>5, <1>6 DEF Front

\* find_region returns a place in the list of names, or none.
LEMMA FindRegion ==
  ASSUME NEW s, IsSeq(s.names.regions), NEW x
  PROVE  find_region(s, x) \in 0 .. Len(s.names.regions)
<1> DEFINE I == {i \in 1 .. Len(s.names.regions) : s.names.regions[i] = x}
<1>1. find_region(s, x) = IF I # {} THEN Min(I) ELSE 0
  BY DEF find_region, SelectInSeq
<1>2. Len(s.names.regions) \in Nat /\ I \subseteq 1 .. Len(s.names.regions)
  BY SeqIs
<1> HIDE DEF I
<1> QED
  BY <1>1, <1>2, FirstIs

\* find_node returns an id that the list of names holds, or none.
LEMMA FindNode ==
  ASSUME NEW s, IsSeq(s.names.nodes), NEW x
  PROVE  find_node(s, x) = 0 \/ \E i \in 1 .. Len(s.names.nodes) : find_node(s, x) = s.names.nodes[i].id
<1> DEFINE I == {i \in 1 .. Len(s.names.nodes) : s.names.nodes[i].name = x}
           k == IF I # {} THEN Min(I) ELSE 0
<1>1. find_node(s, x) = IF k = 0 THEN Invalid ELSE s.names.nodes[k].id
  BY DEF find_node, SelectInSeq
<1>2. Len(s.names.nodes) \in Nat /\ I \subseteq 1 .. Len(s.names.nodes)
  BY SeqIs
<1> HIDE DEF I
<1>3. k \in 0 .. Len(s.names.nodes)
  BY <1>2, FirstIs
<1> HIDE DEF k
<1> QED
  BY <1>1, <1>2, <1>3 DEF Invalid

\* find_port returns an id that the list of names holds, or none.
LEMMA FindPort ==
  ASSUME NEW s, IsSeq(s.names.ports), NEW x, NEW role
  PROVE  \/ find_port(s, x, role) = 0
         \/ \E i \in 1 .. Len(s.names.ports) : find_port(s, x, role) = s.names.ports[i].id
<1> DEFINE I == {i \in 1 .. Len(s.names.ports) : s.names.ports[i].node = x /\ s.names.ports[i].role = role}
           k == IF I # {} THEN Min(I) ELSE 0
<1>1. find_port(s, x, role) = IF k = 0 THEN Invalid ELSE s.names.ports[k].id
  BY DEF find_port, SelectInSeq
<1>2. Len(s.names.ports) \in Nat /\ I \subseteq 1 .. Len(s.names.ports)
  BY SeqIs
<1> HIDE DEF I
<1>3. k \in 0 .. Len(s.names.ports)
  BY <1>2, FirstIs
<1> HIDE DEF k
<1> QED
  BY <1>1, <1>2, <1>3 DEF Invalid

-----------------------------------------------------------------------------
(* Graphs.                                                                 *)

Regions(g) == 1 .. Len(g.regions)
Nodes(g) == 1 .. Len(g.nodes)
Ports(g) == 1 .. Len(g.ports)

IsRegion(v) == v = [parent |-> v.parent, members |-> v.members] /\ IsSeq(v.members)
IsNode(v) ==
  /\ v = [kind |-> v.kind, region |-> v.region, attr |-> v.attr, bodies |-> v.bodies,
          listed |-> v.listed, ports |-> v.ports, cyclic_order |-> v.cyclic_order]
  /\ IsSeq(v.ports)
IsGraph(g) ==
  /\ g = [regions |-> g.regions, nodes |-> g.nodes, ports |-> g.ports, edges |-> g.edges,
          root_region |-> g.root_region, output_node |-> g.output_node]
  /\ IsSeq(g.regions) /\ IsSeq(g.nodes) /\ IsSeq(g.ports) /\ IsSeq(g.edges)
  /\ \A r \in Regions(g) : IsRegion(g.regions[r])
  /\ \A n \in Nodes(g) : IsNode(g.nodes[n])

\* Every node is listed by the region it is in, once, and by no other; every port
\* by its owner; edges connect ports.
MembersOK(regions, nodes) ==
  /\ \A n \in 1 .. Len(nodes) :
       /\ nodes[n].region \in 1 .. Len(regions)
       /\ \E i \in 1 .. Len(regions[nodes[n].region].members) : regions[nodes[n].region].members[i] = n
  /\ \A r \in 1 .. Len(regions) : \A i \in 1 .. Len(regions[r].members) :
       /\ regions[r].members[i] \in 1 .. Len(nodes)
       /\ nodes[regions[r].members[i]].region = r
       /\ \A j \in 1 .. Len(regions[r].members) : regions[r].members[j] = regions[r].members[i] => j = i
PortsOK(nodes, ports) ==
  \A p \in 1 .. Len(ports) :
    /\ ports[p].owner \in 1 .. Len(nodes)
    /\ \E i \in 1 .. Len(nodes[ports[p].owner].ports) : nodes[ports[p].owner].ports[i] = p
EdgesOK(ports, edges) ==
  \A i \in 1 .. Len(edges) : \E a, b \in 1 .. Len(ports) : edges[i] = <<a, b>>
GraphOK(g) ==
  IsGraph(g) /\ MembersOK(g.regions, g.nodes) /\ PortsOK(g.nodes, g.ports) /\ EdgesOK(g.ports, g.edges)

\* The lengths of a graph.
LEMMA GraphLengths ==
  ASSUME NEW g, IsGraph(g)
  PROVE  /\ Len(g.regions) \in Nat /\ Len(g.nodes) \in Nat /\ Len(g.ports) \in Nat /\ Len(g.edges) \in Nat
         /\ DOMAIN g.regions = Regions(g) /\ DOMAIN g.nodes = Nodes(g) /\ DOMAIN g.ports = Ports(g)
         /\ DOMAIN g.edges = 1 .. Len(g.edges)
  BY SeqIs DEF IsGraph, Regions, Nodes, Ports

\* h has the fields of g but for the named one.
LEMMA WithRegions ==
  ASSUME NEW g, IsGraph(g), NEW s, IsSeq(s), \A r \in 1 .. Len(s) : IsRegion(s[r])
  PROVE  LET h == [g EXCEPT !.regions = s] IN
         /\ IsGraph(h) /\ h.regions = s /\ h.nodes = g.nodes /\ h.ports = g.ports /\ h.edges = g.edges
<1> DEFINE h == [g EXCEPT !.regions = s]
<1>1. h = [regions |-> s, nodes |-> g.nodes, ports |-> g.ports, edges |-> g.edges,
           root_region |-> g.root_region, output_node |-> g.output_node]
  BY DEF IsGraph
<1> HIDE DEF h
<1>2. /\ h.regions = s /\ h.nodes = g.nodes /\ h.ports = g.ports /\ h.edges = g.edges
      /\ h.root_region = g.root_region /\ h.output_node = g.output_node
  BY <1>1
<1>3. IsGraph(h)
  BY <1>1, <1>2 DEF IsGraph, Regions, Nodes
<1> QED
  BY <1>2, <1>3 DEF h

\* The same for the nodes.
LEMMA WithNodes ==
  ASSUME NEW g, IsGraph(g), NEW s, IsSeq(s), \A n \in 1 .. Len(s) : IsNode(s[n])
  PROVE  LET h == [g EXCEPT !.nodes = s] IN
         /\ IsGraph(h) /\ h.nodes = s /\ h.regions = g.regions /\ h.ports = g.ports /\ h.edges = g.edges
<1> DEFINE h == [g EXCEPT !.nodes = s]
<1>1. h = [regions |-> g.regions, nodes |-> s, ports |-> g.ports, edges |-> g.edges,
           root_region |-> g.root_region, output_node |-> g.output_node]
  BY DEF IsGraph
<1> HIDE DEF h
<1>2. /\ h.regions = g.regions /\ h.nodes = s /\ h.ports = g.ports /\ h.edges = g.edges
      /\ h.root_region = g.root_region /\ h.output_node = g.output_node
  BY <1>1
<1>3. IsGraph(h)
  BY <1>1, <1>2 DEF IsGraph, Regions, Nodes
<1> QED
  BY <1>2, <1>3 DEF h

\* The same for the ports.
LEMMA WithPorts ==
  ASSUME NEW g, IsGraph(g), NEW s, IsSeq(s)
  PROVE  LET h == [g EXCEPT !.ports = s] IN
         /\ IsGraph(h) /\ h.ports = s /\ h.regions = g.regions /\ h.nodes = g.nodes /\ h.edges = g.edges
<1> DEFINE h == [g EXCEPT !.ports = s]
<1>1. h = [regions |-> g.regions, nodes |-> g.nodes, ports |-> s, edges |-> g.edges,
           root_region |-> g.root_region, output_node |-> g.output_node]
  BY DEF IsGraph
<1> HIDE DEF h
<1>2. /\ h.regions = g.regions /\ h.nodes = g.nodes /\ h.ports = s /\ h.edges = g.edges
      /\ h.root_region = g.root_region /\ h.output_node = g.output_node
  BY <1>1
<1>3. IsGraph(h)
  BY <1>1, <1>2 DEF IsGraph, Regions, Nodes
<1> QED
  BY <1>2, <1>3 DEF h

\* The same for the edges.
LEMMA WithEdges ==
  ASSUME NEW g, IsGraph(g), NEW s, IsSeq(s)
  PROVE  LET h == [g EXCEPT !.edges = s] IN
         /\ IsGraph(h) /\ h.edges = s /\ h.regions = g.regions /\ h.nodes = g.nodes /\ h.ports = g.ports
<1> DEFINE h == [g EXCEPT !.edges = s]
<1>1. h = [regions |-> g.regions, nodes |-> g.nodes, ports |-> g.ports, edges |-> s,
           root_region |-> g.root_region, output_node |-> g.output_node]
  BY DEF IsGraph
<1> HIDE DEF h
<1>2. /\ h.regions = g.regions /\ h.nodes = g.nodes /\ h.ports = g.ports /\ h.edges = s
      /\ h.root_region = g.root_region /\ h.output_node = g.output_node
  BY <1>1
<1>3. IsGraph(h)
  BY <1>1, <1>2 DEF IsGraph, Regions, Nodes
<1> QED
  BY <1>2, <1>3 DEF h

\* Which region is the root and which node the output does not matter.
LEMMA WithRoot ==
  ASSUME NEW g, GraphOK(g), NEW x
  PROVE  /\ GraphOK([g EXCEPT !.root_region = x]) /\ GraphOK([g EXCEPT !.output_node = x])
         /\ Len([g EXCEPT !.root_region = x].regions) = Len(g.regions)
         /\ Len([g EXCEPT !.root_region = x].nodes) = Len(g.nodes)
         /\ Len([g EXCEPT !.root_region = x].ports) = Len(g.ports)
         /\ Len([g EXCEPT !.output_node = x].regions) = Len(g.regions)
         /\ Len([g EXCEPT !.output_node = x].nodes) = Len(g.nodes)
         /\ Len([g EXCEPT !.output_node = x].ports) = Len(g.ports)
<1> DEFINE h == [g EXCEPT !.root_region = x]
           k == [g EXCEPT !.output_node = x]
<1>1. h = [regions |-> g.regions, nodes |-> g.nodes, ports |-> g.ports, edges |-> g.edges,
           root_region |-> x, output_node |-> g.output_node]
  BY DEF GraphOK, IsGraph
<1>2. k = [regions |-> g.regions, nodes |-> g.nodes, ports |-> g.ports, edges |-> g.edges,
           root_region |-> g.root_region, output_node |-> x]
  BY DEF GraphOK, IsGraph
<1> HIDE DEF h, k
<1>3. /\ h.regions = g.regions /\ h.nodes = g.nodes /\ h.ports = g.ports /\ h.edges = g.edges
      /\ k.regions = g.regions /\ k.nodes = g.nodes /\ k.ports = g.ports /\ k.edges = g.edges
      /\ h.root_region = x /\ h.output_node = g.output_node
      /\ k.root_region = g.root_region /\ k.output_node = x
  BY <1>1, <1>2
<1>4. IsGraph(h) /\ IsGraph(k)
  BY <1>1, <1>2, <1>3 DEF GraphOK, IsGraph, Regions, Nodes
<1>7. GraphOK(h) /\ GraphOK(k)
  BY <1>3, <1>4 DEF GraphOK
<1> QED
  BY <1>3, <1>7 DEF h, k

\* What the operations on a graph leave: the numbers of its regions, nodes and ports
\* are those given.
Becoming(h, regions, nodes, ports) ==
  GraphOK(h) /\ Len(h.regions) = regions /\ Len(h.nodes) = nodes /\ Len(h.ports) = ports

\* arc_graph_add_region keeps a graph right: nothing is in the new region.
LEMMA AddRegion ==
  ASSUME NEW g, GraphOK(g), NEW parent
  PROVE  Becoming(arc_graph_add_region(g, parent), Len(g.regions) + 1, Len(g.nodes), Len(g.ports))
<1> DEFINE v == [parent |-> parent, members |-> <<>>]
           s == Append(g.regions, v)
           h == arc_graph_add_region(g, parent)
<1>1. IsGraph(g) /\ IsSeq(g.regions) /\ Len(g.regions) \in Nat
  BY GraphLengths DEF GraphOK, IsGraph
<1>2. IsRegion(v) /\ v.members = <<>>
  BY NoneIsSeq DEF IsRegion
<1>10. Len(v.members) = 0
  BY <1>2
<1>3. h = [g EXCEPT !.regions = s]
  BY <1>1 DEF arc_graph_add_region, IsGraph
<1> HIDE DEF v, s, h
<1>4. /\ IsSeq(s) /\ Len(s) = Len(g.regions) + 1 /\ s[Len(g.regions) + 1] = v
      /\ \A i \in 1 .. Len(g.regions) : s[i] = g.regions[i]
  BY <1>1, AppendSeq DEF s
<1>5. \A r \in 1 .. Len(s) : IsRegion(s[r])
  BY <1>1, <1>2, <1>4 DEF IsGraph, Regions
<1>6. /\ IsGraph(h) /\ h.regions = s /\ h.nodes = g.nodes /\ h.ports = g.ports /\ h.edges = g.edges
  BY <1>1, <1>3, <1>4, <1>5, WithRegions
<1>7. MembersOK(g.regions, g.nodes)
  BY DEF GraphOK
<1>8. MembersOK(s, g.nodes)
  <2>1. ASSUME NEW n \in 1 .. Len(g.nodes)
        PROVE  /\ g.nodes[n].region \in 1 .. Len(s)
               /\ \E i \in 1 .. Len(s[g.nodes[n].region].members) : s[g.nodes[n].region].members[i] = n
    <3>1. /\ g.nodes[n].region \in 1 .. Len(g.regions)
          /\ \E i \in 1 .. Len(g.regions[g.nodes[n].region].members) :
               g.regions[g.nodes[n].region].members[i] = n
      BY <1>7 DEF MembersOK
    <3>2. s[g.nodes[n].region] = g.regions[g.nodes[n].region] /\ g.nodes[n].region \in 1 .. Len(s)
      BY <1>1, <1>4, <3>1
    <3> QED
      BY <3>1, <3>2
  <2>2. ASSUME NEW r \in 1 .. Len(s), NEW i \in 1 .. Len(s[r].members)
        PROVE  /\ s[r].members[i] \in 1 .. Len(g.nodes)
               /\ g.nodes[s[r].members[i]].region = r
               /\ \A j \in 1 .. Len(s[r].members) : s[r].members[j] = s[r].members[i] => j = i
    <3>1. r # Len(g.regions) + 1
      BY <1>10, <1>4
    <3>2. r \in 1 .. Len(g.regions) /\ s[r] = g.regions[r]
      BY <1>1, <1>4, <3>1
    <3> QED
      BY <1>7, <3>2 DEF MembersOK
  <2> QED
    BY <2>1, <2>2 DEF MembersOK
<1> QED
  BY <1>4, <1>6, <1>8 DEF Becoming, GraphOK, h

\* arc_graph_add_edge keeps a graph right.
LEMMA AddEdge ==
  ASSUME NEW g, GraphOK(g), NEW a \in Ports(g), NEW b \in Ports(g)
  PROVE  Becoming(arc_graph_add_edge(g, a, b), Len(g.regions), Len(g.nodes), Len(g.ports))
<1> DEFINE v == <<a, b>>
           s == Append(g.edges, v)
           h == arc_graph_add_edge(g, a, b)
<1>1. IsGraph(g) /\ IsSeq(g.edges) /\ Len(g.edges) \in Nat
  BY GraphLengths DEF GraphOK, IsGraph
<1>3. h = [g EXCEPT !.edges = s]
  BY <1>1 DEF arc_graph_add_edge, IsGraph
<1> HIDE DEF s, h
<1>4. /\ IsSeq(s) /\ Len(s) = Len(g.edges) + 1 /\ s[Len(g.edges) + 1] = v
      /\ \A i \in 1 .. Len(g.edges) : s[i] = g.edges[i]
  BY <1>1, AppendSeq DEF s
<1>6. /\ IsGraph(h) /\ h.edges = s /\ h.regions = g.regions /\ h.nodes = g.nodes /\ h.ports = g.ports
  BY <1>1, <1>3, <1>4, WithEdges
<1>7. EdgesOK(g.ports, g.edges) /\ a \in 1 .. Len(g.ports) /\ b \in 1 .. Len(g.ports)
  BY DEF GraphOK, Ports
<1>8. ASSUME NEW i \in 1 .. Len(s) PROVE \E x, y \in 1 .. Len(g.ports) : s[i] = <<x, y>>
  <2>1. CASE i = Len(g.edges) + 1
    BY <1>4, <1>7, <2>1
  <2>2. CASE i # Len(g.edges) + 1
    <3>1. i \in 1 .. Len(g.edges) /\ s[i] = g.edges[i]
      BY <1>1, <1>4, <2>2
    <3> QED
      BY <1>7, <3>1 DEF EdgesOK
  <2> QED
    BY <2>1, <2>2
<1>9. EdgesOK(g.ports, s)
  BY <1>8 DEF EdgesOK
<1> QED
  BY <1>6, <1>9 DEF Becoming, GraphOK, h

\* A field of a node, changed.
LEMMA NodeFields ==
  ASSUME NEW w, IsNode(w), NEW x
  PROVE  /\ LET v == [w EXCEPT !.cyclic_order = x] IN
            IsNode(v) /\ v.region = w.region /\ v.ports = w.ports
         /\ LET v == [w EXCEPT !.attr = x] IN
            IsNode(v) /\ v.region = w.region /\ v.ports = w.ports
         /\ LET v == [w EXCEPT !.bodies = x] IN
            IsNode(v) /\ v.region = w.region /\ v.ports = w.ports
         /\ LET v == [w EXCEPT !.listed = x] IN
            IsNode(v) /\ v.region = w.region /\ v.ports = w.ports
<1>1. LET v == [w EXCEPT !.cyclic_order = x] IN IsNode(v) /\ v.region = w.region /\ v.ports = w.ports
  <2> DEFINE v == [w EXCEPT !.cyclic_order = x]
  <2>1. v = [kind |-> w.kind, region |-> w.region, attr |-> w.attr, bodies |-> w.bodies,
             listed |-> w.listed, ports |-> w.ports, cyclic_order |-> x]
    BY DEF IsNode
  <2> HIDE DEF v
  <2> QED
    BY <2>1 DEF IsNode, v
<1>2. LET v == [w EXCEPT !.attr = x] IN IsNode(v) /\ v.region = w.region /\ v.ports = w.ports
  <2> DEFINE v == [w EXCEPT !.attr = x]
  <2>1. v = [kind |-> w.kind, region |-> w.region, attr |-> x, bodies |-> w.bodies,
             listed |-> w.listed, ports |-> w.ports, cyclic_order |-> w.cyclic_order]
    BY DEF IsNode
  <2> HIDE DEF v
  <2> QED
    BY <2>1 DEF IsNode, v
<1>3. LET v == [w EXCEPT !.bodies = x] IN IsNode(v) /\ v.region = w.region /\ v.ports = w.ports
  <2> DEFINE v == [w EXCEPT !.bodies = x]
  <2>1. v = [kind |-> w.kind, region |-> w.region, attr |-> w.attr, bodies |-> x,
             listed |-> w.listed, ports |-> w.ports, cyclic_order |-> w.cyclic_order]
    BY DEF IsNode
  <2> HIDE DEF v
  <2> QED
    BY <2>1 DEF IsNode, v
<1>4. LET v == [w EXCEPT !.listed = x] IN IsNode(v) /\ v.region = w.region /\ v.ports = w.ports
  <2> DEFINE v == [w EXCEPT !.listed = x]
  <2>1. v = [kind |-> w.kind, region |-> w.region, attr |-> w.attr, bodies |-> w.bodies,
             listed |-> x, ports |-> w.ports, cyclic_order |-> w.cyclic_order]
    BY DEF IsNode
  <2> HIDE DEF v
  <2> QED
    BY <2>1 DEF IsNode, v
<1> QED
  BY <1>1, <1>2, <1>3, <1>4

\* A node with other ports is a node.
LEMMA NodePorts ==
  ASSUME NEW w, IsNode(w), NEW x, IsSeq(x)
  PROVE  LET v == [w EXCEPT !.ports = x] IN IsNode(v) /\ v.region = w.region /\ v.ports = x
<1> DEFINE v == [w EXCEPT !.ports = x]
<1>1. v = [kind |-> w.kind, region |-> w.region, attr |-> w.attr, bodies |-> w.bodies,
           listed |-> w.listed, ports |-> x, cyclic_order |-> w.cyclic_order]
  BY DEF IsNode
<1> HIDE DEF v
<1> QED
  BY <1>1 DEF IsNode, v

\* A node in another region is a node.
LEMMA NodeRegion ==
  ASSUME NEW w, IsNode(w), NEW x
  PROVE  LET v == [w EXCEPT !.region = x] IN IsNode(v) /\ v.region = x /\ v.ports = w.ports
<1> DEFINE v == [w EXCEPT !.region = x]
<1>1. v = [kind |-> w.kind, region |-> x, attr |-> w.attr, bodies |-> w.bodies,
           listed |-> w.listed, ports |-> w.ports, cyclic_order |-> w.cyclic_order]
  BY DEF IsNode
<1> HIDE DEF v
<1> QED
  BY <1>1 DEF IsNode, v

\* A node, changed.
NodeChanged(h, g, n, v) ==
  /\ IsGraph(h) /\ h.regions = g.regions /\ h.ports = g.ports /\ h.edges = g.edges
  /\ Len(h.nodes) = Len(g.nodes) /\ h.nodes[n] = v
  /\ \A k \in Nodes(g) : k # n => h.nodes[k] = g.nodes[k]

\* A node in the place of another leaves a graph.
LEMMA ChangeNode ==
  ASSUME NEW g, IsGraph(g), NEW n \in Nodes(g), NEW v, IsNode(v)
  PROVE  NodeChanged([g EXCEPT !.nodes[n] = v], g, n, v)
<1> DEFINE s == [g.nodes EXCEPT ![n] = v]
           h == [g EXCEPT !.nodes[n] = v]
<1>1. IsSeq(g.nodes) /\ Len(g.nodes) \in Nat /\ n \in 1 .. Len(g.nodes)
  BY GraphLengths DEF IsGraph, Nodes
<1>2. h = [g EXCEPT !.nodes = s]
  BY DEF IsGraph
<1> HIDE DEF s, h
<1>3. /\ IsSeq(s) /\ Len(s) = Len(g.nodes) /\ s[n] = v
      /\ \A i \in 1 .. Len(g.nodes) : i # n => s[i] = g.nodes[i]
  BY <1>1, ChangeSeq DEF s
<1>4. \A k \in 1 .. Len(s) : IsNode(s[k])
  BY <1>3 DEF IsGraph, Nodes
<1>5. IsGraph(h) /\ h.nodes = s /\ h.regions = g.regions /\ h.ports = g.ports /\ h.edges = g.edges
  BY <1>2, <1>3, <1>4, WithNodes
<1> QED
  BY <1>3, <1>5 DEF NodeChanged, Nodes, h

\* Only the regions of the nodes matter to the lists.
LEMMA MembersKept ==
  ASSUME NEW regions, NEW nodes, NEW others, MembersOK(regions, nodes), Len(others) = Len(nodes),
         \A k \in 1 .. Len(nodes) : others[k].region = nodes[k].region
  PROVE  MembersOK(regions, others)
<1>1. ASSUME NEW r \in 1 .. Len(regions), NEW i \in 1 .. Len(regions[r].members)
      PROVE  /\ regions[r].members[i] \in 1 .. Len(others)
             /\ others[regions[r].members[i]].region = r
             /\ \A j \in 1 .. Len(regions[r].members) : regions[r].members[j] = regions[r].members[i] => j = i
  <2>1. /\ regions[r].members[i] \in 1 .. Len(nodes)
        /\ nodes[regions[r].members[i]].region = r
        /\ \A j \in 1 .. Len(regions[r].members) : regions[r].members[j] = regions[r].members[i] => j = i
    BY DEF MembersOK
  <2> QED
    BY <2>1
<1>2. ASSUME NEW k \in 1 .. Len(others)
      PROVE  /\ others[k].region \in 1 .. Len(regions)
             /\ \E i \in 1 .. Len(regions[others[k].region].members) : regions[others[k].region].members[i] = k
  <2>1. k \in 1 .. Len(nodes) /\ others[k].region = nodes[k].region
    OBVIOUS
  <2> QED
    BY <2>1 DEF MembersOK
<1> QED
  BY <1>1, <1>2 DEF MembersOK

\* One that keeps its region and its ports changes nothing.
LEMMA KeepNode ==
  ASSUME NEW g, GraphOK(g), NEW n \in Nodes(g), NEW v, IsNode(v),
         v.region = g.nodes[n].region, v.ports = g.nodes[n].ports
  PROVE  Becoming([g EXCEPT !.nodes[n] = v], Len(g.regions), Len(g.nodes), Len(g.ports))
<1> DEFINE h == [g EXCEPT !.nodes[n] = v]
<1>1. NodeChanged(h, g, n, v)
  BY ChangeNode DEF GraphOK
<1> HIDE DEF h
<1>2. /\ IsGraph(h) /\ h.regions = g.regions /\ h.ports = g.ports /\ h.edges = g.edges
      /\ Len(h.nodes) = Len(g.nodes)
      /\ \A k \in 1 .. Len(g.nodes) : h.nodes[k].region = g.nodes[k].region /\ h.nodes[k].ports = g.nodes[k].ports
  BY <1>1 DEF NodeChanged, Nodes
<1>3. MembersOK(g.regions, h.nodes)
  BY <1>2, MembersKept DEF GraphOK
<1>4. PortsOK(h.nodes, g.ports)
  <2>1. PortsOK(g.nodes, g.ports)
    BY DEF GraphOK
  <2>2. ASSUME NEW p \in 1 .. Len(g.ports)
        PROVE  /\ g.ports[p].owner \in 1 .. Len(h.nodes)
               /\ \E i \in 1 .. Len(h.nodes[g.ports[p].owner].ports) : h.nodes[g.ports[p].owner].ports[i] = p
    <3>1. /\ g.ports[p].owner \in 1 .. Len(g.nodes)
          /\ \E i \in 1 .. Len(g.nodes[g.ports[p].owner].ports) : g.nodes[g.ports[p].owner].ports[i] = p
      BY <2>1 DEF PortsOK
    <3>2. h.nodes[g.ports[p].owner].ports = g.nodes[g.ports[p].owner].ports
      BY <1>2, <3>1
    <3> QED
      BY <1>2, <3>1, <3>2
  <2> QED
    BY <2>2 DEF PortsOK
<1> QED
  BY <1>2, <1>3, <1>4 DEF Becoming, GraphOK, h

\* arc_node_set_cyclic_order keeps a graph right.
LEMMA SetCyclicOrder ==
  ASSUME NEW g, GraphOK(g), NEW n \in Nodes(g), NEW order
  PROVE  Becoming(arc_node_set_cyclic_order(g, n, order), Len(g.regions), Len(g.nodes), Len(g.ports))
<1> DEFINE v == [g.nodes[n] EXCEPT !.cyclic_order = order]
<1>1. IsNode(v) /\ v.region = g.nodes[n].region /\ v.ports = g.nodes[n].ports
  BY NodeFields DEF GraphOK, IsGraph
<1>2. arc_node_set_cyclic_order(g, n, order) = [g EXCEPT !.nodes[n] = v]
  BY DEF arc_node_set_cyclic_order
<1> HIDE DEF v
<1> QED
  BY <1>1, <1>2, KeepNode

\* The list of a region, changed.
MembersBecome(h, g, r, m) ==
  /\ IsGraph(h) /\ h.nodes = g.nodes /\ h.ports = g.ports /\ h.edges = g.edges
  /\ Len(h.regions) = Len(g.regions) /\ h.regions[r].members = m
  /\ h.regions[r].parent = g.regions[r].parent /\ h.root_region = g.root_region
  /\ \A k \in Regions(g) : k # r => h.regions[k] = g.regions[k]

\* Other members of a region leave a graph.
LEMMA ChangeMembers ==
  ASSUME NEW g, IsGraph(g), NEW r \in Regions(g), NEW m, IsSeq(m)
  PROVE  MembersBecome([g EXCEPT !.regions[r].members = m], g, r, m)
<1> DEFINE v == [g.regions[r] EXCEPT !.members = m]
           s == [g.regions EXCEPT ![r] = v]
           h == [g EXCEPT !.regions[r].members = m]
<1>1. IsSeq(g.regions) /\ Len(g.regions) \in Nat /\ r \in 1 .. Len(g.regions)
  BY GraphLengths DEF IsGraph, Regions
<1>2. h = [g EXCEPT !.regions = s]
  BY DEF IsGraph
<1>6. IsRegion(v) /\ v.members = m /\ v.parent = g.regions[r].parent
  <2>1. IsRegion(g.regions[r])
    BY DEF IsGraph
  <2>2. v = [parent |-> g.regions[r].parent, members |-> m]
    BY <2>1 DEF IsRegion
  <2> HIDE DEF v
  <2> QED
    BY <2>2 DEF IsRegion
<1> HIDE DEF v, s, h
<1>3. /\ IsSeq(s) /\ Len(s) = Len(g.regions) /\ s[r] = v
      /\ \A i \in 1 .. Len(g.regions) : i # r => s[i] = g.regions[i]
  BY <1>1, ChangeSeq DEF s
<1>4. \A k \in 1 .. Len(s) : IsRegion(s[k])
  BY <1>3, <1>6 DEF IsGraph, Regions
<1>5. IsGraph(h) /\ h.regions = s /\ h.nodes = g.nodes /\ h.ports = g.ports /\ h.edges = g.edges
  BY <1>2, <1>3, <1>4, WithRegions
<1>7. h.root_region = g.root_region
  BY <1>2 DEF IsGraph
<1> QED
  BY <1>3, <1>5, <1>6, <1>7 DEF MembersBecome, Regions, h

\* arc_graph_add_port keeps a graph right: the owner lists the new port.
LEMMA AddPort ==
  ASSUME NEW g, GraphOK(g), NEW n \in Nodes(g), NEW dir
  PROVE  Becoming(arc_graph_add_port(g, n, dir), Len(g.regions), Len(g.nodes), Len(g.ports) + 1)
<1> DEFINE p == Len(g.ports) + 1
           port == [owner |-> n, dir |-> dir]
           s == Append(g.ports, port)
           mine == Append(g.nodes[n].ports, p)
           v == [g.nodes[n] EXCEPT !.ports = mine]
           k == [g EXCEPT !.ports = s]
           h == arc_graph_add_port(g, n, dir)
<1>1. IsGraph(g) /\ IsSeq(g.ports) /\ Len(g.ports) \in Nat /\ IsNode(g.nodes[n]) /\ IsSeq(g.nodes[n].ports)
  BY GraphLengths DEF GraphOK, IsGraph, IsNode
<1>2. h = [k EXCEPT !.nodes[n] = v]
  BY <1>1 DEF arc_graph_add_port, IsGraph
<1>3. port.owner = n
  OBVIOUS
<1> HIDE DEF port, s, mine, v, k, h
<1>4. /\ IsSeq(s) /\ Len(s) = p /\ s[p] = port
      /\ \A i \in 1 .. Len(g.ports) : s[i] = g.ports[i]
  BY <1>1, AppendSeq DEF s
<1>5. /\ IsSeq(mine) /\ Len(mine) = Len(g.nodes[n].ports) + 1 /\ Len(g.nodes[n].ports) \in Nat
      /\ mine[Len(g.nodes[n].ports) + 1] = p
      /\ \A i \in 1 .. Len(g.nodes[n].ports) : mine[i] = g.nodes[n].ports[i]
  BY <1>1, AppendSeq DEF mine
<1>6. IsNode(v) /\ v.region = g.nodes[n].region /\ v.ports = mine
  BY <1>1, <1>5, NodePorts DEF v
<1>7. IsGraph(k) /\ k.ports = s /\ k.regions = g.regions /\ k.nodes = g.nodes /\ k.edges = g.edges
  BY <1>1, <1>4, WithPorts DEF k
<1>8. NodeChanged(h, k, n, v)
  BY <1>2, <1>6, <1>7, ChangeNode DEF Nodes
<1>9. /\ IsGraph(h) /\ h.regions = g.regions /\ h.ports = s /\ h.edges = g.edges
      /\ Len(h.nodes) = Len(g.nodes) /\ h.nodes[n] = v
      /\ \A i \in 1 .. Len(g.nodes) : i # n => h.nodes[i] = g.nodes[i]
  BY <1>7, <1>8 DEF NodeChanged, Nodes
<1>10. n \in 1 .. Len(g.nodes)
  BY DEF Nodes
<1>11. \A i \in 1 .. Len(g.nodes) : h.nodes[i].region = g.nodes[i].region
  BY <1>6, <1>9
<1>12. MembersOK(g.regions, h.nodes)
  BY <1>9, <1>11, MembersKept DEF GraphOK
<1>13. PortsOK(h.nodes, s)
  <2>1. PortsOK(g.nodes, g.ports)
    BY DEF GraphOK
  <2> SUFFICES ASSUME NEW q \in 1 .. Len(s)
               PROVE  /\ s[q].owner \in 1 .. Len(h.nodes)
                      /\ \E i \in 1 .. Len(h.nodes[s[q].owner].ports) : h.nodes[s[q].owner].ports[i] = q
    BY DEF PortsOK
  <2>2. CASE q = p
    <3>1. s[q].owner = n /\ h.nodes[n].ports = mine
      BY <1>3, <1>4, <1>6, <1>9, <2>2
    <3>2. Len(g.nodes[n].ports) + 1 \in 1 .. Len(mine)
      BY <1>5
    <3> QED
      BY <1>5, <1>9, <1>10, <2>2, <3>1, <3>2
  <2>3. CASE q # p
    <3>1. q \in 1 .. Len(g.ports) /\ s[q] = g.ports[q]
      BY <1>1, <1>4, <2>3
    <3> DEFINE o == g.ports[q].owner
    <3>2. o \in 1 .. Len(g.nodes) /\ \E i \in 1 .. Len(g.nodes[o].ports) : g.nodes[o].ports[i] = q
      BY <2>1, <3>1 DEF PortsOK
    <3> HIDE DEF o
    <3>3. CASE o # n
      <4>1. h.nodes[o] = g.nodes[o]
        BY <1>9, <3>2, <3>3
      <4> QED
        BY <1>9, <3>1, <3>2, <4>1 DEF o
    <3>4. CASE o = n
      <4>1. PICK i \in 1 .. Len(g.nodes[n].ports) : g.nodes[n].ports[i] = q
        BY <3>2, <3>4
      <4>2. i \in 1 .. Len(mine) /\ mine[i] = q
        BY <1>5, <4>1
      <4>3. h.nodes[n].ports = mine
        BY <1>6, <1>9
      <4> QED
        BY <1>9, <1>10, <3>1, <3>4, <4>2, <4>3 DEF o
    <3> QED
      BY <3>3, <3>4
  <2> QED
    BY <2>2, <2>3
<1>14. EdgesOK(s, g.edges)
  <2>1. EdgesOK(g.ports, g.edges) /\ \A a \in 1 .. Len(g.ports) : a \in 1 .. Len(s)
    BY <1>1, <1>4 DEF GraphOK
  <2> QED
    BY <2>1 DEF EdgesOK
<1> QED
  BY <1>4, <1>9, <1>12, <1>13, <1>14 DEF Becoming, GraphOK, h

\* The lists are right but for n, which no region lists.
ExceptFor(regions, nodes, n) ==
  /\ \A k \in 1 .. Len(nodes) : k # n =>
       /\ nodes[k].region \in 1 .. Len(regions)
       /\ \E i \in 1 .. Len(regions[nodes[k].region].members) : regions[nodes[k].region].members[i] = k
  /\ \A r \in 1 .. Len(regions) : \A i \in 1 .. Len(regions[r].members) :
       /\ regions[r].members[i] \in 1 .. Len(nodes) /\ regions[r].members[i] # n
       /\ nodes[regions[r].members[i]].region = r
       /\ \A j \in 1 .. Len(regions[r].members) : regions[r].members[j] = regions[r].members[i] => j = i

\* Then its region may list it.
LEMMA ListNode ==
  ASSUME NEW regions, NEW nodes, NEW n \in 1 .. Len(nodes), ExceptFor(regions, nodes, n),
         NEW r \in 1 .. Len(regions), nodes[n].region = r, IsSeq(regions[r].members),
         NEW others, Len(others) = Len(regions), others[r].members = Append(regions[r].members, n),
         \A q \in 1 .. Len(regions) : q # r => others[q] = regions[q]
  PROVE  MembersOK(others, nodes)
<1> DEFINE m == regions[r].members
           l == others[r].members
<1>1. /\ Len(m) \in Nat /\ Len(l) = Len(m) + 1 /\ l[Len(m) + 1] = n
      /\ \A i \in 1 .. Len(m) : l[i] = m[i]
  BY AppendSeq
<1> HIDE DEF m, l
<1>2. ASSUME NEW k \in 1 .. Len(nodes)
      PROVE  /\ nodes[k].region \in 1 .. Len(others)
             /\ \E i \in 1 .. Len(others[nodes[k].region].members) : others[nodes[k].region].members[i] = k
  <2>1. CASE k = n
    <3>1. Len(m) + 1 \in 1 .. Len(l)
      BY <1>1
    <3> QED
      BY <1>1, <2>1, <3>1 DEF l
  <2>2. CASE k # n
    <3> DEFINE q == nodes[k].region
    <3>1. q \in 1 .. Len(regions) /\ \E i \in 1 .. Len(regions[q].members) : regions[q].members[i] = k
      BY <2>2 DEF ExceptFor
    <3> HIDE DEF q
    <3>2. CASE q # r
      <4>1. others[q] = regions[q]
        BY <3>1, <3>2
      <4> QED
        BY <3>1, <4>1 DEF q
    <3>3. CASE q = r
      <4>1. PICK i \in 1 .. Len(m) : m[i] = k
        BY <3>1, <3>3 DEF m
      <4>2. i \in 1 .. Len(l) /\ l[i] = k
        BY <1>1, <4>1
      <4> QED
        BY <3>1, <3>3, <4>2 DEF q, l
    <3> QED
      BY <3>2, <3>3
  <2> QED
    BY <2>1, <2>2
<1>3. ASSUME NEW q \in 1 .. Len(others), NEW i \in 1 .. Len(others[q].members)
      PROVE  /\ others[q].members[i] \in 1 .. Len(nodes)
             /\ nodes[others[q].members[i]].region = q
             /\ \A j \in 1 .. Len(others[q].members) : others[q].members[j] = others[q].members[i] => j = i
  <2>1. CASE q # r
    <3>1. others[q] = regions[q] /\ q \in 1 .. Len(regions)
      BY <2>1
    <3> QED
      BY <3>1 DEF ExceptFor
  <2>2. CASE q = r
    <3>1. \A j \in 1 .. Len(m) : m[j] \in 1 .. Len(nodes) /\ m[j] # n /\ nodes[m[j]].region = r
      BY DEF ExceptFor, m
    <3>2. \A j, k \in 1 .. Len(m) : m[j] = m[k] => j = k
      BY DEF ExceptFor, m
    <3>5. \A j \in 1 .. Len(l) : (j = Len(m) + 1 /\ l[j] = n) \/ (j \in 1 .. Len(m) /\ l[j] = m[j])
      BY <1>1
    <3>3. \A j \in 1 .. Len(l) : l[j] \in 1 .. Len(nodes) /\ nodes[l[j]].region = r
      <4> TAKE j \in 1 .. Len(l)
      <4>1. CASE l[j] = n
        BY <4>1
      <4>2. CASE l[j] # n
        <5>1. j \in 1 .. Len(m) /\ l[j] = m[j]
          BY <3>5, <4>2
        <5> QED
          BY <3>1, <5>1
      <4> QED
        BY <4>1, <4>2
    <3>4. \A j, k \in 1 .. Len(l) : l[j] = l[k] => j = k
      <4> TAKE j, k \in 1 .. Len(l)
      <4> HAVE l[j] = l[k]
      <4>1. CASE l[j] = n
        <5>1. j \notin 1 .. Len(m) /\ k \notin 1 .. Len(m)
          BY <1>1, <3>1, <4>1
        <5> QED
          BY <3>5, <5>1
      <4>2. CASE l[j] # n
        <5>1. j \in 1 .. Len(m) /\ k \in 1 .. Len(m) /\ m[j] = m[k]
          BY <3>5, <4>2
        <5> QED
          BY <3>2, <5>1
      <4> QED
        BY <4>1, <4>2
    <3> QED
      BY <2>2, <3>3, <3>4 DEF l
  <2> QED
    BY <2>1, <2>2
<1> QED
  BY <1>2, <1>3 DEF MembersOK

\* arc_region_add_member, for a node that the region does not list yet.
LEMMA AddMember ==
  ASSUME NEW g, IsGraph(g), NEW n \in Nodes(g), NEW r \in Regions(g),
         ExceptFor(g.regions, g.nodes, n), g.nodes[n].region = r,
         PortsOK(g.nodes, g.ports), EdgesOK(g.ports, g.edges)
  PROVE  /\ Becoming(arc_region_add_member(g, r, n), Len(g.regions), Len(g.nodes), Len(g.ports))
         /\ arc_region_add_member(g, r, n).nodes = g.nodes
<1> DEFINE m == Append(g.regions[r].members, n)
           h == arc_region_add_member(g, r, n)
<1>1. IsRegion(g.regions[r]) /\ IsSeq(g.regions[r].members)
  BY DEF IsGraph, IsRegion
<1>2. IsSeq(m)
  BY <1>1, AppendSeq
<1>3. h = [g EXCEPT !.regions[r].members = m]
  BY DEF arc_region_add_member
<1> HIDE DEF m, h
<1>4. MembersBecome(h, g, r, m)
  BY <1>2, <1>3, ChangeMembers
<1>5. /\ IsGraph(h) /\ h.nodes = g.nodes /\ h.ports = g.ports /\ h.edges = g.edges
      /\ Len(h.regions) = Len(g.regions) /\ h.regions[r].members = m
      /\ \A q \in 1 .. Len(g.regions) : q # r => h.regions[q] = g.regions[q]
  BY <1>4 DEF MembersBecome, Regions
<1>6. MembersOK(h.regions, g.nodes)
  BY <1>1, <1>5, ListNode DEF Nodes, Regions, m
<1> QED
  BY <1>5, <1>6 DEF Becoming, GraphOK, h

\* arc_graph_add_node keeps a graph right: the region lists the new node, no other does.
LEMMA AddNode ==
  ASSUME NEW g, GraphOK(g), NEW kind, NEW r \in Regions(g)
  PROVE  Becoming(arc_graph_add_node(g, kind, r), Len(g.regions), Len(g.nodes) + 1, Len(g.ports))
<1> DEFINE n == Len(g.nodes) + 1
           v == [kind |-> kind, region |-> r, attr |-> "", bodies |-> <<>>,
                 listed |-> FALSE, ports |-> <<>>, cyclic_order |-> <<>>]
           s == Append(g.nodes, v)
           k == [g EXCEPT !.nodes = s]
           h == arc_graph_add_node(g, kind, r)
<1>1. IsGraph(g) /\ IsSeq(g.nodes) /\ Len(g.nodes) \in Nat
  BY GraphLengths DEF GraphOK, IsGraph
<1>2. h = arc_region_add_member(k, r, n)
  BY <1>1 DEF arc_graph_add_node, IsGraph
<1>3. IsNode(v) /\ v.region = r
  BY NoneIsSeq DEF IsNode
<1> HIDE DEF v, s, k, h
<1>4. /\ IsSeq(s) /\ Len(s) = n /\ s[n] = v
      /\ \A i \in 1 .. Len(g.nodes) : s[i] = g.nodes[i]
  BY <1>1, AppendSeq DEF s
<1>5. \A i \in 1 .. Len(s) : IsNode(s[i])
  BY <1>1, <1>3, <1>4 DEF IsGraph, Nodes
<1>6. IsGraph(k) /\ k.nodes = s /\ k.regions = g.regions /\ k.ports = g.ports /\ k.edges = g.edges
  BY <1>1, <1>4, <1>5, WithNodes DEF k
<1>7. ExceptFor(g.regions, s, n)
  <2>1. MembersOK(g.regions, g.nodes)
    BY DEF GraphOK
  <2>2. ASSUME NEW i \in 1 .. Len(s), i # n
        PROVE  /\ s[i].region \in 1 .. Len(g.regions)
               /\ \E j \in 1 .. Len(g.regions[s[i].region].members) : g.regions[s[i].region].members[j] = i
    <3>1. i \in 1 .. Len(g.nodes) /\ s[i] = g.nodes[i]
      BY <1>1, <1>4, <2>2
    <3> QED
      BY <2>1, <3>1 DEF MembersOK
  <2>3. ASSUME NEW q \in 1 .. Len(g.regions), NEW i \in 1 .. Len(g.regions[q].members)
        PROVE  /\ g.regions[q].members[i] \in 1 .. Len(s) /\ g.regions[q].members[i] # n
               /\ s[g.regions[q].members[i]].region = q
               /\ \A j \in 1 .. Len(g.regions[q].members) :
                    g.regions[q].members[j] = g.regions[q].members[i] => j = i
    <3> DEFINE x == g.regions[q].members[i]
    <3>1. /\ x \in 1 .. Len(g.nodes) /\ g.nodes[x].region = q
          /\ \A j \in 1 .. Len(g.regions[q].members) : g.regions[q].members[j] = x => j = i
      BY <2>1 DEF MembersOK
    <3> HIDE DEF x
    <3>2. x \in 1 .. Len(s) /\ x # n /\ s[x].region = q
      BY <1>1, <1>4, <3>1
    <3> QED
      BY <3>1, <3>2 DEF x
  <2> QED
    BY <2>2, <2>3 DEF ExceptFor
<1>8. PortsOK(s, g.ports)
  <2>1. PortsOK(g.nodes, g.ports)
    BY DEF GraphOK
  <2>2. ASSUME NEW p \in 1 .. Len(g.ports)
        PROVE  /\ g.ports[p].owner \in 1 .. Len(s)
               /\ \E i \in 1 .. Len(s[g.ports[p].owner].ports) : s[g.ports[p].owner].ports[i] = p
    <3> DEFINE o == g.ports[p].owner
    <3>1. o \in 1 .. Len(g.nodes) /\ \E i \in 1 .. Len(g.nodes[o].ports) : g.nodes[o].ports[i] = p
      BY <2>1 DEF PortsOK
    <3> HIDE DEF o
    <3>2. o \in 1 .. Len(s) /\ s[o] = g.nodes[o]
      BY <1>1, <1>4, <3>1
    <3> QED
      BY <3>1, <3>2 DEF o
  <2> QED
    BY <2>2 DEF PortsOK
<1>9. n \in Nodes(k) /\ r \in Regions(k) /\ k.nodes[n].region = r
  BY <1>1, <1>3, <1>4, <1>6 DEF Nodes, Regions
<1>11. ExceptFor(k.regions, k.nodes, n) /\ PortsOK(k.nodes, k.ports) /\ EdgesOK(k.ports, k.edges)
  BY <1>6, <1>7, <1>8 DEF GraphOK
<1> HIDE DEF n
<1>10. Becoming(h, Len(k.regions), Len(k.nodes), Len(k.ports))
  BY <1>2, <1>6, <1>9, <1>11, AddMember
<1> QED
  BY <1>4, <1>6, <1>10 DEF h, n

\* l lists what m lists, once, but for its element at i.
Without(l, m, i) ==
  /\ IsSeq(l)
  /\ \A j \in 1 .. Len(l) : \E q \in 1 .. Len(m) : q # i /\ l[j] = m[q]
  /\ \A q \in 1 .. Len(m) : q # i => \E j \in 1 .. Len(l) : l[j] = m[q]
  /\ \A j, k \in 1 .. Len(l) : l[j] = l[k] => j = k

\* Without the element at i, whose place the last one takes, the others are there, once.
LEMMA RemovedList ==
  ASSUME NEW m, IsSeq(m), NEW i \in 1 .. Len(m), \A j, k \in 1 .. Len(m) : m[j] = m[k] => j = k
  PROVE  Without(Front([m EXCEPT ![i] = Last(m)]), m, i)
<1> DEFINE x == Last(m)
           s == [m EXCEPT ![i] = x]
           l == Front(s)
           N == Len(m)
<1>1. /\ IsSeq(s) /\ Len(s) = N /\ N \in Nat /\ s[i] = x
      /\ \A j \in 1 .. N : j # i => s[j] = m[j]
  BY ChangeSeq
<1>2. x = m[N] /\ N > 0
  BY DEF Last
<1> HIDE DEF s, x
<1>3. IsSeq(l) /\ Len(l) = N - 1 /\ \A j \in 1 .. N - 1 : l[j] = s[j]
  BY <1>1, <1>2, FrontSeq
<1> HIDE DEF l
<1>4. \A j \in 1 .. Len(l) : /\ j \in 1 .. N /\ j # N
                             /\ j # i => l[j] = m[j]
                             /\ j = i => l[j] = m[N]
  BY <1>1, <1>2, <1>3
<1>5. N \in 1 .. N /\ i \in 1 .. N
  BY <1>1, <1>2
<1>6. ASSUME NEW j \in 1 .. Len(l) PROVE \E q \in 1 .. N : q # i /\ l[j] = m[q]
  <2>1. CASE j = i
    <3>1. N # i /\ l[j] = m[N]
      BY <1>4, <2>1
    <3> QED
      BY <1>5, <3>1
  <2>2. CASE j # i
    BY <1>4, <2>2
  <2> QED
    BY <2>1, <2>2
<1>7. ASSUME NEW q \in 1 .. N, q # i PROVE \E j \in 1 .. Len(l) : l[j] = m[q]
  <2>1. CASE q = N
    <3>1. i \in 1 .. Len(l)
      BY <1>1, <1>3, <1>7, <2>1
    <3> QED
      BY <1>4, <2>1, <3>1
  <2>2. CASE q # N
    <3>1. q \in 1 .. Len(l)
      BY <1>1, <1>3, <2>2
    <3> QED
      BY <1>4, <1>7, <3>1
  <2> QED
    BY <2>1, <2>2
<1>8. ASSUME NEW j \in 1 .. Len(l), NEW k \in 1 .. Len(l), l[j] = l[k] PROVE j = k
  <2> DEFINE J == IF j = i THEN N ELSE j
             K == IF k = i THEN N ELSE k
  <2>1. J \in 1 .. N /\ K \in 1 .. N /\ l[j] = m[J] /\ l[k] = m[K]
    BY <1>4, <1>5
  <2>2. J = K
    BY <1>8, <2>1
  <2> QED
    BY <1>4, <2>2
<1> QED
  BY <1>3, <1>6, <1>7, <1>8 DEF Without, l, s, x

\* The index at which a list has n.
LEMMA FindMember ==
  ASSUME NEW m, IsSeq(m), NEW n, \E i \in 1 .. Len(m) : m[i] = n
  PROVE  SelectInSeq(m, LAMBDA x : x = n) \in 1 .. Len(m) /\ m[SelectInSeq(m, LAMBDA x : x = n)] = n
<1> DEFINE I == {i \in 1 .. Len(m) : m[i] = n}
<1>1. SelectInSeq(m, LAMBDA x : x = n) = IF I # {} THEN Min(I) ELSE 0
  BY DEF SelectInSeq
<1>2. Len(m) \in Nat /\ I \subseteq 1 .. Len(m) /\ I # {}
  BY SeqIs
<1>3. \A i \in I : i \in 1 .. Len(m) /\ m[i] = n
  OBVIOUS
<1> HIDE DEF I
<1>4. Min(I) \in I
  BY <1>2, FirstIs
<1> QED
  BY <1>1, <1>2, <1>3, <1>4

\* remove_from_region takes out that node, and leaves the other members.
LEMMA RemoveMember ==
  ASSUME NEW g, GraphOK(g), NEW n \in Nodes(g)
  PROVE  LET old == g.nodes[n].region
             h == remove_from_region(g, old, n) IN
         /\ old \in Regions(g)
         /\ \E l : \E i \in 1 .. Len(g.regions[old].members) :
              /\ g.regions[old].members[i] = n
              /\ Without(l, g.regions[old].members, i)
              /\ MembersBecome(h, g, old, l)
<1> DEFINE old == g.nodes[n].region
           m == g.regions[old].members
           i == SelectInSeq(m, LAMBDA x : x = n)
           l == Front([m EXCEPT ![i] = Last(m)])
           h == remove_from_region(g, old, n)
<1>1. h = IF i = 0 THEN g ELSE [g EXCEPT !.regions[old].members = l]
  BY DEF remove_from_region
<1>2. old \in Regions(g) /\ \E j \in 1 .. Len(m) : m[j] = n
  BY DEF GraphOK, MembersOK, Nodes, Regions
<1>3. \A j, k \in 1 .. Len(m) : m[j] = m[k] => j = k
  <2>1. old \in 1 .. Len(g.regions) /\ MembersOK(g.regions, g.nodes)
    BY <1>2 DEF GraphOK, Regions
  <2> HIDE DEF old
  <2> QED
    BY <2>1 DEF MembersOK
<1>4. IsSeq(m) /\ IsGraph(g)
  BY <1>2 DEF GraphOK, IsGraph, IsRegion
<1> HIDE DEF old, m
<1>5. i \in 1 .. Len(m) /\ m[i] = n
  BY <1>2, <1>4, FindMember
<1> HIDE DEF i
<1>6. Without(l, m, i)
  BY <1>3, <1>4, <1>5, RemovedList
<1> HIDE DEF l
<1>7. IsSeq(l) /\ i # 0
  BY <1>5, <1>6 DEF Without
<1>8. h = [g EXCEPT !.regions[old].members = l]
  BY <1>1, <1>7
<1> HIDE DEF h
<1>9. MembersBecome(h, g, old, l)
  BY <1>2, <1>4, <1>7, <1>8, ChangeMembers
<1> QED
  BY <1>2, <1>5, <1>6, <1>9 DEF old, m, h

Moved(g, n, r) ==
  arc_region_add_member([remove_from_region(g, g.nodes[n].region, n) EXCEPT !.nodes[n].region = r], r, n)

\* Taken out of one list and put into another, a node is in one still.
LEMMA MoveNode ==
  ASSUME NEW g, GraphOK(g), NEW n \in Nodes(g), NEW r \in Regions(g)
  PROVE  LET h == Moved(g, n, r) IN
         /\ Becoming(h, Len(g.regions), Len(g.nodes), Len(g.ports))
         /\ h.nodes[n].region = r
         /\ \A k \in Nodes(g) : k # n => h.nodes[k].region = g.nodes[k].region
<1> DEFINE old == g.nodes[n].region
           m == g.regions[old].members
           out == remove_from_region(g, old, n)
           v == [out.nodes[n] EXCEPT !.region = r]
           to == [out EXCEPT !.nodes[n].region = r]
           h == Moved(g, n, r)
<1>1. /\ old \in Regions(g)
      /\ \E l : \E i \in 1 .. Len(m) : m[i] = n /\ Without(l, m, i) /\ MembersBecome(out, g, old, l)
  BY RemoveMember
<1>2. PICK l : \E i \in 1 .. Len(m) : m[i] = n /\ Without(l, m, i) /\ MembersBecome(out, g, old, l)
  BY <1>1
<1>3. PICK i \in 1 .. Len(m) : m[i] = n /\ Without(l, m, i) /\ MembersBecome(out, g, old, l)
  BY <1>2
<1>4. h = arc_region_add_member(to, r, n)
  BY DEF Moved
<1>5. to = [out EXCEPT !.nodes[n] = v]
  OBVIOUS
<1> HIDE DEF out
<1>6. /\ IsGraph(out) /\ out.nodes = g.nodes /\ out.ports = g.ports /\ out.edges = g.edges
      /\ Len(out.regions) = Len(g.regions) /\ out.regions[old].members = l
      /\ \A q \in 1 .. Len(g.regions) : q # old => out.regions[q] = g.regions[q]
  BY <1>3 DEF MembersBecome, Regions
<1>7. n \in Nodes(out) /\ IsNode(g.nodes[n])
  BY <1>6 DEF Nodes, GraphOK, IsGraph
<1>8. IsNode(v) /\ v.region = r /\ v.ports = g.nodes[n].ports
  <2> DEFINE w == g.nodes[n]
             u == [w EXCEPT !.region = r]
  <2>1. IsNode(w) /\ v = u
    BY <1>6, <1>7
  <2> HIDE DEF w, v
  <2>2. IsNode(u) /\ u.region = r /\ u.ports = w.ports
    BY <2>1, NodeRegion
  <2> QED
    BY <2>1, <2>2 DEF w
<1> HIDE DEF v, to, h
<1>9. NodeChanged(to, out, n, v)
  BY <1>5, <1>6, <1>7, <1>8, ChangeNode
<1>10. /\ IsGraph(to) /\ to.regions = out.regions /\ to.ports = g.ports /\ to.edges = g.edges
       /\ Len(to.nodes) = Len(g.nodes) /\ to.nodes[n] = v
       /\ \A k \in 1 .. Len(g.nodes) : k # n => to.nodes[k] = g.nodes[k]
  BY <1>6, <1>9 DEF NodeChanged, Nodes
<1>11. MembersOK(g.regions, g.nodes) /\ PortsOK(g.nodes, g.ports) /\ EdgesOK(g.ports, g.edges)
  BY DEF GraphOK
<1>12. old \in 1 .. Len(g.regions) /\ n \in 1 .. Len(g.nodes) /\ r \in 1 .. Len(g.regions)
  BY <1>1 DEF Regions, Nodes
<1> HIDE DEF old
<1>13. ExceptFor(to.regions, to.nodes, n)
  <2>1. ASSUME NEW k \in 1 .. Len(to.nodes), k # n
        PROVE  /\ to.nodes[k].region \in 1 .. Len(to.regions)
               /\ \E j \in 1 .. Len(to.regions[to.nodes[k].region].members) :
                    to.regions[to.nodes[k].region].members[j] = k
    <3> DEFINE q == g.nodes[k].region
    <3>1. k \in 1 .. Len(g.nodes) /\ to.nodes[k].region = q
      BY <1>10, <2>1
    <3>2. q \in 1 .. Len(g.regions) /\ \E j \in 1 .. Len(g.regions[q].members) : g.regions[q].members[j] = k
      BY <1>11, <3>1 DEF MembersOK
    <3> HIDE DEF q
    <3>3. CASE q # old
      <4>1. to.regions[q] = g.regions[q]
        BY <1>6, <1>10, <3>2, <3>3
      <4> QED
        BY <1>6, <1>10, <3>1, <3>2, <4>1
    <3>4. CASE q = old
      <4>1. PICK j \in 1 .. Len(m) : m[j] = k
        BY <3>2, <3>4
      <4>2. j # i
        BY <1>3, <2>1, <4>1
      <4>3. \E w \in 1 .. Len(l) : l[w] = k
        BY <1>3, <4>1, <4>2 DEF Without
      <4>4. to.regions[q].members = l
        BY <1>6, <1>10, <3>4
      <4> QED
        BY <1>6, <1>10, <3>1, <3>2, <4>3, <4>4
    <3> QED
      BY <3>3, <3>4
  <2>2. ASSUME NEW q \in 1 .. Len(to.regions), NEW j \in 1 .. Len(to.regions[q].members)
        PROVE  /\ to.regions[q].members[j] \in 1 .. Len(to.nodes) /\ to.regions[q].members[j] # n
               /\ to.nodes[to.regions[q].members[j]].region = q
               /\ \A w \in 1 .. Len(to.regions[q].members) :
                    to.regions[q].members[w] = to.regions[q].members[j] => w = j
    <3> DEFINE x == to.regions[q].members[j]
    <3>1. q \in 1 .. Len(g.regions)
      BY <1>6, <1>10
    <3>2. /\ x \in 1 .. Len(g.nodes) /\ x # n /\ g.nodes[x].region = q
          /\ \A w \in 1 .. Len(to.regions[q].members) : to.regions[q].members[w] = x => w = j
      <4>1. CASE q # old
        <5>1. to.regions[q] = g.regions[q]
          BY <1>6, <1>10, <3>1, <4>1
        <5>2. /\ x \in 1 .. Len(g.nodes) /\ g.nodes[x].region = q
              /\ \A w \in 1 .. Len(to.regions[q].members) : to.regions[q].members[w] = x => w = j
          BY <1>11, <3>1, <5>1 DEF MembersOK
        <5>3. x # n
          BY <4>1, <5>2 DEF old
        <5> QED
          BY <5>2, <5>3
      <4>2. CASE q = old
        <5>1. to.regions[q].members = l
          BY <1>6, <1>10, <4>2
        <5>2. PICK w \in 1 .. Len(m) : w # i /\ l[j] = m[w]
          BY <1>3, <5>1 DEF Without
        <5>3. m[w] \in 1 .. Len(g.nodes) /\ g.nodes[m[w]].region = old /\ (m[w] = m[i] => w = i)
          BY <1>11, <1>12 DEF MembersOK
        <5>4. x = m[w] /\ m[w] # n
          BY <1>3, <5>1, <5>2, <5>3
        <5>5. \A a \in 1 .. Len(l) : l[a] = l[j] => a = j
          BY <1>3, <5>1 DEF Without
        <5> QED
          BY <4>2, <5>1, <5>3, <5>4, <5>5
      <4> QED
        BY <4>1, <4>2
    <3> HIDE DEF x
    <3>3. to.nodes[x].region = q /\ x \in 1 .. Len(to.nodes)
      BY <1>10, <3>2
    <3> QED
      BY <3>2, <3>3 DEF x
  <2> QED
    BY <2>1, <2>2 DEF ExceptFor
<1>14. PortsOK(to.nodes, to.ports)
  <2>1. \A k \in 1 .. Len(g.nodes) : to.nodes[k].ports = g.nodes[k].ports
    BY <1>8, <1>10
  <2>2. ASSUME NEW p \in 1 .. Len(g.ports)
        PROVE  /\ g.ports[p].owner \in 1 .. Len(to.nodes)
               /\ \E j \in 1 .. Len(to.nodes[g.ports[p].owner].ports) : to.nodes[g.ports[p].owner].ports[j] = p
    <3> DEFINE o == g.ports[p].owner
    <3>1. o \in 1 .. Len(g.nodes) /\ \E j \in 1 .. Len(g.nodes[o].ports) : g.nodes[o].ports[j] = p
      BY <1>11 DEF PortsOK
    <3> HIDE DEF o
    <3>2. to.nodes[o].ports = g.nodes[o].ports
      BY <2>1, <3>1
    <3> QED
      BY <1>10, <3>1, <3>2 DEF o
  <2> QED
    BY <1>10, <2>2 DEF PortsOK
<1>15. EdgesOK(to.ports, to.edges)
  BY <1>10, <1>11
<1>16. n \in Nodes(to) /\ r \in Regions(to) /\ to.nodes[n].region = r
  BY <1>6, <1>8, <1>10, <1>12 DEF Nodes, Regions
<1>17. Becoming(h, Len(to.regions), Len(to.nodes), Len(to.ports)) /\ h.nodes = to.nodes
  BY <1>4, <1>10, <1>13, <1>14, <1>15, <1>16, AddMember
<1>18. Becoming(h, Len(g.regions), Len(g.nodes), Len(g.ports))
  BY <1>6, <1>10, <1>17
<1>19. h.nodes[n].region = r /\ \A k \in Nodes(g) : k # n => h.nodes[k].region = g.nodes[k].region
  BY <1>8, <1>10, <1>17 DEF Nodes
<1> QED
  BY <1>18, <1>19 DEF h

-----------------------------------------------------------------------------
(* The parser.                                                             *)

\* Names are of regions, nodes and ports of the graph.
NamesOK(ns, g) ==
  /\ ns = [regions |-> ns.regions, nodes |-> ns.nodes, ports |-> ns.ports]
  /\ IsSeq(ns.regions) /\ Len(ns.regions) = Len(g.regions)
  /\ IsSeq(ns.nodes) /\ \A i \in 1 .. Len(ns.nodes) : ns.nodes[i].id \in Nodes(g)
  /\ IsSeq(ns.ports) /\ \A i \in 1 .. Len(ns.ports) : ns.ports[i].id \in Ports(g)
\* A graph with its names, with that many regions and nodes.
StateOK(s, regions, nodes) ==
  /\ s = [graph |-> s.graph, names |-> s.names]
  /\ GraphOK(s.graph) /\ NamesOK(s.names, s.graph)
  /\ Len(s.graph.regions) = regions /\ Len(s.graph.nodes) = nodes

\* Names stay good while the graph grows.
LEMMA NamesKept ==
  ASSUME NEW ns, NEW g, GraphOK(g), NamesOK(ns, g),
         NEW h, NEW nodes \in Nat, NEW ports \in Nat, Becoming(h, Len(g.regions), nodes, ports),
         Len(g.nodes) <= nodes, Len(g.ports) <= ports
  PROVE  NamesOK(ns, h)
<1>1. Len(g.nodes) \in Nat /\ Len(g.ports) \in Nat
  BY GraphLengths DEF GraphOK
<1>2. Len(h.regions) = Len(g.regions) /\ Len(h.nodes) = nodes /\ Len(h.ports) = ports
  BY DEF Becoming
<1>3. (\A n \in Nodes(g) : n \in Nodes(h)) /\ (\A p \in Ports(g) : p \in Ports(h))
  BY <1>1, <1>2 DEF Nodes, Ports
<1> QED
  BY <1>2, <1>3 DEF NamesOK

\* register_port adds a port and its name.
LEMMA RegisterPort ==
  ASSUME NEW s, NEW regions, NEW nodes, StateOK(s, regions, nodes), NEW x, NEW role, NEW n \in 1 .. nodes
  PROVE  StateOK(register_port(s, x, role, n), regions, nodes)
<1> DEFINE g == s.graph
           ns == s.names
           dir == IF role \in Inputs THEN "input" ELSE "output"
           h == arc_graph_add_port(g, n, dir)
           v == [node |-> x, role |-> role, id |-> Len(g.ports) + 1]
           l == Append(ns.ports, v)
           ms == [ns EXCEPT !.ports = l]
<1>1. register_port(s, x, role, n) = [graph |-> h, names |-> ms]
  BY DEF register_port, StateOK, NamesOK
<1>2. GraphOK(g) /\ NamesOK(ns, g) /\ Len(g.regions) = regions /\ Len(g.nodes) = nodes /\ n \in Nodes(g)
  BY DEF StateOK, Nodes
<1>3. v.id = Len(g.ports) + 1
  OBVIOUS
<1>4. ms = [regions |-> ns.regions, nodes |-> ns.nodes, ports |-> l]
  <2>1. ns = [regions |-> ns.regions, nodes |-> ns.nodes, ports |-> ns.ports]
    BY <1>2 DEF NamesOK
  <2> HIDE DEF l, ns, g, v
  <2> QED
    BY <2>1
<1> HIDE DEF g, ns, dir, h, v, ms, l
<1>5. Becoming(h, Len(g.regions), Len(g.nodes), Len(g.ports) + 1)
  BY <1>2, AddPort DEF h
<1>6. Len(g.nodes) \in Nat /\ Len(g.ports) \in Nat
  BY <1>2, GraphLengths DEF GraphOK
<1>7. NamesOK(ns, h)
  BY <1>2, <1>5, <1>6, NamesKept
<1>8. /\ IsSeq(l) /\ Len(l) = Len(ns.ports) + 1 /\ Len(ns.ports) \in Nat
      /\ l[Len(ns.ports) + 1] = v /\ \A i \in 1 .. Len(ns.ports) : l[i] = ns.ports[i]
  BY <1>7, AppendSeq DEF NamesOK, l
<1>9. Len(g.ports) + 1 \in Ports(h)
  BY <1>5, <1>6 DEF Becoming, Ports
<1>10. \A i \in 1 .. Len(l) : l[i].id \in Ports(h)
  <2> TAKE i \in 1 .. Len(l)
  <2>1. i = Len(ns.ports) + 1 \/ i \in 1 .. Len(ns.ports)
    BY <1>8
  <2>2. \A j \in 1 .. Len(ns.ports) : ns.ports[j].id \in Ports(h)
    BY <1>7 DEF NamesOK
  <2> QED
    BY <1>3, <1>8, <1>9, <2>1, <2>2
<1>11. NamesOK(ms, h)
  <2>1. ms.regions = ns.regions /\ ms.nodes = ns.nodes /\ ms.ports = l
    BY <1>4
  <2> QED
    BY <1>4, <1>7, <1>8, <1>10, <2>1 DEF NamesOK
<1> QED
  BY <1>1, <1>2, <1>5, <1>11 DEF StateOK, Becoming

\* The states of the parser from role to role.
PortSteps(a, s, x, n, roles, again) ==
  /\ a[0] = s
  /\ \A i \in 1 .. Len(roles) : a[i] = IF again \/ find_port(a[i - 1], x, roles[i]) = Invalid
                                       THEN register_port(a[i - 1], x, roles[i], n)
                                       ELSE a[i - 1]
  /\ PortsFor(s, x, n, roles, again) = a[Len(roles)]

\* PortsFor goes through the roles one by one.
LEMMA PortsForSteps ==
  ASSUME NEW s, NEW x, NEW n, NEW roles, NEW again, Len(roles) \in Nat
  PROVE  \E a : PortSteps(a, s, x, n, roles, again)
<1> DEFINE count == Len(roles)
<1> DEFINE Step(t, i) == IF again \/ find_port(t, x, roles[i]) = Invalid
                         THEN register_port(t, x, roles[i], n) ELSE t
           Eq(f, k) == f = [i \in 0 .. k |-> IF i = 0 THEN s ELSE Step(f[i - 1], i)]
           T == {k \in Nat : \E f : Eq(f, k)}
<1> DEFINE a == CHOOSE f : Eq(f, count)
<1>5. PortsFor(s, x, n, roles, again) = a[count]
  BY DEF PortsFor
<1> HIDE DEF Step
<1>1. 0 \in T
  <2>1. Eq([i \in 0 .. 0 |-> s], 0)
    OBVIOUS
  <2> QED
    BY <2>1
<1>2. ASSUME NEW k \in Nat, k \in T PROVE k + 1 \in T
  <2>1. PICK f : Eq(f, k)
    BY <1>2
  <2> DEFINE g == [i \in 0 .. k + 1 |-> IF i = k + 1 THEN Step(f[k], k + 1) ELSE f[i]]
  <2>2. ASSUME NEW i \in 0 .. k + 1
        PROVE  g[i] = IF i = 0 THEN s ELSE Step(g[i - 1], i)
    <3>1. CASE i = k + 1
      <4>1. g[i - 1] = f[k] /\ i # 0
        BY <3>1
      <4> QED
        BY <3>1, <4>1
    <3>2. CASE i # k + 1
      <4>1. i \in 0 .. k /\ g[i] = f[i] /\ (i # 0 => g[i - 1] = f[i - 1])
        BY <3>2
      <4>2. f[i] = IF i = 0 THEN s ELSE Step(f[i - 1], i)
        BY <2>1, <4>1
      <4> HIDE DEF g
      <4> QED
        BY <4>1, <4>2
    <3> QED
      BY <3>1, <3>2
  <2>3. Eq(g, k + 1)
    <3> DEFINE h == [i \in 0 .. k + 1 |-> IF i = 0 THEN s ELSE Step(g[i - 1], i)]
    <3>1. \A i \in 0 .. k + 1 : g[i] = h[i]
      <4> HIDE DEF g
      <4> QED
        BY <2>2
    <3>2. g = h
      BY <3>1
    <3> QED
      BY <3>2
  <2> HIDE DEF Eq, g
  <2> QED
    BY <2>3
<1>3. \A k \in Nat : k \in T
  <2> HIDE DEF T
  <2> QED
    BY <1>1, <1>2, Induct
<1>4. Eq(a, count)
  <2>1. \E f : Eq(f, count)
    BY <1>3
  <2> HIDE DEF Eq
  <2> QED
    BY <2>1
<1> HIDE DEF a
<1>6. a[0] = s
  BY <1>4
<1>7. \A i \in 1 .. count : a[i] = Step(a[i - 1], i)
  BY <1>4
<1>8. PortSteps(a, s, x, n, roles, again)
  BY <1>5, <1>6, <1>7 DEF Step, PortSteps
<1> QED
  BY <1>8

\* Ports for any roles keep the graph and the names right.
LEMMA PortsForKeeps ==
  ASSUME NEW s, NEW regions, NEW nodes, StateOK(s, regions, nodes), NEW x, NEW n \in 1 .. nodes,
         NEW roles, Len(roles) \in Nat, NEW again
  PROVE  StateOK(PortsFor(s, x, n, roles, again), regions, nodes)
<1> DEFINE count == Len(roles)
<1>9. PICK a : PortSteps(a, s, x, n, roles, again)
  BY PortsForSteps
<1>1. /\ a[0] = s
      /\ \A i \in 1 .. count : a[i] = IF again \/ find_port(a[i - 1], x, roles[i]) = Invalid
                                      THEN register_port(a[i - 1], x, roles[i], n)
                                      ELSE a[i - 1]
      /\ PortsFor(s, x, n, roles, again) = a[count]
  BY <1>9 DEF PortSteps
<1> DEFINE T == {k \in Nat : k <= count => StateOK(a[k], regions, nodes)}
<1>2. 0 \in T
  BY <1>1
<1>3. ASSUME NEW k \in Nat, k \in T PROVE k + 1 \in T
  <2> SUFFICES ASSUME k + 1 <= count PROVE StateOK(a[k + 1], regions, nodes)
    OBVIOUS
  <2>1. StateOK(a[k], regions, nodes) /\ k + 1 \in 1 .. count /\ (k + 1) - 1 = k
    BY <1>3
  <2>2. a[k + 1] = a[k] \/ a[k + 1] = register_port(a[k], x, roles[k + 1], n)
    BY <1>1, <2>1
  <2> QED
    BY <2>1, <2>2, RegisterPort
<1>4. \A k \in Nat : k \in T
  <2> HIDE DEF T
  <2> QED
    BY <1>2, <1>3, Induct
<1> QED
  BY <1>1, <1>4

-----------------------------------------------------------------------------
(* Derivation from a layout.                                               *)

\* A layout for a graph with that many regions.
LayoutOK(layout, regions) ==
  /\ IsSeq(layout.circles) /\ IsSeq(layout.positions)
  /\ \A i \in 1 .. Len(layout.circles) :
       layout.circles[i].region \in 1 .. regions /\ layout.circles[i].radius \in Nat

\* r is the region of one of the smallest circles of a set of them.
OfSmallest(layout, in, r) ==
  \E i \in in : layout.circles[i].region = r /\ \A j \in in : layout.circles[i].radius <= layout.circles[j].radius

\* There is a first one of the smallest circles around a point.
LEMMA Smallest ==
  ASSUME NEW in, in \subseteq Nat, in # {}, NEW R, \A i \in in : R[i] \in Nat
  PROVE  \E i \in in : \A j \in in : R[i] < R[j] \/ (R[i] = R[j] /\ i <= j)
<1> DEFINE radii == {R[i] : i \in in}
<1>1. radii \subseteq Nat /\ radii # {}
  OBVIOUS
<1>2. PICK k \in radii : \A j \in radii : k <= j
  <2> HIDE DEF radii
  <2> QED
    BY <1>1, Least
<1> DEFINE best == {i \in in : R[i] = k}
<1>3. best \subseteq Nat /\ best # {}
  BY <1>2
<1>4. PICK i \in best : \A j \in best : i <= j
  <2> HIDE DEF best
  <2> QED
    BY <1>3, Least
<1>5. ASSUME NEW j \in in PROVE R[i] < R[j] \/ (R[i] = R[j] /\ i <= j)
  <2>1. k <= R[j] /\ R[j] \in Nat /\ R[i] = k /\ k \in Nat
    BY <1>2, <1>4
  <2>2. R[j] = k => i <= j
    BY <1>4
  <2> QED
    BY <2>1, <2>2
<1> QED
  BY <1>4, <1>5

\* find_innermost_region returns a region of the graph, or none.
LEMMA Innermost ==
  ASSUME NEW layout, NEW regions, LayoutOK(layout, regions), NEW p
  PROVE  LET in == CirclesAround(layout, p)
             r == find_innermost_region(layout, p) IN
         /\ in = {} => r = Invalid
         /\ in # {} => OfSmallest(layout, in, r) /\ r \in 1 .. regions
<1> DEFINE in == CirclesAround(layout, p)
           R == [i \in in |-> layout.circles[i].radius]
           First(i) == \A j \in in : layout.circles[i].radius < layout.circles[j].radius
                                     \/ (layout.circles[i].radius = layout.circles[j].radius /\ i <= j)
           best == CHOOSE i \in in : First(i)
<1>1. find_innermost_region(layout, p) = IF in = {} THEN Invalid ELSE layout.circles[best].region
  BY DEF find_innermost_region
<1>2. in \subseteq 1 .. Len(layout.circles) /\ Len(layout.circles) \in Nat
  BY SeqIs DEF CirclesAround, LayoutOK
<1>3. \A i \in in : layout.circles[i].radius \in Nat /\ layout.circles[i].region \in 1 .. regions
  BY <1>2 DEF LayoutOK
<1> HIDE DEF in
<1>4. ASSUME in # {} PROVE best \in in /\ First(best)
  <2>1. in \subseteq Nat /\ \A i \in in : R[i] \in Nat
    BY <1>2, <1>3
  <2>2. \E i \in in : \A j \in in : R[i] < R[j] \/ (R[i] = R[j] /\ i <= j)
    <3> HIDE DEF R
    <3> QED
      BY <1>4, <2>1, Smallest
  <2>3. \E i \in in : First(i)
    BY <2>2
  <2> HIDE DEF First
  <2> QED
    BY <2>3
<1> HIDE DEF best
<1>5. ASSUME in # {} PROVE OfSmallest(layout, in, layout.circles[best].region) /\ layout.circles[best].region \in 1 .. regions
  <2>1. \A j \in in : layout.circles[best].radius <= layout.circles[j].radius
    BY <1>3, <1>4, <1>5
  <2> QED
    BY <1>3, <1>4, <1>5, <2>1 DEF OfSmallest
<1> QED
  BY <1>1, <1>5 DEF in

\* The i-th position of a layout: its node, whether it is in a circle, the region there.
Id(layout, i) == layout.positions[i].id
InCircle(layout, i) == CirclesAround(layout, layout.positions[i].pos) # {}
RegionAt(layout, i) == find_innermost_region(layout, layout.positions[i].pos)

\* After k positions: a node is where the last of them puts it, ...
AtLast(nodes, layout, k) ==
  \A n \in 1 .. Len(nodes) : \A i \in 1 .. k :
    Id(layout, i) = n /\ InCircle(layout, i) /\ (\A j \in 1 .. k : Id(layout, j) = n => j <= i)
      => nodes[n].region = RegionAt(layout, i)
\* ... or where it was, ...
Others(nodes, before, layout, k) ==
  \A n \in 1 .. Len(nodes) : (\A i \in 1 .. k : Id(layout, i) # n) => nodes[n].region = before[n].region
\* ... each entry of the report comes from a position in a circle, ...
FromPositions(members, count, layout, k) ==
  \A m \in 1 .. Len(members) :
    /\ members[m].node \in 1 .. count
    /\ \E i \in 1 .. k : /\ InCircle(layout, i) /\ Id(layout, i) = members[m].node
                         /\ RegionAt(layout, i) = members[m].region
\* ... and if all positions are in circles, it has one for each, in their order.
InTurn(members, count, layout, k) ==
  (\A i \in 1 .. k : Id(layout, i) \in 1 .. count /\ InCircle(layout, i))
    => Len(members) = k /\ \A i \in 1 .. k : members[i].region = RegionAt(layout, i)

Says(graph_, members, g, layout, k) ==
  /\ AtLast(graph_.nodes, layout, k) /\ Others(graph_.nodes, g.nodes, layout, k)
  /\ FromPositions(members, Len(g.nodes), layout, k) /\ InTurn(members, Len(g.nodes), layout, k)
DerivedOK(d, g, layout, k) ==
  /\ d = [graph |-> d.graph, valid |-> d.valid, members |-> d.members]
  /\ d.valid \in BOOLEAN /\ IsSeq(d.members)
  /\ Becoming(d.graph, Len(g.regions), Len(g.nodes), Len(g.ports))
  /\ d.valid => Says(d.graph, d.members, g, layout, k)

\* A position that moves nothing.
LEMMA Skipped ==
  ASSUME NEW h, NEW members, NEW g, NEW layout, NEW k \in Nat, Says(h, members, g, layout, k),
         Len(h.nodes) = Len(g.nodes), Id(layout, k + 1) \notin 1 .. Len(g.nodes) \/ ~ InCircle(layout, k + 1)
  PROVE  Says(h, members, g, layout, k + 1)
<1> DEFINE q == k + 1
<1>1. \A i \in 1 .. q : i = q \/ i \in 1 .. k
  OBVIOUS
<1>2. \A i \in 1 .. k : i \in 1 .. q
  OBVIOUS
<1>3. q \in 1 .. q
  OBVIOUS
<1>4. Id(layout, q) \notin 1 .. Len(g.nodes) \/ ~ InCircle(layout, q)
  OBVIOUS
<1> HIDE DEF q
<1>5. AtLast(h.nodes, layout, q)
  <2> SUFFICES ASSUME NEW n \in 1 .. Len(h.nodes), NEW i \in 1 .. q,
                      Id(layout, i) = n, InCircle(layout, i), \A j \in 1 .. q : Id(layout, j) = n => j <= i
               PROVE  h.nodes[n].region = RegionAt(layout, i)
    BY DEF AtLast
  <2>1. i \in 1 .. k
    BY <1>1, <1>4
  <2>2. \A j \in 1 .. k : Id(layout, j) = n => j <= i
    BY <1>2
  <2> QED
    BY <2>1, <2>2 DEF Says, AtLast
<1>6. Others(h.nodes, g.nodes, layout, q)
  BY <1>2 DEF Says, Others
<1>7. FromPositions(members, Len(g.nodes), layout, q)
  BY <1>2 DEF Says, FromPositions
<1>8. InTurn(members, Len(g.nodes), layout, q)
  BY <1>3, <1>4 DEF InTurn
<1> QED
  BY <1>5, <1>6, <1>7, <1>8 DEF Says, q

\* A position that puts its node into a region.
LEMMA PutThere ==
  ASSUME NEW h, NEW members, NEW g, NEW layout, NEW k \in Nat, Says(h, members, g, layout, k),
         Len(h.nodes) = Len(g.nodes), IsSeq(members),
         NEW n \in 1 .. Len(g.nodes), n = Id(layout, k + 1), InCircle(layout, k + 1),
         NEW r, r = RegionAt(layout, k + 1),
         NEW hh, Len(hh.nodes) = Len(g.nodes), hh.nodes[n].region = r,
         \A x \in 1 .. Len(g.nodes) : x # n => hh.nodes[x].region = h.nodes[x].region
  PROVE  Says(hh, Append(members, [node |-> n, region |-> r]), g, layout, k + 1)
<1> DEFINE q == k + 1
           v == [node |-> n, region |-> r]
           l == Append(members, v)
<1>1. \A i \in 1 .. q : i = q \/ i \in 1 .. k
  OBVIOUS
<1>2. \A i \in 1 .. k : i \in 1 .. q
  OBVIOUS
<1>3. q \in 1 .. q /\ \A i \in 1 .. k : ~ (q <= i)
  OBVIOUS
<1>4. v.node = n /\ v.region = r
  OBVIOUS
<1>9. n = Id(layout, q) /\ InCircle(layout, q) /\ r = RegionAt(layout, q)
  OBVIOUS
<1> HIDE DEF v
<1>10. /\ Len(l) = Len(members) + 1 /\ Len(members) \in Nat /\ l[Len(members) + 1] = v
       /\ \A i \in 1 .. Len(members) : l[i] = members[i]
  BY AppendSeq
<1>11. \A m \in 1 .. Len(l) : m = Len(members) + 1 \/ m \in 1 .. Len(members)
  BY <1>10
<1>12. Len(members) = k => Len(l) = q
  BY <1>10
<1> HIDE DEF l
<1>5. AtLast(hh.nodes, layout, q)
  <2> SUFFICES ASSUME NEW x \in 1 .. Len(hh.nodes), NEW i \in 1 .. q,
                      Id(layout, i) = x, InCircle(layout, i), \A j \in 1 .. q : Id(layout, j) = x => j <= i
               PROVE  hh.nodes[x].region = RegionAt(layout, i)
    BY DEF AtLast
  <2>1. CASE i = q
    BY <1>9, <2>1
  <2>2. CASE i # q
    <3>1. i \in 1 .. k /\ x # n
      BY <1>1, <1>3, <1>9, <2>2
    <3>2. \A j \in 1 .. k : Id(layout, j) = x => j <= i
      BY <1>2
    <3>3. h.nodes[x].region = RegionAt(layout, i)
      BY <3>1, <3>2 DEF Says, AtLast
    <3> QED
      BY <3>1, <3>3
  <2> QED
    BY <2>1, <2>2
<1>6. Others(hh.nodes, g.nodes, layout, q)
  <2> SUFFICES ASSUME NEW x \in 1 .. Len(hh.nodes), \A i \in 1 .. q : Id(layout, i) # x
               PROVE  hh.nodes[x].region = g.nodes[x].region
    BY DEF Others
  <2>1. x # n /\ \A i \in 1 .. k : Id(layout, i) # x
    BY <1>2, <1>3, <1>9
  <2> QED
    BY <2>1 DEF Says, Others
<1>7. FromPositions(l, Len(g.nodes), layout, q)
  <2> SUFFICES ASSUME NEW m \in 1 .. Len(l)
               PROVE  /\ l[m].node \in 1 .. Len(g.nodes)
                      /\ \E i \in 1 .. q : /\ InCircle(layout, i) /\ Id(layout, i) = l[m].node
                                           /\ RegionAt(layout, i) = l[m].region
    BY DEF FromPositions
  <2>1. CASE m = Len(members) + 1
    BY <1>3, <1>4, <1>9, <1>10, <2>1
  <2>2. CASE m \in 1 .. Len(members)
    <3>1. l[m] = members[m]
      BY <1>10, <2>2
    <3> QED
      BY <1>2, <2>2, <3>1 DEF Says, FromPositions
  <2> QED
    BY <1>11, <2>1, <2>2
<1>8. InTurn(l, Len(g.nodes), layout, q)
  <2> SUFFICES ASSUME \A i \in 1 .. q : Id(layout, i) \in 1 .. Len(g.nodes) /\ InCircle(layout, i)
               PROVE  Len(l) = q /\ \A i \in 1 .. q : l[i].region = RegionAt(layout, i)
    BY DEF InTurn
  <2>1. Len(members) = k /\ \A i \in 1 .. k : members[i].region = RegionAt(layout, i)
    BY <1>2 DEF Says, InTurn
  <2>2. l[q] = v
    BY <1>10, <2>1 DEF q
  <2> QED
    BY <1>1, <1>4, <1>9, <1>10, <1>12, <2>1, <2>2
<1> QED
  BY <1>5, <1>6, <1>7, <1>8 DEF Says, q, l, v

\* Placing the next node leaves what a derivation says about the nodes so far.
LEMMA PlaceKeeps ==
  ASSUME NEW g, GraphOK(g), NEW layout, LayoutOK(layout, Len(g.regions)), NEW k \in Nat,
         k + 1 <= Len(layout.positions), NEW d, DerivedOK(d, g, layout, k)
  PROVE  DerivedOK(Place(layout, d, layout.positions[k + 1]), g, layout, k + 1)
<1> DEFINE np == layout.positions[k + 1]
           e == Place(layout, d, np)
           r == find_innermost_region(layout, np.pos)
           n == np.id
<1>1. /\ d = [graph |-> d.graph, valid |-> d.valid, members |-> d.members]
      /\ d.valid \in BOOLEAN /\ IsSeq(d.members)
      /\ Becoming(d.graph, Len(g.regions), Len(g.nodes), Len(g.ports))
      /\ d.valid => Says(d.graph, d.members, g, layout, k)
  BY DEF DerivedOK
<1>2. GraphOK(d.graph) /\ Len(d.graph.nodes) = Len(g.nodes) /\ Len(d.graph.regions) = Len(g.regions)
  BY <1>1 DEF Becoming
<1>3. DOMAIN d.graph.nodes = 1 .. Len(g.nodes)
  BY <1>2, GraphLengths DEF GraphOK, Nodes
<1>4. n = Id(layout, k + 1) /\ r = RegionAt(layout, k + 1)
  BY DEF Id, RegionAt
<1>5. InCircle(layout, k + 1) <=> CirclesAround(layout, np.pos) # {}
  BY DEF InCircle
<1>6. InCircle(layout, k + 1) => r \in 1 .. Len(g.regions)
  BY <1>5, Innermost
<1>7. ~ InCircle(layout, k + 1) => r = Invalid
  BY <1>5, Innermost
<1>8. Len(g.regions) \in Nat
  BY GraphLengths DEF GraphOK
<1>20. e = IF ~ d.valid \/ n \notin DOMAIN d.graph.nodes THEN d
          ELSE IF Ambiguous(layout, np.pos) THEN [d EXCEPT !.valid = FALSE]
          ELSE IF r = Invalid THEN d
          ELSE [d EXCEPT !.graph = Moved(d.graph, n, r), !.members = Append(@, [node |-> n, region |-> r])]
  BY DEF Place, Moved
<1> HIDE DEF e, r, n, np
<1> SUFFICES DerivedOK(e, g, layout, k + 1)
  BY DEF e, np
<1>10. CASE ~ d.valid
  BY <1>1, <1>10, <1>20 DEF DerivedOK
<1>11. CASE d.valid /\ n \notin DOMAIN d.graph.nodes
  <2>1. e = d
    BY <1>20, <1>11
  <2>2. Says(d.graph, d.members, g, layout, k + 1)
    BY <1>1, <1>2, <1>3, <1>4, <1>11, Skipped
  <2> QED
    BY <1>1, <2>1, <2>2 DEF DerivedOK
<1>12. CASE d.valid /\ n \in DOMAIN d.graph.nodes /\ Ambiguous(layout, np.pos)
  <2>1. e = [graph |-> d.graph, valid |-> FALSE, members |-> d.members]
    BY <1>1, <1>20, <1>12
  <2>2. e.graph = d.graph /\ e.valid = FALSE /\ e.members = d.members
    BY <2>1
  <2> QED
    BY <1>1, <2>1, <2>2 DEF DerivedOK
<1>13. CASE d.valid /\ n \in DOMAIN d.graph.nodes /\ ~ Ambiguous(layout, np.pos) /\ r = Invalid
  <2>1. e = d
    BY <1>20, <1>13
  <2>2. ~ InCircle(layout, k + 1)
    BY <1>6, <1>8, <1>13 DEF Invalid
  <2>3. Says(d.graph, d.members, g, layout, k + 1)
    BY <1>1, <1>2, <1>13, <2>2, Skipped
  <2> QED
    BY <1>1, <2>1, <2>3 DEF DerivedOK
<1>14. CASE d.valid /\ n \in DOMAIN d.graph.nodes /\ ~ Ambiguous(layout, np.pos) /\ r # Invalid
  <2> DEFINE hh == Moved(d.graph, n, r)
             l == Append(d.members, [node |-> n, region |-> r])
  <2>1. e = [graph |-> hh, valid |-> d.valid, members |-> l]
    <3>1. e = [d EXCEPT !.graph = hh, !.members = l]
      BY <1>14, <1>20
    <3> HIDE DEF hh, l
    <3> QED
      BY <1>1, <3>1
  <2>2. InCircle(layout, k + 1) /\ r \in Regions(d.graph) /\ n \in Nodes(d.graph) /\ n \in 1 .. Len(g.nodes)
    BY <1>2, <1>3, <1>6, <1>7, <1>14 DEF Regions, Nodes
  <2>3. /\ Becoming(hh, Len(d.graph.regions), Len(d.graph.nodes), Len(d.graph.ports))
        /\ hh.nodes[n].region = r
        /\ \A x \in Nodes(d.graph) : x # n => hh.nodes[x].region = d.graph.nodes[x].region
    BY <1>2, <2>2, MoveNode
  <2> HIDE DEF hh
  <2>4. Becoming(hh, Len(g.regions), Len(g.nodes), Len(g.ports))
    BY <1>1, <2>3 DEF Becoming
  <2>5. Len(hh.nodes) = Len(g.nodes) /\ \A x \in 1 .. Len(g.nodes) : x # n => hh.nodes[x].region = d.graph.nodes[x].region
    BY <1>2, <2>3, <2>4 DEF Becoming, Nodes
  <2>6. Says(hh, l, g, layout, k + 1)
    <3>1. Says(d.graph, d.members, g, layout, k) /\ IsSeq(d.members)
      BY <1>1, <1>14
    <3> QED
      BY <1>2, <1>4, <2>2, <2>3, <2>5, <3>1, PutThere
  <2>7. IsSeq(l)
    BY <1>1, AppendSeq
  <2> HIDE DEF l
  <2>8. e.graph = hh /\ e.valid = d.valid /\ e.members = l
    BY <2>1
  <2> QED
    BY <1>1, <2>1, <2>4, <2>6, <2>7, <2>8 DEF DerivedOK
<1> QED
  BY <1>1, <1>10, <1>11, <1>12, <1>13, <1>14

\* The states of a derivation from position to position.
DerivationSteps(a, g, layout) ==
  /\ a[0] = [graph |-> g, valid |-> TRUE, members |-> <<>>]
  /\ \A i \in 1 .. Len(layout.positions) : a[i] = Place(layout, a[i - 1], layout.positions[i])
  /\ derive_regions(g, layout) = IF layout.circles = <<>> THEN a[0] ELSE a[Len(layout.positions)]

\* derive_regions goes through the positions one by one.
LEMMA DeriveSteps ==
  ASSUME NEW g, NEW layout, Len(layout.positions) \in Nat
  PROVE  \E a : DerivationSteps(a, g, layout)
<1> DEFINE count == Len(layout.positions)
<1> DEFINE s == [graph |-> g, valid |-> TRUE, members |-> <<>>]
           Step(t, i) == Place(layout, t, layout.positions[i])
           Eq(f, k) == f = [i \in 0 .. k |-> IF i = 0 THEN s ELSE Step(f[i - 1], i)]
           T == {k \in Nat : \E f : Eq(f, k)}
<1> DEFINE a == CHOOSE f : Eq(f, count)
<1>5. derive_regions(g, layout) = IF layout.circles = <<>> THEN a[0] ELSE a[count]
  BY DEF derive_regions
<1> HIDE DEF Step, s
<1>1. 0 \in T
  <2>1. Eq([i \in 0 .. 0 |-> s], 0)
    OBVIOUS
  <2> QED
    BY <2>1
<1>2. ASSUME NEW k \in Nat, k \in T PROVE k + 1 \in T
  <2>1. PICK f : Eq(f, k)
    BY <1>2
  <2> DEFINE h == [i \in 0 .. k + 1 |-> IF i = k + 1 THEN Step(f[k], k + 1) ELSE f[i]]
  <2>2. ASSUME NEW i \in 0 .. k + 1
        PROVE  h[i] = IF i = 0 THEN s ELSE Step(h[i - 1], i)
    <3>1. CASE i = k + 1
      <4>1. h[i - 1] = f[k] /\ i # 0
        BY <3>1
      <4> QED
        BY <3>1, <4>1
    <3>2. CASE i # k + 1
      <4>1. i \in 0 .. k /\ h[i] = f[i] /\ (i # 0 => h[i - 1] = f[i - 1])
        BY <3>2
      <4>2. f[i] = IF i = 0 THEN s ELSE Step(f[i - 1], i)
        BY <2>1, <4>1
      <4> HIDE DEF h
      <4> QED
        BY <4>1, <4>2
    <3> QED
      BY <3>1, <3>2
  <2>3. Eq(h, k + 1)
    <3> DEFINE hh == [i \in 0 .. k + 1 |-> IF i = 0 THEN s ELSE Step(h[i - 1], i)]
    <3>1. \A i \in 0 .. k + 1 : h[i] = hh[i]
      <4> HIDE DEF h
      <4> QED
        BY <2>2
    <3>2. h = hh
      BY <3>1
    <3> QED
      BY <3>2
  <2> HIDE DEF Eq, h
  <2> QED
    BY <2>3
<1>3. \A k \in Nat : k \in T
  <2> HIDE DEF T
  <2> QED
    BY <1>1, <1>2, Induct
<1>4. Eq(a, count)
  <2>1. \E f : Eq(f, count)
    BY <1>3
  <2> HIDE DEF Eq
  <2> QED
    BY <2>1
<1> HIDE DEF a
<1>6. a[0] = s
  BY <1>4
<1>7. \A i \in 1 .. count : a[i] = Step(a[i - 1], i)
  BY <1>4
<1>8. DerivationSteps(a, g, layout)
  BY <1>5, <1>6, <1>7 DEF Step, s, DerivationSteps
<1> QED
  BY <1>8

\* Before the first position nothing has moved.
LEMMA DerivedStart ==
  ASSUME NEW g, GraphOK(g), NEW layout, NEW d, d = [graph |-> g, valid |-> TRUE, members |-> <<>>]
  PROVE  DerivedOK(d, g, layout, 0)
<1>1. d.graph = g /\ d.valid = TRUE /\ d.members = <<>>
  OBVIOUS
<1>2. IsSeq(d.members)
  BY <1>1, NoneIsSeq
<1>3. Len(d.members) = 0
  BY <1>1
<1>4. Says(g, d.members, g, layout, 0)
  BY <1>3 DEF Says, AtLast, Others, FromPositions, InTurn
<1>5. Becoming(g, Len(g.regions), Len(g.nodes), Len(g.ports))
  BY DEF Becoming
<1>6. d = [graph |-> d.graph, valid |-> d.valid, members |-> d.members]
  BY <1>1
<1> QED
  BY <1>1, <1>2, <1>4, <1>5, <1>6 DEF DerivedOK

\* What a derivation says holds at its end, refused or not.
LEMMA DeriveKeeps ==
  ASSUME NEW g, GraphOK(g), NEW layout, LayoutOK(layout, Len(g.regions))
  PROVE  \E k \in 0 .. Len(layout.positions) :
           /\ DerivedOK(derive_regions(g, layout), g, layout, k)
           /\ layout.circles # <<>> => k = Len(layout.positions)
<1> DEFINE count == Len(layout.positions)
<1>0. count \in Nat
  BY SeqIs DEF LayoutOK
<1>9. PICK a : DerivationSteps(a, g, layout)
  BY <1>0, DeriveSteps
<1>1. /\ a[0] = [graph |-> g, valid |-> TRUE, members |-> <<>>]
      /\ \A i \in 1 .. count : a[i] = Place(layout, a[i - 1], layout.positions[i])
      /\ derive_regions(g, layout) = IF layout.circles = <<>> THEN a[0] ELSE a[count]
  BY <1>9 DEF DerivationSteps
<1> DEFINE T == {k \in Nat : k <= count => DerivedOK(a[k], g, layout, k)}
<1>2. 0 \in T
  <2>1. DerivedOK(a[0], g, layout, 0)
    BY <1>1, DerivedStart
  <2> QED
    BY <2>1
<1>3. ASSUME NEW k \in Nat, k \in T PROVE k + 1 \in T
  <2> SUFFICES ASSUME k + 1 <= count PROVE DerivedOK(a[k + 1], g, layout, k + 1)
    OBVIOUS
  <2>1. DerivedOK(a[k], g, layout, k) /\ k + 1 \in 1 .. count /\ (k + 1) - 1 = k
    BY <1>0, <1>3
  <2>2. a[k + 1] = Place(layout, a[k], layout.positions[k + 1])
    BY <1>1, <2>1
  <2> QED
    BY <2>1, <2>2, PlaceKeeps
<1>4. \A k \in Nat : k \in T
  <2> HIDE DEF T
  <2> QED
    BY <1>2, <1>3, Induct
<1>5. DerivedOK(a[0], g, layout, 0) /\ DerivedOK(a[count], g, layout, count)
  BY <1>0, <1>4
<1>6. CASE layout.circles = <<>>
  BY <1>0, <1>1, <1>5, <1>6
<1>7. CASE layout.circles # <<>>
  BY <1>0, <1>1, <1>5, <1>7
<1> QED
  BY <1>6, <1>7

-----------------------------------------------------------------------------
(* The lines of a text.                                                    *)

\* The graph and the names are the parser's state.
LEMMA StateIs ==
  ASSUME NEW g, NEW ns, GraphOK(g), NamesOK(ns, g)
  PROVE  StateOK([graph |-> g, names |-> ns], Len(g.regions), Len(g.nodes))
  BY DEF StateOK

\* Another graph of the same size.
LEMMA StateGraph ==
  ASSUME NEW s, NEW regions, NEW nodes, StateOK(s, regions, nodes), NEW h,
         Becoming(h, Len(s.graph.regions), Len(s.graph.nodes), Len(s.graph.ports))
  PROVE  StateOK([s EXCEPT !.graph = h], regions, nodes)
<1> DEFINE t == [s EXCEPT !.graph = h]
<1>1. s = [graph |-> s.graph, names |-> s.names] /\ GraphOK(s.graph) /\ NamesOK(s.names, s.graph)
  BY DEF StateOK
<1>2. t = [graph |-> h, names |-> s.names]
  BY <1>1
<1> HIDE DEF t
<1>3. t.graph = h /\ t.names = s.names
  BY <1>2
<1>4. Len(s.graph.nodes) \in Nat /\ Len(s.graph.ports) \in Nat
  BY <1>1, GraphLengths DEF GraphOK
<1>5. NamesOK(s.names, h)
  <2>1. Len(s.graph.nodes) <= Len(s.graph.nodes) /\ Len(s.graph.ports) <= Len(s.graph.ports)
    BY <1>4
  <2> QED
    BY <1>1, <1>4, <2>1, NamesKept, Zenon
<1> QED
  BY <1>2, <1>3, <1>5 DEF StateOK, Becoming, t

\* A new node and its name.
LEMMA NewNode ==
  ASSUME NEW g, NEW ns, GraphOK(g), NamesOK(ns, g), NEW kind, NEW r \in Regions(g), NEW x
  PROVE  StateOK([graph |-> arc_graph_add_node(g, kind, r),
                  names |-> [ns EXCEPT !.nodes = Append(@, [name |-> x, id |-> Len(g.nodes) + 1])]],
                 Len(g.regions), Len(g.nodes) + 1)
<1> DEFINE n == Len(g.nodes) + 1
           h == arc_graph_add_node(g, kind, r)
           v == [name |-> x, id |-> n]
           l == Append(ns.nodes, v)
           ms == [ns EXCEPT !.nodes = Append(@, v)]
<1>1. v.id = n
  OBVIOUS
<1>2. ms = [regions |-> ns.regions, nodes |-> l, ports |-> ns.ports]
  <2>1. ns = [regions |-> ns.regions, nodes |-> ns.nodes, ports |-> ns.ports]
    BY DEF NamesOK
  <2> HIDE DEF v
  <2> QED
    BY <2>1
<1> HIDE DEF h, v, l, ms
<1>3. Becoming(h, Len(g.regions), n, Len(g.ports))
  BY AddNode DEF h
<1>4. Len(g.nodes) \in Nat /\ Len(g.ports) \in Nat
  BY GraphLengths DEF GraphOK
<1>5. NamesOK(ns, h)
  BY <1>3, <1>4, NamesKept
<1>6. /\ IsSeq(l) /\ Len(l) = Len(ns.nodes) + 1 /\ Len(ns.nodes) \in Nat
      /\ l[Len(ns.nodes) + 1] = v /\ \A i \in 1 .. Len(ns.nodes) : l[i] = ns.nodes[i]
  BY <1>5, AppendSeq DEF NamesOK, l
<1>7. n \in Nodes(h)
  BY <1>3, <1>4 DEF Becoming, Nodes
<1>8. \A i \in 1 .. Len(l) : l[i].id \in Nodes(h)
  <2> TAKE i \in 1 .. Len(l)
  <2>1. i = Len(ns.nodes) + 1 \/ i \in 1 .. Len(ns.nodes)
    BY <1>6
  <2>2. \A j \in 1 .. Len(ns.nodes) : ns.nodes[j].id \in Nodes(h)
    BY <1>5 DEF NamesOK
  <2> QED
    BY <1>1, <1>6, <1>7, <2>1, <2>2
<1>9. NamesOK(ms, h)
  <2>1. ms.regions = ns.regions /\ ms.nodes = l /\ ms.ports = ns.ports
    BY <1>2
  <2> QED
    BY <1>2, <1>5, <1>6, <1>8, <2>1 DEF NamesOK
<1>10. GraphOK(h) /\ Len(h.regions) = Len(g.regions) /\ Len(h.nodes) = n
  BY <1>3 DEF Becoming
<1>11. StateOK([graph |-> h, names |-> ms], Len(g.regions), n)
  BY <1>9, <1>10, StateIs
<1> QED
  BY <1>11 DEF h, ms, v

\* The attributes of a node that are not its region and not its ports.
LEMMA SetNode ==
  ASSUME NEW s, NEW regions, NEW nodes, StateOK(s, regions, nodes), NEW n \in 1 .. nodes, NEW v,
         IsNode(v), v.region = s.graph.nodes[n].region, v.ports = s.graph.nodes[n].ports
  PROVE  StateOK([s EXCEPT !.graph.nodes[n] = v], regions, nodes)
<1> DEFINE g == s.graph
           h == [g EXCEPT !.nodes[n] = v]
<1>1. s = [graph |-> g, names |-> s.names] /\ GraphOK(g) /\ n \in Nodes(g)
  BY DEF StateOK, Nodes
<1>2. [s EXCEPT !.graph.nodes[n] = v] = [s EXCEPT !.graph = h]
  BY <1>1
<1>6. Becoming(h, Len(g.regions), Len(g.nodes), Len(g.ports))
  BY <1>1, KeepNode
<1> HIDE DEF h
<1>7. StateOK([s EXCEPT !.graph = h], regions, nodes)
  BY <1>6, StateGraph
<1> QED
  BY <1>2, <1>7

\* Attributes change no region and no port.
LEMMA SetAttributes ==
  ASSUME NEW s, NEW regions, NEW nodes, StateOK(s, regions, nodes), NEW n \in 1 .. nodes,
         NEW attr, NEW bodies, NEW listed
  PROVE  StateOK([s EXCEPT !.graph.nodes[n].attr = attr, !.graph.nodes[n].bodies = bodies,
                           !.graph.nodes[n].listed = listed], regions, nodes)
<1> DEFINE N(t) == t.graph.nodes[n]
           v == [N(s) EXCEPT !.attr = attr]
           t1 == [s EXCEPT !.graph.nodes[n] = v]
           w == [N(t1) EXCEPT !.bodies = bodies]
           t2 == [t1 EXCEPT !.graph.nodes[n] = w]
           u == [N(t2) EXCEPT !.listed = listed]
           t3 == [t2 EXCEPT !.graph.nodes[n] = u]
<1>1. [s EXCEPT !.graph.nodes[n].attr = attr, !.graph.nodes[n].bodies = bodies,
                !.graph.nodes[n].listed = listed] = t3
  OBVIOUS
<1>2. \A t : StateOK(t, regions, nodes) => IsNode(N(t))
  BY DEF StateOK, GraphOK, IsGraph, Nodes
<1>3. StateOK(t1, regions, nodes)
  <2>1. IsNode(v) /\ v.region = N(s).region /\ v.ports = N(s).ports
    BY <1>2, NodeFields
  <2> HIDE DEF v
  <2> QED
    BY <2>1, SetNode
<1> HIDE DEF t1
<1>4. StateOK(t2, regions, nodes)
  <2>1. IsNode(w) /\ w.region = N(t1).region /\ w.ports = N(t1).ports
    BY <1>2, <1>3, NodeFields
  <2> HIDE DEF w
  <2> QED
    BY <1>3, <2>1, SetNode
<1> HIDE DEF t2
<1>5. StateOK(t3, regions, nodes)
  <2>1. IsNode(u) /\ u.region = N(t2).region /\ u.ports = N(t2).ports
    BY <1>2, <1>4, NodeFields
  <2> HIDE DEF u
  <2> QED
    BY <1>4, <2>1, SetNode
<1> QED
  BY <1>1, <1>5

\* An order of ports leaves the parser's state right.
LEMMA OrderKept ==
  ASSUME NEW s, NEW regions, NEW nodes, StateOK(s, regions, nodes), NEW n \in 1 .. nodes, NEW order
  PROVE  StateOK([s EXCEPT !.graph = arc_node_set_cyclic_order(s.graph, n, order)], regions, nodes)
<1> DEFINE h == arc_node_set_cyclic_order(s.graph, n, order)
<1>1. Becoming(h, Len(s.graph.regions), Len(s.graph.nodes), Len(s.graph.ports))
  BY SetCyclicOrder DEF StateOK, Nodes
<1> HIDE DEF h
<1>2. StateOK([s EXCEPT !.graph = h], regions, nodes)
  BY <1>1, StateGraph
<1> QED
  BY <1>2 DEF h

\* parse_cyclic_spec leaves the parser's state right.
LEMMA CyclicSpec ==
  ASSUME NEW s, NEW regions, NEW nodes, StateOK(s, regions, nodes), NEW n \in 1 .. nodes, NEW x, NEW roles
  PROVE  StateOK(parse_cyclic_spec(s, x, n, roles), regions, nodes)
<1> DEFINE known == SelectSeq(roles, LAMBDA role : find_port(s, x, role) # Invalid)
           order == [i \in DOMAIN known |-> find_port(s, x, known[i])]
<1>1. parse_cyclic_spec(s, x, n, roles)
        = IF roles = <<>> \/ order = <<>> THEN s ELSE [s EXCEPT !.graph = arc_node_set_cyclic_order(s.graph, n, order)]
  BY DEF parse_cyclic_spec, StateOK
<1> HIDE DEF order
<1> QED
  BY <1>1, OrderKept

\* The default ports are finitely many.
LEMMA DefaultCount == \A kind : Len(default_ports(kind)) \in Nat
<1> TAKE kind
<1>1. default_ports(kind) \in {<<>>, <<"out">>, <<"lhs", "rhs", "out">>, <<"value", "out">>, <<"value">>,
        <<"cond">>, <<"func", "out">>, <<"container", "key", "value">>,
        <<"value", "start", "end", "out">>, <<"record", "value", "out">>}
  BY DEF default_ports
<1> HIDE DEF default_ports
<1> QED
  BY <1>1

-----------------------------------------------------------------------------
(* The inductive invariant.                                                *)

\* Lines of a text.
LinesOK(ls) ==
  /\ IsSeq(ls)
  /\ \A i \in 1 .. Len(ls) : /\ ls[i][1] = "node" => IsSeq(ls[i][7])
                             /\ ls[i][1] = "circle" => ls[i][4] \in Nat
\* A layout whose positions are of nodes of the graph.
GeoOK(l, regions, nodes) ==
  /\ l = [circles |-> l.circles, positions |-> l.positions] /\ LayoutOK(l, regions)
  /\ \A i \in 1 .. Len(l.positions) : l.positions[i].id \in 1 .. nodes

LayoutInv ==
  /\ LinesOK(lines) /\ GraphOK(graph) /\ NamesOK(names, graph)
  /\ GeoOK(geo, Len(graph.regions), Len(graph.nodes))
  /\ lines # <<>> => report = NoReport

\* What a line may do to the graph: it stays right, and grows.
Grown(h, ns, g) ==
  GraphOK(h) /\ NamesOK(ns, h) /\ Len(g.regions) <= Len(h.regions) /\ Len(g.nodes) <= Len(h.nodes)

\* The lines after the first.
LEMMA TailLines ==
  ASSUME NEW ls, LinesOK(ls), ls # <<>>
  PROVE  LinesOK(Tail(ls)) /\ Head(ls) = ls[1] /\ 1 \in 1 .. Len(ls)
<1> DEFINE S == Range(ls)
<1>1. ls \in Seq(S)
  BY DEF LinesOK, IsSeq
<1> HIDE DEF S
<1>2. Tail(ls) \in Seq(S) /\ Len(Tail(ls)) = Len(ls) - 1 /\ Len(ls) \in Nat /\ Len(ls) > 0
  BY <1>1
<1>3. \A i \in 1 .. Len(Tail(ls)) : Tail(ls)[i] = ls[i + 1] /\ i + 1 \in 1 .. Len(ls)
  BY <1>1, <1>2
<1>4. IsSeq(Tail(ls))
  BY <1>2, IsSeqOver
<1>5. Head(ls) = ls[1]
  BY <1>1
<1>6. ASSUME NEW i \in 1 .. Len(Tail(ls))
      PROVE  /\ Tail(ls)[i][1] = "node" => IsSeq(Tail(ls)[i][7])
             /\ Tail(ls)[i][1] = "circle" => Tail(ls)[i][4] \in Nat
  <2>1. Tail(ls)[i] = ls[i + 1] /\ i + 1 \in 1 .. Len(ls)
    BY <1>3
  <2>2. \A j \in 1 .. Len(ls) : (ls[j][1] = "node" => IsSeq(ls[j][7])) /\ (ls[j][1] = "circle" => ls[j][4] \in Nat)
    BY DEF LinesOK
  <2> QED
    BY <2>1, <2>2
<1> QED
  BY <1>2, <1>4, <1>5, <1>6 DEF LinesOK

\* A layout for a graph is one for a larger graph.
LEMMA GeoKept ==
  ASSUME NEW l, NEW g, NEW h, GraphOK(g), GraphOK(h), GeoOK(l, Len(g.regions), Len(g.nodes)),
         Len(g.regions) <= Len(h.regions), Len(g.nodes) <= Len(h.nodes)
  PROVE  GeoOK(l, Len(h.regions), Len(h.nodes))
<1>1. /\ Len(g.regions) \in Nat /\ Len(g.nodes) \in Nat /\ Len(h.regions) \in Nat /\ Len(h.nodes) \in Nat
  BY GraphLengths DEF GraphOK
<1>2. \A r \in 1 .. Len(g.regions) : r \in 1 .. Len(h.regions)
  BY <1>1
<1>3. \A n \in 1 .. Len(g.nodes) : n \in 1 .. Len(h.nodes)
  BY <1>1
<1> QED
  BY <1>2, <1>3 DEF GeoOK, LayoutOK

\* A line that is done, or in error, leaves the invariant.
LEMMA LineStep ==
  ASSUME LayoutInv, lines # <<>>, lines' = Tail(lines) \/ lines' = lines, report' = report, geo' = geo,
         Grown(graph', names', graph)
  PROVE  LayoutInv'
<1>1. LinesOK(lines')
  BY TailLines DEF LayoutInv
<1>2. report' = NoReport
  BY DEF LayoutInv
<1>3. GraphOK(graph) /\ GraphOK(graph') /\ NamesOK(names', graph')
      /\ Len(graph.regions) <= Len(graph'.regions) /\ Len(graph.nodes) <= Len(graph'.nodes)
  BY DEF LayoutInv, Grown
<1>4. GeoOK(geo, Len(graph.regions), Len(graph.nodes))
  BY DEF LayoutInv
<1>5. GeoOK(geo', Len(graph'.regions), Len(graph'.nodes))
  BY <1>3, <1>4, GeoKept
<1> QED
  BY <1>1, <1>2, <1>3, <1>5 DEF LayoutInv

\* A line that leaves the graph as it is.
LEMMA SameGraph ==
  ASSUME LayoutInv, graph' = graph, names' = names
  PROVE  Grown(graph', names', graph)
<1>1. GraphOK(graph) /\ NamesOK(names, graph) /\ Len(graph.regions) \in Nat /\ Len(graph.nodes) \in Nat
  BY GraphLengths DEF LayoutInv, GraphOK
<1> QED
  BY <1>1 DEF Grown

\* A line in error.
LEMMA ErrorStep ==
  ASSUME LayoutInv, lines # <<>>, perr
  PROVE  LayoutInv'
  BY SameGraph, LineStep DEF perr

\* A graph and names that are right, of at least the size.
LEMMA GrownState ==
  ASSUME NEW s, NEW regions, NEW nodes, StateOK(s, regions, nodes), NEW g, Len(g.regions) <= regions, Len(g.nodes) <= nodes
  PROVE  Grown(s.graph, s.names, g)
  BY DEF StateOK, Grown

\* The parser's state, and the regions it finds.
LEMMA ParsingOK ==
  ASSUME LayoutInv
  PROVE  /\ StateOK(Parsing, Len(graph.regions), Len(graph.nodes))
         /\ Parsing.graph = graph /\ Parsing.names = names
         /\ \A x : find_region(Parsing, x) # Invalid => find_region(Parsing, x) \in Regions(graph)
         /\ \A x : find_node(Parsing, x) # Invalid => find_node(Parsing, x) \in Nodes(graph)
<1>1. Parsing.graph = graph /\ Parsing.names = names
  BY DEF Parsing
<1>2. StateOK(Parsing, Len(graph.regions), Len(graph.nodes))
  BY StateIs DEF LayoutInv, Parsing
<1>3. /\ IsSeq(names.regions) /\ Len(names.regions) = Len(graph.regions) /\ Len(graph.regions) \in Nat
      /\ IsSeq(names.nodes) /\ \A i \in 1 .. Len(names.nodes) : names.nodes[i].id \in Nodes(graph)
  BY GraphLengths DEF LayoutInv, NamesOK, GraphOK
<1>4. ASSUME NEW x, find_region(Parsing, x) # Invalid PROVE find_region(Parsing, x) \in Regions(graph)
  <2>1. find_region(Parsing, x) \in 0 .. Len(Parsing.names.regions)
    BY <1>1, <1>3, FindRegion
  <2> QED
    BY <1>1, <1>3, <1>4, <2>1 DEF Invalid, Regions
<1>5. ASSUME NEW x, find_node(Parsing, x) # Invalid PROVE find_node(Parsing, x) \in Nodes(graph)
  <2>1. \/ find_node(Parsing, x) = 0
        \/ \E i \in 1 .. Len(Parsing.names.nodes) : find_node(Parsing, x) = Parsing.names.nodes[i].id
    BY <1>1, <1>3, FindNode
  <2> QED
    BY <1>1, <1>3, <1>5, <2>1 DEF Invalid
<1> QED
  BY <1>1, <1>2, <1>4, <1>5

\* A port that is found by name is in the graph.
LEMMA PortFound ==
  ASSUME NEW s, NEW regions, NEW nodes, StateOK(s, regions, nodes), NEW x, NEW role,
         find_port(s, x, role) # Invalid
  PROVE  find_port(s, x, role) \in Ports(s.graph)
<1>1. IsSeq(s.names.ports) /\ \A i \in 1 .. Len(s.names.ports) : s.names.ports[i].id \in Ports(s.graph)
  BY DEF StateOK, NamesOK
<1>2. \/ find_port(s, x, role) = 0
      \/ \E i \in 1 .. Len(s.names.ports) : find_port(s, x, role) = s.names.ports[i].id
  BY <1>1, FindPort
<1> QED
  BY <1>1, <1>2 DEF Invalid

-----------------------------------------------------------------------------
(* The steps of the parser.                                                *)

\* The command region keeps the invariant.
LEMMA RegionStep ==
  ASSUME LayoutInv, parse_cmd_region
  PROVE  LayoutInv'
<1> DEFINE k == arc_graph_add_region(graph, find_region(Parsing, word[3]))
           x == IF k.root_region = Invalid THEN 1 ELSE k.root_region
           h == [k EXCEPT !.root_region = x]
           l == Append(names.regions, word[2])
           ms == [names EXCEPT !.regions = l]
<1>1. GraphOK(graph) /\ NamesOK(names, graph)
  BY DEF LayoutInv
<1>2. Becoming(k, Len(graph.regions) + 1, Len(graph.nodes), Len(graph.ports))
  BY <1>1, AddRegion
<1>3. /\ graph' = [k EXCEPT !.root_region = IF @ = Invalid THEN 1 ELSE @]
      /\ names' = ms
  BY <1>1 DEF parse_cmd_region, NamesOK
<1> HIDE DEF k
<1>13. k.root_region = k.root_region /\ graph' = h
  <2>1. k = [regions |-> k.regions, nodes |-> k.nodes, ports |-> k.ports, edges |-> k.edges,
             root_region |-> k.root_region, output_node |-> k.output_node]
    BY <1>2 DEF Becoming, GraphOK, IsGraph
  <2> QED
    BY <1>3, <2>1
<1>4. ms = [regions |-> l, nodes |-> names.nodes, ports |-> names.ports]
  <2>1. names = [regions |-> names.regions, nodes |-> names.nodes, ports |-> names.ports]
    BY <1>1 DEF NamesOK
  <2> HIDE DEF l
  <2> QED
    BY <2>1
<1> HIDE DEF x
<1>5. /\ GraphOK(h) /\ Len(h.regions) = Len(graph.regions) + 1 /\ Len(h.nodes) = Len(graph.nodes)
      /\ Len(h.ports) = Len(graph.ports)
  BY <1>2, WithRoot DEF Becoming
<1> HIDE DEF h, ms
<1>6. Len(graph.regions) \in Nat /\ Len(graph.nodes) \in Nat /\ Len(graph.ports) \in Nat
  BY <1>1, GraphLengths DEF GraphOK
<1>7. IsSeq(l) /\ Len(l) = Len(h.regions)
  BY <1>1, <1>5, AppendSeq DEF NamesOK
<1> HIDE DEF l
<1>8. NamesOK(ms, h)
  <2>1. ms.regions = l /\ ms.nodes = names.nodes /\ ms.ports = names.ports
    BY <1>4
  <2>2. Nodes(h) = Nodes(graph) /\ Ports(h) = Ports(graph)
    BY <1>5 DEF Nodes, Ports
  <2> QED
    BY <1>1, <1>4, <1>7, <2>1, <2>2 DEF NamesOK
<1>9. Grown(graph', names', graph)
  <2>1. graph' = h /\ names' = ms
    BY <1>3, <1>13
  <2>2. Len(graph.regions) <= Len(h.regions) /\ Len(graph.nodes) <= Len(h.nodes)
    BY <1>5, <1>6
  <2> QED
    BY <1>5, <1>8, <2>1, <2>2 DEF Grown
<1> QED
  BY <1>9, LineStep DEF parse_cmd_region, Line, Parsed

\* The command node keeps it, through the six parts of the line.
LEMMA NodeStep ==
  ASSUME LayoutInv, parse_cmd_node
  PROVE  LayoutInv'
<1> DEFINE x == word[2]
           kind == word[3]
           r == find_region(Parsing, word[4])
           n == Len(graph.nodes) + 1
           new == [graph |-> arc_graph_add_node(graph, kind, r),
                   names |-> [names EXCEPT !.nodes = Append(@, [name |-> x, id |-> n])]]
           attrs == [new EXCEPT !.graph.nodes[n].attr = word[5],
                                !.graph.nodes[n].bodies = Bodies(Parsing, kind, word[6]),
                                !.graph.nodes[n].listed = word[7] # <<>> \/ word[8] # <<>>]
           ports == add_default_ports(attrs, x, n, default_ports(kind))
           ordered == [ports EXCEPT !.graph = arc_node_set_cyclic_order(@, n, add_binary_order(kind, @.nodes[n].ports))]
           listed == add_ports(ordered, x, n, word[7])
           done == parse_cyclic_spec(listed, x, n, word[8])
<1>1. lines # <<>> /\ word[1] = "node"
  BY DEF parse_cmd_node, Line, word
<1>2. CASE r = Invalid
  BY <1>1, <1>2, ErrorStep DEF parse_cmd_node
<1>3. CASE r # Invalid
  <2> DEFINE R == Len(graph.regions)
  <2>1. /\ graph' = done.graph /\ names' = done.names /\ lines' = Tail(lines) /\ report' = report /\ geo' = geo
    BY <1>3 DEF parse_cmd_node, Becomes, Parsed
  <2>2. IsSeq(word[7])
    BY <1>1, TailLines DEF LayoutInv, LinesOK, word
  <2>3. Len(word[7]) \in Nat /\ Len(default_ports(kind)) \in Nat
    BY <2>2, SeqIs, DefaultCount
  <2>4. /\ GraphOK(graph) /\ NamesOK(names, graph) /\ r \in Regions(graph) /\ n \in 1 .. n
        /\ Len(graph.regions) <= R /\ Len(graph.nodes) <= n
    BY <1>3, ParsingOK, GraphLengths DEF LayoutInv, GraphOK
  <2>5. StateOK(new, R, n)
    BY <2>4, NewNode
  <2> HIDE DEF new
  <2>6. StateOK(attrs, R, n)
    BY <2>4, <2>5, SetAttributes
  <2> HIDE DEF attrs
  <2>7. StateOK(ports, R, n)
    BY <2>3, <2>4, <2>6, PortsForKeeps DEF add_default_ports
  <2> HIDE DEF ports
  <2>8. StateOK(ordered, R, n)
    <3> DEFINE order == add_binary_order(kind, ports.graph.nodes[n].ports)
    <3>1. ordered = [ports EXCEPT !.graph = arc_node_set_cyclic_order(ports.graph, n, order)]
      BY <2>7 DEF StateOK
    <3> HIDE DEF order
    <3> QED
      BY <2>4, <2>7, <3>1, OrderKept
  <2> HIDE DEF ordered
  <2>9. StateOK(listed, R, n)
    BY <2>3, <2>4, <2>8, PortsForKeeps DEF add_ports
  <2> HIDE DEF listed
  <2>10. StateOK(done, R, n)
    BY <2>4, <2>9, CyclicSpec
  <2> HIDE DEF done
  <2>11. Grown(graph', names', graph)
    BY <2>1, <2>4, <2>10, GrownState
  <2> QED
    BY <1>1, <2>1, <2>11, LineStep
<1> QED
  BY <1>2, <1>3

\* One more port, or none.
LEMMA OnePort ==
  ASSUME NEW s, NEW regions, NEW nodes, StateOK(s, regions, nodes), NEW x, NEW role, NEW n \in 1 .. nodes
  PROVE  LET t == add_ports(s, x, n, <<role>>) IN
         StateOK(t, regions, nodes) /\ \A p \in Ports(s.graph) : p \in Ports(t.graph)
<1> DEFINE t == add_ports(s, x, n, <<role>>)
           h == arc_graph_add_port(s.graph, n, IF role \in Inputs THEN "input" ELSE "output")
           roles == <<role>>
<1>1. Len(roles) = 1
  OBVIOUS
<1> HIDE DEF roles
<1> DEFINE again == FALSE
<1>7. t = PortsFor(s, x, n, roles, again)
  BY DEF add_ports, roles
<1> HIDE DEF again
<1> DEFINE count == Len(roles)
<1>10. Len(roles) \in Nat
  BY <1>1
<1>9. PICK a : PortSteps(a, s, x, n, roles, again)
  BY <1>10, PortsForSteps
<1>2. /\ a[0] = s
      /\ \A i \in 1 .. count : a[i] = IF again \/ find_port(a[i - 1], x, roles[i]) = Invalid
                                      THEN register_port(a[i - 1], x, roles[i], n)
                                      ELSE a[i - 1]
      /\ PortsFor(s, x, n, roles, again) = a[count]
  BY <1>9 DEF PortSteps
<1> HIDE DEF t
<1>8. 1 \in 1 .. count /\ 1 - 1 = 0 /\ count = 1
  BY <1>1
<1>3. t = s \/ t = register_port(s, x, roles[1], n)
  <2>1. a[1] = IF again \/ find_port(a[1 - 1], x, roles[1]) = Invalid
               THEN register_port(a[1 - 1], x, roles[1], n) ELSE a[1 - 1]
    BY <1>2, <1>8
  <2> QED
    BY <1>2, <1>7, <1>8, <2>1
<1>4. roles[1] = role
  BY DEF roles
<1>5. CASE t = s
  BY <1>5 DEF t
<1>6. CASE t # s
  <2>1. t = register_port(s, x, role, n)
    BY <1>3, <1>4, <1>6
  <2>2. StateOK(t, regions, nodes)
    BY <2>1, RegisterPort
  <2>3. t.graph = h
    BY <2>1 DEF register_port
  <2>4. Becoming(h, Len(s.graph.regions), Len(s.graph.nodes), Len(s.graph.ports) + 1) /\ Len(s.graph.ports) \in Nat
    BY AddPort, GraphLengths DEF StateOK, Nodes, GraphOK
  <2> HIDE DEF h
  <2>5. \A p \in Ports(s.graph) : p \in Ports(h)
    BY <2>4 DEF Becoming, Ports
  <2> QED
    BY <2>2, <2>3, <2>5 DEF t
<1> QED
  BY <1>5, <1>6

\* The command edge keeps it, also when the line is in error after a port was made.
LEMMA EdgeStep ==
  ASSUME LayoutInv, parse_cmd_edge
  PROVE  LayoutInv'
<1> DEFINE from == word[2]
           to == word[3]
           n == find_node(Parsing, to[1])
           s == IF to[2] \in {"arg0", "item0"} /\ n # Invalid THEN add_ports(Parsing, to[1], n, <<to[2]>>)
                ELSE Parsing
           a == find_port(Parsing, from[1], from[2])
           b == find_port(s, to[1], to[2])
           h == arc_graph_add_edge(s.graph, a, b)
           R == Len(graph.regions)
           N == Len(graph.nodes)
<1>1. /\ lines # <<>>
      /\ \/ /\ a = Invalid \/ b = Invalid
            /\ graph' = s.graph /\ names' = s.names /\ lines' = lines /\ geo' = geo /\ report' = report
         \/ /\ a # Invalid /\ b # Invalid
            /\ graph' = [s EXCEPT !.graph = arc_graph_add_edge(@, a, b)].graph
            /\ names' = [s EXCEPT !.graph = arc_graph_add_edge(@, a, b)].names
            /\ lines' = Tail(lines) /\ geo' = geo /\ report' = report
  BY DEF parse_cmd_edge, Line, Becomes, Parsed
<1>2. StateOK(Parsing, R, N) /\ Parsing.graph = graph /\ R <= R /\ N <= N
  BY ParsingOK, GraphLengths DEF LayoutInv, GraphOK
<1>3. StateOK(s, R, N) /\ \A p \in Ports(Parsing.graph) : p \in Ports(s.graph)
  <2>1. CASE to[2] \in {"arg0", "item0"} /\ n # Invalid
    <3>1. n \in 1 .. N
      BY <2>1, ParsingOK DEF Nodes
    <3> DEFINE role == to[2]
    <3>2. s = add_ports(Parsing, to[1], n, <<role>>)
      BY <2>1
    <3> HIDE DEF role, n, s
    <3> QED
      BY <1>2, <3>1, <3>2, OnePort
  <2>2. CASE ~ (to[2] \in {"arg0", "item0"} /\ n # Invalid)
    <3>1. s = Parsing
      BY <2>2
    <3> QED
      BY <1>2, <3>1
  <2> QED
    BY <2>1, <2>2
<1> HIDE DEF s
<1>4. a # Invalid => a \in Ports(s.graph)
  BY <1>2, <1>3, PortFound
<1>5. b # Invalid => b \in Ports(s.graph)
  BY <1>3, PortFound
<1> HIDE DEF a, b
<1>6. CASE a = Invalid \/ b = Invalid
  <2>1. Grown(graph', names', graph)
    BY <1>1, <1>2, <1>3, <1>6, GrownState
  <2> QED
    BY <1>1, <1>6, <2>1, LineStep
<1>7. CASE a # Invalid /\ b # Invalid
  <2>1. Becoming(h, Len(s.graph.regions), Len(s.graph.nodes), Len(s.graph.ports))
    BY <1>3, <1>4, <1>5, <1>7, AddEdge DEF StateOK
  <2>2. [s EXCEPT !.graph = arc_graph_add_edge(@, a, b)] = [s EXCEPT !.graph = h]
    BY <1>3 DEF StateOK
  <2> HIDE DEF h
  <2> DEFINE t == [s EXCEPT !.graph = h]
  <2>3. StateOK(t, R, N)
    BY <1>3, <2>1, StateGraph
  <2>4. graph' = t.graph /\ names' = t.names
    BY <1>1, <1>7, <2>2
  <2> HIDE DEF t
  <2>5. Grown(graph', names', graph)
    BY <1>2, <2>3, <2>4, GrownState
  <2> QED
    BY <1>1, <1>7, <2>5, LineStep
<1> QED
  BY <1>6, <1>7

\* The command root keeps it.
LEMMA RootStep ==
  ASSUME LayoutInv, parse_cmd_root
  PROVE  LayoutInv'
<1> DEFINE n == find_node(Parsing, word[2])
           src == find_port(Parsing, word[2], word[3])
           out == Len(graph.nodes) + 1
           k == arc_graph_add_node(graph, "ROOT_OUTPUT", graph.nodes[n].region)
           g == arc_graph_add_port(k, out, "input")
           h == arc_graph_add_edge(g, src, Len(g.ports))
<1>1. /\ lines # <<>> /\ lines' = Tail(lines) /\ report' = report /\ names' = names /\ geo' = geo
      /\ graph' = IF n = Invalid THEN graph
                  ELSE IF word[3] = NotGiven THEN [graph EXCEPT !.output_node = n]
                  ELSE IF src = Invalid THEN graph
                  ELSE [h EXCEPT !.output_node = out]
  BY DEF parse_cmd_root, Line, Parsed
<1>2. GraphOK(graph) /\ NamesOK(names, graph)
  BY DEF LayoutInv
<1>3. Len(graph.regions) \in Nat /\ Len(graph.nodes) \in Nat /\ Len(graph.ports) \in Nat
  BY <1>2, GraphLengths DEF GraphOK
<1>4. Grown(graph, names, graph)
  BY <1>2, <1>3 DEF Grown
<1>5. Grown([graph EXCEPT !.output_node = n], names, graph)
  <2> DEFINE t == [graph EXCEPT !.output_node = n]
  <2>1. /\ GraphOK(t) /\ Len(t.regions) = Len(graph.regions) /\ Len(t.nodes) = Len(graph.nodes)
        /\ Len(t.ports) = Len(graph.ports)
    BY <1>2, WithRoot
  <2> HIDE DEF t
  <2>2. Nodes(t) = Nodes(graph) /\ Ports(t) = Ports(graph)
    BY <2>1 DEF Nodes, Ports
  <2>3. NamesOK(names, t)
    BY <1>2, <2>1, <2>2 DEF NamesOK
  <2>4. Grown(t, names, graph)
    BY <1>3, <2>1, <2>3 DEF Grown
  <2> QED
    BY <2>4 DEF t
<1>6. ASSUME n # Invalid, src # Invalid PROVE Grown([h EXCEPT !.output_node = out], names, graph)
  <2>1. n \in Nodes(graph) /\ src \in Ports(graph)
    BY <1>6, ParsingOK, PortFound
  <2>2. graph.nodes[n].region \in Regions(graph)
    BY <1>2, <2>1 DEF GraphOK, MembersOK, Nodes, Regions
  <2>3. Becoming(k, Len(graph.regions), out, Len(graph.ports))
    BY <1>2, <2>2, AddNode
  <2> HIDE DEF k
  <2>4. Becoming(g, Len(k.regions), Len(k.nodes), Len(k.ports) + 1)
    <3>1. GraphOK(k) /\ out \in Nodes(k)
      BY <1>3, <2>3 DEF Becoming, Nodes
    <3> HIDE DEF out
    <3> QED
      BY <3>1, AddPort
  <2> HIDE DEF g, n, src
  <2>5. GraphOK(g) /\ src \in Ports(g) /\ Len(g.ports) \in Ports(g)
    BY <1>3, <2>1, <2>3, <2>4 DEF Becoming, Ports
  <2>6. Becoming(h, Len(g.regions), Len(g.nodes), Len(g.ports))
    BY <2>5, AddEdge
  <2> HIDE DEF h
  <2> DEFINE t == [h EXCEPT !.output_node = out]
  <2>7. /\ GraphOK(t) /\ Len(t.regions) = Len(h.regions) /\ Len(t.nodes) = Len(h.nodes)
        /\ Len(t.ports) = Len(h.ports)
    BY <2>6, WithRoot DEF Becoming
  <2> HIDE DEF t
  <2>8. Becoming(t, Len(graph.regions), out, Len(graph.ports) + 1)
    BY <2>3, <2>4, <2>6, <2>7 DEF Becoming
  <2>9. out \in Nat /\ Len(graph.ports) + 1 \in Nat /\ Len(graph.nodes) <= out /\ Len(graph.ports) <= Len(graph.ports) + 1
    BY <1>3
  <2>10. NamesOK(names, t)
    BY <1>2, <2>8, <2>9, NamesKept
  <2>11. Grown(t, names, graph)
    BY <1>3, <2>8, <2>9, <2>10 DEF Grown, Becoming
  <2> QED
    BY <2>11 DEF t
<1>7. Grown(graph', names', graph)
  <2> HIDE DEF n, src, h, out
  <2> QED
    BY <1>1, <1>4, <1>5, <1>6
<1> QED
  BY <1>1, <1>7, LineStep

\* The architecture is apart from the graph.
LEMMA ArchStep ==
  ASSUME LayoutInv, parse_cmd_sealed \/ parse_cmd_capability \/ parse_cmd_channel
  PROVE  LayoutInv'
<1>1. \/ lines # <<>> /\ perr
      \/ lines # <<>> /\ lines' = Tail(lines) /\ report' = report /\ geo' = geo /\ graph' = graph /\ names' = names
  BY DEF parse_cmd_sealed, parse_cmd_capability, parse_cmd_channel, Declare, Line, Parsed
<1> QED
  BY <1>1, ErrorStep, SameGraph, LineStep

\* A line that adds to the layout.
LEMMA GeoStep ==
  ASSUME LayoutInv, lines # <<>>, lines' = Tail(lines), report' = report, graph' = graph, names' = names,
         GeoOK(geo', Len(graph.regions), Len(graph.nodes))
  PROVE  LayoutInv'
<1>1. LinesOK(lines')
  BY TailLines DEF LayoutInv
<1> QED
  BY <1>1 DEF LayoutInv

\* The command circle keeps it.
LEMMA CircleStep ==
  ASSUME LayoutInv, parse_cmd_circle
  PROVE  LayoutInv'
<1> DEFINE r == find_region(Parsing, word[2])
           c == [region |-> r, center |-> word[3], radius |-> word[4]]
           R == Len(graph.regions)
           N == Len(graph.nodes)
<1>1. lines # <<>> /\ word[1] = "circle"
  BY DEF parse_cmd_circle, Line, word
<1>2. CASE r = Invalid
  BY <1>1, <1>2, ErrorStep DEF parse_cmd_circle
<1>3. CASE r # Invalid
  <2>1. /\ geo' = arc_geo_add_circle(geo, c)
        /\ lines' = Tail(lines) /\ report' = report /\ graph' = graph /\ names' = names
    BY <1>3 DEF parse_cmd_circle, Parsed
  <2>2. r \in 1 .. R
    BY <1>3, ParsingOK DEF Regions
  <2>3. word[4] \in Nat
    BY <1>1, TailLines DEF LayoutInv, LinesOK, word
  <2>4. c.region \in 1 .. R /\ c.radius \in Nat
    BY <2>2, <2>3
  <2> HIDE DEF c
  <2>5. GeoOK(geo, R, N)
    BY DEF LayoutInv
  <2> DEFINE l == Append(geo.circles, c)
  <2>6. /\ IsSeq(l) /\ Len(l) = Len(geo.circles) + 1 /\ Len(geo.circles) \in Nat
        /\ l[Len(geo.circles) + 1] = c /\ \A i \in 1 .. Len(geo.circles) : l[i] = geo.circles[i]
    BY <2>5, AppendSeq DEF GeoOK, LayoutOK
  <2>7. geo' = geo \/ geo' = [circles |-> l, positions |-> geo.positions]
    <3>1. geo = [circles |-> geo.circles, positions |-> geo.positions]
      BY <2>5 DEF GeoOK
    <3> QED
      BY <2>1, <3>1 DEF arc_geo_add_circle
  <2> HIDE DEF l
  <2>8. CASE geo' = geo
    BY <1>1, <2>1, <2>5, <2>8, GeoStep
  <2>9. CASE geo' = [circles |-> l, positions |-> geo.positions]
    <3> DEFINE k == geo'
    <3>1. k = [circles |-> l, positions |-> geo.positions]
      BY <2>9
    <3> HIDE DEF k
    <3>2. k.circles = l /\ k.positions = geo.positions
      BY <3>1
    <3>3. ASSUME NEW i \in 1 .. Len(l) PROVE l[i].region \in 1 .. R /\ l[i].radius \in Nat
      <4>1. i = Len(geo.circles) + 1 \/ i \in 1 .. Len(geo.circles)
        BY <2>6
      <4>2. \A j \in 1 .. Len(geo.circles) : geo.circles[j].region \in 1 .. R /\ geo.circles[j].radius \in Nat
        BY <2>5 DEF GeoOK, LayoutOK
      <4> QED
        BY <2>4, <2>6, <4>1, <4>2
    <3>4. LayoutOK(k, R)
      BY <2>5, <2>6, <3>2, <3>3 DEF LayoutOK, GeoOK
    <3>5. GeoOK(k, R, N)
      BY <2>5, <3>1, <3>2, <3>4 DEF GeoOK
    <3> QED
      BY <1>1, <2>1, <3>5, GeoStep DEF k
  <2> QED
    BY <2>7, <2>8, <2>9
<1> QED
  BY <1>2, <1>3

\* The command position keeps it.
LEMMA PositionStep ==
  ASSUME LayoutInv, parse_cmd_position
  PROVE  LayoutInv'
<1> DEFINE n == find_node(Parsing, word[2])
           c == [id |-> n, pos |-> word[3]]
           R == Len(graph.regions)
           N == Len(graph.nodes)
<1>1. lines # <<>>
  BY DEF parse_cmd_position, Line
<1>2. CASE n = Invalid
  BY <1>1, <1>2, ErrorStep DEF parse_cmd_position
<1>3. CASE n # Invalid
  <2>1. /\ geo' = arc_geo_add_position(geo, n, word[3])
        /\ lines' = Tail(lines) /\ report' = report /\ graph' = graph /\ names' = names
    BY <1>3 DEF parse_cmd_position, Parsed
  <2>2. n \in 1 .. N
    BY <1>3, ParsingOK DEF Nodes
  <2>4. c.id \in 1 .. N
    BY <2>2
  <2>5. GeoOK(geo, R, N)
    BY DEF LayoutInv
  <2> DEFINE l == Append(geo.positions, c)
  <2>7. geo' = geo \/ geo' = [circles |-> geo.circles, positions |-> l]
    <3>1. geo = [circles |-> geo.circles, positions |-> geo.positions]
      BY <2>5 DEF GeoOK
    <3> QED
      BY <2>1, <3>1 DEF arc_geo_add_position
  <2> HIDE DEF c
  <2>6. /\ IsSeq(l) /\ Len(l) = Len(geo.positions) + 1 /\ Len(geo.positions) \in Nat
        /\ l[Len(geo.positions) + 1] = c /\ \A i \in 1 .. Len(geo.positions) : l[i] = geo.positions[i]
    BY <2>5, AppendSeq DEF GeoOK, LayoutOK
  <2> HIDE DEF l
  <2>8. CASE geo' = geo
    BY <1>1, <2>1, <2>5, <2>8, GeoStep
  <2>9. CASE geo' = [circles |-> geo.circles, positions |-> l]
    <3> DEFINE k == geo'
    <3>1. k = [circles |-> geo.circles, positions |-> l]
      BY <2>9
    <3> HIDE DEF k
    <3>2. k.circles = geo.circles /\ k.positions = l
      BY <3>1
    <3>3. ASSUME NEW i \in 1 .. Len(l) PROVE l[i].id \in 1 .. N
      <4>1. i = Len(geo.positions) + 1 \/ i \in 1 .. Len(geo.positions)
        BY <2>6
      <4>2. \A j \in 1 .. Len(geo.positions) : geo.positions[j].id \in 1 .. N
        BY <2>5 DEF GeoOK
      <4> QED
        BY <2>4, <2>6, <4>1, <4>2
    <3>4. LayoutOK(k, R)
      BY <2>5, <2>6, <3>2 DEF LayoutOK, GeoOK
    <3>5. GeoOK(k, R, N)
      BY <3>1, <3>2, <3>3, <3>4 DEF GeoOK
    <3> QED
      BY <1>1, <2>1, <3>5, GeoStep DEF k
  <2> QED
    BY <2>7, <2>8, <2>9
<1> QED
  BY <1>2, <1>3

\* A line keeps it, whatever its command.
LEMMA ParseStep ==
  ASSUME LayoutInv, parse_line
  PROVE  LayoutInv'
<1>1. CASE lines # <<>> /\ ~ had_error /\ Head(lines)[1] \notin Commands /\ perr
  BY <1>1, ErrorStep
<1> QED
  BY <1>1, RegionStep, NodeStep, EdgeStep, RootStep, ArchStep, CircleStep, PositionStep DEF parse_line

\* A derivation leaves a graph of the same size.
LEMMA DerivedGraph ==
  ASSUME NEW g, GraphOK(g), NEW layout, LayoutOK(layout, Len(g.regions))
  PROVE  Becoming(derive_regions(g, layout).graph, Len(g.regions), Len(g.nodes), Len(g.ports))
  BY DeriveKeeps DEF DerivedOK

\* A step that leaves the sizes of the graph keeps it.
LEMMA SameSize ==
  ASSUME LayoutInv, lines = <<>>, lines' = lines, names' = names, geo' = geo,
         Becoming(graph', Len(graph.regions), Len(graph.nodes), Len(graph.ports))
  PROVE  LayoutInv'
<1>1. GraphOK(graph) /\ NamesOK(names, graph) /\ GeoOK(geo, Len(graph.regions), Len(graph.nodes))
  BY DEF LayoutInv
<1>2. Nodes(graph') = Nodes(graph) /\ Ports(graph') = Ports(graph) /\ Len(graph'.regions) = Len(graph.regions)
      /\ Len(graph'.nodes) = Len(graph.nodes) /\ GraphOK(graph')
  BY DEF Becoming, Nodes, Ports
<1>3. NamesOK(names, graph')
  BY <1>1, <1>2 DEF NamesOK
<1> QED
  BY <1>1, <1>2, <1>3 DEF LayoutInv

\* Deriving regions keeps it.
LEMMA DeriveStep ==
  ASSUME LayoutInv, arc_geo_derive_regions
  PROVE  LayoutInv'
<1>1. /\ lines = <<>> /\ lines' = lines /\ names' = names /\ geo' = geo
      /\ graph' = derive_regions(graph, geo).graph
  BY DEF arc_geo_derive_regions, Success
<1>2. GraphOK(graph) /\ LayoutOK(geo, Len(graph.regions))
  BY DEF LayoutInv, GeoOK
<1> QED
  BY <1>1, <1>2, DerivedGraph, SameSize

\* A layout to compare with is one for this graph.
LEMMA DeformationOK ==
  ASSUME NEW g, GraphOK(g), NEW after \in Deformations, CirclesKnown(g, after)
  PROVE  LayoutOK(after, Len(g.regions))
<1>1. IsSeq(after.circles) /\ IsSeq(after.positions) /\ \A i \in DOMAIN after.circles : after.circles[i].radius \in Nat
  BY DeformationsAssumption DEF IsSeq
<1>2. DOMAIN after.circles = 1 .. Len(after.circles) /\ DOMAIN g.regions = 1 .. Len(g.regions)
  BY <1>1, SeqIs, GraphLengths DEF GraphOK, Regions
<1> QED
  BY <1>1, <1>2 DEF LayoutOK, CirclesKnown

\* Comparing with another layout keeps it: two derivations, or one that is refused.
LEMMA DeformationStep ==
  ASSUME LayoutInv, arc_geo_deformation_stable
  PROVE  LayoutInv'
<1>1. PICK after \in Deformations :
        /\ CirclesKnown(graph, after)
        /\ graph' = IF derive_regions(graph, geo).valid
                    THEN derive_regions(derive_regions(graph, geo).graph, after).graph
                    ELSE derive_regions(graph, geo).graph
  BY DEF arc_geo_deformation_stable
<1>2. lines = <<>> /\ lines' = lines /\ names' = names /\ geo' = geo
  BY DEF arc_geo_deformation_stable, Success
<1>3. GraphOK(graph) /\ LayoutOK(geo, Len(graph.regions)) /\ LayoutOK(after, Len(graph.regions))
  BY <1>1, DeformationOK DEF LayoutInv, GeoOK
<1> DEFINE b == derive_regions(graph, geo)
           a == derive_regions(b.graph, after)
<1>4. Becoming(b.graph, Len(graph.regions), Len(graph.nodes), Len(graph.ports))
  BY <1>3, DerivedGraph
<1>6. graph' = a.graph \/ graph' = b.graph
  BY <1>1
<1> HIDE DEF b
<1>5. Becoming(a.graph, Len(graph.regions), Len(graph.nodes), Len(graph.ports))
  <2>1. GraphOK(b.graph) /\ LayoutOK(after, Len(b.graph.regions))
    BY <1>3, <1>4 DEF Becoming
  <2>2. Becoming(a.graph, Len(b.graph.regions), Len(b.graph.nodes), Len(b.graph.ports))
    BY <2>1, DerivedGraph
  <2> HIDE DEF a
  <2> QED
    BY <1>4, <2>2 DEF Becoming
<1> HIDE DEF a
<1> QED
  BY <1>2, <1>4, <1>5, <1>6, SameSize

\* An empty graph.
LEMMA InitInv == Init => LayoutInv
<1> SUFFICES ASSUME Init PROVE LayoutInv
  OBVIOUS
<1>1. /\ lines \in Texts /\ report = NoReport
      /\ graph = [regions |-> <<>>, nodes |-> <<>>, ports |-> <<>>, edges |-> <<>>,
                  root_region |-> Invalid, output_node |-> Invalid]
      /\ names = [regions |-> <<>>, nodes |-> <<>>, ports |-> <<>>]
      /\ geo = [circles |-> <<>>, positions |-> <<>>]
  BY DEF Init
<1>2. LinesOK(lines)
  <2>1. IsSeq(lines)
    BY <1>1, TextsAssumption DEF IsSeq
  <2>2. DOMAIN lines = 1 .. Len(lines)
    BY <2>1, SeqIs
  <2>3. \A i \in DOMAIN lines : /\ lines[i][1] = "node" => IsSeq(lines[i][7])
                                /\ lines[i][1] = "circle" => lines[i][4] \in Nat
    BY <1>1, TextsAssumption DEF IsSeq
  <2> QED
    BY <2>1, <2>2, <2>3 DEF LinesOK
<1> DEFINE e == <<>>
<1>3. IsSeq(e) /\ Len(e) = 0
  BY NoneIsSeq
<1>4. /\ graph = [regions |-> e, nodes |-> e, ports |-> e, edges |-> e, root_region |-> Invalid, output_node |-> Invalid]
      /\ names = [regions |-> e, nodes |-> e, ports |-> e] /\ geo = [circles |-> e, positions |-> e]
  BY <1>1
<1> HIDE DEF e
<1>5. /\ graph.regions = e /\ graph.nodes = e /\ graph.ports = e /\ graph.edges = e
      /\ names.regions = e /\ names.nodes = e /\ names.ports = e /\ geo.circles = e /\ geo.positions = e
  BY <1>4
<1>6. \A i \in 1 .. Len(e) : FALSE
  BY <1>3
<1>7. IsGraph(graph)
  BY <1>3, <1>4, <1>5, <1>6 DEF IsGraph, Regions, Nodes
<1>8. GraphOK(graph)
  BY <1>5, <1>6, <1>7 DEF GraphOK, MembersOK, PortsOK, EdgesOK
<1>9. NamesOK(names, graph)
  BY <1>3, <1>4, <1>5, <1>6 DEF NamesOK
<1>10. GeoOK(geo, Len(graph.regions), Len(graph.nodes))
  BY <1>3, <1>4, <1>5, <1>6 DEF GeoOK, LayoutOK
<1> QED
  BY <1>1, <1>2, <1>8, <1>9, <1>10 DEF LayoutInv

\* Every step keeps the invariant.
LEMMA LayoutStep == LayoutInv /\ [Next]_vars => LayoutInv'
<1> SUFFICES ASSUME LayoutInv, [Next]_vars PROVE LayoutInv'
  OBVIOUS
<1>1. CASE UNCHANGED vars
  BY <1>1 DEF vars, LayoutInv
<1>2. CASE Next
  BY <1>2, ParseStep, DeriveStep, DeformationStep DEF Next
<1> QED
  BY <1>1, <1>2

\* The invariant says that regions and nodes agree.
LEMMA AllMatch == LayoutInv => MembersMatch
<1> SUFFICES ASSUME LayoutInv PROVE MembersMatch
  OBVIOUS
<1> DEFINE regions == graph.regions
           nodes == graph.nodes
<1>1. /\ IsGraph(graph) /\ MembersOK(regions, nodes) /\ PortsOK(nodes, graph.ports)
      /\ EdgesOK(graph.ports, graph.edges)
  BY DEF LayoutInv, GraphOK
<1>2. /\ RegionIds = 1 .. Len(regions) /\ NodeIds = 1 .. Len(nodes) /\ PortIds = 1 .. Len(graph.ports)
      /\ DOMAIN graph.edges = 1 .. Len(graph.edges)
  BY <1>1, GraphLengths DEF RegionIds, NodeIds, PortIds, Regions, Nodes, Ports
<1>3. \A r \in 1 .. Len(regions) : IsSeq(regions[r].members)
  BY <1>1 DEF IsGraph, IsRegion, Regions
<1>4. \A r \in 1 .. Len(regions) : DOMAIN regions[r].members = 1 .. Len(regions[r].members)
  BY <1>3, SeqIs
<1>5. \A n \in 1 .. Len(nodes) : DOMAIN nodes[n].ports = 1 .. Len(nodes[n].ports)
  BY <1>1, SeqIs DEF IsGraph, IsNode, Nodes
<1>6. ASSUME NEW n \in 1 .. Len(nodes), NEW r \in 1 .. Len(regions)
      PROVE  Cardinality({i \in DOMAIN regions[r].members : regions[r].members[i] = n})
               = (IF nodes[n].region = r THEN 1 ELSE 0)
  <2> DEFINE m == regions[r].members
             I == {i \in DOMAIN m : m[i] = n}
  <2>1. CASE nodes[n].region = r
    <3>1. PICK i \in 1 .. Len(m) : m[i] = n
      BY <1>1, <2>1 DEF MembersOK
    <3>2. \A j \in 1 .. Len(m) : m[j] = m[i] => j = i
      BY <1>1 DEF MembersOK
    <3>3. I = {i}
      BY <1>4, <3>1, <3>2
    <3> QED
      BY <2>1, <3>3, FS_Singleton
  <2>2. CASE nodes[n].region # r
    <3>1. \A i \in 1 .. Len(m) : nodes[m[i]].region = r
      BY <1>1 DEF MembersOK
    <3>2. I = {}
      BY <1>4, <2>2, <3>1
    <3> QED
      BY <2>2, <3>2, FS_EmptySet
  <2> QED
    BY <2>1, <2>2
<1>7. ASSUME NEW r \in 1 .. Len(regions) PROVE ToSet(regions[r].members) \subseteq 1 .. Len(nodes)
  BY <1>1, <1>4 DEF MembersOK, ToSet
<1>8. \A n \in 1 .. Len(nodes) : nodes[n].region \in 1 .. Len(regions)
  BY <1>1 DEF MembersOK
<1>9. ASSUME NEW i \in 1 .. Len(graph.edges) PROVE ToSet(graph.edges[i]) \subseteq 1 .. Len(graph.ports)
  <2>1. PICK a \in 1 .. Len(graph.ports), b \in 1 .. Len(graph.ports) : graph.edges[i] = <<a, b>>
    BY <1>1 DEF EdgesOK
  <2> QED
    BY <2>1 DEF ToSet
<1>10. ASSUME NEW p \in 1 .. Len(graph.ports) PROVE p \in ToSet(nodes[graph.ports[p].owner].ports)
  BY <1>1, <1>5 DEF PortsOK, ToSet
<1> QED
  BY <1>2, <1>6, <1>7, <1>8, <1>9, <1>10 DEF MembersMatch

\* In every state that parsing, derivations and comparisons reach, for all texts
\* and all layouts: a node is listed once, and only by the region it says it is in
\* (remove_from_region and arc_region_add_member, containment.c:149), regions list
\* nodes that exist, edges connect ports that exist, and a port is listed by the node
\* that owns it.
THEOREM MembersSafe == Spec => []MembersMatch
<1>1. LayoutInv /\ [Next]_vars => LayoutInv'
  BY LayoutStep
<1> QED
  BY <1>1, InitInv, AllMatch, PTL DEF Spec

-----------------------------------------------------------------------------
(* What derivations say.                                                   *)

\* A set of indices that is not empty has a last one.
LEMMA LastIs ==
  ASSUME NEW n \in Nat, NEW I, I \subseteq 1 .. n, I # {}
  PROVE  Max(I) \in I /\ \A i \in I : i <= Max(I)
<1> DEFINE J == {n - i : i \in I}
<1>1. J \subseteq Nat /\ J # {}
  <2>1. \A i \in I : n - i \in Nat
    <3> TAKE i \in I
    <3>1. i \in 1 .. n
      OBVIOUS
    <3> QED
      BY <3>1
  <2> QED
    BY <2>1
<1>2. PICK k \in J : \A j \in J : k <= j
  <2> HIDE DEF J
  <2> QED
    BY <1>1, Least
<1>3. PICK m \in I : k = n - m
  BY <1>2
<1>4. \A i \in I : m >= i
  <2> TAKE i \in I
  <2>1. n - m <= n - i
    BY <1>2, <1>3
  <2> QED
    BY <2>1
<1>5. Max(I) \in I /\ \A i \in I : Max(I) >= i
  BY <1>3, <1>4 DEF Max
<1> QED
  BY <1>5

\* The last place of a value in a sequence, or 0.
LEMMA LastOf ==
  ASSUME NEW layout, IsSeq(layout.positions), NEW n, LastPosition(layout, n) # 0
  PROVE  LET i == LastPosition(layout, n) IN
         /\ i \in 1 .. Len(layout.positions) /\ Id(layout, i) = n
         /\ \A j \in 1 .. Len(layout.positions) : Id(layout, j) = n => j <= i
<1> DEFINE I == {i \in 1 .. Len(layout.positions) : layout.positions[i].id = n}
<1>1. LastPosition(layout, n) = IF I # {} THEN Max(I) ELSE 0
  BY DEF LastPosition, SelectLastInSeq
<1>2. Len(layout.positions) \in Nat /\ I \subseteq 1 .. Len(layout.positions)
  BY SeqIs
<1>3. \A i \in 1 .. Len(layout.positions) : i \in I <=> Id(layout, i) = n
  BY DEF Id
<1> HIDE DEF I
<1>4. LastPosition(layout, n) \in I /\ \A i \in I : i <= LastPosition(layout, n)
  BY <1>1, <1>2, LastIs
<1> QED
  BY <1>2, <1>3, <1>4

\* The circles around a point, and their indices.
LEMMA AroundIs ==
  ASSUME NEW layout, NEW p
  PROVE  /\ \A c \in Around(layout, p) : \E i \in CirclesAround(layout, p) : c = layout.circles[i]
         /\ \A i \in CirclesAround(layout, p) : layout.circles[i] \in Around(layout, p)
  BY DEF Around, CirclesAround, ToSet

\* What a layout settles.
LEMMA SettledAt ==
  ASSUME NEW layout, IsSeq(layout.positions), NEW n, Settled(layout, n)
  PROVE  LET i == LastPosition(layout, n) IN
         /\ i \in 1 .. Len(layout.positions) /\ Id(layout, i) = n /\ InCircle(layout, i)
         /\ \A j \in 1 .. Len(layout.positions) : Id(layout, j) = n => j <= i
         /\ layout.circles # <<>>
<1> DEFINE i == LastPosition(layout, n)
<1>1. i # 0 /\ layout.circles # <<>> /\ Around(layout, layout.positions[i].pos) # {}
  BY DEF Settled
<1>2. InCircle(layout, i)
  BY <1>1, AroundIs DEF InCircle
<1> QED
  BY <1>1, <1>2, LastOf

\* A derivation that was not refused has put every node where it belongs.
LEMMA DerivedOwner ==
  ASSUME NEW g, GraphOK(g), NEW layout, LayoutOK(layout, Len(g.regions)),
         NEW d, d = derive_regions(g, layout), d.valid
  PROVE  /\ \A n \in Nodes(d.graph) :
              LET in == Around(layout, layout.positions[LastPosition(layout, n)].pos) IN
              Settled(layout, n) =>
                \E c \in in : c.region = d.graph.nodes[n].region /\ \A e \in in : c.radius <= e.radius
         /\ \A n \in Nodes(d.graph) \ {layout.positions[i].id : i \in DOMAIN layout.positions} :
              d.graph.nodes[n].region = g.nodes[n].region
         /\ IsInjective([i \in DOMAIN layout.positions |-> layout.positions[i].id]) =>
              arc_geo_verify_consistency(d.graph, d.members)
<1> DEFINE count == Len(layout.positions)
<1>1. IsSeq(layout.positions) /\ count \in Nat /\ DOMAIN layout.positions = 1 .. count
  BY SeqIs DEF LayoutOK
<1>2. PICK k \in 0 .. count : DerivedOK(d, g, layout, k) /\ (layout.circles # <<>> => k = count)
  BY DeriveKeeps
<1>3. /\ AtLast(d.graph.nodes, layout, k) /\ Others(d.graph.nodes, g.nodes, layout, k)
      /\ FromPositions(d.members, Len(g.nodes), layout, k) /\ IsSeq(d.members)
      /\ Nodes(d.graph) = 1 .. Len(d.graph.nodes) /\ Len(d.graph.nodes) = Len(g.nodes)
  BY <1>2 DEF DerivedOK, Says, Becoming, Nodes
<1>4. \A i \in 1 .. k : i \in 1 .. count
  BY <1>1, <1>2
<1>5. ASSUME NEW n \in Nodes(d.graph), Settled(layout, n)
      PROVE  LET in == Around(layout, layout.positions[LastPosition(layout, n)].pos) IN
             \E c \in in : c.region = d.graph.nodes[n].region /\ \A e \in in : c.radius <= e.radius
  <2> DEFINE i == LastPosition(layout, n)
             p == layout.positions[i].pos
             in == CirclesAround(layout, p)
  <2>1. /\ i \in 1 .. count /\ Id(layout, i) = n /\ InCircle(layout, i) /\ k = count
        /\ \A j \in 1 .. count : Id(layout, j) = n => j <= i
    BY <1>1, <1>2, <1>5, SettledAt
  <2>2. d.graph.nodes[n].region = RegionAt(layout, i)
    BY <1>3, <2>1 DEF AtLast
  <2>3. in # {} /\ RegionAt(layout, i) = find_innermost_region(layout, p)
    BY <2>1 DEF InCircle, RegionAt
  <2>4. OfSmallest(layout, in, find_innermost_region(layout, p))
    BY <2>3, Innermost
  <2> HIDE DEF in, p
  <2>5. PICK q \in in : /\ layout.circles[q].region = d.graph.nodes[n].region
                        /\ \A j \in in : layout.circles[q].radius <= layout.circles[j].radius
    BY <2>2, <2>3, <2>4 DEF OfSmallest
  <2>6. /\ layout.circles[q] \in Around(layout, p)
        /\ \A e \in Around(layout, p) : \E j \in in : e = layout.circles[j]
    BY AroundIs DEF in
  <2>7. \A e \in Around(layout, p) : layout.circles[q].radius <= e.radius
    BY <2>5, <2>6
  <2>8. \E c \in Around(layout, p) : c.region = d.graph.nodes[n].region /\ \A e \in Around(layout, p) : c.radius <= e.radius
    BY <2>5, <2>6, <2>7
  <2> QED
    BY <2>8 DEF p
<1>6. ASSUME NEW n \in Nodes(d.graph) \ {layout.positions[i].id : i \in DOMAIN layout.positions}
      PROVE  d.graph.nodes[n].region = g.nodes[n].region
  <2>1. \A i \in 1 .. k : Id(layout, i) # n
    BY <1>1, <1>4 DEF Id
  <2> QED
    BY <1>3, <2>1 DEF Others
<1>7. ASSUME IsInjective([i \in DOMAIN layout.positions |-> layout.positions[i].id])
      PROVE  arc_geo_verify_consistency(d.graph, d.members)
  <2>1. \A i, j \in 1 .. count : Id(layout, i) = Id(layout, j) => i = j
    BY <1>1, <1>7 DEF IsInjective, Id
  <2>2. DOMAIN d.members = 1 .. Len(d.members)
    BY <1>3, SeqIs
  <2>3. ASSUME NEW m \in 1 .. Len(d.members)
        PROVE  d.graph.nodes[d.members[m].node].region = d.members[m].region
    <3>1. PICK i \in 1 .. k : /\ InCircle(layout, i) /\ Id(layout, i) = d.members[m].node
                              /\ RegionAt(layout, i) = d.members[m].region
      BY <1>3 DEF FromPositions
    <3>2. d.members[m].node \in 1 .. Len(d.graph.nodes)
      BY <1>3 DEF FromPositions
    <3>3. \A j \in 1 .. k : Id(layout, j) = Id(layout, i) => j <= i
      <4> TAKE j \in 1 .. k
      <4>1. Id(layout, j) = Id(layout, i) => j = i
        BY <1>4, <2>1
      <4> QED
        BY <4>1
    <3> QED
      BY <1>3, <3>1, <3>2, <3>3 DEF AtLast
  <2> QED
    BY <2>2, <2>3 DEF arc_geo_verify_consistency
<1> QED
  BY <1>5, <1>6, <1>7

\* Every step leaves the owners right.
LEMMA OwnerStep == LayoutInv /\ InnermostOwner /\ [Next]_vars => InnermostOwner'
<1> SUFFICES ASSUME LayoutInv, InnermostOwner, [Next]_vars PROVE InnermostOwner'
  OBVIOUS
<1>1. CASE UNCHANGED vars
  BY <1>1 DEF vars, InnermostOwner, NodeIds
<1>2. CASE parse_line
  <2>1. lines # <<>> /\ report' = report
    BY <1>2 DEF parse_line, parse_cmd_region, parse_cmd_node, parse_cmd_edge, parse_cmd_root, parse_cmd_sealed,
         parse_cmd_capability, parse_cmd_channel, parse_cmd_circle, parse_cmd_position, Declare, Line, Parsed, perr
  <2>2. report'.op = "none"
    BY <2>1 DEF LayoutInv, NoReport
  <2> QED
    BY <2>2 DEF InnermostOwner
<1>3. CASE arc_geo_derive_regions
  <2> DEFINE d == derive_regions(graph, geo)
  <2>1. /\ graph' = d.graph /\ geo' = geo
        /\ report' = [op |-> "derive", before |-> graph, valid |-> d.valid, members |-> d.members]
    BY <1>3 DEF arc_geo_derive_regions
  <2>2. GraphOK(graph) /\ LayoutOK(geo, Len(graph.regions))
    BY DEF LayoutInv, GeoOK
  <2>3. DOMAIN d.graph.nodes = Nodes(d.graph)
    BY <2>2, DerivedGraph, GraphLengths DEF Becoming, GraphOK
  <2>4. d = derive_regions(graph, geo)
    OBVIOUS
  <2> HIDE DEF d
  <2>5. report'.valid = d.valid /\ report'.before = graph /\ report'.members = d.members /\ NodeIds' = Nodes(d.graph)
    BY <2>1, <2>3 DEF NodeIds
  <2>6. CASE d.valid
    <3>1. /\ \A n \in Nodes(d.graph) :
               LET in == Around(geo, geo.positions[LastPosition(geo, n)].pos) IN
               Settled(geo, n) =>
                 \E c \in in : c.region = d.graph.nodes[n].region /\ \A e \in in : c.radius <= e.radius
          /\ \A n \in Nodes(d.graph) \ {geo.positions[i].id : i \in DOMAIN geo.positions} :
               d.graph.nodes[n].region = graph.nodes[n].region
          /\ IsInjective([i \in DOMAIN geo.positions |-> geo.positions[i].id]) =>
               arc_geo_verify_consistency(d.graph, d.members)
      BY <2>2, <2>4, <2>6, DerivedOwner
    <3> QED
      BY <2>1, <2>5, <3>1 DEF InnermostOwner
  <2>7. CASE ~ d.valid
    BY <2>5, <2>7 DEF InnermostOwner
  <2> QED
    BY <2>6, <2>7
<1>4. CASE arc_geo_deformation_stable
  <2>1. report'.op = "deformation"
    BY <1>4 DEF arc_geo_deformation_stable
  <2> QED
    BY <2>1 DEF InnermostOwner
<1> QED
  BY <1>1, <1>2, <1>3, <1>4 DEF Next

\* For all texts and layouts: after a derivation that was not refused, a node that
\* lies in circles is in the region of one of the smallest around its last position,
\* nodes without a position are where they were, and the report agrees with the graph
\* if no node is positioned twice (find_innermost_region, containment.c:87).
THEOREM OwnerSafe == Spec => []InnermostOwner
<1>1. Init => InnermostOwner
  BY DEF Init, InnermostOwner, NoReport
<1> QED
  BY <1>1, InitInv, LayoutStep, OwnerStep, PTL DEF Spec

\* A layout that settles all it lists, each node once: the derivation's report has the
\* region of each position in its place, and the node is there.
LEMMA AllSettled ==
  ASSUME NEW g, GraphOK(g), NEW layout, LayoutOK(layout, Len(g.regions)),
         NEW d, d = derive_regions(g, layout), d.valid,
         NEW count \in Nat, count = Len(layout.positions),
         \A i, j \in 1 .. count : Id(layout, i) = Id(layout, j) => i = j,
         \A i \in 1 .. count : Id(layout, i) \in Nodes(g) /\ Settled(layout, Id(layout, i))
  PROVE  /\ Len(d.members) = count /\ IsSeq(d.members)
         /\ \A i \in 1 .. count : d.members[i].region = d.graph.nodes[Id(layout, i)].region
         /\ \A n \in Nodes(g) : (\A i \in 1 .. count : Id(layout, i) # n) => d.graph.nodes[n].region = g.nodes[n].region
<1>1. IsSeq(layout.positions)
  BY DEF LayoutOK
<1>2. PICK k \in 0 .. count : DerivedOK(d, g, layout, k) /\ (layout.circles # <<>> => k = count)
  BY DeriveKeeps
<1>3. ASSUME NEW i \in 1 .. count PROVE InCircle(layout, i) /\ layout.circles # <<>>
  <2> DEFINE q == LastPosition(layout, Id(layout, i))
  <2>1. q \in 1 .. count /\ Id(layout, q) = Id(layout, i) /\ InCircle(layout, q) /\ layout.circles # <<>>
    BY <1>1, SettledAt
  <2> HIDE DEF q
  <2>2. q = i
    BY <2>1
  <2> QED
    BY <2>1, <2>2
<1>4. k = count
  <2>1. CASE count = 0
    BY <1>2, <2>1
  <2>2. CASE count # 0
    <3>1. 1 \in 1 .. count
      BY <2>2
    <3> QED
      BY <1>2, <1>3, <3>1
  <2> QED
    BY <2>1, <2>2
<1>5. /\ AtLast(d.graph.nodes, layout, count) /\ Others(d.graph.nodes, g.nodes, layout, count)
      /\ InTurn(d.members, Len(g.nodes), layout, count) /\ IsSeq(d.members)
      /\ Len(d.graph.nodes) = Len(g.nodes) /\ Nodes(g) = 1 .. Len(d.graph.nodes)
  BY <1>2, <1>4 DEF DerivedOK, Says, Becoming, Nodes
<1>6. Len(d.members) = count /\ \A i \in 1 .. count : d.members[i].region = RegionAt(layout, i)
  BY <1>3, <1>5 DEF InTurn
<1>7. ASSUME NEW i \in 1 .. count PROVE d.graph.nodes[Id(layout, i)].region = RegionAt(layout, i)
  <2>1. \A j \in 1 .. count : Id(layout, j) = Id(layout, i) => j <= i
    OBVIOUS
  <2> QED
    BY <1>3, <1>5, <2>1 DEF AtLast
<1>8. ASSUME NEW n \in Nodes(g), \A i \in 1 .. count : Id(layout, i) # n
      PROVE  d.graph.nodes[n].region = g.nodes[n].region
  BY <1>5, <1>8 DEF Others
<1> QED
  BY <1>5, <1>6, <1>7, <1>8

\* Two layouts that list the same.
LEMMA ListedSame ==
  ASSUME NEW a, NEW b, IsSeq(a.positions), IsSeq(b.positions), Listed(a) = Listed(b)
  PROVE  /\ Len(a.positions) \in Nat /\ Len(b.positions) = Len(a.positions)
         /\ DOMAIN Listed(a) = 1 .. Len(a.positions)
         /\ \A i \in 1 .. Len(a.positions) : Id(a, i) = Listed(a)[i] /\ Id(b, i) = Listed(a)[i]
<1> DEFINE m == Len(a.positions)
           k == Len(b.positions)
<1>1. /\ m \in Nat /\ k \in Nat /\ DOMAIN a.positions = 1 .. m /\ DOMAIN b.positions = 1 .. k
  BY SeqIs
<1> HIDE DEF m, k
<1>2. DOMAIN Listed(a) = 1 .. m /\ DOMAIN Listed(b) = 1 .. k
  BY <1>1 DEF Listed
<1>3. k = m
  <2>1. 1 .. m = 1 .. k
    BY <1>2
  <2>2. m \in 1 .. k \/ m = 0
    BY <1>1, <2>1
  <2>3. k \in 1 .. m \/ k = 0
    BY <1>1, <2>1
  <2> QED
    BY <1>1, <2>1, <2>2, <2>3
<1>4. \A i \in 1 .. m : Id(a, i) = Listed(a)[i]
  BY <1>1 DEF Listed, Id
<1>5. \A i \in 1 .. m : Id(b, i) = Listed(b)[i]
  BY <1>1, <1>3 DEF Listed, Id
<1> QED
  BY <1>1, <1>2, <1>3, <1>4, <1>5 DEF m, k

\* Every step leaves what a comparison said right.
LEMMA StableStep == LayoutInv /\ StableSound /\ [Next]_vars => StableSound'
<1> SUFFICES ASSUME LayoutInv, StableSound, [Next]_vars PROVE StableSound'
  OBVIOUS
<1>1. CASE UNCHANGED vars
  BY <1>1 DEF vars, StableSound, NodeIds
<1>2. CASE parse_line
  <2>1. lines # <<>> /\ report' = report
    BY <1>2 DEF parse_line, parse_cmd_region, parse_cmd_node, parse_cmd_edge, parse_cmd_root, parse_cmd_sealed,
         parse_cmd_capability, parse_cmd_channel, parse_cmd_circle, parse_cmd_position, Declare, Line, Parsed, perr
  <2>2. report'.op = "none"
    BY <2>1 DEF LayoutInv, NoReport
  <2> QED
    BY <2>2 DEF StableSound
<1>3. CASE arc_geo_derive_regions
  <2>1. report'.op = "derive"
    BY <1>3 DEF arc_geo_derive_regions
  <2> QED
    BY <2>1 DEF StableSound
<1>4. CASE arc_geo_deformation_stable
  <2> DEFINE b == derive_regions(graph, geo)
             A(after) == derive_regions(b.graph, after)
  <2>1. PICK after \in Deformations :
          /\ CirclesKnown(graph, after)
          /\ graph' = IF b.valid THEN A(after).graph ELSE b.graph
          /\ report' = [op |-> "deformation", before |-> b.graph, after |-> after,
                        stable |-> b.valid /\ A(after).valid /\ SamePlaces(b.members, A(after).members)]
    BY <1>4 DEF arc_geo_deformation_stable
  <2>2. geo' = geo
    BY <1>4 DEF arc_geo_deformation_stable
  <2>3. /\ GraphOK(graph) /\ LayoutOK(geo, Len(graph.regions)) /\ LayoutOK(after, Len(graph.regions))
        /\ \A i \in 1 .. Len(geo.positions) : geo.positions[i].id \in Nodes(graph)
    BY <2>1, DeformationOK DEF LayoutInv, GeoOK, Nodes
  <2> DEFINE a == A(after)
  <2>4. Becoming(b.graph, Len(graph.regions), Len(graph.nodes), Len(graph.ports))
    BY <2>3, DerivedGraph
  <2>5. b = derive_regions(graph, geo) /\ a = derive_regions(b.graph, after)
    OBVIOUS
  <2>6. /\ graph' = IF b.valid THEN a.graph ELSE b.graph
        /\ report'.before = b.graph /\ report'.after = after
        /\ report'.stable = (b.valid /\ a.valid /\ SamePlaces(b.members, a.members))
    BY <2>1
  <2> HIDE DEF a, A, b
  <2> SUFFICES ASSUME b.valid, a.valid, SamePlaces(b.members, a.members),
                      Listed(geo) = Listed(after), IsInjective(Listed(geo)),
                      \A i \in DOMAIN Listed(geo) : Settled(geo, Listed(geo)[i]) /\ Settled(after, Listed(geo)[i]),
                      NEW n \in NodeIds'
               PROVE  graph'.nodes[n].region = b.graph.nodes[n].region
    BY <2>2, <2>6 DEF StableSound
  <2> DEFINE count == Len(geo.positions)
  <2>7. /\ count \in Nat /\ Len(after.positions) = count /\ DOMAIN Listed(geo) = 1 .. count
        /\ \A i \in 1 .. count : Id(geo, i) = Listed(geo)[i] /\ Id(after, i) = Listed(geo)[i]
    BY <2>3, ListedSame DEF LayoutOK
  <2>8. \A i \in 1 .. count : Id(geo, i) \in Nodes(graph)
    BY <2>3 DEF Id
  <2> HIDE DEF count
  <2>9. GraphOK(b.graph) /\ Nodes(b.graph) = Nodes(graph) /\ LayoutOK(after, Len(b.graph.regions))
    BY <2>3, <2>4 DEF Becoming, Nodes
  <2>10. graph' = a.graph /\ n \in Nodes(b.graph)
    <3>1. graph' = a.graph
      BY <2>6
    <3>2. Becoming(a.graph, Len(b.graph.regions), Len(b.graph.nodes), Len(b.graph.ports))
      BY <2>5, <2>9, DerivedGraph
    <3>3. NodeIds' = Nodes(a.graph) /\ Nodes(a.graph) = Nodes(b.graph)
      BY <3>1, <3>2, GraphLengths DEF Becoming, GraphOK, Nodes, NodeIds
    <3> QED
      BY <3>1, <3>3
  <2>11. \A i, j \in 1 .. count : Listed(geo)[i] = Listed(geo)[j] => i = j
    BY <2>7 DEF IsInjective
  <2>12. /\ Len(b.members) = count /\ IsSeq(b.members)
         /\ \A i \in 1 .. count : b.members[i].region = b.graph.nodes[Id(geo, i)].region
    <3>1. \A i, j \in 1 .. count : Id(geo, i) = Id(geo, j) => i = j
      BY <2>7, <2>11
    <3>2. \A i \in 1 .. count : Id(geo, i) \in Nodes(graph) /\ Settled(geo, Id(geo, i))
      BY <2>7, <2>8
    <3>3. count = Len(geo.positions)
      BY DEF count
    <3> QED
      BY <2>3, <2>5, <2>7, <3>1, <3>2, <3>3, AllSettled
  <2>13. /\ Len(a.members) = count
         /\ \A i \in 1 .. count : a.members[i].region = a.graph.nodes[Id(after, i)].region
         /\ \A x \in Nodes(b.graph) : (\A i \in 1 .. count : Id(after, i) # x) => a.graph.nodes[x].region = b.graph.nodes[x].region
    <3>1. \A i, j \in 1 .. count : Id(after, i) = Id(after, j) => i = j
      BY <2>7, <2>11
    <3>2. \A i \in 1 .. count : Id(after, i) \in Nodes(b.graph) /\ Settled(after, Id(after, i))
      BY <2>7, <2>8, <2>9
    <3> QED
      BY <2>5, <2>7, <2>9, <3>1, <3>2, AllSettled
  <2>14. CASE \E i \in 1 .. count : Id(after, i) = n
    <3>1. PICK i \in 1 .. count : Id(after, i) = n
      BY <2>14
    <3>2. Id(geo, i) = n
      BY <2>7, <3>1
    <3>3. i \in DOMAIN b.members
      BY <2>12, SeqIs
    <3>4. b.members[i].region = a.members[i].region
      BY <3>3 DEF SamePlaces
    <3> QED
      BY <2>10, <2>12, <2>13, <3>1, <3>2, <3>4
  <2>15. CASE \A i \in 1 .. count : Id(after, i) # n
    BY <2>10, <2>13, <2>15
  <2> QED
    BY <2>14, <2>15
<1> QED
  BY <1>1, <1>2, <1>3, <1>4 DEF Next

\* For all texts and all pairs of layouts: a deformation said to be stable moves no
\* node to another region, if the layouts list the same nodes in the same order, each
\* once and in circles of both (arc_geo_deformation_stable, containment.c:186, which
\* compares regions by their places in two lists).
THEOREM StableSafe == Spec => []StableSound
<1>1. Init => StableSound
  BY DEF Init, StableSound, NoReport
<1> QED
  BY <1>1, InitInv, LayoutStep, StableStep, PTL DEF Spec

-----------------------------------------------------------------------------
(* What validation looks at.                                               *)

\* A region's parent was there before it.
ParentsOK(regions) == \A r \in 1 .. Len(regions) : regions[r].parent \in 0 .. r - 1
\* A cyclic order that the line did not give is that of three ports of the node.
CyclicOK(v) ==
  \/ v.listed
  \/ v.cyclic_order = <<>>
  \/ /\ v.kind \in {"BINARY", "CHAN_SEND"} /\ IsSeq(v.cyclic_order) /\ Len(v.cyclic_order) = 3
     /\ \A i \in 1 .. 3 : \E j \in 1 .. Len(v.ports) : v.ports[j] = v.cyclic_order[i]
ShapeOK(g) ==
  /\ ParentsOK(g.regions)
  /\ \A n \in 1 .. Len(g.nodes) : CyclicOK(g.nodes[n])
  /\ Len(g.regions) > 0 => g.root_region # Invalid

\* The same regions, whatever they list.
Frame(h, g) ==
  /\ h.root_region = g.root_region /\ Len(h.regions) = Len(g.regions)
  /\ \A q \in 1 .. Len(g.regions) : h.regions[q].parent = g.regions[q].parent

\* Two changes that leave the regions leave the regions.
LEMMA FrameTwice ==
  ASSUME NEW g, NEW h, NEW k, Frame(h, g), Frame(k, h)
  PROVE  Frame(k, g)
  BY DEF Frame

\* With the same regions, only the nodes' orders matter.
LEMMA FrameShape ==
  ASSUME NEW g, NEW h, ShapeOK(g), Frame(h, g), \A n \in 1 .. Len(h.nodes) : CyclicOK(h.nodes[n])
  PROVE  ShapeOK(h)
  BY DEF ShapeOK, ParentsOK, Frame

\* Members are not looked at.
LEMMA MembersFrame ==
  ASSUME NEW g, NEW h, NEW r, NEW m, MembersBecome(h, g, r, m)
  PROVE  Frame(h, g) /\ h.nodes = g.nodes
<1>1. \A q \in 1 .. Len(g.regions) : h.regions[q].parent = g.regions[q].parent
  <2> TAKE q \in 1 .. Len(g.regions)
  <2>1. CASE q = r
    BY <2>1 DEF MembersBecome
  <2>2. CASE q # r
    BY <2>2 DEF MembersBecome, Regions
  <2> QED
    BY <2>1, <2>2
<1> QED
  BY <1>1 DEF MembersBecome, Frame

\* A node in the place of another leaves the regions.
LEMMA NodeFrame ==
  ASSUME NEW g, IsGraph(g), NEW n \in Nodes(g), NEW v, IsNode(v)
  PROVE  LET h == [g EXCEPT !.nodes[n] = v] IN
         /\ Frame(h, g) /\ Len(h.nodes) = Len(g.nodes) /\ h.nodes[n] = v
         /\ \A k \in 1 .. Len(g.nodes) : k # n => h.nodes[k] = g.nodes[k]
<1> DEFINE h == [g EXCEPT !.nodes[n] = v]
<1>1. NodeChanged(h, g, n, v)
  BY ChangeNode
<1>2. h.root_region = g.root_region
  BY DEF IsGraph
<1> HIDE DEF h
<1> QED
  BY <1>1, <1>2 DEF NodeChanged, Frame, Nodes, h

\* arc_graph_add_node: a node without ports and without an order.
LEMMA AddNodeFrame ==
  ASSUME NEW g, IsGraph(g), NEW kind, NEW r \in Regions(g)
  PROVE  LET h == arc_graph_add_node(g, kind, r)
             n == Len(g.nodes) + 1 IN
         /\ Frame(h, g) /\ Len(h.nodes) = n
         /\ \A i \in 1 .. Len(g.nodes) : h.nodes[i] = g.nodes[i]
         /\ h.nodes[n].kind = kind /\ h.nodes[n].ports = <<>> /\ h.nodes[n].cyclic_order = <<>>
<1> DEFINE n == Len(g.nodes) + 1
           v == [kind |-> kind, region |-> r, attr |-> "", bodies |-> <<>>,
                 listed |-> FALSE, ports |-> <<>>, cyclic_order |-> <<>>]
           s == Append(g.nodes, v)
           k == [g EXCEPT !.nodes = s]
           m == Append(k.regions[r].members, n)
           h == arc_graph_add_node(g, kind, r)
<1>1. IsSeq(g.nodes) /\ Len(g.nodes) \in Nat
  BY GraphLengths DEF IsGraph
<1>2. h = [k EXCEPT !.regions[r].members = m]
  BY <1>1 DEF arc_graph_add_node, arc_region_add_member, IsGraph
<1>3. IsNode(v) /\ v.kind = kind /\ v.ports = <<>> /\ v.cyclic_order = <<>>
  BY NoneIsSeq DEF IsNode
<1> HIDE DEF v, s, h, m
<1>4. /\ IsSeq(s) /\ Len(s) = n /\ s[n] = v
      /\ \A i \in 1 .. Len(g.nodes) : s[i] = g.nodes[i]
  BY <1>1, AppendSeq DEF s
<1>5. \A i \in 1 .. Len(s) : IsNode(s[i])
  BY <1>1, <1>3, <1>4 DEF IsGraph, Nodes
<1>12. k.root_region = g.root_region
  BY DEF IsGraph
<1> HIDE DEF k
<1>6. IsGraph(k) /\ k.nodes = s /\ k.regions = g.regions
  BY <1>4, <1>5, WithNodes DEF k
<1>7. r \in Regions(k) /\ IsSeq(k.regions[r].members)
  BY <1>6 DEF Regions, IsGraph, IsRegion
<1>8. IsSeq(m)
  BY <1>7, AppendSeq DEF m
<1>9. Frame(h, k) /\ h.nodes = k.nodes
  BY <1>2, <1>6, <1>7, <1>8, ChangeMembers, MembersFrame
<1>10. Frame(h, g)
  BY <1>6, <1>9, <1>12 DEF Frame
<1> QED
  BY <1>3, <1>4, <1>6, <1>9, <1>10 DEF h

\* arc_graph_add_port: one more port of its owner.
LEMMA AddPortFrame ==
  ASSUME NEW g, IsGraph(g), NEW n \in Nodes(g), NEW dir
  PROVE  LET h == arc_graph_add_port(g, n, dir) IN
         /\ Frame(h, g) /\ Len(h.nodes) = Len(g.nodes)
         /\ \A k \in 1 .. Len(g.nodes) : k # n => h.nodes[k] = g.nodes[k]
         /\ h.nodes[n] = [g.nodes[n] EXCEPT !.ports = Append(g.nodes[n].ports, Len(g.ports) + 1)]
<1> DEFINE p == Len(g.ports) + 1
           port == [owner |-> n, dir |-> dir]
           s == Append(g.ports, port)
           mine == Append(g.nodes[n].ports, p)
           v == [g.nodes[n] EXCEPT !.ports = mine]
           k == [g EXCEPT !.ports = s]
           h == arc_graph_add_port(g, n, dir)
<1>1. IsSeq(g.ports) /\ IsNode(g.nodes[n]) /\ IsSeq(g.nodes[n].ports)
  BY GraphLengths DEF IsGraph, IsNode
<1>2. h = [k EXCEPT !.nodes[n] = v]
  BY <1>1 DEF arc_graph_add_port, IsGraph
<1> HIDE DEF port, s, mine, h
<1>4. IsSeq(s)
  BY <1>1, AppendSeq DEF s
<1>5. IsSeq(mine)
  BY <1>1, AppendSeq DEF mine
<1>6. IsNode(v)
  BY <1>1, <1>5, NodePorts
<1>12. k.root_region = g.root_region
  BY DEF IsGraph
<1> HIDE DEF v, k
<1>7. IsGraph(k) /\ k.regions = g.regions /\ k.nodes = g.nodes
  BY <1>4, WithPorts DEF k
<1>8. /\ Frame(h, k) /\ Len(h.nodes) = Len(k.nodes) /\ h.nodes[n] = v
      /\ \A i \in 1 .. Len(k.nodes) : i # n => h.nodes[i] = k.nodes[i]
  BY <1>2, <1>6, <1>7, NodeFrame DEF Nodes
<1>9. Frame(h, g)
  BY <1>7, <1>8, <1>12 DEF Frame
<1> QED
  BY <1>7, <1>8, <1>9 DEF h, v, mine

\* arc_graph_add_edge: regions and nodes are the same.
LEMMA AddEdgeFrame ==
  ASSUME NEW g, IsGraph(g), NEW a, NEW b
  PROVE  LET h == arc_graph_add_edge(g, a, b) IN Frame(h, g) /\ h.nodes = g.nodes
<1> DEFINE s == Append(g.edges, <<a, b>>)
           h == arc_graph_add_edge(g, a, b)
<1>1. h = [g EXCEPT !.edges = s]
  BY DEF arc_graph_add_edge, IsGraph
<1> HIDE DEF s, h
<1>2. h.regions = g.regions /\ h.nodes = g.nodes /\ h.root_region = g.root_region
  BY <1>1 DEF IsGraph
<1> QED
  BY <1>2 DEF Frame, h

\* A node v that has got ports and is w otherwise, as far as validation goes.
MorePorts(v, w) ==
  /\ v.kind = w.kind /\ v.listed = w.listed /\ v.cyclic_order = w.cyclic_order
  /\ \A i \in 1 .. Len(w.ports) : \E j \in 1 .. Len(v.ports) : v.ports[j] = w.ports[i]
\* Only node n has got ports.
Extended(h, g, n) ==
  /\ Frame(h, g) /\ Len(h.nodes) = Len(g.nodes)
  /\ \A k \in 1 .. Len(g.nodes) : k # n => h.nodes[k] = g.nodes[k]
  /\ MorePorts(h.nodes[n], g.nodes[n])

\* More ports do not spoil an order.
LEMMA MoreCyclic ==
  ASSUME NEW v, NEW w, MorePorts(v, w), CyclicOK(w)
  PROVE  CyclicOK(v)
<1>1. CASE w.listed
  BY <1>1 DEF MorePorts, CyclicOK
<1>2. CASE w.cyclic_order = <<>>
  BY <1>2 DEF MorePorts, CyclicOK
<1>3. CASE /\ w.kind \in {"BINARY", "CHAN_SEND"} /\ IsSeq(w.cyclic_order) /\ Len(w.cyclic_order) = 3
           /\ \A i \in 1 .. 3 : \E j \in 1 .. Len(w.ports) : w.ports[j] = w.cyclic_order[i]
  <2>1. ASSUME NEW i \in 1 .. 3 PROVE \E j \in 1 .. Len(v.ports) : v.ports[j] = v.cyclic_order[i]
    <3>1. PICK j \in 1 .. Len(w.ports) : w.ports[j] = w.cyclic_order[i]
      BY <1>3
    <3>2. PICK k \in 1 .. Len(v.ports) : v.ports[k] = w.ports[j]
      BY DEF MorePorts
    <3> QED
      BY <3>1, <3>2 DEF MorePorts
  <2> QED
    BY <1>3, <2>1 DEF MorePorts, CyclicOK
<1> QED
  BY <1>1, <1>2, <1>3 DEF CyclicOK

\* Nor a graph.
LEMMA ExtendedShape ==
  ASSUME NEW g, NEW h, NEW n \in Nodes(g), Extended(h, g, n), ShapeOK(g)
  PROVE  ShapeOK(h)
<1>1. \A k \in 1 .. Len(h.nodes) : CyclicOK(h.nodes[k])
  <2> TAKE k \in 1 .. Len(h.nodes)
  <2>1. k \in 1 .. Len(g.nodes) /\ CyclicOK(g.nodes[k])
    BY DEF Extended, ShapeOK
  <2>2. CASE k = n
    BY <2>1, <2>2, MoreCyclic DEF Extended
  <2>3. CASE k # n
    BY <2>1, <2>3 DEF Extended
  <2> QED
    BY <2>2, <2>3
<1> QED
  BY <1>1, FrameShape DEF Extended

\* More ports, and more ports.
LEMMA ExtendedTwice ==
  ASSUME NEW g, NEW h, NEW k, NEW n, Extended(h, g, n), Extended(k, h, n)
  PROVE  Extended(k, g, n)
<1>1. Frame(k, g)
  BY FrameTwice DEF Extended
<1>2. MorePorts(h.nodes[n], g.nodes[n]) /\ MorePorts(k.nodes[n], h.nodes[n])
  BY DEF Extended
<1>3. MorePorts(k.nodes[n], g.nodes[n])
  <2> DEFINE u == k.nodes[n]
             v == h.nodes[n]
             w == g.nodes[n]
  <2>1. ASSUME NEW i \in 1 .. Len(w.ports) PROVE \E j \in 1 .. Len(u.ports) : u.ports[j] = w.ports[i]
    <3>1. PICK j \in 1 .. Len(v.ports) : v.ports[j] = w.ports[i]
      BY <1>2 DEF MorePorts
    <3>2. PICK q \in 1 .. Len(u.ports) : u.ports[q] = v.ports[j]
      BY <1>2 DEF MorePorts
    <3> QED
      BY <3>1, <3>2
  <2> HIDE DEF u, v, w
  <2>2. MorePorts(v, w) /\ MorePorts(u, v)
    BY <1>2 DEF u, v, w
  <2>3. MorePorts(u, w)
    BY <2>1, <2>2 DEF MorePorts
  <2> QED
    BY <2>3 DEF u, w
<1> QED
  BY <1>1, <1>3 DEF Extended

\* No more ports.
LEMMA ExtendedNone ==
  ASSUME NEW g, NEW n
  PROVE  Extended(g, g, n)
  BY DEF Extended, Frame, MorePorts

\* register_port adds one port.
LEMMA RegisterExtends ==
  ASSUME NEW s, NEW regions, NEW nodes, StateOK(s, regions, nodes), NEW x, NEW role, NEW n \in 1 .. nodes
  PROVE  LET t == register_port(s, x, role, n) IN
         /\ Extended(t.graph, s.graph, n)
         /\ Len(t.graph.nodes[n].ports) = Len(s.graph.nodes[n].ports) + 1
<1> DEFINE g == s.graph
           dir == IF role \in Inputs THEN "input" ELSE "output"
           h == arc_graph_add_port(g, n, dir)
           w == g.nodes[n]
           l == Append(w.ports, Len(g.ports) + 1)
           v == [w EXCEPT !.ports = l]
           t == register_port(s, x, role, n)
<1>1. t.graph = h
  BY DEF register_port
<1>2. IsGraph(g) /\ n \in Nodes(g) /\ IsNode(w)
  BY DEF StateOK, GraphOK, Nodes, IsGraph
<1> HIDE DEF dir, g, t
<1>3. /\ Frame(h, g) /\ Len(h.nodes) = Len(g.nodes)
      /\ \A k \in 1 .. Len(g.nodes) : k # n => h.nodes[k] = g.nodes[k]
      /\ h.nodes[n] = v
  BY <1>2, AddPortFrame
<1> HIDE DEF h, w, l
<1>4. v.kind = w.kind /\ v.listed = w.listed /\ v.cyclic_order = w.cyclic_order /\ v.ports = l /\ IsSeq(w.ports)
  <2>1. w = [kind |-> w.kind, region |-> w.region, attr |-> w.attr, bodies |-> w.bodies,
             listed |-> w.listed, ports |-> w.ports, cyclic_order |-> w.cyclic_order] /\ IsSeq(w.ports)
    BY <1>2 DEF IsNode
  <2> QED
    BY <2>1
<1>5. /\ Len(l) = Len(w.ports) + 1 /\ Len(w.ports) \in Nat /\ \A i \in 1 .. Len(w.ports) : l[i] = w.ports[i]
  BY <1>4, AppendSeq DEF l
<1> HIDE DEF v
<1>6. \A i \in 1 .. Len(w.ports) : i \in 1 .. Len(l)
  BY <1>5
<1>7. MorePorts(v, w)
  BY <1>4, <1>5, <1>6 DEF MorePorts
<1>8. Extended(h, g, n)
  BY <1>3, <1>7 DEF Extended, w
<1>9. Len(h.nodes[n].ports) = Len(w.ports) + 1
  BY <1>3, <1>4, <1>5
<1> QED
  BY <1>1, <1>8, <1>9 DEF t, g, w

\* Ports were added to node n, and if the roles are the default ones, one for each.
PortsAdded(t, s, n, again, count) ==
  /\ Extended(t.graph, s.graph, n)
  /\ again => Len(t.graph.nodes[n].ports) = Len(s.graph.nodes[n].ports) + count

\* Roles only add ports, and the default ones are all added.
LEMMA PortsForAdds ==
  ASSUME NEW s, NEW regions, NEW nodes, StateOK(s, regions, nodes), NEW x, NEW n \in 1 .. nodes,
         NEW roles, Len(roles) \in Nat, NEW again
  PROVE  PortsAdded(PortsFor(s, x, n, roles, again), s, n, again, Len(roles))
<1> DEFINE count == Len(roles)
<1>9. PICK a : PortSteps(a, s, x, n, roles, again)
  BY PortsForSteps
<1>1. /\ a[0] = s
      /\ \A i \in 1 .. count : a[i] = IF again \/ find_port(a[i - 1], x, roles[i]) = Invalid
                                      THEN register_port(a[i - 1], x, roles[i], n)
                                      ELSE a[i - 1]
      /\ PortsFor(s, x, n, roles, again) = a[count]
  BY <1>9 DEF PortSteps
<1> DEFINE had == Len(s.graph.nodes[n].ports)
<1>0. had \in Nat
  BY SeqIs DEF StateOK, GraphOK, IsGraph, IsNode, Nodes
<1> DEFINE Good(k) == /\ StateOK(a[k], regions, nodes) /\ Extended(a[k].graph, s.graph, n)
                      /\ again => Len(a[k].graph.nodes[n].ports) = had + k
           T == {k \in Nat : k <= count => Good(k)}
<1> HIDE DEF had
<1>2. 0 \in T
  BY <1>0, <1>1, ExtendedNone DEF had
<1>3. ASSUME NEW k \in Nat, k \in T PROVE k + 1 \in T
  <2> SUFFICES ASSUME k + 1 <= count PROVE Good(k + 1)
    OBVIOUS
  <2>1. Good(k) /\ k + 1 \in 1 .. count /\ (k + 1) - 1 = k
    BY <1>3
  <2>2. a[k + 1] = IF again \/ find_port(a[k], x, roles[k + 1]) = Invalid
                   THEN register_port(a[k], x, roles[k + 1], n) ELSE a[k]
    BY <1>1, <2>1
  <2>3. CASE again \/ find_port(a[k], x, roles[k + 1]) = Invalid
    <3> DEFINE t == register_port(a[k], x, roles[k + 1], n)
    <3>0. StateOK(a[k], regions, nodes)
      BY <2>1
    <3>1. StateOK(t, regions, nodes)
      BY <3>0, RegisterPort
    <3>2. Extended(t.graph, a[k].graph, n) /\ Len(t.graph.nodes[n].ports) = Len(a[k].graph.nodes[n].ports) + 1
      BY <3>0, RegisterExtends
    <3>3. a[k + 1] = t
      BY <2>2, <2>3
    <3> HIDE DEF t
    <3>4. Extended(t.graph, s.graph, n)
      BY <2>1, <3>2, ExtendedTwice
    <3>5. again => Len(t.graph.nodes[n].ports) = had + (k + 1)
      <4>1. SUFFICES ASSUME again PROVE Len(t.graph.nodes[n].ports) = had + (k + 1)
        OBVIOUS
      <4>2. Len(a[k].graph.nodes[n].ports) = had + k
        BY <2>1, <4>1
      <4>3. Len(t.graph.nodes[n].ports) = Len(a[k].graph.nodes[n].ports) + 1
        BY <3>2
      <4> QED
        BY <1>0, <4>2, <4>3
    <3> QED
      BY <3>1, <3>3, <3>4, <3>5
  <2>4. CASE ~ (again \/ find_port(a[k], x, roles[k + 1]) = Invalid)
    <3>1. a[k + 1] = a[k] /\ ~ again
      BY <2>2, <2>4
    <3> QED
      BY <2>1, <3>1
  <2> QED
    BY <2>3, <2>4
<1>4. \A k \in Nat : k \in T
  <2> HIDE DEF T
  <2> QED
    BY <1>2, <1>3, Induct
<1>5. Good(count)
  BY <1>4
<1> QED
  BY <1>1, <1>5 DEF had, PortsAdded

\* Roles only add ports.
LEMMA PortsForExtends ==
  ASSUME NEW s, NEW regions, NEW nodes, StateOK(s, regions, nodes), NEW x, NEW n \in 1 .. nodes,
         NEW roles, Len(roles) \in Nat, NEW again
  PROVE  Extended(PortsFor(s, x, n, roles, again).graph, s.graph, n)
<1>1. PortsAdded(PortsFor(s, x, n, roles, again), s, n, again, Len(roles))
  BY PortsForAdds
<1> QED
  BY <1>1 DEF PortsAdded

\* Moving a node to another region changes nothing that validation looks at.
LEMMA MovedShape ==
  ASSUME NEW g, GraphOK(g), ShapeOK(g), NEW n \in Nodes(g), NEW r \in Regions(g)
  PROVE  ShapeOK(Moved(g, n, r))
<1> DEFINE old == g.nodes[n].region
           out == remove_from_region(g, old, n)
           w == g.nodes[n]
           v == [w EXCEPT !.region = r]
           to == [out EXCEPT !.nodes[n] = v]
           m == Append(to.regions[r].members, n)
           h == Moved(g, n, r)
<1>1. PICK l : MembersBecome(out, g, old, l)
  BY RemoveMember
<1>2. IsGraph(out) /\ Frame(out, g) /\ out.nodes = g.nodes
  BY <1>1, MembersFrame DEF MembersBecome
<1>3. h = [to EXCEPT !.regions[r].members = m]
  BY <1>2 DEF Moved, arc_region_add_member
<1>4. IsNode(w)
  BY DEF GraphOK, IsGraph
<1> HIDE DEF out, h, m, w
<1>5. IsNode(v) /\ v.kind = w.kind /\ v.listed = w.listed /\ v.cyclic_order = w.cyclic_order /\ v.ports = w.ports
  <2>1. w = [kind |-> w.kind, region |-> w.region, attr |-> w.attr, bodies |-> w.bodies,
             listed |-> w.listed, ports |-> w.ports, cyclic_order |-> w.cyclic_order]
    BY <1>4 DEF IsNode
  <2>2. IsNode(v)
    BY <1>4, NodeRegion
  <2> QED
    BY <2>1, <2>2
<1> HIDE DEF v
<1>6. /\ Frame(to, out) /\ Len(to.nodes) = Len(out.nodes) /\ to.nodes[n] = v
      /\ \A k \in 1 .. Len(out.nodes) : k # n => to.nodes[k] = out.nodes[k]
  BY <1>2, <1>5, NodeFrame DEF Nodes
<1>7. NodeChanged(to, out, n, v)
  BY <1>2, <1>5, ChangeNode DEF Nodes
<1> HIDE DEF to
<1>8. IsGraph(to) /\ r \in Regions(to)
  BY <1>2, <1>6, <1>7 DEF NodeChanged, Frame, Regions
<1>9. IsSeq(m)
  BY <1>8, AppendSeq DEF m, IsGraph, IsRegion
<1>10. Frame(h, to) /\ h.nodes = to.nodes
  BY <1>3, <1>8, <1>9, ChangeMembers, MembersFrame
<1>11. Frame(h, g)
  BY <1>2, <1>6, <1>10, FrameTwice
<1>12. \A k \in 1 .. Len(h.nodes) : CyclicOK(h.nodes[k])
  <2> TAKE k \in 1 .. Len(h.nodes)
  <2>1. k \in 1 .. Len(g.nodes) /\ CyclicOK(g.nodes[k])
    BY <1>2, <1>6, <1>10 DEF ShapeOK
  <2>2. CASE k = n
    <3>1. h.nodes[k] = v /\ CyclicOK(w)
      BY <1>6, <1>10, <2>1, <2>2 DEF w
    <3>2. CyclicOK(v)
      BY <1>5, <3>1 DEF CyclicOK
    <3> QED
      BY <3>1, <3>2
  <2>3. CASE k # n
    BY <1>2, <1>6, <1>10, <2>1, <2>3
  <2> QED
    BY <2>2, <2>3
<1>13. ShapeOK(h)
  BY <1>11, <1>12, FrameShape
<1> QED
  BY <1>13 DEF h

\* Placing a node changes nothing that validation looks at.
LEMMA PlaceShape ==
  ASSUME NEW g, NEW layout, LayoutOK(layout, Len(g.regions)), NEW k, NEW d,
         DerivedOK(d, g, layout, k), ShapeOK(d.graph), NEW np
  PROVE  ShapeOK(Place(layout, d, np).graph)
<1> DEFINE e == Place(layout, d, np)
           r == find_innermost_region(layout, np.pos)
           n == np.id
           l == Append(d.members, [node |-> n, region |-> r])
<1>1. /\ d = [graph |-> d.graph, valid |-> d.valid, members |-> d.members]
      /\ GraphOK(d.graph) /\ Len(d.graph.regions) = Len(g.regions)
      /\ DOMAIN d.graph.nodes = Nodes(d.graph)
  BY GraphLengths DEF DerivedOK, Becoming, GraphOK
<1>2. e = IF ~ d.valid \/ n \notin DOMAIN d.graph.nodes THEN d
          ELSE IF Ambiguous(layout, np.pos) THEN [d EXCEPT !.valid = FALSE]
          ELSE IF r = Invalid THEN d
          ELSE [d EXCEPT !.graph = Moved(d.graph, n, r), !.members = l]
  BY <1>1 DEF Place, Moved
<1>3. r # Invalid => r \in Regions(d.graph)
  BY <1>1, Innermost DEF Regions
<1> HIDE DEF e, r, n, l
<1>4. CASE e = d \/ e = [d EXCEPT !.valid = FALSE]
  <2>1. e.graph = d.graph
    BY <1>1, <1>4
  <2> QED
    BY <2>1 DEF e
<1>5. CASE n \in DOMAIN d.graph.nodes /\ r # Invalid /\ e = [d EXCEPT !.graph = Moved(d.graph, n, r), !.members = l]
  <2> DEFINE h == Moved(d.graph, n, r)
  <2>1. ShapeOK(h)
    BY <1>1, <1>3, <1>5, MovedShape
  <2> HIDE DEF h
  <2>2. e = [d EXCEPT !.graph = h, !.members = l]
    BY <1>5 DEF h
  <2>3. e.graph = h
    BY <1>1, <2>2
  <2> QED
    BY <2>1, <2>3 DEF e
<1> QED
  BY <1>2, <1>4, <1>5

\* Nor does a derivation.
LEMMA DeriveShape ==
  ASSUME NEW g, GraphOK(g), ShapeOK(g), NEW layout, LayoutOK(layout, Len(g.regions))
  PROVE  ShapeOK(derive_regions(g, layout).graph)
<1> DEFINE count == Len(layout.positions)
<1>0. count \in Nat
  BY SeqIs DEF LayoutOK
<1>9. PICK a : DerivationSteps(a, g, layout)
  BY <1>0, DeriveSteps
<1>1. /\ a[0] = [graph |-> g, valid |-> TRUE, members |-> <<>>]
      /\ \A i \in 1 .. count : a[i] = Place(layout, a[i - 1], layout.positions[i])
      /\ derive_regions(g, layout) = IF layout.circles = <<>> THEN a[0] ELSE a[count]
  BY <1>9 DEF DerivationSteps
<1> DEFINE T == {k \in Nat : k <= count => DerivedOK(a[k], g, layout, k) /\ ShapeOK(a[k].graph)}
<1>2. 0 \in T
  <2>1. a[0].graph = g /\ a[0].valid = TRUE /\ a[0].members = <<>>
    BY <1>1
  <2>2. DerivedOK(a[0], g, layout, 0)
    BY <1>1, DerivedStart
  <2> QED
    BY <2>1, <2>2
<1>3. ASSUME NEW k \in Nat, k \in T PROVE k + 1 \in T
  <2> SUFFICES ASSUME k + 1 <= count PROVE DerivedOK(a[k + 1], g, layout, k + 1) /\ ShapeOK(a[k + 1].graph)
    OBVIOUS
  <2>1. DerivedOK(a[k], g, layout, k) /\ ShapeOK(a[k].graph) /\ k + 1 \in 1 .. count /\ (k + 1) - 1 = k
    BY <1>0, <1>3
  <2>2. a[k + 1] = Place(layout, a[k], layout.positions[k + 1])
    BY <1>1, <2>1
  <2> QED
    BY <2>1, <2>2, PlaceKeeps, PlaceShape
<1>4. \A k \in Nat : k \in T
  <2> HIDE DEF T
  <2> QED
    BY <1>2, <1>3, Induct
<1>5. ShapeOK(a[0].graph) /\ ShapeOK(a[count].graph)
  BY <1>0, <1>4
<1> QED
  BY <1>1, <1>5

\* Parents are older, so the way up does not come back.
AboveSteps(a, g, r) ==
  /\ a[0] = r
  /\ \A i \in 1 .. Len(g.regions) : a[i] = IF a[i - 1] \in DOMAIN g.regions THEN g.regions[a[i - 1]].parent ELSE Invalid

\* Above climbs from parent to parent.
LEMMA AboveIs ==
  ASSUME NEW g, NEW r, Len(g.regions) \in Nat
  PROVE  AboveSteps(Above(g, r), g, r)
<1> DEFINE count == Len(g.regions)
           Step(t) == IF t \in DOMAIN g.regions THEN g.regions[t].parent ELSE Invalid
           Eq(f, k) == f = [i \in 0 .. k |-> IF i = 0 THEN r ELSE Step(f[i - 1])]
           T == {k \in Nat : \E f : Eq(f, k)}
           a == CHOOSE f : Eq(f, count)
<1>5. Above(g, r) = a
  BY DEF Above
<1> HIDE DEF Step
<1>1. 0 \in T
  <2>1. Eq([i \in 0 .. 0 |-> r], 0)
    OBVIOUS
  <2> QED
    BY <2>1
<1>2. ASSUME NEW k \in Nat, k \in T PROVE k + 1 \in T
  <2>1. PICK f : Eq(f, k)
    BY <1>2
  <2> DEFINE h == [i \in 0 .. k + 1 |-> IF i = k + 1 THEN Step(f[k]) ELSE f[i]]
  <2>2. ASSUME NEW i \in 0 .. k + 1
        PROVE  h[i] = IF i = 0 THEN r ELSE Step(h[i - 1])
    <3>1. CASE i = k + 1
      <4>1. h[i - 1] = f[k] /\ i # 0
        BY <3>1
      <4> QED
        BY <3>1, <4>1
    <3>2. CASE i # k + 1
      <4>1. i \in 0 .. k /\ h[i] = f[i] /\ (i # 0 => h[i - 1] = f[i - 1])
        BY <3>2
      <4>2. f[i] = IF i = 0 THEN r ELSE Step(f[i - 1])
        BY <2>1, <4>1
      <4> HIDE DEF h
      <4> QED
        BY <4>1, <4>2
    <3> QED
      BY <3>1, <3>2
  <2>3. Eq(h, k + 1)
    <3> DEFINE hh == [i \in 0 .. k + 1 |-> IF i = 0 THEN r ELSE Step(h[i - 1])]
    <3>1. \A i \in 0 .. k + 1 : h[i] = hh[i]
      <4> HIDE DEF h
      <4> QED
        BY <2>2
    <3>2. h = hh
      BY <3>1
    <3> QED
      BY <3>2
  <2> HIDE DEF Eq, h
  <2> QED
    BY <2>3
<1>3. \A k \in Nat : k \in T
  <2> HIDE DEF T
  <2> QED
    BY <1>1, <1>2, Induct
<1>4. Eq(a, count)
  <2>1. \E f : Eq(f, count)
    BY <1>3
  <2> HIDE DEF Eq
  <2> QED
    BY <2>1
<1> HIDE DEF a
<1>6. a[0] = r
  BY <1>4
<1>7. \A i \in 1 .. count : a[i] = Step(a[i - 1])
  BY <1>4
<1> QED
  BY <1>5, <1>6, <1>7 DEF Step, AboveSteps

\* Ancestors are older: no climb comes back to its start.
LEMMA NoCycle ==
  ASSUME NEW g, IsGraph(g), ParentsOK(g.regions), NEW r \in Regions(g), NEW i \in 1 .. Len(g.regions)
  PROVE  Above(g, r)[i] # r
<1> DEFINE a == Above(g, r)
           count == Len(g.regions)
<1>1. count \in Nat /\ DOMAIN g.regions = 1 .. count /\ r \in 1 .. count
  BY GraphLengths DEF Regions
<1>2. a[0] = r /\ \A j \in 1 .. count : a[j] = IF a[j - 1] \in DOMAIN g.regions THEN g.regions[a[j - 1]].parent ELSE Invalid
  BY <1>1, AboveIs DEF AboveSteps
<1> HIDE DEF a
<1> DEFINE T == {k \in Nat : k + 1 <= count => a[k + 1] \in 0 .. r - 1}
<1>3. \A t \in 1 .. count : g.regions[t].parent \in 0 .. t - 1
  BY DEF ParentsOK
<1>4. 0 \in T
  <2>1. 0 + 1 <= count => a[1] = g.regions[r].parent
    BY <1>1, <1>2
  <2> QED
    BY <1>1, <1>3, <2>1
<1>5. ASSUME NEW k \in Nat, k \in T PROVE k + 1 \in T
  <2> SUFFICES ASSUME (k + 1) + 1 <= count PROVE a[(k + 1) + 1] \in 0 .. r - 1
    OBVIOUS
  <2>1. a[k + 1] \in 0 .. r - 1 /\ (k + 1) + 1 \in 1 .. count /\ ((k + 1) + 1) - 1 = k + 1
    BY <1>1, <1>5
  <2>2. a[(k + 1) + 1] = IF a[k + 1] \in DOMAIN g.regions THEN g.regions[a[k + 1]].parent ELSE Invalid
    BY <1>2, <2>1
  <2>3. CASE a[k + 1] \in DOMAIN g.regions
    BY <1>1, <1>3, <2>1, <2>2, <2>3
  <2>4. CASE a[k + 1] \notin DOMAIN g.regions
    BY <1>1, <2>2, <2>4 DEF Invalid
  <2> QED
    BY <2>3, <2>4
<1>6. \A k \in Nat : k \in T
  <2> HIDE DEF T
  <2> QED
    BY <1>4, <1>5, Induct
<1>7. i - 1 \in Nat /\ (i - 1) + 1 = i /\ i <= count
  BY <1>1
<1>8. a[i] \in 0 .. r - 1
  BY <1>6, <1>7
<1> QED
  BY <1>1, <1>8 DEF a

\* With the invariant, what validation looks at is as it should be.
LEMMA ShapeValid ==
  ASSUME LayoutInv, ShapeOK(graph)
  PROVE  ParsedValidates
<1> SUFFICES ASSUME graph.regions # <<>>, ~ ListsPorts, Directed(graph) PROVE arc_graph_validate(graph)
  BY DEF ParsedValidates
<1>1. /\ IsGraph(graph) /\ MembersOK(graph.regions, graph.nodes) /\ PortsOK(graph.nodes, graph.ports)
      /\ EdgesOK(graph.ports, graph.edges)
  BY DEF LayoutInv, GraphOK
<1>2. /\ Len(graph.regions) \in Nat /\ DOMAIN graph.regions = 1 .. Len(graph.regions)
      /\ DOMAIN graph.nodes = 1 .. Len(graph.nodes) /\ DOMAIN graph.ports = 1 .. Len(graph.ports)
      /\ DOMAIN graph.edges = 1 .. Len(graph.edges)
  BY <1>1, GraphLengths DEF Regions, Nodes, Ports
<1>3. graph.root_region # Invalid
  <2>1. Len(graph.regions) > 0
    <3> DEFINE S == Range(graph.regions)
    <3>1. graph.regions \in Seq(S)
      BY <1>1 DEF IsGraph, IsSeq
    <3> HIDE DEF S
    <3> QED
      BY <3>1
  <2> QED
    BY <2>1 DEF ShapeOK
<1>4. validate_regions(graph)
  <2>1. ASSUME NEW r \in 1 .. Len(graph.regions) PROVE graph.regions[r].parent \in 1 .. Len(graph.regions) \cup {Invalid}
    <3>1. graph.regions[r].parent \in 0 .. r - 1
      BY DEF ShapeOK, ParentsOK
    <3> QED
      BY <1>2, <3>1 DEF Invalid
  <2>2. ASSUME NEW r \in 1 .. Len(graph.regions), NEW i \in 1 .. Len(graph.regions) PROVE Above(graph, r)[i] # r
    BY <1>1, NoCycle DEF ShapeOK, Regions
  <2> QED
    BY <1>2, <2>1, <2>2 DEF validate_regions
<1>5. validate_nodes(graph)
  <2> SUFFICES ASSUME NEW i \in 1 .. Len(graph.nodes)
               PROVE  /\ graph.nodes[i].region \in 1 .. Len(graph.regions)
                      /\ graph.nodes[i].cyclic_order # <<>> =>
                           /\ Len(graph.nodes[i].cyclic_order) = Len(graph.nodes[i].ports)
                           /\ ToSet(graph.nodes[i].cyclic_order) \subseteq ToSet(graph.nodes[i].ports)
    BY <1>2 DEF validate_nodes
  <2> DEFINE v == graph.nodes[i]
  <2>1. v.region \in 1 .. Len(graph.regions)
    BY <1>1 DEF MembersOK
  <2>2. ~ v.listed /\ (v.kind \in {"BINARY", "CHAN_SEND"} => Len(v.ports) = 3)
    BY <1>2 DEF ListsPorts, NodeIds
  <2>3. CyclicOK(v) /\ IsSeq(v.ports)
    BY <1>1 DEF ShapeOK, IsGraph, IsNode, Nodes
  <2> HIDE DEF v
  <2>4. ASSUME v.cyclic_order # <<>>
        PROVE  Len(v.cyclic_order) = Len(v.ports) /\ ToSet(v.cyclic_order) \subseteq ToSet(v.ports)
    <3>1. /\ v.kind \in {"BINARY", "CHAN_SEND"} /\ IsSeq(v.cyclic_order) /\ Len(v.cyclic_order) = 3
          /\ \A j \in 1 .. 3 : \E k \in 1 .. Len(v.ports) : v.ports[k] = v.cyclic_order[j]
      BY <2>2, <2>3, <2>4 DEF CyclicOK
    <3>2. DOMAIN v.cyclic_order = 1 .. 3 /\ DOMAIN v.ports = 1 .. Len(v.ports)
      BY <2>3, <3>1, SeqIs
    <3>3. ToSet(v.cyclic_order) \subseteq ToSet(v.ports)
      BY <3>1, <3>2 DEF ToSet
    <3> QED
      BY <2>2, <3>1, <3>3
  <2> QED
    BY <2>1, <2>4 DEF v
<1>6. validate_edges_and_ports(graph)
  <2>1. ASSUME NEW i \in 1 .. Len(graph.edges)
        PROVE  {graph.edges[i][1], graph.edges[i][2]} \subseteq 1 .. Len(graph.ports)
    BY <1>1 DEF EdgesOK
  <2>2. \A p \in 1 .. Len(graph.ports) : graph.ports[p].owner \in 1 .. Len(graph.nodes)
    BY <1>1 DEF PortsOK
  <2> QED
    BY <1>2, <2>1, <2>2 DEF validate_edges_and_ports
<1> QED
  BY <1>3, <1>4, <1>5, <1>6 DEF arc_graph_validate

\* Only node n differs.
Only(h, g, n) ==
  /\ Frame(h, g) /\ Len(h.nodes) = Len(g.nodes)
  /\ \A k \in 1 .. Len(g.nodes) : k # n => h.nodes[k] = g.nodes[k]

\* If only one node differs, only its order matters.
LEMMA OnlyShape ==
  ASSUME NEW g, NEW h, NEW n, Only(h, g, n), ShapeOK(g), CyclicOK(h.nodes[n])
  PROVE  ShapeOK(h)
<1>1. \A k \in 1 .. Len(h.nodes) : CyclicOK(h.nodes[k])
  <2> TAKE k \in 1 .. Len(h.nodes)
  <2>1. k \in 1 .. Len(g.nodes) /\ CyclicOK(g.nodes[k])
    BY DEF Only, ShapeOK
  <2>2. CASE k = n
    BY <2>2
  <2>3. CASE k # n
    BY <2>1, <2>3 DEF Only
  <2> QED
    BY <2>2, <2>3
<1> QED
  BY <1>1, FrameShape DEF Only

\* Another node in the place of one.
LEMMA SetOnly ==
  ASSUME NEW s, NEW regions, NEW nodes, StateOK(s, regions, nodes), NEW n \in 1 .. nodes, NEW v, IsNode(v)
  PROVE  LET t == [s EXCEPT !.graph.nodes[n] = v] IN Only(t.graph, s.graph, n) /\ t.graph.nodes[n] = v
<1> DEFINE g == s.graph
           h == [g EXCEPT !.nodes[n] = v]
           t == [s EXCEPT !.graph.nodes[n] = v]
<1>1. s = [graph |-> g, names |-> s.names] /\ IsGraph(g) /\ n \in Nodes(g)
  BY DEF StateOK, Nodes, GraphOK
<1>2. t.graph = h
  BY <1>1
<1>3. /\ Frame(h, g) /\ Len(h.nodes) = Len(g.nodes) /\ h.nodes[n] = v
      /\ \A k \in 1 .. Len(g.nodes) : k # n => h.nodes[k] = g.nodes[k]
  BY <1>1, NodeFrame
<1> HIDE DEF h, t, g
<1> QED
  BY <1>2, <1>3 DEF Only, t, g

\* The fields that validation looks at.
LEMMA NodeKeeps ==
  ASSUME NEW w, IsNode(w), NEW x
  PROVE  /\ LET v == [w EXCEPT !.attr = x] IN
            /\ IsNode(v) /\ v.kind = w.kind /\ v.ports = w.ports /\ v.cyclic_order = w.cyclic_order
         /\ LET v == [w EXCEPT !.bodies = x] IN
            /\ IsNode(v) /\ v.kind = w.kind /\ v.ports = w.ports /\ v.cyclic_order = w.cyclic_order
         /\ LET v == [w EXCEPT !.listed = x] IN
            /\ IsNode(v) /\ v.kind = w.kind /\ v.ports = w.ports /\ v.cyclic_order = w.cyclic_order /\ v.listed = x
<1>1. w = [kind |-> w.kind, region |-> w.region, attr |-> w.attr, bodies |-> w.bodies,
           listed |-> w.listed, ports |-> w.ports, cyclic_order |-> w.cyclic_order]
  BY DEF IsNode
<1>2. /\ [w EXCEPT !.attr = x].kind = w.kind /\ [w EXCEPT !.attr = x].cyclic_order = w.cyclic_order
      /\ [w EXCEPT !.bodies = x].kind = w.kind /\ [w EXCEPT !.bodies = x].cyclic_order = w.cyclic_order
      /\ [w EXCEPT !.listed = x].kind = w.kind /\ [w EXCEPT !.listed = x].cyclic_order = w.cyclic_order
      /\ [w EXCEPT !.listed = x].listed = x
  BY <1>1
<1> QED
  BY <1>2, NodeFields

\* Node n has got attributes.
Described(t, s, n, listed) ==
  /\ ShapeOK(t.graph) /\ t.graph.nodes[n].kind = s.graph.nodes[n].kind /\ t.graph.nodes[n].ports = s.graph.nodes[n].ports
  /\ t.graph.nodes[n].cyclic_order = <<>> /\ t.graph.nodes[n].listed = listed

\* Attributes are not ports, and not an order.
LEMMA AttributesShape ==
  ASSUME NEW s, NEW regions, NEW nodes, StateOK(s, regions, nodes), NEW n \in 1 .. nodes,
         NEW attr, NEW bodies, NEW listed, ShapeOK(s.graph), s.graph.nodes[n].cyclic_order = <<>>
  PROVE  Described([s EXCEPT !.graph.nodes[n].attr = attr, !.graph.nodes[n].bodies = bodies,
                             !.graph.nodes[n].listed = listed], s, n, listed)
<1> DEFINE N(t) == t.graph.nodes[n]
           Good(t) == /\ StateOK(t, regions, nodes) /\ ShapeOK(t.graph) /\ N(t).kind = N(s).kind
                      /\ N(t).ports = N(s).ports /\ N(t).cyclic_order = <<>>
           v == [N(s) EXCEPT !.attr = attr]
           t1 == [s EXCEPT !.graph.nodes[n] = v]
           w == [N(t1) EXCEPT !.bodies = bodies]
           t2 == [t1 EXCEPT !.graph.nodes[n] = w]
           u == [N(t2) EXCEPT !.listed = listed]
           t3 == [t2 EXCEPT !.graph.nodes[n] = u]
           t == [s EXCEPT !.graph.nodes[n].attr = attr, !.graph.nodes[n].bodies = bodies,
                          !.graph.nodes[n].listed = listed]
<1>1. t = t3
  OBVIOUS
<1>2. \A k : Good(k) => IsNode(N(k))
  BY DEF StateOK, GraphOK, IsGraph, Nodes
<1>3. Good(s)
  OBVIOUS
<1>4. ASSUME NEW k, Good(k), NEW y, IsNode(y), y.region = N(k).region, y.kind = N(k).kind, y.ports = N(k).ports,
             y.cyclic_order = N(k).cyclic_order
      PROVE  LET h == [k EXCEPT !.graph.nodes[n] = y] IN Good(h) /\ N(h) = y
  <2> DEFINE h == [k EXCEPT !.graph.nodes[n] = y]
  <2>1. StateOK(h, regions, nodes)
    BY <1>4, SetNode
  <2>2. Only(h.graph, k.graph, n) /\ h.graph.nodes[n] = y
    BY <1>4, SetOnly
  <2> HIDE DEF h
  <2>3. ShapeOK(h.graph)
    <3>1. y.cyclic_order = <<>>
      BY <1>4
    <3>2. CyclicOK(h.graph.nodes[n])
      BY <2>2, <3>1 DEF CyclicOK
    <3> QED
      BY <1>4, <2>2, <3>2, OnlyShape
  <2> QED
    BY <1>4, <2>1, <2>2, <2>3 DEF h
<1> HIDE DEF Good, t
<1>5. Good(t1)
  <2>1. IsNode(v) /\ v.region = N(s).region /\ v.kind = N(s).kind /\ v.ports = N(s).ports /\ v.cyclic_order = N(s).cyclic_order
    BY <1>2, <1>3, NodeFields, NodeKeeps
  <2> HIDE DEF v
  <2> QED
    BY <1>3, <1>4, <2>1
<1> HIDE DEF t1
<1>6. Good(t2)
  <2>1. IsNode(w) /\ w.region = N(t1).region /\ w.kind = N(t1).kind /\ w.ports = N(t1).ports /\ w.cyclic_order = N(t1).cyclic_order
    BY <1>2, <1>5, NodeFields, NodeKeeps
  <2> HIDE DEF w
  <2> QED
    BY <1>4, <1>5, <2>1
<1> HIDE DEF t2
<1>7. Good(t3) /\ N(t3).listed = listed
  <2>1. IsNode(u) /\ u.region = N(t2).region /\ u.kind = N(t2).kind /\ u.ports = N(t2).ports /\ u.cyclic_order = N(t2).cyclic_order
    BY <1>2, <1>6, NodeFields, NodeKeeps
  <2>2. u.listed = listed
    BY <1>2, <1>6, NodeKeeps
  <2> HIDE DEF u
  <2> QED
    BY <1>4, <1>6, <2>1, <2>2
<1> HIDE DEF t3
<1>8. Good(t) /\ N(t).listed = listed
  BY <1>1, <1>7
<1>9. Described(t, s, n, listed)
  BY <1>8 DEF Good, Described
<1> QED
  BY <1>9 DEF t

\* arc_node_set_cyclic_order changes nothing else.
LEMMA OrderShape ==
  ASSUME NEW s, NEW regions, NEW nodes, StateOK(s, regions, nodes), NEW n \in 1 .. nodes, NEW order, ShapeOK(s.graph)
  PROVE  LET t == [s EXCEPT !.graph = arc_node_set_cyclic_order(s.graph, n, order)]
             v == t.graph.nodes[n]
             w == s.graph.nodes[n] IN
         /\ v.kind = w.kind /\ v.ports = w.ports /\ v.listed = w.listed /\ v.cyclic_order = order
         /\ CyclicOK(v) => ShapeOK(t.graph)
<1> DEFINE w == s.graph.nodes[n]
           a == [w EXCEPT !.cyclic_order = order]
           v == [kind |-> w.kind, region |-> w.region, attr |-> w.attr, bodies |-> w.bodies,
                 listed |-> w.listed, ports |-> w.ports, cyclic_order |-> order]
           t == [s EXCEPT !.graph = arc_node_set_cyclic_order(s.graph, n, order)]
<1>1. IsNode(w)
  BY DEF StateOK, GraphOK, IsGraph, Nodes
<1>2. t = [s EXCEPT !.graph.nodes[n] = a]
  <2>1. /\ s = [graph |-> s.graph, names |-> s.names] /\ n \in DOMAIN s.graph.nodes
        /\ s.graph = [regions |-> s.graph.regions, nodes |-> s.graph.nodes, ports |-> s.graph.ports, edges |-> s.graph.edges,
                      root_region |-> s.graph.root_region, output_node |-> s.graph.output_node]
    BY GraphLengths DEF StateOK, GraphOK, IsGraph, Nodes
  <2> QED
    BY <2>1 DEF arc_node_set_cyclic_order
<1>3. a = v
  <2> DEFINE u == w
  <2>1. u = [kind |-> u.kind, region |-> u.region, attr |-> u.attr, bodies |-> u.bodies,
             listed |-> u.listed, ports |-> u.ports, cyclic_order |-> u.cyclic_order]
    BY <1>1 DEF IsNode
  <2>2. /\ a = [u EXCEPT !.cyclic_order = order]
        /\ v = [kind |-> u.kind, region |-> u.region, attr |-> u.attr, bodies |-> u.bodies,
                listed |-> u.listed, ports |-> u.ports, cyclic_order |-> order]
    OBVIOUS
  <2> HIDE DEF u, a, v
  <2> QED
    BY <2>1, <2>2
<1> HIDE DEF t, a
<1>4. /\ v.kind = w.kind /\ v.ports = w.ports /\ v.cyclic_order = order /\ v.listed = w.listed
      /\ v = [kind |-> v.kind, region |-> v.region, attr |-> v.attr, bodies |-> v.bodies,
              listed |-> v.listed, ports |-> v.ports, cyclic_order |-> v.cyclic_order]
  OBVIOUS
<1> HIDE DEF v, w
<1>5. IsNode(v)
  BY <1>1, <1>4 DEF IsNode
<1>6. Only(t.graph, s.graph, n) /\ t.graph.nodes[n] = v
  BY <1>2, <1>3, <1>5, SetOnly
<1>8. CyclicOK(t.graph.nodes[n]) => ShapeOK(t.graph)
  BY <1>6, OnlyShape
<1> QED
  BY <1>4, <1>6, <1>8 DEF t, w

\* The command region: the parent is older than the region, and there is a root.
LEMMA RegionShape ==
  ASSUME LayoutInv, ShapeOK(graph), parse_cmd_region
  PROVE  ShapeOK(graph')
<1> DEFINE p == find_region(Parsing, word[3])
           e == [parent |-> p, members |-> <<>>]
           l == Append(graph.regions, e)
           k == arc_graph_add_region(graph, p)
           x == IF k.root_region = Invalid THEN 1 ELSE k.root_region
           h == [k EXCEPT !.root_region = x]
           R == Len(graph.regions)
<1>1. IsGraph(graph) /\ IsSeq(graph.regions) /\ R \in Nat
  BY GraphLengths DEF LayoutInv, GraphOK, IsGraph
<1>2. p \in 0 .. R
  <2>1. p = Invalid \/ p \in 1 .. R
    BY ParsingOK DEF Regions
  <2> QED
    BY <1>1, <2>1 DEF Invalid
<1>3. e.parent = p
  OBVIOUS
<1>4. k = [graph EXCEPT !.regions = l]
  BY <1>1 DEF arc_graph_add_region, IsGraph
<1>12. graph' = [k EXCEPT !.root_region = IF @ = Invalid THEN 1 ELSE @]
  BY DEF parse_cmd_region
<1> HIDE DEF p, e, l, k
<1>5. IsSeq(l) /\ Len(l) = R + 1 /\ l[R + 1] = e /\ \A i \in 1 .. R : l[i] = graph.regions[i]
  BY <1>1, AppendSeq DEF l
<1>6. k = [regions |-> l, nodes |-> graph.nodes, ports |-> graph.ports, edges |-> graph.edges,
           root_region |-> graph.root_region, output_node |-> graph.output_node]
  BY <1>1, <1>4 DEF IsGraph
<1>7. k.regions = l /\ k.nodes = graph.nodes
  BY <1>6
<1>8. graph' = h
  BY <1>6, <1>12
<1>9. h.regions = l /\ h.nodes = graph.nodes /\ h.root_region = x
  BY <1>6
<1>10. x # Invalid
  BY DEF Invalid
<1> HIDE DEF h, x
<1>11. ParentsOK(l)
  <2> SUFFICES ASSUME NEW r \in 1 .. Len(l) PROVE l[r].parent \in 0 .. r - 1
    BY DEF ParentsOK
  <2>1. CASE r = R + 1
    BY <1>1, <1>2, <1>3, <1>5, <2>1
  <2>2. CASE r # R + 1
    <3>1. r \in 1 .. R
      BY <1>1, <1>5, <2>2
    <3> QED
      BY <1>5, <3>1 DEF ShapeOK, ParentsOK
  <2> QED
    BY <2>1, <2>2
<1> QED
  BY <1>8, <1>9, <1>10, <1>11 DEF ShapeOK

\* A new node has no order.
LEMMA NewShape ==
  ASSUME NEW g, IsGraph(g), ShapeOK(g), NEW kind, NEW r \in Regions(g)
  PROVE  ShapeOK(arc_graph_add_node(g, kind, r))
<1> DEFINE h == arc_graph_add_node(g, kind, r)
           n == Len(g.nodes) + 1
<1>1. /\ Frame(h, g) /\ Len(h.nodes) = n
      /\ \A i \in 1 .. Len(g.nodes) : h.nodes[i] = g.nodes[i]
      /\ h.nodes[n].cyclic_order = <<>> /\ Len(g.nodes) \in Nat
  BY AddNodeFrame, GraphLengths
<1> HIDE DEF h
<1>2. \A k \in 1 .. Len(h.nodes) : CyclicOK(h.nodes[k])
  <2> TAKE k \in 1 .. Len(h.nodes)
  <2>1. CASE k = n
    BY <1>1, <2>1 DEF CyclicOK
  <2>2. CASE k # n
    <3>1. k \in 1 .. Len(g.nodes)
      BY <1>1, <2>2
    <3> QED
      BY <1>1, <3>1 DEF ShapeOK
  <2> QED
    BY <2>1, <2>2
<1> QED
  BY <1>1, <1>2, FrameShape DEF h

\* A port more.
LEMMA PortShape ==
  ASSUME NEW g, IsGraph(g), ShapeOK(g), NEW n \in Nodes(g), NEW dir
  PROVE  ShapeOK(arc_graph_add_port(g, n, dir))
<1> DEFINE h == arc_graph_add_port(g, n, dir)
           w == g.nodes[n]
           l == Append(w.ports, Len(g.ports) + 1)
           v == [w EXCEPT !.ports = l]
<1>1. IsNode(w)
  BY DEF IsGraph
<1>3. /\ Frame(h, g) /\ Len(h.nodes) = Len(g.nodes)
      /\ \A k \in 1 .. Len(g.nodes) : k # n => h.nodes[k] = g.nodes[k]
      /\ h.nodes[n] = v
  BY AddPortFrame
<1> HIDE DEF h, w, l
<1>4. v.kind = w.kind /\ v.listed = w.listed /\ v.cyclic_order = w.cyclic_order /\ v.ports = l /\ IsSeq(w.ports)
  <2>1. w = [kind |-> w.kind, region |-> w.region, attr |-> w.attr, bodies |-> w.bodies,
             listed |-> w.listed, ports |-> w.ports, cyclic_order |-> w.cyclic_order] /\ IsSeq(w.ports)
    BY <1>1 DEF IsNode
  <2> QED
    BY <2>1
<1>5. /\ Len(l) = Len(w.ports) + 1 /\ Len(w.ports) \in Nat /\ \A i \in 1 .. Len(w.ports) : l[i] = w.ports[i]
  BY <1>4, AppendSeq DEF l
<1> HIDE DEF v
<1>6. \A i \in 1 .. Len(w.ports) : i \in 1 .. Len(l)
  BY <1>5
<1>7. MorePorts(v, w)
  BY <1>4, <1>5, <1>6 DEF MorePorts
<1>8. Extended(h, g, n)
  BY <1>3, <1>7 DEF Extended, w
<1> QED
  BY <1>8, ExtendedShape DEF h

\* An edge more.
LEMMA EdgeAddedShape ==
  ASSUME NEW g, IsGraph(g), ShapeOK(g), NEW a, NEW b
  PROVE  ShapeOK(arc_graph_add_edge(g, a, b))
<1> DEFINE h == arc_graph_add_edge(g, a, b)
<1>1. Frame(h, g) /\ h.nodes = g.nodes
  BY AddEdgeFrame
<1> HIDE DEF h
<1> QED
  BY <1>1, FrameShape DEF ShapeOK, h

\* Another output node.
LEMMA OutputShape ==
  ASSUME NEW g, IsGraph(g), ShapeOK(g), NEW x
  PROVE  ShapeOK([g EXCEPT !.output_node = x])
<1> DEFINE h == [g EXCEPT !.output_node = x]
<1>1. h.regions = g.regions /\ h.nodes = g.nodes /\ h.root_region = g.root_region
  BY DEF IsGraph
<1> HIDE DEF h
<1> QED
  BY <1>1 DEF ShapeOK, h

\* Three default ports of a node that gets an order.
LEMMA ThreePorts ==
  ASSUME NEW kind, kind \in {"BINARY", "CHAN_SEND"}
  PROVE  Len(default_ports(kind)) = 3
<1>1. default_ports(kind) = <<"lhs", "rhs", "out">>
  BY DEF default_ports
<1> QED
  BY <1>1

\* The order of the default ports is one of ports of the node.
LEMMA DefaultOrder ==
  ASSUME NEW v, NEW w, NEW kind, w.kind = kind, IsSeq(w.ports),
         kind \in {"BINARY", "CHAN_SEND"} => Len(w.ports) = 3,
         v.kind = w.kind, v.ports = w.ports, v.cyclic_order = add_binary_order(kind, w.ports)
  PROVE  CyclicOK(v)
<1>1. CASE kind \in {"BINARY", "CHAN_SEND"}
  <2>1. v.cyclic_order = w.ports /\ Len(w.ports) = 3 /\ v.kind \in {"BINARY", "CHAN_SEND"}
    BY <1>1 DEF add_binary_order
  <2>2. IsSeq(v.cyclic_order) /\ Len(v.cyclic_order) = 3 /\ Len(v.ports) = 3
    BY <2>1
  <2>3. \A i \in 1 .. 3 : \E j \in 1 .. Len(v.ports) : v.ports[j] = v.cyclic_order[i]
    BY <2>1, <2>2
  <2> QED
    BY <2>1, <2>2, <2>3 DEF CyclicOK
<1>2. CASE kind \notin {"BINARY", "CHAN_SEND"}
  <2>1. v.cyclic_order = <<>>
    BY <1>2 DEF add_binary_order
  <2> QED
    BY <2>1 DEF CyclicOK
<1> QED
  BY <1>1, <1>2

\* An order that the line gives is that of a node that lists its own.
LEMMA SpecShape ==
  ASSUME NEW s, NEW regions, NEW nodes, StateOK(s, regions, nodes), NEW n \in 1 .. nodes, NEW x, NEW roles,
         ShapeOK(s.graph), roles # <<>> => s.graph.nodes[n].listed
  PROVE  ShapeOK(parse_cyclic_spec(s, x, n, roles).graph)
<1> DEFINE known == SelectSeq(roles, LAMBDA role : find_port(s, x, role) # Invalid)
           order == [i \in DOMAIN known |-> find_port(s, x, known[i])]
           t == [s EXCEPT !.graph = arc_node_set_cyclic_order(s.graph, n, order)]
           done == parse_cyclic_spec(s, x, n, roles)
<1>1. done = IF roles = <<>> \/ order = <<>> THEN s ELSE t
  BY DEF parse_cyclic_spec, StateOK
<1> HIDE DEF order, done
<1> SUFFICES ShapeOK(done.graph)
  BY DEF done
<1>2. CASE roles = <<>> \/ order = <<>>
  <2>1. done = s
    BY <1>1, <1>2
  <2> QED
    BY <2>1
<1>3. CASE ~ (roles = <<>> \/ order = <<>>)
  <2>1. done = t /\ s.graph.nodes[n].listed
    BY <1>1, <1>3
  <2>2. t.graph.nodes[n].listed = s.graph.nodes[n].listed /\ (CyclicOK(t.graph.nodes[n]) => ShapeOK(t.graph))
    BY OrderShape
  <2> HIDE DEF t
  <2>3. CyclicOK(t.graph.nodes[n])
    BY <2>1, <2>2 DEF CyclicOK
  <2> QED
    BY <2>1, <2>2, <2>3
<1> QED
  BY <1>2, <1>3

\* What the default ports, and an order, do to node n.
Filled(t, s, n, count) ==
  Extended(t.graph, s.graph, n) /\ Len(t.graph.nodes[n].ports) = Len(s.graph.nodes[n].ports) + count
Arranged(t, s, n, order) ==
  /\ t.graph.nodes[n].kind = s.graph.nodes[n].kind /\ t.graph.nodes[n].ports = s.graph.nodes[n].ports
  /\ t.graph.nodes[n].listed = s.graph.nodes[n].listed /\ t.graph.nodes[n].cyclic_order = order
  /\ CyclicOK(t.graph.nodes[n]) => ShapeOK(t.graph)

\* add_default_ports adds a port for each role.
LEMMA FilledNode ==
  ASSUME NEW s, NEW regions, NEW nodes, StateOK(s, regions, nodes), NEW x, NEW n \in 1 .. nodes,
         NEW roles, Len(roles) \in Nat
  PROVE  Filled(add_default_ports(s, x, n, roles), s, n, Len(roles))
<1> DEFINE again == TRUE
           t == PortsFor(s, x, n, roles, again)
<1>1. again /\ add_default_ports(s, x, n, roles) = t
  BY DEF add_default_ports
<1> HIDE DEF again
<1>2. PortsAdded(t, s, n, again, Len(roles))
  BY PortsForAdds
<1> HIDE DEF t
<1>3. Filled(t, s, n, Len(roles))
  BY <1>1, <1>2 DEF Filled, PortsAdded
<1> QED
  BY <1>1, <1>3

\* arc_node_set_cyclic_order gives the node that order.
LEMMA ArrangedNode ==
  ASSUME NEW s, NEW regions, NEW nodes, StateOK(s, regions, nodes), NEW n \in 1 .. nodes, NEW order, ShapeOK(s.graph)
  PROVE  Arranged([s EXCEPT !.graph = arc_node_set_cyclic_order(s.graph, n, order)], s, n, order)
<1> DEFINE t == [s EXCEPT !.graph = arc_node_set_cyclic_order(s.graph, n, order)]
<1>1. LET v == t.graph.nodes[n]
          w == s.graph.nodes[n] IN
      /\ v.kind = w.kind /\ v.ports = w.ports /\ v.listed = w.listed /\ v.cyclic_order = order
      /\ CyclicOK(v) => ShapeOK(t.graph)
  BY OrderShape
<1> HIDE DEF t
<1>2. Arranged(t, s, n, order)
  BY <1>1 DEF Arranged
<1> QED
  BY <1>2 DEF t

\* The command node: the order is that of the three default ports, or the line gives it.
LEMMA NodeShape ==
  ASSUME LayoutInv, ShapeOK(graph), parse_cmd_node
  PROVE  ShapeOK(graph')
<1> DEFINE x == word[2]
           kind == word[3]
           r == find_region(Parsing, word[4])
           n == Len(graph.nodes) + 1
           given == word[7] # <<>> \/ word[8] # <<>>
           new == [graph |-> arc_graph_add_node(graph, kind, r),
                   names |-> [names EXCEPT !.nodes = Append(@, [name |-> x, id |-> n])]]
           attrs == [new EXCEPT !.graph.nodes[n].attr = word[5],
                                !.graph.nodes[n].bodies = Bodies(Parsing, kind, word[6]),
                                !.graph.nodes[n].listed = given]
           ports == add_default_ports(attrs, x, n, default_ports(kind))
           ordered == [ports EXCEPT !.graph = arc_node_set_cyclic_order(@, n, add_binary_order(kind, @.nodes[n].ports))]
           listed == add_ports(ordered, x, n, word[7])
           done == parse_cyclic_spec(listed, x, n, word[8])
           N(t) == t.graph.nodes[n]
<1>1. lines # <<>> /\ word[1] = "node"
  BY DEF parse_cmd_node, Line, word
<1>2. CASE r = Invalid
  BY <1>2 DEF parse_cmd_node, perr
<1>3. CASE r # Invalid
  <2> DEFINE R == Len(graph.regions)
  <2>1. graph' = done.graph
    BY <1>3 DEF parse_cmd_node, Becomes
  <2>2. IsSeq(word[7])
    BY <1>1, TailLines DEF LayoutInv, LinesOK, word
  <2>3. Len(word[7]) \in Nat /\ Len(default_ports(kind)) \in Nat
    BY <2>2, SeqIs, DefaultCount
  <2>4. /\ GraphOK(graph) /\ NamesOK(names, graph) /\ r \in Regions(graph) /\ n \in 1 .. n
        /\ Len(graph.regions) <= R /\ Len(graph.nodes) <= n /\ IsGraph(graph)
    BY <1>3, ParsingOK, GraphLengths DEF LayoutInv, GraphOK
  <2>5. StateOK(new, R, n)
    BY <2>4, NewNode
  <2>15. ShapeOK(new.graph)
    BY <2>4, NewShape
  <2>16. N(new).kind = kind /\ N(new).ports = <<>> /\ N(new).cyclic_order = <<>>
    BY <2>4, AddNodeFrame
  <2> HIDE DEF new, given
  <2>6. StateOK(attrs, R, n)
    BY <2>4, <2>5, SetAttributes
  <2>17. /\ ShapeOK(attrs.graph) /\ N(attrs).kind = N(new).kind /\ N(attrs).ports = N(new).ports
         /\ N(attrs).cyclic_order = <<>> /\ N(attrs).listed = given
    <3>1. Described(attrs, new, n, given)
      <4> DEFINE attr == word[5]
                 bodies == Bodies(Parsing, kind, word[6])
      <4> HIDE DEF attr, bodies
      <4>1. attrs = [new EXCEPT !.graph.nodes[n].attr = attr, !.graph.nodes[n].bodies = bodies,
                                !.graph.nodes[n].listed = given]
        BY DEF attr, bodies
      <4> HIDE DEF n, attrs
      <4> QED
        BY <2>4, <2>5, <2>15, <2>16, <4>1, AttributesShape
    <3> HIDE DEF attrs
    <3> QED
      BY <3>1 DEF Described
  <2> HIDE DEF attrs
  <2>7. StateOK(ports, R, n)
    BY <2>3, <2>4, <2>6, PortsForKeeps DEF add_default_ports
  <2>18. Extended(ports.graph, attrs.graph, n) /\ Len(N(ports).ports) = Len(N(attrs).ports) + Len(default_ports(kind))
    <3> DEFINE roles == default_ports(kind)
    <3>1. Len(roles) \in Nat
      BY <2>3
    <3> HIDE DEF roles, x, n
    <3>2. Filled(ports, attrs, n, Len(roles))
      BY <2>4, <2>6, <3>1, FilledNode DEF roles
    <3> HIDE DEF ports
    <3> QED
      BY <3>2 DEF Filled, roles
  <2> HIDE DEF ports
  <2>19. ShapeOK(ports.graph)
    BY <2>4, <2>6, <2>17, <2>18, ExtendedShape DEF StateOK, Nodes
  <2>20. N(ports).kind = kind /\ N(ports).listed = given
    BY <2>16, <2>17, <2>18 DEF Extended, MorePorts
  <2>21. kind \in {"BINARY", "CHAN_SEND"} => Len(N(ports).ports) = 3
    <3>1. SUFFICES ASSUME kind \in {"BINARY", "CHAN_SEND"} PROVE Len(N(ports).ports) = 3
      OBVIOUS
    <3>2. Len(default_ports(kind)) = 3
      BY <3>1, ThreePorts
    <3>3. Len(N(attrs).ports) = 0
      <4>1. N(attrs).ports = <<>>
        BY <2>16, <2>17
      <4> QED
        BY <4>1
    <3> QED
      BY <2>18, <3>2, <3>3
  <2> DEFINE order == add_binary_order(kind, ports.graph.nodes[n].ports)
  <2>22. ordered = [ports EXCEPT !.graph = arc_node_set_cyclic_order(ports.graph, n, order)]
    BY <2>7 DEF StateOK
  <2> HIDE DEF order, ordered
  <2>8. StateOK(ordered, R, n)
    BY <2>4, <2>7, <2>22, OrderKept
  <2>23. /\ N(ordered).kind = N(ports).kind /\ N(ordered).ports = N(ports).ports /\ N(ordered).listed = N(ports).listed
         /\ N(ordered).cyclic_order = order /\ (CyclicOK(N(ordered)) => ShapeOK(ordered.graph))
    <3> HIDE DEF n
    <3>1. Arranged(ordered, ports, n, order)
      BY <2>4, <2>7, <2>19, <2>22, ArrangedNode
    <3> QED
      BY <3>1 DEF Arranged
  <2>24. IsSeq(N(ports).ports)
    BY <2>4, <2>7 DEF StateOK, GraphOK, IsGraph, IsNode, Nodes
  <2>25. CyclicOK(N(ordered))
    BY <2>20, <2>21, <2>23, <2>24, DefaultOrder DEF order
  <2>9. StateOK(listed, R, n)
    BY <2>3, <2>4, <2>8, PortsForKeeps DEF add_ports
  <2>26. Extended(listed.graph, ordered.graph, n)
    <3> DEFINE roles == word[7]
               again == FALSE
    <3>1. listed = PortsFor(ordered, x, n, roles, again) /\ Len(roles) \in Nat
      BY <2>3 DEF add_ports
    <3> HIDE DEF roles, again, x, n, listed
    <3> QED
      BY <2>4, <2>8, <3>1, PortsForExtends
  <2> HIDE DEF listed
  <2>27. ShapeOK(listed.graph)
    BY <2>4, <2>8, <2>23, <2>25, <2>26, ExtendedShape DEF StateOK, Nodes
  <2>28. N(listed).listed = given
    BY <2>20, <2>23, <2>26 DEF Extended, MorePorts
  <2>29. word[8] # <<>> => N(listed).listed
    BY <2>28 DEF given
  <2>30. ShapeOK(done.graph)
    BY <2>4, <2>9, <2>27, <2>29, SpecShape
  <2> HIDE DEF done
  <2> QED
    BY <2>1, <2>30
<1> QED
  BY <1>2, <1>3

\* The command edge: at most a port more.
LEMMA EdgeShape ==
  ASSUME LayoutInv, ShapeOK(graph), parse_cmd_edge
  PROVE  ShapeOK(graph')
<1> DEFINE from == word[2]
           to == word[3]
           n == find_node(Parsing, to[1])
           s == IF to[2] \in {"arg0", "item0"} /\ n # Invalid THEN add_ports(Parsing, to[1], n, <<to[2]>>)
                ELSE Parsing
           a == find_port(Parsing, from[1], from[2])
           b == find_port(s, to[1], to[2])
           h == arc_graph_add_edge(s.graph, a, b)
           R == Len(graph.regions)
           N == Len(graph.nodes)
<1>1. graph' = s.graph \/ graph' = [s EXCEPT !.graph = arc_graph_add_edge(@, a, b)].graph
  BY DEF parse_cmd_edge, Line, Becomes
<1>2. StateOK(Parsing, R, N) /\ Parsing.graph = graph
  BY ParsingOK
<1>3. StateOK(s, R, N) /\ ShapeOK(s.graph)
  <2>1. CASE to[2] \in {"arg0", "item0"} /\ n # Invalid
    <3>1. n \in 1 .. N /\ n \in Nodes(graph)
      BY <2>1, ParsingOK DEF Nodes
    <3> DEFINE x == to[1]
               role == to[2]
               roles == <<role>>
               again == FALSE
    <3>2. s = PortsFor(Parsing, x, n, roles, again)
      BY <2>1 DEF add_ports
    <3>3. Len(roles) \in Nat
      OBVIOUS
    <3> HIDE DEF roles, again, n, s, x
    <3>4. StateOK(s, R, N)
      BY <1>2, <3>1, <3>2, <3>3, PortsForKeeps
    <3>5. Extended(s.graph, Parsing.graph, n)
      BY <1>2, <3>1, <3>2, <3>3, PortsForExtends
    <3>6. ShapeOK(s.graph)
      BY <1>2, <3>1, <3>5, ExtendedShape
    <3> QED
      BY <3>4, <3>6
  <2>2. CASE ~ (to[2] \in {"arg0", "item0"} /\ n # Invalid)
    <3>1. s = Parsing
      BY <2>2
    <3> QED
      BY <1>2, <3>1
  <2> QED
    BY <2>1, <2>2
<1> HIDE DEF s, a, b
<1>4. ShapeOK(h)
  BY <1>3, EdgeAddedShape DEF StateOK, GraphOK
<1>5. [s EXCEPT !.graph = arc_graph_add_edge(@, a, b)].graph = h
  BY <1>3 DEF StateOK
<1> HIDE DEF h
<1> QED
  BY <1>1, <1>3, <1>4, <1>5

\* The command root: a node with one port, and no order.
LEMMA RootShape ==
  ASSUME LayoutInv, ShapeOK(graph), parse_cmd_root
  PROVE  ShapeOK(graph')
<1> DEFINE n == find_node(Parsing, word[2])
           src == find_port(Parsing, word[2], word[3])
           out == Len(graph.nodes) + 1
           k == arc_graph_add_node(graph, "ROOT_OUTPUT", graph.nodes[n].region)
           g == arc_graph_add_port(k, out, "input")
           h == arc_graph_add_edge(g, src, Len(g.ports))
<1>1. graph' = IF n = Invalid THEN graph
               ELSE IF word[3] = NotGiven THEN [graph EXCEPT !.output_node = n]
               ELSE IF src = Invalid THEN graph
               ELSE [h EXCEPT !.output_node = out]
  BY DEF parse_cmd_root
<1>2. GraphOK(graph) /\ IsGraph(graph) /\ Len(graph.nodes) \in Nat
  BY GraphLengths DEF LayoutInv, GraphOK
<1>5. ShapeOK([graph EXCEPT !.output_node = n])
  BY <1>2, OutputShape
<1>6. ASSUME n # Invalid, src # Invalid PROVE ShapeOK([h EXCEPT !.output_node = out])
  <2>1. n \in Nodes(graph) /\ src \in Ports(graph)
    BY <1>6, ParsingOK, PortFound
  <2>2. graph.nodes[n].region \in Regions(graph)
    BY <1>2, <2>1 DEF GraphOK, MembersOK, Nodes, Regions
  <2>3. Becoming(k, Len(graph.regions), out, Len(graph.ports)) /\ ShapeOK(k)
    BY <1>2, <2>2, AddNode, NewShape
  <2> HIDE DEF k
  <2>4. Becoming(g, Len(k.regions), Len(k.nodes), Len(k.ports) + 1) /\ ShapeOK(g)
    <3>1. GraphOK(k) /\ IsGraph(k) /\ out \in Nodes(k)
      BY <1>2, <2>3 DEF Becoming, Nodes, GraphOK
    <3> HIDE DEF out
    <3> QED
      BY <2>3, <3>1, AddPort, PortShape
  <2> HIDE DEF g, n, src
  <2>5. IsGraph(g) /\ GraphOK(g) /\ src \in Ports(g) /\ Len(g.ports) \in Ports(g)
    <3>1. Len(graph.ports) \in Nat
      BY <1>2, GraphLengths
    <3> QED
      BY <2>1, <2>3, <2>4, <3>1 DEF Becoming, Ports, GraphOK
  <2>6. Becoming(h, Len(g.regions), Len(g.nodes), Len(g.ports)) /\ ShapeOK(h)
    BY <2>4, <2>5, AddEdge, EdgeAddedShape
  <2> HIDE DEF h
  <2> QED
    BY <2>6, OutputShape DEF Becoming, GraphOK
<1> HIDE DEF n, src, h, out
<1> QED
  BY <1>1, <1>5, <1>6

\* An empty graph has nothing to validate.
LEMMA InitShape == Init => ShapeOK(graph)
<1> SUFFICES ASSUME Init PROVE ShapeOK(graph)
  OBVIOUS
<1> DEFINE e == <<>>
<1>1. graph = [regions |-> e, nodes |-> e, ports |-> e, edges |-> e, root_region |-> Invalid, output_node |-> Invalid]
  BY DEF Init
<1>2. Len(e) = 0
  OBVIOUS
<1> HIDE DEF e
<1>3. graph.regions = e /\ graph.nodes = e
  BY <1>1
<1> QED
  BY <1>2, <1>3 DEF ShapeOK, ParentsOK

\* Every step leaves what validation looks at as it should be.
LEMMA ShapeStep == LayoutInv /\ ShapeOK(graph) /\ [Next]_vars => ShapeOK(graph')
<1> SUFFICES ASSUME LayoutInv, ShapeOK(graph), [Next]_vars PROVE ShapeOK(graph')
  OBVIOUS
<1>1. CASE UNCHANGED vars
  BY <1>1 DEF vars
<1>2. CASE parse_line
  <2>1. CASE parse_cmd_sealed \/ parse_cmd_capability \/ parse_cmd_channel \/ parse_cmd_circle \/ parse_cmd_position
    <3>1. graph' = graph
      BY <2>1 DEF parse_cmd_sealed, parse_cmd_capability, parse_cmd_channel, parse_cmd_circle, parse_cmd_position,
                  Declare, perr
    <3> QED
      BY <3>1
  <2>2. CASE perr
    BY <2>2 DEF perr
  <2> QED
    BY <1>2, <2>1, <2>2, RegionShape, NodeShape, EdgeShape, RootShape DEF parse_line
<1>3. CASE arc_geo_derive_regions
  <2>1. GraphOK(graph) /\ LayoutOK(geo, Len(graph.regions)) /\ graph' = derive_regions(graph, geo).graph
    BY <1>3 DEF LayoutInv, GeoOK, arc_geo_derive_regions
  <2> QED
    BY <2>1, DeriveShape
<1>4. CASE arc_geo_deformation_stable
  <2>1. PICK after \in Deformations :
          /\ CirclesKnown(graph, after)
          /\ graph' = IF derive_regions(graph, geo).valid
                      THEN derive_regions(derive_regions(graph, geo).graph, after).graph
                      ELSE derive_regions(graph, geo).graph
    BY <1>4 DEF arc_geo_deformation_stable
  <2>2. GraphOK(graph) /\ LayoutOK(geo, Len(graph.regions)) /\ LayoutOK(after, Len(graph.regions))
    BY <2>1, DeformationOK DEF LayoutInv, GeoOK
  <2> DEFINE b == derive_regions(graph, geo)
             a == derive_regions(b.graph, after)
  <2>3. Becoming(b.graph, Len(graph.regions), Len(graph.nodes), Len(graph.ports)) /\ ShapeOK(b.graph)
    BY <2>2, DerivedGraph, DeriveShape
  <2>4. graph' = a.graph \/ graph' = b.graph
    BY <2>1
  <2> HIDE DEF b
  <2>5. ShapeOK(a.graph)
    BY <2>2, <2>3, DeriveShape DEF Becoming
  <2> HIDE DEF a
  <2> QED
    BY <2>3, <2>4, <2>5
<1> QED
  BY <1>1, <1>2, <1>3, <1>4 DEF Next

\* For all texts: what the default ports and orders of the parser build
\* (fixture_parser.c:114) validation accepts (arc_graph_validate, semantic_graph.c:196),
\* before and after derivations, if edges lead from an output to an input and no line
\* lists ports or their order itself.
THEOREM ParsedSafe == Spec => []ParsedValidates
<1> DEFINE Inv == LayoutInv /\ ShapeOK(graph)
<1>1. Init => Inv
  BY InitInv, InitShape
<1>2. Inv /\ [Next]_vars => Inv'
  BY LayoutStep, ShapeStep
<1>3. Inv => ParsedValidates
  BY ShapeValid
<1> HIDE DEF Inv
<1> QED
  BY <1>1, <1>2, <1>3, PTL DEF Spec
=============================================================================
