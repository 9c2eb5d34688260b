----------------------------- MODULE CchProofs -----------------------------
(***************************************************************************)
(* Of the pack of a router, for every graph, order and number of nodes:    *)
(* the types, that eliminated ranks leave cliques over which customized    *)
(* costs obey the triangles, and that no valid graph is refused.  Of the   *)
(* router of a pack that was built: its answers are the shortest.  And of  *)
(* that of any pack that is admitted: its routes are real.                 *)
(*                                                                         *)
(* The inductive invariant holds the triangles of the ranks below bottom.  *)
(* A step of either loop only touches arcs whose lower end is above the    *)
(* rank it is at, and so none of the two lower sides of those triangles.   *)
(*                                                                         *)
(* A cost can overflow, or exceed what a pack admits, only if it is not    *)
(* that of a way through any node once.  So customized costs are held      *)
(* against tables of Floyd and Warshall: an arc whose lower rank has had   *)
(* its turn costs what the table of that rank says, and the tables hold    *)
(* the costs of simple ways.  A witness is of the same turn as its cost.   *)
(*                                                                         *)
(* The last table has the distances, and an upward search finds of each    *)
(* rank above its start what the table of that rank's turn says: so where  *)
(* two searches meet at the least, they have the distance.                 *)
(*                                                                         *)
(* An altered pack has witnesses whose two sides cost what their arc does: *)
(* by induction on its lower end an arc unpacks to a way of that cost, and *)
(* so does the path to a rank, as what a search has settled stays.         *)
(***************************************************************************)
EXTENDS CchRouter, FiniteSetTheorems, SequenceTheorems, WellFoundedInduction, TLAPS

Upward == { e \in Ranks \X Ranks : e[1] < e[2] }

(* Every pack in these stages has its arcs, and costs for them.            *)
Filled == {"customize", "packed", "loaded"}

Cliques(b) == \A l, h \in Higher(b) : l < h => << l, h >> \in up

Holds(b) ==
    \A l, h \in Higher(b) : l < h =>
        \A way \in Ways : cost[way][<< l, h >>] <= Via(b, << l, h >>, way)

IInv ==
    /\ PackTypeOK
    /\ arcs \subseteq Arc
    /\ stage = "input" => bottom = 0
    /\ stage = "fill" => \A b \in 0..(bottom - 1) : Cliques(b)
    /\ stage \in Filled => \A b \in Ranks : Cliques(b)
    /\ stage \in Filled /\ ~altered => \A b \in Ranks : b < bottom => Holds(b)

LEMMA NodesAreRanks ==
  /\ NodeCount \in Nat \ {0} /\ Infinite \in Nat \ {0} /\ MaxArcWeight \in Nat \ {0}
  /\ MaxArcWeight + 1 < Infinite
  /\ Ranks = 0..(NodeCount - 1) /\ Nodes = 0..(NodeCount - 1)
  BY CchAssumption DEF CchAssumption, Ranks, Nodes

(* A set of numbers that is not empty has a least one.                     *)
LEMMA LeastNumber ==
  ASSUME NEW W \in SUBSET Nat, W # {}
  PROVE  \E w \in W : \A v \in W : w <= v
<1> DEFINE R == { p \in Nat \X Nat : p[1] < p[2] }
<1>1. IsWellFoundedOn(R, Nat)
  BY NatLessThanWellFounded, Zenon DEF OpToRel
<1>2. PICK w \in W : \A v \in W : ~ (<< v, w >> \in R)
  <2> HIDE DEF R
  <2> QED BY <1>1, WFMin
<1>3. ASSUME NEW v \in W PROVE w <= v
  <2>1. v \in Nat /\ w \in Nat
    OBVIOUS
  <2>2. << v, w >> \notin R
    BY <1>2
  <2> QED BY <2>1, <2>2
<1> QED BY <1>3

(* What holds of a number if it does of all that are less.                 *)
LEMMA Induction ==
  ASSUME NEW A \in SUBSET Nat, NEW n \in Nat,
         \A k \in 0..n : (0..(k - 1)) \subseteq A => k \in A
  PROVE  0..n \subseteq A
<1> SUFFICES ASSUME ~(0..n \subseteq A) PROVE FALSE
  OBVIOUS
<1> DEFINE W == (0..n) \ A
<1>1. W \in SUBSET Nat /\ W # {}
  OBVIOUS
<1>2. PICK w \in W : \A v \in W : w <= v
  <2> HIDE DEF W
  <2> QED BY <1>1, LeastNumber
<1>3. w \in 0..n /\ w \notin A
  OBVIOUS
<1>4. \A v \in 0..(w - 1) : v \in 0..n /\ ~(w <= v)
  BY <1>3
<1>5. 0..(w - 1) \subseteq A
  BY <1>2, <1>4
<1> QED BY <1>3, <1>5

(* A function is defined by its values of lower levels.                    *)
Iterated(h, F, f, g, n) ==
    /\ \A k \in 0..n : h[k] \in F
    /\ h[0] = f /\ \A k \in 0..(n - 1) : h[k + 1] = g[h[k]]

LEMMA Iterates ==
  ASSUME NEW F, NEW f \in F, NEW g \in [F -> F], NEW n \in Nat
  PROVE  \E h : Iterated(h, F, f, g, n)
<1> DEFINE P(k, h) == h[0] = f /\ \A j \in 0..(k - 1) : h[j + 1] = g[h[j]]
           A == { k \in Nat : \E h \in [0..k -> F] : P(k, h) }
<1>1. ASSUME NEW k \in 0..n, 0..(k - 1) \subseteq A PROVE k \in A
  <2>1. CASE k = 0
    <3> DEFINE h == [j \in 0..0 |-> f]
    <3>1. h \in [0..0 -> F] /\ P(0, h)
      OBVIOUS
    <3> QED BY <2>1, <3>1
  <2>2. CASE k # 0
    <3>1. k - 1 \in 0..(k - 1) /\ k - 1 \in Nat
      BY <2>2
    <3>2. PICK h \in [0..(k - 1) -> F] : P(k - 1, h)
      BY <1>1, <3>1
    <3> DEFINE i == [j \in 0..k |-> IF j = k THEN g[h[k - 1]] ELSE h[j]]
    <3>3. i \in [0..k -> F]
      <4>1. \A j \in 0..k : j # k => j \in 0..(k - 1)
        OBVIOUS
      <4> QED BY <3>1, <3>2, <4>1
    <3>4. i[0] = f
      BY <2>2, <3>2
    <3>5. ASSUME NEW j \in 0..(k - 1) PROVE i[j + 1] = g[i[j]]
      <4>1. j \in 0..k /\ j + 1 \in 0..k /\ j # k
        OBVIOUS
      <4>2. CASE j = k - 1
        BY <4>1, <4>2
      <4>3. CASE j # k - 1
        <5>1. j \in 0..((k - 1) - 1) /\ j + 1 # k
          BY <4>3
        <5> QED BY <3>2, <4>1, <5>1
      <4> QED BY <4>2, <4>3
    <3> HIDE DEF i
    <3> QED BY <3>3, <3>4, <3>5
  <2> QED BY <2>1, <2>2
<1>2. n \in A
  <2>1. A \in SUBSET Nat
    OBVIOUS
  <2> HIDE DEF A
  <2>2. 0..n \subseteq A
    BY <1>1, <2>1, Induction
  <2> QED BY <2>2
<1> QED BY <1>2 DEF Iterated

LocalTo(step, level, I, V) ==
    \A i \in I : \A f, g \in [I -> V] :
       (\A j \in I : level[j] < level[i] => f[j] = g[j]) => step[f][i] = step[g][i]

Descends(step, level, n, I, V) ==
    /\ n \in Nat /\ level \in [I -> 0..n]
    /\ step \in [[I -> V] -> [I -> V]] /\ LocalTo(step, level, I, V)

FixedBy(step, I, V) == { f \in [I -> V] : f = step[f] }

LEMMA Recursion ==
  ASSUME NEW I, NEW V, V # {}, NEW n, NEW level, NEW step, Descends(step, level, n, I, V)
  PROVE  FixedBy(step, I, V) # {}
<1> USE DEF Descends
<1> PICK v : v \in V
  OBVIOUS
<1>1. PICK h : \A k \in 0..(n + 1) : h[k] \in [I -> V] /\ h[k + 1] \in [I -> V]
                                     /\ h[k + 1] = step[h[k]]
  <2>1. PICK F : F = [I -> V]
    OBVIOUS
  <2>2. PICK c \in F : c = [i \in I |-> v]
    BY <2>1
  <2>3. step \in [F -> F]
    BY <2>1
  <2>4. PICK m \in Nat : m = n + 2
    OBVIOUS
  <2>5. PICK h : Iterated(h, F, c, step, m)
    BY <2>3, Iterates
  <2>6. \A k \in 0..(n + 1) : k \in 0..(m - 1) /\ k \in 0..m /\ k + 1 \in 0..m
    BY <2>4
  <2>7. \A k \in 0..(n + 1) : h[k] \in F /\ h[k + 1] \in F /\ h[k + 1] = step[h[k]]
    BY <2>5, <2>6 DEF Iterated
  <2> QED BY <2>1, <2>7
<1> DEFINE A == { k \in Nat : \A i \in I : level[i] < k => h[k + 1][i] = h[k][i] }
<1>3. ASSUME NEW k \in 0..(n + 1), 0..(k - 1) \subseteq A PROVE k \in A
  <2> SUFFICES ASSUME NEW i \in I, level[i] < k PROVE h[k + 1][i] = h[k][i]
    OBVIOUS
  <2>1. level[i] \in Nat /\ k - 1 \in 0..(n + 1) /\ k - 1 \in A /\ (k - 1) + 1 = k
    BY <1>3
  <2>2. \A j \in I : level[j] < level[i] => h[k][j] = h[k - 1][j]
    <3>1. \A j \in I : level[j] \in Nat /\ (level[j] < level[i] => level[j] < k - 1)
      BY <2>1
    <3> QED BY <2>1, <3>1
  <2>3. h[k + 1] = step[h[k]] /\ h[k] = step[h[k - 1]] /\ h[k] \in [I -> V] /\ h[k - 1] \in [I -> V]
    BY <1>1, <2>1
  <2>4. step[h[k]][i] = step[h[k - 1]][i]
    BY <2>2, <2>3, Zenon DEF LocalTo
  <2> QED BY <2>3, <2>4
<1>4. n + 1 \in A
  <2>1. A \in SUBSET Nat /\ n + 1 \in Nat
    OBVIOUS
  <2> HIDE DEF A
  <2>2. 0..(n + 1) \subseteq A
    BY <1>3, <2>1, Induction
  <2> QED BY <2>1, <2>2
<1> DEFINE f == h[n + 1]
<1>5. f \in [I -> V] /\ step[f] \in [I -> V] /\ h[(n + 1) + 1] = step[f]
  BY <1>1
<1>6. \A i \in I : step[f][i] = f[i]
  <2>1. \A i \in I : level[i] < n + 1
    OBVIOUS
  <2>2. \A i \in I : level[i] < n + 1 => h[(n + 1) + 1][i] = h[n + 1][i]
    BY <1>4
  <2> QED BY <1>5, <2>1, <2>2
<1>7. f = step[f]
  <2> HIDE DEF f
  <2> QED BY <1>5, <1>6
<1> QED BY <1>5, <1>7 DEF FixedBy

-----------------------------------------------------------------------------
(* A set of arcs that is not empty has a cheapest one.                     *)
LEMMA CheapestExists ==
  ASSUME NEW S \in SUBSET Arc, S # {}
  PROVE  \E a \in S : \A b \in S : a.weight <= b.weight
<1> DEFINE W == { a.weight : a \in S }
<1>1. W \in SUBSET Nat /\ W # {}
  BY NodesAreRanks DEF Arc
<1>2. PICK w \in W : \A v \in W : w <= v
  <2> HIDE DEF W
  <2> QED BY <1>1, LeastNumber
<1> QED
  BY <1>2

LEMMA CheapestIsOne ==
  ASSUME NEW S \in SUBSET Arc, S # {}
  PROVE  Cheapest(S) \in S
BY CheapestExists DEF Cheapest

LEMMA SumIsCost ==
  ASSUME NEW l \in Costs, NEW r \in Costs
  PROVE  Add(l, r) \in Nat /\ Infinite \in Costs
  BY NodesAreRanks DEF Costs, Add

LEMMA HigherIsHigher ==
  ASSUME up \subseteq Upward, NEW b \in Ranks, NEW h \in Higher(b)
  PROVE  h \in Ranks /\ << b, h >> \in up /\ b < h
  BY DEF Higher, Upward

-----------------------------------------------------------------------------
LEMMA InitHolds == Init => IInv
<1> SUFFICES ASSUME Init PROVE IInv
  OBVIOUS
<1>1. arcs \subseteq Arc
  BY CchAssumption, Zenon DEF Init, CchAssumption
<1>2. stage = "input" /\ up = {} /\ bottom = 0 /\ altered = FALSE
  BY DEF Init
<1>3. altered \in BOOLEAN
  BY <1>2, Zenon
<1>4. stage \in Stages /\ bottom \in 0..NodeCount /\ up \subseteq { e \in Ranks \X Ranks : e[1] < e[2] }
  BY <1>2, NodesAreRanks DEF Stages
<1> QED
  BY <1>1, <1>2, <1>3, <1>4, Zenon DEF IInv, PackTypeOK, Filled

LEMMA BuildKeeps == IInv /\ Build => IInv'
<1> SUFFICES ASSUME IInv, Build PROVE IInv'
  OBVIOUS
<1>1. up' \subseteq Upward
  BY DEF Build, Upward, IInv, PackTypeOK
<1>2. /\ stage' \in {"fill", "refused"} /\ stage' \notin Filled /\ stage' # "input"
      /\ bottom' = bottom /\ bottom = 0 /\ arcs' = arcs /\ altered' = altered
  BY DEF Build, Filled, IInv
<1> QED
  BY <1>1, <1>2, NodesAreRanks DEF IInv, PackTypeOK, Stages, Upward, Filled

(* Filling a rank adds no neighbour to the ranks up to it.                 *)
LEMMA EliminateKeeps == IInv /\ Eliminate => IInv'
<1> SUFFICES ASSUME IInv, Eliminate PROVE IInv'
  OBVIOUS
<1>1. /\ stage = "fill" /\ stage' = stage /\ arcs' = arcs /\ altered' = altered
      /\ up \subseteq Upward /\ bottom \in 0..(NodeCount - 1) /\ bottom' = bottom + 1
      /\ up' = up \cup Clique(bottom)
      /\ \A b \in 0..(bottom - 1) : Cliques(b)
  BY NodesAreRanks DEF Eliminate, IInv, PackTypeOK, Upward
<1>2. \A e \in Clique(bottom) : e \in Upward /\ bottom < e[1]
  BY <1>1, NodesAreRanks DEF Clique, Higher, Upward
<1>3. up' \subseteq Upward
  BY <1>1, <1>2
<1>4. ASSUME NEW b \in 0..bottom PROVE Higher(b)' = Higher(b)
  <2>1. \A h : << b, h >> \notin Clique(bottom)
    BY <1>1, <1>2, NodesAreRanks
  <2> QED
    BY <1>1, <2>1 DEF Higher
<1>5. ASSUME NEW b \in 0..bottom PROVE Cliques(b)'
  <2>1. CASE b = bottom
    BY <1>1, <1>4, <2>1 DEF Cliques, Clique
  <2>2. CASE b # bottom
    <3>1. b \in 0..(bottom - 1)
      BY <1>1, <2>2, NodesAreRanks
    <3> QED
      BY <1>1, <1>4, <3>1 DEF Cliques
  <2> QED
    BY <2>1, <2>2
<1> QED
  <2>1. 0..(bottom' - 1) = 0..bottom /\ bottom' \in 0..NodeCount
    BY <1>1, NodesAreRanks
  <2> QED
    BY <1>1, <1>3, <1>5, <2>1 DEF IInv, PackTypeOK, Upward, Stages, Filled

LEMMA TakeOriginalsKeeps == IInv /\ TakeOriginals => IInv'
<1> SUFFICES ASSUME IInv, TakeOriginals PROVE IInv'
  OBVIOUS
<1>1. /\ stage = "fill" /\ stage' = "customize" /\ arcs' = arcs /\ altered' = altered
      /\ up' = up /\ up \subseteq Upward /\ bottom = NodeCount /\ bottom' = 0
      /\ arcs \subseteq Arc
  BY DEF TakeOriginals, IInv, PackTypeOK, Upward
<1>2. \A b \in Ranks : Cliques(b)
  BY <1>1, NodesAreRanks DEF IInv
<1>3. \A b \in Ranks : Cliques(b)'
  BY <1>1, <1>2 DEF Cliques, Higher
<1>4. ASSUME NEW way \in Ways, NEW arc \in up, Originals(arc, way) # {}
      PROVE  /\ Cheapest(Originals(arc, way)) \in arcs
             /\ Cheapest(Originals(arc, way)).weight \in Costs
  <2>1. Originals(arc, way) \subseteq arcs
    BY DEF Originals
  <2>2. Cheapest(Originals(arc, way)) \in Originals(arc, way)
    BY <1>1, <1>4, <2>1, CheapestIsOne
  <2> QED
    BY <1>1, <2>1, <2>2, NodesAreRanks DEF Arc, Costs
<1>5. cost' \in [Ways -> [up -> Costs]]
  BY <1>4, NodesAreRanks DEF TakeOriginals, Costs
<1>6. witness' \in [Ways -> [up -> {NoWitness} \cup arcs \cup Triangles]]
  BY <1>4 DEF TakeOriginals
<1> QED
  BY <1>1, <1>3, <1>5, <1>6, NodesAreRanks
  DEF IInv, PackTypeOK, Upward, Stages, Filled, Triangles
-----------------------------------------------------------------------------
(* The two sides below an arc have costs, and so has the way over them.    *)
LEMMA ViaIsCost ==
  ASSUME cost \in [Ways -> [up -> Costs]],
         NEW b, NEW arc, NEW way \in Ways, Below(b, arc)
  PROVE  /\ << b, Ends(arc, way)[1] >> \in up /\ << b, Ends(arc, way)[2] >> \in up
         /\ Via(b, arc, way) \in Nat
<1>1. << b, Ends(arc, way)[1] >> \in up /\ << b, Ends(arc, way)[2] >> \in up
  BY DEF Below, Ends
<1>2. Legs(b, arc, way)[1] \in Costs /\ Legs(b, arc, way)[2] \in Costs
  BY <1>1 DEF Legs, Ways
<1> QED
  BY <1>1, <1>2, SumIsCost DEF Via

LEMMA CustomizeKeeps == IInv /\ Customize => IInv'
<1> SUFFICES ASSUME IInv, Customize PROVE IInv'
  OBVIOUS
<1>1. /\ stage = "customize" /\ arcs' = arcs /\ altered' = altered /\ up' = up
      /\ bottom \in 0..(NodeCount - 1) /\ bottom \in Ranks
      /\ arcs \subseteq Arc /\ up \subseteq Upward
      /\ \A b \in Ranks : Cliques(b)
  BY NodesAreRanks DEF Customize, IInv, PackTypeOK, Upward, Filled
<1>2. /\ cost \in [Ways -> [up -> Costs]]
      /\ witness \in [Ways -> [up -> {NoWitness} \cup arcs \cup Triangles]]
      /\ ~altered => \A b \in Ranks : b < bottom => Holds(b)
      /\ altered \in BOOLEAN
  BY <1>1 DEF IInv, PackTypeOK, Filled
<1>3. CASE stage' = "refused"
  <2>1. bottom' = bottom
    BY <1>1, <1>3 DEF Customize
  <2> QED
    BY <1>1, <1>2, <1>3, <2>1, NodesAreRanks DEF IInv, PackTypeOK, Stages, Filled, Upward
<1>4. CASE stage' # "refused"
  <2>1. /\ stage' = stage /\ bottom' = bottom + 1
        /\ cost' = [way \in Ways |-> [arc \in up |->
              IF Improves(bottom, arc, way) THEN Via(bottom, arc, way) ELSE cost[way][arc]]]
        /\ witness' = [way \in Ways |-> [arc \in up |->
              IF Improves(bottom, arc, way) THEN Triangle(bottom, arc) ELSE witness[way][arc]]]
    BY <1>4 DEF Customize
  <2>2. ASSUME NEW way \in Ways, NEW arc \in up, Improves(bottom, arc, way)
        PROVE  /\ Via(bottom, arc, way) \in Costs
               /\ Via(bottom, arc, way) < cost[way][arc]
               /\ Triangle(bottom, arc) \in Triangles
    <3>1. Below(bottom, arc) /\ Via(bottom, arc, way) < cost[way][arc] /\ cost[way][arc] \in Costs
      BY <1>2, <2>2 DEF Improves
    <3>2. Via(bottom, arc, way) \in Nat
      BY <1>2, <3>1, ViaIsCost
    <3> QED
      BY <3>1, <3>2, NodesAreRanks DEF Costs, Below, Triangle, Triangles
  <2>3. cost' \in [Ways -> [up -> Costs]]
    BY <1>2, <2>1, <2>2
  <2>4. witness' \in [Ways -> [up -> {NoWitness} \cup arcs \cup Triangles]]
    BY <1>2, <2>1, <2>2
  <2>5. ASSUME NEW way \in Ways, NEW arc \in up
        PROVE  /\ cost[way][arc] \in Nat /\ cost'[way][arc] \in Nat
               /\ cost'[way][arc] <= cost[way][arc]
               /\ ~Below(bottom, arc) => cost'[way][arc] = cost[way][arc]
               /\ Below(bottom, arc) => cost'[way][arc] <= Via(bottom, arc, way)
    <3>1. /\ cost[way][arc] \in Nat /\ cost'[way][arc] \in Nat
      BY <1>2, <2>3, NodesAreRanks DEF Costs
    <3>2. cost'[way][arc] =
            IF Improves(bottom, arc, way) THEN Via(bottom, arc, way) ELSE cost[way][arc]
      BY <2>1
    <3>3. Below(bottom, arc) => Via(bottom, arc, way) \in Nat
      BY <1>2, ViaIsCost
    <3> QED
      BY <2>2, <3>1, <3>2, <3>3 DEF Improves
  <2>6. ASSUME NEW b \in 0..bottom, NEW way \in Ways, NEW h, << b, h >> \in up
        PROVE  cost'[way][<< b, h >>] = cost[way][<< b, h >>]
    <3>1. ~Below(bottom, << b, h >>)
      BY <1>1, NodesAreRanks DEF Below, Upward
    <3> QED
      BY <2>5, <2>6, <3>1
  <2>7. ASSUME NEW b \in 0..bottom, NEW arc, NEW way \in Ways, Below(b, arc)
        PROVE  Via(b, arc, way)' = Via(b, arc, way)
    <3>1. << b, Ends(arc, way)[1] >> \in up /\ << b, Ends(arc, way)[2] >> \in up
      BY <1>2, <2>7, ViaIsCost
    <3>2. Legs(b, arc, way)' = Legs(b, arc, way)
      BY <2>6, <3>1 DEF Legs, Ends, Ways
    <3> QED
      BY <3>2 DEF Via, Add
  <2>8. ASSUME ~altered, NEW b \in Ranks, b < bottom + 1 PROVE Holds(b)'
    <3> SUFFICES ASSUME NEW l \in Higher(b), NEW h \in Higher(b), l < h, NEW way \in Ways
                 PROVE  cost'[way][<< l, h >>] <= Via(b, << l, h >>, way)'
      BY <1>1 DEF Holds, Higher
    <3>1. b \in 0..bottom
      BY <1>1, <2>8, NodesAreRanks
    <3>2. << l, h >> \in up /\ Below(b, << l, h >>)
      BY <1>1 DEF Cliques, Below, Higher
    <3>3. Via(b, << l, h >>, way)' = Via(b, << l, h >>, way) /\ Via(b, << l, h >>, way) \in Nat
      BY <1>2, <2>7, <3>1, <3>2, ViaIsCost
    <3>4. CASE b = bottom
      BY <2>5, <3>2, <3>3, <3>4
    <3>5. CASE b < bottom
      <4>1. cost[way][<< l, h >>] <= Via(b, << l, h >>, way)
        BY <1>2, <2>8, <3>5 DEF Holds
      <4> QED
        BY <2>5, <3>2, <3>3, <4>1
    <3> QED
      BY <1>1, <2>8, <3>4, <3>5, NodesAreRanks
  <2>9. \A b \in Ranks : Cliques(b)'
    BY <1>1 DEF Cliques, Higher
  <2>10. bottom' \in 0..NodeCount /\ stage' \in Stages /\ stage' = "customize"
    BY <1>1, <2>1, NodesAreRanks DEF Stages
  <2>11. PackTypeOK'
    BY <1>1, <1>2, <2>3, <2>4, <2>10 DEF PackTypeOK, Upward, Triangles
  <2> QED
    BY <1>1, <2>1, <2>8, <2>9, <2>10, <2>11 DEF IInv
<1> QED
  BY <1>3, <1>4

-----------------------------------------------------------------------------
(* Writing, and loading, only decide how the pack goes on.                 *)
LEMMA StageKeeps ==
  ASSUME IInv, stage \in {"customize", "packed"}, stage' \in {"packed", "loaded", "refused"},
         UNCHANGED << arcs, rank, up, bottom, cost, witness, altered >>
  PROVE  IInv'
<1>1. /\ stage' \in Stages /\ stage' \notin {"input", "fill"}
      /\ stage \in Filled
  BY DEF Stages, Filled
<1>2. PackTypeOK'
  BY <1>1 DEF IInv, PackTypeOK, Filled, Triangles
<1>3. \A b \in Ranks : (Cliques(b)' <=> Cliques(b)) /\ (Holds(b)' <=> Holds(b))
  BY DEF Cliques, Holds, Higher, Via, Legs
<1> QED
  BY <1>1, <1>2, <1>3 DEF IInv

LEMMA AlterKeeps == IInv /\ Alter => IInv'
<1> SUFFICES ASSUME IInv, Alter PROVE IInv'
  OBVIOUS
<1>1. /\ stage = "packed" /\ stage' = stage /\ altered' = TRUE
      /\ arcs' = arcs /\ up' = up /\ bottom' = bottom
      /\ cost \in [Ways -> [up -> Costs]]
      /\ witness \in [Ways -> [up -> {NoWitness} \cup arcs \cup Triangles]]
      /\ \A b \in Ranks : Cliques(b)
  BY DEF Alter, IInv, PackTypeOK, Filled
<1>2. PICK way \in Ways, arc \in up, c \in (0..(MaxRouteWeight + 1)) \cup {Infinite},
          w \in {NoWitness} \cup arcs \cup Triangles :
         /\ cost' = [cost EXCEPT ![way][arc] = c]
         /\ witness' = [witness EXCEPT ![way][arc] = w]
  BY DEF Alter
<1>3. (0..(MaxRouteWeight + 1)) \cup {Infinite} \subseteq Costs
  <2>1. MaxRouteWeight \in Nat /\ Infinite \in Nat /\ MaxRouteWeight < Infinite
    BY CchAssumption DEF CchAssumption, MaxRouteWeight
  <2> QED
    BY <2>1 DEF Costs
<1>4. cost' \in [Ways -> [up -> Costs]]
  BY <1>1, <1>2, <1>3
<1>5. witness' \in [Ways -> [up -> {NoWitness} \cup arcs \cup Triangles]]
  <2> DEFINE W == {NoWitness} \cup arcs \cup Triangles
  <2>1. witness \in [Ways -> [up -> W]] /\ w \in W
    BY <1>1, <1>2
  <2>2. HIDE DEF W
  <2>3. witness' \in [Ways -> [up -> W]]
    BY <2>1, <1>2
  <2> QED
    BY <2>3 DEF W
<1>6. \A b \in Ranks : Cliques(b)'
  BY <1>1 DEF Cliques, Higher
<1>7. PackTypeOK'
  BY <1>1, <1>4, <1>5, Zenon DEF IInv, PackTypeOK, Triangles
<1> QED
  BY <1>1, <1>6, <1>7 DEF IInv

LEMMA StepKeeps == IInv /\ [PackNext]_pack_vars => IInv'
<1> SUFFICES ASSUME IInv, [PackNext]_pack_vars PROVE IInv'
  OBVIOUS
<1>1. CASE Build
  BY <1>1, BuildKeeps
<1>2. CASE Eliminate
  BY <1>2, EliminateKeeps
<1>3. CASE TakeOriginals
  BY <1>3, TakeOriginalsKeeps
<1>4. CASE Customize
  BY <1>4, CustomizeKeeps
<1>5. CASE WritePack
  BY <1>5, StageKeeps DEF WritePack
<1>6. CASE Alter
  BY <1>6, AlterKeeps
<1>7. CASE LoadPack
  BY <1>7, StageKeeps DEF LoadPack
<1>8. CASE UNCHANGED pack_vars
  BY <1>8 DEF pack_vars, IInv, PackTypeOK, Cliques, Holds, Higher, Via, Legs, Triangles
<1> QED
  BY <1>1, <1>2, <1>3, <1>4, <1>5, <1>6, <1>7, <1>8 DEF PackNext

(* A router leaves its pack alone: it is a pack that is built and loaded.  *)
THEOREM RouterKeepsPack == RouterSpec => PackSpec
<1>1. RouterInit => Init
  BY DEF RouterInit
<1>2. [RouterNext]_vars => [PackNext]_pack_vars
  BY DEF RouterNext, vars, Ask, BeginLeg, Settle, FinishLeg, Answer
<1> QED
  BY <1>1, <1>2, PTL DEF RouterSpec, PackSpec

LEMMA PackInvariance == PackSpec => []IInv
  BY InitHolds, StepKeeps, PTL DEF PackSpec

(* The variables of the pack keep their types, costs within their width.   *)
THEOREM PackTypeCorrect == RouterSpec => []PackTypeOK
<1>1. IInv => PackTypeOK
  BY DEF IInv
<1> QED
  BY <1>1, RouterKeepsPack, PackInvariance, PTL

(* For every graph and order: eliminated ranks leave cliques, so that no   *)
(* lower triangle lacks its third side, and customized costs obey them.    *)
THEOREM TrianglesHold == RouterSpec => []LowerTrianglesHold
<1>1. IInv => LowerTrianglesHold
  BY DEF IInv, LowerTrianglesHold, Cliques, Holds, Filled
<1> QED
  BY <1>1, RouterKeepsPack, PackInvariance, PTL

(* The ways from rank to rank that run through the ranks below b only, as  *)
(* Floyd and Warshall compute them: what they cost at least.               *)
Table == [Ranks -> [Ranks -> Costs]]

Lesser(l, r) == IF r < l THEN r ELSE l

Through(d, b) ==
    [x \in Ranks |-> [y \in Ranks |-> Lesser(d[x][y], Add(d[x][b], d[b][y]))]]

Closed(d, b) ==
    /\ \A x \in Ranks : d[x][x] = 0
    /\ \A x, y \in Ranks, v \in 0..(b - 1) : d[x][y] <= Add(d[x][v], d[v][y])

(* What the arcs of the graph allow, from a number of arcs to the next.    *)
Potentials ==
    { L \in [0..(NodeCount - 1) -> [Ranks -> Nat]] :
        \A k \in 0..(NodeCount - 2), a \in arcs :
           L[k][rank[a.from]] + a.weight < Infinite =>
              L[k + 1][rank[a.to]] <= L[k][rank[a.from]] + a.weight }

(* No potential can tell the cost from that of a way of so many arcs.      *)
Spanned(c, x, y, m) ==
    \A L \in Potentials, k \in Nat :
       k + m <= NodeCount - 1 /\ L[k][x] + c < Infinite => L[k + m][y] <= L[k][x] + c

(* Ranks that a least way runs through, each of them once.                 *)
Between(d, x, y, S) ==
    /\ S \subseteq Ranks \ {x, y}
    /\ \A s \in S : Add(d[x][s], d[s][y]) <= d[x][y]
    /\ d[x][y] <= (Cardinality(S) + 1) * MaxArcWeight
    /\ Spanned(d[x][y], x, y, Cardinality(S) + 1)

Simple(d, b) ==
    \A x, y \in Ranks : x # y /\ d[x][y] # Infinite =>
        \E S \in SUBSET (0..(b - 1)) : Between(d, x, y, S)

-----------------------------------------------------------------------------
LEMMA CostsAdd ==
  ASSUME NEW l \in Costs, NEW r \in Costs
  PROVE  /\ Add(l, r) \in Nat /\ l <= Add(l, r) /\ r <= Add(l, r)
         /\ Add(l, r) < Infinite => l # Infinite /\ r # Infinite /\ Add(l, r) = l + r
         /\ Lesser(l, Add(l, r)) = l /\ Lesser(r, Add(l, r)) = r
BY NodesAreRanks DEF Costs, Add, Lesser

LEMMA LesserIsCost ==
  ASSUME NEW l \in Costs, NEW r \in Nat
  PROVE  Lesser(l, r) \in Costs /\ Lesser(l, r) <= l /\ Lesser(l, r) <= r
BY NodesAreRanks DEF Costs, Lesser

LEMMA ThroughIsTable ==
  ASSUME NEW d \in Table, NEW b \in Ranks
  PROVE  /\ Through(d, b) \in Table
         /\ \A x, y \in Ranks :
              /\ Through(d, b)[x][y] = Lesser(d[x][y], Add(d[x][b], d[b][y]))
              /\ Through(d, b)[x][y] <= d[x][y]
<1>1. ASSUME NEW x \in Ranks, NEW y \in Ranks
      PROVE  /\ Lesser(d[x][y], Add(d[x][b], d[b][y])) \in Costs
             /\ Lesser(d[x][y], Add(d[x][b], d[b][y])) <= d[x][y]
  <2>1. d[x][y] \in Costs /\ d[x][b] \in Costs /\ d[b][y] \in Costs
    BY DEF Table
  <2> QED BY <2>1, CostsAdd, LesserIsCost
<1> QED BY <1>1 DEF Through, Table

LEMMA ThroughArithmetic ==
  ASSUME NEW xy \in Costs, NEW xv \in Costs, NEW vy \in Costs, NEW xb \in Costs,
         NEW by \in Costs, NEW bv \in Costs, NEW vb \in Costs,
         xy <= Add(xv, vy), xb <= Add(xv, vb), by <= Add(bv, vy)
  PROVE  Lesser(xy, Add(xb, by)) <= Add(Lesser(xv, Add(xb, bv)), Lesser(vy, Add(vb, by)))
BY NodesAreRanks DEF Costs, Add, Lesser

LEMMA ThroughCloses ==
  ASSUME NEW d \in Table, NEW b \in Ranks, Closed(d, b)
  PROVE  Closed(Through(d, b), b + 1)
<1> DEFINE e == Through(d, b)
<1>0. b \in Nat /\ b < NodeCount /\ 0..(b - 1) \subseteq Ranks
  BY NodesAreRanks
<1>1. \A x, y \in Ranks : /\ d[x][y] \in Costs
                          /\ e[x][y] = Lesser(d[x][y], Add(d[x][b], d[b][y]))
  BY ThroughIsTable DEF Table
<1> HIDE DEF e
<1>2. \A x \in Ranks : d[x][x] = 0
  BY DEF Closed
<1>3. ASSUME NEW x \in Ranks PROVE e[x][x] = 0
  <2>1. d[x][b] \in Costs /\ d[b][x] \in Costs /\ d[x][x] = 0
        /\ e[x][x] = Lesser(d[x][x], Add(d[x][b], d[b][x]))
    BY <1>1, <1>2
  <2>2. Add(d[x][b], d[b][x]) \in Nat
    BY <2>1, CostsAdd
  <2> QED
    BY <2>1, <2>2 DEF Lesser
<1>4. ASSUME NEW x \in Ranks, NEW y \in Ranks, NEW v \in 0..(b - 1)
      PROVE  e[x][y] <= Add(e[x][v], e[v][y])
  <2>1. v \in Ranks
    BY <1>0
  <2>2. /\ d[x][y] <= Add(d[x][v], d[v][y]) /\ d[x][b] <= Add(d[x][v], d[v][b])
        /\ d[b][y] <= Add(d[b][v], d[v][y])
    BY <2>1 DEF Closed
  <2>3. /\ d[x][y] \in Costs /\ d[x][v] \in Costs /\ d[v][y] \in Costs /\ d[x][b] \in Costs
        /\ d[b][y] \in Costs /\ d[b][v] \in Costs /\ d[v][b] \in Costs
    BY <1>1, <2>1
  <2>4. /\ e[x][y] = Lesser(d[x][y], Add(d[x][b], d[b][y]))
        /\ e[x][v] = Lesser(d[x][v], Add(d[x][b], d[b][v]))
        /\ e[v][y] = Lesser(d[v][y], Add(d[v][b], d[b][y]))
    BY <1>1, <2>1
  <2>5. Lesser(d[x][y], Add(d[x][b], d[b][y]))
          <= Add(Lesser(d[x][v], Add(d[x][b], d[b][v])), Lesser(d[v][y], Add(d[v][b], d[b][y])))
    BY <2>2, <2>3, ThroughArithmetic
  <2> QED
    BY <2>4, <2>5
<1>5. ASSUME NEW x \in Ranks, NEW y \in Ranks
      PROVE  e[x][y] <= Add(e[x][b], e[b][y])
  <2>1. d[x][b] \in Costs /\ d[b][y] \in Costs /\ d[x][y] \in Costs /\ d[b][b] = 0 /\ 0 \in Costs
    BY <1>1, <1>2, NodesAreRanks DEF Costs
  <2>2. e[x][b] = Lesser(d[x][b], Add(d[x][b], 0)) /\ e[b][y] = Lesser(d[b][y], Add(0, d[b][y]))
    BY <1>1, <2>1
  <2>3. e[x][b] = d[x][b] /\ e[b][y] = d[b][y]
    BY <2>1, <2>2, CostsAdd
  <2>4. Add(d[x][b], d[b][y]) \in Nat
    BY <2>1, CostsAdd
  <2>5. e[x][y] = Lesser(d[x][y], Add(d[x][b], d[b][y]))
    BY <1>1
  <2> QED
    BY <2>1, <2>3, <2>4, <2>5, LesserIsCost
<1>6. \A v \in 0..((b + 1) - 1) : v = b \/ v \in 0..(b - 1)
  BY <1>0
<1> QED
  BY <1>3, <1>4, <1>5, <1>6 DEF Closed, e

LEMMA BetweenArithmetic ==
  ASSUME NEW k \in Nat, NEW m \in Nat, NEW l \in Costs, NEW r \in Costs,
         l # Infinite, r # Infinite,
         l <= (k + 1) * MaxArcWeight, r <= (m + 1) * MaxArcWeight
  PROVE  Add(l, r) <= ((k + m + 1) + 1) * MaxArcWeight
<1>1. MaxArcWeight \in Nat
  BY NodesAreRanks
<1>2. ((k + m + 1) + 1) * MaxArcWeight = (k + 1) * MaxArcWeight + (m + 1) * MaxArcWeight
  BY <1>1
<1>3. (k + 1) * MaxArcWeight \in Nat /\ (m + 1) * MaxArcWeight \in Nat
  BY <1>1
<1> QED
  BY <1>2, <1>3, NodesAreRanks DEF Add, Costs

LEMMA SpansJoin ==
  ASSUME NEW l \in Nat, NEW r \in Nat, NEW m \in Nat, NEW n \in Nat,
         NEW x \in Ranks, NEW v \in Ranks, NEW y \in Ranks,
         Spanned(l, x, v, m), Spanned(r, v, y, n)
  PROVE  Spanned(l + r, x, y, m + n)
<1> SUFFICES ASSUME NEW L \in Potentials, NEW k \in Nat,
                    k + (m + n) <= NodeCount - 1, L[k][x] + (l + r) < Infinite
             PROVE  L[k + (m + n)][y] <= L[k][x] + (l + r)
  BY DEF Spanned
<1>1. /\ k \in 0..(NodeCount - 1) /\ k + m \in 0..(NodeCount - 1) /\ k + m <= NodeCount - 1
      /\ (k + m) + n <= NodeCount - 1 /\ (k + m) + n \in 0..(NodeCount - 1)
      /\ k + (m + n) = (k + m) + n /\ Infinite \in Nat
  BY NodesAreRanks
<1>2. L[k][x] \in Nat /\ L[k + m][v] \in Nat /\ L[(k + m) + n][y] \in Nat
  BY <1>1 DEF Potentials
<1>3. L[k + m][v] <= L[k][x] + l
  <2>1. L[k][x] + l < Infinite
    BY <1>1, <1>2
  <2> QED BY <1>1, <2>1 DEF Spanned
<1>4. L[(k + m) + n][y] <= L[k + m][v] + r
  <2>1. L[k + m][v] + r < Infinite
    BY <1>1, <1>2, <1>3
  <2> QED BY <1>1, <2>1 DEF Spanned
<1> QED BY <1>1, <1>2, <1>3, <1>4

(* A way over b is only taken where it is the cheaper one; then its halves *)
(* meet in b alone, for it would be cheaper still to leave out what lies   *)
(* between two visits of a rank.                                           *)
LEMMA ThroughIsSimple ==
  ASSUME NEW d \in Table, NEW b \in Ranks, Closed(d, b), Simple(d, b)
  PROVE  Simple(Through(d, b), b + 1)
<1> DEFINE e == Through(d, b)
<1>0. b \in Nat /\ b < NodeCount /\ 0..(b - 1) \subseteq Ranks /\ b \notin 0..(b - 1)
      /\ 0..((b + 1) - 1) = (0..(b - 1)) \cup {b}
  BY NodesAreRanks
<1>1. \A x, y \in Ranks : /\ d[x][y] \in Costs /\ e[x][y] \in Costs
                          /\ e[x][y] = Lesser(d[x][y], Add(d[x][b], d[b][y]))
                          /\ e[x][y] <= d[x][y]
  BY ThroughIsTable DEF Table
<1> HIDE DEF e
<1> SUFFICES ASSUME NEW x \in Ranks, NEW y \in Ranks, x # y, e[x][y] # Infinite
             PROVE  \E S \in SUBSET (0..((b + 1) - 1)) : Between(e, x, y, S)
  BY DEF Simple, e
<1>2. CASE ~(Add(d[x][b], d[b][y]) < d[x][y])
  <2>1. e[x][y] = d[x][y]
    BY <1>1, <1>2 DEF Lesser
  <2>2. PICK S \in SUBSET (0..(b - 1)) : Between(d, x, y, S)
    BY <2>1 DEF Simple
  <2>3. ASSUME NEW s \in S PROVE Add(e[x][s], e[s][y]) <= e[x][y]
    <3>1. s \in Ranks /\ Add(d[x][s], d[s][y]) <= d[x][y]
      BY <2>2 DEF Between
    <3>2. /\ d[x][s] \in Costs /\ d[s][y] \in Costs /\ e[x][s] \in Costs /\ e[s][y] \in Costs
          /\ e[x][s] <= d[x][s] /\ e[s][y] <= d[s][y] /\ d[x][y] \in Costs
      BY <1>1, <3>1
    <3>3. d[x][s] # Infinite /\ d[s][y] # Infinite /\ d[x][s] + d[s][y] <= d[x][y]
      BY <2>1, <3>1, <3>2, NodesAreRanks DEF Add, Costs
    <3>4. e[x][s] # Infinite /\ e[s][y] # Infinite /\ e[x][s] + e[s][y] <= d[x][y]
      BY <3>2, <3>3 DEF Costs
    <3> QED
      BY <2>1, <3>4 DEF Add
  <2>4. Between(e, x, y, S)
    BY <2>1, <2>2, <2>3 DEF Between
  <2> QED
    BY <1>0, <2>4
<1>3. CASE Add(d[x][b], d[b][y]) < d[x][y]
  <2>1. e[x][y] = Add(d[x][b], d[b][y])
    BY <1>1, <1>3 DEF Lesser
  <2>2. /\ d[x][b] \in Costs /\ d[b][y] \in Costs /\ d[x][y] \in Costs
        /\ d[x][b] # Infinite /\ d[b][y] # Infinite
        /\ Add(d[x][b], d[b][y]) = d[x][b] + d[b][y]
        /\ d[x][b] < d[x][y] /\ d[b][y] < d[x][y]
    BY <1>1, <1>3, NodesAreRanks DEF Add, Costs
  <2>3. x # b /\ y # b
    BY <2>2, NodesAreRanks DEF Costs
  <2>4. PICK S \in SUBSET (0..(b - 1)) : Between(d, x, b, S)
    BY <2>2, <2>3 DEF Simple
  <2>5. PICK T \in SUBSET (0..(b - 1)) : Between(d, b, y, T)
    BY <2>2, <2>3 DEF Simple
  <2>6. ASSUME NEW s \in S
        PROVE  /\ s \in Ranks /\ s # y /\ d[x][s] \in Costs /\ d[s][b] \in Costs
               /\ d[x][s] + d[s][b] <= d[x][b] /\ d[x][s] # Infinite /\ d[s][b] # Infinite
               /\ d[s][b] \in Nat /\ d[x][s] \in Nat
    <3>1. s \in Ranks /\ Add(d[x][s], d[s][b]) <= d[x][b]
      BY <2>4 DEF Between
    <3>2. d[x][s] \in Costs /\ d[s][b] \in Costs
      BY <1>1, <3>1
    <3>3. d[x][s] + d[s][b] <= d[x][b] /\ d[x][s] # Infinite /\ d[s][b] # Infinite
      BY <2>2, <3>1, <3>2, NodesAreRanks DEF Add, Costs
    <3>4. s # y
      BY <2>2, <3>2, <3>3 DEF Costs
    <3> QED
      BY <3>1, <3>2, <3>3, <3>4 DEF Costs
  <2>7. ASSUME NEW s \in T
        PROVE  /\ s \in Ranks /\ s # x /\ d[b][s] \in Costs /\ d[s][y] \in Costs
               /\ d[b][s] + d[s][y] <= d[b][y] /\ d[b][s] # Infinite /\ d[s][y] # Infinite
               /\ d[b][s] \in Nat /\ d[s][y] \in Nat
    <3>1. s \in Ranks /\ Add(d[b][s], d[s][y]) <= d[b][y]
      BY <2>5 DEF Between
    <3>2. d[b][s] \in Costs /\ d[s][y] \in Costs
      BY <1>1, <3>1
    <3>3. d[b][s] + d[s][y] <= d[b][y] /\ d[b][s] # Infinite /\ d[s][y] # Infinite
      BY <2>2, <3>1, <3>2, NodesAreRanks DEF Add, Costs
    <3>4. s # x
      BY <2>2, <3>2, <3>3 DEF Costs
    <3> QED
      BY <3>1, <3>2, <3>3, <3>4 DEF Costs
  <2>8. S \cap T = {}
    <3> SUFFICES ASSUME NEW s \in S, s \in T PROVE FALSE
      OBVIOUS
    <3>1. d[x][y] <= Add(d[x][s], d[s][y])
      BY DEF Closed
    <3>2. Add(d[x][s], d[s][y]) = d[x][s] + d[s][y]
      BY <2>6, <2>7 DEF Add
    <3> QED
      BY <1>3, <2>2, <2>6, <2>7, <3>1, <3>2 DEF Costs
  <2> DEFINE U == (S \cup T) \cup {b}
  <2>9. U \subseteq 0..((b + 1) - 1) /\ U \subseteq Ranks \ {x, y}
    BY <1>0, <2>3, <2>4, <2>5, <2>6, <2>7 DEF Between
  <2>10. /\ Cardinality(U) = Cardinality(S) + Cardinality(T) + 1
         /\ Cardinality(S) \in Nat /\ Cardinality(T) \in Nat
    <3>1. IsFiniteSet(0..(b - 1))
      BY <1>0, FS_Interval
    <3>2. IsFiniteSet(S) /\ IsFiniteSet(T) /\ b \notin S \cup T
      BY <1>0, <3>1, FS_Subset
    <3>3. /\ Cardinality(S) \in Nat /\ Cardinality(T) \in Nat /\ IsFiniteSet(S \cup T)
          /\ Cardinality(S \cup T) = Cardinality(S) + Cardinality(T) - Cardinality(S \cap T)
          /\ Cardinality(S \cap T) = 0
      BY <2>8, <3>2, FS_CardinalityType, FS_Union, FS_EmptySet
    <3>4. Cardinality(U) = Cardinality(S \cup T) + 1
      BY <3>2, <3>3, FS_AddElement
    <3> QED
      BY <3>3, <3>4
  <2>11. ASSUME NEW s \in U PROVE Add(e[x][s], e[s][y]) <= e[x][y]
    <3>1. CASE s = b
      <4>1. e[x][b] <= d[x][b] /\ e[b][y] <= d[b][y] /\ e[x][b] \in Costs /\ e[b][y] \in Costs
        BY <1>1
      <4>2. e[x][b] # Infinite /\ e[b][y] # Infinite /\ e[x][b] + e[b][y] <= d[x][b] + d[b][y]
        <5>1. Costs \subseteq Nat /\ \A c \in Costs : c <= Infinite
          BY NodesAreRanks DEF Costs
        <5>2. d[x][b] \in Nat /\ d[b][y] \in Nat /\ d[x][y] \in Nat /\ d[x][y] <= Infinite
              /\ e[x][b] \in Nat /\ e[b][y] \in Nat /\ Infinite \in Nat
              /\ d[x][b] < d[x][y] /\ d[b][y] < d[x][y]
          BY <2>2, <4>1, <5>1, NodesAreRanks
        <5> QED BY <4>1, <5>2
      <4> QED
        BY <2>1, <2>2, <3>1, <4>2 DEF Add
    <3>2. CASE s \in S
      <4>1. e[x][s] <= d[x][s] /\ e[x][s] \in Costs /\ e[s][y] \in Costs
        BY <1>1, <2>6, <3>2
      <4>2. Add(d[s][b], d[b][y]) = d[s][b] + d[b][y] /\ d[s][b] + d[b][y] \in Nat
        BY <2>2, <2>6, <3>2 DEF Add, Costs
      <4>3. e[s][y] = Lesser(d[s][y], Add(d[s][b], d[b][y])) /\ d[s][y] \in Costs
        BY <1>1, <2>6, <3>2
      <4>4. e[s][y] <= d[s][b] + d[b][y]
        BY <4>2, <4>3, LesserIsCost
      <4>5. d[x][s] + d[s][b] <= d[x][b] /\ d[s][b] \in Nat /\ d[x][s] \in Nat
        BY <2>6, <3>2
      <4>6. d[x][b] \in Nat /\ d[b][y] \in Nat /\ d[x][y] \in Nat /\ d[x][y] <= Infinite
            /\ Infinite \in Nat /\ e[x][s] \in Nat /\ e[s][y] \in Nat
            /\ d[x][b] + d[b][y] < d[x][y]
        <5>1. Costs \subseteq Nat /\ \A c \in Costs : c <= Infinite
          BY NodesAreRanks DEF Costs
        <5> QED
          BY <1>3, <2>2, <4>1, <5>1, NodesAreRanks
      <4>7. e[x][s] + e[s][y] <= d[x][b] + d[b][y]
        BY <4>1, <4>4, <4>5, <4>6
      <4>8. e[x][s] < Infinite /\ e[s][y] < Infinite
        BY <4>6, <4>7
      <4> QED
        BY <2>1, <2>2, <4>6, <4>7, <4>8 DEF Add
    <3>3. CASE s \in T
      <4>1. e[s][y] <= d[s][y] /\ e[x][s] \in Costs /\ e[s][y] \in Costs
        BY <1>1, <2>7, <3>3
      <4>2. Add(d[x][b], d[b][s]) = d[x][b] + d[b][s] /\ d[x][b] + d[b][s] \in Nat
        BY <2>2, <2>7, <3>3 DEF Add, Costs
      <4>3. e[x][s] = Lesser(d[x][s], Add(d[x][b], d[b][s])) /\ d[x][s] \in Costs
        BY <1>1, <2>7, <3>3
      <4>4. e[x][s] <= d[x][b] + d[b][s]
        BY <4>2, <4>3, LesserIsCost
      <4>5. d[b][s] + d[s][y] <= d[b][y] /\ d[b][s] \in Nat /\ d[s][y] \in Nat
        BY <2>7, <3>3
      <4>6. d[x][b] \in Nat /\ d[b][y] \in Nat /\ d[x][y] \in Nat /\ d[x][y] <= Infinite
            /\ Infinite \in Nat /\ e[x][s] \in Nat /\ e[s][y] \in Nat
            /\ d[x][b] + d[b][y] < d[x][y]
        <5>1. Costs \subseteq Nat /\ \A c \in Costs : c <= Infinite
          BY NodesAreRanks DEF Costs
        <5> QED
          BY <1>3, <2>2, <4>1, <5>1, NodesAreRanks
      <4>7. e[x][s] + e[s][y] <= d[x][b] + d[b][y]
        BY <4>1, <4>4, <4>5, <4>6
      <4>8. e[x][s] < Infinite /\ e[s][y] < Infinite
        BY <4>6, <4>7
      <4> QED
        BY <2>1, <2>2, <4>6, <4>7, <4>8 DEF Add
    <3> QED
      BY <3>1, <3>2, <3>3
  <2>12. e[x][y] <= (Cardinality(U) + 1) * MaxArcWeight
    <3>1. /\ d[x][b] <= (Cardinality(S) + 1) * MaxArcWeight
          /\ d[b][y] <= (Cardinality(T) + 1) * MaxArcWeight
      BY <2>4, <2>5 DEF Between
    <3>2. Add(d[x][b], d[b][y]) <= ((Cardinality(S) + Cardinality(T) + 1) + 1) * MaxArcWeight
      BY <2>2, <2>10, <3>1, BetweenArithmetic
    <3> QED
      BY <2>1, <2>10, <3>2
  <2>13. Spanned(e[x][y], x, y, Cardinality(U) + 1)
    <3>1. Spanned(d[x][b] + d[b][y], x, y, (Cardinality(S) + 1) + (Cardinality(T) + 1))
      <4>1. d[x][b] \in Nat /\ d[b][y] \in Nat
        BY <2>2 DEF Costs
      <4>2. Cardinality(S) + 1 \in Nat /\ Cardinality(T) + 1 \in Nat
        BY <2>10
      <4> QED BY <2>4, <2>5, <4>1, <4>2, SpansJoin DEF Between
    <3>2. (Cardinality(S) + 1) + (Cardinality(T) + 1) = Cardinality(U) + 1
      BY <2>10
    <3> QED BY <2>1, <2>2, <3>1, <3>2
  <2>14. Between(e, x, y, U)
    BY <2>9, <2>11, <2>12, <2>13 DEF Between
  <2> QED
    BY <2>9, <2>14
<1> QED
  BY <1>2, <1>3

-----------------------------------------------------------------------------
LongestWay == (NodeCount - 1) * MaxArcWeight

Admitted == \A a \in arcs : a.weight <= MaxArcWeight

(* Costs that no turn of the customization will touch again are those of   *)
(* the table.                                                              *)
Agrees(d, b) ==
    /\ \A way \in Ways, arc \in up :
          b <= arc[1] => cost[way][arc] = d[Ends(arc, way)[1]][Ends(arc, way)[2]]
    /\ \A x, y \in Ranks :
          b <= x /\ b <= y /\ x # y /\ << x, y >> \notin up /\ << y, x >> \notin up =>
             d[x][y] = Infinite

Bounded == \A way \in Ways, arc \in up : cost[way][arc] = Infinite \/ cost[way][arc] <= LongestWay

Witnessed ==
    \A way \in Ways, arc \in up :
       \/ witness[way][arc] = NoWitness /\ cost[way][arc] = Infinite
       \/ IsOriginal(arc, way, witness[way][arc])
       \/ IsTriangle(arc, way, witness[way][arc]) /\ witness[way][arc].bottom[1] < bottom

(* The tables of the turns so far, each made from the one before: the costs *)
(* of the arcs from a rank are those of the table of its turn.             *)
Tables == [0..NodeCount -> Table]

Swept(T, b) ==
    /\ \A i \in 0..b : Closed(T[i], i) /\ Simple(T[i], i)
    /\ \A i \in 0..(b - 1) : T[i + 1] = Through(T[i], i)

Frozen(T, b) ==
    /\ \A way \in Ways, arc \in up :
          arc[1] < b => cost[way][arc] = T[arc[1]][Ends(arc, way)[1]][Ends(arc, way)[2]]
    /\ \A x, y \in Ranks :
          x < b /\ x < y /\ << x, y >> \notin up => T[x][x][y] = Infinite /\ T[x][y][x] = Infinite

Direct(d) == \A a \in arcs : d[rank[a.from]][rank[a.to]] <= a.weight

Tabled(T) ==
    Swept(T, bottom) /\ Agrees(T[bottom], bottom) /\ Frozen(T, bottom) /\ Direct(T[0])

ArcsAreUp ==
    \A a \in arcs : \/ << rank[a.from], rank[a.to] >> \in up
                    \/ << rank[a.to], rank[a.from] >> \in up

CustomInv ==
    /\ stage \notin {"input", "refused"} => IsPermutation(rank) /\ ValidArcs /\ ArcsAreUp
    /\ stage \in {"packed", "loaded"} => bottom = NodeCount
    /\ stage = "loaded" => Valid
    /\ stage \in Filled /\ ~altered /\ Admitted =>
          Bounded /\ Witnessed /\ \E T \in Tables : Tabled(T)
    /\ ValidGraphsArePacked

LEMMA LongestWayFits ==
  /\ LongestWay \in Nat /\ LongestWay <= MaxRouteWeight /\ LongestWay + LongestWay < Infinite
  /\ MaxArcWeight * MaxArcWeight \in Nat
<1>1. /\ NodeCount - 1 \in Nat /\ MaxArcWeight \in Nat /\ NodeCount - 1 <= MaxArcWeight
      /\ 2 * (NodeCount - 1) * MaxArcWeight < Infinite
  BY CchAssumption
<1>2. \A m, k, w \in Nat : m <= k => m * w \in Nat /\ m * w <= k * w
  OBVIOUS
<1>3. (NodeCount - 1) * MaxArcWeight <= MaxArcWeight * MaxArcWeight
  BY <1>1, <1>2
<1>4. 2 * (NodeCount - 1) * MaxArcWeight = LongestWay + LongestWay
  BY <1>1 DEF LongestWay
<1>5. LongestWay \in Nat
  BY <1>1, <1>2 DEF LongestWay
<1> QED
  BY <1>1, <1>2, <1>3, <1>4, <1>5 DEF LongestWay, MaxRouteWeight

(* A way between two ranks runs through the others once, if at all.        *)
LEMMA BetweenIsShort ==
  ASSUME NEW d, NEW x \in Ranks, NEW y \in Ranks, x # y, NEW S, Between(d, x, y, S)
  PROVE  Cardinality(S) \in Nat /\ Cardinality(S) + 1 <= NodeCount - 1
<1>1. IsFiniteSet(Ranks) /\ Cardinality(Ranks) = NodeCount
  BY NodesAreRanks, FS_Interval
<1>2. /\ IsFiniteSet(Ranks \ {x}) /\ Cardinality(Ranks \ {x}) = NodeCount - 1
  BY <1>1, FS_RemoveElement
<1> DEFINE R == Ranks \ {x}
<1>3. y \in R /\ S \subseteq R \ {y} /\ IsFiniteSet(R) /\ Cardinality(R) = NodeCount - 1
  BY <1>2 DEF Between
<1> HIDE DEF R
<1>4. IsFiniteSet(R \ {y}) /\ Cardinality(R \ {y}) = (NodeCount - 1) - 1 /\ S \in SUBSET (R \ {y})
  BY <1>3, FS_RemoveElement
<1>5. IsFiniteSet(S) /\ Cardinality(S) <= Cardinality(R \ {y})
  BY <1>4, FS_Subset
<1> QED BY <1>4, <1>5, FS_CardinalityType, NodesAreRanks

LEMMA SimpleIsBounded ==
  ASSUME NEW d \in Table, NEW b, Simple(d, b), NEW x \in Ranks, NEW y \in Ranks, x # y,
         d[x][y] # Infinite
  PROVE  d[x][y] <= LongestWay /\ d[x][y] \in Nat
<1>1. PICK S \in SUBSET (0..(b - 1)) : Between(d, x, y, S)
  BY DEF Simple
<1>2. d[x][y] <= (Cardinality(S) + 1) * MaxArcWeight
  BY <1>1 DEF Between
<1>3. Cardinality(S) \in Nat /\ Cardinality(S) + 1 <= NodeCount - 1
  BY <1>1, BetweenIsShort
<1>4. \A m, k, w \in Nat : m <= k => m * w \in Nat /\ m * w <= k * w
  OBVIOUS
<1>5. (Cardinality(S) + 1) * MaxArcWeight <= LongestWay /\ (Cardinality(S) + 1) * MaxArcWeight \in Nat
  BY <1>3, <1>4, NodesAreRanks DEF LongestWay
<1>6. d[x][y] \in Nat
  BY DEF Table, Costs
<1> QED BY <1>2, <1>5, <1>6, LongestWayFits

-----------------------------------------------------------------------------
(* A turn of the customization                                             *)
LEMMA CustomizeTurn ==
  ASSUME IInv, Customize
  PROVE  /\ stage = "customize" /\ bottom \in Ranks /\ bottom \in Nat /\ bottom < NodeCount
         /\ up \subseteq Upward /\ \A b \in Ranks : Cliques(b)
         /\ cost \in [Ways -> [up -> Costs]]
         /\ arcs' = arcs /\ rank' = rank /\ up' = up /\ altered' = altered
         /\ stage' # "refused" =>
              /\ stage' = "customize" /\ bottom' = bottom + 1
              /\ \A way \in Ways, arc \in up :
                   /\ cost'[way][arc] =
                        IF Improves(bottom, arc, way) THEN Via(bottom, arc, way) ELSE cost[way][arc]
                   /\ witness'[way][arc] =
                        IF Improves(bottom, arc, way) THEN Triangle(bottom, arc)
                        ELSE witness[way][arc]
<1>1. /\ stage = "customize" /\ bottom \in Ranks /\ bottom \in Nat /\ bottom < NodeCount
      /\ up \subseteq Upward /\ \A b \in Ranks : Cliques(b)
      /\ cost \in [Ways -> [up -> Costs]]
      /\ arcs' = arcs /\ rank' = rank /\ up' = up /\ altered' = altered
  BY NodesAreRanks DEF Customize, IInv, PackTypeOK, Upward, Filled
<1>2. ASSUME stage' # "refused"
      PROVE  /\ stage' = "customize" /\ bottom' = bottom + 1
             /\ cost' = [way \in Ways |-> [arc \in up |->
                   IF Improves(bottom, arc, way) THEN Via(bottom, arc, way) ELSE cost[way][arc]]]
             /\ witness' = [way \in Ways |-> [arc \in up |->
                   IF Improves(bottom, arc, way) THEN Triangle(bottom, arc) ELSE witness[way][arc]]]
  BY <1>1, <1>2 DEF Customize
<1> QED BY <1>1, <1>2

(* The arcs of the ranks up to the bottom keep their costs.                *)
LEMMA CostsBelowStay ==
  ASSUME IInv, Customize, stage' # "refused", NEW way \in Ways, NEW arc \in up, arc[1] <= bottom
  PROVE  cost'[way][arc] = cost[way][arc] /\ witness'[way][arc] = witness[way][arc]
<1>1. arc \in Ranks \X Ranks
  BY CustomizeTurn DEF Upward
<1>2. << bottom, arc[1] >> \notin up
  BY <1>1, CustomizeTurn, NodesAreRanks DEF Upward
<1>3. ~Improves(bottom, arc, way)
  BY <1>2 DEF Improves, Below
<1> QED BY <1>3, CustomizeTurn

(* A table tells what lies below a rank.                                   *)
LEMMA TableLegs ==
  ASSUME up \subseteq Upward, NEW d \in Table, NEW b \in Ranks, Agrees(d, b), NEW h \in Ranks, b < h
  PROVE  /\ << b, h >> \in up => /\ cost["backward"][<< b, h >>] = d[h][b]
                                 /\ cost["forward"][<< b, h >>] = d[b][h]
         /\ << b, h >> \notin up => d[h][b] = Infinite /\ d[b][h] = Infinite
<1>1. "backward" \in Ways /\ "forward" \in Ways
  BY DEF Ways
<1>2. b \in Nat /\ h \in Nat /\ ~(h < b)
  BY NodesAreRanks
<1>3. << h, b >> \notin up
  BY <1>2 DEF Upward
<1>4. Ends(<< b, h >>, "backward") = << h, b >> /\ Ends(<< b, h >>, "forward") = << b, h >>
  BY DEF Ends
<1> QED BY <1>1, <1>2, <1>3, <1>4 DEF Agrees

LEMMA ViaIsThrough ==
  ASSUME up \subseteq Upward, NEW d \in Table, NEW b \in Ranks, Agrees(d, b),
         NEW arc \in up, b < arc[1], NEW way \in Ways
  PROVE  LET x == Ends(arc, way)[1]
             y == Ends(arc, way)[2]
         IN  /\ x \in Ranks /\ y \in Ranks /\ b < x /\ b < y /\ x # y
             /\ Below(b, arc) => Legs(b, arc, way) = << d[x][b], d[b][y] >>
             /\ ~Below(b, arc) => d[x][b] = Infinite \/ d[b][y] = Infinite
<1> DEFINE x == Ends(arc, way)[1]
           y == Ends(arc, way)[2]
<1>1. /\ arc \in Ranks \X Ranks /\ arc[1] \in Ranks /\ arc[2] \in Ranks /\ arc[1] < arc[2]
      /\ b < arc[2]
  BY NodesAreRanks DEF Upward
<1>2. \/ x = arc[1] /\ y = arc[2]
      \/ x = arc[2] /\ y = arc[1]
  BY DEF Ends
<1>3. x \in Ranks /\ y \in Ranks /\ b < x /\ b < y /\ x # y
  BY <1>1, <1>2, NodesAreRanks
<1>4. Below(b, arc) <=> << b, x >> \in up /\ << b, y >> \in up
  BY <1>2 DEF Below
<1>5. Legs(b, arc, way) = << cost["backward"][<< b, x >>], cost["forward"][<< b, y >>] >>
  BY DEF Legs
<1> HIDE DEF x, y
<1>6. /\ Below(b, arc) => Legs(b, arc, way) = << d[x][b], d[b][y] >>
      /\ ~Below(b, arc) => d[x][b] = Infinite \/ d[b][y] = Infinite
  BY <1>3, <1>4, <1>5, TableLegs
<1> QED BY <1>3, <1>6 DEF x, y

LEMMA NoOverflow ==
  ASSUME IInv, stage = "customize", up \subseteq Upward, bottom \in Ranks,
         NEW d \in Table, Simple(d, bottom), Agrees(d, bottom),
         NEW arc \in up, NEW way \in Ways, Below(bottom, arc)
  PROVE  ~Overflows(Legs(bottom, arc, way)[1], Legs(bottom, arc, way)[2])
<1> DEFINE x == Ends(arc, way)[1]
           y == Ends(arc, way)[2]
<1>1. bottom < arc[1]
  BY DEF Below, Upward
<1>2. /\ x \in Ranks /\ y \in Ranks /\ bottom < x /\ bottom < y
      /\ Legs(bottom, arc, way) = << d[x][bottom], d[bottom][y] >>
  BY <1>1, ViaIsThrough
<1> HIDE DEF x, y
<1>3. x # bottom /\ y # bottom
  BY <1>2, NodesAreRanks
<1>4. /\ d[x][bottom] # Infinite => d[x][bottom] <= LongestWay /\ d[x][bottom] \in Nat
      /\ d[bottom][y] # Infinite => d[bottom][y] <= LongestWay /\ d[bottom][y] \in Nat
  BY <1>2, <1>3, SimpleIsBounded
<1>5. Infinite \in Nat
  BY NodesAreRanks
<1> QED BY <1>2, <1>4, <1>5, LongestWayFits DEF Overflows

LEMMA TurnAgrees ==
  ASSUME IInv, Customize, stage' # "refused",
         NEW b, b = bottom, NEW d \in Table, Agrees(d, b)
  PROVE  Agrees(Through(d, b), b + 1)'
<1> DEFINE e == Through(d, b)
<1>1. /\ b \in Ranks /\ b \in Nat /\ up \subseteq Upward /\ Cliques(b)
      /\ up' = up /\ bottom' = b + 1
      /\ cost \in [Ways -> [up -> Costs]]
  BY CustomizeTurn
<1>2. \A x, y \in Ranks : d[x][y] \in Costs /\ e[x][y] = Lesser(d[x][y], Add(d[x][b], d[b][y]))
  BY <1>1, ThroughIsTable DEF Table
<1>3. \A l, r \in Costs : l = Infinite \/ r = Infinite => Add(l, r) = Infinite
  BY DEF Add
<1>4. \A l \in Costs : Lesser(l, Infinite) = l
  BY NodesAreRanks DEF Lesser, Costs
<1> HIDE DEF e
<1>5. ASSUME NEW way \in Ways, NEW arc \in up, b + 1 <= arc[1]
      PROVE  cost'[way][arc] = e[Ends(arc, way)[1]][Ends(arc, way)[2]]
  <2> DEFINE x == Ends(arc, way)[1]
             y == Ends(arc, way)[2]
  <2>1. b < arc[1] /\ b <= arc[1]
    BY <1>1, <1>5, NodesAreRanks DEF Upward
  <2>2. /\ x \in Ranks /\ y \in Ranks /\ cost[way][arc] = d[x][y]
        /\ Below(b, arc) => Legs(b, arc, way) = << d[x][b], d[b][y] >>
        /\ ~Below(b, arc) => d[x][b] = Infinite \/ d[b][y] = Infinite
    BY <1>1, <2>1, ViaIsThrough DEF Agrees
  <2>3. cost'[way][arc] = IF Improves(b, arc, way) THEN Via(b, arc, way) ELSE cost[way][arc]
    BY CustomizeTurn
  <2> HIDE DEF x, y
  <2>4. CASE Below(b, arc)
    <3>1. Via(b, arc, way) = Add(d[x][b], d[b][y])
      BY <2>2, <2>4 DEF Via
    <3> QED
      BY <1>2, <2>2, <2>3, <2>4, <3>1 DEF Improves, Lesser, x, y
  <2>5. CASE ~Below(b, arc)
    <3>1. Add(d[x][b], d[b][y]) = Infinite
      BY <1>1, <1>2, <1>3, <2>2, <2>5
    <3> QED
      BY <1>2, <1>4, <2>2, <2>3, <2>5, <3>1 DEF Improves, x, y
  <2> QED BY <2>4, <2>5
<1>6. ASSUME NEW x \in Ranks, NEW y \in Ranks, b + 1 <= x, b + 1 <= y, x # y,
             << x, y >> \notin up, << y, x >> \notin up
      PROVE  e[x][y] = Infinite
  <2>1. x \in Nat /\ y \in Nat /\ b < x /\ b < y /\ b <= x /\ b <= y
    BY <1>1, <1>6, NodesAreRanks
  <2>2. d[x][y] = Infinite
    BY <1>6, <2>1 DEF Agrees
  <2>3. << b, x >> \notin up \/ << b, y >> \notin up
    <3> SUFFICES ASSUME << b, x >> \in up, << b, y >> \in up PROVE FALSE
      OBVIOUS
    <3>1. x \in Higher(b) /\ y \in Higher(b) /\ (x < y \/ y < x)
      BY <1>6, <2>1 DEF Higher
    <3> QED BY <1>1, <1>6, <3>1 DEF Cliques
  <2>4. d[x][b] = Infinite \/ d[b][y] = Infinite
    BY <1>1, <2>1, <2>3, TableLegs
  <2>5. Add(d[x][b], d[b][y]) = Infinite
    BY <1>1, <1>2, <1>3, <2>4
  <2>6. d[x][y] \in Costs /\ e[x][y] = Lesser(d[x][y], Add(d[x][b], d[b][y]))
    BY <1>2
  <2> QED BY <1>4, <2>2, <2>5, <2>6
<1> QED BY <1>1, <1>5, <1>6 DEF Agrees, e

LEMMA TurnWitnessed ==
  ASSUME IInv, Customize, stage' # "refused", Witnessed,
         NEW b, b = bottom,
         \A arc \in up, way \in Ways :
            Below(b, arc) => ~Overflows(Legs(b, arc, way)[1], Legs(b, arc, way)[2])
  PROVE  Witnessed'
<1>1. /\ b \in Ranks /\ b \in Nat /\ up \subseteq Upward
      /\ up' = up /\ bottom' = b + 1 /\ arcs' = arcs /\ rank' = rank
      /\ cost \in [Ways -> [up -> Costs]]
  BY CustomizeTurn
<1>2. Triangles' = Triangles
  BY <1>1 DEF Triangles
<1>3. ASSUME NEW v, NEW arc \in up, NEW way \in Ways, v \in Ranks, v <= b, Below(v, arc)
      PROVE  Legs(v, arc, way)' = Legs(v, arc, way)
  <2>1. << v, Ends(arc, way)[1] >> \in up /\ << v, Ends(arc, way)[2] >> \in up
    BY <1>1, <1>3, ViaIsCost
  <2>2. "backward" \in Ways /\ "forward" \in Ways
    BY DEF Ways
  <2> QED BY <1>3, <2>1, <2>2, CostsBelowStay DEF Legs, Ends
<1> SUFFICES ASSUME NEW way \in Ways, NEW arc \in up, NEW w, w = witness'[way][arc]
             PROVE  \/ w = NoWitness /\ cost'[way][arc] = Infinite
                    \/ IsOriginal(arc, way, w)'
                    \/ IsTriangle(arc, way, w)' /\ w.bottom[1] < b + 1
  BY <1>1 DEF Witnessed
<1>4. arc[1] \in Ranks /\ arc[2] \in Ranks /\ arc[1] < arc[2] /\ arc \in Ranks \X Ranks
  BY <1>1 DEF Upward
<1>5. CASE Improves(b, arc, way)
  <2> DEFINE t == Triangle(b, arc)
  <2>1. Below(b, arc) /\ Via(b, arc, way) < cost[way][arc] /\ cost[way][arc] \in Costs
    BY <1>1, <1>5 DEF Improves
  <2>2. /\ t.bottom = << b, arc[1] >> /\ t.mid = << b, arc[2] >> /\ t \in Triangles
        /\ t.bottom[1] = b /\ t.mid[1] = b
    BY <2>1 DEF Below, Triangle, Triangles
  <2>3. w = t /\ cost'[way][arc] = Via(b, arc, way)
    BY <1>5, CustomizeTurn
  <2>4. Legs(b, arc, way)' = Legs(b, arc, way)
    BY <1>1, <1>3, <2>1
  <2>5. Via(b, arc, way)' = Via(b, arc, way)
    BY <2>4 DEF Via
  <2>6. Via(b, arc, way) # Infinite
    <3>1. Via(b, arc, way) \in Nat
      BY <1>1, <2>1, ViaIsCost
    <3> QED BY <2>1, <3>1, NodesAreRanks DEF Costs
  <2>7. b < arc[1]
    BY <1>1, <2>1 DEF Below, Upward
  <2>8. ~Overflows(Legs(b, arc, way)[1], Legs(b, arc, way)[2])'
    BY <2>1, <2>4 DEF Overflows
  <2>9. Before(t.bottom, arc) /\ Before(t.mid, arc)
    BY <2>2, <2>7 DEF Before
  <2> HIDE DEF t
  <2>10. IsTriangle(arc, way, t)'
    BY <1>2, <2>2, <2>3, <2>5, <2>6, <2>8, <2>9 DEF IsTriangle, t
  <2> QED
    BY <1>1, <2>2, <2>3, <2>10
<1>6. CASE ~Improves(b, arc, way)
  <2>1. witness[way][arc] = w /\ cost'[way][arc] = cost[way][arc]
    BY <1>6, CustomizeTurn
  <2>2. CASE w = NoWitness /\ cost[way][arc] = Infinite
    BY <2>1, <2>2
  <2>3. CASE IsOriginal(arc, way, w)
    <3>1. Originals(arc, way)' = Originals(arc, way)
      BY <1>1 DEF Originals
    <3> QED
      BY <2>1, <2>3, <3>1 DEF IsOriginal
  <2>4. CASE IsTriangle(arc, way, w) /\ w.bottom[1] < b
    <3> DEFINE v == w.bottom[1]
    <3>1. /\ w \in Triangles /\ cost[way][arc] # Infinite
          /\ Before(w.bottom, arc) /\ Before(w.mid, arc) /\ w = Triangle(v, arc)
          /\ ~Overflows(Legs(v, arc, way)[1], Legs(v, arc, way)[2])
          /\ Via(v, arc, way) = cost[way][arc]
      BY <2>4 DEF IsTriangle
    <3>2. w.bottom \in up /\ w.mid \in up
      BY <3>1 DEF Triangles
    <3>3. w.bottom = << v, arc[1] >> /\ w.mid = << v, arc[2] >>
      BY <3>1 DEF Triangle
    <3> HIDE DEF v
    <3>4. v \in Ranks /\ v <= b /\ v < b + 1 /\ Below(v, arc)
      <4>1. v \in Ranks
        BY <1>1, <3>2, <3>3 DEF Upward
      <4>2. v < b
        BY <2>4 DEF v
      <4> QED BY <1>1, <3>2, <3>3, <4>1, <4>2, NodesAreRanks DEF Below
    <3>5. Legs(v, arc, way)' = Legs(v, arc, way)
      BY <1>3, <3>4
    <3>6. Via(v, arc, way)' = Via(v, arc, way)
      BY <3>5 DEF Via
    <3>7. IsTriangle(arc, way, w)'
      BY <1>2, <2>1, <3>1, <3>5, <3>6 DEF IsTriangle, v
    <3> QED BY <2>1, <3>4, <3>7 DEF v
  <2> QED BY <1>1, <2>1, <2>2, <2>3, <2>4 DEF Witnessed
<1> QED BY <1>5, <1>6

-----------------------------------------------------------------------------
LEMMA CheapestIsLeast ==
  ASSUME NEW S \in SUBSET Arc, S # {}
  PROVE  Cheapest(S) \in S /\ \A b \in S : Cheapest(S).weight <= b.weight
BY CheapestExists DEF Cheapest

(* Before the first turn a way has one arc.                                *)
LEMMA OriginalsAgree ==
  ASSUME IInv, TakeOriginals, Admitted, IsPermutation(rank), ValidArcs, ArcsAreUp
  PROVE  \E d \in Table : /\ Closed(d, 0) /\ Simple(d, 0) /\ Direct(d)
                          /\ Agrees(d, 0)'
<1>1. /\ up \subseteq Upward /\ up' = up /\ arcs \subseteq Arc
  BY DEF TakeOriginals, IInv, PackTypeOK, Upward
<1>2. PICK c : c = cost'
  OBVIOUS
<1>3. ASSUME NEW way \in Ways, NEW arc \in up
      PROVE  /\ c[way][arc] \in Costs
             /\ \A a \in Originals(arc, way) : c[way][arc] <= a.weight
             /\ \/ c[way][arc] = Infinite
                \/ /\ c[way][arc] <= MaxArcWeight
                   /\ \E a \in Originals(arc, way) : c[way][arc] = a.weight
  <2>1. c[way][arc] = IF Originals(arc, way) = {} THEN Infinite
                      ELSE Cheapest(Originals(arc, way)).weight
    BY <1>2 DEF TakeOriginals
  <2>2. Originals(arc, way) \subseteq arcs
    BY DEF Originals
  <2>3. CASE Originals(arc, way) = {}
    BY <2>1, <2>3, NodesAreRanks DEF Costs
  <2>4. CASE Originals(arc, way) # {}
    <3>1. /\ Cheapest(Originals(arc, way)) \in Originals(arc, way)
          /\ \A a \in Originals(arc, way) : Cheapest(Originals(arc, way)).weight <= a.weight
      BY <1>1, <2>2, <2>4, CheapestIsLeast
    <3>2. c[way][arc] \in Nat /\ c[way][arc] <= MaxArcWeight
      BY <1>1, <2>1, <2>2, <2>4, <3>1, NodesAreRanks DEF Arc, Admitted
    <3> QED BY <2>1, <2>4, <3>1, <3>2, NodesAreRanks DEF Costs
  <2> QED BY <2>3, <2>4
<1>4. "forward" \in Ways /\ "backward" \in Ways
  BY DEF Ways
<1> DEFINE At(x, y) == IF x = y THEN 0
                       ELSE IF << x, y >> \in up THEN c["forward"][<< x, y >>]
                       ELSE IF << y, x >> \in up THEN c["backward"][<< y, x >>]
                       ELSE Infinite
           d == [x \in Ranks |-> [y \in Ranks |-> At(x, y)]]
<1>5. ASSUME NEW x \in Ranks, NEW y \in Ranks
      PROVE  /\ At(x, y) \in Costs
             /\ \A a \in arcs : rank[a.from] = x /\ rank[a.to] = y => At(x, y) <= a.weight
             /\ x # y /\ At(x, y) # Infinite =>
                   /\ At(x, y) <= MaxArcWeight
                   /\ \E a \in arcs : rank[a.from] = x /\ rank[a.to] = y /\ At(x, y) = a.weight
  <2>0. \A a \in arcs : a.weight \in Nat
    BY <1>1 DEF Arc
  <2>1. CASE x = y
    BY <2>0, <2>1, NodesAreRanks DEF Costs
  <2>2. CASE x # y /\ << x, y >> \in up
    <3>1. \A a \in Originals(<< x, y >>, "forward") :
             a \in arcs /\ rank[a.from] = x /\ rank[a.to] = y
      BY DEF Originals, Ends
    <3>2. \A a \in arcs :
             rank[a.from] = x /\ rank[a.to] = y => a \in Originals(<< x, y >>, "forward")
      BY DEF Originals, Ends
    <3>3. At(x, y) = c["forward"][<< x, y >>]
      BY <2>2
    <3> HIDE DEF At
    <3> QED BY <1>3, <1>4, <2>2, <3>1, <3>2, <3>3
  <2>3. CASE x # y /\ << x, y >> \notin up /\ << y, x >> \in up
    <3>1. \A a \in Originals(<< y, x >>, "backward") :
             a \in arcs /\ rank[a.from] = x /\ rank[a.to] = y
      BY DEF Originals, Ends
    <3>2. \A a \in arcs :
             rank[a.from] = x /\ rank[a.to] = y => a \in Originals(<< y, x >>, "backward")
      BY DEF Originals, Ends
    <3>3. At(x, y) = c["backward"][<< y, x >>]
      BY <2>3
    <3> HIDE DEF At
    <3> QED BY <1>3, <1>4, <2>3, <3>1, <3>2, <3>3
  <2>4. CASE x # y /\ << x, y >> \notin up /\ << y, x >> \notin up
    <3>1. \A a \in arcs : ~(rank[a.from] = x /\ rank[a.to] = y)
      BY <2>4 DEF ArcsAreUp
    <3> QED BY <2>4, <3>1, NodesAreRanks DEF Costs
  <2> QED BY <2>1, <2>2, <2>3, <2>4
<1>6. d \in Table /\ \A x, y \in Ranks : d[x][y] = At(x, y)
  BY <1>5 DEF Table
<1>7. \A x \in Ranks : d[x][x] = 0
  BY <1>6
<1>8. \A x, y \in Ranks :
          x # y /\ << x, y >> \notin up /\ << y, x >> \notin up => d[x][y] = Infinite
  BY <1>6
<1> HIDE DEF d, At
<1>9. Closed(d, 0)
  <2>1. 0..(0 - 1) = {}
    OBVIOUS
  <2> QED BY <1>7, <2>1 DEF Closed
<1>10. Direct(d)
  <2> SUFFICES ASSUME NEW a \in arcs PROVE d[rank[a.from]][rank[a.to]] <= a.weight
    BY DEF Direct
  <2>1. rank[a.from] \in Ranks /\ rank[a.to] \in Ranks
    BY DEF ValidArcs, IsPermutation
  <2> QED BY <1>5, <1>6, <2>1
<1>11. Simple(d, 0)
  <2> SUFFICES ASSUME NEW x \in Ranks, NEW y \in Ranks, x # y, d[x][y] # Infinite
               PROVE  Between(d, x, y, {})
    BY DEF Simple
  <2>1. Cardinality({}) = 0 /\ (0 + 1) * MaxArcWeight = MaxArcWeight /\ 0 + 1 = 1
    BY FS_EmptySet, NodesAreRanks
  <2>2. d[x][y] <= MaxArcWeight
    BY <1>5, <1>6
  <2>3. PICK a \in arcs : rank[a.from] = x /\ rank[a.to] = y /\ d[x][y] = a.weight
    BY <1>5, <1>6
  <2>4. ASSUME NEW L \in Potentials, NEW k \in Nat, k + 1 <= NodeCount - 1,
               L[k][x] + d[x][y] < Infinite
        PROVE  L[k + 1][y] <= L[k][x] + d[x][y]
    <3>1. k \in 0..(NodeCount - 2)
      BY <2>4, NodesAreRanks
    <3> QED BY <2>3, <2>4, <3>1 DEF Potentials
  <2>5. Spanned(d[x][y], x, y, 1)
    BY <2>4 DEF Spanned
  <2> QED BY <2>1, <2>2, <2>5 DEF Between
<1>12. ASSUME NEW way \in Ways, NEW arc \in up
      PROVE  c[way][arc] = d[Ends(arc, way)[1]][Ends(arc, way)[2]]
  <2>1. /\ arc[1] \in Ranks /\ arc[2] \in Ranks /\ arc = << arc[1], arc[2] >>
        /\ arc[1] < arc[2] /\ arc[1] # arc[2] /\ << arc[2], arc[1] >> \notin up
    BY <1>1, NodesAreRanks DEF Upward
  <2>2. d[arc[1]][arc[2]] = c["forward"][arc] /\ d[arc[2]][arc[1]] = c["backward"][arc]
    BY <1>6, <2>1 DEF At
  <2>3. CASE way = "forward"
    BY <2>1, <2>2, <2>3 DEF Ends
  <2>4. CASE way = "backward"
    BY <2>1, <2>2, <2>4 DEF Ends
  <2> QED BY <2>3, <2>4 DEF Ways
<1>13. PICK f \in Table : f = d
  BY <1>6
<1>14. Agrees(f, 0)'
  BY <1>1, <1>2, <1>12, <1>8, <1>13 DEF Agrees
<1> QED BY <1>9, <1>10, <1>11, <1>13, <1>14

LEMMA OriginalsWitnessed ==
  ASSUME IInv, TakeOriginals
  PROVE  Witnessed'
<1>1. arcs \subseteq Arc /\ up' = up /\ arcs' = arcs /\ rank' = rank
  BY DEF TakeOriginals, IInv
<1> SUFFICES ASSUME NEW way \in Ways, NEW arc \in up, NEW w, w = witness'[way][arc]
             PROVE  \/ w = NoWitness /\ cost'[way][arc] = Infinite
                    \/ IsOriginal(arc, way, w)'
  BY <1>1 DEF Witnessed
<1>2. Originals(arc, way)' = Originals(arc, way) /\ Originals(arc, way) \subseteq arcs
  BY <1>1 DEF Originals
<1>3. /\ cost'[way][arc] = IF Originals(arc, way) = {} THEN Infinite
                           ELSE Cheapest(Originals(arc, way)).weight
      /\ w = IF Originals(arc, way) = {} THEN NoWitness ELSE Cheapest(Originals(arc, way))
  BY DEF TakeOriginals
<1>4. CASE Originals(arc, way) # {}
  <2>1. Cheapest(Originals(arc, way)) \in Originals(arc, way)
    BY <1>1, <1>2, <1>4, CheapestIsOne
  <2> QED BY <1>2, <1>3, <1>4, <2>1 DEF IsOriginal
<1> QED BY <1>3, <1>4

(* What a table agrees with is bounded by the longest way.                 *)
LEMMA AgreeingIsBounded ==
  ASSUME up \subseteq Upward, NEW d \in Table, NEW b, Simple(d, b),
         NEW way \in Ways, NEW arc \in up, NEW c, c = d[Ends(arc, way)[1]][Ends(arc, way)[2]]
  PROVE  c = Infinite \/ c <= LongestWay
<1> DEFINE x == Ends(arc, way)[1]
           y == Ends(arc, way)[2]
<1>1. arc[1] \in Ranks /\ arc[2] \in Ranks /\ arc[1] # arc[2]
  BY NodesAreRanks DEF Upward
<1>2. x \in Ranks /\ y \in Ranks /\ x # y
  BY <1>1 DEF Ends
<1> HIDE DEF x, y
<1>3. d[x][y] # Infinite => d[x][y] <= LongestWay
  BY <1>2, SimpleIsBounded
<1> QED BY <1>3 DEF x, y

LEMMA GraphStays ==
  ASSUME arcs' = arcs, rank' = rank
  PROVE  /\ IsPermutation(rank)' <=> IsPermutation(rank)
         /\ ValidArcs' <=> ValidArcs
         /\ Admitted' <=> Admitted
         /\ \A d : Direct(d)' <=> Direct(d)
         /\ \A d, b : Simple(d, b)' <=> Simple(d, b)
BY DEF IsPermutation, ValidArcs, Admitted, Direct, Simple, Between, Spanned, Potentials

LEMMA AdmittedMeans ==
  ASSUME arcs \subseteq Arc
  PROVE  Admitted <=> ~ \E a \in arcs : a.weight > MaxArcWeight
BY NodesAreRanks DEF Admitted, Arc

LEMMA WitnessedIsValid ==
  ASSUME IsPermutation(rank), ValidArcs, Admitted, Bounded, Witnessed,
         cost \in [Ways -> [up -> Costs]]
  PROVE  Valid
<1>1. \A way \in Ways, arc \in up : cost[way][arc] = Infinite \/ cost[way][arc] <= MaxRouteWeight
  <2> SUFFICES ASSUME NEW way \in Ways, NEW arc \in up, cost[way][arc] <= LongestWay
               PROVE  cost[way][arc] <= MaxRouteWeight
    BY DEF Bounded
  <2>1. cost[way][arc] \in Nat
    BY DEF Costs
  <2> QED BY <2>1, LongestWayFits DEF MaxRouteWeight
<1> QED BY <1>1 DEF Valid, Witnessed, Admitted

-----------------------------------------------------------------------------
LEMMA TabledStays ==
  ASSUME UNCHANGED << arcs, rank, up, bottom, cost >>, NEW T
  PROVE  Tabled(T)' <=> Tabled(T)
<1>1. /\ Swept(T, bottom)' <=> Swept(T, bottom)
      /\ Direct(T[0])' <=> Direct(T[0])
  BY GraphStays DEF Swept
<1>2. Agrees(T[bottom], bottom)' <=> Agrees(T[bottom], bottom)
  BY DEF Agrees
<1>3. Frozen(T, bottom)' <=> Frozen(T, bottom)
  BY DEF Frozen
<1> QED BY <1>1, <1>2, <1>3 DEF Tabled

LEMMA ValidStays ==
  ASSUME UNCHANGED << arcs, rank, up, cost, witness >>
  PROVE  Valid' <=> Valid
BY DEF Valid, ValidArcs, IsPermutation, IsOriginal, IsTriangle, Originals, Triangles, Via, Legs

LEMMA TakeOriginalsCustoms == IInv /\ CustomInv /\ TakeOriginals => CustomInv'
<1> SUFFICES ASSUME IInv, CustomInv, TakeOriginals PROVE CustomInv'
  OBVIOUS
<1>1. /\ stage = "fill" /\ stage' = "customize" /\ bottom' = 0 /\ up' = up /\ up \subseteq Upward
      /\ arcs' = arcs /\ rank' = rank /\ arcs \subseteq Arc
      /\ IsPermutation(rank) /\ ValidArcs /\ ArcsAreUp
  BY DEF TakeOriginals, IInv, PackTypeOK, Upward, CustomInv
<1>2. IsPermutation(rank)' /\ ValidArcs' /\ ArcsAreUp'
  BY <1>1, GraphStays DEF ArcsAreUp
<1>3. ASSUME Admitted
      PROVE  Bounded' /\ \E T \in Tables : Tabled(T)'
  <2>1. PICK d \in Table : Closed(d, 0) /\ Simple(d, 0) /\ Direct(d) /\ Agrees(d, 0)'
    BY <1>1, <1>3, OriginalsAgree
  <2>2. ASSUME NEW way \in Ways, NEW arc \in up
        PROVE  cost'[way][arc] = Infinite \/ cost'[way][arc] <= LongestWay
    <3>1. 0 <= arc[1]
      BY <1>1, NodesAreRanks DEF Upward
    <3>2. cost'[way][arc] = d[Ends(arc, way)[1]][Ends(arc, way)[2]]
      BY <1>1, <2>1, <3>1 DEF Agrees
    <3> QED BY <1>1, <2>1, <3>2, AgreeingIsBounded
  <2>3. PICK T \in Tables : T[0] = d
    <3>1. [i \in 0..NodeCount |-> d] \in Tables /\ [i \in 0..NodeCount |-> d][0] = d
      BY NodesAreRanks DEF Tables
    <3> QED BY <3>1
  <2>4. Swept(T, 0)
    BY <2>1, <2>3 DEF Swept
  <2>5. Frozen(T, 0)'
    <3>1. \A arc \in up : ~(arc[1] < 0)
      BY <1>1, NodesAreRanks DEF Upward
    <3>2. \A x \in Ranks : ~(x < 0)
      BY NodesAreRanks
    <3> QED BY <1>1, <3>1, <3>2 DEF Frozen
  <2>6. Swept(T, 0)' /\ Direct(T[0])' /\ Agrees(T[0], 0)'
    BY <1>1, <2>1, <2>3, <2>4, GraphStays DEF Swept
  <2>7. Tabled(T)'
    BY <1>1, <2>5, <2>6 DEF Tabled, Swept, Agrees, Frozen
  <2> QED BY <1>1, <2>2, <2>7 DEF Bounded
<1>4. Admitted' <=> Admitted
  BY <1>1, GraphStays
<1> QED BY <1>1, <1>2, <1>3, <1>4, OriginalsWitnessed DEF CustomInv, ValidGraphsArePacked

LEMMA TurnTabled ==
  ASSUME IInv, Customize, stage' # "refused", NEW b, b = bottom,
         NEW T \in Tables, Swept(T, b), Agrees(T[b], b), Frozen(T, b), Direct(T[0])
  PROVE  /\ [T EXCEPT ![b + 1] = Through(T[b], b)] \in Tables
         /\ Tabled([T EXCEPT ![b + 1] = Through(T[b], b)])'
<1> DEFINE e == Through(T[b], b)
           U == [T EXCEPT ![b + 1] = e]
<1>1. /\ b \in Ranks /\ b \in Nat /\ b < NodeCount /\ NodeCount \in Nat
      /\ b \in 0..NodeCount /\ b + 1 \in 0..NodeCount
      /\ up \subseteq Upward /\ up' = up /\ arcs' = arcs /\ rank' = rank /\ bottom' = b + 1
  BY CustomizeTurn, NodesAreRanks
<1>2. T[b] \in Table /\ Closed(T[b], b) /\ Simple(T[b], b)
  BY <1>1 DEF Tables, Swept
<1>3. e \in Table /\ Closed(e, b + 1) /\ Simple(e, b + 1)
  BY <1>1, <1>2, ThroughIsTable, ThroughCloses, ThroughIsSimple
<1>4. Agrees(e, b + 1)'
  BY <1>1, <1>2, TurnAgrees
<1>5. e = Through(T[b], b)
  OBVIOUS
<1> HIDE DEF e
<1>6. U \in Tables /\ U[b + 1] = e /\ \A i \in 0..b : U[i] = T[i]
  BY <1>1, <1>3 DEF Tables
<1> HIDE DEF U
<1>7. Swept(U, b + 1)
  <2>1. ASSUME NEW i \in 0..(b + 1) PROVE Closed(U[i], i) /\ Simple(U[i], i)
    <3>1. CASE i = b + 1
      BY <1>3, <1>6, <3>1
    <3>2. CASE i # b + 1
      <4>1. i \in 0..b
        BY <1>1, <3>2
      <4> QED BY <1>6, <4>1 DEF Swept
    <3> QED BY <3>1, <3>2
  <2>2. ASSUME NEW i \in 0..((b + 1) - 1) PROVE U[i + 1] = Through(U[i], i)
    <3>1. CASE i = b
      BY <1>1, <1>5, <1>6, <3>1
    <3>2. CASE i # b
      <4>1. i \in 0..(b - 1) /\ i + 1 \in 0..b /\ i \in 0..b
        BY <1>1, <3>2
      <4> QED BY <1>6, <4>1 DEF Swept
    <3> QED BY <3>1, <3>2
  <2> QED BY <2>1, <2>2 DEF Swept
<1>8. Frozen(U, b + 1)'
  <2>1. ASSUME NEW way \in Ways, NEW arc \in up, arc[1] < b + 1
        PROVE  cost'[way][arc] = U[arc[1]][Ends(arc, way)[1]][Ends(arc, way)[2]]
    <3>1. arc[1] \in Nat /\ arc[1] <= b /\ arc[1] \in 0..b
      BY <1>1, <2>1, NodesAreRanks DEF Upward
    <3>2. cost'[way][arc] = cost[way][arc]
      BY <3>1, CostsBelowStay
    <3>3. U[arc[1]] = T[arc[1]]
      BY <1>6, <3>1
    <3>4. CASE arc[1] = b
      BY <3>1, <3>2, <3>3, <3>4 DEF Agrees
    <3>5. CASE arc[1] < b
      BY <3>2, <3>3, <3>5 DEF Frozen
    <3> QED BY <1>1, <3>1, <3>4, <3>5
  <2>2. ASSUME NEW x \in Ranks, NEW y \in Ranks, x < b + 1, x < y, << x, y >> \notin up
        PROVE  U[x][x][y] = Infinite /\ U[x][y][x] = Infinite
    <3>1. x \in Nat /\ y \in Nat /\ x \in 0..b /\ x # y
      BY <1>1, <2>2, NodesAreRanks
    <3>2. U[x] = T[x]
      BY <1>6, <3>1
    <3>3. CASE x = b
      <4>1. << y, x >> \notin up /\ x <= y
        BY <1>1, <2>2, <3>1 DEF Upward
      <4> QED BY <2>2, <3>1, <3>2, <3>3, <4>1 DEF Agrees
    <3>4. CASE x < b
      BY <2>2, <3>2, <3>4 DEF Frozen
    <3> QED BY <1>1, <3>1, <3>3, <3>4
  <2> QED BY <1>1, <2>1, <2>2 DEF Frozen
<1>9. Direct(U[0])
  <2>1. U[0] = T[0]
    BY <1>1, <1>6
  <2> QED BY <2>1
<1>10. PICK V \in Tables : V = U
  BY <1>6
<1>11. /\ Swept(V, b + 1)' /\ Direct(V[0])'
  BY <1>1, <1>7, <1>9, <1>10, GraphStays DEF Swept
<1>12. Frozen(V, b + 1)' /\ Agrees(V[b + 1], b + 1)'
  BY <1>4, <1>6, <1>8, <1>10
<1>13. Tabled(V)'
  BY <1>1, <1>11, <1>12 DEF Tabled, Swept, Agrees, Frozen
<1> QED BY <1>10, <1>13 DEF U, e

LEMMA CustomizeCustoms == IInv /\ CustomInv /\ Customize => CustomInv'
<1> SUFFICES ASSUME IInv, CustomInv, Customize PROVE CustomInv'
  OBVIOUS
<1>1. /\ stage = "customize" /\ up \subseteq Upward /\ up' = up /\ arcs' = arcs /\ rank' = rank
      /\ altered' = altered /\ bottom \in Ranks /\ arcs \subseteq Arc /\ stage \in Filled
      /\ stage' \in {"customize", "refused"}
  BY CustomizeTurn DEF IInv, Filled
<1>2. IsPermutation(rank)' /\ ValidArcs' /\ (Admitted' <=> Admitted) /\ ArcsAreUp'
  BY <1>1, GraphStays DEF CustomInv, ArcsAreUp
<1>3. PICK b : b = bottom
  OBVIOUS
<1>4. CASE ~Admitted
  <2>1. \E a \in arcs' : a.weight > MaxArcWeight
    BY <1>1, <1>4, AdmittedMeans
  <2> QED BY <1>1, <1>2, <1>4, <2>1 DEF CustomInv, ValidGraphsArePacked
<1>5. CASE altered
  BY <1>1, <1>2, <1>5 DEF CustomInv, ValidGraphsArePacked
<1>6. CASE Admitted /\ ~altered
  <2>1. Bounded /\ Witnessed /\ \E T \in Tables : Tabled(T)
    BY <1>1, <1>6 DEF CustomInv
  <2>2. PICK T \in Tables : Tabled(T)
    BY <2>1
  <2>3. Swept(T, b) /\ Agrees(T[b], b) /\ Frozen(T, b) /\ Direct(T[0])
    BY <1>3, <2>2 DEF Tabled
  <2>4. T[b] \in Table /\ Simple(T[b], b)
    BY <1>1, <1>3, <2>3, NodesAreRanks DEF Tables, Swept
  <2>5. \A arc \in up, way \in Ways : Below(b, arc) =>
           ~Overflows(Legs(b, arc, way)[1], Legs(b, arc, way)[2])
    BY <1>1, <1>3, <2>3, <2>4, NoOverflow
  <2>6. stage' # "refused"
    BY <1>1, <1>3, <2>5 DEF Customize
  <2>7. /\ stage' = "customize" /\ bottom' = b + 1
    BY <1>3, <2>6, CustomizeTurn
  <2>8. PICK U \in Tables : Tabled(U)'
    BY <1>3, <2>3, <2>6, TurnTabled
  <2>9. Witnessed'
    BY <1>3, <2>1, <2>5, <2>6, TurnWitnessed
  <2>10. ASSUME NEW way \in Ways, NEW arc \in up
         PROVE  cost'[way][arc] = Infinite \/ cost'[way][arc] <= LongestWay
    <3>0. arc[1] \in Nat /\ b \in Nat
      BY <1>1, <1>3, NodesAreRanks DEF Upward
    <3>1. CASE arc[1] <= b
      <4>1. cost'[way][arc] = cost[way][arc]
        BY <1>3, <2>6, <3>1, CostsBelowStay
      <4> QED BY <2>1, <4>1 DEF Bounded
    <3>2. CASE b + 1 <= arc[1]
      <4>1. Agrees(U[b + 1], b + 1)' /\ U[b + 1] \in Table /\ Simple(U[b + 1], b + 1)'
        <5>1. b + 1 \in 0..NodeCount
          BY <1>1, <1>3, NodesAreRanks
        <5> QED BY <2>7, <2>8, <5>1, NodesAreRanks DEF Tabled, Agrees, Swept, Tables
      <4>2. cost'[way][arc] = U[b + 1][Ends(arc, way)[1]][Ends(arc, way)[2]]
        BY <1>1, <3>2, <4>1 DEF Agrees
      <4>3. Simple(U[b + 1], b + 1)
        BY <1>1, <4>1, GraphStays
      <4> QED BY <1>1, <4>1, <4>2, <4>3, AgreeingIsBounded
    <3> QED BY <3>0, <3>1, <3>2
  <2>11. Bounded'
    BY <1>1, <2>10 DEF Bounded
  <2> QED BY <1>1, <1>2, <2>7, <2>8, <2>9, <2>11 DEF CustomInv, ValidGraphsArePacked
<1> QED BY <1>4, <1>5, <1>6

(* Writing and loading validate what customization left.                   *)
LEMMA DecisionCustoms ==
  ASSUME IInv, CustomInv, stage \in {"customize", "packed"}, bottom = NodeCount,
         NEW on \in {"packed", "loaded"}, stage' = IF Valid THEN on ELSE "refused",
         UNCHANGED << arcs, rank, up, bottom, cost, witness, altered >>
  PROVE  CustomInv'
<1>1. /\ IsPermutation(rank)' /\ ValidArcs' /\ (Admitted' <=> Admitted)
      /\ IsPermutation(rank) /\ ValidArcs /\ arcs \subseteq Arc
      /\ cost \in [Ways -> [up -> Costs]] /\ stage \in Filled /\ ArcsAreUp'
      /\ stage' \in {"packed", "loaded", "refused"}
  BY GraphStays DEF CustomInv, IInv, PackTypeOK, Filled, ArcsAreUp
<1>2. ~altered /\ Admitted => Bounded /\ Witnessed /\ \E T \in Tables : Tabled(T)
  BY <1>1 DEF CustomInv
<1>3. Bounded' <=> Bounded
  BY DEF Bounded
<1>4. Witnessed' <=> Witnessed
  BY DEF Witnessed, IsOriginal, IsTriangle, Originals, Triangles, Via, Legs
<1>5. ~altered /\ Admitted => stage' # "refused"
  BY <1>1, <1>2, WitnessedIsValid
<1>6. ValidGraphsArePacked'
  BY <1>1, <1>5, AdmittedMeans DEF ValidGraphsArePacked
<1>7. \A T : Tabled(T)' <=> Tabled(T)
  BY TabledStays
<1>8. stage' = "loaded" => Valid'
  <2>1. Valid' <=> Valid
    BY ValidStays
  <2> QED BY <2>1
<1> QED BY <1>1, <1>2, <1>3, <1>4, <1>6, <1>7, <1>8 DEF CustomInv

LEMMA CustomStepKeeps == IInv /\ CustomInv /\ [PackNext]_pack_vars => CustomInv'
<1> SUFFICES ASSUME IInv, CustomInv, [PackNext]_pack_vars PROVE CustomInv'
  OBVIOUS
<1>1. CASE Build
  <2>1. /\ arcs' = arcs /\ rank' = rank /\ stage' \in {"fill", "refused"}
        /\ stage' = "fill" <=> IsPermutation(rank) /\ ValidArcs
        /\ stage' = "fill" => up' = { e \in Ranks \X Ranks :
                         e[1] < e[2] /\ \E way \in Ways : Originals(e, way) # {} }
    BY <1>1 DEF Build
  <2>2. ASSUME stage' = "fill" PROVE ArcsAreUp'
    <3> SUFFICES ASSUME NEW a \in arcs
                 PROVE  << rank[a.from], rank[a.to] >> \in up' \/ << rank[a.to], rank[a.from] >> \in up'
      BY <2>1 DEF ArcsAreUp
    <3> DEFINE x == rank[a.from]
               y == rank[a.to]
    <3>1. x \in Ranks /\ y \in Ranks /\ x # y
      BY <2>1, <2>2 DEF ValidArcs, IsPermutation
    <3>2. a \in Originals(<< x, y >>, "forward") /\ a \in Originals(<< y, x >>, "backward")
      BY DEF Originals, Ends
    <3>3. x < y \/ y < x
      BY <3>1, NodesAreRanks
    <3> HIDE DEF x, y
    <3>4. << x, y >> \in up' \/ << y, x >> \in up'
      BY <2>1, <2>2, <3>1, <3>2, <3>3 DEF Ways
    <3> QED BY <3>4 DEF x, y
  <2>3. "fill" \notin Filled /\ "refused" \notin Filled
    BY DEF Filled
  <2> QED BY <2>1, <2>2, <2>3, GraphStays DEF CustomInv, ValidGraphsArePacked
<1>2. CASE Eliminate
  <2>1. /\ arcs' = arcs /\ rank' = rank /\ stage = "fill" /\ stage' = stage /\ up \subseteq up'
        /\ stage \notin Filled
    BY <1>2 DEF Eliminate, Filled
  <2> QED BY <2>1, GraphStays DEF CustomInv, ValidGraphsArePacked, ArcsAreUp
<1>3. CASE TakeOriginals
  BY <1>3, TakeOriginalsCustoms
<1>4. CASE Customize
  BY <1>4, CustomizeCustoms
<1>5. CASE WritePack
  BY <1>5, DecisionCustoms DEF WritePack
<1>6. CASE Alter
  <2>1. /\ arcs' = arcs /\ rank' = rank /\ stage = "packed" /\ stage' = stage /\ altered' = TRUE
        /\ bottom' = bottom /\ up' = up
    BY <1>6 DEF Alter
  <2> QED BY <2>1, GraphStays DEF CustomInv, ValidGraphsArePacked, ArcsAreUp
<1>7. CASE LoadPack
  <2>1. bottom = NodeCount
    BY <1>7 DEF LoadPack, CustomInv
  <2> QED BY <1>7, <2>1, DecisionCustoms DEF LoadPack
<1>8. CASE UNCHANGED pack_vars
  <2>1. UNCHANGED << stage, arcs, rank, up, bottom, cost, witness, altered >>
    BY <1>8 DEF pack_vars
  <2>2. /\ Bounded' <=> Bounded
        /\ Witnessed' <=> Witnessed
        /\ ValidGraphsArePacked' <=> ValidGraphsArePacked
        /\ ArcsAreUp' <=> ArcsAreUp
    BY <2>1, GraphStays DEF Bounded, Witnessed, IsOriginal, IsTriangle, Originals, Triangles, Via, Legs,
       ValidGraphsArePacked, ArcsAreUp
  <2>3. (\A T : Tabled(T)' <=> Tabled(T)) /\ (Valid' <=> Valid)
    BY <2>1, TabledStays, ValidStays
  <2> QED BY <2>1, <2>2, <2>3, GraphStays DEF CustomInv
<1> QED
  BY <1>1, <1>2, <1>3, <1>4, <1>5, <1>6, <1>7, <1>8 DEF PackNext

LEMMA CustomInvariance == PackSpec => [](IInv /\ CustomInv)
<1>1. Init => CustomInv
  BY DEF Init, CustomInv, ValidGraphsArePacked, Filled
<1> QED BY <1>1, InitHolds, StepKeeps, CustomStepKeeps, PTL DEF PackSpec

(* The builder refuses no valid graph, in whatever order it ranks the      *)
(* nodes: no sum overflows its width, no cost is beyond what a pack may    *)
(* hold, and each witness stands when the whole is validated.              *)
THEOREM BuilderRefusesNoGraph == RouterSpec => []ValidGraphsArePacked
<1>1. CustomInv => ValidGraphsArePacked
  BY DEF CustomInv
<1> QED
  BY <1>1, RouterKeepsPack, CustomInvariance, PTL

-----------------------------------------------------------------------------
(* The entries to choose from, of one turn of Least                        *)
Entries(f, n) == { Add(f[a.from], a.weight) : a \in { b \in arcs : b.to = n } }

LeastTurn(source, k, f) ==
    [n \in Nodes |->
        LET ways == Entries(f, n)
        IN  IF n = source THEN 0
            ELSE IF k = 0 \/ ways = {} THEN Infinite
            ELSE CHOOSE c \in ways : \A d \in ways : c <= d]

LEMMA EntriesAreNumbers ==
  ASSUME arcs \subseteq Arc, ValidArcs, NEW f \in [Nodes -> Nat], NEW n
  PROVE  /\ Entries(f, n) \in SUBSET Nat
         /\ \A a \in arcs : a.to = n =>
              f[a.from] \in Nat /\ a.weight \in Nat /\ Add(f[a.from], a.weight) \in Entries(f, n)
<1>1. \A a \in arcs : f[a.from] \in Nat /\ a.weight \in Nat
  BY NodesAreRanks DEF ValidArcs, Arc
<1>2. \A l, r \in Nat : Add(l, r) \in Nat
  BY NodesAreRanks DEF Add
<1>3. \A a \in { b \in arcs : b.to = n } : Add(f[a.from], a.weight) \in Nat
  BY <1>1, <1>2
<1> QED BY <1>1, <1>3 DEF Entries

LEMMA LeastTurnIsLeast ==
  ASSUME arcs \subseteq Arc, ValidArcs, NEW source \in Nodes, NEW k \in Nat \ {0}, NEW f \in [Nodes -> Nat]
  PROVE  /\ LeastTurn(source, k, f) \in [Nodes -> Nat]
         /\ LeastTurn(source, k, f)[source] = 0
         /\ \A n \in Nodes : n # source =>
              /\ \/ LeastTurn(source, k, f)[n] = Infinite
                 \/ \E a \in arcs : a.to = n /\ LeastTurn(source, k, f)[n] = Add(f[a.from], a.weight)
              /\ \A a \in arcs : a.to = n => LeastTurn(source, k, f)[n] <= Add(f[a.from], a.weight)
<1> DEFINE t == LeastTurn(source, k, f)
<1>1. ASSUME NEW n \in Nodes, n # source
      PROVE  /\ t[n] \in Nat
             /\ \/ t[n] = Infinite
                \/ \E a \in arcs : a.to = n /\ t[n] = Add(f[a.from], a.weight)
             /\ \A a \in arcs : a.to = n => t[n] <= Add(f[a.from], a.weight)
  <2>1. PICK ways : ways = Entries(f, n)
    OBVIOUS
  <2>2. t[n] = IF ways = {} THEN Infinite ELSE CHOOSE c \in ways : \A d \in ways : c <= d
    BY <1>1, <2>1 DEF LeastTurn
  <2>3. /\ ways \in SUBSET Nat
        /\ \A a \in arcs : a.to = n => Add(f[a.from], a.weight) \in ways
    BY <2>1, EntriesAreNumbers
  <2>4. CASE ways = {}
    BY <2>2, <2>3, <2>4, NodesAreRanks
  <2>5. CASE ways # {}
    <3>1. \E c \in ways : \A d \in ways : c <= d
      BY <2>3, <2>5, LeastNumber
    <3>2. t[n] \in ways /\ \A d \in ways : t[n] <= d
      BY <2>2, <2>5, <3>1
    <3>3. \E a \in arcs : a.to = n /\ t[n] = Add(f[a.from], a.weight)
      BY <2>1, <3>2 DEF Entries
    <3> QED BY <2>3, <3>2, <3>3
  <2> QED BY <2>4, <2>5
<1>2. t[source] = 0
  BY DEF LeastTurn
<1>3. t = [n \in Nodes |-> t[n]]
  BY DEF LeastTurn
<1>4. \A n \in Nodes : t[n] \in Nat
  BY <1>1, <1>2
<1>5. t \in [Nodes -> Nat]
  <2> HIDE DEF t
  <2> QED BY <1>3, <1>4
<1> QED BY <1>1, <1>2, <1>5

LEMMA LeastTurnAtFirst ==
  ASSUME NEW source \in Nodes, NEW f
  PROVE  LeastTurn(source, 0, f) = [n \in Nodes |-> IF n = source THEN 0 ELSE Infinite]
BY DEF LeastTurn

(* Least is what its equation says.                                        *)
LEMMA LeastUnfolds ==
  ASSUME arcs \subseteq Arc, ValidArcs, NEW source \in Nodes
  PROVE  \A k \in 0..(NodeCount - 1) : Least(source)[k] = LeastTurn(source, k, Least(source)[k - 1])
<1> DEFINE I    == 0..(NodeCount - 1)
           V    == [Nodes -> Nat]
           step == [f \in [I -> V] |-> [k \in I |-> LeastTurn(source, k, f[k - 1])]]
           iter == CHOOSE it : it = [k \in I |-> LeastTurn(source, k, it[k - 1])]
<1>1. NodeCount - 1 \in Nat
  BY NodesAreRanks
<1>2. PICK v \in V : v = [n \in Nodes |-> IF n = source THEN 0 ELSE Infinite]
  BY NodesAreRanks
<1>3. ASSUME NEW f \in [I -> V], NEW k \in I
      PROVE  LeastTurn(source, k, f[k - 1]) \in V
  <2>1. CASE k = 0
    BY <1>2, <2>1, LeastTurnAtFirst
  <2>2. CASE k # 0
    <3>1. k \in Nat \ {0} /\ k - 1 \in I
      BY <1>1, <2>2
    <3>2. f[k - 1] \in V
      BY <3>1
    <3> QED BY <3>1, <3>2, LeastTurnIsLeast
  <2> QED BY <2>1, <2>2
<1>4. step \in [[I -> V] -> [I -> V]]
  BY <1>3
<1>5. PICK level \in [I -> 0..(NodeCount - 1)] : \A k \in I : level[k] = k
  <2>1. [k \in I |-> k] \in [I -> 0..(NodeCount - 1)]
    OBVIOUS
  <2> QED BY <2>1
<1>6. LocalTo(step, level, I, V)
  <2> SUFFICES ASSUME NEW k \in I, NEW f \in [I -> V], NEW g \in [I -> V],
                      \A j \in I : level[j] < level[k] => f[j] = g[j]
               PROVE  LeastTurn(source, k, f[k - 1]) = LeastTurn(source, k, g[k - 1])
    BY DEF LocalTo
  <2>1. CASE k = 0
    BY <2>1, LeastTurnAtFirst
  <2>2. CASE k # 0
    <3>1. k - 1 \in I /\ level[k - 1] < level[k]
      BY <1>1, <1>5, <2>2
    <3> QED BY <3>1
  <2> QED BY <2>1, <2>2
<1>7. PICK f \in [I -> V] : f = step[f]
  <2>1. Descends(step, level, NodeCount - 1, I, V)
    BY <1>1, <1>4, <1>5, <1>6 DEF Descends
  <2> HIDE DEF I, V, step
  <2> QED BY <1>2, <2>1, Recursion DEF FixedBy
<1>8. f = [k \in I |-> LeastTurn(source, k, f[k - 1])]
  BY <1>7
<1>9. iter = [k \in I |-> LeastTurn(source, k, iter[k - 1])]
  <2> HIDE DEF I, V, step
  <2> QED BY <1>8
<1>10. Least(source) = iter
  BY Zenon DEF Least, LeastTurn, Entries
<1> QED
  <2> HIDE DEF iter
  <2> QED BY <1>9, <1>10

Unfolds(L, source) ==
    /\ L[0] = [n \in Nodes |-> IF n = source THEN 0 ELSE Infinite]
    /\ \A k \in 1..(NodeCount - 1) : L[k] = LeastTurn(source, k, L[k - 1])
    /\ \A k \in 0..(NodeCount - 1) : L[k] \in [Nodes -> Nat]

LEMMA LeastUnfoldsAt ==
  ASSUME arcs \subseteq Arc, ValidArcs, NEW source \in Nodes
  PROVE  Unfolds(Least(source), source)
<1>1. PICK L : L = Least(source)
  OBVIOUS
<1>2. \A k \in 0..(NodeCount - 1) : L[k] = LeastTurn(source, k, L[k - 1])
  BY <1>1, LeastUnfolds
<1>3. NodeCount - 1 \in Nat
  BY NodesAreRanks
<1>4. L[0] = [n \in Nodes |-> IF n = source THEN 0 ELSE Infinite]
  BY <1>2, <1>3, LeastTurnAtFirst
<1> DEFINE A == { k \in Nat : L[k] \in [Nodes -> Nat] }
<1>5. ASSUME NEW k \in 0..(NodeCount - 1), 0..(k - 1) \subseteq A PROVE k \in A
  <2>1. CASE k = 0
    BY <1>4, <2>1, NodesAreRanks
  <2>2. CASE k # 0
    <3>1. k \in Nat \ {0} /\ k - 1 \in 0..(k - 1)
      BY <2>2
    <3>2. k - 1 \in A
      BY <1>5, <3>1
    <3>3. LeastTurn(source, k, L[k - 1]) \in [Nodes -> Nat]
      BY <3>1, <3>2, LeastTurnIsLeast
    <3> QED BY <1>2, <3>1, <3>3
  <2> QED BY <2>1, <2>2
<1>6. 0..(NodeCount - 1) \subseteq A
  <2>1. A \in SUBSET Nat
    OBVIOUS
  <2> HIDE DEF A
  <2> QED BY <1>3, <1>5, <2>1, Induction
<1>7. \A k \in 1..(NodeCount - 1) : L[k] = LeastTurn(source, k, L[k - 1])
  BY <1>2
<1>8. \A k \in 0..(NodeCount - 1) : L[k] \in [Nodes -> Nat]
  BY <1>6
<1> QED BY <1>1, <1>4, <1>7, <1>8 DEF Unfolds

LEMMA AddGrows ==
  ASSUME NEW sn \in Costs, NEW sf \in Costs, NEW fn \in Costs, NEW l \in Nat, NEW w \in Nat,
         sn <= Add(sf, fn), sf <= l, fn <= w
  PROVE  sn <= Add(l, w)
BY NodesAreRanks DEF Costs, Add

(* A way of k arcs costs at most k times what an arc may.                  *)
LEMMA LeastIsBounded ==
  ASSUME arcs \subseteq Arc, ValidArcs, Admitted, NEW source \in Nodes, NEW target \in Nodes
  PROVE  /\ Distance(source, target) \in Costs
         /\ Distance(source, target) = Infinite \/ Distance(source, target) <= LongestWay
         /\ Distance(source, source) = 0
<1>1. PICK L : L = Least(source) /\ Unfolds(L, source)
  BY LeastUnfoldsAt
<1>2. NodeCount - 1 \in Nat /\ MaxArcWeight \in Nat
  BY NodesAreRanks
<1> DEFINE P(k) == \A n \in Nodes : L[k][n] = Infinite \/ L[k][n] <= k * MaxArcWeight
           A == { k \in Nat : P(k) }
<1>3. ASSUME NEW k \in 0..(NodeCount - 1), 0..(k - 1) \subseteq A PROVE k \in A
  <2> SUFFICES ASSUME NEW n \in Nodes PROVE L[k][n] = Infinite \/ L[k][n] <= k * MaxArcWeight
    OBVIOUS
  <2>1. CASE k = 0
    BY <1>1, <1>2, <2>1 DEF Unfolds
  <2>2. CASE k # 0
    <3>1. /\ k \in Nat \ {0} /\ k - 1 \in 0..(k - 1)
          /\ k - 1 \in 0..(NodeCount - 1) /\ k \in 1..(NodeCount - 1)
      BY <1>2, <2>2
    <3> k - 1 \in A
      <4> HIDE DEF A
      <4> QED BY <1>3, <3>1
    <3> P(k - 1)
      OBVIOUS
    <3>2. L[k] = LeastTurn(source, k, L[k - 1]) /\ L[k - 1] \in [Nodes -> Nat]
      BY <1>1, <3>1 DEF Unfolds
    <3>3. k * MaxArcWeight \in Nat /\ k * MaxArcWeight = (k - 1) * MaxArcWeight + MaxArcWeight
      BY <1>2, <3>1
    <3>4. CASE n = source
      BY <3>1, <3>2, <3>3, <3>4, LeastTurnIsLeast
    <3>5. CASE n # source
      <4>1. \/ L[k][n] = Infinite
            \/ \E a \in arcs : a.to = n /\ L[k][n] = Add(L[k - 1][a.from], a.weight)
        BY <3>1, <3>2, <3>5, LeastTurnIsLeast
      <4>2. ASSUME NEW a \in arcs, L[k][n] = Add(L[k - 1][a.from], a.weight)
            PROVE  L[k][n] = Infinite \/ L[k][n] <= k * MaxArcWeight
        <5>1. a.from \in Nodes /\ a.weight \in Nat /\ a.weight <= MaxArcWeight
          BY DEF ValidArcs, Arc, Admitted
        <5>2. L[k - 1][a.from] \in Nat
          BY <3>2, <5>1
        <5>3. L[k - 1][a.from] = Infinite \/ L[k - 1][a.from] <= (k - 1) * MaxArcWeight
          BY <3>1, <5>1
        <5>4. (k - 1) * MaxArcWeight \in Nat
          BY <1>2, <3>1
        <5> QED BY <1>2, <3>3, <4>2, <5>1, <5>2, <5>3, <5>4 DEF Add
      <4> QED BY <4>1, <4>2
    <3> QED BY <3>4, <3>5
  <2> QED BY <2>1, <2>2
<1>4. NodeCount - 1 \in A
  <2>1. A \in SUBSET Nat /\ NodeCount - 1 \in 0..(NodeCount - 1)
    BY <1>2
  <2> HIDE DEF A
  <2>2. 0..(NodeCount - 1) \subseteq A
    BY <1>2, <1>3, <2>1, Induction
  <2> QED BY <2>1, <2>2
<1>5. Distance(source, target) = L[NodeCount - 1][target] /\ Distance(source, source) = L[NodeCount - 1][source]
  BY <1>1 DEF Distance
<1>6. L[NodeCount - 1][target] \in Nat
  BY <1>1, <1>2 DEF Unfolds
<1>7. L[NodeCount - 1][target] = Infinite \/ L[NodeCount - 1][target] <= LongestWay
  BY <1>4 DEF LongestWay
<1>8. L[NodeCount - 1][source] = 0
  <2>1. CASE NodeCount - 1 = 0
    BY <1>1, <2>1 DEF Unfolds
  <2>2. CASE NodeCount - 1 # 0
    <3>1. PICK k \in Nat \ {0} : k = NodeCount - 1
      BY <1>2, <2>2
    <3>2. k \in 1..(NodeCount - 1) /\ k - 1 \in 0..(NodeCount - 1)
      BY <1>2, <3>1, NodesAreRanks
    <3>3. L[k] = LeastTurn(source, k, L[k - 1]) /\ L[k - 1] \in [Nodes -> Nat]
      BY <1>1, <3>1, <3>2 DEF Unfolds
    <3> QED BY <3>1, <3>2, <3>3, LeastTurnIsLeast
  <2> QED BY <2>1, <2>2
<1>9. Infinite \in Nat /\ LongestWay \in Nat /\ LongestWay + LongestWay < Infinite
  BY NodesAreRanks, LongestWayFits
<1>10. L[NodeCount - 1][target] \in Costs
  BY <1>6, <1>7, <1>9 DEF Costs
<1> QED BY <1>5, <1>7, <1>8, <1>10

(* No way is cheaper than a closed table says that knows every arc.        *)
LEMMA DistanceAtLeast ==
  ASSUME arcs \subseteq Arc, ValidArcs, IsPermutation(rank), NEW source \in Nodes,
         NEW target \in Nodes, NEW d \in Table, Closed(d, NodeCount), Direct(d)
  PROVE  d[rank[source]][rank[target]] <= Distance(source, target)
<1>1. PICK L : L = Least(source) /\ Unfolds(L, source)
  BY LeastUnfoldsAt
<1>2. NodeCount - 1 \in Nat
  BY NodesAreRanks
<1>3. \A n \in Nodes : rank[n] \in Ranks
  BY DEF IsPermutation
<1>4. \A x, y \in Ranks : d[x][y] \in Nat /\ d[x][y] <= Infinite
  BY NodesAreRanks DEF Table, Costs
<1>5. \A x, y, v \in Ranks : d[x][y] <= Add(d[x][v], d[v][y])
  <2>1. Ranks = 0..(NodeCount - 1)
    BY NodesAreRanks
  <2> QED BY <2>1 DEF Closed
<1>6. \A x \in Ranks : d[x][x] = 0
  BY DEF Closed
<1> DEFINE P(k) == \A n \in Nodes : d[rank[source]][rank[n]] <= L[k][n]
           A == { k \in Nat : P(k) }
<1>7. ASSUME NEW k \in 0..(NodeCount - 1), 0..(k - 1) \subseteq A PROVE k \in A
  <2> SUFFICES ASSUME NEW n \in Nodes PROVE d[rank[source]][rank[n]] <= L[k][n]
    OBVIOUS
  <2>1. CASE k = 0
    BY <1>1, <1>3, <1>4, <1>6, <2>1 DEF Unfolds
  <2>2. CASE k # 0
    <3>1. /\ k \in Nat \ {0} /\ k - 1 \in 0..(k - 1)
          /\ k - 1 \in 0..(NodeCount - 1) /\ k \in 1..(NodeCount - 1)
      BY <1>2, <2>2
    <3> k - 1 \in A
      <4> HIDE DEF A
      <4> QED BY <1>7, <3>1
    <3> P(k - 1)
      OBVIOUS
    <3>2. L[k] = LeastTurn(source, k, L[k - 1]) /\ L[k - 1] \in [Nodes -> Nat]
      BY <1>1, <3>1 DEF Unfolds
    <3>3. CASE n = source
      BY <1>3, <1>6, <3>1, <3>2, <3>3, LeastTurnIsLeast
    <3>4. CASE n # source
      <4>1. \/ L[k][n] = Infinite
            \/ \E a \in arcs : a.to = n /\ L[k][n] = Add(L[k - 1][a.from], a.weight)
        BY <3>1, <3>2, <3>4, LeastTurnIsLeast
      <4>2. ASSUME NEW a \in arcs, a.to = n, L[k][n] = Add(L[k - 1][a.from], a.weight)
            PROVE  d[rank[source]][rank[n]] <= L[k][n]
        <5>1. a.from \in Nodes /\ a.weight \in Nat
          BY DEF ValidArcs, Arc
        <5>2. L[k - 1][a.from] \in Nat
          BY <3>2, <5>1
        <5>3. d[rank[source]][rank[a.from]] <= L[k - 1][a.from]
          BY <3>1, <5>1
        <5>4. d[rank[a.from]][rank[n]] <= a.weight
          BY <4>2 DEF Direct
        <5>5. d[rank[source]][rank[n]] <= Add(d[rank[source]][rank[a.from]], d[rank[a.from]][rank[n]])
          BY <1>3, <1>5, <5>1
        <5>6. /\ d[rank[source]][rank[n]] \in Costs /\ d[rank[source]][rank[a.from]] \in Costs
              /\ d[rank[a.from]][rank[n]] \in Costs
          BY <1>3, <5>1 DEF Table
        <5> QED BY <4>2, <5>1, <5>2, <5>3, <5>4, <5>5, <5>6, AddGrows
      <4>3. d[rank[source]][rank[n]] <= Infinite
        BY <1>3, <1>4
      <4> QED BY <4>1, <4>2, <4>3
    <3> QED BY <3>3, <3>4
  <2> QED BY <2>1, <2>2
<1>8. NodeCount - 1 \in A
  <2>1. A \in SUBSET Nat /\ NodeCount - 1 \in 0..(NodeCount - 1)
    BY <1>2
  <2> HIDE DEF A
  <2>2. 0..(NodeCount - 1) \subseteq A
    BY <1>2, <1>7, <2>1, Induction
  <2> QED BY <2>1, <2>2
<1> QED BY <1>1, <1>8 DEF Distance

(* Least is a potential, so that a way of a table costs no less.           *)
LEMMA DistanceAtMost ==
  ASSUME arcs \subseteq Arc, ValidArcs, IsPermutation(rank), NEW source \in Nodes,
         NEW target \in Nodes, source # target, NEW d \in Table, Simple(d, NodeCount),
         d[rank[source]][rank[target]] # Infinite
  PROVE  Distance(source, target) <= d[rank[source]][rank[target]]
<1>1. PICK L : L = Least(source) /\ Unfolds(L, source)
  BY LeastUnfoldsAt
<1>2. NodeCount - 1 \in Nat /\ NodeCount \in Nat
  BY NodesAreRanks
<1>3. /\ \A n \in Nodes : rank[n] \in Ranks
      /\ \A n, m \in Nodes : rank[n] = rank[m] => n = m
  BY DEF IsPermutation
<1> DEFINE node(r) == CHOOSE n \in Nodes : rank[n] = r
           M == [k \in 0..(NodeCount - 1) |-> [r \in Ranks |->
                    IF \E n \in Nodes : rank[n] = r THEN L[k][node(r)] ELSE 0]]
<1>4. \A n \in Nodes : node(rank[n]) = n
  BY <1>3
<1>5. \A k \in 0..(NodeCount - 1), n \in Nodes : M[k][rank[n]] = L[k][n]
  <2> SUFFICES ASSUME NEW k \in 0..(NodeCount - 1), NEW n \in Nodes PROVE M[k][rank[n]] = L[k][n]
    OBVIOUS
  <2> HIDE DEF node
  <2> QED BY <1>3, <1>4
<1>6. M \in [0..(NodeCount - 1) -> [Ranks -> Nat]]
  <2>1. ASSUME NEW k \in 0..(NodeCount - 1), NEW r \in Ranks, \E n \in Nodes : rank[n] = r
        PROVE  L[k][node(r)] \in Nat
    <3>1. node(r) \in Nodes
      BY <2>1
    <3>2. L[k] \in [Nodes -> Nat]
      BY <1>1 DEF Unfolds
    <3> HIDE DEF node
    <3> QED BY <3>1, <3>2
  <2> HIDE DEF node
  <2> QED BY <2>1
<1> HIDE DEF M, node
<1>7. ASSUME NEW k \in 0..(NodeCount - 2), NEW a \in arcs, M[k][rank[a.from]] + a.weight < Infinite
      PROVE  M[k + 1][rank[a.to]] <= M[k][rank[a.from]] + a.weight
  <2>1. a.from \in Nodes /\ a.to \in Nodes /\ a.weight \in Nat
    BY DEF ValidArcs, Arc
  <2>2. PICK j \in Nat \ {0} : j = k + 1 /\ j - 1 = k
    OBVIOUS
  <2>3. k \in 0..(NodeCount - 1) /\ j \in 0..(NodeCount - 1) /\ j \in 1..(NodeCount - 1)
    BY <1>2, <2>2
  <2>4. L[j] = LeastTurn(source, j, L[j - 1]) /\ L[j - 1] \in [Nodes -> Nat]
    BY <1>1, <2>2, <2>3 DEF Unfolds
  <2>5. L[j][a.to] <= Add(L[k][a.from], a.weight)
    <3>1. CASE a.to = source
      <4>1. L[j][a.to] = 0
        BY <2>4, <3>1, LeastTurnIsLeast
      <4>2. L[k][a.from] \in Nat
        BY <2>1, <2>2, <2>4
      <4> QED BY <2>1, <4>1, <4>2, NodesAreRanks DEF Add
    <3>2. CASE a.to # source
      BY <2>1, <2>2, <2>4, <3>2, LeastTurnIsLeast
    <3> QED BY <3>1, <3>2
  <2>6. M[k][rank[a.from]] = L[k][a.from] /\ M[k + 1][rank[a.to]] = L[j][a.to]
    BY <1>5, <2>1, <2>2, <2>3
  <2>7. L[k][a.from] \in Nat /\ L[k][a.from] + a.weight < Infinite
    BY <1>7, <2>1, <2>2, <2>4, <2>6
  <2>8. Add(L[k][a.from], a.weight) = L[k][a.from] + a.weight
    BY <2>1, <2>7, NodesAreRanks DEF Add
  <2> QED BY <2>5, <2>6, <2>8
<1>8. M \in Potentials
  BY <1>6, <1>7 DEF Potentials
<1>9. ASSUME NEW k \in 0..(NodeCount - 1) PROVE M[k][rank[source]] = 0
  <2>1. CASE k = 0
    BY <1>1, <1>5, <2>1 DEF Unfolds
  <2>2. CASE k # 0
    <3>1. k \in Nat \ {0} /\ k \in 1..(NodeCount - 1) /\ k - 1 \in 0..(NodeCount - 1)
      BY <1>2, <2>2
    <3>2. L[k] = LeastTurn(source, k, L[k - 1]) /\ L[k - 1] \in [Nodes -> Nat]
      BY <1>1, <3>1 DEF Unfolds
    <3> QED BY <1>5, <3>1, <3>2, LeastTurnIsLeast
  <2> QED BY <2>1, <2>2
<1> DEFINE x == rank[source]
           y == rank[target]
<1>10. x \in Ranks /\ y \in Ranks /\ x # y /\ d[x][y] \in Nat /\ d[x][y] < Infinite
  <2>1. x \in Ranks /\ y \in Ranks /\ x # y
    BY <1>3
  <2>2. d[x][y] \in Costs /\ d[x][y] # Infinite
    BY <2>1 DEF Table
  <2> HIDE DEF x, y
  <2> QED BY <2>1, <2>2, NodesAreRanks DEF Costs
<1> HIDE DEF x, y
<1>11. PICK S \in SUBSET (0..(NodeCount - 1)) : Between(d, x, y, S)
  BY <1>10 DEF Simple, x, y
<1>12. Cardinality(S) \in Nat /\ Cardinality(S) + 1 <= NodeCount - 1
  BY <1>10, <1>11, BetweenIsShort
<1>13. PICK k \in 0..(NodeCount - 1) :
          k + (Cardinality(S) + 1) <= NodeCount - 1 /\ k + (Cardinality(S) + 1) = NodeCount - 1
  <2>1. (NodeCount - 1) - (Cardinality(S) + 1) \in 0..(NodeCount - 1)
    BY <1>2, <1>12
  <2> QED BY <1>2, <1>12, <2>1
<1>14. Spanned(d[x][y], x, y, Cardinality(S) + 1)
  BY <1>11 DEF Between
<1>15. M[k][x] = 0 /\ M[k][x] + d[x][y] < Infinite /\ M[k][x] + d[x][y] = d[x][y]
  BY <1>9, <1>10 DEF x
<1>16. M[NodeCount - 1][y] <= d[x][y]
  <2>1. k \in Nat
    OBVIOUS
  <2>2. M[k + (Cardinality(S) + 1)][y] <= M[k][x] + d[x][y]
    BY <1>8, <1>13, <1>14, <1>15, <2>1 DEF Spanned
  <2> QED BY <1>13, <1>15, <2>2
<1>17. M[NodeCount - 1][y] = L[NodeCount - 1][target]
  BY <1>2, <1>5 DEF y
<1> QED BY <1>1, <1>16, <1>17 DEF Distance, x, y

(* So the last of the tables holds the distances.                          *)
LEMMA DistanceIsTable ==
  ASSUME arcs \subseteq Arc, ValidArcs, Admitted, IsPermutation(rank), NEW source \in Nodes,
         NEW target \in Nodes, NEW d \in Table, Closed(d, NodeCount), Simple(d, NodeCount), Direct(d)
  PROVE  Distance(source, target) = d[rank[source]][rank[target]]
<1>1. /\ Distance(source, target) \in Costs
      /\ Distance(source, source) = 0
  BY LeastIsBounded
<1>2. d[rank[source]][rank[target]] \in Costs
  BY DEF IsPermutation, Table
<1>3. d[rank[source]][rank[target]] <= Distance(source, target)
  BY DistanceAtLeast
<1>4. CASE source = target
  BY <1>1, <1>4 DEF Closed, IsPermutation
<1>5. CASE source # target /\ d[rank[source]][rank[target]] # Infinite
  BY <1>1, <1>2, <1>3, <1>5, DistanceAtMost, NodesAreRanks DEF Costs
<1>6. CASE d[rank[source]][rank[target]] = Infinite
  BY <1>1, <1>3, <1>6, NodesAreRanks DEF Costs
<1> QED BY <1>4, <1>5, <1>6

-----------------------------------------------------------------------------
(* The tables of one way: turned around, they are those of the other.      *)
Turns(T) == T \in Tables /\ \A i \in 0..(NodeCount - 1) : T[i + 1] = Through(T[i], i)

Laid(T, way) ==
    /\ Turns(T)
    /\ \A i \in 0..NodeCount : \A x, y \in Ranks :
         T[i][x][x] = 0 /\ (T[i][x][y] = Infinite \/ T[i][x][y] <= LongestWay)
    /\ \A b, h \in Ranks : b < h =>
         T[b][b][h] = IF << b, h >> \in up THEN cost[way][<< b, h >>] ELSE Infinite

Turned(T) == [i \in 0..NodeCount |-> [x \in Ranks |-> [y \in Ranks |-> T[i][y][x]]]]

Along(T, way) == IF way = "forward" THEN T ELSE Turned(T)

Complete(T) ==
    /\ T \in Tables /\ Swept(T, NodeCount) /\ Frozen(T, NodeCount) /\ Direct(T[0])

LEMMA TurnsAt ==
  ASSUME NEW T, Turns(T), NEW i \in Ranks, NEW x \in Ranks, NEW y \in Ranks
  PROVE  /\ T[i + 1][x][y] = Lesser(T[i][x][y], Add(T[i][x][i], T[i][i][y]))
         /\ T[i + 1][x][y] <= T[i][x][y] /\ T[i + 1][x][y] <= Add(T[i][x][i], T[i][i][y])
         /\ \/ T[i + 1][x][y] = T[i][x][y]
            \/ T[i + 1][x][y] = Add(T[i][x][i], T[i][i][y])
         /\ T[i + 1][x][y] \in Costs /\ T[i][x][y] \in Costs
         /\ T[i][x][i] \in Costs /\ T[i][i][y] \in Costs
<1>1. i \in 0..(NodeCount - 1) /\ i \in 0..NodeCount /\ i + 1 \in 0..NodeCount
  BY NodesAreRanks
<1>2. T[i] \in Table /\ T[i + 1] \in Table /\ T[i + 1] = Through(T[i], i)
  BY <1>1 DEF Turns, Tables
<1>3. T[i + 1][x][y] = Lesser(T[i][x][y], Add(T[i][x][i], T[i][i][y]))
  BY <1>2, ThroughIsTable
<1>4. /\ T[i + 1][x][y] \in Costs /\ T[i][x][y] \in Costs
      /\ T[i][x][i] \in Costs /\ T[i][i][y] \in Costs
  BY <1>2 DEF Table
<1>5. Add(T[i][x][i], T[i][i][y]) \in Nat
  BY <1>4, CostsAdd
<1>6. PICK l, r \in Nat : l = T[i][x][y] /\ r = Add(T[i][x][i], T[i][i][y])
  BY <1>4, <1>5 DEF Costs
<1>7. Lesser(l, r) <= l /\ Lesser(l, r) <= r /\ (Lesser(l, r) = l \/ Lesser(l, r) = r)
  BY <1>6 DEF Lesser
<1> QED BY <1>3, <1>4, <1>6, <1>7

(* From table to table costs only fall.                                    *)
LEMMA TablesFall ==
  ASSUME NEW T, Turns(T), NEW j \in 0..NodeCount, NEW i \in 0..j, NEW x \in Ranks, NEW y \in Ranks
  PROVE  T[j][x][y] <= T[i][x][y] /\ T[j][x][y] \in Costs /\ T[i][x][y] \in Costs
<1>1. NodeCount \in Nat
  BY NodesAreRanks
<1>2. \A k \in 0..NodeCount : T[k][x][y] \in Costs /\ T[k][x][y] \in Nat
  BY DEF Turns, Tables, Table, Costs
<1> DEFINE A == { k \in Nat : i <= k => T[k][x][y] <= T[i][x][y] }
<1>3. ASSUME NEW k \in 0..NodeCount, 0..(k - 1) \subseteq A PROVE k \in A
  <2>1. CASE k <= i
    <3>1. i <= k => k = i
      BY <2>1
    <3> QED BY <1>2, <3>1
  <2>2. CASE ~(k <= i)
    <3>1. /\ k - 1 \in 0..(k - 1) /\ i <= k - 1 /\ (k - 1) + 1 = k /\ k - 1 \in Ranks
          /\ k - 1 \in 0..NodeCount
      BY <1>1, <2>2, NodesAreRanks
    <3>2. k - 1 \in A
      <4> HIDE DEF A
      <4> QED BY <1>3, <3>1
    <3>3. T[k - 1][x][y] <= T[i][x][y]
      BY <3>1, <3>2
    <3>4. T[(k - 1) + 1][x][y] <= T[k - 1][x][y]
      BY <3>1, TurnsAt
    <3>5. T[k][x][y] <= T[k - 1][x][y]
      BY <3>1, <3>4
    <3>6. T[k][x][y] \in Nat /\ T[k - 1][x][y] \in Nat /\ T[i][x][y] \in Nat
      BY <1>1, <1>2, <3>1
    <3>7. T[k][x][y] <= T[i][x][y]
      BY <3>3, <3>5, <3>6
    <3> QED BY <3>7
  <2> QED BY <2>1, <2>2
<1>4. j \in A
  <2>1. A \in SUBSET Nat /\ j \in 0..NodeCount
    OBVIOUS
  <2> HIDE DEF A
  <2>2. 0..NodeCount \subseteq A
    BY <1>1, <1>3, <2>1, Induction
  <2> QED BY <2>1, <2>2
<1> QED BY <1>1, <1>2, <1>4

(* Where a cost fell last                                                  *)
LEMMA FellAt ==
  ASSUME NEW T, Turns(T), NEW j \in 0..NodeCount, NEW m \in 0..j, NEW x \in Ranks, NEW y \in Ranks
  PROVE  \/ T[j][x][y] = T[m][x][y]
         \/ \E b \in m..(j - 1) : T[j][x][y] = Add(T[b][x][b], T[b][b][y])
<1>1. NodeCount \in Nat
  BY NodesAreRanks
<1> DEFINE W == { k \in m..j : T[k][x][y] = T[j][x][y] }
<1>2. PICK w \in W : \A v \in W : w <= v
  <2>1. W \in SUBSET Nat /\ j \in W
    BY <1>1
  <2> HIDE DEF W
  <2> QED BY <2>1, LeastNumber
<1>3. CASE w = m
  BY <1>2, <1>3
<1>4. CASE w # m
  <2>1. /\ w - 1 \in m..(j - 1) /\ w - 1 \in m..j /\ (w - 1) + 1 = w /\ w - 1 \in Ranks
        /\ ~(w <= w - 1)
    BY <1>1, <1>2, <1>4, NodesAreRanks
  <2>2. T[w][x][y] = T[j][x][y] /\ T[w - 1][x][y] # T[j][x][y]
    BY <1>2, <2>1
  <2>3. PICK b \in Ranks : b = w - 1
    BY <2>1
  <2>4. T[b + 1][x][y] = T[b][x][y] \/ T[b + 1][x][y] = Add(T[b][x][b], T[b][b][y])
    BY TurnsAt
  <2> QED BY <2>1, <2>2, <2>3, <2>4
<1> QED BY <1>3, <1>4

(* What a search from s can tell of a rank above it                        *)
LEMMA ReachObeys ==
  ASSUME NEW T, NEW way, Laid(T, way), NEW s \in Ranks, NEW b \in Ranks, NEW h \in Ranks,
         b < h, << b, h >> \in up
  PROVE  /\ T[h][s][h] <= Add(T[b][s][b], cost[way][<< b, h >>])
         /\ T[h][s][h] \in Costs /\ T[b][s][b] \in Costs /\ cost[way][<< b, h >>] \in Costs
<1>1. b + 1 \in 0..h /\ h \in 0..NodeCount
  BY NodesAreRanks
<1>2. Turns(T) /\ T[b][b][h] = cost[way][<< b, h >>]
  BY DEF Laid
<1>3. T[h][s][h] <= T[b + 1][s][h] /\ T[h][s][h] \in Costs /\ T[b + 1][s][h] \in Costs
  BY <1>1, <1>2, TablesFall
<1>4. /\ T[b + 1][s][h] <= Add(T[b][s][b], T[b][b][h])
      /\ T[b][s][b] \in Costs /\ T[b][b][h] \in Costs
  BY <1>2, TurnsAt
<1>5. Add(T[b][s][b], T[b][b][h]) \in Nat
  BY <1>4, CostsAdd
<1> QED BY <1>2, <1>3, <1>4, <1>5 DEF Costs

LEMMA ReachIsTight ==
  ASSUME NEW T, NEW way, Laid(T, way), NEW s \in Ranks, NEW h \in Ranks, s < h,
         T[h][s][h] # Infinite
  PROVE  \E b \in Ranks :
           /\ s <= b /\ b < h /\ << b, h >> \in up
           /\ T[h][s][h] = Add(T[b][s][b], cost[way][<< b, h >>])
<1>1. s \in 0..h /\ h \in 0..NodeCount /\ s \in 0..NodeCount
  BY NodesAreRanks
<1>2. Turns(T)
  BY DEF Laid
<1>3. CASE T[h][s][h] = T[s][s][h]
  <2>1. << s, h >> \in up /\ T[s][s][h] = cost[way][<< s, h >>] /\ T[s][s][s] = 0
    BY <1>1, <1>3 DEF Laid
  <2>2. T[s][s][h] \in Costs
    BY <1>1, <1>2, TablesFall
  <2>3. Add(0, T[s][s][h]) = T[s][s][h]
    BY <1>3, <2>2, NodesAreRanks DEF Add, Costs
  <2> QED BY <1>3, <2>1, <2>3, NodesAreRanks
<1>4. CASE \E b \in s..(h - 1) : T[h][s][h] = Add(T[b][s][b], T[b][b][h])
  <2>1. PICK b \in s..(h - 1) : T[h][s][h] = Add(T[b][s][b], T[b][b][h])
    BY <1>4
  <2>2. b \in Ranks /\ s <= b /\ b < h
    BY NodesAreRanks
  <2>3. T[b][b][h] # Infinite
    BY <2>1 DEF Add
  <2>4. << b, h >> \in up /\ T[b][b][h] = cost[way][<< b, h >>]
    BY <2>2, <2>3 DEF Laid
  <2> QED BY <2>1, <2>2, <2>4
<1> QED BY <1>1, <1>2, <1>3, <1>4, FellAt

(* Two searches meet at what the last table says.                          *)
LEMMA MeetingsAreWays ==
  ASSUME NEW T, Turns(T), NEW s \in Ranks, NEW t \in Ranks, NEW r \in Ranks
  PROVE  T[NodeCount][s][t] <= Add(T[r][s][r], T[r][r][t])
<1>1. r + 1 \in 0..NodeCount /\ NodeCount \in 0..NodeCount
  BY NodesAreRanks
<1>2. T[NodeCount][s][t] <= T[r + 1][s][t] /\ T[NodeCount][s][t] \in Costs /\ T[r + 1][s][t] \in Costs
  BY <1>1, TablesFall
<1>3. /\ T[r + 1][s][t] <= Add(T[r][s][r], T[r][r][t])
      /\ T[r][s][r] \in Costs /\ T[r][r][t] \in Costs
  BY TurnsAt
<1>4. Add(T[r][s][r], T[r][r][t]) \in Nat
  BY <1>3, CostsAdd
<1> QED BY <1>2, <1>3, <1>4 DEF Costs

LEMMA WaysAreMeetings ==
  ASSUME NEW T, Turns(T), NEW s \in Ranks, NEW t \in Ranks,
         \A i \in 0..NodeCount, x \in Ranks : T[i][x][x] = 0
  PROVE  \E r \in Ranks :
            s <= r /\ t <= r /\ T[NodeCount][s][t] = Add(T[r][s][r], T[r][r][t])
<1>1. PICK m \in {s, t} : s <= m /\ t <= m
  BY NodesAreRanks
<1>2. m \in Ranks /\ m \in 0..NodeCount /\ NodeCount \in 0..NodeCount
  BY NodesAreRanks
<1>3. CASE T[NodeCount][s][t] = T[m][s][t]
  <2>1. T[m][s][t] \in Costs /\ T[m][m][m] = 0
    BY <1>2, TablesFall
  <2>2. Add(0, T[m][s][t]) = T[m][s][t] /\ Add(T[m][s][t], 0) = T[m][s][t]
    BY <2>1, NodesAreRanks DEF Add, Costs
  <2> QED BY <1>1, <1>2, <1>3, <2>1, <2>2
<1>4. CASE \E b \in m..(NodeCount - 1) : T[NodeCount][s][t] = Add(T[b][s][b], T[b][b][t])
  <2>1. PICK b \in m..(NodeCount - 1) : T[NodeCount][s][t] = Add(T[b][s][b], T[b][b][t])
    BY <1>4
  <2>2. b \in Ranks /\ s <= b /\ t <= b
    BY <1>1, <1>2, NodesAreRanks
  <2> QED BY <2>1, <2>2
<1> QED BY <1>2, <1>3, <1>4, FellAt

LEMMA CompleteIsLaid ==
  ASSUME up \subseteq Upward, NEW T, Complete(T), NEW way \in Ways
  PROVE  Laid(Along(T, way), way)
<1>1. /\ T \in Tables /\ \A i \in 0..NodeCount : T[i] \in Table
      /\ \A i \in 0..NodeCount : Closed(T[i], i) /\ Simple(T[i], i)
      /\ \A i \in 0..(NodeCount - 1) : T[i + 1] = Through(T[i], i)
  BY DEF Complete, Swept, Tables
<1>2. ASSUME NEW i \in 0..NodeCount, NEW x \in Ranks, NEW y \in Ranks
      PROVE  /\ T[i][x][x] = 0 /\ (T[i][x][y] = Infinite \/ T[i][x][y] <= LongestWay)
             /\ T[i][x][y] \in Costs
  <2>1. T[i][x][x] = 0
    BY <1>1 DEF Closed
  <2>2. CASE x = y
    BY <2>1, <2>2, LongestWayFits, NodesAreRanks DEF Costs
  <2>3. CASE x # y
    BY <1>1, <2>1, <2>3, SimpleIsBounded DEF Table
  <2> QED BY <2>1, <2>2, <2>3
<1>3. ASSUME NEW b \in Ranks, NEW h \in Ranks, b < h
      PROVE  /\ << b, h >> \in up => /\ T[b][b][h] = cost["forward"][<< b, h >>]
                                     /\ T[b][h][b] = cost["backward"][<< b, h >>]
             /\ << b, h >> \notin up => T[b][b][h] = Infinite /\ T[b][h][b] = Infinite
  <2>1. b < NodeCount
    BY NodesAreRanks
  <2>2. "forward" \in Ways /\ "backward" \in Ways
    BY DEF Ways
  <2>3. CASE << b, h >> \in up
    <3>1. PICK arc \in up : arc = << b, h >> /\ arc[1] = b /\ arc[2] = h
      BY <2>3
    <3>2. \A w \in Ways : cost[w][arc] = T[arc[1]][Ends(arc, w)[1]][Ends(arc, w)[2]]
      BY <2>1, <3>1 DEF Complete, Frozen
    <3>3. Ends(arc, "forward") = << b, h >> /\ Ends(arc, "backward") = << h, b >>
      BY <3>1 DEF Ends
    <3> QED BY <2>2, <3>1, <3>2, <3>3
  <2>4. CASE << b, h >> \notin up
    BY <1>3, <2>1, <2>4 DEF Complete, Frozen
  <2> QED BY <2>3, <2>4
<1>4. CASE way = "forward"
  <2>1. Along(T, way) = T
    BY <1>4 DEF Along
  <2> QED BY <1>1, <1>2, <1>3, <1>4, <2>1 DEF Laid, Turns
<1>5. CASE way = "backward"
  <2>1. PICK V : V = Turned(T)
    OBVIOUS
  <2>2. \A i \in 0..NodeCount : \A x, y \in Ranks : V[i][x][y] = T[i][y][x]
    BY <2>1 DEF Turned
  <2>3. V \in Tables
    BY <1>2, <2>1 DEF Turned, Tables, Table
  <2>4. ASSUME NEW i \in 0..(NodeCount - 1) PROVE V[i + 1] = Through(V[i], i)
    <3>1. i \in Ranks /\ i \in 0..NodeCount /\ i + 1 \in 0..NodeCount
      BY NodesAreRanks
    <3>2. ASSUME NEW x \in Ranks, NEW y \in Ranks
          PROVE  V[i + 1][x][y] = Lesser(V[i][x][y], Add(V[i][x][i], V[i][i][y]))
      <4>1. T[i + 1][y][x] = Lesser(T[i][y][x], Add(T[i][y][i], T[i][i][x]))
        BY <1>1, <3>1, TurnsAt DEF Turns
      <4>2. Add(T[i][y][i], T[i][i][x]) = Add(T[i][i][x], T[i][y][i])
        <5>1. T[i][y][i] \in Costs /\ T[i][i][x] \in Costs
          BY <1>2, <3>1
        <5> QED BY <5>1, NodesAreRanks DEF Add, Costs
      <4> QED BY <2>2, <3>1, <4>1, <4>2
    <3>3. V[i + 1] \in Table
      BY <2>3, <3>1 DEF Tables
    <3> QED BY <3>2, <3>3 DEF Through, Table
  <2>5. Along(T, way) = V
    BY <1>5, <2>1 DEF Along
  <2>6. \A b \in Ranks : b \in 0..NodeCount
    BY NodesAreRanks
  <2>7. \A b, h \in Ranks : b < h =>
          V[b][b][h] = IF << b, h >> \in up THEN cost[way][<< b, h >>] ELSE Infinite
    BY <1>3, <1>5, <2>2, <2>6
  <2> QED BY <1>2, <2>2, <2>3, <2>4, <2>5, <2>7 DEF Laid, Turns
<1> QED BY <1>4, <1>5 DEF Ways

-----------------------------------------------------------------------------
(* A search from a start: each rank it has reached has its parent,         *)
(* reached before.                                                         *)
Rooted(s, way, start) ==
    /\ s.dist \in [Ranks -> Costs] /\ s.queue \in SUBSET (Nat \X Ranks)
    /\ \A r \in Ranks : s.parent[r] # None =>
         s.parent[r] \in up /\ s.parent[r][2] = r /\ cost[way][s.parent[r]] # Infinite
    /\ s.dist[start] = 0 /\ s.parent[start] = None
    /\ \A r \in Ranks : s.dist[r] # Infinite => start <= r
    /\ \A r \in Ranks : s.dist[r] # Infinite /\ r # start =>
         \E p \in Ranks : /\ s.parent[r] = << p, r >> /\ << p, r >> \in up
                          /\ s.dist[p] # Infinite /\ cost[way][<< p, r >>] # Infinite
    /\ \A e \in s.queue : s.dist[e[2]] <= e[1] /\ e[1] < Infinite

(* None of its costs is too low, and what is not relaxed is queued.        *)
Explored(s, T, way, start) ==
    /\ \A r \in Ranks : s.dist[r] # Infinite => T[r][start][r] <= s.dist[r]
    /\ \A r \in Ranks :
         \/ s.dist[r] = Infinite \/ << s.dist[r], r >> \in s.queue
         \/ \A h \in Higher(r) : s.dist[h] <= Add(s.dist[r], cost[way][<< r, h >>])

SearchFrom(start) ==
    [ dist   |-> [r \in Ranks |-> IF r = start THEN 0 ELSE Infinite],
      parent |-> [r \in Ranks |-> None],
      queue  |-> {<< 0, start >>} ]

(* What Settle makes of a search, unless a sum overflows                   *)
Heads(s) == LET e == First(s.queue) IN IF e[1] = s.dist[e[2]] THEN Higher(e[2]) ELSE {}

Better(s, way) == { h \in Heads(s) : Relaxes(s, First(s.queue), way, h) }

Offer(s, way, h) == Add(First(s.queue)[1], cost[way][<< First(s.queue)[2], h >>])

Settled(s, way) ==
    [ dist   |-> [r \in Ranks |-> IF r \in Better(s, way) THEN Offer(s, way, r) ELSE s.dist[r]],
      parent |-> [r \in Ranks |->
                     IF r \in Better(s, way) THEN << First(s.queue)[2], r >> ELSE s.parent[r]],
      queue  |-> (s.queue \ {First(s.queue)})
                 \cup { << Offer(s, way, h), h >> : h \in Better(s, way) } ]

LEMMA FirstIsFirst ==
  ASSUME NEW queue \in SUBSET (Nat \X Ranks), queue # {}
  PROVE  First(queue) \in queue /\ \A f \in queue : First(queue)[1] <= f[1]
<1>1. PICK c \in Nat : /\ \E e \in queue : e[1] = c
                       /\ \A f \in queue : c <= f[1]
  <2> DEFINE W == { e[1] : e \in queue }
  <2>1. W \in SUBSET Nat /\ W # {}
    OBVIOUS
  <2>2. PICK w \in W : \A v \in W : w <= v
    <3> HIDE DEF W
    <3> QED BY <2>1, LeastNumber
  <2> QED BY <2>1, <2>2
<1>2. PICK r \in Ranks : << c, r >> \in queue /\ \A f \in queue : f[1] = c => r <= f[2]
  <2> DEFINE W == { r \in Ranks : << c, r >> \in queue }
  <2>1. W \in SUBSET Nat /\ W # {}
    BY <1>1, NodesAreRanks
  <2>2. PICK w \in W : \A v \in W : w <= v
    <3> HIDE DEF W
    <3> QED BY <2>1, LeastNumber
  <2>3. \A f \in queue : f[1] = c => f[2] \in W
    OBVIOUS
  <2> QED BY <2>2, <2>3
<1>3. \A f \in queue : c < f[1] \/ (c = f[1] /\ r <= f[2])
  BY <1>1, <1>2
<1>4. \E e \in queue : \A f \in queue : e[1] < f[1] \/ (e[1] = f[1] /\ e[2] <= f[2])
  <2>1. << c, r >>[1] = c /\ << c, r >>[2] = r /\ << c, r >> \in queue
    BY <1>2
  <2> QED BY <1>3, <2>1
<1>5. /\ First(queue) \in queue
      /\ \A f \in queue : First(queue)[1] < f[1] \/ (First(queue)[1] = f[1] /\ First(queue)[2] <= f[2])
  BY <1>4 DEF First
<1> QED BY <1>5

LEMMA SearchBegins ==
  ASSUME NEW way, NEW start \in Ranks
  PROVE  /\ Rooted(SearchFrom(start), way, start)
         /\ \A T : Laid(T, way) => Explored(SearchFrom(start), T, way, start)
<1>1. 0 \in Costs /\ Infinite \in Costs /\ Infinite # 0 /\ start \in Nat
  BY NodesAreRanks DEF Costs
<1>2. SearchFrom(start).dist \in [Ranks -> Costs]
  BY <1>1 DEF SearchFrom
<1>3. \A r \in Ranks : SearchFrom(start).dist[r] = IF r = start THEN 0 ELSE Infinite
  BY DEF SearchFrom
<1>4. /\ \A r \in Ranks : SearchFrom(start).parent[r] = None
      /\ SearchFrom(start).queue = {<< 0, start >>}
  BY DEF SearchFrom
<1>5. Rooted(SearchFrom(start), way, start)
  BY <1>1, <1>2, <1>3, <1>4, NodesAreRanks DEF Rooted
<1>6. ASSUME NEW T, Laid(T, way) PROVE Explored(SearchFrom(start), T, way, start)
  <2>1. T[start][start][start] = 0
    <3>1. start \in 0..NodeCount
      BY NodesAreRanks
    <3> QED BY <1>6, <3>1 DEF Laid
  <2>2. \A r \in Ranks : r # start => SearchFrom(start).dist[r] = Infinite
    BY <1>3
  <2>3. SearchFrom(start).dist[start] = 0 /\ << 0, start >> \in SearchFrom(start).queue
    BY <1>3, <1>4
  <2>4. \A r \in Ranks : SearchFrom(start).dist[r] # Infinite =>
           T[r][start][r] <= SearchFrom(start).dist[r]
    BY <1>1, <2>1, <2>2, <2>3
  <2>5. \A r \in Ranks : \/ SearchFrom(start).dist[r] = Infinite
                         \/ << SearchFrom(start).dist[r], r >> \in SearchFrom(start).queue
    BY <2>2, <2>3
  <2> QED BY <2>4, <2>5 DEF Explored
<1> QED BY <1>5, <1>6

(* What a search finds better is higher, and no sentinel                   *)
LEMMA BetterIsHigher ==
  ASSUME up \subseteq Upward, cost \in [Ways -> [up -> Costs]], NEW way \in Ways, NEW start \in Ranks,
         NEW s, Rooted(s, way, start), s.queue # {}, NEW e, e = First(s.queue),
         NEW h \in Better(s, way)
  PROVE  /\ e[1] = s.dist[e[2]] /\ e[1] \in Nat /\ e[1] # Infinite /\ e[2] \in Ranks
         /\ h \in Ranks /\ e[2] < h /\ << e[2], h >> \in up
         /\ cost[way][<< e[2], h >>] \in Nat /\ cost[way][<< e[2], h >>] # Infinite
         /\ Offer(s, way, h) = e[1] + cost[way][<< e[2], h >>]
         /\ Offer(s, way, h) \in Costs /\ Offer(s, way, h) < s.dist[h] /\ Offer(s, way, h) < Infinite
<1>1. s.queue \in SUBSET (Nat \X Ranks) /\ s.dist \in [Ranks -> Costs]
  BY DEF Rooted
<1>2. e \in s.queue
  BY <1>1, FirstIsFirst
<1>3. e[1] \in Nat /\ e[2] \in Ranks /\ e[1] < Infinite
  BY <1>1, <1>2 DEF Rooted
<1>4. h \in Heads(s) /\ Relaxes(s, e, way, h)
  BY DEF Better
<1>5. e[1] = s.dist[e[2]] /\ h \in Higher(e[2])
  BY <1>4 DEF Heads
<1>6. h \in Ranks /\ << e[2], h >> \in up /\ e[2] < h
  BY <1>3, <1>5, HigherIsHigher
<1>7. cost[way][<< e[2], h >>] \in Costs /\ s.dist[h] \in Costs
  BY <1>1, <1>6
<1>8. Offer(s, way, h) = Add(e[1], cost[way][<< e[2], h >>]) /\ Offer(s, way, h) < s.dist[h]
  BY <1>4 DEF Offer, Relaxes
<1> QED BY <1>3, <1>5, <1>6, <1>7, <1>8, NodesAreRanks DEF Add, Costs

LEMMA SettledIsRooted ==
  ASSUME up \subseteq Upward, cost \in [Ways -> [up -> Costs]], NEW way \in Ways, NEW start \in Ranks,
         NEW s, Rooted(s, way, start), s.queue # {}
  PROVE  /\ Rooted(Settled(s, way), way, start)
         /\ \A r \in Ranks : /\ Settled(s, way).dist[r] <= s.dist[r]
                             /\ Settled(s, way).dist[r] # Infinite \/ s.dist[r] = Infinite
<1>1. PICK n : n = Settled(s, way)
  OBVIOUS
<1>2. PICK e : e = First(s.queue)
  OBVIOUS
<1>3. /\ \A r \in Ranks : s.parent[r] # None =>
           s.parent[r] \in up /\ s.parent[r][2] = r /\ cost[way][s.parent[r]] # Infinite
      /\ s.dist \in [Ranks -> Costs] /\ s.queue \in SUBSET (Nat \X Ranks) /\ s.dist[start] = 0 /\ s.parent[start] = None
  BY DEF Rooted
<1>4. e \in s.queue /\ e[2] \in Ranks /\ e[1] \in Nat
  BY <1>2, <1>3, FirstIsFirst
<1>5. /\ \A r \in Ranks : n.dist[r] = IF r \in Better(s, way) THEN Offer(s, way, r) ELSE s.dist[r]
      /\ \A r \in Ranks : n.parent[r] = IF r \in Better(s, way) THEN << e[2], r >> ELSE s.parent[r]
      /\ n.dist = [r \in Ranks |-> n.dist[r]]
      /\ n.queue = (s.queue \ {e}) \cup { << Offer(s, way, h), h >> : h \in Better(s, way) }
  <2>1. /\ \A r \in Ranks :
             /\ n.dist[r] = IF r \in Better(s, way) THEN Offer(s, way, r) ELSE s.dist[r]
             /\ n.parent[r] = IF r \in Better(s, way) THEN << First(s.queue)[2], r >> ELSE s.parent[r]
        /\ n.dist = [r \in Ranks |-> n.dist[r]]
        /\ n.queue = (s.queue \ {First(s.queue)})
                     \cup { << Offer(s, way, h), h >> : h \in Better(s, way) }
    BY <1>1 DEF Settled
  <2> QED BY <1>2, <2>1
<1>6. ASSUME NEW h \in Better(s, way)
      PROVE  /\ e[1] = s.dist[e[2]] /\ e[1] # Infinite
             /\ h \in Ranks /\ e[2] < h /\ << e[2], h >> \in up
             /\ cost[way][<< e[2], h >>] # Infinite
             /\ Offer(s, way, h) \in Costs /\ Offer(s, way, h) < s.dist[h] /\ Offer(s, way, h) < Infinite
  BY <1>2, <1>3, BetterIsHigher
<1>7. Costs \subseteq Nat /\ \A r \in Ranks : s.dist[r] \in Costs
  BY <1>3 DEF Costs
<1>8. \A r \in Ranks : n.dist[r] \in Costs /\ n.dist[r] <= s.dist[r]
                       /\ (n.dist[r] # Infinite \/ s.dist[r] = Infinite)
  <2> SUFFICES ASSUME NEW r \in Ranks
               PROVE  /\ n.dist[r] \in Costs /\ n.dist[r] <= s.dist[r]
                      /\ (n.dist[r] # Infinite \/ s.dist[r] = Infinite)
    OBVIOUS
  <2>1. CASE r \in Better(s, way)
    <3>1. /\ n.dist[r] = Offer(s, way, r) /\ Offer(s, way, r) \in Costs
          /\ Offer(s, way, r) < s.dist[r] /\ Offer(s, way, r) < Infinite
      BY <1>5, <1>6, <2>1
    <3>2. n.dist[r] \in Nat /\ s.dist[r] \in Nat
      BY <1>7, <3>1
    <3> QED BY <3>1, <3>2, NodesAreRanks
  <2>2. CASE r \notin Better(s, way)
    <3>1. n.dist[r] = s.dist[r] /\ s.dist[r] \in Nat
      BY <1>5, <1>7, <2>2
    <3> QED BY <1>7, <3>1
  <2> QED BY <2>1, <2>2
<1>9. /\ n.dist \in [Ranks -> Costs]
      /\ \A r \in Ranks : n.parent[r] # None =>
           n.parent[r] \in up /\ n.parent[r][2] = r /\ cost[way][n.parent[r]] # Infinite
  <2> SUFFICES ASSUME NEW r \in Ranks
               PROVE  n.parent[r] # None =>
                        n.parent[r] \in up /\ n.parent[r][2] = r /\ cost[way][n.parent[r]] # Infinite
    BY <1>5, <1>8
  <2>1. CASE r \in Better(s, way)
    <3>1. n.parent[r] = << e[2], r >> /\ << e[2], r >> \in up /\ cost[way][<< e[2], r >>] # Infinite
      BY <1>5, <1>6, <2>1
    <3> QED BY <3>1
  <2>2. CASE r \notin Better(s, way)
    BY <1>3, <1>5, <2>2
  <2> QED BY <2>1, <2>2
<1>10. n.queue \in SUBSET (Nat \X Ranks)
  <2> SUFFICES ASSUME NEW f \in n.queue PROVE f \in Nat \X Ranks
    OBVIOUS
  <2>1. CASE f \in s.queue
    BY <1>3, <2>1
  <2>2. CASE f \notin s.queue
    <3>1. PICK h \in Better(s, way) : f = << Offer(s, way, h), h >>
      BY <1>5, <2>2
    <3> QED BY <1>6, <1>7, <3>1
  <2> QED BY <2>1, <2>2
<1>11. start \notin Better(s, way)
  <2>1. ASSUME start \in Better(s, way) PROVE FALSE
    <3>1. Offer(s, way, start) \in Nat /\ Offer(s, way, start) < 0
      BY <1>3, <1>6, <1>7, <2>1
    <3> QED BY <3>1
  <2> QED BY <2>1
<1>12. n.dist[start] = 0 /\ n.parent[start] = None
  BY <1>3, <1>5, <1>11
<1>13. ASSUME NEW r \in Ranks, n.dist[r] # Infinite
       PROVE  /\ start <= r
              /\ r # start =>
                   \E p \in Ranks : /\ n.parent[r] = << p, r >> /\ << p, r >> \in up
                                    /\ n.dist[p] # Infinite /\ cost[way][<< p, r >>] # Infinite
  <2>1. CASE r \in Better(s, way)
    <3>1. s.dist[e[2]] # Infinite
      BY <1>6, <2>1
    <3>2. start <= e[2] /\ e[2] < r
      BY <1>4, <1>6, <2>1, <3>1 DEF Rooted
    <3>3. start <= r
      BY <1>4, <3>2, NodesAreRanks
    <3>4. n.dist[e[2]] # Infinite
      BY <1>4, <1>8, <3>1
    <3> QED BY <1>4, <1>5, <1>6, <2>1, <3>3, <3>4
  <2>2. CASE r \notin Better(s, way)
    <3>1. s.dist[r] # Infinite /\ n.parent[r] = s.parent[r]
      BY <1>5, <1>13, <2>2
    <3>2. start <= r
      BY <3>1 DEF Rooted
    <3>3. ASSUME r # start
          PROVE  \E p \in Ranks : /\ n.parent[r] = << p, r >> /\ << p, r >> \in up
                                  /\ n.dist[p] # Infinite /\ cost[way][<< p, r >>] # Infinite
      <4>1. PICK p \in Ranks : /\ s.parent[r] = << p, r >> /\ << p, r >> \in up
                               /\ s.dist[p] # Infinite /\ cost[way][<< p, r >>] # Infinite
        BY <3>1, <3>3 DEF Rooted
      <4> QED BY <1>8, <3>1, <4>1
    <3> QED BY <3>2, <3>3
  <2> QED BY <2>1, <2>2
<1>14. ASSUME NEW f \in n.queue PROVE n.dist[f[2]] <= f[1] /\ f[1] < Infinite
  <2>1. CASE f \in s.queue
    <3>1. s.dist[f[2]] <= f[1] /\ f[1] < Infinite /\ f[1] \in Nat /\ f[2] \in Ranks
      BY <1>3, <2>1 DEF Rooted
    <3>2. n.dist[f[2]] \in Nat /\ s.dist[f[2]] \in Nat /\ n.dist[f[2]] <= s.dist[f[2]]
      BY <1>7, <1>8, <3>1
    <3> QED BY <3>1, <3>2
  <2>2. CASE f \notin s.queue
    <3>1. PICK h \in Better(s, way) : f = << Offer(s, way, h), h >>
      BY <1>5, <2>2
    <3>2. f[1] = Offer(s, way, h) /\ f[2] = h /\ n.dist[h] = Offer(s, way, h)
      BY <1>5, <1>6, <3>1
    <3>3. Offer(s, way, h) \in Nat /\ Offer(s, way, h) < Infinite
      BY <1>6, <1>7
    <3> QED BY <3>2, <3>3
  <2> QED BY <2>1, <2>2
<1> QED BY <1>1, <1>8, <1>9, <1>10, <1>12, <1>13, <1>14 DEF Rooted

(* As Dijkstra has it: what is not queued and cheaper than M is right, and *)
(* so is all that is cheaper than M.                                       *)
LEMMA CheaperIsRight ==
  ASSUME up \subseteq Upward, NEW way \in Ways, NEW start \in Ranks, NEW T, Laid(T, way),
         NEW s, Rooted(s, way, start), Explored(s, T, way, start), NEW M \in Nat,
         \A b \in Ranks : s.dist[b] < M => << s.dist[b], b >> \notin s.queue,
         NEW r \in Ranks, start <= r, T[r][start][r] < M
  PROVE  s.dist[r] <= T[r][start][r]
<1>1. ASSUME NEW b \in Ranks
      PROVE  /\ s.dist[b] \in Nat /\ s.dist[b] <= Infinite
             /\ T[b][start][b] \in Nat /\ T[b][start][b] <= Infinite
  <2>1. s.dist[b] \in Costs
    BY DEF Rooted
  <2>2. b \in 0..NodeCount /\ Turns(T)
    BY NodesAreRanks DEF Laid
  <2>3. T[b][start][b] \in Costs
    BY <2>2 DEF Turns, Tables, Table
  <2> QED BY <2>1, <2>3, NodesAreRanks DEF Costs
<1> DEFINE W == { x \in Ranks : start <= x /\ T[x][start][x] < M /\ T[x][start][x] < s.dist[x] }
<1> SUFFICES ASSUME r \in W PROVE FALSE
  BY <1>1
<1>2. PICK w \in W : \A v \in W : w <= v
  <2>1. W \in SUBSET Nat /\ W # {}
    BY NodesAreRanks
  <2> HIDE DEF W
  <2> QED BY <2>1, LeastNumber
<1>3. w \in Ranks /\ start <= w /\ T[w][start][w] < M /\ T[w][start][w] < s.dist[w]
  OBVIOUS
<1>4. start < w /\ T[w][start][w] # Infinite
  <2>1. w # start
    BY <1>1, <1>3 DEF Rooted
  <2> QED BY <1>1, <1>3, <2>1, NodesAreRanks
<1>5. PICK b \in Ranks : /\ start <= b /\ b < w /\ << b, w >> \in up
                         /\ T[w][start][w] = Add(T[b][start][b], cost[way][<< b, w >>])
  BY <1>3, <1>4, ReachIsTight
<1>6. /\ T[b][start][b] <= T[w][start][w] /\ T[b][start][b] # Infinite
  <2>1. T[b][start][b] \in Costs /\ cost[way][<< b, w >>] \in Costs
    BY <1>3, <1>5, ReachObeys
  <2> QED BY <1>4, <1>5, <2>1, CostsAdd DEF Add
<1>7. T[b][start][b] < M
  BY <1>1, <1>3, <1>6
<1>8. b \notin W
  BY <1>2, <1>3, <1>5, NodesAreRanks
<1>9. s.dist[b] <= T[b][start][b]
  BY <1>1, <1>5, <1>7, <1>8
<1>10. s.dist[b] # Infinite
  BY <1>1, <1>6, <1>9
<1>11. s.dist[b] = T[b][start][b]
  <2>1. T[b][start][b] <= s.dist[b]
    BY <1>10 DEF Explored
  <2> QED BY <1>1, <1>9, <2>1
<1>12. << s.dist[b], b >> \notin s.queue
  BY <1>7, <1>11
<1>13. w \in Higher(b)
  BY <1>3, <1>5 DEF Higher
<1>14. s.dist[w] <= Add(s.dist[b], cost[way][<< b, w >>])
  BY <1>10, <1>12, <1>13 DEF Explored
<1> QED BY <1>1, <1>3, <1>5, <1>11, <1>14

(* An entry that was not overtaken is right.                               *)
LEMMA FirstIsRight ==
  ASSUME up \subseteq Upward, NEW way \in Ways, NEW start \in Ranks, NEW T, Laid(T, way),
         NEW s, Rooted(s, way, start), Explored(s, T, way, start), s.queue # {},
         NEW e, e = First(s.queue), e[1] = s.dist[e[2]]
  PROVE  /\ e[2] \in Ranks /\ start <= e[2] /\ e[1] = T[e[2]][start][e[2]]
         /\ e[1] \in Nat /\ e[1] < Infinite /\ e[1] <= LongestWay
<1>1. s.queue \in SUBSET (Nat \X Ranks)
  BY DEF Rooted
<1>2. e \in s.queue /\ \A f \in s.queue : e[1] <= f[1]
  BY <1>1, FirstIsFirst
<1>3. e[1] \in Nat /\ e[2] \in Ranks /\ e[1] < Infinite
  BY <1>1, <1>2 DEF Rooted
<1>4. s.dist[e[2]] # Infinite
  BY <1>3, NodesAreRanks
<1>5. start <= e[2] /\ T[e[2]][start][e[2]] <= e[1]
  BY <1>3, <1>4 DEF Rooted, Explored
<1>6. \A b \in Ranks : s.dist[b] < e[1] => << s.dist[b], b >> \notin s.queue
  <2> SUFFICES ASSUME NEW b \in Ranks, s.dist[b] < e[1], << s.dist[b], b >> \in s.queue PROVE FALSE
    OBVIOUS
  <2>1. e[1] <= s.dist[b]
    BY <1>2
  <2>2. s.dist[b] \in Nat
    BY DEF Rooted, Costs
  <2> QED BY <1>3, <2>1, <2>2
<1>7. e[2] \in 0..NodeCount /\ Turns(T)
  BY <1>3, NodesAreRanks DEF Laid
<1>8. T[e[2]][start][e[2]] \in Nat
  BY <1>3, <1>7 DEF Turns, Tables, Table, Costs
<1>9. ~(T[e[2]][start][e[2]] < e[1])
  BY <1>3, <1>5, <1>6, <1>8, CheaperIsRight
<1>10. e[1] = T[e[2]][start][e[2]]
  BY <1>3, <1>5, <1>8, <1>9
<1>11. T[e[2]][start][e[2]] = Infinite \/ T[e[2]][start][e[2]] <= LongestWay
  BY <1>3, <1>7 DEF Laid
<1> QED BY <1>3, <1>4, <1>5, <1>10, <1>11

LEMMA SearchFits ==
  ASSUME up \subseteq Upward, cost \in [Ways -> [up -> Costs]], Bounded,
         NEW way \in Ways, NEW start \in Ranks, NEW T, Laid(T, way),
         NEW s, Rooted(s, way, start), Explored(s, T, way, start), s.queue # {},
         NEW h \in Heads(s)
  PROVE  ~Overflows(First(s.queue)[1], cost[way][<< First(s.queue)[2], h >>])
<1>1. PICK e : e = First(s.queue)
  OBVIOUS
<1>2. e[1] = s.dist[e[2]] /\ h \in Higher(e[2])
  BY <1>1 DEF Heads
<1>3. e[1] \in Nat /\ e[1] <= LongestWay /\ e[2] \in Ranks
  BY <1>1, <1>2, FirstIsRight
<1>4. << e[2], h >> \in up
  BY <1>2 DEF Higher
<1>5. cost[way][<< e[2], h >>] \in Nat
  BY <1>4 DEF Costs
<1>6. cost[way][<< e[2], h >>] = Infinite \/ cost[way][<< e[2], h >>] <= LongestWay
  BY <1>4 DEF Bounded
<1>7. LongestWay \in Nat /\ LongestWay + LongestWay < Infinite /\ Infinite \in Nat
  BY LongestWayFits, NodesAreRanks
<1> QED BY <1>1, <1>3, <1>5, <1>6, <1>7 DEF Overflows

LEMMA SettledIsExplored ==
  ASSUME up \subseteq Upward, cost \in [Ways -> [up -> Costs]],
         NEW way \in Ways, NEW start \in Ranks, NEW T, Laid(T, way),
         NEW s, Rooted(s, way, start), Explored(s, T, way, start), s.queue # {}
  PROVE  Explored(Settled(s, way), T, way, start)
<1>1. PICK n : n = Settled(s, way)
  OBVIOUS
<1>2. PICK e : e = First(s.queue)
  OBVIOUS
<1>3. /\ s.dist \in [Ranks -> Costs] /\ s.queue \in SUBSET (Nat \X Ranks)
  BY DEF Rooted
<1>4. e \in s.queue /\ e[2] \in Ranks /\ e[1] \in Nat
  BY <1>2, <1>3, FirstIsFirst
<1>5. /\ \A r \in Ranks : n.dist[r] = IF r \in Better(s, way) THEN Offer(s, way, r) ELSE s.dist[r]
      /\ n.queue = (s.queue \ {e}) \cup { << Offer(s, way, h), h >> : h \in Better(s, way) }
  <2>1. /\ \A r \in Ranks : n.dist[r] = IF r \in Better(s, way) THEN Offer(s, way, r) ELSE s.dist[r]
        /\ n.queue = (s.queue \ {First(s.queue)})
                     \cup { << Offer(s, way, h), h >> : h \in Better(s, way) }
    BY <1>1 DEF Settled
  <2> QED BY <1>2, <2>1
<1>6. ASSUME NEW h \in Better(s, way)
      PROVE  /\ e[1] = s.dist[e[2]] /\ e[1] \in Nat /\ e[1] # Infinite /\ e[2] \in Ranks
             /\ h \in Ranks /\ e[2] < h /\ << e[2], h >> \in up
             /\ cost[way][<< e[2], h >>] \in Nat /\ cost[way][<< e[2], h >>] # Infinite
             /\ Offer(s, way, h) = e[1] + cost[way][<< e[2], h >>]
             /\ Offer(s, way, h) \in Costs /\ Offer(s, way, h) < s.dist[h]
             /\ Offer(s, way, h) < Infinite
  BY <1>2, BetterIsHigher
<1>7. \A r \in Ranks : n.dist[r] <= s.dist[r] /\ n.dist[r] \in Nat /\ s.dist[r] \in Nat
  <2>1. \A r \in Ranks : n.dist[r] <= s.dist[r]
    BY <1>1, SettledIsRooted
  <2>2. \A r \in Ranks : n.dist[r] \in Costs
    <3>1. Rooted(n, way, start)
      BY <1>1, SettledIsRooted
    <3> QED BY <3>1 DEF Rooted
  <2> QED BY <1>3, <2>1, <2>2 DEF Costs
<1>8. ASSUME NEW r \in Ranks, n.dist[r] # Infinite PROVE T[r][start][r] <= n.dist[r]
  <2>1. CASE r \in Better(s, way)
    <3>1. /\ s.dist[e[2]] # Infinite /\ e[1] = s.dist[e[2]] /\ e[2] < r /\ << e[2], r >> \in up
      BY <1>6, <2>1
    <3>2. T[e[2]][start][e[2]] <= e[1]
      BY <1>4, <3>1 DEF Explored
    <3>3. /\ T[r][start][r] <= Add(T[e[2]][start][e[2]], cost[way][<< e[2], r >>])
          /\ T[r][start][r] \in Costs /\ T[e[2]][start][e[2]] \in Costs
          /\ cost[way][<< e[2], r >>] \in Costs
      BY <1>4, <3>1, ReachObeys
    <3>4. T[r][start][r] <= Add(e[1], cost[way][<< e[2], r >>])
      BY <1>4, <3>2, <3>3, AddGrows DEF Costs
    <3>5. Add(e[1], cost[way][<< e[2], r >>]) = n.dist[r]
      BY <1>5, <1>6, <2>1 DEF Add
    <3> QED BY <3>4, <3>5
  <2>2. CASE r \notin Better(s, way)
    BY <1>5, <1>8, <2>2 DEF Explored
  <2> QED BY <2>1, <2>2
<1>9. ASSUME NEW r \in Ranks, n.dist[r] # Infinite, << n.dist[r], r >> \notin n.queue,
             NEW h \in Higher(r)
      PROVE  n.dist[h] <= Add(n.dist[r], cost[way][<< r, h >>])
  <2>1. r \notin Better(s, way)
    BY <1>5, <1>9
  <2>2. n.dist[r] = s.dist[r]
    BY <1>5, <2>1
  <2>3. h \in Ranks /\ << r, h >> \in up
    BY HigherIsHigher
  <2>4. CASE e = << s.dist[r], r >>
    <3>1. e[1] = s.dist[e[2]] /\ e[2] = r /\ e[1] = s.dist[r]
      BY <2>4
    <3>2. h \in Heads(s)
      BY <1>2, <3>1 DEF Heads
    <3>3. Add(e[1], cost[way][<< e[2], h >>]) = Offer(s, way, h)
      BY <1>2 DEF Offer
    <3>4. CASE h \in Better(s, way)
      <4>1. n.dist[h] = Offer(s, way, h)
        BY <1>5, <2>3, <3>4
      <4> QED BY <1>7, <2>2, <2>3, <3>1, <3>3, <4>1
    <3>5. CASE h \notin Better(s, way)
      <4>1. ~(Add(e[1], cost[way][<< e[2], h >>]) < s.dist[h])
        BY <1>2, <3>2, <3>5 DEF Better, Relaxes
      <4>2. n.dist[h] = s.dist[h]
        BY <1>5, <2>3, <3>5
      <4>3. cost[way][<< r, h >>] \in Costs /\ s.dist[r] \in Costs
        BY <1>3, <2>3
      <4>4. Add(s.dist[r], cost[way][<< r, h >>]) \in Nat
        BY <4>3, CostsAdd
      <4> QED BY <1>7, <2>2, <2>3, <3>1, <4>1, <4>2, <4>4
    <3> QED BY <3>4, <3>5
  <2>5. CASE e # << s.dist[r], r >>
    <3>1. << s.dist[r], r >> \notin s.queue
      BY <1>5, <1>9, <2>2, <2>5
    <3>2. s.dist[h] <= Add(s.dist[r], cost[way][<< r, h >>])
      BY <1>9, <2>2, <3>1 DEF Explored
    <3>3. cost[way][<< r, h >>] \in Costs /\ s.dist[r] \in Costs
      BY <1>3, <2>3
    <3>4. Add(s.dist[r], cost[way][<< r, h >>]) \in Nat
      BY <3>3, CostsAdd
    <3> QED BY <1>7, <2>2, <2>3, <3>2, <3>4
  <2> QED BY <2>4, <2>5
<1> QED BY <1>1, <1>8, <1>9 DEF Explored

(* A search that has ended tells what its tables do.                       *)
LEMMA SearchEnds ==
  ASSUME up \subseteq Upward, NEW way \in Ways, NEW start \in Ranks, NEW T, Laid(T, way),
         NEW s, Rooted(s, way, start), Explored(s, T, way, start), s.queue = {}, NEW r \in Ranks
  PROVE  /\ s.dist[r] = IF start <= r THEN T[r][start][r] ELSE Infinite
         /\ s.dist[r] = Infinite \/ s.dist[r] <= LongestWay
<1>1. r \in 0..NodeCount /\ Turns(T)
  BY NodesAreRanks DEF Laid
<1>2. T[r][start][r] \in Costs /\ s.dist[r] \in Costs
  BY <1>1 DEF Turns, Tables, Table, Rooted
<1>3. T[r][start][r] = Infinite \/ T[r][start][r] <= LongestWay
  BY <1>1 DEF Laid
<1>4. CASE ~(start <= r)
  BY <1>4 DEF Rooted
<1>5. CASE start <= r
  <2>1. T[r][start][r] < Infinite => s.dist[r] <= T[r][start][r]
    <3>1. Infinite \in Nat
      BY NodesAreRanks
    <3> QED BY <1>5, <3>1, CheaperIsRight
  <2>2. s.dist[r] # Infinite => T[r][start][r] <= s.dist[r]
    BY DEF Explored
  <2>3. s.dist[r] = T[r][start][r]
    BY <1>2, <2>1, <2>2, NodesAreRanks DEF Costs
  <2> QED BY <1>3, <1>5, <2>3
<1> QED BY <1>4, <1>5

-----------------------------------------------------------------------------
(* Where two searches meet                                                 *)
Ended(way, start) == Rooted(search[way], way, start) /\ search[way].queue = {}

LEMMA MeetingIsLeast ==
  ASSUME NEW s, NEW t, Ended("forward", s), Ended("backward", t)
  PROVE  /\ Meeting \in Ranks
         /\ \A o \in Ranks : Total(Meeting) <= Total(o) /\ Total(o) \in Nat
<1>1. ASSUME NEW r \in Ranks PROVE Total(r) \in Nat
  <2>1. search["forward"].dist[r] \in Costs /\ search["backward"].dist[r] \in Costs
    BY DEF Ended, Rooted
  <2> QED BY <2>1, CostsAdd DEF Total
<1>2. PICK c \in Nat : (\E r \in Ranks : Total(r) = c) /\ \A o \in Ranks : c <= Total(o)
  <2> DEFINE W == { Total(r) : r \in Ranks }
  <2>1. W \in SUBSET Nat /\ W # {}
    BY <1>1, NodesAreRanks
  <2>2. PICK w \in W : \A v \in W : w <= v
    <3> HIDE DEF W
    <3> QED BY <2>1, LeastNumber
  <2> QED BY <2>1, <2>2
<1>3. PICK r \in Ranks : Total(r) = c /\ \A o \in Ranks : Total(o) = c => r <= o
  <2> DEFINE W == { x \in Ranks : Total(x) = c }
  <2>1. W \in SUBSET Nat /\ W # {}
    BY <1>2, NodesAreRanks
  <2>2. PICK w \in W : \A v \in W : w <= v
    <3> HIDE DEF W
    <3> QED BY <2>1, LeastNumber
  <2> QED BY <2>2
<1>4. \A o \in Ranks : Total(r) < Total(o) \/ (Total(r) = Total(o) /\ r <= o)
  BY <1>1, <1>2, <1>3
<1>5. /\ Meeting \in Ranks
      /\ \A o \in Ranks : Total(Meeting) < Total(o) \/ (Total(Meeting) = Total(o) /\ Meeting <= o)
  BY <1>4 DEF Meeting
<1> QED BY <1>1, <1>5

LEMMA MeetingIsShortest ==
  ASSUME up \subseteq Upward, NEW T, Complete(T), NEW s \in Ranks, NEW t \in Ranks,
         Ended("forward", s), Explored(search["forward"], Along(T, "forward"), "forward", s),
         Ended("backward", t), Explored(search["backward"], Along(T, "backward"), "backward", t)
  PROVE  /\ Total(Meeting) = T[NodeCount][s][t]
         /\ \A r \in Ranks : ~Overflows(search["forward"].dist[r], search["backward"].dist[r])
<1>1. "forward" \in Ways /\ "backward" \in Ways
  BY DEF Ways
<1>2. Laid(Along(T, "forward"), "forward") /\ Laid(Along(T, "backward"), "backward")
  BY <1>1, CompleteIsLaid
<1>3. ASSUME NEW r \in Ranks
      PROVE  /\ search["forward"].dist[r] = IF s <= r THEN T[r][s][r] ELSE Infinite
             /\ search["backward"].dist[r] = IF t <= r THEN T[r][r][t] ELSE Infinite
             /\ search["forward"].dist[r] = Infinite \/ search["forward"].dist[r] <= LongestWay
             /\ search["backward"].dist[r] = Infinite \/ search["backward"].dist[r] <= LongestWay
             /\ search["forward"].dist[r] \in Nat /\ search["backward"].dist[r] \in Nat
  <2>1. /\ search["forward"].dist[r] = IF s <= r THEN Along(T, "forward")[r][s][r] ELSE Infinite
        /\ search["forward"].dist[r] = Infinite \/ search["forward"].dist[r] <= LongestWay
    BY <1>1, <1>2, SearchEnds DEF Ended
  <2>2. /\ search["backward"].dist[r] = IF t <= r THEN Along(T, "backward")[r][t][r] ELSE Infinite
        /\ search["backward"].dist[r] = Infinite \/ search["backward"].dist[r] <= LongestWay
    BY <1>1, <1>2, SearchEnds DEF Ended
  <2>3. r \in 0..NodeCount
    BY NodesAreRanks
  <2>4. Along(T, "forward")[r][s][r] = T[r][s][r] /\ Along(T, "backward")[r][t][r] = T[r][r][t]
    BY <2>3 DEF Along, Turned
  <2>5. search["forward"].dist[r] \in Nat /\ search["backward"].dist[r] \in Nat
    BY DEF Ended, Rooted, Costs
  <2> QED BY <2>1, <2>2, <2>4, <2>5
<1>4. Turns(T) /\ \A i \in 0..NodeCount, x \in Ranks : T[i][x][x] = 0
  BY <1>2 DEF Laid, Along
<1>5. LongestWay \in Nat /\ LongestWay + LongestWay < Infinite /\ Infinite \in Nat
  BY LongestWayFits, NodesAreRanks
<1>6. T[NodeCount][s][t] \in Nat /\ T[NodeCount][s][t] <= Infinite
  <2>1. NodeCount \in 0..NodeCount
    BY NodesAreRanks
  <2>2. T[NodeCount][s][t] \in Costs
    BY <1>4, <2>1 DEF Turns, Tables, Table
  <2> QED BY <2>2, <1>5 DEF Costs
<1>7. ASSUME NEW r \in Ranks PROVE T[NodeCount][s][t] <= Total(r)
  <2>1. CASE s <= r /\ t <= r
    <3>1. Total(r) = Add(T[r][s][r], T[r][r][t])
      BY <1>3, <2>1 DEF Total
    <3> QED BY <1>4, <3>1, MeetingsAreWays
  <2>2. CASE ~(s <= r /\ t <= r)
    <3>1. Total(r) = Infinite
      BY <1>3, <2>2 DEF Total, Add
    <3> QED BY <1>6, <3>1
  <2> QED BY <2>1, <2>2
<1>8. PICK m \in Ranks : T[NodeCount][s][t] = Total(m)
  <2>1. PICK r \in Ranks : s <= r /\ t <= r /\ T[NodeCount][s][t] = Add(T[r][s][r], T[r][r][t])
    BY <1>4, WaysAreMeetings
  <2> QED BY <1>3, <2>1 DEF Total
<1>9. Meeting \in Ranks /\ Total(Meeting) <= Total(m) /\ Total(Meeting) \in Nat
  BY MeetingIsLeast
<1>10. Total(Meeting) = T[NodeCount][s][t]
  <2>1. T[NodeCount][s][t] <= Total(Meeting)
    BY <1>7, <1>9
  <2> QED BY <1>6, <1>8, <1>9, <2>1
<1>11. \A r \in Ranks : ~Overflows(search["forward"].dist[r], search["backward"].dist[r])
  BY <1>3, <1>5 DEF Overflows
<1> QED BY <1>10, <1>11

-----------------------------------------------------------------------------
(* Arcs that lead on from one rank to another, or none if it is the same   *)
Leads(p, x, y) ==
    /\ p \in Seq(arcs)
    /\ IF p = <<>> THEN x = y
       ELSE /\ rank[p[1].from] = x /\ rank[p[Len(p)].to] = y
            /\ \A i \in 1..(Len(p) - 1) : p[i].to = p[i + 1].from

LEMMA LeadsOn ==
  ASSUME IsPermutation(rank), ValidArcs, NEW p, NEW q, NEW x, NEW y, NEW z,
         Leads(p, x, y), Leads(q, y, z)
  PROVE  Leads(p \o q, x, z)
<1>1. p \in Seq(arcs) /\ q \in Seq(arcs)
  BY DEF Leads
<1>2. /\ p \o q \in Seq(arcs) /\ Len(p \o q) = Len(p) + Len(q)
      /\ \A i \in 1..(Len(p) + Len(q)) :
           (p \o q)[i] = IF i <= Len(p) THEN p[i] ELSE q[i - Len(p)]
  BY <1>1, ConcatProperties
<1>3. CASE p = <<>>
  <2>1. p \o q = q
    BY <1>1, <1>3, ConcatEmptySeq
  <2> QED BY <1>3, <2>1 DEF Leads
<1>4. CASE q = <<>>
  <2>1. p \o q = p
    BY <1>1, <1>4, ConcatEmptySeq
  <2> QED BY <1>4, <2>1 DEF Leads
<1>5. CASE p # <<>> /\ q # <<>>
  <2>1. PICK m, n \in Nat \ {0} : m = Len(p) /\ n = Len(q)
    BY <1>1, <1>5, EmptySeq
  <2>2. PICK c \in Seq(arcs) : c = p \o q
    BY <1>2
  <2>3. Len(c) = m + n /\ \A i \in 1..(m + n) : c[i] = IF i <= m THEN p[i] ELSE q[i - m]
    BY <1>2, <2>1, <2>2
  <2>4. p[m].to = q[1].from
    <3>1. rank[p[m].to] = rank[q[1].from]
      BY <1>5, <2>1 DEF Leads
    <3>2. p[m] \in arcs /\ q[1] \in arcs
      BY <1>1, <2>1, ElementOfSeq
    <3> QED BY <3>1, <3>2 DEF ValidArcs, IsPermutation
  <2>5. c[1] = p[1] /\ c[m] = p[m] /\ c[m + 1] = q[1] /\ c[m + n] = q[n]
    <3>1. 1 <= m /\ 1 <= n /\ ~(m + 1 <= m) /\ ~(m + n <= m) /\ (m + 1) - m = 1 /\ (m + n) - m = n
          /\ 1 \in 1..(m + n) /\ m \in 1..(m + n) /\ m + 1 \in 1..(m + n) /\ m + n \in 1..(m + n)
      OBVIOUS
    <3> QED BY <2>3, <3>1
  <2>6. ASSUME NEW i \in 1..((m + n) - 1) PROVE c[i].to = c[i + 1].from
    <3>1. CASE i < m
      <4>1. i \in 1..(m - 1) /\ i \in 1..(m + n) /\ i + 1 \in 1..(m + n) /\ i <= m /\ i + 1 <= m
        BY <3>1
      <4>2. p[i].to = p[i + 1].from
        BY <1>5, <2>1, <4>1 DEF Leads
      <4> QED BY <2>3, <4>1, <4>2
    <3>2. CASE i = m
      BY <2>4, <2>5, <3>2
    <3>3. CASE i > m
      <4>1. PICK j \in 1..(n - 1) : j = i - m /\ (i + 1) - m = j + 1
        BY <3>3
      <4>2. i \in 1..(m + n) /\ i + 1 \in 1..(m + n) /\ ~(i <= m) /\ ~(i + 1 <= m)
        BY <3>3
      <4>3. q[j].to = q[j + 1].from
        BY <1>5, <2>1 DEF Leads
      <4> QED BY <2>3, <4>1, <4>2, <4>3
    <3> QED BY <3>1, <3>2, <3>3
  <2>7. rank[p[1].from] = x /\ rank[q[n].to] = z
    BY <1>5, <2>1 DEF Leads
  <2>8. c # <<>>
    BY <2>1, <2>3
  <2>9. Leads(c, x, z)
    BY <2>3, <2>5, <2>6, <2>7, <2>8 DEF Leads
  <2> QED BY <2>2, <2>9
<1> QED BY <1>3, <1>4, <1>5

(* Where the sides of a witness are                                        *)
LEMMA SidesAreBelow ==
  ASSUME up \subseteq Upward, arcs \subseteq Arc, NEW way \in Ways, NEW arc \in up, NEW w,
         IsTriangle(arc, way, w), NEW e, e = Ends(arc, way)
  PROVE  /\ << w.bottom[1], e[1] >> \in up /\ << w.bottom[1], e[2] >> \in up
         /\ w.bottom[1] \in Nat /\ arc[1] \in Nat /\ w.bottom[1] < arc[1]
         /\ w # NoWitness /\ w \notin arcs
<1>1. PICK b : b = w.bottom[1]
  OBVIOUS
<1>2. w \in Triangles /\ w = Triangle(b, arc)
  BY <1>1 DEF IsTriangle
<1>3. << b, arc[1] >> \in up /\ << b, arc[2] >> \in up
  BY <1>2 DEF Triangle, Triangles
<1>4. b \in Nat /\ arc[1] \in Nat /\ b < arc[1]
  BY <1>3, NodesAreRanks DEF Upward
<1>5. << b, e[1] >> \in up /\ << b, e[2] >> \in up
  BY <1>3 DEF Ends
<1>6. w \notin arcs
  <2>1. DOMAIN w = {"bottom", "mid"}
    BY <1>2 DEF Triangle
  <2>2. \A a \in Arc : DOMAIN a = {"from", "to", "weight"}
    BY DEF Arc
  <2> QED BY <2>1, <2>2
<1>7. w # NoWitness
  <2>1. w \in [bottom : Ranks \X Ranks, mid : Ranks \X Ranks]
    BY <1>2 DEF Triangles, Upward
  <2> QED BY <2>1, WitnessAssumption
<1> QED BY <1>1, <1>4, <1>5, <1>6, <1>7

(* One arc of Unpacked                                                     *)
UnpackTurn(arc, f) ==
    [way \in Ways |->
        LET w == witness[way][arc]
            e == Ends(arc, way)
        IN  IF w = NoWitness THEN <<>>
            ELSE IF w \in arcs THEN << w >>
            ELSE f[<< w.bottom[1], e[1] >>]["backward"]
                 \o f[<< w.bottom[1], e[2] >>]["forward"]]

Unfound(arc, way, f) == cost[way][arc] = Infinite /\ UnpackTurn(arc, f)[way] = <<>>

Single(arc, way, f) ==
    \E a \in arcs : IsOriginal(arc, way, a) /\ UnpackTurn(arc, f)[way] = << a >>

Joint(arc, way, f) ==
    \E b \in Nat, l, r \in up :
       /\ b < arc[1] /\ l = << b, Ends(arc, way)[1] >> /\ r = << b, Ends(arc, way)[2] >>
       /\ Via(b, arc, way) = cost[way][arc]
       /\ UnpackTurn(arc, f)[way] = f[l]["backward"] \o f[r]["forward"]

LEMMA UnpackTurnAt ==
  ASSUME up \subseteq Upward, arcs \subseteq Arc, Valid, NEW arc \in up, NEW way \in Ways, NEW f
  PROVE  Unfound(arc, way, f) \/ Single(arc, way, f) \/ Joint(arc, way, f)
<1>1. PICK w : w = witness[way][arc]
  OBVIOUS
<1>2. \/ w = NoWitness /\ cost[way][arc] = Infinite
      \/ IsOriginal(arc, way, w)
      \/ IsTriangle(arc, way, w)
  BY <1>1 DEF Valid
<1>3. UnpackTurn(arc, f)[way] =
        IF w = NoWitness THEN <<>>
        ELSE IF w \in arcs THEN << w >>
        ELSE f[<< w.bottom[1], Ends(arc, way)[1] >>]["backward"]
             \o f[<< w.bottom[1], Ends(arc, way)[2] >>]["forward"]
  BY <1>1 DEF UnpackTurn
<1>4. CASE w = NoWitness /\ cost[way][arc] = Infinite
  BY <1>3, <1>4 DEF Unfound
<1>5. CASE IsOriginal(arc, way, w)
  <2>1. w \in arcs
    BY <1>5 DEF IsOriginal, Originals
  <2>2. w # NoWitness
    BY <2>1, WitnessAssumption
  <2> QED BY <1>3, <1>5, <2>1, <2>2 DEF Single
<1>6. CASE IsTriangle(arc, way, w)
  <2>1. /\ << w.bottom[1], Ends(arc, way)[1] >> \in up /\ << w.bottom[1], Ends(arc, way)[2] >> \in up
        /\ w.bottom[1] \in Nat /\ arc[1] \in Nat /\ w.bottom[1] < arc[1]
        /\ w # NoWitness /\ w \notin arcs
    BY <1>6, SidesAreBelow
  <2>2. PICK b \in Nat : b = w.bottom[1]
    BY <2>1
  <2>3. PICK l, r \in up : l = << b, Ends(arc, way)[1] >> /\ r = << b, Ends(arc, way)[2] >>
    BY <2>1, <2>2
  <2>4. Via(b, arc, way) = cost[way][arc]
    BY <1>6, <2>2 DEF IsTriangle
  <2>5. UnpackTurn(arc, f)[way] = f[l]["backward"] \o f[r]["forward"]
    BY <1>3, <2>1, <2>2, <2>3
  <2> QED BY <2>1, <2>2, <2>3, <2>4, <2>5 DEF Joint
<1> QED BY <1>2, <1>4, <1>5, <1>6

LEMMA UnpackedUnfolds ==
  ASSUME up \subseteq Upward, arcs \subseteq Arc, Valid
  PROVE  \A arc \in up : Unpacked[arc] = UnpackTurn(arc, Unpacked)
<1> DEFINE V    == [Ways -> Seq(arcs)]
           step == [f \in [up -> V] |-> [arc \in up |-> UnpackTurn(arc, f)]]
           iter == CHOOSE it : it = [arc \in up |-> UnpackTurn(arc, it)]
<1>1. NodeCount \in Nat /\ \A arc \in up : arc[1] \in 0..NodeCount
  BY NodesAreRanks DEF Upward
<1>2. [way \in Ways |-> <<>>] \in V
  BY EmptySeq
<1>3. ASSUME NEW f \in [up -> V], NEW arc \in up
      PROVE  UnpackTurn(arc, f) \in V
  <2>1. \A a \in up : f[a]["forward"] \in Seq(arcs) /\ f[a]["backward"] \in Seq(arcs)
    BY DEF Ways
  <2>2. ASSUME NEW way \in Ways PROVE UnpackTurn(arc, f)[way] \in Seq(arcs)
    <3>1. CASE Unfound(arc, way, f)
      BY <3>1 DEF Unfound
    <3>2. CASE Single(arc, way, f)
      BY <3>2 DEF Single
    <3>3. CASE Joint(arc, way, f)
      BY <2>1, <3>3, ConcatProperties DEF Joint
    <3> QED BY <3>1, <3>2, <3>3, UnpackTurnAt
  <2>3. UnpackTurn(arc, f) = [way \in Ways |-> UnpackTurn(arc, f)[way]]
    BY DEF UnpackTurn
  <2> QED BY <2>2, <2>3
<1>4. step \in [[up -> V] -> [up -> V]]
  BY <1>3
<1>5. PICK level \in [up -> 0..NodeCount] : \A arc \in up : level[arc] = arc[1]
  <2>1. [arc \in up |-> arc[1]] \in [up -> 0..NodeCount]
    BY <1>1
  <2> QED BY <2>1
<1>6. LocalTo(step, level, up, V)
  <2> SUFFICES ASSUME NEW arc \in up, NEW f \in [up -> V], NEW g \in [up -> V],
                      \A j \in up : level[j] < level[arc] => f[j] = g[j]
               PROVE  UnpackTurn(arc, f) = UnpackTurn(arc, g)
    BY DEF LocalTo
  <2>1. ASSUME NEW way \in Ways PROVE UnpackTurn(arc, f)[way] = UnpackTurn(arc, g)[way]
    <3>1. PICK w : w = witness[way][arc]
      OBVIOUS
    <3>2. \A h : UnpackTurn(arc, h)[way] =
        IF w = NoWitness THEN <<>>
        ELSE IF w \in arcs THEN << w >>
        ELSE h[<< w.bottom[1], Ends(arc, way)[1] >>]["backward"]
             \o h[<< w.bottom[1], Ends(arc, way)[2] >>]["forward"]
      BY <3>1 DEF UnpackTurn
    <3>3. CASE w = NoWitness \/ w \in arcs
      BY <3>2, <3>3
    <3>4. CASE w # NoWitness /\ w \notin arcs
      <4>1. IsTriangle(arc, way, w)
        BY <3>1, <3>4 DEF Valid, IsOriginal, Originals
      <4>2. /\ << w.bottom[1], Ends(arc, way)[1] >> \in up /\ << w.bottom[1], Ends(arc, way)[2] >> \in up
            /\ w.bottom[1] < arc[1]
        BY <4>1, SidesAreBelow
      <4>3. PICK l, r \in up : /\ l = << w.bottom[1], Ends(arc, way)[1] >>
                               /\ r = << w.bottom[1], Ends(arc, way)[2] >>
        BY <4>2
      <4>4. level[l] < level[arc] /\ level[r] < level[arc]
        BY <1>5, <4>2, <4>3
      <4>5. f[l] = g[l] /\ f[r] = g[r]
        BY <4>4
      <4> QED BY <3>2, <3>4, <4>3, <4>5
    <3> QED BY <3>3, <3>4
  <2>2. \A h : UnpackTurn(arc, h) = [way \in Ways |-> UnpackTurn(arc, h)[way]]
    BY DEF UnpackTurn
  <2>3. [way \in Ways |-> UnpackTurn(arc, f)[way]] = [way \in Ways |-> UnpackTurn(arc, g)[way]]
    BY <2>1
  <2> QED BY <2>2, <2>3
<1>7. PICK f \in [up -> V] : f = step[f]
  <2>1. Descends(step, level, NodeCount, up, V)
    BY <1>1, <1>4, <1>5, <1>6 DEF Descends
  <2> HIDE DEF V, step
  <2> QED BY <1>2, <2>1, Recursion DEF FixedBy
<1>8. f = [arc \in up |-> UnpackTurn(arc, f)]
  BY <1>7
<1>9. iter = [arc \in up |-> UnpackTurn(arc, iter)]
  <2> HIDE DEF V, step
  <2> QED BY <1>8
<1>10. Unpacked = iter
  BY Zenon DEF Unpacked, UnpackTurn
<1> QED
  <2> HIDE DEF iter
  <2> QED BY <1>9, <1>10

(* What an arc unpacks to leads from its one end to the other.             *)
LEMMA UnpackedLeads ==
  ASSUME up \subseteq Upward, arcs \subseteq Arc, Valid, cost \in [Ways -> [up -> Costs]],
         NEW arc \in up, NEW way \in Ways, cost[way][arc] # Infinite
  PROVE  Leads(Unpacked[arc][way], Ends(arc, way)[1], Ends(arc, way)[2])
<1>1. PICK f : f = Unpacked
  OBVIOUS
<1>2. IsPermutation(rank) /\ ValidArcs
  BY DEF Valid
<1>3. NodeCount \in Nat /\ \A a \in up : a[1] \in 0..NodeCount
  BY NodesAreRanks DEF Upward
<1> DEFINE P(k) == \A a \in up, w \in Ways :
                     a[1] = k /\ cost[w][a] # Infinite => Leads(f[a][w], Ends(a, w)[1], Ends(a, w)[2])
           A == { k \in Nat : P(k) }
<1>4. ASSUME NEW k \in 0..NodeCount, 0..(k - 1) \subseteq A PROVE k \in A
  <2> SUFFICES ASSUME NEW a \in up, NEW w \in Ways, a[1] = k, cost[w][a] # Infinite
               PROVE  Leads(f[a][w], Ends(a, w)[1], Ends(a, w)[2])
    OBVIOUS
  <2>1. f[a] = UnpackTurn(a, f)
    BY <1>1, UnpackedUnfolds
  <2>2. CASE Single(a, w, f)
    <3>1. PICK o \in arcs : << rank[o.from], rank[o.to] >> = Ends(a, w) /\ f[a][w] = << o >>
      BY <2>1, <2>2 DEF Single, IsOriginal, Originals
    <3>2. rank[o.from] = Ends(a, w)[1] /\ rank[o.to] = Ends(a, w)[2]
      BY <3>1
    <3>3. Leads(<< o >>, rank[o.from], rank[o.to])
      BY DEF Leads
    <3> QED BY <3>1, <3>2, <3>3
  <2>3. CASE Joint(a, w, f)
    <3>1. PICK x, y : x = Ends(a, w)[1] /\ y = Ends(a, w)[2]
      OBVIOUS
    <3>2. PICK b \in Nat, l \in up, r \in up :
            /\ b < k /\ l = << b, x >> /\ r = << b, y >> /\ Via(b, a, w) # Infinite
            /\ f[a][w] = f[l]["backward"] \o f[r]["forward"]
      BY <2>1, <2>3, <3>1 DEF Joint
    <3>3. cost["backward"][l] # Infinite /\ cost["forward"][r] # Infinite
      BY <3>1, <3>2 DEF Via, Legs, Add
    <3>4. b \in 0..(k - 1)
      BY <3>2
    <3>5. b \in A
      <4> HIDE DEF A
      <4> QED BY <1>4, <3>4
    <3>6. /\ Leads(f[l]["backward"], Ends(l, "backward")[1], Ends(l, "backward")[2])
          /\ Leads(f[r]["forward"], Ends(r, "forward")[1], Ends(r, "forward")[2])
      <4>1. P(b) /\ l[1] = b /\ r[1] = b /\ "backward" \in Ways /\ "forward" \in Ways
        BY <3>2, <3>5 DEF Ways
      <4> QED BY <3>3, <4>1
    <3>7. /\ Ends(l, "backward")[1] = x /\ Ends(l, "backward")[2] = b
          /\ Ends(r, "forward")[1] = b /\ Ends(r, "forward")[2] = y
      BY <3>2 DEF Ends
    <3>8. Leads(f[l]["backward"] \o f[r]["forward"], x, y)
      BY <1>2, <3>6, <3>7, LeadsOn
    <3> QED BY <3>1, <3>2, <3>8
  <2>4. ~Unfound(a, w, f)
    BY DEF Unfound
  <2> QED BY <2>2, <2>3, <2>4, UnpackTurnAt
<1>5. 0..NodeCount \subseteq A
  <2>1. A \in SUBSET Nat
    OBVIOUS
  <2> HIDE DEF A
  <2> QED BY <1>3, <1>4, <2>1, Induction
<1>6. arc[1] \in A
  <2> HIDE DEF A
  <2> QED BY <1>3, <1>5
<1> QED BY <1>1, <1>6

(* One rank of Climb                                                       *)
ClimbTurn(way, r, f) ==
    LET arc == search[way].parent[r]
    IN  IF arc = None THEN <<>>
        ELSE IF way = "forward" THEN f[arc[1]] \o Unpacked[arc][way]
        ELSE Unpacked[arc][way] \o f[arc[1]]

LEMMA ClimbUnfolds ==
  ASSUME up \subseteq Upward, arcs \subseteq Arc, Valid, cost \in [Ways -> [up -> Costs]],
         NEW way \in Ways, NEW start, Rooted(search[way], way, start)
  PROVE  \A r \in Ranks : Climb(way)[r] = ClimbTurn(way, r, Climb(way))
<1> DEFINE V    == Seq(arcs)
           step == [f \in [Ranks -> V] |-> [r \in Ranks |-> ClimbTurn(way, r, f)]]
           iter == CHOOSE it : it = [r \in Ranks |-> ClimbTurn(way, r, it)]
<1>1. NodeCount \in Nat /\ \A r \in Ranks : r \in 0..NodeCount
  BY NodesAreRanks
<1>2. << >> \in V
  BY EmptySeq
<1>3. ASSUME NEW r \in Ranks, NEW arc, arc = search[way].parent[r], arc # None
      PROVE  arc \in up /\ arc[1] \in Ranks /\ arc[1] < r /\ Unpacked[arc][way] \in V
  <2>1. arc \in up /\ arc[2] = r /\ cost[way][arc] # Infinite
    BY <1>3 DEF Rooted
  <2>2. arc[1] \in Ranks /\ arc[1] < r
    BY <2>1 DEF Upward
  <2>3. Unpacked[arc][way] \in V
    BY <2>1, UnpackedLeads DEF Leads
  <2> QED BY <2>1, <2>2, <2>3
<1>4. ASSUME NEW f \in [Ranks -> V], NEW r \in Ranks
      PROVE  ClimbTurn(way, r, f) \in V
  <2>1. PICK arc : arc = search[way].parent[r]
    OBVIOUS
  <2>2. CASE arc = None
    BY <1>2, <2>1, <2>2 DEF ClimbTurn
  <2>3. CASE arc # None
    <3>1. PICK u, c \in V : u = Unpacked[arc][way] /\ c = f[arc[1]]
      BY <1>3, <2>1, <2>3
    <3>2. u \o c \in V /\ c \o u \in V
      BY ConcatProperties
    <3>3. ClimbTurn(way, r, f) = IF way = "forward" THEN c \o u ELSE u \o c
      BY <2>1, <2>3, <3>1 DEF ClimbTurn
    <3> QED BY <3>2, <3>3
  <2> QED BY <2>2, <2>3
<1>5. step \in [[Ranks -> V] -> [Ranks -> V]]
  BY <1>4
<1>6. PICK level \in [Ranks -> 0..NodeCount] : \A r \in Ranks : level[r] = r
  <2>1. [r \in Ranks |-> r] \in [Ranks -> 0..NodeCount]
    BY <1>1
  <2> QED BY <2>1
<1>7. LocalTo(step, level, Ranks, V)
  <2> SUFFICES ASSUME NEW r \in Ranks, NEW f \in [Ranks -> V], NEW g \in [Ranks -> V],
                      \A j \in Ranks : level[j] < level[r] => f[j] = g[j]
               PROVE  ClimbTurn(way, r, f) = ClimbTurn(way, r, g)
    BY DEF LocalTo
  <2>1. PICK arc : arc = search[way].parent[r]
    OBVIOUS
  <2>2. CASE arc = None
    BY <2>1, <2>2 DEF ClimbTurn
  <2>3. CASE arc # None
    <3>1. f[arc[1]] = g[arc[1]]
      BY <1>3, <1>6, <2>1, <2>3
    <3> QED BY <2>1, <2>3, <3>1 DEF ClimbTurn
  <2> QED BY <2>2, <2>3
<1>8. PICK f \in [Ranks -> V] : f = step[f]
  <2>1. Descends(step, level, NodeCount, Ranks, V)
    BY <1>1, <1>5, <1>6, <1>7 DEF Descends
  <2> HIDE DEF V, step
  <2> QED BY <1>2, <2>1, Recursion DEF FixedBy
<1>9. f = [r \in Ranks |-> ClimbTurn(way, r, f)]
  BY <1>8
<1>10. iter = [r \in Ranks |-> ClimbTurn(way, r, iter)]
  <2> HIDE DEF V, step
  <2> QED BY <1>9
<1>11. Climb(way) = iter
  BY Zenon DEF Climb, ClimbTurn
<1> QED
  <2> HIDE DEF iter
  <2> QED BY <1>10, <1>11

(* From the start up to a rank that a search has reached, or down from it. *)
Climbs(p, way, start, r) ==
    IF way = "forward" THEN Leads(p, start, r) ELSE Leads(p, r, start)

LEMMA ClimbLeads ==
  ASSUME up \subseteq Upward, arcs \subseteq Arc, Valid, cost \in [Ways -> [up -> Costs]],
         NEW way \in Ways, NEW start \in Ranks, Rooted(search[way], way, start),
         NEW rr \in Ranks, search[way].dist[rr] # Infinite
  PROVE  Climbs(Climb(way)[rr], way, start, rr)
<1>1. PICK f : f = Climb(way)
  OBVIOUS
<1>2. IsPermutation(rank) /\ ValidArcs
  BY DEF Valid
<1>3. NodeCount \in Nat /\ \A r \in Ranks : r \in 0..NodeCount
  BY NodesAreRanks
<1> DEFINE P(r) == r \in Ranks /\ search[way].dist[r] # Infinite => Climbs(f[r], way, start, r)
           A == { k \in Nat : P(k) }
<1>4. ASSUME NEW k \in 0..NodeCount, 0..(k - 1) \subseteq A PROVE k \in A
  <2> SUFFICES ASSUME k \in Ranks, search[way].dist[k] # Infinite PROVE Climbs(f[k], way, start, k)
    OBVIOUS
  <2>1. f[k] = ClimbTurn(way, k, f)
    BY <1>1, ClimbUnfolds
  <2>2. CASE k = start
    <3>1. f[k] = << >>
      BY <2>1, <2>2 DEF ClimbTurn, Rooted
    <3> QED BY <2>2, <3>1 DEF Climbs, Leads
  <2>3. CASE k # start
    <3>1. PICK p \in Ranks : /\ search[way].parent[k] = << p, k >> /\ << p, k >> \in up
                             /\ search[way].dist[p] # Infinite /\ cost[way][<< p, k >>] # Infinite
      BY <2>3 DEF Rooted
    <3>2. PICK arc \in up : arc = << p, k >>
      BY <3>1
    <3>3. arc # None
      BY <3>2, CchRouterAssumption DEF Upward
    <3>4. f[k] = IF way = "forward" THEN f[p] \o Unpacked[arc][way] ELSE Unpacked[arc][way] \o f[p]
      BY <2>1, <3>1, <3>2, <3>3 DEF ClimbTurn
    <3>5. p \in 0..(k - 1)
      BY <3>1, NodesAreRanks DEF Upward
    <3>6. p \in A
      <4> HIDE DEF A
      <4> QED BY <1>4, <3>5
    <3>7. Climbs(f[p], way, start, p)
      BY <3>1, <3>6
    <3>8. Leads(Unpacked[arc][way], Ends(arc, way)[1], Ends(arc, way)[2])
      BY <3>1, <3>2, UnpackedLeads
    <3>9. CASE way = "forward"
      <4>1. Leads(f[p], start, p) /\ Leads(Unpacked[arc][way], p, k)
        BY <3>2, <3>7, <3>8, <3>9 DEF Climbs, Ends
      <4>2. Leads(f[p] \o Unpacked[arc][way], start, k)
        BY <1>2, <4>1, LeadsOn
      <4> QED BY <3>4, <3>9, <4>2 DEF Climbs
    <3>10. CASE way # "forward"
      <4>1. Leads(f[p], p, start) /\ Leads(Unpacked[arc][way], k, p)
        BY <3>2, <3>7, <3>8, <3>10 DEF Climbs, Ends
      <4>2. Leads(Unpacked[arc][way] \o f[p], k, start)
        BY <1>2, <4>1, LeadsOn
      <4> QED BY <3>4, <3>10, <4>2 DEF Climbs
    <3> QED BY <3>9, <3>10
  <2> QED BY <2>2, <2>3
<1>5. 0..NodeCount \subseteq A
  <2>1. A \in SUBSET Nat
    OBVIOUS
  <2> HIDE DEF A
  <2> QED BY <1>3, <1>4, <2>1, Induction
<1>6. rr \in A
  <2> HIDE DEF A
  <2> QED BY <1>3, <1>5
<1> QED BY <1>1, <1>6

(* Both ways of a meeting make one, from the source to the target.         *)
LEMMA EdgesConnect ==
  ASSUME up \subseteq Upward, arcs \subseteq Arc, Valid, cost \in [Ways -> [up -> Costs]],
         NEW s \in Nodes, NEW t \in Nodes, s # t,
         Ended("forward", rank[s]), Ended("backward", rank[t]), Total(Meeting) # Infinite
  PROVE  /\ Edges \in Seq(arcs) /\ Connected(s, t, Edges)
         /\ Leads(Edges, rank[s], rank[t])
<1>1. PICK m \in Ranks : m = Meeting
  BY MeetingIsLeast
<1>2. IsPermutation(rank) /\ ValidArcs
  BY DEF Valid
<1>3. search["forward"].dist[m] # Infinite /\ search["backward"].dist[m] # Infinite
  BY <1>1 DEF Total, Add
<1>4. rank[s] \in Ranks /\ rank[t] \in Ranks /\ rank[s] # rank[t]
  BY <1>2 DEF IsPermutation
<1>5. Climbs(Climb("forward")[m], "forward", rank[s], m)
  BY <1>3, <1>4, ClimbLeads DEF Ended, Ways
<1>6. Climbs(Climb("backward")[m], "backward", rank[t], m)
  BY <1>3, <1>4, ClimbLeads DEF Ended, Ways
<1>7. Leads(Climb("forward")[m], rank[s], m) /\ Leads(Climb("backward")[m], m, rank[t])
  BY <1>5, <1>6 DEF Climbs
<1>8. PICK p : p = Edges /\ Leads(p, rank[s], rank[t])
  BY <1>1, <1>2, <1>7, LeadsOn DEF Edges
<1>9. PICK n \in Nat \ {0} : n = Len(p) /\ p \in Seq(arcs) /\ p # << >>
  BY <1>4, <1>8, EmptySeq DEF Leads
<1>10. p[1] \in arcs /\ p[n] \in arcs
  BY <1>9, ElementOfSeq
<1>11. p[1].from = s /\ p[n].to = t
  <2>1. rank[p[1].from] = rank[s] /\ rank[p[n].to] = rank[t]
    BY <1>8, <1>9 DEF Leads
  <2>2. p[1].from \in Nodes /\ p[n].to \in Nodes
    BY <1>2, <1>10 DEF ValidArcs
  <2> QED BY <1>2, <2>1, <2>2 DEF IsPermutation
<1>12. ASSUME NEW i \in 1..n PROVE p[i].from = IF i = 1 THEN s ELSE p[i - 1].to
  <2>1. CASE i = 1
    BY <1>11, <2>1
  <2>2. CASE i # 1
    <3>1. PICK j \in 1..(n - 1) : j = i - 1 /\ j + 1 = i
      BY <2>2
    <3>2. p[j].to = p[j + 1].from
      BY <1>8, <1>9 DEF Leads
    <3> QED BY <2>2, <3>1, <3>2
  <2> QED BY <2>1, <2>2
<1>13. Last(p).to = t
  BY <1>9, <1>11 DEF Last
<1> QED BY <1>8, <1>9, <1>12, <1>13 DEF Connected

-----------------------------------------------------------------------------
(* What a loaded pack is known by                                          *)
Grounded ==
    /\ up \subseteq Upward /\ arcs \subseteq Arc /\ cost \in [Ways -> [up -> Costs]]
    /\ Valid /\ ValidArcs /\ Admitted /\ IsPermutation(rank)
    /\ ~altered => Bounded /\ \E T : Complete(T)

LEMMA LoadedIsGrounded == IInv /\ CustomInv /\ stage = "loaded" => Grounded
<1> SUFFICES ASSUME IInv, CustomInv, stage = "loaded" PROVE Grounded
  OBVIOUS
<1>1. /\ up \subseteq Upward /\ arcs \subseteq Arc /\ cost \in [Ways -> [up -> Costs]]
      /\ Valid /\ bottom = NodeCount /\ stage \in Filled
  BY DEF IInv, PackTypeOK, CustomInv, Filled, Upward
<1>2. ValidArcs /\ Admitted /\ IsPermutation(rank)
  BY <1>1 DEF Valid, Admitted
<1>3. ~altered => Bounded /\ \E T \in Tables : Tabled(T)
  BY <1>1, <1>2 DEF CustomInv
<1>4. \A T \in Tables : Tabled(T) => Complete(T)
  BY <1>1 DEF Tabled, Complete
<1> QED BY <1>1, <1>2, <1>3, <1>4 DEF Grounded

LEMMA CompleteStays ==
  ASSUME UNCHANGED << arcs, rank, up, cost >>, NEW T
  PROVE  Complete(T)' <=> Complete(T)
<1>1. Swept(T, NodeCount)' <=> Swept(T, NodeCount)
  BY GraphStays DEF Swept
<1>2. Direct(T[0])' <=> Direct(T[0])
  BY GraphStays
<1>3. Frozen(T, NodeCount)' <=> Frozen(T, NodeCount)
  BY DEF Frozen
<1> QED BY <1>1, <1>2, <1>3 DEF Complete

(* The last table has the distances.                                       *)
LEMMA DistanceIsLast ==
  ASSUME Grounded, NEW T, Complete(T), NEW source \in Nodes, NEW target \in Nodes
  PROVE  Distance(source, target) = T[NodeCount][rank[source]][rank[target]]
<1>1. NodeCount \in 0..NodeCount /\ 0 \in 0..NodeCount
  BY NodesAreRanks
<1>2. PICK d \in Table : d = T[NodeCount] /\ Closed(d, NodeCount) /\ Simple(d, NodeCount)
  BY <1>1 DEF Complete, Tables, Swept
<1>3. Turns(T)
  BY DEF Complete, Turns, Swept
<1>4. Direct(d)
  <2> SUFFICES ASSUME NEW a \in arcs PROVE d[rank[a.from]][rank[a.to]] <= a.weight
    BY DEF Direct
  <2>1. PICK x, y \in Ranks : x = rank[a.from] /\ y = rank[a.to]
    BY DEF Grounded, ValidArcs, IsPermutation
  <2>2. d[x][y] <= T[0][x][y] /\ d[x][y] \in Nat /\ T[0][x][y] \in Nat
    BY <1>1, <1>2, <1>3, TablesFall DEF Costs
  <2>3. T[0][x][y] <= a.weight /\ a.weight \in Nat
    BY <2>1 DEF Complete, Direct, Grounded, Arc
  <2> QED BY <2>1, <2>2, <2>3
<1> QED BY <1>2, <1>4, DistanceIsTable DEF Grounded

-----------------------------------------------------------------------------
(* Where a search of the leg starts                                        *)
Start(way) == rank[IF way = "forward" THEN Source(request, Leg) ELSE Target(request, Leg)]

Searching(s, way, start) ==
    /\ Rooted(s, way, start)
    /\ \A T : Complete(T) => Explored(s, Along(T, way), way, start)

LegInProgress ==
    search # None =>
        /\ DOMAIN search = Ways
        /\ {Source(request, Leg), Target(request, Leg)} \subseteq Nodes
        /\ Source(request, Leg) # Target(request, Leg)
        /\ \A way \in Ways : Searching(search[way], way, Start(way))

LegsRouted ==
    /\ \E S : legs \in Seq(S)
    /\ ~altered => \A i \in 1..Len(legs) :
         legs[i].weight = Distances(request)[i] /\ legs[i].weight \in 0..LongestWay

RouterInv ==
    /\ request = None => legs = <<>> /\ search = None /\ answer = None
    /\ request # None => request \in Requests /\ stage = "loaded" /\ LegInProgress /\ LegsRouted
    /\ RoutesAreShortest

(* An order that is fulfilled                                              *)
Right(a, q) ==
    IF Infinite \in ToSet(Distances(q)) THEN a = [error |-> "NoRoute"]
    ELSE "geometry" \in DOMAIN a /\ a.weight = Sum(Distances(q))

Plain(q) == ~altered /\ Len(q.controls) \in 2..MaxControls /\ Nowhere \notin ToSet(q.controls)

LEMMA RightIsShortest == RoutesAreShortest <=> (answer # None /\ Plain(request) => Right(answer, request))
BY DEF RoutesAreShortest, Plain, Right, Answered

(* The distances as a function of the arcs                                 *)
LeastOf(A, source) ==
    LET least[k \in 0..(NodeCount - 1)] ==
          [n \in Nodes |->
              LET ways == { Add(least[k - 1][a.from], a.weight) : a \in { b \in A : b.to = n } }
              IN  IF n = source THEN 0
                  ELSE IF k = 0 \/ ways = {} THEN Infinite
                  ELSE CHOOSE c \in ways : \A d \in ways : c <= d]
    IN  least

LEMMA LeastIsOf == \A s : Least(s) = LeastOf(arcs, s)
BY Zenon DEF Least, LeastOf

LEMMA LeastIsOfThen == \A s : Least(s)' = LeastOf(arcs', s)
BY Zenon DEF Least, LeastOf

LEMMA DistanceStays ==
  ASSUME arcs' = arcs
  PROVE  \A s, t : Distance(s, t)' = Distance(s, t)
<1>1. \A s : Least(s)' = Least(s)
  BY LeastIsOf, LeastIsOfThen
<1> QED BY <1>1 DEF Distance

LEMMA DistancesStay ==
  ASSUME arcs' = arcs, NEW q
  PROVE  Distances(q)' = Distances(q)
<1>1. \A s, t : Distance(s, t)' = Distance(s, t)
  BY DistanceStays
<1> QED BY <1>1 DEF Distances

LEMMA RightStays ==
  ASSUME arcs' = arcs, altered' = altered, NEW q, NEW a
  PROVE  (Right(a, q)' <=> Right(a, q)) /\ (Plain(q)' <=> Plain(q))
BY DistancesStay DEF Right, Plain

LEMMA SearchingStays ==
  ASSUME UNCHANGED << arcs, rank, up, cost >>, NEW s, NEW way, NEW start
  PROVE  Searching(s, way, start)' <=> Searching(s, way, start)
<1>1. Rooted(s, way, start)' <=> Rooted(s, way, start)
  BY DEF Rooted
<1>2. \A T : Explored(s, T, way, start)' <=> Explored(s, T, way, start)
  BY DEF Explored, Higher
<1>3. \A T : Complete(T)' <=> Complete(T)
  BY CompleteStays
<1> QED BY <1>1, <1>2, <1>3 DEF Searching

-----------------------------------------------------------------------------
LEMMA ShortestThen ==
  ASSUME UNCHANGED << pack_vars, request >>,
         answer' # None /\ Plain(request) => Right(answer', request)
  PROVE  RoutesAreShortest'
<1>1. arcs' = arcs /\ altered' = altered /\ request' = request
  BY DEF pack_vars
<1>2. PICK q, a : q = request /\ a = answer'
  OBVIOUS
<1>3. Distances(request)' = Distances(q)
  <2>1. Distances(request)' = Distances(q)'
    BY <1>1, <1>2 DEF Distances, Distance
  <2> QED BY <1>1, <2>1, DistancesStay
<1>4. a # None /\ Plain(q) => Right(a, q)
  BY <1>2
<1> QED
  BY <1>1, <1>2, <1>3, <1>4 DEF RoutesAreShortest, Answered, Plain, Right

LEMMA LegsStay ==
  ASSUME UNCHANGED << pack_vars, request, legs >>, LegsRouted
  PROVE  LegsRouted'
<1>1. arcs' = arcs /\ altered' = altered /\ request' = request
  BY DEF pack_vars
<1>2. PICK q : q = request
  OBVIOUS
<1>3. Distances(request)' = Distances(request)
  <2>1. Distances(request)' = Distances(q)'
    BY <1>1, <1>2 DEF Distances, Distance
  <2> QED BY <1>1, <1>2, <2>1, DistancesStay
<1> QED BY <1>1, <1>3 DEF LegsRouted

(* The leg in progress is one of the request.                              *)
LEMMA LegAt ==
  ASSUME request \in Requests, Routing, LegsRouted
  PROVE  /\ Leg \in 1..LegCount(request) /\ Len(legs) \in Nat
         /\ {Source(request, Leg), Target(request, Leg)} \subseteq ToSet(request.controls)
         /\ ToSet(request.controls) \subseteq Nodes \cup {Nowhere}
         /\ Distances(request)[Leg] = Distance(Source(request, Leg), Target(request, Leg))
         /\ DOMAIN Distances(request) = 1..LegCount(request)
<1>1. PICK c \in Seq(Nodes \cup {Nowhere}) : c = request.controls
  BY CchRouterAssumption
<1>2. PICK n, k \in Nat : n = Len(c) /\ k = Len(legs)
  BY <1>1 DEF LegsRouted
<1>3. PICK x \in {0, 1} : LegCount(request) = n - 1 + x /\ k < n - 1 + x
  <2>1. PICK x \in {0, 1} : x = IF request.closed THEN 1 ELSE 0
    OBVIOUS
  <2>2. LegCount(request) = n - 1 + x
    BY <1>1, <1>2, <2>1 DEF LegCount
  <2> QED BY <1>2, <2>2 DEF Routing
<1>4. k + 1 \in 1..n /\ (k + 1 # n => k + 2 \in 1..n) /\ 1 \in 1..n /\ k + 1 \in 1..LegCount(request)
  BY <1>3
<1>5. ToSet(c) = { c[i] : i \in 1..n }
  BY <1>2 DEF ToSet
<1>6. \A i \in 1..n : c[i] \in Nodes \cup {Nowhere}
  BY <1>2, ElementOfSeq
<1>7. Leg = k + 1 /\ Source(request, Leg) = c[k + 1]
      /\ Target(request, Leg) = IF k + 1 = n THEN c[1] ELSE c[k + 2]
  <2>1. (k + 1) + 1 = k + 2
    OBVIOUS
  <2> QED BY <1>1, <1>2, <2>1 DEF Leg, Source, Target
<1>8. {Source(request, Leg), Target(request, Leg)} \subseteq ToSet(c)
  BY <1>4, <1>5, <1>7
<1> QED BY <1>1, <1>2, <1>4, <1>5, <1>6, <1>7, <1>8 DEF Distances

LEMMA LegsGrow ==
  ASSUME UNCHANGED << pack_vars, request >>, request \in Requests, Routing, LegsRouted,
         NEW part, legs' = Append(legs, part),
         ~altered => part.weight = Distance(Source(request, Leg), Target(request, Leg))
                     /\ part.weight \in 0..LongestWay
  PROVE  LegsRouted'
<1>1. arcs' = arcs /\ altered' = altered /\ request' = request
  BY DEF pack_vars
<1>2. PICK q, d : q = request /\ d = Distances(request)
  OBVIOUS
<1>3. Distances(request)' = d
  <2>1. Distances(request)' = Distances(q)'
    BY <1>1, <1>2 DEF Distances, Distance
  <2> QED BY <1>1, <1>2, <2>1, DistancesStay
<1>4. PICK S : legs \in Seq(S)
  BY DEF LegsRouted
<1>5. PICK U : U = S \cup {part}
  OBVIOUS
<1>6. legs \in Seq(U) /\ part \in U
  BY <1>4, <1>5
<1>7. PICK k \in Nat : k = Len(legs)
  BY <1>4
<1>8. /\ legs' \in Seq(U) /\ Len(legs') = k + 1
      /\ \A i \in 1..k : legs'[i] = legs[i]
      /\ legs'[k + 1] = part
  BY <1>6, <1>7, AppendProperties
<1>9. d[k + 1] = Distance(Source(request, Leg), Target(request, Leg))
  BY <1>2, <1>7, LegAt DEF Leg
<1>10. ASSUME ~altered, NEW i \in 1..(k + 1) PROVE legs'[i].weight = d[i] /\ legs'[i].weight \in 0..LongestWay
  <2>1. CASE i = k + 1
    BY <1>8, <1>9, <1>10, <2>1
  <2>2. CASE i # k + 1
    <3>1. i \in 1..k
      BY <2>2
    <3> QED BY <1>2, <1>7, <1>8, <1>10, <3>1 DEF LegsRouted
  <2> QED BY <2>1, <2>2
<1> QED BY <1>1, <1>3, <1>8, <1>10 DEF LegsRouted

LEMMA SearchGoesOn ==
  ASSUME UNCHANGED << pack_vars, request, legs >>, DOMAIN search' = Ways,
         {Source(request, Leg), Target(request, Leg)} \subseteq Nodes,
         Source(request, Leg) # Target(request, Leg),
         \A way \in Ways : Searching(search'[way], way, Start(way))
  PROVE  LegInProgress'
<1>1. UNCHANGED << arcs, rank, up, cost >> /\ request' = request /\ legs' = legs
  BY DEF pack_vars
<1>2. ASSUME NEW way \in Ways PROVE Searching(search[way], way, Start(way))'
  <2>1. PICK s, start : s = search'[way] /\ start = Start(way)
    OBVIOUS
  <2>2. Start(way)' = start
    BY <1>1, <2>1 DEF Start, Leg, Source, Target
  <2>3. Rooted(s, way, start)' /\ \A T : Complete(T)' => Explored(s, Along(T, way), way, start)'
    BY <1>1, <1>2, <2>1, SearchingStays DEF Searching
  <2>4. Rooted(search[way], way, Start(way))'
    BY <2>1, <2>2, <2>3 DEF Rooted
  <2>5. ASSUME NEW T, Complete(T)' PROVE Explored(search[way], Along(T, way), way, Start(way))'
    <3>1. PICK U : U = Along(T, way)
      OBVIOUS
    <3>2. Explored(s, U, way, start)'
      BY <2>3, <2>5, <3>1
    <3>3. Explored(search[way], U, way, Start(way))'
      BY <2>1, <2>2, <3>2 DEF Explored
    <3> QED BY <3>1, <3>3
  <2> QED BY <2>4, <2>5 DEF Searching
<1>3. Source(request, Leg)' = Source(request, Leg) /\ Target(request, Leg)' = Target(request, Leg)
  BY <1>1 DEF Leg, Source, Target
<1> QED BY <1>2, <1>3 DEF LegInProgress

LEMMA AskKeeps == ASSUME RouterInv, NEW q \in Requests, Ask(q) PROVE RouterInv'
<1>1. /\ request = None /\ legs = <<>> /\ search = None /\ answer = None /\ stage = "loaded"
      /\ request' = q /\ stage' = stage
  BY DEF Ask, RouterInv, pack_vars
<1>2. q # None
  BY CchRouterAssumption
<1>3. legs' = <<>> /\ search' = None /\ (Len(q.controls) \in 2..MaxControls => answer' = None)
  BY <1>1 DEF Ask, Fail
<1>4. LegsRouted' /\ LegInProgress'
  <2>1. legs' \in Seq({}) /\ Len(legs') = 0
    BY <1>3, EmptySeq
  <2> QED BY <1>3, <2>1 DEF LegsRouted, LegInProgress
<1>5. RoutesAreShortest'
  BY <1>1, <1>3 DEF RoutesAreShortest
<1> QED BY <1>1, <1>2, <1>4, <1>5 DEF RouterInv

(* A step of a router that has been asked and has not answered             *)
LEMMA RouterGoesOn ==
  ASSUME RouterInv, request # None, UNCHANGED << pack_vars, request >>,
         LegInProgress', LegsRouted', RoutesAreShortest'
  PROVE  RouterInv'
BY DEF RouterInv, pack_vars

LEMMA SearchingBegins ==
  ASSUME Grounded, NEW way \in Ways, NEW start \in Ranks
  PROVE  Searching(SearchFrom(start), way, start)
<1>1. ASSUME NEW T, Complete(T) PROVE Laid(Along(T, way), way)
  BY <1>1, CompleteIsLaid DEF Grounded
<1> QED BY <1>1, SearchBegins DEF Searching

LEMMA BeginLegKeeps == ASSUME Grounded, RouterInv, BeginLeg PROVE RouterInv'
<1>1. /\ Routing /\ search = None /\ request # None /\ answer = None /\ request \in Requests /\ LegsRouted
      /\ UNCHANGED << pack_vars, request >>
  BY DEF BeginLeg, Routing, RouterInv
<1>2. PICK s, t : s = Source(request, Leg) /\ t = Target(request, Leg)
  OBVIOUS
<1>3. {s, t} \subseteq ToSet(request.controls) /\ {s, t} \subseteq Nodes \cup {Nowhere}
  BY <1>1, <1>2, LegAt
<1>4. CASE Nowhere \in {s, t}
  <2>1. Fail("SnapOutOfRange")
    BY <1>2, <1>4 DEF BeginLeg
  <2>2. search' = None /\ legs' = legs /\ ~Plain(request)
    BY <1>3, <1>4, <2>1 DEF Fail, Plain
  <2>3. LegInProgress' /\ LegsRouted'
    BY <1>1, <2>2, LegsStay DEF LegInProgress
  <2> QED BY <1>1, <2>2, <2>3, ShortestThen, RouterGoesOn
<1>5. CASE Nowhere \notin {s, t} /\ s = t
  <2>1. legs' = Append(legs, [weight |-> 0, edges |-> <<>>, nodes |-> << s >>])
        /\ search' = None /\ answer' = None
    BY <1>1, <1>2, <1>5 DEF BeginLeg
  <2>2. Distance(s, t) = 0 /\ 0 \in 0..LongestWay
    BY <1>3, <1>5, LeastIsBounded, LongestWayFits DEF Grounded
  <2>3. LegsRouted'
    BY <1>1, <1>2, <2>1, <2>2, LegsGrow
  <2>4. LegInProgress'
    BY <2>1 DEF LegInProgress
  <2> QED BY <1>1, <2>1, <2>3, <2>4, ShortestThen, RouterGoesOn
<1>6. CASE Nowhere \notin {s, t} /\ s # t
  <2>1. search' = [forward |-> SearchFrom(rank[s]), backward |-> SearchFrom(rank[t])]
        /\ legs' = legs /\ answer' = None
    BY <1>1, <1>2, <1>6 DEF BeginLeg, SearchFrom
  <2>2. s \in Nodes /\ t \in Nodes /\ rank[s] \in Ranks /\ rank[t] \in Ranks
    BY <1>3, <1>6 DEF Grounded, IsPermutation
  <2>3. ASSUME NEW way \in Ways PROVE Searching(search'[way], way, Start(way))
    <3>1. CASE way = "forward"
      <4>1. search'[way] = SearchFrom(rank[s]) /\ Start(way) = rank[s]
        BY <1>2, <2>1, <3>1 DEF Start
      <4> QED BY <2>2, <4>1, SearchingBegins
    <3>2. CASE way = "backward"
      <4>1. search'[way] = SearchFrom(rank[t]) /\ Start(way) = rank[t]
        BY <1>2, <2>1, <3>2 DEF Start
      <4> QED BY <2>2, <4>1, SearchingBegins
    <3> QED BY <3>1, <3>2 DEF Ways
  <2>4. DOMAIN search' = Ways
    BY <2>1 DEF Ways
  <2>5. LegInProgress' /\ LegsRouted'
    BY <1>1, <1>2, <1>6, <2>1, <2>2, <2>3, <2>4, SearchGoesOn, LegsStay
  <2> QED BY <1>1, <2>1, <2>5, ShortestThen, RouterGoesOn
<1> QED BY <1>4, <1>5, <1>6

(* A search that is under way, and where                                   *)
LEMMA SearchIsOn ==
  ASSUME Grounded, RouterInv, Routing, search # None
  PROVE  /\ request \in Requests /\ request # None /\ answer = None /\ LegsRouted
         /\ DOMAIN search = Ways
         /\ {Source(request, Leg), Target(request, Leg)} \subseteq Nodes
         /\ Source(request, Leg) # Target(request, Leg)
         /\ \A way \in Ways : Start(way) \in Ranks /\ Searching(search[way], way, Start(way))
BY DEF RouterInv, Routing, LegInProgress, Start, Grounded, IsPermutation

LEMMA SettleTurn ==
  ASSUME NEW way \in Ways, Settle(way)
  PROVE  IF \E h \in Heads(search[way]) :
               Overflows(First(search[way].queue)[1], cost[way][<< First(search[way].queue)[2], h >>])
         THEN Fail("CostOverflow")
         ELSE /\ search' = [search EXCEPT ![way] = Settled(search[way], way)]
              /\ legs' = legs /\ answer' = answer
BY Zenon DEF Settle, Settled, Heads, Better, Offer

LEMMA SearchingSettles ==
  ASSUME Grounded, NEW way \in Ways, NEW start \in Ranks, NEW s, Searching(s, way, start), s.queue # {}
  PROVE  Searching(Settled(s, way), way, start)
<1>1. Rooted(s, way, start) /\ up \subseteq Upward /\ cost \in [Ways -> [up -> Costs]]
  BY DEF Searching, Grounded
<1>2. Rooted(Settled(s, way), way, start)
  BY <1>1, SettledIsRooted
<1>3. ASSUME NEW T, Complete(T) PROVE Explored(Settled(s, way), Along(T, way), way, start)
  <2>1. PICK U : U = Along(T, way) /\ Laid(U, way) /\ Explored(s, U, way, start)
    BY <1>1, <1>3, CompleteIsLaid DEF Searching
  <2>2. Explored(Settled(s, way), U, way, start)
    BY <1>1, <2>1, SettledIsExplored
  <2> QED BY <2>1, <2>2
<1> QED BY <1>2, <1>3 DEF Searching

LEMMA SettleKeeps == ASSUME Grounded, RouterInv, NEW way \in Ways, Settle(way) PROVE RouterInv'
<1>1. /\ Routing /\ search # None /\ search[way].queue # {} /\ UNCHANGED << pack_vars, request >>
  BY DEF Settle
<1>2. PICK s : s = search[way]
  OBVIOUS
<1>3. /\ request \in Requests /\ request # None /\ answer = None /\ LegsRouted
      /\ DOMAIN search = Ways
      /\ {Source(request, Leg), Target(request, Leg)} \subseteq Nodes
      /\ Source(request, Leg) # Target(request, Leg)
      /\ \A w \in Ways : Start(w) \in Ranks /\ Searching(search[w], w, Start(w))
  BY <1>1, SearchIsOn
<1>4. CASE \E h \in Heads(s) : Overflows(First(s.queue)[1], cost[way][<< First(s.queue)[2], h >>])
  <2>1. search' = None /\ legs' = legs
    BY <1>2, <1>4, SettleTurn DEF Fail
  <2>2. PICK h \in Heads(s) : Overflows(First(s.queue)[1], cost[way][<< First(s.queue)[2], h >>])
    BY <1>4
  <2>3. ASSUME ~altered PROVE FALSE
    <3>1. PICK T : Complete(T)
      BY <2>3 DEF Grounded
    <3>2. PICK U : U = Along(T, way) /\ Laid(U, way)
      BY <3>1, CompleteIsLaid DEF Grounded
    <3>3. PICK start \in Ranks : Rooted(s, way, start) /\ Explored(s, U, way, start)
      BY <1>2, <1>3, <3>1, <3>2 DEF Searching
    <3>4. ~Overflows(First(s.queue)[1], cost[way][<< First(s.queue)[2], h >>])
      BY <1>1, <1>2, <2>3, <3>2, <3>3, SearchFits DEF Grounded
    <3> QED BY <2>2, <3>4
  <2>4. ~Plain(request)
    BY <2>3 DEF Plain
  <2>5. LegInProgress' /\ LegsRouted'
    BY <1>1, <1>3, <2>1, LegsStay DEF LegInProgress
  <2> QED BY <1>1, <1>3, <2>4, <2>5, ShortestThen, RouterGoesOn
<1>5. CASE ~ \E h \in Heads(s) : Overflows(First(s.queue)[1], cost[way][<< First(s.queue)[2], h >>])
  <2>1. search' = [search EXCEPT ![way] = Settled(s, way)] /\ legs' = legs /\ answer' = None
    BY <1>2, <1>3, <1>5, SettleTurn
  <2>2. ASSUME NEW w \in Ways PROVE Searching(search'[w], w, Start(w))
    <3>1. CASE w = way
      <4>1. PICK start \in Ranks : start = Start(way) /\ Searching(s, way, start)
        BY <1>2, <1>3
      <4>2. Searching(Settled(s, way), way, start)
        BY <1>1, <1>2, <4>1, SearchingSettles
      <4>3. search'[w] = Settled(s, way)
        BY <1>3, <2>1, <3>1
      <4> QED BY <3>1, <4>1, <4>2, <4>3
    <3>2. CASE w # way
      <4>1. search'[w] = search[w]
        BY <1>3, <2>1, <3>2
      <4> QED BY <1>3, <4>1
    <3> QED BY <3>1, <3>2
  <2>3. DOMAIN search' = Ways
    BY <1>3, <2>1
  <2>4. LegInProgress' /\ LegsRouted'
    BY <1>1, <1>3, <2>1, <2>2, <2>3, SearchGoesOn, LegsStay
  <2> QED BY <1>1, <1>3, <2>1, <2>4, ShortestThen, RouterGoesOn
<1> QED BY <1>4, <1>5

(* What both searches of a leg know when they are over                     *)
LEMMA LegIsShortest ==
  ASSUME Grounded, RouterInv, Routing, search # None, ~altered,
         \A way \in Ways : search[way].queue = {}
  PROVE  /\ Total(Meeting) = Distance(Source(request, Leg), Target(request, Leg))
         /\ Meeting \in Ranks
         /\ \A r \in Ranks : ~Overflows(search["forward"].dist[r], search["backward"].dist[r])
         /\ Total(Meeting) # Infinite =>
              Connected(Source(request, Leg), Target(request, Leg), Edges)
         /\ Total(Meeting) = Infinite => \A r \in Ranks : Total(r) = Infinite
<1>1. PICK s, t \in Nodes : s = Source(request, Leg) /\ t = Target(request, Leg) /\ s # t
  BY SearchIsOn
<1>2. Start("forward") = rank[s] /\ Start("backward") = rank[t]
  BY <1>1 DEF Start
<1>3. PICK x, y \in Ranks : x = rank[s] /\ y = rank[t]
  BY DEF Grounded, IsPermutation
<1>4. Searching(search["forward"], "forward", x) /\ Searching(search["backward"], "backward", y)
  BY <1>2, <1>3, SearchIsOn DEF Ways
<1>5. Ended("forward", x) /\ Ended("backward", y)
  BY <1>4 DEF Ended, Searching, Ways
<1>6. PICK T : Complete(T)
  BY DEF Grounded
<1>7. /\ Explored(search["forward"], Along(T, "forward"), "forward", x)
      /\ Explored(search["backward"], Along(T, "backward"), "backward", y)
  BY <1>4, <1>6 DEF Searching
<1>8. /\ Total(Meeting) = T[NodeCount][x][y]
      /\ \A r \in Ranks : ~Overflows(search["forward"].dist[r], search["backward"].dist[r])
  BY <1>5, <1>6, <1>7, MeetingIsShortest DEF Grounded
<1>9. Total(Meeting) = Distance(s, t)
  BY <1>3, <1>6, <1>8, DistanceIsLast
<1>10. Meeting \in Ranks
  BY <1>5, MeetingIsLeast
<1>11. Total(Meeting) # Infinite => Connected(s, t, Edges)
  BY <1>1, <1>3, <1>5, EdgesConnect DEF Grounded
<1>12. ASSUME NEW r \in Ranks, Total(Meeting) = Infinite PROVE Total(r) = Infinite
  <2>1. PICK l, h \in Costs : l = search["forward"].dist[r] /\ h = search["backward"].dist[r]
    BY <1>5 DEF Ended, Rooted
  <2>2. Total(r) = Add(l, h) /\ ~Overflows(l, h)
    BY <1>8, <2>1 DEF Total
  <2>3. Total(Meeting) <= Total(r)
    BY <1>5, MeetingIsLeast
  <2> QED BY <1>12, <2>1, <2>2, <2>3, NodesAreRanks DEF Add, Overflows, Costs
<1> QED BY <1>1, <1>8, <1>9, <1>10, <1>11, <1>12

LEMMA FinishLegKeeps == ASSUME Grounded, RouterInv, FinishLeg PROVE RouterInv'
<1>1. /\ Routing /\ search # None /\ UNCHANGED << pack_vars, request >>
      /\ \A way \in Ways : search[way].queue = {}
  BY DEF FinishLeg
<1>2. request \in Requests /\ request # None /\ answer = None /\ LegsRouted
  BY <1>1, SearchIsOn
<1>3. PICK s, t : s = Source(request, Leg) /\ t = Target(request, Leg)
  OBVIOUS
<1>4. ~altered => /\ Total(Meeting) = Distance(s, t) /\ Meeting \in Ranks
                  /\ \A r \in Ranks : ~Overflows(search["forward"].dist[r], search["backward"].dist[r])
                  /\ Total(Meeting) # Infinite => Connected(s, t, Edges)
                  /\ Total(Meeting) = Infinite => \A r \in Ranks : Total(r) = Infinite
  BY <1>1, <1>3, LegIsShortest
<1> DEFINE Over  == \E r \in Ranks : Overflows(search["forward"].dist[r], search["backward"].dist[r])
           Apart == \A r \in Ranks : Total(r) = Infinite
<1>5. IF Over THEN Fail("CostOverflow")
      ELSE IF Apart THEN Fail("NoRoute")
      ELSE IF ~Connected(s, t, Edges) THEN Fail("InvalidPack")
      ELSE /\ legs' = Append(legs,
                 [weight |-> Total(Meeting), edges |-> Edges,
                  nodes |-> << s >> \o [i \in DOMAIN Edges |-> Edges[i].to]])
           /\ search' = None /\ answer' = answer
  BY <1>3, Zenon DEF FinishLeg
<1>6. ~altered => ~Over /\ (~Apart => Total(Meeting) # Infinite /\ Connected(s, t, Edges))
  BY <1>4
<1>7. ~altered /\ Apart => Distance(s, t) = Infinite
  BY <1>4
<1>8. ~altered /\ ~Apart => Total(Meeting) = Distance(s, t) /\ Total(Meeting) \in 0..LongestWay
  <2>1. s \in Nodes /\ t \in Nodes
    BY <1>1, <1>3, SearchIsOn
  <2>2. Distance(s, t) \in Nat /\ (Distance(s, t) = Infinite \/ Distance(s, t) <= LongestWay)
    BY <2>1, LeastIsBounded DEF Grounded, Costs
  <2>3. ~altered /\ ~Apart => Total(Meeting) = Distance(s, t) /\ Total(Meeting) # Infinite
    BY <1>4
  <2> HIDE DEF Apart
  <2> QED BY <2>2, <2>3, LongestWayFits
<1> HIDE DEF Over, Apart
<1>9. search' = None
  BY <1>5 DEF Fail
<1>10. LegInProgress'
  BY <1>9 DEF LegInProgress
<1>11. CASE Over \/ (~Apart /\ ~Connected(s, t, Edges))
  <2>1. legs' = legs /\ ~Plain(request)
    BY <1>5, <1>6, <1>11 DEF Fail, Plain
  <2>2. LegsRouted'
    BY <1>1, <1>2, <2>1, LegsStay
  <2> QED BY <1>1, <1>2, <1>10, <2>1, <2>2, ShortestThen, RouterGoesOn
<1>12. CASE ~Over /\ Apart
  <2>1. answer' = [error |-> "NoRoute"] /\ legs' = legs
    BY <1>5, <1>12 DEF Fail
  <2>2. Plain(request) => Infinite \in ToSet(Distances(request))
    <3>1. Distances(request)[Leg] = Distance(s, t) /\ Leg \in DOMAIN Distances(request)
      BY <1>1, <1>2, <1>3, LegAt
    <3> QED BY <1>7, <1>12, <3>1 DEF Plain, ToSet
  <2>3. Plain(request) => Right(answer', request)
    BY <2>1, <2>2 DEF Right
  <2>4. LegsRouted'
    BY <1>1, <1>2, <2>1, LegsStay
  <2> QED BY <1>1, <1>2, <1>10, <2>3, <2>4, ShortestThen, RouterGoesOn
<1>13. CASE ~Over /\ ~Apart /\ Connected(s, t, Edges)
  <2>1. PICK part : /\ legs' = Append(legs, part) /\ part.weight = Total(Meeting)
    <3>1. PICK part : part = [weight |-> Total(Meeting), edges |-> Edges,
                              nodes |-> << s >> \o [i \in DOMAIN Edges |-> Edges[i].to]]
      OBVIOUS
    <3>2. part.weight = Total(Meeting)
      BY <3>1
    <3>3. legs' = Append(legs, part)
      BY <1>5, <1>13, <3>1
    <3> QED BY <3>2, <3>3
  <2>2. answer' = None
    BY <1>2, <1>5, <1>13
  <2>3. LegsRouted'
    BY <1>1, <1>2, <1>3, <1>8, <1>13, <2>1, LegsGrow
  <2> QED BY <1>1, <1>2, <1>10, <2>2, <2>3, ShortestThen, RouterGoesOn
<1> QED BY <1>11, <1>12, <1>13

(* Sum, by its running sums                                                *)
SumTurn(w, f, i) == IF i = 0 THEN 0 ELSE f[i - 1] + w[i]

Sums(f, w) ==
    f \in [0..Len(w) -> Nat] /\ \A i \in 0..Len(w) : f[i] = SumTurn(w, f, i)

LEMMA SumUnfolds ==
  ASSUME NEW w \in Seq(Nat)
  PROVE  \E f : Sums(f, w) /\ Sum(w) = f[Len(w)]
<1>1. PICK n \in Nat : n = Len(w)
  BY LenProperties
<1>2. \A i \in 1..n : w[i] \in Nat
  BY <1>1, ElementOfSeq
<1> DEFINE I    == 0..Len(w)
           step == [f \in [I -> Nat] |-> [i \in I |-> SumTurn(w, f, i)]]
           iter == CHOOSE it : it = [i \in 0..Len(w) |-> SumTurn(w, it, i)]
<1>3. \A i \in I : i = 0 \/ (i \in 1..n /\ i - 1 \in I /\ i - 1 < i)
  BY <1>1
<1>4. ASSUME NEW f \in [I -> Nat], NEW i \in I PROVE SumTurn(w, f, i) \in Nat
  <2>1. CASE i = 0
    BY <2>1 DEF SumTurn
  <2>2. CASE i # 0
    <3>1. i \in 1..n /\ f[i - 1] \in Nat
      BY <1>3, <2>2
    <3> QED BY <1>2, <2>2, <3>1 DEF SumTurn
  <2> QED BY <2>1, <2>2
<1>5. step \in [[I -> Nat] -> [I -> Nat]]
  BY <1>4
<1>6. PICK level \in [I -> 0..n] : \A i \in I : level[i] = i
  <2>1. [i \in I |-> i] \in [I -> 0..n]
    BY <1>1
  <2> QED BY <2>1
<1>7. LocalTo(step, level, I, Nat)
  <2> SUFFICES ASSUME NEW i \in I, NEW f \in [I -> Nat], NEW g \in [I -> Nat],
                      \A j \in I : level[j] < level[i] => f[j] = g[j]
               PROVE  SumTurn(w, f, i) = SumTurn(w, g, i)
    BY DEF LocalTo
  <2>1. CASE i = 0
    BY <2>1 DEF SumTurn
  <2>2. CASE i # 0
    <3>1. f[i - 1] = g[i - 1]
      BY <1>3, <1>6, <2>2
    <3> QED BY <2>2, <3>1 DEF SumTurn
  <2> QED BY <2>1, <2>2
<1>8. PICK f \in [I -> Nat] : f = step[f]
  <2>1. Descends(step, level, n, I, Nat)
    BY <1>5, <1>6, <1>7 DEF Descends
  <2>2. Nat # {}
    OBVIOUS
  <2> HIDE DEF I, step
  <2> QED BY <2>1, <2>2, Recursion DEF FixedBy
<1>9. iter = [i \in I |-> SumTurn(w, iter, i)]
  <2>1. f = [i \in I |-> SumTurn(w, f, i)]
    BY <1>8
  <2> HIDE DEF step
  <2> QED BY <2>1
<1>10. Sum(w) = iter[Len(w)]
  BY Zenon DEF Sum, SumTurn
<1> DEFINE A == { k \in Nat : iter[k] \in Nat }
<1>11. ASSUME NEW k \in 0..n, 0..(k - 1) \subseteq A PROVE k \in A
  <2> HIDE DEF iter
  <2>1. k \in I /\ iter[k] = SumTurn(w, iter, k)
    BY <1>1, <1>9
  <2>2. CASE k = 0
    BY <2>1, <2>2 DEF SumTurn
  <2>3. CASE k # 0
    <3>1. k - 1 \in 0..(k - 1) /\ k \in 1..n
      BY <2>3
    <3>2. iter[k - 1] \in Nat /\ w[k] \in Nat
      BY <1>2, <1>11, <3>1
    <3> QED BY <2>1, <2>3, <3>2 DEF SumTurn
  <2> QED BY <2>2, <2>3
<1>12. 0..n \subseteq A
  <2>1. A \in SUBSET Nat
    OBVIOUS
  <2> HIDE DEF A
  <2> QED BY <1>11, <2>1, Induction
<1>13. iter \in [I -> Nat]
  <2> HIDE DEF iter
  <2>1. \A i \in I : iter[i] \in Nat
    BY <1>1, <1>12
  <2> QED BY <1>9, <2>1
<1>14. Sums(iter, w)
  <2> HIDE DEF iter
  <2> QED BY <1>9, <1>13 DEF Sums
<1> QED
  <2> HIDE DEF iter
  <2> QED BY <1>10, <1>14

(* So many numbers add up to so many times their bound at most.            *)
LEMMA SumIsBounded ==
  ASSUME NEW w \in Seq(Nat), NEW c \in Nat, \A i \in 1..Len(w) : w[i] <= c
  PROVE  Sum(w) \in Nat /\ Sum(w) <= Len(w) * c
<1>1. PICK f : Sums(f, w) /\ Sum(w) = f[Len(w)]
  BY SumUnfolds
<1>2. PICK n \in Nat : n = Len(w)
  BY LenProperties
<1>3. \A i \in 0..n : f[i] \in Nat /\ f[i] = SumTurn(w, f, i)
  BY <1>1, <1>2 DEF Sums
<1> DEFINE A == { k \in Nat : f[k] <= k * c }
<1>4. ASSUME NEW k \in 0..n, 0..(k - 1) \subseteq A PROVE k \in A
  <2>1. CASE k = 0
    <3>1. f[0] = 0 /\ 0 * c = 0
      BY <1>3, <2>1 DEF SumTurn
    <3> QED BY <2>1, <3>1
  <2>2. CASE k # 0
    <3>1. PICK j \in 0..(k - 1) : j = k - 1 /\ j \in Nat
      BY <2>2
    <3>2. f[j] <= j * c /\ f[j] \in Nat
      BY <1>3, <1>4, <3>1
    <3>3. w[k] <= c /\ w[k] \in Nat
      BY <1>2, <2>2, ElementOfSeq
    <3>4. f[k] = f[j] + w[k]
      BY <1>3, <2>2, <3>1 DEF SumTurn
    <3>5. (j + 1) * c = j * c + c /\ j * c \in Nat
      BY <3>1
    <3>6. f[k] <= (j + 1) * c
      BY <3>2, <3>3, <3>4, <3>5
    <3> QED BY <3>1, <3>6
  <2> QED BY <2>1, <2>2
<1>5. A \in SUBSET Nat
  OBVIOUS
<1>6. n \in A
  <2> HIDE DEF A
  <2>1. 0..n \subseteq A
    BY <1>4, <1>5, Induction
  <2> QED BY <2>1
<1> QED BY <1>1, <1>2, <1>3, <1>6

(* The legs of a pack that was built: their sum does not overflow.         *)
LEMMA SumFits ==
  ASSUME request \in Requests, LegsRouted, ~altered, Len(legs) = LegCount(request),
         Len(request.controls) \in 2..MaxControls
  PROVE  /\ Sum([i \in DOMAIN legs |-> legs[i].weight]) \in Nat
         /\ Sum([i \in DOMAIN legs |-> legs[i].weight]) <= Infinite
<1>1. PICK n \in Nat : n = Len(legs) /\ DOMAIN legs = 1..n
  BY DEF LegsRouted
<1>2. \A i \in 1..n : legs[i].weight \in 0..LongestWay
  BY <1>1 DEF LegsRouted
<1>3. PICK w : w = [i \in DOMAIN legs |-> legs[i].weight]
  OBVIOUS
<1>4. LongestWay \in Nat
  BY LongestWayFits
<1>5. \A i \in 1..n : w[i] \in Nat /\ w[i] <= LongestWay
  BY <1>1, <1>2, <1>3, <1>4
<1>6. w \in Seq(Nat) /\ Len(w) = n
  <2>1. w = [i \in 1..n |-> legs[i].weight]
    BY <1>1, <1>3
  <2>2. w \in [1..n -> Nat]
    BY <1>5, <2>1
  <2> QED BY <1>1, <2>2
<1>7. Sum(w) \in Nat /\ Sum(w) <= n * LongestWay
  BY <1>4, <1>5, <1>6, SumIsBounded
<1>8. n <= MaxControls /\ MaxControls \in Nat
  <2>1. PICK l \in Nat : l = Len(request.controls) /\ l <= MaxControls
    BY CchRouterAssumption
  <2>2. PICK x \in {0, 1} : x = IF request.closed THEN 1 ELSE 0
    OBVIOUS
  <2>3. LegCount(request) = l - 1 + x
    BY <2>1, <2>2 DEF LegCount
  <2>4. n = l - 1 + x
    BY <1>1, <2>3
  <2>5. MaxControls \in Nat
    BY CchRouterAssumption
  <2>6. n <= l
    BY <2>1, <2>2, <2>4
  <2> QED BY <2>1, <2>5, <2>6
<1>9. MaxControls * LongestWay <= Infinite
  <2>1. MaxControls * (NodeCount - 1) * MaxArcWeight = MaxControls * ((NodeCount - 1) * MaxArcWeight)
    BY <1>8, NodesAreRanks
  <2> QED BY <2>1, CchRouterAssumption DEF LongestWay
<1>10. \A m, k, c \in Nat : m <= k => m * c \in Nat /\ m * c <= k * c
  OBVIOUS
<1>11. n * LongestWay <= MaxControls * LongestWay /\ MaxControls * LongestWay \in Nat
  BY <1>4, <1>8, <1>10
<1>12. n * LongestWay \in Nat /\ Infinite \in Nat
  BY <1>4, <1>8, <1>10, NodesAreRanks
<1> QED BY <1>3, <1>7, <1>9, <1>11, <1>12

(* The answer of a request whose legs are all done                         *)
LEMMA AnswerKeeps == ASSUME Grounded, RouterInv, Answer PROVE RouterInv'
<1>1. /\ request # None /\ answer = None /\ Len(legs) = LegCount(request)
      /\ UNCHANGED << pack_vars, request >>
      /\ request \in Requests /\ LegInProgress /\ LegsRouted
  BY DEF Answer, RouterInv
<1>2. PICK weight : weight = Sum([i \in DOMAIN legs |-> legs[i].weight])
  OBVIOUS
<1>3. IF weight > Infinite THEN Fail("CostOverflow")
      ELSE /\ answer' = [geometry |-> Joined(legs), weight |-> weight]
           /\ legs' = legs /\ search' = search
  BY <1>2, Zenon DEF Answer
<1>4. legs' = legs
  BY <1>3 DEF Fail
<1>5. LegsRouted'
  BY <1>1, <1>4, LegsStay
<1>6. CASE weight > Infinite
  <2>1. search' = None
    BY <1>3, <1>6 DEF Fail
  <2>2. ~Plain(request)
    <3> SUFFICES ASSUME Plain(request) PROVE FALSE
      OBVIOUS
    <3>1. weight \in Nat /\ weight <= Infinite
      BY <1>1, <1>2, SumFits DEF Plain
    <3> QED BY <1>6, <3>1, NodesAreRanks
  <2>3. LegInProgress'
    BY <2>1 DEF LegInProgress
  <2> QED BY <1>1, <1>5, <2>2, <2>3, ShortestThen, RouterGoesOn
<1>7. CASE ~(weight > Infinite)
  <2>1. answer' = [geometry |-> Joined(legs), weight |-> weight] /\ search' = search
    BY <1>3, <1>7
  <2>2. DOMAIN legs = 1..LegCount(request) /\ DOMAIN Distances(request) = 1..LegCount(request)
    BY <1>1 DEF LegsRouted, Distances
  <2>3. ASSUME Plain(request) PROVE Right(answer', request)
    <3>1. \A i \in 1..LegCount(request) :
             legs[i].weight = Distances(request)[i] /\ legs[i].weight # Infinite
      BY <1>1, <2>3, LongestWayFits DEF LegsRouted, Plain
    <3>2. Infinite \notin ToSet(Distances(request))
      BY <2>2, <3>1 DEF ToSet
    <3>3. [i \in DOMAIN legs |-> legs[i].weight] = Distances(request)
      <4>1. Distances(request) = [i \in 1..LegCount(request) |-> Distances(request)[i]]
        BY DEF Distances
      <4> QED BY <2>2, <3>1, <4>1
    <3>4. "geometry" \in DOMAIN answer' /\ answer'.weight = Sum(Distances(request))
      BY <1>2, <2>1, <3>3
    <3> QED BY <3>2, <3>4 DEF Right
  <2>4. LegInProgress'
    <3>1. CASE search = None
      BY <2>1, <3>1 DEF LegInProgress
    <3>2. CASE search # None
      BY <1>1, <1>4, <2>1, <3>2, SearchGoesOn DEF LegInProgress
    <3> QED BY <3>1, <3>2
  <2> QED BY <1>1, <1>5, <2>3, <2>4, ShortestThen, RouterGoesOn
<1> QED BY <1>6, <1>7

LEMMA PackStepKeeps ==
  ASSUME RouterInv, PackNext, UNCHANGED router_vars
  PROVE  RouterInv'
<1>1. stage # "loaded"
  BY DEF PackNext, Build, Eliminate, TakeOriginals, Customize, WritePack, Alter, LoadPack
<1>2. request = None /\ answer = None /\ request' = None /\ legs' = <<>> /\ search' = None /\ answer' = None
  BY <1>1 DEF RouterInv, router_vars
<1>3. RoutesAreShortest'
  BY <1>2 DEF RoutesAreShortest
<1> QED BY <1>2, <1>3 DEF RouterInv

LEMMA IdleKeeps == ASSUME RouterInv, UNCHANGED vars PROVE RouterInv'
<1>1. /\ UNCHANGED << pack_vars, request, legs, search, answer >> /\ stage' = stage
  BY DEF vars, pack_vars, router_vars
<1>2. CASE request = None
  <2>1. RoutesAreShortest'
    BY <1>1, <1>2 DEF RouterInv, RoutesAreShortest
  <2> QED BY <1>1, <1>2, <2>1 DEF RouterInv
<1>3. CASE request # None
  <2>1. LegInProgress /\ LegsRouted /\ RoutesAreShortest
    BY <1>3 DEF RouterInv
  <2>2. answer' # None /\ Plain(request) => Right(answer', request)
    BY <1>1, <2>1, RightIsShortest
  <2>3. RoutesAreShortest'
    BY <1>1, <2>2, ShortestThen
  <2>4. LegsRouted'
    BY <1>1, <2>1, LegsStay
  <2>5. LegInProgress'
    <3>1. CASE search = None
      BY <1>1, <3>1 DEF LegInProgress
    <3>2. CASE search # None
      BY <1>1, <2>1, <3>2, SearchGoesOn DEF LegInProgress
    <3> QED BY <3>1, <3>2
  <2> QED BY <1>1, <1>3, <2>3, <2>4, <2>5, RouterGoesOn
<1> QED BY <1>2, <1>3

LEMMA RouterStepKeeps == IInv /\ CustomInv /\ RouterInv /\ [RouterNext]_vars => RouterInv'
<1> SUFFICES ASSUME IInv, CustomInv, RouterInv, [RouterNext]_vars PROVE RouterInv'
  OBVIOUS
<1>1. CASE PackNext /\ UNCHANGED router_vars
  BY <1>1, PackStepKeeps
<1>2. ASSUME NEW q \in Requests, Ask(q) PROVE RouterInv'
  BY <1>2, AskKeeps
<1>3. request # None => Grounded
  BY LoadedIsGrounded DEF RouterInv
<1>4. CASE BeginLeg
  BY <1>3, <1>4, BeginLegKeeps DEF BeginLeg, Routing
<1>5. ASSUME NEW way \in Ways, Settle(way) PROVE RouterInv'
  BY <1>3, <1>5, SettleKeeps DEF Settle, Routing
<1>6. CASE FinishLeg
  BY <1>3, <1>6, FinishLegKeeps DEF FinishLeg, Routing
<1>7. CASE Answer
  BY <1>3, <1>7, AnswerKeeps DEF Answer
<1>8. CASE UNCHANGED vars
  BY <1>8, IdleKeeps
<1> QED BY <1>1, <1>2, <1>4, <1>5, <1>6, <1>7, <1>8 DEF RouterNext

(* Whatever the graph, the order of its nodes and the request: the router  *)
(* of a pack that was built answers with the least cost of every leg that  *)
(* there is, and with NoRoute exactly if some leg has no way.              *)
THEOREM RouterFindsShortest == RouterSpec => []RoutesAreShortest
<1>1. RouterInit => RouterInv
  BY DEF RouterInit, RouterInv, RoutesAreShortest
<1>2. RouterInv => RoutesAreShortest
  BY DEF RouterInv
<1> QED
  BY <1>1, <1>2, RouterStepKeeps, RouterKeepsPack, CustomInvariance, PTL DEF RouterSpec

-----------------------------------------------------------------------------
(* What sums come to: of nothing, of one number, of two ways joined        *)
LEMMA SumOfFew ==
  /\ Sum(<<>>) = 0
  /\ \A x \in Nat : Sum(<< x >>) = x
<1>1. Sum(<<>>) = 0
  <2>1. PICK w : w = <<>> /\ w \in Seq(Nat) /\ Len(w) = 0
    BY EmptySeq
  <2>2. PICK f : Sums(f, w) /\ Sum(w) = f[Len(w)]
    BY <2>1, SumUnfolds
  <2>3. f[0] = 0
    BY <2>1, <2>2 DEF Sums, SumTurn
  <2> QED BY <2>1, <2>2, <2>3
<1>2. ASSUME NEW x \in Nat PROVE Sum(<< x >>) = x
  <2>1. PICK w : w = << x >> /\ w \in Seq(Nat) /\ Len(w) = 1 /\ w[1] = x
    <3>1. << x >> \in Seq(Nat) /\ Len(<< x >>) = 1 /\ << x >>[1] = x
      OBVIOUS
    <3> QED BY <3>1
  <2>2. PICK f : Sums(f, w) /\ Sum(w) = f[Len(w)]
    BY <2>1, SumUnfolds
  <2>3. f[0] = 0
    BY <2>1, <2>2 DEF Sums, SumTurn
  <2>4. f[1] = f[1 - 1] + w[1]
    <3>1. 1 \in 0..Len(w)
      BY <2>1
    <3>2. f[1] = SumTurn(w, f, 1)
      BY <2>2, <3>1 DEF Sums
    <3> QED BY <3>2 DEF SumTurn
  <2> QED BY <2>1, <2>2, <2>3, <2>4
<1> QED BY <1>1, <1>2

LEMMA SumOfBoth ==
  ASSUME NEW v \in Seq(Nat), NEW w \in Seq(Nat)
  PROVE  Sum(v \o w) = Sum(v) + Sum(w) /\ Sum(v) \in Nat
<1>1. PICK m, n \in Nat : m = Len(v) /\ n = Len(w)
  BY LenProperties
<1>2. PICK c \in Seq(Nat) :
        /\ c = v \o w /\ Len(c) = m + n
        /\ \A i \in 1..(m + n) : c[i] = IF i <= m THEN v[i] ELSE w[i - m]
  <2>1. /\ v \o w \in Seq(Nat) /\ Len(v \o w) = Len(v) + Len(w)
        /\ \A i \in 1..(Len(v) + Len(w)) : (v \o w)[i] = IF i <= Len(v) THEN v[i] ELSE w[i - Len(v)]
    BY ConcatProperties
  <2> QED BY <1>1, <2>1
<1>3. PICK f, g, h : /\ Sums(f, v) /\ Sum(v) = f[m]
                     /\ Sums(g, w) /\ Sum(w) = g[n]
                     /\ Sums(h, c) /\ Sum(c) = h[m + n]
  BY <1>1, <1>2, SumUnfolds
<1>4. /\ \A i \in 0..m : f[i] = SumTurn(v, f, i) /\ f[i] \in Nat
      /\ \A i \in 0..n : g[i] = SumTurn(w, g, i) /\ g[i] \in Nat
      /\ \A i \in 0..(m + n) : h[i] = SumTurn(c, h, i)
  BY <1>1, <1>2, <1>3 DEF Sums
<1> DEFINE A == { k \in Nat : h[k] = f[k] }
           B == { k \in Nat : h[m + k] = f[m] + g[k] }
<1>5. ASSUME NEW k \in 0..m, 0..(k - 1) \subseteq A PROVE k \in A
  <2>1. k \in 0..(m + n)
    OBVIOUS
  <2>2. CASE k = 0
    BY <1>4, <2>1, <2>2 DEF SumTurn
  <2>3. CASE k # 0
    <3>1. k - 1 \in A /\ k \in 1..(m + n) /\ k <= m
      BY <1>5, <2>3
    <3>2. h[k - 1] = f[k - 1] /\ c[k] = v[k]
      BY <1>2, <3>1
    <3>3. h[k] = h[k - 1] + c[k] /\ f[k] = f[k - 1] + v[k]
      BY <1>4, <2>1, <2>3 DEF SumTurn
    <3> QED BY <3>2, <3>3
  <2> QED BY <2>2, <2>3
<1>6. h[m] = f[m]
  <2>1. A \in SUBSET Nat
    OBVIOUS
  <2> HIDE DEF A
  <2>2. 0..m \subseteq A
    BY <1>5, <2>1, Induction
  <2>3. m \in A
    BY <2>2
  <2> QED BY <2>3 DEF A
<1>7. ASSUME NEW k \in 0..n, 0..(k - 1) \subseteq B PROVE k \in B
  <2>1. CASE k = 0
    <3>1. g[0] = 0 /\ f[m] \in Nat
      BY <1>4 DEF SumTurn
    <3> QED BY <1>6, <2>1, <3>1
  <2>2. CASE k # 0
    <3>1. k - 1 \in B /\ m + k \in 1..(m + n) /\ m + k \in 0..(m + n) /\ ~(m + k <= m)
          /\ (m + k) - m = k /\ (m + k) - 1 = m + (k - 1) /\ m + k # 0 /\ k \in 1..n /\ k - 1 \in 0..n
      BY <1>7, <2>2
    <3>2. h[m + (k - 1)] = f[m] + g[k - 1] /\ c[m + k] = w[k]
      BY <1>2, <3>1
    <3>3. h[m + k] = h[m + (k - 1)] + c[m + k] /\ g[k] = g[k - 1] + w[k]
      BY <1>4, <2>2, <3>1 DEF SumTurn
    <3>4. f[m] \in Nat /\ g[k - 1] \in Nat /\ w[k] \in Nat
      BY <1>1, <1>4, <3>1, ElementOfSeq
    <3> QED BY <3>2, <3>3, <3>4
  <2> QED BY <2>1, <2>2
<1>8. h[m + n] = f[m] + g[n]
  <2>1. B \in SUBSET Nat
    OBVIOUS
  <2> HIDE DEF B
  <2>2. 0..n \subseteq B
    BY <1>7, <2>1, Induction
  <2>3. n \in B
    BY <2>2
  <2> QED BY <2>3 DEF B
<1> QED BY <1>2, <1>3, <1>4, <1>8

-----------------------------------------------------------------------------
(* What a way of arcs costs, and where it leads                            *)
Weights(p) == [i \in DOMAIN p |-> p[i].weight]
Tos(p)     == [i \in DOMAIN p |-> p[i].to]
Cost(p)    == Sum(Weights(p))

LEMMA OfBoth ==
  ASSUME arcs \subseteq Arc, NEW p \in Seq(arcs), NEW q \in Seq(arcs)
  PROVE  /\ Weights(p) \in Seq(Nat) /\ Tos(p) \in Seq(Nat)
         /\ Weights(p \o q) = Weights(p) \o Weights(q)
         /\ Tos(p \o q) = Tos(p) \o Tos(q)
<1>1. PICK m, n \in Nat : m = Len(p) /\ n = Len(q) /\ DOMAIN p = 1..m /\ DOMAIN q = 1..n
  BY LenProperties
<1>2. PICK c \in Seq(arcs) :
        /\ c = p \o q /\ Len(c) = m + n
        /\ \A i \in 1..(m + n) : c[i] = IF i <= m THEN p[i] ELSE q[i - m]
  <2>1. /\ p \o q \in Seq(arcs) /\ Len(p \o q) = Len(p) + Len(q)
        /\ \A i \in 1..(Len(p) + Len(q)) : (p \o q)[i] = IF i <= Len(p) THEN p[i] ELSE q[i - Len(p)]
    BY ConcatProperties
  <2> QED BY <1>1, <2>1
<1>3. DOMAIN c = 1..(m + n)
  BY <1>2, LenProperties
<1>4. /\ \A i \in 1..m : p[i].weight \in Nat /\ p[i].to \in Nat
      /\ \A i \in 1..n : q[i].weight \in Nat /\ q[i].to \in Nat
      /\ \A i \in 1..(m + n) : c[i].weight \in Nat /\ c[i].to \in Nat
  <2>1. \A a \in arcs : a.weight \in Nat /\ a.to \in Nat
    BY NodesAreRanks DEF Arc
  <2> QED BY <1>1, <1>2, <2>1, ElementOfSeq
<1>5. /\ Weights(p) \in Seq(Nat) /\ Len(Weights(p)) = m /\ \A i \in 1..m : Weights(p)[i] = p[i].weight
      /\ Tos(p) \in Seq(Nat) /\ Len(Tos(p)) = m /\ \A i \in 1..m : Tos(p)[i] = p[i].to
  BY <1>1, <1>4 DEF Weights, Tos
<1>6. /\ Weights(q) \in Seq(Nat) /\ Len(Weights(q)) = n /\ \A i \in 1..n : Weights(q)[i] = q[i].weight
      /\ Tos(q) \in Seq(Nat) /\ Len(Tos(q)) = n /\ \A i \in 1..n : Tos(q)[i] = q[i].to
  BY <1>1, <1>4 DEF Weights, Tos
<1>7. /\ Weights(c) \in Seq(Nat) /\ Len(Weights(c)) = m + n
      /\ \A i \in 1..(m + n) : Weights(c)[i] = c[i].weight
      /\ Tos(c) \in Seq(Nat) /\ Len(Tos(c)) = m + n /\ \A i \in 1..(m + n) : Tos(c)[i] = c[i].to
  BY <1>3, <1>4 DEF Weights, Tos
<1>8. \A i \in 1..(m + n) : (i <= m => i \in 1..m) /\ (~(i <= m) => i - m \in 1..n)
  OBVIOUS
<1>9. Weights(c) = Weights(p) \o Weights(q)
  <2>0. PICK v, w \in Seq(Nat) : v = Weights(p) /\ w = Weights(q) /\ Len(v) = m /\ Len(w) = n
    BY <1>5, <1>6
  <2>1. PICK d \in Seq(Nat) :
          /\ d = v \o w /\ Len(d) = m + n
          /\ \A i \in 1..(m + n) : d[i] = IF i <= m THEN v[i] ELSE w[i - m]
    <3>1. /\ v \o w \in Seq(Nat) /\ Len(v \o w) = Len(v) + Len(w)
          /\ \A i \in 1..(Len(v) + Len(w)) : (v \o w)[i] = IF i <= Len(v) THEN v[i] ELSE w[i - Len(v)]
      BY ConcatProperties
    <3> QED BY <2>0, <3>1
  <2>2. ASSUME NEW i \in 1..(m + n) PROVE Weights(c)[i] = d[i]
    <3>1. CASE i <= m
      <4>1. d[i] = v[i] /\ c[i] = p[i] /\ i \in 1..m
        BY <1>2, <1>8, <2>1, <3>1
      <4>2. v[i] = p[i].weight
        BY <1>5, <2>0, <4>1
      <4> QED BY <1>7, <4>1, <4>2
    <3>2. CASE ~(i <= m)
      <4>1. d[i] = w[i - m] /\ c[i] = q[i - m] /\ i - m \in 1..n
        BY <1>2, <1>8, <2>1, <3>2
      <4>2. w[i - m] = q[i - m].weight
        BY <1>6, <2>0, <4>1
      <4> QED BY <1>7, <4>1, <4>2
    <3> QED BY <3>1, <3>2
  <2> QED BY <1>7, <2>0, <2>1, <2>2, SeqEqual
<1>10. Tos(c) = Tos(p) \o Tos(q)
  <2>0. PICK v, w \in Seq(Nat) : v = Tos(p) /\ w = Tos(q) /\ Len(v) = m /\ Len(w) = n
    BY <1>5, <1>6
  <2>1. PICK d \in Seq(Nat) :
          /\ d = v \o w /\ Len(d) = m + n
          /\ \A i \in 1..(m + n) : d[i] = IF i <= m THEN v[i] ELSE w[i - m]
    <3>1. /\ v \o w \in Seq(Nat) /\ Len(v \o w) = Len(v) + Len(w)
          /\ \A i \in 1..(Len(v) + Len(w)) : (v \o w)[i] = IF i <= Len(v) THEN v[i] ELSE w[i - Len(v)]
      BY ConcatProperties
    <3> QED BY <2>0, <3>1
  <2>2. ASSUME NEW i \in 1..(m + n) PROVE Tos(c)[i] = d[i]
    <3>1. CASE i <= m
      <4>1. d[i] = v[i] /\ c[i] = p[i] /\ i \in 1..m
        BY <1>2, <1>8, <2>1, <3>1
      <4>2. v[i] = p[i].to
        BY <1>5, <2>0, <4>1
      <4> QED BY <1>7, <4>1, <4>2
    <3>2. CASE ~(i <= m)
      <4>1. d[i] = w[i - m] /\ c[i] = q[i - m] /\ i - m \in 1..n
        BY <1>2, <1>8, <2>1, <3>2
      <4>2. w[i - m] = q[i - m].to
        BY <1>6, <2>0, <4>1
      <4> QED BY <1>7, <4>1, <4>2
    <3> QED BY <3>1, <3>2
  <2> QED BY <1>7, <2>0, <2>1, <2>2, SeqEqual
<1> QED BY <1>2, <1>5, <1>9, <1>10

LEMMA CostOfBoth ==
  ASSUME arcs \subseteq Arc, NEW p \in Seq(arcs), NEW q \in Seq(arcs)
  PROVE  Cost(p \o q) = Cost(p) + Cost(q) /\ Cost(p) \in Nat /\ Cost(q) \in Nat
<1>1. Weights(p) \in Seq(Nat) /\ Weights(q) \in Seq(Nat) /\ Weights(p \o q) = Weights(p) \o Weights(q)
  BY OfBoth
<1> QED BY <1>1, SumOfBoth DEF Cost

LEMMA CostOfFew ==
  ASSUME arcs \subseteq Arc
  PROVE  Cost(<<>>) = 0 /\ \A a \in arcs : Cost(<< a >>) = a.weight
<1>1. Weights(<<>>) = <<>>
  BY DEF Weights
<1>2. ASSUME NEW a \in arcs PROVE Cost(<< a >>) = a.weight
  <2>1. a.weight \in Nat
    BY NodesAreRanks DEF Arc
  <2>2. Weights(<< a >>) = << a.weight >>
    BY DEF Weights
  <2> QED BY <2>1, <2>2, SumOfFew DEF Cost
<1> QED BY <1>1, <1>2, SumOfFew DEF Cost

-----------------------------------------------------------------------------
(* FlattenSeq, by what it has joined so far                                *)
Joins(f, q, S) ==
    /\ f \in [1..Len(q) -> Seq(S)] /\ f[1] = q[1]
    /\ \A i \in 2..Len(q) : f[i] = f[i - 1] \o q[i]

JoinTurn(q, f, i) == IF i = 1 THEN q[i] ELSE f[i - 1] \o q[i]

LEMMA FlattenUnfolds ==
  ASSUME NEW S, NEW q \in Seq(Seq(S)), q # <<>>
  PROVE  \E f : Joins(f, q, S) /\ FlattenSeq(q) = f[Len(q)]
<1>1. PICK n \in Nat \ {0} : n = Len(q)
  BY EmptySeq
<1>2. \A i \in 1..n : q[i] \in Seq(S)
  BY <1>1, ElementOfSeq
<1> DEFINE I    == 1..Len(q)
           V    == Seq(S)
           step == [f \in [I -> V] |-> [i \in I |-> JoinTurn(q, f, i)]]
           iter == CHOOSE it : it = [i \in 1..Len(q) |-> JoinTurn(q, it, i)]
<1>3. \A i \in I : i = 1 \/ (i \in 1..n /\ i - 1 \in I /\ i - 1 < i)
  BY <1>1
<1>4. ASSUME NEW f \in [I -> V], NEW i \in I PROVE JoinTurn(q, f, i) \in V
  <2>1. CASE i = 1
    BY <1>1, <1>2, <2>1 DEF JoinTurn
  <2>2. CASE i # 1
    <3>1. f[i - 1] \in V /\ q[i] \in V
      BY <1>2, <1>3, <2>2
    <3>2. f[i - 1] \o q[i] \in V
      BY <3>1, ConcatProperties
    <3> QED BY <2>2, <3>2 DEF JoinTurn
  <2> QED BY <2>1, <2>2
<1>5. step \in [[I -> V] -> [I -> V]]
  BY <1>4
<1>6. PICK level \in [I -> 0..n] : \A i \in I : level[i] = i
  <2>1. [i \in I |-> i] \in [I -> 0..n]
    BY <1>1
  <2> QED BY <2>1
<1>7. LocalTo(step, level, I, V)
  <2> SUFFICES ASSUME NEW i \in I, NEW f \in [I -> V], NEW g \in [I -> V],
                      \A j \in I : level[j] < level[i] => f[j] = g[j]
               PROVE  JoinTurn(q, f, i) = JoinTurn(q, g, i)
    BY DEF LocalTo
  <2>1. CASE i = 1
    BY <2>1 DEF JoinTurn
  <2>2. CASE i # 1
    <3>1. f[i - 1] = g[i - 1]
      BY <1>3, <1>6, <2>2
    <3> QED BY <2>2, <3>1 DEF JoinTurn
  <2> QED BY <2>1, <2>2
<1>8. <<>> \in V
  BY EmptySeq
<1>9. PICK f \in [I -> V] : f = step[f]
  <2>1. Descends(step, level, n, I, V)
    BY <1>5, <1>6, <1>7 DEF Descends
  <2> HIDE DEF I, V, step
  <2> QED BY <1>8, <2>1, Recursion DEF FixedBy
<1>10. iter = [i \in I |-> JoinTurn(q, iter, i)]
  <2>1. f = [i \in I |-> JoinTurn(q, f, i)]
    BY <1>9
  <2> HIDE DEF step, V
  <2> QED BY <2>1
<1>11. FlattenSeq(q) = iter[Len(q)]
  <2>1. Len(q) # 0
    BY <1>1
  <2> QED BY <2>1, Zenon DEF FlattenSeq, JoinTurn
<1> DEFINE A == { k \in Nat : k # 0 => iter[k] \in V }
<1>12. ASSUME NEW k \in 0..n, 0..(k - 1) \subseteq A PROVE k \in A
  <2> HIDE DEF iter
  <2> SUFFICES ASSUME k # 0 PROVE iter[k] \in V
    OBVIOUS
  <2>0. k \in 1..n /\ k \in I
    BY <1>1
  <2>1. iter[k] = JoinTurn(q, iter, k) /\ k \in 1..n
    BY <1>10, <2>0
  <2>2. CASE k = 1
    BY <1>2, <2>1, <2>2 DEF JoinTurn
  <2>3. CASE k # 1
    <3>1. k - 1 \in 0..(k - 1) /\ k - 1 # 0
      BY <2>1, <2>3
    <3>2. iter[k - 1] \in V /\ q[k] \in V
      BY <1>2, <1>12, <2>1, <3>1
    <3>3. iter[k - 1] \o q[k] \in V
      BY <3>2, ConcatProperties
    <3> QED BY <2>1, <2>3, <3>3 DEF JoinTurn
  <2> QED BY <2>2, <2>3
<1>13. 0..n \subseteq A
  <2>1. A \in SUBSET Nat
    OBVIOUS
  <2> HIDE DEF A
  <2> QED BY <1>12, <2>1, Induction
<1>14. iter \in [I -> V]
  <2> HIDE DEF iter
  <2>1. \A i \in I : i \in 0..n /\ i # 0
    BY <1>1
  <2>2. \A i \in I : iter[i] \in V
    BY <1>13, <2>1
  <2> QED BY <1>10, <2>2
<1>15. Joins(iter, q, S)
  <2> HIDE DEF iter
  <2>1. 1 \in I /\ \A i \in 2..Len(q) : i \in I /\ i # 1
    BY <1>1
  <2> QED BY <1>10, <1>14, <2>1 DEF Joins, JoinTurn
<1> QED
  <2> HIDE DEF iter
  <2> QED BY <1>11, <1>15

-----------------------------------------------------------------------------
(* What an arc unpacks to costs what the arc does.                         *)
LEMMA UnpackedCosts ==
  ASSUME up \subseteq Upward, arcs \subseteq Arc, Valid, cost \in [Ways -> [up -> Costs]],
         NEW arc \in up, NEW way \in Ways, cost[way][arc] # Infinite
  PROVE  Cost(Unpacked[arc][way]) = cost[way][arc]
<1>1. PICK f : f = Unpacked
  OBVIOUS
<1>2. NodeCount \in Nat /\ \A a \in up : a[1] \in 0..NodeCount
  BY NodesAreRanks DEF Upward
<1> DEFINE P(k) == \A a \in up, w \in Ways :
                     a[1] = k /\ cost[w][a] # Infinite => Cost(f[a][w]) = cost[w][a]
           A == { k \in Nat : P(k) }
<1>3. ASSUME NEW k \in 0..NodeCount, 0..(k - 1) \subseteq A PROVE k \in A
  <2> SUFFICES ASSUME NEW a \in up, NEW w \in Ways, a[1] = k, cost[w][a] # Infinite
               PROVE  Cost(f[a][w]) = cost[w][a]
    OBVIOUS
  <2>1. f[a] = UnpackTurn(a, f)
    BY <1>1, UnpackedUnfolds
  <2>2. CASE Single(a, w, f)
    BY <2>1, <2>2, CostOfFew DEF Single, IsOriginal
  <2>3. CASE Joint(a, w, f)
    <3>1. PICK x, y : x = Ends(a, w)[1] /\ y = Ends(a, w)[2]
      OBVIOUS
    <3>2. PICK b \in Nat, l \in up, r \in up :
            /\ b < k /\ l = << b, x >> /\ r = << b, y >> /\ Via(b, a, w) = cost[w][a]
            /\ f[a][w] = f[l]["backward"] \o f[r]["forward"]
      BY <2>1, <2>3, <3>1 DEF Joint
    <3>3. Via(b, a, w) = Add(cost["backward"][l], cost["forward"][r])
      BY <3>1, <3>2 DEF Via, Legs
    <3>4. /\ cost["backward"][l] # Infinite /\ cost["forward"][r] # Infinite
          /\ cost[w][a] = cost["backward"][l] + cost["forward"][r]
      BY <3>2, <3>3 DEF Add
    <3>5. b \in 0..(k - 1)
      BY <3>2
    <3>6. b \in A
      <4> HIDE DEF A
      <4> QED BY <1>3, <3>5
    <3>7. Cost(f[l]["backward"]) = cost["backward"][l] /\ Cost(f[r]["forward"]) = cost["forward"][r]
      <4>1. P(b) /\ l[1] = b /\ r[1] = b /\ "backward" \in Ways /\ "forward" \in Ways
        BY <3>2, <3>6 DEF Ways
      <4> QED BY <3>4, <4>1
    <3>8. f[l]["backward"] \in Seq(arcs) /\ f[r]["forward"] \in Seq(arcs)
      BY <1>1, <3>4, UnpackedLeads DEF Leads, Ways
    <3> QED BY <3>2, <3>4, <3>7, <3>8, CostOfBoth
  <2>4. ~Unfound(a, w, f)
    BY DEF Unfound
  <2> QED BY <2>2, <2>3, <2>4, UnpackTurnAt
<1>4. 0..NodeCount \subseteq A
  <2>1. A \in SUBSET Nat
    OBVIOUS
  <2> HIDE DEF A
  <2> QED BY <1>2, <1>3, <2>1, Induction
<1>5. arc[1] \in A
  <2> HIDE DEF A
  <2> QED BY <1>2, <1>4
<1> QED BY <1>1, <1>5

(* A rank costs what its parent does and the arc between them: a rank that *)
(* is a parent is never found at less, as no entry is below it.            *)
Paid(s, way) ==
    \A r, p \in Ranks : s.parent[r] = << p, r >> =>
        /\ s.dist[r] = s.dist[p] + cost[way][<< p, r >>]
        /\ \A e \in s.queue : s.dist[p] <= e[1]

LEMMA SettledIsPaid ==
  ASSUME up \subseteq Upward, cost \in [Ways -> [up -> Costs]], NEW way \in Ways, NEW start \in Ranks,
         NEW s, Rooted(s, way, start), s.queue # {}, Paid(s, way)
  PROVE  Paid(Settled(s, way), way)
<1>1. PICK n : n = Settled(s, way)
  OBVIOUS
<1>2. PICK e : e = First(s.queue)
  OBVIOUS
<1>3. s.dist \in [Ranks -> Costs] /\ s.queue \in SUBSET (Nat \X Ranks)
  BY DEF Rooted
<1>4. e \in s.queue /\ e[2] \in Ranks /\ e[1] \in Nat /\ \A f \in s.queue : e[1] <= f[1]
  BY <1>2, <1>3, FirstIsFirst
<1>5. /\ \A r \in Ranks : n.dist[r] = IF r \in Better(s, way) THEN Offer(s, way, r) ELSE s.dist[r]
      /\ \A r \in Ranks : n.parent[r] = IF r \in Better(s, way) THEN << e[2], r >> ELSE s.parent[r]
      /\ n.queue = (s.queue \ {e}) \cup { << Offer(s, way, h), h >> : h \in Better(s, way) }
  <2>1. /\ \A r \in Ranks :
             /\ n.dist[r] = IF r \in Better(s, way) THEN Offer(s, way, r) ELSE s.dist[r]
             /\ n.parent[r] = IF r \in Better(s, way) THEN << First(s.queue)[2], r >> ELSE s.parent[r]
        /\ n.queue = (s.queue \ {First(s.queue)})
                     \cup { << Offer(s, way, h), h >> : h \in Better(s, way) }
    BY <1>1 DEF Settled
  <2> QED BY <1>2, <2>1
<1>6. ASSUME NEW h \in Better(s, way)
      PROVE  /\ e[1] = s.dist[e[2]] /\ h \in Ranks /\ e[2] < h
             /\ cost[way][<< e[2], h >>] \in Nat
             /\ Offer(s, way, h) = e[1] + cost[way][<< e[2], h >>] /\ Offer(s, way, h) < s.dist[h]
             /\ Offer(s, way, h) \in Nat /\ e[1] <= Offer(s, way, h)
  BY <1>2, <1>4, BetterIsHigher
<1>7. \A r \in Ranks : s.dist[r] \in Nat
  BY <1>3 DEF Costs
<1>8. \A f \in n.queue : e[1] <= f[1] /\ f[1] \in Nat
  <2> SUFFICES ASSUME NEW f \in n.queue PROVE e[1] <= f[1] /\ f[1] \in Nat
    OBVIOUS
  <2>1. CASE f \in s.queue
    BY <1>3, <1>4, <2>1
  <2>2. CASE f \notin s.queue
    <3>1. PICK h \in Better(s, way) : f = << Offer(s, way, h), h >>
      BY <1>5, <2>2
    <3> QED BY <1>6, <3>1
  <2> QED BY <2>1, <2>2
<1>9. ASSUME NEW p \in Ranks, s.dist[p] <= e[1] PROVE n.dist[p] = s.dist[p]
  <2>1. ASSUME p \in Better(s, way) PROVE FALSE
    <3>1. s.dist[p] \in Nat
      BY <1>7
    <3>2. Offer(s, way, p) < s.dist[p] /\ Offer(s, way, p) \in Nat /\ e[1] <= Offer(s, way, p)
      BY <1>6, <2>1
    <3>3. e[1] \in Nat /\ s.dist[p] <= e[1]
      BY <1>4, <1>9
    <3> QED BY <3>1, <3>2, <3>3
  <2> QED BY <1>5, <2>1
<1>10. ASSUME NEW r \in Ranks, NEW p \in Ranks, n.parent[r] = << p, r >>
       PROVE  /\ n.dist[r] = n.dist[p] + cost[way][<< p, r >>]
              /\ \A f \in n.queue : n.dist[p] <= f[1]
  <2>1. CASE r \in Better(s, way)
    <3>0. << e[2], r >> = << p, r >>
      BY <1>5, <1>10, <2>1
    <3>1. p = e[2] /\ n.dist[r] = e[1] + cost[way][<< p, r >>] /\ e[1] = s.dist[p]
      <4>1. p = e[2]
        BY <3>0
      <4>2. /\ Offer(s, way, r) = e[1] + cost[way][<< e[2], r >>] /\ e[1] = s.dist[e[2]]
            /\ n.dist[r] = Offer(s, way, r)
        BY <1>5, <1>6, <2>1
      <4> QED BY <4>1, <4>2
    <3>2. n.dist[p] = e[1]
      BY <1>4, <1>9, <3>1
    <3> QED BY <1>8, <3>1, <3>2
  <2>2. CASE r \notin Better(s, way)
    <3>1. s.parent[r] = << p, r >> /\ n.dist[r] = s.dist[r]
      BY <1>5, <1>10, <2>2
    <3>2. s.dist[r] = s.dist[p] + cost[way][<< p, r >>] /\ s.dist[p] <= e[1]
      BY <1>4, <3>1 DEF Paid
    <3>3. n.dist[p] = s.dist[p]
      BY <1>9, <3>2
    <3>4. \A f \in n.queue : s.dist[p] <= f[1]
      BY <1>4, <1>7, <1>8, <3>2
    <3> QED BY <3>1, <3>2, <3>3, <3>4
  <2> QED BY <2>1, <2>2
<1> QED BY <1>1, <1>10 DEF Paid

(* The way from a start to a rank costs what the search says of the rank.  *)
LEMMA ClimbCosts ==
  ASSUME up \subseteq Upward, arcs \subseteq Arc, Valid, cost \in [Ways -> [up -> Costs]],
         NEW way \in Ways, NEW start \in Ranks, Rooted(search[way], way, start), Paid(search[way], way),
         NEW rr \in Ranks, search[way].dist[rr] # Infinite
  PROVE  Climb(way)[rr] \in Seq(arcs) /\ Cost(Climb(way)[rr]) = search[way].dist[rr]
<1>1. PICK f : f = Climb(way)
  OBVIOUS
<1>2. PICK d : d = search[way].dist
  OBVIOUS
<1>3. NodeCount \in Nat /\ \A r \in Ranks : r \in 0..NodeCount
  BY NodesAreRanks
<1>4. \A r \in Ranks : d[r] # Infinite => f[r] \in Seq(arcs)
  BY <1>1, <1>2, ClimbLeads DEF Climbs, Leads
<1> DEFINE P(r) == r \in Ranks /\ d[r] # Infinite => Cost(f[r]) = d[r]
           A == { k \in Nat : P(k) }
<1>5. ASSUME NEW k \in 0..NodeCount, 0..(k - 1) \subseteq A PROVE k \in A
  <2> SUFFICES ASSUME k \in Ranks, d[k] # Infinite PROVE Cost(f[k]) = d[k]
    OBVIOUS
  <2>1. f[k] = ClimbTurn(way, k, f)
    BY <1>1, ClimbUnfolds
  <2>2. CASE k = start
    <3>1. f[k] = << >> /\ d[k] = 0
      BY <1>2, <2>1, <2>2 DEF ClimbTurn, Rooted
    <3> QED BY <3>1, CostOfFew
  <2>3. CASE k # start
    <3>1. PICK p \in Ranks : /\ search[way].parent[k] = << p, k >> /\ << p, k >> \in up
                             /\ d[p] # Infinite /\ cost[way][<< p, k >>] # Infinite
      BY <1>2, <2>3 DEF Rooted
    <3>2. PICK arc \in up : arc = << p, k >>
      BY <3>1
    <3>3. arc # None
      BY <3>2, CchRouterAssumption DEF Upward
    <3>4. f[k] = IF way = "forward" THEN f[p] \o Unpacked[arc][way] ELSE Unpacked[arc][way] \o f[p]
      BY <2>1, <3>1, <3>2, <3>3 DEF ClimbTurn
    <3>5. p \in 0..(k - 1)
      BY <3>1, NodesAreRanks DEF Upward
    <3>6. p \in A
      <4> HIDE DEF A
      <4> QED BY <1>5, <3>5
    <3>7. Cost(f[p]) = d[p] /\ f[p] \in Seq(arcs)
      BY <1>4, <3>1, <3>6
    <3>8. Cost(Unpacked[arc][way]) = cost[way][arc] /\ Unpacked[arc][way] \in Seq(arcs)
      BY <3>1, <3>2, UnpackedCosts, UnpackedLeads DEF Leads
    <3>9. d[k] = d[p] + cost[way][arc]
      BY <1>2, <3>1, <3>2 DEF Paid
    <3>10. Cost(f[k]) = Cost(f[p]) + Cost(Unpacked[arc][way])
      <4>1. /\ Cost(f[p] \o Unpacked[arc][way]) = Cost(f[p]) + Cost(Unpacked[arc][way])
            /\ Cost(Unpacked[arc][way] \o f[p]) = Cost(Unpacked[arc][way]) + Cost(f[p])
            /\ Cost(f[p]) \in Nat /\ Cost(Unpacked[arc][way]) \in Nat
        BY <3>7, <3>8, CostOfBoth
      <4> QED BY <3>4, <4>1
    <3> QED BY <3>7, <3>8, <3>9, <3>10
  <2> QED BY <2>2, <2>3
<1>6. 0..NodeCount \subseteq A
  <2>1. A \in SUBSET Nat
    OBVIOUS
  <2> HIDE DEF A
  <2> QED BY <1>3, <1>5, <2>1, Induction
<1>7. rr \in A
  <2> HIDE DEF A
  <2> QED BY <1>3, <1>6
<1> QED BY <1>1, <1>2, <1>4, <1>7

(* A leg that is found is a way of arcs from its source to its target that *)
(* costs what the searches say, even over a pack that was altered.         *)
LEMMA EdgesCost ==
  ASSUME up \subseteq Upward, arcs \subseteq Arc, Valid, cost \in [Ways -> [up -> Costs]],
         NEW s \in Nodes, NEW t \in Nodes, s # t,
         Ended("forward", rank[s]), Ended("backward", rank[t]), Total(Meeting) # Infinite,
         \A way \in Ways : Paid(search[way], way)
  PROVE  Cost(Edges) = Total(Meeting)
<1>1. PICK m \in Ranks : m = Meeting
  BY MeetingIsLeast
<1>2. /\ search["forward"].dist[m] # Infinite /\ search["backward"].dist[m] # Infinite
      /\ Total(m) = search["forward"].dist[m] + search["backward"].dist[m]
  BY <1>1 DEF Total, Add
<1>3. rank[s] \in Ranks /\ rank[t] \in Ranks
  BY DEF Valid, IsPermutation
<1>4. /\ Climb("forward")[m] \in Seq(arcs) /\ Cost(Climb("forward")[m]) = search["forward"].dist[m]
      /\ Climb("backward")[m] \in Seq(arcs) /\ Cost(Climb("backward")[m]) = search["backward"].dist[m]
  BY <1>2, <1>3, ClimbCosts DEF Ended, Ways
<1> QED BY <1>1, <1>2, <1>4, CostOfBoth DEF Edges

-----------------------------------------------------------------------------
(* A way of arcs, what it costs and the nodes it runs through              *)
RealWay(p, w, g, x, y) ==
    Leads(p, rank[x], rank[y]) /\ w = Cost(p) /\ g = << x >> \o Tos(p)

LEMMA RealWayIs ==
  ASSUME Grounded, NEW x \in Nodes, NEW y, NEW p, NEW w, NEW g, RealWay(p, w, g, x, y)
  PROVE  /\ p \in Seq(arcs) /\ w \in Nat /\ g \in Seq(Nat)
         /\ Tos(p) \in Seq(Nat) /\ << x >> \in Seq(Nat) /\ Tail(g) = Tos(p)
<1>1. p \in Seq(arcs) /\ arcs \subseteq Arc /\ x \in Nat
  BY NodesAreRanks DEF RealWay, Leads, Grounded
<1>2. w \in Nat
  BY <1>1, CostOfBoth DEF RealWay
<1>3. PICK q, o \in Seq(Nat) : q = Tos(p) /\ o = << x >> /\ Len(o) = 1
  <2>1. Tos(p) \in Seq(Nat)
    BY <1>1, OfBoth
  <2>2. << x >> \in Seq(Nat) /\ Len(<< x >>) = 1
    BY <1>1
  <2> QED BY <2>1, <2>2
<1>4. PICK n \in Nat : n = Len(q)
  BY <1>3, LenProperties
<1>5. /\ g \in Seq(Nat) /\ Len(g) = 1 + n
      /\ \A i \in 1..(1 + n) : g[i] = IF i <= 1 THEN o[i] ELSE q[i - 1]
  <2>1. /\ o \o q \in Seq(Nat) /\ Len(o \o q) = Len(o) + Len(q)
        /\ \A i \in 1..(Len(o) + Len(q)) : (o \o q)[i] = IF i <= Len(o) THEN o[i] ELSE q[i - Len(o)]
    BY <1>3, ConcatProperties
  <2> QED BY <1>3, <1>4, <2>1 DEF RealWay
<1>6. g # <<>>
  BY <1>4, <1>5, EmptySeq
<1>7. PICK d \in Seq(Nat) : /\ d = Tail(g) /\ Len(d) = n /\ \A i \in 1..n : d[i] = g[i + 1]
  <2>1. /\ Tail(g) \in Seq(Nat) /\ Len(Tail(g)) = Len(g) - 1
        /\ \A i \in 1..Len(Tail(g)) : Tail(g)[i] = g[i + 1]
    BY <1>5, <1>6, HeadTailProperties
  <2>2. Len(Tail(g)) = n
    BY <1>4, <1>5, <2>1
  <2> QED BY <2>1, <2>2
<1>8. \A i \in 1..n : i + 1 \in 1..(1 + n) /\ ~(i + 1 <= 1) /\ (i + 1) - 1 = i
  BY <1>4
<1>9. \A i \in 1..n : d[i] = q[i]
  BY <1>5, <1>7, <1>8
<1>10. d = q
  BY <1>3, <1>4, <1>7, <1>9, SeqEqual
<1> QED BY <1>1, <1>2, <1>3, <1>5, <1>7, <1>10

(* Two ways that meet are one, and their joint is in it once.              *)
LEMMA RealWaysJoin ==
  ASSUME Grounded, NEW x \in Nodes, NEW y \in Nodes, NEW z \in Nodes,
         NEW p, NEW w, NEW g, RealWay(p, w, g, x, y),
         NEW q, NEW v, NEW h, RealWay(q, v, h, y, z)
  PROVE  RealWay(p \o q, w + v, g \o Tail(h), x, z)
<1>1. /\ p \in Seq(arcs) /\ q \in Seq(arcs) /\ Tos(p) \in Seq(Nat) /\ Tos(q) \in Seq(Nat)
      /\ << x >> \in Seq(Nat) /\ Tail(h) = Tos(q) /\ g = << x >> \o Tos(p)
      /\ w = Cost(p) /\ v = Cost(q) /\ arcs \subseteq Arc
  <2>1. p \in Seq(arcs) /\ Tos(p) \in Seq(Nat) /\ << x >> \in Seq(Nat)
    BY RealWayIs
  <2>2. q \in Seq(arcs) /\ Tos(q) \in Seq(Nat) /\ Tail(h) = Tos(q)
    BY RealWayIs
  <2> QED BY <2>1, <2>2 DEF RealWay, Grounded
<1>2. Leads(p \o q, rank[x], rank[z])
  BY LeadsOn DEF RealWay, Grounded
<1>3. Cost(p \o q) = w + v
  BY <1>1, CostOfBoth
<1>4. Tos(p \o q) = Tos(p) \o Tos(q)
  BY <1>1, OfBoth
<1>5. (<< x >> \o Tos(p)) \o Tos(q) = << x >> \o (Tos(p) \o Tos(q))
  BY <1>1, ConcatAssociative
<1> QED BY <1>1, <1>2, <1>3, <1>4, <1>5 DEF RealWay

(* The last node of a way is the one it leads to.                          *)
LEMMA RealWayEnds ==
  ASSUME Grounded, NEW x \in Nodes, NEW y \in Nodes,
         NEW p, NEW w, NEW g, RealWay(p, w, g, x, y)
  PROVE  Last(g) = y
<1>1. /\ p \in Seq(arcs) /\ Tos(p) \in Seq(Nat) /\ << x >> \in Seq(Nat) /\ g = << x >> \o Tos(p)
      /\ \A a \in arcs : a.to \in Nodes
  BY RealWayIs DEF RealWay, Grounded, ValidArcs
<1>2. PICK n \in Nat : n = Len(p) /\ DOMAIN p = 1..n
  BY <1>1, LenProperties
<1>3. PICK q, o \in Seq(Nat) : /\ q = Tos(p) /\ Len(q) = n /\ \A i \in 1..n : q[i] = p[i].to
                               /\ o = << x >> /\ Len(o) = 1 /\ o[1] = x
  <2>1. Len(Tos(p)) = n /\ \A i \in 1..n : Tos(p)[i] = p[i].to
    BY <1>1, <1>2 DEF Tos
  <2>2. Len(<< x >>) = 1 /\ << x >>[1] = x
    OBVIOUS
  <2> QED BY <1>1, <2>1, <2>2
<1>4. Len(g) = 1 + n /\ \A i \in 1..(1 + n) : g[i] = IF i <= 1 THEN o[i] ELSE q[i - 1]
  <2>1. /\ Len(o \o q) = Len(o) + Len(q)
        /\ \A i \in 1..(Len(o) + Len(q)) : (o \o q)[i] = IF i <= Len(o) THEN o[i] ELSE q[i - Len(o)]
    BY ConcatProperties
  <2> QED BY <1>1, <1>3, <2>1
<1>5. IsPermutation(rank)
  BY DEF Grounded
<1>6. CASE p = <<>>
  <2>1. n = 0 /\ rank[x] = rank[y]
    BY <1>2, <1>6, EmptySeq DEF RealWay, Leads
  <2>2. x = y
    BY <1>5, <2>1 DEF IsPermutation
  <2>3. Len(g) = 1 /\ g[1] = x
    BY <1>3, <1>4, <2>1
  <2> QED BY <2>2, <2>3 DEF Last
<1>7. CASE p # <<>>
  <2>1. n \in 1..n
    BY <1>1, <1>2, <1>7, EmptySeq
  <2>2. rank[p[n].to] = rank[y]
    BY <1>2, <1>7 DEF RealWay, Leads
  <2>3. p[n].to \in Nodes
    BY <1>1, <1>2, <2>1, ElementOfSeq
  <2>4. p[n].to = y
    BY <1>5, <2>2, <2>3 DEF IsPermutation
  <2>5. 1 + n \in 1..(1 + n) /\ ~(1 + n <= 1) /\ (1 + n) - 1 = n
    BY <2>1
  <2>6. g[1 + n] = y
    BY <1>3, <1>4, <2>1, <2>4, <2>5
  <2> QED BY <1>4, <2>6 DEF Last
<1> QED BY <1>6, <1>7

-----------------------------------------------------------------------------
(* Legs that are ways between the controls they belong to                  *)
RealLeg(leg, s, t) ==
    s \in Nodes /\ t \in Nodes /\ RealWay(leg.edges, leg.weight, leg.nodes, s, t)

LegsReal == \A i \in 1..Len(legs) : RealLeg(legs[i], Source(request, i), Target(request, i))

(* What RoutesAreRealized says of a route                                  *)
RealRoute(a) ==
    LET edges == FlattenSeq([i \in DOMAIN legs |-> legs[i].edges])
    IN  /\ a.weight = Sum([i \in DOMAIN edges |-> edges[i].weight])
        /\ a.geometry = << request.controls[1] >> \o [i \in DOMAIN edges |-> edges[i].to]
        /\ ToSet(edges) \subseteq arcs
        /\ \A i \in 2..Len(edges) : edges[i].from = edges[i - 1].to
        /\ \A i \in DOMAIN legs : Last(legs[i].nodes) = Target(request, i)

Parts == [i \in DOMAIN legs |-> IF i = 1 THEN legs[i].nodes ELSE Tail(legs[i].nodes)]

(* A leg starts where the one before it ends.                              *)
LEMMA LegsMeet ==
  ASSUME request \in Requests, Len(request.controls) \in 2..MaxControls
  PROVE  /\ LegCount(request) \in Nat \ {0} /\ Source(request, 1) = request.controls[1]
         /\ \A i \in 1..(LegCount(request) - 1) : Target(request, i) = Source(request, i + 1)
<1>1. PICK m \in Nat : m = Len(request.controls) /\ m >= 2
  BY CchRouterAssumption
<1>2. PICK x \in {0, 1} : x = IF request.closed THEN 1 ELSE 0
  OBVIOUS
<1>3. LegCount(request) = m - 1 + x
  BY <1>1, <1>2 DEF LegCount
<1>4. \A i \in 1..((m - 1 + x) - 1) : i # m
  BY <1>1
<1> QED BY <1>1, <1>3, <1>4 DEF Source, Target

LEMMA RoutesAreReal ==
  ASSUME Grounded, request \in Requests, Len(request.controls) \in 2..MaxControls,
         NEW S, legs \in Seq(S), Len(legs) = LegCount(request), LegsReal
  PROVE  RealRoute([geometry |-> Joined(legs),
                    weight   |-> Sum([i \in DOMAIN legs |-> legs[i].weight])])
<1>1. PICK n \in Nat \ {0} : n = Len(legs) /\ DOMAIN legs = 1..n /\ n = LegCount(request)
  BY LegsMeet, LenProperties
<1>2. \A i \in 1..n : /\ Source(request, i) \in Nodes /\ Target(request, i) \in Nodes
                      /\ RealWay(legs[i].edges, legs[i].weight, legs[i].nodes,
                                 Source(request, i), Target(request, i))
  BY <1>1 DEF LegsReal, RealLeg
<1>3. \A i \in 1..n : /\ legs[i].edges \in Seq(arcs) /\ legs[i].weight \in Nat
                      /\ legs[i].nodes \in Seq(Nat) /\ Tail(legs[i].nodes) \in Seq(Nat)
  <2> SUFFICES ASSUME NEW i \in 1..n
               PROVE  /\ legs[i].edges \in Seq(arcs) /\ legs[i].weight \in Nat
                      /\ legs[i].nodes \in Seq(Nat) /\ Tail(legs[i].nodes) \in Seq(Nat)
    OBVIOUS
  <2>1. PICK x, y \in Nodes : RealWay(legs[i].edges, legs[i].weight, legs[i].nodes, x, y)
    BY <1>2
  <2>2. PICK p, w, g : p = legs[i].edges /\ w = legs[i].weight /\ g = legs[i].nodes
    OBVIOUS
  <2>3. RealWay(p, w, g, x, y)
    BY <2>1, <2>2
  <2>4. p \in Seq(arcs) /\ w \in Nat /\ g \in Seq(Nat) /\ Tos(p) \in Seq(Nat) /\ Tail(g) = Tos(p)
    BY <2>3, RealWayIs
  <2> QED BY <2>2, <2>4
<1>4. PICK E \in Seq(Seq(arcs)) : /\ E = [i \in DOMAIN legs |-> legs[i].edges] /\ Len(E) = n
                                  /\ \A i \in 1..n : E[i] = legs[i].edges
  <2>1. PICK Q : Q = Seq(arcs)
    OBVIOUS
  <2>2. [i \in 1..n |-> legs[i].edges] \in Seq(Q)
    <3>1. \A i \in 1..n : legs[i].edges \in Q
      BY <1>3, <2>1
    <3>2. [i \in 1..n |-> legs[i].edges] \in [1..n -> Q]
      BY <3>1
    <3> QED BY <3>2
  <2> QED BY <1>1, <2>1, <2>2
<1>5. PICK W \in Seq(Nat) : /\ W = [i \in DOMAIN legs |-> legs[i].weight] /\ Len(W) = n
                            /\ \A i \in 1..n : W[i] = legs[i].weight
  <2>1. PICK w : w = [i \in 1..n |-> legs[i].weight]
    OBVIOUS
  <2>2. w \in [1..n -> Nat] /\ \A i \in 1..n : w[i] = legs[i].weight
    BY <1>3, <2>1
  <2>3. w \in Seq(Nat) /\ Len(w) = n
    BY <2>2
  <2> QED BY <1>1, <2>1, <2>2, <2>3
<1>6. PICK P \in Seq(Seq(Nat)) :
        /\ P = Parts /\ Len(P) = n
        /\ \A i \in 1..n : P[i] = IF i = 1 THEN legs[i].nodes ELSE Tail(legs[i].nodes)
  <2>1. PICK Q : Q = Seq(Nat)
    OBVIOUS
  <2>2. Parts \in Seq(Q) /\ Len(Parts) = n
    <3>1. \A i \in 1..n : (IF i = 1 THEN legs[i].nodes ELSE Tail(legs[i].nodes)) \in Q
      BY <1>3, <2>1
    <3>2. Parts \in [1..n -> Q]
      BY <1>1, <3>1 DEF Parts
    <3> QED BY <3>2
  <2> QED BY <1>1, <2>1, <2>2 DEF Parts
<1>7. E # <<>> /\ P # <<>>
  <2>1. Len(E) # 0 /\ Len(P) # 0
    BY <1>4, <1>6
  <2> QED BY <2>1, EmptySeq
<1>8. PICK F : Joins(F, E, arcs) /\ FlattenSeq(E) = F[n]
  BY <1>4, <1>7, FlattenUnfolds
<1>9. PICK G : Joins(G, P, Nat) /\ FlattenSeq(P) = G[n]
  BY <1>6, <1>7, FlattenUnfolds
<1>10. PICK f : Sums(f, W) /\ Sum(W) = f[n]
  BY <1>5, SumUnfolds
<1> DEFINE A == { k \in Nat : k # 0 => RealWay(F[k], f[k], G[k], Source(request, 1), Target(request, k)) }
<1>11. ASSUME NEW k \in 0..n, 0..(k - 1) \subseteq A PROVE k \in A
  <2> SUFFICES ASSUME k # 0
               PROVE  RealWay(F[k], f[k], G[k], Source(request, 1), Target(request, k))
    OBVIOUS
  <2>1. k \in 1..n
    OBVIOUS
  <2>2. f[k] = f[k - 1] + W[k]
    <3>1. k \in 0..Len(W)
      BY <1>5
    <3> QED BY <1>10, <3>1 DEF Sums, SumTurn
  <2>3. CASE k = 1
    <3>1. F[1] = legs[1].edges /\ G[1] = legs[1].nodes
      BY <1>4, <1>6, <1>8, <1>9, <2>1, <2>3 DEF Joins
    <3>2. f[1] = legs[1].weight
      <4>1. f[0] = 0
        <5>1. 0 \in 0..Len(W)
          BY <1>5
        <5> QED BY <1>10, <5>1 DEF Sums, SumTurn
      <4>2. f[1] = 0 + W[1] /\ W[1] = legs[1].weight /\ legs[1].weight \in Nat
        BY <1>3, <1>5, <2>1, <2>2, <2>3, <4>1
      <4> QED BY <4>2
    <3> QED BY <1>2, <2>1, <2>3, <3>1, <3>2
  <2>4. CASE k # 1
    <3>1. PICK j \in 1..(n - 1) : j = k - 1 /\ j + 1 = k /\ j \in 0..(k - 1) /\ j # 0
      BY <2>1, <2>4
    <3>2. RealWay(F[j], f[j], G[j], Source(request, 1), Target(request, j))
      <4>1. j \in A
        <5> HIDE DEF A
        <5> QED BY <1>11, <3>1
      <4> QED BY <3>1, <4>1
    <3>3. Target(request, j) = Source(request, k)
      BY <1>1, <3>1, LegsMeet
    <3>4. k \in 2..n /\ j \in 1..n /\ 1 \in 1..n
      BY <2>1, <2>4, <3>1
    <3>5. F[k] = F[j] \o legs[k].edges
      BY <1>4, <1>8, <2>1, <3>1, <3>4 DEF Joins
    <3>6. G[k] = G[j] \o Tail(legs[k].nodes)
      BY <1>6, <1>9, <2>1, <2>4, <3>1, <3>4 DEF Joins
    <3>7. f[k] = f[j] + legs[k].weight
      BY <1>5, <2>1, <2>2, <3>1
    <3>8. RealWay(legs[k].edges, legs[k].weight, legs[k].nodes, Target(request, j), Target(request, k))
      BY <1>2, <2>1, <3>3
    <3>9. RealWay(F[j] \o legs[k].edges, f[j] + legs[k].weight, G[j] \o Tail(legs[k].nodes),
                  Source(request, 1), Target(request, k))
      BY <1>2, <2>1, <3>2, <3>4, <3>8, RealWaysJoin
    <3> QED BY <3>5, <3>6, <3>7, <3>9
  <2> QED BY <2>3, <2>4
<1>12. RealWay(F[n], f[n], G[n], Source(request, 1), Target(request, n))
  <2>1. A \in SUBSET Nat
    OBVIOUS
  <2> HIDE DEF A
  <2>2. 0..n \subseteq A
    BY <1>11, <2>1, Induction
  <2>3. n \in A
    BY <2>2
  <2> QED BY <2>3 DEF A
<1>13. PICK edges : edges = F[n]
  OBVIOUS
<1>14. edges = FlattenSeq([i \in DOMAIN legs |-> legs[i].edges])
  BY <1>4, <1>8, <1>13
<1>15. Leads(edges, rank[Source(request, 1)], rank[Target(request, n)]) /\ edges \in Seq(arcs)
  BY <1>12, <1>13 DEF RealWay, Leads
<1>16. Sum(W) = Sum([i \in DOMAIN edges |-> edges[i].weight])
  BY <1>10, <1>12, <1>13 DEF RealWay, Cost, Weights
<1>17. Joined(legs) = << request.controls[1] >> \o [i \in DOMAIN edges |-> edges[i].to]
  <2>1. Joined(legs) = FlattenSeq(P)
    BY <1>6 DEF Joined, Parts
  <2> QED BY <1>9, <1>12, <1>13, <2>1, LegsMeet DEF RealWay, Tos
<1>18. ToSet(edges) \subseteq arcs
  BY <1>15, LenProperties, ElementOfSeq DEF ToSet
<1>19. ASSUME NEW i \in 2..Len(edges) PROVE edges[i].from = edges[i - 1].to
  <2>1. PICK l \in Nat : l = Len(edges)
    BY <1>15, LenProperties
  <2>2. PICK j \in 1..(l - 1) : j = i - 1 /\ j + 1 = i
    BY <1>19, <2>1
  <2>3. edges # <<>>
    BY <1>19, EmptySeq
  <2> QED BY <1>15, <2>1, <2>2, <2>3 DEF Leads
<1>20. \A i \in 1..n : Last(legs[i].nodes) = Target(request, i)
  BY <1>2, RealWayEnds
<1> QED BY <1>1, <1>5, <1>14, <1>16, <1>17, <1>18, <1>19, <1>20 DEF RealRoute

-----------------------------------------------------------------------------
(* Over a request that is asked: its legs, and the searches of the next    *)
Paying == search # None => \A way \in Ways : Paid(search[way], way)

RealInv ==
    /\ request # None =>
         Paying /\ LegsReal /\ (answer = None => Len(request.controls) \in 2..MaxControls)
    /\ RoutesAreRealized

LEMMA RealLegStays ==
  ASSUME UNCHANGED << arcs, rank >>, NEW leg, NEW s, NEW t
  PROVE  RealLeg(leg, s, t)' <=> RealLeg(leg, s, t)
BY DEF RealLeg, RealWay, Leads

LEMMA LegsStayReal ==
  ASSUME UNCHANGED << pack_vars, request, legs >>, LegsReal
  PROVE  LegsReal'
<1>1. UNCHANGED << arcs, rank >>
  BY DEF pack_vars
<1> SUFFICES ASSUME NEW i \in 1..Len(legs)
             PROVE  RealLeg(legs[i], Source(request, i), Target(request, i))'
  BY DEF LegsReal
<1>2. PICK leg, s, t : leg = legs[i] /\ s = Source(request, i) /\ t = Target(request, i)
  OBVIOUS
<1>3. RealLeg(leg, s, t)
  BY <1>2 DEF LegsReal
<1>4. RealLeg(leg, s, t)'
  BY <1>1, <1>3, RealLegStays
<1>5. legs'[i] = leg /\ Source(request', i) = s /\ Target(request', i) = t
  BY <1>2 DEF Source, Target
<1> QED BY <1>4, <1>5 DEF RealLeg, RealWay

LEMMA LegsGrowReal ==
  ASSUME UNCHANGED << pack_vars, request >>, LegsReal, LegsRouted,
         NEW part, legs' = Append(legs, part),
         RealLeg(part, Source(request, Leg), Target(request, Leg))
  PROVE  LegsReal'
<1>1. UNCHANGED << arcs, rank >>
  BY DEF pack_vars
<1>2. PICK S : legs \in Seq(S)
  BY DEF LegsRouted
<1>3. PICK U : U = S \cup {part}
  OBVIOUS
<1>4. legs \in Seq(U) /\ part \in U
  BY <1>2, <1>3
<1>5. PICK k \in Nat : k = Len(legs)
  BY <1>2
<1>6. /\ Len(legs') = k + 1 /\ legs'[k + 1] = part
      /\ \A i \in 1..k : legs'[i] = legs[i]
  BY <1>4, <1>5, AppendProperties
<1> SUFFICES ASSUME NEW i \in 1..(k + 1)
             PROVE  RealLeg(legs[i], Source(request, i), Target(request, i))'
  BY <1>6 DEF LegsReal
<1>7. PICK leg, s, t : leg = legs'[i] /\ s = Source(request, i) /\ t = Target(request, i)
  OBVIOUS
<1>8. RealLeg(leg, s, t)
  <2>1. CASE i = k + 1
    BY <1>5, <1>6, <1>7, <2>1 DEF Leg
  <2>2. CASE i # k + 1
    <3>1. i \in 1..k
      BY <2>2
    <3> QED BY <1>5, <1>6, <1>7, <3>1 DEF LegsReal
  <2> QED BY <2>1, <2>2
<1>9. RealLeg(leg, s, t)'
  BY <1>1, <1>8, RealLegStays
<1>10. Source(request', i) = s /\ Target(request', i) = t
  BY <1>7 DEF Source, Target
<1> QED BY <1>7, <1>9, <1>10 DEF RealLeg, RealWay

LEMMA PaidStays ==
  ASSUME UNCHANGED cost, NEW s, NEW way
  PROVE  Paid(s, way)' <=> Paid(s, way)
BY DEF Paid

LEMMA PayingGoesOn ==
  ASSUME UNCHANGED cost, search' = None \/ \A way \in Ways : Paid(search'[way], way)
  PROVE  Paying'
<1> SUFFICES ASSUME search' # None, NEW way \in Ways PROVE Paid(search[way], way)'
  BY DEF Paying
<1>1. PICK s : s = search'[way] /\ Paid(s, way)
  OBVIOUS
<1>2. Paid(s, way)'
  BY <1>1, PaidStays
<1> QED BY <1>1, <1>2 DEF Paid

(* No answer yet, or an error that may be                                  *)
LEMMA RealizedThen ==
  ASSUME NEW e \in {"InvalidControlCount", "SnapOutOfRange", "NoRoute", "CostOverflow"},
         e = "CostOverflow" => altered',
         answer' = None \/ answer' = [error |-> e]
  PROVE  RoutesAreRealized'
<1>1. CASE answer' = None
  BY <1>1 DEF RoutesAreRealized, Answered
<1>2. CASE answer' = [error |-> e]
  <2>1. answer'.error = e /\ "geometry" \notin DOMAIN answer'
    BY <1>2
  <2>2. answer' # [error |-> "InvalidPack"]
    BY <2>1
  <2>3. ~altered' => answer' # [error |-> "CostOverflow"]
    BY <2>1
  <2> QED BY <2>1, <2>2, <2>3 DEF RoutesAreRealized, Answered
<1> QED BY <1>1, <1>2

-----------------------------------------------------------------------------
LEMMA AskStaysReal ==
  ASSUME RouterInv, NEW q \in Requests, Ask(q)
  PROVE  RealInv'
<1>1. /\ request = None /\ legs = <<>> /\ search = None /\ answer = None
      /\ request' = q /\ altered' = altered
  BY DEF Ask, RouterInv, pack_vars
<1>2. /\ legs' = <<>> /\ search' = None
      /\ \/ answer' = None /\ Len(q.controls) \in 2..MaxControls
         \/ answer' = [error |-> "InvalidControlCount"]
  BY <1>1 DEF Ask, Fail
<1>3. [error |-> "InvalidControlCount"] # None
  <2>1. [error |-> "InvalidControlCount"] \in [error : Errors]
    BY DEF Errors
  <2>2. None \notin [error : Errors]
    BY CchRouterAssumption
  <2> QED BY <2>1, <2>2
<1>4. RoutesAreRealized'
  BY <1>2, RealizedThen
<1>5. Paying' /\ LegsReal'
  <2>1. Len(legs') = 0
    BY <1>2
  <2> QED BY <1>2, <2>1 DEF Paying, LegsReal
<1>6. answer' = None => Len(request'.controls) \in 2..MaxControls
  BY <1>1, <1>2, <1>3
<1> QED BY <1>4, <1>5, <1>6 DEF RealInv

LEMMA BeginLegStaysReal ==
  ASSUME Grounded, RouterInv, RealInv, BeginLeg
  PROVE  RealInv'
<1>1. /\ Routing /\ search = None /\ request # None /\ answer = None /\ request \in Requests /\ LegsRouted
      /\ UNCHANGED << pack_vars, request >> /\ cost' = cost
      /\ LegsReal /\ Len(request.controls) \in 2..MaxControls
  BY DEF BeginLeg, Routing, RouterInv, RealInv, pack_vars
<1>2. PICK s, t : s = Source(request, Leg) /\ t = Target(request, Leg)
  OBVIOUS
<1>3. {s, t} \subseteq Nodes \cup {Nowhere}
  BY <1>1, <1>2, LegAt
<1>4. CASE Nowhere \in {s, t}
  <2>1. answer' = [error |-> "SnapOutOfRange"] /\ search' = None /\ legs' = legs
    BY <1>2, <1>4 DEF BeginLeg, Fail
  <2>2. RoutesAreRealized' /\ Paying' /\ LegsReal'
    BY <1>1, <2>1, RealizedThen, PayingGoesOn, LegsStayReal
  <2> QED BY <1>1, <2>2 DEF RealInv
<1>5. CASE Nowhere \notin {s, t} /\ s = t
  <2>1. PICK part : part = [weight |-> 0, edges |-> <<>>, nodes |-> << s >>]
    OBVIOUS
  <2>2. legs' = Append(legs, part) /\ search' = None /\ answer' = None
    BY <1>1, <1>2, <1>5, <2>1 DEF BeginLeg
  <2>3. s \in Nodes /\ << s >> \in Seq(Nat)
    BY <1>3, <1>5, NodesAreRanks
  <2>4. Tos(<<>>) = <<>> /\ << s >> \o <<>> = << s >>
    BY <2>3, ConcatEmptySeq DEF Tos
  <2>5. Leads(<<>>, rank[s], rank[s])
    BY EmptySeq DEF Leads
  <2>6. Cost(<<>>) = 0
    BY CostOfFew DEF Grounded
  <2>7. RealLeg(part, s, t)
    BY <1>5, <2>1, <2>3, <2>4, <2>5, <2>6 DEF RealLeg, RealWay
  <2>8. RoutesAreRealized' /\ Paying' /\ LegsReal'
    BY <1>1, <1>2, <2>2, <2>7, RealizedThen, PayingGoesOn, LegsGrowReal
  <2> QED BY <1>1, <2>8 DEF RealInv
<1>6. CASE Nowhere \notin {s, t} /\ s # t
  <2>1. search' = [forward |-> SearchFrom(rank[s]), backward |-> SearchFrom(rank[t])]
        /\ legs' = legs /\ answer' = None
    BY <1>1, <1>2, <1>6 DEF BeginLeg, SearchFrom
  <2>2. ASSUME NEW start, NEW way PROVE Paid(SearchFrom(start), way)
    <3>1. \A r, p \in Ranks : None # << p, r >>
      BY CchRouterAssumption
    <3> QED BY <3>1 DEF Paid, SearchFrom
  <2>3. \A way \in Ways : Paid(search'[way], way)
    BY <2>1, <2>2 DEF Ways
  <2>4. RoutesAreRealized' /\ Paying' /\ LegsReal'
    BY <1>1, <2>1, <2>3, RealizedThen, PayingGoesOn, LegsStayReal
  <2> QED BY <1>1, <2>1, <2>4 DEF RealInv
<1> QED BY <1>4, <1>5, <1>6

(* Only over an altered pack can a sum of the search overflow.             *)
LEMMA SettleFits ==
  ASSUME Grounded, RouterInv, Routing, search # None, NEW way \in Ways, search[way].queue # {},
         \E h \in Heads(search[way]) :
            Overflows(First(search[way].queue)[1], cost[way][<< First(search[way].queue)[2], h >>])
  PROVE  altered
<1> SUFFICES ASSUME ~altered PROVE FALSE
  OBVIOUS
<1>1. PICK s : s = search[way]
  OBVIOUS
<1>2. PICK h \in Heads(s) : Overflows(First(s.queue)[1], cost[way][<< First(s.queue)[2], h >>])
  BY <1>1
<1>3. PICK T : Complete(T)
  BY DEF Grounded
<1>4. PICK U : U = Along(T, way) /\ Laid(U, way)
  BY <1>3, CompleteIsLaid DEF Grounded
<1>5. PICK start \in Ranks : Rooted(s, way, start) /\ Explored(s, U, way, start)
  BY <1>1, <1>3, <1>4, SearchIsOn DEF Searching
<1>6. ~Overflows(First(s.queue)[1], cost[way][<< First(s.queue)[2], h >>])
  BY <1>1, <1>4, <1>5, SearchFits DEF Grounded
<1> QED BY <1>2, <1>6

LEMMA SettleStaysReal ==
  ASSUME Grounded, RouterInv, RealInv, NEW way \in Ways, Settle(way)
  PROVE  RealInv'
<1>1. /\ Routing /\ search # None /\ search[way].queue # {} /\ UNCHANGED << pack_vars, request >>
      /\ cost' = cost /\ altered' = altered
  BY DEF Settle, pack_vars
<1>2. PICK s : s = search[way]
  OBVIOUS
<1>3. /\ request # None /\ answer = None /\ DOMAIN search = Ways
      /\ \A w \in Ways : Start(w) \in Ranks /\ Searching(search[w], w, Start(w))
      /\ \A w \in Ways : Paid(search[w], w)
      /\ LegsReal /\ Len(request.controls) \in 2..MaxControls
  <2>1. request # None /\ answer = None /\ DOMAIN search = Ways
        /\ \A w \in Ways : Start(w) \in Ranks /\ Searching(search[w], w, Start(w))
    BY <1>1, SearchIsOn
  <2> QED BY <1>1, <2>1 DEF RealInv, Paying
<1>4. CASE \E h \in Heads(s) : Overflows(First(s.queue)[1], cost[way][<< First(s.queue)[2], h >>])
  <2>1. answer' = [error |-> "CostOverflow"] /\ search' = None /\ legs' = legs
    BY <1>2, <1>4, SettleTurn DEF Fail
  <2>2. altered
    BY <1>1, <1>2, <1>4, SettleFits
  <2>3. RoutesAreRealized' /\ Paying' /\ LegsReal'
    BY <1>1, <1>3, <2>1, <2>2, RealizedThen, PayingGoesOn, LegsStayReal
  <2> QED BY <1>1, <1>3, <2>3 DEF RealInv
<1>5. CASE ~ \E h \in Heads(s) : Overflows(First(s.queue)[1], cost[way][<< First(s.queue)[2], h >>])
  <2>1. search' = [search EXCEPT ![way] = Settled(s, way)] /\ legs' = legs /\ answer' = None
    BY <1>2, <1>3, <1>5, SettleTurn
  <2>2. ASSUME NEW w \in Ways PROVE Paid(search'[w], w)
    <3>1. CASE w = way
      <4>1. PICK start \in Ranks : Rooted(s, way, start)
        BY <1>2, <1>3 DEF Searching
      <4>2. Paid(Settled(s, way), way)
        BY <1>1, <1>2, <1>3, <4>1, SettledIsPaid DEF Grounded
      <4>3. search'[w] = Settled(s, way)
        BY <1>3, <2>1, <3>1
      <4> QED BY <3>1, <4>2, <4>3
    <3>2. CASE w # way
      <4>1. search'[w] = search[w]
        BY <1>3, <2>1, <3>2
      <4> QED BY <1>3, <4>1
    <3> QED BY <3>1, <3>2
  <2>3. RoutesAreRealized' /\ Paying' /\ LegsReal'
    BY <1>1, <1>3, <2>1, <2>2, RealizedThen, PayingGoesOn, LegsStayReal
  <2> QED BY <1>1, <1>3, <2>3 DEF RealInv
<1> QED BY <1>4, <1>5

(* What the searches of a leg know when they are over, whatever the pack   *)
LEMMA LegIsReal ==
  ASSUME Grounded, RouterInv, Paying, Routing, search # None,
         \A way \in Ways : search[way].queue = {},
         NEW r \in Ranks, Total(r) # Infinite,
         ~Overflows(search["forward"].dist[r], search["backward"].dist[r])
  PROVE  /\ Connected(Source(request, Leg), Target(request, Leg), Edges)
         /\ RealLeg([weight |-> Total(Meeting), edges |-> Edges,
                     nodes |-> << Source(request, Leg) >> \o [i \in DOMAIN Edges |-> Edges[i].to]],
                    Source(request, Leg), Target(request, Leg))
<1>1. PICK s, t \in Nodes : s = Source(request, Leg) /\ t = Target(request, Leg) /\ s # t
  BY SearchIsOn
<1>2. Start("forward") = rank[s] /\ Start("backward") = rank[t]
  BY <1>1 DEF Start
<1>3. Ended("forward", rank[s]) /\ Ended("backward", rank[t])
  BY <1>2, SearchIsOn DEF Ended, Searching, Ways
<1>4. Total(Meeting) # Infinite
  <2>1. PICK l, h \in Costs : l = search["forward"].dist[r] /\ h = search["backward"].dist[r]
    BY <1>3 DEF Ended, Rooted
  <2>2. Total(r) = Add(l, h) /\ ~Overflows(l, h)
    BY <2>1 DEF Total
  <2>3. Total(r) < Infinite
    BY <2>2, NodesAreRanks DEF Add, Overflows, Costs
  <2>4. Total(Meeting) <= Total(r) /\ Total(Meeting) \in Nat /\ Total(r) \in Nat
    BY <1>3, MeetingIsLeast
  <2> QED BY <2>3, <2>4, NodesAreRanks
<1>5. Edges \in Seq(arcs) /\ Connected(s, t, Edges) /\ Leads(Edges, rank[s], rank[t])
  BY <1>1, <1>3, <1>4, EdgesConnect DEF Grounded
<1>6. Cost(Edges) = Total(Meeting)
  BY <1>1, <1>3, <1>4, EdgesCost DEF Grounded, Paying
<1>7. PICK leg : /\ leg = [weight |-> Total(Meeting), edges |-> Edges, nodes |-> << s >> \o Tos(Edges)]
                 /\ leg.weight = Total(Meeting) /\ leg.edges = Edges /\ leg.nodes = << s >> \o Tos(Edges)
  <2>1. PICK w, p, g : w = Total(Meeting) /\ p = Edges /\ g = << s >> \o Tos(Edges)
    OBVIOUS
  <2>2. PICK leg : leg = [weight |-> w, edges |-> p, nodes |-> g]
    OBVIOUS
  <2>3. leg.weight = w /\ leg.edges = p /\ leg.nodes = g
    BY <2>2
  <2> QED BY <2>1, <2>2, <2>3
<1>8. RealLeg(leg, s, t)
  BY <1>5, <1>6, <1>7 DEF RealLeg, RealWay
<1> QED BY <1>1, <1>5, <1>7, <1>8 DEF Tos

LEMMA FinishLegStaysReal ==
  ASSUME Grounded, RouterInv, RealInv, FinishLeg
  PROVE  RealInv'
<1>1. /\ Routing /\ search # None /\ UNCHANGED << pack_vars, request >>
      /\ \A way \in Ways : search[way].queue = {}
      /\ cost' = cost /\ altered' = altered
  BY DEF FinishLeg, pack_vars
<1>2. /\ request # None /\ answer = None /\ LegsRouted /\ Paying
      /\ LegsReal /\ Len(request.controls) \in 2..MaxControls
  <2>1. request # None /\ answer = None /\ LegsRouted
    BY <1>1, SearchIsOn
  <2> QED BY <2>1 DEF RealInv
<1>3. PICK s, t : s = Source(request, Leg) /\ t = Target(request, Leg)
  OBVIOUS
<1> DEFINE Over  == \E r \in Ranks : Overflows(search["forward"].dist[r], search["backward"].dist[r])
           Apart == \A r \in Ranks : Total(r) = Infinite
           part  == [weight |-> Total(Meeting), edges |-> Edges,
                     nodes |-> << s >> \o [i \in DOMAIN Edges |-> Edges[i].to]]
<1>4. IF Over THEN Fail("CostOverflow")
      ELSE IF Apart THEN Fail("NoRoute")
      ELSE IF ~Connected(s, t, Edges) THEN Fail("InvalidPack")
      ELSE legs' = Append(legs, part) /\ search' = None /\ answer' = answer
  BY <1>3, Zenon DEF FinishLeg
<1>5. Over => altered
  BY <1>1, LegIsShortest
<1>6. ~Over /\ ~Apart => Connected(s, t, Edges) /\ RealLeg(part, s, t)
  BY <1>1, <1>2, <1>3, LegIsReal
<1> HIDE DEF Over, Apart, part
<1>7. CASE Over \/ Apart
  <2>1. PICK e \in {"NoRoute", "CostOverflow"} : (e = "CostOverflow" => altered) /\ Fail(e)
    BY <1>4, <1>5, <1>7
  <2>2. answer' = [error |-> e] /\ search' = None /\ legs' = legs
    BY <2>1 DEF Fail
  <2>3. RoutesAreRealized'
    BY <1>1, <2>1, <2>2, RealizedThen
  <2>4. Paying' /\ LegsReal'
    BY <1>1, <1>2, <2>2, PayingGoesOn, LegsStayReal
  <2> QED BY <1>1, <1>2, <2>3, <2>4 DEF RealInv
<1>8. CASE ~Over /\ ~Apart
  <2>1. legs' = Append(legs, part) /\ search' = None /\ answer' = None /\ RealLeg(part, s, t)
    BY <1>2, <1>4, <1>6, <1>8
  <2>2. RoutesAreRealized'
    BY <2>1, RealizedThen
  <2>3. LegsReal'
    BY <1>1, <1>2, <1>3, <2>1, LegsGrowReal
  <2>4. Paying'
    BY <1>1, <2>1, PayingGoesOn
  <2> QED BY <1>1, <1>2, <2>2, <2>3, <2>4 DEF RealInv
<1> QED BY <1>7, <1>8

LEMMA AnswerStaysReal ==
  ASSUME Grounded, RouterInv, RealInv, Answer
  PROVE  RealInv'
<1>1. /\ request # None /\ answer = None /\ Len(legs) = LegCount(request)
      /\ UNCHANGED << pack_vars, request >> /\ cost' = cost /\ arcs' = arcs /\ altered' = altered
      /\ request \in Requests /\ LegsRouted
      /\ Paying /\ LegsReal /\ Len(request.controls) \in 2..MaxControls
  BY DEF Answer, RouterInv, RealInv, pack_vars
<1>2. PICK weight, a : /\ weight = Sum([i \in DOMAIN legs |-> legs[i].weight])
                       /\ a = [geometry |-> Joined(legs), weight |-> weight]
  OBVIOUS
<1>3. IF weight > Infinite THEN Fail("CostOverflow")
      ELSE answer' = a /\ legs' = legs /\ search' = search
  BY <1>2, Zenon DEF Answer
<1>4. legs' = legs /\ (search' = None \/ search' = search)
  BY <1>3 DEF Fail
<1>5. LegsReal'
  BY <1>1, <1>4, LegsStayReal
<1>6. Paying'
  <2>1. CASE search' = None \/ search = None
    BY <1>1, <1>4, <2>1, PayingGoesOn
  <2>2. CASE search' = search /\ search # None
    BY <1>1, <2>2, PayingGoesOn DEF Paying
  <2> QED BY <1>4, <2>1, <2>2
<1>7. CASE weight > Infinite
  <2>1. answer' = [error |-> "CostOverflow"]
    BY <1>3, <1>7 DEF Fail
  <2>2. altered'
    <3> SUFFICES ASSUME ~altered PROVE FALSE
      BY <1>1
    <3>1. weight \in Nat /\ weight <= Infinite
      BY <1>1, <1>2, SumFits
    <3> QED BY <1>7, <3>1, NodesAreRanks
  <2>3. RoutesAreRealized'
    BY <2>1, <2>2, RealizedThen
  <2>4. answer' # None
    <3>1. [error |-> "CostOverflow"] \in [error : Errors]
      BY DEF Errors
    <3> QED BY <2>1, <3>1, CchRouterAssumption
  <2> QED BY <1>1, <1>5, <1>6, <2>3, <2>4 DEF RealInv
<1>8. CASE ~(weight > Infinite)
  <2>1. answer' = a /\ legs' = legs
    BY <1>3, <1>8
  <2>2. RealRoute(a)
    BY <1>1, <1>2, RoutesAreReal DEF LegsRouted
  <2>3. DOMAIN a = {"geometry", "weight"}
    BY <1>2
  <2>4. \A e : a # [error |-> e]
    <3> SUFFICES ASSUME NEW e, a = [error |-> e] PROVE FALSE
      OBVIOUS
    <3>1. DOMAIN a = {"error"}
      OBVIOUS
    <3> QED BY <2>3, <3>1
  <2>5. RealRoute(a)'
    BY <1>1, <2>1, <2>2 DEF RealRoute, Target
  <2>6. RoutesAreRealized'
    BY <2>1, <2>4, <2>5 DEF RoutesAreRealized, RealRoute
  <2> QED BY <1>1, <1>5, <1>6, <2>6 DEF RealInv
<1> QED BY <1>7, <1>8

LEMMA PackStepStaysReal ==
  ASSUME RouterInv, PackNext, UNCHANGED router_vars
  PROVE  RealInv'
<1>1. stage # "loaded"
  BY DEF PackNext, Build, Eliminate, TakeOriginals, Customize, WritePack, Alter, LoadPack
<1>2. request' = None /\ answer' = None
  BY <1>1 DEF RouterInv, router_vars
<1>3. RoutesAreRealized'
  BY <1>2, RealizedThen
<1> QED BY <1>2, <1>3 DEF RealInv

LEMMA IdleStaysReal ==
  ASSUME RealInv, UNCHANGED vars
  PROVE  RealInv'
<1>1. /\ UNCHANGED << pack_vars, request, legs, search, answer >>
      /\ cost' = cost /\ arcs' = arcs /\ altered' = altered
  BY DEF vars, pack_vars, router_vars
<1>2. RoutesAreRealized'
  BY <1>1 DEF RealInv, RoutesAreRealized, Answered, Target
<1>3. CASE request = None
  BY <1>1, <1>2, <1>3 DEF RealInv
<1>4. CASE request # None
  <2>1. LegsReal'
    BY <1>1, <1>4, LegsStayReal DEF RealInv
  <2>2. Paying'
    BY <1>1, <1>4, PayingGoesOn DEF RealInv, Paying
  <2> QED BY <1>1, <1>2, <1>4, <2>1, <2>2 DEF RealInv
<1> QED BY <1>3, <1>4

LEMMA StepStaysReal == IInv /\ CustomInv /\ RouterInv /\ RealInv /\ [RouterNext]_vars => RealInv'
<1> SUFFICES ASSUME IInv, CustomInv, RouterInv, RealInv, [RouterNext]_vars PROVE RealInv'
  OBVIOUS
<1>1. CASE PackNext /\ UNCHANGED router_vars
  BY <1>1, PackStepStaysReal
<1>2. ASSUME NEW q \in Requests, Ask(q) PROVE RealInv'
  BY <1>2, AskStaysReal
<1>3. request # None => Grounded
  BY LoadedIsGrounded DEF RouterInv
<1>4. CASE BeginLeg
  BY <1>3, <1>4, BeginLegStaysReal DEF BeginLeg, Routing
<1>5. ASSUME NEW way \in Ways, Settle(way) PROVE RealInv'
  BY <1>3, <1>5, SettleStaysReal DEF Settle, Routing
<1>6. CASE FinishLeg
  BY <1>3, <1>6, FinishLegStaysReal DEF FinishLeg, Routing
<1>7. CASE Answer
  BY <1>3, <1>7, AnswerStaysReal DEF Answer
<1>8. CASE UNCHANGED vars
  BY <1>8, IdleStaysReal
<1> QED BY <1>1, <1>2, <1>4, <1>5, <1>6, <1>7, <1>8 DEF RouterNext

(* Whatever pack passes validation: a route runs along arcs of the graph   *)
(* through the controls in their order and through no joint twice, costs   *)
(* what its arcs cost, and the check of an unpacked path never fires.      *)
THEOREM RouterRealizesRoutes == RouterSpec => []RoutesAreRealized
<1>1. RouterInit => RouterInv /\ RealInv
  BY DEF RouterInit, RouterInv, RoutesAreShortest, RealInv, RoutesAreRealized, Answered
<1>2. RealInv => RoutesAreRealized
  BY DEF RealInv
<1> QED
  BY <1>1, <1>2, RouterStepKeeps, StepStaysReal, RouterKeepsPack, CustomInvariance, PTL DEF RouterSpec

===============================================================================
