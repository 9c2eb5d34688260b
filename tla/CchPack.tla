------------------------------ MODULE CchPack ------------------------------
(***************************************************************************)
(* How a routing pack is built, kept and loaded (crates/cch-routing-lite): *)
(* nodes are ranked, the graph is filled rank by rank until the higher     *)
(* neighbours of each rank are a clique (CchStructure::build), its upward  *)
(* arcs are given costs and witnesses over lower triangles                 *)
(* (CchWeights::customize), and what is written is validated by the        *)
(* builder and again by whoever loads it, perhaps after it was altered.    *)
(*                                                                         *)
(* An upward arc is the pair of its ranks, lower rank first; where the     *)
(* code keeps it in its arrays is left out, the order of the arcs is not.  *)
(* One bottom rank is one step of each loop: no step of a loop reads what  *)
(* the same step writes.  Arcs of the input are a set, since equal arcs    *)
(* are interchangeable and sorted before use.                              *)
(***************************************************************************)
EXTENDS Integers, Sequences, SequencesExt, FiniteSets

CONSTANTS
    NodeCount,
    MaxArcWeight,  \* MAX_PACK_ARC_WEIGHT
    Infinite,      \* INFINITE_COST
    Inputs,        \* the graphs to build: sets of arcs
    Positions,     \* coordinates of the nodes, which build_pack orders by
    GivenRanks,    \* ranks of a BuildConfig
    Fragile,       \* those inputs whose packs may be altered
    NoWitness      \* Witness::None

Nodes == 0..(NodeCount - 1)
Ranks == Nodes
Arc   == [from : Nat, to : Nat, weight : 0..(MaxArcWeight + 1)]

MaxRouteWeight == MaxArcWeight * MaxArcWeight

(* Weights are u32 and costs u64; the code asserts the second line, and a  *)
(* pack of at most 32 MiB has far too few nodes to break the last.         *)
ASSUME CchAssumption ==
    /\ {NodeCount, MaxArcWeight, Infinite} \subseteq Nat \ {0}
    /\ MaxArcWeight + 1 < Infinite /\ MaxRouteWeight < Infinite
    /\ NodeCount - 1 <= MaxArcWeight
    /\ Inputs \subseteq SUBSET Arc /\ Fragile \subseteq Inputs
    /\ GivenRanks \subseteq [Nodes -> Nat]
    /\ Positions \subseteq [Nodes -> [lat : Int, lng : Int]]
    /\ 2 * (NodeCount - 1) * MaxArcWeight < Infinite

ASSUME WitnessAssumption ==
    NoWitness \notin Arc \cup [bottom : Ranks \X Ranks, mid : Ranks \X Ranks]

(* An upward arc bears a cost each way.                                    *)
Ways == {"forward", "backward"}

VARIABLES
    stage,         \* how far the pack is
    arcs, rank,    \* the input, and rank[node]
    up,            \* the upward arcs
    bottom,        \* the next rank of the loop
    cost, witness, \* of each way of each upward arc
    altered        \* history: the pack on disk is not what was built

pack_vars == << stage, arcs, rank, up, bottom, cost, witness, altered >>

-----------------------------------------------------------------------------
(* spatial_ordering: the middle one of the nodes, in order of the wider    *)
(* coordinate, comes after both halves.                                    *)
SpatialOrdering(nodes) ==
    LET Spread(ids, axis) ==
            LET at == { nodes[id][axis] : id \in ids }
            IN  CHOOSE d \in { x - y : x, y \in at } : \A x, y \in at : x - y <= d
        Sorted(ids) ==
            LET axis == IF Spread(ids, "lng") >= Spread(ids, "lat") THEN "lng" ELSE "lat"
            IN  SetToSortSeq(ids, LAMBDA l, r :
                    \/ nodes[l][axis] < nodes[r][axis]
                    \/ nodes[l][axis] = nodes[r][axis] /\ l < r)
        order[ids \in SUBSET Nodes] ==
            IF ids = {} THEN <<>>
            ELSE LET sorted == Sorted(ids)
                     middle == Len(sorted) \div 2
                 IN  order[ToSet(SubSeq(sorted, 1, middle))]
                     \o order[ToSet(SubSeq(sorted, middle + 2, Len(sorted)))]
                     \o << sorted[middle + 1] >>
    IN  [ n \in Nodes |-> (CHOOSE i \in 1..NodeCount : order[Nodes][i] = n) - 1 ]

IsPermutation(r) ==
    /\ \A n \in Nodes : r[n] \in Ranks
    /\ \A m, n \in Nodes : r[m] = r[n] => m = n

ValidArcs == \A a \in arcs : {a.from, a.to} \subseteq Nodes /\ a.from # a.to /\ a.weight > 0

-----------------------------------------------------------------------------
(* The ranks an upward arc leads from and to.                              *)
Ends(arc, way) == IF way = "forward" THEN arc ELSE << arc[2], arc[1] >>

(* The original arcs that lead the same way.                               *)
Originals(arc, way) == { a \in arcs : << rank[a.from], rank[a.to] >> = Ends(arc, way) }

Cheapest(S) == CHOOSE a \in S : \A b \in S : a.weight <= b.weight

Overflows(l, r) == l # Infinite /\ r # Infinite /\ l + r >= Infinite

Add(l, r) == IF l = Infinite \/ r = Infinite THEN Infinite ELSE l + r

Higher(b) == { h \in Ranks : << b, h >> \in up }

SlipChainOnly(b) ==
    { e \in Higher(b) \X Higher(b) :
        e[1] < e[2] /\ ~ \E h \in Higher(b) : e[1] < h /\ h < e[2] }

(* The fill arcs of the higher neighbours of a rank.                       *)
Clique(b) == { e \in Higher(b) \X Higher(b) : e[1] < e[2] }

Below(b, arc) == << b, arc[1] >> \in up /\ << b, arc[2] >> \in up

(* Down to the bottom of a triangle, and up again.                         *)
Legs(b, arc, way) ==
    << cost["backward"][<< b, Ends(arc, way)[1] >>],
       cost["forward"][<< b, Ends(arc, way)[2] >>] >>

Via(b, arc, way) == LET l == Legs(b, arc, way) IN Add(l[1], l[2])

SlipEqualImproves(b, arc, way) == Below(b, arc) /\ Via(b, arc, way) <= cost[way][arc]

Improves(b, arc, way) == Below(b, arc) /\ Via(b, arc, way) < cost[way][arc]

Triangle(b, arc) == [bottom |-> << b, arc[1] >>, mid |-> << b, arc[2] >>]

-----------------------------------------------------------------------------
Init ==
    /\ stage = "input"
    /\ rank \in { SpatialOrdering(nodes) : nodes \in Positions } \cup GivenRanks
    /\ arcs \in Inputs
    /\ up = {} /\ bottom = 0
    /\ cost = [way \in Ways |-> <<>>] /\ witness = [way \in Ways |-> <<>>]
    /\ altered = FALSE

(* CchStructure::build up to its loop of elimination                       *)
Build ==
    /\ stage = "input"
    /\ IF IsPermutation(rank) /\ ValidArcs
       THEN /\ stage' = "fill"
            /\ up' = { e \in Ranks \X Ranks :
                         e[1] < e[2] /\ \E way \in Ways : Originals(e, way) # {} }
       ELSE stage' = "refused" /\ up' = up
    /\ UNCHANGED << arcs, rank, bottom, cost, witness, altered >>

Eliminate ==
    /\ stage = "fill" /\ bottom < NodeCount
    /\ up' = up \cup Clique(bottom)
    /\ bottom' = bottom + 1
    /\ UNCHANGED << stage, arcs, rank, cost, witness, altered >>

(* CchWeights::customize up to its loop over triangles                     *)
TakeOriginals ==
    /\ stage = "fill" /\ bottom = NodeCount
    /\ cost' = [way \in Ways |-> [arc \in up |->
          IF Originals(arc, way) = {} THEN Infinite ELSE Cheapest(Originals(arc, way)).weight]]
    /\ witness' = [way \in Ways |-> [arc \in up |->
          IF Originals(arc, way) = {} THEN NoWitness ELSE Cheapest(Originals(arc, way))]]
    /\ stage' = "customize" /\ bottom' = 0
    /\ UNCHANGED << arcs, rank, up, altered >>

Customize ==
    /\ stage = "customize" /\ bottom < NodeCount
    /\ IF \E arc \in up, way \in Ways :
            Below(bottom, arc) /\ Overflows(Legs(bottom, arc, way)[1], Legs(bottom, arc, way)[2])
       THEN stage' = "refused" /\ UNCHANGED << bottom, cost, witness >>
       ELSE /\ cost' = [way \in Ways |-> [arc \in up |->
                  IF Improves(bottom, arc, way) THEN Via(bottom, arc, way) ELSE cost[way][arc]]]
            /\ witness' = [way \in Ways |-> [arc \in up |->
                  IF Improves(bottom, arc, way) THEN Triangle(bottom, arc)
                  ELSE witness[way][arc]]]
            /\ bottom' = bottom + 1
            /\ UNCHANGED stage
    /\ UNCHANGED << arcs, rank, up, altered >>

-----------------------------------------------------------------------------
(* The order of the arcs in the arrays                                     *)
Before(arc, other) ==
    arc[1] < other[1] \/ (arc[1] = other[1] /\ arc[2] < other[2])

Triangles == [bottom : up, mid : up]

(* validate_witness of an original arc                                     *)
IsOriginal(arc, way, a) == a \in Originals(arc, way) /\ a.weight = cost[way][arc]

SlipUnchecked(arc, way, t) ==
    /\ t \in Triangles /\ cost[way][arc] # Infinite
    /\ Before(t.bottom, arc) /\ Before(t.mid, arc)
    /\ t = Triangle(t.bottom[1], arc)
    /\ Via(t.bottom[1], arc, way) # Infinite

(* validate_witness of a triangle                                          *)
IsTriangle(arc, way, t) ==
    /\ t \in Triangles /\ cost[way][arc] # Infinite
    /\ Before(t.bottom, arc) /\ Before(t.mid, arc)
    /\ t = Triangle(t.bottom[1], arc)
    /\ ~Overflows(Legs(t.bottom[1], arc, way)[1], Legs(t.bottom[1], arc, way)[2])
    /\ Via(t.bottom[1], arc, way) = cost[way][arc]

(* DiskPack::validate                                                      *)
Valid ==
    /\ ValidArcs /\ \A a \in arcs : a.weight <= MaxArcWeight
    /\ IsPermutation(rank)
    /\ \A way \in Ways, arc \in up :
         LET w == witness[way][arc]
         IN  /\ cost[way][arc] = Infinite \/ cost[way][arc] <= MaxRouteWeight
             /\ \/ w = NoWitness /\ cost[way][arc] = Infinite
                \/ IsOriginal(arc, way, w)
                \/ IsTriangle(arc, way, w)

(* to_pack_bytes from its validation on                                    *)
WritePack ==
    /\ stage = "customize" /\ bottom = NodeCount
    /\ stage' = IF Valid THEN "packed" ELSE "refused"
    /\ UNCHANGED << arcs, rank, up, bottom, cost, witness, altered >>

(* The file changes: an arc has another cost, another witness, or both.     *)
Alter ==
    /\ stage = "packed" /\ ~altered /\ arcs \in Fragile
    /\ altered' = TRUE
    /\ \E way \in Ways, arc \in up, c \in (0..(MaxRouteWeight + 1)) \cup {Infinite},
          w \in {NoWitness} \cup arcs \cup Triangles :
         /\ cost' = [cost EXCEPT ![way][arc] = c]
         /\ witness' = [witness EXCEPT ![way][arc] = w]
    /\ UNCHANGED << stage, arcs, rank, up, bottom >>

(* LoadedPack::from_bytes                                                  *)
LoadPack ==
    /\ stage = "packed"
    /\ stage' = IF Valid THEN "loaded" ELSE "refused"
    /\ UNCHANGED << arcs, rank, up, bottom, cost, witness, altered >>

PackNext ==
    Build \/ Eliminate \/ TakeOriginals \/ Customize \/ WritePack \/ Alter \/ LoadPack

PackSpec == Init /\ [][PackNext]_pack_vars

-----------------------------------------------------------------------------
Stages == {"input", "fill", "customize", "packed", "loaded", "refused"}
Costs  == 0..Infinite

(* The variables keep their types.                                         *)
PackTypeOK ==
    /\ stage \in Stages /\ bottom \in 0..NodeCount /\ altered \in BOOLEAN
    /\ up \subseteq { e \in Ranks \X Ranks : e[1] < e[2] }
    /\ stage \in {"customize", "packed", "loaded"} =>
          /\ cost \in [Ways -> [up -> Costs]]
          /\ witness \in [Ways -> [up -> {NoWitness} \cup arcs \cup Triangles]]

(* The higher neighbours of an eliminated rank are a clique, so that the   *)
(* customization finds the third side of every lower triangle; and that    *)
(* side costs no more, in either direction, than the way down to the lower *)
(* rank and up again.                                                      *)
LowerTrianglesHold ==
    /\ stage = "fill" =>
          \A b \in 0..(bottom - 1) : \A l, h \in Higher(b) : l < h => << l, h >> \in up
    /\ stage \in {"customize", "packed", "loaded"} =>
          \A b \in Ranks : \A l, h \in Higher(b) : l < h =>
              /\ << l, h >> \in up
              /\ b < bottom /\ ~altered =>
                    \A way \in Ways : cost[way][<< l, h >>] <= Via(b, << l, h >>, way)

(* The builder refuses no valid graph, however it is ordered: every cost   *)
(* can be represented, and what is written passes the validation it will   *)
(* meet on the phone.                                                      *)
ValidGraphsArePacked ==
    stage = "refused" =>
        altered \/ ~IsPermutation(rank) \/ ~ValidArcs \/ \E a \in arcs : a.weight > MaxArcWeight

=============================================================================
