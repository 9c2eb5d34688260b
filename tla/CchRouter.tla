----------------------------- MODULE CchRouter -----------------------------
(***************************************************************************)
(* A router over a loaded pack (crates/cch-routing-lite): route_many takes *)
(* the legs of a request one after the other, and for each leg searches    *)
(* upward from both its ends, meets, and unpacks the shortcuts of the way  *)
(* found to arcs of the original graph.                                    *)
(*                                                                         *)
(* A control is the node it snaps to, or Nowhere if none is near enough.   *)
(* Taking one entry from the queue of a search is one step.  Geometry is   *)
(* the nodes it runs through; lengths and elevations are left out.  A      *)
(* witness of a valid pack is there and lies below its arc, and so unpack  *)
(* needs no count of its depth here.                                       *)
(***************************************************************************)
EXTENDS CchPack

CONSTANTS
    Requests,      \* of controls and closed_loop
    Nowhere,       \* a control that snaps to no node
    MaxControls,   \* of a request
    None           \* no search, no parent, no answer

Errors == {"InvalidControlCount", "SnapOutOfRange", "NoRoute", "CostOverflow", "InvalidPack"}

(* As many legs as a request may have, each as long as a way can be, cost   *)
(* less than a u64 holds: 16 of them, over a pack of at most 32 MiB.       *)
ASSUME CchRouterAssumption ==
    /\ MaxControls \in Nat /\ MaxControls * (NodeCount - 1) * MaxArcWeight <= Infinite
    /\ None \notin Nat \cup (Ranks \X Ranks) \cup Requests \cup [error : Errors]
    /\ Nowhere \notin Nodes
    /\ \A q \in Requests : q.controls \in Seq(Nodes \cup {Nowhere}) /\ q.closed \in BOOLEAN

VARIABLES
    request,       \* what is asked
    legs,          \* the legs that have been routed
    search,        \* the searches of the current leg: [dist, parent, queue] each way
    answer         \* geometry and cost, or an error

router_vars == << request, legs, search, answer >>
vars == << pack_vars, router_vars >>

LegCount(q) == Len(q.controls) - 1 + (IF q.closed THEN 1 ELSE 0)

Source(q, i) == q.controls[i]
Target(q, i) == IF i = Len(q.controls) THEN q.controls[1] ELSE q.controls[i + 1]

Fail(error) == answer' = [error |-> error] /\ search' = None /\ UNCHANGED legs

RouterInit == Init /\ request = None /\ legs = <<>> /\ search = None /\ answer = None

(* A router does not change; the behaviour asks it once.                   *)
Ask(q) ==
    /\ stage = "loaded" /\ request = None
    /\ request' = q
    /\ IF Len(q.controls) \in 2..MaxControls THEN UNCHANGED << legs, search, answer >>
       ELSE Fail("InvalidControlCount")
    /\ UNCHANGED pack_vars

Routing == request # None /\ answer = None /\ Len(legs) < LegCount(request)
Leg == Len(legs) + 1

(* route: both ends snap, and a leg that leads nowhere is empty.           *)
BeginLeg ==
    /\ Routing /\ search = None
    /\ LET s == Source(request, Leg)
           t == Target(request, Leg)
           At(node) == [ dist   |-> [r \in Ranks |-> IF r = rank[node] THEN 0 ELSE Infinite],
                         parent |-> [r \in Ranks |-> None],
                         queue  |-> {<< 0, rank[node] >>} ]
       IN  IF Nowhere \in {s, t} THEN Fail("SnapOutOfRange")
           ELSE IF s = t
           THEN /\ legs' = Append(legs, [weight |-> 0, edges |-> <<>>, nodes |-> << s >>])
                /\ UNCHANGED << search, answer >>
           ELSE /\ search' = [forward |-> At(s), backward |-> At(t)]
                /\ UNCHANGED << legs, answer >>
    /\ UNCHANGED << pack_vars, request >>

(* An entry of a heap that gives the cheapest first.                       *)
First(queue) ==
    CHOOSE e \in queue : \A f \in queue : e[1] < f[1] \/ (e[1] = f[1] /\ e[2] <= f[2])

(* An arc from the entry that leads to its head at less than is known.     *)
Relaxes(s, e, way, h) == Add(e[1], cost[way][<< e[2], h >>]) < s.dist[h]

(* upward_search: one entry, which may have been overtaken                 *)
Settle(way) ==
    /\ Routing /\ search # None
    /\ search[way].queue # {}
    /\ way = "backward" => search["forward"].queue = {}
    /\ LET s == search[way]
           e == First(s.queue)
           heads == IF e[1] = s.dist[e[2]] THEN Higher(e[2]) ELSE {}
           better == { h \in heads : Relaxes(s, e, way, h) }
           next(h) == Add(e[1], cost[way][<< e[2], h >>])
       IN  IF \E h \in heads : Overflows(e[1], cost[way][<< e[2], h >>])
           THEN Fail("CostOverflow")
           ELSE /\ search' = [search EXCEPT ![way] =
                     [ dist   |-> [r \in Ranks |-> IF r \in better THEN next(r) ELSE s.dist[r]],
                       parent |-> [r \in Ranks |->
                                      IF r \in better THEN << e[2], r >> ELSE s.parent[r]],
                       queue  |-> (s.queue \ {e}) \cup { << next(h), h >> : h \in better } ]]
                /\ UNCHANGED << legs, answer >>
    /\ UNCHANGED << pack_vars, request >>

-----------------------------------------------------------------------------
Total(r) == Add(search["forward"].dist[r], search["backward"].dist[r])

SlipFirstMeeting ==
    CHOOSE r \in Ranks : Total(r) # Infinite /\ \A o \in Ranks : Total(o) # Infinite => r <= o

(* The cheapest rank that both searches reach, the lowest of them.         *)
Meeting ==
    CHOOSE r \in Ranks : \A o \in Ranks : Total(r) < Total(o) \/ (Total(r) = Total(o) /\ r <= o)

(* unpack_arc, either way of an arc.  No way that was found runs over an   *)
(* arc without a witness.                                                  *)
Unpacked ==
    LET unpacked[arc \in up] ==
          [way \in Ways |->
              LET w == witness[way][arc]
                  e == Ends(arc, way)
              IN  IF w = NoWitness THEN <<>>
                  ELSE IF w \in arcs THEN << w >>
                  ELSE unpacked[<< w.bottom[1], e[1] >>]["backward"]
                       \o unpacked[<< w.bottom[1], e[2] >>]["forward"]]
    IN  unpacked

(* The original arcs along the parents of a rank: from the source up to    *)
(* it, or from it down to the target.                                      *)
Climb(way) ==
    LET climb[r \in Ranks] ==
          LET arc == search[way].parent[r]
          IN  IF arc = None THEN <<>>
              ELSE IF way = "forward" THEN climb[arc[1]] \o Unpacked[arc][way]
              ELSE Unpacked[arc][way] \o climb[arc[1]]
    IN  climb

(* unpack of the path of query                                             *)
Edges == Climb("forward")[Meeting] \o Climb("backward")[Meeting]

(* original_node_path, and the check that it ends at the target            *)
Connected(s, t, edges) ==
    /\ \A i \in 1..Len(edges) : edges[i].from = IF i = 1 THEN s ELSE edges[i - 1].to
    /\ Last(edges).to = t

FinishLeg ==
    /\ Routing /\ search # None
    /\ \A way \in Ways : search[way].queue = {}
    /\ LET s == Source(request, Leg)
           t == Target(request, Leg)
           edges == Edges
       IN  IF \E r \in Ranks : Overflows(search["forward"].dist[r], search["backward"].dist[r])
           THEN Fail("CostOverflow")
           ELSE IF \A r \in Ranks : Total(r) = Infinite THEN Fail("NoRoute")
           ELSE IF ~Connected(s, t, edges) THEN Fail("InvalidPack")
           ELSE /\ legs' = Append(legs,
                      [weight |-> Total(Meeting), edges |-> edges,
                       nodes |-> << s >> \o [i \in DOMAIN edges |-> edges[i].to]])
                /\ search' = None /\ UNCHANGED answer
    /\ UNCHANGED << pack_vars, request >>

(* The first point of a leg is the last one of the leg before.             *)
Joined(parts) ==
    FlattenSeq([i \in DOMAIN parts |-> IF i = 1 THEN parts[i].nodes ELSE Tail(parts[i].nodes)])

Sum(numbers) ==
    LET sum[i \in 0..Len(numbers)] == IF i = 0 THEN 0 ELSE sum[i - 1] + numbers[i]
    IN  sum[Len(numbers)]

(* route_many from its loop on.  The legs are added up one by one, and some *)
(* addition overflows exactly if their sum does; here the greatest u64 is  *)
(* a number like any other.                                                *)
Answer ==
    /\ request # None /\ answer = None /\ Len(legs) = LegCount(request)
    /\ LET weight == Sum([i \in DOMAIN legs |-> legs[i].weight])
       IN  IF weight > Infinite THEN Fail("CostOverflow")
           ELSE /\ answer' = [geometry |-> Joined(legs), weight |-> weight]
                /\ UNCHANGED << legs, search >>
    /\ UNCHANGED << pack_vars, request >>

RouterNext ==
    \/ PackNext /\ UNCHANGED router_vars
    \/ \E q \in Requests : Ask(q)
    \/ BeginLeg \/ \E way \in Ways : Settle(way)
    \/ FinishLeg \/ Answer

RouterSpec == RouterInit /\ [][RouterNext]_vars

-----------------------------------------------------------------------------
Answered == answer # None /\ "geometry" \in DOMAIN answer

(* The least cost of a way of at most k arcs: the definition the router is *)
(* held to.                                                                *)
Least(source) ==
    LET least[k \in 0..(NodeCount - 1)] ==
          [n \in Nodes |->
              LET ways == { Add(least[k - 1][a.from], a.weight) : a \in { b \in arcs : b.to = n } }
              IN  IF n = source THEN 0
                  ELSE IF k = 0 \/ ways = {} THEN Infinite
                  ELSE CHOOSE c \in ways : \A d \in ways : c <= d]
    IN  least

Distance(source, target) == Least(source)[NodeCount - 1][target]

Distances(q) == [i \in 1..LegCount(q) |-> Distance(Source(q, i), Target(q, i))]

(* A pack that was built routes every request at the least cost there is,  *)
(* leg by leg, and says that there is no route exactly if some leg has     *)
(* none: ordering, fill, costs, searches and their meeting together lose   *)
(* no path and invent none.                                                *)
RoutesAreShortest ==
    answer # None /\ ~altered /\ Len(request.controls) \in 2..MaxControls
      /\ Nowhere \notin ToSet(request.controls) =>
        IF Infinite \in ToSet(Distances(request)) THEN answer = [error |-> "NoRoute"]
        ELSE Answered /\ answer.weight = Sum(Distances(request))

(* Whatever pack passes validation, one altered on disk included: a route  *)
(* runs along arcs of the graph from control to control, in the order of   *)
(* the request and through no joint twice, and costs what they cost.  The  *)
(* check of an unpacked path never fires, nor, of a pack that was built,   *)
(* that of a sum, be it within a search, where two of them meet, or over   *)
(* the legs: an altered one may have a few costs near MaxRouteWeight.      *)
RoutesAreRealized ==
    /\ answer # None => answer # [error |-> "InvalidPack"]
    /\ answer # None /\ ~altered => answer # [error |-> "CostOverflow"]
    /\ Answered =>
         LET edges == FlattenSeq([i \in DOMAIN legs |-> legs[i].edges])
         IN  /\ answer.weight = Sum([i \in DOMAIN edges |-> edges[i].weight])
             /\ answer.geometry =
                  << request.controls[1] >> \o [i \in DOMAIN edges |-> edges[i].to]
             /\ ToSet(edges) \subseteq arcs
             /\ \A i \in 2..Len(edges) : edges[i].from = edges[i - 1].to
             /\ \A i \in DOMAIN legs : Last(legs[i].nodes) = Target(request, i)

=============================================================================
