---------------------------- MODULE RoutePayload ----------------------------
(***************************************************************************)
(* From the legs of a draft to the list of another client: what            *)
(* packages/route-studio/index.js composes, trims and puts in the body of  *)
(* a publication, what apps/api/src/index.ts accepts, stores and finds     *)
(* again, and what a client decodes.                                       *)
(*                                                                         *)
(* Lengths are integers: Micro units are the sixth decimal of a degree,    *)
(* which the API rounds to, and Metre units a metre, which trims and       *)
(* distances are rounded to.  The length of a segment is |dx| + |dy|, so   *)
(* that interpolation is exact on segments along an axis; the properties   *)
(* need only that it grows along the route.  Elevations are whole metres,  *)
(* as the draft keeps them.                                                *)
(***************************************************************************)
EXTENDS SpatialIndex

CONSTANTS
    Micro, Metre,
    None,             \* nothing yet
    NoSelection,      \* selection is null
    Drafts,           \* drafts that a person may review
    ForeignBodies,    \* bodies of other clients
    Boxes,            \* what nearby is asked for
    Sydney,           \* SYDNEY_BOUNDS
    MaxSpan,          \* bboxSpan
    MaxPoints,        \* V2_LIMITS.points
    MaxPointsV1,      \* LIMITS.points
    MaxControls,      \* V2_LIMITS.controlPoints
    Elevations        \* from V2_LIMITS.minElevationM to maxElevationM

Place == [x : Int, y : Int, ele : Int]

Box ==
    { box \in [minX : Int, minY : Int, maxX : Int, maxY : Int] :
        box.minX <= box.maxX /\ box.minY <= box.maxY }

(* A leg is a geometry of setLegResult, of two points or more; a box has   *)
(* passed validateBbox.                                                    *)
ASSUME RoutePayloadAssumption ==
    /\ Micro \in Nat \ {0} /\ Metre \in Nat /\ Metre >= Micro
    /\ MaxSpan \in Nat /\ {MaxPoints, MaxPointsV1, MaxControls} \subseteq Nat
    /\ Elevations \subseteq Int
    /\ \A d \in Drafts :
          /\ d.legs \in Seq(Seq(Place)) /\ \A i \in 1..Len(d.legs) : Len(d.legs[i]) >= 2
          /\ d.selection # NoSelection =>
                /\ d.selection.startM \in Nat /\ d.selection.endM \in Nat
                /\ d.selection.startM <= d.selection.endM
    /\ \A b \in ForeignBodies : b.geometry \in Seq(Place)
    /\ Boxes \subseteq Box /\ Sydney \in Box
    /\ Sydney.minX >= 0 /\ Sydney.maxX <= (MaxTile + 1) * CellSize
    /\ Sydney.minY >= 0 /\ Sydney.maxY <= (MaxTile + 1) * CellSize

VARIABLES
    phase,    \* of the publication: draft, ready, refused, stored, listed
    draft,    \* its legs and its selection; or None, for another client's
    body,     \* the body of the request
    row,      \* what was inserted
    answer    \* of nearby: the box, and the geometries a client decodes

vars == << phase, draft, body, row, answer >>

(* Math.round, of a length in some unit.                                   *)
Round(v, unit) == (2 * v + unit) \div (2 * unit)

Size(v) == IF v < 0 THEN -v ELSE v

DistanceBetween(a, b) == Size(b.x - a.x) + Size(b.y - a.y)

-----------------------------------------------------------------------------
(* getComposedGeometry: a leg's first point is the last one of the leg     *)
(* before, unless they differ, in their elevation too.                     *)
Composed(legs) ==
    FlattenSeq([ i \in DOMAIN legs |->
        IF i > 1 /\ legs[i][1] = Last(legs[i - 1]) THEN Tail(legs[i]) ELSE legs[i] ])

(* profileFromGeometry: the distances along the route.                     *)
Profile(geometry) ==
    LET along[i \in 1..Len(geometry)] ==
            IF i = 1 THEN 0 ELSE along[i - 1] + DistanceBetween(geometry[i - 1], geometry[i])
    IN  along

Length(geometry) == Last(Profile(geometry))

(* metricsFromGeometry *)
DistanceM(geometry) == Round(Length(geometry), Metre)

Lerp(a, b, part, span) == a + ((b - a) * part) \div span

(* interpolateAtDistance *)
PointAt(geometry, distance) ==
    LET along == Profile(geometry)
        d     == Min({distance, Last(along)})
        next  == Min({ i \in 2..Len(geometry) : d <= along[i] })
        a     == geometry[next - 1]
        b     == geometry[next]
        part  == d - along[next - 1]
        span  == along[next] - along[next - 1]
    IN  IF span = 0 THEN a
        ELSE [ x   |-> Lerp(a.x, b.x, part, span),
               y   |-> Lerp(a.y, b.y, part, span),
               ele |-> a.ele + Round((b.ele - a.ele) * part, span) ]

SlipKeepsEnds(along, i, start, end) == along[i] >= start /\ along[i] <= end

(* The points strictly between the ends of the trim are kept.              *)
KeptByTrim(along, i, start, end) == along[i] > start /\ along[i] < end

(* trimGeometry *)
Trimmed(geometry, selection) ==
    LET along == Profile(geometry)
        start == selection.startM * Metre
        end   == selection.endM * Metre
        selected[i \in 1..(Len(geometry) - 1)] ==
            IF i = 1 THEN << PointAt(geometry, start) >>
            ELSE selected[i - 1]
                   \o (IF KeptByTrim(along, i, start, end) THEN << geometry[i] >> ELSE << >>)
    IN  IF start = 0 /\ end = Last(along) THEN geometry
        ELSE Append(selected[Len(geometry) - 1], PointAt(geometry, end))

(* getTrimmedGeometry *)
Selected(d) ==
    IF d.selection = NoSelection THEN Composed(d.legs) ELSE Trimmed(Composed(d.legs), d.selection)

(* controlAnchorIndexes: where the legs end, if each starts where the one  *)
(* before it ended.                                                        *)
Anchors(legs) ==
    LET cursor[i \in 1..Len(legs)] == (IF i = 1 THEN 1 ELSE cursor[i - 1]) + (Len(legs[i]) - 1)
    IN  [ i \in 1..Len(legs) |-> Min({cursor[i], Len(Composed(legs))}) ]

SlipAnchorOfRoute(geometry, route, anchor) == {anchor}

(* findIndex: the first point that is the anchor's.                        *)
Matches(geometry, route, anchor) ==
    LET same == { i \in DOMAIN geometry : geometry[i] = route[anchor] }
    IN  IF same = {} THEN {} ELSE {Min(same)}

(* new Set(selected), sorted.                                              *)
InOrder(indexes) ==
    CHOOSE s \in [1..Cardinality(indexes) -> indexes] :
        \A i, j \in 1..Cardinality(indexes) : i < j => s[i] < s[j]

(* The control points of buildPublishPayload, counted from 1.              *)
ControlIndexes(d) ==
    LET geometry == Selected(d)
        anchors  == Anchors(d.legs)
        inner    == UNION { Matches(geometry, Composed(d.legs), anchors[i]) :
                               i \in 1..(Len(d.legs) - 1) }
    IN  InOrder({1, Len(geometry)} \cup (inner \cap 2..(Len(geometry) - 1)))

(* prepareDraftForPublication; a route that is not whole has no geometry.  *)
Prepare ==
    /\ phase = "draft"
    /\ draft.named
    /\ draft.legs # <<>> /\ draft.invalidated = {}
    /\ body' = [api |-> "v2", geometry |-> Selected(draft), controls |-> ControlIndexes(draft)]
    /\ phase' = "ready"
    /\ UNCHANGED << draft, row, answer >>

-----------------------------------------------------------------------------
(* canonicalCoordinate; whole elevations are canonical.                    *)
Canonical(p) == [x |-> Round(p.x, Micro) * Micro, y |-> Round(p.y, Micro) * Micro]

(* What is stored of a body: v1 points are rounded only when they are      *)
(* encoded.                                                                *)
Geometry(b) ==
    [ i \in DOMAIN b.geometry |->
        IF b.api = "v2" THEN Canonical(b.geometry[i])
        ELSE [x |-> b.geometry[i].x, y |-> b.geometry[i].y] ]

(* assertSydneyBbox *)
WithinSydney(box) ==
    /\ box.minX >= Sydney.minX /\ box.maxX <= Sydney.maxX
    /\ box.minY >= Sydney.minY /\ box.maxY <= Sydney.maxY
    /\ box.maxX - box.minX <= MaxSpan /\ box.maxY - box.minY <= MaxSpan

(* normalizeV2Geometry *)
NeighboursDiffer(geometry) == \A i \in 1..(Len(geometry) - 1) : geometry[i] # geometry[i + 1]

Heights(geometry) == { geometry[i].ele : i \in DOMAIN geometry }

(* normalizeControlPoints *)
ValidControls(controls, pointCount) ==
    /\ Len(controls) \in 2..MaxControls
    /\ \A i \in DOMAIN controls : controls[i] \in 1..pointCount
    /\ controls[1] = 1 /\ Last(controls) = pointCount
    /\ \A i \in 1..(Len(controls) - 1) : controls[i] < controls[i + 1]

(* normalizeGeometry, normalizeV2Publication                               *)
Accepts(b) ==
    /\ Len(b.geometry) \in 2..(IF b.api = "v2" THEN MaxPoints ELSE MaxPointsV1)
    /\ WithinSydney(BboxFromPoints(Geometry(b)))
    /\ b.api = "v2" =>
          /\ NeighboursDiffer(Geometry(b)) /\ ValidControls(b.controls, Len(b.geometry))
          /\ Heights(b.geometry) \subseteq Elevations

Rounded(geometry) ==
    [ i \in DOMAIN geometry |->
        [x |-> Round(geometry[i].x, Micro), y |-> Round(geometry[i].y, Micro)] ]

(* The columns and the cells of the insert.                                *)
NewRow(b) ==
    [ box     |-> BboxFromPoints(Geometry(b)),
      cells   |-> SegmentCells(Geometry(b)),
      encoded |-> EncodePolyline6(Rounded(Geometry(b))) ]

Publish ==
    /\ phase = "ready"
    /\ IF Accepts(body)
       THEN phase' = "stored" /\ row' = NewRow(body)
       ELSE phase' = "refused" /\ UNCHANGED row
    /\ UNCHANGED << draft, body, answer >>

(* listNearbySegmentsQuery, of a row that has not expired.                 *)
Found(box) == row.cells \cap BboxCells(box) # {} /\ Overlap(row.box, box)

(* A box that is refused is no request; what is found is decoded.          *)
Nearby(box) ==
    /\ phase = "stored"
    /\ WithinSydney(box)
    /\ answer' = [ box      |-> box,
                   segments |-> IF Found(box) THEN {DecodePolyline6(row.encoded)} ELSE {} ]
    /\ phase' = "listed"
    /\ UNCHANGED << draft, body, row >>

Init ==
    /\ \/ phase = "draft" /\ draft \in Drafts /\ body = None
       \/ phase = "ready" /\ draft = None /\ body \in ForeignBodies
    /\ row = None /\ answer = None

Next == Prepare \/ Publish \/ \E box \in Boxes : Nearby(box)

Spec == Init /\ [][Next]_vars

-----------------------------------------------------------------------------
(* How far along the route legs end.                                       *)
LengthsTo(legs) ==
    LET along[i \in 1..Len(legs)] == (IF i = 1 THEN 0 ELSE along[i - 1]) + Length(legs[i])
    IN  along

(* Legs that start where the one before ended: no leg is stale.            *)
Joined(legs) == \A i \in 2..Len(legs) : legs[i][1] = Last(legs[i - 1])

SamePlace(i) == Canonical(body.geometry[i]) = Canonical(body.geometry[i + 1])

(* A leg with points that rounding makes one.                              *)
Blurred(leg) == \E i \in 1..(Len(leg) - 1) : Canonical(leg[i]) = Canonical(leg[i + 1])

(* A trim cuts a segment in two.                                           *)
Cuts(metres) == metres * Metre \notin ToSet(Profile(Composed(draft.legs)))

(* A route that the studio prepares is one the API accepts, except for     *)
(* limits no client checks, for routings that rounding blurs, and for a    *)
(* trim that starts where it ends, or cuts a segment so close to its end   *)
(* that rounding makes them one.                                           *)
PreparedIsAccepted ==
    phase = "refused" /\ draft # None /\ Joined(draft.legs) =>
        \/ Len(body.geometry) > MaxPoints
        \/ Len(body.controls) > MaxControls
        \/ ~WithinSydney(BboxFromPoints(Geometry(body)))
        \/ ~(Heights(body.geometry) \subseteq Elevations)
        \/ \E leg \in ToSet(draft.legs) : Blurred(leg)
        \/ /\ draft.selection # NoSelection
           /\ \/ draft.selection.startM = draft.selection.endM
              \/ SamePlace(1) /\ Cuts(draft.selection.startM)
              \/ SamePlace(Len(body.geometry) - 1) /\ Cuts(draft.selection.endM)

(* The published control points are where the person put them: each lies   *)
(* at an end of the selection or where two legs meet, and where two legs   *)
(* meet within the selection there is one, though trims shift indexes and  *)
(* a route may pass a place twice.                                         *)
ControlsAreJoints ==
    phase = "ready" /\ draft # None /\ Joined(draft.legs) =>
        LET controls  == { body.geometry[i] : i \in ToSet(body.controls) }
            joints    == 1..(Len(draft.legs) - 1)
            At(i)     == Last(draft.legs[i])
            along     == LengthsTo(draft.legs)
            Within(i) == draft.selection # NoSelection =>
                            /\ along[i] > draft.selection.startM * Metre
                            /\ along[i] < draft.selection.endM * Metre
        IN  /\ \A i \in joints : Within(i) => At(i) \in controls
            /\ controls \subseteq { At(i) : i \in joints }
                                     \cup {body.geometry[1], Last(body.geometry)}

(* Two ranges, and the side of the line through a and b that p lies on.    *)
Apart(a, b, low, high) == (a < low /\ b < low) \/ (a > high /\ b > high)
Side(a, b, p) == (b.x - a.x) * (p.y - a.y) - (b.y - a.y) * (p.x - a.x)

Corners(box) == [x : {box.minX, box.maxX}, y : {box.minY, box.maxY}]

(* A segment meets a box unless an axis, or the segment's own line, parts  *)
(* them.                                                                   *)
Meets(a, b, box) ==
    /\ ~Apart(a.x, b.x, box.minX, box.maxX)
    /\ ~Apart(a.y, b.y, box.minY, box.maxY)
    /\ \E p, q \in Corners(box) : Side(a, b, p) <= 0 /\ Side(a, b, q) >= 0

(* docs/adr/0003-spatial-index.md: a route is found by every box it runs   *)
(* through, however it crosses the grid, and it is drawn where it was      *)
(* published, to the sixth decimal, at its last point as at its first.     *)
ListedWhereItRuns ==
    phase = "listed" =>
        LET geometry == Geometry(body)
        IN  (\E i \in 1..(Len(geometry) - 1) : Meets(geometry[i], geometry[i + 1], answer.box))
                => answer.segments = {Rounded(geometry)}

=============================================================================
