---------------------------- MODULE SpatialIndex ----------------------------
(***************************************************************************)
(* The integer part of packages/shared: the cells of a route and of a      *)
(* query box, bounding boxes, and the polyline codec.                      *)
(*                                                                         *)
(* A point is [x, y] in whole units; CellSize of them make a cell.  The    *)
(* projection is increasing eastwards and southwards, and that is all that *)
(* is kept of it: it is floating point.                                    *)
(***************************************************************************)
EXTENDS Integers, Sequences, SequencesExt, FiniteSetsExt

CONSTANTS
    CellSize,   \* units of a cell at zoom 14
    MaxTile,    \* 2^zoom - 1
    Chunk       \* values of a group of the polyline: 32

ASSUME SpatialIndexAssumption ==
    CellSize \in Nat \ {0} /\ MaxTile \in Nat /\ Chunk \in Nat \ {0, 1}

(* lonLatToTilePoint *)
TilePoint(p) == [x |-> p.x, y |-> (MaxTile + 1) * CellSize - p.y]

Cell(v) == v \div CellSize

ClampTileIndex(i) == Max({0, Min({MaxTile, i})})

(* clip, for the four sides of a closed tile: t0 is the largest of the     *)
(* lower bounds on t, t1 the least of the upper ones, and t0 <= t1.        *)
SegmentIntersectsClosedTile(start, end, tile) ==
    LET dx    == end.x - start.x
        dy    == end.y - start.y
        clips == { [p |-> -dx, q |-> start.x - tile.x * CellSize],
                   [p |-> dx,  q |-> (tile.x + 1) * CellSize - start.x],
                   [p |-> -dy, q |-> start.y - tile.y * CellSize],
                   [p |-> dy,  q |-> (tile.y + 1) * CellSize - start.y],
                   [p |-> -1,  q |-> 0],
                   [p |-> 1,   q |-> 1] }
    IN  /\ \A c \in clips : c.p = 0 => c.q >= 0
        /\ \A lower, upper \in clips :
              lower.p < 0 /\ upper.p > 0 => lower.q * upper.p >= upper.q * lower.p

(* The cell before is taken too where the box begins on the grid.          *)
CellRange(a, b) ==
    LET low == Min({a, b})
    IN  (Cell(low) - (IF low % CellSize = 0 THEN 1 ELSE 0)) .. Cell(Max({a, b}))

CellsBetween(start, end) ==
    { tile \in [ x : { ClampTileIndex(x) : x \in CellRange(start.x, end.x) },
                 y : { ClampTileIndex(y) : y \in CellRange(start.y, end.y) } ] :
        SegmentIntersectsClosedTile(start, end, tile) }

SlipCellsOfPoints(points) ==
    { [x |-> ClampTileIndex(Cell(TilePoint(points[i]).x)),
       y |-> ClampTileIndex(Cell(TilePoint(points[i]).y))] : i \in DOMAIN points }

SegmentCells(points) ==
    UNION { CellsBetween(TilePoint(points[i]), TilePoint(points[i + 1])) :
               i \in 1..Len(points) - 1 }

-----------------------------------------------------------------------------
(* A box is [minX, minY, maxX, maxY]; x is the longitude, y the latitude.  *)
Xs(points) == { points[i].x : i \in DOMAIN points }
Ys(points) == { points[i].y : i \in DOMAIN points }

BboxFromPoints(points) ==
    [ minX |-> Min(Xs(points)), minY |-> Min(Ys(points)),
      maxX |-> Max(Xs(points)), maxY |-> Max(Ys(points)) ]

BboxCells(box) ==
    LET northWest == TilePoint([x |-> box.minX, y |-> box.maxY])
        southEast == TilePoint([x |-> box.maxX, y |-> box.minY])
    IN  [ x : ClampTileIndex(Cell(northWest.x)) .. ClampTileIndex(Cell(southEast.x)),
          y : ClampTileIndex(Cell(northWest.y)) .. ClampTileIndex(Cell(southEast.y)) ]

(* max_lat >= ? AND min_lat <= ? AND max_lng >= ? AND min_lng <= ?         *)
Overlap(a, b) ==
    /\ a.maxY >= b.minY /\ a.minY <= b.maxY
    /\ a.maxX >= b.minX /\ a.minX <= b.maxX

-----------------------------------------------------------------------------
(* A byte of the polyline is its value without the offset of 63; one that  *)
(* is Chunk or more is followed by another of the same coordinate.         *)
ZigZag(v) == IF v < 0 THEN -2 * v - 1 ELSE 2 * v
UnZigZag(n) == IF n % 2 = 1 THEN -(n \div 2) - 1 ELSE n \div 2

EncodeCoordinate(v) ==
    LET groups[n \in 0..ZigZag(v)] ==
            IF n < Chunk THEN << n >> ELSE << Chunk + (n % Chunk) >> \o groups[n \div Chunk]
    IN  groups[ZigZag(v)]

Origin == [x |-> 0, y |-> 0]

(* Differences of rounded coordinates, the latitude first.                 *)
EncodePolyline6(points) ==
    LET Before(i) == IF i = 1 THEN Origin ELSE points[i - 1]
        encoded[i \in 0..Len(points)] ==
            IF i = 0 THEN << >>
            ELSE (encoded[i - 1] \o EncodeCoordinate(points[i].y - Before(i).y))
                     \o EncodeCoordinate(points[i].x - Before(i).x)
    IN  encoded[Len(points)]

(* A byte ends a coordinate, or is the next group of it.  What the decoder *)
(* refuses, a truncated value or one of more than 30 bits, no difference   *)
(* of two coordinates is encoded as.                                       *)
TakeByte(read, byte) ==
    LET value == read.value + (byte % Chunk) * read.scale
    IN  IF byte < Chunk
        THEN [steps |-> Append(read.steps, UnZigZag(value)), value |-> 0, scale |-> 1]
        ELSE [steps |-> read.steps, value |-> value, scale |-> read.scale * Chunk]

Reading(bytes) ==
    LET read[i \in 0..Len(bytes)] ==
            IF i = 0 THEN [steps |-> << >>, value |-> 0, scale |-> 1]
            ELSE TakeByte(read[i - 1], bytes[i])
    IN  read[Len(bytes)]

DecodePolyline6(bytes) ==
    LET steps == Reading(bytes).steps
        count == Len(steps) \div 2
        point[i \in 0..count] ==
            IF i = 0 THEN Origin
            ELSE [x |-> point[i - 1].x + steps[2 * i], y |-> point[i - 1].y + steps[2 * i - 1]]
    IN  [ i \in 1..count |-> point[i] ]

=============================================================================
