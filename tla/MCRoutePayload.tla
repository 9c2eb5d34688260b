--------------------------- MODULE MCRoutePayload ---------------------------
(* RoutePayload for TLC: routes with a corner in every leg that turns, all *)
(* their trims, and segments of other clients in every direction.          *)
EXTENDS RoutePayload

CONSTANTS Places, Ticks, Lines

At(x, y) == [x |-> x, y |-> y, ele |-> (x + 2 * y) \div 3]

LegBetween(p, q) ==
    IF p.x = q.x \/ p.y = q.y THEN << p, q >> ELSE << p, At(q.x, p.y), q >>

Controls ==
    { c \in UNION { [1..n -> Places] : n \in 2..4 } :
        \A i \in 1..(Len(c) - 1) : c[i] # c[i + 1] }

LegsThrough(c) == [ i \in 1..(Len(c) - 1) |-> LegBetween(c[i], c[i + 1]) ]

Trims(legs) ==
    LET total == DistanceM(Composed(legs))
    IN  {NoSelection} \cup
            { s \in [startM : 0..total, endM : 0..total] : s.startM <= s.endM }

DraftOf(legs, selection, named, invalidated) ==
    [legs |-> legs, selection |-> selection, named |-> named, invalidated |-> invalidated]

(* A leg whose first point is higher than the last one of the leg before.  *)
Step == << At(0, 0), At(4, 0) >>
Gap  == << [At(4, 0) EXCEPT !.ele = @ + 1], At(4, 6) >>

(* A leg up to a height the API does not take, and one from below it.      *)
Peak == << At(0, 0), [At(4, 0) EXCEPT !.ele = 9] >>
Pit  == << [At(1, 1) EXCEPT !.ele = -1], At(4, 1) >>

MCDrafts ==
    UNION { { DraftOf(LegsThrough(c), s, TRUE, {}) : s \in Trims(LegsThrough(c)) } : c \in Controls }
    \cup { DraftOf(<< Step, Gap >>, NoSelection, TRUE, {}),
           DraftOf(<< << At(0, 0), At(8, 0) >> >>, NoSelection, TRUE, {}),
           DraftOf(<< << At(0, 0), At(1, 0), At(2, 0), At(4, 0) >> >>, NoSelection, TRUE, {}),
           DraftOf(<< Peak >>, NoSelection, TRUE, {}),
           DraftOf(<< Step >>, NoSelection, FALSE, {}),
           DraftOf(<< Step >>, NoSelection, TRUE, {2}),
           DraftOf(<<>>, NoSelection, TRUE, {1}) }

MCPlaces == { At(0, 0), At(4, 2), At(4, 6) }

MCLines ==
    { << p, q >> : p \in { At(x, y) : x, y \in Ticks }, q \in { At(x, y) : x, y \in Ticks } }

MCForeignBodies ==
    [api : {"v1", "v2"}, geometry : Lines, controls : {<< 1, 2 >>}]
    \cup { [api |-> "v2", geometry |-> << At(1, 1), At(4, 4) >>, controls |-> << 2, 1 >>],
           [api |-> "v2", geometry |-> Pit, controls |-> << 1, 2 >>],
           [api |-> "v1", geometry |-> << At(1, 3), At(3, 5), At(5, 3), At(3, 1), At(4, 8) >>,
            controls |-> <<>>] }

MCBoxes ==
    { b \in [minX : Ticks, minY : Ticks, maxX : Ticks, maxY : Ticks] :
        b.minX <= b.maxX /\ b.minY <= b.maxY }

MCSydney == [minX |-> 0, minY |-> 0, maxX |-> 8, maxY |-> 8]

=============================================================================
