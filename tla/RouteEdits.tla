----------------------------- MODULE RouteEdits -----------------------------
(***************************************************************************)
(* The pure part of packages/route-studio/index.js: what each edit does to *)
(* the working copy of a RouteDraft.  commit() and mutate() wrap these     *)
(* producers with the status check and the history; RouteDraft models that.*)
(*                                                                         *)
(* A route is a sequence of control points; leg i joins point i to point   *)
(* i+1, and the last leg of a closed loop joins the last point to the      *)
(* first.  Indexes are 1-based here and 0-based in the code.               *)
(*                                                                         *)
(* Data kept: where a point lies (a member of Points) and, of the geometry *)
(* of a leg, the pair of places it was routed between.  That is what tells *)
(* the geometry of this leg from the geometry of another one.  Every leg   *)
(* is LegMetres long.                                                      *)
(***************************************************************************)
EXTENDS Integers, Sequences, SequencesExt

CONSTANTS
    Points,       \* places a control point can be put at
    Names,        \* valid, normalized segment names
    NoName,       \* the empty name of a new draft
    NoLeg,        \* legResults[i] is undefined (null in a saved draft)
    Hole,         \* legResults[i] was never assigned: a hole of the array
    NoSelection,  \* selection is null
    LegMetres     \* length of a routed leg

ASSUME LegMetresAssumption == LegMetres \in Nat \ {0}
ASSUME SentinelsAssumption ==
    /\ NoName \notin Names
    /\ NoLeg # Hole
    /\ {NoLeg, Hole} \cap (Points \X Points) = {}
    /\ NoSelection \notin [startM : Int, endM : Int]

ControlPoint == [id : Nat \ {0}, at : Points]
Leg          == Points \X Points
LegSlot      == Leg \cup {NoLeg, Hole}
Selection    == [startM : Int, endM : Int]
Statuses     == {"draft", "ready", "publishing", "published"}

(* A draft without its history: what snapshotState() keeps.               *)
Snapshot ==
    [ status        : Statuses,
      revision      : Nat,
      name          : Names \cup {NoName},
      controlPoints : Seq(ControlPoint),
      closedLoop    : BOOLEAN,
      legResults    : Seq(LegSlot),
      invalidated   : SUBSET (Nat \ {0}),
      selection     : Selection \cup {NoSelection},
      nextNumber    : Nat \ {0} ]

NewDraft ==
    [ status |-> "draft", revision |-> 0, name |-> NoName,
      controlPoints |-> <<>>, closedLoop |-> FALSE, legResults |-> <<>>,
      invalidated |-> {}, selection |-> NoSelection, nextNumber |-> 1 ]

-----------------------------------------------------------------------------
(* Legs, the composed route and the selection.                             *)

LegCountOf(n, closed) ==
    IF n < 2 THEN 0 ELSE IF closed THEN n ELSE n - 1

LegCount(d) == LegCountOf(Len(d.controlPoints), d.closedLoop)

ClosingLeg(n, closed) == IF closed /\ n >= 2 THEN {n} ELSE {}

(* The places leg i has to join, given the control points of d.           *)
LegEnds(d, i) ==
    << d.controlPoints[i].at,
       d.controlPoints[IF i = Len(d.controlPoints) THEN 1 ELSE i + 1].at >>

MissingLegs(d) ==
    { i \in 1..LegCount(d) :
        i > Len(d.legResults) \/ d.legResults[i] \in {NoLeg, Hole} }

(* getComposedGeometry: empty until every required leg is present.        *)
HasRoute(d)    == LegCount(d) > 0 /\ MissingLegs(d) = {}
TotalMetres(d) == IF HasRoute(d) THEN LegCount(d) * LegMetres ELSE 0

Clamp(v, lo, hi) == IF v < lo THEN lo ELSE IF v > hi THEN hi ELSE v

ClampSelection(d) ==
    IF d.selection = NoSelection \/ TotalMetres(d) = 0
    THEN [d EXCEPT !.selection = NoSelection]
    ELSE LET start == Clamp(d.selection.startM, 0, TotalMetres(d))
             end   == Clamp(d.selection.endM, 0, TotalMetres(d))
         IN  [d EXCEPT !.selection =
                 [startM |-> start, endM |-> IF end < start THEN start ELSE end]]

-----------------------------------------------------------------------------
(* Which legs an edit invalidates.  k is the position of the edited point, *)
(* n the number of control points.                                         *)
(* An operator named Slip... is a plausible slip in the definition after   *)
(* it: the model with the slip in its place breaks a property.             *)

SlipInsertForgetsClosingLeg(k, n, closed) == { i \in {k - 1} : k > 1 }

ImpactedByInsert(k, n, closed) ==
    IF n < 2 THEN {}
    ELSE { i \in {k - 1} : k > 1 } \cup { i \in {n} : closed /\ n > 2 /\ k = n }

ImpactedByMove(k, n, closed) ==
    { i \in {k - 1} : k > 1 } \cup { i \in {k} : k < n }
        \cup { i \in {n} : closed /\ n > 2 /\ k \in {1, n} }

(* n is the count after the removal, k the position the point had.        *)
ImpactedByRemoval(k, n, closed) ==
    IF n = 0 THEN {}
    ELSE { i \in {k - 1} : k > 1 } \cup { i \in {k} : k <= n }
             \cup { i \in {n} : closed /\ n > 1 /\ (k = 1 \/ k > n) }

SlipReorderOffByOne(from, target, n, closed) ==
    LET lower == IF from < target THEN from ELSE target
        upper == IF from < target THEN target ELSE from
    IN  { i \in 1..(n - 1) : lower - 1 <= i /\ i < upper }
            \cup { i \in {n} : closed /\ n > 2 /\ ({from, target} \cap {1, n}) # {} }

ImpactedByReorder(from, target, n, closed) ==
    LET lower == IF from < target THEN from ELSE target
        upper == IF from < target THEN target ELSE from
    IN  { i \in 1..(n - 1) : lower - 1 <= i /\ i <= upper }
            \cup { i \in {n} : closed /\ n > 2 /\ ({from, target} \cap {1, n}) # {} }

(* The array is cut or extended to the leg count; the list of invalidated  *)
(* legs is replaced, and may keep a number beyond the last leg.            *)
InvalidateLegs(d, legs) ==
    [d EXCEPT
        !.legResults = [ i \in 1..LegCount(d) |->
            IF i \in legs THEN NoLeg
            ELSE IF i <= Len(d.legResults) THEN d.legResults[i]
            ELSE Hole ],
        !.invalidated = legs]

-----------------------------------------------------------------------------
(* The producers: the working copy after each edit.                        *)

SetName(d, name) == [d EXCEPT !.name = name]

SlipIdFromLength(d, p) ==
    LET n    == Len(d.controlPoints) + 1
        next == [d EXCEPT
                    !.controlPoints = Append(@, [id |-> n, at |-> p]),
                    !.nextNumber = n + 1]
    IN  InvalidateLegs(next, ImpactedByInsert(n, n, d.closedLoop))

AddPoint(d, p) ==
    LET n    == Len(d.controlPoints) + 1
        next == [d EXCEPT
                    !.controlPoints = Append(@, [id |-> d.nextNumber, at |-> p]),
                    !.nextNumber = @ + 1]
    IN  InvalidateLegs(next, ImpactedByInsert(n, n, d.closedLoop))

MovePoint(d, k, p) ==
    LET next == [d EXCEPT !.controlPoints =
                    ReplaceAt(d.controlPoints, k, [id |-> d.controlPoints[k].id, at |-> p])]
    IN  ClampSelection(InvalidateLegs(next,
            ImpactedByMove(k, Len(d.controlPoints), d.closedLoop)))

RemovePoint(d, k) ==
    LET n    == Len(d.controlPoints) - 1
        next == [d EXCEPT !.controlPoints = RemoveAt(d.controlPoints, k),
                          !.closedLoop = d.closedLoop /\ n >= 2]
    IN  ClampSelection(InvalidateLegs(next,
            ImpactedByRemoval(k, n, next.closedLoop)))

ReorderPoint(d, from, target) ==
    LET next == [d EXCEPT !.controlPoints =
                    InsertAt(RemoveAt(d.controlPoints, from), target,
                             d.controlPoints[from])]
    IN  IF from = target
        THEN [d EXCEPT !.invalidated = {}]
        ELSE ClampSelection(InvalidateLegs(next,
                ImpactedByReorder(from, target, Len(d.controlPoints), d.closedLoop)))

SlipLoopKeepsSelection(d, closed) ==
    LET n       == Len(d.controlPoints)
        enabled == closed /\ n > 1
    IN  IF d.closedLoop = enabled
        THEN [d EXCEPT !.invalidated = {}]
        ELSE InvalidateLegs([d EXCEPT !.closedLoop = enabled],
                ClosingLeg(n, d.closedLoop) \cup ClosingLeg(n, enabled))

SetLoop(d, closed) ==
    LET n       == Len(d.controlPoints)
        enabled == closed /\ n > 1
        next    == [d EXCEPT !.closedLoop = enabled]
    IN  IF d.closedLoop = enabled
        THEN [d EXCEPT !.invalidated = {}]
        ELSE ClampSelection(InvalidateLegs(next,
                ClosingLeg(n, d.closedLoop) \cup ClosingLeg(n, enabled)))

SetLeg(d, i, leg) ==
    ClampSelection([d EXCEPT !.legResults[i] = leg, !.invalidated = @ \ {i}])

Trim(d, startM, endM) ==
    [d EXCEPT !.selection = [startM |-> startM, endM |-> endM]]

ResetTrim(d) == [d EXCEPT !.selection = NoSelection]

-----------------------------------------------------------------------------
(* What a version of the route has to be; RouteDraft states each of these  *)
(* of the draft and of its whole history.                                  *)

(* Every id was handed out, and names one point.                           *)
DistinctIds(d) ==
    /\ \A i \in 1..Len(d.controlPoints) : d.controlPoints[i].id < d.nextNumber
    /\ \A i, j \in 1..Len(d.controlPoints) :
          d.controlPoints[i].id = d.controlPoints[j].id => i = j

(* One slot per leg and no hole.                                           *)
LegArrayFits(d) ==
    /\ Len(d.legResults) = LegCount(d)
    /\ \A i \in 1..Len(d.legResults) : d.legResults[i] # Hole

(* A whole route's trim lies within it.                                    *)
SelectionFits(d) ==
    HasRoute(d) /\ d.selection # NoSelection =>
        /\ 0 <= d.selection.startM
        /\ d.selection.startM <= d.selection.endM
        /\ d.selection.endM <= TotalMetres(d)

(* Every routed leg joins the control points it stands between.            *)
LegsMatch(d) ==
    \A i \in 1..LegCount(d) :
        d.legResults[i] \in Leg => d.legResults[i] = LegEnds(d, i)

=============================================================================
