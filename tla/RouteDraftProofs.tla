-------------------------- MODULE RouteDraftProofs --------------------------
(***************************************************************************)
(* The safety of RouteDraft, for every set of places and names, every      *)
(* history limit and every bound: the types, and the invariants the runs   *)
(* check.  The inductive invariant says that the draft and all its         *)
(* history are well-formed versions, that the history holds editable ones, *)
(* and how the two stacks share their bound and their revisions.  From it  *)
(* follow the refinement of EditHistory, and that edits invalidate the     *)
(* legs they make stale.                                                   *)
(***************************************************************************)
EXTENDS RouteDraft, SequenceTheorems, TLAPS

-----------------------------------------------------------------------------
(* The edits: each one takes a well-formed version of the route to a       *)
(* well-formed version, and all but the removal of a point leave no leg    *)
(* behind that joins other places than its points.                         *)

(***************************************************************************)
(* Removing from and inserting into a sequence.                            *)
(***************************************************************************)

(* The elements of s after splice(k, 1).                                   *)
LEMMA RemoveAtElements ==
  ASSUME NEW S, NEW s \in Seq(S), NEW k \in 1..Len(s)
  PROVE  /\ RemoveAt(s, k) \in Seq(S)
         /\ Len(RemoveAt(s, k)) = Len(s) - 1
         /\ \A i \in 1..(Len(s) - 1) :
               RemoveAt(s, k)[i] = IF i < k THEN s[i] ELSE s[i + 1]
<1> DEFINE front == SubSeq(s, 1, k - 1)
           back  == SubSeq(s, k + 1, Len(s))
<1>1. /\ front \in Seq(S) /\ Len(front) = k - 1
      /\ \A i \in 1..(k - 1) : front[i] = s[i]
  BY SubSeqProperties
<1>2. /\ back \in Seq(S) /\ Len(back) = Len(s) - k
      /\ \A i \in 1..(Len(s) - k) : back[i] = s[k + i]
  BY SubSeqProperties
<1> HIDE DEF front, back
<1>3. /\ front \o back \in Seq(S)
      /\ Len(front \o back) = Len(front) + Len(back)
      /\ \A i \in 1..(Len(front) + Len(back)) :
            (front \o back)[i] =
               IF i <= Len(front) THEN front[i] ELSE back[i - Len(front)]
  BY <1>1, <1>2, ConcatProperties, Zenon
<1>4. /\ Len(front \o back) = Len(s) - 1
      /\ \A i \in 1..(Len(s) - 1) :
            (front \o back)[i] = IF i < k THEN s[i] ELSE s[i + 1]
  BY <1>1, <1>2, <1>3
<1>5. RemoveAt(s, k) = front \o back
  BY DEF RemoveAt, front, back
<1> QED
  BY <1>3, <1>4, <1>5

(* The elements of s after splice(k, 0, e).                                *)
LEMMA InsertAtElements ==
  ASSUME NEW S, NEW s \in Seq(S), NEW e \in S, NEW k \in 1..(Len(s) + 1)
  PROVE  /\ InsertAt(s, k, e) \in Seq(S)
         /\ Len(InsertAt(s, k, e)) = Len(s) + 1
         /\ \A i \in 1..(Len(s) + 1) :
               InsertAt(s, k, e)[i] =
                  IF i < k THEN s[i] ELSE IF i = k THEN e ELSE s[i - 1]
<1> DEFINE front == SubSeq(s, 1, k - 1) \o << e >>
           back  == SubSeq(s, k, Len(s))
<1>1. /\ SubSeq(s, 1, k - 1) \in Seq(S) /\ Len(SubSeq(s, 1, k - 1)) = k - 1
      /\ \A i \in 1..(k - 1) : SubSeq(s, 1, k - 1)[i] = s[i]
  BY SubSeqProperties
<1>2. /\ back \in Seq(S) /\ Len(back) = Len(s) - k + 1
      /\ \A i \in 1..(Len(s) - k + 1) : back[i] = s[k + i - 1]
  BY SubSeqProperties
<1>3. /\ front \in Seq(S) /\ Len(front) = k
      /\ \A i \in 1..k : front[i] = IF i < k THEN s[i] ELSE e
  BY <1>1, ConcatProperties
<1> HIDE DEF front, back
<1>4. /\ front \o back \in Seq(S)
      /\ Len(front \o back) = Len(front) + Len(back)
      /\ \A i \in 1..(Len(front) + Len(back)) :
            (front \o back)[i] =
               IF i <= Len(front) THEN front[i] ELSE back[i - Len(front)]
  BY <1>2, <1>3, ConcatProperties, Zenon
<1>5. /\ Len(front \o back) = Len(s) + 1
      /\ \A i \in 1..(Len(s) + 1) :
            (front \o back)[i] =
               IF i < k THEN s[i] ELSE IF i = k THEN e ELSE s[i - 1]
  BY <1>2, <1>3, <1>4
<1>6. InsertAt(s, k, e) = front \o back
  BY DEF InsertAt, front, back
<1> QED
  BY <1>4, <1>5, <1>6

(* The place an element had before it was moved from one place to another. *)
PlaceBefore(i, from, target) ==
    LET j == IF i < target THEN i ELSE i - 1
    IN  IF i = target THEN from ELSE IF j < from THEN j ELSE j + 1

LEMMA PlaceBeforeIsInjective ==
  ASSUME NEW n \in Nat, NEW from \in 1..n, NEW target \in 1..n
  PROVE  /\ \A i \in 1..n : PlaceBefore(i, from, target) \in 1..n
         /\ \A i, j \in 1..n :
               PlaceBefore(i, from, target) = PlaceBefore(j, from, target) => i = j
BY DEF PlaceBefore

(* Moving an element permutes the sequence.                                *)
Moved(s, from, target) == InsertAt(RemoveAt(s, from), target, s[from])

LEMMA MoveElements ==
  ASSUME NEW S, NEW s \in Seq(S), NEW from \in 1..Len(s), NEW target \in 1..Len(s)
  PROVE  /\ Moved(s, from, target) \in Seq(S)
         /\ Len(Moved(s, from, target)) = Len(s)
         /\ \A i \in 1..Len(s) :
               Moved(s, from, target)[i] = s[PlaceBefore(i, from, target)]
<1> DEFINE rest == RemoveAt(s, from)
           here == s[from]
<1>1. rest \in Seq(S) /\ Len(rest) = Len(s) - 1
  BY RemoveAtElements
<1>2. \A i \in 1..(Len(s) - 1) : rest[i] = IF i < from THEN s[i] ELSE s[i + 1]
  BY RemoveAtElements
<1>3. here \in S /\ target \in 1..(Len(rest) + 1)
  BY <1>1
<1> HIDE DEF rest
<1> SUFFICES /\ InsertAt(rest, target, here) \in Seq(S)
             /\ Len(InsertAt(rest, target, here)) = Len(s)
             /\ \A i \in 1..Len(s) :
                   InsertAt(rest, target, here)[i] = s[PlaceBefore(i, from, target)]
  BY DEF rest, Moved
<1> HIDE DEF here
<1>4. /\ InsertAt(rest, target, here) \in Seq(S)
      /\ Len(InsertAt(rest, target, here)) = Len(rest) + 1
      /\ \A i \in 1..(Len(rest) + 1) :
            InsertAt(rest, target, here)[i] =
               IF i < target THEN rest[i] ELSE IF i = target THEN here ELSE rest[i - 1]
  BY <1>1, <1>3, InsertAtElements
<1> DEFINE t == InsertAt(rest, target, here)
<1>5. ASSUME NEW i \in 1..Len(s)
      PROVE  t[i] = s[PlaceBefore(i, from, target)]
  <2>1. t[i] = IF i < target THEN rest[i] ELSE IF i = target THEN here ELSE rest[i - 1]
    BY <1>1, <1>4
  <2> HIDE DEF t
  <2>2. CASE i < target
    BY <1>2, <2>1, <2>2 DEF PlaceBefore
  <2>3. CASE i = target
    BY <2>1, <2>3 DEF PlaceBefore, here
  <2>4. CASE i > target
    <3>1. i - 1 \in 1..(Len(s) - 1) /\ t[i] = rest[i - 1]
      BY <2>1, <2>4
    <3>2. rest[i - 1] = IF i - 1 < from THEN s[i - 1] ELSE s[i]
      BY <1>2, <3>1
    <3> QED
      BY <2>4, <3>1, <3>2 DEF PlaceBefore
  <2> QED
    BY <2>2, <2>3, <2>4
<1> QED
  BY <1>1, <1>4, <1>5

(***************************************************************************)
(* A well-formed version, and the helpers that every edit ends with.  That *)
(* a loop has two points is what makes the array of legs grow without a    *)
(* hole: a loop of one would gain two legs with the next point, and        *)
(* addControlPoint would invalidate only one.                              *)
(***************************************************************************)
LoopHasTwoPoints(d) == d.closedLoop => Len(d.controlPoints) >= 2

WellFormed(d) ==
    /\ d \in Snapshot
    /\ LoopHasTwoPoints(d)
    /\ DistinctIds(d)
    /\ LegArrayFits(d)
    /\ SelectionFits(d)

(* The fields of a version that the edits read.                            *)
LEMMA SnapshotFields ==
  ASSUME NEW d \in Snapshot
  PROVE  /\ d.controlPoints \in Seq(ControlPoint)
         /\ Len(d.controlPoints) \in Nat
         /\ \A i \in 1..Len(d.controlPoints) :
               /\ d.controlPoints[i] \in ControlPoint
               /\ d.controlPoints[i].id \in Nat \ {0}
         /\ d.closedLoop \in BOOLEAN
         /\ d.legResults \in Seq(LegSlot)
         /\ Len(d.legResults) \in Nat
         /\ d.nextNumber \in Nat \ {0}
<1>1. /\ d.controlPoints \in Seq(ControlPoint)
      /\ d.legResults \in Seq(LegSlot)
      /\ d.closedLoop \in BOOLEAN
      /\ d.nextNumber \in Nat \ {0}
  BY DEF Snapshot
<1>2. \A i \in 1..Len(d.controlPoints) : d.controlPoints[i] \in ControlPoint
  BY <1>1
<1>3. \A c \in ControlPoint : c.id \in Nat \ {0}
  BY DEF ControlPoint
<1> QED
  BY <1>1, <1>2, <1>3

LEMMA MakeControlPoint ==
  ASSUME NEW i \in Nat \ {0}, NEW p \in Points
  PROVE  /\ [id |-> i, at |-> p] \in ControlPoint
         /\ [id |-> i, at |-> p].id = i
BY DEF ControlPoint

LEMMA LegCountIsNat ==
  ASSUME NEW d \in Snapshot
  PROVE  LegCount(d) \in Nat
BY DEF LegCount, LegCountOf, Snapshot

LEMMA TotalIsNat ==
  ASSUME NEW d \in Snapshot
  PROVE  TotalMetres(d) \in Nat
<1>1. LegCount(d) \in Nat /\ LegMetres \in Nat
  BY LegCountIsNat, LegMetresAssumption
<1>2. \A m, n \in Nat : m * n \in Nat
  OBVIOUS
<1> QED
  BY <1>1, <1>2 DEF TotalMetres

(* Two versions that differ in the selection only have the same legs.      *)
LEMMA SelectionLeavesLegs ==
  ASSUME NEW d \in Snapshot, NEW sel \in Selection \cup {NoSelection}
  PROVE  LET e == [d EXCEPT !.selection = sel]
         IN  /\ e \in Snapshot
             /\ e.selection = sel
             /\ LoopHasTwoPoints(d) => LoopHasTwoPoints(e)
             /\ DistinctIds(d) => DistinctIds(e)
             /\ LegArrayFits(d) => LegArrayFits(e)
             /\ TotalMetres(e) = TotalMetres(d)
             /\ HasRoute(e) <=> HasRoute(d)
<1> DEFINE e == [d EXCEPT !.selection = sel]
<1>1. /\ e \in Snapshot
      /\ e.selection = sel
      /\ e.controlPoints = d.controlPoints /\ e.closedLoop = d.closedLoop
      /\ e.legResults = d.legResults /\ e.nextNumber = d.nextNumber
  BY DEF Snapshot
<1> HIDE DEF e
<1>2. LegCount(e) = LegCount(d) /\ MissingLegs(e) = MissingLegs(d)
  BY <1>1 DEF LegCount, MissingLegs
<1> QED
  BY <1>1, <1>2 DEF DistinctIds, LegArrayFits, TotalMetres, HasRoute,
                    LoopHasTwoPoints, e

(* clampSelectionToGeometry leaves a selection that fits.                  *)
LEMMA ClampFits ==
  ASSUME NEW d \in Snapshot, LoopHasTwoPoints(d), DistinctIds(d),
         LegArrayFits(d)
  PROVE  WellFormed(ClampSelection(d))
<1>1. TotalMetres(d) \in Nat
  BY TotalIsNat
<1>2. CASE d.selection = NoSelection \/ TotalMetres(d) = 0
  <2>1. ClampSelection(d) = [d EXCEPT !.selection = NoSelection]
    BY <1>2 DEF ClampSelection
  <2> QED
    BY <2>1, SelectionLeavesLegs DEF WellFormed, SelectionFits
<1>3. CASE ~(d.selection = NoSelection \/ TotalMetres(d) = 0)
  <2> DEFINE start == Clamp(d.selection.startM, 0, TotalMetres(d))
             end   == Clamp(d.selection.endM, 0, TotalMetres(d))
             sel   == [startM |-> start, endM |-> IF end < start THEN start ELSE end]
  <2>1. d.selection \in Selection
    BY <1>3 DEF Snapshot
  <2>2. /\ start \in 0..TotalMetres(d)
        /\ end \in 0..TotalMetres(d)
    BY <1>1, <2>1 DEF Clamp, Selection
  <2>3. /\ sel \in Selection
        /\ 0 <= sel.startM /\ sel.startM <= sel.endM
        /\ sel.endM <= TotalMetres(d)
    BY <1>1, <2>2 DEF Selection
  <2>4. ClampSelection(d) = [d EXCEPT !.selection = sel]
    BY <1>3 DEF ClampSelection
  <2> HIDE DEF sel
  <2> QED
    BY <2>3, <2>4, SelectionLeavesLegs DEF WellFormed, SelectionFits
<1> QED
  BY <1>2, <1>3

(* invalidateLegs leaves no hole when every slot it adds is invalidated.   *)
LEMMA InvalidateFits ==
  ASSUME NEW d \in Snapshot, NEW legs \in SUBSET (Nat \ {0}),
         \A i \in 1..Len(d.legResults) : d.legResults[i] # Hole,
         \A i \in 1..LegCount(d) : i \in legs \/ i <= Len(d.legResults)
  PROVE  LET e == InvalidateLegs(d, legs)
         IN  /\ e \in Snapshot
             /\ LegArrayFits(e)
             /\ LoopHasTwoPoints(d) => LoopHasTwoPoints(e)
             /\ DistinctIds(d) => DistinctIds(e)
             /\ LegCount(e) = LegCount(d)
             /\ e.selection = d.selection
             /\ \A i \in 1..LegCount(d) : i \in legs => e.legResults[i] = NoLeg
<1> DEFINE e     == InvalidateLegs(d, legs)
           slots == [ i \in 1..LegCount(d) |->
                        IF i \in legs THEN NoLeg
                        ELSE IF i <= Len(d.legResults) THEN d.legResults[i]
                        ELSE Hole ]
<1>1. LegCount(d) \in Nat
  BY LegCountIsNat
<1>2. /\ slots \in Seq(LegSlot) /\ Len(slots) = LegCount(d)
      /\ \A i \in 1..LegCount(d) : slots[i] # Hole
  <2>1. d.legResults \in Seq(LegSlot)
    BY DEF Snapshot
  <2>2. \A i \in 1..LegCount(d) : slots[i] \in LegSlot /\ slots[i] # Hole
    BY <1>1, <2>1, SentinelsAssumption DEF LegSlot
  <2>3. slots \in [1..LegCount(d) -> LegSlot]
    BY <2>2
  <2> QED
    BY <1>1, <2>2, <2>3
<1>3. e = [d EXCEPT !.legResults = slots, !.invalidated = legs]
  BY DEF InvalidateLegs
<1>4. \A i \in 1..LegCount(d) : i \in legs => slots[i] = NoLeg
  OBVIOUS
<1> HIDE DEF slots, e
<1>5. /\ e \in Snapshot
      /\ e.legResults = slots
      /\ e.controlPoints = d.controlPoints /\ e.closedLoop = d.closedLoop
      /\ e.selection = d.selection /\ e.nextNumber = d.nextNumber
  BY <1>2, <1>3 DEF Snapshot
<1>6. LegCount(e) = LegCount(d)
  BY <1>5 DEF LegCount
<1> QED
  BY <1>1, <1>2, <1>4, <1>5, <1>6 DEF LegArrayFits, DistinctIds,
                                         LoopHasTwoPoints, e

(***************************************************************************)
(* The impacted legs are legs: numbers from 1 on.                          *)
(***************************************************************************)
LEMMA ImpactedAreNumbers ==
  ASSUME NEW k \in Nat \ {0}, NEW t \in Nat \ {0}, NEW n \in Nat, NEW closed \in BOOLEAN
  PROVE  /\ ImpactedByInsert(k, n, closed) \in SUBSET (Nat \ {0})
         /\ ImpactedByMove(k, n, closed) \in SUBSET (Nat \ {0})
         /\ ImpactedByRemoval(k, n, closed) \in SUBSET (Nat \ {0})
         /\ ImpactedByReorder(k, t, n, closed) \in SUBSET (Nat \ {0})
         /\ ClosingLeg(n, closed) \in SUBSET (Nat \ {0})
BY DEF ImpactedByInsert, ImpactedByMove, ImpactedByRemoval, ImpactedByReorder,
       ClosingLeg

(***************************************************************************)
(* One lemma per edit: a well-formed version stays well-formed, and its    *)
(* status stays what it was.                                               *)
(***************************************************************************)

LEMMA SetNameFits ==
  ASSUME NEW d, WellFormed(d), NEW name \in Names
  PROVE  WellFormed(SetName(d, name)) /\ SetName(d, name).status = d.status
<1> DEFINE e == SetName(d, name)
<1>1. /\ e \in Snapshot /\ e.status = d.status /\ e.selection = d.selection
      /\ e.controlPoints = d.controlPoints /\ e.closedLoop = d.closedLoop
      /\ e.legResults = d.legResults /\ e.nextNumber = d.nextNumber
  BY DEF WellFormed, Snapshot, SetName
<1> HIDE DEF e
<1>2. LegCount(e) = LegCount(d) /\ MissingLegs(e) = MissingLegs(d)
  BY <1>1 DEF LegCount, MissingLegs
<1> QED
  BY <1>1, <1>2 DEF WellFormed, DistinctIds, LegArrayFits, SelectionFits,
                    HasRoute, TotalMetres, LoopHasTwoPoints, e

(* Adding a point: the new legs are all invalidated, so that the route is  *)
(* not whole and its selection, which is not clamped, waits for them.      *)
LEMMA AddPointFits ==
  ASSUME NEW d, WellFormed(d), NEW p \in Points
  PROVE  WellFormed(AddPoint(d, p)) /\ AddPoint(d, p).status = d.status
<1> DEFINE n    == Len(d.controlPoints) + 1
           cp   == [id |-> d.nextNumber, at |-> p]
           cps  == Append(d.controlPoints, cp)
           next == [d EXCEPT !.controlPoints = cps, !.nextNumber = @ + 1]
           legs == ImpactedByInsert(n, n, d.closedLoop)
<1>1. d \in Snapshot /\ DistinctIds(d) /\ LegArrayFits(d)
  BY DEF WellFormed
<1>2. /\ n \in Nat \ {0} /\ d.closedLoop \in BOOLEAN
      /\ d.controlPoints \in Seq(ControlPoint) /\ d.nextNumber \in Nat \ {0}
  BY <1>1, SnapshotFields
<1>a. cp \in ControlPoint /\ cp.id = d.nextNumber
  BY <1>2, MakeControlPoint
<1>12. AddPoint(d, p) = InvalidateLegs(next, legs)
  BY DEF AddPoint
<1> HIDE DEF cp
<1>b. /\ cps \in Seq(ControlPoint) /\ Len(cps) = n /\ cps[n] = cp
      /\ \A i \in 1..(n - 1) : cps[i] = d.controlPoints[i]
  BY <1>2, <1>a
<1> HIDE DEF cps
<1>c. d.nextNumber + 1 \in Nat \ {0}
  BY <1>2
<1>3. /\ next \in Snapshot /\ next.status = d.status
      /\ next.closedLoop = d.closedLoop /\ next.legResults = d.legResults
      /\ next.controlPoints = cps /\ next.nextNumber = d.nextNumber + 1
  <2>1. next \in Snapshot
    BY <1>1, <1>b, <1>c DEF Snapshot
  <2> QED
    BY <1>1, <2>1 DEF Snapshot
<1> HIDE DEF next
<1>4. DistinctIds(next)
  <2>1. \A i \in 1..(n - 1) : cps[i].id < d.nextNumber /\ cps[i].id \in Nat
    BY <1>1, <1>b, SnapshotFields DEF DistinctIds
  <2>2. \A i, j \in 1..(n - 1) : cps[i].id = cps[j].id => i = j
    BY <1>1, <1>b DEF DistinctIds
  <2>3. \A i \in 1..n : cps[i].id < d.nextNumber + 1
    <3>1. \A i \in 1..n : i \in 1..(n - 1) \/ i = n
      BY <1>2
    <3>2. \A i \in 1..(n - 1) : cps[i].id < d.nextNumber + 1
      BY <1>2, <2>1
    <3>3. cps[n].id = d.nextNumber
      BY <1>2, <1>a, <1>b
    <3> QED
      BY <1>2, <3>1, <3>2, <3>3
  <2>4. \A i, j \in 1..n : cps[i].id = cps[j].id => i = j
    <3>1. \A i \in 1..n : i \in 1..(n - 1) \/ i = n
      BY <1>2
    <3>2. \A i \in 1..(n - 1) : cps[i].id # cps[n].id
      BY <1>2, <1>a, <1>b, <2>1
    <3> QED
      BY <2>2, <3>1, <3>2
  <2> QED
    BY <1>3, <1>b, <2>3, <2>4 DEF DistinctIds
<1>5. legs \in SUBSET (Nat \ {0})
  BY <1>2, ImpactedAreNumbers
<1>d. d.closedLoop => n > 2
  BY <1>2 DEF WellFormed, LoopHasTwoPoints
<1>6. /\ LegCount(d) = LegCountOf(n - 1, d.closedLoop)
      /\ LegCount(next) = LegCountOf(n, d.closedLoop)
      /\ Len(d.legResults) = LegCount(d)
  BY <1>1, <1>2, <1>3, <1>b DEF LegCount, LegArrayFits
<1>7. \A i \in 1..LegCount(next) : i \in legs \/ i <= Len(d.legResults)
  BY <1>2, <1>6, <1>d DEF ImpactedByInsert, LegCountOf
<1>8. LegCount(next) > 0 => n - 1 \in 1..LegCount(next) /\ n - 1 \in legs
  BY <1>2, <1>6 DEF ImpactedByInsert, LegCountOf
<1> DEFINE e == InvalidateLegs(next, legs)
<1>9. /\ e \in Snapshot /\ LegArrayFits(e) /\ DistinctIds(e)
      /\ LoopHasTwoPoints(e)
      /\ LegCount(e) = LegCount(next)
      /\ \A i \in 1..LegCount(next) : i \in legs => e.legResults[i] = NoLeg
  <2>1. LoopHasTwoPoints(next)
    BY <1>2, <1>3, <1>b, <1>d DEF LoopHasTwoPoints
  <2> QED
    BY <1>1, <1>3, <1>4, <1>5, <1>7, <2>1, InvalidateFits DEF LegArrayFits
<1>10. ~HasRoute(e)
  BY <1>8, <1>9 DEF HasRoute, MissingLegs
<1>11. e.status = d.status
  BY <1>3 DEF InvalidateLegs, Snapshot
<1> QED
  BY <1>9, <1>10, <1>11, <1>12 DEF WellFormed, SelectionFits

(* What the edits that invalidate legs and then clamp have in common.      *)
LEMMA InvalidateAndClampFits ==
  ASSUME NEW d \in Snapshot, LoopHasTwoPoints(d), DistinctIds(d),
         NEW legs \in SUBSET (Nat \ {0}),
         \A i \in 1..Len(d.legResults) : d.legResults[i] # Hole,
         \A i \in 1..LegCount(d) : i \in legs \/ i <= Len(d.legResults)
  PROVE  /\ WellFormed(ClampSelection(InvalidateLegs(d, legs)))
         /\ ClampSelection(InvalidateLegs(d, legs)).status = d.status
<1> DEFINE e == InvalidateLegs(d, legs)
<1>1. e \in Snapshot /\ LegArrayFits(e) /\ DistinctIds(e) /\ LoopHasTwoPoints(e)
  BY InvalidateFits
<1>2. e.status = d.status
  BY DEF InvalidateLegs, Snapshot
<1> HIDE DEF e
<1>3. ClampSelection(e).status = e.status
  BY <1>1 DEF ClampSelection, Snapshot
<1>4. WellFormed(ClampSelection(e))
  BY <1>1, ClampFits
<1> QED
  BY <1>2, <1>3, <1>4 DEF e

LEMMA MovePointFits ==
  ASSUME NEW d, WellFormed(d), NEW k \in 1..Len(d.controlPoints), NEW p \in Points
  PROVE  WellFormed(MovePoint(d, k, p)) /\ MovePoint(d, k, p).status = d.status
<1> DEFINE n    == Len(d.controlPoints)
           cp   == [id |-> d.controlPoints[k].id, at |-> p]
           next == [d EXCEPT !.controlPoints = ReplaceAt(d.controlPoints, k, cp)]
           legs == ImpactedByMove(k, n, d.closedLoop)
<1>1. d \in Snapshot /\ DistinctIds(d) /\ LegArrayFits(d)
  BY DEF WellFormed
<1>2. n \in Nat /\ d.closedLoop \in BOOLEAN /\ d.controlPoints \in Seq(ControlPoint)
  BY <1>1 DEF Snapshot
<1>3. cp \in ControlPoint /\ cp.id = d.controlPoints[k].id
  BY <1>1, SnapshotFields, MakeControlPoint
<1> HIDE DEF cp
<1>4. /\ ReplaceAt(d.controlPoints, k, cp) \in Seq(ControlPoint)
      /\ Len(ReplaceAt(d.controlPoints, k, cp)) = n
      /\ \A i \in 1..n : ReplaceAt(d.controlPoints, k, cp)[i].id = d.controlPoints[i].id
  BY <1>2, <1>3 DEF ReplaceAt
<1>5. /\ next \in Snapshot /\ next.status = d.status
      /\ next.closedLoop = d.closedLoop /\ next.legResults = d.legResults
      /\ next.nextNumber = d.nextNumber
      /\ Len(next.controlPoints) = n
      /\ \A i \in 1..n : next.controlPoints[i].id = d.controlPoints[i].id
  BY <1>1, <1>4 DEF Snapshot
<1> HIDE DEF next
<1>6. LoopHasTwoPoints(next) /\ DistinctIds(next) /\ LegCount(next) = LegCount(d)
  BY <1>1, <1>5 DEF DistinctIds, LegCount, WellFormed, LoopHasTwoPoints
<1>7. legs \in SUBSET (Nat \ {0})
  BY <1>2, ImpactedAreNumbers
<1>8. \A i \in 1..LegCount(next) : i \in legs \/ i <= Len(next.legResults)
  BY <1>1, <1>5, <1>6, LegCountIsNat DEF LegArrayFits
<1>9. \A i \in 1..Len(next.legResults) : next.legResults[i] # Hole
  BY <1>1, <1>5 DEF LegArrayFits
<1>10. MovePoint(d, k, p) = ClampSelection(InvalidateLegs(next, legs))
  BY DEF MovePoint, next, cp
<1> HIDE DEF legs
<1> QED
  BY <1>5, <1>6, <1>7, <1>8, <1>9, <1>10, InvalidateAndClampFits

(* What a version with other control points and the same legs needs, for   *)
(* InvalidateAndClampFits to apply to it.                                  *)
IdsFit(cps, number) ==
    /\ \A i \in 1..Len(cps) : cps[i].id < number
    /\ \A i, j \in 1..Len(cps) : cps[i].id = cps[j].id => i = j

WithPoints(d, cps, closed) ==
    [d EXCEPT !.controlPoints = cps, !.closedLoop = closed]

LEMMA NewPointsFit ==
  ASSUME NEW d, WellFormed(d),
         NEW cps \in Seq(ControlPoint), NEW closed \in BOOLEAN,
         closed => Len(cps) >= 2,
         IdsFit(cps, d.nextNumber)
  PROVE  LET next == WithPoints(d, cps, closed)
         IN  /\ next \in Snapshot
             /\ LoopHasTwoPoints(next)
             /\ DistinctIds(next)
             /\ LegCount(next) = LegCountOf(Len(cps), closed)
             /\ next.legResults = d.legResults
             /\ next.status = d.status
             /\ \A i \in 1..Len(next.legResults) : next.legResults[i] # Hole
<1> DEFINE next == WithPoints(d, cps, closed)
<1>1. d \in Snapshot /\ LegArrayFits(d)
  BY DEF WellFormed
<1>2. next \in Snapshot
  BY <1>1 DEF Snapshot, WithPoints
<1>3. /\ next.controlPoints = cps /\ next.closedLoop = closed
      /\ next.legResults = d.legResults /\ next.status = d.status
      /\ next.nextNumber = d.nextNumber
  BY <1>1 DEF Snapshot, WithPoints
<1> HIDE DEF next
<1>4. LoopHasTwoPoints(next) /\ DistinctIds(next)
      /\ LegCount(next) = LegCountOf(Len(cps), closed)
  BY <1>3 DEF LoopHasTwoPoints, DistinctIds, IdsFit, LegCount
<1>5. \A i \in 1..Len(next.legResults) : next.legResults[i] # Hole
  BY <1>1, <1>3 DEF LegArrayFits
<1> QED
  BY <1>2, <1>3, <1>4, <1>5 DEF next

(* Removing a point never adds a leg, so that no slot is left unassigned.  *)
LEMMA RemovePointFits ==
  ASSUME NEW d, WellFormed(d), NEW k \in 1..Len(d.controlPoints)
  PROVE  WellFormed(RemovePoint(d, k)) /\ RemovePoint(d, k).status = d.status
<1> DEFINE n      == Len(d.controlPoints) - 1
           cps    == RemoveAt(d.controlPoints, k)
           closed == d.closedLoop /\ n >= 2
           next   == WithPoints(d, cps, closed)
           legs   == ImpactedByRemoval(k, n, next.closedLoop)
<1>1. d \in Snapshot /\ DistinctIds(d) /\ LegArrayFits(d) /\ LoopHasTwoPoints(d)
  BY DEF WellFormed
<1>2. /\ n \in Nat /\ d.closedLoop \in BOOLEAN /\ closed \in BOOLEAN
      /\ d.controlPoints \in Seq(ControlPoint)
  BY <1>1, SnapshotFields
<1>3. /\ cps \in Seq(ControlPoint) /\ Len(cps) = n
      /\ \A i \in 1..n :
            cps[i] = IF i < k THEN d.controlPoints[i] ELSE d.controlPoints[i + 1]
  BY <1>2, RemoveAtElements
<1> HIDE DEF cps
<1>4. \A i \in 1..n : cps[i].id < d.nextNumber
  BY <1>1, <1>2, <1>3 DEF DistinctIds
<1>5. \A i, j \in 1..n : cps[i].id = cps[j].id => i = j
  <2> SUFFICES ASSUME NEW i \in 1..n, NEW j \in 1..n, cps[i].id = cps[j].id
               PROVE  i = j
    OBVIOUS
  <2> DEFINE was(x) == IF x < k THEN x ELSE x + 1
  <2>1. /\ was(i) \in 1..Len(d.controlPoints) /\ was(j) \in 1..Len(d.controlPoints)
        /\ cps[i] = d.controlPoints[was(i)] /\ cps[j] = d.controlPoints[was(j)]
    <3>1. Len(d.controlPoints) \in Nat /\ n = Len(d.controlPoints) - 1
      BY <1>2
    <3>2. ASSUME NEW x \in 1..n PROVE was(x) \in 1..Len(d.controlPoints)
      BY <3>1
    <3>3. \A x \in 1..n : cps[x] = d.controlPoints[was(x)]
      BY <1>3, Zenon
    <3> QED
      BY <3>2, <3>3
  <2>2. was(i) = was(j)
    BY <1>1, <2>1 DEF DistinctIds
  <2> QED
    BY <1>2, <2>2
<1>6. closed => Len(cps) >= 2
  BY <1>3
<1>7. /\ next \in Snapshot /\ LoopHasTwoPoints(next) /\ DistinctIds(next)
      /\ LegCount(next) = LegCountOf(n, closed)
      /\ next.legResults = d.legResults /\ next.status = d.status
      /\ \A i \in 1..Len(next.legResults) : next.legResults[i] # Hole
  <2>1. IdsFit(cps, d.nextNumber)
    BY <1>3, <1>4, <1>5 DEF IdsFit
  <2> HIDE DEF closed
  <2>2. /\ next \in Snapshot /\ LoopHasTwoPoints(next) /\ DistinctIds(next)
        /\ LegCount(next) = LegCountOf(Len(cps), closed)
        /\ next.legResults = d.legResults /\ next.status = d.status
        /\ \A i \in 1..Len(next.legResults) : next.legResults[i] # Hole
    BY <1>2, <1>3, <1>6, <2>1, NewPointsFit
  <2> QED
    BY <1>3, <2>2
<1>8. LegCount(next) <= LegCount(d) /\ LegCount(next) \in Nat /\ LegCount(d) \in Nat
  BY <1>1, <1>2, <1>7, LegCountIsNat DEF LegCount, LegCountOf
<1>9. \A i \in 1..LegCount(next) : i <= Len(next.legResults)
  BY <1>1, <1>7, <1>8 DEF LegArrayFits
<1>10. next.closedLoop \in BOOLEAN /\ k \in Nat \ {0}
  BY <1>2, <1>7, SnapshotFields
<1> HIDE DEF next
<1>11. legs \in SUBSET (Nat \ {0})
  BY <1>2, <1>10, ImpactedAreNumbers
<1>12. RemovePoint(d, k) = ClampSelection(InvalidateLegs(next, legs))
  BY DEF RemovePoint, WithPoints, next, cps
<1> HIDE DEF legs
<1> QED
  BY <1>7, <1>9, <1>11, <1>12, InvalidateAndClampFits

(* Dropping the list of invalidated legs changes nothing else.             *)
LEMMA ClearedListFits ==
  ASSUME NEW d, WellFormed(d)
  PROVE  /\ WellFormed([d EXCEPT !.invalidated = {}])
         /\ [d EXCEPT !.invalidated = {}].status = d.status
<1> DEFINE e == [d EXCEPT !.invalidated = {}]
<1>1. /\ e \in Snapshot /\ e.status = d.status /\ e.selection = d.selection
      /\ e.controlPoints = d.controlPoints /\ e.closedLoop = d.closedLoop
      /\ e.legResults = d.legResults /\ e.nextNumber = d.nextNumber
  BY DEF WellFormed, Snapshot
<1> HIDE DEF e
<1>2. LegCount(e) = LegCount(d) /\ MissingLegs(e) = MissingLegs(d)
  BY <1>1 DEF LegCount, MissingLegs
<1> QED
  BY <1>1, <1>2 DEF WellFormed, DistinctIds, LegArrayFits, SelectionFits,
                    HasRoute, TotalMetres, LoopHasTwoPoints, e

(* Reordering permutes the points: the legs stay as many as they were.     *)
LEMMA ReorderPointFits ==
  ASSUME NEW d, WellFormed(d), NEW from \in 1..Len(d.controlPoints),
         NEW target \in 1..Len(d.controlPoints)
  PROVE  /\ WellFormed(ReorderPoint(d, from, target))
         /\ ReorderPoint(d, from, target).status = d.status
<1> DEFINE n    == Len(d.controlPoints)
           cps  == Moved(d.controlPoints, from, target)
           next == WithPoints(d, cps, d.closedLoop)
           legs == ImpactedByReorder(from, target, n, d.closedLoop)
           was(i) == PlaceBefore(i, from, target)
<1>1. d \in Snapshot /\ DistinctIds(d) /\ LegArrayFits(d) /\ LoopHasTwoPoints(d)
  BY DEF WellFormed
<1>2. /\ n \in Nat /\ d.closedLoop \in BOOLEAN
      /\ d.controlPoints \in Seq(ControlPoint)
  BY <1>1, SnapshotFields
<1>5. cps \in Seq(ControlPoint) /\ Len(cps) = n
  BY <1>2, MoveElements
<1>6. \A i \in 1..n : cps[i] = d.controlPoints[was(i)] /\ was(i) \in 1..n
  <2>1. \A i \in 1..n : cps[i] = d.controlPoints[was(i)]
    BY <1>2, MoveElements
  <2>2. \A i \in 1..n : was(i) \in 1..n
    BY <1>2, PlaceBeforeIsInjective
  <2> QED
    BY <2>1, <2>2
<1>7. \A i, j \in 1..n : was(i) = was(j) => i = j
  BY <1>2, PlaceBeforeIsInjective
<1> HIDE DEF cps, was
<1>8. IdsFit(cps, d.nextNumber)
  <2>1. \A i \in 1..n : cps[i].id < d.nextNumber
    BY <1>1, <1>6 DEF DistinctIds
  <2>2. ASSUME NEW i \in 1..n, NEW j \in 1..n, cps[i].id = cps[j].id
        PROVE  i = j
    <3>1. /\ was(i) \in 1..n /\ was(j) \in 1..n
          /\ d.controlPoints[was(i)].id = d.controlPoints[was(j)].id
      BY <1>6, <2>2
    <3>2. was(i) = was(j)
      BY <1>1, <3>1 DEF DistinctIds
    <3> QED
      BY <1>7, <3>2
  <2> QED
    BY <1>5, <2>1, <2>2 DEF IdsFit
<1>9. d.closedLoop => Len(cps) >= 2
  BY <1>1, <1>5 DEF LoopHasTwoPoints
<1>10. /\ next \in Snapshot /\ LoopHasTwoPoints(next) /\ DistinctIds(next)
       /\ LegCount(next) = LegCount(d)
       /\ next.legResults = d.legResults /\ next.status = d.status
       /\ \A i \in 1..Len(next.legResults) : next.legResults[i] # Hole
  <2>1. /\ next \in Snapshot /\ LoopHasTwoPoints(next) /\ DistinctIds(next)
        /\ LegCount(next) = LegCountOf(Len(cps), d.closedLoop)
        /\ next.legResults = d.legResults /\ next.status = d.status
        /\ \A i \in 1..Len(next.legResults) : next.legResults[i] # Hole
    BY <1>2, <1>5, <1>8, <1>9, NewPointsFit
  <2> QED
    BY <1>5, <2>1 DEF LegCount
<1>11. \A i \in 1..LegCount(next) : i <= Len(next.legResults)
  BY <1>1, <1>10, LegCountIsNat DEF LegArrayFits
<1>12. legs \in SUBSET (Nat \ {0})
  BY <1>2, ImpactedAreNumbers
<1>13. next = [d EXCEPT !.controlPoints = cps]
  BY <1>1 DEF Snapshot, WithPoints
<1>14. ReorderPoint(d, from, target) =
         IF from = target THEN [d EXCEPT !.invalidated = {}]
         ELSE ClampSelection(InvalidateLegs(next, legs))
  BY <1>13 DEF ReorderPoint, Moved, cps
<1> HIDE DEF legs, next
<1>15. CASE from = target
  BY <1>14, <1>15, ClearedListFits
<1>16. CASE from # target
  BY <1>10, <1>11, <1>12, <1>14, <1>16, InvalidateAndClampFits
<1> QED
  BY <1>15, <1>16

(* Closing a loop adds the leg it invalidates, opening one drops it.       *)
LEMMA SetLoopFits ==
  ASSUME NEW d, WellFormed(d), NEW closed \in BOOLEAN
  PROVE  WellFormed(SetLoop(d, closed)) /\ SetLoop(d, closed).status = d.status
<1> DEFINE n       == Len(d.controlPoints)
           enabled == closed /\ n > 1
           next    == WithPoints(d, d.controlPoints, enabled)
           legs    == ClosingLeg(n, d.closedLoop) \cup ClosingLeg(n, enabled)
<1>1. d \in Snapshot /\ DistinctIds(d) /\ LegArrayFits(d) /\ LoopHasTwoPoints(d)
  BY DEF WellFormed
<1>2. /\ n \in Nat /\ d.closedLoop \in BOOLEAN /\ enabled \in BOOLEAN
      /\ d.controlPoints \in Seq(ControlPoint)
  BY <1>1, SnapshotFields
<1>3. enabled => n >= 2
  BY <1>2
<1>4. /\ ClosingLeg(n, d.closedLoop) \in SUBSET (Nat \ {0})
      /\ ClosingLeg(n, enabled) \in SUBSET (Nat \ {0})
  BY <1>2 DEF ClosingLeg
<1>5. /\ LegCount(d) = LegCountOf(n, d.closedLoop)
      /\ Len(d.legResults) = LegCount(d)
  BY <1>1 DEF LegCount, LegArrayFits
<1>6. \A i \in 1..LegCountOf(n, enabled) : i \in legs \/ i <= Len(d.legResults)
  BY <1>2, <1>3, <1>5 DEF LegCountOf, ClosingLeg
<1> HIDE DEF enabled
<1>7. IdsFit(d.controlPoints, d.nextNumber)
  BY <1>1 DEF DistinctIds, IdsFit
<1>8. /\ next \in Snapshot /\ LoopHasTwoPoints(next) /\ DistinctIds(next)
      /\ LegCount(next) = LegCountOf(n, enabled)
      /\ next.legResults = d.legResults /\ next.status = d.status
      /\ \A i \in 1..Len(next.legResults) : next.legResults[i] # Hole
  BY <1>2, <1>3, <1>7, NewPointsFit
<1>9. next = [d EXCEPT !.closedLoop = enabled]
  BY <1>1 DEF Snapshot, WithPoints
<1>10. SetLoop(d, closed) =
         IF d.closedLoop = enabled THEN [d EXCEPT !.invalidated = {}]
         ELSE ClampSelection(InvalidateLegs(next, legs))
  BY <1>9 DEF SetLoop, enabled
<1>11. legs \in SUBSET (Nat \ {0})
  BY <1>4
<1> HIDE DEF legs, next
<1>12. CASE d.closedLoop = enabled
  BY <1>10, <1>12, ClearedListFits
<1>13. CASE d.closedLoop # enabled
  BY <1>6, <1>8, <1>10, <1>11, <1>13, InvalidateAndClampFits
<1> QED
  BY <1>12, <1>13

(* A routed leg fills a slot that is there.                                *)
LEMMA SetLegFits ==
  ASSUME NEW d, WellFormed(d), NEW i \in 1..LegCount(d), NEW leg \in Leg
  PROVE  WellFormed(SetLeg(d, i, leg)) /\ SetLeg(d, i, leg).status = d.status
<1> DEFINE slots == [d.legResults EXCEPT ![i] = leg]
           rest  == d.invalidated \ {i}
           next  == [d EXCEPT !.legResults = slots, !.invalidated = rest]
<1>1. d \in Snapshot /\ DistinctIds(d) /\ LegArrayFits(d) /\ LoopHasTwoPoints(d)
  BY DEF WellFormed
<1>2. d.legResults \in Seq(LegSlot) /\ i \in 1..Len(d.legResults)
  BY <1>1, SnapshotFields DEF LegArrayFits
<1>3. leg \in LegSlot /\ leg # Hole
  BY SentinelsAssumption DEF LegSlot, Leg
<1>4. /\ slots \in Seq(LegSlot) /\ Len(slots) = Len(d.legResults)
      /\ \A j \in 1..Len(slots) : slots[j] = IF j = i THEN leg ELSE d.legResults[j]
  BY <1>2, <1>3
<1>5. rest \in SUBSET (Nat \ {0})
  BY <1>1 DEF Snapshot
<1>6. SetLeg(d, i, leg) = ClampSelection(next)
  BY <1>1 DEF SetLeg, Snapshot
<1> HIDE DEF slots, rest
<1>7. next \in Snapshot
  BY <1>1, <1>4, <1>5 DEF Snapshot
<1>8. /\ next.controlPoints = d.controlPoints /\ next.closedLoop = d.closedLoop
      /\ next.legResults = slots /\ next.status = d.status
      /\ next.nextNumber = d.nextNumber
  BY <1>1 DEF Snapshot
<1> HIDE DEF next
<1>9. LegCount(next) = LegCount(d) /\ DistinctIds(next) /\ LoopHasTwoPoints(next)
  BY <1>1, <1>8 DEF LegCount, DistinctIds, LoopHasTwoPoints
<1>10. LegArrayFits(next)
  BY <1>1, <1>3, <1>4, <1>8, <1>9 DEF LegArrayFits
<1>11. ClampSelection(next).status = next.status
  BY <1>7 DEF ClampSelection, Snapshot
<1> QED
  BY <1>6, <1>7, <1>8, <1>9, <1>10, <1>11, ClampFits

(* A trim within the route fits it; no trim fits every route.              *)
LEMMA TrimFits ==
  ASSUME NEW d, WellFormed(d), NEW startM \in Nat, NEW endM \in Nat,
         startM <= endM, endM <= TotalMetres(d)
  PROVE  /\ WellFormed(Trim(d, startM, endM))
         /\ Trim(d, startM, endM).status = d.status
         /\ WellFormed(ResetTrim(d)) /\ ResetTrim(d).status = d.status
<1> DEFINE sel == [startM |-> startM, endM |-> endM]
<1>1. d \in Snapshot /\ sel \in Selection
  BY DEF WellFormed, Selection
<1>2. sel.startM = startM /\ sel.endM = endM
  OBVIOUS
<1> HIDE DEF sel
<1>3. WellFormed([d EXCEPT !.selection = sel])
  BY <1>1, <1>2, SelectionLeavesLegs DEF WellFormed, SelectionFits
<1>4. WellFormed([d EXCEPT !.selection = NoSelection])
  BY <1>1, SelectionLeavesLegs DEF WellFormed, SelectionFits
<1>5. /\ [d EXCEPT !.selection = sel].status = d.status
      /\ [d EXCEPT !.selection = NoSelection].status = d.status
  BY <1>1 DEF Snapshot
<1> QED
  BY <1>3, <1>4, <1>5 DEF Trim, ResetTrim, sel

(* A new draft is well-formed, and so is a version with another revision   *)
(* or another place in the lifecycle.                                      *)
LEMMA NewDraftFits == WellFormed(NewDraft)
<1>1. NewDraft \in Snapshot
  BY DEF NewDraft, Snapshot, Statuses
<1>2. LegCount(NewDraft) = 0 /\ Len(NewDraft.legResults) = 0
      /\ Len(NewDraft.controlPoints) = 0 /\ NewDraft.selection = NoSelection
      /\ NewDraft.closedLoop = FALSE
  BY DEF NewDraft, LegCount, LegCountOf
<1> QED
  BY <1>1, <1>2 DEF WellFormed, LoopHasTwoPoints, DistinctIds, LegArrayFits,
                    SelectionFits

Restamped(d, status, revision) ==
    [d EXCEPT !.status = status, !.revision = revision]

LEMMA RestampedFits ==
  ASSUME NEW d, WellFormed(d), NEW revision \in Nat, NEW status \in Statuses
  PROVE  LET e == Restamped(d, status, revision)
         IN  /\ WellFormed(e)
             /\ e.status = status /\ e.revision = revision
             /\ e.controlPoints = d.controlPoints /\ e.name = d.name
             /\ e.invalidated = d.invalidated /\ (HasRoute(e) <=> HasRoute(d))
<1> DEFINE e == Restamped(d, status, revision)
<1>1. /\ e \in Snapshot /\ e.selection = d.selection
      /\ e.controlPoints = d.controlPoints /\ e.closedLoop = d.closedLoop
      /\ e.legResults = d.legResults /\ e.nextNumber = d.nextNumber
      /\ e.status = status /\ e.revision = revision
      /\ e.name = d.name /\ e.invalidated = d.invalidated
  BY DEF WellFormed, Snapshot, Restamped
<1> HIDE DEF e
<1>2. LegCount(e) = LegCount(d) /\ MissingLegs(e) = MissingLegs(d)
  BY <1>1 DEF LegCount, MissingLegs
<1>3. WellFormed(e)
  BY <1>1, <1>2 DEF WellFormed, DistinctIds, LegArrayFits, SelectionFits,
                    HasRoute, TotalMetres, LoopHasTwoPoints
<1> QED
  BY <1>1, <1>2, <1>3 DEF HasRoute, e

(***************************************************************************)
(* Which legs still join their points after an edit.                       *)
(***************************************************************************)

(* The fields that LegsMatch reads.                                        *)
SameLegs(d, e) ==
    /\ e.controlPoints = d.controlPoints
    /\ e.closedLoop = d.closedLoop
    /\ e.legResults = d.legResults

LEMMA SameLegsMatch ==
  ASSUME NEW d, NEW e, SameLegs(d, e), LegsMatch(d)
  PROVE  LegsMatch(e)
BY DEF SameLegs, LegsMatch, LegCount, LegEnds

LEMMA SameLegsAfter ==
  ASSUME NEW d \in Snapshot
  PROVE  /\ SameLegs(d, ClampSelection(d))
         /\ \A v : SameLegs(d, [d EXCEPT !.name = v])
         /\ \A v : SameLegs(d, [d EXCEPT !.invalidated = v])
         /\ \A v : SameLegs(d, [d EXCEPT !.selection = v])
         /\ \A v : SameLegs(d, [d EXCEPT !.revision = v])
         /\ \A v, r : SameLegs(d, [d EXCEPT !.status = v, !.revision = r])
BY DEF Snapshot, SameLegs, ClampSelection

(* invalidateLegs: the legs match if each one that is not invalidated was  *)
(* there before and joins the same places.                                 *)
LEMMA InvalidateMatches ==
  ASSUME NEW d \in Snapshot, LegArrayFits(d), LegsMatch(d),
         NEW next \in Snapshot, next.legResults = d.legResults, NEW legs,
         \A i \in 1..LegCount(next) :
            i \notin legs => i \in 1..LegCount(d) /\ LegEnds(next, i) = LegEnds(d, i)
  PROVE  LegsMatch(InvalidateLegs(next, legs))
<1> DEFINE e     == InvalidateLegs(next, legs)
           slots == [ i \in 1..LegCount(next) |->
                        IF i \in legs THEN NoLeg
                        ELSE IF i <= Len(next.legResults) THEN next.legResults[i]
                        ELSE Hole ]
<1>1. e = [next EXCEPT !.legResults = slots, !.invalidated = legs]
  BY DEF InvalidateLegs
<1>2. \A i \in 1..LegCount(next) :
         slots[i] = IF i \in legs THEN NoLeg
                    ELSE IF i <= Len(next.legResults) THEN next.legResults[i] ELSE Hole
  OBVIOUS
<1> HIDE DEF e, slots
<1>3. /\ e.legResults = slots
      /\ e.controlPoints = next.controlPoints /\ e.closedLoop = next.closedLoop
  BY <1>1 DEF Snapshot
<1>4. LegCount(e) = LegCount(next) /\ \A i : LegEnds(e, i) = LegEnds(next, i)
  BY <1>3 DEF LegCount, LegEnds
<1>5. ASSUME NEW i \in 1..LegCount(next), slots[i] \in Leg
      PROVE  slots[i] = LegEnds(next, i)
  <2>1. i \notin legs
    BY <1>2, <1>5, SentinelsAssumption DEF Leg
  <2>2. i \in 1..LegCount(d) /\ LegEnds(next, i) = LegEnds(d, i)
    BY <2>1
  <2>3. LegCount(d) \in Nat /\ Len(d.legResults) = LegCount(d)
    BY LegCountIsNat DEF LegArrayFits
  <2>4. slots[i] = d.legResults[i]
    BY <1>2, <2>1, <2>2, <2>3
  <2> QED
    BY <1>5, <2>2, <2>4 DEF LegsMatch
<1>6. LegsMatch(e)
  BY <1>3, <1>4, <1>5 DEF LegsMatch
<1> QED
  BY <1>6 DEF e

LEMMA InvalidateClampMatches ==
  ASSUME NEW d \in Snapshot, LegArrayFits(d), LegsMatch(d),
         NEW next \in Snapshot, next.legResults = d.legResults, NEW legs \in SUBSET (Nat \ {0}),
         \A i \in 1..LegCount(next) :
            i \notin legs => i \in 1..LegCount(d) /\ LegEnds(next, i) = LegEnds(d, i)
  PROVE  LegsMatch(ClampSelection(InvalidateLegs(next, legs)))
<1>1. LegsMatch(InvalidateLegs(next, legs))
  BY InvalidateMatches
<1>2. InvalidateLegs(next, legs) \in Snapshot
  <2>1. \A i \in 1..Len(next.legResults) : next.legResults[i] # Hole
    BY DEF LegArrayFits
  <2>2. \A i \in 1..LegCount(next) : i \in legs \/ i <= Len(next.legResults)
    BY LegCountIsNat DEF LegArrayFits
  <2> QED
    BY <2>1, <2>2, InvalidateFits
<1> QED
  BY <1>1, <1>2, SameLegsAfter, SameLegsMatch

(* addControlPoint: only the legs to the new point are new.                *)
LEMMA AddPointMatches ==
  ASSUME NEW d, WellFormed(d), LegsMatch(d), NEW p \in Points
  PROVE  LegsMatch(AddPoint(d, p))
<1> DEFINE n    == Len(d.controlPoints) + 1
           c    == [id |-> d.nextNumber, at |-> p]
           next == [d EXCEPT !.controlPoints = Append(@, c), !.nextNumber = @ + 1]
           legs == ImpactedByInsert(n, n, d.closedLoop)
<1>1. /\ d \in Snapshot /\ LegArrayFits(d) /\ d.controlPoints \in Seq(ControlPoint)
      /\ n \in Nat \ {0} /\ d.nextNumber \in Nat \ {0} /\ d.closedLoop \in BOOLEAN
      /\ (d.closedLoop => n >= 3)
  BY SnapshotFields DEF WellFormed, LoopHasTwoPoints
<1>2. c \in ControlPoint
  BY <1>1, MakeControlPoint
<1> HIDE DEF c
<1>3. /\ Append(d.controlPoints, c) \in Seq(ControlPoint)
      /\ Len(Append(d.controlPoints, c)) = n
      /\ \A i \in 1..(n - 1) : Append(d.controlPoints, c)[i] = d.controlPoints[i]
  BY <1>1, <1>2
<1>4. /\ next \in Snapshot /\ next.legResults = d.legResults
      /\ next.controlPoints = Append(d.controlPoints, c)
      /\ next.closedLoop = d.closedLoop
  <2> DEFINE cs == Append(d.controlPoints, c)
             k  == d.nextNumber + 1
  <2>1. cs \in Seq(ControlPoint) /\ k \in Nat \ {0}
    BY <1>1, <1>3
  <2>2. next = [d EXCEPT !.controlPoints = cs, !.nextNumber = k]
    BY <1>1 DEF Snapshot
  <2> HIDE DEF cs, k, next
  <2>3. next \in Snapshot /\ next.legResults = d.legResults
        /\ next.controlPoints = cs /\ next.closedLoop = d.closedLoop
    BY <1>1, <2>1, <2>2 DEF Snapshot
  <2> QED
    BY <2>3 DEF cs
<1> HIDE DEF next
<1>5. ASSUME NEW i \in 1..LegCount(next), i \notin legs
      PROVE  i \in 1..LegCount(d) /\ LegEnds(next, i) = LegEnds(d, i)
  <2> HIDE DEF n
  <2>1. /\ Len(d.controlPoints) = n - 1 /\ Len(next.controlPoints) = n
        /\ i \in 1..LegCountOf(n, d.closedLoop)
    BY <1>1, <1>3, <1>4 DEF LegCount, n
  <2>2. i \in 1..(n - 2) /\ i + 1 \in 1..(n - 1) /\ i \in 1..(n - 1)
    BY <1>1, <1>5, <2>1 DEF LegCountOf, ImpactedByInsert
  <2>3. i \in 1..LegCount(d)
    BY <1>1, <2>1, <2>2 DEF LegCount, LegCountOf
  <2>4. i # Len(d.controlPoints) /\ i # Len(next.controlPoints)
    BY <1>1, <2>1, <2>2
  <2>5. /\ next.controlPoints[i] = d.controlPoints[i]
        /\ next.controlPoints[i + 1] = d.controlPoints[i + 1]
    BY <1>3, <1>4, <2>2
  <2> QED
    BY <2>3, <2>4, <2>5 DEF LegEnds
<1>6. LegsMatch(InvalidateLegs(next, legs))
  BY <1>1, <1>4, <1>5, InvalidateMatches
<1> QED
  BY <1>6 DEF AddPoint, next, c

(* moveControlPoint: the two legs at the moved point are invalidated.      *)
LEMMA MovePointMatches ==
  ASSUME NEW d, WellFormed(d), LegsMatch(d), NEW k \in 1..Len(d.controlPoints),
         NEW p \in Points, ~(d.closedLoop /\ Len(d.controlPoints) = 2)
  PROVE  LegsMatch(MovePoint(d, k, p))
<1> DEFINE n    == Len(d.controlPoints)
           c    == [id |-> d.controlPoints[k].id, at |-> p]
           cs   == ReplaceAt(d.controlPoints, k, c)
           next == [d EXCEPT !.controlPoints = cs]
           legs == ImpactedByMove(k, n, d.closedLoop)
<1>1. /\ d \in Snapshot /\ LegArrayFits(d) /\ d.controlPoints \in Seq(ControlPoint)
      /\ n \in Nat /\ d.controlPoints[k].id \in Nat \ {0} /\ d.closedLoop \in BOOLEAN
      /\ (d.closedLoop => n >= 2)
  BY SnapshotFields DEF WellFormed, LoopHasTwoPoints
<1>2. c \in ControlPoint
  BY <1>1, MakeControlPoint
<1> HIDE DEF c
<1>3. /\ cs \in Seq(ControlPoint) /\ Len(cs) = n
      /\ \A i \in 1..n : i # k => cs[i] = d.controlPoints[i]
  BY <1>1, <1>2 DEF ReplaceAt
<1> HIDE DEF cs
<1>4. /\ next \in Snapshot /\ next.legResults = d.legResults
      /\ next.controlPoints = cs /\ next.closedLoop = d.closedLoop
  BY <1>1, <1>3 DEF Snapshot
<1> HIDE DEF next, n
<1>5. LegCount(next) = LegCount(d) /\ LegCount(d) = LegCountOf(n, d.closedLoop)
  BY <1>3, <1>4 DEF LegCount, n
<1>6. ASSUME NEW i \in 1..LegCount(next), i \notin legs
      PROVE  i \in 1..LegCount(d) /\ LegEnds(next, i) = LegEnds(d, i)
  <2> DEFINE j == IF i = n THEN 1 ELSE i + 1
  <2>1. i \in 1..LegCountOf(n, d.closedLoop)
    BY <1>5
  <2>2. k \in 1..n /\ ~(d.closedLoop /\ n = 2)
    BY DEF n
  <2>3. i \in 1..n /\ j \in 1..n /\ i # k /\ j # k
    BY <1>1, <1>6, <2>1, <2>2 DEF LegCountOf, ImpactedByMove
  <2>4. next.controlPoints[i] = d.controlPoints[i] /\ next.controlPoints[j] = d.controlPoints[j]
    BY <1>3, <1>4, <2>3
  <2>5. Len(next.controlPoints) = n /\ Len(d.controlPoints) = n
    BY <1>3, <1>4 DEF n
  <2> QED
    BY <1>5, <2>4, <2>5 DEF LegEnds
<1>7. legs \in SUBSET (Nat \ {0})
  BY <1>1, ImpactedAreNumbers
<1>8. LegsMatch(ClampSelection(InvalidateLegs(next, legs)))
  BY <1>1, <1>4, <1>6, <1>7, InvalidateClampMatches
<1> QED
  BY <1>8 DEF MovePoint, next, cs, c, n

(* reorderControlPoints: every leg next to a point that went elsewhere is  *)
(* invalidated.                                                            *)
LEMMA ReorderPointMatches ==
  ASSUME NEW d, WellFormed(d), LegsMatch(d), NEW from \in 1..Len(d.controlPoints),
         NEW target \in 1..Len(d.controlPoints),
         ~(d.closedLoop /\ Len(d.controlPoints) = 2)
  PROVE  LegsMatch(ReorderPoint(d, from, target))
<1> DEFINE n    == Len(d.controlPoints)
           cs   == Moved(d.controlPoints, from, target)
           next == [d EXCEPT !.controlPoints = cs]
           legs == ImpactedByReorder(from, target, n, d.closedLoop)
<1>1. /\ d \in Snapshot /\ LegArrayFits(d) /\ d.controlPoints \in Seq(ControlPoint)
      /\ n \in Nat /\ d.closedLoop \in BOOLEAN
      /\ (d.closedLoop => n >= 2)
  BY SnapshotFields DEF WellFormed, LoopHasTwoPoints
<1>2. CASE from = target
  <2>1. ReorderPoint(d, from, target) = [d EXCEPT !.invalidated = {}]
    BY <1>2 DEF ReorderPoint
  <2> QED
    BY <1>1, <2>1, SameLegsAfter, SameLegsMatch
<1>3. CASE from # target
  <2>1. /\ cs \in Seq(ControlPoint) /\ Len(cs) = n
        /\ \A i \in 1..n : cs[i] = d.controlPoints[PlaceBefore(i, from, target)]
    BY <1>1, MoveElements
  <2> HIDE DEF cs
  <2>2. /\ next \in Snapshot /\ next.legResults = d.legResults
        /\ next.controlPoints = cs /\ next.closedLoop = d.closedLoop
    BY <1>1, <2>1 DEF Snapshot
  <2> HIDE DEF next, n
  <2>3. LegCount(next) = LegCount(d) /\ LegCount(d) = LegCountOf(n, d.closedLoop)
    BY <2>1, <2>2 DEF LegCount, n
  <2>4. ASSUME NEW i \in 1..LegCount(next), i \notin legs
        PROVE  i \in 1..LegCount(d) /\ LegEnds(next, i) = LegEnds(d, i)
    <3> DEFINE j == IF i = n THEN 1 ELSE i + 1
    <3>1. i \in 1..LegCountOf(n, d.closedLoop)
      BY <2>3
    <3>2. from \in 1..n /\ target \in 1..n /\ ~(d.closedLoop /\ n = 2)
      BY DEF n
    <3>3. /\ i \in 1..n /\ j \in 1..n
          /\ PlaceBefore(i, from, target) = i /\ PlaceBefore(j, from, target) = j
      <4>1. CASE i = n
        <5>1. d.closedLoop /\ n > 2 /\ i = n
          BY <1>1, <3>1, <3>2, <4>1 DEF LegCountOf
        <5>2. {from, target} \cap {1, n} = {}
          BY <2>4, <5>1 DEF ImpactedByReorder
        <5>3. from > 1 /\ from < n /\ target > 1 /\ target < n
          <6>1. from # 1 /\ from # n /\ target # 1 /\ target # n
            BY <5>2
          <6>2. from \in 1..n /\ target \in 1..n /\ n \in Nat
            BY <1>1, <3>2 DEF n
          <6> QED
            BY <6>1, <6>2
        <5> QED
          BY <1>1, <3>2, <4>1, <5>1, <5>3 DEF PlaceBefore
      <4>2. CASE i # n
        <5>1. i \in 1..(n - 1) /\ j = i + 1
          BY <1>1, <3>1, <4>2 DEF LegCountOf
        <5>2. \/ i + 1 < from /\ i + 1 < target
              \/ i > from /\ i > target
          BY <1>1, <2>4, <3>2, <5>1 DEF ImpactedByReorder
        <5> HIDE DEF j
        <5> QED
          BY <1>1, <3>2, <5>1, <5>2 DEF PlaceBefore
      <4> QED
        BY <4>1, <4>2
    <3>4. /\ next.controlPoints[i] = d.controlPoints[i]
          /\ next.controlPoints[j] = d.controlPoints[j]
      BY <2>1, <2>2, <3>3
    <3>5. Len(next.controlPoints) = n /\ Len(d.controlPoints) = n
      BY <2>1, <2>2 DEF n
    <3> QED
      BY <2>3, <3>4, <3>5 DEF LegEnds
  <2>5. legs \in SUBSET (Nat \ {0})
    BY <1>1, ImpactedAreNumbers DEF n
  <2>6. LegsMatch(ClampSelection(InvalidateLegs(next, legs)))
    BY <1>1, <2>2, <2>4, <2>5, InvalidateClampMatches
  <2>7. ReorderPoint(d, from, target) = ClampSelection(InvalidateLegs(next, legs))
    BY <1>3 DEF ReorderPoint, next, cs, n, Moved
  <2> QED
    BY <2>6, <2>7
<1> QED
  BY <1>2, <1>3

(* setClosedLoop: the closing leg is the only one that comes or goes.      *)
LEMMA SetLoopMatches ==
  ASSUME NEW d, WellFormed(d), LegsMatch(d), NEW closed \in BOOLEAN
  PROVE  LegsMatch(SetLoop(d, closed))
<1> DEFINE n       == Len(d.controlPoints)
           enabled == closed /\ n > 1
           next    == [d EXCEPT !.closedLoop = enabled]
           legs    == ClosingLeg(n, d.closedLoop) \cup ClosingLeg(n, enabled)
<1>1. /\ d \in Snapshot /\ LegArrayFits(d) /\ d.controlPoints \in Seq(ControlPoint)
      /\ n \in Nat /\ d.closedLoop \in BOOLEAN /\ enabled \in BOOLEAN
      /\ (d.closedLoop => n >= 2)
  BY SnapshotFields DEF WellFormed, LoopHasTwoPoints
<1>2. CASE d.closedLoop = enabled
  <2>1. SetLoop(d, closed) = [d EXCEPT !.invalidated = {}]
    BY <1>2 DEF SetLoop
  <2> QED
    BY <1>1, <2>1, SameLegsAfter, SameLegsMatch
<1>3. CASE d.closedLoop # enabled
  <2>0. enabled => n >= 2
    BY <1>1
  <2> HIDE DEF enabled
  <2>1. /\ next \in Snapshot /\ next.legResults = d.legResults
        /\ next.controlPoints = d.controlPoints /\ next.closedLoop = enabled
    BY <1>1 DEF Snapshot
  <2> HIDE DEF next, n
  <2>2. /\ LegCount(next) = LegCountOf(n, enabled)
        /\ LegCount(d) = LegCountOf(n, d.closedLoop)
    BY <2>1 DEF LegCount, n
  <2>3. ASSUME NEW i \in 1..LegCount(next), i \notin legs
        PROVE  i \in 1..LegCount(d) /\ LegEnds(next, i) = LegEnds(d, i)
    <3>1. i \in 1..LegCountOf(n, enabled)
      BY <2>2
    <3>2. i \in 1..LegCountOf(n, d.closedLoop)
      BY <1>1, <1>3, <2>0, <2>3, <3>1 DEF LegCountOf, ClosingLeg
    <3> QED
      BY <2>1, <2>2, <3>2 DEF LegEnds
  <2>4. legs \in SUBSET (Nat \ {0})
    BY <1>1 DEF ClosingLeg
  <2>5. LegsMatch(ClampSelection(InvalidateLegs(next, legs)))
    BY <1>1, <2>1, <2>3, <2>4, InvalidateClampMatches
  <2>6. SetLoop(d, closed) = ClampSelection(InvalidateLegs(next, legs))
    BY <1>3 DEF SetLoop, next, enabled, n
  <2> QED
    BY <2>5, <2>6
<1> QED
  BY <1>2, <1>3

(* The places that a leg has to join are places.                           *)
LEMMA LegsHaveEnds ==
  ASSUME NEW d, WellFormed(d), NEW i \in 1..LegCount(d)
  PROVE  LegEnds(d, i) \in Leg
<1>1. /\ Len(d.controlPoints) \in Nat
      /\ \A k \in 1..Len(d.controlPoints) : d.controlPoints[k].at \in Points
  BY SnapshotFields DEF WellFormed, ControlPoint
<1>2. LegCount(d) <= Len(d.controlPoints)
  BY <1>1 DEF LegCount, LegCountOf
<1>3. d.closedLoop \in BOOLEAN
  BY DEF WellFormed, Snapshot
<1>4. /\ i \in 1..Len(d.controlPoints)
      /\ (IF i = Len(d.controlPoints) THEN 1 ELSE i + 1) \in 1..Len(d.controlPoints)
  BY <1>1, <1>2, <1>3 DEF LegCount, LegCountOf
<1> QED
  BY <1>1, <1>4 DEF LegEnds, Leg

(* setLegResult of the leg a router was just asked for.                    *)
LEMMA SetLegMatches ==
  ASSUME NEW d, WellFormed(d), LegsMatch(d), NEW i \in 1..LegCount(d),
         LegEnds(d, i) \in Leg
  PROVE  LegsMatch(SetLeg(d, i, LegEnds(d, i)))
<1> DEFINE e == [d EXCEPT !.legResults[i] = LegEnds(d, i), !.invalidated = @ \ {i}]
<1>1. /\ d \in Snapshot /\ d.legResults \in Seq(LegSlot) /\ LegCount(d) \in Nat
      /\ Len(d.legResults) = LegCount(d) /\ d.invalidated \in SUBSET (Nat \ {0})
  BY SnapshotFields, LegCountIsNat DEF WellFormed, LegArrayFits, Snapshot
<1>2. /\ [d.legResults EXCEPT ![i] = LegEnds(d, i)] \in Seq(LegSlot)
      /\ \A j \in 1..LegCount(d) : [d.legResults EXCEPT ![i] = LegEnds(d, i)][j]
                                      = IF j = i THEN LegEnds(d, i) ELSE d.legResults[j]
  <2>1. LegEnds(d, i) \in LegSlot
    BY DEF LegSlot
  <2> QED
    BY <1>1, <2>1, ExceptSeq
<1>3. /\ e \in Snapshot
      /\ e.legResults = [d.legResults EXCEPT ![i] = LegEnds(d, i)]
      /\ e.controlPoints = d.controlPoints /\ e.closedLoop = d.closedLoop
  BY <1>1, <1>2 DEF Snapshot
<1> HIDE DEF e
<1>4. LegCount(e) = LegCount(d) /\ \A j : LegEnds(e, j) = LegEnds(d, j)
  BY <1>3 DEF LegCount, LegEnds
<1>5. LegsMatch(e)
  BY <1>2, <1>3, <1>4 DEF LegsMatch
<1>6. LegsMatch(ClampSelection(e))
  BY <1>3, <1>5, SameLegsAfter, SameLegsMatch
<1> QED
  BY <1>6 DEF SetLeg, e

-----------------------------------------------------------------------------
(* The reducer, its history and its publication.                           *)

EditableVersion == { d \in Snapshot : WellFormed(d) /\ d.status = "draft" }

IInv ==
    /\ WellFormed(draft)
    /\ undoStack \in Seq(EditableVersion)
    /\ redoStack \in Seq(EditableVersion)
    /\ HistoryIsBounded
    /\ RevisionsNameVersions
    /\ PublishedRouteIsWhole

(* pushHistory within the limit: the entry comes last, and the oldest one  *)
(* gives way when the history is full.                                     *)
LEMMA PushElements ==
  ASSUME NEW S, NEW s \in Seq(S), NEW e \in S,
         HistoryLimit \in Nat \ {0}, Len(s) <= HistoryLimit
  PROVE  \E dropped \in {0, 1} :
            /\ dropped = IF Len(s) < HistoryLimit THEN 0 ELSE 1
            /\ PushHistory(s, e) \in Seq(S)
            /\ Len(PushHistory(s, e)) = Len(s) + 1 - dropped
            /\ PushHistory(s, e)[Len(s) + 1 - dropped] = e
            /\ \A i \in 1..(Len(s) - dropped) : PushHistory(s, e)[i] = s[i + dropped]
<1> DEFINE dropped == IF Len(s) < HistoryLimit THEN 0 ELSE 1
           all     == Append(s, e)
           kept    == SubSeq(all, 1 + dropped, Len(s) + 1)
<1>1. /\ all \in Seq(S) /\ Len(all) = Len(s) + 1
      /\ all[Len(s) + 1] = e /\ \A i \in 1..Len(s) : all[i] = s[i]
  OBVIOUS
<1>2. /\ dropped \in {0, 1} /\ Len(s) \in Nat /\ Len(s) >= dropped
      /\ Len(s) + 1 > HistoryLimit <=> dropped = 1
  OBVIOUS
<1>3. PushHistory(s, e) = kept
  <2>1. (IF Len(all) > HistoryLimit THEN Len(all) - HistoryLimit + 1 ELSE 1) = 1 + dropped
    BY <1>1, <1>2
  <2> HIDE DEF dropped
  <2> QED
    BY <1>1, <2>1, Zenon DEF PushHistory
<1> HIDE DEF all, dropped
<1>4. /\ kept \in Seq(S) /\ Len(kept) = Len(s) + 1 - dropped
      /\ \A i \in 1..(Len(s) + 1 - dropped) : kept[i] = all[i + dropped]
  BY <1>1, <1>2
<1> HIDE DEF kept
<1>5. kept[Len(s) + 1 - dropped] = e
  <2>1. Len(s) + 1 - dropped \in 1..(Len(s) + 1 - dropped)
    BY <1>2
  <2> QED
    BY <1>1, <1>2, <1>4, <2>1
<1>6. ASSUME NEW i \in 1..(Len(s) - dropped) PROVE kept[i] = s[i + dropped]
  <2>1. i \in 1..(Len(s) + 1 - dropped) /\ i + dropped \in 1..Len(s)
    BY <1>2
  <2> QED
    BY <1>1, <1>4, <2>1
<1> QED
  BY <1>2, <1>3, <1>4, <1>5, <1>6 DEF dropped

(* The revisions of a stack of editable versions.                          *)
LEMMA StackRevisions ==
  ASSUME NEW s \in Seq(EditableVersion)
  PROVE  /\ Len(s) \in Nat
         /\ \A i \in 1..Len(s) : s[i] \in EditableVersion /\ s[i].revision \in Nat
<1>1. \A d \in EditableVersion : d.revision \in Nat
  BY DEF EditableVersion, Snapshot
<1> QED
  BY <1>1

(* A version of the history, once it is the draft again.                   *)
LEMMA ReturningVersion ==
  ASSUME NEW d, WellFormed(d), d.status = "draft", NEW r \in Nat
  PROVE  LET e == [d EXCEPT !.revision = r + 1]
         IN  /\ WellFormed(e) /\ e.status = "draft" /\ e.revision = r + 1
<1>1. "draft" \in Statuses /\ r + 1 \in Nat
  BY DEF Statuses
<1>2. [d EXCEPT !.revision = r + 1] = Restamped(d, "draft", r + 1)
  BY DEF Restamped, WellFormed, Snapshot
<1> QED
  BY <1>1, <1>2, RestampedFits

(* An edit that commit() accepts.                                          *)
LEMMA CommitKeepsInv ==
  ASSUME IInv, NEW next, Editable => WellFormed(next),
         Editable => next.status = draft.status, Commit(next)
  PROVE  IInv'
<1> DEFINE pushed == PushHistory(undoStack, draft)
<1>1. /\ draft \in EditableVersion /\ draft.revision \in Nat
      /\ undoStack \in Seq(EditableVersion) /\ redoStack \in Seq(EditableVersion)
  BY DEF IInv, WellFormed, EditableVersion, Snapshot, Commit, Editable
<1>2. HistoryLimit \in Nat \ {0} /\ Len(undoStack) \in Nat /\ Len(undoStack) <= HistoryLimit
  BY <1>1, RouteDraftAssumption DEF IInv, HistoryIsBounded
<1>3. PICK dropped \in {0, 1} :
        /\ dropped = IF Len(undoStack) < HistoryLimit THEN 0 ELSE 1
        /\ pushed \in Seq(EditableVersion)
        /\ Len(pushed) = Len(undoStack) + 1 - dropped
        /\ pushed[Len(undoStack) + 1 - dropped] = draft
        /\ \A i \in 1..(Len(undoStack) - dropped) : pushed[i] = undoStack[i + dropped]
  <2>1. draft \in EditableVersion /\ undoStack \in Seq(EditableVersion)
    BY <1>1
  <2> QED
    BY <1>2, <2>1, PushElements
<1> HIDE DEF pushed
<1>4. /\ WellFormed(draft') /\ draft'.status = "draft"
      /\ draft'.revision = draft.revision + 1
  <2>1. WellFormed(next) /\ next.status = "draft"
    BY DEF Commit, Editable
  <2>2. draft' = [next EXCEPT !.revision = draft.revision + 1]
    BY DEF Commit
  <2> QED
    BY <1>1, <2>1, <2>2, ReturningVersion
<1>5. undoStack' = pushed /\ redoStack' = << >>
  BY DEF Commit, pushed
<1>6. HistoryIsBounded'
  BY <1>2, <1>3, <1>5 DEF HistoryIsBounded
<1>7. RevisionsNameVersions'
  <2>1. \A i \in 1..Len(undoStack) : undoStack[i].revision \in Nat
    BY <1>1, StackRevisions
  <2>2. \A i \in 1..Len(undoStack) : undoStack[i].revision < draft.revision
    BY DEF IInv, RevisionsNameVersions
  <2>3. \A i, j \in 1..Len(undoStack) :
           i < j => undoStack[i].revision < undoStack[j].revision
    BY DEF IInv, RevisionsNameVersions
  <2>4. \A i \in 1..Len(pushed) :
           \/ i = Len(pushed) /\ pushed[i].revision = draft.revision
           \/ /\ i < Len(pushed) /\ i + dropped \in 1..Len(undoStack)
              /\ pushed[i].revision = undoStack[i + dropped].revision
    BY <1>2, <1>3
  <2>5. ASSUME NEW i \in 1..Len(pushed) PROVE pushed[i].revision < draft.revision + 1
    <3>1. CASE pushed[i].revision = draft.revision
      BY <1>1, <3>1
    <3>2. CASE /\ i + dropped \in 1..Len(undoStack)
               /\ pushed[i].revision = undoStack[i + dropped].revision
      <4>1. /\ undoStack[i + dropped].revision \in Nat
            /\ undoStack[i + dropped].revision < draft.revision
        BY <2>1, <2>2, <3>2
      <4>2. draft.revision \in Nat
        BY <1>1
      <4> QED
        BY <3>2, <4>1, <4>2
    <3> QED
      BY <2>4, <3>1, <3>2
  <2>6. ASSUME NEW i \in 1..Len(pushed), NEW j \in 1..Len(pushed), i < j
        PROVE  pushed[i].revision < pushed[j].revision
    <3>1. /\ i < Len(pushed) /\ i + dropped \in 1..Len(undoStack)
          /\ pushed[i].revision = undoStack[i + dropped].revision
      BY <1>3, <2>4, <2>6
    <3>2. CASE j = Len(pushed) /\ pushed[j].revision = draft.revision
      BY <2>2, <3>1, <3>2
    <3>3. CASE /\ j + dropped \in 1..Len(undoStack)
               /\ pushed[j].revision = undoStack[j + dropped].revision
      <4>1. i + dropped < j + dropped
        BY <2>6
      <4> QED
        BY <2>3, <3>1, <3>3, <4>1
    <3> QED
      BY <2>4, <3>2, <3>3
  <2> QED
    BY <1>4, <1>5, <2>5, <2>6 DEF RevisionsNameVersions
<1> QED
  BY <1>3, <1>4, <1>5, <1>6, <1>7 DEF IInv, PublishedRouteIsWhole

(* A change in place.                                                      *)
LEMMA MutateKeepsInv ==
  ASSUME IInv, NEW next, Editable => WellFormed(next),
         Editable => next.status = draft.status /\ next.revision = draft.revision,
         Mutate(next)
  PROVE  IInv'
<1>1. /\ WellFormed(draft') /\ draft'.status = "draft"
      /\ draft'.revision = draft.revision
      /\ undoStack' = undoStack /\ redoStack' = redoStack
  BY DEF Mutate, Editable
<1> QED
  BY <1>1 DEF IInv, PublishedRouteIsWhole, HistoryIsBounded, RevisionsNameVersions

LEMMA UndoKeepsInv == IInv /\ UndoDraft => IInv'
<1> SUFFICES ASSUME IInv, UndoDraft PROVE IInv'
  OBVIOUS
<1> DEFINE n == Len(undoStack)
           m == Len(redoStack)
           r == draft.revision
<1>1. /\ draft \in EditableVersion /\ r \in Nat /\ n \in Nat \ {0} /\ m \in Nat
      /\ undoStack \in Seq(EditableVersion) /\ redoStack \in Seq(EditableVersion)
  <2>1. undoStack \in Seq(EditableVersion) /\ redoStack \in Seq(EditableVersion)
    BY DEF IInv
  <2>2. draft \in EditableVersion /\ r \in Nat
    BY DEF IInv, WellFormed, EditableVersion, Snapshot, UndoDraft, Editable
  <2>3. n \in Nat /\ m \in Nat /\ n # 0
    BY <2>1 DEF UndoDraft
  <2> QED
    BY <2>1, <2>2, <2>3
<1>2. undoStack[n] \in EditableVersion
  BY <1>1
<1>3. /\ WellFormed(draft') /\ draft'.status = "draft" /\ draft'.revision = r + 1
  <2>1. WellFormed(undoStack[n]) /\ undoStack[n].status = "draft"
    BY <1>2 DEF EditableVersion
  <2>2. draft' = [undoStack[n] EXCEPT !.revision = r + 1]
    BY DEF UndoDraft
  <2> QED
    BY <1>1, <2>1, <2>2, ReturningVersion
<1>4. /\ undoStack' \in Seq(EditableVersion) /\ Len(undoStack') = n - 1
      /\ \A i \in 1..(n - 1) : undoStack'[i] = undoStack[i]
  BY <1>1, SMTT(30) DEF UndoDraft
<1>5. /\ redoStack' \in Seq(EditableVersion) /\ Len(redoStack') = m + 1
      /\ redoStack'[1] = draft
      /\ \A i \in 2..(m + 1) : redoStack'[i] = redoStack[i - 1]
  BY <1>1 DEF UndoDraft
<1>6. HistoryIsBounded'
  BY <1>1, <1>4, <1>5 DEF IInv, HistoryIsBounded
<1>7. RevisionsNameVersions'
  <2>1. /\ \A i \in 1..n : undoStack[i].revision \in Nat
        /\ \A i \in 1..m : redoStack[i].revision \in Nat
    BY <1>1, StackRevisions
  <2>2. /\ \A i \in 1..n : undoStack[i].revision < r
        /\ \A i \in 1..m : redoStack[i].revision < r
        /\ \A i, j \in 1..n : i < j => undoStack[i].revision < undoStack[j].revision
        /\ \A i, j \in 1..m : i < j => redoStack[i].revision > redoStack[j].revision
        /\ \A i \in 1..n, j \in 1..m : undoStack[i].revision # redoStack[j].revision
    BY DEF IInv, RevisionsNameVersions
  <2>3. \A i \in 1..(m + 1) : i = 1 \/ (i - 1 \in 1..m /\ i \in 2..(m + 1))
    <3> HIDE DEF m
    <3>1. m \in Nat
      BY <1>1
    <3> QED
      BY <3>1
  <2>4. ASSUME NEW i \in 1..(m + 1) PROVE redoStack'[i].revision < r + 1
    <3>1. CASE i = 1
      BY <1>1, <1>5, <3>1
    <3>2. CASE i - 1 \in 1..m /\ i \in 2..(m + 1)
      <4>1. redoStack'[i] = redoStack[i - 1]
        BY <1>5, <3>2
      <4>2. redoStack[i - 1].revision \in Nat /\ redoStack[i - 1].revision < r
        BY <2>1, <2>2, <3>2
      <4> QED
        BY <1>1, <4>1, <4>2
    <3> QED
      BY <2>3, <3>1, <3>2
  <2>5. \A i, j \in 1..(m + 1) : i < j => redoStack'[i].revision > redoStack'[j].revision
    <3> SUFFICES ASSUME NEW i \in 1..(m + 1), NEW j \in 1..(m + 1), i < j
                 PROVE  redoStack'[i].revision > redoStack'[j].revision
      OBVIOUS
    <3>1. j - 1 \in 1..m /\ redoStack'[j] = redoStack[j - 1]
      BY <1>1, <1>5, <2>3
    <3>2. CASE i = 1
      BY <1>1, <1>5, <2>1, <2>2, <3>1, <3>2
    <3>3. CASE i # 1
      <4>1. i - 1 \in 1..m /\ redoStack'[i] = redoStack[i - 1] /\ i - 1 < j - 1
        BY <1>1, <1>5, <2>3, <3>3
      <4> QED
        BY <2>2, <3>1, <4>1
    <3> QED
      BY <3>2, <3>3
  <2>6. \A i \in 1..(n - 1), j \in 1..(m + 1) :
           undoStack'[i].revision # redoStack'[j].revision
    <3> SUFFICES ASSUME NEW i \in 1..(n - 1), NEW j \in 1..(m + 1)
                 PROVE  undoStack'[i].revision # redoStack'[j].revision
      OBVIOUS
    <3>1. i \in 1..n /\ undoStack'[i] = undoStack[i]
      BY <1>1, <1>4
    <3>2. CASE j = 1
      BY <1>1, <1>5, <2>1, <2>2, <3>1, <3>2
    <3>3. CASE j # 1
      BY <1>5, <2>2, <2>3, <3>1, <3>3
    <3> QED
      BY <3>2, <3>3
  <2>7. \A i \in 1..(n - 1) : undoStack'[i].revision < r + 1
    BY <1>1, <1>4, <2>1, <2>2
  <2>8. \A i, j \in 1..(n - 1) : i < j => undoStack'[i].revision < undoStack'[j].revision
    BY <1>1, <1>4, <2>2
  <2> QED
    BY <1>3, <1>4, <1>5, <2>4, <2>5, <2>6, <2>7, <2>8 DEF RevisionsNameVersions
<1> QED
  BY <1>3, <1>4, <1>5, <1>6, <1>7 DEF IInv, PublishedRouteIsWhole

(* Redo never finds the undo stack full, because the two share the bound.  *)
LEMMA RedoKeepsInv == IInv /\ RedoDraft => IInv'
<1> SUFFICES ASSUME IInv, RedoDraft PROVE IInv'
  OBVIOUS
<1> DEFINE n      == Len(undoStack)
           m      == Len(redoStack)
           r      == draft.revision
           pushed == PushHistory(undoStack, draft)
<1>1. /\ draft \in EditableVersion /\ r \in Nat /\ n \in Nat /\ m \in Nat \ {0}
      /\ undoStack \in Seq(EditableVersion) /\ redoStack \in Seq(EditableVersion)
  BY SMTT(30) DEF IInv, WellFormed, EditableVersion, Snapshot, RedoDraft, Editable
<1>2. HistoryLimit \in Nat \ {0} /\ n < HistoryLimit /\ n + m <= HistoryLimit
  BY <1>1, RouteDraftAssumption DEF IInv, HistoryIsBounded
<1>3. /\ WellFormed(draft') /\ draft'.status = "draft" /\ draft'.revision = r + 1
  <2>1. Head(redoStack) \in EditableVersion
    BY <1>1
  <2>2. WellFormed(Head(redoStack)) /\ Head(redoStack).status = "draft"
    BY <2>1 DEF EditableVersion
  <2>3. draft' = [Head(redoStack) EXCEPT !.revision = r + 1]
    BY DEF RedoDraft
  <2> QED
    BY <1>1, <2>2, <2>3, ReturningVersion
<1>4. /\ pushed \in Seq(EditableVersion) /\ Len(pushed) = n + 1
      /\ pushed[n + 1] = draft
      /\ \A i \in 1..n : pushed[i] = undoStack[i]
  <2>1. n <= HistoryLimit
    BY <1>1, <1>2
  <2>2. PICK dropped \in {0, 1} :
          /\ dropped = IF n < HistoryLimit THEN 0 ELSE 1
          /\ pushed \in Seq(EditableVersion)
          /\ Len(pushed) = n + 1 - dropped
          /\ pushed[n + 1 - dropped] = draft
          /\ \A i \in 1..(n - dropped) : pushed[i] = undoStack[i + dropped]
    BY <1>1, <1>2, <2>1, PushElements
  <2> HIDE DEF pushed
  <2> QED
    BY <1>1, <1>2, <2>2
<1>5. undoStack' = pushed
  BY DEF RedoDraft
<1> HIDE DEF pushed
<1>6. /\ redoStack' \in Seq(EditableVersion) /\ Len(redoStack') = m - 1
      /\ \A i \in 1..(m - 1) : redoStack'[i] = redoStack[i + 1]
  BY <1>1 DEF RedoDraft
<1>7. HistoryIsBounded'
  BY <1>1, <1>2, <1>4, <1>5, <1>6 DEF HistoryIsBounded
<1>8. RevisionsNameVersions'
  <2>1. /\ \A i \in 1..n : undoStack[i].revision \in Nat
        /\ \A i \in 1..m : redoStack[i].revision \in Nat
    BY <1>1, StackRevisions
  <2>2. /\ \A i \in 1..n : undoStack[i].revision < r
        /\ \A i \in 1..m : redoStack[i].revision < r
        /\ \A i, j \in 1..n : i < j => undoStack[i].revision < undoStack[j].revision
        /\ \A i, j \in 1..m : i < j => redoStack[i].revision > redoStack[j].revision
        /\ \A i \in 1..n, j \in 1..m : undoStack[i].revision # redoStack[j].revision
    BY DEF IInv, RevisionsNameVersions
  <2>3. \A i \in 1..(n + 1) : i = n + 1 \/ i \in 1..n
    BY <1>1
  <2>4. \A i \in 1..(m - 1) : i + 1 \in 1..m
    BY <1>1
  <2>5. \A i \in 1..(n + 1) : undoStack'[i].revision < r + 1
    BY <1>1, <1>4, <1>5, <2>1, <2>2, <2>3, SMTT(30)
  <2>6. ASSUME NEW i \in 1..(m - 1)
        PROVE  redoStack'[i].revision < r + 1
    <3>1. redoStack'[i] = redoStack[i + 1]
      BY <1>6
    <3>2. redoStack[i + 1].revision \in Nat /\ redoStack[i + 1].revision < r
      BY <2>1, <2>2, <2>4
    <3> QED
      BY <1>1, <3>1, <3>2
  <2>7. \A i, j \in 1..(n + 1) : i < j => undoStack'[i].revision < undoStack'[j].revision
    BY <1>1, <1>4, <1>5, <2>2, <2>3, SMTT(30)
  <2>8. ASSUME NEW i \in 1..(m - 1), NEW j \in 1..(m - 1), i < j
        PROVE  redoStack'[i].revision > redoStack'[j].revision
    <3>1. i + 1 \in 1..m /\ j + 1 \in 1..m /\ i + 1 < j + 1
      BY <2>4, <2>8
    <3>2. redoStack'[i] = redoStack[i + 1] /\ redoStack'[j] = redoStack[j + 1]
      BY <1>6
    <3> QED
      BY <2>2, <3>1, <3>2
  <2>9. ASSUME NEW i \in 1..(n + 1), NEW j \in 1..(m - 1)
        PROVE  undoStack'[i].revision # redoStack'[j].revision
    <3>1. j + 1 \in 1..m /\ redoStack'[j] = redoStack[j + 1]
      BY <1>6, <2>4
    <3>2. CASE i = n + 1
      BY <1>1, <1>4, <1>5, <2>1, <2>2, <3>1, <3>2
    <3>3. CASE i \in 1..n
      BY <1>4, <1>5, <2>2, <3>1, <3>3
    <3> QED
      BY <2>3, <3>2, <3>3
  <2> QED
    BY <1>3, <1>4, <1>5, <1>6, <2>5, <2>6, <2>7, <2>8, <2>9 DEF RevisionsNameVersions
<1> QED
  BY <1>3, <1>4, <1>5, <1>6, <1>7, <1>8 DEF IInv, PublishedRouteIsWhole

(* A step of the publication lifecycle.                                    *)
LEMMA TransitionKeepsInv ==
  ASSUME IInv, NEW from, NEW to \in Statuses, Transition(from, to),
         to # "draft" => Publishable(draft)
  PROVE  IInv'
<1>1. /\ WellFormed(draft) /\ draft \in Snapshot /\ draft.revision \in Nat
      /\ undoStack \in Seq(EditableVersion) /\ redoStack \in Seq(EditableVersion)
  BY DEF IInv, WellFormed, Snapshot
<1>2. draft' = Restamped(draft, to, draft.revision + 1)
  BY <1>1 DEF Transition, Restamped, Snapshot
<1>3. /\ WellFormed(draft') /\ draft'.status = to /\ draft'.revision = draft.revision + 1
      /\ draft'.controlPoints = draft.controlPoints /\ draft'.name = draft.name
      /\ draft'.invalidated = draft.invalidated /\ (HasRoute(draft') <=> HasRoute(draft))
  <2>1. PICK r : r = draft.revision + 1 /\ r \in Nat
    BY <1>1
  <2>2. LET e == Restamped(draft, to, r)
        IN  /\ WellFormed(e) /\ e.status = to /\ e.revision = r
            /\ e.controlPoints = draft.controlPoints /\ e.name = draft.name
            /\ e.invalidated = draft.invalidated /\ (HasRoute(e) <=> HasRoute(draft))
    BY <1>1, <2>1, RestampedFits, SMTT(30)
  <2>3. draft' = Restamped(draft, to, r)
    BY <1>2, <2>1
  <2> QED
    BY <2>1, <2>2, <2>3
<1>4. undoStack' = undoStack /\ redoStack' = redoStack
  BY DEF Transition
<1>5. HistoryIsBounded'
  BY <1>4 DEF IInv, HistoryIsBounded
<1>6. RevisionsNameVersions'
  <2>1. /\ \A i \in 1..Len(undoStack) : undoStack[i].revision \in Nat
        /\ \A i \in 1..Len(redoStack) : redoStack[i].revision \in Nat
    BY <1>1, StackRevisions
  <2>2. \A i \in 1..Len(undoStack) : undoStack[i].revision < draft'.revision
    BY <1>1, <1>3, <2>1 DEF IInv, RevisionsNameVersions
  <2>3. \A i \in 1..Len(redoStack) : redoStack[i].revision < draft'.revision
    BY <1>1, <1>3, <2>1 DEF IInv, RevisionsNameVersions
  <2> QED
    BY <1>4, <2>2, <2>3 DEF IInv, RevisionsNameVersions
<1>7. PublishedRouteIsWhole'
  BY <1>3 DEF PublishedRouteIsWhole, Publishable
<1> QED
  BY <1>1, <1>3, <1>4, <1>5, <1>6, <1>7 DEF IInv

(* Previews and routed legs keep the revision.                             *)
LEMMA RevisionKept ==
  ASSUME NEW d, WellFormed(d)
  PROVE  /\ \A k, p : MovePoint(d, k, p).revision = d.revision
         /\ \A i, leg : SetLeg(d, i, leg).revision = d.revision
<1>1. d \in Snapshot
  BY DEF WellFormed
<1> QED
  BY <1>1 DEF Snapshot, MovePoint, SetLeg, ClampSelection, InvalidateLegs

LEMMA EditKeepsInv == IInv /\ Edit => IInv'
<1> SUFFICES ASSUME IInv, Edit PROVE IInv'
  OBVIOUS
<1>1. WellFormed(draft)
  BY DEF IInv
<1>2. ASSUME NEW name \in Names, SetDraftName(name) PROVE IInv'
  BY <1>1, <1>2, SetNameFits, CommitKeepsInv DEF SetDraftName
<1>3. ASSUME NEW p \in Points, AddControlPoint(p) PROVE IInv'
  BY <1>1, <1>3, AddPointFits, CommitKeepsInv DEF AddControlPoint
<1>4. ASSUME NEW k \in Positions, NEW p \in Points, MoveControlPoint(k, p) PROVE IInv'
  BY <1>1, <1>4, MovePointFits, CommitKeepsInv DEF MoveControlPoint, Positions
<1>5. ASSUME NEW k \in Positions, RemoveControlPoint(k) PROVE IInv'
  BY <1>1, <1>5, RemovePointFits, CommitKeepsInv DEF RemoveControlPoint, Positions
<1>6. ASSUME NEW k \in Positions, NEW t \in Positions, ReorderControlPoints(k, t)
      PROVE  IInv'
  BY <1>1, <1>6, ReorderPointFits, CommitKeepsInv DEF ReorderControlPoints, Positions
<1>7. ASSUME NEW closed \in BOOLEAN, SetClosedLoop(closed) PROVE IInv'
  BY <1>1, <1>7, SetLoopFits, CommitKeepsInv DEF SetClosedLoop
<1>8. ASSUME NEW s \in TrimMarks, NEW e \in TrimMarks, TrimDraft(s, e) PROVE IInv'
  <2>1. s \in Nat /\ e \in Nat
    BY RouteDraftAssumption
  <2>2. s <= e /\ e <= TotalMetres(draft) /\ Commit(Trim(draft, s, e))
    BY <1>8 DEF TrimDraft
  <2> QED
    BY <1>1, <2>1, <2>2, TrimFits, CommitKeepsInv
<1>9. ASSUME ResetToFullSelection PROVE IInv'
  <2>1. WellFormed(ResetTrim(draft)) /\ ResetTrim(draft).status = draft.status
    <3>1. 0 <= TotalMetres(draft)
      BY <1>1, TotalIsNat DEF WellFormed
    <3> QED
      BY <1>1, <3>1, TrimFits
  <2> QED
    BY <1>9, <2>1, CommitKeepsInv DEF ResetToFullSelection
<1> QED
  BY <1>2, <1>3, <1>4, <1>5, <1>6, <1>7, <1>8, <1>9 DEF Edit

LEMMA EditInPlaceKeepsInv == IInv /\ EditInPlace => IInv'
<1> SUFFICES ASSUME IInv, EditInPlace PROVE IInv'
  OBVIOUS
<1>1. WellFormed(draft)
  BY DEF IInv
<1>2. ASSUME NEW k \in Positions, NEW p \in Points, SetControlPointPreview(k, p)
      PROVE  IInv'
  BY <1>1, <1>2, MovePointFits, RevisionKept, MutateKeepsInv
     DEF SetControlPointPreview, Positions
<1>3. ASSUME NEW i \in 1..LegCount(draft), SetLegResult(i) PROVE IInv'
  <2>1. LegEnds(draft, i) \in Leg
    BY <1>1, LegsHaveEnds
  <2>2. Mutate(SetLeg(draft, i, LegEnds(draft, i)))
    BY <1>3 DEF SetLegResult
  <2> QED
    BY <1>1, <2>1, <2>2, SetLegFits, RevisionKept, MutateKeepsInv
<1> QED
  BY <1>2, <1>3 DEF EditInPlace

LEMMA LifecycleKeepsInv == IInv /\ Lifecycle => IInv'
<1> SUFFICES ASSUME IInv, Lifecycle PROVE IInv'
  OBVIOUS
<1>1. draft.status # "draft" => Publishable(draft)
  BY DEF IInv, PublishedRouteIsWhole
<1>2. {"draft", "ready", "publishing", "published"} \subseteq Statuses
  BY DEF Statuses
<1>3. CASE PrepareDraftForPublication
  BY <1>2, <1>3, TransitionKeepsInv DEF PrepareDraftForPublication
<1>4. CASE BeginDraftPublication
  BY <1>1, <1>2, <1>4, TransitionKeepsInv DEF BeginDraftPublication, Transition
<1>5. CASE FailDraftPublication
  BY <1>1, <1>2, <1>5, TransitionKeepsInv DEF FailDraftPublication, Transition
<1>6. CASE CompleteDraftPublication
  BY <1>1, <1>2, <1>6, TransitionKeepsInv DEF CompleteDraftPublication, Transition
<1>7. CASE ResumeDraftEditing
  BY <1>2, <1>7, TransitionKeepsInv DEF ResumeDraftEditing
<1> QED
  BY <1>3, <1>4, <1>5, <1>6, <1>7 DEF Lifecycle

LEMMA InitEstablishesInv == Init => IInv
<1> SUFFICES ASSUME Init PROVE IInv
  OBVIOUS
<1>1. WellFormed(draft) /\ draft.status = "draft"
  BY NewDraftFits DEF Init, NewDraft
<1>2. undoStack = << >> /\ redoStack = << >>
  BY DEF Init
<1> QED
  BY <1>1, <1>2, RouteDraftAssumption
     DEF IInv, HistoryIsBounded, RevisionsNameVersions, PublishedRouteIsWhole

(* The inductive invariant holds in every reachable state.                 *)
THEOREM Invariance == Spec => []IInv
<1>1. IInv /\ [Next]_vars => IInv'
  <2> SUFFICES ASSUME IInv, [Next]_vars PROVE IInv'
    OBVIOUS
  <2>1. CASE UNCHANGED vars
    BY <2>1 DEF vars, IInv, HistoryIsBounded, RevisionsNameVersions,
                PublishedRouteIsWhole
  <2> QED
    BY <2>1, EditKeepsInv, EditInPlaceKeepsInv, UndoKeepsInv, RedoKeepsInv,
       LifecycleKeepsInv DEF Next
<1> QED
  BY <1>1, InitEstablishesInv, PTL DEF Spec

(***************************************************************************)
(* What the invariant says of every reachable draft.                       *)
(***************************************************************************)

(* Every version undo or redo may bring back is as well-formed as the      *)
(* draft itself.                                                           *)
LEMMA VersionsFit == IInv => \A d \in Versions : WellFormed(d)
<1> SUFFICES ASSUME IInv, NEW d \in Versions PROVE WellFormed(d)
  OBVIOUS
<1>1. CASE d = draft
  BY <1>1 DEF IInv
<1>2. ASSUME NEW s \in Seq(EditableVersion), d \in Range(s) PROVE WellFormed(d)
  <2>1. PICK i \in 1..Len(s) : d = s[i]
    BY <1>2 DEF Range
  <2> QED
    BY <2>1 DEF EditableVersion
<1> QED
  BY <1>1, <1>2 DEF IInv, Versions

(* The draft and its history keep their types through every edit, undo,    *)
(* redo and step of the publication lifecycle.                             *)
THEOREM TypeCorrect == Spec => []TypeOK
<1>1. IInv => TypeOK
  <2>1. EditableVersion \subseteq Snapshot
    BY DEF EditableVersion
  <2>2. \A s \in Seq(EditableVersion) : s \in Seq(Snapshot)
    BY <2>1
  <2> QED
    BY <2>2 DEF IInv, WellFormed, TypeOK
<1> QED
  BY <1>1, Invariance, PTL

(* addControlPoint never hands out an id that a version of the route still *)
(* holds, though undo and redo move nextControlPointNumber back and forth. *)
THEOREM IdsStayUnique == Spec => []IdsAreUnique
<1>1. IInv => IdsAreUnique
  BY VersionsFit DEF IdsAreUnique, WellFormed
<1> QED
  BY <1>1, Invariance, PTL

(* invalidateLegs and setLegResult leave no hole in the array of legs, in  *)
(* no version of the route.                                                *)
THEOREM NoHoles == Spec => []NoLegHoles
<1>1. IInv => NoLegHoles
  BY VersionsFit DEF NoLegHoles, WellFormed
<1> QED
  BY <1>1, Invariance, PTL

(* clampSelectionToGeometry keeps the trim of every version of the route   *)
(* within it, through edits, previews, late legs, undo and redo.           *)
THEOREM SelectionsFit == Spec => []SelectionWithinRoute
<1>1. IInv => SelectionWithinRoute
  BY VersionsFit DEF SelectionWithinRoute, WellFormed
<1> QED
  BY <1>1, Invariance, PTL

(* Undo and redo together never hold more than historyLimit versions, so   *)
(* that redo pushes none out.                                              *)
THEOREM HistoryStaysBounded == Spec => []HistoryIsBounded
<1>1. IInv => HistoryIsBounded
  BY DEF IInv
<1> QED
  BY <1>1, Invariance, PTL

(* A revision number is never given to two versions of the route.          *)
THEOREM RevisionsStayDistinct == Spec => []RevisionsNameVersions
<1>1. IInv => RevisionsNameVersions
  BY DEF IInv
<1> QED
  BY <1>1, Invariance, PTL

(* No step of the lifecycle, and no edit, leaves a route that is ready,    *)
(* under publication or published with a missing leg, an invalidated leg,  *)
(* no name or fewer than two points.                                       *)
THEOREM PublicationIsWhole == Spec => []PublishedRouteIsWhole
<1>1. IInv => PublishedRouteIsWhole
  BY DEF IInv
<1> QED
  BY <1>1, Invariance, PTL

(***************************************************************************)
(* The two stacks as one timeline.                                         *)
(***************************************************************************)

Contents == { Content(d) : d \in Snapshot }

(* Timeline, of stacks and a draft that are given.                         *)
TimelineOf(undo, d, redo) ==
    [ i \in 1..(Len(undo) + 1 + Len(redo)) |->
        IF i <= Len(undo) THEN Content(undo[i])
        ELSE IF i = Len(undo) + 1 THEN Content(d)
        ELSE Content(redo[i - Len(undo) - 1]) ]

(* The entries of a timeline: the past, the current one, the future.       *)
LEMMA TimelineElements ==
  ASSUME NEW undo \in Seq(Snapshot), NEW d \in Snapshot, NEW redo \in Seq(Snapshot)
  PROVE  LET t == TimelineOf(undo, d, redo)
         IN  /\ t \in Seq(Contents)
             /\ Len(t) = Len(undo) + 1 + Len(redo)
             /\ \A i \in 1..Len(undo) : t[i] = Content(undo[i])
             /\ t[Len(undo) + 1] = Content(d)
             /\ \A i \in 1..Len(redo) : t[Len(undo) + 1 + i] = Content(redo[i])
<1> DEFINE t == TimelineOf(undo, d, redo)
           n == Len(undo)
           m == Len(redo)
<1>1. n \in Nat /\ m \in Nat /\ n + 1 + m \in Nat
  OBVIOUS
<1>2. \A v \in Snapshot : Content(v) \in Contents
  BY DEF Contents
<1>3. /\ \A i \in 1..n : undo[i] \in Snapshot
      /\ \A i \in 1..m : redo[i] \in Snapshot
  OBVIOUS
<1>4. \A i \in 1..(n + 1 + m) :
         t[i] = IF i <= n THEN Content(undo[i])
                ELSE IF i = n + 1 THEN Content(d) ELSE Content(redo[i - n - 1])
  BY DEF TimelineOf
<1>5. DOMAIN t = 1..(n + 1 + m) /\ t = [i \in 1..(n + 1 + m) |-> t[i]]
  BY DEF TimelineOf
<1> HIDE DEF t, n, m
<1>6. \A i \in 1..(n + 1 + m) : i \in 1..n \/ i = n + 1 \/ (i > n + 1 /\ i - n - 1 \in 1..m)
  BY <1>1
<1>7. \A i \in 1..(n + 1 + m) : t[i] \in Contents
  <2> TAKE i \in 1..(n + 1 + m)
  <2>1. CASE i \in 1..n
    BY <1>1, <1>2, <1>3, <1>4, <2>1
  <2>2. CASE i = n + 1
    BY <1>1, <1>2, <1>4, <2>2
  <2>3. CASE i > n + 1 /\ i - n - 1 \in 1..m
    BY <1>1, <1>2, <1>3, <1>4, <2>3
  <2> QED
    BY <1>6, <2>1, <2>2, <2>3
<1>8. t \in [1..(n + 1 + m) -> Contents]
  BY <1>5, <1>7
<1>9. t \in Seq(Contents) /\ Len(t) = n + 1 + m
  BY <1>1, <1>8
<1>10. /\ \A i \in 1..n : t[i] = Content(undo[i])
       /\ t[n + 1] = Content(d)
       /\ \A i \in 1..m : t[n + 1 + i] = Content(redo[i])
  BY <1>1, <1>4
<1> QED
  BY <1>9, <1>10 DEF t, n, m

(* Revision and status are no part of what a version shows.                *)
LEMMA ContentKept ==
  ASSUME NEW d \in Snapshot, NEW r, NEW s
  PROVE  /\ Content([d EXCEPT !.revision = r]) = Content(d)
         /\ Content([d EXCEPT !.status = s, !.revision = r]) = Content(d)
BY DEF Snapshot, Content

LEMMA StacksAreSnapshots ==
  /\ IInv => draft \in Snapshot /\ undoStack \in Seq(Snapshot) /\ redoStack \in Seq(Snapshot)
  /\ IInv' => /\ draft' \in Snapshot
             /\ undoStack' \in Seq(Snapshot) /\ redoStack' \in Seq(Snapshot)
<1>1. EditableVersion \subseteq Snapshot
  BY DEF EditableVersion
<1>2. \A s \in Seq(EditableVersion) : s \in Seq(Snapshot)
  BY <1>1
<1> QED
  BY <1>2 DEF IInv, WellFormed

(* Two timelines of one length that agree in every entry are one.          *)
LEMMA SameTimeline ==
  ASSUME NEW s \in Seq(Contents), NEW t \in Seq(Contents), NEW k \in Nat,
         Len(s) = k, Len(t) = k, \A i \in 1..k : s[i] = t[i]
  PROVE  s = t
BY SeqEqual

(* An edit under commit() drops the future and appends.                    *)
LEMMA CommitMoves ==
  ASSUME IInv, IInv', NEW next, Commit(next)
  PROVE  History!Commit
<1> DEFINE n == Len(undoStack)
           t == TimelineOf(undoStack, draft, redoStack)
           u == TimelineOf(undoStack', draft', redoStack')
           pushed == PushHistory(undoStack, draft)
           dropped == IF n < HistoryLimit THEN 0 ELSE 1
           past == SubSeq(t, 1 + dropped, n + 1)
<1>1. /\ draft \in Snapshot /\ undoStack \in Seq(Snapshot) /\ redoStack \in Seq(Snapshot)
      /\ draft' \in Snapshot /\ undoStack' \in Seq(Snapshot) /\ redoStack' \in Seq(Snapshot)
  BY StacksAreSnapshots
<1>2. HistoryLimit \in Nat \ {0} /\ n \in Nat /\ Len(redoStack) \in Nat /\ n <= HistoryLimit
  BY <1>1, RouteDraftAssumption DEF IInv, HistoryIsBounded
<1>3. /\ dropped \in {0, 1} /\ dropped <= n
      /\ (IF n + 1 > HistoryLimit THEN 2 ELSE 1) = 1 + dropped
  BY <1>2
<1>4. /\ Len(pushed) = n + 1 - dropped
      /\ pushed[n + 1 - dropped] = draft
      /\ \A i \in 1..(n - dropped) : pushed[i] = undoStack[i + dropped]
  <2>1. PICK d \in {0, 1} :
          /\ d = dropped
          /\ Len(pushed) = n + 1 - d
          /\ pushed[n + 1 - d] = draft
          /\ \A i \in 1..(n - d) : pushed[i] = undoStack[i + d]
    BY <1>1, <1>2, PushElements
  <2> HIDE DEF dropped, pushed
  <2> QED
    BY <2>1
<1>5. undoStack' = pushed /\ redoStack' = << >>
  BY DEF Commit
<1> HIDE DEF dropped, pushed
<1>6. /\ t \in Seq(Contents) /\ Len(t) = n + 1 + Len(redoStack)
      /\ \A i \in 1..n : t[i] = Content(undoStack[i])
      /\ t[n + 1] = Content(draft)
  BY <1>1, TimelineElements
<1>7. /\ u \in Seq(Contents) /\ Len(u) = n + 2 - dropped
      /\ \A i \in 1..(n + 1 - dropped) : u[i] = Content(pushed[i])
  <2>1. /\ u \in Seq(Contents) /\ Len(u) = Len(undoStack') + 1 + Len(redoStack')
        /\ \A i \in 1..Len(undoStack') : u[i] = Content(undoStack'[i])
    BY <1>1, TimelineElements
  <2>2. Len(undoStack') = n + 1 - dropped /\ Len(redoStack') = 0
    BY <1>4, <1>5
  <2> HIDE DEF u
  <2>3. Len(undoStack') + 1 + Len(redoStack') = n + 2 - dropped
    BY <1>2, <1>3, <2>2
  <2> QED
    BY <1>5, <2>1, <2>2, <2>3
<1> HIDE DEF t, u
<1>8. /\ past \in Seq(Contents) /\ Len(past) = n + 1 - dropped
      /\ \A i \in 1..(n + 1 - dropped) : past[i] = t[i + dropped]
  BY <1>2, <1>3, <1>6
<1> HIDE DEF past
<1>9. \A i \in 1..(n + 1 - dropped) : past[i] = u[i]
  <2> TAKE i \in 1..(n + 1 - dropped)
  <2>1. i = n + 1 - dropped \/ (i \in 1..(n - dropped) /\ i + dropped \in 1..n)
    BY <1>2, <1>3
  <2>2. CASE i = n + 1 - dropped
    <3>1. i + dropped = n + 1
      BY <1>2, <1>3, <2>2
    <3> QED
      BY <1>4, <1>6, <1>7, <1>8, <2>2, <3>1
  <2>3. CASE i \in 1..(n - dropped) /\ i + dropped \in 1..n
    BY <1>4, <1>6, <1>7, <1>8, <2>3
  <2> QED
    BY <2>1, <2>2, <2>3
<1>10. u = Append(past, u[Len(past) + 1])
  <2> DEFINE e == u[Len(past) + 1]
             v == Append(past, e)
             k == n + 2 - dropped
  <2>1. /\ k \in Nat /\ Len(past) + 1 = k /\ Len(past) \in Nat
        /\ \A i \in 1..k : i = k \/ i \in 1..(n + 1 - dropped)
        /\ k \in 1..k
    BY <1>2, <1>3, <1>8
  <2>2. e \in Contents
    BY <1>7, <2>1
  <2>3. /\ v \in Seq(Contents) /\ Len(v) = k /\ v[k] = e
        /\ \A i \in 1..(n + 1 - dropped) : v[i] = past[i]
    <3> HIDE DEF e
    <3>1. /\ v \in Seq(Contents) /\ Len(v) = Len(past) + 1 /\ v[Len(past) + 1] = e
          /\ \A i \in 1..Len(past) : v[i] = past[i]
      BY <1>8, <2>2
    <3> QED
      BY <1>8, <2>1, <3>1
  <2>4. e = u[k]
    BY <2>1
  <2> HIDE DEF e, v, k
  <2>5. \A i \in 1..k : u[i] = v[i]
    BY <1>9, <2>1, <2>3, <2>4
  <2>6. u = v
    BY <1>7, <2>1, <2>3, <2>5, SameTimeline DEF k
  <2> QED
    BY <2>6 DEF v, e
<1>11. /\ Len(undoStack') + 1 = Len(past) + 1
       /\ Len(u) = Len(past) + 1
  BY <1>2, <1>3, <1>4, <1>5, <1>7, <1>8
<1>12. t = Timeline /\ u = Timeline'
  BY DEF t, u, TimelineOf, Timeline
<1>13. past = SubSeq(t, IF n + 1 > HistoryLimit THEN 2 ELSE 1, n + 1)
  BY <1>3 DEF past
<1> QED
  BY <1>10, <1>11, <1>12, <1>13, Zenon DEF History!Commit

(* A change in place and a step of the lifecycle leave the cursor and all  *)
(* that is not under it.                                                   *)
LEMMA InPlaceReplaces ==
  ASSUME IInv, IInv', UNCHANGED << undoStack, redoStack >>
  PROVE  History!Replace
<1> DEFINE n == Len(undoStack)
           m == Len(redoStack)
           t == TimelineOf(undoStack, draft, redoStack)
           u == TimelineOf(undoStack, draft', redoStack)
<1>1. /\ draft \in Snapshot /\ undoStack \in Seq(Snapshot) /\ redoStack \in Seq(Snapshot)
      /\ draft' \in Snapshot /\ n \in Nat /\ m \in Nat
  BY StacksAreSnapshots
<1>2. /\ Len(t) = n + 1 + m
      /\ \A i \in 1..n : t[i] = Content(undoStack[i])
      /\ \A i \in 1..m : t[n + 1 + i] = Content(redoStack[i])
  BY <1>1, TimelineElements
<1>3. /\ Len(u) = n + 1 + m
      /\ \A i \in 1..n : u[i] = Content(undoStack[i])
      /\ \A i \in 1..m : u[n + 1 + i] = Content(redoStack[i])
  BY <1>1, TimelineElements
<1>4. t = Timeline /\ u = Timeline'
  BY DEF TimelineOf, Timeline
<1> HIDE DEF n, m, t, u
<1>5. ASSUME NEW i \in 1..(n + 1 + m), i # n + 1 PROVE u[i] = t[i]
  <2>1. i \in 1..n \/ (i - n - 1 \in 1..m /\ i = n + 1 + (i - n - 1))
    BY <1>1, <1>5
  <2> QED
    BY <1>2, <1>3, <2>1
<1>6. Len(undoStack') + 1 = Len(undoStack) + 1
  OBVIOUS
<1> QED
  BY <1>2, <1>3, <1>4, <1>5, <1>6 DEF History!Replace, n

(* Undo moves the cursor back and nothing else.                            *)
LEMMA UndoMovesBack ==
  ASSUME IInv, IInv', UndoDraft
  PROVE  History!Undo
<1> DEFINE n == Len(undoStack)
           m == Len(redoStack)
           k == n + 1 + m
           t == TimelineOf(undoStack, draft, redoStack)
           u == TimelineOf(undoStack', draft', redoStack')
<1>a. draft \in Snapshot /\ undoStack \in Seq(Snapshot) /\ redoStack \in Seq(Snapshot)
  BY StacksAreSnapshots
<1>b. draft' \in Snapshot /\ undoStack' \in Seq(Snapshot) /\ redoStack' \in Seq(Snapshot)
  BY StacksAreSnapshots
<1>2. n \in Nat \ {0} /\ m \in Nat /\ k \in Nat
  BY <1>a DEF UndoDraft
<1>3. /\ Len(undoStack') = n - 1 /\ Len(redoStack') = m + 1
      /\ \A i \in 1..(n - 1) : undoStack'[i] = undoStack[i]
  BY <1>a, <1>2, SMTT(30) DEF UndoDraft
<1>4. /\ redoStack'[1] = draft
      /\ \A i \in 1..m : redoStack'[i + 1] = redoStack[i]
  BY <1>a, <1>2, SMTT(30) DEF UndoDraft
<1>5. Content(draft') = Content(undoStack[n])
  <2>1. undoStack[n] \in Snapshot
    BY <1>a, <1>2
  <2> QED
    BY <2>1, ContentKept DEF UndoDraft
<1>6. /\ t \in Seq(Contents) /\ Len(t) = k
      /\ \A i \in 1..n : t[i] = Content(undoStack[i])
      /\ t[n + 1] = Content(draft)
      /\ \A i \in 1..m : t[n + 1 + i] = Content(redoStack[i])
  BY <1>a, TimelineElements
<1>7. /\ u \in Seq(Contents) /\ Len(u) = k
      /\ \A i \in 1..(n - 1) : u[i] = Content(undoStack'[i])
      /\ u[n] = Content(draft')
      /\ \A i \in 1..(m + 1) : u[n + i] = Content(redoStack'[i])
  <2>1. /\ u \in Seq(Contents) /\ Len(u) = Len(undoStack') + 1 + Len(redoStack')
        /\ \A i \in 1..Len(undoStack') : u[i] = Content(undoStack'[i])
        /\ u[Len(undoStack') + 1] = Content(draft')
        /\ \A i \in 1..Len(redoStack') : u[Len(undoStack') + 1 + i] = Content(redoStack'[i])
    BY <1>b, TimelineElements
  <2>2. /\ Len(undoStack') + 1 = n
        /\ Len(undoStack') + 1 + Len(redoStack') = k
    BY <1>2, <1>3
  <2> HIDE DEF u, k
  <2> QED
    BY <1>3, <2>1, <2>2
<1>8. t = Timeline /\ u = Timeline'
  BY DEF TimelineOf, Timeline
<1> HIDE DEF n, m, t, u
<1>9. ASSUME NEW i \in 1..k PROVE u[i] = t[i]
  <2>1. \/ i \in 1..(n - 1)
        \/ i = n
        \/ i = n + 1
        \/ i - n - 1 \in 1..m /\ i = n + 1 + (i - n - 1) /\ i = n + (i - n - 1 + 1)
    BY <1>2
  <2>2. CASE i \in 1..(n - 1)
    BY <1>2, <1>3, <1>6, <1>7, <2>2
  <2>3. CASE i = n
    BY <1>2, <1>5, <1>6, <1>7, <2>3
  <2>4. CASE i = n + 1
    BY <1>2, <1>4, <1>6, <1>7, <2>4
  <2>5. ASSUME NEW j \in 1..m, i = n + 1 + j, i = n + (j + 1) PROVE u[i] = t[i]
    <3>1. j + 1 \in 1..(m + 1)
      BY <1>2
    <3>2. u[i] = Content(redoStack'[j + 1])
      BY <1>7, <2>5, <3>1
    <3>3. t[i] = Content(redoStack[j])
      BY <1>6, <2>5
    <3> QED
      BY <1>4, <3>2, <3>3
  <2> QED
    BY <2>1, <2>2, <2>3, <2>4, <2>5
<1>10. u = t
  BY <1>2, <1>6, <1>7, <1>9, SameTimeline
<1>11. /\ Len(undoStack) + 1 > 1
       /\ Len(undoStack') + 1 = Len(undoStack) + 1 - 1
  BY <1>2, <1>3 DEF n
<1> QED
  BY <1>8, <1>10, <1>11 DEF History!Undo

(* Redo moves the cursor forward and nothing else: the stacks never hold   *)
(* so many versions that pushHistory would drop one.                       *)
LEMMA RedoMovesForward ==
  ASSUME IInv, IInv', RedoDraft
  PROVE  History!Redo
<1> DEFINE n == Len(undoStack)
           m == Len(redoStack)
           k == n + 1 + m
           t == TimelineOf(undoStack, draft, redoStack)
           u == TimelineOf(undoStack', draft', redoStack')
           pushed == PushHistory(undoStack, draft)
<1>a. draft \in Snapshot /\ undoStack \in Seq(Snapshot) /\ redoStack \in Seq(Snapshot)
  BY StacksAreSnapshots
<1>b. draft' \in Snapshot /\ undoStack' \in Seq(Snapshot) /\ redoStack' \in Seq(Snapshot)
  BY StacksAreSnapshots
<1>2. n \in Nat /\ m \in Nat \ {0} /\ k \in Nat
  BY <1>a DEF RedoDraft
<1>3. HistoryLimit \in Nat \ {0} /\ n < HistoryLimit
  BY <1>2, RouteDraftAssumption DEF IInv, HistoryIsBounded
<1>4. /\ Len(pushed) = n + 1 /\ pushed[n + 1] = draft
      /\ \A i \in 1..n : pushed[i] = undoStack[i]
  <2>1. PICK dropped \in {0, 1} :
          /\ dropped = IF n < HistoryLimit THEN 0 ELSE 1
          /\ Len(pushed) = n + 1 - dropped
          /\ pushed[n + 1 - dropped] = draft
          /\ \A i \in 1..(n - dropped) : pushed[i] = undoStack[i + dropped]
    <3>1. n <= HistoryLimit
      BY <1>2, <1>3
    <3> QED
      BY <1>a, <1>3, <3>1, PushElements
  <2> HIDE DEF pushed
  <2> QED
    BY <1>2, <1>3, <2>1
<1>5. undoStack' = pushed
  BY DEF RedoDraft
<1> HIDE DEF pushed
<1>6. /\ Len(redoStack') = m - 1
      /\ \A i \in 1..(m - 1) : redoStack'[i] = redoStack[i + 1]
  BY <1>a, <1>2, SMTT(30) DEF RedoDraft
<1>7. Content(draft') = Content(redoStack[1])
  <2>1. Head(redoStack) \in Snapshot /\ Head(redoStack) = redoStack[1]
    BY <1>a, <1>2
  <2> QED
    BY <2>1, ContentKept DEF RedoDraft
<1>8. /\ t \in Seq(Contents) /\ Len(t) = k
      /\ \A i \in 1..n : t[i] = Content(undoStack[i])
      /\ t[n + 1] = Content(draft)
      /\ \A i \in 1..m : t[n + 1 + i] = Content(redoStack[i])
  BY <1>a, TimelineElements
<1>9. /\ u \in Seq(Contents) /\ Len(u) = k
      /\ \A i \in 1..(n + 1) : u[i] = Content(pushed[i])
      /\ u[n + 2] = Content(draft')
      /\ \A i \in 1..(m - 1) : u[n + 2 + i] = Content(redoStack'[i])
  <2>1. /\ u \in Seq(Contents) /\ Len(u) = Len(undoStack') + 1 + Len(redoStack')
        /\ \A i \in 1..Len(undoStack') : u[i] = Content(undoStack'[i])
        /\ u[Len(undoStack') + 1] = Content(draft')
        /\ \A i \in 1..Len(redoStack') : u[Len(undoStack') + 1 + i] = Content(redoStack'[i])
    BY <1>b, TimelineElements
  <2>2. /\ Len(undoStack') = n + 1
        /\ Len(undoStack') + 1 = n + 2
        /\ Len(undoStack') + 1 + Len(redoStack') = k
    <3>1. Len(undoStack') = n + 1 /\ Len(redoStack') = m - 1
      BY <1>4, <1>5, <1>6
    <3> HIDE DEF n, m
    <3> QED
      BY <1>2, <3>1
  <2> HIDE DEF u, k
  <2> QED
    BY <1>5, <1>6, <2>1, <2>2
<1>10. t = Timeline /\ u = Timeline'
  BY DEF TimelineOf, Timeline
<1> HIDE DEF n, m, t, u
<1>11. ASSUME NEW i \in 1..k PROVE u[i] = t[i]
  <2>1. \/ i \in 1..n /\ i \in 1..(n + 1)
        \/ i = n + 1 /\ i \in 1..(n + 1)
        \/ i = n + 2 /\ i = n + 1 + 1
        \/ i - n - 2 \in 1..(m - 1) /\ i = n + 2 + (i - n - 2)
    BY <1>2
  <2>2. CASE i \in 1..n /\ i \in 1..(n + 1)
    BY <1>4, <1>8, <1>9, <2>2
  <2>3. CASE i = n + 1 /\ i \in 1..(n + 1)
    BY <1>4, <1>8, <1>9, <2>3
  <2>4. CASE i = n + 2 /\ i = n + 1 + 1
    <3>1. 1 \in 1..m
      BY <1>2
    <3> QED
      BY <1>7, <1>8, <1>9, <2>4, <3>1
  <2>5. ASSUME NEW j \in 1..(m - 1), i = n + 2 + j PROVE u[i] = t[i]
    <3>1. j + 1 \in 1..m /\ i = n + 1 + (j + 1)
      BY <1>2, <2>5
    <3>2. u[i] = Content(redoStack'[j])
      BY <1>9, <2>5
    <3>3. t[i] = Content(redoStack[j + 1])
      BY <1>8, <3>1
    <3> QED
      BY <1>6, <3>2, <3>3
  <2> QED
    BY <2>1, <2>2, <2>3, <2>4, <2>5
<1>12. u = t
  BY <1>2, <1>8, <1>9, <1>11, SameTimeline
<1>13. /\ Len(undoStack) + 1 < Len(t)
       /\ Len(undoStack') + 1 = Len(undoStack) + 1 + 1
  BY <1>2, <1>4, <1>5, <1>8 DEF n
<1> QED
  BY <1>10, <1>12, <1>13 DEF History!Redo

LEMMA InitStartsTimeline == Init => History!Init
<1> SUFFICES ASSUME Init PROVE History!Init
  OBVIOUS
<1>1. Len(undoStack) = 0 /\ Len(redoStack) = 0 /\ draft = NewDraft
  BY DEF Init
<1>2. Timeline = [ i \in 1..1 |-> Content(NewDraft) ]
  BY <1>1 DEF Timeline
<1>3. << Content(NewDraft) >> = [ i \in 1..1 |-> Content(NewDraft) ]
  OBVIOUS
<1> QED
  BY <1>1, <1>2, <1>3 DEF History!Init

(* Every operation of the route studio is a step of the timeline or none.  *)
LEMMA NextMovesTimeline ==
  IInv /\ IInv' /\ [Next]_vars => [History!Next]_History!vars
<1> SUFFICES ASSUME IInv, IInv', [Next]_vars PROVE [History!Next]_History!vars
  OBVIOUS
<1>1. CASE Edit
  <2>1. \E next : Commit(next)
    BY <1>1 DEF Edit, SetDraftName, AddControlPoint, MoveControlPoint, RemoveControlPoint,
                ReorderControlPoints, SetClosedLoop, TrimDraft, ResetToFullSelection
  <2> QED
    BY <2>1, CommitMoves DEF History!Next
<1>2. CASE EditInPlace
  <2>1. \E next : Mutate(next)
    BY <1>2 DEF EditInPlace, SetControlPointPreview, SetLegResult
  <2> QED
    BY <2>1, InPlaceReplaces DEF Mutate, History!Next
<1>3. CASE UndoDraft
  BY <1>3, UndoMovesBack DEF History!Next
<1>4. CASE RedoDraft
  BY <1>4, RedoMovesForward DEF History!Next
<1>5. CASE Lifecycle
  <2>1. UNCHANGED << undoStack, redoStack >>
    BY <1>5 DEF Lifecycle, PrepareDraftForPublication, BeginDraftPublication,
                FailDraftPublication, CompleteDraftPublication, ResumeDraftEditing, Transition
  <2> QED
    BY <2>1, InPlaceReplaces DEF History!Next
<1>6. CASE UNCHANGED vars
  BY <1>6, InPlaceReplaces DEF vars, History!Next
<1> QED
  BY <1>1, <1>2, <1>3, <1>4, <1>5, <1>6 DEF Next

(* The two stacks of the code implement one timeline with a cursor: an     *)
(* edit drops the future and at most the oldest version, undo and redo     *)
(* lose nothing, and previews, routed legs and the lifecycle touch the     *)
(* current version only.                                                   *)
THEOREM StacksAreATimeline == Spec => ImplementsEditHistory
<1>1. Init => History!Init
  BY InitStartsTimeline
<1>2. IInv /\ IInv' /\ [Next]_vars => [History!Next]_History!vars
  BY NextMovesTimeline
<1> QED
  BY <1>1, <1>2, Invariance, PTL DEF Spec, ImplementsEditHistory, History!Spec

(***************************************************************************)
(* Stale legs.  EditsInvalidateStaleLegs claims this of every step.        *)
(***************************************************************************)
StepMatches ==
    /\ \A d \in Versions : LegsMatch(d)
    /\ Len(draft'.controlPoints) >= Len(draft.controlPoints)
    /\ ~(draft.closedLoop /\ Len(draft.controlPoints) = 2)
    => LegsMatch(draft')

LEMMA CommitMatches ==
  ASSUME NEW next, WellFormed(next), LegsMatch(next), Commit(next)
  PROVE  LegsMatch(draft')
BY SameLegsAfter, SameLegsMatch DEF Commit, WellFormed

LEMMA EditMatches ==
  ASSUME IInv, Edit, LegsMatch(draft),
         Len(draft'.controlPoints) >= Len(draft.controlPoints),
         ~(draft.closedLoop /\ Len(draft.controlPoints) = 2)
  PROVE  LegsMatch(draft')
<1>1. WellFormed(draft) /\ draft \in Snapshot
  BY DEF IInv, WellFormed
<1>2. ASSUME NEW name \in Names, SetDraftName(name) PROVE LegsMatch(draft')
  <2>1. LegsMatch(SetName(draft, name))
    BY <1>1, SameLegsAfter, SameLegsMatch DEF SetName
  <2> QED
    BY <1>1, <1>2, <2>1, SetNameFits, CommitMatches DEF SetDraftName
<1>3. ASSUME NEW p \in Points, AddControlPoint(p) PROVE LegsMatch(draft')
  BY <1>1, <1>3, AddPointFits, AddPointMatches, CommitMatches DEF AddControlPoint
<1>4. ASSUME NEW k \in Positions, NEW p \in Points, MoveControlPoint(k, p)
      PROVE  LegsMatch(draft')
  BY <1>1, <1>4, MovePointFits, MovePointMatches, CommitMatches
     DEF MoveControlPoint, Positions
<1>5. ASSUME NEW k \in Positions, RemoveControlPoint(k) PROVE FALSE
  <2> DEFINE cs == RemoveAt(draft.controlPoints, k)
             n  == Len(draft.controlPoints) - 1
  <2>1. /\ draft.controlPoints \in Seq(ControlPoint) /\ k \in 1..Len(draft.controlPoints)
        /\ Len(draft.controlPoints) \in Nat
    BY <1>1, SnapshotFields DEF Positions
  <2>2. cs \in Seq(ControlPoint) /\ Len(cs) = n
    BY <2>1, RemoveAtElements
  <2> HIDE DEF cs
  <2>3. RemovePoint(draft, k).controlPoints = cs
    <3> DEFINE next == [draft EXCEPT !.controlPoints = cs,
                                     !.closedLoop = draft.closedLoop /\ n >= 2]
               legs == ImpactedByRemoval(k, n, next.closedLoop)
    <3>1. next.controlPoints = cs /\ next \in [DOMAIN draft -> {next[x] : x \in DOMAIN draft}]
      BY <1>1 DEF Snapshot
    <3>2. InvalidateLegs(next, legs).controlPoints = cs
      BY <1>1 DEF Snapshot, InvalidateLegs
    <3>3. ClampSelection(InvalidateLegs(next, legs)).controlPoints = cs
      BY <1>1, <3>2 DEF Snapshot, InvalidateLegs, ClampSelection
    <3> QED
      BY <3>3 DEF RemovePoint, cs
  <2>4. draft'.controlPoints = cs
    <3>1. WellFormed(RemovePoint(draft, k))
      BY <1>1, <2>1, RemovePointFits
    <3> QED
      BY <1>5, <2>3, <3>1 DEF RemoveControlPoint, Commit, WellFormed, Snapshot
  <2> QED
    BY <2>1, <2>2, <2>4
<1>6. ASSUME NEW k \in Positions, NEW t \in Positions, ReorderControlPoints(k, t)
      PROVE  LegsMatch(draft')
  BY <1>1, <1>6, ReorderPointFits, ReorderPointMatches, CommitMatches
     DEF ReorderControlPoints, Positions
<1>7. ASSUME NEW closed \in BOOLEAN, SetClosedLoop(closed) PROVE LegsMatch(draft')
  BY <1>1, <1>7, SetLoopFits, SetLoopMatches, CommitMatches DEF SetClosedLoop
<1>8. ASSUME NEW s \in TrimMarks, NEW e \in TrimMarks, TrimDraft(s, e)
      PROVE  LegsMatch(draft')
  <2>1. LegsMatch(Trim(draft, s, e)) /\ Trim(draft, s, e) \in Snapshot
    <3>1. s \in Nat /\ e \in Nat /\ s <= e /\ e <= TotalMetres(draft)
      BY <1>8, RouteDraftAssumption DEF TrimDraft
    <3> QED
      BY <1>1, <3>1, TrimFits, SameLegsAfter, SameLegsMatch DEF Trim, WellFormed
  <2>2. WellFormed(Trim(draft, s, e))
    <3>1. s \in Nat /\ e \in Nat /\ s <= e /\ e <= TotalMetres(draft)
      BY <1>8, RouteDraftAssumption DEF TrimDraft
    <3> QED
      BY <1>1, <3>1, TrimFits
  <2> QED
    BY <1>8, <2>1, <2>2, CommitMatches DEF TrimDraft
<1>9. ASSUME ResetToFullSelection PROVE LegsMatch(draft')
  <2>1. WellFormed(ResetTrim(draft))
    <3>1. 0 <= TotalMetres(draft)
      BY <1>1, TotalIsNat
    <3> QED
      BY <1>1, <3>1, TrimFits
  <2>2. LegsMatch(ResetTrim(draft))
    BY <1>1, SameLegsAfter, SameLegsMatch DEF ResetTrim
  <2> QED
    BY <1>9, <2>1, <2>2, CommitMatches DEF ResetToFullSelection
<1> QED
  BY <1>2, <1>3, <1>4, <1>5, <1>6, <1>7, <1>8, <1>9 DEF Edit

LEMMA EditInPlaceMatches ==
  ASSUME IInv, EditInPlace, LegsMatch(draft),
         ~(draft.closedLoop /\ Len(draft.controlPoints) = 2)
  PROVE  LegsMatch(draft')
<1>1. WellFormed(draft)
  BY DEF IInv
<1>2. ASSUME NEW k \in Positions, NEW p \in Points, SetControlPointPreview(k, p)
      PROVE  LegsMatch(draft')
  BY <1>1, <1>2, MovePointMatches DEF SetControlPointPreview, Mutate, Positions
<1>3. ASSUME NEW i \in 1..LegCount(draft), SetLegResult(i) PROVE LegsMatch(draft')
  <2>1. LegEnds(draft, i) \in Leg
    BY <1>1, LegsHaveEnds
  <2> QED
    BY <1>1, <1>3, <2>1, SetLegMatches DEF SetLegResult, Mutate
<1> QED
  BY <1>2, <1>3 DEF EditInPlace

(* No edit leaves a leg behind that joins places its points no longer      *)
(* hold and that it did not invalidate, but the removal of a point and the *)
(* edits of a loop of two.                                                 *)
THEOREM StaleLegsAreInvalidated == Spec => EditsInvalidateStaleLegs
<1>1. IInv /\ [Next]_vars => [StepMatches]_vars
  <2> SUFFICES ASSUME IInv, Next, \A d \in Versions : LegsMatch(d),
                      Len(draft'.controlPoints) >= Len(draft.controlPoints),
                      ~(draft.closedLoop /\ Len(draft.controlPoints) = 2)
               PROVE  LegsMatch(draft')
    BY DEF StepMatches
  <2>1. /\ draft \in Snapshot /\ LegsMatch(draft)
        /\ undoStack \in Seq(Snapshot) /\ redoStack \in Seq(Snapshot)
    BY StacksAreSnapshots DEF Versions
  <2>2. CASE Edit
    BY <2>1, <2>2, EditMatches
  <2>3. CASE EditInPlace
    BY <2>1, <2>3, EditInPlaceMatches
  <2>4. CASE UndoDraft
    <3> DEFINE d == undoStack[Len(undoStack)]
    <3>1. Len(undoStack) \in 1..Len(undoStack) /\ d \in Snapshot
      BY <2>1, <2>4 DEF UndoDraft
    <3>2. LegsMatch(d)
      BY <2>1, <3>1 DEF Versions, Range
    <3>3. draft' = [d EXCEPT !.revision = draft.revision + 1]
      BY <2>4 DEF UndoDraft
    <3> QED
      <4>1. SameLegs(d, draft')
        BY <3>1, <3>3, SameLegsAfter
      <4> QED
        BY <3>2, <4>1, SameLegsMatch
  <2>5. CASE RedoDraft
    <3> DEFINE d == Head(redoStack)
    <3>1. 1 \in 1..Len(redoStack) /\ d = redoStack[1] /\ d \in Snapshot
      BY <2>1, <2>5 DEF RedoDraft
    <3>2. LegsMatch(d)
      BY <2>1, <3>1 DEF Versions, Range
    <3>3. draft' = [d EXCEPT !.revision = draft.revision + 1]
      BY <2>5 DEF RedoDraft
    <3> QED
      <4>1. SameLegs(d, draft')
        BY <3>1, <3>3, SameLegsAfter
      <4> QED
        BY <3>2, <4>1, SameLegsMatch
  <2>6. CASE Lifecycle
    <3>1. PICK to, r : draft' = [draft EXCEPT !.status = to, !.revision = r]
      BY <2>6 DEF Lifecycle, PrepareDraftForPublication, BeginDraftPublication,
                  FailDraftPublication, CompleteDraftPublication, ResumeDraftEditing,
                  Transition
    <3>2. SameLegs(draft, draft')
      BY <2>1, <3>1, SameLegsAfter
    <3> QED
      BY <2>1, <3>2, SameLegsMatch
  <2> QED
    BY <2>2, <2>3, <2>4, <2>5, <2>6 DEF Next
<1>2. EditsInvalidateStaleLegs <=> [][StepMatches]_vars
  BY PTL DEF EditsInvalidateStaleLegs, StepMatches
<1> QED
  BY <1>1, <1>2, Invariance, PTL DEF Spec

=============================================================================
