----------------------------- MODULE RouteDraft -----------------------------
(***************************************************************************)
(* The RouteDraft of packages/route-studio/index.js as a state machine:    *)
(* the edits of RouteEdits under the status check and the bounded history  *)
(* of commit() and mutate(), undo and redo, and the publication lifecycle. *)
(*                                                                         *)
(* An operation that throws leaves the draft as it was: its action is not  *)
(* enabled.  setLegResult takes the geometry a client just routed between  *)
(* the current ends of the leg; a router refuses two equal places.         *)
(***************************************************************************)
EXTENDS RouteEdits

CONSTANTS
    HistoryLimit,  \* historyLimit of createDraft
    TrimMarks,     \* distances a trim may start or end at
    MaxPoints,     \* bound: control points a route may have
    MaxRevision    \* bound: revisions a draft may go through

ASSUME RouteDraftAssumption ==
    /\ HistoryLimit \in Nat \ {0}
    /\ TrimMarks \subseteq Nat
    /\ MaxPoints \in Nat
    /\ MaxRevision \in Nat

VARIABLES
    draft,      \* the draft without its history
    undoStack,  \* snapshots, oldest first
    redoStack   \* snapshots, next to redo first

vars == << draft, undoStack, redoStack >>

Init == draft = NewDraft /\ undoStack = <<>> /\ redoStack = <<>>

-----------------------------------------------------------------------------
Editable == draft.status = "draft"

Positions == 1..Len(draft.controlPoints)

(* pushHistory: the last HistoryLimit entries.                             *)
PushHistory(history, entry) ==
    LET all == Append(history, entry)
    IN  SubSeq(all, IF Len(all) > HistoryLimit THEN Len(all) - HistoryLimit + 1 ELSE 1,
               Len(all))

(* commit: an edit that undo can take back.                                *)
Commit(next) ==
    /\ Editable
    /\ draft.revision < MaxRevision
    /\ draft' = [next EXCEPT !.revision = draft.revision + 1]
    /\ undoStack' = PushHistory(undoStack, draft)
    /\ redoStack' = <<>>

SlipMutateAnyStatus(next) == draft' = next /\ UNCHANGED << undoStack, redoStack >>

(* mutate without pushUndo: no new revision and no history.                *)
Mutate(next) ==
    /\ Editable
    /\ draft' = next
    /\ UNCHANGED << undoStack, redoStack >>

SetDraftName(name) == Commit(SetName(draft, name))

AddControlPoint(p) ==
    /\ Len(draft.controlPoints) < MaxPoints
    /\ Commit(AddPoint(draft, p))

MoveControlPoint(k, p) == Commit(MovePoint(draft, k, p))

SetControlPointPreview(k, p) == Mutate(MovePoint(draft, k, p))

RemoveControlPoint(k) == Commit(RemovePoint(draft, k))

ReorderControlPoints(from, target) == Commit(ReorderPoint(draft, from, target))

SetClosedLoop(closed) == Commit(SetLoop(draft, closed))

SetLegResult(i) ==
    LET ends == LegEnds(draft, i)
    IN  ends[1] # ends[2] /\ Mutate(SetLeg(draft, i, ends))

TrimDraft(startM, endM) ==
    /\ startM <= endM /\ endM <= TotalMetres(draft)
    /\ Commit(Trim(draft, startM, endM))

ResetToFullSelection == Commit(ResetTrim(draft))

SlipUndoRestoresRevision ==
    /\ Editable /\ undoStack # <<>>
    /\ draft.revision < MaxRevision
    /\ draft' = undoStack[Len(undoStack)]
    /\ undoStack' = SubSeq(undoStack, 1, Len(undoStack) - 1)
    /\ redoStack' = << draft >> \o redoStack

SlipUndoQueues ==
    /\ Editable /\ undoStack # <<>>
    /\ draft.revision < MaxRevision
    /\ draft' = [undoStack[Len(undoStack)] EXCEPT !.revision = draft.revision + 1]
    /\ undoStack' = SubSeq(undoStack, 1, Len(undoStack) - 1)
    /\ redoStack' = Append(redoStack, draft)

UndoDraft ==
    /\ Editable /\ undoStack # <<>>
    /\ draft.revision < MaxRevision
    /\ draft' = [undoStack[Len(undoStack)] EXCEPT !.revision = draft.revision + 1]
    /\ undoStack' = SubSeq(undoStack, 1, Len(undoStack) - 1)
    /\ redoStack' = << draft >> \o redoStack

RedoDraft ==
    /\ Editable /\ redoStack # <<>>
    /\ draft.revision < MaxRevision
    /\ draft' = [Head(redoStack) EXCEPT !.revision = draft.revision + 1]
    /\ undoStack' = PushHistory(undoStack, draft)
    /\ redoStack' = Tail(redoStack)

-----------------------------------------------------------------------------
(* transitionStatus: the lifecycle keeps the history.                      *)
Transition(from, to) ==
    /\ draft.status \in from
    /\ draft.revision < MaxRevision
    /\ draft' = [draft EXCEPT !.status = to, !.revision = @ + 1]
    /\ UNCHANGED << undoStack, redoStack >>

(* What prepareDraftForPublication and buildPublishPayload require.        *)
Publishable(d) ==
    /\ Len(d.controlPoints) >= 2
    /\ d.invalidated = {}
    /\ d.name # NoName
    /\ HasRoute(d)

PrepareDraftForPublication == Publishable(draft) /\ Transition({"draft"}, "ready")
BeginDraftPublication      == Transition({"ready"}, "publishing")
FailDraftPublication       == Transition({"publishing"}, "ready")
CompleteDraftPublication   == Transition({"publishing"}, "published")
ResumeDraftEditing         == Transition({"ready", "published"}, "draft")

Edit ==
    \/ \E name \in Names : SetDraftName(name)
    \/ \E p \in Points : AddControlPoint(p)
    \/ \E k \in Positions, p \in Points : MoveControlPoint(k, p)
    \/ \E k \in Positions : RemoveControlPoint(k)
    \/ \E k, t \in Positions : ReorderControlPoints(k, t)
    \/ \E closed \in BOOLEAN : SetClosedLoop(closed)
    \/ \E s, e \in TrimMarks : TrimDraft(s, e)
    \/ ResetToFullSelection

EditInPlace ==
    \/ \E k \in Positions, p \in Points : SetControlPointPreview(k, p)
    \/ \E i \in 1..LegCount(draft) : SetLegResult(i)

Lifecycle ==
    \/ PrepareDraftForPublication
    \/ BeginDraftPublication
    \/ FailDraftPublication
    \/ CompleteDraftPublication
    \/ ResumeDraftEditing

Next == Edit \/ EditInPlace \/ UndoDraft \/ RedoDraft \/ Lifecycle

Spec == Init /\ [][Next]_vars

-----------------------------------------------------------------------------
(* The draft and every snapshot of it undo or redo may bring back.         *)
Versions == {draft} \cup Range(undoStack) \cup Range(redoStack)

(* The variables keep their types.                                         *)
TypeOK ==
    /\ draft \in Snapshot
    /\ undoStack \in Seq(Snapshot)
    /\ redoStack \in Seq(Snapshot)

(* Ids name one control point each.  nextControlPointNumber goes back with *)
(* undo and forward with redo, so that ids are handed out again: still no  *)
(* version of the route holds an id twice or one not handed out in it.     *)
IdsAreUnique == \A d \in Versions : DistinctIds(d)

(* The two stacks share one bound: redo never pushes an older edit out,    *)
(* though pushHistory would drop one if it had to.                         *)
HistoryIsBounded == Len(undoStack) + Len(redoStack) <= HistoryLimit

(* A revision names one version: those of the history are all older than   *)
(* the current one and distinct.  A client that drops a routing result     *)
(* because the revision moved on relies on it.                             *)
RevisionsNameVersions ==
    /\ \A i \in 1..Len(undoStack) : undoStack[i].revision < draft.revision
    /\ \A i \in 1..Len(redoStack) : redoStack[i].revision < draft.revision
    /\ \A i, j \in 1..Len(undoStack) :
          i < j => undoStack[i].revision < undoStack[j].revision
    /\ \A i, j \in 1..Len(redoStack) :
          i < j => redoStack[i].revision > redoStack[j].revision
    /\ \A i \in 1..Len(undoStack), j \in 1..Len(redoStack) :
          undoStack[i].revision # redoStack[j].revision

(* The array of legs always has exactly one slot per leg and no hole.      *)
(* getComposedGeometry looks for missing legs with some(), which skips a   *)
(* hole, and would go on to read the length of undefined.                  *)
NoLegHoles == \A d \in Versions : LegArrayFits(d)

(* A route under publication, or published, is a whole one: named, at      *)
(* least two points, every leg routed, none waiting to be routed again.    *)
PublishedRouteIsWhole == draft.status # "draft" => Publishable(draft)

(* The trim of a whole route lies within it, whatever was moved, removed,  *)
(* reordered or routed again since the trim was set.                       *)
SelectionWithinRoute == \A d \in Versions : SelectionFits(d)

-----------------------------------------------------------------------------
(* What a version shows, its revision and its place in the lifecycle apart.*)
Content(d) ==
    << d.name, d.controlPoints, d.closedLoop, d.legResults, d.invalidated,
       d.selection, d.nextNumber >>

Timeline ==
    [ i \in 1..(Len(undoStack) + 1 + Len(redoStack)) |->
        IF i <= Len(undoStack) THEN Content(undoStack[i])
        ELSE IF i = Len(undoStack) + 1 THEN Content(draft)
        ELSE Content(redoStack[i - Len(undoStack) - 1]) ]

History == INSTANCE EditHistory
               WITH timeline <- Timeline, cursor <- Len(undoStack) + 1,
                    FirstContent <- Content(NewDraft)

(* The two stacks implement one timeline with a cursor: an edit drops the  *)
(* future, undo and redo lose nothing, and previews and routed legs touch  *)
(* the current version only.                                               *)
ImplementsEditHistory == History!Spec

(* No edit makes a leg stale that it does not invalidate, but removing a   *)
(* point (the run of LegsFollowControlPoints shows what that does) and     *)
(* moving or reordering the points of a closed loop of two, whose closing  *)
(* leg the code never invalidates.                                         *)
EditsInvalidateStaleLegs ==
    [][ /\ \A d \in Versions : LegsMatch(d)
        /\ Len(draft'.controlPoints) >= Len(draft.controlPoints)
        /\ ~(draft.closedLoop /\ Len(draft.controlPoints) = 2)
        => LegsMatch(draft') ]_vars

(* docs/architecture.md: edits invalidate only adjacent legs and reroute   *)
(* them locally, so that a whole open route follows its control points.    *)
LegsFollowControlPoints ==
    HasRoute(draft) /\ ~draft.closedLoop => LegsMatch(draft)

=============================================================================
