------------------------- MODULE ViewerStudioProofs -------------------------
(***************************************************************************)
(* Theorems of ViewerStudio, for any drawings and trims and any number of  *)
(* edits, routings, request ids and reloads.                               *)
(*                                                                         *)
(* They rest on one inductive invariant, IInv: a routing is told apart by  *)
(* its token, and one that IsCurrent was asked for the draft as it is now; *)
(* while a request is awaited neither the draft nor the dialog changes;    *)
(* and what local storage calls published is stored, since a reload will   *)
(* show it.  ListInv adds what is shown: it needs that a filter makes no   *)
(* duplicates, by induction over the entries of the list.                  *)
(***************************************************************************)
EXTENDS ViewerStudio, FiniteSetTheorems, WellFoundedInduction, TLAPS

Typed ==
    /\ draft \in Draft /\ stored \in Draft \cup {NoDraft}
    /\ token \in Nat /\ timer \in Routing \cup {NoTimer} /\ routings \subseteq Routing
    /\ confirmation \in Confirmation \cup {Nothing} /\ request \in Request \cup {Nothing}
    /\ nextKey \in Nat \ {0}

(* What the router was, or will be, asked for.                             *)
Pending == routings \cup ({timer} \ {NoTimer})

(* x was asked for the draft d, unless d is later, or t, the last token.   *)
AskedFor(x, d, t) ==
    /\ x.token <= t /\ x.changed.status = "draft" /\ x.changed.revision <= d.revision
    /\ x.changed.drawing \in Drawings
    /\ x.token = t /\ x.changed.revision = d.revision =>
          d.status = "draft" /\ d.drawing = x.changed.drawing /\ d.trim = x.changed.trim

PendingAreOfVersions ==
    /\ \A x \in Pending : AskedFor(x, draft, token)
    /\ \A x, y \in Pending : x.token = y.token => x = y
    /\ timer \notin routings

RequestIsCurrent ==
    request # Nothing =>
        confirmation # Nothing /\ request.sent = confirmation /\ request.publishingDraft = draft

StoredIn(d, rows) == d.status = "published" => \E row \in rows : row.body = Payload(d)

StorageIsStored == stored # NoDraft => StoredIn(stored, server)

(* A route that is whole has points to be drawn.                           *)
Drawn(d) == d.whole => d.drawing \in Drawings

WholeIsDrawn == Drawn(draft) /\ (stored # NoDraft => Drawn(stored))

IInv ==
    /\ Typed
    /\ PendingAreOfVersions
    /\ ConfirmationIsCurrent /\ RequestIsCurrent
    /\ PublishedDraftIsStored /\ StorageIsStored /\ WholeIsDrawn

-----------------------------------------------------------------------------
LEMMA InitHolds == Init => IInv
<1> SUFFICES ASSUME Init PROVE IInv
  OBVIOUS
<1>1. NewDraft \in Draft /\ NewDraft.status = "draft" /\ Drawn(NewDraft)
  BY DEF NewDraft, Draft, Drawn
<1>2. Typed
  BY <1>1 DEF Init, Typed
<1>3. PendingAreOfVersions
  BY DEF Init, PendingAreOfVersions, Pending
<1>4. ConfirmationIsCurrent /\ RequestIsCurrent
  BY DEF Init, ConfirmationIsCurrent, RequestIsCurrent
<1>5. PublishedDraftIsStored /\ StorageIsStored /\ WholeIsDrawn
  BY <1>1 DEF Init, PublishedDraftIsStored, StorageIsStored, StoredIn, WholeIsDrawn, Drawn
<1> QED BY <1>2, <1>3, <1>4, <1>5 DEF IInv

LEMMA DraftFields ==
  \A d \in Draft :
    /\ d.status \in {"draft", "ready", "publishing", "published"} /\ d.revision \in Nat
    /\ d.drawing \in Drawings \cup {Few} /\ d.whole \in BOOLEAN /\ d.trim \in Trims \cup {Full}
BY DEF Draft

LEMMA PendingFields ==
  ASSUME Typed
  PROVE  \A x \in Pending : x \in Routing /\ x.token \in Nat /\ x.changed \in Draft
BY DEF Typed, Pending, Routing

(* No routing is asked for or ends, and another draft is a later revision. *)
LEMMA VersionsKept ==
  ASSUME IInv, UNCHANGED << token, timer, routings >>, draft' \in Draft,
         draft' = draft \/ draft'.revision > draft.revision
  PROVE  PendingAreOfVersions'
<1>1. Pending' = Pending
  BY DEF Pending
<1>2. ASSUME NEW x \in Pending PROVE AskedFor(x, draft', token)
  <2>1. AskedFor(x, draft, token)
    BY DEF IInv, PendingAreOfVersions
  <2>2. x.changed.revision \in Nat /\ draft.revision \in Nat /\ draft'.revision \in Nat
    BY PendingFields, DraftFields DEF IInv, Typed
  <2>3. CASE draft' = draft
    BY <2>1, <2>3
  <2>4. CASE draft'.revision > draft.revision
    BY <2>1, <2>2, <2>4 DEF AskedFor
  <2> QED BY <2>3, <2>4
<1> QED BY <1>1, <1>2 DEF IInv, PendingAreOfVersions

(* Of a draft that takes its place the rest of the invariant asks that it  *)
(* is not confirmed or awaited, or is as the confirmation has it.          *)
LEMMA StorageKept ==
  ASSUME IInv, NEW next \in Draft, Drawn(next), UpdateDraft(next), server \subseteq server',
         StoredIn(next, server')
  PROVE  /\ draft' \in Draft /\ stored' \in Draft \cup {NoDraft}
         /\ PublishedDraftIsStored' /\ StorageIsStored' /\ WholeIsDrawn'
<1>1. draft' = next /\ stored' \in {next, stored}
  BY DEF UpdateDraft
<1>2. stored # NoDraft => StoredIn(stored, server')
  BY DEF IInv, StorageIsStored, StoredIn
<1>3. PublishedDraftIsStored'
  BY <1>1 DEF PublishedDraftIsStored, StoredIn
<1>4. StorageIsStored'
  BY <1>1, <1>2 DEF StorageIsStored, StoredIn
<1>5. WholeIsDrawn'
  BY <1>1 DEF IInv, WholeIsDrawn, Drawn
<1> QED BY <1>1, <1>3, <1>4, <1>5 DEF IInv, Typed

(* The controls are enabled only while nothing is confirmed or awaited.    *)
LEMMA NothingPends ==
  ASSUME IInv, draft.status = "draft"
  PROVE  confirmation = Nothing /\ request = Nothing
<1>1. confirmation = Nothing
  BY DEF IInv, ConfirmationIsCurrent
<1> QED BY <1>1 DEF IInv, RequestIsCurrent

(* An edit, trim or save.                                                  *)
LEMMA EditedKeeps ==
  ASSUME IInv, draft.status = "draft",
         NEW next \in Draft, next.status = "draft", Drawn(next), UpdateDraft(next),
         UNCHANGED << confirmation, request, server, nextKey >>, PendingAreOfVersions',
         token' \in Nat, timer' \in Routing \cup {NoTimer}, routings' \subseteq Routing
  PROVE  IInv'
<1>1. StoredIn(next, server')
  BY DEF StoredIn
<1>2. /\ PublishedDraftIsStored' /\ StorageIsStored' /\ WholeIsDrawn'
      /\ draft' \in Draft /\ stored' \in Draft \cup {NoDraft}
  BY <1>1, StorageKept
<1>3. Typed'
  BY <1>2 DEF IInv, Typed
<1>4. ConfirmationIsCurrent' /\ RequestIsCurrent'
  BY NothingPends DEF ConfirmationIsCurrent, RequestIsCurrent
<1> QED BY <1>2, <1>3, <1>4 DEF IInv

LEMMA ApplyEditKeeps ==
  ASSUME IInv, NEW drawing \in Drawings \cup {Few}, NEW whole \in BOOLEAN, NEW trim \in Trims \cup {Full},
         ApplyEdit(drawing, whole, trim)
  PROVE  IInv'
<1> DEFINE changed == [draft EXCEPT !.revision = @ + 1, !.drawing = drawing, !.whole = whole, !.trim = trim]
<1>1. /\ draft.status = "draft" /\ UpdateDraft(changed) /\ RouteChangedDraft(changed)
      /\ UNCHANGED << routings, confirmation, request, server, nextKey >>
  BY DEF ApplyEdit, Editable, api
<1>2. draft \in Draft /\ token \in Nat /\ timer \in Routing \cup {NoTimer} /\ routings \subseteq Routing
  BY DEF IInv, Typed
<1>3. /\ changed \in Draft /\ changed.status = "draft" /\ changed.revision = draft.revision + 1
      /\ draft.revision \in Nat
  <2> DEFINE n == draft.revision + 1
  <2>1. n \in Nat /\ draft.revision \in Nat
    BY <1>2, DraftFields
  <2> HIDE DEF n
  <2>2. [draft EXCEPT !.revision = n, !.drawing = drawing, !.whole = whole, !.trim = trim] \in Draft
    BY <1>2, <2>1 DEF Draft
  <2> QED BY <1>1, <1>2, <2>1, <2>2 DEF n, Draft
<1>0. Drawn(changed) /\ changed.drawing = drawing
  BY <1>1, <1>2 DEF ApplyEdit, Draft, Drawn
<1>4. draft' = changed
  BY <1>1 DEF UpdateDraft
<1> HIDE DEF changed
<1>5. CASE AskForRouting(changed) /\ changed.drawing # Few
  <2> DEFINE new == [token |-> token + 1, changed |-> changed]
  <2>1. token' = token + 1 /\ timer' = new /\ routings' = routings
    BY <1>1, <1>5 DEF AskForRouting
  <2>2. new \in Routing /\ new.token = token + 1 /\ new.changed = changed
    BY <1>2, <1>3 DEF Routing
  <2> HIDE DEF new
  <2>3. \A x \in Pending' : x \in Pending \/ x = new
    BY <2>1 DEF Pending
  <2>4. ASSUME NEW x \in Pending PROVE x.token < token' /\ AskedFor(x, draft', token')
    <3>1. /\ x.token <= token /\ x.changed.status = "draft" /\ x.changed.revision <= draft.revision
          /\ x.changed.drawing \in Drawings
      BY DEF IInv, PendingAreOfVersions, AskedFor
    <3>2. x.token \in Nat /\ x.changed.revision \in Nat
      BY <1>2, PendingFields, DraftFields DEF IInv
    <3>3. x.token < token' /\ x.changed.revision < draft'.revision
      BY <1>2, <1>3, <1>4, <2>1, <3>1, <3>2
    <3> QED BY <3>1, <3>2, <3>3, <1>2, <1>3, <1>4, <2>1 DEF AskedFor
  <2>5. AskedFor(new, draft', token')
    <3>1. changed.drawing \in Drawings
      BY <1>3, <1>5, DraftFields
    <3> QED BY <1>2, <1>3, <1>4, <2>1, <2>2, <3>1 DEF AskedFor
  <2>6. \A x \in Pending' : AskedFor(x, draft', token')
    BY <2>3, <2>4, <2>5
  <2>7. \A x \in Pending : x.token # new.token
    BY <2>1, <2>2, <2>4, <1>2, PendingFields DEF IInv
  <2>8. \A x, y \in Pending' : x.token = y.token => x = y
    BY <2>3, <2>7 DEF IInv, PendingAreOfVersions
  <2>10. timer' \notin routings'
    BY <2>1, <2>7 DEF Pending, IInv, PendingAreOfVersions
  <2>9. PendingAreOfVersions'
    BY <2>6, <2>8, <2>10 DEF PendingAreOfVersions
  <2> QED BY <1>1, <1>2, <1>3, <2>1, <2>2, <2>9, <1>0, EditedKeeps
<1>6. CASE UNCHANGED << token, timer >>
  <2>1. draft' \in Draft /\ draft'.revision > draft.revision
    BY <1>2, <1>3, <1>4, DraftFields
  <2>2. PendingAreOfVersions'
    BY <1>1, <1>6, <2>1, VersionsKept
  <2> QED BY <1>1, <1>2, <1>3, <1>6, <2>2, <1>0, EditedKeeps
<1> QED BY <1>1, <1>5, <1>6 DEF RouteChangedDraft

LEMMA TrimOrSaveKeeps ==
  ASSUME IInv, SaveDraft \/ \E trim \in Trims \cup {Full} : TrimDraft(trim)
  PROVE  IInv'
<1>1. draft \in Draft /\ token \in Nat /\ timer \in Routing \cup {NoTimer} /\ routings \subseteq Routing
  BY DEF IInv, Typed
<1>2. PICK next \in Draft : /\ UpdateDraft(next) /\ next.status = draft.status /\ Drawn(next)
                            /\ next = draft \/ next.revision > draft.revision
  <2> DEFINE n == draft.revision + 1
  <2>1. n \in Nat /\ n > draft.revision
    BY <1>1, DraftFields
  <2>0. Drawn(draft)
    BY DEF IInv, WholeIsDrawn
  <2>2. CASE UpdateDraft(draft)
    BY <1>1, <2>0, <2>2
  <2>3. CASE UpdateDraft([draft EXCEPT !.revision = n])
    <3> DEFINE next == [draft EXCEPT !.revision = n]
    <3> HIDE DEF n
    <3>1. next \in Draft /\ next.status = draft.status /\ next.revision = n /\ Drawn(next)
      BY <1>1, <2>1, <2>0 DEF Draft, Drawn
    <3>2. next.revision > draft.revision
      BY <2>1, <3>1
    <3>3. UpdateDraft(next)
      BY <2>3
    <3> HIDE DEF next
    <3> QED BY <3>1, <3>2, <3>3
  <2>4. ASSUME NEW trim \in Trims \cup {Full}, UpdateDraft([draft EXCEPT !.revision = n, !.trim = trim])
        PROVE  \E next \in Draft : /\ UpdateDraft(next) /\ next.status = draft.status /\ Drawn(next)
                                   /\ next = draft \/ next.revision > draft.revision
    <3> DEFINE next == [draft EXCEPT !.revision = n, !.trim = trim]
    <3> HIDE DEF n
    <3>1. next \in Draft /\ next.status = draft.status /\ next.revision = n /\ Drawn(next)
      BY <1>1, <2>1, <2>0 DEF Draft, Drawn
    <3>2. next.revision > draft.revision
      BY <2>1, <3>1
    <3>3. UpdateDraft(next)
      BY <2>4
    <3> HIDE DEF next
    <3> QED BY <3>1, <3>2, <3>3
  <2> QED BY <2>2, <2>3, <2>4 DEF SaveDraft, TrimDraft
<1>3. /\ draft.status = "draft"
      /\ UNCHANGED << token, timer, routings, confirmation, request, server, nextKey >>
  BY DEF SaveDraft, TrimDraft, Editable, page, api
<1>4. PendingAreOfVersions'
  BY <1>2, <1>3, VersionsKept DEF UpdateDraft
<1> QED BY <1>1, <1>2, <1>3, <1>4, EditedKeeps

-----------------------------------------------------------------------------
(* A routing that ends, and the draft it was asked for.                    *)
LEMMA CurrentIsAskedFor ==
  ASSUME IInv, NEW r \in routings, IsCurrent(r)
  PROVE  /\ r \in Pending /\ r.changed \in Draft /\ r.changed.drawing \in Drawings
         /\ draft.status = "draft" /\ r.changed.status = "draft"
         /\ r.changed.revision = draft.revision /\ r.changed.drawing = draft.drawing
         /\ r.changed.trim = draft.trim
<1>1. r \in Pending
  BY DEF Pending
<1>2. AskedFor(r, draft, token) /\ r.changed \in Draft
  BY <1>1, PendingFields DEF IInv, PendingAreOfVersions
<1> QED BY <1>1, <1>2 DEF AskedFor, IsCurrent

LEMMA RoutedFields ==
  ASSUME NEW d \in Draft, NEW routed \in Routed(d)
  PROVE  /\ routed \in Draft /\ routed.status = d.status /\ routed.revision = d.revision
         /\ routed.drawing = d.drawing /\ routed.whole = TRUE /\ routed.trim \in {d.trim, Full}
BY DEF Routed, Draft

LEMMA RoutingEndsKeeps ==
  ASSUME IInv, NEW r \in routings, RoutingSucceeds(r) \/ RoutingFails(r)
  PROVE  IInv'
<1>1. /\ routings' = routings \ {r}
      /\ UNCHANGED << token, timer, confirmation, request, server, nextKey >>
  BY DEF RoutingSucceeds, RoutingFails, api
<1>2. token \in Nat /\ timer \in Routing \cup {NoTimer} /\ routings' \subseteq Routing
  BY <1>1 DEF IInv, Typed
<1>3. /\ \A x \in Pending' : x \in Pending
      /\ \A x \in Pending' : x.token # r.token
      /\ timer' \notin routings'
  BY <1>1 DEF Pending, IInv, PendingAreOfVersions
<1>4. CASE UNCHANGED << draft, stored >>
  <2>1. PendingAreOfVersions'
    BY <1>1, <1>3, <1>4 DEF IInv, PendingAreOfVersions
  <2>2. Typed'
    BY <1>1, <1>2, <1>4 DEF IInv, Typed
  <2>3. /\ ConfirmationIsCurrent' /\ RequestIsCurrent' /\ PublishedDraftIsStored' /\ StorageIsStored'
        /\ WholeIsDrawn'
    BY <1>1, <1>4 DEF IInv, ConfirmationIsCurrent, RequestIsCurrent, PublishedDraftIsStored,
                      StorageIsStored, WholeIsDrawn
  <2> QED BY <2>1, <2>2, <2>3 DEF IInv
<1>5. CASE IsCurrent(r) /\ \E routed \in Routed(r.changed) : UpdateDraft(routed)
  <2>1. PICK routed \in Routed(r.changed) : UpdateDraft(routed)
    BY <1>5
  <2>2. /\ r.changed \in Draft /\ draft.status = "draft" /\ r.changed.status = "draft"
        /\ r.changed.revision = draft.revision /\ r.token = token /\ r.changed.drawing \in Drawings
    BY <1>5, CurrentIsAskedFor DEF IsCurrent
  <2>3. routed \in Draft /\ routed.status = "draft" /\ routed.revision = draft.revision /\ Drawn(routed)
    BY <2>2, RoutedFields DEF Drawn
  <2>4. draft' = routed
    BY <2>1 DEF UpdateDraft
  <2>5. ASSUME NEW x \in Pending' PROVE AskedFor(x, draft', token')
    <3>1. AskedFor(x, draft, token) /\ x.token # token
      BY <1>3, <2>2 DEF IInv, PendingAreOfVersions
    <3> QED BY <1>1, <2>3, <2>4, <3>1 DEF AskedFor
  <2>6. PendingAreOfVersions'
    BY <1>3, <2>5 DEF IInv, PendingAreOfVersions
  <2> QED BY <1>1, <1>2, <2>1, <2>2, <2>3, <2>6, EditedKeeps
<1> QED BY <1>4, <1>5 DEF RoutingSucceeds, RoutingFails

LEMMA TimerFiresKeeps ==
  ASSUME IInv, TimerFires
  PROVE  IInv'
<1>1. /\ timer # NoTimer /\ timer' = NoTimer /\ routings' = routings \cup {timer}
      /\ UNCHANGED << draft, token, confirmation, request, stored, server, nextKey >>
  BY DEF TimerFires, api
<1>2. Pending' = Pending
  BY <1>1 DEF Pending
<1>3. timer' \notin routings'
  BY <1>1, NothingAssumption DEF IInv, Typed
<1>4. PendingAreOfVersions'
  BY <1>1, <1>2, <1>3 DEF IInv, PendingAreOfVersions
<1>5. Typed'
  BY <1>1 DEF IInv, Typed
<1>6. /\ ConfirmationIsCurrent' /\ RequestIsCurrent' /\ PublishedDraftIsStored' /\ StorageIsStored'
      /\ WholeIsDrawn'
  BY <1>1 DEF IInv, ConfirmationIsCurrent, RequestIsCurrent, PublishedDraftIsStored, StorageIsStored,
              WholeIsDrawn
<1> QED BY <1>4, <1>5, <1>6 DEF IInv

-----------------------------------------------------------------------------
(* A step along the lifecycle: another draft is a later revision.          *)
LEMMA LifecycleKeeps ==
  ASSUME IInv, NEW next \in Draft, Drawn(next), UpdateDraft(next),
         next = draft \/ next.revision > draft.revision,
         UNCHANGED << token, timer, routings >>, server' = server,
         StoredIn(next, server), nextKey' \in Nat \ {0},
         confirmation' \in Confirmation \cup {Nothing}, request' \in Request \cup {Nothing},
         confirmation' # Nothing =>
            /\ next.status = IF request' = Nothing THEN "ready" ELSE "publishing"
            /\ next.whole /\ confirmation'.body = Payload(next),
         request' # Nothing =>
            confirmation' # Nothing /\ request'.sent = confirmation' /\ request'.publishingDraft = next
  PROVE  IInv'
<1>1. draft' = next
  BY DEF UpdateDraft
<1>2. /\ PublishedDraftIsStored' /\ StorageIsStored' /\ WholeIsDrawn'
      /\ draft' \in Draft /\ stored' \in Draft \cup {NoDraft}
  BY StorageKept
<1>3. Typed'
  BY <1>2 DEF IInv, Typed
<1>4. PendingAreOfVersions'
  BY <1>1, VersionsKept
<1>5. ConfirmationIsCurrent'
  BY <1>1 DEF ConfirmationIsCurrent, Payload
<1>6. RequestIsCurrent'
  BY <1>1 DEF RequestIsCurrent
<1> QED BY <1>2, <1>3, <1>4, <1>5, <1>6 DEF IInv

(* The draft at a later step of its lifecycle.                             *)
LEMMA Advanced ==
  ASSUME NEW d \in Draft, NEW k \in {1, 2}, NEW status \in {"draft", "ready", "publishing", "published"}
  PROVE  LET next == [d EXCEPT !.revision = @ + k, !.status = status]
         IN  /\ next \in Draft /\ next.revision > d.revision /\ next.status = status
             /\ next.whole = d.whole /\ Payload(next) = Payload(d) /\ (Drawn(d) => Drawn(next))
<1> DEFINE n    == d.revision + k
           next == [d EXCEPT !.revision = n, !.status = status]
<1>1. n \in Nat /\ n > d.revision
  BY DraftFields
<1> HIDE DEF n
<1>2. next \in Draft /\ next.revision = n /\ next.status = status /\ next.whole = d.whole
  BY <1>1 DEF Draft
<1>3. Payload(next) = Payload(d) /\ (Drawn(d) => Drawn(next))
  BY DEF Payload, Draft, Drawn
<1> QED BY <1>1, <1>2, <1>3 DEF n

LEMMA ReviewKeeps ==
  ASSUME IInv, ReviewPublication
  PROVE  IInv'
<1> DEFINE ready == [draft EXCEPT !.revision = @ + 2, !.status = "ready"]
           shown == [key |-> nextKey, body |-> Payload(ready)]
<1>1. /\ draft.status = "draft" /\ draft.whole /\ nextKey <= MaxKeys /\ nextKey' = nextKey + 1
      /\ UpdateDraft(ready) /\ confirmation' = shown
      /\ UNCHANGED << token, timer, routings, request, server >>
  BY DEF ReviewPublication, Editable, page, api
<1>2. draft \in Draft /\ nextKey \in Nat \ {0} /\ MaxKeys \in Nat
  BY ViewerStudioAssumption DEF IInv, Typed
<1>3. /\ ready \in Draft /\ ready.revision > draft.revision /\ ready.status = "ready"
      /\ ready.whole = draft.whole /\ Payload(ready) = Payload(draft) /\ Drawn(ready)
  BY <1>2, Advanced DEF IInv, WholeIsDrawn
<1>6. shown \in Confirmation /\ shown.body = Payload(ready) /\ shown # Nothing
  <2>1. Payload(ready) \in Body
    BY <1>1, <1>3, DraftFields DEF Drawn, Payload, Body
  <2>2. nextKey \in Keys
    BY <1>1, <1>2 DEF Keys
  <2> QED BY <2>1, <2>2, NothingAssumption DEF Confirmation
<1> HIDE DEF ready, shown
<1>4. StoredIn(ready, server)
  BY <1>3 DEF StoredIn
<1>5. request' = Nothing
  BY <1>1, NothingPends
<1>7. request' \in Request \cup {Nothing} /\ nextKey' \in Nat \ {0} /\ server' = server
  BY <1>1, <1>2, <1>5
<1> QED BY <1>1, <1>3, <1>4, <1>5, <1>6, <1>7, LifecycleKeeps

LEMMA PublishKeeps ==
  ASSUME IInv, PublishConfirmed
  PROVE  IInv'
<1> DEFINE publishing == [draft EXCEPT !.revision = @ + 1, !.status = "publishing"]
           awaited    == [sent |-> confirmation, publishingDraft |-> publishing]
<1>1. /\ confirmation # Nothing /\ UpdateDraft(publishing) /\ request' = awaited
      /\ UNCHANGED << token, timer, routings, confirmation, server, nextKey >>
  BY DEF PublishConfirmed, page
<1>2. /\ draft \in Draft /\ Drawn(draft) /\ nextKey \in Nat \ {0} /\ confirmation \in Confirmation
      /\ draft.whole /\ confirmation.body = Payload(draft)
  BY <1>1 DEF IInv, Typed, WholeIsDrawn, ConfirmationIsCurrent
<1>3. /\ publishing \in Draft /\ publishing.revision > draft.revision /\ publishing.status = "publishing"
      /\ publishing.whole = draft.whole /\ Payload(publishing) = Payload(draft) /\ Drawn(publishing)
  BY <1>2, Advanced
<1> HIDE DEF publishing
<1>4. /\ awaited \in Request /\ awaited # Nothing /\ awaited.sent = confirmation
      /\ awaited.publishingDraft = publishing
  BY <1>2, <1>3, NothingAssumption DEF Request
<1> HIDE DEF awaited
<1>5. StoredIn(publishing, server)
  BY <1>3 DEF StoredIn
<1> QED BY <1>1, <1>2, <1>3, <1>4, <1>5, LifecycleKeeps

LEMMA SucceedsKeeps ==
  ASSUME IInv, PublishingSucceeds
  PROVE  IInv'
<1> DEFINE published == [request.publishingDraft EXCEPT !.revision = @ + 1, !.status = "published"]
<1>1. /\ request # Nothing /\ request.sent \in server /\ UpdateDraft(published)
      /\ confirmation' = Nothing /\ request' = Nothing
      /\ UNCHANGED << token, timer, routings, server, nextKey >>
  BY DEF PublishingSucceeds, page, api
<1>2. /\ draft \in Draft /\ Drawn(draft) /\ nextKey \in Nat \ {0}
      /\ request.publishingDraft = draft /\ request.sent.body = Payload(draft)
  BY <1>1 DEF IInv, Typed, WholeIsDrawn, ConfirmationIsCurrent, RequestIsCurrent
<1>3. /\ published \in Draft /\ published.revision > draft.revision
      /\ Payload(published) = Payload(draft) /\ Drawn(published)
  BY <1>2, Advanced
<1> HIDE DEF published
<1>4. StoredIn(published, server)
  BY <1>1, <1>2, <1>3 DEF StoredIn
<1> QED BY <1>1, <1>2, <1>3, <1>4, LifecycleKeeps

LEMMA FailsKeeps ==
  ASSUME IInv, PublishingFails
  PROVE  IInv'
<1> DEFINE ready == [draft EXCEPT !.revision = @ + 1, !.status = "ready"]
<1>1. /\ request # Nothing /\ request' = Nothing
      /\ UNCHANGED << token, timer, routings, confirmation, server, nextKey >>
  BY DEF PublishingFails, page, api
<1>2. /\ draft \in Draft /\ Drawn(draft) /\ nextKey \in Nat \ {0}
      /\ confirmation # Nothing /\ confirmation \in Confirmation
      /\ draft.status = "publishing" /\ draft.whole /\ confirmation.body = Payload(draft)
  BY <1>1 DEF IInv, Typed, WholeIsDrawn, ConfirmationIsCurrent, RequestIsCurrent
<1>3. UpdateDraft(ready)
  BY <1>2 DEF PublishingFails
<1>4. /\ ready \in Draft /\ ready.revision > draft.revision /\ ready.status = "ready"
      /\ ready.whole = draft.whole /\ Payload(ready) = Payload(draft) /\ Drawn(ready)
  BY <1>2, Advanced
<1> HIDE DEF ready
<1>5. StoredIn(ready, server)
  BY <1>4 DEF StoredIn
<1> QED BY <1>1, <1>2, <1>3, <1>4, <1>5, LifecycleKeeps

LEMMA ReturnKeeps ==
  ASSUME IInv, ReturnToEditing
  PROVE  IInv'
<1> DEFINE next == IF draft.status \in {"ready", "published"} THEN Resumed(draft) ELSE draft
<1>1. /\ (confirmation # Nothing /\ request = Nothing) \/ draft.status = "published"
      /\ UpdateDraft(next) /\ confirmation' = Nothing
      /\ UNCHANGED << token, timer, routings, request, server, nextKey >>
  BY DEF ReturnToEditing, page, api
<1>2. draft \in Draft /\ Drawn(draft) /\ nextKey \in Nat \ {0} /\ StoredIn(draft, server)
  BY DEF IInv, Typed, WholeIsDrawn, PublishedDraftIsStored, StoredIn
<1>3. request = Nothing
  BY <1>1 DEF IInv, ConfirmationIsCurrent, RequestIsCurrent
<1>4. /\ next \in Draft /\ Drawn(next) /\ StoredIn(next, server)
      /\ next = draft \/ next.revision > draft.revision
  <2>1. CASE next = draft
    BY <1>2, <2>1
  <2>2. CASE next = Resumed(draft)
    <3>1. /\ Resumed(draft) \in Draft /\ Drawn(Resumed(draft)) /\ Resumed(draft).status = "draft"
          /\ Resumed(draft).revision > draft.revision
      BY <1>2, Advanced DEF Resumed
    <3> QED BY <2>2, <3>1 DEF StoredIn
  <2> QED BY <2>1, <2>2
<1> HIDE DEF next
<1> QED BY <1>1, <1>2, <1>3, <1>4, LifecycleKeeps

LEMMA ReceiveKeeps ==
  ASSUME IInv, NEW m \in net, Receive(m)
  PROVE  IInv'
<1>1. /\ server \subseteq server'
      /\ UNCHANGED << draft, token, timer, routings, confirmation, request, stored, nextKey >>
  BY DEF Receive, page
<1>2. Typed' /\ PendingAreOfVersions'
  BY <1>1 DEF IInv, Typed, PendingAreOfVersions, Pending
<1>3. ConfirmationIsCurrent' /\ RequestIsCurrent' /\ WholeIsDrawn'
  BY <1>1 DEF IInv, ConfirmationIsCurrent, RequestIsCurrent, WholeIsDrawn
<1>4. PublishedDraftIsStored' /\ StorageIsStored'
  BY <1>1 DEF IInv, PublishedDraftIsStored, StorageIsStored, StoredIn
<1> QED BY <1>2, <1>3, <1>4 DEF IInv

LEMMA OthersKeep ==
  ASSUME IInv, UNCHANGED << draft, token, timer, routings, confirmation, request, stored, server, nextKey >>
  PROVE  IInv'
<1>1. Typed' /\ PendingAreOfVersions'
  BY DEF IInv, Typed, PendingAreOfVersions, Pending
<1>2. ConfirmationIsCurrent' /\ RequestIsCurrent' /\ WholeIsDrawn'
  BY DEF IInv, ConfirmationIsCurrent, RequestIsCurrent, WholeIsDrawn
<1>3. PublishedDraftIsStored' /\ StorageIsStored'
  BY DEF IInv, PublishedDraftIsStored, StorageIsStored
<1> QED BY <1>1, <1>2, <1>3 DEF IInv

(* restoreLocalDraft: what was under way is a draft again.                 *)
LEMMA RestoredFields ==
  ASSUME IInv
  PROVE  /\ Restored(stored) \in Draft /\ Drawn(Restored(stored)) /\ StoredIn(Restored(stored), server)
<1>1. CASE stored = NoDraft
  BY <1>1 DEF Restored, NewDraft, Draft, Drawn, StoredIn
<1>2. CASE stored # NoDraft
  <2>1. stored \in Draft /\ Drawn(stored) /\ StoredIn(stored, server)
    BY <1>2 DEF IInv, Typed, WholeIsDrawn, StorageIsStored
  <2>2. CASE stored.status = "publishing"
    <3> DEFINE later == [stored EXCEPT !.revision = @ + 1]
    <3>1. later = [stored EXCEPT !.revision = @ + 1, !.status = "publishing"]
      BY <2>1, <2>2 DEF Draft
    <3>2. later \in Draft /\ Drawn(later)
      BY <2>1, <3>1, Advanced
    <3> HIDE DEF later
    <3>3. Resumed(later) \in Draft /\ Drawn(Resumed(later)) /\ Resumed(later).status = "draft"
      BY <3>2, Advanced DEF Resumed
    <3>4. Restored(stored) = Resumed(later)
      BY <1>2, <2>2 DEF Restored, later
    <3> QED BY <3>3, <3>4 DEF StoredIn
  <2>3. CASE stored.status = "ready"
    <3>1. Resumed(stored) \in Draft /\ Drawn(Resumed(stored)) /\ Resumed(stored).status = "draft"
      BY <2>1, Advanced DEF Resumed
    <3>2. Restored(stored) = Resumed(stored)
      BY <1>2, <2>3 DEF Restored
    <3> QED BY <3>1, <3>2 DEF StoredIn
  <2>4. CASE stored.status \notin {"publishing", "ready"}
    BY <1>2, <2>1, <2>4 DEF Restored
  <2> QED BY <2>2, <2>3, <2>4
<1> QED BY <1>1, <1>2

LEMMA ReloadKeeps ==
  ASSUME IInv, Reload
  PROVE  IInv'
<1> DEFINE restored == Restored(stored)
<1>1. /\ UpdateDraft(restored) /\ token' = 0 /\ timer' = NoTimer /\ routings' = {}
      /\ confirmation' = Nothing /\ request' = Nothing /\ UNCHANGED << server, nextKey >>
  BY DEF Reload, api
<1>2. restored \in Draft /\ Drawn(restored) /\ StoredIn(restored, server)
  BY RestoredFields
<1> HIDE DEF restored
<1>3. /\ PublishedDraftIsStored' /\ StorageIsStored' /\ WholeIsDrawn'
      /\ draft' \in Draft /\ stored' \in Draft \cup {NoDraft}
  BY <1>1, <1>2, StorageKept
<1>4. Typed'
  BY <1>1, <1>3 DEF IInv, Typed
<1>5. PendingAreOfVersions' /\ ConfirmationIsCurrent' /\ RequestIsCurrent'
  BY <1>1 DEF PendingAreOfVersions, Pending, ConfirmationIsCurrent, RequestIsCurrent
<1> QED BY <1>3, <1>4, <1>5 DEF IInv

LEMMA StepKeeps ==
  ASSUME IInv, [Next]_vars
  PROVE  IInv'
<1>1. CASE Touch
  <2>1. CASE \E id \in ToSet(segments) : Select(id)
    BY <2>1, OthersKeep DEF Select, page, api
  <2> QED BY <1>1, <2>1, ApplyEditKeeps, TrimOrSaveKeeps, ReviewKeeps, PublishKeeps, ReturnKeeps DEF Touch
<1>2. CASE RouterLoads \/ ReadSegments \/ ListArrives \/ UNCHANGED vars
  <2>1. UNCHANGED << draft, token, timer, routings, confirmation, request, stored, server, nextKey >>
    BY <1>2 DEF RouterLoads, ReadSegments, ListArrives, vars, page, api
  <2> QED BY <2>1, OthersKeep
<1>3. CASE RoutingEnds
  BY <1>3, RoutingEndsKeeps DEF RoutingEnds
<1> QED BY <1>1, <1>2, <1>3, TimerFiresKeeps, ReceiveKeeps, SucceedsKeeps, FailsKeeps, ReloadKeeps DEF Next

-----------------------------------------------------------------------------
(* The inductive invariant holds in every state the page can reach.        *)
THEOREM ViewerInvariance == Spec => []IInv
<1>1. Init => IInv
  BY InitHolds
<1>2. IInv /\ [Next]_vars => IInv'
  BY StepKeeps
<1> QED BY <1>1, <1>2, PTL DEF Spec

(* reviewPublication to publishConfirmed: the dialog shows the draft as it *)
(* is, through late routings, lost answers and reloads.                    *)
THEOREM ConfirmationsAreCurrent == Spec => []ConfirmationIsCurrent
<1>1. IInv => ConfirmationIsCurrent
  BY DEF IInv
<1> QED BY <1>1, ViewerInvariance, PTL

(* publishConfirmed, restoreLocalDraft: what the page calls published is   *)
(* stored as the draft has it.                                             *)
THEOREM PublishedDraftsAreStored == Spec => []PublishedDraftIsStored
<1>1. IInv => PublishedDraftIsStored
  BY DEF IInv
<1> QED BY <1>1, ViewerInvariance, PTL

ReloadsOK == reloads \in Nat

LEMMA ReloadsAreCounted == Spec => []ReloadsOK
<1>1. Init => ReloadsOK
  BY DEF Init, ReloadsOK
<1>2. ASSUME ReloadsOK, [Next]_vars PROVE ReloadsOK'
  <2>1. CASE Touch
    BY <1>2, <2>1 DEF Touch, ApplyEdit, TrimDraft, SaveDraft, ReviewPublication, PublishConfirmed,
                      ReturnToEditing, Select, ReloadsOK
  <2>2. CASE ~Touch
    BY <1>2, <2>2 DEF Next, RouterLoads, TimerFires, RoutingEnds, RoutingSucceeds, RoutingFails, Receive,
                      PublishingSucceeds, PublishingFails, ReadSegments, ListArrives, Reload, vars,
                      ReloadsOK
  <2> QED BY <2>1, <2>2
<1>3. ReloadsOK /\ [Next]_vars => ReloadsOK'
  BY <1>2
<1> QED BY <1>1, <1>3, PTL DEF Spec

(* While the page lives, a routing that is at work no more has ended.      *)
LEMMA NoRoutingIsLost ==
  ASSUME ReloadsOK, [Next]_vars, reloads' = reloads, NEW r \in routings, r \notin routings'
  PROVE  RoutingSucceeds(r) \/ RoutingFails(r)
<1>1. ~Reload
  BY DEF Reload, ReloadsOK
<1>2. CASE RoutingEnds
  BY <1>2 DEF RoutingEnds, RoutingSucceeds, RoutingFails
<1>3. CASE Touch
  BY <1>3 DEF Touch, ApplyEdit, TrimDraft, SaveDraft, ReviewPublication, PublishConfirmed,
              ReturnToEditing, Select, page
<1>4. CASE RouterLoads \/ TimerFires \/ ReadSegments \/ ListArrives \/ UNCHANGED vars
  BY <1>4 DEF RouterLoads, TimerFires, ReadSegments, ListArrives, vars, page
<1>5. CASE PublishingSucceeds \/ PublishingFails \/ \E m \in net : Receive(m)
  BY <1>5 DEF PublishingSucceeds, PublishingFails, Receive, page
<1> QED BY <1>1, <1>2, <1>3, <1>4, <1>5 DEF Next

(* The comparison of token and revision behind the router's await: a       *)
(* result is taken only by the draft it was asked for, so that it changes  *)
(* neither the points nor the revision nor the place in the lifecycle.     *)
THEOREM LateRoutingsKeepTheDraft == Spec => LateRoutingKeepsDraft
<1> DEFINE Kept(r) ==
      reloads' = reloads =>
        /\ draft' = [draft EXCEPT !.whole = draft'.whole, !.trim = draft'.trim]
        /\ draft'.trim \in {draft.trim, Full} /\ (draft.whole => draft'.whole)
<1>1. ASSUME IInv, ReloadsOK, [Next]_vars PROVE \A r \in routings \ routings' : Kept(r)
  <2> SUFFICES ASSUME NEW r \in routings, r \notin routings', reloads' = reloads
               PROVE  /\ draft' = [draft EXCEPT !.whole = draft'.whole, !.trim = draft'.trim]
                      /\ draft'.trim \in {draft.trim, Full} /\ (draft.whole => draft'.whole)
    OBVIOUS
  <2>1. RoutingSucceeds(r) \/ RoutingFails(r)
    BY <1>1, NoRoutingIsLost
  <2>2. draft \in Draft
    BY <1>1 DEF IInv, Typed
  <2>3. CASE draft' = draft
    BY <2>2, <2>3 DEF Draft
  <2>4. CASE IsCurrent(r) /\ \E routed \in Routed(r.changed) : UpdateDraft(routed)
    <3>1. PICK routed \in Routed(r.changed) : UpdateDraft(routed)
      BY <2>4
    <3>2. draft' = routed
      BY <3>1 DEF UpdateDraft
    <3>3. /\ r.changed \in Draft /\ r.changed.status = draft.status
          /\ r.changed.revision = draft.revision /\ r.changed.drawing = draft.drawing
          /\ r.changed.trim = draft.trim
      BY <1>1, <2>4, CurrentIsAskedFor
    <3>4. /\ routed \in Draft /\ routed.status = draft.status /\ routed.revision = draft.revision
          /\ routed.drawing = draft.drawing /\ routed.whole = TRUE /\ routed.trim \in {draft.trim, Full}
      BY <3>3, RoutedFields
    <3>5. routed = [draft EXCEPT !.whole = routed.whole, !.trim = routed.trim]
      BY <2>2, <3>4 DEF Draft
    <3> QED BY <3>2, <3>4, <3>5
  <2> QED BY <2>1, <2>3, <2>4 DEF RoutingSucceeds, RoutingFails
<1>2. IInv /\ ReloadsOK /\ [Next]_vars => [\A r \in routings \ routings' : Kept(r)]_vars
  BY <1>1
<1> QED BY <1>2, ViewerInvariance, ReloadsAreCounted, PTL DEF Spec, LateRoutingKeepsDraft

-----------------------------------------------------------------------------
(* What holds of a number if it does of all that are less.                 *)
LEMMA Induction ==
  ASSUME NEW A \in SUBSET Nat, NEW n \in Nat,
         \A k \in 0..n : (0..(k - 1)) \subseteq A => k \in A
  PROVE  0..n \subseteq A
<1> SUFFICES ASSUME ~(0..n \subseteq A) PROVE FALSE
  OBVIOUS
<1> DEFINE W == (0..n) \ A
           R == { p \in Nat \X Nat : p[1] < p[2] }
<1>1. W \in SUBSET Nat /\ W # {}
  OBVIOUS
<1>2. IsWellFoundedOn(R, Nat)
  BY NatLessThanWellFounded, Zenon DEF OpToRel
<1>3. PICK w \in W : \A v \in W : ~ (<< v, w >> \in R)
  <2> HIDE DEF W, R
  <2> QED BY <1>1, <1>2, WFMin
<1>4. w \in 0..n /\ w \notin A
  OBVIOUS
<1>5. ASSUME NEW v \in 0..(w - 1) PROVE v \in A
  <2>1. v \in 0..n /\ v \in Nat /\ v < w
    BY <1>4
  <2>2. << v, w >> \in R
    BY <1>4, <2>1
  <2> QED BY <1>3, <2>1, <2>2
<1>6. 0..(w - 1) \subseteq A
  BY <1>5
<1> QED BY <1>4, <1>6

(* What the filter keeps of the entries of s up to the i-th.               *)
KeptUpTo(s, id, f, i) ==
    f[i] = IF i = 0 THEN <<>>
           ELSE IF s[i] = id THEN f[i - 1] ELSE Append(f[i - 1], s[i])

Filters(f, s, id) ==
    f = [i \in 0..Len(s) |->
            IF i = 0 THEN <<>>
            ELSE IF s[i] = id THEN f[i - 1] ELSE Append(f[i - 1], s[i])]

(* The recursion of Without has a solution.                                *)
LEMMA FilterExists ==
  ASSUME NEW S, NEW s \in Seq(S), NEW id
  PROVE  \E f : Filters(f, s, id)
<1> DEFINE P(k, f) == DOMAIN f = 0..k /\ \A i \in 0..k : KeptUpTo(s, id, f, i)
           A == { k \in Nat : \E f : f = [i \in DOMAIN f |-> f[i]] /\ P(k, f) }
<1>1. PICK n \in Nat : n = Len(s)
  OBVIOUS
<1>2. ASSUME NEW k \in 0..n, 0..(k - 1) \subseteq A PROVE k \in A
  <2>1. CASE k = 0
    <3> DEFINE f == [i \in 0..0 |-> <<>>]
    <3>1. f = [i \in DOMAIN f |-> f[i]] /\ P(0, f)
      BY DEF KeptUpTo
    <3> QED BY <2>1, <3>1
  <2>2. CASE k # 0
    <3>1. k - 1 \in 0..(k - 1) /\ k - 1 \in Nat /\ k \in Nat
      BY <2>2
    <3>2. PICK f : P(k - 1, f)
      BY <1>2, <3>1
    <3> DEFINE last == IF s[k] = id THEN f[k - 1] ELSE Append(f[k - 1], s[k])
               g == [i \in 0..k |-> IF i = k THEN last ELSE f[i]]
    <3> HIDE DEF last
    <3>3. DOMAIN g = 0..k /\ g = [i \in DOMAIN g |-> g[i]] /\ g[k] = last
          /\ \A i \in 0..(k - 1) : g[i] = f[i]
      BY <3>1
    <3>4. ASSUME NEW i \in 0..k PROVE KeptUpTo(s, id, g, i)
      <4> HIDE DEF g
      <4>1. CASE i = k
        BY <2>2, <3>1, <3>3, <4>1 DEF KeptUpTo, last
      <4>2. CASE i # k
        <5>1. i \in 0..(k - 1) /\ (i # 0 => i - 1 \in 0..(k - 1))
          BY <4>2
        <5> QED BY <3>2, <3>3, <5>1 DEF KeptUpTo
      <4> QED BY <4>1, <4>2
    <3> HIDE DEF g
    <3> QED BY <3>1, <3>3, <3>4
  <2> QED BY <2>1, <2>2
<1>3. PICK f : f = [i \in DOMAIN f |-> f[i]] /\ P(n, f)
  <2>1. A \in SUBSET Nat /\ n \in 0..n
    OBVIOUS
  <2> HIDE DEF A
  <2>2. 0..n \subseteq A
    BY <1>2, <2>1, Induction
  <2>3. n \in A
    BY <2>1, <2>2
  <2> QED BY <2>3 DEF A
<1>4. f = [i \in 0..Len(s) |->
              IF i = 0 THEN <<>> ELSE IF s[i] = id THEN f[i - 1] ELSE Append(f[i - 1], s[i])]
  BY <1>1, <1>3 DEF KeptUpTo
<1> QED BY <1>4 DEF Filters

LEMMA WithoutFilters ==
  ASSUME NEW S, NEW s \in Seq(S), NEW id
  PROVE  \E f : Filters(f, s, id) /\ Without(s, id) = f[Len(s)]
<1> DEFINE f == CHOOSE f : Filters(f, s, id)
<1>1. Filters(f, s, id)
  <2>1. \E g : Filters(g, s, id)
    BY FilterExists
  <2> QED BY <2>1
<1>2. Without(s, id) = f[Len(s)]
  BY Zenon DEF Without, Filters
<1> QED BY <1>1, <1>2

NoTwice(s) == \A i, j \in 1..Len(s) : s[i] = s[j] => i = j

(* The filter makes no duplicates, and id is gone.                         *)
LEMMA WithoutIsSound ==
  ASSUME NEW S, NEW s \in Seq(S), NoTwice(s), NEW id
  PROVE  LET t == Without(s, id)
         IN  t \in Seq(S) /\ NoTwice(t) /\ \A j \in 1..Len(t) : t[j] # id
<1> PICK f : Filters(f, s, id) /\ Without(s, id) = f[Len(s)]
  BY WithoutFilters
<1>1. PICK n \in Nat : n = Len(s)
  OBVIOUS
<1>2. \A i \in 0..n : KeptUpTo(s, id, f, i)
  BY <1>1 DEF Filters, KeptUpTo
<1> DEFINE Sound(t, i) ==
      /\ t \in Seq(S) /\ NoTwice(t)
      /\ \A j \in 1..Len(t) : t[j] # id /\ \E h \in 1..i : t[j] = s[h]
           A == { k \in Nat : Sound(f[k], k) }
<1>3. ASSUME NEW k \in 0..n, 0..(k - 1) \subseteq A PROVE k \in A
  <2>1. CASE k = 0
    <3>1. PICK t : t = f[k]
      OBVIOUS
    <3>2. t = <<>>
      BY <1>2, <2>1, <3>1 DEF KeptUpTo
    <3>3. t \in Seq(S) /\ Len(t) = 0
      BY <3>2
    <3>4. Sound(t, k)
      BY <3>3 DEF NoTwice
    <3> QED BY <2>1, <3>1, <3>4
  <2>2. CASE k # 0
    <3>1. k - 1 \in 0..(k - 1) /\ k \in 1..n /\ k \in Nat /\ k - 1 \in Nat
      BY <2>2
    <3>2. PICK t : t = f[k - 1]
      OBVIOUS
    <3>3. Sound(t, k - 1)
      BY <1>3, <3>1, <3>2
    <3>4. \A h \in 1..(k - 1) : h \in 1..k /\ h \in 1..n /\ h # k
      BY <3>1
    <3>5. f[k] = IF s[k] = id THEN t ELSE Append(t, s[k])
      BY <1>2, <2>2, <3>2 DEF KeptUpTo
    <3>6. CASE s[k] = id
      <4>1. Sound(t, k)
        BY <3>3, <3>4
      <4> QED BY <3>1, <3>5, <3>6, <4>1
    <3>7. CASE s[k] # id
      <4>1. PICK u : u = Append(t, s[k])
        OBVIOUS
      <4>2. s[k] \in S /\ t \in Seq(S)
        BY <1>1, <3>1, <3>3
      <4>3. /\ u \in Seq(S) /\ Len(u) = Len(t) + 1 /\ u[Len(u)] = s[k]
            /\ \A j \in 1..Len(t) : u[j] = t[j]
        BY <4>1, <4>2
      <4>4. \A j \in 1..Len(u) : j \in 1..Len(t) \/ j = Len(u)
        BY <4>2, <4>3
      <4>5. ASSUME NEW j \in 1..Len(t) PROVE u[j] # s[k]
        <5>1. PICK h \in 1..(k - 1) : t[j] = s[h]
          BY <3>3
        <5> QED BY <1>1, <3>1, <3>4, <4>3, <5>1 DEF NoTwice
      <4>6. NoTwice(u)
        <5> SUFFICES ASSUME NEW i \in 1..Len(u), NEW j \in 1..Len(u), u[i] = u[j] PROVE i = j
          BY DEF NoTwice
        <5>1. CASE i \in 1..Len(t) /\ j \in 1..Len(t)
          BY <3>3, <4>3, <5>1 DEF NoTwice
        <5>2. CASE i = Len(u) \/ j = Len(u)
          BY <4>3, <4>4, <4>5, <5>2
        <5> QED BY <4>4, <5>1, <5>2
      <4>7. ASSUME NEW j \in 1..Len(u) PROVE u[j] # id /\ \E h \in 1..k : u[j] = s[h]
        <5>1. CASE j \in 1..Len(t)
          BY <3>3, <3>4, <4>3, <5>1
        <5>2. CASE j = Len(u)
          <6>1. k \in 1..k /\ u[j] = s[k]
            BY <3>1, <4>3, <5>2
          <6> QED BY <3>7, <6>1
        <5> QED BY <4>4, <5>1, <5>2
      <4>8. Sound(u, k)
        BY <4>3, <4>6, <4>7
      <4> QED BY <3>1, <3>5, <3>7, <4>1, <4>8
    <3> QED BY <3>6, <3>7
  <2> QED BY <2>1, <2>2
<1>4. n \in A
  <2>1. A \in SUBSET Nat /\ n \in 0..n
    OBVIOUS
  <2> HIDE DEF A
  <2>2. 0..n \subseteq A
    BY <1>3, <2>1, Induction
  <2> QED BY <2>1, <2>2
<1> QED BY <1>1, <1>4

(* SetToSeq lists each of finitely many keys, once.                        *)
LEMMA RowsAreListed ==
  ASSUME NEW rows \in SUBSET Keys
  PROVE  LET t == SetToSeq(rows)
         IN  t \in Seq(Keys) /\ NoTwice(t) /\ ToSet(t) = rows
<1>1. MaxKeys \in Nat
  BY ViewerStudioAssumption
<1>2. IsFiniteSet(rows)
  <2>1. IsFiniteSet(Keys)
    BY <1>1, FS_Interval DEF Keys
  <2> QED BY <2>1, FS_Subset
<1>3. PICK n \in Nat : n = Cardinality(rows) /\ ExistsBijection(1..n, rows)
  BY <1>2, FS_CardinalityType
<1>4. \E f \in [1..n -> rows] : IsInjective(f)
  BY <1>3 DEF ExistsBijection, Bijection, Injection
<1> DEFINE t == CHOOSE f \in [1..n -> rows] : IsInjective(f)
<1>5. SetToSeq(rows) = t
  BY <1>3, Zenon DEF SetToSeq
<1>6. t \in [1..n -> rows] /\ IsInjective(t)
  BY <1>4
<1> HIDE DEF t
<1>7. t \in Seq(Keys) /\ Len(t) = n
  <2>1. \A i \in 1..n : t[i] \in Keys
    BY <1>6
  <2> QED BY <1>6, <2>1
<1>8. NoTwice(t)
  BY <1>6, <1>7 DEF NoTwice, IsInjective
<1>9. t \in Surjection(1..n, rows)
  <2>1. t \in Injection(1..n, rows)
    BY <1>6 DEF Injection
  <2>2. Cardinality(1..n) = n
    BY FS_Interval
  <2> QED BY <1>2, <1>3, <2>1, <2>2, FS_Injection
<1>10. ToSet(t) = rows
  BY <1>6, <1>7, <1>9 DEF Surjection, ToSet
<1> QED BY <1>5, <1>7, <1>8, <1>10

-----------------------------------------------------------------------------
(* The list's part of the invariant, beside IInv.                          *)
ListInv ==
    /\ phase \in Phases /\ asked \in Nat
    /\ list \in [rows : SUBSET Keys, arrived : BOOLEAN] \cup {Nothing}
    /\ segments \in Seq(Keys) /\ selected \in Keys \cup {NoKey}
    /\ net \cup server \subseteq Confirmation
    /\ NoTwice(segments) /\ (selected # NoKey => selected \in ToSet(segments))

LEMMA ListInitHolds == Init => ListInv
<1> SUFFICES ASSUME Init PROVE ListInv
  OBVIOUS
<1>1. segments \in Seq(Keys) /\ NoTwice(segments)
  BY DEF Init, NoTwice
<1> QED BY <1>1 DEF Init, ListInv, PhaseOf, NewDraft, Phases

(* Nothing the list shows changes.                                         *)
LEMMA ListStays ==
  ASSUME ListInv, UNCHANGED list_vars, phase' \in Phases, asked' \in Nat,
         net' \cup server' \subseteq Confirmation
  PROVE  ListInv'
BY DEF ListInv, list_vars, NoTwice, ToSet

LEMMA TouchKeepsList ==
  ASSUME IInv, ListInv, IInv', Touch
  PROVE  ListInv'
<1>1. ASSUME NEW drawing \in Drawings \cup {Few}, NEW whole \in BOOLEAN, NEW trim \in Trims \cup {Full},
             ApplyEdit(drawing, whole, trim)
      PROVE  ListInv'
  <2>1. draft' \in Draft /\ draft'.revision \in Nat
    BY <1>1, DraftFields DEF IInv, Typed
  <2>2. asked' \in {asked, draft'.revision} /\ phase' \in Phases /\ UNCHANGED << list_vars, net, server >>
    BY <1>1 DEF ApplyEdit, UpdateDraft, RouteChangedDraft, AskForRouting, Phases, api
  <2> QED BY <2>1, <2>2, ListStays DEF ListInv
<1>2. CASE \/ SaveDraft \/ ReviewPublication \/ ReturnToEditing
           \/ \E trim \in Trims \cup {Full} : TrimDraft(trim)
  <2>1. UNCHANGED << phase, asked, list_vars, net, server >>
    BY <1>2 DEF SaveDraft, ReviewPublication, ReturnToEditing, TrimDraft, page, api
  <2> QED BY <2>1, ListStays DEF ListInv
<1>3. CASE PublishConfirmed
  <2>1. /\ UNCHANGED << phase, asked, list_vars, server >> /\ net' = net \cup {confirmation}
        /\ confirmation \in Confirmation
    BY <1>3 DEF PublishConfirmed, page, IInv, Typed
  <2> QED BY <2>1, ListStays DEF ListInv
<1>4. ASSUME NEW id \in ToSet(segments), Select(id) PROVE ListInv'
  <2>1. selected' = id /\ UNCHANGED << phase, asked, list, segments, net, server >>
    BY <1>4 DEF Select, page, api
  <2>2. id \in Keys
    BY DEF ListInv, ToSet
  <2> QED BY <2>1, <2>2 DEF ListInv, NoTwice, ToSet
<1> QED BY <1>1, <1>2, <1>3, <1>4 DEF Touch

(* A publication is put before the others, in place of what the list had   *)
(* of it.                                                                  *)
LEMMA SucceedsKeepsList ==
  ASSUME IInv, ListInv, PublishingSucceeds
  PROVE  ListInv'
<1>1. PICK id : id = request.sent.key
  OBVIOUS
<1>2. /\ segments' = << id >> \o Without(segments, id) /\ selected' = id
      /\ UNCHANGED << phase, asked, list, net, server >>
  BY <1>1 DEF PublishingSucceeds, ShowPublished, page, api
<1>3. id \in Keys
  BY <1>1 DEF PublishingSucceeds, IInv, Typed, Request, Confirmation
<1>4. PICK t : t = Without(segments, id)
  OBVIOUS
<1>5. t \in Seq(Keys) /\ NoTwice(t) /\ \A j \in 1..Len(t) : t[j] # id
  BY <1>4, WithoutIsSound DEF ListInv
<1>6. PICK u : u = << id >> \o t
  OBVIOUS
<1>7. /\ u \in Seq(Keys) /\ Len(u) = Len(t) + 1 /\ u[1] = id
      /\ \A i \in 2..Len(u) : i - 1 \in 1..Len(t) /\ u[i] = t[i - 1]
  BY <1>3, <1>5, <1>6
<1>8. NoTwice(u)
  <2> SUFFICES ASSUME NEW i \in 1..Len(u), NEW j \in 1..Len(u), u[i] = u[j] PROVE i = j
    BY DEF NoTwice
  <2>1. \A h \in 1..Len(u) : h = 1 \/ h \in 2..Len(u)
    BY <1>5, <1>7
  <2>2. CASE i = 1 \/ j = 1
    BY <1>5, <1>7, <2>1, <2>2
  <2>3. CASE i \in 2..Len(u) /\ j \in 2..Len(u)
    <3>1. t[i - 1] = t[j - 1] /\ i - 1 \in 1..Len(t) /\ j - 1 \in 1..Len(t)
      BY <1>7, <2>3
    <3>2. i - 1 = j - 1
      BY <1>5, <3>1 DEF NoTwice
    <3> QED BY <2>3, <3>2
  <2> QED BY <2>1, <2>2, <2>3
<1>9. id \in ToSet(u)
  BY <1>5, <1>7 DEF ToSet
<1> QED BY <1>2, <1>3, <1>4, <1>6, <1>7, <1>8, <1>9 DEF ListInv

LEMMA ListArrivesKeepsList ==
  ASSUME ListInv, ListArrives
  PROVE  ListInv'
<1>1. PICK rows \in SUBSET Keys : ShowRows(rows)
  BY DEF ListArrives, ListInv
<1>2. PICK t : t = SetToSeq(rows)
  OBVIOUS
<1>3. t \in Seq(Keys) /\ NoTwice(t) /\ ToSet(t) = rows
  BY <1>2, RowsAreListed
<1>4. segments' = t /\ selected' = IF selected \in rows THEN selected ELSE NoKey
  BY <1>1, <1>2 DEF ShowRows
<1>5. list' \in [rows : SUBSET Keys, arrived : BOOLEAN] /\ UNCHANGED << phase, asked, net, server >>
  BY DEF ListArrives, ListInv, page, api
<1> QED BY <1>3, <1>4, <1>5 DEF ListInv

LEMMA StepKeepsList ==
  ASSUME IInv, ListInv, IInv', [Next]_vars
  PROVE  ListInv'
<1>1. CASE RouterLoads \/ TimerFires \/ RoutingEnds \/ PublishingFails \/ UNCHANGED vars
  <2>1. phase' \in Phases /\ UNCHANGED << asked, list_vars, net, server >>
    BY <1>1 DEF RouterLoads, TimerFires, RoutingEnds, RoutingSucceeds, RoutingFails, PublishingFails,
                vars, page, api, Phases, ListInv
  <2> QED BY <2>1, ListStays DEF ListInv
<1>2. ASSUME NEW m \in net, Receive(m) PROVE ListInv'
  <2>1. /\ net' \cup server' \subseteq Confirmation
        /\ UNCHANGED << phase, asked, list_vars >>
    BY <1>2 DEF Receive, page, ListInv, list_vars
  <2> QED BY <2>1, ListStays DEF ListInv
<1>3. CASE ReadSegments
  <2>1. list' \in [rows : SUBSET Keys, arrived : BOOLEAN]
    BY <1>3 DEF ReadSegments, ListInv, Confirmation
  <2> QED BY <1>3, <2>1 DEF ReadSegments, ListInv, page, api
<1>4. CASE Reload
  <2>1. segments' = <<>> /\ selected' = NoKey /\ list' = Nothing /\ UNCHANGED << net, server >>
        /\ asked' = 0 /\ phase' \in Phases
    BY <1>4 DEF Reload, api, PhaseOf, Phases
  <2>2. NoTwice(<<>>)
    BY DEF NoTwice
  <2> QED BY <2>1, <2>2 DEF ListInv
<1> QED BY <1>1, <1>2, <1>3, <1>4, TouchKeepsList, SucceedsKeepsList, ListArrivesKeepsList DEF Next

LEMMA ListInvariance == Spec => []ListInv
<1>1. Init => ListInv
  BY ListInitHolds
<1>2. IInv /\ IInv' /\ ListInv /\ [Next]_vars => ListInv'
  BY StepKeepsList
<1> QED BY <1>1, <1>2, ViewerInvariance, PTL DEF Spec

(* The variables of the page and the API keep their types.                 *)
THEOREM ViewerTypes == Spec => []TypeOK
<1>1. IInv /\ ListInv => TypeOK
  BY DEF IInv, Typed, ListInv, TypeOK
<1> QED BY <1>1, ViewerInvariance, ListInvariance, PTL

(* nextViewerState: the list shows a segment once and has the one that is  *)
(* selected, whenever the list comes and whatever is published again.      *)
THEOREM ListsAreSound == Spec => []ListIsSound
<1>1. ListInv => ListIsSound
  BY DEF ListInv, NoTwice, ListIsSound
<1> QED BY <1>1, ListInvariance, PTL

=============================================================================
