---------------------------- MODULE ViewerStudio ----------------------------
(***************************************************************************)
(* The viewer's editor (components/RouteStudio.tsx) in its page (App.tsx): *)
(* a draft that the person edits while a timer and a router route its legs,*)
(* local storage, the confirmation of a publication, and the list of       *)
(* segments, which is read once and which publications are put into.       *)
(*                                                                         *)
(* What runs between two events of the page is one step: an event handler, *)
(* the timer's callback up to its await, what follows the router's answer, *)
(* the effect that saves a new draft.  A LocalRouter answers by a promise: *)
(* events may come in between.                                             *)
(*                                                                         *)
(* Data kept: of the draft its drawing (the control points), whether every *)
(* leg is routed, and its trim; the edits themselves are those of          *)
(* RouteDraft.  A name is typed before a save or a review and not modelled;*)
(* the revision it makes is.  Only a reload reads local storage, so a new  *)
(* draft and the effect that stores it are one step, and the effect may not*)
(* have run, or may have failed, by then.  A request id stands for the     *)
(* segment stored under it too.                                            *)
(***************************************************************************)
EXTENDS Integers, Sequences, SequencesExt, FiniteSets

CONSTANTS
    Drawings,     \* control points, two or more
    Few,          \* fewer than two of them
    Trims,        \* selections of the route
    Full,         \* no selection
    NoDraft,      \* local storage holds no draft that can be restored
    NoTimer,      \* routeTimer is null
    NoKey,        \* selectedId is null
    Nothing,      \* confirmation is null; no request is awaited; no list has come
    MaxRevision,  \* bound: the last revision of a draft that is edited
    MaxReady,     \* bound: the last revision of a draft that is sent
    MaxRoutings,  \* bound: routers at work at once
    MaxKeys,      \* bound: request ids ever drawn
    MaxReloads    \* bound: reloads of the page

ASSUME ViewerStudioAssumption ==
    /\ Few \notin Drawings /\ Full \notin Trims
    /\ {MaxRevision, MaxReady, MaxRoutings, MaxKeys, MaxReloads} \subseteq Nat
    /\ NoKey \notin 1..MaxKeys

Keys == 1..MaxKeys

Draft ==
    [ status   : {"draft", "ready", "publishing", "published"},
      revision : Nat,
      drawing  : Drawings \cup {Few},
      whole    : BOOLEAN,  \* getComposedGeometry has two points
      trim     : Trims \cup {Full} ]

NewDraft ==
    [ status |-> "draft", revision |-> 0, drawing |-> Few, whole |-> FALSE,
      trim |-> Full ]

Body         == [drawing : Drawings, trim : Trims \cup {Full}]
Routing      == [token : Nat, changed : Draft]
Confirmation == [key : Keys, body : Body]
Request      == [sent : Confirmation, publishingDraft : Draft]

ASSUME NothingAssumption ==
    /\ NoTimer \notin Routing
    /\ Nothing \notin Confirmation \cup Request

Phases  == {"idle", "routing", "ready", "error"}

VARIABLES
    draft,         \* draftRef.current
    phase,         \* routePhase
    token,         \* routeToken.current
    timer,         \* what the pending timer will route
    routings,      \* what routers are at work on
    loaded,        \* the router is loaded
    confirmation,  \* the dialog: its payload and request id
    request,       \* what publishConfirmed awaits, with its publishingDraft
    stored,        \* the draft in local storage
    list,          \* the segments of the answer on its way, once read
    segments,      \* ids of the segments shown
    selected,      \* selectedId
    net, server,   \* publications on their way, and those the API has stored
    nextKey, reloads,
    asked          \* history: the revision the last routing was asked for

page == << phase, token, timer, routings, loaded, asked >>
list_vars == << list, segments, selected >>
api  == << net, server >>
vars == << draft, page, confirmation, request, stored, list_vars, api,
           nextKey, reloads >>

PhaseOf(d) == IF d.whole THEN "ready" ELSE "idle"

(* A new page; its list is asked for at once.                              *)
Init ==
    /\ draft = NewDraft /\ stored \in {NoDraft, NewDraft}
    /\ phase = PhaseOf(NewDraft)
    /\ token = 0 /\ timer = NoTimer /\ routings = {} /\ loaded = FALSE /\ asked = 0
    /\ confirmation = Nothing /\ request = Nothing
    /\ list = Nothing /\ segments = <<>> /\ selected = NoKey
    /\ net = {} /\ server = {}
    /\ nextKey = 1 /\ reloads = 0

-----------------------------------------------------------------------------
(* updateDraft, and the effect of a new draft                              *)
UpdateDraft(next) == draft' = next /\ stored' \in {next, stored}

(* The controls are enabled, and another revision is within the bound.     *)
Editable == draft.status = "draft" /\ draft.revision <= MaxRevision

SlipTimerIsKept(changed) ==
    /\ phase' = "routing" /\ token' = token + 1 /\ asked' = changed.revision
    /\ timer' = IF timer = NoTimer THEN [token |-> token + 1, changed |-> changed] ELSE timer

(* routeChangedDraft from its token on: the pending timer is replaced.     *)
AskForRouting(changed) ==
    /\ phase' = "routing" /\ token' = token + 1 /\ asked' = changed.revision
    /\ timer' = [token |-> token + 1, changed |-> changed]

RouteChangedDraft(changed) ==
    IF loaded /\ changed.drawing # Few THEN AskForRouting(changed)
    ELSE phase' = "idle" /\ UNCHANGED << token, timer, asked >>

(* applyEdit with rerouting: an edit of the points, undo or redo.  Undo    *)
(* and redo bring back other legs and trims as well.                       *)
ApplyEdit(drawing, whole, trim) ==
    LET changed == [draft EXCEPT !.revision = @ + 1, !.drawing = drawing, !.whole = whole,
                                 !.trim = trim]
    IN  /\ Editable /\ (drawing = Few => ~whole /\ trim = Full)
        /\ Cardinality(routings) < MaxRoutings
        /\ UpdateDraft(changed)
        /\ RouteChangedDraft(changed)
        /\ UNCHANGED << routings, loaded, confirmation, request, list_vars, api,
                        nextKey, reloads >>

(* applyEdit without rerouting: the sliders are shown for a whole route.   *)
TrimDraft(trim) ==
    /\ Editable /\ draft.whole
    /\ UpdateDraft([draft EXCEPT !.revision = @ + 1, !.trim = trim])
    /\ UNCHANGED << page, confirmation, request, list_vars, api, nextKey, reloads >>

(* Without a name in the input it only stores the draft.                   *)
SaveDraft ==
    /\ Editable
    /\ UpdateDraft(draft) \/ UpdateDraft([draft EXCEPT !.revision = @ + 1])
    /\ UNCHANGED << page, confirmation, request, list_vars, api, nextKey, reloads >>

-----------------------------------------------------------------------------
RouterLoads ==
    /\ ~loaded /\ loaded' = TRUE
    /\ UNCHANGED << draft, phase, token, timer, routings, asked, confirmation, request,
                    stored, list_vars, api, nextKey, reloads >>

TimerFires ==
    /\ timer # NoTimer
    /\ timer' = NoTimer
    /\ routings' = routings \cup {timer}
    /\ UNCHANGED << draft, phase, token, loaded, asked, confirmation, request, stored,
                    list_vars, api, nextKey, reloads >>

SlipTokenOnly(r) == r.token = token

(* The result is of the draft as it is now.                                *)
IsCurrent(r) == r.token = token /\ draft.revision = r.changed.revision

(* recomputeInvalidatedLegs routes all that is missing; setLegResult drops *)
(* the selection while legs are missing.                                   *)
Routed(d) == { [d EXCEPT !.whole = TRUE, !.trim = trim] : trim \in {d.trim, Full} }

RoutingSucceeds(r) ==
    /\ routings' = routings \ {r}
    /\ IF IsCurrent(r)
       THEN /\ \E routed \in Routed(r.changed) : UpdateDraft(routed)
            /\ phase' = "ready"
       ELSE UNCHANGED << draft, stored, phase >>
    /\ UNCHANGED << token, timer, loaded, asked, confirmation, request, list_vars, api,
                    nextKey, reloads >>

RoutingFails(r) ==
    /\ routings' = routings \ {r}
    /\ phase' = IF r.token = token THEN "error" ELSE phase
    /\ UNCHANGED << draft, token, timer, loaded, asked, confirmation, request, stored,
                    list_vars, api, nextKey, reloads >>

-----------------------------------------------------------------------------
Payload(d) == [drawing |-> d.drawing, trim |-> d.trim]

(* reviewPublication; it only says so if the draft cannot be prepared.     *)
ReviewPublication ==
    LET ready == [draft EXCEPT !.revision = @ + 2, !.status = "ready"]
    IN  /\ Editable /\ phase = "ready" /\ draft.whole
        /\ nextKey <= MaxKeys /\ nextKey' = nextKey + 1
        /\ UpdateDraft(ready)
        /\ confirmation' = [key |-> nextKey, body |-> Payload(ready)]
        /\ UNCHANGED << page, request, list_vars, api, reloads >>

(* publishConfirmed up to its await.  A second touch does nothing: a draft *)
(* that is being published cannot begin to be.                             *)
PublishConfirmed ==
    LET publishing == [draft EXCEPT !.revision = @ + 1, !.status = "publishing"]
    IN  /\ confirmation # Nothing /\ request = Nothing
        /\ draft.status = "ready" /\ draft.revision <= MaxReady
        /\ UpdateDraft(publishing)
        /\ request' = [sent |-> confirmation, publishingDraft |-> publishing]
        /\ net' = net \cup {confirmation}
        /\ UNCHANGED << page, confirmation, list_vars, server, nextKey, reloads >>

(* What SegmentsApi shows of publishV2: a key is published once.           *)
Receive(m) ==
    /\ net' = net \ {m}
    /\ server' = IF \E row \in server : row.key = m.key THEN server ELSE server \cup {m}
    /\ UNCHANGED << draft, page, confirmation, request, stored, list_vars,
                    nextKey, reloads >>

SlipAppendsPublished(id) ==
    /\ segments' = << id >> \o segments
    /\ selected' = id

(* The sequence s without id, as its filter makes it.                      *)
Without(s, id) ==
    LET kept[i \in 0..Len(s)] ==
            IF i = 0 THEN <<>>
            ELSE IF s[i] = id THEN kept[i - 1] ELSE Append(kept[i - 1], s[i])
    IN  kept[Len(s)]

(* nextViewerState on published                                            *)
ShowPublished(id) ==
    /\ segments' = << id >> \o Without(segments, id)
    /\ selected' = id

SlipUncheckedAnswer ==
    /\ request # Nothing
    /\ UpdateDraft([request.publishingDraft EXCEPT !.revision = @ + 1, !.status = "published"])
    /\ confirmation' = Nothing /\ request' = Nothing
    /\ ShowPublished(request.sent.key)
    /\ UNCHANGED << page, list, api, nextKey, reloads >>

(* publishSegmentV2 checks the answer and returns the stored segment.      *)
PublishingSucceeds ==
    /\ request # Nothing /\ request.sent \in server
    /\ UpdateDraft([request.publishingDraft EXCEPT !.revision = @ + 1, !.status = "published"])
    /\ confirmation' = Nothing /\ request' = Nothing
    /\ ShowPublished(request.sent.key)
    /\ UNCHANGED << page, list, api, nextKey, reloads >>

(* Any other answer, one that cannot be read, or none.                     *)
PublishingFails ==
    /\ request # Nothing
    /\ request' = Nothing
    /\ UpdateDraft(IF draft.status = "publishing"
                   THEN [draft EXCEPT !.revision = @ + 1, !.status = "ready"] ELSE draft)
    /\ UNCHANGED << page, confirmation, list_vars, api, nextKey, reloads >>

Resumed(d) == [d EXCEPT !.revision = @ + 1, !.status = "draft"]

SlipDialogStays ==
    /\ (confirmation # Nothing /\ request = Nothing) \/ draft.status = "published"
    /\ UpdateDraft(IF draft.status \in {"ready", "published"} THEN Resumed(draft) ELSE draft)
    /\ UNCHANGED << page, confirmation, request, list_vars, api, nextKey, reloads >>

(* Back to edit, or continue editing a private copy.                       *)
ReturnToEditing ==
    /\ (confirmation # Nothing /\ request = Nothing) \/ draft.status = "published"
    /\ UpdateDraft(IF draft.status \in {"ready", "published"} THEN Resumed(draft) ELSE draft)
    /\ confirmation' = Nothing
    /\ UNCHANGED << page, request, list_vars, api, nextKey, reloads >>

-----------------------------------------------------------------------------
(* The API answers the page's only read of the list.                       *)
ReadSegments ==
    /\ list = Nothing
    /\ list' = [rows |-> { row.key : row \in server }, arrived |-> FALSE]
    /\ UNCHANGED << draft, page, confirmation, request, stored, segments, selected,
                    api, nextKey, reloads >>

(* nextViewerState on data-ready and, with no rows, on data-error          *)
ShowRows(rows) ==
    /\ segments' = SetToSeq(rows)
    /\ selected' = IF selected \in rows THEN selected ELSE NoKey

ListArrives ==
    /\ list # Nothing /\ ~list.arrived
    /\ list' = [list EXCEPT !.arrived = TRUE]
    /\ ShowRows(list.rows) \/ ShowRows({})
    /\ UNCHANGED << draft, page, confirmation, request, stored, api, nextKey, reloads >>

Select(id) ==
    /\ selected' = id
    /\ UNCHANGED << draft, page, confirmation, request, stored, list, segments, api,
                    nextKey, reloads >>

(* restoreLocalDraft                                                       *)
Restored(d) ==
    IF d = NoDraft THEN NewDraft
    ELSE IF d.status = "publishing" THEN Resumed([d EXCEPT !.revision = @ + 1])
    ELSE IF d.status = "ready" THEN Resumed(d)
    ELSE d

Reload ==
    /\ reloads < MaxReloads /\ reloads' = reloads + 1
    /\ UpdateDraft(Restored(stored))
    /\ phase' = PhaseOf(draft')
    /\ token' = 0 /\ timer' = NoTimer /\ routings' = {} /\ loaded' = FALSE /\ asked' = 0
    /\ confirmation' = Nothing /\ request' = Nothing
    /\ list' = Nothing /\ segments' = <<>> /\ selected' = NoKey
    /\ UNCHANGED << api, nextKey >>

Touch ==
    \/ \E drawing \in Drawings \cup {Few}, whole \in BOOLEAN, trim \in Trims \cup {Full} :
          ApplyEdit(drawing, whole, trim)
    \/ \E trim \in Trims \cup {Full} : TrimDraft(trim)
    \/ SaveDraft \/ ReviewPublication \/ PublishConfirmed \/ ReturnToEditing
    \/ \E id \in ToSet(segments) : Select(id)

RoutingEnds == \E r \in routings : RoutingSucceeds(r) \/ RoutingFails(r)

Next ==
    \/ Touch
    \/ RouterLoads \/ TimerFires \/ RoutingEnds
    \/ \E m \in net : Receive(m)
    \/ PublishingSucceeds \/ PublishingFails
    \/ ReadSegments \/ ListArrives
    \/ Reload

Spec == Init /\ [][Next]_vars

(* Timers fire and the router settles its promises.                        *)
FairSpec == Spec /\ WF_vars(TimerFires) /\ WF_vars(RoutingEnds)

-----------------------------------------------------------------------------
(* The variables keep their types.                                         *)
TypeOK ==
    /\ draft \in Draft /\ stored \in Draft \cup {NoDraft}
    /\ phase \in Phases /\ token \in Nat /\ asked \in Nat
    /\ timer \in Routing \cup {NoTimer} /\ routings \subseteq Routing
    /\ confirmation \in Confirmation \cup {Nothing} /\ request \in Request \cup {Nothing}
    /\ list \in [rows : SUBSET Keys, arrived : BOOLEAN] \cup {Nothing}
    /\ segments \in Seq(Keys) /\ selected \in Keys \cup {NoKey}
    /\ net \cup server \subseteq Confirmation

(* A routing that ends late takes nothing back: the points, the revision   *)
(* and the place in the lifecycle are those the person left, whatever was  *)
(* edited, saved, trimmed or undone while the router was at work.          *)
LateRoutingKeepsDraft ==
    [][ \A r \in routings \ routings' :
          reloads' = reloads =>
            /\ draft' = [draft EXCEPT !.whole = draft'.whole, !.trim = draft'.trim]
            /\ draft'.trim \in {draft.trim, Full} /\ (draft.whole => draft'.whole) ]_vars

(* The dialog confirms the draft as it is now: ready or being published,   *)
(* wholly routed, with the payload that was built when it was reviewed.    *)
ConfirmationIsCurrent ==
    confirmation # Nothing =>
        /\ draft.status = IF request = Nothing THEN "ready" ELSE "publishing"
        /\ draft.whole /\ confirmation.body = Payload(draft)

(* What the page calls published is stored, as the draft has it, through   *)
(* late and lost answers, retries and reloads.                             *)
PublishedDraftIsStored ==
    draft.status = "published" => \E row \in server : row.body = Payload(draft)

(* The list shows a segment once, and the one selected is in it: a retry   *)
(* may bring a segment that the list has already shown, and the list may   *)
(* come after a publication it does not have.                              *)
ListIsSound ==
    /\ \A i, j \in 1..Len(segments) : segments[i] = segments[j] => i = j
    /\ selected # NoKey => selected \in ToSet(segments)

(* "Routing locally..." comes to an end, unless the draft was trimmed or   *)
(* saved under a name meanwhile: the result is then dropped, the legs stay *)
(* missing and nothing asks for them until the next edit.                  *)
RoutingComesToAnEnd ==
    phase = "routing" ~> (phase # "routing" \/ draft.revision # asked)

=============================================================================
