---------------------------- MODULE MobileStudio ----------------------------
(***************************************************************************)
(* The phone's controller (apps/mobile/app.js) with the screen that drives *)
(* it (App.tsx), the file its drafts are saved in and the API it publishes *)
(* to.                                                                     *)
(*                                                                         *)
(* An operation changes the state at once, queues the envelope of the new  *)
(* state for saving, and ends when that save is done; a publication then   *)
(* waits for the API as well.  In between the person may touch whatever    *)
(* the screen leaves enabled, a link may open, or the app may die.  The    *)
(* native router answers within the turn that asks it, so an edit and the  *)
(* routing of its legs are one step.                                       *)
(*                                                                         *)
(* Data kept: of the draft its status, its route (NoRoute unless every leg *)
(* is routed) and its name; the edits themselves are those of RouteDraft.  *)
(* A publication lives longer than a behaviour here: nothing expires.  The *)
(* app was built with an API: without one, requestPublish only says so.    *)
(*                                                                         *)
(* An operator named Slip... is a plausible slip in the definition after   *)
(* it, as in RouteEdits.                                                   *)
(***************************************************************************)
EXTENDS Integers, Sequences, FiniteSets

CONSTANTS
    Routes,       \* trimmed geometries a draft can have
    NoRoute,      \* some leg is missing, or there is none
    Names,        \* valid segment names
    NoName,       \* nameInput is empty
    NoKey,        \* pendingPublishKey is null
    NoFile,       \* there is no envelope in the sandbox that can be parsed
    MaxOps,       \* bound: operations under way at once
    MaxKeys,      \* bound: request ids ever drawn
    MaxFailures   \* bound: saves that fail

ASSUME MobileStudioAssumption ==
    /\ NoRoute \notin Routes /\ NoName \notin Names
    /\ MaxOps \in Nat \ {0} /\ MaxKeys \in Nat \ {0} /\ MaxFailures \in Nat
    /\ NoKey \notin 1..MaxKeys

VARIABLES
    mem,       \* the controller's state
    queue,     \* persistenceQueue: the envelopes to save, each with its operation
    disk,      \* the saved envelope
    ops,       \* the operations under way
    shown,     \* what the screen shows: studio
    busy,      \* the screen's busy flag
    net,       \* requests on their way to the API
    server,    \* publications the API has stored
    nextKey,   \* the next id uuid() draws
    failures,  \* saves that failed
    sent,      \* history: every request made
    doubt      \* history: id of a publication not given up and not seen to succeed

vars == << mem, queue, disk, ops, shown, busy, net, server, nextKey, failures, sent, doubt >>

Slots == 1..MaxOps
Keys  == 1..MaxKeys
Body  == [name : Names \cup {NoName}, route : Routes \cup {NoRoute}]

Envelope ==
    [ status    : {"draft", "ready", "publishing", "published"},
      route     : Routes \cup {NoRoute},
      draftName : Names \cup {NoName},
      name      : Names \cup {NoName},
      key       : Keys \cup {NoKey} ]

ASSUME NoFileAssumption == NoFile \notin Envelope

PublishStatuses == {"idle", "confirming", "publishing", "failed", "published"}

State == [env : Envelope, publishStatus : PublishStatuses]

Shown ==
    [ status : {"draft", "ready", "publishing", "published"},
      publishStatus : PublishStatuses, body : Body ]

(* What an operation waits for, and what the screen does at its end.       *)
Op ==
    [ pc   : {"none", "save", "confirm", "request", "saveOutcome", "linkOrigin",
              "linkDestination"},
      ui   : {"run", "name", "trim", "nothing"},
      key  : Keys \cup {NoKey},
      body : Body ]

(* A place in the persistence queue.                                       *)
Entry == [env : Envelope, op : Slots]

NoBody == [name |-> NoName, route |-> NoRoute]
NoOp   == [pc |-> "none", ui |-> "nothing", key |-> NoKey, body |-> NoBody]

NewEnvelope ==
    [ status |-> "draft", route |-> NoRoute, draftName |-> NoName, name |-> NoName,
      key |-> NoKey ]

NewState == [env |-> NewEnvelope, publishStatus |-> "idle"]

(* getDraftMetrics and the studio record, as far as the screen looks.      *)
Snapshot(s) ==
    [ status |-> s.env.status, publishStatus |-> s.publishStatus,
      body |-> [name |-> s.env.name, route |-> s.env.route] ]

(* boot: a publication that was under way is to be tried again.            *)
Boot(saved) ==
    IF saved = NoFile THEN NewState
    ELSE [ env |-> [saved EXCEPT !.status = IF @ = "publishing" THEN "ready" ELSE @],
           publishStatus |-> IF saved.key # NoKey THEN "failed" ELSE "idle" ]

Init ==
    /\ mem = NewState /\ queue = <<>> /\ disk = NoFile
    /\ ops = [o \in Slots |-> NoOp]
    /\ shown = Snapshot(NewState) /\ busy = FALSE
    /\ net = {} /\ server = {} /\ nextKey = 1 /\ failures = 0
    /\ sent = {} /\ doubt = NoKey

-----------------------------------------------------------------------------
(* A new operation takes the first slot that is free.                      *)
Free(o) == ops[o].pc = "none" /\ \A p \in 1..(o - 1) : ops[p].pc # "none"

(* persist: the state as it is now is saved after all the earlier ones.    *)
Persist(earlier, s, o) ==
    /\ mem' = s
    /\ queue' = Append(earlier, [env |-> s.env, op |-> o])

(* An operation changes the state, saves it, and waits as op says.         *)
Begin(o, s, op) ==
    /\ Free(o)
    /\ Persist(queue, s, o)
    /\ ops' = [ops EXCEPT ![o] = op]

(* The screen's run(): busy until the operation ends.                      *)
Run(o, s, op) == Begin(o, s, [op EXCEPT !.ui = "run"]) /\ busy' = TRUE /\ UNCHANGED shown

Saving == [NoOp EXCEPT !.pc = "save"]

(* It ends: what the screen then shows is the state of now, not of then.   *)
End(o, ok) ==
    /\ ops' = [ops EXCEPT ![o] = NoOp]
    /\ busy' = (busy /\ ops[o].ui # "run")
    /\ shown' = IF ops[o].ui = "run" \/ (ok /\ ops[o].ui \in {"name", "trim"})
                THEN Snapshot(mem) ELSE shown

(* The confirmation covers the screen while it is shown.                   *)
Confirmation == shown.status = "ready" /\ shown.publishStatus = "confirming"
Touchable    == ~busy /\ shown.status # "publishing" /\ ~Confirmation

(* markEdited *)
Edited(s) == [s EXCEPT !.publishStatus = "idle", !.env.key = NoKey]

(* Every edit that goes through run: taps, removals, moves, undo, redo,    *)
(* loops, trims in steps.  A tap on the map only asks that nothing is busy.*)
(* NoRoute is also an edit that the router finds no leg for: it is saved   *)
(* before it throws.                                                       *)
Edit(o, route) ==
    /\ ~busy /\ ~Confirmation
    /\ mem.env.status = "draft"
    /\ Run(o, Edited([mem EXCEPT !.env.route = route]), Saving)
    /\ doubt' = NoKey
    /\ UNCHANGED << disk, net, server, nextKey, failures, sent >>

(* The trim handles: not through run, and only the last drag is shown.  A  *)
(* drag may end after the screen was locked.                               *)
DragTrim(o, route) ==
    /\ shown.body.route # NoRoute
    /\ mem.env.status = "draft"
    /\ Free(o)
    /\ Persist(queue, Edited([mem EXCEPT !.env.route = route]), o)
    /\ ops' = [ p \in Slots |->
                 IF p = o THEN [Saving EXCEPT !.ui = "trim"]
                 ELSE IF ops[p].ui = "trim" THEN [ops[p] EXCEPT !.ui = "nothing"]
                 ELSE ops[p] ]
    /\ doubt' = NoKey
    /\ UNCHANGED << disk, shown, busy, net, server, nextKey, failures, sent >>

(* The name and the button to publish are live on the same screens.        *)
Reviewable == Touchable /\ shown.body.route # NoRoute /\ shown.publishStatus # "published"

SlipNameKeepsKey(o, name) ==
    /\ Reviewable
    /\ Begin(o, [mem EXCEPT !.env.name = name, !.publishStatus = "idle"],
             [Saving EXCEPT !.ui = "name"])
    /\ shown' = [shown EXCEPT !.body.name = name]
    /\ doubt' = NoKey
    /\ UNCHANGED << disk, busy, net, server, nextKey, failures, sent >>

(* setName, in any status of the draft, and not through run.               *)
SetName(o, name) ==
    /\ Reviewable
    /\ Begin(o, Edited([mem EXCEPT !.env.name = name]), [Saving EXCEPT !.ui = "name"])
    /\ shown' = [shown EXCEPT !.body.name = name]
    /\ doubt' = NoKey
    /\ UNCHANGED << disk, busy, net, server, nextKey, failures, sent >>

SlipNewDraftUnsaved(o) ==
    /\ Touchable /\ Free(o)
    /\ mem' = NewState /\ shown' = Snapshot(NewState)
    /\ doubt' = NoKey
    /\ UNCHANGED << queue, disk, ops, busy, net, server, nextKey, failures, sent >>

NewDraft(o) ==
    /\ Touchable
    /\ Run(o, NewState, Saving)
    /\ doubt' = NoKey
    /\ UNCHANGED << disk, net, server, nextKey, failures, sent >>

(* A link opens: a new draft and a tap at each end, whatever the screen is *)
(* doing.                                                                  *)
OpenLink(o) ==
    /\ Run(o, NewState, [NoOp EXCEPT !.pc = "linkOrigin"])
    /\ doubt' = NoKey
    /\ UNCHANGED << disk, net, server, nextKey, failures, sent >>

-----------------------------------------------------------------------------
(* What setDraftName, prepareDraftForPublication and the payload require.  *)
Preparable ==
    /\ mem.env.status \in {"draft", "ready"}
    /\ mem.env.name # NoName /\ mem.env.route # NoRoute

(* pendingPublishKey ?? uuid()                                             *)
KeyToUse == IF mem.env.key = NoKey THEN nextKey ELSE mem.env.key
DrawKey  ==
    /\ mem.env.key = NoKey => nextKey <= MaxKeys
    /\ nextKey' = IF mem.env.key = NoKey THEN nextKey + 1 ELSE nextKey

(* The state once a publication under the key has been asked for.          *)
Reviewed(draftName, key) ==
    [mem EXCEPT !.env.status = "ready", !.env.draftName = draftName, !.env.key = key,
                !.publishStatus = "confirming"]

SlipAlwaysNewKey(o) ==
    /\ Reviewable /\ Preparable
    /\ nextKey <= MaxKeys /\ nextKey' = nextKey + 1
    /\ Run(o, Reviewed(mem.env.name, nextKey), Saving)
    /\ UNCHANGED << disk, net, server, failures, sent, doubt >>

SlipReadyKeepsName(o) ==
    /\ Reviewable /\ Preparable /\ DrawKey
    /\ Run(o, Reviewed(IF mem.env.status = "ready" THEN mem.env.draftName ELSE mem.env.name,
                       KeyToUse), Saving)
    /\ UNCHANGED << disk, net, server, failures, sent, doubt >>

RequestPublish(o) ==
    /\ Reviewable /\ Preparable /\ DrawKey
    /\ Run(o, Reviewed(mem.env.name, KeyToUse), Saving)
    /\ UNCHANGED << disk, net, server, failures, sent, doubt >>

CancelPublish(o) ==
    /\ Confirmation
    /\ Run(o, [mem EXCEPT !.env.status = IF @ = "ready" THEN "draft" ELSE @,
                          !.env.key = NoKey, !.publishStatus = "idle"], Saving)
    /\ doubt' = NoKey
    /\ UNCHANGED << disk, net, server, nextKey, failures, sent >>

Confirmable ==
    /\ mem.publishStatus \in {"confirming", "failed"}
    /\ mem.env.status \in {"ready", "publishing"}

(* confirmPublish up to its first save: the payload is that of this moment.*)
ConfirmPublish(o) ==
    /\ Confirmation /\ Confirmable /\ DrawKey
    /\ Run(o, [mem EXCEPT !.env.status = "publishing", !.env.key = KeyToUse,
                          !.publishStatus = "publishing"],
              [NoOp EXCEPT !.pc = "confirm", !.key = KeyToUse,
                           !.body = [name |-> mem.env.draftName, route |-> mem.env.route]])
    /\ doubt' = KeyToUse
    /\ UNCHANGED << disk, net, server, failures, sent >>

Resumable == mem.env.status \in {"ready", "published"}

(* The button is shown, and never disabled, while the screen says published.*)
ResumeEditing(o) ==
    /\ shown.publishStatus = "published" /\ Resumable
    /\ Run(o, [mem EXCEPT !.env.status = "draft", !.publishStatus = "idle"], Saving)
    /\ doubt' = NoKey
    /\ UNCHANGED << disk, net, server, nextKey, failures, sent >>

(* What run() does when the operation throws before it changes anything.   *)
Refuse ==
    /\ \/ ~busy /\ ~Confirmation /\ mem.env.status # "draft"
       \/ Reviewable /\ ~Preparable
       \/ Confirmation /\ ~Confirmable
       \/ shown.publishStatus = "published" /\ ~Resumable
    /\ shown' = Snapshot(mem)
    /\ busy' = FALSE
    /\ UNCHANGED << mem, queue, disk, ops, net, server, nextKey, failures, sent, doubt >>

-----------------------------------------------------------------------------
(* The save at the head of the queue is done; its operation goes on.       *)
Saved(pcs) == queue # <<>> /\ ops[Head(queue).op].pc \in pcs /\ disk' = Head(queue).env

SaveThenEnd ==
    LET o == Head(queue).op
    IN  /\ Saved({"save", "saveOutcome"})
        /\ queue' = Tail(queue)
        /\ End(o, TRUE)
        /\ doubt' = IF doubt = ops[o].key THEN NoKey ELSE doubt
        /\ UNCHANGED << mem, net, server, nextKey, failures, sent >>

SaveThenSend ==
    LET o       == Head(queue).op
        request == [key |-> ops[o].key, body |-> ops[o].body]
    IN  /\ Saved({"confirm"})
        /\ queue' = Tail(queue)
        /\ ops' = [ops EXCEPT ![o].pc = "request"]
        /\ net' = net \cup {request}
        /\ sent' = sent \cup {request}
        /\ UNCHANGED << mem, shown, busy, server, nextKey, failures, doubt >>

(* The next tap of a link.  It throws if the draft is not editable; on a   *)
(* draft that has points it also throws if the router finds no leg.        *)
SaveThenTap(route) ==
    LET o       == Head(queue).op
        first   == ops[o].pc = "linkOrigin"
        another == first /\ (route # NoRoute \/ mem.env = NewEnvelope)
    IN  /\ Saved({"linkOrigin", "linkDestination"})
        /\ IF mem.env.status = "draft"
           THEN /\ first /\ mem.env = NewEnvelope => route = NoRoute
                /\ Persist(Tail(queue), Edited([mem EXCEPT !.env.route = route]), o)
                /\ ops' = [ops EXCEPT ![o].pc = IF another THEN "linkDestination" ELSE "save"]
                /\ doubt' = NoKey
                /\ UNCHANGED << shown, busy >>
           ELSE /\ queue' = Tail(queue)
                /\ End(o, FALSE)
                /\ UNCHANGED << mem, doubt >>
        /\ UNCHANGED << net, server, nextKey, failures, sent >>

SlipFailureKeepsDraft(o, earlier) ==
    /\ queue' = earlier /\ End(o, FALSE) /\ UNCHANGED mem

SlipFailureReopens(o, earlier) ==
    IF mem.env.status = "publishing"
    THEN /\ Persist(earlier, [mem EXCEPT !.env.status = "draft", !.publishStatus = "failed"], o)
         /\ ops' = [ops EXCEPT ![o] = [Saving EXCEPT !.ui = "run"]]
         /\ UNCHANGED << shown, busy >>
    ELSE queue' = earlier /\ End(o, FALSE) /\ UNCHANGED mem

(* catch of confirmPublish: failDraftPublication throws unless the draft   *)
(* the state holds by now is being published.                              *)
CatchPublication(o, earlier) ==
    IF mem.env.status = "publishing"
    THEN /\ Persist(earlier, [mem EXCEPT !.env.status = "ready", !.publishStatus = "failed"], o)
         /\ ops' = [ops EXCEPT ![o] = [Saving EXCEPT !.ui = "run"]]
         /\ UNCHANGED << shown, busy >>
    ELSE queue' = earlier /\ End(o, FALSE) /\ UNCHANGED mem

(* writeAsStringAsync fails, and may leave a torn file.                    *)
SaveFails ==
    LET o == Head(queue).op
    IN  /\ queue # <<>> /\ failures < MaxFailures
        /\ failures' = failures + 1
        /\ disk' \in {disk, NoFile}
        /\ IF ops[o].pc = "saveOutcome" THEN CatchPublication(o, Tail(queue))
           ELSE queue' = Tail(queue) /\ End(o, FALSE) /\ UNCHANGED mem
        /\ doubt' = IF doubt \in { m.key : m \in sent } THEN doubt ELSE NoKey
        /\ UNCHANGED << net, server, nextKey, sent >>

SlipAnyAnswerSucceeds(o) == TRUE

(* 200 or 201: the publication under this id is this one.                  *)
Succeeded(o) == [key |-> ops[o].key, body |-> ops[o].body] \in server

(* The API answers 200 or 201.  completeDraftPublication throws into the   *)
(* catch unless the draft the state holds by now is being published.       *)
AnswerOk(o) ==
    /\ ops[o].pc = "request" /\ Succeeded(o)
    /\ IF mem.env.status = "publishing"
       THEN /\ Persist(queue, [mem EXCEPT !.env.status = "published", !.env.key = NoKey,
                                          !.publishStatus = "published"], o)
            /\ ops' = [ops EXCEPT ![o].pc = "saveOutcome"]
            /\ UNCHANGED << shown, busy >>
       ELSE CatchPublication(o, queue)
    /\ UNCHANGED << disk, net, server, nextKey, failures, sent, doubt >>

(* Any other answer, or none in time.                                      *)
AnswerFails(o) ==
    /\ ops[o].pc = "request"
    /\ CatchPublication(o, queue)
    /\ UNCHANGED << disk, net, server, nextKey, failures, sent, doubt >>

(* What SegmentsApi shows of publishV2: a key is published once.           *)
Receive(request) ==
    /\ net' = net \ {request}
    /\ server' = IF \E row \in server : row.key = request.key THEN server
                 ELSE server \cup {request}
    /\ UNCHANGED << mem, queue, disk, ops, shown, busy, nextKey, failures, sent, doubt >>

(* The app dies, perhaps within a save, and starts again.                  *)
Restart ==
    /\ disk' \in {disk} \cup (IF queue = <<>> THEN {} ELSE {Head(queue).env, NoFile})
    /\ mem' = Boot(disk')
    /\ shown' = Snapshot(mem')
    /\ queue' = <<>> /\ busy' = FALSE
    /\ ops' = [o \in Slots |-> NoOp]
    /\ doubt' = IF disk' # NoFile /\ doubt \in { m.key : m \in sent } THEN doubt ELSE NoKey
    /\ UNCHANGED << net, server, nextKey, failures, sent >>

Touch(o) ==
    \/ \E route \in Routes \cup {NoRoute} : Edit(o, route)
    \/ \E route \in Routes : DragTrim(o, route)
    \/ \E name \in Names : SetName(o, name)
    \/ NewDraft(o) \/ OpenLink(o)
    \/ RequestPublish(o) \/ CancelPublish(o) \/ ConfirmPublish(o) \/ ResumeEditing(o)

SaveEnds ==
    \/ SaveThenEnd \/ SaveThenSend \/ SaveFails
    \/ \E route \in Routes \cup {NoRoute} : SaveThenTap(route)

Answer(o) == AnswerOk(o) \/ AnswerFails(o)

Next ==
    \/ \E o \in Slots : Touch(o) \/ Answer(o)
    \/ Refuse
    \/ SaveEnds
    \/ \E request \in net : Receive(request)
    \/ Restart

Spec == Init /\ [][Next]_vars

(* The file system ends every save and fetch every request; what the       *)
(* person does, and whether the request arrives, is open.                  *)
FairSpec == Spec /\ WF_vars(SaveEnds) /\ \A o \in Slots : WF_vars(Answer(o))

-----------------------------------------------------------------------------
(* The variables keep their types.                                         *)
TypeOK ==
    /\ mem \in State
    /\ queue \in Seq(Entry)
    /\ disk \in Envelope \cup {NoFile}
    /\ ops \in [Slots -> Op]
    /\ shown \in Shown /\ busy \in BOOLEAN
    /\ net \subseteq sent /\ server \subseteq sent
    /\ sent \subseteq [key : Keys, body : Body]
    /\ nextKey \in 1..(MaxKeys + 1) /\ failures \in 0..MaxFailures
    /\ doubt \in Keys \cup {NoKey}

(* A request id is never sent with two bodies, so that the API has no      *)
(* conflict to report, whatever was renamed, retried, reopened or restored.*)
KeyNamesOneBody == \A m, n \in sent : m.key = n.key => m.body = n.body

(* A publication that may have been stored is retried under its own id:    *)
(* until the person edits, renames, cancels, leaves or is told, the state  *)
(* holds the id, through lost answers, failed saves and restarts that find *)
(* a whole file.                                                           *)
RetryKeepsRequestId ==
    doubt # NoKey => mem.env.key = doubt \/ mem.env.status = "published"

(* What is sent is what the confirmation shows when it is touched.         *)
ConfirmedIsSent ==
    [][ \A o \in Slots :
          ops[o].pc = "none" /\ ops'[o].pc = "confirm" => ops'[o].body = shown.body ]_vars

(* Nothing is lost by a restart: whenever no operation is under way, and   *)
(* no save has failed, it brings back the draft, the name and the id.      *)
RestartBringsBack ==
    (\A o \in Slots : ops[o].pc = "none") /\ failures = 0 => Boot(disk).env = mem.env

(* The person is told published only of a draft the API has stored, unless *)
(* the answer is that to a draft which a link replaced while it was being  *)
(* published: confirmPublish applies it to whatever is being published now.*)
PublishedIsStored ==
    [][ mem.publishStatus # "published" /\ mem'.publishStatus = "published" =>
          \/ [ key |-> mem.env.key,
               body |-> [name |-> mem'.env.draftName, route |-> mem'.env.route] ] \in server
          \/ \E o \in Slots : ops'[o].pc = "saveOutcome" /\ ops[o].key # mem.env.key ]_vars

(* What is to be confirmed or retried is a ready draft, so that confirming *)
(* it does not throw.                                                      *)
RetryIsPossible ==
    mem.publishStatus \in {"confirming", "failed"} => mem.env.status = "ready"

(* The controls are locked while a publication is under way; it comes to   *)
(* an end, unless a save fails.                                            *)
PublicationEnds ==
    (mem.publishStatus = "publishing" /\ failures = 0)
        ~> (mem.publishStatus # "publishing" \/ failures > 0)

(* app.js: "Publication failed; retry keeps the same draft and request ID."*)
FailedKeepsRequestId == mem.publishStatus = "failed" => mem.env.key # NoKey

=============================================================================
