---------------------------- MODULE LiveVerifier ----------------------------
(***************************************************************************)
(* The smoke test tools/live/verify-api-lib.mjs against the segments API   *)
(* it is run on: one look-up of the host, then five calls in order, each   *)
(* under a timer that covers its headers and its body.  The calls are      *)
(* requests of SegmentsApi; other clients publish meanwhile.  A call may   *)
(* be lost, reach the Worker after its timer has fired, be answered by     *)
(* something else than the Worker, or break off within its body.           *)
(*                                                                         *)
(* A payload is the rows it shows.  Of a row the verifier's contract tells *)
(* the verifier's own publication, the bytes it takes, and what the API    *)
(* stores and lists though the verifier does not admit it: a geometry that *)
(* is too long, a distance that rounds to nothing, a name of many          *)
(* surrogate pairs.  Every other check of a record holds of each row the   *)
(* API can store.                                                          *)
(***************************************************************************)
EXTENDS SegmentsApi, FiniteSetsExt

CONSTANTS
    PublishCall, ReplayCall, ConflictCall, NearbyCall,  \* the requests of the verifier
    VerifierKey,       \* the UUID it draws
    Route, Probe,      \* publishBody, and publishBody under another name
    LongBodies,        \* bodies whose encodedGeometry exceeds 4096 characters
    FlatBodies,        \* bodies whose distance rounds to 0 m
    WideNames,         \* bodies whose name, of 80 characters at most, is more UTF-16 units
    Bytes,             \* what a listed row takes
    MaxResponseBytes,
    Families,          \* of addresses, looked up side by side
    Addresses,
    PublicAddresses    \* those isPublicIp admits

CallOf ==
    [ publish |-> PublishCall, replay |-> ReplayCall,
      conflict |-> ConflictCall, nearby |-> NearbyCall ]

Calls == { PublishCall, ReplayCall, ConflictCall, NearbyCall }
Others == Requests \ Calls

(* Nothing expires while the verifier runs: 48 seconds at most.  What it   *)
(* publishes, three points, is far from the 64 KiB that it reads.          *)
ASSUME LiveVerifierAssumption ==
    /\ Calls \subseteq Requests
    /\ \A s, t \in DOMAIN CallOf : CallOf[s] = CallOf[t] => s = t
    /\ VerifierKey \in Keys
    /\ LongBodies \cup FlatBodies \cup WideNames \subseteq Bodies
    /\ {Route, Probe} \subseteq Bodies \ (WideBodies \cup LongBodies \cup FlatBodies \cup WideNames)
    /\ Route # Probe
    /\ Bytes \in [Bodies \cup {Seed} -> Nat] /\ MaxResponseBytes \in Nat
    /\ Bytes[Route] <= MaxResponseBytes
    /\ PublicAddresses \subseteq Addresses
    /\ MaxClock < Ttl

VARIABLE verifier

liveVars == << vars, verifier >>

StepAfter ==
    [ start |-> "resolve", resolve |-> "health", health |-> "publish", publish |-> "replay",
      replay |-> "conflict", conflict |-> "nearby", nearby |-> "nearby" ]

AllowedStatuses ==
    [ publish |-> {"created", "saved"}, replay |-> {"saved"},
      conflict |-> {"conflict"}, nearby |-> {"listed"} ]

Verifier ==
    [ step      : DOMAIN StepAfter,
      phase     : {"send", "wait", "read"},      \* of the step
      outcome   : {"running", "passed", "failed"},
      sent      : SUBSET Requests,               \* calls on their way, or there
      awaited   : SUBSET Families,               \* look-ups that have not settled
      records   : SUBSET Addresses,
      told      : SUBSET Row,                    \* published.payload
      disturbed : BOOLEAN ]    \* history: the URL, the network or the service let it down

LiveInit ==
    /\ Init
    /\ verifier = [ step |-> "start", phase |-> "send", outcome |-> "running", sent |-> {},
                    awaited |-> Families, records |-> {}, told |-> {}, disturbed |-> FALSE ]

-----------------------------------------------------------------------------
At(step, phase) ==
    verifier.outcome = "running" /\ verifier.step = step /\ verifier.phase = phase

AtCall(phase) == \E step \in DOMAIN CallOf : At(step, phase)

Call == CallOf[verifier.step]

(* fail *)
Fail(disturbed) ==
    verifier' = [verifier EXCEPT !.outcome = "failed", !.disturbed = disturbed,
                                 !.awaited = {}, !.records = {}]

Proceed(told) ==
    verifier' = [verifier EXCEPT
        !.step    = StepAfter[verifier.step],
        !.phase   = IF verifier.step = "start" THEN "wait" ELSE "send",
        !.outcome = IF verifier.step = "nearby" THEN "passed" ELSE "running",
        !.records = {},
        !.told    = told]

(* The URL is a workers.dev origin over HTTPS, or is refused.              *)
Start ==
    /\ At("start", "send")
    /\ Proceed({}) \/ Fail(TRUE)
    /\ UNCHANGED vars

(* resolve4 and resolve6 settle in either order; a rejection is no record. *)
FamilySettles(family) ==
    /\ At("resolve", "wait")
    /\ family \in verifier.awaited
    /\ \E addresses \in SUBSET Addresses :
          verifier' = [verifier EXCEPT !.awaited = @ \ {family}, !.records = @ \cup addresses]
    /\ UNCHANGED vars

(* One address that is not public is one too many.                         *)
LookupEnds ==
    /\ At("resolve", "wait")
    /\ verifier.awaited = {}
    /\ IF verifier.records # {} /\ verifier.records \subseteq PublicAddresses
       THEN Proceed({})
       ELSE Fail(TRUE)
    /\ UNCHANGED vars

(* The timer wins the race; what the cancelled look-up finds is ignored.   *)
LookupTimesOut ==
    /\ At("resolve", "wait")
    /\ Fail(TRUE)
    /\ UNCHANGED vars

(* A call is sent once: nothing is tried again.                            *)
Send ==
    /\ At("health", "send") \/ AtCall("send")
    /\ verifier' = [verifier EXCEPT
          !.phase = "wait",
          !.sent  = @ \cup (IF verifier.step = "health" THEN {} ELSE {Call})]
    /\ UNCHANGED vars

(* A call that was sent reaches the Worker sooner or later, or never.      *)
CallArrives(step) ==
    /\ CallOf[step] \in verifier.sent
    /\ IF step = "nearby"
       THEN ArriveNearby(CallOf[step])
       ELSE ArrivePublish(CallOf[step], "v2", VerifierKey,
                          IF step = "conflict" THEN Probe ELSE Route)
    /\ UNCHANGED verifier

(* GET /health asks D1 for a 1.                                            *)
HealthAnswers ==
    /\ At("health", "wait")
    /\ verifier' = [verifier EXCEPT !.phase = "read"] \/ Fail(TRUE)
    /\ UNCHANGED vars

(* The headers of the Worker's answer; another status ends the run.        *)
HeadersArrive ==
    /\ AtCall("wait")
    /\ req[Call].pc = "done" /\ req[Call].status # "none"
    /\ IF req[Call].status \in AllowedStatuses[verifier.step]
       THEN verifier' = [verifier EXCEPT !.phase = "read"]
       ELSE Fail(req[Call].status = "refused" \/ req[Call].faulted)
    /\ UNCHANGED vars

(* The network fails, the isolate is gone, or what answers is not the      *)
(* Worker: another status, other headers, or no such JSON.                 *)
CallBreaks ==
    /\ verifier.outcome = "running"
    /\ verifier.step \in {"health"} \cup DOMAIN CallOf
    /\ verifier.phase \in {"wait", "read"}
    /\ Fail(TRUE)
    /\ UNCHANGED vars

SlipTimerCoversHeaders == verifier.phase = "wait"

(* clearTimeout comes last, after the body has been read.                  *)
TimerRuns == verifier.phase \in {"wait", "read"}

SlipCarriesOn ==
    /\ verifier.outcome = "running"
    /\ verifier.step \in {"health"} \cup DOMAIN CallOf
    /\ TimerRuns
    /\ Proceed(verifier.told)
    /\ UNCHANGED vars

RequestTimesOut ==
    /\ verifier.outcome = "running"
    /\ verifier.step \in {"health"} \cup DOMAIN CallOf
    /\ TimerRuns
    /\ Fail(TRUE)
    /\ UNCHANGED vars

-----------------------------------------------------------------------------
(* A row of v1 has no name of its own: it is a "Legacy segment".           *)
Named(row) == row.hash # NoHash

(* assertSegmentRecord, of a row the API maps.                             *)
SegmentRecord(row) ==
    /\ row.body \notin LongBodies
    /\ row.body \notin FlatBodies
    /\ Named(row) => row.body \notin WideNames

(* ... and of the verifier's own publication.                              *)
PublishedRecord(row) == SegmentRecord(row) /\ row.body = Route /\ row.id # Seed

(* readBoundedJson *)
WithinBytes(rows) == MapThenSumSet(LAMBDA row : Bytes[row.body], rows) <= MaxResponseBytes

SlipRereadAnyRoute(rows) == \E row \in rows : PublishedRecord(row)

RereadUnchanged(rows) == verifier.told \subseteq rows

PayloadAccepted(rows) ==
    /\ WithinBytes(rows)
    /\ CASE verifier.step = "publish"  -> \A row \in rows : PublishedRecord(row)
         [] verifier.step = "replay"   -> /\ \A row \in rows : PublishedRecord(row)
                                          /\ rows = verifier.told
         [] verifier.step = "conflict" -> rows = {}
         [] verifier.step = "nearby"   -> /\ \A row \in rows : SegmentRecord(row)
                                          /\ RereadUnchanged(rows)

BodyIsRead ==
    /\ \/ At("health", "read") /\ Proceed({})
       \/ /\ AtCall("read")
          /\ LET rows == req[Call].rows
             IN  IF PayloadAccepted(rows)
                 THEN Proceed(IF verifier.step = "publish" THEN rows ELSE verifier.told)
                 ELSE Fail(FALSE)
    /\ UNCHANGED vars

-----------------------------------------------------------------------------
VerifierStep ==
    \/ Start \/ LookupEnds \/ LookupTimesOut \/ Send \/ HealthAnswers
    \/ HeadersArrive \/ CallBreaks \/ RequestTimesOut \/ BodyIsRead
    \/ \E family \in Families : FamilySettles(family)

(* Other clients cannot know the verifier's key.                           *)
OtherPublishes(r) ==
    /\ \E api \in {"v1", "v2"}, key \in (Keys \ {VerifierKey}) \cup {NoKey}, body \in Bodies :
          ArrivePublish(r, api, key, body)
    /\ UNCHANGED verifier

ApiStep == Tick \/ \E r \in Requests : Handle(r)

LiveNext ==
    \/ VerifierStep
    \/ \E step \in DOMAIN CallOf : CallArrives(step)
    \/ \E r \in Others : OtherPublishes(r)
    \/ ApiStep /\ UNCHANGED verifier

(* The verifier's process runs, and its timers fire.  Nothing is asked of  *)
(* the Worker, of the network or of the resolvers.                         *)
LiveSpec ==
    /\ LiveInit /\ [][LiveNext]_liveVars
    /\ WF_liveVars(Start) /\ WF_liveVars(Send)
    /\ WF_liveVars(LookupTimesOut) /\ WF_liveVars(RequestTimesOut)

-----------------------------------------------------------------------------
(* The verifier's variable keeps its type.                                 *)
VerifierTypeOK == TypeOK /\ verifier \in Verifier

(* LIVE_API_OK (docs/testing.md): when the verifier passes, the API has    *)
(* published its route once, under its key and as it was sent, told it the *)
(* row, and listed it.                                                     *)
PassMeansListed ==
    verifier.outcome = "passed" =>
        \E row \in store :
            /\ verifier.told = {row} /\ row \in req[NearbyCall].rows
            /\ row.key = VerifierKey /\ row.body = Route
            /\ { p.row : p \in { q \in published : q.row.key = VerifierKey } } = {row}

(* The conflict probe would be a publication of its own if it came first:  *)
(* however calls are delayed, lost or overtaken by their timers, the run   *)
(* leaves at most one row behind, and it is the route.                     *)
LeavesAtMostItsRoute ==
    /\ \A p \in published : p.row.key = VerifierKey => p.row.body = Route
    /\ Cardinality({ p \in published : p.row.key = VerifierKey }) <= 1

(* A run that no fault disturbed fails at its last step only, and only for *)
(* what others published: the list was full of newer segments, or shows a  *)
(* segment that is too long, has no length, or has too wide a name for the *)
(* verifier, or all together take more bytes than it reads.                *)
HealthyApiPasses ==
    verifier.outcome = "failed" /\ ~verifier.disturbed =>
        LET rows == req[NearbyCall].rows
        IN  /\ verifier.step = "nearby"
            /\ \/ /\ Cardinality(rows) = ListLimit
                  /\ \A told \in verifier.told, row \in rows : row.createdAt >= told.createdAt
               \/ \E row \in rows : \/ row.body \in LongBodies \cup FlatBodies
                                    \/ Named(row) /\ row.body \in WideNames
               \/ ~WithinBytes(rows)

(* The verifier comes to an end, whatever is slow: a look-up, a header, or *)
(* a body that stops half-way.                                             *)
VerifierEnds == <>(verifier.outcome # "running")

=============================================================================
