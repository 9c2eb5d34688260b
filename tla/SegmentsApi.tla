---------------------------- MODULE SegmentsApi ----------------------------
(***************************************************************************)
(* The publish and nearby handlers of apps/api/src/index.ts, as concurrent *)
(* requests against the segments table of D1.  What a handler does between *)
(* two of its awaits is one step: the rate limiter, the purge batch, the   *)
(* select by key, the insert batch, the second select, the nearby query.   *)
(* A call of D1 may fail before it does anything, an insert that was       *)
(* committed may be reported as failed, and a handler may be cancelled     *)
(* between any two steps.  Nothing reaches the client then.                *)
(*                                                                         *)
(* Data kept: the idempotency key, the body (equal bodies are those whose  *)
(* canonical JSON has one hash), and the clock in ticks.  All segments lie *)
(* in the area that nearby asks about.  The id of a request stands for the *)
(* random id of the row it would insert.                                   *)
(***************************************************************************)
EXTENDS Integers, FiniteSets

CONSTANTS
    Requests,     \* every HTTP request that is ever made; a retry is a new one
    Keys,         \* idempotency keys
    NoKey,        \* the header is missing; the column is NULL
    Bodies,       \* publications that pass the validation
    WideBodies,   \* those that span more than cellsPerSegment cells
    NoHash,       \* idempotency_body_hash of a v1 row is NULL
    Seed,         \* id of the permanent reference row
    Minute,       \* ticks of a minute
    Ttl,          \* ttlHours, in ticks
    ListLimit,    \* queryLimit of the nearby handlers
    MaxStall,     \* bound: ticks a request may take
    MaxClock      \* bound: the last tick

(* A request takes far less time than a segment lives.                     *)
ASSUME SegmentsApiAssumption ==
    /\ Minute \in Nat \ {0} /\ Ttl \in Nat /\ Ttl % Minute = 0
    /\ MaxStall \in Nat /\ MaxClock \in Nat
    /\ 2 * MaxStall + Minute <= Ttl
    /\ ListLimit \in Nat \ {0}
    /\ WideBodies \subseteq Bodies
    /\ NoHash \notin Bodies /\ NoKey \notin Keys /\ Seed \notin Requests

Never == MaxClock + Ttl + 1  \* expires_at of the seed: NULL, after every other time

Row ==
    [ id        : Requests \cup {Seed},
      key       : Keys \cup {NoKey},
      hash      : Bodies \cup {NoHash},
      body      : Bodies \cup {Seed},   \* what the other columns hold
      createdAt : Nat,
      expiresAt : Nat ]

SeedRow ==
    [ id |-> Seed, key |-> NoKey, hash |-> NoHash, body |-> Seed,
      createdAt |-> 0, expiresAt |-> Never ]

VARIABLES
    clock,      \* now(), in ticks
    store,      \* the rows of table segments, with their segment_cells
    req,        \* what each request has read, and its answer
    published   \* history: the rows ever inserted, each with the tick of its insert

vars == << clock, store, req, published >>

Request ==
    [ pc      : {"idle", "limit", "purge", "select", "insert", "reselect", "query", "done"},
      api     : {"none", "v1", "v2", "nearby"},
      key     : Keys \cup {NoKey},
      body    : Bodies \cup {NoHash},
      arrived : Nat,
      now     : Nat,           \* minuteIso(now()) as the handler read it
      known   : SUBSET Row,    \* history: what had been answered when a nearby arrived
      faulted : BOOLEAN,       \* history: a call of D1 failed on it
      status  : {"none", "created", "saved", "listed", "conflict", "refused", "failed"},
      rows    : SUBSET Row ]   \* the segments of the answer

NewRequest ==
    [ pc |-> "idle", api |-> "none", key |-> NoKey, body |-> NoHash, arrived |-> 0,
      now |-> 0, known |-> {}, faulted |-> FALSE, status |-> "none", rows |-> {} ]

Init ==
    /\ clock = 0
    /\ store = {SeedRow}
    /\ req = [r \in Requests |-> NewRequest]
    /\ published = {}

-----------------------------------------------------------------------------
(* minuteIso *)
MinuteOf(t) == t - (t % Minute)

InFlight(r) == req[r].pc \notin {"idle", "done"}

Goto(r, pc) == req' = [req EXCEPT ![r].pc = pc]

(* An answer with segments: 201 is created, 200 saved or listed.           *)
Answer(r, status, rows) ==
    req' = [req EXCEPT ![r].pc = "done", ![r].status = status, ![r].rows = rows]

(* An answer without: 409 is conflict, 500 failed, and 400, 413, 429 and   *)
(* 503 are refused.  Nothing the handler had read matters any more.        *)
AnswerError(r, status) ==
    req' = [req EXCEPT ![r] = [NewRequest EXCEPT !.pc = "done", !.status = status,
                                                 !.faulted = req[r].faulted]]

Refused(r) == AnswerError(r, "refused")

(* What publishers were told is published, and the seed.                   *)
Answered ==
    {SeedRow} \cup UNION { req[r].rows : r \in { q \in Requests : req[q].api # "nearby" } }

(* Method, path, origin, content type, size, body, key or bbox are refused.*)
Refuse(r) ==
    /\ req[r].pc = "idle"
    /\ Refused(r)
    /\ UNCHANGED << clock, store, published >>

(* A v1 publish may come without a key, a v2 publish may not.              *)
ArrivePublish(r, api, key, body) ==
    /\ req[r].pc = "idle"
    /\ api = "v2" => key # NoKey
    /\ req' = [req EXCEPT ![r] = [@ EXCEPT !.pc = "limit", !.api = api, !.key = key,
                                           !.body = body, !.arrived = clock]]
    /\ UNCHANGED << clock, store, published >>

ArriveNearby(r) ==
    /\ req[r].pc = "idle"
    /\ req' = [req EXCEPT ![r] = [@ EXCEPT !.pc = "limit", !.api = "nearby",
                                           !.arrived = clock, !.known = Answered]]
    /\ UNCHANGED << clock, store, published >>

(* CloudflareRateLimiter.enforce, and the reading of the clock after it.   *)
Limit(r) ==
    /\ req[r].pc = "limit"
    /\ \/ req' = [req EXCEPT ![r].now = MinuteOf(clock),
                             ![r].pc = IF req[r].api = "nearby" THEN "query" ELSE "purge"]
       \/ Refused(r)
    /\ UNCHANGED << clock, store, published >>

(* No row was found by key: metrics and cells, up to the insert batch.     *)
Prepare(r) ==
    IF req[r].body \in WideBodies THEN Refused(r) ELSE Goto(r, "insert")

SlipPurgeKeepsLastMinute(rows, now) == { row \in rows : row.expiresAt >= now }

(* purgeStatements *)
Purged(rows, now) == { row \in rows : row.expiresAt > now }

Purge(r) ==
    /\ req[r].pc = "purge"
    /\ store' = Purged(store, req[r].now)
    /\ IF req[r].key = NoKey THEN Prepare(r) ELSE Goto(r, "select")
    /\ UNCHANGED << clock, published >>

Holders(r) == { row \in store : row.key = req[r].key }

SlipReplayIgnoresBody(r) == \E row \in Holders(r) : Answer(r, "saved", {row})

(* The key is taken: the saved segment, or a conflict if a v2 publication  *)
(* has another body.                                                       *)
Replay(r) ==
    \E row \in Holders(r) :
        IF req[r].api = "v2" /\ row.hash # req[r].body
        THEN AnswerError(r, "conflict")
        ELSE Answer(r, "saved", {row})

Select(r) ==
    /\ req[r].pc = "select"
    /\ IF Holders(r) = {} THEN Prepare(r) ELSE Replay(r)
    /\ UNCHANGED << clock, store, published >>

NewRow(r) ==
    [ id        |-> r,
      key       |-> req[r].key,
      hash      |-> IF req[r].api = "v2" THEN req[r].body ELSE NoHash,
      body      |-> req[r].body,
      createdAt |-> req[r].now,
      expiresAt |-> MinuteOf(req[r].now + Ttl) ]

SlipUniqueKeyAndBody(r) ==
    req[r].key = NoKey \/ \A row \in Holders(r) : row.hash # NewRow(r).hash

(* idempotency_key_hash is UNIQUE; NULLs are distinct.                     *)
KeyIsFree(r) == req[r].key = NoKey \/ Holders(r) = {}

(* The batch is one transaction.                                           *)
Commit(r) ==
    /\ KeyIsFree(r)
    /\ store' = store \cup {NewRow(r)}
    /\ published' = published \cup {[row |-> NewRow(r), at |-> clock]}

Insert(r) ==
    /\ req[r].pc = "insert"
    /\ Commit(r)
    /\ Answer(r, "created", {NewRow(r)})
    /\ UNCHANGED clock

Failed(r, faulted) ==
    req' = [req EXCEPT ![r] = [NewRequest EXCEPT !.pc = "done", !.status = "failed",
                                                 !.faulted = req[r].faulted \/ faulted]]

SlipInsertGivesUp(r, faulted) == Failed(r, faulted)

(* catch of the insert batch: the key may hold a row now.                  *)
InsertFailed(r, faulted) ==
    IF req[r].key = NoKey THEN Failed(r, faulted)
    ELSE req' = [req EXCEPT ![r].pc = "reselect", ![r].faulted = @ \/ faulted]

InsertRejected(r) ==
    /\ req[r].pc = "insert"
    /\ ~KeyIsFree(r)
    /\ InsertFailed(r, FALSE)
    /\ UNCHANGED << clock, store, published >>

(* D1 reports a failure, before or after the commit.                       *)
InsertFaults(r) ==
    /\ req[r].pc = "insert"
    /\ Commit(r) \/ UNCHANGED << store, published >>
    /\ InsertFailed(r, TRUE)
    /\ UNCHANGED clock

Reselect(r) ==
    /\ req[r].pc = "reselect"
    /\ IF Holders(r) = {} THEN Failed(r, FALSE) ELSE Replay(r)
    /\ UNCHANGED << clock, store, published >>

SlipVisible(row, now) == row.id = Seed \/ row.createdAt + Ttl > now + Minute

(* listNearbySegmentsQuery: newest first; the order of a minute is open.   *)
Visible(row, now) == row.id = Seed \/ row.expiresAt > now

Query(r) ==
    /\ req[r].pc = "query"
    /\ LET visible == { row \in store : Visible(row, req[r].now) }
       IN  \E rows \in SUBSET visible :
              /\ Cardinality(rows) =
                    IF Cardinality(visible) < ListLimit THEN Cardinality(visible) ELSE ListLimit
              /\ \A row \in rows, other \in visible \ rows : row.createdAt >= other.createdAt
              /\ Answer(r, "listed", rows)
    /\ UNCHANGED << clock, store, published >>

(* Any other call of D1 fails: the handler ends with internal_error.       *)
DatabaseFaults(r) ==
    /\ req[r].pc \in {"purge", "select", "reselect", "query"}
    /\ Failed(r, TRUE)
    /\ UNCHANGED << clock, store, published >>

(* The client leaves or the isolate is evicted.                            *)
Cancel(r) ==
    /\ InFlight(r)
    /\ AnswerError(r, "none")
    /\ UNCHANGED << clock, store, published >>

Tick ==
    /\ clock < MaxClock
    /\ \A r \in Requests : InFlight(r) => clock - req[r].arrived < MaxStall
    /\ clock' = clock + 1
    /\ UNCHANGED << store, req, published >>

Handle(r) ==
    \/ Limit(r) \/ Purge(r) \/ Select(r) \/ Insert(r) \/ InsertRejected(r)
    \/ InsertFaults(r) \/ Reselect(r) \/ Query(r) \/ DatabaseFaults(r) \/ Cancel(r)

Next ==
    \/ Tick
    \/ \E r \in Requests :
          \/ Refuse(r)
          \/ \E api \in {"v1", "v2"}, key \in Keys \cup {NoKey}, body \in Bodies :
                ArrivePublish(r, api, key, body)
          \/ ArriveNearby(r)
          \/ Handle(r)

Spec == Init /\ [][Next]_vars

-----------------------------------------------------------------------------
(* The variables keep their types.                                         *)
TypeOK ==
    /\ clock \in 0..MaxClock
    /\ store \subseteq Row
    /\ req \in [Requests -> Request]
    /\ published \subseteq [row : Row, at : 0..MaxClock]

(* docs/api-explain.md: 201 for the first request, 200 for a repeat.       *)
(* Whatever requests race, are retried, cancelled or half fail, a key is   *)
(* published a second time only after its first publication has expired.   *)
KeyPublishesOnce ==
    \A p, q \in published :
        p.row.key # NoKey /\ p.row.key = q.row.key /\ p # q
        => p.at >= q.row.expiresAt \/ q.at >= p.row.expiresAt

(* A v2 client that is told 200 or 201 has the body it sent published, in  *)
(* the select before the insert and in the one after a lost race alike.    *)
AnswerMatchesBody ==
    \A r \in Requests :
        req[r].api = "v2" => \A row \in req[r].rows : row.body = req[r].body

(* Losing a race for a key is no failure: internal_error means that a call *)
(* of D1 did fail.                                                         *)
OnlyFaultsFail ==
    \A r \in Requests : req[r].status = "failed" => req[r].faulted

(* User rows expire after 24 hours (docs/adr/0003-spatial-index.md): none  *)
(* is listed, or replayed, to a request that arrives Ttl after its insert. *)
NothingOutlivesItsTtl ==
    \A r \in Requests, p \in published :
        p.row \in req[r].rows => req[r].arrived - p.at < Ttl

(* A nearby request lists what had been answered before it arrived, unless *)
(* it expires meanwhile, when a publish may purge it just before the query,*)
(* or the list is full of segments at least as new.                        *)
PublicationsAreListed ==
    \A r \in Requests :
        req[r].status = "listed" =>
            \A row \in req[r].known :
                \/ row \in req[r].rows
                \/ row.expiresAt <= req[r].arrived + MaxStall
                \/ /\ Cardinality(req[r].rows) = ListLimit
                   /\ \A other \in req[r].rows : other.createdAt >= row.createdAt

=============================================================================
