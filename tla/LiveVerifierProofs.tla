------------------------- MODULE LiveVerifierProofs -------------------------
(***************************************************************************)
(* Theorems of SegmentsApi, and of LiveVerifier, which runs it.            *)
(*                                                                         *)
(* The API's hold for any requests, keys, bodies and times, and cite no    *)
(* assumption but SegmentsApi's.  They rest on one inductive invariant,    *)
(* IInv: what is in the table was inserted and is purged no earlier than   *)
(* it expires; no request acts on a clock older than MaxStall; and what a  *)
(* request has selected stays true until it acts upon it.                  *)
(*                                                                         *)
(* The verifier's hold for any other clients, any sizes and any times its  *)
(* assumption allows.  The API keeps IInv, since all that is done to it is *)
(* done by its requests.  As nothing expires, its table only grows; and so *)
(* the row that the verifier was told of is there when its replay and its  *)
(* conflict probe select by key, whatever is late.                         *)
(***************************************************************************)
EXTENDS LiveVerifier, FiniteSetTheorems, TLAPS

(* Arithmetic of whole minutes.                                            *)
LEMMA Quotient ==
  ASSUME NEW a \in Nat, NEW m \in Nat \ {0}, a % m = 0
  PROVE  \E k \in Nat : a = k * m
<1>1. a = (a \div m) * m + (a % m)
  BY Z3
<1>2. a \div m \in Nat
  BY Z3
<1> QED BY <1>1, <1>2

LEMMA ModMultiple ==
  ASSUME NEW m \in Nat \ {0}, NEW k \in Nat
  PROVE  (k * m) % m = 0
BY Z3

LEMMA MinuteBounds ==
  ASSUME NEW t \in Nat
  PROVE  /\ MinuteOf(t) \in Nat /\ MinuteOf(t) <= t /\ t < MinuteOf(t) + Minute
         /\ MinuteOf(t) % Minute = 0
<1>1. t % Minute \in 0..(Minute - 1) /\ t % Minute <= t
  BY SegmentsApiAssumption
<1>2. (t - (t % Minute)) % Minute = 0
  BY SegmentsApiAssumption
<1> QED BY <1>1, <1>2, SegmentsApiAssumption DEF MinuteOf

LEMMA WholeMinutes ==
  ASSUME NEW a \in Nat, NEW b \in Nat, a % Minute = 0, b % Minute = 0
  PROVE  /\ (a + b) % Minute = 0
         /\ a < b => a + Minute <= b
<1>1. PICK j \in Nat : a = j * Minute
  BY Quotient, SegmentsApiAssumption
<1>2. PICK k \in Nat : b = k * Minute
  BY Quotient, SegmentsApiAssumption
<1>3. a + b = (j + k) * Minute /\ j + k \in Nat
  BY <1>1, <1>2, SegmentsApiAssumption
<1>4. (a + b) % Minute = 0
  BY <1>3, ModMultiple, SegmentsApiAssumption
<1>5. ASSUME a < b PROVE a + Minute <= b
  <2>1. j < k
    BY <1>1, <1>2, <1>5, SegmentsApiAssumption
  <2>2. (j + 1) * Minute <= k * Minute
    BY <2>1, SegmentsApiAssumption
  <2> QED BY <2>2, <1>1, <1>2, SegmentsApiAssumption
<1> QED BY <1>4, <1>5

-----------------------------------------------------------------------------
Publishing == {"purge", "select", "insert", "reselect"}

(* The table holds the seed and what was inserted and not yet purged.      *)
StoreOK ==
    /\ SeedRow \in store /\ IsFiniteSet(store)
    /\ \A row \in store : row = SeedRow \/ \E p \in published : p.row = row

(* What was inserted lives Ttl, counted from the minute its request read,  *)
(* and is purged no earlier.                                               *)
RecordOK(p) ==
    /\ p.row.id \in Requests
    /\ p.row.body \in Bodies /\ p.row.hash \in {NoHash, p.row.body}
    /\ p.row.createdAt % Minute = 0 /\ p.row.expiresAt = p.row.createdAt + Ttl
    /\ p.row.createdAt <= p.at /\ p.at <= clock /\ p.at < p.row.createdAt + MaxStall + Minute
    /\ p.row \in store \/ p.row.expiresAt <= clock

RecordsOK ==
    /\ \A p \in published : RecordOK(p)
    /\ \A p, q \in published : p.row.id = q.row.id => p = q

InsertsOnce(r) ==
    \A p \in published : p.row.id = r => req[r].pc \in {"reselect", "done"}

InTimeBounds(r) ==
    /\ InFlight(r) => req[r].arrived <= clock /\ clock <= req[r].arrived + MaxStall
    /\ req[r].pc \in Publishing \cup {"query"} =>
          /\ req[r].now <= clock /\ req[r].now % Minute = 0
          /\ req[r].arrived < req[r].now + Minute

FormOK(r) ==
    /\ req[r].pc \in Publishing => req[r].api \in {"v1", "v2"} /\ req[r].body \in Bodies
    /\ req[r].pc = "limit" => req[r].api = "nearby" \/ (req[r].api \in {"v1", "v2"} /\ req[r].body \in Bodies)
    /\ req[r].pc = "query" => req[r].api = "nearby"
    /\ req[r].pc \in {"select", "reselect"} => req[r].key # NoKey
    /\ req[r].pc # "done" => req[r].rows = {} /\ req[r].status = "none"

(* After its purge a handler meets no row that has expired by its clock.   *)
PurgedFor(r) ==
    req[r].pc \in {"select", "insert", "reselect"} => \A row \in store : row.expiresAt > req[r].now

(* After its select it meets only rows of its key inserted meanwhile.      *)
RivalsAreNew(r) ==
    req[r].pc \in {"insert", "reselect"} /\ req[r].key # NoKey =>
        \A p \in published : p.row \in store /\ p.row.key = req[r].key => p.at >= req[r].arrived

(* The row that won the race for a key is there until the loser selects it.*)
RivalStays(r) == req[r].pc = "reselect" => req[r].faulted \/ Holders(r) # {}

AnswerIsPublished(r) ==
    \A row \in req[r].rows : row = SeedRow \/ \E p \in published : p.row = row

KnownIsKept(r) == \A row \in req[r].known : row \in store \/ row.expiresAt <= clock

BodyMatches(r) == req[r].api = "v2" => \A row \in req[r].rows : row.body = req[r].body
FaultFails(r)  == req[r].status = "failed" => req[r].faulted
IsFresh(r)     == \A p \in published : p.row \in req[r].rows => req[r].arrived - p.at < Ttl
IsListed(r) ==
    req[r].status = "listed" =>
        \A row \in req[r].known :
            \/ row \in req[r].rows
            \/ row.expiresAt <= req[r].arrived + MaxStall
            \/ /\ Cardinality(req[r].rows) = ListLimit
               /\ \A other \in req[r].rows : other.createdAt >= row.createdAt

RequestOK(r) ==
    /\ InsertsOnce(r) /\ InTimeBounds(r) /\ FormOK(r)
    /\ PurgedFor(r) /\ RivalsAreNew(r) /\ RivalStays(r)
    /\ AnswerIsPublished(r) /\ KnownIsKept(r)
    /\ BodyMatches(r) /\ FaultFails(r) /\ IsFresh(r) /\ IsListed(r)

IInv == TypeOK /\ StoreOK /\ RecordsOK /\ \A r \in Requests : RequestOK(r)

LEMMA SeedIsRow == SeedRow \in Row
BY SegmentsApiAssumption DEF SeedRow, Row, Never

LEMMA InitHolds == Init => IInv
<1> SUFFICES ASSUME Init PROVE IInv
  OBVIOUS
<1>1. TypeOK
  BY SeedIsRow, SegmentsApiAssumption DEF Init, TypeOK, NewRequest, Request
<1>2. StoreOK
  BY FS_Singleton DEF Init, StoreOK
<1>3. RecordsOK
  BY DEF Init, RecordsOK
<1>4. ASSUME NEW r \in Requests PROVE RequestOK(r)
  BY DEF Init, RequestOK, NewRequest, InsertsOnce, InTimeBounds, InFlight, FormOK, Publishing, PurgedFor,
     RivalsAreNew, RivalStays, AnswerIsPublished, KnownIsKept, BodyMatches, FaultFails, IsFresh, IsListed
<1> QED BY <1>1, <1>2, <1>3, <1>4 DEF IInv

(* A step of one request that leaves the table alone disturbs no other.    *)
LEMMA OthersKeep ==
  ASSUME IInv, NEW r \in Requests, NEW q \in Requests \ {r},
         req'[q] = req[q], UNCHANGED << clock, store, published >>
  PROVE  RequestOK(q)'
<1> RequestOK(q)
  BY DEF IInv
<1> QED
  BY DEF RequestOK, InsertsOnce, InTimeBounds, InFlight, FormOK, PurgedFor, RivalsAreNew, RivalStays, Holders,
         AnswerIsPublished, KnownIsKept, BodyMatches, FaultFails, IsFresh, IsListed

LEMMA TableKeeps ==
  ASSUME IInv, UNCHANGED << clock, store, published >>
  PROVE  StoreOK' /\ RecordsOK'
BY DEF IInv, StoreOK, RecordsOK, RecordOK

(* So such a step needs to be checked of its own request only.             *)
LEMMA OwnStep ==
  ASSUME IInv, NEW r \in Requests, NEW new \in Request, req' = [req EXCEPT ![r] = new],
         UNCHANGED << clock, store, published >>, RequestOK(r)'
  PROVE  IInv'
<1>1. TypeOK'
  BY DEF IInv, TypeOK
<1>2. ASSUME NEW q \in Requests PROVE RequestOK(q)'
  <2>1. CASE q = r
    BY <2>1
  <2>2. CASE q # r
    BY <2>2, OthersKeep DEF IInv, TypeOK
  <2> QED BY <2>1, <2>2
<1> QED BY <1>1, <1>2, TableKeeps DEF IInv

(* An answer without segments ends a request, whatever happens to the table.*)
Ended(status, faulted) ==
    [NewRequest EXCEPT !.pc = "done", !.status = status, !.faulted = faulted]

LEMMA EndIsOK ==
  ASSUME NEW r \in Requests, NEW status \in {"none", "conflict", "refused", "failed"},
         NEW faulted \in BOOLEAN, status = "failed" => faulted, req'[r] = Ended(status, faulted)
  PROVE  RequestOK(r)' /\ Ended(status, faulted) \in Request
<1>1. Ended(status, faulted) \in Request
  BY SegmentsApiAssumption DEF Ended, NewRequest, Request
<1>2. RequestOK(r)'
  BY DEF Ended, NewRequest, RequestOK, InsertsOnce, InTimeBounds, InFlight, FormOK, Publishing, PurgedFor,
     RivalsAreNew, RivalStays, AnswerIsPublished, KnownIsKept, BodyMatches, FaultFails, IsFresh, IsListed
<1> QED BY <1>1, <1>2


LEMMA Typed ==
  ASSUME IInv, NEW r \in Requests
  PROVE  /\ req[r] \in Request /\ clock \in Nat /\ clock <= MaxClock /\ RequestOK(r)
         /\ req[r].arrived \in Nat /\ req[r].now \in Nat /\ req[r].faulted \in BOOLEAN
         /\ req[r].key \in Keys \cup {NoKey} /\ req[r].body \in Bodies \cup {NoHash}
BY SegmentsApiAssumption DEF IInv, TypeOK, Request

LEMMA ErrorKeeps ==
  ASSUME IInv, NEW r \in Requests, NEW status \in {"none", "conflict", "refused"},
         AnswerError(r, status), UNCHANGED << clock, store, published >>
  PROVE  IInv'
<1>1. req' = [req EXCEPT ![r] = Ended(status, req[r].faulted)]
  BY DEF AnswerError, Ended
<1>2. req'[r] = Ended(status, req[r].faulted)
  BY <1>1 DEF IInv, TypeOK
<1> QED BY <1>1, <1>2, EndIsOK, OwnStep, Typed

LEMMA FailureKeeps ==
  ASSUME IInv, NEW r \in Requests, NEW faulted \in BOOLEAN, req[r].faulted \/ faulted,
         Failed(r, faulted), UNCHANGED << clock, store, published >>
  PROVE  IInv'
<1>1. req' = [req EXCEPT ![r] = Ended("failed", TRUE)]
  BY Typed DEF Failed, Ended
<1>2. req'[r] = Ended("failed", TRUE)
  BY <1>1 DEF IInv, TypeOK
<1> QED BY <1>1, <1>2, EndIsOK, OwnStep

LEMMA ArrivePublishKeeps ==
  ASSUME IInv, NEW r \in Requests, NEW api \in {"v1", "v2"}, NEW key \in Keys \cup {NoKey},
         NEW body \in Bodies, ArrivePublish(r, api, key, body)
  PROVE  IInv'
<1> DEFINE new == [req[r] EXCEPT !.pc = "limit", !.api = api, !.key = key, !.body = body,
                                 !.arrived = clock]
<1>1. req' = [req EXCEPT ![r] = new] /\ UNCHANGED << clock, store, published >>
  BY DEF ArrivePublish
<1>2. new \in Request
  BY Typed DEF Request
<1>3. req'[r] = new
  BY <1>1 DEF IInv, TypeOK
<1>4. RequestOK(r)'
  BY <1>1, <1>2, <1>3, Typed, SegmentsApiAssumption DEF ArrivePublish, Request, RequestOK, InsertsOnce, InTimeBounds, InFlight, FormOK, Publishing, PurgedFor,
     RivalsAreNew, RivalStays, AnswerIsPublished, KnownIsKept, BodyMatches, FaultFails, IsFresh, IsListed
<1> QED BY <1>1, <1>2, <1>4, OwnStep

LEMMA AnsweredIsKept ==
  ASSUME IInv, NEW row \in Answered
  PROVE  row \in Row /\ (row \in store \/ row.expiresAt <= clock)
<1>1. CASE row = SeedRow
  BY <1>1, SeedIsRow DEF IInv, StoreOK
<1>2. ASSUME NEW r \in Requests, row \in req[r].rows, row # SeedRow
      PROVE  row \in Row /\ (row \in store \/ row.expiresAt <= clock)
  BY <1>2, Typed DEF IInv, RequestOK, AnswerIsPublished, RecordsOK, RecordOK, Request
<1> QED BY <1>1, <1>2 DEF Answered

LEMMA ArriveNearbyKeeps ==
  ASSUME IInv, NEW r \in Requests, ArriveNearby(r)
  PROVE  IInv'
<1> DEFINE new == [req[r] EXCEPT !.pc = "limit", !.api = "nearby", !.arrived = clock,
                                 !.known = Answered]
<1>1. req' = [req EXCEPT ![r] = new] /\ UNCHANGED << clock, store, published >>
  BY DEF ArriveNearby
<1>2. new \in Request
  BY Typed, AnsweredIsKept DEF Request
<1>3. req'[r] = new
  BY <1>1 DEF IInv, TypeOK
<1>4. new.pc = "limit" /\ new.api = "nearby" /\ new.arrived = clock /\ new.known = Answered
      /\ new.rows = req[r].rows /\ new.status = req[r].status
  BY Typed DEF Request
<1>5. KnownIsKept(r)'
  BY <1>1, <1>3, <1>4, AnsweredIsKept DEF KnownIsKept
<1>6. req[r].pc = "idle" /\ req[r].rows = {} /\ req[r].status = "none"
  BY Typed DEF ArriveNearby, RequestOK, FormOK
<1>7. InsertsOnce(r)'
  BY <1>1, <1>3, <1>6, Typed DEF RequestOK, InsertsOnce
<1>8. RequestOK(r)'
  BY <1>1, <1>3, <1>4, <1>5, <1>6, <1>7, Typed, SegmentsApiAssumption DEF RequestOK, InTimeBounds, InFlight, FormOK, Publishing, PurgedFor,
     RivalsAreNew, RivalStays, AnswerIsPublished, BodyMatches, FaultFails, IsFresh, IsListed
<1> QED BY <1>1, <1>2, <1>8, OwnStep

LEMMA LimitKeeps ==
  ASSUME IInv, NEW r \in Requests, Limit(r)
  PROVE  IInv'
<1> DEFINE pc  == IF req[r].api = "nearby" THEN "query" ELSE "purge"
           new == [req[r] EXCEPT !.now = MinuteOf(clock), !.pc = pc]
<1>1. CASE Refused(r)
  BY <1>1, ErrorKeeps DEF Limit, Refused
<1>2. CASE req' = [req EXCEPT ![r] = new]
  <2>1. /\ MinuteOf(clock) \in Nat /\ MinuteOf(clock) <= clock /\ clock < MinuteOf(clock) + Minute
        /\ MinuteOf(clock) % Minute = 0
    BY MinuteBounds, Typed
  <2>2. new \in Request
    BY Typed, <2>1 DEF Request
  <2>3. req'[r] = new
    BY <1>2 DEF IInv, TypeOK
  <2>4. RequestOK(r)'
    BY <2>1, <2>2, <2>3, Typed, SegmentsApiAssumption DEF Limit, Request, RequestOK, InsertsOnce, InTimeBounds, InFlight, FormOK, Publishing, PurgedFor,
     RivalsAreNew, RivalStays, AnswerIsPublished, KnownIsKept, BodyMatches, FaultFails, IsFresh, IsListed
  <2> QED BY <1>2, <2>2, <2>4, OwnStep DEF Limit
<1> QED BY <1>1, <1>2 DEF Limit


(* A row that has not expired by the minute a request read was not Ttl old *)
(* when the request arrived.                                               *)
LEMMA FreshRow ==
  ASSUME IInv, NEW r \in Requests, NEW p \in published,
         req[r].pc \in Publishing \cup {"query"}, p.row.expiresAt > req[r].now
  PROVE  req[r].arrived - p.at < Ttl
<1>1. p.row \in Row /\ p.at \in Nat /\ RecordOK(p)
  BY DEF IInv, TypeOK, RecordsOK
<1>2. p.row.createdAt \in Nat /\ p.row.expiresAt \in Nat /\ Ttl \in Nat /\ Ttl % Minute = 0
  BY <1>1, SegmentsApiAssumption DEF Row
<1>3. p.row.expiresAt % Minute = 0
  BY <1>1, <1>2, WholeMinutes DEF RecordOK
<1>4. req[r].now % Minute = 0 /\ req[r].arrived < req[r].now + Minute
  BY Typed DEF RequestOK, InTimeBounds
<1>5. req[r].now + Minute <= p.row.expiresAt
  BY <1>2, <1>3, <1>4, WholeMinutes, Typed
<1> QED BY <1>1, <1>2, <1>4, <1>5, Typed, SegmentsApiAssumption DEF RecordOK

LEMMA AnswerKeeps ==
  ASSUME IInv, NEW r \in Requests, NEW status \in {"saved", "listed"}, NEW rows \in SUBSET store,
         req[r].pc \in Publishing \cup {"query"},
         \A row \in rows : row = SeedRow \/ row.expiresAt > req[r].now,
         req[r].api = "v2" => \A row \in rows : row.body = req[r].body,
         status = "listed" =>
            \A row \in req[r].known :
               \/ row \in rows
               \/ row.expiresAt <= req[r].arrived + MaxStall
               \/ /\ Cardinality(rows) = ListLimit
                  /\ \A other \in rows : other.createdAt >= row.createdAt,
         Answer(r, status, rows), UNCHANGED << clock, store, published >>
  PROVE  IInv'
<1> DEFINE new == [req[r] EXCEPT !.pc = "done", !.status = status, !.rows = rows]
<1>1. req' = [req EXCEPT ![r] = new]
  BY DEF Answer
<1>2. rows \subseteq Row
  BY DEF IInv, TypeOK
<1>3. new \in Request
  BY <1>2, Typed DEF Request
<1>4. req'[r] = new
  BY <1>1 DEF IInv, TypeOK
<1>5. /\ new.pc = "done" /\ new.status = status /\ new.rows = rows /\ new.api = req[r].api
      /\ new.body = req[r].body /\ new.arrived = req[r].arrived /\ new.known = req[r].known
      /\ new.faulted = req[r].faulted /\ new.now = req[r].now /\ new.key = req[r].key
  BY Typed DEF Request
<1>6. IsFresh(r)'
  <2> SUFFICES ASSUME NEW p \in published, p.row \in rows PROVE req[r].arrived - p.at < Ttl
    BY <1>4, <1>5 DEF IsFresh
  <2>1. p.row # SeedRow
    BY SegmentsApiAssumption DEF IInv, RecordsOK, RecordOK, SeedRow
  <2> QED BY <2>1, FreshRow
<1>7. AnswerIsPublished(r)'
  BY <1>4, <1>5 DEF AnswerIsPublished, IInv, StoreOK
<1>8. IsListed(r)'
  BY <1>4, <1>5 DEF IsListed
<1>9. RequestOK(r)'
  BY <1>4, <1>5, <1>6, <1>7, <1>8, Typed DEF RequestOK, InsertsOnce, InTimeBounds, InFlight, FormOK,
     Publishing, PurgedFor, RivalsAreNew, RivalStays, KnownIsKept, BodyMatches, FaultFails
<1> QED BY <1>1, <1>3, <1>9, OwnStep

(* A request without a key never gets to the two selects.                  *)
LEMMA ReplayKeeps ==
  ASSUME IInv, NEW r \in Requests, req[r].pc \in {"select", "reselect"}, Replay(r),
         UNCHANGED << clock, store, published >>
  PROVE  IInv'
<1>1. PICK row \in Holders(r) :
         IF req[r].api = "v2" /\ row.hash # req[r].body
         THEN AnswerError(r, "conflict") ELSE Answer(r, "saved", {row})
  BY DEF Replay
<1>2. CASE AnswerError(r, "conflict")
  BY <1>2, ErrorKeeps
<1>3. CASE /\ Answer(r, "saved", {row}) 
           /\ ~(req[r].api = "v2" /\ row.hash # req[r].body)
  <2>1. row \in store /\ row.key = req[r].key /\ req[r].key # NoKey
    BY Typed DEF Holders, RequestOK, FormOK
  <2>2. row.expiresAt > req[r].now
    BY <2>1, Typed DEF RequestOK, PurgedFor
  <2>3. PICK p \in published : p.row = row
    BY <2>1 DEF IInv, StoreOK, SeedRow
  <2>4. row.hash \in {NoHash, row.body}
    BY <2>3 DEF IInv, RecordsOK, RecordOK
  <2>5. req[r].body \in Bodies /\ NoHash \notin Bodies
    BY Typed, SegmentsApiAssumption DEF RequestOK, FormOK, Publishing
  <2>6. req[r].api = "v2" => row.body = req[r].body
    BY <1>3, <2>4, <2>5
  <2> QED BY <1>3, <2>1, <2>2, <2>6, AnswerKeeps DEF Publishing
<1> QED BY <1>1, <1>2, <1>3


LEMMA SelectKeeps ==
  ASSUME IInv, NEW r \in Requests, Select(r)
  PROVE  IInv'
<1>1. CASE Holders(r) # {}
  BY <1>1, ReplayKeeps DEF Select
<1>2. CASE Holders(r) = {} /\ Refused(r)
  BY <1>2, ErrorKeeps DEF Select, Refused
<1>3. CASE Holders(r) = {} /\ Goto(r, "insert")
  <2> DEFINE new == [req[r] EXCEPT !.pc = "insert"]
  <2>1. req' = [req EXCEPT ![r] = new] /\ req'[r] = new /\ UNCHANGED << clock, store, published >>
    BY <1>3 DEF Select, Goto, IInv, TypeOK
  <2>2. new \in Request
    BY Typed DEF Request
  <2>3. \A p \in published : ~(p.row \in store /\ p.row.key = req[r].key)
    BY <1>3 DEF Holders
  <2>4. RequestOK(r)'
    BY <2>1, <2>2, <2>3, Typed DEF Select, Request, RequestOK, InsertsOnce, InTimeBounds, InFlight, FormOK,
       Publishing, PurgedFor, RivalsAreNew, RivalStays, AnswerIsPublished, KnownIsKept, BodyMatches,
       FaultFails, IsFresh, IsListed
  <2> QED BY <2>1, <2>2, <2>4, OwnStep
<1> QED BY <1>1, <1>2, <1>3 DEF Select, Prepare

LEMMA ReselectKeeps ==
  ASSUME IInv, NEW r \in Requests, Reselect(r)
  PROVE  IInv'
<1>1. CASE Holders(r) # {}
  BY <1>1, ReplayKeeps DEF Reselect
<1>2. CASE Holders(r) = {}
  BY <1>2, FailureKeeps, Typed DEF Reselect, RequestOK, RivalStays
<1> QED BY <1>1, <1>2

LEMMA InsertRejectedKeeps ==
  ASSUME IInv, NEW r \in Requests, InsertRejected(r)
  PROVE  IInv'
<1> DEFINE new == [req[r] EXCEPT !.pc = "reselect", !.faulted = req[r].faulted \/ FALSE]
<1>1. req[r].key # NoKey /\ Holders(r) # {} /\ req[r].pc = "insert"
  BY DEF InsertRejected, KeyIsFree
<1>2. req' = [req EXCEPT ![r] = new] /\ req'[r] = new /\ UNCHANGED << clock, store, published >>
  BY <1>1 DEF InsertRejected, InsertFailed, IInv, TypeOK
<1>3. new \in Request
  BY Typed DEF Request
<1>4. new.key = req[r].key
  BY Typed DEF Request
<1>5. RivalStays(r)'
  BY <1>1, <1>2, <1>4 DEF RivalStays, Holders
<1>6. RequestOK(r)'
  BY <1>1, <1>2, <1>3, <1>5, Typed DEF Request, RequestOK, InsertsOnce, InTimeBounds, InFlight, FormOK,
     Publishing, PurgedFor, RivalsAreNew, AnswerIsPublished, KnownIsKept, BodyMatches,
     FaultFails, IsFresh, IsListed
<1> QED BY <1>2, <1>3, <1>6, OwnStep

LEMMA QueryKeeps ==
  ASSUME IInv, NEW r \in Requests, Query(r)
  PROVE  IInv'
<1> DEFINE visible == { row \in store : Visible(row, req[r].now) }
<1>1. PICK rows \in SUBSET visible :
         /\ Cardinality(rows) =
               IF Cardinality(visible) < ListLimit THEN Cardinality(visible) ELSE ListLimit
         /\ \A row \in rows, other \in visible \ rows : row.createdAt >= other.createdAt
         /\ Answer(r, "listed", rows)
  BY DEF Query
<1>2. req[r].pc = "query" /\ req[r].api = "nearby" /\ RequestOK(r) /\ UNCHANGED << clock, store, published >>
  BY Typed DEF Query, RequestOK, FormOK
<1>3. \A row \in store : row.id = Seed => row = SeedRow
  BY SegmentsApiAssumption DEF IInv, StoreOK, RecordsOK, RecordOK
<1>4. \A row \in rows : row = SeedRow \/ row.expiresAt > req[r].now
  BY <1>1, <1>3 DEF Visible
<1>5. IsFiniteSet(visible)
  BY FS_Subset DEF IInv, StoreOK
<1>6. rows # visible => Cardinality(rows) = ListLimit
  BY <1>1, <1>5, FS_Subset, FS_CardinalityType, SegmentsApiAssumption
<1>7. ASSUME NEW row \in req[r].known, row \notin rows
      PROVE  \/ row.expiresAt <= req[r].arrived + MaxStall
             \/ /\ Cardinality(rows) = ListLimit
                /\ \A other \in rows : other.createdAt >= row.createdAt
  <2>1. row \in Row /\ row.expiresAt \in Nat
    BY Typed DEF Request, Row
  <2>2. clock <= req[r].arrived + MaxStall /\ req[r].now <= clock
    BY <1>2 DEF RequestOK, InTimeBounds, InFlight
  <2>3. CASE row \in visible
    BY <2>3, <1>1, <1>6, <1>7
  <2>4. CASE row \notin visible
    <3>1. row \notin store \/ row.expiresAt <= req[r].now
      BY <2>4, <2>1, Typed DEF Visible
    <3>2. row.expiresAt <= clock
      BY <3>1, <1>2, <2>1, <2>2, Typed DEF RequestOK, KnownIsKept
    <3> QED BY <3>2, <2>1, <2>2, Typed, SegmentsApiAssumption
  <2> QED BY <2>3, <2>4
<1> HIDE DEF visible
<1>8. rows \in SUBSET store
  BY <1>1 DEF visible
<1> QED BY <1>1, <1>2, <1>4, <1>7, <1>8, AnswerKeeps

LEMMA TickKeeps ==
  ASSUME IInv, Tick
  PROVE  IInv'
<1>1. clock \in 0..MaxClock /\ clock < MaxClock /\ clock' = clock + 1 /\ UNCHANGED << store, req, published >>
  BY DEF Tick, IInv, TypeOK
<1>2. TypeOK'
  BY <1>1, SegmentsApiAssumption DEF IInv, TypeOK
<1>3. StoreOK'
  BY <1>1 DEF IInv, StoreOK
<1>4. ASSUME NEW p \in published PROVE RecordOK(p)'
  <2>1. p \in [row : Row, at : 0..MaxClock] /\ RecordOK(p)
    BY DEF IInv, TypeOK, RecordsOK
  <2> QED BY <1>1, <2>1, SegmentsApiAssumption DEF RecordOK, Row
<1>5. ASSUME NEW r \in Requests PROVE RequestOK(r)'
  <2>1. InTimeBounds(r)'
    BY <1>1, Typed, SegmentsApiAssumption DEF Tick, RequestOK, InTimeBounds, InFlight
  <2>2. KnownIsKept(r)'
    BY <1>1, Typed, SegmentsApiAssumption DEF RequestOK, KnownIsKept, Request, Row
  <2> QED BY <1>1, <2>1, <2>2, Typed DEF RequestOK, InsertsOnce, FormOK, PurgedFor, RivalsAreNew, RivalStays,
             Holders, AnswerIsPublished, BodyMatches, FaultFails, IsFresh, IsListed
<1> QED BY <1>1, <1>2, <1>3, <1>4, <1>5 DEF IInv, RecordsOK


-----------------------------------------------------------------------------
(* A purge takes only what has expired; the row that a loser of a race is  *)
(* about to select has not, since it was inserted while that loser was     *)
(* under way.                                                              *)
LEMMA PurgeSpares ==
  ASSUME IInv, NEW r \in Requests, req[r].pc = "purge", store' = Purged(store, req[r].now),
         UNCHANGED << clock, published >>
  PROVE  /\ StoreOK' /\ RecordsOK' /\ store' \subseteq store
         /\ \A row \in store' : row.expiresAt > req[r].now
         /\ \A q \in Requests \ {r} : req'[q] = req[q] => RequestOK(q)'
<1>1. req[r].now <= clock /\ req[r].now \in Nat /\ clock \in Nat /\ clock <= MaxClock
  BY Typed DEF RequestOK, InTimeBounds, Publishing
<1>2. store' = { row \in store : row.expiresAt > req[r].now }
  BY DEF Purged
<1>3. \A row \in store : row \in Row /\ row.expiresAt \in Nat
  BY DEF IInv, TypeOK, Row
<1>4. StoreOK'
  <2>1. SeedRow \in store'
    BY <1>1, <1>2, SegmentsApiAssumption DEF IInv, StoreOK, SeedRow, Never
  <2>2. IsFiniteSet(store')
    BY <1>2, FS_Subset DEF IInv, StoreOK
  <2> QED BY <1>2, <2>1, <2>2 DEF IInv, StoreOK
<1>5. \A row \in store : row \in store' \/ row.expiresAt <= clock
  BY <1>1, <1>2, <1>3
<1>6. RecordsOK'
  BY <1>5 DEF IInv, RecordsOK, RecordOK
<1>7. ASSUME NEW q \in Requests \ {r}, req'[q] = req[q] PROVE RequestOK(q)'
  <2>1. KnownIsKept(q)'
    BY <1>5, <1>7, Typed DEF RequestOK, KnownIsKept
  <2>2. RivalStays(q)'
    <3> SUFFICES ASSUME req[q].pc = "reselect", ~req[q].faulted
                 PROVE  \E row \in store' : row.key = req[q].key
      BY <1>7 DEF RivalStays, Holders
    <3>1. PICK row \in store : row.key = req[q].key
      BY Typed DEF RequestOK, RivalStays, Holders
    <3>2. req[q].key # NoKey
      BY Typed DEF RequestOK, FormOK
    <3>3. PICK p \in published : p.row = row
      BY <3>1, <3>2 DEF IInv, StoreOK, SeedRow
    <3>4. p.at >= req[q].arrived /\ clock <= req[q].arrived + MaxStall
      BY <3>1, <3>2, <3>3, Typed DEF RequestOK, RivalsAreNew, InTimeBounds, InFlight
    <3>5. /\ row.expiresAt = row.createdAt + Ttl /\ p.at < row.createdAt + MaxStall + Minute
          /\ row.createdAt \in Nat /\ p.at \in Nat
      BY <3>3 DEF IInv, TypeOK, RecordsOK, RecordOK, Row
    <3>6. row.expiresAt > req[r].now
      BY <3>4, <3>5, <1>1, Typed, SegmentsApiAssumption
    <3> QED BY <3>1, <3>6, <1>2
  <2> QED BY <1>2, <1>7, <2>1, <2>2, Typed DEF RequestOK, InsertsOnce, InTimeBounds, InFlight, FormOK, PurgedFor,
             RivalsAreNew, AnswerIsPublished, BodyMatches, FaultFails, IsFresh, IsListed
<1> QED BY <1>2, <1>4, <1>6, <1>7

LEMMA PurgeKeeps ==
  ASSUME IInv, NEW r \in Requests, Purge(r)
  PROVE  IInv'
<1>1. /\ req[r].pc = "purge" /\ store' = Purged(store, req[r].now) /\ UNCHANGED << clock, published >>
      /\ IF req[r].key = NoKey THEN Prepare(r) ELSE Goto(r, "select")
  BY DEF Purge
<1>2. /\ StoreOK' /\ RecordsOK' /\ store' \subseteq store
      /\ \A row \in store' : row.expiresAt > req[r].now
      /\ \A q \in Requests \ {r} : req'[q] = req[q] => RequestOK(q)'
  BY <1>1, PurgeSpares
<1>3. ASSUME NEW new \in Request, req' = [req EXCEPT ![r] = new], RequestOK(r)'
      PROVE  IInv'
  <2>1. TypeOK'
    BY <1>1, <1>2, <1>3 DEF IInv, TypeOK
  <2>2. ASSUME NEW q \in Requests PROVE RequestOK(q)'
    BY <1>2, <1>3 DEF IInv, TypeOK
  <2> QED BY <1>2, <2>1, <2>2 DEF IInv
<1>4. CASE Refused(r)
  <2>1. req' = [req EXCEPT ![r] = Ended("refused", req[r].faulted)]
    BY <1>4 DEF Refused, AnswerError, Ended
  <2>2. req'[r] = Ended("refused", req[r].faulted)
    BY <2>1 DEF IInv, TypeOK
  <2> QED BY <2>1, <2>2, <1>3, EndIsOK, Typed
<1>5. ASSUME NEW pc \in {"select", "insert"}, Goto(r, pc), pc = "select" => req[r].key # NoKey,
             pc = "insert" => req[r].key = NoKey
      PROVE  IInv'
  <2> DEFINE new == [req[r] EXCEPT !.pc = pc]
  <2>1. req' = [req EXCEPT ![r] = new] /\ req'[r] = new
    BY <1>5 DEF Goto, IInv, TypeOK
  <2>2. new \in Request
    BY Typed DEF Request
  <2>3. /\ new.pc = pc /\ new.key = req[r].key /\ new.now = req[r].now /\ new.arrived = req[r].arrived
        /\ new.api = req[r].api /\ new.body = req[r].body /\ new.rows = req[r].rows
        /\ new.status = req[r].status /\ new.known = req[r].known
    BY Typed DEF Request
  <2>4. KnownIsKept(r)'
    <3>1. \A row \in req[r].known : row \in store \/ row.expiresAt <= clock
      BY Typed DEF RequestOK, KnownIsKept
    <3>2. \A row \in store : row \in store' \/ row.expiresAt <= clock
      BY <1>1, Typed DEF Purged, RequestOK, InTimeBounds, Publishing, IInv, TypeOK, Row
    <3> QED BY <1>1, <2>1, <2>3, <3>1, <3>2 DEF KnownIsKept
  <2>5. RequestOK(r)'
    BY <1>1, <1>2, <1>5, <2>1, <2>3, <2>4, Typed DEF RequestOK, InsertsOnce, InTimeBounds, InFlight, FormOK,
       Publishing, PurgedFor, RivalsAreNew, RivalStays, AnswerIsPublished, BodyMatches,
       FaultFails, IsFresh, IsListed
  <2> QED BY <2>1, <2>2, <2>5, <1>3
<1> QED BY <1>1, <1>4, <1>5 DEF Prepare


-----------------------------------------------------------------------------
LEMMA NewRowFacts ==
  ASSUME IInv, NEW r \in Requests, req[r].pc = "insert"
  PROVE  /\ NewRow(r) \in Row /\ NewRow(r).id = r /\ NewRow(r).key = req[r].key
         /\ NewRow(r).body = req[r].body /\ NewRow(r).body \in Bodies
         /\ NewRow(r).hash \in {NoHash, NewRow(r).body}
         /\ NewRow(r).createdAt = req[r].now /\ NewRow(r).expiresAt = req[r].now + Ttl
<1>1. req[r].now \in Nat /\ req[r].now % Minute = 0 /\ req[r].body \in Bodies
  BY Typed DEF RequestOK, InTimeBounds, FormOK, Publishing
<1>2. Ttl \in Nat /\ Ttl % Minute = 0 /\ req[r].now + Ttl \in Nat
  BY <1>1, SegmentsApiAssumption
<1>3. MinuteOf(req[r].now + Ttl) = req[r].now + Ttl
  BY <1>1, <1>2, WholeMinutes DEF MinuteOf
<1> QED BY <1>1, <1>2, <1>3, Typed DEF NewRow, Row

(* The new row outlives every request that is under way with its own.      *)
LEMMA CommitAdds ==
  ASSUME IInv, NEW r \in Requests, req[r].pc = "insert", Commit(r), UNCHANGED clock
  PROVE  /\ StoreOK' /\ RecordsOK' /\ store' \subseteq Row
         /\ published' \subseteq [row : Row, at : 0..MaxClock]
         /\ \A q \in Requests : InFlight(q) /\ req[q].now <= clock => NewRow(r).expiresAt > req[q].now
         /\ \A q \in Requests \ {r} : req'[q] = req[q] => RequestOK(q)'
<1> DEFINE new == [row |-> NewRow(r), at |-> clock]
<1>1. store' = store \cup {NewRow(r)} /\ published' = published \cup {new} /\ clock' = clock
  BY DEF Commit
<1>2. clock \in 0..MaxClock /\ clock \in Nat /\ MaxClock \in Nat
  BY SegmentsApiAssumption DEF IInv, TypeOK
<1>3. /\ req[r].now \in Nat /\ req[r].now <= clock /\ req[r].now % Minute = 0
      /\ req[r].arrived < req[r].now + Minute
      /\ req[r].arrived <= clock /\ clock <= req[r].arrived + MaxStall
  BY Typed DEF RequestOK, InTimeBounds, InFlight, Publishing
<1>4. \A p \in published : p.row.id # r
  BY Typed DEF RequestOK, InsertsOnce
<1>5. \A row \in store : row.id # r
  BY <1>4, SegmentsApiAssumption DEF IInv, StoreOK, SeedRow
<1>6. StoreOK'
  <2>1. IsFiniteSet(store')
    <3> DEFINE added == NewRow(r)
    <3>1. IsFiniteSet(store) /\ store' = store \cup {added}
      BY <1>1 DEF IInv, StoreOK
    <3> HIDE DEF added
    <3> QED BY <3>1, FS_AddElement
  <2>2. SeedRow' = SeedRow
    BY DEF SeedRow, Never
  <2>3. new \in published' /\ new.row = NewRow(r) /\ published \subseteq published'
    BY <1>1
  <2>4. SeedRow \in store /\ \A row \in store : row = SeedRow \/ \E p \in published : p.row = row
    BY DEF IInv, StoreOK
  <2>5. \A row \in store' : row = SeedRow \/ \E p \in published' : p.row = row
    BY <1>1, <2>3, <2>4
  <2> QED BY <1>1, <2>1, <2>2, <2>4, <2>5 DEF StoreOK
<1>7. RecordsOK'
  <2>1. ASSUME NEW p, p = new PROVE RecordOK(p)'
    <3>1. p.row = NewRow(r) /\ p.at = clock /\ p.row \in store'
      BY <1>1, <2>1
    <3> QED BY <1>1, <1>2, <1>3, <3>1, NewRowFacts, Typed, SegmentsApiAssumption DEF RecordOK
  <2>2. ASSUME NEW p \in published PROVE RecordOK(p)'
    BY <1>1 DEF IInv, RecordsOK, RecordOK
  <2>3. \A p, q \in published' : p.row.id = q.row.id => p = q
    BY <1>1, <1>4, NewRowFacts DEF IInv, RecordsOK
  <2>4. ASSUME NEW p \in published' PROVE RecordOK(p)'
    <3> HIDE DEF new
    <3> QED BY <1>1, <2>1, <2>2
  <2> QED BY <2>3, <2>4 DEF RecordsOK
<1>8. store' \subseteq Row /\ published' \subseteq [row : Row, at : 0..MaxClock]
  BY <1>1, <1>2, NewRowFacts DEF IInv, TypeOK
<1>9. ASSUME NEW q \in Requests, InFlight(q), req[q].now <= clock
      PROVE  NewRow(r).expiresAt > req[q].now
  <2>1. req[q].now \in Nat
    BY Typed
  <2> QED BY <1>2, <1>3, <1>9, <2>1, NewRowFacts, Typed, SegmentsApiAssumption
<1>10. ASSUME NEW q \in Requests \ {r}, req'[q] = req[q] PROVE RequestOK(q)'
  <2>1. InsertsOnce(q)'
    BY <1>1, <1>10, NewRowFacts, Typed DEF RequestOK, InsertsOnce
  <2>2. PurgedFor(q)'
    BY <1>1, <1>9, <1>10, Typed DEF RequestOK, PurgedFor, InTimeBounds, InFlight, Publishing
  <2>3. RivalsAreNew(q)'
    <3> SUFFICES ASSUME req[q].pc \in {"insert", "reselect"}, req[q].key # NoKey,
                        NEW p \in published', p.row \in store', p.row.key = req[q].key
                 PROVE  p.at >= req[q].arrived
      BY <1>10 DEF RivalsAreNew
    <3>1. CASE p = new
      BY <3>1, Typed DEF RequestOK, InTimeBounds, InFlight
    <3>2. CASE p \in published
      <4>1. p.row # NewRow(r)
        BY <3>2, <1>4, NewRowFacts
      <4> QED BY <1>1, <3>2, <4>1, Typed DEF RequestOK, RivalsAreNew
    <3> QED BY <1>1, <3>1, <3>2
  <2>4. RivalStays(q)'
    BY <1>1, <1>10, Typed DEF RequestOK, RivalStays, Holders
  <2>5. IsFresh(q)'
    <3> SUFFICES ASSUME NEW p \in published', p.row \in req[q].rows
                 PROVE  req[q].arrived - p.at < Ttl
      BY <1>10 DEF IsFresh
    <3>1. p # new
      BY <1>4, NewRowFacts, Typed, SegmentsApiAssumption DEF RequestOK, AnswerIsPublished, SeedRow
    <3> QED BY <1>1, <3>1, Typed DEF RequestOK, IsFresh
  <2> QED BY <1>1, <1>10, <2>1, <2>2, <2>3, <2>4, <2>5, Typed DEF RequestOK, InTimeBounds, InFlight, FormOK,
             AnswerIsPublished, KnownIsKept, BodyMatches, FaultFails, IsListed
<1> QED BY <1>6, <1>7, <1>8, <1>9, <1>10

LEMMA CommitKeeps ==
  ASSUME IInv, NEW r \in Requests, req[r].pc = "insert", Commit(r), UNCHANGED clock,
         NEW new \in Request, req' = [req EXCEPT ![r] = new], RequestOK(r)'
  PROVE  IInv'
<1>1. TypeOK'
  BY CommitAdds DEF IInv, TypeOK
<1>2. ASSUME NEW q \in Requests PROVE RequestOK(q)'
  BY CommitAdds DEF IInv, TypeOK
<1> QED BY <1>1, <1>2, CommitAdds DEF IInv

LEMMA InsertKeeps ==
  ASSUME IInv, NEW r \in Requests, Insert(r)
  PROVE  IInv'
<1> DEFINE new == [req[r] EXCEPT !.pc = "done", !.status = "created", !.rows = {NewRow(r)}]
<1>1. req[r].pc = "insert" /\ Commit(r) /\ UNCHANGED clock
  BY DEF Insert
<1>2. req' = [req EXCEPT ![r] = new] /\ req'[r] = new
  BY DEF Insert, Answer, IInv, TypeOK
<1>3. new \in Request
  <2>1. {NewRow(r)} \subseteq Row
    BY <1>1, NewRowFacts
  <2> QED BY <2>1, Typed DEF Request
<1>4. /\ new.pc = "done" /\ new.status = "created" /\ new.rows = {NewRow(r)} /\ new.api = req[r].api
      /\ new.body = req[r].body /\ new.arrived = req[r].arrived /\ new.known = req[r].known
  BY Typed DEF Request
<1>5. PICK p \in published' : p.row = NewRow(r) /\ p.at = clock
  <2> DEFINE record == [row |-> NewRow(r), at |-> clock]
  <2>1. record \in published' /\ record.row = NewRow(r) /\ record.at = clock
    BY <1>1 DEF Commit
  <2> QED BY <2>1
<1>6. IsFresh(r)'
  <2> SUFFICES ASSUME NEW q \in published', q.row = NewRow(r) PROVE req[r].arrived - q.at < Ttl
    BY <1>2, <1>4 DEF IsFresh
  <2>1. q = p
    BY <1>1, <1>5, CommitAdds DEF RecordsOK
  <2>2. req[r].arrived <= clock
    BY <1>1, Typed DEF RequestOK, InTimeBounds, InFlight
  <2> QED BY <2>1, <2>2, <1>5, Typed, SegmentsApiAssumption
<1>7. KnownIsKept(r)'
  BY <1>1, <1>2, <1>4, Typed DEF RequestOK, KnownIsKept, Commit
<1>8. RequestOK(r)'
  <2>1. AnswerIsPublished(r)'
    BY <1>2, <1>4, <1>5 DEF AnswerIsPublished
  <2>2. BodyMatches(r)'
    <3>1. req'[r].rows = {NewRow(r)} /\ req'[r].body = req[r].body
      BY <1>2, <1>4
    <3>2. NewRow(r).body = req[r].body
      BY <1>1, NewRowFacts
    <3> QED BY <3>1, <3>2 DEF BodyMatches
  <2>3. InsertsOnce(r)' /\ FormOK(r)' /\ InTimeBounds(r)'
    BY <1>2, <1>4 DEF InsertsOnce, FormOK, InTimeBounds, InFlight, Publishing
  <2>4. PurgedFor(r)' /\ RivalsAreNew(r)' /\ RivalStays(r)' /\ FaultFails(r)' /\ IsListed(r)'
    BY <1>2, <1>4 DEF PurgedFor, RivalsAreNew, RivalStays, FaultFails, IsListed
  <2> QED BY <1>6, <1>7, <2>1, <2>2, <2>3, <2>4 DEF RequestOK
<1> QED BY <1>1, <1>2, <1>3, <1>8, CommitKeeps

LEMMA InsertFaultsKeeps ==
  ASSUME IInv, NEW r \in Requests, InsertFaults(r)
  PROVE  IInv'
<1>1. req[r].pc = "insert" /\ UNCHANGED clock /\ InsertFailed(r, TRUE)
  BY DEF InsertFaults
<1>2. CASE Failed(r, TRUE)
  <2>1. req' = [req EXCEPT ![r] = Ended("failed", TRUE)]
    BY <1>2, Typed DEF Failed, Ended
  <2>2. req'[r] = Ended("failed", TRUE)
    BY <2>1 DEF IInv, TypeOK
  <2>3. RequestOK(r)' /\ Ended("failed", TRUE) \in Request
    BY <2>2, EndIsOK
  <2> QED BY <1>1, <1>2, <2>1, <2>3, CommitKeeps, FailureKeeps DEF InsertFaults
<1>3. CASE req[r].key # NoKey
  <2> DEFINE new == [req[r] EXCEPT !.pc = "reselect", !.faulted = req[r].faulted \/ TRUE]
  <2>1. req' = [req EXCEPT ![r] = new] /\ req'[r] = new
    BY <1>1, <1>3 DEF InsertFailed, IInv, TypeOK
  <2>2. new \in Request
    BY Typed DEF Request
  <2>3. /\ new.pc = "reselect" /\ new.faulted = TRUE /\ new.key = req[r].key /\ new.now = req[r].now
        /\ new.arrived = req[r].arrived /\ new.api = req[r].api /\ new.body = req[r].body
        /\ new.rows = req[r].rows /\ new.status = req[r].status /\ new.known = req[r].known
    BY Typed DEF Request
  <2>4. CASE Commit(r)
    <3>1. PurgedFor(r)'
      BY <1>1, <2>1, <2>3, <2>4, CommitAdds, Typed DEF Commit, RequestOK, PurgedFor, InTimeBounds, InFlight, Publishing
    <3>2. RivalsAreNew(r)'
      <4> SUFFICES ASSUME NEW p \in published', p.row \in store', p.row.key = req[r].key
                   PROVE  p.at >= req[r].arrived
        BY <2>1, <2>3 DEF RivalsAreNew
      <4>1. req[r].arrived <= clock
        BY <1>1, Typed DEF RequestOK, InTimeBounds, InFlight
      <4>2. \A row \in store : row.key # req[r].key
        BY <1>3, <2>4 DEF Commit, KeyIsFree, Holders
      <4>3. p.row = NewRow(r)
        BY <2>4, <4>2 DEF Commit
      <4>4. p = [row |-> NewRow(r), at |-> clock]
        BY <1>1, <2>4, <4>3, NewRowFacts, Typed DEF Commit, RequestOK, InsertsOnce
      <4> QED BY <4>1, <4>4
    <3>3. KnownIsKept(r)'
      BY <1>1, <2>1, <2>3, <2>4, Typed DEF Commit, RequestOK, KnownIsKept
    <3>4. RequestOK(r)'
      <4>1. req[r].rows = {} /\ req[r].status = "none" /\ RequestOK(r)
        BY <1>1, Typed DEF RequestOK, FormOK
      <4>2. FormOK(r)'
        BY <1>1, <1>3, <2>1, <2>3, <4>1 DEF RequestOK, FormOK, Publishing
      <4>4. InsertsOnce(r)' /\ InTimeBounds(r)'
        BY <1>1, <2>1, <2>3, <4>1 DEF RequestOK, InsertsOnce, InTimeBounds, InFlight, Publishing
      <4>3. RivalStays(r)' /\ AnswerIsPublished(r)' /\ BodyMatches(r)' /\ FaultFails(r)' /\ IsFresh(r)'
            /\ IsListed(r)'
        BY <2>1, <2>3, <4>1 DEF RivalStays, AnswerIsPublished, BodyMatches, FaultFails, IsFresh, IsListed
      <4> QED BY <3>1, <3>2, <3>3, <4>2, <4>3, <4>4 DEF RequestOK
    <3> QED BY <1>1, <2>1, <2>2, <2>4, <3>4, CommitKeeps
  <2>5. CASE UNCHANGED << store, published >>
    <3>1. RequestOK(r)'
      BY <1>1, <1>3, <2>1, <2>3, <2>5, Typed DEF RequestOK, InsertsOnce, InTimeBounds, InFlight,
         FormOK, Publishing, PurgedFor, RivalsAreNew, RivalStays, AnswerIsPublished, KnownIsKept, BodyMatches,
         FaultFails, IsFresh, IsListed
    <3> QED BY <1>1, <2>1, <2>2, <2>5, <3>1, OwnStep
  <2> QED BY <2>4, <2>5 DEF InsertFaults
<1> QED BY <1>1, <1>2, <1>3 DEF InsertFailed


-----------------------------------------------------------------------------
LEMMA StepKeeps == IInv /\ [Next]_vars => IInv'
<1> SUFFICES ASSUME IInv, [Next]_vars PROVE IInv'
  OBVIOUS
<1>1. CASE Tick
  BY <1>1, TickKeeps
<1>2. ASSUME NEW r \in Requests, Refuse(r) PROVE IInv'
  BY <1>2, ErrorKeeps DEF Refuse, Refused
<1>3. ASSUME NEW r \in Requests, NEW api \in {"v1", "v2"}, NEW key \in Keys \cup {NoKey},
             NEW body \in Bodies, ArrivePublish(r, api, key, body)
      PROVE  IInv'
  BY <1>3, ArrivePublishKeeps
<1>4. ASSUME NEW r \in Requests, ArriveNearby(r) PROVE IInv'
  BY <1>4, ArriveNearbyKeeps
<1>5. ASSUME NEW r \in Requests, Handle(r) PROVE IInv'
  <2>1. CASE Limit(r)
    BY <2>1, LimitKeeps
  <2>2. CASE Purge(r)
    BY <2>2, PurgeKeeps
  <2>3. CASE Select(r)
    BY <2>3, SelectKeeps
  <2>4. CASE Insert(r)
    BY <2>4, InsertKeeps
  <2>5. CASE InsertRejected(r)
    BY <2>5, InsertRejectedKeeps
  <2>6. CASE InsertFaults(r)
    BY <2>6, InsertFaultsKeeps
  <2>7. CASE Reselect(r)
    BY <2>7, ReselectKeeps
  <2>8. CASE Query(r)
    BY <2>8, QueryKeeps
  <2>9. CASE DatabaseFaults(r)
    BY <2>9, FailureKeeps DEF DatabaseFaults
  <2>10. CASE Cancel(r)
    BY <2>10, ErrorKeeps DEF Cancel
  <2> QED BY <1>5, <2>1, <2>2, <2>3, <2>4, <2>5, <2>6, <2>7, <2>8, <2>9, <2>10 DEF Handle
<1>6. CASE UNCHANGED vars
  <2>1. TypeOK'
    BY <1>6 DEF vars, IInv, TypeOK
  <2>2. ASSUME NEW r \in Requests PROVE RequestOK(r)'
    BY <1>6, Typed DEF vars, RequestOK, InsertsOnce, InTimeBounds, InFlight, FormOK, PurgedFor, RivalsAreNew,
       RivalStays, Holders, AnswerIsPublished, KnownIsKept, BodyMatches, FaultFails, IsFresh, IsListed
  <2> QED BY <1>6, <2>1, <2>2, TableKeeps DEF vars, IInv
<1> QED BY <1>1, <1>2, <1>3, <1>4, <1>5, <1>6 DEF Next

(* The invariant of the handlers holds in every reachable state.           *)
THEOREM ApiInvariance == Spec => []IInv
BY InitHolds, StepKeeps, PTL DEF Spec

(* A key is taken until its row expires: a second publication under it is  *)
(* made only after the first was purged, and nothing is purged early.      *)
LEMMA CommitIsOnce ==
  ASSUME IInv, KeyPublishesOnce, NEW r \in Requests, req[r].pc = "insert", Commit(r), UNCHANGED clock
  PROVE  KeyPublishesOnce'
<1> SUFFICES ASSUME NEW p \in published', NEW q \in published', p.row.key # NoKey,
                    p.row.key = q.row.key, p # q
             PROVE  p.at >= q.row.expiresAt \/ q.at >= p.row.expiresAt
  BY DEF KeyPublishesOnce
<1> DEFINE new == [row |-> NewRow(r), at |-> clock]
<1>1. published' = published \cup {new} /\ KeyIsFree(r)
  BY DEF Commit
<1>2. ASSUME NEW o \in published, o.row.key = NewRow(r).key, o.row.key # NoKey
      PROVE  clock >= o.row.expiresAt
  <2>1. o.row \notin store
    BY <1>1, <1>2, NewRowFacts DEF KeyIsFree, Holders
  <2>2. o.row.expiresAt \in Nat /\ clock \in Nat
    BY SegmentsApiAssumption DEF IInv, TypeOK, Row
  <2> QED BY <2>1, <2>2 DEF IInv, RecordsOK, RecordOK
<1>3. CASE p \in published /\ q \in published
  BY <1>3 DEF KeyPublishesOnce
<1>4. CASE p = new /\ q \in published
  BY <1>2, <1>4
<1>5. CASE q = new /\ p \in published
  BY <1>2, <1>5
<1> QED BY <1>1, <1>3, <1>4, <1>5

(* docs/api-explain.md: 201 for the first request, 200 for a repeat.       *)
(* Whatever requests race, are retried, cancelled or half fail, a key is   *)
(* published a second time only after its first publication has expired.   *)
THEOREM KeysPublishOnce == Spec => []KeyPublishesOnce
<1>1. Init => KeyPublishesOnce
  BY DEF Init, KeyPublishesOnce
<1>2. ASSUME IInv, KeyPublishesOnce, [Next]_vars PROVE KeyPublishesOnce'
  <2>1. CASE published' = published
    BY <1>2, <2>1 DEF KeyPublishesOnce
  <2>2. ASSUME NEW r \in Requests, Insert(r) \/ InsertFaults(r) PROVE KeyPublishesOnce'
    BY <1>2, <2>1, <2>2, CommitIsOnce DEF Insert, InsertFaults
  <2> QED BY <1>2, <2>1, <2>2 DEF Next, vars, Tick, Refuse, ArrivePublish, ArriveNearby, Handle, Limit, Purge,
             Select, InsertRejected, Reselect, Query, DatabaseFaults, Cancel
<1> QED BY <1>1, <1>2, ApiInvariance, PTL DEF Spec

(* The variables keep their types.                                         *)
THEOREM ApiTypeCorrect == Spec => []TypeOK
BY ApiInvariance, PTL DEF IInv

(* A v2 client that is told 200 or 201 has the body it sent published.     *)
THEOREM AnswersMatch == Spec => []AnswerMatchesBody
<1>1. IInv => AnswerMatchesBody
  BY DEF IInv, RequestOK, BodyMatches, AnswerMatchesBody
<1> QED BY <1>1, ApiInvariance, PTL

(* Losing a race for a key is no failure: internal_error means that a call *)
(* of D1 did fail.                                                         *)
THEOREM LosersDoNotFail == Spec => []OnlyFaultsFail
<1>1. IInv => OnlyFaultsFail
  BY DEF IInv, RequestOK, FaultFails, OnlyFaultsFail
<1> QED BY <1>1, ApiInvariance, PTL

(* No row is listed, or replayed, to a request that arrives Ttl after its  *)
(* insert.                                                                 *)
THEOREM NothingStays == Spec => []NothingOutlivesItsTtl
<1>1. IInv => NothingOutlivesItsTtl
  BY DEF IInv, RequestOK, IsFresh, NothingOutlivesItsTtl
<1> QED BY <1>1, ApiInvariance, PTL

(* A nearby request lists what had been answered before it arrived, unless *)
(* it expires meanwhile or the list is full of segments at least as new.   *)
THEOREM NothingGoesUnlisted == Spec => []PublicationsAreListed
<1>1. IInv => PublicationsAreListed
  BY DEF IInv, RequestOK, IsListed, PublicationsAreListed
<1> QED BY <1>1, ApiInvariance, PTL

-----------------------------------------------------------------------------
(* The verifier.                                                           *)

PublishSteps == {"publish", "replay", "conflict"}

BodyOf(step) == IF step = "conflict" THEN Probe ELSE Route

(* The row that the verifier's key is taken by.                            *)
Own(row) == row \in store /\ row.key = VerifierKey /\ row.body = Route

(* The steps at which a call may have been sent.                           *)
Since ==
    [ publish  |-> {"publish", "replay", "conflict", "nearby"},
      replay   |-> {"replay", "conflict", "nearby"},
      conflict |-> {"conflict", "nearby"},
      nearby   |-> {"nearby"} ]

Outcomes ==
    [ publish  |-> {"none", "created", "saved", "refused", "failed"},
      replay   |-> {"none", "saved", "refused", "failed"},
      conflict |-> {"none", "conflict", "refused", "failed"} ]

(* A call that was not sent did not arrive; the replay and the probe never *)
(* get as far as an insert; and each call ends in few ways.                *)
PublishCallOK(step) ==
    LET r == CallOf[step]
    IN  /\ r \notin verifier.sent => req[r].pc = "idle"
        /\ InFlight(r) \/ req[r].status \in {"created", "saved"} =>
              req[r].api = "v2" /\ req[r].key = VerifierKey /\ req[r].body = BodyOf(step)
        /\ step # "publish" => req[r].pc \notin {"insert", "reselect"}
        /\ req[r].status \in Outcomes[step]
        /\ req[r].status \in {"created", "saved"} =>
              req[r].pc = "done" /\ \E row \in store : Own(row) /\ req[r].rows = {row}
        /\ req[r].status = "conflict" => req[r].rows = {}

(* The last call is listed what the verifier was told, if there is room.   *)
NearbyCallOK ==
    LET r == NearbyCall
    IN  /\ r \notin verifier.sent => req[r].pc = "idle"
        /\ req[r].status \in {"none", "listed", "refused", "failed"}
        /\ InFlight(r) => req[r].api = "nearby"
        /\ req[r].status = "listed" =>
              /\ req[r].pc = "done"
              /\ \A row \in verifier.told :
                    \/ row \in req[r].rows
                    \/ /\ Cardinality(req[r].rows) = ListLimit
                       /\ \A other \in req[r].rows : other.createdAt >= row.createdAt

KeyIsOwn ==
    /\ \A r \in Others : req[r].key # VerifierKey
    /\ \A p \in published :
          p.row.key = VerifierKey => p.row.body = Route /\ p.row.hash = Route

(* After the first answer the verifier holds the row it was told.          *)
TellingOK ==
    /\ \A step \in DOMAIN CallOf :
          CallOf[step] \in verifier.sent => verifier.step \in Since[step]
    /\ verifier.step \in {"replay", "conflict", "nearby"} =>
          /\ req[PublishCall].status \in {"created", "saved"}
          /\ verifier.told = req[PublishCall].rows
    /\ AtCall("read") => req[Call].status \in AllowedStatuses[verifier.step]

VerdictOK ==
    /\ verifier.outcome = "passed" =>
          /\ verifier.step = "nearby" /\ req[NearbyCall].status = "listed"
          /\ verifier.told \subseteq req[NearbyCall].rows
    /\ verifier.outcome = "failed" /\ ~verifier.disturbed =>
          verifier.step = "nearby" /\ req[NearbyCall].status = "listed"
    /\ HealthyApiPasses

LiveInv ==
    /\ VerifierTypeOK /\ KeyIsOwn /\ TellingOK /\ VerdictOK /\ NearbyCallOK
    /\ \A step \in PublishSteps : PublishCallOK(step)

-----------------------------------------------------------------------------
LEMMA CallsAreRequests ==
  /\ PublishCall \in Requests /\ ReplayCall \in Requests /\ ConflictCall \in Requests
  /\ NearbyCall \in Requests
  /\ PublishCall # ReplayCall /\ PublishCall # ConflictCall /\ PublishCall # NearbyCall
  /\ ReplayCall # ConflictCall /\ ReplayCall # NearbyCall /\ ConflictCall # NearbyCall
  /\ CallOf["publish"] = PublishCall /\ CallOf["replay"] = ReplayCall
  /\ CallOf["conflict"] = ConflictCall /\ CallOf["nearby"] = NearbyCall
  /\ DOMAIN CallOf = PublishSteps \cup {"nearby"}
  /\ \A step \in DOMAIN CallOf : CallOf[step] \in Calls /\ CallOf[step] \in Requests
<1>1. /\ CallOf["publish"] = PublishCall /\ CallOf["replay"] = ReplayCall
      /\ CallOf["conflict"] = ConflictCall /\ CallOf["nearby"] = NearbyCall
      /\ DOMAIN CallOf = {"publish", "replay", "conflict", "nearby"}
  BY DEF CallOf
<1> QED BY <1>1, LiveVerifierAssumption DEF Calls, PublishSteps

LEMMA KeyAndBodies ==
  /\ VerifierKey \in Keys /\ VerifierKey # NoKey
  /\ Route \in Bodies /\ Probe \in Bodies /\ Route # Probe
  /\ Route \notin WideBodies /\ Probe \notin WideBodies
  /\ Route \notin LongBodies \cup FlatBodies \cup WideNames
  /\ Route # NoHash
BY LiveVerifierAssumption, SegmentsApiAssumption

(* What is in the table expires after the last tick, so that it stays.     *)
LEMMA NothingExpires ==
  ASSUME IInv
  PROVE  /\ clock \in Nat /\ clock <= MaxClock /\ MaxClock \in Nat
         /\ \A row \in store : row.expiresAt \in Nat /\ row.expiresAt > MaxClock
<1>1. clock \in Nat /\ clock <= MaxClock /\ MaxClock \in Nat /\ Ttl \in Nat /\ MaxClock < Ttl
  BY SegmentsApiAssumption, LiveVerifierAssumption DEF IInv, TypeOK
<1>2. SeedRow.expiresAt \in Nat /\ SeedRow.expiresAt > MaxClock
  BY <1>1 DEF SeedRow, Never
<1>3. ASSUME NEW p \in published
      PROVE  p.row.expiresAt \in Nat /\ p.row.expiresAt > MaxClock
  <2>1. p.row \in Row /\ p.row.expiresAt = p.row.createdAt + Ttl
    BY DEF IInv, TypeOK, RecordsOK, RecordOK
  <2> QED BY <1>1, <2>1 DEF Row
<1> QED BY <1>1, <1>2, <1>3 DEF IInv, StoreOK

LEMMA PurgeTakesNothing ==
  ASSUME IInv, NEW r \in Requests, req[r].pc = "purge"
  PROVE  Purged(store, req[r].now) = store
<1>1. req[r].now <= clock /\ req[r].now \in Nat
  BY Typed DEF RequestOK, InTimeBounds, Publishing
<1>2. \A row \in store : row.expiresAt > req[r].now
  BY <1>1, NothingExpires
<1> QED BY <1>2 DEF Purged

(* What a handler does to others, to the table and to the history.         *)
LEMMA HandleFrame ==
  ASSUME IInv, NEW r \in Requests, Handle(r)
  PROVE  /\ InFlight(r)
         /\ \A q \in Requests \ {r} : req'[q] = req[q]
         /\ clock' = clock /\ store \subseteq store'
         /\ \/ published' = published
            \/ /\ req[r].pc = "insert"
               /\ published' = published \cup {[row |-> NewRow(r), at |-> clock]}
<1> DEFINE others == \A q \in Requests \ {r} : req'[q] = req[q]
           table == UNCHANGED << clock, store, published >>
<1>1. DOMAIN req = Requests
  BY DEF IInv, TypeOK
<1>2. ASSUME NEW status, AnswerError(r, status) PROVE others
  BY <1>1, <1>2 DEF AnswerError
<1>3. ASSUME NEW status, NEW rows, Answer(r, status, rows) PROVE others
  BY <1>1, <1>3 DEF Answer
<1>4. ASSUME NEW faulted, Failed(r, faulted) PROVE others
  BY <1>1, <1>4 DEF Failed
<1>5. ASSUME NEW pc, Goto(r, pc) PROVE others
  BY <1>1, <1>5 DEF Goto
<1>6. ASSUME Prepare(r) PROVE others
  BY <1>2, <1>5, <1>6 DEF Prepare, Refused
<1>7. ASSUME Replay(r) PROVE others
  BY <1>2, <1>3, <1>7 DEF Replay
<1>8. ASSUME NEW faulted, InsertFailed(r, faulted) PROVE others
  BY <1>1, <1>4, <1>8 DEF InsertFailed
<1>9. CASE Limit(r)
  <2>1. others
    BY <1>1, <1>2, <1>9 DEF Limit, Refused
  <2> QED BY <1>9, <2>1 DEF Limit, InFlight
<1>10. CASE Purge(r)
  <2>1. others
    BY <1>5, <1>6, <1>10 DEF Purge
  <2>2. store' = store
    BY <1>10, PurgeTakesNothing DEF Purge
  <2> QED BY <1>10, <2>1, <2>2 DEF Purge, InFlight
<1>11. CASE Select(r)
  <2>1. others
    BY <1>6, <1>7, <1>11 DEF Select
  <2> QED BY <1>11, <2>1 DEF Select, InFlight
<1>12. CASE Insert(r)
  <2>1. others
    BY <1>3, <1>12 DEF Insert
  <2> QED BY <1>12, <2>1 DEF Insert, Commit, InFlight
<1>13. CASE InsertRejected(r)
  <2>1. others
    BY <1>8, <1>13 DEF InsertRejected
  <2> QED BY <1>13, <2>1 DEF InsertRejected, InFlight
<1>14. CASE InsertFaults(r)
  <2>1. others
    BY <1>8, <1>14 DEF InsertFaults
  <2> QED BY <1>14, <2>1 DEF InsertFaults, Commit, InFlight
<1>15. CASE Reselect(r)
  <2>1. others
    BY <1>4, <1>7, <1>15 DEF Reselect
  <2> QED BY <1>15, <2>1 DEF Reselect, InFlight
<1>16. CASE Query(r)
  <2>1. others
    BY <1>3, <1>16 DEF Query
  <2> QED BY <1>16, <2>1 DEF Query, InFlight
<1>17. CASE DatabaseFaults(r)
  <2>1. others
    BY <1>4, <1>17 DEF DatabaseFaults
  <2> QED BY <1>17, <2>1 DEF DatabaseFaults, InFlight
<1>18. CASE Cancel(r)
  <2>1. others
    BY <1>2, <1>18 DEF Cancel
  <2> QED BY <1>18, <2>1 DEF Cancel
<1> QED BY <1>9, <1>10, <1>11, <1>12, <1>13, <1>14, <1>15, <1>16, <1>17, <1>18 DEF Handle

(* A row under the verifier's key is the verifier's.                       *)
LEMMA HolderIsOwn ==
  ASSUME IInv, KeyIsOwn, NEW row \in store, row.key = VerifierKey
  PROVE  Own(row) /\ row.hash = Route /\ row.id # Seed
<1>1. PICK p \in published : p.row = row
  BY KeyAndBodies DEF IInv, StoreOK, SeedRow
<1>2. row.id \in Requests
  BY <1>1 DEF IInv, RecordsOK, RecordOK
<1> QED BY <1>1, <1>2, SegmentsApiAssumption DEF KeyIsOwn, Own

(* Once the replay or the probe is sent, the key is taken.                 *)
LEMMA KeyIsTaken ==
  ASSUME LiveInv, NEW step \in {"replay", "conflict"}, CallOf[step] \in verifier.sent
  PROVE  \E row \in store : Own(row)
<1>1. verifier.step \in {"replay", "conflict", "nearby"}
  BY CallsAreRequests DEF LiveInv, TellingOK, Since, PublishSteps
<1>2. req[PublishCall].status \in {"created", "saved"}
  BY <1>1 DEF LiveInv, TellingOK
<1> QED BY <1>2, CallsAreRequests DEF LiveInv, PublishCallOK, PublishSteps

(* A publishing call that is under way.                                    *)
LEMMA CallUnderWay ==
  ASSUME LiveInv, IInv, NEW step \in PublishSteps, InFlight(CallOf[step])
  PROVE  LET r == CallOf[step]
         IN  /\ r \in Requests /\ r \in verifier.sent
             /\ req[r].api = "v2" /\ req[r].key = VerifierKey /\ req[r].body = BodyOf(step)
             /\ req[r].body \in {Route, Probe} /\ req[r].status = "none" /\ req[r].rows = {}
             /\ req[r].pc # "query" /\ Holders(r) = { row \in store : row.key = VerifierKey }
             /\ step # "publish" => Holders(r) # {} /\ req[r].pc \notin {"insert", "reselect"}
<1> DEFINE r == CallOf[step]
<1>1. r \in Requests
  BY CallsAreRequests
<1>2. PublishCallOK(step) /\ req[r].pc \notin {"idle", "done"}
  BY DEF LiveInv, InFlight
<1>3. /\ r \in verifier.sent
      /\ req[r].api = "v2" /\ req[r].key = VerifierKey /\ req[r].body = BodyOf(step)
      /\ step # "publish" => req[r].pc \notin {"insert", "reselect"}
  BY <1>2 DEF PublishCallOK
<1>4. req[r].status = "none" /\ req[r].rows = {} /\ req[r].pc # "query"
  BY <1>1, <1>2, <1>3, Typed DEF RequestOK, FormOK
<1>5. Holders(r) = { row \in store : row.key = VerifierKey }
  BY <1>3 DEF Holders
<1>6. step # "publish" => Holders(r) # {}
  BY <1>3, <1>5, KeyIsTaken DEF PublishSteps, Own
<1> QED BY <1>1, <1>3, <1>4, <1>5, <1>6 DEF BodyOf

LEMMA CallKept ==
  ASSUME NEW step \in PublishSteps, PublishCallOK(step), store \subseteq store',
         req'[CallOf[step]] = req[CallOf[step]], verifier.sent \subseteq verifier'.sent
  PROVE  PublishCallOK(step)'
BY DEF PublishCallOK, InFlight, Own

LEMMA CallGoesOn ==
  ASSUME LiveInv, IInv, NEW step \in PublishSteps, InFlight(CallOf[step]), UNCHANGED verifier,
         NEW new \in Request, req'[CallOf[step]] = new,
         new.pc \in Publishing, step # "publish" => new.pc \notin {"insert", "reselect"},
         new.api = req[CallOf[step]].api, new.key = req[CallOf[step]].key,
         new.body = req[CallOf[step]].body, new.status = req[CallOf[step]].status
  PROVE  PublishCallOK(step)'
<1> DEFINE r == CallOf[step]
<1>1. new.status = "none" /\ new.pc \notin {"idle", "done"}
  BY CallUnderWay DEF Publishing
<1>2. /\ r \in verifier'.sent /\ new.api = "v2" /\ new.key = VerifierKey
      /\ new.body = BodyOf(step)
  BY CallUnderWay
<1>3. "none" \in Outcomes[step]
  BY DEF Outcomes, PublishSteps
<1> QED BY <1>1, <1>2, <1>3 DEF PublishCallOK

LEMMA CallEnds ==
  ASSUME LiveInv, IInv, NEW step \in PublishSteps, InFlight(CallOf[step]), UNCHANGED verifier,
         NEW status \in {"none", "refused", "failed", "conflict"}, NEW faulted,
         status = "conflict" => step = "conflict",
         req'[CallOf[step]] = Ended(status, faulted)
  PROVE  PublishCallOK(step)'
<1> DEFINE new == Ended(status, faulted)
<1>1. new.pc = "done" /\ new.status = status /\ new.rows = {} /\ req'[CallOf[step]] = new
  BY DEF Ended, NewRequest
<1>2. status \in Outcomes[step]
  BY DEF Outcomes, PublishSteps
<1>3. CallOf[step] \in verifier'.sent
  BY CallUnderWay
<1> HIDE DEF new
<1> QED BY <1>1, <1>2, <1>3 DEF PublishCallOK, InFlight

LEMMA CallSaved ==
  ASSUME LiveInv, IInv, NEW step \in PublishSteps, step # "conflict", InFlight(CallOf[step]),
         UNCHANGED verifier, NEW status \in {"created", "saved"},
         status = "created" => step = "publish",
         NEW row \in store', row.key = VerifierKey, row.body = Route,
         Answer(CallOf[step], status, {row})
  PROVE  PublishCallOK(step)'
<1> DEFINE r   == CallOf[step]
           new == [req[r] EXCEPT !.pc = "done", !.status = status, !.rows = {row}]
<1>1. r \in Requests
  BY CallsAreRequests
<1>2. req'[r] = new
  BY <1>1 DEF Answer, IInv, TypeOK
<1>3. /\ new.pc = "done" /\ new.status = status /\ new.rows = {row}
      /\ new.api = req[r].api /\ new.key = req[r].key /\ new.body = req[r].body
  BY <1>1, Typed DEF Request
<1>4. status \in Outcomes[step] /\ BodyOf(step) = req[r].body /\ r \in verifier'.sent
  BY CallUnderWay DEF Outcomes, PublishSteps
<1>5. new.api = "v2" /\ new.key = VerifierKey
  BY <1>3, CallUnderWay
<1> HIDE DEF new
<1> QED BY <1>2, <1>3, <1>4, <1>5 DEF PublishCallOK, InFlight, Own

(* A handler of a call: the select finds the row that is there, and only   *)
(* the first call may insert one.                                          *)
LEMMA ReplayOfCall ==
  ASSUME LiveInv, IInv, NEW step \in PublishSteps, InFlight(CallOf[step]),
         Replay(CallOf[step]), UNCHANGED << verifier, store >>
  PROVE  PublishCallOK(step)'
<1> DEFINE r == CallOf[step]
<1>1. PICK row \in Holders(r) :
         IF req[r].api = "v2" /\ row.hash # req[r].body
         THEN AnswerError(r, "conflict") ELSE Answer(r, "saved", {row})
  BY DEF Replay
<1>2. row \in store /\ Own(row) /\ row.hash = Route
  BY <1>1, CallUnderWay, HolderIsOwn DEF LiveInv
<1>3. CASE step = "conflict"
  <2>1. AnswerError(r, "conflict")
    BY <1>1, <1>2, <1>3, CallUnderWay, KeyAndBodies DEF BodyOf
  <2>2. req'[r] = Ended("conflict", req[r].faulted)
    BY <2>1, CallUnderWay DEF AnswerError, Ended, IInv, TypeOK
  <2> QED BY <1>3, <2>2, CallEnds
<1>4. CASE step # "conflict"
  <2>1. Answer(r, "saved", {row})
    BY <1>1, <1>2, <1>4, CallUnderWay DEF BodyOf
  <2>2. row \in store' /\ row.key = VerifierKey /\ row.body = Route
    BY <1>2 DEF Own
  <2> QED BY <1>4, <2>1, <2>2, CallSaved
<1> QED BY <1>3, <1>4

LEMMA PublishCallKeeps ==
  ASSUME LiveInv, IInv, NEW step \in PublishSteps, Handle(CallOf[step]), UNCHANGED verifier
  PROVE  PublishCallOK(step)'
<1> DEFINE r == CallOf[step]
<1>1. r \in Requests /\ InFlight(r) /\ DOMAIN req = Requests /\ req[r] \in Request
  BY CallsAreRequests, HandleFrame DEF IInv, TypeOK
<1>2. /\ req[r].api = "v2" /\ req[r].key = VerifierKey /\ req[r].body \in {Route, Probe}
      /\ req[r].key # NoKey /\ req[r].body \notin WideBodies /\ req[r].pc # "query"
      /\ step # "publish" => Holders(r) # {} /\ req[r].pc \notin {"insert", "reselect"}
  BY <1>1, CallUnderWay, KeyAndBodies
<1>3. ASSUME NEW status \in {"none", "refused"}, AnswerError(r, status)
      PROVE  PublishCallOK(step)'
  <2>1. req'[r] = Ended(status, req[r].faulted)
    BY <1>1, <1>3 DEF AnswerError, Ended
  <2> QED BY <1>1, <2>1, CallEnds
<1>4. ASSUME NEW faulted, Failed(r, faulted) PROVE PublishCallOK(step)'
  <2>1. req'[r] = Ended("failed", req[r].faulted \/ faulted)
    BY <1>1, <1>4 DEF Failed, Ended
  <2> QED BY <1>1, <2>1, CallEnds
<1>5. ASSUME NEW pc \in {"select", "insert"}, Goto(r, pc), pc = "insert" => step = "publish"
      PROVE  PublishCallOK(step)'
  <2> DEFINE new == [req[r] EXCEPT !.pc = pc]
  <2>1. req'[r] = new
    BY <1>1, <1>5 DEF Goto
  <2>2. /\ new \in Request /\ new.pc = pc /\ new.api = req[r].api /\ new.key = req[r].key
        /\ new.body = req[r].body /\ new.status = req[r].status
    BY <1>1 DEF Request
  <2> HIDE DEF new
  <2> QED BY <1>1, <1>5, <2>1, <2>2, CallGoesOn DEF Publishing
<1>6. CASE Limit(r)
  <2> DEFINE new == [req[r] EXCEPT !.now = MinuteOf(clock), !.pc = "purge"]
  <2>1. CASE Refused(r)
    BY <1>3, <2>1 DEF Refused
  <2>2. CASE req'[r] = new
    <3>1. MinuteOf(clock) \in Nat
      BY MinuteBounds, NothingExpires
    <3>2. /\ new \in Request /\ new.pc = "purge" /\ new.api = req[r].api /\ new.key = req[r].key
          /\ new.body = req[r].body /\ new.status = req[r].status
      BY <1>1, <3>1 DEF Request
    <3> HIDE DEF new
    <3> QED BY <1>1, <2>2, <3>2, CallGoesOn DEF Publishing
  <2> QED BY <1>1, <1>2, <1>6, <2>1, <2>2 DEF Limit
<1>7. CASE Purge(r)
  BY <1>2, <1>5, <1>7 DEF Purge
<1>8. CASE Select(r)
  <2>1. CASE Holders(r) = {}
    BY <1>2, <1>5, <1>8, <2>1 DEF Select, Prepare
  <2>2. CASE Holders(r) # {}
    BY <1>1, <1>8, <2>2, ReplayOfCall DEF Select
  <2> QED BY <2>1, <2>2
<1>9. CASE Insert(r)
  <2>1. step = "publish" /\ req[r].pc = "insert" /\ Answer(r, "created", {NewRow(r)})
    BY <1>2, <1>9 DEF Insert
  <2>2. NewRow(r).key = VerifierKey /\ NewRow(r).body = Route
    BY <1>1, <2>1, CallUnderWay DEF NewRow, BodyOf
  <2>3. PICK row \in store' : row = NewRow(r)
    BY <1>9 DEF Insert, Commit
  <2> QED BY <1>1, <2>1, <2>2, <2>3, CallSaved
<1>10. ASSUME NEW faulted \in BOOLEAN, InsertFailed(r, faulted), req[r].pc = "insert"
       PROVE  PublishCallOK(step)'
  <2> DEFINE new == [req[r] EXCEPT !.pc = "reselect", !.faulted = @ \/ faulted]
  <2>1. req'[r] = new
    BY <1>1, <1>2, <1>10 DEF InsertFailed
  <2>2. /\ new \in Request /\ new.pc = "reselect" /\ new.api = req[r].api /\ new.key = req[r].key
        /\ new.body = req[r].body /\ new.status = req[r].status
    BY <1>1 DEF Request
  <2>3. step = "publish"
    BY <1>2, <1>10
  <2> HIDE DEF new
  <2> QED BY <1>1, <2>1, <2>2, <2>3, CallGoesOn DEF Publishing
<1>11. CASE InsertRejected(r)
  BY <1>10, <1>11 DEF InsertRejected
<1>12. CASE InsertFaults(r)
  BY <1>10, <1>12 DEF InsertFaults
<1>13. CASE Reselect(r)
  BY <1>1, <1>4, <1>13, ReplayOfCall DEF Reselect
<1>14. CASE DatabaseFaults(r)
  BY <1>4, <1>14 DEF DatabaseFaults
<1>15. CASE Cancel(r)
  BY <1>3, <1>15 DEF Cancel
<1>16. ~Query(r)
  BY <1>2 DEF Query
<1> QED BY <1>6, <1>7, <1>8, <1>9, <1>11, <1>12, <1>13, <1>14, <1>15, <1>16 DEF Handle

-----------------------------------------------------------------------------
(* The last call asks for a list of what is there, all of which is visible.*)
LEMMA ToldIsOwn ==
  ASSUME LiveInv, verifier.step \in {"replay", "conflict", "nearby"}
  PROVE  \E row \in store : Own(row) /\ verifier.told = {row}
BY CallsAreRequests DEF LiveInv, TellingOK, PublishCallOK, PublishSteps

LEMMA QueryOfCall ==
  ASSUME LiveInv, IInv, InFlight(NearbyCall), Query(NearbyCall), UNCHANGED verifier
  PROVE  NearbyCallOK'
<1> DEFINE r == NearbyCall
           visible == { row \in store : Visible(row, req[r].now) }
<1>1. r \in Requests /\ DOMAIN req = Requests /\ req[r] \in Request /\ r \in verifier.sent
      /\ req[r].pc = "query"
  BY CallsAreRequests DEF IInv, TypeOK, LiveInv, NearbyCallOK, InFlight, Query
<1>2. PICK rows \in SUBSET visible :
         /\ Cardinality(rows) =
               IF Cardinality(visible) < ListLimit THEN Cardinality(visible) ELSE ListLimit
         /\ \A row \in rows, other \in visible \ rows : row.createdAt >= other.createdAt
         /\ Answer(r, "listed", rows)
  BY DEF Query
<1>3. visible = store
  <2>1. req[r].now <= clock /\ req[r].now \in Nat
    BY <1>1, Typed DEF RequestOK, InTimeBounds
  <2> QED BY <2>1, NothingExpires DEF Visible
<1>4. IsFiniteSet(store)
  BY DEF IInv, StoreOK
<1>5. rows # store => Cardinality(rows) = ListLimit
  <2> HIDE DEF visible
  <2> QED BY <1>2, <1>3, <1>4, FS_Subset, FS_CardinalityType, SegmentsApiAssumption
<1>6. verifier.step = "nearby"
  BY <1>1, CallsAreRequests DEF LiveInv, TellingOK, Since
<1>7. PICK told \in store : verifier.told = {told}
  BY <1>6, ToldIsOwn
<1>8. told \in rows \/ (/\ Cardinality(rows) = ListLimit
                        /\ \A other \in rows : other.createdAt >= told.createdAt)
  BY <1>2, <1>3, <1>5, <1>7
<1> DEFINE new == [req[r] EXCEPT !.pc = "done", !.status = "listed", !.rows = rows]
<1>9. req'[r] = new
  BY <1>1, <1>2 DEF Answer
<1>10. new.pc = "done" /\ new.status = "listed" /\ new.rows = rows
  BY <1>1 DEF Request
<1> HIDE DEF new, visible
<1> QED BY <1>1, <1>7, <1>8, <1>9, <1>10 DEF NearbyCallOK, InFlight

LEMMA NearbyCallKeeps ==
  ASSUME LiveInv, IInv, Handle(NearbyCall), UNCHANGED verifier
  PROVE  NearbyCallOK'
<1> DEFINE r == NearbyCall
<1>1. r \in Requests /\ DOMAIN req = Requests /\ req[r] \in Request /\ InFlight(r)
  BY CallsAreRequests, HandleFrame DEF IInv, TypeOK
<1>2. /\ req[r].api = "nearby" /\ r \in verifier.sent
      /\ req[r].pc \in {"limit", "query"} /\ req[r].status = "none"
  <2>1. req[r].api = "nearby" /\ r \in verifier.sent
    BY <1>1 DEF LiveInv, NearbyCallOK, InFlight
  <2>2. req[r].pc \notin Publishing /\ req[r].status = "none"
    BY <1>1, <2>1, Typed DEF RequestOK, FormOK, InFlight
  <2> QED BY <1>1, <2>1, <2>2 DEF InFlight, Request, Publishing
<1>3. ASSUME NEW status \in {"none", "refused", "failed"}, NEW faulted,
             req'[r] = Ended(status, faulted)
      PROVE  NearbyCallOK'
  <2>1. req'[r].pc = "done" /\ req'[r].status = status
    BY <1>3 DEF Ended, NewRequest
  <2> QED BY <1>2, <2>1 DEF NearbyCallOK, InFlight
<1>4. ASSUME NEW status \in {"none", "refused"}, AnswerError(r, status) PROVE NearbyCallOK'
  <2>1. req'[r] = Ended(status, req[r].faulted)
    BY <1>1, <1>4 DEF AnswerError, Ended
  <2> QED BY <1>3, <2>1
<1>5. CASE Limit(r)
  <2>1. CASE Refused(r)
    BY <1>4, <2>1 DEF Refused
  <2> DEFINE new == [req[r] EXCEPT !.now = MinuteOf(clock), !.pc = "query"]
  <2>2. CASE req'[r] = new
    <3>1. new.pc = "query" /\ new.api = "nearby" /\ new.status = "none"
      BY <1>1, <1>2 DEF Request
    <3> HIDE DEF new
    <3> QED BY <1>2, <2>2, <3>1 DEF NearbyCallOK, InFlight
  <2> QED BY <1>1, <1>2, <1>5, <2>1, <2>2 DEF Limit
<1>6. CASE Query(r)
  BY <1>1, <1>6, QueryOfCall
<1>7. CASE DatabaseFaults(r)
  <2>1. req'[r] = Ended("failed", req[r].faulted \/ TRUE)
    BY <1>1, <1>7 DEF DatabaseFaults, Failed, Ended
  <2> QED BY <1>3, <2>1
<1>8. CASE Cancel(r)
  BY <1>4, <1>8 DEF Cancel
<1> QED BY <1>2, <1>5, <1>6, <1>7, <1>8
        DEF Handle, Purge, Select, Insert, InsertRejected, InsertFaults, Reselect

(* Only a publishing call of the verifier inserts under its key.           *)
LEMMA KeyStaysOwn ==
  ASSUME LiveInv, IInv, NEW r \in Requests, Handle(r)
  PROVE  KeyIsOwn'
<1>1. ASSUME NEW q \in Others PROVE req'[q].key # VerifierKey
  <2>1. q \in Requests /\ req[q].key # VerifierKey
    BY <1>1 DEF Others, LiveInv, KeyIsOwn
  <2>2. CASE q # r
    BY <2>1, <2>2, HandleFrame
  <2>3. CASE q = r
    <3>1. req[r] \in Request /\ DOMAIN req = Requests
      BY DEF IInv, TypeOK
    <3>2. ASSUME NEW status, NEW faulted, req'[r] = Ended(status, faulted)
          PROVE  req'[r].key # VerifierKey
      BY <3>2, KeyAndBodies DEF Ended, NewRequest
    <3>3. ASSUME NEW status, AnswerError(r, status) PROVE req'[r].key # VerifierKey
      <4>1. req'[r] = Ended(status, req[r].faulted)
        BY <3>1, <3>3 DEF AnswerError, Ended
      <4> QED BY <3>2, <4>1
    <3>4. ASSUME NEW faulted, Failed(r, faulted) PROVE req'[r].key # VerifierKey
      <4>1. req'[r] = Ended("failed", req[r].faulted \/ faulted)
        BY <3>1, <3>4 DEF Failed, Ended
      <4> QED BY <3>2, <4>1
    <3>5. ASSUME req'[r].key = req[r].key PROVE req'[r].key # VerifierKey
      BY <2>1, <2>3, <3>5
    <3>6. ASSUME NEW pc, Goto(r, pc) PROVE req'[r].key = req[r].key
      BY <3>1, <3>6 DEF Goto, Request
    <3>7. ASSUME NEW status, NEW rows, Answer(r, status, rows) PROVE req'[r].key = req[r].key
      BY <3>1, <3>7 DEF Answer, Request
    <3>8. ASSUME NEW faulted, InsertFailed(r, faulted) PROVE req'[r].key # VerifierKey
      <4>1. CASE Failed(r, faulted)
        BY <3>4, <4>1
      <4>2. CASE req' = [req EXCEPT ![r].pc = "reselect", ![r].faulted = @ \/ faulted]
        BY <3>1, <3>5, <4>2 DEF Request
      <4> QED BY <3>8, <4>1, <4>2 DEF InsertFailed
    <3>9. ASSUME Limit(r) PROVE req'[r].key # VerifierKey
      <4>1. CASE Refused(r)
        BY <3>3, <4>1 DEF Refused
      <4>2. CASE ~Refused(r)
        BY <3>1, <3>5, <3>9, <4>2 DEF Limit, Request
      <4> QED BY <4>1, <4>2
    <3>10. ASSUME Prepare(r) \/ Replay(r) PROVE req'[r].key # VerifierKey
      BY <3>3, <3>5, <3>6, <3>7, <3>10 DEF Prepare, Replay, Refused
    <3>11. req'[r].key # VerifierKey
      BY <3>3, <3>4, <3>5, <3>6, <3>7, <3>8, <3>9, <3>10 DEF Handle, Purge, Select, Insert, InsertRejected, InsertFaults,
         Reselect, Query, DatabaseFaults, Cancel
    <3> QED BY <2>3, <3>11
  <2> QED BY <2>2, <2>3
<1>2. ASSUME NEW p \in published', p.row.key = VerifierKey
      PROVE  p.row.body = Route /\ p.row.hash = Route
  <2>1. CASE p \in published
    BY <1>2, <2>1 DEF LiveInv, KeyIsOwn
  <2>2. CASE req[r].pc = "insert" /\ p = [row |-> NewRow(r), at |-> clock]
    <3>1. p.row = NewRow(r) /\ InFlight(r)
      BY <2>2, HandleFrame
    <3>2. req[r].key = VerifierKey
      BY <1>2, <3>1 DEF NewRow
    <3>3. r \in Calls
      BY <3>2 DEF LiveInv, KeyIsOwn, Others
    <3>4. r # NearbyCall
      <4>1. req[r].api # "nearby"
        BY <2>2, Typed DEF RequestOK, FormOK, Publishing
      <4> QED BY <3>1, <4>1 DEF LiveInv, NearbyCallOK
    <3>5. PICK step \in PublishSteps : r = CallOf[step]
      BY <3>3, <3>4, CallsAreRequests DEF Calls, PublishSteps
    <3>6. step = "publish" /\ req[r].api = "v2" /\ req[r].body = Route
      BY <2>2, <3>1, <3>5, CallUnderWay DEF BodyOf
    <3> QED BY <3>1, <3>6 DEF NewRow
  <2> QED BY <2>1, <2>2, HandleFrame
<1> QED BY <1>1, <1>2 DEF KeyIsOwn

-----------------------------------------------------------------------------
(* What the verifier counts: nothing, and its own row.                     *)
LEMMA NoBytes == WithinBytes({})
<1> DEFINE sum == MapThenSumSet(LAMBDA r : Bytes[r.body], {})
<1>1. sum = 0
  BY DEF MapThenSumSet, MapThenFoldSet
<1>2. WithinBytes({}) <=> sum <= MaxResponseBytes
  BY Zenon DEF WithinBytes
<1> HIDE DEF sum
<1> QED BY <1>1, <1>2, LiveVerifierAssumption

LEMMA BytesOfOne ==
  ASSUME NEW row, row.body = Route
  PROVE  WithinBytes({row})
<1> DEFINE S       == SUBSET {row}
           pick(s) == CHOOSE x \in s : TRUE
           iter    == CHOOSE it : it = [s \in S |-> IF s = {} THEN 0 ELSE Bytes[pick(s).body] + it[s \ {pick(s)}]]
           f       == [s \in S |-> IF s = {} THEN 0 ELSE Bytes[row.body]]
           sum     == MapThenSumSet(LAMBDA r : Bytes[r.body], {row})
<1>1. Bytes[row.body] \in Nat /\ MaxResponseBytes \in Nat /\ Bytes[row.body] <= MaxResponseBytes
  BY LiveVerifierAssumption
<1>2. f = [s \in S |-> IF s = {} THEN 0 ELSE Bytes[pick(s).body] + f[s \ {pick(s)}]]
  BY <1>1
<1>3. iter = [s \in S |-> IF s = {} THEN 0 ELSE Bytes[pick(s).body] + iter[s \ {pick(s)}]]
  <2> HIDE DEF f
  <2> QED BY <1>2
<1>4. sum = iter[{row}]
  BY Zenon DEF MapThenSumSet, MapThenFoldSet
<1>5. WithinBytes({row}) <=> sum <= MaxResponseBytes
  BY Zenon DEF WithinBytes
<1> HIDE DEF sum
<1>6. iter[{row}] = Bytes[row.body]
  <2> HIDE DEF iter
  <2> QED BY <1>1, <1>3
<1> QED BY <1>1, <1>4, <1>5, <1>6, Zenon

-----------------------------------------------------------------------------
LEMMA LiveInitHolds == LiveInit => LiveInv
<1> SUFFICES ASSUME LiveInit PROVE LiveInv
  OBVIOUS
<1>1. /\ verifier.step = "start" /\ verifier.phase = "send" /\ verifier.outcome = "running"
      /\ verifier.sent = {} /\ verifier.told = {}
  BY DEF LiveInit
<1>2. \A r \in Requests : req[r].pc = "idle" /\ req[r].status = "none" /\ req[r].key = NoKey
  BY DEF LiveInit, Init, NewRequest
<1>3. VerifierTypeOK
  <2>1. TypeOK
    BY InitHolds DEF LiveInit, IInv
  <2> QED BY <2>1 DEF LiveInit, VerifierTypeOK, Verifier, StepAfter
<1>4. KeyIsOwn
  BY <1>2, KeyAndBodies DEF LiveInit, Init, KeyIsOwn, Others
<1>5. TellingOK
  BY <1>1 DEF TellingOK, AtCall, At
<1>6. VerdictOK
  BY <1>1 DEF VerdictOK, HealthyApiPasses
<1>7. NearbyCallOK
  BY <1>1, <1>2, CallsAreRequests DEF NearbyCallOK, InFlight
<1>8. ASSUME NEW step \in PublishSteps PROVE PublishCallOK(step)
  <2>1. "none" \in Outcomes[step]
    BY DEF Outcomes, PublishSteps
  <2> QED BY <1>1, <1>2, <2>1, CallsAreRequests DEF PublishCallOK, InFlight
<1> QED BY <1>3, <1>4, <1>5, <1>6, <1>7, <1>8 DEF LiveInv

(* A step of the API that is none of a call.                               *)
LEMMA VerifierUntouched ==
  ASSUME LiveInv, UNCHANGED verifier,
         \A step \in DOMAIN CallOf : req[CallOf[step]].status # "none" => req'[CallOf[step]] = req[CallOf[step]]
  PROVE  TellingOK' /\ VerdictOK'
<1>1. \A step \in DOMAIN CallOf : req[CallOf[step]].status \in {"created", "saved", "conflict", "listed"} =>
         req'[CallOf[step]] = req[CallOf[step]]
  OBVIOUS
<1>2. TellingOK'
  <2>1. verifier.step \in {"replay", "conflict", "nearby"} => req'[PublishCall] = req[PublishCall]
    <3>1. "publish" \in DOMAIN CallOf /\ CallOf["publish"] = PublishCall
      BY CallsAreRequests DEF PublishSteps
    <3>2. verifier.step \in {"replay", "conflict", "nearby"} =>
             req[PublishCall].status \in {"created", "saved"}
      BY DEF LiveInv, TellingOK
    <3> QED BY <1>1, <3>1, <3>2
  <2>2. AtCall("read") => req'[Call] = req[Call]
    BY <1>1 DEF LiveInv, TellingOK, AtCall, At, Call, AllowedStatuses, CallOf
  <2> QED BY <2>1, <2>2 DEF LiveInv, TellingOK, AtCall, At, Call
<1>3. VerdictOK'
  <2>1. req[NearbyCall].status = "listed" => req'[NearbyCall] = req[NearbyCall]
    BY <1>1, CallsAreRequests
  <2> QED BY <2>1 DEF LiveInv, VerdictOK, HealthyApiPasses
<1> QED BY <1>2, <1>3

(* A request that has ended is not handled any more.                       *)
LEMMA ApiStepKeeps ==
  ASSUME LiveInv, IInv, IInv', NEW r \in Requests, Handle(r), UNCHANGED verifier
  PROVE  LiveInv'
<1>1. /\ InFlight(r) /\ store \subseteq store'
      /\ \A q \in Requests \ {r} : req'[q] = req[q]
  BY HandleFrame
<1>2. req[r].status = "none"
  BY <1>1, Typed DEF RequestOK, FormOK, InFlight
<1>3. TellingOK' /\ VerdictOK'
  BY <1>1, <1>2, CallsAreRequests, VerifierUntouched
<1>4. VerifierTypeOK'
  BY DEF LiveInv, VerifierTypeOK, IInv
<1>5. ASSUME NEW step \in PublishSteps PROVE PublishCallOK(step)'
  <2>1. CASE CallOf[step] = r
    BY <2>1, PublishCallKeeps
  <2>2. CASE CallOf[step] # r
    BY <1>1, <2>2, CallKept, CallsAreRequests DEF LiveInv
  <2> QED BY <2>1, <2>2
<1>6. NearbyCallOK'
  <2>1. CASE NearbyCall = r
    BY <2>1, NearbyCallKeeps
  <2>2. CASE NearbyCall # r
    BY <1>1, <2>2, CallsAreRequests DEF LiveInv, NearbyCallOK, InFlight
  <2> QED BY <2>1, <2>2
<1> QED BY <1>3, <1>4, <1>5, <1>6, KeyStaysOwn DEF LiveInv

LEMMA CallArrivesKeeps ==
  ASSUME LiveInv, IInv, IInv', NEW step \in DOMAIN CallOf, CallArrives(step)
  PROVE  LiveInv'
<1> DEFINE r == CallOf[step]
<1>1. /\ r \in verifier.sent /\ r \in Requests /\ r \in Calls
      /\ UNCHANGED << clock, store, published, verifier >>
      /\ req[r].pc = "idle" /\ req[r] \in Request /\ DOMAIN req = Requests
      /\ \A q \in Requests \ {r} : req'[q] = req[q]
  BY CallsAreRequests DEF CallArrives, ArriveNearby, ArrivePublish, IInv, TypeOK
<1>2. req[r].status = "none"
  BY <1>1, Typed DEF RequestOK, FormOK
<1>3. TellingOK' /\ VerdictOK'
  BY <1>1, <1>2, CallsAreRequests, VerifierUntouched
<1>4. VerifierTypeOK'
  BY <1>1 DEF LiveInv, VerifierTypeOK, IInv
<1>5. KeyIsOwn'
  BY <1>1 DEF LiveInv, KeyIsOwn, Others
<1>6. ASSUME NEW s \in PublishSteps PROVE PublishCallOK(s)'
  <2>1. CASE s = step
    <3> DEFINE new == [req[r] EXCEPT !.pc = "limit", !.api = "v2", !.key = VerifierKey,
                                     !.body = BodyOf(step), !.arrived = clock]
    <3>1. req'[r] = new
      BY <1>1, <2>1 DEF CallArrives, ArrivePublish, BodyOf, PublishSteps
    <3>2. /\ new.pc = "limit" /\ new.api = "v2" /\ new.key = VerifierKey
          /\ new.body = BodyOf(step) /\ new.status = "none"
      BY <1>1, <1>2 DEF Request
    <3>3. "none" \in Outcomes[step]
      BY <2>1 DEF Outcomes, PublishSteps
    <3> HIDE DEF new
    <3> QED BY <1>1, <2>1, <3>1, <3>2, <3>3 DEF PublishCallOK, InFlight
  <2>2. CASE s # step
    <3>1. CallOf[s] \in Requests \ {r}
      BY <2>2, CallsAreRequests, LiveVerifierAssumption
    <3> QED BY <1>1, <3>1, CallKept DEF LiveInv
  <2> QED BY <2>1, <2>2
<1>7. NearbyCallOK'
  <2>1. CASE step = "nearby"
    <3> DEFINE new == [req[r] EXCEPT !.pc = "limit", !.api = "nearby", !.arrived = clock,
                                     !.known = Answered]
    <3>1. req'[r] = new /\ r = NearbyCall
      BY <1>1, <2>1, CallsAreRequests DEF CallArrives, ArriveNearby
    <3>2. new.pc = "limit" /\ new.api = "nearby" /\ new.status = "none"
      BY <1>1, <1>2 DEF Request
    <3> HIDE DEF new
    <3> QED BY <1>1, <3>1, <3>2 DEF NearbyCallOK, InFlight
  <2>2. CASE step # "nearby"
    <3>1. NearbyCall \in Requests \ {r}
      BY <2>2, CallsAreRequests, LiveVerifierAssumption
    <3> QED BY <1>1, <3>1 DEF LiveInv, NearbyCallOK, InFlight
  <2> QED BY <2>1, <2>2
<1> QED BY <1>3, <1>4, <1>5, <1>6, <1>7 DEF LiveInv

LEMMA OtherPublishesKeeps ==
  ASSUME LiveInv, IInv, IInv', NEW r \in Others, OtherPublishes(r)
  PROVE  LiveInv'
<1>1. r \in Requests /\ r \notin Calls
  BY DEF Others
<1>2. PICK api \in {"v1", "v2"}, key \in (Keys \ {VerifierKey}) \cup {NoKey}, body \in Bodies :
         ArrivePublish(r, api, key, body)
  BY DEF OtherPublishes
<1>3. /\ UNCHANGED << clock, store, published, verifier >>
      /\ req[r] \in Request /\ DOMAIN req = Requests
      /\ \A q \in Requests \ {r} : req'[q] = req[q]
  BY <1>1, <1>2 DEF OtherPublishes, ArrivePublish, IInv, TypeOK
<1>4. req'[r].key = key /\ key # VerifierKey
  BY <1>1, <1>2, <1>3, KeyAndBodies DEF ArrivePublish, Request
<1>5. \A step \in DOMAIN CallOf : req'[CallOf[step]] = req[CallOf[step]]
  BY <1>1, <1>3, CallsAreRequests
<1>6. TellingOK' /\ VerdictOK'
  BY <1>3, <1>5, VerifierUntouched
<1>7. VerifierTypeOK'
  BY <1>3 DEF LiveInv, VerifierTypeOK, IInv
<1>8. KeyIsOwn'
  BY <1>1, <1>3, <1>4 DEF LiveInv, KeyIsOwn, Others
<1>9. ASSUME NEW s \in PublishSteps PROVE PublishCallOK(s)'
  BY <1>3, <1>5, CallKept, CallsAreRequests DEF LiveInv
<1>10. NearbyCallOK'
  BY <1>3, <1>5, CallsAreRequests DEF LiveInv, NearbyCallOK, InFlight
<1> QED BY <1>6, <1>7, <1>8, <1>9, <1>10 DEF LiveInv

-----------------------------------------------------------------------------
(* What the verifier does leaves the API alone.                            *)
LEMMA VerifierMoves ==
  ASSUME LiveInv, UNCHANGED vars, verifier' \in Verifier, verifier.sent \subseteq verifier'.sent,
         verifier.step = "nearby" => verifier'.told = verifier.told,
         TellingOK', VerdictOK'
  PROVE  LiveInv'
<1>1. UNCHANGED << clock, store, req, published >>
  BY DEF vars
<1>2. VerifierTypeOK' /\ KeyIsOwn'
  BY <1>1 DEF LiveInv, VerifierTypeOK, TypeOK, KeyIsOwn
<1>3. \A step \in PublishSteps : PublishCallOK(step)'
  BY <1>1, CallKept DEF LiveInv
<1>4. NearbyCallOK'
  <2>1. req[NearbyCall].status = "listed" => verifier.step = "nearby"
    <3>1. req[NearbyCall].status = "listed" => NearbyCall \in verifier.sent
      BY DEF LiveInv, NearbyCallOK
    <3> QED BY <3>1, CallsAreRequests DEF LiveInv, TellingOK, Since, PublishSteps
  <2> QED BY <1>1, <2>1 DEF LiveInv, NearbyCallOK, InFlight
<1> QED BY <1>2, <1>3, <1>4 DEF LiveInv

LEMMA FailKeeps ==
  ASSUME LiveInv, UNCHANGED vars, verifier.outcome = "running", NEW disturbed \in BOOLEAN,
         Fail(disturbed),
         ~disturbed =>
            /\ verifier.step = "nearby" /\ req[NearbyCall].status = "listed"
            /\ LET rows == req[NearbyCall].rows
               IN  \/ /\ Cardinality(rows) = ListLimit
                      /\ \A told \in verifier.told, row \in rows : row.createdAt >= told.createdAt
                   \/ \E row \in rows : \/ row.body \in LongBodies \cup FlatBodies
                                        \/ Named(row) /\ row.body \in WideNames
                   \/ ~WithinBytes(rows)
  PROVE  LiveInv'
<1> DEFINE new == [verifier EXCEPT !.outcome = "failed", !.disturbed = disturbed,
                                   !.awaited = {}, !.records = {}]
<1>1. /\ verifier' = new /\ new \in Verifier
      /\ new.outcome = "failed" /\ new.disturbed = disturbed /\ new.step = verifier.step
      /\ new.sent = verifier.sent /\ new.told = verifier.told
  BY DEF Fail, LiveInv, VerifierTypeOK, Verifier
<1> HIDE DEF new
<1>2. UNCHANGED req
  BY DEF vars
<1>3. TellingOK'
  BY <1>1, <1>2 DEF LiveInv, TellingOK, AtCall, At
<1>4. VerdictOK'
  BY <1>1, <1>2 DEF VerdictOK, HealthyApiPasses
<1> QED BY <1>1, <1>3, <1>4, VerifierMoves

LEMMA ProceedKeeps ==
  ASSUME LiveInv, UNCHANGED vars, verifier.outcome = "running", NEW told \in SUBSET Row, Proceed(told),
         verifier.step = "publish" =>
            req[PublishCall].status \in {"created", "saved"} /\ told = req[PublishCall].rows,
         verifier.step \in {"replay", "conflict", "nearby"} => told = verifier.told,
         verifier.step = "nearby" =>
            req[NearbyCall].status = "listed" /\ told \subseteq req[NearbyCall].rows
  PROVE  LiveInv'
<1> DEFINE phase   == IF verifier.step = "start" THEN "wait" ELSE "send"
           outcome == IF verifier.step = "nearby" THEN "passed" ELSE "running"
           new     == [verifier EXCEPT !.step = StepAfter[verifier.step], !.phase = phase,
                                       !.outcome = outcome, !.records = {}, !.told = told]
<1>1. verifier \in Verifier /\ StepAfter[verifier.step] \in DOMAIN StepAfter
  BY DEF LiveInv, VerifierTypeOK, Verifier, StepAfter
<1>2. verifier' = new
  BY DEF Proceed
<1>3. /\ new \in Verifier /\ new.step = StepAfter[verifier.step] /\ new.told = told
      /\ new.sent = verifier.sent /\ new.outcome = outcome /\ new.phase = phase
  BY <1>1 DEF Verifier
<1> HIDE DEF new
<1>4. UNCHANGED req
  BY DEF vars
<1>5. verifier.step \in {"start", "resolve", "health", "publish", "replay", "conflict", "nearby"}
  BY <1>1 DEF Verifier, StepAfter
<1>6. \A step \in DOMAIN CallOf : CallOf[step] \in verifier.sent => new.step \in Since[step]
  <2>1. \A step \in DOMAIN CallOf : CallOf[step] \in verifier.sent => verifier.step \in Since[step]
    BY DEF LiveInv, TellingOK
  <2>2. \A step \in DOMAIN CallOf : verifier.step \in Since[step] => new.step \in Since[step]
    BY <1>3, <1>5 DEF Since, StepAfter, CallOf
  <2> QED BY <2>1, <2>2
<1>7. new.step \in {"replay", "conflict", "nearby"} =>
         req[PublishCall].status \in {"created", "saved"} /\ told = req[PublishCall].rows
  BY <1>3, <1>5 DEF StepAfter, LiveInv, TellingOK
<1>8. TellingOK'
  <2>1. new.phase # "read"
    BY <1>3
  <2> QED BY <1>2, <1>3, <1>4, <1>6, <1>7, <2>1 DEF TellingOK, AtCall, At
<1>9. VerdictOK'
  <2>1. new.outcome = "passed" => verifier.step = "nearby" /\ new.step = "nearby"
    BY <1>3 DEF StepAfter
  <2>2. new.outcome # "failed"
    BY <1>3
  <2> QED BY <1>2, <1>3, <1>4, <2>1, <2>2 DEF VerdictOK, HealthyApiPasses
<1> QED BY <1>2, <1>3, <1>8, <1>9, VerifierMoves

(* A step may only be read once its answer is what it allows.              *)
LEMMA PhaseKeeps ==
  ASSUME LiveInv, UNCHANGED vars, verifier.outcome = "running",
         NEW phase \in {"wait", "read"}, NEW sent \in SUBSET Requests, verifier.sent \subseteq sent,
         NEW awaited \in SUBSET Families, NEW records \in SUBSET Addresses,
         verifier' = [verifier EXCEPT !.phase = phase, !.sent = sent,
                                      !.awaited = awaited, !.records = records],
         \A step \in DOMAIN CallOf : CallOf[step] \in sent \ verifier.sent => verifier.step = step,
         verifier.step \in DOMAIN CallOf /\ phase = "read" =>
            req[Call].status \in AllowedStatuses[verifier.step]
  PROVE  LiveInv'
<1> DEFINE new == [verifier EXCEPT !.phase = phase, !.sent = sent,
                                   !.awaited = awaited, !.records = records]
<1>1. verifier \in Verifier
  BY DEF LiveInv, VerifierTypeOK
<1>2. /\ new \in Verifier /\ new.step = verifier.step /\ new.told = verifier.told
      /\ new.sent = sent /\ new.outcome = "running" /\ new.phase = phase
  BY <1>1 DEF Verifier
<1> HIDE DEF new
<1>3. UNCHANGED req /\ verifier' = new
  BY DEF vars, new
<1>4. \A step \in DOMAIN CallOf : CallOf[step] \in sent => verifier.step \in Since[step]
  <2>1. \A step \in DOMAIN CallOf : step \in Since[step]
    BY DEF Since, CallOf
  <2> QED BY <2>1 DEF LiveInv, TellingOK
<1>5. TellingOK'
  BY <1>2, <1>3, <1>4 DEF LiveInv, TellingOK, AtCall, At, Call
<1>6. VerdictOK'
  BY <1>2, <1>3 DEF VerdictOK, HealthyApiPasses
<1> QED BY <1>2, <1>3, <1>5, <1>6, VerifierMoves

(* Two rows under the verifier's key are the same, as none of them expired.*)
LEMMA OwnIsOne ==
  ASSUME IInv, KeyPublishesOnce,
         NEW p \in published, NEW q \in published, p.row.key = VerifierKey, q.row.key = VerifierKey
  PROVE  p = q
<1> SUFFICES ASSUME p # q PROVE FALSE
  OBVIOUS
<1>1. p.at >= q.row.expiresAt \/ q.at >= p.row.expiresAt
  BY KeyAndBodies DEF KeyPublishesOnce
<1>2. /\ p.at \in Nat /\ p.at <= MaxClock /\ q.at \in Nat /\ q.at <= MaxClock
      /\ p.row \in Row /\ q.row \in Row
      /\ p.row.expiresAt = p.row.createdAt + Ttl /\ q.row.expiresAt = q.row.createdAt + Ttl
  BY DEF IInv, TypeOK, RecordsOK, RecordOK
<1> QED BY <1>1, <1>2, SegmentsApiAssumption, LiveVerifierAssumption DEF Row

LEMMA OwnRowsAreOne ==
  ASSUME IInv, KeyPublishesOnce, NEW row, NEW other, Own(row), Own(other)
  PROVE  row = other
<1>1. PICK p \in published : p.row = row
  BY KeyAndBodies DEF Own, IInv, StoreOK, SeedRow
<1>2. PICK q \in published : q.row = other
  BY KeyAndBodies DEF Own, IInv, StoreOK, SeedRow
<1> QED BY <1>1, <1>2, OwnIsOne DEF Own

(* The headers of an answer that no fault disturbed are those awaited.     *)
LEMMA HeadersArriveKeeps ==
  ASSUME LiveInv, IInv, HeadersArrive
  PROVE  LiveInv'
<1> DEFINE step == verifier.step
           r    == CallOf[step]
<1>1. /\ step \in DOMAIN CallOf /\ r \in Requests /\ Call = r
      /\ verifier.outcome = "running" /\ UNCHANGED vars
      /\ req[r].pc = "done" /\ req[r].status # "none"
  BY CallsAreRequests DEF HeadersArrive, AtCall, At, Call
<1>2. CASE req[r].status \in AllowedStatuses[step]
  <2>1. verifier \in Verifier
    BY DEF LiveInv, VerifierTypeOK
  <2>2. verifier' = [verifier EXCEPT !.phase = "read", !.sent = verifier.sent,
                                     !.awaited = verifier.awaited, !.records = verifier.records]
    BY <1>1, <1>2, <2>1 DEF HeadersArrive, Verifier
  <2>3. /\ verifier.sent \in SUBSET Requests /\ verifier.awaited \in SUBSET Families
        /\ verifier.records \in SUBSET Addresses
    BY <2>1 DEF Verifier
  <2> QED BY <1>1, <1>2, <2>2, <2>3, PhaseKeeps
<1>3. CASE req[r].status \notin AllowedStatuses[step]
  <2> DEFINE disturbed == req[r].status = "refused" \/ req[r].faulted
  <2>1. Fail(disturbed)
    BY <1>1, <1>3 DEF HeadersArrive
  <2>2. req[r].status = "failed" => req[r].faulted
    BY <1>1, Typed DEF RequestOK, FaultFails
  <2>3. req[r].faulted \in BOOLEAN /\ disturbed \in BOOLEAN
    BY <1>1, Typed
  <2>4. disturbed
    <3>1. CASE step = "nearby"
      BY <1>1, <1>3, <2>2, <3>1, CallsAreRequests DEF LiveInv, NearbyCallOK, AllowedStatuses
    <3>2. CASE step # "nearby"
      <4>1. step \in PublishSteps /\ PublishCallOK(step)
        BY <1>1, <3>2, CallsAreRequests DEF LiveInv
      <4>2. req[r].status \in Outcomes[step]
        BY <4>1 DEF PublishCallOK
      <4> QED BY <1>1, <1>3, <2>2, <4>1, <4>2 DEF Outcomes, AllowedStatuses, PublishSteps
    <3> QED BY <3>1, <3>2
  <2> HIDE DEF disturbed
  <2> QED BY <1>1, <2>1, <2>3, <2>4, FailKeeps
<1> QED BY <1>2, <1>3

(* The payload of such an answer is accepted, but for a list that others   *)
(* have filled, or made too long.                                          *)
LEMMA BodyIsReadKeeps ==
  ASSUME LiveInv, IInv, KeyPublishesOnce, BodyIsRead
  PROVE  LiveInv'
<1> DEFINE step == verifier.step
           r    == CallOf[step]
           rows == req[Call].rows
<1>1. UNCHANGED vars /\ verifier.outcome = "running" /\ verifier \in Verifier
  BY DEF BodyIsRead, AtCall, At, LiveInv, VerifierTypeOK
<1>2. CASE At("health", "read") /\ Proceed({})
  BY <1>1, <1>2, ProceedKeeps DEF At
<1>3. CASE AtCall("read") /\ IF PayloadAccepted(rows)
                             THEN Proceed(IF step = "publish" THEN rows ELSE verifier.told)
                             ELSE Fail(FALSE)
  <2>1. /\ step \in DOMAIN CallOf /\ r \in Requests /\ Call = r
        /\ req[r].status \in AllowedStatuses[step]
        /\ req[r].rows \subseteq Row /\ verifier.told \subseteq Row
    BY <1>1, <1>3, CallsAreRequests, Typed DEF AtCall, At, Call, LiveInv, TellingOK, Request, Verifier
  <2>2. ASSUME step \in {"publish", "replay"}
        PROVE  \E row \in store : /\ Own(row) /\ rows = {row} /\ WithinBytes(rows)
                                  /\ PublishedRecord(row)
    <3>1. PICK row \in store : Own(row) /\ rows = {row}
      BY <2>1, <2>2 DEF AllowedStatuses, LiveInv, PublishCallOK, PublishSteps
    <3>2. WithinBytes(rows)
      BY <3>1, BytesOfOne DEF Own
    <3>3. PublishedRecord(row)
      BY <3>1, HolderIsOwn, KeyAndBodies DEF LiveInv, Own, PublishedRecord, SegmentRecord
    <3> QED BY <3>1, <3>2, <3>3
  <2>3. CASE step = "publish"
    <3>1. PayloadAccepted(rows)
      BY <2>2, <2>3 DEF PayloadAccepted
    <3>2. Proceed(rows) /\ req[PublishCall].status \in {"created", "saved"}
          /\ rows = req[PublishCall].rows /\ rows \subseteq Row
      BY <1>3, <2>1, <2>3, <3>1, CallsAreRequests DEF AllowedStatuses
    <3> QED BY <1>1, <2>3, <3>2, ProceedKeeps
  <2>4. CASE step = "replay"
    <3>1. PICK row \in store : /\ Own(row) /\ rows = {row} /\ WithinBytes(rows)
                               /\ PublishedRecord(row)
      BY <2>2, <2>4
    <3>2. PICK told \in store : Own(told) /\ verifier.told = {told}
      BY <2>4, ToldIsOwn
    <3>3. row = told
      BY <3>1, <3>2, OwnRowsAreOne
    <3>4. PayloadAccepted(rows)
      BY <2>4, <3>1, <3>2, <3>3 DEF PayloadAccepted
    <3> QED BY <1>1, <1>3, <2>1, <2>4, <3>4, ProceedKeeps
  <2>5. CASE step = "conflict"
    <3>1. rows = {}
      BY <2>1, <2>5, CallsAreRequests DEF AllowedStatuses, LiveInv, PublishCallOK, PublishSteps
    <3>2. PayloadAccepted(rows)
      BY <2>5, <3>1, NoBytes DEF PayloadAccepted
    <3> QED BY <1>1, <1>3, <2>1, <2>5, <3>2, ProceedKeeps
  <2>6. CASE step = "nearby"
    <3>1. req[NearbyCall].status = "listed" /\ rows = req[NearbyCall].rows
      BY <2>1, <2>6, CallsAreRequests DEF AllowedStatuses
    <3>2. CASE PayloadAccepted(rows)
      <4>1. verifier.told \subseteq rows
        BY <2>6, <3>2 DEF PayloadAccepted, RereadUnchanged
      <4> QED BY <1>1, <1>3, <2>1, <2>6, <3>1, <3>2, <4>1, ProceedKeeps
    <3>3. CASE ~PayloadAccepted(rows)
      <4>1. \/ ~WithinBytes(rows)
            \/ \E row \in rows : \/ row.body \in LongBodies \cup FlatBodies
                                 \/ Named(row) /\ row.body \in WideNames
            \/ ~(verifier.told \subseteq rows)
        BY <2>6, <3>3 DEF PayloadAccepted, RereadUnchanged, SegmentRecord
      <4>2. PICK told \in store : verifier.told = {told}
        BY <2>6, ToldIsOwn
      <4>3. ASSUME ~(verifier.told \subseteq rows)
            PROVE  /\ Cardinality(rows) = ListLimit
                   /\ \A t \in verifier.told, row \in rows : row.createdAt >= t.createdAt
        BY <3>1, <4>2, <4>3 DEF LiveInv, NearbyCallOK
      <4> HIDE DEF rows
      <4> QED BY <1>1, <1>3, <2>6, <3>1, <3>3, <4>1, <4>3, FailKeeps
    <3> QED BY <3>2, <3>3
  <2> QED BY <2>1, <2>3, <2>4, <2>5, <2>6, CallsAreRequests DEF PublishSteps
<1> QED BY <1>2, <1>3 DEF BodyIsRead

LEMMA VerifierStepKeeps ==
  ASSUME LiveInv, IInv, KeyPublishesOnce, VerifierStep
  PROVE  LiveInv'
<1>1. verifier \in Verifier
  BY DEF LiveInv, VerifierTypeOK
<1>2. ASSUME Fail(TRUE), verifier.outcome = "running", UNCHANGED vars PROVE LiveInv'
  BY <1>2, FailKeeps
<1>3. CASE Start
  BY <1>2, <1>3, ProceedKeeps DEF Start, At
<1>4. CASE LookupEnds
  BY <1>2, <1>4, ProceedKeeps DEF LookupEnds, At
<1>5. CASE LookupTimesOut
  BY <1>2, <1>5 DEF LookupTimesOut, At
<1>6. CASE CallBreaks
  BY <1>2, <1>6 DEF CallBreaks
<1>7. CASE RequestTimesOut
  BY <1>2, <1>7 DEF RequestTimesOut
<1>8. CASE HeadersArrive
  BY <1>8, HeadersArriveKeeps
<1>9. CASE BodyIsRead
  BY <1>9, BodyIsReadKeeps
<1>10. CASE Send
  <2> DEFINE sent == verifier.sent \cup (IF verifier.step = "health" THEN {} ELSE {Call})
  <2>1. verifier' = [verifier EXCEPT !.phase = "wait", !.sent = sent,
                       !.awaited = verifier.awaited, !.records = verifier.records]
    BY <1>1, <1>10 DEF Send, Verifier
  <2>2. /\ verifier.step \in {"health"} \cup DOMAIN CallOf /\ verifier.outcome = "running"
        /\ UNCHANGED vars /\ "health" \notin DOMAIN CallOf
    BY <1>10 DEF Send, AtCall, At, CallOf
  <2>3. /\ sent \in SUBSET Requests /\ verifier.sent \subseteq sent
        /\ verifier.awaited \in SUBSET Families /\ verifier.records \in SUBSET Addresses
    BY <1>1, <2>2, CallsAreRequests DEF Verifier, Call
  <2>4. \A step \in DOMAIN CallOf : CallOf[step] \in sent \ verifier.sent => verifier.step = step
    BY <2>2, LiveVerifierAssumption DEF Call
  <2> HIDE DEF sent
  <2> QED BY <2>1, <2>2, <2>3, <2>4, PhaseKeeps
<1>11. CASE HealthAnswers
  <2>1. CASE Fail(TRUE)
    BY <1>2, <1>11, <2>1 DEF HealthAnswers, At
  <2>2. CASE verifier' = [verifier EXCEPT !.phase = "read"]
    <3> DEFINE sent    == verifier.sent
               awaited == verifier.awaited
               records == verifier.records
    <3>1. verifier' = [verifier EXCEPT !.phase = "read", !.sent = sent,
                                       !.awaited = awaited, !.records = records]
      BY <1>1, <2>2 DEF Verifier
    <3>2. /\ verifier.step \notin DOMAIN CallOf /\ verifier.outcome = "running"
          /\ UNCHANGED vars
      BY <1>11 DEF HealthAnswers, At, CallOf
    <3>3. /\ sent \in SUBSET Requests /\ verifier.sent \subseteq sent
          /\ awaited \in SUBSET Families /\ records \in SUBSET Addresses
          /\ \A step \in DOMAIN CallOf : CallOf[step] \notin sent \ verifier.sent
      BY <1>1 DEF Verifier
    <3> HIDE DEF sent, awaited, records
    <3> QED BY <3>1, <3>2, <3>3, PhaseKeeps
  <2> QED BY <1>11, <2>1, <2>2 DEF HealthAnswers
<1>12. ASSUME NEW family \in Families, FamilySettles(family) PROVE LiveInv'
  <2>1. PICK addresses \in SUBSET Addresses :
           verifier' = [verifier EXCEPT !.awaited = @ \ {family}, !.records = @ \cup addresses]
    BY <1>12 DEF FamilySettles
  <2>2. /\ verifier.step = "resolve" /\ verifier.phase = "wait" /\ verifier.outcome = "running"
        /\ UNCHANGED vars /\ "resolve" \notin DOMAIN CallOf
    BY <1>12 DEF FamilySettles, At, CallOf
  <2> DEFINE awaited == verifier.awaited \ {family}
             records == verifier.records \cup addresses
  <2>3. verifier' = [verifier EXCEPT !.phase = "wait", !.sent = verifier.sent,
                       !.awaited = awaited, !.records = records]
    BY <1>1, <2>1, <2>2 DEF Verifier
  <2>4. /\ verifier.sent \in SUBSET Requests
        /\ awaited \in SUBSET Families /\ records \in SUBSET Addresses
    BY <1>1 DEF Verifier
  <2> HIDE DEF awaited, records
  <2> QED BY <2>2, <2>3, <2>4, PhaseKeeps
<1> QED BY <1>3, <1>4, <1>5, <1>6, <1>7, <1>8, <1>9, <1>10, <1>11, <1>12 DEF VerifierStep

-----------------------------------------------------------------------------
(* Whatever verifier and other clients do, the API sees requests: it       *)
(* behaves as SegmentsApi allows, and keeps all that was proved of it.     *)
THEOREM VerifiedApiIsApi == LiveSpec => Spec
<1>1. LiveInit => Init
  BY DEF LiveInit
<1>2. ASSUME [LiveNext]_liveVars PROVE [Next]_vars
  <2>1. ASSUME VerifierStep PROVE UNCHANGED vars
    BY <2>1 DEF VerifierStep, Start, FamilySettles, LookupEnds, LookupTimesOut, Send, HealthAnswers,
       HeadersArrive, CallBreaks, RequestTimesOut, BodyIsRead
  <2>2. ASSUME NEW step \in DOMAIN CallOf, CallArrives(step) PROVE Next
    <3>1. CallOf[step] \in Requests /\ VerifierKey \in Keys /\ Route \in Bodies /\ Probe \in Bodies
      BY CallsAreRequests, KeyAndBodies
    <3> QED BY <2>2, <3>1 DEF CallArrives, Next
  <2>3. ASSUME NEW r \in Others, OtherPublishes(r) PROVE Next
    <3>1. r \in Requests /\ (Keys \ {VerifierKey}) \cup {NoKey} \subseteq Keys \cup {NoKey}
      BY DEF Others
    <3> QED BY <2>3, <3>1 DEF OtherPublishes, Next
  <2>4. ASSUME ApiStep PROVE Next
    BY <2>4 DEF ApiStep, Next
  <2> QED BY <1>2, <2>1, <2>2, <2>3, <2>4 DEF LiveNext, liveVars
<1> QED BY <1>1, <1>2, PTL DEF LiveSpec, Spec

LEMMA LiveStepKeeps ==
  ASSUME LiveInv, IInv, IInv', KeyPublishesOnce, [LiveNext]_liveVars
  PROVE  LiveInv'
<1>1. CASE VerifierStep
  BY <1>1, VerifierStepKeeps
<1>2. ASSUME NEW step \in DOMAIN CallOf, CallArrives(step) PROVE LiveInv'
  BY <1>2, CallArrivesKeeps
<1>3. ASSUME NEW r \in Others, OtherPublishes(r) PROVE LiveInv'
  BY <1>3, OtherPublishesKeeps
<1>4. ASSUME NEW r \in Requests, Handle(r), UNCHANGED verifier PROVE LiveInv'
  BY <1>4, ApiStepKeeps
<1>5. ASSUME UNCHANGED << store, req, published, verifier >> PROVE LiveInv'
  <2>1. TellingOK' /\ VerdictOK'
    BY <1>5, VerifierUntouched
  <2>2. VerifierTypeOK' /\ KeyIsOwn' /\ NearbyCallOK'
    BY <1>5 DEF LiveInv, VerifierTypeOK, IInv, KeyIsOwn, NearbyCallOK, InFlight
  <2>3. \A step \in PublishSteps : PublishCallOK(step)'
    BY <1>5, CallKept DEF LiveInv
  <2> QED BY <2>1, <2>2, <2>3 DEF LiveInv
<1>6. CASE Tick /\ UNCHANGED verifier
  BY <1>5, <1>6 DEF Tick
<1>7. CASE UNCHANGED liveVars
  BY <1>5, <1>7 DEF liveVars, vars
<1> QED BY <1>1, <1>2, <1>3, <1>4, <1>6, <1>7 DEF LiveNext, ApiStep

LEMMA LiveInvariance == LiveSpec => [](IInv /\ KeyPublishesOnce /\ LiveInv)
<1>1. LiveInit => LiveInv
  BY LiveInitHolds
<1>2. IInv /\ IInv' /\ KeyPublishesOnce /\ LiveInv /\ [LiveNext]_liveVars => LiveInv'
  BY LiveStepKeeps
<1> QED BY <1>1, <1>2, VerifiedApiIsApi, ApiInvariance, KeysPublishOnce, PTL DEF LiveSpec

(* The verifier's variable keeps its type.                                 *)
THEOREM VerifierTypeCorrect == LiveSpec => []VerifierTypeOK
<1>1. LiveInv => VerifierTypeOK
  BY DEF LiveInv
<1> QED BY <1>1, LiveInvariance, PTL

(* However calls are delayed, lost or overtaken by their timers, a run     *)
(* leaves at most one row behind, and it is the route, never the probe.    *)
THEOREM VerifierLeavesItsRoute == LiveSpec => []LeavesAtMostItsRoute
<1>1. ASSUME IInv, KeyPublishesOnce, LiveInv PROVE LeavesAtMostItsRoute
  <2> DEFINE own == { p \in published : p.row.key = VerifierKey }
  <2>1. \A p \in published : p.row.key = VerifierKey => p.row.body = Route
    BY <1>1 DEF LiveInv, KeyIsOwn
  <2>2. CASE own = {}
    BY <2>1, <2>2, FS_EmptySet DEF LeavesAtMostItsRoute
  <2>3. ASSUME NEW p \in own PROVE LeavesAtMostItsRoute
    <3>1. own = {p}
      BY <1>1, <2>3, OwnIsOne
    <3>2. Cardinality(own) = 1
      BY <3>1, FS_Singleton
    <3> QED BY <2>1, <3>2 DEF LeavesAtMostItsRoute
  <2> QED BY <2>2, <2>3
<1> QED BY <1>1, LiveInvariance, PTL

(* When the verifier passes, the API has published its route once, under   *)
(* its key and as it was sent, told it the row, and listed it.             *)
THEOREM PassingMeansListed == LiveSpec => []PassMeansListed
<1>1. ASSUME IInv, KeyPublishesOnce, LiveInv PROVE PassMeansListed
  <2> SUFFICES ASSUME verifier.outcome = "passed"
               PROVE  \E row \in store :
                         /\ verifier.told = {row} /\ row \in req[NearbyCall].rows
                         /\ row.key = VerifierKey /\ row.body = Route
                         /\ { p.row : p \in { q \in published : q.row.key = VerifierKey } } = {row}
    BY DEF PassMeansListed
  <2>1. verifier.step = "nearby" /\ verifier.told \subseteq req[NearbyCall].rows
    BY <1>1 DEF LiveInv, VerdictOK
  <2>2. PICK row \in store : Own(row) /\ verifier.told = {row}
    BY <1>1, <2>1, ToldIsOwn
  <2>3. PICK p \in published : p.row = row
    BY <1>1, <2>2, KeyAndBodies DEF Own, IInv, StoreOK, SeedRow
  <2>4. { q \in published : q.row.key = VerifierKey } = {p}
    BY <1>1, <2>2, <2>3, OwnIsOne DEF Own
  <2>5. { q.row : q \in {p} } = {row}
    BY <2>3
  <2> QED BY <2>1, <2>2, <2>4, <2>5 DEF Own
<1> QED BY <1>1, LiveInvariance, PTL

(* A run that no fault disturbed fails only because of what others have    *)
(* published: too many newer segments, or segments too long.               *)
THEOREM HealthyApisPass == LiveSpec => []HealthyApiPasses
<1>1. LiveInv => HealthyApiPasses
  BY DEF LiveInv, VerdictOK
<1> QED BY <1>1, LiveInvariance, PTL

=============================================================================
