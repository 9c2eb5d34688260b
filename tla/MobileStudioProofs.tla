------------------------- MODULE MobileStudioProofs -------------------------
(***************************************************************************)
(* Theorems of MobileStudio, for any routes, names and number of request   *)
(* ids, however many operations are under way at once.                     *)
(*                                                                         *)
(* They rest on one inductive invariant, IInv.  Its parts say what a       *)
(* request id may stand for wherever it is held (in memory, in an envelope *)
(* that waits to be saved, in the file, in an operation, in a request),    *)
(* that an id is in the file before it is sent, and what the screen keeps  *)
(* the person from touching.  AdvanceKeeps preserves it for the steps that *)
(* leave the state as it is, PersistKeeps for those that change it.        *)
(***************************************************************************)
EXTENDS MobileStudio, SequenceTheorems, TLAPS

(* What claims a request id for a body: a request that was made, an        *)
(* operation that is about to make one, or an envelope, wherever it is.    *)
Claim(key, body) == [key |-> key, body |-> body]

BodyOf(env) == [name |-> env.draftName, route |-> env.route]

Held == {mem.env} \cup { queue[i].env : i \in 1..Len(queue) } \cup ({disk} \ {NoFile})

Claims ==
    sent \cup { Claim(ops[o].key, ops[o].body) : o \in { p \in Slots : ops[p].key # NoKey } }
         \cup { Claim(env.key, BodyOf(env)) : env \in { e \in Held : e.key # NoKey } }

SentKeys == { m.key : m \in sent }

ClaimsAgree ==
    /\ \A c, d \in Claims : c.key = d.key => c.body = d.body
    /\ \A c \in Claims : c.key < nextKey

(* An id is held only by a draft that was reviewed under its name.         *)
HeldAsReviewed(env) ==
    /\ env.key # NoKey => env.status \in {"ready", "publishing"}
    /\ env.key # NoKey \/ env.status = "publishing" => env.draftName = env.name

EnvelopesAreReviewed == \A env \in Held : HeldAsReviewed(env)

RetriesAreReady ==
    mem.publishStatus \in {"confirming", "failed"} =>
        mem.env.status = "ready" /\ mem.env.draftName = mem.env.name

(* The queue holds what operations wait for, the newest state last.        *)
QueueOK ==
    /\ \A i \in 1..Len(queue) :
          /\ ops[queue[i].op].pc \notin {"none", "request"}
          /\ ops[queue[i].op].pc = "confirm" => ops[queue[i].op].key = queue[i].env.key
    /\ \A i, j \in 1..Len(queue) : queue[i].op = queue[j].op => i = j
    /\ queue # <<>> => queue[Len(queue)].env = mem.env
    /\ \A o \in Slots : ops[o].pc \in {"confirm", "request"} => ops[o].key # NoKey

(* The id in memory: once saved in the queue it stays, and it is saved     *)
(* before it is sent.                                                      *)
KeyStays ==
    \A i, j \in 1..Len(queue) :
        i < j /\ queue[i].env.key = mem.env.key /\ mem.env.key # NoKey =>
            queue[j].env.key = mem.env.key

SavedBeforeSent ==
    mem.env.key \in SentKeys =>
        /\ \A i \in 1..Len(queue) : queue[i].env.key = mem.env.key
        /\ disk = NoFile \/ disk.key = mem.env.key

(* So is the id in doubt.                                                  *)
Retries(env, id) == env.key = id \/ env.status = "published"

DoubtIsSaved ==
    doubt # NoKey =>
        /\ Retries(mem.env, doubt)
        /\ \A i, j \in 1..Len(queue) : i < j /\ queue[i].env.key = doubt => Retries(queue[j].env, doubt)
        /\ doubt \in SentKeys =>
              /\ \A i \in 1..Len(queue) : Retries(queue[i].env, doubt)
              /\ disk = NoFile \/ Retries(disk, doubt)

(* The screen lets nobody touch a draft that is being published.           *)
ScreenIsLocked ==
    /\ mem.env.status = "publishing" => Confirmation \/ shown.status = "publishing"
    /\ Confirmation /\ (mem.env.status = "publishing" \/ mem.publishStatus \in {"confirming", "failed"}) =>
          shown.body = BodyOf(mem.env)
    /\ "published" \in {shown.publishStatus, mem.publishStatus} => mem.env.key = NoKey

(* Unless a save failed, the file is as the state was when no save waited. *)
FileIsCurrent ==
    failures = 0 =>
        /\ queue = <<>> => \/ disk = mem.env
                           \/ Boot(disk).env = mem.env
        /\ mem.env.status = "publishing" => \E o \in Slots : ops[o].pc \in {"confirm", "request"}

IInv ==
    /\ TypeOK
    /\ ClaimsAgree /\ EnvelopesAreReviewed /\ RetriesAreReady
    /\ QueueOK /\ KeyStays /\ SavedBeforeSent /\ DoubtIsSaved
    /\ ScreenIsLocked /\ FileIsCurrent

-----------------------------------------------------------------------------
LEMMA Typed ==
  ASSUME IInv
  PROVE  /\ mem \in State /\ mem.env \in Envelope /\ queue \in Seq(Entry) /\ Len(queue) \in Nat
         /\ \A i \in 1..Len(queue) : queue[i].env \in Envelope /\ queue[i].op \in Slots
         /\ disk \in Envelope \cup {NoFile} /\ ops \in [Slots -> Op] /\ shown \in Shown
         /\ mem.env.key \in Keys \cup {NoKey} /\ nextKey \in Nat /\ NoKey \notin Keys
<1>1. /\ mem \in State /\ queue \in Seq(Entry) /\ disk \in Envelope \cup {NoFile}
      /\ ops \in [Slots -> Op] /\ shown \in Shown /\ nextKey \in 1..(MaxKeys + 1)
  BY DEF IInv, TypeOK
<1>2. mem.env \in Envelope
  BY <1>1 DEF State
<1>3. mem.env.key \in Keys \cup {NoKey}
  BY <1>2 DEF Envelope
<1>4. Len(queue) \in Nat /\ \A i \in 1..Len(queue) : queue[i] \in Entry
  BY <1>1
<1>5. \A i \in 1..Len(queue) : queue[i].env \in Envelope /\ queue[i].op \in Slots
  BY <1>4 DEF Entry
<1>6. nextKey \in Nat /\ NoKey \notin Keys
  BY <1>1, MobileStudioAssumption DEF Keys
<1> QED BY <1>1, <1>2, <1>3, <1>4, <1>5, <1>6

LEMMA InitHolds == Init => IInv
<1> SUFFICES ASSUME Init PROVE IInv
  OBVIOUS
<1>1. TypeOK
  <2>1. NewEnvelope \in Envelope /\ NoBody \in Body
    BY DEF NewEnvelope, Envelope, NoBody, Body
  <2>2. NewState \in State
    BY <2>1 DEF NewState, State, PublishStatuses
  <2>3. NoOp \in Op
    BY <2>1 DEF NoOp, Op
  <2>4. Snapshot(NewState) \in Shown
    BY DEF Snapshot, NewState, NewEnvelope, Shown, PublishStatuses, Body
  <2>5. <<>> \in Seq(Entry) /\ 1 \in 1..(MaxKeys + 1) /\ 0 \in 0..MaxFailures
    BY MobileStudioAssumption
  <2> QED BY <2>1, <2>2, <2>3, <2>4, <2>5 DEF Init, TypeOK
<1>2. Len(queue) = 0 /\ Held = {NewEnvelope} /\ Claims = {}
  BY DEF Init, Held, Claims, NewState, NewEnvelope, NoOp
<1>3. ClaimsAgree /\ EnvelopesAreReviewed /\ RetriesAreReady
  BY <1>2 DEF Init, ClaimsAgree, EnvelopesAreReviewed, RetriesAreReady, HeldAsReviewed, NewState, NewEnvelope
<1>4. QueueOK /\ KeyStays /\ SavedBeforeSent /\ DoubtIsSaved
  BY <1>2 DEF Init, QueueOK, KeyStays, SavedBeforeSent, DoubtIsSaved, SentKeys, NoOp
<1>5. ScreenIsLocked /\ FileIsCurrent
  BY <1>2 DEF Init, ScreenIsLocked, FileIsCurrent, Confirmation, Snapshot, NewState, NewEnvelope, Boot
<1> QED BY <1>1, <1>3, <1>4, <1>5 DEF IInv

(* The queue after a step, before what the step appends: its head may have *)
(* been saved, or have failed to be.                                       *)
Advance(rest) ==
    \/ rest = queue /\ disk' = disk
    \/ queue # <<>> /\ rest = Tail(queue) /\ disk' \in {disk, NoFile, Head(queue).env}

LEMMA RestFacts ==
  ASSUME IInv, NEW rest, Advance(rest)
  PROVE  /\ rest \in Seq(Entry) /\ Len(rest) \in Nat /\ disk' \in Held \cup {NoFile}
         /\ disk' \in {disk, NoFile} \/ (Len(queue) > 0 /\ disk' = queue[1].env)
         /\ \E d \in {0, 1} :
               /\ Len(rest) = Len(queue) - d
               /\ \A i \in 1..Len(rest) : i + d \in 1..Len(queue) /\ rest[i] = queue[i + d]
<1>1. CASE rest = queue /\ disk' = disk
  BY <1>1, Typed DEF Held
<1>2. CASE queue # <<>> /\ rest = Tail(queue) /\ disk' \in {disk, NoFile, Head(queue).env}
  <2>1. /\ Len(queue) > 0 /\ Head(queue) = queue[1] /\ Tail(queue) \in Seq(Entry)
        /\ Len(Tail(queue)) = Len(queue) - 1
        /\ \A i \in 1..Len(Tail(queue)) : Tail(queue)[i] = queue[i + 1]
    BY <1>2, HeadTailProperties, Typed
  <2>2. queue[1].env \in Held /\ (disk = NoFile \/ disk \in Held)
    BY <2>1, Typed DEF Held
  <2>3. \A i \in 1..Len(rest) : i + 1 \in 1..Len(queue) /\ rest[i] = queue[i + 1]
    BY <1>2, <2>1, Typed
  <2>4. Len(rest) \in Nat
    BY <1>2, <2>1, Typed
  <2>5. disk' \in Held \cup {NoFile} /\ (disk' \in {disk, NoFile} \/ disk' = queue[1].env)
    BY <1>2, <2>1, <2>2
  <2> QED BY <1>2, <2>1, <2>3, <2>4, <2>5
<1> QED BY <1>1, <1>2 DEF Advance

LEMMA ClaimsOfHeld ==
  ASSUME NEW env \in Held, env.key # NoKey
  PROVE  Claim(env.key, BodyOf(env)) \in Claims
BY DEF Claims

LEMMA ClaimFields == \A key, body : Claim(key, body).key = key /\ Claim(key, body).body = body
BY DEF Claim

(* No id that is yet to be drawn is claimed.                               *)
LEMMA NextKeyIsNew ==
  ASSUME IInv
  PROVE  /\ nextKey \notin SentKeys
         /\ \A env \in Held : env.key # NoKey => env.key # nextKey
<1>1. \A c \in Claims : c.key # nextKey
  BY Typed DEF IInv, ClaimsAgree
<1>2. sent \subseteq Claims
  BY DEF Claims
<1> QED BY <1>1, <1>2, ClaimsOfHeld, ClaimFields DEF SentKeys

LEMMA QueueIsHeld == \A i \in 1..Len(queue) : queue[i].env \in Held
BY DEF Held

(* Ids keep their bodies if a step claims one new id at most, by one new   *)
(* envelope and an operation of its body.                                  *)
LEMMA ClaimsKept ==
  ASSUME IInv, NEW env, Held' \subseteq Held \cup {env}, sent' \subseteq Claims,
         \A o \in Slots : ops'[o].key # NoKey =>
            Claim(ops'[o].key, ops'[o].body) \in Claims \cup {Claim(env.key, BodyOf(env))},
         \/ (env.key = NoKey \/ Claim(env.key, BodyOf(env)) \in Claims) /\ nextKey' = nextKey
         \/ env.key = nextKey /\ nextKey' = nextKey + 1
  PROVE  ClaimsAgree'
<1> DEFINE new == Claim(env.key, BodyOf(env))
<1>1. \A c \in Claims' : c \in Claims \/ (c = new /\ env.key # NoKey)
  <2> SUFFICES ASSUME NEW c \in Claims' PROVE c \in Claims \/ (c = new /\ env.key # NoKey)
    OBVIOUS
  <2>1. CASE c \in sent'
    BY <2>1
  <2>2. ASSUME NEW o \in Slots, ops'[o].key # NoKey, c = Claim(ops'[o].key, ops'[o].body)
        PROVE  c \in Claims \/ (c = new /\ env.key # NoKey)
    BY <2>2, ClaimFields
  <2>3. ASSUME NEW e \in Held', e.key # NoKey, c = Claim(e.key, BodyOf(e))
        PROVE  c \in Claims \/ (c = new /\ env.key # NoKey)
    BY <2>3, ClaimsOfHeld
  <2> QED BY <2>1, <2>2, <2>3 DEF Claims
<1>2. \A c \in Claims : c.key < nextKey
  BY DEF IInv, ClaimsAgree
<1>3. \A c, d \in Claims : c.key = d.key => c.body = d.body
  BY DEF IInv, ClaimsAgree
<1>4. new.key = env.key
  BY ClaimFields
<1>5. \A c \in Claims : c.key \in Nat
  <2>1. \A c \in sent : c.key \in Keys
    BY DEF IInv, TypeOK
  <2>2. \A o \in Slots : ops[o].key # NoKey => ops[o].key \in Keys
    BY Typed DEF Op
  <2>3. \A e \in Held : e.key # NoKey => e.key \in Keys
    BY Typed DEF Held, Envelope
  <2>4. Keys \subseteq Nat
    BY DEF Keys
  <2> QED BY <2>1, <2>2, <2>3, <2>4, ClaimFields DEF Claims
<1> HIDE DEF new
<1>6. CASE (env.key = NoKey \/ new \in Claims) /\ nextKey' = nextKey
  BY <1>1, <1>2, <1>3, <1>6 DEF ClaimsAgree
<1>7. CASE env.key = nextKey /\ nextKey' = nextKey + 1
  <2>1. \A c \in Claims' : c.key < nextKey'
    BY <1>1, <1>2, <1>4, <1>5, <1>7, Typed
  <2>2. \A c, d \in Claims' : c.key = d.key => c.body = d.body
    BY <1>1, <1>2, <1>3, <1>4, <1>5, <1>7, Typed
  <2> QED BY <2>1, <2>2 DEF ClaimsAgree
<1> QED BY <1>6, <1>7 DEF new

(* A step that changes no state of the controller.                         *)
LEMMA AdvanceKeeps ==
  ASSUME IInv, Advance(queue'), UNCHANGED << mem, nextKey >>,
         sent' \subseteq Claims, sent' \subseteq [key : Keys, body : Body], net' \subseteq sent',
         server' \subseteq sent',
         mem.env.key \in SentKeys' => mem.env.key \in SentKeys \/
             ((\A i \in 1..Len(queue') : queue'[i].env.key = mem.env.key) /\ disk'.key = mem.env.key),
         doubt' \in {doubt, NoKey},
         doubt' # NoKey /\ doubt' \in SentKeys' => doubt' \in SentKeys \/
             ((\A i \in 1..Len(queue') : Retries(queue'[i].env, doubt)) /\ Retries(disk', doubt)),
         ops' \in [Slots -> Op],
         \A o \in Slots : \/ ops'[o].pc = ops[o].pc /\ ops'[o].key = ops[o].key /\ ops'[o].body = ops[o].body
                         \/ /\ \A i \in 1..Len(queue') : queue'[i].op # o
                            /\ \/ ops'[o] = NoOp
                               \/ ops[o].pc = "confirm" /\ ops'[o] = [ops[o] EXCEPT !.pc = "request"],
         ScreenIsLocked', shown' \in Shown, busy' \in BOOLEAN, failures' \in 0..MaxFailures,
         failures' = 0 => \/ failures = 0 /\ queue = queue' /\ disk = disk'
                          \/ failures = 0 /\ queue # <<>> /\ disk' = Head(queue).env,
         failures' = 0 /\ mem.env.status = "publishing" =>
             \A o \in Slots : ops[o].pc \in {"confirm", "request"} => ops'[o].pc \in {"confirm", "request"}
  PROVE  IInv'
<1>1. PICK d \in {0, 1} :
         /\ Len(queue') = Len(queue) - d
         /\ \A i \in 1..Len(queue') : i + d \in 1..Len(queue) /\ queue'[i] = queue[i + d]
  BY RestFacts
<1>2. Len(queue') \in Nat /\ queue' \in Seq(Entry)
  BY RestFacts
<1>3. disk' \in Envelope \cup {NoFile}
  BY RestFacts, Typed DEF Held
<1>4. TypeOK'
  BY <1>2, <1>3, Typed DEF IInv, TypeOK
<1>5. Held' \subseteq Held
  <2>1. \A i \in 1..Len(queue') : queue'[i].env \in Held
    BY <1>1, QueueIsHeld
  <2>2. mem'.env = mem.env /\ mem.env \in Held
    BY DEF Held
  <2>3. disk' # NoFile => disk' \in Held
    BY RestFacts
  <2>4. \A e \in Held' : e = mem'.env \/ (\E i \in 1..Len(queue') : e = queue'[i].env) \/ (e = disk' /\ e # NoFile)
    BY DEF Held
  <2> QED BY <2>1, <2>2, <2>3, <2>4
<1>6. ClaimsAgree'
  <2>1. mem.env \in Held
    BY DEF Held
  <2>2. \A o \in Slots : ops'[o].key # NoKey => Claim(ops'[o].key, ops'[o].body) \in Claims
    <3> SUFFICES ASSUME NEW o \in Slots, ops'[o].key # NoKey
                 PROVE  Claim(ops'[o].key, ops'[o].body) \in Claims
      OBVIOUS
    <3>1. ops'[o].key = ops[o].key /\ ops'[o].body = ops[o].body
      BY Typed DEF NoOp, Op
    <3> QED BY <3>1 DEF Claims
  <2>3. mem.env.key = NoKey \/ Claim(mem.env.key, BodyOf(mem.env)) \in Claims
    BY <2>1, ClaimsOfHeld
  <2> QED BY <1>5, <2>1, <2>2, <2>3, ClaimsKept
<1>7. EnvelopesAreReviewed' /\ RetriesAreReady'
  BY <1>5 DEF IInv, EnvelopesAreReviewed, RetriesAreReady
<1>8. QueueOK'
  <2>1. \A o \in Slots : ops'[o].pc \in {"confirm", "request"} => ops'[o].key # NoKey
    <3> SUFFICES ASSUME NEW o \in Slots, ops'[o].pc \in {"confirm", "request"} PROVE ops'[o].key # NoKey
      OBVIOUS
    <3>1. ops[o] \in Op /\ (ops[o].pc \in {"confirm", "request"} => ops[o].key # NoKey)
      BY Typed DEF IInv, QueueOK
    <3>2. ops'[o] # NoOp
      BY DEF NoOp
    <3>3. CASE ops'[o].pc = ops[o].pc /\ ops'[o].key = ops[o].key
      BY <3>1, <3>3
    <3>4. CASE ops[o].pc = "confirm" /\ ops'[o] = [ops[o] EXCEPT !.pc = "request"]
      BY <3>1, <3>4 DEF Op
    <3> QED BY <3>2, <3>3, <3>4
  <2>2. \A i \in 1..Len(queue') : queue'[i].op \in Slots
    BY <1>1, Typed
  <2>3. \A i \in 1..Len(queue') : /\ ops'[queue'[i].op].pc = ops[queue'[i].op].pc
                                  /\ ops'[queue'[i].op].key = ops[queue'[i].op].key
    BY <2>2
  <2>4. \A i, j \in 1..Len(queue') : queue'[i].op = queue'[j].op => i = j
    <3> SUFFICES ASSUME NEW i \in 1..Len(queue'), NEW j \in 1..Len(queue'),
                        queue'[i].op = queue'[j].op
                 PROVE  i = j
      OBVIOUS
    <3>1. i + d \in 1..Len(queue) /\ j + d \in 1..Len(queue) /\ queue[i + d].op = queue[j + d].op
      BY <1>1
    <3>2. i + d = j + d
      BY <3>1 DEF IInv, QueueOK
    <3> QED BY <3>2
  <2>5. queue' # <<>> => queue'[Len(queue')].env = mem.env
    <3>1. queue' # <<>> => Len(queue') > 0
      BY <1>2
    <3>2. Len(queue') + d = Len(queue) /\ (Len(queue') > 0 => queue # <<>>)
      BY <1>1, <1>2, Typed
    <3>3. Len(queue') > 0 => queue'[Len(queue')] = queue[Len(queue)]
      BY <1>1, <1>2, <3>2
    <3>4. queue # <<>> => queue[Len(queue)].env = mem.env
      BY DEF IInv, QueueOK
    <3> QED BY <3>1, <3>2, <3>3, <3>4
  <2>6. \A i \in 1..Len(queue') :
          /\ ops'[queue'[i].op].pc \notin {"none", "request"}
          /\ ops'[queue'[i].op].pc = "confirm" => ops'[queue'[i].op].key = queue'[i].env.key
    BY <1>1, <2>2, <2>3 DEF IInv, QueueOK
  <2> QED BY <2>1, <2>4, <2>5, <2>6 DEF QueueOK
<1>9. KeyStays'
  <2> SUFFICES ASSUME NEW i \in 1..Len(queue'), NEW j \in 1..Len(queue'), i < j,
                      queue'[i].env.key = mem.env.key, mem.env.key # NoKey
               PROVE  queue'[j].env.key = mem.env.key
    BY DEF KeyStays
  <2>1. i + d \in 1..Len(queue) /\ j + d \in 1..Len(queue) /\ i + d < j + d
    BY <1>1, <1>2
  <2> QED BY <2>1, <1>1 DEF IInv, KeyStays
<1>10. SavedBeforeSent'
  <2>1. CASE mem.env.key \in SentKeys
    <3>1. \A i \in 1..Len(queue') : queue'[i].env.key = mem.env.key
      BY <1>1, <2>1 DEF IInv, SavedBeforeSent
    <3>2. /\ \A i \in 1..Len(queue) : queue[i].env.key = mem.env.key
          /\ disk = NoFile \/ disk.key = mem.env.key
      BY <2>1 DEF IInv, SavedBeforeSent
    <3>3. disk' \in {disk, NoFile} \/ (1 \in 1..Len(queue) /\ disk' = queue[1].env)
      BY RestFacts, Typed
    <3>4. disk' = NoFile \/ disk'.key = mem.env.key
      BY <3>2, <3>3
    <3> QED BY <3>1, <3>4 DEF SavedBeforeSent
  <2> QED BY <2>1 DEF SavedBeforeSent
<1>11. DoubtIsSaved'
  <2> SUFFICES ASSUME doubt' # NoKey PROVE DoubtIsSaved'
    BY DEF DoubtIsSaved
  <2>1. doubt' = doubt
    OBVIOUS
  <2>2. Retries(mem'.env, doubt)
    BY <2>1 DEF IInv, DoubtIsSaved
  <2>3. ASSUME NEW i \in 1..Len(queue'), NEW j \in 1..Len(queue'), i < j, queue'[i].env.key = doubt
        PROVE  Retries(queue'[j].env, doubt)
    <3>1. i + d \in 1..Len(queue) /\ j + d \in 1..Len(queue) /\ i + d < j + d
      BY <1>1, <1>2, <2>3
    <3> QED BY <3>1, <1>1, <2>1, <2>3 DEF IInv, DoubtIsSaved
  <2>4. ASSUME doubt \in SentKeys
        PROVE  (\A i \in 1..Len(queue') : Retries(queue'[i].env, doubt)) /\ (disk' = NoFile \/ Retries(disk', doubt))
    <3>1. (\A i \in 1..Len(queue) : Retries(queue[i].env, doubt)) /\ (disk = NoFile \/ Retries(disk, doubt))
      BY <2>1, <2>4 DEF IInv, DoubtIsSaved
    <3>2. disk' = NoFile \/ Retries(disk', doubt)
      BY <3>1, RestFacts, Typed
    <3> QED BY <1>1, <3>1, <3>2
  <2> QED BY <2>1, <2>2, <2>3, <2>4 DEF DoubtIsSaved
<1>12. FileIsCurrent'
  <2> SUFFICES ASSUME failures' = 0 PROVE FileIsCurrent'
    BY DEF FileIsCurrent
  <2>1. ASSUME queue' = <<>> PROVE disk' = mem.env \/ Boot(disk').env = mem.env
    <3>1. CASE failures = 0 /\ queue = queue' /\ disk = disk'
      BY <2>1, <3>1 DEF IInv, FileIsCurrent
    <3>2. CASE failures = 0 /\ queue # <<>> /\ disk' = Head(queue).env
      <4>1. Len(queue) = 1
        <5>1. Len(queue') = 0
          BY <2>1
        <5>2. Len(queue) # 0
          BY <3>2, Typed
        <5>3. Len(queue) = d
          BY <5>1, <1>1, Typed
        <5> QED BY <5>2, <5>3
      <4>2. Head(queue) = queue[Len(queue)]
        BY <4>1, <3>2, HeadTailProperties, Typed
      <4> QED BY <3>2, <4>2 DEF IInv, QueueOK
    <3> QED BY <3>1, <3>2
  <2>2. mem.env.status = "publishing" => \E o \in Slots : ops'[o].pc \in {"confirm", "request"}
    BY DEF IInv, FileIsCurrent
  <2> QED BY <2>1, <2>2 DEF FileIsCurrent
<1> QED BY <1>4, <1>6, <1>7, <1>8, <1>9, <1>10, <1>11, <1>12 DEF IInv

(* A step that changes the state, and queues its envelope.                 *)
NewKey(s) ==
    \/ s.env.key = NoKey /\ nextKey' = nextKey
    \/ s.env.key = mem.env.key /\ BodyOf(s.env) = BodyOf(mem.env) /\ nextKey' = nextKey
    \/ s.env.key = nextKey /\ nextKey \in Keys /\ nextKey' = nextKey + 1

NewOp(o, s) ==
    /\ ops' \in [Slots -> Op] /\ ops'[o].pc \notin {"none", "request"}
    /\ \/ ops'[o].pc # "confirm" /\ ops'[o].key \in {NoKey, ops[o].key}
                                 /\ (ops'[o].key # NoKey => ops'[o].body = ops[o].body)
       \/ ops'[o].key = s.env.key /\ ops'[o].body = BodyOf(s.env) /\ s.env.key # NoKey
    /\ \A p \in Slots \ {o} :
          ops'[p].pc = ops[p].pc /\ ops'[p].key = ops[p].key /\ ops'[p].body = ops[p].body

NewDoubt(s) ==
    \/ doubt' = NoKey
    \/ doubt' = doubt /\ (doubt # NoKey => Retries(s.env, doubt))
    \/ doubt' = s.env.key

LEMMA PersistKeeps ==
  ASSUME IInv, NEW o \in Slots, NEW s \in State, NEW rest, Advance(rest), Persist(rest, s, o),
         \A i \in 1..Len(rest) : rest[i].op # o,
         NewKey(s), NewOp(o, s), NewDoubt(s),
         HeldAsReviewed(s.env),
         s.publishStatus \in {"confirming", "failed"} =>
            s.env.status = "ready" /\ s.env.draftName = s.env.name,
         UNCHANGED << net, server, sent >>, failures' \in 0..MaxFailures, failures' = 0 => failures = 0,
         s.env.status = "publishing" =>
            \/ mem.env.status = "publishing" /\ ops[o].pc \notin {"confirm", "request"}
            \/ ops'[o].pc = "confirm",
         ScreenIsLocked', shown' \in Shown, busy' \in BOOLEAN
  PROVE  IInv'
<1> DEFINE new == [env |-> s.env, op |-> o]
<1>1. PICK d \in {0, 1} :
         /\ Len(rest) = Len(queue) - d
         /\ \A i \in 1..Len(rest) : i + d \in 1..Len(queue) /\ rest[i] = queue[i + d]
  BY RestFacts
<1>2. Len(rest) \in Nat /\ rest \in Seq(Entry)
  BY RestFacts
<1>3. mem' = s /\ new.env = s.env /\ new.op = o
  BY DEF Persist
<1> DEFINE n == Len(rest)
<1>4. /\ queue' \in Seq(Entry) /\ Len(queue') = n + 1 /\ queue' # <<>>
      /\ \A i \in 1..n : queue'[i] = rest[i]
      /\ queue'[n + 1] = new
  <2>1. queue' = Append(rest, new) /\ new \in Entry
    BY DEF Persist, Entry, State
  <2> QED BY <1>2, <2>1, AppendProperties
<1>5. \A i \in 1..Len(queue') : \/ i \in 1..n /\ queue'[i] = rest[i]
                                \/ i = n + 1 /\ queue'[i].env = s.env /\ queue'[i].op = o
  BY <1>2, <1>3, <1>4
<1> HIDE DEF new, n
<1>6. s.env \in Envelope /\ disk' \in Envelope \cup {NoFile}
  BY RestFacts, Typed DEF State, Held
<1>7. nextKey' \in 1..(MaxKeys + 1) /\ doubt' \in Keys \cup {NoKey}
  <2>1. nextKey \in 1..(MaxKeys + 1) /\ MaxKeys \in Nat /\ doubt \in Keys \cup {NoKey}
    BY MobileStudioAssumption DEF IInv, TypeOK
  <2>2. s.env.key \in Keys \cup {NoKey}
    BY <1>6 DEF Envelope
  <2> QED BY <2>1, <2>2 DEF NewKey, NewDoubt, Keys
<1>8. TypeOK'
  BY <1>3, <1>4, <1>6, <1>7 DEF IInv, TypeOK, NewOp
<1>9. Held' \subseteq Held \cup {s.env}
  <2>1. \A i \in 1..Len(queue') : queue'[i].env \in Held \cup {s.env}
    BY <1>1, <1>3, <1>4, <1>5, QueueIsHeld DEF n
  <2>2. disk' # NoFile => disk' \in Held
    BY RestFacts
  <2>3. \A e \in Held' : e = mem'.env \/ (\E i \in 1..Len(queue') : e = queue'[i].env) \/ (e = disk' /\ e # NoFile)
    BY DEF Held
  <2> QED BY <2>1, <2>2, <2>3, <1>3
<1>10. ClaimsAgree'
  <2>1. sent' \subseteq Claims
    BY DEF Claims
  <2>2. ASSUME NEW p \in Slots, ops'[p].key # NoKey
        PROVE  Claim(ops'[p].key, ops'[p].body) \in Claims \cup {Claim(s.env.key, BodyOf(s.env))}
    BY <2>2 DEF NewOp, Claims
  <2>3. s.env.key = mem.env.key /\ BodyOf(s.env) = BodyOf(mem.env) =>
           s.env.key = NoKey \/ Claim(s.env.key, BodyOf(s.env)) \in Claims
    BY ClaimsOfHeld DEF Held
  <2> QED BY <1>9, <2>1, <2>2, <2>3, ClaimsKept DEF NewKey
<1>11. EnvelopesAreReviewed' /\ RetriesAreReady'
  BY <1>3, <1>9 DEF IInv, EnvelopesAreReviewed, RetriesAreReady
<1>12. QueueOK'
  <2>1. \A p \in Slots : ops'[p].pc \in {"confirm", "request"} => ops'[p].key # NoKey
    BY DEF IInv, QueueOK, NewOp
  <2>2. \A i \in 1..n : rest[i].op \in Slots \ {o}
    BY <1>1, Typed DEF n
  <2>3. \A i \in 1..n : /\ ops'[rest[i].op].pc \notin {"none", "request"}
                        /\ ops'[rest[i].op].pc = "confirm" => ops'[rest[i].op].key = rest[i].env.key
    <3> SUFFICES ASSUME NEW i \in 1..n
                 PROVE  /\ ops'[rest[i].op].pc \notin {"none", "request"}
                        /\ ops'[rest[i].op].pc = "confirm" => ops'[rest[i].op].key = rest[i].env.key
      OBVIOUS
    <3>1. ops'[rest[i].op].pc = ops[rest[i].op].pc /\ ops'[rest[i].op].key = ops[rest[i].op].key
      BY <2>2 DEF NewOp
    <3> QED BY <1>1, <3>1 DEF IInv, QueueOK, n
  <2>4. ops'[o].pc \notin {"none", "request"} /\ (ops'[o].pc = "confirm" => ops'[o].key = s.env.key)
    BY DEF NewOp
  <2>5. \A i, j \in 1..n : rest[i].op = rest[j].op => i = j
    <3> SUFFICES ASSUME NEW i \in 1..n, NEW j \in 1..n, rest[i].op = rest[j].op PROVE i = j
      OBVIOUS
    <3>1. i + d \in 1..Len(queue) /\ j + d \in 1..Len(queue) /\ queue[i + d].op = queue[j + d].op
      BY <1>1 DEF n
    <3>2. i + d = j + d
      BY <3>1 DEF IInv, QueueOK
    <3> QED BY <3>2, <1>2 DEF n
  <2>6. \A i \in 1..Len(queue') :
          /\ ops'[queue'[i].op].pc \notin {"none", "request"}
          /\ ops'[queue'[i].op].pc = "confirm" => ops'[queue'[i].op].key = queue'[i].env.key
    BY <1>3, <1>4, <1>5, <2>3, <2>4
  <2>7. \A i, j \in 1..Len(queue') : queue'[i].op = queue'[j].op => i = j
    BY <1>3, <1>4, <1>5, <2>2, <2>5
  <2>8. queue'[Len(queue')].env = mem'.env
    BY <1>3, <1>4
  <2> QED BY <2>1, <2>6, <2>7, <2>8 DEF QueueOK
<1>13. ASSUME s.env.key # NoKey, s.env.key # mem.env.key
       PROVE  /\ \A i \in 1..n : rest[i].env.key # s.env.key
              /\ s.env.key \notin SentKeys
  <2>1. s.env.key = nextKey
    BY <1>13 DEF NewKey
  <2> QED BY <2>1, <1>1, <1>13, NextKeyIsNew, QueueIsHeld DEF n
<1>14. KeyStays'
  <2> SUFFICES ASSUME NEW i \in 1..Len(queue'), NEW j \in 1..Len(queue'), i < j,
                      queue'[i].env.key = s.env.key, s.env.key # NoKey
               PROVE  queue'[j].env.key = s.env.key
    BY <1>3 DEF KeyStays
  <2>1. CASE j = n + 1
    BY <2>1, <1>3, <1>4
  <2>2. CASE j \in 1..n
    <3>1. i \in 1..n /\ s.env.key = mem.env.key
      BY <2>2, <1>2, <1>4, <1>13 DEF n
    <3>2. i + d \in 1..Len(queue) /\ j + d \in 1..Len(queue) /\ i + d < j + d
      BY <3>1, <2>2, <1>1 DEF n
    <3> QED BY <3>1, <3>2, <2>2, <1>1, <1>4 DEF IInv, KeyStays, n
  <2> QED BY <2>1, <2>2, <1>5
<1>15. s.env.key \in SentKeys => /\ \A i \in 1..Len(queue') : queue'[i].env.key = s.env.key
                                 /\ disk' = NoFile \/ disk'.key = s.env.key
  <2> SUFFICES ASSUME s.env.key \in SentKeys
               PROVE  /\ \A i \in 1..Len(queue') : queue'[i].env.key = s.env.key
                      /\ disk' = NoFile \/ disk'.key = s.env.key
    OBVIOUS
  <2>1. s.env.key = mem.env.key
    <3>1. NoKey \notin SentKeys
      BY Typed DEF IInv, TypeOK, SentKeys
    <3> QED BY <3>1, <1>13
  <2>2. \A i \in 1..n : rest[i].env.key = s.env.key
    BY <2>1, <1>1 DEF IInv, SavedBeforeSent, n
  <2>3. disk' = NoFile \/ disk'.key = s.env.key
    BY <2>1, RestFacts, Typed DEF IInv, SavedBeforeSent
  <2> QED BY <2>2, <2>3, <1>3, <1>4, <1>5
<1>16. SavedBeforeSent'
  <2>1. SentKeys' = SentKeys
    BY DEF SentKeys
  <2>2. mem'.env.key = s.env.key
    BY <1>3
  <2> QED BY <2>1, <2>2, <1>15 DEF SavedBeforeSent
<1>17. DoubtIsSaved'
  <2> SUFFICES ASSUME doubt' # NoKey PROVE DoubtIsSaved'
    BY DEF DoubtIsSaved
  <2>1. CASE doubt' = s.env.key
    <3>1. SentKeys' = SentKeys /\ Retries(mem'.env, doubt')
      BY <2>1, <1>3 DEF SentKeys, Retries
    <3>2. \A i, j \in 1..Len(queue') : i < j /\ queue'[i].env.key = doubt' => Retries(queue'[j].env, doubt')
      BY <2>1, <1>3, <1>14 DEF KeyStays, Retries
    <3>3. doubt' \in SentKeys => /\ \A i \in 1..Len(queue') : Retries(queue'[i].env, doubt')
                                 /\ disk' = NoFile \/ Retries(disk', doubt')
      BY <2>1, <1>15 DEF Retries
    <3> QED BY <3>1, <3>2, <3>3 DEF DoubtIsSaved, Retries
  <2>2. CASE doubt' = doubt /\ Retries(s.env, doubt)
    <3>1. \A i, j \in 1..n : i < j /\ rest[i].env.key = doubt => Retries(rest[j].env, doubt)
      <4> SUFFICES ASSUME NEW i \in 1..n, NEW j \in 1..n, i < j, rest[i].env.key = doubt
                   PROVE  Retries(rest[j].env, doubt)
        OBVIOUS
      <4>1. i + d \in 1..Len(queue) /\ j + d \in 1..Len(queue) /\ i + d < j + d
        BY <1>1, <1>2 DEF n
      <4> QED BY <4>1, <1>1, <2>2 DEF IInv, DoubtIsSaved, n
    <3>2. doubt \in SentKeys => /\ \A i \in 1..n : Retries(rest[i].env, doubt)
                                /\ disk' = NoFile \/ Retries(disk', doubt)
      <4> SUFFICES ASSUME doubt \in SentKeys
                   PROVE  (\A i \in 1..n : Retries(rest[i].env, doubt)) /\ (disk' = NoFile \/ Retries(disk', doubt))
        OBVIOUS
      <4>1. (\A i \in 1..Len(queue) : Retries(queue[i].env, doubt)) /\ (disk = NoFile \/ Retries(disk, doubt))
        BY <2>2 DEF IInv, DoubtIsSaved
      <4>2. disk' = NoFile \/ Retries(disk', doubt)
        BY <4>1, RestFacts, Typed
      <4> QED BY <4>1, <4>2, <1>1 DEF n
    <3>3. \A i, j \in 1..Len(queue') : i < j /\ queue'[i].env.key = doubt => Retries(queue'[j].env, doubt)
      <4> SUFFICES ASSUME NEW i \in 1..Len(queue'), NEW j \in 1..Len(queue'), i < j, queue'[i].env.key = doubt
                   PROVE  Retries(queue'[j].env, doubt)
        OBVIOUS
      <4>1. i \in 1..n
        BY <1>2, <1>4 DEF n
      <4> QED BY <4>1, <2>2, <3>1, <1>3, <1>4, <1>5
    <3>4. doubt \in SentKeys => \A i \in 1..Len(queue') : Retries(queue'[i].env, doubt)
      <4> SUFFICES ASSUME doubt \in SentKeys, NEW i \in 1..Len(queue') PROVE Retries(queue'[i].env, doubt)
        OBVIOUS
      <4>1. CASE i \in 1..n /\ queue'[i] = rest[i]
        BY <4>1, <3>2
      <4>2. CASE queue'[i].env = s.env
        BY <4>2, <2>2
      <4> QED BY <4>1, <4>2, <1>5
    <3>5. SentKeys' = SentKeys
      BY DEF SentKeys
    <3> QED BY <1>3, <2>2, <3>2, <3>3, <3>4, <3>5 DEF DoubtIsSaved, Retries
  <2> QED BY <2>1, <2>2 DEF NewDoubt
<1>18. FileIsCurrent'
  <2> SUFFICES ASSUME failures' = 0, s.env.status = "publishing"
               PROVE  \E p \in Slots : ops'[p].pc \in {"confirm", "request"}
    BY <1>3, <1>4 DEF FileIsCurrent
  <2> QED BY DEF IInv, FileIsCurrent, NewOp
<1> QED BY <1>8, <1>10, <1>11, <1>12, <1>14, <1>16, <1>17, <1>18 DEF IInv

-----------------------------------------------------------------------------
LEMMA StateParts ==
  \A s \in State :
    /\ s.env \in Envelope /\ s.publishStatus \in PublishStatuses
    /\ s.env.route \in Routes \cup {NoRoute} /\ s.env.name \in Names \cup {NoName}
    /\ s.env.draftName \in Names \cup {NoName} /\ s.env.key \in Keys \cup {NoKey}
    /\ s.env.status \in {"draft", "ready", "publishing", "published"}
BY DEF State, Envelope

LEMMA SnapshotIsShown == \A s \in State : Snapshot(s) \in Shown
BY StateParts DEF Snapshot, Shown, Body

(* Operations that a touch begins.                                         *)
LEMMA BeginKeeps ==
  ASSUME IInv, NEW o \in Slots, NEW s \in State, NEW op \in Op, Free(o), Persist(queue, s, o),
         ops' \in [Slots -> Op], ops'[o] = op, op.pc \notin {"none", "request"},
         \/ op.key = NoKey /\ op.pc # "confirm"
         \/ op.key = s.env.key /\ op.body = BodyOf(s.env) /\ s.env.key # NoKey,
         \A p \in Slots \ {o} :
            ops'[p].pc = ops[p].pc /\ ops'[p].key = ops[p].key /\ ops'[p].body = ops[p].body,
         NewKey(s), NewDoubt(s), HeldAsReviewed(s.env),
         s.publishStatus \in {"confirming", "failed"} =>
            s.env.status = "ready" /\ s.env.draftName = s.env.name,
         UNCHANGED << disk, net, server, sent, failures >>,
         s.env.status = "publishing" => mem.env.status = "publishing" \/ op.pc = "confirm",
         ScreenIsLocked', shown' \in Shown, busy' \in BOOLEAN
  PROVE  IInv'
<1>1. \A i \in 1..Len(queue) : queue[i].op # o
  BY DEF Free, IInv, QueueOK
<1>2. Advance(queue)
  BY DEF Advance
<1>3. NewOp(o, s)
  BY DEF NewOp
<1>4. ops[o].pc \notin {"confirm", "request"}
  BY DEF Free
<1>5. failures' \in 0..MaxFailures
  BY DEF IInv, TypeOK
<1> QED BY <1>1, <1>2, <1>3, <1>4, <1>5, PersistKeeps

(* run(): the screen stays as it is until the operation ends.              *)
LEMMA RunKeeps ==
  ASSUME IInv, NEW o \in Slots, NEW s \in State, NEW op \in Op, Run(o, s, op),
         op.pc \notin {"none", "request"},
         \/ op.key = NoKey /\ op.pc # "confirm"
         \/ op.key = s.env.key /\ op.body = BodyOf(s.env) /\ s.env.key # NoKey,
         NewKey(s), NewDoubt(s), HeldAsReviewed(s.env),
         s.publishStatus \in {"confirming", "failed"} =>
            s.env.status = "ready" /\ s.env.draftName = s.env.name,
         UNCHANGED << disk, net, server, sent, failures >>,
         s.env.status = "publishing" => mem.env.status = "publishing" \/ op.pc = "confirm",
         s.env.status = "publishing" => Confirmation \/ shown.status = "publishing",
         Confirmation /\ (s.env.status = "publishing" \/ s.publishStatus \in {"confirming", "failed"}) =>
            shown.body = BodyOf(s.env),
         "published" \in {shown.publishStatus, s.publishStatus} => s.env.key = NoKey
  PROVE  IInv'
<1> DEFINE ran == [op EXCEPT !.ui = "run"]
<1>1. Free(o) /\ Persist(queue, s, o) /\ ops' = [ops EXCEPT ![o] = ran] /\ busy' = TRUE /\ shown' = shown
  BY DEF Run, Begin
<1>2. ran \in Op /\ ran.pc = op.pc /\ ran.key = op.key /\ ran.body = op.body
  BY DEF Op
<1> HIDE DEF ran
<1>3. ops' \in [Slots -> Op] /\ ops'[o] = ran /\ \A p \in Slots \ {o} : ops'[p] = ops[p]
  BY <1>1, <1>2, Typed
<1>4. mem' = s
  BY <1>1 DEF Persist
<1>5. ScreenIsLocked'
  BY <1>1, <1>4 DEF ScreenIsLocked, Confirmation, BodyOf
<1>6. shown' \in Shown /\ busy' \in BOOLEAN
  BY <1>1, Typed
<1>7. \A p \in Slots \ {o} :
         ops'[p].pc = ops[p].pc /\ ops'[p].key = ops[p].key /\ ops'[p].body = ops[p].body
  BY <1>3
<1> QED BY <1>1, <1>2, <1>3, <1>5, <1>6, <1>7, BeginKeeps

LEMMA SavingIsOp == Saving \in Op /\ Saving.pc = "save" /\ Saving.key = NoKey
BY DEF Saving, NoOp, NoBody, Op, Body

LEMMA NewStateFacts ==
  /\ NewState \in State /\ NewState.env.key = NoKey /\ NewState.env.status = "draft"
  /\ NewState.publishStatus = "idle"
BY DEF NewState, NewEnvelope, State, Envelope, PublishStatuses

LEMMA EditKeeps ==
  ASSUME IInv, NEW o \in Slots, NEW route \in Routes \cup {NoRoute}, Edit(o, route)
  PROVE  IInv'
<1> DEFINE s == Edited([mem EXCEPT !.env.route = route])
<1>1. s \in State /\ s.env.status = "draft" /\ s.env.key = NoKey /\ s.publishStatus = "idle"
  BY Typed DEF Edit, Edited, State, Envelope, PublishStatuses
<1>2. /\ Run(o, s, Saving) /\ doubt' = NoKey
      /\ UNCHANGED << disk, net, server, nextKey, failures, sent >>
  BY DEF Edit
<1> HIDE DEF s
<1>3. NewKey(s) /\ NewDoubt(s) /\ HeldAsReviewed(s.env)
  BY <1>1, <1>2 DEF NewKey, NewDoubt, HeldAsReviewed
<1> QED BY <1>1, <1>2, <1>3, SavingIsOp, RunKeeps

LEMMA DragTrimKeeps ==
  ASSUME IInv, NEW o \in Slots, NEW route \in Routes, DragTrim(o, route)
  PROVE  IInv'
<1> DEFINE s  == Edited([mem EXCEPT !.env.route = route])
           op == [Saving EXCEPT !.ui = "trim"]
<1>1. s \in State /\ s.env.status = "draft" /\ s.env.key = NoKey /\ s.publishStatus = "idle"
  BY Typed DEF DragTrim, Edited, State, Envelope, PublishStatuses
<1>2. /\ Free(o) /\ Persist(queue, s, o) /\ doubt' = NoKey
      /\ UNCHANGED << disk, shown, busy, net, server, nextKey, failures, sent >>
  BY DEF DragTrim
<1>3. op \in Op /\ op.pc = "save" /\ op.key = NoKey
  BY SavingIsOp DEF Op
<1>4. \A p \in Slots : ops'[p] = IF p = o THEN op
                                 ELSE IF ops[p].ui = "trim" THEN [ops[p] EXCEPT !.ui = "nothing"]
                                 ELSE ops[p]
  BY DEF DragTrim
<1>5. \A p \in Slots : ops[p] \in Op
  BY Typed
<1>6. \A p \in Slots \ {o} :
         /\ ops'[p] \in Op
         /\ ops'[p].pc = ops[p].pc /\ ops'[p].key = ops[p].key /\ ops'[p].body = ops[p].body
  BY <1>4, <1>5 DEF Op
<1>7. ops' \in [Slots -> Op] /\ ops'[o] = op
  <2>1. ops' = [p \in Slots |-> ops'[p]]
    BY DEF DragTrim
  <2>2. \A p \in Slots : ops'[p] \in Op
    BY <1>3, <1>4, <1>6
  <2> QED BY <2>1, <2>2, <1>4
<1>8. ScreenIsLocked'
  BY <1>1, <1>2 DEF IInv, Persist, ScreenIsLocked, Confirmation, BodyOf
<1>9. NewKey(s) /\ NewDoubt(s) /\ HeldAsReviewed(s.env)
  BY <1>1, <1>2 DEF NewKey, NewDoubt, HeldAsReviewed
<1>10. shown' \in Shown /\ busy' \in BOOLEAN
  BY <1>2 DEF IInv, TypeOK
<1> HIDE DEF s, op
<1> QED BY <1>1, <1>2, <1>3, <1>6, <1>7, <1>8, <1>9, <1>10, BeginKeeps

LEMMA SetNameKeeps ==
  ASSUME IInv, NEW o \in Slots, NEW name \in Names, SetName(o, name)
  PROVE  IInv'
<1> DEFINE s  == Edited([mem EXCEPT !.env.name = name])
           op == [Saving EXCEPT !.ui = "name"]
<1>1. s \in State /\ s.env.status = mem.env.status /\ s.env.key = NoKey /\ s.publishStatus = "idle"
  BY Typed DEF Edited, State, Envelope, PublishStatuses
<1>2. /\ Free(o) /\ Persist(queue, s, o) /\ ops' = [ops EXCEPT ![o] = op] /\ doubt' = NoKey
      /\ shown' = [shown EXCEPT !.body.name = name]
      /\ UNCHANGED << disk, busy, net, server, nextKey, failures, sent >>
  BY DEF SetName, Begin
<1>3. op \in Op /\ op.pc = "save" /\ op.key = NoKey
  BY SavingIsOp DEF Op
<1>4. ~Confirmation /\ shown.status # "publishing"
  BY DEF SetName, Reviewable, Touchable
<1>5. mem.env.status # "publishing"
  BY <1>4 DEF IInv, ScreenIsLocked
<1>6. /\ shown' \in Shown /\ shown'.status = shown.status
      /\ shown'.publishStatus = shown.publishStatus
  BY <1>2, Typed DEF Shown, Body
<1>7. ScreenIsLocked'
  BY <1>1, <1>2, <1>4, <1>5, <1>6 DEF Persist, ScreenIsLocked, Confirmation
<1>8. NewKey(s) /\ NewDoubt(s) /\ HeldAsReviewed(s.env)
  BY <1>1, <1>2, <1>5 DEF NewKey, NewDoubt, HeldAsReviewed
<1> HIDE DEF s, op
<1>9. ops' \in [Slots -> Op] /\ ops'[o] = op /\ \A p \in Slots \ {o} : ops'[p] = ops[p]
  BY <1>2, <1>3, Typed
<1>10. busy' \in BOOLEAN
  BY <1>2 DEF IInv, TypeOK
<1> QED BY <1>1, <1>2, <1>3, <1>5, <1>6, <1>7, <1>8, <1>9, <1>10, BeginKeeps

LEMMA NewDraftKeeps ==
  ASSUME IInv, NEW o \in Slots, NewDraft(o) \/ OpenLink(o)
  PROVE  IInv'
<1> DEFINE link == [NoOp EXCEPT !.pc = "linkOrigin"]
<1>1. PICK op \in {Saving, link} : Run(o, NewState, op)
  BY DEF NewDraft, OpenLink
<1>2. doubt' = NoKey /\ UNCHANGED << disk, net, server, nextKey, failures, sent >>
  BY DEF NewDraft, OpenLink
<1>3. link \in Op /\ link.pc = "linkOrigin" /\ link.key = NoKey
  BY DEF NoOp, NoBody, Op, Body
<1> HIDE DEF link
<1>4. NewKey(NewState) /\ NewDoubt(NewState) /\ HeldAsReviewed(NewState.env)
  BY <1>2, NewStateFacts DEF NewKey, NewDoubt, HeldAsReviewed
<1> QED BY <1>1, <1>2, <1>3, <1>4, NewStateFacts, SavingIsOp, RunKeeps

LEMMA RequestPublishKeeps ==
  ASSUME IInv, NEW o \in Slots, RequestPublish(o)
  PROVE  IInv'
<1> DEFINE s == Reviewed(mem.env.name, KeyToUse)
<1>1. /\ Run(o, s, Saving) /\ Reviewable /\ Preparable /\ DrawKey
      /\ UNCHANGED << disk, net, server, failures, sent, doubt >>
  BY DEF RequestPublish
<1>2. KeyToUse \in Keys
  BY <1>1, Typed, MobileStudioAssumption DEF KeyToUse, DrawKey, Keys, IInv, TypeOK
<1>3. /\ s \in State /\ s.env.status = "ready" /\ s.env.key = KeyToUse /\ s.publishStatus = "confirming"
      /\ s.env.draftName = mem.env.name /\ s.env.name = mem.env.name /\ s.env.route = mem.env.route
  BY <1>2, Typed DEF Reviewed, State, Envelope, PublishStatuses
<1> HIDE DEF s
<1>4. HeldAsReviewed(mem.env)
  BY DEF IInv, EnvelopesAreReviewed, Held
<1>5. NewKey(s)
  BY <1>1, <1>2, <1>3, <1>4 DEF NewKey, KeyToUse, DrawKey, HeldAsReviewed, BodyOf
<1>6. NewDoubt(s)
  BY <1>1, <1>3 DEF NewDoubt, Retries, KeyToUse, Preparable, IInv, DoubtIsSaved
<1>7. HeldAsReviewed(s.env)
  BY <1>3 DEF HeldAsReviewed
<1>8. ~Confirmation /\ shown.publishStatus # "published"
  BY <1>1 DEF Reviewable, Touchable
<1> QED BY <1>1, <1>3, <1>5, <1>6, <1>7, <1>8, SavingIsOp, RunKeeps

LEMMA CancelPublishKeeps ==
  ASSUME IInv, NEW o \in Slots, CancelPublish(o)
  PROVE  IInv'
<1> DEFINE s == [mem EXCEPT !.env.status = IF @ = "ready" THEN "draft" ELSE @,
                            !.env.key = NoKey, !.publishStatus = "idle"]
<1>1. /\ Run(o, s, Saving) /\ Confirmation /\ doubt' = NoKey
      /\ UNCHANGED << disk, net, server, nextKey, failures, sent >>
  BY DEF CancelPublish
<1>2. /\ s \in State /\ s.env.key = NoKey /\ s.publishStatus = "idle"
      /\ s.env.status = (IF mem.env.status = "ready" THEN "draft" ELSE mem.env.status)
      /\ s.env.draftName = mem.env.draftName /\ s.env.name = mem.env.name /\ s.env.route = mem.env.route
  BY Typed DEF State, Envelope, PublishStatuses
<1> HIDE DEF s
<1>3. HeldAsReviewed(s.env)
  BY <1>2 DEF HeldAsReviewed, IInv, EnvelopesAreReviewed, Held
<1>4. NewKey(s) /\ NewDoubt(s)
  BY <1>1, <1>2 DEF NewKey, NewDoubt
<1>5. s.env.status = "publishing" => shown.body = BodyOf(s.env)
  BY <1>1, <1>2 DEF IInv, ScreenIsLocked, BodyOf
<1> QED BY <1>1, <1>2, <1>3, <1>4, <1>5, SavingIsOp, RunKeeps

LEMMA ConfirmPublishKeeps ==
  ASSUME IInv, NEW o \in Slots, ConfirmPublish(o)
  PROVE  IInv'
<1> DEFINE s  == [mem EXCEPT !.env.status = "publishing", !.env.key = KeyToUse,
                             !.publishStatus = "publishing"]
           op == [NoOp EXCEPT !.pc = "confirm", !.key = KeyToUse,
                              !.body = [name |-> mem.env.draftName, route |-> mem.env.route]]
<1>1. /\ Run(o, s, op) /\ Confirmation /\ Confirmable /\ DrawKey /\ doubt' = KeyToUse
      /\ UNCHANGED << disk, net, server, failures, sent >>
  BY DEF ConfirmPublish
<1>2. KeyToUse \in Keys
  BY <1>1, Typed, MobileStudioAssumption DEF KeyToUse, DrawKey, Keys, IInv, TypeOK
<1>3. /\ s \in State /\ s.env.status = "publishing" /\ s.env.key = KeyToUse /\ s.publishStatus = "publishing"
      /\ s.env.draftName = mem.env.draftName /\ s.env.name = mem.env.name /\ s.env.route = mem.env.route
  BY <1>2, Typed DEF State, Envelope, PublishStatuses
<1>4. op \in Op /\ op.pc = "confirm" /\ op.key = KeyToUse /\ op.body = BodyOf(s.env)
  BY <1>2, <1>3, Typed, StateParts DEF NoOp, NoBody, Op, Body, BodyOf
<1> HIDE DEF s, op
<1>5. mem.env.draftName = mem.env.name /\ shown.body = BodyOf(mem.env)
  BY <1>1 DEF Confirmable, IInv, RetriesAreReady, ScreenIsLocked
<1>6. NewKey(s) /\ NewDoubt(s) /\ HeldAsReviewed(s.env)
  BY <1>1, <1>2, <1>3, <1>5 DEF NewKey, NewDoubt, HeldAsReviewed, KeyToUse, DrawKey, BodyOf
<1>7. shown.body = BodyOf(s.env) /\ shown.publishStatus # "published" /\ s.env.key # NoKey
  BY <1>1, <1>2, <1>3, <1>5, Typed DEF BodyOf, Confirmation
<1> QED BY <1>1, <1>3, <1>4, <1>6, <1>7, RunKeeps

LEMMA ResumeEditingKeeps ==
  ASSUME IInv, NEW o \in Slots, ResumeEditing(o)
  PROVE  IInv'
<1> DEFINE s == [mem EXCEPT !.env.status = "draft", !.publishStatus = "idle"]
<1>1. /\ Run(o, s, Saving) /\ shown.publishStatus = "published" /\ doubt' = NoKey
      /\ UNCHANGED << disk, net, server, nextKey, failures, sent >>
  BY DEF ResumeEditing
<1>2. s \in State /\ s.env.key = mem.env.key /\ s.env.status = "draft" /\ s.publishStatus = "idle"
  BY Typed DEF State, Envelope, PublishStatuses
<1> HIDE DEF s
<1>3. s.env.key = NoKey
  BY <1>1, <1>2 DEF IInv, ScreenIsLocked
<1>4. NewKey(s) /\ NewDoubt(s) /\ HeldAsReviewed(s.env)
  BY <1>1, <1>2, <1>3 DEF NewKey, NewDoubt, HeldAsReviewed
<1> QED BY <1>1, <1>2, <1>3, <1>4, SavingIsOp, RunKeeps

-----------------------------------------------------------------------------
(* The operation whose save is at the head of the queue.                   *)
LEMMA HeadFacts ==
  ASSUME IInv, queue # <<>>
  PROVE  /\ Len(queue) > 0 /\ Head(queue) = queue[1] /\ Head(queue).op \in Slots
         /\ ops[Head(queue).op].pc \notin {"none", "request"}
         /\ ops[Head(queue).op].pc = "confirm" => ops[Head(queue).op].key = queue[1].env.key
         /\ \A i \in 1..Len(Tail(queue)) :
               Tail(queue)[i] = queue[i + 1] /\ i + 1 \in 1..Len(queue) /\ Tail(queue)[i].op # Head(queue).op
<1>1. Len(queue) > 0 /\ Head(queue) = queue[1] /\ 1 \in 1..Len(queue)
  BY HeadTailProperties, Typed
<1>2. Len(Tail(queue)) = Len(queue) - 1 /\ \A i \in 1..Len(Tail(queue)) : Tail(queue)[i] = queue[i + 1]
  BY HeadTailProperties, Typed
<1>3. \A i \in 1..Len(Tail(queue)) : i + 1 \in 1..Len(queue) /\ i + 1 # 1
  BY <1>1, <1>2, Typed
<1>4. \A i \in 1..Len(queue) : queue[i].op = queue[1].op => i = 1
  BY <1>1 DEF IInv, QueueOK
<1>5. \A i \in 1..Len(Tail(queue)) : Tail(queue)[i].op # Head(queue).op
  BY <1>1, <1>2, <1>3, <1>4
<1>6. /\ ops[queue[1].op].pc \notin {"none", "request"}
      /\ ops[queue[1].op].pc = "confirm" => ops[queue[1].op].key = queue[1].env.key
  BY <1>1 DEF IInv, QueueOK
<1> QED BY <1>1, <1>2, <1>3, <1>5, <1>6, Typed

(* An operation ends, and the screen shows the state or what it showed.    *)
LEMMA EndKeeps ==
  ASSUME IInv, NEW o \in Slots, NEW ok \in BOOLEAN, End(o, ok), Advance(queue'),
         \A i \in 1..Len(queue') : queue'[i].op # o,
         UNCHANGED << mem, nextKey, net, server, sent >>, doubt' \in {doubt, NoKey},
         failures' \in 0..MaxFailures,
         failures' = 0 => \/ failures = 0 /\ queue = queue' /\ disk = disk'
                          \/ failures = 0 /\ queue # <<>> /\ disk' = Head(queue).env,
         failures' = 0 /\ mem.env.status = "publishing" => ops[o].pc \notin {"confirm", "request"}
  PROVE  IInv'
<1>1. NoOp \in Op
  BY DEF NoOp, NoBody, Op, Body
<1>2. ops' = [ops EXCEPT ![o] = NoOp]
  BY DEF End
<1>3. ops' \in [Slots -> Op] /\ ops'[o] = NoOp /\ \A p \in Slots \ {o} : ops'[p] = ops[p]
  BY <1>1, <1>2, Typed
<1>4. shown' \in {Snapshot(mem), shown} /\ shown' \in Shown
  BY Typed, SnapshotIsShown DEF End
<1>5. busy' \in BOOLEAN
  BY DEF End, IInv, TypeOK
<1>6. ScreenIsLocked'
  <2>1. CASE shown' = shown
    BY <2>1 DEF IInv, ScreenIsLocked, Confirmation
  <2>2. CASE shown' = Snapshot(mem)
    <3>1. /\ shown'.status = mem.env.status /\ shown'.publishStatus = mem.publishStatus
          /\ shown'.body = [name |-> mem.env.name, route |-> mem.env.route]
      BY <2>2 DEF Snapshot
    <3>2. mem.publishStatus = "confirming" => shown'.body = BodyOf(mem.env)
      BY <3>1 DEF IInv, RetriesAreReady, BodyOf
    <3> QED BY <3>1, <3>2 DEF IInv, ScreenIsLocked, Confirmation
  <2> QED BY <1>4, <2>1, <2>2
<1>7. sent' \subseteq Claims /\ sent' \subseteq [key : Keys, body : Body] /\ net' \subseteq sent' /\ server' \subseteq sent'
  BY DEF Claims, IInv, TypeOK
<1>8. SentKeys' = SentKeys
  BY DEF SentKeys
<1>9. \A p \in Slots : \/ ops'[p].pc = ops[p].pc /\ ops'[p].key = ops[p].key /\ ops'[p].body = ops[p].body
                      \/ /\ \A i \in 1..Len(queue') : queue'[i].op # p
                         /\ ops'[p] = NoOp
  BY <1>3
<1>10. failures' = 0 /\ mem.env.status = "publishing" =>
          \A p \in Slots : ops[p].pc \in {"confirm", "request"} => ops'[p].pc \in {"confirm", "request"}
  BY <1>3
<1> QED BY <1>3, <1>4, <1>5, <1>6, <1>7, <1>8, <1>9, <1>10, AdvanceKeeps

(* The publication an operation was about has failed.                      *)
LEMMA CatchKeeps ==
  ASSUME IInv, NEW o \in Slots, NEW rest, Advance(rest), \A i \in 1..Len(rest) : rest[i].op # o,
         CatchPublication(o, rest), mem.env.status = "publishing",
         UNCHANGED << net, server, nextKey, sent >>, doubt' \in {doubt, NoKey},
         failures' \in 0..MaxFailures, failures' = 0 => failures = 0
  PROVE  IInv'
<1> DEFINE s  == [mem EXCEPT !.env.status = "ready", !.publishStatus = "failed"]
           op == [Saving EXCEPT !.ui = "run"]
<1>1. Persist(rest, s, o) /\ ops' = [ops EXCEPT ![o] = op] /\ UNCHANGED << shown, busy >>
  BY DEF CatchPublication
<1>2. /\ s \in State /\ s.env.key = mem.env.key /\ s.env.status = "ready" /\ s.publishStatus = "failed"
      /\ s.env.draftName = mem.env.draftName /\ s.env.name = mem.env.name /\ s.env.route = mem.env.route
  BY Typed DEF State, Envelope, PublishStatuses
<1>3. op \in Op /\ op.pc = "save" /\ op.key = NoKey
  BY SavingIsOp DEF Op
<1> HIDE DEF s, op
<1>4. ops' \in [Slots -> Op] /\ ops'[o] = op /\ \A p \in Slots \ {o} : ops'[p] = ops[p]
  BY <1>1, <1>3, Typed
<1>5. NewOp(o, s)
  BY <1>3, <1>4 DEF NewOp
<1>6. mem.env.draftName = mem.env.name
  BY DEF IInv, EnvelopesAreReviewed, Held, HeldAsReviewed
<1>7. HeldAsReviewed(s.env)
  BY <1>2, <1>6 DEF HeldAsReviewed
<1>8. NewKey(s)
  BY <1>2 DEF NewKey, BodyOf
<1>9. NewDoubt(s)
  BY <1>2 DEF NewDoubt, Retries, IInv, DoubtIsSaved
<1>10. mem' = s
  BY <1>1 DEF Persist
<1>11. ScreenIsLocked'
  BY <1>1, <1>2, <1>10 DEF IInv, ScreenIsLocked, Confirmation, BodyOf
<1>12. shown' \in Shown /\ busy' \in BOOLEAN
  BY <1>1 DEF IInv, TypeOK
<1> QED BY <1>1, <1>2, <1>5, <1>6, <1>7, <1>8, <1>9, <1>11, <1>12, PersistKeeps

LEMMA SaveThenEndKeeps ==
  ASSUME IInv, SaveThenEnd
  PROVE  IInv'
<1> DEFINE o == Head(queue).op
<1>1. /\ queue # <<>> /\ disk' = Head(queue).env /\ queue' = Tail(queue) /\ End(o, TRUE)
      /\ ops[o].pc \in {"save", "saveOutcome"} /\ doubt' \in {doubt, NoKey}
      /\ UNCHANGED << mem, net, server, nextKey, failures, sent >>
  BY DEF SaveThenEnd, Saved
<1>2. o \in Slots /\ \A i \in 1..Len(queue') : queue'[i].op # o
  BY <1>1, HeadFacts
<1> HIDE DEF o
<1>3. Advance(queue')
  BY <1>1 DEF Advance
<1>4. failures' \in 0..MaxFailures
  BY <1>1 DEF IInv, TypeOK
<1> QED BY <1>1, <1>2, <1>3, <1>4, EndKeeps

LEMMA SaveThenSendKeeps ==
  ASSUME IInv, SaveThenSend
  PROVE  IInv'
<1> DEFINE o       == Head(queue).op
           request == [key |-> ops[o].key, body |-> ops[o].body]
<1>1. /\ queue # <<>> /\ disk' = Head(queue).env /\ queue' = Tail(queue) /\ ops[o].pc = "confirm"
      /\ ops' = [ops EXCEPT ![o].pc = "request"] /\ net' = net \cup {request} /\ sent' = sent \cup {request}
      /\ UNCHANGED << mem, shown, busy, server, nextKey, failures, doubt >>
  BY DEF SaveThenSend, Saved
<1>2. /\ o \in Slots /\ ops[o].key = queue[1].env.key /\ disk' = queue[1].env /\ 1 \in 1..Len(queue)
      /\ \A i \in 1..Len(queue') : /\ queue'[i] = queue[i + 1] /\ i + 1 \in 1..Len(queue)
                                   /\ 1 < i + 1 /\ queue'[i].op # o
  BY <1>1, HeadFacts, Typed
<1>3. ops[o] \in Op /\ ops[o].key \in Keys /\ ops[o].key # NoKey
  BY <1>1, <1>2, Typed DEF IInv, QueueOK, Op
<1>4. request = Claim(ops[o].key, ops[o].body) /\ request.key = ops[o].key
  BY DEF Claim
<1>5. request \in Claims /\ request \in [key : Keys, body : Body]
  BY <1>2, <1>3, <1>4 DEF Claims, Op
<1>6. [ops[o] EXCEPT !.pc = "request"] \in Op
  BY <1>3 DEF Op
<1>7. /\ ops' \in [Slots -> Op] /\ ops'[o] = [ops[o] EXCEPT !.pc = "request"]
      /\ \A p \in Slots \ {o} : ops'[p] = ops[p]
  BY <1>1, <1>2, <1>6, Typed
<1> HIDE DEF o, request
<1>8. sent' \subseteq Claims /\ sent' \subseteq [key : Keys, body : Body] /\ net' \subseteq sent' /\ server' \subseteq sent'
  BY <1>1, <1>5 DEF IInv, TypeOK, Claims
<1>9. \A k : k \in SentKeys' => k \in SentKeys \/ k = queue[1].env.key
  BY <1>1, <1>2, <1>4 DEF SentKeys
<1>10. mem.env.key = queue[1].env.key /\ mem.env.key # NoKey =>
          (\A i \in 1..Len(queue') : queue'[i].env.key = mem.env.key) /\ disk'.key = mem.env.key
  BY <1>2 DEF IInv, KeyStays
<1>11. doubt # NoKey /\ doubt = queue[1].env.key =>
          (\A i \in 1..Len(queue') : Retries(queue'[i].env, doubt)) /\ Retries(disk', doubt)
  BY <1>2 DEF IInv, DoubtIsSaved, Retries
<1>12. queue[1].env.key # NoKey
  BY <1>2, <1>3
<1>13. Advance(queue')
  BY <1>1 DEF Advance
<1>14. ScreenIsLocked'
  BY <1>1 DEF IInv, ScreenIsLocked, Confirmation
<1>15. failures' \in 0..MaxFailures /\ shown' \in Shown /\ busy' \in BOOLEAN
  BY <1>1 DEF IInv, TypeOK
<1>16. ops'[o].pc = "request"
  BY <1>3, <1>7 DEF Op
<1>17. failures' = 0 /\ mem.env.status = "publishing" =>
          \A p \in Slots : ops[p].pc \in {"confirm", "request"} => ops'[p].pc \in {"confirm", "request"}
  BY <1>7, <1>16
<1>18. \A p \in Slots :
          \/ ops'[p].pc = ops[p].pc /\ ops'[p].key = ops[p].key /\ ops'[p].body = ops[p].body
          \/ /\ \A i \in 1..Len(queue') : queue'[i].op # p
             /\ ops[p].pc = "confirm" /\ ops'[p] = [ops[p] EXCEPT !.pc = "request"]
  BY <1>1, <1>2, <1>7
<1>19. mem.env.key \in SentKeys' => mem.env.key \in SentKeys \/
          ((\A i \in 1..Len(queue') : queue'[i].env.key = mem.env.key) /\ disk'.key = mem.env.key)
  BY <1>9, <1>10, <1>12
<1>20. doubt' # NoKey /\ doubt' \in SentKeys' => doubt' \in SentKeys \/
          ((\A i \in 1..Len(queue') : Retries(queue'[i].env, doubt)) /\ Retries(disk', doubt))
  BY <1>1, <1>9, <1>11
<1>21. UNCHANGED << mem, nextKey >> /\ doubt' = doubt
  BY <1>1
<1>22. failures' = 0 => failures = 0 /\ queue # <<>> /\ disk' = Head(queue).env
  BY <1>1
<1> QED BY <1>7, <1>8, <1>13, <1>14, <1>15, <1>17, <1>18, <1>19, <1>20, <1>21, <1>22, AdvanceKeeps

LEMMA SaveThenTapKeeps ==
  ASSUME IInv, NEW route \in Routes \cup {NoRoute}, SaveThenTap(route)
  PROVE  IInv'
<1> DEFINE o  == Head(queue).op
           s  == Edited([mem EXCEPT !.env.route = route])
           pc == IF ops[o].pc = "linkOrigin" /\ (route # NoRoute \/ mem.env = NewEnvelope)
                 THEN "linkDestination" ELSE "save"
<1>1. /\ queue # <<>> /\ disk' = Head(queue).env /\ ops[o].pc \in {"linkOrigin", "linkDestination"}
      /\ UNCHANGED << net, server, nextKey, failures, sent >>
  BY DEF SaveThenTap, Saved
<1>2. o \in Slots /\ \A i \in 1..Len(Tail(queue)) : Tail(queue)[i].op # o
  BY <1>1, HeadFacts
<1>3. Advance(Tail(queue)) /\ failures' \in 0..MaxFailures
  BY <1>1 DEF Advance, IInv, TypeOK
<1>4. CASE mem.env.status = "draft"
  <2>1. Persist(Tail(queue), s, o) /\ ops' = [ops EXCEPT ![o].pc = pc] /\ doubt' = NoKey
        /\ UNCHANGED << shown, busy >>
    BY <1>4 DEF SaveThenTap
  <2>2. s \in State /\ s.env.status = "draft" /\ s.env.key = NoKey /\ s.publishStatus = "idle"
    BY <1>4, Typed DEF Edited, State, Envelope, PublishStatuses
  <2>3. /\ pc \in {"linkDestination", "save"} /\ [ops[o] EXCEPT !.pc = pc] \in Op
        /\ [ops[o] EXCEPT !.pc = pc].pc = pc
        /\ [ops[o] EXCEPT !.pc = pc].key = ops[o].key /\ [ops[o] EXCEPT !.pc = pc].body = ops[o].body
    BY <1>2, Typed DEF Op
  <2>4. /\ ops' \in [Slots -> Op] /\ ops'[o] = [ops[o] EXCEPT !.pc = pc]
        /\ \A p \in Slots \ {o} : ops'[p] = ops[p]
    BY <1>2, <2>1, <2>3, Typed
  <2> HIDE DEF s, o, pc
  <2>5. NewOp(o, s)
    BY <2>3, <2>4 DEF NewOp
  <2>6. NewKey(s) /\ NewDoubt(s) /\ HeldAsReviewed(s.env)
    BY <1>1, <2>1, <2>2 DEF NewKey, NewDoubt, HeldAsReviewed
  <2>7. mem' = s
    BY <2>1 DEF Persist
  <2>8. ScreenIsLocked'
    BY <2>1, <2>2, <2>7 DEF ScreenIsLocked, Confirmation
  <2>9. shown' \in Shown /\ busy' \in BOOLEAN
    BY <2>1 DEF IInv, TypeOK
  <2>10. UNCHANGED << net, server, sent >> /\ (failures' = 0 => failures = 0)
    BY <1>1
  <2> QED BY <1>2, <1>3, <2>1, <2>2, <2>5, <2>6, <2>8, <2>9, <2>10, PersistKeeps
<1>5. CASE mem.env.status # "draft"
  <2>1. queue' = Tail(queue) /\ End(o, FALSE) /\ UNCHANGED << mem, doubt >>
    BY <1>5 DEF SaveThenTap
  <2>2. \A i \in 1..Len(queue') : queue'[i].op # o
    BY <1>2, <2>1
  <2>3. Advance(queue')
    BY <1>3, <2>1
  <2> HIDE DEF o
  <2> QED BY <1>1, <1>2, <1>3, <2>1, <2>2, <2>3, EndKeeps
<1> QED BY <1>4, <1>5

LEMMA SaveFailsKeeps ==
  ASSUME IInv, SaveFails
  PROVE  IInv'
<1> DEFINE o == Head(queue).op
<1>1. /\ queue # <<>> /\ failures < MaxFailures /\ failures' = failures + 1 /\ disk' \in {disk, NoFile}
      /\ doubt' \in {doubt, NoKey} /\ UNCHANGED << net, server, nextKey, sent >>
      /\ \/ CatchPublication(o, Tail(queue))
         \/ queue' = Tail(queue) /\ End(o, FALSE) /\ UNCHANGED mem
  BY DEF SaveFails
<1>2. o \in Slots /\ \A i \in 1..Len(Tail(queue)) : Tail(queue)[i].op # o
  BY <1>1, HeadFacts
<1>3. Advance(Tail(queue))
  BY <1>1 DEF Advance
<1>4. failures' \in 0..MaxFailures /\ failures' # 0
  BY <1>1, MobileStudioAssumption DEF IInv, TypeOK
<1> HIDE DEF o
<1>5. CASE mem.env.status = "publishing" /\ CatchPublication(o, Tail(queue))
  BY <1>1, <1>2, <1>3, <1>4, <1>5, CatchKeeps
<1>6. CASE queue' = Tail(queue) /\ End(o, FALSE) /\ UNCHANGED mem
  <2>1. Advance(queue') /\ \A i \in 1..Len(queue') : queue'[i].op # o
    BY <1>2, <1>3, <1>6
  <2> QED BY <1>1, <1>2, <1>4, <1>6, <2>1, EndKeeps
<1> QED BY <1>1, <1>5, <1>6 DEF CatchPublication

(* The answer to a request: no save is waited for by its operation.        *)
LEMMA AnswerKeeps ==
  ASSUME IInv, NEW o \in Slots, Answer(o)
  PROVE  IInv'
<1>1. ops[o].pc = "request" /\ UNCHANGED << disk, net, server, nextKey, failures, sent, doubt >>
  BY DEF Answer, AnswerOk, AnswerFails
<1>2. \A i \in 1..Len(queue) : queue[i].op # o
  BY <1>1 DEF IInv, QueueOK
<1>3. Advance(queue) /\ failures' \in 0..MaxFailures
  BY <1>1 DEF Advance, IInv, TypeOK
<1>4. CASE CatchPublication(o, queue) /\ mem.env.status = "publishing"
  BY <1>1, <1>2, <1>3, <1>4, CatchKeeps
<1>5. CASE CatchPublication(o, queue) /\ mem.env.status # "publishing"
  <2>1. queue' = queue /\ End(o, FALSE) /\ UNCHANGED mem
    BY <1>5 DEF CatchPublication
  <2>2. Advance(queue') /\ \A i \in 1..Len(queue') : queue'[i].op # o
    BY <1>2, <1>3, <2>1
  <2>3. failures' = 0 => failures = 0 /\ queue = queue' /\ disk = disk'
    BY <1>1, <2>1
  <2> QED BY <1>1, <1>3, <1>5, <2>1, <2>2, <2>3, EndKeeps
<1>6. CASE mem.env.status = "publishing" /\ AnswerOk(o)
  <2> DEFINE s == [mem EXCEPT !.env.status = "published", !.env.key = NoKey, !.publishStatus = "published"]
  <2>1. Persist(queue, s, o) /\ ops' = [ops EXCEPT ![o].pc = "saveOutcome"] /\ UNCHANGED << shown, busy >>
    BY <1>6 DEF AnswerOk
  <2>2. s \in State /\ s.env.status = "published" /\ s.env.key = NoKey /\ s.publishStatus = "published"
    BY Typed DEF State, Envelope, PublishStatuses
  <2> HIDE DEF s
  <2>3. [ops[o] EXCEPT !.pc = "saveOutcome"] \in Op
    BY Typed DEF Op
  <2>4. /\ ops' \in [Slots -> Op] /\ ops'[o] = [ops[o] EXCEPT !.pc = "saveOutcome"]
        /\ \A p \in Slots \ {o} : ops'[p] = ops[p]
    BY <2>1, <2>3, Typed
  <2>5. ops'[o].pc = "saveOutcome" /\ ops'[o].key = ops[o].key /\ ops'[o].body = ops[o].body
    BY <2>4, Typed DEF Op
  <2>6. NewOp(o, s)
    BY <2>4, <2>5 DEF NewOp
  <2>7. NewKey(s) /\ NewDoubt(s) /\ HeldAsReviewed(s.env)
    BY <1>1, <2>2 DEF NewKey, NewDoubt, HeldAsReviewed, Retries
  <2>8. mem' = s
    BY <2>1 DEF Persist
  <2>9. ScreenIsLocked'
    BY <2>1, <2>2, <2>8 DEF ScreenIsLocked, Confirmation
  <2>10. shown' \in Shown /\ busy' \in BOOLEAN
    BY <2>1 DEF IInv, TypeOK
  <2> QED BY <1>1, <1>2, <1>3, <2>1, <2>2, <2>6, <2>7, <2>9, <2>10, PersistKeeps
<1> QED BY <1>4, <1>5, <1>6 DEF Answer, AnswerOk, AnswerFails

LEMMA ReceiveKeeps ==
  ASSUME IInv, NEW request \in net, Receive(request)
  PROVE  IInv'
<1>1. /\ net' \subseteq net /\ server' \subseteq server \cup {request}
      /\ UNCHANGED << mem, queue, disk, ops, shown, busy, nextKey, failures, sent, doubt >>
  BY DEF Receive
<1>2. /\ sent' \subseteq Claims /\ sent' \subseteq [key : Keys, body : Body]
      /\ net' \subseteq sent' /\ server' \subseteq sent'
  BY <1>1 DEF Claims, IInv, TypeOK
<1>3. Advance(queue') /\ SentKeys' = SentKeys
  BY <1>1 DEF Advance, SentKeys
<1>4. ScreenIsLocked' /\ ops' \in [Slots -> Op] /\ shown' \in Shown /\ busy' \in BOOLEAN /\ failures' \in 0..MaxFailures
  BY <1>1 DEF IInv, TypeOK, ScreenIsLocked, Confirmation
<1> QED BY <1>1, <1>2, <1>3, <1>4, AdvanceKeeps

LEMMA RefuseKeeps ==
  ASSUME IInv, Refuse
  PROVE  IInv'
<1>1. /\ shown' = Snapshot(mem) /\ busy' = FALSE
      /\ UNCHANGED << mem, queue, disk, ops, net, server, nextKey, failures, sent, doubt >>
  BY DEF Refuse
<1>2. /\ sent' \subseteq Claims /\ sent' \subseteq [key : Keys, body : Body]
      /\ net' \subseteq sent' /\ server' \subseteq sent'
  BY <1>1 DEF Claims, IInv, TypeOK
<1>3. Advance(queue') /\ SentKeys' = SentKeys
  BY <1>1 DEF Advance, SentKeys
<1>4. ops' \in [Slots -> Op] /\ shown' \in Shown /\ busy' \in BOOLEAN /\ failures' \in 0..MaxFailures
  BY <1>1, Typed, SnapshotIsShown DEF IInv, TypeOK
<1>5. ScreenIsLocked'
  <2>1. /\ shown'.status = mem.env.status /\ shown'.publishStatus = mem.publishStatus
        /\ shown'.body = [name |-> mem.env.name, route |-> mem.env.route]
    BY <1>1 DEF Snapshot
  <2>2. mem.publishStatus = "confirming" => shown'.body = BodyOf(mem.env)
    BY <2>1 DEF IInv, RetriesAreReady, BodyOf
  <2> QED BY <1>1, <2>1, <2>2 DEF IInv, ScreenIsLocked, Confirmation
<1> QED BY <1>1, <1>2, <1>3, <1>4, <1>5, AdvanceKeeps

LEMMA RestartKeeps ==
  ASSUME IInv, Restart
  PROVE  IInv'
<1> DEFINE boot == Boot(disk')
<1>1. /\ disk' \in {disk} \cup (IF queue = <<>> THEN {} ELSE {Head(queue).env, NoFile})
      /\ mem' = boot /\ shown' = Snapshot(boot) /\ queue' = <<>> /\ busy' = FALSE
      /\ ops' = [o \in Slots |-> NoOp]
      /\ doubt' = (IF disk' # NoFile /\ doubt \in SentKeys THEN doubt ELSE NoKey)
      /\ UNCHANGED << net, server, nextKey, failures, sent >>
  BY DEF Restart, SentKeys
<1>2. disk' \in {disk, NoFile} \/ (1 \in 1..Len(queue) /\ disk' = queue[1].env)
  BY <1>1, HeadFacts, Typed
<1>3. disk' = NoFile \/ (disk' \in Envelope /\ disk' \in Held)
  BY <1>2, QueueIsHeld, Typed DEF Held
<1>4. /\ disk' = NoFile => boot = NewState
      /\ disk' # NoFile =>
            /\ boot.env.status = (IF disk'.status = "publishing" THEN "ready" ELSE disk'.status)
            /\ boot.env.key = disk'.key /\ BodyOf(boot.env) = BodyOf(disk')
            /\ boot.env.name = disk'.name
            /\ boot.publishStatus = (IF disk'.key # NoKey THEN "failed" ELSE "idle")
  BY <1>3 DEF Boot, Envelope, BodyOf
<1>5. boot \in State
  <2>1. CASE disk' = NoFile
    BY <1>4, <2>1, NewStateFacts
  <2>2. CASE disk' \in Envelope /\ disk' # NoFile
    <3> DEFINE env == [disk' EXCEPT !.status = IF disk'.status = "publishing" THEN "ready" ELSE disk'.status]
    <3>1. env \in Envelope
      BY <2>2 DEF Envelope
    <3>2. boot = [env |-> env, publishStatus |-> IF disk'.key # NoKey THEN "failed" ELSE "idle"]
      BY <2>2 DEF Boot
    <3> HIDE DEF env, boot
    <3> QED BY <3>1, <3>2 DEF State, PublishStatuses
  <2> QED BY <1>3, <2>1, <2>2
<1>6. disk' # NoFile => HeldAsReviewed(disk')
  BY <1>3 DEF IInv, EnvelopesAreReviewed
<1>7. /\ HeldAsReviewed(boot.env) /\ boot.env.status # "publishing"
      /\ boot.publishStatus \in {"failed", "idle"}
      /\ boot.publishStatus = "failed" => boot.env.status = "ready" /\ boot.env.draftName = boot.env.name
  <2>1. CASE disk' = NoFile
    BY <1>4, <2>1, NewStateFacts DEF HeldAsReviewed
  <2>2. CASE disk' # NoFile
    <3>1. disk'.status \in {"draft", "ready", "publishing", "published"}
      BY <1>3, <2>2 DEF Envelope
    <3>2. boot.env.draftName = disk'.draftName
      BY <1>4, <2>2 DEF BodyOf
    <3> QED BY <1>4, <1>6, <2>2, <3>1, <3>2 DEF HeldAsReviewed
  <2> QED BY <2>1, <2>2
<1>8. mem' = boot /\ Len(queue') = 0
  BY <1>1
<1>9. Snapshot(boot) \in Shown /\ NoOp \in Op /\ <<>> \in Seq(Entry)
  BY <1>5, SnapshotIsShown DEF NoOp, NoBody, Op, Body
<1> HIDE DEF boot
<1>10. TypeOK'
  BY <1>1, <1>3, <1>5, <1>9 DEF IInv, TypeOK
<1>11. \A o \in Slots : ops'[o] = NoOp
  BY <1>1
<1>12. Held' \subseteq {boot.env} \cup ({disk'} \ {NoFile})
  BY <1>8 DEF Held
<1>13. ClaimsAgree'
  <2>1. boot.env.key = NoKey \/ Claim(boot.env.key, BodyOf(boot.env)) \in Claims
    BY <1>3, <1>4, ClaimsOfHeld, NewStateFacts
  <2>2. Held' \subseteq Held \cup {boot.env}
    BY <1>3, <1>12
  <2>3. \A o \in Slots : ops'[o].key = NoKey
    BY <1>11 DEF NoOp
  <2>4. sent' \subseteq Claims /\ nextKey' = nextKey
    BY <1>1 DEF Claims
  <2> QED BY <2>1, <2>2, <2>3, <2>4, ClaimsKept
<1>14. EnvelopesAreReviewed' /\ RetriesAreReady'
  BY <1>6, <1>7, <1>8, <1>12 DEF EnvelopesAreReviewed, RetriesAreReady
<1>15. QueueOK'
  BY <1>1, <1>8, <1>11 DEF QueueOK, NoOp
<1>16. KeyStays' /\ SavedBeforeSent'
  BY <1>4, <1>8 DEF KeyStays, SavedBeforeSent
<1>17. DoubtIsSaved'
  <2> SUFFICES ASSUME doubt' # NoKey PROVE DoubtIsSaved'
    BY DEF DoubtIsSaved
  <2>1. doubt' = doubt /\ doubt \in SentKeys /\ disk' # NoFile
    BY <1>1
  <2>2. (\A i \in 1..Len(queue) : Retries(queue[i].env, doubt)) /\ (disk = NoFile \/ Retries(disk, doubt))
    BY <2>1 DEF IInv, DoubtIsSaved
  <2>3. Retries(disk', doubt)
    BY <1>2, <2>1, <2>2
  <2>4. Retries(boot.env, doubt)
    BY <1>4, <2>1, <2>3 DEF Retries
  <2> QED BY <1>8, <2>1, <2>3, <2>4 DEF DoubtIsSaved
<1>18. ScreenIsLocked'
  <2>1. shown'.publishStatus = boot.publishStatus
    BY <1>1 DEF Snapshot
  <2> QED BY <1>7, <1>8, <2>1 DEF ScreenIsLocked, Confirmation
<1>19. FileIsCurrent'
  <2>1. Boot(disk').env = mem'.env
    BY <1>8 DEF boot
  <2> QED BY <1>7, <1>8, <2>1 DEF FileIsCurrent
<1> QED BY <1>10, <1>13, <1>14, <1>15, <1>16, <1>17, <1>18, <1>19 DEF IInv

LEMMA StepKeeps ==
  ASSUME IInv, [Next]_vars
  PROVE  IInv'
<1>1. ASSUME NEW o \in Slots, Touch(o) PROVE IInv'
  BY <1>1, EditKeeps, DragTrimKeeps, SetNameKeeps, NewDraftKeeps, RequestPublishKeeps,
     CancelPublishKeeps, ConfirmPublishKeeps, ResumeEditingKeeps DEF Touch
<1>2. CASE SaveEnds
  BY <1>2, SaveThenEndKeeps, SaveThenSendKeeps, SaveFailsKeeps, SaveThenTapKeeps DEF SaveEnds
<1>3. CASE UNCHANGED vars
  <2>1. Held' = Held
    BY <1>3 DEF Held, vars
  <2>2. Claims' = Claims
    BY <1>3, <2>1 DEF Claims, vars
  <2>3. ClaimsAgree' /\ EnvelopesAreReviewed' /\ RetriesAreReady'
    BY <1>3, <2>1, <2>2 DEF IInv, ClaimsAgree, EnvelopesAreReviewed, RetriesAreReady, vars
  <2>4. TypeOK' /\ QueueOK' /\ KeyStays'
    BY <1>3 DEF IInv, TypeOK, QueueOK, KeyStays, vars
  <2>5. SavedBeforeSent' /\ DoubtIsSaved'
    BY <1>3 DEF IInv, SavedBeforeSent, DoubtIsSaved, SentKeys, vars
  <2>6. ScreenIsLocked' /\ FileIsCurrent'
    BY <1>3 DEF IInv, ScreenIsLocked, FileIsCurrent, Confirmation, vars
  <2> QED BY <2>3, <2>4, <2>5, <2>6 DEF IInv
<1> QED BY <1>1, <1>2, <1>3, AnswerKeeps, RefuseKeeps, ReceiveKeeps, RestartKeeps DEF Next

-----------------------------------------------------------------------------
(* The inductive invariant holds in every state the app can reach.         *)
THEOREM MobileInvariance == Spec => []IInv
<1>1. Init => IInv
  BY InitHolds
<1>2. IInv /\ [Next]_vars => IInv'
  BY StepKeeps
<1> QED BY <1>1, <1>2, PTL DEF Spec

(* The controller, its queue, its file, the screen and the API keep their  *)
(* types through every interleaving of touches, saves, answers and deaths. *)
THEOREM MobileTypeCorrect == Spec => []TypeOK
<1>1. IInv => TypeOK
  BY DEF IInv
<1> QED BY <1>1, MobileInvariance, PTL

(* publishSegment's header and body: no request id is ever sent with two   *)
(* bodies, through renames, retries, reopened drafts and restarts.         *)
THEOREM KeysNameBodies == Spec => []KeyNamesOneBody
<1>1. IInv => KeyNamesOneBody
  BY DEF IInv, ClaimsAgree, Claims, KeyNamesOneBody
<1> QED BY <1>1, MobileInvariance, PTL

(* pendingPublishKey: a publication that may have been stored is retried   *)
(* under its own id, through lost answers, failed saves and restarts.      *)
THEOREM RetriesKeepTheirId == Spec => []RetryKeepsRequestId
<1>1. IInv => RetryKeepsRequestId
  BY DEF IInv, DoubtIsSaved, Retries, RetryKeepsRequestId
<1> QED BY <1>1, MobileInvariance, PTL

(* What confirmPublish is offered for is a draft it can publish.           *)
THEOREM RetriesArePossible == Spec => []RetryIsPossible
<1>1. IInv => RetryIsPossible
  BY DEF IInv, RetriesAreReady, RetryIsPossible
<1> QED BY <1>1, MobileInvariance, PTL

(* persist and boot: with no operation under way and no failed save, a     *)
(* restart brings back the draft, the name and the request id.             *)
THEOREM RestartsLoseNothing == Spec => []RestartBringsBack
<1>1. IInv => RestartBringsBack
  <2> SUFFICES ASSUME IInv, \A o \in Slots : ops[o].pc = "none", failures = 0
               PROVE  Boot(disk).env = mem.env
    BY DEF RestartBringsBack
  <2>1. queue = <<>>
    <3>1. \A i \in 1..Len(queue) : ops[queue[i].op].pc # "none"
      BY DEF IInv, QueueOK
    <3>2. Len(queue) = 0
      BY <3>1, Typed
    <3> QED BY <3>2, Typed
  <2>2. mem.env.status # "publishing"
    BY DEF IInv, FileIsCurrent
  <2>3. Boot(mem.env).env = mem.env
    <3>1. mem.env \in Envelope /\ mem.env # NoFile
      BY Typed, NoFileAssumption
    <3>2. Boot(mem.env).env = [mem.env EXCEPT !.status = mem.env.status]
      BY <2>2, <3>1 DEF Boot
    <3> QED BY <3>1, <3>2 DEF Envelope
  <2> QED BY <2>1, <2>3 DEF IInv, FileIsCurrent
<1> QED BY <1>1, MobileInvariance, PTL

LEMMA RunBy ==
  ASSUME IInv, NEW o \in Slots, NEW s, NEW op \in Op, Run(o, s, op), op.pc # "confirm"
  PROVE  mem' = s /\ \A p \in Slots : ops[p].pc = "none" => ops'[p].pc # "confirm"
<1> DEFINE ran == [op EXCEPT !.ui = "run"]
<1>1. mem' = s /\ ops' = [ops EXCEPT ![o] = ran]
  BY DEF Run, Begin, Persist
<1>2. ran.pc # "confirm"
  BY DEF Op
<1> HIDE DEF ran
<1>3. \A p \in Slots : ops'[p] = IF p = o THEN ran ELSE ops[p]
  BY <1>1, Typed
<1> QED BY <1>1, <1>2, <1>3

(* No touch but confirmPublish begins an operation that will send, and     *)
(* none tells the person that the draft is published.                      *)
LEMMA TouchesBegin ==
  ASSUME IInv, NEW o \in Slots, Touch(o)
  PROVE  /\ mem'.publishStatus # "published"
         /\ ConfirmPublish(o) \/ \A p \in Slots : ops[p].pc = "none" => ops'[p].pc # "confirm"
<1> DEFINE link   == [NoOp EXCEPT !.pc = "linkOrigin"]
           Idle   == mem'.publishStatus # "published"
           Silent == \A p \in Slots : ops[p].pc = "none" => ops'[p].pc # "confirm"
<1>1. mem \in State /\ mem.env \in Envelope
  BY Typed
<1>2. link \in Op /\ link.pc = "linkOrigin"
  BY DEF NoOp, NoBody, Op, Body
<1>3. ASSUME NEW route, Edit(o, route) PROVE Idle /\ Silent
  <2> DEFINE s == Edited([mem EXCEPT !.env.route = route])
  <2>1. Run(o, s, Saving) /\ s.publishStatus = "idle"
    BY <1>1, <1>3 DEF Edit, Edited, State
  <2> QED BY <2>1, RunBy, SavingIsOp
<1>4. ASSUME NEW route, DragTrim(o, route) PROVE Idle /\ Silent
  <2>1. mem' = Edited([mem EXCEPT !.env.route = route])
    BY <1>4 DEF DragTrim, Persist
  <2>2. mem'.publishStatus = "idle"
    BY <1>1, <2>1 DEF Edited, State
  <2>3. [Saving EXCEPT !.ui = "trim"].pc = "save"
    BY SavingIsOp DEF Op
  <2>4. \A p \in Slots : ops[p] \in Op
    BY Typed
  <2>5. \A p \in Slots : ops[p].pc = "none" => ops'[p].pc \in {"save", "none"}
    BY <1>4, <2>3, <2>4 DEF DragTrim, Op
  <2> QED BY <2>2, <2>5
<1>5. ASSUME NEW name, SetName(o, name) PROVE Idle /\ Silent
  <2>1. mem' = Edited([mem EXCEPT !.env.name = name]) /\ ops' = [ops EXCEPT ![o] = [Saving EXCEPT !.ui = "name"]]
    BY <1>5 DEF SetName, Begin, Persist
  <2>2. mem'.publishStatus = "idle"
    BY <1>1, <2>1 DEF Edited, State
  <2>3. [Saving EXCEPT !.ui = "name"].pc = "save"
    BY SavingIsOp DEF Op
  <2> QED BY <2>1, <2>2, <2>3, Typed
<1>6. ASSUME NewDraft(o) \/ OpenLink(o) PROVE Idle /\ Silent
  <2>1. Run(o, NewState, Saving) \/ Run(o, NewState, link)
    BY <1>6 DEF NewDraft, OpenLink
  <2> HIDE DEF link
  <2> QED BY <1>2, <2>1, RunBy, SavingIsOp, NewStateFacts
<1>7. ASSUME RequestPublish(o) PROVE Idle /\ Silent
  <2> DEFINE s == Reviewed(mem.env.name, KeyToUse)
  <2>1. Run(o, s, Saving) /\ s.publishStatus = "confirming"
    BY <1>1, <1>7 DEF RequestPublish, Reviewed, State
  <2> QED BY <2>1, RunBy, SavingIsOp
<1>8. ASSUME CancelPublish(o) PROVE Idle /\ Silent
  <2> DEFINE s == [mem EXCEPT !.env.status = IF @ = "ready" THEN "draft" ELSE @,
                              !.env.key = NoKey, !.publishStatus = "idle"]
  <2>1. Run(o, s, Saving) /\ s.publishStatus = "idle"
    BY <1>1, <1>8 DEF CancelPublish, State
  <2> QED BY <2>1, RunBy, SavingIsOp
<1>9. ASSUME ConfirmPublish(o) PROVE Idle
  <2>1. mem' = [mem EXCEPT !.env.status = "publishing", !.env.key = KeyToUse, !.publishStatus = "publishing"]
    BY <1>9 DEF ConfirmPublish, Run, Begin, Persist
  <2> QED BY <1>1, <2>1 DEF State
<1>10. ASSUME ResumeEditing(o) PROVE Idle /\ Silent
  <2> DEFINE s == [mem EXCEPT !.env.status = "draft", !.publishStatus = "idle"]
  <2>1. Run(o, s, Saving) /\ s.publishStatus = "idle"
    BY <1>1, <1>10 DEF ResumeEditing, State
  <2> QED BY <2>1, RunBy, SavingIsOp
<1> QED BY <1>3, <1>4, <1>5, <1>6, <1>7, <1>8, <1>9, <1>10 DEF Touch

(* Nor does any other step of the app begin one, but an answer of success  *)
(* alone says published.                                                   *)
LEMMA OthersBegin ==
  ASSUME IInv, [Next]_vars, \A o \in Slots : ~Touch(o)
  PROVE  /\ \A p \in Slots : ops[p].pc = "none" => ops'[p].pc # "confirm"
         /\ \/ mem'.publishStatus \in {mem.publishStatus, "idle", "failed"}
            \/ \E o \in Slots : AnswerOk(o) /\ mem.env.status = "publishing"
<1> DEFINE Silent == \A p \in Slots : ops[p].pc = "none" => ops'[p].pc # "confirm"
           Idle   == mem'.publishStatus \in {mem.publishStatus, "idle", "failed"}
<1>1. mem \in State /\ NoOp.pc = "none"
  BY Typed DEF NoOp
<1>2. ASSUME NEW o \in Slots, NEW ok, End(o, ok) PROVE Silent
  <2>1. ops' = [ops EXCEPT ![o] = NoOp]
    BY <1>2 DEF End
  <2> QED BY <1>1, <2>1, Typed
<1>3. ASSUME NEW o \in Slots, NEW rest, CatchPublication(o, rest) PROVE Silent /\ Idle
  <2>1. CASE mem.env.status = "publishing"
    <3>1. /\ ops' = [ops EXCEPT ![o] = [Saving EXCEPT !.ui = "run"]]
          /\ mem' = [mem EXCEPT !.env.status = "ready", !.publishStatus = "failed"]
      BY <1>3, <2>1 DEF CatchPublication, Persist
    <3>2. [Saving EXCEPT !.ui = "run"].pc = "save" /\ mem'.publishStatus = "failed"
      BY <1>1, <3>1, SavingIsOp DEF Op, State
    <3> QED BY <3>1, <3>2, Typed
  <2>2. CASE mem.env.status # "publishing"
    BY <1>2, <1>3, <2>2 DEF CatchPublication
  <2> QED BY <2>1, <2>2
<1>4. ASSUME NEW pc, NEW o \in Slots, pc # "confirm", ops' = [ops EXCEPT ![o].pc = pc] PROVE Silent
  <2>1. /\ [ops[o] EXCEPT !.pc = pc].pc = pc
        /\ \A p \in Slots : ops'[p] = IF p = o THEN [ops[o] EXCEPT !.pc = pc] ELSE ops[p]
    BY <1>4, Typed DEF Op
  <2> QED BY <1>4, <2>1
<1>5. queue # <<>> => Head(queue).op \in Slots
  BY HeadFacts
<1>6. ASSUME SaveEnds PROVE Silent /\ Idle
  <2>1. queue # <<>>
    BY <1>6 DEF SaveEnds, SaveThenEnd, SaveThenSend, SaveThenTap, SaveFails, Saved
  <2> DEFINE o == Head(queue).op
  <2>2. o \in Slots
    BY <1>5, <2>1
  <2>3. CASE SaveThenEnd
    BY <1>2, <2>2, <2>3 DEF SaveThenEnd
  <2>4. CASE SaveThenSend
    BY <1>4, <2>2, <2>4 DEF SaveThenSend
  <2>5. CASE SaveFails
    BY <1>2, <1>3, <2>2, <2>5 DEF SaveFails
  <2>6. ASSUME NEW route, SaveThenTap(route) PROVE Silent /\ Idle
    <3>1. CASE mem.env.status = "draft"
      <4>1. PICK pc \in {"linkDestination", "save"} : ops' = [ops EXCEPT ![o].pc = pc]
        BY <2>6, <3>1 DEF SaveThenTap
      <4>2. mem' = Edited([mem EXCEPT !.env.route = route])
        BY <2>6, <3>1 DEF SaveThenTap, Persist
      <4>3. mem'.publishStatus = "idle"
        BY <1>1, <4>2 DEF Edited, State
      <4> QED BY <1>4, <2>2, <4>1, <4>3
    <3>2. CASE mem.env.status # "draft"
      BY <1>2, <2>2, <2>6, <3>2 DEF SaveThenTap
    <3> QED BY <3>1, <3>2
  <2> QED BY <1>6, <2>3, <2>4, <2>5, <2>6 DEF SaveEnds
<1>7. ASSUME NEW o \in Slots, Answer(o)
      PROVE  Silent /\ (Idle \/ (AnswerOk(o) /\ mem.env.status = "publishing"))
  <2>1. CASE CatchPublication(o, queue)
    BY <1>3, <2>1
  <2>2. CASE AnswerOk(o) /\ mem.env.status = "publishing"
    BY <1>4, <2>2 DEF AnswerOk
  <2> QED BY <1>7, <2>1, <2>2 DEF Answer, AnswerOk, AnswerFails
<1>8. ASSUME Restart PROVE Silent /\ Idle
  <2>1. mem' = Boot(disk') /\ ops' = [o \in Slots |-> NoOp]
    BY <1>8 DEF Restart
  <2>2. Boot(disk').publishStatus \in {"idle", "failed"}
    BY DEF Boot, NewState
  <2> QED BY <1>1, <2>1, <2>2
<1>9. ASSUME Refuse \/ (\E request \in net : Receive(request)) \/ UNCHANGED vars PROVE Silent /\ Idle
  BY <1>9 DEF Refuse, Receive, vars
<1> QED BY <1>6, <1>7, <1>8, <1>9 DEF Next

(* confirmPublish: what is sent is what the person saw when confirming it. *)
THEOREM ConfirmedBodiesAreSent == Spec => ConfirmedIsSent
<1> DEFINE Sent(o) == ops[o].pc = "none" /\ ops'[o].pc = "confirm" => ops'[o].body = shown.body
<1>1. IInv /\ [Next]_vars => \A o \in Slots : Sent(o)
  <2> SUFFICES ASSUME IInv, [Next]_vars, NEW o \in Slots, ops[o].pc = "none", ops'[o].pc = "confirm"
               PROVE  ops'[o].body = shown.body
    OBVIOUS
  <2>1. PICK p \in Slots : ConfirmPublish(p)
    BY OthersBegin, TouchesBegin
  <2> DEFINE op  == [NoOp EXCEPT !.pc = "confirm", !.key = KeyToUse,
                                 !.body = [name |-> mem.env.draftName, route |-> mem.env.route]]
             ran == [op EXCEPT !.ui = "run"]
  <2>2. /\ ops' = [ops EXCEPT ![p] = ran] /\ Confirmation
        /\ mem.publishStatus \in {"confirming", "failed"}
    BY <2>1 DEF ConfirmPublish, Confirmable, Run, Begin
  <2>3. ran.body = BodyOf(mem.env)
    BY DEF NoOp, BodyOf
  <2> HIDE DEF ran, op
  <2>4. p = o /\ ops'[o] = ran
    BY <2>2, Typed
  <2>5. shown.body = BodyOf(mem.env)
    BY <2>2 DEF IInv, ScreenIsLocked
  <2> QED BY <2>3, <2>4, <2>5
<1>2. IInv /\ [Next]_vars => [\A o \in Slots : Sent(o)]_vars
  BY <1>1
<1> QED BY <1>2, MobileInvariance, PTL DEF Spec, ConfirmedIsSent

(* confirmPublish: the person is told published only of what the API has   *)
(* stored, or of the draft that a link put in its place meanwhile.         *)
THEOREM PublishedBodiesAreStored == Spec => PublishedIsStored
<1> DEFINE Stored ==
      mem.publishStatus # "published" /\ mem'.publishStatus = "published" =>
          \/ [ key |-> mem.env.key,
               body |-> [name |-> mem'.env.draftName, route |-> mem'.env.route] ] \in server
          \/ \E o \in Slots : ops'[o].pc = "saveOutcome" /\ ops[o].key # mem.env.key
<1>1. ASSUME IInv, [Next]_vars PROVE Stored
  <2> SUFFICES ASSUME mem.publishStatus # "published", mem'.publishStatus = "published"
               PROVE  Stored
    OBVIOUS
  <2>1. PICK o \in Slots : AnswerOk(o) /\ mem.env.status = "publishing"
    BY <1>1, OthersBegin, TouchesBegin
  <2>2. /\ ops[o].pc = "request" /\ Claim(ops[o].key, ops[o].body) \in server
        /\ ops' = [ops EXCEPT ![o].pc = "saveOutcome"]
        /\ mem' = [mem EXCEPT !.env.status = "published", !.env.key = NoKey, !.publishStatus = "published"]
    BY <2>1 DEF AnswerOk, Succeeded, Persist, Claim
  <2>3. ops'[o].pc = "saveOutcome"
    BY <1>1, <2>2, Typed DEF Op
  <2>4. BodyOf(mem'.env) = BodyOf(mem.env)
    BY <1>1, <2>2, Typed DEF BodyOf, State, Envelope
  <2>5. CASE ops[o].key = mem.env.key
    <3>1. mem.env.key # NoKey
      BY <1>1, <2>2, <2>5 DEF IInv, QueueOK
    <3>2. Claim(mem.env.key, BodyOf(mem.env)) \in Claims /\ Claim(ops[o].key, ops[o].body) \in Claims
      BY <2>5, <3>1 DEF Claims, Held
    <3>3. ops[o].body = BodyOf(mem.env)
      BY <1>1, <2>5, <3>2, ClaimFields DEF IInv, ClaimsAgree
    <3> QED BY <2>2, <2>4, <2>5, <3>3 DEF Claim, BodyOf
  <2>6. CASE ops[o].key # mem.env.key
    BY <2>3, <2>6
  <2> QED BY <2>5, <2>6
<1>2. IInv /\ [Next]_vars => [Stored]_vars
  BY <1>1
<1> QED BY <1>2, MobileInvariance, PTL DEF Spec, PublishedIsStored

=============================================================================
