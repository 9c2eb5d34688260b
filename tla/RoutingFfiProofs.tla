-------------------------- MODULE RoutingFfiProofs --------------------------
(***************************************************************************)
(* Theorems of RoutingFfi, for any number of threads, packs, storages and  *)
(* addresses: handles are never reused, and no free of a stale value takes *)
(* a buffer from its owner.  The inductive invariant adds to the           *)
(* invariants what calls under way hold: handles and tokens that nobody    *)
(* has seen yet.                                                           *)
(***************************************************************************)
EXTENDS RoutingFfi, TLAPS

Loading == { t \in Threads : call[t] # Idle /\ call[t].op = "load" }

(* A handle that is drawn is not known, and is drawn once.                 *)
HandlesArePrivate ==
    /\ \A t \in Loading : call[t].handle \in 1..(nextHandle - 1) \ DOMAIN given
    /\ \A t, u \in Loading : call[t].handle = call[u].handle => t = u

(* Nor is a token that is drawn, and a token belongs to one address.       *)
TokensArePrivate ==
    /\ \A t \in Writing :
         /\ call[t].token \in 1..(nextToken - 1) \ released
         /\ \A s \in Slots : slot[s] # Empty => slot[s].token # call[t].token
    /\ \A t, u \in Writing : call[t].token = call[u].token => t = u
    /\ \A s \in Slots : slot[s] # Empty => slot[s].token \in 1..(nextToken - 1)
    /\ \A s, r \in Slots :
         slot[s] # Empty /\ slot[r] # Empty /\ slot[s].token = slot[r].token =>
            slot[s].ptr = slot[r].ptr

IInv ==
    /\ TypeOK
    /\ HandlesNameOnePack /\ HandlesArePrivate
    /\ OwnedBuffersStay /\ TokensArePrivate
    /\ HeapIsAccounted

-----------------------------------------------------------------------------
LEMMA InitHolds == Init => IInv
  BY FfiAssumption
  DEF FfiAssumption, Init, IInv, TypeOK, HandlesNameOnePack, HandlesArePrivate, OwnedBuffersStay,
      TokensArePrivate, HeapIsAccounted, Loading, Writing

LEMMA DrawHandleKeeps ==
    ASSUME IInv, NEW t \in Threads, NEW p \in Packs, DrawHandle(t, p)
    PROVE  IInv'
<1> DEFINE c == [op |-> "load", pack |-> p, handle |-> nextHandle]
<1>1. c \in Call /\ c # Idle /\ c.op = "load" /\ c.handle = nextHandle
  BY FfiAssumption DEF IInv, TypeOK, Call, FfiAssumption
<1>2. /\ call' = [call EXCEPT ![t] = c] /\ nextHandle' = nextHandle + 1 /\ call[t] = Idle
      /\ UNCHANGED << routers, buffers, nextToken, heap, slot, given, freed, released >>
  BY DEF DrawHandle, NewHandle
<1> HIDE DEF c
<1>3. TypeOK'
  BY <1>1, <1>2 DEF IInv, TypeOK
<1>4. call \in [Threads -> Call \cup {Idle}]
  BY DEF IInv, TypeOK
<1>5. \A u \in Threads : call'[u] = IF u = t THEN c ELSE call[u]
  BY <1>2, <1>4
<1>6. Loading' = Loading \cup {t} /\ Writing' = Writing /\ t \notin Writing
  BY <1>1, <1>2, <1>5 DEF Loading, Writing
<1>7. HandlesArePrivate'
  BY <1>1, <1>2, <1>5, <1>6 DEF HandlesArePrivate, IInv, TypeOK, Loading
<1>8. HandlesNameOnePack' /\ OwnedBuffersStay'
  BY <1>2 DEF IInv, HandlesNameOnePack, OwnedBuffersStay, OwnsGeneration
<1>9. TokensArePrivate'
  BY <1>2, <1>5, <1>6 DEF IInv, TokensArePrivate, Writing
<1>10. HeapIsAccounted'
  BY <1>2, <1>5, <1>6 DEF IInv, HeapIsAccounted, Writing
<1> QED
  BY <1>3, <1>7, <1>8, <1>9, <1>10 DEF IInv

LEMMA RegisterKeeps ==
    ASSUME IInv, NEW t \in Threads, Register(t)
    PROVE  IInv'
<1> DEFINE h == call[t].handle
<1>1. /\ routers' = Put(routers, h, call[t].pack) /\ given' = Put(given, h, call[t].pack)
      /\ call' = [call EXCEPT ![t] = Idle]
      /\ UNCHANGED << nextHandle, buffers, nextToken, heap, slot, freed, released >>
  BY DEF Register
<1>2. t \in Loading /\ call[t] \in Call
  BY DEF Register, Loading, IInv, TypeOK
<1>3. call[t].pack \in Packs /\ h \in 1..(nextHandle - 1) \ DOMAIN given
  BY <1>2 DEF IInv, HandlesArePrivate, Call, Loading
<1> HIDE DEF h
<1>4. call \in [Threads -> Call \cup {Idle}]
  BY DEF IInv, TypeOK
<1>5. \A u \in Threads : call'[u] = IF u = t THEN Idle ELSE call[u]
  BY <1>1, <1>4
<1>6. Loading' = Loading \ {t} /\ Writing' = Writing /\ t \notin Writing
  BY <1>2, <1>5 DEF Loading, Writing
<1>7. TypeOK'
  BY <1>1, <1>3, <1>4 DEF IInv, TypeOK, Put
<1>8. HandlesNameOnePack'
  BY <1>1, <1>3 DEF IInv, HandlesNameOnePack, Put, TypeOK
<1>9. HandlesArePrivate'
  BY <1>1, <1>2, <1>5, <1>6 DEF IInv, HandlesArePrivate, Put, h
<1>10. OwnedBuffersStay'
  BY <1>1 DEF IInv, OwnedBuffersStay, OwnsGeneration
<1>11. TokensArePrivate'
  BY <1>1, <1>5, <1>6 DEF IInv, TokensArePrivate
<1>12. HeapIsAccounted'
  BY <1>1, <1>5, <1>6 DEF IInv, HeapIsAccounted
<1> QED
  BY <1>7, <1>8, <1>9, <1>10, <1>11, <1>12 DEF IInv

LEMMA FreeRouterKeeps ==
    ASSUME IInv, NEW h \in 1..nextHandle, FreeRouter(h)
    PROVE  IInv'
<1>1. /\ routers' = Drop(routers, h) /\ freed' = freed \cup ({h} \cap DOMAIN given)
      /\ UNCHANGED << nextHandle, buffers, nextToken, heap, call, slot, given, released >>
  BY DEF FreeRouter
<1>2. TypeOK'
  BY <1>1 DEF IInv, TypeOK, Drop
<1>3. HandlesNameOnePack'
  BY <1>1 DEF IInv, HandlesNameOnePack, Drop
<1>4. HandlesArePrivate'
  BY <1>1 DEF IInv, HandlesArePrivate, Loading
<1>5. OwnedBuffersStay' /\ TokensArePrivate' /\ HeapIsAccounted'
  BY <1>1 DEF IInv, OwnedBuffersStay, TokensArePrivate, HeapIsAccounted, OwnsGeneration, Writing
<1> QED
  BY <1>2, <1>3, <1>4, <1>5 DEF IInv

(* A thread begins or refuses a call: nothing but its call changes.        *)
LEMMA CallKeeps ==
    ASSUME IInv, NEW t \in Threads, NEW c \in Call \cup {Idle},
           call' = [call EXCEPT ![t] = c],
           UNCHANGED << routers, nextHandle, buffers, nextToken, heap, slot, given, freed, released >>,
           t \notin Loading, t \notin Writing,
           c # Idle => c.op \in {"route", "benchmark"}
    PROVE  IInv'
<1>1. \A u \in Threads : call'[u] = IF u = t THEN c ELSE call[u]
  BY DEF IInv, TypeOK
<1>2. Loading' = Loading /\ Writing' = Writing
  BY <1>1 DEF Loading, Writing
<1>3. TypeOK'
  BY DEF IInv, TypeOK
<1>4. HandlesNameOnePack' /\ OwnedBuffersStay'
  BY DEF IInv, HandlesNameOnePack, OwnedBuffersStay, OwnsGeneration
<1>5. HandlesArePrivate'
  BY <1>1, <1>2 DEF IInv, HandlesArePrivate
<1>6. TokensArePrivate' /\ HeapIsAccounted'
  BY <1>1, <1>2 DEF IInv, TokensArePrivate, HeapIsAccounted
<1> QED
  BY <1>3, <1>4, <1>5, <1>6 DEF IInv

LEMMA BeginKeeps ==
    ASSUME IInv, NEW t \in Threads, NEW h \in 1..nextHandle, NEW s \in Slots,
           NEW op \in {"route", "benchmark"}, Begin(t, h, s, op)
    PROVE  IInv'
<1> DEFINE c == [op |-> op, pack |-> routers[h], out |-> s]
<1>1. c \in Call /\ c.op \in {"route", "benchmark"}
  BY DEF Begin, IInv, TypeOK, Call
<1>2. t \notin Loading /\ t \notin Writing
  BY DEF Begin, Loading, Writing
<1>3. /\ call' = [call EXCEPT ![t] = c]
      /\ UNCHANGED << routers, nextHandle, buffers, nextToken, heap, slot, given, freed, released >>
  BY DEF Begin
<1> HIDE DEF c
<1> QED
  BY <1>1, <1>2, <1>3, CallKeeps

LEMMA RefuseKeeps ==
    ASSUME IInv, NEW t \in Threads, Refuse(t)
    PROVE  IInv'
<1>1. t \notin Loading /\ t \notin Writing
  BY DEF Refuse, Loading, Writing
<1> QED
  BY <1>1, CallKeeps DEF Refuse

LEMMA AllocateKeeps ==
    ASSUME IInv, NEW t \in Threads, Allocate(t)
    PROVE  IInv'
<1>1. PICK a \in Addresses \ heap :
         /\ heap' = heap \cup {a}
         /\ call' = [call EXCEPT ![t] = [ op |-> "write", pack |-> call[t].pack,
                                          out |-> call[t].out, ptr |-> a, token |-> nextToken ]]
  BY DEF Allocate
<1> DEFINE c == [ op |-> "write", pack |-> call[t].pack, out |-> call[t].out,
                  ptr |-> a, token |-> nextToken ]
<1>2. /\ nextToken' = nextToken + 1
      /\ UNCHANGED << routers, nextHandle, buffers, slot, given, freed, released >>
      /\ call[t] # Idle /\ call[t].op \in {"route", "benchmark"}
  BY DEF Allocate
<1>3. call[t] \in Call
  BY <1>2 DEF IInv, TypeOK
<1>4. call[t].pack \in Packs /\ call[t].out \in Slots
  BY <1>2, <1>3 DEF Call
<1>5. /\ c \in Call /\ c # Idle /\ c.op = "write" /\ c.ptr = a /\ c.token = nextToken
      /\ c.out = call[t].out
  BY <1>4, FfiAssumption DEF FfiAssumption, Call, IInv, TypeOK
<1>6. call' = [call EXCEPT ![t] = c]
  BY <1>1
<1> HIDE DEF c
<1>7. \A u \in Threads : call'[u] = IF u = t THEN c ELSE call[u]
  BY <1>6 DEF IInv, TypeOK
<1>8. Loading' = Loading /\ Writing' = Writing \cup {t} /\ t \notin Writing /\ t \notin Loading
  BY <1>2, <1>5, <1>7 DEF Loading, Writing
<1>9. TypeOK'
  BY <1>1, <1>2, <1>5, <1>6 DEF IInv, TypeOK
<1>10. HandlesNameOnePack' /\ OwnedBuffersStay'
  BY <1>2 DEF IInv, HandlesNameOnePack, OwnedBuffersStay, OwnsGeneration
<1>11. HandlesArePrivate'
  <2>1. \A u \in Loading : u \in Threads /\ u # t /\ call'[u] = call[u]
    BY <1>7, <1>8 DEF Loading
  <2> QED
    BY <1>2, <1>8, <2>1 DEF IInv, HandlesArePrivate
<1>12. nextToken \in Nat \ {0} /\ released \subseteq 1..(nextToken - 1)
  BY DEF IInv, TypeOK
<1>13. TokensArePrivate'
  <2>1. \A u \in Writing : u \in Threads /\ u # t /\ call'[u] = call[u]
                          /\ call[u].token \in 1..(nextToken - 1) \ released
    BY <1>7, <1>8 DEF IInv, TokensArePrivate, Writing
  <2>2. call'[t].token = nextToken /\ nextToken \in 1..(nextToken' - 1) \ released
    BY <1>2, <1>5, <1>7, <1>12
  <2>3. \A s \in Slots : slot[s] # Empty => slot[s].token \in 1..(nextToken - 1)
    BY DEF IInv, TokensArePrivate
  <2>4. \A u \in Writing' :
          /\ call'[u].token \in 1..(nextToken' - 1) \ released
          /\ \A s \in Slots : slot[s] # Empty => slot[s].token # call'[u].token
    BY <1>2, <1>8, <1>12, <2>1, <2>2, <2>3 DEF IInv, TokensArePrivate
  <2>5. \A u, v \in Writing' : call'[u].token = call'[v].token => u = v
    BY <1>8, <1>12, <2>1, <2>2 DEF IInv, TokensArePrivate
  <2>6. \A s \in Slots : slot[s] # Empty => slot[s].token \in 1..(nextToken' - 1)
    BY <1>2, <1>12, <2>3
  <2> QED
    BY <1>2, <2>4, <2>5, <2>6 DEF IInv, TokensArePrivate
<1>14. HeapIsAccounted'
  BY <1>1, <1>2, <1>5, <1>7, <1>8 DEF IInv, HeapIsAccounted
<1> QED
  BY <1>9, <1>10, <1>11, <1>13, <1>14 DEF IInv

(* A thread that is not loading goes idle: only buffers may have changed.  *)
LEMMA IdleAgain ==
    ASSUME IInv, NEW t \in Threads, t \notin Loading,
           call' = [call EXCEPT ![t] = Idle],
           UNCHANGED << routers, nextHandle, given, freed >>
    PROVE  /\ \A u \in Threads : call'[u] = IF u = t THEN Idle ELSE call[u]
           /\ Loading' = Loading /\ Writing' = Writing \ {t}
           /\ HandlesNameOnePack' /\ HandlesArePrivate'
<1>1. \A u \in Threads : call'[u] = IF u = t THEN Idle ELSE call[u]
  BY DEF IInv, TypeOK
<1>2. Loading' = Loading /\ Writing' = Writing \ {t}
  BY <1>1 DEF Loading, Writing
<1>3. HandlesNameOnePack' /\ HandlesArePrivate'
  BY <1>1, <1>2 DEF IInv, HandlesNameOnePack, HandlesArePrivate
<1> QED
  BY <1>1, <1>2, <1>3

LEMMA WriteKeeps ==
    ASSUME IInv, NEW t \in Threads, Write(t)
    PROVE  IInv'
<1> DEFINE c == call[t]
<1>1. t \in Writing /\ t \notin Loading
  BY DEF Write, Writing, Loading
<1>2. c \in Call /\ c.op = "write"
  BY <1>1 DEF Writing, IInv, TypeOK
<1>3. c.ptr \in Addresses /\ c.out \in Slots /\ c.pack \in Packs /\ c.token \in Nat
  BY <1>2 DEF Call
<1>4. c.ptr \notin DOMAIN buffers /\ c.ptr \in heap
  BY <1>1 DEF IInv, HeapIsAccounted
<1> DEFINE e == [token |-> c.token, pack |-> c.pack]
           b == [ptr |-> c.ptr, token |-> c.token]
<1>5. /\ buffers' = Put(buffers, c.ptr, e) /\ slot' = [slot EXCEPT ![c.out] = b]
      /\ call' = [call EXCEPT ![t] = Idle]
      /\ UNCHANGED << routers, nextHandle, nextToken, heap, given, freed, released >>
  BY <1>4 DEF Write
<1>6. e \in Entry /\ e.token = c.token /\ b \in Buffer /\ b # Empty
      /\ b.ptr = c.ptr /\ b.token = c.token
  BY <1>3, FfiAssumption DEF Entry, Buffer, FfiAssumption
<1>7. c.token \in 1..(nextToken - 1) \ released
      /\ \A s \in Slots : slot[s] # Empty => slot[s].token # c.token
  BY <1>1 DEF IInv, TokensArePrivate
<1> HIDE DEF e, b, c
<1>8. \A s \in Slots : slot'[s] = IF s = c.out THEN b ELSE slot[s]
  BY <1>5 DEF IInv, TypeOK
<1>9. \A u \in Threads : call'[u] = IF u = t THEN Idle ELSE call[u]
  BY <1>1, <1>5, IdleAgain
<1>10. Writing' = Writing \ {t} /\ HandlesNameOnePack' /\ HandlesArePrivate'
  BY <1>1, <1>5, IdleAgain
<1>11. TypeOK'
  BY <1>3, <1>5, <1>6 DEF IInv, TypeOK, Put
<1>12. OwnedBuffersStay'
  BY <1>3, <1>4, <1>5, <1>6, <1>7, <1>8 DEF IInv, OwnedBuffersStay, OwnsGeneration, Put
<1>13. TokensArePrivate'
  <2>1. \A u \in Writing' :
          /\ call'[u].token \in 1..(nextToken - 1) \ released
          /\ \A s \in Slots : slot'[s] # Empty => slot'[s].token # call'[u].token
    BY <1>1, <1>6, <1>8, <1>9, <1>10 DEF IInv, TokensArePrivate, Writing, c
  <2>2. \A u, v \in Writing' : call'[u].token = call'[v].token => u = v
    BY <1>9, <1>10 DEF IInv, TokensArePrivate, Writing
  <2>3. \A s \in Slots : slot'[s] # Empty => slot'[s].token \in 1..(nextToken - 1)
    BY <1>6, <1>7, <1>8 DEF IInv, TokensArePrivate
  <2>4. \A s, r \in Slots :
          slot'[s] # Empty /\ slot'[r] # Empty /\ slot'[s].token = slot'[r].token =>
             slot'[s].ptr = slot'[r].ptr
    BY <1>6, <1>7, <1>8 DEF IInv, TokensArePrivate
  <2> QED
    BY <1>5, <2>1, <2>2, <2>3, <2>4 DEF TokensArePrivate
<1>14. HeapIsAccounted'
  BY <1>1, <1>4, <1>5, <1>9, <1>10 DEF IInv, HeapIsAccounted, Put, Writing, c
<1> QED
  BY <1>10, <1>11, <1>12, <1>13, <1>14 DEF IInv

LEMMA FreeBufferKeeps ==
    ASSUME IInv, NEW s \in Slots, FreeBuffer(s)
    PROVE  IInv'
<1> DEFINE b == slot[s]
<1>1. /\ slot' = [slot EXCEPT ![s] = Empty] /\ released' = released \cup {b.token}
      /\ UNCHANGED << routers, nextHandle, nextToken, call, given, freed >>
      /\ b # Empty
  BY DEF FreeBuffer
<1>2. b \in Buffer /\ b.ptr \in Addresses /\ b.token \in 1..(nextToken - 1)
  BY <1>1 DEF IInv, TypeOK, Buffer, TokensArePrivate
<1>3. CASE OwnsGeneration(b)
  <2>1. buffers' = Drop(buffers, b.ptr) /\ heap' = heap \ {b.ptr}
    BY <1>3 DEF FreeBuffer, HeapWithout
  <2>2. b.ptr \in DOMAIN buffers /\ buffers[b.ptr].token = b.token
    BY <1>3 DEF OwnsGeneration
  <2> HIDE DEF b
  <2>3. \A r \in Slots : slot'[r] = IF r = s THEN Empty ELSE slot[r]
    BY <1>1 DEF IInv, TypeOK
  <2>4. TypeOK'
    BY <1>1, <1>2, <2>1 DEF IInv, TypeOK, Drop
  <2>5. OwnedBuffersStay'
    <3> SUFFICES ASSUME NEW r \in Slots, slot'[r] # Empty
                 PROVE  OwnsGeneration(slot[r])' <=> slot[r].token \notin released'
      BY <2>3 DEF OwnedBuffersStay, OwnsGeneration
    <3>1. r # s /\ slot[r] # Empty /\ slot'[r] = slot[r]
      BY <2>3
    <3>2. OwnsGeneration(slot[r]) <=> slot[r].token \notin released
      BY <3>1 DEF IInv, OwnedBuffersStay
    <3>3. slot[r].token = b.token => slot[r].ptr = b.ptr
      BY <1>1, <3>1 DEF IInv, TokensArePrivate, b
    <3> QED
      BY <1>1, <2>1, <2>2, <3>1, <3>2, <3>3 DEF OwnsGeneration, Drop
  <2>6. HandlesNameOnePack' /\ HandlesArePrivate' /\ Writing' = Writing
    BY <1>1 DEF IInv, HandlesNameOnePack, HandlesArePrivate, Loading, Writing
  <2>7. TokensArePrivate'
    BY <1>1, <2>3, <2>6 DEF IInv, TokensArePrivate, b
  <2>8. HeapIsAccounted'
    BY <1>1, <2>1, <2>2, <2>6 DEF IInv, HeapIsAccounted, Drop
  <2> QED
    BY <2>4, <2>5, <2>6, <2>7, <2>8 DEF IInv
<1>4. CASE ~OwnsGeneration(b)
  <2>1. UNCHANGED << buffers, heap >>
    BY <1>4 DEF FreeBuffer
  <2>2. b.token \in released
    BY <1>1, <1>4 DEF IInv, OwnedBuffersStay
  <2> HIDE DEF b
  <2>3. released' = released
    BY <1>1, <2>2
  <2>4. \A r \in Slots : slot'[r] = IF r = s THEN Empty ELSE slot[r]
    BY <1>1 DEF IInv, TypeOK
  <2>5. TypeOK'
    BY <1>1, <2>1, <2>3 DEF IInv, TypeOK
  <2>6. HandlesNameOnePack' /\ HandlesArePrivate' /\ Writing' = Writing
    BY <1>1 DEF IInv, HandlesNameOnePack, HandlesArePrivate, Loading, Writing
  <2>7. OwnedBuffersStay' /\ TokensArePrivate' /\ HeapIsAccounted'
    BY <1>1, <2>1, <2>3, <2>4, <2>6
    DEF IInv, OwnedBuffersStay, OwnsGeneration, TokensArePrivate, HeapIsAccounted
  <2> QED
    BY <2>5, <2>6, <2>7 DEF IInv
<1> QED
  BY <1>3, <1>4

(* A value that is copied, or cleared, was in some storage or is empty.    *)
LEMMA CopyBufferKeeps ==
    ASSUME IInv, NEW s \in Slots, NEW value,
           value = Empty \/ \E r \in Slots : value = slot[r],
           CopyBuffer(s, value)
    PROVE  IInv'
<1>1. /\ slot' = [slot EXCEPT ![s] = value] /\ ~InUse(s)
      /\ UNCHANGED << routers, nextHandle, buffers, nextToken, heap, call, given, freed, released >>
  BY DEF CopyBuffer
<1>2. value \in Buffer \cup {Empty}
  BY DEF IInv, TypeOK
<1>3. \A r \in Slots : slot'[r] = IF r = s THEN value ELSE slot[r]
  BY <1>1 DEF IInv, TypeOK
<1>4. TypeOK'
  BY <1>1, <1>2 DEF IInv, TypeOK
<1>5. \A r \in Slots : slot'[r] # Empty => \E q \in Slots : slot'[r] = slot[q] /\ slot[q] # Empty
  BY <1>3
<1>6. HandlesNameOnePack' /\ HandlesArePrivate' /\ Writing' = Writing
  BY <1>1 DEF IInv, HandlesNameOnePack, HandlesArePrivate, Loading, Writing
<1>7. OwnedBuffersStay' /\ HeapIsAccounted'
  BY <1>1, <1>5, <1>6 DEF IInv, OwnedBuffersStay, OwnsGeneration, HeapIsAccounted
<1>8. TokensArePrivate'
  BY <1>1, <1>5, <1>6 DEF IInv, TokensArePrivate
<1> QED
  BY <1>4, <1>6, <1>7, <1>8 DEF IInv

-----------------------------------------------------------------------------
LEMMA StepKeeps == IInv /\ [Next]_vars => IInv'
<1> SUFFICES ASSUME IInv, [Next]_vars PROVE IInv'
  OBVIOUS
<1>1. ASSUME NEW t \in Threads, NEW p \in Packs, DrawHandle(t, p) PROVE IInv'
  BY <1>1, DrawHandleKeeps
<1>2. ASSUME NEW h \in 1..nextHandle, FreeRouter(h) PROVE IInv'
  BY <1>2, FreeRouterKeeps
<1>3. ASSUME NEW t \in Threads, NEW h \in 1..nextHandle, NEW s \in Slots,
             \/ Route(t, h, s) \/ Benchmark(t, h, s)
             \/ \E count \in Counts : RouteMany(t, h, s, count)
      PROVE  IInv'
  BY <1>3, BeginKeeps DEF Route, Benchmark, RouteMany
<1>4. ASSUME NEW t \in Threads, Register(t) \/ Refuse(t) \/ Allocate(t) \/ Write(t) PROVE IInv'
  BY <1>4, RegisterKeeps, RefuseKeeps, AllocateKeeps, WriteKeeps
<1>5. ASSUME NEW s \in Slots, FreeBuffer(s) PROVE IInv'
  BY <1>5, FreeBufferKeeps
<1>6. ASSUME NEW s \in Slots, (\E from \in Slots : CopyBuffer(s, slot[from])) \/ CopyBuffer(s, Empty)
      PROVE  IInv'
  BY <1>6, CopyBufferKeeps
<1>7. CASE UNCHANGED vars
  BY <1>7 DEF vars, IInv, TypeOK, HandlesNameOnePack, HandlesArePrivate, OwnedBuffersStay,
     OwnsGeneration, TokensArePrivate, HeapIsAccounted, Loading, Writing
<1> QED
  BY <1>1, <1>2, <1>3, <1>4, <1>5, <1>6, <1>7 DEF Next

LEMMA FfiInvariance == Spec => []IInv
  BY InitHolds, StepKeeps, PTL DEF Spec

(* The registries, the calls and the caller's storage keep their types.    *)
THEOREM FfiTypeCorrect == Spec => []TypeOK
<1>1. IInv => TypeOK
  BY DEF IInv
<1> QED
  BY <1>1, FfiInvariance, PTL

(* Loads and frees of any threads never make a handle name another pack,   *)
(* nor a freed handle name one again.                                      *)
THEOREM HandlesAreNeverReused == Spec => []HandlesNameOnePack
<1>1. IInv => HandlesNameOnePack
  BY DEF IInv
<1> QED
  BY <1>1, FfiInvariance, PTL

(* However often stale copies are freed, and however the allocator reuses  *)
(* addresses, a buffer stays until its own generation is freed.            *)
THEOREM StaleFreesAreHarmless == Spec => []OwnedBuffersStay
<1>1. IInv => OwnedBuffersStay
  BY DEF IInv
<1> QED
  BY <1>1, FfiInvariance, PTL

(* No payload is lost, and none is refused because its address is taken.   *)
THEOREM NoPayloadIsLost == Spec => []HeapIsAccounted
<1>1. IInv => HeapIsAccounted
  BY DEF IInv
<1> QED
  BY <1>1, FfiInvariance, PTL

=============================================================================
