----------------------------- MODULE RoutingFfi -----------------------------
(***************************************************************************)
(* The C ABI of the router (crates/cch-routing-lite-ffi): a registry of    *)
(* routers under handles, a registry of the answers the caller owns under  *)
(* their addresses, and calls of several threads that hold a registry's    *)
(* lock only while they look something up or enter it.                     *)
(*                                                                         *)
(* The caller may pass any handle, freed ones and guesses included, and    *)
(* may copy the RoutingBuffer values it is given.  As the contract says,   *)
(* it leaves the storage of a call alone while the call is under way.      *)
(* Null arguments are refused without an effect and left out; so are the   *)
(* status of each thread's last load, and counters of 2^64 running over.   *)
(***************************************************************************)
EXTENDS Integers, FiniteSets

CONSTANTS
    Threads,
    Packs,         \* bytes that are a valid pack; others are refused
    Slots,         \* the caller's RoutingBuffer storage
    Addresses,     \* what the allocator gives
    MaxControls,   \* of a request
    MaxHandle, MaxToken,
    Idle,          \* no call
    Empty          \* RoutingBuffer::default()

Counts == 0..(MaxControls + 1)

Call ==
    [op : {"load"}, pack : Packs, handle : Nat]
      \cup [op : {"route", "benchmark"}, pack : Packs, out : Slots]
      \cup [op : {"write"}, pack : Packs, out : Slots, ptr : Addresses, token : Nat]

Buffer == [ptr : Addresses, token : Nat]
Entry  == [token : Nat, pack : Packs]

ASSUME FfiAssumption ==
    /\ MaxControls \in Nat /\ MaxHandle \in Nat /\ MaxToken \in Nat
    /\ Idle \notin Call /\ Empty \notin Buffer

VARIABLES
    routers,       \* ROUTERS: handle to entry, of which the pack is kept
    nextHandle,    \* NEXT_HANDLE
    buffers,       \* BUFFERS: address to entry
    nextToken,     \* NEXT_BUFFER_TOKEN
    heap,          \* the addresses of payloads that are allocated
    call,          \* of each thread
    slot,          \* the value in each storage
    given,         \* history: the pack of each handle that was returned
    freed,         \* history: the handles that were freed
    released       \* history: the tokens passed to routing_buffer_free

vars == << routers, nextHandle, buffers, nextToken, heap, call, slot, given, freed, released >>

-----------------------------------------------------------------------------
Put(f, key, value) == [k \in DOMAIN f \cup {key} |-> IF k = key THEN value ELSE f[k]]

Drop(f, key) == [k \in DOMAIN f \ {key} |-> f[k]]

InUse(s) == \E t \in Threads : call[t] # Idle /\ call[t].op # "load" /\ call[t].out = s

Init ==
    /\ routers = <<>> /\ nextHandle = 1
    /\ buffers = <<>> /\ nextToken = 1
    /\ heap = {}
    /\ call = [t \in Threads |-> Idle]
    /\ slot = [s \in Slots |-> Empty]
    /\ given = <<>> /\ freed = {} /\ released = {}

SlipLeastHandle ==
    CHOOSE h \in 1..nextHandle : h \notin DOMAIN routers /\ 1..(h - 1) \subseteq DOMAIN routers

(* fetch_add of a counter gives what it was.                               *)
NewHandle == nextHandle

(* routing_router_load: the pack is parsed and has a handle, which         *)
(* DrawHandle takes from the counter and Register enters.                  *)
DrawHandle(t, p) ==
    /\ call[t] = Idle /\ nextHandle <= MaxHandle
    /\ call' = [call EXCEPT ![t] = [op |-> "load", pack |-> p, handle |-> NewHandle]]
    /\ nextHandle' = nextHandle + 1
    /\ UNCHANGED << routers, buffers, nextToken, heap, slot, given, freed, released >>

Register(t) ==
    /\ call[t] # Idle /\ call[t].op = "load"
    /\ routers' = Put(routers, call[t].handle, call[t].pack)
    /\ given' = Put(given, call[t].handle, call[t].pack)
    /\ call' = [call EXCEPT ![t] = Idle]
    /\ UNCHANGED << nextHandle, buffers, nextToken, heap, slot, freed, released >>

(* routing_router_free, under the lock; calls under way keep their entry.  *)
FreeRouter(h) ==
    /\ routers' = Drop(routers, h)
    /\ freed' = freed \cup ({h} \cap DOMAIN given)
    /\ UNCHANGED << nextHandle, buffers, nextToken, heap, call, slot, given, released >>

-----------------------------------------------------------------------------
(* A call up to the unlock: it takes its own reference to the entry.       *)
Begin(t, h, s, op) ==
    /\ call[t] = Idle /\ ~InUse(s)
    /\ h \in DOMAIN routers
    /\ call' = [call EXCEPT ![t] = [op |-> op, pack |-> routers[h], out |-> s]]
    /\ UNCHANGED << routers, nextHandle, buffers, nextToken, heap, slot, given, freed, released >>

Route(t, h, s) == Begin(t, h, s, "route")

RouteMany(t, h, s, count) == count \in 2..MaxControls /\ Begin(t, h, s, "route")

Benchmark(t, h, s) == Begin(t, h, s, "benchmark")

(* The call ends without a buffer: there is no route, or the storage was   *)
(* not empty.                                                              *)
Refuse(t) ==
    /\ call[t] # Idle
    /\ \/ call[t].op = "route"
       \/ call[t].op = "benchmark" /\ slot[call[t].out] # Empty
    /\ call' = [call EXCEPT ![t] = Idle]
    /\ UNCHANGED << routers, nextHandle, buffers, nextToken, heap, slot, given, freed, released >>

(* write_owned_buffer up to its lock: the payload is on the heap.          *)
Allocate(t) ==
    /\ call[t] # Idle /\ call[t].op \in {"route", "benchmark"}
    /\ slot[call[t].out] = Empty
    /\ nextToken <= MaxToken
    /\ \E a \in Addresses \ heap :
         /\ heap' = heap \cup {a}
         /\ call' = [call EXCEPT ![t] = [ op |-> "write", pack |-> call[t].pack,
                                          out |-> call[t].out, ptr |-> a, token |-> nextToken ]]
    /\ nextToken' = nextToken + 1
    /\ UNCHANGED << routers, nextHandle, buffers, slot, given, freed, released >>

(* The rest of it; an address that is registered ends the call with        *)
(* ROUTING_ERR_INTERNAL and drops the payload.                             *)
Write(t) ==
    /\ call[t] # Idle /\ call[t].op = "write"
    /\ LET c == call[t]
       IN  IF c.ptr \in DOMAIN buffers
           THEN heap' = heap \ {c.ptr} /\ UNCHANGED << buffers, slot >>
           ELSE /\ buffers' = Put(buffers, c.ptr, [token |-> c.token, pack |-> c.pack])
                /\ slot' = [slot EXCEPT ![c.out] = [ptr |-> c.ptr, token |-> c.token]]
                /\ UNCHANGED heap
    /\ call' = [call EXCEPT ![t] = Idle]
    /\ UNCHANGED << routers, nextHandle, nextToken, given, freed, released >>

SlipAnyGeneration(b) == b.ptr \in DOMAIN buffers

(* The value names what is at its address now, not what was there before.  *)
OwnsGeneration(b) == b.ptr \in DOMAIN buffers /\ buffers[b.ptr].token = b.token

SlipForgetsPayload(b) == heap

(* Removing the entry drops its payload.                                   *)
HeapWithout(b) == heap \ {b.ptr}

(* routing_buffer_free, under the lock                                     *)
FreeBuffer(s) ==
    /\ ~InUse(s) /\ slot[s] # Empty
    /\ IF OwnsGeneration(slot[s])
       THEN buffers' = Drop(buffers, slot[s].ptr) /\ heap' = HeapWithout(slot[s])
       ELSE UNCHANGED << buffers, heap >>
    /\ slot' = [slot EXCEPT ![s] = Empty]
    /\ released' = released \cup {slot[s].token}
    /\ UNCHANGED << routers, nextHandle, nextToken, call, given, freed >>

(* The caller copies a value, or clears its storage and forgets one.       *)
CopyBuffer(s, value) ==
    /\ ~InUse(s)
    /\ slot' = [slot EXCEPT ![s] = value]
    /\ UNCHANGED << routers, nextHandle, buffers, nextToken, heap, call, given, freed, released >>

Next ==
    \/ \E t \in Threads, p \in Packs : DrawHandle(t, p)
    \/ \E h \in 1..nextHandle : FreeRouter(h)
    \/ \E t \in Threads, h \in 1..nextHandle, s \in Slots :
         \/ Route(t, h, s) \/ Benchmark(t, h, s)
         \/ \E count \in Counts : RouteMany(t, h, s, count)
    \/ \E t \in Threads : Register(t) \/ Refuse(t) \/ Allocate(t) \/ Write(t)
    \/ \E s \in Slots :
         \/ FreeBuffer(s)
         \/ \E from \in Slots : CopyBuffer(s, slot[from])
         \/ CopyBuffer(s, Empty)

Spec == Init /\ [][Next]_vars

-----------------------------------------------------------------------------
Writing == { t \in Threads : call[t] # Idle /\ call[t].op = "write" }

(* The variables keep their types, and counters are ahead of what they     *)
(* gave.                                                                   *)
TypeOK ==
    /\ DOMAIN routers \subseteq 1..(nextHandle - 1) /\ nextHandle \in Nat \ {0}
    /\ \A h \in DOMAIN routers : routers[h] \in Packs
    /\ DOMAIN buffers \subseteq Addresses /\ nextToken \in Nat \ {0}
    /\ \A a \in DOMAIN buffers : buffers[a] \in Entry
    /\ heap \subseteq Addresses
    /\ call \in [Threads -> Call \cup {Idle}]
    /\ slot \in [Slots -> Buffer \cup {Empty}]
    /\ DOMAIN given \subseteq 1..(nextHandle - 1) /\ freed \subseteq DOMAIN given
    /\ released \subseteq 1..(nextToken - 1)

(* A handle that was returned names the pack it was returned for until it  *)
(* is freed, and nothing ever after, whoever frees or loads meanwhile.     *)
HandlesNameOnePack ==
    /\ DOMAIN routers = DOMAIN given \ freed
    /\ \A h \in DOMAIN routers : routers[h] = given[h]

(* A value the caller holds owns the payload at its address until it, or a *)
(* copy of it, is freed, and nothing from then on.  Freeing stale values   *)
(* of the same address, any number of times, takes nothing from it.        *)
OwnedBuffersStay ==
    \A s \in Slots : slot[s] # Empty =>
        (OwnsGeneration(slot[s]) <=> slot[s].token \notin released)

(* What is registered is allocated; every payload is either registered or  *)
(* held by one call that is about to register it, so that no call ends     *)
(* with an internal error and no payload is lost.                          *)
HeapIsAccounted ==
    /\ DOMAIN buffers \subseteq heap
    /\ \A a \in heap : a \in DOMAIN buffers \/ \E t \in Writing : call[t].ptr = a
    /\ \A t \in Writing : call[t].ptr \in heap \ DOMAIN buffers
    /\ \A t, u \in Writing : call[t].ptr = call[u].ptr => t = u

=============================================================================
