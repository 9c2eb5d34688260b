---------------------------- MODULE NativeRuntime ----------------------------
(***************************************************************************)
(* The local runtime of the phone: each mount of the app boots a router    *)
(* object and the tile server of the process (apps/mobile/src/             *)
(* offlineLifecycle.ts over packages/offline-router and                    *)
(* crates/tile-server-lite).                                               *)
(*                                                                         *)
(* The server belongs to the process: whoever stops it stops it for all.   *)
(* A boot goes on after its mount is gone, and its object is destroyed     *)
(* whenever the garbage collector, or the end of its JavaScript runtime,   *)
(* comes to it.  Mounts may be of several runtimes, an old one of which    *)
(* is still on its way down, so their native calls interleave.  What the   *)
(* server answers is left out, and so is how the registry of routers finds *)
(* handles (RoutingFfi): a router goes by its mount.                       *)
(***************************************************************************)
EXTENDS Integers, FiniteSets

CONSTANTS MaxMounts, Nobody

ASSUME RuntimeAssumption == MaxMounts \in Nat /\ Nobody \notin Nat

Mounts == 1..MaxMounts

Phases == {"absent", "preparing", "cleared", "reading", "ready", "failed", "gone"}

VARIABLES
    phase,      \* of each mount's boot
    mounted,    \* the mount on the screen, or Nobody
    object,     \* the mounts whose HybridOfflineRouterNative exists
    routers,    \* ROUTERS: the mounts whose object holds a handle
    server,     \* FFI_SERVER: the mount that started it, or Nobody
    calm        \* history: mounts that started it with no other at work

vars == << phase, mounted, object, routers, server, calm >>

Booting(m) == phase[m] \in {"preparing", "cleared", "reading"}

(* Nothing is left of the other mounts that could still act.               *)
Alone(m) == \A r \in Mounts \ {m} : ~Booting(r) /\ r \notin object

-----------------------------------------------------------------------------
Init ==
    /\ phase = [m \in Mounts |-> "absent"]
    /\ mounted = Nobody
    /\ object = {} /\ routers = {}
    /\ server = Nobody
    /\ calm = {}

Becomes(m, p) == phase' = [phase EXCEPT ![m] = p]

(* The effect of App runs: prepareOfflineFixture begins.                   *)
Mount(m) ==
    /\ mounted = Nobody
    /\ phase[m] = "absent" /\ \A r \in 1..(m - 1) : phase[r] # "absent"
    /\ mounted' = m
    /\ Becomes(m, "preparing")
    /\ UNCHANGED << object, routers, server, calm >>

(* Its clean-up sets cancelled: nothing is stopped.                        *)
Unmount ==
    /\ mounted # Nobody
    /\ mounted' = Nobody
    /\ UNCHANGED << phase, object, routers, server, calm >>

PrepareFails(m) ==
    /\ phase[m] = "preparing"
    /\ Becomes(m, "failed")
    /\ UNCHANGED << mounted, object, routers, server, calm >>

(* The assets are there, whether or not the mount still is: the object is  *)
(* created, and startOfflineRuntime stops the server.                      *)
Clear(m) ==
    /\ phase[m] = "preparing"
    /\ object' = object \cup {m}
    /\ server' = Nobody
    /\ Becomes(m, "cleared")
    /\ UNCHANGED << mounted, routers, calm >>

(* offline_tiles_start: the server is bound, and kept if there is none.    *)
StartTileServer(m) ==
    /\ phase[m] = "cleared" /\ server = Nobody
    /\ server' = m
    /\ calm' = IF Alone(m) THEN calm \cup {m} ELSE calm
    /\ Becomes(m, "reading")
    /\ UNCHANGED << mounted, object, routers >>

(* It cannot be bound, or there is one already: the boot throws, outside   *)
(* of its try.                                                             *)
StartFails(m) ==
    /\ phase[m] = "cleared"
    /\ Becomes(m, "failed")
    /\ UNCHANGED << mounted, object, routers, server, calm >>

SlipStopsInFinally(m) == Nobody

(* What a boot that loaded its pack leaves of the server                   *)
ServerAfterLoad(m) == server

(* The pack is read and loaded: the first of its object, so there is no    *)
(* handle to free.  A mount that is still there keeps the object from now  *)
(* on, one that is not drops it.                                           *)
LoadPack(m) ==
    /\ phase[m] = "reading"
    /\ routers' = routers \cup {m}
    /\ server' = ServerAfterLoad(m)
    /\ Becomes(m, "ready")
    /\ UNCHANGED << mounted, object, calm >>

SlipForgetsToStop(m) == server

(* And a boot that could not                                               *)
ServerAfterFailure(m) == Nobody

(* The pack cannot be read, or is rejected.                                *)
LoadFails(m) ==
    /\ phase[m] = "reading"
    /\ server' = ServerAfterFailure(m)
    /\ Becomes(m, "failed")
    /\ UNCHANGED << mounted, object, routers, calm >>

(* The runtime of a mount ends amid a boot, which never goes on.           *)
TearDown(m) ==
    /\ Booting(m) /\ mounted # m
    /\ Becomes(m, "gone")
    /\ UNCHANGED << mounted, object, routers, server, calm >>

(* ~HybridOfflineRouterNative: nothing refers to the object any more.  It  *)
(* stops the server, whoever started it.                                   *)
Destroy(m) ==
    /\ m \in object
    /\ phase[m] \in {"ready", "failed", "gone"}
    /\ phase[m] = "ready" => mounted # m
    /\ object' = object \ {m}
    /\ routers' = routers \ {m}
    /\ server' = Nobody
    /\ UNCHANGED << phase, mounted, calm >>

Next ==
    \/ Unmount
    \/ \E m \in Mounts :
         \/ Mount(m) \/ PrepareFails(m) \/ Clear(m)
         \/ StartTileServer(m) \/ StartFails(m)
         \/ LoadPack(m) \/ LoadFails(m)
         \/ TearDown(m) \/ Destroy(m)

Spec == Init /\ [][Next]_vars

-----------------------------------------------------------------------------
(* The variables keep their types, and objects exist from the stop on.     *)
TypeOK ==
    /\ phase \in [Mounts -> Phases]
    /\ mounted \in Mounts \cup {Nobody}
    /\ object \subseteq Mounts
    /\ routers \subseteq object
    /\ server \in Mounts \cup {Nobody}
    /\ calm \subseteq Mounts

(* A boot that failed leaves no server, as offlineLifecycle.ts says, and   *)
(* no router; nor does an object that is destroyed.  Whatever runs has an  *)
(* object whose end will stop it, whichever boots and ends came between.   *)
NothingLeaks ==
    /\ server # Nobody => server \in object /\ phase[server] \in {"reading", "ready", "gone"}
    /\ \A m \in routers : m \in object /\ phase[m] = "ready"

(* A boot that found no other at work, and no object of one, keeps its     *)
(* server, and its router once it is ready, as long as it is mounted.  The *)
(* property is about these: one that overlaps with an older mount's boot,  *)
(* or with the end of its object, may lose the server to it.               *)
SoleBootIsServed ==
    \A m \in calm :
        /\ mounted = m /\ phase[m] \in {"reading", "ready"} => server = m
        /\ mounted = m /\ phase[m] = "ready" => m \in routers

=============================================================================
