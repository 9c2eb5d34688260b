------------------------- MODULE NativeRuntimeProofs -------------------------
(***************************************************************************)
(* Theorems of NativeRuntime, for any number of mounts: nothing leaks, and *)
(* a boot that found nothing else at work has its server while it is       *)
(* mounted.                                                                *)
(***************************************************************************)
EXTENDS NativeRuntime, TLAPS

(* While a mount whose start was calm is on the screen no other can act:   *)
(* a new one would have to be mounted.                                     *)
CalmStaysAlone ==
    \A m \in calm :
        /\ phase[m] \in {"reading", "ready", "failed", "gone"}
        /\ mounted = m => Alone(m)

(* From the first native call to its last a boot has its object.           *)
BootsHaveObjects ==
    \A m \in Mounts : phase[m] \in {"cleared", "reading"} => m \in object

IInv == TypeOK /\ NothingLeaks /\ SoleBootIsServed /\ CalmStaysAlone /\ BootsHaveObjects

-----------------------------------------------------------------------------
LEMMA InitHolds == Init => IInv
  BY RuntimeAssumption
  DEF RuntimeAssumption, Init, IInv, TypeOK, NothingLeaks, SoleBootIsServed, CalmStaysAlone,
      BootsHaveObjects, Phases, Mounts

(* No mount is Nobody.                                                     *)
LEMMA MountsAreSomebody == Nobody \notin Mounts
  BY RuntimeAssumption DEF RuntimeAssumption, Mounts

LEMMA MountKeeps ==
    ASSUME IInv, NEW m \in Mounts, Mount(m)
    PROVE  IInv'
  BY MountsAreSomebody
  DEF Mount, Becomes, IInv, TypeOK, NothingLeaks, SoleBootIsServed, CalmStaysAlone,
      BootsHaveObjects, Phases

LEMMA UnmountKeeps ==
    ASSUME IInv, Unmount
    PROVE  IInv'
  BY MountsAreSomebody
  DEF Unmount, IInv, TypeOK, NothingLeaks, SoleBootIsServed, CalmStaysAlone,
      BootsHaveObjects

(* A boot ends, of a mount that has no server of its own: it acts on       *)
(* nothing any more.                                                       *)
LEMMA EndKeeps ==
    ASSUME IInv, NEW m \in Mounts, NEW p \in {"failed", "gone"},
           Booting(m), Becomes(m, p), UNCHANGED << mounted, object, routers, calm >>,
           \/ UNCHANGED server /\ (server = m => p = "gone")
           \/ server' = Nobody /\ phase[m] = "reading"
    PROVE  IInv'
<1>1. \A r \in Mounts : phase'[r] = IF r = m THEN p ELSE phase[r]
  BY DEF Becomes, IInv, TypeOK
<1>2. TypeOK'
  BY DEF Becomes, IInv, TypeOK, Phases
<1>3. m \notin routers
  BY DEF IInv, NothingLeaks, Booting
<1>4. NothingLeaks'
  BY <1>1, <1>3, MountsAreSomebody DEF IInv, TypeOK, NothingLeaks
<1>5. CalmStaysAlone'
  BY <1>1 DEF IInv, TypeOK, CalmStaysAlone, Alone, Booting
<1>6. SoleBootIsServed'
  BY <1>1, <1>5 DEF IInv, TypeOK, SoleBootIsServed, CalmStaysAlone, Alone, Booting
<1>7. BootsHaveObjects'
  BY <1>1 DEF IInv, BootsHaveObjects
<1> QED
  BY <1>2, <1>4, <1>5, <1>6, <1>7 DEF IInv

LEMMA PrepareFailsKeeps ==
    ASSUME IInv, NEW m \in Mounts, PrepareFails(m)
    PROVE  IInv'
<1>1. server # m
  BY MountsAreSomebody DEF PrepareFails, IInv, NothingLeaks
<1> QED
  BY <1>1, EndKeeps DEF PrepareFails, Booting

LEMMA StartFailsKeeps ==
    ASSUME IInv, NEW m \in Mounts, StartFails(m)
    PROVE  IInv'
<1>1. server # m
  BY MountsAreSomebody DEF StartFails, IInv, NothingLeaks
<1> QED
  BY <1>1, EndKeeps DEF StartFails, Booting

LEMMA LoadFailsKeeps ==
    ASSUME IInv, NEW m \in Mounts, LoadFails(m)
    PROVE  IInv'
  BY EndKeeps DEF LoadFails, ServerAfterFailure, Booting

LEMMA TearDownKeeps ==
    ASSUME IInv, NEW m \in Mounts, TearDown(m)
    PROVE  IInv'
  BY EndKeeps DEF TearDown

LEMMA ClearKeeps ==
    ASSUME IInv, NEW m \in Mounts, Clear(m)
    PROVE  IInv'
<1>1. /\ phase[m] = "preparing" /\ object' = object \cup {m} /\ server' = Nobody
      /\ UNCHANGED << mounted, routers, calm >>
      /\ phase' = [phase EXCEPT ![m] = "cleared"]
  BY DEF Clear, Becomes
<1>2. \A r \in Mounts : phase'[r] = IF r = m THEN "cleared" ELSE phase[r]
  BY <1>1 DEF IInv, TypeOK
<1>3. TypeOK'
  BY <1>1 DEF IInv, TypeOK, Phases
<1>4. NothingLeaks'
  BY <1>1, <1>2 DEF IInv, TypeOK, NothingLeaks
<1>5. \A r \in calm : r # m /\ mounted # r
  BY <1>1 DEF IInv, TypeOK, CalmStaysAlone, Alone, Booting
<1>6. CalmStaysAlone' /\ SoleBootIsServed'
  BY <1>1, <1>2, <1>5 DEF IInv, TypeOK, CalmStaysAlone, SoleBootIsServed
<1>7. BootsHaveObjects'
  BY <1>1, <1>2 DEF IInv, BootsHaveObjects
<1> QED
  BY <1>3, <1>4, <1>6, <1>7 DEF IInv

LEMMA StartTileServerKeeps ==
    ASSUME IInv, NEW m \in Mounts, StartTileServer(m)
    PROVE  IInv'
<1>1. /\ phase[m] = "cleared" /\ server = Nobody /\ server' = m
      /\ calm' = IF Alone(m) THEN calm \cup {m} ELSE calm
      /\ phase' = [phase EXCEPT ![m] = "reading"]
      /\ UNCHANGED << mounted, object, routers >>
  BY DEF StartTileServer, Becomes
<1>2. \A r \in Mounts : phase'[r] = IF r = m THEN "reading" ELSE phase[r]
  BY <1>1 DEF IInv, TypeOK
<1>3. m \in object
  BY <1>1 DEF IInv, BootsHaveObjects
<1>4. TypeOK'
  BY <1>1 DEF IInv, TypeOK, Phases
<1>5. NothingLeaks'
  BY <1>1, <1>2, <1>3 DEF IInv, TypeOK, NothingLeaks
<1>6. \A r \in calm : r # m /\ mounted # r
  BY <1>1 DEF IInv, TypeOK, CalmStaysAlone, Alone, Booting
<1>7. Alone(m) => Alone(m)'
  BY <1>1, <1>2 DEF Alone, Booting
<1>8. CalmStaysAlone' /\ SoleBootIsServed'
  BY <1>1, <1>2, <1>6, <1>7 DEF IInv, TypeOK, CalmStaysAlone, SoleBootIsServed
<1>9. BootsHaveObjects'
  BY <1>1, <1>2 DEF IInv, BootsHaveObjects
<1> QED
  BY <1>4, <1>5, <1>8, <1>9 DEF IInv

LEMMA LoadPackKeeps ==
    ASSUME IInv, NEW m \in Mounts, LoadPack(m)
    PROVE  IInv'
<1>1. /\ phase[m] = "reading" /\ routers' = routers \cup {m}
      /\ phase' = [phase EXCEPT ![m] = "ready"]
      /\ UNCHANGED << mounted, object, server, calm >>
  BY DEF LoadPack, ServerAfterLoad, Becomes
<1>2. \A r \in Mounts : phase'[r] = IF r = m THEN "ready" ELSE phase[r]
  BY <1>1 DEF IInv, TypeOK
<1>3. m \in object
  BY <1>1 DEF IInv, BootsHaveObjects
<1>4. TypeOK'
  BY <1>1, <1>3 DEF IInv, TypeOK, Phases
<1>5. NothingLeaks'
  BY <1>1, <1>2, <1>3 DEF IInv, TypeOK, NothingLeaks
<1>6. CalmStaysAlone'
  BY <1>1, <1>2 DEF IInv, TypeOK, CalmStaysAlone, Alone, Booting
<1>7. SoleBootIsServed'
  BY <1>1, <1>2 DEF IInv, TypeOK, SoleBootIsServed
<1>8. BootsHaveObjects'
  BY <1>1, <1>2 DEF IInv, BootsHaveObjects
<1> QED
  BY <1>4, <1>5, <1>6, <1>7, <1>8 DEF IInv

LEMMA DestroyKeeps ==
    ASSUME IInv, NEW m \in Mounts, Destroy(m)
    PROVE  IInv'
<1>1. /\ m \in object /\ phase[m] \in {"ready", "failed", "gone"}
      /\ phase[m] = "ready" => mounted # m
      /\ object' = object \ {m} /\ routers' = routers \ {m} /\ server' = Nobody
      /\ UNCHANGED << phase, mounted, calm >>
  BY DEF Destroy
<1>2. TypeOK' /\ NothingLeaks' /\ BootsHaveObjects'
  BY <1>1 DEF IInv, TypeOK, NothingLeaks, BootsHaveObjects
<1>3. CalmStaysAlone'
  BY <1>1 DEF IInv, CalmStaysAlone, Alone, Booting
<1>4. \A r \in calm \ {m} : mounted # r
  BY <1>1 DEF IInv, TypeOK, CalmStaysAlone, Alone
<1>5. SoleBootIsServed'
  BY <1>1, <1>4 DEF IInv, SoleBootIsServed
<1> QED
  BY <1>2, <1>3, <1>5 DEF IInv

LEMMA StepKeeps == IInv /\ [Next]_vars => IInv'
<1> SUFFICES ASSUME IInv, [Next]_vars
             PROVE  IInv'
  OBVIOUS
<1>1. CASE Unmount
  BY <1>1, UnmountKeeps
<1>2. ASSUME NEW m \in Mounts,
             \/ Mount(m) \/ PrepareFails(m) \/ Clear(m)
             \/ StartTileServer(m) \/ StartFails(m)
             \/ LoadPack(m) \/ LoadFails(m)
             \/ TearDown(m) \/ Destroy(m)
      PROVE  IInv'
  BY <1>2, MountKeeps, PrepareFailsKeeps, ClearKeeps, StartTileServerKeeps, StartFailsKeeps,
     LoadPackKeeps, LoadFailsKeeps, TearDownKeeps, DestroyKeeps
<1>3. CASE UNCHANGED vars
  BY <1>3 DEF vars, IInv, TypeOK, NothingLeaks, SoleBootIsServed, CalmStaysAlone,
     BootsHaveObjects, Alone, Booting
<1> QED
  BY <1>1, <1>2, <1>3 DEF Next

(* The inductive invariant holds in every reachable state.                 *)
THEOREM RuntimeInvariance == Spec => []IInv
  BY InitHolds, StepKeeps, PTL DEF Spec

(* However boots, failures and ends of any number of mounts interleave, no *)
(* server and no router outlives what will stop or free it.                *)
THEOREM RuntimeLeaksNothing == Spec => []NothingLeaks
<1>1. IInv => NothingLeaks
  BY DEF IInv
<1> QED
  BY <1>1, RuntimeInvariance, PTL

(* A boot that found nothing else at work keeps its server and its router. *)
THEOREM SoleBootKeepsItsServer == Spec => []SoleBootIsServed
<1>1. IInv => SoleBootIsServed
  BY DEF IInv
<1> QED
  BY <1>1, RuntimeInvariance, PTL

=============================================================================
