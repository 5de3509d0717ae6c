------------------------- MODULE FailoverSyncProofs -------------------------
(* Theorems about FailoverSync, for any two clusters and any bounds. *)
EXTENDS FailoverSync, TLAPS

LEMMA OtherCluster ==
    ASSUME NEW c \in Cluster
    PROVE  Other(c) \in Cluster /\ Other(c) # c
  <1>1. \E d \in Cluster : d # c
    BY ClusterAssumption
  <1> QED BY <1>1 DEF Other

-----------------------------------------------------------------------------
(* Type correctness *)

LEMMA NewObjectTyped == NewObject \in FailoverService
  BY DEF NewObject, FailoverService, Direction

LEMMA OppositeTyped == \A d \in Direction : Opposite(d) \in Direction
  BY DEF Opposite, Direction

LEMMA DispatchTyped ==
    ASSUME TypeOK, NEW fs \in FailoverService
    PROVE  /\ Dispatch(fs).pc \in {"read", "write"}
           /\ Dispatch(fs).fs \in FailoverService
  <1>1. clock \in Nat
    BY SyncBoundAssumption DEF TypeOK
  <1>2. CASE InFlight(fs)
    <2>0. fs.tr \in Direction /\ fs.gen + 1 \in Nat
      BY <1>2 DEF FailoverService, InFlight
    <2>1. Completed(fs) \in FailoverService
      BY <2>0 DEF Completed, FailoverService
    <2> QED BY <1>2, <2>1 DEF Dispatch
  <1>3. CASE ~InFlight(fs) /\ fs.last \notin {"unset", fs.active}
    <2>1. Begun(fs, clock) \in FailoverService
      BY <1>1 DEF Begun, FailoverService
    <2> QED BY <1>3, <2>1 DEF Dispatch
  <1>4. CASE ~InFlight(fs) /\ fs.last \in {"unset", fs.active}
    <2>1. Steady(fs) \in FailoverService
      BY DEF Steady, FailoverService
    <2> QED BY <1>4, <2>1 DEF Dispatch
  <1> QED BY <1>2, <1>3, <1>4

LEMMA AdoptedTyped ==
    ASSUME NEW fs \in FailoverService, NEW remote \in FailoverService,
           NEW was \in Direction \cup {"unset"}
    PROVE  Adopted(fs, remote, was) \in FailoverService
  BY DEF Adopted, FailoverService

LEMMA ReconcileTyped ==
    ASSUME TypeOK, NEW c \in Cluster
    PROVE  /\ rec[c] \in Reconcile /\ rec[c].fs \in FailoverService
           /\ rec[c].seen \in FailoverService /\ rec[c].fs.last \in Direction \cup {"unset"}
           /\ obj[c] \in FailoverService /\ cache[c] \in FailoverService
  BY DEF TypeOK, Reconcile, FailoverService

LEMMA NoReconcileTyped == NoReconcile \in Reconcile
  BY NewObjectTyped DEF NoReconcile, Reconcile, PCs

LEMMA TypeInit == Init => TypeOK
  BY NewObjectTyped, NoReconcileTyped, SyncBoundAssumption, ClusterAssumption
  DEF Init, TypeOK, Direction

LEMMA CountRaceTyped ==
    ASSUME TypeOK, NEW c \in Cluster, CountRace(c)
    PROVE  races' \in 0..MaxRaces
  BY SyncBoundAssumption DEF TypeOK, CountRace

LEMMA TypeStep == TypeOK /\ [Next]_vars => TypeOK'
  <1> SUFFICES ASSUME TypeOK, [Next]_vars PROVE TypeOK'
    OBVIOUS
  <1> USE SyncBoundAssumption
  <1>1. ASSUME NEW c \in Cluster, StartReconcile(c) PROVE TypeOK'
    <2>1. Dispatch(cache[c]).pc \in PCs /\ Dispatch(cache[c]).fs \in FailoverService
      BY DispatchTyped, ReconcileTyped DEF PCs
    <2>2. rec' \in [Cluster -> Reconcile]
      BY <1>1, <2>1, NewObjectTyped DEF StartReconcile, TypeOK, Reconcile
    <2> QED BY <1>1, <2>2, CountRaceTyped DEF StartReconcile, TypeOK, environment
  <1>2. ASSUME NEW c \in Cluster, StampClusterID(c) PROVE TypeOK'
    <2> DEFINE fs == [obj[c] EXCEPT !.id = ClusterID[c]]
    <2>1. fs \in FailoverService
      <3>1. ClusterID[c] \in Nat
        BY ClusterAssumption
      <3> QED BY <3>1, ReconcileTyped DEF FailoverService
    <2>2. Dispatch(fs).pc \in PCs /\ Dispatch(fs).fs \in FailoverService
      BY <2>1, DispatchTyped DEF PCs
    <2>3. obj' = [obj EXCEPT ![c] = fs]
          /\ rec' = [rec EXCEPT ![c] = [pc |-> Dispatch(fs).pc, fs |-> Dispatch(fs).fs,
                                        seen |-> NewObject, fresh |-> TRUE]]
      BY <1>2 DEF StampClusterID
    <2> HIDE DEF fs
    <2>4. rec' \in [Cluster -> Reconcile]
      BY <2>3, <2>2, NewObjectTyped DEF TypeOK, Reconcile
    <2> QED BY <1>2, <2>1, <2>3, <2>4, CountRaceTyped DEF StampClusterID, TypeOK, environment
  <1>3. ASSUME NEW c \in Cluster, SyncRead(c) PROVE TypeOK'
    <2>0. PICK pc \in PCs, seen \in FailoverService :
              rec' = [rec EXCEPT ![c].pc = pc, ![c].seen = seen]
      BY <1>3, NewObjectTyped, OtherCluster, ReconcileTyped DEF SyncRead, PCs
    <2>1. rec' \in [Cluster -> Reconcile]
      BY <2>0 DEF TypeOK, Reconcile
    <2> QED BY <1>3, <2>1 DEF SyncRead, TypeOK, environment
  <1>4. ASSUME NEW c \in Cluster, SyncPush(c) PROVE TypeOK'
    <2>1. Other(c) \in Cluster /\ rec[c].fs.active \in Direction
      BY OtherCluster, ReconcileTyped DEF FailoverService
    <2>5. [obj[Other(c)] EXCEPT !.active = rec[c].fs.active] \in FailoverService
      BY <2>1, ReconcileTyped DEF FailoverService
    <2>6. obj' = [obj EXCEPT ![Other(c)] = [obj[Other(c)] EXCEPT !.active = rec[c].fs.active]]
      BY <1>4 DEF SyncPush
    <2>2. obj' \in [Cluster -> FailoverService]
      BY <2>1, <2>5, <2>6 DEF TypeOK
    <2>4. PICK f \in BOOLEAN : rec' = [rec EXCEPT ![c].pc = "write", ![Other(c)].fresh = f]
      <3> DEFINE f == rec[Other(c)].fresh /\ obj[Other(c)].active = rec[c].fs.active
      <3>1. f \in BOOLEAN /\ rec' = [rec EXCEPT ![c].pc = "write", ![Other(c)].fresh = f]
        BY <1>4, OtherCluster DEF SyncPush
      <3> HIDE DEF f
      <3> QED BY <3>1
    <2>3. rec' \in [Cluster -> Reconcile]
      <3>1. "write" \in PCs
        BY DEF PCs
      <3> QED BY <2>1, <2>4, <3>1, OtherCluster DEF TypeOK, Reconcile
    <2> QED BY <1>4, <2>2, <2>3 DEF SyncPush, TypeOK, environment
  <1>5. ASSUME NEW c \in Cluster, SyncFail(c) PROVE TypeOK'
    <2>1. rec' \in [Cluster -> Reconcile]
      BY <1>5, ReconcileTyped DEF SyncFail, TypeOK, Goto, Reconcile, PCs
    <2>2. faults' \in 0..MaxFaults
      BY <1>5 DEF SyncFail, TypeOK
    <2> QED BY <1>5, <2>1, <2>2 DEF SyncFail, TypeOK, environment
  <1>6. ASSUME NEW c \in Cluster, AdoptSpec(c) PROVE TypeOK'
    <2>1. Adopted(obj[c], rec[c].seen, rec[c].fs.last) \in FailoverService
      BY AdoptedTyped, ReconcileTyped
    <2>2. rec' \in [Cluster -> Reconcile]
      BY <1>6, <2>1 DEF AdoptSpec, Goto, TypeOK, Reconcile, PCs
    <2>0. rec[c].seen.active \in Direction
      BY ReconcileTyped DEF FailoverService
    <2>3. obj' \in [Cluster -> FailoverService]
      BY <1>6, <2>0 DEF AdoptSpec, TypeOK, FailoverService
    <2> QED BY <1>6, <2>2, <2>3 DEF AdoptSpec, TypeOK, environment
  <1>7. ASSUME NEW c \in Cluster, AdoptStatus(c) PROVE TypeOK'
    <2>1. rec' \in [Cluster -> Reconcile]
      BY <1>7, ReconcileTyped, NoReconcileTyped
      DEF AdoptStatus, Goto, Return, TypeOK, Reconcile, PCs
    <2> QED BY <1>7, <2>1, ReconcileTyped DEF AdoptStatus, TypeOK, environment
  <1>8. ASSUME NEW c \in Cluster, BeginRemoteSync(c) PROVE TypeOK'
    <2>1. obj' \in [Cluster -> FailoverService]
      BY <1>8 DEF BeginRemoteSync, TypeOK, FailoverService
    <2>2. rec' \in [Cluster -> Reconcile]
      BY <1>8, NoReconcileTyped DEF BeginRemoteSync, Return, TypeOK
    <2> QED BY <1>8, <2>1, <2>2 DEF BeginRemoteSync, TypeOK, environment
  <1>9. ASSUME NEW c \in Cluster, WriteStatus(c) PROVE TypeOK'
    <2>1. rec' \in [Cluster -> Reconcile]
      BY <1>9, NoReconcileTyped DEF WriteStatus, Return, TypeOK
    <2> QED BY <1>9, <2>1, ReconcileTyped DEF WriteStatus, TypeOK, environment
  <1>10. ASSUME NEW c \in Cluster, Conflict(c) \/ Abort(c) PROVE TypeOK'
    <2>1. rec' \in [Cluster -> Reconcile]
      BY <1>10, NoReconcileTyped DEF Conflict, Abort, Return, TypeOK
    <2>2. faults' \in 0..MaxFaults
      BY <1>10 DEF Conflict, Abort, TypeOK
    <2> QED BY <1>10, <2>1, <2>2 DEF Conflict, Abort, TypeOK, environment
  <1>11. ASSUME NEW c \in Cluster, SyncCache(c) PROVE TypeOK'
    BY <1>11 DEF SyncCache, TypeOK, environment
  <1>12. ASSUME NEW c \in Cluster, OperatorFlip(c) PROVE TypeOK'
    <2>1. Opposite(obj[c].active) \in Direction
      BY OppositeTyped, ReconcileTyped DEF FailoverService
    <2>2. obj' \in [Cluster -> FailoverService]
      BY <1>12, <2>1 DEF OperatorFlip, TypeOK, FailoverService
    <2>3. rec' \in [Cluster -> Reconcile]
      BY <1>12 DEF OperatorFlip, TypeOK, Reconcile
    <2>4. calm' \in BOOLEAN
      BY <1>12 DEF OperatorFlip
    <2> QED BY <1>12, <2>1, <2>2, <2>3, <2>4 DEF OperatorFlip, TypeOK
  <1>13. ASSUME Tick PROVE TypeOK'
    BY <1>13 DEF Tick, TypeOK
  <1>14. ASSUME UNCHANGED vars PROVE TypeOK'
    BY <1>14 DEF vars, TypeOK
  <1> QED BY <1>1, <1>2, <1>3, <1>4, <1>5, <1>6, <1>7, <1>8, <1>9, <1>10, <1>11, <1>12, <1>13, <1>14
          DEF Next, ReconcileStep

\* Objects, copies and counters of both clusters keep their types in every
\* interleaving of the two controllers.
THEOREM SyncTypeCorrect == Spec => []TypeOK
  BY TypeInit, TypeStep, PTL DEF Spec
-----------------------------------------------------------------------------
(* Conflict resolution *)

\* Stamped objects carry the ID of their own cluster.
Stamped ==
    \A c \in Cluster : /\ obj[c].id \in {0, ClusterID[c]} /\ cache[c].id \in {0, ClusterID[c]}
                       /\ rec[c].fs.id \in {0, ClusterID[c]}

LEMMA WinnerUnique ==
    ASSUME NEW x \in FailoverService, NEW y \in FailoverService, x.id # y.id
    PROVE  RemoteWins(x, y) <=> ~RemoteWins(y, x)
  <1>1. /\ x.gen \in Nat /\ x.sct \in Nat /\ x.id \in Nat
        /\ y.gen \in Nat /\ y.sct \in Nat /\ y.id \in Nat
    BY DEF FailoverService
  <1> QED BY <1>1 DEF RemoteWins

-----------------------------------------------------------------------------
(* Generations *)

\* What a copy may do to the generation of the object it replaces.
Raises(old, new) == new.gen >= old.gen /\ (InFlight(old) /\ ~InFlight(new) => new.gen > old.gen)

\* A current copy is ahead of the stored object, and an object that is about to
\* be adopted is ahead of the copy.
CopyAhead ==
    \A c \in Cluster :
        /\ rec[c].pc \in {"read", "push", "write", "adopt", "adoptStatus"} /\ rec[c].fresh
               => Raises(obj[c], rec[c].fs)
        /\ rec[c].pc \in {"read", "push", "adopt"} => ~InFlight(rec[c].fs)
        /\ rec[c].pc = "adopt" => rec[c].seen.gen >= rec[c].fs.gen

LEMMA DispatchAhead ==
    ASSUME TypeOK, NEW fs \in FailoverService
    PROVE  /\ Raises(fs, Dispatch(fs).fs)
           /\ Dispatch(fs).pc = "read" => ~InFlight(Dispatch(fs).fs)
           /\ Dispatch(fs).fs.id = fs.id
  <1>1. fs.gen \in Nat /\ fs.active \in Direction
    BY DEF FailoverService
  <1>2. CASE InFlight(fs)
    <2>1. Completed(fs).gen = fs.gen + 1 /\ Completed(fs).tr = "none" /\ Completed(fs).id = fs.id
      BY DEF Completed, FailoverService
    <2>2. Dispatch(fs).fs = Completed(fs)
      BY <1>2 DEF Dispatch
    <2> QED BY <1>1, <2>1, <2>2 DEF Raises, InFlight
  <1>3. CASE ~InFlight(fs) /\ fs.last \notin {"unset", fs.active}
    <2>1. Begun(fs, clock).gen = fs.gen /\ Begun(fs, clock).id = fs.id
      BY DEF Begun, FailoverService
    <2>2. Dispatch(fs) = [pc |-> "write", fs |-> Begun(fs, clock)]
      BY <1>3 DEF Dispatch
    <2> QED BY <1>1, <1>3, <2>1, <2>2 DEF Raises
  <1>4. CASE ~InFlight(fs) /\ fs.last \in {"unset", fs.active}
    <2>1. Steady(fs).gen = fs.gen /\ Steady(fs).tr = fs.tr /\ Steady(fs).id = fs.id
      BY DEF Steady, FailoverService
    <2>2. Dispatch(fs).fs = Steady(fs)
      BY <1>4 DEF Dispatch
    <2> QED BY <1>1, <1>4, <2>1, <2>2 DEF Raises, InFlight
  <1> QED BY <1>2, <1>3, <1>4

SyncInv == TypeOK /\ Stamped /\ CopyAhead

\* The part of the invariant that concerns one cluster.
ClusterInv(c) ==
    /\ obj[c].id \in {0, ClusterID[c]} /\ cache[c].id \in {0, ClusterID[c]}
    /\ rec[c].fs.id \in {0, ClusterID[c]}
    /\ rec[c].pc \in {"read", "push", "write", "adopt", "adoptStatus"} /\ rec[c].fresh
           => Raises(obj[c], rec[c].fs)
    /\ rec[c].pc \in {"read", "push", "adopt"} => ~InFlight(rec[c].fs)
    /\ rec[c].pc = "adopt" => rec[c].seen.gen >= rec[c].fs.gen

\* What a step may do to the objects.
Grow(c) == Raises(obj[c], obj[c]')

LEMMA InvByCluster == SyncInv <=> TypeOK /\ \A c \in Cluster : ClusterInv(c)
  BY DEF SyncInv, Stamped, CopyAhead, ClusterInv

LEMMA InvInit == Init => SyncInv
  BY TypeInit DEF Init, SyncInv, Stamped, CopyAhead, NoReconcile, NewObject

LEMMA RaisesSelf ==
    ASSUME NEW fs \in FailoverService
    PROVE  Raises(fs, fs)
  BY DEF Raises, FailoverService

LEMMA ReturnInv ==
    ASSUME TypeOK, NEW c \in Cluster, Return(c), obj[c]'.id \in {0, ClusterID[c]},
           ClusterInv(c), UNCHANGED cache
    PROVE  ClusterInv(c)'
  <1>1. rec'[c] = NoReconcile
    BY DEF Return, TypeOK
  <1> QED BY <1>1 DEF ClusterInv, NoReconcile, NewObject

\* A cluster is not concerned by a step of the other one that leaves its object,
\* its cache and its reconcile alone.
LEMMA Untouched ==
    ASSUME TypeOK, NEW d \in Cluster, ClusterInv(d),
           obj'[d] = obj[d], cache'[d] = cache[d], rec'[d] = rec[d]
    PROVE  ClusterInv(d)' /\ Grow(d)
  BY RaisesSelf, ReconcileTyped DEF ClusterInv, Grow

LEMMA InvStep ==
    ASSUME SyncInv, [Next]_vars, NEW d \in Cluster
    PROVE  ClusterInv(d)' /\ Grow(d)
  <1> USE DEF SyncInv
  <1>0. ClusterInv(d)
    BY InvByCluster
  <1>a. obj[d] \in FailoverService /\ cache[d] \in FailoverService /\ Raises(obj[d], obj[d])
    BY ReconcileTyped, RaisesSelf
  <1>1. ASSUME NEW c \in Cluster, StartReconcile(c) PROVE ClusterInv(d)' /\ Grow(d)
    <2>1. CASE c = d
      <3>1. /\ rec'[d].pc = Dispatch(cache[d]).pc /\ rec'[d].fs = Dispatch(cache[d]).fs
            /\ rec'[d].fresh = (cache[d] = obj[d]) /\ obj' = obj /\ cache' = cache
        BY <1>1, <2>1 DEF StartReconcile, TypeOK
      <3>2. Dispatch(cache[d]).pc \in {"read", "write"}
        BY <1>a, DispatchTyped
      <3> QED BY <1>0, <1>a, <3>1, <3>2, DispatchAhead DEF ClusterInv, Grow
    <2>2. CASE c # d
      BY <1>0, <1>1, <2>2, Untouched DEF StartReconcile, TypeOK
    <2> QED BY <2>1, <2>2
  <1>2. ASSUME NEW c \in Cluster, StampClusterID(c) PROVE ClusterInv(d)' /\ Grow(d)
    <2>1. CASE c = d
      <3> DEFINE fs == [obj[d] EXCEPT !.id = ClusterID[d]]
      <3>1. /\ rec'[d].pc = Dispatch(fs).pc /\ rec'[d].fs = Dispatch(fs).fs
            /\ obj'[d] = fs /\ cache' = cache
        BY <1>2, <2>1 DEF StampClusterID, TypeOK
      <3>2. /\ fs \in FailoverService /\ fs.id = ClusterID[d]
            /\ fs.gen = obj[d].gen /\ fs.tr = obj[d].tr
        BY <1>a, ClusterAssumption DEF FailoverService
      <3> HIDE DEF fs
      <3>3. Dispatch(fs).pc \in {"read", "write"}
        BY <3>2, DispatchTyped
      <3>4. Grow(d)
        BY <1>a, <3>1, <3>2 DEF Grow, Raises, InFlight
      <3> QED BY <1>0, <3>1, <3>2, <3>3, <3>4, DispatchAhead DEF ClusterInv
    <2>2. CASE c # d
      BY <1>0, <1>2, <2>2, Untouched DEF StampClusterID, TypeOK
    <2> QED BY <2>1, <2>2
  <1>3. ASSUME NEW c \in Cluster, SyncRead(c) PROVE ClusterInv(d)' /\ Grow(d)
    <2>1. CASE c = d
      <3>1. /\ rec'[d].fs = rec[d].fs /\ rec'[d].fresh = rec[d].fresh
            /\ rec'[d].pc \in {"write", "adopt", "push"} /\ obj' = obj /\ cache' = cache
            /\ rec[d].pc = "read"
        BY <1>3, <2>1 DEF SyncRead, TypeOK, Reconcile
      <3>2. rec'[d].pc = "adopt" => /\ rec'[d].seen = obj[Other(d)]
                                    /\ RemoteWins(rec[d].fs, obj[Other(d)])
        BY <1>3, <2>1 DEF SyncRead, TypeOK, Reconcile
      <3>3. RemoteWins(rec[d].fs, obj[Other(d)]) => obj[Other(d)].gen >= rec[d].fs.gen
        <4>1. rec[d].fs.gen \in Nat /\ obj[Other(d)].gen \in Nat
          BY OtherCluster, ReconcileTyped DEF FailoverService
        <4> QED BY <4>1 DEF RemoteWins
      <3> QED BY <1>0, <1>a, <3>1, <3>2, <3>3 DEF ClusterInv, Grow
    <2>2. CASE c # d
      BY <1>0, <1>3, <2>2, Untouched DEF SyncRead, TypeOK
    <2> QED BY <2>1, <2>2
  <1>4. ASSUME NEW c \in Cluster, SyncPush(c) PROVE ClusterInv(d)' /\ Grow(d)
    <2>0. Other(c) \in Cluster /\ Other(c) # c
      BY OtherCluster
    <2>1. /\ obj'[d].gen = obj[d].gen /\ obj'[d].tr = obj[d].tr /\ obj'[d].id = obj[d].id
          /\ cache' = cache
      BY <1>4, <2>0, <1>a DEF SyncPush, TypeOK, FailoverService
    <2>2. /\ rec'[d].fs = rec[d].fs /\ rec'[d].seen = rec[d].seen
          /\ rec'[d].fresh => rec[d].fresh
          /\ rec'[d].pc = rec[d].pc \/ (rec[d].pc = "push" /\ rec'[d].pc = "write")
      BY <1>4, <2>0 DEF SyncPush, TypeOK, Reconcile
    <2>3. Grow(d)
      BY <2>1, <1>a DEF Grow, Raises, InFlight
    <2> QED BY <1>0, <2>1, <2>2, <2>3 DEF ClusterInv, Raises, InFlight
  <1>5. ASSUME NEW c \in Cluster, SyncFail(c) PROVE ClusterInv(d)' /\ Grow(d)
    <2>1. CASE c = d
      <3>1. /\ rec'[d].pc = "write" /\ rec'[d].fs = rec[d].fs /\ rec'[d].fresh = rec[d].fresh
            /\ obj' = obj /\ cache' = cache /\ rec[d].pc \in {"read", "push"}
        BY <1>5, <2>1 DEF SyncFail, Goto, TypeOK, Reconcile
      <3> QED BY <1>0, <1>a, <3>1 DEF ClusterInv, Grow
    <2>2. CASE c # d
      BY <1>0, <1>5, <2>2, Untouched DEF SyncFail, Goto, TypeOK
    <2> QED BY <2>1, <2>2
  <1>6. ASSUME NEW c \in Cluster, AdoptSpec(c) PROVE ClusterInv(d)' /\ Grow(d)
    <2>1. CASE c = d
      <3> DEFINE new == Adopted(obj[d], rec[d].seen, rec[d].fs.last)
      <3>1. /\ rec'[d].pc = "adoptStatus" /\ rec'[d].fs = new /\ cache' = cache
            /\ rec[d].pc = "adopt" /\ rec[d].fresh
        BY <1>6, <2>1 DEF AdoptSpec, Goto, TypeOK, Reconcile
      <3>2. obj'[d].gen = obj[d].gen /\ obj'[d].tr = obj[d].tr /\ obj'[d].id = obj[d].id
        BY <1>6, <2>1, <1>a DEF AdoptSpec, TypeOK, FailoverService
      <3>3. new.gen = rec[d].seen.gen /\ new.tr = "none" /\ new.id = obj[d].id
        BY <1>a DEF Adopted, FailoverService
      <3>4. Raises(obj[d], rec[d].fs) /\ ~InFlight(rec[d].fs) /\ rec[d].seen.gen >= rec[d].fs.gen
        BY <1>0, <3>1 DEF ClusterInv
      <3>5. obj[d].gen \in Nat /\ rec[d].fs.gen \in Nat /\ rec[d].seen.gen \in Nat
        BY ReconcileTyped DEF FailoverService
      <3> HIDE DEF new
      <3>6. Raises(obj'[d], new)
        BY <3>2, <3>3, <3>4, <3>5 DEF Raises, InFlight
      <3>7. Grow(d)
        BY <3>2, <3>5 DEF Grow, Raises, InFlight
      <3> QED BY <1>0, <3>1, <3>2, <3>3, <3>6, <3>7 DEF ClusterInv
    <2>2. CASE c # d
      BY <1>0, <1>6, <2>2, Untouched DEF AdoptSpec, Goto, TypeOK
    <2> QED BY <2>1, <2>2
  <1>7. ASSUME NEW c \in Cluster, AdoptStatus(c) PROVE ClusterInv(d)' /\ Grow(d)
    <2>1. CASE c = d
      <3>1. obj'[d] = rec[d].fs /\ cache' = cache /\ rec[d].pc = "adoptStatus" /\ rec[d].fresh
        BY <1>7, <2>1 DEF AdoptStatus, TypeOK
      <3>2. Grow(d)
        BY <1>0, <3>1 DEF ClusterInv, Grow
      <3>3. CASE Return(d)
        BY <1>0, <3>1, <3>2, <3>3, ReturnInv DEF ClusterInv
      <3>4. CASE Goto(d, "begin", rec[d].fs)
        <4>1. rec'[d].pc = "begin" /\ rec'[d].fs = rec[d].fs
          BY <3>4 DEF Goto, TypeOK, Reconcile
        <4> QED BY <1>0, <3>1, <3>2, <4>1 DEF ClusterInv
      <3> QED BY <1>7, <2>1, <3>3, <3>4 DEF AdoptStatus
    <2>2. CASE c # d
      BY <1>0, <1>7, <2>2, Untouched DEF AdoptStatus, Goto, Return, TypeOK
    <2> QED BY <2>1, <2>2
  <1>8. ASSUME NEW c \in Cluster, BeginRemoteSync(c) PROVE ClusterInv(d)' /\ Grow(d)
    <2>1. CASE c = d
      <3>1. /\ obj'[d].id = obj[d].id /\ obj'[d].gen = obj[d].gen /\ obj'[d].tr = obj[d].active
            /\ obj[d].active \in Direction /\ obj[d].gen \in Nat /\ cache' = cache
        BY <1>8, <2>1, <1>a DEF BeginRemoteSync, TypeOK, FailoverService
      <3>2. Grow(d)
        BY <3>1 DEF Grow, Raises, InFlight, Direction
      <3> QED BY <1>0, <1>8, <2>1, <3>1, <3>2, ReturnInv DEF ClusterInv, BeginRemoteSync
    <2>2. CASE c # d
      BY <1>0, <1>8, <2>2, Untouched DEF BeginRemoteSync, Return, TypeOK
    <2> QED BY <2>1, <2>2
  <1>9. ASSUME NEW c \in Cluster, WriteStatus(c) PROVE ClusterInv(d)' /\ Grow(d)
    <2>1. CASE c = d
      <3>1. /\ obj'[d] = rec[d].fs /\ cache' = cache /\ rec[d].pc = "write" /\ rec[d].fresh
            /\ Return(d)
        BY <1>9, <2>1 DEF WriteStatus, TypeOK
      <3>2. Grow(d)
        BY <1>0, <3>1 DEF ClusterInv, Grow
      <3> QED BY <1>0, <3>1, <3>2, ReturnInv DEF ClusterInv
    <2>2. CASE c # d
      BY <1>0, <1>9, <2>2, Untouched DEF WriteStatus, Return, TypeOK
    <2> QED BY <2>1, <2>2
  <1>10. ASSUME NEW c \in Cluster, Conflict(c) \/ Abort(c) PROVE ClusterInv(d)' /\ Grow(d)
    <2>1. CASE c = d
      <3>1. Return(d) /\ obj' = obj /\ cache' = cache
        BY <1>10, <2>1 DEF Conflict, Abort
      <3> QED BY <1>0, <1>a, <3>1, ReturnInv DEF ClusterInv, Grow
    <2>2. CASE c # d
      BY <1>0, <1>10, <2>2, Untouched DEF Conflict, Abort, Return, TypeOK
    <2> QED BY <2>1, <2>2
  <1>11. ASSUME NEW c \in Cluster, SyncCache(c) PROVE ClusterInv(d)' /\ Grow(d)
    <2>1. cache'[d] \in {cache[d], obj[d]} /\ obj' = obj /\ rec' = rec
      BY <1>11 DEF SyncCache, TypeOK
    <2> QED BY <1>0, <1>a, <2>1 DEF ClusterInv, Grow
  <1>12. ASSUME NEW c \in Cluster, OperatorFlip(c) PROVE ClusterInv(d)' /\ Grow(d)
    <2>1. CASE c = d
      <3>1. /\ obj'[d].id = obj[d].id /\ obj'[d].gen = obj[d].gen /\ obj'[d].tr = obj[d].tr
            /\ obj[d].gen \in Nat /\ cache' = cache
        BY <1>12, <2>1, <1>a DEF OperatorFlip, TypeOK, FailoverService
      <3>2. /\ rec'[d].pc = rec[d].pc /\ rec'[d].fs = rec[d].fs /\ rec'[d].seen = rec[d].seen
            /\ ~rec'[d].fresh
        BY <1>12, <2>1 DEF OperatorFlip, TypeOK, Reconcile
      <3>3. Grow(d)
        BY <3>1 DEF Grow, Raises, InFlight
      <3> QED BY <1>0, <3>1, <3>2, <3>3 DEF ClusterInv
    <2>2. CASE c # d
      BY <1>0, <1>12, <2>2, Untouched DEF OperatorFlip, TypeOK
    <2> QED BY <2>1, <2>2
  <1>13. ASSUME Tick \/ UNCHANGED vars PROVE ClusterInv(d)' /\ Grow(d)
    <2>1. obj' = obj /\ cache' = cache /\ rec' = rec
      BY <1>13 DEF Tick, vars
    <2> QED BY <1>0, <2>1, Untouched
  <1> QED BY <1>1, <1>2, <1>3, <1>4, <1>5, <1>6, <1>7, <1>8, <1>9, <1>10, <1>11, <1>12, <1>13
          DEF Next, ReconcileStep

LEMMA InvInductive == SyncInv /\ [Next]_vars => SyncInv'
  <1> SUFFICES ASSUME SyncInv, [Next]_vars PROVE SyncInv'
    OBVIOUS
  <1>1. \A d \in Cluster : ClusterInv(d)'
    BY InvStep
  <1>2. TypeOK'
    BY TypeStep DEF SyncInv
  <1> QED BY <1>1, <1>2 DEF SyncInv, Stamped, CopyAhead, ClusterInv

\* The two syncers never both defer and never both insist: stamped objects carry
\* different IDs, so the comparison of generations, times and IDs has one winner.
THEOREM WinnerCorrect == Spec => []OneWinner
  <1>1. SyncInv => OneWinner
    <2> SUFFICES ASSUME SyncInv, NEW c \in Cluster, NEW d \in Cluster, c # d,
                        obj[c].id # 0, obj[d].id # 0
                 PROVE  RemoteWins(obj[c], obj[d]) <=> ~RemoteWins(obj[d], obj[c])
      BY DEF OneWinner
    <2>1. obj[c].id = ClusterID[c] /\ obj[d].id = ClusterID[d]
      BY DEF SyncInv, Stamped
    <2>2. obj[c].id # obj[d].id
      BY <2>1, ClusterAssumption
    <2> QED BY <2>2, WinnerUnique, ReconcileTyped DEF SyncInv
  <1> QED BY <1>1, InvInit, InvInductive, PTL DEF Spec

\* A cluster's generation never goes back and every finished transition raises
\* it, whichever of push, adoption and conflict its last reconcile went through.
THEOREM GenerationsCorrect == Spec => GenerationsGrow
  <1>1. SyncInv /\ [Next]_vars
          => [\A c \in Cluster :
                 /\ obj'[c].gen >= obj[c].gen
                 /\ InFlight(obj[c]) /\ ~InFlight(obj'[c]) => obj'[c].gen > obj[c].gen]_vars
    BY InvStep DEF Grow, Raises
  <1> QED BY <1>1, InvInit, InvInductive, PTL DEF Spec, GenerationsGrow

-----------------------------------------------------------------------------
(* The protocol of the two clusters *)

\* What one step of the protocol may make of an object, g being a generation
\* the other cluster has reached.
Moves(o, n, g) ==
    \/ n.tr = o.tr /\ n.last = o.last /\ n.gen = o.gen
    \/ /\ o.tr = "none" /\ n.tr = "none" /\ n.gen >= o.gen /\ (n.gen = o.gen \/ n.gen <= g)
       /\ n.last = o.last \/ (o.last = "unset" /\ n.last \in Direction)
    \/ /\ o.tr = "none" /\ o.last \in Direction /\ n.tr \in Direction \ {o.last}
       /\ n.last = o.last /\ n.gen = o.gen
    \/ /\ o.tr # "none" /\ n.tr = "none" /\ n.last = o.tr
       /\ n.gen = o.gen + 1 \/ (n.gen > o.gen /\ n.gen <= g)

\* A current copy is one step of the protocol away from the object, a copy that
\* meets the other cluster has no transition and a direction, and a reading of
\* the other cluster, however old, shows a generation it has reached.
MoveInv(c) ==
    /\ rec[c].pc \in {"read", "push", "write", "adopt", "adoptStatus"} /\ rec[c].fresh
           => Moves(obj[c], rec[c].fs, obj[Other(c)].gen)
    /\ rec[c].pc \in {"read", "push", "adopt", "adoptStatus"}
           => rec[c].fs.tr = "none" /\ rec[c].fs.last \in Direction
    /\ rec[c].pc = "adopt" => rec[c].seen.gen <= obj[Other(c)].gen
    /\ rec[c].pc = "begin" /\ rec[c].fresh
           => obj[c].tr = "none" /\ obj[c].last \in Direction \ {obj[c].active}

ProtocolInv == \A c \in Cluster : MoveInv(c)

\* Fields of an object that the protocol sees.
Same(o, n) == n.tr = o.tr /\ n.last = o.last /\ n.gen = o.gen

LEMMA ObjectFields ==
    ASSUME NEW o \in FailoverService
    PROVE  /\ o.gen \in Nat /\ o.active \in Direction
           /\ o.last \in Direction \cup {"unset"} /\ o.tr \in Direction \cup {"none"}
  BY DEF FailoverService

\* A higher generation of the other cluster allows at least as much, and fields
\* the protocol does not see play no part.
LEMMA MovesKept ==
    ASSUME NEW o \in FailoverService, NEW p \in FailoverService, NEW n \in FailoverService,
           NEW g \in Nat, NEW h \in Nat, Moves(o, n, g), Same(o, p), h >= g
    PROVE  Moves(p, n, h)
  <1>1. n.gen \in Nat /\ o.gen \in Nat
    BY ObjectFields
  <1> QED BY <1>1 DEF Moves, Same

\* Reconcile up to its first call makes one step of the protocol.
LEMMA DispatchMoves ==
    ASSUME TypeOK, NEW fs \in FailoverService, NEW g \in Nat
    PROVE  /\ Moves(fs, Dispatch(fs).fs, g)
           /\ Dispatch(fs).pc = "read"
                => Dispatch(fs).fs.tr = "none" /\ Dispatch(fs).fs.last \in Direction
  <1>1. fs.gen \in Nat /\ fs.active \in Direction /\ fs.tr \in Direction \cup {"none"}
    BY ObjectFields
  <1>2. CASE InFlight(fs)
    <2>1. /\ Completed(fs).gen = fs.gen + 1 /\ Completed(fs).tr = "none"
          /\ Completed(fs).last = fs.tr
      BY DEF Completed, FailoverService
    <2>2. Dispatch(fs).fs = Completed(fs)
      BY <1>2 DEF Dispatch
    <2> QED BY <1>1, <1>2, <2>1, <2>2 DEF Moves, InFlight
  <1>3. CASE ~InFlight(fs) /\ fs.last \notin {"unset", fs.active}
    <2>1. /\ Begun(fs, clock).gen = fs.gen /\ Begun(fs, clock).tr = fs.active
          /\ Begun(fs, clock).last = fs.last
      BY DEF Begun, FailoverService
    <2>2. Dispatch(fs) = [pc |-> "write", fs |-> Begun(fs, clock)]
      BY <1>3 DEF Dispatch
    <2>3. fs.last \in Direction
      BY <1>3, ObjectFields
    <2> QED BY <1>1, <1>3, <2>1, <2>2, <2>3 DEF Moves, InFlight
  <1>4. CASE ~InFlight(fs) /\ fs.last \in {"unset", fs.active}
    <2>1. Steady(fs).gen = fs.gen /\ Steady(fs).tr = fs.tr /\ Steady(fs).last = fs.active
      BY DEF Steady, FailoverService
    <2>2. Dispatch(fs).fs = Steady(fs)
      BY <1>4 DEF Dispatch
    <2> QED BY <1>1, <1>4, <2>1, <2>2 DEF Moves, InFlight
  <1> QED BY <1>2, <1>3, <1>4

\* An adopted revision is one step of the protocol away from the object, be it
\* adopted at rest or at the end of a transition.
LEMMA AdoptedMoves ==
    ASSUME NEW o \in FailoverService, NEW fs \in FailoverService, NEW r \in FailoverService,
           NEW g \in Nat, Moves(o, fs, g), fs.tr = "none", r.gen >= fs.gen, r.gen <= g
    PROVE  Moves(o, Adopted(o, r, fs.last), g)
  <1>1. o.gen \in Nat /\ fs.gen \in Nat /\ r.gen \in Nat
    BY ObjectFields
  <1> DEFINE n == Adopted(o, r, fs.last)
  <1>2. n.tr = "none" /\ n.last = fs.last /\ n.gen = r.gen
    BY DEF Adopted, FailoverService
  <1> HIDE DEF n
  <1>3. Moves(o, n, g)
    BY <1>1, <1>2 DEF Moves, Direction
  <1> QED BY <1>3 DEF n

\* The end of a reconcile.
LEMMA ReturnMoves ==
    ASSUME TypeOK, NEW c \in Cluster, Return(c)
    PROVE  MoveInv(c)'
  <1>1. rec'[c].pc = "off"
    BY DEF Return, TypeOK, NoReconcile
  <1> QED BY <1>1 DEF MoveInv

\* A cluster is not concerned by steps that leave its reconcile, and what the
\* protocol sees of its object, alone.
LEMMA MovesUntouched ==
    ASSUME TypeOK, TypeOK', SyncInv, [Next]_vars, NEW d \in Cluster, MoveInv(d),
           Same(obj[d], obj'[d]), rec'[d].pc = rec[d].pc, rec'[d].fs = rec[d].fs,
           rec'[d].seen = rec[d].seen,
           rec'[d].fresh => rec[d].fresh /\ obj'[d].active = obj[d].active
    PROVE  MoveInv(d)' /\ Moves(obj[d], obj'[d], obj[Other(d)].gen)
  <1>1. Other(d) \in Cluster
    BY OtherCluster
  <1>2. obj'[Other(d)].gen >= obj[Other(d)].gen
    BY <1>1, InvStep DEF Grow, Raises
  <1>3. /\ obj[d] \in FailoverService /\ obj'[d] \in FailoverService /\ rec[d].fs \in FailoverService
        /\ obj[Other(d)].gen \in Nat /\ obj'[Other(d)].gen \in Nat /\ rec[d].seen.gen \in Nat
    BY <1>1, ReconcileTyped, ObjectFields DEF TypeOK
  <1>4. Moves(obj[d], rec[d].fs, obj[Other(d)].gen)
          => Moves(obj'[d], rec[d].fs, obj'[Other(d)].gen)
    BY <1>2, <1>3, MovesKept
  <1>5. Moves(obj[d], obj'[d], obj[Other(d)].gen)
    BY DEF Moves, Same
  <1> QED BY <1>2, <1>3, <1>4, <1>5 DEF MoveInv, Same

\* Every step keeps MoveInv and makes at most one step of the protocol in each
\* of the clusters.
LEMMA MoveStep ==
    ASSUME SyncInv, TypeOK', ProtocolInv, [Next]_vars, NEW d \in Cluster
    PROVE  MoveInv(d)' /\ Moves(obj[d], obj'[d], obj[Other(d)].gen)
  <1> DEFINE Goal == MoveInv(d)' /\ Moves(obj[d], obj'[d], obj[Other(d)].gen)
  <1>0. TypeOK /\ MoveInv(d) /\ ClusterInv(d)
    BY InvByCluster DEF SyncInv, ProtocolInv
  <1>o. Other(d) \in Cluster /\ Other(d) # d
    BY OtherCluster
  <1>a. /\ obj[d] \in FailoverService /\ cache[d] \in FailoverService /\ rec[d] \in Reconcile
        /\ rec[d].fs \in FailoverService /\ rec[d].seen \in FailoverService
        /\ obj[Other(d)] \in FailoverService /\ obj'[d] \in FailoverService
        /\ obj[Other(d)].gen \in Nat /\ obj'[Other(d)].gen \in Nat
    BY <1>0, <1>o, ReconcileTyped, ObjectFields DEF TypeOK
  <1>b. Moves(obj[d], obj[d], obj[Other(d)].gen)
    BY DEF Moves
  <1>c. ASSUME Same(obj[d], obj'[d]) PROVE Moves(obj[d], obj'[d], obj[Other(d)].gen)
    BY <1>c DEF Moves, Same
  <1>u. ASSUME obj'[d] = obj[d], rec'[d] = rec[d] PROVE Goal
    BY <1>0, <1>u, MovesUntouched DEF Same
  <1>1. ASSUME NEW c \in Cluster, StartReconcile(c) PROVE Goal
    <2>1. CASE c = d
      <3>1. /\ rec'[d].pc = Dispatch(cache[d]).pc /\ rec'[d].fs = Dispatch(cache[d]).fs
            /\ (rec'[d].fresh <=> cache[d] = obj[d]) /\ obj' = obj
        BY <1>0, <1>1, <2>1 DEF StartReconcile, TypeOK
      <3>2. Dispatch(cache[d]).pc \in {"read", "write"}
        BY <1>0, <1>a, DispatchTyped
      <3>3. /\ Moves(cache[d], Dispatch(cache[d]).fs, obj[Other(d)].gen)
            /\ Dispatch(cache[d]).pc = "read" => /\ Dispatch(cache[d]).fs.tr = "none"
                                                 /\ Dispatch(cache[d]).fs.last \in Direction
        BY <1>0, <1>a, DispatchMoves
      <3> QED BY <1>b, <3>1, <3>2, <3>3 DEF MoveInv
    <2>2. CASE c # d
      BY <1>0, <1>1, <1>u, <2>2 DEF StartReconcile, TypeOK
    <2> QED BY <2>1, <2>2
  <1>2. ASSUME NEW c \in Cluster, StampClusterID(c) PROVE Goal
    <2>1. CASE c = d
      <3> DEFINE fs == [obj[d] EXCEPT !.id = ClusterID[d]]
      <3>1. /\ rec'[d].pc = Dispatch(fs).pc /\ rec'[d].fs = Dispatch(fs).fs
            /\ obj'[d] = fs /\ obj'[Other(d)] = obj[Other(d)]
        BY <1>0, <1>2, <1>o, <2>1 DEF StampClusterID, TypeOK
      <3>2. fs \in FailoverService /\ Same(obj[d], fs)
        BY <1>a, ClusterAssumption DEF FailoverService, Same
      <3> HIDE DEF fs
      <3>3. Dispatch(fs).pc \in {"read", "write"}
        BY <1>0, <3>2, DispatchTyped
      <3>4. /\ Moves(fs, Dispatch(fs).fs, obj[Other(d)].gen)
            /\ Dispatch(fs).pc = "read" => /\ Dispatch(fs).fs.tr = "none"
                                           /\ Dispatch(fs).fs.last \in Direction
        BY <1>0, <1>a, <3>2, DispatchMoves
      <3> QED BY <1>c, <3>1, <3>2, <3>3, <3>4 DEF MoveInv
    <2>2. CASE c # d
      BY <1>0, <1>2, <1>u, <2>2 DEF StampClusterID, TypeOK
    <2> QED BY <2>1, <2>2
  <1>3. ASSUME NEW c \in Cluster, SyncRead(c) PROVE Goal
    <2>1. CASE c = d
      <3>1. /\ rec'[d].fs = rec[d].fs /\ rec'[d].fresh = rec[d].fresh
            /\ rec'[d].pc \in {"write", "adopt", "push"} /\ obj' = obj /\ rec[d].pc = "read"
            /\ rec'[d].pc = "adopt" => rec'[d].seen = obj[Other(d)]
        BY <1>0, <1>3, <2>1 DEF SyncRead, TypeOK, Reconcile
      <3> QED BY <1>0, <1>a, <1>b, <3>1 DEF MoveInv
    <2>2. CASE c # d
      BY <1>0, <1>3, <1>u, <2>2 DEF SyncRead, TypeOK
    <2> QED BY <2>1, <2>2
  <1>4. ASSUME NEW c \in Cluster, SyncPush(c) PROVE Goal
    <2>0. Other(c) \in Cluster /\ Other(c) # c
      BY OtherCluster
    <2>1. CASE d = c
      <3>1. obj'[d] = obj[d] /\ obj'[Other(d)].gen = obj[Other(d)].gen
        BY <1>0, <1>4, <1>a, <2>0, <2>1 DEF SyncPush, TypeOK, FailoverService
      <3>2. /\ rec'[d].fs = rec[d].fs /\ rec'[d].fresh = rec[d].fresh
            /\ rec[d].pc = "push" /\ rec'[d].pc = "write"
        BY <1>0, <1>4, <2>0, <2>1 DEF SyncPush, TypeOK, Reconcile
      <3> QED BY <1>0, <1>b, <3>1, <3>2 DEF MoveInv
    <2>2. CASE d # c
      <3>1. d = Other(c)
        BY <2>0, <2>2, ClusterAssumption
      <3>2. Same(obj[d], obj'[d]) /\ obj'[d].active = rec[c].fs.active
        BY <1>0, <1>4, <1>a, <2>0, <3>1 DEF SyncPush, TypeOK, FailoverService, Same
      <3>3. /\ rec'[d].pc = rec[d].pc /\ rec'[d].fs = rec[d].fs /\ rec'[d].seen = rec[d].seen
            /\ rec'[d].fresh => rec[d].fresh /\ obj[d].active = rec[c].fs.active
        BY <1>0, <1>4, <2>0, <3>1 DEF SyncPush, TypeOK, Reconcile
      <3> QED BY <1>0, <3>2, <3>3, MovesUntouched
    <2> QED BY <2>1, <2>2
  <1>5. ASSUME NEW c \in Cluster, SyncFail(c) PROVE Goal
    <2>1. CASE c = d
      <3>1. /\ rec'[d].pc = "write" /\ rec'[d].fs = rec[d].fs /\ rec'[d].fresh = rec[d].fresh
            /\ obj' = obj /\ rec[d].pc \in {"read", "push"}
        BY <1>0, <1>5, <2>1 DEF SyncFail, Goto, TypeOK, Reconcile
      <3> QED BY <1>0, <1>b, <3>1 DEF MoveInv
    <2>2. CASE c # d
      BY <1>0, <1>5, <1>u, <2>2 DEF SyncFail, Goto, TypeOK
    <2> QED BY <2>1, <2>2
  <1>6. ASSUME NEW c \in Cluster, AdoptSpec(c) PROVE Goal
    <2>1. CASE c = d
      <3> DEFINE new == Adopted(obj[d], rec[d].seen, rec[d].fs.last)
      <3>1. /\ rec'[d].pc = "adoptStatus" /\ rec'[d].fs = new
            /\ rec[d].pc = "adopt" /\ rec[d].fresh
        BY <1>0, <1>6, <2>1 DEF AdoptSpec, Goto, TypeOK, Reconcile
      <3>2. Same(obj[d], obj'[d]) /\ obj'[Other(d)] = obj[Other(d)]
        BY <1>0, <1>6, <1>a, <1>o, <2>1 DEF AdoptSpec, TypeOK, FailoverService, Same
      <3>3. /\ Moves(obj[d], rec[d].fs, obj[Other(d)].gen) /\ rec[d].fs.tr = "none"
            /\ rec[d].seen.gen >= rec[d].fs.gen /\ rec[d].seen.gen <= obj[Other(d)].gen
            /\ rec[d].fs.last \in Direction
        BY <1>0, <3>1 DEF MoveInv, ClusterInv
      <3>4. Moves(obj[d], new, obj[Other(d)].gen)
        BY <1>a, <3>3, AdoptedMoves
      <3>5. new.tr = "none" /\ new.last = rec[d].fs.last /\ new \in FailoverService
        BY <1>a, <3>3, AdoptedTyped DEF Adopted, FailoverService
      <3> HIDE DEF new
      <3>6. Moves(obj'[d], new, obj'[Other(d)].gen)
        BY <1>a, <3>2, <3>4, <3>5, MovesKept
      <3> QED BY <1>c, <3>1, <3>2, <3>3, <3>5, <3>6 DEF MoveInv
    <2>2. CASE c # d
      BY <1>0, <1>6, <1>u, <2>2 DEF AdoptSpec, Goto, TypeOK
    <2> QED BY <2>1, <2>2
  <1>7. ASSUME NEW c \in Cluster, AdoptStatus(c) PROVE Goal
    <2>1. CASE c = d
      <3>1. obj'[d] = rec[d].fs /\ rec[d].pc = "adoptStatus" /\ rec[d].fresh
        BY <1>0, <1>7, <2>1 DEF AdoptStatus, TypeOK
      <3>2. Moves(obj[d], obj'[d], obj[Other(d)].gen)
        BY <1>0, <3>1 DEF MoveInv
      <3>3. CASE Return(d)
        BY <1>0, <3>2, <3>3, ReturnMoves
      <3>4. CASE rec[d].fs.last # rec[d].fs.active /\ Goto(d, "begin", rec[d].fs)
        <4>1. rec'[d].pc = "begin" /\ rec'[d].fs = rec[d].fs
          BY <1>0, <3>4 DEF Goto, TypeOK, Reconcile
        <4> QED BY <1>0, <3>1, <3>2, <3>4, <4>1 DEF MoveInv
      <3> QED BY <1>7, <2>1, <3>3, <3>4 DEF AdoptStatus
    <2>2. CASE c # d
      BY <1>0, <1>7, <1>u, <2>2 DEF AdoptStatus, Goto, Return, TypeOK
    <2> QED BY <2>1, <2>2
  <1>8. ASSUME NEW c \in Cluster, BeginRemoteSync(c) PROVE Goal
    <2>1. CASE c = d
      <3>1. /\ obj'[d].gen = obj[d].gen /\ obj'[d].tr = obj[d].active /\ obj'[d].last = obj[d].last
            /\ rec[d].pc = "begin" /\ rec[d].fresh /\ Return(d)
        BY <1>0, <1>8, <1>a, <2>1 DEF BeginRemoteSync, TypeOK, FailoverService
      <3>2. obj[d].tr = "none" /\ obj[d].last \in Direction \ {obj[d].active}
        BY <1>0, <3>1 DEF MoveInv
      <3>3. obj[d].active \in Direction
        BY <1>a, ObjectFields
      <3> QED BY <1>0, <3>1, <3>2, <3>3, ReturnMoves DEF Moves
    <2>2. CASE c # d
      BY <1>0, <1>8, <1>u, <2>2 DEF BeginRemoteSync, Return, TypeOK
    <2> QED BY <2>1, <2>2
  <1>9. ASSUME NEW c \in Cluster, WriteStatus(c) PROVE Goal
    <2>1. CASE c = d
      <3>1. obj'[d] = rec[d].fs /\ rec[d].pc = "write" /\ rec[d].fresh /\ Return(d)
        BY <1>0, <1>9, <2>1 DEF WriteStatus, TypeOK
      <3> QED BY <1>0, <3>1, ReturnMoves DEF MoveInv
    <2>2. CASE c # d
      BY <1>0, <1>9, <1>u, <2>2 DEF WriteStatus, Return, TypeOK
    <2> QED BY <2>1, <2>2
  <1>10. ASSUME NEW c \in Cluster, Conflict(c) \/ Abort(c) PROVE Goal
    <2>1. CASE c = d
      BY <1>0, <1>10, <1>b, <2>1, ReturnMoves DEF Conflict, Abort
    <2>2. CASE c # d
      BY <1>0, <1>10, <1>u, <2>2 DEF Conflict, Abort, Return, TypeOK
    <2> QED BY <2>1, <2>2
  <1>11. ASSUME NEW c \in Cluster, SyncCache(c) PROVE Goal
    BY <1>11, <1>u DEF SyncCache
  <1>12. ASSUME NEW c \in Cluster, OperatorFlip(c) PROVE Goal
    <2>1. CASE c = d
      <3>1. Same(obj[d], obj'[d])
        BY <1>0, <1>12, <1>a, <2>1 DEF OperatorFlip, TypeOK, FailoverService, Same
      <3>2. /\ rec'[d].pc = rec[d].pc /\ rec'[d].fs = rec[d].fs /\ rec'[d].seen = rec[d].seen
            /\ ~rec'[d].fresh
        BY <1>0, <1>12, <2>1 DEF OperatorFlip, TypeOK, Reconcile
      <3> QED BY <1>0, <3>1, <3>2, MovesUntouched
    <2>2. CASE c # d
      BY <1>0, <1>12, <1>u, <2>2 DEF OperatorFlip, TypeOK
    <2> QED BY <2>1, <2>2
  <1>13. ASSUME Tick \/ UNCHANGED vars PROVE Goal
    BY <1>13, <1>u DEF Tick, vars
  <1> QED BY <1>1, <1>2, <1>3, <1>4, <1>5, <1>6, <1>7, <1>8, <1>9, <1>10, <1>11, <1>12, <1>13
          DEF Next, ReconcileStep

\* A step changes the object of one cluster at most.
LEMMA OneObject ==
    ASSUME TypeOK, [Next]_vars
    PROVE  \E c \in Cluster : \A d \in Cluster \ {c} : obj'[d] = obj[d]
  <1>1. \E c \in Cluster : TRUE
    BY ClusterAssumption
  <1>2. CASE obj' = obj
    BY <1>1, <1>2
  <1>3. ASSUME NEW c \in Cluster,
               \/ StampClusterID(c) \/ AdoptSpec(c) \/ AdoptStatus(c) \/ BeginRemoteSync(c)
               \/ WriteStatus(c) \/ OperatorFlip(c)
        PROVE  \A d \in Cluster \ {c} : obj'[d] = obj[d]
    BY <1>3 DEF StampClusterID, AdoptSpec, AdoptStatus, BeginRemoteSync, WriteStatus,
       OperatorFlip, TypeOK
  <1>4. ASSUME NEW c \in Cluster, SyncPush(c)
        PROVE  Other(c) \in Cluster /\ \A d \in Cluster \ {Other(c)} : obj'[d] = obj[d]
    BY <1>4, OtherCluster DEF SyncPush, TypeOK
  <1>5. ASSUME NEW c \in Cluster,
               \/ StartReconcile(c) \/ SyncRead(c) \/ SyncFail(c) \/ Conflict(c) \/ Abort(c)
               \/ SyncCache(c)
        PROVE  obj' = obj
    BY <1>5 DEF StartReconcile, SyncRead, SyncFail, Conflict, Abort, SyncCache
  <1>6. Tick \/ UNCHANGED vars => obj' = obj
    BY DEF Tick, vars
  <1> QED BY <1>2, <1>3, <1>4, <1>5, <1>6 DEF Next, ReconcileStep

\* The refinement mapping.
pDir  == [c \in Cluster |-> obj[c].tr]
pMode == [c \in Cluster |-> obj[c].last]
pGen  == [c \in Cluster |-> obj[c].gen]

\* A step that Moves allows is a step of the protocol.
LEMMA ProtocolStep ==
    ASSUME TypeOK, TypeOK', NEW c \in Cluster, Moves(obj[c], obj'[c], obj[Other(c)].gen),
           \A d \in Cluster \ {c} : obj'[d] = obj[d]
    PROVE  Protocol!DNext \/ UNCHANGED Protocol!dvars
  <1> DEFINE o == obj[c]
             n == obj'[c]
             k == Other(c)
  <1>1. /\ o.gen \in Nat /\ n.gen \in Nat /\ obj[k].gen \in Nat /\ k \in Cluster
        /\ o.tr \in Direction \cup {"none"}
    BY OtherCluster, ReconcileTyped, ObjectFields DEF TypeOK
  <1>2. /\ pDir' = [pDir EXCEPT ![c] = n.tr] /\ pDir[c] = o.tr
        /\ pMode' = [pMode EXCEPT ![c] = n.last] /\ pMode[c] = o.last
        /\ pGen' = [pGen EXCEPT ![c] = n.gen] /\ pGen[c] = o.gen /\ pGen[k] = obj[k].gen
    BY <1>1 DEF pDir, pMode, pGen
  <1>3. /\ n.tr = o.tr => pDir' = pDir
        /\ n.last = o.last => pMode' = pMode
        /\ n.gen = o.gen => pGen' = pGen
        /\ n.gen # o.gen => pGen' # pGen
    BY DEF pDir, pMode, pGen
  <1>4. ASSUME n.gen >= o.gen, n.gen = o.gen \/ n.gen <= obj[k].gen
        PROVE  Protocol!Adopts(c)
    <2>1. \E d \in Cluster : \E g \in pGen[c]..pGen[d] : pGen' = [pGen EXCEPT ![c] = g]
      <3>1. n.gen \in o.gen..o.gen \/ n.gen \in o.gen..obj[k].gen
        BY <1>1, <1>4
      <3>2. n.gen \in pGen[c]..pGen[c] \/ n.gen \in pGen[c]..pGen[k]
        BY <1>2, <3>1
      <3>3. pGen' = [pGen EXCEPT ![c] = n.gen] /\ k \in Cluster
        BY <1>1, <1>2
      <3> HIDE DEF n, k
      <3> QED BY <3>2, <3>3
    <2> QED BY <2>1 DEF Protocol!Adopts, pGen
  <1>5. CASE n.tr = o.tr /\ n.last = o.last /\ n.gen = o.gen
    BY <1>3, <1>5 DEF Protocol!dvars, pDir, pMode, pGen
  <1>6. CASE /\ o.tr = "none" /\ n.tr = "none" /\ n.gen >= o.gen /\ (n.gen = o.gen \/ n.gen <= obj[k].gen)
             /\ n.last = o.last
    <2>1. pDir[c] = "none" /\ Protocol!Adopts(c) /\ pDir' = pDir /\ pMode' = pMode
      BY <1>2, <1>3, <1>4, <1>6
    <2>2. Protocol!AdoptRevision(c)
      BY <2>1 DEF Protocol!AdoptRevision, pDir, pMode
    <2> QED BY <2>2 DEF Protocol!DNext
  <1>7. CASE /\ o.tr = "none" /\ n.tr = "none" /\ n.gen >= o.gen /\ (n.gen = o.gen \/ n.gen <= obj[k].gen)
             /\ o.last = "unset" /\ n.last \in Direction
    <2>1. /\ pDir[c] = "none" /\ Protocol!Adopts(c) /\ pDir' = pDir /\ pMode[c] = "unset"
          /\ \E m \in Protocol!Directions : pMode' = [pMode EXCEPT ![c] = m]
      BY <1>2, <1>3, <1>4, <1>7 DEF Protocol!Directions, Direction
    <2>2. Protocol!Baseline(c)
      BY <2>1 DEF Protocol!Baseline, pDir, pMode
    <2> QED BY <2>2 DEF Protocol!DNext
  <1>8. CASE /\ o.tr = "none" /\ o.last \in Direction /\ n.tr \in Direction \ {o.last}
             /\ n.last = o.last /\ n.gen = o.gen
    <2>1. /\ pDir[c] = "none" /\ pMode[c] \in Protocol!Directions /\ pMode' = pMode /\ pGen' = pGen
          /\ \E m \in Protocol!Directions \ {pMode[c]} : pDir' = [pDir EXCEPT ![c] = m]
      BY <1>2, <1>3, <1>8 DEF Protocol!Directions, Direction
    <2>2. Protocol!Begin(c)
      BY <2>1 DEF Protocol!Begin, pDir, pMode, pGen
    <2> QED BY <2>2 DEF Protocol!DNext
  <1>9. CASE /\ o.tr # "none" /\ n.tr = "none" /\ n.last = o.tr
             /\ n.gen = o.gen + 1 \/ (n.gen > o.gen /\ n.gen <= obj[k].gen)
    <2>1. /\ pDir[c] # "none" /\ pMode' = [pMode EXCEPT ![c] = pDir[c]]
          /\ pDir' = [pDir EXCEPT ![c] = "none"]
      BY <1>2, <1>9
    <2>2. pGen' = [pGen EXCEPT ![c] = pGen[c] + 1] \/ (Protocol!Adopts(c) /\ pGen' # pGen)
      <3>1. CASE n.gen = o.gen + 1
        BY <1>2, <3>1
      <3>2. CASE n.gen > o.gen /\ n.gen <= obj[k].gen
        <4>1. n.gen >= o.gen /\ n.gen # o.gen
          BY <1>1, <3>2
        <4> QED BY <1>3, <1>4, <3>2, <4>1
      <3> QED BY <1>9, <3>1, <3>2
    <2>3. Protocol!Complete(c)
      BY <2>1, <2>2 DEF Protocol!Complete, pDir, pMode, pGen
    <2> QED BY <2>3 DEF Protocol!DNext
  <1> QED BY <1>5, <1>6, <1>7, <1>8, <1>9 DEF Moves

\* Each cluster's direction and generation change only as DirectionProtocol
\* allows, in every interleaving of reads, pushes, adoptions and crashes.
THEOREM ProtocolCorrect == Spec => ImplementsProtocol
  <1>1. Init => Protocol!DInit /\ ProtocolInv
    <2> SUFFICES ASSUME Init PROVE Protocol!DInit /\ ProtocolInv
      OBVIOUS
    <2>1. \A c \in Cluster : obj[c] = NewObject /\ rec[c].pc = "off"
      BY DEF Init, NoReconcile
    <2>2. ProtocolInv
      BY <2>1 DEF ProtocolInv, MoveInv
    <2>3. Protocol!DInit
      BY <2>1 DEF Protocol!DInit, NewObject
    <2> QED BY <2>2, <2>3
  <1>2. SyncInv /\ ProtocolInv /\ TypeOK' /\ [Next]_vars => ProtocolInv'
    BY MoveStep DEF ProtocolInv
  <1>3. SyncInv /\ ProtocolInv /\ TypeOK' /\ [Next]_vars => [Protocol!DNext]_(Protocol!dvars)
    <2> SUFFICES ASSUME SyncInv, ProtocolInv, TypeOK', [Next]_vars
                 PROVE  Protocol!DNext \/ UNCHANGED Protocol!dvars
      OBVIOUS
    <2>1. PICK c \in Cluster : \A d \in Cluster \ {c} : obj'[d] = obj[d]
      BY OneObject DEF SyncInv
    <2> QED BY <2>1, MoveStep, ProtocolStep DEF SyncInv
  <1> QED BY <1>1, <1>2, <1>3, InvInit, InvInductive, SyncTypeCorrect, PTL
          DEF Spec, ImplementsProtocol, Protocol!DSpec
=============================================================================
