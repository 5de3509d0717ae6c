---------------------------- MODULE FailoverSync ----------------------------
(***************************************************************************)
(* Two clusters that keep spec.failoverActive of one FailoverService the   *)
(* same (internal/remotecluster/syncer.go and its callers in               *)
(* internal/controller).  Each cluster's controller compares generations,  *)
(* change times and cluster IDs with what it reads of the other, and       *)
(* pushes its own value or adopts the other's.                             *)
(*                                                                         *)
(* The read of the remote object, the push, the two writes of an adoption  *)
(* and the status write are steps of their own: the other controller, an   *)
(* operator or a crash may come in between.  A transition is abstracted to *)
(* its beginning and its end; FailoverTransition has what lies between.    *)
(***************************************************************************)
EXTENDS Integers, FiniteSets

CONSTANTS
    Cluster,     \* the two clusters
    ClusterID,   \* their IDs, as numbers in lexicographic order; 0 is ""
    MaxFlips,    \* bound: changes of failoverActive by operators
    MaxTime,     \* bound: seconds that pass
    MaxFaults,   \* bound: crashes and failed calls
    MaxRaces     \* bound: reconciles that overlap one of the other cluster
                 \* or start from an old copy

Direction == {"failover", "failback"}

ASSUME ClusterAssumption ==
    /\ \E a, b \in Cluster : a # b /\ Cluster = {a, b}
    /\ ClusterID \in [Cluster -> Nat \ {0}]
    /\ \A a, b \in Cluster : ClusterID[a] = ClusterID[b] => a = b
ASSUME SyncBoundAssumption == MaxFlips \in Nat /\ MaxTime \in Nat \ {0}
                              /\ MaxFaults \in Nat /\ MaxRaces \in Nat

\* What the sync reads and writes of a FailoverService.
FailoverService ==
    [active : Direction,             \* spec.failoverActive
     last   : Direction \cup {"unset"},  \* status.lastKnownFailoverActive
     gen    : Nat,                   \* status.activeGeneration
     sct    : Nat,                   \* status.specChangeTime in seconds, 0 if nil
     tr     : Direction \cup {"none"},   \* target of the transition in flight
     id     : Nat]                   \* the cluster-id annotation, 0 if not set yet

PCs == {"off", "read", "push", "adopt", "adoptStatus", "begin", "write"}

VARIABLES
    obj,     \* the FailoverService of each cluster, in its API server
    cache,   \* the version of it in the cluster's informer cache
    rec,     \* the reconcile in flight in each cluster
    clock,   \* the time both clusters agree on, in seconds
    flips, faults, races,   \* counters the bounds apply to
    want,    \* history: the value the last operator chose
    calm     \* history: operators only changed a system at rest

vars == <<obj, cache, rec, clock, flips, faults, races, want, calm>>

NewObject == [active |-> "failback", last |-> "unset", gen |-> 0, sct |-> 0,
              tr |-> "none", id |-> 0]

NoReconcile == [pc |-> "off", fs |-> NewObject, seen |-> NewObject, fresh |-> FALSE]

\* pc, the in-memory copy, the remote object as Sync read it, and whether the
\* copy still has the resourceVersion of the stored object.
Reconcile == [pc : PCs, fs : FailoverService, seen : FailoverService, fresh : BOOLEAN]

Other(c) == CHOOSE d \in Cluster : d # c

Opposite(d) == IF d = "failover" THEN "failback" ELSE "failover"

InFlight(fs) == fs.tr # "none"

-----------------------------------------------------------------------------
(* Who wins *)

\* Variant: the change time is the only tie-breaker.
RemoteWins_TimeOnly(local, remote) ==
    \/ remote.gen > local.gen
    \/ remote.gen = local.gen /\ remote.sct >= local.sct

\* Sync's conflict resolution: higher generation, later change if both times
\* are known, higher cluster ID.
RemoteWins(local, remote) ==
    \/ remote.gen > local.gen
    \/ /\ remote.gen = local.gen
       /\ \/ local.sct # 0 /\ remote.sct > local.sct
          \/ (local.sct = 0 \/ remote.sct = 0 \/ remote.sct = local.sct) /\ remote.id > local.id

-----------------------------------------------------------------------------
(* The copy a reconcile works on *)

\* reconcileIdle and beginTransition: an observed change starts a transition.
Begun(fs, now) == [fs EXCEPT !.sct = now, !.tr = fs.active]

\* Variant: the generation is bumped by the sync only.
Completed_NoBump(fs) == [fs EXCEPT !.last = fs.tr, !.tr = "none"]

\* completeTransition up to the sync.
Completed(fs) == [fs EXCEPT !.last = fs.tr, !.gen = @ + 1, !.tr = "none"]

\* reconcileSteadyState: the value the cluster is at becomes the baseline.
Steady(fs) == [fs EXCEPT !.last = fs.active]

\* Variant: the adopted direction becomes the baseline at once.
Adopted_NoBaseline(fs, remote, was) ==
    [fs EXCEPT !.active = remote.active, !.last = remote.active, !.sct = remote.sct,
               !.gen = remote.gen, !.tr = "none"]

\* The adopted value in the spec, then applyRemoteWinnerState.
Adopted(fs, remote, was) ==
    [fs EXCEPT !.active = remote.active, !.last = was, !.sct = remote.sct,
               !.gen = remote.gen, !.tr = "none"]

\* Variant: a cluster at rest does not look at the other one.
Dispatch_NoAntiEntropy(fs) ==
    IF InFlight(fs) THEN [pc |-> "read", fs |-> Completed(fs)]
    ELSE IF fs.last \notin {"unset", fs.active} THEN [pc |-> "write", fs |-> Begun(fs, clock)]
    ELSE [pc |-> "write", fs |-> Steady(fs)]

\* Variant: an observed change is completed without having been begun.
Dispatch_NotBegun(fs) ==
    IF fs.last \notin {"unset", fs.active} THEN [pc |-> "read", fs |-> Completed(fs)]
    ELSE [pc |-> "read", fs |-> Steady(fs)]

\* Reconcile up to its first call that leaves the process.
Dispatch(fs) ==
    IF InFlight(fs) THEN [pc |-> "read", fs |-> Completed(fs)]
    ELSE IF fs.last \notin {"unset", fs.active} THEN [pc |-> "write", fs |-> Begun(fs, clock)]
    ELSE [pc |-> "read", fs |-> Steady(fs)]

-----------------------------------------------------------------------------
Init ==
    /\ obj = [c \in Cluster |-> NewObject]
    /\ cache = obj
    /\ rec = [c \in Cluster |-> NoReconcile]
    /\ clock = 1 /\ flips = 0 /\ faults = 0 /\ races = 0
    /\ want = "failback" /\ calm = TRUE

\* A reconcile of cluster c goes to pc with copy fs.
Goto(c, pc, fs) == rec' = [rec EXCEPT ![c].pc = pc, ![c].fs = fs]

Return(c) == rec' = [rec EXCEPT ![c] = NoReconcile]

environment == <<clock, flips, want, calm>>

\* A start that meets a reconcile of the other cluster, or has an old copy.
Race(c) == rec[Other(c)].pc # "off" \/ cache[c] # obj[c]

CountRace(c) == races' = (IF Race(c) THEN races + 1 ELSE races) /\ races' <= MaxRaces

\* A reconcile starts from the cached object.
StartReconcile(c) ==
    /\ rec[c].pc = "off" /\ cache[c].id # 0 /\ CountRace(c)
    /\ LET d == Dispatch(cache[c])
       IN  rec' = [rec EXCEPT ![c] = [pc |-> d.pc, fs |-> d.fs, seen |-> NewObject,
                                      fresh |-> (cache[c] = obj[c])]]
    /\ UNCHANGED <<obj, cache, faults, environment>>

\* The first reconcile stamps the cluster-id annotation and goes on.
StampClusterID(c) ==
    /\ rec[c].pc = "off" /\ cache[c].id = 0 /\ cache[c] = obj[c] /\ CountRace(c)
    /\ LET fs == [obj[c] EXCEPT !.id = ClusterID[c]]
           d  == Dispatch(fs)
       IN  /\ obj' = [obj EXCEPT ![c] = fs]
           /\ rec' = [rec EXCEPT ![c] = [pc |-> d.pc, fs |-> d.fs, seen |-> NewObject, fresh |-> TRUE]]
    /\ UNCHANGED <<cache, faults, environment>>

\* Sync: get the remote object and decide.
SyncRead(c) ==
    /\ rec[c].pc = "read"
    /\ LET local  == rec[c].fs
           remote == obj[Other(c)]
           next   == IF remote.active = local.active THEN "write"
                     ELSE IF RemoteWins(local, remote) THEN "adopt" ELSE "push"
       IN  rec' = [rec EXCEPT ![c].pc = next,
                              ![c].seen = IF next = "adopt" THEN remote ELSE NewObject]
    /\ UNCHANGED <<obj, cache, faults, races, environment>>

\* Sync: the remote spec is overwritten, whatever it is by now.
SyncPush(c) ==
    LET o == Other(c) IN
    /\ rec[c].pc = "push"
    /\ obj' = [obj EXCEPT ![o].active = rec[c].fs.active]
    /\ rec' = [rec EXCEPT ![c].pc = "write",
                          ![o].fresh = @ /\ obj[o].active = rec[c].fs.active]
    /\ UNCHANGED <<cache, faults, races, environment>>

\* Sync fails to read or to push; the caller logs it and goes on.
SyncFail(c) ==
    /\ rec[c].pc \in {"read", "push"} /\ faults < MaxFaults
    /\ faults' = faults + 1
    /\ Goto(c, "write", rec[c].fs)
    /\ UNCHANGED <<obj, cache, races, environment>>

\* r.Update with the remote value in the spec; the answer fills the copy.
AdoptSpec(c) ==
    /\ rec[c].pc = "adopt" /\ rec[c].fresh
    /\ obj' = [obj EXCEPT ![c].active = rec[c].seen.active]
    /\ Goto(c, "adoptStatus", Adopted(obj[c], rec[c].seen, rec[c].fs.last))
    /\ UNCHANGED <<cache, faults, races, environment>>

\* r.Status().Update; a changed direction goes on to beginTransition.
AdoptStatus(c) ==
    /\ rec[c].pc = "adoptStatus" /\ rec[c].fresh
    /\ obj' = [obj EXCEPT ![c] = rec[c].fs]
    /\ IF rec[c].fs.last # rec[c].fs.active THEN Goto(c, "begin", rec[c].fs) ELSE Return(c)
    /\ UNCHANGED <<cache, faults, races, environment>>

\* beginTransition with trigger remote-sync: the adopted change time stays.
BeginRemoteSync(c) ==
    /\ rec[c].pc = "begin" /\ rec[c].fresh
    /\ obj' = [obj EXCEPT ![c].tr = obj[c].active]
    /\ Return(c)
    /\ UNCHANGED <<cache, faults, races, environment>>

\* The status write that ends every other reconcile.
WriteStatus(c) ==
    /\ rec[c].pc = "write" /\ rec[c].fresh
    /\ obj' = [obj EXCEPT ![c] = rec[c].fs]
    /\ Return(c)
    /\ UNCHANGED <<cache, faults, races, environment>>

\* A write from a copy that is not current is refused.
Conflict(c) ==
    /\ rec[c].pc \in {"adopt", "adoptStatus", "begin", "write"} /\ ~rec[c].fresh
    /\ Return(c)
    /\ UNCHANGED <<obj, cache, faults, races, environment>>

\* The process dies or a local API call fails.
Abort(c) ==
    /\ rec[c].pc # "off" /\ faults < MaxFaults
    /\ faults' = faults + 1
    /\ Return(c)
    /\ UNCHANGED <<obj, cache, races, environment>>

\* A watch event reaches the informer.
SyncCache(c) ==
    /\ cache[c] # obj[c]
    /\ cache' = [cache EXCEPT ![c] = obj[c]]
    /\ UNCHANGED <<obj, rec, faults, races, environment>>

AtRest ==
    \A c \in Cluster : /\ rec[c].pc = "off" /\ cache[c] = obj[c]
                       /\ obj[c].last = obj[c].active /\ ~InFlight(obj[c])
                       /\ obj[c].active = obj[Other(c)].active

\* An operator changes spec.failoverActive in one cluster.
OperatorFlip(c) ==
    /\ flips < MaxFlips /\ flips' = flips + 1
    /\ obj' = [obj EXCEPT ![c].active = Opposite(@)]
    /\ rec' = [rec EXCEPT ![c].fresh = FALSE]
    /\ want' = Opposite(obj[c].active) /\ calm' = (calm /\ AtRest)
    /\ UNCHANGED <<cache, faults, races, clock>>

Tick ==
    /\ clock < MaxTime /\ clock' = clock + 1
    /\ UNCHANGED <<obj, cache, rec, faults, races, flips, want, calm>>

ReconcileStep(c) ==
    \/ StartReconcile(c) \/ StampClusterID(c) \/ SyncRead(c) \/ SyncPush(c)
    \/ AdoptSpec(c) \/ AdoptStatus(c) \/ BeginRemoteSync(c)
    \/ WriteStatus(c) \/ Conflict(c)

Next ==
    \/ \E c \in Cluster : ReconcileStep(c) \/ SyncCache(c) \/ SyncFail(c) \/ Abort(c)
    \/ \E c \in Cluster : OperatorFlip(c)
    \/ Tick

Spec == Init /\ [][Next]_vars

\* The work queue and the informer of each cluster are served.
FairSpec == Spec /\ \A c \in Cluster : SF_vars(ReconcileStep(c)) /\ WF_vars(SyncCache(c))

-----------------------------------------------------------------------------
(* Properties *)

\* Every field has its type; in particular a transition that completes has a
\* direction, and generations and times are natural numbers.
TypeOK ==
    /\ obj \in [Cluster -> FailoverService] /\ cache \in [Cluster -> FailoverService]
    /\ rec \in [Cluster -> Reconcile]
    /\ clock \in 1..MaxTime /\ flips \in 0..MaxFlips
    /\ faults \in 0..MaxFaults /\ races \in 0..MaxRaces
    /\ want \in Direction /\ calm \in BOOLEAN

\* Whatever two stamped objects hold, equal generations, times within one second
\* and missing times included, the two syncers name the same winner: exactly one
\* of them defers to the other (the conflict resolution of Sync).
OneWinner ==
    \A c, d \in Cluster :
        c # d /\ obj[c].id # 0 /\ obj[d].id # 0
            => (RemoteWins(obj[c], obj[d]) <=> ~RemoteWins(obj[d], obj[c]))

\* status.activeGeneration never goes back, not even when a winner's generation
\* is adopted, and a transition that ends always raises it (completeTransition,
\* applyRemoteWinnerState).
GenerationsGrow ==
    [][\A c \in Cluster :
          /\ obj'[c].gen >= obj[c].gen
          /\ InFlight(obj[c]) /\ ~InFlight(obj'[c]) => obj'[c].gen > obj[c].gen]_vars

\* What the stored objects show of the two clusters.
Protocol == INSTANCE DirectionProtocol WITH
    dir  <- [c \in Cluster |-> obj[c].tr],
    mode <- [c \in Cluster |-> obj[c].last],
    gen  <- [c \in Cluster |-> obj[c].gen]

\* Whatever is read late, pushed across, adopted in two writes or lost in
\* between: a cluster changes its direction only by a transition away from it,
\* and no generation comes up that no completed transition has made
\* (completeTransition, applyRemoteWinnerState, reconcileIdle).
ImplementsProtocol == Protocol!DSpec

Settled ==
    \A c \in Cluster : /\ obj[c].active = obj[Other(c)].active
                       /\ obj[c].last = obj[c].active /\ ~InFlight(obj[c])

\* Crossing pushes, pushes decided on an outdated read, adoptions that lost their
\* second write, failed pushes and old copies may each leave the clusters at odds;
\* once operators, faults and races stop, both end up at the same value with
\* their transitions done, and stay there (Sync and the anti-entropy reconcile).
Agreement == <>[]Settled

\* Operators who only touch a system at rest get what they asked for: the cluster
\* whose spec changed more recently takes precedence (Sync's conflict resolution).
FlipStands == calm /\ AtRest => \A c \in Cluster : obj[c].active = want
=============================================================================
