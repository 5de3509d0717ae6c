---------------------- MODULE TransitionHistoryProofs ----------------------
(* What FailoverTransition leaves behind: its events follow the persisted     *)
(* status, its work queue never loses a wakeup, its actions run in order and  *)
(* for the transition in flight, traffic moves only when and where it may,    *)
(* and the Jobs of a transition are gone before the transition is.            *)
EXTENDS PipelineRefinementProofs

-----------------------------------------------------------------------------
(* Which transition a copy belongs to *)

\* The operators on the status of a transition leave its id alone.
LEMMA SameId ==
    ASSUME NEW fs \in FailoverService, NEW r, NEW p, NEW s
    PROVE  /\ SetResult(fs, r).tr.id = fs.tr.id /\ NextAction(fs).tr.id = fs.tr.id
           /\ GoToPhase(fs, p).tr.id = fs.tr.id /\ WithStatus(fs, s).tr.id = fs.tr.id
<1>1. ASSUME NEW q PROVE SetResult(fs, q).tr.id = fs.tr.id
  BY <1>1 DEF SetResult, FailoverService, Transition
<1> QED BY <1>1 DEF NextAction, GoToPhase, WithStatus, FailoverService, Transition

\* So does handleForceAdvance.
LEMMA ForceAdvancedId ==
    ASSUME NEW fs \in FailoverService
    PROVE  ForceAdvanced(fs).tr.id = fs.tr.id
<1>1. ASSUME NEW n \in FailoverService PROVE [n EXCEPT !.actionFailed = FALSE].tr = n.tr
  BY <1>1 DEF FailoverService
<1>2. CASE ActionPhase(fs) /\ fs.tr.idx < Len(PhaseResults(fs))
  <2> DEFINE r == [CurrentResult(fs) EXCEPT !.status = "Skipped"]
  <2>1. r \in Result
    BY <1>2, CurrentResultTyped DEF Result, ActionStatus
  <2> HIDE DEF r
  <2>2. SetResult(fs, r) \in FailoverService
    BY <1>2, <2>1, SetResultTyped
  <2>3. NextAction(SetResult(fs, r)) \in FailoverService
    BY <2>2, StepTyped DEF Phases
  <2>4. ForceAdvanced(fs) = [NextAction(SetResult(fs, r)) EXCEPT !.actionFailed = FALSE]
    BY <1>2 DEF ForceAdvanced, ActionPhase, r
  <2> QED BY <1>1, <2>2, <2>3, <2>4, SameId
<1>3. CASE fs.tr.phase \in {"UpdatingResources", "FlushingConnections"}
  <2>1. \E p \in Phases : ForceAdvanced(fs) = [GoToPhase(fs, p) EXCEPT !.actionFailed = FALSE]
    BY <1>3 DEF ForceAdvanced, ActionPhase, Phases
  <2> QED BY <1>1, <2>1, StepTyped, SameId
<1>4. CASE /\ ~(ActionPhase(fs) /\ fs.tr.idx < Len(PhaseResults(fs)))
           /\ fs.tr.phase \notin {"UpdatingResources", "FlushingConnections"}
  <2>1. ForceAdvanced(fs) = [fs EXCEPT !.actionFailed = FALSE]
    BY <1>4 DEF ForceAdvanced, ActionPhase
  <2> QED BY <1>1, <2>1
<1> QED BY <1>2, <1>3, <1>4

\* A new transition has an id nobody has used.
LEMMA BegunId ==
    ASSUME NEW fs \in FailoverService
    PROVE  Begun(fs).tr.id = begun + 1
<1> DEFINE h == fs.hooks[fs.active]
           t == [phase |-> IF Len(h.pre) > 0 THEN "ExecutingPreActions" ELSE "UpdatingResources",
                 dir |-> fs.active, id |-> begun + 1, idx |-> 0,
                 pre |-> PendingResults(h.pre), post |-> PendingResults(h.post),
                 old |-> fs.addr[Opposite(fs.active)], new |-> fs.addr[fs.active], kill |-> 0]
<1>1. t.id = begun + 1
  OBVIOUS
<1>2. Begun(fs) = [fs EXCEPT !.tr = t]
  BY DEF Begun
<1> HIDE DEF t
<1> QED BY <1>1, <1>2 DEF FailoverService

-----------------------------------------------------------------------------
(* Events follow the status *)

\* Which transition the status about to be written belongs to: a new one, none
\* at all, or, if the copy can be written, the one the object shows.
IdsCurrent ==
    /\ rec.pc = "write" /\ rec.then = "create" => rec.fs.tr.id = begun + 1
    /\ rec.pc = "write" /\ rec.then # "create" /\ rec.fresh => rec.fs.tr.id \in {obj.tr.id, 0}
    /\ rec.pc = "create" => rec.fs.tr.id <= begun
    /\ rec.pc = "completeSync" => rec.fs.tr.id = 0
    /\ rec.pc = "write" /\ rec.then \in {"succeed", "succeedAdopted"} => rec.fs.tr.id = 0
    /\ rec.pc = "succeed" => obj.tr.id = 0

EventInv == IdsCurrent /\ EventsFollowStatus

\* A step that starts or closes no event and does not change the object's transition.
LEMMA EventsKept ==
    ASSUME EventsFollowStatus, obj'.tr.id = obj.tr.id, UNCHANGED <<events, begun>>
    PROVE  EventsFollowStatus'
BY DEF EventsFollowStatus

\* An update that does not close the event cannot make it say Succeeded.
LEMMA OpenUpdateKeeps ==
    ASSUME TypeOK, EventsFollowStatus, NEW id, NEW o \in {"ForceAdvanced", "Failed"},
           UpdateFailoverEvent(id, o), obj' = obj, begun' = begun
    PROVE  EventsFollowStatus'
<1>1. \A i \in DOMAIN events : /\ events[i] = "None" => EventOutcome(events[i], o) = "None"
                               /\ EventOutcome(events[i], o) = "Succeeded" => events[i] = "Succeeded"
  BY DEF EventOutcome
<1>2. DOMAIN events' = DOMAIN events /\ events \in [1..MaxChanges -> Outcomes]
  BY DEF UpdateFailoverEvent, TypeOK
<1>3. \A i \in DOMAIN events : events'[i] \in {events[i], EventOutcome(events[i], o)}
  BY <1>2 DEF UpdateFailoverEvent
<1> QED BY <1>1, <1>2, <1>3 DEF EventsFollowStatus

\* A handler of a transition in flight writes the status of that transition.
LEMMA WriteKeepsIds ==
    ASSUME TypeOK, CurrentCopy, rec.pc = "top", obj' = obj,
           NEW n, n.tr.id = rec.fs.tr.id,
           NEW then \in {"requeue", "halt", "unannotate"}, Write(n, then)
    PROVE  IdsCurrent'
<1>1. rec'.pc = "write" /\ rec'.fs = n /\ rec'.fresh = rec.fresh /\ rec'.then = then
  BY DEF Write, TypeOK, Reconciles
<1>2. rec.fresh => rec.fs = obj
  BY DEF CurrentCopy
<1> QED BY <1>1, <1>2 DEF IdsCurrent

\* The end of a reconcile, and places where nothing is asked of the copy.
LEMMA NoIds ==
    ASSUME rec'.pc \in {"off", "top", "unannotate", "finalize", "steadySync", "begin"}
    PROVE  IdsCurrent'
BY DEF IdsCurrent

\* Initially there is no event and no reconcile.
LEMMA EventInit == Init => EventInv
BY DEF Init, NoReconcile, EventInv, IdsCurrent, EventsFollowStatus

\* A reconcile that ends does so with no event and no object touched.
LEMMA EndKeepsEvents ==
    ASSUME EventsFollowStatus, rec' = NoReconcile, obj' = obj, UNCHANGED <<events, begun>>
    PROVE  EventInv'
BY NoIds, EventsKept DEF NoReconcile, EventInv

\* Steps of the queue, the cache and the API server.
LEMMA EventQueueSteps ==
    ASSUME TypeOK, CurrentCopy, EventInv,
           StartReconcile \/ SyncCache \/ Abort \/ Conflict \/ WriteStatus
    PROVE  EventInv'
<1>1. CASE StartReconcile
  <2>1. rec'.pc \in {"off", "top"}
    BY <1>1 DEF StartReconcile, NoReconcile
  <2> QED BY <1>1, <2>1, NoIds, EventsKept DEF StartReconcile, EventInv, world, history
<1>2. CASE SyncCache
  BY <1>2, EventsKept DEF SyncCache, EventInv, IdsCurrent, world, history
<1>3. CASE Abort \/ Conflict
  BY <1>3, EndKeepsEvents DEF Abort, Conflict, EventInv, world, history
<1>4. CASE WriteStatus
  <2>1. /\ rec.pc = "write" /\ rec.fresh /\ obj' = rec.fs /\ events' = events
        /\ rec' = AfterWrite /\ begun' = IF rec.then = "create" THEN begun + 1 ELSE begun
    BY <1>4 DEF WriteStatus
  <2>2. /\ begun \in Nat /\ events \in [1..MaxChanges -> Outcomes]
        /\ MaxChanges \in Nat
    BY BoundAssumption DEF TypeOK
  <2>3. IdsCurrent'
    <3>1. \/ rec'.pc \in {"off", "unannotate", "begin"}
          \/ rec.then = "create" /\ rec'.pc = "create" /\ rec'.fs = rec.fs
          \/ rec.then \in {"succeed", "succeedAdopted"} /\ rec'.pc = "succeed"
      BY <2>1 DEF AfterWrite, NoReconcile, TypeOK, Reconciles
    <3>2. CASE rec'.pc \in {"off", "unannotate", "begin"}
      BY <3>2, NoIds
    <3>3. CASE rec.then = "create" /\ rec'.pc = "create" /\ rec'.fs = rec.fs
      BY <2>1, <2>2, <3>3 DEF EventInv, IdsCurrent
    <3>4. CASE rec.then \in {"succeed", "succeedAdopted"} /\ rec'.pc = "succeed"
      BY <2>1, <3>4 DEF EventInv, IdsCurrent
    <3> QED BY <3>1, <3>2, <3>3, <3>4
  <2>4. EventsFollowStatus'
    <3>1. CASE rec.then = "create"
      <4>1. obj'.tr.id = begun + 1 /\ begun' = begun + 1
        BY <2>1, <3>1 DEF EventInv, IdsCurrent
      <4>2. \A id \in 1..MaxChanges : events[id] # "None" => id <= begun
        BY <2>2 DEF EventInv, EventsFollowStatus
      <4> QED BY <2>1, <2>2, <4>1, <4>2 DEF EventsFollowStatus
    <3>2. CASE rec.then # "create"
      <4>1. obj'.tr.id \in {obj.tr.id, 0} /\ begun' = begun
        BY <2>1, <3>2 DEF EventInv, IdsCurrent
      <4> QED BY <2>1, <2>2, <4>1 DEF EventInv, EventsFollowStatus
    <3> QED BY <3>1, <3>2
  <2> QED BY <2>3, <2>4 DEF EventInv
<1> QED BY <1>1, <1>2, <1>3, <1>4

\* Deletion, metadata and force-advance.
LEMMA EventMetadataSteps ==
    ASSUME TypeOK, CurrentCopy, EventInv,
           ReconcileDeletion \/ RemoveFinalizer \/ EnsureMetadata \/ ForceAdvance \/ RemoveAnnotation
    PROVE  EventInv'
<1> USE CopyTyped
<1>1. CASE ReconcileDeletion
  <2>1. rec'.pc = "finalize"
    BY <1>1 DEF ReconcileDeletion, TypeOK, Reconciles
  <2> QED BY <1>1, <2>1, NoIds, EventsKept DEF ReconcileDeletion, EventInv, stores, history
<1>2. CASE RemoveFinalizer \/ EnsureMetadata \/ RemoveAnnotation
  <2>1. rec.fs = obj
    BY <1>2 DEF RemoveFinalizer, EnsureMetadata, RemoveAnnotation, CurrentCopy
  <2>2. obj'.tr.id = obj.tr.id
    BY <1>2, <2>1 DEF RemoveFinalizer, EnsureMetadata, RemoveAnnotation, FailoverService
  <2>3. rec'.pc \in {"off", "top"}
    BY <1>2 DEF RemoveFinalizer, EnsureMetadata, RemoveAnnotation, NoReconcile, TypeOK, Reconciles
  <2> QED BY <1>2, <2>2, <2>3, NoIds, EventsKept
          DEF RemoveFinalizer, EnsureMetadata, RemoveAnnotation, EventInv, world, history
<1>3. CASE ForceAdvance
  <2>1. CASE InFlight(rec.fs)
    <3>1. IdsCurrent'
      BY <1>3, <2>1, ForceAdvancedId, WriteKeepsIds DEF ForceAdvance, Ready, stores
    <3>2. EventsFollowStatus'
      BY <1>3, <2>1, OpenUpdateKeeps DEF ForceAdvance, EventInv, stores, history
    <3> QED BY <3>1, <3>2 DEF EventInv
  <2>2. CASE ~InFlight(rec.fs)
    <3>1. rec'.pc = "unannotate"
      BY <1>3, <2>2 DEF ForceAdvance, TypeOK, Reconciles
    <3> QED BY <1>3, <2>2, <3>1, NoIds, EventsKept DEF ForceAdvance, EventInv, stores, history
  <2> QED BY <2>1, <2>2
<1> QED BY <1>1, <1>2, <1>3

\* Steps of an idle object.
LEMMA EventIdleSteps ==
    ASSUME TypeOK, CurrentCopy, EventInv,
           \/ DetectTransition \/ CreateFailoverEvent \/ ReconcileIdleService \/ RecreateFails
           \/ SteadyState \/ SteadyAdopt \/ BeginRemoteSync
    PROVE  EventInv'
<1> USE CopyTyped
<1>1. CASE DetectTransition \/ BeginRemoteSync
  <2>1. Write(Begun(rec.fs), "create") /\ UNCHANGED <<obj, events, begun>>
    BY <1>1 DEF DetectTransition, BeginRemoteSync, stores, world, history
  <2>2. rec'.pc = "write" /\ rec'.then = "create" /\ rec'.fs = Begun(rec.fs)
    BY <2>1 DEF Write, TypeOK, Reconciles
  <2>3. IdsCurrent'
    BY <2>1, <2>2, BegunId DEF IdsCurrent
  <2> QED BY <2>1, <2>3, EventsKept DEF EventInv
<1>2. CASE CreateFailoverEvent
  <2>1. PICK o \in {"None", "Created", "InProgress"} :
          events' = [events EXCEPT ![rec.fs.tr.id] = o]
    BY <1>2 DEF CreateFailoverEvent
  <2>2. rec.fs.tr.id <= begun /\ UNCHANGED <<obj, begun>> /\ rec' = NoReconcile
    BY <1>2 DEF CreateFailoverEvent, EventInv, IdsCurrent, history
  <2>3. EventsFollowStatus'
    BY <2>1, <2>2 DEF EventInv, EventsFollowStatus, TypeOK
  <2> QED BY <2>2, <2>3, NoIds DEF NoReconcile, EventInv
<1>3. CASE RecreateFails
  BY <1>3, EndKeepsEvents DEF RecreateFails, EventInv, history
<1>4. CASE ReconcileIdleService
  <2>1. rec'.pc = "steadySync"
    BY <1>4 DEF ReconcileIdleService, TypeOK, Reconciles
  <2> QED BY <1>4, <2>1, NoIds, EventsKept DEF ReconcileIdleService, EventInv, stores, history
<1>5. CASE SteadyState
  <2> DEFINE n == [rec.fs EXCEPT !.lastKnown = rec.fs.active]
  <2>1. n.tr = rec.fs.tr
    BY DEF FailoverService
  <2>2. Write(n, "requeue") /\ UNCHANGED <<obj, events, begun>> /\ rec.pc = "steadySync"
    BY <1>5 DEF SteadyState, stores, world, history
  <2> HIDE DEF n
  <2>3. rec'.pc = "write" /\ rec'.then = "requeue" /\ rec'.fs = n /\ rec'.fresh = rec.fresh
    BY <2>2 DEF Write, TypeOK, Reconciles
  <2>4. rec.fresh => rec.fs = obj
    BY <2>2 DEF CurrentCopy
  <2>5. IdsCurrent'
    BY <2>1, <2>2, <2>3, <2>4 DEF IdsCurrent
  <2> QED BY <2>2, <2>5, EventsKept DEF EventInv
<1>6. CASE SteadyAdopt
  <2>1. PICK g \in RemoteGens : Write(Adopted(obj', rec.fs.active, g), "adopted")
    BY <1>6 DEF SteadyAdopt
  <2>2. obj' = [obj EXCEPT !.active = Opposite(rec.fs.active)] /\ UNCHANGED <<events, begun>>
    BY <1>6 DEF SteadyAdopt, world, history
  <2>3. obj'.tr = obj.tr
    BY <2>2 DEF FailoverService
  <2>4. Adopted(obj', rec.fs.active, g).tr = obj'.tr
    BY <2>2 DEF Adopted, FailoverService
  <2>5. rec'.pc = "write" /\ rec'.then = "adopted" /\ rec'.fs = Adopted(obj', rec.fs.active, g)
    BY <2>1 DEF Write, TypeOK, Reconciles
  <2>6. IdsCurrent'
    BY <2>4, <2>5 DEF IdsCurrent
  <2> QED BY <2>2, <2>3, <2>6, EventsKept DEF EventInv
<1> QED BY <1>1, <1>2, <1>3, <1>4, <1>5, <1>6

\* Every outcome of an action is written for the transition it belongs to.
LEMMA OutcomeKeepsIds ==
    ASSUME TypeOK, CurrentCopy, DispatchAction("Running"), obj' = obj,
           NEW o \in {"error", "pending", "success", "failure"}, NEW job \in BOOLEAN,
           RecordOutcome(o, job)
    PROVE  IdsCurrent'
<1>1. rec.pc = "top" /\ rec.fs \in FailoverService
  BY CopyTyped DEF DispatchAction, Ready
<1>2. PICK q \in Result : Write(SetResult(rec.fs, q), "requeue")
                            \/ Write(NextAction(SetResult(rec.fs, q)), "requeue")
  BY OutcomeIsResult
<1>3. SetResult(rec.fs, q) \in FailoverService
  BY <1>1, ActionTyped, SetResultTyped
<1>4. /\ SetResult(rec.fs, q).tr.id = rec.fs.tr.id
      /\ NextAction(SetResult(rec.fs, q)).tr.id = rec.fs.tr.id
  BY <1>1, <1>3, SameId
<1> QED BY <1>1, <1>2, <1>4, WriteKeepsIds

\* The action phases.
LEMMA EventActionSteps ==
    ASSUME TypeOK, CurrentCopy, EventInv,
           \/ LeavePreActions \/ MarkRunning \/ PassAction \/ HaltOnFailure
           \/ TimeoutAction \/ RunCall \/ RunJob
    PROVE  EventInv'
<1> USE CopyTyped
<1>1. obj' = obj /\ begun' = begun /\ rec.pc = "top"
  BY DEF LeavePreActions, MarkRunning, PassAction, HaltOnFailure, TimeoutAction, RunCall,
     RunJob, Dispatch, DispatchAction, Ready, stores, history
<1>2. EventsFollowStatus'
  <2>1. CASE HaltOnFailure
    BY <1>1, <2>1, OpenUpdateKeeps DEF HaltOnFailure, EventInv
  <2>2. CASE ~HaltOnFailure
    <3>1. events' = events
      BY <2>2 DEF LeavePreActions, MarkRunning, PassAction, TimeoutAction, RunCall, RunJob, world
    <3> QED BY <1>1, <3>1, EventsKept DEF EventInv
  <2> QED BY <2>1, <2>2
<1>3. IdsCurrent'
  <2>1. CASE LeavePreActions
    BY <1>1, <2>1, SameId, WriteKeepsIds DEF LeavePreActions
  <2>2. CASE MarkRunning \/ TimeoutAction
    BY <1>1, <2>2, SameId, WriteKeepsIds DEF MarkRunning, TimeoutAction
  <2>3. CASE PassAction
    <3> DEFINE n == IF CurrentResult(rec.fs).status = "Failed"
                    THEN WithStatus(rec.fs, "Skipped") ELSE rec.fs
    <3>1. n \in FailoverService /\ n.tr.id = rec.fs.tr.id
      BY <2>3, ActionTyped, WithStatusTyped, SameId DEF PassAction, ActionStatus
    <3>2. Write(NextAction(n), "requeue")
      BY <2>3 DEF PassAction
    <3> HIDE DEF n
    <3>3. NextAction(n).tr.id = rec.fs.tr.id
      BY <3>1, SameId
    <3> QED BY <1>1, <3>2, <3>3, WriteKeepsIds
  <2>4. CASE HaltOnFailure
    <3>1. [rec.fs EXCEPT !.actionFailed = TRUE].tr.id = rec.fs.tr.id
      BY DEF FailoverService
    <3> QED BY <1>1, <2>4, <3>1, WriteKeepsIds DEF HaltOnFailure
  <2>5. CASE RunCall
    BY <1>1, <2>5, OutcomeKeepsIds, CallOutcomesTyped DEF RunCall
  <2>6. CASE RunJob
    <3>1. \E o \in {"error", "pending", "success", "failure"} : RecordOutcome(o, TRUE) \/ RecordOutcome(o, FALSE)
      BY <2>6, JobOutcomeTyped DEF RunJob, NamedJobs, TypeOK
    <3> QED BY <1>1, <2>6, <3>1, OutcomeKeepsIds DEF RunJob
  <2> QED BY <2>1, <2>2, <2>3, <2>4, <2>5, <2>6
<1> QED BY <1>2, <1>3 DEF EventInv

\* Switching and flushing.
LEMMA EventFlushSteps ==
    ASSUME TypeOK, CurrentCopy, EventInv,
           \/ UpdateResources \/ SendKillSignal \/ SignalKillFails \/ CheckAcksFails
           \/ AwaitAcks \/ LeaveFlushing
    PROVE  EventInv'
<1> USE CopyTyped
<1>1. UNCHANGED <<obj, begun, events>> /\ rec.pc = "top"
  BY DEF UpdateResources, SendKillSignal, SignalKillFails, CheckAcksFails, AwaitAcks,
     LeaveFlushing, FlushDone, Dispatch, Ready, stores, world, history
<1>2. ASSUME NEW k PROVE [rec.fs EXCEPT !.killed = k].tr = rec.fs.tr
  BY <1>2 DEF FailoverService
<1>3. IdsCurrent'
  <2>1. CASE UpdateResources
    BY <1>1, <2>1, SameId, WriteKeepsIds DEF UpdateResources
  <2>2. CASE SendKillSignal
    <3>1. PICK k \in Tokens :
            Write([rec.fs EXCEPT !.tr.kill = k, !.killed = "WaitingForAcks"], "requeue")
      BY <2>2 DEF SendKillSignal
    <3>2. [rec.fs EXCEPT !.tr.kill = k, !.killed = "WaitingForAcks"].tr.id = rec.fs.tr.id
      BY DEF FailoverService, Transition
    <3> QED BY <1>1, <3>1, <3>2, WriteKeepsIds
  <2>3. CASE SignalKillFails
    BY <1>1, <1>2, <2>3, WriteKeepsIds DEF SignalKillFails
  <2>4. CASE CheckAcksFails
    <3>1. \/ Write([rec.fs EXCEPT !.killed = "AckTimeout"], "halt")
          \/ rec' = NoReconcile
      BY <2>4 DEF CheckAcksFails
    <3>2. CASE rec' = NoReconcile
      BY <3>2, NoIds DEF NoReconcile
    <3>3. CASE Write([rec.fs EXCEPT !.killed = "AckTimeout"], "halt")
      BY <1>1, <1>2, <3>3, WriteKeepsIds
    <3> QED BY <3>1, <3>2, <3>3
  <2>5. CASE AwaitAcks
    <3>1. \/ Write([rec.fs EXCEPT !.killed = "AckTimeout"], "halt")
          \/ Write(rec.fs, "requeue")
      BY <2>5 DEF AwaitAcks
    <3> QED BY <1>1, <1>2, <3>1, WriteKeepsIds
  <2>6. CASE LeaveFlushing
    <3> DEFINE m == [rec.fs EXCEPT !.killed = FlushReason(rec.fs)]
    <3>1. FlushReason(rec.fs) \in KillReasons
      BY DEF FlushReason, KillReasons
    <3>2. m \in FailoverService /\ m.tr.id = rec.fs.tr.id
      BY <1>2, <3>1 DEF FailoverService
    <3>3. Write(GoToPhase(m, "ExecutingPostActions"), "requeue")
      BY <2>6 DEF LeaveFlushing
    <3> HIDE DEF m
    <3>4. GoToPhase(m, "ExecutingPostActions").tr.id = rec.fs.tr.id
      BY <3>2, SameId
    <3> QED BY <1>1, <3>3, <3>4, WriteKeepsIds
  <2> QED BY <2>1, <2>2, <2>3, <2>4, <2>5, <2>6
<1> QED BY <1>1, <1>3, EventsKept DEF EventInv

\* completeTransition: the event is closed when the object shows no transition.
LEMMA EventCompleteSteps ==
    ASSUME TypeOK, CurrentCopy, EventInv,
           CompleteTransition \/ CompleteInSync \/ CompleteAdopt \/ CloseFailoverEvent
    PROVE  EventInv'
<1> USE CopyTyped
<1>1. CASE CompleteTransition
  <2> DEFINE m == IF rec.fs.tr.phase = "FlushingConnections"
                  THEN [rec.fs EXCEPT !.killed = FlushReason(rec.fs)] ELSE rec.fs
  <2>1. rec' = [rec EXCEPT !.pc = "completeSync", !.ev = rec.fs.tr.id, !.fs = Completed(m)]
        /\ UNCHANGED <<obj, events, begun>>
    BY <1>1 DEF CompleteTransition, stores, history
  <2>2. m \in FailoverService
    <3>1. FlushReason(rec.fs) \in KillReasons
      BY DEF FlushReason, KillReasons
    <3> QED BY <3>1 DEF FailoverService
  <2> HIDE DEF m
  <2>3. Completed(m).tr.id = 0
    BY <2>2 DEF Completed, NoTransition, FailoverService
  <2>4. rec'.pc = "completeSync" /\ rec'.fs = Completed(m)
    BY <2>1 DEF TypeOK, Reconciles
  <2>5. IdsCurrent'
    BY <2>3, <2>4 DEF IdsCurrent
  <2> QED BY <2>1, <2>5, EventsKept DEF EventInv
<1>2. CASE CompleteInSync
  <2>1. Write(rec.fs, "succeed") /\ UNCHANGED <<obj, events, begun>> /\ rec.fs.tr.id = 0
    BY <1>2 DEF CompleteInSync, EventInv, IdsCurrent, stores, world, history
  <2>2. rec'.pc = "write" /\ rec'.then = "succeed" /\ rec'.fs = rec.fs
    BY <2>1 DEF Write, TypeOK, Reconciles
  <2>3. IdsCurrent'
    BY <2>1, <2>2 DEF IdsCurrent
  <2> QED BY <2>1, <2>3, EventsKept DEF EventInv
<1>3. CASE CompleteAdopt
  <2> DEFINE e(x) == [x EXCEPT !.actionFailed = FALSE, !.tr = NoTransition]
  <2>1. PICK g \in RemoteGens :
          Write(e(Adopted(obj', rec.fs.lastKnown, g)), "succeedAdopted")
    BY <1>3 DEF CompleteAdopt
  <2>2. obj' = [obj EXCEPT !.active = Opposite(rec.fs.active)] /\ UNCHANGED <<events, begun>>
        /\ rec.pc = "completeSync" /\ rec.fresh
    BY <1>3 DEF CompleteAdopt, world, history
  <2>3. obj' \in FailoverService /\ obj'.tr = obj.tr /\ rec.fs.lastKnown \in Direction /\ g \in Nat
    <3>1. Opposite(rec.fs.active) \in Direction
      BY DEF Opposite, Direction
    <3>2. rec.fs.lastKnown \in Direction
      BY <2>2, FieldsTyped DEF CurrentCopy, TypeOK
    <3> QED BY <2>2, <3>1, <3>2, BoundAssumption DEF FailoverService, TypeOK
  <2> DEFINE a == Adopted(obj', rec.fs.lastKnown, g)
  <2>4. a \in FailoverService
    BY <2>3, AdoptedTyped
  <2>5. e(a).tr.id = 0
    <3> HIDE DEF a
    <3> QED BY <2>4 DEF FailoverService, NoTransition
  <2> HIDE DEF a
  <2>6. rec'.pc = "write" /\ rec'.then = "succeedAdopted" /\ rec'.fs = e(a)
    BY <2>1 DEF Write, TypeOK, Reconciles, a
  <2> HIDE DEF e
  <2>7. IdsCurrent'
    BY <2>5, <2>6 DEF IdsCurrent
  <2> QED BY <2>2, <2>3, <2>7, EventsKept DEF EventInv
<1>4. CASE CloseFailoverEvent
  <2>1. /\ obj.tr.id = 0 /\ UNCHANGED <<obj, begun>> /\ UpdateFailoverEvent(rec.ev, "Succeeded")
        /\ events \in [1..MaxChanges -> Outcomes] /\ MaxChanges \in Nat
    BY <1>4, BoundAssumption DEF CloseFailoverEvent, EventInv, IdsCurrent, history, TypeOK
  <2>2. \A i \in DOMAIN events : events[i] = "None" => EventOutcome(events[i], "Succeeded") = "None"
    BY DEF EventOutcome
  <2>3. /\ DOMAIN events' = 1..MaxChanges
        /\ \A i \in 1..MaxChanges : events'[i] \in {events[i], EventOutcome(events[i], "Succeeded")}
    BY <2>1 DEF UpdateFailoverEvent
  <2>4. EventsFollowStatus'
    BY <2>1, <2>2, <2>3 DEF EventInv, EventsFollowStatus
  <2>5. rec'.pc \in {"off", "begin"}
    BY <1>4 DEF CloseFailoverEvent, NoReconcile, TypeOK, Reconciles
  <2> QED BY <2>4, <2>5, NoIds DEF EventInv
<1> QED BY <1>1, <1>2, <1>3, <1>4

\* Other writers do not touch the status; Jobs, agents and time do not touch the object.
LEMMA EventEnvironmentSteps ==
    ASSUME TypeOK, CurrentCopy, EventInv,
           \/ FlipSpec \/ Annotate \/ EditHooks \/ EditAddresses \/ DeleteObject
           \/ FinishJob \/ AgentsAck \/ Expire
    PROVE  EventInv'
<1>1. CASE FinishJob \/ AgentsAck \/ Expire
  BY <1>1, EventsKept DEF FinishJob, AgentsAck, Expire, stores, history, EventInv, IdsCurrent
<1>2. CASE FlipSpec \/ Annotate \/ EditHooks \/ EditAddresses \/ DeleteObject
  <2>1. PICK o : OthersWrite(o) /\ o.tr = obj.tr /\ begun' = begun
    <3>1. CASE FlipSpec
      BY <3>1 DEF FlipSpec, history, TypeOK, FailoverService
    <3>2. CASE Annotate
      BY <3>2 DEF Annotate, history, TypeOK, FailoverService
    <3>3. CASE DeleteObject
      BY <3>3 DEF DeleteObject, history, TypeOK, FailoverService
    <3>4. CASE EditHooks
      BY <3>4 DEF EditHooks, TypeOK, FailoverService
    <3>5. CASE EditAddresses
      BY <3>5 DEF EditAddresses, history, TypeOK, FailoverService
    <3> QED BY <1>2, <3>1, <3>2, <3>3, <3>4, <3>5
  <2>2. /\ rec'.pc = rec.pc /\ rec'.fs = rec.fs /\ rec'.then = rec.then /\ ~rec'.fresh
        /\ obj'.tr = obj.tr /\ events' = events
    BY <2>1 DEF OthersWrite, world, TypeOK, Reconciles
  <2>3. IdsCurrent'
    BY <2>1, <2>2 DEF EventInv, IdsCurrent
  <2> QED BY <2>1, <2>2, <2>3, EventsKept DEF EventInv
<1> QED BY <1>1, <1>2

\* Every step keeps EventInv.
LEMMA EventNext == TypeOK /\ CurrentCopy /\ EventInv /\ [Next]_vars => EventInv'
<1> SUFFICES ASSUME TypeOK, CurrentCopy, EventInv, [Next]_vars PROVE EventInv'
  OBVIOUS
<1>1. CASE UNCHANGED vars
  BY <1>1 DEF vars, stores, world, history, EventInv, IdsCurrent, EventsFollowStatus
<1>2. CASE ReconcileStep
  BY <1>2, EventQueueSteps, EventMetadataSteps, EventIdleSteps, EventActionSteps,
     EventFlushSteps, EventCompleteSteps DEF ReconcileStep
<1>3. CASE Environment
  BY <1>3, EventQueueSteps, EventIdleSteps, EventFlushSteps, EventEnvironmentSteps DEF Environment
<1> QED BY <1>1, <1>2, <1>3 DEF Next

\* An event is created only for a persisted transition and says Succeeded only
\* when the object no longer shows that transition, whatever write is lost,
\* refused or repeated in between.
THEOREM EventsCorrect == Spec => []EventsFollowStatus
<1>1. EventInv => EventsFollowStatus
  BY DEF EventInv
<1> QED BY <1>1, EventInit, EventNext, TypeCorrect, CopyCorrect, PTL DEF Spec

-----------------------------------------------------------------------------
(* No wakeup is lost *)

\* The loop sleeps only if the version it has last been told of is a halt, or
\* if it will be told of another one.
Asleep ==
    rec.pc = "off" /\ ~queued =>
        Gone(cache) \/ Gone(obj) \/ Halted(cache) \/ cache.killed # obj.killed

\* The loop writes a status and does not come back only in a halt; as long as
\* nothing has happened since it read its copy, that is also what the cache holds.
HaltBacked ==
    /\ rec.pc = "finalize" => rec.fs.del
    /\ rec.pc = "write" /\ rec.then = "halt" => Halted(rec.fs)
    /\ rec.fresh /\ ~queued /\ (rec.pc = "top" \/ (rec.pc = "write" /\ rec.then = "halt"))
         => cache.hooks = rec.fs.hooks /\ cache.tr = rec.fs.tr

WakeInv == Asleep /\ HaltBacked

\* Halting at an action depends on hooks and transition only.
LEMMA HaltedSame ==
    ASSUME NEW f, NEW g, f.tr = g.tr, f.hooks = g.hooks, Halted(f)
    PROVE  Halted(g) \/ (f.killed = "AckTimeout" /\ g.killed # "AckTimeout")
<1>1. /\ AtAction(f) = AtAction(g) /\ CurrentResult(f) = CurrentResult(g)
      /\ CurrentAction(f) = CurrentAction(g)
  BY DEF AtAction, ActionPhase, PhaseDone, PhaseActions, PhaseResults, PrePhase,
     TransitionHooks, CurrentResult, CurrentAction
<1> QED BY <1>1 DEF Halted

\* A reconcile that ends with its key in the queue.
LEMMA EndQueued ==
    ASSUME rec' = NoReconcile, queued' = TRUE
    PROVE  WakeInv'
BY DEF NoReconcile, WakeInv, Asleep, HaltBacked

\* A reconcile on its way that is not about to halt.
LEMMA OnItsWay ==
    ASSUME rec'.pc \in PCs \ {"off", "top", "finalize", "write"}
           \/ (rec'.pc = "write" /\ rec'.then # "halt")
    PROVE  WakeInv'
BY DEF WakeInv, Asleep, HaltBacked

\* A handler that asks to be called again.
LEMMA WriteAwake ==
    ASSUME TypeOK, NEW n, NEW then \in Thens \ {"halt"}, Write(n, then)
    PROVE  WakeInv'
<1>1. rec'.pc = "write" /\ rec'.then = then
  BY DEF Write, TypeOK, Reconciles
<1> QED BY <1>1, OnItsWay

\* A handler that halts.
LEMMA WriteHalt ==
    ASSUME TypeOK, WakeInv, rec.pc = "top", queued' = queued, cache' = cache,
           NEW n, Write(n, "halt"), Halted(n), n.hooks = rec.fs.hooks, n.tr = rec.fs.tr
    PROVE  WakeInv'
<1>1. rec'.pc = "write" /\ rec'.then = "halt" /\ rec'.fs = n /\ rec'.fresh = rec.fresh
  BY DEF Write, TypeOK, Reconciles
<1>2. Asleep'
  BY <1>1 DEF Asleep
<1>3. HaltBacked'
  BY <1>1 DEF WakeInv, HaltBacked
<1> QED BY <1>2, <1>3 DEF WakeInv

\* Initially the key is in the queue.
LEMMA WakeInit == Init => WakeInv
BY DEF Init, NoReconcile, WakeInv, Asleep, HaltBacked

\* Steps of the queue, the cache and the API server.
LEMMA WakeQueueSteps ==
    ASSUME TypeOK, CurrentCopy, WakeInv,
           StartReconcile \/ SyncCache \/ Abort \/ Conflict \/ WriteStatus
    PROVE  WakeInv'
<1>1. CASE StartReconcile
  <2>1. CASE Gone(cache)
    BY <1>1, <2>1 DEF StartReconcile, NoReconcile, WakeInv, Asleep, HaltBacked
  <2>2. CASE ~Gone(cache)
    BY <1>1, <2>2 DEF StartReconcile, WakeInv, Asleep, HaltBacked
  <2> QED BY <2>1, <2>2
<1>2. CASE SyncCache
  BY <1>2 DEF SyncCache, WakeInv, Asleep, HaltBacked
<1>3. CASE Abort \/ Conflict
  BY <1>3, EndQueued DEF Abort, Conflict
<1>4. CASE WriteStatus
  <2>1. /\ rec.pc = "write" /\ rec.fresh /\ obj' = rec.fs /\ cache' = cache
        /\ rec' = AfterWrite
        /\ queued' = (queued \/ (AfterWrite = NoReconcile /\ rec.then # "halt"))
    BY <1>4 DEF WriteStatus
  <2>2. CASE rec' # NoReconcile
    <3>1. rec'.pc \in {"create", "unannotate", "succeed", "begin"}
      BY <2>1, <2>2 DEF AfterWrite, TypeOK, Reconciles
    <3> QED BY <3>1, OnItsWay DEF PCs
  <2>3. CASE rec' = NoReconcile /\ (queued \/ rec.then # "halt")
    <3>1. queued' = TRUE
      BY <2>1, <2>3 DEF TypeOK
    <3> QED BY <2>3, <3>1, EndQueued
  <2>4. CASE rec' = NoReconcile /\ ~queued /\ rec.then = "halt"
    <3>1. Halted(rec.fs) /\ cache.hooks = rec.fs.hooks /\ cache.tr = rec.fs.tr
      BY <2>1, <2>4 DEF WakeInv, HaltBacked
    <3>2. Halted(cache) \/ cache.killed # rec.fs.killed
      BY <3>1, HaltedSame
    <3>3. Asleep'
      BY <2>1, <3>2 DEF Asleep, Halted, AtAction, ActionPhase, PhaseDone, PhaseActions,
         PhaseResults, PrePhase, TransitionHooks, CurrentResult, CurrentAction
    <3> QED BY <2>4, <3>3 DEF WakeInv, HaltBacked, NoReconcile
  <2> QED BY <2>2, <2>3, <2>4
<1> QED BY <1>1, <1>2, <1>3, <1>4

\* Deletion, metadata and force-advance.
LEMMA WakeMetadataSteps ==
    ASSUME TypeOK, CurrentCopy, WakeInv,
           ReconcileDeletion \/ RemoveFinalizer \/ EnsureMetadata \/ ForceAdvance \/ RemoveAnnotation
    PROVE  WakeInv'
<1> USE CopyTyped
<1>1. CASE ReconcileDeletion
  <2>1. rec'.pc = "finalize" /\ rec'.fs = rec.fs /\ rec.fs.del
    BY <1>1 DEF ReconcileDeletion, TypeOK, Reconciles
  <2> QED BY <2>1 DEF WakeInv, Asleep, HaltBacked
<1>2. CASE RemoveFinalizer
  <2>1. obj' = [rec.fs EXCEPT !.fin = FALSE] /\ rec.fs.del /\ rec' = NoReconcile
    BY <1>2 DEF RemoveFinalizer, WakeInv, HaltBacked
  <2>2. Gone(obj')
    BY <2>1 DEF Gone, FailoverService
  <2>3. Asleep'
    BY <2>2 DEF Asleep, Gone
  <2> QED BY <2>1, <2>3 DEF NoReconcile, WakeInv, HaltBacked
<1>3. CASE EnsureMetadata
  <2>1. /\ rec.pc = "top" /\ rec'.pc = "top" /\ rec'.fresh = rec.fresh
        /\ rec'.fs.hooks = rec.fs.hooks /\ rec'.fs.tr = rec.fs.tr
        /\ UNCHANGED <<cache, queued>>
    BY <1>3 DEF EnsureMetadata, TypeOK, Reconciles, FailoverService
  <2> QED BY <2>1 DEF WakeInv, Asleep, HaltBacked
<1>4. CASE ForceAdvance
  <2>1. Write(ForceAdvanced(rec.fs), "unannotate") \/ rec' = [rec EXCEPT !.pc = "unannotate"]
    BY <1>4 DEF ForceAdvance
  <2>2. CASE rec' = [rec EXCEPT !.pc = "unannotate"]
    <3>1. rec'.pc = "unannotate"
      BY <2>2 DEF TypeOK, Reconciles
    <3> QED BY <3>1, OnItsWay DEF PCs
  <2> QED BY <2>1, <2>2, WriteAwake DEF Thens
<1>5. CASE RemoveAnnotation
  BY <1>5, EndQueued DEF RemoveAnnotation
<1> QED BY <1>1, <1>2, <1>3, <1>4, <1>5

\* Steps of an idle object.
LEMMA WakeIdleSteps ==
    ASSUME TypeOK,
           \/ DetectTransition \/ CreateFailoverEvent \/ ReconcileIdleService \/ RecreateFails
           \/ SteadyState \/ SteadyAdopt \/ BeginRemoteSync
    PROVE  WakeInv'
<1>1. CASE CreateFailoverEvent \/ RecreateFails
  BY <1>1, EndQueued DEF CreateFailoverEvent, RecreateFails
<1>2. CASE ReconcileIdleService
  <2>1. rec'.pc = "steadySync"
    BY <1>2 DEF ReconcileIdleService, TypeOK, Reconciles
  <2> QED BY <2>1, OnItsWay DEF PCs
<1>3. CASE DetectTransition \/ SteadyState \/ SteadyAdopt \/ BeginRemoteSync
  <2>1. \E n : Write(n, "create") \/ Write(n, "requeue") \/ Write(n, "adopted")
    BY <1>3 DEF DetectTransition, SteadyState, SteadyAdopt, BeginRemoteSync
  <2> QED BY <2>1, WriteAwake DEF Thens
<1> QED BY <1>1, <1>2, <1>3

\* The action phases.
LEMMA WakeActionSteps ==
    ASSUME TypeOK, WakeInv,
           \/ LeavePreActions \/ MarkRunning \/ PassAction \/ HaltOnFailure
           \/ TimeoutAction \/ RunCall \/ RunJob
    PROVE  WakeInv'
<1>1. CASE LeavePreActions \/ MarkRunning \/ PassAction \/ TimeoutAction \/ RunCall \/ RunJob
  <2>1. \E n : Write(n, "requeue")
    BY <1>1 DEF LeavePreActions, MarkRunning, PassAction, TimeoutAction, RunCall, RunJob, RecordOutcome
  <2> QED BY <2>1, WriteAwake DEF Thens
<1>2. CASE HaltOnFailure
  <2> DEFINE n == [rec.fs EXCEPT !.actionFailed = TRUE]
  <2>1. n.hooks = rec.fs.hooks /\ n.tr = rec.fs.tr /\ n.killed = rec.fs.killed
    BY CopyTyped DEF FailoverService
  <2>2. /\ Halted(rec.fs) /\ Write(n, "halt") /\ rec.pc = "top"
        /\ queued' = queued /\ cache' = cache
    BY <1>2 DEF HaltOnFailure, DispatchAction, Ready, Halted, stores
  <2> HIDE DEF n
  <2>3. Halted(n)
    BY <2>1, <2>2, HaltedSame
  <2> QED BY <2>1, <2>2, <2>3, WriteHalt
<1> QED BY <1>1, <1>2

\* Switching and flushing.
LEMMA WakeFlushSteps ==
    ASSUME TypeOK, WakeInv,
           \/ UpdateResources \/ SendKillSignal \/ SignalKillFails \/ CheckAcksFails
           \/ AwaitAcks \/ LeaveFlushing
    PROVE  WakeInv'
<1>1. CASE UpdateResources \/ SendKillSignal \/ SignalKillFails \/ LeaveFlushing
  <2>1. \E n : Write(n, "requeue")
    BY <1>1 DEF UpdateResources, SendKillSignal, SignalKillFails, LeaveFlushing
  <2> QED BY <2>1, WriteAwake DEF Thens
<1>2. CASE CheckAcksFails \/ AwaitAcks
  <2> DEFINE n == [rec.fs EXCEPT !.killed = "AckTimeout"]
  <2>1. \/ Write(n, "halt") /\ queued' = queued /\ cache' = cache
        \/ Write(rec.fs, "requeue")
        \/ rec' = NoReconcile /\ queued' = TRUE
    BY <1>2 DEF CheckAcksFails, AwaitAcks, stores
  <2>2. rec.fs.tr.phase = "FlushingConnections" /\ rec.fs.tr.kill # 0 /\ rec.pc = "top"
    BY <1>2 DEF CheckAcksFails, AwaitAcks, Dispatch, Ready
  <2>3. n.hooks = rec.fs.hooks /\ n.tr = rec.fs.tr /\ n.killed = "AckTimeout"
    BY CopyTyped DEF FailoverService
  <2> HIDE DEF n
  <2>4. Halted(n)
    BY <2>2, <2>3 DEF Halted
  <2>5. CASE Write(n, "halt") /\ queued' = queued /\ cache' = cache
    BY <2>2, <2>3, <2>4, <2>5, WriteHalt
  <2>6. CASE Write(rec.fs, "requeue")
    BY <2>6, WriteAwake DEF Thens
  <2> QED BY <2>1, <2>5, <2>6, EndQueued
<1> QED BY <1>1, <1>2

\* completeTransition.
LEMMA WakeCompleteSteps ==
    ASSUME TypeOK,
           CompleteTransition \/ CompleteInSync \/ CompleteAdopt \/ CloseFailoverEvent
    PROVE  WakeInv'
<1>1. CASE CompleteTransition
  <2>1. rec'.pc = "completeSync"
    BY <1>1 DEF CompleteTransition, TypeOK, Reconciles
  <2> QED BY <2>1, OnItsWay DEF PCs
<1>2. CASE CompleteInSync \/ CompleteAdopt
  <2>1. \E n : Write(n, "succeed") \/ Write(n, "succeedAdopted")
    BY <1>2 DEF CompleteInSync, CompleteAdopt
  <2> QED BY <2>1, WriteAwake DEF Thens
<1>3. CASE CloseFailoverEvent
  <2>1. rec'.pc = "begin" \/ (rec' = NoReconcile /\ queued' = TRUE)
    BY <1>3 DEF CloseFailoverEvent, TypeOK, Reconciles
  <2> QED BY <2>1, OnItsWay, EndQueued DEF PCs
<1> QED BY <1>1, <1>2, <1>3

\* Another writer makes the copy stale, and nobody writes an object that is gone.
LEMMA WakeEnvironmentSteps ==
    ASSUME TypeOK, WakeInv,
           \/ FlipSpec \/ Annotate \/ EditHooks \/ EditAddresses \/ DeleteObject
           \/ FinishJob \/ AgentsAck \/ Expire
    PROVE  WakeInv'
<1>1. CASE FinishJob
  BY <1>1 DEF FinishJob, WakeInv, Asleep, HaltBacked
<1>2. CASE AgentsAck \/ Expire
  BY <1>2 DEF AgentsAck, Expire, stores, WakeInv, Asleep, HaltBacked, Gone, Halted, AtAction,
     ActionPhase, PhaseDone, PhaseActions, PhaseResults, PrePhase, TransitionHooks,
     CurrentResult, CurrentAction
<1>3. CASE FlipSpec \/ Annotate \/ EditHooks \/ EditAddresses \/ DeleteObject
  <2>1. PICK o : OthersWrite(o) /\ o.killed = obj.killed
    <3>1. CASE FlipSpec
      BY <3>1 DEF FlipSpec, TypeOK, FailoverService
    <3>2. CASE Annotate
      BY <3>2 DEF Annotate, TypeOK, FailoverService
    <3>3. CASE DeleteObject
      BY <3>3 DEF DeleteObject, TypeOK, FailoverService
    <3>4. CASE EditHooks
      BY <3>4 DEF EditHooks, TypeOK, FailoverService
    <3>5. CASE EditAddresses
      BY <3>5 DEF EditAddresses, TypeOK, FailoverService
    <3> QED BY <1>3, <3>1, <3>2, <3>3, <3>4, <3>5
  <2>2. /\ rec'.pc = rec.pc /\ rec'.fs = rec.fs /\ rec'.then = rec.then /\ ~rec'.fresh
        /\ obj'.killed = obj.killed /\ UNCHANGED <<cache, queued>>
    BY <2>1 DEF OthersWrite, TypeOK, Reconciles
  <2>3. ~Gone(obj)
    BY <1>3 DEF FlipSpec, Annotate, EditHooks, EditAddresses, DeleteObject, Gone
  <2>4. Asleep'
    BY <2>2, <2>3 DEF WakeInv, Asleep, Gone, Halted, AtAction, ActionPhase, PhaseDone,
       PhaseActions, PhaseResults, PrePhase, TransitionHooks, CurrentResult, CurrentAction
  <2>5. HaltBacked'
    BY <2>2 DEF WakeInv, HaltBacked, Halted, AtAction, ActionPhase, PhaseDone,
       PhaseActions, PhaseResults, PrePhase, TransitionHooks, CurrentResult, CurrentAction
  <2> QED BY <2>4, <2>5 DEF WakeInv
<1> QED BY <1>1, <1>2, <1>3

\* Every step keeps WakeInv.
LEMMA WakeNext == TypeOK /\ CurrentCopy /\ WakeInv /\ [Next]_vars => WakeInv'
<1> SUFFICES ASSUME TypeOK, CurrentCopy, WakeInv, [Next]_vars PROVE WakeInv'
  OBVIOUS
<1>1. CASE UNCHANGED vars
  BY <1>1 DEF vars, stores, WakeInv, Asleep, HaltBacked, Gone, Halted, AtAction, ActionPhase,
     PhaseDone, PhaseActions, PhaseResults, PrePhase, TransitionHooks, CurrentResult, CurrentAction
<1>2. CASE ReconcileStep
  BY <1>2, WakeQueueSteps, WakeMetadataSteps, WakeIdleSteps, WakeActionSteps,
     WakeFlushSteps, WakeCompleteSteps DEF ReconcileStep
<1>3. CASE Environment
  BY <1>3, WakeQueueSteps, WakeIdleSteps, WakeFlushSteps, WakeEnvironmentSteps DEF Environment
<1> QED BY <1>1, <1>2, <1>3 DEF Next

\* The loop goes to sleep, with nothing queued and no watch event on its way,
\* only on a deleted object or in one of the two documented halts.
THEOREM WakeupCorrect == Spec => []NoLostWakeup
<1>1. WakeInv => NoLostWakeup
  BY DEF WakeInv, Asleep, NoLostWakeup
<1> QED BY <1>1, WakeInit, WakeNext, TypeCorrect, CopyCorrect, PTL DEF Spec

-----------------------------------------------------------------------------
(* Actions run in order *)

Over == {"Succeeded", "Skipped"}

\* Nothing that has been persisted of an action is ever taken back.
ListAhead(s, t) ==
    /\ Len(t) = Len(s)
    /\ \A i \in 1..Len(s) : /\ s[i].status # "Pending" => t[i].status # "Pending"
                            /\ s[i].status \in Over => t[i].status \in Over

\* f is a version of the transition g shows that is not later than g.
Behind(f, g) ==
    f.tr.id = g.tr.id /\ f.tr.id # 0 =>
        /\ f.tr.phase = "ExecutingPostActions" => g.tr.phase = "ExecutingPostActions"
        /\ ListAhead(f.tr.pre, g.tr.pre) /\ ListAhead(f.tr.post, g.tr.post)

\* A transition in flight has an id, and the actions before the index are over.
Progress(fs) ==
    /\ InFlight(fs) => fs.tr.id > 0
    /\ ActionPhase(fs) => /\ fs.tr.idx <= Len(PhaseResults(fs))
                          /\ \A i \in 1..fs.tr.idx : PhaseResults(fs)[i].status \in Over

\* What fs says of an action x that was carried out.
Accounted(x, fs) ==
    x[1] = fs.tr.id =>
        LET res == ResultsOf(fs.tr, x[2])
        IN  /\ x[3] < Len(res) /\ res[x[3] + 1].status # "Pending"
            /\ \A i \in 1..x[3] : res[i].status \in Over
            /\ x[2] = "ExecutingPostActions" => fs.tr.phase = x[2]

\* The cache and the copy just read are earlier versions of the object; a copy
\* that can be written is a later one.
Versions ==
    /\ Progress(obj) /\ Progress(cache) /\ Progress(rec.fs)
    /\ obj.tr.id <= begun /\ cache.tr.id <= begun /\ Behind(cache, obj)
    /\ rec.pc = "top" => rec.fs.tr.id <= begun /\ Behind(rec.fs, obj)
    /\ rec.pc = "write" /\ rec.fresh => Behind(obj, rec.fs)

\* Every action carried out is accounted for in the object.
RanInOrder == \A x \in ran : x[1] \in 1..begun /\ Accounted(x, obj)

OrderInv == Versions /\ RanInOrder

\* The versions of an object are ordered.
LEMMA BehindSelf ==
    ASSUME NEW f
    PROVE  Behind(f, f)
BY DEF Behind, ListAhead

\* A version behind another one is behind its successors as well.
LEMMA BehindTrans ==
    ASSUME NEW f \in FailoverService, NEW g \in FailoverService, NEW h \in FailoverService,
           Behind(f, g), Behind(g, h), f.tr.id = g.tr.id
    PROVE  Behind(f, h)
BY DEF Behind, ListAhead

\* Only the transition matters.
LEMMA SameTransition ==
    ASSUME NEW f, NEW g, NEW h, f.tr = g.tr
    PROVE  /\ Progress(f) <=> Progress(g)
           /\ Behind(f, h) <=> Behind(g, h)
           /\ Behind(h, f) <=> Behind(h, g)
           /\ \A x : Accounted(x, f) <=> Accounted(x, g)
BY DEF Progress, InFlight, ActionPhase, PhaseResults, PrePhase, Behind, Accounted, ResultsOf

\* What is on record of an action stays on record in later versions.
LEMMA AccountedKept ==
    ASSUME NEW f \in FailoverService, NEW g \in FailoverService, Behind(f, g), f.tr.id = g.tr.id,
           NEW x \in Nat \X Phases \X Nat, x[1] # 0, Accounted(x, f)
    PROVE  Accounted(x, g)
<1> SUFFICES ASSUME x[1] = g.tr.id PROVE Accounted(x, g)
  BY DEF Accounted
<1> DEFINE s == ResultsOf(f.tr, x[2])
           t == ResultsOf(g.tr, x[2])
<1>1. ListAhead(s, t) /\ s \in Seq(Result)
  BY FieldsTyped DEF Behind, ResultsOf
<1>2. /\ x[3] < Len(s) /\ s[x[3] + 1].status # "Pending"
      /\ \A i \in 1..x[3] : s[i].status \in Over
      /\ x[2] = "ExecutingPostActions" => f.tr.phase = x[2]
  BY DEF Accounted
<1>3. x[2] = "ExecutingPostActions" => g.tr.phase = x[2]
  BY <1>2 DEF Behind
<1>4. x[3] \in Nat /\ Len(s) \in Nat
  BY <1>1, LenProperties
<1> HIDE DEF s, t
<1>5. x[3] < Len(t) /\ t[x[3] + 1].status # "Pending" /\ \A i \in 1..x[3] : t[i].status \in Over
  BY <1>1, <1>2, <1>4 DEF ListAhead
<1> QED BY <1>3, <1>5 DEF Accounted, t

\* What the operators change of a transition.
LEMMA SetResultFields ==
    ASSUME NEW fs \in FailoverService, NEW r \in Result, ActionPhase(fs),
           fs.tr.idx < Len(PhaseResults(fs))
    PROVE  /\ SetResult(fs, r).tr.id = fs.tr.id /\ SetResult(fs, r).tr.phase = fs.tr.phase
           /\ SetResult(fs, r).tr.idx = fs.tr.idx
           /\ PhaseResults(SetResult(fs, r)) = [PhaseResults(fs) EXCEPT ![fs.tr.idx + 1] = r]
           /\ PrePhase(fs) => SetResult(fs, r).tr.post = fs.tr.post
           /\ ~PrePhase(fs) => SetResult(fs, r).tr.pre = fs.tr.pre
<1>1. CASE PrePhase(fs)
  BY <1>1 DEF SetResult, PrePhase, PhaseResults, FailoverService, Transition
<1>2. CASE ~PrePhase(fs)
  BY <1>2 DEF SetResult, PrePhase, PhaseResults, FailoverService, Transition
<1> QED BY <1>1, <1>2

\* The same for the index and the phase.
LEMMA MoveFields ==
    ASSUME NEW fs \in FailoverService, NEW p
    PROVE  /\ NextAction(fs).tr.id = fs.tr.id /\ NextAction(fs).tr.phase = fs.tr.phase
           /\ NextAction(fs).tr.idx = fs.tr.idx + 1
           /\ NextAction(fs).tr.pre = fs.tr.pre /\ NextAction(fs).tr.post = fs.tr.post
           /\ GoToPhase(fs, p).tr.id = fs.tr.id /\ GoToPhase(fs, p).tr.phase = p
           /\ GoToPhase(fs, p).tr.idx = 0
           /\ GoToPhase(fs, p).tr.pre = fs.tr.pre /\ GoToPhase(fs, p).tr.post = fs.tr.post
BY DEF NextAction, GoToPhase, FailoverService, Transition

\* Recording a result that does not take anything back is a step ahead.
LEMMA SetResultAhead ==
    ASSUME NEW fs \in FailoverService, NEW r \in Result, ActionPhase(fs), Progress(fs),
           fs.tr.idx < Len(PhaseResults(fs)), r.status # "Pending",
           CurrentResult(fs).status \in Over => r.status \in Over
    PROVE  /\ SetResult(fs, r) \in FailoverService
           /\ Behind(fs, SetResult(fs, r)) /\ Progress(SetResult(fs, r))
           /\ ActionPhase(SetResult(fs, r)) /\ SetResult(fs, r).tr.id = fs.tr.id
           /\ SetResult(fs, r).tr.idx < Len(PhaseResults(SetResult(fs, r)))
           /\ CurrentResult(SetResult(fs, r)) = r
<1> DEFINE n == SetResult(fs, r)
           s == PhaseResults(fs)
           k == fs.tr.idx
<1>1. n \in FailoverService
  BY SetResultTyped
<1>2. /\ n.tr.id = fs.tr.id /\ n.tr.phase = fs.tr.phase /\ n.tr.idx = k
      /\ PhaseResults(n) = [s EXCEPT ![k + 1] = r]
      /\ PrePhase(fs) => n.tr.post = fs.tr.post
      /\ ~PrePhase(fs) => n.tr.pre = fs.tr.pre
  BY SetResultFields
<1>3. s \in Seq(Result) /\ k \in Nat /\ Len(s) \in Nat /\ k + 1 \in 1..Len(s)
  BY FieldsTyped, LenProperties DEF PhaseResults
<1>4. s[k + 1].status \in Over => r.status \in Over
  BY DEF CurrentResult
<1>5. k <= Len(s) /\ \A i \in 1..k : s[i].status \in Over
  BY DEF Progress
<1>6. /\ (PrePhase(fs) => s = fs.tr.pre /\ PhaseResults(n) = n.tr.pre)
      /\ (~PrePhase(fs) => s = fs.tr.post /\ PhaseResults(n) = n.tr.post)
  BY <1>2 DEF PhaseResults, PrePhase
<1> DEFINE t == [s EXCEPT ![k + 1] = r]
<1>7. /\ Len(t) = Len(s) /\ t[k + 1] = r
      /\ \A i \in 1..Len(s) : i # k + 1 => t[i] = s[i]
  BY <1>3, ExceptSeq
<1> HIDE DEF n, s, k, t
<1>8. ListAhead(s, t)
  BY <1>3, <1>4, <1>7 DEF ListAhead
<1>9. \A i \in 1..k : t[i].status \in Over
  BY <1>3, <1>5, <1>7
<1>10. Behind(fs, n)
  BY <1>2, <1>6, <1>8 DEF Behind, ListAhead, t
<1>11. Progress(n) /\ ActionPhase(n) /\ n.tr.idx < Len(PhaseResults(n)) /\ CurrentResult(n) = r
  <2>1. ActionPhase(n) /\ (InFlight(n) => n.tr.id > 0)
    BY <1>2 DEF ActionPhase, Progress, InFlight
  <2>2. PhaseResults(n) = t
    BY <1>2 DEF t
  <2>3. k < Len(t) /\ k <= Len(t)
    BY <1>3, <1>7
  <2> QED BY <1>2, <1>7, <1>9, <2>1, <2>2, <2>3 DEF Progress, CurrentResult
<1> QED BY <1>1, <1>2, <1>10, <1>11 DEF n

\* So is passing an action that is over.
LEMMA NextActionAhead ==
    ASSUME NEW fs \in FailoverService, ActionPhase(fs), Progress(fs),
           fs.tr.idx < Len(PhaseResults(fs)), CurrentResult(fs).status \in Over
    PROVE  NextAction(fs) \in FailoverService /\ Behind(fs, NextAction(fs)) /\ Progress(NextAction(fs))
<1> DEFINE n == NextAction(fs)
           s == PhaseResults(fs)
           k == fs.tr.idx
<1>1. n \in FailoverService
  BY StepTyped DEF Phases
<1>2. /\ n.tr.id = fs.tr.id /\ n.tr.phase = fs.tr.phase /\ n.tr.idx = k + 1
      /\ n.tr.pre = fs.tr.pre /\ n.tr.post = fs.tr.post
  BY MoveFields
<1>3. s \in Seq(Result) /\ k \in Nat /\ Len(s) \in Nat /\ s[k + 1].status \in Over
      /\ \A i \in 1..k : s[i].status \in Over
  BY FieldsTyped, LenProperties DEF PhaseResults, CurrentResult, Progress
<1>4. PhaseResults(n) = s /\ k + 1 <= Len(s) /\ (ActionPhase(n) <=> ActionPhase(fs))
  BY <1>2, <1>3 DEF PhaseResults, PrePhase, ActionPhase
<1>5. InFlight(n) => n.tr.id > 0
  BY <1>2 DEF Progress, InFlight
<1> HIDE DEF n, s, k
<1>6. \A i \in 1..(k + 1) : s[i].status \in Over
  BY <1>3
<1>7. Progress(n)
  BY <1>2, <1>4, <1>5, <1>6 DEF Progress
<1>8. Behind(fs, n)
  BY <1>2 DEF Behind, ListAhead
<1> QED BY <1>1, <1>7, <1>8 DEF n

\* And so is going to another phase, from any but the last.
LEMMA GoToPhaseAhead ==
    ASSUME NEW fs \in FailoverService, InFlight(fs), Progress(fs),
           fs.tr.phase # "ExecutingPostActions", NEW p \in Phases
    PROVE  Behind(fs, GoToPhase(fs, p)) /\ Progress(GoToPhase(fs, p))
<1> DEFINE n == GoToPhase(fs, p)
<1>1. /\ n.tr.id = fs.tr.id /\ n.tr.idx = 0
      /\ n.tr.pre = fs.tr.pre /\ n.tr.post = fs.tr.post /\ n \in FailoverService
  BY MoveFields, StepTyped
<1> HIDE DEF n
<1>2. Len(PhaseResults(n)) \in Nat
  BY <1>1, FieldsTyped, LenProperties DEF PhaseResults
<1>3. Progress(n)
  BY <1>1, <1>2 DEF Progress
<1>4. Behind(fs, n)
  BY <1>1 DEF Behind, ListAhead
<1> QED BY <1>3, <1>4 DEF n

\* handleForceAdvance goes ahead.
LEMMA ForceAdvancedAhead ==
    ASSUME NEW fs \in FailoverService, Progress(fs)
    PROVE  Behind(fs, ForceAdvanced(fs)) /\ Progress(ForceAdvanced(fs))
<1>1. ASSUME NEW n \in FailoverService PROVE [n EXCEPT !.actionFailed = FALSE].tr = n.tr
  BY <1>1 DEF FailoverService
<1>2. CASE ActionPhase(fs) /\ fs.tr.idx < Len(PhaseResults(fs))
  <2> DEFINE r == [CurrentResult(fs) EXCEPT !.status = "Skipped"]
             m == SetResult(fs, r)
             n == NextAction(m)
  <2>1. r \in Result /\ r.status = "Skipped"
    BY <1>2, CurrentResultTyped DEF Result, ActionStatus
  <2>2. ForceAdvanced(fs) = [n EXCEPT !.actionFailed = FALSE]
    BY <1>2 DEF ForceAdvanced, ActionPhase
  <2> HIDE DEF r
  <2>3. /\ m \in FailoverService /\ Behind(fs, m) /\ Progress(m) /\ ActionPhase(m)
        /\ m.tr.idx < Len(PhaseResults(m)) /\ CurrentResult(m) = r /\ m.tr.id = fs.tr.id
    BY <1>2, <2>1, SetResultAhead DEF Over
  <2> HIDE DEF m
  <2>4. n \in FailoverService /\ Behind(m, n) /\ Progress(n)
    BY <2>1, <2>3, NextActionAhead DEF Over
  <2> HIDE DEF n
  <2>5. Behind(fs, n)
    BY <2>3, <2>4, BehindTrans
  <2>6. ForceAdvanced(fs).tr = n.tr
    BY <1>1, <2>2, <2>4
  <2> QED BY <2>4, <2>5, <2>6, SameTransition
<1>3. CASE fs.tr.phase \in {"UpdatingResources", "FlushingConnections"}
  <2>1. PICK p \in Phases : ForceAdvanced(fs) = [GoToPhase(fs, p) EXCEPT !.actionFailed = FALSE]
    BY <1>3 DEF ForceAdvanced, ActionPhase, Phases
  <2>2. Behind(fs, GoToPhase(fs, p)) /\ Progress(GoToPhase(fs, p))
    BY <1>3, GoToPhaseAhead DEF InFlight
  <2>3. ForceAdvanced(fs).tr = GoToPhase(fs, p).tr
    BY <1>1, <2>1, StepTyped
  <2> QED BY <2>2, <2>3, SameTransition
<1>4. CASE /\ ~(ActionPhase(fs) /\ fs.tr.idx < Len(PhaseResults(fs)))
           /\ fs.tr.phase \notin {"UpdatingResources", "FlushingConnections"}
  <2>1. ForceAdvanced(fs) = [fs EXCEPT !.actionFailed = FALSE]
    BY <1>4 DEF ForceAdvanced, ActionPhase
  <2>2. ForceAdvanced(fs).tr = fs.tr
    BY <1>1, <2>1
  <2> QED BY <2>2, SameTransition, BehindSelf
<1> QED BY <1>2, <1>3, <1>4

\* A transition that begins has done nothing yet.
LEMMA BegunAhead ==
    ASSUME NEW fs \in FailoverService, begun \in Nat
    PROVE  Progress(Begun(fs))
<1>1. Begun(fs).tr.id = begun + 1 /\ Begun(fs) \in FailoverService
  BY BegunId, BegunTyped
<1>2. Begun(fs).tr.idx = 0
  <2> DEFINE h == fs.hooks[fs.active]
             t == [phase |-> IF Len(h.pre) > 0 THEN "ExecutingPreActions" ELSE "UpdatingResources",
                   dir |-> fs.active, id |-> begun + 1, idx |-> 0,
                   pre |-> PendingResults(h.pre), post |-> PendingResults(h.post),
                   old |-> fs.addr[Opposite(fs.active)], new |-> fs.addr[fs.active], kill |-> 0]
  <2>1. t.idx = 0
    OBVIOUS
  <2>2. Begun(fs) = [fs EXCEPT !.tr = t]
    BY DEF Begun
  <2> HIDE DEF t
  <2> QED BY <2>1, <2>2 DEF FailoverService
<1>3. Len(PhaseResults(Begun(fs))) \in Nat
  BY <1>1, FieldsTyped, LenProperties DEF PhaseResults
<1> QED BY <1>1, <1>2, <1>3 DEF Progress

\* An idle object has nothing to account for.
LEMMA IdleProgress ==
    ASSUME NEW fs, ~InFlight(fs)
    PROVE  Progress(fs)
BY DEF Progress, InFlight, ActionPhase

\* The object of a reconcile that has ended.
LEMMA NoReconcileProgress == Progress(NoReconcile.fs) /\ NoReconcile.pc = "off"
<1>1. ~InFlight(NoReconcile.fs)
  BY DEF NoReconcile, NewObject, NoTransition, InFlight
<1> QED BY <1>1, IdleProgress DEF NoReconcile

\* A step that moves the reconcile to a place where the copy is not compared.
LEMMA OrderKept ==
    ASSUME OrderInv, UNCHANGED <<obj, cache, begun, ran>>,
           rec'.pc \notin {"top", "write"}, Progress(rec'.fs)
    PROVE  OrderInv'
BY DEF OrderInv, Versions, RanInOrder

\* A step that ends the reconcile.
LEMMA OrderEnds ==
    ASSUME OrderInv, UNCHANGED <<obj, cache, begun, ran>>, rec' = NoReconcile
    PROVE  OrderInv'
BY NoReconcileProgress, OrderKept

\* A handler that writes a status which is ahead of the copy it has read.
LEMMA OrderWrite ==
    ASSUME TypeOK, CurrentCopy, OrderInv, rec.pc \in {"top", "steadySync"},
           NEW n, NEW then, Write(n, then), Behind(rec.fs, n), Progress(n),
           UNCHANGED <<obj, cache, begun>>, RanInOrder'
    PROVE  OrderInv'
<1>1. rec'.pc = "write" /\ rec'.fs = n /\ rec'.fresh = rec.fresh
  BY DEF Write, TypeOK, Reconciles
<1>2. rec.fresh => rec.fs = obj
  BY DEF CurrentCopy
<1>3. Versions'
  BY <1>1, <1>2 DEF OrderInv, Versions
<1> QED BY <1>3 DEF OrderInv

\* A reconcile that has come to a running action may carry it out: whatever
\* copy it has read, the object shows the action as begun and those before it as over.
LEMMA RunAccounted ==
    ASSUME TypeOK, OrderInv, DispatchAction("Running")
    PROVE  ThisAction[1] \in 1..begun /\ Accounted(ThisAction, obj)
<1> DEFINE x == ThisAction
<1>1. /\ rec.fs \in FailoverService /\ obj \in FailoverService /\ begun \in Nat
      /\ rec.pc = "top" /\ ActionPhase(rec.fs)
      /\ rec.fs.tr.idx < Len(PhaseResults(rec.fs)) /\ CurrentResult(rec.fs).status = "Running"
  BY ActionTyped DEF DispatchAction, Ready, AtAction, TypeOK
<1>2. Progress(rec.fs) /\ rec.fs.tr.id <= begun /\ Behind(rec.fs, obj)
  BY <1>1 DEF OrderInv, Versions
<1>3. /\ x[1] = rec.fs.tr.id /\ x[2] = rec.fs.tr.phase /\ x[3] = rec.fs.tr.idx
      /\ x \in Nat \X Phases \X Nat
  BY <1>1, FieldsTyped DEF ThisAction
<1>4. x[1] > 0
  BY <1>1, <1>2, <1>3 DEF Progress, InFlight, ActionPhase
<1> HIDE DEF x
<1>5. ResultsOf(rec.fs.tr, x[2]) = PhaseResults(rec.fs)
  BY <1>3 DEF ResultsOf, PhaseResults, PrePhase
<1>6. Accounted(x, rec.fs)
  BY <1>1, <1>2, <1>3, <1>5 DEF Accounted, CurrentResult, Progress
<1>7. CASE rec.fs.tr.id = obj.tr.id
  BY <1>1, <1>2, <1>3, <1>4, <1>6, <1>7, AccountedKept DEF x
<1>8. CASE rec.fs.tr.id # obj.tr.id
  BY <1>1, <1>2, <1>3, <1>4, <1>8, FieldsTyped DEF Accounted, x
<1>9. x[1] \in 1..begun
  BY <1>1, <1>2, <1>3, <1>4, FieldsTyped
<1> QED BY <1>7, <1>8, <1>9 DEF x

\* What an outcome writes: nothing of the action is taken back, and the index
\* moves only past a success.
LEMMA OutcomeAhead ==
    ASSUME TypeOK, OrderInv, DispatchAction("Running"),
           NEW o \in {"error", "pending", "success", "failure"}, NEW job \in BOOLEAN,
           RecordOutcome(o, job)
    PROVE  \E n : Write(n, "requeue") /\ Behind(rec.fs, n) /\ Progress(n)
<1> DEFINE r == CurrentResult(rec.fs)
           retried == [r EXCEPT !.retries = @ + 1]
<1>1. /\ rec.fs \in FailoverService /\ r \in Result /\ r.status = "Running"
      /\ ActionPhase(rec.fs) /\ rec.fs.tr.idx < Len(PhaseResults(rec.fs)) /\ Progress(rec.fs)
  BY ActionTyped DEF DispatchAction, AtAction, OrderInv, Versions
<1>2. ASSUME NEW q \in Result, q.status \in {"Running", "Failed", "Succeeded"}
      PROVE  /\ Behind(rec.fs, SetResult(rec.fs, q)) /\ Progress(SetResult(rec.fs, q))
             /\ q.status = "Succeeded" =>
                  /\ Behind(rec.fs, NextAction(SetResult(rec.fs, q)))
                  /\ Progress(NextAction(SetResult(rec.fs, q)))
  <2> DEFINE m == SetResult(rec.fs, q)
  <2>1. /\ m \in FailoverService /\ Behind(rec.fs, m) /\ Progress(m) /\ ActionPhase(m)
        /\ m.tr.id = rec.fs.tr.id
        /\ m.tr.idx < Len(PhaseResults(m)) /\ CurrentResult(m) = q
    BY <1>1, <1>2, SetResultAhead DEF Over
  <2> HIDE DEF m
  <2>2. ASSUME q.status = "Succeeded"
        PROVE  Behind(rec.fs, NextAction(m)) /\ Progress(NextAction(m))
    <3>1. NextAction(m) \in FailoverService /\ Behind(m, NextAction(m)) /\ Progress(NextAction(m))
      BY <2>1, <2>2, NextActionAhead DEF Over
    <3> QED BY <1>1, <2>1, <3>1, BehindTrans
  <2> QED BY <2>1, <2>2 DEF m
<1> HIDE DEF r
<1>3. /\ retried \in Result /\ retried.status = "Running"
      /\ [retried EXCEPT !.status = "Failed"] \in Result
      /\ [retried EXCEPT !.status = "Failed"].status = "Failed"
  <2>1. retried \in Result /\ retried.status = "Running"
    BY <1>1 DEF Result
  <2> HIDE DEF retried
  <2> QED BY <2>1 DEF Result, ActionStatus
<1>4. /\ [r EXCEPT !.job = job] \in Result /\ [r EXCEPT !.job = job].status = "Running"
      /\ [r EXCEPT !.job = job, !.status = "Succeeded"] \in Result
      /\ [r EXCEPT !.job = job, !.status = "Succeeded"].status = "Succeeded"
      /\ [r EXCEPT !.job = job, !.status = "Failed"] \in Result
      /\ [r EXCEPT !.job = job, !.status = "Failed"].status = "Failed"
  BY <1>1 DEF Result, ActionStatus
<1>5. CASE o = "error" /\ r.retries < MaxRetries
  BY <1>2, <1>3, <1>5 DEF RecordOutcome, r
<1>6. CASE o = "error" /\ r.retries >= MaxRetries
  BY <1>2, <1>3, <1>6 DEF RecordOutcome, r
<1>7. CASE o = "pending"
  BY <1>2, <1>4, <1>7 DEF RecordOutcome, r
<1>8. CASE o = "success"
  BY <1>2, <1>4, <1>8 DEF RecordOutcome, r
<1>9. CASE o = "failure"
  BY <1>2, <1>4, <1>9 DEF RecordOutcome, r
<1>10. r.retries \in Nat /\ MaxRetries \in Nat
  BY <1>1, BoundAssumption DEF Result
<1> QED BY <1>5, <1>6, <1>7, <1>8, <1>9, <1>10

\* Initially there is nothing but an idle object.
LEMMA OrderInit == Init => OrderInv
<1> SUFFICES ASSUME Init PROVE OrderInv
  OBVIOUS
<1>1. obj = NewObject /\ cache = NewObject /\ rec = NoReconcile /\ ran = {} /\ begun = 0
  BY DEF Init
<1>2. ~InFlight(NewObject) /\ NewObject.tr.id = 0
  BY DEF NewObject, NoTransition, InFlight
<1>3. Progress(NewObject) /\ Behind(NewObject, NewObject)
  BY <1>2, IdleProgress, BehindSelf
<1> HIDE DEF NewObject
<1>4. Progress(rec.fs) /\ rec.pc = "off"
  BY <1>1, NoReconcileProgress
<1>5. Versions
  BY <1>1, <1>2, <1>3, <1>4 DEF Versions
<1> QED BY <1>1, <1>5 DEF OrderInv, RanInOrder

\* A status write makes the object's next version.
LEMMA OrderWriteStatus ==
    ASSUME TypeOK, EventInv, OrderInv, WriteStatus
    PROVE  OrderInv'
<1>1. /\ rec.pc = "write" /\ rec.fresh /\ obj' = rec.fs /\ UNCHANGED <<cache, ran>>
      /\ rec' = AfterWrite /\ begun' = IF rec.then = "create" THEN begun + 1 ELSE begun
  BY DEF WriteStatus
<1>2. /\ begun \in Nat /\ obj \in FailoverService /\ cache \in FailoverService
      /\ rec.fs \in FailoverService /\ ran \subseteq Nat \X Phases \X Nat
  BY CopyTyped DEF TypeOK
<1>3. /\ Progress(obj) /\ Progress(cache) /\ Progress(rec.fs)
      /\ obj.tr.id <= begun /\ cache.tr.id <= begun /\ Behind(cache, obj) /\ Behind(obj, rec.fs)
  BY <1>1 DEF OrderInv, Versions
<1>4. /\ obj.tr.id \in Nat /\ cache.tr.id \in Nat /\ rec.fs.tr.id \in Nat
  BY <1>2, FieldsTyped
<1>5. \/ begun' = begun + 1 /\ rec.fs.tr.id = begun + 1
      \/ begun' = begun /\ rec.fs.tr.id \in {obj.tr.id, 0}
  BY <1>1 DEF EventInv, IdsCurrent
<1>6. rec'.pc \notin {"top", "write"} /\ Progress(rec'.fs)
  <2>1. rec' = NoReconcile \/ (rec'.fs = rec.fs /\ rec'.pc \in {"create", "unannotate", "succeed", "begin"})
    BY <1>1 DEF AfterWrite, TypeOK, Reconciles
  <2> QED BY <1>3, <2>1, NoReconcileProgress
<1>7. Behind(cache, rec.fs)
  <2>1. CASE cache.tr.id = obj.tr.id
    BY <1>2, <1>3, <2>1, BehindTrans
  <2>2. CASE cache.tr.id # obj.tr.id
    <3>1. cache.tr.id # rec.fs.tr.id \/ cache.tr.id = 0
      BY <1>2, <1>3, <1>4, <1>5, <2>2
    <3> QED BY <3>1 DEF Behind
  <2> QED BY <2>1, <2>2
<1>8. obj'.tr.id <= begun' /\ cache.tr.id <= begun'
  BY <1>1, <1>2, <1>3, <1>4, <1>5
<1>9. Versions'
  BY <1>1, <1>3, <1>6, <1>7, <1>8 DEF Versions
<1>10. RanInOrder'
  <2> SUFFICES ASSUME NEW x \in ran PROVE x[1] \in 1..begun' /\ Accounted(x, rec.fs)
    BY <1>1 DEF RanInOrder
  <2>1. x[1] \in 1..begun /\ Accounted(x, obj) /\ x \in Nat \X Phases \X Nat
    BY <1>2 DEF OrderInv, RanInOrder
  <2>2. x[1] # 0 /\ x[1] \in 1..begun'
    BY <1>2, <1>5, <2>1
  <2>3. CASE obj.tr.id = rec.fs.tr.id
    BY <1>2, <1>3, <2>1, <2>2, <2>3, AccountedKept
  <2>4. CASE obj.tr.id # rec.fs.tr.id
    <3>1. x[1] # rec.fs.tr.id
      BY <1>2, <1>5, <2>1, <2>2, <2>4
    <3> QED BY <2>2, <3>1 DEF Accounted
  <2> QED BY <2>2, <2>3, <2>4
<1> QED BY <1>9, <1>10 DEF OrderInv

\* Steps of the queue, the cache and the API server.
LEMMA OrderQueueSteps ==
    ASSUME TypeOK, CurrentCopy, EventInv, OrderInv,
           StartReconcile \/ SyncCache \/ Abort \/ Conflict \/ WriteStatus
    PROVE  OrderInv'
<1>1. CASE StartReconcile
  <2>1. UNCHANGED <<obj, cache, begun, ran>>
    BY <1>1 DEF StartReconcile, history
  <2>2. CASE Gone(cache)
    BY <1>1, <2>1, <2>2, OrderEnds DEF StartReconcile
  <2>3. CASE ~Gone(cache)
    <3>1. rec'.pc = "top" /\ rec'.fs = cache
      BY <1>1, <2>3 DEF StartReconcile
    <3> QED BY <2>1, <3>1 DEF OrderInv, Versions, RanInOrder
  <2> QED BY <2>2, <2>3
<1>2. CASE SyncCache
  <2>1. UNCHANGED <<obj, rec, begun, ran>> /\ cache' = obj
    BY <1>2 DEF SyncCache, history
  <2> QED BY <2>1, BehindSelf DEF OrderInv, Versions, RanInOrder
<1>3. CASE Abort \/ Conflict
  BY <1>3, OrderEnds DEF Abort, Conflict, history
<1>4. CASE WriteStatus
  BY <1>4, OrderWriteStatus
<1> QED BY <1>1, <1>2, <1>3, <1>4

\* Writes that leave the transition alone.
LEMMA OrderMetadata ==
    ASSUME OrderInv, obj'.tr = obj.tr, UNCHANGED <<cache, begun, ran>>,
           \/ rec'.pc \notin {"top", "write"} /\ Progress(rec'.fs)
           \/ rec'.pc = rec.pc /\ rec'.fs.tr = rec.fs.tr /\ (rec'.fresh => rec.fresh)
    PROVE  OrderInv'
<1>1. /\ Progress(obj') /\ Behind(cache, obj') /\ obj'.tr.id <= begun /\ Progress(cache)
      /\ cache.tr.id <= begun
  BY SameTransition DEF OrderInv, Versions
<1>2. RanInOrder'
  BY SameTransition DEF OrderInv, RanInOrder
<1>3. CASE rec'.pc \notin {"top", "write"} /\ Progress(rec'.fs)
  BY <1>1, <1>2, <1>3 DEF OrderInv, Versions
<1>4. CASE rec'.pc = rec.pc /\ rec'.fs.tr = rec.fs.tr /\ (rec'.fresh => rec.fresh)
  <2>1. Progress(rec'.fs)
    BY <1>4, SameTransition DEF OrderInv, Versions
  <2>2. rec.pc = "top" => rec'.fs.tr.id <= begun /\ Behind(rec'.fs, obj')
    <3>1. ASSUME rec.pc = "top" PROVE Behind(rec.fs, obj) /\ rec.fs.tr.id <= begun
      BY <3>1 DEF OrderInv, Versions
    <3>2. ASSUME Behind(rec.fs, obj) PROVE Behind(rec'.fs, obj')
      <4>1. Behind(rec'.fs, obj)
        BY <1>4, <3>2, SameTransition
      <4> QED BY <4>1, SameTransition
    <3> QED BY <1>4, <3>1, <3>2
  <2>3. rec.pc = "write" /\ rec'.fresh => Behind(obj', rec'.fs)
    <3>1. ASSUME rec.pc = "write", rec'.fresh PROVE Behind(obj, rec.fs)
      BY <1>4, <3>1 DEF OrderInv, Versions
    <3>2. ASSUME Behind(obj, rec.fs) PROVE Behind(obj', rec'.fs)
      <4>1. Behind(obj', rec.fs)
        BY <3>2, SameTransition
      <4> QED BY <1>4, <4>1, SameTransition
    <3> QED BY <3>1, <3>2
  <2> QED BY <1>1, <1>2, <1>4, <2>1, <2>2, <2>3 DEF OrderInv, Versions
<1> QED BY <1>3, <1>4

\* Deletion, metadata and force-advance.
LEMMA OrderMetadataSteps ==
    ASSUME TypeOK, CurrentCopy, OrderInv,
           ReconcileDeletion \/ RemoveFinalizer \/ EnsureMetadata \/ ForceAdvance \/ RemoveAnnotation
    PROVE  OrderInv'
<1> USE CopyTyped
<1>1. Progress(rec.fs) /\ RanInOrder
  BY DEF OrderInv, Versions
<1>2. CASE ReconcileDeletion
  <2>1. rec'.pc = "finalize" /\ rec'.fs = rec.fs /\ UNCHANGED <<obj, cache, begun, ran>>
    BY <1>2 DEF ReconcileDeletion, TypeOK, Reconciles, stores, history
  <2> QED BY <1>1, <2>1, OrderKept
<1>3. CASE RemoveFinalizer \/ RemoveAnnotation
  <2>1. rec.fs = obj /\ rec' = NoReconcile /\ UNCHANGED <<cache, begun, ran>>
    BY <1>3 DEF RemoveFinalizer, RemoveAnnotation, CurrentCopy, history
  <2>2. obj'.tr = obj.tr
    BY <1>3, <2>1 DEF RemoveFinalizer, RemoveAnnotation, FailoverService
  <2> QED BY <2>1, <2>2, OrderMetadata, NoReconcileProgress
<1>4. CASE EnsureMetadata
  <2>1. rec.fs = obj /\ UNCHANGED <<cache, begun, ran>>
    BY <1>4 DEF EnsureMetadata, CurrentCopy, history
  <2>2. /\ obj'.tr = obj.tr /\ rec'.pc = rec.pc /\ rec'.fresh = rec.fresh
        /\ rec'.fs.tr = rec.fs.tr
    BY <1>4, <2>1 DEF EnsureMetadata, FailoverService, TypeOK, Reconciles
  <2> QED BY <2>1, <2>2, OrderMetadata
<1>5. CASE ForceAdvance
  <2>1. UNCHANGED <<obj, cache, begun, ran>> /\ rec.pc = "top" /\ RanInOrder'
    BY <1>1, <1>5 DEF ForceAdvance, Ready, stores, history, RanInOrder
  <2>2. CASE InFlight(rec.fs)
    BY <1>1, <1>5, <2>1, <2>2, ForceAdvancedAhead, OrderWrite DEF ForceAdvance
  <2>3. CASE ~InFlight(rec.fs)
    <3>1. rec'.pc = "unannotate" /\ rec'.fs = rec.fs
      BY <1>5, <2>3 DEF ForceAdvance, TypeOK, Reconciles
    <3> QED BY <1>1, <2>1, <3>1, OrderKept
  <2> QED BY <2>2, <2>3
<1> QED BY <1>2, <1>3, <1>4, <1>5

\* Steps of an idle object.
LEMMA OrderIdleSteps ==
    ASSUME TypeOK, CurrentCopy, OrderInv,
           \/ DetectTransition \/ CreateFailoverEvent \/ ReconcileIdleService \/ RecreateFails
           \/ SteadyState \/ SteadyAdopt \/ BeginRemoteSync
    PROVE  OrderInv'
<1> USE CopyTyped
<1>1. Progress(rec.fs) /\ RanInOrder
  BY DEF OrderInv, Versions
<1>2. CASE DetectTransition \/ BeginRemoteSync
  <2>1. Write(Begun(rec.fs), "create") /\ UNCHANGED <<obj, cache, begun, ran>> /\ begun \in Nat
    BY <1>2 DEF DetectTransition, BeginRemoteSync, stores, history, TypeOK
  <2>2. rec'.pc = "write" /\ rec'.fs = Begun(rec.fs)
    BY <2>1 DEF Write, TypeOK, Reconciles
  <2>3. Progress(Begun(rec.fs)) /\ Begun(rec.fs).tr.id = begun + 1
    BY <2>1, BegunAhead, BegunId
  <2>4. obj.tr.id <= begun /\ obj.tr.id \in Nat
    BY FieldsTyped DEF OrderInv, Versions, TypeOK
  <2>5. Behind(obj, Begun(rec.fs))
    BY <2>1, <2>3, <2>4 DEF Behind
  <2> QED BY <2>1, <2>2, <2>3, <2>5 DEF OrderInv, Versions, RanInOrder
<1>3. CASE CreateFailoverEvent \/ RecreateFails
  BY <1>3, OrderEnds DEF CreateFailoverEvent, RecreateFails, history
<1>4. CASE ReconcileIdleService
  <2>1. rec'.pc = "steadySync" /\ rec'.fs = rec.fs /\ UNCHANGED <<obj, cache, begun, ran>>
    BY <1>4 DEF ReconcileIdleService, TypeOK, Reconciles, stores, history
  <2> QED BY <1>1, <2>1, OrderKept
<1>5. CASE SteadyState
  <2> DEFINE n == [rec.fs EXCEPT !.lastKnown = rec.fs.active]
  <2>1. n.tr = rec.fs.tr
    BY DEF FailoverService
  <2>2. /\ Write(n, "requeue") /\ UNCHANGED <<obj, cache, begun, ran>>
        /\ rec.pc = "steadySync"
    BY <1>5 DEF SteadyState, stores, history
  <2> HIDE DEF n
  <2>3. Progress(n) /\ Behind(rec.fs, n) /\ RanInOrder'
    BY <1>1, <2>1, <2>2, SameTransition, BehindSelf DEF RanInOrder
  <2> QED BY <2>2, <2>3, OrderWrite
<1>6. CASE SteadyAdopt
  <2>1. PICK g \in RemoteGens : Write(Adopted(obj', rec.fs.active, g), "adopted")
    BY <1>6 DEF SteadyAdopt
  <2>2. obj' = [obj EXCEPT !.active = Opposite(rec.fs.active)] /\ UNCHANGED <<cache, begun, ran>>
    BY <1>6 DEF SteadyAdopt, history
  <2> DEFINE n == Adopted(obj', rec.fs.active, g)
  <2>3. obj'.tr = obj.tr /\ n.tr = obj'.tr
    BY <2>2 DEF Adopted, FailoverService, TypeOK
  <2>4. rec'.pc = "write" /\ rec'.fs = n
    BY <2>1 DEF Write, TypeOK, Reconciles
  <2> HIDE DEF n
  <2>5. /\ Progress(obj') /\ Behind(cache, obj') /\ RanInOrder'
        /\ obj'.tr.id <= begun /\ cache.tr.id <= begun /\ Progress(cache)
    BY <2>2, <2>3, SameTransition DEF OrderInv, Versions, RanInOrder
  <2>6. Progress(n) /\ Behind(obj', n)
    BY <2>3, <2>5, SameTransition, BehindSelf
  <2> QED BY <2>2, <2>4, <2>5, <2>6 DEF OrderInv, Versions
<1> QED BY <1>2, <1>3, <1>4, <1>5, <1>6

\* The action phases.
LEMMA OrderActionSteps ==
    ASSUME TypeOK, CurrentCopy, OrderInv,
           \/ LeavePreActions \/ MarkRunning \/ PassAction \/ HaltOnFailure
           \/ TimeoutAction \/ RunCall \/ RunJob
    PROVE  OrderInv'
<1> USE CopyTyped
<1>1. UNCHANGED <<obj, cache, begun>> /\ rec.pc = "top"
  BY DEF LeavePreActions, MarkRunning, PassAction, HaltOnFailure, TimeoutAction, RunCall,
     RunJob, Dispatch, DispatchAction, Ready, stores, history
<1>2. Progress(rec.fs)
  BY DEF OrderInv, Versions
<1>3. RanInOrder'
  <2>1. CASE ran' = ran
    BY <1>1, <2>1 DEF OrderInv, RanInOrder
  <2>2. CASE ran' # ran
    <3>1. DispatchAction("Running") /\ ran' = ran \cup {ThisAction}
      BY <2>2 DEF LeavePreActions, MarkRunning, PassAction, HaltOnFailure, TimeoutAction,
         RunCall, RunJob, history
    <3>2. ThisAction[1] \in 1..begun /\ Accounted(ThisAction, obj)
      BY <3>1, RunAccounted
    <3> QED BY <1>1, <3>1, <3>2 DEF OrderInv, RanInOrder
  <2> QED BY <2>1, <2>2
<1>4. ASSUME NEW s, DispatchAction(s), NEW t \in {"Running", "Failed", "Skipped"},
             s \notin Over \/ t = "Skipped"
      PROVE  /\ WithStatus(rec.fs, t) \in FailoverService
             /\ Behind(rec.fs, WithStatus(rec.fs, t)) /\ Progress(WithStatus(rec.fs, t))
             /\ WithStatus(rec.fs, t).tr.id = rec.fs.tr.id
             /\ ActionPhase(WithStatus(rec.fs, t))
             /\ WithStatus(rec.fs, t).tr.idx < Len(PhaseResults(WithStatus(rec.fs, t)))
             /\ CurrentResult(WithStatus(rec.fs, t)).status = t
  <2> DEFINE r == CurrentResult(rec.fs)
             q == [r EXCEPT !.status = t]
  <2>1. /\ r \in Result /\ r.status = s /\ ActionPhase(rec.fs)
        /\ rec.fs.tr.idx < Len(PhaseResults(rec.fs))
    BY <1>4, ActionTyped DEF DispatchAction, AtAction
  <2>2. q \in Result /\ q.status = t
    BY <2>1 DEF Result, ActionStatus
  <2>3. WithStatus(rec.fs, t) = SetResult(rec.fs, q)
    BY DEF WithStatus
  <2>4. r.status \in Over => q.status \in Over
    BY <1>4, <2>1, <2>2 DEF Over
  <2> HIDE DEF q
  <2> QED BY <1>2, <1>4, <2>1, <2>2, <2>3, <2>4, SetResultAhead
<1>5. CASE LeavePreActions
  <2>1. rec.fs.tr.phase = "ExecutingPreActions"
    BY <1>5 DEF LeavePreActions, Dispatch
  <2>2. /\ Behind(rec.fs, GoToPhase(rec.fs, "UpdatingResources"))
        /\ Progress(GoToPhase(rec.fs, "UpdatingResources"))
    BY <1>2, <2>1, GoToPhaseAhead DEF InFlight, Phases
  <2> QED BY <1>1, <1>3, <1>5, <2>2, OrderWrite DEF LeavePreActions
<1>6. CASE MarkRunning
  <2>1. Behind(rec.fs, WithStatus(rec.fs, "Running")) /\ Progress(WithStatus(rec.fs, "Running"))
    BY <1>4, <1>6 DEF MarkRunning, Over
  <2> QED BY <1>1, <1>3, <1>6, <2>1, OrderWrite DEF MarkRunning
<1>7. CASE TimeoutAction
  <2>1. Behind(rec.fs, WithStatus(rec.fs, "Failed")) /\ Progress(WithStatus(rec.fs, "Failed"))
    BY <1>4, <1>7 DEF TimeoutAction, Over
  <2> QED BY <1>1, <1>3, <1>7, <2>1, OrderWrite DEF TimeoutAction
<1>8. CASE PassAction
  <2> DEFINE m == IF CurrentResult(rec.fs).status = "Failed"
                  THEN WithStatus(rec.fs, "Skipped") ELSE rec.fs
  <2>1. PICK s \in {"Succeeded", "Skipped", "Failed"} : DispatchAction(s)
    BY <1>8 DEF PassAction
  <2>2. Write(NextAction(m), "requeue")
    BY <1>8 DEF PassAction
  <2>3. /\ CurrentResult(rec.fs).status = s /\ ActionPhase(rec.fs)
        /\ rec.fs.tr.idx < Len(PhaseResults(rec.fs))
    BY <2>1, ActionTyped DEF DispatchAction, AtAction
  <2>4. /\ m \in FailoverService /\ Behind(rec.fs, m) /\ Progress(m) /\ m.tr.id = rec.fs.tr.id
        /\ ActionPhase(m) /\ m.tr.idx < Len(PhaseResults(m)) /\ CurrentResult(m).status \in Over
    <3>1. CASE s = "Failed"
      <4>1. m = WithStatus(rec.fs, "Skipped")
        BY <2>3, <3>1
      <4> QED BY <1>4, <2>1, <4>1 DEF Over
    <3>2. CASE s # "Failed"
      <4>1. m = rec.fs /\ s \in Over
        BY <2>3, <3>2 DEF Over
      <4> QED BY <1>2, <2>3, <4>1, BehindSelf
    <3> QED BY <3>1, <3>2
  <2> HIDE DEF m
  <2>5. NextAction(m) \in FailoverService /\ Behind(m, NextAction(m)) /\ Progress(NextAction(m))
    BY <2>4, NextActionAhead
  <2>6. Behind(rec.fs, NextAction(m))
    BY <2>4, <2>5, BehindTrans
  <2> QED BY <1>1, <1>3, <2>2, <2>5, <2>6, OrderWrite
<1>9. CASE HaltOnFailure
  <2> DEFINE n == [rec.fs EXCEPT !.actionFailed = TRUE]
  <2>1. n.tr = rec.fs.tr /\ Write(n, "halt")
    BY <1>9 DEF FailoverService, HaltOnFailure
  <2> HIDE DEF n
  <2>2. Behind(rec.fs, n) /\ Progress(n)
    BY <1>2, <2>1, SameTransition, BehindSelf
  <2> QED BY <1>1, <1>3, <2>1, <2>2, OrderWrite
<1>10. CASE RunCall \/ RunJob
  <2>1. DispatchAction("Running")
    BY <1>10 DEF RunCall, RunJob
  <2>2. \E o \in {"error", "pending", "success", "failure"} : RecordOutcome(o, TRUE) \/ RecordOutcome(o, FALSE)
    BY <1>10, JobOutcomeTyped, CallOutcomesTyped DEF RunCall, RunJob
  <2>3. \E n : Write(n, "requeue") /\ Behind(rec.fs, n) /\ Progress(n)
    BY <2>1, <2>2, OutcomeAhead
  <2> QED BY <1>1, <1>3, <2>3, OrderWrite
<1> QED BY <1>5, <1>6, <1>7, <1>8, <1>9, <1>10

\* Switching and flushing.
LEMMA OrderFlushSteps ==
    ASSUME TypeOK, CurrentCopy, OrderInv,
           \/ UpdateResources \/ SendKillSignal \/ SignalKillFails \/ CheckAcksFails
           \/ AwaitAcks \/ LeaveFlushing
    PROVE  OrderInv'
<1> USE CopyTyped
<1>1. /\ UNCHANGED <<obj, cache, begun, ran>> /\ rec.pc = "top" /\ RanInOrder'
      /\ rec.fs.tr.phase \in {"UpdatingResources", "FlushingConnections"} /\ Progress(rec.fs)
  BY DEF UpdateResources, SendKillSignal, SignalKillFails, CheckAcksFails, AwaitAcks,
     LeaveFlushing, FlushDone, Dispatch, Ready, stores, history, OrderInv, Versions, RanInOrder
<1>2. ASSUME NEW n, n.tr = rec.fs.tr, NEW then, Write(n, then) PROVE OrderInv'
  <2>1. Behind(rec.fs, n) /\ Progress(n)
    BY <1>1, <1>2, SameTransition, BehindSelf
  <2> QED BY <1>1, <1>2, <2>1, OrderWrite
<1>3. ASSUME NEW k PROVE [rec.fs EXCEPT !.killed = k].tr = rec.fs.tr
  BY <1>3 DEF FailoverService
<1>4. CASE UpdateResources
  <2>1. /\ Behind(rec.fs, GoToPhase(rec.fs, "FlushingConnections"))
        /\ Progress(GoToPhase(rec.fs, "FlushingConnections"))
    BY <1>1, GoToPhaseAhead DEF InFlight, Phases
  <2> QED BY <1>1, <1>4, <2>1, OrderWrite DEF UpdateResources
<1>5. CASE SendKillSignal
  <2>1. PICK k \in Tokens :
          Write([rec.fs EXCEPT !.tr.kill = k, !.killed = "WaitingForAcks"], "requeue")
    BY <1>5 DEF SendKillSignal
  <2> DEFINE n == [rec.fs EXCEPT !.tr.kill = k, !.killed = "WaitingForAcks"]
  <2>2. /\ n.tr.id = rec.fs.tr.id /\ n.tr.phase = rec.fs.tr.phase /\ n.tr.idx = rec.fs.tr.idx
        /\ n.tr.pre = rec.fs.tr.pre /\ n.tr.post = rec.fs.tr.post
    BY DEF FailoverService, Transition
  <2> HIDE DEF n
  <2>3. Behind(rec.fs, n) /\ Progress(n)
    BY <1>1, <2>2 DEF Behind, ListAhead, Progress, InFlight, ActionPhase
  <2> QED BY <1>1, <2>1, <2>3, OrderWrite DEF n
<1>6. CASE SignalKillFails
  BY <1>2, <1>3, <1>6 DEF SignalKillFails
<1>7. CASE CheckAcksFails
  <2>1. \/ Write([rec.fs EXCEPT !.killed = "AckTimeout"], "halt")
        \/ rec' = NoReconcile
    BY <1>7 DEF CheckAcksFails
  <2>2. CASE rec' = NoReconcile
    BY <1>1, <2>2, OrderEnds
  <2>3. CASE Write([rec.fs EXCEPT !.killed = "AckTimeout"], "halt")
    BY <1>2, <1>3, <2>3
  <2> QED BY <2>1, <2>2, <2>3
<1>8. CASE AwaitAcks
  <2>1. \/ Write([rec.fs EXCEPT !.killed = "AckTimeout"], "halt")
        \/ Write(rec.fs, "requeue")
    BY <1>8 DEF AwaitAcks
  <2> QED BY <1>2, <1>3, <2>1
<1>9. CASE LeaveFlushing
  <2> DEFINE m == [rec.fs EXCEPT !.killed = FlushReason(rec.fs)]
             n == GoToPhase(m, "ExecutingPostActions")
  <2>1. FlushReason(rec.fs) \in KillReasons
    BY DEF FlushReason, KillReasons
  <2>2. m \in FailoverService /\ m.tr = rec.fs.tr
    BY <2>1 DEF FailoverService
  <2>3. Write(n, "requeue")
    BY <1>9 DEF LeaveFlushing
  <2> HIDE DEF m
  <2>4. InFlight(m) /\ Progress(m) /\ m.tr.phase # "ExecutingPostActions"
    BY <1>1, <2>2, SameTransition DEF InFlight
  <2>5. Behind(m, n) /\ Progress(n)
    BY <2>2, <2>4, GoToPhaseAhead DEF Phases
  <2> HIDE DEF n
  <2>6. Behind(rec.fs, n)
    BY <2>2, <2>5, SameTransition
  <2> QED BY <1>1, <2>3, <2>5, <2>6, OrderWrite
<1> QED BY <1>4, <1>5, <1>6, <1>7, <1>8, <1>9

\* completeTransition leaves no transition to account for.
LEMMA OrderCompleteSteps ==
    ASSUME TypeOK, CurrentCopy, EventInv, OrderInv,
           CompleteTransition \/ CompleteInSync \/ CompleteAdopt \/ CloseFailoverEvent
    PROVE  OrderInv'
<1> USE CopyTyped
<1>1. CASE CompleteTransition
  <2> DEFINE m == IF rec.fs.tr.phase = "FlushingConnections"
                  THEN [rec.fs EXCEPT !.killed = FlushReason(rec.fs)] ELSE rec.fs
  <2>1. /\ rec' = [rec EXCEPT !.pc = "completeSync", !.ev = rec.fs.tr.id, !.fs = Completed(m)]
        /\ UNCHANGED <<obj, cache, begun, ran>>
    BY <1>1 DEF CompleteTransition, stores, history
  <2>2. m \in FailoverService
    <3>1. FlushReason(rec.fs) \in KillReasons
      BY DEF FlushReason, KillReasons
    <3> QED BY <3>1 DEF FailoverService
  <2> HIDE DEF m
  <2>3. ~InFlight(Completed(m))
    BY <2>2 DEF Completed, NoTransition, InFlight, FailoverService
  <2>4. rec'.pc = "completeSync" /\ rec'.fs = Completed(m)
    BY <2>1 DEF TypeOK, Reconciles
  <2> QED BY <2>1, <2>3, <2>4, IdleProgress, OrderKept
<1>2. CASE CompleteInSync
  <2>1. /\ Write(rec.fs, "succeed") /\ UNCHANGED <<obj, cache, begun, ran>>
        /\ rec.fs.tr.id = 0 /\ Progress(rec.fs)
    BY <1>2 DEF CompleteInSync, EventInv, IdsCurrent, stores, history, OrderInv, Versions
  <2>2. rec'.pc = "write" /\ rec'.fs = rec.fs
    BY <2>1 DEF Write, TypeOK, Reconciles
  <2>3. Behind(obj, rec.fs)
    BY <2>1 DEF Behind
  <2> QED BY <2>1, <2>2, <2>3 DEF OrderInv, Versions, RanInOrder
<1>3. CASE CompleteAdopt
  <2> DEFINE e(x) == [x EXCEPT !.actionFailed = FALSE, !.tr = NoTransition]
  <2>1. PICK g \in RemoteGens :
          Write(e(Adopted(obj', rec.fs.lastKnown, g)), "succeedAdopted")
    BY <1>3 DEF CompleteAdopt
  <2>2. /\ obj' = [obj EXCEPT !.active = Opposite(rec.fs.active)] /\ UNCHANGED <<cache, begun, ran>>
        /\ rec.pc = "completeSync" /\ rec.fresh
    BY <1>3 DEF CompleteAdopt, history
  <2>3. obj' \in FailoverService /\ obj'.tr = obj.tr /\ rec.fs.lastKnown \in Direction /\ g \in Nat
    <3>1. Opposite(rec.fs.active) \in Direction
      BY DEF Opposite, Direction
    <3>2. rec.fs.lastKnown \in Direction
      BY <2>2, FieldsTyped DEF CurrentCopy, TypeOK
    <3> QED BY <2>2, <3>1, <3>2, BoundAssumption DEF FailoverService, TypeOK
  <2> DEFINE a == Adopted(obj', rec.fs.lastKnown, g)
             n == e(a)
  <2>4. a \in FailoverService
    BY <2>3, AdoptedTyped
  <2>5. n.tr = NoTransition
    <3> HIDE DEF a
    <3> QED BY <2>4 DEF FailoverService
  <2>6. rec'.pc = "write" /\ rec'.fs = n
    BY <2>1 DEF Write, TypeOK, Reconciles
  <2> HIDE DEF n
  <2>7. ~InFlight(n) /\ n.tr.id = 0
    BY <2>5 DEF NoTransition, InFlight
  <2>8. Progress(n) /\ Behind(obj', n)
    BY <2>7, IdleProgress DEF Behind
  <2>9. /\ Progress(obj') /\ Behind(cache, obj') /\ RanInOrder'
        /\ obj'.tr.id <= begun /\ cache.tr.id <= begun /\ Progress(cache)
    BY <2>2, <2>3, SameTransition DEF OrderInv, Versions, RanInOrder
  <2> QED BY <2>2, <2>6, <2>8, <2>9 DEF OrderInv, Versions
<1>4. CASE CloseFailoverEvent
  <2>1. UNCHANGED <<obj, cache, begun, ran>> /\ Progress(rec.fs)
    BY <1>4 DEF CloseFailoverEvent, history, OrderInv, Versions
  <2>2. rec' = NoReconcile \/ (rec'.pc = "begin" /\ rec'.fs = rec.fs)
    BY <1>4 DEF CloseFailoverEvent, TypeOK, Reconciles
  <2> QED BY <2>1, <2>2, OrderEnds, OrderKept
<1> QED BY <1>1, <1>2, <1>3, <1>4

\* Other writers do not touch the status.
LEMMA OrderEnvironmentSteps ==
    ASSUME TypeOK, OrderInv,
           \/ FlipSpec \/ Annotate \/ EditHooks \/ EditAddresses \/ DeleteObject
           \/ FinishJob \/ AgentsAck \/ Expire
    PROVE  OrderInv'
<1>1. CASE FinishJob \/ AgentsAck \/ Expire
  BY <1>1 DEF FinishJob, AgentsAck, Expire, stores, history, OrderInv, Versions, RanInOrder
<1>2. CASE FlipSpec \/ Annotate \/ EditHooks \/ EditAddresses \/ DeleteObject
  <2>1. PICK o : OthersWrite(o) /\ o.tr = obj.tr /\ UNCHANGED <<begun, ran>>
    <3>1. CASE FlipSpec
      BY <3>1 DEF FlipSpec, history, TypeOK, FailoverService
    <3>2. CASE Annotate
      BY <3>2 DEF Annotate, history, TypeOK, FailoverService
    <3>3. CASE DeleteObject
      BY <3>3 DEF DeleteObject, history, TypeOK, FailoverService
    <3>4. CASE EditHooks
      BY <3>4 DEF EditHooks, TypeOK, FailoverService
    <3>5. CASE EditAddresses
      BY <3>5 DEF EditAddresses, history, TypeOK, FailoverService
    <3> QED BY <1>2, <3>1, <3>2, <3>3, <3>4, <3>5
  <2>2. /\ rec'.pc = rec.pc /\ rec'.fs = rec.fs /\ ~rec'.fresh
        /\ obj'.tr = obj.tr /\ cache' = cache
    BY <2>1 DEF OthersWrite, TypeOK, Reconciles
  <2> QED BY <2>1, <2>2, OrderMetadata
<1> QED BY <1>1, <1>2

\* Every step keeps OrderInv.
LEMMA OrderNext == TypeOK /\ CurrentCopy /\ EventInv /\ OrderInv /\ [Next]_vars => OrderInv'
<1> SUFFICES ASSUME TypeOK, CurrentCopy, EventInv, OrderInv, [Next]_vars PROVE OrderInv'
  OBVIOUS
<1>1. CASE UNCHANGED vars
  BY <1>1 DEF vars, stores, history, OrderInv, Versions, RanInOrder
<1>2. CASE ReconcileStep
  BY <1>2, OrderQueueSteps, OrderMetadataSteps, OrderIdleSteps, OrderActionSteps,
     OrderFlushSteps, OrderCompleteSteps DEF ReconcileStep
<1>3. CASE Environment
  BY <1>3, OrderQueueSteps, OrderIdleSteps, OrderFlushSteps, OrderEnvironmentSteps DEF Environment
<1> QED BY <1>1, <1>2, <1>3 DEF Next

\* What is accounted for has been done in order.
LEMMA OrderImplies == TypeOK /\ OrderInv => ExecutionOrder
<1> SUFFICES ASSUME TypeOK, OrderInv, NEW x \in ran
             PROVE  /\ x[1] <= begun
                    /\ x[1] = obj.tr.id =>
                         LET res == ResultsOf(obj.tr, x[2])
                         IN  /\ res[x[3] + 1].status # "Pending"
                             /\ Settled(SubSeq(res, 1, x[3]))
                             /\ x[2] = "ExecutingPostActions" => obj.tr.phase = x[2]
  BY DEF ExecutionOrder
<1> DEFINE res == ResultsOf(obj.tr, x[2])
<1>1. x[1] \in 1..begun /\ Accounted(x, obj) /\ x[3] \in Nat /\ begun \in Nat
  BY DEF OrderInv, RanInOrder, TypeOK
<1>2. res \in Seq(Result)
  BY FieldsTyped DEF ResultsOf, TypeOK
<1>3. ASSUME x[1] = obj.tr.id
      PROVE  /\ res[x[3] + 1].status # "Pending" /\ Settled(SubSeq(res, 1, x[3]))
             /\ x[2] = "ExecutingPostActions" => obj.tr.phase = x[2]
  <2>1. /\ x[3] < Len(res) /\ res[x[3] + 1].status # "Pending"
        /\ \A i \in 1..x[3] : res[i].status \in Over
        /\ x[2] = "ExecutingPostActions" => obj.tr.phase = x[2]
    BY <1>1, <1>3 DEF Accounted
  <2> HIDE DEF res
  <2>2. /\ DOMAIN SubSeq(res, 1, x[3]) = 1..x[3]
        /\ \A i \in 1..x[3] : SubSeq(res, 1, x[3])[i] = res[i]
    BY <1>1, <1>2, <2>1, LenProperties
  <2> QED BY <2>1, <2>2 DEF Settled, Over
<1> QED BY <1>1, <1>3

\* An action takes effect only after it was persisted as Running and every
\* earlier action of its phase was over, from whatever copy and after whatever
\* crash it is run; nothing persisted of it is ever taken back.
THEOREM OrderCorrect == Spec => []ExecutionOrder
<1>1. EventInv /\ OrderInv /\ TypeOK => ExecutionOrder
  BY OrderImplies
<1> QED BY <1>1, EventInit, EventNext, OrderInit, OrderNext, TypeCorrect, CopyCorrect, PTL DEF Spec

-----------------------------------------------------------------------------
(* Traffic *)

\* Nothing is in flight or pending: a reconcile of f puts the Service in line
\* with the spec.
Quiet(f) == ~InFlight(f) /\ f.lastKnown = f.active

\* A reconcile that has read f may set the Service while the object is o: the
\* transition of f has not gone past the flush, the cluster is still in the
\* direction of f, or the Service is already where f wants it.  A copy with no
\* direction on record is idle, and the cluster is not on record in the
\* direction that copy asks for unless the Service is there already.
Served(f, o) ==
    /\ f.tr.phase = "UpdatingResources" =>
         /\ o.tr.phase \in {"UpdatingResources", "FlushingConnections"}
         /\ o.tr.new = f.tr.new
    /\ Quiet(f) => \/ ~InFlight(o) /\ o.lastKnown = f.lastKnown
                   \/ service = f.addr[f.active]
    /\ f.lastKnown = "unset" => o.lastKnown # f.active \/ service = f.addr[f.active]
    /\ InFlight(f) => f.lastKnown # "unset"
    /\ InFlight(o) => o.lastKnown # "unset"

\* Two versions that put the Service in the same place.
SameView(f, g) ==
    f.tr = g.tr /\ f.lastKnown = g.lastKnown /\ f.active = g.active /\ f.addr = g.addr

\* The copy just read is what the cache holds, or the cache has caught up.
ReadServed ==
    rec.pc = "top" =>
        /\ Served(rec.fs, obj)
        /\ \/ SameView(cache, rec.fs)
           \/ cache.tr = obj.tr /\ cache.lastKnown = obj.lastKnown

\* The cache lags a controller that can write by what one reconcile wrote.
WriteServed ==
    rec.fresh =>
        /\ rec.pc \in {"top", "steadySync"} => SameView(cache, obj)
        /\ rec.pc = "steadySync" => service = obj.addr[obj.active]
        /\ rec.pc = "completeSync" => cache.tr = obj.tr
        /\ rec.pc = "write" => Served(cache, rec.fs) /\ Served(obj, rec.fs)
        /\ rec.pc = "write" /\ rec.then \in {"succeed", "succeedAdopted"} =>
             InFlight(cache) /\ InFlight(obj)
        /\ rec.pc = "succeed" /\ Quiet(cache) => Quiet(obj)
        /\ (rec.pc = "write" /\ rec.then = "adopted") \/ rec.pc = "begin" =>
             ~Quiet(obj) /\ (Quiet(cache) => service = cache.addr[cache.active])

\* The first k pre-actions, which no edit has taken out of the hooks, are over
\* when the switch begins.
PreOver(fs, k) ==
    /\ fs.tr.phase = "ExecutingPreActions" =>
         k <= Len(TransitionHooks(fs).pre) /\ k <= Len(fs.tr.pre)
    /\ fs.tr.phase \in {"UpdatingResources", "FlushingConnections"} =>
         k <= Len(fs.tr.pre) /\ \A i \in 1..k : fs.tr.pre[i].status \in Over

\* What kept is after the write of fs.
KeptAfter(fs, then) == IF then = "create" THEN Len(fs.tr.pre) ELSE kept

PreInv ==
    /\ PreOver(obj, kept)
    /\ rec.pc = "write" /\ rec.fresh => PreOver(rec.fs, KeptAfter(rec.fs, rec.then))

TrafficInv == Served(cache, obj) /\ ReadServed /\ WriteServed /\ PreInv

\* Nothing is asked of an idle object.
LEMMA IdlePreOver ==
    ASSUME NEW fs, ~InFlight(fs), NEW e
    PROVE  PreOver(fs, e)
BY DEF PreOver, InFlight

\* A transition that begins has a result for every pre-action of its direction.
LEMMA BegunPreOver ==
    ASSUME NEW fs \in FailoverService, begun \in Nat
    PROVE  PreOver(Begun(fs), Len(Begun(fs).tr.pre))
<1> DEFINE h == fs.hooks[fs.active]
           t == [phase |-> IF Len(h.pre) > 0 THEN "ExecutingPreActions" ELSE "UpdatingResources",
                 dir |-> fs.active, id |-> begun + 1, idx |-> 0,
                 pre |-> PendingResults(h.pre), post |-> PendingResults(h.post),
                 old |-> fs.addr[Opposite(fs.active)], new |-> fs.addr[fs.active], kill |-> 0]
           n == [fs EXCEPT !.tr = t]
<1>1. h.pre \in Seq(Action) /\ Len(h.pre) \in Nat
  BY FieldsTyped, HooksAssumption, LenProperties DEF Hooks
<1>2. /\ t.dir = fs.active /\ t.pre = PendingResults(h.pre)
      /\ t.phase = IF Len(h.pre) > 0 THEN "ExecutingPreActions" ELSE "UpdatingResources"
  OBVIOUS
<1>3. DOMAIN PendingResults(h.pre) = 1..Len(h.pre) /\ Len(PendingResults(h.pre)) = Len(h.pre)
  BY <1>1, PendingResultsTyped, LenProperties DEF PendingResults
<1>4. Begun(fs) = n
  BY DEF Begun
<1> HIDE DEF t
<1>5. n.tr = t /\ n.hooks = fs.hooks
  BY DEF FailoverService
<1> HIDE DEF n
<1>6. TransitionHooks(n).pre = h.pre
  BY <1>2, <1>5 DEF TransitionHooks
<1>7. n.tr.phase = "UpdatingResources" => 1..Len(n.tr.pre) = {}
  BY <1>1, <1>2, <1>3, <1>5
<1> QED BY <1>1, <1>2, <1>3, <1>4, <1>5, <1>6, <1>7 DEF PreOver

\* A later version of the same transition, with the same hooks, keeps PreOver;
\* the switch begins only once the pre-actions are done.
LEMMA PreOverKept ==
    ASSUME NEW f \in FailoverService, NEW n \in FailoverService, NEW k \in Nat,
           PreOver(f, k), Progress(f), ListAhead(f.tr.pre, n.tr.pre),
           n.hooks = f.hooks, n.tr.dir = f.tr.dir,
           \/ n.tr.phase = f.tr.phase
           \/ Pipeline!Follows(f.tr.phase, n.tr.phase) /\ (PrePhase(f) => PhaseDone(f))
    PROVE  PreOver(n, k)
<1>1. f.tr.pre \in Seq(Result) /\ n.tr.pre \in Seq(Result) /\ f.tr.idx \in Nat
  BY FieldsTyped
<1>2. Len(f.tr.pre) \in Nat /\ Len(n.tr.pre) = Len(f.tr.pre)
  BY <1>1, LenProperties DEF ListAhead
<1>3. TransitionHooks(n) = TransitionHooks(f)
  BY DEF TransitionHooks
<1>4. k <= Len(f.tr.pre) /\ (\A i \in 1..k : f.tr.pre[i].status \in Over)
        => k <= Len(n.tr.pre) /\ \A i \in 1..k : n.tr.pre[i].status \in Over
  BY <1>2 DEF ListAhead
<1>5. ASSUME PrePhase(f), PhaseDone(f)
      PROVE  k <= Len(f.tr.pre) /\ \A i \in 1..k : f.tr.pre[i].status \in Over
  <2>1. /\ PhaseResults(f) = f.tr.pre /\ PhaseActions(f) = TransitionHooks(f).pre
        /\ ActionPhase(f) /\ k <= Len(TransitionHooks(f).pre) /\ k <= Len(f.tr.pre)
    BY <1>5 DEF PhaseResults, PhaseActions, ActionPhase, PrePhase, PreOver
  <2>2. \A i \in 1..f.tr.idx : f.tr.pre[i].status \in Over
    BY <2>1 DEF Progress
  <2>3. Len(TransitionHooks(f).pre) \in Nat
    BY FieldsTyped, HooksAssumption, LenProperties DEF TransitionHooks, Hooks
  <2>4. k <= f.tr.idx
    BY <1>1, <1>2, <1>5, <2>1, <2>3 DEF PhaseDone
  <2> QED BY <1>1, <2>1, <2>2, <2>4
<1>6. CASE n.tr.phase = f.tr.phase
  BY <1>2, <1>3, <1>4, <1>6 DEF PreOver
<1>7. CASE Pipeline!Follows(f.tr.phase, n.tr.phase) /\ (PrePhase(f) => PhaseDone(f))
  BY <1>4, <1>5, <1>7 DEF PreOver, Pipeline!Follows, PrePhase
<1> QED BY <1>6, <1>7

\* A handler of a transition in flight that writes the next status of that
\* transition: the snapshot is kept and the switch does not begin early.
LEMMA TransitionWrite ==
    ASSUME TypeOK, CurrentCopy, OrderInv, TrafficInv,
           TypeOK', CurrentCopy', EventInv', OrderInv',
           rec.pc = "top", InFlight(rec.fs),
           NEW n, NEW then \in {"requeue", "halt", "unannotate"}, Write(n, then),
           n.tr.new = rec.fs.tr.new, n.hooks = rec.fs.hooks, n.lastKnown = rec.fs.lastKnown,
           PrePhase(rec.fs) /\ ~PrePhase(n) => PhaseDone(rec.fs),
           UNCHANGED <<obj, cache, kept>>
    PROVE  ReadServed' /\ WriteServed' /\ PreInv'
<1>1. rec'.pc = "write" /\ rec'.fs = n /\ rec'.fresh = rec.fresh /\ rec'.then = then
  BY DEF Write, TypeOK, Reconciles
<1>2. ReadServed'
  BY <1>1 DEF ReadServed
<1>3. PreOver(obj, kept)'
  BY DEF TrafficInv, PreInv, PreOver, TransitionHooks
<1>4. CASE ~rec.fresh
  BY <1>1, <1>2, <1>3, <1>4 DEF WriteServed, PreInv
<1>5. CASE rec.fresh
  <2>1. rec.fs = obj /\ SameView(cache, obj) /\ PreOver(obj, kept) /\ kept \in Nat
    BY <1>5 DEF CurrentCopy, TrafficInv, WriteServed, PreInv, TypeOK
  <2>0. Served(cache, obj) /\ n.lastKnown = obj.lastKnown /\ InFlight(obj)
    BY <2>1 DEF TrafficInv
  <2>2. obj \in FailoverService /\ n \in FailoverService /\ Progress(obj)
    BY <1>1, CopyTyped DEF TypeOK, Reconciles, OrderInv, Versions
  <2>3. /\ StatusStep(obj, n) /\ n.tr.id \in {obj.tr.id, 0} /\ Behind(obj, n) /\ Progress(n)
    BY <1>1, <1>5 DEF CurrentCopy, EventInv, IdsCurrent, OrderInv, Versions
  <2>4. \/ n.tr.phase = obj.tr.phase /\ n.tr.dir = obj.tr.dir
        \/ Pipeline!Follows(obj.tr.phase, n.tr.phase) /\ n.tr.dir = obj.tr.dir
        \/ obj.tr.phase \in {"FlushingConnections", "ExecutingPostActions"} /\ ~InFlight(n)
    BY <2>1, <2>3 DEF StatusStep
  <2>5. ~Quiet(obj) /\ ~Quiet(cache) /\ cache.tr = obj.tr
    BY <2>1 DEF Quiet, SameView, InFlight
  <2>6. obj.tr.phase = "UpdatingResources" =>
          n.tr.phase \in {"UpdatingResources", "FlushingConnections"} /\ n.tr.new = obj.tr.new
    BY <2>1, <2>4 DEF Pipeline!Follows
  <2>7. WriteServed'
    BY <1>1, <2>0, <2>5, <2>6 DEF WriteServed, Served, Quiet, InFlight
  <2>8. PreOver(n, kept)
    <3>1. CASE ~InFlight(n)
      BY <3>1, IdlePreOver
    <3>2. CASE InFlight(n)
      <4>1. n.tr.id = obj.tr.id /\ n.tr.id # 0
        BY <2>2, <2>3, <3>2, FieldsTyped DEF Progress
      <4>2. ListAhead(obj.tr.pre, n.tr.pre)
        BY <2>3, <4>1 DEF Behind
      <4>3. /\ n.tr.dir = obj.tr.dir
            /\ \/ n.tr.phase = obj.tr.phase
               \/ Pipeline!Follows(obj.tr.phase, n.tr.phase) /\ (PrePhase(obj) => PhaseDone(obj))
        BY <2>1, <2>4, <3>2 DEF PrePhase, Pipeline!Follows
      <4> QED BY <2>1, <2>2, <4>2, <4>3, PreOverKept
    <3> QED BY <3>1, <3>2
  <2>9. PreInv'
    BY <1>1, <1>3, <2>8 DEF PreInv, PreOver, TransitionHooks, KeptAfter
  <2> QED BY <1>2, <2>7, <2>9
<1> QED BY <1>4, <1>5

\* As long as the Service is left alone, so is what the cache says of it.
LEMMA ServedKept ==
    ASSUME TrafficInv, UNCHANGED <<cache, service>>,
           obj'.tr = obj.tr, obj'.lastKnown = obj.lastKnown
    PROVE  Served(cache, obj)'
BY DEF TrafficInv, Served, Quiet, InFlight

\* The end of a reconcile, and places where nothing is asked of the copy.
LEMMA NothingServed ==
    ASSUME rec'.pc \in {"off", "create", "unannotate", "finalize"}
    PROVE  ReadServed' /\ WriteServed'
BY DEF ReadServed, WriteServed

\* A write that leaves the transition, the direction and the hooks alone.
LEMMA MetadataTraffic ==
    ASSUME TrafficInv, UNCHANGED <<cache, service, kept>>, rec'.pc # "write",
           obj'.tr = obj.tr, obj'.lastKnown = obj.lastKnown, obj'.hooks = obj.hooks,
           ReadServed', WriteServed'
    PROVE  TrafficInv'
<1>1. PreInv'
  BY DEF TrafficInv, PreInv, PreOver, TransitionHooks
<1> QED BY <1>1, ServedKept DEF TrafficInv

\* The end of a reconcile that has touched neither the object nor the Service.
LEMMA EndTraffic ==
    ASSUME TrafficInv, UNCHANGED <<obj, cache, service, kept>>, rec' = NoReconcile
    PROVE  TrafficInv'
BY NothingServed, MetadataTraffic DEF NoReconcile

\* Initially the object is idle and no Service exists.
LEMMA TrafficInit == Init => TrafficInv
<1> SUFFICES ASSUME Init PROVE TrafficInv
  OBVIOUS
<1>1. obj = NewObject /\ cache = NewObject /\ rec = NoReconcile
  BY DEF Init
<1>2. ~InFlight(NewObject) /\ NewObject.lastKnown = "unset" /\ NewObject.active = "failback"
  BY DEF NewObject, NoTransition, InFlight
<1> HIDE DEF NewObject
<1>3. rec.pc = "off" /\ ~rec.fresh
  BY <1>1 DEF NoReconcile
<1>4. Served(cache, obj) /\ ReadServed /\ WriteServed
  BY <1>1, <1>2, <1>3 DEF Served, Quiet, InFlight, ReadServed, WriteServed
<1>5. PreInv
  BY <1>1, <1>2, <1>3, IdlePreOver DEF PreInv
<1> QED BY <1>4, <1>5 DEF TrafficInv

\* Steps of the queue, the cache and the API server.
LEMMA TrafficQueueSteps ==
    ASSUME TypeOK, CurrentCopy, CurrentCopy', OrderInv, TrafficInv,
           StartReconcile \/ SyncCache \/ Abort \/ Conflict \/ WriteStatus
    PROVE  TrafficInv'
<1>1. CASE StartReconcile
  <2>1. UNCHANGED <<obj, cache, service, kept>>
    BY <1>1 DEF StartReconcile, world, history
  <2>2. CASE Gone(cache)
    BY <1>1, <2>1, <2>2, EndTraffic DEF StartReconcile
  <2>3. CASE ~Gone(cache)
    <3>1. rec'.pc = "top" /\ rec'.fs = cache /\ (rec'.fresh <=> cache = obj)
      BY <1>1, <2>3 DEF StartReconcile
    <3>2. ReadServed' /\ WriteServed'
      BY <2>1, <3>1 DEF ReadServed, WriteServed, TrafficInv, Served, Quiet, InFlight, SameView
    <3> QED BY <2>1, <3>1, <3>2, MetadataTraffic
  <2> QED BY <2>2, <2>3
<1>2. CASE SyncCache
  <2>1. UNCHANGED <<obj, rec, service, kept>> /\ cache' = obj
    BY <1>2 DEF SyncCache, world, history
  <2>2. Served(cache, obj)'
    <3>1. obj.active \in Direction /\ (InFlight(obj) => obj.lastKnown # "unset")
      BY FieldsTyped DEF TypeOK, TrafficInv, Served
    <3> QED BY <2>1, <3>1 DEF Served, Quiet, InFlight, Direction
  <2>3. ReadServed'
    BY <2>1 DEF TrafficInv, ReadServed, Served, Quiet, InFlight
  <2>4. WriteServed'
    BY <2>1 DEF TrafficInv, WriteServed, Served, Quiet, InFlight, SameView
  <2>5. PreInv'
    BY <2>1 DEF TrafficInv, PreInv, PreOver, KeptAfter, TransitionHooks
  <2> QED BY <2>2, <2>3, <2>4, <2>5 DEF TrafficInv
<1>3. CASE Abort \/ Conflict
  BY <1>3, EndTraffic DEF Abort, Conflict, world, history
<1>4. CASE WriteStatus
  <2>1. /\ rec.pc = "write" /\ rec.fresh /\ obj' = rec.fs /\ UNCHANGED <<cache, service>>
        /\ rec' = AfterWrite /\ kept' = KeptAfter(rec.fs, rec.then)
    BY <1>4 DEF WriteStatus, KeptAfter
  <2>2. Served(cache, obj)'
    BY <2>1 DEF TrafficInv, WriteServed, Served, Quiet, InFlight
  <2>3. \/ rec'.pc \in {"off", "create", "unannotate"}
        \/ rec.then \in {"succeed", "succeedAdopted"} /\ rec'.pc = "succeed"
        \/ rec.then = "adopted" /\ rec'.pc = "begin" /\ rec'.fs = rec.fs /\ rec'.fresh = rec.fresh
    BY <2>1 DEF AfterWrite, NoReconcile, TypeOK, Reconciles
  <2>4. ReadServed'
    BY <2>3 DEF ReadServed
  <2>5. WriteServed'
    <3>1. CASE rec'.pc \in {"off", "create", "unannotate"}
      BY <3>1, NothingServed
    <3>2. CASE rec.then \in {"succeed", "succeedAdopted"} /\ rec'.pc = "succeed"
      <4>1. ~Quiet(cache)'
        BY <2>1, <3>2 DEF TrafficInv, WriteServed, Quiet, InFlight
      <4> QED BY <3>2, <4>1 DEF WriteServed
    <3>3. CASE rec.then = "adopted" /\ rec'.pc = "begin" /\ rec'.fresh = rec.fresh
      <4>1. ~Quiet(obj)'
        BY <2>1, <3>3 DEF CurrentCopy, Quiet
      <4>2. Quiet(cache)' => service' = cache'.addr[cache'.active]
        BY <2>1, <3>3 DEF TrafficInv, WriteServed, Quiet, InFlight
      <4> QED BY <3>3, <4>1, <4>2 DEF WriteServed
    <3> QED BY <2>3, <3>1, <3>2, <3>3
  <2>6. PreInv'
    <3>1. rec'.pc # "write"
      BY <2>3
    <3> QED BY <2>1, <3>1 DEF TrafficInv, PreInv, PreOver, TransitionHooks
  <2> QED BY <2>2, <2>4, <2>5, <2>6 DEF TrafficInv
<1> QED BY <1>1, <1>2, <1>3, <1>4

\* The operators on the status leave the snapshotted address and the hooks alone.
LEMMA SnapshotKept ==
    ASSUME NEW fs \in FailoverService, NEW r, NEW p, NEW s
    PROVE  /\ SetResult(fs, r).tr.new = fs.tr.new /\ SetResult(fs, r).hooks = fs.hooks
           /\ NextAction(fs).tr.new = fs.tr.new /\ NextAction(fs).hooks = fs.hooks
           /\ GoToPhase(fs, p).tr.new = fs.tr.new /\ GoToPhase(fs, p).hooks = fs.hooks
           /\ WithStatus(fs, s).tr.new = fs.tr.new /\ WithStatus(fs, s).hooks = fs.hooks
           /\ SetResult(fs, r).lastKnown = fs.lastKnown /\ NextAction(fs).lastKnown = fs.lastKnown
           /\ GoToPhase(fs, p).lastKnown = fs.lastKnown /\ WithStatus(fs, s).lastKnown = fs.lastKnown
<1>1. ASSUME NEW q
      PROVE  /\ SetResult(fs, q).tr.new = fs.tr.new /\ SetResult(fs, q).hooks = fs.hooks
             /\ SetResult(fs, q).lastKnown = fs.lastKnown
  BY <1>1 DEF SetResult, FailoverService, Transition
<1> QED BY <1>1 DEF NextAction, GoToPhase, WithStatus, FailoverService, Transition

\* So does handleForceAdvance, which does not leave the pre-actions either.
LEMMA ForceAdvancedSnapshot ==
    ASSUME NEW fs \in FailoverService
    PROVE  /\ ForceAdvanced(fs).tr.new = fs.tr.new /\ ForceAdvanced(fs).hooks = fs.hooks
           /\ ForceAdvanced(fs).lastKnown = fs.lastKnown
           /\ PrePhase(fs) => PrePhase(ForceAdvanced(fs))
<1>1. ASSUME NEW n \in FailoverService
      PROVE  /\ [n EXCEPT !.actionFailed = FALSE].tr = n.tr
             /\ [n EXCEPT !.actionFailed = FALSE].hooks = n.hooks
             /\ [n EXCEPT !.actionFailed = FALSE].lastKnown = n.lastKnown
  BY <1>1 DEF FailoverService
<1>2. CASE ActionPhase(fs) /\ fs.tr.idx < Len(PhaseResults(fs))
  <2> DEFINE r == [CurrentResult(fs) EXCEPT !.status = "Skipped"]
  <2>1. r \in Result
    BY <1>2, CurrentResultTyped DEF Result, ActionStatus
  <2> HIDE DEF r
  <2>2. SetResult(fs, r) \in FailoverService /\ SetResult(fs, r).tr.phase = fs.tr.phase
    BY <1>2, <2>1, SetResultTyped, SetResultFields
  <2>3. /\ NextAction(SetResult(fs, r)) \in FailoverService
        /\ NextAction(SetResult(fs, r)).tr.phase = fs.tr.phase
    BY <2>2, StepTyped, MoveFields DEF Phases
  <2>4. ForceAdvanced(fs) = [NextAction(SetResult(fs, r)) EXCEPT !.actionFailed = FALSE]
    BY <1>2 DEF ForceAdvanced, ActionPhase, r
  <2> QED BY <1>1, <2>2, <2>3, <2>4, SnapshotKept DEF PrePhase
<1>3. CASE fs.tr.phase \in {"UpdatingResources", "FlushingConnections"}
  <2>1. \E p \in Phases : ForceAdvanced(fs) = [GoToPhase(fs, p) EXCEPT !.actionFailed = FALSE]
    BY <1>3 DEF ForceAdvanced, ActionPhase, Phases
  <2> QED BY <1>1, <1>3, <2>1, StepTyped, SnapshotKept DEF PrePhase
<1>4. CASE /\ ~(ActionPhase(fs) /\ fs.tr.idx < Len(PhaseResults(fs)))
           /\ fs.tr.phase \notin {"UpdatingResources", "FlushingConnections"}
  <2>1. ForceAdvanced(fs) = [fs EXCEPT !.actionFailed = FALSE]
    BY <1>4 DEF ForceAdvanced, ActionPhase
  <2> QED BY <1>1, <2>1 DEF PrePhase
<1> QED BY <1>2, <1>3, <1>4

\* Deletion, metadata and force-advance.
LEMMA TrafficMetadataSteps ==
    ASSUME TypeOK, CurrentCopy, OrderInv, TrafficInv,
           TypeOK', CurrentCopy', EventInv', OrderInv',
           ReconcileDeletion \/ RemoveFinalizer \/ EnsureMetadata \/ ForceAdvance \/ RemoveAnnotation
    PROVE  TrafficInv'
<1> USE CopyTyped
<1>1. UNCHANGED <<cache, service, kept>>
  BY DEF ReconcileDeletion, RemoveFinalizer, EnsureMetadata, ForceAdvance, RemoveAnnotation,
     stores, world, history
<1>2. CASE ReconcileDeletion
  <2>1. rec'.pc = "finalize" /\ obj' = obj
    BY <1>2 DEF ReconcileDeletion, TypeOK, Reconciles, stores
  <2> QED BY <1>1, <2>1, NothingServed, MetadataTraffic
<1>3. CASE RemoveFinalizer \/ RemoveAnnotation
  <2>1. rec.fs = obj /\ rec'.pc = "off"
    BY <1>3 DEF RemoveFinalizer, RemoveAnnotation, CurrentCopy, NoReconcile
  <2>2. obj'.tr = obj.tr /\ obj'.lastKnown = obj.lastKnown /\ obj'.hooks = obj.hooks
    BY <1>3, <2>1 DEF RemoveFinalizer, RemoveAnnotation, FailoverService
  <2> QED BY <1>1, <2>1, <2>2, NothingServed, MetadataTraffic
<1>4. CASE EnsureMetadata
  <2>1. rec.fs = obj /\ rec.fresh /\ rec.pc = "top"
    BY <1>4 DEF EnsureMetadata, CurrentCopy
  <2>2. /\ obj'.tr = obj.tr /\ obj'.lastKnown = obj.lastKnown /\ obj'.hooks = obj.hooks
        /\ obj'.addr = obj.addr /\ obj'.active = obj.active
    BY <1>4, <2>1 DEF EnsureMetadata, FailoverService
  <2>3. rec'.pc = "top" /\ rec'.fresh = rec.fresh /\ rec'.fs = obj'
    BY <1>4, <2>1 DEF EnsureMetadata, TypeOK, Reconciles
  <2>4. SameView(cache, obj) /\ SameView(cache, obj)'
    BY <1>1, <2>1, <2>2 DEF TrafficInv, WriteServed, SameView
  <2>5. ReadServed'
    <3>1. obj'.active \in Direction /\ (InFlight(obj') => obj'.lastKnown # "unset")
      BY <2>2, FieldsTyped DEF TypeOK, TrafficInv, Served, InFlight
    <3> QED BY <2>3, <2>4, <3>1 DEF ReadServed, Served, Quiet, InFlight, SameView, Direction
  <2>6. WriteServed'
    BY <2>3, <2>4 DEF WriteServed
  <2> QED BY <1>1, <2>2, <2>3, <2>5, <2>6, MetadataTraffic
<1>5. CASE ForceAdvance
  <2>1. obj' = obj /\ rec.pc = "top"
    BY <1>5 DEF ForceAdvance, Ready, stores
  <2>2. CASE InFlight(rec.fs)
    <3>1. Write(ForceAdvanced(rec.fs), "unannotate")
      BY <1>5, <2>2 DEF ForceAdvance
    <3>2. ReadServed' /\ WriteServed' /\ PreInv'
      BY <1>1, <2>1, <2>2, <3>1, ForceAdvancedSnapshot, TransitionWrite
    <3> QED BY <1>1, <2>1, <3>2, ServedKept DEF TrafficInv
  <2>3. CASE ~InFlight(rec.fs)
    <3>1. rec'.pc = "unannotate"
      BY <1>5, <2>3 DEF ForceAdvance, TypeOK, Reconciles
    <3> QED BY <1>1, <2>1, <3>1, NothingServed, MetadataTraffic
  <2> QED BY <2>2, <2>3
<1> QED BY <1>2, <1>3, <1>4, <1>5

\* A handler that writes the status of an idle object, or begins a transition.
LEMMA IdleWrite ==
    ASSUME TypeOK, TrafficInv, NEW n, NEW then, Write(n, then),
           UNCHANGED <<obj, cache, service, kept>>,
           then \notin {"succeed", "succeedAdopted", "adopted"},
           rec.fresh => Served(cache, n) /\ Served(obj, n) /\ PreOver(n, KeptAfter(n, then))
    PROVE  TrafficInv'
<1>1. rec'.pc = "write" /\ rec'.fs = n /\ rec'.fresh = rec.fresh /\ rec'.then = then
  BY DEF Write, TypeOK, Reconciles
<1>2. ReadServed'
  BY <1>1 DEF ReadServed
<1>3. WriteServed'
  BY <1>1 DEF WriteServed, Served, Quiet, InFlight
<1>4. PreInv'
  BY <1>1 DEF TrafficInv, PreInv, PreOver, TransitionHooks, KeptAfter
<1> QED BY <1>2, <1>3, <1>4, ServedKept DEF TrafficInv

\* The Service is set, or lost, by a reconcile that has read rec.fs: what the
\* cache says of it still holds.
LEMMA ServiceSet ==
    ASSUME TypeOK, TrafficInv, rec.pc = "top", UNCHANGED <<obj, cache>>,
           ~InFlight(rec.fs) => \/ service' = rec.fs.addr[rec.fs.active]
                                \/ service # rec.fs.addr[rec.fs.active]
    PROVE  Served(cache, obj)'
<1>1. CASE cache.tr = obj.tr /\ cache.lastKnown = obj.lastKnown
  <2>1. cache.active \in Direction /\ (InFlight(obj) => obj.lastKnown # "unset")
    BY FieldsTyped DEF TypeOK, TrafficInv, Served
  <2> QED BY <1>1, <2>1 DEF Served, Quiet, InFlight, Direction
<1>2. CASE SameView(cache, rec.fs)
  BY <1>2 DEF TrafficInv, Served, Quiet, InFlight, SameView
<1> QED BY <1>1, <1>2 DEF TrafficInv, ReadServed

\* Steps of an idle object.
LEMMA TrafficIdleSteps ==
    ASSUME TypeOK, CurrentCopy, TrafficInv, CurrentCopy',
           \/ DetectTransition \/ CreateFailoverEvent \/ ReconcileIdleService \/ RecreateFails
           \/ SteadyState \/ SteadyAdopt \/ BeginRemoteSync
    PROVE  TrafficInv'
<1> USE CopyTyped
<1>1. CASE DetectTransition \/ BeginRemoteSync
  <2>1. Write(Begun(rec.fs), "create") /\ UNCHANGED <<obj, cache, service, kept>> /\ begun \in Nat
    BY <1>1 DEF DetectTransition, BeginRemoteSync, stores, world, history, TypeOK
  <2>2. PreOver(Begun(rec.fs), KeptAfter(Begun(rec.fs), "create"))
    BY <2>1, BegunPreOver DEF KeptAfter
  <2>3. ASSUME rec.fresh
        PROVE  /\ ~InFlight(obj) /\ ~Quiet(obj) /\ (Quiet(cache) => service = cache.addr[cache.active])
               /\ rec.fs = obj /\ obj.lastKnown # "unset"
    <3>1. CASE DetectTransition
      <4>1. rec.fs = obj /\ SameView(cache, obj) /\ TransitionPending(obj) /\ ~InFlight(obj)
        BY <2>3, <3>1 DEF DetectTransition, Dispatch, Ready, CurrentCopy, TrafficInv,
           WriteServed, InFlight
      <4> QED BY <4>1 DEF SameView, TransitionPending, Quiet
    <3>2. CASE BeginRemoteSync
      BY <2>3, <3>2 DEF BeginRemoteSync, CurrentCopy, TrafficInv, WriteServed, Direction
    <3> QED BY <1>1, <3>1, <3>2
  <2>4. ASSUME rec.fresh
        PROVE  Served(cache, Begun(rec.fs)) /\ Served(obj, Begun(rec.fs))
    <3>1. obj.tr.phase # "UpdatingResources" /\ cache.tr.phase # "UpdatingResources"
      BY <2>3, <2>4 DEF InFlight, TrafficInv, Served
    <3>2. Begun(rec.fs).lastKnown = obj.lastKnown
      BY <2>3, <2>4 DEF Begun, FailoverService
    <3>3. Served(cache, obj)
      BY DEF TrafficInv
    <3> QED BY <2>3, <2>4, <3>1, <3>2, <3>3 DEF Served
  <2> QED BY <2>1, <2>2, <2>4, IdleWrite
<1>2. CASE CreateFailoverEvent
  BY <1>2, EndTraffic DEF CreateFailoverEvent, history
<1>3. CASE RecreateFails
  <2>1. /\ rec.pc = "top" /\ rec' = NoReconcile /\ UNCHANGED <<obj, cache, kept>>
        /\ Recreated(ServiceTarget(rec.fs))
    BY <1>3 DEF RecreateFails, Dispatch, Ready, history
  <2>2. ~InFlight(rec.fs) => service # rec.fs.addr[rec.fs.active]
    BY <2>1 DEF Recreated, ServiceTarget
  <2>3. Served(cache, obj)'
    BY <2>1, <2>2, ServiceSet
  <2>4. rec'.pc = "off"
    BY <2>1 DEF NoReconcile
  <2>5. PreInv'
    BY <2>1, <2>4 DEF TrafficInv, PreInv, PreOver, TransitionHooks
  <2> QED BY <2>3, <2>4, <2>5, NothingServed DEF TrafficInv
<1>4. CASE ReconcileIdleService
  <2>1. /\ rec.pc = "top" /\ ~InFlight(rec.fs) /\ UNCHANGED <<obj, cache, kept>>
        /\ service' = rec.fs.addr[rec.fs.active]
    BY <1>4 DEF ReconcileIdleService, Dispatch, Ready, InFlight, ServiceTarget, stores, history
  <2>2. rec'.pc = "steadySync" /\ rec'.fs = rec.fs /\ rec'.fresh = rec.fresh
    BY <1>4 DEF ReconcileIdleService, TypeOK, Reconciles
  <2>3. Served(cache, obj)'
    BY <2>1, ServiceSet
  <2>4. rec.fresh => rec.fs = obj /\ SameView(cache, obj)
    BY <2>1 DEF CurrentCopy, TrafficInv, WriteServed
  <2>5. ReadServed' /\ WriteServed'
    BY <2>1, <2>2, <2>4 DEF ReadServed, WriteServed, SameView
  <2>6. PreInv'
    BY <2>1, <2>2 DEF TrafficInv, PreInv, PreOver, TransitionHooks
  <2> QED BY <2>3, <2>5, <2>6 DEF TrafficInv
<1>5. CASE SteadyState
  <2> DEFINE n == [rec.fs EXCEPT !.lastKnown = rec.fs.active]
  <2>1. n.tr = rec.fs.tr /\ n.lastKnown = rec.fs.active
    BY DEF FailoverService
  <2>2. /\ Write(n, "requeue") /\ UNCHANGED <<obj, cache, service, kept>>
        /\ rec.pc = "steadySync"
    BY <1>5 DEF SteadyState, stores, world, history
  <2> HIDE DEF n
  <2>3. ASSUME rec.fresh PROVE Served(cache, n) /\ Served(obj, n) /\ PreOver(n, KeptAfter(n, "requeue"))
    <3>1. rec.fs = obj /\ SameView(cache, obj) /\ ~InFlight(obj) /\ service = obj.addr[obj.active]
      BY <2>2, <2>3 DEF CurrentCopy, TrafficInv, WriteServed
    <3>2. ~InFlight(n)
      BY <2>1, <3>1 DEF InFlight
    <3> QED BY <2>1, <3>1, <3>2, IdlePreOver DEF Served, Quiet, InFlight, SameView
  <2> QED BY <2>2, <2>3, IdleWrite
<1>6. CASE SteadyAdopt
  <2>1. PICK g \in RemoteGens : Write(Adopted(obj', rec.fs.active, g), "adopted")
    BY <1>6 DEF SteadyAdopt
  <2>2. /\ obj' = [obj EXCEPT !.active = Opposite(rec.fs.active)] /\ rec.pc = "steadySync"
        /\ rec.fresh /\ UNCHANGED <<cache, service, kept>>
    BY <1>6 DEF SteadyAdopt, world, history
  <2> DEFINE n == Adopted(obj', rec.fs.active, g)
  <2>3. /\ obj'.tr = obj.tr /\ obj'.lastKnown = obj.lastKnown /\ obj'.hooks = obj.hooks
        /\ obj'.active = Opposite(rec.fs.active) /\ n.tr = obj'.tr /\ n.lastKnown = rec.fs.active
    BY <2>2 DEF Adopted, FailoverService, TypeOK
  <2>4. rec'.pc = "write" /\ rec'.fs = n /\ rec'.then = "adopted"
    BY <2>1 DEF Write, TypeOK, Reconciles
  <2> HIDE DEF n
  <2>5. /\ rec.fs = obj /\ SameView(cache, obj) /\ ~InFlight(obj) /\ ~TransitionPending(obj)
        /\ service = obj.addr[obj.active]
    BY <2>2 DEF CurrentCopy, TrafficInv, WriteServed
  <2>6. ~InFlight(n) /\ obj.active \in Direction
    BY <2>3, <2>5, FieldsTyped DEF InFlight
  <2>7. ~Quiet(obj)'
    BY <2>3, <2>5, <2>6 DEF Quiet, InFlight, TransitionPending, Opposite, Direction
  <2>8. Quiet(cache) => service = cache.addr[cache.active] /\ n.lastKnown = cache.lastKnown
    BY <2>3, <2>5 DEF SameView, Quiet
  <2>9. ReadServed' /\ WriteServed'
    <3>1. Served(cache, rec.fs)'
      BY <2>2, <2>4, <2>5, <2>6, <2>8 DEF Served, SameView, InFlight, Quiet
    <3>2. Served(obj, rec.fs)'
      BY <2>3, <2>4, <2>5, <2>6, <2>7 DEF Served, InFlight, Opposite, Direction
    <3>3. Quiet(cache)' => service' = cache'.addr[cache'.active]
      BY <2>2, <2>8 DEF Quiet, InFlight
    <3> QED BY <2>4, <2>7, <3>1, <3>2, <3>3 DEF ReadServed, WriteServed
  <2>10. PreInv'
    <3>1. ~InFlight(obj') /\ ~InFlight(rec'.fs)
      BY <2>3, <2>4, <2>5, <2>6 DEF InFlight
    <3> QED BY <3>1 DEF PreInv, PreOver, InFlight
  <2> QED BY <2>2, <2>3, <2>9, <2>10, ServedKept DEF TrafficInv
<1> QED BY <1>1, <1>2, <1>3, <1>4, <1>5, <1>6

\* A handler of a transition in flight that leaves the Service alone.
LEMMA TransitionTraffic ==
    ASSUME TypeOK, CurrentCopy, OrderInv, TrafficInv,
           TypeOK', CurrentCopy', EventInv', OrderInv',
           rec.pc = "top", InFlight(rec.fs),
           NEW n, NEW then \in {"requeue", "halt", "unannotate"}, Write(n, then),
           n.tr.new = rec.fs.tr.new, n.hooks = rec.fs.hooks, n.lastKnown = rec.fs.lastKnown,
           PrePhase(rec.fs) /\ ~PrePhase(n) => PhaseDone(rec.fs),
           UNCHANGED <<obj, cache, service, kept>>
    PROVE  TrafficInv'
BY TransitionWrite, ServedKept DEF TrafficInv

\* The action phases.
LEMMA TrafficActionSteps ==
    ASSUME TypeOK, CurrentCopy, OrderInv, TrafficInv,
           TypeOK', CurrentCopy', EventInv', OrderInv',
           \/ LeavePreActions \/ MarkRunning \/ PassAction \/ HaltOnFailure
           \/ TimeoutAction \/ RunCall \/ RunJob
    PROVE  TrafficInv'
<1> USE CopyTyped
<1>1. /\ UNCHANGED <<obj, cache, service, kept>> /\ rec.pc = "top" /\ InFlight(rec.fs)
  BY DEF LeavePreActions, MarkRunning, PassAction, HaltOnFailure, TimeoutAction, RunCall,
     RunJob, Dispatch, DispatchAction, AtAction, ActionPhase, InFlight, Ready, stores, world, history
<1>2. CASE LeavePreActions
  BY <1>1, <1>2, SnapshotKept, TransitionTraffic DEF LeavePreActions
<1>3. ASSUME NEW s, DispatchAction(s), NEW q
      PROVE  PrePhase(rec.fs) => PrePhase(SetResult(rec.fs, q))
  BY DEF SetResult, PrePhase, FailoverService, Transition
<1>4. CASE MarkRunning \/ TimeoutAction
  <2>1. PICK s \in ActionStatus, t \in ActionStatus :
          DispatchAction(t) /\ Write(WithStatus(rec.fs, s), "requeue")
    BY <1>4 DEF MarkRunning, TimeoutAction, ActionStatus
  <2>2. PrePhase(rec.fs) => PrePhase(WithStatus(rec.fs, s))
    BY <1>3, <2>1 DEF WithStatus
  <2> QED BY <1>1, <2>1, <2>2, SnapshotKept, TransitionTraffic
<1>5. CASE PassAction
  <2> DEFINE m == IF CurrentResult(rec.fs).status = "Failed"
                  THEN WithStatus(rec.fs, "Skipped") ELSE rec.fs
  <2>1. PICK s : DispatchAction(s)
    BY <1>5 DEF PassAction
  <2>2. /\ m \in FailoverService /\ m.tr.new = rec.fs.tr.new /\ m.hooks = rec.fs.hooks
        /\ m.lastKnown = rec.fs.lastKnown
    BY <2>1, ActionTyped, WithStatusTyped, SnapshotKept DEF ActionStatus
  <2>3. PrePhase(rec.fs) => PrePhase(m)
    BY <1>3, <2>1 DEF WithStatus
  <2>4. Write(NextAction(m), "requeue")
    BY <1>5 DEF PassAction
  <2> HIDE DEF m
  <2>5. NextAction(m).tr.phase = m.tr.phase
    BY <2>2, MoveFields
  <2>6. PrePhase(rec.fs) => PrePhase(NextAction(m))
    BY <2>3, <2>5 DEF PrePhase
  <2> QED BY <1>1, <2>2, <2>4, <2>6, SnapshotKept, TransitionTraffic
<1>6. CASE HaltOnFailure
  <2> DEFINE n == [rec.fs EXCEPT !.actionFailed = TRUE]
  <2>1. /\ n.tr = rec.fs.tr /\ n.hooks = rec.fs.hooks /\ n.lastKnown = rec.fs.lastKnown
        /\ Write(n, "halt")
    BY <1>6 DEF FailoverService, HaltOnFailure
  <2> HIDE DEF n
  <2> QED BY <1>1, <2>1, TransitionTraffic DEF PrePhase
<1>7. CASE RunCall \/ RunJob
  <2>1. DispatchAction("Running")
    BY <1>7 DEF RunCall, RunJob
  <2>2. \E o \in {"error", "pending", "success", "failure"} : RecordOutcome(o, TRUE) \/ RecordOutcome(o, FALSE)
    BY <1>7, JobOutcomeTyped, CallOutcomesTyped DEF RunCall, RunJob
  <2>3. PICK q \in Result : Write(SetResult(rec.fs, q), "requeue")
                              \/ Write(NextAction(SetResult(rec.fs, q)), "requeue")
    BY <2>1, <2>2, OutcomeIsResult
  <2> DEFINE m == SetResult(rec.fs, q)
  <2>4. /\ m \in FailoverService /\ m.tr.new = rec.fs.tr.new /\ m.hooks = rec.fs.hooks
        /\ m.lastKnown = rec.fs.lastKnown
        /\ PrePhase(rec.fs) => PrePhase(m)
    BY <1>3, <2>1, ActionTyped, SetResultTyped, SnapshotKept
  <2> HIDE DEF m
  <2>5. /\ NextAction(m).tr.new = rec.fs.tr.new /\ NextAction(m).hooks = rec.fs.hooks
        /\ NextAction(m).lastKnown = rec.fs.lastKnown
        /\ PrePhase(rec.fs) => PrePhase(NextAction(m))
    BY <2>4, SnapshotKept, MoveFields DEF PrePhase
  <2> QED BY <1>1, <2>3, <2>4, <2>5, TransitionTraffic DEF m
<1> QED BY <1>2, <1>4, <1>5, <1>6, <1>7

\* Switching and flushing.
LEMMA TrafficFlushSteps ==
    ASSUME TypeOK, CurrentCopy, OrderInv, TrafficInv,
           TypeOK', CurrentCopy', EventInv', OrderInv',
           \/ UpdateResources \/ SendKillSignal \/ SignalKillFails \/ CheckAcksFails
           \/ AwaitAcks \/ LeaveFlushing
    PROVE  TrafficInv'
<1> USE CopyTyped
<1>1. /\ UNCHANGED <<obj, cache, kept>> /\ rec.pc = "top" /\ InFlight(rec.fs) /\ ~PrePhase(rec.fs)
  BY DEF UpdateResources, SendKillSignal, SignalKillFails, CheckAcksFails, AwaitAcks,
     LeaveFlushing, FlushDone, Dispatch, Ready, InFlight, PrePhase, stores, history
<1>2. CASE UpdateResources
  <2>1. ReadServed' /\ WriteServed' /\ PreInv'
    BY <1>1, <1>2, SnapshotKept, TransitionWrite DEF UpdateResources
  <2>2. Served(cache, obj)'
    BY <1>1, ServiceSet DEF Quiet
  <2> QED BY <2>1, <2>2 DEF TrafficInv
<1>3. CASE ~UpdateResources
  <2>1. service' = service
    BY <1>3 DEF SendKillSignal, SignalKillFails, CheckAcksFails, AwaitAcks, LeaveFlushing, world
  <2>2. ASSUME NEW k PROVE /\ [rec.fs EXCEPT !.killed = k].tr = rec.fs.tr
                           /\ [rec.fs EXCEPT !.killed = k].hooks = rec.fs.hooks
                           /\ [rec.fs EXCEPT !.killed = k].lastKnown = rec.fs.lastKnown
    BY <2>2 DEF FailoverService
  <2>3. ASSUME NEW k, NEW then \in {"requeue", "halt"}, Write([rec.fs EXCEPT !.killed = k], then)
        PROVE  TrafficInv'
    <3> DEFINE n == [rec.fs EXCEPT !.killed = k]
    <3>1. /\ n.tr.new = rec.fs.tr.new /\ n.hooks = rec.fs.hooks /\ n.lastKnown = rec.fs.lastKnown
          /\ Write(n, then)
      BY <2>2, <2>3
    <3> HIDE DEF n
    <3> QED BY <1>1, <2>1, <3>1, TransitionTraffic
  <2>4. CASE SendKillSignal
    <3>1. PICK k \in Tokens :
            Write([rec.fs EXCEPT !.tr.kill = k, !.killed = "WaitingForAcks"], "requeue")
      BY <2>4 DEF SendKillSignal
    <3> DEFINE n == [rec.fs EXCEPT !.tr.kill = k, !.killed = "WaitingForAcks"]
    <3>2. n.tr.new = rec.fs.tr.new /\ n.hooks = rec.fs.hooks /\ n.lastKnown = rec.fs.lastKnown
      BY DEF FailoverService, Transition
    <3> HIDE DEF n
    <3> QED BY <1>1, <2>1, <3>1, <3>2, TransitionTraffic DEF n
  <2>5. CASE SignalKillFails
    BY <2>3, <2>5 DEF SignalKillFails
  <2>6. CASE CheckAcksFails \/ AwaitAcks
    <3>1. \/ Write([rec.fs EXCEPT !.killed = "AckTimeout"], "halt")
          \/ Write(rec.fs, "requeue")
          \/ rec' = NoReconcile
      BY <2>6 DEF CheckAcksFails, AwaitAcks
    <3>2. CASE Write(rec.fs, "requeue")
      BY <1>1, <2>1, <3>2, TransitionTraffic
    <3>3. CASE rec' = NoReconcile
      BY <1>1, <2>1, <3>3, EndTraffic
    <3> QED BY <2>3, <3>1, <3>2, <3>3
  <2>7. CASE LeaveFlushing
    <3> DEFINE m == [rec.fs EXCEPT !.killed = FlushReason(rec.fs)]
               n == GoToPhase(m, "ExecutingPostActions")
    <3>1. FlushReason(rec.fs) \in KillReasons
      BY DEF FlushReason, KillReasons
    <3>2. /\ m \in FailoverService /\ m.tr = rec.fs.tr /\ m.hooks = rec.fs.hooks
          /\ m.lastKnown = rec.fs.lastKnown
      BY <2>2, <3>1 DEF FailoverService
    <3>3. Write(n, "requeue")
      BY <2>7 DEF LeaveFlushing
    <3> HIDE DEF m
    <3>4. n.tr.new = rec.fs.tr.new /\ n.hooks = rec.fs.hooks /\ n.lastKnown = rec.fs.lastKnown
      BY <3>2, SnapshotKept
    <3> HIDE DEF n
    <3> QED BY <1>1, <2>1, <3>3, <3>4, TransitionTraffic
  <2> QED BY <1>3, <2>4, <2>5, <2>6, <2>7
<1> QED BY <1>2, <1>3

\* completeTransition.
LEMMA TrafficCompleteSteps ==
    ASSUME TypeOK, CurrentCopy, TrafficInv,
           CompleteTransition \/ CompleteInSync \/ CompleteAdopt \/ CloseFailoverEvent
    PROVE  TrafficInv'
<1> USE CopyTyped
<1>1. UNCHANGED <<cache, service, kept>>
  BY DEF CompleteTransition, CompleteInSync, CompleteAdopt, CloseFailoverEvent, stores, world, history
<1>2. CASE CompleteTransition
  <2>1. /\ rec.pc = "top" /\ obj' = obj /\ rec'.pc = "completeSync" /\ rec'.fresh = rec.fresh
    BY <1>2 DEF CompleteTransition, FlushDone, Dispatch, Ready, TypeOK, Reconciles, stores
  <2>2. rec.fresh => cache.tr = obj.tr
    BY <2>1 DEF TrafficInv, WriteServed, SameView
  <2>3. ReadServed' /\ WriteServed'
    BY <1>1, <2>1, <2>2 DEF ReadServed, WriteServed
  <2> QED BY <1>1, <2>1, <2>3, MetadataTraffic
<1>3. ASSUME rec.pc = "completeSync", rec.fresh
      PROVE  /\ cache.tr = obj.tr /\ ~InFlight(rec.fs)
             /\ obj.tr.phase \in {"FlushingConnections", "ExecutingPostActions"}
             /\ obj.lastKnown # "unset" /\ cache.lastKnown # "unset"
  BY <1>3 DEF CurrentCopy, TrafficInv, WriteServed, Served, InFlight
<1>4. CASE CompleteInSync
  <2>1. Write(rec.fs, "succeed") /\ rec.pc = "completeSync" /\ obj' = obj
    BY <1>4 DEF CompleteInSync, stores
  <2>2. rec'.pc = "write" /\ rec'.fs = rec.fs /\ rec'.fresh = rec.fresh /\ rec'.then = "succeed"
    BY <2>1 DEF Write, TypeOK, Reconciles
  <2>3. ReadServed' /\ WriteServed'
    BY <1>1, <1>3, <2>1, <2>2 DEF ReadServed, WriteServed, Served, Quiet, InFlight
  <2>4. PreInv'
    BY <1>1, <1>3, <2>1, <2>2 DEF TrafficInv, PreInv, PreOver, TransitionHooks, InFlight
  <2> QED BY <1>1, <2>1, <2>3, <2>4, ServedKept DEF TrafficInv
<1>5. CASE CompleteAdopt
  <2> DEFINE e(x) == [x EXCEPT !.actionFailed = FALSE, !.tr = NoTransition]
  <2>1. PICK g \in RemoteGens :
          Write(e(Adopted(obj', rec.fs.lastKnown, g)), "succeedAdopted")
    BY <1>5 DEF CompleteAdopt
  <2>2. /\ obj' = [obj EXCEPT !.active = Opposite(rec.fs.active)]
        /\ rec.pc = "completeSync" /\ rec.fresh
    BY <1>5 DEF CompleteAdopt
  <2>3. /\ obj' \in FailoverService /\ obj'.tr = obj.tr /\ obj'.lastKnown = obj.lastKnown
        /\ obj'.hooks = obj.hooks /\ rec.fs.lastKnown \in Direction /\ g \in Nat
    <3>1. Opposite(rec.fs.active) \in Direction
      BY DEF Opposite, Direction
    <3>2. rec.fs.lastKnown \in Direction
      BY <2>2, FieldsTyped DEF CurrentCopy, TypeOK
    <3> QED BY <2>2, <3>1, <3>2, BoundAssumption DEF FailoverService, TypeOK
  <2> DEFINE a == Adopted(obj', rec.fs.lastKnown, g)
             n == e(a)
  <2>4. a \in FailoverService
    BY <2>3, AdoptedTyped
  <2>5. n.tr = NoTransition
    <3> HIDE DEF a
    <3> QED BY <2>4 DEF FailoverService
  <2>6. rec'.pc = "write" /\ rec'.fs = n /\ rec'.then = "succeedAdopted"
    BY <2>1 DEF Write, TypeOK, Reconciles
  <2> HIDE DEF n
  <2>7. ~InFlight(n)
    BY <2>5 DEF NoTransition, InFlight
  <2>8. ReadServed' /\ WriteServed'
    BY <1>1, <1>3, <2>2, <2>3, <2>6, <2>7 DEF ReadServed, WriteServed, Served, Quiet, InFlight
  <2>9. PreInv'
    BY <1>1, <2>3, <2>6, <2>7 DEF TrafficInv, PreInv, PreOver, TransitionHooks, InFlight
  <2> QED BY <1>1, <2>3, <2>8, <2>9, ServedKept DEF TrafficInv
<1>6. CASE CloseFailoverEvent
  <2>1. /\ obj' = obj /\ rec.pc = "succeed"
        /\ \/ rec' = NoReconcile
           \/ rec'.pc = "begin" /\ rec'.fresh = rec.fresh /\ rec.fs.lastKnown # rec.fs.active
    BY <1>6 DEF CloseFailoverEvent, TypeOK, Reconciles
  <2>2. CASE rec' = NoReconcile
    BY <1>1, <2>1, <2>2, EndTraffic
  <2>3. CASE rec'.pc = "begin" /\ rec'.fresh = rec.fresh /\ rec.fs.lastKnown # rec.fs.active
    <3>1. rec.fresh => ~Quiet(obj) /\ ~Quiet(cache)
      BY <2>1, <2>3 DEF CurrentCopy, TrafficInv, WriteServed, Quiet
    <3>2. ReadServed' /\ WriteServed'
      BY <1>1, <2>1, <2>3, <3>1 DEF ReadServed, WriteServed, Quiet, InFlight
    <3> QED BY <1>1, <2>1, <2>3, <3>2, MetadataTraffic
  <2> QED BY <2>1, <2>2, <2>3
<1> QED BY <1>2, <1>4, <1>5, <1>6

\* Other writers leave the status alone, and an edit of the hooks is on record.
LEMMA TrafficEnvironmentSteps ==
    ASSUME TypeOK, TrafficInv,
           \/ FlipSpec \/ Annotate \/ EditHooks \/ EditAddresses \/ DeleteObject
           \/ FinishJob \/ AgentsAck \/ Expire
    PROVE  TrafficInv'
<1>1. CASE FinishJob \/ AgentsAck \/ Expire
  <2>1. UNCHANGED <<obj, cache, rec, service, kept>>
    BY <1>1 DEF FinishJob, AgentsAck, Expire, stores, history
  <2> QED BY <2>1 DEF TrafficInv, ReadServed, WriteServed, PreInv, Served, SameView, Quiet,
          InFlight, PreOver, KeptAfter, TransitionHooks
<1>2. CASE FlipSpec \/ Annotate \/ EditHooks \/ EditAddresses \/ DeleteObject
  <2>1. PICK o : /\ OthersWrite(o) /\ o.tr = obj.tr /\ o.lastKnown = obj.lastKnown
                 /\ kept' \in Nat /\ kept' <= kept
                 /\ \/ o.hooks[obj.tr.dir] = obj.hooks[obj.tr.dir]
                    \/ kept' <= Len(o.hooks[obj.tr.dir].pre)
    <3>0. kept \in Nat /\ obj \in FailoverService
      BY DEF TypeOK
    <3>1. CASE FlipSpec
      BY <3>0, <3>1 DEF FlipSpec, history, FailoverService
    <3>2. CASE Annotate
      BY <3>0, <3>2 DEF Annotate, history, FailoverService
    <3>3. CASE DeleteObject
      BY <3>0, <3>3 DEF DeleteObject, history, FailoverService
    <3>4. CASE EditHooks
      <4>1. PICK d \in Direction, h \in HookChoices :
              /\ OthersWrite([obj EXCEPT !.hooks[d] = h])
              /\ kept' = IF d = obj.tr.dir /\ Len(h.pre) < kept THEN Len(h.pre) ELSE kept
        BY <3>4 DEF EditHooks
      <4>2. Len(h.pre) \in Nat
        BY HooksAssumption, LenProperties DEF Hooks
      <4>3. kept' \in Nat /\ kept' <= kept /\ (d = obj.tr.dir => kept' <= Len(h.pre))
        BY <3>0, <4>1, <4>2
      <4> DEFINE o == [obj EXCEPT !.hooks[d] = h]
      <4>4. /\ o.tr = obj.tr /\ o.lastKnown = obj.lastKnown
            /\ d # obj.tr.dir => o.hooks[obj.tr.dir] = obj.hooks[obj.tr.dir]
            /\ o.hooks[d] = h
        BY <3>0 DEF FailoverService
      <4> HIDE DEF o
      <4> QED BY <4>1, <4>3, <4>4 DEF o
    <3>5. CASE EditAddresses
      BY <3>0, <3>5 DEF EditAddresses, history, FailoverService
    <3> QED BY <1>2, <3>1, <3>2, <3>3, <3>4, <3>5
  <2>2. /\ rec'.pc = rec.pc /\ rec'.fs = rec.fs /\ ~rec'.fresh
        /\ obj' = o /\ UNCHANGED <<cache, service>>
    BY <2>1 DEF OthersWrite, world, TypeOK, Reconciles
  <2>3. Served(cache, obj)'
    BY <2>1, <2>2, ServedKept
  <2>4. ReadServed'
    BY <2>1, <2>2 DEF TrafficInv, ReadServed, Served, SameView, Quiet, InFlight
  <2>5. WriteServed'
    BY <2>2 DEF WriteServed
  <2>6. PreOver(obj, kept)'
    <3>1. PreOver(obj, kept) /\ kept \in Nat
      BY DEF TrafficInv, PreInv, TypeOK
    <3>2. Len(obj.tr.pre) \in Nat /\ Len(TransitionHooks(obj).pre) \in Nat
      BY FieldsTyped, HooksAssumption, LenProperties DEF TypeOK, TransitionHooks, Hooks
    <3>3. PrePhase(obj) => kept' <= Len(TransitionHooks(obj').pre)
      BY <2>1, <2>2, <3>1, <3>2 DEF PreOver, TransitionHooks, PrePhase
    <3> QED BY <2>1, <2>2, <3>1, <3>2, <3>3 DEF PreOver, PrePhase
  <2>7. PreInv'
    BY <2>2, <2>6 DEF PreInv
  <2> QED BY <2>3, <2>4, <2>5, <2>7 DEF TrafficInv
<1> QED BY <1>1, <1>2

\* Every step keeps TrafficInv.
LEMMA TrafficNext ==
    TypeOK /\ CurrentCopy /\ OrderInv /\ TrafficInv /\ TypeOK' /\ CurrentCopy' /\ EventInv'
      /\ OrderInv' /\ [Next]_vars => TrafficInv'
<1> SUFFICES ASSUME TypeOK, CurrentCopy, OrderInv, TrafficInv,
                    TypeOK', CurrentCopy', EventInv', OrderInv', [Next]_vars
             PROVE  TrafficInv'
  OBVIOUS
<1>1. CASE UNCHANGED vars
  BY <1>1 DEF vars, stores, world, history, TrafficInv, ReadServed, WriteServed, PreInv, Served,
     SameView, Quiet, InFlight, PreOver, KeptAfter, TransitionHooks
<1>2. CASE ReconcileStep
  BY <1>2, TrafficQueueSteps, TrafficMetadataSteps, TrafficIdleSteps, TrafficActionSteps,
     TrafficFlushSteps, TrafficCompleteSteps DEF ReconcileStep
<1>3. CASE Environment
  BY <1>3, TrafficQueueSteps, TrafficIdleSteps, TrafficFlushSteps, TrafficEnvironmentSteps
     DEF Environment
<1> QED BY <1>1, <1>2, <1>3 DEF Next

\* Where a reconcile may put the Service, whatever copy it has read.
LEMMA SwitchStep ==
    ASSUME TypeOK, TrafficInv, [Next]_vars, service' \notin {service, "none"}
    PROVE  \/ /\ rec.fs.lastKnown = "unset" /\ obj.lastKnown # rec.fs.active
              /\ service' = rec.fs.addr[rec.fs.active]
           \/ ~InFlight(obj) /\ service' = rec.fs.addr[obj.lastKnown]
           \/ /\ obj.tr.phase \in {"UpdatingResources", "FlushingConnections"}
              /\ service' = obj.tr.new
              /\ Settled(SubSeq(obj.tr.pre, 1, kept))
<1>1. ReconcileIdleService \/ UpdateResources
  BY DEF Next, ReconcileStep, Environment, vars, world, StartReconcile, Conflict, WriteStatus,
     ReconcileDeletion, RemoveFinalizer, EnsureMetadata, ForceAdvance, RemoveAnnotation,
     DetectTransition, CreateFailoverEvent, SteadyState, SteadyAdopt, BeginRemoteSync,
     LeavePreActions, MarkRunning, PassAction, HaltOnFailure, TimeoutAction, RunCall, RunJob,
     SendKillSignal, AwaitAcks, LeaveFlushing, CompleteTransition, CompleteInSync, CompleteAdopt,
     CloseFailoverEvent, SyncCache, Abort, RecreateFails, SignalKillFails, CheckAcksFails,
     FlipSpec, Annotate, EditHooks, EditAddresses, DeleteObject, OthersWrite, FinishJob,
     AgentsAck, Expire
<1>2. rec.pc = "top" /\ Served(rec.fs, obj)
  BY <1>1 DEF ReconcileIdleService, UpdateResources, Dispatch, Ready, TrafficInv, ReadServed
<1>3. CASE ReconcileIdleService
  <2>1. /\ ~InFlight(rec.fs) /\ rec.fs.lastKnown \in {"unset", rec.fs.active}
        /\ service' = rec.fs.addr[rec.fs.active]
    BY <1>3 DEF ReconcileIdleService, Dispatch, InFlight, TransitionPending, ServiceTarget
  <2> QED BY <1>2, <2>1 DEF Served, Quiet
<1>4. CASE UpdateResources
  <2>1. rec.fs.tr.phase = "UpdatingResources" /\ service' = rec.fs.tr.new
    BY <1>4 DEF UpdateResources, Dispatch, InFlight, ServiceTarget
  <2> DEFINE res == obj.tr.pre
  <2>2. /\ obj.tr.phase \in {"UpdatingResources", "FlushingConnections"} /\ service' = obj.tr.new
        /\ kept <= Len(res) /\ \A i \in 1..kept : res[i].status \in Over
    BY <1>2, <2>1 DEF Served, TrafficInv, PreInv, PreOver
  <2>3. res \in Seq(Result) /\ kept \in Nat
    BY FieldsTyped DEF TypeOK
  <2> HIDE DEF res
  <2>4. /\ DOMAIN SubSeq(res, 1, kept) = 1..kept
        /\ \A i \in 1..kept : SubSeq(res, 1, kept)[i] = res[i]
    BY <2>2, <2>3, LenProperties
  <2>5. Settled(SubSeq(res, 1, kept))
    BY <2>2, <2>4 DEF Settled, Over
  <2> QED BY <2>2, <2>5 DEF res
<1> QED BY <1>1, <1>3, <1>4

\* Traffic moves only where the spec of a copy with no direction on record
\* says, to the address of the direction the idle cluster is on record in, or to
\* the address snapshotted by the transition in flight once every pre-action
\* that no edit has taken out of the hooks is over; also when the reconcile
\* that moves it has read a stale copy.
THEOREM TrafficCorrect == Spec => TrafficSwitch
<1> DEFINE Moved == service' \notin {service, "none"} =>
                      \/ /\ rec.fs.lastKnown = "unset" /\ obj.lastKnown # rec.fs.active
                         /\ service' = rec.fs.addr[rec.fs.active]
                      \/ ~InFlight(obj) /\ service' = rec.fs.addr[obj.lastKnown]
                      \/ /\ obj.tr.phase \in {"UpdatingResources", "FlushingConnections"}
                         /\ service' = obj.tr.new
                         /\ Settled(SubSeq(obj.tr.pre, 1, kept))
<1>1. TypeOK /\ TrafficInv /\ [Next]_vars => [Moved]_vars
  BY SwitchStep
<1>2. TrafficSwitch <=> [][Moved]_vars
  BY DEF TrafficSwitch
<1> HIDE DEF Moved
<1> QED BY <1>1, <1>2, TrafficInit, TrafficNext, EventInit, EventNext, OrderInit, OrderNext,
        TypeCorrect, CopyCorrect, PTL DEF Spec

-----------------------------------------------------------------------------
(* Actions of the transition in flight *)

\* A reconcile that has read f may carry out an action while the object is o.
Near(f, o) ==
    AtAction(f) => /\ o.tr.id = f.tr.id /\ o.tr.phase = f.tr.phase
                   /\ o.tr.idx - f.tr.idx \in {0, 1}

\* The cache, and a copy just read from it, are near the object; what a copy
\* that can be written will make of the object is near both.
LagInv ==
    /\ Near(cache, obj)
    /\ rec.pc = "top" => Near(rec.fs, obj)
    /\ rec.pc = "top" /\ rec.fresh => cache.tr = obj.tr /\ cache.hooks = obj.hooks
    /\ rec.pc = "write" /\ rec.fresh => Near(cache, rec.fs) /\ Near(obj, rec.fs)
    /\ rec.pc = "completeSync" /\ rec.fresh => ~AtAction(cache) /\ ~AtAction(obj)

\* Whether a copy is at an action depends on its transition and its hooks.
LEMMA AtActionSame ==
    ASSUME NEW f, NEW g, f.tr = g.tr, f.hooks = g.hooks
    PROVE  AtAction(f) <=> AtAction(g)
BY DEF AtAction, ActionPhase, PhaseDone, PhaseActions, PhaseResults, PrePhase, TransitionHooks

\* An object is near itself.
LEMMA NearSelf ==
    ASSUME NEW f \in FailoverService
    PROVE  Near(f, f)
BY FieldsTyped DEF Near

\* Nothing near an object outside the action phases is at an action.
LEMMA NearNoAction ==
    ASSUME NEW f, NEW o, Near(f, o), ~ActionPhase(o)
    PROVE  ~AtAction(f)
BY DEF Near, AtAction, ActionPhase

\* Places where nothing is asked of the copy.
LEMMA LagKept ==
    ASSUME LagInv, cache' = cache, obj'.tr = obj.tr,
           rec'.pc \notin {"top", "write", "completeSync"}
    PROVE  LagInv'
BY AtActionSame DEF LagInv, Near

\* A handler writes a status that is near the copy it has read.
LEMMA LagWrite ==
    ASSUME TypeOK, CurrentCopy, LagInv, rec.pc = "top", UNCHANGED <<obj, cache>>,
           NEW n, NEW then, Write(n, then), Near(rec.fs, n)
    PROVE  LagInv'
<1>1. rec'.pc = "write" /\ rec'.fs = n /\ rec'.fresh = rec.fresh
  BY DEF Write, TypeOK, Reconciles
<1>2. Near(cache, obj)'
  BY DEF LagInv, Near, AtAction, ActionPhase, PhaseDone, PhaseActions, PhaseResults, PrePhase,
     TransitionHooks
<1>3. ASSUME rec.fresh PROVE Near(cache, n) /\ Near(obj, n)
  <2>1. rec.fs = obj /\ cache.tr = obj.tr /\ cache.hooks = obj.hooks
    BY <1>3 DEF CurrentCopy, LagInv
  <2>2. AtAction(cache) <=> AtAction(obj)
    BY <2>1, AtActionSame
  <2> QED BY <2>1, <2>2 DEF Near
<1>4. (Near(cache, rec.fs) /\ Near(obj, rec.fs))' <=> Near(cache, n) /\ Near(obj, n)
  BY <1>1 DEF Near, AtAction, ActionPhase, PhaseDone, PhaseActions, PhaseResults, PrePhase,
     TransitionHooks
<1> QED BY <1>1, <1>2, <1>3, <1>4 DEF LagInv

\* A write, or the choice of one, with no action on either side.
LEMMA LagIdleWrite ==
    ASSUME LagInv, cache' = cache, obj'.tr = obj.tr, rec'.pc \in {"write", "completeSync"},
           rec'.fresh => ~AtAction(cache) /\ ~AtAction(obj')
    PROVE  LagInv'
<1>1. Near(cache, obj)' /\ (~AtAction(cache) => ~AtAction(cache)')
  BY DEF LagInv, Near, AtAction, ActionPhase, PhaseDone, PhaseActions, PhaseResults, PrePhase,
     TransitionHooks
<1> QED BY <1>1 DEF LagInv, Near

\* Initially nothing is in flight.
LEMMA LagInit == Init => LagInv
<1> SUFFICES ASSUME Init PROVE LagInv
  OBVIOUS
<1>1. ~ActionPhase(cache) /\ rec.pc = "off"
  BY DEF Init, NewObject, NoTransition, NoReconcile, ActionPhase
<1> QED BY <1>1 DEF LagInv, Near, AtAction

\* Steps of the queue, the cache and the API server.
LEMMA LagQueueSteps ==
    ASSUME TypeOK, CurrentCopy, LagInv,
           StartReconcile \/ SyncCache \/ Abort \/ Conflict \/ WriteStatus
    PROVE  LagInv'
<1> USE DEF Near, AtAction, ActionPhase, PhaseDone, PhaseActions, PhaseResults, PrePhase,
            TransitionHooks
<1>1. CASE StartReconcile
  <2>1. UNCHANGED <<obj, cache>>
    BY <1>1 DEF StartReconcile
  <2>2. \/ rec'.pc = "off"
        \/ rec'.pc = "top" /\ rec'.fs = cache /\ (rec'.fresh <=> cache = obj)
    BY <1>1 DEF StartReconcile, NoReconcile
  <2> QED BY <2>1, <2>2 DEF LagInv
<1>2. CASE SyncCache
  <2>1. UNCHANGED <<obj, rec>> /\ cache' = obj
    BY <1>2 DEF SyncCache
  <2>2. obj.tr.idx - obj.tr.idx = 0
    BY FieldsTyped DEF TypeOK
  <2> QED BY <2>1, <2>2 DEF LagInv
<1>3. CASE Abort \/ Conflict
  <2>1. UNCHANGED <<obj, cache>> /\ rec'.pc = "off"
    BY <1>3 DEF Abort, Conflict, NoReconcile
  <2> QED BY <2>1, LagKept
<1>4. CASE WriteStatus
  <2>1. /\ rec.pc = "write" /\ rec.fresh /\ obj' = rec.fs /\ cache' = cache
        /\ rec'.pc \in {"off", "create", "unannotate", "succeed", "begin"}
    BY <1>4 DEF WriteStatus, AfterWrite, NoReconcile, TypeOK, Reconciles
  <2> QED BY <2>1 DEF LagInv
<1> QED BY <1>1, <1>2, <1>3, <1>4

\* Deletion, metadata and force-advance.
LEMMA LagMetadataSteps ==
    ASSUME TypeOK, CurrentCopy, LagInv,
           ReconcileDeletion \/ RemoveFinalizer \/ EnsureMetadata \/ ForceAdvance \/ RemoveAnnotation
    PROVE  LagInv'
<1> USE CopyTyped
<1>1. cache' = cache
  BY DEF ReconcileDeletion, RemoveFinalizer, EnsureMetadata, ForceAdvance, RemoveAnnotation, stores
<1>2. CASE ReconcileDeletion
  <2>1. obj' = obj /\ rec'.pc = "finalize"
    BY <1>2 DEF ReconcileDeletion, TypeOK, Reconciles, stores
  <2> QED BY <1>1, <2>1, LagKept
<1>3. CASE RemoveFinalizer \/ RemoveAnnotation
  <2>1. rec.fs = obj /\ rec'.pc = "off"
    BY <1>3 DEF RemoveFinalizer, RemoveAnnotation, CurrentCopy, NoReconcile
  <2>2. obj'.tr = obj.tr
    BY <1>3, <2>1 DEF RemoveFinalizer, RemoveAnnotation, FailoverService
  <2> QED BY <1>1, <2>1, <2>2, LagKept
<1>4. CASE EnsureMetadata
  <2>1. rec.fs = obj /\ rec.fresh /\ rec.pc = "top"
    BY <1>4 DEF EnsureMetadata, CurrentCopy
  <2>2. obj'.tr = obj.tr /\ obj'.hooks = obj.hooks
    BY <1>4, <2>1 DEF EnsureMetadata, FailoverService
  <2>3. rec'.pc = "top" /\ rec'.fs = obj'
    BY <1>4, <2>1 DEF EnsureMetadata, TypeOK, Reconciles
  <2>4. Near(obj, obj)
    BY <2>1, NearSelf
  <2> QED BY <1>1, <2>1, <2>2, <2>3, <2>4 DEF LagInv, Near, AtAction, ActionPhase, PhaseDone,
          PhaseActions, PhaseResults, PrePhase, TransitionHooks
<1>5. CASE ForceAdvance
  <2>1. UNCHANGED <<obj, cache>> /\ rec.pc = "top"
    BY <1>5 DEF ForceAdvance, Ready, stores
  <2>2. CASE InFlight(rec.fs)
    <3>1. Write(ForceAdvanced(rec.fs), "unannotate")
      BY <1>5, <2>2 DEF ForceAdvance
    <3>2. Near(rec.fs, ForceAdvanced(rec.fs))
      <4> SUFFICES ASSUME AtAction(rec.fs)
                   PROVE  /\ ForceAdvanced(rec.fs).tr.id = rec.fs.tr.id
                          /\ ForceAdvanced(rec.fs).tr.phase = rec.fs.tr.phase
                          /\ ForceAdvanced(rec.fs).tr.idx - rec.fs.tr.idx \in {0, 1}
        BY DEF Near
      <4> DEFINE r == [CurrentResult(rec.fs) EXCEPT !.status = "Skipped"]
                 m == SetResult(rec.fs, r)
      <4>1. ActionPhase(rec.fs) /\ rec.fs.tr.idx < Len(PhaseResults(rec.fs)) /\ rec.fs.tr.idx \in Nat
        BY FieldsTyped, LenProperties DEF AtAction, PhaseDone, PhaseResults
      <4>2. r \in Result
        BY <4>1, CurrentResultTyped DEF Result, ActionStatus
      <4>3. ForceAdvanced(rec.fs) = [NextAction(m) EXCEPT !.actionFailed = FALSE]
        BY <4>1 DEF ForceAdvanced, ActionPhase
      <4> HIDE DEF r
      <4>4. /\ m \in FailoverService /\ m.tr.id = rec.fs.tr.id /\ m.tr.phase = rec.fs.tr.phase
            /\ m.tr.idx = rec.fs.tr.idx
        BY <4>1, <4>2, SetResultTyped, SetResultFields
      <4> HIDE DEF m
      <4>5. NextAction(m) \in FailoverService
        BY <4>4, StepTyped DEF Phases
      <4>6. ForceAdvanced(rec.fs).tr = NextAction(m).tr
        BY <4>3, <4>5 DEF FailoverService
      <4> QED BY <4>1, <4>4, <4>6, MoveFields
    <3> QED BY <2>1, <3>1, <3>2, LagWrite
  <2>3. CASE ~InFlight(rec.fs)
    <3>1. rec'.pc = "unannotate"
      BY <1>5, <2>3 DEF ForceAdvance, TypeOK, Reconciles
    <3> QED BY <2>1, <3>1, LagKept
  <2> QED BY <2>2, <2>3
<1> QED BY <1>2, <1>3, <1>4, <1>5

\* Steps of an idle object.
LEMMA LagIdleSteps ==
    ASSUME TypeOK, CurrentCopy, LagInv,
           \/ DetectTransition \/ CreateFailoverEvent \/ ReconcileIdleService \/ RecreateFails
           \/ SteadyState \/ SteadyAdopt \/ BeginRemoteSync
    PROVE  LagInv'
<1>1. cache' = cache
  BY DEF DetectTransition, CreateFailoverEvent, ReconcileIdleService, RecreateFails, SteadyState,
     SteadyAdopt, BeginRemoteSync, stores
<1>2. CASE CreateFailoverEvent \/ ReconcileIdleService \/ RecreateFails
  <2>1. obj' = obj /\ rec'.pc \in {"off", "steadySync"}
    BY <1>2 DEF CreateFailoverEvent, ReconcileIdleService, RecreateFails, NoReconcile, stores,
       TypeOK, Reconciles
  <2> QED BY <1>1, <2>1, LagKept
<1>3. CASE DetectTransition \/ SteadyState \/ SteadyAdopt \/ BeginRemoteSync
  <2>1. \E n, then : Write(n, then)
    BY <1>3 DEF DetectTransition, SteadyState, SteadyAdopt, BeginRemoteSync
  <2>2. rec'.pc = "write" /\ rec'.fresh = rec.fresh
    BY <2>1 DEF Write, TypeOK, Reconciles
  <2>3. obj'.tr = obj.tr
    BY <1>3 DEF DetectTransition, SteadyState, SteadyAdopt, BeginRemoteSync, stores, TypeOK,
       FailoverService
  <2>4. rec.fresh => ~InFlight(obj)
    BY <1>3 DEF DetectTransition, SteadyState, SteadyAdopt, BeginRemoteSync, CurrentCopy,
       Dispatch, Ready, InFlight
  <2>5. rec.fresh => ~ActionPhase(obj) /\ ~AtAction(obj')
    BY <2>3, <2>4 DEF InFlight, ActionPhase, AtAction
  <2>6. rec.fresh => ~AtAction(cache)
    BY <2>5, NearNoAction DEF LagInv
  <2> QED BY <1>1, <2>2, <2>3, <2>5, <2>6, LagIdleWrite
<1> QED BY <1>2, <1>3

\* The action phases: the index moves by at most one.
LEMMA LagActionSteps ==
    ASSUME TypeOK, CurrentCopy, LagInv,
           \/ LeavePreActions \/ MarkRunning \/ PassAction \/ HaltOnFailure
           \/ TimeoutAction \/ RunCall \/ RunJob
    PROVE  LagInv'
<1> USE CopyTyped
<1>1. UNCHANGED <<obj, cache>> /\ rec.pc = "top"
  BY DEF LeavePreActions, MarkRunning, PassAction, HaltOnFailure, TimeoutAction, RunCall,
     RunJob, Dispatch, DispatchAction, Ready, stores
<1>2. CASE LeavePreActions
  BY <1>1, <1>2, LagWrite DEF LeavePreActions, Near, AtAction
<1>3. ASSUME NEW s, DispatchAction(s), NEW q \in Result
      PROVE  /\ SetResult(rec.fs, q) \in FailoverService
             /\ Near(rec.fs, SetResult(rec.fs, q)) /\ Near(rec.fs, NextAction(SetResult(rec.fs, q)))
             /\ Near(rec.fs, NextAction(rec.fs))
  <2> DEFINE m == SetResult(rec.fs, q)
  <2>1. ActionPhase(rec.fs) /\ rec.fs.tr.idx < Len(PhaseResults(rec.fs)) /\ rec.fs.tr.idx \in Nat
    BY <1>3, ActionTyped, FieldsTyped DEF DispatchAction, AtAction
  <2>2. /\ m \in FailoverService /\ m.tr.id = rec.fs.tr.id /\ m.tr.phase = rec.fs.tr.phase
        /\ m.tr.idx = rec.fs.tr.idx
    BY <1>3, <2>1, SetResultTyped, SetResultFields
  <2> HIDE DEF m
  <2> QED BY <2>1, <2>2, MoveFields DEF Near, m
<1>4. ASSUME NEW s, DispatchAction(s), NEW t \in ActionStatus
      PROVE  \E q \in Result : WithStatus(rec.fs, t) = SetResult(rec.fs, q)
  <2>1. [CurrentResult(rec.fs) EXCEPT !.status = t] \in Result
    BY <1>4, ActionTyped DEF Result
  <2> QED BY <2>1 DEF WithStatus
<1>5. CASE MarkRunning \/ TimeoutAction
  <2>1. \E s, t \in ActionStatus : DispatchAction(s) /\ Write(WithStatus(rec.fs, t), "requeue")
    BY <1>5 DEF MarkRunning, TimeoutAction, ActionStatus
  <2> QED BY <1>1, <1>3, <1>4, <2>1, LagWrite
<1>6. CASE PassAction
  <2>1. PICK s : DispatchAction(s)
    BY <1>6 DEF PassAction
  <2>2. \/ Write(NextAction(rec.fs), "requeue")
        \/ Write(NextAction(WithStatus(rec.fs, "Skipped")), "requeue")
    BY <1>6 DEF PassAction
  <2>3. PICK q \in Result : WithStatus(rec.fs, "Skipped") = SetResult(rec.fs, q)
    BY <1>4, <2>1 DEF ActionStatus
  <2>4. Near(rec.fs, NextAction(rec.fs)) /\ Near(rec.fs, NextAction(WithStatus(rec.fs, "Skipped")))
    BY <1>3, <2>1, <2>3
  <2> QED BY <1>1, <2>2, <2>4, LagWrite
<1>7. CASE HaltOnFailure
  <2> DEFINE n == [rec.fs EXCEPT !.actionFailed = TRUE]
  <2>1. n.tr = rec.fs.tr /\ Write(n, "halt")
    BY <1>7 DEF FailoverService, HaltOnFailure
  <2> HIDE DEF n
  <2>2. Near(rec.fs, n)
    BY <2>1, NearSelf DEF Near
  <2> QED BY <1>1, <2>1, <2>2, LagWrite
<1>8. CASE RunCall \/ RunJob
  <2>1. DispatchAction("Running")
    BY <1>8 DEF RunCall, RunJob
  <2>2. \E o \in {"error", "pending", "success", "failure"} : RecordOutcome(o, TRUE) \/ RecordOutcome(o, FALSE)
    BY <1>8, JobOutcomeTyped, CallOutcomesTyped DEF RunCall, RunJob
  <2>3. PICK q \in Result : Write(SetResult(rec.fs, q), "requeue")
                              \/ Write(NextAction(SetResult(rec.fs, q)), "requeue")
    BY <2>1, <2>2, OutcomeIsResult
  <2>4. Near(rec.fs, SetResult(rec.fs, q)) /\ Near(rec.fs, NextAction(SetResult(rec.fs, q)))
    BY <1>3, <2>1
  <2> QED BY <1>1, <2>3, <2>4, LagWrite
<1> QED BY <1>2, <1>5, <1>6, <1>7, <1>8

\* Switching, flushing and completeTransition: no action is due.
LEMMA LagFlushSteps ==
    ASSUME TypeOK, CurrentCopy, LagInv,
           \/ UpdateResources \/ SendKillSignal \/ SignalKillFails \/ CheckAcksFails
           \/ AwaitAcks \/ LeaveFlushing
           \/ CompleteTransition \/ CompleteInSync \/ CompleteAdopt \/ CloseFailoverEvent
    PROVE  LagInv'
<1>1. cache' = cache
  BY DEF UpdateResources, SendKillSignal, SignalKillFails, CheckAcksFails, AwaitAcks,
     LeaveFlushing, CompleteTransition, CompleteInSync, CompleteAdopt, CloseFailoverEvent, stores
<1>2. CASE \/ UpdateResources \/ SendKillSignal \/ SignalKillFails \/ CheckAcksFails
           \/ AwaitAcks \/ LeaveFlushing
  <2>1. obj' = obj /\ rec.pc = "top" /\ ~AtAction(rec.fs)
    BY <1>2 DEF UpdateResources, SendKillSignal, SignalKillFails, CheckAcksFails, AwaitAcks,
       LeaveFlushing, FlushDone, Dispatch, Ready, AtAction, ActionPhase, stores
  <2>2. rec' = NoReconcile \/ \E n, then : Write(n, then)
    BY <1>2 DEF UpdateResources, SendKillSignal, SignalKillFails, CheckAcksFails, AwaitAcks,
       LeaveFlushing
  <2>3. CASE rec' = NoReconcile
    BY <1>1, <2>1, <2>3, LagKept DEF NoReconcile
  <2>4. CASE \E n, then : Write(n, then)
    BY <1>1, <2>1, <2>4, LagWrite DEF Near
  <2> QED BY <2>2, <2>3, <2>4
<1>3. CASE CompleteTransition
  <2>1. /\ obj' = obj /\ rec.pc = "top" /\ ~AtAction(rec.fs)
        /\ rec'.pc = "completeSync" /\ rec'.fresh = rec.fresh
    BY <1>3 DEF CompleteTransition, FlushDone, Dispatch, Ready, AtAction, ActionPhase, stores,
       TypeOK, Reconciles
  <2>2. rec.fresh => rec.fs = obj /\ cache.tr = obj.tr /\ cache.hooks = obj.hooks
    BY <2>1 DEF CurrentCopy, LagInv
  <2>3. rec.fresh => ~AtAction(cache) /\ ~AtAction(obj)
    BY <2>1, <2>2, AtActionSame
  <2> QED BY <1>1, <2>1, <2>3, LagIdleWrite
<1>4. CASE CompleteInSync \/ CompleteAdopt
  <2>1. rec.pc = "completeSync" /\ \E n, then : Write(n, then)
    BY <1>4 DEF CompleteInSync, CompleteAdopt
  <2>2. rec'.pc = "write" /\ rec'.fresh = rec.fresh
    BY <2>1 DEF Write, TypeOK, Reconciles
  <2>3. obj'.tr = obj.tr /\ obj'.hooks = obj.hooks
    BY <1>4 DEF CompleteInSync, CompleteAdopt, stores, TypeOK, FailoverService
  <2>4. rec.fresh => ~AtAction(cache) /\ ~AtAction(obj')
    BY <2>1, <2>3, AtActionSame DEF LagInv
  <2> QED BY <1>1, <2>2, <2>3, <2>4, LagIdleWrite
<1>5. CASE CloseFailoverEvent
  <2>1. obj' = obj /\ rec'.pc \in {"off", "begin"}
    BY <1>5 DEF CloseFailoverEvent, NoReconcile, TypeOK, Reconciles
  <2> QED BY <1>1, <2>1, LagKept
<1> QED BY <1>2, <1>3, <1>4, <1>5

\* Other writers leave the status alone.
LEMMA LagEnvironmentSteps ==
    ASSUME TypeOK, LagInv,
           \/ FlipSpec \/ Annotate \/ EditHooks \/ EditAddresses \/ DeleteObject
           \/ FinishJob \/ AgentsAck \/ Expire
    PROVE  LagInv'
<1> USE DEF Near, AtAction, ActionPhase, PhaseDone, PhaseActions, PhaseResults, PrePhase,
            TransitionHooks
<1>1. CASE FinishJob \/ AgentsAck \/ Expire
  <2>1. UNCHANGED <<obj, cache, rec>>
    BY <1>1 DEF FinishJob, AgentsAck, Expire, stores
  <2> QED BY <2>1 DEF LagInv
<1>2. CASE FlipSpec \/ Annotate \/ EditHooks \/ EditAddresses \/ DeleteObject
  <2>1. PICK o : OthersWrite(o) /\ o.tr = obj.tr
    <3>1. CASE FlipSpec
      BY <3>1 DEF FlipSpec, TypeOK, FailoverService
    <3>2. CASE Annotate
      BY <3>2 DEF Annotate, TypeOK, FailoverService
    <3>3. CASE DeleteObject
      BY <3>3 DEF DeleteObject, TypeOK, FailoverService
    <3>4. CASE EditHooks
      BY <3>4 DEF EditHooks, TypeOK, FailoverService
    <3>5. CASE EditAddresses
      BY <3>5 DEF EditAddresses, TypeOK, FailoverService
    <3> QED BY <1>2, <3>1, <3>2, <3>3, <3>4, <3>5
  <2>2. /\ rec'.pc = rec.pc /\ rec'.fs = rec.fs /\ ~rec'.fresh
        /\ obj' = o /\ cache' = cache
    BY <2>1 DEF OthersWrite, TypeOK, Reconciles
  <2> QED BY <2>1, <2>2 DEF LagInv
<1> QED BY <1>1, <1>2

\* Every step keeps LagInv.
LEMMA LagNext == TypeOK /\ CurrentCopy /\ LagInv /\ [Next]_vars => LagInv'
<1> SUFFICES ASSUME TypeOK, CurrentCopy, LagInv, [Next]_vars PROVE LagInv'
  OBVIOUS
<1>1. CASE UNCHANGED vars
  BY <1>1 DEF vars, stores, LagInv, Near, AtAction, ActionPhase, PhaseDone, PhaseActions,
     PhaseResults, PrePhase, TransitionHooks
<1>2. CASE ReconcileStep
  BY <1>2, LagQueueSteps, LagMetadataSteps, LagIdleSteps, LagActionSteps, LagFlushSteps
     DEF ReconcileStep
<1>3. CASE Environment
  BY <1>3, LagQueueSteps, LagIdleSteps, LagFlushSteps, LagEnvironmentSteps DEF Environment
<1> QED BY <1>1, <1>2, <1>3 DEF Next

\* An action is carried out only for the transition and the phase that are
\* persisted, and at most one action late, whatever copy the reconcile has read.
THEOREM InFlightCorrect == Spec => []ActionInFlight
<1>1. LagInv => ActionInFlight
  BY DEF LagInv, Near, ActionInFlight, DispatchAction, Ready
<1> QED BY <1>1, LagInit, LagNext, TypeCorrect, CopyCorrect, PTL DEF Spec

-----------------------------------------------------------------------------
(* Jobs *)

\* As long as the hooks are left alone, a Job action that succeeded has its
\* Job on record.
JobFlags(fs, wasEdited) ==
    InFlight(fs) /\ ~wasEdited =>
        \A phase \in {"ExecutingPreActions", "ExecutingPostActions"} :
          LET acts == ActionsOf(fs, phase)
              res  == ResultsOf(fs.tr, phase)
          IN  \A i \in 1..Len(res) :
                i <= Len(acts) /\ acts[i].kind = "job" /\ res[i].status = "Succeeded" => res[i].job

\* Of the Jobs the object has on record, only those are left that could not be
\* deleted.
Deleted == \A j \in RecordedJobs(obj) : <<j.id, j.idx>> \in undeleted

\* completeTransition is the only way out of a transition, and it writes
\* nothing before the Jobs on record are deleted.
JobInv ==
    /\ JobFlags(obj, edited)
    /\ rec.pc = "write" /\ rec.fresh => JobFlags(rec.fs, edited /\ rec.then # "create")
    /\ rec.pc = "write" /\ rec.fresh /\ InFlight(obj) =>
         \/ rec.then \in {"succeed", "succeedAdopted"}
         \/ rec.then # "create" /\ InFlight(rec.fs)
    /\ rec.fresh /\ \/ rec.pc = "completeSync"
                    \/ rec.pc = "write" /\ rec.then \in {"succeed", "succeedAdopted"}
         => Deleted

\* Only the transition and the hooks matter.
LEMMA JobFlagsSame ==
    ASSUME NEW f, NEW g, NEW e, f.hooks = g.hooks, f.tr.dir = g.tr.dir,
           f.tr.pre = g.tr.pre, f.tr.post = g.tr.post, InFlight(f), JobFlags(f, e)
    PROVE  JobFlags(g, e)
BY DEF JobFlags, ActionsOf, ResultsOf, TransitionHooks

\* An idle object has no action on record.
LEMMA IdleJobFlags ==
    ASSUME NEW fs, NEW e, ~InFlight(fs)
    PROVE  JobFlags(fs, e)
BY DEF JobFlags

\* Nothing has succeeded in a transition that begins.
LEMMA BegunJobFlags ==
    ASSUME NEW fs \in FailoverService, begun \in Nat, NEW e
    PROVE  JobFlags(Begun(fs), e)
<1> DEFINE h == fs.hooks[fs.active]
           t == [phase |-> IF Len(h.pre) > 0 THEN "ExecutingPreActions" ELSE "UpdatingResources",
                 dir |-> fs.active, id |-> begun + 1, idx |-> 0,
                 pre |-> PendingResults(h.pre), post |-> PendingResults(h.post),
                 old |-> fs.addr[Opposite(fs.active)], new |-> fs.addr[fs.active], kill |-> 0]
           n == [fs EXCEPT !.tr = t]
<1>1. h.pre \in Seq(Action) /\ h.post \in Seq(Action)
  BY FieldsTyped, HooksAssumption DEF Hooks
<1>2. t.pre = PendingResults(h.pre) /\ t.post = PendingResults(h.post) /\ Begun(fs) = n
  BY DEF Begun
<1>3. ASSUME NEW a \in Seq(Action), NEW i \in 1..Len(PendingResults(a))
      PROVE  PendingResults(a)[i].status # "Succeeded"
  <2>1. Len(PendingResults(a)) = Len(a)
    BY PendingResultsTyped, LenProperties DEF PendingResults
  <2> QED BY <1>3, <2>1 DEF PendingResults
<1> HIDE DEF t
<1>4. n.tr = t
  BY DEF FailoverService
<1> HIDE DEF n
<1> QED BY <1>1, <1>2, <1>3, <1>4 DEF JobFlags, ResultsOf

\* Moving on leaves the results and the hooks alone.
LEMMA MoveJobFlags ==
    ASSUME NEW fs \in FailoverService, NEW e, NEW p, InFlight(fs), JobFlags(fs, e)
    PROVE  JobFlags(NextAction(fs), e) /\ JobFlags(GoToPhase(fs, p), e)
<1>1. NextAction(fs).tr.dir = fs.tr.dir /\ GoToPhase(fs, p).tr.dir = fs.tr.dir
  BY DEF NextAction, GoToPhase, FailoverService, Transition
<1> QED BY <1>1, MoveFields, SnapshotKept, JobFlagsSame

\* A result that does not claim the success of an unrecorded Job may be stored.
LEMMA SetResultJobFlags ==
    ASSUME NEW fs \in FailoverService, NEW e, NEW q \in Result, ActionPhase(fs),
           fs.tr.idx < Len(PhaseResults(fs)), JobFlags(fs, e),
           q.status = "Succeeded" => q.job \/ (AtAction(fs) /\ CurrentAction(fs).kind # "job")
    PROVE  JobFlags(SetResult(fs, q), e)
<1> DEFINE n == SetResult(fs, q)
           k == fs.tr.idx
<1>1. /\ n.tr.phase = fs.tr.phase
      /\ PhaseResults(n) = [PhaseResults(fs) EXCEPT ![k + 1] = q]
      /\ PrePhase(fs) => n.tr.post = fs.tr.post
      /\ ~PrePhase(fs) => n.tr.pre = fs.tr.pre
      /\ n.hooks = fs.hooks
  BY SetResultFields, SnapshotKept
<1>2. n.tr.dir = fs.tr.dir
  BY DEF SetResult, FailoverService, Transition
<1>3. PhaseResults(fs) \in Seq(Result) /\ k \in Nat /\ k + 1 \in 1..Len(PhaseResults(fs))
  BY FieldsTyped, LenProperties DEF PhaseResults
<1> HIDE DEF n
<1> SUFFICES ASSUME InFlight(n), ~e, NEW phase \in {"ExecutingPreActions", "ExecutingPostActions"},
                    NEW i \in 1..Len(ResultsOf(n.tr, phase)), i <= Len(ActionsOf(n, phase)),
                    ActionsOf(n, phase)[i].kind = "job",
                    ResultsOf(n.tr, phase)[i].status = "Succeeded"
             PROVE  ResultsOf(n.tr, phase)[i].job
  BY DEF JobFlags, n
<1>4. ActionsOf(n, phase) = ActionsOf(fs, phase) /\ InFlight(fs)
  BY <1>1, <1>2 DEF ActionsOf, TransitionHooks, ActionPhase, InFlight
<1>5. CASE phase # fs.tr.phase
  <2>1. ResultsOf(n.tr, phase) = ResultsOf(fs.tr, phase)
    BY <1>1, <1>5 DEF ResultsOf, PrePhase, ActionPhase
  <2> QED BY <1>4, <2>1 DEF JobFlags
<1>6. CASE phase = fs.tr.phase
  <2>1. /\ ResultsOf(n.tr, phase) = [PhaseResults(fs) EXCEPT ![k + 1] = q]
        /\ ResultsOf(fs.tr, phase) = PhaseResults(fs)
        /\ ActionsOf(fs, phase) = PhaseActions(fs)
    BY <1>1, <1>6 DEF ResultsOf, ActionsOf, PhaseResults, PhaseActions, PrePhase, ActionPhase
  <2> DEFINE s == PhaseResults(fs)
             t == [s EXCEPT ![k + 1] = q]
  <2>2. /\ Len(t) = Len(s) /\ t[k + 1] = q
        /\ \A j \in 1..Len(s) : j # k + 1 => t[j] = s[j]
    BY <1>3, ExceptSeq
  <2> HIDE DEF s, t
  <2>3. CASE i = k + 1
    BY <1>4, <2>1, <2>2, <2>3 DEF CurrentAction, k, s, t
  <2>4. CASE i # k + 1
    BY <1>4, <2>1, <2>2, <2>4 DEF JobFlags, s, t
  <2> QED BY <2>3, <2>4
<1> QED BY <1>5, <1>6

\* What an outcome records: a success only if the executor said so, with the
\* Job's name if one came back.
LEMMA OutcomeJob ==
    ASSUME TypeOK, NEW o \in {"error", "pending", "success", "failure"}, NEW job \in BOOLEAN,
           DispatchAction("Running"), RecordOutcome(o, job)
    PROVE  \E q \in Result : /\ q.status = "Succeeded" => o = "success" /\ q.job = job
                             /\ \/ Write(SetResult(rec.fs, q), "requeue")
                                \/ Write(NextAction(SetResult(rec.fs, q)), "requeue")
<1> DEFINE r == CurrentResult(rec.fs)
<1>1. r \in Result /\ r.status = "Running"
  BY ActionTyped DEF DispatchAction
<1> HIDE DEF r
<1> DEFINE a == [r EXCEPT !.retries = @ + 1]
           b == [a EXCEPT !.status = "Failed"]
           c == [r EXCEPT !.job = job]
           d == [r EXCEPT !.job = job, !.status = "Succeeded"]
           f == [r EXCEPT !.job = job, !.status = "Failed"]
<1>2. a \in Result /\ a.status = "Running"
  BY <1>1 DEF Result
<1>3. /\ b \in Result /\ b.status = "Failed"
      /\ c \in Result /\ c.status = "Running"
      /\ d \in Result /\ d.status = "Succeeded" /\ d.job = job
      /\ f \in Result /\ f.status = "Failed"
  <2> HIDE DEF a
  <2> QED BY <1>1, <1>2 DEF Result, ActionStatus
<1>4. CASE o = "error" /\ r.retries < MaxRetries
  <2>1. Write(SetResult(rec.fs, a), "requeue")
    BY <1>1, <1>4, BoundAssumption DEF RecordOutcome, Result, r
  <2> QED BY <1>2, <2>1
<1>5. CASE o = "error" /\ ~(r.retries < MaxRetries)
  <2>1. Write(SetResult(rec.fs, b), "requeue")
    BY <1>1, <1>5, BoundAssumption DEF RecordOutcome, Result, r
  <2> QED BY <1>3, <2>1
<1>6. CASE o = "pending"
  <2>1. Write(SetResult(rec.fs, c), "requeue")
    BY <1>6 DEF RecordOutcome, r
  <2> QED BY <1>3, <2>1
<1>7. CASE o = "success"
  <2>1. Write(NextAction(SetResult(rec.fs, d)), "requeue")
    BY <1>7 DEF RecordOutcome, r
  <2> QED BY <1>3, <1>7, <2>1
<1>8. CASE o = "failure"
  <2>1. Write(SetResult(rec.fs, f), "requeue")
    BY <1>8 DEF RecordOutcome, r
  <2> QED BY <1>3, <2>1
<1> QED BY <1>4, <1>5, <1>6, <1>7, <1>8

\* Places where nothing is asked of the copy.
LEMMA JobsKept ==
    ASSUME JobInv, edited' = edited, obj'.tr = obj.tr, obj'.hooks = obj.hooks,
           rec'.pc \notin {"write", "completeSync"}
    PROVE  JobInv'
BY DEF JobInv, JobFlags, ActionsOf, ResultsOf, TransitionHooks, InFlight

\* A handler of a transition in flight writes a later status of it.
LEMMA JobsWrite ==
    ASSUME TypeOK, CurrentCopy, JobInv, rec.pc = "top", UNCHANGED <<obj, edited>>,
           NEW n, NEW then \in {"requeue", "halt", "unannotate"}, Write(n, then), InFlight(n),
           JobFlags(rec.fs, edited) => JobFlags(n, edited)
    PROVE  JobInv'
<1>1. rec'.pc = "write" /\ rec'.fs = n /\ rec'.fresh = rec.fresh /\ rec'.then = then
  BY DEF Write, TypeOK, Reconciles
<1>2. rec.fresh => JobFlags(n, edited)
  BY DEF CurrentCopy, JobInv
<1> QED BY <1>1, <1>2 DEF JobInv, JobFlags, ActionsOf, ResultsOf, TransitionHooks, InFlight

\* A write that begins a transition, or leaves the object idle.
LEMMA JobsIdleWrite ==
    ASSUME TypeOK, JobInv, edited' = edited, obj'.tr = obj.tr, obj'.hooks = obj.hooks,
           NEW n, NEW then \in {"requeue", "create", "adopted"}, Write(n, then),
           rec.fresh => ~InFlight(obj), JobFlags(n, FALSE)
    PROVE  JobInv'
<1>1. rec'.pc = "write" /\ rec'.fs = n /\ rec'.fresh = rec.fresh /\ rec'.then = then
  BY DEF Write, TypeOK, Reconciles
<1> QED BY <1>1 DEF JobInv, JobFlags, ActionsOf, ResultsOf, TransitionHooks, InFlight

\* Initially nothing is in flight.
LEMMA JobInit == Init => JobInv
<1> SUFFICES ASSUME Init PROVE JobInv
  OBVIOUS
<1>1. ~InFlight(obj) /\ rec.pc = "off"
  BY DEF Init, NewObject, NoTransition, NoReconcile, InFlight
<1> QED BY <1>1, IdleJobFlags DEF JobInv

\* Steps of the queue, the cache and the API server.
LEMMA JobQueueSteps ==
    ASSUME TypeOK, CurrentCopy, JobInv,
           StartReconcile \/ SyncCache \/ Abort \/ Conflict \/ WriteStatus
    PROVE  JobInv'
<1>1. CASE StartReconcile \/ Abort \/ Conflict
  <2>1. UNCHANGED <<obj, edited>> /\ rec'.pc \in {"off", "top"}
    BY <1>1 DEF StartReconcile, Abort, Conflict, NoReconcile, history
  <2> QED BY <2>1, JobsKept
<1>2. CASE SyncCache
  <2>1. UNCHANGED <<obj, rec, jobs, edited, undeleted>>
    BY <1>2 DEF SyncCache, world, history
  <2> QED BY <2>1 DEF JobInv, JobFlags, ActionsOf, ResultsOf, TransitionHooks, InFlight, Deleted,
          RecordedJobs
<1>3. CASE WriteStatus
  <2>1. /\ rec.pc = "write" /\ rec.fresh /\ obj' = rec.fs
        /\ edited' = (edited /\ rec.then # "create")
        /\ rec'.pc \in {"off", "create", "unannotate", "succeed", "begin"}
    BY <1>3 DEF WriteStatus, AfterWrite, NoReconcile, TypeOK, Reconciles
  <2> QED BY <2>1 DEF JobInv, JobFlags, ActionsOf, ResultsOf, TransitionHooks, InFlight
<1> QED BY <1>1, <1>2, <1>3

\* Force-advance skips an action, and leaves the results alone otherwise.
LEMMA ForceAdvancedJobs ==
    ASSUME NEW fs \in FailoverService, InFlight(fs), NEW e
    PROVE  InFlight(ForceAdvanced(fs)) /\ (JobFlags(fs, e) => JobFlags(ForceAdvanced(fs), e))
<1>1. ASSUME NEW n \in FailoverService, InFlight(n), JobFlags(fs, e) => JobFlags(n, e),
             ForceAdvanced(fs) = [n EXCEPT !.actionFailed = FALSE]
      PROVE  InFlight(ForceAdvanced(fs)) /\ (JobFlags(fs, e) => JobFlags(ForceAdvanced(fs), e))
  <2>1. ForceAdvanced(fs).tr = n.tr /\ ForceAdvanced(fs).hooks = n.hooks
    BY <1>1 DEF FailoverService
  <2> QED BY <1>1, <2>1, JobFlagsSame DEF InFlight
<1>2. CASE ActionPhase(fs) /\ fs.tr.idx < Len(PhaseResults(fs))
  <2> DEFINE r == [CurrentResult(fs) EXCEPT !.status = "Skipped"]
             m == SetResult(fs, r)
  <2>1. r \in Result /\ r.status = "Skipped"
    BY <1>2, CurrentResultTyped DEF Result, ActionStatus
  <2>2. ForceAdvanced(fs) = [NextAction(m) EXCEPT !.actionFailed = FALSE]
    BY <1>2 DEF ForceAdvanced, ActionPhase
  <2> HIDE DEF r
  <2>3. m \in FailoverService /\ InFlight(m) /\ (JobFlags(fs, e) => JobFlags(m, e))
    BY <1>2, <2>1, SetResultTyped, SetResultFields, SetResultJobFlags DEF InFlight
  <2> HIDE DEF m
  <2>4. /\ NextAction(m) \in FailoverService /\ InFlight(NextAction(m))
        /\ JobFlags(m, e) => JobFlags(NextAction(m), e)
    BY <2>3, StepTyped, MoveFields, MoveJobFlags DEF Phases, InFlight
  <2> QED BY <1>1, <2>2, <2>3, <2>4
<1>3. CASE fs.tr.phase \in {"UpdatingResources", "FlushingConnections"}
  <2>1. PICK p \in Phases \ {"Idle"} :
          ForceAdvanced(fs) = [GoToPhase(fs, p) EXCEPT !.actionFailed = FALSE]
    BY <1>3 DEF ForceAdvanced, ActionPhase, Phases
  <2>2. /\ GoToPhase(fs, p) \in FailoverService /\ InFlight(GoToPhase(fs, p))
        /\ JobFlags(fs, e) => JobFlags(GoToPhase(fs, p), e)
    BY StepTyped, MoveFields, MoveJobFlags DEF InFlight
  <2> QED BY <1>1, <2>1, <2>2
<1>4. CASE /\ ~(ActionPhase(fs) /\ fs.tr.idx < Len(PhaseResults(fs)))
           /\ fs.tr.phase \notin {"UpdatingResources", "FlushingConnections"}
  <2>1. ForceAdvanced(fs) = [fs EXCEPT !.actionFailed = FALSE]
    BY <1>4 DEF ForceAdvanced, ActionPhase
  <2> QED BY <1>1, <2>1
<1> QED BY <1>2, <1>3, <1>4

\* Deletion, metadata and force-advance.
LEMMA JobMetadataSteps ==
    ASSUME TypeOK, CurrentCopy, JobInv,
           ReconcileDeletion \/ RemoveFinalizer \/ EnsureMetadata \/ ForceAdvance \/ RemoveAnnotation
    PROVE  JobInv'
<1> USE CopyTyped
<1>1. edited' = edited
  BY DEF ReconcileDeletion, RemoveFinalizer, EnsureMetadata, ForceAdvance, RemoveAnnotation, history
<1>2. CASE ReconcileDeletion
  <2>1. obj' = obj /\ rec'.pc = "finalize"
    BY <1>2 DEF ReconcileDeletion, TypeOK, Reconciles, stores
  <2> QED BY <1>1, <2>1, JobsKept
<1>3. CASE RemoveFinalizer \/ RemoveAnnotation \/ EnsureMetadata
  <2>1. rec.fs = obj /\ rec'.pc \in {"off", "top"}
    BY <1>3 DEF RemoveFinalizer, RemoveAnnotation, EnsureMetadata, CurrentCopy, NoReconcile,
       TypeOK, Reconciles
  <2>2. obj'.tr = obj.tr /\ obj'.hooks = obj.hooks
    BY <1>3, <2>1 DEF RemoveFinalizer, RemoveAnnotation, EnsureMetadata, FailoverService
  <2> QED BY <1>1, <2>1, <2>2, JobsKept
<1>4. CASE ForceAdvance
  <2>1. obj' = obj /\ rec.pc = "top"
    BY <1>4 DEF ForceAdvance, Ready, stores
  <2>2. CASE InFlight(rec.fs)
    <3>1. Write(ForceAdvanced(rec.fs), "unannotate")
      BY <1>4, <2>2 DEF ForceAdvance
    <3> QED BY <1>1, <2>1, <2>2, <3>1, ForceAdvancedJobs, JobsWrite
  <2>3. CASE ~InFlight(rec.fs)
    <3>1. rec'.pc = "unannotate"
      BY <1>4, <2>3 DEF ForceAdvance, TypeOK, Reconciles
    <3> QED BY <1>1, <2>1, <3>1, JobsKept
  <2> QED BY <2>2, <2>3
<1> QED BY <1>2, <1>3, <1>4

\* Steps of an idle object.
LEMMA JobIdleSteps ==
    ASSUME TypeOK, CurrentCopy, JobInv,
           \/ DetectTransition \/ CreateFailoverEvent \/ ReconcileIdleService \/ RecreateFails
           \/ SteadyState \/ SteadyAdopt \/ BeginRemoteSync
    PROVE  JobInv'
<1> USE CopyTyped
<1>1. edited' = edited
  BY DEF DetectTransition, CreateFailoverEvent, ReconcileIdleService, RecreateFails, SteadyState,
     SteadyAdopt, BeginRemoteSync, history
<1>2. CASE CreateFailoverEvent \/ ReconcileIdleService \/ RecreateFails
  <2>1. obj' = obj /\ rec'.pc \in {"off", "steadySync"}
    BY <1>2 DEF CreateFailoverEvent, ReconcileIdleService, RecreateFails, NoReconcile, stores,
       TypeOK, Reconciles
  <2> QED BY <1>1, <2>1, JobsKept
<1>3. CASE DetectTransition \/ BeginRemoteSync
  <2>1. Write(Begun(rec.fs), "create") /\ obj' = obj /\ begun \in Nat
    BY <1>3 DEF DetectTransition, BeginRemoteSync, stores, TypeOK
  <2>2. rec.fresh => ~InFlight(obj)
    BY <1>3 DEF DetectTransition, BeginRemoteSync, CurrentCopy, Dispatch, Ready, InFlight
  <2> QED BY <1>1, <2>1, <2>2, BegunJobFlags, JobsIdleWrite
<1>4. CASE SteadyState
  <2> DEFINE n == [rec.fs EXCEPT !.lastKnown = rec.fs.active]
  <2>1. n.tr = rec.fs.tr /\ Write(n, "requeue") /\ obj' = obj /\ rec.pc = "steadySync"
    BY <1>4 DEF SteadyState, stores, FailoverService
  <2> HIDE DEF n
  <2>2. rec.fresh => ~InFlight(obj) /\ ~InFlight(n)
    BY <2>1 DEF CurrentCopy, InFlight
  <2>3. CASE rec.fresh
    BY <1>1, <2>1, <2>2, <2>3, IdleJobFlags, JobsIdleWrite
  <2>4. CASE ~rec.fresh
    <3>1. rec'.fresh = rec.fresh
      BY <2>1 DEF Write, TypeOK, Reconciles
    <3> QED BY <1>1, <2>1, <2>4, <3>1 DEF JobInv, JobFlags, ActionsOf, ResultsOf,
            TransitionHooks, InFlight
  <2> QED BY <2>3, <2>4
<1>5. CASE SteadyAdopt
  <2>1. PICK g \in RemoteGens : Write(Adopted(obj', rec.fs.active, g), "adopted")
    BY <1>5 DEF SteadyAdopt
  <2> DEFINE n == Adopted(obj', rec.fs.active, g)
  <2>2. obj' = [obj EXCEPT !.active = Opposite(rec.fs.active)] /\ rec.pc = "steadySync" /\ rec.fresh
    BY <1>5 DEF SteadyAdopt
  <2>3. obj'.tr = obj.tr /\ obj'.hooks = obj.hooks /\ n.tr = obj.tr
    BY <2>2 DEF Adopted, FailoverService, TypeOK
  <2>4. ~InFlight(obj) /\ ~InFlight(n)
    BY <2>2, <2>3 DEF CurrentCopy, InFlight
  <2> HIDE DEF n
  <2> QED BY <1>1, <2>1, <2>3, <2>4, IdleJobFlags, JobsIdleWrite DEF n
<1> QED BY <1>2, <1>3, <1>4, <1>5

\* The action phases: a Job's success is recorded together with the Job.
LEMMA JobActionSteps ==
    ASSUME TypeOK, CurrentCopy, JobInv,
           \/ LeavePreActions \/ MarkRunning \/ PassAction \/ HaltOnFailure
           \/ TimeoutAction \/ RunCall \/ RunJob
    PROVE  JobInv'
<1> USE CopyTyped
<1>1. UNCHANGED <<obj, edited>> /\ rec.pc = "top" /\ InFlight(rec.fs)
  BY DEF LeavePreActions, MarkRunning, PassAction, HaltOnFailure, TimeoutAction, RunCall,
     RunJob, Dispatch, DispatchAction, AtAction, ActionPhase, InFlight, Ready, stores, history
<1>2. CASE LeavePreActions
  <2>1. Write(GoToPhase(rec.fs, "UpdatingResources"), "requeue")
    BY <1>2 DEF LeavePreActions
  <2>2. InFlight(GoToPhase(rec.fs, "UpdatingResources"))
    BY MoveFields DEF InFlight
  <2> QED BY <1>1, <2>1, <2>2, MoveJobFlags, JobsWrite
<1>3. ASSUME NEW s, DispatchAction(s), NEW q \in Result,
             q.status = "Succeeded" => q.job \/ CurrentAction(rec.fs).kind # "job"
      PROVE  /\ InFlight(SetResult(rec.fs, q)) /\ InFlight(NextAction(SetResult(rec.fs, q)))
             /\ JobFlags(rec.fs, edited) => /\ JobFlags(SetResult(rec.fs, q), edited)
                                            /\ JobFlags(NextAction(SetResult(rec.fs, q)), edited)
  <2> DEFINE m == SetResult(rec.fs, q)
  <2>1. AtAction(rec.fs) /\ ActionPhase(rec.fs) /\ rec.fs.tr.idx < Len(PhaseResults(rec.fs))
    BY <1>3, ActionTyped DEF DispatchAction, AtAction
  <2>2. /\ m \in FailoverService /\ InFlight(m)
        /\ JobFlags(rec.fs, edited) => JobFlags(m, edited)
    BY <1>1, <1>3, <2>1, SetResultTyped, SetResultFields, SetResultJobFlags DEF InFlight
  <2> HIDE DEF m
  <2>3. InFlight(NextAction(m)) /\ (JobFlags(m, edited) => JobFlags(NextAction(m), edited))
    BY <2>2, MoveFields, MoveJobFlags DEF InFlight
  <2> QED BY <2>2, <2>3 DEF m
<1>4. ASSUME NEW s, DispatchAction(s), NEW t \in ActionStatus \ {"Succeeded"}
      PROVE  \E q \in Result : q.status # "Succeeded" /\ WithStatus(rec.fs, t) = SetResult(rec.fs, q)
  <2> DEFINE q == [CurrentResult(rec.fs) EXCEPT !.status = t]
  <2>1. q \in Result /\ q.status = t
    BY <1>4, ActionTyped DEF Result
  <2>2. WithStatus(rec.fs, t) = SetResult(rec.fs, q)
    BY DEF WithStatus
  <2> HIDE DEF q
  <2> QED BY <2>1, <2>2
<1>5. CASE MarkRunning \/ TimeoutAction
  <2>1. PICK s, t \in ActionStatus \ {"Succeeded"} :
          DispatchAction(s) /\ Write(WithStatus(rec.fs, t), "requeue")
    BY <1>5 DEF MarkRunning, TimeoutAction, ActionStatus
  <2>2. PICK q \in Result : q.status # "Succeeded" /\ WithStatus(rec.fs, t) = SetResult(rec.fs, q)
    BY <1>4, <2>1
  <2> QED BY <1>1, <1>3, <2>1, <2>2, JobsWrite
<1>6. CASE PassAction
  <2>1. PICK s : DispatchAction(s)
    BY <1>6 DEF PassAction
  <2>2. \/ Write(NextAction(rec.fs), "requeue")
        \/ Write(NextAction(WithStatus(rec.fs, "Skipped")), "requeue")
    BY <1>6 DEF PassAction
  <2>3. PICK q \in Result :
          q.status # "Succeeded" /\ WithStatus(rec.fs, "Skipped") = SetResult(rec.fs, q)
    BY <1>4, <2>1 DEF ActionStatus
  <2>4. InFlight(NextAction(rec.fs)) /\ (JobFlags(rec.fs, edited) => JobFlags(NextAction(rec.fs), edited))
    BY <1>1, MoveFields, MoveJobFlags DEF InFlight
  <2>5. /\ InFlight(NextAction(SetResult(rec.fs, q)))
        /\ JobFlags(rec.fs, edited) => JobFlags(NextAction(SetResult(rec.fs, q)), edited)
    BY <1>3, <2>1, <2>3
  <2> QED BY <1>1, <2>2, <2>3, <2>4, <2>5, JobsWrite
<1>7. CASE HaltOnFailure
  <2> DEFINE n == [rec.fs EXCEPT !.actionFailed = TRUE]
  <2>1. n.tr = rec.fs.tr /\ n.hooks = rec.fs.hooks /\ Write(n, "halt")
    BY <1>7 DEF FailoverService, HaltOnFailure
  <2> HIDE DEF n
  <2>2. InFlight(n) /\ (JobFlags(rec.fs, edited) => JobFlags(n, edited))
    BY <1>1, <2>1, JobFlagsSame DEF InFlight
  <2> QED BY <1>1, <2>1, <2>2, JobsWrite
<1>8. CASE RunCall \/ RunJob
  <2>1. DispatchAction("Running")
    BY <1>8 DEF RunCall, RunJob
  <2>2. PICK o \in {"error", "pending", "success", "failure"}, job \in BOOLEAN :
          RecordOutcome(o, job) /\ (o = "success" => job \/ CurrentAction(rec.fs).kind # "job")
    <3>1. CASE RunCall
      <4>1. PICK o \in CallOutcomes(CurrentAction(rec.fs).kind) : RecordOutcome(o, FALSE)
        BY <3>1 DEF RunCall
      <4>2. CurrentAction(rec.fs).kind # "job"
        BY <4>1 DEF CallOutcomes
      <4>3. o \in {"error", "pending", "success", "failure"}
        BY <4>1, CallOutcomesTyped
      <4> QED BY <4>1, <4>2, <4>3
    <3>2. CASE RunJob
      <4>1. \/ \E o \in {"pending", "success", "failure"} : RecordOutcome(o, TRUE)
            \/ RecordOutcome("error", FALSE)
        BY <3>2, JobOutcomeTyped DEF RunJob
      <4>2. CASE \E o \in {"pending", "success", "failure"} : RecordOutcome(o, TRUE)
        BY <4>2
      <4>3. CASE RecordOutcome("error", FALSE)
        BY <4>3
      <4> QED BY <4>1, <4>2, <4>3
    <3> QED BY <1>8, <3>1, <3>2
  <2>3. PICK q \in Result : /\ q.status = "Succeeded" => o = "success" /\ q.job = job
                            /\ \/ Write(SetResult(rec.fs, q), "requeue")
                               \/ Write(NextAction(SetResult(rec.fs, q)), "requeue")
    BY <2>1, <2>2, OutcomeJob
  <2>4. q.status = "Succeeded" => q.job \/ CurrentAction(rec.fs).kind # "job"
    BY <2>2, <2>3
  <2> QED BY <1>1, <1>3, <2>1, <2>3, <2>4, JobsWrite
<1> QED BY <1>2, <1>5, <1>6, <1>7, <1>8

\* Switching and flushing leave the results alone.
LEMMA JobFlushSteps ==
    ASSUME TypeOK, CurrentCopy, JobInv,
           \/ UpdateResources \/ SendKillSignal \/ SignalKillFails \/ CheckAcksFails
           \/ AwaitAcks \/ LeaveFlushing
    PROVE  JobInv'
<1> USE CopyTyped
<1>1. UNCHANGED <<obj, edited>> /\ rec.pc = "top" /\ InFlight(rec.fs)
  BY DEF UpdateResources, SendKillSignal, SignalKillFails, CheckAcksFails, AwaitAcks,
     LeaveFlushing, FlushDone, Dispatch, Ready, InFlight, stores, history
<1>2. ASSUME NEW n, NEW then \in {"requeue", "halt"}, Write(n, then), n.hooks = rec.fs.hooks,
             n.tr.dir = rec.fs.tr.dir, n.tr.pre = rec.fs.tr.pre, n.tr.post = rec.fs.tr.post,
             InFlight(n)
      PROVE  JobInv'
  BY <1>1, <1>2, JobFlagsSame, JobsWrite
<1>3. ASSUME NEW k PROVE /\ [rec.fs EXCEPT !.killed = k].tr = rec.fs.tr
                         /\ [rec.fs EXCEPT !.killed = k].hooks = rec.fs.hooks
  BY <1>3 DEF FailoverService
<1>4. ASSUME NEW k, NEW then \in {"requeue", "halt"}, Write([rec.fs EXCEPT !.killed = k], then)
      PROVE  JobInv'
  <2> DEFINE n == [rec.fs EXCEPT !.killed = k]
  <2>1. n.tr = rec.fs.tr /\ n.hooks = rec.fs.hooks /\ Write(n, then)
    BY <1>3, <1>4
  <2> HIDE DEF n
  <2> QED BY <1>1, <1>2, <2>1 DEF InFlight
<1>5. CASE UpdateResources
  <2>1. Write(GoToPhase(rec.fs, "FlushingConnections"), "requeue")
    BY <1>5 DEF UpdateResources
  <2>2. InFlight(GoToPhase(rec.fs, "FlushingConnections"))
    BY MoveFields DEF InFlight
  <2> QED BY <1>1, <2>1, <2>2, MoveJobFlags, JobsWrite
<1>6. CASE SendKillSignal
  <2>1. PICK k \in Tokens :
          Write([rec.fs EXCEPT !.tr.kill = k, !.killed = "WaitingForAcks"], "requeue")
    BY <1>6 DEF SendKillSignal
  <2> DEFINE n == [rec.fs EXCEPT !.tr.kill = k, !.killed = "WaitingForAcks"]
  <2>2. /\ n.hooks = rec.fs.hooks /\ n.tr.dir = rec.fs.tr.dir /\ n.tr.pre = rec.fs.tr.pre
        /\ n.tr.post = rec.fs.tr.post /\ n.tr.phase = rec.fs.tr.phase
    BY DEF FailoverService, Transition
  <2> HIDE DEF n
  <2> QED BY <1>1, <1>2, <2>1, <2>2 DEF n, InFlight
<1>7. CASE SignalKillFails
  BY <1>4, <1>7 DEF SignalKillFails
<1>8. CASE CheckAcksFails \/ AwaitAcks
  <2>1. \/ Write([rec.fs EXCEPT !.killed = "AckTimeout"], "halt")
        \/ Write(rec.fs, "requeue")
        \/ rec' = NoReconcile
    BY <1>8 DEF CheckAcksFails, AwaitAcks
  <2>2. CASE Write(rec.fs, "requeue")
    BY <1>1, <1>2, <2>2
  <2>3. CASE rec' = NoReconcile
    BY <1>1, <2>3, JobsKept DEF NoReconcile
  <2> QED BY <1>4, <2>1, <2>2, <2>3
<1>9. CASE LeaveFlushing
  <2> DEFINE m == [rec.fs EXCEPT !.killed = FlushReason(rec.fs)]
             n == GoToPhase(m, "ExecutingPostActions")
  <2>1. FlushReason(rec.fs) \in KillReasons
    BY DEF FlushReason, KillReasons
  <2>2. m \in FailoverService /\ m.tr = rec.fs.tr /\ m.hooks = rec.fs.hooks
    BY <1>3, <2>1 DEF FailoverService
  <2>3. Write(n, "requeue")
    BY <1>9 DEF LeaveFlushing
  <2> HIDE DEF m
  <2>4. InFlight(n) /\ (JobFlags(m, edited) => JobFlags(n, edited))
    BY <1>1, <2>2, MoveFields, MoveJobFlags DEF InFlight
  <2> HIDE DEF n
  <2>5. JobFlags(rec.fs, edited) => JobFlags(m, edited)
    BY <1>1, <2>2, JobFlagsSame
  <2> QED BY <1>1, <2>3, <2>4, <2>5, JobsWrite
<1> QED BY <1>5, <1>6, <1>7, <1>8, <1>9

\* completeTransition deletes what is on record before it writes anything.
LEMMA JobCompleteSteps ==
    ASSUME TypeOK, CurrentCopy, JobInv,
           CompleteTransition \/ CompleteInSync \/ CompleteAdopt \/ CloseFailoverEvent
    PROVE  JobInv'
<1> USE CopyTyped
<1>1. edited' = edited
  BY DEF CompleteTransition, CompleteInSync, CompleteAdopt, CloseFailoverEvent, history
<1>2. CASE CompleteTransition
  <2>1. /\ rec.pc = "top" /\ obj' = obj /\ rec'.pc = "completeSync" /\ rec'.fresh = rec.fresh
        /\ Cleanup(rec.fs)
    BY <1>2 DEF CompleteTransition, FlushDone, Dispatch, Ready, TypeOK, Reconciles, stores
  <2>2. rec.fresh => Deleted'
    <3>1. PICK failed \in SUBSET RecordedJobs(rec.fs) : CleanupTransitionJobs(rec.fs, failed)
      <4>1. \E failed \in SUBSET RecordedJobs(rec.fs) : CleanupTransitionJobs(rec.fs, failed)
        BY <2>1 DEF Cleanup
      <4> QED BY <4>1
    <3>2. /\ jobs' = jobs \ (RecordedJobs(rec.fs) \ failed)
          /\ undeleted' = {<<j.id, j.idx>> : j \in failed}
      BY <3>1 DEF CleanupTransitionJobs
    <3>3. ASSUME rec.fresh, NEW j \in RecordedJobs(obj)' PROVE j \in failed
      BY <2>1, <3>2, <3>3 DEF CurrentCopy, RecordedJobs
    <3> QED BY <3>2, <3>3 DEF Deleted
  <2> QED BY <1>1, <2>1, <2>2 DEF JobInv, JobFlags, ActionsOf, ResultsOf, TransitionHooks, InFlight
<1>3. CASE CompleteInSync \/ CompleteAdopt
  <2>1. PICK n, then : /\ then \in {"succeed", "succeedAdopted"}
                       /\ Write(n, then) /\ (rec.fresh => ~InFlight(n))
    <3>1. CASE CompleteInSync
      BY <3>1 DEF CompleteInSync, CurrentCopy
    <3>2. CASE CompleteAdopt
      <4>1. PICK g \in RemoteGens :
              Write([Adopted(obj', rec.fs.lastKnown, g) EXCEPT !.actionFailed = FALSE,
                                                               !.tr = NoTransition],
                    "succeedAdopted")
        BY <3>2 DEF CompleteAdopt
      <4> DEFINE a == Adopted(obj', rec.fs.lastKnown, g)
                 n == [a EXCEPT !.actionFailed = FALSE, !.tr = NoTransition]
      <4>2. obj' \in FailoverService /\ rec.fs.lastKnown \in Direction /\ g \in Nat
        <5>1. obj' = [obj EXCEPT !.active = Opposite(rec.fs.active)]
              /\ rec.pc = "completeSync" /\ rec.fresh
          BY <3>2 DEF CompleteAdopt
        <5>2. Opposite(rec.fs.active) \in Direction
          BY DEF Opposite, Direction
        <5>3. rec.fs.lastKnown \in Direction
          BY <5>1, FieldsTyped DEF CurrentCopy, TypeOK
        <5> QED BY <5>1, <5>2, <5>3, BoundAssumption DEF FailoverService, TypeOK
      <4>3. a \in FailoverService
        BY <4>2, AdoptedTyped
      <4>4. n.tr = NoTransition
        <5> HIDE DEF a
        <5> QED BY <4>3 DEF FailoverService
      <4> HIDE DEF n
      <4>5. ~InFlight(n)
        BY <4>4 DEF NoTransition, InFlight
      <4> QED BY <4>1, <4>5 DEF n
    <3> QED BY <1>3, <3>1, <3>2
  <2>2. rec'.pc = "write" /\ rec'.fs = n /\ rec'.fresh = rec.fresh /\ rec'.then = then
    BY <2>1 DEF Write, TypeOK, Reconciles
  <2>3. /\ rec.pc = "completeSync" /\ obj'.tr = obj.tr /\ obj'.hooks = obj.hooks
        /\ jobs' = jobs /\ undeleted' = undeleted
    BY <1>3 DEF CompleteInSync, CompleteAdopt, stores, world, history, TypeOK, FailoverService
  <2>4. rec.fresh => Deleted'
    BY <2>3 DEF JobInv, Deleted, RecordedJobs
  <2>5. JobFlags(obj, edited)'
    BY <1>1, <2>3 DEF JobInv, JobFlags, ActionsOf, ResultsOf, TransitionHooks, InFlight
  <2>6. rec.fresh => JobFlags(rec.fs, edited /\ rec.then # "create")'
    BY <2>1, <2>2 DEF JobFlags, InFlight
  <2> QED BY <2>1, <2>2, <2>4, <2>5, <2>6 DEF JobInv
<1>4. CASE CloseFailoverEvent
  <2>1. obj' = obj /\ rec'.pc \in {"off", "begin"}
    BY <1>4 DEF CloseFailoverEvent, NoReconcile, TypeOK, Reconciles
  <2> QED BY <1>1, <2>1, JobsKept
<1> QED BY <1>2, <1>3, <1>4

\* Other writers leave the status alone, an edit of the hooks is on record, and
\* a Job that ends keeps its name.
LEMMA JobEnvironmentSteps ==
    ASSUME TypeOK, JobInv,
           \/ FlipSpec \/ Annotate \/ EditHooks \/ EditAddresses \/ DeleteObject
           \/ FinishJob \/ AgentsAck \/ Expire
    PROVE  JobInv'
<1>1. CASE FinishJob \/ AgentsAck \/ Expire
  <2>1. UNCHANGED <<obj, rec, edited, undeleted>>
    BY <1>1 DEF FinishJob, AgentsAck, Expire, stores, history
  <2>2. Deleted => Deleted'
    <3>1. CASE FinishJob
      <4>1. PICK j \in jobs, s \in {"Complete", "Failed"} :
              jobs' = (jobs \ {j}) \cup {[j EXCEPT !.state = s]}
        BY <3>1 DEF FinishJob
      <4>2. [j EXCEPT !.state = s].id = j.id /\ [j EXCEPT !.state = s].idx = j.idx
        BY DEF TypeOK
      <4> DEFINE k == [j EXCEPT !.state = s]
      <4> HIDE DEF k
      <4>3. ASSUME NEW x \in RecordedJobs(obj)'
            PROVE  \E y \in RecordedJobs(obj) : y.id = x.id /\ y.idx = x.idx
        <5>1. x \in jobs' /\ (x = k \/ x \in jobs)
          BY <4>1, <4>3 DEF RecordedJobs, k
        <5>2. CASE x = k
          BY <2>1, <4>2, <4>3, <5>2 DEF RecordedJobs, k
        <5>3. CASE x \in jobs
          BY <2>1, <4>3, <5>3 DEF RecordedJobs
        <5> QED BY <5>1, <5>2, <5>3
      <4> QED BY <2>1, <4>3 DEF Deleted
    <3>2. CASE AgentsAck \/ Expire
      BY <2>1, <3>2 DEF AgentsAck, Expire, Deleted, RecordedJobs
    <3> QED BY <1>1, <3>1, <3>2
  <2> QED BY <2>1, <2>2 DEF JobInv, JobFlags, ActionsOf, ResultsOf, TransitionHooks, InFlight
<1>2. CASE FlipSpec \/ Annotate \/ EditHooks \/ EditAddresses \/ DeleteObject
  <2>1. PICK o : /\ OthersWrite(o) /\ o.tr = obj.tr
                 /\ \/ o.hooks = obj.hooks /\ edited' = edited
                    \/ edited' = (edited \/ InFlight(obj))
    <3>1. CASE FlipSpec
      BY <3>1 DEF FlipSpec, history, TypeOK, FailoverService
    <3>2. CASE Annotate
      BY <3>2 DEF Annotate, history, TypeOK, FailoverService
    <3>3. CASE DeleteObject
      BY <3>3 DEF DeleteObject, history, TypeOK, FailoverService
    <3>4. CASE EditHooks
      BY <3>4 DEF EditHooks, TypeOK, FailoverService
    <3>5. CASE EditAddresses
      BY <3>5 DEF EditAddresses, history, TypeOK, FailoverService
    <3> QED BY <1>2, <3>1, <3>2, <3>3, <3>4, <3>5
  <2>2. obj' = o /\ ~rec'.fresh
    BY <2>1 DEF OthersWrite, TypeOK, Reconciles
  <2>3. JobFlags(obj, edited)'
    <3>1. CASE ~InFlight(obj) \/ edited'
      BY <2>1, <2>2, <3>1 DEF JobFlags, InFlight
    <3>2. CASE o.hooks = obj.hooks /\ edited' = edited
      BY <2>1, <2>2, <3>2 DEF JobInv, JobFlags, ActionsOf, ResultsOf, TransitionHooks, InFlight
    <3> QED BY <2>1, <3>1, <3>2
  <2> QED BY <2>2, <2>3 DEF JobInv
<1> QED BY <1>1, <1>2

\* Every step keeps JobInv.
LEMMA JobNext == TypeOK /\ CurrentCopy /\ JobInv /\ [Next]_vars => JobInv'
<1> SUFFICES ASSUME TypeOK, CurrentCopy, JobInv, [Next]_vars PROVE JobInv'
  OBVIOUS
<1>1. CASE UNCHANGED vars
  BY <1>1 DEF vars, stores, world, history, JobInv, JobFlags, ActionsOf, ResultsOf,
     TransitionHooks, InFlight, Deleted, RecordedJobs
<1>2. CASE ReconcileStep
  BY <1>2, JobQueueSteps, JobMetadataSteps, JobIdleSteps, JobActionSteps, JobFlushSteps,
     JobCompleteSteps DEF ReconcileStep
<1>3. CASE Environment
  BY <1>3, JobQueueSteps, JobIdleSteps, JobFlushSteps, JobEnvironmentSteps DEF Environment
<1> QED BY <1>1, <1>2, <1>3 DEF Next

\* Only a status write changes the transition the object shows.
LEMMA TransitionEnds ==
    ASSUME TypeOK, CurrentCopy, [Next]_vars, obj'.tr # obj.tr
    PROVE  WriteStatus
<1> USE CopyTyped
<1>1. SUFFICES ASSUME ~WriteStatus PROVE obj'.tr = obj.tr
  OBVIOUS
<1>2. CASE RemoveFinalizer \/ EnsureMetadata \/ RemoveAnnotation
  <2>1. rec.fs = obj
    BY <1>2 DEF RemoveFinalizer, EnsureMetadata, RemoveAnnotation, CurrentCopy
  <2> QED BY <1>2, <2>1 DEF RemoveFinalizer, EnsureMetadata, RemoveAnnotation, FailoverService
<1>3. CASE SteadyAdopt \/ CompleteAdopt
  BY <1>3 DEF SteadyAdopt, CompleteAdopt, TypeOK, FailoverService
<1>4. CASE FlipSpec \/ Annotate \/ EditHooks \/ EditAddresses \/ DeleteObject
  <2>1. CASE FlipSpec
    BY <2>1 DEF FlipSpec, OthersWrite, TypeOK, FailoverService
  <2>2. CASE Annotate
    BY <2>2 DEF Annotate, OthersWrite, TypeOK, FailoverService
  <2>3. CASE DeleteObject
    BY <2>3 DEF DeleteObject, OthersWrite, TypeOK, FailoverService
  <2>4. CASE EditHooks
    BY <2>4 DEF EditHooks, OthersWrite, TypeOK, FailoverService
  <2>5. CASE EditAddresses
    BY <2>5 DEF EditAddresses, OthersWrite, TypeOK, FailoverService
  <2> QED BY <1>4, <2>1, <2>2, <2>3, <2>4, <2>5
<1>5. CASE obj' = obj
  BY <1>5
<1> QED BY <1>1, <1>2, <1>3, <1>4, <1>5
     DEF Next, ReconcileStep, Environment, vars, stores, StartReconcile, Conflict,
     ReconcileDeletion, ForceAdvance, DetectTransition, CreateFailoverEvent,
     ReconcileIdleService, SteadyState, BeginRemoteSync, LeavePreActions, MarkRunning, PassAction,
     HaltOnFailure, TimeoutAction, RunCall, RunJob, UpdateResources, SendKillSignal, AwaitAcks,
     LeaveFlushing, CompleteTransition, CompleteInSync, CloseFailoverEvent, SyncCache, Abort,
     RecreateFails, SignalKillFails, CheckAcksFails, FinishJob, AgentsAck, Expire

\* A transition leaves the status only with its recorded Jobs deleted, as far
\* as that was possible.
LEMMA JobsEnd ==
    ASSUME TypeOK, CurrentCopy, EventInv, OrderInv, JobInv, [Next]_vars,
           InFlight(obj), obj'.tr.id # obj.tr.id
    PROVE  Deleted /\ JobFlags(obj, edited)
<1>1. rec.pc = "write" /\ rec.fresh /\ obj' = rec.fs
  BY TransitionEnds DEF WriteStatus
<1>2. CASE rec.then \in {"succeed", "succeedAdopted"}
  BY <1>1, <1>2 DEF JobInv
<1>3. CASE rec.then # "create" /\ InFlight(rec.fs)
  <2>1. rec.fs.tr.id \in {obj.tr.id, 0} /\ Progress(rec.fs)
    BY <1>1, <1>3 DEF EventInv, IdsCurrent, OrderInv, Versions
  <2>2. rec.fs.tr.id # 0
    BY <1>3, <2>1 DEF Progress
  <2> QED BY <1>1, <2>1, <2>2
<1> QED BY <1>1, <1>2, <1>3 DEF JobInv

\* A Job of an action that succeeded outlives its transition only if its
\* deletion failed: completeTransition knows the Job of every success, whatever
\* was lost, refused or repeated on the way.
THEOREM JobsCorrect == Spec => JobsCleaned
<1> DEFINE Left ==
      InFlight(obj) /\ obj'.tr.id # obj.tr.id /\ ~edited =>
        \A j \in jobs, phase \in {"ExecutingPreActions", "ExecutingPostActions"} :
          LET acts == ActionsOf(obj, phase)
              res  == ResultsOf(obj.tr, phase)
          IN  j.id = obj.tr.id /\ j.idx < Len(acts) /\ j.idx < Len(res)
                /\ acts[j.idx + 1].kind = "job" /\ res[j.idx + 1].status = "Succeeded"
                => <<j.id, j.idx>> \in undeleted
<1>1. TypeOK /\ CurrentCopy /\ EventInv /\ OrderInv /\ JobInv /\ [Next]_vars => [Left]_vars
  <2> SUFFICES ASSUME TypeOK, CurrentCopy, EventInv, OrderInv, JobInv, [Next]_vars,
                      InFlight(obj), obj'.tr.id # obj.tr.id, ~edited,
                      NEW j \in jobs, NEW phase \in {"ExecutingPreActions", "ExecutingPostActions"},
                      j.id = obj.tr.id, j.idx < Len(ActionsOf(obj, phase)),
                      j.idx < Len(ResultsOf(obj.tr, phase)),
                      ActionsOf(obj, phase)[j.idx + 1].kind = "job",
                      ResultsOf(obj.tr, phase)[j.idx + 1].status = "Succeeded"
               PROVE  <<j.id, j.idx>> \in undeleted
    OBVIOUS
  <2> DEFINE acts == ActionsOf(obj, phase)
             res  == ResultsOf(obj.tr, phase)
  <2>1. Deleted /\ JobFlags(obj, edited)
    BY JobsEnd
  <2>2. res \in Seq(Result) /\ j.idx \in Nat
    BY FieldsTyped DEF TypeOK, ResultsOf
  <2>3. acts \in Seq(Action)
    BY FieldsTyped, HooksAssumption DEF TypeOK, ActionsOf, TransitionHooks, Hooks
  <2>4. Len(res) \in Nat /\ Len(acts) \in Nat
    BY <2>2, <2>3, LenProperties
  <2>5. j.idx + 1 \in 1..Len(res) /\ j.idx + 1 <= Len(acts)
    BY <2>2, <2>4
  <2>6. res[j.idx + 1].job
    BY <2>1, <2>5 DEF JobFlags
  <2>7. j \in RecordedJobs(obj)
    BY <2>6 DEF RecordedJobs, ResultsOf
  <2> QED BY <2>1, <2>7 DEF Deleted
<1>2. JobsCleaned <=> [][Left]_vars
  BY DEF JobsCleaned
<1> HIDE DEF Left
<1> QED BY <1>1, <1>2, JobInit, JobNext, EventInit, EventNext, OrderInit, OrderNext,
        TypeCorrect, CopyCorrect, PTL DEF Spec
=============================================================================
