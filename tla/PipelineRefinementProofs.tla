---------------------- MODULE PipelineRefinementProofs ----------------------
(* The persisted object of FailoverTransition implements TransitionPipeline. *)
EXTENDS FailoverTransitionProofs

-----------------------------------------------------------------------------
(* What the operators do to the stage of a transition *)

SameStage(o, n) ==
    /\ n.tr.phase = o.tr.phase /\ n.tr.dir = o.tr.dir
    /\ n.lastKnown = o.lastKnown /\ n.gen = o.gen

\* Recording a result leaves the stage alone.
LEMMA SetResultStage ==
    ASSUME NEW fs \in FailoverService, NEW r
    PROVE  SameStage(fs, SetResult(fs, r))
BY DEF SetResult, SameStage, FailoverService, Transition

\* Moving the index does too.
LEMMA NextActionStage ==
    ASSUME NEW fs \in FailoverService
    PROVE  SameStage(fs, NextAction(fs))
BY DEF NextAction, SameStage, FailoverService, Transition

\* Only the phase changes.
LEMMA GoToPhaseStage ==
    ASSUME NEW fs \in FailoverService, NEW p
    PROVE  /\ GoToPhase(fs, p).tr.phase = p /\ GoToPhase(fs, p).tr.dir = fs.tr.dir
           /\ GoToPhase(fs, p).lastKnown = fs.lastKnown /\ GoToPhase(fs, p).gen = fs.gen
BY DEF GoToPhase, FailoverService, Transition

\* A step to the next phase is a step of the pipeline.
LEMMA NextPhaseStep ==
    ASSUME NEW fs \in FailoverService, NEW p, Pipeline!Follows(fs.tr.phase, p)
    PROVE  StatusStep(fs, GoToPhase(fs, p))
BY GoToPhaseStage DEF StatusStep

\* beginTransition is a step of the pipeline.
LEMMA BegunStep ==
    ASSUME NEW fs \in FailoverService, ~InFlight(fs), fs.lastKnown \in Direction \ {fs.active}
    PROVE  StatusStep(fs, Begun(fs))
<1> DEFINE h == fs.hooks[fs.active]
           t == [phase |-> IF Len(h.pre) > 0 THEN "ExecutingPreActions" ELSE "UpdatingResources",
                 dir |-> fs.active, id |-> begun + 1, idx |-> 0,
                 pre |-> PendingResults(h.pre), post |-> PendingResults(h.post),
                 old |-> fs.addr[Opposite(fs.active)], new |-> fs.addr[fs.active], kill |-> 0]
<1>1. t.phase \in {"ExecutingPreActions", "UpdatingResources"} /\ t.dir = fs.active
  OBVIOUS
<1>2. Begun(fs) = [fs EXCEPT !.tr = t]
  BY DEF Begun
<1> HIDE DEF t
<1>3. Begun(fs).tr = t /\ Begun(fs).lastKnown = fs.lastKnown /\ Begun(fs).gen = fs.gen
  BY <1>2 DEF FailoverService
<1> QED BY <1>1, <1>3, FieldsTyped DEF StatusStep

\* handleForceAdvance is a step of the pipeline or leaves the stage alone.
LEMMA ForceAdvancedStep ==
    ASSUME NEW fs \in FailoverService
    PROVE  StatusStep(fs, ForceAdvanced(fs))
<1>1. ASSUME NEW n \in FailoverService
      PROVE  [n EXCEPT !.actionFailed = FALSE].tr = n.tr
             /\ [n EXCEPT !.actionFailed = FALSE].lastKnown = n.lastKnown
             /\ [n EXCEPT !.actionFailed = FALSE].gen = n.gen
  BY <1>1 DEF FailoverService
<1>2. CASE ActionPhase(fs) /\ fs.tr.idx < Len(PhaseResults(fs))
  <2> DEFINE r == [CurrentResult(fs) EXCEPT !.status = "Skipped"]
  <2>1. r \in Result
    BY <1>2, CurrentResultTyped DEF Result, ActionStatus
  <2> HIDE DEF r
  <2>2. SetResult(fs, r) \in FailoverService
    BY <1>2, <2>1, SetResultTyped
  <2>3. NextAction(SetResult(fs, r)) \in FailoverService
    BY <2>2, StepTyped DEF Phases
  <2>4. SameStage(fs, NextAction(SetResult(fs, r)))
    BY <2>2, SetResultStage, NextActionStage DEF SameStage
  <2>5. ForceAdvanced(fs) = [NextAction(SetResult(fs, r)) EXCEPT !.actionFailed = FALSE]
    BY <1>2 DEF ForceAdvanced, ActionPhase, r
  <2> QED BY <1>1, <2>3, <2>4, <2>5 DEF SameStage, StatusStep
<1>3. CASE fs.tr.phase = "UpdatingResources"
  <2>1. ForceAdvanced(fs) = [GoToPhase(fs, "FlushingConnections") EXCEPT !.actionFailed = FALSE]
    BY <1>3 DEF ForceAdvanced, ActionPhase
  <2>2. GoToPhase(fs, "FlushingConnections") \in FailoverService
    BY StepTyped DEF Phases
  <2> QED BY <1>1, <1>3, <2>1, <2>2, GoToPhaseStage DEF StatusStep, Pipeline!Follows
<1>4. CASE fs.tr.phase = "FlushingConnections"
  <2>1. ForceAdvanced(fs) = [GoToPhase(fs, "ExecutingPostActions") EXCEPT !.actionFailed = FALSE]
    BY <1>4 DEF ForceAdvanced, ActionPhase
  <2>2. GoToPhase(fs, "ExecutingPostActions") \in FailoverService
    BY StepTyped DEF Phases
  <2> QED BY <1>1, <1>4, <2>1, <2>2, GoToPhaseStage DEF StatusStep, Pipeline!Follows
<1>5. CASE /\ ~(ActionPhase(fs) /\ fs.tr.idx < Len(PhaseResults(fs)))
           /\ fs.tr.phase \notin {"UpdatingResources", "FlushingConnections"}
  <2>1. ForceAdvanced(fs) = [fs EXCEPT !.actionFailed = FALSE]
    BY <1>5 DEF ForceAdvanced, ActionPhase
  <2> QED BY <1>1, <2>1 DEF StatusStep
<1> QED BY <1>2, <1>3, <1>4, <1>5

\* The results of an action phase are no part of the pipeline's state.
LEMMA WithStatusStage ==
    ASSUME NEW fs \in FailoverService, NEW s
    PROVE  SameStage(fs, WithStatus(fs, s))
BY SetResultStage DEF WithStatus

-----------------------------------------------------------------------------
(* CurrentCopy is inductive *)

\* A copy that is not current is not constrained.
LEMMA StaleCopy ==
    ASSUME ~rec'.fresh
    PROVE  CurrentCopy'
BY DEF CurrentCopy

\* So is the end of a reconcile.
LEMMA NoCopy ==
    ASSUME rec' = NoReconcile
    PROVE  CurrentCopy'
BY StaleCopy DEF NoReconcile

\* A handler that leaves a status one step of the pipeline ahead keeps CurrentCopy.
LEMMA WriteKeepsCopy ==
    ASSUME TypeOK, NEW n, NEW then \in Thens \ {"adopted", "succeedAdopted"},
           Write(n, then), obj' = obj, rec.fresh => StatusStep(obj, n)
    PROVE  CurrentCopy'
<1>1. rec'.pc = "write" /\ rec'.fs = n /\ rec'.fresh = rec.fresh /\ rec'.then = then
  BY DEF Write, TypeOK, Reconciles
<1> QED BY <1>1 DEF CurrentCopy

\* The same for a handler that leaves the stage alone.
LEMMA SameStageKeepsCopy ==
    ASSUME TypeOK, CurrentCopy, rec.pc = "top",
           NEW n, NEW then \in Thens \ {"adopted", "succeedAdopted"},
           Write(n, then), obj' = obj, SameStage(rec.fs, n)
    PROVE  CurrentCopy'
<1>1. rec.fresh => StatusStep(obj, n)
  BY DEF CurrentCopy, StatusStep, SameStage
<1> QED BY <1>1, WriteKeepsCopy

\* Initially no reconcile is in flight.
LEMMA CopyInit == Init => CurrentCopy
BY DEF Init, NoReconcile, CurrentCopy

\* Steps of the queue, the cache and the API server.
LEMMA CopyQueueSteps ==
    ASSUME TypeOK, CurrentCopy,
           StartReconcile \/ SyncCache \/ Abort \/ Conflict \/ WriteStatus
    PROVE  CurrentCopy'
<1>1. CASE StartReconcile
  BY <1>1, NoCopy DEF StartReconcile, CurrentCopy
<1>2. CASE SyncCache
  BY <1>2 DEF SyncCache, CurrentCopy
<1>3. CASE Abort \/ Conflict
  BY <1>3, NoCopy DEF Abort, Conflict
<1>4. CASE WriteStatus
  <2>1. CASE rec' = NoReconcile
    BY <2>1, NoCopy
  <2>2. CASE rec' # NoReconcile
    <3>1. \/ rec.then = "create"     /\ rec' = [rec EXCEPT !.pc = "create"]
          \/ rec.then = "unannotate" /\ rec' = [rec EXCEPT !.pc = "unannotate"]
          \/ /\ rec.then \in {"succeed", "succeedAdopted"}
             /\ rec' = [rec EXCEPT !.pc = "succeed"]
          \/ /\ rec.then = "adopted" /\ rec.fs.lastKnown # rec.fs.active
             /\ rec' = [rec EXCEPT !.pc = "begin"]
      BY <1>4, <2>2 DEF WriteStatus, AfterWrite
    <3>2. rec'.fs = rec.fs /\ obj' = rec.fs /\ rec'.then = rec.then /\ rec.fresh
          /\ rec.pc = "write"
      BY <1>4, <3>1 DEF WriteStatus, TypeOK, Reconciles
    <3>3. \/ rec'.pc \in {"create", "unannotate", "succeed"}
          \/ rec'.pc = "begin" /\ rec.then = "adopted" /\ rec.fs.lastKnown # rec.fs.active
      BY <3>1 DEF TypeOK, Reconciles
    <3>4. rec.then \in {"adopted", "succeedAdopted"}
            => ~InFlight(rec.fs) /\ rec.fs.lastKnown \in Direction
      BY <3>2 DEF CurrentCopy
    <3> QED BY <3>2, <3>3, <3>4 DEF CurrentCopy, InFlight
  <2> QED BY <2>1, <2>2
<1> QED BY <1>1, <1>2, <1>3, <1>4

\* Deletion, metadata and force-advance.
LEMMA CopyMetadataSteps ==
    ASSUME TypeOK, CurrentCopy,
           ReconcileDeletion \/ RemoveFinalizer \/ EnsureMetadata \/ ForceAdvance \/ RemoveAnnotation
    PROVE  CurrentCopy'
<1>1. CASE ReconcileDeletion
  BY <1>1 DEF ReconcileDeletion, stores, CurrentCopy, TypeOK, Reconciles
<1>2. CASE RemoveFinalizer \/ RemoveAnnotation
  BY <1>2, NoCopy DEF RemoveFinalizer, RemoveAnnotation
<1>3. CASE EnsureMetadata
  BY <1>3 DEF EnsureMetadata, CurrentCopy, TypeOK, Reconciles
<1>4. CASE ForceAdvance
  <2>1. CASE InFlight(rec.fs)
    <3>1. rec.fresh => StatusStep(obj, ForceAdvanced(rec.fs))
      BY <1>4, CopyTyped, ForceAdvancedStep DEF ForceAdvance, Ready, CurrentCopy
    <3> QED BY <1>4, <2>1, <3>1, WriteKeepsCopy DEF ForceAdvance, stores, Thens
  <2>2. CASE ~InFlight(rec.fs)
    BY <1>4, <2>2 DEF ForceAdvance, Ready, stores, CurrentCopy, TypeOK, Reconciles
  <2> QED BY <2>1, <2>2
<1> QED BY <1>1, <1>2, <1>3, <1>4

\* Steps of an idle object.
LEMMA CopyIdleSteps ==
    ASSUME TypeOK, CurrentCopy,
           \/ DetectTransition \/ CreateFailoverEvent \/ ReconcileIdleService \/ RecreateFails
           \/ SteadyState \/ SteadyAdopt \/ BeginRemoteSync
    PROVE  CurrentCopy'
<1> USE CopyTyped
<1>1. CASE DetectTransition
  <2>1. ~InFlight(rec.fs) /\ rec.fs.lastKnown \in Direction \ {rec.fs.active} /\ rec.pc = "top"
    BY <1>1, FieldsTyped DEF DetectTransition, Dispatch, Ready, TransitionPending, InFlight
  <2>2. rec.fresh => StatusStep(obj, Begun(rec.fs))
    BY <2>1, BegunStep DEF CurrentCopy
  <2> QED BY <1>1, <2>2, WriteKeepsCopy DEF DetectTransition, stores, Thens
<1>2. CASE BeginRemoteSync
  <2>1. rec.fresh => StatusStep(obj, Begun(rec.fs))
    BY <1>2, BegunStep DEF BeginRemoteSync, CurrentCopy
  <2> QED BY <1>2, <2>1, WriteKeepsCopy DEF BeginRemoteSync, stores, Thens
<1>3. CASE CreateFailoverEvent \/ RecreateFails
  BY <1>3, NoCopy DEF CreateFailoverEvent, RecreateFails
<1>4. CASE ReconcileIdleService
  BY <1>4 DEF ReconcileIdleService, Dispatch, Ready, InFlight, stores, CurrentCopy, TypeOK, Reconciles
<1>5. CASE SteadyState
  <2> DEFINE n == [rec.fs EXCEPT !.lastKnown = rec.fs.active]
  <2>1. /\ n.tr = rec.fs.tr /\ n.gen = rec.fs.gen /\ n.lastKnown = rec.fs.active
        /\ rec.fs.active \in Direction /\ rec.fs.gen \in Nat
    BY FieldsTyped DEF FailoverService
  <2>2. rec.fresh => /\ rec.fs = obj /\ ~InFlight(obj)
                     /\ obj.lastKnown \in {"unset", obj.active}
    BY <1>5 DEF SteadyState, CurrentCopy, TransitionPending
  <2> HIDE DEF n
  <2>3. rec.fresh => StatusStep(obj, n)
    BY <2>1, <2>2 DEF StatusStep, InFlight
  <2> QED BY <1>5, <2>3, WriteKeepsCopy DEF SteadyState, stores, Thens, n
<1>6. CASE SteadyAdopt
  <2>1. PICK g \in RemoteGens :
          g >= rec.fs.gen /\ Write(Adopted(obj', rec.fs.active, g), "adopted")
    BY <1>6 DEF SteadyAdopt, RemoteMayWin
  <2>2. /\ rec.fs = obj /\ ~InFlight(obj) /\ obj.lastKnown \in {"unset", obj.active}
        /\ obj' = [obj EXCEPT !.active = Opposite(rec.fs.active)]
    BY <1>6 DEF SteadyAdopt, CurrentCopy, TransitionPending
  <2>3. /\ obj'.tr = obj.tr /\ obj'.gen = obj.gen /\ obj'.lastKnown = obj.lastKnown
        /\ obj.active \in Direction
    BY <2>2, FieldsTyped DEF FailoverService
  <2> DEFINE n == Adopted(obj', rec.fs.active, g)
  <2>4. n.tr = obj.tr /\ n.gen = g /\ n.lastKnown = obj.active
    BY <2>2 DEF Adopted, FailoverService
  <2> HIDE DEF n
  <2>5. rec'.pc = "write" /\ rec'.fs = n /\ rec'.then = "adopted"
    BY <2>1 DEF Write, TypeOK, Reconciles, n
  <2>6. ~InFlight(obj') /\ ~InFlight(n) /\ n.gen >= obj'.gen
    BY <2>1, <2>2, <2>3, <2>4 DEF InFlight
  <2>7. StatusStep(obj', n)
    BY <2>2, <2>3, <2>4, <2>6 DEF StatusStep
  <2> QED BY <2>3, <2>4, <2>5, <2>6, <2>7 DEF CurrentCopy
<1> QED BY <1>1, <1>2, <1>3, <1>4, <1>5, <1>6

\* Every outcome of an action leaves the stage alone.
LEMMA OutcomeKeepsCopy ==
    ASSUME TypeOK, CurrentCopy, DispatchAction("Running"), obj' = obj,
           NEW o \in {"error", "pending", "success", "failure"}, NEW job \in BOOLEAN,
           RecordOutcome(o, job)
    PROVE  CurrentCopy'
<1>1. rec.pc = "top" /\ rec.fs \in FailoverService
  BY CopyTyped DEF DispatchAction, Ready
<1>2. PICK q \in Result : Write(SetResult(rec.fs, q), "requeue")
                            \/ Write(NextAction(SetResult(rec.fs, q)), "requeue")
  BY OutcomeIsResult
<1>3. SameStage(rec.fs, SetResult(rec.fs, q))
  BY <1>1, SetResultStage
<1>4. SameStage(rec.fs, NextAction(SetResult(rec.fs, q)))
  <2>1. SetResult(rec.fs, q) \in FailoverService
    BY <1>1, ActionTyped, SetResultTyped
  <2> QED BY <1>3, <2>1, NextActionStage DEF SameStage
<1> QED BY <1>1, <1>2, <1>3, <1>4, SameStageKeepsCopy DEF Thens

\* The action phases.
LEMMA CopyActionSteps ==
    ASSUME TypeOK, CurrentCopy,
           \/ LeavePreActions \/ MarkRunning \/ PassAction \/ HaltOnFailure
           \/ TimeoutAction \/ RunCall \/ RunJob
    PROVE  CurrentCopy'
<1> USE CopyTyped
<1>1. CASE LeavePreActions
  <2>1. rec.fresh => StatusStep(obj, GoToPhase(rec.fs, "UpdatingResources"))
    BY <1>1, NextPhaseStep DEF LeavePreActions, Dispatch, Ready, CurrentCopy, Pipeline!Follows
  <2> QED BY <1>1, <2>1, WriteKeepsCopy DEF LeavePreActions, stores, Thens
<1>2. CASE MarkRunning \/ TimeoutAction
  <2>1. rec.pc = "top" /\ obj' = obj
    BY <1>2 DEF MarkRunning, TimeoutAction, DispatchAction, Ready, stores
  <2> QED BY <1>2, <2>1, WithStatusStage, SameStageKeepsCopy DEF MarkRunning, TimeoutAction, Thens
<1>3. CASE PassAction
  <2> DEFINE n == IF CurrentResult(rec.fs).status = "Failed"
                  THEN WithStatus(rec.fs, "Skipped") ELSE rec.fs
  <2>1. rec.pc = "top" /\ obj' = obj /\ Write(NextAction(n), "requeue")
    BY <1>3 DEF PassAction, DispatchAction, Ready, stores
  <2>2. n \in FailoverService /\ SameStage(rec.fs, n)
    BY <1>3, ActionTyped, WithStatusTyped, WithStatusStage
       DEF PassAction, ActionStatus, SameStage
  <2> HIDE DEF n
  <2>3. SameStage(rec.fs, NextAction(n))
    BY <2>2, NextActionStage DEF SameStage
  <2> QED BY <2>1, <2>3, SameStageKeepsCopy DEF Thens
<1>4. CASE HaltOnFailure
  <2>1. SameStage(rec.fs, [rec.fs EXCEPT !.actionFailed = TRUE])
    BY DEF SameStage, FailoverService
  <2> QED BY <1>4, <2>1, SameStageKeepsCopy DEF HaltOnFailure, DispatchAction, Ready, stores, Thens
<1>5. CASE RunCall
  BY <1>5, OutcomeKeepsCopy, CallOutcomesTyped DEF RunCall, stores
<1>6. CASE RunJob
  <2>1. \E o \in {"error", "pending", "success", "failure"} : RecordOutcome(o, TRUE) \/ RecordOutcome(o, FALSE)
    BY <1>6, JobOutcomeTyped DEF RunJob, NamedJobs, TypeOK
  <2> QED BY <1>6, <2>1, OutcomeKeepsCopy DEF RunJob, stores
<1> QED BY <1>1, <1>2, <1>3, <1>4, <1>5, <1>6

\* Switching and flushing.
LEMMA CopyFlushSteps ==
    ASSUME TypeOK, CurrentCopy,
           \/ UpdateResources \/ SendKillSignal \/ SignalKillFails \/ CheckAcksFails
           \/ AwaitAcks \/ LeaveFlushing
    PROVE  CurrentCopy'
<1> USE CopyTyped
<1>1. CASE UpdateResources
  <2>1. rec.fresh => StatusStep(obj, GoToPhase(rec.fs, "FlushingConnections"))
    BY <1>1, NextPhaseStep DEF UpdateResources, Dispatch, Ready, CurrentCopy, Pipeline!Follows
  <2> QED BY <1>1, <2>1, WriteKeepsCopy DEF UpdateResources, stores, Thens
<1>2. CASE SendKillSignal
  <2>1. PICK k \in Tokens :
          Write([rec.fs EXCEPT !.tr.kill = k, !.killed = "WaitingForAcks"], "requeue")
    BY <1>2 DEF SendKillSignal
  <2>2. SameStage(rec.fs, [rec.fs EXCEPT !.tr.kill = k, !.killed = "WaitingForAcks"])
    BY DEF SameStage, FailoverService, Transition
  <2> QED BY <1>2, <2>1, <2>2, SameStageKeepsCopy DEF SendKillSignal, Dispatch, Ready, stores, Thens
<1>3. ASSUME NEW k PROVE SameStage(rec.fs, [rec.fs EXCEPT !.killed = k])
  BY DEF SameStage, FailoverService
<1>4. CASE SignalKillFails
  BY <1>3, <1>4, SameStageKeepsCopy DEF SignalKillFails, Dispatch, Ready, stores, Thens
<1>5. CASE CheckAcksFails
  <2>1. \/ Write([rec.fs EXCEPT !.killed = "AckTimeout"], "halt")
        \/ rec' = NoReconcile
    BY <1>5 DEF CheckAcksFails
  <2>2. rec.pc = "top" /\ obj' = obj
    BY <1>5 DEF CheckAcksFails, Dispatch, Ready
  <2> QED BY <1>3, <2>1, <2>2, NoCopy, SameStageKeepsCopy DEF Thens
<1>6. CASE AwaitAcks
  <2>1. \/ Write([rec.fs EXCEPT !.killed = "AckTimeout"], "halt")
        \/ Write(rec.fs, "requeue")
    BY <1>6 DEF AwaitAcks
  <2>2. rec.pc = "top" /\ obj' = obj /\ SameStage(rec.fs, rec.fs)
    BY <1>6 DEF AwaitAcks, Dispatch, Ready, stores, SameStage
  <2> QED BY <1>3, <2>1, <2>2, SameStageKeepsCopy DEF Thens
<1>7. CASE LeaveFlushing
  <2> DEFINE m == [rec.fs EXCEPT !.killed = FlushReason(rec.fs)]
             n == GoToPhase(m, "ExecutingPostActions")
  <2>1. m \in FailoverService
    <3>1. FlushReason(rec.fs) \in KillReasons
      BY DEF FlushReason, KillReasons
    <3> QED BY <3>1 DEF FailoverService
  <2>2. SameStage(rec.fs, m)
    BY <1>3
  <2>3. Write(n, "requeue") /\ obj' = obj
    BY <1>7 DEF LeaveFlushing, stores
  <2> HIDE DEF m
  <2>4. /\ n.tr.phase = "ExecutingPostActions" /\ n.tr.dir = rec.fs.tr.dir
        /\ n.lastKnown = rec.fs.lastKnown /\ n.gen = rec.fs.gen
    BY <2>1, <2>2, GoToPhaseStage DEF SameStage
  <2> HIDE DEF n
  <2>5. rec.fresh => obj = rec.fs /\ obj.tr.phase = "FlushingConnections"
    BY <1>7 DEF LeaveFlushing, FlushDone, Dispatch, Ready, CurrentCopy
  <2>6. rec.fresh => StatusStep(obj, n)
    BY <2>4, <2>5 DEF StatusStep, Pipeline!Follows
  <2> QED BY <2>3, <2>6, WriteKeepsCopy DEF Thens
<1> QED BY <1>1, <1>2, <1>4, <1>5, <1>6, <1>7

\* completeTransition.
LEMMA CopyCompleteSteps ==
    ASSUME TypeOK, CurrentCopy,
           CompleteTransition \/ CompleteInSync \/ CompleteAdopt \/ CloseFailoverEvent
    PROVE  CurrentCopy'
<1> USE CopyTyped
<1>1. CASE CompleteTransition
  <2> DEFINE m == IF rec.fs.tr.phase = "FlushingConnections"
                  THEN [rec.fs EXCEPT !.killed = FlushReason(rec.fs)] ELSE rec.fs
  <2>1. m.tr = rec.fs.tr /\ m.gen = rec.fs.gen /\ m \in FailoverService
    <3>1. FlushReason(rec.fs) \in KillReasons
      BY DEF FlushReason, KillReasons
    <3> QED BY <3>1 DEF FailoverService
  <2>2. rec' = [rec EXCEPT !.pc = "completeSync", !.ev = rec.fs.tr.id, !.fs = Completed(m)]
    BY <1>1 DEF CompleteTransition
  <2> HIDE DEF m
  <2>3. ~InFlight(Completed(m)) /\ Completed(m).lastKnown = m.tr.dir /\ Completed(m).gen = m.gen + 1
    BY <2>1 DEF Completed, InFlight, NoTransition, FailoverService
  <2>4. rec'.pc = "completeSync" /\ rec'.fs = Completed(m) /\ rec'.fresh = rec.fresh
    BY <2>2 DEF TypeOK, Reconciles
  <2>5. obj' = obj /\ rec.pc = "top"
        /\ rec.fs.tr.phase \in {"FlushingConnections", "ExecutingPostActions"}
    BY <1>1 DEF CompleteTransition, FlushDone, Dispatch, Ready, stores
  <2>6. rec.fresh => rec.fs = obj
    BY <2>5 DEF CurrentCopy
  <2> QED BY <2>1, <2>3, <2>4, <2>5, <2>6 DEF CurrentCopy
<1>2. CASE CompleteInSync
  <2>1. rec.fresh => StatusStep(obj, rec.fs)
    BY <1>2, FieldsTyped DEF CompleteInSync, CurrentCopy, StatusStep, TypeOK
  <2> QED BY <1>2, <2>1, WriteKeepsCopy DEF CompleteInSync, stores, Thens
<1>3. CASE CompleteAdopt
  <2> DEFINE e(x) == [x EXCEPT !.actionFailed = FALSE, !.tr = NoTransition]
  <2>1. PICK g \in RemoteGens :
          g >= rec.fs.gen /\ Write(e(Adopted(obj', rec.fs.lastKnown, g)), "succeedAdopted")
    BY <1>3 DEF CompleteAdopt, RemoteMayWin
  <2>2. /\ obj.tr.phase \in {"FlushingConnections", "ExecutingPostActions"}
        /\ rec.fs.lastKnown = obj.tr.dir /\ rec.fs.gen = obj.gen + 1
        /\ obj' = [obj EXCEPT !.active = Opposite(rec.fs.active)]
    BY <1>3 DEF CompleteAdopt, CurrentCopy
  <2>3. /\ obj'.tr = obj.tr /\ obj'.gen = obj.gen
        /\ obj.tr.dir \in Direction /\ obj.gen \in Nat /\ g \in Nat
        /\ obj' \in FailoverService
    <3>1. Opposite(rec.fs.active) \in Direction
      BY DEF Opposite, Direction
    <3> QED BY <2>2, <3>1, FieldsTyped, BoundAssumption DEF FailoverService, TypeOK
  <2> DEFINE a == Adopted(obj', rec.fs.lastKnown, g)
             n == e(a)
  <2>4. a \in FailoverService /\ a.lastKnown = rec.fs.lastKnown /\ a.gen = g
    BY <2>2, <2>3, AdoptedTyped DEF Adopted, FailoverService
  <2>5. n.tr = NoTransition /\ n.lastKnown = a.lastKnown /\ n.gen = a.gen
    <3> HIDE DEF a
    <3> QED BY <2>4 DEF FailoverService
  <2>6. rec'.pc = "write" /\ rec'.fs = n /\ rec'.then = "succeedAdopted"
    BY <2>1 DEF Write, TypeOK, Reconciles
  <2> HIDE DEF n, a
  <2>7. ~InFlight(n) /\ n.gen > obj'.gen /\ n.lastKnown = obj'.tr.dir
    BY <2>1, <2>2, <2>3, <2>4, <2>5 DEF InFlight, NoTransition
  <2>8. StatusStep(obj', n)
    BY <2>2, <2>3, <2>7 DEF StatusStep
  <2> QED BY <2>2, <2>3, <2>6, <2>7, <2>8 DEF CurrentCopy
<1>4. CASE CloseFailoverEvent
  <2>1. CASE rec' = NoReconcile
    BY <2>1, NoCopy
  <2>2. CASE rec' # NoReconcile
    <3>1. /\ rec.then = "succeedAdopted" /\ rec.fs.lastKnown # rec.fs.active
          /\ rec' = [rec EXCEPT !.pc = "begin"] /\ obj' = obj /\ rec.pc = "succeed"
      BY <1>4, <2>2 DEF CloseFailoverEvent
    <3> QED BY <3>1 DEF CurrentCopy, TypeOK, Reconciles
  <2> QED BY <2>1, <2>2
<1> QED BY <1>1, <1>2, <1>3, <1>4

\* Another writer makes the copy stale; Jobs, agents and time do not touch it.
LEMMA CopyEnvironmentSteps ==
    ASSUME TypeOK, CurrentCopy,
           \/ FlipSpec \/ Annotate \/ EditHooks \/ EditAddresses \/ DeleteObject
           \/ FinishJob \/ AgentsAck \/ Expire
    PROVE  CurrentCopy'
<1>1. CASE FinishJob \/ AgentsAck \/ Expire
  BY <1>1 DEF FinishJob, AgentsAck, Expire, stores, CurrentCopy
<1>2. ASSUME NEW o, OthersWrite(o) PROVE ~rec'.fresh
  BY <1>2 DEF OthersWrite, TypeOK, Reconciles
<1>3. CASE FlipSpec \/ Annotate \/ DeleteObject
  BY <1>2, <1>3, StaleCopy DEF FlipSpec, Annotate, DeleteObject
<1>4. CASE EditHooks \/ EditAddresses
  BY <1>2, <1>4, StaleCopy DEF EditHooks, EditAddresses
<1> QED BY <1>1, <1>3, <1>4

\* Every step keeps CurrentCopy.
LEMMA CopyNext == TypeOK /\ CurrentCopy /\ [Next]_vars => CurrentCopy'
<1> SUFFICES ASSUME TypeOK, CurrentCopy, [Next]_vars PROVE CurrentCopy'
  OBVIOUS
<1>1. CASE UNCHANGED vars
  BY <1>1 DEF vars, stores, CurrentCopy
<1>2. CASE ReconcileStep
  BY <1>2, CopyQueueSteps, CopyMetadataSteps, CopyIdleSteps, CopyActionSteps,
     CopyFlushSteps, CopyCompleteSteps DEF ReconcileStep
<1>3. CASE Environment
  BY <1>3, CopyQueueSteps, CopyIdleSteps, CopyFlushSteps, CopyEnvironmentSteps DEF Environment
<1> QED BY <1>1, <1>2, <1>3 DEF Next

\* In every behaviour, the copy of a reconcile that can still be written is the
\* object or one step of the pipeline ahead of it.
THEOREM CopyCorrect == Spec => []CurrentCopy
BY CopyInit, CopyNext, TypeCorrect, PTL DEF Spec

-----------------------------------------------------------------------------
(* The refinement *)

\* A step that leaves the stage of the object alone is a stutter of the pipeline.
LEMMA SameStageStutters ==
    ASSUME SameStage(obj, obj')
    PROVE  UNCHANGED Pipeline!pvars
BY DEF SameStage, Pipeline!pvars, InFlight

\* A status write with a current copy is a step of the pipeline.
LEMMA StatusStepRefines ==
    ASSUME TypeOK, TypeOK', StatusStep(obj, obj')
    PROVE  [Pipeline!PNext]_(Pipeline!pvars)
<1> DEFINE o == obj
           n == obj'
<1>1. /\ o.gen \in Nat /\ n.gen \in Nat
      /\ o.lastKnown \in Direction \cup {"unset"} /\ n.lastKnown \in Direction \cup {"unset"}
      /\ o.tr.dir \in Direction /\ n.tr.dir \in Direction
      /\ o.tr.phase \in Phases /\ n.tr.phase \in Phases
  BY FieldsTyped DEF TypeOK
<1>2. CASE SameStage(o, n)
  BY <1>2, SameStageStutters
<1>3. CASE /\ ~InFlight(o) /\ ~InFlight(n) /\ n.gen >= o.gen
           /\ \/ n.lastKnown = o.lastKnown
              \/ o.lastKnown = "unset" /\ n.lastKnown \in Direction
  BY <1>1, <1>3 DEF Pipeline!PNext, Pipeline!Baseline, Pipeline!AdoptRevision, InFlight,
     Pipeline!Directions, Direction
<1>4. CASE /\ ~InFlight(o) /\ n.tr.phase \in {"ExecutingPreActions", "UpdatingResources"}
           /\ o.lastKnown \in Direction /\ n.tr.dir \in Direction \ {o.lastKnown}
           /\ n.lastKnown = o.lastKnown /\ n.gen = o.gen
  BY <1>4 DEF Pipeline!PNext, Pipeline!Begin, InFlight, Pipeline!Directions, Direction
<1>5. CASE /\ Pipeline!Follows(o.tr.phase, n.tr.phase) /\ n.tr.dir = o.tr.dir
           /\ n.lastKnown = o.lastKnown /\ n.gen = o.gen
  BY <1>5 DEF Pipeline!PNext, Pipeline!Advance, Pipeline!Follows, InFlight
<1>6. CASE /\ o.tr.phase \in {"FlushingConnections", "ExecutingPostActions"} /\ ~InFlight(n)
           /\ n.lastKnown = o.tr.dir /\ n.gen > o.gen
  BY <1>1, <1>6 DEF Pipeline!PNext, Pipeline!Complete, InFlight
<1> QED BY <1>2, <1>3, <1>4, <1>5, <1>6 DEF StatusStep, SameStage

\* The initial object is idle.
LEMMA PipelineInit == Init => Pipeline!PInit
BY DEF Init, NewObject, NoTransition, InFlight, Pipeline!PInit

\* Every step of the controller and its environment is a step of the pipeline
\* or leaves the pipeline alone.
LEMMA PipelineNext ==
    TypeOK /\ TypeOK' /\ CurrentCopy /\ [Next]_vars => [Pipeline!PNext]_(Pipeline!pvars)
<1> SUFFICES ASSUME TypeOK, TypeOK', CurrentCopy, [Next]_vars
             PROVE  [Pipeline!PNext]_(Pipeline!pvars)
  OBVIOUS
<1> USE SameStageStutters, CopyTyped
<1>1. CASE obj' = obj
  BY <1>1 DEF SameStage
<1>2. CASE WriteStatus
  BY <1>2, StatusStepRefines DEF WriteStatus, CurrentCopy
<1>3. CASE RemoveFinalizer \/ EnsureMetadata \/ RemoveAnnotation
  <2>1. rec.fs = obj
    BY <1>3 DEF RemoveFinalizer, EnsureMetadata, RemoveAnnotation, CurrentCopy
  <2>2. SameStage(obj, obj')
    BY <1>3, <2>1 DEF RemoveFinalizer, EnsureMetadata, RemoveAnnotation, SameStage, FailoverService
  <2> QED BY <2>2
<1>4. CASE SteadyAdopt \/ CompleteAdopt \/ FlipSpec
  <2>1. obj' = [obj EXCEPT !.active = Opposite(rec.fs.active)]
        \/ obj' = [obj EXCEPT !.active = Opposite(@)]
    BY <1>4 DEF SteadyAdopt, CompleteAdopt, FlipSpec, OthersWrite
  <2>2. SameStage(obj, obj')
    BY <2>1 DEF SameStage, TypeOK, FailoverService
  <2> QED BY <2>2
<1>5. CASE Annotate \/ DeleteObject
  <2>1. obj' = [obj EXCEPT !.force = TRUE] \/ obj' = [obj EXCEPT !.del = TRUE]
    BY <1>5 DEF Annotate, DeleteObject, OthersWrite
  <2>2. SameStage(obj, obj')
    BY <2>1 DEF SameStage, TypeOK, FailoverService
  <2> QED BY <2>2
<1>6. CASE EditHooks \/ EditAddresses
  <2>1. \/ \E d \in Direction, h \in HookChoices : obj' = [obj EXCEPT !.hooks[d] = h]
        \/ \E a \in AddrChoices : obj' = [obj EXCEPT !.addr = a]
    BY <1>6 DEF EditHooks, EditAddresses, OthersWrite
  <2>2. SameStage(obj, obj')
    BY <2>1 DEF SameStage, TypeOK, FailoverService
  <2> QED BY <2>2
<1>7. obj' = obj \/ WriteStatus \/ RemoveFinalizer \/ EnsureMetadata \/ RemoveAnnotation
      \/ SteadyAdopt \/ CompleteAdopt \/ FlipSpec \/ Annotate \/ DeleteObject
      \/ EditHooks \/ EditAddresses
  <2>1. CASE UNCHANGED vars
    BY <2>1 DEF vars, stores
  <2>2. CASE ReconcileStep
    BY <2>2 DEF ReconcileStep, stores, StartReconcile, Conflict, ReconcileDeletion,
       ForceAdvance, DetectTransition, CreateFailoverEvent, ReconcileIdleService,
       SteadyState, BeginRemoteSync, LeavePreActions, MarkRunning, PassAction,
       HaltOnFailure, TimeoutAction, RunCall, RunJob, UpdateResources, SendKillSignal,
       AwaitAcks, LeaveFlushing, CompleteTransition, CompleteInSync, CloseFailoverEvent
  <2>3. CASE Environment
    BY <2>3 DEF Environment, stores, SyncCache, Abort, RecreateFails, SignalKillFails, CheckAcksFails,
       FinishJob, AgentsAck, Expire
  <2> QED BY <2>1, <2>2, <2>3 DEF Next
<1> QED BY <1>1, <1>2, <1>3, <1>4, <1>5, <1>6, <1>7

\* The controller implements the pipeline: whatever is flipped, edited, forced,
\* adopted, read from a stale cache or lost in a crash, the persisted object
\* goes through the phases in order, ends in the direction it set out for and
\* never loses a generation.
THEOREM Refinement == Spec => ImplementsPipeline
<1>1. TypeOK /\ TypeOK' /\ CurrentCopy /\ [Next]_vars => [Pipeline!PNext]_(Pipeline!pvars)
  BY PipelineNext
<1> QED BY <1>1, PipelineInit, TypeCorrect, CopyCorrect, PTL
        DEF Spec, ImplementsPipeline, Pipeline!PSpec

=============================================================================
