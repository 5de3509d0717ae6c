---------------------- MODULE FailoverTransitionProofs ----------------------
(* Proofs about FailoverTransition: type correctness, and that the persisted *)
(* object implements TransitionPipeline.                                     *)
EXTENDS FailoverTransition, SequenceTheorems, TLAPS

-----------------------------------------------------------------------------
(* Types of the operators the actions are built from *)

\* The initial object and the idle values are well typed.
LEMMA ConstantsTyped ==
    /\ NoTransition \in Transition
    /\ NewObject \in FailoverService
    /\ NoReconcile \in Reconciles
<1>1. InitAddr["failback"] \in Address
  BY AddrAssumption DEF Direction
<1>2. NoTransition \in Transition
  <2>1. <<>> \in Seq(Result)
    BY EmptySeq
  <2> QED BY <1>1, <2>1 DEF NoTransition, Transition, Phases, Direction
<1>3. NewObject \in FailoverService
  BY <1>2, HooksAssumption, AddrAssumption DEF NewObject, FailoverService, Direction, KillReasons
<1>4. NoReconcile \in Reconciles
  BY <1>3 DEF NoReconcile, Reconciles, PCs, Thens
<1> QED BY <1>2, <1>3, <1>4

\* Fields of a well-typed object.
LEMMA FieldsTyped ==
    ASSUME NEW fs \in FailoverService
    PROVE  /\ fs.active \in Direction /\ fs.gen \in Nat
           /\ fs.lastKnown \in Direction \cup {"unset"}
           /\ fs.hooks \in [Direction -> HookChoices] /\ fs.addr \in [Direction -> Address]
           /\ fs.tr \in Transition
           /\ fs.tr.phase \in Phases /\ fs.tr.dir \in Direction
           /\ fs.tr.id \in Nat /\ fs.tr.idx \in Nat
           /\ fs.tr.pre \in Seq(Result) /\ fs.tr.post \in Seq(Result)
           /\ fs.tr.new \in Address /\ fs.tr.kill \in Tokens \cup {0}
BY AddrAssumption DEF FailoverService, Transition

\* Replacing the transition of an object keeps its type.
LEMMA SetTransitionTyped ==
    ASSUME NEW fs \in FailoverService, NEW t \in Transition
    PROVE  [fs EXCEPT !.tr = t] \in FailoverService
BY DEF FailoverService

\* Moving the index or the phase keeps the type.
LEMMA StepTyped ==
    ASSUME NEW fs \in FailoverService, NEW p \in Phases
    PROVE  NextAction(fs) \in FailoverService /\ GoToPhase(fs, p) \in FailoverService
<1>1. [fs.tr EXCEPT !.idx = @ + 1] \in Transition
  BY FieldsTyped DEF Transition
<1>2. [fs.tr EXCEPT !.phase = p, !.idx = 0] \in Transition
  BY FieldsTyped DEF Transition
<1>3. NextAction(fs) = [fs EXCEPT !.tr = [fs.tr EXCEPT !.idx = @ + 1]]
  BY DEF NextAction, FailoverService, Transition
<1>4. GoToPhase(fs, p) = [fs EXCEPT !.tr = [fs.tr EXCEPT !.phase = p, !.idx = 0]]
  BY DEF GoToPhase, FailoverService, Transition
<1> QED BY <1>1, <1>2, <1>3, <1>4, SetTransitionTyped

\* The result list of the current phase keeps its type when the current entry is set.
LEMMA SetResultTyped ==
    ASSUME NEW fs \in FailoverService, NEW r \in Result,
           fs.tr.idx < Len(PhaseResults(fs))
    PROVE  SetResult(fs, r) \in FailoverService
<1> DEFINE i == fs.tr.idx + 1
<1>1. fs.tr.idx \in Nat /\ fs.tr.pre \in Seq(Result) /\ fs.tr.post \in Seq(Result)
  BY FieldsTyped
<1>2. CASE PrePhase(fs)
  <2>1. i \in 1..Len(fs.tr.pre)
    BY <1>1, <1>2 DEF PhaseResults
  <2>2. [fs.tr.pre EXCEPT ![i] = r] \in Seq(Result)
    BY <1>1, <2>1, ExceptSeq
  <2> HIDE DEF i
  <2>3. [fs EXCEPT !.tr.pre[i] = r] \in FailoverService
    BY <2>2 DEF FailoverService, Transition
  <2> QED BY <1>2, <2>3 DEF SetResult, i
<1>3. CASE ~PrePhase(fs)
  <2>1. i \in 1..Len(fs.tr.post)
    BY <1>1, <1>3 DEF PhaseResults
  <2>2. [fs.tr.post EXCEPT ![i] = r] \in Seq(Result)
    BY <1>1, <2>1, ExceptSeq
  <2> HIDE DEF i
  <2>3. [fs EXCEPT !.tr.post[i] = r] \in FailoverService
    BY <2>2 DEF FailoverService, Transition
  <2> QED BY <1>3, <2>3 DEF SetResult, i
<1> QED BY <1>2, <1>3

\* The current result is a Result.
LEMMA CurrentResultTyped ==
    ASSUME NEW fs \in FailoverService, fs.tr.idx < Len(PhaseResults(fs))
    PROVE  CurrentResult(fs) \in Result
<1>1. PhaseResults(fs) \in Seq(Result) /\ fs.tr.idx \in Nat
  BY FieldsTyped DEF PhaseResults
<1>2. fs.tr.idx + 1 \in 1..Len(PhaseResults(fs))
  BY <1>1
<1> QED BY <1>1, <1>2, ElementOfSeq DEF CurrentResult

\* A finished phase keeps its type under WithStatus.
LEMMA WithStatusTyped ==
    ASSUME NEW fs \in FailoverService, NEW s \in ActionStatus,
           fs.tr.idx < Len(PhaseResults(fs))
    PROVE  WithStatus(fs, s) \in FailoverService
<1>1. [CurrentResult(fs) EXCEPT !.status = s] \in Result
  BY CurrentResultTyped DEF Result
<1> QED BY <1>1, SetResultTyped DEF WithStatus

\* Fresh result lists.
LEMMA PendingResultsTyped ==
    ASSUME NEW acts \in Seq(Action)
    PROVE  PendingResults(acts) \in Seq(Result)
<1>1. [status |-> "Pending", retries |-> 0, job |-> FALSE] \in Result
  BY DEF Result, ActionStatus
<1>2. Len(acts) \in Nat
  BY LenProperties
<1> QED BY <1>1, <1>2 DEF PendingResults

\* What beginTransition builds is a well-typed object.
LEMMA BegunTyped ==
    ASSUME NEW fs \in FailoverService, begun \in Nat
    PROVE  Begun(fs) \in FailoverService
<1> DEFINE h == fs.hooks[fs.active]
           t == [phase |-> IF Len(h.pre) > 0 THEN "ExecutingPreActions" ELSE "UpdatingResources",
                 dir |-> fs.active, id |-> begun + 1, idx |-> 0,
                 pre |-> PendingResults(h.pre), post |-> PendingResults(h.post),
                 old |-> fs.addr[Opposite(fs.active)], new |-> fs.addr[fs.active], kill |-> 0]
<1>1. h \in Hooks
  BY FieldsTyped, HooksAssumption
<1>2. h.pre \in Seq(Action) /\ h.post \in Seq(Action)
  BY <1>1 DEF Hooks
<1>3. PendingResults(h.pre) \in Seq(Result) /\ PendingResults(h.post) \in Seq(Result)
  BY <1>2, PendingResultsTyped
<1>4. fs.active \in Direction /\ Opposite(fs.active) \in Direction
  BY FieldsTyped DEF Opposite, Direction
<1>5. fs.addr[fs.active] \in Address /\ fs.addr[Opposite(fs.active)] \in Address
  BY <1>4, FieldsTyped
<1>6. t \in Transition
  BY <1>3, <1>4, <1>5 DEF Transition, Phases
<1> QED BY <1>6, SetTransitionTyped DEF Begun

\* What completeTransition builds is a well-typed object.
LEMMA CompletedTyped ==
    ASSUME NEW fs \in FailoverService
    PROVE  Completed(fs) \in FailoverService
<1>1. fs.gen + 1 \in Nat /\ fs.tr.dir \in Direction \cup {"unset"}
  BY FieldsTyped
<1> QED BY <1>1, ConstantsTyped DEF Completed, FailoverService

\* What applyRemoteWinnerState builds is a well-typed object.
LEMMA AdoptedTyped ==
    ASSUME NEW fs \in FailoverService, NEW was \in Direction \cup {"unset"}, NEW g \in Nat
    PROVE  Adopted(fs, was, g) \in FailoverService
BY DEF Adopted, FailoverService

\* What handleForceAdvance builds is a well-typed object.
LEMMA ForceAdvancedTyped ==
    ASSUME NEW fs \in FailoverService
    PROVE  ForceAdvanced(fs) \in FailoverService
<1> DEFINE skipped == NextAction(SetResult(fs, [CurrentResult(fs) EXCEPT !.status = "Skipped"]))
<1>1. ASSUME fs.tr.idx < Len(PhaseResults(fs)) PROVE skipped \in FailoverService
  <2>1. [CurrentResult(fs) EXCEPT !.status = "Skipped"] \in Result
    BY <1>1, CurrentResultTyped DEF Result, ActionStatus
  <2>2. SetResult(fs, [CurrentResult(fs) EXCEPT !.status = "Skipped"]) \in FailoverService
    BY <1>1, <2>1, SetResultTyped
  <2> QED BY <2>2, StepTyped DEF Phases
<1>2. /\ GoToPhase(fs, "FlushingConnections") \in FailoverService
      /\ GoToPhase(fs, "ExecutingPostActions") \in FailoverService
  BY StepTyped DEF Phases
<1>3. ASSUME NEW n \in FailoverService PROVE [n EXCEPT !.actionFailed = FALSE] \in FailoverService
  BY DEF FailoverService
<1> HIDE DEF skipped
<1>4. CASE ActionPhase(fs) /\ fs.tr.idx < Len(PhaseResults(fs))
  <2>1. ForceAdvanced(fs) = [skipped EXCEPT !.actionFailed = FALSE]
    BY <1>4 DEF ForceAdvanced, skipped, ActionPhase
  <2> QED BY <1>1, <1>3, <1>4, <2>1
<1>5. CASE ~(ActionPhase(fs) /\ fs.tr.idx < Len(PhaseResults(fs))) /\ fs.tr.phase = "UpdatingResources"
  <2>1. ForceAdvanced(fs) = [GoToPhase(fs, "FlushingConnections") EXCEPT !.actionFailed = FALSE]
    BY <1>5 DEF ForceAdvanced, ActionPhase
  <2> QED BY <1>2, <1>3, <2>1
<1>6. CASE ~(ActionPhase(fs) /\ fs.tr.idx < Len(PhaseResults(fs))) /\ fs.tr.phase = "FlushingConnections"
  <2>1. ForceAdvanced(fs) = [GoToPhase(fs, "ExecutingPostActions") EXCEPT !.actionFailed = FALSE]
    BY <1>6 DEF ForceAdvanced, ActionPhase
  <2> QED BY <1>2, <1>3, <2>1
<1>7. CASE /\ ~(ActionPhase(fs) /\ fs.tr.idx < Len(PhaseResults(fs)))
           /\ fs.tr.phase \notin {"UpdatingResources", "FlushingConnections"}
  <2>1. ForceAdvanced(fs) = [fs EXCEPT !.actionFailed = FALSE]
    BY <1>7 DEF ForceAdvanced, ActionPhase
  <2> QED BY <1>3, <2>1
<1> QED BY <1>4, <1>5, <1>6, <1>7

\* A write step leaves a well-typed reconcile.
LEMMA WriteTyped ==
    ASSUME rec \in Reconciles, NEW fs \in FailoverService, NEW then \in Thens, Write(fs, then)
    PROVE  rec' \in Reconciles
BY DEF Write, Reconciles, PCs

\* The table of outcome changes yields outcomes.
LEMMA EventOutcomeTyped ==
    ASSUME NEW was \in Outcomes, NEW now \in Outcomes
    PROVE  EventOutcome(was, now) \in Outcomes
BY DEF EventOutcome

\* An event update, done or lost, keeps the type of the events.
LEMMA UpdateFailoverEventTyped ==
    ASSUME events \in [1..MaxChanges -> Outcomes], NEW id, NEW o \in Outcomes,
           UpdateFailoverEvent(id, o)
    PROVE  events' \in [1..MaxChanges -> Outcomes]
BY EventOutcomeTyped DEF UpdateFailoverEvent

-----------------------------------------------------------------------------
(* Type correctness *)

\* Init is well typed.
LEMMA TypeInit == Init => TypeOK
<1> SUFFICES ASSUME Init PROVE TypeOK
  OBVIOUS
<1>1. obj \in FailoverService /\ cache \in FailoverService /\ rec \in Reconciles
  BY ConstantsTyped DEF Init
<1>2. queued \in BOOLEAN /\ expired \in BOOLEAN /\ edited \in BOOLEAN
  BY DEF Init
<1>3. events \in [1..MaxChanges -> Outcomes]
  BY DEF Init, Outcomes
<1> QED BY <1>1, <1>2, <1>3 DEF Init, TypeOK

\* Shape of the steps that only compute the next status write.
LEMMA TypeWriteOnly ==
    ASSUME TypeOK, NEW fs \in FailoverService, NEW then \in Thens, Write(fs, then),
           UNCHANGED <<stores, world, counters, history>>
    PROVE  TypeOK'
<1>1. rec' \in Reconciles
  BY WriteTyped DEF TypeOK
<1> QED BY <1>1 DEF TypeOK, stores, world, counters, history

\* The copy of a reconcile that has come to an action.
LEMMA ActionTyped ==
    ASSUME TypeOK, NEW s, DispatchAction(s)
    PROVE  /\ rec.fs \in FailoverService
           /\ rec.fs.tr.idx < Len(PhaseResults(rec.fs))
           /\ CurrentResult(rec.fs) \in Result
<1>1. rec.fs \in FailoverService
  BY DEF TypeOK, Reconciles
<1>2. PhaseResults(rec.fs) \in Seq(Result) /\ rec.fs.tr.idx \in Nat
  BY <1>1, FieldsTyped DEF PhaseResults
<1>3. rec.fs.tr.idx < Len(PhaseResults(rec.fs))
  BY <1>2, LenProperties DEF DispatchAction, AtAction, PhaseDone
<1> QED BY <1>1, <1>3, CurrentResultTyped

\* Whatever an action's outcome is, one result is recorded, and the index moves or not.
LEMMA OutcomeIsResult ==
    ASSUME TypeOK, NEW o \in {"error", "pending", "success", "failure"}, NEW job \in BOOLEAN,
           DispatchAction("Running"), RecordOutcome(o, job)
    PROVE  \E q \in Result : Write(SetResult(rec.fs, q), "requeue")
                               \/ Write(NextAction(SetResult(rec.fs, q)), "requeue")
<1> DEFINE r == CurrentResult(rec.fs)
<1>1. r \in Result
  BY ActionTyped
<1> HIDE DEF r
<1>2. /\ [r EXCEPT !.retries = @ + 1] \in Result
      /\ [[r EXCEPT !.retries = @ + 1] EXCEPT !.status = "Failed"] \in Result
      /\ [r EXCEPT !.job = job] \in Result
      /\ [r EXCEPT !.job = job, !.status = "Succeeded"] \in Result
      /\ [r EXCEPT !.job = job, !.status = "Failed"] \in Result
  <2>1. ASSUME NEW x \in Result, NEW b \in BOOLEAN, NEW s \in ActionStatus
        PROVE  /\ [x EXCEPT !.job = b] \in Result
               /\ [x EXCEPT !.status = s] \in Result
               /\ [x EXCEPT !.job = b, !.status = s] \in Result
    BY <2>1 DEF Result
  <2>2. r.retries + 1 \in Nat
    BY <1>1 DEF Result
  <2>3. [r EXCEPT !.retries = @ + 1] \in Result
    BY <1>1, <2>2 DEF Result
  <2> QED BY <1>1, <2>1, <2>3 DEF ActionStatus
<1>3. CASE o = "error" /\ r.retries < MaxRetries
  BY <1>2, <1>3 DEF RecordOutcome, r
<1>4. CASE o = "error" /\ r.retries >= MaxRetries
  BY <1>2, <1>4 DEF RecordOutcome, r
<1>5. CASE o = "pending"
  BY <1>2, <1>5 DEF RecordOutcome, r
<1>6. CASE o = "success"
  BY <1>2, <1>6 DEF RecordOutcome, r
<1>7. CASE o = "failure"
  BY <1>2, <1>7 DEF RecordOutcome, r
<1>8. r.retries \in Nat /\ MaxRetries \in Nat
  BY <1>1, BoundAssumption DEF Result
<1> QED BY <1>3, <1>4, <1>5, <1>6, <1>7, <1>8

\* An existing Job has one of three outcomes.
LEMMA JobOutcomeTyped ==
    ASSUME TypeOK
    PROVE  \A j \in NamedJobs : JobOutcome(j.state) \in {"pending", "success", "failure"}
BY DEF NamedJobs, TypeOK, JobStates, JobOutcome

\* Steps of the queue, the cache and the status writes.
LEMMA TypeQueueSteps ==
    ASSUME TypeOK,
           StartReconcile \/ SyncCache \/ Abort \/ Conflict \/ WriteStatus
    PROVE  TypeOK'
<1> USE ConstantsTyped
<1>1. CASE StartReconcile
  <2>1. rec' \in Reconciles
    BY <1>1 DEF StartReconcile, TypeOK, Reconciles, PCs, Thens
  <2> QED BY <1>1, <2>1 DEF StartReconcile, TypeOK, world, counters, history
<1>2. CASE SyncCache
  BY <1>2 DEF SyncCache, TypeOK, world, counters, history
<1>3. CASE Abort
  BY <1>3 DEF Abort, TypeOK, world, history
<1>4. CASE Conflict
  BY <1>4 DEF Conflict, TypeOK, world, counters, history
<1>5. CASE WriteStatus
  <2>1. AfterWrite \in Reconciles
    BY DEF AfterWrite, TypeOK, Reconciles, PCs
  <2>2. obj' \in FailoverService
    BY <1>5 DEF WriteStatus, TypeOK, Reconciles
  <2>3. /\ begun' \in Nat
        /\ queued' \in BOOLEAN /\ expired' \in BOOLEAN /\ edited' \in BOOLEAN
    <3>1. begun' \in Nat
      BY <1>5 DEF WriteStatus, TypeOK
    <3>2. queued' \in BOOLEAN /\ expired' \in BOOLEAN /\ edited' \in BOOLEAN
      <4>1. queued' = TRUE \/ queued' = FALSE
        BY <1>5 DEF WriteStatus, TypeOK
      <4>2. expired' = TRUE \/ expired' = FALSE
        BY <1>5 DEF WriteStatus, TypeOK
      <4>3. edited' = TRUE \/ edited' = FALSE
        BY <1>5 DEF WriteStatus, TypeOK
      <4> QED BY <4>1, <4>2, <4>3
    <3> QED BY <3>1, <3>2
  <2> QED BY <1>5, <2>1, <2>2, <2>3 DEF WriteStatus, TypeOK, counters
<1> QED BY <1>1, <1>2, <1>3, <1>4, <1>5

\* A reconcile's copy is an object; unchanged but for the place it has come to,
\* the reconcile keeps its type.
LEMMA CopyTyped ==
    ASSUME TypeOK
    PROVE  /\ rec.fs \in FailoverService
           /\ \A p \in PCs : [rec EXCEPT !.pc = p] \in Reconciles
BY DEF TypeOK, Reconciles

\* Deletion, metadata and force-advance keep TypeOK.
LEMMA TypeMetadataSteps ==
    ASSUME TypeOK,
           ReconcileDeletion \/ RemoveFinalizer \/ EnsureMetadata \/ ForceAdvance \/ RemoveAnnotation
    PROVE  TypeOK'
<1> USE ConstantsTyped, CopyTyped
<1>1. CASE ReconcileDeletion
  <2>1. rec' \in Reconciles
    BY <1>1 DEF ReconcileDeletion, PCs
  <2>2. faults' \in Nat /\ signal' \in Tokens \cup {0} /\ acked' \in Tokens \cup {0}
    BY <1>1 DEF ReconcileDeletion, CleanupSignals, TypeOK
  <2> QED BY <1>1, <2>1, <2>2 DEF ReconcileDeletion, TypeOK, stores, history
<1>2. CASE RemoveFinalizer
  <2>1. obj' \in FailoverService
    BY <1>2 DEF RemoveFinalizer, FailoverService
  <2> QED BY <1>2, <2>1 DEF RemoveFinalizer, TypeOK, world, counters, history
<1>3. CASE EnsureMetadata
  <2>1. obj' \in FailoverService
    BY <1>3 DEF EnsureMetadata, FailoverService
  <2>2. rec' = [rec EXCEPT !.fs = [rec.fs EXCEPT !.fin = TRUE]]
    BY <1>3 DEF EnsureMetadata, TypeOK, Reconciles, FailoverService
  <2>3. [rec.fs EXCEPT !.fin = TRUE] \in FailoverService
    BY DEF FailoverService
  <2>4. rec' \in Reconciles
    BY <2>2, <2>3 DEF TypeOK, Reconciles
  <2> QED BY <1>3, <2>1, <2>4 DEF EnsureMetadata, TypeOK, world, counters, history
<1>4. CASE ForceAdvance
  <2>1. rec' \in Reconciles
    <3>1. CASE InFlight(rec.fs)
      <4>1. Write(ForceAdvanced(rec.fs), "unannotate")
        BY <1>4, <3>1 DEF ForceAdvance
      <4> QED BY <4>1, ForceAdvancedTyped, WriteTyped DEF TypeOK, Thens
    <3>2. CASE ~InFlight(rec.fs)
      BY <1>4, <3>2 DEF ForceAdvance, PCs
    <3> QED BY <3>1, <3>2
  <2>2. events' \in [1..MaxChanges -> Outcomes]
    <3>1. events' = events \/ UpdateFailoverEvent(rec.fs.tr.id, "ForceAdvanced")
      BY <1>4 DEF ForceAdvance
    <3> QED BY <3>1, UpdateFailoverEventTyped DEF TypeOK, Outcomes
  <2> QED BY <1>4, <2>1, <2>2 DEF ForceAdvance, TypeOK, stores, counters, history
<1>5. CASE RemoveAnnotation
  <2>1. obj' \in FailoverService
    BY <1>5 DEF RemoveAnnotation, FailoverService
  <2> QED BY <1>5, <2>1 DEF RemoveAnnotation, TypeOK, world, counters, history
<1> QED BY <1>1, <1>2, <1>3, <1>4, <1>5

\* The steps of an idle object keep TypeOK.
LEMMA TypeIdleSteps ==
    ASSUME TypeOK,
           \/ DetectTransition \/ CreateFailoverEvent \/ ReconcileIdleService \/ RecreateFails
           \/ SteadyState \/ SteadyAdopt \/ BeginRemoteSync
    PROVE  TypeOK'
<1> USE ConstantsTyped, CopyTyped
<1>1. CASE DetectTransition \/ BeginRemoteSync
  <2>1. Begun(rec.fs) \in FailoverService
    BY BegunTyped DEF TypeOK
  <2> QED BY <1>1, <2>1, TypeWriteOnly DEF DetectTransition, BeginRemoteSync, Thens
<1>2. CASE CreateFailoverEvent
  <2>1. events' \in [1..MaxChanges -> Outcomes]
    BY <1>2 DEF CreateFailoverEvent, TypeOK, Outcomes
  <2> QED BY <1>2, <2>1 DEF CreateFailoverEvent, TypeOK, counters, history
<1>3. CASE ReconcileIdleService
  <2>1. rec' \in Reconciles
    BY <1>3 DEF ReconcileIdleService, PCs
  <2>2. service' \in Address \cup {"none"}
    BY <1>3, FieldsTyped DEF ReconcileIdleService, ServiceTarget
  <2> QED BY <1>3, <2>1, <2>2 DEF ReconcileIdleService, TypeOK, stores, counters, history
<1>4. CASE SteadyState
  <2>1. [rec.fs EXCEPT !.lastKnown = rec.fs.active] \in FailoverService
    BY DEF FailoverService
  <2> QED BY <1>4, <2>1, TypeWriteOnly DEF SteadyState, Thens
<1>5. CASE SteadyAdopt
  <2>1. Opposite(rec.fs.active) \in Direction
    BY DEF Opposite, Direction
  <2>2. obj' \in FailoverService
    BY <1>5, <2>1 DEF SteadyAdopt, TypeOK, FailoverService
  <2>3. PICK g \in RemoteGens : Write(Adopted(obj', rec.fs.active, g), "adopted")
    BY <1>5 DEF SteadyAdopt
  <2>4. Adopted(obj', rec.fs.active, g) \in FailoverService
    BY <2>2, <2>3, AdoptedTyped, FieldsTyped, BoundAssumption
  <2>5. rec' \in Reconciles
    BY <2>3, <2>4, WriteTyped DEF TypeOK, Thens
  <2> QED BY <1>5, <2>2, <2>5 DEF SteadyAdopt, TypeOK, world, history
<1>6. CASE RecreateFails
  BY <1>6 DEF RecreateFails, TypeOK, history
<1> QED BY <1>1, <1>2, <1>3, <1>4, <1>5, <1>6

\* An executor returns one of the four outcomes runAction tells apart.
LEMMA CallOutcomesTyped ==
    ASSUME NEW kind
    PROVE  CallOutcomes(kind) \subseteq {"error", "pending", "success", "failure"}
BY DEF CallOutcomes, HTTPOutcomes, ScaleOutcomes, WaitReadyOutcomes, WaitRemoteOutcomes

\* The action phases keep TypeOK.
LEMMA TypeActionSteps ==
    ASSUME TypeOK,
           \/ LeavePreActions \/ MarkRunning \/ PassAction \/ HaltOnFailure
           \/ TimeoutAction \/ RunCall \/ RunJob
    PROVE  TypeOK'
<1> USE CopyTyped
<1>1. CASE LeavePreActions
  <2>1. GoToPhase(rec.fs, "UpdatingResources") \in FailoverService
    BY StepTyped DEF Phases
  <2> QED BY <1>1, <2>1, TypeWriteOnly DEF LeavePreActions, Thens
<1>2. CASE MarkRunning \/ TimeoutAction
  <2>1. /\ WithStatus(rec.fs, "Running") \in FailoverService
        /\ WithStatus(rec.fs, "Failed") \in FailoverService
    BY <1>2, ActionTyped, WithStatusTyped DEF MarkRunning, TimeoutAction, ActionStatus
  <2> QED BY <1>2, <2>1, TypeWriteOnly DEF MarkRunning, TimeoutAction, Thens
<1>3. CASE PassAction
  <2>1. WithStatus(rec.fs, "Skipped") \in FailoverService
    BY <1>3, ActionTyped, WithStatusTyped DEF PassAction, ActionStatus
  <2> DEFINE n == IF CurrentResult(rec.fs).status = "Failed"
                  THEN WithStatus(rec.fs, "Skipped") ELSE rec.fs
  <2>2. n \in FailoverService
    BY <2>1
  <2>3. NextAction(n) \in FailoverService
    BY <2>2, StepTyped DEF Phases
  <2> QED BY <1>3, <2>3, TypeWriteOnly DEF PassAction, Thens
<1>4. CASE HaltOnFailure
  <2>1. [rec.fs EXCEPT !.actionFailed = TRUE] \in FailoverService
    BY DEF FailoverService
  <2>2. rec' \in Reconciles
    BY <1>4, <2>1, WriteTyped DEF HaltOnFailure, TypeOK, Thens
  <2>3. events' \in [1..MaxChanges -> Outcomes]
    BY <1>4, UpdateFailoverEventTyped DEF HaltOnFailure, TypeOK, Outcomes
  <2> QED BY <1>4, <2>2, <2>3 DEF HaltOnFailure, TypeOK, stores, counters, history
<1>5. ASSUME NEW o \in {"error", "pending", "success", "failure"}, NEW job \in BOOLEAN,
             DispatchAction("Running"), RecordOutcome(o, job)
      PROVE  rec' \in Reconciles
  <2> DEFINE r == CurrentResult(rec.fs)
  <2>1. r \in Result /\ rec.fs.tr.idx < Len(PhaseResults(rec.fs))
    BY <1>5, ActionTyped
  <2>2. PICK q \in Result : Write(SetResult(rec.fs, q), "requeue")
                              \/ Write(NextAction(SetResult(rec.fs, q)), "requeue")
    BY <1>5, OutcomeIsResult
  <2>3. SetResult(rec.fs, q) \in FailoverService
    BY <2>1, SetResultTyped
  <2>4. NextAction(SetResult(rec.fs, q)) \in FailoverService
    BY <2>3, StepTyped DEF Phases
  <2> QED BY <2>2, <2>3, <2>4, WriteTyped DEF TypeOK, Thens
<1>6. ThisAction \in Nat \X Phases \X Nat
  BY FieldsTyped DEF ThisAction
<1>7. CASE RunCall
  <2>1. rec' \in Reconciles
    BY <1>5, <1>7, CallOutcomesTyped DEF RunCall
  <2>2. ran' \subseteq Nat \X Phases \X Nat
    BY <1>6, <1>7 DEF RunCall, TypeOK
  <2> QED BY <1>7, <2>1, <2>2 DEF RunCall, TypeOK, stores, world, counters
<1>8. CASE RunJob
  <2>1. \A j \in NamedJobs : JobOutcome(j.state) \in {"pending", "success", "failure"}
    BY JobOutcomeTyped
  <2>2. rec' \in Reconciles
    BY <1>5, <1>8, <2>1 DEF RunJob
  <2>3. ran' \subseteq Nat \X Phases \X Nat
    BY <1>6, <1>8 DEF RunJob, TypeOK
  <2>4. [id |-> rec.fs.tr.id, idx |-> rec.fs.tr.idx, state |-> "Active"]
          \in [id : Nat, idx : Nat, state : JobStates]
    BY FieldsTyped DEF JobStates
  <2>5. jobs' \subseteq [id : Nat, idx : Nat, state : JobStates]
    BY <1>8, <2>4 DEF RunJob, TypeOK
  <2> QED BY <1>8, <2>2, <2>3, <2>5 DEF RunJob, TypeOK, stores, counters
<1> QED BY <1>1, <1>2, <1>3, <1>4, <1>7, <1>8

\* Switching and flushing keep TypeOK.
LEMMA TypeFlushSteps ==
    ASSUME TypeOK,
           \/ UpdateResources \/ SendKillSignal \/ SignalKillFails \/ CheckAcksFails
           \/ AwaitAcks \/ LeaveFlushing
    PROVE  TypeOK'
<1> USE CopyTyped
<1>1. CASE UpdateResources
  <2>1. GoToPhase(rec.fs, "FlushingConnections") \in FailoverService
    BY StepTyped DEF Phases
  <2>2. rec' \in Reconciles
    BY <1>1, <2>1, WriteTyped DEF UpdateResources, TypeOK, Thens
  <2>3. service' \in Address
    BY <1>1, FieldsTyped DEF UpdateResources, ServiceTarget
  <2> QED BY <1>1, <2>2, <2>3 DEF UpdateResources, TypeOK, stores, counters, history
<1>2. CASE SendKillSignal
  <2>1. PICK k \in Tokens :
          signal' = k /\ Write([rec.fs EXCEPT !.tr.kill = k, !.killed = "WaitingForAcks"], "requeue")
    BY <1>2 DEF SendKillSignal
  <2>2. [rec.fs EXCEPT !.tr.kill = k, !.killed = "WaitingForAcks"] \in FailoverService
    BY DEF FailoverService, Transition, KillReasons
  <2>3. rec' \in Reconciles
    BY <2>1, <2>2, WriteTyped DEF TypeOK, Thens
  <2> QED BY <1>2, <2>1, <2>3 DEF SendKillSignal, TypeOK, stores, counters, history
<1>3. ASSUME NEW k \in KillReasons PROVE [rec.fs EXCEPT !.killed = k] \in FailoverService
  BY <1>3 DEF FailoverService
<1>4. CASE SignalKillFails
  <2>1. rec' \in Reconciles
    BY <1>3, <1>4, WriteTyped DEF SignalKillFails, TypeOK, Thens, KillReasons
  <2> QED BY <1>4, <2>1 DEF SignalKillFails, TypeOK, stores, world, history
<1>5. CASE CheckAcksFails
  <2>1. rec' \in Reconciles /\ queued' \in BOOLEAN
    BY <1>3, <1>5, WriteTyped, ConstantsTyped DEF CheckAcksFails, TypeOK, Thens, KillReasons
  <2> QED BY <1>5, <2>1 DEF CheckAcksFails, TypeOK, world, history
<1>6. CASE AwaitAcks
  <2>1. rec' \in Reconciles
    BY <1>3, <1>6, WriteTyped DEF AwaitAcks, TypeOK, Thens, KillReasons
  <2> QED BY <1>6, <2>1 DEF AwaitAcks, TypeOK, stores, world, counters, history
<1>7. CASE LeaveFlushing
  <2>1. [rec.fs EXCEPT !.killed = FlushReason(rec.fs)] \in FailoverService
    BY <1>3 DEF FlushReason, KillReasons
  <2>2. GoToPhase([rec.fs EXCEPT !.killed = FlushReason(rec.fs)], "ExecutingPostActions")
          \in FailoverService
    BY <2>1, StepTyped DEF Phases
  <2> QED BY <1>7, <2>2, TypeWriteOnly DEF LeaveFlushing, Thens
<1> QED BY <1>1, <1>2, <1>4, <1>5, <1>6, <1>7

\* A reconcile that has begun to close its transition.
LEMMA ClosingTyped ==
    ASSUME NEW r \in Reconciles, NEW fs \in FailoverService, NEW id \in Nat
    PROVE  [r EXCEPT !.pc = "completeSync", !.ev = id, !.fs = fs] \in Reconciles
BY DEF Reconciles, PCs

\* The cleanup removes Jobs that are there, at most.
LEMMA CleanupTyped ==
    ASSUME TypeOK, NEW fs, Cleanup(fs)
    PROVE  /\ faults' \in Nat /\ signal' \in Tokens \cup {0} /\ acked' \in Tokens \cup {0}
           /\ jobs' \subseteq [id : Nat, idx : Nat, state : JobStates]
           /\ undeleted' \subseteq Nat \X Nat
<1>1. /\ faults \in Nat /\ signal \in Tokens \cup {0} /\ acked \in Tokens \cup {0}
      /\ jobs \subseteq [id : Nat, idx : Nat, state : JobStates]
  BY DEF TypeOK
<1>2. \E failed \in SUBSET RecordedJobs(fs) : CleanupTransitionJobs(fs, failed)
  BY DEF Cleanup
<1>3. PICK failed \in SUBSET RecordedJobs(fs) : CleanupTransitionJobs(fs, failed)
  BY <1>2
<1>4. RecordedJobs(fs) \subseteq jobs
  BY DEF RecordedJobs
<1>5. jobs' \subseteq [id : Nat, idx : Nat, state : JobStates] /\ undeleted' \subseteq Nat \X Nat
  BY <1>1, <1>3, <1>4 DEF CleanupTransitionJobs
<1>6. faults' \in Nat /\ signal' \in Tokens \cup {0} /\ acked' \in Tokens \cup {0}
  BY <1>1 DEF Cleanup, CleanupSignals
<1> QED BY <1>5, <1>6

\* completeTransition keeps TypeOK.
LEMMA TypeCompleteSteps ==
    ASSUME TypeOK,
           CompleteTransition \/ CompleteInSync \/ CompleteAdopt \/ CloseFailoverEvent
    PROVE  TypeOK'
<1> USE ConstantsTyped, CopyTyped
<1>1. CASE CompleteTransition
  <2> DEFINE n == IF rec.fs.tr.phase = "FlushingConnections"
                  THEN [rec.fs EXCEPT !.killed = FlushReason(rec.fs)] ELSE rec.fs
  <2>1. FlushReason(rec.fs) \in KillReasons
    BY DEF FlushReason, KillReasons
  <2>2. n \in FailoverService
    BY <2>1 DEF FailoverService
  <2>3. Completed(n) \in FailoverService
    BY <2>2, CompletedTyped
  <2>4. rec' = [rec EXCEPT !.pc = "completeSync", !.ev = rec.fs.tr.id, !.fs = Completed(n)]
    BY <1>1 DEF CompleteTransition
  <2> HIDE DEF n
  <2>5. rec' \in Reconciles
    <3>1. rec.fs.tr.id \in Nat
      BY FieldsTyped
    <3>2. rec \in Reconciles
      BY DEF TypeOK
    <3> QED BY <2>3, <2>4, <3>1, <3>2, ClosingTyped
  <2>6. /\ faults' \in Nat /\ signal' \in Tokens \cup {0} /\ acked' \in Tokens \cup {0}
        /\ jobs' \subseteq [id : Nat, idx : Nat, state : JobStates]
        /\ undeleted' \subseteq Nat \X Nat
    BY <1>1, CleanupTyped DEF CompleteTransition
  <2> QED BY <1>1, <2>5, <2>6 DEF CompleteTransition, TypeOK, stores
<1>2. CASE CompleteInSync
  BY <1>2, TypeWriteOnly DEF CompleteInSync, Thens
<1>3. CASE CompleteAdopt
  <2>1. Opposite(rec.fs.active) \in Direction
    BY DEF Opposite, Direction
  <2>2. obj' \in FailoverService
    BY <1>3, <2>1 DEF CompleteAdopt, TypeOK, FailoverService
  <2>3. PICK g \in RemoteGens :
          Write([Adopted(obj', rec.fs.lastKnown, g) EXCEPT !.actionFailed = FALSE,
                                                           !.tr = NoTransition], "succeedAdopted")
    BY <1>3 DEF CompleteAdopt
  <2>4. Adopted(obj', rec.fs.lastKnown, g) \in FailoverService
    BY <2>2, <2>3, AdoptedTyped, FieldsTyped, BoundAssumption
  <2>5. [Adopted(obj', rec.fs.lastKnown, g) EXCEPT !.actionFailed = FALSE, !.tr = NoTransition]
          \in FailoverService
    BY <2>4 DEF FailoverService
  <2>6. rec' \in Reconciles
    BY <2>3, <2>5, WriteTyped DEF TypeOK, Thens
  <2>7. changes' \in Nat /\ UNCHANGED <<cache, queued, world, faults, forces, edits, deletes, history>>
    <3>1. changes' = changes + 1 /\ UNCHANGED <<cache, queued, world, faults, forces, edits, deletes, history>>
      BY <1>3 DEF CompleteAdopt
    <3> QED BY <3>1 DEF TypeOK
  <2> QED BY <2>2, <2>6, <2>7 DEF TypeOK, world, history
<1>4. CASE CloseFailoverEvent
  <2>1. rec' \in Reconciles /\ queued' \in BOOLEAN
    BY <1>4 DEF CloseFailoverEvent, TypeOK, PCs
  <2>2. events' \in [1..MaxChanges -> Outcomes]
    BY <1>4, UpdateFailoverEventTyped DEF CloseFailoverEvent, TypeOK, Outcomes
  <2> QED BY <1>4, <2>1, <2>2 DEF CloseFailoverEvent, TypeOK, counters, history
<1> QED BY <1>1, <1>2, <1>3, <1>4

\* What others write to the object.
LEMMA OthersWriteTyped ==
    ASSUME TypeOK, NEW o \in FailoverService, OthersWrite(o)
    PROVE  obj' \in FailoverService /\ rec' \in Reconciles
BY DEF OthersWrite, TypeOK, Reconciles

\* The steps of operators, Jobs, agents and time keep TypeOK.
LEMMA TypeEnvironmentSteps ==
    ASSUME TypeOK,
           \/ FlipSpec \/ Annotate \/ EditHooks \/ EditAddresses \/ DeleteObject
           \/ FinishJob \/ AgentsAck \/ Expire
    PROVE  TypeOK'
<1>0. obj \in FailoverService
  BY DEF TypeOK
<1>1. CASE FlipSpec
  <2>1. [obj EXCEPT !.active = Opposite(@)] \in FailoverService
    BY <1>0 DEF Opposite, FailoverService, Direction
  <2>2. OthersWrite([obj EXCEPT !.active = Opposite(@)])
    BY <1>1 DEF FlipSpec
  <2>3. obj' \in FailoverService /\ rec' \in Reconciles
    BY <2>1, <2>2, OthersWriteTyped
  <2> QED BY <1>1, <2>2, <2>3 DEF FlipSpec, OthersWrite, TypeOK, world, history
<1>2. CASE Annotate
  <2>1. [obj EXCEPT !.force = TRUE] \in FailoverService
    BY <1>0 DEF FailoverService
  <2>2. OthersWrite([obj EXCEPT !.force = TRUE])
    BY <1>2 DEF Annotate
  <2>3. obj' \in FailoverService /\ rec' \in Reconciles
    BY <2>1, <2>2, OthersWriteTyped
  <2> QED BY <1>2, <2>2, <2>3 DEF Annotate, OthersWrite, TypeOK, world, history
<1>3. CASE EditHooks
  <2>1. PICK d \in Direction, h \in HookChoices : OthersWrite([obj EXCEPT !.hooks[d] = h])
    BY <1>3 DEF EditHooks
  <2>2. [obj EXCEPT !.hooks[d] = h] \in FailoverService
    BY <1>0 DEF FailoverService
  <2>3. obj' \in FailoverService /\ rec' \in Reconciles
    BY <2>1, <2>2, OthersWriteTyped
  <2>4. edited' \in BOOLEAN
    <3>1. edited' = TRUE \/ edited' = FALSE
      BY <1>3 DEF EditHooks, TypeOK
    <3> QED BY <3>1
  <2> QED BY <1>3, <2>1, <2>3, <2>4 DEF EditHooks, OthersWrite, TypeOK, world
<1>4. CASE EditAddresses
  <2>1. PICK a \in AddrChoices : OthersWrite([obj EXCEPT !.addr = a])
    BY <1>4 DEF EditAddresses
  <2>2. [obj EXCEPT !.addr = a] \in FailoverService
    BY <1>0 DEF FailoverService
  <2>3. obj' \in FailoverService /\ rec' \in Reconciles
    BY <2>1, <2>2, OthersWriteTyped
  <2> QED BY <1>4, <2>1, <2>3 DEF EditAddresses, OthersWrite, TypeOK, world, history
<1>5. CASE DeleteObject
  <2>1. [obj EXCEPT !.del = TRUE] \in FailoverService
    BY <1>0 DEF FailoverService
  <2>2. OthersWrite([obj EXCEPT !.del = TRUE])
    BY <1>5 DEF DeleteObject
  <2>3. obj' \in FailoverService /\ rec' \in Reconciles
    BY <2>1, <2>2, OthersWriteTyped
  <2> QED BY <1>5, <2>2, <2>3 DEF DeleteObject, OthersWrite, TypeOK, world, history
<1>6. CASE FinishJob
  <2>1. PICK j \in jobs, t \in {"Complete", "Failed"} :
          jobs' = (jobs \ {j}) \cup {[j EXCEPT !.state = t]}
    BY <1>6 DEF FinishJob
  <2>2. [j EXCEPT !.state = t] \in [id : Nat, idx : Nat, state : JobStates]
    BY <2>1 DEF TypeOK, JobStates
  <2>3. jobs' \subseteq [id : Nat, idx : Nat, state : JobStates]
    BY <2>1, <2>2 DEF TypeOK
  <2> QED BY <1>6, <2>3 DEF FinishJob, TypeOK, counters, history
<1>7. CASE AgentsAck
  BY <1>7 DEF AgentsAck, TypeOK, stores, counters, history
<1>8. CASE Expire
  BY <1>8 DEF Expire, TypeOK, stores, counters, history
<1> QED BY <1>1, <1>2, <1>3, <1>4, <1>5, <1>6, <1>7, <1>8

\* Every step keeps TypeOK.
LEMMA TypeNext == TypeOK /\ [Next]_vars => TypeOK'
<1> SUFFICES ASSUME TypeOK, [Next]_vars PROVE TypeOK'
  OBVIOUS
<1>1. CASE ReconcileStep
  BY <1>1, TypeQueueSteps, TypeMetadataSteps, TypeIdleSteps, TypeActionSteps, TypeFlushSteps,
     TypeCompleteSteps DEF ReconcileStep
<1>2. CASE Environment
  BY <1>2, TypeQueueSteps, TypeIdleSteps, TypeFlushSteps, TypeEnvironmentSteps DEF Environment
<1>3. CASE UNCHANGED vars
  BY <1>3 DEF TypeOK, vars, stores, world, counters, history
<1> QED BY <1>1, <1>2, <1>3 DEF Next

\* Every variable keeps its type in every behaviour of the controller, for
\* all hooks, addresses, bounds and remote generations.
THEOREM TypeCorrect == Spec => []TypeOK
BY TypeInit, TypeNext, PTL DEF Spec

=============================================================================
