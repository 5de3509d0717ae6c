------------------------- MODULE FailoverTransition -------------------------
(***************************************************************************)
(* The transition pipeline of one cluster's controller                     *)
(* (internal/controller/failoverservice_controller.go): one                *)
(* FailoverService, the reconcile loop that drives it, and everything the  *)
(* loop touches from outside.                                              *)
(*                                                                         *)
(* A reconcile reads the object from the informer cache, which may lag the *)
(* API server, works on that in-memory copy, has effects on the outside    *)
(* (Service, Jobs, kill signal, FailoverEvent) and writes the copy back.   *)
(* A write from a copy that is not current is refused (resourceVersion     *)
(* conflict).  Each access to the API server is a step of its own, so that *)
(* the operator, the other cluster, a Job or a crash may come in between.  *)
(***************************************************************************)
EXTENDS Integers, Sequences, FiniteSets

CONSTANTS
    HookChoices,   \* values onFailover / onFailback may have: [pre, post]
    AddrChoices,   \* address pairs the spec may have: [Direction -> Address]
    Address,       \* Service targets
    IPAddress,     \* the targets net.ParseIP accepts (kill signals apply)
    InitHooks,     \* the hooks of the object when it is created
    InitAddr,      \* the addresses of the object when it is created
    RemoteGens,    \* activeGenerations a winning remote cluster may show
    MaxRetries,    \* actionMaxRetries
    MaxChanges,    \* bound: changes of spec.failoverActive, by anyone
    MaxForce,      \* bound: force-advance annotations set by the operator
    MaxEdits,      \* bound: edits of hooks or addresses by the operator
    MaxDeletes,    \* bound (0 or 1): deletion of the object
    MaxFaults      \* bound: crashes and failed API calls

Direction    == {"failover", "failback"}
Phases       == {"Idle", "ExecutingPreActions", "UpdatingResources",
                 "FlushingConnections", "ExecutingPostActions"}
ActionKinds  == {"http", "job", "scale", "scaleAndWait", "waitReady", "waitRemote"}
TimedKinds   == {"scaleAndWait", "waitReady", "waitRemote"}   \* have a deadline
ActionStatus == {"Pending", "Running", "Succeeded", "Failed", "Skipped"}
Outcomes     == {"None", "Created", "InProgress", "Failed", "ForceAdvanced",
                 "Succeeded"}
KillReasons  == {"None", "SignalFailed", "WaitingForAcks", "AckTimeout",
                 "AllNodesAcked", "Skipped"}
JobStates    == {"Active", "Complete", "Failed"}
\* 0 is "no token"; six tokens always leave one that nothing refers to.
Tokens       == 1..6

Action == [kind : ActionKinds, ignoreFailure : BOOLEAN]
Hooks  == [pre : Seq(Action), post : Seq(Action)]
Result == [status : ActionStatus, retries : Nat, job : BOOLEAN]

ASSUME HooksAssumption == HookChoices \subseteq Hooks /\ InitHooks \in [Direction -> HookChoices]
ASSUME AddrAssumption  == /\ AddrChoices \subseteq [Direction -> Address]
                          /\ InitAddr \in AddrChoices
                          /\ IPAddress \subseteq Address
ASSUME BoundAssumption == /\ RemoteGens \subseteq Nat
                          /\ MaxRetries \in Nat /\ MaxChanges \in Nat
                          /\ MaxForce \in Nat /\ MaxEdits \in Nat
                          /\ MaxDeletes \in Nat /\ MaxFaults \in Nat

\* status.transition; phase "Idle" stands for a nil transition.
Transition == [phase : Phases, dir : Direction, id : Nat, idx : Nat,
               pre : Seq(Result), post : Seq(Result),
               old : Address, new : Address, kill : Tokens \cup {0}]

\* The FailoverService object: metadata, spec and the status the code reads back.
FailoverService ==
    [fin : BOOLEAN, del : BOOLEAN, force : BOOLEAN,
     active : Direction, hooks : [Direction -> HookChoices], addr : AddrChoices,
     lastKnown : Direction \cup {"unset"}, gen : Nat, actionFailed : BOOLEAN,
     killed : KillReasons, tr : Transition]

PCs   == {"off", "top", "write", "create", "unannotate", "finalize",
          "steadySync", "completeSync", "succeed", "begin"}
Thens == {"none", "requeue", "halt", "create", "unannotate", "succeed",
          "succeedAdopted", "adopted"}

VARIABLES
    obj,       \* the FailoverService as the API server holds it
    cache,     \* the version of it the informer cache holds
    rec,       \* the reconcile in flight: where it is and its in-memory copy
    queued,    \* the work queue holds the object's key
    service,   \* the address the managed Service routes to, "none" before it exists
    jobs,      \* the Jobs that exist: [id, idx, state]; id and idx make the name
    events,    \* outcome of the FailoverEvent of each transition
    signal,    \* token of the kill signal in the ConfigMap, 0 if none
    acked,     \* token all agents have acknowledged, 0 if none
    expired,   \* the deadline of the current wait has passed
    begun,     \* number of transitions persisted so far (unique transitionIDs)
    faults, changes, forces, edits, deletes,   \* counters the bounds apply to
    ran,       \* history: actions really carried out, <<id, phase, idx>>
    edited,    \* history: hooks were edited during the current transition
    kept,      \* history: how many leading pre-actions of the current transition
               \* no edit has taken out of the hooks since it began
    undeleted  \* history: names of the Jobs the last completion failed to delete

stores   == <<obj, cache, queued>>
world    == <<service, jobs, events, signal, acked, expired>>
counters == <<faults, changes, forces, edits, deletes>>
history  == <<begun, ran, edited, kept, undeleted>>
vars     == <<stores, rec, world, counters, history>>

-----------------------------------------------------------------------------
(* The object *)

Opposite(d) == IF d = "failover" THEN "failback" ELSE "failover"

NoTransition ==
    [phase |-> "Idle", dir |-> "failback", id |-> 0, idx |-> 0, pre |-> <<>>,
     post |-> <<>>, old |-> InitAddr["failback"], new |-> InitAddr["failback"], kill |-> 0]

NewObject ==
    [fin |-> FALSE, del |-> FALSE, force |-> FALSE, active |-> "failback",
     hooks |-> InitHooks, addr |-> InitAddr, lastKnown |-> "unset", gen |-> 0,
     actionFailed |-> FALSE, killed |-> "None", tr |-> NoTransition]

NoReconcile == [pc |-> "off", fs |-> NewObject, fresh |-> FALSE, then |-> "none", ev |-> 0]

\* The object is gone once its finalizer is removed after a delete.
Gone(fs) == fs.del /\ ~fs.fin

InFlight(fs) == fs.tr.phase # "Idle"

\* getTransitionHooks: the hooks of this cluster's role for the transition.
TransitionHooks(fs) == fs.hooks[fs.tr.dir]

PrePhase(fs)       == fs.tr.phase = "ExecutingPreActions"
ActionPhase(fs)    == fs.tr.phase \in {"ExecutingPreActions", "ExecutingPostActions"}
PhaseActions(fs)   == IF PrePhase(fs) THEN TransitionHooks(fs).pre ELSE TransitionHooks(fs).post
PhaseResults(fs)   == IF PrePhase(fs) THEN fs.tr.pre ELSE fs.tr.post
CurrentAction(fs)  == PhaseActions(fs)[fs.tr.idx + 1]
CurrentResult(fs)  == PhaseResults(fs)[fs.tr.idx + 1]

\* Variant: the last action of a phase is never run.
PhaseDone_OffByOne(fs) == \/ fs.tr.idx + 1 >= Len(PhaseActions(fs))
                          \/ fs.tr.idx >= Len(PhaseResults(fs))

\* Nothing is left to run: all actions are done, or the operator edited the
\* hooks and there is no result entry for the next one.
PhaseDone(fs) == \/ fs.tr.idx >= Len(PhaseActions(fs))
                 \/ fs.tr.idx >= Len(PhaseResults(fs))

AtAction(fs) == ActionPhase(fs) /\ ~PhaseDone(fs)

SetResult(fs, r) ==
    IF PrePhase(fs) THEN [fs EXCEPT !.tr.pre[fs.tr.idx + 1] = r]
                    ELSE [fs EXCEPT !.tr.post[fs.tr.idx + 1] = r]

\* Variant: the index moves back.
NextAction_Back(fs) == [fs EXCEPT !.tr.idx = @ - 1]

NextAction(fs) == [fs EXCEPT !.tr.idx = @ + 1]
GoToPhase(fs, phase) == [fs EXCEPT !.tr.phase = phase, !.tr.idx = 0]

\* makeActionResults
PendingResults(acts) ==
    [i \in 1..Len(acts) |-> [status |-> "Pending", retries |-> 0, job |-> FALSE]]

\* What beginTransition stores: direction, addresses and result lists are
\* taken from the spec now and not looked at again.
Begun(fs) ==
    LET h == fs.hooks[fs.active]
    IN  [fs EXCEPT !.tr =
          [phase |-> IF Len(h.pre) > 0 THEN "ExecutingPreActions" ELSE "UpdatingResources",
           dir |-> fs.active, id |-> begun + 1, idx |-> 0,
           pre |-> PendingResults(h.pre), post |-> PendingResults(h.post),
           old |-> fs.addr[Opposite(fs.active)], new |-> fs.addr[fs.active], kill |-> 0]]

\* completeTransition on the in-memory status, up to the remote sync.
Completed(fs) ==
    [fs EXCEPT !.lastKnown = fs.tr.dir, !.gen = @ + 1, !.actionFailed = FALSE,
               !.tr = NoTransition]

\* Variant: the adopted direction becomes the baseline at once.
Adopted_NoBaseline(fs, was, g) == [fs EXCEPT !.lastKnown = fs.active, !.gen = g]

\* applyRemoteWinnerState: the direction this cluster was in stays in
\* lastKnown, so that the change is seen as a transition.
Adopted(fs, was, g) == [fs EXCEPT !.lastKnown = was, !.gen = g]

\* Variant: forcing the update of resources also passes over the flush.
ForceAdvanced_SkipsFlush(fs) ==
    LET next == CASE ActionPhase(fs) /\ fs.tr.idx < Len(PhaseResults(fs)) ->
                       NextAction(SetResult(fs, [CurrentResult(fs) EXCEPT !.status = "Skipped"]))
                  [] fs.tr.phase \in {"UpdatingResources", "FlushingConnections"} ->
                       GoToPhase(fs, "ExecutingPostActions")
                  [] OTHER -> fs
    IN  [next EXCEPT !.actionFailed = FALSE]

\* handleForceAdvance: skip the current action, or the current phase.
ForceAdvanced(fs) ==
    LET next == CASE ActionPhase(fs) /\ fs.tr.idx < Len(PhaseResults(fs)) ->
                       NextAction(SetResult(fs, [CurrentResult(fs) EXCEPT !.status = "Skipped"]))
                  [] fs.tr.phase = "UpdatingResources"   -> GoToPhase(fs, "FlushingConnections")
                  [] fs.tr.phase = "FlushingConnections" -> GoToPhase(fs, "ExecutingPostActions")
                  [] OTHER -> fs
    IN  [next EXCEPT !.actionFailed = FALSE]

\* updateFailoverEvent's table of allowed outcome changes.
EventOutcome(was, now) ==
    CASE was \in {"Created", "InProgress"}                  -> now
      [] was = "Failed" /\ now = "ForceAdvanced"            -> now
      [] was = "ForceAdvanced" /\ now = "Failed"            -> now
      [] OTHER                                              -> was

\* The update is best effort: a failed read or write is only logged.
UpdateFailoverEvent(id, outcome) ==
    \/ events' = events
    \/ events' = [events EXCEPT ![id] = EventOutcome(@, outcome)]

\* cleanupTransitionJobs deletes the Jobs named in the results of fs.
RecordedJobs(fs) ==
    {j \in jobs : /\ j.id = fs.tr.id
                  /\ \/ j.idx < Len(fs.tr.pre)  /\ fs.tr.pre[j.idx + 1].job
                     \/ j.idx < Len(fs.tr.post) /\ fs.tr.post[j.idx + 1].job}

\* What the controller-level timeouts are measured from: startedAt of a
\* waiting action, signaledAt of the kill signal.
Timer(fs) ==
    CASE AtAction(fs) -> <<fs.tr.id, fs.tr.phase, fs.tr.idx, CurrentResult(fs).status>>
      [] OTHER -> <<fs.tr.id, fs.tr.phase, fs.tr.kill>>

TimerRunning(fs) ==
    \/ AtAction(fs) /\ CurrentAction(fs).kind \in TimedKinds /\ CurrentResult(fs).status = "Running"
    \/ fs.tr.phase = "FlushingConnections" /\ fs.tr.kill # 0

-----------------------------------------------------------------------------
Init ==
    /\ obj = NewObject /\ cache = NewObject
    /\ rec = NoReconcile /\ queued = TRUE
    /\ service = "none"
    /\ jobs = {} /\ events = [i \in 1..MaxChanges |-> "None"]
    /\ signal = 0 /\ acked = 0 /\ expired = FALSE
    /\ begun = 0 /\ faults = 0 /\ changes = 0 /\ forces = 0 /\ edits = 0 /\ deletes = 0
    /\ ran = {} /\ edited = FALSE /\ kept = 0 /\ undeleted = {}

-----------------------------------------------------------------------------
(* Steps of the work queue, the informer and the API server *)

\* Reconcile takes the key off the queue and reads the cached object.
StartReconcile ==
    /\ rec.pc = "off" /\ queued
    /\ queued' = FALSE
    /\ rec' = IF Gone(cache) THEN NoReconcile
              ELSE [pc |-> "top", fs |-> cache, fresh |-> (cache = obj), then |-> "none", ev |-> 0]
    /\ UNCHANGED <<obj, cache, world, counters, history>>

\* A watch event reaches the informer: the cache catches up, the key is queued.
SyncCache ==
    /\ cache # obj
    /\ cache' = obj /\ queued' = TRUE
    /\ UNCHANGED <<obj, rec, world, counters, history>>

\* An API call fails or the process dies: the in-memory copy is lost.  The
\* key is queued again by the rate limiter or by the list after a restart.
Abort ==
    /\ rec.pc # "off" /\ faults < MaxFaults
    /\ faults' = faults + 1
    /\ rec' = NoReconcile /\ queued' = TRUE
    /\ UNCHANGED <<obj, cache, world, changes, forces, edits, deletes, history>>

\* A write from a copy that is no longer current is refused.
Conflict ==
    /\ \/ rec.pc \in {"write", "unannotate", "finalize", "steadySync", "completeSync"}
       \/ rec.pc = "top" /\ ~rec.fs.fin
    /\ ~rec.fresh
    /\ rec' = NoReconcile /\ queued' = TRUE
    /\ UNCHANGED <<obj, cache, world, counters, history>>

\* Where the reconcile goes after its status write.
AfterWrite ==
    CASE rec.then \in {"requeue", "halt"} -> NoReconcile
      [] rec.then = "create"     -> [rec EXCEPT !.pc = "create"]
      [] rec.then = "unannotate" -> [rec EXCEPT !.pc = "unannotate"]
      [] rec.then \in {"succeed", "succeedAdopted"} -> [rec EXCEPT !.pc = "succeed"]
      [] rec.then = "adopted"    -> IF rec.fs.lastKnown # rec.fs.active
                                    THEN [rec EXCEPT !.pc = "begin"] ELSE NoReconcile
      [] OTHER -> NoReconcile

\* Variant: a copy that is not current is written as well.
WriteStatus_Any ==
    /\ rec.pc = "write"
    /\ obj' = rec.fs
    /\ rec' = AfterWrite
    /\ queued' = (queued \/ (AfterWrite = NoReconcile /\ rec.then # "halt"))
    /\ expired' = (expired /\ Timer(rec.fs) = Timer(obj))
    /\ begun' = IF rec.then = "create" THEN begun + 1 ELSE begun
    /\ edited' = (edited /\ rec.then # "create")
    /\ kept' = IF rec.then = "create" THEN Len(rec.fs.tr.pre) ELSE kept
    /\ UNCHANGED <<cache, service, jobs, events, signal, acked, counters, ran, undeleted>>

\* r.Status().Update with a current copy.
WriteStatus ==
    /\ rec.pc = "write" /\ rec.fresh
    /\ obj' = rec.fs
    /\ rec' = AfterWrite
    /\ queued' = (queued \/ (AfterWrite = NoReconcile /\ rec.then # "halt"))
    /\ expired' = (expired /\ Timer(rec.fs) = Timer(obj))
    /\ begun' = IF rec.then = "create" THEN begun + 1 ELSE begun
    /\ edited' = (edited /\ rec.then # "create")
    /\ kept' = IF rec.then = "create" THEN Len(rec.fs.tr.pre) ELSE kept
    /\ UNCHANGED <<cache, service, jobs, events, signal, acked, counters, ran, undeleted>>

\* The reconcile computes fs and goes on to write it.
Write(fs, then) == rec' = [rec EXCEPT !.pc = "write", !.fs = fs, !.then = then]

-----------------------------------------------------------------------------
(* Reconcile: deletion, metadata, force-advance *)

\* CleanupSignals removes the kill and ACK keys; an error is only logged.
CleanupSignals ==
    \/ signal' = 0 /\ acked' = 0 /\ faults' = faults
    \/ faults < MaxFaults /\ faults' = faults + 1 /\ UNCHANGED <<signal, acked>>

\* Deletion: the kill signal is cleaned up before the finalizer goes.
ReconcileDeletion ==
    /\ rec.pc = "top" /\ rec.fs.del
    /\ CleanupSignals
    /\ rec' = [rec EXCEPT !.pc = "finalize"]
    /\ UNCHANGED <<stores, service, jobs, events, expired, changes, forces, edits, deletes, history>>

RemoveFinalizer ==
    /\ rec.pc = "finalize" /\ rec.fresh
    /\ obj' = [rec.fs EXCEPT !.fin = FALSE]
    /\ rec' = NoReconcile
    /\ UNCHANGED <<cache, queued, world, counters, history>>

\* The finalizer and the cluster-id annotation are added; the reconcile goes on.
EnsureMetadata ==
    /\ rec.pc = "top" /\ ~rec.fs.del /\ ~rec.fs.fin /\ rec.fresh
    /\ obj' = [rec.fs EXCEPT !.fin = TRUE]
    /\ rec' = [rec EXCEPT !.fs.fin = TRUE]
    /\ UNCHANGED <<cache, queued, world, counters, history>>

Ready == rec.pc = "top" /\ ~rec.fs.del /\ rec.fs.fin

\* The status change is written first, the annotation removed afterwards.
ForceAdvance ==
    /\ Ready /\ rec.fs.force
    /\ IF InFlight(rec.fs)
       THEN /\ UpdateFailoverEvent(rec.fs.tr.id, "ForceAdvanced")
            /\ Write(ForceAdvanced(rec.fs), "unannotate")
       ELSE events' = events /\ rec' = [rec EXCEPT !.pc = "unannotate"]
    /\ UNCHANGED <<stores, service, jobs, signal, acked, expired, counters, history>>

RemoveAnnotation ==
    /\ rec.pc = "unannotate" /\ rec.fresh
    /\ obj' = [rec.fs EXCEPT !.force = FALSE]
    /\ rec' = NoReconcile /\ queued' = TRUE
    /\ UNCHANGED <<cache, world, counters, history>>

\* The reconcile has come to the dispatch on the transition phase.
Dispatch(phase) == Ready /\ ~rec.fs.force /\ rec.fs.tr.phase = phase

-----------------------------------------------------------------------------
(* Idle *)

TransitionPending(fs) == fs.lastKnown \notin {"unset", fs.active}

\* reconcileIdle looks for a transition before it touches the Service.
DetectTransition ==
    /\ Dispatch("Idle") /\ TransitionPending(rec.fs)
    /\ Write(Begun(rec.fs), "create")
    /\ UNCHANGED <<stores, world, counters, history>>

\* The FailoverEvent is created once the transition is persisted; its status
\* is a second call.
CreateFailoverEvent ==
    /\ rec.pc = "create"
    /\ \E o \in {"None", "Created", "InProgress"} :
         events' = [events EXCEPT ![rec.fs.tr.id] = o]
    /\ rec' = NoReconcile /\ queued' = TRUE
    /\ UNCHANGED <<obj, cache, service, jobs, signal, acked, expired, counters, history>>

\* Where the managed Service is to point: the spec's address, or the snapshot.
ServiceTarget(fs) == IF InFlight(fs) THEN fs.tr.new ELSE fs.addr[fs.active]

\* An ExternalName Service does not become a ClusterIP Service, or back, by
\* an update: it is deleted and created.
Recreated(address) ==
    service # "none" /\ ~(service \in IPAddress <=> address \in IPAddress)

\* A failure or a crash between the two leaves no Service behind.
RecreateFails ==
    /\ \/ Dispatch("Idle") /\ ~TransitionPending(rec.fs)
       \/ Dispatch("UpdatingResources")
    /\ Recreated(ServiceTarget(rec.fs))
    /\ faults < MaxFaults /\ faults' = faults + 1
    /\ service' = "none"
    /\ rec' = NoReconcile /\ queued' = TRUE
    /\ UNCHANGED <<obj, cache, jobs, events, signal, acked, expired,
                   changes, forces, edits, deletes, history>>

\* No transition pending: the Service is brought in line with the spec.
ReconcileIdleService ==
    /\ Dispatch("Idle") /\ ~TransitionPending(rec.fs)
    /\ service' = ServiceTarget(rec.fs)
    /\ rec' = [rec EXCEPT !.pc = "steadySync"]
    /\ UNCHANGED <<stores, jobs, events, signal, acked, expired, counters, history>>

\* reconcileSteadyState when the remote agrees, was overruled or is unreachable.
SteadyState ==
    /\ rec.pc = "steadySync"
    /\ Write([rec.fs EXCEPT !.lastKnown = rec.fs.active], "requeue")
    /\ UNCHANGED <<stores, world, counters, history>>

\* Sync: the remote, if it disagrees, wins with a higher activeGeneration, and
\* may win with an equal one (specChangeTime, then cluster ID).
RemoteMayWin(fs, g) == g >= fs.gen

\* The remote wins in steady state: its spec value is written first, its
\* generation with the status write that follows.
SteadyAdopt ==
    /\ rec.pc = "steadySync" /\ rec.fresh /\ changes < MaxChanges
    /\ obj' = [obj EXCEPT !.active = Opposite(rec.fs.active)]
    /\ \E g \in RemoteGens :
         RemoteMayWin(rec.fs, g) /\ Write(Adopted(obj', rec.fs.active, g), "adopted")
    /\ changes' = changes + 1
    /\ UNCHANGED <<cache, queued, world, faults, forces, edits, deletes, history>>

\* beginTransition after an adoption, in the same reconcile.
BeginRemoteSync ==
    /\ rec.pc = "begin"
    /\ Write(Begun(rec.fs), "create")
    /\ UNCHANGED <<stores, world, counters, history>>

-----------------------------------------------------------------------------
(* ExecutingPreActions and ExecutingPostActions *)

\* The reconcile has come to an action that is not finished with.
DispatchAction(status) ==
    /\ Ready /\ ~rec.fs.force
    /\ AtAction(rec.fs) /\ CurrentResult(rec.fs).status = status

WithStatus(fs, status) == SetResult(fs, [CurrentResult(fs) EXCEPT !.status = status])

\* All pre-actions are done.
LeavePreActions ==
    /\ Dispatch("ExecutingPreActions") /\ PhaseDone(rec.fs)
    /\ Write(GoToPhase(rec.fs, "UpdatingResources"), "requeue")
    /\ UNCHANGED <<stores, world, counters, history>>

ThisAction == <<rec.fs.tr.id, rec.fs.tr.phase, rec.fs.tr.idx>>

\* Variant: the action is carried out in the reconcile that marks it Running.
MarkRunning_AndRun ==
    /\ DispatchAction("Pending")
    /\ Write(WithStatus(rec.fs, "Running"), "requeue")
    /\ ran' = ran \cup {ThisAction}
    /\ UNCHANGED <<stores, world, counters, begun, edited, kept, undeleted>>

\* Running is persisted before the action has any effect.
MarkRunning ==
    /\ DispatchAction("Pending")
    /\ Write(WithStatus(rec.fs, "Running"), "requeue")
    /\ UNCHANGED <<stores, world, counters, history>>

\* Finished actions are passed over; a failure that is to be ignored is Skipped.
PassAction ==
    /\ \E s \in {"Succeeded", "Skipped", "Failed"} :
         DispatchAction(s) /\ (s = "Failed" => CurrentAction(rec.fs).ignoreFailure)
    /\ Write(NextAction(IF CurrentResult(rec.fs).status = "Failed"
                        THEN WithStatus(rec.fs, "Skipped") ELSE rec.fs), "requeue")
    /\ UNCHANGED <<stores, world, counters, history>>

\* Any other failure halts the transition: no requeue.
HaltOnFailure ==
    /\ DispatchAction("Failed") /\ ~CurrentAction(rec.fs).ignoreFailure
    /\ UpdateFailoverEvent(rec.fs.tr.id, "Failed")
    /\ Write([rec.fs EXCEPT !.actionFailed = TRUE], "halt")
    /\ UNCHANGED <<stores, service, jobs, signal, acked, expired, counters, history>>

\* Deadline of waitReady, scale with waitReady, and waitRemote.
TimeoutAction ==
    /\ DispatchAction("Running") /\ CurrentAction(rec.fs).kind \in TimedKinds /\ expired
    /\ Write(WithStatus(rec.fs, "Failed"), "requeue")
    /\ UNCHANGED <<stores, world, counters, history>>

\* runAction's bookkeeping for an outcome; job tells whether a Job name came back.
RecordOutcome(o, job) ==
    LET r == CurrentResult(rec.fs)
        retried == [r EXCEPT !.retries = @ + 1]
    IN  Write(CASE o = "error" /\ r.retries < MaxRetries -> SetResult(rec.fs, retried)
                [] o = "error" /\ r.retries >= MaxRetries ->
                     SetResult(rec.fs, [retried EXCEPT !.status = "Failed"])
                [] o = "pending" -> SetResult(rec.fs, [r EXCEPT !.job = job])
                [] o = "success" ->
                     NextAction(SetResult(rec.fs, [r EXCEPT !.job = job, !.status = "Succeeded"]))
                [] o = "failure" -> SetResult(rec.fs, [r EXCEPT !.job = job, !.status = "Failed"]),
              "requeue")

\* What an executor can return: an error (retried), or a result that is
\* pending, a success or a failure.  HTTP: transport error, 2xx, any other answer.
HTTPOutcomes == {"error", "success", "failure"}

\* The workload is ready, not yet ready, or not found.
WaitReadyOutcomes == {"error", "pending", "success", "failure"}

\* The replicas are set; with waitReady the result is that of WaitReady.
ScaleOutcomes(waitReady) ==
    {"error", "failure"} \cup (IF waitReady THEN WaitReadyOutcomes ELSE {"success"})

\* Trouble with the remote is never an error: it is pending until the deadline.
WaitRemoteOutcomes == {"pending", "success", "failure"}

\* MultiExecutor's dispatch, Jobs apart.
CallOutcomes(kind) ==
    CASE kind = "http"         -> HTTPOutcomes
      [] kind = "scale"        -> ScaleOutcomes(FALSE)
      [] kind = "scaleAndWait" -> ScaleOutcomes(TRUE)
      [] kind = "waitReady"    -> WaitReadyOutcomes
      [] kind = "waitRemote"   -> WaitRemoteOutcomes
      [] OTHER                 -> {}

\* One call of an executor.
RunCall ==
    /\ DispatchAction("Running")
    /\ ~(CurrentAction(rec.fs).kind \in TimedKinds /\ expired)
    /\ \E o \in CallOutcomes(CurrentAction(rec.fs).kind) : RecordOutcome(o, FALSE)
    /\ ran' = ran \cup {ThisAction}
    /\ UNCHANGED <<stores, world, counters, begun, edited, kept, undeleted>>

JobOutcome(state) == CASE state = "Active" -> "pending"
                       [] state = "Complete" -> "success"
                       [] state = "Failed" -> "failure"

\* The Job's name is made from the transition id and the action's index.
NamedJobs == {j \in jobs : j.id = rec.fs.tr.id /\ j.idx = rec.fs.tr.idx}

\* JobExecutor: create the Job unless one of that name exists, else look at it.
RunJob ==
    /\ DispatchAction("Running") /\ CurrentAction(rec.fs).kind = "job"
    /\ \/ /\ NamedJobs = {}
          /\ jobs' = jobs \cup {[id |-> rec.fs.tr.id, idx |-> rec.fs.tr.idx, state |-> "Active"]}
          /\ ran' = ran \cup {ThisAction}
          /\ RecordOutcome("pending", TRUE)
       \/ /\ \E j \in NamedJobs : RecordOutcome(JobOutcome(j.state), TRUE)
          /\ UNCHANGED <<jobs, ran>>
       \/ RecordOutcome("error", FALSE) /\ UNCHANGED <<jobs, ran>>
    /\ UNCHANGED <<stores, service, events, signal, acked, expired, counters,
                   begun, edited, kept, undeleted>>

-----------------------------------------------------------------------------
(* UpdatingResources and FlushingConnections *)

\* Variant: the address is resolved from the spec instead of the snapshot.
UpdateResources_FromSpec ==
    /\ Dispatch("UpdatingResources")
    /\ service' = rec.fs.addr[rec.fs.active]
    /\ Write(GoToPhase(rec.fs, "FlushingConnections"), "requeue")
    /\ UNCHANGED <<stores, jobs, events, signal, acked, expired, counters, history>>

\* The Service goes to the snapshotted address.
UpdateResources ==
    /\ Dispatch("UpdatingResources")
    /\ service' = ServiceTarget(rec.fs)
    /\ Write(GoToPhase(rec.fs, "FlushingConnections"), "requeue")
    /\ UNCHANGED <<stores, jobs, events, signal, acked, expired, counters, history>>

NeedsKill(fs) == fs.tr.old \in IPAddress

\* killToken: unique in the code; here, one that nothing refers to any more.
NewToken(k) ==
    LET used == {signal, acked, obj.tr.kill, cache.tr.kill, rec.fs.tr.kill}
    IN  k \in Tokens \ used /\ \A j \in Tokens \ used : k <= j

\* SignalKill writes the ConfigMap before the token is persisted.
SendKillSignal ==
    /\ Dispatch("FlushingConnections") /\ NeedsKill(rec.fs) /\ rec.fs.tr.kill = 0
    /\ \E k \in Tokens :
         /\ NewToken(k) /\ signal' = k
         /\ Write([rec.fs EXCEPT !.tr.kill = k, !.killed = "WaitingForAcks"], "requeue")
    /\ UNCHANGED <<stores, service, jobs, events, acked, expired, counters, history>>

SignalKillFails ==
    /\ Dispatch("FlushingConnections") /\ NeedsKill(rec.fs) /\ rec.fs.tr.kill = 0
    /\ faults < MaxFaults /\ faults' = faults + 1
    /\ Write([rec.fs EXCEPT !.killed = "SignalFailed"], "requeue")
    /\ UNCHANGED <<stores, world, changes, forces, edits, deletes, history>>

\* CheckAcks cannot read the ConfigMap: retry, or halt past the deadline.
CheckAcksFails ==
    /\ Dispatch("FlushingConnections") /\ NeedsKill(rec.fs) /\ rec.fs.tr.kill # 0
    /\ faults < MaxFaults /\ faults' = faults + 1
    /\ IF expired THEN Write([rec.fs EXCEPT !.killed = "AckTimeout"], "halt") /\ queued' = queued
                  ELSE rec' = NoReconcile /\ queued' = TRUE
    /\ UNCHANGED <<obj, cache, world, changes, forces, edits, deletes, history>>

\* Variant: a poll that finds ACKs missing does not ask for another one.
AwaitAcks_NoPoll ==
    /\ Dispatch("FlushingConnections") /\ NeedsKill(rec.fs)
    /\ rec.fs.tr.kill # 0 /\ acked # rec.fs.tr.kill
    /\ IF expired THEN Write([rec.fs EXCEPT !.killed = "AckTimeout"], "halt")
                  ELSE Write(rec.fs, "halt")
    /\ UNCHANGED <<stores, world, counters, history>>

\* ACKs are still missing: poll again, or halt once the deadline has passed.
AwaitAcks ==
    /\ Dispatch("FlushingConnections") /\ NeedsKill(rec.fs)
    /\ rec.fs.tr.kill # 0 /\ acked # rec.fs.tr.kill
    /\ IF expired THEN Write([rec.fs EXCEPT !.killed = "AckTimeout"], "halt")
                  ELSE Write(rec.fs, "requeue")
    /\ UNCHANGED <<stores, world, counters, history>>

\* Flushing is over: not applicable, no agents ready, or all nodes have ACKed.
FlushReason(fs) ==
    CASE ~NeedsKill(fs) \/ fs.tr.kill = 0                    -> "Skipped"
      [] NeedsKill(fs) /\ fs.tr.kill # 0 /\ fs.tr.kill = acked -> "AllNodesAcked"
      [] OTHER                                                 -> "None"

FlushDone == Dispatch("FlushingConnections") /\ FlushReason(rec.fs) # "None"

LeaveFlushing ==
    /\ FlushDone /\ Len(TransitionHooks(rec.fs).post) > 0
    /\ Write(GoToPhase([rec.fs EXCEPT !.killed = FlushReason(rec.fs)], "ExecutingPostActions"),
             "requeue")
    /\ UNCHANGED <<stores, world, counters, history>>

-----------------------------------------------------------------------------
(* completeTransition *)

\* cleanupTransitionJobs: an error of JobExecutor.Cleanup is only logged, and
\* the Jobs in failed stay.
CleanupTransitionJobs(fs, failed) ==
    /\ jobs' = jobs \ (RecordedJobs(fs) \ failed)
    /\ undeleted' = {<<j.id, j.idx>> : j \in failed}

\* Jobs and kill signal are cleaned up; what goes wrong with that stops nothing.
Cleanup(fs) ==
    \/ CleanupTransitionJobs(fs, {}) /\ CleanupSignals
    \/ /\ faults < MaxFaults /\ faults' = faults + 1
       /\ \E failed \in SUBSET RecordedJobs(fs) : CleanupTransitionJobs(fs, failed)
       /\ signal' \in {0, signal} /\ acked' = IF signal' = 0 THEN 0 ELSE acked

\* Variant: the Jobs are looked up after the status was reset.
CompleteTransition_Late ==
    /\ \/ Dispatch("ExecutingPostActions") /\ PhaseDone(rec.fs)
       \/ FlushDone /\ Len(TransitionHooks(rec.fs).post) = 0
    /\ Cleanup(Completed(rec.fs))
    /\ rec' = [rec EXCEPT
         !.pc = "completeSync", !.ev = rec.fs.tr.id,
         !.fs = Completed(IF rec.fs.tr.phase = "FlushingConnections"
                          THEN [rec.fs EXCEPT !.killed = FlushReason(rec.fs)] ELSE rec.fs)]
    /\ UNCHANGED <<stores, service, events, expired, changes, forces, edits, deletes,
                   begun, ran, edited, kept>>

\* The cleanup comes before anything is persisted; the in-memory status then
\* becomes that of an idle object.
CompleteTransition ==
    /\ \/ Dispatch("ExecutingPostActions") /\ PhaseDone(rec.fs)
       \/ FlushDone /\ Len(TransitionHooks(rec.fs).post) = 0
    /\ Cleanup(rec.fs)
    /\ rec' = [rec EXCEPT
         !.pc = "completeSync", !.ev = rec.fs.tr.id,
         !.fs = Completed(IF rec.fs.tr.phase = "FlushingConnections"
                          THEN [rec.fs EXCEPT !.killed = FlushReason(rec.fs)] ELSE rec.fs)]
    /\ UNCHANGED <<stores, service, events, expired, changes, forces, edits, deletes,
                   begun, ran, edited, kept>>

\* Variant: the event is closed before the status is written.
CompleteInSync_EventFirst ==
    /\ rec.pc = "completeSync"
    /\ Write(rec.fs, "succeed")
    /\ UpdateFailoverEvent(rec.ev, "Succeeded")
    /\ UNCHANGED <<stores, service, jobs, signal, acked, expired, counters, history>>

CompleteInSync ==
    /\ rec.pc = "completeSync"
    /\ Write(rec.fs, "succeed")
    /\ UNCHANGED <<stores, world, counters, history>>

\* The remote wins: r.Update puts back the persisted status, so that only
\* what is set after it is written.
CompleteAdopt ==
    /\ rec.pc = "completeSync" /\ rec.fresh /\ changes < MaxChanges
    /\ obj' = [obj EXCEPT !.active = Opposite(rec.fs.active)]
    /\ \E g \in RemoteGens :
         /\ RemoteMayWin(rec.fs, g)
         /\ Write([Adopted(obj', rec.fs.lastKnown, g) EXCEPT !.actionFailed = FALSE,
                                                             !.tr = NoTransition],
                  "succeedAdopted")
    /\ changes' = changes + 1
    /\ UNCHANGED <<cache, queued, world, faults, forces, edits, deletes, history>>

\* The event is closed after the status write.
CloseFailoverEvent ==
    /\ rec.pc = "succeed"
    /\ UpdateFailoverEvent(rec.ev, "Succeeded")
    /\ IF rec.then = "succeedAdopted" /\ rec.fs.lastKnown # rec.fs.active
       THEN rec' = [rec EXCEPT !.pc = "begin"] /\ queued' = queued
       ELSE rec' = NoReconcile /\ queued' = TRUE
    /\ UNCHANGED <<obj, cache, service, jobs, signal, acked, expired, counters, history>>

-----------------------------------------------------------------------------
(* The world around the controller *)

\* Someone else writes the object: a copy in flight is no longer current.
OthersWrite(o) ==
    /\ obj' = o
    /\ rec' = [rec EXCEPT !.fresh = FALSE]
    /\ UNCHANGED <<cache, queued, world>>

\* The operator, or the other cluster's push, changes spec.failoverActive.
FlipSpec ==
    /\ changes < MaxChanges /\ ~obj.del
    /\ changes' = changes + 1
    /\ OthersWrite([obj EXCEPT !.active = Opposite(@)])
    /\ UNCHANGED <<faults, forces, edits, deletes, history>>

Annotate ==
    /\ forces < MaxForce /\ ~obj.del /\ ~obj.force
    /\ forces' = forces + 1
    /\ OthersWrite([obj EXCEPT !.force = TRUE])
    /\ UNCHANGED <<faults, changes, edits, deletes, history>>

EditHooks ==
    /\ edits < MaxEdits /\ ~obj.del
    /\ edits' = edits + 1 /\ edited' = (edited \/ InFlight(obj))
    /\ \E d \in Direction, h \in HookChoices :
         /\ h # obj.hooks[d] /\ OthersWrite([obj EXCEPT !.hooks[d] = h])
         /\ kept' = IF d = obj.tr.dir /\ Len(h.pre) < kept THEN Len(h.pre) ELSE kept
    /\ UNCHANGED <<faults, changes, forces, deletes, begun, ran, undeleted>>

EditAddresses ==
    /\ edits < MaxEdits /\ ~obj.del
    /\ edits' = edits + 1
    /\ \E a \in AddrChoices \ {obj.addr} : OthersWrite([obj EXCEPT !.addr = a])
    /\ UNCHANGED <<faults, changes, forces, deletes, history>>

DeleteObject ==
    /\ deletes < MaxDeletes /\ ~obj.del
    /\ deletes' = deletes + 1
    /\ OthersWrite([obj EXCEPT !.del = TRUE])
    /\ UNCHANGED <<faults, changes, forces, edits, history>>

\* A Job ends; the controller owns it, so its key is queued.
FinishJob ==
    /\ \E j \in jobs, s \in {"Complete", "Failed"} :
         /\ j.state = "Active"
         /\ jobs' = (jobs \ {j}) \cup {[j EXCEPT !.state = s]}
    /\ queued' = TRUE
    /\ UNCHANGED <<obj, cache, rec, service, events, signal, acked, expired, counters, history>>

\* The agents have all acknowledged the signal that is in the ConfigMap.
AgentsAck ==
    /\ signal # 0 /\ acked # signal
    /\ acked' = signal
    /\ UNCHANGED <<stores, rec, service, jobs, events, signal, expired, counters, history>>

\* The deadline of the current wait passes.
Expire ==
    /\ ~expired /\ TimerRunning(obj)
    /\ expired' = TRUE
    /\ UNCHANGED <<stores, rec, service, jobs, events, signal, acked, counters, history>>

-----------------------------------------------------------------------------
\* What the reconcile loop itself does, faults apart.
ReconcileStep ==
    \/ StartReconcile \/ Conflict \/ WriteStatus
    \/ ReconcileDeletion \/ RemoveFinalizer \/ EnsureMetadata
    \/ ForceAdvance \/ RemoveAnnotation
    \/ DetectTransition \/ CreateFailoverEvent \/ ReconcileIdleService
    \/ SteadyState \/ SteadyAdopt \/ BeginRemoteSync
    \/ LeavePreActions \/ MarkRunning \/ PassAction \/ HaltOnFailure
    \/ TimeoutAction \/ RunCall \/ RunJob
    \/ UpdateResources \/ SendKillSignal \/ AwaitAcks \/ LeaveFlushing
    \/ CompleteTransition \/ CompleteInSync \/ CompleteAdopt \/ CloseFailoverEvent

Environment ==
    \/ SyncCache \/ Abort \/ RecreateFails \/ SignalKillFails \/ CheckAcksFails
    \/ FlipSpec \/ Annotate \/ EditHooks \/ EditAddresses \/ DeleteObject
    \/ FinishJob \/ AgentsAck \/ Expire

Next == ReconcileStep \/ Environment

Spec == Init /\ [][Next]_vars

\* The work queue is served, watches deliver, Jobs end (activeDeadlineSeconds)
\* and time passes.  Nothing is assumed of operators, agents or faults.
Fairness == /\ WF_vars(ReconcileStep) /\ WF_vars(SyncCache)
            /\ WF_vars(FinishJob) /\ WF_vars(Expire)

FairSpec == Spec /\ Fairness

-----------------------------------------------------------------------------
(* Properties *)

Reconciles == [pc : PCs, fs : FailoverService, fresh : BOOLEAN, then : Thens, ev : Nat]

\* Every variable has the type the code declares for it.
TypeOK ==
    /\ obj \in FailoverService /\ cache \in FailoverService
    /\ rec \in Reconciles /\ queued \in BOOLEAN
    /\ service \in Address \cup {"none"}
    /\ jobs \subseteq [id : Nat, idx : Nat, state : JobStates]
    /\ events \in [1..MaxChanges -> Outcomes]
    /\ signal \in Tokens \cup {0} /\ acked \in Tokens \cup {0} /\ expired \in BOOLEAN
    /\ begun \in Nat /\ faults \in Nat /\ changes \in Nat
    /\ forces \in Nat /\ edits \in Nat /\ deletes \in Nat
    /\ ran \subseteq Nat \X Phases \X Nat
    /\ edited \in BOOLEAN /\ kept \in Nat
    /\ undeleted \subseteq Nat \X Nat

Settled(results) == \A i \in DOMAIN results : results[i].status \in {"Succeeded", "Skipped"}

\* Traffic moves in three ways only ("Transition detection MUST happen before
\* service reconcile to prevent traffic switching before pre-actions have
\* executed"; reconcileIdle, reconcileUpdatingResources):
\*  - a reconcile that read a copy with no lastKnownFailoverActive compares
\*    nothing and puts the Service where the spec of that copy says, with no
\*    transition.  This is not only how the Service is created: a flip that
\*    comes before the baseline is written moves an existing Service, and so
\*    does a copy that is outdated because the first sync has just adopted the
\*    remote's direction.  The object is then in no direction yet, or is on
\*    record in the other one;
\*  - an idle cluster's Service goes to the address of the direction on record;
\*  - during the switch it goes to the address snapshotted at the start, once
\*    every pre-action that no edit has taken out of the hooks is over.
TrafficSwitch ==
    [][service' \notin {service, "none"} =>
         \/ /\ rec.fs.lastKnown = "unset" /\ obj.lastKnown # rec.fs.active
            /\ service' = rec.fs.addr[rec.fs.active]
         \/ ~InFlight(obj) /\ service' = rec.fs.addr[obj.lastKnown]
         \/ /\ obj.tr.phase \in {"UpdatingResources", "FlushingConnections"}
            /\ service' = obj.tr.new
            /\ Settled(SubSeq(obj.tr.pre, 1, kept))]_vars

ResultsOf(tr, phase) == IF phase = "ExecutingPreActions" THEN tr.pre ELSE tr.post

\* An action takes effect only in a transition that is persisted, after the
\* action itself was persisted as Running and every earlier action of its
\* phase was over, even if the reconcile that ran it read a stale copy or died
\* (handleActionState: "persist BEFORE executing side effects").
ExecutionOrder ==
    \A x \in ran :
        /\ x[1] <= begun
        /\ x[1] = obj.tr.id =>
             LET res == ResultsOf(obj.tr, x[2])
             IN  /\ res[x[3] + 1].status # "Pending"
                 /\ Settled(SubSeq(res, 1, x[3]))
                 /\ x[2] = "ExecutingPostActions" => obj.tr.phase = x[2]

\* A reconcile that carries out an action, whatever version of the object it
\* read, does so for the transition and the phase that are persisted, and at
\* most one action late: the cache never lags by more than one reconcile's
\* write, because a copy that lags further could not have been written
\* (executeActionPhase on a copy from the informer cache).
ActionInFlight ==
    DispatchAction("Running") =>
        /\ obj.tr.id = rec.fs.tr.id /\ obj.tr.phase = rec.fs.tr.phase
        /\ obj.tr.idx - rec.fs.tr.idx \in {0, 1}

ActionsOf(fs, phase) ==
    IF phase = "ExecutingPreActions" THEN TransitionHooks(fs).pre ELSE TransitionHooks(fs).post

\* A Job of an action that succeeded outlives its transition only if its
\* deletion failed, which is logged and not tried again: the name of a Job is
\* on record before its success is, and what is on record is deleted before
\* the transition leaves the status, with crashes and refused writes anywhere
\* in between (runAction, cleanupTransitionJobs).
JobsCleaned ==
    [][InFlight(obj) /\ obj'.tr.id # obj.tr.id /\ ~edited =>
         \A j \in jobs, phase \in {"ExecutingPreActions", "ExecutingPostActions"} :
           LET acts == ActionsOf(obj, phase)
               res  == ResultsOf(obj.tr, phase)
           IN  j.id = obj.tr.id /\ j.idx < Len(acts) /\ j.idx < Len(res)
                 /\ acts[j.idx + 1].kind = "job" /\ res[j.idx + 1].status = "Succeeded"
                 => <<j.id, j.idx>> \in undeleted]_vars

\* A FailoverEvent exists only for a persisted transition, and says Succeeded
\* only when the object no longer shows that transition in flight
\* (beginTransition and completeTransition: "avoid divergence where the event
\* says succeeded but FS is still mid-transition").
EventsFollowStatus ==
    \A id \in DOMAIN events :
        /\ events[id] # "None" => id <= begun
        /\ events[id] = "Succeeded" => obj.tr.id # id

\* What the persisted object shows of the pipeline.
Pipeline == INSTANCE TransitionPipeline WITH
    phase <- obj.tr.phase,
    dir   <- IF InFlight(obj) THEN obj.tr.dir ELSE "none",
    mode  <- obj.lastKnown,
    gen   <- obj.gen

\* The persisted object goes through the phases in order and ends in the
\* direction snapshotted at the start, whatever is flipped, edited, forced,
\* re-read from a stale cache or lost in a crash on the way (beginTransition,
\* executeActionPhase, handleForceAdvance, completeTransition).
ImplementsPipeline == Pipeline!PSpec

\* What a status write may make of the pipeline's state: nothing, or one step.
StatusStep(o, n) ==
    \/ /\ n.tr.phase = o.tr.phase /\ n.tr.dir = o.tr.dir
       /\ n.lastKnown = o.lastKnown /\ n.gen = o.gen
    \/ /\ ~InFlight(o) /\ ~InFlight(n) /\ n.gen >= o.gen
       /\ \/ n.lastKnown = o.lastKnown
          \/ o.lastKnown = "unset" /\ n.lastKnown \in Direction
    \/ /\ ~InFlight(o) /\ n.tr.phase \in {"ExecutingPreActions", "UpdatingResources"}
       /\ o.lastKnown \in Direction /\ n.tr.dir \in Direction \ {o.lastKnown}
       /\ n.lastKnown = o.lastKnown /\ n.gen = o.gen
    \/ /\ Pipeline!Follows(o.tr.phase, n.tr.phase) /\ n.tr.dir = o.tr.dir
       /\ n.lastKnown = o.lastKnown /\ n.gen = o.gen
    \/ /\ o.tr.phase \in {"FlushingConnections", "ExecutingPostActions"} /\ ~InFlight(n)
       /\ n.lastKnown = o.tr.dir /\ n.gen > o.gen

\* Why the pipeline is implemented: as long as nobody else has written the
\* object, the copy of the reconcile in flight is the object, or what one step
\* of the pipeline makes of it.  A copy that is not current may be anything,
\* but cannot be written.
CurrentCopy ==
    rec.fresh =>
      /\ rec.pc \in {"top", "create", "unannotate", "finalize", "steadySync", "succeed", "begin"}
           => rec.fs = obj
      /\ rec.pc = "write" => StatusStep(obj, rec.fs)
      /\ rec.pc = "steadySync" => ~InFlight(obj) /\ ~TransitionPending(obj)
      /\ rec.pc = "completeSync" =>
           /\ obj.tr.phase \in {"FlushingConnections", "ExecutingPostActions"}
           /\ ~InFlight(rec.fs)
           /\ rec.fs.lastKnown = obj.tr.dir /\ rec.fs.gen = obj.gen + 1
      /\ rec.pc = "begin" => ~InFlight(obj) /\ obj.lastKnown \in Direction \ {obj.active}
      /\ rec.then \in {"adopted", "succeedAdopted"} /\ rec.pc \in {"write", "succeed"}
           => ~InFlight(rec.fs) /\ rec.fs.lastKnown \in Direction

Halted(fs) ==
    \/ AtAction(fs) /\ CurrentResult(fs).status = "Failed" /\ ~CurrentAction(fs).ignoreFailure
    \/ fs.tr.phase = "FlushingConnections" /\ fs.tr.kill # 0 /\ fs.killed = "AckTimeout"

\* The loop goes to sleep, with nothing queued and no watch event on its way,
\* only on a deleted object or in one of the two documented halts (the
\* "halt - no requeue" returns of handleActionState and
\* reconcileFlushingConnections).
NoLostWakeup ==
    rec.pc = "off" /\ ~queued /\ cache = obj => Halted(obj) \/ Gone(obj)

\* Once spec and hooks are left alone, the transition halts where an operator
\* must step in, or traffic ends up where the spec says and stays there
\* (reconcileIdle after completeTransition catches a flip made in between).
Converges ==
    <>[](\/ Gone(obj) \/ Halted(obj)
         \/ ~InFlight(obj) /\ service = obj.addr[obj.active])

-----------------------------------------------------------------------------
(* What the repository says of itself and the code does not do *)

\* docs/guide/architecture.md: ExecutingPostActions "runs post-transition actions
\* sequentially, same as pre-actions": an action of the transition in flight
\* that is recorded as Succeeded has been carried out.
SucceededActionsRan ==
    \A phase \in {"ExecutingPreActions", "ExecutingPostActions"} :
        \A i \in DOMAIN ResultsOf(obj.tr, phase) :
            ResultsOf(obj.tr, phase)[i].status = "Succeeded"
                => <<obj.tr.id, phase, i - 1>> \in ran

=============================================================================
