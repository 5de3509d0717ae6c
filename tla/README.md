# Formal model of k8s-failover-manager

TLA+ specifications of the controllers of both clusters, of what they share, and
of the connection-killer agents,
checked with TLC on small instances and, for the results listed under
[Proofs](#proofs), proved with TLAPS for every instance. Definitions keep the
names of the Go code; `PROJECT.json` maps each of them to the lines it models.

## The system

A `FailoverService` object exists in two clusters, one primary and one
failover. In each cluster a controller points a managed Service at the address
its own `spec.failoverActive` selects. A change of that field starts a
*transition*: pre-actions, switch of the Service, destruction of the
connections to the old address, post-actions. The clusters push the field to
each other.

| Component | State it keeps | Operations | Talks to |
|---|---|---|---|
| Reconciler (`internal/controller`) | nothing in memory; `status.transition`, `lastKnownFailoverActive`, `activeGeneration`, conditions, finalizer and annotations of the object | `Reconcile` and one handler per phase, force-advance, steady state, adoption, deletion, FailoverEvents | API server through the informer cache, all the components below |
| Action executors (`internal/action`) | Jobs in the cluster | `Execute` for http, job, scale, waitReady, waitRemote | HTTP servers, API server, remote API server |
| Service manager (`internal/service`) | the Service and its EndpointSlice | `Reconcile`, `ReconcileWithAddress` | API server |
| Signaler (`internal/connkill/signaler.go`) | kill and ACK entries in one ConfigMap | `SignalKill`, `CheckAcks`, `CleanupSignals` | agents, through the ConfigMap |
| Agent (`internal/connkill/agent.go`, one per node) | `lastSeq` in memory | `RunOnce`, `writeAck`, `initFromConfigMap`, `Watch` | ConfigMap, netlink |
| Syncer (`internal/remotecluster/syncer.go`) | nothing | `Sync`: read the remote object, decide who wins, push or adopt | remote API server |
| Client provider, remote watcher | a client cached by Secret revision; a watch on the remote objects | `GetClient`, `watchLoop` | remote API server, work queue |
| Metrics, manager set-up, chart | | | |

What is hard about it:

* A reconcile works on a *cached copy* that may be older than its own last
  write. The API server refuses a write from such a copy, but not the effects
  (Service, Job, kill signal, HTTP call) that came before the write.
* Every reconcile makes several API calls; the process may stop, or a call may
  fail, between any two of them. Everything is repeated from the persisted status.
* Operators and the other cluster write the same object at any time: flip the
  direction, edit hooks and addresses, annotate, delete.
* Some returns deliberately do not requeue; any other such return would put the
  object to sleep in the middle of a transition.
* Signaler and agents share a ConfigMap, agents restart and lose `lastSeq`,
  ACK writes race the removal of the entries.
* Two clusters with their own generations and timestamps decide independently
  which of them wins, on what each has read of the other some time ago.
* A `waitRemote` action looks at the other cluster's object and then at its
  events, while that cluster goes on, fails, is forced, or waits in turn.
* The remote client is shared by the reconciler and a watching goroutine, and its
  credentials may be rotated, spoiled or revoked at any time.
* The Service and its EndpointSlice are separate objects, read from separate
  caches, and users may have put objects of their own in their place.

`PROJECT.json` lists these hazards one by one, each at its line, with the
properties that watch over it.

## Modules

| Module | Models |
|---|---|
| `FailoverTransition` | one cluster's reconcile loop and one FailoverService, with everything the loop touches |
| `TransitionPipeline` | abstract specification: what the persisted object shows of a transition |
| `FailoverSync` | the Syncers of two clusters and the parts of the reconcile loop that call them |
| `DirectionProtocol` | abstract specification: directions, transitions and generations of clusters that keep in step |
| `WaitRemote` | two clusters in transition, and the `waitRemote` actions with which each looks at the other |
| `ServiceManager` | the Service and the EndpointSlice, one API call at a time |
| `RemoteWatcher` | the watch on the remote cluster, the client provider and the kubeconfig Secret |
| `ConnKill` | Signaler, ConfigMap and agents |
| `MCTransition`, `MCSync`, `MCWaitRemote`, `MCService`, `MCWatcher` | hooks, addresses, IDs and sets of the TLC instances |
| `FailoverTransitionProofs`, `PipelineRefinementProofs`, `TransitionHistoryProofs`, `FailoverSyncProofs`, `WaitRemoteProofs`, `ServiceManagerProofs`, `RemoteWatcherProofs`, `ConnKillProofs` | theorems |

`FailoverTransition` is the centre. What it takes from the other components
as one step is opened up in a module of its own, which repeats of the reconcile loop
only what the component can see: `FailoverSync` (a transition is its beginning and
its end), `WaitRemote` (one status write per step), `ServiceManager` (a target
address), `ConnKill` (one flush per service), `RemoteWatcher` (a work queue).

### FailoverTransition

`obj` is the object in the API server, `cache` the informer's version of it,
`rec` the reconcile in flight: its program point `pc`, its copy `fs`, whether
the copy is still current (`fresh`, that is, whether its resourceVersion is the
stored one) and what follows its status write (`then`). The controller runs
one reconcile per object at a time, hence one `rec`. Handlers compute a new
copy in one step; *each API call with an effect is a step of its own*, so a
reconcile is `StartReconcile`, possibly an effect, `WriteStatus` (or
`Conflict`), possibly a call after the write (`CreateFailoverEvent`,
`RemoveAnnotation`, `CloseFailoverEvent`, `BeginRemoteSync`). `Abort` is a crash
or a failed call at any point. An effect and the computation after it are one
step followed by the write, so a crash in between is an `Abort` before
`WriteStatus`.

`queued` stands for the work queue: a return with `Requeue`, `RequeueAfter` or
an error sets it, a watch event sets it, a halt does not. Delays are not
modelled, deadlines are: `expired` says that the timeout measured from the
persisted `startedAt` or `signaledAt` has passed (`Expire`), and is dropped when
the thing it is measured from changes (`Timer`).

`service` is the address traffic goes to, `jobs` the Jobs with transition id,
action index (these two make the name) and state, `events` the outcome of each
FailoverEvent, `signal` and `acked` what the connection-kill protocol looks like
from here: the token in the ConfigMap and the one all agents have acknowledged.
The remote cluster shows up in two ways: `FlipSpec` (its push is a write of
the spec like an operator's) and `SteadyAdopt`/`CompleteAdopt`, where `Sync`
reports that the remote wins with a generation of `RemoteGens`.

Some variables are history: `ran` and `edited`, `begun`, `kept` (how many of the
leading pre-actions of the transition no edit has taken out of the hooks) and
`undeleted` (the Jobs whose deletion failed in the last `completeTransition`).
They are read by properties, and `begun` numbers the transitions.

`r.Update` fills the copy from the API server's answer, status included. This is
why `CompleteAdopt` rebuilds the copy from `obj` and sets only what the code sets
after that call.

### TransitionPipeline

Phase, direction, the direction the cluster is in, and the generation.
A transition begins only towards the other direction, goes through the phases in
order, ends only after the switch, in the direction it was begun with, with a
higher generation.

### FailoverSync

Each cluster has its object, its cache and the reconcile in flight. `Dispatch`
is what a reconcile does before it leaves the process: complete the transition,
begin one, or go on in steady state. `SyncRead` reads the remote object and
decides (`RemoteWins`), `SyncPush` overwrites the remote spec *as it is by then*,
`AdoptSpec` and `AdoptStatus` are the two writes of an adoption, each refused
if somebody else has written in between, `BeginRemoteSync` starts the transition
that follows. `SyncFail` is a failed read or push, which the caller only logs.
`clock` counts whole seconds, the precision in which change times are stored, and
a change time of 0 is one that was never set. `want` and `calm` are history: what the last
operator chose, and whether operators only ever touched a system at rest.

### DirectionProtocol

For each cluster the direction it is in, that of its transition, and its
generation. A direction is left only by a transition to the other one, and
only the completion of a transition makes a new generation; an adopted
generation is one some cluster has reached. `FailoverSync` refines it by the status fields of
the stored objects alone (`ImplementsProtocol`); the copies in flight, the readings and the
spec are hidden.

### WaitRemote

Each cluster runs its transitions one after the other; `tr[c][k]` and `ev[c][k]` are
the k-th one and its FailoverEvent. The event is created (`CreateFailoverEvent`),
stamped with its start time (`StampFailoverEvent`) and closed (`CloseEvent`)
by calls of their own, any of which may be lost. A poll is `PollRemote`, the read
of the remote FailoverService, and, when that shows no transition,
`ListRemoteEvents`. `CheckPhase`, `CheckActionName` and `CheckEvents` are the
decisions of `waitremote.go`, down to the fallbacks of
`eventMatchesTransition` for events without a start time.

### ServiceManager

`job` is the call of `ReconcileWithAddress` in flight. `Decide` is the branch it takes for the Service
as the cache has it; every later API call is a step. Creation fails if the name
is taken, an update if the copy is not current or, for an EndpointSlice, if it would
change the address family (`SameFamily`; the API server holds `addressType` immutable),
and a deletion, which goes by name, takes whatever is there. `Meddle` is a user who deletes one of the objects or puts
one of their own there. `Route` is where a client ends up. Copies are compared by value, not by resourceVersion.

### RemoteWatcher

The remote cluster numbers its changes (`log`); a list tells how far it got
(`sess.pos`) and a watch goes on from there. `RefreshClient` and `CopyConfig` are
the two critical sections of `GetRESTConfig`: a reconcile may refresh the shared
client in between. A version of the Secret stands for its credentials;
`Revoke` makes the remote refuse old ones, `Rotate` may also delete the Secret
or put in one that cannot be parsed.

### ConnKill

Keys are pairs of a node and a FailoverService, so `kill[n][s]` and `ack[n][s]`
are the entries. Writers of the ConfigMap retry on conflict, each write is
atomic. `RunOnce` reads all entries, `KillConnections` and `WriteAck` process them
one at a time, and anything may happen in between. `cached` is the ConfigMap
in the controller's cache, which `CheckAcks` reads. Each service's `flush` is
the part of `status.transition.connectionKill` the protocol needs;
`SignalKill` may leave it unchanged, which is a status write that was lost, or a
reconcile that worked from a copy without the token.

## Runs

| Run | Checks | Instance |
|---|---|---|
| `actions` | `ExecutionOrder`, `ActionInFlight`, `TrafficSwitch`, `JobsCleaned` | ignorable HTTP call, then a Job, before the switch, and a Job before the switch back; 2 flips, 1 retry, 1 force-advance, 1 deletion, 1 fault |
| `flush` | `EventsFollowStatus`, `NoLostWakeup`, `ImplementsPipeline`, `Converges` | IP to DNS name, kill signal and ACKs, a `waitRemote` afterwards; 2 flips, 1 force-advance, 1 fault |
| `remote` | `TypeOK`, `CurrentCopy`, `TrafficSwitch`, `ImplementsPipeline` | a call before the switch, none before the switch back; adoption in steady state and at the end of a transition; hooks (an action removed, added or put in front) or addresses edited once at any time; a change of the Service's type that may fail half-way; 2 flips, 1 fault |
| `agree` | `TypeOK`, `OneWinner`, `GenerationsGrow`, `ImplementsProtocol`, `Agreement` | 2 flips in any cluster at any time, 2 seconds, 1 fault, 1 race |
| `wait` | `TypeOK`, `SuccessBacked`, `FailureBacked`, `EventsAccurate`, `ResultsStand`, `EveryWaitEnds` | both clusters wait for a phase of each other, or one for an action of the other; 3 flips, 2 seconds, one force-advance or lost event write |
| `service` | `TypeOK`, `SuccessRoutes`, `TrafficSteps`, `ForeignUntouched`, `TrafficReachesTarget` | 2 IPv4 addresses, 1 IPv6 address, 2 names; 3 changes of target, 2 acts of users, 1 fault |
| `watch` | `TypeOK`, `NothingSkipped`, `CredentialsMatch`, `CatchesUp` | 2 objects, 2 changes, 2 rotations, 1 fault or restart |
| `kill` | `TypeOK`, `AckedMeansKilled`, `AckEvidence`, `SkipsAnswered`, `SignalsAnswered` | 2 nodes, any of them cordoned at the start, 2 signals, one more (un)cordon, a restart, a fault |

What they show, in a sentence each:

* traffic moves only when and where a transition allows it, actions take
  effect in their order, and the loop sleeps only in the two documented halts
  (`TrafficSwitch`, `ExecutionOrder`, `NoLostWakeup`, `Converges`);
* an action carried out from an old copy still belongs to the transition and
  phase that are persisted (`ActionInFlight`), and a Job that succeeded is gone
  before its transition is unless its deletion failed (`JobsCleaned`);
* crossing pushes, half adoptions and lost answers never leave the clusters at
  odds for good (`Agreement`), of any two stored objects both clusters name the same
  winner (`OneWinner`; a decision may rest on an older reading of one of them), a generation is never taken back (`GenerationsGrow`) and never made up
  (`ImplementsProtocol`);
* a `waitRemote` succeeds or fails only on the strength of what the other cluster did in
  the same direction and no earlier, where an event that never got its start time
  counts from when it was closed or created (`SuccessBacked`, `FailureBacked`), the events it reads say what is true of their
  transitions (`EventsAccurate`), and two
  clusters waiting for each other end by the deadline (`EveryWaitEnds`);
* the Service manager recovers from every partial failure and stays short of its
  target only behind an object of a user or an EndpointSlice of the other address
  family (`TrafficReachesTarget`), says that it succeeded only if traffic arrives
  (`SuccessRoutes`), and leaves alone what is not its own (`ForeignUntouched`);
* no change of the remote is lost across reconnects and rotations
  (`NothingSkipped`, `CatchesUp`);
* a flush that ends with all nodes acknowledged has killed on all nodes
  (`AckedMeansKilled`), a signal is passed over only if its ACK is there
  (`SkipsAnswered`), and every signal is answered (`SignalsAnswered`).

Bounds. Two flips are what it takes to flip during a transition and have a
second transition see what the first left behind, and, in `FailoverSync`, for two
operators to disagree; three let a `waitRemote` meet an earlier transition of the same
direction. One fault can strike at every point of every reconcile. One force-advance
can strike every phase. Two actions are enough for an order among
them. The cache lags by any number of versions (of which at most one reconcile's are the
controller's own, by `InFlightCorrect`). Six kill tokens always leave one
that nothing refers to, so reuse is invisible. Two seconds are enough for two
times to be equal or to differ. `MaxRaces` bounds how often a reconcile of one
cluster starts beside one of the other or from an old copy; without it two
controllers could go on crossing each other for ever, which their 60 s intervals
rule out in practice, not in principle. Three changes of target go from a name to an IP address and back and
on to another; two rotations let a good Secret follow a bad one. In `ConnKill` two
signals are needed for a sequence number to be reused after a cleanup, two nodes
for an incomplete set of ACKs. `CHECK_DEADLOCK FALSE` everywhere: a halted
transition, a deleted object and a quiet ConfigMap are legitimate ends.

Fairness. `FailoverTransition`: the work queue is served (`ReconcileStep`),
watches deliver (`SyncCache`), time passes (`Expire`), and Jobs end (`FinishJob`),
because the executor gives every Job an `activeDeadlineSeconds`. Nothing is
assumed of operators, faults, or agents: without their ACKs the flush ends in its
documented halt. `ConnKill`: an agent's loop goes on (`RunOnce`,
`KillConnections`, `WriteAck`), the DaemonSet restarts it (`Start`), and the
API server closes every watch after a while (`Reconnect`), which is what lets
a failed ACK write be repeated. `ServiceManager`: every outcome is followed by
another reconcile, and both caches catch up. `WaitRemote`: each controller goes on,
and time passes. `RemoteWatcher`: the goroutine is never blocked for good (its
calls have timeouts, its select a ticker), events and cache updates arrive, and
the queue is served. All of this is weak fairness. `FailoverSync` asks strong
fairness of `ReconcileStep`: a reconcile may be disabled again and again
by `MaxRaces` while the other cluster is at work, where the code has a timer that
comes round regardless.

### Disagreements

These runs check a statement of a comment or a document and find it violated by
what the code does; `findings` in `PROJECT.json` has the quotations.

| Run | What happens |
|---|---|
| `job_name` | post-action *i* finds the finished Job of pre-action *i* under its own name and succeeds without running |
| `seq_reset` | cleanup removes the kill entry, the next signal has `seq` 1 again, a running agent with `lastSeq` 1 skips it |
| `flip_undone` | the other cluster's anti-entropy sync runs before the flipped cluster has recorded its change time; the tie falls to the cluster ID and the old value is pushed back |
| `idle_race` | the remote begins and halts between the two reads of a wait for idle; its event, closed as Failed, is taken for a completed transition |

Seven more show in the model and have no run of their own. An annotation that
could not be removed after the status write is handled again and advances
once more (the comment at `failoverservice_controller.go:147` calls
`handleForceAdvance` idempotent); the phases still come in order (`ImplementsPipeline`). A
crash between the status write and the creation of the FailoverEvent leaves a
transition without an event (`README.md` says every transition is recorded). A
Job whose name was not persisted, because the write was refused and the
action was then force-advanced, is not cleaned up; `JobsCleaned` says that this
cannot happen to a Job whose action succeeded. An event closed as Failed stays
Failed although its transition was forced and completed, if the event write of
`handleForceAdvance` was lost (`updateFailoverEvent` does not replace Failed by
Succeeded); `EventsAccurate` says what Failed still means.

The other three are about traffic. The comment on `reconcileIdle` says that
transition detection comes first "to prevent traffic switching before pre-actions
have executed" (`failoverservice_controller.go:193`). Detection compares with
`lastKnownFailoverActive` and is passed over while that is nil: a flip that lands
between the creation of the Service and the write of the baseline moves an
existing Service with no transition and no pre-actions. The same happens once
more after the first sync has adopted the remote's direction: the reconcile that
follows may read a cached copy with the new spec and still no
`lastKnownFailoverActive`, and moves the Service while the stored object is about
to run, or is running, the pre-actions of that very change. `TrafficSwitch` names
these as its first case, and says what holds otherwise: an idle cluster's Service
goes to the address of the direction on record, and a transition's Service to the
snapshot once every pre-action that was not edited out of the hooks is over. The
third: `reconcileEndpointSlice` writes `addressType` into an existing EndpointSlice
(`manager.go:236`), which the API server refuses to change, so that a switch
between an IPv4 and an IPv6 address fails in every reconcile until somebody deletes
the slice; a switch by way of a DNS name deletes it. The repository's tests use
a fake client that accepts the update. `TrafficReachesTarget` names this case.

In the same spirit `TrafficSteps` names the one exception of the Service manager,
an EndpointSlice that an earlier switch left behind; `SuccessBacked` that of
`waitRemote`, an event closed early; `JobsCleaned` a Job deletion that failed,
which `cleanupTransitionJobs` only logs (the owner reference collects the Job with
the FailoverService); `ForeignUntouched` the deletion, by name, of an object that
has taken the place of the cached one.

## Proofs

The constants are arbitrary subject to the named assumptions of each module: sets
and functions have their types, bounds are natural numbers, there are exactly two
clusters, cluster IDs differ, `"none"` is not an address.

* `FailoverTransition`. `TypeCorrect`: `Spec => []TypeOK`, which is inductive as it
  stands. The work is in the operators on the object: lemmas `SetResultTyped`,
  `BegunTyped`, `ForceAdvancedTyped` and so on show that each maps a
  FailoverService to a FailoverService. For `SetResult` this needs that the index
  is within the result list, which is what the guard for edited hooks provides.
  `CopyCorrect`: `Spec => []CurrentCopy`, and `Refinement`: `Spec =>
  ImplementsPipeline`. The refinement cannot be shown from `TypeOK` alone: that a
  status write is one step of the pipeline depends on the copy written being
  one step away from the object it replaces. `CurrentCopy` says this for every
  program point of a reconcile whose copy is current, `StatusStep` being the
  relation between the two. It is inductive together with `TypeOK`: writes by
  others make the copy stale (`StaleCopy`), handlers preserve the relation
  (`BegunStep`, `ForceAdvancedStep`, `NextPhaseStep`), and `WriteStatus` needs
  `fresh`.
  `EventsCorrect`, `WakeupCorrect` and `OrderCorrect` (`TransitionHistoryProofs`)
  rest on `CurrentCopy` and an invariant each. `EventInv`: the id of the transition
  a reconcile is about to write is a new one, none, or the object's. `WakeInv`: while the loop
  sleeps, the cached version is a halt or its successor is still to be delivered (a
  later write by others cannot undo the difference), and a status written without
  requeue is a halt. `OrderInv`: the cache and the copy just read are earlier
  versions of the object's transition (`Behind`: a result that is no longer
  Pending, or is over, stays so), a copy about to be written is a later one, the
  results before the index are over (`Progress`), and so what a reconcile carries
  out from an old copy is accounted for in the object (`Accounted`).
  `TrafficCorrect`, `InFlightCorrect` and `JobsCorrect`, in the same module, rest on one
  observation: a controller writes only from a current copy, and a copy is read
  from the cache, so the cache lags a controller that is able to write by at most
  what one reconcile wrote. `TrafficInv` turns it into addresses: what a reconcile
  would serve from the cached copy is what the object allows (`Served`), likewise for the copy
  just read and for the copy about to be written, and once the switch is reached every
  one of the first `kept` pre-actions is over (`PreOver`): until then these are still
  in the hooks, whatever was edited, so the phase cannot be left before them. `LagInv` turns it into
  actions: cache and copy are in the object's transition and phase, one index behind at most
  (`Near`). `JobInv`: a Job action that succeeded has its Job on record
  (`JobFlags`), `completeTransition` is the only way out of a transition, and from
  its clean-up to its status write no Job on record exists but those in `undeleted`
  (`Deleted`); one reconcile
  runs at a time, so none can come up in between.
* `FailoverSync`. `SyncTypeCorrect`; `WinnerCorrect`: `OneWinner` needs that a
  stamped object carries its own cluster's ID; `GenerationsCorrect`: that the
  generation of a current copy is at least the object's, and that the generation
  read of a winner, however old the reading, is not below the local one.
  `ProtocolCorrect`: `Spec => ImplementsProtocol`, from `MoveInv`: a current copy is
  one step of the protocol away from the object it will replace, and an old reading of the other
  cluster shows a generation that cluster has reached, which stays true as
  generations never fall.
* `WaitRemote`. `WaitTypeCorrect`, `SuccessCorrect`, `FailureCorrect`,
  `ResultsCorrect`, all from one invariant `WaitInv`. A wait relies on an event, which was
  written from an earlier state of the transition: `RecordOK` says what
  transition and event may say of each other (a final result in the event is
  final in the transition, a closed event lists every action), `PcOK` what a
  reconcile in the middle of its calls relies on, and `StepKept` that evidence once given
  stays: transitions go on (`GoesOn`), events go on (`EventGoesOn`), and both keep
  what they have shown. For an event without a start time this includes its time, which
  changes only to the present one, and no transition has begun later than that (`Begun`). `EventsCorrect` adds `AccurateInv`: a phase is left, by itself or by
  force, only with its actions over, which is what makes a closing event's list final.
* `ServiceManager`. `ServiceTypeCorrect`, `SuccessCorrect`, `TrafficCorrect`,
  `ForeignCorrect`. `SuccessRoutes` needs, for each program point, what is true of
  the Service while the reconcile is clean (`CleanService`), the other two what is true
  of the Service it has read (`ReadService`).
* `RemoteWatcher`. `WatcherTypeCorrect`, `NothingSkippedCorrect`,
  `CredentialsCorrect`. The first needs that the last change of an object is one
  of `log`, the second that the provider's config and version always agree.
* `ConnKill`. `KillTypeCorrect`, `AckCorrect` and `FlushCorrect`:
  `AckedMeansKilled` is not inductive, since `CheckAcks` looks at ACKs only. The
  strengthening `AckEvidence` says that every good ACK, in the ConfigMap, in the
  cache or owed by an agent, comes from a kill carried out for its token.
  `SkipsCorrect`: sequence numbers order an agent's `lastSeq`, its ACK, the entry it
  is processing and the entry in the ConfigMap, and equal numbers mean equal
  tokens (`SeqInv`). It holds until the entries are removed for the first time; what
  happens afterwards is `seq_reset`.

Only model-checked: the liveness properties (`Converges`, `Agreement`,
`EveryWaitEnds`, `TrafficReachesTarget`, `CatchesUp`, `SignalsAnswered`; temporal
reasoning under fairness is out of the prover's reach) and the disagreements.

## Not modelled

* All components in one module: the composition would repeat `FailoverTransition`
  twice and is out of TLC's reach. Each pair of clusters is modelled at the grain the
  interaction needs.
* Clocks that differ between the clusters.
* A phase the code does not know and a negative action index: no write of the
  code produces them. Fallbacks for objects and ConfigMap entries written by
  older versions.
* `status.clusters`, `observedGeneration` and the conditions nothing reads back.
* Hashing of long names and keys; netlink and network namespaces (a kill succeeds
  or has errors); ports and labels; transport settings and the
  length of backoffs; metrics; flag parsing; the Helm chart; generated code.
* Concurrent edits of the ConfigMap by hand.

## Plan

Every safety property of the passing runs has a theorem. What is left: abstract
specifications for `WaitRemote` (the record of what a cluster has done, as its peer may rely
on it) and `RemoteWatcher` (a reader of a log), with refinement proofs like
those of `TransitionPipeline` and `DirectionProtocol`.
