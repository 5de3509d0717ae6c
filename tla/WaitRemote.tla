----------------------------- MODULE WaitRemote -----------------------------
(***************************************************************************)
(* internal/action/waitremote.go between two clusters: each runs its own   *)
(* transitions (failoverservice_controller.go), and a waitRemote action of *)
(* one looks at the FailoverService and the FailoverEvents of the other.   *)
(*                                                                         *)
(* The transition is as in FailoverTransition, at the grain the remote     *)
(* reader sees: one write of the status per step, and the FailoverEvent    *)
(* written by calls of their own that may fail.  A poll is two reads, of   *)
(* the remote FailoverService and then, if that shows no transition, of    *)
(* the remote FailoverEvents.  Each phase has at most one action.          *)
(***************************************************************************)
EXTENDS Integers

CONSTANTS
    Cluster,     \* the two clusters
    HookSets,    \* the hooks the clusters may be configured with
    MaxFlips,    \* bound: changes of spec.failoverActive
    MaxTime,     \* bound: seconds of the clock both clusters read
    MaxTrouble   \* bound: force-advances, and FailoverEvent writes that fail or are cut off

ASSUME PairAssumption == \E a, b \in Cluster : a # b /\ Cluster = {a, b}
ASSUME WaitBoundAssumption ==
    MaxFlips \in Nat \ {0} /\ MaxTime \in Nat /\ MaxTrouble \in Nat

Other(c) == CHOOSE d \in Cluster : d # c

Directions == {"failover", "failback"}
Opposite(d) == IF d = "failover" THEN "failback" ELSE "failover"
Slots == {"pre", "post"}
Statuses == {"none", "Pending", "Running", "Succeeded", "Failed", "Skipped"}
Phases == {"None", "ExecutingPreActions", "UpdatingResources", "FlushingConnections",
           "ExecutingPostActions", "Idle"}
Outcomes == {"none", "", "InProgress", "Succeeded", "Failed", "ForceAdvanced"}

\* An action: its name, what it waits for, ignoreFailure.  "none" as a name
\* is no action; an action that waits for nothing is one of the other kinds.
NoAction == [name |-> "none", wait |-> "nothing", for |-> "", ignore |-> FALSE]
Action == [name : STRING, wait : {"nothing", "phase", "action"}, for : STRING, ignore : BOOLEAN]

ASSUME HookAssumption == HookSets \subseteq [Cluster -> [Slots -> Action]] /\ HookSets # {}

\* status.transition over time: the k-th transition of a cluster is in phase
\* "None" before it begins, and "Idle" when it has completed and the field is
\* nil again.
Transition == [phase : Phases, dir : Directions, startedAt : 0..MaxTime,
               status : [Slots -> Statuses], msg : [Slots -> {"", "timeout", "remote"}]]
NoTransition == [phase |-> "None", dir |-> "failback", startedAt |-> 0,
                 status |-> [s \in Slots |-> "none"], msg |-> [s \in Slots |-> ""]]

\* The FailoverEvent of a transition; the outcome "none" means it does not
\* exist, a time of -1 is a nil time.
Times == -1..MaxTime
Event == [outcome : Outcomes, created : Times, startedAt : Times, completedAt : Times,
          status : [Slots -> Statuses]]
NoEvent == [outcome |-> "none", created |-> -1, startedAt |-> -1, completedAt |-> -1,
            status |-> [s \in Slots |-> "none"]]

VARIABLES
    hook,      \* spec.failover / spec.failback hooks of each cluster
    want,      \* spec.failoverActive, as the direction it asks for
    at,        \* status.lastKnownFailoverActive, as a direction
    num,       \* number of transitions a cluster has begun
    tr,        \* the transitions of each cluster
    ev,        \* their FailoverEvents
    pc,        \* what is left of the reconcile in flight
    expired,   \* actionTimeoutSeconds have passed for the running wait
    now,       \* the clock, in the whole seconds a metav1.Time keeps
    flips, trouble   \* counters the bounds apply to

counters == <<flips, trouble>>
vars == <<hook, want, at, num, tr, ev, pc, expired, now, counters>>

Index == 1..MaxFlips
Current(c) == tr[c][num[c]]
InFlight(c) == num[c] > 0 /\ Current(c).phase # "Idle"

\* The action phases, with the action that has its turn there.
InSlot(c, s) == /\ InFlight(c)
                /\ Current(c).phase = IF s = "pre" THEN "ExecutingPreActions"
                                                   ELSE "ExecutingPostActions"
Waits(c, s) == hook[c][s].wait # "nothing"

-----------------------------------------------------------------------------
(* The decisions of waitremote.go.                                         *)

PhaseOrder(p) == CASE p = "Idle" -> 0
                   [] p = "ExecutingPreActions" -> 1
                   [] p = "UpdatingResources" -> 2
                   [] p = "FlushingConnections" -> 3
                   [] p = "ExecutingPostActions" -> 4
                   [] OTHER -> -1

\* resultForAction
ResultForAction(status) == CASE status \in {"Succeeded", "Skipped"} -> "succeeded"
                             [] status = "Failed" -> "failed"
                             [] OTHER -> "wait"

\* findActionResult: the slots of cluster d whose result has the name; a
\* status of "none" is a result that is not in the list.
FindActionResult(d, status, name) ==
    {s \in Slots : status[s] # "none" /\ hook[d][s].name = name}

\* What the results of the remote say of the action waited for; a name that
\* two of them have is ambiguous.
ActionVerdict(d, status, name, absent) ==
    LET found == FindActionResult(d, status, name) IN
    CASE found = Slots -> "failed"
      [] found = {}    -> absent
      [] OTHER         -> ResultForAction(status[CHOOSE s \in found : TRUE])

TransitionMatchesDirection(t, l) == t.dir = l.dir
RemoteTransitionStartedAfter(t, l) == t.startedAt >= l.startedAt

\* checkPhase when the remote d has a transition t, l being the local one.
CheckPhase(t, l, target) ==
    IF /\ target # "Idle"
       /\ TransitionMatchesDirection(t, l)
       /\ PhaseOrder(t.phase) >= PhaseOrder(target)
       /\ RemoteTransitionStartedAfter(t, l)
    THEN "succeeded" ELSE "wait"

\* checkActionName when the remote d has a transition t.
CheckActionName(d, t, l, name) ==
    IF TransitionMatchesDirection(t, l) /\ RemoteTransitionStartedAfter(t, l)
    THEN ActionVerdict(d, t.status, name, "wait") ELSE "wait"

CheckTransition(d, t, l, a) ==
    IF a.wait = "phase" THEN CheckPhase(t, l, a.for) ELSE CheckActionName(d, t, l, a.for)

IsTerminal(e) == e.outcome \in {"Succeeded", "Failed", "ForceAdvanced"}

\* Variant: an event without a start time matches whenever it was closed.
EventMatchesTransition_AnyTime(d, k, l) ==
    /\ ev[d][k].outcome # "none"
    /\ tr[d][k].dir = l.dir
    /\ ev[d][k].startedAt # -1 => ev[d][k].startedAt >= l.startedAt

\* eventMatchesTransition: the start time decides; without it the completion
\* time, and without that one the creation time.
EventMatchesTransition(d, k, l) ==
    /\ ev[d][k].outcome # "none"
    /\ tr[d][k].dir = l.dir
    /\ LET e == ev[d][k] IN
       IF e.startedAt # -1 THEN e.startedAt >= l.startedAt
       ELSE IF e.completedAt # -1 THEN e.completedAt >= l.startedAt
       ELSE e.created >= l.startedAt

EventTimestamp(e) == IF e.completedAt # -1 THEN e.completedAt
                     ELSE IF e.startedAt # -1 THEN e.startedAt ELSE e.created

\* findRecentRemoteEvent: the matching event with the latest time, the first
\* of them in the order of their names, which ends in the start time.
FindRecentRemoteEvent(d, l) ==
    LET match == {k \in Index : EventMatchesTransition(d, k, l)} IN
    IF match = {} THEN NoEvent
    ELSE ev[d][CHOOSE k \in match : \A j \in match :
                 \/ EventTimestamp(ev[d][k]) > EventTimestamp(ev[d][j])
                 \/ EventTimestamp(ev[d][k]) = EventTimestamp(ev[d][j]) /\ k <= j]

\* Variant: an event that is still in progress counts as complete.
CheckEvents_AnyOutcome(d, l, a) ==
    LET e == FindRecentRemoteEvent(d, l) IN
    IF a.wait = "phase" THEN IF IsTerminal(e) THEN "succeeded" ELSE "wait"
    ELSE ActionVerdict(d, e.status, a.for, IF e = NoEvent THEN "wait" ELSE "failed")

\* checkPhase and checkActionName when the remote had no transition.
CheckEvents(d, l, a) ==
    LET e == FindRecentRemoteEvent(d, l) IN
    IF a.wait = "phase" THEN IF IsTerminal(e) THEN "succeeded" ELSE "wait"
    ELSE ActionVerdict(d, e.status, a.for, IF IsTerminal(e) THEN "failed" ELSE "wait")

-----------------------------------------------------------------------------
(* The FailoverEvent of the current transition.                            *)

\* Variant: the completion is stamped one second late.
UpdateFailoverEvent_Late(e, t, outcome) ==
    [e EXCEPT !.status = t.status, !.outcome = outcome, !.completedAt = now + 1]

\* updateFailoverEvent: which outcome may replace which, and what is stamped.
UpdateFailoverEvent(e, t, outcome) ==
    LET allowed == \/ e.outcome \in {"", "InProgress"}
                   \/ e.outcome = "Failed" /\ outcome = "ForceAdvanced"
                   \/ e.outcome = "ForceAdvanced" /\ outcome \in {"Failed", "Succeeded"}
        keep    == e.outcome = "ForceAdvanced" /\ outcome = "Succeeded"
    IN  IF ~allowed THEN e
        ELSE [e EXCEPT !.status = t.status,
                       !.outcome = IF keep THEN @ ELSE outcome,
                       !.completedAt = IF outcome = "ForceAdvanced" THEN @ ELSE now]

WriteEvent(c, e) == ev' = [ev EXCEPT ![c][num[c]] = e]
WriteTransition(c, t) == tr' = [tr EXCEPT ![c][num[c]] = t]

-----------------------------------------------------------------------------
Init ==
    /\ hook \in HookSets
    /\ want = [c \in Cluster |-> "failback"]
    /\ at = [c \in Cluster |-> "failback"]
    /\ num = [c \in Cluster |-> 0]
    /\ tr = [c \in Cluster |-> [k \in Index |-> NoTransition]]
    /\ ev = [c \in Cluster |-> [k \in Index |-> NoEvent]]
    /\ pc = [c \in Cluster |-> "off"]
    /\ expired = [c \in Cluster |-> FALSE]
    /\ now = 0
    /\ flips = 0 /\ trouble = 0

\* An operator, or the sync of the other cluster, changes spec.failoverActive.
Flip(c) ==
    /\ flips < MaxFlips
    /\ want' = [want EXCEPT ![c] = Opposite(@)]
    /\ flips' = flips + 1
    /\ UNCHANGED <<hook, at, num, tr, ev, pc, expired, now, trouble>>

\* reconcileIdle, beginTransition up to the write of the status.
BeginTransition(c) ==
    /\ pc[c] = "off" /\ ~InFlight(c) /\ want[c] # at[c] /\ num[c] < MaxFlips
    /\ num' = [num EXCEPT ![c] = @ + 1]
    /\ tr' = [tr EXCEPT ![c][num[c] + 1] =
                [phase |-> IF hook[c]["pre"] = NoAction THEN "UpdatingResources"
                                                        ELSE "ExecutingPreActions",
                 dir |-> want[c], startedAt |-> now,
                 status |-> [s \in Slots |-> IF hook[c][s] = NoAction THEN "none" ELSE "Pending"],
                 msg |-> [s \in Slots |-> ""]]]
    /\ pc' = [pc EXCEPT ![c] = "createEvent"]
    /\ UNCHANGED <<hook, want, at, ev, expired, now, counters>>

\* createFailoverEvent: the object, and then its status.
CreateFailoverEvent(c) ==
    /\ pc[c] = "createEvent"
    /\ WriteEvent(c, [NoEvent EXCEPT !.outcome = "", !.created = now])
    /\ pc' = [pc EXCEPT ![c] = "stampEvent"]
    /\ UNCHANGED <<hook, want, at, num, tr, expired, now, counters>>

StampFailoverEvent(c) ==
    /\ pc[c] = "stampEvent"
    /\ WriteEvent(c, [ev[c][num[c]] EXCEPT !.outcome = "InProgress",
                                           !.startedAt = Current(c).startedAt])
    /\ pc' = [pc EXCEPT ![c] = "off"]
    /\ UNCHANGED <<hook, want, at, num, tr, expired, now, counters>>

\* Variant: a failed action is run again.
StartAction_Retry(c, s) ==
    /\ pc[c] = "off" /\ InSlot(c, s) /\ Current(c).status[s] \in {"Pending", "Failed"}
    /\ WriteTransition(c, [Current(c) EXCEPT !.status[s] = "Running"])
    /\ expired' = [expired EXCEPT ![c] = FALSE]
    /\ UNCHANGED <<hook, want, at, num, ev, pc, now, counters>>

\* handleActionState, Pending: persisted as Running before it is run.
StartAction(c, s) ==
    /\ pc[c] = "off" /\ InSlot(c, s) /\ Current(c).status[s] = "Pending"
    /\ WriteTransition(c, [Current(c) EXCEPT !.status[s] = "Running"])
    /\ expired' = [expired EXCEPT ![c] = FALSE]
    /\ UNCHANGED <<hook, want, at, num, ev, pc, now, counters>>

\* Variant: no timeout while the remote has a transition to wait for.
TimeOut_Idle(c, s) ==
    /\ pc[c] = "off" /\ InSlot(c, s) /\ Current(c).status[s] = "Running"
    /\ Waits(c, s) /\ expired[c] /\ ~InFlight(Other(c))
    /\ WriteTransition(c, [Current(c) EXCEPT !.status[s] = "Failed", !.msg[s] = "timeout"])
    /\ UNCHANGED <<hook, want, at, num, ev, pc, expired, now, counters>>

\* handleActionState, the waitRemote timeout.
TimeOut(c, s) ==
    /\ pc[c] = "off" /\ InSlot(c, s) /\ Current(c).status[s] = "Running"
    /\ Waits(c, s) /\ expired[c]
    /\ WriteTransition(c, [Current(c) EXCEPT !.status[s] = "Failed", !.msg[s] = "timeout"])
    /\ UNCHANGED <<hook, want, at, num, ev, pc, expired, now, counters>>

\* runAction for an action of another kind.
RunAction(c, s) ==
    /\ pc[c] = "off" /\ InSlot(c, s) /\ Current(c).status[s] = "Running" /\ ~Waits(c, s)
    /\ \E result \in {"Succeeded", "Failed"} :
         WriteTransition(c, [Current(c) EXCEPT !.status[s] = result])
    /\ UNCHANGED <<hook, want, at, num, ev, pc, expired, now, counters>>

\* runAction for what a poll has found out.
Conclude(c, s, verdict) ==
    CASE verdict = "succeeded" ->
           WriteTransition(c, [Current(c) EXCEPT !.status[s] = "Succeeded"])
      [] verdict = "failed" ->
           WriteTransition(c, [Current(c) EXCEPT !.status[s] = "Failed", !.msg[s] = "remote"])
      [] OTHER -> UNCHANGED tr

\* runAction for a waitRemote action, the first read: the FailoverService.
\* A read that fails concludes nothing and changes nothing.
PollRemote(c, s) ==
    /\ pc[c] = "off" /\ InSlot(c, s) /\ Current(c).status[s] = "Running"
    /\ Waits(c, s) /\ ~expired[c]
    /\ \/ /\ InFlight(Other(c))
          /\ Conclude(c, s, CheckTransition(Other(c), Current(Other(c)), Current(c), hook[c][s]))
          /\ UNCHANGED pc
       \/ /\ ~InFlight(Other(c))
          /\ pc' = [pc EXCEPT ![c] = "listEvents"]
          /\ UNCHANGED tr
    /\ UNCHANGED <<hook, want, at, num, ev, expired, now, counters>>

\* The second read: the FailoverEvents.
ListRemoteEvents(c, s) ==
    /\ pc[c] = "listEvents" /\ InSlot(c, s)
    /\ Conclude(c, s, CheckEvents(Other(c), Current(c), hook[c][s]))
    /\ pc' = [pc EXCEPT ![c] = "off"]
    /\ UNCHANGED <<hook, want, at, num, ev, expired, now, counters>>

\* The list fails, or the controller restarts before it.
ListFails(c) ==
    /\ pc[c] = "listEvents"
    /\ pc' = [pc EXCEPT ![c] = "off"]
    /\ UNCHANGED <<hook, want, at, num, tr, ev, expired, now, counters>>

\* handleActionState, Failed: skipped, or the transition halts and its event
\* is closed as Failed although it is still in flight.
HandleFailed(c, s) ==
    /\ pc[c] = "off" /\ InSlot(c, s) /\ Current(c).status[s] = "Failed"
    /\ \/ /\ hook[c][s].ignore
          /\ WriteTransition(c, [Current(c) EXCEPT !.status[s] = "Skipped"])
          /\ UNCHANGED ev
       \/ /\ ~hook[c][s].ignore
          /\ WriteEvent(c, UpdateFailoverEvent(ev[c][num[c]], Current(c), "Failed"))
          /\ UNCHANGED tr
    /\ UNCHANGED <<hook, want, at, num, pc, expired, now, counters>>

\* completeTransition up to the write of the status.
Complete(c) ==
    /\ WriteTransition(c, [Current(c) EXCEPT !.phase = "Idle"])
    /\ at' = [at EXCEPT ![c] = Current(c).dir]
    /\ pc' = [pc EXCEPT ![c] = "closeEvent"]

\* Variant: the flush always ends the transition.
AdvancePhase_SkipsPost(c) ==
    /\ pc[c] = "off" /\ InFlight(c)
    /\ \/ /\ InSlot(c, "pre") /\ Current(c).status["pre"] \in {"Succeeded", "Skipped"}
          /\ WriteTransition(c, [Current(c) EXCEPT !.phase = "UpdatingResources"])
          /\ UNCHANGED <<at, pc>>
       \/ /\ Current(c).phase = "UpdatingResources"
          /\ WriteTransition(c, [Current(c) EXCEPT !.phase = "FlushingConnections"])
          /\ UNCHANGED <<at, pc>>
       \/ /\ Current(c).phase \in {"FlushingConnections", "ExecutingPostActions"}
          /\ Complete(c)
    /\ UNCHANGED <<hook, want, num, ev, expired, now, counters>>

\* executeActionPhase with no action left, reconcileUpdatingResources and
\* reconcileFlushingConnections: the next phase, or the end.
AdvancePhase(c) ==
    /\ pc[c] = "off" /\ InFlight(c)
    /\ \/ /\ InSlot(c, "pre") /\ Current(c).status["pre"] \in {"Succeeded", "Skipped"}
          /\ WriteTransition(c, [Current(c) EXCEPT !.phase = "UpdatingResources"])
          /\ UNCHANGED <<at, pc>>
       \/ /\ Current(c).phase = "UpdatingResources"
          /\ WriteTransition(c, [Current(c) EXCEPT !.phase = "FlushingConnections"])
          /\ UNCHANGED <<at, pc>>
       \/ /\ Current(c).phase = "FlushingConnections" /\ hook[c]["post"] # NoAction
          /\ WriteTransition(c, [Current(c) EXCEPT !.phase = "ExecutingPostActions"])
          /\ UNCHANGED <<at, pc>>
       \/ /\ Current(c).phase = "FlushingConnections" /\ hook[c]["post"] = NoAction
          /\ Complete(c)
       \/ /\ InSlot(c, "post")
          /\ Current(c).status["post"] \in {"none", "Succeeded", "Skipped"}
          /\ Complete(c)
    /\ UNCHANGED <<hook, want, num, ev, expired, now, counters>>

\* completeTransition, the event: after the status, so that it never says
\* more than the status.
CloseEvent(c) ==
    /\ pc[c] = "closeEvent"
    /\ WriteEvent(c, UpdateFailoverEvent(ev[c][num[c]], Current(c), "Succeeded"))
    /\ pc' = [pc EXCEPT ![c] = "off"]
    /\ UNCHANGED <<hook, want, at, num, tr, expired, now, counters>>

\* A write of the event fails and is only logged, or the controller restarts.
EventWriteFails(c) ==
    /\ pc[c] \in {"createEvent", "stampEvent", "closeEvent"} /\ trouble < MaxTrouble
    /\ pc' = [pc EXCEPT ![c] = "off"]
    /\ trouble' = trouble + 1
    /\ UNCHANGED <<hook, want, at, num, tr, ev, expired, now, flips>>

\* handleForceAdvance: the event first, with the results as they were.
ForceAdvanced(t) ==
    LET open(r) == r \notin {"none", "Succeeded", "Skipped"} IN
    CASE t.phase = "ExecutingPreActions" /\ open(t.status["pre"]) ->
           [t EXCEPT !.status["pre"] = "Skipped", !.msg["pre"] = ""]
      [] t.phase = "ExecutingPostActions" /\ open(t.status["post"]) ->
           [t EXCEPT !.status["post"] = "Skipped", !.msg["post"] = ""]
      [] t.phase = "UpdatingResources" -> [t EXCEPT !.phase = "FlushingConnections"]
      [] t.phase = "FlushingConnections" -> [t EXCEPT !.phase = "ExecutingPostActions"]
      [] OTHER -> t

\* Each of the two writes may fail, the first without stopping the second.
ForceAdvance(c) ==
    /\ pc[c] = "off" /\ InFlight(c) /\ trouble < MaxTrouble
    /\ \E e \in {ev[c][num[c]], UpdateFailoverEvent(ev[c][num[c]], Current(c), "ForceAdvanced")} :
         WriteEvent(c, e)
    /\ \E t \in {Current(c), ForceAdvanced(Current(c))} : WriteTransition(c, t)
    /\ trouble' = trouble + 1
    /\ UNCHANGED <<hook, want, at, num, pc, expired, now, flips>>

\* Time passes: past the deadline of a running wait, or to the next second.
Expire(c) ==
    /\ \E s \in Slots : InSlot(c, s) /\ Current(c).status[s] = "Running" /\ Waits(c, s)
    /\ ~expired[c]
    /\ expired' = [expired EXCEPT ![c] = TRUE]
    /\ UNCHANGED <<hook, want, at, num, tr, ev, pc, now, counters>>

Tick ==
    /\ now < MaxTime
    /\ now' = now + 1
    /\ UNCHANGED <<hook, want, at, num, tr, ev, pc, expired, counters>>

\* The steps the controller of a cluster takes by itself.
Reconcile(c) ==
    \/ BeginTransition(c)
    \/ CreateFailoverEvent(c)
    \/ StampFailoverEvent(c)
    \/ \E s \in Slots : \/ StartAction(c, s) \/ TimeOut(c, s) \/ RunAction(c, s)
                        \/ PollRemote(c, s) \/ ListRemoteEvents(c, s) \/ HandleFailed(c, s)
    \/ ListFails(c)
    \/ AdvancePhase(c)
    \/ CloseEvent(c)
    \/ EventWriteFails(c)

Next ==
    \/ \E c \in Cluster : Flip(c) \/ Reconcile(c) \/ ForceAdvance(c) \/ Expire(c)
    \/ Tick

Spec == Init /\ [][Next]_vars

\* The workqueue of each controller keeps serving, and time keeps passing.
FairSpec == Spec /\ \A c \in Cluster : WF_vars(Reconcile(c)) /\ WF_vars(Expire(c))

-----------------------------------------------------------------------------
(* Properties.                                                             *)

\* Every variable has its type.
TypeOK ==
    /\ hook \in HookSets
    /\ want \in [Cluster -> Directions] /\ at \in [Cluster -> Directions]
    /\ num \in [Cluster -> 0..MaxFlips]
    /\ tr \in [Cluster -> [Index -> Transition]]
    /\ ev \in [Cluster -> [Index -> Event]]
    /\ pc \in [Cluster -> {"off", "createEvent", "stampEvent", "closeEvent", "listEvents"}]
    /\ expired \in [Cluster -> BOOLEAN]
    /\ now \in 0..MaxTime
    /\ flips \in 0..MaxFlips /\ trouble \in 0..MaxTrouble

\* The k-th transition of cluster d is one a wait in transition l may rely on:
\* it has the same direction and began no earlier than l or, when its event was
\* closed without ever having got a start time, that event was completed, or if it
\* has no completion time either created, no earlier than l began.
Correlated(d, k, l) ==
    /\ tr[d][k].phase # "None" /\ tr[d][k].dir = l.dir
    /\ \/ tr[d][k].startedAt >= l.startedAt
       \/ /\ ev[d][k].startedAt = -1 /\ IsTerminal(ev[d][k])
          /\ EventTimestamp(ev[d][k]) >= l.startedAt

\* It has reached the phase; "Idle" is reached by completing.
Reached(t, target) ==
    \/ t.phase = "Idle"
    \/ target # "Idle" /\ PhaseOrder(t.phase) >= PhaseOrder(target)

\* Its event has been closed by a failed or a skipped action, and it may be in flight.
ClosedEarly(e) == e.outcome \in {"Failed", "ForceAdvanced"}

\* The wait action of a slot of cluster c is right to succeed.
Backs(c, s, d, k) ==
    IF hook[c][s].wait = "phase"
    THEN Reached(tr[d][k], hook[c][s].for) \/ ClosedEarly(ev[d][k])
    ELSE \E r \in Slots : /\ hook[d][r].name = hook[c][s].for
                          /\ tr[d][k].status[r] \in {"Succeeded", "Skipped"}

\* A waitRemote action succeeds only on the strength of a transition the remote
\* really made: in the same direction, begun no earlier than the local one (or, if
\* the write of its event's start time was lost, closed or created no earlier), and
\* arrived where the action waits for it, except that an event closed early
\* counts as the end of the transition (checkPhase, checkActionName,
\* eventMatchesTransition).
SuccessEvidence(c, i, s) ==
    \E k \in Index : Correlated(Other(c), k, tr[c][i]) /\ Backs(c, s, Other(c), k)
SuccessBacked ==
    \A c \in Cluster, i \in Index, s \in Slots :
        Waits(c, s) /\ tr[c][i].status[s] = "Succeeded" => SuccessEvidence(c, i, s)

\* The actions of cluster d with that name.
Named(d, name) == {r \in Slots : hook[d][r] # NoAction /\ hook[d][r].name = name}

\* A waitRemote action is failed by the remote, and not by its own timeout,
\* only if a transition of the remote that is correlated with its own had that
\* action fail, has two of that name, or none (checkActionName,
\* eventMatchesTransition).
FailureEvidence(c, i, s) ==
    \E k \in Index :
        /\ Correlated(Other(c), k, tr[c][i])
        /\ \/ Named(Other(c), hook[c][s].for) \in {{}, Slots}
           \/ \E r \in Named(Other(c), hook[c][s].for) :
                tr[Other(c)][k].status[r] \in {"Failed", "Skipped"}
FailureBacked ==
    \A c \in Cluster, i \in Index, s \in Slots :
        tr[c][i].msg[s] = "remote" => hook[c][s].wait = "action" /\ FailureEvidence(c, i, s)

\* A result that is final stays what it is, and a failed one is only ever
\* skipped: what one cluster has acted on, the other does not take back
\* (handleActionState, forceAdvanceActionPhase).
ResultsStand ==
    [][\A c \in Cluster, i \in Index, s \in Slots :
          LET old == tr[c][i].status[s]
              new == tr'[c][i].status[s]
          IN  /\ old \in {"Succeeded", "Skipped"} => new = old
              /\ old = "Failed" => new \in {"Failed", "Skipped"}]_vars

\* A FailoverEvent that says Succeeded is that of a completed transition, lists
\* its results as they ended, and every action there has succeeded or was
\* skipped; one that says Failed lists a failed action that nothing ignores:
\* whichever event writes are lost, and whatever is forced before or after
\* (updateFailoverEvent, completeTransition, handleForceAdvance).
EventsAccurate ==
    \A c \in Cluster, k \in Index :
        /\ ev[c][k].outcome = "Succeeded" =>
             /\ tr[c][k].phase = "Idle" /\ ev[c][k].status = tr[c][k].status
             /\ \A s \in Slots : tr[c][k].status[s] \in {"none", "Succeeded", "Skipped"}
        /\ ev[c][k].outcome = "Failed" =>
             \E s \in Slots : ev[c][k].status[s] = "Failed" /\ ~hook[c][s].ignore

\* An action of the current transition has failed and nothing ignores that.
Halted(c) == \E s \in Slots : /\ InSlot(c, s) /\ Current(c).status[s] = "Failed"
                              /\ ~hook[c][s].ignore

\* Clusters that wait for each other, or for a transition that never comes, do
\* not wait for ever: every transition completes or halts for the operator
\* (the waitRemote timeout of handleActionState).
EveryWaitEnds == \A c \in Cluster : InFlight(c) ~> (~InFlight(c) \/ Halted(c))

\* What the comment in checkPhase says: a wait for idle that succeeds has seen
\* a remote transition that completed.
IdleMeansCompleted ==
    \A c \in Cluster, i \in Index, s \in Slots :
        hook[c][s].wait = "phase" /\ hook[c][s].for = "Idle" /\ tr[c][i].status[s] = "Succeeded"
        => \E k \in Index : /\ tr[Other(c)][k].dir = tr[c][i].dir
                            /\ tr[Other(c)][k].phase = "Idle"
=============================================================================
