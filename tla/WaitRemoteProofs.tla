-------------------------- MODULE WaitRemoteProofs --------------------------
(* Theorems about WaitRemote, for any hooks and any bounds. *)
EXTENDS WaitRemote, WellFoundedInduction, TLAPS

-----------------------------------------------------------------------------
(* The clusters, the events *)

LEMMA OtherCluster ==
    ASSUME NEW c \in Cluster
    PROVE  Other(c) \in Cluster /\ Other(c) # c
  <1>1. \E d \in Cluster : d # c
    BY PairAssumption
  <1> QED
    BY <1>1 DEF Other

LEMMA LeastNat ==
    ASSUME NEW S \in SUBSET Nat, S # {}
    PROVE  \E n \in S : \A m \in S : n <= m
  <1>1. PICK n \in S : \A m \in S : ~(<<m, n>> \in OpToRel(<, Nat))
    BY NatLessThanWellFounded, WFMin
  <1>2. ASSUME NEW m \in S PROVE n <= m
    <2>1. m \in Nat /\ n \in Nat
      OBVIOUS
    <2>2. ~(m < n)
      BY <1>1, <2>1 DEF OpToRel
    <2> QED
      BY <2>1, <2>2
  <1> QED
    BY <1>2

-----------------------------------------------------------------------------
(* The inductive invariant *)

Final == {"Succeeded", "Skipped"}

\* What a transition t of cluster c and its event e say of each other.
RecordOK(c, t, e) ==
    /\ t.phase = "None" => t = NoTransition /\ e = NoEvent
    /\ t.phase # "None" => \A s \in Slots : t.status[s] = "none" <=> hook[c][s] = NoAction
    /\ ~IsTerminal(e) => \A s \in Slots : e.status[s] = "none"
    /\ IsTerminal(e) => \A s \in Slots : e.status[s] = "none" <=> hook[c][s] = NoAction
    /\ \A s \in Slots : e.status[s] \in Final => t.status[s] \in Final
    /\ \A s \in Slots : e.status[s] = "Failed" => t.status[s] \in {"Failed", "Skipped"}
    /\ e.outcome = "Succeeded" => t.phase = "Idle"
    /\ e.startedAt # -1 => e.startedAt = t.startedAt

Records == \A c \in Cluster, k \in Index :
             /\ RecordOK(c, tr[c][k], ev[c][k])
             /\ tr[c][k].phase # "None" <=> k <= num[c]

\* What a reconcile in flight relies on.
PcOK(c) ==
    /\ pc[c] = "createEvent" => num[c] > 0 /\ ev[c][num[c]] = NoEvent
    /\ pc[c] = "stampEvent" => num[c] > 0 /\ ev[c][num[c]].outcome = ""
    /\ pc[c] = "closeEvent" => num[c] > 0 /\ Current(c).phase = "Idle"
    /\ pc[c] = "listEvents" => \E s \in Slots : /\ InSlot(c, s) /\ Waits(c, s)
                                                /\ Current(c).status[s] = "Running"

\* No transition begins in the future, so that an event closed now is late
\* enough for every one of them.
Begun == \A c \in Cluster, k \in Index : tr[c][k].startedAt <= now

WaitInv ==
    /\ TypeOK
    /\ Records
    /\ Begun
    /\ \A c \in Cluster : PcOK(c)
    /\ SuccessBacked
    /\ FailureBacked

\* How a transition t with its event e may go on: to u with f.
Evolves(t, e, u, f) ==
    /\ u.phase # "None" /\ u.dir = t.dir /\ u.startedAt = t.startedAt
    /\ \A p : Reached(t, p) => Reached(u, p)
    /\ \A s \in Slots : /\ t.status[s] \in Final => u.status[s] = t.status[s]
                        /\ t.status[s] = "Failed" => u.status[s] \in {"Failed", "Skipped"}
    /\ ClosedEarly(e) => ClosedEarly(f)
    /\ e.startedAt = -1 /\ IsTerminal(e) =>
         f.startedAt = -1 /\ IsTerminal(f) /\ EventTimestamp(f) \in {EventTimestamp(e), now}

-----------------------------------------------------------------------------
(* What a poll concludes *)

\* The event found is one of those that match.
LEMMA FoundEvent ==
    ASSUME TypeOK, NEW d \in Cluster, NEW l \in Transition,
           FindRecentRemoteEvent(d, l) # NoEvent
    PROVE  \E k \in Index : /\ EventMatchesTransition(d, k, l)
                            /\ FindRecentRemoteEvent(d, l) = ev[d][k]
  <1> DEFINE match == {k \in Index : EventMatchesTransition(d, k, l)}
             T(k)  == EventTimestamp(ev[d][k])
             Best(k) == \A j \in match : T(k) > T(j) \/ (T(k) = T(j) /\ k <= j)
  <1>1. match # {}
    BY DEF FindRecentRemoteEvent
  <1>2. \A k \in match : k \in Nat /\ T(k) \in Int /\ T(k) <= MaxTime
    BY WaitBoundAssumption DEF TypeOK, Event, Times, EventTimestamp, Index
  <1> HIDE DEF T
  <1>3. PICK k0 \in match : \A j \in match : T(j) <= T(k0)
    <2> DEFINE S == {MaxTime - T(k) : k \in match}
    <2>1. S \in SUBSET Nat /\ S # {}
      BY <1>1, <1>2, WaitBoundAssumption
    <2>2. PICK n \in S : \A m \in S : n <= m
      BY <2>1, LeastNat
    <2>3. PICK k1 \in match : n = MaxTime - T(k1)
      OBVIOUS
    <2>4. ASSUME NEW j \in match PROVE T(j) <= T(k1)
      <3>1. n <= MaxTime - T(j)
        BY <2>2
      <3> QED
        BY <3>1, <2>3, <1>2, WaitBoundAssumption
    <2> QED
      BY <2>4
  <1>4. PICK k \in match : T(k) = T(k0) /\ \A j \in match : T(j) = T(k0) => k <= j
    <2> DEFINE S == {j \in match : T(j) = T(k0)}
    <2>1. S \in SUBSET Nat /\ S # {}
      BY <1>2
    <2> QED
      BY <2>1, LeastNat
  <1>5. Best(k)
    BY <1>2, <1>3, <1>4
  <1>6. (CHOOSE j \in match : Best(j)) \in match
    BY <1>5
  <1>7. FindRecentRemoteEvent(d, l) = ev[d][CHOOSE j \in match : Best(j)]
    BY <1>1 DEF FindRecentRemoteEvent, T
  <1> QED
    BY <1>6, <1>7

LEMMA VerdictMeans ==
    ASSUME NEW d \in Cluster, NEW status \in [Slots -> Statuses], NEW name, NEW absent
    PROVE  LET found == FindActionResult(d, status, name) IN
           /\ ActionVerdict(d, status, name, absent) = "succeeded" /\ absent # "succeeded"
              => \E s \in found : status[s] \in Final
           /\ ActionVerdict(d, status, name, absent) = "failed"
              => \/ found = Slots
                 \/ found = {} /\ absent = "failed"
                 \/ \E s \in found : status[s] = "Failed"
  <1> DEFINE found == FindActionResult(d, status, name)
  <1>1. CASE found = Slots
    <2>1. ActionVerdict(d, status, name, absent) = "failed"
      BY <1>1 DEF ActionVerdict, Slots
    <2> QED
      BY <1>1, <2>1
  <1>2. CASE found = {}
    <2>1. ActionVerdict(d, status, name, absent) = absent
      BY <1>2 DEF ActionVerdict, Slots
    <2> QED
      BY <1>2, <2>1
  <1>3. CASE found # {} /\ found # Slots
    <2> DEFINE s == CHOOSE s \in found : TRUE
    <2>1. s \in found
      BY <1>3
    <2>2. ActionVerdict(d, status, name, absent) = ResultForAction(status[s])
      BY <1>3 DEF ActionVerdict
    <2>3. s \in Slots
      BY <2>1 DEF FindActionResult
    <2> HIDE DEF s, found
    <2>4. status[s] \in Statuses
      BY <2>3
    <2>5. ResultForAction(status[s]) = "succeeded" => status[s] \in Final
      BY <2>4 DEF ResultForAction, Statuses, Final
    <2>6. ResultForAction(status[s]) = "failed" => status[s] = "Failed"
      BY <2>4 DEF ResultForAction, Statuses
    <2> QED
      BY <2>1, <2>2, <2>5, <2>6 DEF found
  <1> QED
    BY <1>1, <1>2, <1>3

\* A verdict on the transition the remote has in flight is backed by it.
LEMMA TransitionVerdict ==
    ASSUME WaitInv, NEW c \in Cluster, NEW s \in Slots, num[c] \in Index, Waits(c, s),
           InFlight(Other(c)),
           NEW v, v = CheckTransition(Other(c), Current(Other(c)), Current(c), hook[c][s])
    PROVE  /\ v = "succeeded" => SuccessEvidence(c, num[c], s)
           /\ v = "failed" => hook[c][s].wait = "action" /\ FailureEvidence(c, num[c], s)
  <1> DEFINE d == Other(c)
             k == num[d]
             a == hook[c][s]
  <1>1. d \in Cluster
    BY OtherCluster
  <1>2. k \in Index
    BY <1>1, WaitBoundAssumption DEF WaitInv, TypeOK, InFlight, Index
  <1>3. tr[d][k] \in Transition /\ tr[d][k].phase # "None" /\ RecordOK(d, tr[d][k], ev[d][k])
    <2>1. k <= k
      BY <1>2, WaitBoundAssumption DEF Index
    <2>2. tr[d][k] \in Transition
      BY <1>1, <1>2 DEF WaitInv, TypeOK
    <2> QED
      BY <1>1, <1>2, <2>1, <2>2 DEF WaitInv, Records
  <1>4. hook \in [Cluster -> [Slots -> Action]]
    BY HookAssumption DEF WaitInv, TypeOK
  <1>5. a \in Action /\ a.wait \in {"phase", "action"}
    BY <1>4 DEF Waits, Action
  <1>6. v = "succeeded" \/ v = "failed" => Correlated(d, k, tr[c][num[c]])
    <2>1. ASSUME v = "succeeded" \/ v = "failed"
          PROVE  TransitionMatchesDirection(tr[d][k], tr[c][num[c]])
                 /\ RemoteTransitionStartedAfter(tr[d][k], tr[c][num[c]])
      BY <2>1, <1>5 DEF CheckTransition, CheckPhase, CheckActionName, Current
    <2> QED
      BY <2>1, <1>3 DEF Correlated, TransitionMatchesDirection, RemoteTransitionStartedAfter
  <1>7. CASE a.wait = "phase"
    <2>1. v = CheckPhase(tr[d][k], tr[c][num[c]], a.for)
      BY <1>7 DEF CheckTransition, Current
    <2>2. v = "succeeded" => Backs(c, s, d, k)
      BY <1>7, <2>1 DEF CheckPhase, Backs, Reached
    <2>3. v # "failed"
      BY <2>1 DEF CheckPhase
    <2> QED
      BY <1>2, <1>6, <2>2, <2>3 DEF SuccessEvidence
  <1>8. CASE a.wait = "action"
    <2> DEFINE found == FindActionResult(d, tr[d][k].status, a.for)
    <2>1. CASE v \notin {"succeeded", "failed"}
      BY <2>1
    <2>2. CASE v \in {"succeeded", "failed"}
      <3>1. v = ActionVerdict(d, tr[d][k].status, a.for, "wait")
        BY <1>8, <2>2 DEF CheckTransition, CheckActionName, Current
      <3>2. tr[d][k].status \in [Slots -> Statuses]
        BY <1>3 DEF Transition
      <3>3. found = Named(d, a.for)
        BY <1>3 DEF RecordOK, FindActionResult, Named
      <3>4. v = "succeeded" => \E r \in found : tr[d][k].status[r] \in Final
        BY <1>1, <3>1, <3>2, VerdictMeans
      <3>5. v = "failed" => found = Slots \/ \E r \in found : tr[d][k].status[r] = "Failed"
        BY <1>1, <3>1, <3>2, VerdictMeans
      <3>6. v = "succeeded" => Backs(c, s, d, k)
        BY <1>8, <3>4 DEF Backs, FindActionResult, Final
      <3> QED
        BY <1>2, <1>6, <1>8, <2>2, <3>3, <3>5, <3>6 DEF SuccessEvidence, FailureEvidence
    <2> QED
      BY <2>1, <2>2
  <1> QED
    BY <1>5, <1>7, <1>8

\* A verdict on the events of the remote is backed by the transition of one.
LEMMA EventVerdict ==
    ASSUME WaitInv, NEW c \in Cluster, NEW s \in Slots, num[c] \in Index, Waits(c, s),
           NEW v, v = CheckEvents(Other(c), Current(c), hook[c][s])
    PROVE  /\ v = "succeeded" => SuccessEvidence(c, num[c], s)
           /\ v = "failed" => hook[c][s].wait = "action" /\ FailureEvidence(c, num[c], s)
  <1> DEFINE d == Other(c)
             l == tr[c][num[c]]
             a == hook[c][s]
             e == FindRecentRemoteEvent(d, l)
  <1>1. d \in Cluster
    BY OtherCluster
  <1>2. l \in Transition /\ l = Current(c)
    BY DEF WaitInv, TypeOK, Current
  <1>3. hook \in [Cluster -> [Slots -> Action]]
    BY HookAssumption DEF WaitInv, TypeOK
  <1>4. a \in Action /\ a.wait \in {"phase", "action"}
    BY <1>3 DEF Waits, Action
  <1>5. CASE e = NoEvent
    <2>1. ~IsTerminal(e) /\ \A r \in Slots : e.status[r] = "none"
      BY <1>5 DEF NoEvent, IsTerminal
    <2>2. FindActionResult(d, e.status, a.for) = {}
      BY <2>1 DEF FindActionResult
    <2>3. ActionVerdict(d, e.status, a.for, "wait") = "wait"
      BY <2>2 DEF ActionVerdict, Slots
    <2>4. v = "wait"
      BY <1>2, <2>1, <2>3 DEF CheckEvents
    <2> QED
      BY <2>4
  <1>6. CASE e # NoEvent
    <2>1. PICK k \in Index : EventMatchesTransition(d, k, l) /\ e = ev[d][k]
      BY <1>1, <1>2, <1>6, FoundEvent DEF WaitInv
    <2>2. /\ tr[d][k] \in Transition /\ ev[d][k] \in Event
          /\ RecordOK(d, tr[d][k], ev[d][k])
      BY <1>1 DEF WaitInv, TypeOK, Records
    <2>3. tr[d][k].phase # "None"
      BY <1>6, <2>1, <2>2 DEF RecordOK
    <2>4. IsTerminal(e) => Correlated(d, k, l)
      BY <2>1, <2>2, <2>3 DEF EventMatchesTransition, EventTimestamp, Correlated, RecordOK
    <2>5. CASE a.wait = "phase"
      <3>1. v = "succeeded" => IsTerminal(e)
        BY <1>2, <2>5 DEF CheckEvents
      <3>2. v # "failed"
        BY <1>2, <2>5 DEF CheckEvents
      <3>3. IsTerminal(e) => Backs(c, s, d, k)
        BY <2>1, <2>2, <2>5 DEF IsTerminal, RecordOK, Backs, Reached, ClosedEarly
      <3> QED
        BY <2>4, <3>1, <3>2, <3>3 DEF SuccessEvidence
    <2>6. CASE a.wait = "action"
      <3> DEFINE found == FindActionResult(d, e.status, a.for)
                 absent == IF IsTerminal(e) THEN "failed" ELSE "wait"
      <3>1. v = ActionVerdict(d, e.status, a.for, absent)
        BY <1>2, <2>6 DEF CheckEvents
      <3>2. e.status \in [Slots -> Statuses]
        BY <2>1, <2>2 DEF Event
      <3>3. CASE ~IsTerminal(e)
        <4>1. found = {}
          BY <2>1, <2>2, <3>3 DEF RecordOK, FindActionResult
        <4>2. v = "wait"
          BY <3>1, <3>3, <4>1 DEF ActionVerdict, Slots
        <4> QED
          BY <4>2
      <3>4. CASE IsTerminal(e)
        <4>1. found = Named(d, a.for)
          BY <2>1, <2>2, <3>4 DEF RecordOK, FindActionResult, Named
        <4>2. v = "succeeded" => \E r \in found : e.status[r] \in Final
          BY <1>1, <3>1, <3>2, <3>4, VerdictMeans
        <4>3. v = "failed" => \/ found \in {{}, Slots}
                              \/ \E r \in found : e.status[r] = "Failed"
          BY <1>1, <3>1, <3>2, VerdictMeans
        <4>4. v = "succeeded" => Backs(c, s, d, k)
          BY <2>1, <2>2, <2>6, <4>2 DEF Backs, FindActionResult, RecordOK, Final
        <4>5. v = "failed" =>
                \/ Named(d, a.for) \in {{}, Slots}
                \/ \E r \in Named(d, a.for) : tr[d][k].status[r] \in {"Failed", "Skipped"}
          BY <2>1, <2>2, <4>1, <4>3 DEF RecordOK, Named
        <4> QED
          BY <2>4, <2>6, <3>4, <4>4, <4>5 DEF SuccessEvidence, FailureEvidence
      <3> QED
        BY <3>3, <3>4
    <2> QED
      BY <1>4, <2>5, <2>6
  <1> QED
    BY <1>5, <1>6

-----------------------------------------------------------------------------
(* What a step of one cluster leaves standing *)

\* ResultsStand, of one step.
Stands == \A c \in Cluster, i \in Index, s \in Slots :
            LET old == tr[c][i].status[s]
                new == tr'[c][i].status[s]
            IN  /\ old \in {"Succeeded", "Skipped"} => new = old
                /\ old = "Failed" => new \in {"Failed", "Skipped"}

\* Evidence outlasts a step in which every transition only goes on, so that
\* verdicts stay backed if the new ones are.
LEMMA BackedKept ==
    ASSUME WaitInv, hook' = hook,
           \A d \in Cluster, k \in Index :
              tr[d][k].phase # "None" => Evolves(tr[d][k], ev[d][k], tr'[d][k], ev'[d][k]),
           \A c \in Cluster, i \in Index, s \in Slots :
              Waits(c, s) /\ tr'[c][i].status[s] = "Succeeded"
              => \/ tr[c][i].status[s] = "Succeeded"
                 \/ tr[c][i].phase # "None" /\ SuccessEvidence(c, i, s),
           \A c \in Cluster, i \in Index, s \in Slots :
              tr'[c][i].msg[s] = "remote"
              => \/ tr[c][i].msg[s] = "remote"
                 \/ /\ tr[c][i].phase # "None" /\ hook[c][s].wait = "action"
                    /\ FailureEvidence(c, i, s)
    PROVE  SuccessBacked' /\ FailureBacked'
  <1>1. ASSUME NEW c \in Cluster, NEW i \in Index, tr[c][i].phase # "None",
               NEW k \in Index, Correlated(Other(c), k, tr[c][i])
        PROVE  Correlated(Other(c), k, tr[c][i])'
    <2>1. Other(c) \in Cluster
      BY OtherCluster
    <2>2. /\ Evolves(tr[c][i], ev[c][i], tr'[c][i], ev'[c][i])
          /\ Evolves(tr[Other(c)][k], ev[Other(c)][k], tr'[Other(c)][k], ev'[Other(c)][k])
      BY <1>1, <2>1 DEF Correlated
    <2>3. tr[c][i].startedAt <= now
      BY DEF WaitInv, Begun
    <2>4. IsTerminal(ev[Other(c)][k])' <=> IsTerminal(ev'[Other(c)][k])
      BY DEF IsTerminal
    <2>5. EventTimestamp(ev[Other(c)][k])' = EventTimestamp(ev'[Other(c)][k])
      BY DEF EventTimestamp
    <2> QED
      BY <1>1, <2>2, <2>3, <2>4, <2>5 DEF Correlated, Evolves
  <1>2. ASSUME NEW c \in Cluster, NEW i \in Index, NEW s \in Slots
        PROVE  tr[c][i].phase = "None" => tr[c][i].status[s] = "none" /\ tr[c][i].msg[s] = ""
    <2>1. RecordOK(c, tr[c][i], ev[c][i])
      BY DEF WaitInv, Records
    <2>2. NoTransition.status[s] = "none" /\ NoTransition.msg[s] = ""
      BY DEF NoTransition
    <2> QED
      BY <2>1, <2>2 DEF RecordOK
  <1>3. SuccessBacked'
    <2> SUFFICES ASSUME NEW c \in Cluster, NEW i \in Index, NEW s \in Slots,
                        Waits(c, s)', tr'[c][i].status[s] = "Succeeded"
                 PROVE  SuccessEvidence(c, i, s)'
      BY DEF SuccessBacked
    <2>1. Waits(c, s)
      BY DEF Waits
    <2>2. tr[c][i].phase # "None" /\ SuccessEvidence(c, i, s)
      <3>1. CASE tr[c][i].status[s] = "Succeeded"
        <4>1. SuccessEvidence(c, i, s)
          BY <2>1, <3>1 DEF WaitInv, SuccessBacked
        <4>2. tr[c][i].phase # "None"
          BY <1>2, <3>1
        <4> QED
          BY <4>1, <4>2
      <3>2. CASE tr[c][i].status[s] # "Succeeded"
        BY <2>1, <3>2
      <3> QED
        BY <3>1, <3>2
    <2>3. PICK k \in Index : Correlated(Other(c), k, tr[c][i]) /\ Backs(c, s, Other(c), k)
      BY <2>2 DEF SuccessEvidence
    <2>4. Correlated(Other(c), k, tr[c][i])'
      BY <1>1, <2>2, <2>3
    <2>5. Evolves(tr[Other(c)][k], ev[Other(c)][k], tr'[Other(c)][k], ev'[Other(c)][k])
      BY <2>3, OtherCluster DEF Correlated
    <2>6. Backs(c, s, Other(c), k)'
      BY <2>3, <2>5 DEF Backs, Evolves, Final
    <2> QED
      BY <2>4, <2>6 DEF SuccessEvidence
  <1>4. FailureBacked'
    <2> SUFFICES ASSUME NEW c \in Cluster, NEW i \in Index, NEW s \in Slots,
                        tr'[c][i].msg[s] = "remote"
                 PROVE  hook'[c][s].wait = "action" /\ FailureEvidence(c, i, s)'
      BY DEF FailureBacked
    <2>1. /\ tr[c][i].phase # "None" /\ hook[c][s].wait = "action"
          /\ FailureEvidence(c, i, s)
      <3>1. CASE tr[c][i].msg[s] = "remote"
        <4>1. hook[c][s].wait = "action" /\ FailureEvidence(c, i, s)
          BY <3>1 DEF WaitInv, FailureBacked
        <4>2. tr[c][i].phase # "None"
          BY <1>2, <3>1
        <4> QED
          BY <4>1, <4>2
      <3>2. CASE tr[c][i].msg[s] # "remote"
        BY <3>2
      <3> QED
        BY <3>1, <3>2
    <2>2. PICK k \in Index :
            /\ Correlated(Other(c), k, tr[c][i])
            /\ \/ Named(Other(c), hook[c][s].for) \in {{}, Slots}
               \/ \E r \in Named(Other(c), hook[c][s].for) :
                    tr[Other(c)][k].status[r] \in {"Failed", "Skipped"}
      BY <2>1 DEF FailureEvidence
    <2>3. Correlated(Other(c), k, tr[c][i])'
      BY <1>1, <2>1, <2>2
    <2>4. Evolves(tr[Other(c)][k], ev[Other(c)][k], tr'[Other(c)][k], ev'[Other(c)][k])
      BY <2>2, OtherCluster DEF Correlated
    <2>5. ASSUME NEW r \in Named(Other(c), hook[c][s].for),
                 tr[Other(c)][k].status[r] \in {"Failed", "Skipped"}
          PROVE  tr'[Other(c)][k].status[r] \in {"Failed", "Skipped"}
      BY <2>4, <2>5 DEF Evolves, Named, Final
    <2>6. Named(Other(c), hook[c][s].for)' = Named(Other(c), hook[c][s].for)
      BY DEF Named
    <2> QED
      BY <2>1, <2>2, <2>3, <2>5, <2>6 DEF FailureEvidence
  <1> QED
    BY <1>3, <1>4

\* TypeOK without the transitions and their events.
Scalars ==
    /\ hook \in HookSets
    /\ want \in [Cluster -> Directions] /\ at \in [Cluster -> Directions]
    /\ num \in [Cluster -> 0..MaxFlips]
    /\ pc \in [Cluster -> {"off", "createEvent", "stampEvent", "closeEvent", "listEvents"}]
    /\ expired \in [Cluster -> BOOLEAN]
    /\ now \in 0..MaxTime
    /\ flips \in 0..MaxFlips /\ trouble \in 0..MaxTrouble

\* The scalars after a step: typed, and the clock at most one second on.
Moves == Scalars' /\ now' \in {now, now + 1}

LEMMA ClockOn ==
    ASSUME WaitInv, Moves, NEW d \in Cluster, NEW k \in Index
    PROVE  tr[d][k].startedAt <= now'
  <1>1. tr[d][k].startedAt \in 0..MaxTime /\ now \in 0..MaxTime /\ tr[d][k].startedAt <= now
    BY DEF WaitInv, TypeOK, Transition, Begun
  <1>2. now' = now \/ now' = now + 1
    BY DEF Moves
  <1> QED
    BY <1>1, <1>2, WaitBoundAssumption

\* A step of cluster c that writes u as its transition and f as its event.
LEMMA UpdateKept ==
    ASSUME WaitInv, NEW c \in Cluster, num[c] \in Index,
           NEW u \in Transition, NEW f \in Event,
           tr' = [tr EXCEPT ![c][num[c]] = u], ev' = [ev EXCEPT ![c][num[c]] = f],
           UNCHANGED <<hook, num>>, Moves,
           Evolves(Current(c), ev[c][num[c]], u, f), RecordOK(c, u, f),
           \A s \in Slots : Waits(c, s) /\ u.status[s] = "Succeeded"
                            => \/ Current(c).status[s] = "Succeeded"
                               \/ SuccessEvidence(c, num[c], s),
           \A s \in Slots : u.msg[s] = "remote"
                            => \/ Current(c).msg[s] = "remote"
                               \/ hook[c][s].wait = "action" /\ FailureEvidence(c, num[c], s)
    PROVE  /\ tr' \in [Cluster -> [Index -> Transition]] /\ ev' \in [Cluster -> [Index -> Event]]
           /\ Records' /\ Begun' /\ SuccessBacked' /\ FailureBacked' /\ Stands
  <1>1. /\ tr \in [Cluster -> [Index -> Transition]] /\ ev \in [Cluster -> [Index -> Event]]
        /\ num \in [Cluster -> 0..MaxFlips]
    BY DEF WaitInv, TypeOK
  <1>2. tr' \in [Cluster -> [Index -> Transition]] /\ ev' \in [Cluster -> [Index -> Event]]
    BY <1>1
  <1>3. tr'[c][num[c]] = u /\ ev'[c][num[c]] = f
    BY <1>1
  <1>4. ASSUME NEW d \in Cluster, NEW k \in Index, d # c \/ k # num[c]
        PROVE  tr'[d][k] = tr[d][k] /\ ev'[d][k] = ev[d][k]
    BY <1>1, <1>4
  <1>5. tr[c][num[c]].phase # "None"
    <2>1. num[c] <= num[c]
      BY WaitBoundAssumption DEF Index
    <2> QED
      BY <2>1 DEF WaitInv, Records
  <1>6. Records'
    <2> SUFFICES ASSUME NEW d \in Cluster, NEW k \in Index
                 PROVE  RecordOK(d, tr[d][k], ev[d][k])' /\ (tr[d][k].phase # "None" <=> k <= num[d])'
      BY DEF Records
    <2>1. CASE d = c /\ k = num[c]
      <3>1. RecordOK(d, tr'[d][k], ev'[d][k])
        BY <1>3, <2>1
      <3>2. tr'[d][k].phase # "None" /\ k <= num'[d]
        BY <1>3, <2>1, WaitBoundAssumption DEF Evolves, Index
      <3> QED
        BY <3>1, <3>2 DEF RecordOK
    <2>2. CASE d # c \/ k # num[c]
      <3>1. RecordOK(d, tr'[d][k], ev'[d][k]) /\ (tr'[d][k].phase # "None" <=> k <= num[d])
        BY <1>4, <2>2 DEF WaitInv, Records
      <3> QED
        BY <3>1 DEF RecordOK
    <2> QED
      BY <2>1, <2>2
  <1>7. ASSUME NEW d \in Cluster, NEW k \in Index, tr[d][k].phase # "None"
        PROVE  Evolves(tr[d][k], ev[d][k], tr'[d][k], ev'[d][k])
    <2>1. CASE d = c /\ k = num[c]
      BY <1>3, <2>1 DEF Current
    <2>2. CASE d # c \/ k # num[c]
      BY <1>4, <1>7, <2>2 DEF Evolves
    <2> QED
      BY <2>1, <2>2
  <1>8. ASSUME NEW d \in Cluster, NEW i \in Index, NEW s \in Slots,
               Waits(d, s), tr'[d][i].status[s] = "Succeeded"
        PROVE  \/ tr[d][i].status[s] = "Succeeded"
               \/ tr[d][i].phase # "None" /\ SuccessEvidence(d, i, s)
    <2>1. CASE d = c /\ i = num[c]
      BY <1>3, <1>5, <1>8, <2>1 DEF Current
    <2>2. CASE d # c \/ i # num[c]
      BY <1>4, <1>8, <2>2
    <2> QED
      BY <2>1, <2>2
  <1>9. ASSUME NEW d \in Cluster, NEW i \in Index, NEW s \in Slots, tr'[d][i].msg[s] = "remote"
        PROVE  \/ tr[d][i].msg[s] = "remote"
               \/ /\ tr[d][i].phase # "None" /\ hook[d][s].wait = "action"
                  /\ FailureEvidence(d, i, s)
    <2>1. CASE d = c /\ i = num[c]
      BY <1>3, <1>5, <1>9, <2>1 DEF Current
    <2>2. CASE d # c \/ i # num[c]
      BY <1>4, <1>9, <2>2
    <2> QED
      BY <2>1, <2>2
  <1>10. SuccessBacked' /\ FailureBacked'
    <2>1. hook' = hook
      OBVIOUS
    <2> QED
      BY <1>7, <1>8, <1>9, <2>1, BackedKept
  <1>11. Stands
    <2> SUFFICES ASSUME NEW d \in Cluster, NEW i \in Index, NEW s \in Slots
                 PROVE  /\ tr[d][i].status[s] \in Final => tr'[d][i].status[s] = tr[d][i].status[s]
                        /\ tr[d][i].status[s] = "Failed"
                           => tr'[d][i].status[s] \in {"Failed", "Skipped"}
      BY DEF Stands, Final
    <2>1. CASE d = c /\ i = num[c]
      BY <1>3, <2>1 DEF Current, Evolves
    <2>2. CASE d # c \/ i # num[c]
      BY <1>4, <2>2
    <2> QED
      BY <2>1, <2>2
  <1>12. Begun'
    <2> SUFFICES ASSUME NEW d \in Cluster, NEW k \in Index PROVE tr'[d][k].startedAt <= now'
      BY DEF Begun
    <2>1. tr'[d][k].startedAt = tr[d][k].startedAt
      <3>1. CASE d = c /\ k = num[c]
        BY <1>3, <3>1 DEF Current, Evolves
      <3>2. CASE d # c \/ k # num[c]
        BY <1>4, <3>2
      <3> QED
        BY <3>1, <3>2
    <2> QED
      BY <2>1, ClockOn
  <1> QED
    BY <1>2, <1>6, <1>10, <1>11, <1>12

\* What cluster c relies on, no step of the other takes away.
LEMMA PcKept ==
    ASSUME NEW d \in Cluster, PcOK(d), UNCHANGED <<hook, tr[d], ev[d], num[d], pc[d]>>
    PROVE  PcOK(d)'
  <1>1. Current(d)' = Current(d)
    BY DEF Current
  <1>2. ASSUME NEW s \in Slots
        PROVE  InSlot(d, s)' = InSlot(d, s) /\ Waits(d, s)' = Waits(d, s)
    BY <1>1 DEF InSlot, InFlight, Waits
  <1> QED
    BY <1>1, <1>2 DEF PcOK

\* How a transition and how an event may go on.
GoesOn(t, u) ==
    /\ u.phase # "None" /\ u.dir = t.dir /\ u.startedAt = t.startedAt
    /\ \A p : Reached(t, p) => Reached(u, p)
    /\ \A s \in Slots : /\ t.status[s] = "none" <=> u.status[s] = "none"
                        /\ t.status[s] \in Final => u.status[s] = t.status[s]
                        /\ t.status[s] = "Failed" => u.status[s] \in {"Failed", "Skipped"}
EventGoesOn(e, f) ==
    /\ ClosedEarly(e) => ClosedEarly(f)
    /\ IsTerminal(e) => IsTerminal(f)
    /\ e.startedAt = -1 /\ IsTerminal(e) =>
         f.startedAt = -1 /\ EventTimestamp(f) \in {EventTimestamp(e), now}

\* A step of cluster c on its current transition.
LEMMA StepKept ==
    ASSUME WaitInv, NEW c \in Cluster, num[c] \in Index,
           NEW u \in Transition, NEW f \in Event,
           tr' = [tr EXCEPT ![c][num[c]] = u], ev' = [ev EXCEPT ![c][num[c]] = f],
           UNCHANGED <<hook, num>>, Moves,
           \A d \in Cluster : d # c => pc'[d] = pc[d], PcOK(c)',
           GoesOn(Current(c), u), EventGoesOn(ev[c][num[c]], f), RecordOK(c, Current(c), f),
           \A s \in Slots : Waits(c, s) /\ u.status[s] = "Succeeded"
                            => \/ Current(c).status[s] = "Succeeded"
                               \/ SuccessEvidence(c, num[c], s),
           \A s \in Slots : u.msg[s] = "remote"
                            => \/ Current(c).msg[s] = "remote"
                               \/ hook[c][s].wait = "action" /\ FailureEvidence(c, num[c], s)
    PROVE  WaitInv' /\ Stands
  <1> DEFINE t == Current(c)
  <1>1. t.phase # "None"
    <2>1. num[c] <= num[c]
      BY WaitBoundAssumption DEF Index
    <2> QED
      BY <2>1 DEF WaitInv, Records, Current
  <1>2. Evolves(t, ev[c][num[c]], u, f)
    BY DEF Evolves, GoesOn, EventGoesOn
  <1>3. RecordOK(c, u, f)
    <2>1. u.phase # "None" /\ \A s \in Slots : u.status[s] = "none" <=> hook[c][s] = NoAction
      BY <1>1 DEF RecordOK, GoesOn
    <2>2. \A s \in Slots : f.status[s] \in Final => u.status[s] \in Final
      BY DEF RecordOK, GoesOn
    <2>3. \A s \in Slots : f.status[s] = "Failed" => u.status[s] \in {"Failed", "Skipped"}
      BY DEF RecordOK, GoesOn, Final
    <2>4. t.phase = "Idle" => u.phase = "Idle"
      BY DEF GoesOn, Reached
    <2> QED
      BY <1>1, <2>1, <2>2, <2>3, <2>4 DEF RecordOK, GoesOn
  <1>4. /\ tr' \in [Cluster -> [Index -> Transition]] /\ ev' \in [Cluster -> [Index -> Event]]
        /\ Records' /\ Begun' /\ SuccessBacked' /\ FailureBacked' /\ Stands
    BY <1>2, <1>3, UpdateKept
  <1>5. ASSUME NEW d \in Cluster PROVE PcOK(d)'
    <2>1. CASE d # c
      <3>1. tr'[d] = tr[d] /\ ev'[d] = ev[d]
        BY <2>1 DEF WaitInv, TypeOK
      <3> QED
        BY <2>1, <3>1, PcKept DEF WaitInv
    <2> QED
      BY <2>1
  <1>6. TypeOK'
    BY <1>4 DEF TypeOK, Scalars, Moves
  <1> QED
    BY <1>4, <1>5, <1>6 DEF WaitInv

\* A step that writes the transition only.
LEMMA TransitionStep ==
    ASSUME WaitInv, NEW c \in Cluster, num[c] \in Index, NEW u \in Transition,
           tr' = [tr EXCEPT ![c][num[c]] = u], ev' = ev,
           UNCHANGED <<hook, num>>, Moves,
           \A d \in Cluster : d # c => pc'[d] = pc[d], PcOK(c)',
           GoesOn(Current(c), u),
           \A s \in Slots : Waits(c, s) /\ u.status[s] = "Succeeded"
                            => \/ Current(c).status[s] = "Succeeded"
                               \/ SuccessEvidence(c, num[c], s),
           \A s \in Slots : u.msg[s] = "remote"
                            => \/ Current(c).msg[s] = "remote"
                               \/ hook[c][s].wait = "action" /\ FailureEvidence(c, num[c], s)
    PROVE  WaitInv' /\ Stands
  <1> DEFINE f == ev[c][num[c]]
  <1>1. f \in Event /\ RecordOK(c, Current(c), f)
    BY DEF WaitInv, TypeOK, Records, Current
  <1>2. ev' = [ev EXCEPT ![c][num[c]] = f]
    BY DEF WaitInv, TypeOK
  <1>3. EventGoesOn(ev[c][num[c]], f)
    BY DEF EventGoesOn
  <1> HIDE DEF f
  <1> QED
    BY <1>1, <1>2, <1>3, StepKept

\* A step that writes the event only.
LEMMA EventStep ==
    ASSUME WaitInv, NEW c \in Cluster, num[c] \in Index, NEW f \in Event,
           tr' = tr, ev' = [ev EXCEPT ![c][num[c]] = f],
           UNCHANGED <<hook, num>>, Moves,
           \A d \in Cluster : d # c => pc'[d] = pc[d], PcOK(c)',
           EventGoesOn(ev[c][num[c]], f), RecordOK(c, Current(c), f)
    PROVE  WaitInv' /\ Stands
  <1> DEFINE u == Current(c)
  <1>1. u \in Transition
    BY DEF WaitInv, TypeOK, Current
  <1>2. tr' = [tr EXCEPT ![c][num[c]] = u]
    BY DEF WaitInv, TypeOK, Current
  <1>3. u.phase # "None"
    <2>1. num[c] <= num[c]
      BY WaitBoundAssumption DEF Index
    <2> QED
      BY <2>1 DEF WaitInv, Records, Current
  <1>4. GoesOn(Current(c), u)
    BY <1>3 DEF GoesOn
  <1>5. /\ \A s \in Slots : Waits(c, s) /\ u.status[s] = "Succeeded"
                            => \/ Current(c).status[s] = "Succeeded"
                               \/ SuccessEvidence(c, num[c], s)
        /\ \A s \in Slots : u.msg[s] = "remote"
                            => \/ Current(c).msg[s] = "remote"
                               \/ hook[c][s].wait = "action" /\ FailureEvidence(c, num[c], s)
    OBVIOUS
  <1> HIDE DEF u
  <1> QED
    BY <1>1, <1>2, <1>4, <1>5, StepKept

\* A step that writes neither.
LEMMA OtherStep ==
    ASSUME WaitInv, UNCHANGED <<hook, num, tr, ev>>, Moves,
           \A d \in Cluster : pc'[d] \in {pc[d], "off"}
    PROVE  WaitInv' /\ Stands
  <1>1. SuccessBacked' /\ FailureBacked'
    <2>1. \A d \in Cluster, k \in Index :
              tr[d][k].phase # "None" => Evolves(tr[d][k], ev[d][k], tr'[d][k], ev'[d][k])
      BY DEF Evolves
    <2> QED
      BY <2>1, BackedKept DEF WaitInv, SuccessBacked, FailureBacked
  <1>2. Records'
    BY DEF WaitInv, Records, RecordOK
  <1>3. ASSUME NEW d \in Cluster PROVE PcOK(d)'
    <2>1. CASE pc'[d] = "off"
      BY <2>1 DEF PcOK
    <2>2. CASE pc'[d] = pc[d]
      BY <2>2, PcKept DEF WaitInv
    <2> QED
      BY <2>1, <2>2
  <1>4. TypeOK'
    BY DEF WaitInv, TypeOK, Scalars, Moves
  <1>5. Stands
    BY DEF Stands
  <1>6. Begun'
    BY ClockOn DEF Begun
  <1> QED
    BY <1>1, <1>2, <1>3, <1>4, <1>5, <1>6 DEF WaitInv

\* What updateFailoverEvent makes of an event.
LEMMA EventUpdate ==
    ASSUME WaitInv, NEW c \in Cluster, num[c] \in Index,
           NEW o \in {"Succeeded", "Failed", "ForceAdvanced"},
           o = "Succeeded" => Current(c).phase = "Idle",
           NEW f, f = UpdateFailoverEvent(ev[c][num[c]], Current(c), o)
    PROVE  f \in Event /\ EventGoesOn(ev[c][num[c]], f) /\ RecordOK(c, Current(c), f)
  <1> DEFINE e == ev[c][num[c]]
             t == Current(c)
  <1>1. e \in Event /\ t \in Transition /\ RecordOK(c, t, e)
    BY DEF WaitInv, TypeOK, Records, Current
  <1>2. t.phase # "None"
    <2>1. num[c] <= num[c]
      BY WaitBoundAssumption DEF Index
    <2> QED
      BY <2>1 DEF WaitInv, Records, Current
  <1>3. CASE f = e
    BY <1>1, <1>3 DEF EventGoesOn
  <1>4. CASE f # e
    <2>1. now \in Times
      BY WaitBoundAssumption DEF WaitInv, TypeOK, Times
    <2>2. /\ e.outcome \notin {"none", "Succeeded"}
          /\ f.status = t.status /\ f.startedAt = e.startedAt
          /\ f.outcome \in {o, "ForceAdvanced"}
          /\ e.outcome \in {"Failed", "ForceAdvanced"} => f.outcome \in {"Failed", "ForceAdvanced"}
          /\ f.created = e.created /\ f.completedAt \in {e.completedAt, now}
          /\ f \in Event
      BY <1>1, <1>4, <2>1 DEF UpdateFailoverEvent, Event, Transition, Outcomes
    <2>3. IsTerminal(f)
      BY <2>2 DEF IsTerminal
    <2>4. EventGoesOn(e, f)
      <3>1. now # -1
        BY WaitBoundAssumption DEF WaitInv, TypeOK
      <3>2. e.startedAt = -1 => EventTimestamp(f) \in {EventTimestamp(e), now}
        BY <2>2, <3>1 DEF EventTimestamp
      <3> QED
        BY <2>2, <2>3, <3>2 DEF EventGoesOn, ClosedEarly
    <2>5. f.outcome = "Succeeded" => t.phase = "Idle"
      BY <2>2
    <2>6. RecordOK(c, t, f)
      BY <1>1, <1>2, <2>2, <2>3, <2>5 DEF RecordOK
    <2> QED
      BY <2>2, <2>4, <2>6
  <1> QED
    BY <1>3, <1>4

-----------------------------------------------------------------------------
(* The actions *)

LEMMA CurrentFacts ==
    ASSUME WaitInv, NEW c \in Cluster, num[c] > 0
    PROVE  /\ num[c] \in Index /\ Current(c) \in Transition /\ Current(c).phase # "None"
           /\ ev[c][num[c]] \in Event /\ RecordOK(c, Current(c), ev[c][num[c]])
  <1>1. num[c] \in Index /\ num[c] <= num[c]
    BY WaitBoundAssumption DEF WaitInv, TypeOK, Index
  <1>2. Current(c) \in Transition /\ ev[c][num[c]] \in Event
    BY <1>1 DEF WaitInv, TypeOK, Current
  <1> QED
    BY <1>1, <1>2 DEF WaitInv, Records, Current

\* The transition with the result of slot s replaced.
WithResult(t, s, x, m) == [t EXCEPT !.status[s] = x, !.msg[s] = m]

\* u differs from t in that result only.
HasResult(t, u, s, x, m) ==
    /\ u \in Transition
    /\ u.phase = t.phase /\ u.dir = t.dir /\ u.startedAt = t.startedAt
    /\ u.status[s] = x /\ u.msg[s] = m
    /\ \A r \in Slots \ {s} : u.status[r] = t.status[r] /\ u.msg[r] = t.msg[r]

LEMMA NewResult ==
    ASSUME NEW t \in Transition, NEW s \in Slots, NEW x \in Statuses, NEW m \in {"", "timeout", "remote"},
           NEW u, u = WithResult(t, s, x, m)
    PROVE  HasResult(t, u, s, x, m)
  <1>1. t.status \in [Slots -> Statuses] /\ t.msg \in [Slots -> {"", "timeout", "remote"}]
    BY DEF Transition
  <1>2. /\ u \in Transition
        /\ u.phase = t.phase /\ u.dir = t.dir /\ u.startedAt = t.startedAt
        /\ u.status = [t.status EXCEPT ![s] = x] /\ u.msg = [t.msg EXCEPT ![s] = m]
    BY DEF Transition, WithResult
  <1>3. u.status[s] = x /\ u.msg[s] = m
    BY <1>1, <1>2
  <1>4. ASSUME NEW r \in Slots, r # s PROVE u.status[r] = t.status[r] /\ u.msg[r] = t.msg[r]
    BY <1>1, <1>2, <1>4
  <1> QED
    BY <1>2, <1>3, <1>4 DEF HasResult

\* A new result for the slot whose turn it is, which was Pending or Running.
LEMMA ResultStep ==
    ASSUME WaitInv, NEW c \in Cluster, NEW s \in Slots, num[c] > 0,
           NEW x \in {"Running", "Succeeded", "Failed", "Skipped"}, NEW m \in {"", "timeout", "remote"},
           NEW u, u = WithResult(Current(c), s, x, m),
           \/ Current(c).status[s] \in {"Pending", "Running"}
           \/ Current(c).status[s] = "Failed" /\ x = "Skipped",
           WriteTransition(c, u), UNCHANGED <<hook, num, ev>>, Moves,
           \A d \in Cluster : d # c => pc'[d] = pc[d], pc'[c] = "off",
           Waits(c, s) /\ x = "Succeeded" => SuccessEvidence(c, num[c], s),
           m = "remote" => \/ m = Current(c).msg[s]
                           \/ hook[c][s].wait = "action" /\ FailureEvidence(c, num[c], s)
    PROVE  WaitInv' /\ Stands
  <1> DEFINE t == Current(c)
  <1>1. num[c] \in Index /\ t \in Transition /\ t.phase # "None"
    BY CurrentFacts
  <1>2. /\ u \in Transition
        /\ u.phase = t.phase /\ u.dir = t.dir /\ u.startedAt = t.startedAt
        /\ u.status[s] = x /\ u.msg[s] = m
        /\ \A r \in Slots \ {s} : u.status[r] = t.status[r] /\ u.msg[r] = t.msg[r]
    <2>1. x \in Statuses
      BY DEF Statuses
    <2>2. u = WithResult(t, s, x, m)
      OBVIOUS
    <2>3. HasResult(t, u, s, x, m)
      BY <1>1, <2>1, <2>2, NewResult
    <2> QED
      BY <2>3 DEF HasResult
  <1>3. GoesOn(t, u)
    <2>1. \A p : Reached(t, p) => Reached(u, p)
      BY <1>2 DEF Reached
    <2>2. \A r \in Slots : /\ t.status[r] = "none" <=> u.status[r] = "none"
                           /\ t.status[r] \in Final => u.status[r] = t.status[r]
                           /\ t.status[r] = "Failed" => u.status[r] \in {"Failed", "Skipped"}
      <3> SUFFICES ASSUME NEW r \in Slots
                   PROVE  /\ t.status[r] = "none" <=> u.status[r] = "none"
                          /\ t.status[r] \in Final => u.status[r] = t.status[r]
                          /\ t.status[r] = "Failed" => u.status[r] \in {"Failed", "Skipped"}
        OBVIOUS
      <3>1. CASE r = s
        BY <1>2, <3>1 DEF Final
      <3>2. CASE r # s
        BY <1>2, <3>2
      <3> QED
        BY <3>1, <3>2
    <2> QED
      BY <1>1, <1>2, <2>1, <2>2 DEF GoesOn
  <1>4. \A r \in Slots : Waits(c, r) /\ u.status[r] = "Succeeded"
                         => t.status[r] = "Succeeded" \/ SuccessEvidence(c, num[c], r)
    <2> SUFFICES ASSUME NEW r \in Slots, Waits(c, r), u.status[r] = "Succeeded"
                 PROVE  t.status[r] = "Succeeded" \/ SuccessEvidence(c, num[c], r)
      OBVIOUS
    <2>1. CASE r = s
      BY <1>2, <2>1
    <2>2. CASE r # s
      BY <1>2, <2>2
    <2> QED
      BY <2>1, <2>2
  <1>5. \A r \in Slots : u.msg[r] = "remote"
                         => \/ t.msg[r] = "remote"
                            \/ hook[c][r].wait = "action" /\ FailureEvidence(c, num[c], r)
    <2> SUFFICES ASSUME NEW r \in Slots, u.msg[r] = "remote"
                 PROVE  \/ t.msg[r] = "remote"
                        \/ hook[c][r].wait = "action" /\ FailureEvidence(c, num[c], r)
      OBVIOUS
    <2>1. CASE r = s
      BY <1>2, <2>1
    <2>2. CASE r # s
      BY <1>2, <2>2
    <2> QED
      BY <2>1, <2>2
  <1>6. PcOK(c)'
    BY DEF PcOK
  <1>7. tr' = [tr EXCEPT ![c][num[c]] = u]
    BY DEF WriteTransition
  <1> HIDE DEF t
  <1> QED
    BY <1>1, <1>2, <1>3, <1>4, <1>5, <1>6, <1>7, TransitionStep DEF t

\* A new phase: a later one, or the end.
LEMMA PhaseStep ==
    ASSUME WaitInv, NEW c \in Cluster, num[c] > 0, NEW q \in Phases,
           q = "Idle" \/ (PhaseOrder(q) >= PhaseOrder(Current(c).phase)
                          /\ Current(c).phase # "Idle" /\ q # "None"),
           NEW u, u = [Current(c) EXCEPT !.phase = q],
           WriteTransition(c, u), UNCHANGED <<hook, num, ev>>, Moves,
           \A d \in Cluster : d # c => pc'[d] = pc[d],
           pc'[c] = "off" \/ (pc'[c] = "closeEvent" /\ q = "Idle")
    PROVE  WaitInv' /\ Stands
  <1> DEFINE t == Current(c)
  <1>1. num[c] \in Index /\ t \in Transition /\ t.phase # "None"
    BY CurrentFacts
  <1>2. u \in Transition
    BY <1>1 DEF Transition
  <1>3. /\ u.phase = q /\ u.dir = t.dir /\ u.startedAt = t.startedAt
        /\ u.status = t.status /\ u.msg = t.msg
    BY <1>1 DEF Transition
  <1>4. GoesOn(t, u)
    <2>1. \A p : PhaseOrder(p) \in Int
      BY DEF PhaseOrder
    <2>2. ASSUME NEW p, Reached(t, p) PROVE Reached(u, p)
      <3>1. CASE q = "Idle"
        BY <1>3, <3>1 DEF Reached
      <3>2. CASE q # "Idle"
        <4>1. p # "Idle" /\ PhaseOrder(t.phase) >= PhaseOrder(p)
          BY <2>2, <3>2 DEF Reached
        <4>2. PhaseOrder(q) >= PhaseOrder(p)
          BY <2>1, <3>2, <4>1
        <4> QED
          BY <1>3, <4>1, <4>2 DEF Reached
      <3> QED
        BY <3>1, <3>2
    <2> QED
      BY <1>1, <1>3, <2>2 DEF GoesOn
  <1>5. tr' = [tr EXCEPT ![c][num[c]] = u]
    BY DEF WriteTransition
  <1>6. Current(c)' = u
    BY <1>1, <1>5 DEF Current, WaitInv, TypeOK
  <1>7. PcOK(c)'
    <2>1. num'[c] > 0 /\ (pc'[c] = "closeEvent" => Current(c)'.phase = "Idle")
      BY <1>3, <1>6
    <2> QED
      BY <2>1 DEF PcOK
  <1> HIDE DEF t
  <1> QED
    BY <1>1, <1>2, <1>3, <1>4, <1>5, <1>7, TransitionStep DEF t

LEMMA SameMessage ==
    ASSUME NEW t \in Transition, NEW s \in Slots, NEW x
    PROVE  [t EXCEPT !.status[s] = x] = WithResult(t, s, x, t.msg[s])
  <1>1. t.msg \in [Slots -> {"", "timeout", "remote"}]
    BY DEF Transition
  <1>2. [t.msg EXCEPT ![s] = t.msg[s]] = t.msg
    BY <1>1
  <1> QED
    BY <1>2 DEF Transition, WithResult

LEMMA InSlotFacts ==
    ASSUME WaitInv, NEW c \in Cluster, NEW s \in Slots, InSlot(c, s)
    PROVE  /\ num[c] > 0 /\ num[c] \in Index /\ Current(c) \in Transition
           /\ Current(c).msg[s] \in {"", "timeout", "remote"}
  <1>1. num[c] > 0
    BY DEF InSlot, InFlight
  <1> QED
    BY <1>1, CurrentFacts DEF Transition

LEMMA StartActionKept ==
    ASSUME WaitInv, NEW c \in Cluster, NEW s \in Slots, StartAction(c, s)
    PROVE  WaitInv' /\ Stands
  <1>1. /\ num[c] > 0 /\ Current(c) \in Transition
        /\ Current(c).msg[s] \in {"", "timeout", "remote"}
    BY InSlotFacts DEF StartAction
  <1>2. WriteTransition(c, WithResult(Current(c), s, "Running", Current(c).msg[s]))
    BY <1>1, SameMessage DEF StartAction
  <1>3. Moves /\ pc' = pc /\ pc[c] = "off" /\ UNCHANGED <<hook, num, ev>>
    BY DEF WaitInv, TypeOK, Scalars, Moves, StartAction, counters
  <1>4. Current(c).status[s] = "Pending"
    BY DEF StartAction
  <1> QED
    BY <1>1, <1>2, <1>3, <1>4, ResultStep

LEMMA TimeOutKept ==
    ASSUME WaitInv, NEW c \in Cluster, NEW s \in Slots, TimeOut(c, s)
    PROVE  WaitInv' /\ Stands
  <1>1. num[c] > 0 /\ Current(c) \in Transition
    BY InSlotFacts DEF TimeOut
  <1>2. WriteTransition(c, WithResult(Current(c), s, "Failed", "timeout"))
    BY DEF TimeOut, WithResult
  <1>3. Moves /\ pc' = pc /\ pc[c] = "off" /\ UNCHANGED <<hook, num, ev>>
    BY DEF WaitInv, TypeOK, Scalars, Moves, TimeOut, counters
  <1>4. Current(c).status[s] = "Running"
    BY DEF TimeOut
  <1> QED
    BY <1>1, <1>2, <1>3, <1>4, ResultStep

LEMMA RunActionKept ==
    ASSUME WaitInv, NEW c \in Cluster, NEW s \in Slots, RunAction(c, s)
    PROVE  WaitInv' /\ Stands
  <1>1. /\ num[c] > 0 /\ Current(c) \in Transition
        /\ Current(c).msg[s] \in {"", "timeout", "remote"}
    BY InSlotFacts DEF RunAction
  <1>2. PICK x \in {"Succeeded", "Failed"} :
          WriteTransition(c, WithResult(Current(c), s, x, Current(c).msg[s]))
    BY <1>1, SameMessage DEF RunAction
  <1>3. Moves /\ pc' = pc /\ pc[c] = "off" /\ UNCHANGED <<hook, num, ev>>
    BY DEF WaitInv, TypeOK, Scalars, Moves, RunAction, counters
  <1>4. Current(c).status[s] = "Running" /\ ~Waits(c, s)
    BY DEF RunAction
  <1> QED
    BY <1>1, <1>2, <1>3, <1>4, ResultStep

\* What runAction writes for a verdict that is backed.
LEMMA ConcludeKept ==
    ASSUME WaitInv, NEW c \in Cluster, NEW s \in Slots, InSlot(c, s),
           Current(c).status[s] = "Running", NEW v, Conclude(c, s, v),
           v = "succeeded" => SuccessEvidence(c, num[c], s),
           v = "failed" => hook[c][s].wait = "action" /\ FailureEvidence(c, num[c], s),
           UNCHANGED <<hook, num, ev>>, Moves,
           \A d \in Cluster : d # c => pc'[d] = pc[d], pc'[c] = "off"
    PROVE  WaitInv' /\ Stands
  <1> DEFINE t == Current(c)
  <1>1. /\ num[c] > 0 /\ num[c] \in Index /\ t \in Transition
        /\ t.msg[s] \in {"", "timeout", "remote"}
    BY InSlotFacts
  <1>2. CASE v = "succeeded"
    <2>1. WriteTransition(c, WithResult(t, s, "Succeeded", t.msg[s]))
      BY <1>1, <1>2, SameMessage DEF Conclude
    <2> QED
      BY <1>1, <1>2, <2>1, ResultStep
  <1>3. CASE v = "failed"
    <2>1. WriteTransition(c, WithResult(t, s, "Failed", "remote"))
      BY <1>3 DEF Conclude, WithResult
    <2> QED
      BY <1>1, <1>3, <2>1, ResultStep
  <1>4. CASE v \notin {"succeeded", "failed"}
    <2>1. tr' = tr
      BY <1>4 DEF Conclude
    <2>2. \A d \in Cluster : pc'[d] \in {pc[d], "off"}
      OBVIOUS
    <2> QED
      BY <2>1, <2>2, OtherStep
  <1> QED
    BY <1>2, <1>3, <1>4

LEMMA PollRemoteKept ==
    ASSUME WaitInv, NEW c \in Cluster, NEW s \in Slots, PollRemote(c, s)
    PROVE  WaitInv' /\ Stands
  <1>1. /\ InSlot(c, s) /\ Waits(c, s) /\ pc[c] = "off" /\ Current(c).status[s] = "Running"
        /\ UNCHANGED <<hook, num, ev>>
    BY DEF PollRemote
  <1>2. num[c] \in Index
    BY <1>1, InSlotFacts
  <1>3. CASE InFlight(Other(c))
    <2> DEFINE v == CheckTransition(Other(c), Current(Other(c)), Current(c), hook[c][s])
    <2>1. Conclude(c, s, v) /\ pc' = pc
      BY <1>3 DEF PollRemote
    <2>2. /\ v = "succeeded" => SuccessEvidence(c, num[c], s)
          /\ v = "failed" => hook[c][s].wait = "action" /\ FailureEvidence(c, num[c], s)
      BY <1>1, <1>2, <1>3, TransitionVerdict
    <2>3. Moves
      BY <2>1 DEF WaitInv, TypeOK, Scalars, Moves, PollRemote, counters
    <2> HIDE DEF v
    <2> QED
      BY <1>1, <2>1, <2>2, <2>3, ConcludeKept
  <1>4. CASE ~InFlight(Other(c))
    <2>1. tr' = tr /\ pc' = [pc EXCEPT ![c] = "listEvents"]
      BY <1>4 DEF PollRemote
    <2>2. Moves /\ pc'[c] = "listEvents" /\ \A d \in Cluster : d # c => pc'[d] = pc[d]
      BY <2>1 DEF WaitInv, TypeOK, Scalars, Moves, PollRemote, counters
    <2>3. PcOK(c)'
      <3>1. InSlot(c, s)' /\ Waits(c, s)' /\ Current(c)'.status[s] = "Running"
        BY <1>1, <2>1 DEF InSlot, InFlight, Waits, Current
      <3> QED
        BY <2>2, <3>1 DEF PcOK
    <2>4. /\ ev[c][num[c]] \in Event /\ RecordOK(c, Current(c), ev[c][num[c]])
          /\ EventGoesOn(ev[c][num[c]], ev[c][num[c]])
          /\ ev' = [ev EXCEPT ![c][num[c]] = ev[c][num[c]]]
      BY <1>1, <1>2 DEF WaitInv, TypeOK, Records, Current, EventGoesOn
    <2> QED
      BY <1>1, <1>2, <2>1, <2>2, <2>3, <2>4, EventStep
  <1> QED
    BY <1>3, <1>4

LEMMA ListRemoteEventsKept ==
    ASSUME WaitInv, NEW c \in Cluster, NEW s \in Slots, ListRemoteEvents(c, s)
    PROVE  WaitInv' /\ Stands
  <1> DEFINE v == CheckEvents(Other(c), Current(c), hook[c][s])
  <1>1. /\ InSlot(c, s) /\ pc[c] = "listEvents" /\ Conclude(c, s, v)
        /\ UNCHANGED <<hook, num, ev>> /\ pc' = [pc EXCEPT ![c] = "off"]
    BY DEF ListRemoteEvents
  <1>2. Waits(c, s) /\ Current(c).status[s] = "Running"
    <2>1. PICK r \in Slots : InSlot(c, r) /\ Waits(c, r) /\ Current(c).status[r] = "Running"
      BY <1>1 DEF WaitInv, PcOK
    <2>2. r = s
      BY <1>1, <2>1 DEF InSlot, Slots
    <2> QED
      BY <2>1, <2>2
  <1>3. num[c] \in Index
    BY <1>1, InSlotFacts
  <1>4. /\ v = "succeeded" => SuccessEvidence(c, num[c], s)
        /\ v = "failed" => hook[c][s].wait = "action" /\ FailureEvidence(c, num[c], s)
    BY <1>2, <1>3, EventVerdict
  <1>5. Moves /\ pc'[c] = "off" /\ \A d \in Cluster : d # c => pc'[d] = pc[d]
    BY <1>1 DEF WaitInv, TypeOK, Scalars, Moves, ListRemoteEvents, counters
  <1> HIDE DEF v
  <1> QED
    BY <1>1, <1>2, <1>4, <1>5, ConcludeKept

LEMMA HandleFailedKept ==
    ASSUME WaitInv, NEW c \in Cluster, NEW s \in Slots, HandleFailed(c, s)
    PROVE  WaitInv' /\ Stands
  <1>1. /\ num[c] > 0 /\ num[c] \in Index /\ Current(c) \in Transition
        /\ Current(c).msg[s] \in {"", "timeout", "remote"}
    BY InSlotFacts DEF HandleFailed
  <1>2. Moves /\ pc' = pc /\ pc[c] = "off" /\ UNCHANGED <<hook, num>>
    BY DEF WaitInv, TypeOK, Scalars, Moves, HandleFailed, counters
  <1>3. Current(c).status[s] = "Failed"
    BY DEF HandleFailed
  <1>4. CASE hook[c][s].ignore
    <2>1. /\ WriteTransition(c, WithResult(Current(c), s, "Skipped", Current(c).msg[s]))
          /\ UNCHANGED ev
      BY <1>1, <1>4, SameMessage DEF HandleFailed
    <2> QED
      BY <1>1, <1>2, <1>3, <2>1, ResultStep
  <1>5. CASE ~hook[c][s].ignore
    <2> DEFINE f == UpdateFailoverEvent(ev[c][num[c]], Current(c), "Failed")
    <2>1. tr' = tr /\ ev' = [ev EXCEPT ![c][num[c]] = f]
      BY <1>5 DEF HandleFailed, WriteEvent
    <2>2. f \in Event /\ EventGoesOn(ev[c][num[c]], f) /\ RecordOK(c, Current(c), f)
      BY <1>1, EventUpdate
    <2>3. PcOK(c)'
      BY <1>2 DEF PcOK
    <2> HIDE DEF f
    <2> QED
      BY <1>1, <1>2, <2>1, <2>2, <2>3, EventStep
  <1> QED
    BY <1>4, <1>5

LEMMA CreateFailoverEventKept ==
    ASSUME WaitInv, NEW c \in Cluster, CreateFailoverEvent(c)
    PROVE  WaitInv' /\ Stands
  <1> DEFINE f == [NoEvent EXCEPT !.outcome = "", !.created = now]
  <1>1. num[c] > 0 /\ ev[c][num[c]] = NoEvent
    BY DEF CreateFailoverEvent, WaitInv, PcOK
  <1>2. num[c] \in Index /\ Current(c).phase # "None" /\ RecordOK(c, Current(c), NoEvent)
    BY <1>1, CurrentFacts
  <1>3. f \in Event
    <2>1. now \in Times /\ -1 \in Times
      BY WaitBoundAssumption DEF WaitInv, TypeOK, Times
    <2>2. [s \in Slots |-> "none"] \in [Slots -> Statuses] /\ "" \in Outcomes
      BY DEF Statuses, Outcomes
    <2> QED
      BY <2>1, <2>2 DEF NoEvent, Event
  <1>4. f.outcome = "" /\ f.startedAt = -1 /\ f.status = NoEvent.status
    BY DEF NoEvent
  <1>5. EventGoesOn(NoEvent, f)
    BY DEF EventGoesOn, NoEvent, ClosedEarly, IsTerminal
  <1>6. RecordOK(c, Current(c), f)
    <2>1. \A s \in Slots : f.status[s] = "none"
      BY <1>4 DEF NoEvent
    <2>2. ~IsTerminal(f)
      BY <1>4 DEF IsTerminal
    <2> HIDE DEF f
    <2> QED
      BY <1>2, <1>4, <2>1, <2>2 DEF RecordOK, Final
  <1>7. /\ tr' = tr /\ ev' = [ev EXCEPT ![c][num[c]] = f] /\ UNCHANGED <<hook, num>>
        /\ pc' = [pc EXCEPT ![c] = "stampEvent"]
    BY DEF CreateFailoverEvent, WriteEvent
  <1>8. Moves /\ pc'[c] = "stampEvent" /\ \A d \in Cluster : d # c => pc'[d] = pc[d]
    BY <1>7 DEF WaitInv, TypeOK, Scalars, Moves, CreateFailoverEvent, counters
  <1>9. PcOK(c)'
    <2>1. ev'[c][num[c]] = f
      BY <1>2, <1>7 DEF WaitInv, TypeOK
    <2>2. num'[c] > 0 /\ ev'[c][num'[c]].outcome = ""
      BY <1>1, <1>4, <1>7, <2>1
    <2> QED
      BY <1>8, <2>2 DEF PcOK
  <1> HIDE DEF f
  <1> QED
    BY <1>1, <1>2, <1>3, <1>5, <1>6, <1>7, <1>8, <1>9, EventStep

LEMMA StampFailoverEventKept ==
    ASSUME WaitInv, NEW c \in Cluster, StampFailoverEvent(c)
    PROVE  WaitInv' /\ Stands
  <1> DEFINE e == ev[c][num[c]]
             f == [e EXCEPT !.outcome = "InProgress", !.startedAt = Current(c).startedAt]
  <1>1. num[c] > 0 /\ e.outcome = ""
    BY DEF StampFailoverEvent, WaitInv, PcOK
  <1>2. /\ num[c] \in Index /\ Current(c) \in Transition /\ Current(c).phase # "None"
        /\ e \in Event /\ RecordOK(c, Current(c), e)
    BY <1>1, CurrentFacts
  <1>3. f \in Event /\ f.outcome = "InProgress" /\ f.startedAt = Current(c).startedAt
        /\ f.status = e.status
    <2>1. Current(c).startedAt \in 0..MaxTime
      BY <1>2 DEF Transition
    <2>2. 0..MaxTime \subseteq Times
      BY WaitBoundAssumption DEF Times
    <2>3. Current(c).startedAt \in Times
      BY <2>1, <2>2
    <2> QED
      BY <1>2, <2>3 DEF Event, Outcomes
  <1>4. ~IsTerminal(e) /\ ~IsTerminal(f) /\ ~ClosedEarly(e)
    BY <1>1, <1>3 DEF IsTerminal, ClosedEarly
  <1>5. EventGoesOn(e, f)
    BY <1>4 DEF EventGoesOn
  <1>6. RecordOK(c, Current(c), f)
    <2>1. \A s \in Slots : f.status[s] = "none"
      <3>1. \A s \in Slots : e.status[s] = "none"
        BY <1>2, <1>4 DEF RecordOK
      <3> HIDE DEF e, f
      <3> QED
        BY <1>3, <3>1
    <2>2. f.outcome # "Succeeded" /\ f.startedAt = Current(c).startedAt /\ ~IsTerminal(f)
      BY <1>3, <1>4
    <2>3. \A s \in Slots : Current(c).status[s] = "none" <=> hook[c][s] = NoAction
      BY <1>2 DEF RecordOK
    <2> HIDE DEF f
    <2> QED
      BY <1>2, <2>1, <2>2, <2>3 DEF RecordOK, Final
  <1>7. /\ tr' = tr /\ ev' = [ev EXCEPT ![c][num[c]] = f] /\ UNCHANGED <<hook, num>>
        /\ pc' = [pc EXCEPT ![c] = "off"]
    BY DEF StampFailoverEvent, WriteEvent
  <1>8. Moves /\ pc'[c] = "off" /\ \A d \in Cluster : d # c => pc'[d] = pc[d]
    BY <1>7 DEF WaitInv, TypeOK, Scalars, Moves, StampFailoverEvent, counters
  <1>9. PcOK(c)'
    BY <1>8 DEF PcOK
  <1> HIDE DEF f
  <1> QED
    BY <1>2, <1>3, <1>5, <1>6, <1>7, <1>8, <1>9, EventStep

LEMMA CloseEventKept ==
    ASSUME WaitInv, NEW c \in Cluster, CloseEvent(c)
    PROVE  WaitInv' /\ Stands
  <1> DEFINE f == UpdateFailoverEvent(ev[c][num[c]], Current(c), "Succeeded")
  <1>1. num[c] > 0 /\ Current(c).phase = "Idle"
    BY DEF CloseEvent, WaitInv, PcOK
  <1>2. num[c] \in Index
    BY <1>1, CurrentFacts
  <1>3. f \in Event /\ EventGoesOn(ev[c][num[c]], f) /\ RecordOK(c, Current(c), f)
    BY <1>1, <1>2, EventUpdate
  <1>4. /\ tr' = tr /\ ev' = [ev EXCEPT ![c][num[c]] = f] /\ UNCHANGED <<hook, num>>
        /\ pc' = [pc EXCEPT ![c] = "off"]
    BY DEF CloseEvent, WriteEvent
  <1>5. Moves /\ pc'[c] = "off" /\ \A d \in Cluster : d # c => pc'[d] = pc[d]
    BY <1>4 DEF WaitInv, TypeOK, Scalars, Moves, CloseEvent, counters
  <1>6. PcOK(c)'
    BY <1>5 DEF PcOK
  <1> HIDE DEF f
  <1> QED
    BY <1>2, <1>3, <1>4, <1>5, <1>6, EventStep

LEMMA AdvancePhaseKept ==
    ASSUME WaitInv, NEW c \in Cluster, AdvancePhase(c)
    PROVE  WaitInv' /\ Stands
  <1> DEFINE t == Current(c)
  <1>1. num[c] > 0 /\ t.phase # "Idle"
    BY DEF AdvancePhase, InFlight
  <1>2. t \in Transition /\ t.phase # "None"
    BY <1>1, CurrentFacts
  <1>3. UNCHANGED <<hook, num, ev, want, expired, now, flips, trouble>> /\ pc[c] = "off"
    BY DEF AdvancePhase, counters
  <1>4. ASSUME NEW q \in {"UpdatingResources", "FlushingConnections", "ExecutingPostActions"},
               WriteTransition(c, [t EXCEPT !.phase = q]), UNCHANGED <<at, pc>>,
               PhaseOrder(q) >= PhaseOrder(t.phase)
        PROVE  WaitInv' /\ Stands
    <2>1. Moves /\ q \in Phases
      BY <1>3, <1>4 DEF WaitInv, TypeOK, Scalars, Moves, Phases
    <2> QED
      BY <1>1, <1>3, <1>4, <2>1, PhaseStep
  <1>5. ASSUME Complete(c) PROVE WaitInv' /\ Stands
    <2>1. /\ WriteTransition(c, [t EXCEPT !.phase = "Idle"])
          /\ at' = [at EXCEPT ![c] = t.dir] /\ pc' = [pc EXCEPT ![c] = "closeEvent"]
      BY <1>5 DEF Complete
    <2>2. t.dir \in Directions
      BY <1>2 DEF Transition
    <2>3. Moves /\ pc'[c] = "closeEvent" /\ \A d \in Cluster : d # c => pc'[d] = pc[d]
      BY <1>3, <2>1, <2>2 DEF WaitInv, TypeOK, Scalars, Moves
    <2>4. "Idle" \in Phases
      BY DEF Phases
    <2> QED
      BY <1>1, <1>3, <2>1, <2>3, <2>4, PhaseStep
  <1>6. CASE InSlot(c, "pre") /\ WriteTransition(c, [t EXCEPT !.phase = "UpdatingResources"])
             /\ UNCHANGED <<at, pc>>
    <2>1. PhaseOrder("UpdatingResources") >= PhaseOrder(t.phase)
      BY <1>6 DEF InSlot, PhaseOrder
    <2> QED
      BY <1>4, <1>6, <2>1
  <1>7. CASE t.phase = "UpdatingResources" /\ UNCHANGED <<at, pc>>
             /\ WriteTransition(c, [t EXCEPT !.phase = "FlushingConnections"])
    <2>1. PhaseOrder("FlushingConnections") >= PhaseOrder(t.phase)
      BY <1>7 DEF PhaseOrder
    <2> QED
      BY <1>4, <1>7, <2>1
  <1>8. CASE t.phase = "FlushingConnections" /\ UNCHANGED <<at, pc>>
             /\ WriteTransition(c, [t EXCEPT !.phase = "ExecutingPostActions"])
    <2>1. PhaseOrder("ExecutingPostActions") >= PhaseOrder(t.phase)
      BY <1>8 DEF PhaseOrder
    <2> QED
      BY <1>4, <1>8, <2>1
  <1> QED
    BY <1>5, <1>6, <1>7, <1>8 DEF AdvancePhase

\* What handleForceAdvance makes of a transition in flight.
LEMMA ForceAdvancedGoesOn ==
    ASSUME NEW t \in Transition, t.phase \notin {"None", "Idle"},
           NEW u, u = ForceAdvanced(t)
    PROVE  /\ u \in Transition /\ GoesOn(t, u)
           /\ \A s \in Slots : /\ u.status[s] = "Succeeded" => t.status[s] = "Succeeded"
                               /\ u.msg[s] = "remote" => t.msg[s] = "remote"
  <1> DEFINE Kept == \A s \in Slots : /\ u.status[s] = "Succeeded" => t.status[s] = "Succeeded"
                                      /\ u.msg[s] = "remote" => t.msg[s] = "remote"
  <1>1. ASSUME NEW s \in Slots, t.status[s] \notin {"none", "Succeeded", "Skipped"},
               u = WithResult(t, s, "Skipped", "")
        PROVE  u \in Transition /\ GoesOn(t, u) /\ Kept
    <2>1. "Skipped" \in Statuses /\ "" \in {"", "timeout", "remote"}
      BY DEF Statuses
    <2>2. HasResult(t, u, s, "Skipped", "")
      BY <1>1, <2>1, NewResult
    <2>3. /\ u \in Transition
          /\ u.phase = t.phase /\ u.dir = t.dir /\ u.startedAt = t.startedAt
          /\ u.status[s] = "Skipped" /\ u.msg[s] = ""
          /\ \A r \in Slots \ {s} : u.status[r] = t.status[r] /\ u.msg[r] = t.msg[r]
      BY <2>2 DEF HasResult
    <2>4. Kept
      BY <2>3
    <2>5. \A p : Reached(t, p) => Reached(u, p)
      BY <2>3 DEF Reached
    <2>6. ASSUME NEW r \in Slots
          PROVE  /\ t.status[r] = "none" <=> u.status[r] = "none"
                 /\ t.status[r] \in Final => u.status[r] = t.status[r]
                 /\ t.status[r] = "Failed" => u.status[r] \in {"Failed", "Skipped"}
      <3>1. CASE r = s
        BY <1>1, <2>3, <3>1 DEF Final
      <3>2. CASE r # s
        BY <2>3, <3>2
      <3> QED
        BY <3>1, <3>2
    <2> QED
      BY <2>3, <2>4, <2>5, <2>6 DEF GoesOn
  <1>2. ASSUME NEW q \in {"FlushingConnections", "ExecutingPostActions"},
               u = [t EXCEPT !.phase = q], PhaseOrder(q) >= PhaseOrder(t.phase)
        PROVE  u \in Transition /\ GoesOn(t, u) /\ Kept
    <2>1. \A p : PhaseOrder(p) \in Int
      BY DEF PhaseOrder
    <2>2. u \in Transition
      BY <1>2 DEF Transition, Phases
    <2>3. /\ u.phase = q /\ u.dir = t.dir /\ u.startedAt = t.startedAt
          /\ u.status = t.status /\ u.msg = t.msg
      BY <1>2 DEF Transition
    <2>4. ASSUME NEW p, Reached(t, p) PROVE Reached(u, p)
      <3>1. p # "Idle" /\ PhaseOrder(t.phase) >= PhaseOrder(p)
        BY <2>4 DEF Reached
      <3>2. PhaseOrder(q) >= PhaseOrder(p)
        BY <1>2, <2>1, <3>1
      <3> QED
        BY <2>3, <3>1, <3>2 DEF Reached
    <2>5. GoesOn(t, u)
      BY <2>3, <2>4 DEF GoesOn
    <2> QED
      BY <2>2, <2>3, <2>5
  <1>3. CASE t.phase = "ExecutingPreActions" /\ t.status["pre"] \notin {"none", "Succeeded", "Skipped"}
    <2>1. u = WithResult(t, "pre", "Skipped", "") /\ "pre" \in Slots
      BY <1>3 DEF ForceAdvanced, WithResult, Slots
    <2> QED
      BY <1>1, <1>3, <2>1
  <1>4. CASE t.phase = "ExecutingPostActions" /\ t.status["post"] \notin {"none", "Succeeded", "Skipped"}
    <2>1. u = WithResult(t, "post", "Skipped", "") /\ "post" \in Slots
      BY <1>4 DEF ForceAdvanced, WithResult, Slots
    <2> QED
      BY <1>1, <1>4, <2>1
  <1>5. CASE t.phase = "UpdatingResources"
    <2>1. u = [t EXCEPT !.phase = "FlushingConnections"]
      BY <1>5 DEF ForceAdvanced
    <2>2. PhaseOrder("FlushingConnections") >= PhaseOrder(t.phase)
      BY <1>5 DEF PhaseOrder
    <2> QED
      BY <1>2, <2>1, <2>2
  <1>6. CASE t.phase = "FlushingConnections"
    <2>1. u = [t EXCEPT !.phase = "ExecutingPostActions"]
      BY <1>6 DEF ForceAdvanced
    <2>2. PhaseOrder("ExecutingPostActions") >= PhaseOrder(t.phase)
      BY <1>6 DEF PhaseOrder
    <2> QED
      BY <1>2, <2>1, <2>2
  <1>7. CASE u = t
    <2>1. GoesOn(t, t)
      BY DEF GoesOn
    <2> QED
      BY <1>7, <2>1
  <1>8. u = t \/ \/ t.phase = "UpdatingResources" \/ t.phase = "FlushingConnections"
                 \/ /\ t.phase = "ExecutingPreActions"
                    /\ t.status["pre"] \notin {"none", "Succeeded", "Skipped"}
                 \/ /\ t.phase = "ExecutingPostActions"
                    /\ t.status["post"] \notin {"none", "Succeeded", "Skipped"}
    BY DEF ForceAdvanced
  <1> QED
    BY <1>3, <1>4, <1>5, <1>6, <1>7, <1>8

LEMMA ForceAdvanceKept ==
    ASSUME WaitInv, NEW c \in Cluster, ForceAdvance(c)
    PROVE  WaitInv' /\ Stands
  <1> DEFINE t == Current(c)
             e == ev[c][num[c]]
  <1>1. num[c] > 0 /\ t.phase # "Idle"
    BY DEF ForceAdvance, InFlight
  <1>2. /\ num[c] \in Index /\ t \in Transition /\ t.phase # "None"
        /\ e \in Event /\ RecordOK(c, t, e)
    BY <1>1, CurrentFacts
  <1>3. PICK u \in {t, ForceAdvanced(t)} : tr' = [tr EXCEPT ![c][num[c]] = u]
    BY DEF ForceAdvance, WriteTransition
  <1>4. PICK f \in {e, UpdateFailoverEvent(e, t, "ForceAdvanced")} :
                ev' = [ev EXCEPT ![c][num[c]] = f]
    BY DEF ForceAdvance, WriteEvent
  <1>5. /\ u \in Transition /\ GoesOn(t, u)
        /\ \A s \in Slots : /\ u.status[s] = "Succeeded" => t.status[s] = "Succeeded"
                            /\ u.msg[s] = "remote" => t.msg[s] = "remote"
    <2>1. t.phase \notin {"None", "Idle"}
      BY <1>1, <1>2
    <2> HIDE DEF t
    <2>2. CASE u = t
      BY <1>2, <2>2 DEF GoesOn
    <2>3. CASE u = ForceAdvanced(t)
      BY <1>2, <2>1, <2>3, ForceAdvancedGoesOn
    <2> QED
      BY <1>3, <2>2, <2>3
  <1>6. f \in Event /\ EventGoesOn(e, f) /\ RecordOK(c, t, f)
    <2>1. CASE f = e
      BY <1>2, <2>1 DEF EventGoesOn
    <2>2. CASE f = UpdateFailoverEvent(e, t, "ForceAdvanced")
      BY <1>2, <2>2, EventUpdate
    <2> QED
      BY <1>4, <2>1, <2>2
  <1>7. UNCHANGED <<hook, num, pc>> /\ pc[c] = "off"
    BY DEF ForceAdvance
  <1>8. Moves
    BY <1>7, WaitBoundAssumption DEF WaitInv, TypeOK, Scalars, Moves, ForceAdvance
  <1>9. PcOK(c)'
    BY <1>7 DEF PcOK
  <1> QED
    BY <1>2, <1>3, <1>4, <1>5, <1>6, <1>7, <1>8, <1>9, StepKept

LEMMA BeginTransitionKept ==
    ASSUME WaitInv, NEW c \in Cluster, BeginTransition(c)
    PROVE  WaitInv' /\ Stands
  <1> DEFINE n == num[c] + 1
             u == [phase |-> IF hook[c]["pre"] = NoAction THEN "UpdatingResources"
                                                          ELSE "ExecutingPreActions",
                   dir |-> want[c], startedAt |-> now,
                   status |-> [s \in Slots |-> IF hook[c][s] = NoAction THEN "none" ELSE "Pending"],
                   msg |-> [s \in Slots |-> ""]]
  <1>1. /\ num[c] < MaxFlips /\ num' = [num EXCEPT ![c] = n] /\ tr' = [tr EXCEPT ![c][n] = u]
        /\ pc' = [pc EXCEPT ![c] = "createEvent"]
        /\ UNCHANGED <<hook, want, at, ev, expired, now, flips, trouble>>
    BY DEF BeginTransition, counters
  <1>2. /\ num[c] \in Nat /\ n \in Nat /\ n \in Index
        /\ n > 0 /\ n <= n /\ n <= MaxFlips /\ ~(n <= num[c])
    <2>1. num[c] \in 0..MaxFlips
      BY DEF WaitInv, TypeOK
    <2>2. num[c] < MaxFlips
      BY <1>1
    <2>3. \A i \in 0..MaxFlips : i < MaxFlips =>
            /\ i \in Nat /\ i + 1 \in Nat /\ i + 1 \in 1..MaxFlips
            /\ i + 1 > 0 /\ i + 1 <= i + 1 /\ i + 1 <= MaxFlips /\ ~(i + 1 <= i)
      BY WaitBoundAssumption
    <2> QED
      BY <2>1, <2>2, <2>3 DEF Index
  <1>3. tr[c][n] = NoTransition /\ ev[c][n] = NoEvent /\ tr[c][n].phase = "None"
    <2>1. RecordOK(c, tr[c][n], ev[c][n]) /\ tr[c][n].phase = "None"
      BY <1>2 DEF WaitInv, Records
    <2> QED
      BY <2>1 DEF RecordOK
  <1>4. u \in Transition
    <2>1. want[c] \in Directions /\ now \in 0..MaxTime
      BY DEF WaitInv, TypeOK
    <2> QED
      BY <2>1 DEF Transition, Phases, Statuses
  <1>5. /\ u.phase # "None" /\ u.phase # "Idle"
        /\ \A s \in Slots : /\ u.status[s] = "none" <=> hook[c][s] = NoAction
                            /\ u.status[s] # "Succeeded" /\ u.msg[s] # "remote"
    OBVIOUS
  <1> HIDE DEF n, u
  <1>6. Moves
    <2>1. n \in 0..MaxFlips
      BY <1>2, WaitBoundAssumption
    <2> QED
      BY <1>1, <2>1 DEF WaitInv, TypeOK, Scalars, Moves
  <1>7. tr' \in [Cluster -> [Index -> Transition]] /\ ev' \in [Cluster -> [Index -> Event]]
    BY <1>1, <1>2, <1>4 DEF WaitInv, TypeOK
  <1>8. tr'[c][n] = u /\ \A d \in Cluster, k \in Index : d # c \/ k # n => tr'[d][k] = tr[d][k]
    BY <1>1, <1>2 DEF WaitInv, TypeOK
  <1>9. num'[c] = n /\ \A d \in Cluster : d # c => num'[d] = num[d]
    BY <1>1 DEF WaitInv, TypeOK
  <1>10. Records'
    <2> SUFFICES ASSUME NEW d \in Cluster, NEW k \in Index
                 PROVE  RecordOK(d, tr[d][k], ev[d][k])' /\ (tr[d][k].phase # "None" <=> k <= num[d])'
      BY DEF Records
    <2>1. CASE d = c /\ k = n
      <3>1. RecordOK(c, u, NoEvent)
        <4>1. ~IsTerminal(NoEvent) /\ NoEvent.outcome # "Succeeded" /\ NoEvent.startedAt = -1
          BY DEF NoEvent, IsTerminal
        <4>2. \A s \in Slots : NoEvent.status[s] = "none"
          BY DEF NoEvent
        <4> QED
          BY <1>5, <4>1, <4>2 DEF RecordOK, Final
      <3>2. RecordOK(d, tr'[d][k], ev'[d][k])
        BY <1>1, <1>3, <1>8, <2>1, <3>1
      <3>3. tr'[d][k].phase # "None" /\ k <= num'[d]
        BY <1>2, <1>5, <1>8, <1>9, <2>1
      <3> QED
        BY <1>1, <3>2, <3>3 DEF RecordOK
    <2>2. CASE d # c \/ k # n
      <3>1. /\ RecordOK(d, tr[d][k], ev[d][k])
            /\ tr[d][k].phase # "None" <=> k <= num[d]
        BY DEF WaitInv, Records
      <3>2. tr'[d][k] = tr[d][k] /\ ev'[d][k] = ev[d][k]
        BY <1>1, <1>8, <2>2
      <3>3. k <= num'[d] <=> k <= num[d]
        <4>1. k \in Nat
          BY WaitBoundAssumption DEF Index
        <4> QED
          BY <1>2, <1>9, <2>2, <4>1 DEF n
      <3> QED
        BY <1>1, <3>1, <3>2, <3>3 DEF RecordOK
    <2> QED
      BY <2>1, <2>2
  <1>11. SuccessBacked' /\ FailureBacked'
    <2>1. ASSUME NEW d \in Cluster, NEW k \in Index, tr[d][k].phase # "None"
          PROVE  Evolves(tr[d][k], ev[d][k], tr'[d][k], ev'[d][k])
      <3>1. tr'[d][k] = tr[d][k] /\ ev'[d][k] = ev[d][k]
        BY <1>1, <1>3, <1>8, <2>1
      <3> QED
        BY <2>1, <3>1 DEF Evolves
    <2>2. ASSUME NEW d \in Cluster, NEW i \in Index, NEW s \in Slots
          PROVE  /\ tr'[d][i].status[s] = "Succeeded" => tr[d][i].status[s] = "Succeeded"
                 /\ tr'[d][i].msg[s] = "remote" => tr[d][i].msg[s] = "remote"
      <3>1. CASE d = c /\ i = n
        BY <1>5, <1>8, <3>1
      <3>2. CASE d # c \/ i # n
        BY <1>8, <3>2
      <3> QED
        BY <3>1, <3>2
    <2> QED
      BY <1>1, <2>1, <2>2, BackedKept
  <1>12. ASSUME NEW d \in Cluster PROVE PcOK(d)'
    <2>1. CASE d = c
      <3>1. pc'[c] = "createEvent"
        BY <1>1 DEF WaitInv, TypeOK
      <3>2. num'[c] > 0 /\ ev'[c][num'[c]] = NoEvent
        BY <1>1, <1>2, <1>3, <1>9
      <3> QED
        BY <2>1, <3>1, <3>2 DEF PcOK
    <2>2. CASE d # c
      <3>1. UNCHANGED <<hook, tr[d], ev[d], num[d], pc[d]>>
        BY <1>1, <1>9, <2>2 DEF WaitInv, TypeOK
      <3> QED
        BY <3>1, PcKept DEF WaitInv
    <2> QED
      BY <2>1, <2>2
  <1>13. Stands
    <2> SUFFICES ASSUME NEW d \in Cluster, NEW i \in Index, NEW s \in Slots
                 PROVE  /\ tr[d][i].status[s] \in Final => tr'[d][i].status[s] = tr[d][i].status[s]
                        /\ tr[d][i].status[s] = "Failed"
                           => tr'[d][i].status[s] \in {"Failed", "Skipped"}
      BY DEF Stands, Final
    <2>1. CASE d = c /\ i = n
      <3>1. NoTransition.status[s] = "none"
        BY DEF NoTransition
      <3> QED
        BY <1>3, <2>1, <3>1 DEF Final
    <2>2. CASE d # c \/ i # n
      BY <1>8, <2>2
    <2> QED
      BY <2>1, <2>2
  <1>14. TypeOK'
    BY <1>6, <1>7 DEF TypeOK, Scalars, Moves
  <1>15. Begun'
    <2> SUFFICES ASSUME NEW d \in Cluster, NEW k \in Index PROVE tr'[d][k].startedAt <= now'
      BY DEF Begun
    <2>1. CASE d = c /\ k = n
      <3>1. u.startedAt = now /\ now' = now /\ now \in 0..MaxTime
        BY <1>1 DEF u, WaitInv, TypeOK
      <3> QED
        BY <1>8, <2>1, <3>1, WaitBoundAssumption
    <2>2. CASE d # c \/ k # n
      BY <1>6, <1>8, <2>2, ClockOn
    <2> QED
      BY <2>1, <2>2
  <1> QED
    BY <1>10, <1>11, <1>12, <1>13, <1>14, <1>15 DEF WaitInv

\* The steps that touch neither a transition nor an event.
LEMMA OtherStepsKept ==
    ASSUME WaitInv,
           \/ \E c \in Cluster : Flip(c) \/ ListFails(c) \/ EventWriteFails(c) \/ Expire(c)
           \/ Tick
    PROVE  WaitInv' /\ Stands
  <1>1. ASSUME NEW c \in Cluster, Flip(c) PROVE WaitInv' /\ Stands
    <2>1. want[c] \in Directions => Opposite(want[c]) \in Directions
      BY DEF Directions, Opposite
    <2>2. flips + 1 \in 0..MaxFlips
      BY <1>1, WaitBoundAssumption DEF Flip, WaitInv, TypeOK
    <2>3. Moves /\ UNCHANGED <<hook, num, tr, ev, pc>>
      BY <1>1, <2>1, <2>2 DEF Flip, WaitInv, TypeOK, Scalars, Moves
    <2> QED
      BY <2>3, OtherStep
  <1>2. ASSUME NEW c \in Cluster, ListFails(c) PROVE WaitInv' /\ Stands
    <2>1. /\ Moves /\ UNCHANGED <<hook, num, tr, ev>>
          /\ \A d \in Cluster : pc'[d] \in {pc[d], "off"}
      BY <1>2 DEF ListFails, WaitInv, TypeOK, Scalars, Moves, counters
    <2> QED
      BY <2>1, OtherStep
  <1>3. ASSUME NEW c \in Cluster, EventWriteFails(c) PROVE WaitInv' /\ Stands
    <2>1. trouble + 1 \in 0..MaxTrouble
      BY <1>3, WaitBoundAssumption DEF EventWriteFails, WaitInv, TypeOK
    <2>2. /\ Moves /\ UNCHANGED <<hook, num, tr, ev>>
          /\ \A d \in Cluster : pc'[d] \in {pc[d], "off"}
      BY <1>3, <2>1 DEF EventWriteFails, WaitInv, TypeOK, Scalars, Moves
    <2> QED
      BY <2>2, OtherStep
  <1>4. ASSUME NEW c \in Cluster, Expire(c) PROVE WaitInv' /\ Stands
    <2>1. Moves /\ UNCHANGED <<hook, num, tr, ev, pc>>
      BY <1>4 DEF Expire, WaitInv, TypeOK, Scalars, Moves, counters
    <2> QED
      BY <2>1, OtherStep
  <1>5. ASSUME Tick PROVE WaitInv' /\ Stands
    <2>1. now + 1 \in 0..MaxTime
      BY <1>5, WaitBoundAssumption DEF Tick, WaitInv, TypeOK
    <2>2. Moves /\ UNCHANGED <<hook, num, tr, ev, pc>>
      BY <1>5, <2>1 DEF Tick, WaitInv, TypeOK, Scalars, Moves, counters
    <2> QED
      BY <2>2, OtherStep
  <1> QED
    BY <1>1, <1>2, <1>3, <1>4, <1>5

LEMMA InitWaitInv == Init => WaitInv
  <1> SUFFICES ASSUME Init PROVE WaitInv
    OBVIOUS
  <1>1. NoTransition \in Transition
    BY WaitBoundAssumption DEF NoTransition, Transition, Phases, Directions, Statuses
  <1>2. NoEvent \in Event
    <2>1. -1 \in Times /\ "none" \in Outcomes
      BY WaitBoundAssumption DEF Times, Outcomes
    <2>2. [s \in Slots |-> "none"] \in [Slots -> Statuses]
      BY DEF Statuses
    <2> QED
      BY <2>1, <2>2 DEF NoEvent, Event
  <1>3. TypeOK
    <2>1. 0 \in 0..MaxFlips /\ 0 \in 0..MaxTime /\ 0 \in 0..MaxTrouble
      BY WaitBoundAssumption
    <2> QED
      BY <1>1, <1>2, <2>1 DEF Init, TypeOK, Directions
  <1>4. /\ NoTransition.phase = "None"
        /\ \A s \in Slots : NoTransition.status[s] = "none" /\ NoTransition.msg[s] = ""
    BY DEF NoTransition
  <1>5. ASSUME NEW c \in Cluster, NEW k \in Index
        PROVE  tr[c][k] = NoTransition /\ ev[c][k] = NoEvent /\ ~(k <= num[c])
    BY WaitBoundAssumption DEF Init, Index
  <1>6. ASSUME NEW c \in Cluster PROVE RecordOK(c, NoTransition, NoEvent)
    <2>1. ~IsTerminal(NoEvent) /\ NoEvent.outcome # "Succeeded" /\ NoEvent.startedAt = -1
      BY DEF NoEvent, IsTerminal
    <2>2. \A s \in Slots : NoEvent.status[s] = "none"
      BY DEF NoEvent
    <2> QED
      BY <1>4, <2>1, <2>2 DEF RecordOK, Final
  <1>7. Records
    BY <1>4, <1>5, <1>6 DEF Records
  <1>8. \A c \in Cluster : PcOK(c)
    BY DEF Init, PcOK
  <1>9. SuccessBacked /\ FailureBacked
    BY <1>4, <1>5 DEF SuccessBacked, FailureBacked
  <1>10. Begun
    <2>1. now = 0 /\ NoTransition.startedAt = 0
      BY DEF Init, NoTransition
    <2> QED
      BY <1>5, <2>1 DEF Begun
  <1> QED
    BY <1>3, <1>7, <1>8, <1>9, <1>10 DEF WaitInv

LEMMA NextWaitInv == WaitInv /\ [Next]_vars => WaitInv' /\ (Stands \/ UNCHANGED vars)
  <1> SUFFICES ASSUME WaitInv, [Next]_vars PROVE WaitInv' /\ (Stands \/ UNCHANGED vars)
    OBVIOUS
  <1>1. CASE UNCHANGED vars
    <2>1. Moves /\ UNCHANGED <<hook, num, tr, ev, pc>>
      BY <1>1 DEF vars, counters, WaitInv, TypeOK, Scalars, Moves
    <2> QED
      BY <1>1, <2>1, OtherStep
  <1>2. CASE \/ \E c \in Cluster : Flip(c) \/ ListFails(c) \/ EventWriteFails(c) \/ Expire(c)
             \/ Tick
    BY <1>2, OtherStepsKept
  <1>3. ASSUME NEW c \in Cluster, BeginTransition(c) PROVE WaitInv' /\ Stands
    BY <1>3, BeginTransitionKept
  <1>4. ASSUME NEW c \in Cluster, CreateFailoverEvent(c) PROVE WaitInv' /\ Stands
    BY <1>4, CreateFailoverEventKept
  <1>5. ASSUME NEW c \in Cluster, StampFailoverEvent(c) PROVE WaitInv' /\ Stands
    BY <1>5, StampFailoverEventKept
  <1>6. ASSUME NEW c \in Cluster, NEW s \in Slots, StartAction(c, s) PROVE WaitInv' /\ Stands
    BY <1>6, StartActionKept
  <1>7. ASSUME NEW c \in Cluster, NEW s \in Slots, TimeOut(c, s) PROVE WaitInv' /\ Stands
    BY <1>7, TimeOutKept
  <1>8. ASSUME NEW c \in Cluster, NEW s \in Slots, RunAction(c, s) PROVE WaitInv' /\ Stands
    BY <1>8, RunActionKept
  <1>9. ASSUME NEW c \in Cluster, NEW s \in Slots, PollRemote(c, s) PROVE WaitInv' /\ Stands
    BY <1>9, PollRemoteKept
  <1>10. ASSUME NEW c \in Cluster, NEW s \in Slots, ListRemoteEvents(c, s)
         PROVE  WaitInv' /\ Stands
    BY <1>10, ListRemoteEventsKept
  <1>11. ASSUME NEW c \in Cluster, NEW s \in Slots, HandleFailed(c, s) PROVE WaitInv' /\ Stands
    BY <1>11, HandleFailedKept
  <1>12. ASSUME NEW c \in Cluster, AdvancePhase(c) PROVE WaitInv' /\ Stands
    BY <1>12, AdvancePhaseKept
  <1>13. ASSUME NEW c \in Cluster, CloseEvent(c) PROVE WaitInv' /\ Stands
    BY <1>13, CloseEventKept
  <1>14. ASSUME NEW c \in Cluster, ForceAdvance(c) PROVE WaitInv' /\ Stands
    BY <1>14, ForceAdvanceKept
  <1> QED
    BY <1>1, <1>2, <1>3, <1>4, <1>5, <1>6, <1>7, <1>8, <1>9, <1>10, <1>11, <1>12, <1>13, <1>14
    DEF Next, Reconcile

-----------------------------------------------------------------------------
(* What an event says of its transition *)

Over == {"none", "Succeeded", "Skipped"}

\* The actions of a phase are over when the phase is left, whether by itself or
\* by force, and an event is closed with the results of that moment.
Accurate(c, t, e) ==
    /\ t.phase \notin {"None", "ExecutingPreActions"} => t.status["pre"] \in Over
    /\ t.phase = "Idle" => t.status["post"] \in Over
    /\ e.outcome = "Succeeded" => t.phase = "Idle" /\ e.status = t.status
    /\ e.outcome = "Failed" => \E s \in Slots : e.status[s] = "Failed" /\ ~hook[c][s].ignore

AccurateInv == \A c \in Cluster, k \in Index : Accurate(c, tr[c][k], ev[c][k])

\* A step that writes the transition, the event or both.
LEMMA AccurateStep ==
    ASSUME TypeOK, AccurateInv, NEW c \in Cluster, NEW n \in Index, NEW u, NEW f,
           tr' = tr \/ tr' = [tr EXCEPT ![c][n] = u],
           ev' = ev \/ ev' = [ev EXCEPT ![c][n] = f],
           tr' = tr => u = tr[c][n], ev' = ev => f = ev[c][n],
           hook' = hook, Accurate(c, u, f)
    PROVE  AccurateInv'
  <1> SUFFICES ASSUME NEW d \in Cluster, NEW k \in Index
               PROVE  Accurate(d, tr[d][k], ev[d][k])'
    BY DEF AccurateInv
  <1>1. tr \in [Cluster -> [Index -> Transition]] /\ ev \in [Cluster -> [Index -> Event]]
    BY DEF TypeOK
  <1>2. CASE d = c /\ k = n
    <2>1. tr'[d][k] = u /\ ev'[d][k] = f
      BY <1>1, <1>2
    <2> QED BY <1>2, <2>1 DEF Accurate
  <1>3. CASE d # c \/ k # n
    <2>1. tr'[d][k] = tr[d][k] /\ ev'[d][k] = ev[d][k]
      BY <1>1, <1>3
    <2> QED BY <2>1 DEF AccurateInv, Accurate
  <1> QED BY <1>2, <1>3

\* A result of the phase a transition is in says nothing of the phases behind it.
LEMMA SlotAccurate ==
    ASSUME NEW c, NEW t, NEW e, Accurate(c, t, e), NEW s \in Slots, NEW u,
           t.phase = IF s = "pre" THEN "ExecutingPreActions" ELSE "ExecutingPostActions",
           u.phase = t.phase, \A r \in Slots \ {s} : u.status[r] = t.status[r]
    PROVE  Accurate(c, u, e)
  BY DEF Accurate, Slots

\* runAction, handleActionState: a result of the slot whose turn it is.
LEMMA ResultAccurate ==
    ASSUME WaitInv, AccurateInv, NEW c \in Cluster, NEW s \in Slots, InSlot(c, s),
           NEW x \in Statuses, NEW m \in {"", "timeout", "remote"},
           WriteTransition(c, WithResult(Current(c), s, x, m)), UNCHANGED <<hook, ev>>
    PROVE  AccurateInv'
  <1> DEFINE u == WithResult(Current(c), s, x, m)
             e == ev[c][num[c]]
  <1>1. num[c] \in Index /\ Current(c) \in Transition
    BY InSlotFacts
  <1>2. HasResult(Current(c), u, s, x, m)
    BY <1>1, NewResult
  <1> HIDE DEF u
  <1>3. Accurate(c, Current(c), e)
    BY <1>1 DEF AccurateInv, Current
  <1>4. Accurate(c, u, e)
    <2>1. u.phase = Current(c).phase /\ \A r \in Slots \ {s} : u.status[r] = Current(c).status[r]
      BY <1>2 DEF HasResult
    <2>2. Current(c).phase = IF s = "pre" THEN "ExecutingPreActions" ELSE "ExecutingPostActions"
      BY DEF InSlot
    <2> HIDE DEF e
    <2> QED BY <1>3, <2>1, <2>2, SlotAccurate
  <1>5. tr' = [tr EXCEPT ![c][num[c]] = u]
    BY DEF WriteTransition, u
  <1>6. tr' = tr => u = tr[c][num[c]]
    <2>1. tr \in [Cluster -> [Index -> Transition]]
      BY DEF WaitInv, TypeOK
    <2>2. tr'[c][num[c]] = u
      BY <1>1, <1>5, <2>1
    <2> QED BY <2>2
  <1> QED BY <1>1, <1>4, <1>5, <1>6, AccurateStep DEF WaitInv

\* What a poll concludes.
LEMMA ConcludeAccurate ==
    ASSUME WaitInv, AccurateInv, NEW c \in Cluster, NEW s \in Slots, InSlot(c, s),
           NEW v, Conclude(c, s, v), UNCHANGED <<hook, ev>>
    PROVE  AccurateInv'
  <1>1. Current(c) \in Transition /\ Current(c).msg[s] \in {"", "timeout", "remote"}
    BY InSlotFacts
  <1>2. "Succeeded" \in Statuses /\ "Failed" \in Statuses
    BY DEF Statuses
  <1>3. CASE v = "succeeded"
    <2>1. WriteTransition(c, WithResult(Current(c), s, "Succeeded", Current(c).msg[s]))
      BY <1>1, <1>3, SameMessage DEF Conclude
    <2> QED BY <1>1, <1>2, <2>1, ResultAccurate
  <1>4. CASE v = "failed"
    <2>1. WriteTransition(c, WithResult(Current(c), s, "Failed", "remote"))
      BY <1>4 DEF Conclude, WithResult
    <2> QED BY <1>2, <2>1, ResultAccurate
  <1>5. CASE v \notin {"succeeded", "failed"}
    <2>1. tr' = tr
      BY <1>5 DEF Conclude
    <2> QED BY <2>1 DEF AccurateInv, Accurate
  <1> QED BY <1>3, <1>4, <1>5

\* The steps of an action.
LEMMA ActionAccurate ==
    ASSUME WaitInv, AccurateInv, NEW c \in Cluster, NEW s \in Slots,
           \/ StartAction(c, s) \/ TimeOut(c, s) \/ RunAction(c, s)
           \/ PollRemote(c, s) \/ ListRemoteEvents(c, s)
    PROVE  AccurateInv'
  <1>1. InSlot(c, s) /\ hook' = hook /\ ev' = ev
    BY DEF StartAction, TimeOut, RunAction, PollRemote, ListRemoteEvents
  <1>2. Current(c) \in Transition /\ Current(c).msg[s] \in {"", "timeout", "remote"}
    BY <1>1, InSlotFacts
  <1>3. {"Running", "Succeeded", "Failed"} \subseteq Statuses
    BY DEF Statuses
  <1>4. CASE StartAction(c, s)
    <2>1. WriteTransition(c, WithResult(Current(c), s, "Running", Current(c).msg[s]))
      BY <1>2, <1>4, SameMessage DEF StartAction
    <2> QED BY <1>1, <1>2, <1>3, <2>1, ResultAccurate
  <1>5. CASE TimeOut(c, s)
    <2>1. WriteTransition(c, WithResult(Current(c), s, "Failed", "timeout"))
      BY <1>5 DEF TimeOut, WithResult
    <2> QED BY <1>1, <1>3, <2>1, ResultAccurate
  <1>6. CASE RunAction(c, s)
    <2>1. PICK x \in {"Succeeded", "Failed"} :
            WriteTransition(c, [Current(c) EXCEPT !.status[s] = x])
      BY <1>6 DEF RunAction
    <2>2. WriteTransition(c, WithResult(Current(c), s, x, Current(c).msg[s]))
      BY <1>2, <2>1, SameMessage
    <2> QED BY <1>1, <1>2, <1>3, <2>2, ResultAccurate
  <1>7. CASE PollRemote(c, s)
    <2>1. tr' = tr \/ \E v : Conclude(c, s, v)
      BY <1>7 DEF PollRemote
    <2>2. CASE tr' = tr
      BY <1>1, <2>2 DEF AccurateInv, Accurate
    <2> QED BY <1>1, <2>1, <2>2, ConcludeAccurate
  <1>8. CASE ListRemoteEvents(c, s)
    <2>1. \E v : Conclude(c, s, v)
      BY <1>8 DEF ListRemoteEvents
    <2> QED BY <1>1, <2>1, ConcludeAccurate
  <1> QED BY <1>4, <1>5, <1>6, <1>7, <1>8

\* What updateFailoverEvent leaves accurate.
LEMMA UpdateAccurate ==
    ASSUME NEW c, NEW t, NEW e \in Event, Accurate(c, t, e),
           NEW o \in {"Succeeded", "Failed", "ForceAdvanced"},
           o = "Succeeded" => t.phase = "Idle",
           o = "Failed" => \E s \in Slots : t.status[s] = "Failed" /\ ~hook[c][s].ignore,
           NEW f, f = UpdateFailoverEvent(e, t, o)
    PROVE  Accurate(c, t, f)
  <1>1. CASE f = e
    BY <1>1
  <1>2. CASE f # e
    <2>1. f.status = t.status /\ f.outcome \in {o, "ForceAdvanced"}
      BY <1>2 DEF UpdateFailoverEvent, Event
    <2> QED BY <2>1 DEF Accurate
  <1> QED BY <1>1, <1>2

\* The writes of the event.
LEMMA EventAccurate ==
    ASSUME WaitInv, AccurateInv, NEW c \in Cluster,
           CreateFailoverEvent(c) \/ StampFailoverEvent(c) \/ CloseEvent(c)
    PROVE  AccurateInv'
  <1> DEFINE t == Current(c)
             e == ev[c][num[c]]
  <1>1. num[c] > 0 /\ tr' = tr /\ hook' = hook
    BY DEF CreateFailoverEvent, StampFailoverEvent, CloseEvent, WaitInv, PcOK
  <1>2. num[c] \in Index /\ e \in Event /\ t = tr[c][num[c]]
    BY <1>1, CurrentFacts DEF Current
  <1>3. Accurate(c, t, e)
    BY <1>2 DEF AccurateInv
  <1>4. ASSUME NEW f, WriteEvent(c, f), Accurate(c, t, f) PROVE AccurateInv'
    <2>1. ev' = [ev EXCEPT ![c][num[c]] = f]
      BY <1>4 DEF WriteEvent
    <2>2. ev' = ev => f = ev[c][num[c]]
      BY <1>2, <2>1 DEF WaitInv, TypeOK
    <2> QED BY <1>1, <1>2, <1>4, <2>1, <2>2, AccurateStep DEF WaitInv
  <1>5. CASE CreateFailoverEvent(c)
    <2> DEFINE f == [NoEvent EXCEPT !.outcome = "", !.created = now]
    <2>1. WriteEvent(c, f) /\ f.outcome = ""
      BY <1>5 DEF CreateFailoverEvent, NoEvent
    <2> HIDE DEF f
    <2>2. Accurate(c, t, f)
      BY <1>3, <2>1 DEF Accurate
    <2> QED BY <1>4, <2>1, <2>2
  <1>6. CASE StampFailoverEvent(c)
    <2> DEFINE f == [e EXCEPT !.outcome = "InProgress", !.startedAt = Current(c).startedAt]
    <2>1. WriteEvent(c, f) /\ f.outcome = "InProgress"
      BY <1>2, <1>6 DEF StampFailoverEvent, Event
    <2> HIDE DEF f
    <2>2. Accurate(c, t, f)
      BY <1>3, <2>1 DEF Accurate
    <2> QED BY <1>4, <2>1, <2>2
  <1>7. CASE CloseEvent(c)
    <2>1. WriteEvent(c, UpdateFailoverEvent(e, t, "Succeeded")) /\ t.phase = "Idle"
      BY <1>7 DEF CloseEvent, WaitInv, PcOK
    <2>2. Accurate(c, t, UpdateFailoverEvent(e, t, "Succeeded"))
      BY <1>2, <1>3, <2>1, UpdateAccurate
    <2> QED BY <1>4, <2>1, <2>2
  <1> QED BY <1>5, <1>6, <1>7

\* A failed action is skipped, or closes the event.
LEMMA FailedAccurate ==
    ASSUME WaitInv, AccurateInv, NEW c \in Cluster, NEW s \in Slots, HandleFailed(c, s)
    PROVE  AccurateInv'
  <1>1. InSlot(c, s) /\ hook' = hook /\ Current(c).status[s] = "Failed"
    BY DEF HandleFailed
  <1>2. /\ num[c] \in Index /\ Current(c) \in Transition
        /\ Current(c).msg[s] \in {"", "timeout", "remote"}
    BY <1>1, InSlotFacts
  <1>3. CASE hook[c][s].ignore
    <2>1. WriteTransition(c, WithResult(Current(c), s, "Skipped", Current(c).msg[s])) /\ ev' = ev
      BY <1>2, <1>3, SameMessage DEF HandleFailed
    <2>2. "Skipped" \in Statuses
      BY DEF Statuses
    <2> QED BY <1>1, <1>2, <2>1, <2>2, ResultAccurate
  <1>4. CASE ~hook[c][s].ignore
    <2> DEFINE f == UpdateFailoverEvent(ev[c][num[c]], Current(c), "Failed")
    <2>1. tr' = tr /\ ev' = [ev EXCEPT ![c][num[c]] = f]
      BY <1>4 DEF HandleFailed, WriteEvent
    <2>2. ev[c][num[c]] \in Event /\ Accurate(c, Current(c), ev[c][num[c]])
      BY <1>2 DEF WaitInv, TypeOK, AccurateInv, Current
    <2>3. Accurate(c, Current(c), f)
      BY <1>1, <1>4, <2>2, UpdateAccurate
    <2> HIDE DEF f
    <2>4. ev' = ev => f = ev[c][num[c]]
      BY <1>2, <2>1 DEF WaitInv, TypeOK
    <2> QED BY <1>1, <1>2, <2>1, <2>3, <2>4, AccurateStep DEF WaitInv, Current
  <1> QED BY <1>3, <1>4

\* A phase is left when its actions are over.
LEMMA PhaseAccurate ==
    ASSUME WaitInv, AccurateInv, NEW c \in Cluster, AdvancePhase(c)
    PROVE  AccurateInv'
  <1> DEFINE t == Current(c)
             e == ev[c][num[c]]
  <1>1. num[c] > 0 /\ t.phase # "Idle" /\ hook' = hook /\ ev' = ev
    BY DEF AdvancePhase, InFlight
  <1>2. num[c] \in Index /\ t \in Transition /\ RecordOK(c, t, e) /\ t.phase # "None"
    BY <1>1, CurrentFacts
  <1>3. Accurate(c, t, e)
    BY <1>2 DEF AccurateInv, Current
  <1>4. PICK q \in {"UpdatingResources", "FlushingConnections", "ExecutingPostActions", "Idle"} :
          /\ WriteTransition(c, [t EXCEPT !.phase = q])
          /\ t.phase = "ExecutingPreActions" => t.status["pre"] \in Over
          /\ q = "Idle" => \/ hook[c]["post"] = NoAction
                           \/ t.status["post"] \in Over
    BY DEF AdvancePhase, Complete, InSlot, Over
  <1> DEFINE u == [t EXCEPT !.phase = q]
  <1>5. u.phase = q /\ u.status = t.status
    BY <1>2 DEF Transition
  <1>6. hook[c]["post"] = NoAction => t.status["post"] \in Over
    BY <1>2 DEF RecordOK, Slots, Over
  <1> HIDE DEF u
  <1>7. Accurate(c, u, e)
    BY <1>1, <1>2, <1>3, <1>4, <1>5, <1>6 DEF Accurate
  <1>8. tr' = [tr EXCEPT ![c][num[c]] = u]
    BY <1>4 DEF WriteTransition, u
  <1>9. tr' = tr => u = tr[c][num[c]]
    BY <1>2, <1>8 DEF WaitInv, TypeOK
  <1> QED BY <1>1, <1>2, <1>7, <1>8, <1>9, AccurateStep DEF WaitInv

\* A transition that is forced: the event first, then the phase or the result.
LEMMA ForceAccurate ==
    ASSUME WaitInv, AccurateInv, NEW c \in Cluster, ForceAdvance(c)
    PROVE  AccurateInv'
  <1> DEFINE t == Current(c)
             e == ev[c][num[c]]
  <1>1. num[c] > 0 /\ t.phase # "Idle" /\ hook' = hook
    BY DEF ForceAdvance, InFlight
  <1>2. num[c] \in Index /\ t \in Transition /\ e \in Event /\ t.phase # "None"
    BY <1>1, CurrentFacts
  <1>3. Accurate(c, t, e)
    BY <1>2 DEF AccurateInv, Current
  <1>4. PICK u \in {t, ForceAdvanced(t)} : tr' = [tr EXCEPT ![c][num[c]] = u]
    BY DEF ForceAdvance, WriteTransition
  <1>5. PICK f \in {e, UpdateFailoverEvent(e, t, "ForceAdvanced")} :
          ev' = [ev EXCEPT ![c][num[c]] = f]
    BY DEF ForceAdvance, WriteEvent
  <1>6. Accurate(c, t, f)
    BY <1>2, <1>3, <1>5, UpdateAccurate
  <1>7. Accurate(c, u, f)
    <2>1. ASSUME NEW s \in Slots, u = WithResult(t, s, "Skipped", ""),
                 t.phase = IF s = "pre" THEN "ExecutingPreActions" ELSE "ExecutingPostActions"
          PROVE  Accurate(c, u, f)
      <3>1. HasResult(t, u, s, "Skipped", "")
        BY <1>2, <2>1, NewResult DEF Statuses
      <3>2. u.phase = t.phase /\ \A r \in Slots \ {s} : u.status[r] = t.status[r]
        BY <3>1 DEF HasResult
      <3>3. t.phase = IF s = "pre" THEN "ExecutingPreActions" ELSE "ExecutingPostActions"
        BY <2>1
      <3> HIDE DEF t, e
      <3> QED BY <1>6, <3>2, <3>3, SlotAccurate
    <2>2. ASSUME NEW q \in {"FlushingConnections", "ExecutingPostActions"},
                 u = [t EXCEPT !.phase = q],
                 t.phase \in {"UpdatingResources", "FlushingConnections"}
          PROVE  Accurate(c, u, f)
      <3>1. u.phase = q /\ u.status = t.status
        BY <1>2, <2>2 DEF Transition
      <3> QED BY <1>6, <2>2, <3>1 DEF Accurate
    <2>3. CASE t.phase = "ExecutingPreActions" /\ u # t
      <3>1. u = WithResult(t, "pre", "Skipped", "") /\ "pre" \in Slots
        BY <1>4, <2>3 DEF ForceAdvanced, WithResult, Slots
      <3> QED BY <2>1, <2>3, <3>1
    <2>4. CASE t.phase = "ExecutingPostActions" /\ u # t
      <3>1. u = WithResult(t, "post", "Skipped", "") /\ "post" \in Slots
        BY <1>4, <2>4 DEF ForceAdvanced, WithResult, Slots
      <3> QED BY <2>1, <2>4, <3>1
    <2>5. CASE t.phase = "UpdatingResources" /\ u # t
      <3>1. u = [t EXCEPT !.phase = "FlushingConnections"]
        BY <1>4, <2>5 DEF ForceAdvanced
      <3> QED BY <2>2, <2>5, <3>1
    <2>6. CASE t.phase = "FlushingConnections" /\ u # t
      <3>1. u = [t EXCEPT !.phase = "ExecutingPostActions"]
        BY <1>4, <2>6 DEF ForceAdvanced
      <3> QED BY <2>2, <2>6, <3>1
    <2>7. t.phase \in {"ExecutingPreActions", "ExecutingPostActions", "UpdatingResources",
                       "FlushingConnections"}
      BY <1>1, <1>2 DEF Transition, Phases
    <2> QED BY <1>6, <2>3, <2>4, <2>5, <2>6, <2>7
  <1>8. /\ tr' = tr => u = tr[c][num[c]]
        /\ ev' = ev => f = ev[c][num[c]]
    BY <1>2, <1>4, <1>5 DEF WaitInv, TypeOK
  <1> QED BY <1>1, <1>2, <1>4, <1>5, <1>7, <1>8, AccurateStep DEF WaitInv

\* A transition that begins without pre-actions has none on record.
LEMMA BeginAccurate ==
    ASSUME WaitInv, AccurateInv, NEW c \in Cluster, BeginTransition(c)
    PROVE  AccurateInv'
  <1> DEFINE n == num[c] + 1
             u == [phase |-> IF hook[c]["pre"] = NoAction THEN "UpdatingResources"
                                                          ELSE "ExecutingPreActions",
                   dir |-> want[c], startedAt |-> now,
                   status |-> [s \in Slots |-> IF hook[c][s] = NoAction THEN "none" ELSE "Pending"],
                   msg |-> [s \in Slots |-> ""]]
  <1>1. num[c] < MaxFlips /\ tr' = [tr EXCEPT ![c][n] = u] /\ ev' = ev /\ hook' = hook
    BY DEF BeginTransition
  <1>2. n \in Index /\ ~(n <= num[c])
    <2>1. num[c] \in 0..MaxFlips /\ num[c] < MaxFlips
      BY <1>1 DEF WaitInv, TypeOK
    <2>2. \A i \in 0..MaxFlips : i < MaxFlips => i + 1 \in 1..MaxFlips /\ ~(i + 1 <= i)
      BY WaitBoundAssumption
    <2> QED BY <2>1, <2>2 DEF Index
  <1>3. ev[c][n] = NoEvent
    BY <1>2 DEF WaitInv, Records, RecordOK
  <1>4. Accurate(c, u, NoEvent)
    BY DEF Accurate, NoEvent, Over, Slots
  <1> HIDE DEF n, u
  <1>5. tr' = tr => u = tr[c][n]
    BY <1>1, <1>2 DEF WaitInv, TypeOK
  <1> QED BY <1>1, <1>2, <1>3, <1>4, <1>5, AccurateStep DEF WaitInv

\* Every step keeps AccurateInv.
LEMMA AccurateNext == WaitInv /\ AccurateInv /\ [Next]_vars => AccurateInv'
  <1> SUFFICES ASSUME WaitInv, AccurateInv, [Next]_vars PROVE AccurateInv'
    OBVIOUS
  <1>1. CASE \/ UNCHANGED vars \/ Tick
             \/ \E c \in Cluster : Flip(c) \/ ListFails(c) \/ EventWriteFails(c) \/ Expire(c)
    <2>1. UNCHANGED <<hook, tr, ev>>
      BY <1>1 DEF vars, Flip, ListFails, EventWriteFails, Expire, Tick
    <2> QED BY <2>1 DEF AccurateInv, Accurate
  <1>2. ASSUME NEW c \in Cluster, Reconcile(c) \/ ForceAdvance(c) PROVE  AccurateInv'
    BY <1>1, <1>2, ActionAccurate, EventAccurate, FailedAccurate, PhaseAccurate, ForceAccurate,
       BeginAccurate DEF Reconcile
  <1> QED BY <1>1, <1>2 DEF Next

-----------------------------------------------------------------------------
(* The theorems *)

\* Every variable keeps its type: the status and the events written by two
\* controllers that read each other's.
THEOREM WaitTypeCorrect == Spec => []TypeOK
  <1>1. WaitInv => TypeOK
    BY DEF WaitInv
  <1> QED
    BY <1>1, InitWaitInv, NextWaitInv, PTL DEF Spec

\* A waitRemote action succeeds only on the strength of a remote transition in
\* the same direction that arrived where it is waited for (checkPhase,
\* checkActionName), whatever hooks the clusters have.
THEOREM SuccessCorrect == Spec => []SuccessBacked
  <1>1. WaitInv => SuccessBacked
    BY DEF WaitInv
  <1> QED
    BY <1>1, InitWaitInv, NextWaitInv, PTL DEF Spec

\* A waitRemote action the remote makes fail has a remote action that failed,
\* is missing or has no unique name to show for it (checkActionName).
THEOREM FailureCorrect == Spec => []FailureBacked
  <1>1. WaitInv => FailureBacked
    BY DEF WaitInv
  <1> QED
    BY <1>1, InitWaitInv, NextWaitInv, PTL DEF Spec

\* No step takes back a result the other cluster may have acted on
\* (handleActionState, forceAdvanceActionPhase).
THEOREM ResultsCorrect == Spec => ResultsStand
  <1>1. WaitInv /\ [Next]_vars
        => [\A c \in Cluster, i \in Index, s \in Slots :
              LET old == tr[c][i].status[s]
                  new == tr'[c][i].status[s]
              IN  /\ old \in {"Succeeded", "Skipped"} => new = old
                  /\ old = "Failed" => new \in {"Failed", "Skipped"}]_vars
    BY NextWaitInv DEF Stands
  <1> QED
    BY <1>1, InitWaitInv, NextWaitInv, PTL DEF Spec, ResultsStand
\* An event tells the truth about its transition for whoever reads it later:
\* Succeeded only with every action over and listed as it ended, Failed only
\* with a failed action to show, under lost event writes and force-advances
\* (updateFailoverEvent, completeTransition, handleForceAdvance).
THEOREM EventsCorrect == Spec => []EventsAccurate
  <1>1. Init => AccurateInv
    <2>1. ASSUME NEW c \in Cluster PROVE Accurate(c, NoTransition, NoEvent)
      BY DEF Accurate, NoTransition, NoEvent
    <2>2. ASSUME Init, NEW c \in Cluster, NEW k \in Index
          PROVE  tr[c][k] = NoTransition /\ ev[c][k] = NoEvent
      BY <2>2 DEF Init
    <2> QED BY <2>1, <2>2 DEF AccurateInv
  <1>2. AccurateInv => EventsAccurate
    BY DEF AccurateInv, Accurate, EventsAccurate, Over, Slots
  <1> QED
    BY <1>1, <1>2, InitWaitInv, NextWaitInv, AccurateNext, PTL DEF Spec
=============================================================================
