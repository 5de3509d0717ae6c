------------------------------ MODULE ConnKill ------------------------------
(***************************************************************************)
(* The connection-kill protocol (internal/connkill): the controller's      *)
(* Signaler and one Agent per node talk through the data of one ConfigMap. *)
(*                                                                         *)
(* A kill entry and an ACK entry per node and FailoverService are all the  *)
(* ConfigMap holds.  Its writers read, modify and update it, and repeat    *)
(* the three on a resourceVersion conflict, so each of their writes is one *)
(* step.  Between an agent's read of the signals and its ACK, however, the *)
(* Signaler may overwrite the signal or remove it, and the agent may die.  *)
(***************************************************************************)
EXTENDS Integers, FiniteSets

CONSTANTS
    Nodes,        \* nodes with a connection-killer pod
    Services,     \* FailoverServices; with a node, one makes a ConfigMap key
    MaxSignals,   \* bound: kill signals sent per FailoverService
    MaxCordons,   \* bound: changes of a node's eligibility
    MaxCrashes,   \* bound: agent restarts
    MaxFaults     \* bound: failed API calls and failed socket kills

ASSUME NodesAssumption == IsFiniteSet(Nodes) /\ IsFiniteSet(Services)
ASSUME KillBoundAssumption == /\ MaxSignals \in Nat /\ MaxCordons \in Nat
                              /\ MaxCrashes \in Nat /\ MaxFaults \in Nat

\* Tokens are unique per SignalKill; 0 stands for "no entry".
Signal    == [seq : Nat, token : Nat]
Ack       == [seq : Nat, token : Nat, errors : BOOLEAN]
NoSignal  == [seq |-> 0, token |-> 0]
NoAck     == [seq |-> 0, token |-> 0, errors |-> FALSE]

\* What the FailoverService's status says of the flush.
Flushes   == [state : {"idle", "waiting", "acked", "skipped"}, token : Nat,
              nodes : SUBSET Nodes]
NoFlush   == [state |-> "idle", token |-> 0, nodes |-> {}]

\* An agent: its lastSeq, the signals read by the RunOnce in progress and
\* still to be processed, and the kill whose ACK is yet to be written.
Agents    == [up : BOOLEAN, lastSeq : [Services -> Nat], todo : SUBSET Services,
              snap : [Services -> Signal], killed : SUBSET Services, errors : BOOLEAN]

VARIABLES
    kill,      \* ConfigMap: the kill entry of a node and a service
    ack,       \* ConfigMap: the ACK entry
    cached,    \* the ACK entries as the controller's cache has them
    flush,     \* the persisted flush of each service
    issued,    \* tokens generated so far, per service
    agent,     \* the agent of each node
    event,     \* a watch event, or a reconnect, has the agent run RunOnce
    eligible,  \* nodes isNodeEligible accepts
    cordons, crashes, faults,   \* counters the bounds apply to
    done,      \* history: kills carried out without error, <<node, service, token>>
    cleaned    \* history: tokens issued when the entries were last removed

configMap == <<kill, ack>>
control   == <<cached, flush, issued>>
counters  == <<cordons, crashes, faults>>
history   == <<done, cleaned>>
vars      == <<configMap, control, agent, event, eligible, counters, history>>

NewAgent == [up |-> TRUE, lastSeq |-> [s \in Services |-> 0], todo |-> {},
             snap |-> [s \in Services |-> NoSignal], killed |-> {}, errors |-> FALSE]

Init ==
    /\ kill = [n \in Nodes |-> [s \in Services |-> NoSignal]]
    /\ ack = [n \in Nodes |-> [s \in Services |-> NoAck]]
    /\ cached = ack
    /\ flush = [s \in Services |-> NoFlush]
    /\ issued = [s \in Services |-> 0]
    /\ agent = [n \in Nodes |-> NewAgent]
    /\ event = [n \in Nodes |-> FALSE]
    /\ eligible \in SUBSET Nodes
    /\ cordons = 0 /\ crashes = 0 /\ faults = 0
    /\ done = {} /\ cleaned = [s \in Services |-> 0]

Fault == faults < MaxFaults /\ faults' = faults + 1

\* Any update of the ConfigMap is a Modified event for every agent.
Modified == event' = [n \in Nodes |-> TRUE]

-----------------------------------------------------------------------------
(* Signaler *)

\* Variant: the sequence number goes down.
PopulateKillSignals_Down(s, token) ==
    kill' = [n \in Nodes |->
               IF n \in eligible
               THEN [kill[n] EXCEPT ![s] = [seq |-> @.seq - 1, token |-> token]]
               ELSE kill[n]]

\* populateKillSignals: one past the entry that is there, or 1.
PopulateKillSignals(s, token) ==
    kill' = [n \in Nodes |->
               IF n \in eligible
               THEN [kill[n] EXCEPT ![s] = [seq |-> @.seq + 1, token |-> token]]
               ELSE kill[n]]

\* SignalKill with a new token.  The token is persisted by the status write
\* that follows; if that is refused or the controller dies, or if the reconcile
\* read a copy from before it, the signal is out and the status as it was.
SignalKill(s) ==
    /\ issued[s] < MaxSignals /\ eligible # {}
    /\ flush[s].state \in {"idle", "waiting"}
    /\ issued' = [issued EXCEPT ![s] = @ + 1]
    /\ PopulateKillSignals(s, issued[s] + 1)
    /\ \/ /\ flush[s].state = "idle"
          /\ flush' = [flush EXCEPT ![s] =
               [state |-> "waiting", token |-> issued[s] + 1, nodes |-> eligible]]
       \/ flush' = flush
    /\ Modified
    /\ UNCHANGED <<ack, cached, agent, eligible, counters, history>>

\* No eligible node, or no agent pod at all, which is as if no node were
\* eligible: nothing to wait for.
SkipKill(s) ==
    /\ flush[s].state = "idle" /\ eligible = {}
    /\ flush' = [flush EXCEPT ![s].state = "skipped"]
    /\ UNCHANGED <<configMap, cached, issued, agent, event, eligible, counters, history>>

\* Variant: any ACK entry counts.
Acked_AnyToken(a, token) == a.token # 0 /\ ~a.errors

\* What CheckAcks counts as a good ACK.
Acked(a, token) == a.token = token /\ ~a.errors

\* CheckAcks finds every expected node's ACK, in the cached ConfigMap.
CheckAcks(s) ==
    /\ flush[s].state = "waiting"
    /\ \A n \in flush[s].nodes : Acked(cached[n][s], flush[s].token)
    /\ flush' = [flush EXCEPT ![s].state = "acked"]
    /\ UNCHANGED <<configMap, cached, issued, agent, event, eligible, counters, history>>

\* The operator force-advances, or deletes the object.
GiveUp(s) ==
    /\ flush[s].state = "waiting"
    /\ flush' = [flush EXCEPT ![s].state = "skipped"]
    /\ UNCHANGED <<configMap, cached, issued, agent, event, eligible, counters, history>>

\* CleanupSignals at the end of the transition: both entries of every node,
\* unless the update fails, which is only logged.
CleanupSignals(s) ==
    /\ flush[s].state \in {"acked", "skipped"}
    /\ flush' = [flush EXCEPT ![s] = NoFlush]
    /\ \/ /\ kill' = [n \in Nodes |-> [kill[n] EXCEPT ![s] = NoSignal]]
          /\ ack' = [n \in Nodes |-> [ack[n] EXCEPT ![s] = NoAck]]
          /\ cleaned' = [cleaned EXCEPT ![s] = issued[s]]
          /\ Modified /\ faults' = faults
       \/ Fault /\ UNCHANGED <<configMap, event, cleaned>>
    /\ UNCHANGED <<cached, issued, agent, eligible, cordons, crashes, done>>

\* The controller's cache follows the ConfigMap.
SyncCache ==
    /\ cached # ack /\ cached' = ack
    /\ UNCHANGED <<configMap, flush, issued, agent, event, eligible, counters, history>>

-----------------------------------------------------------------------------
(* Agent *)

Idle(n) == agent[n].up /\ agent[n].todo = {}

\* RunOnce reads the ConfigMap and goes through the signals for its node that
\* are newer than lastSeq; when the read fails it waits for the next event.
RunOnce(n) ==
    /\ Idle(n) /\ event[n]
    /\ event' = [event EXCEPT ![n] = FALSE]
    /\ \/ /\ agent' = [agent EXCEPT ![n].snap = kill[n],
                ![n].todo = {s \in Services : kill[n][s].seq > agent[n].lastSeq[s]}]
          /\ faults' = faults
       \/ Fault /\ agent' = agent
    /\ UNCHANGED <<configMap, control, eligible, cordons, crashes, history>>

\* Variant: an error of the kill is not counted.
KillConnections_DropsErrors(n) ==
    /\ agent[n].up /\ agent[n].killed = {}
    /\ \E s \in agent[n].todo :
         /\ agent' = [agent EXCEPT ![n].killed = {s}, ![n].errors = FALSE]
         /\ \/ done' = done \cup {<<n, s, agent[n].snap[s].token>>} /\ faults' = faults
            \/ Fault /\ done' = done
    /\ UNCHANGED <<configMap, control, event, eligible, cordons, crashes, cleaned>>

\* KillConnectionsAllNamespaces for one of them, in any order of the keys.
KillConnections(n) ==
    /\ agent[n].up /\ agent[n].killed = {}
    /\ \E s \in agent[n].todo :
         LET token == agent[n].snap[s].token
         IN  \/ /\ agent' = [agent EXCEPT ![n].killed = {s}, ![n].errors = FALSE]
                /\ done' = done \cup {<<n, s, token>>} /\ faults' = faults
             \/ /\ agent' = [agent EXCEPT ![n].killed = {s}, ![n].errors = TRUE]
                /\ Fault /\ done' = done
    /\ UNCHANGED <<configMap, control, event, eligible, cordons, crashes, cleaned>>

\* Variant: lastSeq moves on although the ACK was not written.
WriteAck_AdvancesOnError(n) ==
    /\ agent[n].up
    /\ \E s \in agent[n].killed :
         LET signal == agent[n].snap[s]
         IN  /\ agent' = [agent EXCEPT ![n].todo = @ \ {s}, ![n].killed = {},
                                       ![n].lastSeq[s] = signal.seq]
             /\ \/ /\ ack' = [ack EXCEPT ![n][s] = [seq |-> signal.seq, token |-> signal.token,
                                                    errors |-> agent[n].errors]]
                   /\ Modified /\ faults' = faults
                \/ Fault /\ UNCHANGED <<ack, event>>
    /\ UNCHANGED <<kill, control, eligible, cordons, crashes, history>>

\* writeAck; lastSeq follows only when the ACK is in the ConfigMap.
WriteAck(n) ==
    /\ agent[n].up
    /\ \E s \in agent[n].killed :
         LET signal == agent[n].snap[s]
             next   == [agent[n] EXCEPT !.todo = @ \ {s}, !.killed = {}]
         IN  \/ /\ ack' = [ack EXCEPT ![n][s] = [seq |-> signal.seq, token |-> signal.token,
                                                 errors |-> agent[n].errors]]
                /\ agent' = [agent EXCEPT ![n] = [next EXCEPT !.lastSeq[s] = signal.seq]]
                /\ Modified /\ faults' = faults
             \/ Fault /\ agent' = [agent EXCEPT ![n] = next] /\ UNCHANGED <<ack, event>>
    /\ UNCHANGED <<kill, control, eligible, cordons, crashes, history>>

Crash(n) ==
    /\ agent[n].up /\ crashes < MaxCrashes
    /\ crashes' = crashes + 1
    /\ agent' = [agent EXCEPT ![n] = [NewAgent EXCEPT !.up = FALSE]]
    /\ UNCHANGED <<configMap, control, event, eligible, cordons, faults, history>>

\* Variant: lastSeq is seeded from the signals instead of the ACKs.
Start_SeedsFromSignals(n) ==
    /\ ~agent[n].up
    /\ agent' = [agent EXCEPT ![n].up = TRUE,
                              ![n].lastSeq = [s \in Services |-> kill[n][s].seq]]
    /\ event' = [event EXCEPT ![n] = TRUE]
    /\ UNCHANGED <<configMap, control, eligible, counters, history>>

\* Watch: initFromConfigMap seeds lastSeq from the ACKs (a failed read leaves
\* it empty), and watchOnce begins with a RunOnce.
Start(n) ==
    /\ ~agent[n].up
    /\ \/ /\ agent' = [agent EXCEPT ![n].up = TRUE,
                                    ![n].lastSeq = [s \in Services |-> ack[n][s].seq]]
          /\ faults' = faults
       \/ Fault /\ agent' = [agent EXCEPT ![n].up = TRUE]
    /\ event' = [event EXCEPT ![n] = TRUE]
    /\ UNCHANGED <<configMap, control, eligible, cordons, crashes, history>>

\* The API server closes the watch; watchOnce is entered again.
Reconnect(n) ==
    /\ agent[n].up /\ ~event[n]
    /\ event' = [event EXCEPT ![n] = TRUE]
    /\ UNCHANGED <<configMap, control, agent, eligible, counters, history>>

\* A node becomes unschedulable or unready, or comes back.
Cordon(n) ==
    /\ cordons < MaxCordons /\ cordons' = cordons + 1
    /\ eligible' = IF n \in eligible THEN eligible \ {n} ELSE eligible \cup {n}
    /\ UNCHANGED <<configMap, control, agent, event, crashes, faults, history>>

-----------------------------------------------------------------------------
AgentStep(n) == RunOnce(n) \/ KillConnections(n) \/ WriteAck(n) \/ Start(n) \/ Reconnect(n)

Next ==
    \/ \E s \in Services : \/ SignalKill(s) \/ SkipKill(s) \/ CheckAcks(s)
                           \/ GiveUp(s) \/ CleanupSignals(s)
    \/ \E n \in Nodes : AgentStep(n) \/ Crash(n) \/ Cordon(n)
    \/ SyncCache

Spec == Init /\ [][Next]_vars

\* An agent goes on, is restarted by the DaemonSet, and its watch is closed
\* from time to time.  The controller need not do anything.
Fairness == \A n \in Nodes : WF_vars(AgentStep(n))

FairSpec == Spec /\ Fairness

-----------------------------------------------------------------------------
(* Properties *)

\* Every variable has the type the code declares for it.
TypeOK ==
    /\ kill \in [Nodes -> [Services -> Signal]]
    /\ ack \in [Nodes -> [Services -> Ack]] /\ cached \in [Nodes -> [Services -> Ack]]
    /\ flush \in [Services -> Flushes] /\ issued \in [Services -> Nat]
    /\ agent \in [Nodes -> Agents] /\ event \in [Nodes -> BOOLEAN]
    /\ eligible \in SUBSET Nodes
    /\ cordons \in Nat /\ crashes \in Nat /\ faults \in Nat
    /\ done \subseteq Nodes \X Services \X Nat
    /\ cleaned \in [Services -> Nat]

\* The flush ends with AllNodesAcked only when every node it waited for has
\* killed the connections after this signal was sent, and without error: not
\* for an earlier token, a stale cached ConfigMap or the ACK of an agent that
\* died (CheckAcks, RunOnce).
AckedMeansKilled ==
    \A s \in Services : flush[s].state = "acked" =>
        \A n \in flush[s].nodes : <<n, s, flush[s].token>> \in done

Evidence(n, s, token) == <<n, s, token>> \in done

\* Why that holds: every good ACK, in the ConfigMap, in the controller's cache
\* or about to be written, is the trace of a kill that was carried out for the
\* token it carries; an agent reads new signals only when it owes no ACK; and 0
\* is never waited for (RunOnce, writeAck).
AckEvidence ==
    \A n \in Nodes, s \in Services :
        /\ ack[n][s].token # 0 /\ ~ack[n][s].errors => Evidence(n, s, ack[n][s].token)
        /\ cached[n][s].token # 0 /\ ~cached[n][s].errors => Evidence(n, s, cached[n][s].token)
        /\ s \in agent[n].killed /\ ~agent[n].errors => Evidence(n, s, agent[n].snap[s].token)
        /\ agent[n].killed \subseteq agent[n].todo
        /\ flush[s].state = "waiting" => flush[s].token # 0

\* Until the entries of a FailoverService are removed for the first time, an
\* agent passes over a signal only if its ACK is in the ConfigMap, whichever ACK
\* writes failed, wherever it died and whatever overtook the signal between its
\* read and its ACK (RunOnce, initFromConfigMap).
SkipsAnswered ==
    \A n \in Nodes, s \in Services :
        cleaned[s] = 0 /\ kill[n][s].token # 0 /\ kill[n][s].seq <= agent[n].lastSeq[s]
            => ack[n][s].token = kill[n][s].token

\* Until the entries of a FailoverService are removed for the first time, every
\* signal is answered in the end: once no more are sent, every node has the ACK
\* of its last one and keeps it, whatever ACK writes fail and agents restart
\* (writeAck: "Do not advance lastSeq unless ACK persistence succeeded;
\* otherwise we'd suppress retries").
SignalsAnswered ==
    <>[](\A n \in Nodes, s \in Services :
            kill[n][s].token # 0 => ack[n][s].token = kill[n][s].token \/ cleaned[s] > 0)

-----------------------------------------------------------------------------
(* What the repository says of itself and the code does not do *)

\* docs/guide/connection-killer.md: the agent "checks the monotonic sequence
\* number to skip already-processed signals": what an idle agent will skip, it
\* has processed.
SkippedMeansProcessed ==
    \A n \in Nodes, s \in Services :
        agent[n].up /\ kill[n][s].token # 0 /\ kill[n][s].seq <= agent[n].lastSeq[s]
            => <<n, s, kill[n][s].token>> \in done

=============================================================================
