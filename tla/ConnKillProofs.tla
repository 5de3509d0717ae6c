--------------------------- MODULE ConnKillProofs ---------------------------
(* Proofs about ConnKill: type correctness, that a flush is reported as      *)
(* acknowledged only when every node has killed its connections, and that an *)
(* agent passes over a signal only if it was acknowledged.                   *)
EXTENDS ConnKill, TLAPS

-----------------------------------------------------------------------------
(* Types *)

\* Values the actions store are well typed.
LEMMA EntriesTyped ==
    /\ NoSignal \in Signal /\ NoAck \in Ack /\ NoFlush \in Flushes /\ NewAgent \in Agents
    /\ [NewAgent EXCEPT !.up = FALSE] \in Agents
BY DEF NoSignal, NoAck, NoFlush, NewAgent, Signal, Ack, Flushes, Agents

\* Init is well typed.
LEMMA KillTypeInit == Init => TypeOK
<1> SUFFICES ASSUME Init PROVE TypeOK
  OBVIOUS
<1> USE EntriesTyped
<1>1. kill \in [Nodes -> [Services -> Signal]] /\ ack \in [Nodes -> [Services -> Ack]]
  BY DEF Init
<1>2. agent \in [Nodes -> Agents] /\ flush \in [Services -> Flushes]
  BY DEF Init
<1>3. event \in [Nodes -> BOOLEAN]
  BY DEF Init
<1>4. issued \in [Services -> Nat] /\ cleaned \in [Services -> Nat]
  BY DEF Init
<1> QED BY <1>1, <1>2, <1>3, <1>4 DEF Init, TypeOK

\* The ConfigMap stays well typed under new kill signals.
LEMMA PopulateTyped ==
    ASSUME TypeOK, NEW s \in Services, NEW t \in Nat, PopulateKillSignals(s, t)
    PROVE  kill' \in [Nodes -> [Services -> Signal]]
<1>1. ASSUME NEW n \in Nodes
      PROVE  [kill[n] EXCEPT ![s] = [seq |-> @.seq + 1, token |-> t]] \in [Services -> Signal]
  <2>1. kill[n] \in [Services -> Signal] /\ kill[n][s].seq + 1 \in Nat
    BY <1>1 DEF TypeOK, Signal
  <2>2. [seq |-> kill[n][s].seq + 1, token |-> t] \in Signal
    BY <2>1 DEF Signal
  <2> QED BY <2>1, <2>2
<1>2. \A n \in Nodes : kill[n] \in [Services -> Signal]
  BY DEF TypeOK
<1> QED BY <1>1, <1>2 DEF PopulateKillSignals

\* The Signaler's steps keep TypeOK.
LEMMA SignalerTyped ==
    ASSUME TypeOK, NEW s \in Services,
           SignalKill(s) \/ SkipKill(s) \/ CheckAcks(s) \/ GiveUp(s) \/ CleanupSignals(s)
    PROVE  TypeOK'
<1> USE EntriesTyped
<1>1. CASE SignalKill(s)
  <2>1. issued[s] + 1 \in Nat
    BY DEF TypeOK
  <2>2. kill' \in [Nodes -> [Services -> Signal]]
    BY <1>1, <2>1, PopulateTyped DEF SignalKill
  <2>3. flush' \in [Services -> Flushes]
    <3>1. [state |-> "waiting", token |-> issued[s] + 1, nodes |-> eligible] \in Flushes
      BY <2>1 DEF TypeOK, Flushes
    <3> QED BY <1>1, <3>1 DEF SignalKill, TypeOK
  <2>4. issued' \in [Services -> Nat] /\ event' \in [Nodes -> BOOLEAN]
    BY <1>1, <2>1 DEF SignalKill, Modified, TypeOK
  <2> QED BY <1>1, <2>2, <2>3, <2>4 DEF SignalKill, TypeOK, counters, history
<1>2. CASE SkipKill(s) \/ CheckAcks(s) \/ GiveUp(s)
  <2>1. \E st \in {"acked", "skipped"} : flush' = [flush EXCEPT ![s].state = st]
    BY <1>2 DEF SkipKill, CheckAcks, GiveUp
  <2>2. flush' \in [Services -> Flushes]
    <3>1. PICK st \in {"acked", "skipped"} : flush' = [flush EXCEPT ![s].state = st]
      BY <2>1
    <3>2. [flush[s] EXCEPT !.state = st] \in Flushes
      BY DEF TypeOK, Flushes
    <3> QED BY <3>1, <3>2 DEF TypeOK
  <2> QED BY <1>2, <2>2 DEF SkipKill, CheckAcks, GiveUp, TypeOK, configMap, counters, history
<1>3. CASE CleanupSignals(s)
  <2>1. /\ kill' = kill \/ kill' = [n \in Nodes |-> [kill[n] EXCEPT ![s] = NoSignal]]
        /\ ack' = ack \/ ack' = [n \in Nodes |-> [ack[n] EXCEPT ![s] = NoAck]]
        /\ event' = event \/ Modified
        /\ cleaned' = cleaned \/ cleaned' = [cleaned EXCEPT ![s] = issued[s]]
        /\ faults' = faults \/ Fault
    BY <1>3 DEF CleanupSignals, configMap
  <2>2. kill' \in [Nodes -> [Services -> Signal]]
    <3>1. \A n \in Nodes : [kill[n] EXCEPT ![s] = NoSignal] \in [Services -> Signal]
      BY DEF TypeOK
    <3>2. CASE kill' = kill
      BY <3>2 DEF TypeOK
    <3>3. CASE kill' = [n \in Nodes |-> [kill[n] EXCEPT ![s] = NoSignal]]
      BY <3>1, <3>3
    <3> QED BY <2>1, <3>2, <3>3
  <2>3. ack' \in [Nodes -> [Services -> Ack]]
    <3>1. \A n \in Nodes : [ack[n] EXCEPT ![s] = NoAck] \in [Services -> Ack]
      BY DEF TypeOK
    <3>2. CASE ack' = ack
      BY <3>2 DEF TypeOK
    <3>3. CASE ack' = [n \in Nodes |-> [ack[n] EXCEPT ![s] = NoAck]]
      BY <3>1, <3>3
    <3> QED BY <2>1, <3>2, <3>3
  <2>4. event' \in [Nodes -> BOOLEAN]
    BY <2>1 DEF Modified, TypeOK
  <2>5. flush' \in [Services -> Flushes]
    BY <1>3 DEF CleanupSignals, TypeOK
  <2>6. cleaned' \in [Services -> Nat]
    BY <2>1 DEF TypeOK
  <2>7. faults' \in Nat
    BY <2>1 DEF Fault, TypeOK
  <2> QED BY <1>3, <2>2, <2>3, <2>4, <2>5, <2>6, <2>7 DEF CleanupSignals, TypeOK
<1> QED BY <1>1, <1>2, <1>3

\* The agents' steps keep TypeOK.
LEMMA AgentTyped ==
    ASSUME TypeOK, NEW n \in Nodes, AgentStep(n) \/ Crash(n) \/ Cordon(n)
    PROVE  TypeOK'
<1> USE EntriesTyped
<1>0. agent[n] \in Agents /\ kill[n] \in [Services -> Signal] /\ ack[n] \in [Services -> Ack]
  BY DEF TypeOK
<1>1. CASE RunOnce(n)
  <2>1. agent' \in [Nodes -> Agents]
    <3> DEFINE todo == {s \in Services : kill[n][s].seq > agent[n].lastSeq[s]}
    <3>1. todo \in SUBSET Services
      OBVIOUS
    <3> HIDE DEF todo
    <3>2. [agent[n] EXCEPT !.snap = kill[n], !.todo = todo] \in Agents
      BY <1>0, <3>1 DEF Agents
    <3>3. agent' = agent \/ agent' = [agent EXCEPT ![n] = [agent[n] EXCEPT !.snap = kill[n], !.todo = todo]]
      BY <1>1 DEF RunOnce, todo, TypeOK, Agents
    <3> QED BY <3>2, <3>3 DEF TypeOK
  <2>2. event' \in [Nodes -> BOOLEAN] /\ faults' \in Nat
    BY <1>1 DEF RunOnce, Fault, TypeOK
  <2> QED BY <1>1, <2>1, <2>2 DEF RunOnce, TypeOK, configMap, control, history
<1>2. CASE KillConnections(n)
  <2>1. PICK s \in agent[n].todo :
          LET token == agent[n].snap[s].token
          IN  \/ /\ agent' = [agent EXCEPT ![n].killed = {s}, ![n].errors = FALSE]
                 /\ done' = done \cup {<<n, s, token>>} /\ faults' = faults
              \/ /\ agent' = [agent EXCEPT ![n].killed = {s}, ![n].errors = TRUE]
                 /\ Fault /\ done' = done
    BY <1>2 DEF KillConnections
  <2>2. s \in Services /\ agent[n].snap[s].token \in Nat
    BY <1>0 DEF Agents, Signal
  <2>3. agent' \in [Nodes -> Agents]
    <3>1. ASSUME NEW e \in BOOLEAN PROVE [agent[n] EXCEPT !.killed = {s}, !.errors = e] \in Agents
      BY <1>0, <2>2 DEF Agents
    <3>2. \E e \in BOOLEAN :
            agent' = [agent EXCEPT ![n] = [agent[n] EXCEPT !.killed = {s}, !.errors = e]]
      BY <2>1 DEF TypeOK, Agents
    <3> QED BY <3>1, <3>2 DEF TypeOK
  <2>4. done' \subseteq Nodes \X Services \X Nat /\ faults' \in Nat
    BY <2>1, <2>2 DEF Fault, TypeOK
  <2> QED BY <1>2, <2>3, <2>4 DEF KillConnections, TypeOK, configMap, control
<1>3. CASE WriteAck(n)
  <2>1. PICK s \in agent[n].killed :
          LET signal == agent[n].snap[s]
              next   == [agent[n] EXCEPT !.todo = @ \ {s}, !.killed = {}]
          IN  \/ /\ ack' = [ack EXCEPT ![n][s] = [seq |-> signal.seq, token |-> signal.token,
                                                  errors |-> agent[n].errors]]
                 /\ agent' = [agent EXCEPT ![n] = [next EXCEPT !.lastSeq[s] = signal.seq]]
                 /\ Modified /\ faults' = faults
              \/ Fault /\ agent' = [agent EXCEPT ![n] = next] /\ UNCHANGED <<ack, event>>
    BY <1>3 DEF WriteAck
  <2> DEFINE signal == agent[n].snap[s]
             next   == [agent[n] EXCEPT !.todo = @ \ {s}, !.killed = {}]
             new    == [seq |-> signal.seq, token |-> signal.token, errors |-> agent[n].errors]
  <2>2. s \in Services /\ signal \in Signal /\ new \in Ack
    BY <1>0 DEF Agents, Signal, Ack
  <2>3. next \in Agents
    BY <1>0 DEF Agents
  <2>4. [next EXCEPT !.lastSeq[s] = signal.seq] \in Agents
    <3>1. signal.seq \in Nat
      BY <2>2 DEF Signal
    <3> HIDE DEF next, signal
    <3> QED BY <2>2, <2>3, <3>1 DEF Agents
  <2>5. ack' = ack \/ ack' = [ack EXCEPT ![n][s] = new]
    BY <2>1
  <2>6. agent' = [agent EXCEPT ![n] = next]
        \/ agent' = [agent EXCEPT ![n] = [next EXCEPT !.lastSeq[s] = signal.seq]]
    BY <2>1
  <2>7. (event' = event \/ Modified) /\ (faults' = faults \/ Fault)
    BY <2>1
  <2> HIDE DEF next, signal, new
  <2>8. ack' \in [Nodes -> [Services -> Ack]]
    <3>1. [ack[n] EXCEPT ![s] = new] \in [Services -> Ack]
      BY <1>0, <2>2
    <3>2. ack' = ack \/ ack' = [ack EXCEPT ![n] = [ack[n] EXCEPT ![s] = new]]
      BY <2>5 DEF TypeOK
    <3> QED BY <3>1, <3>2 DEF TypeOK
  <2>9. agent' \in [Nodes -> Agents]
    BY <2>3, <2>4, <2>6 DEF TypeOK
  <2>10. event' \in [Nodes -> BOOLEAN]
    BY <2>7 DEF Modified, TypeOK
  <2>11. faults' \in Nat
    BY <2>7 DEF Fault, TypeOK
  <2> QED BY <1>3, <2>8, <2>9, <2>10, <2>11 DEF WriteAck, TypeOK, control, history
<1>4. CASE Crash(n)
  BY <1>4 DEF Crash, TypeOK, configMap, control, history
<1>5. CASE Start(n)
  <2> DEFINE seeds == [s \in Services |-> ack[n][s].seq]
  <2>1. seeds \in [Services -> Nat]
    BY <1>0 DEF Ack
  <2> HIDE DEF seeds
  <2>2. /\ [agent[n] EXCEPT !.up = TRUE] \in Agents
        /\ [agent[n] EXCEPT !.up = TRUE, !.lastSeq = seeds] \in Agents
    BY <1>0, <2>1 DEF Agents
  <2>3. agent' = [agent EXCEPT ![n] = [agent[n] EXCEPT !.up = TRUE]]
        \/ agent' = [agent EXCEPT ![n] = [agent[n] EXCEPT !.up = TRUE, !.lastSeq = seeds]]
    BY <1>5 DEF Start, seeds, TypeOK, Agents
  <2>4. agent' \in [Nodes -> Agents]
    BY <2>2, <2>3 DEF TypeOK
  <2>5. event' \in [Nodes -> BOOLEAN]
    BY <1>5 DEF Start, TypeOK
  <2>6. faults' \in Nat
    BY <1>5 DEF Start, Fault, TypeOK
  <2> QED BY <1>5, <2>4, <2>5, <2>6 DEF Start, TypeOK, configMap, control, history
<1>6. CASE Reconnect(n)
  BY <1>6 DEF Reconnect, TypeOK, configMap, control, counters, history
<1>7. CASE Cordon(n)
  BY <1>7 DEF Cordon, TypeOK, configMap, control, history
<1> QED BY <1>1, <1>2, <1>3, <1>4, <1>5, <1>6, <1>7 DEF AgentStep

\* Every step keeps TypeOK.
LEMMA KillTypeNext == TypeOK /\ [Next]_vars => TypeOK'
<1> SUFFICES ASSUME TypeOK, [Next]_vars PROVE TypeOK'
  OBVIOUS
<1>1. CASE UNCHANGED vars
  BY <1>1 DEF vars, configMap, control, counters, history, TypeOK
<1>2. CASE SyncCache
  BY <1>2 DEF SyncCache, TypeOK, configMap, counters, history
<1> QED BY <1>1, <1>2, SignalerTyped, AgentTyped DEF Next

\* Every variable of the kill protocol keeps its type in every behaviour, for
\* any nodes, services and bounds.
THEOREM KillTypeCorrect == Spec => []TypeOK
BY KillTypeInit, KillTypeNext, PTL DEF Spec

-----------------------------------------------------------------------------
(* AckedMeansKilled *)

\* The two halves of the inductive invariant.
KillInv == AckEvidence /\ AckedMeansKilled

\* A step that changes neither ACKs, agents, flushes nor the history keeps it.
LEMMA KillInvFrame ==
    ASSUME KillInv, UNCHANGED <<ack, cached, agent, flush, done>>
    PROVE  KillInv'
BY DEF KillInv, AckEvidence, AckedMeansKilled, Evidence

\* Nothing is acknowledged at first.
LEMMA KillInvInit == Init => KillInv
BY DEF Init, KillInv, AckEvidence, AckedMeansKilled, Evidence, NoAck, NoFlush, NewAgent

\* The Signaler's steps keep the invariant.
LEMMA KillInvSignaler ==
    ASSUME TypeOK, KillInv, NEW s \in Services,
           SignalKill(s) \/ SkipKill(s) \/ CheckAcks(s) \/ GiveUp(s) \/ CleanupSignals(s)
    PROVE  KillInv'
<1>0. flush \in [Services -> Flushes] /\ issued[s] \in Nat
  BY DEF TypeOK
<1>1. CASE SignalKill(s)
  <2>1. UNCHANGED <<ack, cached, agent, done>>
    BY <1>1 DEF SignalKill, history
  <2>2. flush' = flush
        \/ flush' = [flush EXCEPT ![s] =
             [state |-> "waiting", token |-> issued[s] + 1, nodes |-> eligible]]
    BY <1>1 DEF SignalKill
  <2>3. \A t \in Services : \/ flush'[t] = flush[t]
                            \/ flush'[t].state = "waiting" /\ flush'[t].token # 0
    BY <1>0, <2>2
  <2> QED BY <2>1, <2>3 DEF KillInv, AckEvidence, AckedMeansKilled, Evidence
<1>2. CASE SkipKill(s) \/ GiveUp(s)
  <2>1. UNCHANGED <<ack, cached, agent, done>>
    BY <1>2 DEF SkipKill, GiveUp, configMap, history
  <2>2. \A t \in Services : flush'[t] = flush[t] \/ flush'[t].state = "skipped"
    BY <1>0, <1>2 DEF SkipKill, GiveUp, Flushes
  <2> QED BY <2>1, <2>2 DEF KillInv, AckEvidence, AckedMeansKilled, Evidence
<1>3. CASE CheckAcks(s)
  <2>1. UNCHANGED <<ack, cached, agent, done>>
    BY <1>3 DEF CheckAcks, configMap, history
  <2>2. /\ flush'[s].state = "acked"
        /\ flush'[s].token = flush[s].token /\ flush'[s].nodes = flush[s].nodes
        /\ \A t \in Services \ {s} : flush'[t] = flush[t]
    BY <1>0, <1>3 DEF CheckAcks, Flushes
  <2>3. \A n \in flush[s].nodes : Evidence(n, s, flush[s].token)
    <3> SUFFICES ASSUME NEW n \in flush[s].nodes PROVE Evidence(n, s, flush[s].token)
      OBVIOUS
    <3>1. n \in Nodes
      BY <1>0 DEF Flushes
    <3>2. flush[s].token # 0 /\ cached[n][s].token = flush[s].token /\ ~cached[n][s].errors
      BY <1>3, <3>1 DEF CheckAcks, Acked, KillInv, AckEvidence
    <3> QED BY <3>1, <3>2 DEF KillInv, AckEvidence
  <2> QED BY <2>1, <2>2, <2>3 DEF KillInv, AckEvidence, AckedMeansKilled, Evidence
<1>4. CASE CleanupSignals(s)
  <2>1. UNCHANGED <<cached, agent, done>>
    BY <1>4 DEF CleanupSignals
  <2>2. \A n \in Nodes, t \in Services : ack'[n][t] = ack[n][t] \/ ack'[n][t] = NoAck
    BY <1>4 DEF CleanupSignals, configMap, TypeOK
  <2>3. \A t \in Services : flush'[t] = flush[t] \/ flush'[t].state = "idle"
    BY <1>0, <1>4 DEF CleanupSignals, NoFlush
  <2>4. AckEvidence'
    <3> SUFFICES ASSUME NEW n \in Nodes, NEW t \in Services
                 PROVE  /\ ack'[n][t].token # 0 /\ ~ack'[n][t].errors => <<n, t, ack'[n][t].token>> \in done
                        /\ flush'[t].state = "waiting" => flush'[t].token # 0
      BY <2>1 DEF KillInv, AckEvidence, Evidence
    <3>1. ack'[n][t] = ack[n][t] \/ ack'[n][t].token = 0
      BY <2>2 DEF NoAck
    <3>2. flush'[t] = flush[t] \/ flush'[t].state = "idle"
      BY <2>3
    <3> QED BY <3>1, <3>2 DEF KillInv, AckEvidence, Evidence
  <2>5. AckedMeansKilled'
    BY <2>1, <2>3 DEF KillInv, AckedMeansKilled
  <2> QED BY <2>4, <2>5 DEF KillInv
<1> QED BY <1>1, <1>2, <1>3, <1>4

\* An agent's step keeps the invariant if what the agent holds, and what it
\* acknowledges, is backed by a kill.
LEMMA KillInvAgent ==
    ASSUME KillInv, NEW n \in Nodes, UNCHANGED <<cached, flush>>, done \subseteq done',
           \A m \in Nodes \ {n} : agent'[m] = agent[m] /\ ack'[m] = ack[m],
           agent'[n].killed \subseteq agent'[n].todo,
           \A s \in Services :
             /\ s \in agent'[n].killed /\ ~agent'[n].errors
                  => <<n, s, agent'[n].snap[s].token>> \in done'
             /\ ack'[n][s].token # 0 /\ ~ack'[n][s].errors => <<n, s, ack'[n][s].token>> \in done'
    PROVE  KillInv'
<1>1. AckEvidence'
  <2> SUFFICES ASSUME NEW m \in Nodes, NEW s \in Services
               PROVE  /\ ack'[m][s].token # 0 /\ ~ack'[m][s].errors => <<m, s, ack'[m][s].token>> \in done'
                      /\ cached[m][s].token # 0 /\ ~cached[m][s].errors => <<m, s, cached[m][s].token>> \in done'
                      /\ s \in agent'[m].killed /\ ~agent'[m].errors => <<m, s, agent'[m].snap[s].token>> \in done'
                      /\ agent'[m].killed \subseteq agent'[m].todo
                      /\ flush[s].state = "waiting" => flush[s].token # 0
    BY DEF AckEvidence, Evidence
  <2>1. CASE m = n
    BY <2>1 DEF KillInv, AckEvidence, Evidence
  <2>2. CASE m # n
    BY <2>2 DEF KillInv, AckEvidence, Evidence
  <2> QED BY <2>1, <2>2
<1>2. AckedMeansKilled'
  BY DEF KillInv, AckedMeansKilled
<1> QED BY <1>1, <1>2 DEF KillInv

\* The agents' steps keep the invariant.
LEMMA KillInvAgentSteps ==
    ASSUME TypeOK, KillInv, NEW n \in Nodes, AgentStep(n) \/ Crash(n) \/ Cordon(n)
    PROVE  KillInv'
<1>0. agent \in [Nodes -> Agents] /\ agent[n] \in Agents /\ ack \in [Nodes -> [Services -> Ack]]
  BY DEF TypeOK
<1>1. CASE Reconnect(n) \/ Cordon(n)
  BY <1>1, KillInvFrame DEF Reconnect, Cordon, configMap, control, history
<1>2. CASE RunOnce(n)
  <2>1. UNCHANGED <<ack, cached, flush, done>>
    BY <1>2 DEF RunOnce, configMap, control, history
  <2>2. \A m \in Nodes \ {n} : agent'[m] = agent[m]
    BY <1>0, <1>2 DEF RunOnce
  <2>3. CASE Services = {}
    BY <2>1, <2>3 DEF KillInv, AckEvidence, AckedMeansKilled
  <2>4. CASE Services # {}
    <3>1. agent[n].killed = {}
      BY <1>2, <2>4 DEF RunOnce, Idle, KillInv, AckEvidence
    <3>2. agent'[n].killed = {}
      BY <1>0, <1>2, <3>1 DEF RunOnce, Agents
    <3> QED BY <2>1, <2>2, <3>2, KillInvAgent DEF KillInv, AckEvidence, Evidence
  <2> QED BY <2>3, <2>4
<1>3. CASE Crash(n) \/ Start(n)
  <2>1. UNCHANGED <<ack, cached, flush, done>>
    BY <1>3 DEF Crash, Start, configMap, control, history
  <2>2. \A m \in Nodes \ {n} : agent'[m] = agent[m]
    BY <1>0, <1>3 DEF Crash, Start
  <2>3. \/ agent'[n].killed = {}
        \/ /\ agent'[n].killed = agent[n].killed /\ agent'[n].errors = agent[n].errors
           /\ agent'[n].snap = agent[n].snap /\ agent'[n].todo = agent[n].todo
    <3>1. CASE Crash(n)
      BY <1>0, <3>1 DEF Crash, NewAgent
    <3>2. CASE Start(n)
      <4>1. \E seeds : agent' = [agent EXCEPT ![n].up = TRUE, ![n].lastSeq = seeds]
                     \/ agent' = [agent EXCEPT ![n].up = TRUE]
        BY <3>2 DEF Start
      <4> QED BY <1>0, <4>1 DEF Agents
    <3> QED BY <1>3, <3>1, <3>2
  <2>4. CASE Services = {}
    BY <2>1, <2>4 DEF KillInv, AckEvidence, AckedMeansKilled
  <2>5. CASE Services # {}
    BY <2>1, <2>2, <2>3, <2>5, KillInvAgent DEF KillInv, AckEvidence, Evidence
  <2> QED BY <2>4, <2>5
<1>4. CASE KillConnections(n)
  <2>1. UNCHANGED <<ack, cached, flush>>
    BY <1>4 DEF KillConnections, configMap, control
  <2>2. PICK s \in agent[n].todo :
          \/ /\ agent' = [agent EXCEPT ![n].killed = {s}, ![n].errors = FALSE]
             /\ done' = done \cup {<<n, s, agent[n].snap[s].token>>}
          \/ /\ agent' = [agent EXCEPT ![n].killed = {s}, ![n].errors = TRUE]
             /\ done' = done
    BY <1>4 DEF KillConnections
  <2>3. /\ \A m \in Nodes \ {n} : agent'[m] = agent[m]
        /\ agent'[n].killed = {s} /\ agent'[n].snap = agent[n].snap
        /\ agent'[n].todo = agent[n].todo
        /\ ~agent'[n].errors => done' = done \cup {<<n, s, agent[n].snap[s].token>>}
        /\ done \subseteq done'
    BY <1>0, <2>2 DEF Agents
  <2> QED BY <2>1, <2>3, KillInvAgent DEF KillInv, AckEvidence, Evidence
<1>5. CASE WriteAck(n)
  <2>1. UNCHANGED <<cached, flush, done>>
    BY <1>5 DEF WriteAck, control, history
  <2>2. PICK s \in agent[n].killed :
          LET signal == agent[n].snap[s]
              next   == [agent[n] EXCEPT !.todo = @ \ {s}, !.killed = {}]
          IN  \/ /\ ack' = [ack EXCEPT ![n][s] = [seq |-> signal.seq, token |-> signal.token,
                                                  errors |-> agent[n].errors]]
                 /\ agent' = [agent EXCEPT ![n] = [next EXCEPT !.lastSeq[s] = signal.seq]]
              \/ agent' = [agent EXCEPT ![n] = next] /\ ack' = ack
    BY <1>5 DEF WriteAck
  <2>3. s \in Services
    BY <1>0 DEF Agents
  <2>4. agent'[n].killed = {} /\ \A m \in Nodes \ {n} : agent'[m] = agent[m]
    <3> DEFINE next == [agent[n] EXCEPT !.todo = @ \ {s}, !.killed = {}]
    <3>1. next \in Agents /\ next.killed = {}
      BY <1>0 DEF Agents
    <3>2. PICK q : agent' = [agent EXCEPT ![n] = [next EXCEPT !.lastSeq[s] = q]]
                   \/ agent' = [agent EXCEPT ![n] = next]
      BY <2>2
    <3> HIDE DEF next
    <3>3. [next EXCEPT !.lastSeq[s] = q].killed = {}
      BY <3>1 DEF Agents
    <3> QED BY <1>0, <3>1, <3>2, <3>3
  <2>5. /\ \A m \in Nodes \ {n} : ack'[m] = ack[m]
        /\ \A t \in Services \ {s} : ack'[n][t] = ack[n][t]
        /\ \/ ack'[n][s] = ack[n][s]
           \/ /\ ack'[n][s].token = agent[n].snap[s].token
              /\ ack'[n][s].errors = agent[n].errors
    BY <1>0, <2>2, <2>3
  <2>6. \A t \in Services :
          ack'[n][t].token # 0 /\ ~ack'[n][t].errors => <<n, t, ack'[n][t].token>> \in done
    <3> SUFFICES ASSUME NEW t \in Services, ack'[n][t].token # 0, ~ack'[n][t].errors
                 PROVE  <<n, t, ack'[n][t].token>> \in done
      OBVIOUS
    <3>1. CASE ack'[n][t] = ack[n][t]
      BY <3>1 DEF KillInv, AckEvidence, Evidence
    <3>2. CASE ack'[n][t] # ack[n][t]
      <4>1. t = s /\ ack'[n][s].token = agent[n].snap[s].token /\ ~agent[n].errors
        BY <2>5, <3>2
      <4> QED BY <2>2, <2>3, <4>1 DEF KillInv, AckEvidence, Evidence
    <3> QED BY <3>1, <3>2
  <2> QED BY <2>1, <2>4, <2>5, <2>6, KillInvAgent
<1> QED BY <1>1, <1>2, <1>3, <1>4, <1>5 DEF AgentStep

\* Every step keeps the invariant.
LEMMA KillInvNext == TypeOK /\ KillInv /\ [Next]_vars => KillInv'
<1> SUFFICES ASSUME TypeOK, KillInv, [Next]_vars PROVE KillInv'
  OBVIOUS
<1>1. CASE UNCHANGED vars
  BY <1>1, KillInvFrame DEF vars, configMap, control, history
<1>2. CASE SyncCache
  <2>1. UNCHANGED <<ack, agent, flush, done>> /\ cached' = ack
    BY <1>2 DEF SyncCache, configMap, history
  <2>2. AckEvidence'
    BY <2>1 DEF KillInv, AckEvidence, Evidence
  <2>3. AckedMeansKilled'
    BY <2>1 DEF KillInv, AckedMeansKilled
  <2> QED BY <2>2, <2>3 DEF KillInv
<1> QED BY <1>1, <1>2, KillInvSignaler, KillInvAgentSteps DEF Next

\* A flush is reported as acknowledged only when every node it waited for has
\* carried out the kill for its token, for any number of nodes, services,
\* signals, restarts and failed calls.
THEOREM FlushCorrect == Spec => []AckedMeansKilled
<1>1. KillInv => AckedMeansKilled
  BY DEF KillInv
<1> QED BY <1>1, KillInvInit, KillInvNext, KillTypeCorrect, PTL DEF Spec

\* Every good ACK, in the ConfigMap, in the cache or about to be written, is the
\* trace of a kill carried out for its token (RunOnce, writeAck).
THEOREM AckCorrect == Spec => []AckEvidence
<1>1. KillInv => AckEvidence
  BY DEF KillInv
<1> QED BY <1>1, KillInvInit, KillInvNext, KillTypeCorrect, PTL DEF Spec

-----------------------------------------------------------------------------
(* SkipsAnswered *)

\* What an agent holds, or has answered, of a signal: an earlier one, or this one.
Behind(a, k) == a.seq <= k.seq /\ (a.seq = k.seq /\ k.token # 0 => a.token = k.token)

\* Before the entries are first removed: lastSeq is never past the ACK, and
\* neither the ACK nor a signal still to be processed is past the signal.
SeqOrder(n, s) ==
    /\ issued[s] = 0 => kill[n][s] = NoSignal /\ cleaned[s] = 0
    /\ cleaned[s] = 0 => /\ agent[n].lastSeq[s] <= ack[n][s].seq
                         /\ Behind(ack[n][s], kill[n][s])
                         /\ s \in agent[n].todo => Behind(agent[n].snap[s], kill[n][s])

SeqInv == \A n \in Nodes, s \in Services : SeqOrder(n, s)

\* Whatever leaves the entries of a node and a service alone keeps their order.
LEMMA SeqKept ==
    ASSUME NEW n \in Nodes, NEW s \in Services, SeqOrder(n, s),
           kill'[n][s] = kill[n][s], ack'[n][s] = ack[n][s],
           issued'[s] = issued[s], cleaned'[s] = cleaned[s],
           agent'[n].lastSeq[s] = agent[n].lastSeq[s],
           s \in agent'[n].todo => s \in agent[n].todo /\ agent'[n].snap[s] = agent[n].snap[s]
    PROVE  SeqOrder(n, s)'
BY DEF SeqOrder

\* At first there is nothing to be out of order.
LEMMA SeqInit == Init => SeqInv
BY DEF Init, SeqInv, SeqOrder, Behind, NoSignal, NoAck, NewAgent

\* The Signaler's steps keep the order: a new signal is past everything, and
\* the entries of a service without signals are removed without effect.
LEMMA SeqSignaler ==
    ASSUME TypeOK, SeqInv, NEW s \in Services,
           SignalKill(s) \/ SkipKill(s) \/ CheckAcks(s) \/ GiveUp(s) \/ CleanupSignals(s)
    PROVE  SeqInv'
<1> SUFFICES ASSUME NEW n \in Nodes, NEW t \in Services PROVE SeqOrder(n, t)'
  BY DEF SeqInv
<1>0. /\ SeqOrder(n, t) /\ issued \in [Services -> Nat] /\ cleaned \in [Services -> Nat]
      /\ kill[n] \in [Services -> Signal] /\ kill[n][t] \in Signal /\ ack[n][t] \in Ack
      /\ agent[n].lastSeq[t] \in Nat /\ agent[n].snap[t] \in Signal
  BY DEF SeqInv, TypeOK, Agents
<1>1. CASE SignalKill(s)
  <2>1. UNCHANGED <<ack, agent, cleaned>> /\ issued' = [issued EXCEPT ![s] = @ + 1]
    BY <1>1 DEF SignalKill, history
  <2>2. kill'[n] = kill[n]
        \/ kill'[n] = [kill[n] EXCEPT ![s] = [seq |-> @.seq + 1, token |-> issued[s] + 1]]
    BY <1>1 DEF SignalKill, PopulateKillSignals
  <2>3. CASE t # s
    BY <1>0, <2>1, <2>2, <2>3, SeqKept
  <2>4. CASE t = s
    <3>1. issued'[t] # 0
      BY <1>0, <2>1, <2>4
    <3>2. kill'[n][t] = kill[n][t] \/ kill'[n][t].seq = kill[n][t].seq + 1
      BY <1>0, <2>2, <2>4
    <3>3. CASE kill'[n][t] = kill[n][t]
      BY <1>0, <2>1, <3>1, <3>3 DEF SeqOrder
    <3>4. CASE kill'[n][t].seq = kill[n][t].seq + 1
      BY <1>0, <2>1, <3>1, <3>4 DEF SeqOrder, Behind, Signal, Ack
    <3> QED BY <3>2, <3>3, <3>4
  <2> QED BY <2>3, <2>4
<1>2. CASE SkipKill(s) \/ CheckAcks(s) \/ GiveUp(s)
  BY <1>0, <1>2, SeqKept DEF SkipKill, CheckAcks, GiveUp, configMap, history
<1>3. CASE CleanupSignals(s)
  <2>1. UNCHANGED <<issued, agent>>
    BY <1>3 DEF CleanupSignals
  <2>2. CASE UNCHANGED <<kill, ack, cleaned>>
    BY <1>0, <2>1, <2>2, SeqKept
  <2>3. CASE /\ kill' = [m \in Nodes |-> [kill[m] EXCEPT ![s] = NoSignal]]
             /\ ack' = [m \in Nodes |-> [ack[m] EXCEPT ![s] = NoAck]]
             /\ cleaned' = [cleaned EXCEPT ![s] = issued[s]]
    <3>1. CASE t # s
      <4>1. kill'[n][t] = kill[n][t] /\ ack'[n][t] = ack[n][t] /\ cleaned'[t] = cleaned[t]
        BY <1>0, <2>3, <3>1 DEF TypeOK
      <4> QED BY <1>0, <2>1, <4>1, SeqKept
    <3>2. CASE t = s
      <4>1. kill'[n][t] = NoSignal /\ ack'[n][t] = NoAck /\ cleaned'[t] = issued[t]
        BY <1>0, <2>3, <3>2 DEF TypeOK
      <4>2. CASE issued[t] # 0
        BY <2>1, <4>1, <4>2 DEF SeqOrder
      <4>3. CASE issued[t] = 0
        BY <1>0, <2>1, <4>1, <4>3 DEF SeqOrder, Behind, NoSignal, NoAck, Signal, Ack
      <4> QED BY <4>2, <4>3
    <3> QED BY <3>1, <3>2
  <2> QED BY <1>3, <2>2, <2>3 DEF CleanupSignals, configMap
<1> QED BY <1>1, <1>2, <1>3

\* An agent's steps keep it: what it reads is the signal, lastSeq moves with
\* the ACK it wrote, and a new agent starts from the ACKs.
LEMMA SeqAgent ==
    ASSUME TypeOK, KillInv, SeqInv, NEW n \in Nodes, AgentStep(n) \/ Crash(n) \/ Cordon(n)
    PROVE  SeqInv'
<1> SUFFICES ASSUME NEW m \in Nodes, NEW t \in Services PROVE SeqOrder(m, t)'
  BY DEF SeqInv
<1>0. /\ SeqOrder(m, t) /\ agent \in [Nodes -> Agents] /\ agent[n] \in Agents
      /\ kill[m][t] \in Signal /\ ack[m][t] \in Ack /\ agent[m].lastSeq[t] \in Nat
      /\ ack \in [Nodes -> [Services -> Ack]]
  BY DEF SeqInv, TypeOK, Agents
<1>1. UNCHANGED <<kill, issued, cleaned>>
  BY DEF AgentStep, RunOnce, KillConnections, WriteAck, Start, Reconnect, Crash, Cordon,
         configMap, control, history
<1>2. CASE m # n
  <2>1. agent'[m] = agent[m]
    BY <1>0, <1>2 DEF AgentStep, RunOnce, KillConnections, WriteAck, Start, Reconnect, Crash,
                      Cordon
  <2>2. ack'[m] = ack[m]
    BY <1>0, <1>2 DEF AgentStep, RunOnce, KillConnections, WriteAck, Start, Reconnect, Crash,
                      Cordon, configMap
  <2> QED BY <1>0, <1>1, <2>1, <2>2, SeqKept
<1>3. CASE m = n
  <2>1. CASE Reconnect(n) \/ Cordon(n)
    <3>1. UNCHANGED <<ack, agent>>
      BY <2>1 DEF Reconnect, Cordon, configMap
    <3> QED BY <1>0, <1>1, <3>1, SeqKept
  <2>2. CASE RunOnce(n)
    <3>1. ack' = ack
      BY <2>2 DEF RunOnce, configMap
    <3>2. \/ agent' = agent
          \/ agent'[n].lastSeq = agent[n].lastSeq /\ agent'[n].snap = kill[n]
      BY <1>0, <2>2 DEF RunOnce, Agents
    <3>3. CASE agent' = agent
      BY <1>0, <1>1, <3>1, <3>3, SeqKept
    <3>4. CASE agent'[n].lastSeq = agent[n].lastSeq /\ agent'[n].snap = kill[n]
      BY <1>0, <1>1, <1>3, <3>1, <3>4 DEF SeqOrder, Behind, Signal
    <3> QED BY <3>2, <3>3, <3>4
  <2>3. CASE KillConnections(n)
    <3>1. ack' = ack
      BY <2>3 DEF KillConnections, configMap
    <3>2. PICK s \in agent[n].todo, e \in BOOLEAN :
            agent' = [agent EXCEPT ![n].killed = {s}, ![n].errors = e]
      BY <2>3 DEF KillConnections
    <3>3. /\ agent'[n].lastSeq = agent[n].lastSeq /\ agent'[n].snap = agent[n].snap
          /\ agent'[n].todo = agent[n].todo
      BY <1>0, <3>2 DEF Agents
    <3> QED BY <1>0, <1>1, <1>3, <3>1, <3>3, SeqKept
  <2>4. CASE WriteAck(n)
    <3>1. PICK s \in agent[n].killed :
            LET signal == agent[n].snap[s]
                next   == [agent[n] EXCEPT !.todo = @ \ {s}, !.killed = {}]
            IN  \/ /\ ack' = [ack EXCEPT ![n][s] = [seq |-> signal.seq, token |-> signal.token,
                                                    errors |-> agent[n].errors]]
                   /\ agent' = [agent EXCEPT ![n] = [next EXCEPT !.lastSeq[s] = signal.seq]]
                \/ agent' = [agent EXCEPT ![n] = next] /\ ack' = ack
      BY <2>4 DEF WriteAck
    <3> DEFINE signal == agent[n].snap[s]
               next   == [agent[n] EXCEPT !.todo = @ \ {s}, !.killed = {}]
               new    == [seq |-> signal.seq, token |-> signal.token, errors |-> agent[n].errors]
    <3>2. /\ s \in Services /\ signal \in Signal /\ s \in agent[n].todo
          /\ SeqOrder(n, s)
      BY <1>0 DEF Agents, KillInv, AckEvidence, SeqInv
    <3>3. /\ next \in Agents /\ next.todo = agent[n].todo \ {s}
          /\ next.lastSeq = agent[n].lastSeq /\ next.snap = agent[n].snap
      BY <1>0 DEF Agents
    <3>4. new.seq = signal.seq /\ new.token = signal.token
      OBVIOUS
    <3>5. \/ agent'[n] = next /\ ack'[n] = ack[n]
          \/ /\ agent'[n] = [next EXCEPT !.lastSeq[s] = signal.seq]
             /\ ack'[n] = [ack[n] EXCEPT ![s] = new]
      BY <1>0, <3>1
    <3> HIDE DEF next, new
    <3>6. CASE agent'[n] = next /\ ack'[n] = ack[n]
      BY <1>0, <1>1, <1>3, <3>3, <3>6, SeqKept
    <3>7. CASE /\ agent'[n] = [next EXCEPT !.lastSeq[s] = signal.seq]
               /\ ack'[n] = [ack[n] EXCEPT ![s] = new]
      <4>1. /\ agent'[n].todo = agent[n].todo \ {s} /\ agent'[n].snap = agent[n].snap
            /\ agent'[n].lastSeq = [agent[n].lastSeq EXCEPT ![s] = signal.seq]
        BY <3>3, <3>7 DEF Agents
      <4>2. CASE t # s
        <5>1. agent'[n].lastSeq[t] = agent[n].lastSeq[t] /\ ack'[n][t] = ack[n][t]
          BY <1>0, <3>7, <4>1, <4>2 DEF Agents
        <5> QED BY <1>0, <1>1, <1>3, <4>1, <5>1, SeqKept
      <4>3. CASE t = s
        <5>1. agent'[n].lastSeq[s] = signal.seq /\ ack'[n][s] = new
          BY <1>0, <3>2, <3>7, <4>1 DEF Agents
        <5>2. s \notin agent'[n].todo
          BY <4>1
        <5> QED BY <1>1, <1>3, <3>2, <3>4, <4>3, <5>1, <5>2 DEF SeqOrder, Behind, Signal
      <4> QED BY <4>2, <4>3
    <3> QED BY <3>5, <3>6, <3>7
  <2>5. CASE Crash(n)
    <3>1. ack' = ack /\ agent'[n] = [NewAgent EXCEPT !.up = FALSE]
      BY <1>0, <2>5 DEF Crash, configMap
    <3>2. agent'[n].lastSeq[t] = 0 /\ agent'[n].todo = {}
      BY <3>1 DEF NewAgent
    <3> QED BY <1>0, <1>1, <1>3, <3>1, <3>2 DEF SeqOrder, Ack
  <2>6. CASE Start(n)
    <3>1. ack' = ack
      BY <2>6 DEF Start, configMap
    <3>2. /\ agent'[n].todo = agent[n].todo /\ agent'[n].snap = agent[n].snap
          /\ \/ agent'[n].lastSeq = agent[n].lastSeq
             \/ agent'[n].lastSeq = [s \in Services |-> ack[n][s].seq]
      BY <1>0, <2>6 DEF Start, Agents
    <3> QED BY <1>0, <1>1, <1>3, <3>1, <3>2 DEF SeqOrder, Ack
  <2> QED BY <2>1, <2>2, <2>3, <2>4, <2>5, <2>6 DEF AgentStep
<1> QED BY <1>2, <1>3

\* Every step keeps the order.
LEMMA SeqNext == TypeOK /\ KillInv /\ SeqInv /\ [Next]_vars => SeqInv'
<1> SUFFICES ASSUME TypeOK, KillInv, SeqInv, [Next]_vars PROVE SeqInv'
  OBVIOUS
<1>1. CASE UNCHANGED vars \/ SyncCache
  <2>1. UNCHANGED <<kill, ack, issued, agent, cleaned>>
    BY <1>1 DEF vars, SyncCache, configMap, control, history
  <2> QED BY <2>1 DEF SeqInv, SeqOrder
<1> QED BY <1>1, SeqSignaler, SeqAgent DEF Next

\* Until the entries of a FailoverService are first removed, an agent never
\* passes over a signal whose ACK is not in the ConfigMap: for any number of
\* nodes, services, restarts, failed reads and failed ACK writes.
THEOREM SkipsCorrect == Spec => []SkipsAnswered
<1>1. TypeOK /\ SeqInv => SkipsAnswered
  <2> SUFFICES ASSUME TypeOK, SeqInv, NEW n \in Nodes, NEW s \in Services, cleaned[s] = 0,
                      kill[n][s].token # 0, kill[n][s].seq <= agent[n].lastSeq[s]
               PROVE  ack[n][s].token = kill[n][s].token
    BY DEF SkipsAnswered
  <2>1. /\ kill[n][s].seq \in Nat /\ ack[n][s].seq \in Nat /\ agent[n].lastSeq[s] \in Nat
        /\ SeqOrder(n, s)
    BY DEF TypeOK, Signal, Ack, Agents, SeqInv
  <2>2. ack[n][s].seq = kill[n][s].seq
    BY <2>1 DEF SeqOrder, Behind
  <2> QED BY <2>1, <2>2 DEF SeqOrder, Behind
<1> QED BY <1>1, SeqInit, SeqNext, KillInvInit, KillInvNext, KillTypeCorrect, PTL DEF Spec
=============================================================================
