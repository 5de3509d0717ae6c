------------------------ MODULE RemoteWatcherProofs ------------------------
(* Theorems about RemoteWatcher, for any set of objects and any bounds. *)
EXTENDS RemoteWatcher, TLAPS

-----------------------------------------------------------------------------
(* The inductive invariant *)

\* Config and version are always taken together, in the provider and in the
\* watcher.
Paired == prov.config = prov.ver /\ dyn.creds = dyn.ver /\ CredentialsMatch

\* The last change of an object is where the log has it.
LastInLog == \A o \in Object : last[o] # 0 => log[last[o]] = o

WatchInv ==
    /\ TypeOK /\ secret.ver <= rotations
    /\ Paired
    /\ LastInLog
    /\ NothingSkipped

LEMMA WatchInit == Init => WatchInv
  <1> SUFFICES ASSUME Init PROVE WatchInv
    OBVIOUS
  <1>1. TypeOK /\ secret.ver <= rotations
    BY WatcherBoundAssumption DEF Init, TypeOK, Secret, Versions, Maybe, PCs
  <1>2. Paired
    BY DEF Init, Paired, CredentialsMatch
  <1>3. LastInLog
    BY DEF Init, LastInLog
  <1>4. NothingSkipped
    BY DEF Init, NothingSkipped
  <1> QED
    BY <1>1, <1>2, <1>3, <1>4 DEF WatchInv

LEMMA BackoffOverKeeps ==
    ASSUME WatchInv, BackoffOver
    PROVE  WatchInv'
  <1>1. TypeOK' /\ (secret.ver <= rotations)'
    BY WatcherBoundAssumption
    DEF WatchInv, TypeOK, Secret, Versions, Maybe, PCs, BackoffOver, secrets, watcher, remote, work, counters
  <1>2. Paired'
    BY DEF WatchInv, TypeOK, Paired, CredentialsMatch, Maybe, BackoffOver, secrets, watcher, remote, work, counters
  <1>3. LastInLog'
    BY DEF WatchInv, TypeOK, LastInLog, BackoffOver, secrets, watcher, remote, work, counters
  <1>4. NothingSkipped'
    BY DEF WatchInv, TypeOK, LastInLog, NothingSkipped, BackoffOver, secrets, watcher, remote, work, counters
  <1> QED
    BY <1>1, <1>2, <1>3, <1>4 DEF WatchInv

LEMMA RefreshClientKeeps ==
    ASSUME WatchInv, RefreshClient
    PROVE  WatchInv'
  <1>1. TypeOK' /\ (secret.ver <= rotations)'
    BY WatcherBoundAssumption
    DEF WatchInv, TypeOK, Secret, Versions, Maybe, PCs, RefreshClient, GetClientOK, GetClient, Backoff, secrets, watcher, remote, work, counters
  <1>2. Paired'
    BY DEF WatchInv, TypeOK, Paired, CredentialsMatch, Maybe, RefreshClient, GetClientOK, GetClient, Backoff, secrets, watcher, remote, work, counters
  <1>3. LastInLog'
    BY DEF WatchInv, TypeOK, LastInLog, RefreshClient, GetClientOK, GetClient, Backoff, secrets, watcher, remote, work, counters
  <1>4. NothingSkipped'
    BY DEF WatchInv, TypeOK, LastInLog, NothingSkipped, RefreshClient, GetClientOK, GetClient, Backoff, secrets, watcher, remote, work, counters
  <1> QED
    BY <1>1, <1>2, <1>3, <1>4 DEF WatchInv

LEMMA CopyConfigKeeps ==
    ASSUME WatchInv, CopyConfig
    PROVE  WatchInv'
  <1>1. TypeOK' /\ (secret.ver <= rotations)'
    BY WatcherBoundAssumption
    DEF WatchInv, TypeOK, Secret, Versions, Maybe, PCs, CopyConfig, secrets, watcher, remote, work, counters
  <1>2. Paired'
    BY DEF WatchInv, TypeOK, Paired, CredentialsMatch, Maybe, CopyConfig, secrets, watcher, remote, work, counters
  <1>3. LastInLog'
    BY DEF WatchInv, TypeOK, LastInLog, CopyConfig, secrets, watcher, remote, work, counters
  <1>4. NothingSkipped'
    BY DEF WatchInv, TypeOK, LastInLog, NothingSkipped, CopyConfig, secrets, watcher, remote, work, counters
  <1> QED
    BY <1>1, <1>2, <1>3, <1>4 DEF WatchInv

LEMMA ListKeeps ==
    ASSUME WatchInv, List
    PROVE  WatchInv'
  <1>1. TypeOK' /\ (secret.ver <= rotations)'
    <2>1. CASE sess.creds \in revoked
      BY <2>1 DEF WatchInv, TypeOK, PCs, List, Backoff, secrets, remote, work, counters
    <2>2. CASE sess.creds \notin revoked
      <3>1. sess' \in [creds : Maybe, ver : Maybe, pos : 0..Len(log)]
        <4>1. log \in Seq(Object) /\ sess \in [creds : Maybe, ver : Maybe, pos : 0..Len(log)]
          BY DEF WatchInv, TypeOK
        <4>2. Len(log) \in 0..Len(log)
          BY <4>1
        <4>3. sess' = [sess EXCEPT !.pos = Len(log)]
          BY <2>2 DEF List
        <4> QED
          BY <4>1, <4>2, <4>3
      <3>2. queue' \in SUBSET Object
        BY <2>2 DEF WatchInv, TypeOK, List
      <3> QED
        BY <2>2, <3>1, <3>2 DEF WatchInv, TypeOK, PCs, List, secrets, remote, counters
    <2> QED
      BY <2>1, <2>2
  <1>2. Paired'
    BY DEF WatchInv, TypeOK, Paired, CredentialsMatch, Maybe, List, Backoff, secrets, watcher, remote, work, counters
  <1>3. LastInLog'
    BY DEF WatchInv, TypeOK, LastInLog, List, Backoff, secrets, watcher, remote, work, counters
  <1>4. NothingSkipped'
    BY DEF WatchInv, TypeOK, LastInLog, NothingSkipped, List, Backoff, secrets, watcher, remote, work, counters
  <1> QED
    BY <1>1, <1>2, <1>3, <1>4 DEF WatchInv

LEMMA StartWatchKeeps ==
    ASSUME WatchInv, StartWatch
    PROVE  WatchInv'
  <1>1. TypeOK' /\ (secret.ver <= rotations)'
    BY WatcherBoundAssumption
    DEF WatchInv, TypeOK, Secret, Versions, Maybe, PCs, StartWatch, secrets, watcher, remote, work, counters
  <1>2. Paired'
    BY DEF WatchInv, TypeOK, Paired, CredentialsMatch, Maybe, StartWatch, secrets, watcher, remote, work, counters
  <1>3. LastInLog'
    BY DEF WatchInv, TypeOK, LastInLog, StartWatch, secrets, watcher, remote, work, counters
  <1>4. NothingSkipped'
    BY DEF WatchInv, TypeOK, LastInLog, NothingSkipped, StartWatch, secrets, watcher, remote, work, counters
  <1> QED
    BY <1>1, <1>2, <1>3, <1>4 DEF WatchInv

LEMMA DeliverKeeps ==
    ASSUME WatchInv, Deliver
    PROVE  WatchInv'
  <1>1. TypeOK' /\ (secret.ver <= rotations)'
    <2>1. log \in Seq(Object) /\ sess \in [creds : Maybe, ver : Maybe, pos : 0..Len(log)]
      BY DEF WatchInv, TypeOK
    <2>2. sess.pos + 1 \in 1..Len(log)
      BY <2>1 DEF Deliver
    <2>3. sess' \in [creds : Maybe, ver : Maybe, pos : 0..Len(log)]
      BY <2>1, <2>2 DEF Deliver
    <2>4. log[sess.pos + 1] \in Object
      BY <2>2 DEF WatchInv, TypeOK
    <2>5. queue' \in SUBSET Object
      BY <2>4 DEF WatchInv, TypeOK, Deliver
    <2> QED
      BY <2>3, <2>5 DEF WatchInv, TypeOK, Deliver, secrets, remote, counters
  <1>2. Paired'
    BY DEF WatchInv, TypeOK, Paired, CredentialsMatch, Maybe, Deliver, secrets, watcher, remote, work, counters
  <1>3. LastInLog'
    BY DEF WatchInv, TypeOK, LastInLog, Deliver, secrets, watcher, remote, work, counters
  <1>4. NothingSkipped'
    BY DEF WatchInv, TypeOK, LastInLog, NothingSkipped, Deliver, secrets, watcher, remote, work, counters
  <1> QED
    BY <1>1, <1>2, <1>3, <1>4 DEF WatchInv

LEMMA PollConfigKeeps ==
    ASSUME WatchInv, PollConfig
    PROVE  WatchInv'
  <1>1. TypeOK' /\ (secret.ver <= rotations)'
    BY WatcherBoundAssumption
    DEF WatchInv, TypeOK, Secret, Versions, Maybe, PCs, PollConfig, Backoff, ConfigChanged, secrets, watcher, remote, work, counters
  <1>2. Paired'
    BY DEF WatchInv, TypeOK, Paired, CredentialsMatch, Maybe, PollConfig, Backoff, ConfigChanged, secrets, watcher, remote, work, counters
  <1>3. LastInLog'
    BY DEF WatchInv, TypeOK, LastInLog, PollConfig, Backoff, ConfigChanged, secrets, watcher, remote, work, counters
  <1>4. NothingSkipped'
    BY DEF WatchInv, TypeOK, LastInLog, NothingSkipped, PollConfig, Backoff, ConfigChanged, secrets, watcher, remote, work, counters
  <1> QED
    BY <1>1, <1>2, <1>3, <1>4 DEF WatchInv

LEMMA SessionFailsKeeps ==
    ASSUME WatchInv, SessionFails
    PROVE  WatchInv'
  <1>1. TypeOK' /\ (secret.ver <= rotations)'
    BY WatcherBoundAssumption
    DEF WatchInv, TypeOK, Secret, Versions, Maybe, PCs, SessionFails, Backoff, secrets, watcher, remote, work, counters
  <1>2. Paired'
    BY DEF WatchInv, TypeOK, Paired, CredentialsMatch, Maybe, SessionFails, Backoff, secrets, watcher, remote, work, counters
  <1>3. LastInLog'
    BY DEF WatchInv, TypeOK, LastInLog, SessionFails, Backoff, secrets, watcher, remote, work, counters
  <1>4. NothingSkipped'
    BY DEF WatchInv, TypeOK, LastInLog, NothingSkipped, SessionFails, Backoff, secrets, watcher, remote, work, counters
  <1> QED
    BY <1>1, <1>2, <1>3, <1>4 DEF WatchInv

LEMMA WatchRefusedKeeps ==
    ASSUME WatchInv, WatchRefused
    PROVE  WatchInv'
  <1>1. TypeOK' /\ (secret.ver <= rotations)'
    BY WatcherBoundAssumption
    DEF WatchInv, TypeOK, Secret, Versions, Maybe, PCs, WatchRefused, Backoff, secrets, watcher, remote, work, counters
  <1>2. Paired'
    BY DEF WatchInv, TypeOK, Paired, CredentialsMatch, Maybe, WatchRefused, Backoff, secrets, watcher, remote, work, counters
  <1>3. LastInLog'
    BY DEF WatchInv, TypeOK, LastInLog, WatchRefused, Backoff, secrets, watcher, remote, work, counters
  <1>4. NothingSkipped'
    BY DEF WatchInv, TypeOK, LastInLog, NothingSkipped, WatchRefused, Backoff, secrets, watcher, remote, work, counters
  <1> QED
    BY <1>1, <1>2, <1>3, <1>4 DEF WatchInv

LEMMA ReconcileKeeps ==
    ASSUME WatchInv, NEW o \in Object, Reconcile(o)
    PROVE  WatchInv'
  <1>1. TypeOK' /\ (secret.ver <= rotations)'
    <2>1. prov' \in [config : Maybe, ver : Maybe]
      BY WatcherBoundAssumption
      DEF WatchInv, TypeOK, Secret, Versions, Maybe, Reconcile, GetClient
    <2>2. queue' \in SUBSET Object /\ seen' \in [Object -> 0..Len(log)]
      <3>1. last[o] \in 0..Len(log)
        BY DEF WatchInv, TypeOK
      <3> QED
        BY <3>1 DEF WatchInv, TypeOK, Reconcile
    <2> QED
      BY <2>1, <2>2 DEF WatchInv, TypeOK, Reconcile, secrets, watcher, remote, counters
  <1>2. Paired'
    BY DEF WatchInv, TypeOK, Paired, CredentialsMatch, Maybe, Reconcile, GetClientOK, GetClient, secrets, watcher, remote, work, counters
  <1>3. LastInLog'
    BY DEF WatchInv, TypeOK, LastInLog, Reconcile, GetClientOK, GetClient, secrets, watcher, remote, work, counters
  <1>4. NothingSkipped'
    <2> SUFFICES ASSUME NEW q \in Object, pc' \in {"startWatch", "watch"}, exists'[q],
                        seen'[q] < last'[q]
                 PROVE  q \in queue' \/ sess'.pos < last'[q]
      BY DEF NothingSkipped
    <2>1. UNCHANGED <<pc, exists, last, sess>>
      BY DEF Reconcile, watcher, remote
    <2>2. CASE UNCHANGED <<queue, seen>>
      BY <2>1, <2>2 DEF WatchInv, NothingSkipped
    <2>3. CASE queue' = queue \ {o} /\ seen' = [seen EXCEPT ![o] = last[o]]
      <3>1. last[o] \in Int /\ seen \in [Object -> 0..Len(log)]
        BY DEF WatchInv, TypeOK
      <3>2. q # o
        BY <2>1, <2>3, <3>1
      <3> QED
        BY <2>1, <2>3, <3>1, <3>2 DEF WatchInv, NothingSkipped
    <2> QED
      BY <2>2, <2>3 DEF Reconcile
  <1> QED
    BY <1>1, <1>2, <1>3, <1>4 DEF WatchInv

LEMMA ChangeKeeps ==
    ASSUME WatchInv, NEW o \in Object, Change(o)
    PROVE  WatchInv'
  <1>1. TypeOK' /\ (secret.ver <= rotations)'
    <2>1. log \in Seq(Object) /\ Len(log) \in Nat /\ Len(log) < MaxChanges
      BY DEF WatchInv, TypeOK, Change
    <2>2. log' \in Seq(Object) /\ Len(log') = Len(log) + 1
      BY <2>1 DEF Change
    <2>3. last' \in [Object -> 0..Len(log')] /\ seen' \in [Object -> 0..Len(log')]
      BY <2>1, <2>2 DEF WatchInv, TypeOK, Change, work
    <2>4. sess' \in [creds : Maybe, ver : Maybe, pos : 0..Len(log')]
      BY <2>1, <2>2 DEF WatchInv, TypeOK, Change, watcher
    <2>5. exists' \in [Object -> BOOLEAN]
      BY DEF WatchInv, TypeOK, Change
    <2>6. Len(log') <= MaxChanges
      BY <2>1, <2>2, WatcherBoundAssumption
    <2> QED
      BY <2>2, <2>3, <2>4, <2>5, <2>6
      DEF WatchInv, TypeOK, Change, secrets, watcher, work, counters
  <1>2. Paired'
    BY DEF WatchInv, TypeOK, Paired, CredentialsMatch, Maybe, Change, secrets, watcher, remote, work, counters
  <1>3. LastInLog'
    BY DEF WatchInv, TypeOK, LastInLog, Change, secrets, watcher, remote, work, counters
  <1>4. NothingSkipped'
    BY DEF WatchInv, TypeOK, LastInLog, NothingSkipped, Change, secrets, watcher, remote, work, counters
  <1> QED
    BY <1>1, <1>2, <1>3, <1>4 DEF WatchInv

LEMMA RotateKeeps ==
    ASSUME WatchInv, Rotate
    PROVE  WatchInv'
  <1>1. TypeOK' /\ (secret.ver <= rotations)'
    <2>1. secret.ver \in Nat /\ rotations \in Nat /\ secret.ver <= rotations
          /\ rotations < MaxRotations
      BY WatcherBoundAssumption DEF WatchInv, TypeOK, Secret, Versions, Rotate
    <2>2. PICK there \in BOOLEAN, ok \in BOOLEAN :
            secret' = [ver |-> secret.ver + 1, there |-> there, ok |-> ok]
      BY DEF Rotate
    <2>3. secret.ver + 1 \in Versions
      BY <2>1, WatcherBoundAssumption DEF Versions
    <2>4. secret' \in Secret /\ secret'.ver = secret.ver + 1
      BY <2>2, <2>3 DEF Secret
    <2>5. rotations' \in 0..MaxRotations /\ secret'.ver <= rotations'
      BY <2>1, <2>4, WatcherBoundAssumption DEF Rotate
    <2> QED
      BY <2>4, <2>5 DEF WatchInv, TypeOK, Rotate, watcher, remote, work
  <1>2. Paired'
    BY DEF WatchInv, TypeOK, Paired, CredentialsMatch, Maybe, Rotate, secrets, watcher, remote, work, counters
  <1>3. LastInLog'
    BY DEF WatchInv, TypeOK, LastInLog, Rotate, secrets, watcher, remote, work, counters
  <1>4. NothingSkipped'
    BY DEF WatchInv, TypeOK, LastInLog, NothingSkipped, Rotate, secrets, watcher, remote, work, counters
  <1> QED
    BY <1>1, <1>2, <1>3, <1>4 DEF WatchInv

LEMMA SyncSecretKeeps ==
    ASSUME WatchInv, SyncSecret
    PROVE  WatchInv'
  <1>1. TypeOK' /\ (secret.ver <= rotations)'
    BY WatcherBoundAssumption
    DEF WatchInv, TypeOK, Secret, Versions, Maybe, PCs, SyncSecret, secrets, watcher, remote, work, counters
  <1>2. Paired'
    BY DEF WatchInv, TypeOK, Paired, CredentialsMatch, Maybe, SyncSecret, secrets, watcher, remote, work, counters
  <1>3. LastInLog'
    BY DEF WatchInv, TypeOK, LastInLog, SyncSecret, secrets, watcher, remote, work, counters
  <1>4. NothingSkipped'
    BY DEF WatchInv, TypeOK, LastInLog, NothingSkipped, SyncSecret, secrets, watcher, remote, work, counters
  <1> QED
    BY <1>1, <1>2, <1>3, <1>4 DEF WatchInv

LEMMA RestartKeeps ==
    ASSUME WatchInv, Restart
    PROVE  WatchInv'
  <1>1. TypeOK' /\ (secret.ver <= rotations)'
    BY WatcherBoundAssumption
    DEF WatchInv, TypeOK, Secret, Versions, Maybe, PCs, Restart, secrets, watcher, remote, work, counters
  <1>2. Paired'
    BY DEF WatchInv, TypeOK, Paired, CredentialsMatch, Maybe, Restart, secrets, watcher, remote, work, counters
  <1>3. LastInLog'
    BY DEF WatchInv, TypeOK, LastInLog, Restart, secrets, watcher, remote, work, counters
  <1>4. NothingSkipped'
    BY DEF WatchInv, TypeOK, LastInLog, NothingSkipped, Restart, secrets, watcher, remote, work, counters
  <1> QED
    BY <1>1, <1>2, <1>3, <1>4 DEF WatchInv

LEMMA RevokeKeeps ==
    ASSUME WatchInv, NEW v \in Versions, Revoke(v)
    PROVE  WatchInv'
  <1>1. TypeOK' /\ (secret.ver <= rotations)'
    BY WatcherBoundAssumption
    DEF WatchInv, TypeOK, Secret, Versions, Maybe, PCs, Revoke, secrets, watcher, remote, work, counters
  <1>2. Paired'
    BY DEF WatchInv, TypeOK, Paired, CredentialsMatch, Maybe, Revoke, secrets, watcher, remote, work, counters
  <1>3. LastInLog'
    BY DEF WatchInv, TypeOK, LastInLog, Revoke, secrets, watcher, remote, work, counters
  <1>4. NothingSkipped'
    BY DEF WatchInv, TypeOK, LastInLog, NothingSkipped, Revoke, secrets, watcher, remote, work, counters
  <1> QED
    BY <1>1, <1>2, <1>3, <1>4 DEF WatchInv

LEMMA StutterKeeps ==
    ASSUME WatchInv, UNCHANGED vars
    PROVE  WatchInv'
  BY DEF WatchInv, TypeOK, Paired, CredentialsMatch, LastInLog, NothingSkipped,
         vars, secrets, watcher, remote, work, counters

LEMMA WatchNext == WatchInv /\ [Next]_vars => WatchInv'
  <1> SUFFICES ASSUME WatchInv, [Next]_vars PROVE WatchInv'
    OBVIOUS
  <1>1. CASE BackoffOver
    BY <1>1, BackoffOverKeeps
  <1>2. CASE RefreshClient
    BY <1>2, RefreshClientKeeps
  <1>3. CASE CopyConfig
    BY <1>3, CopyConfigKeeps
  <1>4. CASE List
    BY <1>4, ListKeeps
  <1>5. CASE StartWatch
    BY <1>5, StartWatchKeeps
  <1>6. CASE Deliver
    BY <1>6, DeliverKeeps
  <1>7. CASE PollConfig
    BY <1>7, PollConfigKeeps
  <1>8. CASE SessionFails
    BY <1>8, SessionFailsKeeps
  <1>9. CASE WatchRefused
    BY <1>9, WatchRefusedKeeps
  <1>10. CASE \E o \in Object : Reconcile(o)
    BY <1>10, ReconcileKeeps
  <1>11. CASE \E o \in Object : Change(o)
    BY <1>11, ChangeKeeps
  <1>12. CASE Rotate
    BY <1>12, RotateKeeps
  <1>13. CASE SyncSecret
    BY <1>13, SyncSecretKeeps
  <1>14. CASE Restart
    BY <1>14, RestartKeeps
  <1>15. CASE \E v \in Versions : Revoke(v)
    BY <1>15, RevokeKeeps
  <1>16. CASE UNCHANGED vars
    BY <1>16, StutterKeeps
  <1> QED
    BY <1>1, <1>2, <1>3, <1>4, <1>5, <1>6, <1>7, <1>8, <1>9, <1>10, <1>11, <1>12, <1>13, <1>14, <1>15, <1>16 DEF Next, WatcherStep

-----------------------------------------------------------------------------
(* The theorems *)

\* Every variable keeps its type, and no session is ever ahead of the remote.
THEOREM WatcherTypeCorrect == Spec => []TypeOK
  <1>1. WatchInv => TypeOK
    BY DEF WatchInv
  <1> QED
    BY <1>1, WatchInit, WatchNext, PTL DEF Spec

\* watchLoop loses no change of an object the remote still has, however lists,
\* events, reconciles, rotations, broken sessions and restarts interleave.
THEOREM NothingSkippedCorrect == Spec => []NothingSkipped
  <1>1. WatchInv => NothingSkipped
    BY DEF WatchInv
  <1> QED
    BY <1>1, WatchInit, WatchNext, PTL DEF Spec

\* The clients of a session are made from the version of the Secret it polls
\* for, although GetRESTConfig releases the lock between its two halves.
THEOREM CredentialsCorrect == Spec => []CredentialsMatch
  <1>1. WatchInv => CredentialsMatch
    BY DEF WatchInv, Paired
  <1> QED
    BY <1>1, WatchInit, WatchNext, PTL DEF Spec
=============================================================================
