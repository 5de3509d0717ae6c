---------------------------- MODULE RemoteWatcher ----------------------------
(***************************************************************************)
(* internal/remotecluster/watcher.go and client.go: the watch on the       *)
(* FailoverServices of the remote cluster, and the client made from the    *)
(* kubeconfig Secret that it shares with the reconciler.                   *)
(*                                                                         *)
(* The goroutine of the watcher runs beside the reconcile worker; both     *)
(* refresh the provider's client.  The Secret is read from an informer     *)
(* cache.  The remote cluster numbers its changes; a list tells how far it *)
(* got and a watch goes on from there.  How long a backoff lasts, and the  *)
(* value it grows to, is left out: a session starts again some time later. *)
(***************************************************************************)
EXTENDS Integers, Sequences

CONSTANTS
    Object,        \* FailoverServices, by name
    MaxChanges,    \* bound: changes of the remote objects
    MaxRotations,  \* bound: versions of the kubeconfig Secret after the first
    MaxFaults      \* bound: failed calls, broken watches and restarts

ASSUME WatcherBoundAssumption ==
    MaxChanges \in Nat /\ MaxRotations \in Nat /\ MaxFaults \in Nat

\* Versions of the Secret; -1 is a client that has not been made.
Versions == 0..MaxRotations
Maybe == -1..MaxRotations

\* The Secret: its resourceVersion, whether it exists, whether a kubeconfig
\* can be parsed from it.  Each version holds credentials of its own.
Secret == [ver : Versions, there : BOOLEAN, ok : BOOLEAN]

PCs == {"backoff", "getClient", "copyConfig", "list", "startWatch", "watch"}

VARIABLES
    secret, csecret,   \* the Secret in the API server and in the informer cache
    revoked,           \* credentials the remote cluster no longer accepts
    prov,              \* ClientProvider: cachedConfig (whose credentials), lastResourceVer
    dyn,               \* RemoteWatcher: listClient and watchClient, lastConfigVer
    pc,                \* where the goroutine of the watcher is
    sess,              \* the session: its clients, configVer, last change it was told of
    log,               \* remote: the object of each change, in their order
    exists, last,      \* remote: objects there are, and the last change of each
    queue,             \* the workqueue of the controller
    seen,              \* the change of each object the last reconcile read
    rotations, faults  \* counters the bounds apply to

secrets  == <<secret, csecret, revoked>>
watcher  == <<dyn, pc, sess>>
remote   == <<log, exists, last>>
work     == <<queue, seen>>
counters == <<rotations, faults>>
vars     == <<secrets, prov, watcher, remote, work, counters>>

Init ==
    /\ secret = [ver |-> 0, there |-> TRUE, ok |-> TRUE]
    /\ csecret = secret
    /\ revoked = {}
    /\ prov = [config |-> -1, ver |-> -1]
    /\ dyn = [creds |-> -1, ver |-> -1]
    /\ pc = "getClient"
    /\ sess = [creds |-> -1, ver |-> -1, pos |-> 0]
    /\ log = <<>>
    /\ exists = [o \in Object |-> TRUE] /\ last = [o \in Object |-> 0]
    /\ queue = {} /\ seen = [o \in Object |-> 0]
    /\ rotations = 0 /\ faults = 0

-----------------------------------------------------------------------------
(* client.go                                                               *)

\* Variant: the client is made once.
GetClient_Once == prov' = IF prov.config # -1 THEN prov
                          ELSE [config |-> csecret.ver, ver |-> csecret.ver]

\* GetClient, under the lock of the provider: cached while the Secret is the
\* one it was made from; an error leaves what was cached.
GetClientOK == /\ csecret.there
               /\ \/ prov.config # -1 /\ prov.ver = csecret.ver
                  \/ csecret.ok
GetClient == prov' = IF prov.config # -1 /\ prov.ver = csecret.ver THEN prov
                     ELSE [config |-> csecret.ver, ver |-> csecret.ver]

-----------------------------------------------------------------------------
(* The goroutine of the watcher: run and watchLoop.                        *)

\* watchLoop has returned, whatever the error: wait, then try again.
Backoff == pc' = "backoff" /\ UNCHANGED <<dyn, sess>>

BackoffOver ==
    /\ pc = "backoff"
    /\ pc' = "getClient"
    /\ UNCHANGED <<secrets, prov, dyn, sess, remote, work, counters>>

\* getDynamicClients, GetRESTConfig: the call of GetClient.
RefreshClient ==
    /\ pc = "getClient"
    /\ \/ GetClientOK /\ GetClient /\ pc' = "copyConfig" /\ UNCHANGED <<dyn, sess>>
       \/ ~GetClientOK /\ Backoff /\ UNCHANGED prov
    /\ UNCHANGED <<secrets, remote, work, counters>>

\* Variant: the version is the Secret's, read apart from the config.
CopyConfig_Torn ==
    /\ pc = "copyConfig"
    /\ dyn' = IF dyn.creds # -1 /\ dyn.ver = csecret.ver THEN dyn
              ELSE [creds |-> prov.config, ver |-> csecret.ver]
    /\ sess' = [sess EXCEPT !.creds = dyn'.creds, !.ver = csecret.ver]
    /\ pc' = "list"
    /\ UNCHANGED <<secrets, prov, remote, work, counters>>

\* GetRESTConfig takes the lock again: the provider may have been refreshed in
\* between, by a reconcile; config and version belong together all the same.
\* Clients made from that version are kept, others are made anew.
CopyConfig ==
    /\ pc = "copyConfig"
    /\ dyn' = IF dyn.creds # -1 /\ dyn.ver = prov.ver THEN dyn
              ELSE [creds |-> prov.config, ver |-> prov.ver]
    /\ sess' = [sess EXCEPT !.creds = dyn'.creds, !.ver = prov.ver]
    /\ pc' = "list"
    /\ UNCHANGED <<secrets, prov, remote, work, counters>>

\* The list, and enqueueList; refused if the credentials are no longer good.
List ==
    /\ pc = "list"
    /\ \/ /\ sess.creds \notin revoked
          /\ sess' = [sess EXCEPT !.pos = Len(log)]
          /\ queue' = queue \cup {o \in Object : exists[o]}
          /\ pc' = "startWatch"
          /\ UNCHANGED dyn
       \/ sess.creds \in revoked /\ Backoff /\ UNCHANGED queue
    /\ UNCHANGED <<secrets, prov, remote, seen, counters>>

\* Variant: the watch starts from whatever is current.
StartWatch_Now ==
    /\ pc = "startWatch"
    /\ pc' = "watch"
    /\ sess' = [sess EXCEPT !.pos = Len(log)]
    /\ UNCHANGED <<secrets, prov, dyn, remote, work, counters>>

\* NewRetryWatcherWithContext: from the resource version of the list.
StartWatch ==
    /\ pc = "startWatch"
    /\ pc' = "watch"
    /\ UNCHANGED <<secrets, prov, dyn, sess, remote, work, counters>>

\* Variant: of the changes that are there only the last one is taken.
Deliver_Skip ==
    /\ pc = "watch" /\ sess.pos < Len(log)
    /\ sess' = [sess EXCEPT !.pos = Len(log) + 1]
    /\ queue' = queue \cup {log[Len(log)]}
    /\ UNCHANGED <<secrets, prov, dyn, pc, remote, seen, counters>>

\* The next event, and enqueueEvent.  RetryWatcher restarts a watch that ends
\* from the last event it delivered.
Deliver ==
    /\ pc = "watch" /\ sess.pos < Len(log)
    /\ sess' = [sess EXCEPT !.pos = @ + 1]
    /\ queue' = queue \cup {log[sess.pos + 1]}
    /\ UNCHANGED <<secrets, prov, dyn, pc, remote, seen, counters>>

\* The ticker, and configChanged: true if the Secret is gone or another one.
ConfigChanged == ~csecret.there \/ csecret.ver # sess.ver
PollConfig ==
    /\ pc = "watch" /\ ConfigChanged
    /\ Backoff
    /\ UNCHANGED <<secrets, prov, remote, work, counters>>

\* The watch ends by an error event or a closed channel: the resource version
\* is too old, the credentials are refused when RetryWatcher reconnects, or the
\* connection cannot be had.  Or the list fails.
SessionFails ==
    /\ pc \in {"list", "watch"} /\ faults < MaxFaults
    /\ Backoff
    /\ faults' = faults + 1
    /\ UNCHANGED <<secrets, prov, remote, work, rotations>>

WatchRefused ==
    /\ pc = "watch" /\ sess.creds \in revoked
    /\ Backoff
    /\ UNCHANGED <<secrets, prov, remote, work, counters>>

-----------------------------------------------------------------------------
(* The rest of the system.                                                 *)

\* A reconcile: it gets a client like the watcher does and reads the remote
\* object, or fails and is retried.
Reconcile(o) ==
    /\ o \in queue /\ GetClientOK
    /\ GetClient
    /\ \/ /\ prov'.config \notin revoked
          /\ queue' = queue \ {o} /\ seen' = [seen EXCEPT ![o] = last[o]]
       \/ prov'.config \in revoked /\ UNCHANGED <<queue, seen>>
    /\ UNCHANGED <<secrets, watcher, remote, counters>>

\* The remote controller, or a user there, changes, deletes or creates.
Change(o) ==
    /\ Len(log) < MaxChanges
    /\ log' = Append(log, o)
    /\ last' = [last EXCEPT ![o] = Len(log) + 1]
    /\ \E there \in BOOLEAN : exists' = [exists EXCEPT ![o] = there]
    /\ UNCHANGED <<secrets, prov, watcher, work, counters>>

\* The kubeconfig Secret is rotated, spoiled, deleted or put back.
Rotate ==
    /\ rotations < MaxRotations
    /\ \E there, ok \in BOOLEAN : secret' = [ver |-> secret.ver + 1, there |-> there, ok |-> ok]
    /\ rotations' = rotations + 1
    /\ UNCHANGED <<csecret, revoked, prov, watcher, remote, work, faults>>

\* The remote cluster stops to accept credentials that have been replaced.
Revoke(v) ==
    /\ v < secret.ver
    /\ revoked' = revoked \cup {v}
    /\ UNCHANGED <<secret, csecret, prov, watcher, remote, work, counters>>

SyncSecret ==
    /\ csecret # secret
    /\ csecret' = secret
    /\ UNCHANGED <<secret, revoked, prov, watcher, remote, work, counters>>

\* The manager restarts: the caches are filled before the controller runs, and
\* every local FailoverService is queued.
Restart ==
    /\ faults < MaxFaults
    /\ csecret' = secret
    /\ prov' = [config |-> -1, ver |-> -1]
    /\ dyn' = [creds |-> -1, ver |-> -1]
    /\ sess' = [creds |-> -1, ver |-> -1, pos |-> 0]
    /\ pc' = "getClient"
    /\ queue' = Object
    /\ faults' = faults + 1
    /\ UNCHANGED <<secret, revoked, remote, seen, rotations>>

\* What the goroutine of the watcher does by itself.
WatcherStep == BackoffOver \/ RefreshClient \/ CopyConfig \/ List \/ StartWatch \/ PollConfig

Next ==
    \/ WatcherStep \/ Deliver \/ SessionFails \/ WatchRefused
    \/ \E o \in Object : Reconcile(o) \/ Change(o)
    \/ Rotate \/ SyncSecret \/ Restart
    \/ \E v \in Versions : Revoke(v)

Spec == Init /\ [][Next]_vars

\* The goroutine is never blocked for ever (list and read have timeouts, the
\* select serves its ticker), events and cache updates arrive, and the
\* workqueue serves every item.
FairSpec ==
    /\ Spec
    /\ WF_vars(WatcherStep) /\ WF_vars(Deliver) /\ WF_vars(SyncSecret)
    /\ \A o \in Object : WF_vars(Reconcile(o))

-----------------------------------------------------------------------------
(* Properties.                                                             *)

\* Every variable has its type, and a session is never ahead of the remote.
TypeOK ==
    /\ secret \in Secret /\ csecret \in Secret
    /\ revoked \in SUBSET Versions
    /\ prov \in [config : Maybe, ver : Maybe]
    /\ dyn \in [creds : Maybe, ver : Maybe]
    /\ pc \in PCs
    /\ log \in Seq(Object) /\ Len(log) <= MaxChanges
    /\ sess \in [creds : Maybe, ver : Maybe, pos : 0..Len(log)]
    /\ exists \in [Object -> BOOLEAN] /\ last \in [Object -> 0..Len(log)]
    /\ queue \in SUBSET Object /\ seen \in [Object -> 0..Len(log)]
    /\ rotations \in 0..MaxRotations /\ faults \in 0..MaxFaults

\* While a watch is up or about to be, no change of an object the remote still
\* has is lost: the reconciler has read it, is about to, or the watch has yet to
\* tell (watchLoop lists, enqueues, and watches from the list's version).
NothingSkipped ==
    pc \in {"startWatch", "watch"} =>
        \A o \in Object : exists[o] /\ seen[o] < last[o] => o \in queue \/ sess.pos < last[o]

\* The clients of a session hold the credentials of the version it compares the
\* Secret with, whoever refreshed the provider in between (GetRESTConfig); with
\* others a rotated Secret would go unnoticed.
CredentialsMatch == pc \in {"list", "startWatch", "watch"} => sess.creds = sess.ver

\* The Secret holds credentials the remote cluster accepts.
Good == secret.there /\ secret.ok /\ secret.ver \notin revoked

\* Once the Secret is good for ever, the watch comes back with its credentials,
\* stays, and every object the remote has is read in its last state: whatever
\* was rotated, deleted, spoiled or broken before (run, watchLoop).
CatchesUp ==
    <>[]Good => <>[](/\ pc = "watch" /\ sess.ver = secret.ver
                     /\ \A o \in Object : exists[o] => seen[o] = last[o])
=============================================================================
