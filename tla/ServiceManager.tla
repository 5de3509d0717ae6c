--------------------------- MODULE ServiceManager ---------------------------
(***************************************************************************)
(* internal/service/manager.go: the managed Service and its EndpointSlice. *)
(* A DNS target is an ExternalName Service, an IP target a ClusterIP       *)
(* Service with an EndpointSlice; the type of a Service cannot be changed, *)
(* so a switch between the two deletes and creates.  Nor can the address   *)
(* family of an EndpointSlice, but there the code tries.                   *)
(*                                                                         *)
(* Every API call is a step of its own, reads come from two informer       *)
(* caches that lag independently, and users have the same rights to        *)
(* Services as the controller.  One reconcile at a time works on one       *)
(* FailoverService.                                                        *)
(***************************************************************************)
EXTENDS Integers

CONSTANTS
    Address,      \* targets the controller may be asked for
    IPAddress,    \* those net.ParseIP accepts
    IPv6Address,  \* those of them that To4 does not convert
    MaxRetargets, \* bound: changes of the target
    MaxMeddling,  \* bound: objects deleted or put in place by users
    MaxFaults     \* bound: failed calls and crashes

ASSUME AddressAssumption ==
    /\ IPAddress \subseteq Address /\ IPv6Address \subseteq IPAddress
    /\ "none" \notin Address /\ Address # {}
ASSUME ManagerBoundAssumption ==
    MaxRetargets \in Nat /\ MaxMeddling \in Nat /\ MaxFaults \in Nat

Kinds == {"none", "ExternalName", "ClusterIP"}

\* A Service: its type ("none" if it does not exist), externalName, owner.
Service == [kind : Kinds, to : Address \cup {"none"}, owned : BOOLEAN]

\* An EndpointSlice: the address of its endpoint, "none" if it does not exist.
EndpointSlice == [to : Address \cup {"none"}, owned : BOOLEAN]

NoService == [kind |-> "none", to |-> "none", owned |-> FALSE]
NoSlice   == [to |-> "none", owned |-> FALSE]

PCs == {"off", "createExternalName", "updateExternalName", "deleteEndpointSlice",
        "deleteExternalName", "deleteClusterIP", "createClusterIP", "updateClusterIP",
        "reconcileEndpointSlice", "ok"}

VARIABLES
    svc, slice,       \* the two objects in the API server
    csvc, cslice,     \* the two objects in the informer caches
    target,           \* the address the controller wants traffic to go to
    job,              \* the reconcile in flight
    retargets, meddling, faults   \* counters the bounds apply to

caches   == <<csvc, cslice>>
counters == <<retargets, meddling, faults>>
vars     == <<svc, slice, caches, target, job, counters>>

\* pc; the address asked for; the Service as it was read; whether the caches
\* were current at the start and nobody else has touched the objects since.
Job == [pc : PCs, addr : Address, svc : Service, clean : BOOLEAN]

\* Where a client of the Service ends up.
Route(s, e) == CASE s.kind = "ExternalName" -> s.to
                 [] s.kind = "ClusterIP"    -> e.to
                 [] OTHER                   -> "none"

\* Variant: the endpoint has no address.
Endpoint_Empty(a) == [to |-> "", owned |-> TRUE]

\* buildExternalNameService, buildClusterIPService and the desired EndpointSlice
ExternalName(a) == [kind |-> "ExternalName", to |-> a, owned |-> TRUE]
ClusterIP       == [kind |-> "ClusterIP", to |-> "none", owned |-> TRUE]
Endpoint(a)     == [to |-> a, owned |-> TRUE]

Init ==
    /\ svc = NoService /\ slice = NoSlice /\ csvc = NoService /\ cslice = NoSlice
    /\ target \in Address
    /\ job = [pc |-> "off", addr |-> target, svc |-> NoService, clean |-> FALSE]
    /\ retargets = 0 /\ meddling = 0 /\ faults = 0

-----------------------------------------------------------------------------
(* ReconcileWithAddress *)

Goto(pc) == job' = [job EXCEPT !.pc = pc]

\* An error ends the reconcile; it is repeated later.
Fail == Goto("off")

\* Variant: ownership is looked at for DNS targets only.
Decide_NoOwner(s, a) ==
    LET ip == a \in IPAddress
        ours == s.owned \/ ip
    IN  CASE s.kind = "none" /\ ip                     -> "createClusterIP"
          [] s.kind = "none" /\ ~ip                    -> "createExternalName"
          [] s.kind # "none" /\ ~ours                  -> "off"
          [] s.kind = "ExternalName" /\ ours /\ ip     -> "deleteExternalName"
          [] s.kind = "ClusterIP" /\ ours /\ ip        -> "updateClusterIP"
          [] s.kind = "ClusterIP" /\ ours /\ ~ip       -> "deleteEndpointSlice"
          [] s.kind = "ExternalName" /\ ours /\ ~ip    -> IF s.to = a THEN "ok" ELSE "updateExternalName"

\* Variant: an ExternalName Service is taken to be right whatever its name.
Decide_AnyName(s, a) ==
    LET ip == a \in IPAddress
    IN  CASE s.kind = "none" /\ ip                     -> "createClusterIP"
          [] s.kind = "none" /\ ~ip                    -> "createExternalName"
          [] s.kind # "none" /\ ~s.owned               -> "off"
          [] s.kind = "ExternalName" /\ s.owned /\ ip  -> "deleteExternalName"
          [] s.kind = "ClusterIP" /\ s.owned /\ ip     -> "updateClusterIP"
          [] s.kind = "ClusterIP" /\ s.owned /\ ~ip    -> "deleteEndpointSlice"
          [] s.kind = "ExternalName" /\ s.owned /\ ~ip -> "ok"

\* What is to be done to Service s so that traffic goes to a: the branches of
\* reconcileClusterIPService and reconcileExternalNameService.
Decide(s, a) ==
    LET ip == a \in IPAddress
    IN  CASE s.kind = "none" /\ ip                     -> "createClusterIP"
          [] s.kind = "none" /\ ~ip                    -> "createExternalName"
          [] s.kind # "none" /\ ~s.owned               -> "off"
          [] s.kind = "ExternalName" /\ s.owned /\ ip  -> "deleteExternalName"
          [] s.kind = "ClusterIP" /\ s.owned /\ ip     -> "updateClusterIP"
          [] s.kind = "ClusterIP" /\ s.owned /\ ~ip    -> "deleteEndpointSlice"
          [] s.kind = "ExternalName" /\ s.owned /\ ~ip -> IF s.to = a THEN "ok" ELSE "updateExternalName"

\* The Service is read from the cache.
ReconcileWithAddress ==
    /\ job.pc = "off"
    /\ job' = [pc |-> Decide(csvc, target), addr |-> target, svc |-> csvc,
               clean |-> (csvc = svc /\ cslice = slice)]
    /\ UNCHANGED <<svc, slice, caches, target, counters>>

CreateExternalName ==
    /\ job.pc = "createExternalName"
    /\ IF svc = NoService THEN svc' = ExternalName(job.addr) /\ Goto("ok")
                          ELSE svc' = svc /\ Fail
    /\ UNCHANGED <<slice, caches, target, counters>>

\* An update is refused unless the copy is current.
UpdateExternalName ==
    /\ job.pc = "updateExternalName"
    /\ IF svc = job.svc THEN svc' = [svc EXCEPT !.to = job.addr] /\ Goto("ok")
                        ELSE svc' = svc /\ Fail
    /\ UNCHANGED <<slice, caches, target, counters>>

\* Nothing in the cache is fine, nothing in the API server is an error.
\* Delete goes by name: it takes whatever is there now.
DeleteEndpointSlice ==
    /\ job.pc = "deleteEndpointSlice"
    /\ CASE cslice = NoSlice -> slice' = slice /\ Goto("deleteClusterIP")
         [] cslice # NoSlice /\ cslice.owned /\ slice # NoSlice ->
                slice' = NoSlice /\ Goto("deleteClusterIP")
         [] OTHER -> slice' = slice /\ Fail
    /\ UNCHANGED <<svc, caches, target, counters>>

\* The Service of the other type goes, again by name.
DeleteService ==
    /\ job.pc \in {"deleteExternalName", "deleteClusterIP"}
    /\ IF svc # NoService
       THEN /\ svc' = NoService
            /\ Goto(IF job.pc = "deleteClusterIP" THEN "createExternalName" ELSE "createClusterIP")
       ELSE svc' = svc /\ Fail
    /\ UNCHANGED <<slice, caches, target, counters>>

CreateClusterIP ==
    /\ job.pc = "createClusterIP"
    /\ IF svc = NoService THEN svc' = ClusterIP /\ Goto("reconcileEndpointSlice")
                          ELSE svc' = svc /\ Fail
    /\ UNCHANGED <<slice, caches, target, counters>>

\* The ports and the owner are written.
UpdateClusterIP ==
    /\ job.pc = "updateClusterIP"
    /\ IF svc = job.svc THEN svc' = [svc EXCEPT !.owned = TRUE] /\ Goto("reconcileEndpointSlice")
                        ELSE svc' = svc /\ Fail
    /\ UNCHANGED <<slice, caches, target, counters>>

\* Variant: an EndpointSlice that exists is left as it is.
ReconcileEndpointSlice_Keep ==
    /\ job.pc = "reconcileEndpointSlice"
    /\ IF cslice = NoSlice /\ slice = NoSlice
       THEN slice' = Endpoint(job.addr) /\ Goto("ok")
       ELSE slice' = slice /\ Goto("ok")
    /\ UNCHANGED <<svc, caches, target, counters>>

\* The two addresses are of one family, IPv4 or IPv6.
SameFamily(a, b) == a \in IPv6Address <=> b \in IPv6Address

\* Variant: the endpoint is taken from the current target, not from the caller's.
ReconcileEndpointSlice_Live ==
    /\ job.pc = "reconcileEndpointSlice"
    /\ IF slice = cslice /\ (cslice = NoSlice \/ (cslice.owned /\ SameFamily(slice.to, target)))
       THEN slice' = Endpoint(target) /\ Goto("ok")
       ELSE slice' = slice /\ Fail
    /\ UNCHANGED <<svc, caches, target, counters>>

\* Created if the cache has none, updated if the cached one is ours.  The update
\* writes the addressType too, which the API server does not let change: it
\* refuses an address of the other family.
ReconcileEndpointSlice ==
    /\ job.pc = "reconcileEndpointSlice"
    /\ IF slice = cslice /\ (cslice = NoSlice \/ (cslice.owned /\ SameFamily(slice.to, job.addr)))
       THEN slice' = Endpoint(job.addr) /\ Goto("ok")
       ELSE slice' = slice /\ Fail
    /\ UNCHANGED <<svc, caches, target, counters>>

\* The caller goes on.
Done ==
    /\ job.pc = "ok" /\ Goto("off")
    /\ UNCHANGED <<svc, slice, caches, target, counters>>

-----------------------------------------------------------------------------
(* Environment *)

\* A call fails or the process dies; the next reconcile starts over.
Abort ==
    /\ job.pc # "off" /\ faults < MaxFaults
    /\ faults' = faults + 1 /\ Fail
    /\ UNCHANGED <<svc, slice, caches, target, retargets, meddling>>

SyncService ==
    /\ csvc # svc /\ csvc' = svc
    /\ UNCHANGED <<svc, slice, cslice, target, job, counters>>

SyncSlice ==
    /\ cslice # slice /\ cslice' = slice
    /\ UNCHANGED <<svc, slice, csvc, target, job, counters>>

\* The other direction, another phase or an edited address.
Retarget ==
    /\ retargets < MaxRetargets /\ retargets' = retargets + 1
    /\ target' \in Address \ {target}
    /\ UNCHANGED <<svc, slice, caches, job, meddling, faults>>

\* A user deletes the Service or the EndpointSlice, or puts one of their own there.
Meddle ==
    /\ meddling < MaxMeddling /\ meddling' = meddling + 1
    /\ \/ /\ svc' \in {NoService, [kind |-> "ClusterIP", to |-> "none", owned |-> FALSE]} \ {svc}
          /\ svc' = NoService \/ svc = NoService
          /\ slice' = slice
       \/ /\ slice' \in {NoSlice} \cup {[to |-> a, owned |-> FALSE] : a \in Address}
          /\ (slice' = NoSlice) # (slice = NoSlice)
          /\ svc' = svc
    /\ job' = [job EXCEPT !.clean = FALSE]
    /\ UNCHANGED <<caches, target, retargets, faults>>

ManagerStep ==
    \/ ReconcileWithAddress \/ CreateExternalName \/ UpdateExternalName
    \/ DeleteEndpointSlice \/ DeleteService \/ CreateClusterIP
    \/ UpdateClusterIP \/ ReconcileEndpointSlice \/ Done

Next == ManagerStep \/ Abort \/ SyncService \/ SyncSlice \/ Retarget \/ Meddle

Spec == Init /\ [][Next]_vars

\* Service and EndpointSlice are watched, and every outcome is followed by another
\* reconcile: after an error, after a change of an owned object, every 60 seconds.
FairSpec == Spec /\ WF_vars(ManagerStep) /\ WF_vars(SyncService) /\ WF_vars(SyncSlice)

-----------------------------------------------------------------------------
(* Properties *)

\* Every variable has its type.
TypeOK ==
    /\ svc \in Service /\ csvc \in Service
    /\ slice \in EndpointSlice /\ cslice \in EndpointSlice
    /\ target \in Address /\ job \in Job
    /\ retargets \in 0..MaxRetargets /\ meddling \in 0..MaxMeddling /\ faults \in 0..MaxFaults

\* A reconcile that started from current caches and was left alone returns nil only
\* when traffic goes to the address it was asked for, whatever earlier reconciles
\* left half done (reconcileExternalNameService, reconcileClusterIPService).
SuccessRoutes == job.pc = "ok" /\ job.clean => Route(svc, slice) = job.addr

\* The manager's own steps take traffic nowhere but to the address of the reconcile
\* in flight, or away from it: never back, and never to a newer target half-way.
\* The one exception is a ClusterIP Service created next to an EndpointSlice that
\* an earlier switch left behind (reconcileClusterIPService creates the Service
\* first and corrects the EndpointSlice afterwards, if the API server lets it).
TrafficSteps ==
    [][meddling' = meddling /\ Route(svc, slice)' # Route(svc, slice)
         => \/ Route(svc, slice)' \in {"none", job.addr}
            \/ job.pc = "createClusterIP" /\ Route(svc, slice)' = slice.to]_vars

\* An object of a user is not modified.  It is deleted only on the strength of a
\* cached copy from before it was put there (isOwnedBy, Delete by name).
ForeignUntouched ==
    [][/\ svc.kind # "none" /\ ~svc.owned /\ svc' # svc /\ meddling' = meddling
             => svc' = NoService /\ job.svc # svc
       /\ slice.to # "none" /\ ~slice.owned /\ slice' # slice /\ meddling' = meddling
             => slice' = NoSlice /\ cslice # slice]_vars

Foreign == \/ svc.kind # "none" /\ ~svc.owned
           \/ slice.to # "none" /\ ~slice.owned

\* The target is an IP address, and the EndpointSlice has one of the other family.
OtherFamily == target \in IPAddress /\ slice # NoSlice /\ ~SameFamily(slice.to, target)

\* After partial failures, refused writes, old caches and deletions by users,
\* traffic ends up at the target and stays there, unless what is in the way is an
\* object of a user or an EndpointSlice of the other address family, which the
\* manager can neither update nor think of deleting (the repeated Reconcile,
\* reconcileEndpointSlice).
TrafficReachesTarget == <>[](Route(svc, slice) = target \/ Foreign \/ OtherFamily)
=============================================================================
