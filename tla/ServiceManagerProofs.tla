------------------------ MODULE ServiceManagerProofs ------------------------
(* Theorems about ServiceManager, for any set of addresses and any bounds. *)
EXTENDS ServiceManager, TLAPS

-----------------------------------------------------------------------------
(* The inductive invariant *)

\* What the program point says of the Service the reconcile has read.
ReadService ==
    /\ job.pc = "updateExternalName" => job.svc.kind = "ExternalName"
    /\ job.pc = "updateClusterIP" => job.svc.kind = "ClusterIP"
    /\ job.pc \in {"updateExternalName", "updateClusterIP", "deleteEndpointSlice",
                   "deleteClusterIP", "deleteExternalName"} => job.svc.owned

\* What it says of the Service in the API server when nobody interferes.
CleanService ==
    job.pc = "reconcileEndpointSlice" /\ job.clean => svc.kind = "ClusterIP"

ManagerInv == TypeOK /\ ReadService /\ CleanService /\ SuccessRoutes

LEMMA DecideTyped ==
    ASSUME NEW s \in Service, NEW a \in Address
    PROVE  /\ Decide(s, a) \in PCs
           /\ Decide(s, a) # "reconcileEndpointSlice"
           /\ Decide(s, a) = "updateExternalName" => s.kind = "ExternalName"
           /\ Decide(s, a) = "updateClusterIP" => s.kind = "ClusterIP"
           /\ Decide(s, a) \in {"updateExternalName", "updateClusterIP", "deleteEndpointSlice",
                                "deleteClusterIP", "deleteExternalName"} => s.owned
           /\ Decide(s, a) = "ok" => s.kind = "ExternalName" /\ s.to = a
  <1>1. s.kind \in Kinds /\ s.owned \in BOOLEAN
    BY DEF Service
  <1>2. CASE a \in IPAddress /\ s.kind = "none"
    <2>1. Decide(s, a) = "createClusterIP"
      BY <1>2 DEF Decide
    <2> QED BY <1>2, <2>1 DEF PCs
  <1>3. CASE a \in IPAddress /\ s.kind # "none" /\ ~s.owned
    <2>1. Decide(s, a) = "off"
      BY <1>3 DEF Decide
    <2> QED BY <1>3, <2>1 DEF PCs
  <1>4. CASE a \in IPAddress /\ s.kind = "ExternalName" /\ s.owned
    <2>1. Decide(s, a) = "deleteExternalName"
      BY <1>4 DEF Decide
    <2> QED BY <1>4, <2>1 DEF PCs
  <1>5. CASE a \in IPAddress /\ s.kind = "ClusterIP" /\ s.owned
    <2>1. Decide(s, a) = "updateClusterIP"
      BY <1>5 DEF Decide
    <2> QED BY <1>5, <2>1 DEF PCs
  <1>6. CASE a \notin IPAddress /\ s.kind = "none"
    <2>1. Decide(s, a) = "createExternalName"
      BY <1>6 DEF Decide
    <2> QED BY <1>6, <2>1 DEF PCs
  <1>7. CASE a \notin IPAddress /\ s.kind # "none" /\ ~s.owned
    <2>1. Decide(s, a) = "off"
      BY <1>7 DEF Decide
    <2> QED BY <1>7, <2>1 DEF PCs
  <1>8. CASE a \notin IPAddress /\ s.kind = "ClusterIP" /\ s.owned
    <2>1. Decide(s, a) = "deleteEndpointSlice"
      BY <1>8 DEF Decide
    <2> QED BY <1>8, <2>1 DEF PCs
  <1>9. CASE a \notin IPAddress /\ s.kind = "ExternalName" /\ s.owned /\ s.to = a
    <2>1. Decide(s, a) = "ok"
      BY <1>9 DEF Decide
    <2> QED BY <1>9, <2>1 DEF PCs
  <1>10. CASE a \notin IPAddress /\ s.kind = "ExternalName" /\ s.owned /\ s.to # a
    <2>1. Decide(s, a) = "updateExternalName"
      BY <1>10 DEF Decide
    <2> QED BY <1>10, <2>1 DEF PCs
  <1> QED BY <1>1, <1>2, <1>3, <1>4, <1>5, <1>6, <1>7, <1>8, <1>9, <1>10 DEF Kinds

LEMMA ObjectsTyped ==
    /\ NoService \in Service /\ NoSlice \in EndpointSlice /\ ClusterIP \in Service
    /\ \A a \in Address : ExternalName(a) \in Service /\ Endpoint(a) \in EndpointSlice
  BY DEF NoService, NoSlice, ClusterIP, ExternalName, Endpoint, Service, EndpointSlice, Kinds

LEMMA ManagerInit == Init => ManagerInv
  <1> SUFFICES ASSUME Init PROVE ManagerInv
    OBVIOUS
  <1>1. TypeOK
    BY ObjectsTyped, ManagerBoundAssumption DEF Init, TypeOK, Job, PCs
  <1> QED BY <1>1 DEF Init, ManagerInv, ReadService, CleanService, SuccessRoutes

\* The value traffic takes from a Service and an EndpointSlice.
LEMMA RouteFacts ==
    /\ \A a, e : Route(ExternalName(a), e) = a
    /\ \A e : Route(ClusterIP, e) = e.to
    /\ \A e : Route(NoService, e) = "none"
  BY DEF Route, ExternalName, ClusterIP, NoService

\* What the theorems say about one step.
TrafficStep ==
    meddling' = meddling /\ Route(svc, slice)' # Route(svc, slice)
      => \/ Route(svc, slice)' \in {"none", job.addr}
         \/ job.pc = "createClusterIP" /\ Route(svc, slice)' = slice.to

ForeignStep ==
    /\ svc.kind # "none" /\ ~svc.owned /\ svc' # svc /\ meddling' = meddling
         => svc' = NoService /\ job.svc # svc
    /\ slice.to # "none" /\ ~slice.owned /\ slice' # slice /\ meddling' = meddling
         => slice' = NoSlice /\ cslice # slice

LEMMA ManagerStepInv ==
    ASSUME ManagerInv, [Next]_vars
    PROVE  ManagerInv' /\ TrafficStep /\ ForeignStep
  <1> USE DEF ManagerInv, caches, counters
  <1>0. /\ job.pc \in PCs /\ job.addr \in Address /\ job.svc \in Service
        /\ job.clean \in BOOLEAN /\ job.svc.owned \in BOOLEAN
    BY DEF TypeOK, Job, Service
  <1>1. ASSUME ReconcileWithAddress PROVE ManagerInv' /\ TrafficStep /\ ForeignStep
    <2>1. /\ job'.pc = Decide(csvc, target) /\ job'.addr = target /\ job'.svc = csvc
          /\ job'.clean = (csvc = svc /\ cslice = slice) /\ svc' = svc /\ slice' = slice
      BY <1>1 DEF ReconcileWithAddress
    <2>2. csvc \in Service /\ target \in Address
      BY DEF TypeOK
    <2>3. TypeOK'
      <3>1. job' \in Job
        BY <1>1, <2>2, DecideTyped DEF ReconcileWithAddress, Job
      <3> QED BY <1>1, <3>1 DEF ReconcileWithAddress, TypeOK
    <2>4. ReadService' /\ CleanService'
      BY <2>1, <2>2, DecideTyped DEF ReadService, CleanService
    <2>5. SuccessRoutes'
      BY <2>1, <2>2, DecideTyped DEF SuccessRoutes, Route
    <2> QED BY <2>1, <2>3, <2>4, <2>5 DEF TrafficStep, ForeignStep
  <1>2. ASSUME CreateExternalName PROVE ManagerInv' /\ TrafficStep /\ ForeignStep
    <2>1. CASE svc = NoService
      <3>1. /\ svc' = ExternalName(job.addr) /\ slice' = slice
            /\ job' = [job EXCEPT !.pc = "ok"] /\ UNCHANGED <<caches, target, counters>>
        BY <1>2, <2>1 DEF CreateExternalName, Goto
      <3>2. TypeOK'
        BY <1>0, <3>1, ObjectsTyped DEF TypeOK, Job, PCs
      <3>3. Route(svc, slice)' = job.addr /\ job'.pc = "ok" /\ job'.addr = job.addr
        BY <3>1, <1>0, RouteFacts DEF TypeOK, Job
      <3> QED BY <2>1, <3>1, <3>2, <3>3
              DEF ReadService, CleanService, SuccessRoutes, TrafficStep, ForeignStep, NoService
    <2>2. CASE svc # NoService
      <3>1. UNCHANGED <<svc, slice, caches, target, counters>> /\ job' = [job EXCEPT !.pc = "off"]
        BY <1>2, <2>2 DEF CreateExternalName, Goto, Fail
      <3> QED BY <1>0, <3>1 DEF TypeOK, Job, PCs, ReadService, CleanService, SuccessRoutes,
                               TrafficStep, ForeignStep
    <2> QED BY <2>1, <2>2
  <1>3. ASSUME UpdateExternalName PROVE ManagerInv' /\ TrafficStep /\ ForeignStep
    <2>1. CASE svc = job.svc
      <3>1. /\ svc' = [svc EXCEPT !.to = job.addr] /\ slice' = slice /\ job.pc = "updateExternalName"
            /\ job' = [job EXCEPT !.pc = "ok"] /\ UNCHANGED <<caches, target, counters>>
        BY <1>3, <2>1 DEF UpdateExternalName, Goto
      <3>2. svc \in Service /\ svc.kind = "ExternalName" /\ svc.owned
        BY <2>1, <3>1 DEF TypeOK, ReadService
      <3>3. svc' \in Service /\ svc'.kind = "ExternalName" /\ svc'.to = job.addr
        BY <1>0, <3>1, <3>2 DEF Service
      <3>4. TypeOK'
        BY <1>0, <3>1, <3>3 DEF TypeOK, Job, PCs
      <3>5. Route(svc, slice)' = job.addr /\ job'.pc = "ok" /\ job'.addr = job.addr
        BY <3>1, <3>3, <1>0 DEF Route, TypeOK, Job
      <3> QED BY <3>1, <3>2, <3>4, <3>5
              DEF ReadService, CleanService, SuccessRoutes, TrafficStep, ForeignStep
    <2>2. CASE svc # job.svc
      <3>1. UNCHANGED <<svc, slice, caches, target, counters>> /\ job' = [job EXCEPT !.pc = "off"]
        BY <1>3, <2>2 DEF UpdateExternalName, Goto, Fail
      <3> QED BY <1>0, <3>1 DEF TypeOK, Job, PCs, ReadService, CleanService, SuccessRoutes,
                               TrafficStep, ForeignStep
    <2> QED BY <2>1, <2>2
  <1>4. ASSUME DeleteEndpointSlice PROVE ManagerInv' /\ TrafficStep /\ ForeignStep
    <2>1. /\ svc' = svc /\ UNCHANGED <<caches, target, counters>> /\ job.pc = "deleteEndpointSlice"
          /\ slice' = slice \/ (slice' = NoSlice /\ cslice.owned)
          /\ job' = [job EXCEPT !.pc = "off"] \/ job' = [job EXCEPT !.pc = "deleteClusterIP"]
      BY <1>4 DEF DeleteEndpointSlice, Goto, Fail
    <2>2. TypeOK'
      BY <1>0, <2>1, ObjectsTyped DEF TypeOK, Job, PCs
    <2>3. ReadService' /\ CleanService' /\ SuccessRoutes'
      BY <1>0, <2>1 DEF TypeOK, Job, ReadService, CleanService, SuccessRoutes
    <2>4. Route(svc, slice)' \in {Route(svc, slice), "none"}
      BY <2>1 DEF Route, NoSlice
    <2> QED BY <2>1, <2>2, <2>3, <2>4 DEF TrafficStep, ForeignStep
  <1>5. ASSUME DeleteService PROVE ManagerInv' /\ TrafficStep /\ ForeignStep
    <2>1. /\ slice' = slice /\ UNCHANGED <<caches, target, counters>>
          /\ job.pc \in {"deleteExternalName", "deleteClusterIP"}
          /\ svc' = svc \/ svc' = NoService
          /\ \E pc \in {"off", "createExternalName", "createClusterIP"} : job' = [job EXCEPT !.pc = pc]
      BY <1>5 DEF DeleteService, Goto, Fail
    <2>2. TypeOK'
      BY <1>0, <2>1, ObjectsTyped DEF TypeOK, Job, PCs
    <2>3. ReadService' /\ CleanService' /\ SuccessRoutes'
      BY <1>0, <2>1 DEF TypeOK, Job, ReadService, CleanService, SuccessRoutes
    <2>4. Route(svc, slice)' \in {Route(svc, slice), "none"}
      BY <2>1, RouteFacts DEF Route, NoService
    <2>5. job.svc.owned
      BY <2>1 DEF ReadService
    <2> QED BY <2>1, <2>2, <2>3, <2>4, <2>5 DEF TrafficStep, ForeignStep
  <1>6. ASSUME CreateClusterIP PROVE ManagerInv' /\ TrafficStep /\ ForeignStep
    <2>1. CASE svc = NoService
      <3>1. /\ svc' = ClusterIP /\ slice' = slice /\ job.pc = "createClusterIP"
            /\ job' = [job EXCEPT !.pc = "reconcileEndpointSlice"]
            /\ UNCHANGED <<caches, target, counters>>
        BY <1>6, <2>1 DEF CreateClusterIP, Goto
      <3>2. TypeOK'
        BY <1>0, <3>1, ObjectsTyped DEF TypeOK, Job, PCs
      <3>3. Route(svc, slice)' = slice.to /\ svc'.kind = "ClusterIP"
        BY <3>1, RouteFacts DEF ClusterIP
      <3>4. job'.pc = "reconcileEndpointSlice"
        BY <3>1 DEF TypeOK, Job
      <3> QED BY <2>1, <3>1, <3>2, <3>3, <3>4
              DEF ReadService, CleanService, SuccessRoutes, TrafficStep, ForeignStep, NoService
    <2>2. CASE svc # NoService
      <3>1. UNCHANGED <<svc, slice, caches, target, counters>> /\ job' = [job EXCEPT !.pc = "off"]
        BY <1>6, <2>2 DEF CreateClusterIP, Goto, Fail
      <3> QED BY <1>0, <3>1 DEF TypeOK, Job, PCs, ReadService, CleanService, SuccessRoutes,
                               TrafficStep, ForeignStep
    <2> QED BY <2>1, <2>2
  <1>7. ASSUME UpdateClusterIP PROVE ManagerInv' /\ TrafficStep /\ ForeignStep
    <2>1. CASE svc = job.svc
      <3>1. /\ svc' = [svc EXCEPT !.owned = TRUE] /\ slice' = slice /\ job.pc = "updateClusterIP"
            /\ job' = [job EXCEPT !.pc = "reconcileEndpointSlice"]
            /\ UNCHANGED <<caches, target, counters>>
        BY <1>7, <2>1 DEF UpdateClusterIP, Goto
      <3>2. svc \in Service /\ svc.kind = "ClusterIP" /\ svc.owned
        BY <2>1, <3>1 DEF TypeOK, ReadService
      <3>3. svc' \in Service /\ svc'.kind = "ClusterIP"
        BY <3>1, <3>2 DEF Service
      <3>4. TypeOK'
        BY <1>0, <3>1, <3>3 DEF TypeOK, Job, PCs
      <3>5. Route(svc, slice)' = Route(svc, slice) /\ job'.pc = "reconcileEndpointSlice"
        BY <3>1, <3>2, <3>3 DEF Route, TypeOK, Job
      <3> QED BY <3>1, <3>2, <3>3, <3>4, <3>5
              DEF ReadService, CleanService, SuccessRoutes, TrafficStep, ForeignStep
    <2>2. CASE svc # job.svc
      <3>1. UNCHANGED <<svc, slice, caches, target, counters>> /\ job' = [job EXCEPT !.pc = "off"]
        BY <1>7, <2>2 DEF UpdateClusterIP, Goto, Fail
      <3> QED BY <1>0, <3>1 DEF TypeOK, Job, PCs, ReadService, CleanService, SuccessRoutes,
                               TrafficStep, ForeignStep
    <2> QED BY <2>1, <2>2
  <1>8. ASSUME ReconcileEndpointSlice PROVE ManagerInv' /\ TrafficStep /\ ForeignStep
    <2> DEFINE Accepted == slice = cslice
                           /\ (cslice = NoSlice \/ (cslice.owned /\ SameFamily(slice.to, job.addr)))
    <2>1. CASE Accepted
      <3>1. /\ slice' = Endpoint(job.addr) /\ svc' = svc /\ job.pc = "reconcileEndpointSlice"
            /\ job' = [job EXCEPT !.pc = "ok"] /\ UNCHANGED <<caches, target, counters>>
        BY <1>8, <2>1 DEF ReconcileEndpointSlice, Goto
      <3>2. TypeOK'
        BY <1>0, <3>1, ObjectsTyped DEF TypeOK, Job, PCs
      <3>3. slice'.to = job.addr
        BY <3>1 DEF Endpoint
      <3>4. Route(svc, slice)' \in {Route(svc, slice), job.addr}
        BY <3>1, <3>3 DEF Route
      <3>5. svc.kind = "ClusterIP" => Route(svc, slice)' = job.addr
        BY <3>1, <3>3 DEF Route
      <3>6. job'.pc = "ok" /\ job'.addr = job.addr /\ job'.clean = job.clean
        BY <3>1 DEF TypeOK, Job
      <3>7. SuccessRoutes'
        BY <3>1, <3>5, <3>6 DEF SuccessRoutes, CleanService
      <3> QED BY <2>1, <3>1, <3>2, <3>4, <3>6, <3>7
              DEF ReadService, CleanService, TrafficStep, ForeignStep, NoSlice
    <2>2. CASE ~Accepted
      <3>1. UNCHANGED <<svc, slice, caches, target, counters>> /\ job' = [job EXCEPT !.pc = "off"]
        BY <1>8, <2>2 DEF ReconcileEndpointSlice, Goto, Fail
      <3> QED BY <1>0, <3>1 DEF TypeOK, Job, PCs, ReadService, CleanService, SuccessRoutes,
                               TrafficStep, ForeignStep
    <2> QED BY <2>1, <2>2
  <1>9. ASSUME Done \/ Abort PROVE ManagerInv' /\ TrafficStep /\ ForeignStep
    <2>1. UNCHANGED <<svc, slice, caches, target>> /\ job' = [job EXCEPT !.pc = "off"]
      BY <1>9 DEF Done, Abort, Goto, Fail
    <2>2. faults' \in 0..MaxFaults /\ UNCHANGED <<retargets, meddling>>
      BY <1>9, ManagerBoundAssumption DEF Done, Abort, TypeOK
    <2> QED BY <1>0, <2>1, <2>2 DEF TypeOK, Job, PCs, ReadService, CleanService, SuccessRoutes,
                                   TrafficStep, ForeignStep
  <1>10. ASSUME SyncService \/ SyncSlice PROVE ManagerInv' /\ TrafficStep /\ ForeignStep
    BY <1>10 DEF SyncService, SyncSlice, TypeOK, ReadService, CleanService, SuccessRoutes,
                 TrafficStep, ForeignStep
  <1>11. ASSUME Retarget PROVE ManagerInv' /\ TrafficStep /\ ForeignStep
    BY <1>11, ManagerBoundAssumption DEF Retarget, TypeOK, ReadService, CleanService,
                 SuccessRoutes, TrafficStep, ForeignStep
  <1>12. ASSUME Meddle PROVE ManagerInv' /\ TrafficStep /\ ForeignStep
    <2>1. job' = [job EXCEPT !.clean = FALSE] /\ meddling' = meddling + 1 /\ meddling' <= MaxMeddling
          /\ UNCHANGED <<caches, target, retargets, faults>>
      BY <1>12, ManagerBoundAssumption DEF Meddle, TypeOK
    <2>2. svc' \in Service
      <3>1. [kind |-> "ClusterIP", to |-> "none", owned |-> FALSE] \in Service
        BY DEF Service, Kinds
      <3>2. svc' \in {svc, NoService, [kind |-> "ClusterIP", to |-> "none", owned |-> FALSE]}
        BY <1>12 DEF Meddle
      <3> QED BY <3>1, <3>2, ObjectsTyped DEF TypeOK
    <2>3. slice' \in EndpointSlice
      <3>1. \A a \in Address : [to |-> a, owned |-> FALSE] \in EndpointSlice
        BY DEF EndpointSlice
      <3>2. slice' \in {slice, NoSlice} \cup {[to |-> a, owned |-> FALSE] : a \in Address}
        BY <1>12 DEF Meddle
      <3> QED BY <3>1, <3>2, ObjectsTyped DEF TypeOK
    <2>4. TypeOK'
      <3>1. job' \in Job
        BY <1>0, <2>1 DEF TypeOK, Job
      <3>2. meddling' \in 0..MaxMeddling
        BY <2>1, ManagerBoundAssumption DEF TypeOK
      <3> QED BY <2>1, <2>2, <2>3, <3>1, <3>2 DEF TypeOK
    <2>5. ReadService' /\ CleanService' /\ SuccessRoutes'
      BY <1>0, <2>1 DEF TypeOK, Job, ReadService, CleanService, SuccessRoutes
    <2>6. meddling' # meddling
      BY <2>1 DEF TypeOK
    <2> QED BY <2>4, <2>5, <2>6 DEF TrafficStep, ForeignStep
  <1>13. ASSUME UNCHANGED vars PROVE ManagerInv' /\ TrafficStep /\ ForeignStep
    BY <1>13 DEF vars, TypeOK, ReadService, CleanService, SuccessRoutes, TrafficStep, ForeignStep
  <1> QED BY <1>1, <1>2, <1>3, <1>4, <1>5, <1>6, <1>7, <1>8, <1>9, <1>10, <1>11, <1>12, <1>13
          DEF Next, ManagerStep

LEMMA ManagerInductive == Spec => []ManagerInv
  <1>1. ManagerInv /\ [Next]_vars => ManagerInv'
    BY ManagerStepInv
  <1> QED BY <1>1, ManagerInit, PTL DEF Spec

\* Service, EndpointSlice and the reconcile in flight keep their types.
THEOREM ServiceTypeCorrect == Spec => []TypeOK
  <1>1. ManagerInv => TypeOK
    BY DEF ManagerInv
  <1> QED BY <1>1, ManagerInductive, PTL

\* A reconcile that was not disturbed reports success only with traffic at the
\* address it was called with.
THEOREM SuccessCorrect == Spec => []SuccessRoutes
  <1>1. ManagerInv => SuccessRoutes
    BY DEF ManagerInv
  <1> QED BY <1>1, ManagerInductive, PTL

\* The manager moves traffic to the address it was called with or stops it; only an
\* EndpointSlice left over by an earlier switch can send it elsewhere.
THEOREM TrafficCorrect == Spec => TrafficSteps
  <1>1. ManagerInv /\ [Next]_vars
          => [meddling' = meddling /\ Route(svc, slice)' # Route(svc, slice)
                => \/ Route(svc, slice)' \in {"none", job.addr}
                   \/ job.pc = "createClusterIP" /\ Route(svc, slice)' = slice.to]_vars
    BY ManagerStepInv DEF TrafficStep
  <1>2. ManagerInv /\ [Next]_vars => ManagerInv'
    BY ManagerStepInv
  <1> QED BY <1>1, <1>2, ManagerInit, PTL DEF Spec, TrafficSteps

\* Objects the FailoverService does not own are not modified, and not deleted
\* either unless the cache still shows what was there before them.
THEOREM ForeignCorrect == Spec => ForeignUntouched
  <1>1. ManagerInv /\ [Next]_vars
          => [/\ svc.kind # "none" /\ ~svc.owned /\ svc' # svc /\ meddling' = meddling
                   => svc' = NoService /\ job.svc # svc
              /\ slice.to # "none" /\ ~slice.owned /\ slice' # slice /\ meddling' = meddling
                   => slice' = NoSlice /\ cslice # slice]_vars
    BY ManagerStepInv DEF ForeignStep
  <1>2. ManagerInv /\ [Next]_vars => ManagerInv'
    BY ManagerStepInv
  <1> QED BY <1>1, <1>2, ManagerInit, PTL DEF Spec, ForeignUntouched
=============================================================================
