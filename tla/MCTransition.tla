--------------------------- MODULE MCTransition ---------------------------
(* Instances of FailoverTransition for TLC. *)
EXTENDS FailoverTransition

Act(kind, ignore) == [kind |-> kind, ignoreFailure |-> ignore]
Http  == Act("http", FALSE)
HttpI == Act("http", TRUE)
Job   == Act("job", FALSE)
Scale == Act("scaleAndWait", TRUE)
Wait  == Act("waitRemote", FALSE)

Both(hooks) == [d \in Direction |-> hooks]

\* Service targets by name; which of them are IP addresses is up to the run.
MCAddress   == {"blue", "green", "amber"}
MCIPAddress == {"blue"}
NoIP        == {}
Addrs    == [d \in Direction |-> IF d = "failback" THEN "blue" ELSE "green"]
Addrs2   == [d \in Direction |-> IF d = "failback" THEN "amber" ELSE "green"]
OneAddr  == {Addrs}
TwoAddrs == {Addrs, Addrs2}

\* actions: before the switch, an ignorable call and then a Job; a Job on the way back
CallThenJob   == [pre |-> <<HttpI, Job>>, post |-> <<>>]
JobOnly       == [pre |-> <<Job>>, post |-> <<>>]
HooksCallJob  == {CallThenJob, JobOnly}
InitCallJob   == [d \in Direction |-> IF d = "failover" THEN CallThenJob ELSE JobOnly]

\* flush: a wait for the other cluster after the switch
WaitPost   == [pre |-> <<>>, post |-> <<Wait>>]
HooksWait  == {WaitPost}
InitWait   == Both(WaitPost)

\* remote: a call before the switch to failover, none before the switch back;
\* the operator takes the call away, adds one, or puts an action in front
PreNone    == [pre |-> <<>>, post |-> <<>>]
PreHttp    == [pre |-> <<Http>>, post |-> <<>>]
PreScale   == [pre |-> <<Scale, Http>>, post |-> <<>>]
HooksEdit  == {PreNone, PreHttp, PreScale}
InitPre    == [d \in Direction |-> IF d = "failover" THEN PreHttp ELSE PreNone]

\* job_name: a Job on either side of the switch
JobPair    == [pre |-> <<Job>>, post |-> <<Job>>]
HooksPair  == {JobPair}
InitPair   == Both(JobPair)
=============================================================================
