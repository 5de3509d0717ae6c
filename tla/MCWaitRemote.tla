---------------------------- MODULE MCWaitRemote ----------------------------
\* Two clusters and the ways their hooks may wait for each other.
EXTENDS WaitRemote, TLC

CONSTANTS c1, c2

Plain(n, ign) == [name |-> n, wait |-> "nothing", for |-> "", ignore |-> ign]
WaitPhase(p, ign) == [name |-> "w", wait |-> "phase", for |-> p, ignore |-> ign]
WaitAction(n, ign) == [name |-> "w", wait |-> "action", for |-> n, ignore |-> ign]
Hooks(p, q) == ("pre" :> p @@ "post" :> q)
Pair(h, g) == (c1 :> h @@ c2 :> g)

\* Each waits for the other; or one waits for an action of the other that may
\* fail.
MCHookSets ==
    {Pair(Hooks(WaitPhase("UpdatingResources", FALSE), NoAction),
          Hooks(WaitPhase("Idle", TRUE), NoAction)),
     Pair(Hooks(WaitAction("drain", FALSE), NoAction),
          Hooks(NoAction, Plain("drain", FALSE)))}

\* One waits for the other to be done, whose action may fail.
IdleHookSets ==
    {Pair(Hooks(WaitPhase("Idle", FALSE), NoAction), Hooks(Plain("drain", FALSE), NoAction))}
=============================================================================
