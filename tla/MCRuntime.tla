----------------------------- MODULE MCRuntime -----------------------------
\* The scheduler with its driver, and the reactor, for TLC, one of them in
\* each behaviour.
EXTENDS Scheduler, Reactor

VARIABLE side

mcVars == <<vars, reactorVars, side>>

\* Three plain tasks; and two, with runs inside polls and with drivers.
SomeWorlds ==
  {[tasks |-> 3, queue |-> 3, depth |-> 1, calls |-> 0],
   [tasks |-> 2, queue |-> 2, depth |-> 2, calls |-> 2]}

MCInit ==
  /\ Init /\ ReactorInit
  /\ side \in {"scheduler", "reactor"}
  /\ side = "reactor" => world.depth = 1

MCNext ==
  \/ side = "scheduler" /\ Next /\ UNCHANGED <<reactorVars, side>>
  \/ side = "reactor" /\ ReactorNext /\ UNCHANGED <<vars, side>>

MCSpec == MCInit /\ [][MCNext]_mcVars /\ Fairness /\ ReactorFairness
=============================================================================
