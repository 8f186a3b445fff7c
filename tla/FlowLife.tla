-------------------------------- MODULE FlowLife --------------------------------
(* What the control device promises of a flow entry: the states it goes through,   *)
(* one at a time and in one direction, whatever runs concurrently.                  *)
CONSTANT Entry
VARIABLES
    life,   \* of each entry
    shut    \* entries on which rl_flow_shutdown() has set EOF

lifeVars == <<life, shut>>

\* Where an entry may go next.  A flow that was in use lingers before it is removed,
\* unless the other end has shut it down.
Successors(e) ==
    CASE life[e] = "free" -> {"pending"}
      [] life[e] = "pending" -> {"allocated", "refused", "removed"}
      [] life[e] = "allocated" -> {"bound", "removed"}
      [] life[e] = "refused" -> {"removed"}
      [] life[e] = "bound" -> {"closing"} \cup (IF e \in shut THEN {"removed"} ELSE {})
      [] life[e] = "closing" -> {"removed"}
      [] life[e] = "removed" -> {"free"}

\* An entry goes on; when it is freed nothing is left of it.
Move(e) ==
    \E s \in Successors(e) :
        /\ life' = [life EXCEPT ![e] = s]
        /\ shut' = IF s = "free" THEN shut \ {e} ELSE shut

\* A flow that was allocated is shut down.
Shut(e) ==
    /\ life[e] \in {"allocated", "bound", "closing"}
    /\ shut' = shut \cup {e} /\ UNCHANGED life

LifeInit == life = [e \in Entry |-> "free"] /\ shut = {}
LifeNext == \E e \in Entry : Move(e) \/ Shut(e)
LifeSpec == LifeInit /\ [][LifeNext]_lifeVars
================================================================================
