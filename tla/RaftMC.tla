--------------------------------- MODULE RaftMC ---------------------------------
(* Instances of Raft for TLC.  The replicas are interchangeable, and so are the   *)
(* client commands.                                                               *)
EXTENDS Raft, TLC

Symmetry == Permutations(Replica) \cup Permutations(Command)
================================================================================
