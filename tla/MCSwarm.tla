------------------------------ MODULE MCSwarm ------------------------------
(* Two robots and two places out of each other's range, in cells that are  *)
(* not adjacent: a robot can come into range of the other within a step,   *)
(* and is then not found through the grid of the step's beginning.         *)
EXTENDS Swarm
=============================================================================
