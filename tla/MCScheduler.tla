---------------------------- MODULE MCScheduler ----------------------------
(* Two small instances of Scheduler for TLC.  Chain: hazards a -> b -> c,  *)
(* through a component and through a resource, and d, which has b's name.  *)
(* Diamond: a before b and c, which may overlap, and both before d.        *)
EXTENDS Scheduler, TLC

CONSTANTS a, b, c, d

D(n, rc, wc, rr, wr) ==
  [name |-> n, reads_components |-> rc, writes_components |-> wc,
   reads_resources |-> rr, writes_resources |-> wr]

ChainDesc == (a :> D(1, {}, {"Position"}, {}, {})) @@
             (b :> D(2, {"Position"}, {}, {}, {"ActionQueue"})) @@
             (c :> D(3, {}, {}, {"ActionQueue"}, {})) @@
             (d :> D(2, {}, {}, {"NeighbourTable"}, {}))

DiamondDesc == (a :> D(1, {}, {"Position"}, {}, {})) @@
               (b :> D(2, {"Position"}, {}, {}, {"ActionQueue"})) @@
               (c :> D(3, {"Position"}, {"HealthStatus"}, {}, {})) @@
               (d :> D(4, {"HealthStatus"}, {}, {"ActionQueue"}, {}))
=============================================================================
