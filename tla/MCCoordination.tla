--------------------------- MODULE MCCoordination ---------------------------
(* Coordination and ClockSync for TLC.  There are three peers and three    *)
(* roles, of which the last is not tracked.  Two thirds of the swarm are   *)
(* wanted in either tracked role; the threshold of the first is one robot, *)
(* that of the second less.  The merge window and the clock share no       *)
(* state, so one is run while the other rests.                             *)
EXTENDS Coordination, ClockSync

Ratios == [r \in 0..1 |-> 2]
Thresholds == [r \in 0..1 |-> IF r = 0 THEN 3 ELSE 1]

VARIABLE subject   \* the one that is run

bothVars == <<vars, syncVars, subject>>

BothInit ==
  /\ subject \in {"roles", "clock"}
  /\ Init /\ (subject = "clock" => ~parallel)
  /\ SyncInit /\ (subject = "roles" => ~concurrent /\ offset = 0)

RunRoles == subject = "roles" /\ Next /\ UNCHANGED <<syncVars, subject>>
RunClock == subject = "clock" /\ SyncNext /\ UNCHANGED <<vars, subject>>

BothNext == RunRoles \/ RunClock

(* The fairness of Spec, as long as the roles are run.                     *)
BothSpec == BothInit /\ [][BothNext]_bothVars /\ WF_bothVars(RunRoles)
===========================================================================
