---------------------------- MODULE Coordination ----------------------------
(***************************************************************************)
(* The systems by which a robot adjusts its role to its neighbours:        *)
(* PartitionMergeSystem and TaskAllocSystem (src/systems/), with           *)
(* World::tick, which lets the merge window run down.  One robot is        *)
(* modelled, in a swarm whose beacons come, change and cease at will.      *)
(*                                                                         *)
(* The merge window is a member of World that no system descriptor         *)
(* declares, so no edge of the hazard graph orders the one who writes it   *)
(* and the one who reads it: in Parallel mode they run in either order     *)
(* once BeaconSystem, which writes the neighbour table, is over.           *)
(*                                                                         *)
(* Time is counted in ticks.                                               *)
(***************************************************************************)
EXTENDS Integers, FiniteSets, FiniteSetsExt

CONSTANTS Peer,
          MaxTracked,        \* MAX_TRACKED_ROLES: roles 0..MaxTracked-1 are counted
          desired_ratios,    \* for each tracked role, in Whole-ths of the swarm
          Whole,
          thresholds,        \* theta of each tracked role, in Whole-ths
          stimulus_gain,
          stability_window,  \* in ticks
          heal_threshold,    \* partition_heal_threshold
          merge_window,      \* in ticks
          NeighbourTimeout   \* in ticks

Tracked == 0..(MaxTracked - 1)
Role == 0..MaxTracked        \* the last stands for every role that is not tracked

ASSUME CoordinationAssumption ==
  /\ IsFiniteSet(Peer) /\ MaxTracked \in Nat \ {0} /\ Whole \in Nat \ {0}
  /\ desired_ratios \in [Tracked -> 0..Whole] /\ thresholds \in [Tracked -> Nat]
  /\ {stimulus_gain, stability_window, heal_threshold, NeighbourTimeout} \subseteq Nat
  /\ merge_window \in Nat /\ merge_window >= 2   \* see WindowFelt

VARIABLES
  parallel,         \* SchedulerMode::Parallel
  todo,             \* the systems that have yet to run in this tick
  table,            \* NeighbourTable
  window,           \* merge_window_remaining_s_
  last_peer_count,  \* of PartitionMergeSystem
  role,             \* RoleComponent
  since_switch,     \* time_since_last_switch_s_, up to the stability window
  felt              \* TaskAllocSystem has run inside the window that is open

vars == <<parallel, todo, table, window, last_peer_count, role, since_switch, felt>>

(* What the systems declare, by name.  The merge window is not among it.   *)
D(n, rc, wc, rr, wr) ==
  [name |-> n, reads_components |-> rc, writes_components |-> wc,
   reads_resources |-> rr, writes_resources |-> wr]

BeaconDesc ==
  D(1, {"Identity", "Position", "Velocity", "Health", "Role", "BehaviourState"},
    {"CommBuffer"}, {"TransportRx"}, {"NeighbourTable", "TransportTx"})
PartitionMergeDesc == D(2, {}, {}, {"NeighbourTable"}, {})
TaskAllocDesc      == D(3, {"Role", "BehaviourState"}, {"Role"}, {"NeighbourTable"}, {})

describe ==
  [BeaconSystem |-> BeaconDesc, PartitionMergeSystem |-> PartitionMergeDesc,
   TaskAllocSystem |-> TaskAllocDesc]

System == DOMAIN describe

Graph == INSTANCE HazardGraph WITH Desc <- describe

Entry == [role : Role, age : 0..NeighbourTimeout]
None == [role |-> 0, age |-> -1]
Neighbours == {p \in Peer : table[p] # None}

Init ==
  /\ parallel \in BOOLEAN
  /\ todo = {}
  /\ table = [p \in Peer |-> None]
  /\ window = 0 /\ last_peer_count = 0
  /\ role = 0 /\ since_switch = 0
  /\ felt = TRUE
-----------------------------------------------------------------------------
is_merging == window > 0

\* What BeaconSystem makes of an entry when no beacon renews it.
aged(e) ==
  IF e = None \/ e.age = NeighbourTimeout THEN None
  ELSE [e EXCEPT !.age = @ + 1]

\* Mutant: the window is closed by the tick that follows.
decayed_at_once == 0

decayed == IF window > 0 THEN window - 1 ELSE 0

\* World::tick, up to the systems: the window runs down.
tick ==
  /\ todo = {}
  /\ todo' = System
  /\ window' = decayed
  /\ UNCHANGED <<parallel, table, last_peer_count, role, since_switch, felt>>

\* The scheduler: in the order of the names, or as the hazard graph has it.
Runs(s) ==
  /\ s \in todo
  /\ IF parallel THEN Graph!Preds(todo, s) = {} ELSE Graph!IsFirst(todo, s)
  /\ todo' = todo \ {s}

\* The beacons of the peers in heard come in, each with some role.
BeaconSystem ==
  /\ Runs("BeaconSystem")
  /\ \E heard \in SUBSET Peer :
       \E said \in [heard -> Role] :
         table' = [p \in Peer |-> IF p \in heard THEN [role |-> said[p], age |-> 0]
                                  ELSE aged(table[p])]
  /\ UNCHANGED <<parallel, window, last_peer_count, role, since_switch, felt>>

heals ==
  /\ Cardinality(Neighbours) > last_peer_count
  /\ Cardinality(Neighbours) - last_peer_count >= heal_threshold

\* Mutant: the count is left as it was when a heal is found.
PartitionMergeSystem_keeps_count ==
  /\ Runs("PartitionMergeSystem")
  /\ IF heals THEN window' = merge_window /\ felt' = FALSE /\ UNCHANGED last_peer_count
     ELSE last_peer_count' = Cardinality(Neighbours) /\ UNCHANGED <<window, felt>>
  /\ UNCHANGED <<parallel, table, role, since_switch>>

PartitionMergeSystem ==
  /\ Runs("PartitionMergeSystem")
  /\ IF heals THEN window' = merge_window /\ felt' = FALSE ELSE UNCHANGED <<window, felt>>
  /\ last_peer_count' = Cardinality(Neighbours)
  /\ UNCHANGED <<parallel, table, role, since_switch>>

(* TaskAllocSystem *)
counted == [r \in Tracked |->
  Cardinality({p \in Neighbours : table[p].role = r}) + (IF role = r THEN 1 ELSE 0)]
total == 1 + Cardinality(Neighbours)
desired(r) == desired_ratios[r] * total                  \* in Whole-ths of a robot
deficit(r) == desired(r) - counted[r] * Whole

margin(r) == deficit(r) * stimulus_gain - thresholds[r]

\* Mutant: a role below its threshold is not passed over.
candidates_any == {r \in Tracked : desired_ratios[r] > 0 /\ deficit(r) > 0}

candidates == {r \in Tracked : desired_ratios[r] > 0 /\ deficit(r) > 0 /\ margin(r) > 0}
best_role == CHOOSE r \in candidates :                   \* the first of the largest
  \A q \in candidates : margin(q) < margin(r) \/ (margin(q) = margin(r) /\ r <= q)

since == IF since_switch < stability_window THEN since_switch + 1 ELSE since_switch
effective_stability == IF is_merging THEN 0 ELSE stability_window

TaskAllocSystem ==
  /\ Runs("TaskAllocSystem")
  /\ IF candidates # {} /\ best_role # role /\ since >= effective_stability
     THEN role' = best_role /\ since_switch' = 0
     ELSE since_switch' = since /\ UNCHANGED role
  /\ felt' = (felt \/ is_merging)
  /\ UNCHANGED <<parallel, table, window, last_peer_count>>

Next == tick \/ BeaconSystem \/ PartitionMergeSystem \/ TaskAllocSystem

Spec == Init /\ [][Next]_vars /\ WF_vars(Next)
-----------------------------------------------------------------------------
TypeOK ==
  /\ parallel \in BOOLEAN /\ todo \subseteq System
  /\ table \in [Peer -> Entry \cup {None}]
  /\ window \in 0..merge_window /\ last_peer_count \in 0..Cardinality(Peer)
  /\ role \in Role /\ since_switch \in 0..stability_window /\ felt \in BOOLEAN

(* A heal is acted upon: no merge window opened by PartitionMergeSystem    *)
(* has run out before TaskAllocSystem has run with is_merging() true,      *)
(* though the two may run in either order and World::tick takes a tick off *)
(* the window in between.  A window of one tick would not do in Parallel   *)
(* mode, which is why merge_window is assumed to be longer.                *)
WindowFelt == ~is_merging => felt

(* "ultimately exits when no further heals fire"                           *)
(* (partition_merge_system.cpp): once robots cease to join the             *)
(* neighbourhood, the merge window closes for good, whatever the peers     *)
(* have done before.                                                       *)
MergeCloses ==
  <>[][\A p \in Peer : table'[p] # None => table[p] # None]_vars => <>[]~is_merging

(* A role whose threshold is at least the gain, as by default, is taken    *)
(* only while it lacks more than one robot: by its own switch a robot      *)
(* never brings it, as far as it knows the swarm, above the desired share, *)
(* in or out of a merge window.                                            *)
NoOverfill ==
  [][\A r \in Tracked :
       role' = r /\ role # r /\ thresholds[r] >= stimulus_gain * Whole
         => counted'[r] * Whole <= desired(r)]_vars
=============================================================================
