----------------------------- MODULE ClockSync -----------------------------
(***************************************************************************)
(* ClockSyncSystem (src/systems/clock_sync_system.cpp) in one robot: it    *)
(* draws World's clock offset towards the times stamped on the neighbours' *)
(* beacons, and TransmitActionHandler stamps messages with the outcome.    *)
(* Nothing is assumed of the neighbours: they may run the same system, be  *)
(* dragged along by this robot, or send anything.                          *)
(*                                                                         *)
(* No descriptor declares the offset, so in Parallel mode its writer and   *)
(* its reader run in either order; the offset is a float, which the reader *)
(* sees before or after the write.                                         *)
(*                                                                         *)
(* Time is counted in ticks.  Times are told relative to elapsed_time_s,   *)
(* so synced_time_s() is the offset, a clock that runs on at its rate      *)
(* stands still, and a stamp, which does not, falls by one with each tick. *)
(***************************************************************************)
EXTENDS Integers, FiniteSets, FiniteSetsExt

CONSTANTS Sender,               \* the robots whose beacons may come in
          max_step_s,           \* Params::max_step_s, zero: no limit
          neighbour_timeout_s,
          MaxSkew               \* bound: how far stamps are off this robot's own time

Skew == (-MaxSkew)..MaxSkew

ASSUME ClockSyncAssumption ==
  IsFiniteSet(Sender) /\ {max_step_s, neighbour_timeout_s, MaxSkew} \subseteq Nat

VARIABLES concurrent,   \* SchedulerMode::Parallel
          unrun,        \* the systems that have yet to run in this tick
          stamps,       \* sync_time_s and age of each NeighbourTable entry
          offset,       \* clock_offset_s_
          stamped,      \* the time on the last tick's or this tick's message
          known         \* history: the clocks this robot began with or heard of

syncVars == <<concurrent, unrun, stamps, offset, stamped, known>>

(* What describe() returns.  The offset is not among it.                   *)
BeaconHazards ==
  [name |-> 1,
   reads_components |-> {"Identity", "Position", "Velocity", "Health", "Role", "BehaviourState"},
   writes_components |-> {"CommBuffer"},
   reads_resources |-> {"TransportRx"}, writes_resources |-> {"NeighbourTable", "TransportTx"}]
ClockSyncHazards ==
  [name |-> 2, reads_components |-> {}, writes_components |-> {},
   reads_resources |-> {"NeighbourTable"}, writes_resources |-> {}]
TransmitHazards ==
  [name |-> 3, reads_components |-> {"ActionQueue"}, writes_components |-> {},
   reads_resources |-> {}, writes_resources |-> {"TransportTx"}]

Hazards == [BeaconSystem |-> BeaconHazards, ClockSyncSystem |-> ClockSyncHazards,
            TransmitActionHandler |-> TransmitHazards]

Order == INSTANCE HazardGraph WITH Desc <- Hazards

NoStamp == [sync_time |-> 0, age |-> -1]
Listed  == {p \in Sender : stamps[p] # NoStamp}

SyncInit ==
  /\ concurrent \in BOOLEAN
  /\ unrun = {}
  /\ stamps = [p \in Sender |-> NoStamp]
  /\ offset \in Skew            \* as set_clock_offset_s has left it
  /\ stamped = {}
  /\ known = {offset}
-----------------------------------------------------------------------------
begin_tick ==
  /\ unrun = {}
  /\ unrun' = DOMAIN Hazards
  /\ UNCHANGED <<concurrent, stamps, offset, stamped, known>>

\* In the order of the names, or as the hazard graph has it.
Scheduled(s) ==
  /\ s \in unrun
  /\ IF concurrent THEN Order!Preds(unrun, s) = {} ELSE Order!IsFirst(unrun, s)
  /\ unrun' = unrun \ {s}

\* An entry that no beacon renews.
faded(e) ==
  IF e = NoStamp \/ e.age = neighbour_timeout_s THEN NoStamp
  ELSE [sync_time |-> e.sync_time - 1, age |-> e.age + 1]

\* BeaconSystem: the beacons of some neighbours come in, with any stamps.
hear_beacons ==
  /\ Scheduled("BeaconSystem")
  /\ \E heard \in SUBSET Sender : \E said \in [heard -> Skew] :
       /\ stamps' = [p \in Sender |-> IF p \in heard THEN [sync_time |-> said[p], age |-> 0]
                                      ELSE faded(stamps[p])]
       /\ known' = known \cup {said[p] : p \in heard}
  /\ UNCHANGED <<concurrent, offset, stamped>>

\* Mutant: the clamp is left out.
limit_none == 2 * MaxSkew + neighbour_timeout_s

\* The clamp to max_step_s; no gap is wider than what stands for no limit.
limit == IF max_step_s > 0 THEN max_step_s ELSE 2 * MaxSkew + neighbour_timeout_s

\* Mutant: the gaps are summed and not averaged.
steps_summed(gaps, n) ==
  {s \in (-limit)..limit : IF gaps >= 0 THEN 0 <= s /\ s <= gaps ELSE gaps <= s /\ s <= 0}

(* adjustment_rate is any fraction up to one: the step is towards the mean *)
(* of the n gaps and no larger than it, nor than the clamp.                *)
steps(gaps, n) ==
  {s \in (-limit)..limit :
     IF gaps >= 0 THEN 0 <= s /\ s * n <= gaps ELSE gaps <= s * n /\ s <= 0}

ClockSyncSystem ==
  /\ Scheduled("ClockSyncSystem")
  /\ LET gaps == SumFunction([p \in Listed |-> stamps[p].sync_time - offset])
     IN  IF Listed = {} THEN UNCHANGED offset
         ELSE \E s \in steps(gaps, Cardinality(Listed)) : offset' = offset + s
  /\ UNCHANGED <<concurrent, stamps, stamped, known>>

\* A message, if there is one to send in this tick, has the time as it is.
TransmitActionHandler ==
  /\ Scheduled("TransmitActionHandler")
  /\ stamped' \in {{}, {offset}}
  /\ UNCHANGED <<concurrent, stamps, offset, known>>

SyncNext == begin_tick \/ hear_beacons \/ ClockSyncSystem \/ TransmitActionHandler

SyncSpec == SyncInit /\ [][SyncNext]_syncVars
-----------------------------------------------------------------------------
SyncTypeOK ==
  /\ concurrent \in BOOLEAN /\ unrun \subseteq DOMAIN Hazards
  /\ stamps \in [Sender -> {NoStamp} \cup [sync_time : Int, age : 0..neighbour_timeout_s]]
  /\ offset \in Int /\ stamped \in SUBSET Int /\ known \subseteq Skew

(* However many stamps come in, how stale they are, and in whatever order  *)
(* they are replaced and forgotten, synchronisation makes this robot's     *)
(* time neither later than the fastest clock it began with or heard of,    *)
(* nor earlier than the slowest by more than the age a table entry may     *)
(* reach.  It holds for each robot of a swarm in which all synchronise:    *)
(* none gets ahead of the fastest clock there was, whereas the slowest     *)
(* may fall back further with each round, since stamps are old.            *)
StaysAmong ==
  /\ \E t \in known : offset <= t
  /\ \E t \in known : offset >= t - neighbour_timeout_s

(* Messages of two successive ticks carry times that are one tick apart up *)
(* to max_step_s when the systems run in the order of their names; in      *)
(* Parallel mode, where the handler may come before the adjustment in one  *)
(* tick and after it in the next, up to twice that and no more.            *)
StampsSteady ==
  [][max_step_s > 0 =>
       \A t \in stamped, u \in stamped' :
         LET most == IF concurrent THEN 2 * max_step_s ELSE max_step_s
         IN  u - t <= most /\ t - u <= most]_syncVars
=============================================================================
