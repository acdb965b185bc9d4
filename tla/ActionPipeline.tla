-------------------------- MODULE ActionPipeline --------------------------
(***************************************************************************)
(* The action pipeline of one robot: ActionValidatorSystem, the built-in   *)
(* action handlers and FaultMonitorSystem (src/behaviour, src/systems), as *)
(* the scheduler orders them within a tick.                                *)
(*                                                                         *)
(* Two systems in conflict run in the order of HazardGraph (Scheduler:     *)
(* LexOrder, ExactlyOnce); the others touch disjoint state, so a system's  *)
(* tick is one step.  The application sets the permission mask and repairs *)
(* health between ticks.  It pushes actions then too, or from systems of   *)
(* its own, which conflict with the validator and the handlers and come    *)
(* before, between or after them, as they are named.  Faults are reported  *)
(* at any time.                                                            *)
(*                                                                         *)
(* An action is named by its place in `log', the accepted ones in order.   *)
(***************************************************************************)
EXTENDS Naturals, Sequences, FiniteSets, SequencesExt, Filter

CONSTANTS
  Type,         \* the action types pushed
  Masks,        \* the permission masks an application sets
  CAPACITY,     \* of the action queue and of the validated buffer
  MaxHealth, degraded_threshold, degraded_hysteresis, decrement_per_fault,
  MaxActions,   \* bound: actions pushed
  MaxFaults     \* bound: faults reported

Builtins == {"IDLE", "MOVE", "HOVER", "TRANSMIT", "SCAN", "REGROUP", "FOLLOW"}
Mask     == [allowed_builtins : SUBSET Builtins, allow_user_actions : BOOLEAN]

ASSUME PipelineAssumption ==
  /\ Type \subseteq Builtins \cup {"reserved", "CUSTOM"} /\ Masks \subseteq Mask
  /\ {CAPACITY, MaxActions, MaxFaults} \subseteq Nat
  /\ {MaxHealth, degraded_threshold, degraded_hysteresis, decrement_per_fault}
       \subseteq Nat

VARIABLES
  messages,          \* the transport given at construction carries messages
  pending,           \* the systems that have still to run in this tick
  queue,             \* ActionQueueComponent::queue
  validated,         \* ActionQueueComponent::validated[0..validated_count)
  permission_rejections_total,
  mask,              \* PermissionMaskComponent
  health,            \* HealthComponent::value
  state,             \* BehaviourStateComponent
  in_degraded_state, saved_mask, last_fault_count,  \* FaultMonitorSystem
  fault_count,       \* World::fault_count_
  velocity,          \* the MOVE whose parameters VelocityComponent holds
  sent,              \* the TRANSMITs handed to the transport
  log,               \* history: types of the actions accepted by push
  handled,           \* history: handlings of each
  rejected,          \* history: the actions rejected
  configured,        \* history: the mask the application last set
  repaired,          \* history: health as last set, and the faults charged before
  began_degraded     \* history: in_degraded_state when this tick began

queueVars   == <<queue, validated, permission_rejections_total, rejected>>
monitorVars == <<mask, health, state, in_degraded_state, saved_mask, last_fault_count>>
outVars     == <<velocity, sent, handled>>
setVars     == <<configured, repaired>>
vars == <<messages, pending, queueVars, monitorVars, fault_count, outVars, log,
          setVars, began_degraded>>
-----------------------------------------------------------------------------
(* The five systems, by name.                                              *)

D(n, rc, wc, wr) == [name |-> n, reads_components |-> rc, writes_components |-> wc,
                     reads_resources |-> {}, writes_resources |-> wr]

ValidatorDesc == D(1, {"PermissionMask"}, {"ActionQueue"}, {})
MonitorDesc   == D(2, {"Health"}, {"Health", "PermissionMask", "BehaviourState"}, {})
HoverDesc     == D(3, {"ActionQueue"}, {}, {})
MoveDesc      == D(4, {"ActionQueue"}, {"Velocity"}, {})
TransmitDesc  == D(5, {"ActionQueue"}, {}, {"TransportTx"})

describe == [Validator |-> ValidatorDesc, Monitor |-> MonitorDesc, Hover |-> HoverDesc,
             Move |-> MoveDesc, Transmit |-> TransmitDesc]

System == DOMAIN describe

Graph == INSTANCE HazardGraph WITH Desc <- describe

\* s is dispatched: its predecessors in the hazard graph have run.
Dispatched(s) == s \in pending /\ Graph!Preds(pending, s) = {}
Ran(s)        == pending' = pending \ {s}
Idle          == pending = {}

allows(m, t) ==
  IF t = "CUSTOM" THEN m.allow_user_actions
  ELSE t # "reserved" /\ t \in m.allowed_builtins

\* Mutant: the wrong bit.
Restricted_move == [allowed_builtins |-> {"IDLE", "MOVE"}, allow_user_actions |-> FALSE]

Restricted == [allowed_builtins |-> {"IDLE", "REGROUP"}, allow_user_actions |-> FALSE]
Permissive == [allowed_builtins |-> Builtins, allow_user_actions |-> TRUE]
-----------------------------------------------------------------------------
Init ==
  /\ messages \in BOOLEAN /\ pending = {}
  /\ queue = <<>> /\ validated = <<>> /\ permission_rejections_total = 0
  /\ mask = Permissive /\ health = MaxHealth /\ state = "NORMAL"
  /\ in_degraded_state = FALSE /\ saved_mask = Permissive
  /\ last_fault_count = 0 /\ fault_count = 0
  /\ velocity = 0 /\ sent = <<>>
  /\ log = <<>> /\ handled = [i \in 1..MaxActions |-> 0] /\ rejected = {}
  /\ configured = Permissive /\ began_degraded = FALSE
  /\ repaired = [health |-> MaxHealth, charged |-> 0]

\* ActionQueueComponent::queue.push by the application.  A full queue refuses
\* (DropNewest; BoundedQueue) and nothing but its counters changes.
push(t) ==
  /\ Len(log) < MaxActions /\ Len(queue) < CAPACITY
  /\ log' = Append(log, t) /\ queue' = Append(queue, Len(log) + 1)
  /\ UNCHANGED <<messages, pending, validated, permission_rejections_total,
                 rejected, monitorVars, fault_count, outVars, setVars,
                 began_degraded>>

\* The application sets the mask; in degraded mode it is the monitor's.
set_mask(m) ==
  /\ Idle /\ ~in_degraded_state
  /\ mask' = m /\ configured' = m
  /\ UNCHANGED <<messages, pending, queueVars, health, state, in_degraded_state,
                 saved_mask, last_fault_count, fault_count, outVars, log,
                 repaired, began_degraded>>

\* The application restores health (a repair, a recharge).
set_health(h) ==
  /\ Idle /\ health' = h
  /\ repaired' = [health |-> h, charged |-> last_fault_count]
  /\ UNCHANGED <<messages, pending, queueVars, mask, state, in_degraded_state,
                 saved_mask, last_fault_count, fault_count, outVars, log,
                 configured, began_degraded>>

\* World::report_fault, from any thread.
report_fault ==
  /\ fault_count < MaxFaults /\ fault_count' = fault_count + 1
  /\ UNCHANGED <<messages, pending, queueVars, monitorVars, outVars, log,
                 setVars, began_degraded>>

tick ==
  /\ Idle /\ pending' = System /\ began_degraded' = in_degraded_state
  /\ UNCHANGED <<messages, queueVars, monitorVars, fault_count, outVars, log,
                 setVars>>

\* Mutant: the last slot of the validated buffer is never used.
ActionValidatorSystem_short ==
  /\ Dispatched("Validator") /\ Ran("Validator")
  /\ LET ok == Only(queue, {a \in Range(queue) : allows(mask, log[a])})
         no == Range(queue) \ Range(ok)
     IN  /\ validated' = SubSeq(ok, 1, IF Len(ok) < CAPACITY THEN Len(ok) ELSE CAPACITY - 1)
         /\ permission_rejections_total' = permission_rejections_total + Cardinality(no)
         /\ rejected' = rejected \cup no
  /\ queue' = <<>>
  /\ UNCHANGED <<messages, monitorVars, fault_count, outVars, log, setVars,
                 began_degraded>>

\* Mutant: the loop stops at an action that is not allowed, and leaves it.
ActionValidatorSystem_stalls ==
  /\ Dispatched("Validator") /\ Ran("Validator")
  /\ LET bad == SelectInSeq(queue, LAMBDA a : ~allows(mask, log[a]))
         n   == IF bad = 0 THEN Len(queue) ELSE bad - 1
     IN  validated' = SubSeq(queue, 1, n) /\ queue' = SubSeq(queue, n + 1, Len(queue))
  /\ UNCHANGED <<messages, permission_rejections_total, rejected, monitorVars,
                 fault_count, outVars, log, setVars, began_degraded>>

\* The queue is drained: what the mask allows is validated, in order, the rest
\* counted.  The trace event and last_rejection_tick are only reported.
ActionValidatorSystem ==
  /\ Dispatched("Validator") /\ Ran("Validator")
  /\ LET ok == Only(queue, {a \in Range(queue) : allows(mask, log[a])})
         no == Range(queue) \ Range(ok)
     IN  /\ validated' = SubSeq(ok, 1, IF Len(ok) < CAPACITY THEN Len(ok) ELSE CAPACITY)
         /\ permission_rejections_total' = permission_rejections_total + Cardinality(no)
         /\ rejected' = rejected \cup no
  /\ queue' = <<>>
  /\ UNCHANGED <<messages, monitorVars, fault_count, outVars, log, setVars,
                 began_degraded>>

\* Mutant: the mask is saved again on every tick spent below the threshold.
degrade_again(h) ==
  IF h < degraded_threshold
  THEN /\ saved_mask' = mask /\ mask' = Restricted
       /\ state' = "DEGRADED" /\ in_degraded_state' = TRUE
  ELSE IF in_degraded_state /\ h >= degraded_threshold + degraded_hysteresis
  THEN /\ mask' = saved_mask /\ state' = "NORMAL" /\ in_degraded_state' = FALSE
       /\ UNCHANGED saved_mask
  ELSE UNCHANGED <<mask, state, in_degraded_state, saved_mask>>

\* Mutant: recovery needs more than threshold plus hysteresis.
degrade_stuck(h) ==
  IF ~in_degraded_state /\ h < degraded_threshold
  THEN /\ saved_mask' = mask /\ mask' = Restricted
       /\ state' = "DEGRADED" /\ in_degraded_state' = TRUE
  ELSE IF in_degraded_state /\ h > degraded_threshold + degraded_hysteresis
  THEN /\ mask' = saved_mask /\ state' = "NORMAL" /\ in_degraded_state' = FALSE
       /\ UNCHANGED saved_mask
  ELSE UNCHANGED <<mask, state, in_degraded_state, saved_mask>>

\* The degraded transitions, given the health after this tick's faults.
degrade(h) ==
  IF ~in_degraded_state /\ h < degraded_threshold
  THEN /\ saved_mask' = mask /\ mask' = Restricted
       /\ state' = "DEGRADED" /\ in_degraded_state' = TRUE
  ELSE IF in_degraded_state /\ h >= degraded_threshold + degraded_hysteresis
  THEN /\ mask' = saved_mask /\ state' = "NORMAL" /\ in_degraded_state' = FALSE
       /\ UNCHANGED saved_mask
  ELSE UNCHANGED <<mask, state, in_degraded_state, saved_mask>>

\* Mutant: the count the monitor has come to is not kept.
FaultMonitorSystem_forgets ==
  /\ Dispatched("Monitor") /\ Ran("Monitor")
  /\ LET total_drop == (fault_count - last_fault_count) * decrement_per_fault
     IN  health' = IF total_drop >= health THEN 0 ELSE health - total_drop
  /\ degrade(health')
  /\ UNCHANGED <<messages, queueVars, last_fault_count, fault_count, outVars, log,
                 setVars, began_degraded>>

FaultMonitorSystem ==
  /\ Dispatched("Monitor") /\ Ran("Monitor")
  /\ last_fault_count' = fault_count
  /\ LET total_drop == (fault_count - last_fault_count) * decrement_per_fault
     IN  health' = IF total_drop >= health THEN 0 ELSE health - total_drop
  /\ degrade(health')
  /\ UNCHANGED <<messages, queueVars, fault_count, outVars, log, setVars,
                 began_degraded>>

\* The validated actions of the types T, in order.
Mine(T) == Only(validated, {a \in Range(validated) : log[a] \in T})
Handle(as) == handled' = [i \in DOMAIN handled |->
                IF i \in Range(as) THEN handled[i] + 1 ELSE handled[i]]

HoverActionHandler ==
  /\ Dispatched("Hover") /\ Ran("Hover")
  /\ Handle(Mine({"IDLE", "HOVER"}))
  /\ UNCHANGED <<messages, queueVars, monitorVars, fault_count, velocity, sent,
                 log, setVars, began_degraded>>

\* Each MOVE overwrites the velocity.
MoveActionHandler ==
  /\ Dispatched("Move") /\ Ran("Move")
  /\ LET moves == Mine({"MOVE"})
     IN  /\ velocity' = IF moves = <<>> THEN velocity ELSE Last(moves)
         /\ Handle(moves)
  /\ UNCHANGED <<messages, queueVars, monitorVars, fault_count, sent, log,
                 setVars, began_degraded>>

\* Mutant: the newest action is handed over first.
TransmitActionHandler_reversed ==
  /\ Dispatched("Transmit") /\ Ran("Transmit")
  /\ IF messages
     THEN sent' = sent \o Reverse(Mine({"TRANSMIT"})) /\ Handle(Mine({"TRANSMIT"}))
     ELSE UNCHANGED <<sent, handled>>
  /\ UNCHANGED <<messages, queueVars, monitorVars, fault_count, velocity, log,
                 setVars, began_degraded>>

\* Without a transport for messages the handler returns at once.
TransmitActionHandler ==
  /\ Dispatched("Transmit") /\ Ran("Transmit")
  /\ IF messages
     THEN sent' = sent \o Mine({"TRANSMIT"}) /\ Handle(Mine({"TRANSMIT"}))
     ELSE UNCHANGED <<sent, handled>>
  /\ UNCHANGED <<messages, queueVars, monitorVars, fault_count, velocity, log,
                 setVars, began_degraded>>

Systems == \/ ActionValidatorSystem \/ FaultMonitorSystem
           \/ HoverActionHandler \/ MoveActionHandler \/ TransmitActionHandler

Next == \/ \E t \in Type : push(t)
        \/ \E m \in Masks : set_mask(m)
        \/ \E h \in 0..MaxHealth : set_health(h)
        \/ report_fault \/ tick \/ Systems

Spec == Init /\ [][Next]_vars

\* World::run calls tick() until it is told to stop, and a tick completes.
FairSpec == Spec /\ WF_vars(tick) /\ WF_vars(Systems)
-----------------------------------------------------------------------------
TypeOK ==
  /\ messages \in BOOLEAN /\ pending \subseteq System
  /\ queue \in Seq(1..Len(log)) /\ Len(queue) <= CAPACITY
  /\ validated \in Seq(1..Len(log)) /\ Len(validated) <= CAPACITY
  /\ permission_rejections_total = Cardinality(rejected)
  /\ rejected \subseteq 1..Len(log)
  /\ mask \in Mask /\ saved_mask \in Mask /\ configured \in Mask
  /\ health \in 0..MaxHealth /\ state \in {"NORMAL", "DEGRADED"}
  /\ in_degraded_state \in BOOLEAN /\ began_degraded \in BOOLEAN
  /\ fault_count \in 0..MaxFaults /\ last_fault_count \in 0..fault_count
  /\ repaired \in [health : 0..MaxHealth, charged : 0..last_fault_count]
  /\ velocity \in 0..Len(log) /\ sent \in Seq(1..Len(log))
  /\ log \in Seq(Type) /\ handled \in [1..MaxActions -> Nat]

HasHandler(t) == t \in {"IDLE", "HOVER", "MOVE"} \/ (t = "TRANSMIT" /\ messages)

\* Between ticks an accepted action has met exactly one fate: it is still
\* queued, or it was rejected and counted, or it was validated and its handler,
\* if there is one, handled it once.  None is lost, and none is handled again
\* by a later tick from what the validated buffer still holds.
OneFate ==
  Idle => \A i \in 1..Len(log) :
    handled[i] = IF i \in Range(queue) \cup rejected \/ ~HasHandler(log[i])
                 THEN 0 ELSE 1

\* The degraded state, the mask in force and the behaviour state agree, and
\* what recovery brings back is the mask the application had set.
MaskFollowsState ==
  IF in_degraded_state THEN mask = Restricted /\ state = "DEGRADED" /\ saved_mask = configured
                       ELSE mask = configured /\ state = "NORMAL"

\* Degraded mode holds back what it should and nothing else, up to the tick
\* in which it comes or goes: a robot that was degraded when the tick began and
\* still is neither takes a new velocity nor sends, and no action that the
\* application's mask allows is refused by a tick that began in normal state
\* and is in it still.
MaskHonoured ==
  [][/\ ~Idle /\ began_degraded /\ in_degraded_state => velocity' = velocity /\ sent' = sent
     /\ ~Idle /\ ~began_degraded /\ ~in_degraded_state =>
          \A a \in rejected' \ rejected : ~allows(configured, log[a])]_vars

\* "The hazard graph still forces Fault-then-Validator within a tick"
\* (ARCHITECTURE.md, section 13.2): once both have run, what was validated is
\* allowed by the mask that the monitor left.
FaultThenValidator ==
  ~Idle /\ pending \cap {"Validator", "Monitor"} = {} =>
    \A a \in Range(validated) : allows(mask, log[a])

\* Health is what the application last made it, less decrement_per_fault for
\* each fault counted since, down to zero: whenever faults are reported, none
\* is charged twice, and none that the monitor has counted goes uncharged.
FaultsCharged ==
  LET drop == (last_fault_count - repaired.charged) * decrement_per_fault
  IN  health = IF drop >= repaired.health THEN 0 ELSE repaired.health - drop

\* Messages leave, and moves take effect, in the order their actions were
\* accepted, across ticks.
InOrder == [][/\ velocity' >= velocity
              /\ \A k, l \in 1..Len(sent') : k < l => sent'[k] < sent'[l]]_vars

\* A queued action does not stay queued.
QueueDrains == (queue # <<>>) ~> (queue = <<>>)

\* Health that stays low degrades the robot, health that stays high lets it
\* recover, and every fault reported is counted (and so charged, FaultsCharged).
HealthDecides ==
  /\ (health < degraded_threshold) ~> (in_degraded_state \/ health >= degraded_threshold)
  /\ (in_degraded_state /\ health >= degraded_threshold + degraded_hysteresis)
       ~> (~in_degraded_state \/ health < degraded_threshold + degraded_hysteresis)
  /\ \A n \in 1..MaxFaults : (fault_count = n) ~> (last_fault_count >= n)
=============================================================================
