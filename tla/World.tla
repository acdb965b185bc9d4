------------------------------- MODULE World -------------------------------
(***************************************************************************)
(* The life of a World (src/core/world.cpp): components and systems are    *)
(* registered, init() adds the built-in ones and locks the registry, then  *)
(* ticks are made one by one or by run(), which paces them by the steady   *)
(* clock until another thread sets its stop flag.  Systems run mission     *)
(* code, which may call back into the world from inside a tick.  Misuse    *)
(* aborts the process.                                                     *)
(*                                                                         *)
(* The steady clock counts in units of which Period make up one tick.      *)
(* elapsed_time_s counts ticks.  Identities are counted, not generated;    *)
(* what the systems do with neighbours is in the other modules.            *)
(***************************************************************************)
EXTENDS Registry

CONSTANTS Identity,         \* IdentityComponent, one of the built-in types
          SystemName,
          Period,           \* clock units in 1 / tick_rate_hz
          RotationPeriod,   \* identity_rotation_period_s in ticks, zero: no rotation
          MaxTicks,         \* bound: ticks explored
          MaxTime           \* bound: clock units explored

ASSUME WorldAssumption ==
  /\ Identity \in BuiltIn
  /\ Period \in Nat \ {0} /\ RotationPeriod \in Nat
  /\ MaxTicks \in Nat /\ MaxTime \in Nat /\ MaxTime >= MaxTicks * Period

VARIABLES initialized,   \* initialized_
          systems,       \* the names of scheduler_'s systems_
          built,         \* scheduler_'s built_
          elapsed,       \* context_.elapsed_time_s and tick_count
          last_rotation, \* last_rotation_time_s_
          pc,            \* where the thread of the world is
          running,       \* inside run()
          stop,          \* stop_flag
          now,           \* the steady clock since run() was called
          next_tick,     \* next_tick of run(), on that clock
          begun,         \* ticks run() has begun
          aborted

runVars == <<running, now, next_tick, begun>>
worldVars == <<initialized, systems, built, elapsed, last_rotation>>
vars == <<regVars, worldVars, pc, runVars, stop, aborted>>

Init ==
  /\ RegistryInit
  /\ initialized = FALSE /\ systems = {} /\ built = FALSE
  /\ elapsed = 0 /\ last_rotation = 0
  /\ pc = "idle" /\ running = FALSE /\ stop = FALSE
  /\ now = 0 /\ next_tick = 0 /\ begun = 0
  /\ aborted = FALSE

(* world_assert_fail, registry_assert_fail and scheduler_assert_fail: the  *)
(* process ends, and nothing is left of its memory.                        *)
Abort ==
  /\ aborted' = TRUE /\ UNCHANGED policy
  /\ stores' = [i \in Id |-> Absent] /\ audit' = [e \in Type \X Origin |-> 0] /\ accepted' = {}
  /\ locked' = FALSE /\ sink' = FALSE
  /\ initialized' = FALSE /\ systems' = {} /\ built' = FALSE
  /\ elapsed' = 0 /\ last_rotation' = 0
  /\ pc' = "idle" /\ running' = FALSE /\ stop' = FALSE
  /\ now' = 0 /\ next_tick' = 0 /\ begun' = 0
-----------------------------------------------------------------------------
(* The world's owner between ticks, and its systems during them. *)
MissionRuns == ~aborted /\ pc \in {"idle", "in_tick"}

use_registry ==
  /\ MissionRuns
  /\ \/ RegistryCall /\ UNCHANGED <<worldVars, pc, runVars, stop, aborted>>
     \/ (\E t \in Type : get_aborts(t)) /\ Abort

register_system(n) ==
  /\ MissionRuns
  /\ n \notin systems       \* DuplicateName changes nothing
  /\ systems' = systems \cup {n}
  /\ built' = FALSE
  /\ UNCHANGED <<regVars, initialized, elapsed, last_rotation, pc, runVars, stop, aborted>>

rotated == last_rotation' = elapsed /\ UNCHANGED <<initialized, systems, built, elapsed>>

rotate_identity ==
  /\ MissionRuns
  /\ \/ /\ initialized /\ ~get_aborts(Identity)
        /\ rotated /\ UNCHANGED <<regVars, pc, runVars, stop, aborted>>
     \/ (~initialized \/ get_aborts(Identity)) /\ Abort

\* scheduler().build_graph(), which the owner calls after a late registration.
build_graph ==
  /\ ~aborted /\ pc = "idle" /\ ~built
  /\ built' = TRUE
  /\ UNCHANGED <<regVars, initialized, systems, elapsed, last_rotation, pc, runVars, stop, aborted>>

(* Nobody looks at the statuses of the registrations.  A built-in type     *)
(* that has no store after them makes its emplacement abort; one that      *)
(* finds the store of another type is written into it as if it were its    *)
(* own, which leaves that store with a value or without.                   *)
init ==
  LET after == registered(BuiltIn, "Built_In")
      of_builtin == {component_id[b] : b \in BuiltIn}
      own == {component_id[b] : b \in {c \in BuiltIn : after[component_id[c]].type = c}}
      told == {b \in BuiltIn : status(b, "Built_In") \in {"Ok", "AlreadyRegistered"}}
  IN  /\ ~aborted /\ pc = "idle"
      /\ IF initialized \/ \E i \in of_builtin : after[i] = Absent
         THEN Abort
         ELSE /\ \E filled \in SUBSET (of_builtin \ own) :
                   stores' = [i \in Id |->
                                IF i \in of_builtin
                                THEN [after[i] EXCEPT !.has = i \in own \cup filled]
                                ELSE stores[i]]
              /\ emit_registered_event(BuiltIn, "Built_In")
              /\ accepted' = accepted \cup told
              /\ locked' = TRUE
              /\ built' = TRUE
              /\ initialized' = TRUE
              /\ UNCHANGED <<policy, sink, systems, elapsed, last_rotation, pc, runVars, stop, aborted>>
-----------------------------------------------------------------------------
(* tick(): up to the systems, and after them.  The clock goes on meanwhile. *)
begin_tick ==
  /\ pc' = "in_tick"
  /\ elapsed' = elapsed + 1
  /\ UNCHANGED <<regVars, initialized, systems, built, last_rotation, stop, aborted>>

tick ==
  /\ ~aborted /\ pc = "idle" /\ elapsed < MaxTicks
  /\ \/ initialized /\ built /\ begin_tick /\ UNCHANGED runVars
     \/ ~(initialized /\ built) /\ Abort

RotationDue == RotationPeriod > 0 /\ elapsed - last_rotation >= RotationPeriod

\* Mutant: the period is counted from the end of the tick.
end_tick_from_now ==
  /\ ~aborted /\ pc = "in_tick" /\ ~(RotationDue /\ get_aborts(Identity))
  /\ IF RotationDue THEN rotated ELSE UNCHANGED worldVars
  /\ pc' = IF running THEN "asleep" ELSE "idle"
  /\ next_tick' = IF running THEN now + Period ELSE next_tick
  /\ UNCHANGED <<regVars, running, now, begun, stop, aborted>>

end_tick ==
  /\ ~aborted /\ pc = "in_tick"
  /\ IF RotationDue /\ get_aborts(Identity)
     THEN Abort
     ELSE /\ IF RotationDue THEN rotated ELSE UNCHANGED worldVars
          /\ pc' = IF running THEN "asleep" ELSE "idle"
          /\ next_tick' = IF running THEN next_tick + Period ELSE next_tick
          /\ UNCHANGED <<regVars, running, now, begun, stop, aborted>>

(* run(): the load of the flag and the tick it allows are two steps.       *)
run ==
  /\ ~aborted /\ pc = "idle" /\ begun = 0
  /\ IF initialized
     THEN /\ pc' = "at_loop" /\ running' = TRUE
          /\ UNCHANGED <<regVars, worldVars, now, next_tick, begun, stop, aborted>>
     ELSE Abort

load_stop_flag ==
  /\ ~aborted /\ pc = "at_loop"
  /\ stop \/ elapsed < MaxTicks
  /\ pc' = IF stop THEN "idle" ELSE "go"
  /\ running' = ~stop
  /\ UNCHANGED <<regVars, worldVars, now, next_tick, begun, stop, aborted>>

run_tick ==
  /\ ~aborted /\ pc = "go"
  /\ \/ /\ built /\ begin_tick
        /\ begun' = begun + 1
        /\ UNCHANGED <<running, now, next_tick>>
     \/ ~built /\ Abort

\* Mutant: a wake-up that waits for the very time.
sleep_until_exact ==
  /\ ~aborted /\ pc = "asleep" /\ now = next_tick
  /\ pc' = "at_loop"
  /\ UNCHANGED <<regVars, worldVars, runVars, stop, aborted>>

\* sleep_until(next_tick) returns at once when that time has gone by.
sleep_until ==
  /\ ~aborted /\ pc = "asleep"
  /\ now >= next_tick
  /\ pc' = "at_loop"
  /\ UNCHANGED <<regVars, worldVars, runVars, stop, aborted>>

\* Another thread.
request_stop ==
  /\ ~aborted /\ ~stop
  /\ stop' = TRUE
  /\ UNCHANGED <<regVars, worldVars, pc, runVars, aborted>>

steady_clock ==
  /\ ~aborted /\ running /\ now < MaxTime
  /\ now' = now + 1
  /\ UNCHANGED <<regVars, worldVars, pc, running, next_tick, begun, stop, aborted>>

Next ==
  \/ use_registry \/ rotate_identity \/ build_graph \/ init
  \/ \E n \in SystemName : register_system(n)
  \/ tick \/ end_tick \/ run \/ load_stop_flag \/ run_tick \/ sleep_until
  \/ request_stop \/ steady_clock

(* The thread in run() and the clock go on, and the systems of a tick come  *)
(* to their end.  Nobody need ever set the flag.                            *)
Spec ==
  /\ Init /\ [][Next]_vars
  /\ WF_vars(end_tick) /\ WF_vars(load_stop_flag) /\ WF_vars(run_tick)
  /\ WF_vars(sleep_until) /\ WF_vars(steady_clock)
-----------------------------------------------------------------------------
TypeOK ==
  /\ RegistryTypeOK
  /\ initialized \in BOOLEAN /\ built \in BOOLEAN /\ systems \subseteq SystemName
  /\ elapsed \in 0..MaxTicks /\ last_rotation \in 0..elapsed
  /\ pc \in {"idle", "in_tick", "at_loop", "go", "asleep"}
  /\ running \in BOOLEAN /\ stop \in BOOLEAN /\ aborted \in BOOLEAN
  /\ now \in 0..MaxTime /\ next_tick \in Nat /\ begun \in Nat

(* "These are first-time registrations and cannot fail at this point"      *)
(* (world.cpp, init()), and a collision is refused "rather than silently   *)
(* aliasing" (registry.h): after init() each built-in type has its store.  *)
OwnStores == initialized => \A b \in BuiltIn : find(b).type = b

(* run() keeps its rate by the clock: the tick after n others never begins *)
(* before n periods have gone by, however slow or quick the ticks before   *)
(* it were, and a tick that overran costs none of those that follow: when  *)
(* run() sleeps with time to spare, it has begun one tick for each period  *)
(* up to the one it waits for.                                             *)
Paced ==
  /\ begun > 0 => now >= (begun - 1) * Period
  /\ pc = "asleep" => next_tick = begun * Period

(* "Exits cleanly when stop_flag becomes true" (world.h): once the flag is *)
(* set, run() returns, however far it is behind the clock and whatever     *)
(* mission code does in the tick it is in, unless that code aborts.        *)
StopEnds == stop /\ running ~> ~running \/ aborted
=============================================================================
