------------------------------ MODULE Registry ------------------------------
(***************************************************************************)
(* EntityRegistry (include/mith/core/registry.h, src/core/registry.cpp):   *)
(* the component stores of the one entity a world has, found by the hash   *)
(* of the component's type name.  A store is of one C++ type; whoever      *)
(* finds it casts it to the type asked for without a check.                *)
(*                                                                         *)
(* Component values are left out: a store either has one or has not.       *)
(***************************************************************************)
EXTENDS Integers, FiniteSets

CONSTANTS BuiltIn,      \* the component types of the runtime
          UserType,     \* the component types of the mission
          Id,           \* ComponentTypeID
          component_id  \* the FNV-1a hash of each type's name

Type == BuiltIn \cup UserType

(* Types of the mission may collide with one another and with those of the *)
(* runtime.  The ten names of the runtime's own have ten hashes.           *)
ASSUME RegistryAssumption ==
  /\ IsFiniteSet(Type)
  /\ BuiltIn \cap UserType = {}
  /\ component_id \in [Type -> Id]
  /\ \A b, c \in BuiltIn : component_id[b] = component_id[c] => b = c

Policy == {"Open", "LockAfterInit", "BuiltInOnly"}
Origin == {"Built_In", "User"}
Absent == [type |-> "none", origin |-> "none", has |-> FALSE]
Store  == {Absent} \cup [type : Type, origin : Origin, has : BOOLEAN]

VARIABLES policy,     \* policy_
          stores,     \* stores_, Absent where find() finds nothing
          locked,     \* locked_
          sink,       \* sink_ is set
          audit,      \* how often the sinks were told of a registration
          accepted    \* the types whose registration the caller saw succeed

regVars == <<policy, stores, locked, sink, audit, accepted>>

RegistryInit ==
  /\ policy \in Policy
  /\ stores = [i \in Id |-> Absent]
  /\ locked = FALSE
  /\ sink = FALSE
  /\ audit = [e \in Type \X Origin |-> 0]
  /\ accepted = {}
-----------------------------------------------------------------------------
find(t) == stores[component_id[t]]
is_registered(t) == find(t) # Absent
has(t) == find(t).has
origin_of(t) == find(t).origin

\* get<T> aborts unless there is a store and it has a value.
get_aborts(t) == ~is_registered(t) \/ ~has(t)

\* Mutant: types are told apart by their hash alone.
status_untagged(t, origin) ==
  IF locked /\ policy = "LockAfterInit" THEN "PolicyLocked"
  ELSE IF origin = "User" /\ policy = "BuiltInOnly" THEN "PolicyForbidsUser"
  ELSE IF ~is_registered(t) THEN "Ok" ELSE "AlreadyRegistered"

\* What register_impl<T>(origin) returns.
status(t, origin) ==
  IF locked /\ policy = "LockAfterInit" THEN "PolicyLocked"
  ELSE IF origin = "User" /\ policy = "BuiltInOnly" THEN "PolicyForbidsUser"
  ELSE IF ~is_registered(t) THEN "Ok"
  ELSE IF find(t).type = t THEN "AlreadyRegistered" ELSE "TypeIdCollision"

(* register_impl<T>(origin) for each of the types T in ts, one after        *)
(* another: the stores there are then, and what the sink has been told.    *)
registered(ts, origin) ==
  [i \in Id |->
     LET new == {t \in ts : component_id[t] = i /\ status(t, origin) = "Ok"}
     IN  IF new = {} THEN stores[i]
         ELSE [type |-> CHOOSE t \in new : TRUE, origin |-> origin, has |-> FALSE]]

\* Mutant: registering a type again is told as well.
emit_registered_event_again(ts, origin) ==
  audit' = [e \in Type \X Origin |->
              IF sink /\ audit[e] < 2 /\ e[1] \in ts /\ e[2] = origin
                      /\ status(e[1], origin) \in {"Ok", "AlreadyRegistered"}
              THEN audit[e] + 1 ELSE audit[e]]

emit_registered_event(ts, origin) ==
  audit' = [e \in Type \X Origin |->
              IF sink /\ e[1] \in ts /\ e[2] = origin /\ status(e[1], origin) = "Ok"
              THEN audit[e] + 1 ELSE audit[e]]

register_impl(t, origin) ==
  /\ stores' = registered({t}, origin)
  /\ emit_registered_event({t}, origin)
  /\ accepted' = IF status(t, origin) \in {"Ok", "AlreadyRegistered"}
                 THEN accepted \cup {t} ELSE accepted
  /\ UNCHANGED <<policy, locked, sink>>

register_component(t) == register_impl(t, "User")

register_builtin_component(t) == register_impl(t, "Built_In")

lock == locked' = TRUE /\ UNCHANGED <<policy, stores, sink, audit, accepted>>

set_trace_sink(s) == sink' = s /\ UNCHANGED <<policy, stores, locked, audit, accepted>>

(* A caller that minds the status it was given; without a store emplace    *)
(* aborts.                                                                 *)
emplace(t) ==
  /\ t \in accepted
  /\ stores' = [stores EXCEPT ![component_id[t]].has = TRUE]
  /\ UNCHANGED <<policy, locked, sink, audit, accepted>>

\* Any caller: remove is virtual and casts nothing.
remove(t) ==
  /\ is_registered(t)
  /\ stores' = [stores EXCEPT ![component_id[t]].has = FALSE]
  /\ UNCHANGED <<policy, locked, sink, audit, accepted>>

\* What code with a reference to the registry may call.
RegistryCall ==
  \/ \E t \in Type : \/ register_component(t) \/ register_builtin_component(t)
                      \/ emplace(t) \/ remove(t)
  \/ lock
  \/ \E s \in BOOLEAN : set_trace_sink(s)
-----------------------------------------------------------------------------
RegistryTypeOK ==
  /\ policy \in Policy /\ locked \in BOOLEAN /\ sink \in BOOLEAN
  /\ stores \in [Id -> Store]
  /\ audit \in [Type \X Origin -> Nat]
  /\ accepted \subseteq Type

(* A type whose registration succeeded, or was told to be done already,    *)
(* finds a store of just that type from then on, whichever types share its *)
(* hash, through init() and whatever it does with stores of other types:   *)
(* the unchecked cast in get<T> and emplace<T> is to the type that         *)
(* ComponentStore<T> was made with.  Nothing is said of a type that was    *)
(* refused, which World::init() does not tell from one that was not.       *)
TypeSafe == \A t \in accepted : find(t).type = t

(* The audit trail holds no registration that did not happen, none twice,  *)
(* and none under an origin other than the one the store reports, however  *)
(* often a type is registered again, refused, or registered by both paths. *)
AuditTrue ==
  \A e \in Type \X Origin :
    audit[e] > 0 => audit[e] = 1 /\ find(e[1]).type = e[1] /\ origin_of(e[1]) = e[2]
=============================================================================
