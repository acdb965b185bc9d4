---------------------------- MODULE WorldProofs ----------------------------
(* The registry and the life of a world, for every set of component types  *)
(* and every collision with types of the mission, every period and every   *)
(* bound: whoever was promised a store finds one of its type, the audit    *)
(* trail is true, and run() keeps its pace.  Then the JSON writer, which   *)
(* dumps a world's state and formats its trace: what it writes is JSON,    *)
(* for all strings and depths, however many calls are made.  Last the      *)
(* binary trace sink: its ring holds the latest frames and accounts for    *)
(* all of them, for every capacity that may be asked for, every width of   *)
(* the word and every layout of a frame.                                   *)
EXTENDS World, JsonWriter, BinaryTraceSink, DataLemmas, SequenceTheorems
-----------------------------------------------------------------------------

(* A store is found under the hash of the type it was made with.           *)
Homed == \A i \in Id : stores[i] # Absent => component_id[stores[i].type] = i

(* TypeSafe, and the store is there: Absent has a type of its own.         *)
Promised == \A t \in accepted : find(t) # Absent /\ find(t).type = t

(* AuditTrue, and the store is there.  So a type that has no store has not *)
(* been told of under either origin.                                       *)
Told ==
  \A t \in Type, o \in Origin :
    audit[<<t, o>>] # 0 =>
      audit[<<t, o>>] = 1 /\ find(t) # Absent /\ find(t).type = t /\ find(t).origin = o

RegistryInv == RegistryTypeOK /\ Homed /\ Promised /\ Told

(* A store as it is made, and as emplace and remove leave it.              *)
Made == [type : Type, origin : Origin, has : BOOLEAN]

\* No store that was made is mistaken for one that is not there.
LEMMA MadeIsThere == \A s \in Made : s # Absent /\ s \in Store
BY DEF Made, Absent, Origin, Store

LEMMA StoreIsMade == \A s \in Store : s # Absent => s \in Made
BY DEF Made, Store

\* The registry starts without stores, promises or events.
LEMMA RegistryStart == RegistryInit => RegistryInv
<1> SUFFICES ASSUME RegistryInit PROVE RegistryInv
  OBVIOUS
<1>1. RegistryTypeOK
  BY DEF RegistryInit, RegistryTypeOK, Store
<1>2. Homed /\ Promised /\ Told
  BY RegistryAssumption DEF RegistryInit, Homed, Promised, Told, Type
<1> QED
  BY <1>1, <1>2 DEF RegistryInv

(* What registering the types in ts does to the stores: those that were    *)
(* there stay as they were, and one that comes is of a type of ts that had *)
(* none.                                                                   *)
LEMMA RegisteredStores ==
  ASSUME RegistryInv, NEW ts \in SUBSET Type, NEW origin \in Origin
  PROVE  /\ registered(ts, origin) \in [Id -> Store]
         /\ \A i \in Id : stores[i] # Absent => registered(ts, origin)[i] = stores[i]
         /\ \A i \in Id : stores[i] = Absent /\ registered(ts, origin)[i] # Absent =>
              \E t \in ts : /\ component_id[t] = i /\ status(t, origin) = "Ok"
                            /\ registered(ts, origin)[i] =
                                 [type |-> t, origin |-> origin, has |-> FALSE]
         /\ \A t \in ts : status(t, origin) = "Ok" =>
              stores[component_id[t]] = Absent /\ registered(ts, origin)[component_id[t]] # Absent
<1> DEFINE new(i) == {t \in ts : component_id[t] = i /\ status(t, origin) = "Ok"}
           reg == registered(ts, origin)
           it(i) == CHOOSE t \in new(i) : TRUE
<1>1. reg = [i \in Id |-> IF new(i) = {} THEN stores[i]
                          ELSE [type |-> it(i), origin |-> origin, has |-> FALSE]]
  BY DEF registered
<1>2. \A i \in Id : new(i) # {} => it(i) \in new(i)
  OBVIOUS
<1>3. \A i \in Id : new(i) # {} => reg[i] \in Made
  BY <1>1, <1>2 DEF Made
<1>4. \A t \in ts : status(t, origin) = "Ok" => stores[component_id[t]] = Absent
  BY DEF status, is_registered, find
<1>5. stores \in [Id -> Store] /\ \A t \in ts : component_id[t] \in Id
  BY RegistryAssumption DEF RegistryInv, RegistryTypeOK
<1> HIDE DEF new, it
<1>6. reg \in [Id -> Store]
  BY <1>1, <1>3, <1>5, MadeIsThere
<1>7. \A i \in Id : stores[i] # Absent => new(i) = {}
  BY <1>4 DEF new
<1>8. \A i \in Id : stores[i] = Absent /\ reg[i] # Absent =>
        \E t \in ts : /\ component_id[t] = i /\ status(t, origin) = "Ok"
                      /\ reg[i] = [type |-> t, origin |-> origin, has |-> FALSE]
  <2> SUFFICES ASSUME NEW i \in Id, stores[i] = Absent, reg[i] # Absent
               PROVE  \E t \in ts : /\ component_id[t] = i /\ status(t, origin) = "Ok"
                         /\ reg[i] = [type |-> t, origin |-> origin, has |-> FALSE]
    OBVIOUS
  <2>1. new(i) # {}
    BY <1>1
  <2>2. it(i) \in ts /\ component_id[it(i)] = i /\ status(it(i), origin) = "Ok"
    BY <1>2, <2>1 DEF new
  <2>3. reg[i] = [type |-> it(i), origin |-> origin, has |-> FALSE]
    BY <1>1, <2>1
  <2> QED
    BY <2>2, <2>3
<1>9. \A t \in ts : status(t, origin) = "Ok" => reg[component_id[t]] # Absent
  <2> SUFFICES ASSUME NEW t \in ts, status(t, origin) = "Ok" PROVE reg[component_id[t]] # Absent
    OBVIOUS
  <2>1. t \in new(component_id[t])
    BY DEF new
  <2> QED
    BY <1>3, <1>5, <2>1, MadeIsThere
<1>10. \A i \in Id : stores[i] # Absent => reg[i] = stores[i]
  BY <1>1, <1>7
<1> HIDE DEF reg
<1>11. QED
  BY <1>4, <1>6, <1>8, <1>9, <1>10 DEF reg

(* A step that makes, or fills and empties, stores as registering the      *)
(* types of ts does, tells the sink of the new ones and promises no more   *)
(* than there is.  No two types of ts may collide: of two new ones only    *)
(* one would get the store, and both would be told of.                     *)
LEMMA RegisterStep ==
  ASSUME RegistryInv, NEW ts \in SUBSET Type, NEW origin \in Origin,
         \A t, u \in ts : component_id[t] = component_id[u] => t = u,
         policy' \in Policy, locked' \in BOOLEAN, sink' \in BOOLEAN,
         stores' \in [Id -> Store],
         \A i \in Id : registered(ts, origin)[i] # Absent =>
           /\ stores'[i] # Absent
           /\ stores'[i].type = registered(ts, origin)[i].type
           /\ stores'[i].origin = registered(ts, origin)[i].origin,
         \A i \in Id : registered(ts, origin)[i] = Absent => stores'[i] = Absent,
         emit_registered_event(ts, origin),
         accepted' \subseteq Type,
         \A t \in accepted' : t \in accepted \/
           (/\ registered(ts, origin)[component_id[t]] # Absent
            /\ registered(ts, origin)[component_id[t]].type = t)
  PROVE  RegistryInv'
<1> DEFINE reg == registered(ts, origin)
           ok(t) == t \in ts /\ status(t, origin) = "Ok"
<1>1. /\ \A i \in Id : stores[i] # Absent => reg[i] = stores[i]
      /\ \A i \in Id : stores[i] = Absent /\ reg[i] # Absent =>
           \E t \in ts : /\ component_id[t] = i /\ ok(t)
                         /\ reg[i] = [type |-> t, origin |-> origin, has |-> FALSE]
      /\ \A t \in ts : ok(t) => stores[component_id[t]] = Absent /\ reg[component_id[t]] # Absent
  <2> USE RegisteredStores
  <2>1. \A i \in Id : stores[i] # Absent => reg[i] = stores[i]
    OBVIOUS
  <2>2. \A i \in Id : stores[i] = Absent /\ reg[i] # Absent =>
          \E t \in ts : /\ component_id[t] = i /\ status(t, origin) = "Ok"
                        /\ reg[i] = [type |-> t, origin |-> origin, has |-> FALSE]
    OBVIOUS
  <2>3. \A t \in ts : status(t, origin) = "Ok" => stores[component_id[t]] = Absent /\ reg[component_id[t]] # Absent
    OBVIOUS
  <2> HIDE RegisteredStores
  <2> QED
    BY <2>1, <2>2, <2>3
<1>2. /\ component_id \in [Type -> Id]
      /\ \A t \in Type : component_id[t] \in Id
  BY RegistryAssumption
<1>3. /\ \A i \in Id : stores[i] # Absent => component_id[stores[i].type] = i
      /\ \A t \in accepted : stores[component_id[t]] # Absent /\ stores[component_id[t]].type = t
      /\ accepted \subseteq Type
      /\ audit \in [Type \X Origin -> Nat]
  BY DEF RegistryInv, Homed, Promised, RegistryTypeOK, find
<1>4. \A t \in Type, o \in Origin : audit[<<t, o>>] # 0 =>
        /\ audit[<<t, o>>] = 1 /\ stores[component_id[t]] # Absent
        /\ stores[component_id[t]].type = t /\ stores[component_id[t]].origin = o
  BY DEF RegistryInv, Told, find
<1>5. \A t \in Type : ok(t) => reg[component_id[t]].type = t /\ reg[component_id[t]].origin = origin
  <2> SUFFICES ASSUME NEW t \in Type, ok(t)
               PROVE  reg[component_id[t]].type = t /\ reg[component_id[t]].origin = origin
    OBVIOUS
  <2>1. PICK u \in ts : /\ component_id[u] = component_id[t]
                        /\ reg[component_id[t]] = [type |-> u, origin |-> origin, has |-> FALSE]
    BY <1>1, <1>2
  <2>2. u = t
    BY <2>1
  <2> QED
    BY <2>1, <2>2
<1>6. audit' = [e \in Type \X Origin |-> IF sink /\ ok(e[1]) /\ e[2] = origin
                                         THEN audit[e] + 1 ELSE audit[e]]
  BY DEF emit_registered_event
<1> HIDE DEF reg, ok
<1>7. audit' \in [Type \X Origin -> Nat]
  BY <1>3, <1>6
<1>8. RegistryTypeOK'
  BY <1>7 DEF RegistryTypeOK
<1>9. /\ \A i \in Id : reg[i] # Absent => /\ stores'[i] # Absent /\ stores'[i].type = reg[i].type
                                          /\ stores'[i].origin = reg[i].origin
      /\ \A i \in Id : reg[i] = Absent => stores'[i] = Absent
      /\ \A t \in accepted' : t \in accepted \/
           (reg[component_id[t]] # Absent /\ reg[component_id[t]].type = t)
  BY DEF reg
<1>10. Homed'
  <2> SUFFICES ASSUME NEW i \in Id, stores'[i] # Absent PROVE component_id[stores'[i].type] = i
    BY DEF Homed
  <2>1. reg[i] # Absent /\ stores'[i].type = reg[i].type
    BY <1>9
  <2>2. CASE stores[i] # Absent
    BY <1>1, <1>3, <2>1, <2>2
  <2>3. CASE stores[i] = Absent
    <3>1. PICK t \in ts : /\ component_id[t] = i
                          /\ reg[i] = [type |-> t, origin |-> origin, has |-> FALSE]
      BY <1>1, <2>1, <2>3
    <3> QED
      BY <2>1, <3>1
  <2> QED
    BY <2>2, <2>3
<1>11. Promised'
  <2> SUFFICES ASSUME NEW t \in accepted'
               PROVE  stores'[component_id[t]] # Absent /\ stores'[component_id[t]].type = t
    BY DEF Promised, find
  <2>1. t \in Type /\ component_id[t] \in Id
    BY <1>2
  <2>2. reg[component_id[t]] # Absent /\ reg[component_id[t]].type = t
    BY <1>1, <1>3, <1>9, <2>1
  <2> QED
    BY <1>9, <2>1, <2>2
<1>12. Told'
  <2> SUFFICES ASSUME NEW t \in Type, NEW o \in Origin, audit'[<<t, o>>] # 0
               PROVE  /\ audit'[<<t, o>>] = 1 /\ stores'[component_id[t]] # Absent
                      /\ stores'[component_id[t]].type = t /\ stores'[component_id[t]].origin = o
    BY DEF Told, find
  <2>0. component_id[t] \in Id
    BY <1>2
  <2>1. audit'[<<t, o>>] = IF sink /\ ok(t) /\ o = origin
                           THEN audit[<<t, o>>] + 1 ELSE audit[<<t, o>>]
    BY <1>6
  <2>2. CASE sink /\ ok(t) /\ o = origin
    <3>1. stores[component_id[t]] = Absent /\ reg[component_id[t]] # Absent
      BY <1>1, <2>2 DEF ok
    <3>2. audit[<<t, o>>] = 0
      BY <1>4, <3>1
    <3> QED
      BY <1>5, <1>9, <2>0, <2>1, <2>2, <3>1, <3>2
  <2>3. CASE ~(sink /\ ok(t) /\ o = origin)
    <3>1. /\ audit[<<t, o>>] = 1 /\ stores[component_id[t]] # Absent
          /\ stores[component_id[t]].type = t /\ stores[component_id[t]].origin = o
      BY <1>4, <2>1, <2>3
    <3> QED
      BY <1>1, <1>9, <2>0, <2>1, <2>3, <3>1
  <2> QED
    BY <2>2, <2>3
<1> QED
  BY <1>8, <1>10, <1>11, <1>12 DEF RegistryInv

(* A step that promises and tells nothing, and at most fills or empties    *)
(* stores.                                                                 *)
LEMMA KeepStep ==
  ASSUME RegistryInv, UNCHANGED <<audit, accepted>>,
         policy' \in Policy, locked' \in BOOLEAN, sink' \in BOOLEAN,
         stores' \in [Id -> Store],
         \A i \in Id : stores[i] # Absent =>
           /\ stores'[i] # Absent
           /\ stores'[i].type = stores[i].type /\ stores'[i].origin = stores[i].origin,
         \A i \in Id : stores[i] = Absent => stores'[i] = Absent
  PROVE  RegistryInv'
<1>1. RegistryTypeOK'
  BY DEF RegistryInv, RegistryTypeOK
<1>2. \A t \in Type : component_id[t] \in Id
  BY RegistryAssumption
<1>3. Homed'
  BY DEF RegistryInv, Homed
<1>4. Promised'
  BY <1>2 DEF RegistryInv, Promised, RegistryTypeOK, find
<1>5. Told'
  BY <1>2 DEF RegistryInv, Told, find
<1> QED
  BY <1>1, <1>3, <1>4, <1>5 DEF RegistryInv

\* Changing whether a store has a value leaves it the store it was.
LEMMA FillOrEmpty ==
  ASSUME RegistryInv, NEW i \in Id, stores[i] # Absent, NEW b \in BOOLEAN,
         stores' = [stores EXCEPT ![i].has = b],
         UNCHANGED <<policy, locked, sink, audit, accepted>>
  PROVE  RegistryInv'
<1>1. stores \in [Id -> Store] /\ stores[i] \in Made
  BY StoreIsMade DEF RegistryInv, RegistryTypeOK
<1>2. /\ stores'[i] = [stores[i] EXCEPT !.has = b]
      /\ \A j \in Id : j # i => stores'[j] = stores[j]
      /\ stores' = [j \in Id |-> stores'[j]]
  BY <1>1
<1>3. /\ stores'[i] \in Made /\ stores'[i].type = stores[i].type
      /\ stores'[i].origin = stores[i].origin
  BY <1>1, <1>2 DEF Made
<1>4. stores'[i] \in Store /\ stores'[i] # Absent
  BY <1>3, MadeIsThere
<1>5. stores' \in [Id -> Store]
  BY <1>1, <1>2, <1>4
<1>6. policy' \in Policy /\ locked' \in BOOLEAN /\ sink' \in BOOLEAN
  BY DEF RegistryInv, RegistryTypeOK
<1>7. \A j \in Id : stores[j] # Absent =>
        /\ stores'[j] # Absent
        /\ stores'[j].type = stores[j].type /\ stores'[j].origin = stores[j].origin
  BY <1>2, <1>3, <1>4
<1>8. \A j \in Id : stores[j] = Absent => stores'[j] = Absent
  BY <1>2
<1> QED
  BY <1>5, <1>6, <1>7, <1>8, KeepStep

\* Registering one type, by either path and with any outcome.
LEMMA RegisterOne ==
  ASSUME RegistryInv, NEW t \in Type, NEW origin \in Origin, register_impl(t, origin)
  PROVE  RegistryInv'
<1> DEFINE reg == registered({t}, origin)
<1>0. component_id[t] \in Id /\ {t} \in SUBSET Type
  BY RegistryAssumption
<1>1. /\ stores' = reg /\ emit_registered_event({t}, origin)
      /\ UNCHANGED <<policy, locked, sink>>
      /\ accepted' = IF status(t, origin) \in {"Ok", "AlreadyRegistered"}
                     THEN accepted \cup {t} ELSE accepted
  BY DEF register_impl
<1>2. reg \in [Id -> Store]
  BY <1>0, RegisteredStores
<1>3. status(t, origin) = "Ok" => reg[component_id[t]] # Absent /\ reg[component_id[t]].type = t
  <2> SUFFICES ASSUME status(t, origin) = "Ok"
               PROVE  reg[component_id[t]] # Absent /\ reg[component_id[t]].type = t
    OBVIOUS
  <2>1. stores[component_id[t]] = Absent /\ reg[component_id[t]] # Absent
    BY <1>0, RegisteredStores
  <2>2. \E u \in {t} : reg[component_id[t]] = [type |-> u, origin |-> origin, has |-> FALSE]
    BY <1>0, <2>1, RegisteredStores
  <2> QED
    BY <2>1, <2>2
<1>4. status(t, origin) = "AlreadyRegistered" =>
        reg[component_id[t]] # Absent /\ reg[component_id[t]].type = t
  <2> SUFFICES ASSUME status(t, origin) = "AlreadyRegistered"
               PROVE  reg[component_id[t]] # Absent /\ reg[component_id[t]].type = t
    OBVIOUS
  <2>1. stores[component_id[t]] # Absent /\ stores[component_id[t]].type = t
    BY DEF status, is_registered, find
  <2>2. \A i \in Id : stores[i] # Absent => reg[i] = stores[i]
    BY <1>0, RegisteredStores
  <2> QED
    BY <1>0, <2>1, <2>2
<1>5. policy' \in Policy /\ locked' \in BOOLEAN /\ sink' \in BOOLEAN /\ accepted' \subseteq Type
  BY <1>1 DEF RegistryInv, RegistryTypeOK
<1>6. \A u \in accepted' : u \in accepted \/
        (reg[component_id[u]] # Absent /\ reg[component_id[u]].type = u)
  BY <1>1, <1>3, <1>4
<1> HIDE DEF reg
<1>7. /\ \A i \in Id : reg[i] # Absent => /\ stores'[i] # Absent /\ stores'[i].type = reg[i].type
                                          /\ stores'[i].origin = reg[i].origin
      /\ \A i \in Id : reg[i] = Absent => stores'[i] = Absent
      /\ stores' \in [Id -> Store]
  BY <1>1, <1>2
<1> QED
  BY <1>0, <1>1, <1>5, <1>6, <1>7, RegisterStep DEF reg

\* Whatever code with a reference to the registry calls.
LEMMA RegistryCalls == RegistryInv /\ RegistryCall => RegistryInv'
<1> SUFFICES ASSUME RegistryInv, RegistryCall PROVE RegistryInv'
  OBVIOUS
<1>0. \A t \in Type : component_id[t] \in Id
  BY RegistryAssumption
<1>1. ASSUME NEW t \in Type, register_component(t) PROVE RegistryInv'
  BY <1>1, RegisterOne DEF register_component, Origin
<1>2. ASSUME NEW t \in Type, register_builtin_component(t) PROVE RegistryInv'
  BY <1>2, RegisterOne DEF register_builtin_component, Origin
<1>3. ASSUME NEW t \in Type, emplace(t) PROVE RegistryInv'
  BY <1>0, <1>3, FillOrEmpty DEF emplace, RegistryInv, Promised, find
<1>4. ASSUME NEW t \in Type, remove(t) PROVE RegistryInv'
  BY <1>0, <1>4, FillOrEmpty DEF remove, is_registered, find
<1>5. CASE lock \/ \E s \in BOOLEAN : set_trace_sink(s)
  BY <1>5, KeepStep DEF lock, set_trace_sink, RegistryInv, RegistryTypeOK
<1> QED
  BY <1>1, <1>2, <1>3, <1>4, <1>5 DEF RegistryCall
-----------------------------------------------------------------------------
(* init(), whichever of the built-in types find stores of other types:     *)
(* those keep their type and origin, whatever becomes of their value.      *)
LEMMA InitStep == RegistryInv /\ init /\ ~aborted' => RegistryInv'
<1> SUFFICES ASSUME RegistryInv, init, ~aborted' PROVE RegistryInv'
  OBVIOUS
<1> DEFINE after == registered(BuiltIn, "Built_In")
           of_builtin == {component_id[b] : b \in BuiltIn}
           own == {component_id[b] : b \in {c \in BuiltIn : after[component_id[c]].type = c}}
           told == {b \in BuiltIn : status(b, "Built_In") \in {"Ok", "AlreadyRegistered"}}
<1>1. /\ \A i \in of_builtin : after[i] # Absent
      /\ \E filled \in SUBSET (of_builtin \ own) :
           stores' = [i \in Id |-> IF i \in of_builtin
                                  THEN [after[i] EXCEPT !.has = i \in own \cup filled]
                                  ELSE stores[i]]
      /\ emit_registered_event(BuiltIn, "Built_In")
      /\ accepted' = accepted \cup told
      /\ locked' = TRUE /\ UNCHANGED <<policy, sink>>
  BY DEF init, Abort
<1>2. /\ BuiltIn \in SUBSET Type /\ "Built_In" \in Origin
      /\ \A t, u \in BuiltIn : component_id[t] = component_id[u] => t = u
      /\ \A t \in Type : component_id[t] \in Id
  BY RegistryAssumption DEF Type, Origin
<1>3. /\ after \in [Id -> Store]
      /\ \A i \in Id : stores[i] # Absent => after[i] = stores[i]
  BY <1>2, RegisteredStores
<1>4. \A i \in Id : stores[i] = Absent /\ after[i] # Absent =>
        \E t \in BuiltIn : /\ component_id[t] = i /\ status(t, "Built_In") = "Ok"
                           /\ after[i] = [type |-> t, origin |-> "Built_In", has |-> FALSE]
  BY <1>2, RegisteredStores
<1>5. \A b \in told : after[component_id[b]] # Absent /\ after[component_id[b]].type = b
  <2> SUFFICES ASSUME NEW b \in told PROVE after[component_id[b]].type = b
    BY <1>1
  <2>1. b \in BuiltIn /\ component_id[b] \in Id /\ after[component_id[b]] # Absent
    BY <1>1, <1>2
  <2>2. CASE stores[component_id[b]] # Absent
    <3>1. stores[component_id[b]].type = b
      BY <2>2 DEF status, is_registered, find
    <3> QED
      BY <1>3, <2>1, <2>2, <3>1
  <2>3. CASE stores[component_id[b]] = Absent
    <3>1. PICK t \in BuiltIn :
            /\ component_id[t] = component_id[b]
            /\ after[component_id[b]] = [type |-> t, origin |-> "Built_In", has |-> FALSE]
      BY <1>4, <2>1, <2>3
    <3> QED
      BY <1>2, <2>1, <3>1
  <2> QED
    BY <2>2, <2>3
<1>6. of_builtin \subseteq Id /\ told \subseteq BuiltIn
  BY <1>2
<1> HIDE DEF after, of_builtin, own, told
<1>7. \A i \in Id : i \notin of_builtin => after[i] = stores[i]
  <2> SUFFICES ASSUME NEW i \in Id, i \notin of_builtin PROVE after[i] = stores[i]
    OBVIOUS
  <2>1. \A t \in BuiltIn : component_id[t] # i
    BY DEF of_builtin
  <2> QED
    BY <1>3, <1>4, <2>1
<1>8. PICK filled \in SUBSET (of_builtin \ own) :
        stores' = [i \in Id |-> IF i \in of_builtin
                               THEN [after[i] EXCEPT !.has = i \in own \cup filled]
                               ELSE stores[i]]
  BY <1>1
<1>9. \A i \in of_builtin : /\ stores'[i] \in Made /\ stores'[i].type = after[i].type
                            /\ stores'[i].origin = after[i].origin
  <2> SUFFICES ASSUME NEW i \in of_builtin
               PROVE  /\ stores'[i] \in Made /\ stores'[i].type = after[i].type
                      /\ stores'[i].origin = after[i].origin
    OBVIOUS
  <2>1. after[i] \in Made /\ stores'[i] = [after[i] EXCEPT !.has = i \in own \cup filled]
    BY <1>1, <1>3, <1>6, <1>8, StoreIsMade
  <2>2. (i \in own \cup filled) \in BOOLEAN
    OBVIOUS
  <2> QED
    BY <2>1, <2>2 DEF Made
<1>10. \A i \in of_builtin : stores'[i] \in Store /\ stores'[i] # Absent
  BY <1>9, MadeIsThere
<1>11. stores' \in [Id -> Store]
  BY <1>3, <1>7, <1>8, <1>10
<1>12. /\ \A i \in Id : after[i] # Absent =>
            /\ stores'[i] # Absent /\ stores'[i].type = after[i].type
            /\ stores'[i].origin = after[i].origin
       /\ \A i \in Id : after[i] = Absent => stores'[i] = Absent
  BY <1>1, <1>7, <1>8, <1>9, <1>10
<1>13. policy' \in Policy /\ locked' \in BOOLEAN /\ sink' \in BOOLEAN /\ accepted' \subseteq Type
  BY <1>1, <1>2, <1>6 DEF RegistryInv, RegistryTypeOK
<1>14. \A t \in accepted' : t \in accepted \/
         (after[component_id[t]] # Absent /\ after[component_id[t]].type = t)
  BY <1>1, <1>5
<1>15. emit_registered_event(BuiltIn, "Built_In")
  BY <1>1
<1> QED
  BY <1>2, <1>11, <1>12, <1>13, <1>14, <1>15, RegisterStep DEF after

\* A process that has ended keeps nothing.
LEMMA AbortStep == RegistryInv /\ Abort => RegistryInv' /\ aborted'
<1> SUFFICES ASSUME RegistryInv, Abort PROVE RegistryInv'
  BY DEF Abort
<1>1. RegistryTypeOK'
  BY DEF Abort, RegistryInv, RegistryTypeOK, Store
<1>2. Homed' /\ Promised'
  BY RegistryAssumption DEF Abort, Homed, Promised, RegistryInv, RegistryTypeOK
<1>3. Told'
  BY DEF Abort, Told
<1> QED
  BY <1>1, <1>2, <1>3 DEF RegistryInv

(* The steps that concern the registry are the calls of mission code,      *)
(* init(), and the end of the process.                                     *)
LEMMA NextRegistry ==
  ASSUME Next
  PROVE  (RegistryCall /\ UNCHANGED aborted) \/ init \/ Abort \/ UNCHANGED regVars
BY DEF Next, use_registry, rotate_identity, build_graph, register_system, tick, begin_tick,
       end_tick, run, load_stop_flag, run_tick, sleep_until, request_stop, steady_clock

LEMMA InitAborts == ASSUME init PROVE Abort \/ ~aborted'
BY DEF init

LEMMA RegistrySteps == RegistryInv /\ [Next]_vars => RegistryInv'
<1> SUFFICES ASSUME RegistryInv, [Next]_vars PROVE RegistryInv'
  OBVIOUS
<1>1. CASE UNCHANGED regVars
  BY <1>1, KeepStep DEF regVars, RegistryInv, RegistryTypeOK
<1>2. CASE Abort
  BY <1>2, AbortStep
<1>3. CASE init
  BY <1>2, <1>3, InitAborts, InitStep
<1>4. CASE RegistryCall
  BY <1>4, RegistryCalls
<1> QED
  BY <1>1, <1>2, <1>3, <1>4, NextRegistry DEF vars

(* The registry's invariant, for every set of component types, whichever   *)
(* of the mission's collide with each other or with the built-in ones:     *)
(* stores are where their type's hash says, and promises and events are    *)
(* about stores that are there, through World::init() and aborts too.      *)
THEOREM RegistryInvariant == Spec => []RegistryInv
<1>1. Init => RegistryInv
  BY RegistryStart DEF Init
<1> QED
  BY <1>1, RegistrySteps, PTL DEF Spec

(* A type whose registration succeeded finds a store of that type (the     *)
(* unchecked cast in EntityRegistry::get and emplace), also when another   *)
(* type with its hash was refused and World::init() took no notice.        *)
THEOREM WorldTypeSafe == Spec => []TypeSafe
<1>1. RegistryInv => TypeSafe
  BY DEF RegistryInv, Promised, TypeSafe
<1> QED
  BY <1>1, RegistryInvariant, PTL

(* The registrations told to the trace sink happened, once, and under the  *)
(* origin that the store reports (EntityRegistry::register_impl).          *)
THEOREM WorldAuditTrue == Spec => []AuditTrue
<1>1. RegistryInv => AuditTrue
  <2> SUFFICES ASSUME RegistryInv, NEW e \in Type \X Origin, audit[e] > 0
               PROVE  audit[e] = 1 /\ find(e[1]).type = e[1] /\ origin_of(e[1]) = e[2]
    BY DEF AuditTrue
  <2>1. e[1] \in Type /\ e[2] \in Origin /\ e = <<e[1], e[2]>>
    OBVIOUS
  <2>2. audit[<<e[1], e[2]>>] # 0
    BY <2>1 DEF RegistryInv, RegistryTypeOK
  <2> QED
    BY <2>1, <2>2 DEF RegistryInv, Told, origin_of
<1> QED
  BY <1>1, RegistryInvariant, PTL
-----------------------------------------------------------------------------
(* The life of the world: the flags, and the counters.  run() reads the    *)
(* stop flag only while a tick is left to be explored, and nothing ticks   *)
(* before it does.                                                         *)
Flags == /\ initialized \in BOOLEAN /\ built \in BOOLEAN
         /\ running \in BOOLEAN /\ stop \in BOOLEAN /\ aborted \in BOOLEAN

Counters ==
  /\ systems \subseteq SystemName
  /\ elapsed \in Nat /\ elapsed <= MaxTicks /\ last_rotation \in Nat /\ last_rotation <= elapsed
  /\ now \in Nat /\ now <= MaxTime /\ next_tick \in Nat /\ begun \in Nat
  /\ pc \in {"idle", "in_tick", "at_loop", "go", "asleep"}
  /\ pc = "go" => elapsed < MaxTicks

(* When the tick after n others is due, on the clock of run().             *)
Due(n) == n * Period

(* Where the thread is says how next_tick and begun stand to each other.   *)
PaceInv ==
  /\ pc = "idle" => ~running
  /\ pc \in {"at_loop", "go"} => running /\ next_tick = Due(begun) /\ now >= next_tick
  /\ pc = "in_tick" /\ running =>
       begun > 0 /\ next_tick = Due(begun - 1) /\ now >= next_tick
  /\ pc = "asleep" => running /\ begun > 0 /\ next_tick = Due(begun)
  /\ begun > 0 => now >= Due(begun - 1)
  /\ begun = 0 => next_tick = 0

LifeInv == Flags /\ Counters /\ PaceInv

LEMMA Bounds == Period \in Nat /\ MaxTicks \in Nat /\ MaxTime \in Nat
BY WorldAssumption

\* One period more.
LEMMA OnePeriod ==
  /\ Due(0) = 0
  /\ \A n \in Nat : Due(n) \in Nat /\ Due(n + 1) = Due(n) + Period
<1>1. \A n \in Nat : n * Period \in Nat /\ (n + 1) * Period = n * Period + Period
  BY Bounds, SMTT(20)
<1>2. 0 * Period = 0
  BY Bounds
<1> QED
  BY <1>1, <1>2 DEF Due

\* A world starts idle, and one that has aborted is idle for ever.
LEMMA LifeStart == Init => LifeInv
<1> SUFFICES ASSUME Init PROVE LifeInv
  OBVIOUS
<1>2. Flags
  BY DEF Init, Flags
<1>3. Counters
  BY Bounds DEF Init, Counters
<1>4. PaceInv
  BY OnePeriod DEF Init, PaceInv
<1> QED
  BY <1>2, <1>3, <1>4 DEF LifeInv

LEMMA AbortEnds == Abort => LifeInv'
<1> SUFFICES ASSUME Abort PROVE LifeInv'
  OBVIOUS
<1>2. Flags'
  BY DEF Abort, Flags
<1>3. Counters'
  BY Bounds DEF Abort, Counters
<1>4. PaceInv'
  BY OnePeriod DEF Abort, PaceInv
<1> QED
  BY <1>2, <1>3, <1>4 DEF LifeInv

LEMMA FlagSteps == Flags /\ Next /\ ~Abort => Flags'
BY DEF Flags, Next, use_registry, rotate_identity, rotated, build_graph, init, register_system,
       tick, begin_tick, end_tick, run, load_stop_flag, run_tick, sleep_until, request_stop,
       steady_clock, worldVars, runVars

LEMMA CounterSteps == Counters /\ Next /\ ~Abort => Counters'
<1> SUFFICES ASSUME Counters, Next, ~Abort PROVE Counters'
  OBVIOUS
<1> USE Bounds DEF Counters, worldVars, runVars
<1>1. CASE use_registry
  BY <1>1 DEF use_registry
<1>2. CASE rotate_identity
  BY <1>2 DEF rotate_identity, rotated
<1>3. CASE build_graph \/ init
  BY <1>3 DEF build_graph, init
<1>4. ASSUME NEW n \in SystemName, register_system(n) PROVE Counters'
  BY <1>4 DEF register_system
<1>5. CASE tick
  BY <1>5 DEF tick, begin_tick
<1>6. CASE end_tick
  BY <1>6 DEF end_tick, rotated
<1>7. CASE run
  BY <1>7 DEF run
<1>8. CASE load_stop_flag
  BY <1>8 DEF load_stop_flag
<1>9. CASE run_tick
  BY <1>9 DEF run_tick, begin_tick
<1>10. CASE sleep_until \/ request_stop
  BY <1>10 DEF sleep_until, request_stop
<1>11. CASE steady_clock
  BY <1>11 DEF steady_clock
<1> QED
  BY <1>1, <1>2, <1>3, <1>4, <1>5, <1>6, <1>7, <1>8, <1>9, <1>10, <1>11 DEF Next

LEMMA PaceSteps == Counters /\ PaceInv /\ Next /\ ~Abort => PaceInv'
<1> SUFFICES ASSUME Counters, PaceInv, Next, ~Abort PROVE PaceInv'
  OBVIOUS
<1>a. begun \in Nat /\ now \in Nat /\ next_tick \in Nat
  BY DEF Counters
<1>b. /\ Period \in Nat /\ Due(begun) \in Nat /\ Due(begun + 1) = Due(begun) + Period
      /\ begun > 0 => Due(begun - 1) \in Nat /\ Due(begun - 1) + Period = Due(begun)
  <2>1. begun > 0 => begun - 1 \in Nat /\ (begun - 1) + 1 = begun
    BY <1>a
  <2>2. begun > 0 => Due(begun - 1) \in Nat /\ Due((begun - 1) + 1) = Due(begun - 1) + Period
    BY <2>1, OnePeriod
  <2> QED
    BY <1>a, <2>1, <2>2, Bounds, OnePeriod
<1>1. CASE UNCHANGED <<pc, runVars>>
  BY <1>1 DEF PaceInv, runVars
<1>2. CASE tick
  BY <1>2 DEF tick, begin_tick, PaceInv, runVars
<1>3. CASE end_tick
  <2>1. /\ pc = "in_tick" /\ pc' = IF running THEN "asleep" ELSE "idle"
        /\ next_tick' = IF running THEN next_tick + Period ELSE next_tick
        /\ UNCHANGED <<running, now, begun>>
    BY <1>3 DEF end_tick
  <2>3. CASE running
    BY <1>a, <1>b, <2>1, <2>3 DEF PaceInv
  <2>4. CASE ~running
    BY <2>1, <2>4 DEF PaceInv
  <2> QED
    BY <2>3, <2>4
<1>4. CASE run
  BY <1>4, <1>a, OnePeriod DEF run, PaceInv
<1>5. CASE load_stop_flag
  <2>1. CASE stop
    <3>1. pc' = "idle" /\ ~running' /\ UNCHANGED <<now, next_tick, begun>>
      BY <1>5, <2>1 DEF load_stop_flag
    <3> QED
      BY <3>1 DEF PaceInv
  <2>2. CASE ~stop
    <3>1. pc = "at_loop" /\ pc' = "go" /\ running' /\ UNCHANGED <<now, next_tick, begun>>
      BY <1>5, <2>2 DEF load_stop_flag
    <3> QED
      BY <3>1 DEF PaceInv
  <2> QED
    BY <2>1, <2>2
<1>6. CASE run_tick
  <2>1. /\ pc = "go" /\ pc' = "in_tick" /\ begun' = begun + 1
        /\ UNCHANGED <<running, now, next_tick>>
    BY <1>6 DEF run_tick, begin_tick
  <2>2. begun' - 1 = begun /\ begun' > 0
    BY <1>a, <2>1
  <2> QED
    BY <1>a, <2>1, <2>2 DEF PaceInv
<1>7. CASE sleep_until
  BY <1>7, <1>a DEF sleep_until, PaceInv, runVars
<1>8. CASE steady_clock
  BY <1>8, <1>a, <1>b DEF steady_clock, PaceInv
<1>9. UNCHANGED <<pc, runVars>> \/ tick \/ end_tick \/ run \/ load_stop_flag
        \/ run_tick \/ sleep_until \/ steady_clock
  BY DEF Next, use_registry, rotate_identity, build_graph, init, register_system, request_stop
<1> QED
  BY <1>1, <1>2, <1>3, <1>4, <1>5, <1>6, <1>7, <1>8, <1>9

LEMMA LifeSteps == LifeInv /\ [Next]_vars => LifeInv'
<1>1. CASE UNCHANGED vars
  BY <1>1 DEF vars, worldVars, runVars, LifeInv, Flags, Counters, PaceInv
<1>2. CASE Abort
  BY <1>2, AbortEnds
<1>3. CASE Next /\ ~Abort
  BY <1>3, FlagSteps, CounterSteps, PaceSteps DEF LifeInv
<1> QED
  BY <1>1, <1>2, <1>3

(* The states of a world are well formed: the model's type invariant for   *)
(* the registry and for run() and tick() of World.                         *)
THEOREM WorldTypeOK == Spec => []TypeOK
<1>1. LifeInv /\ RegistryInv => TypeOK
  <2> SUFFICES ASSUME LifeInv, RegistryInv PROVE TypeOK
    OBVIOUS
  <2>1. /\ elapsed \in 0..MaxTicks /\ last_rotation \in 0..elapsed
        /\ now \in 0..MaxTime
    BY Bounds DEF LifeInv, Counters
  <2> QED
    BY <2>1 DEF LifeInv, Flags, Counters, RegistryInv, TypeOK
<1>2. Spec => []LifeInv
  BY LifeStart, LifeSteps, PTL DEF Spec
<1> QED
  BY <1>1, <1>2, RegistryInvariant, PTL

(* World::run keeps its rate, whatever the period and however long the     *)
(* ticks take: it is never early, and lateness does not add up.            *)
THEOREM WorldPaced == Spec => []Paced
<1>1. LifeInv => Paced
  BY DEF LifeInv, PaceInv, Paced, Due
<1>2. Spec => []LifeInv
  BY LifeStart, LifeSteps, PTL DEF Spec
<1> QED
  BY <1>1, <1>2, PTL

-----------------------------------------------------------------------------
(* The JSON writer.  What a reader makes of a text, in parts.              *)
ReadFrom(p, text, f, k) == IF k = 0 THEN p ELSE Read(f[k - 1], text[k])

\* The recursive function inside Reading exists.
LEMMA ReadingExists ==
  ASSUME NEW p, NEW text, NEW n \in Nat
  PROVE  \E g : g = [k \in 0..n |-> ReadFrom(p, text, g, k)]
<1> DEFINE Is(m, g) == g = [k \in 0..m |-> ReadFrom(p, text, g, k)]
           A == {m \in Nat : \E g : Is(m, g)}
<1>1. 0 \in A
  <2> DEFINE g == [k \in 0..0 |-> p]
  <2>1. \A k \in 0..0 : g[k] = ReadFrom(p, text, g, k)
    BY DEF ReadFrom
  <2>2. Is(0, g)
    BY <2>1
  <2> HIDE DEF Is, g
  <2> QED
    BY <2>2
<1>2. ASSUME NEW m \in Nat, m \in A PROVE m + 1 \in A
  <2>1. PICK g : Is(m, g)
    BY <1>2
  <2> DEFINE h == [k \in 0..(m + 1) |-> IF k <= m THEN g[k] ELSE Read(g[m], text[m + 1])]
  <2>2. ASSUME NEW k \in 0..(m + 1) PROVE h[k] = ReadFrom(p, text, h, k)
    <3>1. CASE k = 0
      <4>1. g[0] = ReadFrom(p, text, g, 0)
        BY <2>1
      <4>2. g[0] = p /\ h[0] = g[0] /\ ReadFrom(p, text, h, 0) = p
        BY <4>1 DEF ReadFrom
      <4> QED
        BY <3>1, <4>2
    <3>2. CASE k # 0 /\ k <= m
      <4>1. g[k] = ReadFrom(p, text, g, k) /\ h[k] = g[k] /\ h[k - 1] = g[k - 1]
        BY <2>1, <3>2
      <4>2. ReadFrom(p, text, h, k) = Read(h[k - 1], text[k])
            /\ ReadFrom(p, text, g, k) = Read(g[k - 1], text[k])
        BY <3>2, Zenon DEF ReadFrom
      <4> HIDE DEF h
      <4> QED
        BY <4>1, <4>2
    <3>3. CASE k = m + 1
      <4>1. h[k] = Read(g[m], text[m + 1]) /\ h[k - 1] = g[m] /\ k # 0
        BY <3>3
      <4> HIDE DEF h
      <4>2. ReadFrom(p, text, h, k) = Read(h[k - 1], text[k])
        BY <4>1, Zenon DEF ReadFrom
      <4> QED
        BY <3>3, <4>1, <4>2
    <3> QED
      BY <3>1, <3>2, <3>3
  <2>3. h = [k \in 0..(m + 1) |-> h[k]]
    OBVIOUS
  <2> HIDE DEF h
  <2>4. Is(m + 1, h)
    BY <2>2, <2>3
  <2> HIDE DEF Is
  <2> QED
    BY <2>4
<1>3. n \in A
  <2> HIDE DEF A
  <2> QED
    BY <1>1, <1>2, InductiveSet
<1> QED
  BY <1>3

\* g is what the reader goes through.
Trail(p, text, g) == g[0] = p /\ \A k \in 1..Len(text) : g[k] = Read(g[k - 1], text[k])

\* Reading is the end of a trail.
LEMMA ReadingTrail ==
  ASSUME NEW p, NEW text, Len(text) \in Nat
  PROVE  \E g : Trail(p, text, g) /\ Reading(p, text) = g[Len(text)]
<1> DEFINE n == Len(text)
           it == CHOOSE g : g = [k \in 0..n |-> ReadFrom(p, text, g, k)]
<1>1. it = [k \in 0..n |-> ReadFrom(p, text, it, k)]
  BY ReadingExists
<1>2. Reading(p, text) = it[n]
  BY DEF Reading, ReadFrom
<1> HIDE DEF it
<1>3. \A k \in 0..n : it[k] = ReadFrom(p, text, it, k)
  BY <1>1
<1>4. it[0] = p
  <2>1. it[0] = ReadFrom(p, text, it, 0)
    BY <1>3
  <2> QED
    BY <2>1 DEF ReadFrom
<1>5. ASSUME NEW k \in 1..n PROVE it[k] = Read(it[k - 1], text[k])
  <2>1. k \in 0..n /\ k # 0
    OBVIOUS
  <2>2. it[k] = ReadFrom(p, text, it, k)
    BY <1>3, <2>1
  <2> QED
    BY <2>1, <2>2, Zenon DEF ReadFrom
<1> QED
  BY <1>2, <1>4, <1>5 DEF Trail

\* Two that agree on each step agree on where they end.
LEMMA TrailsMeet ==
  ASSUME NEW p, NEW text, Len(text) \in Nat, NEW g, Trail(p, text, g)
  PROVE  Reading(p, text) = g[Len(text)]
<1>1. PICK h : Trail(p, text, h) /\ Reading(p, text) = h[Len(text)]
  BY ReadingTrail
<1> DEFINE A == {k \in Nat : k <= Len(text) => g[k] = h[k]}
<1>2. 0 \in A
  BY <1>1 DEF Trail
<1>3. ASSUME NEW k \in Nat, k \in A PROVE k + 1 \in A
  <2> SUFFICES ASSUME k + 1 <= Len(text) PROVE g[k + 1] = h[k + 1]
    OBVIOUS
  <2>1. k + 1 \in 1..Len(text) /\ (k + 1) - 1 = k /\ g[k] = h[k]
    BY <1>3
  <2>2. g[k + 1] = Read(g[k], text[k + 1]) /\ h[k + 1] = Read(h[k], text[k + 1])
    BY <1>1, <2>1 DEF Trail
  <2> QED
    BY <2>1, <2>2
<1>4. Len(text) \in A
  <2> HIDE DEF A
  <2> QED
    BY <1>2, <1>3, InductiveSet
<1> QED
  BY <1>1, <1>4

\* No character, and one.
LEMMA ReadingShort ==
  ASSUME NEW p, NEW c
  PROVE  Reading(p, <<>>) = p /\ Reading(p, <<c>>) = Read(p, c)
<1>1. Reading(p, <<>>) = p
  <2>1. Len(<<>>) = 0
    OBVIOUS
  <2>2. PICK g : Trail(p, <<>>, g) /\ Reading(p, <<>>) = g[Len(<<>>)]
    BY <2>1, ReadingTrail
  <2> QED
    BY <2>1, <2>2 DEF Trail
<1>2. Reading(p, <<c>>) = Read(p, c)
  <2>1. Len(<<c>>) = 1 /\ <<c>>[1] = c
    OBVIOUS
  <2>2. PICK g : Trail(p, <<c>>, g) /\ Reading(p, <<c>>) = g[Len(<<c>>)]
    BY <2>1, ReadingTrail
  <2>3. g[0] = p /\ g[1] = Read(g[1 - 1], <<c>>[1])
    BY <2>1, <2>2 DEF Trail
  <2> QED
    BY <2>1, <2>2, <2>3
<1> QED
  BY <1>1, <1>2

\* A text read in two parts.
LEMMA ReadingJoins ==
  ASSUME NEW S, NEW a \in Seq(S), NEW b \in Seq(S), NEW p
  PROVE  Reading(p, a \o b) = Reading(Reading(p, a), b)
<1> DEFINE m == Len(a)
           n == Len(b)
           c == a \o b
<1>1. m \in Nat /\ n \in Nat /\ c \in Seq(S) /\ Len(c) = m + n
  OBVIOUS
<1>2. \A k \in 1..(m + n) : c[k] = IF k <= m THEN a[k] ELSE b[k - m]
  BY ConcatProperties
<1>3. PICK g : Trail(p, a, g) /\ Reading(p, a) = g[m]
  BY <1>1, ReadingTrail
<1>4. PICK h : Trail(g[m], b, h) /\ Reading(g[m], b) = h[n]
  BY <1>1, ReadingTrail
<1>5. /\ g[0] = p /\ \A k \in 1..m : g[k] = Read(g[k - 1], a[k])
      /\ h[0] = g[m] /\ \A k \in 1..n : h[k] = Read(h[k - 1], b[k])
  BY <1>3, <1>4 DEF Trail
<1> DEFINE j == [k \in 0..(m + n) |-> IF k <= m THEN g[k] ELSE h[k - m]]
<1> HIDE DEF m, n, c
<1>6. j[0] = p
  BY <1>1, <1>5
<1>7. ASSUME NEW k \in 1..(m + n) PROVE j[k] = Read(j[k - 1], c[k])
  <2>0. k \in 0..(m + n) /\ k - 1 \in 0..(m + n)
    BY <1>1
  <2>1. CASE k <= m
    <3>1. j[k] = g[k] /\ j[k - 1] = g[k - 1] /\ c[k] = a[k] /\ k \in 1..m
      BY <1>1, <1>2, <2>0, <2>1
    <3> QED
      BY <1>5, <3>1
  <2>2. CASE k > m
    <3>1. k - m \in 1..n /\ ~(k <= m)
      BY <1>1, <2>2
    <3>2. j[k] = h[k - m] /\ c[k] = b[k - m]
      BY <1>2, <2>0, <3>1
    <3>3. j[k - 1] = h[k - m - 1]
      <4>1. CASE k - 1 = m
        BY <1>1, <1>5, <2>0, <4>1
      <4>2. CASE k - 1 # m
        <5>1. ~(k - 1 <= m) /\ (k - 1) - m = k - m - 1
          BY <1>1, <2>2, <4>2
        <5> QED
          BY <2>0, <5>1
      <4> QED
        BY <4>1, <4>2
    <3>4. h[k - m] = Read(h[k - m - 1], b[k - m])
      BY <1>5, <3>1
    <3> QED
      BY <3>2, <3>3, <3>4
  <2> QED
    BY <1>1, <2>1, <2>2
<1>8. j[m + n] = h[n]
  <2>1. CASE n = 0
    BY <1>1, <1>5, <2>1
  <2>2. CASE n # 0
    <3>1. ~(m + n <= m) /\ (m + n) - m = n
      BY <1>1, <2>2
    <3> QED
      BY <1>1, <3>1
  <2> QED
    BY <2>1, <2>2
<1> HIDE DEF j
<1>9. Reading(p, c) = h[n]
  <2>1. Trail(p, c, j) /\ Len(c) \in Nat
    BY <1>1, <1>6, <1>7 DEF Trail
  <2>2. Reading(p, c) = j[Len(c)]
    BY <2>1, TrailsMeet
  <2> QED
    BY <1>1, <1>8, <2>2
<1> QED
  BY <1>3, <1>4, <1>9 DEF c

\* FlattenSeq stays in a set that is closed under joining.
FlatFrom(seqs, f, i) == IF i = 1 THEN seqs[i] ELSE f[i - 1] \o seqs[i]

\* The recursive function inside FlattenSeq exists.
LEMMA FlatExists ==
  ASSUME NEW seqs, NEW n \in Nat
  PROVE  \E g : g = [i \in 1..n |-> FlatFrom(seqs, g, i)]
<1> DEFINE Is(m, g) == g = [i \in 1..m |-> FlatFrom(seqs, g, i)]
           A == {m \in Nat : \E g : Is(m, g)}
<1>1. 0 \in A
  <2> DEFINE g == [i \in 1..0 |-> 0]
  <2>1. Is(0, g)
    OBVIOUS
  <2> HIDE DEF Is, g
  <2> QED
    BY <2>1
<1>2. ASSUME NEW m \in Nat, m \in A PROVE m + 1 \in A
  <2>1. PICK g : Is(m, g)
    BY <1>2
  <2> DEFINE h == [i \in 1..(m + 1) |-> IF i <= m THEN g[i] ELSE FlatFrom(seqs, g, m + 1)]
  <2>2. ASSUME NEW i \in 1..(m + 1) PROVE h[i] = FlatFrom(seqs, h, i)
    <3>1. h[i] = FlatFrom(seqs, g, i)
      <4>1. CASE i <= m
        <5>1. g[i] = FlatFrom(seqs, g, i) /\ h[i] = g[i]
          BY <2>1, <4>1
        <5> QED
          BY <5>1
      <4>2. CASE i = m + 1
        <5>1. ~(i <= m)
          BY <4>2
        <5> QED
          BY <4>2, <5>1
      <4> QED
        BY <4>1, <4>2
    <3>2. i # 1 => h[i - 1] = g[i - 1]
      OBVIOUS
    <3> HIDE DEF h
    <3>3. FlatFrom(seqs, g, i) = FlatFrom(seqs, h, i)
      BY <3>2, Zenon DEF FlatFrom
    <3> QED
      BY <3>1, <3>3
  <2>3. h = [i \in 1..(m + 1) |-> h[i]]
    OBVIOUS
  <2> HIDE DEF h
  <2>4. Is(m + 1, h)
    BY <2>2, <2>3
  <2> HIDE DEF Is
  <2> QED
    BY <2>4
<1>3. n \in A
  <2> HIDE DEF A
  <2> QED
    BY <1>1, <1>2, InductiveSet
<1> QED
  BY <1>3

\* What holds of the parts and is kept by joining holds of the whole.
LEMMA FlattenClosed ==
  ASSUME NEW C, <<>> \in C, \A s, t \in C : s \o t \in C, NEW seqs, NEW n \in Nat,
         Len(seqs) = n, n = 0 => seqs = <<>>, \A i \in 1..n : seqs[i] \in C
  PROVE  FlattenSeq(seqs) \in C
<1> DEFINE it == CHOOSE g : g = [i \in 1..n |-> FlatFrom(seqs, g, i)]
<1>1. it = [i \in 1..n |-> FlatFrom(seqs, it, i)]
  BY FlatExists
<1>2. FlattenSeq(seqs) = IF n = 0 THEN seqs ELSE it[n]
  BY DEF FlattenSeq, FlatFrom
<1> HIDE DEF it
<1>3. \A i \in 1..n : it[i] = FlatFrom(seqs, it, i)
  BY <1>1
<1> DEFINE A == {k \in Nat : k + 1 <= n => it[k + 1] \in C}
<1>4. 0 \in A
  <2> SUFFICES ASSUME 1 <= n PROVE it[1] \in C
    OBVIOUS
  <2>1. it[1] = FlatFrom(seqs, it, 1) /\ seqs[1] \in C
    BY <1>3
  <2> QED
    BY <2>1 DEF FlatFrom
<1>5. ASSUME NEW k \in Nat, k \in A PROVE k + 1 \in A
  <2> SUFFICES ASSUME (k + 1) + 1 <= n PROVE it[(k + 1) + 1] \in C
    OBVIOUS
  <2>1. PICK i \in 1..n : i = (k + 1) + 1 /\ i # 1 /\ i - 1 = k + 1
    OBVIOUS
  <2>2. it[i] = FlatFrom(seqs, it, i)
    BY <1>3, <2>1
  <2>3. it[i] = it[i - 1] \o seqs[i]
    BY <2>1, <2>2, Zenon DEF FlatFrom
  <2>4. it[i - 1] \in C /\ seqs[i] \in C
    BY <1>5, <2>1
  <2> QED
    BY <2>1, <2>3, <2>4
<1>6. \A k \in Nat : k \in A
  <2> HIDE DEF A
  <2> QED
    BY <1>4, <1>5, InductiveSet
<1>7. n # 0 => it[n] \in C
  <2> SUFFICES ASSUME n # 0 PROVE it[n] \in C
    OBVIOUS
  <2>1. n - 1 \in Nat /\ (n - 1) + 1 = n
    OBVIOUS
  <2>2. n - 1 \in A
    BY <1>6, <2>1
  <2> QED
    BY <2>1, <2>2
<1> QED
  BY <1>2, <1>7

-----------------------------------------------------------------------------
(* What the reader makes of the text of one call.                          *)
Char == {"a", "quote", "backslash", "newline", "ctrl", "n", "t", "u", "0",
         "colon", "comma", "lbrace", "lbracket", "rbrace", "rbracket"}
Plain == {"a", "quote", "backslash", "newline", "ctrl"}
Expect == {"value", "first_value", "key", "first_key", "colon", "more", "nothing"}
Mark == {"rbrace", "rbracket"}
Rd(e, o, s) == [expect |-> e, open |-> o, str |-> s]

\* Inside a string.
LEMMA ReadString ==
  ASSUME NEW e, NEW o
  PROVE  /\ Read(Rd(e, o, "yes"), "backslash") = Rd(e, o, "escape")
         /\ Read(Rd(e, o, "yes"), "quote") = Rd(e, o, "no")
         /\ \A c \in {"a", "0"} : Read(Rd(e, o, "yes"), c) = Rd(e, o, "yes")
         /\ \A c \in {"quote", "backslash", "n", "u"} : Read(Rd(e, o, "escape"), c) = Rd(e, o, "yes")
BY DEF Read, ReadInString, Rd

\* Where a value may begin.
LEMMA ReadValue ==
  ASSUME NEW e \in {"value", "first_value"}, NEW o
  PROVE  /\ Read(Rd(e, o, "no"), "quote") = Rd("more", o, "yes")
         /\ \A c \in {"0", "n", "t"} : Read(Rd(e, o, "no"), c) = Rd("more", o, "no")
         /\ Read(Rd(e, o, "no"), "lbrace") = Rd("first_key", Append(o, "rbrace"), "no")
         /\ Read(Rd(e, o, "no"), "lbracket") = Rd("first_value", Append(o, "rbracket"), "no")
BY DEF Read, ReadOutside, Rd

\* Where a key may begin, and after it.
LEMMA ReadName ==
  ASSUME NEW e \in {"key", "first_key"}, NEW o
  PROVE  /\ Read(Rd(e, o, "no"), "quote") = Rd("colon", o, "yes")
         /\ Read(Rd("colon", o, "no"), "colon") = Rd("value", o, "no")
BY DEF Read, ReadOutside, Rd

\* After a value in a scope, a comma.
LEMMA ReadComma ==
  ASSUME NEW o, o # <<>>
  PROVE  Read(Rd("more", o, "no"), "comma") =
           Rd(IF Last(o) = "rbrace" THEN "key" ELSE "value", o, "no")
BY DEF Read, ReadOutside, Rd

\* The bracket that closes the innermost scope.
LEMMA ReadClose ==
  ASSUME NEW c \in Mark, NEW o, o # <<>>, Last(o) = c, NEW e \in {"more", "first_key", "first_value"}
  PROVE  Read(Rd(e, o, "no"), c) = Rd("more", Front(o), "no")
BY DEF Read, ReadOutside, Rd, Mark

\* After a complete text, the end of the line.
LEMMA ReadNewline == Read(Rd("more", <<>>, "no"), "newline") = Start
BY DEF Read, ReadOutside, Rd

(* A text that a string may hold.                                          *)
InString ==
  {t \in Seq(Char) : \A e \in Expect, o \in Seq(Mark) :
     Reading(Rd(e, o, "yes"), t) = Rd(e, o, "yes")}

\* A string may hold no characters, and two such texts in a row.
LEMMA InStringJoins == <<>> \in InString /\ \A s, t \in InString : s \o t \in InString
<1>1. <<>> \in InString
  <2>1. \A e \in Expect, o \in Seq(Mark) : Reading(Rd(e, o, "yes"), <<>>) = Rd(e, o, "yes")
    BY ReadingShort
  <2> QED
    BY <2>1 DEF InString
<1>2. ASSUME NEW s \in InString, NEW t \in InString PROVE s \o t \in InString
  <2>1. s \in Seq(Char) /\ t \in Seq(Char)
    BY DEF InString
  <2>2. s \o t \in Seq(Char)
    BY <2>1, ConcatProperties
  <2>3. ASSUME NEW e \in Expect, NEW o \in Seq(Mark)
        PROVE  Reading(Rd(e, o, "yes"), s \o t) = Rd(e, o, "yes")
    <3>1. Reading(Rd(e, o, "yes"), s) = Rd(e, o, "yes") /\ Reading(Rd(e, o, "yes"), t) = Rd(e, o, "yes")
      BY DEF InString
    <3>2. Reading(Rd(e, o, "yes"), s \o t) = Reading(Reading(Rd(e, o, "yes"), s), t)
      BY <2>1, ReadingJoins
    <3> QED
      BY <3>1, <3>2
  <2> QED
    BY <2>2, <2>3 DEF InString
<1> QED
  BY <1>1, <1>2

\* One, two and six characters.
LEMMA ReadingPair ==
  ASSUME NEW p, NEW c, NEW d
  PROVE  Reading(p, <<c, d>>) = Read(Read(p, c), d)
<1>1. Len(<<c, d>>) = 2 /\ <<c, d>>[1] = c /\ <<c, d>>[2] = d
  OBVIOUS
<1>2. PICK g : Trail(p, <<c, d>>, g) /\ Reading(p, <<c, d>>) = g[Len(<<c, d>>)]
  BY <1>1, ReadingTrail
<1>3. g[0] = p /\ g[1] = Read(g[1 - 1], <<c, d>>[1]) /\ g[2] = Read(g[2 - 1], <<c, d>>[2])
  BY <1>1, <1>2 DEF Trail
<1> QED
  BY <1>1, <1>2, <1>3

\* What escape() makes of any character can stand in a string.
LEMMA EscapeHolds == \A c \in Plain : escape(c) \in InString
<1>1. <<"a">> \in InString /\ <<"0">> \in InString
  <2>1. <<"a">> \in Seq(Char) /\ <<"0">> \in Seq(Char)
    BY DEF Char
  <2>2. ASSUME NEW e \in Expect, NEW o \in Seq(Mark), NEW c \in {"a", "0"}
        PROVE  Reading(Rd(e, o, "yes"), <<c>>) = Rd(e, o, "yes")
    BY ReadingShort, ReadString
  <2> QED
    BY <2>1, <2>2 DEF InString
<1>2. \A d \in {"quote", "backslash", "n", "u"} : <<"backslash", d>> \in InString
  <2> SUFFICES ASSUME NEW d \in {"quote", "backslash", "n", "u"} PROVE <<"backslash", d>> \in InString
    OBVIOUS
  <2>1. <<"backslash", d>> \in Seq(Char)
    BY DEF Char
  <2>2. ASSUME NEW e \in Expect, NEW o \in Seq(Mark)
        PROVE  Reading(Rd(e, o, "yes"), <<"backslash", d>>) = Rd(e, o, "yes")
    <3>1. Reading(Rd(e, o, "yes"), <<"backslash", d>>) = Read(Read(Rd(e, o, "yes"), "backslash"), d)
      BY ReadingPair
    <3> QED
      BY <3>1, ReadString
  <2> QED
    BY <2>1, <2>2 DEF InString
<1>3. <<"backslash", "u", "0", "0", "0", "0">> \in InString
  <2>1. PICK t \in Seq(Char) : t = <<"backslash", "u", "0", "0", "0", "0">>
    <3>1. "backslash" \in Char /\ "u" \in Char /\ "0" \in Char
      BY DEF Char
    <3>2. <<"backslash", "u", "0", "0", "0", "0">> \in Seq(Char)
      BY <3>1
    <3> QED
      BY <3>2, Zenon
  <2>2. Len(t) = 6 /\ t[1] = "backslash" /\ t[2] = "u" /\ t[3] = "0" /\ t[4] = "0" /\ t[5] = "0" /\ t[6] = "0"
    BY <2>1
  <2>3. ASSUME NEW e \in Expect, NEW o \in Seq(Mark)
        PROVE  Reading(Rd(e, o, "yes"), t) = Rd(e, o, "yes")
    <3>0. Len(t) \in Nat
      OBVIOUS
    <3>1. PICK g : Trail(Rd(e, o, "yes"), t, g) /\ Reading(Rd(e, o, "yes"), t) = g[Len(t)]
      BY <3>0, ReadingTrail
    <3>2. g[0] = Rd(e, o, "yes") /\ \A k \in 1..6 : g[k] = Read(g[k - 1], t[k])
      BY <2>2, <3>1 DEF Trail
    <3>3. g[1] = Rd(e, o, "escape") /\ g[2] = Rd(e, o, "yes")
      BY <2>2, <3>2, ReadString
    <3>4. g[3] = Rd(e, o, "yes") /\ g[4] = Rd(e, o, "yes")
      BY <2>2, <3>2, <3>3, ReadString
    <3>5. g[5] = Rd(e, o, "yes") /\ g[6] = Rd(e, o, "yes")
      BY <2>2, <3>2, <3>4, ReadString
    <3> QED
      BY <2>2, <3>1, <3>5
  <2> QED
    BY <2>1, <2>3 DEF InString
<1>4. escape("a") = <<"a">> /\ escape("ctrl") = <<"backslash", "u", "0", "0", "0", "0">>
      /\ escape("quote") = <<"backslash", "quote">> /\ escape("newline") = <<"backslash", "n">>
      /\ escape("backslash") = <<"backslash", "backslash">>
  BY DEF escape
<1> QED
  BY <1>1, <1>2, <1>3, <1>4 DEF Plain

\* A string as it is printed takes the reader over it.
LEMMA QuotedRead ==
  ASSUME NEW s \in Seq(Plain), NEW o \in Seq(Mark)
  PROVE  /\ quoted(s) \in Seq(Char)
         /\ \A e \in {"value", "first_value"} : Reading(Rd(e, o, "no"), quoted(s)) = Rd("more", o, "no")
         /\ \A e \in {"key", "first_key"} : Reading(Rd(e, o, "no"), quoted(s)) = Rd("colon", o, "no")
<1>1. PICK escaped : escaped = [i \in 1..Len(s) |-> escape(s[i])]
  OBVIOUS
<1>2. PICK body : body = FlattenSeq(escaped)
  OBVIOUS
<1>3. body \in InString
  <2>1. PICK n \in Nat : n = Len(s)
    OBVIOUS
  <2>2. \A i \in 1..n : escaped[i] = escape(s[i]) /\ s[i] \in Plain
    BY <1>1, <2>1
  <2>3. \A i \in 1..n : escaped[i] \in InString
    BY <2>2, EscapeHolds
  <2>4. Len(escaped) = n
    BY <1>1, <2>1
  <2>5. n = 0 => escaped = <<>>
    BY <1>1, <2>1
  <2>6. <<>> \in InString /\ \A t, u \in InString : t \o u \in InString
    BY InStringJoins
  <2>7. FlattenSeq(escaped) \in InString
    BY <2>3, <2>4, <2>5, <2>6, FlattenClosed
  <2> QED
    BY <1>2, <2>7
<1>4. body \in Seq(Char) /\ <<"quote">> \in Seq(Char)
  BY <1>3 DEF InString, Char
<1>5. quoted(s) = (<<"quote">> \o body) \o <<"quote">>
  BY <1>1, <1>2 DEF quoted
<1>6. PICK half \in Seq(Char) : half = <<"quote">> \o body
  BY <1>4, ConcatProperties
<1>7. quoted(s) = half \o <<"quote">> /\ half \o <<"quote">> \in Seq(Char)
  BY <1>4, <1>5, <1>6, ConcatProperties
<1>8. ASSUME NEW e \in Expect, NEW f \in Expect, Read(Rd(e, o, "no"), "quote") = Rd(f, o, "yes")
      PROVE  Reading(Rd(e, o, "no"), quoted(s)) = Rd(f, o, "no")
  <2>1. Reading(Rd(e, o, "no"), half) = Reading(Reading(Rd(e, o, "no"), <<"quote">>), body)
    BY <1>4, <1>6, ReadingJoins
  <2>2. Reading(Rd(e, o, "no"), <<"quote">>) = Rd(f, o, "yes")
    BY <1>8, ReadingShort
  <2>3. Reading(Rd(f, o, "yes"), body) = Rd(f, o, "yes")
    BY <1>3 DEF InString
  <2>4. Reading(Rd(e, o, "no"), half \o <<"quote">>)
          = Reading(Reading(Rd(e, o, "no"), half), <<"quote">>)
    BY <1>4, <1>6, ReadingJoins
  <2>5. Reading(Rd(f, o, "yes"), <<"quote">>) = Rd(f, o, "no")
    BY ReadingShort, ReadString
  <2> QED
    BY <1>7, <2>1, <2>2, <2>3, <2>4, <2>5
<1>9. ASSUME NEW e \in {"value", "first_value"}
      PROVE  Reading(Rd(e, o, "no"), quoted(s)) = Rd("more", o, "no")
  BY <1>8, ReadValue DEF Expect
<1>10. ASSUME NEW e \in {"key", "first_key"}
       PROVE  Reading(Rd(e, o, "no"), quoted(s)) = Rd("colon", o, "no")
  BY <1>8, ReadName DEF Expect
<1> QED
  BY <1>7, <1>9, <1>10

(* The calls, with every string that may be passed.                        *)
Written == {Write("Str", s) : s \in Seq(Plain)} \cup {Write("F64", x) : x \in {"finite", "nan"}} \cup
           {Write(k, <<>>) : k \in {"I64", "U64", "Bool", "Null"}}
KeyCalls == {Key(k) : k \in Seq(Plain)}
Bare == {Call(c) : c \in {"begin_object", "end_object", "begin_array", "end_array", "newline", "take", "clear"}}
CallSet == Written \cup KeyCalls \cup Bare

\* A value as it is printed takes the reader over it.
LEMMA PrintedRead ==
  ASSUME NEW c \in Written, NEW o \in Seq(Mark), NEW e \in {"value", "first_value"}
  PROVE  /\ printed(c) \in Seq(Char)
         /\ Reading(Rd(e, o, "no"), printed(c)) = Rd("more", o, "no")
<1>1. CASE c \in {Write("Str", s) : s \in Seq(Plain)}
  <2>1. PICK s \in Seq(Plain) : c = Write("Str", s)
    BY <1>1
  <2>2. printed(c) = quoted(s)
    BY <2>1 DEF printed, Write
  <2> QED
    BY <2>2, QuotedRead
<1>2. ASSUME NEW m \in {"0", "n", "t"}, printed(c) = <<m>>
      PROVE  /\ printed(c) \in Seq(Char)
             /\ Reading(Rd(e, o, "no"), printed(c)) = Rd("more", o, "no")
  <2>1. <<m>> \in Seq(Char)
    BY DEF Char
  <2>2. Reading(Rd(e, o, "no"), <<m>>) = Rd("more", o, "no")
    BY ReadingShort, ReadValue
  <2> QED
    BY <1>2, <2>1, <2>2
<1>3. CASE c \in {Write("F64", x) : x \in {"finite", "nan"}}
  <2>1. PICK m \in {"0", "n"} : printed(c) = <<m>>
    BY <1>3 DEF printed, Write
  <2> QED
    BY <1>2, <2>1
<1>4. CASE c \in {Write(k, <<>>) : k \in {"I64", "U64", "Bool", "Null"}}
  <2>1. PICK m \in {"0", "n", "t"} : printed(c) = <<m>>
    BY <1>4 DEF printed, Write
  <2> QED
    BY <1>2, <2>1
<1> QED
  BY <1>1, <1>3, <1>4 DEF Written

(* Between two calls: the brackets of the text are the scopes of stack_,   *)
(* only the innermost scope can be empty, and what the reader waits for    *)
(* goes by that scope and by whether a key waits for its value.            *)
Entry == [kind : {"Object", "Array"}, first : BOOLEAN]
MarkOf(e) == IF e.kind = "Object" THEN "rbrace" ELSE "rbracket"
Marks(st) == [i \in 1..Len(st) |-> MarkOf(st[i])]

Place(st, e, nm) ==
  /\ st \in Seq(Entry) /\ nm \in BOOLEAN
  /\ \A i \in 1..(Len(st) - 1) : ~st[i].first
  /\ IF st = <<>> THEN ~nm /\ e \in {"value", "more"}
     ELSE IF nm THEN st[Len(st)].kind = "Object" /\ ~st[Len(st)].first /\ e = "value"
     ELSE IF ~st[Len(st)].first THEN e = "more"
     ELSE IF st[Len(st)].kind = "Object" THEN e = "first_key" ELSE e = "first_value"

\* The closing brackets of the scopes on stack_.
LEMMA MarksType ==
  ASSUME NEW st \in Seq(Entry)
  PROVE  /\ Marks(st) \in Seq(Mark) /\ Len(Marks(st)) = Len(st) /\ (Marks(st) = <<>> <=> st = <<>>)
         /\ st # <<>> => Marks(st)[Len(st)] = MarkOf(st[Len(st)])
         /\ \A i \in 1..Len(st) : MarkOf(st[i]) \in Mark
<1>1. \A i \in 1..Len(st) : MarkOf(st[i]) \in Mark
  BY DEF MarkOf, Mark
<1>2. Marks(st) \in Seq(Mark) /\ Len(Marks(st)) = Len(st)
  BY <1>1 DEF Marks
<1>3. st # <<>> => Marks(st)[Len(st)] = MarkOf(st[Len(st)])
  BY DEF Marks
<1>4. Marks(st) = <<>> <=> st = <<>>
  BY <1>2, EmptySeq
<1> QED
  BY <1>1, <1>2, <1>3, <1>4

\* No scope is empty once a value has been written.
Settled(st) == st \in Seq(Entry) /\ \A i \in 1..Len(st) : ~st[i].first

\* After a value.
LEMMA PlaceDone == \A st : Settled(st) => Place(st, "more", FALSE)
BY DEF Settled, Place

\* After an opening bracket.
LEMMA PlaceOpen ==
  ASSUME NEW st, Settled(st), NEW k \in {"Object", "Array"}
  PROVE  /\ Place(Append(st, [kind |-> k, first |-> TRUE]), IF k = "Object" THEN "first_key" ELSE "first_value", FALSE)
         /\ Marks(Append(st, [kind |-> k, first |-> TRUE])) = Append(Marks(st), MarkOf([kind |-> k, first |-> TRUE]))
<1>1. PICK e \in Entry : e = [kind |-> k, first |-> TRUE]
  BY DEF Entry
<1>2. st \in Seq(Entry) /\ \A i \in 1..Len(st) : ~st[i].first
  BY DEF Settled
<1>3. PICK t \in Seq(Entry) : t = Append(st, e)
  <2>1. Append(st, e) \in Seq(Entry)
    BY <1>2
  <2> QED
    BY <2>1, Zenon
<1>4. Len(t) = Len(st) + 1 /\ t[Len(t)] = e /\ t # <<>> /\ \A i \in 1..Len(st) : t[i] = st[i]
  BY <1>2, <1>3
<1>5. e.kind = k /\ e.first = TRUE
  BY <1>1
<1>6. Place(t, IF k = "Object" THEN "first_key" ELSE "first_value", FALSE)
  BY <1>2, <1>4, <1>5 DEF Place
<1>7. Marks(t) = Append(Marks(st), MarkOf(e))
  <2>1. Marks(st) \in Seq(Mark) /\ Len(Marks(st)) = Len(st) /\ Marks(t) \in Seq(Mark) /\ Len(Marks(t)) = Len(t)
    BY <1>2, MarksType
  <2>2. MarkOf(e) \in Mark
    BY DEF MarkOf, Mark
  <2>3. PICK u \in Seq(Mark) : u = Append(Marks(st), MarkOf(e))
    <3>1. Append(Marks(st), MarkOf(e)) \in Seq(Mark)
      BY <2>1, <2>2
    <3> QED
      BY <3>1, Zenon
  <2>4. Len(u) = Len(t) /\ u[Len(t)] = MarkOf(e) /\ \A i \in 1..Len(st) : u[i] = Marks(st)[i]
    BY <1>2, <1>4, <2>1, <2>2, <2>3
  <2>5. ASSUME NEW i \in 1..Len(t) PROVE u[i] = Marks(t)[i]
    <3>1. CASE i = Len(t)
      BY <1>4, <2>4, <3>1 DEF Marks
    <3>2. CASE i # Len(t)
      <4>1. i \in 1..Len(st)
        BY <1>2, <1>4, <3>2
      <4>2. Marks(t)[i] = MarkOf(t[i]) /\ Marks(st)[i] = MarkOf(st[i]) /\ t[i] = st[i]
        BY <1>4, <4>1 DEF Marks
      <4> QED
        BY <2>4, <4>1, <4>2
    <3> QED
      BY <3>1, <3>2
  <2>6. u = Marks(t)
    BY <2>1, <2>3, <2>4, <2>5, SeqEqual
  <2> QED
    BY <2>3, <2>6
<1> QED
  BY <1>1, <1>3, <1>6, <1>7

\* After a closing bracket.
LEMMA PlaceFront ==
  ASSUME NEW st, NEW e, NEW nm, Place(st, e, nm), st # <<>>
  PROVE  /\ Place(Front(st), "more", FALSE)
         /\ Marks(Front(st)) = Front(Marks(st))
<1>1. st \in Seq(Entry) /\ \A i \in 1..(Len(st) - 1) : ~st[i].first
  BY DEF Place
<1>2. PICK n \in Nat : n + 1 = Len(st)
  <2>1. Len(st) \in Nat /\ Len(st) # 0
    BY <1>1, EmptySeq
  <2> QED
    BY <2>1
<1>3. Front(st) = SubSeq(st, 1, n)
  BY <1>2 DEF Front
<1>4. PICK t : t = Front(st)
  OBVIOUS
<1>5. t \in Seq(Entry) /\ Len(t) = n /\ \A i \in 1..n : t[i] = st[i]
  BY <1>1, <1>2, <1>3, <1>4
<1>6. Settled(t)
  BY <1>1, <1>2, <1>5 DEF Settled
<1>7. Marks(t) = Front(Marks(st))
  <2>1. Marks(st) \in Seq(Mark) /\ Len(Marks(st)) = Len(st) /\ Marks(t) \in Seq(Mark) /\ Len(Marks(t)) = n
    BY <1>1, <1>5, MarksType
  <2>2. Front(Marks(st)) = SubSeq(Marks(st), 1, n)
    BY <1>2, <2>1 DEF Front
  <2>3. PICK u : u = Front(Marks(st))
    OBVIOUS
  <2>4. u \in Seq(Mark) /\ Len(u) = n /\ \A i \in 1..n : u[i] = Marks(st)[i]
    BY <1>2, <2>1, <2>2, <2>3
  <2>5. ASSUME NEW i \in 1..n PROVE u[i] = Marks(t)[i]
    <3>1. Marks(st)[i] = MarkOf(st[i]) /\ Marks(t)[i] = MarkOf(t[i])
      BY <1>2, <1>5 DEF Marks
    <3> QED
      BY <1>5, <2>4, <3>1
  <2>6. u = Marks(t)
    BY <2>1, <2>4, <2>5, SeqEqual
  <2> QED
    BY <2>3, <2>6
<1> QED
  BY <1>4, <1>6, <1>7, PlaceDone

\* The innermost scope has something in it from now on.
LEMMA PlaceBegun ==
  ASSUME NEW e, NEW nm, Place(stack, e, nm), stack # <<>>
  PROVE  Settled(entered) /\ Marks(entered) = Marks(stack) /\ entered # <<>>
         /\ entered[Len(entered)].kind = stack[Len(stack)].kind
<1>1. stack \in Seq(Entry) /\ \A i \in 1..(Len(stack) - 1) : ~stack[i].first
  BY DEF Place
<1>2. PICK n \in Nat \ {0} : n = Len(stack)
  BY <1>1, EmptySeq
<1>3. PICK f : f = [stack[n] EXCEPT !.first = FALSE]
  OBVIOUS
<1>4. f \in Entry /\ f.kind = stack[n].kind /\ f.first = FALSE
  <2>1. PICK g \in Entry : g = stack[n]
    BY <1>1, <1>2
  <2>2. f = [g EXCEPT !.first = FALSE]
    BY <1>3, <2>1
  <2> QED
    BY <2>1, <2>2 DEF Entry
<1>5. entered = [stack EXCEPT ![n] = f]
  BY <1>2, <1>3 DEF entered
<1>6. PICK t : t = entered
  OBVIOUS
<1>7. t \in Seq(Entry) /\ Len(t) = n /\ \A i \in 1..n : t[i] = IF i = n THEN f ELSE stack[i]
  BY <1>1, <1>2, <1>4, <1>5, <1>6, ExceptSeq
<1>8. Settled(t)
  BY <1>1, <1>2, <1>4, <1>7 DEF Settled
<1>9. Marks(t) = Marks(stack)
  <2>1. ASSUME NEW i \in 1..n PROVE MarkOf(t[i]) = MarkOf(stack[i])
    BY <1>4, <1>7 DEF MarkOf
  <2> QED
    BY <1>2, <1>7, <2>1 DEF Marks
<1> QED
  BY <1>2, <1>4, <1>6, <1>7, <1>8, <1>9

(* The state between two calls, as seen from outside: the open brackets,   *)
(* whether a key waits for its value, and whether a line is complete.      *)
Sight(o, n, w) == [open |-> o, named |-> n, whole |-> w]
Sights == [open : Seq(Mark), named : BOOLEAN, whole : BOOLEAN]
InObject(a) == ~a.named /\ a.open # <<>> /\ Last(a.open) = "rbrace"
InArray(a) == ~a.named /\ a.open # <<>> /\ Last(a.open) = "rbracket"
AtValue(a) == a.named \/ InArray(a) \/ (a.open = <<>> /\ ~a.whole)
Valued(a) == Sight(a.open, FALSE, a.open = <<>>)

Step(a, c, b) ==
  \/ c \in Written /\ AtValue(a) /\ b = Valued(a)
  \/ c = Call("begin_object") /\ AtValue(a) /\ b = Sight(Append(a.open, "rbrace"), FALSE, FALSE)
  \/ c = Call("begin_array") /\ AtValue(a) /\ b = Sight(Append(a.open, "rbracket"), FALSE, FALSE)
  \/ c \in KeyCalls /\ InObject(a) /\ b = Sight(a.open, TRUE, FALSE)
  \/ c = Call("end_object") /\ InObject(a) /\ b = Sight(Front(a.open), FALSE, Front(a.open) = <<>>)
  \/ c = Call("end_array") /\ InArray(a) /\ b = Sight(Front(a.open), FALSE, Front(a.open) = <<>>)
  \/ c = Call("newline") /\ ~a.named /\ a.open = <<>> /\ a.whole /\ b = Sight(<<>>, FALSE, FALSE)
  \/ c \in {Call("take"), Call("clear")} /\ ~a.named /\ a.open = <<>> /\ b = Sight(<<>>, FALSE, FALSE)

IsPlaced(st, r, nm, e) == r = Rd(e, Marks(st), "no") /\ Place(st, e, nm)
Seen(st, r, nm) == Sight(r.open, nm, st = <<>> /\ r.expect = "more")

\* A state like that, seen from outside.
LEMMA SeenIs ==
  ASSUME NEW st, NEW r, NEW nm, NEW e, IsPlaced(st, r, nm, e)
  PROVE  /\ Seen(st, r, nm) = Sight(Marks(st), nm, st = <<>> /\ e = "more")
         /\ Seen(st, r, nm).open = Marks(st) /\ Seen(st, r, nm).named = nm
         /\ Seen(st, r, nm).whole = (st = <<>> /\ e = "more")
         /\ st \in Seq(Entry) /\ nm \in BOOLEAN /\ Marks(st) \in Seq(Mark)
         /\ (Marks(st) = <<>> <=> st = <<>>)
         /\ st # <<>> => Last(Marks(st)) = MarkOf(st[Len(st)])
<1>1. r.open = Marks(st) /\ r.expect = e
  BY DEF IsPlaced, Rd
<1>2. st \in Seq(Entry) /\ nm \in BOOLEAN
  BY DEF IsPlaced, Place
<1>3. /\ Marks(st) \in Seq(Mark) /\ (Marks(st) = <<>> <=> st = <<>>)
      /\ Len(Marks(st)) = Len(st)
      /\ st # <<>> => Marks(st)[Len(st)] = MarkOf(st[Len(st)])
  BY <1>2, MarksType
<1>4. st # <<>> => Last(Marks(st)) = MarkOf(st[Len(st)])
  BY <1>3 DEF Last
<1>5. Seen(st, r, nm) = Sight(Marks(st), nm, st = <<>> /\ e = "more")
  BY <1>1 DEF Seen
<1>6. /\ Seen(st, r, nm).open = Marks(st) /\ Seen(st, r, nm).named = nm
      /\ Seen(st, r, nm).whole = (st = <<>> /\ e = "more")
  BY <1>5 DEF Sight
<1> QED
  BY <1>2, <1>3, <1>4, <1>5, <1>6

(* Where a value may begin, the separator is all that is missing.          *)
LEMMA BeginValue ==
  ASSUME NEW e, IsPlaced(stack, reader, named, e), AtValue(Seen(stack, reader, named))
  PROVE  /\ separator \in Seq(Char)
         /\ Settled(separated) /\ Marks(separated) = Marks(stack)
         /\ \E f \in {"value", "first_value"} : Reading(reader, separator) = Rd(f, Marks(stack), "no")
<1>1. /\ Seen(stack, reader, named).open = Marks(stack) /\ Seen(stack, reader, named).named = named
      /\ Seen(stack, reader, named).whole = (stack = <<>> /\ e = "more")
      /\ stack \in Seq(Entry) /\ named \in BOOLEAN /\ Marks(stack) \in Seq(Mark)
      /\ (Marks(stack) = <<>> <=> stack = <<>>)
      /\ stack # <<>> => Last(Marks(stack)) = MarkOf(stack[Len(stack)])
  BY SeenIs
<1>2. reader = Rd(e, Marks(stack), "no") /\ Place(stack, e, named)
  BY DEF IsPlaced
<1>3. <<>> \in Seq(Char) /\ <<"comma">> \in Seq(Char)
  BY DEF Char
<1>4. CASE stack = <<>>
  <2>1. ~In("Array") /\ separator = <<>> /\ separated = stack
    BY <1>4 DEF In, separator, separated
  <2>2. ~named /\ e \in {"value", "more"}
    BY <1>2, <1>4 DEF Place
  <2>3. e = "value"
    BY <1>1, <1>4, <2>2 DEF AtValue, InArray
  <2>4. Settled(stack)
    BY <1>4 DEF Settled
  <2>5. Reading(reader, <<>>) = Rd("value", Marks(stack), "no")
    BY <1>2, <2>3, ReadingShort
  <2> QED
    BY <1>3, <2>1, <2>4, <2>5
<1>5. CASE stack # <<>> /\ named
  <2>1. stack[Len(stack)].kind = "Object" /\ ~stack[Len(stack)].first /\ e = "value"
        /\ \A i \in 1..(Len(stack) - 1) : ~stack[i].first
    BY <1>2, <1>5 DEF Place
  <2>2. ~In("Array") /\ separator = <<>> /\ separated = stack
    BY <2>1 DEF In, Last, separator, separated
  <2>3. Settled(stack)
    BY <1>1, <2>1 DEF Settled
  <2>4. Reading(reader, <<>>) = Rd("value", Marks(stack), "no")
    BY <1>2, <2>1, ReadingShort
  <2> QED
    BY <1>3, <2>2, <2>3, <2>4
<1>6. CASE stack # <<>> /\ ~named
  <2>1. Last(Marks(stack)) = "rbracket" /\ stack[Len(stack)].kind = "Array"
    <3>1. Last(Marks(stack)) = "rbracket"
      BY <1>1, <1>6 DEF AtValue, InArray
    <3>2. Len(stack) \in 1..Len(stack)
      BY <1>1, <1>6, EmptySeq
    <3>3. stack[Len(stack)] \in Entry
      BY <1>1, <3>2, ElementOfSeq
    <3> QED
      BY <1>1, <1>6, <3>1, <3>3 DEF MarkOf, Entry
  <2>2. In("Array") /\ separator = comma /\ separated = entered
    BY <1>6, <2>1 DEF In, Last, separator, separated
  <2>3. Settled(entered) /\ Marks(entered) = Marks(stack)
    BY <1>2, <1>6, PlaceBegun
  <2>4. CASE stack[Len(stack)].first
    <3>1. comma = <<>> /\ e = "first_value"
      BY <1>2, <1>6, <2>1, <2>4 DEF comma, Last, Place
    <3>2. Reading(reader, <<>>) = Rd("first_value", Marks(stack), "no")
      BY <1>2, <3>1, ReadingShort
    <3> QED
      BY <1>3, <2>2, <2>3, <3>1, <3>2
  <2>5. CASE ~stack[Len(stack)].first
    <3>1. comma = <<"comma">> /\ e = "more"
      BY <1>2, <1>6, <2>1, <2>5 DEF comma, Last, Place
    <3>2. Read(reader, "comma") = Rd("value", Marks(stack), "no")
      BY <1>1, <1>2, <1>6, <2>1, <3>1, ReadComma
    <3>3. Reading(reader, <<"comma">>) = Rd("value", Marks(stack), "no")
      BY <3>2, ReadingShort
    <3> QED
      BY <1>3, <2>2, <2>3, <3>1, <3>3
  <2> QED
    BY <2>4, <2>5
<1> QED
  BY <1>4, <1>5, <1>6

(* A call that may be made leaves such a state, seen as it should be.      *)
Arrives(b) == \E f : IsPlaced(stack', reader', named', f) /\ Seen(stack', reader', named') = b

\* How such a state is reached.
LEMMA ArrivesBy ==
  ASSUME NEW st, NEW f, NEW nm, NEW o, NEW b, Place(st, f, nm), Marks(st) = o,
         stack' = st, reader' = Rd(f, o, "no"), named' = nm, b = Sight(o, nm, st = <<>> /\ f = "more")
  PROVE  Arrives(b)
<1>1. IsPlaced(stack', reader', named', f)
  BY DEF IsPlaced
<1>2. reader'.open = o /\ reader'.expect = f
  BY DEF Rd
<1>3. Seen(stack', reader', named') = b
  BY <1>2 DEF Seen
<1> QED
  BY <1>1, <1>3 DEF Arrives

\* A value: write_string, write_f64, write_null and the others.
LEMMA WriteStep ==
  ASSUME NEW e, IsPlaced(stack, reader, named, e), NEW c \in Written,
         AtValue(Seen(stack, reader, named)), write(c)
  PROVE  Arrives(Valued(Seen(stack, reader, named)))
<1>1. separator \in Seq(Char) /\ Settled(separated) /\ Marks(separated) = Marks(stack)
  BY BeginValue
<1>2. PICK f \in {"value", "first_value"} : Reading(reader, separator) = Rd(f, Marks(stack), "no")
  BY BeginValue
<1>3. /\ Seen(stack, reader, named).open = Marks(stack) /\ Marks(stack) \in Seq(Mark)
      /\ (Marks(stack) = <<>> <=> stack = <<>>)
  BY SeenIs
<1>4. printed(c) \in Seq(Char)
      /\ Reading(Rd(f, Marks(stack), "no"), printed(c)) = Rd("more", Marks(stack), "no")
  BY <1>3, PrintedRead
<1>5. Reading(reader, separator \o printed(c)) = Reading(Reading(reader, separator), printed(c))
  BY <1>1, <1>4, ReadingJoins
<1>6. reader' = Rd("more", Marks(stack), "no")
  BY <1>2, <1>4, <1>5 DEF write, append
<1>7. stack' = separated /\ named' = FALSE
  BY DEF write
<1>8. Place(separated, "more", FALSE)
  BY <1>1, PlaceDone
<1>9. separated \in Seq(Entry)
  BY <1>1 DEF Settled
<1>10. separated = <<>> <=> Marks(stack) = <<>>
  BY <1>1, <1>9, MarksType
<1>11. Valued(Seen(stack, reader, named)) = Sight(Marks(stack), FALSE, separated = <<>> /\ "more" = "more")
  BY <1>3, <1>10 DEF Valued
<1> QED
  BY <1>1, <1>6, <1>7, <1>8, <1>11, ArrivesBy

\* begin_object and begin_array.
LEMMA OpenStep ==
  ASSUME NEW e, IsPlaced(stack, reader, named, e), AtValue(Seen(stack, reader, named)),
         NEW kind \in {"Object", "Array"}, NEW mark, mark = (IF kind = "Object" THEN "lbrace" ELSE "lbracket"),
         open(mark, kind)
  PROVE  Arrives(Sight(Append(Seen(stack, reader, named).open,
                              IF kind = "Object" THEN "rbrace" ELSE "rbracket"), FALSE, FALSE))
<1>1. separator \in Seq(Char) /\ Settled(separated) /\ Marks(separated) = Marks(stack)
  BY BeginValue
<1>2. PICK f \in {"value", "first_value"} : Reading(reader, separator) = Rd(f, Marks(stack), "no")
  BY BeginValue
<1>3. Seen(stack, reader, named).open = Marks(stack) /\ Marks(stack) \in Seq(Mark)
  BY SeenIs
<1>4. <<mark>> \in Seq(Char)
  BY DEF Char
<1>5. Reading(reader, separator \o <<mark>>) = Reading(Reading(reader, separator), <<mark>>)
  BY <1>1, <1>4, ReadingJoins
<1>6. PICK g : g = IF kind = "Object" THEN "first_key" ELSE "first_value"
  OBVIOUS
<1>7. PICK m : m = IF kind = "Object" THEN "rbrace" ELSE "rbracket"
  OBVIOUS
<1>8. Read(Rd(f, Marks(stack), "no"), mark) = Rd(g, Append(Marks(stack), m), "no")
  BY <1>6, <1>7, ReadValue
<1>9. reader' = Rd(g, Append(Marks(stack), m), "no")
  BY <1>2, <1>5, <1>8, ReadingShort DEF open, append
<1>10. PICK st : st = Append(separated, [kind |-> kind, first |-> TRUE])
  OBVIOUS
<1>11. stack' = st /\ named' = FALSE
  BY <1>10 DEF open
<1>12. MarkOf([kind |-> kind, first |-> TRUE]) = m
  BY <1>7 DEF MarkOf
<1>13. Place(st, g, FALSE) /\ Marks(st) = Append(Marks(stack), m)
  BY <1>1, <1>6, <1>10, <1>12, PlaceOpen
<1>14. st # <<>>
  BY <1>6, <1>13 DEF Place
<1>15. Sight(Append(Marks(stack), m), FALSE, FALSE) = Sight(Append(Marks(stack), m), FALSE, st = <<>> /\ g = "more")
  BY <1>14
<1>16. Arrives(Sight(Append(Marks(stack), m), FALSE, FALSE))
  BY <1>9, <1>11, <1>13, <1>15, ArrivesBy
<1> QED
  BY <1>3, <1>7, <1>16

\* end_object and end_array.
LEMMA CloseStep ==
  ASSUME NEW e, IsPlaced(stack, reader, named, e), NEW m \in Mark, ~named, stack # <<>>,
         Last(Marks(stack)) = m, close(m)
  PROVE  Arrives(Sight(Front(Marks(stack)), FALSE, Front(Marks(stack)) = <<>>))
<1>1. reader = Rd(e, Marks(stack), "no") /\ Place(stack, e, named)
  BY DEF IsPlaced
<1>2. Marks(stack) \in Seq(Mark) /\ Marks(stack) # <<>>
  BY SeenIs
<1>3. e \in {"more", "first_key", "first_value"}
  BY <1>1 DEF Place
<1>4. Read(reader, m) = Rd("more", Front(Marks(stack)), "no")
  BY <1>1, <1>2, <1>3, ReadClose
<1>5. reader' = Rd("more", Front(Marks(stack)), "no")
  BY <1>4, ReadingShort DEF close, append
<1>6. stack' = Front(stack) /\ named' = FALSE
  BY <1>1 DEF close, Place
<1>7. Place(Front(stack), "more", FALSE) /\ Marks(Front(stack)) = Front(Marks(stack))
  BY <1>1, PlaceFront
<1>8. Front(stack) = <<>> <=> Front(Marks(stack)) = <<>>
  <2>1. Front(stack) \in Seq(Entry)
    BY <1>7 DEF Place
  <2> QED
    BY <1>7, <2>1, MarksType
<1> QED
  BY <1>5, <1>6, <1>7, <1>8, ArrivesBy

\* key: the comma if one is due, the quoted name and the colon.
LEMMA KeyStep ==
  ASSUME NEW e, IsPlaced(stack, reader, named, e), NEW k \in Seq(Plain), ~named, stack # <<>>,
         Last(Marks(stack)) = "rbrace", key(k)
  PROVE  Arrives(Sight(Marks(stack), TRUE, FALSE))
<1>1. reader = Rd(e, Marks(stack), "no") /\ Place(stack, e, named)
  BY DEF IsPlaced
<1>2. /\ Marks(stack) \in Seq(Mark) /\ Marks(stack) # <<>> /\ stack \in Seq(Entry)
      /\ MarkOf(stack[Len(stack)]) = "rbrace"
  BY SeenIs
<1>3. stack[Len(stack)].kind = "Object"
  BY <1>2 DEF MarkOf
<1>4. <<>> \in Seq(Char) /\ <<"comma">> \in Seq(Char) /\ <<"colon">> \in Seq(Char)
  BY DEF Char
<1>5. comma \in Seq(Char) /\ \E f \in {"key", "first_key"} : Reading(reader, comma) = Rd(f, Marks(stack), "no")
  <2>1. CASE stack[Len(stack)].first
    <3>1. comma = <<>> /\ e = "first_key"
      BY <1>1, <1>3, <2>1 DEF comma, Last, Place
    <3>2. Reading(reader, <<>>) = Rd("first_key", Marks(stack), "no")
      BY <1>1, <3>1, ReadingShort
    <3> QED
      BY <1>4, <3>1, <3>2
  <2>2. CASE ~stack[Len(stack)].first
    <3>1. comma = <<"comma">> /\ e = "more"
      BY <1>1, <1>3, <2>2 DEF comma, Last, Place
    <3>2. Read(reader, "comma") = Rd("key", Marks(stack), "no")
      BY <1>1, <1>2, <3>1, ReadComma
    <3>3. Reading(reader, <<"comma">>) = Rd("key", Marks(stack), "no")
      BY <3>2, ReadingShort
    <3> QED
      BY <1>4, <3>1, <3>3
  <2> QED
    BY <2>1, <2>2
<1>6. PICK f \in {"key", "first_key"} : Reading(reader, comma) = Rd(f, Marks(stack), "no")
  BY <1>5
<1>7. quoted(k) \in Seq(Char)
      /\ Reading(Rd(f, Marks(stack), "no"), quoted(k)) = Rd("colon", Marks(stack), "no")
  BY <1>2, QuotedRead
<1>8. PICK half \in Seq(Char) : half = comma \o quoted(k)
  BY <1>5, <1>7, ConcatProperties
<1>9. Reading(reader, half) = Reading(Reading(reader, comma), quoted(k))
  BY <1>5, <1>7, <1>8, ReadingJoins
<1>10. Reading(reader, half \o <<"colon">>) = Reading(Reading(reader, half), <<"colon">>)
  BY <1>4, <1>8, ReadingJoins
<1>11. Reading(Rd("colon", Marks(stack), "no"), <<"colon">>) = Rd("value", Marks(stack), "no")
  BY ReadingShort, ReadName
<1>12. reader' = Rd("value", Marks(stack), "no")
  BY <1>6, <1>7, <1>8, <1>9, <1>10, <1>11 DEF key, append
<1>13. PICK st : st = entered
  OBVIOUS
<1>14. stack' = st /\ named' = TRUE
  BY <1>13 DEF key
<1>15. Settled(st) /\ Marks(st) = Marks(stack) /\ st # <<>> /\ st[Len(st)].kind = "Object"
  BY <1>1, <1>3, <1>13, PlaceBegun
<1>16. Place(st, "value", TRUE)
  <2>1. Len(st) \in 1..Len(st) /\ st \in Seq(Entry)
    BY <1>15, EmptySeq DEF Settled
  <2> QED
    BY <1>15, <2>1 DEF Place, Settled
<1>17. Sight(Marks(stack), TRUE, FALSE) = Sight(Marks(stack), TRUE, st = <<>> /\ "value" = "more")
  BY <1>15
<1> QED
  BY <1>12, <1>14, <1>15, <1>16, <1>17, ArrivesBy

\* An empty writer is a state between two calls.
LEMMA StartIs == Start = Rd("value", <<>>, "no") /\ Marks(<<>>) = <<>> /\ Place(<<>>, "value", FALSE)
BY DEF Start, Rd, Marks, Place

\* What a call is told by.
LEMMA CallsApart ==
  /\ \A c \in Written : c.call = "write"
  /\ \A c \in KeyCalls : c.call = "key" /\ c.val \in Seq(Plain) /\ c = Key(c.val)
  /\ \A x : Call(x).call = x
<1>1. \A c \in Written : c.call = "write"
  BY DEF Written, Write
<1>2. \A c \in KeyCalls : c.call = "key" /\ c.val \in Seq(Plain) /\ c = Key(c.val)
  BY DEF KeyCalls, Key
<1>3. \A x : Call(x).call = x
  BY DEF Call
<1> QED
  BY <1>1, <1>2, <1>3

\* Each call that may be made, by the method it calls.
LEMMA PerformStep ==
  ASSUME NEW e, IsPlaced(stack, reader, named, e), NEW c, NEW b,
         Step(Seen(stack, reader, named), c, b), perform(c)
  PROVE  Arrives(b)
<1>1. PICK a : a = Seen(stack, reader, named)
  OBVIOUS
<1>2. /\ a.open = Marks(stack) /\ a.named = named /\ a.whole = (stack = <<>> /\ e = "more")
      /\ (Marks(stack) = <<>> <=> stack = <<>>)
  BY <1>1, SeenIs
<1>3. reader = Rd(e, Marks(stack), "no") /\ Place(stack, e, named)
  BY DEF IsPlaced
<1>4. CASE c \in Written /\ AtValue(a) /\ b = Valued(a)
  <2>1. write(c)
    BY <1>4, CallsApart DEF perform
  <2> QED
    BY <1>1, <1>4, <2>1, WriteStep
<1>5. CASE c = Call("begin_object") /\ AtValue(a) /\ b = Sight(Append(a.open, "rbrace"), FALSE, FALSE)
  <2>1. open("lbrace", "Object")
    BY <1>5, CallsApart DEF perform
  <2>2. Arrives(Sight(Append(Seen(stack, reader, named).open,
                             IF "Object" = "Object" THEN "rbrace" ELSE "rbracket"), FALSE, FALSE))
    BY <1>1, <1>5, <2>1, OpenStep
  <2> QED
    BY <1>1, <1>5, <2>2
<1>6. CASE c = Call("begin_array") /\ AtValue(a) /\ b = Sight(Append(a.open, "rbracket"), FALSE, FALSE)
  <2>1. open("lbracket", "Array")
    BY <1>6, CallsApart DEF perform
  <2>2. Arrives(Sight(Append(Seen(stack, reader, named).open,
                             IF "Array" = "Object" THEN "rbrace" ELSE "rbracket"), FALSE, FALSE))
    BY <1>1, <1>6, <2>1, OpenStep
  <2> QED
    BY <1>1, <1>6, <2>2
<1>7. CASE c \in KeyCalls /\ InObject(a) /\ b = Sight(a.open, TRUE, FALSE)
  <2>1. key(c.val) /\ c.val \in Seq(Plain)
    BY <1>7, CallsApart DEF perform
  <2>2. ~named /\ stack # <<>> /\ Last(Marks(stack)) = "rbrace"
    BY <1>2, <1>7 DEF InObject
  <2> QED
    BY <1>2, <1>7, <2>1, <2>2, KeyStep
<1>8. CASE c = Call("end_object") /\ InObject(a) /\ b = Sight(Front(a.open), FALSE, Front(a.open) = <<>>)
  <2>1. close("rbrace") /\ "rbrace" \in Mark
    BY <1>8, CallsApart DEF perform, Mark
  <2>2. ~named /\ stack # <<>> /\ Last(Marks(stack)) = "rbrace"
    BY <1>2, <1>8 DEF InObject
  <2> QED
    BY <1>2, <1>8, <2>1, <2>2, CloseStep
<1>9. CASE c = Call("end_array") /\ InArray(a) /\ b = Sight(Front(a.open), FALSE, Front(a.open) = <<>>)
  <2>1. close("rbracket") /\ "rbracket" \in Mark
    BY <1>9, CallsApart DEF perform, Mark
  <2>2. ~named /\ stack # <<>> /\ Last(Marks(stack)) = "rbracket"
    BY <1>2, <1>9 DEF InArray
  <2> QED
    BY <1>2, <1>9, <2>1, <2>2, CloseStep
<1>10. CASE c = Call("newline") /\ ~a.named /\ a.open = <<>> /\ a.whole /\ b = Sight(<<>>, FALSE, FALSE)
  <2>1. newline
    BY <1>10, CallsApart DEF perform
  <2>2. stack = <<>> /\ e = "more" /\ ~named /\ Marks(stack) = <<>>
    BY <1>2, <1>10
  <2>3. Read(reader, "newline") = Start
    BY <1>3, <2>2, ReadNewline
  <2>4. reader' = Rd("value", <<>>, "no")
    BY <2>1, <2>3, ReadingShort, StartIs DEF newline, append
  <2>5. stack' = <<>> /\ named' = FALSE
    BY <1>3, <2>1, <2>2 DEF newline, Place
  <2>6. b = Sight(<<>>, FALSE, <<>> = <<>> /\ "value" = "more")
    BY <1>10
  <2> QED
    BY <2>4, <2>5, <2>6, StartIs, ArrivesBy
<1>11. CASE c \in {Call("take"), Call("clear")} /\ ~a.named /\ a.open = <<>> /\ b = Sight(<<>>, FALSE, FALSE)
  <2>1. take
    BY <1>11, CallsApart DEF perform
  <2>2. reader' = Rd("value", <<>>, "no") /\ stack' = <<>> /\ named' = FALSE
    BY <2>1, StartIs DEF take
  <2>3. b = Sight(<<>>, FALSE, <<>> = <<>> /\ "value" = "more")
    BY <1>11
  <2> QED
    BY <2>2, <2>3, StartIs, ArrivesBy
<1> QED
  BY <1>1, <1>4, <1>5, <1>6, <1>7, <1>8, <1>9, <1>10, <1>11 DEF Step

-----------------------------------------------------------------------------
(* What the calls of dump_state and format do to a writer, in parts.       *)
Path(a, calls, g) == g[0] = a /\ \A k \in 1..Len(calls) : Step(g[k - 1], calls[k], g[k])
Goes(a, calls, b) == \E g : Path(a, calls, g) /\ g[Len(calls)] = b

\* No call changes nothing.
LEMMA GoesNone == \A a : Goes(a, <<>>, a)
<1> SUFFICES ASSUME NEW a PROVE Goes(a, <<>>, a)
  OBVIOUS
<1>1. PICK g : g = [k \in {0} |-> a]
  OBVIOUS
<1>2. Len(<<>>) = 0 /\ g[0] = a
  BY <1>1
<1>3. Path(a, <<>>, g) /\ g[Len(<<>>)] = a
  BY <1>2 DEF Path
<1> QED
  BY <1>3 DEF Goes

\* One call.
LEMMA GoesOne ==
  ASSUME NEW a, NEW c, NEW b, Step(a, c, b)
  PROVE  Goes(a, <<c>>, b)
<1>1. PICK g : g = [k \in 0..1 |-> IF k = 0 THEN a ELSE b]
  OBVIOUS
<1>2. Len(<<c>>) = 1 /\ <<c>>[1] = c /\ g[0] = a /\ g[1] = b
  BY <1>1
<1>3. \A k \in 1..Len(<<c>>) : Step(g[k - 1], <<c>>[k], g[k])
  BY <1>2
<1>4. Path(a, <<c>>, g) /\ g[Len(<<c>>)] = b
  BY <1>2, <1>3 DEF Path
<1> QED
  BY <1>4 DEF Goes

\* Calls after calls.
LEMMA GoesJoins ==
  ASSUME NEW s \in Seq(CallSet), NEW t \in Seq(CallSet), NEW x, NEW y, NEW z, Goes(x, s, y), Goes(y, t, z)
  PROVE  Goes(x, s \o t, z)
<1>1. PICK g : Path(x, s, g) /\ g[Len(s)] = y
  BY DEF Goes
<1>2. PICK h : Path(y, t, h) /\ h[Len(t)] = z
  BY DEF Goes
<1>3. PICK m \in Nat : m = Len(s)
  OBVIOUS
<1>4. PICK n \in Nat : n = Len(t)
  OBVIOUS
<1>5. PICK c \in Seq(CallSet) : c = s \o t
  BY ConcatProperties
<1>6. Len(c) = m + n /\ \A k \in 1..(m + n) : c[k] = IF k <= m THEN s[k] ELSE t[k - m]
  BY <1>3, <1>4, <1>5, ConcatProperties
<1>7. /\ g[0] = x /\ g[m] = y /\ \A k \in 1..m : Step(g[k - 1], s[k], g[k])
      /\ h[0] = y /\ h[n] = z /\ \A k \in 1..n : Step(h[k - 1], t[k], h[k])
  BY <1>1, <1>2, <1>3, <1>4 DEF Path
<1>8. PICK j : j = [k \in 0..(m + n) |-> IF k <= m THEN g[k] ELSE h[k - m]]
  OBVIOUS
<1>9. \A k \in 0..(m + n) : j[k] = IF k <= m THEN g[k] ELSE h[k - m]
  BY <1>8
<1>10. j[0] = x
  BY <1>7, <1>9
<1>11. j[m + n] = z
  <2>1. CASE n = 0
    BY <1>7, <1>9, <2>1
  <2>2. CASE n # 0
    <3>1. ~(m + n <= m) /\ (m + n) - m = n /\ m + n \in 0..(m + n)
      BY <2>2
    <3> QED
      BY <1>7, <1>9, <3>1
  <2> QED
    BY <2>1, <2>2
<1>12. ASSUME NEW k \in 1..(m + n) PROVE Step(j[k - 1], c[k], j[k])
  <2>0. k \in 0..(m + n) /\ k - 1 \in 0..(m + n)
    OBVIOUS
  <2>1. CASE k <= m
    <3>1. j[k] = g[k] /\ j[k - 1] = g[k - 1] /\ c[k] = s[k] /\ k \in 1..m
      BY <1>6, <1>9, <2>0, <2>1
    <3> QED
      BY <1>7, <3>1
  <2>2. CASE k > m
    <3>1. k - m \in 1..n /\ ~(k <= m)
      BY <2>2
    <3>2. j[k] = h[k - m] /\ c[k] = t[k - m]
      BY <1>6, <1>9, <2>0, <3>1
    <3>3. j[k - 1] = h[k - m - 1]
      <4>1. CASE k - 1 = m
        BY <1>7, <1>9, <2>0, <4>1
      <4>2. CASE k - 1 # m
        <5>1. ~(k - 1 <= m) /\ (k - 1) - m = k - m - 1
          BY <2>2, <4>2
        <5> QED
          BY <1>9, <2>0, <5>1
      <4> QED
        BY <4>1, <4>2
    <3>4. Step(h[k - m - 1], t[k - m], h[k - m])
      BY <1>7, <3>1
    <3> QED
      BY <3>2, <3>3, <3>4
  <2> QED
    BY <2>1, <2>2
<1>13. Path(x, c, j) /\ j[Len(c)] = z
  BY <1>6, <1>10, <1>11, <1>12 DEF Path
<1> QED
  BY <1>5, <1>13 DEF Goes

\* The first call may be made, and after it the others.
LEMMA GoesHead ==
  ASSUME NEW s \in Seq(CallSet), s # <<>>, NEW x, NEW z, Goes(x, s, z)
  PROVE  \E y : Step(x, Head(s), y) /\ Goes(y, Tail(s), z)
<1>1. PICK g : Path(x, s, g) /\ g[Len(s)] = z
  BY DEF Goes
<1>2. PICK n \in Nat : n + 1 = Len(s)
  <2>1. Len(s) \in Nat /\ Len(s) # 0
    BY EmptySeq
  <2> QED
    BY <2>1
<1>3. PICK t \in Seq(CallSet) : t = Tail(s)
  BY HeadTailProperties
<1>4. Len(t) = n /\ Head(s) = s[1] /\ \A k \in 1..n : t[k] = s[k + 1]
  BY <1>2, <1>3, HeadTailProperties
<1>5. g[0] = x /\ g[n + 1] = z /\ \A k \in 1..(n + 1) : Step(g[k - 1], s[k], g[k])
  BY <1>1, <1>2 DEF Path
<1>6. Step(x, s[1], g[1])
  BY <1>5
<1>7. PICK h : h = [k \in 0..n |-> g[k + 1]]
  OBVIOUS
<1>8. h[0] = g[1] /\ h[n] = z /\ \A k \in 0..n : h[k] = g[k + 1]
  BY <1>5, <1>7
<1>9. ASSUME NEW k \in 1..n PROVE Step(h[k - 1], t[k], h[k])
  <2>1. h[k - 1] = g[k] /\ h[k] = g[k + 1] /\ t[k] = s[k + 1]
    BY <1>4, <1>8
  <2>2. k + 1 \in 1..(n + 1) /\ (k + 1) - 1 = k
    OBVIOUS
  <2>3. Step(g[k], s[k + 1], g[k + 1])
    BY <1>5, <2>2
  <2> QED
    BY <2>1, <2>3
<1>10. Path(g[1], t, h) /\ h[Len(t)] = z
  BY <1>4, <1>8, <1>9 DEF Path
<1>11. Goes(g[1], t, z)
  BY <1>10 DEF Goes
<1> QED
  BY <1>3, <1>4, <1>6, <1>11

(* Calls that write members of an object, elements of an array, a value.   *)
Members == {t \in Seq(CallSet) : \A o \in Seq(Mark) : o # <<>> /\ Last(o) = "rbrace" =>
              Goes(Sight(o, FALSE, FALSE), t, Sight(o, FALSE, FALSE))}
Items == {t \in Seq(CallSet) : \A o \in Seq(Mark) : o # <<>> /\ Last(o) = "rbracket" =>
            Goes(Sight(o, FALSE, FALSE), t, Sight(o, FALSE, FALSE))}
Vals == {t \in Seq(CallSet) : \A o \in Seq(Mark), n, w \in BOOLEAN : AtValue(Sight(o, n, w)) =>
           Goes(Sight(o, n, w), t, Sight(o, FALSE, o = <<>>))}

\* The fields of what is seen.
LEMMA SightIs == \A o, n, w : Sight(o, n, w).open = o /\ Sight(o, n, w).named = n /\ Sight(o, n, w).whole = w
BY DEF Sight

\* Members after members.
LEMMA MembersJoin == <<>> \in Members /\ \A s, t \in Members : s \o t \in Members
<1>1. <<>> \in Members
  <2>1. \A o \in Seq(Mark) : Goes(Sight(o, FALSE, FALSE), <<>>, Sight(o, FALSE, FALSE))
    BY GoesNone, Zenon
  <2>2. <<>> \in Seq(CallSet)
    OBVIOUS
  <2> QED
    BY <2>1, <2>2, Zenon DEF Members
<1>2. ASSUME NEW s \in Members, NEW t \in Members PROVE s \o t \in Members
  <2>1. s \in Seq(CallSet) /\ t \in Seq(CallSet)
    BY DEF Members
  <2>2. s \o t \in Seq(CallSet)
    BY <2>1, ConcatProperties
  <2>3. ASSUME NEW o \in Seq(Mark), o # <<>>, Last(o) = "rbrace"
        PROVE  Goes(Sight(o, FALSE, FALSE), s \o t, Sight(o, FALSE, FALSE))
    <3>1. PICK a : a = Sight(o, FALSE, FALSE)
      OBVIOUS
    <3>2. Goes(a, s, a) /\ Goes(a, t, a)
      BY <2>3, <3>1 DEF Members
    <3> QED
      BY <2>1, <3>1, <3>2, GoesJoins
  <2> QED
    BY <2>2, <2>3 DEF Members
<1> QED
  BY <1>1, <1>2

\* Elements after elements.
LEMMA ItemsJoin == <<>> \in Items /\ \A s, t \in Items : s \o t \in Items
<1>1. <<>> \in Items
  <2>1. \A o \in Seq(Mark) : Goes(Sight(o, FALSE, FALSE), <<>>, Sight(o, FALSE, FALSE))
    BY GoesNone, Zenon
  <2>2. <<>> \in Seq(CallSet)
    OBVIOUS
  <2> QED
    BY <2>1, <2>2, Zenon DEF Items
<1>2. ASSUME NEW s \in Items, NEW t \in Items PROVE s \o t \in Items
  <2>1. s \in Seq(CallSet) /\ t \in Seq(CallSet)
    BY DEF Items
  <2>2. s \o t \in Seq(CallSet)
    BY <2>1, ConcatProperties
  <2>3. ASSUME NEW o \in Seq(Mark), o # <<>>, Last(o) = "rbracket"
        PROVE  Goes(Sight(o, FALSE, FALSE), s \o t, Sight(o, FALSE, FALSE))
    <3>1. PICK a : a = Sight(o, FALSE, FALSE)
      OBVIOUS
    <3>2. Goes(a, s, a) /\ Goes(a, t, a)
      BY <2>3, <3>1 DEF Items
    <3> QED
      BY <2>1, <3>1, <3>2, GoesJoins
  <2> QED
    BY <2>2, <2>3 DEF Items
<1> QED
  BY <1>1, <1>2

\* A call that writes is a value.
LEMMA WriteIsValue ==
  ASSUME NEW c \in Written
  PROVE  <<c>> \in Vals
<1>1. <<c>> \in Seq(CallSet)
  BY DEF CallSet
<1>2. ASSUME NEW o \in Seq(Mark), NEW n \in BOOLEAN, NEW w \in BOOLEAN, AtValue(Sight(o, n, w))
      PROVE  Goes(Sight(o, n, w), <<c>>, Sight(o, FALSE, o = <<>>))
  <2>0. PICK a : a = Sight(o, n, w)
    OBVIOUS
  <2>1. Valued(Sight(o, n, w)) = Sight(o, FALSE, o = <<>>)
    <3>1. a.open = o
      BY <2>0 DEF Sight
    <3>2. Valued(a) = Sight(o, FALSE, o = <<>>)
      BY <3>1 DEF Valued
    <3> QED
      BY <2>0, <3>2
  <2>2. Step(Sight(o, n, w), c, Sight(o, FALSE, o = <<>>))
    BY <1>2, <2>1 DEF Step
  <2> QED
    BY <2>2, GoesOne
<1> QED
  BY <1>1, <1>2 DEF Vals

\* A value is an element of an array.
LEMMA ValueIsItem == Vals \subseteq Items
<1> SUFFICES ASSUME NEW t \in Vals PROVE t \in Items
  OBVIOUS
<1>1. ASSUME NEW o \in Seq(Mark), o # <<>>, Last(o) = "rbracket"
      PROVE  Goes(Sight(o, FALSE, FALSE), t, Sight(o, FALSE, FALSE))
  <2>0. PICK a : a = Sight(o, FALSE, FALSE)
    OBVIOUS
  <2>1. AtValue(Sight(o, FALSE, FALSE))
    <3>1. a.open = o /\ a.named = FALSE
      BY <2>0 DEF Sight
    <3> QED
      BY <1>1, <2>0, <3>1 DEF AtValue, InArray
  <2>2. Goes(Sight(o, FALSE, FALSE), t, Sight(o, FALSE, o = <<>>))
    BY <2>1 DEF Vals
  <2> QED
    BY <1>1, <2>2
<1> QED
  BY <1>1 DEF Items, Vals

\* A key and a value are a member of an object.
LEMMA NamedIsMember ==
  ASSUME NEW k \in Seq(Plain), NEW t \in Vals
  PROVE  named_as(k, t) \in Members
<1>1. PICK c \in KeyCalls : c = Key(k)
  BY DEF KeyCalls
<1>2. <<c>> \in Seq(CallSet) /\ t \in Seq(CallSet)
  BY DEF CallSet, Vals
<1>3. named_as(k, t) = <<c>> \o t /\ <<c>> \o t \in Seq(CallSet)
  BY <1>1, <1>2, ConcatProperties DEF named_as
<1>4. ASSUME NEW o \in Seq(Mark), o # <<>>, Last(o) = "rbrace"
      PROVE  Goes(Sight(o, FALSE, FALSE), <<c>> \o t, Sight(o, FALSE, FALSE))
  <2>1. InObject(Sight(o, FALSE, FALSE)) /\ AtValue(Sight(o, TRUE, FALSE))
    BY <1>4, SightIs DEF InObject, AtValue
  <2>2. Step(Sight(o, FALSE, FALSE), c, Sight(o, TRUE, FALSE))
    BY <2>1, SightIs DEF Step
  <2>3. Goes(Sight(o, FALSE, FALSE), <<c>>, Sight(o, TRUE, FALSE))
    BY <2>2, GoesOne
  <2>4. Goes(Sight(o, TRUE, FALSE), t, Sight(o, FALSE, o = <<>>))
    BY <2>1 DEF Vals
  <2>5. Sight(o, FALSE, o = <<>>) = Sight(o, FALSE, FALSE)
    BY <1>4
  <2> QED
    BY <1>2, <2>3, <2>4, <2>5, GoesJoins
<1> QED
  BY <1>3, <1>4 DEF Members

\* An object and an array, from bracket to bracket.
LEMMA Enclosed ==
  ASSUME NEW m \in Mark, NEW b \in Bare, NEW e \in Bare, NEW t \in Seq(CallSet),
         NEW o \in Seq(Mark), NEW n \in BOOLEAN, NEW w \in BOOLEAN,
         b = Call(IF m = "rbrace" THEN "begin_object" ELSE "begin_array"),
         e = Call(IF m = "rbrace" THEN "end_object" ELSE "end_array"),
         AtValue(Sight(o, n, w)),
         \A u \in Seq(Mark) : u # <<>> /\ Last(u) = m => Goes(Sight(u, FALSE, FALSE), t, Sight(u, FALSE, FALSE))
  PROVE  /\ (<<b>> \o t) \o <<e>> \in Seq(CallSet)
         /\ Goes(Sight(o, n, w), (<<b>> \o t) \o <<e>>, Sight(o, FALSE, o = <<>>))
<1>1. <<b>> \in Seq(CallSet) /\ <<e>> \in Seq(CallSet)
  BY DEF CallSet
<1>2. PICK s \in Seq(CallSet) : s = <<b>> \o t
  BY <1>1, ConcatProperties
<1>3. s \o <<e>> \in Seq(CallSet)
  BY <1>1, ConcatProperties
<1>4. PICK u \in Seq(Mark) : u = Append(o, m)
  <2>1. Append(o, m) \in Seq(Mark)
    OBVIOUS
  <2> QED
    BY <2>1, Zenon
<1>5. u # <<>> /\ Last(u) = m /\ Front(u) = o
  <2>1. Len(o) \in Nat /\ Len(u) = Len(o) + 1 /\ u[Len(u)] = m /\ \A i \in 1..Len(o) : u[i] = o[i]
    BY <1>4
  <2>2. PICK v : v = Front(u)
    OBVIOUS
  <2>3. v = SubSeq(u, 1, Len(o))
    BY <2>1, <2>2 DEF Front
  <2>4. v \in Seq(Mark) /\ Len(v) = Len(o) /\ \A i \in 1..Len(o) : v[i] = u[i]
    BY <2>1, <2>3
  <2>5. v = o
    BY <2>1, <2>4, SeqEqual
  <2>6. u # <<>>
    BY <2>1
  <2> QED
    BY <2>1, <2>2, <2>5, <2>6 DEF Last
<1>6. Step(Sight(o, n, w), b, Sight(u, FALSE, FALSE))
  BY <1>4, SightIs DEF Step, Mark
<1>7. Goes(Sight(o, n, w), <<b>>, Sight(u, FALSE, FALSE))
  BY <1>6, GoesOne
<1>8. Goes(Sight(u, FALSE, FALSE), t, Sight(u, FALSE, FALSE))
  BY <1>5
<1>9. Goes(Sight(o, n, w), s, Sight(u, FALSE, FALSE))
  BY <1>1, <1>2, <1>7, <1>8, GoesJoins
<1>10. Step(Sight(u, FALSE, FALSE), e, Sight(o, FALSE, o = <<>>))
  <2>1. PICK a : a = Sight(u, FALSE, FALSE)
    OBVIOUS
  <2>2. a.open = u /\ a.named = FALSE
    BY <2>1 DEF Sight
  <2>3. PICK z : z = Sight(o, FALSE, o = <<>>)
    OBVIOUS
  <2>4. z = Sight(Front(a.open), FALSE, Front(a.open) = <<>>)
    BY <1>5, <2>2, <2>3
  <2>5. CASE m = "rbrace"
    <3>1. InObject(a) /\ e = Call("end_object")
      BY <1>5, <2>2, <2>5 DEF InObject
    <3>2. Step(a, e, z)
      BY <2>4, <3>1, Zenon DEF Step
    <3> QED
      BY <2>1, <2>3, <3>2
  <2>6. CASE m = "rbracket"
    <3>1. InArray(a) /\ e = Call("end_array")
      BY <1>5, <2>2, <2>6 DEF InArray
    <3>2. Step(a, e, z)
      BY <2>4, <3>1, Zenon DEF Step
    <3> QED
      BY <2>1, <2>3, <3>2
  <2> QED
    BY <2>5, <2>6 DEF Mark
<1>11. Goes(Sight(u, FALSE, FALSE), <<e>>, Sight(o, FALSE, o = <<>>))
  BY <1>10, GoesOne
<1>12. Goes(Sight(o, n, w), s \o <<e>>, Sight(o, FALSE, o = <<>>))
  BY <1>1, <1>9, <1>11, GoesJoins
<1> QED
  BY <1>2, <1>3, <1>12

\* Members between braces are a value.
LEMMA ObjectIsValue ==
  ASSUME NEW t \in Members
  PROVE  object(t) \in Vals
<1>1. PICK b \in Bare : b = Call("begin_object")
  BY DEF Bare
<1>2. PICK e \in Bare : e = Call("end_object")
  BY DEF Bare
<1>3. object(t) = (<<b>> \o t) \o <<e>>
  BY <1>1, <1>2 DEF object
<1>4. t \in Seq(CallSet) /\ "rbrace" \in Mark
      /\ \A u \in Seq(Mark) : u # <<>> /\ Last(u) = "rbrace" =>
           Goes(Sight(u, FALSE, FALSE), t, Sight(u, FALSE, FALSE))
  BY DEF Members, Mark
<1>5. ASSUME NEW o \in Seq(Mark), NEW n \in BOOLEAN, NEW w \in BOOLEAN, AtValue(Sight(o, n, w))
      PROVE  /\ (<<b>> \o t) \o <<e>> \in Seq(CallSet)
             /\ Goes(Sight(o, n, w), (<<b>> \o t) \o <<e>>, Sight(o, FALSE, o = <<>>))
  BY <1>1, <1>2, <1>4, <1>5, Enclosed
<1>6. (<<b>> \o t) \o <<e>> \in Seq(CallSet)
  <2>1. <<b>> \in Seq(CallSet) /\ <<e>> \in Seq(CallSet)
    BY DEF CallSet
  <2> QED
    BY <1>4, <2>1, ConcatProperties
<1> QED
  BY <1>3, <1>5, <1>6 DEF Vals

\* Elements between brackets are a value.
LEMMA ArrayIsValue ==
  ASSUME NEW t \in Items
  PROVE  array(t) \in Vals
<1>1. PICK b \in Bare : b = Call("begin_array")
  BY DEF Bare
<1>2. PICK e \in Bare : e = Call("end_array")
  BY DEF Bare
<1>3. array(t) = (<<b>> \o t) \o <<e>>
  BY <1>1, <1>2 DEF array
<1>4. t \in Seq(CallSet) /\ "rbracket" \in Mark
      /\ \A u \in Seq(Mark) : u # <<>> /\ Last(u) = "rbracket" =>
           Goes(Sight(u, FALSE, FALSE), t, Sight(u, FALSE, FALSE))
  BY DEF Items, Mark
<1>5. ASSUME NEW o \in Seq(Mark), NEW n \in BOOLEAN, NEW w \in BOOLEAN, AtValue(Sight(o, n, w))
      PROVE  /\ (<<b>> \o t) \o <<e>> \in Seq(CallSet)
             /\ Goes(Sight(o, n, w), (<<b>> \o t) \o <<e>>, Sight(o, FALSE, o = <<>>))
  BY <1>1, <1>2, <1>4, <1>5, Enclosed
<1>6. (<<b>> \o t) \o <<e>> \in Seq(CallSet)
  <2>1. <<b>> \in Seq(CallSet) /\ <<e>> \in Seq(CallSet)
    BY DEF CallSet
  <2> QED
    BY <1>4, <2>1, ConcatProperties
<1> QED
  BY <1>3, <1>5, <1>6 DEF Vals

\* The same calls again and again, as the loops of dump_state make them.
LEMMA TimesClosed ==
  ASSUME NEW C, <<>> \in C, \A s, t \in C : s \o t \in C, NEW n \in Nat, NEW calls \in C
  PROVE  times(n, calls) \in C
<1>1. PICK seqs : seqs = [i \in 1..n |-> calls]
  OBVIOUS
<1>2. Len(seqs) = n /\ (n = 0 => seqs = <<>>) /\ \A i \in 1..n : seqs[i] \in C
  BY <1>1
<1>3. FlattenSeq(seqs) \in C
  BY <1>2, FlattenClosed
<1> QED
  BY <1>1, <1>3 DEF times

\* Any number of members.
LEMMA TimesMembers == \A n \in Nat, calls \in Members : times(n, calls) \in Members
BY TimesClosed, MembersJoin

\* Any number of elements.
LEMMA TimesItems == \A n \in Nat, calls \in Items : times(n, calls) \in Items
BY TimesClosed, ItemsJoin

\* From the calls for a value to those for a line.
Fresh == Sight(<<>>, FALSE, FALSE)
Done == Sight(<<>>, FALSE, TRUE)

\* A value takes a new writer to a complete text.
LEMMA ValueGoes ==
  ASSUME NEW t \in Vals
  PROVE  t \in Seq(CallSet) /\ Goes(Fresh, t, Done)
<1>1. PICK a : a = Sight(<<>>, FALSE, FALSE)
  OBVIOUS
<1>2. a.open = <<>> /\ a.named = FALSE /\ a.whole = FALSE
  BY <1>1 DEF Sight
<1>3. AtValue(Sight(<<>>, FALSE, FALSE))
  BY <1>1, <1>2 DEF AtValue
<1>4. <<>> \in Seq(Mark)
  OBVIOUS
<1>5. Goes(Sight(<<>>, FALSE, FALSE), t, Sight(<<>>, FALSE, <<>> = <<>>))
  BY <1>3, <1>4 DEF Vals
<1>6. Sight(<<>>, FALSE, <<>> = <<>>) = Done
  BY DEF Done
<1> QED
  BY <1>5, <1>6 DEF Vals, Fresh

\* What may follow a complete text.
LEMMA LineGoes ==
  /\ Step(Done, Call("take"), Fresh) /\ Step(Fresh, Call("take"), Fresh)
  /\ Step(Done, Call("newline"), Fresh)
<1>1. PICK a : a = Done
  OBVIOUS
<1>2. PICK b : b = Fresh
  OBVIOUS
<1>3. /\ a.open = <<>> /\ a.named = FALSE /\ a.whole = TRUE
      /\ b.open = <<>> /\ b.named = FALSE /\ b.whole = FALSE
      /\ b = Sight(<<>>, FALSE, FALSE)
  BY <1>1, <1>2 DEF Sight, Done, Fresh
<1>4. Step(a, Call("take"), b) /\ Step(b, Call("take"), b) /\ Step(a, Call("newline"), b)
  BY <1>3, Zenon DEF Step
<1> QED
  BY <1>1, <1>2, <1>4

\* dump_state makes its calls in an order the header allows.
LEMMA DumpGoes ==
  ASSUME NEW i \in BOOLEAN, NEW n \in Nat, NEW m \in Nat,
         NEW x \in {"finite", "nan"}, NEW s \in Text
  PROVE  dump_state(i, n, m, x, s) \in Seq(CallSet) /\ Goes(Fresh, dump_state(i, n, m, x, s), Fresh)
<1> DEFINE put(v) == named_as(<<"a">>, <<v>>)
           nest(calls) == named_as(<<"a">>, calls)
<1>1. <<"a">> \in Seq(Plain) /\ s \in Seq(Plain)
  BY JsonAssumption DEF Plain
<1>2. ASSUME NEW v \in Written PROVE put(v) \in Members
  <2>1. <<v>> \in Vals
    BY WriteIsValue
  <2>2. named_as(<<"a">>, <<v>>) \in Members
    BY <1>1, <2>1, NamedIsMember
  <2> QED
    BY <2>2
<1>3. \A calls \in Vals : nest(calls) \in Members
  BY <1>1, NamedIsMember
<1>4. Write("U64", <<>>) \in Written /\ Write("F64", x) \in Written /\ Write("Str", s) \in Written
      /\ Write("Bool", <<>>) \in Written
  BY <1>1 DEF Written
<1>5. PICK u64 \in Members : u64 = put(Write("U64", <<>>))
  BY <1>2, <1>4
<1>6. PICK f64 \in Members : f64 = put(Write("F64", x))
  BY <1>2, <1>4
<1>7. PICK str \in Members : str = put(Write("Str", s))
  BY <1>2, <1>4
<1>8. PICK bool \in Members : bool = put(Write("Bool", <<>>))
  BY <1>2, <1>4
<1>9. PICK nested \in Members : nested = nest(object(times(3, f64)))
  BY <1>3, TimesMembers, ObjectIsValue
<1>10. PICK self \in Members : self = str \o nested \o nested \o times(8, u64)
  BY TimesMembers, MembersJoin
<1>11. PICK who \in Members : who = IF i THEN nest(object(self)) ELSE <<>>
  BY <1>3, ObjectIsValue, MembersJoin
<1>12. PICK near \in Members : near = nest(array(times(n, object(str \o f64 \o nested))))
  BY <1>3, MembersJoin, ObjectIsValue, ValueIsItem, TimesItems, ArrayIsValue
<1>13. PICK ran \in Members :
         ran = nest(object(u64 \o nest(array(times(m, object(str \o f64 \o f64 \o u64))))))
  BY <1>3, MembersJoin, ObjectIsValue, ValueIsItem, TimesItems, ArrayIsValue
<1>14. PICK all \in Members : all = u64 \o u64 \o f64 \o bool \o who \o times(3, u64) \o near \o ran
  BY TimesMembers, MembersJoin
<1>15. PICK last \in CallSet : last = Call("take")
  BY DEF CallSet, Bare
<1>16. dump_state(i, n, m, x, s) = object(all) \o <<last>>
  BY <1>5, <1>6, <1>7, <1>8, <1>9, <1>10, <1>11, <1>12, <1>13, <1>14, <1>15 DEF dump_state
<1>17. object(all) \in Seq(CallSet) /\ Goes(Fresh, object(all), Done) /\ <<last>> \in Seq(CallSet)
  BY ObjectIsValue, ValueGoes
<1>18. Goes(Done, <<last>>, Fresh)
  BY <1>15, LineGoes, GoesOne
<1>19. object(all) \o <<last>> \in Seq(CallSet) /\ Goes(Fresh, object(all) \o <<last>>, Fresh)
  BY <1>17, <1>18, GoesJoins, ConcatProperties
<1> QED
  BY <1>16, <1>19

\* The values of the model are among those of the lemmas.
LEMMA ValuesWritten == Values \subseteq Written
<1>1. Text \subseteq Seq(Plain)
  BY JsonAssumption DEF Plain
<1> QED
  BY <1>1 DEF Values, Written

\* Two calls.
LEMMA GoesPair ==
  ASSUME NEW x, NEW c, NEW y, NEW d, NEW z, Step(x, c, y), Step(y, d, z)
  PROVE  Goes(x, <<c, d>>, z)
<1>1. PICK g : g = [k \in 0..2 |-> IF k = 0 THEN x ELSE IF k = 1 THEN y ELSE z]
  OBVIOUS
<1>2. Len(<<c, d>>) = 2 /\ <<c, d>>[1] = c /\ <<c, d>>[2] = d /\ g[0] = x /\ g[1] = y /\ g[2] = z
  BY <1>1
<1>3. ASSUME NEW k \in 1..2 PROVE Step(g[k - 1], <<c, d>>[k], g[k])
  <2>1. CASE k = 1
    BY <1>2, <2>1
  <2>2. CASE k = 2
    BY <1>2, <2>2
  <2> QED
    BY <2>1, <2>2
<1>4. Path(x, <<c, d>>, g) /\ g[Len(<<c, d>>)] = z
  BY <1>2, <1>3 DEF Path
<1> QED
  BY <1>4 DEF Goes

\* format makes its calls in an order the header allows.
LEMMA FormatGoes ==
  ASSUME NEW event \in Text, NEW n \in Nat, NEW fields \in [1..n -> Values]
  PROVE  format(event, fields) \in Seq(CallSet) /\ Goes(Fresh, format(event, fields), Fresh)
<1>1. <<"a">> \in Seq(Plain) /\ event \in Seq(Plain)
  BY JsonAssumption DEF Plain
<1>2. ASSUME NEW k \in Seq(Plain), NEW v \in Written PROVE named_as(k, <<v>>) \in Members
  <2>1. <<v>> \in Vals
    BY WriteIsValue
  <2> QED
    BY <2>1, NamedIsMember
<1>3. Write("Str", <<"a">>) \in Written /\ Write("Str", event) \in Written
  BY <1>1 DEF Written
<1>4. PICK level \in Members : level = named_as(<<"a">>, <<Write("Str", <<"a">>)>>)
  BY <1>1, <1>2, <1>3
<1>5. PICK name \in Members : name = named_as(<<"a">>, <<Write("Str", event)>>)
  BY <1>1, <1>2, <1>3
<1>6. PICK seqs : seqs = [i \in 1..Len(fields) |-> named_as(event, <<fields[i]>>)]
  OBVIOUS
<1>7. Len(fields) = n
  OBVIOUS
<1>8. ASSUME NEW i \in 1..n PROVE seqs[i] \in Members
  <2>1. fields[i] \in Written
    BY ValuesWritten
  <2>2. named_as(event, <<fields[i]>>) \in Members
    BY <1>1, <1>2, <2>1
  <2>3. seqs[i] = named_as(event, <<fields[i]>>)
    BY <1>6, <1>7
  <2> QED
    BY <2>2, <2>3
<1>9. Len(seqs) = n /\ (n = 0 => seqs = <<>>)
  BY <1>6, <1>7
<1>10. PICK rest \in Members : rest = FlattenSeq(seqs)
  <2>1. <<>> \in Members /\ \A s, t \in Members : s \o t \in Members
    BY MembersJoin
  <2>2. FlattenSeq(seqs) \in Members
    BY <1>8, <1>9, <2>1, FlattenClosed
  <2> QED
    BY <2>2, Zenon
<1>11. PICK all \in Members : all = level \o name \o rest
  BY MembersJoin
<1>12. PICK last \in CallSet : last = Call("take")
  BY DEF CallSet, Bare
<1>13. PICK line \in CallSet : line = Call("newline")
  BY DEF CallSet, Bare
<1>14. format(event, fields) = object(all) \o <<line, last>>
  BY <1>4, <1>5, <1>6, <1>10, <1>11, <1>12, <1>13 DEF format
<1>15. object(all) \in Seq(CallSet) /\ Goes(Fresh, object(all), Done) /\ <<line, last>> \in Seq(CallSet)
  BY ObjectIsValue, ValueGoes
<1>16. Goes(Done, <<line, last>>, Fresh)
  BY <1>12, <1>13, LineGoes, GoesPair
<1>17. object(all) \o <<line, last>> \in Seq(CallSet) /\ Goes(Fresh, object(all) \o <<line, last>>, Fresh)
  BY <1>15, <1>16, GoesJoins, ConcatProperties
<1> QED
  BY <1>14, <1>17

-----------------------------------------------------------------------------
(* The writer is between two calls as above, and the calls a client has    *)
(* yet to make may all be made.                                            *)
JsonInv ==
  /\ \E e : IsPlaced(stack, reader, named, e)
  /\ todo \in Seq(CallSet)
  /\ \E b : Goes(Seen(stack, reader, named), todo, b)

\* A new writer with nothing to do.
LEMMA JsonStart == JsonInit => JsonInv
<1> SUFFICES ASSUME JsonInit PROVE JsonInv
  OBVIOUS
<1>1. stack = <<>> /\ reader = Rd("value", <<>>, "no") /\ named = FALSE /\ todo = <<>>
  BY StartIs DEF JsonInit
<1>2. IsPlaced(stack, reader, named, "value")
  BY <1>1, StartIs DEF IsPlaced
<1>3. Goes(Seen(stack, reader, named), todo, Seen(stack, reader, named))
  BY <1>1, GoesNone
<1> QED
  BY <1>1, <1>2, <1>3 DEF JsonInv

\* What the header allows may be done.
LEMMA AllowedSteps ==
  ASSUME NEW e, IsPlaced(stack, reader, named, e), NEW c \in Allowed
  PROVE  \E b : Step(Seen(stack, reader, named), c, b)
<1>1. PICK a : a = Seen(stack, reader, named)
  OBVIOUS
<1>2. /\ a.open = Marks(stack) /\ a.named = named /\ a.whole = (stack = <<>> /\ e = "more")
      /\ (Marks(stack) = <<>> <=> stack = <<>>) /\ stack \in Seq(Entry) /\ named \in BOOLEAN
      /\ (stack # <<>> => Last(Marks(stack)) = MarkOf(stack[Len(stack)]))
  BY <1>1, SeenIs
<1>3. reader = Rd(e, Marks(stack), "no") /\ Place(stack, e, named)
  BY DEF IsPlaced
<1>4. stack # <<>> => stack[Len(stack)] \in Entry
  <2>1. stack # <<>> => Len(stack) \in 1..Len(stack)
    BY <1>2, EmptySeq
  <2> QED
    BY <1>2, <2>1, ElementOfSeq
<1>5. In("Array") => InArray(a)
  BY <1>2, <1>3 DEF In, Last, InArray, MarkOf, Place
<1>6. In("Object") /\ ~named => InObject(a)
  <2>1. In("Object") => stack # <<>> /\ MarkOf(stack[Len(stack)]) = "rbrace"
    BY DEF In, Last, MarkOf
  <2> QED
    BY <1>2, <2>1 DEF InObject
<1>7. stack # <<>> => In("Array") \/ In("Object")
  BY <1>4 DEF In, Last, Entry
<1>8. CASE MayBeginValue
  <2>1. AtValue(a)
    <3>1. CASE named
      BY <1>2, <3>1 DEF AtValue
    <3>2. CASE In("Array")
      BY <1>5, <3>2 DEF AtValue
    <3>3. CASE reader = Start
      <4>1. reader.open = Marks(stack) /\ reader.expect = e
        BY <1>3 DEF Rd
      <4>2. Marks(stack) = <<>> /\ e = "value"
        BY <3>3, <4>1 DEF Start
      <4> QED
        BY <1>2, <4>2 DEF AtValue
    <3> QED
      BY <1>8, <3>1, <3>2, <3>3 DEF MayBeginValue
  <2>2. \/ c \in Values \/ c = Call("begin_object") \/ c = Call("begin_array")
        \/ c = Call("end_array") /\ In("Array")
    <3>1. c \in Values \cup
             (IF Len(stack) < MaxDepth THEN {Call("begin_object"), Call("begin_array")} ELSE {}) \cup
             (IF In("Array") THEN {Call("end_array")} ELSE {})
      BY <1>8 DEF Allowed
    <3> QED
      BY <3>1
  <2>3. CASE c \in Values
    <3>1. c \in Written
      BY <2>3, ValuesWritten
    <3>2. Step(a, c, Valued(a))
      BY <2>1, <3>1 DEF Step
    <3> QED
      BY <1>1, <3>2
  <2>4. CASE c = Call("begin_object")
    <3>1. Step(a, c, Sight(Append(a.open, "rbrace"), FALSE, FALSE))
      BY <2>1, <2>4, Zenon DEF Step
    <3> QED
      BY <1>1, <3>1
  <2>5. CASE c = Call("begin_array")
    <3>1. Step(a, c, Sight(Append(a.open, "rbracket"), FALSE, FALSE))
      BY <2>1, <2>5, Zenon DEF Step
    <3> QED
      BY <1>1, <3>1
  <2>6. CASE c = Call("end_array") /\ In("Array")
    <3>1. Step(a, c, Sight(Front(a.open), FALSE, Front(a.open) = <<>>))
      BY <1>5, <2>6, Zenon DEF Step
    <3> QED
      BY <1>1, <3>1
  <2> QED
    BY <2>2, <2>3, <2>4, <2>5, <2>6
<1>9. CASE ~MayBeginValue /\ In("Object")
  <2>1. InObject(a)
    BY <1>6, <1>9 DEF MayBeginValue
  <2>2. c \in {Key(k) : k \in Text} \/ c = Call("end_object")
    BY <1>9 DEF Allowed
  <2>3. CASE c \in {Key(k) : k \in Text}
    <3>1. c \in KeyCalls
      BY <2>3, JsonAssumption DEF KeyCalls, Plain
    <3>2. Step(a, c, Sight(a.open, TRUE, FALSE))
      BY <2>1, <3>1, Zenon DEF Step
    <3> QED
      BY <1>1, <3>2
  <2>4. CASE c = Call("end_object")
    <3>1. Step(a, c, Sight(Front(a.open), FALSE, Front(a.open) = <<>>))
      BY <2>1, <2>4, Zenon DEF Step
    <3> QED
      BY <1>1, <3>1
  <2> QED
    BY <2>2, <2>3, <2>4
<1>10. CASE ~MayBeginValue /\ ~In("Object")
  <2>1. c \in {Call("newline"), Call("take"), Call("clear")}
    BY <1>10 DEF Allowed
  <2>2. stack = <<>> /\ ~named /\ reader # Start
    BY <1>7, <1>10 DEF MayBeginValue
  <2>3. e = "more"
    <3>1. e \in {"value", "more"}
      BY <1>3, <2>2 DEF Place
    <3> QED
      BY <1>2, <1>3, <2>2, <3>1, StartIs
  <2>4. a.open = <<>> /\ ~a.named /\ a.whole
    BY <1>2, <2>2, <2>3
  <2>5. Step(a, c, Sight(<<>>, FALSE, FALSE))
    BY <2>1, <2>4 DEF Step
  <2> QED
    BY <1>1, <2>5
<1> QED
  BY <1>8, <1>9, <1>10

\* Each action: mission code, the two clients, and their calls.
LEMMA JsonStep == ASSUME JsonInv, [JsonNext]_jsonVars PROVE JsonInv'
<1>1. PICK e : IsPlaced(stack, reader, named, e)
  BY DEF JsonInv
<1>2. PICK b : Goes(Seen(stack, reader, named), todo, b)
  BY DEF JsonInv
<1>3. todo \in Seq(CallSet)
  BY DEF JsonInv
<1>4. CASE mission
  <2>1. PICK c \in Allowed : perform(c)
    BY <1>4 DEF mission
  <2>2. PICK z : Step(Seen(stack, reader, named), c, z)
    BY <1>1, AllowedSteps
  <2>3. Arrives(z)
    BY <1>1, <2>1, <2>2, PerformStep
  <2>4. PICK f : IsPlaced(stack', reader', named', f)
    BY <2>3 DEF Arrives
  <2>5. todo' = <<>> /\ todo' \in Seq(CallSet)
    BY <1>4 DEF mission
  <2>6. Goes(Seen(stack', reader', named'), todo', Seen(stack', reader', named'))
    BY <2>5, GoesNone
  <2> QED
    BY <2>4, <2>5, <2>6 DEF JsonInv
<1>5. ASSUME NewWriter, todo' \in Seq(CallSet), Goes(Fresh, todo', Fresh) PROVE JsonInv'
  <2>1. stack' = <<>> /\ reader' = Rd("value", <<>>, "no") /\ named' = named /\ stack = <<>>
    BY <1>5, StartIs DEF NewWriter
  <2>2. named' = FALSE
    BY <1>1, <2>1 DEF IsPlaced, Place
  <2>3. IsPlaced(stack', reader', named', "value")
    BY <2>1, <2>2, StartIs DEF IsPlaced
  <2>4. Seen(stack', reader', named') = Fresh
    <3>1. reader'.open = <<>> /\ reader'.expect = "value"
      BY <2>1 DEF Rd
    <3> QED
      BY <2>1, <2>2, <3>1 DEF Seen, Fresh
  <2>5. Goes(Seen(stack', reader', named'), todo', Fresh)
    BY <1>5, <2>4
  <2> QED
    BY <1>5, <2>3, <2>5 DEF JsonInv
<1>6. CASE call_dump_state
  <2>1. PICK i \in BOOLEAN, n \in 0..MaxItems, t \in 0..MaxItems, x \in {"finite", "nan"}, s \in Text :
          todo' = dump_state(i, n, t, x, s)
    BY <1>6 DEF call_dump_state
  <2>2. n \in Nat /\ t \in Nat
    BY JsonAssumption
  <2>3. todo' \in Seq(CallSet) /\ Goes(Fresh, todo', Fresh)
    BY <2>1, <2>2, DumpGoes
  <2> QED
    BY <1>5, <1>6, <2>3 DEF call_dump_state
<1>7. CASE call_format
  <2>1. PICK event \in Text, fields \in UNION {[1..n -> Values] : n \in 0..MaxItems} :
          todo' = format(event, fields)
    BY <1>7 DEF call_format
  <2>2. PICK n \in 0..MaxItems : fields \in [1..n -> Values]
    BY <2>1
  <2>3. n \in Nat
    BY JsonAssumption
  <2>4. todo' \in Seq(CallSet) /\ Goes(Fresh, todo', Fresh)
    BY <2>1, <2>2, <2>3, FormatGoes
  <2> QED
    BY <1>5, <1>7, <2>4 DEF call_format
<1>8. CASE client
  <2>1. todo # <<>> /\ todo' = Tail(todo) /\ perform(Head(todo))
    BY <1>8 DEF client
  <2>2. PICK y : Step(Seen(stack, reader, named), Head(todo), y) /\ Goes(y, Tail(todo), b)
    BY <1>2, <1>3, <2>1, GoesHead
  <2>3. Arrives(y)
    BY <1>1, <2>1, <2>2, PerformStep
  <2>4. PICK f : IsPlaced(stack', reader', named', f) /\ Seen(stack', reader', named') = y
    BY <2>3 DEF Arrives
  <2>5. todo' \in Seq(CallSet)
    BY <1>3, <2>1, HeadTailProperties
  <2>6. Goes(Seen(stack', reader', named'), todo', b)
    BY <2>1, <2>2, <2>4
  <2> QED
    BY <2>4, <2>5, <2>6 DEF JsonInv
<1>9. CASE UNCHANGED jsonVars
  <2>1. stack' = stack /\ reader' = reader /\ named' = named /\ todo' = todo
    BY <1>9 DEF jsonVars
  <2> QED
    BY <2>1 DEF JsonInv
<1> QED
  BY <1>4, <1>6, <1>7, <1>8, <1>9 DEF JsonNext

(* In every state, whatever calls the header allows have been made and     *)
(* however long the text is, the writer is between two calls with its      *)
(* stack_ and its text in step, and what dump_state or format has yet to   *)
(* call may be called.                                                     *)
THEOREM JsonInvariant == JsonSpec => []JsonInv
<1>1. JsonInit => JsonInv
  BY JsonStart
<1>2. JsonInv /\ [JsonNext]_jsonVars => JsonInv'
  BY JsonStep
<1> QED
  BY <1>1, <1>2, PTL DEF JsonSpec

(* The text written so far is always the beginning of a JSON text, with    *)
(* every comma, escape and bracket in place, and stack_ (well_formed())    *)
(* holds just the scopes that text leaves open.                            *)
THEOREM JsonReadable == JsonSpec => []Readable
<1>1. JsonInv => Readable
  <2> SUFFICES ASSUME JsonInv PROVE Readable
    OBVIOUS
  <2>1. PICK e : IsPlaced(stack, reader, named, e)
    BY DEF JsonInv
  <2>2. reader = Rd(e, Marks(stack), "no") /\ Place(stack, e, named)
    BY <2>1 DEF IsPlaced
  <2>3. reader.expect = e /\ reader.open = Marks(stack)
    BY <2>2 DEF Rd
  <2>4. e # "nothing"
    BY <2>2 DEF Place
  <2>5. reader # Bad
    BY <2>3, <2>4 DEF Bad
  <2> QED
    BY <2>3, <2>5 DEF Readable, Marks, MarkOf
<1> QED
  BY <1>1, JsonInvariant, PTL

(* When dump_state or format takes its text, no value has been left half-  *)
(* written and no scope is open: for every number of neighbours, timings   *)
(* and fields, every string and every kind of value, initialised or not.   *)
THEOREM JsonTakenWhole == JsonSpec => []TakenWhole
<1>1. JsonInv => TakenWhole
  <2> SUFFICES ASSUME JsonInv, todo # <<>>, Head(todo).call = "take"
               PROVE  Whole(reader) /\ stack = <<>>
    BY DEF TakenWhole
  <2>1. PICK e : IsPlaced(stack, reader, named, e)
    BY DEF JsonInv
  <2>2. PICK b : Goes(Seen(stack, reader, named), todo, b)
    BY DEF JsonInv
  <2>3. PICK a : a = Seen(stack, reader, named)
    OBVIOUS
  <2>4. PICK y : Step(a, Head(todo), y)
    BY <2>2, <2>3, GoesHead DEF JsonInv
  <2>5. a.open = <<>> /\ ~a.named
    <3>1. PICK c : c = Head(todo)
      OBVIOUS
    <3>2. c \notin Written /\ c \notin KeyCalls
      BY <3>1, CallsApart
    <3>3. /\ c # Call("begin_object") /\ c # Call("begin_array") /\ c # Call("end_object")
          /\ c # Call("end_array") /\ c # Call("newline")
      BY <3>1 DEF Call
    <3>4. Step(a, c, y)
      BY <2>4, <3>1
    <3> QED
      BY <3>2, <3>3, <3>4, Zenon DEF Step
  <2>6. a.open = Marks(stack) /\ (Marks(stack) = <<>> <=> stack = <<>>)
    BY <2>1, <2>3, SeenIs
  <2>7. reader = Rd(e, Marks(stack), "no") /\ Place(stack, e, named)
    BY <2>1 DEF IsPlaced
  <2>8. reader.open = <<>> /\ reader.str = "no" /\ reader.expect = e /\ stack = <<>>
    BY <2>5, <2>6, <2>7 DEF Rd
  <2>9. e \in {"value", "more"}
    BY <2>7, <2>8 DEF Place
  <2> QED
    BY <2>8, <2>9 DEF Whole
<1> QED
  BY <1>1, JsonInvariant, PTL

-----------------------------------------------------------------------------
(* The binary trace sink.                                                 *)

(* The numbers that doubling leads to from one.                            *)
Power(c) == \A S \in SUBSET Nat : 1 \in S /\ (\A x \in S : 2 * x \in S) => c \in S

LEMMA Powers ==
  /\ Power(1)
  /\ \A c : Power(c) => c \in Nat \ {0} /\ Power(2 * c)
<1>1. Power(1)
  BY DEF Power
<1>2. ASSUME NEW c, Power(c) PROVE c \in Nat \ {0} /\ Power(2 * c)
  <2> DEFINE P == Nat \ {0}
  <2>1. P \in SUBSET Nat /\ 1 \in P /\ \A x \in P : 2 * x \in P
    OBVIOUS
  <2>2. c \in P
    <3> HIDE DEF P
    <3> QED
      BY <1>2, <2>1 DEF Power
  <2>3. Power(2 * c)
    BY <1>2 DEF Power
  <2> QED
    BY <2>2, <2>3
<1> QED
  BY <1>1, <1>2

(* The rows of bit_and, as its recursion has them.                    *)
AndRow(i, g, n) ==
  [j \in 0..i |-> IF n = 0 THEN 0
                  ELSE 2 * g[n \div 2][j \div 2] + IF n % 2 = 1 THEN j % 2 ELSE 0]

LEMMA Halves ==
  \A n \in Nat : /\ n \div 2 \in Nat /\ n % 2 \in {0, 1} /\ n = 2 * (n \div 2) + (n % 2)
                 /\ n # 0 => n \div 2 <= n - 1
OBVIOUS

\* The recursive function inside bit_and exists.
LEMMA AndExists ==
  ASSUME NEW i \in Nat, NEW m \in Nat
  PROVE  \E g : g = [n \in 0..m |-> AndRow(i, g, n)]
<1> DEFINE Is(k, g) == g = [n \in 0..k |-> AndRow(i, g, n)]
           A == {k \in Nat : \E g : Is(k, g)}
<1>1. 0 \in A
  <2> DEFINE z == [n \in 0..0 |-> [j \in 0..i |-> 0]]
  <2>1. \A n \in 0..0 : AndRow(i, z, n) = [j \in 0..i |-> 0]
    BY DEF AndRow
  <2>2. Is(0, z)
    BY <2>1
  <2> QED
    BY <2>2
<1>2. ASSUME NEW k \in Nat, k \in A PROVE k + 1 \in A
  <2>1. PICK g : Is(k, g)
    BY <1>2
  <2> DEFINE h == [n \in 0..(k + 1) |-> IF n = k + 1 THEN AndRow(i, g, n) ELSE g[n]]
  <2>2. ASSUME NEW n \in 0..(k + 1) PROVE h[n] = AndRow(i, h, n)
    <3>1. n # 0 => h[n \div 2] = g[n \div 2]
      <4>1. n # 0 => n \div 2 \in 0..k
        BY Halves
      <4> QED
        BY <4>1
    <3>2. AndRow(i, h, n) = AndRow(i, g, n)
      <4> HIDE DEF h
      <4> QED
        BY <3>1 DEF AndRow
    <3>3. n # k + 1 => n \in 0..k /\ h[n] = g[n]
      OBVIOUS
    <3>4. n # k + 1 => g[n] = AndRow(i, g, n)
      BY <2>1, <3>3
    <3>5. n = k + 1 => h[n] = AndRow(i, g, n)
      OBVIOUS
    <3> HIDE DEF h
    <3> QED
      BY <3>2, <3>3, <3>4, <3>5
  <2>3. Is(k + 1, h) /\ k + 1 \in Nat
    BY <2>2
  <2> HIDE DEF h, Is
  <2> QED
    BY <2>3
<1>3. m \in A
  <2> HIDE DEF A
  <2> QED
    BY <1>1, <1>2, InductiveSet
<1> QED
  BY <1>3

\* bit_and, one bit at a time.
LEMMA AndUnfolds ==
  ASSUME NEW i \in Nat, NEW m \in Nat
  PROVE  \E g : g = [n \in 0..m |-> AndRow(i, g, n)] /\ bit_and(i, m) = g[m][i]
<1> DEFINE it == CHOOSE g : g = [n \in 0..m |-> AndRow(i, g, n)]
<1>1. it = [n \in 0..m |-> AndRow(i, it, n)]
  BY AndExists
<1>2. bit_and(i, m) = it[m][i]
  BY DEF bit_and, AndRow
<1> HIDE DEF it
<1> QED
  BY <1>1, <1>2

\* The mask of a power of two takes an index round the ring: up to twice the
\* capacity it subtracts the capacity at most once.
LEMMA MaskWraps ==
  ASSUME NEW c, Power(c), NEW i \in 0..(2 * c - 1)
  PROVE  bit_and(i, c - 1) = IF i < c THEN i ELSE i - c
<1>1. c \in Nat \ {0} /\ i \in Nat /\ c - 1 \in Nat
  BY Powers
<1>2. PICK g : /\ g = [n \in 0..(c - 1) |-> AndRow(i, g, n)]
               /\ bit_and(i, c - 1) = g[c - 1][i]
  BY <1>1, AndUnfolds
<1>3. \A n \in 0..(c - 1), j \in 0..i :
        g[n][j] = IF n = 0 THEN 0
                  ELSE 2 * g[n \div 2][j \div 2] + IF n % 2 = 1 THEN j % 2 ELSE 0
  <2>1. \A n \in 0..(c - 1) : g[n] = AndRow(i, g, n)
    BY <1>2
  <2> QED
    BY <2>1 DEF AndRow
<1> DEFINE Right(x) == \A j \in 0..i : j < 2 * x => g[x - 1][j] = IF j < x THEN j ELSE j - x
           A == {x \in Nat \ {0} : x <= c => Right(x)}
<1>4. 1 \in A
  <2>1. \A j \in 0..i : g[0][j] = 0
    BY <1>1, <1>3
  <2>2. \A j \in 0..i : j < 2 => 0 = IF j < 1 THEN j ELSE j - 1
    OBVIOUS
  <2> QED
    BY <2>1, <2>2
<1>5. ASSUME NEW x \in A PROVE 2 * x \in A
  <2> SUFFICES ASSUME 2 * x <= c, NEW j \in 0..i, j < 2 * (2 * x)
               PROVE  g[2 * x - 1][j] = IF j < 2 * x THEN j ELSE j - 2 * x
    OBVIOUS
  <2>1. x \in Nat \ {0} /\ x <= c /\ Right(x)
    BY <1>1
  <2>2. /\ 2 * x - 1 \in 0..(c - 1) /\ 2 * x - 1 # 0
        /\ (2 * x - 1) \div 2 = x - 1 /\ (2 * x - 1) % 2 = 1
    BY <1>1, <2>1
  <2>3. g[2 * x - 1][j] = 2 * g[x - 1][j \div 2] + (j % 2)
    BY <1>3, <2>2
  <2>4. /\ j \div 2 \in 0..i /\ j \div 2 < 2 * x /\ j = 2 * (j \div 2) + (j % 2)
        /\ j % 2 \in {0, 1} /\ j \div 2 \in Nat
    BY <1>1, <2>1, Halves
  <2>5. g[x - 1][j \div 2] = IF j \div 2 < x THEN j \div 2 ELSE j \div 2 - x
    BY <2>1, <2>4
  <2> DEFINE h == j \div 2
             b == j % 2
             y == g[x - 1][h]
  <2>6. h \in Nat /\ b \in {0, 1} /\ j = 2 * h + b /\ y = (IF h < x THEN h ELSE h - x)
        /\ g[2 * x - 1][j] = 2 * y + b
    BY <2>3, <2>4, <2>5
  <2> HIDE DEF h, b, y
  <2> QED
    BY <2>1, <2>6
<1>6. A \in SUBSET Nat
  OBVIOUS
<1>7. c \in A
  <2> HIDE DEF A
  <2> QED
    BY <1>4, <1>5, <1>6 DEF Power
<1>8. g[c - 1][i] = IF i < c THEN i ELSE i - c
  BY <1>1, <1>7
<1> QED
  BY <1>2, <1>8

(* The loop of floor_pow2(n) from p on, as its recursion has it.           *)
GrowFrom(n, g, p) == IF 2 * p % Word > p /\ 2 * p % Word <= n THEN g[2 * p] ELSE p

\* p <<= 1 either doubles p or, having lost its top bit, is no greater.
LEMMA Shift ==
  ASSUME Word \in Nat, NEW p \in 1..(Word - 1), 2 * p % Word > p
  PROVE  2 * p \in 1..(Word - 1)
<1>1. CASE 2 * p < Word
  BY <1>1
<1>2. CASE 2 * p >= Word
  <2>1. 2 * p % Word = 2 * p - Word
    BY <1>2
  <2> QED
    BY <2>1
<1> QED
  BY <1>1, <1>2

\* The recursive function that doubles the capacity exists.
LEMMA GrowExists ==
  ASSUME Word \in Nat, NEW n
  PROVE  \E g : g = [p \in 1..(Word - 1) |-> GrowFrom(n, g, p)]
<1> DEFINE Top(k) == {p \in 1..(Word - 1) : p >= Word - k}
           Is(k, g) == g = [p \in Top(k) |-> GrowFrom(n, g, p)]
           A == {k \in Nat : \E g : Is(k, g)}
<1>1. 0 \in A
  <2> DEFINE z == [p \in Top(0) |-> 0]
  <2>1. Top(0) = {}
    OBVIOUS
  <2>2. Is(0, z)
    BY <2>1
  <2> QED
    BY <2>2
<1>2. ASSUME NEW k \in Nat, k \in A PROVE k + 1 \in A
  <2>1. PICK g : Is(k, g)
    BY <1>2
  <2> DEFINE h == [p \in Top(k + 1) |-> IF p \in Top(k) THEN g[p] ELSE GrowFrom(n, g, p)]
  <2>2. ASSUME NEW p \in Top(k + 1) PROVE h[p] = GrowFrom(n, h, p)
    <3>1. 2 * p % Word > p => 2 * p \in Top(k) /\ 2 * p \in Top(k + 1)
      BY Shift
    <3>2. 2 * p % Word > p => h[2 * p] = g[2 * p]
      <4> HIDE DEF Top
      <4> QED
        BY <3>1
    <3>3. p \in Top(k) => h[p] = g[p] /\ g[p] = GrowFrom(n, g, p)
      <4> HIDE DEF Top
      <4> QED
        BY <2>1
    <3>4. p \notin Top(k) => h[p] = GrowFrom(n, g, p)
      <4> HIDE DEF Top
      <4> QED
        OBVIOUS
    <3> HIDE DEF h
    <3>5. GrowFrom(n, h, p) = GrowFrom(n, g, p)
      BY <3>2 DEF GrowFrom
    <3> QED
      BY <3>3, <3>4, <3>5
  <2>3. Is(k + 1, h) /\ k + 1 \in Nat
    <3> HIDE DEF Top
    <3> QED
      BY <2>2
  <2> HIDE DEF h, Is
  <2> QED
    BY <2>3
<1>3. Word \in A
  <2> HIDE DEF A
  <2> QED
    BY <1>1, <1>2, InductiveSet
<1>4. Top(Word) = 1..(Word - 1)
  OBVIOUS
<1>5. PICK g : Is(Word, g)
  BY <1>3
<1>6. g = [p \in 1..(Word - 1) |-> GrowFrom(n, g, p)]
  <2> HIDE DEF Top
  <2> QED
    BY <1>4, <1>5
<1> QED
  BY <1>6

\* The constructor's capacity is a power of two, whatever is asked for: also
\* where the shift wraps, at the top of the word.
LEMMA CapacityIsPower ==
  ASSUME Word \in Nat, Word > 1, NEW n
  PROVE  Power(floor_pow2(n))
<1> DEFINE g == CHOOSE f : f = [p \in 1..(Word - 1) |-> GrowFrom(n, f, p)]
<1>1. g = [p \in 1..(Word - 1) |-> GrowFrom(n, g, p)]
  BY GrowExists
<1>2. floor_pow2(n) = IF n = 0 THEN 1 ELSE g[1]
  BY DEF floor_pow2, GrowFrom
<1> HIDE DEF g
<1>3. \A p \in 1..(Word - 1) : g[p] = GrowFrom(n, g, p)
  BY <1>1
<1> DEFINE A == {k \in Nat : \A p \in 1..(Word - 1) : p >= Word - k /\ Power(p) => Power(g[p])}
<1>4. 0 \in A
  OBVIOUS
<1>5. ASSUME NEW k \in Nat, k \in A PROVE k + 1 \in A
  <2> SUFFICES ASSUME NEW p \in 1..(Word - 1), p >= Word - (k + 1), Power(p)
               PROVE  Power(g[p])
    OBVIOUS
  <2>1. CASE 2 * p % Word > p /\ 2 * p % Word <= n
    <3>1. g[p] = g[2 * p]
      BY <1>3, <2>1 DEF GrowFrom
    <3>2. 2 * p \in 1..(Word - 1) /\ 2 * p >= Word - k
      BY <2>1, Shift
    <3>3. Power(2 * p)
      BY Powers
    <3> QED
      BY <1>5, <3>1, <3>2, <3>3
  <2>2. CASE ~(2 * p % Word > p /\ 2 * p % Word <= n)
    <3>1. g[p] = p
      BY <1>3, <2>2 DEF GrowFrom
    <3> QED
      BY <3>1
  <2> QED
    BY <2>1, <2>2
<1>6. Word \in A
  <2> HIDE DEF A
  <2> QED
    BY <1>4, <1>5, InductiveSet
<1>7. Power(g[1])
  BY <1>6, Powers
<1> QED
  BY <1>2, <1>7, Powers
-----------------------------------------------------------------------------
(* A frame that stays inside FRAME_BYTES and leaves out no field it has    *)
(* room for.                                                               *)
Fits(f) == f.bytes <= FRAME_BYTES /\ (f.cut => f.bytes + FIELD_BYTES > FRAME_BYTES)

(* The slot written j emits ago.                                           *)
Back(j) == IF j <= head THEN head - j ELSE head - j + capacity

SinkInv ==
  /\ Power(capacity) /\ capacity \in Nat \ {0}
  /\ head \in 0..(capacity - 1) /\ size \in 0..capacity /\ DOMAIN buffer = 0..(capacity - 1)
  /\ {wall_seq, dropped, total_emits, released} \subseteq Nat
  /\ total_emits = size + dropped + released
  /\ \A j \in 1..size : buffer[Back(j)].seq = wall_seq - j /\ Fits(buffer[Back(j)])

\* emit() cuts the name, then the fields, to what the frame holds.
LEMMA FrameFits ==
  ASSUME NEW e \in Event
  PROVE  frame(e).seq = wall_seq /\ Fits(frame(e))
<1> DEFINE name_room == minimum(e.name, MAX_NAME_LEN)
           room == FRAME_BYTES - HEADER_BYTES - name_room
           most == room \div FIELD_BYTES
           f_count == minimum(e.fields, most)
           bytes == HEADER_BYTES + name_room + f_count * FIELD_BYTES
<1>1. /\ e.name \in Nat /\ e.fields \in Nat /\ FIELD_BYTES \in Nat \ {0}
      /\ FRAME_BYTES \in Nat /\ MAX_NAME_LEN \in Nat /\ HEADER_BYTES \in Nat
      /\ HEADER_BYTES + MAX_NAME_LEN <= FRAME_BYTES
  BY SinkAssumption
<1>2. name_room \in Nat /\ room \in Nat
  BY <1>1 DEF minimum
<1>3. frame(e) = [seq |-> wall_seq, cut |-> f_count < e.fields, bytes |-> bytes]
  BY DEF frame
<1> HIDE DEF name_room
<1>4. /\ most \in Int /\ FIELD_BYTES * most \in Int
      /\ FIELD_BYTES * most <= room /\ room < FIELD_BYTES * most + FIELD_BYTES
  BY <1>1, <1>2, Division
<1>5. most \in Nat
  <2> SUFFICES ASSUME most < 0 PROVE FALSE
    BY <1>4
  <2> HIDE DEF most, room
  <2>1. FIELD_BYTES * most <= -FIELD_BYTES
    BY <1>1, <1>4, SMTT(20)
  <2> QED
    BY <1>1, <1>2, <1>4, <2>1
<1>6. /\ f_count \in Nat /\ f_count <= most /\ f_count <= e.fields
      /\ f_count < e.fields => f_count = most
  <2> HIDE DEF most
  <2> QED
    BY <1>1, <1>5 DEF minimum
<1> HIDE DEF most, f_count
<1>7. f_count * FIELD_BYTES \in Nat /\ f_count * FIELD_BYTES <= FIELD_BYTES * most
  BY <1>1, <1>5, <1>6, SMTT(20)
<1>8. f_count = most => f_count * FIELD_BYTES = FIELD_BYTES * most
  BY <1>1, <1>5, SMTT(20)
<1> DEFINE u == f_count * FIELD_BYTES
           v == FIELD_BYTES * most
<1>9. /\ u \in Nat /\ v \in Int /\ u <= v /\ v <= room /\ room < v + FIELD_BYTES
      /\ f_count < e.fields => u = v
  BY <1>4, <1>6, <1>7, <1>8
<1> HIDE DEF u, v
<1>10. HEADER_BYTES + name_room + u <= FRAME_BYTES
       /\ (f_count < e.fields => HEADER_BYTES + name_room + u + FIELD_BYTES > FRAME_BYTES)
  BY <1>1, <1>2, <1>9
<1>11. bytes = HEADER_BYTES + name_room + u
  BY DEF u
<1>12. /\ frame(e).seq = wall_seq /\ frame(e).cut = (f_count < e.fields)
       /\ frame(e).bytes = bytes
  BY <1>3
<1> HIDE DEF bytes
<1>13. frame(e).bytes <= FRAME_BYTES
  BY <1>10, <1>11, <1>12
<1>14. ASSUME frame(e).cut PROVE frame(e).bytes + FIELD_BYTES > FRAME_BYTES
  <2>1. f_count < e.fields
    BY <1>12, <1>14
  <2> QED
    BY <1>10, <1>11, <1>12, <2>1
<1> QED
  BY <1>12, <1>13, <1>14 DEF Fits

\* A new sink holds nothing.
LEMMA SinkStart == SinkInit => SinkInv
<1> SUFFICES ASSUME SinkInit PROVE SinkInv
  OBVIOUS
<1>1. Power(capacity) /\ capacity \in Nat \ {0}
  BY CapacityIsPower, Powers, SinkAssumption DEF SinkInit
<1> QED
  BY <1>1 DEF SinkInit, SinkInv

\* emit: the frame goes over the oldest one once the ring is full.
LEMMA EmitKeeps ==
  ASSUME SinkInv, NEW e \in Event, emit(e)
  PROVE  SinkInv'
<1> DEFINE f == frame(e)
<1>1. /\ Power(capacity) /\ capacity \in Nat \ {0} /\ head \in 0..(capacity - 1)
      /\ size \in 0..capacity /\ DOMAIN buffer = 0..(capacity - 1)
  BY DEF SinkInv
<1>2. /\ total_emits' = total_emits + 1 /\ wall_seq' = wall_seq + 1
      /\ size' = (IF size = capacity THEN size ELSE size + 1)
      /\ dropped' = (IF size = capacity THEN dropped + 1 ELSE dropped)
      /\ buffer' = [buffer EXCEPT ![masked(head)] = f]
      /\ head' = masked(head + 1) /\ capacity' = capacity /\ released' = released
  BY DEF emit
<1>3. f.seq = wall_seq /\ Fits(f)
  BY FrameFits
<1> HIDE DEF f
<1>4. masked(head) = head /\ masked(head + 1) = IF head + 1 < capacity THEN head + 1 ELSE 0
  <2>1. head \in 0..(2 * capacity - 1) /\ head + 1 \in 0..(2 * capacity - 1)
    BY <1>1
  <2>2. bit_and(head, capacity - 1) = IF head < capacity THEN head ELSE head - capacity
    BY <1>1, <2>1, MaskWraps
  <2>3. bit_and(head + 1, capacity - 1)
          = IF head + 1 < capacity THEN head + 1 ELSE head + 1 - capacity
    BY <1>1, <2>1, MaskWraps
  <2> QED
    BY <1>1, <2>2, <2>3 DEF masked
<1>5. head' \in 0..(capacity - 1) /\ size' \in 0..capacity /\ DOMAIN buffer' = 0..(capacity - 1)
  BY <1>1, <1>2, <1>4
<1>6. /\ {wall_seq', dropped', total_emits', released'} \subseteq Nat
      /\ total_emits' = size' + dropped' + released'
  <2>1. /\ wall_seq \in Nat /\ dropped \in Nat /\ total_emits \in Nat /\ released \in Nat
        /\ total_emits = size + dropped + released
    BY DEF SinkInv
  <2> QED
    BY <1>1, <1>2, <2>1
<1>7. ASSUME NEW j \in 1..size'
      PROVE  buffer'[Back(j)'].seq = wall_seq' - j /\ Fits(buffer'[Back(j)'])
  <2>1. Back(j)' = IF j <= head' THEN head' - j ELSE head' - j + capacity
    BY <1>2 DEF Back
  <2>0. head' = IF head + 1 < capacity THEN head + 1 ELSE 0
    BY <1>2, <1>4
  <2>2. CASE j = 1
    <3>1. Back(j)' = head
      <4> HIDE DEF Back
      <4> QED
        BY <1>1, <2>0, <2>1, <2>2
    <3>2. buffer'[head] = f
      BY <1>1, <1>2, <1>4
    <3>3. wall_seq \in Nat /\ wall_seq' - 1 = wall_seq
      BY <1>2 DEF SinkInv
    <3> QED
      BY <1>3, <2>2, <3>1, <3>2, <3>3
  <2>3. CASE j # 1
    <3>1. j - 1 \in 1..size /\ j - 1 <= capacity - 1
      BY <1>1, <1>2, <2>3
    <3>2. Back(j)' = Back(j - 1) /\ Back(j - 1) # head /\ Back(j - 1) \in 0..(capacity - 1)
      <4>1. Back(j - 1) = IF j - 1 <= head THEN head - (j - 1) ELSE head - (j - 1) + capacity
        BY DEF Back
      <4> HIDE DEF Back
      <4> QED
        BY <1>1, <2>0, <2>1, <2>3, <3>1, <4>1
    <3>3. buffer'[Back(j - 1)] = buffer[Back(j - 1)]
      BY <1>1, <1>2, <1>4, <3>2
    <3>4. buffer[Back(j - 1)].seq = wall_seq - (j - 1) /\ Fits(buffer[Back(j - 1)])
      BY <3>1 DEF SinkInv
    <3>5. wall_seq \in Nat /\ wall_seq' - j = wall_seq - (j - 1)
      BY <1>2, <3>1 DEF SinkInv
    <3> QED
      BY <3>2, <3>3, <3>4, <3>5
  <2> QED
    BY <2>2, <2>3
<1> QED
  BY <1>1, <1>2, <1>5, <1>6, <1>7 DEF SinkInv, Power, Fits

\* Each action of the sink.
LEMMA SinkStep == SinkInv /\ [SinkNext]_sinkVars => SinkInv'
<1> SUFFICES ASSUME SinkInv, [SinkNext]_sinkVars PROVE SinkInv'
  OBVIOUS
<1>1. CASE \E e \in Event : emit(e)
  BY <1>1, EmitKeeps
<1> DEFINE Kept == /\ Power(capacity) /\ capacity \in Nat \ {0} /\ DOMAIN buffer = 0..(capacity - 1)
                   /\ wall_seq \in Nat /\ dropped \in Nat /\ total_emits \in Nat
<1>5. Kept /\ released \in Nat /\ size \in 0..capacity /\ total_emits = size + dropped + released
  BY DEF SinkInv
<1>2. CASE pop_oldest
  <2>1. /\ size > 0 /\ size' = size - 1 /\ released' = released + 1
        /\ capacity' = capacity /\ buffer' = buffer /\ head' = head /\ wall_seq' = wall_seq
        /\ dropped' = dropped /\ total_emits' = total_emits
    BY <1>2 DEF pop_oldest
  <2>2. Kept'
    BY <1>5, <2>1 DEF Power
  <2>3. /\ released' \in Nat /\ size' \in 0..capacity /\ 1..size' \subseteq 1..size
        /\ total_emits' = size' + dropped' + released'
    BY <1>5, <2>1
  <2>4. head' \in 0..(capacity' - 1)
    BY <2>1 DEF SinkInv
  <2>5. ASSUME NEW j \in 1..size'
        PROVE  buffer'[Back(j)'].seq = wall_seq' - j /\ Fits(buffer'[Back(j)'])
    <3>1. buffer[Back(j)].seq = wall_seq - j /\ Fits(buffer[Back(j)])
      BY <2>3 DEF SinkInv
    <3>2. Back(j)' = Back(j)
      BY <2>1 DEF Back
    <3> QED
      BY <2>1, <3>1, <3>2
  <2> QED
    BY <2>1, <2>2, <2>3, <2>4, <2>5 DEF SinkInv, Fits
<1>3. CASE clear
  <2>1. /\ size' = 0 /\ released' = released + size /\ head' = 0
        /\ capacity' = capacity /\ buffer' = buffer /\ wall_seq' = wall_seq
        /\ dropped' = dropped /\ total_emits' = total_emits
    BY <1>3 DEF clear
  <2>2. Kept'
    BY <1>5, <2>1 DEF Power
  <2>3. /\ released' \in Nat /\ size' \in 0..capacity /\ 1..size' = {}
        /\ total_emits' = size' + dropped' + released' /\ head' \in 0..(capacity' - 1)
    BY <1>5, <2>1
  <2> QED
    BY <2>1, <2>2, <2>3 DEF SinkInv
<1>4. CASE UNCHANGED sinkVars
  BY <1>4 DEF sinkVars, SinkInv, Back, Power, Fits
<1> QED
  BY <1>1, <1>2, <1>3, <1>4 DEF SinkNext

LEMMA WrapAt ==
  ASSUME NEW c \in Nat \ {0}, NEW m \in 0..(2 * c - 1)
  PROVE  m % c = IF m < c THEN m ELSE m - c
OBVIOUS

\* Where a reader finds the frames: the k-th is the one emitted size - k + 1
\* emits ago.
LEMMA HeldIsBack ==
  ASSUME SinkInv, NEW k \in 1..size
  PROVE  size - k + 1 \in 1..size /\ Held(k) = buffer[Back(size - k + 1)]
<1>1. /\ Power(capacity) /\ capacity \in Nat \ {0} /\ head \in 0..(capacity - 1)
      /\ size \in 0..capacity
  BY DEF SinkInv
<1>2. PICK o \in Int : /\ o = oldest
                        /\ o = IF head < size THEN head + capacity - size ELSE head - size
  <2>1. head + capacity - size \in 0..(2 * capacity - 1)
    BY <1>1
  <2>2. bit_and(head + capacity - size, capacity - 1)
          = IF head + capacity - size < capacity THEN head + capacity - size
            ELSE head + capacity - size - capacity
    BY <1>1, <2>1, MaskWraps
  <2>3. oldest = IF head < size THEN head + capacity - size ELSE head - size
    BY <1>1, <2>2 DEF oldest, masked
  <2>4. (IF head < size THEN head + capacity - size ELSE head - size) \in Int
    BY <1>1
  <2> QED
    BY <2>3, <2>4
<1>3. PICK m \in 0..(2 * capacity - 1) : m = o + k - 1
  BY <1>1, <1>2
<1>4. m % capacity = IF m < capacity THEN m ELSE m - capacity
  BY <1>1, WrapAt
<1>5. size - k + 1 \in 1..size
  BY <1>1
<1>6. Back(size - k + 1) = IF m < capacity THEN m ELSE m - capacity
  BY <1>1, <1>2, <1>3 DEF Back
<1>7. Held(k) = buffer[m % capacity]
  BY <1>2, <1>3 DEF Held
<1> QED
  BY <1>4, <1>5, <1>6, <1>7

(* The ring of BinaryTraceSink keeps its slots, counters and frames        *)
(* together, through wrap-around, overflow, reads and clear().             *)
THEOREM SinkInvariant == SinkSpec => []SinkInv
<1> QED
  BY SinkStart, SinkStep, PTL DEF SinkSpec

(* What peek_oldest and pop_oldest hand out are the frames emitted last,   *)
(* oldest first and without a gap, for every capacity and word.            *)
THEOREM SinkHoldsLatest == SinkSpec => []HoldsLatest
<1>1. SinkInv => HoldsLatest
  <2> SUFFICES ASSUME SinkInv, NEW k \in 1..size
               PROVE  Held(k).seq = wall_seq - size + k - 1
    BY DEF HoldsLatest
  <2>1. buffer[Back(size - k + 1)].seq = wall_seq - (size - k + 1)
    BY HeldIsBack DEF SinkInv
  <2>2. wall_seq \in Nat /\ size \in Nat
    BY DEF SinkInv
  <2> QED
    BY <2>1, <2>2, HeldIsBack
<1> QED
  BY <1>1, SinkInvariant, PTL

(* Every frame that emit() was called for is held, dropped or released     *)
(* (dropped(), size() and total_emits() of BinaryTraceSink).               *)
THEOREM SinkAllAccounted == SinkSpec => []AllAccounted
<1>1. SinkInv => AllAccounted
  BY DEF SinkInv, AllAccounted
<1> QED
  BY <1>1, SinkInvariant, PTL

(* emit() writes no frame past its end and leaves out no field that would  *)
(* have fitted, for every layout of the frame.                             *)
THEOREM SinkFramesFit == SinkSpec => []FramesFit
<1>1. SinkInv => FramesFit
  BY HeldIsBack DEF SinkInv, FramesFit, Fits
<1> QED
  BY <1>1, SinkInvariant, PTL
=============================================================================
