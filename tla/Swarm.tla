------------------------------- MODULE Swarm -------------------------------
(***************************************************************************)
(* Robots on the simulated bus (src/sim/sim_bus.cpp): SimBus::advance      *)
(* ticks the worlds in the order of their creation, each world runs its    *)
(* systems in name order, BeaconSystem, DiscoverySystem, then those that   *)
(* move the robot.  Packets go through the range filter and its grid into  *)
(* the inboxes of the other robots.  Identities may rotate between any two *)
(* systems, for a mission system may call World::rotate_identity().        *)
(*                                                                         *)
(* Time is counted in ticks and a neighbour's entry by its age.  Positions *)
(* are integers on a line.  Payload of the beacons other than identity and *)
(* key, and messages of the mission, are left out.                         *)
(***************************************************************************)
EXTENDS Integers, Sequences, FiniteSets, Functions, Filter

CONSTANTS Robot, Nil,        \* Nil: the all-zero identity or key
          Position,          \* where a robot may be
          CommRange,         \* comm_range_m, also the side of a grid cell
          BeaconPeriod,      \* in ticks; zero: no beacons
          NeighbourTimeout,  \* in ticks
          HelloPeriod,       \* in ticks; zero: no HELLO
          Quorum, BootstrapTimeout,
          MaxRotations       \* bound: rotations of a robot explored

ASSUME SwarmAssumption ==
  /\ IsFiniteSet(Robot) /\ Position \subseteq Int /\ 0 \in Position /\ Nil \notin Robot \X Nat
  /\ CommRange \in Nat \ {0} /\ BeaconPeriod \in Nat /\ HelloPeriod \in Nat
  /\ NeighbourTimeout \in Nat /\ Quorum \in Nat
  /\ BootstrapTimeout \in Nat /\ MaxRotations \in Nat

VARIABLES
  auth,        \* the build signs beacons (MITH_AUTH_ENABLED)
  worlds,      \* participants_, in the order of create_world
  turn, step,  \* the world being ticked, 0 between advances; its next system
  pos,         \* PositionComponent
  grid,        \* the cell of each robot at the last rebuild_grid_
  id,          \* IdentityComponent
  keypair,     \* current_keypair_, by its public half
  cert,        \* last_cert_
  rotations,   \* rotation_count_
  table,       \* NeighbourTable: the age of each entry, by identity
  since_beacon,    \* time_since_last_beacon_s_
  rejected,        \* rejected_beacons_
  peer_keys,       \* PeerKeyRegistry: the key pinned to each identity
  self_id, state, in_bootstrap, since_hello,   \* DiscoverySystem
  inbound_beacons, inbound_messages

discoveryVars == <<self_id, state, in_bootstrap, since_hello>>
beaconVars == <<table, since_beacon, rejected, peer_keys, inbound_beacons>>
identityVars == <<id, keypair, cert, rotations>>
vars == <<auth, worlds, turn, step, pos, grid, identityVars, beaconVars,
          discoveryVars, inbound_messages>>

Identity == Robot \X (0..MaxRotations)   \* what HierarchicalID::generate gives
Key      == Identity                     \* key pairs are generated likewise
World    == {worlds[k] : k \in 1..Len(worlds)}

HELLO   == "DISCOVERY_HELLO"
WELCOME == "DISCOVERY_WELCOME"
Beacon  == [id : Identity, key : Key \cup {Nil}]
Message == [type : {HELLO, WELCOME}, sender : Identity \cup {Nil},
            recipient : Identity \cup {Nil}, key : Key \cup {Nil}]
-----------------------------------------------------------------------------
(* SimBus: creation, the clock, the range filter.                          *)

cell_for(p) == p \div CommRange

Init ==
  /\ auth \in BOOLEAN
  /\ worlds = <<>> /\ turn = 0 /\ step = "beacon"
  /\ pos = [r \in Robot |-> 0] /\ grid = [r \in Robot |-> cell_for(pos[r])]
  /\ id = [r \in Robot |-> Nil] /\ keypair = id /\ cert = id
  /\ rotations = [r \in Robot |-> 0]
  /\ table = [r \in Robot |-> <<>>] /\ peer_keys = table
  /\ since_beacon = rotations /\ rejected = rotations
  /\ self_id = id /\ state = [r \in Robot |-> "Bootstrapping"]
  /\ in_bootstrap = rotations /\ since_hello = rotations
  /\ inbound_beacons = [r \in Robot |-> <<>>]
  /\ inbound_messages = inbound_beacons

\* create_world, the registration of the two systems and World::init.
create_world(r) ==
  /\ turn = 0 /\ r \notin World
  /\ worlds' = Append(worlds, r)
  /\ id' = [id EXCEPT ![r] = <<r, 0>>]
  /\ keypair' = [keypair EXCEPT ![r] = IF auth THEN <<r, 0>> ELSE Nil]
  /\ UNCHANGED <<auth, turn, step, pos, grid, cert, rotations, beaconVars,
                 discoveryVars, inbound_messages>>

\* One step of SimBus::advance begins: rebuild_grid_, then SimClock::advance.
advance ==
  /\ turn = 0 /\ worlds # <<>>
  /\ turn' = 1 /\ step' = "beacon"
  /\ grid' = [r \in Robot |-> cell_for(pos[r])]
  /\ UNCHANGED <<auth, worlds, pos, identityVars, beaconVars, discoveryVars,
                 inbound_messages>>

InRange(r, t) == pos[t] - pos[r] \in -CommRange..CommRange

\* The robots that a broadcast of r reaches: those binned in its cell or in an
\* adjacent one when the step began, and in range now.
Audience(r) == {t \in World \ {r} :
                  /\ grid[t] - cell_for(pos[r]) \in -1..1
                  /\ InRange(r, t)}

\* The robots that a message m of r reaches: a directed one goes to whoever
\* has the recipient's identity now, whatever the range.
Addressees(r, m) == IF m.recipient = Nil THEN Audience(r)
                    ELSE {t \in World \ {r} : id[t] = m.recipient}

\* The inboxes after r has sent the messages ms.
deliver_message(r, ms, inboxes) ==
  [t \in Robot |-> inboxes[t] \o Only(ms, {m \in Range(ms) : t \in Addressees(r, m)})]
-----------------------------------------------------------------------------
(* World::rotate_identity.                                                 *)

\* Mutant: the certificate is signed after the key pair has been replaced.
rotate_identity_signs_late(r) ==
  /\ r \in World /\ rotations[r] < MaxRotations
  /\ LET next == <<r, rotations[r] + 1>> IN
       /\ id' = [id EXCEPT ![r] = next]
       /\ IF auth
          THEN /\ keypair' = [keypair EXCEPT ![r] = next]
               /\ cert' = [cert EXCEPT ![r] =
                    [prev |-> id[r], new |-> next, key |-> next, signed_by |-> next]]
          ELSE UNCHANGED <<keypair, cert>>
  /\ rotations' = [rotations EXCEPT ![r] = @ + 1]
  /\ UNCHANGED <<auth, worlds, turn, step, pos, grid, beaconVars, discoveryVars,
                 inbound_messages>>

rotate_identity(r) ==
  /\ r \in World /\ rotations[r] < MaxRotations
  /\ LET next == <<r, rotations[r] + 1>> IN
       /\ id' = [id EXCEPT ![r] = next]
       /\ IF auth
          THEN /\ keypair' = [keypair EXCEPT ![r] = next]
               /\ cert' = [cert EXCEPT ![r] =
                    [prev |-> id[r], new |-> next, key |-> next,
                     signed_by |-> keypair[r]]]
          ELSE UNCHANGED <<keypair, cert>>
  /\ rotations' = [rotations EXCEPT ![r] = @ + 1]
  /\ UNCHANGED <<auth, worlds, turn, step, pos, grid, beaconVars, discoveryVars,
                 inbound_messages>>
-----------------------------------------------------------------------------
(* PeerKeyRegistry and BeaconSystem::tick.                                 *)

\* try_pin for each of the sightings <<identity, key>> in turn: the first
\* sighting of an identity wins, and a packet without a key pins nothing.
try_pin(keys, sightings) ==
  LET new(i) == {k \in 1..Len(sightings) : sightings[k][1] = i /\ sightings[k][2] # Nil}
      first(i) == CHOOSE k \in new(i) : \A l \in new(i) : k <= l
      fresh == {i \in {sightings[k][1] : k \in 1..Len(sightings)} :
                  i \notin DOMAIN keys /\ new(i) # {}}
  IN  [i \in DOMAIN keys \cup fresh |->
         IF i \in DOMAIN keys THEN keys[i] ELSE sightings[first(i)][2]]

BeaconKeys(bs)  == [k \in 1..Len(bs) |-> <<bs[k].id, bs[k].key>>]
MessageKeys(ms) == [k \in 1..Len(ms) |-> <<ms[k].sender, ms[k].key>>]

\* The entries left by age_out, one tick older.
age_out(entries) ==
  [i \in {j \in DOMAIN entries : entries[j] + 1 <= NeighbourTimeout} |-> entries[i] + 1]

\* Mutant: the period must be exceeded.
beacon_due_late(r) == BeaconPeriod > 0 /\ since_beacon[r] + 1 > BeaconPeriod

beacon_due(r) == BeaconPeriod > 0 /\ since_beacon[r] + 1 >= BeaconPeriod

\* Mutant: the sender's identity is copied from the HELLO.
Welcome_copied(r, m) == [type |-> WELCOME, sender |-> m.sender, recipient |-> m.sender,
                         key |-> keypair[r]]

\* What DiscoverySystem::handle_message_ answers to each HELLO.
Welcome(r, m) == [type |-> WELCOME, sender |-> self_id[r], recipient |-> m.sender,
                  key |-> keypair[r]]

Welcomes(r) ==
  LET inbox  == inbound_messages[r]
      hellos == Only(inbox, {m \in Range(inbox) : m.type = HELLO})
  IN  [k \in 1..Len(hellos) |-> Welcome(r, hellos[k])]

\* Mutant: the message channel is drained before the beacon channel.
BeaconSystem_messages_first(r) ==
  LET inbox  == inbound_beacons[r]
      heard  == Only(inbox, {b \in Range(inbox) : b.id # id[r]})
      keys   == try_pin(try_pin(peer_keys[r], MessageKeys(inbound_messages[r])),
                        BeaconKeys(heard))
      taken  == {b \in Range(heard) : b.key = Nil \/ keys[b.id] = b.key}
      kept   == age_out(table[r])
      seen   == {b.id : b \in taken}
  IN
  /\ step = "beacon"
  /\ since_beacon' = [since_beacon EXCEPT ![r] =
       IF beacon_due(r) \/ BeaconPeriod = 0 THEN 0 ELSE @ + 1]
  /\ inbound_beacons' = [t \in Robot |->
       IF t = r THEN <<>>
       ELSE IF beacon_due(r) /\ t \in Audience(r)
            THEN Append(inbound_beacons[t], [id |-> id[r], key |-> keypair[r]])
            ELSE inbound_beacons[t]]
  /\ table' = [table EXCEPT ![r] =
       [i \in DOMAIN kept \cup seen |-> IF i \in seen THEN 0 ELSE kept[i]]]
  /\ rejected' = [rejected EXCEPT ![r] =
       @ + Len(Only(heard, Range(heard) \ taken))]
  /\ peer_keys' = [peer_keys EXCEPT ![r] = keys]
  /\ inbound_messages' =
       deliver_message(r, Welcomes(r), [inbound_messages EXCEPT ![r] = <<>>])
  /\ step' = "discovery"
  /\ UNCHANGED <<auth, worlds, turn, pos, grid, identityVars, discoveryVars>>

BeaconSystem(r) ==
  LET inbox  == inbound_beacons[r]
      heard  == Only(inbox, {b \in Range(inbox) : b.id # id[r]})
      keys   == try_pin(peer_keys[r], BeaconKeys(heard))
      taken  == {b \in Range(heard) : b.key = Nil \/ keys[b.id] = b.key}
      kept   == age_out(table[r])
      seen   == {b.id : b \in taken}
  IN
  /\ step = "beacon"
  /\ since_beacon' = [since_beacon EXCEPT ![r] =
       IF beacon_due(r) \/ BeaconPeriod = 0 THEN 0 ELSE @ + 1]
  /\ inbound_beacons' = [t \in Robot |->
       IF t = r THEN <<>>
       ELSE IF beacon_due(r) /\ t \in Audience(r)
            THEN Append(inbound_beacons[t], [id |-> id[r], key |-> keypair[r]])
            ELSE inbound_beacons[t]]
  /\ table' = [table EXCEPT ![r] =
       [i \in DOMAIN kept \cup seen |-> IF i \in seen THEN 0 ELSE kept[i]]]
  /\ rejected' = [rejected EXCEPT ![r] =
       @ + Len(Only(heard, Range(heard) \ taken))]
  /\ peer_keys' = [peer_keys EXCEPT ![r] =
       try_pin(keys, MessageKeys(inbound_messages[r]))]
  /\ inbound_messages' =
       deliver_message(r, Welcomes(r), [inbound_messages EXCEPT ![r] = <<>>])
  /\ step' = "discovery"
  /\ UNCHANGED <<auth, worlds, turn, pos, grid, identityVars, discoveryVars>>
-----------------------------------------------------------------------------
(* DiscoverySystem::tick and the rest of the tick.                         *)

hello_due(r) == HelloPeriod > 0 /\ since_hello[r] + 1 >= HelloPeriod

\* Mutant: a HELLO restarts the wrong timer too.
time_in_bootstrap_restarts(r) == IF hello_due(r) THEN 0 ELSE in_bootstrap[r] + 1

time_in_bootstrap(r) == in_bootstrap[r] + 1

\* It has seen enough peers, or waited long enough.
promotable(r) == \/ Cardinality(DOMAIN table[r]) >= Quorum
                 \/ time_in_bootstrap(r) >= BootstrapTimeout

DiscoverySystem(r) ==
  LET self == IF self_id[r] = Nil THEN id[r] ELSE self_id[r]
      hello == [type |-> HELLO, sender |-> self, recipient |-> Nil,
                key |-> keypair[r]]
  IN
  /\ step = "discovery"
  /\ self_id' = [self_id EXCEPT ![r] = self]
  /\ IF state[r] = "Active"
     THEN UNCHANGED <<state, in_bootstrap, since_hello, inbound_messages>>
     ELSE /\ in_bootstrap' = [in_bootstrap EXCEPT ![r] = time_in_bootstrap(r)]
          /\ since_hello' = [since_hello EXCEPT ![r] =
               IF hello_due(r) \/ HelloPeriod = 0 THEN 0 ELSE @ + 1]
          /\ inbound_messages' = IF hello_due(r)
               THEN deliver_message(r, <<hello>>, inbound_messages)
               ELSE inbound_messages
          /\ state' = IF promotable(r) THEN [state EXCEPT ![r] = "Active"] ELSE state
  /\ step' = "move"
  /\ UNCHANGED <<auth, worlds, turn, pos, grid, identityVars, beaconVars>>

\* The later systems move the robot anywhere; the next world's tick follows.
Move(r) ==
  /\ step = "move"
  /\ \E p \in Position : pos' = [pos EXCEPT ![r] = p]
  /\ step' = "beacon"
  /\ turn' = IF turn = Len(worlds) THEN 0 ELSE turn + 1
  /\ UNCHANGED <<auth, worlds, grid, identityVars, beaconVars, discoveryVars,
                 inbound_messages>>

Tick == /\ turn # 0
        /\ LET r == worlds[turn] IN BeaconSystem(r) \/ DiscoverySystem(r) \/ Move(r)

Next == \/ \E r \in Robot : create_world(r) \/ rotate_identity(r)
        \/ advance \/ Tick

Spec == Init /\ [][Next]_vars

\* The simulation keeps calling advance(), which runs to its end.
FairSpec == Spec /\ WF_vars(advance) /\ WF_vars(Tick)
-----------------------------------------------------------------------------
TypeOK ==
  /\ auth \in BOOLEAN /\ World \subseteq Robot /\ turn \in 0..Len(worlds)
  /\ step \in {"beacon", "discovery", "move"} /\ pos \in [Robot -> Position]
  /\ grid \in [Robot -> Int]
  /\ id \in [Robot -> Identity \cup {Nil}] /\ keypair \in [Robot -> Key \cup {Nil}]
  /\ \A r \in Robot :
       /\ rotations[r] \in 0..MaxRotations
       /\ DOMAIN table[r] \subseteq Identity
       /\ \A i \in DOMAIN table[r] : table[r][i] \in 0..NeighbourTimeout
       /\ since_beacon[r] \in 0..BeaconPeriod /\ since_hello[r] \in 0..HelloPeriod
       /\ DOMAIN peer_keys[r] \subseteq Identity \cup {Nil}
       /\ \A i \in DOMAIN peer_keys[r] : peer_keys[r][i] \in Key
       /\ self_id[r] \in Identity \cup {Nil}
       /\ state[r] \in {"Bootstrapping", "Active"}
       /\ Range(inbound_beacons[r]) \subseteq Beacon
       /\ Range(inbound_messages[r]) \subseteq Message

\* No beacon of the swarm's own robots is refused: whatever HELLO and WELCOME
\* messages and rotations precede it, the key pinned to an identity is that
\* with which the identity's beacons are signed (beacon_system.cpp:125-135).
NoFalseReject == \A r \in Robot : rejected[r] = 0

\* An identity is never pinned to a key of another robot than the one it was
\* issued to, whether a beacon, a HELLO or a WELCOME pinned it.
PinsOwn ==
  \A r \in Robot : \A i \in DOMAIN peer_keys[r] \ {Nil} : peer_keys[r][i][1] = i[1]

\* A neighbour that still lists the previous identity of a robot has pinned the
\* key that verifies the robot's certificate of rotation (world.cpp:218-237).
CertVerifies ==
  \A r, q \in Robot :
    cert[r] # Nil /\ cert[r].prev \in DOMAIN table[q] =>
      /\ peer_keys[q][cert[r].prev] = cert[r].signed_by
      /\ cert[r].new = id[r] /\ cert[r].key = keypair[r]

Listed(r, t) == {i \in DOMAIN table[r] : i[1] = t}
Neighbours(r, t) == r \in World /\ t \in World /\ InRange(r, t)
Apart(r, t)      == ~InRange(r, t)
Current(r, t)    == Listed(r, t) = {id[t]}
Forgotten(r, t)  == Listed(r, t) = {}

\* A robot that stays in range ends up listed under its current identity only,
\* and is not forgotten between two beacons; one that stays out of range, or
\* an identity given up by a rotation, ends up forgotten.
TablesConverge ==
  \A r \in Robot : \A t \in Robot \ {r} :
    /\ (<>[]Neighbours(r, t)) => (<>[]Current(r, t))
    /\ (<>[]Apart(r, t)) => (<>[]Forgotten(r, t))

\* No robot stays in bootstrap for ever, alone or in company ("Prevents a
\* permanent deadlock", discovery_system.h:59).
BootstrapEnds == \A r \in Robot : (r \in World) ~> (state[r] = "Active")
=============================================================================
