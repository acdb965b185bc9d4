----------------------------- MODULE Multicast -----------------------------
(***************************************************************************)
(* Robots that share a UDP multicast group                                 *)
(* (src/comms/udp_multicast_transport.cpp): each is a process that ticks   *)
(* at its own pace, may end at any time and be started again, and may      *)
(* rotate its identity.  Datagrams are lost at will, wait in the socket    *)
(* of each receiver, and come back to their sender as well.                *)
(*                                                                         *)
(* Both kinds of packet come through one socket, and a poll for one kind   *)
(* sorts what has arrived into two inboxes.  The recipient of a message is *)
(* left out, for nobody looks at it: a directed message reaches everyone.  *)
(* So are messages of the mission, signatures (Swarm has them) and the     *)
(* fields of beacons.  Sockets and inboxes are sets: datagrams come in any *)
(* order, and two of the same content that wait together count as one.     *)
(***************************************************************************)
EXTENDS Naturals, FiniteSets

CONSTANTS Robot, Nil,
          NeighbourTimeout,   \* in ticks
          Quorum, BootstrapTimeout,
          MaxIdentities,      \* bound: identities of each robot explored
          SocketBuffer        \* datagrams the socket of each robot can hold

ASSUME MulticastAssumption ==
  /\ Nil \notin Robot \X Nat
  /\ NeighbourTimeout \in Nat /\ Quorum \in Nat /\ BootstrapTimeout \in Nat
  /\ MaxIdentities \in [Robot -> Nat] /\ SocketBuffer \in [Robot -> Nat]

Identity == UNION {{r} \X (1..MaxIdentities[r]) : r \in Robot}
Ids == Identity \cup {Nil}

VARIABLES
  pc,              \* "closed", or the step of the robot's tick that is next
  generated,       \* identities the robot has had
  config_self_id,  \* Config::self_id, as open() was given it
  socket,          \* datagrams that wait in the kernel
  inbox_beacons, inbox_messages,
  table,           \* NeighbourTable: the age of each entry, by identity
  self_id, active, in_bootstrap   \* DiscoverySystem

netVars == <<socket, inbox_beacons, inbox_messages>>
discoveryVars == <<self_id, active, in_bootstrap>>
vars == <<pc, generated, config_self_id, netVars, table, discoveryVars>>

id(r) == <<r, generated[r]>>
Open == {r \in Robot : pc[r] # "closed"}

Beacon(i) == [kind |-> "BEACON", sender |-> i]
Message(kind, i) == [kind |-> kind, sender |-> i]
HELLO == "DISCOVERY_HELLO"
WELCOME == "DISCOVERY_WELCOME"
IsDiscovery(d) == d.kind # "BEACON"

Init ==
  /\ pc = [r \in Robot |-> "closed"]
  /\ generated = [r \in Robot |-> 0]
  /\ config_self_id = [r \in Robot |-> Nil]
  /\ socket = [r \in Robot |-> {}]
  /\ inbox_beacons = [r \in Robot |-> {}] /\ inbox_messages = [r \in Robot |-> {}]
  /\ table = [r \in Robot |-> <<>>]
  /\ self_id = [r \in Robot |-> Nil]
  /\ active = [r \in Robot |-> FALSE] /\ in_bootstrap = [r \in Robot |-> 0]
-----------------------------------------------------------------------------
(* sendto, for each of the datagrams ds: it is put into the sockets that   *)
(* lost does not name and that have room.  Loop-back makes the sender's    *)
(* own socket one of them.  A sendto that fails loses the datagram for     *)
(* everyone; the healthy flag it sets is read by nobody.                   *)
multicast(ds, lost) ==
  [q \in Robot |->
     LET more == socket[q] \cup {d \in ds : <<q, d>> \notin lost}
     IN  IF q \in Open /\ Cardinality(more) <= SocketBuffer[q] THEN more ELSE socket[q]]

\* drain_socket, of the datagrams ds: what it leaves in either inbox.
Foreign(r, ds) == {d \in ds : d.sender # config_self_id[r]}
drained_beacons(r, ds) == inbox_beacons[r] \cup {d \in Foreign(r, ds) : d.kind = "BEACON"}
drained_messages(r, ds) == inbox_messages[r] \cup {d \in Foreign(r, ds) : d.kind # "BEACON"}

(* UDPMulticastTransport::open and World::init.  A call that fails gives   *)
(* no transport and leaves nothing behind.  The identity is generated      *)
(* later than the transport, so that self_id is left at its default unless *)
(* the mission gives the robot an identity of its own.                     *)
open(r) ==
  /\ pc[r] = "closed" /\ generated[r] < MaxIdentities[r]
  /\ pc' = [pc EXCEPT ![r] = "beacons"]
  /\ generated' = [generated EXCEPT ![r] = @ + 1]
  /\ \E i \in {Nil, <<r, generated[r] + 1>>} : config_self_id' = [config_self_id EXCEPT ![r] = i]
  /\ UNCHANGED <<netVars, table, discoveryVars>>

\* The process ends at any point.
close(r) ==
  /\ r \in Open
  /\ pc' = [pc EXCEPT ![r] = "closed"]
  /\ config_self_id' = [config_self_id EXCEPT ![r] = Nil]
  /\ socket' = [socket EXCEPT ![r] = {}]
  /\ inbox_beacons' = [inbox_beacons EXCEPT ![r] = {}]
  /\ inbox_messages' = [inbox_messages EXCEPT ![r] = {}]
  /\ table' = [table EXCEPT ![r] = <<>>]
  /\ self_id' = [self_id EXCEPT ![r] = Nil]
  /\ active' = [active EXCEPT ![r] = FALSE]
  /\ in_bootstrap' = [in_bootstrap EXCEPT ![r] = 0]
  /\ UNCHANGED generated

\* World::rotate_identity, after the systems of a tick or by one of them.
rotate_identity(r) ==
  /\ pc[r] \in {"beacons", "discovery"} /\ generated[r] < MaxIdentities[r]
  /\ generated' = [generated EXCEPT ![r] = @ + 1]
  /\ UNCHANGED <<pc, config_self_id, netVars, table, discoveryVars>>
-----------------------------------------------------------------------------
(* BeaconSystem: old entries are dropped, the beacon is sent, and what has *)
(* come in renews the table.                                               *)
aged(t) == [i \in {j \in DOMAIN t : t[j] < NeighbourTimeout} |-> t[i] + 1]

renewed(t, ids) == [i \in DOMAIN t \cup ids |-> IF i \in ids THEN 0 ELSE t[i]]

\* Mutant: only the transport drops the robot's own echo.
peers_any(r, beacons) == {d.sender : d \in beacons}

\* The senders of the beacons, without the robot's own echo.
peers(r, beacons) == {d.sender : d \in beacons} \ {id(r)}

poll_beacons(r) ==
  /\ pc[r] = "beacons"
  /\ pc' = [pc EXCEPT ![r] = "messages"]
  /\ \E lost \in SUBSET (Robot \X {Beacon(id(r))}) :
       LET sockets == multicast({Beacon(id(r))}, lost)
       IN  /\ table' = [table EXCEPT ![r] =
                          renewed(aged(@), peers(r, drained_beacons(r, sockets[r])))]
           /\ inbox_messages' = [inbox_messages EXCEPT ![r] = drained_messages(r, sockets[r])]
           /\ socket' = [sockets EXCEPT ![r] = {}]
  /\ inbox_beacons' = [inbox_beacons EXCEPT ![r] = {}]
  /\ UNCHANGED <<generated, config_self_id, discoveryVars>>

\* Mutant: a WELCOME is answered as well.
answers_all(r, ms) ==
  IF \E d \in ms : IsDiscovery(d) THEN {Message(WELCOME, self_id[r])} ELSE {}

\* DiscoverySystem::handle_message_ answers under the identity it has captured.
answers(r, ms) ==
  IF \E d \in ms : d.kind = HELLO THEN {Message(WELCOME, self_id[r])} ELSE {}

(* The messages go to handle_message_.  Its answers may be back before the  *)
(* tick is over.                                                           *)
poll_messages(r) ==
  /\ pc[r] = "messages"
  /\ pc' = [pc EXCEPT ![r] = "discovery"]
  /\ LET ms == drained_messages(r, socket[r])
     IN  \E lost \in SUBSET (Robot \X answers(r, ms)) :
           socket' = [multicast(answers(r, ms), lost) EXCEPT
                        ![r] = {d \in answers(r, ms) : <<r, d>> \notin lost}]
  /\ inbox_messages' = [inbox_messages EXCEPT ![r] = {}]
  /\ inbox_beacons' = [inbox_beacons EXCEPT ![r] = drained_beacons(r, socket[r])]
  /\ UNCHANGED <<generated, config_self_id, table, discoveryVars>>

\* DiscoverySystem::tick, with a HELLO in every tick of the bootstrap.
DiscoverySystem(r) ==
  /\ pc[r] = "discovery"
  /\ pc' = [pc EXCEPT ![r] = "beacons"]
  /\ self_id' = [self_id EXCEPT ![r] = IF @ = Nil THEN id(r) ELSE @]
  /\ IF active[r] THEN UNCHANGED <<active, in_bootstrap, socket>>
     ELSE /\ in_bootstrap' = [in_bootstrap EXCEPT ![r] = @ + 1]
          /\ active' = [active EXCEPT ![r] =
                          Cardinality(DOMAIN table[r]) >= Quorum
                            \/ in_bootstrap'[r] >= BootstrapTimeout]
          /\ LET d == Message(HELLO, self_id'[r])
             IN  \E lost \in SUBSET (Robot \X {d}) : socket' = multicast({d}, lost)
  /\ UNCHANGED <<generated, config_self_id, inbox_beacons, inbox_messages, table>>

Step(r) ==
  poll_beacons(r) \/ poll_messages(r) \/ DiscoverySystem(r)

Next ==
  \E r \in Robot :
    open(r) \/ close(r) \/ rotate_identity(r) \/ Step(r)

\* A robot that is on keeps ticking.  Nothing is assumed of the network.
Spec == Init /\ [][Next]_vars /\ \A r \in Robot : WF_vars(Step(r))
-----------------------------------------------------------------------------
TypeOK ==
  /\ pc \in [Robot -> {"closed", "beacons", "messages", "discovery"}]
  /\ \A r \in Robot :
       /\ generated[r] \in 0..MaxIdentities[r]
       /\ config_self_id[r] \in Ids /\ self_id[r] \in Ids
       /\ Cardinality(socket[r]) <= SocketBuffer[r]
       /\ DOMAIN table[r] \subseteq Identity
       /\ \A i \in DOMAIN table[r] : table[r][i] \in 0..NeighbourTimeout
       /\ in_bootstrap[r] \in 0..BootstrapTimeout

(* Whatever a robot was called, and whichever robots have ended: once no   *)
(* robot starts, ends or takes another identity, every table comes to hold *)
(* only the current identities of other robots that are on.  Neither the   *)
(* echo of a robot's own beacon, sent under an identity it has given up,   *)
(* nor a beacon that still waits in a socket or an inbox, keeps a          *)
(* neighbour alive that is none.                                           *)
GhostsFade ==
  <>[][UNCHANGED generated /\ {r \in Robot : pc'[r] # "closed"} = Open]_vars
    => <>[](\A r \in Robot : DOMAIN table[r] \subseteq {id(q) : q \in Open \ {r}})

(* Discovery comes to rest: though every HELLO reaches all robots, its     *)
(* sender too, and is answered by all of them, and the answers reach       *)
(* everyone again, there are in the end no such messages once every robot  *)
(* is Active and stays on.                                                 *)
DiscoveryRests ==
  <>[](\A r \in Open : active[r])
    => <>[](\A r \in Open : \A d \in socket[r] : ~IsDiscovery(d))
=============================================================================
