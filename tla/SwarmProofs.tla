---------------------------- MODULE SwarmProofs ----------------------------
(* Pinned keys, refused beacons and certificates of rotation, for any      *)
(* number of robots and rotations, any places and ranges, and any periods  *)
(* and timeouts.                                                           *)
EXTENDS Swarm, DataLemmas

Shapes ==
  /\ auth \in BOOLEAN /\ worlds \in Seq(Robot) /\ turn \in 0..Len(worlds)
  /\ rotations \in [Robot -> 0..MaxRotations]
  /\ id \in [Robot -> Identity \cup {Nil}] /\ keypair \in [Robot -> Key \cup {Nil}]
  /\ self_id \in [Robot -> Identity \cup {Nil}]
  /\ DOMAIN cert = Robot /\ DOMAIN table = Robot /\ DOMAIN peer_keys = Robot
  /\ inbound_beacons \in [Robot -> Seq(Beacon)] /\ inbound_messages \in [Robot -> Seq(Message)]

(* An identity, or a key, that its robot has had up to now.                *)
Issued(i) == i \in Identity /\ i[2] <= rotations[i[1]]

(* A robot's identity and key pair are those of its last rotation; what    *)
(* DiscoverySystem has captured may be older.                              *)
Own ==
  \A r \in Robot :
    /\ IF r \in World
       THEN id[r] = <<r, rotations[r]>> /\ keypair[r] = (IF auth THEN id[r] ELSE Nil)
       ELSE rotations[r] = 0
    /\ self_id[r] # Nil => Issued(self_id[r]) /\ self_id[r][1] = r

\* A beacon on its way has the key that belongs to its identity.
Matches(b) == Issued(b.id) /\ b.key = (IF auth THEN b.id ELSE Nil)

\* A message may have a later key than its sender's identity, never an earlier.
Follows(m) ==
  m.key # Nil =>
    /\ auth /\ Issued(m.key)
    /\ m.sender # Nil => m.sender[1] = m.key[1] /\ m.sender[2] <= m.key[2]

InFlight ==
  \A q \in Robot :
    /\ \A b \in Range(inbound_beacons[q]) : Matches(b)
    /\ \A m \in Range(inbound_messages[q]) : Follows(m)

(* Where a message has pinned a key that its sender's identity never had,  *)
(* no beacon of that identity is to come: the robot has rotated, and those *)
(* it had sent before were drained first.                                  *)
Settled(i, k, inbox) ==
  /\ auth /\ Issued(k)
  /\ i # Nil => /\ i \in Identity /\ i[1] = k[1] /\ i[2] <= k[2]
                /\ k # i => \A b \in Range(inbox) : b.id # i

Pins ==
  \A q \in Robot : \A i \in DOMAIN peer_keys[q] :
    Settled(i, peer_keys[q][i], inbound_beacons[q])

\* An identity that is listed was pinned by its own beacon.
ListedPinned ==
  auth => \A q \in Robot : \A i \in DOMAIN table[q] :
            i \in DOMAIN peer_keys[q] /\ peer_keys[q][i] = i

Certified ==
  \A r \in Robot : cert[r] # Nil =>
    /\ auth /\ r \in World
    /\ \E p \in Identity :
         /\ p = <<r, rotations[r] - 1>>
         /\ cert[r] = [prev |-> p, new |-> id[r], key |-> id[r], signed_by |-> p]

SwarmInv ==
  Shapes /\ Own /\ InFlight /\ Pins /\ ListedPinned /\ Certified /\ NoFalseReject

LEMMA Identities ==
  /\ Nil \notin Identity /\ Key = Identity /\ MaxRotations \in Nat
  /\ \A i \in Identity : i = <<i[1], i[2]>> /\ i[1] \in Robot /\ i[2] \in 0..MaxRotations
  /\ \A r \in Robot, n \in 0..MaxRotations : <<r, n>> \in Identity
<1>1. MaxRotations \in Nat /\ Nil \notin Robot \X Nat
  BY SwarmAssumption
<1>2. 0..MaxRotations \subseteq Nat
  BY <1>1
<1> QED
  BY <1>1, <1>2 DEF Identity, Key

LEMMA SwarmStart == Init => SwarmInv
<1> SUFFICES ASSUME Init PROVE SwarmInv
  OBVIOUS
<1>1. MaxRotations \in Nat /\ Len(worlds) = 0
  BY SwarmAssumption DEF Init
<1>2. /\ \A q \in Robot : inbound_beacons[q] = <<>> /\ inbound_messages[q] = <<>>
      /\ \A q \in Robot : DOMAIN table[q] = {} /\ DOMAIN peer_keys[q] = {}
      /\ \A q \in Robot : rejected[q] = 0 /\ rotations[q] = 0 /\ cert[q] = Nil /\ self_id[q] = Nil
  BY DEF Init
<1>3. Shapes
  BY <1>1 DEF Init, Shapes
<1>4. World = {}
  BY <1>1 DEF World
<1>5. Own
  BY <1>2, <1>4 DEF Own
<1>6. InFlight
  BY <1>2, EmptySequence DEF InFlight
<1>7. Pins /\ ListedPinned /\ Certified /\ NoFalseReject
  BY <1>2 DEF Pins, ListedPinned, Certified, NoFalseReject
<1> QED
  BY <1>3, <1>5, <1>6, <1>7 DEF SwarmInv

\* Rotations only add to what was issued.
LEMMA IssuedStays ==
  ASSUME Shapes, rotations' \in [Robot -> 0..MaxRotations],
         \A r \in Robot : rotations[r] <= rotations'[r],
         NEW i, Issued(i)
  PROVE  Issued(i)'
<1>1. i \in Identity /\ i[1] \in Robot /\ i[2] \in 0..MaxRotations
  BY Identities DEF Issued
<1>2. i[2] \in Int /\ rotations[i[1]] \in Int /\ rotations'[i[1]] \in Int
  BY <1>1, Identities DEF Shapes
<1> QED
  BY <1>1, <1>2 DEF Issued, Identity
-----------------------------------------------------------------------------
LEMMA CreateKeeps ==
  ASSUME SwarmInv, NEW r \in Robot, create_world(r)
  PROVE  SwarmInv'
<1>1. /\ turn = 0 /\ r \notin World /\ worlds' = Append(worlds, r)
      /\ id' = [id EXCEPT ![r] = <<r, 0>>]
      /\ keypair' = [keypair EXCEPT ![r] = IF auth THEN <<r, 0>> ELSE Nil]
      /\ UNCHANGED <<auth, turn, cert, rotations, table, rejected, peer_keys, inbound_beacons,
                     self_id, inbound_messages>>
  BY DEF create_world, beaconVars, discoveryVars
<1>2. worlds' \in Seq(Robot) /\ World' = World \cup {r} /\ turn' \in 0..Len(worlds')
  <2>1. worlds \in Seq(Robot)
    BY DEF SwarmInv, Shapes
  <2>2. /\ Append(worlds, r) \in Seq(Robot) /\ Len(Append(worlds, r)) = Len(worlds) + 1
        /\ Range(Append(worlds, r)) = Range(worlds) \cup {r}
    BY <2>1, OneAppended
  <2>3. World = Range(worlds) /\ World' = Range(worlds')
    BY <1>1, <2>1, <2>2 DEF World, Range
  <2>4. Len(worlds) \in Nat
    BY <2>1
  <2> QED
    BY <1>1, <2>2, <2>3, <2>4
<1>3. <<r, 0>> \in Identity
  BY Identities
<1>4. Shapes'
  BY <1>1, <1>2, <1>3, Identities DEF SwarmInv, Shapes
<1>5. \A i : Issued(i)' <=> Issued(i)
  BY <1>1 DEF Issued
<1>6. Own'
  <2> SUFFICES ASSUME NEW q \in Robot
               PROVE  /\ IF q \in World'
                         THEN /\ id'[q] = <<q, rotations[q]>>
                              /\ keypair'[q] = (IF auth THEN id'[q] ELSE Nil)
                         ELSE rotations[q] = 0
                      /\ self_id[q] # Nil => Issued(self_id[q]) /\ self_id[q][1] = q
    BY <1>1, <1>5 DEF Own
  <2>1. DOMAIN id = Robot /\ DOMAIN keypair = Robot
    BY DEF SwarmInv, Shapes
  <2>2. CASE q = r
    BY <1>1, <1>2, <2>1, <2>2 DEF SwarmInv, Own
  <2>3. CASE q # r
    BY <1>1, <1>2, <2>1, <2>3 DEF SwarmInv, Own
  <2> QED
    BY <2>2, <2>3
<1>7. InFlight' /\ Pins' /\ ListedPinned' /\ NoFalseReject'
  BY <1>1, <1>5 DEF SwarmInv, InFlight, Pins, ListedPinned, NoFalseReject, Matches, Follows, Settled
<1>8. Certified'
  <2>1. \A q \in World : id'[q] = id[q]
    BY <1>1 DEF SwarmInv, Shapes
  <2> QED
    BY <1>1, <1>2, <2>1 DEF SwarmInv, Certified
<1> QED
  BY <1>4, <1>6, <1>7, <1>8 DEF SwarmInv

LEMMA RotateKeeps ==
  ASSUME SwarmInv, NEW r \in Robot, rotate_identity(r)
  PROVE  SwarmInv'
<1> DEFINE next == <<r, rotations[r] + 1>>
<1>1. /\ r \in World /\ rotations[r] < MaxRotations
      /\ id' = [id EXCEPT ![r] = next]
      /\ rotations' = [rotations EXCEPT ![r] = @ + 1]
      /\ UNCHANGED <<auth, worlds, turn, table, rejected, peer_keys, inbound_beacons,
                     self_id, inbound_messages>>
  BY DEF rotate_identity, beaconVars, discoveryVars
<1>2. /\ auth => /\ keypair' = [keypair EXCEPT ![r] = next]
                 /\ cert' = [cert EXCEPT ![r] = [prev |-> id[r], new |-> next, key |-> next,
                                                 signed_by |-> keypair[r]]]
      /\ ~auth => UNCHANGED <<keypair, cert>>
  BY DEF rotate_identity
<1>3. /\ Shapes /\ rotations[r] \in Nat /\ rotations[r] + 1 \in 0..MaxRotations
      /\ id[r] = <<r, rotations[r]>> /\ id[r] \in Identity
      /\ keypair[r] = (IF auth THEN id[r] ELSE Nil)
  <2>1. Shapes /\ rotations[r] \in 0..MaxRotations
    BY DEF SwarmInv, Shapes
  <2>2. id[r] = <<r, rotations[r]>> /\ keypair[r] = (IF auth THEN id[r] ELSE Nil)
    BY <1>1 DEF SwarmInv, Own
  <2> QED
    BY <1>1, <2>1, <2>2, Identities
<1>4. next \in Identity /\ World' = World
  BY <1>1, <1>3, Identities DEF World
<1>5. rotations' \in [Robot -> 0..MaxRotations] /\ \A q \in Robot : rotations[q] <= rotations'[q]
  <2>1. \A q \in Robot : rotations[q] \in Nat /\ rotations[q] <= MaxRotations
    BY <1>3, Identities DEF Shapes
  <2>2. \A q \in Robot : rotations'[q] = IF q = r THEN rotations[r] + 1 ELSE rotations[q]
    BY <1>1, <1>3 DEF Shapes
  <2>3. rotations' \in [Robot -> 0..MaxRotations]
    BY <1>1, <1>3 DEF Shapes
  <2> QED
    BY <2>1, <2>2, <2>3
<1>6. \A i : Issued(i) => Issued(i)'
  BY <1>3, <1>5, IssuedStays
<1>7. Shapes'
  <2>1. id' \in [Robot -> Identity \cup {Nil}]
    BY <1>1, <1>3, <1>4 DEF Shapes
  <2>2. keypair' \in [Robot -> Key \cup {Nil}] /\ DOMAIN cert' = Robot
    <3>1. keypair \in [Robot -> Key \cup {Nil}] /\ DOMAIN cert = Robot /\ next \in Key
      BY <1>3, <1>4, Identities DEF Shapes
    <3> HIDE DEF next
    <3>2. CASE auth
      BY <1>2, <3>1, <3>2
    <3>3. CASE ~auth
      BY <1>2, <3>1, <3>3
    <3> QED
      BY <3>2, <3>3
  <2> QED
    BY <1>1, <1>3, <1>5, <2>1, <2>2 DEF Shapes
<1>8. \A q \in Robot \ {r} : id'[q] = id[q] /\ keypair'[q] = keypair[q] /\ cert'[q] = cert[q]
                             /\ rotations'[q] = rotations[q]
  BY <1>1, <1>2, <1>3 DEF Shapes
<1>9. /\ id'[r] = next /\ rotations'[r] = rotations[r] + 1
      /\ keypair'[r] = (IF auth THEN next ELSE Nil)
  BY <1>1, <1>2, <1>3 DEF Shapes
<1>10. Own'
  <2> SUFFICES ASSUME NEW q \in Robot
               PROVE  /\ IF q \in World
                         THEN /\ id'[q] = <<q, rotations'[q]>>
                              /\ keypair'[q] = (IF auth THEN id'[q] ELSE Nil)
                         ELSE rotations'[q] = 0
                      /\ self_id[q] # Nil => Issued(self_id[q])' /\ self_id[q][1] = q
    BY <1>1, <1>4 DEF Own
  <2>1. self_id[q] # Nil => Issued(self_id[q])' /\ self_id[q][1] = q
    <3>1. self_id[q] # Nil => Issued(self_id[q]) /\ self_id[q][1] = q
      BY DEF SwarmInv, Own
    <3> QED
      BY <1>1, <1>6, <3>1 DEF Issued
  <2>2. CASE q = r
    BY <1>1, <1>9, <2>1, <2>2
  <2>3. CASE q # r
    BY <1>8, <2>1, <2>3 DEF SwarmInv, Own
  <2> QED
    BY <2>2, <2>3
<1>11. InFlight'
  <2>1. \A b : Matches(b) => Matches(b)'
    BY <1>1, <1>6 DEF Matches, Issued
  <2>2. \A m : Follows(m) => Follows(m)'
    BY <1>1, <1>6 DEF Follows, Issued
  <2> QED
    BY <1>1, <2>1, <2>2 DEF SwarmInv, InFlight
<1>12. Pins'
  <2>1. \A i, k, inbox : Settled(i, k, inbox) => Settled(i, k, inbox)'
    BY <1>1, <1>6 DEF Settled, Issued
  <2> QED
    BY <1>1, <2>1 DEF SwarmInv, Pins, Settled
<1>13. ListedPinned' /\ NoFalseReject'
  BY <1>1 DEF SwarmInv, ListedPinned, NoFalseReject
<1>14. Certified'
  <2> SUFFICES ASSUME NEW q \in Robot, cert'[q] # Nil
               PROVE  /\ auth /\ q \in World
                      /\ \E p \in Identity :
                           /\ p = <<q, rotations'[q] - 1>>
                           /\ cert'[q] = [prev |-> p, new |-> id'[q], key |-> id'[q], signed_by |-> p]
    BY <1>1, <1>4 DEF Certified
  <2>1. CASE q = r /\ auth
    <3>1. cert'[r] = [prev |-> id[r], new |-> next, key |-> next, signed_by |-> id[r]]
      BY <1>2, <1>3, <2>1 DEF Shapes
    <3>2. id[r] = <<r, rotations'[r] - 1>>
      BY <1>3, <1>9
    <3> HIDE DEF next
    <3> QED
      BY <1>1, <1>3, <1>9, <2>1, <3>1, <3>2
  <2>2. CASE q = r /\ ~auth
    BY <1>2, <2>2 DEF SwarmInv, Certified
  <2>3. CASE q # r
    <3>1. cert[q] # Nil /\ cert'[q] = cert[q] /\ id'[q] = id[q] /\ rotations'[q] = rotations[q]
      BY <1>8, <2>3
    <3> QED
      BY <3>1 DEF SwarmInv, Certified
  <2> QED
    BY <2>1, <2>2, <2>3
<1> QED
  BY <1>7, <1>10, <1>11, <1>12, <1>13, <1>14 DEF SwarmInv
-----------------------------------------------------------------------------
\* try_pin keeps what is pinned, pins what is new to a key it came with, and
\* leaves no sighting with a key unpinned.
LEMMA TryPin ==
  ASSUME NEW keys, NEW s, Len(s) \in Nat
  PROVE  /\ \A i \in DOMAIN keys : i \in DOMAIN try_pin(keys, s) /\ try_pin(keys, s)[i] = keys[i]
         /\ \A i \in DOMAIN try_pin(keys, s) : i \notin DOMAIN keys =>
              \E k \in 1..Len(s) : s[k][1] = i /\ s[k][2] # Nil /\ try_pin(keys, s)[i] = s[k][2]
         /\ \A k \in 1..Len(s) : s[k][2] # Nil => s[k][1] \in DOMAIN try_pin(keys, s)
<1> DEFINE new(i) == {k \in 1..Len(s) : s[k][1] = i /\ s[k][2] # Nil}
           first(i) == CHOOSE k \in new(i) : \A l \in new(i) : k <= l
           fresh == {i \in {s[k][1] : k \in 1..Len(s)} : i \notin DOMAIN keys /\ new(i) # {}}
           p == [i \in DOMAIN keys \cup fresh |-> IF i \in DOMAIN keys THEN keys[i] ELSE s[first(i)][2]]
<1>1. try_pin(keys, s) = p
  BY DEF try_pin
<1>2. \A i \in DOMAIN keys : i \in DOMAIN p /\ p[i] = keys[i]
  OBVIOUS
<1>3. ASSUME NEW i \in fresh
      PROVE  \E k \in 1..Len(s) : s[k][1] = i /\ s[k][2] # Nil /\ p[i] = s[k][2]
  <2>0. i \notin DOMAIN keys /\ new(i) # {}
    OBVIOUS
  <2>1. new(i) # {} /\ new(i) \subseteq Nat /\ p[i] = s[first(i)][2]
    <3>1. new(i) \subseteq Nat
      OBVIOUS
    <3>2. p[i] = s[first(i)][2]
      <4> HIDE DEF first, fresh
      <4> QED
        BY <2>0
    <3> HIDE DEF new, p
    <3> QED
      BY <2>0, <3>1, <3>2
  <2>2. \E k \in new(i) : \A l \in new(i) : k <= l
    <3> HIDE DEF new
    <3> QED
      BY <2>1, LeastNumber
  <2>3. first(i) \in new(i)
    <3> HIDE DEF new
    <3> QED
      BY <2>2
  <2> HIDE DEF first, p
  <2> QED
    BY <2>1, <2>3
<1>4. \A k \in 1..Len(s) : s[k][2] # Nil => s[k][1] \in DOMAIN p
  OBVIOUS
<1>5. DOMAIN p = DOMAIN keys \cup fresh
  OBVIOUS
<1> HIDE DEF p, fresh
<1> QED
  BY <1>1, <1>2, <1>3, <1>4, <1>5

\* Messages of one robot, delivered to inboxes that were in order.
LEMMA Delivered ==
  ASSUME NEW r, NEW ms \in Seq(Message), NEW inboxes \in [Robot -> Seq(Message)],
         \A m \in Range(ms) : Follows(m),
         \A q \in Robot : \A m \in Range(inboxes[q]) : Follows(m)
  PROVE  /\ deliver_message(r, ms, inboxes) \in [Robot -> Seq(Message)]
         /\ \A q \in Robot : \A m \in Range(deliver_message(r, ms, inboxes)[q]) : Follows(m)
<1> DEFINE mine(q) == Only(ms, {m \in Range(ms) : q \in Addressees(r, m)})
<1>1. deliver_message(r, ms, inboxes) = [q \in Robot |-> inboxes[q] \o mine(q)]
  BY DEF deliver_message
<1>2. ASSUME NEW q \in Robot
      PROVE  /\ inboxes[q] \o mine(q) \in Seq(Message)
             /\ \A m \in Range(inboxes[q] \o mine(q)) : Follows(m)
  <2> DEFINE T == {m \in Range(ms) : q \in Addressees(r, m)}
  <2>1. mine(q) \in Seq(Message) /\ Range(mine(q)) = Range(ms) \cap T
    <3> HIDE DEF T
    <3>1. Only(ms, T) \in Seq(Message) /\ Range(Only(ms, T)) = Range(ms) \cap T
      BY OnlyFilters
    <3> QED
      BY <3>1 DEF T
  <2>2. inboxes[q] \in Seq(Message)
    OBVIOUS
  <2> HIDE DEF mine, T
  <2>3. /\ inboxes[q] \o mine(q) \in Seq(Message)
        /\ Range(inboxes[q] \o mine(q)) = Range(inboxes[q]) \cup Range(mine(q))
    BY <2>1, <2>2, RangeJoined
  <2> QED
    BY <2>1, <2>3
<1> HIDE DEF mine
<1> QED
  BY <1>1, <1>2

\* What a world that is being ticked is known by.
LEMMA Ticked ==
  ASSUME SwarmInv, turn # 0
  PROVE  LET r == worlds[turn]
         IN  /\ r \in Robot /\ r \in World /\ Issued(id[r]) /\ id[r] = <<r, rotations[r]>>
             /\ id[r] \in Identity /\ keypair[r] = (IF auth THEN id[r] ELSE Nil)
             /\ self_id[r] # Nil => Issued(self_id[r]) /\ self_id[r][1] = r
<1> DEFINE r == worlds[turn]
<1>1. turn \in 1..Len(worlds) /\ r \in Robot /\ r \in World
  <2>1. worlds \in Seq(Robot) /\ turn \in 0..Len(worlds)
    BY DEF SwarmInv, Shapes
  <2>2. turn \in 1..Len(worlds)
    BY <2>1
  <2> QED
    BY <2>1, <2>2 DEF World
<1> HIDE DEF r
<1>2. rotations[r] \in 0..MaxRotations /\ rotations[r] \in Int
  BY <1>1, Identities DEF SwarmInv, Shapes
<1>3. /\ id[r] = <<r, rotations[r]>> /\ keypair[r] = (IF auth THEN id[r] ELSE Nil)
      /\ self_id[r] # Nil => Issued(self_id[r]) /\ self_id[r][1] = r
  BY <1>1 DEF SwarmInv, Own
<1>4. Issued(id[r]) /\ id[r] \in Identity
  BY <1>1, <1>2, <1>3, Identities DEF Issued
<1> QED
  BY <1>1, <1>3, <1>4 DEF r

\* What DiscoverySystem of a ticked robot r says has the robot's present key.
LEMMA SaidFollows ==
  ASSUME SwarmInv, NEW r \in Robot, Issued(id[r]), id[r] = <<r, rotations[r]>>,
         keypair[r] = (IF auth THEN id[r] ELSE Nil),
         NEW m, m.key = keypair[r],
         m.sender # Nil => Issued(m.sender) /\ m.sender[1] = r
  PROVE  Follows(m)
<1> SUFFICES ASSUME m.key # Nil
             PROVE  /\ auth /\ Issued(m.key)
                    /\ m.sender # Nil => m.sender[1] = m.key[1] /\ m.sender[2] <= m.key[2]
  BY DEF Follows
<1>1. auth /\ m.key = <<r, rotations[r]>> /\ Issued(m.key)
  OBVIOUS
<1> QED
  BY <1>1 DEF Issued
-----------------------------------------------------------------------------
(* The beacons that r drains: every one with a key finds it pinned to its  *)
(* identity, so none is refused.                                           *)
LEMMA HeardTaken ==
  ASSUME SwarmInv, NEW r \in Robot
  PROVE  LET inbox == inbound_beacons[r]
             heard == Only(inbox, {b \in Range(inbox) : b.id # id[r]})
             keys  == try_pin(peer_keys[r], BeaconKeys(heard))
         IN  /\ heard \in Seq(Beacon) /\ Range(heard) \subseteq Range(inbox)
             /\ \A i \in DOMAIN peer_keys[r] : i \in DOMAIN keys /\ keys[i] = peer_keys[r][i]
             /\ \A i \in DOMAIN keys : i \notin DOMAIN peer_keys[r] => auth /\ Issued(i) /\ keys[i] = i
             /\ \A b \in Range(heard) : b.key # Nil =>
                  b.id \in DOMAIN keys /\ keys[b.id] = b.key /\ b.key = b.id
<1> DEFINE inbox == inbound_beacons[r]
           T == {b \in Range(inbox) : b.id # id[r]}
           heard == Only(inbox, T)
           s == BeaconKeys(heard)
           old == peer_keys[r]
           keys == try_pin(old, s)
<1>1. inbox \in Seq(Beacon)
  BY DEF SwarmInv, Shapes
<1>2. heard \in Seq(Beacon) /\ Range(heard) \subseteq Range(inbox)
  <2> HIDE DEF T, inbox
  <2>1. Only(inbox, T) \in Seq(Beacon) /\ Range(Only(inbox, T)) = Range(inbox) \cap T
    BY <1>1, OnlyFilters
  <2> QED
    BY <2>1
<1>3. \A b \in Range(inbox) : Issued(b.id) /\ b.key = (IF auth THEN b.id ELSE Nil)
  BY DEF SwarmInv, InFlight, Matches
<1>4. \A i \in DOMAIN old : Settled(i, old[i], inbox)
  BY DEF SwarmInv, Pins
<1> HIDE DEF heard, inbox, T, old
<1>5. Len(s) \in Nat /\ Len(s) = Len(heard)
  BY <1>2 DEF BeaconKeys
<1>6. \A k \in 1..Len(s) : heard[k] \in Range(heard) /\ s[k][1] = heard[k].id /\ s[k][2] = heard[k].key
  BY <1>2, <1>5 DEF BeaconKeys, Range
<1>7. \A b \in Range(heard) : \E k \in 1..Len(s) : b = heard[k]
  BY <1>2, <1>5 DEF Range
<1> HIDE DEF s
<1>8. \A i \in DOMAIN old : i \in DOMAIN keys /\ keys[i] = old[i]
  BY <1>5, TryPin
<1>9. \A i \in DOMAIN keys : i \notin DOMAIN old =>
        \E k \in 1..Len(s) : s[k][1] = i /\ s[k][2] # Nil /\ keys[i] = s[k][2]
  BY <1>5, TryPin
<1>10. \A k \in 1..Len(s) : s[k][2] # Nil => s[k][1] \in DOMAIN keys
  BY <1>5, TryPin
<1> HIDE DEF keys
<1>11. ASSUME NEW i \in DOMAIN keys, i \notin DOMAIN old PROVE auth /\ Issued(i) /\ keys[i] = i
  <2>1. PICK k \in 1..Len(s) : s[k][1] = i /\ s[k][2] # Nil /\ keys[i] = s[k][2]
    BY <1>9, <1>11
  <2>2. heard[k] \in Range(inbox) /\ heard[k].id = i /\ heard[k].key # Nil /\ keys[i] = heard[k].key
    BY <1>2, <1>6, <2>1
  <2> QED
    BY <1>3, <2>2
<1>12. ASSUME NEW b \in Range(heard), b.key # Nil
       PROVE  b.id \in DOMAIN keys /\ keys[b.id] = b.key /\ b.key = b.id
  <2>1. b \in Range(inbox) /\ Issued(b.id) /\ b.key = b.id
    BY <1>2, <1>3, <1>12
  <2>2. b.id \in DOMAIN keys
    BY <1>6, <1>7, <1>10, <1>12
  <2>3. CASE b.id \in DOMAIN old
    <3>1. b.id # Nil
      BY <2>1, Identities DEF Issued
    <3>2. old[b.id] # b.id => \A x \in Range(inbox) : x.id # b.id
      BY <1>4, <2>3, <3>1 DEF Settled
    <3>3. old[b.id] = b.id
      BY <2>1, <3>2
    <3> QED
      BY <1>8, <2>1, <2>2, <2>3, <3>3
  <2>4. CASE b.id \notin DOMAIN old
    BY <1>11, <2>1, <2>2, <2>4
  <2> QED
    BY <2>3, <2>4
<1> QED
  BY <1>2, <1>8, <1>11, <1>12 DEF heard, inbox, T, old, s, keys

LEMMA BeaconKeeps ==
  ASSUME SwarmInv, turn # 0, BeaconSystem(worlds[turn])
  PROVE  SwarmInv'
<1> DEFINE r == worlds[turn]
           inbox == inbound_beacons[r]
           heard == Only(inbox, {b \in Range(inbox) : b.id # id[r]})
           keys == try_pin(peer_keys[r], BeaconKeys(heard))
           taken == {b \in Range(heard) : b.key = Nil \/ keys[b.id] = b.key}
           kept == age_out(table[r])
           seen == {b.id : b \in taken}
           said == MessageKeys(inbound_messages[r])
           pinned == try_pin(keys, said)
           mine == [id |-> id[r], key |-> keypair[r]]
<1>1. /\ r \in Robot /\ r \in World /\ Issued(id[r]) /\ id[r] = <<r, rotations[r]>>
      /\ id[r] \in Identity /\ keypair[r] = (IF auth THEN id[r] ELSE Nil)
      /\ self_id[r] # Nil => Issued(self_id[r]) /\ self_id[r][1] = r
  BY Ticked
<1>2. /\ heard \in Seq(Beacon) /\ Range(heard) \subseteq Range(inbox)
      /\ \A i \in DOMAIN peer_keys[r] : i \in DOMAIN keys /\ keys[i] = peer_keys[r][i]
      /\ \A i \in DOMAIN keys : i \notin DOMAIN peer_keys[r] => auth /\ Issued(i) /\ keys[i] = i
      /\ \A b \in Range(heard) : b.key # Nil =>
           b.id \in DOMAIN keys /\ keys[b.id] = b.key /\ b.key = b.id
  BY <1>1, HeardTaken
<1>3. /\ inbound_beacons' = [t \in Robot |->
           IF t = r THEN <<>>
           ELSE IF beacon_due(r) /\ t \in Audience(r)
                THEN Append(inbound_beacons[t], mine) ELSE inbound_beacons[t]]
      /\ table' = [table EXCEPT ![r] = [i \in DOMAIN kept \cup seen |-> IF i \in seen THEN 0 ELSE kept[i]]]
      /\ rejected' = [rejected EXCEPT ![r] = @ + Len(Only(heard, Range(heard) \ taken))]
      /\ peer_keys' = [peer_keys EXCEPT ![r] = pinned]
      /\ inbound_messages' = deliver_message(r, Welcomes(r), [inbound_messages EXCEPT ![r] = <<>>])
  BY DEF BeaconSystem
<1>4. UNCHANGED <<auth, worlds, turn, id, keypair, cert, rotations, self_id>>
  BY DEF BeaconSystem, identityVars, discoveryVars
<1>5. Shapes
  BY DEF SwarmInv
<1>6. DOMAIN kept \subseteq DOMAIN table[r]
  BY DEF age_out
<1>7. Range(heard) \subseteq taken
  BY <1>2
<1>8. seen = {b.id : b \in Range(heard)}
  BY <1>7
<1>9. \A b \in Range(inbox) : Matches(b)
  BY <1>1 DEF SwarmInv, InFlight
<1>10. /\ inbound_messages[r] \in Seq(Message)
       /\ \A m \in Range(inbound_messages[r]) : Follows(m)
  BY <1>1 DEF SwarmInv, InFlight, Shapes
<1>11. mine \in Beacon /\ Matches(mine) /\ mine.id = id[r]
  BY <1>1, Identities DEF Beacon, Matches
<1>12. Len(said) \in Nat /\ \A k \in 1..Len(said) :
         LET m == inbound_messages[r][k]
         IN  m \in Message /\ Follows(m) /\ said[k][1] = m.sender /\ said[k][2] = m.key
  <2> DEFINE ms == inbound_messages[r]
  <2>1. ms \in Seq(Message) /\ \A m \in Range(ms) : Follows(m)
    BY <1>10
  <2> HIDE DEF ms
  <2>2. Len(MessageKeys(ms)) = Len(ms) /\ Len(ms) \in Nat
    BY <2>1 DEF MessageKeys
  <2>3. \A k \in 1..Len(ms) : /\ ms[k] \in Message /\ ms[k] \in Range(ms)
                              /\ MessageKeys(ms)[k][1] = ms[k].sender /\ MessageKeys(ms)[k][2] = ms[k].key
    BY <2>1 DEF MessageKeys, Range
  <2> QED
    BY <2>1, <2>2, <2>3 DEF ms
<1> HIDE DEF r, inbox, heard, keys, kept, mine, said
<1>13. /\ \A i \in DOMAIN keys : i \in DOMAIN pinned /\ pinned[i] = keys[i]
       /\ \A i \in DOMAIN pinned : i \notin DOMAIN keys =>
            \E k \in 1..Len(said) : said[k][1] = i /\ said[k][2] # Nil /\ pinned[i] = said[k][2]
  BY <1>12, TryPin
<1> HIDE DEF pinned
<1>14. NoFalseReject'
  <2>1. Only(heard, Range(heard) \ taken) \in Seq(Beacon)
        /\ Range(Only(heard, Range(heard) \ taken)) = Range(heard) \cap (Range(heard) \ taken)
    BY <1>2, OnlyFilters
  <2>2. Range(Only(heard, Range(heard) \ taken)) = {}
    BY <1>7, <2>1
  <2>3. Only(heard, Range(heard) \ taken) = <<>>
    BY <2>1, <2>2, RangeEmpty
  <2>4. Len(Only(heard, Range(heard) \ taken)) = 0
    BY <2>3
  <2> HIDE DEF taken
  <2>5. rejected' = [rejected EXCEPT ![r] = @ + 0]
    BY <1>3, <2>4
  <2>6. \A q \in Robot : rejected[q] = 0
    BY DEF SwarmInv, NoFalseReject
  <2> QED
    BY <2>5, <2>6 DEF NoFalseReject
<1> HIDE DEF taken
<1>15. \A i : Issued(i)' <=> Issued(i)
  BY <1>4 DEF Issued
<1>16. \A q \in Robot : /\ inbound_beacons'[q] \in Seq(Beacon)
                        /\ Range(inbound_beacons'[q]) \subseteq
                             IF q = r THEN {} ELSE Range(inbound_beacons[q]) \cup {mine}
  <2> SUFFICES ASSUME NEW q \in Robot
               PROVE  /\ inbound_beacons'[q] \in Seq(Beacon)
                      /\ Range(inbound_beacons'[q]) \subseteq
                           IF q = r THEN {} ELSE Range(inbound_beacons[q]) \cup {mine}
    OBVIOUS
  <2>1. inbound_beacons[q] \in Seq(Beacon)
    BY <1>5 DEF Shapes
  <2>2. /\ Append(inbound_beacons[q], mine) \in Seq(Beacon)
        /\ Range(Append(inbound_beacons[q], mine)) = Range(inbound_beacons[q]) \cup {mine}
    BY <1>11, <2>1, OneAppended
  <2>3. CASE q = r
    BY <1>3, <2>3, EmptySequence
  <2>4. CASE q # r
    <3>1. inbound_beacons'[q] = Append(inbound_beacons[q], mine) \/ inbound_beacons'[q] = inbound_beacons[q]
      BY <1>3, <2>4
    <3> QED
      BY <2>1, <2>2, <2>4, <3>1
  <2> QED
    BY <2>3, <2>4
<1>17. /\ inbound_messages' \in [Robot -> Seq(Message)]
       /\ \A q \in Robot : \A m \in Range(inbound_messages'[q]) : Follows(m)
  <2> DEFINE boxes == [inbound_messages EXCEPT ![r] = <<>>]
  <2>1. boxes \in [Robot -> Seq(Message)] /\ \A q \in Robot : \A m \in Range(boxes[q]) : Follows(m)
    <3>1. \A q \in Robot : boxes[q] = IF q = r THEN <<>> ELSE inbound_messages[q]
      BY <1>5 DEF Shapes
    <3>2. boxes \in [Robot -> Seq(Message)]
      <4>1. inbound_messages \in [Robot -> Seq(Message)] /\ <<>> \in Seq(Message)
        BY <1>5, EmptySequence DEF Shapes
      <4> QED
        BY <4>1
    <3> HIDE DEF boxes
    <3> QED
      BY <3>1, <3>2, EmptySequence DEF SwarmInv, InFlight
  <2>2. Welcomes(r) \in Seq(Message) /\ \A m \in Range(Welcomes(r)) : Follows(m)
    <3> DEFINE ms == inbound_messages[r]
               hellos == Only(ms, {m \in Range(ms) : m.type = HELLO})
    <3>1. hellos \in Seq(Message)
      BY <1>10, OnlyFilters
    <3>2. Welcomes(r) = [k \in 1..Len(hellos) |-> Welcome(r, hellos[k])]
      BY DEF Welcomes
    <3> HIDE DEF hellos, ms
    <3>3. \A m \in Message : Welcome(r, m) \in Message /\ Follows(Welcome(r, m))
      <4> SUFFICES ASSUME NEW m \in Message PROVE Welcome(r, m) \in Message /\ Follows(Welcome(r, m))
        OBVIOUS
      <4>1. /\ Welcome(r, m).key = keypair[r] /\ Welcome(r, m).sender = self_id[r]
            /\ m.sender \in Identity \cup {Nil}
        BY DEF Welcome, Message
      <4>2. Follows(Welcome(r, m))
        BY <1>1, <4>1, SaidFollows
      <4>3. keypair[r] \in Key \cup {Nil} /\ self_id[r] \in Identity \cup {Nil}
        BY <1>1, <1>5 DEF Shapes
      <4>4. Welcome(r, m) \in Message
        BY <4>1, <4>3 DEF Welcome, Message
      <4> QED
        BY <4>2, <4>4
    <3>4. Len(hellos) \in Nat /\ \A k \in 1..Len(hellos) : hellos[k] \in Message
      BY <3>1
    <3> QED
      BY <3>2, <3>3, <3>4 DEF Range
  <2> HIDE DEF boxes
  <2>3. /\ deliver_message(r, Welcomes(r), boxes) \in [Robot -> Seq(Message)]
        /\ \A q \in Robot : \A m \in Range(deliver_message(r, Welcomes(r), boxes)[q]) : Follows(m)
    BY <2>1, <2>2, Delivered
  <2> QED
    BY <1>3, <2>3 DEF boxes
<1>18. Shapes'
  <2>1. inbound_beacons' \in [Robot -> Seq(Beacon)]
    BY <1>3, <1>16
  <2>2. DOMAIN table' = Robot /\ DOMAIN peer_keys' = Robot
    BY <1>3, <1>5 DEF Shapes
  <2> QED
    BY <1>4, <1>5, <1>17, <2>1, <2>2 DEF Shapes
<1>19. Own'
  <2>1. World' = World
    BY <1>4 DEF World
  <2> QED
    BY <1>4, <1>15, <2>1 DEF SwarmInv, Own
<1>20. InFlight'
  <2>1. \A b : Matches(b)' <=> Matches(b)
    BY <1>4, <1>15 DEF Matches, Issued
  <2>2. \A m : Follows(m)' <=> Follows(m)
    BY <1>4, <1>15 DEF Follows, Issued
  <2>3. \A q \in Robot : \A b \in Range(inbound_beacons'[q]) : Matches(b)
    BY <1>11, <1>16 DEF SwarmInv, InFlight
  <2> QED
    BY <1>17, <2>1, <2>2, <2>3 DEF InFlight
<1>21. Pins'
  <2>1. \A i, k, box : Settled(i, k, box)' <=> Settled(i, k, box)
    BY <1>4, <1>15 DEF Settled, Issued
  <2> SUFFICES ASSUME NEW q \in Robot, NEW i \in DOMAIN peer_keys'[q]
               PROVE  Settled(i, peer_keys'[q][i], inbound_beacons'[q])
    BY <1>4 DEF Pins, Settled, Issued
  <2>2. CASE q = r
    <3>1. peer_keys'[q] = pinned /\ Range(inbound_beacons'[q]) = {}
      BY <1>3, <1>5, <1>16, <2>2 DEF Shapes
    <3> SUFFICES /\ auth /\ Issued(pinned[i])
                 /\ i # Nil => i \in Identity /\ i[1] = pinned[i][1] /\ i[2] <= pinned[i][2]
      BY <3>1 DEF Settled
    <3>2. CASE i \in DOMAIN peer_keys[r]
      <4>1. pinned[i] = peer_keys[r][i]
        BY <1>2, <1>13, <3>2
      <4>2. Settled(i, peer_keys[r][i], inbound_beacons[r])
        BY <1>1, <3>2 DEF SwarmInv, Pins
      <4> QED
        BY <4>1, <4>2 DEF Settled
    <3>3. CASE i \in DOMAIN keys /\ i \notin DOMAIN peer_keys[r]
      <4>1. auth /\ Issued(i) /\ pinned[i] = i
        BY <1>2, <1>13, <3>3
      <4>2. i \in Identity /\ i[2] \in Int
        BY <4>1, Identities DEF Issued
      <4> QED
        BY <4>1, <4>2
    <3>4. CASE i \notin DOMAIN keys
      <4>1. PICK k \in 1..Len(said) : said[k][1] = i /\ said[k][2] # Nil /\ pinned[i] = said[k][2]
        BY <1>13, <3>1, <3>4
      <4>2. PICK m : m = inbound_messages[r][k]
        OBVIOUS
      <4>3. m \in Message /\ Follows(m) /\ m.sender = i /\ m.key # Nil /\ pinned[i] = m.key
        BY <1>12, <4>1, <4>2
      <4>4. m.sender \in Identity \cup {Nil}
        BY <4>3 DEF Message
      <4> QED
        BY <4>3, <4>4 DEF Follows
    <3> QED
      BY <3>2, <3>3, <3>4
  <2>3. CASE q # r
    <3>1. peer_keys'[q] = peer_keys[q]
      BY <1>3, <1>5, <2>3 DEF Shapes
    <3>2. Settled(i, peer_keys[q][i], inbound_beacons[q])
      BY <3>1 DEF SwarmInv, Pins
    <3> DEFINE k == peer_keys[q][i]
    <3>3. auth /\ Issued(k) /\ (i # Nil => i \in Identity /\ i[1] = k[1] /\ i[2] <= k[2])
          /\ (i # Nil /\ k # i => \A b \in Range(inbound_beacons[q]) : b.id # i)
      BY <3>2 DEF Settled
    <3>4. ASSUME i # Nil, k # i PROVE mine.id # i
      <4> SUFFICES ASSUME id[r] = i PROVE FALSE
        BY <1>11
      <4>1. i = <<r, rotations[r]>> /\ k[1] = r /\ rotations[r] <= k[2] /\ k[2] <= rotations[r]
        BY <1>1, <3>3, <3>4 DEF Issued
      <4>2. k \in Identity /\ k = <<k[1], k[2]>> /\ k[2] \in Int /\ rotations[r] \in Int
        <5>1. k \in Identity
          BY <3>3 DEF Issued
        <5> HIDE DEF k
        <5>2. k = <<k[1], k[2]>> /\ k[2] \in 0..MaxRotations
          BY <5>1, Identities
        <5>3. rotations[r] \in 0..MaxRotations
          BY <1>1, <1>5 DEF Shapes
        <5> QED
          BY <5>1, <5>2, <5>3, Identities
      <4>3. k[2] = rotations[r]
        BY <4>1, <4>2
      <4>4. k = i
        BY <4>1, <4>2, <4>3
      <4> QED
        BY <3>4, <4>4
    <3>5. \A b \in Range(inbound_beacons'[q]) : b \in Range(inbound_beacons[q]) \/ b = mine
      BY <1>16, <2>3
    <3> QED
      BY <3>1, <3>3, <3>4, <3>5 DEF Settled
  <2> QED
    BY <2>2, <2>3
<1>22. ListedPinned'
  <2> SUFFICES ASSUME auth, NEW q \in Robot, NEW i \in DOMAIN table'[q]
               PROVE  i \in DOMAIN peer_keys'[q] /\ peer_keys'[q][i] = i
    BY <1>4 DEF ListedPinned
  <2>1. CASE q = r
    <3>1. peer_keys'[q] = pinned /\ i \in DOMAIN kept \cup seen
      BY <1>3, <1>5, <2>1 DEF Shapes
    <3>2. CASE i \in DOMAIN kept
      <4>1. i \in DOMAIN peer_keys[r] /\ peer_keys[r][i] = i
        BY <1>1, <1>6, <3>2 DEF SwarmInv, ListedPinned
      <4> QED
        BY <1>2, <1>13, <3>1, <4>1
    <3>3. CASE i \in seen
      <4>1. PICK b \in Range(heard) : b.id = i
        BY <1>8, <3>3
      <4>2. b.key = b.id /\ b.key # Nil
        BY <1>2, <1>9, <4>1, Identities DEF Matches, Issued
      <4> QED
        BY <1>2, <1>13, <3>1, <4>1, <4>2
    <3> QED
      BY <3>1, <3>2, <3>3
  <2>2. CASE q # r
    <3>1. peer_keys'[q] = peer_keys[q] /\ table'[q] = table[q]
      BY <1>3, <1>5, <2>2 DEF Shapes
    <3> QED
      BY <3>1 DEF SwarmInv, ListedPinned
  <2> QED
    BY <2>1, <2>2
<1>23. Certified'
  <2>1. World' = World
    BY <1>4 DEF World
  <2> QED
    BY <1>4, <2>1 DEF SwarmInv, Certified
<1> QED
  BY <1>14, <1>18, <1>19, <1>20, <1>21, <1>22, <1>23 DEF SwarmInv

LEMMA DiscoveryKeeps ==
  ASSUME SwarmInv, turn # 0, DiscoverySystem(worlds[turn])
  PROVE  SwarmInv'
<1> DEFINE r == worlds[turn]
           self == IF self_id[r] = Nil THEN id[r] ELSE self_id[r]
           hello == [type |-> HELLO, sender |-> self, recipient |-> Nil, key |-> keypair[r]]
<1>1. /\ r \in Robot /\ r \in World /\ Issued(id[r]) /\ id[r] = <<r, rotations[r]>>
      /\ id[r] \in Identity /\ keypair[r] = (IF auth THEN id[r] ELSE Nil)
      /\ self_id[r] # Nil => Issued(self_id[r]) /\ self_id[r][1] = r
  BY Ticked
<1>2. /\ self_id' = [self_id EXCEPT ![r] = self]
      /\ \/ inbound_messages' = inbound_messages
         \/ inbound_messages' = deliver_message(r, <<hello>>, inbound_messages)
  BY DEF DiscoverySystem
<1>3. UNCHANGED <<auth, worlds, turn, id, keypair, cert, rotations, table, rejected, peer_keys,
                  inbound_beacons>>
  BY DEF DiscoverySystem, identityVars, beaconVars
<1>4. Shapes
  BY DEF SwarmInv
<1>5. Issued(self) /\ self[1] = r /\ self \in Identity
  <2>1. Issued(self) /\ self[1] = r
    BY <1>1
  <2> HIDE DEF self
  <2> QED
    BY <2>1 DEF Issued
<1> HIDE DEF r, self
<1>6. hello \in Message /\ Follows(hello)
  <2>1. keypair[r] \in Key \cup {Nil}
    BY <1>1, <1>4 DEF Shapes
  <2>2. hello \in Message
    BY <1>5, <2>1 DEF Message
  <2>3. hello.key = keypair[r] /\ hello.sender = self
    OBVIOUS
  <2> HIDE DEF hello
  <2>4. Follows(hello)
    BY <1>1, <1>5, <2>3, SaidFollows
  <2> QED
    BY <2>2, <2>4
<1> HIDE DEF hello
<1>7. /\ inbound_messages' \in [Robot -> Seq(Message)]
      /\ \A q \in Robot : \A m \in Range(inbound_messages'[q]) : Follows(m)
  <2>1. /\ inbound_messages \in [Robot -> Seq(Message)]
        /\ \A q \in Robot : \A m \in Range(inbound_messages[q]) : Follows(m)
    BY DEF SwarmInv, Shapes, InFlight
  <2>2. <<hello>> \in Seq(Message) /\ \A m \in Range(<<hello>>) : Follows(m)
    BY <1>6 DEF Range
  <2>3. /\ deliver_message(r, <<hello>>, inbound_messages) \in [Robot -> Seq(Message)]
        /\ \A q \in Robot :
             \A m \in Range(deliver_message(r, <<hello>>, inbound_messages)[q]) : Follows(m)
    BY <2>1, <2>2, Delivered
  <2> QED
    BY <1>2, <2>1, <2>3
<1>8. \A i : Issued(i)' <=> Issued(i)
  BY <1>3 DEF Issued
<1>9. World' = World
  BY <1>3 DEF World
<1>10. Shapes'
  <2>1. self_id' \in [Robot -> Identity \cup {Nil}]
    BY <1>2, <1>4, <1>5 DEF Shapes
  <2> QED
    BY <1>3, <1>4, <1>7, <2>1 DEF Shapes
<1>11. Own'
  <2> SUFFICES ASSUME NEW q \in Robot
               PROVE  /\ IF q \in World
                         THEN /\ id[q] = <<q, rotations[q]>>
                              /\ keypair[q] = (IF auth THEN id[q] ELSE Nil)
                         ELSE rotations[q] = 0
                      /\ self_id'[q] # Nil => Issued(self_id'[q]) /\ self_id'[q][1] = q
    BY <1>3, <1>9 DEF Own, Issued
  <2>1. self_id'[q] = IF q = r THEN self ELSE self_id[q]
    BY <1>2, <1>4 DEF Shapes
  <2> QED
    BY <1>5, <2>1 DEF SwarmInv, Own
<1>12. InFlight'
  <2>1. \A b : Matches(b)' <=> Matches(b)
    BY <1>3, <1>8 DEF Matches, Issued
  <2>2. \A m : Follows(m)' <=> Follows(m)
    BY <1>3, <1>8 DEF Follows, Issued
  <2> QED
    BY <1>3, <1>7, <2>1, <2>2 DEF SwarmInv, InFlight
<1>13. Pins' /\ ListedPinned' /\ Certified' /\ NoFalseReject'
  BY <1>3, <1>8, <1>9
     DEF SwarmInv, Pins, Settled, Issued, ListedPinned, Certified, NoFalseReject
<1> QED
  BY <1>10, <1>11, <1>12, <1>13 DEF SwarmInv

\* The bus passes from one world to the next; a robot's move touches no key.
LEMMA TurnKeeps ==
  ASSUME SwarmInv, turn' \in 0..Len(worlds),
         UNCHANGED <<auth, worlds, identityVars, beaconVars, discoveryVars, inbound_messages>>
  PROVE  SwarmInv'
<1>1. UNCHANGED <<auth, worlds, id, keypair, cert, rotations, table, rejected, peer_keys,
                  inbound_beacons, self_id, inbound_messages>>
  BY DEF identityVars, beaconVars, discoveryVars
<1>2. Shapes'
  BY <1>1 DEF SwarmInv, Shapes
<1>3. World' = World
  BY <1>1 DEF World
<1>4. Own' /\ InFlight'
  BY <1>1, <1>3 DEF SwarmInv, Own, InFlight, Matches, Follows, Issued
<1>5. Pins' /\ ListedPinned' /\ Certified' /\ NoFalseReject'
  BY <1>1, <1>3 DEF SwarmInv, Pins, Settled, Issued, ListedPinned, Certified, NoFalseReject
<1> QED
  BY <1>2, <1>4, <1>5 DEF SwarmInv

LEMMA SwarmStep == SwarmInv /\ [Next]_vars => SwarmInv'
<1> SUFFICES ASSUME SwarmInv, [Next]_vars PROVE SwarmInv'
  OBVIOUS
<1>1. worlds \in Seq(Robot) /\ turn \in 0..Len(worlds) /\ Len(worlds) \in Nat
  BY DEF SwarmInv, Shapes
<1>2. CASE \E r \in Robot : create_world(r) \/ rotate_identity(r)
  BY <1>2, CreateKeeps, RotateKeeps
<1>3. CASE advance
  <2>1. Len(worlds) # 0
    BY <1>1, <1>3 DEF advance
  <2>2. turn' \in 0..Len(worlds)
    BY <1>1, <1>3, <2>1 DEF advance
  <2> QED
    BY <1>3, <2>2, TurnKeeps DEF advance
<1>4. CASE Tick
  <2>1. turn # 0
    BY <1>4 DEF Tick
  <2>2. CASE BeaconSystem(worlds[turn])
    BY <2>1, <2>2, BeaconKeeps
  <2>3. CASE DiscoverySystem(worlds[turn])
    BY <2>1, <2>3, DiscoveryKeeps
  <2>4. CASE Move(worlds[turn])
    <3>1. turn' = IF turn = Len(worlds) THEN 0 ELSE turn + 1
      BY <2>4 DEF Move
    <3>2. turn' \in 0..Len(worlds)
      BY <1>1, <3>1
    <3> QED
      BY <2>4, <3>2, TurnKeeps DEF Move
  <2> QED
    BY <1>4, <2>2, <2>3, <2>4 DEF Tick
<1>5. CASE UNCHANGED vars
  <2>1. turn' \in 0..Len(worlds)
    BY <1>1, <1>5 DEF vars
  <2> QED
    BY <1>5, <2>1, TurnKeeps DEF vars
<1> QED
  BY <1>2, <1>3, <1>4, <1>5 DEF Next
-----------------------------------------------------------------------------
(* However HELLO, WELCOME, beacons and rotations interleave, what is pinned *)
(* and what is under way keep to SwarmInv.                                  *)
THEOREM SwarmInvariant == Spec => []SwarmInv
<1> QED
  BY SwarmStart, SwarmStep, PTL DEF Spec

(* BeaconSystem::tick refuses no beacon of the swarm's own robots           *)
(* (beacon_system.cpp:125-135): a message that pins a later key than its    *)
(* sender's identity is drained after every beacon of that identity.        *)
THEOREM SwarmNoFalseReject == Spec => []NoFalseReject
<1>1. SwarmInv => NoFalseReject
  BY DEF SwarmInv
<1> QED
  BY <1>1, SwarmInvariant, PTL

(* PeerKeyRegistry::try_pin never ties an identity to another robot's key.  *)
THEOREM SwarmPinsOwn == Spec => []PinsOwn
<1>1. SwarmInv => PinsOwn
  <2> SUFFICES ASSUME SwarmInv, NEW r \in Robot, NEW i \in DOMAIN peer_keys[r] \ {Nil}
               PROVE  peer_keys[r][i][1] = i[1]
    BY DEF PinsOwn
  <2>1. Settled(i, peer_keys[r][i], inbound_beacons[r])
    BY DEF SwarmInv, Pins
  <2> QED
    BY <2>1 DEF Settled
<1> QED
  BY <1>1, SwarmInvariant, PTL

(* Whoever lists the identity that World::rotate_identity gave up holds the *)
(* key that its certificate is signed with (world.cpp:218-237).             *)
THEOREM SwarmCertVerifies == Spec => []CertVerifies
<1>1. SwarmInv => CertVerifies
  <2> SUFFICES ASSUME SwarmInv, NEW r \in Robot, NEW q \in Robot,
                      cert[r] # Nil, cert[r].prev \in DOMAIN table[q]
               PROVE  /\ peer_keys[q][cert[r].prev] = cert[r].signed_by
                      /\ cert[r].new = id[r] /\ cert[r].key = keypair[r]
    BY DEF CertVerifies
  <2>1. auth /\ r \in World
    BY DEF SwarmInv, Certified
  <2>2. PICK p \in Identity :
          cert[r] = [prev |-> p, new |-> id[r], key |-> id[r], signed_by |-> p]
    BY DEF SwarmInv, Certified
  <2>3. cert[r].prev = p /\ cert[r].signed_by = p /\ cert[r].new = id[r] /\ cert[r].key = id[r]
    BY <2>2
  <2>4. keypair[r] = id[r]
    BY <2>1 DEF SwarmInv, Own
  <2>5. peer_keys[q][p] = p
    BY <2>1, <2>3 DEF SwarmInv, ListedPinned
  <2> QED
    BY <2>3, <2>4, <2>5
<1> QED
  BY <1>1, SwarmInvariant, PTL
=============================================================================
