------------------------- MODULE CoordinationProofs -------------------------
(* What a robot's coordination and its clock keep to for any number of     *)
(* peers and roles, any ratios, thresholds, windows and limits, and in     *)
(* either mode of the scheduler.                                           *)
EXTENDS Coordination, ClockSync, DataLemmas

(* A window that nobody has felt is open, and outlasts the next decrement  *)
(* if TaskAllocSystem has run in this tick already.                        *)
Pending ==
  ~felt => window >= 1 /\ ("TaskAllocSystem" \notin todo => window >= 2)

CoordinationInv == TypeOK /\ Pending

\* A system that runs was due, and is not due again in this tick.
LEMMA RunsOnce ==
  ASSUME NEW s, Runs(s)
  PROVE  s \in todo /\ todo' = todo \ {s}
BY DEF Runs

LEMMA Systems ==
  System = {"BeaconSystem", "PartitionMergeSystem", "TaskAllocSystem"}
BY DEF System, describe

LEMMA NoneIsNoEntry ==
  None \notin Entry /\ \A e \in Entry : e # None
BY CoordinationAssumption DEF None, Entry

\* The neighbours are finitely many, at most all peers.
LEMMA NeighboursFinite ==
  /\ IsFiniteSet(Neighbours) /\ Cardinality(Neighbours) \in Nat
  /\ Cardinality(Neighbours) <= Cardinality(Peer) /\ Cardinality(Peer) \in Nat
BY CoordinationAssumption, FS_Subset, FS_CardinalityType DEF Neighbours

LEMMA CoordinationStart == Init => CoordinationInv
<1> SUFFICES ASSUME Init PROVE CoordinationInv
  OBVIOUS
<1>1. TypeOK
  BY CoordinationAssumption, NeighboursFinite DEF Init, TypeOK, Role
<1>2. Pending
  BY DEF Init, Pending
<1> QED
  BY <1>1, <1>2 DEF CoordinationInv
-----------------------------------------------------------------------------
\* What a beacon says makes an entry, and an entry ages into one or goes.
LEMMA AgedEntry ==
  ASSUME NEW e \in Entry \cup {None}
  PROVE  aged(e) \in Entry \cup {None}
<1>1. CASE e = None \/ e.age = NeighbourTimeout
  BY <1>1 DEF aged
<1>2. CASE ~(e = None \/ e.age = NeighbourTimeout)
  BY <1>2, CoordinationAssumption DEF aged, Entry
<1> QED
  BY <1>1, <1>2

LEMMA BeaconKeeps ==
  ASSUME CoordinationInv, BeaconSystem
  PROVE  CoordinationInv'
<1> USE DEF CoordinationInv
<1>1. "BeaconSystem" \in todo /\ todo' = todo \ {"BeaconSystem"}
  BY RunsOnce DEF BeaconSystem
<1>2. PICK heard \in SUBSET Peer :
      \E said \in [heard -> Role] :
        table' = [p \in Peer |-> IF p \in heard THEN [role |-> said[p], age |-> 0]
                                 ELSE aged(table[p])]
  BY DEF BeaconSystem
<1>3. PICK said \in [heard -> Role] :
        table' = [p \in Peer |-> IF p \in heard THEN [role |-> said[p], age |-> 0]
                                 ELSE aged(table[p])]
  BY <1>2
<1>4. ASSUME NEW p \in Peer PROVE table'[p] \in Entry \cup {None}
  <2>1. CASE p \in heard
    BY <1>3, <2>1, CoordinationAssumption DEF Entry
  <2>2. CASE p \notin heard
    BY <1>3, <2>2, AgedEntry DEF TypeOK
  <2> QED
    BY <2>1, <2>2
<1>5. table' \in [Peer -> Entry \cup {None}]
  BY <1>3, <1>4
<1>6. TypeOK'
  BY <1>1, <1>5 DEF TypeOK, BeaconSystem
<1>7. Pending'
  BY <1>1 DEF Pending, BeaconSystem
<1> QED
  BY <1>6, <1>7
-----------------------------------------------------------------------------
LEMMA MergeKeeps ==
  ASSUME CoordinationInv, PartitionMergeSystem
  PROVE  CoordinationInv'
<1> USE DEF CoordinationInv
<1>1. "PartitionMergeSystem" \in todo /\ todo' = todo \ {"PartitionMergeSystem"}
  BY RunsOnce DEF PartitionMergeSystem
<1>2. /\ last_peer_count' = Cardinality(Neighbours)
      /\ UNCHANGED <<parallel, table, role, since_switch>>
      /\ \/ window' = merge_window /\ felt' = FALSE
         \/ UNCHANGED <<window, felt>>
  BY DEF PartitionMergeSystem
<1>3. TypeOK'
  <2>1. last_peer_count' \in 0..Cardinality(Peer)
    BY <1>2, NeighboursFinite
  <2>2. window' \in 0..merge_window
    BY <1>2, CoordinationAssumption DEF TypeOK
  <2>3. felt' \in BOOLEAN
    BY <1>2 DEF TypeOK
  <2> QED
    BY <1>1, <1>2, <2>1, <2>2, <2>3 DEF TypeOK
<1>4. Pending'
  BY <1>1, <1>2, CoordinationAssumption DEF Pending
<1> QED
  BY <1>3, <1>4
-----------------------------------------------------------------------------
\* Every count, desire and margin is an integer.
LEMMA Margins ==
  ASSUME TypeOK, NEW r \in Tracked
  PROVE  /\ counted[r] \in Nat /\ total \in Nat /\ desired(r) \in Int
         /\ deficit(r) \in Int /\ margin(r) \in Int
<1>1. counted[r] \in Nat
  <2>1. Cardinality({p \in Neighbours : table[p].role = r}) \in Nat
    BY NeighboursFinite, FS_Subset, FS_CardinalityType
  <2> QED
    BY <2>1 DEF counted
<1>2. total \in Nat
  BY NeighboursFinite DEF total
<1>3. desired_ratios[r] \in Nat /\ thresholds[r] \in Nat /\ stimulus_gain \in Nat /\ Whole \in Nat
  BY CoordinationAssumption
<1>4. desired(r) \in Int
  BY <1>2, <1>3, SMTT(20) DEF desired
<1>5. deficit(r) \in Int
  <2>1. counted[r] * Whole \in Int
    BY <1>1, <1>3, SMTT(20)
  <2> QED
    BY <1>4, <2>1 DEF deficit
<1>6. margin(r) \in Int
  <2>1. deficit(r) * stimulus_gain \in Int
    BY <1>3, <1>5, SMTT(20)
  <2> QED
    BY <1>3, <2>1 DEF margin
<1> QED
  BY <1>1, <1>2, <1>4, <1>5, <1>6

\* If there are candidates, the role chosen is one of them.
LEMMA BestIsCandidate ==
  ASSUME TypeOK, candidates # {}
  PROVE  best_role \in candidates
<1> DEFINE f == [r \in candidates |-> margin(r)]
<1>1. candidates \subseteq Tracked /\ MaxTracked \in Nat /\ Tracked = 0..(MaxTracked - 1)
  BY CoordinationAssumption DEF candidates, Tracked
<1>2. f \in [candidates -> Int]
  BY <1>1, Margins
<1>3. \E r \in candidates : \A q \in candidates : f[q] < f[r] \/ (f[q] = f[r] /\ r <= q)
  <2> HIDE DEF f
  <2> QED
    BY <1>1, <1>2, FirstLargest
<1>4. \E r \in candidates : \A q \in candidates :
        margin(q) < margin(r) \/ (margin(q) = margin(r) /\ r <= q)
  BY <1>3
<1> QED
  BY <1>4 DEF best_role

LEMMA TaskAllocKeeps ==
  ASSUME CoordinationInv, TaskAllocSystem
  PROVE  CoordinationInv'
<1> USE DEF CoordinationInv
<1>1. "TaskAllocSystem" \in todo /\ todo' = todo \ {"TaskAllocSystem"}
  BY RunsOnce DEF TaskAllocSystem
<1>2. role' \in Role
  <2>1. CASE candidates # {} /\ best_role # role /\ since >= effective_stability
    <3>1. role' = best_role /\ best_role \in Tracked
      BY <2>1, BestIsCandidate DEF TaskAllocSystem, candidates
    <3> QED
      BY <3>1, CoordinationAssumption DEF Tracked, Role
  <2>2. CASE ~(candidates # {} /\ best_role # role /\ since >= effective_stability)
    BY <2>2 DEF TaskAllocSystem, TypeOK
  <2> QED
    BY <2>1, <2>2
<1>3. since_switch' \in 0..stability_window
  <2>1. since_switch' = 0 \/ since_switch' = since
    BY DEF TaskAllocSystem
  <2> QED
    BY <2>1, CoordinationAssumption DEF TypeOK, since
<1>4. UNCHANGED <<parallel, table, window, last_peer_count>> /\ felt' = (felt \/ is_merging)
  BY DEF TaskAllocSystem
<1>5. TypeOK'
  BY <1>1, <1>2, <1>3, <1>4 DEF TypeOK
<1>6. felt'
  <2>1. window \in Nat
    BY CoordinationAssumption DEF TypeOK
  <2>2. ~felt => is_merging
    BY <2>1 DEF Pending, is_merging
  <2> QED
    BY <1>4, <2>2
<1>7. Pending'
  BY <1>4, <1>6 DEF Pending
<1> QED
  BY <1>5, <1>7

LEMMA TickKeeps ==
  ASSUME CoordinationInv, tick
  PROVE  CoordinationInv'
<1> USE DEF CoordinationInv
<1>1. todo = {} /\ todo' = System /\ window' = decayed
  BY DEF tick
<1>2. UNCHANGED <<parallel, table, last_peer_count, role, since_switch, felt>>
  BY DEF tick
<1>3. window \in Nat /\ window <= merge_window
  BY CoordinationAssumption DEF TypeOK
<1>4. window' \in 0..merge_window /\ (window >= 2 => window' >= 1)
  BY <1>1, <1>3, CoordinationAssumption DEF decayed
<1>5. TypeOK'
  BY <1>1, <1>2, <1>4 DEF TypeOK
<1>6. Pending'
  BY <1>1, <1>2, <1>4, Systems DEF Pending
<1> QED
  BY <1>5, <1>6

LEMMA CoordinationStep == CoordinationInv /\ [Next]_vars => CoordinationInv'
<1> SUFFICES ASSUME CoordinationInv, [Next]_vars PROVE CoordinationInv'
  OBVIOUS
<1>1. CASE UNCHANGED vars
  BY <1>1 DEF vars, CoordinationInv, TypeOK, Pending
<1> QED
  BY <1>1, TickKeeps, BeaconKeeps, MergeKeeps, TaskAllocKeeps DEF Next

(* A merge window that TaskAllocSystem has not felt is still open, and open *)
(* for another tick if TaskAllocSystem is over for this one.               *)
THEOREM CoordinationInvariant == Spec => []CoordinationInv
<1>1. Init => CoordinationInv
  BY CoordinationStart
<1>2. CoordinationInv /\ [Next]_vars => CoordinationInv'
  BY CoordinationStep
<1> QED
  BY <1>1, <1>2, PTL DEF Spec

(* No merge window opened by PartitionMergeSystem runs out before          *)
(* TaskAllocSystem has run inside it.                                      *)
THEOREM CoordinationWindowFelt == Spec => []WindowFelt
<1>1. CoordinationInv => WindowFelt
  <2>1. CoordinationInv => window \in Nat
    BY CoordinationAssumption DEF CoordinationInv, TypeOK
  <2> QED
    BY <2>1 DEF CoordinationInv, Pending, WindowFelt, is_merging
<1> QED
  BY <1>1, CoordinationInvariant, PTL

-----------------------------------------------------------------------------
\* A margin over a threshold of a whole robot is a lack of more than one.
LEMMA LacksOne ==
  ASSUME NEW d \in Int, NEW g \in Nat, NEW w \in Nat, NEW th \in Nat, NEW x \in Int,
         x = d * g, x - th > 0, th >= g * w
  PROVE  d > w
<1>1. g # 0
  <2> SUFFICES ASSUME g = 0 PROVE FALSE
    OBVIOUS
  <2>1. x = 0
    BY SMTT(20)
  <2> QED
    BY <2>1
<1> SUFFICES ASSUME d <= w PROVE FALSE
  OBVIOUS
<1>2. g * (w - d) >= 0
  BY <1>1, SMTT(20)
<1>3. g * (w - d) = g * w - d * g /\ g * w \in Int
  BY SMTT(20)
<1> QED
  BY <1>2, <1>3

(* A role whose threshold is at least the gain is never overfilled by the  *)
(* robot's own switch.                                                     *)
THEOREM CoordinationNoOverfill == Spec => NoOverfill
<1> DEFINE Fits == \A r \in Tracked :
                     role' = r /\ role # r /\ thresholds[r] >= stimulus_gain * Whole
                       => counted'[r] * Whole <= desired(r)
<1>1. CoordinationInv /\ [Next]_vars => [Fits]_vars
  <2> SUFFICES ASSUME CoordinationInv, Next, NEW r \in Tracked, role' = r, role # r,
                      thresholds[r] >= stimulus_gain * Whole
               PROVE  counted'[r] * Whole <= desired(r)
    OBVIOUS
  <2>1. TaskAllocSystem
    BY DEF Next, tick, BeaconSystem, PartitionMergeSystem
  <2>2. TypeOK /\ r = best_role /\ candidates # {}
    BY <2>1 DEF TaskAllocSystem, CoordinationInv
  <2>3. r \in candidates
    BY <2>2, BestIsCandidate
  <2>4. /\ margin(r) > 0 /\ deficit(r) \in Int /\ desired(r) \in Int /\ counted[r] \in Nat
    BY <2>2, <2>3, Margins DEF candidates
  <2>5. Whole \in Nat /\ stimulus_gain \in Nat /\ thresholds[r] \in Nat
    BY CoordinationAssumption
  <2>6. deficit(r) > Whole
    <3>1. deficit(r) * stimulus_gain \in Int
      BY <2>4, <2>5, SMTT(20)
    <3>2. deficit(r) * stimulus_gain - thresholds[r] > 0
      BY <2>4 DEF margin
    <3> QED
      BY <2>4, <2>5, <3>1, <3>2, LacksOne
  <2>7. counted'[r] = counted[r] + 1
    <3>1. table' = table /\ Neighbours' = Neighbours
      BY <2>1 DEF TaskAllocSystem, Neighbours
    <3>2. Cardinality({p \in Neighbours : table[p].role = r}) \in Nat
      BY NeighboursFinite, FS_Subset, FS_CardinalityType
    <3>3. counted'[r] = Cardinality({p \in Neighbours : table[p].role = r}) + 1
      BY <3>1 DEF counted
    <3>4. counted[r] = Cardinality({p \in Neighbours : table[p].role = r}) + 0
      BY DEF counted
    <3> QED
      BY <3>2, <3>3, <3>4
  <2>8. (counted[r] + 1) * Whole = counted[r] * Whole + Whole /\ counted[r] * Whole \in Int
    BY <2>4, <2>5, OnceMore
  <2>9. desired(r) - counted[r] * Whole > Whole
    BY <2>6 DEF deficit
  <2> QED
    BY <2>4, <2>5, <2>7, <2>8, <2>9
<1> QED
  BY <1>1, CoordinationInvariant, PTL DEF Spec, NoOverfill
-----------------------------------------------------------------------------
(* The clock.  Every entry holds a time the robot heard of, less the ticks *)
(* that have passed since.                                                 *)
Heard ==
  \A p \in Sender : stamps[p] # NoStamp =>
    \E t \in known : stamps[p].sync_time = t - stamps[p].age

\* How far the offset may have moved since the last message was stamped.
Usual == IF concurrent THEN max_step_s ELSE 0
Slack ==
  IF "TransmitActionHandler" \in unrun
  THEN IF "ClockSyncSystem" \in unrun THEN Usual ELSE Usual + max_step_s
  ELSE IF "ClockSyncSystem" \in unrun THEN 0 ELSE Usual

Near ==
  /\ \A t, u \in stamped : t = u
  /\ ~concurrent /\ "ClockSyncSystem" \in unrun => "TransmitActionHandler" \in unrun
  /\ max_step_s > 0 => \A t \in stamped : offset - t <= Slack /\ t - offset <= Slack

SyncInv == SyncTypeOK /\ Heard /\ StaysAmong /\ Near

\* A system that runs was due, is not due again, and runs in its order.
LEMMA ScheduledOnce ==
  ASSUME NEW s, Scheduled(s)
  PROVE  s \in unrun /\ unrun' = unrun \ {s}
BY DEF Scheduled

LEMMA SyncSystems ==
  DOMAIN Hazards = {"BeaconSystem", "ClockSyncSystem", "TransmitActionHandler"}
BY DEF Hazards

LEMMA ListedFinite == IsFiniteSet(Listed) /\ Cardinality(Listed) \in Nat
BY ClockSyncAssumption, FS_Subset, FS_CardinalityType DEF Listed

LEMMA SyncStart == SyncInit => SyncInv
<1> SUFFICES ASSUME SyncInit PROVE SyncInv
  OBVIOUS
<1>1. SyncTypeOK
  BY ClockSyncAssumption DEF SyncInit, SyncTypeOK, Skew
<1>2. offset \in Int /\ offset \in known /\ offset <= offset /\ offset >= offset - neighbour_timeout_s
  BY ClockSyncAssumption DEF SyncInit, Skew
<1>3. StaysAmong
  BY <1>2 DEF StaysAmong
<1>4. Heard /\ Near
  BY DEF SyncInit, Heard, Near
<1> QED
  BY <1>1, <1>3, <1>4 DEF SyncInv

LEMMA TickBegins ==
  ASSUME SyncInv, begin_tick
  PROVE  SyncInv'
<1>1. /\ unrun = {} /\ unrun' = DOMAIN Hazards
      /\ UNCHANGED <<concurrent, stamps, offset, stamped, known>>
  BY DEF begin_tick
<1>2. SyncTypeOK' /\ Heard' /\ StaysAmong'
  BY <1>1 DEF SyncInv, SyncTypeOK, Heard, StaysAmong
<1>3. Slack = Usual /\ Slack' = Usual
  BY <1>1, SyncSystems DEF Slack, Usual
<1>4. Near'
  BY <1>1, <1>3, SyncSystems DEF SyncInv, Near
<1> QED
  BY <1>2, <1>4 DEF SyncInv

\* An entry that fades keeps to the time it was made with.
LEMMA FadedEntry ==
  ASSUME NEW e \in {NoStamp} \cup [sync_time : Int, age : 0..neighbour_timeout_s],
         NEW K \in SUBSET Int,
         e # NoStamp => \E t \in K : e.sync_time = t - e.age
  PROVE  /\ faded(e) \in {NoStamp} \cup [sync_time : Int, age : 0..neighbour_timeout_s]
         /\ faded(e) # NoStamp => \E t \in K : faded(e).sync_time = t - faded(e).age
<1>1. CASE e = NoStamp \/ e.age = neighbour_timeout_s
  BY <1>1 DEF faded
<1>2. CASE ~(e = NoStamp \/ e.age = neighbour_timeout_s)
  <2>1. /\ faded(e) = [sync_time |-> e.sync_time - 1, age |-> e.age + 1]
        /\ e.sync_time \in Int /\ e.age \in 0..neighbour_timeout_s
    BY <1>2 DEF faded
  <2>2. faded(e) \in [sync_time : Int, age : 0..neighbour_timeout_s]
    BY <1>2, <2>1, ClockSyncAssumption
  <2>3. PICK t \in K : e.sync_time = t - e.age
    BY <1>2
  <2>4. faded(e).sync_time = t - faded(e).age
    BY <2>1, <2>3
  <2> QED
    BY <2>2, <2>4
<1> QED
  BY <1>1, <1>2

LEMMA HearingKeeps ==
  ASSUME SyncInv, hear_beacons
  PROVE  SyncInv'
<1> DEFINE Made == {NoStamp} \cup [sync_time : Int, age : 0..neighbour_timeout_s]
<1>1. "BeaconSystem" \in unrun /\ unrun' = unrun \ {"BeaconSystem"}
  BY ScheduledOnce DEF hear_beacons
<1>2. UNCHANGED <<concurrent, offset, stamped>>
  BY DEF hear_beacons
<1>3. PICK heard \in SUBSET Sender : \E said \in [heard -> Skew] :
        /\ stamps' = [p \in Sender |-> IF p \in heard THEN [sync_time |-> said[p], age |-> 0]
                                       ELSE faded(stamps[p])]
        /\ known' = known \cup {said[p] : p \in heard}
  BY DEF hear_beacons
<1>4. PICK said \in [heard -> Skew] :
        /\ stamps' = [p \in Sender |-> IF p \in heard THEN [sync_time |-> said[p], age |-> 0]
                                       ELSE faded(stamps[p])]
        /\ known' = known \cup {said[p] : p \in heard}
  BY <1>3
<1>5. Skew \subseteq Int /\ known \subseteq Skew /\ known' \subseteq Skew /\ known \subseteq known'
  <2>1. Skew \subseteq Int
    BY ClockSyncAssumption DEF Skew
  <2>2. known \subseteq Skew
    BY DEF SyncInv, SyncTypeOK
  <2>3. {said[p] : p \in heard} \subseteq Skew
    OBVIOUS
  <2> QED
    BY <1>4, <2>1, <2>2, <2>3
<1>6. ASSUME NEW p \in Sender
      PROVE  /\ stamps'[p] \in Made
             /\ stamps'[p] # NoStamp => \E t \in known' : stamps'[p].sync_time = t - stamps'[p].age
  <2>1. CASE p \in heard
    <3>1. stamps'[p] = [sync_time |-> said[p], age |-> 0] /\ said[p] \in Int /\ said[p] \in known'
      BY <1>4, <1>5, <2>1
    <3> QED
      BY <3>1, ClockSyncAssumption
  <2>2. CASE p \notin heard
    <3>1. stamps'[p] = faded(stamps[p])
      BY <1>4, <2>2
    <3>2. /\ stamps[p] \in Made
          /\ stamps[p] # NoStamp => \E t \in known' : stamps[p].sync_time = t - stamps[p].age
      BY <1>5 DEF SyncInv, SyncTypeOK, Heard
    <3>3. known' \in SUBSET Int
      BY <1>5
    <3> QED
      BY <3>1, <3>2, <3>3, FadedEntry
  <2> QED
    BY <2>1, <2>2
<1>7. SyncTypeOK'
  <2>1. stamps' \in [Sender -> Made]
    BY <1>4, <1>6
  <2> QED
    BY <1>1, <1>2, <1>5, <2>1 DEF SyncInv, SyncTypeOK
<1>8. Heard'
  BY <1>6 DEF Heard
<1>9. StaysAmong'
  BY <1>2, <1>5 DEF SyncInv, StaysAmong
<1>10. Near'
  BY <1>1, <1>2 DEF SyncInv, Near, Slack, Usual
<1> QED
  BY <1>7, <1>8, <1>9, <1>10 DEF SyncInv
-----------------------------------------------------------------------------
\* The mean of the gaps is no greater than the greatest, nor less than the
\* least: a step towards it passes neither.
LEMMA StepAmong ==
  ASSUME SyncInv, Listed # {},
         NEW s \in steps(SumFunction([p \in Listed |-> stamps[p].sync_time - offset]),
                         Cardinality(Listed))
  PROVE  /\ s \in Int /\ -limit <= s /\ s <= limit
         /\ \E t \in known : offset + s <= t
         /\ \E t \in known : offset + s >= t - neighbour_timeout_s
<1> DEFINE gap == [p \in Listed |-> stamps[p].sync_time - offset]
           gaps == SumFunction(gap)
           n == Cardinality(Listed)
<1>1. offset \in Int /\ neighbour_timeout_s \in Nat /\ limit \in Nat /\ known \subseteq Int
  BY ClockSyncAssumption DEF SyncInv, SyncTypeOK, limit, Skew
<1>2. \A p \in Listed : /\ stamps[p].sync_time \in Int
                        /\ \E t \in known : stamps[p].sync_time = t - stamps[p].age
                        /\ stamps[p].age \in 0..neighbour_timeout_s
  BY DEF SyncInv, SyncTypeOK, Heard, Listed
<1>3. gap \in [Listed -> Int]
  BY <1>1, <1>2
<1>4. IsFiniteSet(Listed) /\ n \in Nat \ {0}
  BY ListedFinite, FS_EmptySet
<1>5. /\ s \in (-limit)..limit
      /\ IF gaps >= 0 THEN 0 <= s /\ s * n <= gaps ELSE gaps <= s * n /\ s <= 0
  BY DEF steps
<1>6. s \in Int /\ -limit <= s /\ s <= limit
  BY <1>1, <1>5
<1>7. /\ \A hi \in Int : (\A p \in Listed : gap[p] <= hi) => gaps \in Int /\ gaps <= n * hi
      /\ \A lo \in Int : (\A p \in Listed : lo <= gap[p]) => gaps \in Int /\ n * lo <= gaps
  <2>1. PICK a \in Int, b \in Int : \A p \in Listed : a <= gap[p] /\ gap[p] <= b
    <3>1. known \subseteq (-MaxSkew)..MaxSkew /\ MaxSkew \in Nat
      BY ClockSyncAssumption DEF SyncInv, SyncTypeOK, Skew
    <3>2. \A p \in Listed : /\ -MaxSkew - neighbour_timeout_s - offset <= gap[p]
                            /\ gap[p] <= MaxSkew - offset
      BY <1>1, <1>2, <3>1
    <3>3. -MaxSkew - neighbour_timeout_s - offset \in Int /\ MaxSkew - offset \in Int
      BY <1>1, <3>1
    <3> HIDE DEF gap
    <3> QED
      BY <3>2, <3>3
  <2> HIDE DEF gap
  <2> QED
    BY <1>3, <1>4, <2>1, SumBounds
<1>8. \E t \in known : offset + s <= t
  <2>1. CASE s <= 0
    BY <1>1, <1>6, <2>1 DEF SyncInv, StaysAmong
  <2>2. CASE s > 0
    <3> SUFFICES ASSUME \A t \in known : ~(offset + s <= t) PROVE FALSE
      OBVIOUS
    <3>1. \A p \in Listed : gap[p] <= s - 1
      BY <1>1, <1>2, <1>6
    <3>2. gaps \in Int /\ gaps <= n * (s - 1)
      BY <1>3, <1>6, <1>7, <3>1
    <3>3. s * n <= gaps
      BY <1>5, <1>6, <2>2, <3>2
    <3> HIDE DEF gaps, n
    <3>4. n * (s - 1) = s * n - n
      BY <1>4, <1>6, SMTT(20)
    <3>5. s * n \in Int
      BY <1>4, <1>6, SMTT(20)
    <3> QED
      BY <1>4, <3>2, <3>3, <3>4, <3>5
  <2> QED
    BY <1>6, <2>1, <2>2
<1>9. \E t \in known : offset + s >= t - neighbour_timeout_s
  <2>1. CASE s >= 0
    <3>1. PICK t \in known : offset >= t - neighbour_timeout_s
      BY DEF SyncInv, StaysAmong
    <3>2. offset + s >= t - neighbour_timeout_s
      BY <1>1, <1>6, <2>1, <3>1
    <3> QED
      BY <3>2
  <2>2. CASE s < 0
    <3> SUFFICES ASSUME \A t \in known : ~(offset + s >= t - neighbour_timeout_s) PROVE FALSE
      OBVIOUS
    <3>1. \A p \in Listed : s + 1 <= gap[p]
      BY <1>1, <1>2, <1>6
    <3>2. gaps \in Int /\ n * (s + 1) <= gaps
      BY <1>3, <1>6, <1>7, <3>1
    <3>3. gaps <= s * n
      BY <1>5, <1>6, <2>2, <3>2
    <3> HIDE DEF gaps, n
    <3>4. n * (s + 1) = s * n + n
      BY <1>4, <1>6, SMTT(20)
    <3>5. s * n \in Int
      BY <1>4, <1>6, SMTT(20)
    <3> QED
      BY <1>4, <3>2, <3>3, <3>4, <3>5
  <2> QED
    BY <1>6, <2>1, <2>2
<1> QED
  BY <1>6, <1>8, <1>9

\* The adjustment goes no further than max_step_s from where the offset was.
LEMMA AdjustingKeeps ==
  ASSUME SyncInv, ClockSyncSystem
  PROVE  SyncInv'
<1>1. "ClockSyncSystem" \in unrun /\ unrun' = unrun \ {"ClockSyncSystem"}
  BY ScheduledOnce DEF ClockSyncSystem
<1>2. UNCHANGED <<concurrent, stamps, stamped, known>>
  BY DEF ClockSyncSystem
<1>3. PICK s \in Int :
        /\ offset' = offset + s
        /\ \E t \in known : offset + s <= t
        /\ \E t \in known : offset + s >= t - neighbour_timeout_s
        /\ max_step_s > 0 => -max_step_s <= s /\ s <= max_step_s
  <2>1. CASE Listed = {}
    <3>1. offset' = offset + 0
      BY <2>1 DEF ClockSyncSystem, SyncInv, SyncTypeOK
    <3>2. offset + 0 = offset
      BY DEF SyncInv, SyncTypeOK
    <3>3. /\ \E t \in known : offset + 0 <= t
          /\ \E t \in known : offset + 0 >= t - neighbour_timeout_s
      BY <3>2 DEF SyncInv, StaysAmong
    <3>4. max_step_s > 0 => -max_step_s <= 0 /\ 0 <= max_step_s
      BY ClockSyncAssumption
    <3> QED
      BY <3>1, <3>3, <3>4
  <2>2. CASE Listed # {}
    <3>1. PICK s \in steps(SumFunction([p \in Listed |-> stamps[p].sync_time - offset]),
                           Cardinality(Listed)) : offset' = offset + s
      BY <2>2 DEF ClockSyncSystem
    <3>2. /\ s \in Int /\ -limit <= s /\ s <= limit
          /\ \E t \in known : offset + s <= t
          /\ \E t \in known : offset + s >= t - neighbour_timeout_s
      BY <2>2, StepAmong
    <3>3. max_step_s > 0 => limit = max_step_s
      BY DEF limit
    <3> QED
      BY <3>1, <3>2, <3>3
  <2> QED
    BY <2>1, <2>2
<1>4. SyncTypeOK'
  BY <1>1, <1>2, <1>3 DEF SyncInv, SyncTypeOK
<1>5. Heard'
  BY <1>2 DEF SyncInv, Heard
<1>6. StaysAmong'
  BY <1>2, <1>3 DEF StaysAmong
<1>7. Near'
  <2>0. \A t, u \in stamped : t = u
    BY DEF SyncInv, Near
  <2>1. ~concurrent => "TransmitActionHandler" \in unrun
    BY <1>1 DEF SyncInv, Near
  <2>2. "ClockSyncSystem" \notin unrun'
    BY <1>1
  <2>3. ("TransmitActionHandler" \in unrun') <=> ("TransmitActionHandler" \in unrun)
    BY <1>1
  <2>4. ASSUME max_step_s > 0, NEW t \in stamped
        PROVE  offset' - t <= Slack' /\ t - offset' <= Slack'
    <3>1. offset - t <= Slack /\ t - offset <= Slack
      BY <2>4 DEF SyncInv, Near
    <3>2. Usual' = Usual /\ Usual \in Nat /\ max_step_s \in Nat
      BY <1>2, ClockSyncAssumption DEF Usual
    <3>3. Slack' = Slack + max_step_s
      <4>1. CASE "TransmitActionHandler" \in unrun
        BY <1>1, <2>2, <2>3, <3>2, <4>1 DEF Slack
      <4>2. CASE "TransmitActionHandler" \notin unrun
        <5>1. Usual = max_step_s
          BY <2>1, <4>2 DEF Usual
        <5> QED
          BY <1>1, <2>2, <2>3, <3>2, <4>2, <5>1 DEF Slack
      <4> QED
        BY <4>1, <4>2
    <3>4. Slack \in Int /\ offset \in Int /\ t \in Int
      BY <3>2 DEF Slack, SyncInv, SyncTypeOK
    <3> QED
      BY <1>3, <2>4, <3>1, <3>2, <3>3, <3>4
  <2> QED
    BY <1>2, <2>0, <2>2, <2>4 DEF Near
<1> QED
  BY <1>4, <1>5, <1>6, <1>7 DEF SyncInv

\* In the order of the names the adjustment comes before the handler.
LEMMA AdjustedFirst ==
  ASSUME SyncTypeOK, ~concurrent, Scheduled("TransmitActionHandler")
  PROVE  "ClockSyncSystem" \notin unrun
<1>1. Order!IsFirst(unrun, "TransmitActionHandler")
  BY DEF Scheduled
<1>2. Hazards["ClockSyncSystem"].name = 2 /\ Hazards["TransmitActionHandler"].name = 3
  BY DEF Hazards, ClockSyncHazards, TransmitHazards
<1> QED
  BY <1>1, <1>2 DEF Order!IsFirst, Order!Name

LEMMA StampingKeeps ==
  ASSUME SyncInv, TransmitActionHandler
  PROVE  /\ SyncInv'
         /\ stamped' \subseteq {offset}
<1>1. "TransmitActionHandler" \in unrun /\ unrun' = unrun \ {"TransmitActionHandler"}
  BY ScheduledOnce DEF TransmitActionHandler
<1>2. UNCHANGED <<concurrent, stamps, offset, known>> /\ stamped' \subseteq {offset}
  BY DEF TransmitActionHandler
<1>3. SyncTypeOK' /\ Heard' /\ StaysAmong'
  BY <1>1, <1>2 DEF SyncInv, SyncTypeOK, Heard, StaysAmong
<1>4. Near'
  <2>1. ~concurrent => "ClockSyncSystem" \notin unrun
    BY AdjustedFirst DEF SyncInv, TransmitActionHandler
  <2>2. Slack' \in Nat
    BY ClockSyncAssumption DEF Slack, Usual
  <2>3. \A t \in stamped' : offset' - t <= Slack' /\ t - offset' <= Slack'
    BY <1>2, <2>2 DEF SyncInv, SyncTypeOK
  <2> QED
    BY <1>1, <1>2, <2>1, <2>3 DEF Near
<1> QED
  BY <1>2, <1>3, <1>4 DEF SyncInv

\* In any state and at any step the time stamped last is within reach.
LEMMA SlackBounds ==
  ASSUME SyncInv, "TransmitActionHandler" \in unrun,
         ~concurrent => "ClockSyncSystem" \notin unrun
  PROVE  Slack \in Nat /\ Slack <= (IF concurrent THEN 2 * max_step_s ELSE max_step_s)
<1>1. max_step_s \in Nat
  BY ClockSyncAssumption
<1> QED
  BY <1>1 DEF Slack, Usual

LEMMA SyncStutters ==
  ASSUME SyncInv, UNCHANGED syncVars
  PROVE  SyncInv'
BY DEF syncVars, SyncInv, SyncTypeOK, Heard, StaysAmong, Near, Slack, Usual, Listed

(* Every entry of the table holds a time some neighbour sent, less its age *)
(* (BeaconSystem renews, ages and drops them); the offset lies among what  *)
(* was heard of; and it has moved from the time last stamped only by the   *)
(* adjustments made since: for any neighbours, step, timeout and skew.     *)
THEOREM ClockInvariant == SyncSpec => []SyncInv
<1>1. ASSUME SyncInv, [SyncNext]_syncVars PROVE SyncInv'
  BY <1>1, TickBegins, HearingKeeps, AdjustingKeeps, StampingKeeps, SyncStutters DEF SyncNext
<1> QED
  BY <1>1, SyncStart, PTL DEF SyncSpec

(* ClockSyncSystem's offset stays between the slowest clock the robot      *)
(* began with or heard of, less neighbour_timeout_s, and the fastest,      *)
(* whatever the neighbours send and in either scheduler mode.              *)
THEOREM ClockStaysAmong == SyncSpec => []StaysAmong
<1>1. SyncInv => StaysAmong
  BY DEF SyncInv
<1> QED
  BY <1>1, ClockInvariant, PTL

(* The times TransmitActionHandler stamps in successive ticks differ from  *)
(* the tick by at most max_step_s, in Parallel mode, where the offset is   *)
(* read before or after it is written, by at most twice that.              *)
THEOREM ClockStampsSteady == SyncSpec => StampsSteady
<1> DEFINE Steady == max_step_s > 0 =>
             \A t \in stamped, u \in stamped' :
               LET most == IF concurrent THEN 2 * max_step_s ELSE max_step_s
               IN  u - t <= most /\ t - u <= most
<1>1. ASSUME SyncInv, [SyncNext]_syncVars PROVE [Steady]_syncVars
  <2> SUFFICES ASSUME SyncNext, max_step_s > 0, NEW t \in stamped, NEW u \in stamped'
               PROVE  LET most == IF concurrent THEN 2 * max_step_s ELSE max_step_s
                      IN  u - t <= most /\ t - u <= most
    BY <1>1
  <2>1. CASE TransmitActionHandler
    <3>1. u = offset
      BY <1>1, <2>1, StampingKeeps
    <3>2. offset - t <= Slack /\ t - offset <= Slack
      BY <1>1 DEF SyncInv, Near
    <3>3. "TransmitActionHandler" \in unrun /\ (~concurrent => "ClockSyncSystem" \notin unrun)
      BY <1>1, <2>1, ScheduledOnce, AdjustedFirst DEF TransmitActionHandler, SyncInv
    <3>4. Slack \in Nat /\ Slack <= (IF concurrent THEN 2 * max_step_s ELSE max_step_s)
      BY <1>1, <3>3, SlackBounds
    <3>5. offset \in Int /\ t \in Int /\ max_step_s \in Nat
      BY <1>1, ClockSyncAssumption DEF SyncInv, SyncTypeOK
    <3> QED
      BY <3>1, <3>2, <3>4, <3>5
  <2>2. CASE stamped' = stamped
    <3>1. u = t
      BY <1>1, <2>2 DEF SyncInv, Near
    <3>2. t \in Int /\ max_step_s \in Nat
      BY <1>1, ClockSyncAssumption DEF SyncInv, SyncTypeOK
    <3> QED
      BY <3>1, <3>2
  <2>3. TransmitActionHandler \/ stamped' = stamped
    BY DEF SyncNext, begin_tick, hear_beacons, ClockSyncSystem
  <2> QED
    BY <2>1, <2>2, <2>3
<1> QED
  BY <1>1, ClockInvariant, PTL DEF SyncSpec, StampsSteady
=============================================================================
