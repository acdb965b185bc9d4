------------------------- MODULE BoundedQueueProofs -------------------------
(* The ring of BoundedQueue is well formed and implements BoundedFifo, for *)
(* every capacity, policy, item set and counter range.                     *)
EXTENDS BoundedQueue, DataLemmas

\* The remainder, as an operator of its own: the provers instantiate facts
\* about it where they would not about the arithmetic symbol.
Wrap(m) == m % N

\* The remainder of an index plus an offset is taken by at most one
\* subtraction: next_index and the reads of the ring never leave the buffer.
LEMMA WrapOnce ==
  \A m \in 0..(2 * N - 1) :
    Wrap(m) \in 0..(N - 1) /\ Wrap(m) = IF m < N THEN m ELSE m - N
<1> SUFFICES ASSUME NEW m \in 0..(2 * N - 1)
             PROVE  Wrap(m) \in 0..(N - 1) /\ Wrap(m) = IF m < N THEN m ELSE m - N
  OBVIOUS
<1>1. N \in Nat \ {0}
  BY QueueAssumption
<1>2. CASE m < N
  BY <1>1, <1>2 DEF Wrap
<1>3. CASE m >= N
  BY <1>1, <1>3 DEF Wrap
<1> QED
  BY <1>1, <1>2, <1>3

\* A remainder is a slot of the buffer.
LEMMA RemainderInRange ==
  ASSUME NEW n \in Nat \ {0}, NEW m \in Nat
  PROVE  m % n \in 0..(n - 1)
OBVIOUS

\* The well-formed ring in these terms.
LEMMA RingWraps ==
  ASSUME RingInv
  PROVE  /\ N \in Nat \ {0} /\ head \in 0..(N - 1) /\ size \in 0..N
         /\ tail \in 0..(N - 1) /\ tail = Wrap(head + size)
         /\ buffer \in [0..(N - 1) -> Item \cup {Default}]
         /\ Contents \in Seq(Item) /\ Len(Contents) = size
         /\ \A k \in 1..size : Contents[k] = buffer[Wrap(head + k - 1)]
<1>1. N \in Nat \ {0} /\ size \in Nat
  BY QueueAssumption DEF RingInv
<1>2. \A k \in 1..size : Contents[k] \in Item
  BY DEF RingInv
<1>3. Contents \in Seq(Item) /\ Len(Contents) = size
  BY <1>1, <1>2 DEF Contents
<1>4. \A k \in 1..size : Contents[k] = buffer[Wrap(head + k - 1)]
  BY <1>1 DEF Contents, Wrap
<1> QED
  BY <1>1, <1>3, <1>4 DEF RingInv, Wrap

\* And back: what is to be shown of the ring after a step.
LEMMA RingRestored ==
  ASSUME N \in Nat \ {0}, head' \in 0..(N - 1), size' \in 0..N,
         tail' \in 0..(N - 1), tail' = Wrap(head' + size'),
         buffer' \in [0..(N - 1) -> Item \cup {Default}],
         \A k \in 1..size' : buffer'[Wrap(head' + k - 1)] \in Item,
         dropped_count' \in Nat, overflow_events' = dropped_count'
  PROVE  RingInv'
BY DEF RingInv, Contents, Wrap

\* The contents after a step, slot by slot.
LEMMA ContentsAre ==
  ASSUME NEW s \in Seq(Item), Len(s) = size',
         \A k \in 1..size' : buffer'[Wrap(head' + k - 1)] = s[k]
  PROVE  Contents' = s /\ \A k \in 1..size' : buffer'[Wrap(head' + k - 1)] \in Item
<1>1. Contents' = [k \in 1..size' |-> s[k]]
  BY DEF Contents, Wrap
<1>2. s = [k \in 1..size' |-> s[k]] /\ \A k \in 1..size' : s[k] \in Item
  OBVIOUS
<1> QED
  BY <1>1, <1>2

\* next_index maps a slot to the one after it on the ring.
LEMMA NextIndex ==
  ASSUME NEW i \in 0..(N - 1)
  PROVE  /\ next_index(i) \in 0..(N - 1)
         /\ next_index(i) = IF i + 1 < N THEN i + 1 ELSE 0
<1>1. N \in Nat \ {0} /\ i + 1 \in 0..(2 * N - 1)
  BY QueueAssumption
<1>2. next_index(i) = Wrap(i + 1)
  BY DEF next_index, Wrap
<1> QED
  BY <1>1, <1>2, WrapOnce
-----------------------------------------------------------------------------
\* push() onto a ring with room appends the item.
LEMMA PushRoom ==
  ASSUME RingInv, NEW x \in Item, push(x), size # N
  PROVE  RingInv' /\ Contents' = Append(Contents, x)
<1> DEFINE s == Append(Contents, x)
<1>1. N \in Nat \ {0} /\ head \in 0..(N - 1) /\ size \in 0..(N - 1) /\ tail \in 0..(N - 1)
  BY RingWraps
<1>2. /\ buffer' = [buffer EXCEPT ![tail] = x]
      /\ tail' = next_index(tail) /\ size' = size + 1 /\ head' = head
      /\ dropped_count' = dropped_count /\ overflow_events' = overflow_events
  BY DEF push
<1>3. tail = IF head + size < N THEN head + size ELSE head + size - N
  BY <1>1, RingWraps, WrapOnce
<1>4. tail' \in 0..(N - 1) /\ tail' = Wrap(head' + size')
  <2>1. head' + size' \in 0..(2 * N - 1)
    BY <1>1, <1>2
  <2> QED
    BY <1>1, <1>2, <1>3, <2>1, NextIndex, WrapOnce
<1>5. buffer' \in [0..(N - 1) -> Item \cup {Default}]
  BY <1>1, <1>2, RingWraps
<1>6. s \in Seq(Item) /\ Len(s) = size + 1
      /\ \A k \in 1..(size + 1) : s[k] = IF k = size + 1 THEN x ELSE Contents[k]
  BY RingWraps
<1> HIDE DEF s
<1>7. \A k \in 1..(size + 1) : buffer'[Wrap(head' + k - 1)] = s[k]
  <2> SUFFICES ASSUME NEW k \in 1..(size + 1)
               PROVE  buffer'[Wrap(head + k - 1)] = s[k]
    BY <1>2
  <2>1. head + k - 1 \in 0..(2 * N - 1)
    BY <1>1
  <2>2. Wrap(head + k - 1) \in 0..(N - 1)
        /\ Wrap(head + k - 1) = IF head + k - 1 < N THEN head + k - 1 ELSE head + k - 1 - N
    BY <1>1, <2>1, WrapOnce
  <2>3. CASE k = size + 1
    BY <1>1, <1>2, <1>3, <1>6, <2>2, <2>3, RingWraps
  <2>4. CASE k # size + 1
    <3>1. k \in 1..size /\ Wrap(head + k - 1) # tail
      BY <1>1, <1>3, <2>2, <2>4
    <3> QED
      BY <1>2, <1>6, <2>2, <2>4, <3>1, RingWraps
  <2> QED
    BY <2>3, <2>4
<1>8. Contents' = s /\ \A k \in 1..size' : buffer'[Wrap(head' + k - 1)] \in Item
  BY <1>1, <1>2, <1>6, <1>7, ContentsAre
<1>9. RingInv'
  <2>1. dropped_count' \in Nat /\ overflow_events' = dropped_count'
    BY <1>2 DEF RingInv
  <2> QED
    BY <1>1, <1>2, <1>4, <1>5, <1>8, <2>1, RingRestored
<1> QED
  BY <1>8, <1>9 DEF s

\* The counters after an overflow.
LEMMA CountersStay ==
  ASSUME RingInv, dropped_count' = (dropped_count + 1) % CountMod,
         overflow_events' = (overflow_events + 1) % CountMod
  PROVE  dropped_count' \in Nat /\ overflow_events' = dropped_count'
<1>1. dropped_count + 1 \in Nat /\ CountMod \in Nat \ {0}
  BY QueueAssumption DEF RingInv
<1> QED
  BY <1>1, RemainderInRange DEF RingInv

\* push() onto a full DropOldest ring loses the oldest item and appends.
LEMMA PushEvicts ==
  ASSUME RingInv, NEW x \in Item, push(x), size = N, policy = "DropOldest"
  PROVE  RingInv' /\ Contents' = Append(Tail(Contents), x)
<1> DEFINE s == Append(Tail(Contents), x)
<1>1. N \in Nat \ {0} /\ head \in 0..(N - 1) /\ head + N \in 0..(2 * N - 1)
  BY RingWraps
<1>2. tail = head
  BY <1>1, RingWraps, WrapOnce
<1>3. /\ buffer' = [buffer EXCEPT ![tail] = x]
      /\ tail' = next_index(tail) /\ head' = next_index(head) /\ size' = N
      /\ dropped_count' = (dropped_count + 1) % CountMod
      /\ overflow_events' = (overflow_events + 1) % CountMod
  BY DEF push
<1>4. head' \in 0..(N - 1) /\ head' = (IF head + 1 < N THEN head + 1 ELSE 0)
      /\ tail' = head'
  BY <1>1, <1>2, <1>3, NextIndex
<1>5. tail' = Wrap(head' + size')
  <2>1. head' + N \in 0..(2 * N - 1)
    BY <1>1, <1>4
  <2> QED
    BY <1>1, <1>3, <1>4, <2>1, WrapOnce
<1>6. buffer' \in [0..(N - 1) -> Item \cup {Default}]
  BY <1>1, <1>3, RingWraps
<1>7. s \in Seq(Item) /\ Len(s) = N
      /\ \A k \in 1..N : s[k] = IF k = N THEN x ELSE Contents[k + 1]
  <2>1. Contents \in Seq(Item) /\ Len(Contents) = N /\ Contents # <<>>
    BY <1>1, RingWraps
  <2>2. Tail(Contents) \in Seq(Item) /\ Len(Tail(Contents)) = N - 1
        /\ \A k \in 1..(N - 1) : Tail(Contents)[k] = Contents[k + 1]
    BY <1>1, <2>1
  <2> QED
    BY <1>1, <2>2
<1> HIDE DEF s
<1>8. \A k \in 1..N : buffer'[Wrap(head' + k - 1)] = s[k]
  <2> SUFFICES ASSUME NEW k \in 1..N
               PROVE  buffer'[Wrap(head' + k - 1)] = s[k]
    OBVIOUS
  <2>1. head' + k - 1 \in 0..(2 * N - 1) /\ head + k \in 0..(2 * N - 1)
    BY <1>1, <1>4
  <2>2. Wrap(head' + k - 1) \in 0..(N - 1)
        /\ Wrap(head' + k - 1) = IF head' + k - 1 < N THEN head' + k - 1 ELSE head' + k - 1 - N
    BY <1>1, <1>4, <2>1, WrapOnce
  <2>3. Wrap(head + k) = IF head + k < N THEN head + k ELSE head + k - N
    BY <1>1, <2>1, WrapOnce
  <2>4. Wrap(head' + k - 1) = Wrap(head + k)
    BY <1>1, <1>4, <2>2, <2>3
  <2>5. CASE k = N
    <3>1. Wrap(head' + k - 1) = tail
      BY <1>1, <1>2, <2>3, <2>4, <2>5
    <3> QED
      BY <1>1, <1>2, <1>3, <1>7, <2>5, <3>1, RingWraps
  <2>6. CASE k # N
    <3>1. k + 1 \in 1..size /\ head + (k + 1) - 1 = head + k
      BY <1>1, <2>6
    <3>2. Wrap(head' + k - 1) # tail
      BY <1>1, <1>2, <2>3, <2>4, <2>6
    <3>3. Contents[k + 1] = buffer[Wrap(head + k)]
      BY <3>1, RingWraps
    <3> QED
      BY <1>3, <1>7, <2>2, <2>4, <2>6, <3>2, <3>3, RingWraps
  <2> QED
    BY <2>5, <2>6
<1>9. Contents' = s /\ \A k \in 1..size' : buffer'[Wrap(head' + k - 1)] \in Item
  BY <1>1, <1>3, <1>7, <1>8, ContentsAre
<1>10. RingInv'
  BY <1>1, <1>3, <1>4, <1>5, <1>6, <1>9, CountersStay, RingRestored
<1> QED
  BY <1>9, <1>10 DEF s

\* push() onto a full ring of the other policies leaves the contents alone.
LEMMA PushRefused ==
  ASSUME RingInv, NEW x \in Item, push(x), size = N, policy # "DropOldest"
  PROVE  RingInv' /\ Contents' = Contents
<1>1. /\ buffer' = buffer /\ tail' = tail /\ head' = head /\ size' = size
      /\ dropped_count' = (dropped_count + 1) % CountMod
      /\ overflow_events' = (overflow_events + 1) % CountMod
  BY DEF push
<1>2. dropped_count' \in Nat /\ overflow_events' = dropped_count'
  BY <1>1, CountersStay
<1>3. Contents' = Contents
  BY <1>1 DEF Contents
<1> QED
  BY <1>1, <1>2, <1>3 DEF RingInv

\* pop() takes the oldest item off a queue that has one.
LEMMA PopTakes ==
  ASSUME RingInv, pop, size # 0
  PROVE  RingInv' /\ Contents' = Tail(Contents) /\ ret' = Head(Contents)
<1> DEFINE s == Tail(Contents)
<1>1. N \in Nat \ {0} /\ head \in 0..(N - 1) /\ size \in 1..N /\ tail \in 0..(N - 1)
  BY RingWraps
<1>2. /\ head' = next_index(head) /\ size' = size - 1 /\ tail' = tail
      /\ ret' = buffer[head]
      /\ dropped_count' = dropped_count /\ overflow_events' = overflow_events
  BY DEF pop
<1>3. PICK junk \in {buffer[head], Default} : buffer' = [buffer EXCEPT ![head] = junk]
  BY DEF pop
<1>4. head' \in 0..(N - 1) /\ head' = IF head + 1 < N THEN head + 1 ELSE 0
  BY <1>1, <1>2, NextIndex
<1>5. tail' = Wrap(head' + size')
  <2>1. head + size \in 0..(2 * N - 1) /\ head' + size' \in 0..(2 * N - 1)
    BY <1>1, <1>2, <1>4
  <2> QED
    BY <1>1, <1>2, <1>4, <2>1, WrapOnce, RingWraps
<1>6. buffer' \in [0..(N - 1) -> Item \cup {Default}]
  BY <1>1, <1>3, RingWraps
<1>7. Contents \in Seq(Item) /\ Len(Contents) = size /\ Contents # <<>>
  BY <1>1, RingWraps
<1>8. s \in Seq(Item) /\ Len(s) = size - 1
      /\ \A k \in 1..(size - 1) : s[k] = Contents[k + 1]
  BY <1>1, <1>7
<1> HIDE DEF s
<1>9. \A k \in 1..(size - 1) : buffer'[Wrap(head' + k - 1)] = s[k]
  <2> SUFFICES ASSUME NEW k \in 1..(size - 1)
               PROVE  buffer'[Wrap(head' + k - 1)] = s[k]
    OBVIOUS
  <2>1. head' + k - 1 \in 0..(2 * N - 1) /\ head + k \in 0..(2 * N - 1)
        /\ k + 1 \in 1..size /\ head + (k + 1) - 1 = head + k
    BY <1>1, <1>4
  <2>2. Wrap(head + k) \in 0..(N - 1)
        /\ Wrap(head + k) = IF head + k < N THEN head + k ELSE head + k - N
    BY <1>1, <2>1, WrapOnce
  <2>3. Wrap(head' + k - 1) = IF head' + k - 1 < N THEN head' + k - 1 ELSE head' + k - 1 - N
    BY <1>1, <1>4, <2>1, WrapOnce
  <2>4. Wrap(head' + k - 1) = Wrap(head + k) /\ Wrap(head + k) # head
    BY <1>1, <1>4, <2>2, <2>3
  <2>5. Contents[k + 1] = buffer[Wrap(head + k)]
    BY <2>1, RingWraps
  <2> QED
    BY <1>3, <1>8, <2>2, <2>4, <2>5, RingWraps
<1>10. Contents' = s /\ \A k \in 1..size' : buffer'[Wrap(head' + k - 1)] \in Item
  BY <1>1, <1>2, <1>8, <1>9, ContentsAre
<1>11. ret' = Head(Contents)
  <2>1. head + 1 - 1 = head /\ 1 \in 1..size /\ head \in 0..(2 * N - 1)
    BY <1>1
  <2>2. Contents[1] = buffer[head]
    BY <1>1, <2>1, RingWraps, WrapOnce
  <2> QED
    BY <1>2, <1>7, <2>2
<1>12. RingInv'
  <2>1. dropped_count' \in Nat /\ overflow_events' = dropped_count' /\ size' \in 0..N
    BY <1>1, <1>2 DEF RingInv
  <2> QED
    BY <1>1, <1>2, <1>4, <1>5, <1>6, <1>10, <2>1, RingRestored
<1> QED
  BY <1>10, <1>11, <1>12 DEF s
-----------------------------------------------------------------------------
\* No call breaks the ring: BoundedQueue's members stay consistent with each
\* other through every sequence of push() and pop(), for every capacity.
THEOREM RingInvariant == Spec => []RingInv
<1>1. Init => RingInv
  <2> SUFFICES ASSUME Init PROVE RingInv
    OBVIOUS
  <2>1. N \in Nat \ {0} /\ (0 + 0) % N = 0
    BY QueueAssumption
  <2> QED
    BY <2>1 DEF Init, RingInv, Contents
<1>2. RingInv /\ [Next]_vars => RingInv'
  <2> SUFFICES ASSUME RingInv, [Next]_vars PROVE RingInv'
    OBVIOUS
  <2>1. ASSUME NEW x \in Item, push(x) PROVE RingInv'
    BY <2>1, PushRoom, PushEvicts, PushRefused
  <2>2. CASE pop
    <3>1. CASE size = 0
      <4>1. UNCHANGED <<buffer, head, tail, size, dropped_count, overflow_events>>
        BY <2>2, <3>1 DEF pop
      <4> QED
        BY <4>1 DEF RingInv, Contents
    <3>2. CASE size # 0
      BY <2>2, <3>2, PopTakes
    <3> QED
      BY <3>1, <3>2
  <2>3. CASE UNCHANGED vars
    BY <2>3 DEF vars, RingInv, Contents
  <2> QED
    BY <2>1, <2>2, <2>3 DEF Next
<1> QED
  BY <1>1, <1>2, PTL DEF Spec

\* The ring implements the bounded FIFO: push() and pop() return and lose what
\* the policy says, in order, for every capacity.
THEOREM QueueImplementsFifo == Spec => ImplementsFifo
<1>1. Init => Fifo!Init
  <2> SUFFICES ASSUME Init PROVE Fifo!Init
    OBVIOUS
  <2>1. size = 0 /\ Contents = <<>>
    BY DEF Init, Contents
  <2> QED
    BY <2>1 DEF Init, Fifo!Init
<1>2. RingInv /\ [Next]_vars => [Fifo!Next]_<<policy, Contents, dropped_count, ret>>
  <2> SUFFICES ASSUME RingInv, [Next]_vars
               PROVE  [Fifo!Next]_<<policy, Contents, dropped_count, ret>>
    OBVIOUS
  <2>0. Contents \in Seq(Item) /\ Len(Contents) = size /\ size \in 0..N /\ N \in Nat
    BY RingWraps
  <2>1. ASSUME NEW x \in Item, push(x) PROVE Fifo!Push(x)
    <3>1. CASE size # N
      <4>1. Contents' = Append(Contents, x) /\ Len(Contents) < N
        BY <2>0, <2>1, <3>1, PushRoom
      <4>2. ret' = Fifo!Accepted /\ UNCHANGED dropped_count
        BY <2>1, <3>1 DEF push
      <4> QED
        BY <4>1, <4>2 DEF Fifo!Push
    <3>2. CASE size = N /\ policy = "DropOldest"
      <4>1. Contents' = Append(Tail(Contents), x) /\ Len(Contents) = N
        BY <2>0, <2>1, <3>2, PushEvicts
      <4>2. ret' = Fifo!Accepted /\ dropped_count' = (dropped_count + 1) % CountMod
        BY <2>1, <3>2 DEF push
      <4> QED
        BY <3>2, <4>1, <4>2 DEF Fifo!Push
    <3>3. CASE size = N /\ policy # "DropOldest"
      <4>1. Contents' = Contents /\ Len(Contents) = N
        BY <2>0, <2>1, <3>3, PushRefused
      <4>2. ret' = Fifo!Refused /\ dropped_count' = (dropped_count + 1) % CountMod
        BY <2>1, <3>3 DEF push
      <4> QED
        BY <3>3, <4>1, <4>2 DEF Fifo!Push
    <3> QED
      BY <3>1, <3>2, <3>3
  <2>2. ASSUME pop PROVE Fifo!Pop
    <3>1. CASE size = 0
      <4>1. Contents' = Contents /\ UNCHANGED dropped_count /\ ret' = Fifo!Nothing
        BY <2>2, <3>1 DEF pop, Contents
      <4>2. Contents = <<>>
        BY <2>0, <3>1
      <4> QED
        BY <4>1, <4>2 DEF Fifo!Pop
    <3>2. CASE size # 0
      <4>1. Contents' = Tail(Contents) /\ ret' = Head(Contents)
        BY <2>2, <3>2, PopTakes
      <4>2. Contents # <<>> /\ UNCHANGED dropped_count
        BY <2>0, <2>2, <3>2 DEF pop
      <4> QED
        BY <4>1, <4>2 DEF Fifo!Pop
    <3> QED
      BY <3>1, <3>2
  <2>3. CASE UNCHANGED vars
    BY <2>3 DEF vars, Contents
  <2> QED
    BY <2>1, <2>2, <2>3 DEF Next, Fifo!Next
<1> QED
  BY <1>1, <1>2, RingInvariant, PTL DEF Spec, ImplementsFifo, Fifo!Spec
=============================================================================
