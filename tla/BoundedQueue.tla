---------------------------- MODULE BoundedQueue ----------------------------
(* BoundedQueue<T, N, Policy> (include/mith/core/bounded_queue.h): a ring  *)
(* of N slots with a head, a tail and a size.                              *)
EXTENDS Integers, Sequences

CONSTANTS Item,      \* the values of T
          Default,   \* a default-constructed or moved-from T
          N,         \* capacity
          CountMod   \* 2^32, the range of the counters

ASSUME QueueAssumption ==
  N \in Nat \ {0} /\ CountMod \in Nat \ {0}

VARIABLES policy,    \* OverflowPolicy, a parameter of the class
          buffer, head, tail, size, dropped_count, overflow_events,
          ret        \* what the last call returned

vars == <<policy, buffer, head, tail, size, dropped_count, overflow_events, ret>>

\* The contents, oldest first.
Contents == [k \in 1..size |-> buffer[(head + k - 1) % N]]

Fifo == INSTANCE BoundedFifo WITH fifo <- Contents, lost <- dropped_count

next_index(i) == (i + 1) % N

Init ==
  /\ policy \in Fifo!Policies
  /\ buffer = [i \in 0..(N - 1) |-> Default]
  /\ head = 0 /\ tail = 0 /\ size = 0
  /\ dropped_count = 0 /\ overflow_events = 0
  /\ ret = Fifo!Nothing

\* Mutant: the test of the policy is inverted.
push_inverted(x) ==
  \/ /\ size = N
     /\ overflow_events' = (overflow_events + 1) % CountMod
     /\ dropped_count' = (dropped_count + 1) % CountMod
     /\ IF policy # "DropOldest"
        THEN /\ buffer' = [buffer EXCEPT ![tail] = x]
             /\ tail' = next_index(tail) /\ head' = next_index(head)
             /\ ret' = Fifo!Accepted
        ELSE ret' = Fifo!Refused /\ UNCHANGED <<buffer, tail, head>>
     /\ UNCHANGED size
  \/ /\ size # N
     /\ buffer' = [buffer EXCEPT ![tail] = x]
     /\ tail' = next_index(tail) /\ size' = size + 1
     /\ ret' = Fifo!Accepted
     /\ UNCHANGED <<head, dropped_count, overflow_events>>

push(x) ==
  \/ /\ size = N
     /\ overflow_events' = (overflow_events + 1) % CountMod
     /\ dropped_count' = (dropped_count + 1) % CountMod
     /\ IF policy = "DropOldest"
        THEN /\ buffer' = [buffer EXCEPT ![tail] = x]
             /\ tail' = next_index(tail) /\ head' = next_index(head)
             /\ ret' = Fifo!Accepted
        ELSE ret' = Fifo!Refused /\ UNCHANGED <<buffer, tail, head>>
     /\ UNCHANGED size
  \/ /\ size # N
     /\ buffer' = [buffer EXCEPT ![tail] = x]
     /\ tail' = next_index(tail) /\ size' = size + 1
     /\ ret' = Fifo!Accepted
     /\ UNCHANGED <<head, dropped_count, overflow_events>>

\* The popped slot is moved from: what it holds afterwards is up to T.
pop ==
  \/ /\ size = 0
     /\ ret' = Fifo!Nothing
     /\ UNCHANGED <<buffer, head, tail, size, dropped_count, overflow_events>>
  \/ /\ size # 0
     /\ ret' = buffer[head]
     /\ \E junk \in {buffer[head], Default} : buffer' = [buffer EXCEPT ![head] = junk]
     /\ head' = next_index(head) /\ size' = size - 1
     /\ UNCHANGED <<tail, dropped_count, overflow_events>>

Next == ((\E x \in Item : push(x)) \/ pop) /\ UNCHANGED policy

Spec == Init /\ [][Next]_vars
-----------------------------------------------------------------------------
\* The ring is well formed: tail_ is where head_ and size_ say it is, the
\* slots between them hold pushed items, and both counters agree.
RingInv ==
  /\ buffer \in [0..(N - 1) -> Item \cup {Default}]
  /\ head \in 0..(N - 1) /\ tail \in 0..(N - 1) /\ size \in 0..N
  /\ tail = (head + size) % N
  /\ \A k \in 1..size : Contents[k] \in Item
  /\ dropped_count \in Nat /\ overflow_events = dropped_count

\* Whatever sequence of push() and pop() wraps the ring, the queue behaves as
\* the bounded FIFO with the policy's answer to overflow.
ImplementsFifo == Fifo!Spec
=============================================================================
