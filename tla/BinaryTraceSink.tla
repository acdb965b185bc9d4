-------------------------- MODULE BinaryTraceSink --------------------------
(***************************************************************************)
(* BinaryTraceSink (src/core/binary_trace_sink.cpp): a ring of fixed-size  *)
(* frames.  A frame is known by its sequence number and by how much of it  *)
(* the event's name and fields take; what the bytes say is left out.       *)
(***************************************************************************)
EXTENDS Integers

CONSTANTS Word,         \* the number of values of size_t: 2^32 or 2^64 in a build
          Requested,    \* the capacities asked for
          Event,        \* lengths of name and number of fields of what is emitted
          FRAME_BYTES, MAX_NAME_LEN, FIELD_BYTES, HEADER_BYTES,
          MaxEmits      \* bound: emit() calls

ASSUME SinkAssumption ==
  /\ Word \in Nat /\ Word > 1 /\ Requested \subseteq 0..(Word - 1)
  /\ Event \subseteq [name : Nat, fields : Nat] /\ MaxEmits \in Nat
  /\ {FRAME_BYTES, MAX_NAME_LEN, HEADER_BYTES} \subseteq Nat /\ FIELD_BYTES \in Nat \ {0}
  /\ HEADER_BYTES + MAX_NAME_LEN <= FRAME_BYTES

VARIABLES asked,        \* the constructor's argument
          capacity, buffer, head, size, wall_seq, dropped, total_emits,
          released      \* history: frames popped or cleared

sinkVars == <<asked, capacity, buffer, head, size, wall_seq, dropped, total_emits, released>>
-----------------------------------------------------------------------------
minimum(a, b) == IF a < b THEN a ELSE b

\* p <<= 1 while the shifted value neither wraps nor exceeds n.
floor_pow2(n) ==
  LET grow[p \in 1..(Word - 1)] ==
        IF 2 * p % Word > p /\ 2 * p % Word <= n THEN grow[2 * p] ELSE p
  IN  IF n = 0 THEN 1 ELSE grow[1]

\* i & m: the low bit, then the others of both numbers shifted right.
bit_and(i, m) ==
  LET and[n \in 0..m] ==
        [j \in 0..i |-> IF n = 0 THEN 0
                       ELSE 2 * and[n \div 2][j \div 2] + IF n % 2 = 1 THEN j % 2 ELSE 0]
  IN  and[m][i]

masked(i) == bit_and(i, capacity - 1)

\* Mutant: the fields are not cut to what the frame holds.
frame_uncut(e) ==
  LET name_room == minimum(e.name, MAX_NAME_LEN)
  IN  [seq |-> wall_seq, cut |-> FALSE,
       bytes |-> HEADER_BYTES + name_room + e.fields * FIELD_BYTES]

\* The name is cut to MAX_NAME_LEN, the fields to what is left.
frame(e) ==
  LET name_room == minimum(e.name, MAX_NAME_LEN)
      f_count   == minimum(e.fields, (FRAME_BYTES - HEADER_BYTES - name_room) \div FIELD_BYTES)
  IN  [seq |-> wall_seq, cut |-> f_count < e.fields,
       bytes |-> HEADER_BYTES + name_room + f_count * FIELD_BYTES]

Blank == [seq |-> -1, cut |-> FALSE, bytes |-> 0]
-----------------------------------------------------------------------------
SinkInit ==
  /\ asked \in Requested
  /\ capacity = floor_pow2(IF asked = 0 THEN 1 ELSE asked)
  /\ buffer = [i \in 0..(capacity - 1) |-> Blank]
  /\ head = 0 /\ size = 0 /\ wall_seq = 0 /\ dropped = 0 /\ total_emits = 0
  /\ released = 0

\* An event of level Off is dropped before anything changes.
emit(e) ==
  /\ total_emits < MaxEmits
  /\ total_emits' = total_emits + 1
  /\ IF size = capacity THEN dropped' = dropped + 1 /\ UNCHANGED size
                        ELSE size' = size + 1 /\ UNCHANGED dropped
  /\ buffer' = [buffer EXCEPT ![masked(head)] = frame(e)]
  /\ head' = masked(head + 1)
  /\ wall_seq' = wall_seq + 1
  /\ UNCHANGED <<asked, capacity, released>>

\* Mutant: one slot past the oldest frame.
oldest_past == masked(head + capacity - size + 1)

\* Where peek_oldest reads.
oldest == masked(head + capacity - size)

\* peek_oldest, then pop_oldest.
pop_oldest ==
  /\ size > 0 /\ size' = size - 1 /\ released' = released + 1
  /\ UNCHANGED <<asked, capacity, buffer, head, wall_seq, dropped, total_emits>>

clear ==
  /\ head' = 0 /\ size' = 0 /\ released' = released + size
  /\ UNCHANGED <<asked, capacity, buffer, wall_seq, dropped, total_emits>>

SinkNext == (\E e \in Event : emit(e)) \/ pop_oldest \/ clear

SinkSpec == SinkInit /\ [][SinkNext]_sinkVars
-----------------------------------------------------------------------------
\* The k-th frame a reader gets by peeking and popping from here on.
Held(k) == buffer[(oldest + k - 1) % capacity]

\* What a reader can still take are the frames emitted last, oldest first and
\* without a gap, however the ring has wrapped, overflowed, been read or been
\* cleared.
HoldsLatest == \A k \in 1..size : Held(k).seq = wall_seq - size + k - 1

\* Every emitted frame is held, or was dropped by overflow, or was released to
\* the reader: the counters account for all of them ("dropped() + size() <=
\* this", binary_trace_sink.h:81).
AllAccounted == total_emits = size + dropped + released /\ size <= capacity

\* No event, however long its name and however many its fields, is written
\* past the end of its frame, and no field is left out that would have fitted.
FramesFit ==
  \A k \in 1..size :
    /\ Held(k).bytes <= FRAME_BYTES
    /\ Held(k).cut => Held(k).bytes + FIELD_BYTES > FRAME_BYTES
=============================================================================
