---------------------------- MODULE BoundedFifo ----------------------------
(* What a bounded queue promises its user: first in, first out, at most N  *)
(* items, and one of two answers to a push onto a full queue, which counts *)
(* what it loses.                                                          *)
EXTENDS Naturals, Sequences

CONSTANTS Item, N, CountMod
VARIABLES policy, fifo, lost, ret

Accepted == "true"
Refused  == "false"
Nothing  == "nullopt"

Policies == {"DropOldest", "DropNewest", "FaultTrigger"}

Init == policy \in Policies /\ fifo = <<>> /\ lost = 0 /\ ret = Nothing

Push(x) ==
  \/ /\ Len(fifo) < N
     /\ fifo' = Append(fifo, x) /\ ret' = Accepted
     /\ UNCHANGED lost
  \/ /\ Len(fifo) = N /\ policy = "DropOldest"
     /\ fifo' = Append(Tail(fifo), x) /\ ret' = Accepted
     /\ lost' = (lost + 1) % CountMod
  \/ /\ Len(fifo) = N /\ policy # "DropOldest"
     /\ ret' = Refused
     /\ lost' = (lost + 1) % CountMod
     /\ UNCHANGED fifo

Pop ==
  \/ /\ fifo # <<>>
     /\ ret' = Head(fifo) /\ fifo' = Tail(fifo)
     /\ UNCHANGED lost
  \/ /\ fifo = <<>>
     /\ ret' = Nothing
     /\ UNCHANGED <<fifo, lost>>

\* The answer to overflow is settled at the start.
Next == ((\E x \in Item : Push(x)) \/ Pop) /\ UNCHANGED policy

Spec == Init /\ [][Next]_<<policy, fifo, lost, ret>>
=============================================================================
