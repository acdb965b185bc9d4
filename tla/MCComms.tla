------------------------------ MODULE MCComms ------------------------------
(* The neighbour table and the serial link for TLC.  The table has two     *)
(* axes, coordinates on both sides of the origin and cells that divide the *)
(* plane unevenly.  The link has digits to the base seven, a message that  *)
(* is the longest payload there may be, and bodies of plain data or of     *)
(* sync bytes.  The two share no state, so one is run while the other      *)
(* rests.                                                                  *)
EXTENDS NeighbourTable, SerialLink

Coords == -2..1
Sizes  == {-1, 2, 3}
Radii  == 0..3

Tags   == [c \in Channel |-> IF c = "beacon" THEN 1 ELSE 2]
Bodies == [c \in Channel |-> IF c = "beacon" THEN 1 ELSE 2]
Kinds  == {{1}, {SYNC_BYTE_1, SYNC_BYTE_2}}

VARIABLE subject   \* the one that is run

commsVars == <<vars, linkVars, subject>>

CommsInit ==
  /\ subject \in {"table", "link"}
  /\ Init /\ (subject = "link" => cell_size_m = 2)
  /\ LinkInit /\ (subject = "table" => data = {1})

LinkRuns(A) == subject = "link" /\ A /\ UNCHANGED <<vars, subject>>

RunTable == subject = "table" /\ Next /\ UNCHANGED <<linkVars, subject>>
RunLink  == subject = "link" /\ LinkNext /\ UNCHANGED <<vars, subject>>

CommsNext == RunTable \/ RunLink

(* The fairness of LinkFairSpec, as long as the link is run.               *)
CommsSpec ==
  /\ CommsInit /\ [][CommsNext]_commsVars
  /\ WF_commsVars(LinkRuns(Send)) /\ WF_commsVars(LinkRuns(Write))
  /\ \A c \in Channel : WF_commsVars(LinkRuns(poll_all(c)))
===========================================================================
