------------------------------ MODULE MCWorld ------------------------------
(* World with one built-in type and two of the mission, all of one hash:   *)
(* the worst case.  What goes on under another hash does not concern it.   *)
EXTENDS World

CONSTANTS mine, yours

BuiltIns == {Identity}
UserTypes == {mine, yours}
Ids == {1}
Hash == [t \in BuiltIns \cup UserTypes |-> 1]
=============================================================================
