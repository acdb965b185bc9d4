------------------------------ MODULE MCSinks ------------------------------
(* The two ways a world reports, for TLC: the binary sink with words of    *)
(* four bits, the frame layout of the build, events that fit and that are  *)
(* cut; the JSON writer with an ordinary name and one that needs every     *)
(* escape.  The two share no state, so one is run while the other rests.   *)
EXTENDS BinaryTraceSink, JsonWriter

Sizes  == {0, 1, 3, 4, 7, 8, 15}
Events == {[name |-> 13, fields |-> 3], [name |-> 70, fields |-> 12],
           [name |-> 12, fields |-> 14]}
Texts == {<<"a">>, <<"quote", "backslash", "newline", "ctrl">>}

VARIABLE subject   \* the one that is run

SinksInit ==
  /\ subject \in {"binary", "json"}
  /\ SinkInit /\ (subject = "json" => asked = 0)
  /\ JsonInit

RunBinary == subject = "binary" /\ SinkNext /\ UNCHANGED <<jsonVars, subject>>
RunJson   == subject = "json" /\ JsonNext /\ UNCHANGED <<sinkVars, subject>>

SinksNext == RunBinary \/ RunJson

SinksSpec == SinksInit /\ [][SinksNext]_<<sinkVars, jsonVars, subject>>
===========================================================================
