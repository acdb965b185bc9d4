----------------------------- MODULE JsonWriter -----------------------------
(***************************************************************************)
(* The JSON emitter (src/core/json_writer.cpp) with its two clients, the   *)
(* lines of JsonTraceSink (src/core/trace_sink.cpp) and                    *)
(* World::dump_state (src/core/world.cpp), and with mission code that      *)
(* calls it in any order the header allows.                                *)
(*                                                                         *)
(* The buffer itself grows without bound.  In its place the model keeps    *)
(* what a reader of JSON knows after the text written so far, so texts of  *)
(* every length are explored.  Punctuation goes by its name.  A number is  *)
(* the one character "0", a literal its first letter, an ordinary          *)
(* character "a", and "ctrl" a control character that has no escape of its *)
(* own.                                                                    *)
(***************************************************************************)
EXTENDS Naturals, Sequences, SequencesExt

CONSTANTS Text,         \* strings a caller passes, as sequences of characters
          MaxDepth,     \* bound: nesting explored
          MaxItems      \* bound: neighbours, timings and event fields explored

ASSUME JsonAssumption ==
  /\ Text \subseteq Seq({"a", "quote", "backslash", "newline", "ctrl"})
  /\ MaxDepth \in Nat /\ MaxItems \in Nat

VARIABLES stack,    \* stack_: the open scopes, each with its first flag
          reader,   \* the reader of buf_
          named,    \* a key has been written whose value has not begun
          todo      \* the calls that dump_state or format has yet to make

jsonVars == <<stack, reader, named, todo>>
-----------------------------------------------------------------------------
(* The reader: what may come next, which brackets are open, and whether it *)
(* is inside a string.                                                     *)
Start == [expect |-> "value", open |-> <<>>, str |-> "no"]
Bad == [expect |-> "nothing", open |-> <<>>, str |-> "no"]

ReadInString(p, c) ==
  CASE p.str = "escape" /\ c \in {"quote", "backslash", "n", "u"} -> [p EXCEPT !.str = "yes"]
    [] p.str = "yes" /\ c = "backslash" -> [p EXCEPT !.str = "escape"]
    [] p.str = "yes" /\ c = "quote" -> [p EXCEPT !.str = "no"]
    [] p.str = "yes" /\ c \notin {"backslash", "quote", "newline", "ctrl"} -> p
    [] OTHER -> Bad

ReadOutside(p, c) ==
  LET value == p.expect \in {"value", "first_value"}
      name == p.expect \in {"key", "first_key"}
      more == p.expect = "more"
      inside == p.open # <<>>
  IN  CASE c = "quote" /\ (value \/ name) ->
             [p EXCEPT !.str = "yes", !.expect = IF value THEN "more" ELSE "colon"]
        [] c \in {"0", "n", "t"} /\ value -> [p EXCEPT !.expect = "more"]
        [] c = "lbrace" /\ value -> [p EXCEPT !.open = Append(@, "rbrace"), !.expect = "first_key"]
        [] c = "lbracket" /\ value -> [p EXCEPT !.open = Append(@, "rbracket"), !.expect = "first_value"]
        [] c = "colon" /\ p.expect = "colon" -> [p EXCEPT !.expect = "value"]
        [] c = "comma" /\ more /\ inside ->
             [p EXCEPT !.expect = IF Last(p.open) = "rbrace" THEN "key" ELSE "value"]
        [] c \in {"rbrace", "rbracket"} /\ inside /\ (more \/ p.expect \in {"first_key", "first_value"}) ->
             IF Last(p.open) = c THEN [p EXCEPT !.open = Front(@), !.expect = "more"] ELSE Bad
        [] c = "newline" /\ more /\ ~inside -> Start      \* one text per line
        [] OTHER -> Bad

Read(p, c) == IF p.str = "no" THEN ReadOutside(p, c) ELSE ReadInString(p, c)

\* The reader after a text.
Reading(p, text) ==
  LET read[k \in 0..Len(text)] == IF k = 0 THEN p ELSE Read(read[k - 1], text[k])
  IN  read[Len(text)]

\* A whole text, or several of them in lines, has been read.
Whole(p) == p.open = <<>> /\ p.str = "no" /\ p.expect \in {"more", "value"}
-----------------------------------------------------------------------------
(* JsonWriter *)
\* Mutant: a control character without an escape of its own is left as it is.
escape_named(c) ==
  CASE c \in {"quote", "backslash"} -> <<"backslash", c>>
    [] c = "newline" -> <<"backslash", "n">>
    [] OTHER -> <<c>>

escape(c) ==
  CASE c \in {"quote", "backslash"} -> <<"backslash", c>>
    [] c = "newline" -> <<"backslash", "n">>
    [] c = "ctrl" -> <<"backslash", "u", "0", "0", "0", "0">>
    [] OTHER -> <<c>>

quoted(s) == <<"quote">> \o FlattenSeq([i \in 1..Len(s) |-> escape(s[i])]) \o <<"quote">>

\* What a value is printed as; a double that is not finite is null.
printed(v) ==
  CASE v.kind = "Str" -> quoted(v.val)
    [] v.kind = "F64" -> IF v.val = "finite" THEN <<"0">> ELSE <<"n">>
    [] v.kind \in {"I64", "U64"} -> <<"0">>
    [] v.kind = "Bool" -> <<"t">>
    [] v.kind = "Null" -> <<"n">>

In(kind) == stack # <<>> /\ Last(stack).kind = kind
comma == IF stack # <<>> /\ ~Last(stack).first THEN <<"comma">> ELSE <<>>
entered == [stack EXCEPT ![Len(stack)].first = FALSE]

\* handle_array_separator_: the text before a value, and the stack after it.
separator == IF In("Array") THEN comma ELSE <<>>
separated == IF In("Array") THEN entered ELSE stack

append(text) == reader' = Reading(reader, text)

open(mark, kind) ==
  /\ append(separator \o <<mark>>)
  /\ stack' = Append(separated, [kind |-> kind, first |-> TRUE])
  /\ named' = FALSE

close(mark) ==
  /\ append(<<mark>>)
  /\ stack' = IF stack = <<>> THEN stack ELSE Front(stack)
  /\ UNCHANGED named

key(k) ==
  /\ append(comma \o quoted(k) \o <<"colon">>)
  /\ stack' = IF stack = <<>> THEN stack ELSE entered
  /\ named' = TRUE

write(v) ==
  /\ append(separator \o printed(v))
  /\ stack' = separated
  /\ named' = FALSE

newline == append(<<"newline">>) /\ UNCHANGED <<stack, named>>

take == reader' = Start /\ stack' = <<>> /\ named' = FALSE

Key(k) == [call |-> "key", val |-> k]
Write(kind, val) == [call |-> "write", kind |-> kind, val |-> val]
Call(c) == [call |-> c]

perform(c) ==
  \/ c.call = "begin_object" /\ open("lbrace", "Object")
  \/ c.call = "end_object" /\ close("rbrace")
  \/ c.call = "begin_array" /\ open("lbracket", "Array")
  \/ c.call = "end_array" /\ close("rbracket")
  \/ c.call = "key" /\ key(c.val)
  \/ c.call = "write" /\ write(c)
  \/ c.call = "newline" /\ newline
  \/ c.call \in {"take", "clear"} /\ take

Values == {Write("Str", s) : s \in Text} \cup {Write("F64", x) : x \in {"finite", "nan"}} \cup
          {Write(k, <<>>) : k \in {"I64", "U64", "Bool", "Null"}}

(* json_writer.h: a key inside an object, then its value; values in arrays; *)
(* one value to a line; scopes closed as they were opened.                  *)
MayBeginValue == named \/ In("Array") \/ reader = Start

Allowed ==
  IF MayBeginValue
  THEN Values \cup
       (IF Len(stack) < MaxDepth THEN {Call("begin_object"), Call("begin_array")} ELSE {}) \cup
       (IF In("Array") THEN {Call("end_array")} ELSE {})
  ELSE IF In("Object") THEN {Key(k) : k \in Text} \cup {Call("end_object")}
  ELSE {Call("newline"), Call("take"), Call("clear")}
-----------------------------------------------------------------------------
(* The two clients as the calls they make on a new writer. *)
object(calls) == <<Call("begin_object")>> \o calls \o <<Call("end_object")>>
array(calls) == <<Call("begin_array")>> \o calls \o <<Call("end_array")>>
named_as(k, calls) == <<Key(k)>> \o calls
times(n, calls) == FlattenSeq([i \in 1..n |-> calls])

\* JsonTraceSink::format: level, event, then the fields of the event.
format(event, fields) ==
  object(named_as(<<"a">>, <<Write("Str", <<"a">>)>>) \o
         named_as(<<"a">>, <<Write("Str", event)>>) \o
         FlattenSeq([i \in 1..Len(fields) |-> named_as(event, <<fields[i]>>)]))
  \o <<Call("newline"), Call("take")>>

\* Mutant: a world that is not initialised is given up half-way.
dump_state_early(initialized, neighbours, timings, x, s) ==
  IF initialized THEN object(named_as(s, <<Write("F64", x)>>)) \o <<Call("take")>>
  ELSE <<Call("begin_object")>> \o named_as(s, <<Write("F64", x)>>) \o <<Call("take")>>

\* World::dump_state, x one of the coordinates and s one of the names in it.
dump_state(initialized, neighbours, timings, x, s) ==
  LET put(v) == named_as(<<"a">>, <<v>>)
      nest(calls) == named_as(<<"a">>, calls)
      u64 == put(Write("U64", <<>>))
      f64 == put(Write("F64", x))
      str == put(Write("Str", s))
      vector == object(times(3, f64))
      self == str \o nest(vector) \o nest(vector) \o times(8, u64)
  IN  object(u64 \o u64 \o f64 \o put(Write("Bool", <<>>)) \o
             (IF initialized THEN nest(object(self)) ELSE <<>>) \o
             times(3, u64) \o
             nest(array(times(neighbours, object(str \o f64 \o nest(vector))))) \o
             nest(object(u64 \o nest(array(times(timings, object(str \o f64 \o f64 \o u64)))))))
      \o <<Call("take")>>

JsonInit == stack = <<>> /\ reader = Start /\ named = FALSE /\ todo = <<>>

\* Mission code makes a call that the header allows.
mission == todo = <<>> /\ UNCHANGED todo /\ \E c \in Allowed : perform(c)

\* A client starts on a writer of its own.
NewWriter == todo = <<>> /\ stack = <<>> /\ reader = Start /\ UNCHANGED <<stack, reader, named>>

call_dump_state ==
  /\ NewWriter
  /\ \E i \in BOOLEAN, n \in 0..MaxItems, t \in 0..MaxItems, x \in {"finite", "nan"}, s \in Text :
       todo' = dump_state(i, n, t, x, s)

call_format ==
  /\ NewWriter
  /\ \E event \in Text, fields \in UNION {[1..n -> Values] : n \in 0..MaxItems} :
       todo' = format(event, fields)

client == todo # <<>> /\ todo' = Tail(todo) /\ perform(Head(todo))

JsonNext == mission \/ call_dump_state \/ call_format \/ client

JsonSpec == JsonInit /\ [][JsonNext]_jsonVars
-----------------------------------------------------------------------------
(* Whatever calls are made, for as long as they are made in an order the   *)
(* header allows, the text is the beginning of a JSON text: every comma is *)
(* where JSON wants one, no string lets a quote or a control character     *)
(* out, and stack_ holds just the scopes that the text leaves open, so     *)
(* that well_formed() tells the truth.                                     *)
Readable ==
  /\ reader # Bad
  /\ reader.open = [i \in 1..Len(stack) |-> IF stack[i].kind = "Object" THEN "rbrace" ELSE "rbracket"]

(* dump_state and format hand out one complete JSON text, whether or not   *)
(* the world is initialised, and however many neighbours, timings and      *)
(* fields there are.                                                       *)
TakenWhole == todo # <<>> /\ Head(todo).call = "take" => Whole(reader) /\ stack = <<>>
=============================================================================
