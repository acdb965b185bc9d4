------------------------ MODULE ActionPipelineProofs ------------------------
(* The fate of actions, the order in which they take effect and what       *)
(* degraded mode keeps back, for every queue capacity, every set of action *)
(* types and masks, every health, threshold and hysteresis, and any number *)
(* of actions and faults.                                                  *)
EXTENDS ActionPipeline, DataLemmas

(* The part of TypeOK that is about actions, without the counter.          *)
FlowTypes ==
  /\ messages \in BOOLEAN /\ pending \subseteq System
  /\ queue \in Seq(1..Len(log)) /\ Len(queue) <= CAPACITY
  /\ validated \in Seq(1..Len(log)) /\ Len(validated) <= CAPACITY
  /\ rejected \subseteq 1..Len(log)
  /\ velocity \in 0..Len(log) /\ sent \in Seq(1..Len(log))
  /\ log \in Seq(Type) /\ Len(log) <= MaxActions /\ handled \in [1..MaxActions -> Nat]

(* A tick starts with the validator.                                       *)
Phases == "Validator" \in pending => pending = System

(* The system that handles the actions of a type.                          *)
handler_of(t) ==
  IF t \in {"IDLE", "HOVER"} THEN "Hover" ELSE IF t = "MOVE" THEN "Move" ELSE "Transmit"

(* This tick has validated action i, and its handler has yet to run.       *)
Due(i) == "Validator" \notin pending /\ i \in Range(validated) /\ handler_of(log[i]) \in pending

(* OneFate, and in the middle of a tick what is due has not been handled.  *)
Fates ==
  \A i \in 1..Len(log) :
    handled[i] = IF i \in Range(queue) \cup rejected \/ ~HasHandler(log[i]) \/ Due(i)
                 THEN 0 ELSE 1

Fresh == \A i \in 1..MaxActions : i > Len(log) => handled[i] = 0

(* No action is both rejected and on its way.                              *)
Apart == rejected \cap Range(queue) = {} /\ rejected \cap Range(validated) = {}

Below(S, T) == \A a \in S, b \in T : a < b

(* What is queued was accepted after all that went before, and what this   *)
(* tick has validated after all that earlier ticks have moved and sent.    *)
Ordered ==
  /\ Increasing(queue) /\ Increasing(validated) /\ Increasing(sent)
  /\ Below(Range(validated) \cup Range(sent) \cup {velocity}, Range(queue))
  /\ "Validator" \notin pending =>
       /\ "Move" \in pending => Below({velocity}, Range(validated))
       /\ "Transmit" \in pending => Below(Range(sent), Range(validated))

FlowInv == FlowTypes /\ Phases /\ Fates /\ Fresh /\ Apart /\ Ordered

flowVars == <<messages, pending, queue, validated, rejected, velocity, sent, log, handled>>

LEMMA SystemsNamed == System = {"Validator", "Monitor", "Hover", "Move", "Transmit"}
BY DEF System, describe

\* No other system runs before the validator: all read what it writes, or
\* write what it reads.
LEMMA ValidatorFirst ==
  ASSUME NEW s \in {"Monitor", "Hover", "Move", "Transmit"}, Dispatched(s)
  PROVE  s \in pending /\ "Validator" \notin pending
<1>1. s \in pending /\ Graph!Preds(pending, s) = {}
  BY DEF Dispatched
<1>2. describe["Validator"].name < describe[s].name
  BY DEF describe, ValidatorDesc, MonitorDesc, HoverDesc, MoveDesc, TransmitDesc, D
<1>3. \/ "PermissionMask" \in describe["Validator"].reads_components \cap describe[s].writes_components
      \/ "ActionQueue" \in describe["Validator"].writes_components \cap describe[s].reads_components
  BY DEF describe, ValidatorDesc, MonitorDesc, HoverDesc, MoveDesc, TransmitDesc, D
<1>4. Graph!Edge("Validator", s)
  <2>1. Graph!Name("Validator") < Graph!Name(s)
    BY <1>2 DEF Graph!Name
  <2>2. Graph!have_hazard("Validator", s)
    BY <1>3 DEF Graph!have_hazard, Graph!Intersects
  <2> QED
    BY <2>1, <2>2 DEF Graph!Edge
<1> QED
  BY <1>1, <1>4 DEF Graph!Preds

\* An increasing sequence goes on increasing when larger elements follow.
LEMMA IncreasingJoined ==
  ASSUME NEW S, S \subseteq Nat, NEW s \in Seq(S), NEW t \in Seq(S),
         Increasing(s), Increasing(t), Below(Range(s), Range(t))
  PROVE  /\ s \o t \in Seq(S) /\ Increasing(s \o t)
         /\ Range(s \o t) = Range(s) \cup Range(t)
<1> DEFINE m == Len(s)
           n == Len(t)
           u == s \o t
<1>1. /\ u \in Seq(S) /\ Len(u) = m + n /\ m \in Nat /\ n \in Nat
      /\ DOMAIN u = 1..(m + n) /\ DOMAIN s = 1..m /\ DOMAIN t = 1..n
  OBVIOUS
<1>2. \A k \in 1..(m + n) : u[k] = IF k <= m THEN s[k] ELSE t[k - m]
  OBVIOUS
<1>3. /\ \A k \in 1..m : s[k] \in Nat
      /\ \A k \in 1..n : t[k] \in Nat
  <2>1. (\A k \in 1..m : s[k] \in S) /\ \A k \in 1..n : t[k] \in S
    OBVIOUS
  <2> QED
    BY <2>1
<1>4. \A k \in 1..m, l \in 1..n : s[k] < t[l]
  BY <1>1 DEF Below, Range
<1> HIDE DEF m, n, u
<1>5. Increasing(u)
  <2> SUFFICES ASSUME NEW k \in 1..(m + n), NEW l \in 1..(m + n), k < l PROVE u[k] < u[l]
    BY <1>1 DEF Increasing
  <2>1. CASE l <= m
    <3>1. k \in 1..m /\ l \in 1..m /\ k <= m
      BY <1>1, <2>1
    <3>2. s[k] < s[l]
      BY <1>1, <3>1 DEF Increasing
    <3> QED
      BY <1>2, <2>1, <3>1, <3>2
  <2>2. CASE ~(l <= m) /\ k <= m
    <3>1. l - m \in 1..n /\ k \in 1..m
      BY <1>1, <2>2
    <3> QED
      BY <1>2, <1>4, <2>2, <3>1
  <2>3. CASE ~(k <= m)
    <3>1. l - m \in 1..n /\ k - m \in 1..n /\ k - m < l - m /\ ~(l <= m)
      BY <1>1, <2>3
    <3>2. t[k - m] < t[l - m]
      BY <1>1, <3>1 DEF Increasing
    <3> QED
      BY <1>2, <2>3, <3>1, <3>2
  <2> QED
    BY <1>1, <2>1, <2>2, <2>3
<1>6. Range(u) = Range(s) \cup Range(t)
  BY RangeJoined DEF u
<1> QED
  BY <1>1, <1>5, <1>6 DEF u
-----------------------------------------------------------------------------
LEMMA FlowStart == Init => FlowInv
<1> SUFFICES ASSUME Init PROVE FlowInv
  OBVIOUS
<1>1. Len(log) = 0 /\ 1..Len(log) = {} /\ Range(queue) = {} /\ Range(validated) = {} /\ Range(sent) = {}
  BY EmptySequence DEF Init
<1>2. CAPACITY \in Nat /\ MaxActions \in Nat
  BY PipelineAssumption
<1>3. FlowTypes
  BY <1>1, <1>2, EmptySequence DEF Init, FlowTypes
<1>4. Phases
  BY DEF Init, Phases
<1>5. Fates /\ Fresh
  BY <1>1 DEF Init, Fates, Fresh
<1>6. Apart /\ Ordered
  BY <1>1, EmptySequence DEF Init, Apart, Ordered, Below
<1> QED
  BY <1>3, <1>4, <1>5, <1>6 DEF FlowInv

LEMMA FlowFramed ==
  ASSUME FlowInv, UNCHANGED flowVars
  PROVE  FlowInv'
BY DEF flowVars, FlowInv, FlowTypes, Phases, Fates, Fresh, Apart, Ordered, Due, HasHandler,
       Idle, Below, Range, Increasing

\* The types and the members, as the steps below use them.
LEMMA FlowFacts ==
  ASSUME FlowTypes
  PROVE  /\ Len(log) \in Nat /\ 1..Len(log) \subseteq Nat /\ MaxActions \in Nat /\ CAPACITY \in Nat
         /\ Range(queue) \subseteq 1..Len(log) /\ Range(validated) \subseteq 1..Len(log)
         /\ Range(sent) \subseteq 1..Len(log)
         /\ 1..Len(log) \subseteq 1..MaxActions
<1>1. Len(log) \in Nat
  BY DEF FlowTypes
<1>2. MaxActions \in Nat /\ CAPACITY \in Nat
  BY PipelineAssumption
<1>3. 1..Len(log) \subseteq Nat /\ 1..Len(log) \subseteq 1..MaxActions
  BY <1>1, <1>2 DEF FlowTypes
<1> QED
  BY <1>1, <1>2, <1>3, RangeWithin DEF FlowTypes

LEMMA TickFlow ==
  ASSUME FlowInv, tick
  PROVE  FlowInv'
<1>1. pending = {} /\ pending' = System /\ UNCHANGED <<messages, queue, validated, rejected, velocity, sent, log, handled>>
  BY DEF tick, Idle, queueVars, outVars
<1>2. FlowTypes' /\ Fresh' /\ Apart'
  BY <1>1 DEF FlowInv, FlowTypes, Fresh, Apart
<1>3. Phases'
  BY <1>1, SystemsNamed DEF Phases
<1>4. Fates'
  BY <1>1, SystemsNamed DEF FlowInv, Fates, Due, HasHandler
<1>5. Ordered'
  BY <1>1, SystemsNamed DEF FlowInv, Ordered
<1> QED
  BY <1>2, <1>3, <1>4, <1>5 DEF FlowInv

LEMMA PushFlow ==
  ASSUME FlowInv, NEW t \in Type, push(t)
  PROVE  FlowInv'
<1> DEFINE n == Len(log) + 1
<1>1. /\ Len(log) < MaxActions /\ Len(queue) < CAPACITY
      /\ log' = Append(log, t) /\ queue' = Append(queue, n)
      /\ UNCHANGED <<messages, pending, validated, rejected, velocity, sent, handled>>
  BY DEF push, outVars
<1>2. FlowTypes
  BY DEF FlowInv
<1>3. Len(log) \in Nat /\ 1..Len(log) \subseteq Nat /\ MaxActions \in Nat /\ CAPACITY \in Nat
  BY <1>2, FlowFacts
<1>4. Range(queue) \subseteq 1..Len(log) /\ Range(validated) \subseteq 1..Len(log) /\ Range(sent) \subseteq 1..Len(log)
  BY <1>2, FlowFacts
<1>5. /\ log' \in Seq(Type) /\ Len(log') = n
      /\ \A i \in 1..Len(log) : log'[i] = log[i]
  BY <1>1, <1>2, OneAppended DEF FlowTypes
<1>6. 1..Len(log) \subseteq 1..n /\ n \in 1..n /\ 1..n = 1..Len(log) \cup {n} /\ n \in 1..MaxActions
  BY <1>1, <1>3
<1>7. queue \in Seq(1..n) /\ validated \in Seq(1..n) /\ sent \in Seq(1..n) /\ Len(queue) \in Nat
  BY <1>2, <1>6, Widened DEF FlowTypes
<1>8. /\ queue' \in Seq(1..n) /\ Len(queue') = Len(queue) + 1
      /\ DOMAIN queue' = DOMAIN queue \cup {Len(queue) + 1}
      /\ \A k \in DOMAIN queue : queue'[k] = queue[k] /\ k \in Nat /\ k < Len(queue) + 1
      /\ queue'[Len(queue) + 1] = n
      /\ Range(queue') = Range(queue) \cup {n}
  <2> DEFINE q == Append(queue, n)
  <2>1. /\ q \in Seq(1..n) /\ Len(q) = Len(queue) + 1
        /\ DOMAIN q = DOMAIN queue \cup {Len(queue) + 1}
        /\ \A k \in DOMAIN queue : q[k] = queue[k] /\ k \in Nat /\ k < Len(queue) + 1
        /\ q[Len(queue) + 1] = n
        /\ Range(q) = Range(queue) \cup {n}
    <3> HIDE DEF n
    <3> QED
      BY <1>6, <1>7, OneAppended
  <2> HIDE DEF q
  <2>2. queue' = q
    BY <1>1 DEF q
  <2> QED
    BY <2>1, <2>2
<1>9. FlowTypes'
  <2>1. Len(queue') <= CAPACITY /\ Len(log') <= MaxActions
    BY <1>1, <1>3, <1>5, <1>7, <1>8
  <2>2. velocity \in 0..n /\ rejected \subseteq 1..n
    BY <1>2, <1>3, <1>6 DEF FlowTypes
  <2> HIDE DEF n
  <2> QED
    BY <1>1, <1>2, <1>5, <1>7, <1>8, <2>1, <2>2 DEF FlowTypes
<1>10. Phases'
  BY <1>1 DEF FlowInv, Phases
<1>11. n \notin rejected /\ n \notin Range(validated)
  BY <1>2, <1>3, <1>4 DEF FlowTypes
<1>12. Apart'
  BY <1>1, <1>8, <1>11 DEF FlowInv, Apart
<1>13. Fates'
  <2> SUFFICES ASSUME NEW i \in 1..n
               PROVE  handled[i] = IF i \in Range(queue') \cup rejected \/ ~HasHandler(log[i])' \/ Due(i)'
                                   THEN 0 ELSE 1
    BY <1>1, <1>5 DEF Fates
  <2>1. CASE i = n
    <3>1. handled[i] = 0
      BY <1>3, <1>6, <2>1 DEF FlowInv, Fresh
    <3> QED
      BY <1>8, <2>1, <3>1
  <2>2. CASE i # n
    <3>1. i \in 1..Len(log) /\ log'[i] = log[i]
      BY <1>5, <1>6, <2>2
    <3>2. handled[i] = IF i \in Range(queue) \cup rejected \/ ~HasHandler(log[i]) \/ Due(i) THEN 0 ELSE 1
      BY <3>1 DEF FlowInv, Fates
    <3>3. (Due(i)' <=> Due(i)) /\ (HasHandler(log[i])' <=> HasHandler(log[i]))
      BY <1>1, <3>1 DEF Due, HasHandler
    <3> QED
      BY <1>8, <2>2, <3>2, <3>3
  <2> QED
    BY <2>1, <2>2
<1>14. Fresh'
  BY <1>1, <1>3, <1>5 DEF FlowInv, Fresh
<1>15. Ordered'
  <2>1. \A a \in Range(queue) \cup Range(validated) \cup Range(sent) \cup {velocity} : a < n
    BY <1>2, <1>3, <1>4 DEF FlowTypes
  <2>2. Increasing(queue')
    <3>1. \A k \in DOMAIN queue : queue[k] < n
      BY <2>1 DEF Range
    <3> HIDE DEF n
    <3> QED
      BY <1>7, <1>8, <3>1 DEF FlowInv, Ordered, Increasing
  <2>3. Below(Range(validated) \cup Range(sent) \cup {velocity}, Range(queue'))
    BY <1>8, <2>1 DEF FlowInv, Ordered, Below
  <2> QED
    BY <1>1, <2>2, <2>3 DEF FlowInv, Ordered
<1> QED
  BY <1>9, <1>10, <1>12, <1>13, <1>14, <1>15 DEF FlowInv
-----------------------------------------------------------------------------
\* What the validator makes of the queue.
LEMMA ValidatorDoes ==
  ASSUME FlowTypes, ActionValidatorSystem
  PROVE  LET allowed == {a \in Range(queue) : allows(mask, log[a])}
         IN  /\ "Validator" \in pending /\ pending' = pending \ {"Validator"}
             /\ validated' = Only(queue, allowed) /\ Range(validated') = allowed
             /\ validated' \in Seq(1..Len(log)) /\ Len(validated') <= CAPACITY
             /\ rejected' = rejected \cup (Range(queue) \ allowed)
             /\ permission_rejections_total' =
                  permission_rejections_total + Cardinality(Range(queue) \ allowed)
             /\ queue' = <<>>
<1> DEFINE allowed == {a \in Range(queue) : allows(mask, log[a])}
           ok == Only(queue, allowed)
<1>1. queue \in Seq(1..Len(log)) /\ Len(queue) \in Nat /\ Len(queue) <= CAPACITY /\ CAPACITY \in Nat
  BY PipelineAssumption DEF FlowTypes
<1>2. ok \in Seq(1..Len(log)) /\ Len(ok) <= Len(queue) /\ Range(ok) = Range(queue) \cap allowed
  <2> HIDE DEF allowed
  <2> QED
    BY <1>1, OnlyFilters
<1>3. Range(queue) \cap allowed = allowed
  OBVIOUS
<1>4. Len(ok) \in Nat /\ Len(ok) <= CAPACITY
  <2> HIDE DEF ok
  <2> QED
    BY <1>1, <1>2
<1>5. validated' = ok
  <2>1. validated' = SubSeq(ok, 1, IF Len(ok) < CAPACITY THEN Len(ok) ELSE CAPACITY)
    BY DEF ActionValidatorSystem
  <2> HIDE DEF ok
  <2>2. (IF Len(ok) < CAPACITY THEN Len(ok) ELSE CAPACITY) = Len(ok)
    BY <1>1, <1>4
  <2>3. SubSeq(ok, 1, Len(ok)) = ok
    BY <1>2
  <2> QED
    BY <2>1, <2>2, <2>3
<1>6. /\ rejected' = rejected \cup (Range(queue) \ Range(ok))
      /\ permission_rejections_total' = permission_rejections_total + Cardinality(Range(queue) \ Range(ok))
      /\ queue' = <<>> /\ "Validator" \in pending /\ pending' = pending \ {"Validator"}
  BY DEF ActionValidatorSystem, Dispatched, Ran
<1>7. Range(ok) = allowed
  BY <1>2, <1>3
<1> HIDE DEF ok
<1>8. /\ validated' \in Seq(1..Len(log)) /\ Len(validated') <= CAPACITY /\ Range(validated') = allowed
  BY <1>2, <1>4, <1>5, <1>7
<1> QED
  BY <1>5, <1>6, <1>7, <1>8 DEF ok

LEMMA ValidatorFlow ==
  ASSUME FlowInv, ActionValidatorSystem
  PROVE  FlowInv'
<1> DEFINE allowed == {a \in Range(queue) : allows(mask, log[a])}
<1>1. FlowTypes
  BY DEF FlowInv
<1>2. /\ "Validator" \in pending /\ pending' = pending \ {"Validator"}
      /\ validated' = Only(queue, allowed) /\ Range(validated') = allowed
      /\ validated' \in Seq(1..Len(log)) /\ Len(validated') <= CAPACITY
      /\ rejected' = rejected \cup (Range(queue) \ allowed)
      /\ queue' = <<>>
  BY <1>1, ValidatorDoes
<1>3. UNCHANGED <<messages, velocity, sent, log, handled>>
  BY DEF ActionValidatorSystem, outVars
<1>4. allowed \subseteq Range(queue)
  OBVIOUS
<1> HIDE DEF allowed
<1>5. Range(queue) \subseteq 1..Len(log) /\ CAPACITY \in Nat /\ Len(queue') = 0 /\ Range(queue') = {}
      /\ queue' \in Seq(1..Len(log)) /\ Increasing(queue')
  BY <1>1, <1>2, FlowFacts, EmptySequence
<1>6. FlowTypes'
  <2>1. Len(queue') <= CAPACITY
    BY <1>5
  <2> QED
    BY <1>1, <1>2, <1>3, <1>5, <2>1 DEF FlowTypes
<1>7. pending = System /\ "Validator" \notin pending'
  BY <1>2 DEF FlowInv, Phases
<1>8. Phases'
  BY <1>2, <1>7 DEF Phases
<1>9. Fresh'
  BY <1>3 DEF FlowInv, Fresh
<1>10. Apart'
  BY <1>2, <1>4, <1>5 DEF FlowInv, Apart
<1>11. \A u : handler_of(u) \in pending'
  BY <1>2, <1>7, SystemsNamed DEF handler_of
<1>12. Fates'
  <2> SUFFICES ASSUME NEW i \in 1..Len(log)
               PROVE  handled[i] = IF i \in rejected' \/ ~HasHandler(log[i]) \/ i \in Range(validated')
                                   THEN 0 ELSE 1
    BY <1>3, <1>5, <1>7, <1>11 DEF Fates, Due, HasHandler
  <2>1. handled[i] = IF i \in Range(queue) \cup rejected \/ ~HasHandler(log[i]) THEN 0 ELSE 1
    BY <1>2 DEF FlowInv, Fates, Due
  <2> QED
    BY <1>2, <1>4, <2>1
<1>13. Ordered'
  <2>1. Increasing(validated')
    <3>1. 1..Len(log) \subseteq Nat /\ queue \in Seq(1..Len(log)) /\ Increasing(queue)
      BY <1>1, FlowFacts DEF FlowTypes, FlowInv, Ordered
    <3> QED
      BY <1>2, <3>1, OnlyIncreases
  <2>2. Below(Range(sent) \cup {velocity}, Range(validated'))
    BY <1>2, <1>4 DEF FlowInv, Ordered, Below
  <2>3. Below(Range(validated') \cup Range(sent) \cup {velocity}, Range(queue'))
    BY <1>5 DEF Below
  <2>4. Below({velocity}, Range(validated')) /\ Below(Range(sent), Range(validated'))
    BY <2>2 DEF Below
  <2>5. Increasing(sent)
    BY DEF FlowInv, Ordered
  <2> QED
    BY <1>3, <1>5, <2>1, <2>3, <2>4, <2>5 DEF Ordered
<1> QED
  BY <1>6, <1>8, <1>9, <1>10, <1>12, <1>13 DEF FlowInv
-----------------------------------------------------------------------------
\* A handler's actions: those of its types that this tick has validated.
LEMMA MineIs ==
  ASSUME FlowTypes, Increasing(validated), NEW T
  PROVE  /\ Mine(T) \in Seq(1..Len(log)) /\ Increasing(Mine(T))
         /\ Range(Mine(T)) = {a \in Range(validated) : log[a] \in T}
<1> DEFINE X == {a \in Range(validated) : log[a] \in T}
<1>1. validated \in Seq(1..Len(log)) /\ 1..Len(log) \subseteq Nat
  BY FlowFacts DEF FlowTypes
<1>2. Mine(T) = Only(validated, X)
  BY DEF Mine
<1>3. Range(validated) \cap X = X
  OBVIOUS
<1> HIDE DEF X
<1>4. Only(validated, X) \in Seq(1..Len(log)) /\ Range(Only(validated, X)) = Range(validated) \cap X
  BY <1>1, OnlyFilters
<1>5. Increasing(Only(validated, X))
  BY <1>1, OnlyIncreases
<1> QED
  BY <1>2, <1>3, <1>4, <1>5 DEF X

(* What every handler does: s runs, and handles the validated actions of   *)
(* the types T, which are those it is the handler of.                      *)
LEMMA HandlerFlow ==
  ASSUME FlowInv, NEW s \in {"Hover", "Move", "Transmit"}, NEW T,
         s \in pending, "Validator" \notin pending, pending' = pending \ {s},
         \A u : u \in T <=> HasHandler(u) /\ handler_of(u) = s,
         handled' = [i \in DOMAIN handled |->
                       IF i \in {a \in Range(validated) : log[a] \in T}
                       THEN handled[i] + 1 ELSE handled[i]],
         UNCHANGED <<messages, queue, validated, rejected, log>>
  PROVE  Phases' /\ Fates' /\ Fresh' /\ Apart' /\ handled' \in [1..MaxActions -> Nat]
<1>1. FlowTypes
  BY DEF FlowInv
<1>2. /\ 1..Len(log) \subseteq 1..MaxActions /\ Range(validated) \subseteq 1..Len(log)
      /\ Len(log) \in Nat
  BY <1>1, FlowFacts
<1>3. handled \in [1..MaxActions -> Nat] /\ DOMAIN handled = 1..MaxActions
  BY <1>1 DEF FlowTypes
<1>4. handled' \in [1..MaxActions -> Nat]
  BY <1>3
<1>5. Range(validated) \cap Range(queue) = {}
  <2>1. \A a \in Range(validated), b \in Range(queue) : a < b
    BY DEF FlowInv, Ordered, Below
  <2> QED
    BY <1>2, <2>1
<1>6. Phases'
  BY DEF Phases
<1>7. Apart'
  BY DEF FlowInv, Apart
<1>8. Fresh'
  <2>1. \A i \in 1..MaxActions : i > Len(log) => i \notin Range(validated)
    BY <1>2
  <2> QED
    BY <1>3, <2>1 DEF FlowInv, Fresh
<1>9. Fates'
  <2> SUFFICES ASSUME NEW i \in 1..Len(log)
               PROVE  handled'[i] = IF i \in Range(queue) \cup rejected \/ ~HasHandler(log[i])
                                       \/ (i \in Range(validated) /\ handler_of(log[i]) \in pending')
                                    THEN 0 ELSE 1
    BY DEF Fates, Due, HasHandler
  <2>1. handled[i] = IF i \in Range(queue) \cup rejected \/ ~HasHandler(log[i])
                        \/ (i \in Range(validated) /\ handler_of(log[i]) \in pending)
                     THEN 0 ELSE 1
    BY DEF FlowInv, Fates, Due
  <2>2. handled'[i] = IF i \in Range(validated) /\ log[i] \in T THEN handled[i] + 1 ELSE handled[i]
    BY <1>2, <1>3
  <2>3. CASE i \in Range(validated) /\ log[i] \in T
    <3>1. HasHandler(log[i]) /\ handler_of(log[i]) = s
      BY <2>3
    <3>2. i \notin Range(queue) \cup rejected
      BY <1>5, <2>3 DEF FlowInv, Apart
    <3>3. handled[i] = 0 /\ handler_of(log[i]) \notin pending'
      BY <2>1, <2>3, <3>1
    <3> QED
      BY <2>2, <2>3, <3>1, <3>2, <3>3
  <2>4. CASE ~(i \in Range(validated) /\ log[i] \in T)
    <3>1. HasHandler(log[i]) /\ i \in Range(validated) => handler_of(log[i]) # s
      BY <2>4
    <3> QED
      BY <2>1, <2>2, <2>4, <3>1
  <2> QED
    BY <2>3, <2>4
<1> QED
  BY <1>4, <1>6, <1>7, <1>8, <1>9

LEMMA HoverFlow ==
  ASSUME FlowInv, HoverActionHandler
  PROVE  FlowInv'
<1> DEFINE T == {"IDLE", "HOVER"}
<1>1. "Hover" \in pending /\ "Validator" \notin pending /\ pending' = pending \ {"Hover"}
  BY ValidatorFirst DEF HoverActionHandler, Ran
<1>2. UNCHANGED <<messages, queue, validated, rejected, log, velocity, sent>>
  BY DEF HoverActionHandler, queueVars
<1>3. \A u : u \in T <=> HasHandler(u) /\ handler_of(u) = "Hover"
  BY DEF HasHandler, handler_of
<1>4. Range(Mine(T)) = {a \in Range(validated) : log[a] \in T}
  BY MineIs DEF FlowInv, Ordered
<1>5. handled' = [i \in DOMAIN handled |->
                    IF i \in {a \in Range(validated) : log[a] \in T}
                    THEN handled[i] + 1 ELSE handled[i]]
  BY <1>4 DEF HoverActionHandler, Handle
<1> HIDE DEF T
<1>6. Phases' /\ Fates' /\ Fresh' /\ Apart' /\ handled' \in [1..MaxActions -> Nat]
  BY <1>1, <1>2, <1>3, <1>5, HandlerFlow
<1>7. FlowTypes'
  BY <1>1, <1>2, <1>6 DEF FlowInv, FlowTypes
<1>8. Ordered'
  BY <1>1, <1>2 DEF FlowInv, Ordered
<1> QED
  BY <1>6, <1>7, <1>8 DEF FlowInv

\* The last MOVE was accepted after the one whose velocity it replaces.
LEMMA MoveTakesLatest ==
  ASSUME FlowInv, MoveActionHandler
  PROVE  velocity' = velocity \/ (velocity' \in Range(validated) /\ log[velocity'] = "MOVE")
<1> DEFINE moves == Mine({"MOVE"})
<1>1. /\ moves \in Seq(1..Len(log))
      /\ Range(moves) = {a \in Range(validated) : log[a] \in {"MOVE"}}
  BY MineIs DEF FlowInv, Ordered
<1>2. velocity' = IF moves = <<>> THEN velocity ELSE Last(moves)
  BY DEF MoveActionHandler
<1> HIDE DEF moves
<1>3. moves # <<>> => Last(moves) \in Range(moves)
  <2> SUFFICES ASSUME moves # <<>> PROVE moves[Len(moves)] \in Range(moves)
    BY DEF Last
  <2>1. Len(moves) \in DOMAIN moves
    BY <1>1
  <2> QED
    BY <2>1 DEF Range
<1> QED
  BY <1>1, <1>2, <1>3

LEMMA MoveFlow ==
  ASSUME FlowInv, MoveActionHandler
  PROVE  FlowInv' /\ velocity' >= velocity
<1> DEFINE T == {"MOVE"}
<1>1. "Move" \in pending /\ "Validator" \notin pending /\ pending' = pending \ {"Move"}
  BY ValidatorFirst DEF MoveActionHandler, Ran
<1>2. UNCHANGED <<messages, queue, validated, rejected, log, sent>>
  BY DEF MoveActionHandler, queueVars
<1>3. \A u : u \in T <=> HasHandler(u) /\ handler_of(u) = "Move"
  BY DEF HasHandler, handler_of
<1>4. Range(Mine(T)) = {a \in Range(validated) : log[a] \in T}
  BY MineIs DEF FlowInv, Ordered
<1>5. handled' = [i \in DOMAIN handled |->
                    IF i \in {a \in Range(validated) : log[a] \in T}
                    THEN handled[i] + 1 ELSE handled[i]]
  BY <1>4 DEF MoveActionHandler, Handle
<1>6. velocity' = velocity \/ velocity' \in Range(validated)
  BY MoveTakesLatest
<1> HIDE DEF T
<1>7. Phases' /\ Fates' /\ Fresh' /\ Apart' /\ handled' \in [1..MaxActions -> Nat]
  BY <1>1, <1>2, <1>3, <1>5, HandlerFlow
<1>8. FlowTypes /\ Range(validated) \subseteq 1..Len(log) /\ Len(log) \in Nat /\ velocity \in Nat
  BY FlowFacts DEF FlowInv, FlowTypes
<1>9. velocity' \in 0..Len(log) /\ velocity' >= velocity
  <2>1. \A a \in Range(validated) : velocity < a /\ a \in 1..Len(log)
    BY <1>1, <1>8 DEF FlowInv, Ordered, Below
  <2> QED
    BY <1>6, <1>8, <2>1 DEF FlowTypes
<1>10. FlowTypes'
  BY <1>1, <1>2, <1>7, <1>8, <1>9 DEF FlowTypes
<1>11. Ordered'
  <2>1. Below(Range(validated) \cup Range(sent) \cup {velocity'}, Range(queue))
    BY <1>6 DEF FlowInv, Ordered, Below
  <2> QED
    BY <1>1, <1>2, <2>1 DEF FlowInv, Ordered
<1> QED
  BY <1>7, <1>9, <1>10, <1>11 DEF FlowInv

LEMMA TransmitFlow ==
  ASSUME FlowInv, TransmitActionHandler
  PROVE  FlowInv'
<1> DEFINE T == {"TRANSMIT"}
<1>1. "Transmit" \in pending /\ "Validator" \notin pending /\ pending' = pending \ {"Transmit"}
  BY ValidatorFirst DEF TransmitActionHandler, Ran
<1>2. UNCHANGED <<messages, queue, validated, rejected, log, velocity>>
  BY DEF TransmitActionHandler, queueVars
<1>3. FlowTypes /\ 1..Len(log) \subseteq Nat
  BY FlowFacts DEF FlowInv
<1>5. CASE messages
  <2>1. /\ Mine(T) \in Seq(1..Len(log)) /\ Increasing(Mine(T))
        /\ Range(Mine(T)) = {a \in Range(validated) : log[a] \in T}
    BY MineIs DEF FlowInv, Ordered
  <2>2. sent' = sent \o Mine(T)
    BY <1>5 DEF TransmitActionHandler
  <2>3. handled' = [i \in DOMAIN handled |->
                      IF i \in {a \in Range(validated) : log[a] \in T}
                      THEN handled[i] + 1 ELSE handled[i]]
    BY <1>5, <2>1 DEF TransmitActionHandler, Handle
  <2>4. \A u : u \in T <=> HasHandler(u) /\ handler_of(u) = "Transmit"
    BY <1>5 DEF HasHandler, handler_of
  <2> HIDE DEF T
  <2>5. Phases' /\ Fates' /\ Fresh' /\ Apart' /\ handled' \in [1..MaxActions -> Nat]
    BY <1>1, <1>2, <2>3, <2>4, HandlerFlow
  <2>6. sent \in Seq(1..Len(log)) /\ Increasing(sent)
    BY <1>3 DEF FlowTypes, FlowInv, Ordered
  <2>7. Below(Range(sent), Range(Mine(T)))
    BY <1>1, <2>1 DEF FlowInv, Ordered, Below
  <2>8. /\ sent \o Mine(T) \in Seq(1..Len(log)) /\ Increasing(sent \o Mine(T))
        /\ Range(sent \o Mine(T)) = Range(sent) \cup Range(Mine(T))
    <3> DEFINE m == Mine(T)
    <3>1. m \in Seq(1..Len(log)) /\ Increasing(m) /\ Below(Range(sent), Range(m))
      BY <2>1, <2>7
    <3> HIDE DEF m
    <3>2. /\ sent \o m \in Seq(1..Len(log)) /\ Increasing(sent \o m)
          /\ Range(sent \o m) = Range(sent) \cup Range(m)
      BY <1>3, <2>6, <3>1, IncreasingJoined
    <3> QED
      BY <3>2 DEF m
  <2>9. FlowTypes'
    BY <1>1, <1>2, <1>3, <2>2, <2>5, <2>8 DEF FlowTypes
  <2>10. Ordered'
    <3>1. Range(sent') = Range(sent) \cup Range(Mine(T)) /\ Range(Mine(T)) \subseteq Range(validated)
      BY <2>1, <2>2, <2>8
    <3>2. Below(Range(validated) \cup Range(sent') \cup {velocity}, Range(queue))
      BY <3>1 DEF FlowInv, Ordered, Below
    <3> QED
      BY <1>1, <1>2, <2>2, <2>8, <3>2 DEF FlowInv, Ordered
  <2> QED
    BY <2>5, <2>9, <2>10 DEF FlowInv
<1>6. CASE ~messages
  <2>1. UNCHANGED <<sent, handled>>
    BY <1>6 DEF TransmitActionHandler
  <2>2. FlowTypes'
    BY <1>1, <1>2, <1>3, <2>1 DEF FlowTypes
  <2>3. Phases' /\ Fresh' /\ Apart' /\ Ordered'
    BY <1>1, <1>2, <2>1 DEF FlowInv, Phases, Fresh, Apart, Ordered
  <2>4. Fates'
    <3>1. \A u : HasHandler(u) => handler_of(u) # "Transmit"
      BY <1>6 DEF HasHandler, handler_of
    <3>2. \A i \in 1..Len(log) : HasHandler(log[i]) => (Due(i)' <=> Due(i))
      BY <1>1, <1>2, <3>1 DEF Due
    <3>3. \A u : HasHandler(u)' <=> HasHandler(u)
      BY <1>2 DEF HasHandler
    <3> QED
      BY <1>2, <2>1, <3>2, <3>3 DEF FlowInv, Fates
  <2> QED
    BY <2>2, <2>3, <2>4 DEF FlowInv
<1> QED
  BY <1>5, <1>6
-----------------------------------------------------------------------------
(* The rest of TypeOK.                                                     *)
MonitorTypes ==
  /\ mask \in Mask /\ saved_mask \in Mask /\ configured \in Mask
  /\ health \in 0..MaxHealth /\ state \in {"NORMAL", "DEGRADED"}
  /\ in_degraded_state \in BOOLEAN /\ began_degraded \in BOOLEAN
  /\ fault_count \in 0..MaxFaults /\ last_fault_count \in 0..fault_count
  /\ repaired \in [health : 0..MaxHealth, charged : 0..last_fault_count]

Tallied == permission_rejections_total = Cardinality(rejected)

(* In a tick that began degraded, the validator finds the robot degraded,  *)
(* since the monitor comes after it, and lets no MOVE or TRANSMIT pass.    *)
Quiet ==
  began_degraded /\ ~Idle =>
    IF "Validator" \in pending THEN in_degraded_state
    ELSE \A a \in Range(validated) : log[a] \notin {"MOVE", "TRANSMIT"}

PipelineInv == FlowInv /\ Tallied /\ MonitorTypes /\ MaskFollowsState /\ FaultsCharged /\ Quiet

LEMMA MasksTyped == Restricted \in Mask /\ Permissive \in Mask /\ Masks \subseteq Mask
BY PipelineAssumption DEF Restricted, Permissive, Mask, Builtins

LEMMA BoundsTyped ==
  /\ MaxHealth \in Nat /\ degraded_threshold \in Nat /\ degraded_hysteresis \in Nat
  /\ decrement_per_fault \in Nat /\ MaxFaults \in Nat
BY PipelineAssumption

LEMMA PipelineStart == Init => PipelineInv
<1> SUFFICES ASSUME Init PROVE PipelineInv
  OBVIOUS
<1>1. FlowInv
  BY FlowStart
<1>2. Tallied
  BY FS_EmptySet DEF Init, Tallied
<1>3. MonitorTypes
  <2>1. health \in 0..MaxHealth /\ fault_count \in 0..MaxFaults /\ last_fault_count \in 0..fault_count
    BY BoundsTyped DEF Init
  <2>2. in_degraded_state \in BOOLEAN /\ began_degraded \in BOOLEAN
    BY DEF Init
  <2>3. /\ mask \in Mask /\ saved_mask \in Mask /\ configured \in Mask
        /\ state \in {"NORMAL", "DEGRADED"}
    BY MasksTyped DEF Init
  <2>4. repaired \in [health : 0..MaxHealth, charged : 0..last_fault_count]
    BY BoundsTyped DEF Init
  <2> QED
    BY <2>1, <2>2, <2>3, <2>4 DEF MonitorTypes
<1>4. MaskFollowsState /\ Quiet
  BY DEF Init, MaskFollowsState, Quiet
<1>5. FaultsCharged
  <2>1. repaired.health = MaxHealth /\ last_fault_count - repaired.charged = 0
    BY DEF Init
  <2>2. (last_fault_count - repaired.charged) * decrement_per_fault = 0
    BY <2>1, BoundsTyped
  <2> QED
    BY <2>1, <2>2, BoundsTyped DEF Init, FaultsCharged
<1> QED
  BY <1>1, <1>2, <1>3, <1>4, <1>5 DEF PipelineInv

\* The health that a tick's faults leave.
LEMMA HealthStays ==
  ASSUME MonitorTypes, FaultMonitorSystem
  PROVE  health' \in 0..MaxHealth
<1> DEFINE total_drop == (fault_count - last_fault_count) * decrement_per_fault
<1>1. health \in Nat /\ health <= MaxHealth /\ MaxHealth \in Nat
  BY BoundsTyped DEF MonitorTypes
<1>2. fault_count - last_fault_count \in Nat /\ decrement_per_fault \in Nat
  BY BoundsTyped DEF MonitorTypes
<1>3. total_drop \in Nat
  BY <1>2, SMTT(20)
<1>4. health' = IF total_drop >= health THEN 0 ELSE health - total_drop
  BY DEF FaultMonitorSystem
<1> HIDE DEF total_drop
<1> QED
  BY <1>1, <1>3, <1>4

\* Two charges are one of all their faults.
LEMMA ChargesAdd ==
  ASSUME NEW a \in Nat, NEW b \in Nat, NEW d \in Nat
  PROVE  a * d \in Nat /\ b * d \in Nat /\ (a + b) * d = a * d + b * d
BY SMTT(20)

LEMMA ChargeKeeps ==
  ASSUME MonitorTypes, FaultsCharged, FaultMonitorSystem
  PROVE  FaultsCharged'
<1> DEFINE a == last_fault_count - repaired.charged
           b == fault_count - last_fault_count
           d == decrement_per_fault
           before == a * d
           drop == b * d
<1>1. /\ fault_count \in Nat /\ last_fault_count \in 0..fault_count
      /\ repaired.health \in Nat /\ repaired.charged \in 0..last_fault_count
      /\ health \in Nat /\ d \in Nat
  BY BoundsTyped DEF MonitorTypes
<1>2. a \in Nat /\ b \in Nat /\ fault_count - repaired.charged = a + b
  BY <1>1
<1>3. before \in Nat /\ drop \in Nat /\ (fault_count - repaired.charged) * d = before + drop
  <2> HIDE DEF a, b, d
  <2> QED
    BY <1>1, <1>2, ChargesAdd
<1>4. health = IF before >= repaired.health THEN 0 ELSE repaired.health - before
  BY DEF FaultsCharged
<1>5. /\ health' = IF drop >= health THEN 0 ELSE health - drop
      /\ last_fault_count' = fault_count /\ repaired' = repaired
  BY DEF FaultMonitorSystem, setVars
<1> HIDE DEF a, b, before, drop
<1>6. health' = IF before + drop >= repaired.health THEN 0 ELSE repaired.health - (before + drop)
  BY <1>1, <1>3, <1>4, <1>5
<1> QED
  BY <1>3, <1>5, <1>6 DEF FaultsCharged

\* The monitor's transitions keep mask, state and flag together.
LEMMA DegradeKeeps ==
  ASSUME MonitorTypes, MaskFollowsState, NEW h, degrade(h), configured' = configured
  PROVE  /\ MaskFollowsState' /\ mask' \in Mask /\ saved_mask' \in Mask
         /\ state' \in {"NORMAL", "DEGRADED"} /\ in_degraded_state' \in BOOLEAN
<1>1. CASE ~in_degraded_state /\ h < degraded_threshold
  BY <1>1, MasksTyped DEF degrade, MonitorTypes, MaskFollowsState
<1>2. CASE ~(~in_degraded_state /\ h < degraded_threshold)
  <2>1. CASE in_degraded_state /\ h >= degraded_threshold + degraded_hysteresis
    BY <1>2, <2>1 DEF degrade, MonitorTypes, MaskFollowsState
  <2>2. CASE ~(in_degraded_state /\ h >= degraded_threshold + degraded_hysteresis)
    BY <1>2, <2>2 DEF degrade, MonitorTypes, MaskFollowsState
  <2> QED
    BY <2>1, <2>2
<1> QED
  BY <1>1, <1>2

LEMMA MonitorKeeps ==
  ASSUME PipelineInv, FaultMonitorSystem
  PROVE  PipelineInv'
<1>1. "Monitor" \in pending /\ "Validator" \notin pending /\ pending' = pending \ {"Monitor"}
  BY ValidatorFirst DEF FaultMonitorSystem, Ran
<1>2. /\ UNCHANGED <<messages, queue, validated, rejected, permission_rejections_total, velocity,
                     sent, log, handled, fault_count, configured, repaired, began_degraded>>
      /\ last_fault_count' = fault_count /\ degrade(health')
  BY DEF FaultMonitorSystem, queueVars, outVars, setVars
<1>3. FlowInv'
  <2>1. \A u : handler_of(u) # "Monitor"
    BY DEF handler_of
  <2>2. FlowTypes' /\ Phases' /\ Fresh' /\ Apart'
    BY <1>1, <1>2 DEF PipelineInv, FlowInv, FlowTypes, Phases, Fresh, Apart, Idle
  <2>3. \A i : Due(i)' <=> Due(i)
    BY <1>1, <1>2, <2>1 DEF Due
  <2>4. Fates'
    BY <1>2, <2>3 DEF PipelineInv, FlowInv, Fates, HasHandler
  <2>5. Ordered'
    BY <1>1, <1>2 DEF PipelineInv, FlowInv, Ordered
  <2> QED
    BY <2>2, <2>4, <2>5 DEF FlowInv
<1>4. Tallied'
  BY <1>2 DEF PipelineInv, Tallied
<1>5. /\ MaskFollowsState' /\ mask' \in Mask /\ saved_mask' \in Mask
      /\ state' \in {"NORMAL", "DEGRADED"} /\ in_degraded_state' \in BOOLEAN
  BY <1>2, DegradeKeeps DEF PipelineInv
<1>6. MonitorTypes'
  <2>1. health' \in 0..MaxHealth
    BY HealthStays DEF PipelineInv
  <2>2. /\ last_fault_count' \in 0..fault_count
        /\ repaired \in [health : 0..MaxHealth, charged : 0..fault_count]
    BY <1>2, BoundsTyped DEF PipelineInv, MonitorTypes
  <2> QED
    BY <1>2, <1>5, <2>1, <2>2 DEF PipelineInv, MonitorTypes
<1>7. Quiet'
  BY <1>1, <1>2 DEF PipelineInv, Quiet, Idle
<1>8. FaultsCharged'
  BY ChargeKeeps DEF PipelineInv
<1> QED
  BY <1>3, <1>4, <1>5, <1>6, <1>7, <1>8 DEF PipelineInv

LEMMA ValidatorKeeps ==
  ASSUME PipelineInv, ActionValidatorSystem
  PROVE  PipelineInv'
<1> DEFINE allowed == {a \in Range(queue) : allows(mask, log[a])}
           no == Range(queue) \ allowed
<1>1. FlowInv' /\ FlowTypes
  BY ValidatorFlow DEF PipelineInv, FlowInv
<1>2. /\ "Validator" \in pending /\ pending' = pending \ {"Validator"}
      /\ Range(validated') = allowed /\ rejected' = rejected \cup no
      /\ permission_rejections_total' = permission_rejections_total + Cardinality(no)
  BY <1>1, ValidatorDoes
<1>3. UNCHANGED <<log, mask, health, state, in_degraded_state, saved_mask, last_fault_count,
                  fault_count, configured, repaired, began_degraded>>
  BY DEF ActionValidatorSystem, monitorVars, setVars
<1>4. Tallied'
  <2>1. IsFiniteSet(1..Len(log))
    BY <1>1, FlowFacts, FS_Interval
  <2>2. IsFiniteSet(rejected) /\ IsFiniteSet(no)
    BY <1>1, <2>1, FlowFacts, FS_Subset DEF FlowTypes
  <2>3. rejected \cap no = {}
    BY DEF PipelineInv, FlowInv, Apart
  <2> HIDE DEF no
  <2>4. Cardinality(rejected \cup no) =
          Cardinality(rejected) + Cardinality(no) - Cardinality(rejected \cap no)
    BY <2>2, FS_Union
  <2>5. Cardinality(rejected) \in Nat /\ Cardinality(no) \in Nat /\ Cardinality(rejected \cap no) = 0
    BY <2>2, <2>3, FS_EmptySet, FS_CardinalityType
  <2> QED
    BY <1>2, <2>4, <2>5 DEF PipelineInv, Tallied
<1>5. MonitorTypes' /\ MaskFollowsState' /\ FaultsCharged'
  BY <1>3 DEF PipelineInv, MonitorTypes, MaskFollowsState, FaultsCharged
<1>6. Quiet'
  <2> SUFFICES ASSUME began_degraded, NEW a \in Range(validated') PROVE log[a] \notin {"MOVE", "TRANSMIT"}
    BY <1>2, <1>3 DEF Quiet
  <2>1. in_degraded_state
    BY <1>2 DEF PipelineInv, Quiet, Idle
  <2>2. mask = Restricted
    BY <2>1 DEF PipelineInv, MaskFollowsState
  <2>3. allows(mask, log[a])
    BY <1>2
  <2> QED
    BY <2>2, <2>3 DEF allows, Restricted
<1> QED
  BY <1>1, <1>4, <1>5, <1>6 DEF PipelineInv

\* The handlers touch nothing of the monitor's.
LEMMA HandlersKeep ==
  ASSUME PipelineInv, HoverActionHandler \/ MoveActionHandler \/ TransmitActionHandler
  PROVE  PipelineInv'
<1>1. FlowInv'
  BY HoverFlow, MoveFlow, TransmitFlow DEF PipelineInv
<1>2. UNCHANGED <<queue, validated, permission_rejections_total, rejected, log, mask, health, state,
                  in_degraded_state, saved_mask, last_fault_count, fault_count, configured, repaired,
                  began_degraded>>
  BY DEF HoverActionHandler, MoveActionHandler, TransmitActionHandler, queueVars, monitorVars, setVars
<1>3. "Validator" \notin pending /\ pending # {} /\ pending' \subseteq pending
  BY ValidatorFirst DEF HoverActionHandler, MoveActionHandler, TransmitActionHandler, Ran
<1>4. Tallied' /\ MonitorTypes' /\ MaskFollowsState' /\ FaultsCharged'
  BY <1>2 DEF PipelineInv, Tallied, MonitorTypes, MaskFollowsState, FaultsCharged
<1>5. Quiet'
  BY <1>2, <1>3 DEF PipelineInv, Quiet, Idle
<1> QED
  BY <1>1, <1>4, <1>5 DEF PipelineInv

\* What the application does between ticks, the faults and the tick itself.
LEMMA OutsideKeeps ==
  ASSUME PipelineInv,
         \/ \E t \in Type : push(t)
         \/ \E m \in Masks : set_mask(m)
         \/ \E h \in 0..MaxHealth : set_health(h)
         \/ report_fault \/ tick
  PROVE  PipelineInv'
<1>1. ASSUME NEW t \in Type, push(t) PROVE PipelineInv'
  <2>1. FlowInv'
    BY <1>1, PushFlow DEF PipelineInv
  <2>2. UNCHANGED <<pending, validated, permission_rejections_total, rejected, mask, health, state,
                    in_degraded_state, saved_mask, last_fault_count, fault_count, configured, repaired,
                    began_degraded>>
    BY <1>1 DEF push, monitorVars, setVars
  <2>3. \A a \in Range(validated) : log'[a] = log[a]
    <3>1. log \in Seq(Type) /\ log' = Append(log, t) /\ Range(validated) \subseteq 1..Len(log)
      BY <1>1, FlowFacts DEF PipelineInv, FlowInv, FlowTypes, push
    <3> QED
      BY <3>1, OneAppended
  <2>4. Quiet'
    BY <2>2, <2>3 DEF PipelineInv, Quiet, Idle
  <2> QED
    BY <2>1, <2>2, <2>4 DEF PipelineInv, Tallied, MonitorTypes, MaskFollowsState, FaultsCharged
<1>2. ASSUME NEW m \in Masks, set_mask(m) PROVE PipelineInv'
  <2>1. UNCHANGED flowVars
    BY <1>2 DEF set_mask, flowVars, queueVars, outVars
  <2>2. FlowInv'
    BY <2>1, FlowFramed DEF PipelineInv
  <2>3. /\ mask' = m /\ configured' = m /\ Idle /\ ~in_degraded_state
        /\ UNCHANGED <<pending, permission_rejections_total, rejected, health, state, in_degraded_state,
                       saved_mask, last_fault_count, fault_count, repaired, began_degraded>>
    BY <1>2 DEF set_mask, queueVars
  <2>4. MonitorTypes' /\ MaskFollowsState' /\ FaultsCharged'
    BY <2>3, MasksTyped DEF PipelineInv, MonitorTypes, MaskFollowsState, FaultsCharged
  <2> QED
    BY <2>2, <2>3, <2>4 DEF PipelineInv, Tallied, Quiet, Idle
<1>3. ASSUME NEW h \in 0..MaxHealth, set_health(h) PROVE PipelineInv'
  <2>1. UNCHANGED flowVars
    BY <1>3 DEF set_health, flowVars, queueVars, outVars
  <2>2. FlowInv'
    BY <2>1, FlowFramed DEF PipelineInv
  <2>3. /\ health' = h /\ Idle /\ repaired' = [health |-> h, charged |-> last_fault_count]
        /\ UNCHANGED <<pending, permission_rejections_total, rejected, mask, state, in_degraded_state,
                       saved_mask, last_fault_count, fault_count, configured, began_degraded>>
    BY <1>3 DEF set_health, queueVars
  <2>4. MonitorTypes' /\ MaskFollowsState'
    BY <2>3, BoundsTyped DEF PipelineInv, MonitorTypes, MaskFollowsState
  <2>5. FaultsCharged'
    <3>1. last_fault_count \in Nat /\ h \in Nat
      BY BoundsTyped DEF PipelineInv, MonitorTypes
    <3>2. (last_fault_count - last_fault_count) * decrement_per_fault = 0
      BY <3>1, BoundsTyped
    <3> QED
      BY <2>3, <3>1, <3>2 DEF FaultsCharged
  <2> QED
    BY <2>2, <2>3, <2>4, <2>5 DEF PipelineInv, Tallied, Quiet, Idle
<1>4. ASSUME report_fault PROVE PipelineInv'
  <2>1. UNCHANGED flowVars
    BY <1>4 DEF report_fault, flowVars, queueVars, outVars
  <2>2. FlowInv'
    BY <2>1, FlowFramed DEF PipelineInv
  <2>3. /\ fault_count < MaxFaults /\ fault_count' = fault_count + 1
        /\ UNCHANGED <<pending, validated, log, permission_rejections_total, rejected, mask, health, state,
                       in_degraded_state, saved_mask, last_fault_count, configured, repaired,
                       began_degraded>>
    BY <1>4 DEF report_fault, queueVars, monitorVars, setVars
  <2>4. fault_count' \in 0..MaxFaults /\ last_fault_count \in 0..fault_count'
    BY <2>3, BoundsTyped DEF PipelineInv, MonitorTypes
  <2>5. MonitorTypes' /\ MaskFollowsState' /\ FaultsCharged'
    BY <2>3, <2>4 DEF PipelineInv, MonitorTypes, MaskFollowsState, FaultsCharged
  <2> QED
    BY <2>2, <2>3, <2>5 DEF PipelineInv, Tallied, Quiet, Idle
<1>5. ASSUME tick PROVE PipelineInv'
  <2>1. FlowInv'
    BY <1>5, TickFlow DEF PipelineInv
  <2>2. /\ pending' = System /\ began_degraded' = in_degraded_state
        /\ UNCHANGED <<permission_rejections_total, rejected, mask, health, state, in_degraded_state,
                       saved_mask, last_fault_count, fault_count, configured, repaired>>
    BY <1>5 DEF tick, queueVars, monitorVars, setVars
  <2>3. Tallied' /\ MonitorTypes' /\ MaskFollowsState' /\ FaultsCharged'
    BY <2>2 DEF PipelineInv, Tallied, MonitorTypes, MaskFollowsState, FaultsCharged
  <2>4. Quiet'
    BY <2>2, SystemsNamed DEF Quiet
  <2> QED
    BY <2>1, <2>3, <2>4 DEF PipelineInv
<1> QED
  BY <1>1, <1>2, <1>3, <1>4, <1>5

LEMMA PipelineStep == PipelineInv /\ [Next]_vars => PipelineInv'
<1> SUFFICES ASSUME PipelineInv, [Next]_vars PROVE PipelineInv'
  OBVIOUS
<1>1. CASE UNCHANGED vars
  <2>1. FlowInv'
    BY <1>1, FlowFramed DEF PipelineInv, vars, flowVars, queueVars, outVars
  <2> QED
    BY <1>1, <2>1 DEF vars, queueVars, monitorVars, setVars, PipelineInv, Tallied, MonitorTypes,
                      MaskFollowsState, FaultsCharged, Quiet, Idle
<1> QED
  BY <1>1, OutsideKeeps, ValidatorKeeps, MonitorKeeps, HandlersKeep DEF Next, Systems

(* The inductive invariant: where each action is in its tick, in which     *)
(* order, and what the monitor holds.                                      *)
THEOREM PipelineInvariant == Spec => []PipelineInv
<1>1. Init => PipelineInv
  BY PipelineStart
<1>2. PipelineInv /\ [Next]_vars => PipelineInv'
  BY PipelineStep
<1> QED
  BY <1>1, <1>2, PTL DEF Spec

\* Every variable of the pipeline keeps its type; the queue and the validated
\* buffer stay within their capacity, and the rejections are counted.
THEOREM PipelineTypeOK == Spec => []TypeOK
<1>1. PipelineInv => TypeOK
  BY DEF PipelineInv, FlowInv, FlowTypes, MonitorTypes, Tallied, TypeOK
<1> QED
  BY <1>1, PipelineInvariant, PTL

\* Between ticks every accepted action is queued, rejected, or was handled
\* exactly once if it has a handler.
THEOREM PipelineOneFate == Spec => []OneFate
<1>1. PipelineInv => OneFate
  BY DEF PipelineInv, FlowInv, Fates, Due, OneFate, Idle
<1> QED
  BY <1>1, PipelineInvariant, PTL

\* FaultMonitorSystem's flag, the mask in force and the behaviour state agree,
\* and the mask it brings back is the application's.
THEOREM PipelineMaskFollowsState == Spec => []MaskFollowsState
<1>1. PipelineInv => MaskFollowsState
  BY DEF PipelineInv
<1> QED
  BY <1>1, PipelineInvariant, PTL

\* Health is what the application last set, less what the faults counted since
\* cost, each charged once, for any number of faults and any decrement.
THEOREM PipelineFaultsCharged == Spec => []FaultsCharged
<1>1. PipelineInv => FaultsCharged
  BY DEF PipelineInv
<1> QED
  BY <1>1, PipelineInvariant, PTL

\* In a tick through which the robot is degraded no handler moves it or sends.
LEMMA DegradedIsStill ==
  ASSUME PipelineInv, Next, began_degraded, ~Idle
  PROVE  velocity' = velocity /\ sent' = sent
<1>1. CASE MoveActionHandler
  <2>1. "Validator" \notin pending /\ sent' = sent
    BY <1>1, ValidatorFirst DEF MoveActionHandler
  <2>2. \A a \in Range(validated) : log[a] # "MOVE"
    BY <2>1 DEF PipelineInv, Quiet
  <2>3. velocity' = velocity \/ (velocity' \in Range(validated) /\ log[velocity'] = "MOVE")
    BY <1>1, MoveTakesLatest DEF PipelineInv
  <2> QED
    BY <2>1, <2>2, <2>3
<1>2. CASE TransmitActionHandler
  <2>1. "Validator" \notin pending /\ velocity' = velocity
    BY <1>2, ValidatorFirst DEF TransmitActionHandler
  <2>2. \A a \in Range(validated) : log[a] \notin {"TRANSMIT"}
    BY <2>1 DEF PipelineInv, Quiet
  <2> DEFINE m == Mine({"TRANSMIT"})
  <2>3. m \in Seq(1..Len(log)) /\ Range(m) = {a \in Range(validated) : log[a] \in {"TRANSMIT"}}
    BY MineIs DEF PipelineInv, FlowInv, Ordered
  <2>4. sent' = sent \/ sent' = sent \o m
    BY <1>2 DEF TransmitActionHandler
  <2> HIDE DEF m
  <2>5. Range(m) = {}
    BY <2>2, <2>3
  <2>6. m = <<>>
    BY <2>3, <2>5, RangeEmpty
  <2>7. sent \in Seq(1..Len(log))
    BY DEF PipelineInv, FlowInv, FlowTypes
  <2>8. sent \o <<>> = sent
    BY <2>7
  <2> QED
    BY <2>1, <2>4, <2>6, <2>8
<1>3. CASE ~MoveActionHandler /\ ~TransmitActionHandler
  BY <1>3 DEF Next, Systems, push, set_mask, set_health, report_fault, tick, ActionValidatorSystem,
              FaultMonitorSystem, HoverActionHandler, outVars
<1> QED
  BY <1>1, <1>2, <1>3

\* Degraded mode keeps back moves and messages as long as it lasts, and refuses
\* nothing the application's mask allows when it does not (ActionValidatorSystem
\* with the mask FaultMonitorSystem writes), up to the tick of the transition.
THEOREM PipelineMaskHonoured == Spec => MaskHonoured
<1> DEFINE Honoured ==
      /\ ~Idle /\ began_degraded /\ in_degraded_state => velocity' = velocity /\ sent' = sent
      /\ ~Idle /\ ~began_degraded /\ ~in_degraded_state =>
           \A a \in rejected' \ rejected : ~allows(configured, log[a])
<1>1. PipelineInv /\ [Next]_vars => [Honoured]_vars
  <2> SUFFICES ASSUME PipelineInv, Next PROVE Honoured
    OBVIOUS
  <2>1. ASSUME ~in_degraded_state, NEW a \in rejected' \ rejected
        PROVE  ~allows(configured, log[a])
    <3>1. ActionValidatorSystem
      BY <2>1 DEF Next, Systems, push, set_mask, set_health, report_fault, tick, FaultMonitorSystem,
                  HoverActionHandler, MoveActionHandler, TransmitActionHandler, queueVars
    <3>2. rejected' = rejected \cup (Range(queue) \ {b \in Range(queue) : allows(mask, log[b])})
      BY <3>1, ValidatorDoes DEF PipelineInv, FlowInv
    <3>3. mask = configured
      BY <2>1 DEF PipelineInv, MaskFollowsState
    <3> QED
      BY <2>1, <3>2, <3>3
  <2> QED
    BY <2>1, DegradedIsStill
<1> QED
  BY <1>1, PipelineInvariant, PTL DEF Spec, MaskHonoured

\* Moves take effect, and messages leave, in the order in which their actions
\* were accepted.
THEOREM PipelineInOrder == Spec => InOrder
<1> DEFINE Forth == /\ velocity' >= velocity
                    /\ \A k, l \in 1..Len(sent') : k < l => sent'[k] < sent'[l]
<1>1. PipelineInv /\ [Next]_vars => [Forth]_vars
  <2> SUFFICES ASSUME PipelineInv, Next PROVE Forth
    OBVIOUS
  <2>1. PipelineInv'
    BY PipelineStep
  <2>2. \A k, l \in 1..Len(sent') : k < l => sent'[k] < sent'[l]
    <3>1. Increasing(sent') /\ sent' \in Seq(1..Len(log'))
      BY <2>1 DEF PipelineInv, FlowInv, FlowTypes, Ordered
    <3>2. DOMAIN sent' = 1..Len(sent')
      BY <3>1
    <3> QED
      BY <3>1, <3>2 DEF Increasing
  <2>3. velocity' >= velocity
    <3>1. velocity \in Nat
      BY DEF PipelineInv, FlowInv, FlowTypes
    <3>2. CASE MoveActionHandler
      BY <3>2, MoveFlow DEF PipelineInv
    <3>3. CASE ~MoveActionHandler
      <4>1. velocity' = velocity
        BY <3>3 DEF Next, Systems, push, set_mask, set_health, report_fault, tick, ActionValidatorSystem,
                    FaultMonitorSystem, HoverActionHandler, TransmitActionHandler, outVars
      <4> QED
        BY <3>1, <4>1
    <3> QED
      BY <3>2, <3>3
  <2> QED
    BY <2>2, <2>3
<1> QED
  BY <1>1, PipelineInvariant, PTL DEF Spec, InOrder
=============================================================================
