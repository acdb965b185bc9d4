-------------------------- MODULE SchedulerProofs --------------------------
(* Proofs about Scheduler, for any number of systems, workers and ticks.   *)
EXTENDS Scheduler, FiniteSetTheorems, FunctionTheorems, TLAPS

Typed == TypeOK /\ HandInv

\* Sets of systems are finite, and what build_hazard_graph_ counts are numbers.
LEMMA FiniteSystems ==
  \A S \in SUBSET System : IsFiniteSet(S) /\ Cardinality(S) \in Nat
BY SchedulerAssumption, FS_Subset, FS_CardinalityType

\* The registered systems are systems.
LEMMA RegisteredType == ASSUME TypeOK PROVE Registered \subseteq System
BY DEF TypeOK, Registered

\* What dispatch does keeps the queue and the workers' counters typed.
LEMMA DispatchType ==
  ASSUME TypeOK, NEW i \in System,
         NEW f \in [Worker -> WorkerPc],
         dispatch(i, f)
  PROVE  /\ tasks' \in Seq(Task)
         /\ pc' \in [Worker -> WorkerPc]
         /\ \A w \in Worker : pc'[w] \in TaskPc => pc'[w] = f[w]
<1>1. [sys |-> i, tick |-> ticks] \in Task
  BY DEF TypeOK, Task
<1>2. tasks' \in Seq(Task)
  BY <1>1 DEF dispatch, TypeOK
<1>3. CASE pc' = f
  BY <1>2, <1>3
<1>4. CASE \E v \in Worker : pc' = [f EXCEPT ![v] = "check"]
  BY <1>2, <1>4 DEF TaskPc, WorkerPc
<1> QED BY <1>3, <1>4 DEF dispatch, notify_one

\* A scheduler just constructed is typed.
LEMMA TypedInit == Init => Typed
<1> SUFFICES ASSUME Init PROVE TypeOK /\ HandInv
  BY DEF Typed
<1>0. systems \in Seq(System) /\ tasks \in Seq(Task)
  BY DEF Init
<1>1. /\ mode \in {Parallel, Sequential}
      /\ built \in BOOLEAN /\ order \in SUBSET System
      /\ dependents \in [System -> SUBSET System]
      /\ in_degree_initial \in [System -> Nat]
      /\ mainPc \in InTick \cup {"idle", "seq", "aborted", "joining", "gone"}
  BY DEF Init, InTick
<1>2. /\ ticks \in Nat /\ cursor \in Nat \ {0} /\ left \in SUBSET System
      /\ in_degree \in [System -> Int] /\ completed \in Nat /\ events \in Nat
  BY DEF Init
<1>3. /\ pc \in [Worker -> WorkerPc]
      /\ job \in [Worker -> System \cup {NoSystem}]
      /\ sub \in [Worker -> System \cup {NoSystem}]
      /\ born \in [Worker -> Nat] /\ todo \in [Worker -> SUBSET System]
  BY DEF Init, WorkerPc
<1>4. runs \in [System -> Nat] /\ stop \in BOOLEAN /\ orderly \in BOOLEAN /\ ub \in BOOLEAN
  BY DEF Init
<1>5. HandInv BY DEF Init, HandInv, TaskPc
<1> QED BY <1>0, <1>1, <1>2, <1>3, <1>4, <1>5 DEF TypeOK

\* The caller's calls.
LEMMA TypedCaller == Typed /\ Caller => Typed'
<1> SUFFICES ASSUME TypeOK, HandInv, Caller PROVE TypeOK' /\ HandInv'
  BY DEF Typed
<1> USE DEF TypeOK, HandInv
<1>1. ASSUME NEW s \in System, register_system(s) PROVE TypeOK' /\ HandInv'
  <2>1. systems' \in Seq(System) BY <1>1 DEF register_system
  <2>2. TypeOK' BY <1>1, <2>1 DEF register_system, workerVars
  <2>3. HandInv' BY <1>1 DEF register_system, workerVars
  <2> QED BY <2>2, <2>3
<1>2. ASSUME build_graph PROVE TypeOK' /\ HandInv'
  <2>1. \A s \in System : /\ Succs(Registered, s) \in SUBSET System
                          /\ Cardinality(Preds(Registered, s)) \in Nat
    BY RegisteredType, FiniteSystems DEF Succs, Preds
  <2>2. dependents' \in [System -> SUBSET System] /\ in_degree_initial' \in [System -> Nat]
    <3>1. CASE mode = Parallel
      <4>1. build_hazard_graph BY <1>2, <3>1 DEF build_graph
      <4>2. dependents' \in [System -> SUBSET System]
        BY <2>1, <4>1 DEF build_hazard_graph
      <4>3. in_degree_initial' \in [System -> Nat]
        BY <2>1, <4>1 DEF build_hazard_graph
      <4> QED BY <4>2, <4>3
    <3>2. CASE mode # Parallel
      BY <1>2, <3>2 DEF build_graph
    <3> QED BY <3>1, <3>2
  <2>3. /\ order' \in SUBSET System /\ built' \in BOOLEAN
        /\ systems' = systems /\ mode' = mode
        /\ pc' \in [Worker -> WorkerPc] /\ \A w \in Worker : pc'[w] \in TaskPc => pc'[w] = pc[w]
    BY <1>2, RegisteredType DEF build_graph, TaskPc, WorkerPc
  <2>4. UNCHANGED <<mainPc, ticks, cursor, left, in_degree, completed, events, tasks, stop,
                    workerVars, runs, orderly, ub>>
    BY <1>2 DEF build_graph
  <2>5. TypeOK' BY <2>2, <2>3, <2>4 DEF workerVars
  <2>6. HandInv' BY <2>3, <2>4 DEF workerVars, TaskPc
  <2> QED BY <2>5, <2>6
<1>3. ASSUME tick_unbuilt PROVE TypeOK' /\ HandInv'
  BY <1>3 DEF tick_unbuilt, workerVars, callerVars
<1>4. ASSUME tick_sequential PROVE TypeOK' /\ HandInv'
  BY <1>4 DEF tick_sequential, StartTick, workerVars, callerVars
<1>5. ASSUME tick_parallel PROVE TypeOK' /\ HandInv'
  <2>1. CASE systems = <<>>
    BY <1>5, <2>1 DEF tick_parallel, StartTick, workerVars, callerVars
  <2>2. CASE systems # <<>>
    <3>1. in_degree' \in [System -> Int] BY <1>5, <2>2 DEF tick_parallel
    <3>2. orderly' \in BOOLEAN BY <1>5, <2>2, Zenon DEF tick_parallel
    <3>3. TypeOK'
      BY <1>5, <2>2, <3>1, <3>2 DEF tick_parallel, StartTick, workerVars, callerVars, InTick
    <3>4. HandInv'
      BY <1>5, <2>2 DEF tick_parallel, StartTick, workerVars, callerVars
    <3> QED BY <3>3, <3>4
  <2> QED BY <2>1, <2>2
<1>6. ASSUME destroy PROVE TypeOK' /\ HandInv'
  BY <1>6 DEF destroy, workerVars, callerVars, TaskPc, WorkerPc
<1> QED BY <1>1, <1>2, <1>3, <1>4, <1>5, <1>6 DEF Caller

\* The caller inside tick() and inside the destructor.
LEMMA TypedMain == Typed /\ Main => Typed'
<1> SUFFICES ASSUME TypeOK, HandInv, Main PROVE TypeOK' /\ HandInv'
  BY DEF Typed
<1> USE DEF TypeOK, HandInv
<1>1. ASSUME seq_step PROVE TypeOK' /\ HandInv'
  BY <1>1 DEF seq_step, workerVars, callerVars
<1>2. ASSUME seed PROVE TypeOK' /\ HandInv'
  <2>1. CASE cursor <= Len(systems) /\ in_degree[systems[cursor]] = 0
    <3>1. dispatch(systems[cursor], pc) BY <1>2, <2>1 DEF seed
    <3>2. systems[cursor] \in System BY <2>1
    <3>3. /\ tasks' \in Seq(Task)
          /\ pc' \in [Worker -> WorkerPc]
          /\ \A w \in Worker : pc'[w] \in TaskPc => pc'[w] = pc[w]
      BY <3>1, <3>2, DispatchType
    <3>4. /\ cursor' \in Nat \ {0}
          /\ UNCHANGED <<callerVars, mainPc, ticks, left, in_degree, completed, events,
                         stop, workerVars, runs, orderly, ub>>
      BY <1>2, <2>1 DEF seed
    <3>5. TypeOK'
      <4> HIDE DEF HandInv
      <4> QED BY <3>3, <3>4 DEF workerVars, callerVars
    <3>6. HandInv' BY <3>3, <3>4 DEF workerVars, TaskPc
    <3> QED BY <3>5, <3>6
  <2>2. CASE ~(cursor <= Len(systems) /\ in_degree[systems[cursor]] = 0)
    <3>1. /\ mainPc' \in {"seed", "wait"} /\ cursor' \in Nat \ {0}
          /\ UNCHANGED <<callerVars, ticks, left, in_degree, completed, events, tasks,
                         stop, pc, workerVars, runs, orderly, ub>>
      <4> HIDE DEF HandInv
      <4> QED BY <1>2, <2>2 DEF seed
    <3>2. TypeOK'
      <4> HIDE DEF HandInv
      <4> QED BY <3>1 DEF workerVars, callerVars, InTick
    <3>3. HandInv' BY <3>1 DEF workerVars
    <3> QED BY <3>2, <3>3
  <2> QED BY <2>1, <2>2
<1>3. ASSUME wait_done PROVE TypeOK' /\ HandInv'
  BY <1>3 DEF wait_done, workerVars, callerVars, InTick
<1>4. ASSUME join PROVE TypeOK' /\ HandInv'
  BY <1>4 DEF join, workerVars, callerVars
<1> QED BY <1>1, <1>2, <1>3, <1>4 DEF Main

\* The workers.
LEMMA TypedWorker ==
  ASSUME NEW w \in Worker PROVE Typed /\ (WorkerStep(w) \/ hang(w)) => Typed'
<1> SUFFICES ASSUME TypeOK, HandInv, WorkerStep(w) \/ hang(w) PROVE TypeOK' /\ HandInv'
  BY DEF Typed
<1> USE DEF TypeOK, HandInv, WorkerPc, TaskPc
<1>0. ASSUME NEW t, Touch(t) PROVE ub' \in BOOLEAN
  BY <1>0 DEF Touch
<1>1. ASSUME worker_check(w) PROVE TypeOK' /\ HandInv'
  <2>1. CASE tasks # <<>>
    <3>1. Head(tasks) \in Task /\ Tail(tasks) \in Seq(Task)
      BY <2>1
    <3>6. Head(tasks).sys \in System /\ Head(tasks).tick \in Nat
      BY <3>1 DEF Task
    <3>2. ub' \in BOOLEAN BY <1>0, <1>1, <2>1 DEF worker_check
    <3>3. /\ pc' = [pc EXCEPT ![w] = "run"]
          /\ job' = [job EXCEPT ![w] = Head(tasks).sys]
          /\ born' = [born EXCEPT ![w] = Head(tasks).tick]
          /\ runs' = [runs EXCEPT ![Head(tasks).sys] = @ + 1]
          /\ tasks' = Tail(tasks)
          /\ UNCHANGED <<callerVars, mainPc, ticks, cursor, left, in_degree, completed,
                         events, stop, todo, sub, orderly>>
      BY <1>1, <2>1 DEF worker_check
    <3>7. /\ pc' \in [Worker -> WorkerPc] /\ job' \in [Worker -> System \cup {NoSystem}]
          /\ born' \in [Worker -> Nat] /\ runs' \in [System -> Nat]
      BY <3>6, <3>3
    <3>4. TypeOK' BY <3>1, <3>7, <3>2, <3>3 DEF callerVars
    <3>5. HandInv' BY <3>6, <3>3
    <3> QED BY <3>4, <3>5
  <2>2. CASE tasks = <<>>
    BY <1>1, <2>2 DEF worker_check, callerVars
  <2> QED BY <2>1, <2>2
<1>2. ASSUME finish(w) PROVE TypeOK' /\ HandInv'
  <2>1. ub' \in BOOLEAN BY <1>0, <1>2 DEF finish
  <2> QED BY <1>2, <2>1 DEF finish, callerVars
<1>3. ASSUME drop(w) PROVE TypeOK' /\ HandInv'
  <2>1. ub' \in BOOLEAN BY <1>0, <1>3 DEF drop
  <2>2. PICK dep \in todo[w] :
          /\ todo' = [todo EXCEPT ![w] = @ \ {dep}]
          /\ in_degree' = [in_degree EXCEPT ![dep] = @ - 1]
          /\ \/ pc' = [pc EXCEPT ![w] = "submit"] /\ sub' = [sub EXCEPT ![w] = dep]
             \/ UNCHANGED <<pc, sub>>
    BY <1>3 DEF drop
  <2>4. /\ dep \in System
        /\ UNCHANGED <<callerVars, mainPc, ticks, cursor, left, completed, events,
                       tasks, stop, job, born, runs, orderly>>
    BY <1>3 DEF drop
  <2>7. /\ todo' \in [Worker -> SUBSET System] /\ in_degree' \in [System -> Int]
    BY <2>2, <2>4
  <2>8. pc' \in [Worker -> WorkerPc] /\ sub' \in [Worker -> System \cup {NoSystem}]
    <3> HIDE DEF HandInv
    <3>1. CASE pc' = [pc EXCEPT ![w] = "submit"] /\ sub' = [sub EXCEPT ![w] = dep]
      BY <2>4, <3>1
    <3>2. CASE UNCHANGED <<pc, sub>>
      BY <3>2
    <3> QED BY <2>2, <3>1, <3>2
  <2>5. TypeOK'
    <3> HIDE DEF HandInv, WorkerPc, TaskPc
    <3> QED BY <2>1, <2>7, <2>8, <2>4 DEF callerVars
  <2>9. pc[w] = "drop" BY <1>3 DEF drop
  <2>6. HandInv'
    <3>1. CASE pc' = [pc EXCEPT ![w] = "submit"] /\ sub' = [sub EXCEPT ![w] = dep]
      BY <2>4, <2>9, <3>1
    <3>2. CASE UNCHANGED <<pc, sub>>
      BY <2>4, <3>2
    <3> QED BY <2>2, <3>1, <3>2
  <2> QED BY <2>5, <2>6
<1>4. ASSUME submit_dep(w) PROVE TypeOK' /\ HandInv'
  <2>1. ub' \in BOOLEAN BY <1>0, <1>4 DEF submit_dep
  <2>2. sub[w] \in System /\ [pc EXCEPT ![w] = "drop"] \in [Worker -> WorkerPc]
    BY <1>4 DEF submit_dep
  <2>3. dispatch(sub[w], [pc EXCEPT ![w] = "drop"]) BY <1>4 DEF submit_dep
  <2> DEFINE f == [pc EXCEPT ![w] = "drop"]
  <2>4. /\ tasks' \in Seq(Task)
        /\ pc' \in [Worker -> WorkerPc]
        /\ \A v \in Worker : pc'[v] \in TaskPc => pc'[v] = f[v]
    BY <2>2, <2>3, DispatchType
  <2>5. TypeOK' BY <1>4, <2>1, <2>4 DEF submit_dep, callerVars
  <2>6. HandInv' BY <1>4, <2>2, <2>4 DEF submit_dep, callerVars
  <2> QED BY <2>5, <2>6
<1>5. ASSUME count(w) PROVE TypeOK' /\ HandInv'
  <2>1. ub' \in BOOLEAN BY <1>0, <1>5 DEF count
  <2>2. TypeOK'
    <3>1. completed' \in Nat BY <1>5 DEF count
    <3>2. /\ pc' \in [Worker -> WorkerPc] /\ born' \in [Worker -> Nat]
          /\ job' \in [Worker -> System \cup {NoSystem}]
      <4>1. CASE completed + 1 = Len(systems)
        BY <1>5, <4>1 DEF count
      <4>2. CASE completed + 1 # Len(systems)
        <5>1. /\ pc' = [pc EXCEPT ![w] = "check"]
              /\ job' = [job EXCEPT ![w] = NoSystem] /\ born' = [born EXCEPT ![w] = 0]
          BY <1>5, <4>2 DEF count
        <5> QED BY <5>1
      <4> QED BY <4>1, <4>2
    <3> QED BY <1>5, <2>1, <3>1, <3>2 DEF count, callerVars
  <2>4. /\ pc' \in [Worker -> WorkerPc] /\ sub' = sub
        /\ \A v \in Worker : v # w => pc'[v] = pc[v] /\ job'[v] = job[v]
        /\ pc'[w] # "submit" /\ (pc'[w] \in TaskPc => job'[w] = job[w])
    BY <1>5 DEF count
  <2>5. pc[w] \in TaskPc BY <1>5 DEF count
  <2>3. HandInv' BY <2>4, <2>5
  <2> QED BY <2>2, <2>3
<1>6. ASSUME notify_done(w) PROVE TypeOK' /\ HandInv'
  <2>1. ub' \in BOOLEAN BY <1>0, <1>6 DEF notify_done
  <2> QED BY <1>6, <2>1 DEF notify_done, callerVars, InTick
<1>7. ASSUME hang(w) PROVE TypeOK' /\ HandInv'
  BY <1>7 DEF hang, callerVars, workerVars
<1> QED BY <1>1, <1>2, <1>3, <1>4, <1>5, <1>6, <1>7 DEF WorkerStep

\* No step of scheduler.cpp, of the caller or of a worker, breaks the types.
LEMMA TypedNext == Typed /\ [Next]_vars => Typed'
<1> SUFFICES ASSUME Typed, [Next]_vars PROVE Typed'
  OBVIOUS
<1>1. CASE spurious_wakeup
  <2>1. TypeOK' BY <1>1 DEF spurious_wakeup, Typed, TypeOK, workerVars, callerVars,
                            InTick, TaskPc, WorkerPc
  <2>2. HandInv' BY <1>1 DEF spurious_wakeup, Typed, TypeOK, HandInv, workerVars,
                             TaskPc, WorkerPc
  <2> QED BY <2>1, <2>2 DEF Typed
<1>2. CASE UNCHANGED vars
  BY <1>2 DEF vars, Typed, TypeOK, HandInv, workerVars, callerVars
<1> QED BY <1>1, <1>2, TypedCaller, TypedMain, TypedWorker DEF Next

\* Every variable of the scheduler keeps its type, and a worker past the
\* queue has a system in hand.
THEOREM SchedulerTypeOK == Spec => []TypeOK
<1>1. Typed => TypeOK BY DEF Typed
<1> QED BY <1>1, TypedInit, TypedNext, PTL DEF Spec
-----------------------------------------------------------------------------
(* Facts about the graph and about dispatch.                               *)

\* have_hazard does not depend on the order of its arguments.
LEMMA HazardSymmetric == \A x, y : have_hazard(x, y) <=> have_hazard(y, x)
BY DEF have_hazard, Intersects

\* As many systems are registered as systems_ has entries.
LEMMA RegisteredCount ==
  ASSUME Typed, GraphInv
  PROVE  IsFiniteSet(Registered) /\ Cardinality(Registered) = Len(systems)
<1>1. systems \in Seq(System) /\ Len(systems) \in Nat
  BY DEF Typed, TypeOK
<1> DEFINE n == Len(systems)
           f == [k \in 1..n |-> systems[k]]
<1>2. f \in Bijection(1..n, Registered)
  <2>1. f \in [1..n -> Registered] BY DEF Registered
  <2>2. \A k, l \in 1..n : f[k] = f[l] => k = l BY DEF GraphInv
  <2>3. \A s \in Registered : \E k \in 1..n : f[k] = s BY DEF Registered
  <2> QED BY <2>1, <2>2, <2>3 DEF Bijection, Injection, Surjection, IsInjective
<1>3. ExistsBijection(1..n, Registered) BY <1>2 DEF ExistsBijection
<1>4. IsFiniteSet(1..n) /\ Cardinality(1..n) = n
  BY <1>1, FS_Interval, SMTT(20)
<1> QED BY <1>3, <1>4, FS_Bijection

\* Among registered systems the name tells them apart, so of two that
\* conflict one precedes the other.
LEMMA ConflictOrdered ==
  ASSUME Typed, GraphInv, NEW x \in Registered, NEW y \in Registered,
         x # y, have_hazard(x, y)
  PROVE  Edge(x, y) \/ Edge(y, x)
<1>1. Name(x) # Name(y) BY DEF GraphInv, Registered
<1>2. Name(x) \in Nat /\ Name(y) \in Nat
  BY SchedulerAssumption, RegisteredType DEF Typed
<1> QED BY <1>1, <1>2, HazardSymmetric DEF Edge

\* Dispatching wakes at most a sleeping worker and appends one task.
LEMMA DispatchEffect ==
  ASSUME Typed, NEW i \in System, NEW f \in [Worker -> WorkerPc], dispatch(i, f)
  PROVE  /\ tasks' = Append(tasks, [sys |-> i, tick |-> ticks])
         /\ \A w \in Worker : /\ pc'[w] \in BusyPc <=> f[w] \in BusyPc
                              /\ f[w] \in BusyPc => pc'[w] = f[w]
                              /\ f[w] = "unborn" => pc'[w] = "unborn"
<1>1. CASE pc' = f
  BY <1>1 DEF dispatch
<1>2. CASE \E v \in Worker : f[v] = "asleep" /\ pc' = [f EXCEPT ![v] = "check"]
  BY <1>2 DEF dispatch, BusyPc
<1> QED BY <1>1, <1>2 DEF dispatch, notify_one
\* The queue after a task for s has been submitted.
LEMMA AppendEffect ==
  ASSUME Typed, NEW s \in System, tasks' = Append(tasks, [sys |-> s, tick |-> ticks])
  PROVE  /\ Len(tasks) \in Nat /\ Len(tasks') = Len(tasks) + 1
         /\ \A k \in 1..Len(tasks) : tasks'[k] = tasks[k]
         /\ tasks'[Len(tasks) + 1].sys = s /\ tasks'[Len(tasks) + 1].tick = ticks
         /\ Queued' = Queued \cup {s}
<1>1. /\ Len(tasks) \in Nat /\ Len(tasks') = Len(tasks) + 1
      /\ \A k \in 1..Len(tasks) : tasks'[k] = tasks[k]
      /\ tasks'[Len(tasks) + 1].sys = s /\ tasks'[Len(tasks) + 1].tick = ticks
  BY DEF Typed, TypeOK
<1>2. Queued' \subseteq Queued \cup {s}
  <2> SUFFICES ASSUME NEW k \in 1..Len(tasks') PROVE tasks'[k].sys \in Queued \cup {s}
    BY DEF Queued
  <2>1. k \in 1..Len(tasks) \/ k = Len(tasks) + 1 BY <1>1
  <2> QED BY <1>1, <2>1 DEF Queued
<1>3. Queued \cup {s} \subseteq Queued'
  <2>1. s \in Queued' BY <1>1 DEF Queued
  <2>2. \A k \in 1..Len(tasks) : tasks[k].sys \in Queued' BY <1>1 DEF Queued
  <2> QED BY <2>1, <2>2 DEF Queued
<1> QED BY <1>1, <1>2, <1>3
-----------------------------------------------------------------------------
(* The graph and the sequential loop.                                      *)

\* register_system clears built_ and build_graph recomputes order_, dependents_
\* and in_degree_initial_: a graph that is marked built is never stale.
LEMMA GraphStep == Typed /\ GraphInv /\ [Next]_vars => GraphInv'
<1> SUFFICES ASSUME Typed, GraphInv, [Next]_vars PROVE GraphInv'
  OBVIOUS
<1> USE DEF GraphInv
<1>0. TypeOK BY DEF Typed
<1>1. ASSUME NEW s \in System, register_system(s) PROVE GraphInv'
  <2>1. /\ systems' = Append(systems, s) /\ systems \in Seq(System)
        /\ \A k \in 1..Len(systems) : Name(systems[k]) # Name(s)
    BY <1>0, <1>1 DEF register_system, Registered, TypeOK
  <2>2. \A k, l \in 1..Len(systems') : Name(systems'[k]) = Name(systems'[l]) => k = l
    BY <2>1
  <2>3. mainPc' = "idle" /\ built' = FALSE /\ UNCHANGED <<pc, mode>>
    BY <1>1 DEF register_system
  <2> QED BY <2>2, <2>3 DEF InTick
<1>2. ASSUME build_graph PROVE GraphInv'
  <2>1. systems' = systems /\ Registered' = Registered
    BY <1>2 DEF build_graph, Registered
  <2>2. mode = Sequential => \A w \in Worker : pc'[w] = "unborn"
    BY <1>2 DEF build_graph, Parallel, Sequential
  <2>3. mode = Parallel => \A s \in Registered :
          /\ dependents'[s] = Succs(Registered, s)
          /\ in_degree_initial'[s] = Cardinality(Preds(Registered, s))
    BY <1>0, <1>2, RegisteredType DEF build_graph, build_hazard_graph
  <2>4. mainPc' = "idle" /\ order' = Registered /\ mode' = mode
    BY <1>2 DEF build_graph
  <2> QED BY <2>1, <2>2, <2>3, <2>4 DEF InTick
<1>3. ASSUME UNCHANGED callerVars,
             mainPc' \in InTick => mainPc \in InTick,
             mainPc' = "seq" => mainPc = "seq",
             \A w \in Worker : pc[w] = "unborn" => pc'[w] = "unborn"
      PROVE  GraphInv'
  <2>1. Registered' = Registered BY <1>3 DEF callerVars, Registered
  <2> QED BY <1>3, <2>1 DEF callerVars
<1>4. ASSUME tick_unbuilt \/ tick_sequential \/ tick_parallel \/ destroy PROVE GraphInv'
  <2>1. UNCHANGED callerVars
    BY <1>4 DEF tick_unbuilt, tick_sequential, tick_parallel, destroy
  <2>2. Registered' = Registered BY <2>1 DEF callerVars, Registered
  <2>3. \A w \in Worker : pc[w] = "unborn" => pc'[w] = "unborn"
    BY <1>0, <1>4 DEF tick_unbuilt, tick_sequential, tick_parallel, destroy, TypeOK
  <2>4. mainPc' \in InTick => built /\ mode = Parallel
    BY <1>4 DEF tick_unbuilt, tick_sequential, tick_parallel, destroy, StartTick, InTick
  <2>5. mainPc' = "seq" => built /\ mode = Sequential
    BY <1>4 DEF tick_unbuilt, tick_sequential, tick_parallel, destroy, StartTick
  <2> QED BY <2>1, <2>2, <2>3, <2>4, <2>5 DEF callerVars
<1>5. ASSUME seed PROVE GraphInv'
  <2>1. UNCHANGED callerVars /\ mainPc \in InTick /\ mainPc' # "seq"
    BY <1>5 DEF seed, InTick
  <2>2. \A w \in Worker : pc[w] = "unborn" => pc'[w] = "unborn"
    <3>1. CASE dispatch(systems[cursor], pc) /\ cursor <= Len(systems)
      <4>1. systems[cursor] \in System /\ pc \in [Worker -> WorkerPc]
        BY <1>0, <3>1 DEF TypeOK
      <4> HIDE DEF GraphInv
      <4> QED BY <3>1, <4>1, DispatchEffect
    <3> QED BY <1>5, <3>1 DEF seed
  <2> QED BY <2>1, <2>2, <1>3
<1>6. ASSUME seq_step \/ wait_done \/ join PROVE GraphInv'
  BY <1>3, <1>6 DEF seq_step, wait_done, join, InTick
<1>7. ASSUME spurious_wakeup \/ UNCHANGED vars PROVE GraphInv'
  BY <1>0, <1>3, <1>7 DEF spurious_wakeup, vars, InTick, TypeOK
<1>8. ASSUME NEW w \in Worker, WorkerStep(w) \/ hang(w) PROVE GraphInv'
  <2>1. UNCHANGED callerVars
    BY <1>8 DEF WorkerStep, worker_check, finish, drop, submit_dep, count, notify_done, hang
  <2>2. /\ mainPc' \in InTick => mainPc \in InTick
        /\ mainPc' = "seq" => mainPc = "seq"
    BY <1>8 DEF WorkerStep, worker_check, finish, drop, submit_dep, count, notify_done,
                hang, InTick
  <2>3. pc[w] # "unborn"
    BY <1>8 DEF WorkerStep, worker_check, finish, drop, submit_dep, count, notify_done,
                hang, TaskPc
  <2>4. \A v \in Worker : pc[v] = "unborn" => pc'[v] = "unborn"
    <3>1. CASE submit_dep(w)
      <4>1. sub[w] \in System /\ dispatch(sub[w], [pc EXCEPT ![w] = "drop"])
        BY <3>1 DEF submit_dep, Typed, HandInv
      <4>2. [pc EXCEPT ![w] = "drop"] \in [Worker -> WorkerPc]
        BY <1>0 DEF TypeOK, WorkerPc, TaskPc
      <4> HIDE DEF GraphInv
      <4> QED BY <1>0, <2>3, <4>1, <4>2, DispatchEffect, ZenonT(30) DEF TypeOK
    <3>2. CASE ~submit_dep(w)
      BY <1>0, <1>8, <2>3, <3>2 DEF WorkerStep, worker_check, finish, drop, count,
                notify_done, hang, TypeOK
    <3> QED BY <3>1, <3>2
  <2> QED BY <1>3, <2>1, <2>2, <2>4
<1> QED BY <1>1, <1>2, <1>4, <1>5, <1>6, <1>7, <1>8 DEF Next, Caller, Main

\* The sequential loop visits each system of order_ once.
LEMMA SequentialStep ==
  Typed /\ GraphInv /\ SequentialInv /\ [Next]_vars => SequentialInv'
<1> SUFFICES ASSUME Typed, GraphInv, SequentialInv, [Next]_vars, mainPc' = "seq"
             PROVE  /\ left' \subseteq Registered'
                    /\ \A s \in Registered' : runs'[s] = IF s \in left' THEN 0 ELSE 1
  BY DEF SequentialInv
<1>0. TypeOK BY DEF Typed
<1>1. CASE tick_sequential
  BY <1>0, <1>1, RegisteredType
     DEF tick_sequential, StartTick, GraphInv, callerVars, Registered
<1>2. CASE seq_step
  <2>1. PICK s \in left : runs' = [runs EXCEPT ![s] = @ + 1] /\ left' = left \ {s}
    BY <1>2 DEF seq_step
  <2>2. Registered' = Registered /\ mainPc = "seq"
    BY <1>2 DEF seq_step, callerVars, Registered
  <2>3. runs \in [System -> Nat] /\ Registered \subseteq System
    BY <1>0, RegisteredType DEF TypeOK
  <2> QED BY <2>1, <2>2, <2>3 DEF SequentialInv
<1>3. CASE ~tick_sequential /\ ~seq_step
  <2>1. mainPc = "seq"
    BY <1>3 DEF Next, Caller, Main, register_system, build_graph, tick_unbuilt,
        tick_parallel, destroy, StartTick, seed, wait_done, join, spurious_wakeup,
        WorkerStep, worker_check, finish, drop, submit_dep, count, notify_done, hang,
        vars, callerVars, workerVars
  <2>2. \A w \in Worker : pc[w] = "unborn" BY <2>1 DEF GraphInv
  <2>3. UNCHANGED <<systems, left, runs>>
    BY <1>3, <2>1, <2>2 DEF Next, Caller, Main, register_system, build_graph, tick_unbuilt,
        tick_parallel, destroy, StartTick, seed, wait_done, join, spurious_wakeup,
        WorkerStep, worker_check, finish, drop, submit_dep, count, notify_done, hang,
        vars, callerVars, TaskPc
  <2> QED BY <2>1, <2>3 DEF SequentialInv, Registered
<1> QED BY <1>1, <1>2, <1>3
-----------------------------------------------------------------------------
(* One lemma per action of a parallel tick: what it does to the predicates *)
(* the invariant is made of.                                               *)

Core == QueueInv /\ WorkersInv /\ CountersInv

\* The state of a tick in which the registration order is safe.
InSafeTick == /\ Typed /\ GraphInv /\ Core
              /\ orderly /\ mainPc \in InTick

\* The parts of a worker that matter to the invariant while it is busy.
SameBusy(w) ==
  /\ pc'[w] \in BusyPc <=> Busy(w)
  /\ Busy(w) => /\ pc'[w] = pc[w] /\ job'[w] = job[w] /\ born'[w] = born[w]
                /\ todo'[w] = todo[w] /\ sub'[w] = sub[w]

\* A step that touches only workers that are not busy changes nothing.
LEMMA CoreFrame ==
  ASSUME UNCHANGED <<systems, ticks, tasks, runs, in_degree, completed>>,
         \A w \in Worker : SameBusy(w)
  PROVE  /\ Core => Core'
         /\ Registered' = Registered
         /\ \A j : Submitted(j)' <=> Submitted(j)
<1> USE DEF SameBusy, Busy
<1>1. Registered' = Registered /\ Queued' = Queued
  BY DEF Registered, Queued
<1>2. \A j : Pending(j)' <=> Pending(j)
  BY DEF Pending, BusyPc
<1>3. \A j : Submitted(j)' <=> Submitted(j)
  BY <1>1, <1>2 DEF Submitted
<1>4. \A i, j : Released(i, j)' <=> Released(i, j)
  BY DEF Released
<1>5. \A j : Waiting(j)' = Waiting(j)
  BY <1>1, <1>4 DEF Waiting
<1>6. Finished' = Finished
  BY <1>1 DEF Finished
<1>7. QueueInv => QueueInv' BY <1>1, <1>2 DEF QueueInv
<1>8. WorkersInv => WorkersInv' BY <1>1 DEF WorkersInv, BusyPc
<1>9. CountersInv => CountersInv' BY <1>1, <1>3, <1>5, <1>6 DEF CountersInv
<1> QED BY <1>1, <1>3, <1>7, <1>8, <1>9 DEF Core

\* What CountersInv' needs, in terms of the predicates above.
LEMMA CountersFrame ==
  ASSUME CountersInv, Registered' = Registered, UNCHANGED <<in_degree>>,
         \A j \in Registered : /\ Waiting(j)' = Waiting(j)
                               /\ Submitted(j)' <=> Submitted(j)
                               /\ runs'[j] <= 1,
         completed' = Cardinality(Finished')
  PROVE  CountersInv'
BY DEF CountersInv

\* worker_loop_ takes the front task.
LEMMA TakeStep ==
  ASSUME InSafeTick, NEW w \in Worker, worker_check(w), tasks # <<>>
  PROVE  Core' /\ \A j \in Registered : Submitted(j)' <=> Submitted(j)
<1>0. PICK s : s = Head(tasks).sys OBVIOUS
<1>1. TypeOK BY DEF InSafeTick, Typed
<1>2. /\ tasks' = Tail(tasks) /\ pc' = [pc EXCEPT ![w] = "run"]
      /\ job' = [job EXCEPT ![w] = s] /\ born' = [born EXCEPT ![w] = Head(tasks).tick]
      /\ runs' = [runs EXCEPT ![s] = @ + 1] /\ pc[w] = "check"
      /\ UNCHANGED <<systems, ticks, in_degree, completed, todo, sub>>
  BY <1>0 DEF worker_check, callerVars
<1>3. /\ Len(tasks) \in Nat /\ Len(tasks) >= 1 /\ Head(tasks) = tasks[1]
      /\ Len(tasks') = Len(tasks) - 1
      /\ \A k \in 1..Len(tasks') : tasks'[k] = tasks[k + 1]
  BY <1>1, <1>2 DEF TypeOK
<1>4. /\ s \in Registered /\ runs[s] = 0 /\ Head(tasks).tick = ticks /\ ~Pending(s)
      /\ \A k \in 2..Len(tasks) : tasks[k].sys # s
  BY <1>0, <1>3 DEF InSafeTick, Core, QueueInv
<1>5. Registered' = Registered /\ Registered \subseteq System
  BY <1>1, <1>2, RegisteredType DEF Registered
<1>6. /\ \A i \in Registered : runs'[i] = IF i = s THEN 1 ELSE runs[i]
      /\ pc'[w] = "run" /\ job'[w] = s /\ born'[w] = ticks
      /\ \A v \in Worker : v # w => /\ pc'[v] = pc[v] /\ job'[v] = job[v]
                                    /\ born'[v] = born[v]
  BY <1>1, <1>2, <1>4, <1>5 DEF TypeOK
<1>7. \A v \in Worker : Busy(v) =>
        v # w /\ job[v] \in Registered /\ runs[job[v]] = 1 /\ job[v] # s
  BY <1>2, <1>4 DEF InSafeTick, Core, WorkersInv, Busy, BusyPc
<1>8. \A j : Pending(j)' <=> Pending(j)
  BY <1>2, <1>6 DEF Pending
<1>9. Queued' = Queued \ {s}
  <2>1. Queued' \subseteq Queued \ {s}
    <3> SUFFICES ASSUME NEW k \in 1..Len(tasks') PROVE tasks'[k].sys \in Queued \ {s}
      BY DEF Queued
    <3>1. k + 1 \in 2..Len(tasks) /\ tasks'[k] = tasks[k + 1] BY <1>3
    <3> QED BY <1>3, <1>4, <3>1 DEF Queued
  <2>2. Queued \ {s} \subseteq Queued'
    <3> SUFFICES ASSUME NEW k \in 1..Len(tasks), tasks[k].sys # s
                 PROVE  tasks[k].sys \in Queued'
      BY DEF Queued
    <3>1. k # 1 /\ k - 1 \in 1..Len(tasks') BY <1>0, <1>3
    <3>2. tasks'[k - 1] = tasks[k] BY <1>3, <3>1
    <3> QED BY <3>1, <3>2 DEF Queued
  <2> QED BY <2>1, <2>2
<1>10. s \in Queued BY <1>0, <1>3 DEF Queued
<1>11. \A j \in Registered : Submitted(j)' <=> Submitted(j)
  BY <1>4, <1>6, <1>8, <1>9, <1>10 DEF Submitted
<1>12. \A i \in Registered : \A j : Released(i, j)' <=> Released(i, j)
  <2>1. TAKE i \in Registered
  <2> TAKE j
  <2>2. CASE i = s
    BY <1>4, <1>6, <2>2 DEF Released, Busy, BusyPc
  <2>3. CASE i # s
    BY <1>2, <1>6, <1>7, <2>3 DEF Released, Busy
  <2> QED BY <2>2, <2>3
<1>13. \A j : Waiting(j)' = Waiting(j)
  BY <1>5, <1>12 DEF Waiting, Preds
<1>14. Finished' = Finished
  <2>1. \A i \in Registered : i \in Finished' <=> i \in Finished
    BY <1>4, <1>5, <1>6, <1>7 DEF Finished, Busy, BusyPc
  <2> QED BY <1>5, <2>1 DEF Finished
<1>15. QueueInv'
  <2>1. \A k \in 1..Len(tasks') : k + 1 \in 1..Len(tasks) /\ k + 1 \in 2..Len(tasks)
    BY <1>3
  <2>2. \A k \in 1..Len(tasks') :
          /\ tasks'[k].tick = ticks' /\ tasks'[k].sys \in Registered'
          /\ runs'[tasks'[k].sys] = 0 /\ (~Pending(tasks[k].sys))'
    <3> SUFFICES ASSUME NEW k \in 1..Len(tasks')
                 PROVE /\ tasks'[k].tick = ticks' /\ tasks'[k].sys \in Registered'
                       /\ runs'[tasks'[k].sys] = 0 /\ (~Pending(tasks[k].sys))'
      OBVIOUS
    <3>1. PICK q : q = tasks[k + 1].sys OBVIOUS
    <3>2. /\ tasks[k + 1].tick = ticks /\ q \in Registered /\ runs[q] = 0
          /\ ~Pending(q) /\ q # s
      BY <1>4, <2>1, <3>1 DEF InSafeTick, Core, QueueInv
    <3>3. tasks'[k] = tasks[k + 1] /\ q = tasks'[k].sys BY <1>3, <3>1
    <3>4. ~Pending(q)' BY <1>8, <3>2
    <3>5. (~Pending(tasks[k].sys))' BY <3>3, <3>4 DEF Pending
    <3> QED BY <1>2, <1>5, <1>6, <3>2, <3>3, <3>5
  <2>3. \A k, l \in 1..Len(tasks') : tasks'[k].sys = tasks'[l].sys => k = l
    BY <1>3, <2>1 DEF InSafeTick, Core, QueueInv
  <2> QED BY <2>2, <2>3 DEF QueueInv
<1>16. WorkersInv'
  <2>1. WorkersInv BY DEF InSafeTick, Core
  <2>2. ~Pending(s)' BY <1>4, <1>8
  <2>3. \A v \in Worker : pc'[v] = "submit" => v # w /\ sub'[v] # s
    BY <1>6, <2>2 DEF Pending
  <2> QED BY <1>2, <1>4, <1>5, <1>6, <1>7, <2>1, <2>3 DEF WorkersInv, Busy, BusyPc
<1>17. CountersInv'
  <2>1. CountersInv BY DEF InSafeTick, Core
  <2>2. \A j \in Registered : runs'[j] <= 1
    BY <1>6, <2>1 DEF CountersInv
  <2> QED BY <1>2, <1>5, <1>11, <1>13, <1>14, <2>1, <2>2, CountersFrame DEF CountersInv
<1> QED BY <1>11, <1>15, <1>16, <1>17 DEF Core

\* A system's tick returns: its dependents are still to be decremented.
LEMMA FinishStep ==
  ASSUME InSafeTick, NEW w \in Worker, finish(w)
  PROVE  Core' /\ \A j \in Registered : Submitted(j)' <=> Submitted(j)
<1>1. TypeOK BY DEF InSafeTick, Typed
<1>2. /\ pc[w] = "run" /\ pc' = [pc EXCEPT ![w] = "drop"]
      /\ todo' = [todo EXCEPT ![w] = dependents[job[w]]]
      /\ UNCHANGED <<systems, ticks, in_degree, completed, tasks, runs, job, born, sub>>
  BY DEF finish, callerVars
<1>3. Registered' = Registered /\ Queued' = Queued
  BY <1>2 DEF Registered, Queued
<1>4. job[w] \in Registered /\ dependents[job[w]] = Succs(Registered, job[w])
  BY <1>2 DEF InSafeTick, Core, WorkersInv, GraphInv, Busy, BusyPc
<1>5. /\ pc'[w] = "drop" /\ todo'[w] = Succs(Registered, job[w])
      /\ \A v \in Worker : v # w => pc'[v] = pc[v] /\ todo'[v] = todo[v]
  BY <1>1, <1>2, <1>4 DEF TypeOK
<1>6. \A j : Pending(j)' <=> Pending(j)
  BY <1>2, <1>5 DEF Pending
<1>7. \A j \in Registered : Submitted(j)' <=> Submitted(j)
  BY <1>2, <1>3, <1>6 DEF Submitted
<1>8. \A j \in Registered : Waiting(j)' = Waiting(j)
  <2> SUFFICES ASSUME NEW j \in Registered, NEW i \in Preds(Registered, j)
               PROVE  Released(i, j)' <=> Released(i, j)
    BY <1>3 DEF Waiting, Preds
  <2>1. i = job[w] => j \in Succs(Registered, job[w])
    BY DEF Preds, Succs
  <2> QED BY <1>2, <1>5, <2>1 DEF Released, Busy, BusyPc
<1>9. Finished' = Finished
  BY <1>2, <1>3, <1>5 DEF Finished, Busy, BusyPc
<1>10. QueueInv'
  <2>1. QueueInv BY DEF InSafeTick, Core
  <2> QED BY <1>2, <1>3, <1>6, <2>1 DEF QueueInv
<1>11. WorkersInv'
  <2>1. WorkersInv BY DEF InSafeTick, Core
  <2> QED BY <1>2, <1>3, <1>5, <2>1 DEF WorkersInv, Busy, BusyPc
<1>12. CountersInv'
  <2>1. CountersInv BY DEF InSafeTick, Core
  <2> QED BY <1>2, <1>3, <1>7, <1>8, <1>9, <2>1, CountersFrame DEF CountersInv
<1> QED BY <1>7, <1>10, <1>11, <1>12 DEF Core

\* fetch_sub: one predecessor fewer for dep, and the last one makes it pending.
LEMMA DropStep ==
  ASSUME InSafeTick, NEW w \in Worker, drop(w)
  PROVE  /\ Core'
         /\ \/ \A j \in Registered : Submitted(j)' <=> Submitted(j)
            \/ \E dep \in Registered :
                 /\ job[w] \in Preds(Registered, dep) /\ runs[job[w]] # 0
                 /\ Waiting(dep) = {job[w]}
                 /\ \A j \in Registered : Submitted(j)' <=> Submitted(j) \/ j = dep
<1>1. TypeOK BY DEF InSafeTick, Typed
<1>2. PICK dep \in todo[w] :
        /\ todo' = [todo EXCEPT ![w] = @ \ {dep}]
        /\ in_degree' = [in_degree EXCEPT ![dep] = @ - 1]
        /\ IF in_degree[dep] = 1
           THEN pc' = [pc EXCEPT ![w] = "submit"] /\ sub' = [sub EXCEPT ![w] = dep]
           ELSE UNCHANGED <<pc, sub>>
  BY DEF drop
<1>3. /\ pc[w] = "drop"
      /\ UNCHANGED <<systems, ticks, completed, tasks, runs, job, born>>
  BY DEF drop, callerVars
<1>4. Registered' = Registered /\ Queued' = Queued /\ Registered \subseteq System
  BY <1>1, <1>3, RegisteredType DEF Registered, Queued
<1>5. /\ job[w] \in Registered /\ runs[job[w]] = 1 /\ born[w] = ticks
      /\ todo[w] \subseteq Succs(Registered, job[w])
      /\ \A v \in Worker : v # w /\ Busy(v) => job[v] # job[w]
  BY <1>3 DEF InSafeTick, Core, WorkersInv, Busy, BusyPc
<1>6. dep \in Registered /\ dep \in System /\ job[w] \in Preds(Registered, dep)
  BY <1>4, <1>5 DEF Succs, Preds
<1>7. /\ pc'[w] \in {"drop", "submit"} /\ todo'[w] = todo[w] \ {dep}
      /\ \A v \in Worker : v # w => /\ pc'[v] = pc[v] /\ todo'[v] = todo[v]
                                    /\ sub'[v] = sub[v]
  BY <1>1, <1>2, <1>3 DEF TypeOK
<1>8. \A j : Waiting(j) \subseteq System /\ IsFiniteSet(Waiting(j))
             /\ Cardinality(Waiting(j)) \in Nat
  BY <1>4, FiniteSystems DEF Waiting, Preds
<1>9. job[w] \in Waiting(dep)
  BY <1>3, <1>6 DEF Waiting, Released, Busy, BusyPc
<1>10. ~Submitted(dep) /\ in_degree[dep] = Cardinality(Waiting(dep))
  BY <1>6, <1>9 DEF InSafeTick, Core, CountersInv
<1>11. ASSUME NEW j \in Registered, NEW i \in Preds(Registered, j)
       PROVE  Released(i, j)' <=> Released(i, j) \/ (i = job[w] /\ j = dep)
  <2>1. CASE i = job[w]
    BY <1>3, <1>5, <1>7, <2>1 DEF Released, Busy, BusyPc
  <2>2. CASE i # job[w]
    BY <1>3, <1>7, <2>2 DEF Released, Busy, BusyPc
  <2> QED BY <2>1, <2>2
<1>12. \A j \in Registered : Waiting(j)' = IF j = dep THEN Waiting(j) \ {job[w]} ELSE Waiting(j)
  BY <1>4, <1>11 DEF Waiting, Preds
<1>13. Cardinality(Waiting(dep) \ {job[w]}) = Cardinality(Waiting(dep)) - 1
  BY <1>8, <1>9, FS_RemoveElement
<1>14. Finished' = Finished
  BY <1>3, <1>4, <1>7 DEF Finished, Busy, BusyPc
<1>15. CASE in_degree[dep] = 1
  <2>1. pc'[w] = "submit" /\ sub'[w] = dep
    BY <1>1, <1>2, <1>15 DEF TypeOK
  <2>2. \A j : Pending(j)' <=> Pending(j) \/ j = dep
    BY <1>3, <1>7, <2>1 DEF Pending
  <2>3. \A j \in Registered : Submitted(j)' <=> Submitted(j) \/ j = dep
    BY <1>3, <1>4, <2>2 DEF Submitted
  <2>4. Waiting(dep) = {job[w]}
    <3>1. Cardinality(Waiting(dep)) = 1 BY <1>10, <1>15
    <3>2. \E x : Waiting(dep) = {x} BY <1>8, <3>1, FS_Singleton, Zenon
    <3> QED BY <1>9, <3>2
  <2>5. QueueInv'
    <3>1. QueueInv BY DEF InSafeTick, Core
    <3>2. \A k \in 1..Len(tasks) : tasks[k].sys # dep
      BY <1>10 DEF Submitted, Queued
    <3> QED BY <1>3, <1>4, <2>2, <3>1, <3>2 DEF QueueInv
  <2>6. WorkersInv'
    <3>1. WorkersInv BY DEF InSafeTick, Core
    <3>2. runs[dep] = 0 /\ \A v \in Worker : pc[v] = "submit" => sub[v] # dep
      BY <1>10 DEF Submitted, Pending
    <3> QED BY <1>3, <1>4, <1>5, <1>6, <1>7, <2>1, <3>1, <3>2 DEF WorkersInv, Busy, BusyPc
  <2>7. CountersInv'
    <3>1. CountersInv BY DEF InSafeTick, Core
    <3>2. \A j \in Registered : in_degree'[j] = Cardinality(Waiting(j)')
      BY <1>1, <1>2, <1>4, <1>6, <1>10, <1>12, <1>13, <3>1 DEF CountersInv, TypeOK
    <3>3. \A j \in Registered : Submitted(j)' => Waiting(j)' = {}
      BY <1>12, <2>3, <2>4, <3>1 DEF CountersInv
    <3> QED BY <1>3, <1>4, <1>14, <3>1, <3>2, <3>3 DEF CountersInv
  <2> QED BY <1>5, <1>6, <2>3, <2>4, <2>5, <2>6, <2>7 DEF Core
<1>16. CASE in_degree[dep] # 1
  <2>1. UNCHANGED <<pc, sub>> BY <1>2, <1>16
  <2>2. \A j : Pending(j)' <=> Pending(j)
    BY <2>1 DEF Pending
  <2>3. \A j \in Registered : Submitted(j)' <=> Submitted(j)
    BY <1>3, <1>4, <2>2 DEF Submitted
  <2>4. QueueInv'
    <3>1. QueueInv BY DEF InSafeTick, Core
    <3> QED BY <1>3, <1>4, <2>2, <3>1 DEF QueueInv
  <2>5. WorkersInv'
    <3>1. WorkersInv BY DEF InSafeTick, Core
    <3> QED BY <1>3, <1>4, <1>5, <1>7, <2>1, <3>1 DEF WorkersInv, Busy, BusyPc
  <2>6. CountersInv'
    <3>1. CountersInv BY DEF InSafeTick, Core
    <3>2. \A j \in Registered : in_degree'[j] = Cardinality(Waiting(j)')
      BY <1>1, <1>2, <1>4, <1>6, <1>10, <1>12, <1>13, <3>1 DEF CountersInv, TypeOK
    <3>3. \A j \in Registered : Submitted(j)' => Waiting(j)' = {}
      BY <1>12, <2>3, <3>1 DEF CountersInv
    <3> QED BY <1>3, <1>4, <1>14, <3>1, <3>2, <3>3 DEF CountersInv
  <2> QED BY <2>3, <2>4, <2>5, <2>6 DEF Core
<1> QED BY <1>15, <1>16

\* The last predecessor's worker puts dep in the queue.
LEMMA SubmitStep ==
  ASSUME InSafeTick, NEW w \in Worker, submit_dep(w)
  PROVE  Core' /\ \A j \in Registered : Submitted(j)' <=> Submitted(j)
<1>1. TypeOK /\ HandInv BY DEF InSafeTick, Typed
<1> DEFINE f == [pc EXCEPT ![w] = "drop"]
<1>2. /\ pc[w] = "submit" /\ dispatch(sub[w], f)
      /\ sub' = [sub EXCEPT ![w] = NoSystem]
      /\ UNCHANGED <<systems, ticks, in_degree, completed, runs, job, born, todo>>
  BY DEF submit_dep, callerVars
<1>3. PICK s \in System : s = sub[w]
  BY <1>1, <1>2 DEF HandInv
<1>4. f \in [Worker -> WorkerPc]
  BY <1>1 DEF TypeOK, WorkerPc, TaskPc
<1>5. /\ tasks' = Append(tasks, [sys |-> s, tick |-> ticks])
      /\ \A v \in Worker : /\ pc'[v] \in BusyPc <=> f[v] \in BusyPc
                           /\ f[v] \in BusyPc => pc'[v] = f[v]
  BY <1>2, <1>3, <1>4, DispatchEffect DEF InSafeTick
<1>6. /\ f[w] = "drop" /\ pc'[w] = "drop"
      /\ \A v \in Worker : v # w => /\ f[v] = pc[v] /\ sub'[v] = sub[v]
                                    /\ pc'[v] \in BusyPc <=> Busy(v)
                                    /\ Busy(v) => pc'[v] = pc[v]
  BY <1>1, <1>2, <1>5 DEF TypeOK, Busy, BusyPc
<1>7. Registered' = Registered
  BY <1>2 DEF Registered
<1>8. /\ s \in Registered /\ runs[s] = 0
      /\ \A v \in Worker : v # w /\ pc[v] = "submit" => sub[v] # s
      /\ job[w] \in Registered /\ todo[w] \subseteq Succs(Registered, job[w])
  BY <1>2, <1>3 DEF InSafeTick, Core, WorkersInv, Busy, BusyPc
<1>9. /\ Len(tasks) \in Nat /\ Len(tasks') = Len(tasks) + 1
      /\ \A k \in 1..Len(tasks) : tasks'[k] = tasks[k]
      /\ tasks'[Len(tasks) + 1].sys = s /\ tasks'[Len(tasks) + 1].tick = ticks
      /\ Queued' = Queued \cup {s}
  BY <1>5, AppendEffect DEF InSafeTick
<1>10. Queued' = Queued \cup {s} BY <1>9
<1>11. ~Pending(s)' BY <1>2, <1>6, <1>8 DEF Pending, Busy, BusyPc
<1>12. Pending(s) BY <1>2, <1>3 DEF Pending
<1>13. \A j : j # s => (Pending(j)' <=> Pending(j))
  BY <1>2, <1>3, <1>6 DEF Pending, Busy, BusyPc
<1>14. \A j \in Registered : Submitted(j)' <=> Submitted(j)
  BY <1>2, <1>10, <1>11, <1>12, <1>13 DEF Submitted
<1>15. \A v \in Worker : /\ Busy(v)' <=> Busy(v)
                         /\ Busy(v) => (pc'[v] = "run" <=> pc[v] = "run")
  BY <1>2, <1>6 DEF Busy, BusyPc
<1>16. \A j : Waiting(j)' = Waiting(j)
  BY <1>2, <1>7, <1>15 DEF Waiting, Released
<1>17. Finished' = Finished
  BY <1>2, <1>7, <1>15 DEF Finished
<1>18. QueueInv'
  <2>1. QueueInv BY DEF InSafeTick, Core
  <2>2. \A k \in 1..Len(tasks) : tasks[k].sys # s
    BY <1>12, <2>1 DEF QueueInv
  <2>3. \A k \in 1..Len(tasks') : k \in 1..Len(tasks) \/ k = Len(tasks) + 1
    BY <1>9
  <2>4. \A k \in 1..Len(tasks) : (~Pending(tasks[k].sys))'
    <3> SUFFICES ASSUME NEW k \in 1..Len(tasks) PROVE (~Pending(tasks[k].sys))'
      OBVIOUS
    <3>1. PICK q : q = tasks[k].sys OBVIOUS
    <3>2. ~Pending(q)' /\ q = tasks'[k].sys BY <1>9, <1>13, <2>1, <2>2, <3>1 DEF QueueInv
    <3> QED BY <3>2 DEF Pending
  <2>5. (~Pending(tasks[Len(tasks)].sys))'
    BY <1>9, <1>11 DEF Pending
  <2>6. \A k \in 1..Len(tasks') :
          /\ tasks'[k].tick = ticks' /\ tasks'[k].sys \in Registered'
          /\ runs'[tasks'[k].sys] = 0 /\ (~Pending(tasks[k].sys))'
    BY <1>2, <1>7, <1>8, <1>9, <2>1, <2>3, <2>4, <2>5 DEF QueueInv
  <2>7. \A k, l \in 1..Len(tasks') : tasks'[k].sys = tasks'[l].sys => k = l
    BY <1>9, <2>1, <2>2, <2>3 DEF QueueInv
  <2> QED BY <2>6, <2>7 DEF QueueInv
<1>19. WorkersInv'
  <2>1. WorkersInv BY DEF InSafeTick, Core
  <2> QED BY <1>2, <1>6, <1>7, <1>8, <1>15, <2>1 DEF WorkersInv, Busy, BusyPc
<1>20. CountersInv'
  <2>1. CountersInv BY DEF InSafeTick, Core
  <2> QED BY <1>2, <1>7, <1>14, <1>16, <1>17, <2>1, CountersFrame DEF CountersInv
<1> QED BY <1>14, <1>18, <1>19, <1>20 DEF Core

\* completed.fetch_add: the worker's system is finished.
LEMMA CountStep ==
  ASSUME InSafeTick, NEW w \in Worker, count(w)
  PROVE  Core' /\ \A j \in Registered : Submitted(j)' <=> Submitted(j)
<1>1. TypeOK BY DEF InSafeTick, Typed
<1>2. /\ pc[w] = "drop" /\ todo[w] = {} /\ completed' = completed + 1
      /\ UNCHANGED <<systems, ticks, in_degree, tasks, runs, todo, sub>>
  BY DEF count, callerVars
<1>3. /\ pc'[w] \in {"notify", "check"}
      /\ \A v \in Worker : v # w => /\ pc'[v] = pc[v] /\ job'[v] = job[v]
                                    /\ born'[v] = born[v]
  BY <1>1 DEF count, TypeOK
<1>4. Registered' = Registered /\ Queued' = Queued /\ Registered \subseteq System
  BY <1>1, <1>2, RegisteredType DEF Registered, Queued
<1>5. PICK s : s = job[w] OBVIOUS
<1>6. /\ s \in Registered /\ runs[s] = 1
      /\ \A v \in Worker : v # w /\ Busy(v) => job[v] # s
  BY <1>2, <1>5 DEF InSafeTick, Core, WorkersInv, Busy, BusyPc
<1>7. \A v \in Worker : Busy(v)' <=> Busy(v) /\ v # w
  BY <1>3 DEF Busy, BusyPc
<1>8. \A j : Pending(j)' <=> Pending(j)
  BY <1>2, <1>3 DEF Pending
<1>9. \A j \in Registered : Submitted(j)' <=> Submitted(j)
  BY <1>2, <1>4, <1>8 DEF Submitted
<1>10. \A i, j : Released(i, j)' <=> Released(i, j)
  BY <1>2, <1>3, <1>5, <1>6, <1>7 DEF Released
<1>11. \A j : Waiting(j)' = Waiting(j)
  BY <1>4, <1>10 DEF Waiting
<1>12. Finished' = Finished \cup {s} /\ s \notin Finished
  <2>1. \A i \in Registered : i \in Finished' <=> i \in Finished \/ i = s
    BY <1>2, <1>3, <1>4, <1>5, <1>6, <1>7 DEF Finished
  <2>2. s \notin Finished
    BY <1>2, <1>5 DEF Finished, Busy, BusyPc
  <2> QED BY <1>4, <1>6, <2>1, <2>2 DEF Finished
<1>13. IsFiniteSet(Finished)
  BY <1>4, FiniteSystems DEF Finished
<1>14. QueueInv'
  <2>1. QueueInv BY DEF InSafeTick, Core
  <2> QED BY <1>2, <1>4, <1>8, <2>1 DEF QueueInv
<1>15. WorkersInv'
  <2>1. WorkersInv BY DEF InSafeTick, Core
  <2> QED BY <1>2, <1>3, <1>4, <1>7, <2>1 DEF WorkersInv, Busy, BusyPc
<1>16. CountersInv'
  <2>1. CountersInv BY DEF InSafeTick, Core
  <2>2. completed' = Cardinality(Finished')
    BY <1>2, <1>12, <1>13, <2>1, FS_AddElement DEF CountersInv
  <2> QED BY <1>2, <1>4, <1>9, <1>11, <2>1, <2>2, CountersFrame DEF CountersInv
<1> QED BY <1>9, <1>14, <1>15, <1>16 DEF Core

\* The seed loop hands systems[cursor] to the pool: with the witness of a safe
\* registration order it is a system without predecessors.
LEMMA SeedStep ==
  ASSUME InSafeTick, SeedInv, seed, cursor <= Len(systems),
         in_degree[systems[cursor]] = 0
  PROVE  Core' /\ SeedInv'
<1>1. TypeOK BY DEF InSafeTick, Typed
<1>2. /\ mainPc = "seed" /\ mainPc' = "seed" /\ cursor' = cursor + 1
      /\ dispatch(systems[cursor], pc)
      /\ UNCHANGED <<systems, ticks, in_degree, completed, runs, job, born, todo, sub>>
  BY DEF seed, callerVars, workerVars
<1>3. cursor \in 1..Len(systems) /\ systems[cursor] \in System /\ Len(systems) \in Nat
  BY <1>1 DEF TypeOK
<1>4. PICK s \in System : s = systems[cursor] BY <1>3
<1>5. s \in Registered /\ Registered' = Registered /\ Registered \subseteq System
  BY <1>1, <1>2, <1>3, <1>4, RegisteredType DEF Registered
<1>6. /\ tasks' = Append(tasks, [sys |-> s, tick |-> ticks])
      /\ \A v \in Worker : /\ pc'[v] \in BusyPc <=> Busy(v)
                           /\ Busy(v) => pc'[v] = pc[v]
  BY <1>1, <1>2, <1>4, DispatchEffect DEF InSafeTick, TypeOK, Busy
<1>7. PICK W \in [1..Len(systems) -> 1..Len(systems)] :
        /\ Witness(W)
        /\ \A k \in 1..Len(systems) : W[k] >= cursor => ~Submitted(systems[k])
  BY <1>2 DEF SeedInv
<1>8. Waiting(s) = {}
  <2>1. in_degree[s] = Cardinality(Waiting(s)) BY <1>5 DEF InSafeTick, Core, CountersInv
  <2>2. IsFiniteSet(Waiting(s)) BY <1>5, FiniteSystems DEF Waiting, Preds
  <2> QED BY <1>4, <2>1, <2>2, FS_EmptySet
<1>9. Preds(Registered, s) = {}
  <2> SUFFICES ASSUME Preds(Registered, s) # {} PROVE FALSE
    OBVIOUS
  <2>1. PICK p \in 1..Len(systems) :
          W[cursor] > cursor /\ Edge(systems[p], s) /\ W[p] = W[cursor]
    BY <1>3, <1>4, <1>7 DEF Witness
  <2>2. ~Submitted(systems[p])
    BY <1>3, <1>7, <2>1
  <2>3. systems[p] \in Waiting(s)
    BY <2>1, <2>2 DEF Waiting, Preds, Released, Submitted, Registered
  <2> QED BY <1>8, <2>3
<1>10. W[cursor] = cursor BY <1>3, <1>4, <1>7, <1>9 DEF Witness
<1>11. ~Submitted(s) BY <1>3, <1>4, <1>7, <1>10
<1>12. /\ Len(tasks) \in Nat /\ Len(tasks') = Len(tasks) + 1
       /\ \A k \in 1..Len(tasks) : tasks'[k] = tasks[k]
       /\ tasks'[Len(tasks) + 1].sys = s /\ tasks'[Len(tasks) + 1].tick = ticks
       /\ Queued' = Queued \cup {s}
  BY <1>6, AppendEffect DEF InSafeTick
<1>13. Queued' = Queued \cup {s} BY <1>12
<1>14. \A j : Pending(j)' <=> Pending(j)
  BY <1>2, <1>6 DEF Pending, Busy, BusyPc
<1>15. \A j : Submitted(j)' <=> Submitted(j) \/ j = s
  BY <1>2, <1>13, <1>14 DEF Submitted
<1>16. \A v \in Worker : Busy(v)' <=> Busy(v)
  BY <1>6 DEF Busy
<1>17. \A j : Waiting(j)' = Waiting(j)
  BY <1>2, <1>5, <1>6, <1>16 DEF Waiting, Released
<1>18. Finished' = Finished
  BY <1>2, <1>5, <1>16 DEF Finished
<1>19. QueueInv'
  <2>1. QueueInv BY DEF InSafeTick, Core
  <2>2. \A k \in 1..Len(tasks) : tasks[k].sys # s
    BY <1>11 DEF Submitted, Queued
  <2>3. \A k \in 1..Len(tasks') : k \in 1..Len(tasks) \/ k = Len(tasks) + 1
    BY <1>12
  <2>4. \A k \in 1..Len(tasks) : (~Pending(tasks[k].sys))'
    <3> SUFFICES ASSUME NEW k \in 1..Len(tasks) PROVE (~Pending(tasks[k].sys))'
      OBVIOUS
    <3>1. PICK q : q = tasks[k].sys OBVIOUS
    <3>2. ~Pending(q)' /\ q = tasks'[k].sys BY <1>12, <1>14, <2>1, <3>1 DEF QueueInv
    <3> QED BY <3>2 DEF Pending
  <2>5. (~Pending(tasks[Len(tasks)].sys))'
    <3>1. ~Pending(s)' BY <1>11, <1>14 DEF Submitted
    <3> QED BY <1>12, <3>1 DEF Pending
  <2>6. \A k \in 1..Len(tasks') :
          /\ tasks'[k].tick = ticks' /\ tasks'[k].sys \in Registered'
          /\ runs'[tasks'[k].sys] = 0 /\ (~Pending(tasks[k].sys))'
    <3>1. runs[s] = 0 BY <1>11 DEF Submitted
    <3> QED BY <1>2, <1>5, <1>12, <2>1, <2>3, <2>4, <2>5, <3>1 DEF QueueInv
  <2>7. \A k, l \in 1..Len(tasks') : tasks'[k].sys = tasks'[l].sys => k = l
    BY <1>12, <2>1, <2>2, <2>3 DEF QueueInv
  <2> QED BY <2>6, <2>7 DEF QueueInv
<1>20. WorkersInv'
  <2>1. WorkersInv BY DEF InSafeTick, Core
  <2> QED BY <1>2, <1>5, <1>6, <1>16, <2>1 DEF WorkersInv, Busy, BusyPc
<1>21. CountersInv'
  <2>1. CountersInv BY DEF InSafeTick, Core
  <2> QED BY <1>2, <1>5, <1>8, <1>15, <1>17, <1>18, <2>1 DEF CountersInv
<1>22. SeedInv'
  <2>1. Witness(W)' BY <1>2, <1>5, <1>7 DEF Witness
  <2>2. \A k \in 1..Len(systems) : W[k] >= cursor + 1 => ~Submitted(systems[k])'
    <3> SUFFICES ASSUME NEW k \in 1..Len(systems), W[k] >= cursor + 1
                 PROVE  ~Submitted(systems[k])'
      OBVIOUS
    <3>1. PICK q : q = systems[k] OBVIOUS
    <3>2. W[k] >= cursor /\ W[k] # cursor BY <1>3
    <3>3. q # s BY <1>3, <1>4, <1>10, <3>1, <3>2 DEF InSafeTick, GraphInv
    <3>4. ~Submitted(q)' BY <1>7, <1>15, <3>1, <3>2, <3>3
    <3>5. q = systems'[k] BY <1>2, <3>1
    <3> QED BY <3>4, <3>5 DEF Submitted, Pending, Queued
  <2> QED BY <1>2, <1>7, <2>1, <2>2 DEF SeedInv
<1> QED BY <1>19, <1>20, <1>21, <1>22 DEF Core

\* tick_parallel_ is entered: no task, no busy worker, all counters fresh.
LEMMA StartStep ==
  ASSUME Typed, GraphInv, QuietInv, tick_parallel, systems # <<>>, orderly'
  PROVE  Core' /\ SeedInv'
<1>1. TypeOK BY DEF Typed
<1>2. /\ mainPc = "idle" /\ built /\ mode = Parallel /\ mainPc' = "seed" /\ cursor' = 1
      /\ orderly /\ SeedSafe /\ runs' = [s \in System |-> 0]
      /\ in_degree' = in_degree_initial /\ completed' = 0
      /\ UNCHANGED <<systems, tasks, pc, job, born, todo, sub>>
  BY DEF tick_parallel, StartTick, callerVars, workerVars
<1>3. tasks' = <<>> /\ \A w \in Worker : pc'[w] \notin BusyPc
  BY <1>2 DEF QuietInv, InTick, Busy
<1>4. Registered' = Registered /\ Registered \subseteq System
  BY <1>1, <1>2, RegisteredType DEF Registered
<1>5. \A s \in Registered : runs'[s] = 0 BY <1>2, <1>4
<1>6. \A s \in Registered : ~Submitted(s)'
  BY <1>3, <1>5 DEF Submitted, Pending, Queued, BusyPc
<1>7. QueueInv' BY <1>3 DEF QueueInv
<1>8. WorkersInv' BY <1>3 DEF WorkersInv, Busy, BusyPc
<1>9. CountersInv'
  <2>1. \A j \in Registered : Waiting(j)' = Preds(Registered, j)
    BY <1>4, <1>5 DEF Waiting, Released, Preds
  <2>2. Finished' = {} BY <1>4, <1>5 DEF Finished
  <2>3. \A j \in Registered : in_degree'[j] = Cardinality(Waiting(j)')
    BY <1>2, <2>1 DEF GraphInv
  <2> QED BY <1>2, <1>4, <1>5, <1>6, <2>2, <2>3, FS_EmptySet DEF CountersInv
<1>10. SeedInv'
  <2>1. PICK W \in [1..Len(systems) -> 1..Len(systems)] : Witness(W)
    BY <1>2 DEF SeedSafe
  <2>2. Witness(W)' BY <1>2, <1>4, <2>1 DEF Witness
  <2>3. \A k \in 1..Len(systems') : ~Submitted(systems[k])'
    <3> SUFFICES ASSUME NEW k \in 1..Len(systems') PROVE ~Submitted(systems[k])'
      OBVIOUS
    <3>1. PICK q : q = systems[k] OBVIOUS
    <3>2. ~Submitted(q)' /\ q = systems'[k] BY <1>2, <1>6, <3>1 DEF Registered
    <3> QED BY <3>2 DEF Submitted, Pending, Queued
  <2> QED BY <1>2, <2>1, <2>2, <2>3 DEF SeedInv
<1> QED BY <1>7, <1>8, <1>9, <1>10 DEF Core

\* When `completed' has reached N every system is finished.
LEMMA AllFinished ==
  ASSUME InSafeTick, completed = Len(systems)
  PROVE  /\ \A s \in Registered : runs[s] = 1
         /\ tasks = <<>>
         /\ \A w \in Worker : ~Busy(w)
<1>1. TypeOK BY DEF InSafeTick, Typed
<1>2. Finished = Registered
  <2>1. IsFiniteSet(Registered) /\ Cardinality(Registered) = Len(systems)
    BY RegisteredCount DEF InSafeTick
  <2>2. Finished \in SUBSET Registered BY DEF Finished
  <2>3. Cardinality(Finished) = Cardinality(Registered)
    BY <2>1 DEF InSafeTick, Core, CountersInv
  <2> QED BY <2>1, <2>2, <2>3, FS_Subset
<1>3. \A s \in Registered : runs[s] # 0 /\ \A w \in Worker : Busy(w) => job[w] # s
  BY <1>2 DEF Finished
<1>4. \A s \in Registered : runs[s] \in Nat
  BY <1>1, RegisteredType DEF TypeOK
<1>5. \A s \in Registered : runs[s] = 1
  BY <1>3, <1>4 DEF InSafeTick, Core, CountersInv
<1>6. \A w \in Worker : ~Busy(w)
  BY <1>3 DEF InSafeTick, Core, WorkersInv
<1>7. \A k \in 1..Len(tasks) : FALSE
  BY <1>3 DEF InSafeTick, Core, QueueInv
<1>8. tasks = <<>> BY <1>1, <1>7 DEF TypeOK
<1> QED BY <1>5, <1>6, <1>8
-----------------------------------------------------------------------------
(* The invariant is inductive.                                             *)

\* The seed loop's part survives a step that submits nothing new.
LEMMA SeedFrame ==
  ASSUME SeedInv, UNCHANGED <<systems, cursor>>, mainPc' = "seed" => mainPc = "seed",
         \A j \in Registered : Submitted(j)' <=> Submitted(j)
  PROVE  SeedInv'
<1> SUFFICES ASSUME mainPc' = "seed"
             PROVE  \E W \in [1..Len(systems) -> 1..Len(systems)] :
                      /\ Witness(W)'
                      /\ \A k \in 1..Len(systems) : W[k] >= cursor => ~Submitted(systems[k])'
  BY DEF SeedInv
<1>1. PICK W \in [1..Len(systems) -> 1..Len(systems)] :
        /\ Witness(W)
        /\ \A k \in 1..Len(systems) : W[k] >= cursor => ~Submitted(systems[k])
  BY DEF SeedInv
<1>2. Witness(W)'
  <2>1. Registered' = Registered BY DEF Registered
  <2> QED BY <1>1, <2>1 DEF Witness
<1>3. \A k \in 1..Len(systems) : W[k] >= cursor => ~Submitted(systems[k])'
  <2> SUFFICES ASSUME NEW k \in 1..Len(systems), W[k] >= cursor
               PROVE  ~Submitted(systems[k])'
    OBVIOUS
  <2>1. PICK q : q = systems[k] OBVIOUS
  <2>2. ~Submitted(q)' /\ q = systems'[k] BY <1>1, <2>1 DEF Registered
  <2> QED BY <2>2 DEF Submitted, Pending, Queued
<1> QED BY <1>1, <1>2, <1>3

\* ... and one in which a worker found itself dep's last predecessor: the
\* witness of dep is then behind the cursor.
LEMMA SeedAfterDrop ==
  ASSUME InSafeTick, SeedInv, UNCHANGED <<systems, cursor, mainPc>>,
         NEW w \in Worker, NEW dep \in Registered,
         job[w] \in Preds(Registered, dep), runs[job[w]] # 0, Waiting(dep) = {job[w]},
         \A j \in Registered : Submitted(j)' <=> Submitted(j) \/ j = dep
  PROVE  SeedInv'
<1> SUFFICES ASSUME mainPc = "seed"
             PROVE  \E W \in [1..Len(systems) -> 1..Len(systems)] :
                      /\ Witness(W)'
                      /\ \A k \in 1..Len(systems) : W[k] >= cursor => ~Submitted(systems[k])'
  BY DEF SeedInv
<1>1. PICK W \in [1..Len(systems) -> 1..Len(systems)] :
        /\ Witness(W)
        /\ \A k \in 1..Len(systems) : W[k] >= cursor => ~Submitted(systems[k])
  BY DEF SeedInv
<1>2. Witness(W)'
  <2>1. Registered' = Registered BY DEF Registered
  <2> QED BY <1>1, <2>1 DEF Witness
<1>3. \A k \in 1..Len(systems) : W[k] >= cursor => ~Submitted(systems[k])'
  <2> SUFFICES ASSUME NEW k \in 1..Len(systems), W[k] >= cursor
               PROVE  ~Submitted(systems[k])'
    OBVIOUS
  <2>1. PICK q : q = systems[k] OBVIOUS
  <2>2. q # dep
    <3> SUFFICES ASSUME q = dep PROVE FALSE
      OBVIOUS
    <3>1. PICK p \in 1..Len(systems) : Edge(systems[p], q) /\ W[p] = W[k]
      BY <1>1, <2>1 DEF Witness
    <3>2. ~Submitted(systems[p]) BY <1>1, <3>1
    <3>3. runs[systems[p]] = 0 BY <3>2 DEF Submitted
    <3>4. systems[p] \in Waiting(dep)
      BY <3>1, <3>3 DEF Waiting, Preds, Released, Registered
    <3> QED BY <3>3, <3>4
  <2>3. ~Submitted(q)' /\ q = systems'[k] BY <1>1, <2>1, <2>2 DEF Registered
  <2> QED BY <2>3 DEF Submitted, Pending, Queued
<1> QED BY <1>1, <1>2, <1>3

TickPart == QuietInv /\ TickInv

\* The steps of a worker.
LEMMA TickWorker ==
  ASSUME Typed, GraphInv, TickPart, NEW w \in Worker, WorkerStep(w) \/ hang(w)
  PROVE  TickPart'
<1>1. TypeOK BY DEF Typed
<1>2. /\ UNCHANGED <<systems, cursor, ticks, orderly>>
      /\ mainPc' \in InTick <=> mainPc \in InTick
      /\ mainPc' = "seed" <=> mainPc = "seed"
  BY DEF WorkerStep, worker_check, finish, drop, submit_dep, count, notify_done,
         hang, callerVars, InTick
<1>3. CASE orderly /\ mainPc \in InTick
  <2>1. InSafeTick /\ SeedInv
    BY <1>3 DEF TickPart, TickInv, InSafeTick, Core
  <2> SUFFICES Core' /\ SeedInv'
    BY <1>2, <1>3 DEF TickPart, QuietInv, TickInv, Core
  <2>2. ASSUME Core', \A j \in Registered : Submitted(j)' <=> Submitted(j)
        PROVE  Core' /\ SeedInv'
    BY <1>2, <2>1, <2>2, SeedFrame
  <2>3. ASSUME UNCHANGED <<tasks, runs, in_degree, completed>>,
               \A v \in Worker : SameBusy(v)
        PROVE  Core' /\ SeedInv'
    BY <1>2, <2>1, <2>2, <2>3, CoreFrame DEF InSafeTick
  <2>4. CASE worker_check(w) /\ tasks # <<>>
    BY <2>1, <2>2, <2>4, TakeStep
  <2>5. CASE worker_check(w) /\ tasks = <<>>
    <3>1. UNCHANGED <<tasks, runs, in_degree, completed, job, born, todo, sub>>
      BY <2>5 DEF worker_check
    <3>2. pc[w] = "check" /\ pc'[w] \notin BusyPc
          /\ \A v \in Worker : v # w => pc'[v] = pc[v]
      BY <1>1, <2>5 DEF worker_check, TypeOK, BusyPc
    <3> QED BY <2>3, <3>1, <3>2 DEF SameBusy, Busy, BusyPc
  <2>6. CASE finish(w)
    BY <2>1, <2>2, <2>6, FinishStep
  <2>7. CASE drop(w)
    <3>1. UNCHANGED mainPc BY <2>7 DEF drop
    <3> QED BY <1>2, <2>1, <2>2, <2>7, <3>1, DropStep, SeedAfterDrop
  <2>8. CASE submit_dep(w)
    BY <2>1, <2>2, <2>8, SubmitStep
  <2>9. CASE count(w)
    BY <2>1, <2>2, <2>9, CountStep
  <2>10. CASE notify_done(w)
    <3>1. /\ UNCHANGED <<tasks, runs, in_degree, completed, todo, sub>>
          /\ pc[w] = "notify" /\ pc'[w] = "check"
          /\ \A v \in Worker : v # w => /\ pc'[v] = pc[v] /\ job'[v] = job[v]
                                        /\ born'[v] = born[v]
      BY <1>1, <2>10 DEF notify_done, TypeOK
    <3> QED BY <2>3, <3>1 DEF SameBusy, Busy, BusyPc
  <2>11. CASE hang(w)
    <3>1. /\ UNCHANGED <<tasks, runs, in_degree, completed, job, born, todo, sub>>
          /\ pc[w] \in TaskPc /\ born[w] # ticks /\ pc'[w] = "hung"
          /\ \A v \in Worker : v # w => pc'[v] = pc[v]
      BY <1>1, <1>3, <2>11 DEF hang, Dead, workerVars, TypeOK
    <3>2. ~Busy(w) BY <2>1, <3>1 DEF InSafeTick, Core, WorkersInv
    <3> QED BY <2>3, <3>1, <3>2 DEF SameBusy, Busy, BusyPc
  <2> QED BY <2>4, <2>5, <2>6, <2>7, <2>8, <2>9, <2>10, <2>11 DEF WorkerStep
<1>4. CASE orderly /\ mainPc \notin InTick
  <2>1. tasks = <<>> /\ \A v \in Worker : ~Busy(v)
    BY <1>4 DEF TickPart, QuietInv
  <2>2. worker_check(w) \/ notify_done(w) \/ hang(w)
    BY <2>1 DEF WorkerStep, finish, drop, submit_dep, count, Busy, BusyPc
  <2>3. tasks' = <<>> /\ \A v \in Worker : pc'[v] \notin BusyPc
    BY <1>1, <2>1, <2>2 DEF worker_check, notify_done, hang, Busy, BusyPc, TypeOK
  <2> QED BY <1>2, <1>4, <2>3 DEF TickPart, QuietInv, TickInv, Busy
<1>5. CASE ~orderly
  BY <1>2, <1>5 DEF TickPart, QuietInv, TickInv
<1> QED BY <1>3, <1>4, <1>5

\* The steps of the caller.
LEMMA TickCaller ==
  ASSUME Typed, GraphInv, TickPart, Caller \/ Main \/ spurious_wakeup \/ UNCHANGED vars
  PROVE  TickPart'
<1>1. TypeOK BY DEF Typed
<1>2. ASSUME UNCHANGED <<orderly, tasks>>, mainPc \notin InTick, mainPc' \notin InTick,
             \A w \in Worker : pc'[w] \in BusyPc => Busy(w)
      PROVE  TickPart'
  BY <1>2 DEF TickPart, QuietInv, TickInv, Busy
<1>3. ASSUME UNCHANGED <<systems, ticks, tasks, runs, in_degree, completed, orderly>>,
             mainPc \in InTick, mainPc' \in InTick,
             mainPc' = "seed" => mainPc = "seed", UNCHANGED cursor \/ mainPc' # "seed",
             \A w \in Worker : SameBusy(w)
      PROVE  TickPart'
  <2>1. CASE orderly
    <3>1. Core /\ SeedInv BY <1>3, <2>1 DEF TickPart, TickInv, Core
    <3>2. Core' /\ \A j \in Registered : Submitted(j)' <=> Submitted(j)
      BY <1>3, <3>1, CoreFrame
    <3>3. SeedInv'
      <4>1. CASE UNCHANGED cursor BY <1>3, <3>1, <3>2, <4>1, SeedFrame
      <4>2. CASE mainPc' # "seed" BY <4>2 DEF SeedInv
      <4> QED BY <1>3, <4>1, <4>2
    <3> QED BY <1>3, <3>2, <3>3 DEF TickPart, QuietInv, TickInv, Core
  <2>2. CASE ~orderly
    BY <1>3, <2>2 DEF TickPart, QuietInv, TickInv
  <2> QED BY <2>1, <2>2
<1>4. ASSUME NEW s \in System, register_system(s) PROVE TickPart'
  BY <1>2, <1>4 DEF register_system, InTick, Busy
<1>5. CASE build_graph
  BY <1>1, <1>2, <1>5 DEF build_graph, InTick, Busy, BusyPc, TypeOK
<1>6. CASE tick_unbuilt \/ tick_sequential \/ seq_step \/ join
  BY <1>2, <1>6 DEF tick_unbuilt, tick_sequential, StartTick, seq_step, join, InTick, Busy
<1>7. CASE destroy
  BY <1>1, <1>2, <1>7 DEF destroy, InTick, Busy, BusyPc, TypeOK
<1>8. CASE tick_parallel
  <2>1. CASE systems = <<>>
    BY <1>2, <1>8, <2>1 DEF tick_parallel, StartTick, InTick, Busy
  <2>2. CASE systems # <<>>
    <3>1. mainPc' \in InTick BY <1>8, <2>2 DEF tick_parallel, InTick
    <3>2. orderly' => Core' /\ SeedInv' BY <1>8, <2>2, StartStep DEF TickPart
    <3> QED BY <3>1, <3>2 DEF TickPart, QuietInv, TickInv, Core
  <2> QED BY <2>1, <2>2
<1>9. CASE seed
  <2>1. CASE cursor <= Len(systems) /\ in_degree[systems[cursor]] = 0
    <3>1. mainPc \in InTick /\ mainPc' \in InTick /\ UNCHANGED orderly
      BY <1>9, <2>1 DEF seed, InTick
    <3>2. orderly => Core' /\ SeedInv'
      BY <1>9, <2>1, <3>1, SeedStep DEF TickPart, TickInv, InSafeTick, Core
    <3> QED BY <3>1, <3>2 DEF TickPart, QuietInv, TickInv, Core
  <2>2. CASE cursor <= Len(systems) /\ in_degree[systems[cursor]] # 0
    <3>1. /\ UNCHANGED <<systems, ticks, tasks, runs, in_degree, completed, orderly, pc,
                         job, born, todo, sub, mainPc>>
          /\ mainPc = "seed" /\ cursor' = cursor + 1
      BY <1>9, <2>2 DEF seed, callerVars, workerVars
    <3>2. \A w \in Worker : SameBusy(w) BY <3>1 DEF SameBusy, Busy
    <3>3. CASE orderly
      <4>1. Core /\ SeedInv BY <3>1, <3>3 DEF TickPart, TickInv, Core, InTick
      <4>2. Core' /\ \A j : Submitted(j)' <=> Submitted(j)
        BY <3>1, <3>2, <4>1, CoreFrame
      <4>3. PICK W \in [1..Len(systems) -> 1..Len(systems)] :
              /\ Witness(W)
              /\ \A k \in 1..Len(systems) : W[k] >= cursor => ~Submitted(systems[k])
        BY <3>1, <4>1 DEF SeedInv
      <4>4. Witness(W)'
        <5>1. Registered' = Registered BY <3>1 DEF Registered
        <5> QED BY <3>1, <4>3, <5>1 DEF Witness
      <4>5. \A k \in 1..Len(systems) : W[k] >= cursor + 1 => ~Submitted(systems[k])'
        <5> SUFFICES ASSUME NEW k \in 1..Len(systems), W[k] >= cursor + 1
                     PROVE  ~Submitted(systems[k])'
          OBVIOUS
        <5>1. W[k] \in 1..Len(systems) BY <4>3
        <5>2. cursor \in Nat /\ Len(systems) \in Nat BY <1>1 DEF TypeOK
        <5>3. W[k] >= cursor BY <5>1, <5>2
        <5>4. ~Submitted(systems[k]) BY <4>3, <5>3
        <5> QED BY <3>1, <5>4 DEF Submitted, Pending, Queued
      <4>6. SeedInv' BY <3>1, <4>3, <4>4, <4>5 DEF SeedInv
      <4> QED BY <3>1, <4>2, <4>6 DEF TickPart, QuietInv, TickInv, Core, InTick
    <3>4. CASE ~orderly
      BY <3>1, <3>4 DEF TickPart, QuietInv, TickInv
    <3> QED BY <3>3, <3>4
  <2>3. CASE ~(cursor <= Len(systems))
    <3>1. /\ UNCHANGED <<systems, ticks, tasks, runs, in_degree, completed, orderly, pc,
                         job, born, todo, sub>>
          /\ mainPc = "seed" /\ mainPc' = "wait"
      BY <1>9, <2>3 DEF seed, callerVars, workerVars
    <3>2. \A w \in Worker : SameBusy(w) BY <3>1 DEF SameBusy, Busy
    <3> QED BY <1>3, <3>1, <3>2 DEF InTick
  <2> QED BY <2>1, <2>2, <2>3
<1>10. CASE wait_done
  <2>1. UNCHANGED <<systems, ticks, tasks, runs, in_degree, completed, orderly, pc,
                    job, born, todo, sub, cursor>> /\ mainPc = "wait"
    BY <1>10 DEF wait_done, callerVars, workerVars
  <2>2. CASE completed = Len(systems)
    <3>1. mainPc' = "idle" BY <1>10, <2>2 DEF wait_done
    <3>2. orderly => tasks = <<>> /\ \A w \in Worker : ~Busy(w)
      BY <2>1, <2>2, AllFinished DEF TickPart, TickInv, InSafeTick, Core, InTick
    <3> QED BY <2>1, <3>1, <3>2 DEF TickPart, QuietInv, TickInv, InTick, Busy
  <2>3. CASE completed # Len(systems)
    <3>1. mainPc' = "asleep" BY <1>10, <2>3 DEF wait_done
    <3>2. \A w \in Worker : SameBusy(w) BY <2>1 DEF SameBusy, Busy
    <3> QED BY <1>3, <2>1, <3>1, <3>2 DEF InTick
  <2> QED BY <2>2, <2>3
<1>11. CASE spurious_wakeup
  <2>1. UNCHANGED <<systems, ticks, tasks, runs, in_degree, completed, orderly, cursor,
                    job, born, todo, sub>>
    BY <1>11 DEF spurious_wakeup, callerVars, workerVars
  <2>2. \A w \in Worker : SameBusy(w)
    BY <1>1, <1>11, <2>1 DEF spurious_wakeup, SameBusy, Busy, BusyPc, TypeOK
  <2>3. mainPc' = mainPc \/ (mainPc = "asleep" /\ mainPc' = "wait")
    BY <1>11 DEF spurious_wakeup
  <2>4. CASE mainPc \in InTick BY <1>3, <2>1, <2>2, <2>3, <2>4 DEF InTick
  <2>5. CASE mainPc \notin InTick BY <1>2, <2>1, <2>2, <2>3, <2>5 DEF InTick, SameBusy
  <2> QED BY <2>4, <2>5
<1>12. CASE UNCHANGED vars
  <2>1. UNCHANGED <<systems, ticks, tasks, runs, in_degree, completed, orderly, cursor,
                    pc, job, born, todo, sub, mainPc>>
    BY <1>12 DEF vars, callerVars, workerVars
  <2>2. \A w \in Worker : SameBusy(w) BY <2>1 DEF SameBusy, Busy
  <2>4. CASE mainPc \in InTick BY <1>3, <2>1, <2>2, <2>4
  <2>5. CASE mainPc \notin InTick BY <1>2, <2>1, <2>2, <2>5 DEF SameBusy
  <2> QED BY <2>4, <2>5
<1> QED BY <1>4, <1>5, <1>6, <1>7, <1>8, <1>9, <1>10, <1>11, <1>12 DEF Caller, Main

\* A scheduler just constructed satisfies the inductive invariant.
LEMMA InvInit == Init => SchedulerInv
<1> SUFFICES ASSUME Init PROVE SchedulerInv
  OBVIOUS
<1>1. Typed BY TypedInit
<1>2. /\ systems = <<>> /\ built = FALSE /\ mainPc = "idle" /\ tasks = <<>>
      /\ \A w \in Worker : pc[w] = "unborn"
  BY DEF Init
<1>3. GraphInv BY <1>2 DEF GraphInv, InTick
<1>4. SequentialInv /\ TickInv BY <1>2 DEF SequentialInv, TickInv, InTick
<1>5. QuietInv BY <1>2 DEF QuietInv, Busy, BusyPc
<1> QED BY <1>1, <1>3, <1>4, <1>5 DEF SchedulerInv, Typed

\* Every step of the caller and of the workers preserves the inductive invariant.
LEMMA InvNext == SchedulerInv /\ [Next]_vars => SchedulerInv'
<1> SUFFICES ASSUME SchedulerInv, [Next]_vars PROVE SchedulerInv'
  OBVIOUS
<1>1. Typed /\ GraphInv /\ SequentialInv /\ TickPart
  BY DEF SchedulerInv, Typed, TickPart
<1>2. Typed' /\ GraphInv' /\ SequentialInv'
  BY <1>1, TypedNext, GraphStep, SequentialStep
<1>3. TickPart'
  BY <1>1, TickWorker, TickCaller DEF Next
<1> QED BY <1>2, <1>3 DEF SchedulerInv, Typed, TickPart

\* The invariant that carries the argument holds in every reachable state, for
\* any set of systems, any pool and any number of ticks.
THEOREM SchedulerInvariant == Spec => []SchedulerInv
BY InvInit, InvNext, PTL DEF Spec
-----------------------------------------------------------------------------
(* What follows from it.                                                   *)

\* What the invariant says of a worker that is inside System::tick.
LEMMA RunningFacts ==
  ASSUME SchedulerInv, orderly, NEW w \in Worker, Running(w)
  PROVE  /\ InSafeTick /\ Busy(w)
         /\ job[w] \in Registered /\ runs[job[w]] = 1
         /\ \A i \in Preds(Registered, job[w]) : Released(i, job[w])
<1>1. Busy(w) BY DEF Running, Busy, BusyPc
<1>2. mainPc \in InTick BY <1>1 DEF SchedulerInv, QuietInv
<1>3. InSafeTick
  BY <1>2 DEF SchedulerInv, TickInv, InSafeTick, Core, Typed
<1>4. job[w] \in Registered /\ runs[job[w]] = 1
  BY <1>1, <1>3 DEF InSafeTick, Core, WorkersInv
<1>5. Waiting(job[w]) = {}
  BY <1>3, <1>4 DEF InSafeTick, Core, CountersInv, Submitted
<1> QED BY <1>1, <1>3, <1>4, <1>5 DEF Waiting

\* In every parallel tick whose registration order is safe, no two conflicting
\* systems are inside System::tick at once.
THEOREM SchedulerHazardExclusion == Spec => []HazardExclusion
<1>1. SchedulerInv => HazardExclusion
  <2> SUFFICES ASSUME SchedulerInv, orderly, NEW v \in Worker, NEW w \in Worker,
                      v # w, Running(v), Running(w)
               PROVE  job[v] # job[w] /\ ~have_hazard(job[v], job[w])
    BY DEF HazardExclusion
  <2>1. job[v] # job[w]
    BY RunningFacts DEF InSafeTick, Core, WorkersInv
  <2>2. ~Released(job[v], job[w]) /\ ~Released(job[w], job[v])
    BY RunningFacts DEF Released, Running
  <2>3. ~Edge(job[v], job[w]) /\ ~Edge(job[w], job[v])
    BY <2>2, RunningFacts DEF Preds
  <2> QED BY <2>1, <2>3, RunningFacts, ConflictOrdered DEF InSafeTick
<1> QED BY <1>1, SchedulerInvariant, PTL

\* ... and every conflicting system with a lesser name has run, once, before.
THEOREM SchedulerLexOrder == Spec => []LexOrder
<1>1. SchedulerInv => LexOrder
  <2> SUFFICES ASSUME SchedulerInv, orderly, NEW w \in Worker, Running(w),
                      NEW i \in Preds(Registered, job[w])
               PROVE  runs[i] = 1 /\ \A v \in Worker : Running(v) => job[v] # i
    BY DEF LexOrder
  <2>1. Released(i, job[w]) /\ InSafeTick BY RunningFacts
  <2>2. i \in Registered /\ runs[i] \in Nat /\ runs[i] # 0
    BY <2>1, RegisteredType DEF InSafeTick, Typed, TypeOK, Released, Preds
  <2>3. runs[i] = 1 BY <2>1, <2>2 DEF InSafeTick, Core, CountersInv
  <2>4. \A v \in Worker : Running(v) => job[v] # i
    BY <2>1 DEF Released, Running, Busy, BusyPc
  <2> QED BY <2>3, <2>4
<1> QED BY <1>1, SchedulerInvariant, PTL

\* tick() returns, in either mode, only when every registered system has run
\* exactly once and no worker is inside a system.
THEOREM SchedulerExactlyOnce == Spec => ExactlyOnce
<1>1. SchedulerInv /\ [Next]_vars =>
        [orderly /\ events' # events =>
           /\ \A s \in Registered : runs'[s] = 1
           /\ \A w \in Worker : ~Running(w)]_vars
  <2> SUFFICES ASSUME SchedulerInv, Next, orderly, events' # events
               PROVE  /\ \A s \in Registered : runs'[s] = 1
                      /\ \A w \in Worker : ~Running(w)
    OBVIOUS
  <2>1. seq_step \/ tick_parallel \/ wait_done
    BY DEF Next, Caller, Main, WorkerStep, register_system, build_graph, tick_unbuilt,
        tick_sequential, destroy, seed, join, spurious_wakeup, worker_check, finish,
        drop, submit_dep, count, notify_done, hang
  <2>2. CASE seq_step
    <3>1. left = {} /\ UNCHANGED runs /\ mainPc = "seq" BY <2>2 DEF seq_step
    <3>2. \A w \in Worker : pc[w] = "unborn" BY <3>1 DEF SchedulerInv, GraphInv
    <3> QED BY <3>1, <3>2 DEF SchedulerInv, SequentialInv, Running
  <2>3. CASE tick_parallel
    <3>1. systems = <<>> /\ mainPc = "idle" BY <2>3 DEF tick_parallel, StartTick
    <3>2. Registered = {} BY <3>1 DEF Registered
    <3>3. \A w \in Worker : ~Busy(w) BY <3>1 DEF SchedulerInv, QuietInv, InTick
    <3> QED BY <3>2, <3>3 DEF Running, Busy, BusyPc
  <2>4. CASE wait_done
    <3>1. completed = Len(systems) /\ UNCHANGED runs /\ mainPc = "wait"
      BY <2>4 DEF wait_done
    <3>2. InSafeTick
      BY <3>1 DEF SchedulerInv, TickInv, InSafeTick, Core, Typed, InTick
    <3> QED BY <3>1, <3>2, AllFinished DEF Running, Busy, BusyPc
  <2> QED BY <2>1, <2>2, <2>3, <2>4
<1> QED BY <1>1, SchedulerInvariant, PTL DEF Spec, ExactlyOnce
=============================================================================
