----------------------------- MODULE Scheduler -----------------------------
(***************************************************************************)
(* SystemScheduler and its detail::ThreadPool (src/core/scheduler.cpp).    *)
(*                                                                         *)
(* One caller thread registers systems, builds the hazard graph, calls     *)
(* tick() and finally destroys the scheduler.  In Parallel mode tick()     *)
(* hands the systems to the pool's workers; every access the workers and   *)
(* the caller make to shared state outside a mutex is a step of its own.   *)
(*                                                                         *)
(* The counters, the mutex and the condition variable of one parallel tick *)
(* are locals of tick_parallel_: they are dead once it has returned.  A    *)
(* worker that still uses them then has undefined behaviour, recorded in   *)
(* `ub'.  What the build does there is one of two things: it finds the     *)
(* memory as it was, or as the next tick's frame at the same address, and  *)
(* goes on; or it blocks for good on the garbage it takes for a mutex.     *)
(***************************************************************************)
EXTENDS HazardGraph, Integers, Sequences, FiniteSets

CONSTANTS System,    \* the System objects that may be registered
          NoSystem,  \* no system: a worker without a task
          Worker,    \* the threads of the pool
          MaxTicks,  \* bound: calls of tick() explored
          MaxRuns    \* bound: runs of systems explored before the last tick

Parallel   == "Parallel"
Sequential == "Sequential"

ASSUME SchedulerAssumption ==
  /\ IsFiniteSet(System) /\ NoSystem \notin System
  /\ Worker # {} /\ MaxTicks \in Nat /\ MaxRuns \in Nat
  /\ \A s \in System : Name(s) \in Nat

VARIABLES
  mode,               \* mode_, fixed at construction
  systems,            \* systems_, in the order of registration
  built,              \* built_
  order,              \* order_: the systems it lists, by name
  dependents,         \* dependents_
  in_degree_initial,  \* in_degree_initial_
  mainPc,             \* where the caller is
  ticks,              \* number of tick() calls so far
  cursor,             \* index of the seed loop
  left,               \* Sequential: the part of order_ not yet visited
  in_degree,          \* the per-tick atomic counters
  completed,          \* the per-tick atomic count of finished tasks
  events,             \* tick_completed events emitted
  tasks,              \* ThreadPool::tasks_
  stop,               \* ThreadPool::stop_
  pc, job, born, todo, sub,  \* per worker: where it is, its task's system,
                      \* the tick that submitted the task, the dependents
                      \* still to be decremented, the one to be dispatched
  runs,               \* history: System::tick calls in the current tick
  orderly,            \* history: every parallel tick began SeedSafe
  ub                  \* history: a worker used a dead frame

callerVars == <<mode, systems, built, order, dependents, in_degree_initial>>
workerVars == <<job, born, todo, sub>>
vars == <<callerVars, mainPc, ticks, cursor, left, in_degree, completed,
          events, tasks, stop, pc, workerVars, runs, orderly, ub>>

Registered == {systems[k] : k \in 1..Len(systems)}
Task       == [sys : System, tick : Nat]
InTick     == {"seed", "wait", "asleep"}       \* inside tick_parallel_
TaskPc     == {"run", "drop", "submit", "notify"}
WorkerPc   == TaskPc \cup {"unborn", "check", "asleep", "exited", "hung"}
-----------------------------------------------------------------------------
(* Construction, registration, build_graph().                              *)

Init ==
  /\ mode \in {Parallel, Sequential}
  /\ systems = <<>> /\ built = FALSE /\ order = {}
  /\ dependents = [s \in System |-> {}]
  /\ in_degree_initial = [s \in System |-> 0]
  /\ mainPc = "idle" /\ ticks = 0 /\ cursor = 1 /\ left = {}
  /\ in_degree = [s \in System |-> 0] /\ completed = 0 /\ events = 0
  /\ tasks = <<>> /\ stop = FALSE
  /\ pc   = [w \in Worker |-> "unborn"]
  /\ job  = [w \in Worker |-> NoSystem] /\ sub = job
  /\ born = [w \in Worker |-> 0] /\ todo = [w \in Worker |-> {}]
  /\ runs = [s \in System |-> 0] /\ orderly = TRUE /\ ub = FALSE

\* A system whose name is taken is refused (DuplicateName) and nothing changes.
register_system(s) ==
  /\ mainPc = "idle"
  /\ \A t \in Registered : Name(t) # Name(s)
  /\ built' = FALSE
  /\ systems' = Append(systems, s)
  /\ UNCHANGED <<mode, order, dependents, in_degree_initial, mainPc, ticks,
                 cursor, left, in_degree, completed, events, tasks, stop, pc,
                 workerVars, runs, orderly, ub>>

\* Mutant: a dependent's counter is set to one instead of incremented.
build_hazard_graph_sets_one ==
  /\ dependents' = [s \in System |->
       IF s \in Registered THEN Succs(Registered, s) ELSE {}]
  /\ in_degree_initial' = [s \in System |->
       IF s \in Registered /\ Preds(Registered, s) # {} THEN 1 ELSE 0]

build_hazard_graph ==
  /\ dependents' = [s \in System |->
       IF s \in Registered THEN Succs(Registered, s) ELSE {}]
  /\ in_degree_initial' = [s \in System |->
       IF s \in Registered THEN Cardinality(Preds(Registered, s)) ELSE 0]

\* The first parallel build creates the pool; its workers enter their loop.
build_graph ==
  /\ mainPc = "idle" /\ ~built
  /\ built' = TRUE
  /\ order' = Registered
  /\ IF mode = Parallel
     THEN /\ build_hazard_graph
          /\ pc' = [w \in Worker |->
                      IF pc[w] = "unborn" THEN "check" ELSE pc[w]]
     ELSE UNCHANGED <<dependents, in_degree_initial, pc>>
  /\ UNCHANGED <<mode, systems, mainPc, ticks, cursor, left, in_degree,
                 completed, events, tasks, stop, workerVars, runs, orderly, ub>>
-----------------------------------------------------------------------------
(* tick(): the caller's side.                                              *)

\* Every system with predecessors has, among the predecessor-free systems it
\* depends on, one that was registered after it.  W names it, by index.
Witness(W) ==
  \A k \in 1..Len(systems) :
    IF Preds(Registered, systems[k]) = {}
    THEN W[k] = k
    ELSE /\ W[k] > k
         /\ \E p \in 1..Len(systems) :
              Edge(systems[p], systems[k]) /\ W[p] = W[k]

\* The registration order is one for which the seed loop cannot meet a
\* counter that a worker has already brought to zero.
SeedSafe == \E W \in [1..Len(systems) -> 1..Len(systems)] : Witness(W)

\* scheduler_assert_fail: the process ends.
tick_unbuilt ==
  /\ mainPc = "idle" /\ ~built
  /\ mainPc' = "aborted"
  /\ UNCHANGED <<callerVars, ticks, cursor, left, in_degree, completed, events,
                 tasks, stop, pc, workerVars, runs, orderly, ub>>

\* The system registered last has predecessors: no such order is SeedSafe.
LastWaits ==
  mode = Parallel /\ systems # <<>> /\ in_degree_initial[systems[Len(systems)]] # 0

\* Small sets of systems are explored for more ticks than large ones, and so
\* are orders in which the seed loop may keep ahead of the workers.
Explored ==
  /\ ticks < MaxTicks
  /\ (IF LastWaits THEN ticks + 1 ELSE ticks) * Len(systems) <= MaxRuns

StartTick ==
  /\ mainPc = "idle" /\ built /\ Explored
  /\ ticks' = ticks + 1
  /\ runs' = [s \in System |-> 0]

tick_sequential ==
  /\ StartTick /\ mode = Sequential
  /\ left' = order
  /\ mainPc' = "seq"
  /\ UNCHANGED <<callerVars, cursor, in_degree, completed, events, tasks, stop,
                 pc, workerVars, orderly, ub>>

\* One iteration of the loop over order_, then emit_tick_event_.
seq_step ==
  /\ mainPc = "seq"
  /\ \/ \E s \in left :
          /\ IsFirst(left, s)
          /\ runs' = [runs EXCEPT ![s] = @ + 1]
          /\ left' = left \ {s}
          /\ UNCHANGED <<mainPc, events>>
     \/ /\ left = {}
        /\ mainPc' = "idle" /\ events' = events + 1
        /\ UNCHANGED <<runs, left>>
  /\ UNCHANGED <<callerVars, ticks, cursor, in_degree, completed, tasks, stop,
                 pc, workerVars, orderly, ub>>

\* Mutant: `completed' keeps the last tick's count.
tick_parallel_keeps_count ==
  /\ StartTick /\ mode = Parallel
  /\ IF systems = <<>>
     THEN /\ events' = events + 1
          /\ UNCHANGED <<mainPc, cursor, in_degree, completed, orderly>>
     ELSE /\ mainPc' = "seed" /\ cursor' = 1
          /\ in_degree' = in_degree_initial
          /\ orderly' = (orderly /\ SeedSafe)
          /\ UNCHANGED <<events, completed>>
  /\ UNCHANGED <<callerVars, left, tasks, stop, pc, workerVars, ub>>

\* With no system registered tick_parallel_ returns at once.
tick_parallel ==
  /\ StartTick /\ mode = Parallel
  /\ IF systems = <<>>
     THEN /\ events' = events + 1
          /\ UNCHANGED <<mainPc, cursor, in_degree, completed, orderly>>
     ELSE /\ mainPc' = "seed" /\ cursor' = 1
          /\ in_degree' = in_degree_initial /\ completed' = 0
          /\ orderly' = (orderly /\ SeedSafe)
          /\ UNCHANGED events
  /\ UNCHANGED <<callerVars, left, tasks, stop, pc, workerVars, ub>>

\* cv_.notify_one(), for the program counters f: one sleeping worker wakes.
notify_one(f) ==
  LET sleeping == {w \in Worker : f[w] = "asleep"}
  IN  IF sleeping = {} THEN pc' = f
      ELSE \E w \in sleeping : pc' = [f EXCEPT ![w] = "check"]

\* dispatch(i): the task goes to the tail of the pool's queue.
dispatch(i, f) ==
  /\ tasks' = Append(tasks, [sys |-> i, tick |-> ticks])
  /\ notify_one(f)

\* One iteration of the seed loop: the counter is read while workers run.
seed ==
  /\ mainPc = "seed"
  /\ IF cursor <= Len(systems)
     THEN /\ IF in_degree[systems[cursor]] = 0
             THEN dispatch(systems[cursor], pc)
             ELSE UNCHANGED <<tasks, pc>>
          /\ cursor' = cursor + 1 /\ UNCHANGED mainPc
     ELSE mainPc' = "wait" /\ UNCHANGED <<cursor, tasks, pc>>
  /\ UNCHANGED <<callerVars, ticks, left, in_degree, completed, events, stop,
                 workerVars, runs, orderly, ub>>

\* Mutant: the predicate is satisfied one system too early.
wait_done_early ==
  /\ mainPc = "wait"
  /\ IF completed + 1 >= Len(systems)
     THEN mainPc' = "idle" /\ events' = events + 1
     ELSE mainPc' = "asleep" /\ UNCHANGED events
  /\ UNCHANGED <<callerVars, ticks, cursor, left, in_degree, completed, tasks,
                 stop, pc, workerVars, runs, orderly, ub>>

\* done_cv.wait: the predicate is tested and the thread put to sleep under
\* done_mtx.  When it holds, tick() returns after emit_tick_event_.
wait_done ==
  /\ mainPc = "wait"
  /\ IF completed = Len(systems)
     THEN mainPc' = "idle" /\ events' = events + 1
     ELSE mainPc' = "asleep" /\ UNCHANGED events
  /\ UNCHANGED <<callerVars, ticks, cursor, left, in_degree, completed, tasks,
                 stop, pc, workerVars, runs, orderly, ub>>

\* Mutant: the sleeping workers are not notified.
destroy_silent ==
  /\ mainPc = "idle"
  /\ stop' = TRUE /\ mainPc' = "joining"
  /\ UNCHANGED <<callerVars, ticks, cursor, left, in_degree, completed, events,
                 tasks, pc, workerVars, runs, orderly, ub>>

\* ~ThreadPool: stop_ is set, every worker is woken, then joined.
destroy ==
  /\ mainPc = "idle"
  /\ stop' = TRUE /\ mainPc' = "joining"
  /\ pc' = [w \in Worker |-> IF pc[w] = "asleep" THEN "check" ELSE pc[w]]
  /\ UNCHANGED <<callerVars, ticks, cursor, left, in_degree, completed, events,
                 tasks, workerVars, runs, orderly, ub>>

join ==
  /\ mainPc = "joining"
  /\ \A w \in Worker : pc[w] \in {"unborn", "exited"}
  /\ mainPc' = "gone"
  /\ UNCHANGED <<callerVars, ticks, cursor, left, in_degree, completed, events,
                 tasks, stop, pc, workerVars, runs, orderly, ub>>
-----------------------------------------------------------------------------
(* worker_loop_ and the task submitted by dispatch.                        *)

\* The frame of tick t is gone.
Dead(t) == t # ticks \/ mainPc \notin InTick

\* Using a local of tick_parallel_.
Touch(t) == ub' = (ub \/ Dead(t))

\* Under mtx_: take the front task, or exit, or sleep.
worker_check(w) ==
  /\ pc[w] = "check"
  /\ \/ /\ tasks # <<>>
        /\ LET t == Head(tasks) IN
             /\ tasks' = Tail(tasks)
             /\ pc'   = [pc EXCEPT ![w] = "run"]
             /\ job'  = [job EXCEPT ![w] = t.sys]
             /\ born' = [born EXCEPT ![w] = t.tick]
             /\ runs' = [runs EXCEPT ![t.sys] = @ + 1]
             /\ Touch(t.tick)
     \/ /\ tasks = <<>>
        /\ pc' = [pc EXCEPT ![w] = IF stop THEN "exited" ELSE "asleep"]
        /\ UNCHANGED <<tasks, job, born, runs, ub>>
  /\ UNCHANGED <<callerVars, mainPc, ticks, cursor, left, in_degree, completed,
                 events, stop, todo, sub, orderly>>

\* System::tick returns; the timings are written.
finish(w) ==
  /\ pc[w] = "run"
  /\ pc' = [pc EXCEPT ![w] = "drop"]
  /\ todo' = [todo EXCEPT ![w] = dependents[job[w]]]
  /\ Touch(born[w])
  /\ UNCHANGED <<callerVars, mainPc, ticks, cursor, left, in_degree, completed,
                 events, tasks, stop, job, born, sub, runs, orderly>>

\* Mutant: any predecessor, not only the last, dispatches dep.
drop_any(w) ==
  /\ pc[w] = "drop"
  /\ \E dep \in todo[w] :
       /\ IsFirst(todo[w], dep)
       /\ todo' = [todo EXCEPT ![w] = @ \ {dep}]
       /\ in_degree' = [in_degree EXCEPT ![dep] = @ - 1]
       /\ pc' = [pc EXCEPT ![w] = "submit"]
       /\ sub' = [sub EXCEPT ![w] = dep]
  /\ Touch(born[w])
  /\ UNCHANGED <<callerVars, mainPc, ticks, cursor, left, completed, events,
                 tasks, stop, job, born, runs, orderly>>

\* in_degree[dep].fetch_sub(1) == 1: the last predecessor dispatches dep.
drop(w) ==
  /\ pc[w] = "drop"
  /\ \E dep \in todo[w] :
       /\ IsFirst(todo[w], dep)
       /\ todo' = [todo EXCEPT ![w] = @ \ {dep}]
       /\ in_degree' = [in_degree EXCEPT ![dep] = @ - 1]
       /\ IF in_degree[dep] = 1
          THEN /\ pc' = [pc EXCEPT ![w] = "submit"]
               /\ sub' = [sub EXCEPT ![w] = dep]
          ELSE UNCHANGED <<pc, sub>>
  /\ Touch(born[w])
  /\ UNCHANGED <<callerVars, mainPc, ticks, cursor, left, completed, events,
                 tasks, stop, job, born, runs, orderly>>

submit_dep(w) ==
  /\ pc[w] = "submit"
  /\ dispatch(sub[w], [pc EXCEPT ![w] = "drop"])
  /\ sub' = [sub EXCEPT ![w] = NoSystem]
  /\ Touch(born[w])
  /\ UNCHANGED <<callerVars, mainPc, ticks, cursor, left, in_degree, completed,
                 events, stop, job, born, todo, runs, orderly>>

\* Mutant: the value before the addition is compared with N.
count_old_value(w) ==
  /\ pc[w] = "drop" /\ todo[w] = {}
  /\ completed' = completed + 1
  /\ IF completed = Len(systems)
     THEN pc' = [pc EXCEPT ![w] = "notify"] /\ UNCHANGED <<job, born>>
     ELSE /\ pc'   = [pc EXCEPT ![w] = "check"]
          /\ job'  = [job EXCEPT ![w] = NoSystem]
          /\ born' = [born EXCEPT ![w] = 0]
  /\ Touch(born[w])
  /\ UNCHANGED <<callerVars, mainPc, ticks, cursor, left, in_degree, events,
                 tasks, stop, todo, sub, runs, orderly>>

\* completed.fetch_add(1) + 1 == N.
count(w) ==
  /\ pc[w] = "drop" /\ todo[w] = {}
  /\ completed' = completed + 1
  /\ IF completed + 1 = Len(systems)
     THEN pc' = [pc EXCEPT ![w] = "notify"] /\ UNCHANGED <<job, born>>
     ELSE /\ pc'   = [pc EXCEPT ![w] = "check"]
          /\ job'  = [job EXCEPT ![w] = NoSystem]
          /\ born' = [born EXCEPT ![w] = 0]
  /\ Touch(born[w])
  /\ UNCHANGED <<callerVars, mainPc, ticks, cursor, left, in_degree, events,
                 tasks, stop, todo, sub, runs, orderly>>

\* done_cv.notify_one() under done_mtx.
notify_done(w) ==
  /\ pc[w] = "notify"
  /\ mainPc' = IF mainPc = "asleep" THEN "wait" ELSE mainPc
  /\ pc'   = [pc EXCEPT ![w] = "check"]
  /\ job'  = [job EXCEPT ![w] = NoSystem]
  /\ born' = [born EXCEPT ![w] = 0]
  /\ Touch(born[w])
  /\ UNCHANGED <<callerVars, ticks, cursor, left, in_degree, completed, events,
                 tasks, stop, todo, sub, runs, orderly>>

\* The other outcome of using a dead frame: the worker never comes back.
hang(w) ==
  /\ pc[w] \in TaskPc /\ Dead(born[w])
  /\ pc' = [pc EXCEPT ![w] = "hung"] /\ ub' = TRUE
  /\ UNCHANGED <<callerVars, mainPc, ticks, cursor, left, in_degree, completed,
                 events, tasks, stop, workerVars, runs, orderly>>

\* Condition variables may wake a thread without a notification.
spurious_wakeup ==
  /\ \/ /\ mainPc = "asleep" /\ mainPc' = "wait" /\ UNCHANGED pc
     \/ \E w \in Worker : /\ pc[w] = "asleep"
                          /\ pc' = [pc EXCEPT ![w] = "check"]
                          /\ UNCHANGED mainPc
  /\ UNCHANGED <<callerVars, ticks, cursor, left, in_degree, completed, events,
                 tasks, stop, workerVars, runs, orderly, ub>>
-----------------------------------------------------------------------------
Main == seq_step \/ seed \/ wait_done \/ join

WorkerStep(w) == \/ worker_check(w) \/ finish(w) \/ drop(w) \/ submit_dep(w)
                 \/ count(w) \/ notify_done(w)

Caller == \/ \E s \in System : register_system(s)
          \/ build_graph \/ tick_unbuilt \/ tick_sequential \/ tick_parallel
          \/ destroy

Next == \/ Caller \/ Main \/ spurious_wakeup
        \/ \E w \in Worker : WorkerStep(w) \/ hang(w)

Spec == Init /\ [][Next]_vars

\* Every thread that can take a step takes one; the caller's calls and
\* spurious wake-ups are never obliged to happen.
FairSpec == /\ Spec /\ WF_vars(Main)
            /\ \A w \in Worker : WF_vars(WorkerStep(w))
-----------------------------------------------------------------------------
TypeOK ==
  /\ mode \in {Parallel, Sequential}
  /\ systems \in Seq(System) /\ built \in BOOLEAN /\ order \in SUBSET System
  /\ dependents \in [System -> SUBSET System]
  /\ in_degree_initial \in [System -> Nat]
  /\ mainPc \in InTick \cup {"idle", "seq", "aborted", "joining", "gone"}
  /\ ticks \in Nat /\ cursor \in Nat \ {0} /\ left \in SUBSET System
  /\ in_degree \in [System -> Int] /\ completed \in Nat /\ events \in Nat
  /\ tasks \in Seq(Task) /\ stop \in BOOLEAN
  /\ pc \in [Worker -> WorkerPc]
  /\ job \in [Worker -> System \cup {NoSystem}]
  /\ born \in [Worker -> Nat]
  /\ todo \in [Worker -> SUBSET System]
  /\ sub \in [Worker -> System \cup {NoSystem}]
  /\ runs \in [System -> Nat] /\ orderly \in BOOLEAN /\ ub \in BOOLEAN
-----------------------------------------------------------------------------
Running(w) == pc[w] = "run"

\* Two systems that share a component or a resource with a writer are never
\* inside System::tick at the same time (the purpose of the hazard graph that
\* build_hazard_graph_ makes and dispatch follows), and no system runs twice
\* at once.
HazardExclusion ==
  orderly => \A v, w \in Worker :
    v # w /\ Running(v) /\ Running(w) =>
      job[v] # job[w] /\ ~have_hazard(job[v], job[w])

\* When a system runs in a parallel tick, every registered system that
\* conflicts with it and has a lesser name has already run in this tick and is
\* over ("the lex-smaller name runs first", scheduler.cpp:151-153).
LexOrder ==
  orderly => \A w \in Worker : Running(w) =>
    \A i \in Preds(Registered, job[w]) :
      runs[i] = 1 /\ \A v \in Worker : Running(v) => job[v] # i

\* tick() returns, in either mode, only when every registered system has been
\* run exactly once since it was called and none is still running: it neither
\* skips, nor repeats, nor leaves behind a system.
ExactlyOnce ==
  [][orderly /\ events' # events =>
       /\ \A s \in Registered : runs'[s] = 1
       /\ \A w \in Worker : ~Running(w)]_vars

\* A parallel tick that was called returns: no wake-up is lost between the
\* last worker's count and the caller's wait on done_cv, and no dependent is
\* left undispatched.
TickTerminates ==
  (mainPc \in InTick /\ orderly) ~> (mainPc = "idle" \/ ub)

\* Destroying the scheduler ends: every worker sees stop_ and is joined.
PoolJoins == (mainPc = "joining") ~> (mainPc = "gone" \/ ub)
-----------------------------------------------------------------------------
(* The inductive invariant behind the safety properties.                   *)

BusyPc  == {"run", "drop", "submit"}
Busy(w) == pc[w] \in BusyPc
Queued  == {tasks[k].sys : k \in 1..Len(tasks)}

\* The worker is about to dispatch j, or j is queued, or j has been started.
Pending(j)   == \E w \in Worker : pc[w] = "submit" /\ sub[w] = j
Submitted(j) == Pending(j) \/ j \in Queued \/ runs[j] # 0

\* The run of i in this tick has already been subtracted from j's counter.
Released(i, j) ==
  /\ runs[i] # 0
  /\ \A w \in Worker : Busy(w) /\ job[w] = i => pc[w] # "run" /\ j \notin todo[w]
Waiting(j) == {i \in Preds(Registered, j) : ~Released(i, j)}

\* The systems whose task has been counted in `completed'.
Finished == {s \in Registered : runs[s] # 0 /\ \A w \in Worker : Busy(w) => job[w] # s}

\* A worker that is past the queue has a system in hand.
HandInv == \A w \in Worker : /\ pc[w] \in TaskPc => job[w] \in System
                             /\ pc[w] = "submit" => sub[w] \in System

\* Names are unique and the graph, once built, is that of the systems present.
GraphInv ==
  /\ \A k, l \in 1..Len(systems) : Name(systems[k]) = Name(systems[l]) => k = l
  /\ built => order = Registered
  /\ built /\ mode = Parallel =>
       \A s \in Registered :
         /\ dependents[s] = Succs(Registered, s)
         /\ in_degree_initial[s] = Cardinality(Preds(Registered, s))
  /\ mainPc \in InTick => built /\ mode = Parallel
  /\ mainPc = "seq" => built /\ mode = Sequential
  /\ mode = Sequential => \A w \in Worker : pc[w] = "unborn"

\* The sequential loop: what is left has not run, the rest has, once.
SequentialInv ==
  mainPc = "seq" => /\ left \subseteq Registered
                    /\ \A s \in Registered : runs[s] = IF s \in left THEN 0 ELSE 1

\* Outside a tick nothing is queued and no worker has more than its last
\* notification to do.
QuietInv ==
  orderly /\ mainPc \notin InTick => tasks = <<>> /\ \A w \in Worker : ~Busy(w)

\* A task that is queued is of this tick, has not started and is not queued
\* or pending a second time.
QueueInv ==
  /\ \A k \in 1..Len(tasks) :
       /\ tasks[k].tick = ticks /\ tasks[k].sys \in Registered
       /\ runs[tasks[k].sys] = 0 /\ ~Pending(tasks[k].sys)
  /\ \A k, l \in 1..Len(tasks) : tasks[k].sys = tasks[l].sys => k = l

\* A busy worker has a task of this tick that no other worker has; the
\* dependents before it are those of its system; what it is about to dispatch
\* has not started and is no other worker's to dispatch.
WorkersInv ==
  /\ \A w \in Worker : Busy(w) =>
       /\ born[w] = ticks /\ job[w] \in Registered /\ runs[job[w]] = 1
       /\ pc[w] # "run" => todo[w] \subseteq Succs(Registered, job[w])
  /\ \A w \in Worker : pc[w] = "submit" =>
       sub[w] \in Registered /\ runs[sub[w]] = 0
  /\ \A v, w \in Worker : v # w =>
       /\ Busy(v) /\ Busy(w) => job[v] # job[w]
       /\ pc[v] = "submit" /\ pc[w] = "submit" => sub[v] # sub[w]

\* The counters: a system's is the number of predecessors it still waits for,
\* none of them once it is submitted; `completed' counts what is finished.
CountersInv ==
  /\ \A s \in Registered : runs[s] <= 1
  /\ \A j \in Registered : in_degree[j] = Cardinality(Waiting(j))
  /\ \A j \in Registered : Submitted(j) => Waiting(j) = {}
  /\ completed = Cardinality(Finished)

\* The seed loop has not yet reached a predecessor-free system on which each
\* system that is not submitted and may look ready depends.
SeedInv ==
  mainPc = "seed" =>
    \E W \in [1..Len(systems) -> 1..Len(systems)] :
      /\ Witness(W)
      /\ \A k \in 1..Len(systems) : W[k] >= cursor => ~Submitted(systems[k])

TickInv == orderly /\ mainPc \in InTick =>
             QueueInv /\ WorkersInv /\ CountersInv /\ SeedInv

\* Every reachable state satisfies these parts together, and every step of
\* the caller and of the workers in scheduler.cpp preserves them.
SchedulerInv == /\ TypeOK /\ HandInv /\ GraphInv
                /\ SequentialInv /\ QuietInv /\ TickInv
-----------------------------------------------------------------------------
(* What the repository says of every tick, whatever the order in which the *)
(* systems were registered.  The run that checks it finds it violated.     *)

\* "Execute one tick: dispatch all registered systems exactly once."
\* (scheduler.h:95): no system's tick is entered twice within one tick().
DispatchedOnce == \A s \in System : runs[s] <= 1
=============================================================================
