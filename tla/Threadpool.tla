----------------------------- MODULE Threadpool -----------------------------
(***************************************************************************)
(* The CPU threadpool (src/vt/cpu/cpu_threadpool.cpp) under                *)
(* ParallelForRows: a spin barrier that is used twice per call, an atomic  *)
(* chunk cursor from which the threads steal work, and workers that poll   *)
(* an epoch, then sleep on a condition variable.  One action per access of *)
(* a shared variable another thread may interleave with; the accesses are  *)
(* sequentially consistent (see the README).                               *)
(*                                                                         *)
(* Thread 0 is the submitter that holds run_mutex_; threads 1 .. NThreads-1*)
(* are the pool's own.  pause_ is never set and poll_ only bounds how long *)
(* a worker polls, so both are left out.                                   *)
(***************************************************************************)
EXTENDS Integers, Sequences, FiniteSets

CONSTANTS NThreads,   \* n_threads_, the caller included
          Submitter,  \* host threads that call ParallelForRows
          Jobs,       \* submitter -> the grids it submits, in order:
                      \* [nr: rows, throws: the rows whose body throws]
          None

ASSUME ThreadpoolAssumption ==
    /\ NThreads \in Nat \ {0, 1}
    /\ Jobs \in [Submitter -> Seq([nr : Nat \ {0}, throws : SUBSET (Nat \ {0})])]
    /\ \A s \in Submitter : \A i \in DOMAIN Jobs[s] : Jobs[s][i].throws \subseteq 1 .. Jobs[s][i].nr
    /\ None \notin Submitter /\ None \notin Submitter \X Nat

VARIABLES
    n_graph,           \* the work epoch (the thread count it packs is constant)
    n_barrier,         \* threads that entered the barrier
    n_barrier_passed,  \* barriers completed
    current_chunk,     \* the steal cursor
    stop,
    mutex,             \* who holds mutex_, or "free"
    run_mutex,         \* submitter inside Run, or None
    work,              \* the call whose fn work_ points to, or None
    exc,               \* the call whose exception exc_ holds, or None
    call,              \* submitter -> "idle", "kick", "notify", "compute"
    dtor,              \* ~Threadpool: "alive", "notify", "join", "gone"
    pc,                \* thread -> where it is
    at,                \* thread -> which of its two barriers it is about
    last_graph,        \* thread -> the epoch it last saw
    n_passed,          \* thread -> n_barrier_passed when it entered
    fn,                \* thread -> the call it computes, or None
    chunk,             \* thread -> the chunk it walks
    times,             \* row -> how often the body of the call inside Run ran on it
    results            \* submitter -> what its calls came back with, in order

barrier == <<n_barrier, n_barrier_passed, n_passed, at>>
parking == <<n_graph, stop, mutex, last_graph, dtor>>
callers == <<run_mutex, call, results>>
shared  == <<work, exc, current_chunk, times, fn, chunk>>
vars    == <<barrier, parking, callers, shared, pc>>

Thread  == 0 .. NThreads - 1
Worker  == Thread \ {0}

Grid(c)   == Jobs[c[1]][c[2] + 1]
NextOf(s) == <<s, Len(results[s])>>
HasMore(s) == Len(results[s]) < Len(Jobs[s])
Done(c)  == [how |-> "done", of |-> c]
Threw(c) == [how |-> "threw", of |-> c]
Calls    == Submitter \X Nat
Result   == [how : {"done", "threw"}, of : Calls]

----------------------------------------------------------------------------
(* The chunk grid: four chunks per thread, or one per thread when the rows *)
(* do not fill it.  Chunks and rows count from 0 in the code; rows count   *)
(* from 1 here.                                                            *)
CeilDiv(n, d) == (n + d - 1) \div d

nchunk(nr) ==
    LET n == CeilDiv(nr, CeilDiv(nr, NThreads * 4))
    IN  IF n < NThreads THEN NThreads ELSE n

(* Mutant: the rows left over by the division belong to no chunk. *)
RowsOf_Truncates(nr, c) ==
    LET dr == nr \div nchunk(nr)
    IN  {r \in 1 .. nr : dr * c < r /\ r <= dr * (c + 1)}

RowsOf(nr, c) ==
    LET dr == CeilDiv(nr, nchunk(nr))
    IN  {r \in 1 .. nr : dr * c < r /\ r <= dr * (c + 1)}

(* The rows of a chunk the body gets through: all before one that throws.  *)
Reached(g, rows) == {r \in rows : \A q \in g.throws \cap rows : r < q}

----------------------------------------------------------------------------
Init == /\ n_graph = 0 /\ n_barrier = 0 /\ n_barrier_passed = 0
        /\ current_chunk = 0 /\ stop = FALSE
        /\ mutex = "free" /\ run_mutex = None /\ work = None /\ exc = None
        /\ call = [s \in Submitter |-> "idle"]
        /\ dtor = "alive"
        /\ pc = [t \in Thread |-> IF t = 0 THEN "idle" ELSE "poll"]
        /\ at = [t \in Thread |-> "inner"]
        /\ last_graph = [t \in Thread |-> 0]
        /\ n_passed = [t \in Thread |-> 0]
        /\ fn = [t \in Thread |-> None]
        /\ chunk = [t \in Thread |-> 0]
        /\ times = << >>
        /\ results = [s \in Submitter |-> << >>]

Goto(t, label) == pc' = [pc EXCEPT ![t] = label]

(* notify_all *)
Woken == [t \in Thread |-> IF pc[t] = "asleep" THEN "lock" ELSE pc[t]]

----------------------------------------------------------------------------
(* The submitter *)

(* A grid of one row runs on the caller, without the pool. *)
RunInline(s) ==
    /\ dtor = "alive" /\ call[s] = "idle" /\ HasMore(s) /\ Grid(NextOf(s)).nr = 1
    /\ results' = [results EXCEPT ![s] = Append(@,
                     IF Grid(NextOf(s)).throws = {} THEN Done(NextOf(s)) ELSE Threw(NextOf(s)))]
    /\ UNCHANGED <<barrier, parking, shared, pc, run_mutex, call>>

Run(s) ==
    /\ dtor = "alive" /\ call[s] = "idle" /\ HasMore(s) /\ Grid(NextOf(s)).nr > 1
    /\ run_mutex = None
    /\ run_mutex' = s
    /\ work' = NextOf(s)
    /\ current_chunk' = 0
    /\ exc' = None
    /\ times' = [r \in 1 .. Grid(NextOf(s)).nr |-> 0]
    /\ call' = [call EXCEPT ![s] = "kick"]
    /\ UNCHANGED <<barrier, parking, results, fn, chunk, pc>>

(* Mutant: the epoch is published without taking mutex_. *)
Kickoff_NoLock(s) ==
    /\ call[s] = "kick"
    /\ n_graph' = n_graph + 1
    /\ call' = [call EXCEPT ![s] = "notify"]
    /\ UNCHANGED <<barrier, shared, pc, run_mutex, results, mutex, stop, last_graph, dtor>>

(* Kickoff takes mutex_ and publishes the epoch ... *)
Kickoff(s) ==
    /\ call[s] = "kick" /\ mutex = "free"
    /\ mutex' = "caller"
    /\ n_graph' = n_graph + 1
    /\ call' = [call EXCEPT ![s] = "notify"]
    /\ UNCHANGED <<barrier, shared, pc, run_mutex, results, stop, last_graph, dtor>>

(* ... then wakes who sleeps and goes on as thread 0. *)
KickoffNotify(s) ==
    /\ call[s] = "notify"
    /\ mutex' = IF mutex = "caller" THEN "free" ELSE mutex
    /\ pc' = [Woken EXCEPT ![0] = "compute"]
    /\ call' = [call EXCEPT ![s] = "compute"]
    /\ UNCHANGED <<barrier, shared, run_mutex, results, n_graph, stop, last_graph, dtor>>

(* Thread 0 is out of the final barrier. *)
Return(s) ==
    /\ call[s] = "compute" /\ pc[0] = "return"
    /\ results' = [results EXCEPT ![s] =
                     Append(@, IF exc # None THEN Threw(exc) ELSE Done(NextOf(s)))]
    /\ work' = None /\ exc' = None /\ times' = << >>
    /\ run_mutex' = None
    /\ call' = [call EXCEPT ![s] = "idle"]
    /\ Goto(0, "idle")
    /\ UNCHANGED <<barrier, parking, current_chunk, fn, chunk>>

----------------------------------------------------------------------------
(* ComputeThread, and ParallelForRows' fn *)

ReadWork(t) ==
    /\ pc[t] = "compute"
    /\ fn' = [fn EXCEPT ![t] = work]
    /\ at' = [at EXCEPT ![t] = IF work = None THEN "final" ELSE "inner"]
    /\ Goto(t, IF work # None /\ t = 0 THEN "seed" ELSE "arrive")
    /\ UNCHANGED <<parking, callers, n_barrier, n_barrier_passed, n_passed,
                   work, exc, current_chunk, times, chunk>>

(* Mutant: the cursor starts at the first chunk. *)
ChunkSet_Zero ==
    /\ pc[0] = "seed"
    /\ current_chunk' = 0
    /\ Goto(0, "arrive")
    /\ UNCHANGED <<barrier, parking, callers, work, exc, times, fn, chunk>>

(* Chunks 0 .. NThreads-1 are the threads' first; the rest are stolen. *)
ChunkSet ==
    /\ pc[0] = "seed"
    /\ current_chunk' = NThreads
    /\ Goto(0, "arrive")
    /\ UNCHANGED <<barrier, parking, callers, work, exc, times, fn, chunk>>

(* Barrier *)
Arrive(t) ==
    /\ pc[t] = "arrive"
    /\ n_passed' = [n_passed EXCEPT ![t] = n_barrier_passed]
    /\ Goto(t, "enter")
    /\ UNCHANGED <<parking, callers, shared, n_barrier, n_barrier_passed, at>>

(* Mutant: the last thread is the one that finds NThreads entered before it. *)
Enter_OffByOne(t) ==
    /\ pc[t] = "enter"
    /\ n_barrier' = n_barrier + 1
    /\ Goto(t, IF n_barrier = NThreads - 2 THEN "last" ELSE "spin")
    /\ UNCHANGED <<parking, callers, shared, n_barrier_passed, n_passed, at>>

Enter(t) ==
    /\ pc[t] = "enter"
    /\ n_barrier' = n_barrier + 1
    /\ Goto(t, IF n_barrier = NThreads - 1 THEN "last" ELSE "spin")
    /\ UNCHANGED <<parking, callers, shared, n_barrier_passed, n_passed, at>>

(* Mutant: the count is not reset. *)
ResetBarrier_Not(t) ==
    /\ pc[t] = "last"
    /\ Goto(t, "pass")
    /\ UNCHANGED <<parking, callers, shared, n_barrier, n_barrier_passed, n_passed, at>>

(* The last thread resets the count before it lets the others go. *)
ResetBarrier(t) ==
    /\ pc[t] = "last"
    /\ n_barrier' = 0
    /\ Goto(t, "pass")
    /\ UNCHANGED <<parking, callers, shared, n_barrier_passed, n_passed, at>>

Left(t) == IF at[t] = "inner" THEN "walk" ELSE IF t = 0 THEN "return" ELSE "poll"

(* A thread is out of a barrier: of the inner one to its own first chunk,  *)
(* of the final one out of the call.                                       *)
Leave(t) ==
    /\ Goto(t, Left(t))
    /\ chunk' = [chunk EXCEPT ![t] = t]
    /\ at' = [at EXCEPT ![t] = "final"]

Pass(t) ==
    /\ pc[t] = "pass"
    /\ n_barrier_passed' = n_barrier_passed + 1
    /\ Leave(t)
    /\ UNCHANGED <<parking, callers, n_barrier, n_passed, work, exc, current_chunk, times, fn>>

Spin(t) ==
    /\ pc[t] = "spin" /\ n_barrier_passed # n_passed[t]
    /\ Leave(t)
    /\ UNCHANGED <<parking, callers, n_barrier, n_barrier_passed, n_passed,
                   work, exc, current_chunk, times, fn>>

(* The body over one chunk.  The first exception of a call is kept.  The   *)
(* quantifier over one set of rows names it once for all that follows.     *)
Walk(t) ==
    /\ pc[t] = "walk"
    /\ LET g    == Grid(fn[t])
           more == chunk[t] < nchunk(g.nr)
       IN  \E rows \in {IF more THEN RowsOf(g.nr, chunk[t]) ELSE {}} :
             LET throws == rows \cap g.throws # {}
                 leaves == throws \/ ~more
             IN  /\ times' = [r \in DOMAIN times |->
                               IF r \in Reached(g, rows) THEN times[r] + 1 ELSE times[r]]
                 /\ exc' = IF throws /\ exc = None THEN fn[t] ELSE exc
                 /\ fn' = IF leaves THEN [fn EXCEPT ![t] = None] ELSE fn
                 /\ Goto(t, IF leaves THEN "arrive" ELSE "steal")
    /\ UNCHANGED <<barrier, parking, callers, work, current_chunk, chunk>>

(* ChunkAdd(1) *)
Steal(t) ==
    /\ pc[t] = "steal"
    /\ chunk' = [chunk EXCEPT ![t] = current_chunk]
    /\ current_chunk' = current_chunk + 1
    /\ Goto(t, "walk")
    /\ UNCHANGED <<barrier, parking, callers, work, exc, times, fn>>

----------------------------------------------------------------------------
(* SecondaryThread *)

(* ThreadReady: stop is looked at before the epoch. *)
NewWork(t) == ~stop /\ n_graph # last_graph[t]

TakeWork(t) ==
    /\ last_graph' = [last_graph EXCEPT ![t] = n_graph]
    /\ Goto(t, "compute")
    /\ UNCHANGED <<barrier, callers, shared, n_graph, stop, dtor>>

(* A worker polls until there is work or a stop, or gives up polling. *)
Poll(t) ==
    /\ pc[t] = "poll" /\ NewWork(t)
    /\ TakeWork(t) /\ UNCHANGED mutex

Stopped(t) ==
    /\ pc[t] = "poll" /\ stop
    /\ Goto(t, "exited")
    /\ UNCHANGED <<barrier, parking, callers, shared>>

StopPolling(t) ==
    /\ pc[t] = "poll" /\ ~stop /\ n_graph = last_graph[t]
    /\ Goto(t, "lock")
    /\ UNCHANGED <<barrier, parking, callers, shared>>

(* CheckForWork under mutex_: look once more, and sleep. *)
CheckForWork(t) ==
    /\ pc[t] = "lock" /\ mutex = "free"
    /\ \/ NewWork(t) /\ TakeWork(t) /\ UNCHANGED mutex
       \/ /\ stop
          /\ Goto(t, "poll")
          /\ UNCHANGED <<barrier, parking, callers, shared>>
       \/ /\ ~stop /\ n_graph = last_graph[t]
          /\ mutex' = "worker"
          /\ Goto(t, "sleep")
          /\ UNCHANGED <<barrier, callers, shared, n_graph, stop, last_graph, dtor>>

Sleep(t) ==
    /\ pc[t] = "sleep"
    /\ mutex' = "free"
    /\ Goto(t, "asleep")
    /\ UNCHANGED <<barrier, callers, shared, n_graph, stop, last_graph, dtor>>

SpuriousWakeup(t) ==
    /\ pc[t] = "asleep"
    /\ Goto(t, "lock")
    /\ UNCHANGED <<barrier, parking, callers, shared>>

----------------------------------------------------------------------------
(* ~Threadpool, once nobody is inside a call or will make one *)

Unused == \A s \in Submitter : call[s] = "idle" /\ ~HasMore(s)

(* Mutant: stop is set without taking mutex_. *)
DestroyStop_NoLock ==
    /\ dtor = "alive" /\ Unused
    /\ stop' = TRUE
    /\ dtor' = "notify"
    /\ UNCHANGED <<barrier, callers, shared, pc, n_graph, last_graph, mutex>>

DestroyStop ==
    /\ dtor = "alive" /\ Unused /\ mutex = "free"
    /\ mutex' = "dtor"
    /\ stop' = TRUE
    /\ dtor' = "notify"
    /\ UNCHANGED <<barrier, callers, shared, pc, n_graph, last_graph>>

DestroyNotify ==
    /\ dtor = "notify"
    /\ mutex' = IF mutex = "dtor" THEN "free" ELSE mutex
    /\ pc' = Woken
    /\ dtor' = "join"
    /\ UNCHANGED <<barrier, callers, shared, n_graph, stop, last_graph>>

Join ==
    /\ dtor = "join" /\ \A t \in Worker : pc[t] = "exited"
    /\ dtor' = "gone"
    /\ UNCHANGED <<barrier, callers, shared, pc, n_graph, stop, mutex, last_graph>>

----------------------------------------------------------------------------
Submits(s) == RunInline(s) \/ Run(s) \/ Kickoff(s) \/ KickoffNotify(s) \/ Return(s)
Computes(t) == \/ ReadWork(t) \/ (t = 0 /\ ChunkSet) \/ Arrive(t) \/ Enter(t)
               \/ ResetBarrier(t) \/ Pass(t) \/ Spin(t) \/ Walk(t) \/ Steal(t)
Parks(t) == Poll(t) \/ Stopped(t) \/ CheckForWork(t) \/ Sleep(t)
Destroys == DestroyStop \/ DestroyNotify \/ Join

Next == \/ \E s \in Submitter : Submits(s)
        \/ \E t \in Thread : Computes(t)
        \/ \E t \in Worker : Parks(t) \/ StopPolling(t) \/ SpuriousWakeup(t)
        \/ Destroys

Spec == Init /\ [][Next]_vars

(* Every thread runs; who waits for mutex_ gets it if it keeps being free. *)
Fairness ==
    /\ \A s \in Submitter : WF_vars(Submits(s)) /\ SF_vars(Kickoff(s))
    /\ \A t \in Thread : WF_vars(Computes(t))
    /\ \A t \in Worker : WF_vars(Parks(t)) /\ SF_vars(CheckForWork(t))
    /\ WF_vars(Destroys) /\ SF_vars(DestroyStop)

FairSpec == Spec /\ Fairness

----------------------------------------------------------------------------
Labels == {"idle", "poll", "lock", "sleep", "asleep", "exited", "compute", "seed", "arrive",
           "enter", "last", "pass", "spin", "walk", "steal", "return"}

(* The state's types. *)
TypeInv ==
    /\ n_graph \in Nat /\ n_barrier \in 0 .. NThreads /\ n_barrier_passed \in Nat
    /\ current_chunk \in Nat /\ stop \in BOOLEAN
    /\ mutex \in {"free", "caller", "worker", "dtor"}
    /\ run_mutex \in Submitter \cup {None}
    /\ call \in [Submitter -> {"idle", "kick", "notify", "compute"}]
    /\ dtor \in {"alive", "notify", "join", "gone"}
    /\ pc \in [Thread -> Labels] /\ at \in [Thread -> {"inner", "final"}]
    /\ last_graph \in [Thread -> Nat] /\ n_passed \in [Thread -> Nat]
    /\ chunk \in [Thread -> Nat]
    /\ {work, exc} \subseteq Calls \cup {None} /\ fn \in [Thread -> Calls \cup {None}]
    /\ times \in Seq(Nat) /\ results \in [Submitter -> Seq(Result)]

(* A thread runs the function object of a call, and writes its rows, only  *)
(* while that call is inside Run: Run does not return, and the object does *)
(* not die, under a worker that still uses it.                             *)
FnOutlivesItsUse ==
    \A t \in Thread : fn[t] # None =>
        fn[t] = work /\ run_mutex = work[1]

(* The pool implements the parallel for its header promises. *)
Abstract == INSTANCE ParallelFor WITH
    current <- IF run_mutex = None THEN None ELSE NextOf(run_mutex),
    failed  <- exc # None
ImplementsParallelFor == Abstract!Spec

(* A call that is inside Run comes back: no wakeup is lost, and no barrier *)
(* waits for a thread that sleeps.                                         *)
EveryCallReturns ==
    \A s \in Submitter : call[s] = "kick" ~> call[s] = "idle"

(* The destructor joins every worker. *)
WorkersJoin == dtor = "notify" ~> dtor = "gone"

(* Nobody waits for ever: not a caller, not a worker, not the destructor.  *)
NobodyHangs == EveryCallReturns /\ WorkersJoin
==============================================================================
