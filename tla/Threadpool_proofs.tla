--------------------------- MODULE Threadpool_proofs ---------------------------
(***************************************************************************)
(* Proofs about Threadpool, for any number of threads, submitters and      *)
(* grids: the function object of a call outlives every use of it, and the  *)
(* pool implements ParallelFor.                                            *)
(*                                                                         *)
(* The first argument counts barriers.  Epoch g has barriers 2g-2 and      *)
(* 2g-1, so that n_barrier_passed tells the phase of the call, and every   *)
(* thread that is about a barrier is about the same one, because a barrier *)
(* that opens has all NThreads threads waiting in it.                      *)
(***************************************************************************)
EXTENDS Threadpool, FiniteSetTheorems, SequenceTheorems, TLAPS

(* Threads that entered the barrier that is to open next. *)
Waiting == {t \in Thread : pc[t] = "last" \/ (pc[t] = "spin" /\ n_passed[t] = n_barrier_passed)}

(* n_barrier counts them, but for the moment between its reset and the     *)
(* opening; the thread that opens the barrier finds all others in it.      *)
BarrierCounts ==
    /\ (\A t \in Thread : pc[t] # "pass") => n_barrier = Cardinality(Waiting)
    /\ \A t \in Thread :
         /\ pc[t] = "enter" => n_passed[t] = n_barrier_passed
         /\ pc[t] = "pass" => n_barrier = 0
         /\ pc[t] \in {"last", "pass"} =>
              \A u \in Thread \ {t} : pc[u] = "spin" /\ n_passed[u] = n_barrier_passed

(* A thread outside any call, or free to leave the last one. *)
Free(t) == \/ pc[t] \in {"idle", "poll", "lock", "sleep", "asleep", "exited", "return"}
           \/ pc[t] = "spin" /\ at[t] = "final" /\ n_passed[t] # n_barrier_passed

Begun(t)  == t = 0 \/ last_graph[t] = n_graph

(* A thread on its way to the inner barrier of the call, or in it; and     *)
(* one behind it, on its way to the final barrier or in it.                *)
BeforeInner(t) ==
    \/ pc[t] = "compute"
    \/ at[t] = "inner" /\ pc[t] \in {"seed", "arrive", "enter", "last", "pass"}
    \/ at[t] = "inner" /\ pc[t] = "spin" /\ n_passed[t] = n_barrier_passed
BeforeFinal(t) ==
    \/ pc[t] \in {"walk", "steal"} /\ at[t] = "final"
    \/ at[t] = "inner" /\ pc[t] = "spin" /\ n_passed[t] # n_barrier_passed
    \/ at[t] = "final" /\ pc[t] \in {"arrive", "enter", "last", "pass"}
    \/ at[t] = "final" /\ pc[t] = "spin" /\ n_passed[t] = n_barrier_passed

(* The phases of the pool, told by the number of barriers passed: outside  *)
(* the barriers of any call, up to the inner barrier, up to the final one. *)
Outside(t) == Begun(t) /\ Free(t)
AtRest ==
    /\ n_barrier_passed = 2 * n_graph
    /\ \A t \in Thread : Outside(t)
    /\ run_mutex # None => call[run_mutex] \in {"kick", "compute"}
    /\ pc[0] = "idle" <=> ~(run_mutex # None /\ call[run_mutex] = "compute")
Gathering ==
    /\ n_barrier_passed = 2 * n_graph - 2
    /\ \A t \in Worker : \/ last_graph[t] = n_graph - 1 /\ Free(t)
                         \/ Begun(t) /\ BeforeInner(t)
    /\ run_mutex # None
    /\ \/ call[run_mutex] = "notify" /\ pc[0] = "idle"
       \/ call[run_mutex] = "compute" /\ BeforeInner(0)
Computing ==
    /\ n_barrier_passed = 2 * n_graph - 1
    /\ \A t \in Thread : Begun(t) /\ BeforeFinal(t)
    /\ run_mutex # None /\ call[run_mutex] = "compute"
Phases == AtRest \/ Gathering \/ Computing

(* work_ is the call inside Run, and a thread holds it from where it reads *)
(* it until it has walked its last chunk.                                  *)
WorkIsCurrent ==
    /\ work = IF run_mutex = None THEN None ELSE NextOf(run_mutex)
    /\ exc # None => exc = work
    /\ \A s \in Submitter : call[s] # "idle" <=> run_mutex = s
    /\ \A t \in Thread :
         /\ fn[t] # None => fn[t] = work
         /\ fn[t] # None => pc[t] \in {"seed", "walk", "steal"}
                            \/ (at[t] = "inner" /\ pc[t] \in {"arrive", "enter", "last", "pass", "spin"})
         /\ pc[t] \in {"walk", "steal", "seed"} => fn[t] # None
         /\ at[t] = "inner" /\ pc[t] \in {"arrive", "enter", "last", "pass", "spin"} => fn[t] # None

IInv == TypeInv /\ BarrierCounts /\ Phases /\ WorkIsCurrent

----------------------------------------------------------------------------
LEMMA ThreadsAreNumbers ==
    /\ NThreads \in Nat /\ NThreads > 1 /\ 0 \in Thread /\ Worker \subseteq Thread
    /\ IsFiniteSet(Thread) /\ Cardinality(Thread) = NThreads
    /\ \A t \in Thread : t # 0 => t \in Worker
    /\ \A t \in Worker : t # 0
  <1>1. NThreads \in Nat /\ NThreads > 1
    BY ThreadpoolAssumption DEF ThreadpoolAssumption
  <1>2. IsFiniteSet(Thread) /\ Cardinality(Thread) = NThreads
    BY <1>1, FS_Interval DEF Thread
  <1> QED BY <1>1, <1>2 DEF Thread, Worker

(* Who waits is at most everybody, and is everybody if it counts so. *)
LEMMA WaitingIsFinite ==
    ASSUME NEW W \in SUBSET Thread
    PROVE  /\ IsFiniteSet(W) /\ Cardinality(W) \in 0 .. NThreads
           /\ Cardinality(W) = NThreads => W = Thread
           /\ \A t \in Thread \ W : /\ Cardinality(W \cup {t}) = Cardinality(W) + 1
                                    /\ Cardinality(W) + 1 <= NThreads
  <1>1. /\ IsFiniteSet(Thread) /\ Cardinality(Thread) = NThreads /\ NThreads \in Nat
        /\ IsFiniteSet(W) /\ Cardinality(W) \in Nat /\ Cardinality(W) <= NThreads
        /\ Cardinality(W) = NThreads => W = Thread
    BY ThreadsAreNumbers, FS_Subset, FS_CardinalityType
  <1>2. ASSUME NEW t \in Thread \ W
        PROVE  Cardinality(W \cup {t}) = Cardinality(W) + 1 /\ Cardinality(W) + 1 <= NThreads
    <2>1. Cardinality(W \cup {t}) = Cardinality(W) + 1
      BY <1>1, FS_AddElement
    <2>2. Cardinality(W \cup {t}) <= NThreads
      BY <1>1, FS_Subset
    <2> QED BY <2>1, <2>2
  <1> QED BY <1>1, <1>2

LEMMA InitIInv == Init => IInv
  <1> SUFFICES ASSUME Init PROVE IInv
    OBVIOUS
  <1>1. TypeInv
    <2>1. pc \in [Thread -> Labels]
      BY DEF Init, Labels
    <2>2. results \in [Submitter -> Seq(Result)]
      BY DEF Init
    <2> QED BY <2>1, <2>2, ThreadsAreNumbers DEF Init, TypeInv
  <1>2. Waiting = {}
    BY DEF Init, Waiting
  <1>3. BarrierCounts
    BY <1>2, FS_EmptySet DEF Init, BarrierCounts
  <1>4. Phases
    BY ThreadsAreNumbers DEF Init, Phases, AtRest, Outside, Begun, Free
  <1>5. WorkIsCurrent
    BY ThreadpoolAssumption DEF Init, WorkIsCurrent, ThreadpoolAssumption
  <1> QED BY <1>1, <1>3, <1>4, <1>5 DEF IInv

(* A call is a submitter and a number. *)
LEMMA CallsAreTyped ==
    ASSUME TypeInv, NEW s \in Submitter
    PROVE  /\ Len(results[s]) \in Nat /\ NextOf(s) \in Calls
           /\ NextOf(s) # None /\ NextOf(s)[1] = s
           /\ Done(NextOf(s)) \in Result /\ Threw(NextOf(s)) \in Result
  <1>1. results[s] \in Seq(Result)
    BY DEF TypeInv
  <1>2. Len(results[s]) \in Nat
    BY <1>1
  <1>3. NextOf(s) \in Calls /\ NextOf(s)[1] = s
    BY <1>2 DEF NextOf, Calls
  <1>4. NextOf(s) # None
    BY <1>3, ThreadpoolAssumption DEF ThreadpoolAssumption, Calls
  <1> QED BY <1>2, <1>3, <1>4 DEF Done, Threw, Result

(* The grid of a call that is made. *)
LEMMA GridsAreTyped ==
    ASSUME TypeInv, NEW s \in Submitter, HasMore(s)
    PROVE  /\ Grid(NextOf(s)).nr \in Nat \ {0}
           /\ Grid(NextOf(s)).throws \subseteq 1 .. Grid(NextOf(s)).nr
  <1>1. Len(results[s]) \in Nat /\ Len(results[s]) + 1 \in DOMAIN Jobs[s]
        /\ Jobs[s] \in Seq([nr : Nat \ {0}, throws : SUBSET (Nat \ {0})])
    BY CallsAreTyped, ThreadpoolAssumption DEF HasMore, ThreadpoolAssumption
  <1>2. Grid(NextOf(s)) = Jobs[s][Len(results[s]) + 1]
    BY DEF Grid, NextOf
  <1> DEFINE i == Len(results[s]) + 1
  <1>3. Jobs[s][i].throws \subseteq 1 .. Jobs[s][i].nr
    BY <1>1, ThreadpoolAssumption DEF ThreadpoolAssumption
  <1>4. Jobs[s][i] \in [nr : Nat \ {0}, throws : SUBSET (Nat \ {0})]
    <2> DEFINE G == [nr : Nat \ {0}, throws : SUBSET (Nat \ {0})]
    <2>1. Jobs[s] \in Seq(G) /\ i \in 1 .. Len(Jobs[s])
      BY <1>1
    <2> HIDE DEF G, i
    <2>2. Jobs[s][i] \in G
      BY <2>1, ElementOfSeq
    <2> QED BY <2>2 DEF G
  <1>5. Jobs[s][i].nr \in Nat \ {0}
    BY <1>4
  <1> QED BY <1>2, <1>3, <1>5

(* A step in which threads outside any call only park, wake up or exit. *)
Parked == {"poll", "lock", "sleep", "asleep", "exited"}

LEMMA ParkingKeeps ==
    ASSUME IInv, UNCHANGED <<barrier, callers, shared, n_graph, last_graph>>,
           stop' \in BOOLEAN, mutex' \in {"free", "caller", "worker", "dtor"},
           dtor' \in {"alive", "notify", "join", "gone"}, pc' \in [Thread -> Labels],
           \A t \in Thread : pc'[t] = pc[t] \/ {pc[t], pc'[t]} \subseteq Parked
    PROVE  IInv'
  <1>1. TypeInv'
    BY DEF IInv, TypeInv, barrier, callers, shared
  <1>2. \A t \in Thread : \A l \in Labels \ Parked : pc'[t] = l <=> pc[t] = l
    OBVIOUS
  <1>3. Waiting' = Waiting
    BY <1>2 DEF Waiting, barrier, Labels, Parked
  <1>4. BarrierCounts'
    BY <1>2, <1>3 DEF IInv, BarrierCounts, barrier, Labels, Parked
  <1>5. \A t \in Thread : /\ Free(t)' <=> Free(t)
                          /\ Begun(t)' <=> Begun(t)
                          /\ BeforeInner(t)' <=> BeforeInner(t)
                          /\ BeforeFinal(t)' <=> BeforeFinal(t)
    BY <1>2 DEF Free, Begun, BeforeInner, BeforeFinal, barrier, Labels, Parked
  <1>6. pc'[0] = "idle" <=> pc[0] = "idle"
    BY <1>2, ThreadsAreNumbers DEF Labels, Parked
  <1>7. Phases'
    BY <1>5, <1>6, ThreadsAreNumbers
       DEF IInv, Phases, AtRest, Gathering, Computing, Outside, barrier, callers
  <1>8. WorkIsCurrent'
    BY <1>2 DEF IInv, WorkIsCurrent, NextOf, barrier, callers, shared, Labels, Parked
  <1> QED BY <1>1, <1>4, <1>7, <1>8 DEF IInv

LEMMA DestroyKeeps ==
    ASSUME IInv, Destroys
    PROVE  IInv'
  <1>1. UNCHANGED <<barrier, callers, shared, n_graph, last_graph>>
    BY DEF Destroys, DestroyStop, DestroyNotify, Join
  <1>2. /\ stop' \in BOOLEAN /\ mutex' \in {"free", "caller", "worker", "dtor"}
        /\ dtor' \in {"alive", "notify", "join", "gone"}
    BY DEF Destroys, DestroyStop, DestroyNotify, Join, IInv, TypeInv
  <1>3. pc' = pc \/ pc' = Woken
    BY DEF Destroys, DestroyStop, DestroyNotify, Join
  <1>4. pc' \in [Thread -> Labels]
        /\ \A t \in Thread : pc'[t] = pc[t] \/ {pc[t], pc'[t]} \subseteq Parked
    BY <1>3 DEF Woken, IInv, TypeInv, Labels, Parked
  <1> QED BY <1>1, <1>2, <1>4, ParkingKeeps

(* A worker with work to do is in an epoch it has not begun. *)
LEMMA TakeWorkKeeps ==
    ASSUME IInv, NEW t \in Worker, pc[t] \in {"poll", "lock"}, NewWork(t), TakeWork(t),
           UNCHANGED mutex
    PROVE  IInv'
  <1> USE ThreadsAreNumbers
  <1>1. /\ UNCHANGED <<barrier, callers, shared, n_graph, stop, dtor>>
        /\ last_graph' = [last_graph EXCEPT ![t] = n_graph] /\ pc' = [pc EXCEPT ![t] = "compute"]
    BY DEF TakeWork, Goto
  <1>2. /\ \A u \in Thread \ {t} : pc'[u] = pc[u] /\ last_graph'[u] = last_graph[u]
        /\ pc'[t] = "compute" /\ last_graph'[t] = n_graph /\ t \in Thread /\ t # 0
        /\ pc' \in [Thread -> Labels] /\ last_graph' \in [Thread -> Nat]
    BY <1>1 DEF IInv, TypeInv, Labels
  <1>3. TypeInv'
    BY <1>1, <1>2 DEF IInv, TypeInv, barrier, callers, shared
  <1>4. Waiting' = Waiting
    BY <1>1, <1>2 DEF Waiting, barrier
  <1>5. BarrierCounts'
    BY <1>1, <1>2, <1>4 DEF IInv, BarrierCounts, barrier
  <1>6. Gathering
    BY DEF NewWork, IInv, Phases, AtRest, Computing, Outside, Begun
  <1>7. Gathering'
    BY <1>1, <1>2, <1>6 DEF Gathering, Begun, Free, BeforeInner, barrier, callers
  <1>8. WorkIsCurrent'
    BY <1>1, <1>2 DEF IInv, WorkIsCurrent, NextOf, barrier, callers, shared
  <1> QED BY <1>3, <1>5, <1>7, <1>8 DEF IInv, Phases

LEMMA ParksKeeps ==
    ASSUME IInv, NEW t \in Worker, Parks(t) \/ StopPolling(t) \/ SpuriousWakeup(t)
    PROVE  IInv'
  <1>1. CASE Poll(t)
    BY <1>1, TakeWorkKeeps DEF Poll
  <1>2. CASE pc[t] = "lock" /\ NewWork(t) /\ TakeWork(t) /\ UNCHANGED mutex
    BY <1>2, TakeWorkKeeps
  <1>3. CASE /\ UNCHANGED <<barrier, callers, shared, n_graph, last_graph, stop, dtor>>
             /\ mutex' \in {"free", "worker", mutex}
             /\ pc[t] \in Parked /\ \E l \in Parked : Goto(t, l)
    <2>1. pc' \in [Thread -> Labels]
          /\ \A u \in Thread : pc'[u] = pc[u] \/ {pc[u], pc'[u]} \subseteq Parked
      <3>1. PICK l \in Parked : pc' = [pc EXCEPT ![t] = l]
        BY <1>3 DEF Goto
      <3>2. l \in Labels /\ pc \in [Thread -> Labels] /\ t \in Thread
        BY ThreadsAreNumbers DEF IInv, TypeInv, Labels, Parked
      <3> QED BY <1>3, <3>1, <3>2
    <2> QED BY <1>3, <2>1, ParkingKeeps DEF IInv, TypeInv
  <1> QED BY <1>1, <1>2, <1>3
          DEF Parks, Stopped, CheckForWork, Sleep, StopPolling, SpuriousWakeup, parking, Parked

----------------------------------------------------------------------------
(* The submitter's steps *)

LEMMA RunInlineKeeps ==
    ASSUME IInv, NEW s \in Submitter, RunInline(s)
    PROVE  IInv'
  <1>1. /\ UNCHANGED <<barrier, parking, shared, pc, run_mutex, call>>
        /\ call[s] = "idle"
        /\ \E r \in {Done(NextOf(s)), Threw(NextOf(s))} :
             results' = [results EXCEPT ![s] = Append(@, r)]
    BY DEF RunInline
  <1>2. /\ results' \in [Submitter -> Seq(Result)]
        /\ \A q \in Submitter \ {s} : results'[q] = results[q]
    <2>1. results \in [Submitter -> Seq(Result)]
      BY DEF IInv, TypeInv
    <2>2. PICK r \in Result : results' = [results EXCEPT ![s] = Append(@, r)]
      BY <1>1, CallsAreTyped DEF IInv
    <2> QED BY <2>1, <2>2
  <1>3. TypeInv'
    BY <1>1, <1>2 DEF IInv, TypeInv, barrier, parking, shared
  <1>4. BarrierCounts'
    BY <1>1 DEF IInv, BarrierCounts, Waiting, barrier
  <1>5. Phases'
    BY <1>1 DEF IInv, Phases, AtRest, Gathering, Computing, Outside, Begun, Free, BeforeInner,
                BeforeFinal, barrier, parking
  <1>6. run_mutex # s /\ run_mutex \in Submitter \cup {None}
    BY <1>1 DEF IInv, WorkIsCurrent, TypeInv
  <1>7. WorkIsCurrent'
    <2>1. run_mutex # None => NextOf(run_mutex)' = NextOf(run_mutex)
      BY <1>1, <1>2, <1>6 DEF NextOf
    <2> QED BY <1>1, <2>1 DEF IInv, WorkIsCurrent, NextOf, barrier, shared
  <1> QED BY <1>3, <1>4, <1>5, <1>7 DEF IInv

LEMMA RunKeeps ==
    ASSUME IInv, NEW s \in Submitter, Run(s)
    PROVE  IInv'
  <1> USE ThreadsAreNumbers
  <1>1. /\ UNCHANGED <<barrier, parking, results, fn, chunk, pc>>
        /\ call[s] = "idle" /\ run_mutex = None /\ run_mutex' = s /\ work' = NextOf(s)
        /\ current_chunk' = 0 /\ exc' = None /\ call' = [call EXCEPT ![s] = "kick"]
    BY DEF Run
  <1>2. /\ call'[s] = "kick" /\ \A q \in Submitter \ {s} : call'[q] = call[q]
        /\ call' \in [Submitter -> {"idle", "kick", "notify", "compute"}]
    BY <1>1 DEF IInv, TypeInv
  <1>3. TypeInv'
    <2>1. work' \in Calls \cup {None}
      BY <1>1, CallsAreTyped DEF IInv, Calls
    <2>2. Grid(NextOf(s)).nr \in Nat
      BY GridsAreTyped DEF Run, IInv
    <2>3. times' \in Seq(Nat)
      BY <2>2 DEF Run
    <2> QED BY <1>1, <1>2, <2>1, <2>3 DEF IInv, TypeInv, barrier, parking
  <1>4. BarrierCounts'
    BY <1>1 DEF IInv, BarrierCounts, Waiting, barrier
  <1>5. AtRest /\ s # None /\ None \notin Submitter
    BY <1>1, ThreadpoolAssumption
       DEF IInv, Phases, Gathering, Computing, ThreadpoolAssumption
  <1>6. AtRest'
    BY <1>1, <1>2, <1>5 DEF AtRest, Outside, Begun, Free, barrier, parking
  <1>7. \A t \in Thread : fn[t] = None
    BY <1>1 DEF IInv, WorkIsCurrent
  <1>8. \A t \in Thread : pc[t] \notin {"walk", "steal", "seed"}
    BY <1>7 DEF IInv, WorkIsCurrent
  <1>9. WorkIsCurrent'
    BY <1>1, <1>2, <1>5, <1>7, <1>8 DEF IInv, WorkIsCurrent, NextOf, barrier
  <1> QED BY <1>3, <1>4, <1>6, <1>9 DEF IInv, Phases

LEMMA KickoffKeeps ==
    ASSUME IInv, NEW s \in Submitter, Kickoff(s)
    PROVE  IInv'
  <1> USE ThreadsAreNumbers
  <1>1. /\ UNCHANGED <<barrier, shared, pc, run_mutex, results, stop, last_graph, dtor>>
        /\ call[s] = "kick" /\ mutex' = "caller" /\ n_graph' = n_graph + 1
        /\ call' = [call EXCEPT ![s] = "notify"]
    BY DEF Kickoff
  <1>2. /\ call'[s] = "notify" /\ \A q \in Submitter \ {s} : call'[q] = call[q]
        /\ call' \in [Submitter -> {"idle", "kick", "notify", "compute"}]
    BY <1>1 DEF IInv, TypeInv
  <1>3. TypeInv'
    BY <1>1, <1>2 DEF IInv, TypeInv, barrier, shared
  <1>4. BarrierCounts'
    BY <1>1 DEF IInv, BarrierCounts, Waiting, barrier
  <1>5. AtRest /\ run_mutex = s /\ s # None
    BY <1>1, ThreadpoolAssumption
       DEF IInv, Phases, Gathering, Computing, WorkIsCurrent, ThreadpoolAssumption
  <1>6. Gathering'
    <2>1. n_barrier_passed' = 2 * n_graph' - 2
      BY <1>1, <1>5 DEF AtRest, IInv, TypeInv, barrier
    <2>2. \A t \in Worker : last_graph'[t] = n_graph' - 1 /\ Free(t)'
      BY <1>1, <1>5 DEF AtRest, Outside, Begun, Free, IInv, TypeInv, barrier
    <2>3. pc'[0] = "idle"
      BY <1>1, <1>5 DEF AtRest
    <2> QED BY <1>1, <1>2, <1>5, <2>1, <2>2, <2>3 DEF Gathering
  <1>7. WorkIsCurrent'
    BY <1>1, <1>2 DEF IInv, WorkIsCurrent, NextOf, barrier, shared
  <1> QED BY <1>3, <1>4, <1>6, <1>7 DEF IInv, Phases

LEMMA KickoffNotifyKeeps ==
    ASSUME IInv, NEW s \in Submitter, KickoffNotify(s)
    PROVE  IInv'
  <1> USE ThreadsAreNumbers
  <1>1. /\ UNCHANGED <<barrier, shared, run_mutex, results, n_graph, stop, last_graph, dtor>>
        /\ call[s] = "notify" /\ call' = [call EXCEPT ![s] = "compute"]
        /\ pc' = [Woken EXCEPT ![0] = "compute"]
        /\ mutex' \in {mutex, "free"}
    BY DEF KickoffNotify
  <1>2. /\ call'[s] = "compute" /\ \A q \in Submitter \ {s} : call'[q] = call[q]
        /\ call' \in [Submitter -> {"idle", "kick", "notify", "compute"}]
    BY <1>1 DEF IInv, TypeInv
  <1>3. Gathering /\ run_mutex = s /\ s # None /\ pc[0] = "idle"
    BY <1>1, ThreadpoolAssumption
       DEF IInv, Phases, AtRest, Gathering, Computing, WorkIsCurrent, ThreadpoolAssumption
  <1>4. /\ pc' \in [Thread -> Labels] /\ pc'[0] = "compute"
        /\ \A t \in Worker : pc'[t] = pc[t] \/ {pc[t], pc'[t]} \subseteq Parked
    BY <1>1 DEF Woken, IInv, TypeInv, Labels, Parked
  <1>5. \A t \in Worker : \A l \in Labels \ Parked : pc'[t] = l <=> pc[t] = l
    BY <1>4 DEF IInv, TypeInv
  <1>6. TypeInv'
    BY <1>1, <1>2, <1>4 DEF IInv, TypeInv, barrier, shared
  <1>7. Waiting' = Waiting
    BY <1>1, <1>3, <1>4, <1>5 DEF Waiting, barrier, Labels, Parked
  <1>8. BarrierCounts'
    <2>1. \A t \in Thread : /\ pc'[t] = "pass" <=> pc[t] = "pass"
                            /\ pc'[t] = "last" <=> pc[t] = "last"
                            /\ pc'[t] = "enter" <=> pc[t] = "enter"
                            /\ pc'[t] = "spin" <=> pc[t] = "spin"
      BY <1>3, <1>4, <1>5 DEF Labels, Parked
    <2> QED BY <1>1, <1>7, <2>1 DEF IInv, BarrierCounts, barrier
  <1>9. Gathering'
    <2>1. \A t \in Worker : /\ Free(t)' <=> Free(t)
                            /\ Begun(t)' <=> Begun(t)
                            /\ BeforeInner(t)' <=> BeforeInner(t)
      BY <1>1, <1>4, <1>5 DEF Free, Begun, BeforeInner, barrier, Labels, Parked
    <2>2. BeforeInner(0)'
      BY <1>4 DEF BeforeInner
    <2> QED BY <1>1, <1>2, <1>3, <2>1, <2>2 DEF Gathering, barrier
  <1>10. WorkIsCurrent'
    <2>1. fn[0] = None
      BY <1>3 DEF IInv, WorkIsCurrent
    <2>2. \A t \in Worker : \A l \in {"seed", "arrive", "enter", "last", "pass", "spin", "walk", "steal"} :
              pc'[t] = l <=> pc[t] = l
      BY <1>5 DEF Labels, Parked
    <2>3. \A t \in Thread : /\ fn'[t] = fn[t] /\ at'[t] = at[t]
                            /\ fn[t] # None => pc'[t] = pc[t]
                            /\ pc'[t] \in {"walk", "steal", "seed", "arrive", "enter", "last", "pass", "spin"}
                                 => pc'[t] = pc[t]
      BY <1>1, <1>4, <2>1, <2>2 DEF IInv, WorkIsCurrent, barrier, shared
    <2> QED BY <1>1, <1>2, <2>3 DEF IInv, WorkIsCurrent, NextOf, shared
  <1> QED BY <1>6, <1>8, <1>9, <1>10 DEF IInv, Phases

LEMMA ReturnKeeps ==
    ASSUME IInv, NEW s \in Submitter, Return(s)
    PROVE  IInv'
  <1> USE ThreadsAreNumbers
  <1>1. /\ UNCHANGED <<barrier, parking, current_chunk, fn, chunk>>
        /\ call[s] = "compute" /\ pc[0] = "return" /\ work' = None /\ exc' = None
        /\ times' = << >>
        /\ run_mutex' = None /\ call' = [call EXCEPT ![s] = "idle"] /\ pc' = [pc EXCEPT ![0] = "idle"]
        /\ results' = [results EXCEPT ![s] =
                         Append(@, IF exc # None THEN Threw(exc) ELSE Done(NextOf(s)))]
    BY DEF Return, Goto
  <1>2. /\ call'[s] = "idle" /\ \A q \in Submitter \ {s} : call'[q] = call[q]
        /\ call' \in [Submitter -> {"idle", "kick", "notify", "compute"}]
        /\ pc'[0] = "idle" /\ \A t \in Worker : pc'[t] = pc[t]
        /\ pc' \in [Thread -> Labels]
    BY <1>1 DEF IInv, TypeInv, Labels
  <1>3. AtRest /\ run_mutex = s /\ s # None
    BY <1>1, ThreadpoolAssumption
       DEF IInv, Phases, Gathering, Computing, BeforeInner, BeforeFinal, WorkIsCurrent,
           ThreadpoolAssumption
  <1>4. results' \in [Submitter -> Seq(Result)]
    <2> DEFINE x == IF exc # None THEN Threw(exc) ELSE Done(NextOf(s))
    <2>1. results \in [Submitter -> Seq(Result)]
      BY DEF IInv, TypeInv
    <2>2. exc # None => exc = NextOf(s)
      BY <1>3 DEF IInv, WorkIsCurrent
    <2>3. x \in Result
      BY <2>2, CallsAreTyped DEF IInv
    <2> HIDE DEF x
    <2> QED BY <1>1, <2>1, <2>3 DEF x
  <1>5. TypeInv'
    BY <1>1, <1>2, <1>4 DEF IInv, TypeInv, barrier, parking
  <1>6. Waiting' = Waiting
    BY <1>1, <1>2 DEF Waiting, barrier
  <1>7. BarrierCounts'
    BY <1>1, <1>2, <1>6 DEF IInv, BarrierCounts, barrier
  <1>8. AtRest'
    BY <1>1, <1>2, <1>3 DEF AtRest, Outside, Begun, Free, barrier, parking
  <1>9. \A t \in Thread : /\ fn[t] = None /\ pc[t] \notin {"walk", "steal", "seed"}
                          /\ at[t] = "inner" => pc[t] \notin {"arrive", "enter", "last", "pass", "spin"}
    BY <1>3 DEF IInv, WorkIsCurrent, AtRest, Outside, Free
  <1>10. WorkIsCurrent'
    <2>1. \A t \in Thread : /\ fn'[t] = None /\ pc'[t] \notin {"walk", "steal", "seed"}
                            /\ at'[t] = "inner" => pc'[t] \notin {"arrive", "enter", "last", "pass", "spin"}
      BY <1>1, <1>2, <1>9, ThreadsAreNumbers DEF barrier
    <2>2. \A q \in Submitter : call'[q] = "idle"
      BY <1>2, <1>3 DEF IInv, WorkIsCurrent
    <2>3. None \notin Submitter
      BY ThreadpoolAssumption DEF ThreadpoolAssumption
    <2> QED BY <1>1, <2>1, <2>2, <2>3 DEF WorkIsCurrent
  <1> QED BY <1>5, <1>7, <1>8, <1>10 DEF IInv, Phases

----------------------------------------------------------------------------
(* The computing threads' steps *)

(* A thread inside a call is in the phase its place says, and a call is on.*)
LEMMA InsideACall ==
    ASSUME IInv, NEW t \in Thread, ~Free(t)
    PROVE  /\ Gathering \/ Computing
           /\ Gathering => BeforeInner(t) /\ Begun(t)
           /\ Computing => BeforeFinal(t) /\ Begun(t)
           /\ ~(Gathering /\ Computing)
           /\ run_mutex \in Submitter /\ run_mutex # None /\ work = NextOf(run_mutex) /\ work # None
           /\ work[1] = run_mutex
  <1> USE ThreadsAreNumbers
  <1>1. Gathering \/ Computing
    BY DEF IInv, Phases, AtRest, Outside
  <1>2. run_mutex \in Submitter /\ run_mutex # None /\ work = NextOf(run_mutex)
    BY <1>1 DEF Gathering, Computing, IInv, TypeInv, WorkIsCurrent
  <1>3. work # None /\ work[1] = run_mutex
    BY <1>2, CallsAreTyped DEF IInv
  <1>4. ~(Gathering /\ Computing)
    BY DEF Gathering, Computing, IInv, TypeInv
  <1>5. Gathering => BeforeInner(t) /\ Begun(t)
    BY DEF Gathering, Free, Begun
  <1>6. Computing => BeforeFinal(t) /\ Begun(t)
    BY DEF Computing
  <1> QED BY <1>1, <1>2, <1>3, <1>4, <1>5, <1>6

(* A computing step of one thread outside the barrier's critical places.   *)
LEMMA ComputingKeeps ==
    ASSUME IInv, NEW t \in Thread, ~Free(t), UNCHANGED <<parking, callers, n_barrier_passed>>,
           TypeInv', BarrierCounts', WorkIsCurrent',
           \A u \in Thread \ {t} : UNCHANGED <<pc[u], at[u], n_passed[u]>>,
           Gathering => BeforeInner(t)', Computing => BeforeFinal(t)'
    PROVE  IInv'
  <1> USE ThreadsAreNumbers
  <1>1. \A u \in Thread \ {t} : /\ Free(u)' <=> Free(u)
                                /\ BeforeInner(u)' <=> BeforeInner(u)
                                /\ BeforeFinal(u)' <=> BeforeFinal(u)
    BY DEF Free, BeforeInner, BeforeFinal
  <1>2. \A u \in Thread : Begun(u)' <=> Begun(u)
    BY DEF Begun, parking
  <1>3. CASE Gathering
    <2>1. BeforeInner(t)' /\ Begun(t)'
      BY <1>2, <1>3, InsideACall
    <2>2. t = 0 => call[run_mutex] = "compute"
      BY <1>3 DEF Gathering, Free
    <2>3. pc'[0] = pc[0] \/ t = 0
      OBVIOUS
    <2>4. Gathering'
      BY <1>1, <1>2, <1>3, <2>1, <2>2, <2>3 DEF Gathering, parking, callers
    <2> QED BY <2>4 DEF IInv, Phases
  <1>4. CASE Computing
    <2>1. BeforeFinal(t)' /\ Begun(t)'
      BY <1>2, <1>4, InsideACall
    <2>2. Computing'
      BY <1>1, <1>2, <1>4, <2>1 DEF Computing, parking, callers
    <2> QED BY <2>2 DEF IInv, Phases
  <1> QED BY <1>3, <1>4, InsideACall

(* The barrier is as it was if nobody enters or leaves it. *)
LEMMA SameBarrier ==
    ASSUME IInv, NEW t \in Thread, UNCHANGED <<n_barrier, n_barrier_passed, n_passed>>,
           pc[t] \in {"compute", "seed", "walk", "steal"},
           pc'[t] \in {"seed", "arrive", "walk", "steal"},
           \A u \in Thread \ {t} : pc'[u] = pc[u]
    PROVE  BarrierCounts'
  <1>1. Waiting' = Waiting
    BY DEF Waiting
  <1> QED BY <1>1 DEF IInv, BarrierCounts

LEMMA ReadWorkKeeps ==
    ASSUME IInv, NEW t \in Thread, ReadWork(t)
    PROVE  IInv'
  <1>1. ~Free(t) /\ pc[t] = "compute"
    BY DEF ReadWork, Free
  <1>2. Gathering /\ ~Computing /\ work # None
    BY <1>1, InsideACall DEF BeforeFinal
  <1>3. /\ UNCHANGED <<parking, callers, n_barrier, n_barrier_passed, n_passed, work, exc,
                       current_chunk, times, chunk>>
        /\ fn' = [fn EXCEPT ![t] = work] /\ at' = [at EXCEPT ![t] = "inner"]
        /\ \E l \in {"seed", "arrive"} : pc' = [pc EXCEPT ![t] = l]
    BY <1>2 DEF ReadWork, Goto
  <1>4. /\ fn' \in [Thread -> Calls \cup {None}] /\ fn'[t] = work
        /\ at' \in [Thread -> {"inner", "final"}] /\ pc' \in [Thread -> Labels]
        /\ at'[t] = "inner" /\ pc'[t] \in {"seed", "arrive"}
        /\ \A u \in Thread \ {t} : at'[u] = at[u] /\ pc'[u] = pc[u] /\ fn'[u] = fn[u]
    BY <1>3 DEF IInv, TypeInv, Labels
  <1>5. TypeInv'
    BY <1>3, <1>4 DEF IInv, TypeInv, parking, callers
  <1>6. BarrierCounts'
    BY <1>1, <1>3, <1>4, SameBarrier
  <1>7. WorkIsCurrent'
    BY <1>2, <1>3, <1>4 DEF IInv, WorkIsCurrent, NextOf, callers
  <1>8. BeforeInner(t)'
    BY <1>4 DEF BeforeInner
  <1> QED BY <1>1, <1>2, <1>3, <1>4, <1>5, <1>6, <1>7, <1>8, ComputingKeeps

LEMMA ChunkSetKeeps ==
    ASSUME IInv, ChunkSet
    PROVE  IInv'
  <1> USE ThreadsAreNumbers
  <1>1. ~Free(0) /\ pc[0] = "seed"
    BY DEF ChunkSet, Free
  <1>2. Gathering /\ ~Computing
    BY <1>1, InsideACall DEF BeforeFinal
  <1>3. /\ UNCHANGED <<barrier, parking, callers, work, exc, times, fn, chunk>>
        /\ current_chunk' = NThreads /\ pc' = [pc EXCEPT ![0] = "arrive"]
    BY DEF ChunkSet, Goto
  <1>4. /\ pc' \in [Thread -> Labels] /\ pc'[0] = "arrive"
        /\ \A u \in Thread \ {0} : pc'[u] = pc[u]
    BY <1>3 DEF IInv, TypeInv, Labels
  <1>5. TypeInv'
    BY <1>3, <1>4 DEF IInv, TypeInv, barrier, parking, callers
  <1>6. BarrierCounts'
    BY <1>1, <1>3, <1>4, SameBarrier DEF barrier
  <1>7. at[0] = "inner" /\ fn[0] # None
    BY <1>1, <1>2, InsideACall DEF BeforeInner, IInv, WorkIsCurrent
  <1>8. WorkIsCurrent'
    BY <1>3, <1>4, <1>7 DEF IInv, WorkIsCurrent, NextOf, barrier, callers
  <1>9. BeforeInner(0)'
    BY <1>3, <1>4, <1>7 DEF BeforeInner, barrier
  <1> QED BY <1>1, <1>2, <1>3, <1>4, <1>5, <1>6, <1>8, <1>9, ComputingKeeps DEF barrier

LEMMA ArriveKeeps ==
    ASSUME IInv, NEW t \in Thread, Arrive(t)
    PROVE  IInv'
  <1>1. ~Free(t) /\ pc[t] = "arrive"
    BY DEF Arrive, Free
  <1>2. /\ UNCHANGED <<parking, callers, shared, n_barrier, n_barrier_passed, at>>
        /\ n_passed' = [n_passed EXCEPT ![t] = n_barrier_passed]
        /\ pc' = [pc EXCEPT ![t] = "enter"]
    BY DEF Arrive, Goto
  <1>3. /\ pc' \in [Thread -> Labels] /\ n_passed' \in [Thread -> Nat]
        /\ pc'[t] = "enter" /\ n_passed'[t] = n_barrier_passed
        /\ \A u \in Thread \ {t} : pc'[u] = pc[u] /\ n_passed'[u] = n_passed[u]
    BY <1>2 DEF IInv, TypeInv, Labels
  <1>4. TypeInv'
    BY <1>2, <1>3 DEF IInv, TypeInv, shared, parking, callers
  <1>5. Waiting' = Waiting
    BY <1>1, <1>2, <1>3 DEF Waiting
  <1>6. BarrierCounts'
    BY <1>1, <1>2, <1>3, <1>5 DEF IInv, BarrierCounts
  <1>7. WorkIsCurrent'
    BY <1>1, <1>2, <1>3 DEF IInv, WorkIsCurrent, NextOf, shared, callers
  <1>8. (BeforeInner(t) => BeforeInner(t)') /\ (BeforeFinal(t) => BeforeFinal(t)')
    BY <1>1, <1>2, <1>3 DEF BeforeInner, BeforeFinal
  <1> QED BY <1>1, <1>2, <1>3, <1>4, <1>6, <1>7, <1>8, InsideACall, ComputingKeeps

(* Entering the barrier: the thread that makes the count NThreads is the   *)
(* one behind which everybody else waits.                                  *)
LEMMA EnterKeeps ==
    ASSUME IInv, NEW t \in Thread, Enter(t)
    PROVE  IInv'
  <1> USE ThreadsAreNumbers
  <1>1. ~Free(t) /\ pc[t] = "enter"
    BY DEF Enter, Free
  <1> DEFINE l == IF n_barrier = NThreads - 1 THEN "last" ELSE "spin"
  <1>2. /\ UNCHANGED <<parking, callers, shared, n_barrier_passed, n_passed, at>>
        /\ n_barrier' = n_barrier + 1 /\ pc' = [pc EXCEPT ![t] = l]
    BY DEF Enter, Goto
  <1>3. /\ pc' \in [Thread -> Labels] /\ pc'[t] = l
        /\ \A u \in Thread \ {t} : pc'[u] = pc[u]
    BY <1>2 DEF IInv, TypeInv, Labels
  <1>4. \A u \in Thread \ {t} : pc[u] \notin {"last", "pass"}
    BY <1>1 DEF IInv, BarrierCounts
  <1>5. /\ n_barrier = Cardinality(Waiting) /\ n_passed[t] = n_barrier_passed
        /\ t \notin Waiting /\ Waiting \in SUBSET Thread
    BY <1>1, <1>4 DEF IInv, BarrierCounts, Waiting
  <1>6. Waiting' = Waiting \cup {t}
    BY <1>2, <1>3, <1>5 DEF Waiting
  <1>7. /\ Cardinality(Waiting') = n_barrier + 1 /\ n_barrier + 1 <= NThreads
        /\ n_barrier + 1 = NThreads => Waiting' = Thread
        /\ n_barrier \in Nat
    <2> DEFINE W == Waiting
    <2>1. W \in SUBSET Thread /\ t \in Thread \ W /\ Waiting' = W \cup {t} /\ n_barrier = Cardinality(W)
      BY <1>5, <1>6
    <2>2. n_barrier \in Nat
      BY ThreadsAreNumbers DEF IInv, TypeInv
    <2> HIDE DEF W
    <2>3. Cardinality(W \cup {t}) = Cardinality(W) + 1 /\ Cardinality(W) + 1 <= NThreads
      BY <2>1, WaitingIsFinite
    <2> DEFINE V == W \cup {t}
    <2>4. V \in SUBSET Thread
      BY <2>1
    <2> HIDE DEF V
    <2>5. Cardinality(V) = NThreads => V = Thread
      BY <2>4, WaitingIsFinite
    <2> QED BY <2>1, <2>2, <2>3, <2>5 DEF V
  <1>8. TypeInv'
    <2>1. n_barrier' \in 0 .. NThreads
      BY <1>2, <1>7
    <2>2. pc' \in [Thread -> Labels]
      BY <1>3
    <2> HIDE DEF l
    <2> QED BY <1>2, <2>1, <2>2 DEF IInv, TypeInv, shared, parking, callers
  <1>9. pc'[t] = "last" => \A u \in Thread \ {t} : pc'[u] = "spin" /\ n_passed'[u] = n_barrier_passed'
    <2>1. SUFFICES ASSUME pc'[t] = "last", NEW u \in Thread \ {t}
                   PROVE  pc'[u] = "spin" /\ n_passed'[u] = n_barrier_passed'
      OBVIOUS
    <2>2. u \in Waiting'
      BY <1>3, <1>7, <2>1
    <2>3. u \in Waiting
      BY <1>6, <2>2
    <2> QED BY <1>2, <1>3, <1>4, <2>3 DEF Waiting
  <1>10. BarrierCounts'
    BY <1>2, <1>3, <1>4, <1>7, <1>9 DEF IInv, BarrierCounts
  <1>11. WorkIsCurrent'
    BY <1>1, <1>2, <1>3 DEF IInv, WorkIsCurrent, NextOf, shared, callers
  <1>12. (BeforeInner(t) => BeforeInner(t)') /\ (BeforeFinal(t) => BeforeFinal(t)')
    BY <1>1, <1>2, <1>3, <1>5 DEF BeforeInner, BeforeFinal
  <1> QED BY <1>1, <1>2, <1>3, <1>8, <1>10, <1>11, <1>12, InsideACall, ComputingKeeps

LEMMA ResetBarrierKeeps ==
    ASSUME IInv, NEW t \in Thread, ResetBarrier(t)
    PROVE  IInv'
  <1>1. ~Free(t) /\ pc[t] = "last"
    BY DEF ResetBarrier, Free
  <1>2. /\ UNCHANGED <<parking, callers, shared, n_barrier_passed, n_passed, at>>
        /\ n_barrier' = 0 /\ pc' = [pc EXCEPT ![t] = "pass"]
    BY DEF ResetBarrier, Goto
  <1>3. /\ pc' \in [Thread -> Labels] /\ pc'[t] = "pass"
        /\ \A u \in Thread \ {t} : pc'[u] = pc[u] /\ pc[u] = "spin" /\ n_passed[u] = n_barrier_passed
    BY <1>1, <1>2 DEF IInv, TypeInv, Labels, BarrierCounts
  <1>4. TypeInv'
    BY <1>2, <1>3, ThreadsAreNumbers DEF IInv, TypeInv, shared, parking, callers
  <1>5. BarrierCounts'
    BY <1>2, <1>3 DEF IInv, BarrierCounts
  <1>6. WorkIsCurrent'
    BY <1>1, <1>2, <1>3 DEF IInv, WorkIsCurrent, NextOf, shared, callers
  <1>7. (BeforeInner(t) => BeforeInner(t)') /\ (BeforeFinal(t) => BeforeFinal(t)')
    BY <1>1, <1>2, <1>3 DEF BeforeInner, BeforeFinal
  <1> QED BY <1>1, <1>2, <1>3, <1>4, <1>5, <1>6, <1>7, InsideACall, ComputingKeeps

(* A barrier opens: the call goes from one phase to the next. *)
LEMMA PassKeeps ==
    ASSUME IInv, NEW t \in Thread, Pass(t)
    PROVE  IInv'
  <1> USE ThreadsAreNumbers
  <1>1. ~Free(t) /\ pc[t] = "pass"
    BY DEF Pass, Free
  <1>2. /\ UNCHANGED <<parking, callers, n_barrier, n_passed, work, exc, current_chunk, times, fn>>
        /\ n_barrier_passed' = n_barrier_passed + 1
        /\ pc' = [pc EXCEPT ![t] = Left(t)]
        /\ chunk' = [chunk EXCEPT ![t] = t] /\ at' = [at EXCEPT ![t] = "final"]
    BY DEF Pass, Leave, Goto
  <1>3. Left(t) \in {"walk", "return", "poll"} /\ t \in Nat
    BY DEF Left, Thread
  <1>4. /\ pc' \in [Thread -> Labels] /\ pc'[t] = Left(t)
        /\ at' \in [Thread -> {"inner", "final"}] /\ at'[t] = "final"
        /\ chunk' \in [Thread -> Nat]
        /\ \A u \in Thread \ {t} : pc'[u] = pc[u] /\ at'[u] = at[u]
    BY <1>2, <1>3 DEF IInv, TypeInv, Labels
  <1>5. /\ n_barrier_passed \in Nat /\ n_graph \in Nat /\ n_barrier = 0
        /\ \A u \in Thread \ {t} : /\ pc[u] = "spin" /\ n_passed[u] = n_barrier_passed
                                   /\ n_passed'[u] # n_barrier_passed'
    BY <1>1, <1>2 DEF IInv, TypeInv, BarrierCounts
  <1>6. TypeInv'
    BY <1>2, <1>4, <1>5 DEF IInv, TypeInv, parking, callers
  <1>7. Waiting' = {}
    BY <1>3, <1>4, <1>5 DEF Waiting
  <1>8. BarrierCounts'
    BY <1>2, <1>3, <1>4, <1>5, <1>7, FS_EmptySet DEF BarrierCounts
  <1>9. WorkIsCurrent'
    <2>1. at[t] = "inner" => fn[t] # None
      BY <1>1 DEF IInv, WorkIsCurrent
    <2>2. at[t] # "inner" => fn[t] = None
      BY <1>1 DEF IInv, WorkIsCurrent
    <2>3. pc'[t] = "walk" <=> at[t] = "inner"
      BY <1>4 DEF Left
    <2> QED BY <1>2, <1>3, <1>4, <2>1, <2>2, <2>3 DEF IInv, WorkIsCurrent, NextOf, callers
  <1>10. CASE Gathering
    <2>1. \A u \in Thread : Begun(u) /\ at[u] = "inner"
      BY <1>1, <1>5, <1>10 DEF Gathering, BeforeInner, Free, Begun
    <2>2. \A u \in Thread : Begun(u)' /\ BeforeFinal(u)'
      BY <1>2, <1>4, <1>5, <2>1 DEF Begun, BeforeFinal, Left, parking
    <2>3. call[run_mutex] = "compute"
      BY <1>1, <1>5, <1>10 DEF Gathering
    <2>4. Computing'
      BY <1>2, <1>5, <1>10, <2>2, <2>3 DEF Gathering, Computing, parking, callers
    <2> QED BY <1>6, <1>8, <1>9, <2>4 DEF IInv, Phases
  <1>11. CASE Computing
    <2>1. \A u \in Thread : Begun(u) /\ at[u] = "final"
      BY <1>1, <1>5, <1>11 DEF Computing, BeforeFinal
    <2>2. \A u \in Thread : Outside(u)'
      BY <1>2, <1>3, <1>4, <1>5, <2>1 DEF Outside, Free, Begun, Left, parking
    <2>3. pc'[0] # "idle"
      BY <1>3, <1>4, <1>5
    <2>4. AtRest'
      BY <1>2, <1>5, <1>11, <2>2, <2>3 DEF AtRest, Computing, parking, callers
    <2> QED BY <1>6, <1>8, <1>9, <2>4 DEF IInv, Phases
  <1> QED BY <1>1, <1>10, <1>11, InsideACall

(* A waiting thread finds the barrier open: the inner one, and it goes on  *)
(* in the same call; or the final one, which it may leave long after.      *)
LEMMA SpinKeeps ==
    ASSUME IInv, NEW t \in Thread, Spin(t)
    PROVE  IInv'
  <1> USE ThreadsAreNumbers
  <1>1. pc[t] = "spin" /\ n_passed[t] # n_barrier_passed
    BY DEF Spin
  <1>2. /\ UNCHANGED <<parking, callers, n_barrier, n_barrier_passed, n_passed, work, exc,
                       current_chunk, times, fn>>
        /\ pc' = [pc EXCEPT ![t] = Left(t)]
        /\ chunk' = [chunk EXCEPT ![t] = t] /\ at' = [at EXCEPT ![t] = "final"]
    BY DEF Spin, Leave, Goto
  <1>3. Left(t) \in {"walk", "return", "poll"} /\ t \in Nat
    BY DEF Left, Thread
  <1>4. /\ pc' \in [Thread -> Labels] /\ pc'[t] = Left(t)
        /\ at' \in [Thread -> {"inner", "final"}] /\ at'[t] = "final"
        /\ chunk' \in [Thread -> Nat]
        /\ \A u \in Thread \ {t} : pc'[u] = pc[u] /\ at'[u] = at[u]
    BY <1>2, <1>3 DEF IInv, TypeInv, Labels
  <1>5. TypeInv'
    BY <1>2, <1>4 DEF IInv, TypeInv, parking, callers
  <1>6. Waiting' = Waiting
    BY <1>1, <1>2, <1>3, <1>4 DEF Waiting
  <1>7. BarrierCounts'
    BY <1>1, <1>2, <1>3, <1>4, <1>6 DEF IInv, BarrierCounts
  <1>8. WorkIsCurrent'
    <2>1. at[t] = "inner" => fn[t] # None
      BY <1>1 DEF IInv, WorkIsCurrent
    <2>2. at[t] # "inner" => fn[t] = None
      BY <1>1 DEF IInv, WorkIsCurrent
    <2>3. pc'[t] = "walk" <=> at[t] = "inner"
      BY <1>4 DEF Left
    <2> QED BY <1>2, <1>3, <1>4, <2>1, <2>2, <2>3 DEF IInv, WorkIsCurrent, NextOf, callers
  <1>9. CASE at[t] = "inner"
    <2>1. ~Free(t) /\ ~BeforeInner(t) /\ pc'[t] = "walk"
      BY <1>1, <1>4, <1>9 DEF Free, BeforeInner, Left
    <2>2. BeforeFinal(t)'
      BY <1>4, <2>1 DEF BeforeFinal
    <2> QED BY <1>2, <1>4, <1>5, <1>7, <1>8, <2>1, <2>2, InsideACall, ComputingKeeps
  <1>10. CASE at[t] = "final"
    <2>1. Free(t) /\ ~BeforeInner(t) /\ ~BeforeFinal(t)
      BY <1>1, <1>10 DEF Free, BeforeInner, BeforeFinal
    <2>2. Free(t)' /\ pc'[t] # "idle" /\ pc[t] # "idle"
      BY <1>1, <1>3, <1>4, <1>10 DEF Free, Left
    <2>3. \A u \in Thread \ {t} : (Free(u)' <=> Free(u)) /\ (BeforeInner(u)' <=> BeforeInner(u))
      BY <1>2, <1>4 DEF Free, BeforeInner
    <2>4. \A u \in Thread : Begun(u)' <=> Begun(u)
      BY <1>2 DEF Begun, parking
    <2>5. CASE AtRest
      <3>1. AtRest'
        BY <1>2, <1>4, <2>2, <2>3, <2>4, <2>5 DEF AtRest, Outside, parking, callers
      <3> QED BY <1>5, <1>7, <1>8, <3>1 DEF IInv, Phases
    <2>6. CASE Gathering
      <3>1. t # 0
        BY <2>1, <2>2, <2>6 DEF Gathering
      <3>2. Gathering'
        BY <1>2, <1>4, <2>1, <2>2, <2>3, <2>4, <2>6, <3>1 DEF Gathering, parking, callers
      <3> QED BY <1>5, <1>7, <1>8, <3>2 DEF IInv, Phases
    <2>7. ~Computing
      BY <2>1 DEF Computing
    <2> QED BY <2>5, <2>6, <2>7 DEF IInv, Phases
  <1> QED BY <1>9, <1>10 DEF IInv, TypeInv

LEMMA WalkKeeps ==
    ASSUME IInv, NEW t \in Thread, Walk(t)
    PROVE  IInv'
  <1> USE ThreadsAreNumbers
  <1>1. ~Free(t) /\ pc[t] = "walk"
    BY DEF Walk, Free
  <1>2. Computing /\ ~Gathering /\ at[t] = "final"
    BY <1>1, InsideACall DEF BeforeInner, BeforeFinal
  <1>3. fn[t] = work /\ work # None
    BY <1>1 DEF IInv, WorkIsCurrent
  <1>4. /\ UNCHANGED <<barrier, parking, callers, work, current_chunk, chunk>>
        /\ DOMAIN times' = DOMAIN times
        /\ exc' \in {exc, work}
        /\ \/ pc' = [pc EXCEPT ![t] = "arrive"] /\ fn' = [fn EXCEPT ![t] = None]
           \/ pc' = [pc EXCEPT ![t] = "steal"] /\ fn' = fn
    BY <1>3 DEF Walk, Goto
  <1>5. times' \in Seq(Nat)
    <2>1. \E R : times' = [r \in DOMAIN times |-> IF r \in R THEN times[r] + 1 ELSE times[r]]
      BY DEF Walk
    <2>2. times \in Seq(Nat) /\ Len(times) \in Nat /\ DOMAIN times = 1 .. Len(times)
      BY DEF IInv, TypeInv
    <2>3. times \in [1 .. Len(times) -> Nat]
      BY <2>2
    <2>4. times' \in [1 .. Len(times) -> Nat]
      BY <2>1, <2>2, <2>3
    <2> QED BY <2>2, <2>4, SeqDef
  <1>6. /\ pc' \in [Thread -> Labels] /\ fn' \in [Thread -> Calls \cup {None}]
        /\ \/ pc'[t] = "arrive" /\ fn'[t] = None
           \/ pc'[t] = "steal" /\ fn'[t] = fn[t]
        /\ \A u \in Thread \ {t} : pc'[u] = pc[u] /\ fn'[u] = fn[u]
    BY <1>4 DEF IInv, TypeInv, Labels
  <1>7. TypeInv'
    BY <1>4, <1>5, <1>6 DEF IInv, TypeInv, barrier, parking, callers
  <1>8. BarrierCounts'
    BY <1>1, <1>4, <1>6, SameBarrier DEF barrier
  <1>9. WorkIsCurrent'
    BY <1>2, <1>3, <1>4, <1>6 DEF IInv, WorkIsCurrent, NextOf, barrier, callers
  <1>10. BeforeFinal(t)'
    BY <1>2, <1>4, <1>6 DEF BeforeFinal, barrier
  <1> QED BY <1>1, <1>2, <1>4, <1>6, <1>7, <1>8, <1>9, <1>10, ComputingKeeps DEF barrier

LEMMA StealKeeps ==
    ASSUME IInv, NEW t \in Thread, Steal(t)
    PROVE  IInv'
  <1> USE ThreadsAreNumbers
  <1>1. ~Free(t) /\ pc[t] = "steal"
    BY DEF Steal, Free
  <1>2. Computing /\ ~Gathering /\ at[t] = "final"
    BY <1>1, InsideACall DEF BeforeInner, BeforeFinal
  <1>3. /\ UNCHANGED <<barrier, parking, callers, work, exc, times, fn>>
        /\ chunk' = [chunk EXCEPT ![t] = current_chunk] /\ current_chunk' = current_chunk + 1
        /\ pc' = [pc EXCEPT ![t] = "walk"]
    BY DEF Steal, Goto
  <1>4. /\ pc' \in [Thread -> Labels] /\ pc'[t] = "walk"
        /\ chunk' \in [Thread -> Nat] /\ current_chunk' \in Nat
        /\ \A u \in Thread \ {t} : pc'[u] = pc[u]
    BY <1>3 DEF IInv, TypeInv, Labels
  <1>5. TypeInv'
    BY <1>3, <1>4 DEF IInv, TypeInv, barrier, parking, callers
  <1>6. BarrierCounts'
    BY <1>1, <1>3, <1>4, SameBarrier DEF barrier
  <1>7. WorkIsCurrent'
    BY <1>1, <1>3, <1>4 DEF IInv, WorkIsCurrent, NextOf, barrier, callers
  <1>8. BeforeFinal(t)'
    BY <1>2, <1>3, <1>4 DEF BeforeFinal, barrier
  <1> QED BY <1>1, <1>2, <1>3, <1>4, <1>5, <1>6, <1>7, <1>8, ComputingKeeps DEF barrier

----------------------------------------------------------------------------
LEMMA NextIInv == IInv /\ [Next]_vars => IInv'
  <1> SUFFICES ASSUME IInv, [Next]_vars PROVE IInv'
    OBVIOUS
  <1>1. ASSUME NEW s \in Submitter, Submits(s) PROVE IInv'
    BY <1>1, RunInlineKeeps, RunKeeps, KickoffKeeps, KickoffNotifyKeeps, ReturnKeeps DEF Submits
  <1>2. ASSUME NEW t \in Thread, Computes(t) PROVE IInv'
    BY <1>2, ReadWorkKeeps, ChunkSetKeeps, ArriveKeeps, EnterKeeps, ResetBarrierKeeps, PassKeeps,
       SpinKeeps, WalkKeeps, StealKeeps DEF Computes
  <1>3. ASSUME NEW t \in Worker, Parks(t) \/ StopPolling(t) \/ SpuriousWakeup(t) PROVE IInv'
    BY <1>3, ParksKeeps
  <1>4. ASSUME Destroys PROVE IInv'
    BY <1>4, DestroyKeeps
  <1>5. ASSUME UNCHANGED vars PROVE IInv'
    <2> USE <1>5 DEF vars, barrier, parking, callers, shared
    <2>1. TypeInv' /\ BarrierCounts' /\ WorkIsCurrent'
      BY DEF IInv, TypeInv, BarrierCounts, Waiting, WorkIsCurrent, NextOf
    <2>2. Phases'
      BY DEF IInv, Phases, AtRest, Gathering, Computing, Outside, Begun, Free, BeforeInner, BeforeFinal
    <2> QED BY <2>1, <2>2 DEF IInv
  <1> QED BY <1>1, <1>2, <1>3, <1>4, <1>5 DEF Next

(* The invariant behind the results below: the barrier counts who waits,   *)
(* and its number of openings tells where in a call every thread is.       *)
THEOREM Invariance == Spec => []IInv
  BY InitIInv, NextIInv, PTL DEF Spec

(* Every reachable state is well-typed. *)
THEOREM TypeCorrect == Spec => []TypeInv
  BY Invariance, PTL DEF IInv

(* No thread runs the function object of a call after Run has returned to  *)
(* the submitter that owns it.                                             *)
THEOREM NoUseAfterReturn == Spec => []FnOutlivesItsUse
  <1>1. IInv => FnOutlivesItsUse
    <2> SUFFICES ASSUME IInv, NEW t \in Thread, fn[t] # None
                 PROVE  fn[t] = work /\ run_mutex = work[1]
      BY DEF FnOutlivesItsUse
    <2>1. fn[t] = work /\ run_mutex # None /\ work = NextOf(run_mutex)
      BY DEF IInv, WorkIsCurrent
    <2>2. run_mutex \in Submitter
      BY <2>1 DEF IInv, TypeInv
    <2> QED BY <2>1, <2>2, CallsAreTyped DEF IInv
  <1> QED BY <1>1, Invariance, PTL

----------------------------------------------------------------------------
(* The threadpool implements the parallel for its header promises, for any *)
(* number of threads, submitters and grids: every row of a call runs       *)
(* exactly once, whichever thread steals its chunk.                        *)
(*                                                                         *)
(* The argument follows the chunks of the call inside Run.  A chunk is     *)
(* pending while the cursor is not past it or a thread holds it without    *)
(* having walked it; no two threads hold the same chunk; the rows of       *)
(* pending chunks have not run, all others have, unless the body threw.    *)

Nr     == Grid(work).nr
Chunks == 0 .. nchunk(Nr) - 1

(* Between the two barriers of a call: a thread that has not left the      *)
(* inner one holds the chunk of its own number.                            *)
Holds(t) == at[t] = "inner" \/ pc[t] = "walk"
Held(t)  == IF at[t] = "inner" THEN t ELSE chunk[t]
Pending(k) == k >= current_chunk \/ \E t \in Thread : Holds(t) /\ Held(t) = k

AtBarrier == {"arrive", "enter", "last", "pass", "spin"}

Untouched == \A r \in DOMAIN times : times[r] = 0
HasRun(r) == times[r] = 1 \/ exc # None

(* Everybody is on the way to the inner barrier. *)
CursorIsSet == at[0] = "inner" /\ pc[0] \in AtBarrier => current_chunk = NThreads

ChunksAreOwn ==
    \A t \in Thread : Holds(t) =>
        /\ Held(t) < current_chunk
        /\ \A u \in Thread \ {t} : Holds(u) => Held(u) # Held(t)
PendingRows ==
    \A k \in Chunks : \A r \in RowsOf(Nr, k) :
        IF Pending(k) THEN times[r] = 0 ELSE HasRun(r)
NoneLeft == \A t \in Thread :
    at[t] = "final" /\ pc[t] \in AtBarrier => current_chunk >= nchunk(Nr) \/ exc # None

(* What holds of the rows in each phase of the call inside Run. *)
RowInv ==
    run_mutex # None =>
        /\ HasMore(run_mutex)
        /\ DOMAIN times = 1 .. Nr
        /\ AtRest /\ call[run_mutex] = "kick" => Untouched
        /\ Gathering => Untouched /\ CursorIsSet
        /\ Computing => ChunksAreOwn /\ PendingRows /\ NoneLeft
        /\ AtRest /\ call[run_mutex] = "compute" => \A r \in DOMAIN times : HasRun(r)

FullInv == IInv /\ RowInv

----------------------------------------------------------------------------
(* The arithmetic of the chunk grid. *)

LEMMA DivBounds ==
    ASSUME NEW a \in Nat, NEW d \in Nat \ {0}
    PROVE  a \div d \in Nat /\ d * (a \div d) <= a /\ a < d * (a \div d) + d
  OBVIOUS

LEMMA CeilDivBounds ==
    ASSUME NEW a \in Nat \ {0}, NEW d \in Nat \ {0}
    PROVE  CeilDiv(a, d) \in Nat \ {0} /\ a <= d * CeilDiv(a, d)
  <1> DEFINE q == (a + d - 1) \div d
  <1>1. a + d - 1 \in Nat
    OBVIOUS
  <1>2. q \in Nat /\ a + d - 1 < d * q + d
    BY <1>1, DivBounds
  <1>3. a <= d * q
    <2> HIDE DEF q
    <2> QED BY <1>2
  <1>4. q # 0
    <2> HIDE DEF q
    <2> QED BY <1>2, <1>3
  <1> QED BY <1>2, <1>3, <1>4 DEF CeilDiv

LEMMA GridIsPositive ==
    ASSUME NEW nr \in Nat \ {0}
    PROVE  nchunk(nr) \in Nat \ {0} /\ nchunk(nr) >= NThreads
  <1>1. NThreads \in Nat /\ NThreads > 1 /\ NThreads * 4 \in Nat \ {0}
    BY ThreadsAreNumbers
  <1> DEFINE d == CeilDiv(nr, NThreads * 4)
             n == CeilDiv(nr, d)
  <1>2. d \in Nat \ {0}
    BY <1>1, CeilDivBounds
  <1>3. n \in Nat
    <2> HIDE DEF d
    <2> QED BY <1>2, CeilDivBounds
  <1>4. nchunk(nr) = IF n < NThreads THEN NThreads ELSE n
    BY DEF nchunk
  <1> HIDE DEF n
  <1> QED BY <1>1, <1>3, <1>4

(* No row belongs to two chunks ... *)
LEMMA ChunksAreDisjoint ==
    ASSUME NEW nr \in Nat \ {0}, NEW j \in Nat, NEW k \in Nat,
           NEW r \in RowsOf(nr, j), r \in RowsOf(nr, k)
    PROVE  j = k
  <1> DEFINE d == CeilDiv(nr, nchunk(nr))
  <1>1. d \in Nat \ {0}
    BY GridIsPositive, CeilDivBounds
  <1>2. /\ r \in Nat /\ d * j < r /\ r <= d * (j + 1) /\ d * k < r /\ r <= d * (k + 1)
    BY DEF RowsOf
  <1> HIDE DEF d
  <1>3. ASSUME NEW m \in Nat, NEW n \in Nat, m < n PROVE d * (m + 1) <= d * n
    BY <1>1, <1>3
  <1>4. ~(j < k)
    <2> SUFFICES ASSUME j < k PROVE FALSE
      OBVIOUS
    <2>1. d * (j + 1) <= d * k
      BY <1>3
    <2>2. d * k \in Nat /\ d * (j + 1) \in Nat
      BY <1>1
    <2> QED BY <1>2, <2>1, <2>2
  <1>5. ~(k < j)
    <2> SUFFICES ASSUME k < j PROVE FALSE
      OBVIOUS
    <2>1. d * (k + 1) <= d * j
      BY <1>3
    <2>2. d * j \in Nat /\ d * (k + 1) \in Nat
      BY <1>1
    <2> QED BY <1>2, <2>1, <2>2
  <1> QED BY <1>4, <1>5

(* ... and every row belongs to one. *)
LEMMA ChunksCover ==
    ASSUME NEW nr \in Nat \ {0}, NEW r \in 1 .. nr
    PROVE  \E k \in 0 .. nchunk(nr) - 1 : r \in RowsOf(nr, k)
  <1> DEFINE n == nchunk(nr)
             d == CeilDiv(nr, n)
             k == (r - 1) \div d
  <1>1. n \in Nat \ {0}
    BY GridIsPositive
  <1>2. d \in Nat \ {0} /\ nr <= n * d
    <2> HIDE DEF n
    <2> QED BY <1>1, CeilDivBounds
  <1>3. k \in Nat /\ d * k <= r - 1 /\ r - 1 < d * k + d
    <2> HIDE DEF d
    <2>1. r - 1 \in Nat
      OBVIOUS
    <2> QED BY <1>2, <2>1, DivBounds
  <1>4. d * k < r /\ r <= d * (k + 1) /\ k < n
    <2> HIDE DEF d, k, n
    <2>1. d * (k + 1) = d * k + d /\ d * k \in Nat
      BY <1>2, <1>3
    <2>2. d * k < r /\ r <= d * (k + 1)
      BY <1>2, <1>3, <2>1
    <2>3. d * k < n * d /\ n * d = d * n /\ d * n \in Nat
      BY <1>1, <1>2, <2>1, <2>2
    <2>4. ASSUME n <= k PROVE d * n <= d * k
      BY <1>1, <1>2, <1>3, <2>4
    <2> QED BY <1>1, <1>3, <2>1, <2>2, <2>3, <2>4
  <1>5. r \in RowsOf(nr, k)
    BY <1>4 DEF RowsOf
  <1>6. k \in 0 .. n - 1
    <2> HIDE DEF k, n
    <2> QED BY <1>1, <1>3, <1>4
  <1> QED BY <1>5, <1>6

LEMMA RowsAreRows ==
    ASSUME NEW nr \in Nat \ {0}, NEW k \in Nat
    PROVE  RowsOf(nr, k) \subseteq 1 .. nr
  BY DEF RowsOf

----------------------------------------------------------------------------
(* The call inside Run, and the phase it is in. *)

LEMMA CallInside ==
    ASSUME FullInv, run_mutex # None
    PROVE  /\ run_mutex \in Submitter /\ work = NextOf(run_mutex) /\ work # None
           /\ Nr \in Nat \ {0} /\ Grid(work).throws \subseteq 1 .. Nr
           /\ \A k \in Chunks : k \in Nat /\ RowsOf(Nr, k) \subseteq 1 .. Nr
  <1>1. run_mutex \in Submitter /\ work = NextOf(run_mutex)
    BY DEF FullInv, IInv, TypeInv, WorkIsCurrent
  <1>2. work # None
    BY <1>1, CallsAreTyped DEF FullInv, IInv
  <1>3. Nr \in Nat \ {0} /\ Grid(work).throws \subseteq 1 .. Nr
    BY <1>1, GridsAreTyped DEF FullInv, IInv, RowInv, Nr
  <1>4. \A k \in Chunks : k \in Nat
    BY <1>3, GridIsPositive DEF Chunks
  <1>5. \A k \in Chunks : RowsOf(Nr, k) \subseteq 1 .. Nr
    BY <1>3, <1>4, RowsAreRows
  <1> QED BY <1>1, <1>2, <1>3, <1>4, <1>5

LEMMA OnePhase ==
    ASSUME IInv
    PROVE  /\ AtRest \/ Gathering \/ Computing
           /\ ~(AtRest /\ Gathering) /\ ~(AtRest /\ Computing) /\ ~(Gathering /\ Computing)
           /\ AtRest <=> n_barrier_passed = 2 * n_graph
           /\ Gathering <=> n_barrier_passed = 2 * n_graph - 2
           /\ Computing <=> n_barrier_passed = 2 * n_graph - 1
  <1>1. n_graph \in Nat /\ n_barrier_passed \in Nat
    BY DEF IInv, TypeInv
  <1>2. /\ AtRest => n_barrier_passed = 2 * n_graph
        /\ Gathering => n_barrier_passed = 2 * n_graph - 2
        /\ Computing => n_barrier_passed = 2 * n_graph - 1
    BY DEF AtRest, Gathering, Computing
  <1>3. AtRest \/ Gathering \/ Computing
    BY DEF IInv, Phases
  <1> QED BY <1>1, <1>2, <1>3

LEMMA OnePhaseNext ==
    ASSUME IInv'
    PROVE  /\ (AtRest \/ Gathering \/ Computing)'
           /\ ~(AtRest /\ Gathering)' /\ ~(AtRest /\ Computing)' /\ ~(Gathering /\ Computing)'
           /\ AtRest' <=> n_barrier_passed' = 2 * n_graph'
           /\ Gathering' <=> n_barrier_passed' = 2 * n_graph' - 2
           /\ Computing' <=> n_barrier_passed' = 2 * n_graph' - 1
  <1>1. (IInv => /\ AtRest \/ Gathering \/ Computing
                 /\ ~(AtRest /\ Gathering) /\ ~(AtRest /\ Computing) /\ ~(Gathering /\ Computing)
                 /\ AtRest <=> n_barrier_passed = 2 * n_graph
                 /\ Gathering <=> n_barrier_passed = 2 * n_graph - 2
                 /\ Computing <=> n_barrier_passed = 2 * n_graph - 1)'
    BY OnePhase, PTL
  <1> QED BY <1>1

LEMMA SamePhase ==
    ASSUME IInv, IInv', UNCHANGED <<n_graph, n_barrier_passed>>
    PROVE  (AtRest' <=> AtRest) /\ (Gathering' <=> Gathering) /\ (Computing' <=> Computing)
  BY OnePhase, OnePhaseNext

(* A step that touches neither rows nor cursor nor phase keeps RowInv. *)
LEMMA RowsKept ==
    ASSUME FullInv, IInv',
           UNCHANGED <<run_mutex, n_graph, n_barrier_passed, times, exc, work, current_chunk>>,
           run_mutex # None => results'[run_mutex] = results[run_mutex],
           run_mutex # None /\ AtRest => call'[run_mutex] = call[run_mutex],
           Gathering => CursorIsSet',
           Computing => \A t \in Thread :
               /\ Holds(t)' <=> Holds(t)
               /\ Holds(t) => Held(t)' = Held(t)
               /\ at'[t] = "final" /\ pc'[t] \in AtBarrier => at[t] = "final" /\ pc[t] \in AtBarrier
    PROVE  RowInv'
  <1> SUFFICES ASSUME run_mutex # None
               PROVE  RowInv'
    BY DEF RowInv
  <1>1. (AtRest' <=> AtRest) /\ (Gathering' <=> Gathering) /\ (Computing' <=> Computing)
    BY SamePhase DEF FullInv
  <1>2. Nr' = Nr /\ Chunks' = Chunks
    BY DEF Nr, Chunks
  <1>3. HasMore(run_mutex)'
    BY DEF FullInv, RowInv, HasMore
  <1>4. ASSUME Computing PROVE (ChunksAreOwn /\ PendingRows /\ NoneLeft)'
    <2>1. ChunksAreOwn /\ PendingRows /\ NoneLeft
      BY <1>4 DEF FullInv, RowInv
    <2>2. \A t \in Thread :
               /\ Holds(t)' <=> Holds(t)
               /\ Holds(t) => Held(t)' = Held(t)
               /\ at'[t] = "final" /\ pc'[t] \in AtBarrier => at[t] = "final" /\ pc[t] \in AtBarrier
      BY <1>4
    <2>3. ChunksAreOwn'
      BY <2>1, <2>2 DEF ChunksAreOwn
    <2>4. \A k : Pending(k)' <=> Pending(k)
      BY <2>2 DEF Pending
    <2>5. PendingRows'
      BY <1>2, <2>1, <2>4 DEF PendingRows, HasRun
    <2>6. NoneLeft'
      BY <1>2, <2>1, <2>2 DEF NoneLeft
    <2> QED BY <2>3, <2>5, <2>6
  <1> QED BY <1>1, <1>2, <1>3, <1>4 DEF FullInv, RowInv, Untouched, HasRun

LEMMA Stutters ==
    ASSUME UNCHANGED <<run_mutex, results, times, exc>>
    PROVE  UNCHANGED Abstract!vars
  BY DEF Abstract!vars, NextOf

LEMMA RowInvInit == Init => FullInv
  BY InitIInv DEF FullInv, RowInv, Init

LEMMA InitImplements == Init => Abstract!Init
  BY DEF Init, Abstract!Init

----------------------------------------------------------------------------
(* The steps that leave the rows alone *)

LEMMA ParkStep ==
    ASSUME FullInv, IInv',
           UNCHANGED <<callers, n_barrier_passed, n_graph, at, work, exc, current_chunk, times, chunk>>,
           \A t \in Thread : pc'[t] = pc[t] \/ (pc[t] \in Parked /\ pc'[t] \in Parked \cup {"compute"})
    PROVE  RowInv' /\ UNCHANGED Abstract!vars
  <1>1. UNCHANGED <<run_mutex, results, call>>
    BY DEF callers
  <1>2. ASSUME NEW t \in Thread
        PROVE  (pc'[t] \in AtBarrier <=> pc[t] \in AtBarrier) /\ (pc'[t] = "walk" <=> pc[t] = "walk")
    BY DEF AtBarrier, Parked
  <1>3. \A t \in Thread : /\ Holds(t)' <=> Holds(t)
                          /\ Held(t)' = Held(t)
    BY <1>2 DEF Holds, Held
  <1>4. CursorIsSet => CursorIsSet'
    BY <1>2, ThreadsAreNumbers DEF CursorIsSet
  <1>5. Gathering /\ run_mutex # None => CursorIsSet
    BY DEF FullInv, RowInv
  <1>6. Gathering => run_mutex # None
    BY DEF Gathering
  <1>7. RowInv'
    BY <1>1, <1>2, <1>3, <1>4, <1>5, <1>6, RowsKept
  <1> QED BY <1>1, <1>7, Stutters

LEMMA ParksStep ==
    ASSUME FullInv, IInv', NEW t \in Worker, Parks(t) \/ StopPolling(t) \/ SpuriousWakeup(t)
    PROVE  RowInv' /\ UNCHANGED Abstract!vars
  <1>1. UNCHANGED <<callers, n_barrier_passed, n_graph, at, work, exc, current_chunk, times, chunk>>
    BY DEF Parks, Poll, Stopped, CheckForWork, Sleep, StopPolling, SpuriousWakeup, TakeWork,
           barrier, parking, shared
  <1>2. \E l \in Parked \cup {"compute"} : pc[t] \in Parked /\ pc' = [pc EXCEPT ![t] = l]
    BY DEF Parks, Poll, Stopped, CheckForWork, Sleep, StopPolling, SpuriousWakeup, TakeWork,
           Goto, Parked
  <1>3. \A u \in Thread : pc'[u] = pc[u] \/ (pc[u] \in Parked /\ pc'[u] \in Parked \cup {"compute"})
    BY <1>2 DEF FullInv, IInv, TypeInv
  <1> QED BY <1>1, <1>3, ParkStep

LEMMA DestroyStep ==
    ASSUME FullInv, IInv', Destroys
    PROVE  RowInv' /\ UNCHANGED Abstract!vars
  <1>1. UNCHANGED <<callers, n_barrier_passed, n_graph, at, work, exc, current_chunk, times, chunk>>
    BY DEF Destroys, DestroyStop, DestroyNotify, Join, barrier, shared
  <1>2. pc' = pc \/ pc' = Woken
    BY DEF Destroys, DestroyStop, DestroyNotify, Join
  <1>3. \A u \in Thread : pc'[u] = pc[u] \/ (pc[u] \in Parked /\ pc'[u] \in Parked \cup {"compute"})
    BY <1>2 DEF Woken, Parked
  <1> QED BY <1>1, <1>3, ParkStep

LEMMA KickoffNotifyStep ==
    ASSUME FullInv, IInv', NEW s \in Submitter, KickoffNotify(s)
    PROVE  RowInv' /\ UNCHANGED Abstract!vars
  <1> USE ThreadsAreNumbers
  <1>1. /\ UNCHANGED <<barrier, shared, run_mutex, results, n_graph>>
        /\ call[s] = "notify" /\ pc' = [Woken EXCEPT ![0] = "compute"]
    BY DEF KickoffNotify
  <1>2. run_mutex = s /\ s # None /\ Gathering /\ ~AtRest /\ ~Computing
    <2>1. run_mutex = s /\ s # None
      BY <1>1, ThreadpoolAssumption DEF FullInv, IInv, WorkIsCurrent, ThreadpoolAssumption
    <2>2. ~AtRest /\ ~Computing
      BY <1>1, <2>1 DEF AtRest, Computing
    <2> QED BY <2>1, <2>2, OnePhase DEF FullInv
  <1>3. pc'[0] = "compute"
    BY <1>1 DEF Woken
  <1>4. CursorIsSet'
    BY <1>3 DEF CursorIsSet, AtBarrier
  <1>5. RowInv'
    BY <1>1, <1>2, <1>4, RowsKept DEF barrier, shared
  <1> QED BY <1>1, <1>5, Stutters DEF shared

LEMMA ReadWorkStep ==
    ASSUME FullInv, IInv', NEW t \in Thread, ReadWork(t)
    PROVE  RowInv' /\ UNCHANGED Abstract!vars
  <1> USE ThreadsAreNumbers
  <1>1. /\ UNCHANGED <<callers, n_graph, n_barrier_passed, work, exc, current_chunk, times>>
        /\ pc[t] = "compute"
        /\ at' = [at EXCEPT ![t] = IF work = None THEN "final" ELSE "inner"]
        /\ pc' = [pc EXCEPT ![t] = IF work # None /\ t = 0 THEN "seed" ELSE "arrive"]
    BY DEF ReadWork, Goto, parking
  <1>2. ~Free(t)
    BY <1>1 DEF Free
  <1>3. Gathering /\ ~Computing /\ work # None /\ run_mutex # None
    BY <1>1, <1>2, InsideACall DEF FullInv, BeforeFinal
  <1>4. CursorIsSet'
    <2>1. CursorIsSet
      BY <1>3 DEF FullInv, RowInv
    <2>2. CASE t = 0
      BY <1>1, <1>3, <2>2 DEF CursorIsSet, AtBarrier, FullInv, IInv, TypeInv
    <2>3. CASE t # 0
      BY <1>1, <2>1, <2>3 DEF CursorIsSet, FullInv, IInv, TypeInv
    <2> QED BY <2>2, <2>3
  <1>5. UNCHANGED <<run_mutex, results, call>>
    BY <1>1 DEF callers
  <1>6. RowInv'
    BY <1>1, <1>3, <1>4, <1>5, RowsKept
  <1> QED BY <1>1, <1>5, <1>6, Stutters

(* Arriving at a barrier, entering it, resetting it. *)
LEMMA BarrierStep ==
    ASSUME FullInv, IInv', NEW t \in Thread, Arrive(t) \/ Enter(t) \/ ResetBarrier(t)
    PROVE  RowInv' /\ UNCHANGED Abstract!vars
  <1> USE ThreadsAreNumbers
  <1>1. /\ UNCHANGED <<callers, shared, n_graph, n_barrier_passed, at>>
        /\ \E l \in AtBarrier : pc[t] \in AtBarrier /\ pc' = [pc EXCEPT ![t] = l]
    BY DEF Arrive, Enter, ResetBarrier, Goto, parking, AtBarrier
  <1>2. UNCHANGED <<run_mutex, results, call, work, exc, current_chunk, times, chunk>>
    BY <1>1 DEF callers, shared
  <1>3. \A u \in Thread : /\ pc'[u] \in AtBarrier <=> pc[u] \in AtBarrier
                          /\ pc'[u] = "walk" <=> pc[u] = "walk"
    BY <1>1 DEF FullInv, IInv, TypeInv, AtBarrier
  <1>4. \A u \in Thread : (Holds(u)' <=> Holds(u)) /\ Held(u)' = Held(u)
    BY <1>1, <1>2, <1>3 DEF Holds, Held
  <1>5. CursorIsSet => CursorIsSet'
    BY <1>1, <1>2, <1>3 DEF CursorIsSet
  <1>6. Gathering => CursorIsSet
    BY DEF FullInv, RowInv, Gathering
  <1>7. RowInv'
    BY <1>1, <1>2, <1>3, <1>4, <1>5, <1>6, RowsKept
  <1> QED BY <1>2, <1>7, Stutters

(* A thread that leaves a barrier late: of the inner one with the chunk    *)
(* that was its own all along.                                             *)
LEMMA SpinStep ==
    ASSUME FullInv, IInv', NEW t \in Thread, Spin(t)
    PROVE  RowInv' /\ UNCHANGED Abstract!vars
  <1> USE ThreadsAreNumbers
  <1>1. /\ UNCHANGED <<callers, n_graph, n_barrier_passed, work, exc, current_chunk, times>>
        /\ pc[t] = "spin" /\ n_passed[t] # n_barrier_passed
        /\ pc' = [pc EXCEPT ![t] = Left(t)] /\ at' = [at EXCEPT ![t] = "final"]
        /\ chunk' = [chunk EXCEPT ![t] = t]
    BY DEF Spin, Leave, Goto, parking
  <1>2. UNCHANGED <<run_mutex, results, call>>
    BY <1>1 DEF callers
  <1>3. /\ pc'[t] = Left(t) /\ at'[t] = "final" /\ chunk'[t] = t
        /\ \A u \in Thread \ {t} : pc'[u] = pc[u] /\ at'[u] = at[u] /\ chunk'[u] = chunk[u]
    BY <1>1 DEF FullInv, IInv, TypeInv
  <1>4. Left(t) \notin AtBarrier
    BY DEF Left, AtBarrier
  <1>5. Computing => at[t] = "inner"
    BY <1>1 DEF Computing, BeforeFinal
  <1>6. Computing => \A u \in Thread :
               /\ Holds(u)' <=> Holds(u)
               /\ Holds(u) => Held(u)' = Held(u)
               /\ at'[u] = "final" /\ pc'[u] \in AtBarrier => at[u] = "final" /\ pc[u] \in AtBarrier
    BY <1>3, <1>4, <1>5 DEF Holds, Held, Left
  <1>7. Gathering => CursorIsSet'
    <2>1. Gathering => CursorIsSet
      BY DEF FullInv, RowInv, Gathering
    <2>2. CASE t = 0
      BY <1>3, <2>2 DEF CursorIsSet
    <2>3. CASE t # 0
      BY <1>1, <1>3, <2>1, <2>3 DEF CursorIsSet
    <2> QED BY <2>2, <2>3
  <1>8. RowInv'
    BY <1>1, <1>2, <1>6, <1>7, RowsKept
  <1> QED BY <1>1, <1>2, <1>8, Stutters

----------------------------------------------------------------------------
(* The submitter's steps *)

LEMMA RunInlineStep ==
    ASSUME FullInv, IInv', NEW s \in Submitter, RunInline(s)
    PROVE  RowInv' /\ Abstract!CallInline(s)
  <1>1. /\ UNCHANGED <<barrier, parking, shared, pc, run_mutex, call>>
        /\ call[s] = "idle" /\ HasMore(s)
        /\ results' = [results EXCEPT ![s] = Append(@,
                         IF Grid(NextOf(s)).throws = {} THEN Done(NextOf(s)) ELSE Threw(NextOf(s)))]
    BY DEF RunInline
  <1>2. run_mutex # s
    BY <1>1 DEF FullInv, IInv, WorkIsCurrent
  <1>3. run_mutex # None => run_mutex \in Submitter /\ results'[run_mutex] = results[run_mutex]
    BY <1>1, <1>2 DEF FullInv, IInv, TypeInv
  <1>4. CursorIsSet' <=> CursorIsSet
    BY <1>1 DEF CursorIsSet, barrier, shared
  <1>5. \A t \in Thread : (Holds(t)' <=> Holds(t)) /\ Held(t)' = Held(t)
    BY <1>1 DEF Holds, Held, barrier, shared
  <1>6. Gathering => CursorIsSet
    BY DEF FullInv, RowInv, Gathering
  <1>7. RowInv'
    BY <1>1, <1>3, <1>4, <1>5, <1>6, RowsKept DEF barrier, parking, shared
  <1>8. NextOf(s) # IF run_mutex = None THEN None ELSE NextOf(run_mutex)
    BY <1>2, <1>3, CallsAreTyped DEF FullInv, IInv
  <1>9. /\ UNCHANGED (IF run_mutex = None THEN None ELSE NextOf(run_mutex))
        /\ times' = times /\ exc' = exc
    <2>1. times' = times /\ exc' = exc /\ run_mutex' = run_mutex
      BY <1>1 DEF shared
    <2>2. CASE run_mutex = None
      BY <2>1, <2>2
    <2>3. CASE run_mutex # None
      <3>1. NextOf(run_mutex)' = NextOf(run_mutex)
        BY <1>3, <2>1, <2>3 DEF NextOf
      <3> QED BY <2>1, <2>3, <3>1
    <2> QED BY <2>2, <2>3
  <1>10. Abstract!CallInline(s)
    BY <1>1, <1>8, <1>9
       DEF Abstract!CallInline, Abstract!HasMore, Abstract!NextOf, Abstract!Grid, Abstract!Done,
           Abstract!Threw, HasMore, NextOf, Grid, Done, Threw
  <1> QED BY <1>7, <1>10

LEMMA RunStep ==
    ASSUME FullInv, IInv', NEW s \in Submitter, Run(s)
    PROVE  RowInv' /\ Abstract!Call(s)
  <1>1. /\ UNCHANGED <<barrier, parking, results>>
        /\ HasMore(s) /\ call[s] = "idle" /\ run_mutex = None /\ run_mutex' = s
        /\ work' = NextOf(s) /\ exc' = None
        /\ times' = [r \in 1 .. Grid(NextOf(s)).nr |-> 0]
        /\ call' = [call EXCEPT ![s] = "kick"]
    BY DEF Run
  <1>2. s # None
    BY ThreadpoolAssumption DEF ThreadpoolAssumption
  <1>3. AtRest
    BY <1>1 DEF FullInv, IInv, Phases, Gathering, Computing
  <1>4. AtRest' /\ ~Gathering' /\ ~Computing' /\ call'[run_mutex'] = "kick"
    BY <1>1, <1>3, SamePhase, OnePhase DEF FullInv, IInv, TypeInv, barrier, parking
  <1>5. HasMore(s)' /\ NextOf(s)' = NextOf(s)
    BY <1>1 DEF HasMore, NextOf
  <1>6. DOMAIN times' = 1 .. Nr' /\ Untouched'
    BY <1>1 DEF Nr, Grid, Untouched
  <1>7. RowInv'
    BY <1>1, <1>4, <1>5, <1>6 DEF RowInv
  <1>8. Abstract!Call(s)
    BY <1>1, <1>2
       DEF Abstract!Call, Abstract!HasMore, Abstract!NextOf, Abstract!Grid, HasMore, NextOf, Grid
  <1> QED BY <1>7, <1>8

LEMMA KickoffStep ==
    ASSUME FullInv, IInv', NEW s \in Submitter, Kickoff(s)
    PROVE  RowInv' /\ UNCHANGED Abstract!vars
  <1>1. /\ UNCHANGED <<barrier, shared, pc, run_mutex, results>>
        /\ call[s] = "kick" /\ n_graph' = n_graph + 1
    BY DEF Kickoff
  <1>2. run_mutex = s /\ s # None /\ run_mutex \in Submitter
    BY <1>1, ThreadpoolAssumption DEF FullInv, IInv, WorkIsCurrent, ThreadpoolAssumption
  <1>3. AtRest
    BY <1>1, <1>2 DEF FullInv, IInv, Phases, Gathering, Computing
  <1>4. pc[0] = "idle" /\ Untouched /\ DOMAIN times = 1 .. Nr /\ HasMore(s)
    BY <1>1, <1>2, <1>3 DEF AtRest, FullInv, RowInv
  <1>5. ~AtRest' /\ ~Computing'
    <2>1. n_graph \in Nat /\ n_barrier_passed \in Nat
      BY DEF FullInv, IInv, TypeInv
    <2>2. n_barrier_passed' = 2 * n_graph' - 2
      BY <1>1, <1>3, <2>1 DEF AtRest, barrier
    <2> QED BY <1>1, <2>1, <2>2, OnePhaseNext DEF barrier
  <1>6. Untouched' /\ CursorIsSet' /\ DOMAIN times' = 1 .. Nr' /\ HasMore(s)'
    BY <1>1, <1>4 DEF Untouched, CursorIsSet, AtBarrier, Nr, Grid, HasMore, shared, barrier
  <1>7. RowInv'
    BY <1>1, <1>2, <1>5, <1>6 DEF RowInv
  <1> QED BY <1>1, <1>7, Stutters DEF shared

LEMMA ReturnStep ==
    ASSUME FullInv, IInv', NEW s \in Submitter, Return(s)
    PROVE  RowInv' /\ Abstract!Return(s)
  <1>1. /\ call[s] = "compute" /\ pc[0] = "return"
        /\ exc' = None /\ times' = << >> /\ run_mutex' = None
        /\ results' = [results EXCEPT ![s] =
                         Append(@, IF exc # None THEN Threw(exc) ELSE Done(NextOf(s)))]
    BY DEF Return
  <1>2. /\ run_mutex = s /\ s # None
        /\ exc # None => exc = NextOf(s)
    BY <1>1, ThreadpoolAssumption DEF FullInv, IInv, WorkIsCurrent, ThreadpoolAssumption
  <1>3. AtRest
    BY <1>1, <1>2, ThreadsAreNumbers DEF FullInv, IInv, Phases, Gathering, Computing, BeforeInner, BeforeFinal
  <1>4. exc # None \/ \A r \in DOMAIN times : times[r] = 1
    BY <1>1, <1>2, <1>3 DEF FullInv, RowInv, HasRun
  <1>5. NextOf(s) # None
    BY CallsAreTyped DEF FullInv, IInv
  <1>6. RowInv'
    BY <1>1 DEF RowInv
  <1>7. Abstract!Return(s)
    BY <1>1, <1>2, <1>4, <1>5
       DEF Abstract!Return, Abstract!NextOf, Abstract!Done, Abstract!Threw, NextOf, Done, Threw
  <1> QED BY <1>6, <1>7

----------------------------------------------------------------------------
(* The steps of the computing threads that move cursor, chunks and rows *)

LEMMA ChunkSetStep ==
    ASSUME FullInv, IInv', ChunkSet
    PROVE  RowInv' /\ UNCHANGED Abstract!vars
  <1> USE ThreadsAreNumbers
  <1>1. /\ UNCHANGED <<barrier, parking, callers, work, exc, times, fn, chunk>>
        /\ pc[0] = "seed" /\ current_chunk' = NThreads
    BY DEF ChunkSet
  <1>2. ~Free(0)
    BY <1>1 DEF Free
  <1>3. Gathering /\ ~Computing /\ run_mutex # None
    BY <1>1, <1>2, InsideACall DEF FullInv, BeforeFinal
  <1>4. Gathering' /\ ~Computing' /\ ~AtRest'
    BY <1>1, <1>3, SamePhase, OnePhaseNext DEF FullInv, barrier, parking
  <1>5. HasMore(run_mutex) /\ DOMAIN times = 1 .. Nr /\ Untouched
    BY <1>3 DEF FullInv, RowInv
  <1>6. HasMore(run_mutex)' /\ DOMAIN times' = 1 .. Nr' /\ Untouched' /\ CursorIsSet'
    BY <1>1, <1>5 DEF HasMore, Nr, Grid, Untouched, CursorIsSet, callers
  <1>7. RowInv'
    BY <1>4, <1>6 DEF RowInv
  <1> QED BY <1>1, <1>7, Stutters DEF callers

(* The inner barrier opens: every chunk is pending, the first NThreads in  *)
(* the hands of their threads.  The final one opens: none is.              *)
LEMMA PassStep ==
    ASSUME FullInv, IInv', NEW t \in Thread, Pass(t)
    PROVE  RowInv' /\ UNCHANGED Abstract!vars
  <1> USE ThreadsAreNumbers
  <1>1. /\ UNCHANGED <<parking, callers, n_barrier, n_passed, work, exc, current_chunk, times, fn>>
        /\ pc[t] = "pass" /\ n_barrier_passed' = n_barrier_passed + 1
        /\ pc' = [pc EXCEPT ![t] = Left(t)]
        /\ chunk' = [chunk EXCEPT ![t] = t] /\ at' = [at EXCEPT ![t] = "final"]
    BY DEF Pass, Leave, Goto
  <1>2. UNCHANGED <<run_mutex, call, results, n_graph>>
    BY <1>1 DEF callers, parking
  <1>3. /\ pc'[t] = Left(t) /\ at'[t] = "final" /\ chunk'[t] = t
        /\ \A u \in Thread \ {t} : pc'[u] = pc[u] /\ at'[u] = at[u] /\ chunk'[u] = chunk[u]
        /\ n_graph \in Nat /\ n_barrier_passed \in Nat
    BY <1>1 DEF FullInv, IInv, TypeInv
  <1>4. \A u \in Thread \ {t} : pc[u] = "spin" /\ n_passed[u] = n_barrier_passed
    BY <1>1 DEF FullInv, IInv, BarrierCounts
  <1>5. ~Free(t)
    BY <1>1 DEF Free
  <1>6. (Gathering \/ Computing) /\ run_mutex # None
    BY <1>5, InsideACall DEF FullInv
  <1>7. /\ HasMore(run_mutex) /\ DOMAIN times = 1 .. Nr
        /\ HasMore(run_mutex)' /\ DOMAIN times' = 1 .. Nr' /\ Nr' = Nr
    BY <1>1, <1>2, <1>6 DEF FullInv, RowInv, HasMore, Nr, Grid
  <1>8. UNCHANGED Abstract!vars
    BY <1>1, <1>2, Stutters
  <1>9. CASE Gathering
    <2>1. Computing' /\ ~Gathering' /\ ~AtRest'
      <3>1. n_barrier_passed' = 2 * n_graph' - 1
        BY <1>1, <1>2, <1>3, <1>9 DEF Gathering
      <3> QED BY <3>1, OnePhaseNext
    <2>2. \A u \in Thread : at[u] = "inner"
      BY <1>1, <1>4, <1>5, <1>9 DEF Gathering, BeforeInner, Free
    <2>3. Untouched /\ current_chunk = NThreads
      BY <1>1, <1>4, <1>6, <1>9, <2>2 DEF FullInv, RowInv, CursorIsSet, AtBarrier
    <2>4. \A u \in Thread : Holds(u)' /\ Held(u)' = u
      BY <1>3, <2>2 DEF Holds, Held, Left
    <2>5. \A u \in Thread : u < NThreads
      BY DEF Thread
    <2>6. ChunksAreOwn'
      BY <1>1, <2>3, <2>4, <2>5 DEF ChunksAreOwn
    <2>7. \A k \in Chunks : k >= NThreads \/ k \in Thread
      BY <1>6, CallInside DEF Thread
    <2>8. \A k \in Chunks : Pending(k)'
      BY <1>1, <2>3, <2>4, <2>7 DEF Pending
    <2>9. PendingRows'
      BY <1>1, <1>6, <1>7, <2>3, <2>8, CallInside DEF PendingRows, Chunks, Untouched
    <2>10. NoneLeft'
      BY <1>3, <2>2 DEF NoneLeft, Left, AtBarrier
    <2> QED BY <1>1, <1>2, <1>7, <1>8, <2>1, <2>6, <2>9, <2>10 DEF RowInv
  <1>10. CASE Computing
    <2>1. AtRest' /\ ~Gathering' /\ ~Computing' /\ call'[run_mutex'] = "compute"
      <3>1. n_barrier_passed' = 2 * n_graph'
        BY <1>1, <1>2, <1>3, <1>10 DEF Computing
      <3>2. call[run_mutex] = "compute"
        BY <1>10 DEF Computing
      <3> QED BY <1>2, <3>1, <3>2, OnePhaseNext
    <2>2. ChunksAreOwn /\ PendingRows /\ NoneLeft
      BY <1>6, <1>10 DEF FullInv, RowInv
    <2>3. \A u \in Thread : at[u] = "final" /\ pc[u] \in AtBarrier /\ pc[u] # "walk"
      BY <1>1, <1>4, <1>10 DEF Computing, BeforeFinal, AtBarrier
    <2>4. current_chunk >= nchunk(Nr) \/ exc # None
      BY <2>2, <2>3 DEF NoneLeft
    <2>5. \A r \in DOMAIN times : HasRun(r)
      <3>1. SUFFICES ASSUME NEW r \in 1 .. Nr, exc = None PROVE times[r] = 1
        BY <1>7 DEF HasRun
      <3>2. Nr \in Nat \ {0} /\ nchunk(Nr) \in Nat \ {0} /\ current_chunk \in Nat
        BY <1>6, CallInside, GridIsPositive DEF FullInv, IInv, TypeInv
      <3>3. PICK k \in Chunks : r \in RowsOf(Nr, k)
        BY <3>2, ChunksCover DEF Chunks
      <3>4. ~Pending(k)
        BY <2>3, <2>4, <3>1, <3>2 DEF Pending, Holds, Chunks
      <3> QED BY <2>2, <3>1, <3>3, <3>4 DEF PendingRows, HasRun
    <2>6. \A r \in DOMAIN times' : HasRun(r)'
      BY <1>1, <2>5 DEF HasRun
    <2> QED BY <1>2, <1>7, <1>8, <2>1, <2>6 DEF RowInv
  <1> QED BY <1>6, <1>9, <1>10

LEMMA StealStep ==
    ASSUME FullInv, IInv', NEW t \in Thread, Steal(t)
    PROVE  RowInv' /\ UNCHANGED Abstract!vars
  <1> USE ThreadsAreNumbers
  <1>1. /\ UNCHANGED <<barrier, parking, callers, work, exc, times, fn>>
        /\ pc[t] = "steal"
        /\ chunk' = [chunk EXCEPT ![t] = current_chunk] /\ current_chunk' = current_chunk + 1
        /\ pc' = [pc EXCEPT ![t] = "walk"]
    BY DEF Steal, Goto
  <1>2. UNCHANGED <<run_mutex, call, results, n_graph, n_barrier_passed, at>>
    BY <1>1 DEF callers, parking, barrier
  <1>3. ~Free(t)
    BY <1>1 DEF Free
  <1>4. Computing /\ at[t] = "final" /\ run_mutex # None
    BY <1>1, <1>3, InsideACall DEF FullInv, BeforeInner, BeforeFinal
  <1>5. Computing' /\ ~Gathering' /\ ~AtRest'
    BY <1>2, <1>4, SamePhase, OnePhaseNext DEF FullInv
  <1>6. HasMore(run_mutex) /\ DOMAIN times = 1 .. Nr /\ ChunksAreOwn /\ PendingRows /\ NoneLeft
    BY <1>4 DEF FullInv, RowInv
  <1>7. HasMore(run_mutex)' /\ DOMAIN times' = 1 .. Nr' /\ Nr' = Nr /\ Chunks' = Chunks
    BY <1>1, <1>2, <1>6 DEF HasMore, Nr, Grid, Chunks
  <1>8. /\ current_chunk \in Nat
        /\ pc'[t] = "walk" /\ chunk'[t] = current_chunk
        /\ \A u \in Thread \ {t} : pc'[u] = pc[u] /\ chunk'[u] = chunk[u]
    BY <1>1 DEF FullInv, IInv, TypeInv
  <1>9. /\ ~Holds(t) /\ Holds(t)' /\ Held(t)' = current_chunk
        /\ \A u \in Thread \ {t} : (Holds(u)' <=> Holds(u)) /\ Held(u)' = Held(u)
        /\ \A u \in Thread : Held(u) \in Nat
    <2>1. \A u \in Thread : u \in Nat
      BY DEF Thread
    <2>2. \A u \in Thread : chunk[u] \in Nat
      BY DEF FullInv, IInv, TypeInv
    <2> QED BY <1>1, <1>2, <1>4, <1>8, <2>1, <2>2 DEF Holds, Held
  <1>10. ChunksAreOwn'
    BY <1>1, <1>6, <1>8, <1>9 DEF ChunksAreOwn
  <1>11. \A k \in Nat : Pending(k)' <=> Pending(k)
    <2> SUFFICES ASSUME NEW k \in Nat PROVE Pending(k)' <=> Pending(k)
      OBVIOUS
    <2>1. k >= current_chunk <=> k >= current_chunk + 1 \/ k = current_chunk
      BY <1>8
    <2>2. Pending(k)' <=> \/ k >= current_chunk + 1 \/ k = current_chunk
                          \/ \E u \in Thread \ {t} : Holds(u) /\ Held(u) = k
      BY <1>1, <1>9 DEF Pending
    <2>3. Pending(k) <=> k >= current_chunk \/ \E u \in Thread \ {t} : Holds(u) /\ Held(u) = k
      BY <1>9 DEF Pending
    <2> QED BY <2>1, <2>2, <2>3
  <1>12. PendingRows'
    BY <1>1, <1>4, <1>6, <1>7, <1>11, CallInside DEF PendingRows, HasRun
  <1>13. NoneLeft'
    <2>1. nchunk(Nr) \in Nat
      BY <1>4, CallInside, GridIsPositive
    <2> QED BY <1>1, <1>2, <1>6, <1>7, <1>8, <2>1 DEF NoneLeft, AtBarrier
  <1>14. RowInv'
    BY <1>2, <1>5, <1>7, <1>10, <1>12, <1>13 DEF RowInv
  <1> QED BY <1>1, <1>2, <1>14, Stutters

(* The body over one chunk: rows that nobody ran before, and nobody will   *)
(* run again.                                                              *)
LEMMA WalkStep ==
    ASSUME FullInv, IInv', NEW t \in Thread, Walk(t)
    PROVE  RowInv' /\ Abstract!Compute
  <1> USE ThreadsAreNumbers
  <1>1. pc[t] = "walk" /\ ~Free(t)
    BY DEF Walk, Free
  <1>2. Computing /\ at[t] = "final" /\ run_mutex # None
    BY <1>1, InsideACall DEF FullInv, BeforeInner, BeforeFinal
  <1>3. fn[t] = work /\ work # None
    BY <1>1 DEF FullInv, IInv, WorkIsCurrent
  <1>4. HasMore(run_mutex) /\ DOMAIN times = 1 .. Nr /\ ChunksAreOwn /\ PendingRows /\ NoneLeft
    BY <1>2 DEF FullInv, RowInv
  <1> DEFINE c == chunk[t]
             g == Grid(work)
             rows == IF c < nchunk(Nr) THEN RowsOf(Nr, c) ELSE {}
             throws == rows \cap g.throws # {}
             leaves == throws \/ ~(c < nchunk(Nr))
             R == Reached(g, rows)
  <1>5. /\ UNCHANGED <<barrier, parking, callers, work, current_chunk, chunk>>
        /\ times' = [r \in DOMAIN times |-> IF r \in R THEN times[r] + 1 ELSE times[r]]
        /\ exc' = IF throws /\ exc = None THEN work ELSE exc
        /\ pc' = [pc EXCEPT ![t] = IF leaves THEN "arrive" ELSE "steal"]
    <2>1. Grid(fn[t]) = g /\ g.nr = Nr
      BY <1>3 DEF Nr
    <2>2. /\ UNCHANGED <<barrier, parking, callers, work, current_chunk, chunk>>
          /\ \E C \in {rows} :
               LET hit  == C \cap g.throws # {}
                   ends == hit \/ ~(c < nchunk(Nr))
               IN  /\ times' = [r \in DOMAIN times |->
                                 IF r \in Reached(g, C) THEN times[r] + 1 ELSE times[r]]
                   /\ exc' = IF hit /\ exc = None THEN work ELSE exc
                   /\ pc' = [pc EXCEPT ![t] = IF ends THEN "arrive" ELSE "steal"]
      BY <1>3, <2>1 DEF Walk, Goto
    <2> HIDE DEF rows
    <2> QED BY <2>2
  <1>6. UNCHANGED <<run_mutex, call, results, n_graph, n_barrier_passed, at>>
    BY <1>5 DEF callers, parking, barrier
  <1>7. Computing' /\ ~Gathering' /\ ~AtRest'
    BY <1>2, <1>6, SamePhase, OnePhaseNext DEF FullInv
  <1>8. /\ HasMore(run_mutex)' /\ DOMAIN times' = 1 .. Nr' /\ Nr' = Nr /\ Chunks' = Chunks
        /\ run_mutex \in Submitter /\ work = NextOf(run_mutex)
    <2>1. work' = work /\ DOMAIN times' = DOMAIN times
      BY <1>5
    <2> HIDE DEF c, g, rows, throws, leaves, R
    <2> QED BY <1>2, <1>4, <1>6, <2>1, CallInside DEF HasMore, Nr, Grid, Chunks
  <1>9. /\ c \in Nat /\ current_chunk \in Nat /\ Nr \in Nat \ {0} /\ nchunk(Nr) \in Nat \ {0}
        /\ \A k \in Chunks : k \in Nat /\ RowsOf(Nr, k) \subseteq 1 .. Nr
    BY <1>2, CallInside, GridIsPositive DEF FullInv, IInv, TypeInv
  <1>10. /\ pc'[t] = IF leaves THEN "arrive" ELSE "steal"
         /\ \A u \in Thread \ {t} : pc'[u] = pc[u]
    BY <1>5 DEF FullInv, IInv, TypeInv
  <1>11. /\ Holds(t) /\ Held(t) = c /\ ~Holds(t)'
         /\ \A u \in Thread \ {t} : (Holds(u)' <=> Holds(u)) /\ Held(u)' = Held(u)
    <2>1. pc'[t] # "walk"
      BY <1>10
    <2> QED BY <1>1, <1>2, <1>5, <1>6, <1>10, <2>1 DEF Holds, Held
  <1>12. /\ c < current_chunk /\ \A u \in Thread \ {t} : Holds(u) => Held(u) # c
         /\ Pending(c) /\ \A k : k = c => ~Pending(k)'
         /\ \A k : k # c => (Pending(k)' <=> Pending(k))
    <2>1. c < current_chunk /\ \A u \in Thread \ {t} : Holds(u) => Held(u) # c
      BY <1>4, <1>11 DEF ChunksAreOwn
    <2>2. \A u \in Thread : Holds(u)' => u # t /\ Holds(u) /\ Held(u)' = Held(u)
      BY <1>11
    <2>3. Pending(c)
      BY <1>11 DEF Pending
    <2>4. ~(c >= current_chunk)
      BY <1>9, <2>1
    <2>5. \A k : k = c => ~Pending(k)'
      BY <1>5, <2>1, <2>2, <2>4 DEF Pending
    <2>6. \A k : k # c => (Pending(k)' <=> Pending(k))
      BY <1>5, <1>11 DEF Pending
    <2> QED BY <2>1, <2>3, <2>5, <2>6
  <1>13. /\ rows \subseteq DOMAIN times /\ R \subseteq rows
         /\ \A r \in rows : times[r] = 0
         /\ c \in Chunks => rows = RowsOf(Nr, c)
         /\ c \notin Chunks => rows = {} /\ c >= nchunk(Nr)
    <2>1. CASE c < nchunk(Nr)
      <3>1. c \in Chunks /\ rows = RowsOf(Nr, c)
        BY <1>9, <2>1 DEF Chunks
      <3> QED BY <1>4, <1>9, <1>12, <3>1 DEF PendingRows, Reached
    <2>2. CASE ~(c < nchunk(Nr))
      <3>1. rows = {} /\ c >= nchunk(Nr) /\ c \notin Chunks
        BY <1>9, <2>2 DEF Chunks
      <3> QED BY <3>1 DEF Reached
    <2> QED BY <2>1, <2>2
  <1>14. /\ throws => exc' # None
         /\ exc # None => exc' = exc
         /\ ~throws => exc' = exc /\ R = rows
    <2>1. ~throws => R = rows
      BY DEF Reached
    <2> QED BY <1>3, <1>5, <2>1
  <1> HIDE DEF rows, throws, R, c, g
  <1>15. ChunksAreOwn'
    BY <1>4, <1>5, <1>11 DEF ChunksAreOwn
  <1>16. PendingRows'
    <2> SUFFICES ASSUME NEW k \in Chunks, NEW r \in RowsOf(Nr, k)
                 PROVE  IF Pending(k)' THEN times'[r] = 0 ELSE HasRun(r)'
      BY <1>8 DEF PendingRows
    <2>1. r \in 1 .. Nr /\ r \in DOMAIN times /\ k \in Nat
      BY <1>4, <1>9
    <2>2. times'[r] = IF r \in R THEN times[r] + 1 ELSE times[r]
      BY <1>5, <2>1
    <2>3. CASE k = c
      <3>1. times[r] = 0 /\ r \in rows
        BY <1>13, <2>3
      <3>2. CASE throws
        BY <1>12, <1>14, <2>3, <3>2 DEF HasRun
      <3>3. CASE ~throws
        <4>1. times'[r] = 1
          BY <1>14, <2>2, <3>1, <3>3
        <4> QED BY <1>12, <2>3, <4>1 DEF HasRun
      <3> QED BY <3>2, <3>3
    <2>4. CASE k # c
      <3>1. r \notin R
        <4>1. ASSUME r \in R PROVE FALSE
          <5>1. c \in Chunks /\ r \in RowsOf(Nr, c)
            BY <1>13, <4>1
          <5> QED BY <1>9, <2>1, <2>4, <5>1, ChunksAreDisjoint
        <4> QED BY <4>1
      <3>2. times'[r] = times[r] /\ (Pending(k)' <=> Pending(k))
        BY <1>12, <2>2, <2>4, <3>1
      <3> QED BY <1>4, <1>14, <3>2 DEF PendingRows, HasRun
    <2> QED BY <2>3, <2>4
  <1>17. NoneLeft'
    <2> SUFFICES ASSUME NEW u \in Thread, at'[u] = "final", pc'[u] \in AtBarrier
                 PROVE  current_chunk' >= nchunk(Nr) \/ exc' # None
      BY <1>8 DEF NoneLeft
    <2>1. CASE u = t
      <3>1. leaves
        BY <1>10, <2>1 DEF AtBarrier
      <3>2. CASE throws
        BY <1>14, <3>2
      <3>3. CASE c >= nchunk(Nr)
        BY <1>5, <1>9, <1>12, <3>3
      <3> QED BY <1>9, <3>1, <3>2, <3>3
    <2>2. CASE u # t
      BY <1>4, <1>5, <1>6, <1>10, <1>14, <2>2 DEF NoneLeft
    <2> QED BY <2>1, <2>2
  <1>18. RowInv'
    BY <1>6, <1>7, <1>8, <1>15, <1>16, <1>17 DEF RowInv
  <1>19. Abstract!Compute
    <2> DEFINE cur == IF run_mutex = None THEN None ELSE NextOf(run_mutex)
    <2>1. cur = work /\ cur # None /\ cur' = cur /\ results' = results
      BY <1>2, <1>3, <1>6, <1>8 DEF NextOf
    <2>2. R \in SUBSET {r \in DOMAIN times : times[r] = 0}
      BY <1>13
    <2>3. times' = [r \in DOMAIN times |-> IF r \in R THEN 1 ELSE times[r]]
      BY <1>5, <2>2
    <2>4. (exc # None)' \in {exc # None, Grid(work).throws # {}}
      <3>1. CASE throws
        <4>1. Grid(work).throws # {}
          BY <3>1 DEF throws, g
        <4>2. exc' # None
          BY <1>14, <3>1
        <4> QED BY <4>1, <4>2
      <3>2. CASE ~throws
        BY <1>14, <3>2
      <3> QED BY <3>1, <3>2
    <2>5. exc # None => exc' # None
      BY <1>14
    <2> HIDE DEF R
    <2> QED BY <2>1, <2>2, <2>3, <2>4, <2>5
         DEF Abstract!Compute, Abstract!Grid, Grid
  <1> QED BY <1>18, <1>19

----------------------------------------------------------------------------
(* Every step keeps the invariant, and is a step of the parallel for or a  *)
(* stutter.                                                                *)
LEMMA StepImplements ==
    FullInv /\ [Next]_vars => FullInv' /\ [Abstract!Next]_Abstract!vars
  <1> SUFFICES ASSUME FullInv, [Next]_vars
               PROVE  RowInv' /\ [Abstract!Next]_Abstract!vars
    BY NextIInv DEF FullInv
  <1>1. IInv'
    BY NextIInv DEF FullInv
  <1>2. ASSUME NEW s \in Submitter, Submits(s)
        PROVE  RowInv' /\ [Abstract!Next]_Abstract!vars
    BY <1>1, <1>2, RunInlineStep, RunStep, KickoffStep, KickoffNotifyStep, ReturnStep
       DEF Submits, Abstract!Next
  <1>3. ASSUME NEW t \in Thread, Computes(t)
        PROVE  RowInv' /\ [Abstract!Next]_Abstract!vars
    BY <1>1, <1>3, ReadWorkStep, ChunkSetStep, BarrierStep, PassStep, SpinStep, WalkStep, StealStep
       DEF Computes, Abstract!Next
  <1>4. ASSUME NEW t \in Worker, Parks(t) \/ StopPolling(t) \/ SpuriousWakeup(t)
        PROVE  RowInv' /\ [Abstract!Next]_Abstract!vars
    BY <1>1, <1>4, ParksStep
  <1>5. ASSUME Destroys
        PROVE  RowInv' /\ [Abstract!Next]_Abstract!vars
    BY <1>1, <1>5, DestroyStep
  <1>6. ASSUME UNCHANGED vars
        PROVE  RowInv' /\ [Abstract!Next]_Abstract!vars
    <2>1. UNCHANGED <<callers, n_barrier_passed, n_graph, at, work, exc, current_chunk, times, chunk>>
      BY <1>6 DEF vars, barrier, parking, shared
    <2>2. pc' = pc
      BY <1>6 DEF vars
    <2> QED BY <1>1, <2>1, <2>2, ParkStep
  <1> QED BY <1>2, <1>3, <1>4, <1>5, <1>6 DEF Next

(* Whichever thread computes which chunk, in whatever order they poll,     *)
(* sleep, steal and meet: a call runs its body once over every row, returns*)
(* after the last one or with the exception of its own body, and calls     *)
(* from several submitters take turns.                                     *)
THEOREM Implements == Spec => ImplementsParallelFor
  <1>1. Spec => Abstract!Init /\ [][Abstract!Next]_Abstract!vars
    BY RowInvInit, InitImplements, StepImplements, PTL DEF Spec
  <1> QED BY <1>1 DEF ImplementsParallelFor, Abstract!Spec
=============================================================================
