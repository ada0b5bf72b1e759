--------------------------- MODULE Scheduler_proofs ---------------------------
(***************************************************************************)
(* Proofs about Scheduler, for any requests, prompts, limits, sizes of the *)
(* pool and of the budget, both policies and both ways of stepping.        *)
(*                                                                         *)
(* IInv says what each request has in the queues, in the pool and in the   *)
(* batches in flight: which is of which use, what a request is owed of     *)
(* them, and that what it has computed is known or in flight.  It gives    *)
(* the limits, the grammar and the tokens in flight.  The pool is taken    *)
(* over from KVCacheManager_proofs: Known and Mapped are the abstract      *)
(* state, in which every step is one of KVCache's client or a stutter.     *)
(* The action properties on preemption and order, and the budget, which is *)
(* a sum over the requests, follow; last, that under FCFS no row is lost   *)
(* and the cells hold the KV of the tokens they are read for.              *)
(***************************************************************************)
EXTENDS Scheduler, KVCacheManager_proofs

(* What callers and the configuration keep to; the README lists what       *)
(* happens otherwise.                                                      *)
Disciplined ==
    /\ \A r \in Req : Len(Prompt[r]) < MaxModelLen
    /\ \A r \in Req : Len(Prompt[r]) + MinTokens[r] <= MaxModelLen
    /\ Async => Reused = {}

Scheduling == {"running", "fit", "waiting", "assemble"}
Executing  == {"execute", "execute_only"}
Updating   == {"update", "stopped", "dead"}

(* The known tokens of a request, and how far it has slots: what the step  *)
(* has scheduled counts as computed.                                       *)
Known == [r \in Req |-> IF uses[r] = 0 THEN << >> ELSE all_token_ids(r)]
Pending(r) == IF pc \in Executing THEN 0 ELSE num_scheduled_tokens[r]
Reach(r)   == computed[r] + Pending(r)

Types ==
    /\ status \in [Req -> {"unknown", "waiting", "running", "preempted", "finished"}]
    /\ output \in [Req -> Seq(Token)]
    /\ computed \in [Req -> Nat]
    /\ placeholders \in [Req -> Nat]
    /\ uses \in [Req -> 0 .. 2]
    /\ running \in Seq(Req) /\ waiting \in Seq(Req)
    /\ finished_req_ids \subseteq Req
    /\ pc \in {"idle", "pop"} \cup Scheduling \cup Executing \cup Updating
    /\ req_index \in Nat \ {0}
    /\ token_budget \in Nat
    /\ num_scheduled_tokens \in [Req -> Nat]
    /\ preempted \in BOOLEAN
    /\ todo \subseteq Req /\ in_batch \subseteq Req

(* Every unfinished request stays below its limits: a token that brings it *)
(* there stops it.                                                         *)
Lengths ==
    \A r \in Req : Unfinished(r) =>
        /\ uses[r] > 0
        /\ NumTokens(r) < MaxModelLen
        /\ Len(output[r]) < MaxTokens[r]

(* A list holds who has the status for it, and in the middle of an update  *)
(* who has just finished.                                                  *)
Lists(line, statuses) ==
    /\ IsInjective(line)
    /\ \A r \in Req : status[r] \in statuses => r \in Range(line)
    /\ \A r \in Range(line) : status[r] \in statuses \/ (pc \in Updating /\ status[r] = "finished")
Queues ==
    /\ Lists(running, {"running"})
    /\ Lists(waiting, {"waiting", "preempted"})
    /\ Len(running) <= MaxNumRunningReqs

(* Running requests own blocks, for all their tokens up to Reach; a        *)
(* request that stops owns them until it is freed.                         *)
Tabled ==
    /\ Consistent(kv, Known) /\ kv.fault = "none"
    /\ \A r \in Owners(kv) : status[r] = "running" \/ (pc = "stopped" /\ r = NextTodo)
    /\ \A r \in Req : status[r] = "running" =>
           /\ Reach(r) > 0
           /\ Reach(r) <= Len(kv.req_to_blocks[r]) * BlockSize
           /\ Reach(r) <= NumTokens(r) + placeholders[r]
           /\ Reach(r) < MaxModelLen

(* What a step in the making has scheduled.                                *)
Schedules ==
    /\ pc \notin Scheduling \cup Executing => Scheduled = {} /\ ~preempted
    /\ pc = "waiting" => ~preempted
    /\ \A r \in Scheduled : status[r] = "running"
    /\ pc \in Scheduling => \A r \in Scheduled : ~ReachesMaxTokens(r)
    /\ pc \in {"running", "fit"} =>
           \A i \in DOMAIN running : i >= req_index => num_scheduled_tokens[running[i]] = 0

(* Whom the running loop makes room for. *)
Fitting ==
    IF pc # "fit" THEN fitting = << >>
    ELSE LET f == fitting[1]
             n == fitting[2]
         IN  /\ fitting \in Req \X (Nat \ {0})
             /\ f \in Range(running) /\ num_scheduled_tokens[f] = 0
             /\ n <= token_budget
             /\ computed[f] + n <= NumTokens(f) + placeholders[f]
             /\ computed[f] + n < MaxModelLen
             /\ ~ReachesMaxTokens(f)
             /\ \E i \in DOMAIN running : i <= req_index /\ running[i] = f
             /\ ~PriorityPolicy => req_index \in DOMAIN running /\ running[req_index] = f

(* The batches whose tokens are not consumed: the oldest one, what is left *)
(* of it to look at, and the one behind it, queued, deferred or executing. *)
Batch(requests, rows, sampled) == [reqs |-> requests, rows |-> rows, sampled |-> sampled]
BatchOf(frame) == Batch(frame.reqs, frame.rows, DOMAIN frame.token)
First ==
    IF batch_queue = << >> THEN NoBatch
    ELSE IF pc \in Updating
         THEN Batch(todo, oldest.rows, DOMAIN oldest.token \cap todo)
         ELSE BatchOf(oldest)
Second ==
    IF Len(batch_queue) = 2 THEN BatchOf(batch_queue[2])
    ELSE IF pc \in Executing THEN Batch(Scheduled, Rows, SampledRows)
    ELSE deferred

Partial(V) == UNION {[S -> V] : S \in SUBSET Req}
FrameType == [reqs : SUBSET Req, rows : SUBSET Req, token : Partial(Token), use : Partial(Nat)]
BatchType == [reqs : SUBSET Req, rows : SUBSET Req, sampled : SUBSET Req]

Frames ==
    /\ batch_queue \in Seq(FrameType)
    /\ \A i \in DOMAIN batch_queue : LET f == batch_queue[i] IN
           /\ f.rows \subseteq f.reqs /\ DOMAIN f.token \subseteq f.rows
           /\ \A r \in f.reqs : uses[r] > 0 /\ f.use[r] = uses[r]
    /\ Len(batch_queue) <= BatchQueueSize
    /\ pc \in {"idle"} \cup Scheduling \cup Executing => Len(batch_queue) < BatchQueueSize
    /\ deferred \in BatchType
    /\ deferred.sampled \subseteq deferred.rows /\ deferred.rows \subseteq deferred.reqs
    /\ \A r \in deferred.reqs : uses[r] > 0
    /\ deferred # NoBatch => Async /\ Len(batch_queue) = 1 /\ pc \in {"pop"} \cup Updating
    /\ pc = "execute_only" => Async /\ Len(batch_queue) = 1
    /\ pc \in Updating => batch_queue # << >> /\ todo \subseteq oldest.reqs
    /\ pc \notin Updating => todo = {}
    /\ pc = "stopped" => todo # {} /\ status[NextTodo] = "finished"

(* A placeholder stands for a token in flight: no token without one, and   *)
(* none without a token but for a request whose row the runner dropped.    *)
Sampled(b, r) == IF r \in b.sampled THEN 1 ELSE 0
Claims(b, r)  == IF r \in b.reqs /\ (r \in b.sampled \/ r \notin b.rows) THEN 1 ELSE 0
TokensOut(r) == Sampled(First, r) + Sampled(Second, r)

Placeholders ==
    IF Async
    THEN \A r \in Req : Unfinished(r) =>
             /\ TokensOut(r) <= placeholders[r]
             /\ placeholders[r] <= Claims(First, r) + Claims(Second, r)
    ELSE \A r \in Req : placeholders[r] = 0

(* A request that runs with tokens in flight has computed all but the last *)
(* of them; none of its tokens is past its limits.                         *)
Computes ==
    \A r \in Req : status[r] = "running" /\ TokensOut(r) > 0 =>
        computed[r] + 1 >= NumTokens(r) + TokensOut(r)
Limits ==
    \A r \in Req : Unfinished(r) =>
        /\ Len(output[r]) + TokensOut(r) <= MaxTokens[r]
        /\ NumTokens(r) + TokensOut(r) <= MaxModelLen

(* A request that waits since an earlier step is in no batch any more; one *)
(* preempted in this step is not in the batch of this step.                *)
Waits ==
    \A r \in Req : status[r] \in {"waiting", "preempted"} =>
        /\ r \notin Second.reqs
        /\ pc \in {"idle", "running", "fit", "waiting"} /\ ~preempted => r \notin First.reqs

(* Two sampled tokens of a structured request are not outstanding at once. *)
OneAtATime ==
    \A r \in Structured : Unfinished(r) =>
        /\ Len(batch_queue) = 2 =>
               r \notin DOMAIN batch_queue[1].token \cap DOMAIN batch_queue[2].token
        /\ pc = "execute" /\ batch_queue # << >> =>
               r \notin DOMAIN batch_queue[1].token \cap SampledRows

IInv == /\ Types /\ Lengths /\ Queues /\ Tabled /\ Schedules /\ Fitting /\ Frames
        /\ Placeholders /\ Computes /\ Limits /\ Waits /\ OneAtATime

----------------------------------------------------------------------------
(* Constants, sequences and the tokens of a request. *)

(* The assumption on the constants, in parts. *)
LEMMA ConstantFacts ==
    /\ IsFiniteSet(Req) /\ Req \subseteq Nat
    /\ MaxModelLen \in Nat \ {0} /\ BlockSize \in Nat \ {0} /\ WatermarkBlocks \in Nat
    /\ MaxNumRunningReqs \in Nat \ {0} /\ MaxNumScheduledTokens \in Nat \ {0}
    /\ LongPrefillThreshold \in Nat
    /\ Async \in BOOLEAN /\ PriorityPolicy \in BOOLEAN
    /\ BatchQueueSize = IF Async THEN 2 ELSE 1
    /\ Structured \subseteq Req
    /\ \A r \in Req : /\ Prompt[r] \in Seq(Token) /\ Len(Prompt[r]) \in Nat \ {0}
                      /\ MaxTokens[r] \in Nat \ {0} /\ MinTokens[r] \in Nat
                      /\ MinTokens[r] <= MaxTokens[r]
  <1>1. ASSUME NEW r \in Req PROVE Prompt[r] \in Seq(Token) /\ Len(Prompt[r]) \in Nat \ {0}
    BY SchedulerAssumption DEF SchedulerAssumption
  <1>2. ASSUME NEW r \in Req
        PROVE  MaxTokens[r] \in Nat \ {0} /\ MinTokens[r] \in Nat /\ MinTokens[r] <= MaxTokens[r]
    BY SchedulerAssumption DEF SchedulerAssumption
  <1> QED BY <1>1, <1>2, SchedulerAssumption, ManagerAssumption, PoolAssumption
          DEF SchedulerAssumption, ManagerAssumption, PoolAssumption, BatchQueueSize

(* The request updated next is one to be updated. *)
LEMMA NextTodoFacts ==
    ASSUME todo \subseteq Req, todo # {}
    PROVE  NextTodo \in todo
  <1>1. \E r \in todo : \A s \in todo : r <= s
    BY ConstantFacts, LeastNatural
  <1> QED BY <1>1 DEF NextTodo

(* The tokens of a request are its prompt and its output. *)
LEMMA TokenFacts ==
    ASSUME output \in [Req -> Seq(Token)], NEW r \in Req
    PROVE  /\ all_token_ids(r) \in Seq(Token) /\ Len(all_token_ids(r)) = NumTokens(r)
           /\ NumTokens(r) \in Nat \ {0} /\ Len(output[r]) \in Nat
           /\ NumTokens(r) = Len(Prompt[r]) + Len(output[r])
           /\ all_token_ids(r) # << >>
  <1>1. Prompt[r] \in Seq(Token) /\ output[r] \in Seq(Token) /\ Len(Prompt[r]) \in Nat \ {0}
    BY ConstantFacts
  <1> QED BY <1>1 DEF all_token_ids, NumTokens

(* What the pool is told of the tokens of a request. *)
LEMMA KnownFacts ==
    ASSUME output \in [Req -> Seq(Token)], NEW r \in Req
    PROVE  /\ Known \in [Req -> Seq(Token)]
           /\ uses[r] # 0 => Known[r] = all_token_ids(r)
  <1>1. \A s \in Req : all_token_ids(s) \in Seq(Token)
    BY TokenFacts
  <1> QED BY <1>1 DEF Known

----------------------------------------------------------------------------
(* The batches in flight. *)

(* NoBatch counts for nobody, and is a batch. *)
LEMMA NoBatchFacts ==
    /\ NoBatch \in BatchType /\ NoBatch.reqs = {} /\ NoBatch.rows = {} /\ NoBatch.sampled = {}
    /\ \A r : Sampled(NoBatch, r) = 0 /\ Claims(NoBatch, r) = 0
  BY DEF NoBatch, BatchType, Sampled, Claims

(* The number of batches, by where the thread is. *)
LEMMA QueueLengths ==
    ASSUME Frames
    PROVE  /\ Len(batch_queue) \in 0 .. 2
           /\ batch_queue = << >> <=> Len(batch_queue) = 0
           /\ pc \in {"idle"} \cup Scheduling \cup Executing => Len(batch_queue) \in 0 .. 1
           /\ ~Async => Len(batch_queue) \in 0 .. 1
           /\ ~Async /\ pc \in {"idle"} \cup Scheduling \cup Executing => batch_queue = << >>
  <1> DEFINE n == Len(batch_queue)
             early == pc \in {"idle"} \cup Scheduling \cup Executing
  <1>1. n \in Nat /\ (batch_queue = << >> <=> n = 0)
    BY DEF Frames
  <1>2. n <= BatchQueueSize /\ (early => n < BatchQueueSize)
    BY DEF Frames
  <1>3. BatchQueueSize = IF Async THEN 2 ELSE 1
    BY ConstantFacts
  <1> HIDE DEF n, early
  <1>4. n \in 0 .. 2 /\ (early => n \in 0 .. 1)
    BY <1>1, <1>2, <1>3
  <1>5. ~Async => n \in 0 .. 1 /\ (early => n = 0)
    BY <1>1, <1>2, <1>3
  <1> QED BY <1>1, <1>4, <1>5 DEF n, early

(* Outside the execution of a batch the second one is queued or deferred.  *)
(* Nothing but batch_queue, deferred and todo decides what is in flight.   *)
LEMMA SameBatches ==
    ASSUME Frames, Frames', UNCHANGED <<batch_queue, todo, deferred>>,
           pc \notin Executing, pc' \notin Executing, pc \in Updating <=> pc' \in Updating
    PROVE  First' = First /\ Second' = Second
  BY DEF First, Second, oldest

(* What is said of a batch in the queue holds of what is left of it, and   *)
(* of the one that executes.                                               *)
LEMMA BatchFacts ==
    ASSUME Frames
    PROVE  /\ First \in BatchType /\ Second \in BatchType
           /\ First.sampled \subseteq First.rows /\ Second.sampled \subseteq Second.rows
           /\ First.sampled \subseteq First.reqs /\ Second.sampled \subseteq Second.reqs
           /\ \A r \in First.reqs : uses[r] > 0
           /\ pc \notin Executing => \A r \in Second.reqs : uses[r] > 0
  <1>1. ASSUME NEW i \in DOMAIN batch_queue
        PROVE  LET f == batch_queue[i] IN
               /\ f.reqs \subseteq Req /\ f.rows \subseteq f.reqs /\ DOMAIN f.token \subseteq f.rows
               /\ \A r \in f.reqs : uses[r] > 0
    <2>1. batch_queue[i] \in FrameType
      BY DEF Frames
    <2>2. batch_queue[i].reqs \subseteq Req
      BY <2>1 DEF FrameType
    <2> QED BY <2>2 DEF Frames
  <1>2. Len(batch_queue) \in 0 .. 2 /\ DOMAIN batch_queue = 1 .. Len(batch_queue)
        /\ (batch_queue = << >> <=> Len(batch_queue) = 0)
    BY QueueLengths DEF Frames
  <1> DEFINE F == First
             S == Second
  <1>3. /\ F \in BatchType /\ F.sampled \subseteq F.rows /\ F.sampled \subseteq F.reqs
        /\ \A r \in F.reqs : uses[r] > 0
    <2>1. CASE batch_queue = << >>
      BY <2>1, NoBatchFacts DEF First
    <2>2. CASE batch_queue # << >>
      <3>1. 1 \in DOMAIN batch_queue
        BY <1>2, <2>2
      <3>2. /\ oldest.reqs \subseteq Req /\ oldest.rows \subseteq oldest.reqs
            /\ DOMAIN oldest.token \subseteq oldest.rows
            /\ \A r \in oldest.reqs : uses[r] > 0
        BY <1>1, <3>1 DEF oldest
      <3>3. pc \in Updating => todo \subseteq oldest.reqs
        BY DEF Frames
      <3> QED BY <2>2, <3>2, <3>3 DEF First, BatchOf, Batch, BatchType
    <2> QED BY <2>1, <2>2
  <1>4. /\ S \in BatchType /\ S.sampled \subseteq S.rows /\ S.sampled \subseteq S.reqs
        /\ pc \notin Executing => \A r \in S.reqs : uses[r] > 0
    <2>1. CASE Len(batch_queue) = 2
      <3>1. 2 \in DOMAIN batch_queue
        BY <1>2, <2>1
      <3> QED BY <1>1, <2>1, <3>1 DEF Second, BatchOf, Batch, BatchType
    <2>2. CASE Len(batch_queue) # 2 /\ pc \in Executing
      <3>1. Scheduled \subseteq Req /\ Rows \subseteq Scheduled /\ SampledRows \subseteq Rows
        BY DEF Scheduled, Rows, NewReqs, SampledRows
      <3> QED BY <2>2, <3>1 DEF Second, Batch, BatchType
    <2>3. CASE Len(batch_queue) # 2 /\ pc \notin Executing
      BY <2>3 DEF Second, Frames, BatchType
    <2> QED BY <2>1, <2>2, <2>3
  <1> QED BY <1>3, <1>4

(* What the runner holds of a request beyond its known tokens: one token   *)
(* of every batch in the queue that sampled for it.                        *)
LEMMA InFlightFacts ==
    ASSUME Types, Frames, NEW r \in Req
    PROVE  /\ FramesOf(r) = {i \in DOMAIN batch_queue : r \in DOMAIN batch_queue[i].token}
           /\ InFlight(r) \in Seq(Token) /\ Len(InFlight(r)) = Cardinality(FramesOf(r))
           /\ Cardinality(FramesOf(r)) = (IF 1 \in FramesOf(r) THEN 1 ELSE 0)
                                          + (IF 2 \in FramesOf(r) THEN 1 ELSE 0)
           /\ Len(device_toks(r)) = NumTokens(r) + Cardinality(FramesOf(r))
  <1> DEFINE K == FramesOf(r)
             n == Cardinality(K)
  <1>1. DOMAIN batch_queue \subseteq {1, 2}
    <2>1. Len(batch_queue) \in 0 .. 2 /\ DOMAIN batch_queue = 1 .. Len(batch_queue)
      BY QueueLengths DEF Frames
    <2> QED BY <2>1
  <1>2. ASSUME NEW i \in DOMAIN batch_queue, r \in DOMAIN batch_queue[i].token
        PROVE  batch_queue[i].use[r] = uses[r] /\ batch_queue[i].token[r] \in Token
    <2>1. batch_queue[i] \in FrameType /\ r \in batch_queue[i].reqs
      BY <1>2 DEF Frames
    <2>2. PICK S \in SUBSET Req : batch_queue[i].token \in [S -> Token]
      BY <2>1 DEF FrameType, Partial
    <2> QED BY <1>2, <2>1, <2>2 DEF Frames
  <1>3. K = {i \in DOMAIN batch_queue : r \in DOMAIN batch_queue[i].token}
    BY <1>2 DEF FramesOf
  <1>4. K \subseteq {1, 2} /\ K \subseteq Nat /\ IsFiniteSet(K)
    <2>1. K \subseteq {1, 2}
      BY <1>1, <1>3
    <2>2. IsFiniteSet({1, 2})
      <3>1. {1, 2} = {1} \cup {2}
        OBVIOUS
      <3>2. IsFiniteSet({1})
        BY FS_Singleton
      <3> QED BY <3>1, <3>2, FS_AddElement
    <2> HIDE DEF K
    <2>3. IsFiniteSet(K)
      BY <2>1, <2>2, FS_Subset, K \in SUBSET {1, 2}
    <2> QED BY <2>1, <2>3
  <1>5. n = (IF 1 \in K THEN 1 ELSE 0) + (IF 2 \in K THEN 1 ELSE 0)
    <2>1. K = {} \/ K = {1} \/ K = {2} \/ K = {1, 2}
      BY <1>4
    <2>2. Cardinality({}) = 0 /\ Cardinality({1}) = 1 /\ Cardinality({2}) = 1
      BY FS_EmptySet, FS_Singleton
    <2>3. Cardinality({1, 2}) = 2
      <3>1. {1, 2} = {1} \cup {2} /\ 2 \notin {1}
        OBVIOUS
      <3>2. IsFiniteSet({1})
        BY FS_Singleton
      <3> QED BY <2>2, <3>1, <3>2, FS_AddElement
    <2> HIDE DEF K
    <2>4. CASE K = {}
      BY <2>2, <2>4
    <2>5. CASE K = {1}
      BY <2>2, <2>5
    <2>6. CASE K = {2}
      BY <2>2, <2>6
    <2>7. CASE K = {1, 2}
      BY <2>3, <2>7
    <2> QED BY <2>1, <2>4, <2>5, <2>6, <2>7
  <1>6. n \in Nat
    BY <1>4, Ranks
  <1>7. InFlight(r) \in Seq(Token) /\ Len(InFlight(r)) = n
    <2> DEFINE at(j) == CHOOSE i \in K : RankIn(K, i) = j - 1
    <2>1. ASSUME NEW j \in 1 .. n PROVE at(j) \in K
      <3>1. j - 1 \in 0 .. n - 1
        BY <1>6
      <3>2. \E i \in K : RankIn(K, i) = j - 1
        BY <1>4, <3>1, Ranks
      <3> QED BY <3>2
    <2>2. InFlight(r) = [j \in 1 .. n |-> batch_queue[at(j)].token[r]]
      BY DEF InFlight
    <2> HIDE DEF at
    <2>3. \A j \in 1 .. n : batch_queue[at(j)].token[r] \in Token
      BY <1>2, <1>3, <2>1
    <2> HIDE DEF n
    <2> QED BY <1>6, <2>2, <2>3
  <1>8. Len(device_toks(r)) = NumTokens(r) + n
    <2> DEFINE a == all_token_ids(r)
               b == InFlight(r)
    <2>1. a \in Seq(Token) /\ Len(a) = NumTokens(r) /\ b \in Seq(Token) /\ Len(b) = n
      BY <1>7, TokenFacts DEF Types
    <2>2. device_toks(r) = a \o b
      BY DEF device_toks
    <2> HIDE DEF a, b, n
    <2>3. Len(a \o b) = Len(a) + Len(b)
      BY <2>1
    <2> QED BY <2>1, <2>2, <2>3
  <1> QED BY <1>3, <1>5, <1>7, <1>8

(* A new scheduler satisfies the invariant. *)
LEMMA InitIInv == Disciplined /\ Init => IInv
  <1> SUFFICES ASSUME Disciplined, Init PROVE IInv
    OBVIOUS
  <1>1. Types
    <2>1. output \in [Req -> Seq(Token)] /\ running \in Seq(Req) /\ waiting \in Seq(Req)
      BY DEF Init
    <2>2. status \in [Req -> {"unknown", "waiting", "running", "preempted", "finished"}]
      BY DEF Init
    <2>3. /\ computed \in [Req -> Nat] /\ placeholders \in [Req -> Nat]
          /\ uses \in [Req -> 0 .. 2] /\ num_scheduled_tokens \in [Req -> Nat]
      BY DEF Init
    <2>4. pc = "idle" /\ req_index = 1 /\ token_budget = 0 /\ preempted \in BOOLEAN /\ todo = {}
          /\ in_batch = {} /\ finished_req_ids = {}
      BY DEF Init
    <2> QED BY <2>1, <2>2, <2>3, <2>4 DEF Types
  <1>2. \A r \in Req : status[r] = "unknown" /\ ~Unfinished(r)
    BY DEF Init, Unfinished
  <1>3. Lengths
    BY <1>2 DEF Lengths
  <1>4. Queues
    BY <1>2, ConstantFacts DEF Init, Queues, Lists, IsInjective, Range
  <1>5. Tabled
    <2>1. Known \in [Req -> Seq(Token)]
      <3>1. output \in [Req -> Seq(Token)]
        BY DEF Init
      <3>2. \A r \in Req : all_token_ids(r) \in Seq(Token)
        BY <3>1, TokenFacts
      <3> QED BY <3>2 DEF Known
    <2>2. Consistent(kv, Known) /\ kv.fault = "none"
      BY <2>1, InitConsistent DEF Init
    <2>3. Owners(kv) = {}
      BY DEF Init, InitKV, Owners
    <2> QED BY <2>2, <2>3, <1>2 DEF Tabled
  <1>6. Schedules
    BY <1>2 DEF Init, Schedules, Scheduled
  <1>7. Fitting
    BY DEF Init, Fitting
  <1>8. Frames
    <2>1. batch_queue \in Seq(FrameType) /\ DOMAIN batch_queue = {} /\ Len(batch_queue) = 0
      BY DEF Init
    <2>2. deferred = NoBatch /\ pc = "idle" /\ todo = {}
      BY DEF Init
    <2> QED BY <2>1, <2>2, ConstantFacts, NoBatchFacts DEF Frames, Executing, Updating
  <1>9. First = NoBatch /\ Second = NoBatch
    BY DEF Init, First, Second, Executing
  <1>10. Placeholders
    BY <1>2 DEF Init, Placeholders
  <1>11. Computes /\ Limits /\ Waits
    BY <1>2 DEF Computes, Limits, Waits
  <1>12. OneAtATime
    BY <1>2, ConstantFacts DEF OneAtATime
  <1> QED BY <1>1, <1>3, <1>4, <1>5, <1>6, <1>7, <1>8, <1>10, <1>11, <1>12 DEF IInv

(* A step that neither touches the batches nor the tokens, between idle    *)
(* and assemble, keeps all that is said of them.                           *)
LEMMA SchedulingKeeps ==
    ASSUME IInv, pc \in {"idle"} \cup Scheduling, pc' \in {"idle"} \cup Scheduling,
           UNCHANGED <<output, placeholders, uses, deferred, batch_queue, todo>>,
           \A r \in Req : Unfinished(r)' => Unfinished(r)
    PROVE  /\ Frames' /\ Placeholders' /\ Limits' /\ OneAtATime' /\ Lengths'
           /\ First' = First /\ Second' = Second
           /\ \A r : NumTokens(r)' = NumTokens(r) /\ TokensOut(r)' = TokensOut(r)
           /\ Known' = Known
  <1> USE DEF Scheduling, Executing, Updating
  <1>1. Frames'
    BY DEF IInv, Frames, oldest
  <1>2. First' = First /\ Second' = Second
    BY <1>1, SameBatches DEF IInv
  <1>3. \A r : NumTokens(r)' = NumTokens(r) /\ TokensOut(r)' = TokensOut(r)
    BY <1>2 DEF NumTokens, TokensOut, Sampled
  <1>4. Placeholders'
    BY <1>2, <1>3 DEF IInv, Placeholders, Claims, TokensOut, Sampled
  <1>5. Limits'
    BY <1>2, <1>3 DEF IInv, Limits
  <1>6. OneAtATime'
    BY QueueLengths DEF IInv, OneAtATime
  <1>7. Lengths'
    BY <1>3 DEF IInv, Lengths
  <1>8. Known' = Known
    BY DEF Known, all_token_ids
  <1> QED BY <1>1, <1>2, <1>3, <1>4, <1>5, <1>6, <1>7, <1>8

(* Where nobody gets or loses blocks, slots or a place in running. *)
LEMMA TabledKeeps ==
    ASSUME Tabled, UNCHANGED kv, Known' = Known, pc # "stopped", pc' # "stopped",
           \A r \in Req : status'[r] = "running" <=> status[r] = "running",
           \A r \in Req : status[r] = "running" =>
               Reach(r)' = Reach(r) /\ NumTokens(r)' + placeholders'[r] = NumTokens(r) + placeholders[r]
    PROVE  Tabled'
  BY DEF Tabled, Owners

(* A running request has a place in the list, and has computed less than   *)
(* the running loop may give it.                                           *)
LEMMA RunningFacts ==
    ASSUME IInv, pc \in Scheduling, NEW r \in Range(running)
    PROVE  /\ r \in Req /\ status[r] = "running" /\ Unfinished(r) /\ uses[r] # 0
           /\ computed[r] \in Nat /\ placeholders[r] \in Nat /\ num_scheduled_tokens[r] \in Nat
           /\ Reach(r) = computed[r] + num_scheduled_tokens[r]
           /\ NumTokens(r) \in Nat \ {0}
           /\ Known[r] = all_token_ids(r)
           /\ computed[r] + num_scheduled_tokens[r] <= NumTokens(r) + placeholders[r]
           /\ computed[r] + num_scheduled_tokens[r] < MaxModelLen
           /\ kv.req_to_blocks[r] # << >>
  <1>1. r \in Req /\ status[r] = "running"
    <2>1. r \in Req
      BY RangeFacts DEF IInv, Types
    <2> QED BY <2>1 DEF IInv, Queues, Lists, Updating, Scheduling
  <1>2. Unfinished(r) /\ uses[r] \in Nat /\ uses[r] > 0
    <2>1. Unfinished(r)
      BY <1>1 DEF Unfinished
    <2>2. uses[r] \in 0 .. 2
      BY <1>1 DEF IInv, Types
    <2> QED BY <2>1, <2>2, <1>1 DEF IInv, Lengths
  <1>3. NumTokens(r) \in Nat \ {0} /\ Known[r] = all_token_ids(r)
    BY <1>1, <1>2, TokenFacts, KnownFacts DEF IInv, Types
  <1>4. /\ computed[r] \in Nat /\ placeholders[r] \in Nat /\ num_scheduled_tokens[r] \in Nat
        /\ Reach(r) = computed[r] + num_scheduled_tokens[r]
    BY <1>1 DEF IInv, Types, Reach, Pending, Scheduling, Executing
  <1>5. /\ Reach(r) > 0 /\ Reach(r) <= Len(kv.req_to_blocks[r]) * BlockSize
        /\ Reach(r) <= NumTokens(r) + placeholders[r] /\ Reach(r) < MaxModelLen
    BY <1>1 DEF IInv, Tabled
  <1>6. kv.req_to_blocks[r] # << >>
    BY <1>4, <1>5, ConstantFacts
  <1> QED BY <1>1, <1>2, <1>3, <1>4, <1>5, <1>6

(* The lesser of two numbers. *)
LEMMA LeastFacts ==
    ASSUME NEW a \in Int, NEW b \in Int
    PROVE  Least(a, b) \in {a, b} /\ Least(a, b) <= a /\ Least(a, b) <= b
  BY DEF Least

(* What the running loop may give a request is no less than nothing and no *)
(* more than its tokens, the budget and the model length leave.            *)
LEMMA NumNewFacts ==
    ASSUME NEW r, NumTokens(r) \in Nat, placeholders[r] \in Nat, computed[r] \in Nat,
           token_budget \in Nat,
           computed[r] <= NumTokens(r) + placeholders[r], computed[r] < MaxModelLen
    PROVE  /\ NumNewTokens(r) \in Nat /\ NumNewTokens(r) <= token_budget
           /\ computed[r] + NumNewTokens(r) <= NumTokens(r) + placeholders[r]
           /\ computed[r] + NumNewTokens(r) < MaxModelLen
  <1> DEFINE x == NumTokens(r) + placeholders[r] - computed[r]
             s == Shortened(x)
             t == Least(s, token_budget)
             y == MaxModelLen - computed[r] - 1
  <1>1. x \in Nat /\ y \in Nat /\ computed[r] + x = NumTokens(r) + placeholders[r]
        /\ computed[r] + y < MaxModelLen
    BY ConstantFacts
  <1> HIDE DEF x, y
  <1>2. s \in Nat /\ s <= x
    BY <1>1, ConstantFacts, LeastFacts DEF Shortened
  <1> HIDE DEF s
  <1>3. t \in Nat /\ t <= s /\ t <= token_budget
    BY <1>2, LeastFacts
  <1> HIDE DEF t
  <1>4. NumNewTokens(r) = Least(t, y)
    BY DEF NumNewTokens, t, y, s, x
  <1> DEFINE l == Least(t, y)
             e == NumTokens(r) + placeholders[r]
  <1>5. l \in Nat /\ l <= t /\ l <= y
    BY <1>1, <1>3, LeastFacts
  <1>6. e \in Nat /\ computed[r] + x = e /\ MaxModelLen \in Nat
    BY <1>1, ConstantFacts
  <1> HIDE DEF l, e
  <1>7. l \in Nat /\ l <= token_budget /\ computed[r] + l <= e /\ computed[r] + l < MaxModelLen
    BY <1>1, <1>2, <1>3, <1>5, <1>6
  <1> QED BY <1>4, <1>7 DEF l, e

----------------------------------------------------------------------------
(* The steps of the running loop keep the invariant. *)

(* A step begins with the whole budget and nothing scheduled. *)
LEMMA BeginStepKeeps ==
    ASSUME IInv, BeginStep
    PROVE  IInv'
  <1>1. /\ pc = "idle" /\ pc' = "running" /\ req_index' = 1 /\ token_budget' = MaxNumScheduledTokens
        /\ UNCHANGED <<kv, status, output, computed, placeholders, uses, running, waiting,
                       finished_req_ids, fitting, num_scheduled_tokens, preempted, deferred,
                       batch_queue, todo, in_batch>>
    BY DEF BeginStep, reqs, queues, batch
  <1>2. /\ Frames' /\ Placeholders' /\ Limits' /\ OneAtATime' /\ Lengths'
        /\ First' = First /\ Second' = Second /\ Known' = Known
        /\ \A r : NumTokens(r)' = NumTokens(r) /\ TokensOut(r)' = TokensOut(r)
    BY <1>1, SchedulingKeeps DEF Unfinished, Scheduling
  <1>3. Types'
    BY <1>1, ConstantFacts DEF IInv, Types, Scheduling
  <1>4. \A r : Reach(r)' = Reach(r)
    BY <1>1 DEF Reach, Pending, Executing
  <1>5. Tabled'
    BY <1>1, <1>2, <1>4, TabledKeeps DEF IInv
  <1>6. Queues' /\ Fitting'
    BY <1>1 DEF IInv, Queues, Lists, Fitting, Updating
  <1>7. Schedules'
    <2>1. \A r \in Req : num_scheduled_tokens[r] = 0
      BY <1>1 DEF IInv, Schedules, Scheduled, Scheduling, Executing
    <2>2. \A i \in DOMAIN running : running[i] \in Req
      BY DEF IInv, Types
    <2> QED BY <1>1, <2>1, <2>2 DEF IInv, Schedules, Scheduled, Scheduling
  <1>8. Computes' /\ Waits'
    BY <1>1, <1>2, <1>4 DEF IInv, Computes, Waits, Schedules, Scheduling, Executing
  <1> QED BY <1>2, <1>3, <1>5, <1>6, <1>7, <1>8 DEF IInv

(* The running loop passes a request by, *)
LEMMA SkipRunningKeeps ==
    ASSUME IInv, SkipRunning
    PROVE  IInv'
  <1>1. /\ pc = "running" /\ req_index' = req_index + 1
        /\ UNCHANGED <<kv, status, output, computed, placeholders, uses, running, waiting,
                       finished_req_ids, pc, fitting, token_budget, num_scheduled_tokens, preempted,
                       deferred, batch_queue, todo, in_batch>>
    BY DEF SkipRunning, InRunningLoop, reqs, queues, batch
  <1>2. /\ Frames' /\ Placeholders' /\ Limits' /\ OneAtATime' /\ Lengths'
        /\ First' = First /\ Second' = Second /\ Known' = Known
        /\ \A r : NumTokens(r)' = NumTokens(r) /\ TokensOut(r)' = TokensOut(r)
    BY <1>1, SchedulingKeeps DEF Unfinished, Scheduling
  <1>3. Types'
    BY <1>1 DEF IInv, Types
  <1>4. \A r : Reach(r)' = Reach(r)
    BY <1>1 DEF Reach, Pending, Executing
  <1>5. Tabled'
    BY <1>1, <1>2, <1>4, TabledKeeps DEF IInv
  <1>6. Queues' /\ Fitting'
    BY <1>1 DEF IInv, Queues, Lists, Fitting
  <1>7. Schedules'
    <2>1. req_index \in Nat /\ \A i \in DOMAIN running : i \in Nat
      BY DEF IInv, Types
    <2> QED BY <1>1, <2>1 DEF IInv, Schedules, Scheduled, Scheduling, ReachesMaxTokens
  <1>8. Computes' /\ Waits'
    BY <1>1, <1>2, <1>4 DEF IInv, Computes, Waits
  <1> QED BY <1>2, <1>3, <1>5, <1>6, <1>7, <1>8 DEF IInv

(* or picks one. *)
LEMMA PickRunningKeeps ==
    ASSUME IInv, PickRunning
    PROVE  IInv'
  <1> DEFINE f == running[req_index]
             n == NumNewTokens(f)
  <1>1. /\ pc = "running" /\ pc' = "fit" /\ fitting' = <<f, n>>
        /\ req_index <= Len(running) /\ token_budget > 0
        /\ ~ReachesMaxTokens(f) /\ n # 0
        /\ UNCHANGED <<kv, status, output, computed, placeholders, uses, running, waiting,
                       finished_req_ids, req_index, token_budget, num_scheduled_tokens, preempted,
                       deferred, batch_queue, todo, in_batch>>
    BY DEF PickRunning, InRunningLoop, reqs, queues, batch
  <1> HIDE DEF n
  <1>2. /\ Frames' /\ Placeholders' /\ Limits' /\ OneAtATime' /\ Lengths'
        /\ First' = First /\ Second' = Second /\ Known' = Known
        /\ \A r : NumTokens(r)' = NumTokens(r) /\ TokensOut(r)' = TokensOut(r)
    BY <1>1, SchedulingKeeps DEF Unfinished, Scheduling
  <1>3. Types'
    BY <1>1 DEF IInv, Types, Scheduling
  <1>4. \A r : Reach(r)' = Reach(r)
    BY <1>1 DEF Reach, Pending, Executing
  <1>5. Tabled'
    BY <1>1, <1>2, <1>4, TabledKeeps DEF IInv
  <1>6. Queues' /\ Schedules'
    BY <1>1 DEF IInv, Queues, Lists, Schedules, Scheduled, Updating, Scheduling, Executing,
                ReachesMaxTokens
  <1>7. Fitting'
    <2>1. req_index \in DOMAIN running /\ f \in Range(running) /\ token_budget \in Nat
      BY <1>1, RangeFacts DEF IInv, Types
    <2>2. num_scheduled_tokens[f] = 0
      BY <1>1, <2>1 DEF IInv, Schedules, Types
    <2>3. /\ f \in Req /\ computed[f] \in Nat /\ placeholders[f] \in Nat /\ NumTokens(f) \in Nat
          /\ computed[f] <= NumTokens(f) + placeholders[f] /\ computed[f] < MaxModelLen
      BY <1>1, <2>1, <2>2, RunningFacts DEF Scheduling
    <2>4. /\ n \in Nat /\ n <= token_budget
          /\ computed[f] + n <= NumTokens(f) + placeholders[f] /\ computed[f] + n < MaxModelLen
      BY <2>1, <2>3, NumNewFacts DEF n
    <2>5. fitting'[1] = f /\ fitting'[2] = n /\ fitting' \in Req \X (Nat \ {0})
      BY <1>1, <2>3, <2>4
    <2>6. ~ReachesMaxTokens(f)'
      BY <1>1 DEF ReachesMaxTokens
    <2>7. req_index <= req_index
      BY DEF IInv, Types
    <2> QED BY <1>1, <1>2, <2>1, <2>2, <2>4, <2>5, <2>6, <2>7 DEF Fitting
  <1>8. Computes' /\ Waits'
    BY <1>1, <1>2, <1>4 DEF IInv, Computes, Waits
  <1> QED BY <1>2, <1>3, <1>5, <1>6, <1>7, <1>8 DEF IInv

(* Slots for whom the running loop made room. *)
LEMMA ScheduleRunningKeeps ==
    ASSUME IInv, ScheduleRunning
    PROVE  IInv'
  <1>0. PICK r, n : r = fitting[1] /\ n = fitting[2]
    OBVIOUS
  <1>1. /\ pc = "fit" /\ pc' = "running" /\ fitting' = << >> /\ req_index' = req_index + 1
        /\ Fits(r, n)
        /\ kv' = allocate_slots_running(kv, r, all_token_ids(r), computed[r], n)
        /\ num_scheduled_tokens' = [num_scheduled_tokens EXCEPT ![r] = n]
        /\ token_budget' = token_budget - n
        /\ UNCHANGED <<status, output, computed, placeholders, uses, running, waiting,
                       finished_req_ids, preempted, deferred, batch_queue, todo, in_batch>>
    BY <1>0 DEF ScheduleRunning, reqs, queues, batch
  <1>2. /\ r \in Range(running) /\ n \in Nat \ {0} /\ num_scheduled_tokens[r] = 0
        /\ n <= token_budget /\ computed[r] + n <= NumTokens(r) + placeholders[r]
        /\ computed[r] + n < MaxModelLen
        /\ \E i \in DOMAIN running : i <= req_index /\ running[i] = r
    BY <1>0, <1>1 DEF IInv, Fitting
  <1>3. /\ r \in Req /\ status[r] = "running" /\ computed[r] \in Nat
        /\ Known[r] = all_token_ids(r) /\ kv.req_to_blocks[r] # << >>
    BY <1>1, <1>2, RunningFacts DEF Scheduling
  <1>4. Allocated(kv, kv', Known, r, computed[r], n)
    <2>1. computed[r] + n <= MaxModelLen
      BY <1>2, <1>3, ConstantFacts
    <2>2. CanAllocate(kv, r, computed[r], n, << >>, 0, 0) /\ Consistent(kv, Known)
      BY <1>1 DEF Fits, IInv, Tabled
    <2> QED BY <1>1, <1>2, <1>3, <2>1, <2>2, RunningKeeps
  <1>5. /\ Frames' /\ Placeholders' /\ Limits' /\ OneAtATime' /\ Lengths'
        /\ First' = First /\ Second' = Second /\ Known' = Known
        /\ \A s : NumTokens(s)' = NumTokens(s) /\ TokensOut(s)' = TokensOut(s)
    BY <1>1, SchedulingKeeps DEF Unfinished, Scheduling
  <1>6. /\ num_scheduled_tokens \in [Req -> Nat] /\ num_scheduled_tokens'[r] = n
        /\ \A s \in Req : s # r => num_scheduled_tokens'[s] = num_scheduled_tokens[s]
        /\ num_scheduled_tokens' \in [Req -> Nat]
    BY <1>1, <1>2, <1>3 DEF IInv, Types
  <1>7. Types'
    <2>1. token_budget - n \in Nat /\ req_index + 1 \in Nat \ {0}
      BY <1>2 DEF IInv, Types
    <2> QED BY <1>1, <1>6, <2>1 DEF IInv, Types, Scheduling
  <1>8. /\ Reach(r) = computed[r] /\ Reach(r)' = computed[r] + n
        /\ \A s \in Req : s # r => Reach(s)' = Reach(s)
    BY <1>1, <1>2, <1>3, <1>6 DEF Reach, Pending, Executing
  <1>9. Tabled'
    <2>1. Consistent(kv', Known') /\ kv'.fault = "none"
      BY <1>4, <1>5 DEF Allocated, IInv, Tabled
    <2>2. \A s \in Req : s # r => kv'.req_to_blocks[s] = kv.req_to_blocks[s]
      BY <1>4 DEF Allocated
    <2>3. \A s \in Owners(kv') : status[s] = "running"
      BY <1>1, <1>3, <2>2 DEF Owners, IInv, Tabled
    <2>4. computed[r] + n > 0
      BY <1>2, <1>3
    <2>5. computed[r] + n <= Len(kv'.req_to_blocks[r]) * BlockSize
      BY <1>4 DEF Allocated
    <2>6. /\ Reach(r)' > 0 /\ Reach(r)' <= Len(kv'.req_to_blocks[r]) * BlockSize
          /\ Reach(r)' <= NumTokens(r) + placeholders[r] /\ Reach(r)' < MaxModelLen
      BY <1>2, <1>8, <2>4, <2>5
    <2>7. ASSUME NEW s \in Req, status[s] = "running"
          PROVE  /\ Reach(s)' > 0 /\ Reach(s)' <= Len(kv'.req_to_blocks[s]) * BlockSize
                 /\ Reach(s)' <= NumTokens(s) + placeholders[s] /\ Reach(s)' < MaxModelLen
      BY <1>8, <2>2, <2>6, <2>7 DEF IInv, Tabled
    <2> QED BY <1>1, <1>5, <2>1, <2>3, <2>7 DEF Tabled
  <1>10. Queues' /\ Fitting'
    BY <1>1 DEF IInv, Queues, Lists, Fitting, Updating
  <1>11. Schedules'
    <2>1. \A s \in Scheduled' : status'[s] = "running"
      BY <1>1, <1>3, <1>6 DEF IInv, Schedules, Scheduled
    <2>2. ASSUME NEW i \in DOMAIN running, i >= req_index + 1
          PROVE  num_scheduled_tokens'[running[i]] = 0
      <3>1. i \in Nat /\ req_index \in Nat /\ running[i] \in Req
        BY DEF IInv, Types
      <3>2. num_scheduled_tokens[running[i]] = 0
        BY <1>1, <2>2, <3>1 DEF IInv, Schedules
      <3>3. PICK j \in DOMAIN running : j <= req_index /\ running[j] = r
        BY <1>2
      <3>4. running[i] # r
        <4>1. \A k \in DOMAIN running : k \in Nat
          <5>1. running \in Seq(Req)
            BY DEF IInv, Types
          <5>2. DOMAIN running = 1 .. Len(running)
            BY <5>1
          <5> QED BY <5>2
        <4>2. j # i
          BY <2>2, <3>1, <3>3, <4>1
        <4> QED BY <2>2, <3>3, <4>2 DEF IInv, Queues, Lists, IsInjective
      <3> QED BY <1>6, <3>1, <3>2, <3>4
    <2>3. ~ReachesMaxTokens(r)
      BY <1>0, <1>1 DEF IInv, Fitting
    <2>4. \A s \in Scheduled' : ~ReachesMaxTokens(s)'
      BY <1>1, <1>6, <2>3 DEF IInv, Schedules, Scheduled, Scheduling, ReachesMaxTokens
    <2> QED BY <1>1, <2>1, <2>2, <2>4 DEF Schedules, Scheduling
  <1>12. Computes'
    BY <1>1, <1>5 DEF IInv, Computes
  <1>13. Waits'
    BY <1>1, <1>5 DEF IInv, Waits
  <1> QED BY <1>5, <1>7, <1>9, <1>10, <1>11, <1>12, <1>13 DEF IInv

(* The end of the running loop. *)
LEMMA EndRunningKeeps ==
    ASSUME IInv, EndRunning
    PROVE  IInv'
  <1>1. /\ pc = "running" /\ pc' = IF preempted THEN "assemble" ELSE "waiting"
        /\ UNCHANGED <<kv, status, output, computed, placeholders, uses, running, waiting,
                       finished_req_ids, req_index, fitting, token_budget, num_scheduled_tokens,
                       preempted, deferred, batch_queue, todo, in_batch>>
    BY DEF EndRunning, reqs, queues, sched, batch
  <1>2. pc' \in {"waiting", "assemble"}
    BY <1>1
  <1>3. /\ Frames' /\ Placeholders' /\ Limits' /\ OneAtATime' /\ Lengths'
        /\ First' = First /\ Second' = Second /\ Known' = Known
        /\ \A r : NumTokens(r)' = NumTokens(r) /\ TokensOut(r)' = TokensOut(r)
    BY <1>1, <1>2, SchedulingKeeps DEF Unfinished, Scheduling
  <1>4. Types'
    BY <1>1, <1>2 DEF IInv, Types, Scheduling
  <1>5. \A r : Reach(r)' = Reach(r)
    BY <1>1, <1>2 DEF Reach, Pending, Executing
  <1>6. Tabled'
    BY <1>1, <1>2, <1>3, <1>5, TabledKeeps DEF IInv
  <1>7. Queues' /\ Fitting'
    BY <1>1, <1>2 DEF IInv, Queues, Lists, Fitting, Updating
  <1>8. Schedules'
    <2>1. pc' = "waiting" => ~preempted
      BY <1>1
    <2> QED BY <1>1, <1>2, <2>1 DEF IInv, Schedules, Scheduled, Scheduling, ReachesMaxTokens
  <1>9. Computes' /\ Waits'
    BY <1>1, <1>2, <1>3, <1>5 DEF IInv, Computes, Waits
  <1> QED BY <1>3, <1>4, <1>6, <1>7, <1>8, <1>9 DEF IInv

(* The end of the waiting loop. *)
LEMMA EndWaitingKeeps ==
    ASSUME IInv, EndWaiting
    PROVE  IInv'
  <1>1. /\ pc = "waiting" /\ pc' = "assemble"
        /\ UNCHANGED <<kv, status, output, computed, placeholders, uses, running, waiting,
                       finished_req_ids, req_index, fitting, token_budget, num_scheduled_tokens,
                       preempted, deferred, batch_queue, todo, in_batch>>
    BY DEF EndWaiting, reqs, queues, sched, batch
  <1>3. /\ Frames' /\ Placeholders' /\ Limits' /\ OneAtATime' /\ Lengths'
        /\ First' = First /\ Second' = Second /\ Known' = Known
        /\ \A r : NumTokens(r)' = NumTokens(r) /\ TokensOut(r)' = TokensOut(r)
    BY <1>1, SchedulingKeeps DEF Unfinished, Scheduling
  <1>4. Types'
    BY <1>1 DEF IInv, Types, Scheduling
  <1>5. \A r : Reach(r)' = Reach(r)
    BY <1>1 DEF Reach, Pending, Executing
  <1>6. Tabled'
    BY <1>1, <1>3, <1>5, TabledKeeps DEF IInv
  <1>7. Queues' /\ Fitting'
    BY <1>1 DEF IInv, Queues, Lists, Fitting, Updating
  <1>8. Schedules'
    BY <1>1 DEF IInv, Schedules, Scheduled, Scheduling, ReachesMaxTokens
  <1>9. Computes' /\ Waits'
    BY <1>1, <1>3, <1>5 DEF IInv, Computes, Waits
  <1> QED BY <1>3, <1>4, <1>6, <1>7, <1>8, <1>9 DEF IInv

(* What the waiting loop finds for the head of the queue: it owns nothing, *)
(* is in no batch and has at least its last token to compute.              *)
LEMMA CandidateFacts ==
    ASSUME IInv, InWaitingLoop, NEW r, r = Candidate.req,
           NEW n, n = Candidate.num_new, NEW c, c = Candidate.start
    PROVE  /\ r = Head(waiting) /\ r \in Req /\ status[r] \in {"waiting", "preempted"}
           /\ Candidate.hits = get_computed_blocks(kv, all_token_ids(r))
           /\ c = Len(Candidate.hits) * BlockSize /\ c \in Nat
           /\ n \in Nat \ {0} /\ n <= token_budget /\ c + n <= NumTokens(r)
           /\ Known[r] = all_token_ids(r) /\ all_token_ids(r) # << >>
           /\ kv.req_to_blocks[r] = << >> /\ NumTokens(r) < MaxModelLen
           /\ r \notin Range(running) /\ num_scheduled_tokens[r] = 0
           /\ r \notin First.reqs /\ r \notin Second.reqs
  <1> DEFINE hits == Candidate.hits
             x == NumTokens(r) - c
             s == Shortened(x)
  <1>1. /\ pc = "waiting" /\ waiting # << >> /\ token_budget > 0 /\ token_budget \in Nat
        /\ waiting \in Seq(Req)
    BY DEF InWaitingLoop, IInv, Types
  <1>2. /\ r = Head(waiting) /\ hits = get_computed_blocks(kv, all_token_ids(r))
        /\ c = Len(hits) * BlockSize /\ n = Least(s, token_budget)
    BY DEF Candidate
  <1>3. r \in Req /\ status[r] \in {"waiting", "preempted"} /\ Unfinished(r)
    <2>1. r \in Range(waiting) /\ r \in Req
      BY <1>1, <1>2, TailFacts
    <2> QED BY <1>1, <2>1 DEF IInv, Queues, Lists, Updating, Unfinished
  <1>4. uses[r] # 0 /\ NumTokens(r) < MaxModelLen
    <2>1. uses[r] \in 0 .. 2
      BY <1>3 DEF IInv, Types
    <2> QED BY <1>3, <2>1 DEF IInv, Lengths
  <1>5. /\ all_token_ids(r) \in Seq(Token) /\ all_token_ids(r) # << >>
        /\ Len(all_token_ids(r)) = NumTokens(r) /\ NumTokens(r) \in Nat
        /\ Known[r] = all_token_ids(r)
    BY <1>3, <1>4, TokenFacts, KnownFacts DEF IInv, Types
  <1>6. hits \in Seq(Blocks) /\ Len(hits) * BlockSize < NumTokens(r)
    <2>1. kv.pool \in PoolType /\ HashMapOK(kv.pool)
      BY ManagerFields DEF IInv, Tabled, Consistent
    <2> QED BY <1>2, <1>5, <2>1, LookupFacts
  <1>7. c \in Nat /\ c < NumTokens(r)
    <2>1. Len(hits) \in Nat /\ BlockSize \in Nat
      BY <1>6, ConstantFacts
    <2> QED BY <1>2, <1>6, <2>1
  <1>8. x \in Nat \ {0} /\ c + x = NumTokens(r)
    BY <1>5, <1>7
  <1> HIDE DEF x
  <1>9. s \in Nat \ {0} /\ s <= x
    BY <1>8, ConstantFacts, LeastFacts DEF Shortened
  <1> HIDE DEF s
  <1>10. n \in Nat \ {0} /\ n <= token_budget /\ n <= x
    BY <1>1, <1>2, <1>8, <1>9, LeastFacts
  <1>11. c + n <= NumTokens(r)
    BY <1>5, <1>7, <1>8, <1>10
  <1>12. kv.req_to_blocks[r] = << >>
    BY <1>1, <1>3 DEF IInv, Tabled, Owners
  <1>13. r \notin Range(running) /\ num_scheduled_tokens[r] = 0
    BY <1>1, <1>3 DEF IInv, Queues, Lists, Schedules, Scheduled, Updating
  <1>14. r \notin First.reqs /\ r \notin Second.reqs
    BY <1>1, <1>3 DEF IInv, Waits, Schedules
  <1> QED BY <1>2, <1>3, <1>4, <1>5, <1>7, <1>10, <1>11, <1>12, <1>13, <1>14

(* An admission. *)
LEMMA AdmitWaitingKeeps ==
    ASSUME IInv, AdmitWaiting
    PROVE  IInv'
  <1>0. PICK r, n, c, hits : /\ r = Candidate.req /\ n = Candidate.num_new
                             /\ c = Candidate.start /\ hits = Candidate.hits
    OBVIOUS
  <1>1. /\ pc = "waiting" /\ InWaitingLoop /\ CanAdmit(Candidate)
        /\ Len(running) < MaxNumRunningReqs
        /\ kv' = allocate_slots_waiting(kv, r, all_token_ids(r), hits, n)
        /\ waiting' = Tail(waiting) /\ running' = Append(running, r)
        /\ status' = [status EXCEPT ![r] = "running"]
        /\ computed' = [computed EXCEPT ![r] = c]
        /\ num_scheduled_tokens' = [num_scheduled_tokens EXCEPT ![r] = n]
        /\ token_budget' = token_budget - n
        /\ UNCHANGED <<output, placeholders, uses, finished_req_ids, pc, req_index, fitting,
                       preempted, deferred, batch_queue, todo, in_batch>>
    BY <1>0 DEF AdmitWaiting, InWaitingLoop, batch
  <1>2. /\ r = Head(waiting) /\ r \in Req /\ status[r] \in {"waiting", "preempted"}
        /\ hits = get_computed_blocks(kv, Known[r])
        /\ c = Len(hits) * BlockSize /\ c \in Nat
        /\ n \in Nat \ {0} /\ n <= token_budget /\ c + n <= NumTokens(r)
        /\ Known[r] = all_token_ids(r) /\ Known[r] # << >>
        /\ kv.req_to_blocks[r] = << >> /\ NumTokens(r) < MaxModelLen
        /\ r \notin Range(running) /\ num_scheduled_tokens[r] = 0
        /\ r \notin First.reqs /\ r \notin Second.reqs
    BY <1>0, <1>1, CandidateFacts
  <1>3. NumTokens(r) \in Nat /\ placeholders[r] \in Nat /\ token_budget \in Nat
    BY <1>2, TokenFacts DEF IInv, Types
  <1>4. Allocated(kv, kv', Known, r, c, n)
    <2> DEFINE f == IF ReserveFullIsl THEN NumTokens(r) ELSE 0
               w == IF running # << >> THEN WatermarkBlocks ELSE 0
    <2>1. c + n <= MaxModelLen
      BY <1>2, <1>3, ConstantFacts
    <2>2. CanAllocate(kv, r, c, n, hits, f, w)
      BY <1>0, <1>1 DEF CanAdmit
    <2>3. w \in Nat /\ Consistent(kv, Known)
      BY ConstantFacts DEF IInv, Tabled
    <2> HIDE DEF f, w
    <2> QED BY <1>1, <1>2, <2>1, <2>2, <2>3, WaitingKeeps
  <1>5. /\ status' \in [Req -> {"unknown", "waiting", "running", "preempted", "finished"}]
        /\ status'[r] = "running" /\ \A s \in Req : s # r => status'[s] = status[s]
    BY <1>1, <1>2 DEF IInv, Types
  <1>6. /\ Frames' /\ Placeholders' /\ Limits' /\ OneAtATime' /\ Lengths'
        /\ First' = First /\ Second' = Second /\ Known' = Known
        /\ \A s : NumTokens(s)' = NumTokens(s) /\ TokensOut(s)' = TokensOut(s)
    <2>1. \A s \in Req : Unfinished(s)' => Unfinished(s)
      BY <1>2, <1>5 DEF Unfinished
    <2> QED BY <1>1, <2>1, SchedulingKeeps DEF Scheduling
  <1>7. /\ num_scheduled_tokens' \in [Req -> Nat] /\ num_scheduled_tokens'[r] = n
        /\ \A s \in Req : s # r => num_scheduled_tokens'[s] = num_scheduled_tokens[s]
    BY <1>1, <1>2 DEF IInv, Types
  <1>8. /\ computed' \in [Req -> Nat] /\ computed'[r] = c
        /\ \A s \in Req : s # r => computed'[s] = computed[s]
    BY <1>1, <1>2 DEF IInv, Types
  <1>9. /\ waiting' \in Seq(Req) /\ IsInjective(waiting') /\ r \notin Range(waiting')
        /\ Range(waiting) = Range(waiting') \cup {r}
    <2>1. waiting \in Seq(Req) /\ waiting # << >> /\ IsInjective(waiting)
      BY <1>1 DEF IInv, Types, Queues, Lists, InWaitingLoop
    <2> QED BY <1>1, <1>2, <2>1, TailFacts
  <1>10. /\ running' \in Seq(Req) /\ IsInjective(running') /\ Range(running') = Range(running) \cup {r}
         /\ Len(running') <= MaxNumRunningReqs
    <2>1. running \in Seq(Req) /\ IsInjective(running) /\ Len(running) < MaxNumRunningReqs
      BY <1>1 DEF IInv, Types, Queues, Lists
    <2>2. Len(running') = Len(running) + 1 /\ Len(running) \in Nat
      BY <1>1, <2>1
    <2>3. /\ running' \in Seq(Req) /\ IsInjective(running')
          /\ Range(running') = Range(running) \cup {r}
      BY <1>1, <1>2, <2>1, AppendFacts
    <2> QED BY <2>1, <2>2, <2>3, ConstantFacts
  <1>11. Types'
    <2>1. token_budget - n \in Nat
      BY <1>2, <1>3
    <2> QED BY <1>1, <1>5, <1>7, <1>8, <1>9, <1>10, <2>1 DEF IInv, Types
  <1>12. Queues'
    <2>1. Lists(running, {"running"})'
      BY <1>1, <1>2, <1>5, <1>10 DEF IInv, Queues, Lists
    <2>2. Lists(waiting, {"waiting", "preempted"})'
      BY <1>1, <1>2, <1>5, <1>9 DEF IInv, Queues, Lists, Updating
    <2> QED BY <1>10, <2>1, <2>2 DEF Queues
  <1>13. /\ Reach(r)' = c + n
         /\ \A s \in Req : s # r => Reach(s)' = Reach(s)
    BY <1>1, <1>7, <1>8 DEF Reach, Pending, Executing
  <1>14. Tabled'
    <2>1. Consistent(kv', Known') /\ kv'.fault = "none"
      BY <1>4, <1>6 DEF Allocated, IInv, Tabled
    <2>2. \A s \in Req : s # r => kv'.req_to_blocks[s] = kv.req_to_blocks[s]
      BY <1>4 DEF Allocated
    <2>3. \A s \in Owners(kv') : status'[s] = "running"
      BY <1>1, <1>5, <2>2 DEF Owners, IInv, Tabled
    <2>4. c + n > 0 /\ c + n <= Len(kv'.req_to_blocks[r]) * BlockSize
      BY <1>2, <1>4 DEF Allocated
    <2>5. c + n <= NumTokens(r) + placeholders[r] /\ c + n < MaxModelLen
      BY <1>2, <1>3, ConstantFacts
    <2>6. ASSUME NEW s \in Req, status'[s] = "running"
          PROVE  /\ Reach(s)' > 0 /\ Reach(s)' <= Len(kv'.req_to_blocks[s]) * BlockSize
                 /\ Reach(s)' <= NumTokens(s) + placeholders[s] /\ Reach(s)' < MaxModelLen
      <3>1. CASE s = r
        BY <1>13, <2>4, <2>5, <3>1
      <3>2. CASE s # r
        BY <1>5, <1>13, <2>2, <2>6, <3>2 DEF IInv, Tabled
      <3> QED BY <3>1, <3>2
    <2> QED BY <1>1, <1>6, <2>1, <2>3, <2>6 DEF Tabled
  <1>15. Fitting'
    BY <1>1 DEF IInv, Fitting
  <1>16. Schedules'
    <2>1. \A s \in Scheduled' : status'[s] = "running"
      BY <1>5, <1>7 DEF IInv, Schedules, Scheduled
    <2>2. placeholders[r] = 0
      BY <1>2, <1>3, <1>5 DEF IInv, Placeholders, Claims, Unfinished
    <2>3. \A s \in Scheduled' : ~ReachesMaxTokens(s)'
      BY <1>1, <1>7, <1>8, <2>2 DEF IInv, Schedules, Scheduled, Scheduling, ReachesMaxTokens
    <2> QED BY <1>1, <2>1, <2>3 DEF IInv, Schedules, Scheduling
  <1>17. TokensOut(r) = 0
    <2>1. First.sampled \subseteq First.reqs /\ Second.sampled \subseteq Second.reqs
      BY BatchFacts DEF IInv
    <2> QED BY <1>2, <2>1 DEF TokensOut, Sampled
  <1>18. Computes'
    <2>1. ASSUME NEW s \in Req, status'[s] = "running", TokensOut(s) > 0
          PROVE  computed'[s] + 1 >= NumTokens(s) + TokensOut(s)
      <3>1. s # r
        BY <1>17, <2>1
      <3>2. status[s] = "running" /\ computed'[s] = computed[s]
        BY <1>5, <1>8, <2>1, <3>1
      <3> QED BY <2>1, <3>2 DEF IInv, Computes
    <2> QED BY <1>6, <2>1 DEF Computes
  <1>19. Waits'
    BY <1>1, <1>5, <1>6 DEF IInv, Waits
  <1> QED BY <1>6, <1>11, <1>12, <1>14, <1>15, <1>16, <1>18, <1>19 DEF IInv

(* The order of the priority queue is total and strict. *)
LEMMA PrecedesFacts ==
    ASSUME NEW r \in Req, NEW s \in Req, NEW t \in Req
    PROVE  /\ Precedes(r, s) => ~Precedes(s, r)
           /\ r # s => Precedes(r, s) \/ Precedes(s, r)
           /\ Precedes(r, s) /\ Precedes(s, t) => Precedes(r, t)
  <1>1. \A q \in Req : Priority[q] \in Int /\ q \in Nat
    BY SchedulerAssumption DEF SchedulerAssumption
  <1> QED BY <1>1 DEF Precedes

(* What is put into the priority heap joins what is there. *)
LEMMA HeapInsertFacts ==
    ASSUME NEW q \in Seq(Req), NEW r \in Req, IsInjective(q), r \notin Range(q)
    PROVE  /\ HeapInsert(q, r) \in Seq(Req) /\ IsInjective(HeapInsert(q, r))
           /\ Range(HeapInsert(q, r)) = Range(q) \cup {r}
  <1> DEFINE A == {s \in Req : Precedes(s, r)}
             B == {s \in Req : Precedes(r, s)}
             a == Keep(q, A)
             b == Keep(q, B)
             c == a \o <<r>>
             o == <<r>>
  <1>1. /\ a \in Seq(Req) /\ Range(a) = Range(q) \cap A /\ IsInjective(a)
        /\ b \in Seq(Req) /\ Range(b) = Range(q) \cap B /\ IsInjective(b)
    BY KeepFacts
  <1>2. o \in Seq(Req) /\ Range(o) = {r} /\ IsInjective(o)
    BY DEF Range, IsInjective
  <1>3. Range(q) \subseteq Req
    BY RangeFacts
  <1>4. A \cap B = {} /\ r \notin A /\ r \notin B /\ Range(q) \subseteq A \cup B
    BY <1>3, PrecedesFacts
  <1> HIDE DEF o, a, b, A, B
  <1>5. a \o o \in Seq(Req) /\ Range(a \o o) = Range(a) \cup {r} /\ IsInjective(a \o o)
    BY <1>1, <1>2, <1>4, ConcatFacts
  <1> DEFINE d == a \o o
  <1>6. d \in Seq(Req) /\ Range(d) = Range(a) \cup {r} /\ IsInjective(d)
    BY <1>5
  <1> HIDE DEF d
  <1>7. /\ d \o b \in Seq(Req) /\ Range(d \o b) = Range(d) \cup Range(b)
        /\ IsInjective(d \o b)
    BY <1>1, <1>4, <1>6, ConcatFacts
  <1>8. HeapInsert(q, r) = d \o b
    BY DEF HeapInsert, d, a, b, o, A, B
  <1>9. Range(d) \cup Range(b) = Range(q) \cup {r}
    BY <1>1, <1>4, <1>6
  <1> QED BY <1>7, <1>8, <1>9

(* Whom the running loop preempts is one that runs: under FCFS the last    *)
(* one, which the step has not reached.                                    *)
LEMMA VictimFacts ==
    ASSUME IInv, pc = "fit"
    PROVE  \E p \in 1 .. Len(running) :
               /\ running[p] = Victim
               /\ ~PriorityPolicy => p = Len(running) /\ num_scheduled_tokens[Victim] = 0
  <1>1. running \in Seq(Req) /\ IsInjective(running) /\ req_index \in Nat \ {0}
    BY DEF IInv, Types, Queues, Lists
  <1>2. PICK i \in DOMAIN running : i <= req_index /\ running[i] = fitting[1]
    BY DEF IInv, Fitting
  <1>3. Len(running) \in Nat \ {0} /\ DOMAIN running = 1 .. Len(running)
    BY <1>1, <1>2
  <1>4. CASE ~PriorityPolicy
    <2> DEFINE l == Len(running)
    <2>1. l \in 1 .. l /\ running[l] = Victim
      BY <1>3, <1>4 DEF Victim
    <2>2. l >= req_index
      BY <1>1, <1>3, <1>4 DEF IInv, Fitting
    <2>3. num_scheduled_tokens[running[l]] = 0
      BY <1>3, <2>1, <2>2 DEF IInv, Schedules
    <2> QED BY <1>4, <2>1, <2>3
  <1>5. CASE PriorityPolicy
    <2> DEFINE R == Range(running)
               After(v) == {s \in R : Precedes(v, s)}
    <2>1. R \subseteq Req /\ R # {} /\ IsFiniteSet(R)
      BY <1>1, <1>2, RangeFacts, ConstantFacts, FS_Subset, InjectiveLen DEF Range
    <2>2. \A v \in R : IsFiniteSet(After(v)) /\ Cardinality(After(v)) \in Nat
      BY <2>1, FS_Subset, FS_CardinalityType
    <2> DEFINE C == {Cardinality(After(v)) : v \in R}
    <2> HIDE DEF R
    <2>3. C \subseteq Nat /\ C # {}
      BY <2>1, <2>2
    <2>4. PICK m \in C : \A x \in C : m <= x
      <3> HIDE DEF C
      <3> QED BY <2>3, LeastNatural
    <2>5. PICK v \in R : m = Cardinality(After(v))
      BY <2>4
    <2>6. ASSUME NEW s \in R PROVE v = s \/ Precedes(s, v)
      <3> SUFFICES ASSUME v # s, ~Precedes(s, v) PROVE FALSE
        OBVIOUS
      <3>1. Precedes(v, s)
        BY <2>1, PrecedesFacts
      <3>2. After(s) \subseteq After(v) /\ s \in After(v) /\ s \notin After(s)
        BY <2>1, <3>1, PrecedesFacts
      <3>3. /\ Cardinality(After(s)) <= Cardinality(After(v))
            /\ Cardinality(After(s)) = Cardinality(After(v)) => After(s) = After(v)
        <4> HIDE DEF After
        <4> QED BY <2>2, <3>2, FS_Subset
      <3>4. Cardinality(After(s)) \in C
        OBVIOUS
      <3>5. Cardinality(After(v)) <= Cardinality(After(s))
        BY <2>4, <2>5, <3>4
      <3> HIDE DEF After
      <3> QED BY <2>2, <3>2, <3>3, <3>5
    <2>7. Victim \in R
      BY <1>5, <2>6 DEF Victim, R
    <2> QED BY <1>1, <1>5, <2>7, RangeFacts DEF R
  <1> QED BY <1>4, <1>5

(* A preemption. *)
LEMMA PreemptRunningKeeps ==
    ASSUME IInv, PreemptRunning
    PROVE  IInv'
  <1>0. PICK v, f, n : v = Victim /\ f = fitting[1] /\ n = fitting[2]
    OBVIOUS
  <1>1. /\ pc = "fit" /\ pc' = (IF v = f THEN "assemble" ELSE "fit")
        /\ fitting' = (IF v = f THEN << >> ELSE fitting)
        /\ running' = Keep(running, Req \ {v})
        /\ kv' = free(kv, v)
        /\ status' = [status EXCEPT ![v] = "preempted"]
        /\ computed' = [computed EXCEPT ![v] = 0]
        /\ waiting' = queue_prepend_request(waiting, v)
        /\ preempted' = TRUE /\ UndoScheduled(v)
        /\ UNCHANGED <<output, placeholders, uses, finished_req_ids, deferred, batch_queue,
                       todo, in_batch>>
    BY <1>0 DEF PreemptRunning, batch
  <1>2. pc' \in {"fit", "assemble"}
    BY <1>1
  <1>3. PICK p \in 1 .. Len(running) :
            /\ running[p] = v
            /\ ~PriorityPolicy => p = Len(running) /\ num_scheduled_tokens[v] = 0
    BY <1>0, <1>1, VictimFacts
  <1>4. /\ running \in Seq(Req) /\ IsInjective(running) /\ Len(running) <= MaxNumRunningReqs
        /\ Len(running) \in Nat /\ DOMAIN running = 1 .. Len(running)
        /\ waiting \in Seq(Req) /\ IsInjective(waiting)
        /\ token_budget \in Nat /\ req_index \in Nat \ {0}
    BY DEF IInv, Types, Queues, Lists
  <1>5. v \in Range(running) /\ v \in Req /\ status[v] = "running" /\ v \notin Range(waiting)
    <2>1. v \in Range(running)
      BY <1>3, <1>4, RangeFacts
    <2>2. v \in Req /\ status[v] = "running"
      BY <1>1, <2>1, RunningFacts DEF Scheduling
    <2> QED BY <1>1, <2>1, <2>2 DEF IInv, Queues, Lists, Updating
  <1>6. /\ status' \in [Req -> {"unknown", "waiting", "running", "preempted", "finished"}]
        /\ status'[v] = "preempted" /\ \A s \in Req : s # v => status'[s] = status[s]
        /\ computed' \in [Req -> Nat]
        /\ computed'[v] = 0 /\ \A s \in Req : s # v => computed'[s] = computed[s]
    <2>1. /\ status \in [Req -> {"unknown", "waiting", "running", "preempted", "finished"}]
          /\ computed \in [Req -> Nat]
      BY DEF IInv, Types
    <2> QED BY <1>1, <1>5, <2>1
  <1>7. /\ Frames' /\ Placeholders' /\ Limits' /\ OneAtATime' /\ Lengths'
        /\ First' = First /\ Second' = Second /\ Known' = Known
        /\ \A s : NumTokens(s)' = NumTokens(s) /\ TokensOut(s)' = TokensOut(s)
    <2>1. \A s \in Req : Unfinished(s)' => Unfinished(s)
      BY <1>5, <1>6 DEF Unfinished
    <2> QED BY <1>1, <1>2, <2>1, SchedulingKeeps DEF Scheduling
  <1>8. /\ num_scheduled_tokens' \in [Req -> Nat] /\ num_scheduled_tokens'[v] = 0
        /\ \A s \in Req : s # v => num_scheduled_tokens'[s] = num_scheduled_tokens[s]
        /\ token_budget' \in Nat /\ token_budget' >= token_budget
        /\ req_index' \in {req_index, req_index - 1}
        /\ req_index' = req_index - 1 <=> num_scheduled_tokens[v] # 0
        /\ ~PriorityPolicy => req_index' = req_index
    <2>1. num_scheduled_tokens \in [Req -> Nat]
      BY DEF IInv, Types
    <2>2. CASE num_scheduled_tokens[v] = 0
      <3>1. UNCHANGED <<token_budget, num_scheduled_tokens, req_index>>
        BY <1>1, <2>2 DEF UndoScheduled
      <3> QED BY <1>4, <2>1, <2>2, <3>1
    <2>3. CASE num_scheduled_tokens[v] # 0
      <3>1. /\ token_budget' = token_budget + num_scheduled_tokens[v]
            /\ num_scheduled_tokens' = [num_scheduled_tokens EXCEPT ![v] = 0]
            /\ req_index' = req_index - 1
            /\ PriorityPolicy
        BY <1>1, <1>3, <2>3 DEF UndoScheduled
      <3> QED BY <1>4, <1>5, <2>1, <2>3, <3>1
    <2> QED BY <2>2, <2>3
  <1>9. num_scheduled_tokens[v] # 0 => p < req_index
    <2>1. \A i \in DOMAIN running : i >= req_index => num_scheduled_tokens[running[i]] = 0
      BY <1>1 DEF IInv, Schedules
    <2>2. p \in 1 .. Len(running) /\ running[p] = v
      BY <1>3
    <2>3. p \in Nat /\ req_index \in Nat /\ DOMAIN running = 1 .. Len(running)
      BY <1>4
    <2> QED BY <2>1, <2>2, <2>3
  <1>10. req_index' \in Nat \ {0}
    BY <1>4, <1>8, <1>9
  <1>11. /\ running' \in Seq(Req) /\ IsInjective(running') /\ Range(running') = Range(running) \ {v}
         /\ Len(running') \in Nat /\ Len(running') <= Len(running)
         /\ \A j \in 1 .. Len(running') :
               \E i \in 1 .. Len(running) : i >= j /\ (j >= p => i > j) /\ running[i] = running'[j]
         /\ \A i \in 1 .. Len(running) : i # p =>
               \E j \in 1 .. Len(running') :
                  j <= i /\ (i > p => j < i) /\ (i < p => j = i) /\ running'[j] = running[i]
    <2>1. running' = Keep(running, Req \ {running[p]})
      BY <1>1, <1>3
    <2>2. Without(Req, running, p, running')
      BY <1>3, <1>4, <2>1, KeepWithout
    <2> QED BY <1>3, <2>2 DEF Without
  <1>12. /\ waiting' \in Seq(Req) /\ IsInjective(waiting') /\ Range(waiting') = Range(waiting) \cup {v}
    <2>1. CASE PriorityPolicy
      <3>1. waiting' = HeapInsert(waiting, v)
        BY <1>1, <2>1 DEF queue_prepend_request
      <3> QED BY <1>4, <1>5, <3>1, HeapInsertFacts
    <2>2. CASE ~PriorityPolicy
      <3>1. waiting' = <<v>> \o waiting
        BY <1>1, <2>2 DEF queue_prepend_request
      <3> QED BY <1>4, <1>5, <3>1, PrependFacts
    <2> QED BY <2>1, <2>2
  <1>13. Types'
    BY <1>1, <1>2, <1>6, <1>8, <1>10, <1>11, <1>12 DEF IInv, Types, Scheduling
  <1>14. Queues'
    <2>0. Range(running) \subseteq Req
      BY <1>4, RangeFacts
    <2>1. Lists(running, {"running"})'
      BY <1>1, <1>2, <1>6, <1>11, <2>0 DEF IInv, Queues, Lists, Updating
    <2>2. Lists(waiting, {"waiting", "preempted"})'
      BY <1>1, <1>2, <1>5, <1>6, <1>12 DEF IInv, Queues, Lists, Updating
    <2> QED BY <1>4, <1>11, <2>1, <2>2, ConstantFacts DEF Queues
  <1>15. \A s \in Req : s # v => Reach(s)' = Reach(s)
    BY <1>1, <1>2, <1>6, <1>8 DEF Reach, Pending, Executing
  <1>16. Tabled'
    <2>1. /\ Consistent(kv', Known) /\ kv'.fault = kv.fault
          /\ kv'.req_to_blocks = [kv.req_to_blocks EXCEPT ![v] = << >>]
      BY <1>1, <1>5, FreeKeeps DEF IInv, Tabled
    <2>2. /\ kv'.req_to_blocks[v] = << >>
          /\ \A s \in Req : s # v => kv'.req_to_blocks[s] = kv.req_to_blocks[s]
      <3>1. kv.req_to_blocks \in [Req -> Seq(Blocks)]
        BY ManagerFields DEF IInv, Tabled
      <3> QED BY <1>5, <2>1, <3>1
    <2>3. \A s \in Owners(kv') : status'[s] = "running"
      BY <1>1, <1>6, <2>2 DEF Owners, IInv, Tabled
    <2>4. ASSUME NEW s \in Req, status'[s] = "running"
          PROVE  /\ Reach(s)' > 0 /\ Reach(s)' <= Len(kv'.req_to_blocks[s]) * BlockSize
                 /\ Reach(s)' <= NumTokens(s) + placeholders[s] /\ Reach(s)' < MaxModelLen
      <3>1. s # v /\ status[s] = "running"
        BY <1>6, <2>4
      <3> QED BY <1>15, <2>2, <3>1 DEF IInv, Tabled
    <2> QED BY <1>1, <1>7, <2>1, <2>3, <2>4 DEF Tabled, IInv
  <1>17. Schedules'
    <2>1. \A s \in Scheduled' : status'[s] = "running"
      BY <1>6, <1>8 DEF IInv, Schedules, Scheduled
    <2>2. ASSUME NEW j \in DOMAIN running', j >= req_index'
          PROVE  num_scheduled_tokens'[running'[j]] = 0
      <3>1. j \in 1 .. Len(running') /\ j \in Nat
        BY <1>11
      <3>2. PICK i \in 1 .. Len(running) : i >= j /\ (j >= p => i > j) /\ running[i] = running'[j]
        BY <1>11, <3>1
      <3>3. i >= req_index
        BY <1>4, <1>8, <1>9, <2>2, <3>1, <3>2
      <3>4. num_scheduled_tokens[running[i]] = 0
        BY <1>1, <1>4, <3>3 DEF IInv, Schedules
      <3>5. running[i] \in Req
        BY <1>4
      <3> QED BY <1>8, <3>2, <3>4, <3>5
    <2>3. \A s \in Scheduled' : ~ReachesMaxTokens(s)'
      BY <1>1, <1>6, <1>8 DEF IInv, Schedules, Scheduled, Scheduling, ReachesMaxTokens
    <2> QED BY <1>1, <1>2, <2>1, <2>2, <2>3 DEF Schedules, Scheduling
  <1>18. Fitting'
    <2>1. CASE v = f
      BY <1>1, <2>1 DEF Fitting
    <2>2. CASE v # f
      <3>1. /\ fitting \in Req \X (Nat \ {0})
            /\ f \in Range(running) /\ num_scheduled_tokens[f] = 0
            /\ n <= token_budget
            /\ computed[f] + n <= NumTokens(f) + placeholders[f]
            /\ computed[f] + n < MaxModelLen
            /\ ~ReachesMaxTokens(f)
            /\ \E i \in DOMAIN running : i <= req_index /\ running[i] = f
            /\ ~PriorityPolicy => req_index \in DOMAIN running /\ running[req_index] = f
        BY <1>0, <1>1 DEF IInv, Fitting
      <3>2. f \in Req /\ n \in Nat
        BY <1>0, <3>1
      <3>3. pc' = "fit" /\ fitting' = fitting /\ f \in Range(running')
        BY <1>1, <1>11, <2>2, <3>1
      <3>4. num_scheduled_tokens'[f] = 0 /\ computed'[f] = computed[f]
        BY <1>6, <1>8, <2>2, <3>1, <3>2
      <3>5. n <= token_budget'
        BY <1>4, <1>8, <3>1, <3>2
      <3>6. ~ReachesMaxTokens(f)'
        BY <1>1, <3>1, <3>4 DEF ReachesMaxTokens
      <3>7. PICK i \in 1 .. Len(running) : i <= req_index /\ running[i] = f
        BY <1>4, <3>1
      <3>8. i # p
        BY <1>3, <2>2, <3>7
      <3>9. PICK j \in 1 .. Len(running') :
                j <= i /\ (i > p => j < i) /\ (i < p => j = i) /\ running'[j] = running[i]
        BY <1>11, <3>8
      <3>10. j <= req_index' /\ running'[j] = f /\ j \in DOMAIN running'
        <4>1. running'[j] = f /\ j \in DOMAIN running' /\ j \in Nat /\ i \in Nat /\ p \in Nat
          BY <1>11, <3>7, <3>9
        <4>2. CASE num_scheduled_tokens[v] = 0
          BY <1>4, <1>8, <3>7, <3>9, <4>1, <4>2
        <4>3. CASE num_scheduled_tokens[v] # 0
          <5>1. req_index' = req_index - 1 /\ p < req_index
            BY <1>8, <1>9, <4>3
          <5>2. i > p => j < i
            BY <3>9
          <5>3. i < p => j = i
            BY <3>9
          <5>4. i # p /\ i <= req_index /\ req_index \in Nat
            BY <1>4, <3>7, <3>8
          <5> QED BY <4>1, <5>1, <5>2, <5>3, <5>4
        <4> QED BY <4>1, <4>2, <4>3
      <3>11. ~PriorityPolicy => req_index' \in DOMAIN running' /\ running'[req_index'] = f
        <4> SUFFICES ASSUME ~PriorityPolicy
                     PROVE  req_index' \in DOMAIN running' /\ running'[req_index'] = f
          OBVIOUS
        <4>1. i = req_index
          BY <1>4, <3>1, <3>7 DEF IsInjective
        <4>2. i < p
          BY <1>3, <1>4, <3>7, <3>8
        <4> QED BY <1>8, <3>7, <3>9, <3>10, <4>1, <4>2
      <3>12. fitting'[1] = f /\ fitting'[2] = n /\ fitting' \in Req \X (Nat \ {0})
        BY <1>0, <3>1, <3>3
      <3>13. \E i0 \in DOMAIN running' : i0 <= req_index' /\ running'[i0] = f
        BY <3>10
      <3>14. computed'[f] + n <= NumTokens(f)' + placeholders'[f] /\ computed'[f] + n < MaxModelLen
        BY <1>1, <1>7, <3>1, <3>4
      <3> QED BY <3>3, <3>4, <3>5, <3>6, <3>11, <3>12, <3>13, <3>14 DEF Fitting
    <2> QED BY <2>1, <2>2
  <1>19. Computes'
    <2>1. ASSUME NEW s \in Req, status'[s] = "running", TokensOut(s) > 0
          PROVE  computed'[s] + 1 >= NumTokens(s) + TokensOut(s)
      <3>1. s # v /\ status[s] = "running" /\ computed'[s] = computed[s]
        BY <1>6, <2>1
      <3> QED BY <2>1, <3>1 DEF IInv, Computes
    <2> QED BY <1>7, <2>1 DEF Computes
  <1>20. Waits'
    <2>1. Second = NoBatch
      <3>1. Len(batch_queue) \in 0 .. 1
        BY <1>1, QueueLengths DEF IInv, Scheduling
      <3>2. deferred = NoBatch
        BY <1>1 DEF IInv, Frames, Updating
      <3> QED BY <1>1, <3>1, <3>2 DEF Second, Executing
    <2> QED BY <1>1, <1>7, <2>1, NoBatchFacts DEF Waits
  <1> QED BY <1>7, <1>13, <1>14, <1>16, <1>17, <1>18, <1>19, <1>20 DEF IInv

----------------------------------------------------------------------------
(* The steps that execute a batch keep the invariant. *)

(* Before the batch is executed nothing is deferred, and the tokens the    *)
(* runner holds are those of the one batch in the queue.                   *)
LEMMA OneInFlight ==
    ASSUME IInv, pc \in {"assemble"} \cup Executing
    PROVE  /\ Len(batch_queue) \in 0 .. 1 /\ deferred = NoBatch
           /\ (~Async => batch_queue = << >>)
           /\ (batch_queue = << >> => First = NoBatch)
           /\ (batch_queue # << >> => First = BatchOf(oldest) /\ Len(batch_queue) = 1)
           /\ \A r \in Req : /\ Len(device_toks(r)) = NumTokens(r) + Sampled(First, r)
                             /\ Sampled(First, r) = 1 <=> FramesOf(r) # {}
                             /\ Sampled(First, r) \in 0 .. 1 /\ Claims(First, r) \in 0 .. 1
                             /\ NumTokens(r) \in Nat /\ Sampled(First, r) <= Claims(First, r)
  <1> USE DEF Executing, Scheduling, Updating
  <1>1. /\ Len(batch_queue) \in 0 .. 1 /\ (batch_queue = << >> <=> Len(batch_queue) = 0)
        /\ (~Async => batch_queue = << >>)
    BY QueueLengths DEF IInv
  <1>2. deferred = NoBatch
    BY DEF IInv, Frames
  <1>3. /\ (batch_queue = << >> => First = NoBatch)
        /\ (batch_queue # << >> => First = BatchOf(oldest))
    BY DEF First
  <1>4. ASSUME NEW r \in Req
        PROVE  /\ Len(device_toks(r)) = NumTokens(r) + Sampled(First, r)
               /\ Sampled(First, r) = 1 <=> FramesOf(r) # {}
               /\ Sampled(First, r) \in 0 .. 1 /\ Claims(First, r) \in 0 .. 1
               /\ NumTokens(r) \in Nat /\ Sampled(First, r) <= Claims(First, r)
    <2>1. /\ FramesOf(r) = {i \in DOMAIN batch_queue : r \in DOMAIN batch_queue[i].token}
          /\ Cardinality(FramesOf(r)) = (IF 1 \in FramesOf(r) THEN 1 ELSE 0)
                                         + (IF 2 \in FramesOf(r) THEN 1 ELSE 0)
          /\ Len(device_toks(r)) = NumTokens(r) + Cardinality(FramesOf(r))
      BY InFlightFacts DEF IInv
    <2>2. DOMAIN batch_queue = 1 .. Len(batch_queue)
      BY DEF IInv, Frames
    <2>3. FramesOf(r) \subseteq {1}
      BY <1>1, <2>1, <2>2
    <2>4. 1 \in FramesOf(r) <=> r \in First.sampled
      <3>1. CASE batch_queue = << >>
        BY <1>1, <1>3, <2>1, <2>2, <3>1, NoBatchFacts
      <3>2. CASE batch_queue # << >>
        <4>1. 1 \in DOMAIN batch_queue
          BY <1>1, <2>2, <3>2
        <4> QED BY <1>3, <2>1, <3>2, <4>1 DEF BatchOf, Batch, oldest
      <3> QED BY <3>1, <3>2
    <2>5. Cardinality(FramesOf(r)) = Sampled(First, r)
      BY <2>1, <2>3, <2>4 DEF Sampled
    <2>6. Sampled(First, r) \in 0 .. 1 /\ Claims(First, r) \in 0 .. 1
      BY DEF Sampled, Claims
    <2>7. Sampled(First, r) <= Claims(First, r)
      BY BatchFacts DEF Sampled, Claims, IInv
    <2>8. NumTokens(r) \in Nat
      BY TokenFacts DEF IInv, Types
    <2>9. Sampled(First, r) = 1 <=> FramesOf(r) # {}
      BY <2>3, <2>4 DEF Sampled
    <2> QED BY <2>1, <2>5, <2>6, <2>7, <2>8, <2>9
  <1> QED BY <1>1, <1>2, <1>3, <1>4

(* The scheduler counts a placeholder for the requests that the runner is  *)
(* to sample for: they have all their tokens computed, those in flight     *)
(* included.                                                               *)
LEMMA FinishScheduleKeeps ==
    ASSUME IInv, FinishSchedule
    PROVE  IInv'
  <1>1. /\ pc = "assemble"
        /\ computed' = [r \in Req |-> computed[r] + num_scheduled_tokens[r]]
        /\ placeholders' = [r \in Req |->
               IF Async /\ r \in Scheduled /\ ~is_prefill_chunk(r)
               THEN placeholders[r] + 1 ELSE placeholders[r]]
        /\ finished_req_ids' = {}
        /\ pc' = (IF Async /\ PendingStructured THEN "execute_only" ELSE "execute")
        /\ UNCHANGED <<kv, status, output, uses, running, waiting, req_index, fitting, token_budget,
                       num_scheduled_tokens, preempted, deferred, batch_queue, todo, in_batch>>
    BY DEF FinishSchedule, sched, batch
  <1>2. pc' \in Executing
    BY <1>1 DEF Executing
  <1>3. /\ Len(batch_queue) \in 0 .. 1 /\ deferred = NoBatch
        /\ (~Async => batch_queue = << >>)
        /\ (batch_queue = << >> => First = NoBatch)
        /\ (batch_queue # << >> => First = BatchOf(oldest) /\ Len(batch_queue) = 1)
    BY <1>1, OneInFlight
  <1>4. /\ computed \in [Req -> Nat] /\ num_scheduled_tokens \in [Req -> Nat]
        /\ placeholders \in [Req -> Nat]
    BY DEF IInv, Types
  <1>5. ASSUME NEW r \in Req
        PROVE  /\ computed[r] \in Nat /\ num_scheduled_tokens[r] \in Nat /\ placeholders[r] \in Nat
               /\ computed'[r] = computed[r] + num_scheduled_tokens[r]
               /\ placeholders'[r] = IF Async /\ r \in Scheduled /\ ~is_prefill_chunk(r)
                                     THEN placeholders[r] + 1 ELSE placeholders[r]
               /\ Len(device_toks(r)) = NumTokens(r) + Sampled(First, r)
               /\ Sampled(First, r) \in 0 .. 1 /\ Claims(First, r) \in 0 .. 1
               /\ NumTokens(r) \in Nat /\ Sampled(First, r) <= Claims(First, r)
    BY <1>1, <1>4, OneInFlight
  <1>6. First' = First
    BY <1>1, <1>2 DEF First, oldest, Updating, Executing
  <1>7. Second = NoBatch
    BY <1>1, <1>3 DEF Second, Executing
  <1>8. Second' = Batch(Scheduled, Rows, SampledRows')
    <2>1. Scheduled' = Scheduled /\ Rows' = Rows
      BY <1>1 DEF Scheduled, Rows, NewReqs
    <2> QED BY <1>1, <1>2, <1>3, <2>1 DEF Second
  <1>9. ASSUME NEW r \in Req
        PROVE  r \in SampledRows' <=>
                 r \in Rows /\ computed[r] + num_scheduled_tokens[r] >= NumTokens(r) + Sampled(First, r)
    <2>1. Rows' = Rows
      BY <1>1 DEF Rows, NewReqs, Scheduled
    <2>2. device_toks(r)' = device_toks(r)
      BY <1>1 DEF device_toks, all_token_ids, InFlight, FramesOf
    <2> QED BY <1>5, <2>1, <2>2 DEF SampledRows
  <1>10. Rows \subseteq Scheduled /\ Scheduled \subseteq Req
    BY DEF Rows, NewReqs, Scheduled
  <1>11. \A r : NumTokens(r)' = NumTokens(r)
    BY <1>1 DEF NumTokens
  <1>12. ASSUME NEW r \in Req
         PROVE  /\ TokensOut(r) = Sampled(First, r)
                /\ TokensOut(r)' = Sampled(First, r) + (IF r \in SampledRows' THEN 1 ELSE 0)
                /\ Claims(First, r)' + Claims(Second, r)' = Claims(First, r)
                      + (IF r \in Scheduled /\ (r \in SampledRows' \/ r \notin Rows) THEN 1 ELSE 0)
    BY <1>5, <1>6, <1>7, <1>8, NoBatchFacts DEF TokensOut, Sampled, Claims, Batch
  <1>13. ASSUME NEW r \in Req, Unfinished(r), Async
         PROVE  Sampled(First, r) <= placeholders[r] /\ placeholders[r] <= Claims(First, r)
    BY <1>5, <1>7, <1>12, <1>13, NoBatchFacts DEF IInv, Placeholders
  <1>14. Types'
    <2>1. computed' \in [Req -> Nat] /\ placeholders' \in [Req -> Nat]
      BY <1>1, <1>4
    <2> QED BY <1>1, <1>2, <2>1 DEF IInv, Types
  <1>15. Lengths'
    BY <1>1, <1>11 DEF IInv, Lengths, Unfinished
  <1>16. Queues' /\ Fitting'
    BY <1>1, <1>2 DEF IInv, Queues, Lists, Fitting, Updating, Executing
  <1>17. Tabled'
    <2>1. Known' = Known
      BY <1>1 DEF Known, all_token_ids
    <2>2. ASSUME NEW r \in Req PROVE Reach(r)' = Reach(r)
      BY <1>1, <1>2, <1>5 DEF Reach, Pending, Executing
    <2>3. ASSUME NEW r \in Req, status[r] = "running"
          PROVE  /\ Reach(r) > 0 /\ Reach(r) <= Len(kv.req_to_blocks[r]) * BlockSize
                 /\ Reach(r) <= NumTokens(r) + placeholders'[r] /\ Reach(r) < MaxModelLen
      <3>1. /\ Reach(r) > 0 /\ Reach(r) <= Len(kv.req_to_blocks[r]) * BlockSize
            /\ Reach(r) <= NumTokens(r) + placeholders[r] /\ Reach(r) < MaxModelLen
        BY <2>3 DEF IInv, Tabled
      <3>2. Reach(r) = computed[r] + num_scheduled_tokens[r]
        BY <1>1 DEF Reach, Pending, Executing
      <3> QED BY <1>5, <3>1, <3>2
    <2> QED BY <1>1, <1>2, <1>11, <2>1, <2>2, <2>3 DEF IInv, Tabled, Owners, Executing
  <1>18. Schedules'
    BY <1>1, <1>2 DEF IInv, Schedules, Scheduled, Executing, Scheduling
  <1>19. Frames'
    <2>1. pc' = "execute_only" => Async /\ Len(batch_queue) = 1
      <3> SUFFICES ASSUME pc' = "execute_only" PROVE Async /\ Len(batch_queue) = 1
        OBVIOUS
      <3>1. Async /\ PendingStructured
        BY <1>1
      <3>2. PICK r \in Scheduled \cap Structured : placeholders[r] > 0
        BY <3>1 DEF PendingStructured
      <3>3. r \in Req /\ Unfinished(r)
        BY <3>2 DEF IInv, Schedules, Scheduled, Unfinished
      <3>4. Claims(First, r) > 0
        BY <1>5, <1>13, <3>1, <3>2, <3>3
      <3> QED BY <1>3, <3>1, <3>4, NoBatchFacts
    <2> QED BY <1>1, <1>2, <1>3, <2>1 DEF IInv, Frames, oldest, Executing, Updating, Scheduling
  <1>20. Placeholders'
    <2>1. CASE ~Async
      BY <1>1, <1>5, <2>1 DEF IInv, Placeholders
    <2>2. ASSUME Async, NEW r \in Req, Unfinished(r)
          PROVE  /\ TokensOut(r)' <= placeholders'[r]
                 /\ placeholders'[r] <= Claims(First, r)' + Claims(Second, r)'
      <3>1. is_prefill_chunk(r) <=>
              computed[r] + num_scheduled_tokens[r] < NumTokens(r) + placeholders[r]
        BY DEF is_prefill_chunk
      <3>2. Sampled(First, r) <= placeholders[r] /\ placeholders[r] <= Claims(First, r)
        BY <1>13, <2>2
      <3> DEFINE a == computed[r] + num_scheduled_tokens[r]
                 m == Sampled(First, r)
                 e == NumTokens(r)
      <3>3. a \in Nat /\ m \in Nat /\ e \in Nat /\ placeholders[r] \in Nat /\ Claims(First, r) \in Nat
        BY <1>5
      <3>4. r \in SampledRows' <=> r \in Rows /\ a >= e + m
        BY <1>9
      <3>5. placeholders'[r] = IF r \in Scheduled /\ ~(a < e + placeholders[r])
                               THEN placeholders[r] + 1 ELSE placeholders[r]
        BY <1>5, <2>2, <3>1
      <3>6. /\ TokensOut(r)' = m + (IF r \in SampledRows' THEN 1 ELSE 0)
            /\ Claims(First, r)' + Claims(Second, r)' = Claims(First, r)
                  + (IF r \in Scheduled /\ (r \in SampledRows' \/ r \notin Rows) THEN 1 ELSE 0)
        BY <1>12
      <3> HIDE DEF a, m, e
      <3>7. CASE r \in Scheduled /\ ~(a < e + placeholders[r])
        <4>1. placeholders'[r] = placeholders[r] + 1
          BY <3>5, <3>7
        <4>2. r \in SampledRows' \/ r \notin Rows
          BY <3>2, <3>3, <3>4, <3>7 DEF m
        <4>3. Claims(First, r)' + Claims(Second, r)' = Claims(First, r) + 1
          BY <3>6, <3>7, <4>2
        <4> QED BY <3>2, <3>3, <3>6, <4>1, <4>3 DEF m
      <3>8. CASE ~(r \in Scheduled /\ ~(a < e + placeholders[r]))
        <4>1. placeholders'[r] = placeholders[r]
          BY <3>5, <3>8
        <4>2. r \in SampledRows' => m + 1 <= placeholders[r]
          BY <1>10, <3>2, <3>3, <3>4, <3>8
        <4> QED BY <3>2, <3>3, <3>6, <4>1, <4>2 DEF m
      <3> QED BY <3>7, <3>8
    <2> QED BY <1>1, <2>1, <2>2 DEF Placeholders, Unfinished
  <1>21. Computes'
    <2>1. ASSUME NEW r \in Req, status[r] = "running", TokensOut(r)' > 0
          PROVE  computed'[r] + 1 >= NumTokens(r) + TokensOut(r)'
      <3>1. CASE r \in SampledRows'
        BY <1>5, <1>9, <1>12, <3>1
      <3>2. CASE r \notin SampledRows'
        <4>1. TokensOut(r)' = TokensOut(r) /\ TokensOut(r) > 0 /\ TokensOut(r) \in Nat
          BY <1>5, <1>12, <2>1, <3>2
        <4>2. computed[r] + 1 >= NumTokens(r) + TokensOut(r)
          BY <2>1, <4>1 DEF IInv, Computes
        <4> QED BY <1>5, <4>1, <4>2
      <3> QED BY <3>1, <3>2
    <2> QED BY <1>1, <1>11, <2>1 DEF Computes
  <1>22. Limits'
    <2>1. ASSUME NEW r \in Req, Unfinished(r)
          PROVE  /\ Len(output[r]) + TokensOut(r)' <= MaxTokens[r]
                 /\ NumTokens(r) + TokensOut(r)' <= MaxModelLen
      <3> DEFINE e == NumTokens(r)
                 o == Len(output[r])
                 p == Len(Prompt[r])
                 m == MaxTokens[r]
                 c == computed[r]
                 n == num_scheduled_tokens[r]
      <3>1. /\ o \in Nat /\ p \in Nat /\ m \in Nat /\ MaxModelLen \in Nat /\ e = p + o
            /\ c \in Nat /\ n \in Nat
        BY <1>5, TokenFacts, ConstantFacts DEF IInv, Types
      <3>2. CASE r \notin SampledRows'
        <4>1. TokensOut(r)' = TokensOut(r)
          BY <1>5, <1>12, <3>2
        <4>2. /\ Len(output[r]) + TokensOut(r) <= MaxTokens[r]
              /\ NumTokens(r) + TokensOut(r) <= MaxModelLen
          BY <2>1 DEF IInv, Limits
        <4> QED BY <4>1, <4>2
      <3>3. CASE r \in SampledRows' /\ Sampled(First, r) = 0
        <4>1. TokensOut(r)' = 1
          BY <1>12, <3>3
        <4>2. Len(output[r]) < MaxTokens[r] /\ NumTokens(r) < MaxModelLen
          BY <2>1 DEF IInv, Lengths
        <4> HIDE DEF e, o, p, m
        <4>3. o < m /\ e < MaxModelLen
          BY <4>2 DEF e, o, m
        <4>4. o + 1 <= m /\ e + 1 <= MaxModelLen
          BY <3>1, <4>3
        <4> QED BY <4>1, <4>4 DEF o, e, m
      <3>4. CASE r \in SampledRows' /\ Sampled(First, r) = 1
        <4>1. Async
          BY <1>3, <3>4, NoBatchFacts
        <4>2. placeholders[r] = 1
          BY <1>5, <1>13, <2>1, <3>4, <4>1
        <4>3. r \in Scheduled /\ computed[r] + num_scheduled_tokens[r] >= NumTokens(r) + 1
          BY <1>9, <1>10, <3>4
        <4>4. status[r] = "running" /\ ~ReachesMaxTokens(r)
          BY <1>1, <4>3 DEF IInv, Schedules, Scheduling
        <4>5. computed[r] + 1 >= NumTokens(r) + 1
          <5>1. TokensOut(r) = 1
            BY <1>12, <3>4
          <5> QED BY <4>4, <5>1 DEF IInv, Computes
        <4>6. computed[r] + 1 < Len(Prompt[r]) + MaxTokens[r]
          <5>1. ~(computed[r] + 2 - placeholders[r] >= Len(Prompt[r]) + MaxTokens[r])
            BY <4>2, <4>4 DEF ReachesMaxTokens
          <5> QED BY <1>5, <3>1, <4>2, <5>1
        <4>7. computed[r] + num_scheduled_tokens[r] < MaxModelLen
          <5>1. Reach(r) = computed[r] + num_scheduled_tokens[r]
            BY <1>1 DEF Reach, Pending, Executing
          <5> QED BY <4>4, <5>1 DEF IInv, Tabled
        <4>8. TokensOut(r)' = 2
          BY <1>12, <3>4
        <4> HIDE DEF e, o, p, m, c, n
        <4>9. c + n >= e + 1 /\ c + 1 >= e + 1 /\ c + 1 < p + m /\ c + n < MaxModelLen
          BY <4>3, <4>5, <4>6, <4>7 DEF c, n, e, p, m
        <4>10. o + 2 <= m /\ e + 2 <= MaxModelLen
          BY <3>1, <4>9
        <4> QED BY <4>8, <4>10 DEF o, e, m
      <3> QED BY <1>5, <3>2, <3>3, <3>4
    <2> QED BY <1>1, <1>11, <2>1 DEF Limits, Unfinished
  <1>23. Waits'
    <2>1. ASSUME NEW r \in Req, status[r] \in {"waiting", "preempted"} PROVE r \notin Scheduled
      BY <2>1 DEF IInv, Schedules
    <2> QED BY <1>1, <1>2, <1>8, <2>1 DEF Waits, Batch, Executing
  <1>24. OneAtATime'
    <2>1. ASSUME pc' = "execute", batch_queue # << >>, NEW r \in Structured, Unfinished(r),
                 r \in DOMAIN batch_queue[1].token, r \in SampledRows'
          PROVE  FALSE
      <3>1. r \in Req /\ Async /\ ~PendingStructured
        BY <1>1, <1>3, <2>1, ConstantFacts
      <3>2. r \in Scheduled /\ r \in Rows
        BY <1>9, <1>10, <2>1, <3>1
      <3>3. Sampled(First, r) = 1
        BY <1>3, <2>1 DEF Sampled, BatchOf, Batch, oldest
      <3>4. placeholders[r] = 1
        BY <1>5, <1>13, <2>1, <3>1, <3>3
      <3>5. is_prefill_chunk(r)
        BY <2>1, <3>1, <3>2, <3>4 DEF PendingStructured
      <3>6. computed[r] + num_scheduled_tokens[r] < NumTokens(r) + 1
        BY <3>4, <3>5 DEF is_prefill_chunk
      <3>7. computed[r] + num_scheduled_tokens[r] >= NumTokens(r) + 1
        BY <1>9, <2>1, <3>1, <3>3
      <3> QED BY <1>5, <3>1, <3>6, <3>7
    <2>2. Len(batch_queue) # 2
      BY <1>3
    <2> QED BY <1>1, <2>1, <2>2 DEF OneAtATime, Unfinished
  <1> QED BY <1>14, <1>15, <1>16, <1>17, <1>18, <1>19, <1>20, <1>21, <1>22, <1>23, <1>24 DEF IInv

(* The frame of an executed batch is the batch. *)
IsFrame(f, S, T, tok, V) ==
    /\ f \in FrameType /\ BatchOf(f) = Batch(S, T, V)
    /\ f.reqs = S /\ f.rows = T /\ f.token = tok
    /\ f.rows \subseteq f.reqs /\ DOMAIN f.token \subseteq f.rows
    /\ \A r \in f.reqs : uses[r] > 0 /\ f.use[r] = uses[r]

(* The parts of a batch that is put in flight. *)
LEMMA FrameFacts ==
    ASSUME NEW S \in SUBSET Req, NEW T \in SUBSET S, NEW V \in SUBSET T,
           NEW tok \in [V -> Token], uses \in [Req -> 0 .. 2], \A r \in S : uses[r] > 0
    PROVE  IsFrame(Frame(S, T, tok), S, T, tok, V)
  <1> DEFINE use == [r \in S |-> uses[r]]
             f == Frame(S, T, tok)
  <1>1. f = [reqs |-> S, rows |-> T, token |-> tok, use |-> use]
    BY DEF Frame
  <1>2. use \in [S -> Nat] /\ \A r \in S : use[r] = uses[r]
    OBVIOUS
  <1>3. use \in Partial(Nat) /\ tok \in Partial(Token) /\ DOMAIN tok = V
    <2>1. V \in SUBSET Req /\ S \in SUBSET Req
      OBVIOUS
    <2> HIDE DEF use
    <2> QED BY <1>2, <2>1 DEF Partial
  <1> HIDE DEF use, f
  <1>4. f \in FrameType
    BY <1>1, <1>3 DEF FrameType
  <1>5. BatchOf(f) = Batch(S, T, V)
    BY <1>1, <1>3 DEF BatchOf, Batch
  <1>6. /\ f.reqs = S /\ f.rows = T /\ f.token = tok
        /\ f.rows \subseteq f.reqs /\ DOMAIN f.token \subseteq f.rows
        /\ \A r \in f.reqs : uses[r] > 0 /\ f.use[r] = uses[r]
    BY <1>1, <1>2, <1>3
  <1> QED BY <1>4, <1>5, <1>6 DEF f, IsFrame

(* What is scheduled is running, so its id is in use. *)
LEMMA ScheduledFacts ==
    ASSUME IInv
    PROVE  /\ Scheduled \subseteq Req /\ Rows \subseteq Scheduled /\ SampledRows \subseteq Rows
           /\ \A r \in Scheduled : status[r] = "running" /\ uses[r] > 0
  <1>1. Scheduled \subseteq Req /\ Rows \subseteq Scheduled /\ SampledRows \subseteq Rows
    BY DEF Scheduled, Rows, NewReqs, SampledRows
  <1>2. \A r \in Scheduled : status[r] = "running"
    BY DEF IInv, Schedules
  <1> QED BY <1>1, <1>2 DEF IInv, Lengths, Unfinished

(* A step that moves a batch on, and nothing else, keeps what is said of   *)
(* the tokens in flight: they are the same in the two batches.             *)
LEMMA MovesKeep ==
    ASSUME IInv, UNCHANGED <<status, output, computed, placeholders>>,
           \A r \in Req : Unfinished(r) =>
               /\ TokensOut(r)' = TokensOut(r)
               /\ Claims(First, r)' + Claims(Second, r)' = Claims(First, r) + Claims(Second, r)
    PROVE  Placeholders' /\ Computes' /\ Limits'
  <1>1. \A r : Unfinished(r)' = Unfinished(r) /\ NumTokens(r)' = NumTokens(r)
    BY DEF Unfinished, NumTokens
  <1>2. Placeholders'
    <2>1. CASE ~Async
      BY <2>1 DEF IInv, Placeholders
    <2>2. CASE Async
      BY <1>1, <2>2 DEF IInv, Placeholders
    <2> QED BY <2>1, <2>2
  <1>3. Computes'
    <2>1. \A r \in Req : status[r] = "running" => Unfinished(r)
      BY DEF Unfinished
    <2> QED BY <1>1, <2>1 DEF IInv, Computes
  <1>4. Limits'
    BY <1>1 DEF IInv, Limits
  <1> QED BY <1>2, <1>3, <1>4

(* ... and when it does not touch the requests, their queues and the cache *)
(* either, all but what is said of the batches is kept.                    *)
LEMMA SameRequestsKeep ==
    ASSUME IInv, UNCHANGED <<kv, status, output, computed, placeholders, uses, running, waiting,
                             fitting>>,
           pc \notin {"fit", "stopped"}, pc' \notin {"fit", "stopped"},
           pc \in Updating => pc' \in Updating,
           \A r \in Req : Reach(r)' = Reach(r)
    PROVE  /\ Lengths' /\ Queues' /\ Tabled' /\ Fitting'
           /\ \A r : Unfinished(r)' = Unfinished(r)
  <1>1. \A r : Unfinished(r)' = Unfinished(r) /\ NumTokens(r)' = NumTokens(r)
    BY DEF Unfinished, NumTokens
  <1>2. Known' = Known
    BY DEF Known, all_token_ids
  <1>3. Lengths'
    BY <1>1 DEF IInv, Lengths
  <1>4. Queues'
    BY DEF IInv, Queues, Lists
  <1>5. Tabled'
    BY <1>1, <1>2, TabledKeeps DEF IInv
  <1>6. Fitting'
    BY DEF IInv, Fitting
  <1> QED BY <1>1, <1>3, <1>4, <1>5, <1>6

(* The batch executes and goes into the queue. *)
LEMMA ExecuteAndSampleKeeps ==
    ASSUME IInv, ExecuteAndSample
    PROVE  IInv'
  <1>0. PICK token \in [SampledRows -> Token] :
            batch_queue' = Append(batch_queue, Frame(Scheduled, Rows, token))
    BY DEF ExecuteAndSample
  <1>1. /\ pc = "execute"
        /\ pc' = (IF /\ Len(batch_queue) + 1 < BatchQueueSize
                     /\ Scheduled # {} \/ HasRequests
                  THEN "idle" ELSE "pop")
        /\ in_batch' = Rows
        /\ num_scheduled_tokens' = [r \in Req |-> 0]
        /\ token_budget' = 0 /\ req_index' = 1 /\ preempted' = FALSE
        /\ UNCHANGED <<kv, status, output, computed, placeholders, uses, running, waiting,
                       finished_req_ids, fitting, deferred, todo>>
    BY DEF ExecuteAndSample, EndSchedule, reqs, queues
  <1>2. pc' \in {"idle", "pop"} /\ (pc' = "idle" => Len(batch_queue) + 1 < BatchQueueSize)
    BY <1>1
  <1> DEFINE f == Frame(Scheduled, Rows, token)
  <1>3. /\ f \in FrameType /\ BatchOf(f) = Batch(Scheduled, Rows, SampledRows)
        /\ f.reqs = Scheduled /\ f.token = token
        /\ f.rows \subseteq f.reqs /\ DOMAIN f.token \subseteq f.rows
        /\ \A r \in f.reqs : uses[r] > 0 /\ f.use[r] = uses[r]
    <2>1. /\ Scheduled \in SUBSET Req /\ Rows \in SUBSET Scheduled /\ SampledRows \in SUBSET Rows
          /\ \A r \in Scheduled : uses[r] > 0
      BY ScheduledFacts
    <2>2. uses \in [Req -> 0 .. 2]
      BY DEF IInv, Types
    <2>3. IsFrame(f, Scheduled, Rows, token, SampledRows)
      BY <1>0, <2>1, <2>2, FrameFacts
    <2> HIDE DEF f
    <2>4. DOMAIN token = SampledRows
      BY <1>0
    <2> QED BY <2>1, <2>3, <2>4 DEF IsFrame
  <1> HIDE DEF f
  <1>4. /\ Len(batch_queue) \in 0 .. 1 /\ deferred = NoBatch
        /\ (~Async => batch_queue = << >>)
        /\ (batch_queue = << >> => First = NoBatch)
        /\ (batch_queue # << >> => First = BatchOf(oldest) /\ Len(batch_queue) = 1)
    BY <1>1, OneInFlight DEF Executing
  <1>5. Second = BatchOf(f)
    BY <1>1, <1>3, <1>4 DEF Second, Executing
  <1>6. /\ batch_queue \in Seq(FrameType) /\ batch_queue' = Append(batch_queue, f)
        /\ (batch_queue = << >> <=> Len(batch_queue) = 0)
    BY <1>0 DEF f, IInv, Frames
  <1>7. /\ batch_queue' \in Seq(FrameType) /\ Len(batch_queue') = Len(batch_queue) + 1
        /\ batch_queue' # << >> /\ DOMAIN batch_queue' = 1 .. Len(batch_queue) + 1
        /\ batch_queue'[Len(batch_queue) + 1] = f
        /\ \A i \in DOMAIN batch_queue : batch_queue'[i] = batch_queue[i]
    BY <1>3, <1>6
  <1>8. \/ batch_queue = << >> /\ First' = Second /\ Second' = First
        \/ Len(batch_queue) = 1 /\ First' = First /\ Second' = Second
    <2>1. First' = BatchOf(batch_queue'[1])
      BY <1>2, <1>7 DEF First, oldest, Updating
    <2>2. CASE batch_queue = << >>
      <3>1. Len(batch_queue') = 1 /\ batch_queue'[1] = f
        BY <1>6, <1>7, <2>2
      <3>2. Second' = NoBatch
        BY <1>1, <1>2, <1>4, <3>1 DEF Second, Executing
      <3> QED BY <1>4, <1>5, <2>1, <2>2, <3>1, <3>2
    <2>3. CASE batch_queue # << >>
      <3>1. Len(batch_queue) = 1 /\ 1 \in DOMAIN batch_queue
        BY <1>4, <1>6, <2>3
      <3>2. Len(batch_queue') = 2 /\ batch_queue'[1] = batch_queue[1] /\ batch_queue'[2] = f
        BY <1>7, <3>1
      <3>3. First' = First
        BY <1>4, <2>1, <2>3, <3>2 DEF oldest
      <3>4. Second' = BatchOf(f)
        BY <3>2 DEF Second
      <3> QED BY <1>5, <3>1, <3>3, <3>4
    <2> QED BY <2>2, <2>3
  <1>9. \A r \in Req : /\ TokensOut(r)' = TokensOut(r)
                       /\ Claims(First, r)' + Claims(Second, r)' = Claims(First, r) + Claims(Second, r)
    <2>1. \A b, r : /\ Sampled(b, r) \in Nat /\ Claims(b, r) \in Nat
      BY DEF Sampled, Claims
    <2> QED BY <1>8, <2>1 DEF TokensOut, Sampled, Claims
  <1>10. Placeholders' /\ Computes' /\ Limits'
    BY <1>1, <1>9, MovesKeep
  <1>11. \A r \in Req : Reach(r)' = Reach(r)
    <2>1. \A r \in Req : computed[r] + 0 = computed[r]
      BY DEF IInv, Types
    <2> QED BY <1>1, <1>2, <2>1 DEF Reach, Pending, Executing
  <1>12. /\ Lengths' /\ Queues' /\ Tabled' /\ Fitting'
         /\ \A r : Unfinished(r)' = Unfinished(r)
    BY <1>1, <1>2, <1>11, SameRequestsKeep DEF Updating
  <1>13. Types'
    <2>1. num_scheduled_tokens' \in [Req -> Nat]
      BY <1>1
    <2>2. in_batch' \subseteq Req
      BY <1>1, ScheduledFacts
    <2>3. req_index' \in Nat \ {0} /\ token_budget' \in Nat
      BY <1>1
    <2>4. preempted' \in BOOLEAN
      BY <1>1, Zenon
    <2> QED BY <1>1, <1>2, <2>1, <2>2, <2>3, <2>4 DEF IInv, Types
  <1>14. Schedules'
    BY <1>1, <1>2 DEF Schedules, Scheduled, Scheduling, Executing
  <1>15. Frames'
    <2>1. \A i \in DOMAIN batch_queue' : LET g == batch_queue'[i] IN
             /\ g.rows \subseteq g.reqs /\ DOMAIN g.token \subseteq g.rows
             /\ \A r \in g.reqs : uses[r] > 0 /\ g.use[r] = uses[r]
      <3> SUFFICES ASSUME NEW i \in DOMAIN batch_queue'
                   PROVE  LET g == batch_queue'[i] IN
                          /\ g.rows \subseteq g.reqs /\ DOMAIN g.token \subseteq g.rows
                          /\ \A r \in g.reqs : uses[r] > 0 /\ g.use[r] = uses[r]
        OBVIOUS
      <3>1. CASE i \in DOMAIN batch_queue
        <4>1. batch_queue'[i] = batch_queue[i]
          BY <1>7, <3>1
        <4> QED BY <3>1, <4>1 DEF IInv, Frames
      <3>2. CASE i \notin DOMAIN batch_queue
        <4>1. DOMAIN batch_queue = 1 .. Len(batch_queue) /\ Len(batch_queue) \in Nat
          BY <1>6
        <4>2. i = Len(batch_queue) + 1
          BY <1>7, <3>2, <4>1
        <4> QED BY <1>3, <1>7, <4>2
      <3> QED BY <3>1, <3>2
    <2>2. Len(batch_queue') <= BatchQueueSize /\ (pc' = "idle" => Len(batch_queue') < BatchQueueSize)
      <3>1. Len(batch_queue) < BatchQueueSize /\ BatchQueueSize \in Nat
        BY <1>1, ConstantFacts DEF IInv, Frames, Executing
      <3> QED BY <1>2, <1>4, <1>7, <3>1
    <2>3. todo = {} /\ NoBatch.reqs = {} /\ NoBatch.rows = {} /\ NoBatch.sampled = {}
          /\ NoBatch \in BatchType
      BY <1>1, NoBatchFacts DEF IInv, Frames, Updating
    <2> QED BY <1>1, <1>2, <1>4, <1>7, <2>1, <2>2, <2>3 DEF Frames, Scheduling, Executing, Updating
  <1>16. Waits'
    <2>1. ASSUME NEW r \in Req, status[r] \in {"waiting", "preempted"}
          PROVE  r \notin Second'.reqs /\ (pc' = "idle" => r \notin First'.reqs)
      <3>1. r \notin Second.reqs
        BY <2>1 DEF IInv, Waits
      <3>2. pc' = "idle" => batch_queue = << >>
        BY <1>2, <1>4, <1>6, ConstantFacts
      <3> QED BY <1>4, <1>6, <1>8, <3>1, <3>2, NoBatchFacts
    <2> QED BY <1>1, <1>2, <2>1 DEF Waits
  <1>17. OneAtATime'
    <2>1. ASSUME NEW r \in Structured, Unfinished(r), Len(batch_queue') = 2
          PROVE  r \notin DOMAIN batch_queue'[1].token \cap DOMAIN batch_queue'[2].token
      <3>1. Len(batch_queue) = 1 /\ batch_queue # << >> /\ 1 \in DOMAIN batch_queue
        BY <1>4, <1>6, <1>7, <2>1
      <3>2. batch_queue'[1] = batch_queue[1] /\ batch_queue'[2] = f
        BY <1>7, <3>1
      <3>3. r \notin DOMAIN batch_queue[1].token \cap SampledRows
        BY <1>1, <2>1, <3>1 DEF IInv, OneAtATime
      <3>4. DOMAIN f.token = SampledRows
        BY <1>3
      <3> QED BY <3>2, <3>3, <3>4
    <2> QED BY <1>2, <1>12, <2>1 DEF OneAtATime
  <1> QED BY <1>10, <1>12, <1>13, <1>14, <1>15, <1>16, <1>17 DEF IInv

(* ... or is held back until the batch before it is consumed. *)
LEMMA ExecuteOnlyKeeps ==
    ASSUME IInv, ExecuteOnly
    PROVE  IInv'
  <1>1. /\ pc = "execute_only" /\ pc' = "pop"
        /\ deferred' = Batch(Scheduled, Rows, SampledRows)
        /\ in_batch' = Rows
        /\ num_scheduled_tokens' = [r \in Req |-> 0]
        /\ token_budget' = 0 /\ req_index' = 1 /\ preempted' = FALSE
        /\ UNCHANGED <<kv, status, output, computed, placeholders, uses, running, waiting,
                       finished_req_ids, fitting, batch_queue, todo>>
    BY DEF ExecuteOnly, EndSchedule, reqs, queues, Batch
  <1>2. Async /\ Len(batch_queue) = 1 /\ batch_queue # << >>
    BY <1>1 DEF IInv, Frames
  <1>3. First' = First /\ Second' = Second
    <2>1. First' = First
      BY <1>1, <1>2 DEF First, oldest, Updating
    <2>2. Second = deferred' /\ Second' = deferred'
      BY <1>1, <1>2 DEF Second, Executing
    <2> QED BY <2>1, <2>2
  <1>4. /\ Scheduled \subseteq Req /\ Rows \subseteq Scheduled /\ SampledRows \subseteq Rows
        /\ \A r \in Scheduled : status[r] = "running" /\ uses[r] > 0
    BY ScheduledFacts
  <1>5. Placeholders' /\ Computes' /\ Limits'
    <2>1. \A r \in Req : /\ TokensOut(r)' = TokensOut(r)
                         /\ Claims(First, r)' + Claims(Second, r)' = Claims(First, r) + Claims(Second, r)
      BY <1>3 DEF TokensOut, Sampled, Claims
    <2> QED BY <1>1, <2>1, MovesKeep
  <1>6. \A r \in Req : Reach(r)' = Reach(r)
    <2>1. \A r \in Req : computed[r] + 0 = computed[r]
      BY DEF IInv, Types
    <2> QED BY <1>1, <2>1 DEF Reach, Pending, Executing
  <1>7. /\ Lengths' /\ Queues' /\ Tabled' /\ Fitting'
        /\ \A r : Unfinished(r)' = Unfinished(r)
    BY <1>1, <1>6, SameRequestsKeep DEF Updating
  <1>8. Types'
    <2>1. num_scheduled_tokens' \in [Req -> Nat]
      BY <1>1
    <2>2. in_batch' \subseteq Req
      BY <1>1, <1>4
    <2>3. req_index' \in Nat \ {0} /\ token_budget' \in Nat
      BY <1>1
    <2>4. preempted' \in BOOLEAN
      BY <1>1, Zenon
    <2> QED BY <1>1, <2>1, <2>2, <2>3, <2>4 DEF IInv, Types
  <1>9. Schedules'
    BY <1>1 DEF Schedules, Scheduled, Scheduling, Executing
  <1>10. Frames'
    <2>1. deferred' \in BatchType /\ deferred'.sampled \subseteq deferred'.rows
          /\ deferred'.rows \subseteq deferred'.reqs /\ (\A r \in deferred'.reqs : uses[r] > 0)
      BY <1>1, <1>4 DEF Batch, BatchType
    <2> QED BY <1>1, <1>2, <2>1 DEF IInv, Frames, Scheduling, Executing, Updating
  <1>11. Waits'
    BY <1>1, <1>3 DEF IInv, Waits
  <1>12. OneAtATime'
    BY <1>1, <1>2 DEF OneAtATime
  <1> QED BY <1>5, <1>7, <1>8, <1>9, <1>10, <1>11, <1>12 DEF IInv

(* Nothing to schedule: the oldest batch is consumed. *)
LEMMA BeginDrainKeeps ==
    ASSUME IInv, BeginDrain
    PROVE  IInv'
  <1>1. /\ pc = "idle" /\ pc' = "pop"
        /\ UNCHANGED <<kv, status, output, computed, placeholders, uses, running, waiting,
                       finished_req_ids, fitting, batch_queue, todo, deferred, in_batch,
                       req_index, token_budget, num_scheduled_tokens, preempted>>
    BY DEF BeginDrain, reqs, queues, sched, batch
  <1>2. First' = First /\ Second' = Second
    BY <1>1 DEF First, Second, oldest, Updating, Executing
  <1>3. Placeholders' /\ Computes' /\ Limits'
    <2>1. \A r \in Req : /\ TokensOut(r)' = TokensOut(r)
                         /\ Claims(First, r)' + Claims(Second, r)' = Claims(First, r) + Claims(Second, r)
      BY <1>2 DEF TokensOut, Sampled, Claims
    <2> QED BY <1>1, <2>1, MovesKeep
  <1>4. \A r \in Req : Reach(r)' = Reach(r)
    BY <1>1 DEF Reach, Pending, Executing
  <1>5. Lengths' /\ Queues' /\ Tabled' /\ Fitting'
    BY <1>1, <1>4, SameRequestsKeep DEF Updating
  <1>6. Types'
    BY <1>1 DEF IInv, Types
  <1>7. Schedules'
    BY <1>1 DEF IInv, Schedules, Scheduled, Scheduling, Executing
  <1>8. Frames'
    BY <1>1 DEF IInv, Frames, Scheduling, Executing, Updating
  <1>9. Waits'
    BY <1>1, <1>2 DEF IInv, Waits
  <1>10. OneAtATime'
    BY <1>1 DEF IInv, OneAtATime, Unfinished
  <1> QED BY <1>3, <1>5, <1>6, <1>7, <1>8, <1>9, <1>10 DEF IInv

----------------------------------------------------------------------------
(* update_from_output. *)

(* The oldest batch comes back. *)
LEMMA PopBatchKeeps ==
    ASSUME IInv, PopBatch
    PROVE  IInv'
  <1>1. /\ pc = "pop" /\ pc' = "update" /\ batch_queue # << >> /\ todo' = oldest.reqs
        /\ UNCHANGED <<kv, status, output, computed, placeholders, uses, running, waiting,
                       finished_req_ids, fitting, batch_queue, deferred, in_batch,
                       req_index, token_budget, num_scheduled_tokens, preempted>>
    BY DEF PopBatch, reqs, queues, sched
  <1>2. /\ batch_queue \in Seq(FrameType) /\ oldest \in FrameType
        /\ oldest.reqs \subseteq Req /\ oldest.rows \subseteq oldest.reqs
        /\ DOMAIN oldest.token \subseteq oldest.rows
    <2>1. batch_queue \in Seq(FrameType)
      BY DEF IInv, Frames
    <2>2. 1 \in DOMAIN batch_queue
      BY <1>1, <2>1
    <2>3. oldest \in FrameType
      BY <2>1, <2>2 DEF oldest
    <2>4. oldest.reqs \subseteq Req
      BY <2>3 DEF FrameType
    <2> QED BY <2>1, <2>2, <2>3, <2>4 DEF IInv, Frames, oldest
  <1>3. First' = First /\ Second' = Second
    <2>1. oldest' = oldest /\ DOMAIN oldest.token \cap oldest.reqs = DOMAIN oldest.token
      BY <1>1, <1>2 DEF oldest
    <2>2. First' = First
      BY <1>1, <2>1 DEF First, BatchOf, Updating
    <2> QED BY <1>1, <2>2 DEF Second, Executing
  <1>4. Placeholders' /\ Computes' /\ Limits'
    <2>1. \A r \in Req : /\ TokensOut(r)' = TokensOut(r)
                         /\ Claims(First, r)' + Claims(Second, r)' = Claims(First, r) + Claims(Second, r)
      BY <1>3 DEF TokensOut, Sampled, Claims
    <2> QED BY <1>1, <2>1, MovesKeep
  <1>5. \A r \in Req : Reach(r)' = Reach(r)
    BY <1>1 DEF Reach, Pending, Executing
  <1>6. Lengths' /\ Queues' /\ Tabled' /\ Fitting'
    BY <1>1, <1>5, SameRequestsKeep DEF Updating
  <1>7. Types'
    BY <1>1, <1>2 DEF IInv, Types, Updating
  <1>8. Schedules'
    BY <1>1 DEF IInv, Schedules, Scheduled, Scheduling, Executing
  <1>9. Frames'
    BY <1>1, <1>2 DEF IInv, Frames, Scheduling, Executing, Updating, oldest
  <1>10. Waits'
    BY <1>1, <1>3 DEF IInv, Waits
  <1>11. OneAtATime'
    BY <1>1 DEF IInv, OneAtATime, Unfinished
  <1> QED BY <1>4, <1>6, <1>7, <1>8, <1>9, <1>10, <1>11 DEF IInv

(* Whoever is looked at next is in the oldest batch. *)
LEMMA UpdatingFacts ==
    ASSUME IInv, pc \in Updating
    PROVE  /\ batch_queue \in Seq(FrameType) /\ batch_queue # << >> /\ 1 \in DOMAIN batch_queue
           /\ oldest \in FrameType /\ oldest.rows \subseteq oldest.reqs
           /\ DOMAIN oldest.token \subseteq oldest.rows
           /\ \A r \in oldest.reqs : uses[r] > 0 /\ oldest.use[r] = uses[r]
           /\ todo \subseteq oldest.reqs /\ todo \subseteq Req
           /\ todo # {} => NextTodo \in todo
           /\ First = Batch(todo, oldest.rows, DOMAIN oldest.token \cap todo)
           /\ Second = IF Len(batch_queue) = 2 THEN BatchOf(batch_queue[2]) ELSE deferred
  <1>1. batch_queue \in Seq(FrameType) /\ batch_queue # << >> /\ todo \subseteq oldest.reqs
        /\ todo \subseteq Req
    BY DEF IInv, Frames, Types
  <1>2. 1 \in DOMAIN batch_queue
    BY <1>1
  <1>3. oldest \in FrameType
    BY <1>1, <1>2 DEF oldest
  <1>4. /\ oldest.rows \subseteq oldest.reqs
        /\ DOMAIN oldest.token \subseteq oldest.rows
        /\ \A r \in oldest.reqs : uses[r] > 0 /\ oldest.use[r] = uses[r]
    BY <1>2 DEF IInv, Frames, oldest
  <1>5. todo # {} => NextTodo \in todo
    BY <1>1, NextTodoFacts
  <1>6. First = Batch(todo, oldest.rows, DOMAIN oldest.token \cap todo)
    BY <1>1 DEF First
  <1>7. Second = IF Len(batch_queue) = 2 THEN BatchOf(batch_queue[2]) ELSE deferred
    BY DEF Second, Executing, Updating
  <1> QED BY <1>1, <1>2, <1>3, <1>4, <1>5, <1>6, <1>7

(* One request of the oldest batch has been looked at, which is finished   *)
(* or has no token: the tokens in flight of the others are the same.       *)
LEMMA LookedAtKeeps ==
    ASSUME IInv, pc \in Updating, pc' = "update", NEW s, s \in todo, todo' = todo \ {s},
           ~Unfinished(s) \/ s \in oldest.rows \ DOMAIN oldest.token,
           UNCHANGED <<status, output, computed, placeholders, batch_queue, deferred>>
    PROVE  /\ Placeholders' /\ Computes' /\ Limits'
           /\ First'.reqs \subseteq First.reqs /\ Second' = Second
  <1>1. /\ batch_queue # << >> /\ todo \subseteq oldest.reqs
        /\ First = Batch(todo, oldest.rows, DOMAIN oldest.token \cap todo)
        /\ Second = IF Len(batch_queue) = 2 THEN BatchOf(batch_queue[2]) ELSE deferred
    BY UpdatingFacts
  <1>2. /\ First' = Batch(todo', oldest.rows, DOMAIN oldest.token \cap todo')
        /\ Second' = Second
    BY <1>1 DEF First, Second, oldest, Updating, Executing
  <1>3. ASSUME NEW r \in Req, Unfinished(r)
        PROVE  /\ TokensOut(r)' = TokensOut(r)
               /\ Claims(First, r)' + Claims(Second, r)' = Claims(First, r) + Claims(Second, r)
    <2>1. r \in DOMAIN oldest.token \cap todo <=> r \in DOMAIN oldest.token \cap todo'
      BY <1>3
    <2>2. /\ r \in todo /\ (r \in DOMAIN oldest.token \cap todo \/ r \notin oldest.rows)
             <=> r \in todo' /\ (r \in DOMAIN oldest.token \cap todo' \/ r \notin oldest.rows)
      BY <1>3
    <2>3. Sampled(First, r)' = Sampled(First, r)
      BY <1>1, <1>2, <2>1 DEF Sampled, Batch
    <2>4. Claims(First, r)' = Claims(First, r)
      BY <1>1, <1>2, <2>2 DEF Claims, Batch
    <2>5. Sampled(Second, r)' = Sampled(Second, r) /\ Claims(Second, r)' = Claims(Second, r)
      BY <1>2 DEF Sampled, Claims
    <2> QED BY <2>3, <2>4, <2>5 DEF TokensOut
  <1>4. Placeholders' /\ Computes' /\ Limits'
    BY <1>3, MovesKeep
  <1> QED BY <1>1, <1>2, <1>4 DEF Batch

(* The update passes a request by that has finished or has no token, *)
LEMMA SkipUpdateKeeps ==
    ASSUME IInv, SkipUpdate
    PROVE  IInv'
  <1> DEFINE s == NextTodo
  <1>1. /\ pc = "update" /\ pc' = "update" /\ todo' = todo \ {s} /\ todo # {}
        /\ ~Unfinished(s) \/ s \in oldest.rows \ DOMAIN oldest.token
        /\ UNCHANGED <<kv, status, output, computed, placeholders, uses, running, waiting,
                       finished_req_ids, fitting, batch_queue, deferred, in_batch,
                       req_index, token_budget, num_scheduled_tokens, preempted>>
    BY DEF SkipUpdate, reqs, queues, sched
  <1>2. s \in todo
    BY <1>1, UpdatingFacts DEF Updating
  <1> HIDE DEF s
  <1>3. /\ Placeholders' /\ Computes' /\ Limits'
        /\ First'.reqs \subseteq First.reqs /\ Second' = Second
    BY <1>1, <1>2, LookedAtKeeps DEF Updating
  <1>5. \A r \in Req : Reach(r)' = Reach(r)
    BY <1>1 DEF Reach, Pending, Executing
  <1>6. Lengths' /\ Queues' /\ Tabled' /\ Fitting'
    BY <1>1, <1>5, SameRequestsKeep DEF Updating
  <1>7. Types'
    BY <1>1 DEF IInv, Types
  <1>8. Schedules'
    BY <1>1 DEF IInv, Schedules, Scheduled, Scheduling, Executing
  <1>9. Frames'
    BY <1>1 DEF IInv, Frames, Scheduling, Executing, Updating, oldest
  <1>10. Waits'
    BY <1>1, <1>3 DEF IInv, Waits
  <1>11. OneAtATime'
    BY <1>1 DEF IInv, OneAtATime, Unfinished
  <1> QED BY <1>3, <1>6, <1>7, <1>8, <1>9, <1>10, <1>11 DEF IInv

(* A request that stopped gives its blocks back. *)
LEMMA FreeStoppedKeeps ==
    ASSUME IInv, FreeStopped
    PROVE  IInv'
  <1>0. PICK s : s = NextTodo
    OBVIOUS
  <1>1. /\ pc = "stopped" /\ pc' = "update" /\ todo' = todo \ {s} /\ kv' = free(kv, s)
        /\ finished_req_ids' = finished_req_ids \cup {s}
        /\ UNCHANGED <<status, output, computed, placeholders, uses, running, waiting,
                       fitting, batch_queue, deferred, in_batch,
                       req_index, token_budget, num_scheduled_tokens, preempted>>
    BY <1>0 DEF FreeStopped, reqs, sched
  <1>2. todo # {} /\ status[s] = "finished" /\ s \in todo /\ s \in Req /\ ~Unfinished(s)
    <2>1. todo # {} /\ status[s] = "finished"
      BY <1>0, <1>1 DEF IInv, Frames
    <2>2. s \in todo /\ s \in Req
      BY <1>0, <1>1, <2>1, UpdatingFacts DEF Updating
    <2> QED BY <2>1, <2>2 DEF Unfinished
  <1>3. /\ Placeholders' /\ Computes' /\ Limits'
        /\ First'.reqs \subseteq First.reqs /\ Second' = Second
    BY <1>1, <1>2, LookedAtKeeps DEF Updating
  <1>4. \A r : NumTokens(r)' = NumTokens(r) /\ Unfinished(r)' = Unfinished(r)
    BY <1>1 DEF NumTokens, Unfinished
  <1>5. Types'
    BY <1>1, <1>2 DEF IInv, Types, Updating
  <1>6. Lengths' /\ Fitting'
    BY <1>1, <1>4 DEF IInv, Lengths, Fitting
  <1>7. Queues'
    BY <1>1 DEF IInv, Queues, Lists, Updating
  <1>8. Tabled'
    <2>1. Known' = Known
      BY <1>1 DEF Known, all_token_ids
    <2>2. /\ Consistent(kv', Known) /\ kv'.fault = kv.fault
          /\ kv'.req_to_blocks = [kv.req_to_blocks EXCEPT ![s] = << >>]
      BY <1>1, <1>2, FreeKeeps DEF IInv, Tabled
    <2>3. /\ kv'.req_to_blocks[s] = << >>
          /\ \A r \in Req : r # s => kv'.req_to_blocks[r] = kv.req_to_blocks[r]
      <3>1. kv.req_to_blocks \in [Req -> Seq(Blocks)]
        BY ManagerFields DEF IInv, Tabled
      <3> QED BY <1>2, <2>2, <3>1
    <2>4. \A r \in Owners(kv') : status[r] = "running"
      BY <1>0, <1>1, <2>3 DEF Owners, IInv, Tabled
    <2>5. \A r \in Req : Reach(r)' = Reach(r)
      BY <1>1 DEF Reach, Pending, Executing
    <2>6. ASSUME NEW r \in Req, status[r] = "running"
          PROVE  /\ Reach(r) > 0 /\ Reach(r) <= Len(kv'.req_to_blocks[r]) * BlockSize
                 /\ Reach(r) <= NumTokens(r) + placeholders[r] /\ Reach(r) < MaxModelLen
      <3>1. r # s
        BY <1>2, <2>6
      <3> QED BY <2>3, <2>6, <3>1 DEF IInv, Tabled
    <2> QED BY <1>1, <1>4, <2>1, <2>2, <2>4, <2>5, <2>6 DEF IInv, Tabled
  <1>9. Schedules'
    BY <1>1 DEF IInv, Schedules, Scheduled, Scheduling, Executing
  <1>10. Frames'
    BY <1>1 DEF IInv, Frames, Scheduling, Executing, Updating, oldest
  <1>11. Waits'
    BY <1>1, <1>3 DEF IInv, Waits
  <1>12. OneAtATime'
    BY <1>1 DEF IInv, OneAtATime, Unfinished
  <1> QED BY <1>3, <1>5, <1>6, <1>7, <1>8, <1>9, <1>10, <1>11, <1>12 DEF IInv

(* or throws. *)
LEMMA UpdateThrowsKeeps ==
    ASSUME IInv, UpdateThrows
    PROVE  IInv'
  <1>1. /\ pc = "update" /\ pc' = "dead"
        /\ UNCHANGED <<kv, status, output, computed, placeholders, uses, running, waiting,
                       finished_req_ids, fitting, batch_queue, deferred, in_batch, todo,
                       req_index, token_budget, num_scheduled_tokens, preempted>>
    BY DEF UpdateThrows, reqs, queues, sched, batch
  <1>2. First' = First /\ Second' = Second
    BY <1>1 DEF First, Second, oldest, Updating, Executing
  <1>3. Placeholders' /\ Computes' /\ Limits'
    <2>1. \A r \in Req : /\ TokensOut(r)' = TokensOut(r)
                         /\ Claims(First, r)' + Claims(Second, r)' = Claims(First, r) + Claims(Second, r)
      BY <1>2 DEF TokensOut, Sampled, Claims
    <2> QED BY <1>1, <2>1, MovesKeep
  <1>4. \A r \in Req : Reach(r)' = Reach(r)
    BY <1>1 DEF Reach, Pending, Executing
  <1>5. Lengths' /\ Queues' /\ Tabled' /\ Fitting'
    BY <1>1, <1>4, SameRequestsKeep DEF Updating
  <1>6. Types'
    BY <1>1 DEF IInv, Types, Updating
  <1>7. Schedules'
    BY <1>1 DEF IInv, Schedules, Scheduled, Scheduling, Executing
  <1>8. Frames'
    BY <1>1 DEF IInv, Frames, Scheduling, Executing, Updating, oldest
  <1>9. Waits'
    BY <1>1, <1>2 DEF IInv, Waits
  <1>10. OneAtATime'
    BY <1>1 DEF IInv, OneAtATime, Unfinished
  <1> QED BY <1>3, <1>5, <1>6, <1>7, <1>8, <1>9, <1>10 DEF IInv

----------------------------------------------------------------------------
(* The end of an update, and what happens between steps. *)

(* A request that is aborted leaves its queue and gives its blocks back;   *)
(* its tokens in flight are nobody's any more.                             *)
LEMMA AbortRequestKeeps ==
    ASSUME IInv, NEW r \in Req, AbortRequest(r)
    PROVE  IInv'
  <1>1. /\ pc = "idle" /\ pc' = "idle" /\ Unfinished(r) /\ LeaveQueue(r)
        /\ status' = [status EXCEPT ![r] = "finished"]
        /\ finished_req_ids' = finished_req_ids \cup {r}
        /\ kv' = free(kv, r)
        /\ UNCHANGED <<output, computed, placeholders, uses,
                       fitting, batch_queue, deferred, in_batch, todo,
                       req_index, token_budget, num_scheduled_tokens, preempted>>
    BY DEF AbortRequest, sched, batch
  <1>2. /\ status' \in [Req -> {"unknown", "waiting", "running", "preempted", "finished"}]
        /\ status'[r] = "finished" /\ \A s \in Req : s # r => status'[s] = status[s]
    <2>1. status \in [Req -> {"unknown", "waiting", "running", "preempted", "finished"}]
      BY DEF IInv, Types
    <2> QED BY <1>1, <2>1
  <1>3. \A s \in Req : Unfinished(s)' <=> Unfinished(s) /\ s # r
    BY <1>2 DEF Unfinished
  <1>4. /\ Frames' /\ Placeholders' /\ Limits' /\ OneAtATime' /\ Lengths'
        /\ First' = First /\ Second' = Second
        /\ \A s : NumTokens(s)' = NumTokens(s) /\ TokensOut(s)' = TokensOut(s)
        /\ Known' = Known
    BY <1>1, <1>3, SchedulingKeeps
  <1>5. /\ running \in Seq(Req) /\ IsInjective(running) /\ Len(running) <= MaxNumRunningReqs
        /\ waiting \in Seq(Req) /\ IsInjective(waiting)
        /\ Len(running) \in Nat /\ Len(waiting) \in Nat
        /\ Range(running) \subseteq Req /\ Range(waiting) \subseteq Req
    <2>1. /\ running \in Seq(Req) /\ IsInjective(running) /\ Len(running) <= MaxNumRunningReqs
          /\ waiting \in Seq(Req) /\ IsInjective(waiting)
      BY DEF IInv, Types, Queues, Lists
    <2> QED BY <2>1, RangeFacts
  <1>6. /\ Range(running) = {s \in Req : status[s] = "running"}
        /\ Range(waiting) = {s \in Req : status[s] \in {"waiting", "preempted"}}
    BY <1>1, <1>5 DEF IInv, Queues, Lists, Updating
  <1>7. ASSUME NEW q \in Seq(Req), IsInjective(q), NEW k, k = Keep(q, Req \ {r}) \/ k = q,
               r \in Range(q) => k = Keep(q, Req \ {r})
        PROVE  /\ k \in Seq(Req) /\ IsInjective(k) /\ Range(k) = Range(q) \ {r}
               /\ Len(k) \in Nat /\ Len(k) <= Len(q)
    <2>1. CASE k = Keep(q, Req \ {r})
      <3>1. /\ k \in Seq(Req) /\ IsInjective(k) /\ Range(k) = Range(q) \cap (Req \ {r})
        BY <1>7, <2>1, KeepFacts
      <3>2. Len(k) \in Nat /\ Len(k) <= Len(q)
        BY <2>1, KeepLength
      <3> QED BY <3>1, <3>2, RangeFacts
    <2>2. CASE k = q /\ r \notin Range(q)
      BY <1>7, <2>2
    <2> QED BY <1>7, <2>1, <2>2
  <1>8. /\ running' = Keep(running, Req \ {r}) \/ running' = running
        /\ r \in Range(running) => running' = Keep(running, Req \ {r})
        /\ waiting' = Keep(waiting, Req \ {r}) \/ waiting' = waiting
        /\ r \in Range(waiting) => waiting' = Keep(waiting, Req \ {r})
    BY <1>1, <1>6 DEF LeaveQueue
  <1>9. /\ running' \in Seq(Req) /\ IsInjective(running') /\ Range(running') = Range(running) \ {r}
        /\ Len(running') \in Nat /\ Len(running') <= Len(running)
    BY <1>5, <1>7, <1>8
  <1>10. /\ waiting' \in Seq(Req) /\ IsInjective(waiting') /\ Range(waiting') = Range(waiting) \ {r}
    BY <1>5, <1>7, <1>8
  <1>11. Types'
    BY <1>1, <1>2, <1>9, <1>10 DEF IInv, Types
  <1>12. Queues'
    <2>1. Lists(running, {"running"})' /\ Lists(waiting, {"waiting", "preempted"})'
      BY <1>2, <1>6, <1>9, <1>10 DEF Lists
    <2>2. Len(running') <= MaxNumRunningReqs
      BY <1>5, <1>9, ConstantFacts
    <2> QED BY <2>1, <2>2 DEF Queues
  <1>13. Tabled'
    <2>1. /\ Consistent(kv', Known) /\ kv'.fault = kv.fault
          /\ kv'.req_to_blocks = [kv.req_to_blocks EXCEPT ![r] = << >>]
      BY <1>1, FreeKeeps DEF IInv, Tabled
    <2>2. /\ kv'.req_to_blocks[r] = << >>
          /\ \A s \in Req : s # r => kv'.req_to_blocks[s] = kv.req_to_blocks[s]
      <3>1. kv.req_to_blocks \in [Req -> Seq(Blocks)]
        BY ManagerFields DEF IInv, Tabled
      <3> QED BY <2>1, <3>1
    <2>3. \A s \in Owners(kv') : status'[s] = "running"
      BY <1>1, <1>2, <2>2 DEF Owners, IInv, Tabled
    <2>4. \A s \in Req : Reach(s)' = Reach(s)
      BY <1>1 DEF Reach, Pending, Executing
    <2>5. ASSUME NEW s \in Req, status'[s] = "running"
          PROVE  /\ Reach(s) > 0 /\ Reach(s) <= Len(kv'.req_to_blocks[s]) * BlockSize
                 /\ Reach(s) <= NumTokens(s) + placeholders[s] /\ Reach(s) < MaxModelLen
      <3>1. s # r /\ status[s] = "running"
        BY <1>2, <2>5
      <3> QED BY <2>2, <3>1 DEF IInv, Tabled
    <2> QED BY <1>1, <1>4, <2>1, <2>3, <2>4, <2>5 DEF IInv, Tabled
  <1>14. Schedules' /\ Fitting'
    BY <1>1 DEF IInv, Schedules, Fitting, Scheduled, Scheduling, Executing
  <1>15. Computes'
    <2>1. \A s \in Req : status'[s] = "running" => status[s] = "running"
      BY <1>2
    <2> QED BY <1>1, <1>4, <2>1 DEF IInv, Computes
  <1>16. Waits'
    <2>1. \A s \in Req : status'[s] \in {"waiting", "preempted"} => status[s] \in {"waiting", "preempted"}
      BY <1>2
    <2> QED BY <1>1, <1>4, <2>1 DEF IInv, Waits
  <1> QED BY <1>4, <1>11, <1>12, <1>13, <1>14, <1>15, <1>16 DEF IInv

(* The batch is consumed: who has finished leaves the queues, and the      *)
(* batch behind it, queued or deferred, is the oldest one now.             *)
LEMMA FinishUpdateKeeps ==
    ASSUME IInv, FinishUpdate
    PROVE  IInv'
  <1>1. /\ pc = "update" /\ pc' = "idle" /\ todo = {} /\ todo' = {} /\ deferred' = NoBatch
        /\ running' = Keep(running, {r \in Req : Unfinished(r)})
        /\ waiting' = Keep(waiting, {r \in Req : Unfinished(r)})
        /\ UNCHANGED <<kv, status, output, computed, placeholders, uses, finished_req_ids,
                       fitting, in_batch, req_index, token_budget, num_scheduled_tokens, preempted>>
    BY DEF FinishUpdate, reqs, sched
  <1>2. /\ batch_queue \in Seq(FrameType) /\ batch_queue # << >> /\ Len(batch_queue) \in 1 .. 2
        /\ First = Batch({}, oldest.rows, {})
        /\ Second = IF Len(batch_queue) = 2 THEN BatchOf(batch_queue[2]) ELSE deferred
    <2>1. Len(batch_queue) \in 0 .. 2 /\ (batch_queue = << >> <=> Len(batch_queue) = 0)
      BY QueueLengths DEF IInv
    <2>2. /\ batch_queue \in Seq(FrameType) /\ batch_queue # << >>
          /\ First = Batch(todo, oldest.rows, DOMAIN oldest.token \cap todo)
          /\ Second = IF Len(batch_queue) = 2 THEN BatchOf(batch_queue[2]) ELSE deferred
      BY <1>1, UpdatingFacts DEF Updating
    <2>3. DOMAIN oldest.token \cap todo = {}
      BY <1>1
    <2> QED BY <1>1, <2>1, <2>2, <2>3
  <1> DEFINE OK(f) == /\ f.rows \subseteq f.reqs /\ DOMAIN f.token \subseteq f.rows
                      /\ \A r \in f.reqs : uses[r] > 0 /\ f.use[r] = uses[r]
  <1>3. \/ batch_queue' = << >> /\ Second = NoBatch
        \/ /\ Len(batch_queue') = 1 /\ batch_queue' \in Seq(FrameType) /\ Async
           /\ Second = BatchOf(batch_queue'[1])
           /\ OK(batch_queue'[1])
    <2>1. CASE deferred = NoBatch /\ Len(batch_queue) = 1
      <3>1. batch_queue' = Tail(batch_queue)
        BY <2>1 DEF FinishUpdate
      <3>2. Tail(batch_queue) \in Seq(FrameType) /\ Len(Tail(batch_queue)) = 0
        BY <1>2, <2>1
      <3>3. batch_queue' = << >>
        BY <3>1, <3>2
      <3>4. Second = NoBatch
        BY <1>2, <2>1
      <3> QED BY <3>3, <3>4
    <2>2. CASE deferred = NoBatch /\ Len(batch_queue) = 2
      <3>1. batch_queue' = Tail(batch_queue)
        BY <2>2 DEF FinishUpdate
      <3>2. /\ Tail(batch_queue) \in Seq(FrameType) /\ Len(Tail(batch_queue)) = 1
            /\ Tail(batch_queue)[1] = batch_queue[2] /\ 2 \in DOMAIN batch_queue
        BY <1>2, <2>2
      <3>3. Second = BatchOf(batch_queue[2])
        BY <1>2, <2>2
      <3>4. OK(batch_queue[2])
        BY <3>2 DEF IInv, Frames
      <3>5. Async
        BY <2>2, QueueLengths DEF IInv
      <3> HIDE DEF OK
      <3> QED BY <3>1, <3>2, <3>3, <3>4, <3>5
    <2>3. CASE deferred # NoBatch
      <3>1. /\ Async /\ Len(batch_queue) = 1 /\ deferred \in BatchType
            /\ deferred.sampled \subseteq deferred.rows /\ deferred.rows \subseteq deferred.reqs
            /\ \A r \in deferred.reqs : uses[r] > 0
        BY <2>3 DEF IInv, Frames
      <3>2. PICK token \in [deferred.sampled -> Token] :
               batch_queue' = Append(Tail(batch_queue), Frame(deferred.reqs, deferred.rows, token))
        BY <2>3 DEF FinishUpdate
      <3> DEFINE f == Frame(deferred.reqs, deferred.rows, token)
      <3>3. deferred.reqs \in SUBSET Req /\ deferred.rows \in SUBSET deferred.reqs
            /\ deferred.sampled \in SUBSET deferred.rows
        BY <3>1 DEF BatchType
      <3>4. IsFrame(f, deferred.reqs, deferred.rows, token, deferred.sampled)
        <4>1. uses \in [Req -> 0 .. 2]
          BY DEF IInv, Types
        <4> QED BY <3>1, <3>2, <3>3, <4>1, FrameFacts
      <3>5. Second = deferred
        BY <1>2, <3>1
      <3>6. deferred = Batch(deferred.reqs, deferred.rows, deferred.sampled)
        BY <3>1 DEF BatchType, Batch
      <3> HIDE DEF f
      <3>7. f \in FrameType /\ BatchOf(f) = deferred
        BY <3>4, <3>6 DEF IsFrame
      <3>8. OK(f)
        BY <3>4 DEF IsFrame
      <3>9. Tail(batch_queue) \in Seq(FrameType) /\ Len(Tail(batch_queue)) = 0
        BY <1>2, <3>1
      <3>10. batch_queue' \in Seq(FrameType) /\ Len(batch_queue') = 1 /\ batch_queue'[1] = f
        <4> DEFINE t == Tail(batch_queue)
        <4>1. batch_queue' = Append(t, f)
          BY <3>2 DEF f
        <4>2. t \in Seq(FrameType) /\ Len(t) = 0
          BY <3>9
        <4> HIDE DEF t
        <4> QED BY <3>7, <4>1, <4>2
      <3> HIDE DEF OK
      <3> QED BY <3>1, <3>5, <3>7, <3>8, <3>10
    <2> QED BY <1>2, <2>1, <2>2, <2>3
  <1>4. First' = Second /\ Second' = NoBatch
    <2>1. CASE batch_queue' = << >> /\ Second = NoBatch
      BY <1>1, <2>1 DEF First, Second, Executing
    <2>2. CASE Len(batch_queue') = 1 /\ batch_queue' \in Seq(FrameType)
               /\ Second = BatchOf(batch_queue'[1])
      <3>1. batch_queue' # << >>
        BY <2>2
      <3> QED BY <1>1, <2>2, <3>1 DEF First, Second, oldest, Executing, Updating
    <2> QED BY <1>3, <2>1, <2>2
  <1>5. Placeholders' /\ Computes' /\ Limits'
    <2>1. \A r \in Req : /\ TokensOut(r)' = TokensOut(r)
                         /\ Claims(First, r)' + Claims(Second, r)' = Claims(First, r) + Claims(Second, r)
      <3>1. \A r : Sampled(First, r) = 0 /\ Claims(First, r) = 0
        BY <1>2 DEF Sampled, Claims, Batch
      <3>2. \A r : Sampled(Second, r) \in Nat /\ Claims(Second, r) \in Nat
        BY DEF Sampled, Claims
      <3>3. \A r : Sampled(Second, r)' = 0 /\ Claims(Second, r)' = 0
        BY <1>4, NoBatchFacts DEF Sampled, Claims
      <3>4. \A r : Sampled(First, r)' = Sampled(Second, r) /\ Claims(First, r)' = Claims(Second, r)
        BY <1>4 DEF Sampled, Claims
      <3> QED BY <3>1, <3>2, <3>3, <3>4 DEF TokensOut
    <2> QED BY <1>1, <2>1, MovesKeep
  <1>6. \A r : Unfinished(r)' = Unfinished(r) /\ NumTokens(r)' = NumTokens(r)
    BY <1>1 DEF Unfinished, NumTokens
  <1>7. Lengths' /\ Fitting'
    BY <1>1, <1>6 DEF IInv, Lengths, Fitting
  <1>8. /\ running \in Seq(Req) /\ IsInjective(running) /\ Len(running) <= MaxNumRunningReqs
        /\ waiting \in Seq(Req) /\ IsInjective(waiting)
        /\ Len(running) \in Nat /\ Range(running) \subseteq Req /\ Range(waiting) \subseteq Req
    <2>1. /\ running \in Seq(Req) /\ IsInjective(running) /\ Len(running) <= MaxNumRunningReqs
          /\ waiting \in Seq(Req) /\ IsInjective(waiting)
      BY DEF IInv, Types, Queues, Lists
    <2> QED BY <2>1, RangeFacts
  <1>9. /\ running' \in Seq(Req) /\ IsInjective(running')
        /\ Range(running') = {r \in Range(running) : Unfinished(r)}
        /\ Len(running') \in Nat /\ Len(running') <= Len(running)
        /\ waiting' \in Seq(Req) /\ IsInjective(waiting')
        /\ Range(waiting') = {r \in Range(waiting) : Unfinished(r)}
    <2>1. /\ running' \in Seq(Req) /\ IsInjective(running')
          /\ Range(running') = Range(running) \cap {r \in Req : Unfinished(r)}
          /\ waiting' \in Seq(Req) /\ IsInjective(waiting')
          /\ Range(waiting') = Range(waiting) \cap {r \in Req : Unfinished(r)}
      BY <1>1, <1>8, KeepFacts
    <2>2. Len(running') \in Nat /\ Len(running') <= Len(running)
      BY <1>1, <1>8, KeepLength
    <2> QED BY <1>8, <2>1, <2>2
  <1>10. Types'
    BY <1>1, <1>9 DEF IInv, Types
  <1>11. Queues'
    <2>1. Lists(running, {"running"})' /\ Lists(waiting, {"waiting", "preempted"})'
      BY <1>1, <1>9 DEF IInv, Queues, Lists, Unfinished
    <2>2. Len(running') <= MaxNumRunningReqs
      BY <1>8, <1>9, ConstantFacts
    <2> QED BY <2>1, <2>2 DEF Queues
  <1>12. Tabled'
    <2>1. Known' = Known
      BY <1>1 DEF Known, all_token_ids
    <2>2. \A r \in Req : Reach(r)' = Reach(r)
      BY <1>1 DEF Reach, Pending, Executing
    <2> QED BY <1>1, <1>6, <2>1, <2>2, TabledKeeps DEF IInv
  <1>13. Schedules'
    BY <1>1 DEF IInv, Schedules, Scheduled, Scheduling, Executing
  <1>14. Frames'
    <2>1. \A i \in DOMAIN batch_queue' : OK(batch_queue'[i])
      <3>1. CASE batch_queue' = << >>
        BY <3>1
      <3>2. CASE Len(batch_queue') = 1 /\ batch_queue' \in Seq(FrameType) /\ OK(batch_queue'[1])
        <4>1. DOMAIN batch_queue' = {1}
          BY <3>2
        <4> QED BY <3>2, <4>1
      <3> QED BY <1>3, <3>1, <3>2
    <2>2. /\ batch_queue' \in Seq(FrameType) /\ Len(batch_queue') < BatchQueueSize
          /\ Len(batch_queue') <= BatchQueueSize
      <3>1. BatchQueueSize = IF Async THEN 2 ELSE 1
        BY ConstantFacts
      <3>2. CASE batch_queue' = << >>
        BY <3>1, <3>2
      <3>3. CASE Len(batch_queue') = 1 /\ batch_queue' \in Seq(FrameType) /\ Async
        BY <3>1, <3>3
      <3> QED BY <1>3, <3>2, <3>3
    <2> QED BY <1>1, <2>1, <2>2, NoBatchFacts DEF Frames, Scheduling, Executing, Updating
  <1>15. Waits'
    BY <1>1, <1>4, NoBatchFacts DEF IInv, Waits
  <1>16. OneAtATime'
    <2>1. Len(batch_queue') # 2
      BY <1>3
    <2> QED BY <1>1, <2>1 DEF OneAtATime
  <1> QED BY <1>5, <1>7, <1>10, <1>11, <1>12, <1>13, <1>14, <1>15, <1>16 DEF IInv

(* A request is added, for the first time or, under synchronous            *)
(* scheduling, again: no batch holds it, so it starts with nothing in      *)
(* flight.                                                                 *)
LEMMA AddRequestKeeps ==
    ASSUME Disciplined, IInv, NEW r \in Req, AddRequest(r)
    PROVE  IInv'
  <1>1. /\ pc = "idle" /\ pc' = "idle" /\ ~Unfinished(r)
        /\ uses[r] = 0 \/ (uses[r] = 1 /\ r \in Reused)
        /\ uses' = [uses EXCEPT ![r] = uses[r] + 1]
        /\ status' = [status EXCEPT ![r] = "waiting"]
        /\ output' = [output EXCEPT ![r] = << >>]
        /\ computed' = [computed EXCEPT ![r] = 0]
        /\ placeholders' = [placeholders EXCEPT ![r] = 0]
        /\ waiting' = queue_add_request(waiting, r)
        /\ UNCHANGED <<kv, running, finished_req_ids, fitting, batch_queue, deferred, in_batch,
                       todo, req_index, token_budget, num_scheduled_tokens, preempted>>
    BY DEF AddRequest, sched, batch
  <1>2. /\ status \in [Req -> {"unknown", "waiting", "running", "preempted", "finished"}]
        /\ output \in [Req -> Seq(Token)] /\ computed \in [Req -> Nat]
        /\ placeholders \in [Req -> Nat] /\ uses \in [Req -> 0 .. 2]
    BY DEF IInv, Types
  <1>3. /\ status' \in [Req -> {"unknown", "waiting", "running", "preempted", "finished"}]
        /\ status'[r] = "waiting" /\ \A s \in Req : s # r => status'[s] = status[s]
    BY <1>1, <1>2
  <1>4. /\ output' \in [Req -> Seq(Token)]
        /\ output'[r] = << >> /\ \A s \in Req : s # r => output'[s] = output[s]
    <2>1. << >> \in Seq(Token)
      OBVIOUS
    <2> QED BY <1>1, <1>2, <2>1
  <1>5. /\ computed' \in [Req -> Nat]
        /\ computed'[r] = 0 /\ \A s \in Req : s # r => computed'[s] = computed[s]
    BY <1>1, <1>2
  <1>6. /\ placeholders' \in [Req -> Nat]
        /\ placeholders'[r] = 0 /\ \A s \in Req : s # r => placeholders'[s] = placeholders[s]
    BY <1>1, <1>2
  <1>7. /\ uses' \in [Req -> 0 .. 2]
        /\ uses'[r] > 0 /\ \A s \in Req : s # r => uses'[s] = uses[s]
    <2>1. uses[r] + 1 \in 1 .. 2
      BY <1>1
    <2> QED BY <1>1, <1>2, <2>1
  <1>8. /\ Len(batch_queue) \in 0 .. 1 /\ deferred = NoBatch /\ Second = NoBatch
        /\ (~Async => batch_queue = << >>)
        /\ batch_queue = << >> <=> Len(batch_queue) = 0
    <2>1. /\ Len(batch_queue) \in 0 .. 1 /\ (~Async => batch_queue = << >>)
          /\ batch_queue = << >> <=> Len(batch_queue) = 0
      BY <1>1, QueueLengths DEF IInv, Scheduling, Executing
    <2>2. deferred = NoBatch
      BY <1>1 DEF IInv, Frames, Updating
    <2> QED BY <1>1, <2>1, <2>2 DEF Second, Executing
  <1>9. First' = First /\ Second' = Second
    BY <1>1 DEF First, Second, oldest, Updating, Executing
  <1>10. Async => uses[r] = 0
    BY <1>1 DEF Disciplined
  <1>11. r \notin First.reqs /\ r \notin Second.reqs
    <2>1. CASE Async
      <3>1. \A s \in First.reqs : uses[s] > 0
        BY BatchFacts DEF IInv
      <3> QED BY <1>8, <1>10, <2>1, <3>1, NoBatchFacts
    <2>2. CASE ~Async
      BY <1>8, <2>2, NoBatchFacts DEF First
    <2> QED BY <2>1, <2>2
  <1>12. \A s \in Req : Unfinished(s)' <=> Unfinished(s) \/ s = r
    BY <1>3 DEF Unfinished
  <1>13. /\ NumTokens(r)' = Len(Prompt[r]) /\ Len(output'[r]) = 0
         /\ \A s \in Req : s # r => NumTokens(s)' = NumTokens(s)
         /\ Len(Prompt[r]) \in Nat /\ Len(Prompt[r]) < MaxModelLen
         /\ MaxModelLen \in Nat /\ MaxTokens[r] \in Nat \ {0}
    <2>1. Len(Prompt[r]) \in Nat /\ Len(Prompt[r]) < MaxModelLen
          /\ MaxModelLen \in Nat /\ MaxTokens[r] \in Nat \ {0}
      BY ConstantFacts DEF Disciplined
    <2>2. Len(output'[r]) = 0
      BY <1>4
    <2>3. NumTokens(r)' = Len(Prompt[r])
      BY <2>1, <2>2 DEF NumTokens
    <2>4. \A s \in Req : s # r => NumTokens(s)' = NumTokens(s)
      BY <1>4 DEF NumTokens
    <2> QED BY <2>1, <2>2, <2>3, <2>4
  <1>14. \A s : TokensOut(s)' = TokensOut(s) /\ Claims(First, s)' = Claims(First, s)
                /\ Claims(Second, s)' = Claims(Second, s)
    BY <1>9 DEF TokensOut, Sampled, Claims
  <1>15. TokensOut(r) = 0
    <2>1. First.sampled \subseteq First.reqs /\ Second.sampled \subseteq Second.reqs
      BY BatchFacts DEF IInv
    <2> QED BY <1>11, <2>1 DEF TokensOut, Sampled
  <1>16. /\ waiting \in Seq(Req) /\ IsInjective(waiting)
         /\ Range(waiting) = {s \in Req : status[s] \in {"waiting", "preempted"}}
         /\ Range(running) = {s \in Req : status[s] = "running"}
         /\ r \notin Range(waiting) /\ r \notin Range(running)
    <2>1. waiting \in Seq(Req) /\ running \in Seq(Req) /\ IsInjective(waiting)
      BY DEF IInv, Types, Queues, Lists
    <2>2. Range(waiting) \subseteq Req /\ Range(running) \subseteq Req
      BY <2>1, RangeFacts
    <2>3. /\ Range(waiting) = {s \in Req : status[s] \in {"waiting", "preempted"}}
          /\ Range(running) = {s \in Req : status[s] = "running"}
      BY <1>1, <2>2 DEF IInv, Queues, Lists, Updating
    <2> QED BY <1>1, <2>1, <2>3 DEF Unfinished
  <1>17. waiting' \in Seq(Req) /\ IsInjective(waiting') /\ Range(waiting') = Range(waiting) \cup {r}
    <2>1. CASE PriorityPolicy
      <3>1. waiting' = HeapInsert(waiting, r)
        BY <1>1, <2>1 DEF queue_add_request
      <3> QED BY <1>16, <3>1, HeapInsertFacts
    <2>2. CASE ~PriorityPolicy
      <3>1. waiting' = Append(waiting, r)
        BY <1>1, <2>2 DEF queue_add_request
      <3> QED BY <1>16, <3>1, AppendFacts
    <2> QED BY <2>1, <2>2
  <1>18. Types'
    <2>1. running' \in Seq(Req) /\ finished_req_ids' \subseteq Req
      BY <1>1 DEF IInv, Types
    <2> QED BY <1>1, <1>3, <1>4, <1>5, <1>6, <1>7, <1>17, <2>1 DEF IInv, Types
  <1>19. Lengths'
    <2>1. ASSUME NEW s \in Req, Unfinished(s)'
          PROVE  uses'[s] > 0 /\ NumTokens(s)' < MaxModelLen /\ Len(output'[s]) < MaxTokens[s]
      <3>1. CASE s = r
        BY <1>7, <1>13, <3>1
      <3>2. CASE s # r
        BY <1>4, <1>7, <1>12, <1>13, <2>1, <3>2 DEF IInv, Lengths
      <3> QED BY <3>1, <3>2
    <2> QED BY <2>1 DEF Lengths
  <1>20. Queues'
    <2>1. Lists(running, {"running"})' /\ Lists(waiting, {"waiting", "preempted"})'
      BY <1>1, <1>3, <1>16, <1>17 DEF IInv, Queues, Lists
    <2> QED BY <1>1, <2>1 DEF IInv, Queues
  <1>21. Tabled'
    <2>1. r \notin Owners(kv) /\ status[r] # "running"
      BY <1>1 DEF IInv, Tabled, Unfinished
    <2>2. kv.req_to_blocks[r] = << >>
      BY <2>1 DEF Owners
    <2>3. Known' = [Known EXCEPT ![r] = Prompt[r]]
      <3>1. Prompt[r] \in Seq(Token) /\ all_token_ids(r)' = Prompt[r] \o << >>
        BY <1>4, ConstantFacts DEF all_token_ids
      <3>2. Prompt[r] \o << >> = Prompt[r]
        BY <3>1
      <3>3. \A s \in Req : s # r => all_token_ids(s)' = all_token_ids(s)
        BY <1>4 DEF all_token_ids
      <3>4. \A s \in Req : (IF uses'[s] = 0 THEN << >> ELSE all_token_ids(s)')
                             = IF s = r THEN Prompt[r]
                               ELSE (IF uses[s] = 0 THEN << >> ELSE all_token_ids(s))
        BY <1>7, <3>1, <3>2, <3>3
      <3> QED BY <3>4 DEF Known
    <2>4. Consistent(kv, Known')
      <3>1. Prompt[r] \in Seq(Token)
        BY ConstantFacts
      <3> QED BY <2>2, <2>3, <3>1, MoreTokensKeeps DEF IInv, Tabled
    <2>5. ASSUME NEW s \in Req, status'[s] = "running"
          PROVE  /\ s # r /\ status[s] = "running" /\ Reach(s)' = Reach(s)
                 /\ NumTokens(s)' = NumTokens(s) /\ placeholders'[s] = placeholders[s]
      <3>1. s # r /\ status[s] = "running"
        BY <1>3, <2>5
      <3>2. Reach(s)' = Reach(s)
        BY <1>1, <1>5, <3>1 DEF Reach, Pending, Executing
      <3> QED BY <1>6, <1>13, <3>1, <3>2
    <2>6. \A s \in Owners(kv) : s # r /\ status'[s] = "running"
      BY <1>1, <1>3, <2>1 DEF IInv, Tabled, Owners
    <2> QED BY <1>1, <2>4, <2>5, <2>6 DEF IInv, Tabled
  <1>22. Schedules' /\ Fitting'
    BY <1>1 DEF IInv, Schedules, Fitting, Scheduled, Scheduling, Executing
  <1>23. Frames'
    <2>1. ASSUME NEW i \in DOMAIN batch_queue, NEW s \in batch_queue[i].reqs
          PROVE  uses'[s] > 0 /\ batch_queue[i].use[s] = uses'[s]
      <3>1. uses[s] > 0 /\ batch_queue[i].use[s] = uses[s]
        BY DEF IInv, Frames
      <3>2. Async
        BY <1>8
      <3>3. s \in Req
        <4>1. batch_queue[i] \in FrameType
          BY DEF IInv, Frames
        <4> QED BY <4>1 DEF FrameType
      <3>4. s # r
        BY <1>10, <3>1, <3>2
      <3> QED BY <1>7, <3>1, <3>3, <3>4
    <2> QED BY <1>1, <1>8, <2>1, NoBatchFacts DEF IInv, Frames, Scheduling, Executing, Updating
  <1>24. Placeholders'
    <2>1. CASE ~Async
      BY <1>6, <2>1 DEF IInv, Placeholders
    <2>2. CASE Async
      <3>1. ASSUME NEW s \in Req, Unfinished(s)'
            PROVE  /\ TokensOut(s) <= placeholders'[s]
                   /\ placeholders'[s] <= Claims(First, s) + Claims(Second, s)
        <4>1. CASE s = r
          <5>1. Claims(First, s) \in Nat /\ Claims(Second, s) \in Nat
            BY DEF Claims
          <5> QED BY <1>6, <1>15, <4>1, <5>1
        <4>2. CASE s # r
          BY <1>6, <1>12, <2>2, <3>1, <4>2 DEF IInv, Placeholders
        <4> QED BY <4>1, <4>2
      <3> QED BY <1>14, <2>2, <3>1 DEF Placeholders
    <2> QED BY <2>1, <2>2
  <1>25. Computes'
    <2>1. ASSUME NEW s \in Req, status'[s] = "running", TokensOut(s) > 0
          PROVE  computed'[s] + 1 >= NumTokens(s)' + TokensOut(s)
      <3>1. s # r /\ status[s] = "running" /\ computed'[s] = computed[s]
            /\ NumTokens(s)' = NumTokens(s)
        BY <1>3, <1>5, <1>13, <2>1
      <3> QED BY <2>1, <3>1 DEF IInv, Computes
    <2> QED BY <1>14, <2>1 DEF Computes
  <1>26. Limits'
    <2>1. ASSUME NEW s \in Req, Unfinished(s)'
          PROVE  /\ Len(output'[s]) + TokensOut(s) <= MaxTokens[s]
                 /\ NumTokens(s)' + TokensOut(s) <= MaxModelLen
      <3>1. CASE s = r
        BY <1>13, <1>15, <3>1
      <3>2. CASE s # r
        BY <1>4, <1>12, <1>13, <2>1, <3>2 DEF IInv, Limits
      <3> QED BY <3>1, <3>2
    <2> QED BY <1>14, <2>1 DEF Limits
  <1>27. Waits'
    <2>1. ASSUME NEW s \in Req, status'[s] \in {"waiting", "preempted"}
          PROVE  s \notin Second.reqs /\ (~preempted => s \notin First.reqs)
      <3>1. CASE s = r
        BY <1>11, <3>1
      <3>2. CASE s # r
        BY <1>1, <1>3, <2>1, <3>2 DEF IInv, Waits
      <3> QED BY <3>1, <3>2
    <2> QED BY <1>1, <1>9, <2>1 DEF Waits
  <1>28. OneAtATime'
    <2>1. batch_queue' = batch_queue
      BY <1>1
    <2>2. Len(batch_queue') # 2
      BY <1>8, <2>1
    <2> QED BY <1>1, <2>2 DEF OneAtATime
  <1> QED BY <1>18, <1>19, <1>20, <1>21, <1>22, <1>23, <1>24, <1>25, <1>26, <1>27, <1>28 DEF IInv

(* A token of the oldest batch arrives: it becomes known, its placeholder  *)
(* goes, and if it brings the request to a limit the request stops.        *)
LEMMA UpdateRequestKeeps ==
    ASSUME Disciplined, IInv, UpdateRequest
    PROVE  IInv'
  <1>0. PICK r, t, left : r = NextTodo /\ t = oldest.token[r] /\ left = placeholders_left(r)
    OBVIOUS
  <1> DEFINE out == Append(output[r], t)
  <1>1. /\ pc = "update" /\ todo # {}
        /\ Unfinished(r) /\ r \in DOMAIN oldest.token
        /\ output' = [output EXCEPT ![r] = out]
        /\ placeholders' = [placeholders EXCEPT ![r] = left]
        /\ kv' = IF Async /\ status[r] = "running"
                 THEN cache_blocks(kv, r, Prompt[r] \o out, computed[r] - left)
                 ELSE kv
        /\ UNCHANGED <<computed, uses, running, waiting, finished_req_ids, fitting,
                       deferred, batch_queue, in_batch,
                       req_index, token_budget, num_scheduled_tokens, preempted>>
    BY <1>0 DEF UpdateRequest, queues, sched
  <1>2. \/ /\ status' = [status EXCEPT ![r] = "finished"] /\ pc' = "stopped" /\ todo' = todo
        \/ /\ todo' = todo \ {r} /\ status' = status /\ pc' = pc /\ ~check_stop(r, out)
    BY <1>0 DEF UpdateRequest
  <1>3. /\ status \in [Req -> {"unknown", "waiting", "running", "preempted", "finished"}]
        /\ output \in [Req -> Seq(Token)] /\ computed \in [Req -> Nat]
        /\ placeholders \in [Req -> Nat] /\ uses \in [Req -> 0 .. 2]
        /\ num_scheduled_tokens \in [Req -> Nat]
    BY DEF IInv, Types
  <1>4. /\ batch_queue \in Seq(FrameType) /\ batch_queue # << >>
        /\ oldest \in FrameType /\ oldest.rows \subseteq oldest.reqs
        /\ DOMAIN oldest.token \subseteq oldest.rows
        /\ todo \subseteq oldest.reqs /\ r \in todo /\ r \in Req /\ uses[r] > 0
        /\ First = Batch(todo, oldest.rows, DOMAIN oldest.token \cap todo)
        /\ Second = IF Len(batch_queue) = 2 THEN BatchOf(batch_queue[2]) ELSE deferred
    <2>1. pc \in Updating
      BY <1>1 DEF Updating
    <2> QED BY <1>0, <1>1, <2>1, UpdatingFacts
  <1>5. t \in Token
    <2>1. oldest.token \in Partial(Token)
      BY <1>4 DEF FrameType
    <2>2. PICK S \in SUBSET Req : oldest.token \in [S -> Token]
      BY <2>1 DEF Partial
    <2> QED BY <1>0, <1>1, <2>2
  <1>6. /\ output[r] \in Seq(Token) /\ Len(output[r]) \in Nat
        /\ out \in Seq(Token) /\ Len(out) = Len(output[r]) + 1
    BY <1>3, <1>4, <1>5
  <1> HIDE DEF out
  <1>7. /\ output' \in [Req -> Seq(Token)] /\ output'[r] = out
        /\ \A s \in Req : s # r => output'[s] = output[s]
    BY <1>1, <1>3, <1>4, <1>6
  <1>8. \A s \in Req : s # r => NumTokens(s)' = NumTokens(s)
    BY <1>7 DEF NumTokens
  <1> DEFINE m == Sampled(Second, r)
             e == NumTokens(r)
             p == Len(Prompt[r])
             o == Len(output[r])
  <1>36. /\ p \in Nat /\ o \in Nat /\ e \in Nat \ {0} /\ e = p + o
         /\ Len(out) = o + 1
    BY <1>3, <1>4, <1>6, TokenFacts, ConstantFacts
  <1>37. NumTokens(r)' = e + 1
    <2>1. NumTokens(r)' = p + Len(out)
      BY <1>7 DEF NumTokens
    <2> HIDE DEF p, o, e
    <2> QED BY <1>36, <2>1
  <1>9. /\ Sampled(First, r) = 1 /\ Claims(First, r) = 1
        /\ m \in 0 .. 1 /\ Claims(Second, r) \in 0 .. 1
        /\ TokensOut(r) = 1 + m
    BY <1>1, <1>4 DEF Sampled, Claims, Batch, TokensOut
  <1> HIDE DEF m, e, p, o
  <1>10. /\ left \in Nat /\ left <= 1
         /\ Async => left = placeholders[r] - 1 /\ placeholders[r] > 0
                     /\ m <= left /\ left <= Claims(Second, r)
         /\ ~Async => left = 0 /\ placeholders[r] = 0
    <2>0. placeholders[r] \in Nat
      BY <1>3, <1>4
    <2>1. CASE Async
      <3>1. TokensOut(r) <= placeholders[r] /\ placeholders[r] <= Claims(First, r) + Claims(Second, r)
        BY <1>1, <1>4, <2>1 DEF IInv, Placeholders
      <3>2. left = placeholders[r] - 1
        BY <1>0, <2>1 DEF placeholders_left
      <3> QED BY <1>9, <2>0, <2>1, <3>1, <3>2
    <2>2. CASE ~Async
      <3>1. placeholders[r] = 0
        BY <1>4, <2>2 DEF IInv, Placeholders
      <3>2. left = placeholders[r]
        BY <1>0, <2>2 DEF placeholders_left
      <3> QED BY <2>2, <3>1, <3>2
    <2> QED BY <2>1, <2>2
  <1>11. /\ placeholders' \in [Req -> Nat] /\ placeholders'[r] = left
         /\ \A s \in Req : s # r => placeholders'[s] = placeholders[s]
    BY <1>1, <1>3, <1>4, <1>10
  <1>12. /\ status' \in [Req -> {"unknown", "waiting", "running", "preempted", "finished"}]
         /\ status'[r] \in {status[r], "finished"}
         /\ \A s \in Req : s # r => status'[s] = status[s]
         /\ status'[r] # "finished" =>
               status' = status /\ pc' = "update" /\ todo' = todo \ {r} /\ ~check_stop(r, out)
    <2>1. status[r] # "finished"
      BY <1>1 DEF Unfinished
    <2> QED BY <1>1, <1>2, <1>3, <1>4, <2>1
  <1>13. /\ pc' \in {"update", "stopped"} /\ todo' \in {todo, todo \ {r}}
         /\ pc' = "stopped" => todo' = todo /\ status'[r] = "finished" /\ NextTodo' = r
         /\ pc' = "update" => status'[r] = status[r]
    <2>1. pc' = "stopped" => todo' = todo /\ status'[r] = "finished"
      BY <1>1, <1>2, <1>3, <1>4
    <2>2. todo' = todo => NextTodo' = NextTodo
      BY DEF NextTodo
    <2> QED BY <1>0, <1>1, <1>2, <2>1, <2>2
  <1>14. \A s \in Req : Unfinished(s)' => Unfinished(s)
    BY <1>1, <1>12 DEF Unfinished
  <1>15. /\ Len(out) + m <= MaxTokens[r] /\ NumTokens(r)' + m <= MaxModelLen
         /\ MaxTokens[r] \in Nat /\ MaxModelLen \in Nat /\ MinTokens[r] \in Nat
    <2>1. /\ Len(output[r]) + TokensOut(r) <= MaxTokens[r]
          /\ NumTokens(r) + TokensOut(r) <= MaxModelLen
      BY <1>1, <1>4 DEF IInv, Limits
    <2>2. MaxTokens[r] \in Nat /\ MaxModelLen \in Nat /\ MinTokens[r] \in Nat
      BY <1>4, ConstantFacts
    <2>3. o + (1 + m) <= MaxTokens[r] /\ e + (1 + m) <= MaxModelLen
      BY <1>9, <2>1 DEF o, e
    <2> QED BY <1>36, <1>37, <1>9, <2>2, <2>3
  <1>16. Unfinished(r)' => Len(out) < MaxTokens[r] /\ NumTokens(r)' < MaxModelLen
    <2> SUFFICES ASSUME Unfinished(r)'
                 PROVE  Len(out) < MaxTokens[r] /\ NumTokens(r)' < MaxModelLen
      OBVIOUS
    <2>1. ~check_stop(r, out)
      BY <1>12 DEF Unfinished
    <2>2. /\ MinTokens[r] <= MaxTokens[r]
          /\ p + MinTokens[r] <= MaxModelLen
      BY <1>4, ConstantFacts DEF Disciplined, p
    <2>3. \/ Len(out) < MinTokens[r]
          \/ p + Len(out) < MaxModelLen /\ Len(out) < MaxTokens[r]
      <3>1. \/ ~(Len(out) >= MinTokens[r])
            \/ ~(p + Len(out) >= MaxModelLen) /\ ~(Len(out) >= MaxTokens[r])
        BY <2>1 DEF check_stop, p
      <3> QED BY <1>36, <1>15, <3>1
    <2> QED BY <1>36, <1>37, <1>15, <2>2, <2>3
  <1>17. \A s \in Req : Reach(s) = computed[s] /\ Reach(s)' = computed[s]
    <2>1. \A s \in Req : num_scheduled_tokens[s] = 0
      BY <1>1 DEF IInv, Schedules, Scheduled, Scheduling, Executing
    <2> QED BY <1>1, <1>3, <2>1 DEF Reach, Pending
  <1>18. status[r] = "running" =>
            /\ computed[r] >= e + m
            /\ computed[r] <= Len(kv.req_to_blocks[r]) * BlockSize
            /\ computed[r] <= e + placeholders[r]
            /\ computed[r] \in Nat /\ placeholders[r] \in Nat
    <2> SUFFICES ASSUME status[r] = "running"
                 PROVE  /\ computed[r] >= e + m
                        /\ computed[r] <= Len(kv.req_to_blocks[r]) * BlockSize
                        /\ computed[r] <= e + placeholders[r]
                        /\ computed[r] \in Nat /\ placeholders[r] \in Nat
      OBVIOUS
    <2>1. computed[r] + 1 >= e + TokensOut(r)
      <3>1. TokensOut(r) > 0
        BY <1>9
      <3> QED BY <1>4, <3>1 DEF IInv, Computes, e
    <2>2. /\ Reach(r) <= Len(kv.req_to_blocks[r]) * BlockSize
          /\ Reach(r) <= e + placeholders[r]
      BY <1>4 DEF IInv, Tabled, e
    <2>3. computed[r] \in Nat /\ placeholders[r] \in Nat
      BY <1>3, <1>4
    <2>4. computed[r] >= e + m
      BY <1>36, <1>9, <2>1, <2>3
    <2> QED BY <1>4, <1>17, <2>2, <2>3, <2>4
  <1>19. Known' = [Known EXCEPT ![r] = Prompt[r] \o out]
         /\ Prompt[r] \o out \in Seq(Token) /\ Len(Prompt[r] \o out) = e + 1
    <2>1. all_token_ids(r)' = Prompt[r] \o out
      BY <1>7 DEF all_token_ids
    <2>2. \A s \in Req : s # r => all_token_ids(s)' = all_token_ids(s)
      BY <1>7 DEF all_token_ids
    <2>3. \A s \in Req : (IF uses[s] = 0 THEN << >> ELSE all_token_ids(s)')
                           = IF s = r THEN Prompt[r] \o out
                             ELSE (IF uses[s] = 0 THEN << >> ELSE all_token_ids(s))
      <3>1. uses[r] # 0
        BY <1>3, <1>4
      <3> QED BY <2>1, <2>2, <3>1, Zenon
    <2>4. Known' = [Known EXCEPT ![r] = Prompt[r] \o out]
      BY <1>1, <2>3 DEF Known
    <2>5. Prompt[r] \in Seq(Token)
      BY <1>4, ConstantFacts
    <2>6. Prompt[r] \o out \in Seq(Token) /\ Len(Prompt[r] \o out) = p + Len(out)
      <3> DEFINE a == Prompt[r]
      <3>1. a \in Seq(Token) /\ out \in Seq(Token)
        BY <1>6, <2>5
      <3> HIDE DEF a
      <3>2. a \o out \in Seq(Token) /\ Len(a \o out) = Len(a) + Len(out)
        BY <3>1
      <3> QED BY <3>2 DEF a, p
    <2> QED BY <1>36, <2>4, <2>6
  <1>20. /\ Consistent(kv', Known') /\ kv'.fault = "none"
         /\ kv'.req_to_blocks = kv.req_to_blocks
    <2> DEFINE ts == Prompt[r] \o out
    <2>1. Consistent(kv, Known) /\ kv.fault = "none" /\ Known \in [Req -> Seq(Token)]
      BY <1>3, <1>4, KnownFacts DEF IInv, Tabled
    <2>2. Known[r] = all_token_ids(r)
      BY <1>3, <1>4, KnownFacts
    <2>3. /\ Len(Known[r]) <= Len(ts) /\ \A i \in 1 .. Len(Known[r]) : ts[i] = Known[r][i]
      <3>1. Prompt[r] \in Seq(Token) /\ output[r] \in Seq(Token)
        BY <1>4, <1>6, ConstantFacts
      <3>2. all_token_ids(r) = Prompt[r] \o output[r]
        BY DEF all_token_ids
      <3>3. ts = Prompt[r] \o Append(output[r], t)
        BY DEF out
      <3>4. /\ Len(Prompt[r] \o output[r]) <= Len(ts)
            /\ \A i \in 1 .. Len(Prompt[r] \o output[r]) : ts[i] = (Prompt[r] \o output[r])[i]
        <4> DEFINE a == Prompt[r]
                   b == output[r]
        <4>1. a \in Seq(Token) /\ b \in Seq(Token) /\ ts = a \o Append(b, t)
          BY <3>1, <3>3
        <4> HIDE DEF a, b, ts
        <4>2. Len(a \o b) <= Len(ts) /\ \A i \in 1 .. Len(a \o b) : ts[i] = (a \o b)[i]
          BY <1>5, <4>1
        <4> QED BY <4>2 DEF a, b
      <3> QED BY <2>2, <3>2, <3>4
    <2> HIDE DEF ts
    <2>4. ts \in Seq(Token) /\ Len(ts) = e + 1 /\ Known' = [Known EXCEPT ![r] = ts]
      BY <1>19 DEF ts
    <2>5. Consistent(kv, Known')
      BY <1>4, <2>1, <2>3, <2>4, MoreTokensKeeps
    <2>6. Known'[r] = ts
      BY <1>4, <2>1, <2>4
    <2>7. CASE Async /\ status[r] = "running"
      <3> DEFINE num == computed[r] - left
      <3>1. kv' = cache_blocks(kv, r, Known'[r], num)
        BY <1>1, <2>6, <2>7 DEF ts
      <3>2. computed[r] \in Nat /\ computed[r] >= e + m
        BY <1>18, <2>7
      <3>3. num \in Nat /\ num <= computed[r]
        BY <1>36, <1>9, <1>10, <3>2
      <3>4. num <= Len(Known'[r])
        <4>1. computed[r] <= e + placeholders[r] /\ placeholders[r] \in Nat
          BY <1>18, <2>7
        <4>2. placeholders[r] = left + 1
          BY <1>10, <2>7, <4>1
        <4>3. Len(Known'[r]) = e + 1
          BY <2>4, <2>6
        <4> QED BY <1>36, <1>10, <3>2, <4>1, <4>2, <4>3
      <3>5. num <= Len(kv.req_to_blocks[r]) * BlockSize
        <4> DEFINE x == Len(kv.req_to_blocks[r]) * BlockSize
        <4>1. computed[r] <= x
          BY <1>18, <2>7
        <4>2. x \in Nat
          <5>1. kv.req_to_blocks[r] \in Seq(Blocks)
            BY <1>4, <2>5, ManagerFields DEF Consistent
          <5>2. Len(kv.req_to_blocks[r]) \in Nat /\ BlockSize \in Nat
            BY <5>1, ConstantFacts
          <5> QED BY <5>2
        <4> HIDE DEF x, num
        <4>3. num <= x
          BY <3>2, <3>3, <4>1, <4>2
        <4> QED BY <4>3 DEF x
      <3> HIDE DEF num
      <3>6. /\ Consistent(kv', Known') /\ kv'.fault = kv.fault
            /\ kv'.req_to_blocks = kv.req_to_blocks
        BY <1>4, <2>5, <3>1, <3>3, <3>4, <3>5, CacheBlocksKeeps
      <3> QED BY <2>1, <3>6
    <2>8. CASE ~(Async /\ status[r] = "running")
      BY <1>1, <2>1, <2>5, <2>8
    <2> QED BY <2>7, <2>8
  <1>21. /\ First' = Batch(todo', oldest.rows, DOMAIN oldest.token \cap todo')
         /\ Second' = Second
    BY <1>1, <1>4, <1>13 DEF First, Second, oldest, Updating, Executing
  <1>22. ASSUME NEW s \in Req, s # r
         PROVE  /\ TokensOut(s)' = TokensOut(s)
                /\ Claims(First, s)' + Claims(Second, s)' = Claims(First, s) + Claims(Second, s)
    <2>1. s \in todo' <=> s \in todo
      BY <1>13, <1>22
    <2>2. Sampled(First, s)' = Sampled(First, s) /\ Claims(First, s)' = Claims(First, s)
      BY <1>4, <1>21, <2>1 DEF Sampled, Claims, Batch
    <2>3. Sampled(Second, s)' = Sampled(Second, s) /\ Claims(Second, s)' = Claims(Second, s)
      BY <1>21 DEF Sampled, Claims
    <2> QED BY <2>2, <2>3 DEF TokensOut
  <1>23. Unfinished(r)' => /\ TokensOut(r)' = m
                           /\ Claims(First, r)' + Claims(Second, r)' = Claims(Second, r)
    <2> SUFFICES ASSUME Unfinished(r)'
                 PROVE  /\ TokensOut(r)' = m
                        /\ Claims(First, r)' + Claims(Second, r)' = Claims(Second, r)
      OBVIOUS
    <2>1. r \notin todo'
      BY <1>12 DEF Unfinished
    <2>2. Sampled(First, r)' = 0 /\ Claims(First, r)' = 0
      BY <1>21, <2>1 DEF Sampled, Claims, Batch
    <2>3. Sampled(Second, r)' = m /\ Claims(Second, r)' = Claims(Second, r)
      BY <1>21 DEF Sampled, Claims, m
    <2> QED BY <1>9, <2>2, <2>3 DEF TokensOut
  <1>24. Types'
    BY <1>1, <1>4, <1>7, <1>11, <1>12, <1>13 DEF IInv, Types, Updating
  <1>25. Lengths'
    <2>1. ASSUME NEW s \in Req, Unfinished(s)'
          PROVE  uses[s] > 0 /\ NumTokens(s)' < MaxModelLen /\ Len(output'[s]) < MaxTokens[s]
      <3>1. CASE s = r
        BY <1>4, <1>7, <1>16, <2>1, <3>1
      <3>2. CASE s # r
        BY <1>7, <1>8, <1>14, <2>1, <3>2 DEF IInv, Lengths
      <3> QED BY <3>1, <3>2
    <2> QED BY <1>1, <2>1 DEF Lengths
  <1>26. Queues'
    <2>1. running \in Seq(Req) /\ waiting \in Seq(Req)
          /\ Range(running) \subseteq Req /\ Range(waiting) \subseteq Req
      <3>1. running \in Seq(Req) /\ waiting \in Seq(Req)
        BY DEF IInv, Types
      <3> QED BY <3>1, RangeFacts
    <2>2. /\ pc' \in Updating /\ pc \in Updating
          /\ pc' = "update" \/ pc' = "stopped"
      BY <1>1, <1>13 DEF Updating
    <2>3. \A s \in Req : status'[s] = status[s] \/ status'[s] = "finished"
      BY <1>12
    <2>4. Lists(running, {"running"})'
      BY <1>1, <2>1, <2>2, <2>3 DEF IInv, Queues, Lists
    <2>5. Lists(waiting, {"waiting", "preempted"})'
      BY <1>1, <2>1, <2>2, <2>3 DEF IInv, Queues, Lists
    <2> QED BY <1>1, <2>4, <2>5 DEF IInv, Queues
  <1>27. Fitting'
    BY <1>1, <1>13 DEF IInv, Fitting
  <1>28. Tabled'
    <2>1. ASSUME NEW s \in Owners(kv')
          PROVE  status'[s] = "running" \/ (pc' = "stopped" /\ s = NextTodo')
      <3>1. s \in Req /\ status[s] = "running"
        BY <1>1, <1>20 DEF Owners, IInv, Tabled
      <3> QED BY <1>12, <1>13, <3>1
    <2>2. ASSUME NEW s \in Req, status'[s] = "running"
          PROVE  /\ computed[s] > 0
                 /\ computed[s] <= Len(kv.req_to_blocks[s]) * BlockSize
                 /\ computed[s] <= NumTokens(s)' + placeholders'[s]
                 /\ computed[s] < MaxModelLen
      <3>1. status[s] = "running"
        BY <1>12, <2>2
      <3>2. /\ computed[s] > 0 /\ computed[s] <= Len(kv.req_to_blocks[s]) * BlockSize
            /\ computed[s] <= NumTokens(s) + placeholders[s] /\ computed[s] < MaxModelLen
        BY <1>17, <3>1 DEF IInv, Tabled
      <3>3. NumTokens(s) + placeholders[s] <= NumTokens(s)' + placeholders'[s]
        <4>1. CASE s = r
          <5>1. placeholders[r] \in Nat /\ placeholders[r] <= left + 1
            BY <1>3, <1>4, <1>10
          <5>2. placeholders'[r] = left
            BY <1>11
          <5>3. e + placeholders[r] <= e + 1 + left
            BY <1>36, <1>10, <5>1
          <5>4. NumTokens(r) + placeholders[r] <= NumTokens(r)' + placeholders'[r]
            BY <1>37, <5>2, <5>3 DEF e
          <5> QED BY <4>1, <5>4
        <4>2. CASE s # r
          <5>1. NumTokens(s) \in Nat /\ placeholders[s] \in Nat
            BY <1>3, TokenFacts
          <5>2. NumTokens(s)' = NumTokens(s) /\ placeholders'[s] = placeholders[s]
            BY <1>8, <1>11, <4>2
          <5> QED BY <5>1, <5>2
        <4> QED BY <4>1, <4>2
      <3>4. /\ computed[s] \in Nat /\ NumTokens(s) + placeholders[s] \in Nat
            /\ NumTokens(s)' + placeholders'[s] \in Nat
        <4>1. computed[s] \in Nat /\ NumTokens(s) \in Nat /\ placeholders[s] \in Nat
          BY <1>3, TokenFacts
        <4>2. NumTokens(s)' \in Nat
          <5>1. CASE s = r
            BY <1>36, <1>37, <5>1
          <5>2. CASE s # r
            BY <1>8, <4>1, <5>2
          <5> QED BY <5>1, <5>2
        <4>3. placeholders'[s] \in Nat
          BY <1>11
        <4> QED BY <4>1, <4>2, <4>3
      <3> QED BY <3>2, <3>3, <3>4
    <2> QED BY <1>17, <1>20, <2>1, <2>2 DEF Tabled
  <1>29. Schedules'
    BY <1>1, <1>13 DEF IInv, Schedules, Scheduled, Scheduling, Executing
  <1>30. Frames'
    BY <1>1, <1>4, <1>13 DEF IInv, Frames, Scheduling, Executing, Updating, oldest
  <1>31. Placeholders'
    <2>1. CASE ~Async
      BY <1>10, <1>11, <2>1 DEF IInv, Placeholders
    <2>2. CASE Async
      <3>1. ASSUME NEW s \in Req, Unfinished(s)'
            PROVE  /\ TokensOut(s)' <= placeholders'[s]
                   /\ placeholders'[s] <= Claims(First, s)' + Claims(Second, s)'
        <4>1. CASE s = r
          BY <1>10, <1>11, <1>23, <2>2, <3>1, <4>1
        <4>2. CASE s # r
          BY <1>11, <1>14, <1>22, <2>2, <3>1, <4>2 DEF IInv, Placeholders
        <4> QED BY <4>1, <4>2
      <3> QED BY <2>2, <3>1 DEF Placeholders
    <2> QED BY <2>1, <2>2
  <1>32. Computes'
    <2>1. ASSUME NEW s \in Req, status'[s] = "running", TokensOut(s)' > 0
          PROVE  computed[s] + 1 >= NumTokens(s)' + TokensOut(s)'
      <3>1. status[s] = "running" /\ Unfinished(s)'
        BY <1>12, <2>1 DEF Unfinished
      <3>2. CASE s = r
        <4>1. computed[r] >= e + m /\ computed[r] \in Nat /\ TokensOut(r)' = m
          BY <1>18, <1>23, <3>1, <3>2
        <4>2. computed[r] + 1 >= e + 1 + m
          BY <1>36, <1>9, <4>1
        <4> QED BY <1>37, <3>2, <4>1, <4>2
      <3>3. CASE s # r
        BY <1>8, <1>22, <2>1, <3>1, <3>3 DEF IInv, Computes
      <3> QED BY <3>2, <3>3
    <2> QED BY <1>1, <2>1 DEF Computes
  <1>33. Limits'
    <2>1. ASSUME NEW s \in Req, Unfinished(s)'
          PROVE  /\ Len(output'[s]) + TokensOut(s)' <= MaxTokens[s]
                 /\ NumTokens(s)' + TokensOut(s)' <= MaxModelLen
      <3>1. CASE s = r
        BY <1>7, <1>15, <1>23, <2>1, <3>1
      <3>2. CASE s # r
        BY <1>7, <1>8, <1>14, <1>22, <2>1, <3>2 DEF IInv, Limits
      <3> QED BY <3>1, <3>2
    <2> QED BY <2>1 DEF Limits
  <1>34. Waits'
    <2>1. ASSUME NEW s \in Req, status'[s] \in {"waiting", "preempted"}
          PROVE  s \notin Second.reqs
      <3>1. status[s] \in {"waiting", "preempted"}
        BY <1>12, <2>1
      <3> QED BY <3>1 DEF IInv, Waits
    <2> QED BY <1>13, <1>21, <2>1 DEF Waits
  <1>35. OneAtATime'
    <2>1. \A s \in Structured : Unfinished(s)' => Unfinished(s)
      BY <1>14, ConstantFacts
    <2> QED BY <1>1, <1>13, <2>1 DEF IInv, OneAtATime
  <1> QED BY <1>24, <1>25, <1>26, <1>27, <1>28, <1>29, <1>30, <1>31, <1>32, <1>33, <1>34, <1>35 DEF IInv

----------------------------------------------------------------------------
(* The theorems. *)

(* A step that changes nothing keeps the invariant. *)
LEMMA StutterKeeps ==
    ASSUME IInv, UNCHANGED vars
    PROVE  IInv'
  <1>1. UNCHANGED <<kv, status, output, computed, placeholders, uses, running, waiting,
                    finished_req_ids, pc, req_index, fitting, token_budget,
                    num_scheduled_tokens, preempted, deferred, batch_queue, todo, in_batch>>
    BY DEF vars, reqs, queues, sched, batch
  <1>2. First' = First /\ Second' = Second
    <2>1. Rows' = Rows /\ Scheduled' = Scheduled
      BY <1>1 DEF Rows, NewReqs, Scheduled
    <2>2. SampledRows' = SampledRows
      BY <1>1, <2>1 DEF SampledRows, device_toks, all_token_ids, InFlight, FramesOf
    <2> QED BY <1>1, <2>1, <2>2 DEF First, Second, oldest
  <1>3. Placeholders' /\ Computes' /\ Limits'
    <2>1. \A r \in Req : /\ TokensOut(r)' = TokensOut(r)
                         /\ Claims(First, r)' + Claims(Second, r)' = Claims(First, r) + Claims(Second, r)
      BY <1>2 DEF TokensOut, Sampled, Claims
    <2> QED BY <1>1, <2>1, MovesKeep
  <1>4. /\ \A r : Unfinished(r)' = Unfinished(r) /\ NumTokens(r)' = NumTokens(r)
        /\ \A r \in Req : Reach(r)' = Reach(r)
        /\ Known' = Known /\ NextTodo' = NextTodo
    BY <1>1 DEF Unfinished, NumTokens, Reach, Pending, Known, all_token_ids, NextTodo
  <1>5. Types' /\ Lengths'
    BY <1>1, <1>4 DEF IInv, Types, Lengths
  <1>6. Queues' /\ Fitting'
    BY <1>1, <1>4 DEF IInv, Queues, Lists, Fitting, ReachesMaxTokens
  <1>7. Tabled'
    BY <1>1, <1>4 DEF IInv, Tabled
  <1>8. Schedules'
    BY <1>1 DEF IInv, Schedules, Scheduled, ReachesMaxTokens
  <1>9. Frames'
    BY <1>1, <1>4 DEF IInv, Frames, oldest
  <1>10. Waits'
    BY <1>1, <1>2 DEF IInv, Waits
  <1>11. OneAtATime'
    <2>1. SampledRows' = SampledRows
      BY <1>1 DEF SampledRows, device_toks, all_token_ids, InFlight, FramesOf, Rows, NewReqs, Scheduled
    <2> QED BY <1>1, <1>4, <2>1 DEF IInv, OneAtATime
  <1> QED BY <1>3, <1>5, <1>6, <1>7, <1>8, <1>9, <1>10, <1>11 DEF IInv

(* The invariant holds at every step of the scheduler. *)
THEOREM Invariance ==
    ASSUME Disciplined
    PROVE  Spec => []IInv
  <1>1. Init => IInv
    BY InitIInv
  <1>2. IInv /\ [Next]_vars => IInv'
    <2> SUFFICES ASSUME IInv, [Next]_vars PROVE IInv'
      OBVIOUS
    <2>1. ASSUME NEW r \in Req, AddRequest(r) PROVE IInv'
      BY <2>1, AddRequestKeeps
    <2>2. ASSUME NEW r \in Req, AbortRequest(r) PROVE IInv'
      BY <2>2, AbortRequestKeeps
    <2>3. CASE Step
      BY <2>3, BeginStepKeeps, BeginDrainKeeps, SkipRunningKeeps, PickRunningKeeps,
         ScheduleRunningKeeps, PreemptRunningKeeps, EndRunningKeeps, AdmitWaitingKeeps,
         EndWaitingKeeps, FinishScheduleKeeps, ExecuteAndSampleKeeps, ExecuteOnlyKeeps,
         PopBatchKeeps, SkipUpdateKeeps, UpdateThrowsKeeps, UpdateRequestKeeps,
         FreeStoppedKeeps, FinishUpdateKeeps DEF Step
    <2>4. CASE Rest
      BY <2>4, StutterKeeps DEF Rest
    <2>5. CASE UNCHANGED vars
      BY <2>5, StutterKeeps
    <2> QED BY <2>1, <2>2, <2>3, <2>4, <2>5 DEF Next
  <1> QED BY <1>1, <1>2, PTL DEF Spec

(* The tokens the runner holds of a request are those of its two batches;  *)
(* a batch whose sampling is deferred has more to come.                    *)
LEMMA HeldFacts ==
    ASSUME IInv, pc \notin Updating, pc \notin Executing, NEW r \in Req
    PROVE  /\ Len(InFlight(r)) \in Nat /\ TokensOut(r) \in Nat
           /\ Len(InFlight(r)) <= TokensOut(r)
           /\ deferred = NoBatch => Len(InFlight(r)) = TokensOut(r)
           /\ Len(device_toks(r)) = NumTokens(r) + Len(InFlight(r))
  <1> DEFINE one == IF 1 \in FramesOf(r) THEN 1 ELSE 0
             two == IF 2 \in FramesOf(r) THEN 1 ELSE 0
  <1>1. /\ FramesOf(r) = {i \in DOMAIN batch_queue : r \in DOMAIN batch_queue[i].token}
        /\ Len(InFlight(r)) = one + two
        /\ Len(device_toks(r)) = NumTokens(r) + Len(InFlight(r))
    BY InFlightFacts DEF IInv
  <1>2. Len(batch_queue) \in 0 .. 2 /\ DOMAIN batch_queue = 1 .. Len(batch_queue)
        /\ (batch_queue = << >> <=> Len(batch_queue) = 0)
    BY QueueLengths DEF IInv, Frames
  <1>3. Sampled(First, r) = one
    <2>1. CASE batch_queue = << >>
      BY <1>1, <1>2, <2>1, NoBatchFacts DEF First
    <2>2. CASE batch_queue # << >>
      <3>1. First = BatchOf(oldest) /\ 1 \in DOMAIN batch_queue
        BY <1>2, <2>2 DEF First
      <3> QED BY <1>1, <3>1 DEF Sampled, BatchOf, Batch, oldest
    <2> QED BY <2>1, <2>2
  <1>4. /\ Sampled(Second, r) \in 0 .. 1 /\ two <= Sampled(Second, r)
        /\ deferred = NoBatch => two = Sampled(Second, r)
    <2>1. CASE Len(batch_queue) = 2
      <3>1. Second = BatchOf(batch_queue[2]) /\ 2 \in DOMAIN batch_queue
        BY <1>2, <2>1 DEF Second
      <3> QED BY <1>1, <3>1 DEF Sampled, BatchOf, Batch
    <2>2. CASE Len(batch_queue) # 2
      <3>1. 2 \notin DOMAIN batch_queue
        BY <1>2, <2>2
      <3>2. two = 0
        BY <1>1, <3>1
      <3>3. Second = deferred
        BY <2>2 DEF Second
      <3> QED BY <3>2, <3>3, NoBatchFacts DEF Sampled
    <2> QED BY <2>1, <2>2
  <1>5. TokensOut(r) = Sampled(First, r) + Sampled(Second, r)
    BY DEF TokensOut
  <1>6. one \in 0 .. 1 /\ two \in 0 .. 1
    OBVIOUS
  <1> HIDE DEF one, two
  <1> QED BY <1>1, <1>3, <1>4, <1>5, <1>6

(* Scheduling ahead never samples past max_tokens or the model length.     *)
THEOREM LimitsHold ==
    ASSUME Disciplined
    PROVE  Spec => []NeverSamplesPastLimit
  <1>1. IInv => NeverSamplesPastLimit
    <2> SUFFICES ASSUME IInv, pc \in {"idle", "pop"}, NEW r \in Req, Unfinished(r)
                 PROVE  /\ Len(output[r]) + Len(InFlight(r)) <= MaxTokens[r]
                        /\ Len(device_toks(r)) <= MaxModelLen
      BY DEF NeverSamplesPastLimit
    <2>1. /\ Len(InFlight(r)) \in Nat /\ TokensOut(r) \in Nat
          /\ Len(InFlight(r)) <= TokensOut(r)
          /\ Len(device_toks(r)) = NumTokens(r) + Len(InFlight(r))
      BY HeldFacts DEF Updating, Executing
    <2>2. /\ Len(output[r]) + TokensOut(r) <= MaxTokens[r]
          /\ NumTokens(r) + TokensOut(r) <= MaxModelLen
      BY DEF IInv, Limits
    <2>3. /\ Len(output[r]) \in Nat /\ NumTokens(r) \in Nat
          /\ MaxTokens[r] \in Nat /\ MaxModelLen \in Nat
      BY TokenFacts, ConstantFacts DEF IInv, Types
    <2> DEFINE f == Len(InFlight(r))
               n == TokensOut(r)
               o == Len(output[r])
               e == NumTokens(r)
    <2>4. /\ f \in Nat /\ n \in Nat /\ f <= n /\ Len(device_toks(r)) = e + f
          /\ o + n <= MaxTokens[r] /\ e + n <= MaxModelLen /\ o \in Nat /\ e \in Nat
      BY <2>1, <2>2, <2>3
    <2> HIDE DEF f, n, o, e
    <2>5. o + f <= MaxTokens[r] /\ e + f <= MaxModelLen
      BY <2>3, <2>4
    <2> QED BY <2>4, <2>5 DEF o, f
  <1> QED BY <1>1, Invariance, PTL

(* The grammar that masks the row of a structured request has seen all its *)
(* tokens but at most one, which the deferred sampling waits for.          *)
THEOREM GrammarIsExact ==
    ASSUME Disciplined
    PROVE  Spec => []GrammarSeesAllTokens
  <1>1. IInv => GrammarSeesAllTokens
    <2> SUFFICES ASSUME IInv, NEW r \in Structured, Unfinished(r)
                 PROVE  Len(InFlight(r)) <= 1
      BY DEF GrammarSeesAllTokens
    <2>1. r \in Req
      BY ConstantFacts
    <2>2. /\ FramesOf(r) = {i \in DOMAIN batch_queue : r \in DOMAIN batch_queue[i].token}
          /\ Len(InFlight(r)) = (IF 1 \in FramesOf(r) THEN 1 ELSE 0)
                                 + (IF 2 \in FramesOf(r) THEN 1 ELSE 0)
      BY <2>1, InFlightFacts DEF IInv
    <2>3. Len(batch_queue) \in 0 .. 2 /\ DOMAIN batch_queue = 1 .. Len(batch_queue)
      BY QueueLengths DEF IInv, Frames
    <2>4. ~(1 \in FramesOf(r) /\ 2 \in FramesOf(r))
      <3> SUFFICES ASSUME 1 \in FramesOf(r), 2 \in FramesOf(r) PROVE FALSE
        OBVIOUS
      <3>1. Len(batch_queue) = 2
        BY <2>2, <2>3
      <3> QED BY <2>2, <3>1 DEF IInv, OneAtATime
    <2> QED BY <2>2, <2>4
  <1> QED BY <1>1, Invariance, PTL

(* No batch in flight has dropped a row. *)
NoneDropped ==
    /\ \A i \in DOMAIN batch_queue : batch_queue[i].rows = batch_queue[i].reqs
    /\ deferred.rows = deferred.reqs

(* It stays so as long as all that is scheduled has rows. *)
LEMMA InitNoneDropped == Init => NoneDropped
  BY DEF Init, NoneDropped, NoBatch

LEMMA NoneDroppedKept ==
    ASSUME IInv, NoneDropped, ScheduledHaveRows, [Next]_vars
    PROVE  NoneDropped'
  <1>1. batch_queue \in Seq(FrameType)
    BY DEF IInv, Frames
  <1>2. CASE UNCHANGED <<batch_queue, deferred>>
    BY <1>2 DEF NoneDropped
  <1>3. CASE ExecuteAndSample
    <2>1. PICK token : batch_queue' = Append(batch_queue, Frame(Scheduled, Rows, token))
      BY <1>3 DEF ExecuteAndSample
    <2>2. deferred' = deferred /\ Rows = Scheduled
      BY <1>3, ScheduledFacts DEF ExecuteAndSample, ScheduledHaveRows
    <2> DEFINE f == Frame(Scheduled, Rows, token)
    <2>3. f.rows = f.reqs
      BY <2>2 DEF Frame
    <2> HIDE DEF f
    <2>4. \A i \in DOMAIN batch_queue' :
              \/ batch_queue'[i] = f
              \/ i \in DOMAIN batch_queue /\ batch_queue'[i] = batch_queue[i]
      BY <1>1, <2>1 DEF f
    <2> QED BY <2>2, <2>3, <2>4 DEF NoneDropped
  <1>4. CASE ExecuteOnly
    <2>1. batch_queue' = batch_queue /\ Rows = Scheduled
          /\ deferred' = [reqs |-> Scheduled, rows |-> Rows, sampled |-> SampledRows]
      BY <1>4, ScheduledFacts DEF ExecuteOnly, ScheduledHaveRows
    <2> QED BY <2>1 DEF NoneDropped
  <1>5. CASE FinishUpdate
    <2>1. deferred' = NoBatch /\ batch_queue # << >>
      BY <1>5, UpdatingFacts DEF FinishUpdate, Updating
    <2> DEFINE t == Tail(batch_queue)
    <2>2. t \in Seq(FrameType) /\ \A i \in DOMAIN t : t[i].rows = t[i].reqs
      <3>1. Len(batch_queue) \in Nat /\ DOMAIN batch_queue = 1 .. Len(batch_queue)
        BY <1>1
      <3>2. t \in Seq(FrameType) /\ DOMAIN t = 1 .. Len(batch_queue) - 1
            /\ \A i \in DOMAIN t : i + 1 \in DOMAIN batch_queue /\ t[i] = batch_queue[i + 1]
        BY <1>1, <2>1, <3>1
      <3> HIDE DEF t
      <3> QED BY <3>2 DEF NoneDropped
    <2>3. CASE batch_queue' = t
      BY <2>1, <2>2, <2>3, NoBatchFacts DEF NoneDropped
    <2>4. CASE batch_queue' # t
      <3>1. PICK token : batch_queue' = Append(t, Frame(deferred.reqs, deferred.rows, token))
        BY <1>5, <2>4 DEF FinishUpdate
      <3> DEFINE f == Frame(deferred.reqs, deferred.rows, token)
      <3>2. f.rows = f.reqs
        BY DEF Frame, NoneDropped
      <3> HIDE DEF f, t
      <3>3. \A i \in DOMAIN batch_queue' : batch_queue'[i] = f \/ (i \in DOMAIN t /\ batch_queue'[i] = t[i])
        BY <2>2, <3>1 DEF f
      <3> QED BY <2>1, <2>2, <3>2, <3>3, NoBatchFacts DEF NoneDropped
    <2> QED BY <2>3, <2>4
  <1>6. CASE Next /\ ~ExecuteAndSample /\ ~ExecuteOnly /\ ~FinishUpdate
    <2>1. UNCHANGED <<batch_queue, deferred>>
      BY <1>6 DEF Next, Step, Rest, vars, batch, AddRequest, AbortRequest, BeginStep, BeginDrain,
         SkipRunning, PickRunning, ScheduleRunning, PreemptRunning, EndRunning, AdmitWaiting,
         EndWaiting, FinishSchedule, PopBatch, SkipUpdate, UpdateThrows, UpdateRequest, FreeStopped
    <2> QED BY <1>2, <2>1
  <1>7. CASE UNCHANGED vars
    BY <1>2, <1>7 DEF vars, batch
  <1> QED BY <1>3, <1>4, <1>5, <1>6, <1>7

(* A batch is there to be popped: one was queued, or one is deferred that  *)
(* waits for the tokens of another.                                        *)
LEMMA AlwaysBatchToPop ==
    ASSUME Disciplined
    PROVE  Spec => []BatchToPop
  <1>1. Init => BatchToPop
    BY DEF Init, BatchToPop
  <1>2. IInv /\ BatchToPop /\ [Next]_vars => BatchToPop'
    <2> SUFFICES ASSUME IInv, BatchToPop, [Next]_vars, pc' = "pop" PROVE batch_queue' # << >>
      BY DEF BatchToPop
    <2>1. batch_queue \in Seq(FrameType)
      BY DEF IInv, Frames
    <2>2. CASE BeginDrain
      BY <2>2 DEF BeginDrain, batch
    <2>3. CASE ExecuteAndSample
      <3>1. PICK f : batch_queue' = Append(batch_queue, f)
        BY <2>3 DEF ExecuteAndSample
      <3> QED BY <2>1, <3>1
    <2>4. CASE ExecuteOnly
      BY <2>1, <2>4 DEF ExecuteOnly, IInv, Frames
    <2>5. CASE UNCHANGED <<pc, batch_queue>>
      BY <2>5 DEF BatchToPop
    <2>6. ASSUME NEW r \in Req, AddRequest(r) \/ AbortRequest(r)
          PROVE  UNCHANGED <<pc, batch_queue>>
      BY <2>6 DEF AddRequest, AbortRequest, batch
    <2>7. CASE Step
      BY <2>2, <2>3, <2>4, <2>5, <2>7
         DEF Step, BeginStep, SkipRunning, PickRunning, ScheduleRunning, PreemptRunning,
             EndRunning, AdmitWaiting, EndWaiting, FinishSchedule, PopBatch, SkipUpdate,
             UpdateThrows, UpdateRequest, FreeStopped, FinishUpdate, batch
    <2>8. CASE Rest \/ UNCHANGED vars
      BY <2>5, <2>8 DEF Rest, vars, batch
    <2> QED BY <2>5, <2>6, <2>7, <2>8 DEF Next
  <1> QED BY <1>1, <1>2, Invariance, PTL DEF Spec

(* As long as the runner finds a row for whatever is scheduled, the number *)
(* of placeholders is exact, and so is all the scheduler keeps of them.    *)
THEOREM TokensAccounted ==
    ASSUME Disciplined
    PROVE  Spec /\ []ScheduledHaveRows => []TokensInFlightAccounted
  <1>1. Init => NoneDropped
    BY InitNoneDropped
  <1>2. IInv /\ NoneDropped /\ ScheduledHaveRows /\ [Next]_vars => NoneDropped'
    BY NoneDroppedKept
  <1>3. IInv /\ NoneDropped => PlaceholdersExact
    <2> SUFFICES ASSUME IInv, NoneDropped, Async, pc = "idle", NEW r \in Req, Unfinished(r)
                 PROVE  placeholders[r] = Len(InFlight(r))
      BY DEF PlaceholdersExact
    <2>1. deferred = NoBatch
      BY DEF IInv, Frames, Updating
    <2>2. Len(InFlight(r)) = TokensOut(r)
      BY <2>1, HeldFacts DEF Updating, Executing
    <2>3. First.rows = First.reqs /\ Second.rows = Second.reqs
      <3>1. Len(batch_queue) \in 0 .. 2 /\ DOMAIN batch_queue = 1 .. Len(batch_queue)
            /\ (batch_queue = << >> <=> Len(batch_queue) = 0)
        BY QueueLengths DEF IInv, Frames
      <3>2. First.rows = First.reqs
        <4>1. CASE batch_queue = << >>
          BY <4>1, NoBatchFacts DEF First
        <4>2. CASE batch_queue # << >>
          <5>1. First = BatchOf(batch_queue[1]) /\ 1 \in DOMAIN batch_queue
            BY <3>1, <4>2 DEF First, oldest, Updating
          <5> QED BY <5>1 DEF NoneDropped, BatchOf, Batch
        <4> QED BY <4>1, <4>2
      <3>3. Second.rows = Second.reqs
        BY <3>1 DEF Second, NoneDropped, BatchOf, Batch, Executing
      <3> QED BY <3>2, <3>3
    <2>4. First.sampled \subseteq First.reqs /\ Second.sampled \subseteq Second.reqs
      BY BatchFacts DEF IInv
    <2>5. Claims(First, r) = Sampled(First, r) /\ Claims(Second, r) = Sampled(Second, r)
      BY <2>3, <2>4 DEF Claims, Sampled
    <2>6. TokensOut(r) <= placeholders[r] /\ placeholders[r] <= TokensOut(r)
      BY <2>5 DEF IInv, Placeholders, TokensOut
    <2>7. TokensOut(r) \in Nat /\ placeholders[r] \in Nat
      BY DEF TokensOut, Sampled, IInv, Types
    <2> QED BY <2>2, <2>6, <2>7
  <1> QED BY <1>1, <1>2, <1>3, Invariance, LimitsHold, GrammarIsExact, AlwaysBatchToPop, PTL
          DEF Spec, TokensInFlightAccounted

----------------------------------------------------------------------------
(* The scheduler as a client of the KV cache manager.  KVC, the module of  *)
(* the client protocol, has its own copy of the manager's operators: they  *)
(* are this module's.                                                      *)

(* The operators of the manager are those of the instance: what is freed, *)
LEMMA SameFree == \A k, r : KVC!free(k, r) = free(k, r)
  <1>1. \A q, S : KVC!Keep(q, S) = Keep(q, S)
    BY DEF KVC!Keep, Keep, KVC!KeptAt, KeptAt, KVC!RankIn, RankIn, KVC!Cardinality, Cardinality
  <1>2. \A p, b : KVC!free_blocks(p, b) = free_blocks(p, b)
    BY <1>1 DEF KVC!free_blocks, free_blocks, KVC!append_n, append_n, KVC!prepend_n, prepend_n,
                KVC!Blocks, Blocks, KVC!NoHash, NoHash, KVC!Range, Range
  <1> QED BY <1>2 DEF KVC!free, free, KVC!ReverseOf, ReverseOf

(* cached, *)
LEMMA SameCacheBlocks == \A k, r, t, n : KVC!cache_blocks(k, r, t, n) = cache_blocks(k, r, t, n)
  BY DEF KVC!cache_blocks, cache_blocks, KVC!CacheFullBlocksThrows, CacheFullBlocksThrows,
         KVC!cache_full_blocks, cache_full_blocks, KVC!block_hashes, block_hashes,
         KVC!NewFull, NewFull, KVC!Blocks, Blocks, KVC!NoHash, NoHash

(* allocated, *)
LEMMA SameAllocation ==
    /\ \A k, r, t, c, n : KVC!allocate_slots_running(k, r, t, c, n)
                            = allocate_slots_running(k, r, t, c, n)
    /\ \A k, r, t, h, n : KVC!allocate_slots_waiting(k, r, t, h, n)
                            = allocate_slots_waiting(k, r, t, h, n)
  <1>1. \A k, r, n : KVC!allocate_new_blocks(k, r, n) = allocate_new_blocks(k, r, n)
    BY DEF KVC!allocate_new_blocks, allocate_new_blocks, KVC!popleft_n, popleft_n,
           KVC!Greatest, Greatest, KVC!cdiv, cdiv, KVC!get_num_free_blocks, get_num_free_blocks,
           KVC!get_new_blocks, get_new_blocks, KVC!Range, Range, KVC!Blocks, Blocks,
           KVC!remove_cached_block_hashes, remove_cached_block_hashes, KVC!NoHash, NoHash
  <1>2. \A k, r, t, c, n : KVC!SlotsGiven(k, r, t, c, n) = SlotsGiven(k, r, t, c, n)
    BY <1>1, SameCacheBlocks
       DEF KVC!SlotsGiven, SlotsGiven, KVC!SlotTokens, SlotTokens, KVC!Least, Least
  <1>3. \A q, S : KVC!Keep(q, S) = Keep(q, S)
    BY DEF KVC!Keep, Keep, KVC!KeptAt, KeptAt, KVC!RankIn, RankIn, KVC!Cardinality, Cardinality
  <1>4. \A p, b : KVC!touch(p, b) = touch(p, b)
    BY <1>3 DEF KVC!touch, touch, KVC!remove, remove, KVC!Range, Range, KVC!Blocks, Blocks
  <1>5. \A k, r, h : KVC!allocate_new_computed_blocks(k, r, h) = allocate_new_computed_blocks(k, r, h)
    BY <1>4 DEF KVC!allocate_new_computed_blocks, allocate_new_computed_blocks
  <1> QED BY <1>2, <1>5 DEF KVC!allocate_slots_running, allocate_slots_running,
                            KVC!allocate_slots_waiting, allocate_slots_waiting

(* found, *)
LEMMA SameLookup == \A k, t : KVC!get_computed_blocks(k, t) = get_computed_blocks(k, t)
  BY DEF KVC!get_computed_blocks, get_computed_blocks, KVC!find_longest_cache_hit,
         find_longest_cache_hit, KVC!HitUpTo, HitUpTo, KVC!CachedUnder, CachedUnder,
         KVC!get_cached_block, get_cached_block, KVC!block_hashes, block_hashes,
         KVC!Least, Least, KVC!Blocks, Blocks

(* and checked for. *)
LEMMA SameCapacityCheck ==
    \A k, r, c, n, h, f, w : KVC!CanAllocate(k, r, c, n, h, f, w) = CanAllocate(k, r, c, n, h, f, w)
  BY DEF KVC!CanAllocate, CanAllocate, KVC!get_num_blocks_to_allocate, get_num_blocks_to_allocate,
         KVC!Least, Least, KVC!Greatest, Greatest, KVC!cdiv, cdiv,
         KVC!get_num_free_blocks, get_num_free_blocks, KVC!SlotTokens, SlotTokens,
         KVC!Range, Range, KVC!Cardinality, Cardinality

(* The tokens the client counts as computed.                               *)
Mapped == [r \in Req |-> IF r \in Owners(kv) THEN Reach(r) ELSE 0]

(* What the abstract state is made of. *)
LEMMA SameVariables == UNCHANGED <<kv, Known, Mapped>> => UNCHANGED KVC!vars
  BY DEF KVC!vars, KVC!Owners, Owners, Known, Mapped, Reach, Pending, Executing

(* A request without blocks has nothing to give back.                      *)
LEMMA FreeNothing ==
    ASSUME NEW k, NEW toks, Consistent(k, toks), NEW r \in Req, k.req_to_blocks[r] = << >>
    PROVE  free(k, r) = k
  <1>1. /\ k.pool \in PoolType /\ k \in KVType
        /\ k.req_to_blocks \in [Req -> Seq(Blocks)] /\ k.num_cached_block \in [Req -> Nat]
    BY ManagerFields DEF Consistent
  <1>2. k.num_cached_block[r] = 0
    <2>1. k.num_cached_block[r] <= Len(k.req_to_blocks[r])
      BY DEF Consistent, Tables
    <2> QED BY <1>1, <2>1
  <1>3. ReverseOf(<< >>) = << >>
    BY DEF ReverseOf
  <1>4. free_blocks(k.pool, << >>) = k.pool
    <2>1. Range(<< >>) = {}
      BY DEF Range
    <2>2. ASSUME NEW S PROVE Keep(<< >>, S) = << >>
      <3>1. KeptAt(<< >>, S) = {}
        BY DEF KeptAt
      <3>2. Cardinality({}) = 0
        BY FS_EmptySet
      <3>3. [j \in 1 .. 0 |-> << >>[CHOOSE i \in {} : RankIn({}, i) = j - 1]] = << >>
        OBVIOUS
      <3> QED BY <3>1, <3>2, <3>3 DEF Keep
    <2>3. k.pool.free_block_queue \in Seq(Blocks) /\ k.pool.ref_cnt \in [Blocks -> Int]
      BY <1>1, PoolFields DEF PoolType
    <2>4. append_n(prepend_n(k.pool.free_block_queue, << >>), << >>) = k.pool.free_block_queue
      BY <2>3 DEF append_n, prepend_n
    <2>5. [b \in Blocks |-> IF b \in {} THEN k.pool.ref_cnt[b] - 1 ELSE k.pool.ref_cnt[b]] = k.pool.ref_cnt
      BY <2>3
    <2>6. free_blocks(k.pool, << >>) = [k.pool EXCEPT !.free_block_queue = k.pool.free_block_queue,
                                                      !.ref_cnt = k.pool.ref_cnt]
      BY <2>1, <2>2, <2>4, <2>5 DEF free_blocks
    <2> QED BY <1>1, <2>6 DEF PoolType
  <1>5. free(k, r) = [k EXCEPT !.pool = k.pool,
                               !.req_to_blocks = [k.req_to_blocks EXCEPT ![r] = << >>],
                               !.num_cached_block = [k.num_cached_block EXCEPT ![r] = 0]]
    BY <1>3, <1>4 DEF free
  <1>6. /\ [k.req_to_blocks EXCEPT ![r] = << >>] = k.req_to_blocks
        /\ [k.num_cached_block EXCEPT ![r] = 0] = k.num_cached_block
    BY <1>1, <1>2
  <1>7. /\ DOMAIN k = {"pool", "req_to_blocks", "num_cached_block", "fault"}
        /\ k = [f \in DOMAIN k |-> k[f]]
    BY <1>1 DEF KVType
  <1> QED BY <1>5, <1>6, <1>7

(* The client's steps in terms of this module.                             *)
LEMMA IsSubmit ==
    ASSUME NEW r, NEW p, r \notin Owners(kv), Known' = [Known EXCEPT ![r] = p],
           kv' = kv, Mapped' = Mapped
    PROVE  KVC!Submit(r, p)
  BY DEF KVC!Submit, KVC!Owners, Owners, Known, Mapped, Reach, Pending, Executing

(* a release, *)
LEMMA IsRelease ==
    ASSUME NEW r, r \in Owners(kv), kv' = free(kv, r),
           Mapped' = [Mapped EXCEPT ![r] = 0], Known' = Known
    PROVE  KVC!Release(r)
  BY SameFree DEF KVC!Release, KVC!Owners, Owners, Known, Mapped, Reach, Pending, Executing

(* an extension, *)
LEMMA IsExtend ==
    ASSUME NEW r, NEW n, r \in Owners(kv),
           Mapped[r] + n <= Least(Len(Known[r]) + 1, MaxModelLen),
           CanAllocate(kv, r, Mapped[r], n, << >>, 0, 0),
           kv' = allocate_slots_running(kv, r, Known[r], Mapped[r], n),
           Mapped' = [Mapped EXCEPT ![r] = Mapped[r] + n], Known' = Known
    PROVE  KVC!Extend(r, n)
  BY SameAllocation, SameCapacityCheck
     DEF KVC!Extend, KVC!Least, Least, KVC!Owners, Owners, Known, Mapped, Reach, Pending, Executing

(* an admission, *)
LEMMA IsAdmit ==
    ASSUME NEW r, NEW n, NEW w, NEW hits, NEW c, hits = get_computed_blocks(kv, Known[r]),
           c = Len(hits) * BlockSize,
           r \notin Owners(kv), Known[r] # << >>,
           c + n <= Least(Len(Known[r]), MaxModelLen),
           CanAllocate(kv, r, c, n, hits, 0, w),
           kv' = allocate_slots_waiting(kv, r, Known[r], hits, n),
           Mapped' = [Mapped EXCEPT ![r] = c + n], Known' = Known
    PROVE  KVC!Admit(r, n, w)
  BY SameAllocation, SameCapacityCheck, SameLookup
     DEF KVC!Admit, KVC!Least, Least, KVC!Owners, Owners, Known, Mapped, Reach, Pending, Executing

(* an output. *)
LEMMA IsOutput ==
    ASSUME NEW r, NEW t, NEW n, Known[r] # << >>, Len(Known[r]) < MaxModelLen + 1,
           Known' = [Known EXCEPT ![r] = Append(Known[r], t)],
           n <= Mapped[r], n <= Len(Known[r]) + 1,
           kv' = cache_blocks(kv, r, Append(Known[r], t), n), Mapped' = Mapped
    PROVE  KVC!Output(r, t, n)
  BY SameCacheBlocks
     DEF KVC!Output, KVC!Owners, Owners, Known, Mapped, Reach, Pending, Executing

(* The initial states are initial states of the abstract manager. *)
LEMMA InitMapped == Init => KVC!Init
  <1> SUFFICES ASSUME Init PROVE KVC!Init
    OBVIOUS
  <1>1. KVC!InitKV = InitKV
    BY DEF KVC!InitKV, InitKV, KVC!Blocks, Blocks, KVC!NoHash, NoHash
  <1>2. kv = InitKV /\ Owners(kv) = {}
    BY DEF Init, InitKV, Owners
  <1>3. Known = [r \in Req |-> << >>]
    BY DEF Init, Known
  <1>4. Mapped = [r \in Req |-> 0]
    BY <1>2 DEF Mapped
  <1> QED BY <1>1, <1>2, <1>3, <1>4
          DEF KVC!Init, KVC!Owners, Owners, Known, Mapped, Reach, Pending, Executing

(* Steps the manager does not see.                                         *)
LEMMA UnseenBy ==
    ASSUME UNCHANGED <<kv, output, uses>>, \A r \in Req : Reach(r)' = Reach(r)
    PROVE  UNCHANGED KVC!vars
  <1>1. Known' = Known
    BY DEF Known, all_token_ids
  <1>2. Mapped' = Mapped
    BY DEF Mapped, Owners
  <1> QED BY <1>1, <1>2, SameVariables

(* Steps that leave requests and pool alone are stutters. *)
LEMMA QuietSteps ==
    ASSUME \/ BeginStep \/ BeginDrain \/ SkipRunning \/ PickRunning \/ EndRunning \/ EndWaiting
           \/ PopBatch \/ SkipUpdate \/ UpdateThrows \/ FinishUpdate \/ Rest \/ UNCHANGED vars
    PROVE  UNCHANGED KVC!vars
  <1>1. UNCHANGED <<kv, output, uses, computed, num_scheduled_tokens>>
    BY DEF BeginStep, BeginDrain, SkipRunning, PickRunning, EndRunning, EndWaiting, PopBatch,
           SkipUpdate, UpdateThrows, FinishUpdate, Rest, vars, reqs, sched
  <1>2. pc' \in Executing <=> pc \in Executing
    BY DEF BeginStep, BeginDrain, SkipRunning, PickRunning, EndRunning, EndWaiting, PopBatch,
           SkipUpdate, UpdateThrows, FinishUpdate, Rest, vars, Executing, InRunningLoop
  <1> QED BY <1>1, <1>2, UnseenBy DEF Reach, Pending

(* Scheduled tokens count as computed before and after they do.            *)
LEMMA ScheduledCountAsComputed ==
    ASSUME IInv, FinishSchedule \/ ExecuteAndSample \/ ExecuteOnly
    PROVE  UNCHANGED KVC!vars
  <1>1. UNCHANGED <<kv, output, uses>>
    BY DEF FinishSchedule, ExecuteAndSample, ExecuteOnly, reqs
  <1>2. ASSUME NEW r \in Req PROVE Reach(r)' = Reach(r)
    <2>1. computed[r] \in Nat /\ num_scheduled_tokens[r] \in Nat
      BY DEF IInv, Types
    <2>2. CASE FinishSchedule
      <3>1. /\ pc = "assemble" /\ pc' \in {"execute", "execute_only"}
            /\ computed'[r] = computed[r] + num_scheduled_tokens[r]
        BY <2>2 DEF FinishSchedule
      <3> QED BY <2>1, <3>1 DEF Reach, Pending, Executing
    <2>3. CASE ExecuteAndSample \/ ExecuteOnly
      <3>1. /\ pc \in {"execute", "execute_only"} /\ pc' \in {"idle", "pop"}
            /\ computed' = computed /\ num_scheduled_tokens'[r] = 0
        BY <2>3 DEF ExecuteAndSample, ExecuteOnly, EndSchedule, reqs
      <3> QED BY <2>1, <3>1 DEF Reach, Pending, Executing
    <2> QED BY <2>2, <2>3
  <1> QED BY <1>1, <1>2, UnseenBy

(* A request that leaves gives back the blocks it has, if any.             *)
LEMMA GivesBack ==
    ASSUME IInv, NEW r \in Req, kv' = free(kv, r), UNCHANGED <<output, uses>>,
           \A s \in Req : s # r => Reach(s)' = Reach(s)
    PROVE  KVC!Next \/ UNCHANGED KVC!vars
  <1>1. Known' = Known
    BY DEF Known, all_token_ids
  <1>2. Consistent(kv, Known)
    BY DEF IInv, Tabled
  <1>3. kv.req_to_blocks \in [Req -> Seq(Blocks)]
    BY <1>2, ManagerFields
  <1>4. CASE r \in Owners(kv)
    <2>1. Owners(kv') = Owners(kv) \ {r}
      <3>1. kv'.req_to_blocks = [kv.req_to_blocks EXCEPT ![r] = << >>]
        BY <1>2 DEF free, Consistent, KVType
      <3> QED BY <1>3, <3>1 DEF Owners
    <2>2. Mapped' = [Mapped EXCEPT ![r] = 0]
      BY <2>1 DEF Mapped
    <2>3. KVC!Release(r)
      BY <1>1, <1>4, <2>2, IsRelease
    <2> QED BY <2>3 DEF KVC!Next
  <1>5. CASE r \notin Owners(kv)
    <2>1. kv' = kv
      BY <1>2, <1>5, FreeNothing DEF Owners
    <2>2. Mapped' = Mapped
      BY <1>5, <2>1 DEF Mapped, Owners
    <2> QED BY <1>1, <2>1, <2>2, SameVariables
  <1> QED BY <1>4, <1>5

(* Preemption, the end of a request and an abort release, or stutter. *)
LEMMA ReleasesMap ==
    ASSUME IInv, PreemptRunning \/ FreeStopped \/ \E r \in Req : AbortRequest(r)
    PROVE  KVC!Next \/ UNCHANGED KVC!vars
  <1>1. ASSUME NEW r \in Req, AbortRequest(r)
        PROVE  KVC!Next \/ UNCHANGED KVC!vars
    <2>1. /\ kv' = free(kv, r) /\ UNCHANGED <<output, uses, computed, num_scheduled_tokens, pc>>
      BY <1>1 DEF AbortRequest, sched
    <2> QED BY <2>1, GivesBack DEF Reach, Pending
  <1>2. CASE FreeStopped
    <2>1. /\ kv' = free(kv, NextTodo) /\ pc = "stopped" /\ pc' = "update"
          /\ UNCHANGED <<output, uses, computed, num_scheduled_tokens>>
      BY <1>2 DEF FreeStopped, reqs, sched
    <2>2. NextTodo \in Req
      <3>1. todo # {} /\ todo \subseteq Req
        BY <2>1 DEF IInv, Frames, Types
      <3> QED BY <3>1, NextTodoFacts
    <2>3. \A s \in Req : Reach(s)' = Reach(s)
      BY <2>1 DEF Reach, Pending, Executing
    <2> QED BY <2>1, <2>2, <2>3, GivesBack
  <1>3. CASE PreemptRunning
    <2>1. PICK v : v = Victim
      OBVIOUS
    <2>2. /\ kv' = free(kv, v) /\ pc = "fit" /\ pc' \in {"fit", "assemble"}
          /\ computed' = [computed EXCEPT ![v] = 0] /\ UndoScheduled(v)
          /\ UNCHANGED <<output, uses>>
      BY <1>3, <2>1 DEF PreemptRunning
    <2>3. v \in Req
      <3>1. PICK p \in 1 .. Len(running) : running[p] = v
        BY <1>3, <2>1, <2>2, VictimFacts
      <3>2. running \in Seq(Req)
        BY DEF IInv, Types
      <3> QED BY <3>1, <3>2
    <2>4. \A s \in Req : s # v => num_scheduled_tokens'[s] = num_scheduled_tokens[s]
      BY <2>2 DEF UndoScheduled, IInv, Types
    <2>5. \A s \in Req : s # v => computed'[s] = computed[s]
      BY <2>2 DEF IInv, Types
    <2>6. \A s \in Req : s # v => Reach(s)' = Reach(s)
      BY <2>2, <2>4, <2>5 DEF Reach, Pending, Executing
    <2> QED BY <2>2, <2>3, <2>6, GivesBack
  <1> QED BY <1>1, <1>2, <1>3

(* The steps that give or need blocks are steps of the client.             *)
LEMMA AddMaps ==
    ASSUME Disciplined, IInv, NEW r \in Req, AddRequest(r)
    PROVE  KVC!Next
  <1>1. /\ pc = "idle" /\ pc' = "idle" /\ ~Unfinished(r) /\ UNCHANGED <<kv, num_scheduled_tokens>>
        /\ uses' = [uses EXCEPT ![r] = uses[r] + 1]
        /\ output' = [output EXCEPT ![r] = << >>]
        /\ computed' = [computed EXCEPT ![r] = 0]
    BY DEF AddRequest, sched
  <1>2. /\ output \in [Req -> Seq(Token)] /\ uses \in [Req -> 0 .. 2]
        /\ computed \in [Req -> Nat] /\ Prompt[r] \in Seq(Token)
    BY ConstantFacts DEF IInv, Types
  <1>3. /\ uses'[r] # 0 /\ output'[r] = << >>
        /\ \A s \in Req : s # r => /\ uses'[s] = uses[s] /\ output'[s] = output[s]
                                   /\ computed'[s] = computed[s]
    <2>1. uses[r] \in 0 .. 2
      BY <1>2
    <2>2. uses'[r] = uses[r] + 1
      BY <1>1, <1>2
    <2> QED BY <1>1, <1>2, <2>1, <2>2
  <1>4. r \notin Owners(kv)
    BY <1>1 DEF IInv, Tabled, Unfinished
  <1>5. Known' = [Known EXCEPT ![r] = Prompt[r]]
    <2>1. Prompt[r] \o << >> = Prompt[r]
      BY <1>2
    <2>2. all_token_ids(r)' = Prompt[r]
      BY <1>3, <2>1 DEF all_token_ids
    <2>3. \A s \in Req : s # r => all_token_ids(s)' = all_token_ids(s)
      BY <1>3 DEF all_token_ids
    <2>4. \A s \in Req : (IF uses'[s] = 0 THEN << >> ELSE all_token_ids(s)')
                           = IF s = r THEN Prompt[r]
                             ELSE (IF uses[s] = 0 THEN << >> ELSE all_token_ids(s))
      BY <1>3, <2>2, <2>3
    <2> QED BY <2>4 DEF Known
  <1>6. Mapped' = Mapped
    <2>1. Owners(kv') = Owners(kv)
      BY <1>1
    <2>2. \A s \in Owners(kv) : Reach(s)' = Reach(s)
      <3>1. \A s \in Owners(kv) : s \in Req /\ s # r
        BY <1>4 DEF Owners
      <3> QED BY <1>1, <1>3, <3>1 DEF Reach, Pending
    <2> QED BY <2>1, <2>2 DEF Mapped
  <1>7. KVC!Submit(r, Prompt[r])
    BY <1>1, <1>4, <1>5, <1>6, IsSubmit
  <1> QED BY <1>7 DEF KVC!Next

(* The running loop allocates the slots of what it schedules.              *)
LEMMA ScheduleAllocates ==
    ASSUME IInv, ScheduleRunning, NEW r, NEW n, r = fitting[1], n = fitting[2]
    PROVE  /\ pc = "fit" /\ pc' = "running" /\ Fits(r, n)
           /\ kv' = allocate_slots_running(kv, r, all_token_ids(r), computed[r], n)
           /\ num_scheduled_tokens' = [num_scheduled_tokens EXCEPT ![r] = n]
           /\ UNCHANGED <<output, computed, uses>>
           /\ r \in Range(running) /\ n \in Nat \ {0} /\ num_scheduled_tokens[r] = 0
           /\ computed[r] + n <= NumTokens(r) + placeholders[r]
           /\ computed[r] + n < MaxModelLen
           /\ r \in Req /\ status[r] = "running" /\ Unfinished(r) /\ computed[r] \in Nat
           /\ placeholders[r] \in Nat /\ NumTokens(r) \in Nat
           /\ Known[r] = all_token_ids(r) /\ r \in Owners(kv)
           /\ Known' = Known /\ Allocated(kv, kv', Known, r, computed[r], n)
  <1>1. /\ pc = "fit" /\ pc' = "running" /\ Fits(r, n)
        /\ kv' = allocate_slots_running(kv, r, all_token_ids(r), computed[r], n)
        /\ num_scheduled_tokens' = [num_scheduled_tokens EXCEPT ![r] = n]
        /\ UNCHANGED <<output, computed, uses>>
    BY DEF ScheduleRunning, reqs
  <1>2. /\ r \in Range(running) /\ n \in Nat \ {0} /\ num_scheduled_tokens[r] = 0
        /\ computed[r] + n <= NumTokens(r) + placeholders[r]
        /\ computed[r] + n < MaxModelLen
    BY <1>1 DEF IInv, Fitting
  <1>3. /\ r \in Req /\ status[r] = "running" /\ Unfinished(r) /\ computed[r] \in Nat
        /\ placeholders[r] \in Nat /\ NumTokens(r) \in Nat
        /\ Known[r] = all_token_ids(r) /\ r \in Owners(kv)
    BY <1>1, <1>2, RunningFacts DEF Scheduling, Owners
  <1>7. Known' = Known
    BY <1>1 DEF Known, all_token_ids
  <1>8. Allocated(kv, kv', Known, r, computed[r], n)
    <2>1. computed[r] + n <= MaxModelLen
      BY <1>2, <1>3, ConstantFacts
    <2>2. CanAllocate(kv, r, computed[r], n, << >>, 0, 0) /\ Consistent(kv, Known)
      BY <1>1 DEF Fits, IInv, Tabled
    <2>3. kv.req_to_blocks[r] # << >>
      BY <1>3 DEF Owners
    <2> QED BY <1>1, <1>2, <1>3, <2>1, <2>2, <2>3, RunningKeeps
  <1> QED BY <1>1, <1>2, <1>3, <1>7, <1>8

(* A running request that fits is extended, *)
LEMMA ScheduleMaps ==
    ASSUME Disciplined, IInv, ScheduleRunning
    PROVE  KVC!Next
  <1>0. PICK r, n : r = fitting[1] /\ n = fitting[2]
    OBVIOUS
  <1>1. /\ pc = "fit" /\ pc' = "running" /\ Fits(r, n)
        /\ kv' = allocate_slots_running(kv, r, all_token_ids(r), computed[r], n)
        /\ num_scheduled_tokens' = [num_scheduled_tokens EXCEPT ![r] = n]
        /\ UNCHANGED <<output, computed, uses>>
    BY <1>0, ScheduleAllocates
  <1>2. /\ r \in Range(running) /\ n \in Nat \ {0} /\ num_scheduled_tokens[r] = 0
        /\ computed[r] + n <= NumTokens(r) + placeholders[r]
        /\ computed[r] + n < MaxModelLen
    BY <1>0, ScheduleAllocates
  <1>3. /\ r \in Req /\ status[r] = "running" /\ Unfinished(r) /\ computed[r] \in Nat
        /\ placeholders[r] \in Nat /\ NumTokens(r) \in Nat
        /\ Known[r] = all_token_ids(r) /\ r \in Owners(kv)
    BY <1>0, ScheduleAllocates
  <1>4. Mapped[r] = computed[r]
    BY <1>1, <1>2, <1>3 DEF Mapped, Reach, Pending, Executing
  <1>5. placeholders[r] <= 1
    <2>1. CASE Async
      <3>1. placeholders[r] <= Claims(First, r) + Claims(Second, r)
        BY <1>3, <2>1 DEF IInv, Placeholders
      <3>2. Second = NoBatch
        <4>1. deferred = NoBatch
          BY <1>1 DEF IInv, Frames, Updating
        <4>2. Len(batch_queue) # 2
          BY <1>1, QueueLengths DEF IInv, Scheduling, Executing
        <4> QED BY <1>1, <4>1, <4>2 DEF Second, Executing
      <3> QED BY <1>3, <3>1, <3>2, NoBatchFacts DEF Claims
    <2>2. CASE ~Async
      BY <1>3, <2>2 DEF IInv, Placeholders
    <2> QED BY <2>1, <2>2
  <1>6. computed[r] + n <= Least(Len(Known[r]) + 1, MaxModelLen)
    <2>1. Len(Known[r]) = NumTokens(r)
      BY <1>3, TokenFacts DEF IInv, Types
    <2>2. computed[r] + n <= NumTokens(r) + 1 /\ computed[r] + n <= MaxModelLen
      BY <1>2, <1>3, <1>5, ConstantFacts
    <2> QED BY <2>1, <2>2 DEF Least
  <1>7. Known' = Known
    BY <1>0, ScheduleAllocates
  <1>8. Allocated(kv, kv', Known, r, computed[r], n)
    BY <1>0, ScheduleAllocates
  <1>9. Owners(kv') = Owners(kv)
    <2>1. \A s \in Req : s # r => kv'.req_to_blocks[s] = kv.req_to_blocks[s]
      BY <1>8 DEF Allocated
    <2>2. kv'.req_to_blocks[r] # << >>
      <3>1. computed[r] + n <= Len(kv'.req_to_blocks[r]) * BlockSize
        BY <1>8 DEF Allocated
      <3>2. computed[r] + n > 0
        BY <1>2, <1>3
      <3>3. kv'.req_to_blocks[r] = << >> => Len(kv'.req_to_blocks[r]) * BlockSize = 0
        BY ConstantFacts
      <3> QED BY <1>2, <1>3, <3>1, <3>2, <3>3
    <2> QED BY <1>3, <2>1, <2>2 DEF Owners
  <1>10. Mapped' = [Mapped EXCEPT ![r] = Mapped[r] + n]
    <2>1. Reach(r)' = computed[r] + n
      <3>1. num_scheduled_tokens'[r] = n
        BY <1>1, <1>3 DEF IInv, Types
      <3> QED BY <1>1, <3>1 DEF Reach, Pending, Executing
    <2>2. \A s \in Req : s # r => Reach(s)' = Reach(s)
      <3>1. \A s \in Req : s # r => num_scheduled_tokens'[s] = num_scheduled_tokens[s]
        BY <1>1 DEF IInv, Types
      <3> QED BY <1>1, <3>1 DEF Reach, Pending, Executing
    <2>3. \A s \in Req : (IF s \in Owners(kv') THEN Reach(s)' ELSE 0)
                           = IF s = r THEN computed[r] + n
                             ELSE (IF s \in Owners(kv) THEN Reach(s) ELSE 0)
      BY <1>3, <1>9, <2>1, <2>2
    <2> QED BY <1>4, <2>3 DEF Mapped
  <1>11. CanAllocate(kv, r, Mapped[r], n, << >>, 0, 0)
    BY <1>1, <1>4 DEF Fits
  <1>12. KVC!Extend(r, n)
    BY <1>1, <1>3, <1>4, <1>6, <1>7, <1>10, <1>11, IsExtend
  <1>13. n \in 1 .. MaxModelLen
    BY <1>2, <1>3, ConstantFacts
  <1> QED BY <1>3, <1>12, <1>13 DEF KVC!Next

(* An admission allocates the slots of its first step behind its hits.     *)
LEMMA AdmissionAllocates ==
    ASSUME IInv, AdmitWaiting, NEW r, NEW n, NEW c, NEW hits,
           r = Candidate.req, n = Candidate.num_new, c = Candidate.start, hits = Candidate.hits
    PROVE  /\ pc = "waiting" /\ InWaitingLoop /\ CanAdmit(Candidate)
           /\ kv' = allocate_slots_waiting(kv, r, all_token_ids(r), hits, n)
           /\ computed' = [computed EXCEPT ![r] = c]
           /\ num_scheduled_tokens' = [num_scheduled_tokens EXCEPT ![r] = n]
           /\ UNCHANGED <<output, uses, pc>>
           /\ r \in Req /\ hits = get_computed_blocks(kv, Known[r])
           /\ c = Len(hits) * BlockSize /\ c \in Nat
           /\ n \in Nat \ {0} /\ c + n <= NumTokens(r)
           /\ Known[r] = all_token_ids(r) /\ Known[r] # << >>
           /\ kv.req_to_blocks[r] = << >> /\ NumTokens(r) < MaxModelLen
           /\ NumTokens(r) \in Nat /\ Len(Known[r]) = NumTokens(r) /\ MaxModelLen \in Nat
           /\ \E w \in {0, WatermarkBlocks} : CanAllocate(kv, r, c, n, hits, 0, w)
           /\ Allocated(kv, kv', Known, r, c, n) /\ HitsLead(kv, kv', Known, r, hits)
           /\ Known' = Known
  <1>1. /\ pc = "waiting" /\ InWaitingLoop /\ CanAdmit(Candidate)
        /\ kv' = allocate_slots_waiting(kv, r, all_token_ids(r), hits, n)
        /\ computed' = [computed EXCEPT ![r] = c]
        /\ num_scheduled_tokens' = [num_scheduled_tokens EXCEPT ![r] = n]
        /\ UNCHANGED <<output, uses, pc>>
    BY DEF AdmitWaiting, InWaitingLoop
  <1>2. /\ r \in Req /\ hits = get_computed_blocks(kv, Known[r])
        /\ c = Len(hits) * BlockSize /\ c \in Nat
        /\ n \in Nat \ {0} /\ c + n <= NumTokens(r)
        /\ Known[r] = all_token_ids(r) /\ Known[r] # << >>
        /\ kv.req_to_blocks[r] = << >> /\ NumTokens(r) < MaxModelLen
    BY <1>1, CandidateFacts
  <1>3. NumTokens(r) \in Nat /\ Len(Known[r]) = NumTokens(r) /\ MaxModelLen \in Nat
    BY <1>2, TokenFacts, ConstantFacts DEF IInv, Types
  <1>5. PICK w \in {0, WatermarkBlocks} :
            CanAllocate(kv, r, c, n, hits, IF ReserveFullIsl THEN NumTokens(r) ELSE 0, w)
    <2> DEFINE w == IF running # << >> THEN WatermarkBlocks ELSE 0
    <2>1. CanAllocate(kv, r, c, n, hits, IF ReserveFullIsl THEN NumTokens(r) ELSE 0, w)
      BY <1>1 DEF CanAdmit
    <2> QED BY <2>1
  <1>6. CanAllocate(kv, r, c, n, hits, 0, w)
    BY <1>5 DEF CanAllocate
  <1>7. Allocated(kv, kv', Known, r, c, n) /\ HitsLead(kv, kv', Known, r, hits)
    <2> DEFINE f == IF ReserveFullIsl THEN NumTokens(r) ELSE 0
    <2>1. c + n <= MaxModelLen
      BY <1>2, <1>3
    <2>2. w \in Nat /\ Consistent(kv, Known)
      BY ConstantFacts DEF IInv, Tabled
    <2> HIDE DEF f
    <2> QED BY <1>1, <1>2, <1>6, <2>1, <2>2, WaitingKeeps
  <1>8. Known' = Known
    BY <1>1 DEF Known, all_token_ids
  <1> QED BY <1>1, <1>2, <1>3, <1>6, <1>7, <1>8

(* and a waiting one is admitted. *)
LEMMA AdmitMaps ==
    ASSUME IInv, AdmitWaiting
    PROVE  KVC!Next
  <1>0. PICK r, n, c, hits : /\ r = Candidate.req /\ n = Candidate.num_new
                             /\ c = Candidate.start /\ hits = Candidate.hits
    OBVIOUS
  <1>1. /\ computed' = [computed EXCEPT ![r] = c]
        /\ num_scheduled_tokens' = [num_scheduled_tokens EXCEPT ![r] = n]
        /\ pc = "waiting" /\ UNCHANGED <<output, uses, pc>>
        /\ kv' = allocate_slots_waiting(kv, r, all_token_ids(r), hits, n)
    BY <1>0, AdmissionAllocates
  <1>2. /\ r \in Req /\ hits = get_computed_blocks(kv, Known[r])
        /\ c = Len(hits) * BlockSize /\ c \in Nat
        /\ n \in Nat \ {0} /\ c + n <= NumTokens(r)
        /\ Known[r] = all_token_ids(r) /\ Known[r] # << >>
        /\ kv.req_to_blocks[r] = << >> /\ NumTokens(r) < MaxModelLen
    BY <1>0, AdmissionAllocates
  <1>3. NumTokens(r) \in Nat /\ Len(Known[r]) = NumTokens(r) /\ MaxModelLen \in Nat
    BY <1>0, AdmissionAllocates
  <1>4. c + n <= Least(Len(Known[r]), MaxModelLen)
    <2>1. c + n <= MaxModelLen
      BY <1>2, <1>3
    <2> QED BY <1>2, <1>3, <2>1 DEF Least
  <1>6. PICK w \in {0, WatermarkBlocks} : CanAllocate(kv, r, c, n, hits, 0, w)
    BY <1>0, AdmissionAllocates
  <1>7. Allocated(kv, kv', Known, r, c, n)
    BY <1>0, AdmissionAllocates
  <1>8. Known' = Known
    BY <1>0, AdmissionAllocates
  <1>9. Owners(kv') = Owners(kv) \cup {r}
    <2>1. \A s \in Req : s # r => kv'.req_to_blocks[s] = kv.req_to_blocks[s]
      BY <1>7 DEF Allocated
    <2>2. kv'.req_to_blocks[r] # << >>
      <3>1. c + n <= Len(kv'.req_to_blocks[r]) * BlockSize
        BY <1>7 DEF Allocated
      <3>2. c + n > 0
        BY <1>2
      <3>3. kv'.req_to_blocks[r] = << >> => Len(kv'.req_to_blocks[r]) * BlockSize = 0
        BY ConstantFacts
      <3> QED BY <1>2, <3>1, <3>2, <3>3
    <2> QED BY <1>2, <2>1, <2>2 DEF Owners
  <1>10. Mapped' = [Mapped EXCEPT ![r] = c + n]
    <2>1. num_scheduled_tokens \in [Req -> Nat] /\ computed \in [Req -> Nat]
      BY DEF IInv, Types
    <2>2. Reach(r)' = c + n
      <3>1. num_scheduled_tokens'[r] = n /\ computed'[r] = c
        BY <1>1, <1>2, <2>1
      <3> QED BY <1>1, <3>1 DEF Reach, Pending, Executing
    <2>3. \A s \in Req : s # r => Reach(s)' = Reach(s)
      <3>1. \A s \in Req : s # r => /\ num_scheduled_tokens'[s] = num_scheduled_tokens[s]
                                    /\ computed'[s] = computed[s]
        BY <1>1, <2>1
      <3> QED BY <1>1, <3>1 DEF Reach, Pending, Executing
    <2>4. \A s \in Req : (IF s \in Owners(kv') THEN Reach(s)' ELSE 0)
                           = IF s = r THEN c + n
                             ELSE (IF s \in Owners(kv) THEN Reach(s) ELSE 0)
      BY <1>2, <1>9, <2>2, <2>3
    <2> QED BY <2>4 DEF Mapped
  <1>11. KVC!Admit(r, n, w)
    <2>1. r \notin Owners(kv)
      BY <1>2 DEF Owners
    <2>2. kv' = allocate_slots_waiting(kv, r, Known[r], hits, n)
      BY <1>1, <1>2
    <2> QED BY <1>2, <1>4, <1>6, <1>8, <1>10, <2>1, <2>2, IsAdmit
  <1>12. n \in 1 .. MaxModelLen
    BY <1>2, <1>3
  <1> QED BY <1>2, <1>6, <1>11, <1>12 DEF KVC!Next

(* The token that is consumed; what the asynchronous scheduler caches with *)
(* it is computed.                                                         *)
LEMMA OutputFacts ==
    ASSUME IInv, UpdateRequest, NEW r, NEW t, NEW left,
           r = NextTodo, t = oldest.token[r], left = placeholders_left(r)
    PROVE  /\ pc = "update" /\ pc' \in {"update", "stopped"} /\ todo # {}
           /\ Unfinished(r) /\ r \in DOMAIN oldest.token
           /\ output' = [output EXCEPT ![r] = Append(output[r], t)]
           /\ kv' = IF Async /\ status[r] = "running"
                    THEN cache_blocks(kv, r, Append(Known[r], t), computed[r] - left)
                    ELSE kv
           /\ UNCHANGED <<computed, uses, num_scheduled_tokens>>
           /\ r \in todo /\ r \in Req /\ uses[r] > 0 /\ t \in Token
           /\ First = Batch(todo, oldest.rows, DOMAIN oldest.token \cap todo)
           /\ Known \in [Req -> Seq(Token)] /\ Known[r] = all_token_ids(r)
           /\ Len(Known[r]) = NumTokens(r) /\ NumTokens(r) \in Nat \ {0} /\ Known[r] # << >>
           /\ Known' = [Known EXCEPT ![r] = Append(Known[r], t)]
           /\ \A s \in Req : Reach(s) = computed[s] /\ Reach(s)' = computed[s]
           /\ Async /\ status[r] = "running" =>
                 /\ computed[r] - left \in Nat
                 /\ computed[r] - left <= computed[r]
                 /\ computed[r] - left <= Len(Known[r]) + 1
  <1>1. /\ pc = "update" /\ pc' \in {"update", "stopped"} /\ todo # {}
        /\ Unfinished(r) /\ r \in DOMAIN oldest.token
        /\ output' = [output EXCEPT ![r] = Append(output[r], t)]
        /\ kv' = IF Async /\ status[r] = "running"
                 THEN cache_blocks(kv, r, Prompt[r] \o Append(output[r], t), computed[r] - left)
                 ELSE kv
        /\ UNCHANGED <<computed, uses, num_scheduled_tokens>>
    BY DEF UpdateRequest, sched
  <1>2. /\ output \in [Req -> Seq(Token)] /\ computed \in [Req -> Nat]
        /\ placeholders \in [Req -> Nat] /\ num_scheduled_tokens \in [Req -> Nat]
        /\ uses \in [Req -> 0 .. 2]
    BY DEF IInv, Types
  <1>3. /\ oldest \in FrameType /\ r \in todo /\ r \in Req /\ uses[r] > 0
        /\ First = Batch(todo, oldest.rows, DOMAIN oldest.token \cap todo)
    <2>1. pc \in Updating
      BY <1>1 DEF Updating
    <2> QED BY <1>1, <2>1, UpdatingFacts
  <1>4. t \in Token
    <2>1. oldest.token \in Partial(Token)
      BY <1>3 DEF FrameType
    <2>2. PICK S \in SUBSET Req : oldest.token \in [S -> Token]
      BY <2>1 DEF Partial
    <2> QED BY <1>1, <2>2
  <1>5. /\ Known \in [Req -> Seq(Token)] /\ Known[r] = all_token_ids(r)
        /\ Len(Known[r]) = NumTokens(r) /\ NumTokens(r) \in Nat \ {0} /\ Known[r] # << >>
    BY <1>2, <1>3, KnownFacts, TokenFacts
  <1>6. Prompt[r] \o Append(output[r], t) = Append(Known[r], t)
    <2> DEFINE a == Prompt[r]
               b == output[r]
    <2>1. a \in Seq(Token) /\ b \in Seq(Token) /\ Known[r] = a \o b
      BY <1>2, <1>3, <1>5, ConstantFacts DEF all_token_ids
    <2> HIDE DEF a, b
    <2>2. a \o Append(b, t) = Append(a \o b, t)
      BY <1>4, <2>1
    <2> QED BY <2>1, <2>2 DEF a, b
  <1>7. Known' = [Known EXCEPT ![r] = Append(Known[r], t)]
    <2>1. all_token_ids(r)' = Append(Known[r], t)
      BY <1>1, <1>2, <1>3, <1>6 DEF all_token_ids
    <2>2. \A s \in Req : s # r => all_token_ids(s)' = all_token_ids(s)
      BY <1>1, <1>2 DEF all_token_ids
    <2>3. \A s \in Req : (IF uses'[s] = 0 THEN << >> ELSE all_token_ids(s)')
                           = IF s = r THEN Append(Known[r], t)
                             ELSE (IF uses[s] = 0 THEN << >> ELSE all_token_ids(s))
      <3>1. uses[r] # 0 /\ uses' = uses
        BY <1>1, <1>2, <1>3
      <3> QED BY <2>1, <2>2, <3>1
    <2> QED BY <2>3 DEF Known
  <1>9. \A s \in Req : Reach(s) = computed[s] /\ Reach(s)' = computed[s]
    <2>1. \A s \in Req : num_scheduled_tokens[s] = 0
      BY <1>1 DEF IInv, Schedules, Scheduled, Scheduling, Executing
    <2> QED BY <1>1, <1>2, <2>1 DEF Reach, Pending
  <1>10. ASSUME Async, status[r] = "running"
         PROVE  /\ computed[r] - left \in Nat /\ computed[r] - left <= computed[r]
                /\ computed[r] - left <= Len(Known[r]) + 1
    <2> DEFINE e == NumTokens(r)
    <2>0. PICK num : num = computed[r] - left
      OBVIOUS
    <2>3. computed[r] \in Nat
      BY <1>2, <1>3
    <2>5. /\ TokensOut(r) \in Nat /\ TokensOut(r) > 0 /\ TokensOut(r) <= placeholders[r]
          /\ placeholders[r] \in Nat /\ placeholders[r] <= 2
          /\ left = placeholders[r] - 1
      <3>1. Sampled(First, r) = 1 /\ Sampled(Second, r) \in 0 .. 1
        BY <1>1, <1>3 DEF Sampled, Batch
      <3>2. TokensOut(r) <= placeholders[r] /\ placeholders[r] <= Claims(First, r) + Claims(Second, r)
        BY <1>1, <1>3, <1>10 DEF IInv, Placeholders
      <3>3. Claims(First, r) \in 0 .. 1 /\ Claims(Second, r) \in 0 .. 1
        BY DEF Claims
      <3>4. left = placeholders[r] - 1
        BY <1>10 DEF placeholders_left
      <3>5. placeholders[r] \in Nat
        BY <1>2, <1>3
      <3> QED BY <3>1, <3>2, <3>3, <3>4, <3>5 DEF TokensOut
    <2>6. computed[r] + 1 >= e + TokensOut(r) /\ computed[r] <= e + placeholders[r]
      <3>1. computed[r] + 1 >= e + TokensOut(r)
        BY <1>3, <1>10, <2>5 DEF IInv, Computes
      <3>2. Reach(r) <= e + placeholders[r]
        BY <1>3, <1>10 DEF IInv, Tabled
      <3> QED BY <1>3, <1>9, <3>1, <3>2
    <2>7. e \in Nat \ {0} /\ Len(Known[r]) = e
      BY <1>5
    <2> HIDE DEF e
    <2>8. num \in Nat /\ num <= computed[r] /\ num <= Len(Known[r]) + 1
      <3>1. TokensOut(r) > 0 /\ left \in Nat /\ left <= 1 /\ computed[r] <= e + (left + 1)
        BY <2>5, <2>6
      <3>2. computed[r] >= e
        BY <2>3, <2>5, <2>6, <2>7
      <3> QED BY <2>0, <2>3, <2>7, <3>1, <3>2
    <2> QED BY <2>0, <2>8
  <1>11. kv' = IF Async /\ status[r] = "running"
               THEN cache_blocks(kv, r, Append(Known[r], t), computed[r] - left)
               ELSE kv
    BY <1>1, <1>6
  <1> QED BY <1>1, <1>3, <1>4, <1>5, <1>7, <1>9, <1>10, <1>11

(* A token that is consumed: the asynchronous scheduler caches what the    *)
(* confirmed tokens fill, the other one nothing.                           *)
LEMMA OutputMaps ==
    ASSUME Disciplined, IInv, UpdateRequest
    PROVE  KVC!Next
  <1>0. PICK r, t, left : r = NextTodo /\ t = oldest.token[r] /\ left = placeholders_left(r)
    OBVIOUS
  <1>1. /\ pc = "update"
        /\ Unfinished(r)
        /\ kv' = IF Async /\ status[r] = "running"
                 THEN cache_blocks(kv, r, Append(Known[r], t), computed[r] - left)
                 ELSE kv
    BY <1>0, OutputFacts
  <1>2. computed \in [Req -> Nat]
    BY DEF IInv, Types
  <1>3. r \in Req /\ t \in Token
    BY <1>0, OutputFacts
  <1>5. /\ Known \in [Req -> Seq(Token)] /\ Known[r] = all_token_ids(r)
        /\ Len(Known[r]) = NumTokens(r) /\ NumTokens(r) \in Nat \ {0} /\ Known[r] # << >>
    BY <1>0, OutputFacts
  <1>7. Known' = [Known EXCEPT ![r] = Append(Known[r], t)]
    BY <1>0, OutputFacts
  <1>8. NumTokens(r) < MaxModelLen /\ MaxModelLen \in Nat
    BY <1>1, <1>3, ConstantFacts DEF IInv, Lengths
  <1>9. \A s \in Req : Reach(s) = computed[s] /\ Reach(s)' = computed[s]
    BY <1>0, OutputFacts
  <1>10. Consistent(kv, Known)
    BY DEF IInv, Tabled
  <1>11. ASSUME Async, status[r] = "running"
         PROVE  KVC!Next
    <2>0. PICK num : num = computed[r] - left
      OBVIOUS
    <2>1. Owners(kv') = Owners(kv)
      <3>1. kv'.req_to_blocks = kv.req_to_blocks
        BY <1>1, <1>10, <1>11 DEF cache_blocks, Consistent, KVType
      <3> QED BY <3>1 DEF Owners
    <2>2. Mapped' = Mapped
      BY <1>9, <2>1 DEF Mapped
    <2>3. r \in Owners(kv) /\ computed[r] < MaxModelLen /\ computed[r] \in Nat
      <3>1. Reach(r) > 0 /\ Reach(r) <= Len(kv.req_to_blocks[r]) * BlockSize /\ Reach(r) < MaxModelLen
        BY <1>3, <1>11 DEF IInv, Tabled
      <3>2. kv.req_to_blocks[r] = << >> => Len(kv.req_to_blocks[r]) * BlockSize = 0
        BY ConstantFacts
      <3>3. computed[r] \in Nat /\ Reach(r) = computed[r]
        BY <1>2, <1>3, <1>9
      <3>4. kv.req_to_blocks[r] # << >>
        BY <3>1, <3>2, <3>3
      <3> QED BY <1>3, <3>1, <3>3, <3>4 DEF Owners
    <2>4. Mapped[r] = computed[r]
      BY <1>3, <1>9, <2>3 DEF Mapped
    <2>8. num \in Nat /\ num <= computed[r] /\ num <= Len(Known[r]) + 1
      BY <1>0, <1>11, <2>0, OutputFacts
    <2>9. kv' = cache_blocks(kv, r, Append(Known[r], t), num)
      BY <1>1, <1>11, <2>0
    <2>10. Len(Known[r]) < MaxModelLen + 1
      BY <1>5, <1>8
    <2>11. KVC!Output(r, t, num)
      BY <1>5, <1>7, <2>2, <2>4, <2>8, <2>9, <2>10, IsOutput
    <2>12. num \in 0 .. MaxModelLen
      BY <1>8, <2>3, <2>8
    <2> QED BY <1>3, <2>11, <2>12 DEF KVC!Next
  <1>12. ASSUME ~(Async /\ status[r] = "running")
         PROVE  KVC!Next
    <2>1. kv' = kv
      BY <1>1, <1>12
    <2>2. kv = cache_blocks(kv, r, Append(Known[r], t), 0)
      <3>1. kv.num_cached_block[r] \in Nat
        BY <1>3, <1>10, ManagerFields
      <3>2. 0 \div BlockSize = 0
        BY ConstantFacts
      <3> QED BY <3>1, <3>2 DEF cache_blocks
    <2>3. Mapped' = Mapped
      BY <1>9, <2>1 DEF Mapped
    <2>4. 0 <= Mapped[r]
      BY <1>2, <1>3, <1>9 DEF Mapped
    <2>5. Len(Known[r]) < MaxModelLen + 1 /\ 0 <= Len(Known[r]) + 1
      BY <1>5, <1>8
    <2>6. KVC!Output(r, t, 0)
      BY <1>5, <1>7, <2>1, <2>2, <2>3, <2>4, <2>5, IsOutput
    <2>7. 0 \in 0 .. MaxModelLen
      BY <1>8
    <2> QED BY <1>3, <2>6, <2>7 DEF KVC!Next
  <1> QED BY <1>11, <1>12

(* The scheduler keeps the protocol of the KV cache manager: whatever it   *)
(* does to the manager, in whatever order of steps, is what KVCache allows *)
(* a client, so all that is proved of every client holds of it.            *)
THEOREM ProtocolKept ==
    ASSUME Disciplined
    PROVE  Spec => KeepsKVProtocol
  <1>1. ASSUME IInv, [Next]_vars PROVE [KVC!Next]_(KVC!vars)
    <2>1. ASSUME NEW r \in Req, AddRequest(r) PROVE KVC!Next
      BY <1>1, <2>1, AddMaps
    <2>2. CASE \E r \in Req : AbortRequest(r)
      BY <1>1, <2>2, ReleasesMap
    <2>3. CASE Step
      BY <1>1, <2>3, QuietSteps, ScheduledCountAsComputed, ReleasesMap, ScheduleMaps, AdmitMaps,
         OutputMaps DEF Step
    <2>4. CASE Rest \/ UNCHANGED vars
      BY <2>4, QuietSteps
    <2> QED BY <1>1, <2>1, <2>2, <2>3, <2>4 DEF Next
  <1> QED BY <1>1, InitMapped, Invariance, PTL DEF Spec, KVC!Spec, KeepsKVProtocol

----------------------------------------------------------------------------
(* The budget of a step. *)

(* What a step may still schedule and what it has scheduled add up.        *)
Budgets ==
    IF pc \in Scheduling \cup Executing
    THEN token_budget + Total(num_scheduled_tokens) = MaxNumScheduledTokens
    ELSE token_budget = 0

(* A request given n tokens adds them to the sum, and what it had goes. *)
LEMMA TotalScheduled ==
    ASSUME Types, NEW r \in Req, NEW n \in Nat,
           num_scheduled_tokens' = [num_scheduled_tokens EXCEPT ![r] = n]
    PROVE  /\ Total(num_scheduled_tokens) \in Nat /\ num_scheduled_tokens[r] \in Nat
           /\ Total(num_scheduled_tokens') + num_scheduled_tokens[r] = Total(num_scheduled_tokens) + n
           /\ Total(num_scheduled_tokens') \in Nat
  <1>1. num_scheduled_tokens \in [Req -> Nat] /\ IsFiniteSet(Req)
    BY ConstantFacts DEF Types
  <1>2. num_scheduled_tokens[r] \in Nat
    BY <1>1
  <1>3. /\ num_scheduled_tokens' \in [Req -> Nat] /\ num_scheduled_tokens'[r] = n
        /\ \A s \in Req : s # r => num_scheduled_tokens'[s] = num_scheduled_tokens[s]
    BY <1>1
  <1>4. ASSUME NEW f \in [Req -> Nat], NEW g \in [Req -> Nat], g[r] = n,
               \A s \in Req : s # r => g[s] = f[s]
        PROVE  Total(f) \in Nat /\ Total(g) \in Nat /\ Total(g) + f[r] = Total(f) + n
    BY <1>1, <1>4, TotalUpdate
  <1>5. PICK g : g = num_scheduled_tokens'
    OBVIOUS
  <1> QED BY <1>1, <1>2, <1>3, <1>4, <1>5

(* Every step keeps budget and sum together. *)
LEMMA BudgetsKept ==
    ASSUME IInv, Budgets, [Next]_vars
    PROVE  Budgets'
  <1> USE DEF Scheduling, Executing
  <1>1. /\ num_scheduled_tokens \in [Req -> Nat] /\ IsFiniteSet(Req)
        /\ token_budget \in Nat /\ MaxNumScheduledTokens \in Nat
    BY ConstantFacts DEF IInv, Types
  <1>2. CASE \/ SkipRunning \/ PickRunning \/ EndRunning \/ EndWaiting \/ FinishSchedule
    <2>1. /\ UNCHANGED <<token_budget, num_scheduled_tokens>>
          /\ pc \in Scheduling /\ pc' \in Scheduling \cup Executing
      BY <1>2 DEF SkipRunning, PickRunning, EndRunning, EndWaiting, FinishSchedule,
                  InRunningLoop, sched
    <2> QED BY <2>1 DEF Budgets
  <1>3. CASE BeginStep
    <2>1. /\ pc = "idle" /\ pc' = "running" /\ token_budget' = MaxNumScheduledTokens
          /\ num_scheduled_tokens' = num_scheduled_tokens
      BY <1>3 DEF BeginStep
    <2>2. \A r \in Req : num_scheduled_tokens[r] = 0
      BY <2>1 DEF IInv, Schedules, Scheduled
    <2>3. Total(num_scheduled_tokens) = 0
      BY <1>1, <2>2, TotalZero
    <2> QED BY <1>1, <2>1, <2>3 DEF Budgets
  <1>4. CASE ScheduleRunning
    <2>0. PICK r, n : r = fitting[1] /\ n = fitting[2]
      OBVIOUS
    <2>1. /\ pc = "fit" /\ pc' = "running" /\ token_budget' = token_budget - n
          /\ num_scheduled_tokens' = [num_scheduled_tokens EXCEPT ![r] = n]
      BY <1>4, <2>0 DEF ScheduleRunning
    <2>2. r \in Req /\ n \in Nat /\ num_scheduled_tokens[r] = 0
      BY <2>0, <2>1 DEF IInv, Fitting
    <2>3. Types
      BY DEF IInv
    <2>4. /\ Total(num_scheduled_tokens) \in Nat
          /\ Total(num_scheduled_tokens') + 0 = Total(num_scheduled_tokens) + n
          /\ Total(num_scheduled_tokens') \in Nat
      BY <2>1, <2>2, <2>3, TotalScheduled
    <2>5. token_budget + Total(num_scheduled_tokens) = MaxNumScheduledTokens
      BY <2>1 DEF Budgets
    <2>6. token_budget' + Total(num_scheduled_tokens') = MaxNumScheduledTokens
      BY <1>1, <2>1, <2>2, <2>4, <2>5
    <2> QED BY <2>1, <2>6 DEF Budgets
  <1>5. CASE AdmitWaiting
    <2>0. PICK r, n, c : r = Candidate.req /\ n = Candidate.num_new /\ c = Candidate.start
      OBVIOUS
    <2>1. /\ pc = "waiting" /\ pc' = "waiting" /\ InWaitingLoop /\ token_budget' = token_budget - n
          /\ num_scheduled_tokens' = [num_scheduled_tokens EXCEPT ![r] = n]
      BY <1>5, <2>0 DEF AdmitWaiting, InWaitingLoop
    <2>2. r \in Req /\ n \in Nat /\ num_scheduled_tokens[r] = 0
      BY <2>0, <2>1, CandidateFacts
    <2>3. Types
      BY DEF IInv
    <2>4. /\ Total(num_scheduled_tokens) \in Nat
          /\ Total(num_scheduled_tokens') + 0 = Total(num_scheduled_tokens) + n
          /\ Total(num_scheduled_tokens') \in Nat
      BY <2>1, <2>2, <2>3, TotalScheduled
    <2>5. token_budget + Total(num_scheduled_tokens) = MaxNumScheduledTokens
      BY <2>1 DEF Budgets
    <2>6. token_budget' + Total(num_scheduled_tokens') = MaxNumScheduledTokens
      BY <1>1, <2>1, <2>2, <2>4, <2>5
    <2> QED BY <2>1, <2>6 DEF Budgets
  <1>6. CASE PreemptRunning
    <2>0. PICK v : v = Victim
      OBVIOUS
    <2>1. pc = "fit" /\ pc' \in {"fit", "assemble"} /\ UndoScheduled(v)
      BY <1>6, <2>0 DEF PreemptRunning
    <2>2. PICK p \in 1 .. Len(running) :
              /\ running[p] = v
              /\ ~PriorityPolicy => num_scheduled_tokens[v] = 0
      BY <2>0, <2>1, VictimFacts
    <2>3. v \in Req
      <3>1. running \in Seq(Req)
        BY DEF IInv, Types
      <3> QED BY <2>2, <3>1
    <2>4. token_budget + Total(num_scheduled_tokens) = MaxNumScheduledTokens
      BY <2>1 DEF Budgets
    <2>5. CASE num_scheduled_tokens[v] = 0
      <3>1. UNCHANGED <<token_budget, num_scheduled_tokens>>
        BY <2>1, <2>5 DEF UndoScheduled
      <3> QED BY <2>1, <2>4, <3>1 DEF Budgets
    <2>6. CASE num_scheduled_tokens[v] # 0
      <3>1. /\ token_budget' = token_budget + num_scheduled_tokens[v]
            /\ num_scheduled_tokens' = [num_scheduled_tokens EXCEPT ![v] = 0]
        BY <2>1, <2>2, <2>6 DEF UndoScheduled
      <3>2. Types
        BY DEF IInv
      <3>3. /\ Total(num_scheduled_tokens) \in Nat /\ num_scheduled_tokens[v] \in Nat
            /\ Total(num_scheduled_tokens') + num_scheduled_tokens[v] = Total(num_scheduled_tokens) + 0
            /\ Total(num_scheduled_tokens') \in Nat
        BY <2>3, <3>1, <3>2, TotalScheduled
      <3>4. token_budget' + Total(num_scheduled_tokens') = MaxNumScheduledTokens
        BY <1>1, <2>4, <3>1, <3>3
      <3> QED BY <2>1, <3>4 DEF Budgets
    <2> QED BY <2>5, <2>6
  <1>7. CASE ExecuteAndSample \/ ExecuteOnly
    <2>1. token_budget' = 0 /\ pc' \in {"idle", "pop"}
      BY <1>7 DEF ExecuteAndSample, ExecuteOnly, EndSchedule
    <2> QED BY <2>1 DEF Budgets
  <1>8. ASSUME NEW r \in Req, AddRequest(r) \/ AbortRequest(r)
        PROVE  Budgets'
    BY <1>8 DEF AddRequest, AbortRequest, sched, Budgets
  <1>9. CASE \/ BeginDrain \/ PopBatch \/ SkipUpdate \/ UpdateThrows \/ UpdateRequest \/ FreeStopped
            \/ FinishUpdate
    <2>1. /\ token_budget' = token_budget
          /\ pc \in {"idle", "pop", "update", "stopped"} /\ pc' \in {"idle", "pop", "update", "stopped", "dead"}
      BY <1>9 DEF BeginDrain, PopBatch, SkipUpdate, UpdateThrows, UpdateRequest, FreeStopped,
                  FinishUpdate, sched
    <2> QED BY <2>1 DEF Budgets
  <1>10. CASE Rest \/ UNCHANGED vars
    BY <1>10 DEF Rest, vars, sched, Budgets
  <1> QED BY <1>2, <1>3, <1>4, <1>5, <1>6, <1>7, <1>8, <1>9, <1>10 DEF Next, Step

(* So they always are. *)
LEMMA BudgetsHold ==
    ASSUME Disciplined
    PROVE  Spec => [](IInv /\ Budgets)
  <1>1. Init => Budgets
    BY DEF Init, Budgets, Scheduling, Executing
  <1> QED BY <1>1, BudgetsKept, Invariance, PTL DEF Spec

(* Everything stays of its type, and between steps the queues hold exactly *)
(* the requests whose status says so, each once.                           *)
THEOREM TypeCorrect ==
    ASSUME Disciplined
    PROVE  Spec => []TypeInv
  <1>1. ASSUME IInv, Budgets PROVE TypeInv
    <2>1. /\ num_scheduled_tokens \in [Req -> Nat] /\ IsFiniteSet(Req)
          /\ token_budget \in Nat /\ MaxNumScheduledTokens \in Nat
      BY <1>1, ConstantFacts DEF IInv, Types
    <2>2. token_budget \in 0 .. MaxNumScheduledTokens
      <3>1. Total(num_scheduled_tokens) \in Nat
        <4>1. \E n \in Nat : Total(num_scheduled_tokens) = n
          <5>1. TotalOf(num_scheduled_tokens, Req)[Req] \in Nat
            BY <2>1, TotalFacts
          <5> QED BY <2>1, <5>1, TotalFacts
        <4> QED BY <4>1
      <3>2. CASE pc \in Scheduling \cup Executing
        BY <1>1, <2>1, <3>1, <3>2 DEF Budgets
      <3>3. CASE pc \notin Scheduling \cup Executing
        BY <1>1, <2>1, <3>3 DEF Budgets
      <3> QED BY <3>2, <3>3
    <2>3. \A r \in Req : num_scheduled_tokens[r] \in 0 .. MaxNumScheduledTokens
      <3> SUFFICES ASSUME NEW r \in Req
                   PROVE  num_scheduled_tokens[r] \in 0 .. MaxNumScheduledTokens
        OBVIOUS
      <3>1. num_scheduled_tokens[r] \in Nat
        BY <2>1
      <3>2. CASE pc \in Scheduling \cup Executing
        <4> DEFINE g == [num_scheduled_tokens EXCEPT ![r] = 0]
        <4>1. /\ Total(num_scheduled_tokens) \in Nat /\ Total(g) \in Nat
              /\ Total(g) + num_scheduled_tokens[r] = Total(num_scheduled_tokens) + 0
          <5>1. g \in [Req -> Nat] /\ g[r] = 0 /\ \A s \in Req : s # r => g[s] = num_scheduled_tokens[s]
            BY <2>1
          <5> HIDE DEF g
          <5> QED BY <2>1, <5>1, TotalUpdate
        <4>2. token_budget + Total(num_scheduled_tokens) = MaxNumScheduledTokens
          BY <1>1, <3>2 DEF Budgets
        <4> HIDE DEF g
        <4> QED BY <2>1, <3>1, <4>1, <4>2
      <3>3. CASE pc \notin Scheduling \cup Executing
        <4>1. num_scheduled_tokens[r] = 0
          BY <1>1, <3>3 DEF IInv, Schedules, Scheduled
        <4> QED BY <2>1, <4>1
      <3> QED BY <3>2, <3>3
    <2>4. num_scheduled_tokens \in [Req -> 0 .. MaxNumScheduledTokens]
      BY <2>1, <2>3
    <2>5. kv \in KVType
      BY <1>1 DEF IInv, Tabled, Consistent
    <2>6. fitting \in {<< >>} \cup (Req \X Nat)
      <3>1. fitting = << >> \/ fitting \in Req \X (Nat \ {0})
        BY <1>1, Zenon DEF IInv, Fitting
      <3>2. Req \X (Nat \ {0}) \subseteq Req \X Nat
        OBVIOUS
      <3> QED BY <3>1, <3>2
    <2>7. /\ deferred.reqs \subseteq Req /\ deferred.sampled \subseteq deferred.rows
          /\ Len(batch_queue) <= BatchQueueSize
      BY <1>1 DEF IInv, Frames, BatchType
    <2>8. QueuesMatchStatus
      <3>1. running \in Seq(Req) /\ waiting \in Seq(Req)
        BY <1>1 DEF IInv, Types
      <3>2. Range(running) \subseteq Req /\ Range(waiting) \subseteq Req
        BY <3>1, RangeFacts
      <3> QED BY <1>1, <3>2 DEF QueuesMatchStatus, IInv, Queues, Lists, Updating
    <2>9. /\ status \in [Req -> {"unknown", "waiting", "running", "preempted", "finished"}]
          /\ output \in [Req -> Seq(Token)]
          /\ computed \in [Req -> Nat] /\ placeholders \in [Req -> Nat]
          /\ uses \in [Req -> 0 .. 2]
          /\ running \in Seq(Req) /\ waiting \in Seq(Req)
          /\ finished_req_ids \subseteq Req
          /\ pc \in {"idle", "running", "fit", "waiting", "assemble", "execute", "execute_only",
                     "pop", "update", "stopped", "dead"}
          /\ req_index \in Nat \ {0}
          /\ preempted \in BOOLEAN
          /\ todo \subseteq Req /\ in_batch \subseteq Req
      BY <1>1 DEF IInv, Types, Scheduling, Executing, Updating
    <2> QED BY <2>2, <2>4, <2>5, <2>6, <2>7, <2>8, <2>9 DEF TypeInv
  <1> QED BY <1>1, BudgetsHold, PTL

(* A preemption in the middle of a step takes back all that the step had   *)
(* done for its victim: what is scheduled and the budget add up, nobody    *)
(* without blocks for its tokens is handed to the runner, and the running  *)
(* list never outgrows max_num_seqs.                                       *)
THEOREM PreemptionUndone ==
    ASSUME Disciplined
    PROVE  Spec => []PreemptionIsUndone
  <1>1. ASSUME IInv, Budgets PROVE PreemptionIsUndone
    <2>1. pc \in {"running", "fit", "waiting", "assemble"} =>
              token_budget + FoldFunction(+, 0, num_scheduled_tokens) = MaxNumScheduledTokens
      BY <1>1 DEF Budgets, Total, Scheduling
    <2>2. Len(running) <= MaxNumRunningReqs
      BY <1>1 DEF IInv, Queues
    <2>3. ASSUME pc \in {"assemble", "execute", "execute_only"}, NEW r \in Scheduled
          PROVE  /\ status[r] = "running"
                 /\ computed[r] + (IF pc = "assemble" THEN num_scheduled_tokens[r] ELSE 0)
                      <= Len(kv.req_to_blocks[r]) * BlockSize
      <3>1. r \in Req /\ status[r] = "running"
        BY <1>1 DEF IInv, Schedules, Scheduled
      <3>2. Reach(r) <= Len(kv.req_to_blocks[r]) * BlockSize
        BY <1>1, <3>1 DEF IInv, Tabled
      <3>3. Reach(r) = computed[r] + (IF pc = "assemble" THEN num_scheduled_tokens[r] ELSE 0)
        BY <2>3 DEF Reach, Pending, Executing
      <3> QED BY <3>1, <3>2, <3>3
    <2> QED BY <2>1, <2>2, <2>3 DEF PreemptionIsUndone
  <1> QED BY <1>1, BudgetsHold, PTL

----------------------------------------------------------------------------
(* Admissions *)

(* The watermark an admission finds while others run is still free after   *)
(* it, and so are the blocks for the rest of a sequence that has to fit as *)
(* a whole: the admission took what the check had counted.                 *)
LEMMA AdmitLeavesRoom ==
    ASSUME IInv, AdmitWaiting, running # << >>, NEW r, r = Candidate.req
    PROVE  LET rest == IF ReserveFullIsl
                       THEN cdiv(NumTokens(r), BlockSize) - Len(kv'.req_to_blocks[r])
                       ELSE 0
           IN  get_num_free_blocks(kv'.pool) >= WatermarkBlocks + rest
  <1>0. PICK n, c, hits : /\ n = Candidate.num_new /\ c = Candidate.start
                          /\ hits = Candidate.hits
    OBVIOUS
  <1>1. /\ InWaitingLoop /\ CanAdmit(Candidate)
        /\ kv' = allocate_slots_waiting(kv, r, all_token_ids(r), hits, n)
    BY <1>0 DEF AdmitWaiting
  <1>2. /\ r \in Req /\ hits = get_computed_blocks(kv, Known[r])
        /\ c = Len(hits) * BlockSize /\ c \in Nat
        /\ n \in Nat \ {0} /\ c + n <= NumTokens(r)
        /\ Known[r] = all_token_ids(r) /\ Known[r] # << >>
        /\ kv.req_to_blocks[r] = << >> /\ NumTokens(r) < MaxModelLen
    BY <1>0, <1>1, CandidateFacts
  <1>3. NumTokens(r) \in Nat /\ MaxModelLen \in Nat /\ BlockSize \in Nat \ {0}
        /\ WatermarkBlocks \in Nat /\ Consistent(kv, Known)
    BY <1>2, TokenFacts, ConstantFacts DEF IInv, Types, Tabled
  <1>4. CanAllocate(kv, r, c, n, hits, IF ReserveFullIsl THEN NumTokens(r) ELSE 0,
                    WatermarkBlocks)
    BY <1>0, <1>1 DEF CanAdmit
  <1>5. AsEstimated(kv, kv', r, c + n, hits)
    <2> DEFINE f == IF ReserveFullIsl THEN NumTokens(r) ELSE 0
    <2>1. c + n <= MaxModelLen
      BY <1>2, <1>3
    <2> HIDE DEF f
    <2>2. CanAllocate(kv, r, c, n, hits, f, WatermarkBlocks)
      BY <1>4 DEF f
    <2> QED BY <1>1, <1>2, <1>3, <2>1, <2>2, WaitingKeeps
  (* The blocks idle before that the hits take, those the first tokens and *)
  (* those the whole sequence need beyond the hits.                        *)
  <1> DEFINE idle == Cardinality({b \in Range(hits) : kv.pool.ref_cnt[b] = 0})
             upto(t) == Greatest(cdiv(t, BlockSize) - Len(hits), 0)
             free0 == get_num_free_blocks(kv.pool)
             free1 == get_num_free_blocks(kv'.pool)
             table == Len(kv'.req_to_blocks[r])
  <1>6. \A t : get_num_blocks_to_allocate(kv, r, t, hits) = upto(t) + idle
    <2>1. hits \in Seq(Blocks) /\ Len(hits) \in Nat
      BY <1>2, <1>3, LookupFacts, ManagerFields DEF Consistent
    <2>2. 0 + Len(hits) = Len(hits) /\ Len(kv.req_to_blocks[r]) = 0
      BY <1>2, <2>1
    <2> QED BY <2>2 DEF get_num_blocks_to_allocate
  <1>7. /\ idle \in Nat /\ Len(hits) \in Nat /\ free0 \in Nat
    <2>1. kv.pool \in PoolType /\ HashMapOK(kv.pool) /\ Known[r] \in Seq(Token)
      BY <1>2, <1>3, ManagerFields DEF Consistent
    <2>2. hits \in Seq(Blocks) /\ IsInjective(hits)
      BY <1>2, <2>1, LookupFacts
    <2>3. IsFiniteSet(Range(hits))
          /\ {b \in Range(hits) : kv.pool.ref_cnt[b] = 0} \in SUBSET Range(hits)
      BY <2>2, InjectiveLen
    <2> QED BY <2>1, <2>2, <2>3, FS_Subset, FS_CardinalityType, PoolFields DEF get_num_free_blocks
  <1>8. cdiv(c + n, BlockSize) \in Nat /\ cdiv(NumTokens(r), BlockSize) \in Nat
    <2>1. c + n \in Nat
      BY <1>2
    <2>2. \A t \in Nat : cdiv(t, BlockSize) \in Nat
      BY <1>3, CdivCovers
    <2> QED BY <1>3, <2>1, <2>2
  <1>9. upto(c + n) + idle + WatermarkBlocks <= free0
    <2>1. SlotTokens(c, n) = c + n
      BY <1>2, <1>3 DEF SlotTokens, Least
    <2> QED BY <1>4, <1>6, <2>1 DEF CanAllocate
  <1>10. ReserveFullIsl => upto(NumTokens(r)) + idle + WatermarkBlocks <= free0
    <2>1. Least(NumTokens(r), MaxModelLen) = NumTokens(r) /\ NumTokens(r) # 0
      BY <1>2, <1>3 DEF Least
    <2> QED BY <1>4, <1>6, <2>1 DEF CanAllocate
  <1>11. /\ free1 = free0 - (upto(c + n) + idle)
         /\ table = Greatest(cdiv(c + n, BlockSize), Len(hits))
    BY <1>5, <1>6 DEF AsEstimated
  <1> HIDE DEF free0, free1, table, idle
  <1>12. /\ free1 >= WatermarkBlocks
         /\ ReserveFullIsl => free1 >= WatermarkBlocks + (cdiv(NumTokens(r), BlockSize) - table)
    <2> DEFINE full == cdiv(NumTokens(r), BlockSize)
               part == cdiv(c + n, BlockSize)
               hit == Len(hits)
    <2>1. full \in Nat /\ part \in Nat /\ hit \in Nat /\ idle \in Nat /\ free0 \in Nat
      BY <1>7, <1>8
    <2>2. Greatest(part - hit, 0) + idle + WatermarkBlocks <= free0
      BY <1>9
    <2>3. ReserveFullIsl => Greatest(full - hit, 0) + idle + WatermarkBlocks <= free0
      BY <1>10
    <2>4. /\ free1 = free0 - (Greatest(part - hit, 0) + idle)
          /\ table = Greatest(part, hit)
      BY <1>11
    <2> HIDE DEF full, part, hit
    <2>5. free1 >= WatermarkBlocks
      BY <1>3, <2>1, <2>2, <2>4 DEF Greatest
    <2>6. ReserveFullIsl => free1 >= WatermarkBlocks + (full - table)
      BY <1>3, <2>1, <2>3, <2>4 DEF Greatest
    <2> QED BY <2>5, <2>6 DEF full
  <1> QED BY <1>3, <1>7, <1>12 DEF free1, table

(* Whoever else moves, only an admission puts somebody into the running    *)
(* list.                                                                   *)
LEMMA OnlyAdmissionAdmits ==
    ASSUME IInv, [Next]_vars, NEW r \in Req, r \notin Range(running), r \in Range(running')
    PROVE  AdmitWaiting /\ r = Candidate.req
  <1>0. running \in Seq(Req)
    BY DEF IInv, Types
  <1>1. \A S : Range(Keep(running, S)) \subseteq Range(running)
    BY <1>0, KeepFacts
  <1>2. \A s \in Req : ~AddRequest(s)
    BY DEF AddRequest
  <1>3. \A s \in Req : ~AbortRequest(s)
    BY <1>1 DEF AbortRequest, LeaveQueue
  <1>4. ~BeginStep /\ ~BeginDrain /\ ~SkipRunning /\ ~PickRunning /\ ~ScheduleRunning
        /\ ~EndRunning /\ ~EndWaiting
    BY DEF BeginStep, BeginDrain, SkipRunning, PickRunning, ScheduleRunning, EndRunning,
           EndWaiting, queues
  <1>5. ~PreemptRunning
    BY <1>1 DEF PreemptRunning
  <1>6. ~FinishSchedule /\ ~ExecuteAndSample /\ ~ExecuteOnly
    BY DEF FinishSchedule, ExecuteAndSample, ExecuteOnly, queues
  <1>7. ~PopBatch /\ ~SkipUpdate /\ ~UpdateThrows /\ ~UpdateRequest /\ ~FreeStopped
    BY DEF PopBatch, SkipUpdate, UpdateThrows, UpdateRequest, FreeStopped, queues
  <1>8. ~FinishUpdate
    BY <1>1 DEF FinishUpdate
  <1>9. ~Rest /\ ~(UNCHANGED vars)
    BY DEF Rest, vars, queues
  <1>10. AdmitWaiting
    BY <1>2, <1>3, <1>4, <1>5, <1>6, <1>7, <1>8, <1>9 DEF Next, Step
  <1>11. running' = Append(running, Candidate.req) /\ Candidate.req \in Req
    <2>1. InWaitingLoop
      BY <1>10 DEF AdmitWaiting
    <2>2. Candidate.req \in Req
      BY <2>1, CandidateFacts
    <2> QED BY <1>10, <2>2 DEF AdmitWaiting
  <1>12. Range(running') = Range(running) \cup {Candidate.req}
    BY <1>0, <1>11, AppendFacts
  <1> QED BY <1>10, <1>12

(* An admission while others run leaves the watermark free and, when the   *)
(* whole sequence must fit, the blocks the rest of it will take: what      *)
(* get_num_blocks_to_allocate estimates is what allocate_slots takes,      *)
(* whatever the hits, the partial last block and the sharing.              *)
THEOREM RoomIsLeft ==
    ASSUME Disciplined
    PROVE  Spec => AdmissionLeavesRoom
  <1> DEFINE A == \A r \in Req :
         (r \notin Range(running) /\ r \in Range(running') /\ running # << >>) =>
             LET rest == IF ReserveFullIsl
                         THEN cdiv(NumTokens(r), BlockSize) - Len(kv'.req_to_blocks[r])
                         ELSE 0
             IN  get_num_free_blocks(kv'.pool) >= WatermarkBlocks + rest
  <1>1. ASSUME IInv, [Next]_vars PROVE A
    BY <1>1, OnlyAdmissionAdmits, AdmitLeavesRoom
  <1> QED BY <1>1, Invariance, PTL DEF Spec, AdmissionLeavesRoom

----------------------------------------------------------------------------
(* First come, first served.  The line is the running list and then the    *)
(* waiting queue.                                                          *)

(* A line that only grows at its end keeps its order. *)
LEMMA LongerLine ==
    ASSUME NEW l, NEW m, NEW r, NEW s, Ahead(l, r, s),
           \A i \in DOMAIN l : i \in DOMAIN m /\ m[i] = l[i]
    PROVE  Ahead(m, r, s)
  BY DEF Ahead

(* The entries of two lists in a row. *)
LEMMA InARow ==
    ASSUME NEW E, NEW p \in Seq(E), NEW q \in Seq(E)
    PROVE  /\ p \o q \in Seq(E)
           /\ DOMAIN (p \o q) = 1 .. Len(p) + Len(q)
           /\ \A i \in 1 .. Len(p) + Len(q) :
                (p \o q)[i] = IF i <= Len(p) THEN p[i] ELSE q[i - Len(p)]
           /\ Range(p \o q) = Range(p) \cup Range(q)
  <1>1. /\ p \o q \in Seq(E) /\ DOMAIN (p \o q) = 1 .. Len(p) + Len(q)
        /\ \A i \in 1 .. Len(p) + Len(q) :
             (p \o q)[i] = IF i <= Len(p) THEN p[i] ELSE q[i - Len(p)]
    OBVIOUS
  <1>2. Range(p \o q) = Range(p) \cup Range(q)
    BY ConcatFacts
  <1> QED BY <1>1, <1>2

(* Keeping all of a list keeps every entry at its place. *)
LEMMA PlacesAll ==
    ASSUME NEW E, NEW q \in Seq(E)
    PROVE  \E g : Places(q, E, q, g)
  <1> DEFINE g == [i \in 1 .. Len(q) |-> i]
  <1>1. Len(q) \in Nat /\ \A i \in 1 .. Len(q) : q[i] \in E /\ g[i] = i
    OBVIOUS
  <1>2. g \in [1 .. Len(q) -> 1 .. Len(q)]
    OBVIOUS
  <1> HIDE DEF g
  <1>3. Places(q, E, q, g)
    BY <1>1, <1>2 DEF Places
  <1> QED BY <1>3

(* Two that are both kept stay in their order, in one list and across two. *)
LEMMA KeptInOrder ==
    ASSUME NEW E, NEW p \in Seq(E), NEW q \in Seq(E), NEW k \in Seq(E), NEW l \in Seq(E),
           NEW S, NEW T, NEW g, NEW h, Places(p, S, k, g), Places(q, T, l, h),
           NEW r, NEW s, Ahead(p \o q, r, s),
           \A x \in {r, s} : (x \in Range(p) => x \in S) /\ (x \in Range(q) => x \in T)
    PROVE  Ahead(k \o l, r, s)
  <1>0. /\ Len(p) \in Nat /\ Len(q) \in Nat /\ Len(k) \in Nat /\ Len(l) \in Nat
    OBVIOUS
  <1>1. PICK i, j \in 1 .. Len(p) + Len(q) : i < j /\ (p \o q)[i] = r /\ (p \o q)[j] = s
    BY InARow DEF Ahead
  (* Where an entry of the line goes. *)
  <1> DEFINE To(x, a, b) ==
        /\ b \in 1 .. Len(k) + Len(l)
        /\ (k \o l)[b] = x
        /\ IF a <= Len(p) THEN b <= Len(k) /\ g[b] = a
                          ELSE b > Len(k) /\ h[b - Len(k)] = a - Len(p)
  <1>2. ASSUME NEW x \in {r, s}, NEW a \in 1 .. Len(p) + Len(q), (p \o q)[a] = x
        PROVE  \E b : To(x, a, b)
    <2>1. CASE a <= Len(p)
      <3>1. a \in 1 .. Len(p) /\ p[a] = x
        BY <1>0, <1>2, <2>1, InARow
      <3>2. x \in S
        BY <3>1, RangeFacts
      <3>3. PICK b \in 1 .. Len(k) : g[b] = a
        BY <3>1, <3>2 DEF Places
      <3>4. k[b] = x
        BY <3>1, <3>3 DEF Places
      <3>5. b \in 1 .. Len(k) + Len(l) /\ b <= Len(k) /\ (k \o l)[b] = x
        BY <1>0, <3>3, <3>4, InARow
      <3> QED BY <2>1, <3>3, <3>5
    <2>2. CASE ~(a <= Len(p))
      <3> DEFINE c == a - Len(p)
      <3>1. c \in 1 .. Len(q) /\ q[c] = x
        BY <1>0, <1>2, <2>2, InARow
      <3>2. x \in T
        BY <3>1, RangeFacts
      <3>3. PICK d \in 1 .. Len(l) : h[d] = c
        BY <3>1, <3>2 DEF Places
      <3>4. l[d] = x
        BY <3>1, <3>3 DEF Places
      <3> DEFINE b == Len(k) + d
      <3>5. b \in 1 .. Len(k) + Len(l) /\ b > Len(k) /\ b - Len(k) = d
        BY <1>0, <3>3
      <3>6. (k \o l)[b] = x
        BY <1>0, <3>4, <3>5, InARow
      <3> HIDE DEF b
      <3> QED BY <2>2, <3>3, <3>5, <3>6
    <2> QED BY <2>1, <2>2
  <1>3. PICK b : To(r, i, b)
    BY <1>1, <1>2
  <1>4. PICK c : To(s, j, c)
    BY <1>1, <1>2
  <1>5. b < c
    <2>1. CASE j <= Len(p)
      <3>1. /\ b \in 1 .. Len(k) /\ g[b] = i /\ c \in 1 .. Len(k) /\ g[c] = j
        BY <1>0, <1>1, <1>3, <1>4, <2>1
      <3>2. \A x, y \in 1 .. Len(k) : x < y => g[x] < g[y]
        BY DEF Places
      <3>3. ASSUME c < b PROVE FALSE
        <4>1. g[c] < g[b]
          BY <3>1, <3>2, <3>3
        <4> QED BY <1>1, <3>1, <4>1
      <3>4. c # b
        BY <1>1, <3>1
      <3> QED BY <1>0, <3>1, <3>3, <3>4
    <2>2. CASE i <= Len(p) /\ ~(j <= Len(p))
      BY <1>0, <1>3, <1>4, <2>2
    <2>3. CASE ~(i <= Len(p)) /\ ~(j <= Len(p))
      <3> DEFINE u == b - Len(k)
                 v == c - Len(k)
      <3>1. /\ u \in 1 .. Len(l) /\ h[u] = i - Len(p) /\ v \in 1 .. Len(l) /\ h[v] = j - Len(p)
        BY <1>0, <1>3, <1>4, <2>3
      <3>2. \A x, y \in 1 .. Len(l) : x < y => h[x] < h[y]
        BY DEF Places
      <3>3. h[u] < h[v]
        BY <1>0, <1>1, <3>1
      <3>4. h[u] \in Int /\ h[v] \in Int
        BY <1>0, <1>1, <3>1
      <3> HIDE DEF u, v
      <3>5. ~(v < u) /\ v # u
        BY <3>1, <3>2, <3>3, <3>4
      <3>6. u < v
        BY <3>1, <3>5
      <3> QED BY <1>0, <1>3, <1>4, <3>6 DEF u, v
    <2> QED BY <1>0, <1>1, <2>1, <2>2, <2>3
  <1>6. b \in DOMAIN (k \o l) /\ c \in DOMAIN (k \o l)
    BY <1>3, <1>4, InARow
  <1> QED BY <1>3, <1>4, <1>5, <1>6 DEF Ahead

(* An arrival queues up at the end. *)
LEMMA ArrivalIsLast ==
    ASSUME IInv, ~PriorityPolicy, NEW x \in Req, AddRequest(x), NEW r, NEW s,
           Ahead(running \o waiting, r, s)
    PROVE  Ahead(running' \o waiting', r, s)
  <1>1. running \in Seq(Req) /\ waiting \in Seq(Req)
    BY DEF IInv, Types
  <1>2. running' = running /\ waiting' = Append(waiting, x)
    BY DEF AddRequest, queue_add_request
  <1>3. \A i \in 1 .. Len(running) + Len(waiting) :
            /\ i \in 1 .. Len(running) + Len(Append(waiting, x))
            /\ (running \o Append(waiting, x))[i] = (running \o waiting)[i]
    <2>1. Append(waiting, x) \in Seq(Req) /\ Len(Append(waiting, x)) = Len(waiting) + 1
          /\ \A i \in 1 .. Len(waiting) : Append(waiting, x)[i] = waiting[i]
      BY <1>1
    <2>2. Len(running) \in Nat /\ Len(waiting) \in Nat
      BY <1>1
    <2> QED BY <1>1, <2>1, <2>2, InARow
  <1>4. /\ DOMAIN (running \o waiting) = 1 .. Len(running) + Len(waiting)
        /\ DOMAIN (running \o Append(waiting, x)) = 1 .. Len(running) + Len(Append(waiting, x))
    <2>1. Append(waiting, x) \in Seq(Req)
      BY <1>1
    <2> QED BY <1>1, <2>1, InARow
  <1>5. Ahead(running \o Append(waiting, x), r, s)
    BY <1>3, <1>4, LongerLine
  <1> QED BY <1>2, <1>5

(* An admission moves the border between the lists, not the line. *)
LEMMA AdmissionKeepsLine ==
    ASSUME IInv, AdmitWaiting, NEW r, NEW s, Ahead(running \o waiting, r, s)
    PROVE  Ahead(running' \o waiting', r, s)
  <1>1. running \in Seq(Req) /\ waiting \in Seq(Req)
    BY DEF IInv, Types
  <1> DEFINE x == Head(waiting)
             p == Append(running, x)
             q == Tail(waiting)
  <1>2. waiting # << >> /\ running' = p /\ waiting' = q
    BY DEF AdmitWaiting, InWaitingLoop, Candidate
  <1>3. /\ Len(running) \in Nat /\ Len(waiting) \in Nat \ {0}
        /\ p \in Seq(Req) /\ Len(p) = Len(running) + 1
        /\ p[Len(running) + 1] = waiting[1]
        /\ \A i \in 1 .. Len(running) : p[i] = running[i]
        /\ q \in Seq(Req) /\ Len(q) = Len(waiting) - 1
        /\ \A i \in 1 .. Len(waiting) - 1 : q[i] = waiting[i + 1]
    BY <1>1, <1>2
  <1> HIDE DEF p, q
  <1>4. \A i \in 1 .. Len(running) + Len(waiting) :
            i \in 1 .. Len(p) + Len(q) /\ (p \o q)[i] = (running \o waiting)[i]
    <2> TAKE i \in 1 .. Len(running) + Len(waiting)
    <2>1. i \in 1 .. Len(p) + Len(q)
      BY <1>3
    <2>2. /\ (p \o q)[i] = IF i <= Len(p) THEN p[i] ELSE q[i - Len(p)]
          /\ (running \o waiting)[i] = IF i <= Len(running) THEN running[i]
                                                            ELSE waiting[i - Len(running)]
      BY <1>1, <1>3, <2>1, InARow
    <2>3. CASE i <= Len(running)
      BY <1>3, <2>1, <2>2, <2>3
    <2>4. CASE i = Len(running) + 1
      BY <1>3, <2>1, <2>2, <2>4
    <2>5. CASE i > Len(running) + 1
      <3>1. i - Len(p) \in 1 .. Len(waiting) - 1 /\ (i - Len(p)) + 1 = i - Len(running)
        BY <1>3, <2>5
      <3>2. q[i - Len(p)] = waiting[i - Len(running)]
        BY <1>3, <3>1
      <3> QED BY <1>3, <2>1, <2>2, <2>5, <3>2
    <2> QED BY <1>3, <2>3, <2>4, <2>5
  <1>5. /\ DOMAIN (running \o waiting) = 1 .. Len(running) + Len(waiting)
        /\ DOMAIN (p \o q) = 1 .. Len(p) + Len(q)
    BY <1>1, <1>3, InARow
  <1>6. Ahead(p \o q, r, s)
    BY <1>4, <1>5, LongerLine
  <1> QED BY <1>2, <1>6

(* A preemption takes the last that runs and makes it the first that waits. *)
LEMMA PreemptionKeepsLine ==
    ASSUME IInv, ~PriorityPolicy, PreemptRunning, NEW r, NEW s, Ahead(running \o waiting, r, s)
    PROVE  Ahead(running' \o waiting', r, s)
  <1>1. running \in Seq(Req) /\ waiting \in Seq(Req) /\ IsInjective(running)
    BY DEF IInv, Types, Queues, Lists
  <1> DEFINE n == Len(running)
             x == running[n]
             p == Keep(running, Req \ {x})
             q == <<x>> \o waiting
  <1>2. /\ n \in Nat \ {0} /\ x \in Req /\ running' = p /\ waiting' = q
    <2>1. PICK i \in 1 .. Len(running) : running[i] = Victim /\ i = Len(running)
      BY VictimFacts DEF PreemptRunning
    <2>2. n \in Nat \ {0} /\ Victim = x
      BY <1>1, <2>1
    <2>3. x \in Req
      BY <1>1, <2>2
    <2> QED BY <2>2, <2>3 DEF PreemptRunning, queue_prepend_request
  <1>3. Without(Req, running, n, p)
    <2>1. n \in 1 .. Len(running)
      BY <1>2
    <2> HIDE DEF n
    <2> QED BY <1>1, <2>1, KeepWithout
  <1> HIDE DEF p
  <1>4. /\ p \in Seq(Req) /\ Len(p) = n - 1
        /\ \A i \in 1 .. n - 1 : p[i] = running[i]
    <2>1. p \in Seq(Req) /\ Len(p) \in Nat /\ Len(p) <= n
      BY <1>3 DEF Without
    <2>2. \A i \in 1 .. n - 1 : i \in 1 .. Len(p) /\ p[i] = running[i]
      <3> TAKE i \in 1 .. n - 1
      <3>1. i \in 1 .. Len(running) /\ i # n /\ i < n
        BY <1>2
      <3> QED BY <1>3, <3>1 DEF Without
    <2>3. ~(n \in 1 .. Len(p))
      <3>1. ASSUME n \in 1 .. Len(p) PROVE FALSE
        <4>1. \E i \in 1 .. Len(running) : i >= n /\ (n >= n => i > n)
          BY <1>3, <3>1 DEF Without
        <4> QED BY <1>2, <4>1
      <3> QED BY <3>1
    <2>4. n - 1 <= Len(p)
      <3>1. CASE n = 1
        BY <2>1, <3>1
      <3>2. CASE n > 1
        <4>1. n - 1 \in 1 .. n - 1
          BY <1>2, <3>2
        <4> QED BY <2>1, <2>2, <4>1
      <3> QED BY <1>2, <3>1, <3>2
    <2> QED BY <1>2, <2>1, <2>2, <2>3, <2>4
  <1>5. /\ q \in Seq(Req) /\ Len(q) = Len(waiting) + 1 /\ q[1] = x
        /\ \A i \in 2 .. Len(waiting) + 1 : q[i] = waiting[i - 1]
        /\ Len(waiting) \in Nat
    BY <1>1, <1>2
  <1> HIDE DEF q
  <1>6. \A i \in 1 .. n + Len(waiting) :
            i \in 1 .. Len(p) + Len(q) /\ (p \o q)[i] = (running \o waiting)[i]
    <2> TAKE i \in 1 .. n + Len(waiting)
    <2>1. i \in 1 .. Len(p) + Len(q)
      BY <1>2, <1>4, <1>5
    <2>2. /\ (p \o q)[i] = IF i <= Len(p) THEN p[i] ELSE q[i - Len(p)]
          /\ (running \o waiting)[i] = IF i <= n THEN running[i] ELSE waiting[i - n]
      BY <1>1, <1>4, <1>5, <2>1, InARow
    <2> HIDE DEF n
    <2>3. CASE i <= n - 1
      BY <1>2, <1>4, <2>1, <2>2, <2>3
    <2>4. CASE i = n
      <3>1. i - Len(p) = 1
        BY <1>2, <1>4, <2>4
      <3> QED BY <1>2, <1>4, <1>5, <2>1, <2>2, <2>4, <3>1
    <2>5. CASE i > n
      <3>1. i - Len(p) \in 2 .. Len(waiting) + 1 /\ (i - Len(p)) - 1 = i - n
        BY <1>2, <1>4, <1>5, <2>5
      <3>2. q[i - Len(p)] = waiting[i - n]
        BY <1>5, <3>1
      <3> QED BY <1>2, <1>4, <2>1, <2>2, <2>5, <3>2
    <2>6. i \in Nat /\ n \in Nat
      BY <1>2, <1>5
    <2>7. i <= n - 1 \/ i = n \/ i > n
      BY <2>6
    <2> QED BY <2>3, <2>4, <2>5, <2>7
  <1>7. /\ DOMAIN (running \o waiting) = 1 .. n + Len(waiting)
        /\ DOMAIN (p \o q) = 1 .. Len(p) + Len(q)
    BY <1>1, <1>4, <1>5, InARow
  <1>8. Ahead(p \o q, r, s)
    BY <1>6, <1>7, LongerLine
  <1> QED BY <1>2, <1>8

(* Who leaves, by an abort or at the end of an update, leaves the others   *)
(* in their order.                                                         *)
LEMMA LeavingKeepsLine ==
    ASSUME IInv, FinishUpdate \/ \E x \in Req : AbortRequest(x),
           NEW r \in Req, NEW s \in Req, Ahead(running \o waiting, r, s),
           {r, s} \subseteq Range(running' \o waiting')
    PROVE  Ahead(running' \o waiting', r, s)
  <1>1. running \in Seq(Req) /\ waiting \in Seq(Req)
    BY DEF IInv, Types
  <1>2. \A S : /\ Keep(running, S) \in Seq(Req) /\ Keep(waiting, S) \in Seq(Req)
               /\ Range(Keep(running, S)) = Range(running) \cap S
               /\ Range(Keep(waiting, S)) = Range(waiting) \cap S
               /\ \E g : Places(running, S, Keep(running, S), g)
               /\ \E g : Places(waiting, S, Keep(waiting, S), g)
    BY <1>1, KeepFacts, KeepOrder
  <1>3. CASE FinishUpdate
    <2> DEFINE U == {x \in Req : Unfinished(x)}
               p == Keep(running, U)
               q == Keep(waiting, U)
    <2>1. running' = p /\ waiting' = q
      BY <1>3 DEF FinishUpdate
    <2>2. p \in Seq(Req) /\ q \in Seq(Req) /\ Range(p) \subseteq U /\ Range(q) \subseteq U
      BY <1>2
    <2>3. PICK g, h : Places(running, U, p, g) /\ Places(waiting, U, q, h)
      BY <1>2
    <2> HIDE DEF p, q, U
    <2>4. {r, s} \subseteq U
      <3>1. {r, s} \subseteq Range(p \o q)
        BY <2>1
      <3>2. Range(p \o q) = Range(p) \cup Range(q)
        BY <2>2, InARow
      <3> QED BY <2>2, <3>1, <3>2
    <2>5. Ahead(p \o q, r, s)
      BY <1>1, <2>2, <2>3, <2>4, KeptInOrder
    <2> QED BY <2>1, <2>5
  <1>4. ASSUME NEW x \in Req, AbortRequest(x) PROVE Ahead(running' \o waiting', r, s)
    <2> DEFINE S == IF status[x] = "running" THEN Req \ {x} ELSE Req
               T == IF status[x] = "running" THEN Req ELSE Req \ {x}
               p == IF status[x] = "running" THEN Keep(running, Req \ {x}) ELSE running
               q == IF status[x] = "running" THEN waiting ELSE Keep(waiting, Req \ {x})
    <2>1. running' = p /\ waiting' = q
      BY <1>4 DEF AbortRequest, LeaveQueue
    <2>2. /\ p \in Seq(Req) /\ q \in Seq(Req)
          /\ Range(p) \subseteq Range(running) \cap S
          /\ Range(q) \subseteq Range(waiting) \cap T
      <3>1. Range(running) \subseteq Req /\ Range(waiting) \subseteq Req
        BY <1>1, RangeFacts
      <3> QED BY <1>1, <1>2, <3>1
    <2>3. (\E g : Places(running, S, p, g)) /\ (\E h : Places(waiting, T, q, h))
      BY <1>1, <1>2, PlacesAll
    <2>4. Range(running) \cap Range(waiting) = {}
      <3>1. pc = "idle"
        BY <1>4 DEF AbortRequest
      <3> QED BY <3>1 DEF IInv, Queues, Lists, Updating
    <2>5. \A y \in {r, s} : y \in Range(p) \cup Range(q)
      <3>1. {r, s} \subseteq Range(p \o q)
        BY <2>1
      <3>2. Range(p \o q) = Range(p) \cup Range(q)
        BY <2>2, InARow
      <3> QED BY <3>1, <3>2
    <2> HIDE DEF S, T, p, q
    <2>6. \A y \in {r, s} : (y \in Range(running) => y \in S) /\ (y \in Range(waiting) => y \in T)
      BY <2>2, <2>4, <2>5
    <2>7. PICK g, h : Places(running, S, p, g) /\ Places(waiting, T, q, h)
      BY <2>3
    <2>8. Ahead(p \o q, r, s)
      BY <1>1, <2>2, <2>6, <2>7, KeptInOrder
    <2> QED BY <2>1, <2>8
  <1> QED BY <1>3, <1>4

(* First come, first served: of two unfinished requests the one ahead      *)
(* stays ahead, through admission, preemption and retry, and whoever else  *)
(* leaves the line.                                                        *)
THEOREM OrderIsKept ==
    ASSUME Disciplined, ~PriorityPolicy
    PROVE  Spec => FirstComeFirstServed
  <1> DEFINE A == \A r, s \in Req :
         (/\ Ahead(running \o waiting, r, s)
          /\ {r, s} \subseteq Range(running' \o waiting'))
             => Ahead(running' \o waiting', r, s)
  <1>1. ASSUME IInv, [Next]_vars PROVE A
    <2>1. CASE UNCHANGED <<running, waiting>>
      BY <2>1
    <2>2. CASE \E x \in Req : AddRequest(x)
      BY <1>1, <2>2, ArrivalIsLast
    <2>3. CASE FinishUpdate \/ \E x \in Req : AbortRequest(x)
      BY <1>1, <2>3, LeavingKeepsLine
    <2>4. CASE AdmitWaiting
      BY <1>1, <2>4, AdmissionKeepsLine
    <2>5. CASE PreemptRunning
      BY <1>1, <2>5, PreemptionKeepsLine
    <2>6. CASE Step /\ ~FinishUpdate /\ ~AdmitWaiting /\ ~PreemptRunning
      <3>1. UNCHANGED <<running, waiting>>
        BY <2>6 DEF Step, BeginStep, BeginDrain, SkipRunning, PickRunning, ScheduleRunning,
                    EndRunning, EndWaiting, FinishSchedule, ExecuteAndSample, ExecuteOnly,
                    PopBatch, SkipUpdate, UpdateThrows, UpdateRequest, FreeStopped, queues
      <3> QED BY <2>1, <3>1
    <2>7. CASE Rest \/ UNCHANGED vars
      <3>1. UNCHANGED <<running, waiting>>
        BY <2>7 DEF Rest, vars, queues
      <3> QED BY <2>1, <3>1
    <2> QED BY <1>1, <2>2, <2>3, <2>4, <2>5, <2>6, <2>7 DEF Next
  <1> QED BY <1>1, Invariance, PTL DEF Spec, FirstComeFirstServed

----------------------------------------------------------------------------
(* Under FCFS the runner has a row for whatever is scheduled: the running  *)
(* loop never passes over a request in one step to come back to it in a    *)
(* later one.  What a request asks for never grows, those ahead of it stay *)
(* ahead, and so the budget that reached it once reaches it again.         *)

(* What a running request asks of a step, and at most will ask of a later  *)
(* one; without asynchronous scheduling the token a batch samples counts   *)
(* before it is known.                                                     *)
Ask(r) ==
    LET a == Least(Shortened(NumTokens(r) + placeholders[r] - computed[r]),
                   MaxModelLen - computed[r] - 1)
    IN  IF status[r] # "running" \/ ReachesMaxTokens(r) THEN 0
        ELSE IF Async THEN a ELSE Greatest(a, 1)

(* left bounds what is left of the budget when a request has its turn: it  *)
(* is more than nothing for each that asks, and less by what the one ahead *)
(* has asked for.                                                          *)
InTurn(left) ==
    /\ \A r \in Range(running) :
           left[r] <= MaxNumScheduledTokens /\ (Ask(r) > 0 => left[r] > 0)
    /\ \A i, j \in DOMAIN running :
           i < j => left[running[j]] <= left[running[i]] - Ask(running[i])

(* The loops give what is asked for, or all that is left.                  *)
Given(left) ==
    /\ pc \in Scheduling => token_budget <= MaxNumScheduledTokens
    /\ pc \in {"running", "fit"} => \A i \in DOMAIN running :
           IF i < req_index
           THEN token_budget = 0 \/ token_budget <= left[running[i]] - Ask(running[i])
           ELSE left[running[i]] <= token_budget
    /\ pc = "waiting" => \A i \in DOMAIN running :
           token_budget = 0 \/ token_budget <= left[running[i]] - Ask(running[i])
    /\ pc = "fit" => fitting[2] = Least(Ask(fitting[1]), token_budget)

(* Who asks is in the batch, and who is given nothing does not ask.        *)
Batched ==
    /\ pc \in {"idle", "running", "fit", "pop"} \cup Updating =>
           \A i \in DOMAIN running : Ask(running[i]) > 0 => running[i] \in in_batch
    /\ pc \in {"running", "fit"} => \A i \in DOMAIN running :
           i < req_index /\ num_scheduled_tokens[running[i]] = 0 => Ask(running[i]) = 0
    /\ pc \in {"waiting", "assemble"} \cup Executing => \A i \in DOMAIN running :
           /\ num_scheduled_tokens[running[i]] = 0 => Ask(running[i]) = 0
           /\ i < req_index => num_scheduled_tokens[running[i]] = 0 \/ running[i] \in in_batch
    /\ pc \in {"running", "waiting"} => req_index <= Len(running) + 1

(* Without asynchronous scheduling a request has a token to compute        *)
(* whenever a step begins.                                                 *)
ToCompute ==
    ~Async => \A r \in Req : status[r] = "running" =>
        \/ computed[r] < NumTokens(r)
        \/ pc \in Executing /\ r \in Scheduled
        \/ r \in First.sampled

RowsInv == ToCompute /\ Batched /\ \E left \in [Req -> Int] : InTurn(left) /\ Given(left)

(* A request asks for no less than nothing, and for no less than it has    *)
(* been given; without asynchronous scheduling for a token at least.       *)
LEMMA AskFacts ==
    ASSUME IInv, NEW r \in Req
    PROVE  /\ Ask(r) \in Nat
           /\ pc \in Scheduling /\ r \in Scheduled => Ask(r) > 0
           /\ status[r] = "running" /\ ~Async => Ask(r) > 0
           /\ status[r] = "running" =>
                  /\ computed[r] \in Nat /\ NumTokens(r) \in Nat /\ placeholders[r] \in Nat
                  /\ num_scheduled_tokens[r] \in Nat
                  /\ computed[r] <= NumTokens(r) + placeholders[r] /\ computed[r] < MaxModelLen
  <1> DEFINE x == NumTokens(r) + placeholders[r] - computed[r]
             y == MaxModelLen - computed[r] - 1
             a == Least(Shortened(x), y)
  <1>1. CASE status[r] # "running"
    <2>1. Ask(r) = 0
      BY <1>1 DEF Ask
    <2>2. r \notin Scheduled
      BY <1>1 DEF IInv, Schedules
    <2> QED BY <1>1, <2>1, <2>2
  <1>2. CASE status[r] = "running"
    <2>1. /\ computed[r] \in Nat /\ NumTokens(r) \in Nat /\ placeholders[r] \in Nat
          /\ num_scheduled_tokens[r] \in Nat
      BY TokenFacts DEF IInv, Types
    <2>2. Reach(r) <= NumTokens(r) + placeholders[r] /\ Reach(r) < MaxModelLen
      BY <1>2 DEF IInv, Tabled
    <2>3. /\ Reach(r) \in Nat /\ computed[r] <= Reach(r)
          /\ pc \in Scheduling => Reach(r) = computed[r] + num_scheduled_tokens[r]
      BY <2>1 DEF Reach, Pending, Scheduling, Executing
    <2>6. computed[r] <= NumTokens(r) + placeholders[r] /\ computed[r] < MaxModelLen
      BY <2>1, <2>2, <2>3, ConstantFacts
    <2>4. x \in Nat /\ y \in Nat
      BY <2>1, <2>6, ConstantFacts
    <2>5. pc \in Scheduling /\ r \in Scheduled => x > 0 /\ y > 0
      <3>1. r \in Scheduled => num_scheduled_tokens[r] > 0
        BY <2>1 DEF Scheduled
      <3> QED BY <2>1, <2>2, <2>3, <3>1, ConstantFacts
    <2> HIDE DEF x, y
    <2>7. a \in Nat /\ (x > 0 /\ y > 0 => a > 0)
      BY <2>4, ConstantFacts DEF Shortened, Least
    <2>8. Ask(r) = IF ReachesMaxTokens(r) THEN 0 ELSE IF Async THEN a ELSE Greatest(a, 1)
      BY <1>2 DEF Ask, a, x, y
    <2> HIDE DEF a
    <2>9. Greatest(a, 1) \in Nat /\ Greatest(a, 1) >= 1
      BY <2>7 DEF Greatest
    <2>10. ~Async => ~ReachesMaxTokens(r)
      BY DEF IInv, Placeholders, ReachesMaxTokens
    <2>11. pc \in Scheduling /\ r \in Scheduled => ~ReachesMaxTokens(r)
      BY DEF IInv, Schedules
    <2> QED BY <2>1, <2>5, <2>6, <2>7, <2>8, <2>9, <2>10, <2>11
  <1> QED BY <1>1, <1>2

(* What the running loop gives a request that does not reach its limit is  *)
(* what it asks for, or all that is left.                                  *)
LEMMA NumNewIsAsked ==
    ASSUME IInv, RowsInv, pc = "running", NEW r \in Range(running), ~ReachesMaxTokens(r),
           num_scheduled_tokens[r] = 0
    PROVE  NumNewTokens(r) = Least(Ask(r), token_budget)
  <1> DEFINE x == NumTokens(r) + placeholders[r] - computed[r]
             y == MaxModelLen - computed[r] - 1
             s == Shortened(x)
             a == Least(s, y)
  <1>1. /\ r \in Req /\ status[r] = "running" /\ Unfinished(r)
        /\ computed[r] \in Nat /\ placeholders[r] \in Nat /\ NumTokens(r) \in Nat \ {0}
    BY RunningFacts DEF Scheduling
  <1>2. computed[r] <= NumTokens(r) + placeholders[r] /\ computed[r] < MaxModelLen
    BY <1>1, AskFacts
  <1>3. x \in Nat /\ y \in Nat
    BY <1>1, <1>2, ConstantFacts
  <1>4. ~Async => x > 0 /\ y > 0
    <2> SUFFICES ASSUME ~Async PROVE x > 0 /\ y > 0
      OBVIOUS
    <2>1. First = NoBatch
      <3>1. batch_queue = << >>
        BY QueueLengths DEF IInv, Scheduling
      <3> QED BY <3>1 DEF First
    <2>2. computed[r] < NumTokens(r)
      BY <1>1, <2>1, NoBatchFacts DEF RowsInv, ToCompute, Executing
    <2>3. NumTokens(r) < MaxModelLen
      BY <1>1 DEF IInv, Lengths
    <2> QED BY <1>1, <2>2, <2>3, ConstantFacts
  <1>5. Ask(r) = IF Async THEN a ELSE Greatest(a, 1)
    BY <1>1 DEF Ask
  <1>6. NumNewTokens(r) = Least(Least(s, token_budget), y)
    BY DEF NumNewTokens
  <1>7. token_budget \in Nat
    BY DEF IInv, Types
  <1> HIDE DEF x, y
  <1>8. s \in Nat /\ (x > 0 => s > 0)
    BY <1>3, ConstantFacts DEF Shortened, Least
  <1> HIDE DEF s
  <1>9. Least(Least(s, token_budget), y) = Least(a, token_budget)
    BY <1>3, <1>7, <1>8 DEF Least
  <1>10. ~Async => Greatest(a, 1) = a
    BY <1>3, <1>4, <1>8 DEF Least, Greatest
  <1> QED BY <1>5, <1>6, <1>9, <1>10

(* Nobody asks for more, and the list has lost some but not its order.     *)
LEMMA AsksShrink ==
    ASSUME IInv, NEW left \in [Req -> Int], InTurn(left),
           Range(running') \subseteq Range(running),
           \A r \in Range(running') : Ask(r)' \in Nat /\ Ask(r)' <= Ask(r),
           \A i, j \in DOMAIN running' : i < j =>
               \E k, l \in DOMAIN running : k < l /\ running'[i] = running[k] /\ running'[j] = running[l]
    PROVE  InTurn(left)'
  <1>1. \A r \in Range(running) : r \in Req /\ Ask(r) \in Nat /\ left[r] \in Int
    <2>1. \A r \in Range(running) : r \in Req
      BY RangeFacts DEF IInv, Types
    <2> QED BY <2>1, AskFacts
  <1>2. ASSUME NEW r \in Range(running')
        PROVE  left[r] <= MaxNumScheduledTokens /\ (Ask(r)' > 0 => left[r] > 0)
    <2>1. r \in Range(running) /\ Ask(r)' \in Nat /\ Ask(r)' <= Ask(r) /\ Ask(r) \in Nat
      BY <1>1
    <2>2. left[r] <= MaxNumScheduledTokens /\ (Ask(r) > 0 => left[r] > 0)
      BY <2>1 DEF InTurn
    <2> QED BY <2>1, <2>2
  <1>3. ASSUME NEW i \in DOMAIN running', NEW j \in DOMAIN running', i < j
        PROVE  left[running[j]]' <= left[running[i]]' - Ask(running[i])'
    <2>1. PICK k, l \in DOMAIN running : k < l /\ running'[i] = running[k] /\ running'[j] = running[l]
      BY <1>3
    <2>2. left[running[l]] <= left[running[k]] - Ask(running[k])
      BY <2>1 DEF InTurn
    <2>3. PICK r, s : r = running[k] /\ s = running[l]
      OBVIOUS
    <2>4. left[s] <= left[r] - Ask(r)
      BY <2>2, <2>3
    <2>5. r \in Range(running') /\ s \in Range(running')
      BY <2>1, <2>3 DEF Range
    <2>6. r \in Range(running) /\ s \in Range(running) /\ Ask(r)' \in Nat /\ Ask(r)' <= Ask(r)
      BY <2>5
    <2>7. left[s] <= left[r] - Ask(r)'
      BY <1>1, <2>4, <2>6
    <2> QED BY <2>1, <2>3, <2>7
  <1> QED BY <1>2, <1>3 DEF InTurn

(* Where nothing happens to the running requests, they ask as before.      *)
LEMMA AsksStay ==
    ASSUME IInv, UNCHANGED <<status, output, computed, placeholders>>
    PROVE  /\ \A r : Ask(r)' = Ask(r)
           /\ UNCHANGED running =>
                  \A left \in [Req -> Int] : InTurn(left) => InTurn(left)'
  <1>1. \A r : Ask(r)' = Ask(r)
    BY DEF Ask, NumTokens, ReachesMaxTokens
  <1>2. ASSUME UNCHANGED running, NEW left \in [Req -> Int], InTurn(left)
        PROVE  InTurn(left)'
    <2>1. \A r \in Range(running') : Ask(r)' \in Nat /\ Ask(r)' <= Ask(r)
      <3>1. \A r \in Range(running) : r \in Req
        BY RangeFacts DEF IInv, Types
      <3> QED BY <1>1, <1>2, <3>1, AskFacts
    <2>2. \A i, j \in DOMAIN running' : i < j =>
              \E k, l \in DOMAIN running : k < l /\ running'[i] = running[k] /\ running'[j] = running[l]
      BY <1>2
    <2> QED BY <1>2, <2>1, <2>2, AsksShrink
  <1> QED BY <1>1, <1>2

(* What the running loop has scheduled was in the batch, what the waiting  *)
(* loop has scheduled is new: all of it has a row.                         *)
LEMMA AllHaveRows ==
    ASSUME IInv, RowsInv, pc \in Executing
    PROVE  Scheduled \subseteq Rows
  <1> SUFFICES ASSUME NEW r \in Scheduled PROVE r \in Rows
    OBVIOUS
  <1>1. r \in Req /\ status[r] = "running" /\ num_scheduled_tokens[r] # 0
    BY ScheduledFacts DEF Scheduled
  <1>2. running \in Seq(Req) /\ req_index \in Nat
    BY DEF IInv, Types
  <1>3. PICK i \in 1 .. Len(running) : running[i] = r
    <2>1. r \in Range(running)
      BY <1>1 DEF IInv, Queues, Lists
    <2> QED BY <1>2, <2>1, RangeFacts
  <1>4. CASE i < req_index
    <2>1. r \in in_batch
      BY <1>1, <1>2, <1>3, <1>4 DEF RowsInv, Batched
    <2> QED BY <2>1 DEF Rows
  <1>5. CASE i >= req_index
    <2>1. i \in req_index .. Len(running)
      BY <1>2, <1>3, <1>5
    <2> QED BY <1>3, <2>1 DEF Rows, NewReqs
  <1> QED BY <1>2, <1>3, <1>4, <1>5

(* A request that has computed all its tokens is owed one by the batch     *)
(* that computed the last of them.                                         *)
LEMMA ToComputeKeeps ==
    ASSUME IInv, IInv', RowsInv, Next \/ UNCHANGED vars
    PROVE  ToCompute'
  <1> SUFFICES ASSUME ~Async, NEW r \in Req, status'[r] = "running"
               PROVE  \/ computed'[r] < NumTokens(r)'
                      \/ pc' \in Executing /\ r \in Scheduled'
                      \/ r \in First'.sampled
    BY DEF ToCompute
  <1> USE DEF Executing, Updating, Scheduling
  <1>1. status[r] = "running" =>
            computed[r] < NumTokens(r) \/ (pc \in Executing /\ r \in Scheduled) \/ r \in First.sampled
    BY DEF RowsInv, ToCompute
  <1>2. CASE /\ UNCHANGED <<batch_queue, todo, deferred, output>> /\ pc \notin Executing
             /\ pc' \notin Executing /\ (pc \in Updating <=> pc' \in Updating)
             /\ (status[r] = "running" /\ computed'[r] = computed[r]) \/ computed'[r] < NumTokens(r)
    <2>1. First' = First
      BY <1>2, SameBatches DEF IInv
    <2>2. NumTokens(r)' = NumTokens(r)
      BY <1>2 DEF NumTokens
    <2> QED BY <1>1, <1>2, <2>1, <2>2
  <1>3. CASE BeginStep \/ BeginDrain \/ SkipRunning \/ PickRunning \/ ScheduleRunning \/ EndRunning
             \/ EndWaiting \/ UpdateThrows
    BY <1>2, <1>3 DEF BeginStep, BeginDrain, SkipRunning, InRunningLoop, PickRunning, ScheduleRunning,
       EndRunning, EndWaiting, UpdateThrows, sched, batch, reqs, queues
  <1>4. CASE PreemptRunning
    <2>1. /\ status' = [status EXCEPT ![Victim] = "preempted"]
          /\ computed' = [computed EXCEPT ![Victim] = 0]
          /\ pc = "fit" /\ pc' \in {"fit", "assemble"}
          /\ UNCHANGED <<batch_queue, todo, deferred, output>>
      BY <1>4 DEF PreemptRunning, batch
    <2>2. /\ status \in [Req -> {"unknown", "waiting", "running", "preempted", "finished"}]
          /\ computed \in [Req -> Nat]
      BY DEF IInv, Types
    <2>3. r # Victim
      BY <2>1, <2>2
    <2>4. status[r] = "running" /\ computed'[r] = computed[r]
      BY <2>1, <2>2, <2>3
    <2> QED BY <1>2, <2>1, <2>4
  <1>5. CASE AdmitWaiting
    <2>1. PICK x, n, c : x = Candidate.req /\ n = Candidate.num_new /\ c = Candidate.start
      OBVIOUS
    <2>2. /\ status' = [status EXCEPT ![x] = "running"] /\ computed' = [computed EXCEPT ![x] = c]
          /\ pc = "waiting" /\ pc' = "waiting" /\ InWaitingLoop
          /\ UNCHANGED <<batch_queue, todo, deferred, output>>
      BY <1>5, <2>1 DEF AdmitWaiting, InWaitingLoop, batch
    <2>3. x \in Req /\ c \in Nat /\ n \in Nat \ {0} /\ c + n <= NumTokens(x)
      BY <2>1, <2>2, CandidateFacts
    <2>4. /\ status \in [Req -> {"unknown", "waiting", "running", "preempted", "finished"}]
          /\ computed \in [Req -> Nat] /\ NumTokens(x) \in Nat
      BY <2>3, TokenFacts DEF IInv, Types
    <2>5. CASE r = x
      BY <1>2, <2>2, <2>3, <2>4, <2>5
    <2>6. CASE r # x
      BY <1>2, <2>2, <2>4, <2>6
    <2> QED BY <2>5, <2>6
  <1>6. ASSUME NEW x \in Req, AddRequest(x) \/ AbortRequest(x)
        PROVE  computed'[r] < NumTokens(r)' \/ r \in First'.sampled
    <2>1. /\ pc = "idle" /\ pc' = "idle" /\ UNCHANGED <<batch_queue, todo, deferred>>
          /\ \/ status' = [status EXCEPT ![x] = "waiting"] /\ computed' = [computed EXCEPT ![x] = 0]
                /\ output' = [output EXCEPT ![x] = << >>]
             \/ status' = [status EXCEPT ![x] = "finished"] /\ UNCHANGED <<computed, output>>
      BY <1>6 DEF AddRequest, AbortRequest, batch
    <2>2. /\ status \in [Req -> {"unknown", "waiting", "running", "preempted", "finished"}]
          /\ computed \in [Req -> Nat]
          /\ output \in [Req -> Seq(Token)]
      BY DEF IInv, Types
    <2>3. r # x
      BY <2>1, <2>2
    <2>4. status[r] = "running" /\ computed'[r] = computed[r] /\ output'[r] = output[r]
      BY <2>1, <2>2, <2>3
    <2>5. NumTokens(r)' = NumTokens(r)
      BY <2>4 DEF NumTokens
    <2>6. First' = First
      BY <2>1, SameBatches DEF IInv
    <2> QED BY <1>1, <2>1, <2>4, <2>5, <2>6
  <1>7. CASE FinishSchedule
    <2>1. /\ status' = status /\ output' = output /\ pc = "assemble"
          /\ num_scheduled_tokens' = num_scheduled_tokens
          /\ computed' = [q \in Req |-> computed[q] + num_scheduled_tokens[q]]
          /\ pc' \in Executing /\ batch_queue' = batch_queue
      BY <1>7 DEF FinishSchedule, sched, batch
    <2>2. Scheduled' = Scheduled /\ NumTokens(r)' = NumTokens(r)
      BY <2>1 DEF Scheduled, NumTokens
    <2>3. CASE r \in Scheduled
      BY <2>1, <2>2, <2>3
    <2>4. CASE r \notin Scheduled
      <3>1. num_scheduled_tokens[r] = 0 /\ computed[r] \in Nat
        BY <2>4 DEF Scheduled, IInv, Types
      <3>2. computed'[r] = computed[r]
        BY <2>1, <3>1
      <3>3. batch_queue = << >>
        BY <2>1, QueueLengths DEF IInv
      <3>4. r \notin First.sampled
        BY <3>3, NoBatchFacts DEF First
      <3> QED BY <1>1, <2>1, <2>2, <3>2, <3>4
    <2> QED BY <2>3, <2>4
  <1>8. CASE ExecuteAndSample
    <2>1. PICK token \in [SampledRows -> Token] :
              batch_queue' = Append(batch_queue, Frame(Scheduled, Rows, token))
      BY <1>8 DEF ExecuteAndSample
    <2>2. /\ pc = "execute" /\ UNCHANGED <<status, output, computed>> /\ pc' \in {"idle", "pop"}
      BY <1>8 DEF ExecuteAndSample, reqs
    <2>3. batch_queue = << >> /\ Len(device_toks(r)) = NumTokens(r) + Sampled(First, r)
      BY <2>2, QueueLengths, OneInFlight DEF IInv
    <2>4. First = NoBatch
      BY <2>3 DEF First
    <2>5. NumTokens(r)' = NumTokens(r) /\ NumTokens(r) \in Nat /\ computed[r] \in Nat
      BY <2>2, TokenFacts DEF IInv, Types, NumTokens
    <2>6. First'.sampled = SampledRows
      <3> DEFINE f == Frame(Scheduled, Rows, token)
      <3>1. DOMAIN f.token = SampledRows
        BY <2>1 DEF Frame
      <3> HIDE DEF f
      <3>2. batch_queue' # << >> /\ batch_queue'[1] = f
        BY <2>1, <2>3 DEF f
      <3> QED BY <2>2, <3>1, <3>2 DEF First, BatchOf, Batch, oldest
    <2>7. CASE r \in Scheduled /\ computed[r] >= NumTokens(r)
      <3>1. r \in Rows
        BY <2>2, <2>7, AllHaveRows
      <3>2. r \in SampledRows
        BY <2>3, <2>4, <2>5, <2>7, <3>1, NoBatchFacts DEF SampledRows
      <3> QED BY <2>6, <3>2
    <2>8. CASE r \notin Scheduled
      BY <1>1, <2>2, <2>4, <2>5, <2>8, NoBatchFacts
    <2> QED BY <2>2, <2>5, <2>7, <2>8
  <1>9. CASE ExecuteOnly
    <2>1. pc = "execute_only"
      BY <1>9 DEF ExecuteOnly
    <2> QED BY <2>1 DEF IInv, Frames
  <1>10. CASE PopBatch
    <2>1. /\ pc = "pop" /\ pc' = "update" /\ batch_queue # << >> /\ todo' = oldest.reqs
          /\ UNCHANGED <<status, output, computed, batch_queue>>
      BY <1>10 DEF PopBatch, reqs
    <2>2. First.sampled \subseteq First.reqs /\ First = BatchOf(oldest)
      <3>1. First = BatchOf(oldest)
        BY <2>1 DEF First
      <3> QED BY <3>1, BatchFacts DEF IInv
    <2>3. First'.sampled = First.sampled
      BY <2>1, <2>2 DEF First, BatchOf, Batch, oldest
    <2>4. NumTokens(r)' = NumTokens(r)
      BY <2>1 DEF NumTokens
    <2> QED BY <1>1, <2>1, <2>3, <2>4
  <1>11. CASE SkipUpdate \/ UpdateRequest \/ FreeStopped
    <2>0. pc \in Updating /\ todo # {}
      BY <1>11 DEF SkipUpdate, UpdateRequest, FreeStopped, IInv, Frames
    <2>1. /\ batch_queue # << >> /\ First = Batch(todo, oldest.rows, DOMAIN oldest.token \cap todo)
          /\ NextTodo \in todo /\ NextTodo \in Req
      BY <2>0, UpdatingFacts
    <2>2. /\ batch_queue' = batch_queue /\ computed' = computed /\ pc' \in Updating
          /\ todo' = todo \/ todo' = todo \ {NextTodo}
          /\ \A q \in Req : q # NextTodo => output'[q] = output[q] /\ status'[q] = status[q]
      <3>1. CASE SkipUpdate
        BY <3>1 DEF SkipUpdate, reqs
      <3>2. CASE FreeStopped
        BY <3>2 DEF FreeStopped, reqs
      <3>3. CASE UpdateRequest
        <4>1. /\ status \in [Req -> {"unknown", "waiting", "running", "preempted", "finished"}]
              /\ output \in [Req -> Seq(Token)]
          BY DEF IInv, Types
        <4>2. /\ output' = [output EXCEPT ![NextTodo] = Append(output[NextTodo], oldest.token[NextTodo])]
              /\ status' = status \/ status' = [status EXCEPT ![NextTodo] = "finished"]
              /\ batch_queue' = batch_queue /\ computed' = computed /\ pc' \in Updating
              /\ todo' = todo \/ todo' = todo \ {NextTodo}
          BY <3>3 DEF UpdateRequest
        <4> QED BY <4>1, <4>2
      <3> QED BY <1>11, <3>1, <3>2, <3>3
    <2>3. First' = Batch(todo', oldest.rows, DOMAIN oldest.token \cap todo')
      BY <2>1, <2>2 DEF First, oldest
    <2>4. CASE r # NextTodo
      <3>1. status[r] = "running" /\ NumTokens(r)' = NumTokens(r) /\ computed'[r] = computed[r]
        BY <2>2, <2>4 DEF NumTokens
      <3>2. r \in First.sampled => r \in First'.sampled
        BY <2>1, <2>2, <2>3, <2>4 DEF Batch
      <3> QED BY <1>1, <2>0, <3>1, <3>2
    <2>5. CASE r = NextTodo
      <3>1. CASE SkipUpdate
        <4>1. /\ status' = status /\ output' = output
              /\ ~Unfinished(r) \/ r \in oldest.rows \ DOMAIN oldest.token
          BY <2>5, <3>1 DEF SkipUpdate, reqs
        <4>2. r \notin First.sampled
          BY <2>1, <4>1 DEF Batch, Unfinished
        <4>3. NumTokens(r)' = NumTokens(r)
          BY <4>1 DEF NumTokens
        <4> QED BY <1>1, <2>0, <2>2, <4>1, <4>2, <4>3
      <3>2. CASE UpdateRequest
        <4>1. /\ output' = [output EXCEPT ![r] = Append(output[r], oldest.token[r])]
              /\ Unfinished(r) /\ r \in DOMAIN oldest.token
              /\ status' = status \/ status' = [status EXCEPT ![r] = "finished"]
          BY <2>5, <3>2 DEF UpdateRequest
        <4>2. /\ status \in [Req -> {"unknown", "waiting", "running", "preempted", "finished"}]
              /\ output \in [Req -> Seq(Token)]
          BY DEF IInv, Types
        <4>3. status[r] = "running"
          BY <4>1, <4>2
        <4>4. Len(output'[r]) = Len(output[r]) + 1
          BY <4>1, <4>2
        <4>5. /\ computed[r] <= NumTokens(r) + placeholders[r] /\ computed[r] \in Nat
              /\ placeholders[r] = 0 /\ NumTokens(r) \in Nat
          BY <4>3, AskFacts DEF IInv, Placeholders
        <4>6. NumTokens(r)' = NumTokens(r) + 1
          <5>1. Len(Prompt[r]) \in Nat /\ Len(output[r]) \in Nat
            BY TokenFacts, ConstantFacts DEF IInv, Types
          <5>2. /\ NumTokens(r)' = Len(Prompt[r]) + Len(output'[r])
                /\ NumTokens(r) = Len(Prompt[r]) + Len(output[r])
            BY DEF NumTokens
          <5> DEFINE p == Len(Prompt[r])
                     o == Len(output[r])
                     u == Len(output'[r])
          <5>3. u = o + 1 /\ p \in Nat /\ o \in Nat
            BY <4>4, <5>1
          <5> HIDE DEF p, o, u
          <5>4. p + u = (p + o) + 1
            BY <5>3
          <5>5. NumTokens(r)' = p + u /\ NumTokens(r) = p + o
            BY <5>2 DEF p, o, u
          <5> QED BY <5>4, <5>5
        <4> QED BY <2>2, <4>5, <4>6
      <3>3. CASE FreeStopped
        <4>1. pc = "stopped" /\ status' = status
          BY <3>3 DEF FreeStopped, reqs
        <4>2. status[NextTodo] = "finished"
          BY <4>1 DEF IInv, Frames
        <4> QED BY <2>5, <4>1, <4>2
      <3> QED BY <1>11, <3>1, <3>2, <3>3
    <2> QED BY <2>4, <2>5
  <1>12. CASE FinishUpdate
    <2>1. pc = "update" /\ todo = {} /\ pc' = "idle" /\ UNCHANGED <<status, output, computed>>
      BY <1>12 DEF FinishUpdate, reqs
    <2>2. First.sampled = {}
      BY <2>1, UpdatingFacts DEF Batch
    <2>3. NumTokens(r)' = NumTokens(r)
      BY <2>1 DEF NumTokens
    <2> QED BY <1>1, <2>1, <2>2, <2>3
  <1>13. CASE Rest \/ UNCHANGED vars
    <2>1. /\ UNCHANGED <<batch_queue, todo, deferred, output, status, computed, pc,
                         num_scheduled_tokens>>
      BY <1>13 DEF Rest, vars, batch, reqs, sched
    <2>2. NumTokens(r)' = NumTokens(r) /\ Scheduled' = Scheduled /\ First' = First
      BY <2>1 DEF NumTokens, Scheduled, First, oldest
    <2> QED BY <1>1, <2>1, <2>2
  <1>14. (\E x \in Req : AddRequest(x) \/ AbortRequest(x)) \/ Step \/ Rest \/ UNCHANGED vars
    BY DEF Next
  <1> QED BY <1>3, <1>4, <1>5, <1>6, <1>7, <1>8, <1>9, <1>10, <1>11, <1>12, <1>13, <1>14 DEF Step

(* The running requests by their places. *)
LEMMA RunningPlaces ==
    ASSUME IInv
    PROVE  /\ running \in Seq(Req) /\ Len(running) \in Nat /\ DOMAIN running = 1 .. Len(running)
           /\ req_index \in Nat \ {0} /\ token_budget \in Nat
           /\ \A i \in DOMAIN running :
                  running[i] \in Req /\ running[i] \in Range(running) /\ Ask(running[i]) \in Nat
           /\ \A i, j \in DOMAIN running : running[i] = running[j] => i = j
           /\ \A r \in Range(running) : \E i \in DOMAIN running : running[i] = r
  <1>1. running \in Seq(Req) /\ req_index \in Nat \ {0} /\ token_budget \in Nat
        /\ IsInjective(running)
    BY DEF IInv, Types, Queues, Lists
  <1>2. \A i \in DOMAIN running : running[i] \in Req /\ running[i] \in Range(running)
    BY <1>1 DEF Range
  <1> QED BY <1>1, <1>2, AskFacts DEF IsInjective, Range

(* The steps that leave the running requests and what they ask for alone.  *)
LEMMA QuietStepsKeepRows ==
    ASSUME IInv, IInv', RowsInv,
           \/ BeginStep \/ BeginDrain \/ PickRunning \/ EndRunning \/ EndWaiting
           \/ ExecuteAndSample \/ ExecuteOnly \/ PopBatch \/ SkipUpdate \/ UpdateThrows
           \/ FreeStopped \/ Rest \/ UNCHANGED vars
    PROVE  Batched' /\ \E left \in [Req -> Int] : InTurn(left)' /\ Given(left)'
  <1> USE DEF Executing, Updating, Scheduling
  <1>1. PICK left \in [Req -> Int] : InTurn(left) /\ Given(left)
    BY DEF RowsInv
  <1>2. UNCHANGED <<status, output, computed, placeholders, running>>
    BY DEF BeginStep, BeginDrain, PickRunning, EndRunning, EndWaiting, ExecuteAndSample, ExecuteOnly,
       PopBatch, SkipUpdate, UpdateThrows, FreeStopped, Rest, vars, reqs, queues
  <1>3. InTurn(left)' /\ \A r : Ask(r)' = Ask(r)
    BY <1>1, <1>2, AsksStay
  <1>4. \A i \in DOMAIN running : Ask(running[i])' = Ask(running[i])
    BY <1>2, <1>3
  <1>5. /\ Len(running) \in Nat /\ DOMAIN running = 1 .. Len(running)
        /\ req_index \in Nat \ {0} /\ token_budget \in Nat
        /\ \A i \in DOMAIN running :
               running[i] \in Range(running) /\ running[i] \in Req /\ Ask(running[i]) \in Nat
    BY RunningPlaces
  <1>6. \A i \in DOMAIN running :
            /\ left[running[i]] \in Int /\ left[running[i]] <= MaxNumScheduledTokens
            /\ Ask(running[i]) > 0 => left[running[i]] > 0
    BY <1>1, <1>5 DEF InTurn
  <1>7. Batched
    BY DEF RowsInv
  <1>8. CASE BeginStep
    <2>1. /\ pc = "idle" /\ pc' = "running" /\ req_index' = 1
          /\ token_budget' = MaxNumScheduledTokens /\ in_batch' = in_batch
      BY <1>8 DEF BeginStep, batch
    <2>2. Given(left)'
      BY <1>2, <1>5, <1>6, <2>1, ConstantFacts DEF Given
    <2>3. Batched'
      BY <1>2, <1>4, <1>5, <1>7, <2>1 DEF Batched
    <2> QED BY <1>3, <2>2, <2>3
  <1>9. CASE BeginDrain \/ PopBatch \/ SkipUpdate \/ UpdateThrows \/ FreeStopped
    <2>1. /\ pc \in {"idle", "pop"} \cup Updating /\ pc' \in {"pop"} \cup Updating
          /\ in_batch' = in_batch
      BY <1>9 DEF BeginDrain, PopBatch, SkipUpdate, UpdateThrows, FreeStopped, batch
    <2>2. Given(left)'
      BY <2>1 DEF Given
    <2>3. Batched'
      BY <1>2, <1>4, <1>7, <2>1 DEF Batched
    <2> QED BY <1>3, <2>2, <2>3
  <1>10. CASE PickRunning
    <2>1. /\ pc = "running" /\ pc' = "fit" /\ InRunningLoop
          /\ ~ReachesMaxTokens(running[req_index])
          /\ fitting' = <<running[req_index], NumNewTokens(running[req_index])>>
          /\ UNCHANGED <<in_batch, req_index, token_budget, num_scheduled_tokens>>
      BY <1>10 DEF PickRunning, InRunningLoop, batch
    <2> DEFINE r == running[req_index]
    <2>2. req_index \in DOMAIN running /\ r \in Range(running) /\ num_scheduled_tokens[r] = 0
      <3>1. req_index \in DOMAIN running
        BY <1>5, <2>1 DEF InRunningLoop
      <3> QED BY <1>5, <2>1, <3>1 DEF IInv, Schedules
    <2>3. fitting'[1] = r /\ fitting'[2] = Least(Ask(r), token_budget)
      BY <2>1, <2>2, NumNewIsAsked
    <2>4. fitting'[2] = Least(Ask(fitting[1])', token_budget')
      BY <1>3, <2>1, <2>3
    <2>5. Given(left)'
      BY <1>1, <1>2, <1>4, <2>1, <2>4 DEF Given
    <2>6. Batched'
      BY <1>2, <1>4, <1>7, <2>1 DEF Batched
    <2> QED BY <1>3, <2>5, <2>6
  <1>11. CASE EndRunning
    <2>1. /\ pc = "running" /\ pc' \in {"waiting", "assemble"} /\ ~InRunningLoop
          /\ UNCHANGED <<in_batch, req_index, token_budget, num_scheduled_tokens>>
      BY <1>11 DEF EndRunning, sched, batch
    <2>2. req_index > Len(running) \/ token_budget = 0
      BY <1>5, <2>1 DEF InRunningLoop
    <2>3. ASSUME NEW i \in DOMAIN running
          PROVE  /\ token_budget = 0 \/ token_budget <= left[running[i]] - Ask(running[i])
                 /\ num_scheduled_tokens[running[i]] = 0 => Ask(running[i]) = 0
                 /\ num_scheduled_tokens[running[i]] = 0 \/ running[i] \in in_batch
      <3>1. token_budget = 0 \/ token_budget <= left[running[i]] - Ask(running[i])
        BY <1>1, <1>5, <2>1, <2>2 DEF Given
      <3>2. num_scheduled_tokens[running[i]] = 0 => Ask(running[i]) = 0
        <4>1. CASE i < req_index
          BY <1>7, <2>1, <4>1 DEF Batched
        <4>2. CASE ~(i < req_index)
          <5>1. token_budget = 0
            BY <1>5, <2>2, <4>2
          <5>2. left[running[i]] <= token_budget
            BY <1>1, <2>1, <4>2 DEF Given
          <5> QED BY <1>5, <1>6, <5>1, <5>2
        <4> QED BY <4>1, <4>2
      <3>3. num_scheduled_tokens[running[i]] # 0 => Ask(running[i]) > 0
        BY <1>5, <2>1, AskFacts DEF Scheduled
      <3> QED BY <1>7, <2>1, <3>1, <3>2, <3>3 DEF Batched
    <2>4. Given(left)'
      BY <1>1, <1>2, <1>4, <2>1, <2>3 DEF Given
    <2>5. Batched'
      BY <1>2, <1>4, <1>7, <2>1, <2>3 DEF Batched
    <2> QED BY <1>3, <2>4, <2>5
  <1>12. CASE EndWaiting
    <2>1. /\ pc = "waiting" /\ pc' = "assemble"
          /\ UNCHANGED <<in_batch, req_index, token_budget, num_scheduled_tokens>>
      BY <1>12 DEF EndWaiting, sched, batch
    <2>2. Given(left)'
      BY <1>1, <2>1 DEF Given
    <2>3. Batched'
      BY <1>2, <1>4, <1>7, <2>1 DEF Batched
    <2> QED BY <1>3, <2>2, <2>3
  <1>13. CASE ExecuteAndSample \/ ExecuteOnly
    <2>1. pc \in Executing /\ pc' \in {"idle", "pop"} /\ in_batch' = Rows
      BY <1>13 DEF ExecuteAndSample, ExecuteOnly
    <2>2. Scheduled \subseteq Rows
      BY <2>1, AllHaveRows
    <2>3. \A i \in DOMAIN running : Ask(running[i]) > 0 => running[i] \in Rows
      <3> SUFFICES ASSUME NEW i \in DOMAIN running, Ask(running[i]) > 0
                   PROVE  running[i] \in Scheduled
        BY <2>2
      <3>1. num_scheduled_tokens[running[i]] # 0
        BY <1>7, <2>1 DEF Batched
      <3> QED BY <1>5, <3>1 DEF Scheduled
    <2>4. Given(left)'
      BY <2>1 DEF Given
    <2>5. Batched'
      BY <1>2, <1>4, <2>1, <2>3 DEF Batched
    <2> QED BY <1>3, <2>4, <2>5
  <1>14. CASE Rest \/ UNCHANGED vars
    <2>1. UNCHANGED <<pc, in_batch, req_index, token_budget, num_scheduled_tokens, fitting>>
      BY <1>14 DEF Rest, vars, sched, batch
    <2>2. pc = "fit" => fitting'[2] = Least(Ask(fitting[1])', token_budget')
      BY <1>1, <1>3, <2>1 DEF Given
    <2>3. Given(left)'
      BY <1>1, <1>2, <1>4, <2>1, <2>2 DEF Given
    <2>4. Batched'
      BY <1>2, <1>4, <1>7, <2>1 DEF Batched
    <2> QED BY <1>3, <2>3, <2>4
  <1> QED BY <1>8, <1>9, <1>10, <1>11, <1>12, <1>13, <1>14

(* A request has its turn: what is left then bounds what was left for it,  *)
(* and takes its place.                                                    *)
LEMMA TurnTaken ==
    ASSUME IInv, NEW left \in [Req -> Int], InTurn(left), Given(left), pc \in {"running", "fit"},
           req_index \in DOMAIN running, token_budget > 0,
           UNCHANGED <<status, output, computed, placeholders, running>>,
           pc' = "running", req_index' = req_index + 1,
           NEW n \in Nat, n = Least(Ask(running[req_index]), token_budget),
           token_budget' = token_budget - n
    PROVE  \E new \in [Req -> Int] : InTurn(new)' /\ Given(new)'
  <1> DEFINE r == running[req_index]
  <1>1. /\ Len(running) \in Nat /\ DOMAIN running = 1 .. Len(running)
        /\ req_index \in Nat \ {0} /\ token_budget \in Nat
        /\ \A i \in DOMAIN running :
               running[i] \in Range(running) /\ running[i] \in Req /\ Ask(running[i]) \in Nat
        /\ \A i, j \in DOMAIN running : running[i] = running[j] => i = j
    BY RunningPlaces
  <1>2. \A x : Ask(x)' = Ask(x)
    BY AsksStay
  <1>3. \A i \in DOMAIN running : Ask(running[i])' = Ask(running[i])
    BY <1>2
  <1>0. r \in Req
    BY <1>1
  <1>4. PICK new \in [Req -> Int] : /\ new[r] = token_budget
                                   /\ \A x \in Req : x # r => new[x] = left[x]
    <2> DEFINE m == [left EXCEPT ![r] = token_budget]
    <2>1. m \in [Req -> Int] /\ m[r] = token_budget /\ \A x \in Req : x # r => m[x] = left[x]
      BY <1>0, <1>1
    <2> HIDE DEF m
    <2> QED BY <2>1
  <1>5. \A i \in DOMAIN running :
            IF i = req_index THEN new[running[i]] = token_budget
                             ELSE new[running[i]] = left[running[i]]
    BY <1>1, <1>4
  <1>6. \A i \in DOMAIN running : /\ left[running[i]] \in Int
                                  /\ left[running[i]] <= MaxNumScheduledTokens
                                  /\ Ask(running[i]) > 0 => left[running[i]] > 0
    BY <1>1 DEF InTurn
  <1>7. \A i, j \in DOMAIN running :
            i < j => left[running[j]] <= left[running[i]] - Ask(running[i])
    BY DEF InTurn
  <1>8. /\ token_budget <= MaxNumScheduledTokens
        /\ \A i \in DOMAIN running : i < req_index => token_budget <= left[running[i]] - Ask(running[i])
        /\ \A i \in DOMAIN running : i >= req_index => left[running[i]] <= token_budget
    BY <1>1 DEF Given, Scheduling
  <1>9. ASSUME NEW i \in DOMAIN running
        PROVE  new[running[i]] <= MaxNumScheduledTokens /\ (Ask(running[i]) > 0 => new[running[i]] > 0)
    BY <1>1, <1>5, <1>6, <1>8
  <1>10. ASSUME NEW i \in DOMAIN running, NEW j \in DOMAIN running, i < j
         PROVE  new[running[j]] <= new[running[i]] - Ask(running[i])
    <2>1. left[running[j]] <= left[running[i]] - Ask(running[i])
      BY <1>7, <1>10
    <2>2. CASE i = req_index
      <3>1. new[running[j]] = left[running[j]] /\ new[running[i]] = token_budget
        BY <1>1, <1>5, <1>10, <2>2
      <3>2. left[running[i]] <= token_budget
        BY <1>1, <1>8, <2>2
      <3> DEFINE a == left[running[j]]
                 b == left[running[i]]
                 c == Ask(running[i])
      <3>3. a \in Int /\ b \in Int /\ c \in Int /\ a <= b - c /\ b <= token_budget
        BY <1>1, <1>6, <2>1, <3>2
      <3> HIDE DEF a, b, c
      <3>4. a <= token_budget - c
        BY <1>1, <3>3
      <3> QED BY <3>1, <3>4 DEF a, c
    <2>3. CASE j = req_index
      <3>1. new[running[j]] = token_budget /\ new[running[i]] = left[running[i]]
        BY <1>1, <1>5, <1>10, <2>3
      <3>2. token_budget <= left[running[i]] - Ask(running[i])
        BY <1>8, <1>10, <2>3
      <3> QED BY <3>1, <3>2
    <2>4. CASE i # req_index /\ j # req_index
      BY <1>5, <2>1, <2>4
    <2> QED BY <1>1, <2>2, <2>3, <2>4
  <1>11. InTurn(new)'
    <2>1. \A x \in Range(running) :
              new[x] <= MaxNumScheduledTokens /\ (Ask(x)' > 0 => new[x] > 0)
      <3> SUFFICES ASSUME NEW x \in Range(running)
                   PROVE  new[x] <= MaxNumScheduledTokens /\ (Ask(x)' > 0 => new[x] > 0)
        OBVIOUS
      <3>1. PICK i \in DOMAIN running : running[i] = x
        BY RunningPlaces
      <3> QED BY <1>2, <1>9, <3>1
    <2> QED BY <1>3, <1>10, <2>1 DEF InTurn
  <1>12. n \in Nat /\ n <= token_budget /\ n <= Ask(r) /\ (n = token_budget \/ n = Ask(r))
         /\ Ask(r) \in Nat
    BY <1>1 DEF Least
  <1>13. Given(new)'
    <2>1. token_budget' <= MaxNumScheduledTokens
      BY <1>1, <1>8, <1>12, ConstantFacts
    <2>2. ASSUME NEW i \in DOMAIN running
          PROVE  IF i < req_index + 1
                 THEN token_budget' = 0 \/ token_budget' <= new[running[i]] - Ask(running[i])
                 ELSE new[running[i]] <= token_budget'
      <3>1. CASE i < req_index
        <4>1. token_budget <= left[running[i]] - Ask(running[i])
          BY <1>8, <3>1
        <4>2. new[running[i]] = left[running[i]]
          BY <1>1, <1>5, <3>1
        <4> QED BY <1>1, <1>6, <1>12, <3>1, <4>1, <4>2
      <3>2. CASE i = req_index
        BY <1>1, <1>4, <1>12, <3>2
      <3>3. CASE i > req_index
        <4>1. left[running[i]] <= left[r] - Ask(r) /\ left[r] <= token_budget
          BY <1>1, <1>7, <1>8, <3>3
        <4>2. new[running[i]] = left[running[i]] /\ left[r] \in Int
          BY <1>1, <1>5, <1>6, <3>3
        <4> QED BY <1>1, <1>6, <1>12, <3>3, <4>1, <4>2
      <3> QED BY <1>1, <3>1, <3>2, <3>3
    <2> QED BY <1>3, <2>1, <2>2 DEF Given
  <1> QED BY <1>4, <1>11, <1>13

(* A turn in the running loop, with or without something to compute.       *)
LEMMA TurnsKeepRows ==
    ASSUME IInv, IInv', RowsInv, ~PriorityPolicy, SkipRunning \/ ScheduleRunning
    PROVE  Batched' /\ \E left \in [Req -> Int] : InTurn(left)' /\ Given(left)'
  <1> USE DEF Executing, Updating, Scheduling
  <1>1. PICK left \in [Req -> Int] : InTurn(left) /\ Given(left)
    BY DEF RowsInv
  <1>2. /\ UNCHANGED <<status, output, computed, placeholders, running, in_batch>>
        /\ req_index' = req_index + 1 /\ pc' = "running" /\ pc \in {"running", "fit"}
    BY DEF SkipRunning, InRunningLoop, ScheduleRunning, reqs, queues, batch
  <1>3. /\ Len(running) \in Nat /\ DOMAIN running = 1 .. Len(running)
        /\ req_index \in Nat \ {0} /\ token_budget \in Nat
        /\ \A i \in DOMAIN running :
               running[i] \in Range(running) /\ running[i] \in Req /\ Ask(running[i]) \in Nat
        /\ \A i, j \in DOMAIN running : running[i] = running[j] => i = j
    BY RunningPlaces
  <1>4. \A i \in DOMAIN running : Ask(running[i])' = Ask(running[i])
    BY <1>2, AsksStay
  <1> DEFINE r == running[req_index]
  <1>5. Batched
    BY DEF RowsInv
  <1>6. CASE SkipRunning
    <2>1. /\ pc = "running" /\ InRunningLoop
          /\ (ReachesMaxTokens(r) \/ NumNewTokens(r) = 0)
          /\ UNCHANGED <<token_budget, num_scheduled_tokens>>
      BY <1>6 DEF SkipRunning, InRunningLoop
    <2>2. req_index \in DOMAIN running /\ token_budget > 0
      BY <1>3, <2>1 DEF InRunningLoop
    <2>3. num_scheduled_tokens[r] = 0 /\ r \in Range(running)
      BY <1>3, <2>1, <2>2 DEF IInv, Schedules
    <2>4. Ask(r) = 0
      <3>1. CASE ReachesMaxTokens(r)
        BY <3>1 DEF Ask
      <3>2. CASE ~ReachesMaxTokens(r)
        <4>1. NumNewTokens(r) = Least(Ask(r), token_budget) /\ NumNewTokens(r) = 0
          BY <2>1, <2>3, <3>2, NumNewIsAsked
        <4> QED BY <1>3, <2>2, <4>1 DEF Least
      <3> QED BY <3>1, <3>2
    <2>5. 0 = Least(Ask(r), token_budget) /\ token_budget' = token_budget - 0
      BY <1>3, <2>1, <2>2, <2>4 DEF Least
    <2>6. \E new \in [Req -> Int] : InTurn(new)' /\ Given(new)'
      <3> DEFINE n == 0
      <3>1. n \in Nat /\ n = Least(Ask(r), token_budget) /\ token_budget' = token_budget - n
        BY <2>5
      <3> HIDE DEF n
      <3> QED BY <1>1, <1>2, <2>2, <3>1, TurnTaken
    <2>7. ASSUME NEW i \in DOMAIN running, i < req_index', num_scheduled_tokens'[running[i]] = 0
          PROVE  Ask(running[i]) = 0
      <3>1. CASE i < req_index
        BY <1>5, <2>1, <2>7, <3>1 DEF Batched
      <3>2. CASE i = req_index
        BY <2>4, <3>2
      <3> QED BY <1>2, <1>3, <2>7, <3>1, <3>2
    <2>8. req_index' <= Len(running) + 1
      BY <1>2, <1>3, <2>2
    <2>9. Batched'
      BY <1>2, <1>4, <1>5, <2>1, <2>7, <2>8 DEF Batched
    <2> QED BY <2>6, <2>9
  <1>7. CASE ScheduleRunning
    <2> DEFINE n == fitting[2]
    <2>1. /\ pc = "fit" /\ num_scheduled_tokens' = [num_scheduled_tokens EXCEPT ![fitting[1]] = n]
          /\ token_budget' = token_budget - n
      BY <1>7 DEF ScheduleRunning
    <2>2. /\ n \in Nat \ {0} /\ n <= token_budget
          /\ req_index \in DOMAIN running /\ r = fitting[1]
      BY <2>1 DEF IInv, Fitting
    <2>3. n = Least(Ask(r), token_budget)
      BY <1>1, <2>1, <2>2 DEF Given
    <2>4. token_budget > 0 /\ n \in Nat
      BY <1>3, <2>2
    <2>5. \E new \in [Req -> Int] : InTurn(new)' /\ Given(new)'
      <3> HIDE DEF n
      <3> QED BY <1>1, <1>2, <2>1, <2>2, <2>3, <2>4, TurnTaken
    <2>6. ASSUME NEW i \in DOMAIN running, i < req_index', num_scheduled_tokens'[running[i]] = 0
          PROVE  Ask(running[i]) = 0
      <3>1. num_scheduled_tokens \in [Req -> Nat]
        BY DEF IInv, Types
      <3>2. CASE i < req_index
        <4>1. running[i] # r
          BY <1>3, <2>2, <3>2
        <4>2. num_scheduled_tokens[running[i]] = 0
          BY <1>3, <2>1, <2>2, <2>6, <3>1, <4>1
        <4> QED BY <1>5, <2>1, <3>2, <4>2 DEF Batched
      <3>3. CASE i = req_index
        <4>1. num_scheduled_tokens'[r] = n
          BY <1>3, <2>1, <2>2, <3>1
        <4> QED BY <2>2, <2>6, <3>3, <4>1
      <3> QED BY <1>2, <1>3, <2>6, <3>2, <3>3
    <2>7. req_index' <= Len(running) + 1
      BY <1>2, <1>3, <2>2
    <2>8. Batched'
      BY <1>2, <1>4, <1>5, <2>1, <2>6, <2>7 DEF Batched
    <2> QED BY <2>5, <2>8
  <1> QED BY <1>6, <1>7

(* An admission asks for what the lists of those who run have left of the  *)
(* budget, and it is its own request's last turn in this step.             *)
LEMMA AdmissionKeepsRows ==
    ASSUME IInv, IInv', RowsInv, AdmitWaiting
    PROVE  Batched' /\ \E left \in [Req -> Int] : InTurn(left)' /\ Given(left)'
  <1> USE DEF Executing, Updating, Scheduling
  <1>1. PICK left \in [Req -> Int] : InTurn(left) /\ Given(left)
    BY DEF RowsInv
  <1>2. PICK r, n, c : r = Candidate.req /\ n = Candidate.num_new /\ c = Candidate.start
    OBVIOUS
  <1>3. /\ pc = "waiting" /\ InWaitingLoop /\ token_budget > 0
        /\ running' = Append(running, r)
        /\ status' = [status EXCEPT ![r] = "running"]
        /\ computed' = [computed EXCEPT ![r] = c]
        /\ num_scheduled_tokens' = [num_scheduled_tokens EXCEPT ![r] = n]
        /\ token_budget' = token_budget - n
        /\ UNCHANGED <<output, placeholders, pc, req_index, in_batch>>
    BY <1>2 DEF AdmitWaiting, InWaitingLoop, batch
  <1>4. /\ r \in Req /\ status[r] \in {"waiting", "preempted"} /\ c \in Nat
        /\ n \in Nat \ {0} /\ n <= token_budget /\ c + n <= NumTokens(r)
        /\ NumTokens(r) < MaxModelLen /\ r \notin Range(running)
        /\ r \notin First.reqs /\ r \notin Second.reqs
        /\ n = Least(Shortened(NumTokens(r) - c), token_budget)
    <2>1. n = Least(Shortened(NumTokens(r) - c), token_budget)
      BY <1>2 DEF Candidate
    <2> QED BY <1>2, <1>3, <2>1, CandidateFacts
  <1>5. /\ status \in [Req -> {"unknown", "waiting", "running", "preempted", "finished"}]
        /\ computed \in [Req -> Nat] /\ num_scheduled_tokens \in [Req -> Nat]
        /\ placeholders \in [Req -> Nat]
    BY DEF IInv, Types
  <1>6. /\ running \in Seq(Req) /\ Len(running) \in Nat /\ DOMAIN running = 1 .. Len(running)
        /\ req_index \in Nat \ {0} /\ token_budget \in Nat
        /\ \A i \in DOMAIN running :
               running[i] \in Range(running) /\ running[i] \in Req /\ Ask(running[i]) \in Nat
    BY RunningPlaces
  <1>7. ASSUME NEW q \in Req, q # r
        PROVE  /\ Ask(q)' = Ask(q) /\ num_scheduled_tokens'[q] = num_scheduled_tokens[q]
    <2>1. /\ status'[q] = status[q] /\ computed'[q] = computed[q] /\ NumTokens(q)' = NumTokens(q)
          /\ num_scheduled_tokens'[q] = num_scheduled_tokens[q]
      BY <1>3, <1>5, <1>7 DEF NumTokens
    <2> QED BY <1>3, <2>1 DEF Ask, ReachesMaxTokens
  (* Nothing of the request is in flight, it asks for what it is given.    *)
  <1>8. Ask(r)' \in Nat /\ n = Least(Ask(r)', token_budget)
    <2>2. placeholders[r] = 0
      <3>1. CASE Async
        <4>1. placeholders[r] <= Claims(First, r) + Claims(Second, r)
          BY <1>4, <3>1 DEF IInv, Placeholders, Unfinished
        <4>2. Claims(First, r) = 0 /\ Claims(Second, r) = 0
          BY <1>4 DEF Claims
        <4> QED BY <1>4, <1>5, <4>1, <4>2
      <3>2. CASE ~Async
        BY <1>4, <3>2 DEF IInv, Placeholders
      <3> QED BY <3>1, <3>2
    <2> DEFINE x == NumTokens(r) - c
               s == Shortened(x)
               y == MaxModelLen - c - 1
    <2>3. x \in Nat \ {0} /\ y \in Nat \ {0} /\ x <= y
      <3>1. NumTokens(r) \in Nat
        BY <1>4, TokenFacts DEF IInv, Types
      <3> QED BY <1>4, <3>1, ConstantFacts
    <2>4. Ask(r)' = IF Async THEN Least(s, y) ELSE Greatest(Least(s, y), 1)
      <3>1. /\ status'[r] = "running" /\ computed'[r] = c /\ placeholders'[r] = 0
            /\ NumTokens(r)' = NumTokens(r)
        BY <1>3, <1>4, <1>5, <2>2 DEF NumTokens
      <3>2. ~ReachesMaxTokens(r)'
        BY <3>1 DEF ReachesMaxTokens
      <3>3. NumTokens(r) + 0 - c = x
        <4>1. NumTokens(r) \in Nat
          BY <1>4, TokenFacts DEF IInv, Types
        <4> QED BY <1>4, <4>1
      <3> QED BY <3>1, <3>2, <3>3 DEF Ask
    <2> HIDE DEF x, y
    <2>5. s \in Nat \ {0} /\ s <= x
      BY <2>3, ConstantFacts DEF Shortened, Least
    <2>6. Least(s, y) = s /\ Greatest(s, 1) = s
      <3> HIDE DEF s
      <3> QED BY <2>3, <2>5 DEF Least, Greatest
    <2>7. Ask(r)' = s
      BY <2>4, <2>6
    <2> QED BY <1>4, <2>5, <2>7 DEF x
  <1>9. PICK new \in [Req -> Int] : new[r] = token_budget /\ \A q \in Req : q # r => new[q] = left[q]
    <2> DEFINE m == [left EXCEPT ![r] = token_budget]
    <2>1. m \in [Req -> Int] /\ m[r] = token_budget /\ \A x \in Req : x # r => m[x] = left[x]
      BY <1>4, <1>6
    <2> HIDE DEF m
    <2> QED BY <2>1
  <1> DEFINE l == Len(running) + 1
  <1>10. /\ DOMAIN running' = 1 .. l /\ l \in DOMAIN running' /\ running'[l] = r /\ Len(running') = l
         /\ \A i \in DOMAIN running' : i # l => i \in DOMAIN running /\ running'[i] = running[i]
                                                /\ running[i] # r /\ i < l
    <2>1. /\ DOMAIN running' = 1 .. l /\ running'[l] = r /\ Len(running') = l
          /\ \A i \in 1 .. Len(running) : running'[i] = running[i]
      BY <1>3, <1>4, <1>6
    <2>2. l \in 1 .. l /\ \A i \in 1 .. l : i # l => i \in 1 .. Len(running) /\ i < l
      BY <1>6
    <2>3. \A i \in 1 .. Len(running) : running[i] # r
      BY <1>4, <1>6
    <2> QED BY <1>6, <2>1, <2>2, <2>3
  <1>11. l \in Nat /\ DOMAIN running = 1 .. Len(running) /\ Len(running) < l
    BY <1>6
  <1> HIDE DEF l
  <1>12. ASSUME NEW i \in DOMAIN running
         PROVE  /\ Ask(running[i])' = Ask(running[i]) /\ new[running[i]] = left[running[i]]
                /\ num_scheduled_tokens'[running[i]] = num_scheduled_tokens[running[i]]
                /\ left[running[i]] \in Int /\ left[running[i]] <= MaxNumScheduledTokens
                /\ Ask(running[i]) > 0 => left[running[i]] > 0
                /\ token_budget <= left[running[i]] - Ask(running[i])
                /\ Ask(running[i]) \in Nat
    <2>1. PICK q \in Req : q = running[i]
      BY <1>6
    <2>2. q \in Range(running) /\ q # r
      BY <1>4, <1>6, <2>1
    <2>3. Ask(q)' = Ask(q) /\ num_scheduled_tokens'[q] = num_scheduled_tokens[q] /\ new[q] = left[q]
      BY <1>7, <1>9, <2>2
    <2>4. /\ left[q] <= MaxNumScheduledTokens /\ (Ask(q) > 0 => left[q] > 0)
      BY <1>1, <2>2 DEF InTurn
    <2>5. token_budget <= left[q] - Ask(q)
      BY <1>1, <1>3, <1>6, <2>1 DEF Given
    <2>6. Ask(running[i])' = Ask(q)' /\ running[i] = q
      <3>1. running[i]' = running[i]
        BY <1>3, <1>6
      <3> QED BY <2>1, <3>1
    <2> QED BY <1>6, <2>1, <2>3, <2>4, <2>5, <2>6
  <1>13. token_budget <= MaxNumScheduledTokens
    BY <1>1, <1>3 DEF Given
  <1>14. InTurn(new)'
    <2>1. ASSUME NEW q \in Range(running')
          PROVE  new[q] <= MaxNumScheduledTokens /\ (Ask(q)' > 0 => new[q] > 0)
      <3>1. q \in Range(running) \cup {r}
        BY <1>3, <1>4, <1>6, AppendFacts
      <3>2. CASE q = r
        BY <1>3, <1>9, <1>13, <3>2
      <3>3. CASE q # r
        <4>1. q \in Range(running) /\ q \in Req
          BY <1>6, <3>1, <3>3, RangeFacts
        <4>2. new[q] = left[q] /\ Ask(q)' = Ask(q)
          BY <1>7, <1>9, <3>3, <4>1
        <4> QED BY <1>1, <4>1, <4>2 DEF InTurn
      <3> QED BY <3>2, <3>3
    <2>2. ASSUME NEW i \in DOMAIN running', NEW j \in DOMAIN running', i < j
          PROVE  new[running[j]]' <= new[running[i]]' - Ask(running[i])'
      <3>1. i # l /\ i \in DOMAIN running /\ running'[i] = running[i]
        BY <1>10, <1>11, <2>2
      <3>2. CASE j = l
        BY <1>9, <1>10, <1>12, <3>1, <3>2
      <3>3. CASE j # l
        <4>1. j \in DOMAIN running /\ running'[j] = running[j]
          BY <1>10, <3>3
        <4>2. left[running[j]] <= left[running[i]] - Ask(running[i])
          BY <1>1, <2>2, <3>1, <4>1 DEF InTurn
        <4> QED BY <1>12, <3>1, <4>1, <4>2
      <3> QED BY <3>2, <3>3
    <2> QED BY <2>1, <2>2 DEF InTurn
  <1>15. Given(new)'
    <2>1. token_budget' <= MaxNumScheduledTokens /\ token_budget' \in Nat
      BY <1>3, <1>4, <1>6, <1>13, ConstantFacts
    <2>2. ASSUME NEW i \in DOMAIN running'
          PROVE  token_budget' = 0 \/ token_budget' <= new[running[i]]' - Ask(running[i])'
      <3>1. CASE i = l
        <4>1. running'[i] = r /\ Ask(running[i])' = Ask(r)'
          BY <1>10, <3>1
        <4>2. n = token_budget \/ n = Ask(r)'
          BY <1>8 DEF Least
        <4> QED BY <1>3, <1>6, <1>8, <1>9, <4>1, <4>2
      <3>2. CASE i # l
        <4>1. i \in DOMAIN running /\ running'[i] = running[i]
          BY <1>10, <3>2
        <4> QED BY <1>3, <1>4, <1>6, <1>12, <4>1
      <3> QED BY <3>1, <3>2
    <2> QED BY <1>3, <2>1, <2>2 DEF Given
  <1>16. Batched'
    <2>1. req_index <= l
      BY <1>3 DEF RowsInv, Batched, l
    <2>2. ASSUME NEW i \in DOMAIN running'
          PROVE  /\ num_scheduled_tokens[running[i]]' = 0 => Ask(running[i])' = 0
                 /\ i < req_index => num_scheduled_tokens[running[i]]' = 0 \/ running[i]' \in in_batch
      <3>1. CASE i = l
        <4>1. running'[i] = r /\ num_scheduled_tokens'[r] = n /\ ~(i < req_index)
          BY <1>3, <1>4, <1>5, <1>6, <1>10, <1>11, <2>1, <3>1
        <4> QED BY <1>4, <4>1
      <3>2. CASE i # l
        <4>1. i \in DOMAIN running /\ running'[i] = running[i]
          BY <1>10, <3>2
        <4>2. /\ num_scheduled_tokens[running[i]] = 0 => Ask(running[i]) = 0
              /\ i < req_index => num_scheduled_tokens[running[i]] = 0 \/ running[i] \in in_batch
          BY <1>3, <4>1 DEF RowsInv, Batched
        <4> QED BY <1>12, <4>1, <4>2
      <3> QED BY <3>1, <3>2
    <2>3. req_index <= Len(running') + 1
      BY <1>6, <1>10, <1>11, <2>1
    <2> QED BY <1>3, <2>2, <2>3 DEF Batched
  <1> QED BY <1>14, <1>15, <1>16

(* FCFS preempts the last of the running list. *)
LEMMA LastIsPreempted ==
    ASSUME IInv, ~PriorityPolicy, PreemptRunning
    PROVE  LET n == Len(running)
           IN  /\ n \in Nat \ {0} /\ Victim = running[n] /\ Victim \in Req
               /\ running' \in Seq(Req) /\ Len(running') = n - 1
               /\ \A i \in 1 .. n - 1 : running'[i] = running[i]
  <1>1. running \in Seq(Req) /\ IsInjective(running)
    BY DEF IInv, Types, Queues, Lists
  <1> DEFINE n == Len(running)
             x == running[n]
             p == Keep(running, Req \ {x})
  <1>2. /\ n \in Nat \ {0} /\ x \in Req /\ running' = p /\ Victim = x
    <2>1. PICK i \in 1 .. Len(running) : running[i] = Victim /\ i = Len(running)
      BY VictimFacts DEF PreemptRunning
    <2>2. n \in Nat \ {0} /\ Victim = x
      BY <1>1, <2>1
    <2>3. x \in Req
      BY <1>1, <2>2
    <2> QED BY <2>2, <2>3 DEF PreemptRunning
  <1>3. Without(Req, running, n, p)
    <2>1. n \in 1 .. Len(running)
      BY <1>2
    <2> HIDE DEF n
    <2> QED BY <1>1, <2>1, KeepWithout
  <1> HIDE DEF p
  <1>4. p \in Seq(Req) /\ Len(p) \in Nat /\ Len(p) <= n
    BY <1>3 DEF Without
  <1>5. \A i \in 1 .. n - 1 : i \in 1 .. Len(p) /\ p[i] = running[i]
    <2> TAKE i \in 1 .. n - 1
    <2>1. i \in 1 .. Len(running) /\ i # n /\ i < n
      BY <1>2
    <2> QED BY <1>3, <2>1 DEF Without
  <1>6. ~(n \in 1 .. Len(p))
    <2>1. ASSUME n \in 1 .. Len(p) PROVE FALSE
      <3>1. \E i \in 1 .. Len(running) : i >= n /\ (n >= n => i > n)
        BY <1>3, <2>1 DEF Without
      <3> QED BY <1>2, <3>1
    <2> QED BY <2>1
  <1>7. n - 1 <= Len(p)
    <2>1. CASE n = 1
      BY <1>4, <2>1
    <2>2. CASE n > 1
      <3>1. n - 1 \in 1 .. n - 1
        BY <1>2, <2>2
      <3>2. n - 1 \in 1 .. Len(p)
        BY <1>5, <3>1
      <3>3. n \in Nat /\ Len(p) \in Nat
        BY <1>2, <1>4
      <3> HIDE DEF n
      <3> QED BY <3>2, <3>3
    <2>3. n \in Nat \ {0}
      BY <1>2
    <2> HIDE DEF n
    <2> QED BY <2>1, <2>2, <2>3
  <1> QED BY <1>2, <1>4, <1>5, <1>6, <1>7

(* A preemption takes the last one off the list. *)
LEMMA PreemptionKeepsRows ==
    ASSUME IInv, IInv', RowsInv, ~PriorityPolicy, PreemptRunning
    PROVE  Batched' /\ \E left \in [Req -> Int] : InTurn(left)' /\ Given(left)'
  <1> USE DEF Executing, Updating, Scheduling
  <1>1. PICK left \in [Req -> Int] : InTurn(left) /\ Given(left)
    BY DEF RowsInv
  <1> DEFINE n == Len(running)
  <1>2. /\ n \in Nat \ {0} /\ Victim = running[n] /\ Victim \in Req
        /\ running' \in Seq(Req) /\ Len(running') = n - 1
        /\ \A i \in 1 .. n - 1 : running'[i] = running[i]
    BY LastIsPreempted
  <1>3. /\ pc = "fit"
        /\ status' = [status EXCEPT ![Victim] = "preempted"]
        /\ computed' = [computed EXCEPT ![Victim] = 0]
        /\ UNCHANGED <<token_budget, num_scheduled_tokens, req_index, output, placeholders, in_batch>>
        /\ IF Victim = fitting[1] THEN pc' = "assemble" ELSE UNCHANGED <<pc, fitting>>
    BY DEF PreemptRunning, UndoScheduled, batch
  <1>4. /\ status \in [Req -> {"unknown", "waiting", "running", "preempted", "finished"}]
        /\ computed \in [Req -> Nat]
    BY DEF IInv, Types
  <1>5. \A q \in Req : q # Victim => Ask(q)' = Ask(q)
    <2> SUFFICES ASSUME NEW q \in Req, q # Victim PROVE Ask(q)' = Ask(q)
      OBVIOUS
    <2>1. status'[q] = status[q] /\ computed'[q] = computed[q] /\ NumTokens(q)' = NumTokens(q)
      BY <1>3, <1>4 DEF NumTokens
    <2> QED BY <1>3, <2>1 DEF Ask, ReachesMaxTokens
  <1>6. /\ DOMAIN running = 1 .. n /\ req_index \in Nat \ {0} /\ token_budget \in Nat
        /\ \A i \in DOMAIN running :
               running[i] \in Range(running) /\ running[i] \in Req /\ Ask(running[i]) \in Nat
        /\ \A i, j \in DOMAIN running : running[i] = running[j] => i = j
    BY RunningPlaces
  <1>7. req_index \in DOMAIN running /\ running[req_index] = fitting[1]
    BY <1>3 DEF IInv, Fitting
  <1>8. Victim = fitting[1] => req_index = n
    <2>1. n \in DOMAIN running
      BY <1>2, <1>6
    <2> HIDE DEF n
    <2> QED BY <1>2, <1>6, <1>7, <2>1
  <1> HIDE DEF n
  <1>9. /\ DOMAIN running' = 1 .. n - 1
        /\ \A i \in DOMAIN running' : i \in DOMAIN running /\ i < n /\ running'[i] = running[i]
                                      /\ running[i] # Victim
    <2>1. DOMAIN running' = 1 .. n - 1
      BY <1>2
    <2>2. \A i \in 1 .. n - 1 : i \in 1 .. n /\ i < n /\ n \in 1 .. n
      BY <1>2
    <2> QED BY <1>2, <1>6, <2>1, <2>2
  <1>10. \A i \in DOMAIN running' : /\ running'[i] = running[i] /\ i \in DOMAIN running /\ i < n
                                    /\ Ask(running[i])' = Ask(running[i])
    <2> SUFFICES ASSUME NEW i \in DOMAIN running' PROVE Ask(running[i])' = Ask(running[i])
      BY <1>9
    <2>1. PICK q \in Req : q = running[i] /\ running'[i] = q /\ q # Victim
      BY <1>6, <1>9
    <2>2. Ask(running[i])' = Ask(q)'
      BY <2>1
    <2> QED BY <1>5, <2>1, <2>2
  <1>11. InTurn(left)'
    <2>1. ASSUME NEW q \in Range(running')
          PROVE  q \in Range(running) /\ Ask(q)' \in Nat /\ Ask(q)' <= Ask(q)
      <3>1. PICK i \in DOMAIN running' : running'[i] = q
        BY DEF Range
      <3>2. q \in Range(running) /\ q \in Req /\ Ask(q) \in Nat /\ q # Victim
        BY <1>6, <1>9, <3>1
      <3> QED BY <1>5, <3>2
    <2>2. \A i, j \in DOMAIN running' : i < j =>
              \E k, l \in DOMAIN running : k < l /\ running'[i] = running[k] /\ running'[j] = running[l]
      BY <1>10
    <2>3. Range(running') \subseteq Range(running)
      BY <2>1
    <2> QED BY <1>1, <2>1, <2>2, <2>3, AsksShrink
  <1>12. CASE Victim # fitting[1]
    <2>1. pc' = "fit" /\ fitting' = fitting
      BY <1>3, <1>12
    <2>2. Ask(fitting[1])' = Ask(fitting[1])
      <3>1. PICK q \in Req : q = fitting[1]
        BY <1>6, <1>7
      <3>2. Ask(fitting[1])' = Ask(q)'
        BY <2>1, <3>1
      <3> QED BY <1>5, <1>12, <3>1, <3>2
    <2>3. Given(left)'
      BY <1>1, <1>3, <1>10, <2>1, <2>2 DEF Given
    <2>4. Batched'
      BY <1>3, <1>10, <2>1 DEF RowsInv, Batched
    <2> QED BY <1>11, <2>3, <2>4
  <1>13. CASE Victim = fitting[1]
    <2>1. pc' = "assemble" /\ req_index = n
      BY <1>3, <1>8, <1>13
    <2>2. Given(left)'
      BY <1>1, <1>3, <2>1 DEF Given
    <2>3. ASSUME NEW i \in DOMAIN running'
          PROVE  /\ num_scheduled_tokens[running[i]]' = 0 => Ask(running[i])' = 0
                 /\ num_scheduled_tokens[running[i]]' = 0 \/ running[i]' \in in_batch
      <3>1. num_scheduled_tokens[running[i]] = 0 => Ask(running[i]) = 0
        BY <1>3, <1>10, <2>1 DEF RowsInv, Batched
      <3>2. num_scheduled_tokens[running[i]] # 0 => Ask(running[i]) > 0
        BY <1>3, <1>6, <1>10, AskFacts DEF Scheduled
      <3>3. Ask(running[i]) > 0 => running[i] \in in_batch
        BY <1>3, <1>10 DEF RowsInv, Batched
      <3> QED BY <1>3, <1>10, <3>1, <3>2, <3>3
    <2>4. Batched'
      BY <1>3, <2>1, <2>3 DEF Batched
    <2> QED BY <1>11, <2>2, <2>4
  <1> QED BY <1>12, <1>13

(* What is left to ask for after a step is no more than before it: the     *)
(* rest of a prompt, or the one token that follows.                        *)
LEMMA ScheduledKeepsRows ==
    ASSUME IInv, IInv', RowsInv, FinishSchedule
    PROVE  Batched' /\ \E left \in [Req -> Int] : InTurn(left)' /\ Given(left)'
  <1> USE DEF Executing, Updating, Scheduling
  <1>1. PICK left \in [Req -> Int] : InTurn(left) /\ Given(left)
    BY DEF RowsInv
  <1>2. /\ pc = "assemble" /\ pc' \in Executing
        /\ computed' = [q \in Req |-> computed[q] + num_scheduled_tokens[q]]
        /\ placeholders' = [q \in Req |->
               IF Async /\ q \in Scheduled /\ ~is_prefill_chunk(q)
               THEN placeholders[q] + 1 ELSE placeholders[q]]
        /\ UNCHANGED <<status, output, running, num_scheduled_tokens, in_batch, req_index>>
    BY DEF FinishSchedule, sched, batch
  <1>3. ASSUME NEW r \in Range(running)
        PROVE  /\ Ask(r)' \in Nat /\ Ask(r)' <= Ask(r)
               /\ num_scheduled_tokens[r] = 0 => Ask(r)' = Ask(r)
    <2> DEFINE n == num_scheduled_tokens[r]
               x == NumTokens(r) + placeholders[r] - computed[r]
               y == MaxModelLen - computed[r] - 1
               u == NumTokens(r)' + placeholders'[r] - computed'[r]
               v == MaxModelLen - computed'[r] - 1
               e == NumTokens(r) + placeholders[r]
    <2>1. /\ r \in Req /\ status[r] = "running" /\ computed[r] \in Nat /\ placeholders[r] \in Nat
          /\ n \in Nat /\ NumTokens(r) \in Nat
          /\ computed[r] + n <= e /\ computed[r] + n < MaxModelLen
      BY <1>2, RunningFacts
    <2>2. /\ computed'[r] = computed[r] + n /\ NumTokens(r)' = NumTokens(r)
          /\ status'[r] = "running"
          /\ placeholders'[r] = IF Async /\ r \in Scheduled /\ ~(computed[r] + n < e)
                                THEN placeholders[r] + 1 ELSE placeholders[r]
      BY <1>2, <2>1 DEF NumTokens, is_prefill_chunk
    <2>3. CASE n = 0
      <3>1. r \notin Scheduled
        BY <2>3 DEF Scheduled
      <3>2. computed'[r] = computed[r] /\ placeholders'[r] = placeholders[r]
        BY <2>1, <2>2, <2>3, <3>1
      <3>3. Ask(r)' = Ask(r)
        <4>1. status'[r] = status[r] /\ Len(output[r])' = Len(output[r])
          BY <1>2
        <4>2. NumTokens(r)' = NumTokens(r)
          BY <2>2
        <4> QED BY <3>2, <4>1, <4>2 DEF Ask, ReachesMaxTokens
      <3>4. Ask(r) \in Nat
        BY <2>1, AskFacts
      <3> QED BY <3>3, <3>4
    <2>4. CASE n # 0
      <3>1. r \in Scheduled /\ ~ReachesMaxTokens(r) /\ Ask(r) > 0 /\ Ask(r) \in Nat
        <4>1. r \in Scheduled
          BY <2>1, <2>4 DEF Scheduled
        <4> QED BY <1>2, <2>1, <4>1, AskFacts DEF IInv, Schedules
      <3>2. /\ x \in Nat /\ y \in Nat /\ n <= x /\ n <= y /\ v = y - n
            /\ u = x - n \/ (u = 1 /\ Async)
        <4>1. /\ x \in Nat /\ y \in Nat /\ n <= x /\ n <= y /\ v = y - n
          <5>1. e \in Nat /\ x = e - computed[r]
            BY <2>1
          <5>2. v = MaxModelLen - (computed[r] + n) - 1
            BY <2>2
          <5> DEFINE c == computed[r]
          <5>3. c \in Nat /\ n \in Nat /\ c + n <= e /\ c + n < MaxModelLen
                /\ y = MaxModelLen - c - 1
            BY <2>1
          <5>4. x = e - c /\ v = MaxModelLen - (c + n) - 1
            BY <5>1, <5>2
          <5> HIDE DEF n, c, e, x, y, v
          <5> QED BY <5>1, <5>3, <5>4, ConstantFacts
        <4>2. u = x - n \/ (u = 1 /\ Async)
          <5>1. CASE Async /\ ~(computed[r] + n < e)
            <6>1. placeholders'[r] = placeholders[r] + 1 /\ computed[r] + n = e
              BY <2>1, <2>2, <3>1, <5>1
            <6> QED BY <2>1, <2>2, <5>1, <6>1
          <5>2. CASE ~(Async /\ ~(computed[r] + n < e))
            BY <2>1, <2>2, <5>2
          <5> QED BY <5>1, <5>2
        <4> QED BY <4>1, <4>2
      <3> DEFINE a == Least(Shortened(x), y)
                 b == Least(Shortened(u), v)
      <3>3. /\ Ask(r) = IF Async THEN a ELSE Greatest(a, 1)
            /\ Ask(r)' = 0 \/ Ask(r)' = IF Async THEN b ELSE Greatest(b, 1)
        BY <2>1, <2>2, <3>1 DEF Ask
      <3> HIDE DEF x, y, u, v, n
      <3>4. n \in Nat /\ n > 0
        BY <2>1, <2>4 DEF n
      <3>5. /\ b \in Nat
            /\ b <= a \/ (b <= 1 /\ Async)
        BY <3>2, <3>4, ConstantFacts DEF Shortened, Least
      <3> HIDE DEF a, b
      <3>6. Greatest(b, 1) \in Nat /\ (a \in Int /\ b <= a => Greatest(b, 1) <= Greatest(a, 1))
        BY <3>5 DEF Greatest
      <3>7. a \in Nat
        BY <3>2, ConstantFacts DEF a, Shortened, Least
      <3>8. Ask(r)' \in Nat /\ Ask(r)' <= Ask(r)
        <4>1. CASE Async
          BY <3>1, <3>3, <3>5, <3>7, <4>1
        <4>2. CASE ~Async
          BY <3>1, <3>3, <3>5, <3>6, <3>7, <4>2
        <4> QED BY <4>1, <4>2
      <3> QED BY <2>4, <3>8 DEF n
    <2> QED BY <2>3, <2>4
  <1>4. InTurn(left)'
    <2>1. \A i, j \in DOMAIN running' : i < j =>
              \E k, l \in DOMAIN running : k < l /\ running'[i] = running[k] /\ running'[j] = running[l]
      BY <1>2
    <2> QED BY <1>1, <1>2, <1>3, <2>1, AsksShrink
  <1>5. Given(left)'
    BY <1>2 DEF Given
  <1>6. Batched'
    <2>1. ASSUME NEW i \in DOMAIN running, num_scheduled_tokens[running[i]] = 0
          PROVE  Ask(running[i])' = 0
      <3>1. PICK r : r = running[i]
        OBVIOUS
      <3>2. r \in Range(running) /\ Ask(r) = 0
        BY <1>2, <2>1, <3>1, RunningPlaces DEF RowsInv, Batched
      <3>3. Ask(running[i])' = Ask(r)'
        BY <1>2, <3>1
      <3> QED BY <1>3, <2>1, <3>1, <3>2, <3>3
    <2> QED BY <1>2, <2>1 DEF RowsInv, Batched
  <1> QED BY <1>4, <1>5, <1>6

(* A list of which some are kept has the others before and behind as they  *)
(* were.                                                                   *)
LEMMA KeptAreInTurn ==
    ASSUME NEW q \in Seq(Req), NEW S, NEW k, k = Keep(q, S)
    PROVE  /\ Range(k) \subseteq Range(q)
           /\ \A i, j \in DOMAIN k : i < j =>
                  \E m, n \in DOMAIN q : m < n /\ k[i] = q[m] /\ k[j] = q[n]
  <1>1. k \in Seq(Req) /\ Range(k) = Range(q) \cap S
    BY KeepFacts
  <1>2. PICK g : Places(q, S, k, g)
    BY KeepOrder
  <1>3. DOMAIN k = 1 .. Len(k) /\ DOMAIN q = 1 .. Len(q)
    BY <1>1
  <1>4. ASSUME NEW i \in DOMAIN k, NEW j \in DOMAIN k, i < j
        PROVE  \E m, n \in DOMAIN q : m < n /\ k[i] = q[m] /\ k[j] = q[n]
    <2>1. g[i] \in DOMAIN q /\ g[j] \in DOMAIN q /\ g[i] < g[j] /\ k[i] = q[g[i]] /\ k[j] = q[g[j]]
      BY <1>2, <1>3, <1>4 DEF Places
    <2> QED BY <2>1
  <1>5. Range(k) \subseteq Range(q)
    BY <1>1
  <1> QED BY <1>4, <1>5

(* Outside of a step that is being scheduled, it does no harm when some    *)
(* leave the list and the others ask for less.                             *)
LEMMA LessKeepsRows ==
    ASSUME IInv, RowsInv,
           pc \in {"idle", "pop"} \cup Updating, pc' \in {"idle", "pop"} \cup Updating,
           in_batch' = in_batch,
           Range(running') \subseteq Range(running),
           \A r \in Range(running') : Ask(r)' \in Nat /\ Ask(r)' <= Ask(r),
           \A i, j \in DOMAIN running' : i < j =>
               \E k, l \in DOMAIN running : k < l /\ running'[i] = running[k] /\ running'[j] = running[l]
    PROVE  Batched' /\ \E left \in [Req -> Int] : InTurn(left)' /\ Given(left)'
  <1> USE DEF Executing, Updating, Scheduling
  <1>1. PICK left \in [Req -> Int] : InTurn(left) /\ Given(left)
    BY DEF RowsInv
  <1>2. InTurn(left)'
    BY <1>1, AsksShrink
  <1>3. Given(left)'
    BY DEF Given
  <1>4. Batched'
    <2>1. ASSUME NEW i \in DOMAIN running', Ask(running[i])' > 0
          PROVE  running'[i] \in in_batch
      <3>1. PICK r : r = running'[i]
        OBVIOUS
      <3>2. r \in Range(running') /\ r \in Range(running)
        BY <3>1 DEF Range
      <3>3. Ask(running[i])' = Ask(r)'
        BY <3>1
      <3>4. PICK k \in DOMAIN running : running[k] = r
        BY <3>2 DEF Range
      <3>5. Ask(r) \in Nat
        BY <3>4, RunningPlaces
      <3>6. Ask(running[k]) > 0
        BY <2>1, <3>2, <3>3, <3>4, <3>5
      <3> QED BY <3>1, <3>4, <3>6 DEF RowsInv, Batched
    <2> QED BY <2>1 DEF Batched
  <1> QED BY <1>2, <1>3, <1>4

(* A token that arrives takes the place of the one it stands for: what was *)
(* to compute for it was already asked for.                                *)
LEMMA UpdateAsksLess ==
    ASSUME IInv, UpdateRequest, NEW q \in Req
    PROVE  Ask(q)' \in Nat /\ Ask(q)' <= Ask(q)
  <1>1. PICK r, t, k : r = NextTodo /\ t = oldest.token[r] /\ k = placeholders_left(r)
    OBVIOUS
  <1> DEFINE out == Append(output[r], t)
  <1>2. /\ pc = "update" /\ todo # {} /\ Unfinished(r) /\ r \in DOMAIN oldest.token
        /\ output' = [output EXCEPT ![r] = out]
        /\ placeholders' = [placeholders EXCEPT ![r] = k]
        /\ computed' = computed
    BY <1>1 DEF UpdateRequest
  <1>3. status' = [status EXCEPT ![r] = "finished"] \/ (status' = status /\ ~check_stop(r, out))
    BY <1>1 DEF UpdateRequest
  <1>4. /\ status \in [Req -> {"unknown", "waiting", "running", "preempted", "finished"}]
        /\ output \in [Req -> Seq(Token)] /\ placeholders \in [Req -> Nat]
        /\ computed \in [Req -> Nat]
    BY DEF IInv, Types
  <1>5. Ask(q) \in Nat
    BY AskFacts
  <1>6. CASE q # r
    <2>1. /\ status'[q] = status[q] /\ output'[q] = output[q] /\ placeholders'[q] = placeholders[q]
          /\ computed'[q] = computed[q]
      BY <1>2, <1>3, <1>4, <1>6
    <2>2. NumTokens(q)' = NumTokens(q)
      BY <2>1 DEF NumTokens
    <2>3. Ask(q)' = Ask(q)
      BY <2>1, <2>2 DEF Ask, ReachesMaxTokens
    <2> QED BY <1>5, <2>3
  <1>7. CASE q = r /\ (status[q] # "running" \/ status'[q] # "running")
    <2>1. status'[q] # "running"
      BY <1>3, <1>4, <1>7
    <2>2. Ask(q)' = 0
      BY <2>1 DEF Ask
    <2> QED BY <1>5, <2>2
  <1>8. CASE q = r /\ status[q] = "running" /\ status'[q] = "running"
    <2>1. status' = status /\ ~check_stop(r, out)
      BY <1>3, <1>4, <1>8
    <2>2. /\ r \in todo
          /\ First = Batch(todo, oldest.rows, DOMAIN oldest.token \cap todo)
      BY <1>1, <1>2, UpdatingFacts DEF Updating
    <2>3. Sampled(First, r) = 1 /\ Sampled(Second, r) \in {0, 1}
      BY <1>2, <2>2 DEF Sampled, Batch
    <2>4. TokensOut(r) >= 1 /\ TokensOut(r) \in Nat
      BY <2>3 DEF TokensOut
    <2> DEFINE e == NumTokens(r)
               ph == placeholders[r]
               c == computed[r]
               p == Len(Prompt[r])
               o == Len(output[r])
               x == e + ph - c
               y == MaxModelLen - c - 1
               u == NumTokens(r)' + k - c
    <2>5. /\ e \in Nat /\ ph \in Nat /\ c \in Nat /\ c <= e + ph /\ c < MaxModelLen
          /\ (~Async => Ask(r) > 0)
      BY <1>8, AskFacts
    <2>6. /\ p \in Nat /\ o \in Nat /\ e = p + o
      BY <1>4, <1>8, TokenFacts, ConstantFacts
    <2>7. Len(out) = o + 1 /\ output'[r] = out /\ placeholders'[r] = k /\ computed'[r] = c
      <3>1. output[r] \in Seq(Token)
        BY <1>4, <1>8
      <3>2. output'[r] = out /\ placeholders'[r] = k /\ computed'[r] = c
        BY <1>2, <1>4, <1>8
      <3> QED BY <3>1, <3>2
    <2>8. NumTokens(r)' = e + 1
      <3>1. NumTokens(r)' = p + Len(out)
        BY <2>7 DEF NumTokens
      <3> HIDE DEF p, o, e, out
      <3> QED BY <2>6, <2>7, <3>1
    <2>9. /\ Async => ph > 0 /\ k = ph - 1
          /\ ~Async => ph = 0 /\ k = 0 /\ c = e
      <3>1. CASE Async
        <4>1. TokensOut(r) <= ph
          BY <1>2, <1>8, <3>1 DEF IInv, Placeholders
        <4>2. k = ph - 1
          BY <1>1, <3>1 DEF placeholders_left
        <4> HIDE DEF ph
        <4> QED BY <2>4, <2>5, <3>1, <4>1, <4>2
      <3>2. CASE ~Async
        <4>1. ph = 0 /\ k = ph
          BY <1>1, <1>8, <3>2 DEF IInv, Placeholders, placeholders_left
        <4>2. c + 1 >= e + TokensOut(r)
          BY <1>8, <2>4 DEF IInv, Computes
        <4> HIDE DEF ph, c, e
        <4> QED BY <2>4, <2>5, <3>2, <4>1, <4>2
      <3> QED BY <3>1, <3>2
    <2>10. p + o + 1 < p + MaxTokens[r]
      <3>1. MinTokens[r] \in Nat /\ MaxTokens[r] \in Nat /\ MinTokens[r] <= MaxTokens[r]
        BY <1>8, ConstantFacts
      <3>2. ~(Len(out) >= MinTokens[r] /\ Len(out) >= MaxTokens[r])
        BY <2>1 DEF check_stop
      <3> HIDE DEF p, o, out
      <3> QED BY <2>6, <2>7, <3>1, <3>2
    <2>11. /\ ReachesMaxTokens(r) <=> ph > 0 /\ c + 2 - ph >= p + MaxTokens[r]
           /\ ReachesMaxTokens(r)' <=> k > 0 /\ c + 2 - k >= p + MaxTokens[r]
      BY <2>7 DEF ReachesMaxTokens
    <2>12. /\ Ask(r) = IF ReachesMaxTokens(r) THEN 0
                       ELSE LET a == Least(Shortened(x), y) IN IF Async THEN a ELSE Greatest(a, 1)
           /\ Ask(r)' = IF ReachesMaxTokens(r)' THEN 0
                        ELSE LET a == Least(Shortened(u), y) IN IF Async THEN a ELSE Greatest(a, 1)
      BY <1>8, <2>7 DEF Ask
    <2> DEFINE m == MaxTokens[r]
    <2>13. m \in Nat
      BY <1>8, ConstantFacts
    <2>14. x \in Nat /\ y \in Nat /\ u = e + 1 + k - c
      <3>1. u = e + 1 + k - c
        BY <2>8
      <3> HIDE DEF e, ph, c, u
      <3> QED BY <2>5, <3>1, ConstantFacts
    <2> HIDE DEF e, ph, c, p, o, x, y, u, m
    <2>15. CASE Async
      <3>1. u = x /\ k \in Nat
        BY <2>5, <2>9, <2>14, <2>15 DEF x
      <3>2. ReachesMaxTokens(r) => ReachesMaxTokens(r)' \/ x = 0
        <4>1. CASE ph > 1
          BY <2>5, <2>6, <2>9, <2>11, <2>13, <2>15, <4>1 DEF m
        <4>2. CASE ph = 1
          BY <2>5, <2>6, <2>10, <2>11, <2>13, <4>2, <2>14 DEF m, x
        <4> QED BY <2>5, <2>9, <2>15, <4>1, <4>2
      <3> DEFINE a == Least(Shortened(x), y)
      <3>3. a \in Nat /\ (x = 0 => a = 0)
        BY <2>14, ConstantFacts DEF Least, Shortened
      <3>4. /\ Ask(r) = IF ReachesMaxTokens(r) THEN 0 ELSE a
            /\ Ask(r)' = IF ReachesMaxTokens(r)' THEN 0 ELSE a
        BY <2>12, <2>15, <3>1
      <3> HIDE DEF a
      <3> QED BY <1>8, <3>2, <3>3, <3>4
    <2>16. CASE ~Async
      <3>1. u = 1
        BY <2>5, <2>9, <2>14, <2>16
      <3> DEFINE b == Least(Shortened(u), y)
      <3>2. b \in Nat /\ b <= 1
        BY <2>14, <3>1, ConstantFacts DEF Least, Shortened
      <3>3. Ask(r)' = 0 \/ Ask(r)' = Greatest(b, 1)
        BY <2>12, <2>16
      <3> HIDE DEF b
      <3>4. Ask(r)' \in Nat /\ Ask(r)' <= 1
        BY <3>2, <3>3 DEF Greatest
      <3>5. Ask(r) \in Nat /\ Ask(r) > 0
        BY <1>5, <1>8, <2>5, <2>16
      <3>6. Ask(r)' \in Nat /\ Ask(r)' <= Ask(r)
        BY <3>4, <3>5
      <3> QED BY <1>8, <3>6
    <2> QED BY <2>15, <2>16
  <1> QED BY <1>6, <1>7, <1>8

(* The steps in which requests come, go or get their tokens.               *)
LEMMA ArrivalsAndEndsKeepRows ==
    ASSUME IInv, RowsInv,
           \/ UpdateRequest \/ FinishUpdate
           \/ \E x \in Req : AddRequest(x) \/ AbortRequest(x)
    PROVE  Batched' /\ \E left \in [Req -> Int] : InTurn(left)' /\ Given(left)'
  <1>1. /\ running \in Seq(Req) /\ Range(running) \subseteq Req
        /\ status \in [Req -> {"unknown", "waiting", "running", "preempted", "finished"}]
    BY RangeFacts DEF IInv, Types
  <1>2. \A r \in Req : Ask(r) \in Nat
    BY AskFacts
  <1>3. CASE UpdateRequest
    <2>1. /\ running' = running /\ in_batch' = in_batch /\ pc \in Updating /\ pc' \in Updating
      BY <1>3 DEF UpdateRequest, queues, Updating
    <2>2. \A r \in Range(running') : Ask(r)' \in Nat /\ Ask(r)' <= Ask(r)
      BY <1>1, <1>3, <2>1, UpdateAsksLess
    <2>3. \A i, j \in DOMAIN running' : i < j =>
              \E k, l \in DOMAIN running : k < l /\ running'[i] = running[k] /\ running'[j] = running[l]
      BY <2>1
    <2> QED BY <2>1, <2>2, <2>3, LessKeepsRows
  <1>4. CASE FinishUpdate
    <2>1. /\ running' = Keep(running, {r \in Req : Unfinished(r)})
          /\ UNCHANGED <<status, output, computed, placeholders, in_batch>>
          /\ pc = "update" /\ pc' = "idle"
      BY <1>4 DEF FinishUpdate, reqs
    <2>2. /\ Range(running') \subseteq Range(running)
          /\ \A i, j \in DOMAIN running' : i < j =>
              \E k, l \in DOMAIN running : k < l /\ running'[i] = running[k] /\ running'[j] = running[l]
      <3>1. PICK k, S : k = running' /\ k = Keep(running, S)
        BY <2>1
      <3>2. /\ Range(k) \subseteq Range(running)
            /\ \A i, j \in DOMAIN k : i < j =>
                \E m, n \in DOMAIN running : m < n /\ k[i] = running[m] /\ k[j] = running[n]
        BY <1>1, <3>1, KeptAreInTurn
      <3> QED BY <3>1, <3>2
    <2>3. \A r : Ask(r)' = Ask(r)
      BY <2>1, AsksStay
    <2>4. \A r \in Range(running') : Ask(r)' \in Nat /\ Ask(r)' <= Ask(r)
      BY <1>1, <1>2, <2>2, <2>3
    <2> QED BY <2>1, <2>2, <2>4, LessKeepsRows DEF Updating
  <1>5. ASSUME NEW x \in Req, AddRequest(x)
        PROVE  Batched' /\ \E left \in [Req -> Int] : InTurn(left)' /\ Given(left)'
    <2>1. /\ running' = running /\ in_batch' = in_batch /\ pc = "idle" /\ pc' = "idle"
          /\ ~Unfinished(x)
          /\ status' = [status EXCEPT ![x] = "waiting"]
          /\ output' = [output EXCEPT ![x] = << >>]
          /\ computed' = [computed EXCEPT ![x] = 0]
          /\ placeholders' = [placeholders EXCEPT ![x] = 0]
      BY <1>5 DEF AddRequest, batch
    <2>2. ASSUME NEW r \in Range(running') PROVE Ask(r)' \in Nat /\ Ask(r)' <= Ask(r)
      <3>1. r \in Req /\ status[r] = "running"
        BY <1>1, <2>1 DEF IInv, Queues, Lists, Updating
      <3>2. r # x
        BY <2>1, <3>1 DEF Unfinished
      <3>3. /\ output \in [Req -> Seq(Token)] /\ placeholders \in [Req -> Nat]
            /\ computed \in [Req -> Nat]
        BY DEF IInv, Types
      <3>4. /\ status'[r] = status[r] /\ output'[r] = output[r] /\ computed'[r] = computed[r]
            /\ placeholders'[r] = placeholders[r]
        BY <1>1, <2>1, <3>1, <3>2, <3>3
      <3>5. NumTokens(r)' = NumTokens(r)
        BY <3>4 DEF NumTokens
      <3>6. Ask(r)' = Ask(r)
        BY <3>4, <3>5 DEF Ask, ReachesMaxTokens
      <3> QED BY <1>2, <3>1, <3>6
    <2>3. \A i, j \in DOMAIN running' : i < j =>
              \E k, l \in DOMAIN running : k < l /\ running'[i] = running[k] /\ running'[j] = running[l]
      BY <2>1
    <2> QED BY <2>1, <2>2, <2>3, LessKeepsRows
  <1>6. ASSUME NEW x \in Req, AbortRequest(x)
        PROVE  Batched' /\ \E left \in [Req -> Int] : InTurn(left)' /\ Given(left)'
    <2>1. /\ in_batch' = in_batch /\ pc = "idle" /\ pc' = "idle"
          /\ running' = Keep(running, Req \ {x}) \/ running' = running
          /\ status' = [status EXCEPT ![x] = "finished"]
          /\ UNCHANGED <<output, computed, placeholders>>
      BY <1>6 DEF AbortRequest, LeaveQueue, batch
    <2>2. /\ Range(running') \subseteq Range(running)
          /\ \A i, j \in DOMAIN running' : i < j =>
              \E k, l \in DOMAIN running : k < l /\ running'[i] = running[k] /\ running'[j] = running[l]
      <3>1. CASE running' = Keep(running, Req \ {x})
        <4>1. PICK k, S : k = running' /\ k = Keep(running, S)
          BY <3>1
        <4>2. /\ Range(k) \subseteq Range(running)
              /\ \A i, j \in DOMAIN k : i < j =>
                  \E m, n \in DOMAIN running : m < n /\ k[i] = running[m] /\ k[j] = running[n]
          BY <1>1, <4>1, KeptAreInTurn
        <4> QED BY <4>1, <4>2
      <3>2. CASE running' = running
        BY <3>2
      <3> QED BY <2>1, <3>1, <3>2
    <2>3. ASSUME NEW r \in Range(running') PROVE Ask(r)' \in Nat /\ Ask(r)' <= Ask(r)
      <3>1. r \in Req
        BY <1>1, <2>2
      <3>2. CASE r = x
        <4>1. status'[r] = "finished"
          BY <1>1, <2>1, <3>1, <3>2
        <4>2. Ask(r)' = 0
          BY <4>1 DEF Ask
        <4> QED BY <1>2, <3>1, <4>2
      <3>3. CASE r # x
        <4>1. status'[r] = status[r]
          BY <1>1, <2>1, <3>1, <3>3
        <4>2. NumTokens(r)' = NumTokens(r)
          BY <2>1 DEF NumTokens
        <4>3. Ask(r)' = Ask(r)
          BY <2>1, <4>1, <4>2 DEF Ask, ReachesMaxTokens
        <4> QED BY <1>2, <3>1, <4>3
      <3> QED BY <3>2, <3>3
    <2> QED BY <2>1, <2>2, <2>3, LessKeepsRows
  <1> QED BY <1>3, <1>4, <1>5, <1>6

(* Nobody runs at first. *)
LEMMA InitRows == Init => RowsInv
  <1> SUFFICES ASSUME Init PROVE RowsInv
    OBVIOUS
  <1>1. /\ running = << >> /\ pc = "idle"
        /\ \A r \in Req : status[r] = "unknown"
    BY DEF Init
  <1>2. ToCompute
    BY <1>1 DEF ToCompute
  <1>3. DOMAIN running = {} /\ Range(running) = {}
    BY <1>1 DEF Range
  <1>4. Batched
    BY <1>1, <1>3 DEF Batched, Updating, Executing
  <1> DEFINE left == [r \in Req |-> 0]
  <1>5. left \in [Req -> Int]
    OBVIOUS
  <1> HIDE DEF left
  <1>6. InTurn(left)
    BY <1>3 DEF InTurn
  <1>7. Given(left)
    BY <1>1 DEF Given, Scheduling
  <1> QED BY <1>2, <1>4, <1>5, <1>6, <1>7 DEF RowsInv

(* Under FCFS every step keeps it.                                         *)
LEMMA RowsKept ==
    ASSUME ~PriorityPolicy, IInv, IInv', RowsInv, [Next]_vars
    PROVE  RowsInv'
  <1> DEFINE Kept == Batched' /\ \E left \in [Req -> Int] : InTurn(left)' /\ Given(left)'
  <1>1. ToCompute'
    BY ToComputeKeeps
  <1>2. ASSUME \E r \in Req : AddRequest(r) \/ AbortRequest(r) PROVE Kept
    BY <1>2, ArrivalsAndEndsKeepRows
  <1>3. ASSUME Step PROVE Kept
    <2>1. CASE \/ BeginStep \/ BeginDrain \/ PickRunning \/ EndRunning \/ EndWaiting
               \/ ExecuteAndSample \/ ExecuteOnly \/ PopBatch \/ SkipUpdate \/ UpdateThrows
               \/ FreeStopped
      BY <2>1, QuietStepsKeepRows
    <2>2. CASE SkipRunning \/ ScheduleRunning
      BY <2>2, TurnsKeepRows
    <2>3. CASE PreemptRunning
      BY <2>3, PreemptionKeepsRows
    <2>4. CASE AdmitWaiting
      BY <2>4, AdmissionKeepsRows
    <2>5. CASE FinishSchedule
      BY <2>5, ScheduledKeepsRows
    <2>6. CASE UpdateRequest \/ FinishUpdate
      BY <2>6, ArrivalsAndEndsKeepRows
    <2> QED BY <1>3, <2>1, <2>2, <2>3, <2>4, <2>5, <2>6 DEF Step
  <1>4. ASSUME Rest \/ UNCHANGED vars PROVE Kept
    BY <1>4, QuietStepsKeepRows
  <1>5. Kept
    BY <1>2, <1>3, <1>4 DEF Next
  <1> QED BY <1>1, <1>5 DEF RowsInv

(* First come, first served, whatever a step schedules has its row in the  *)
(* model runner.  update_states takes the row of a request that a step     *)
(* leaves out; the running loop never leaves one out to schedule it in a   *)
(* later step as if the row were there, whatever tokens are in flight and  *)
(* whoever is preempted, aborted or admitted in between.                   *)
THEOREM RowsAreFound ==
    ASSUME Disciplined, ~PriorityPolicy
    PROVE  Spec => []ScheduledHaveRows
  <1>1. Init => RowsInv
    BY InitRows
  <1>2. IInv /\ IInv' /\ RowsInv /\ [Next]_vars => RowsInv'
    BY RowsKept
  <1>3. IInv /\ RowsInv => ScheduledHaveRows
    BY AllHaveRows DEF ScheduledHaveRows, Executing
  <1>4. Spec => []IInv
    BY Invariance
  <1> QED BY <1>1, <1>2, <1>3, <1>4, PTL DEF Spec

(* First come, first served, every token in flight is accounted for, in    *)
(* num_output_placeholders, towards the grammar and towards the limits:    *)
(* the runner drops no row.                                                *)
THEOREM AllTokensAccounted ==
    ASSUME Disciplined, ~PriorityPolicy
    PROVE  Spec => []TokensInFlightAccounted
  <1>1. Spec => []ScheduledHaveRows
    BY RowsAreFound
  <1>2. Spec /\ []ScheduledHaveRows => []TokensInFlightAccounted
    BY TokensAccounted
  <1> QED BY <1>1, <1>2, PTL

----------------------------------------------------------------------------
(* What the cells hold, first come, first served.  The tokens of a request *)
(* are those it knows and those in flight, and a step is about to fill the *)
(* positions it has scheduled.                                             *)
Flying(r) ==
    (IF r \in First.sampled THEN <<oldest.token[r]>> ELSE << >>)
    \o (IF Len(batch_queue) = 2 /\ r \in DOMAIN batch_queue[2].token
        THEN <<batch_queue[2].token[r]>> ELSE << >>)
Toks  == [r \in Req |-> all_token_ids(r) \o Flying(r)]
Fills == {e \in Req \X (Nat \ {0}) :
             Reach(e[1]) - num_scheduled_tokens[e[1]] < e[2] /\ e[2] <= Reach(e[1])}

(* A token that is still to be sampled comes after all that is computed.   *)
InTime ==
    pc \in Executing \/ deferred # NoBatch =>
        \A r \in Req : status[r] = "running" => computed[r] <= NumTokens(r) + Sampled(First, r)

(* What a request has computed is held, or about to be; so is what a       *)
(* cached block promises.                                                  *)
Held ==
    /\ \A r \in Req : status[r] = "running" => ComputedHeld(kv, cells, Fills, Toks, r, Reach(r))
    /\ CachedHeld(kv, cells, Fills, Toks)
HeldInv == InTime /\ Held

(* What a batch has sampled is tokens. *)
LEMMA QueuedTokens ==
    ASSUME IInv, NEW i \in DOMAIN batch_queue, NEW s \in DOMAIN batch_queue[i].token
    PROVE  batch_queue[i].token[s] \in Token
  <1>1. batch_queue[i] \in FrameType
    BY DEF IInv, Frames
  <1>2. PICK S \in SUBSET Req : batch_queue[i].token \in [S -> Token]
    BY <1>1 DEF FrameType, Partial
  <1> QED BY <1>2

LEMMA TwoInARow ==
    ASSUME NEW E, NEW x \in E, NEW y \in E
    PROVE  <<x>> \o <<y>> = <<x, y>>
  <1> DEFINE s == <<x>> \o <<y>>
             u == <<x, y>>
  <1>1. s \in Seq(E) /\ Len(s) = 2 /\ s[1] = x /\ s[2] = y
    <2>1. <<x>> \in Seq(E) /\ <<y>> \in Seq(E)
      OBVIOUS
    <2> QED BY <2>1
  <1>2. u \in Seq(E) /\ Len(u) = 2 /\ u[1] = x /\ u[2] = y
    OBVIOUS
  <1> HIDE DEF s, u
  <1>3. \A i \in 1 .. Len(s) : s[i] = u[i]
    BY <1>1, <1>2
  <1> QED BY <1>1, <1>2, <1>3, SeqEqual DEF s, u

(* One token of every batch that sampled for the request is in flight.     *)
LEMMA ToksFacts ==
    ASSUME IInv, NEW r \in Req
    PROVE  /\ Flying(r) \in Seq(Token)
           /\ Toks \in [Req -> Seq(Token)] /\ Longer(Known, Toks)
           /\ Begins(all_token_ids(r), Toks[r])
           /\ Len(Toks[r]) = NumTokens(r) + Sampled(First, r)
                + IF Len(batch_queue) = 2 /\ r \in DOMAIN batch_queue[2].token THEN 1 ELSE 0
  <1>1. Len(batch_queue) \in 0 .. 2 /\ DOMAIN batch_queue = 1 .. Len(batch_queue)
        /\ (batch_queue = << >> <=> Len(batch_queue) = 0) /\ batch_queue \in Seq(FrameType)
    BY QueueLengths DEF IInv, Frames
  <1>3. ASSUME NEW s \in Req
        PROVE  /\ all_token_ids(s) \in Seq(Token) /\ Len(all_token_ids(s)) = NumTokens(s)
               /\ Flying(s) \in Seq(Token)
               /\ all_token_ids(s) \o Flying(s) \in Seq(Token)
               /\ Begins(all_token_ids(s), all_token_ids(s) \o Flying(s))
               /\ Begins(Known[s], all_token_ids(s) \o Flying(s))
               /\ Len(all_token_ids(s) \o Flying(s)) = NumTokens(s) + Sampled(First, s)
                    + IF Len(batch_queue) = 2 /\ s \in DOMAIN batch_queue[2].token THEN 1 ELSE 0
    <2> DEFINE one == IF s \in First.sampled THEN <<oldest.token[s]>> ELSE << >>
               two == IF Len(batch_queue) = 2 /\ s \in DOMAIN batch_queue[2].token
                      THEN <<batch_queue[2].token[s]>> ELSE << >>
               a   == all_token_ids(s)
    <2>1. one \in Seq(Token) /\ Len(one) = Sampled(First, s)
      <3>1. CASE s \in First.sampled
        <4>1. batch_queue # << >>
          BY <3>1, NoBatchFacts DEF First
        <4>2. 1 \in DOMAIN batch_queue /\ s \in DOMAIN batch_queue[1].token
          BY <1>1, <3>1, <4>1 DEF First, oldest, BatchOf, Batch
        <4>3. oldest.token[s] \in Token
          BY <4>2, QueuedTokens DEF oldest
        <4> QED BY <3>1, <4>3 DEF Sampled
      <3>2. CASE s \notin First.sampled
        BY <3>2 DEF Sampled
      <3> QED BY <3>1, <3>2
    <2>2. /\ two \in Seq(Token)
          /\ Len(two) = IF Len(batch_queue) = 2 /\ s \in DOMAIN batch_queue[2].token
                        THEN 1 ELSE 0
      <3>1. CASE Len(batch_queue) = 2 /\ s \in DOMAIN batch_queue[2].token
        <4>1. 2 \in DOMAIN batch_queue
          BY <1>1, <3>1
        <4>2. batch_queue[2].token[s] \in Token
          BY <3>1, <4>1, QueuedTokens
        <4> QED BY <3>1, <4>2
      <3>2. CASE ~(Len(batch_queue) = 2 /\ s \in DOMAIN batch_queue[2].token)
        BY <3>2
      <3> QED BY <3>1, <3>2
    <2>3. a \in Seq(Token) /\ Len(a) = NumTokens(s)
      BY TokenFacts DEF IInv, Types
    <2>4. Flying(s) = one \o two
      BY DEF Flying
    <2>5. Known[s] = << >> \/ Known[s] = a
      BY DEF Known
    <2>6. Sampled(First, s) \in Nat
      BY DEF Sampled
    <2> DEFINE u == one \o two
    <2> HIDE DEF one, two, a
    <2>7. u \in Seq(Token) /\ Len(u) = Len(one) + Len(two)
      <3>1. one \in Seq(Token) /\ two \in Seq(Token)
        BY <2>1, <2>2
      <3> QED BY <3>1
    <2> HIDE DEF u
    <2>8. a \o u \in Seq(Token) /\ Len(a \o u) = Len(a) + Len(u)
          /\ \A i \in 1 .. Len(a) : (a \o u)[i] = a[i]
      BY <2>3, <2>7
    <2>9. Len(a) \in Nat /\ Len(u) \in Nat
      BY <2>3, <2>7
    <2>10. Begins(a, a \o u) /\ Begins(<< >>, a \o u)
      BY <2>8, <2>9 DEF Begins
    <2>11. Len(a \o u) = NumTokens(s) + Sampled(First, s) + Len(two)
      BY <2>1, <2>2, <2>3, <2>6, <2>7, <2>8
    <2> QED BY <2>2, <2>3, <2>4, <2>5, <2>7, <2>8, <2>10, <2>11 DEF a, u
  <1>4. Toks \in [Req -> Seq(Token)] /\ Longer(Known, Toks)
    BY <1>3 DEF Toks, Longer
  <1> QED BY <1>3, <1>4 DEF Toks

(* Between updates that is what the runner holds.                          *)
LEMMA RunnerHolds ==
    ASSUME IInv, pc \notin Updating, NEW r \in Req
    PROVE  device_toks(r) = Toks[r]
  <1> DEFINE K == FramesOf(r)
             n == Cardinality(K)
  <1>1. /\ K = {i \in DOMAIN batch_queue : r \in DOMAIN batch_queue[i].token}
        /\ InFlight(r) \in Seq(Token) /\ Len(InFlight(r)) = n
        /\ n = (IF 1 \in K THEN 1 ELSE 0) + (IF 2 \in K THEN 1 ELSE 0)
    BY InFlightFacts DEF IInv
  <1>2. Len(batch_queue) \in 0 .. 2 /\ DOMAIN batch_queue = 1 .. Len(batch_queue)
        /\ (batch_queue = << >> <=> Len(batch_queue) = 0)
    BY QueueLengths DEF IInv, Frames
  <1>3. r \in First.sampled <=> 1 \in K
    <2>1. CASE batch_queue = << >>
      BY <1>1, <1>2, <2>1, NoBatchFacts DEF First
    <2>2. CASE batch_queue # << >>
      <3>1. First = BatchOf(oldest) /\ 1 \in DOMAIN batch_queue
        BY <1>2, <2>2 DEF First
      <3> QED BY <1>1, <3>1 DEF BatchOf, Batch, oldest
    <2> QED BY <2>1, <2>2
  <1>4. Len(batch_queue) = 2 /\ r \in DOMAIN batch_queue[2].token <=> 2 \in K
    BY <1>1, <1>2
  <1>5. (K = {} \/ K = {1} \/ K = {2} \/ K = {1, 2}) /\ K \subseteq Nat /\ IsFiniteSet(K)
    <2>1. DOMAIN batch_queue \subseteq {1, 2}
      BY <1>2
    <2>2. K \subseteq {1, 2}
      BY <1>1, <2>1
    <2>3. IsFiniteSet({1, 2})
      <3>1. {1, 2} = {1} \cup {2}
        OBVIOUS
      <3>2. IsFiniteSet({1})
        BY FS_Singleton
      <3> QED BY <3>1, <3>2, FS_AddElement
    <2> HIDE DEF K
    <2>4. IsFiniteSet(K)
      BY <2>2, <2>3, FS_Subset, K \in SUBSET {1, 2}
    <2>5. K = {} \/ K = {1} \/ K = {2} \/ K = {1, 2}
      BY <2>2
    <2> QED BY <2>2, <2>4, <2>5
  <1> DEFINE at(j) == CHOOSE i \in K : RankIn(K, i) = j - 1
  <1>6. InFlight(r) = [j \in 1 .. n |-> batch_queue[at(j)].token[r]]
    BY DEF InFlight
  <1>7. n \in Nat /\ \A j \in 1 .. n : at(j) \in K /\ RankIn(K, at(j)) = j - 1
    <2> HIDE DEF K
    <2>1. n \in Nat /\ \A j \in 0 .. n - 1 : \E i \in K : RankIn(K, i) = j
      BY <1>5, Ranks
    <2>2. ASSUME NEW j \in 1 .. n PROVE \E i \in K : RankIn(K, i) = j - 1
      <3>1. j - 1 \in 0 .. n - 1
        BY <2>1
      <3> QED BY <2>1, <3>1
    <2> QED BY <2>1, <2>2
  <1>8. K = {1, 2} => RankIn(K, 1) < RankIn(K, 2)
    <2> HIDE DEF K
    <2>1. \A i, k \in K : i < k => RankIn(K, i) < RankIn(K, k)
      BY <1>5, Ranks
    <2> QED BY <2>1
  <1>13. \A i \in K : batch_queue[i].token[r] \in Token
    BY <1>1, QueuedTokens
  <1> HIDE DEF K, n, at
  <1>9. CASE K = {}
    <2>1. n = 0
      BY <1>1, <1>9
    <2>2. Flying(r) = << >> \o << >>
      BY <1>3, <1>4, <1>9 DEF Flying
    <2>3. InFlight(r) = << >> /\ << >> \o << >> = << >>
      <3>1. << >> \in Seq(Token)
        OBVIOUS
      <3> QED BY <1>1, <2>1, <3>1, ConcatEmptySeq
    <2> QED BY <2>2, <2>3 DEF device_toks, Toks
  <1>10. CASE K = {1}
    <2>1. n = 1 /\ at(1) = 1
      <3>1. n = 1
        BY <1>1, <1>10
      <3> QED BY <1>7, <1>10, <3>1
    <2>2. Flying(r) = <<batch_queue[1].token[r]>> \o << >>
      <3>1. r \in First.sampled /\ ~(Len(batch_queue) = 2 /\ r \in DOMAIN batch_queue[2].token)
        BY <1>3, <1>4, <1>10
      <3> QED BY <3>1, Zenon DEF Flying, oldest
    <2>3. InFlight(r) = <<batch_queue[1].token[r]>>
      BY <1>6, <2>1
    <2>4. <<batch_queue[1].token[r]>> \in Seq(Token)
      BY <1>13, <1>10
    <2>5. Flying(r) = <<batch_queue[1].token[r]>>
      BY <2>2, <2>4, ConcatEmptySeq
    <2> QED BY <2>3, <2>5 DEF device_toks, Toks
  <1>11. CASE K = {2}
    <2>1. n = 1 /\ at(1) = 2
      <3>1. n = 1
        BY <1>1, <1>11
      <3> QED BY <1>7, <1>11, <3>1
    <2>2. Flying(r) = << >> \o <<batch_queue[2].token[r]>>
      <3>1. r \notin First.sampled /\ Len(batch_queue) = 2 /\ r \in DOMAIN batch_queue[2].token
        BY <1>3, <1>4, <1>11
      <3> QED BY <3>1, Zenon DEF Flying
    <2>3. InFlight(r) = <<batch_queue[2].token[r]>>
      BY <1>6, <2>1
    <2>4. <<batch_queue[2].token[r]>> \in Seq(Token)
      BY <1>13, <1>11
    <2>5. Flying(r) = <<batch_queue[2].token[r]>>
      BY <2>2, <2>4, ConcatEmptySeq
    <2> QED BY <2>3, <2>5 DEF device_toks, Toks
  <1>12. CASE K = {1, 2}
    <2>1. n = 2
      BY <1>1, <1>12
    <2>2. at(1) \in {1, 2} /\ at(2) \in {1, 2} /\ RankIn(K, at(1)) = 0 /\ RankIn(K, at(2)) = 1
      BY <1>7, <1>12, <2>1
    <2>3. at(1) = 1 /\ at(2) = 2
      BY <1>8, <1>12, <2>2
    <2>4. Flying(r) = <<batch_queue[1].token[r]>> \o <<batch_queue[2].token[r]>>
      BY <1>3, <1>4, <1>12 DEF Flying, oldest
    <2>5. InFlight(r) = <<batch_queue[1].token[r], batch_queue[2].token[r]>>
      BY <1>6, <2>1, <2>3
    <2>6. batch_queue[1].token[r] \in Token /\ batch_queue[2].token[r] \in Token
      BY <1>12, <1>13
    <2> QED BY <2>4, <2>5, <2>6, TwoInARow DEF device_toks, Toks
  <1> QED BY <1>5, <1>9, <1>10, <1>11, <1>12

(* What a step is about to fill has slots, and is of those it schedules.   *)
LEMMA FillsFacts ==
    ASSUME IInv
    PROVE  /\ InSlots(kv, Fills)
           /\ \A e \in Fills : /\ e[1] \in Scheduled /\ e[2] \in Nat \ {0}
                               /\ Reach(e[1]) - num_scheduled_tokens[e[1]] < e[2]
                               /\ e[2] <= Reach(e[1])
           /\ \A r \in Req : /\ Reach(r) \in Nat /\ computed[r] \in Nat
                             /\ num_scheduled_tokens[r] \in Nat
  <1>1. \A r \in Req : /\ Reach(r) \in Nat /\ computed[r] \in Nat
                       /\ num_scheduled_tokens[r] \in Nat
    BY DEF IInv, Types, Reach, Pending
  <1>2. ASSUME NEW s \in Req, NEW q \in Nat \ {0},
               Reach(s) - num_scheduled_tokens[s] < q, q <= Reach(s)
        PROVE  s \in Scheduled /\ q <= Len(kv.req_to_blocks[s]) * BlockSize
    <2>1. num_scheduled_tokens[s] # 0
      BY <1>1, <1>2
    <2>2. s \in Scheduled
      BY <2>1 DEF Scheduled
    <2>3. Reach(s) <= Len(kv.req_to_blocks[s]) * BlockSize
      BY <2>2, ScheduledFacts DEF IInv, Tabled
    <2>4. Len(kv.req_to_blocks[s]) * BlockSize \in Nat
      <3>1. Len(kv.req_to_blocks[s]) \in Nat
        BY ManagerFields DEF IInv, Tabled
      <3> QED BY <3>1, ConstantFacts, TimesMonotonic
    <2> DEFINE x == Len(kv.req_to_blocks[s]) * BlockSize
    <2>5. x \in Nat /\ Reach(s) <= x /\ Reach(s) \in Nat
      BY <1>1, <2>3, <2>4
    <2> HIDE DEF x
    <2>6. q <= x
      BY <1>2, <2>5
    <2> QED BY <2>2, <2>6 DEF x
  <1>3. \A e \in Fills : /\ e[1] \in Req /\ e[2] \in Nat \ {0}
                         /\ Reach(e[1]) - num_scheduled_tokens[e[1]] < e[2]
                         /\ e[2] <= Reach(e[1])
    BY DEF Fills
  <1> QED BY <1>1, <1>2, <1>3 DEF InSlots

(* A request that leaves takes no hash with it. *)
LEMMA FreeLeavesHashes ==
    ASSUME IInv, NEW r \in Req
    PROVE  /\ free(kv, r).pool.block_hash = kv.pool.block_hash
           /\ \A s \in Req : s # r => free(kv, r).req_to_blocks[s] = kv.req_to_blocks[s]
  <1>1. kv \in KVType /\ kv.pool \in PoolType /\ kv.req_to_blocks \in [Req -> Seq(Blocks)]
    BY DEF IInv, Tabled, Consistent, KVType
  <1>2. \A q : free_blocks(kv.pool, q).block_hash = kv.pool.block_hash
    BY <1>1 DEF free_blocks, PoolType
  <1>3. /\ free(kv, r).pool = free_blocks(kv.pool, ReverseOf(kv.req_to_blocks[r]))
        /\ free(kv, r).req_to_blocks = [kv.req_to_blocks EXCEPT ![r] = << >>]
    BY <1>1 DEF free, KVType
  <1> QED BY <1>1, <1>2, <1>3

(* A step that leaves the cells and the hashes alone, and in which the     *)
(* requests that run have all they had before, keeps what is held;         *)
LEMMA HeldStays ==
    ASSUME IInv, Held, cells' = cells, kv'.pool.block_hash = kv.pool.block_hash,
           \A r \in Req : status'[r] = "running" =>
               /\ status[r] = "running" /\ Reach(r)' = Reach(r)
               /\ kv'.req_to_blocks[r] = kv.req_to_blocks[r]
               /\ \A p \in 1 .. Reach(r) : SubSeq(Toks'[r], 1, p) = SubSeq(Toks[r], 1, p),
           \A r \in Scheduled : /\ status'[r] = "running"
                                /\ num_scheduled_tokens'[r] = num_scheduled_tokens[r]
    PROVE  Held'
  <1>1. StaysAt(kv, kv', Fills, Fills', Toks, Toks')
    <2> SUFFICES ASSUME NEW e \in Fills
                 PROVE  /\ e \in Fills'
                        /\ BlockAt(kv', e[1], e[2]) = BlockAt(kv, e[1], e[2])
                        /\ SubSeq(Toks'[e[1]], 1, e[2]) = SubSeq(Toks[e[1]], 1, e[2])
      BY DEF StaysAt
    <2>1. /\ e \in Req \X (Nat \ {0}) /\ e[1] \in Req /\ e[1] \in Scheduled
          /\ e[2] \in 1 .. Reach(e[1])
          /\ Reach(e[1]) - num_scheduled_tokens[e[1]] < e[2] /\ e[2] <= Reach(e[1])
      <3>1. e \in Req \X (Nat \ {0})
        BY DEF Fills
      <3> QED BY <3>1, FillsFacts
    <2>2. /\ Reach(e[1])' = Reach(e[1])
          /\ num_scheduled_tokens'[e[1]] = num_scheduled_tokens[e[1]]
          /\ kv'.req_to_blocks[e[1]] = kv.req_to_blocks[e[1]]
          /\ SubSeq(Toks'[e[1]], 1, e[2]) = SubSeq(Toks[e[1]], 1, e[2])
      BY <2>1
    <2>3. e \in Fills'
      BY <2>1, <2>2 DEF Fills
    <2> QED BY <2>2, <2>3 DEF BlockAt
  <1>2. CachedHeld(kv', cells', Fills', Toks')
    BY <1>1, CachedStays DEF Held
  <1>3. ASSUME NEW r \in Req, status'[r] = "running"
        PROVE  ComputedHeld(kv', cells', Fills', Toks', r, Reach(r)')
    <2> SUFFICES ASSUME NEW p \in 1 .. Reach(r)
                 PROVE  Has(kv', cells', Fills', Toks', BlockAt(kv', r, p), OffsetAt(p),
                            SubSeq(Toks'[r], 1, p))
      BY <1>3 DEF ComputedHeld
    <2>1. PICK b, o, x : b = BlockAt(kv, r, p) /\ o = OffsetAt(p) /\ x = SubSeq(Toks[r], 1, p)
      OBVIOUS
    <2>2. Has(kv, cells, Fills, Toks, b, o, x)
      BY <1>3, <2>1 DEF Held, ComputedHeld
    <2>3. b = BlockAt(kv', r, p) /\ x = SubSeq(Toks'[r], 1, p)
      BY <1>3, <2>1 DEF BlockAt
    <2>4. Has(kv', cells, Fills', Toks', b, o, x)
      BY <1>1, <2>2, HasStays
    <2> QED BY <2>1, <2>3, <2>4
  <1> QED BY <1>2, <1>3 DEF Held

(* and when no batch begins to execute, tokens are still in time.          *)
LEMMA InTimeStays ==
    ASSUME InTime, pc' \in Executing => pc \in Executing, deferred' = deferred,
           \A r \in Req : status'[r] = "running" =>
               /\ status[r] = "running" /\ computed'[r] = computed[r]
               /\ NumTokens(r)' + Sampled(First, r)' = NumTokens(r) + Sampled(First, r)
    PROVE  InTime'
  BY DEF InTime

(* The tokens in flight depend on nothing else.                            *)
LEMMA SameFlight ==
    ASSUME NEW r, batch_queue' = batch_queue, (r \in First.sampled)' <=> r \in First.sampled
    PROVE  Flying(r)' = Flying(r) /\ Sampled(First, r)' = Sampled(First, r)
  BY DEF Flying, Sampled, oldest

(* A step of the thread that leaves the requests and the pool alone. *)
LEMMA QuietStepsHold ==
    ASSUME IInv, HeldInv,
           \/ BeginStep \/ BeginDrain \/ SkipRunning \/ PickRunning \/ EndRunning \/ EndWaiting
           \/ PopBatch \/ SkipUpdate \/ UpdateThrows \/ Rest \/ UNCHANGED vars
    PROVE  HeldInv'
  <1>1. /\ UNCHANGED <<kv, status, output, uses, computed, num_scheduled_tokens, cells,
                       deferred, batch_queue>>
        /\ pc' \in Executing <=> pc \in Executing
    BY DEF BeginStep, BeginDrain, SkipRunning, PickRunning, EndRunning, EndWaiting, PopBatch,
           SkipUpdate, UpdateThrows, Rest, vars, reqs, sched, batch, Executing, InRunningLoop
  <1>2. ASSUME NEW r \in Req, status[r] = "running"
        PROVE  (r \in First.sampled)' <=> r \in First.sampled
    <2>1. CASE todo' = todo /\ (pc' \in Updating <=> pc \in Updating)
      BY <1>1, <2>1 DEF First, oldest
    <2>2. CASE PopBatch
      <3>1. /\ pc = "pop" /\ pc' = "update" /\ batch_queue # << >> /\ todo' = oldest.reqs
        BY <2>2 DEF PopBatch
      <3>2. First.sampled = DOMAIN oldest.token
            /\ First'.sampled = DOMAIN oldest.token \cap oldest.reqs
        BY <1>1, <3>1 DEF First, oldest, Updating, BatchOf, Batch
      <3>3. DOMAIN oldest.token \subseteq oldest.reqs
        BY <3>1 DEF IInv, Frames, oldest
      <3> QED BY <3>2, <3>3
    <2>3. CASE SkipUpdate
      <3>1. /\ pc = "update" /\ pc' = "update" /\ todo' = todo \ {NextTodo}
            /\ \/ ~Unfinished(NextTodo)
               \/ NextTodo \in oldest.rows \ DOMAIN oldest.token
        BY <2>3 DEF SkipUpdate, sched
      <3>2. First.sampled = DOMAIN oldest.token \cap todo
            /\ First'.sampled = DOMAIN oldest.token \cap todo'
        BY <1>1, <3>1, UpdatingFacts DEF First, oldest, Updating, Batch
      <3>3. r = NextTodo => r \notin DOMAIN oldest.token
        BY <1>2, <3>1 DEF Unfinished
      <3> QED BY <3>1, <3>2, <3>3
    <2>4. PopBatch \/ SkipUpdate \/ (todo' = todo /\ (pc' \in Updating <=> pc \in Updating))
      BY DEF BeginStep, BeginDrain, SkipRunning, PickRunning, EndRunning, EndWaiting,
             UpdateThrows, Rest, vars, batch, Updating, InRunningLoop
    <2> QED BY <2>1, <2>2, <2>3, <2>4
  <1>3. ASSUME NEW r \in Req, status[r] = "running"
        PROVE  /\ Reach(r)' = Reach(r) /\ Toks'[r] = Toks[r] /\ NumTokens(r)' = NumTokens(r)
               /\ Sampled(First, r)' = Sampled(First, r)
    <2>1. Flying(r)' = Flying(r) /\ Sampled(First, r)' = Sampled(First, r)
      BY <1>1, <1>2, <1>3, SameFlight
    <2>2. all_token_ids(r)' = all_token_ids(r) /\ NumTokens(r)' = NumTokens(r)
      BY <1>1 DEF all_token_ids, NumTokens
    <2>3. Toks'[r] = Toks[r]
      BY <2>1, <2>2 DEF Toks
    <2> QED BY <1>1, <2>1, <2>2, <2>3 DEF Reach, Pending
  <1>4. InTime'
    BY <1>1, <1>3, InTimeStays DEF HeldInv
  <1>5. Held'
    <2>1. \A r \in Scheduled : status[r] = "running"
      BY ScheduledFacts
    <2> QED BY <1>1, <1>3, <2>1, HeldStays DEF HeldInv
  <1> QED BY <1>4, <1>5 DEF HeldInv

(* A request comes or leaves: nothing changes for the others. *)
LEMMA OthersHold ==
    ASSUME IInv, HeldInv, NEW v \in Req, v \notin Scheduled, status'[v] # "running",
           kv' = kv \/ kv' = free(kv, v), pc \notin Executing, pc' \notin Executing,
           UNCHANGED <<cells, deferred, batch_queue, num_scheduled_tokens>>,
           \A s \in Req : s # v =>
               /\ status'[s] = status[s] /\ computed'[s] = computed[s] /\ output'[s] = output[s]
               /\ (s \in First.sampled)' <=> s \in First.sampled
    PROVE  HeldInv'
  <1>1. /\ kv'.pool.block_hash = kv.pool.block_hash
        /\ \A s \in Req : s # v => kv'.req_to_blocks[s] = kv.req_to_blocks[s]
    BY FreeLeavesHashes
  <1>2. ASSUME NEW s \in Req, status'[s] = "running"
        PROVE  /\ s # v /\ status[s] = "running" /\ computed'[s] = computed[s]
               /\ Reach(s)' = Reach(s) /\ Toks'[s] = Toks[s] /\ NumTokens(s)' = NumTokens(s)
               /\ Sampled(First, s)' = Sampled(First, s)
    <2>1. s # v /\ status[s] = "running" /\ computed'[s] = computed[s]
      BY <1>2
    <2>2. Flying(s)' = Flying(s) /\ Sampled(First, s)' = Sampled(First, s)
      BY <2>1, SameFlight
    <2>3. all_token_ids(s)' = all_token_ids(s) /\ NumTokens(s)' = NumTokens(s)
      BY <2>1 DEF all_token_ids, NumTokens
    <2>4. Toks'[s] = Toks[s]
      BY <2>2, <2>3 DEF Toks
    <2> QED BY <2>1, <2>2, <2>3, <2>4 DEF Reach, Pending
  <1>3. InTime'
    BY <1>2, InTimeStays DEF HeldInv
  <1>4. Held'
    <2>1. \A s \in Scheduled : s \in Req /\ s # v /\ status[s] = "running"
      BY ScheduledFacts
    <2> QED BY <1>1, <1>2, <2>1, HeldStays DEF HeldInv
  <1> QED BY <1>3, <1>4 DEF HeldInv

(* Arrivals, aborts and ends, and under FCFS preemptions too: the last one *)
(* of the list, which goes, is not scheduled yet.                          *)
LEMMA LeavingHolds ==
    ASSUME IInv, HeldInv, ~PriorityPolicy,
           \/ \E r \in Req : AddRequest(r) \/ AbortRequest(r)
           \/ FreeStopped \/ PreemptRunning
    PROVE  HeldInv'
  <1>1. /\ status \in [Req -> {"unknown", "waiting", "running", "preempted", "finished"}]
        /\ computed \in [Req -> Nat] /\ output \in [Req -> Seq(Token)] /\ todo \subseteq Req
    BY DEF IInv, Types
  <1>2. pc \notin Scheduling \cup Executing => Scheduled = {}
    BY DEF IInv, Schedules
  <1>3. ASSUME NEW r \in Req, AddRequest(r) PROVE HeldInv'
    <2>1. /\ pc = "idle" /\ pc' = pc /\ kv' = kv /\ status'[r] # "running"
          /\ UNCHANGED <<cells, deferred, batch_queue, num_scheduled_tokens, todo>>
          /\ \A s \in Req : s # r =>
               status'[s] = status[s] /\ computed'[s] = computed[s] /\ output'[s] = output[s]
      BY <1>1, <1>3 DEF AddRequest, sched, batch
    <2>2. First' = First
      BY <2>1 DEF First, oldest
    <2>3. r \notin Scheduled /\ pc \notin Executing /\ pc' \notin Executing
      BY <1>2, <2>1 DEF Scheduling, Executing
    <2> QED BY <2>1, <2>2, <2>3, OthersHold
  <1>4. ASSUME NEW r \in Req, AbortRequest(r) PROVE HeldInv'
    <2>1. /\ pc = "idle" /\ pc' = pc /\ kv' = free(kv, r) /\ status'[r] # "running"
          /\ UNCHANGED <<cells, deferred, batch_queue, num_scheduled_tokens, todo>>
          /\ \A s \in Req : s # r =>
               status'[s] = status[s] /\ computed'[s] = computed[s] /\ output'[s] = output[s]
      BY <1>1, <1>4 DEF AbortRequest, sched, batch
    <2>2. First' = First
      BY <2>1 DEF First, oldest
    <2>3. r \notin Scheduled /\ pc \notin Executing /\ pc' \notin Executing
      BY <1>2, <2>1 DEF Scheduling, Executing
    <2> QED BY <2>1, <2>2, <2>3, OthersHold
  <1>5. CASE FreeStopped
    <2>0. PICK r : r = NextTodo
      OBVIOUS
    <2>1. /\ pc = "stopped" /\ pc' = "update" /\ kv' = free(kv, r) /\ todo' = todo \ {r}
          /\ UNCHANGED <<cells, deferred, batch_queue, num_scheduled_tokens, status, computed,
                         output>>
      BY <1>5, <2>0 DEF FreeStopped, sched, batch, reqs
    <2>2. r \in Req /\ status[r] = "finished"
      <3>1. todo # {} /\ status[NextTodo] = "finished"
        BY <2>1 DEF IInv, Frames
      <3> QED BY <1>1, <2>0, <3>1, NextTodoFacts
    <2>3. \A s \in Req : s # r => ((s \in First.sampled)' <=> s \in First.sampled)
      <3>1. /\ First.sampled = DOMAIN oldest.token \cap todo
            /\ First'.sampled = DOMAIN oldest.token \cap todo'
        BY <2>1, UpdatingFacts DEF First, oldest, Updating, Batch
      <3> QED BY <2>1, <3>1
    <2>4. r \notin Scheduled /\ pc \notin Executing /\ pc' \notin Executing
      BY <1>2, <2>1 DEF Scheduling, Executing
    <2>5. status'[r] # "running"
      BY <2>1, <2>2
    <2> QED BY <2>1, <2>2, <2>3, <2>4, <2>5, OthersHold
  <1>6. CASE PreemptRunning
    <2>0. PICK v : v = Victim
      OBVIOUS
    <2>1. v \in Req /\ v = running[Len(running)] /\ Len(running) \in Nat \ {0}
      BY <1>6, <2>0, LastIsPreempted
    <2>2. /\ pc = "fit" /\ pc' \in {"fit", "assemble"} /\ kv' = free(kv, v)
          /\ status' = [status EXCEPT ![v] = "preempted"]
          /\ computed' = [computed EXCEPT ![v] = 0]
          /\ UNCHANGED <<cells, deferred, batch_queue, num_scheduled_tokens, todo, output>>
      BY <1>6, <2>0 DEF PreemptRunning, UndoScheduled, batch
    <2>3. First' = First
      BY <2>2 DEF First, oldest, Updating
    <2>4. v \notin Scheduled
      <3>1. req_index \in DOMAIN running
        BY <2>2 DEF IInv, Fitting
      <3>2. DOMAIN running = 1 .. Len(running)
        BY DEF IInv, Types
      <3>3. Len(running) \in DOMAIN running /\ Len(running) >= req_index
        BY <2>1, <3>1, <3>2
      <3>4. num_scheduled_tokens[v] = 0
        BY <2>1, <2>2, <3>3 DEF IInv, Schedules
      <3> QED BY <3>4 DEF Scheduled
    <2>5. /\ status'[v] # "running" /\ pc \notin Executing /\ pc' \notin Executing
          /\ \A s \in Req : s # v =>
               status'[s] = status[s] /\ computed'[s] = computed[s] /\ output'[s] = output[s]
      BY <1>1, <2>1, <2>2 DEF Executing
    <2> QED BY <2>1, <2>2, <2>3, <2>4, <2>5, OthersHold
  <1> QED BY <1>3, <1>4, <1>5, <1>6

(* What is in flight grows at its end. *)
LEMMA FlightGrows ==
    ASSUME IInv, NEW r \in Req, NEW v \in Seq(Token), output' = output,
           Flying(r)' = Flying(r) \o v, NEW p \in Nat, p <= Len(Toks[r])
    PROVE  SubSeq(Toks'[r], 1, p) = SubSeq(Toks[r], 1, p)
  <1> DEFINE a == all_token_ids(r)
             u == Flying(r)
             w == a \o u
             x == w \o v
  <1>1. a \in Seq(Token) /\ u \in Seq(Token)
    BY TokenFacts, ToksFacts DEF IInv, Types
  <1>2. Toks[r] = w /\ Toks'[r] = x
    <2>1. all_token_ids(r)' = a
      BY DEF all_token_ids
    <2> HIDE DEF a, u
    <2>2. Toks'[r] = a \o (u \o v) /\ Toks[r] = a \o u
      BY <2>1 DEF Toks, a, u
    <2>3. a \o (u \o v) = (a \o u) \o v
      <3>1. \A x1, x2, x3 \in Seq(Token) : (x1 \o x2) \o x3 = x1 \o (x2 \o x3)
        BY ConcatAssociative
      <3>2. a \in Seq(Token) /\ u \in Seq(Token) /\ v \in Seq(Token)
        BY <1>1 DEF a, u
      <3> QED BY <3>1, <3>2
    <2> QED BY <2>2, <2>3
  <1>3. w \in Seq(Token)
    <2> HIDE DEF a, u
    <2> QED BY <1>1
  <1> HIDE DEF w
  <1>4. x \in Seq(Token) /\ Len(x) = Len(w) + Len(v) /\ \A i \in 1 .. Len(w) : x[i] = w[i]
    BY <1>3
  <1> HIDE DEF x
  <1>5. Begins(w, x)
    <2>1. Len(w) \in Nat /\ Len(v) \in Nat
      BY <1>3
    <2> QED BY <1>4, <2>1 DEF Begins
  <1>6. CASE p = 0
    BY <1>2, <1>3, <1>4, <1>6
  <1>7. CASE p # 0
    <2>1. p \in 1 .. Len(w)
      BY <1>2, <1>7
    <2> QED BY <1>2, <1>3, <1>4, <1>5, <2>1, SamePrefix
  <1> QED BY <1>6, <1>7

(* The step is scheduled: it samples for nobody whose tokens it does not   *)
(* compute, for the placeholders are the tokens in flight.                 *)
LEMMA ScheduledHold ==
    ASSUME IInv, HeldInv, NoneDropped, FinishSchedule
    PROVE  HeldInv'
  <1>1. /\ pc = "assemble" /\ pc' \in Executing
        /\ computed' = [r \in Req |-> computed[r] + num_scheduled_tokens[r]]
        /\ UNCHANGED <<kv, status, output, num_scheduled_tokens, cells, deferred, batch_queue,
                       todo>>
    BY DEF FinishSchedule, sched, batch, Executing
  <1>2. First' = First
    BY <1>1 DEF First, oldest, Updating, Executing
  <1>3. ASSUME NEW r \in Req
        PROVE  /\ Reach(r)' = Reach(r) /\ Toks'[r] = Toks[r] /\ computed'[r] = Reach(r)
               /\ NumTokens(r)' = NumTokens(r) /\ Sampled(First, r)' = Sampled(First, r)
    <2>1. Reach(r)' = Reach(r) /\ computed'[r] = Reach(r)
      <3>1. computed[r] \in Nat /\ num_scheduled_tokens[r] \in Nat
        BY FillsFacts
      <3>2. computed'[r] = computed[r] + num_scheduled_tokens[r]
        BY <1>1
      <3> QED BY <1>1, <3>1, <3>2 DEF Reach, Pending, Executing
    <2>2. Flying(r)' = Flying(r) /\ Sampled(First, r)' = Sampled(First, r)
      BY <1>1, <1>2, SameFlight
    <2>3. all_token_ids(r)' = all_token_ids(r) /\ NumTokens(r)' = NumTokens(r)
      BY <1>1 DEF all_token_ids, NumTokens
    <2> QED BY <2>1, <2>2, <2>3 DEF Toks
  <1>4. Held'
    <2>1. \A r \in Scheduled : status[r] = "running"
      BY ScheduledFacts
    <2> QED BY <1>1, <1>3, <2>1, HeldStays DEF HeldInv
  <1>5. ASSUME NEW r \in Req, status[r] = "running"
        PROVE  Reach(r) <= NumTokens(r) + Sampled(First, r)
    <2>1. Reach(r) <= NumTokens(r) + placeholders[r]
      BY <1>5 DEF IInv, Tabled
    <2>2. placeholders[r] <= Sampled(First, r)
      <3>1. CASE ~Async
        <4>1. placeholders[r] = 0
          BY <3>1 DEF IInv, Placeholders
        <4> QED BY <4>1 DEF Sampled
      <3>2. CASE Async
        <4>1. placeholders[r] <= Claims(First, r) + Claims(Second, r)
          BY <1>5, <3>2 DEF IInv, Placeholders, Unfinished
        <4>2. /\ Second = NoBatch
              /\ (batch_queue = << >> => First = NoBatch)
              /\ (batch_queue # << >> => First = BatchOf(oldest) /\ Len(batch_queue) = 1)
          <5>1. pc \notin Executing
            BY <1>1 DEF Executing
          <5> QED BY <1>1, <5>1, OneInFlight DEF Second
        <4>3. Claims(Second, r) = 0
          BY <4>2, NoBatchFacts
        <4>4. Claims(First, r) = Sampled(First, r)
          <5>1. CASE batch_queue = << >>
            BY <4>2, <5>1, NoBatchFacts
          <5>2. CASE batch_queue # << >>
            <6>1. 1 \in DOMAIN batch_queue /\ First = BatchOf(batch_queue[1])
              BY <4>2, <5>2 DEF oldest, IInv, Frames
            <6>2. First.rows = First.reqs
              BY <6>1 DEF NoneDropped, BatchOf, Batch
            <6>3. First.sampled \subseteq First.reqs
              BY BatchFacts DEF IInv
            <6> QED BY <6>2, <6>3 DEF Claims, Sampled
          <5> QED BY <5>1, <5>2
        <4>5. Sampled(First, r) \in Nat
          BY DEF Sampled
        <4> QED BY <4>1, <4>3, <4>4, <4>5
      <3> QED BY <3>1, <3>2
    <2>3. /\ Reach(r) \in Nat /\ placeholders[r] \in Nat /\ Sampled(First, r) \in Nat
          /\ NumTokens(r) \in Nat
      BY FillsFacts, TokenFacts DEF IInv, Types, Sampled
    <2> QED BY <2>1, <2>2, <2>3
  <1>6. InTime'
    BY <1>1, <1>3, <1>5 DEF InTime
  <1> QED BY <1>4, <1>6 DEF HeldInv

LEMMA OneAppended ==
    ASSUME NEW E, NEW q \in Seq(E), NEW x \in E, Len(q) = 1
    PROVE  Len(Append(q, x)) = 2 /\ Append(q, x)[1] = q[1] /\ Append(q, x)[2] = x
  <1> DEFINE a == Append(q, x)
  <1>1. Len(a) = Len(q) + 1 /\ a[Len(q) + 1] = x /\ \A i \in 1 .. Len(q) : a[i] = q[i]
    OBVIOUS
  <1> HIDE DEF a
  <1> QED BY <1>1 DEF a

(* The forward pass fills what the step was to fill, row by row. *)
LEMMA ForwardFills ==
    ASSUME IInv, pc \in Executing, Rows = Scheduled, Forward,
           NEW b \in Blocks, NEW o \in 1 .. BlockSize
    PROVE  \/ FilledWith(kv, Fills, Toks, b, o, cells'[b][o])
           \/ cells'[b][o] = cells[b][o] /\ \A x : ~FilledWith(kv, Fills, Toks, b, o, x)
  <1>1. pc \notin Updating
    BY DEF Executing, Updating
  <1>2. ASSUME NEW r, NEW p
        PROVE  <<r, p>> \in Written(b, o) <=>
                 <<r, p>> \in Fills /\ BlockAt(kv, r, p) = b /\ OffsetAt(p) = o
    <2>1. \A s \in Req : /\ Reach(s) = computed[s] /\ computed[s] \in Nat
                         /\ num_scheduled_tokens[s] \in Nat
      BY FillsFacts DEF Reach, Pending
    <2>2. \A s \in Scheduled : s \in Req /\ computed[s] < MaxModelLen
      BY <2>1, ScheduledFacts DEF IInv, Tabled
    <2>3. BlockOf(r, p) = BlockAt(kv, r, p) /\ OffsetOf(p) = OffsetAt(p)
      BY DEF BlockOf, BlockAt, OffsetOf, OffsetAt
    <2>4. ASSUME <<r, p>> \in Rows \X (1 .. MaxModelLen), p \in NewPositions(r)
          PROVE  <<r, p>> \in Fills
      <3>1. /\ r \in Req /\ p \in Nat \ {0}
            /\ p \in computed[r] - num_scheduled_tokens[r] + 1 .. computed[r]
        BY <2>2, <2>4, ConstantFacts DEF NewPositions
      <3>2. Reach(r) - num_scheduled_tokens[r] < p /\ p <= Reach(r)
        BY <2>1, <3>1
      <3> QED BY <3>1, <3>2 DEF Fills
    <2>5. ASSUME <<r, p>> \in Fills
          PROVE  <<r, p>> \in Rows \X (1 .. MaxModelLen) /\ p \in NewPositions(r)
      <3>1. /\ r \in Scheduled /\ p \in Nat \ {0}
            /\ Reach(r) - num_scheduled_tokens[r] < p /\ p <= Reach(r)
        BY <2>5, FillsFacts
      <3>2. r \in Req /\ computed[r] < MaxModelLen /\ MaxModelLen \in Nat
        BY <2>2, <3>1, ConstantFacts
      <3>3. p \in 1 .. MaxModelLen
        BY <2>1, <3>1, <3>2
      <3>4. p \in computed[r] - num_scheduled_tokens[r] + 1 .. computed[r]
        BY <2>1, <3>1, <3>2
      <3> QED BY <3>1, <3>3, <3>4 DEF NewPositions
    <2> QED BY <2>3, <2>4, <2>5 DEF Written
  <1>3. \A rp \in Written(b, o) : rp = <<rp[1], rp[2]>>
    BY DEF Written
  <1>4. CASE Written(b, o) = {}
    <2>1. cells'[b][o] = cells[b][o]
      BY <1>4 DEF Forward
    <2>2. ASSUME NEW e \in Fills, BlockAt(kv, e[1], e[2]) = b, OffsetAt(e[2]) = o PROVE FALSE
      <3>1. e = <<e[1], e[2]>>
        BY DEF Fills
      <3>2. <<e[1], e[2]>> \in Fills
        BY <3>1
      <3>3. <<e[1], e[2]>> \in Written(b, o)
        BY <1>2, <2>2, <3>2
      <3> QED BY <1>4, <3>3
    <2> QED BY <2>1, <2>2 DEF FilledWith
  <1>5. CASE Written(b, o) # {}
    <2>1. PICK w \in Written(b, o) : cells'[b][o] = SubSeq(device_toks(w[1]), 1, w[2])
      <3> DEFINE c == CHOOSE w \in Written(b, o) : TRUE
      <3>1. c \in Written(b, o)
        BY <1>5
      <3>2. cells'[b][o] = SubSeq(device_toks(c[1]), 1, c[2])
        BY <1>5 DEF Forward
      <3> HIDE DEF c
      <3> QED BY <3>1, <3>2
    <2>2. PICK r, p : w = <<r, p>> /\ r = w[1] /\ p = w[2]
      BY <1>3
    <2>3. <<r, p>> \in Fills /\ BlockAt(kv, r, p) = b /\ OffsetAt(p) = o
      BY <1>2, <2>1, <2>2
    <2>4. device_toks(r) = Toks[r]
      <3>1. r \in Req
        BY <2>3 DEF Fills
      <3> QED BY <1>1, <3>1, RunnerHolds
    <2>5. cells'[b][o] = SubSeq(Toks[r], 1, p)
      BY <2>1, <2>2, <2>4
    <2> QED BY <2>2, <2>3, <2>5 DEF FilledWith
  <1> QED BY <1>4, <1>5

(* Once the batch is executed its tokens are in flight, behind all that is *)
(* computed, and the cells hold what they were about to hold.              *)
LEMMA ExecutedHold ==
    ASSUME IInv, HeldInv, Rows = Scheduled, ExecuteAndSample \/ ExecuteOnly
    PROVE  HeldInv'
  <1>1. /\ pc \in Executing /\ pc' \in {"idle", "pop"} /\ Forward
        /\ num_scheduled_tokens' = [r \in Req |-> 0]
        /\ UNCHANGED <<kv, status, output, computed>>
    BY DEF ExecuteAndSample, ExecuteOnly, EndSchedule, reqs, Executing
  <1>2. /\ Len(batch_queue) \in 0 .. 1 /\ deferred = NoBatch /\ batch_queue \in Seq(FrameType)
        /\ (batch_queue = << >> => First = NoBatch)
        /\ (batch_queue # << >> => First = BatchOf(oldest) /\ Len(batch_queue) = 1)
        /\ Len(batch_queue) # 2
    <2>1. /\ Len(batch_queue) \in 0 .. 1 /\ deferred = NoBatch
          /\ (batch_queue = << >> => First = NoBatch)
          /\ (batch_queue # << >> => First = BatchOf(oldest) /\ Len(batch_queue) = 1)
      BY <1>1, OneInFlight
    <2>2. batch_queue \in Seq(FrameType)
      BY DEF IInv, Frames
    <2>3. Len(batch_queue) # 2
      BY <2>1
    <2> QED BY <2>1, <2>2, <2>3
  <1>3. /\ CachedHeld(kv, cells', {}, Toks)
        /\ \A r \in Req : status[r] = "running" => ComputedHeld(kv, cells', {}, Toks, r, Reach(r))
    <2>1. Consistent(kv, Known) /\ InSlots(kv, Fills)
      BY FillsFacts DEF IInv, Tabled
    <2>2. \A b \in Blocks : \A o \in 1 .. BlockSize :
            \/ FilledWith(kv, Fills, Toks, b, o, cells'[b][o])
            \/ cells'[b][o] = cells[b][o] /\ \A x : ~FilledWith(kv, Fills, Toks, b, o, x)
      BY <1>1, ForwardFills
    <2>3. Req # {} => Longer(Known, Toks)
      BY ToksFacts
    <2>4. Longer(Known, Toks)
      BY <2>3 DEF Longer, Toks
    <2>5. \A r \in Req : Reach(r) \in Nat
                         /\ (status[r] = "running" =>
                               Reach(r) <= Len(kv.req_to_blocks[r]) * BlockSize)
      BY FillsFacts DEF IInv, Tabled
    <2>6. PICK c1 : c1 = cells'
      OBVIOUS
    <2>7. /\ CachedHeld(kv, cells, Fills, Toks) => CachedHeld(kv, c1, {}, Toks)
          /\ \A r \in Req : \A n \in Nat :
               /\ n <= Len(kv.req_to_blocks[r]) * BlockSize
               /\ ComputedHeld(kv, cells, Fills, Toks, r, n)
               => ComputedHeld(kv, c1, {}, Toks, r, n)
      BY <2>1, <2>2, <2>4, <2>6, FillingHolds
    <2> QED BY <2>5, <2>6, <2>7 DEF HeldInv, Held
  <1>4. ASSUME NEW r \in Req PROVE \E v \in Seq(Token) : Flying(r)' = Flying(r) \o v
    <2>0. Flying(r) \in Seq(Token)
      BY ToksFacts
    <2>1. CASE ExecuteOnly
      <3>1. batch_queue' = batch_queue /\ pc' \notin Updating /\ pc \notin Updating
        BY <1>1, <2>1 DEF ExecuteOnly, Updating, Executing
      <3>2. First' = First
        BY <3>1 DEF First, oldest
      <3>3. Flying(r)' = Flying(r)
        BY <3>1, <3>2, SameFlight
      <3>4. << >> \in Seq(Token) /\ Flying(r) \o << >> = Flying(r)
        BY <2>0, ConcatEmptySeq
      <3> QED BY <3>3, <3>4
    <2>2. CASE ExecuteAndSample
      <3>1. PICK token \in [SampledRows -> Token] :
                batch_queue' = Append(batch_queue, Frame(Scheduled, Rows, token))
        BY <2>2 DEF ExecuteAndSample
      <3> DEFINE f == Frame(Scheduled, Rows, token)
                 v == IF r \in DOMAIN f.token THEN <<f.token[r]>> ELSE << >>
      <3>2. v \in Seq(Token)
        BY DEF Frame
      <3>5. f \in FrameType
        <4>1. /\ Scheduled \in SUBSET Req /\ Rows \in SUBSET Scheduled
              /\ SampledRows \in SUBSET Rows /\ uses \in [Req -> 0 .. 2]
              /\ \A s \in Scheduled : uses[s] > 0
          BY ScheduledFacts DEF IInv, Types
        <4>2. IsFrame(f, Scheduled, Rows, token, SampledRows)
          BY <4>1, FrameFacts
        <4> QED BY <4>2 DEF IsFrame
      <3> HIDE DEF f
      <3>3. CASE batch_queue = << >>
        <4>1. /\ Len(batch_queue') # 2 /\ batch_queue' # << >> /\ batch_queue'[1] = f
          BY <3>1, <3>3 DEF f
        <4>2. (r \in First.sampled)' <=> r \in DOMAIN f.token
          BY <1>1, <4>1 DEF First, oldest, BatchOf, Batch, Updating
        <4>3. Flying(r)' = v \o << >>
          BY <4>1, <4>2, Zenon DEF Flying, oldest
        <4>4. Flying(r) = << >> \o << >>
          <5>1. r \notin First.sampled /\ Len(batch_queue) # 2
            BY <1>2, <3>3, NoBatchFacts
          <5> QED BY <5>1 DEF Flying
        <4>5. << >> \in Seq(Token)
          OBVIOUS
        <4> HIDE DEF v
        <4>6. Flying(r)' = v /\ Flying(r) = << >> /\ << >> \o v = v
          BY <3>2, <4>3, <4>4, <4>5, ConcatEmptySeq
        <4> QED BY <3>2, <4>6
      <3>4. CASE batch_queue # << >>
        <4>1. /\ Len(batch_queue) = 1 /\ Len(batch_queue') = 2 /\ batch_queue' # << >>
              /\ batch_queue'[1] = batch_queue[1] /\ batch_queue'[2] = f
          <5>1. Len(batch_queue) = 1 /\ batch_queue' = Append(batch_queue, f)
            BY <1>2, <3>1, <3>4 DEF f
          <5>2. /\ Len(batch_queue') = 2 /\ batch_queue'[1] = batch_queue[1]
                /\ batch_queue'[2] = f
            BY <1>2, <3>5, <5>1, OneAppended
          <5>3. Len(<< >>) # 2
            OBVIOUS
          <5> QED BY <5>1, <5>2, <5>3
        <4>2. (r \in First.sampled)' <=> r \in First.sampled
          BY <1>1, <1>2, <3>4, <4>1 DEF First, oldest, BatchOf, Batch, Updating
        <4> DEFINE one == IF r \in First.sampled THEN <<oldest.token[r]>> ELSE << >>
        <4>3. Flying(r)' = one \o v
          BY <4>1, <4>2, Zenon DEF Flying, oldest
        <4>4. Flying(r) = one \o << >>
          BY <4>1 DEF Flying
        <4>5. one \in Seq(Token)
          <5>1. ASSUME r \in First.sampled PROVE oldest.token[r] \in Token
            <6>1. 1 \in DOMAIN batch_queue /\ r \in DOMAIN batch_queue[1].token
              BY <1>2, <3>4, <5>1 DEF BatchOf, Batch, oldest
            <6> QED BY <6>1, QueuedTokens DEF oldest
          <5> QED BY <5>1
        <4> HIDE DEF one, v
        <4>6. Flying(r) = one
          BY <4>4, <4>5, ConcatEmptySeq
        <4> QED BY <3>2, <4>3, <4>6
      <3> QED BY <3>3, <3>4
    <2> QED BY <2>1, <2>2
  <1>5. ASSUME NEW r \in Req, status[r] = "running", NEW p \in 1 .. Reach(r)
        PROVE  SubSeq(Toks'[r], 1, p) = SubSeq(Toks[r], 1, p)
    <2>1. PICK v \in Seq(Token) : Flying(r)' = Flying(r) \o v
      BY <1>4
    <2>2. Reach(r) = computed[r] /\ computed[r] \in Nat
      BY <1>1, FillsFacts DEF Reach, Pending
    <2>3. computed[r] <= NumTokens(r) + Sampled(First, r)
      BY <1>1, <1>5 DEF HeldInv, InTime
    <2>4. Len(Toks[r]) = NumTokens(r) + Sampled(First, r)
      <3>1. Len(Toks[r]) = NumTokens(r) + Sampled(First, r)
              + IF Len(batch_queue) = 2 /\ r \in DOMAIN batch_queue[2].token THEN 1 ELSE 0
        BY ToksFacts
      <3>2. NumTokens(r) \in Nat /\ Sampled(First, r) \in Nat
        BY TokenFacts DEF IInv, Types, Sampled
      <3> QED BY <1>2, <3>1, <3>2
    <2>5. p \in Nat /\ p <= Len(Toks[r])
      <3>1. NumTokens(r) \in Nat /\ Sampled(First, r) \in Nat
        BY TokenFacts DEF IInv, Types, Sampled
      <3> QED BY <2>2, <2>3, <2>4, <3>1
    <2>6. output' = output
      BY <1>1
    <2> QED BY <2>1, <2>5, <2>6, FlightGrows
  <1>6. Fills' = {} /\ \A r \in Req : Reach(r)' = Reach(r)
    <2>1. \A r \in Req : /\ num_scheduled_tokens'[r] = 0 /\ computed[r] \in Nat
                         /\ Reach(r)' = computed[r] /\ Reach(r) = computed[r]
      BY <1>1, FillsFacts DEF Reach, Pending
    <2>2. ASSUME NEW e \in Fills' PROVE FALSE
      <3>1. /\ e[1] \in Req /\ e[2] \in Nat
            /\ (Reach(e[1])') - num_scheduled_tokens'[e[1]] < e[2] /\ e[2] <= Reach(e[1])'
        BY <2>2 DEF Fills
      <3> QED BY <2>1, <3>1
    <2> QED BY <2>1, <2>2
  <1>7. CachedHeld(kv', cells', Fills', Toks')
    BY <1>1, <1>3, <1>6 DEF CachedHeld, Has, FilledWith
  <1>8. ASSUME NEW r \in Req, status'[r] = "running"
        PROVE  ComputedHeld(kv', cells', Fills', Toks', r, Reach(r)')
    <2>1. ComputedHeld(kv, cells', {}, Toks, r, Reach(r)) /\ status[r] = "running"
      BY <1>1, <1>3, <1>8
    <2> SUFFICES ASSUME NEW p \in 1 .. Reach(r)
                 PROVE  cells'[BlockAt(kv, r, p)][OffsetAt(p)] = SubSeq(Toks'[r], 1, p)
      BY <1>1, <1>6 DEF ComputedHeld, Has
    <2>2. cells'[BlockAt(kv, r, p)][OffsetAt(p)] = SubSeq(Toks[r], 1, p)
      BY <2>1 DEF ComputedHeld, Has, FilledWith
    <2> QED BY <1>5, <2>1, <2>2
  <1>9. InTime'
    <2>1. CASE ExecuteAndSample
      <3>1. pc' \notin Executing /\ deferred' = NoBatch
        BY <1>1, <1>2, <2>1 DEF ExecuteAndSample, Executing
      <3> QED BY <3>1 DEF InTime
    <2>2. CASE ExecuteOnly
      <3>1. batch_queue' = batch_queue /\ pc' \notin Updating /\ pc \notin Updating
        BY <1>1, <2>2 DEF ExecuteOnly, Updating, Executing
      <3>2. First' = First
        BY <3>1 DEF First, oldest
      <3>3. \A r \in Req : NumTokens(r)' = NumTokens(r) /\ Sampled(First, r)' = Sampled(First, r)
        BY <1>1, <3>2 DEF NumTokens, Sampled
      <3> QED BY <1>1, <3>3 DEF HeldInv, InTime
    <2> QED BY <2>1, <2>2
  <1> QED BY <1>7, <1>8, <1>9 DEF HeldInv, Held

(* The oldest batch is consumed, and one whose sampling waited is sampled: *)
(* its tokens are in flight behind all that is computed.                   *)
LEMMA ConsumedHold ==
    ASSUME IInv, HeldInv, FinishUpdate
    PROVE  HeldInv'
  <1>1. /\ pc = "update" /\ pc' = "idle" /\ todo = {} /\ deferred' = NoBatch
        /\ UNCHANGED <<kv, status, output, computed, num_scheduled_tokens, cells>>
    BY DEF FinishUpdate, reqs, sched
  <1>2. /\ batch_queue \in Seq(FrameType) /\ batch_queue # << >> /\ First.sampled = {}
        /\ Len(batch_queue) \in 1 .. 2
    <2>1. batch_queue \in Seq(FrameType) /\ batch_queue # << >> /\ First.sampled = {}
      BY <1>1, UpdatingFacts DEF Updating, Batch
    <2>2. Len(batch_queue) \in 0 .. 2 /\ (batch_queue = << >> <=> Len(batch_queue) = 0)
      BY QueueLengths DEF IInv
    <2> QED BY <2>1, <2>2
  <1> DEFINE t == Tail(batch_queue)
  <1>3. /\ Len(batch_queue) = 1 => t = << >>
        /\ Len(batch_queue) = 2 => Len(t) = 1 /\ t # << >> /\ t[1] = batch_queue[2]
    <2>1. t \in Seq(FrameType) /\ Len(t) = Len(batch_queue) - 1
          /\ \A i \in 1 .. Len(batch_queue) - 1 : t[i] = batch_queue[i + 1]
      BY <1>2
    <2> HIDE DEF t
    <2> QED BY <2>1
  <1> HIDE DEF t
  <1>4. \A r \in Req : Reach(r) = computed[r] /\ Reach(r)' = Reach(r) /\ computed[r] \in Nat
    <2>1. \A r \in Req : num_scheduled_tokens[r] = 0
      BY <1>1 DEF IInv, Schedules, Scheduled, Scheduling, Executing
    <2> QED BY <1>1, <2>1, FillsFacts DEF Reach, Pending
  <1>5. ASSUME NEW r \in Req, status[r] = "running", NEW p \in 1 .. Reach(r)
        PROVE  SubSeq(Toks'[r], 1, p) = SubSeq(Toks[r], 1, p)
    <2>0. << >> \in Seq(Token) /\ Flying(r) \in Seq(Token)
      BY ToksFacts
    <2> DEFINE two == IF Len(batch_queue) = 2 /\ r \in DOMAIN batch_queue[2].token
                      THEN <<batch_queue[2].token[r]>> ELSE << >>
    <2>1. Flying(r) = << >> \o two
      BY <1>2 DEF Flying
    <2>2. two \in Seq(Token)
      <3>1. ASSUME Len(batch_queue) = 2, r \in DOMAIN batch_queue[2].token
            PROVE  batch_queue[2].token[r] \in Token
        <4>1. 2 \in DOMAIN batch_queue
          BY <1>2, <3>1
        <4> QED BY <3>1, <4>1, QueuedTokens
      <3> QED BY <3>1
    <2>3. CASE deferred = NoBatch
      <3>1. batch_queue' = t
        BY <2>3 DEF FinishUpdate, t
      <3>2. Flying(r)' = two \o << >>
        <4>1. CASE Len(batch_queue) = 1
          <5>1. batch_queue' = << >> /\ Len(batch_queue') # 2 /\ Len(batch_queue) # 2
            BY <1>3, <3>1, <4>1
          <5>2. First'.sampled = {}
            BY <5>1, NoBatchFacts DEF First
          <5> QED BY <5>1, <5>2 DEF Flying
        <4>2. CASE Len(batch_queue) = 2
          <5>1. batch_queue' # << >> /\ Len(batch_queue') # 2 /\ batch_queue'[1] = batch_queue[2]
            BY <1>3, <3>1, <4>2
          <5>2. (r \in First.sampled)' <=> r \in DOMAIN batch_queue[2].token
            BY <1>1, <5>1 DEF First, oldest, BatchOf, Batch, Updating
          <5> QED BY <4>2, <5>1, <5>2, Zenon DEF Flying, oldest
        <4> QED BY <1>2, <4>1, <4>2
      <3> HIDE DEF two
      <3>3. Flying(r)' = Flying(r)
        BY <2>0, <2>1, <2>2, <3>2, ConcatEmptySeq
      <3>4. all_token_ids(r)' = all_token_ids(r)
        BY <1>1 DEF all_token_ids
      <3> QED BY <3>3, <3>4 DEF Toks
    <2>4. CASE deferred # NoBatch
      <3>1. Len(batch_queue) = 1 /\ Len(batch_queue) # 2 /\ t = << >>
        BY <1>3, <2>4 DEF IInv, Frames
      <3>2. PICK token \in [deferred.sampled -> Token] :
                batch_queue' = Append(t, Frame(deferred.reqs, deferred.rows, token))
        BY <2>4 DEF FinishUpdate, t
      <3> DEFINE f == Frame(deferred.reqs, deferred.rows, token)
                 v == IF r \in DOMAIN f.token THEN <<f.token[r]>> ELSE << >>
      <3>3. v \in Seq(Token)
        BY DEF Frame
      <3> HIDE DEF f
      <3>4. Len(batch_queue') # 2 /\ batch_queue' # << >> /\ batch_queue'[1] = f
        BY <3>1, <3>2 DEF f
      <3>5. (r \in First.sampled)' <=> r \in DOMAIN f.token
        BY <1>1, <3>4 DEF First, oldest, BatchOf, Batch, Updating
      <3>6. Flying(r)' = v \o << >>
        BY <3>4, <3>5, Zenon DEF Flying, oldest
      <3> HIDE DEF v
      <3>7. Flying(r) = << >>
        BY <2>0, <2>1, <3>1, ConcatEmptySeq
      <3>8. Flying(r)' = Flying(r) \o v
        BY <2>0, <3>3, <3>6, <3>7, ConcatEmptySeq
      <3>9. p \in Nat /\ p <= Len(Toks[r])
        <4>1. computed[r] <= NumTokens(r) + Sampled(First, r)
          BY <1>5, <2>4 DEF HeldInv, InTime
        <4>2. Len(Toks[r]) = NumTokens(r) + Sampled(First, r)
                + IF Len(batch_queue) = 2 /\ r \in DOMAIN batch_queue[2].token THEN 1 ELSE 0
          BY ToksFacts
        <4>3. NumTokens(r) \in Nat /\ Sampled(First, r) \in Nat
          BY TokenFacts DEF IInv, Types, Sampled
        <4> QED BY <1>4, <3>1, <4>1, <4>2, <4>3
      <3>10. output' = output
        BY <1>1
      <3> QED BY <3>3, <3>8, <3>9, <3>10, FlightGrows
    <2> QED BY <2>3, <2>4
  <1>6. Held'
    <2>1. \A r \in Scheduled : status[r] = "running"
      BY ScheduledFacts
    <2> QED BY <1>1, <1>4, <1>5, <2>1, HeldStays DEF HeldInv
  <1>7. InTime'
    BY <1>1 DEF InTime, Executing
  <1> QED BY <1>6, <1>7 DEF HeldInv

(* A place that is about to be filled has what it is filled with. *)
LEMMA FillsNext ==
    ASSUME NEW k, NEW c, NEW F, NEW T, NEW r, NEW p, <<r, p>> \in F
    PROVE  Has(k, c, F, T, BlockAt(k, r, p), OffsetAt(p), SubSeq(T[r], 1, p))
  <1> DEFINE e == <<r, p>>
  <1>1. e \in F /\ e[1] = r /\ e[2] = p
    OBVIOUS
  <1> HIDE DEF e
  <1> QED BY <1>1 DEF Has, FilledWith

(* An allocation, or caching, moves no position, *)
LEMMA PlacesStay ==
    ASSUME NEW k, NEW k1, NEW r, NEW n, Grows(k, k1, r, n), NEW s \in Req,
           k.req_to_blocks[s] \in Seq(Blocks), NEW p \in Nat \ {0},
           p <= Len(k.req_to_blocks[s]) * BlockSize
    PROVE  BlockAt(k1, s, p) = BlockAt(k, s, p)
  <1> DEFINE i == ((p - 1) \div BlockSize) + 1
  <1>1. i \in DOMAIN k.req_to_blocks[s]
    BY InBlocks
  <1> HIDE DEF i
  <1>2. k1.req_to_blocks[s][i] = k.req_to_blocks[s][i]
    BY <1>1 DEF Grows
  <1> QED BY <1>2 DEF BlockAt, i

(* so that what was held stays held, *)
LEMMA GrowStays ==
    ASSUME IInv, Held, NEW r \in Req, NEW n \in Nat, Grows(kv, kv', r, n), cells' = cells,
           \A s \in Scheduled : /\ num_scheduled_tokens'[s] = num_scheduled_tokens[s]
                                /\ Reach(s)' = Reach(s) /\ Toks'[s] = Toks[s]
    PROVE  /\ StaysAt(kv, kv', Fills, Fills', Toks, Toks')
           /\ \A s \in Req : status[s] = "running" =>
                  \A p \in 1 .. Reach(s) :
                      Has(kv', cells', Fills', Toks', BlockAt(kv', s, p), OffsetAt(p),
                          SubSeq(Toks[s], 1, p))
  <1>1. \A s \in Req : kv.req_to_blocks[s] \in Seq(Blocks)
    BY ManagerFields DEF IInv, Tabled
  <1>2. StaysAt(kv, kv', Fills, Fills', Toks, Toks')
    <2> SUFFICES ASSUME NEW e \in Fills
                 PROVE  /\ e \in Fills'
                        /\ BlockAt(kv', e[1], e[2]) = BlockAt(kv, e[1], e[2])
                        /\ SubSeq(Toks'[e[1]], 1, e[2]) = SubSeq(Toks[e[1]], 1, e[2])
      BY DEF StaysAt
    <2>1. /\ e \in Req \X (Nat \ {0}) /\ e[1] \in Req /\ e[1] \in Scheduled
          /\ e[2] \in Nat \ {0} /\ e[2] <= Len(kv.req_to_blocks[e[1]]) * BlockSize
          /\ Reach(e[1]) - num_scheduled_tokens[e[1]] < e[2] /\ e[2] <= Reach(e[1])
      <3>1. e \in Req \X (Nat \ {0})
        BY DEF Fills
      <3> QED BY <3>1, FillsFacts DEF InSlots
    <2>2. /\ Reach(e[1])' = Reach(e[1]) /\ Toks'[e[1]] = Toks[e[1]]
          /\ num_scheduled_tokens'[e[1]] = num_scheduled_tokens[e[1]]
      BY <2>1
    <2>3. e \in Fills'
      BY <2>1, <2>2 DEF Fills
    <2>4. BlockAt(kv', e[1], e[2]) = BlockAt(kv, e[1], e[2])
      BY <1>1, <2>1, PlacesStay
    <2> QED BY <2>2, <2>3, <2>4
  <1>3. ASSUME NEW s \in Req, status[s] = "running", NEW p \in 1 .. Reach(s)
        PROVE  Has(kv', cells', Fills', Toks', BlockAt(kv', s, p), OffsetAt(p),
                   SubSeq(Toks[s], 1, p))
    <2>1. PICK b, o, x : b = BlockAt(kv, s, p) /\ o = OffsetAt(p) /\ x = SubSeq(Toks[s], 1, p)
      OBVIOUS
    <2>2. Has(kv, cells, Fills, Toks, b, o, x)
      BY <1>3, <2>1 DEF Held, ComputedHeld
    <2>3. Has(kv', cells', Fills', Toks', b, o, x)
      BY <1>2, <2>2, HasStays
    <2>4. p \in Nat \ {0} /\ p <= Len(kv.req_to_blocks[s]) * BlockSize
      <3> DEFINE y == Len(kv.req_to_blocks[s]) * BlockSize
      <3>1. Reach(s) \in Nat /\ Reach(s) <= y
        BY <1>3, FillsFacts DEF IInv, Tabled
      <3>2. y \in Nat
        <4>1. Len(kv.req_to_blocks[s]) \in Nat
          BY <1>1
        <4> QED BY <4>1, ConstantFacts, TimesMonotonic
      <3> HIDE DEF y
      <3>3. p \in Nat \ {0} /\ p <= y
        BY <3>1, <3>2
      <3> QED BY <3>3 DEF y
    <2>5. BlockAt(kv', s, p) = b
      BY <1>1, <2>1, <2>4, PlacesStay
    <2> QED BY <2>1, <2>3, <2>5
  <1> QED BY <1>2, <1>3

(* and a block gets its hash for tokens that are held.                     *)
LEMMA GrowingHolds ==
    ASSUME IInv, Held, Consistent(kv', Known'), NEW r \in Req, NEW n \in Nat,
           Grows(kv, kv', r, n), cells' = cells, r \notin Scheduled,
           \A s \in Scheduled : num_scheduled_tokens'[s] = num_scheduled_tokens[s],
           \A s \in Req : s # r =>
               status'[s] = status[s] /\ Reach(s)' = Reach(s) /\ Toks'[s] = Toks[s],
           status'[r] = "running" => ComputedHeld(kv', cells', Fills', Toks', r, Reach(r)'),
           NEW X \in [Req -> Seq(Token)], Begins(Known'[r], X[r]),
           \A p \in 1 .. n : Has(kv', cells', Fills', Toks', BlockAt(kv', r, p), OffsetAt(p),
                                 SubSeq(X[r], 1, p))
    PROVE  Held'
  <1>0. \A s \in Scheduled : s \in Req /\ s # r
    BY ScheduledFacts
  <1>1. /\ StaysAt(kv, kv', Fills, Fills', Toks, Toks')
        /\ \A s \in Req : status[s] = "running" =>
               \A p \in 1 .. Reach(s) :
                   Has(kv', cells', Fills', Toks', BlockAt(kv', s, p), OffsetAt(p),
                       SubSeq(Toks[s], 1, p))
    BY <1>0, GrowStays
  <1>2. CachedHeld(kv', cells', Fills', Toks')
    <2>1. CachedHeld(kv, cells', Fills, Toks)
      BY DEF Held
    <2> QED BY <1>1, <2>1, CachedGrows
  <1>3. ASSUME NEW s \in Req, status'[s] = "running"
        PROVE  ComputedHeld(kv', cells', Fills', Toks', s, Reach(s)')
    <2>1. CASE s = r
      BY <1>3, <2>1
    <2>2. CASE s # r
      BY <1>1, <1>3, <2>2 DEF ComputedHeld
    <2> QED BY <2>1, <2>2
  <1> QED BY <1>2, <1>3 DEF Held

(* A running request gets slots for the positions it is to compute. *)
LEMMA RunningHolds ==
    ASSUME IInv, IInv', HeldInv, ScheduleRunning
    PROVE  HeldInv'
  <1>0. PICK r, m : r = fitting[1] /\ m = fitting[2]
    OBVIOUS
  <1>1. /\ pc = "fit" /\ pc' = "running" /\ r \in Req /\ m \in Nat \ {0} /\ computed[r] \in Nat
        /\ num_scheduled_tokens' = [num_scheduled_tokens EXCEPT ![r] = m]
        /\ num_scheduled_tokens[r] = 0 /\ status[r] = "running"
        /\ UNCHANGED <<output, computed, uses>>
        /\ Known' = Known /\ Allocated(kv, kv', Known, r, computed[r], m)
    BY <1>0, ScheduleAllocates
  <1>2. UNCHANGED <<status, cells, deferred, batch_queue>>
    BY DEF ScheduleRunning, reqs, batch
  <1>3. First' = First
    BY <1>1, <1>2 DEF First, oldest, Updating
  <1>4. ASSUME NEW s \in Req
        PROVE  /\ Flying(s)' = Flying(s) /\ Sampled(First, s)' = Sampled(First, s)
               /\ all_token_ids(s)' = all_token_ids(s) /\ NumTokens(s)' = NumTokens(s)
    <2>1. Flying(s)' = Flying(s) /\ Sampled(First, s)' = Sampled(First, s)
      BY <1>2, <1>3, SameFlight
    <2>2. all_token_ids(s)' = all_token_ids(s) /\ NumTokens(s)' = NumTokens(s)
      BY <1>1 DEF all_token_ids, NumTokens
    <2> QED BY <2>1, <2>2
  <1>5. Toks' = Toks
    BY <1>4 DEF Toks
  <1>6. /\ \A s \in Req : s # r => /\ num_scheduled_tokens'[s] = num_scheduled_tokens[s]
                                   /\ Reach(s)' = Reach(s)
        /\ num_scheduled_tokens'[r] = m /\ Reach(r)' = computed[r] + m /\ Reach(r) = computed[r]
    <2>1. num_scheduled_tokens \in [Req -> Nat]
      BY DEF IInv, Types
    <2>2. /\ \A s \in Req : s # r => num_scheduled_tokens'[s] = num_scheduled_tokens[s]
          /\ num_scheduled_tokens'[r] = m
      BY <1>1, <2>1
    <2> QED BY <1>1, <2>2 DEF Reach, Pending, Executing
  <1>7. InTime'
    BY <1>1, <1>2, <1>4, InTimeStays DEF Executing, HeldInv
  <1>8. PICK n \in Nat : n = computed[r] + m
    BY <1>1
  <1>9. Grows(kv, kv', r, n)
    BY <1>1, <1>8 DEF Allocated
  <1>10. r \notin Scheduled /\ \A s \in Scheduled : s \in Req /\ s # r
    BY <1>1 DEF Scheduled
  <1>11. \A p \in 1 .. Reach(r) :
             Has(kv', cells', Fills', Toks', BlockAt(kv', r, p), OffsetAt(p),
                 SubSeq(Toks[r], 1, p))
    BY <1>1, <1>2, <1>5, <1>6, <1>9, <1>10, GrowStays DEF HeldInv
  <1>12. ASSUME NEW p \in 1 .. n
         PROVE  Has(kv', cells', Fills', Toks', BlockAt(kv', r, p), OffsetAt(p),
                    SubSeq(Toks'[r], 1, p))
    <2>1. CASE p <= Reach(r)
      <3>1. p \in 1 .. Reach(r)
        BY <1>1, <1>6, <1>8, <2>1
      <3> QED BY <1>5, <1>11, <3>1
    <2>2. CASE p > Reach(r)
      <3>1. <<r, p>> \in Fills'
        <4>1. p \in Nat \ {0} /\ Reach(r)' - num_scheduled_tokens'[r] < p /\ p <= Reach(r)'
          BY <1>1, <1>6, <1>8, <2>2
        <4>2. <<r, p>> \in Req \X (Nat \ {0}) /\ <<r, p>>[1] = r /\ <<r, p>>[2] = p
          BY <1>1, <4>1
        <4> QED BY <4>1, <4>2 DEF Fills
      <3> QED BY <3>1, FillsNext
    <2> QED BY <1>1, <1>6, <1>8, <2>1, <2>2
  <1>13. ComputedHeld(kv', cells', Fills', Toks', r, Reach(r)')
    BY <1>6, <1>8, <1>12 DEF ComputedHeld
  <1>14. /\ Consistent(kv', Known') /\ Toks' \in [Req -> Seq(Token)]
         /\ Begins(Known'[r], Toks'[r])
    <2>1. Toks \in [Req -> Seq(Token)] /\ Begins(Known[r], Toks[r])
      BY <1>1, ToksFacts DEF Longer
    <2> QED BY <1>1, <1>5, <2>1 DEF IInv, Tabled
  <1>15. Held'
    BY <1>1, <1>2, <1>5, <1>6, <1>9, <1>10, <1>12, <1>13, <1>14, GrowingHolds DEF HeldInv
  <1> QED BY <1>7, <1>15 DEF HeldInv

(* A request is admitted: its hits hold its first tokens, and it is to     *)
(* compute the next.                                                       *)
LEMMA AdmissionHolds ==
    ASSUME IInv, IInv', HeldInv, AdmitWaiting
    PROVE  HeldInv'
  <1>0. PICK r, m, c, hits : /\ r = Candidate.req /\ m = Candidate.num_new
                             /\ c = Candidate.start /\ hits = Candidate.hits
    OBVIOUS
  <1>1. /\ pc = "waiting" /\ pc' = pc /\ r \in Req /\ m \in Nat \ {0} /\ c \in Nat
        /\ c = Len(hits) * BlockSize /\ c + m <= Len(Known[r]) /\ Known[r] \in Seq(Token)
        /\ computed' = [computed EXCEPT ![r] = c]
        /\ num_scheduled_tokens' = [num_scheduled_tokens EXCEPT ![r] = m]
        /\ UNCHANGED <<output, uses>>
        /\ Known' = Known /\ Allocated(kv, kv', Known, r, c, m)
        /\ HitsLead(kv, kv', Known, r, hits)
    <2>1. r \in Req
      BY <1>0, AdmissionAllocates
    <2>2. Known \in [Req -> Seq(Token)]
      BY <2>1, KnownFacts DEF IInv, Types
    <2> QED BY <1>0, <2>2, AdmissionAllocates
  <1>2. /\ status' = [status EXCEPT ![r] = "running"] /\ num_scheduled_tokens[r] = 0
        /\ UNCHANGED <<cells, deferred, batch_queue, todo>>
    <2>1. num_scheduled_tokens[r] = 0
      BY <1>0, CandidateFacts DEF AdmitWaiting
    <2> QED BY <1>0, <2>1 DEF AdmitWaiting, batch
  <1>3. First' = First
    BY <1>1, <1>2 DEF First, oldest, Updating
  <1>4. Toks' = Toks
    <2>1. ASSUME NEW s \in Req
          PROVE  Flying(s)' = Flying(s) /\ all_token_ids(s)' = all_token_ids(s)
      <3>1. Flying(s)' = Flying(s)
        BY <1>2, <1>3, SameFlight
      <3> QED BY <1>1, <3>1 DEF all_token_ids
    <2> QED BY <2>1 DEF Toks
  <1>5. /\ \A s \in Req : s # r => /\ num_scheduled_tokens'[s] = num_scheduled_tokens[s]
                                   /\ Reach(s)' = Reach(s) /\ status'[s] = status[s]
        /\ num_scheduled_tokens'[r] = m /\ Reach(r)' = c + m
    <2>1. /\ num_scheduled_tokens \in [Req -> Nat] /\ computed \in [Req -> Nat]
          /\ status \in [Req -> {"unknown", "waiting", "running", "preempted", "finished"}]
      BY DEF IInv, Types
    <2>2. /\ \A s \in Req : s # r => /\ num_scheduled_tokens'[s] = num_scheduled_tokens[s]
                                     /\ computed'[s] = computed[s] /\ status'[s] = status[s]
          /\ num_scheduled_tokens'[r] = m /\ computed'[r] = c
      BY <1>1, <1>2, <2>1
    <2> QED BY <1>1, <2>2 DEF Reach, Pending, Executing
  <1>6. InTime'
    <2>1. deferred' = NoBatch
      BY <1>1, <1>2 DEF IInv, Frames, Updating
    <2> QED BY <1>1, <2>1 DEF InTime, Executing
  <1>7. PICK n \in Nat : n = c + m
    BY <1>1
  <1>8. Grows(kv, kv', r, n)
    BY <1>1, <1>7 DEF Allocated
  <1>9. r \notin Scheduled /\ \A s \in Scheduled : s \in Req /\ s # r
    BY <1>2 DEF Scheduled
  <1>10. StaysAt(kv, kv', Fills, Fills', Toks, Toks')
    BY <1>1, <1>2, <1>4, <1>5, <1>8, <1>9, GrowStays DEF HeldInv
  <1>11. ASSUME NEW p \in 1 .. n
         PROVE  Has(kv', cells', Fills', Toks', BlockAt(kv', r, p), OffsetAt(p),
                    SubSeq(Toks'[r], 1, p))
    <2>1. CASE p <= c
      <3>1. PICK b, o, x, k1, T : /\ b = BlockAt(k1, r, p) /\ o = OffsetAt(p)
                                  /\ x = SubSeq(T[r], 1, p) /\ k1 = kv' /\ T = Toks
        OBVIOUS
      <3>2. Has(kv, cells, Fills, T, b, o, x)
        <4>1. Longer(Known, T) /\ CachedHeld(kv, cells, Fills, T)
          BY <1>1, <3>1, ToksFacts DEF HeldInv, Held
        <4>2. /\ Len(hits) \in Nat /\ p \in Nat \ {0} /\ p <= Len(hits) * BlockSize
              /\ Len(hits) * BlockSize <= Len(Known[r])
          <5>1. Len(hits) \in Nat
            <6>1. hits = get_computed_blocks(kv, all_token_ids(r))
              BY <1>0, CandidateFacts DEF AdmitWaiting
            <6>2. kv.pool \in PoolType /\ HashMapOK(kv.pool)
              BY ManagerFields DEF IInv, Tabled, Consistent
            <6>3. all_token_ids(r) \in Seq(Token) /\ all_token_ids(r) # << >>
              BY <1>0, <1>1, CandidateFacts, TokenFacts DEF AdmitWaiting, IInv, Types
            <6>4. hits \in Seq(Blocks)
              BY <6>1, <6>2, <6>3, LookupFacts
            <6> QED BY <6>4
          <5>2. Len(Known[r]) \in Nat
            BY <1>1
          <5>3. p \in Nat \ {0} /\ p <= c /\ c <= Len(Known[r])
            BY <1>1, <2>1, <5>2
          <5> QED BY <1>1, <5>1, <5>3
        <4>3. HitsLead(kv, k1, Known, r, hits)
          BY <1>1, <3>1
        <4> QED BY <1>1, <3>1, <4>1, <4>2, <4>3, HitsHold
      <3>3. StaysAt(kv, kv', Fills, Fills', T, Toks')
        BY <1>10, <3>1
      <3>4. Has(kv', cells, Fills', Toks', b, o, x)
        BY <3>2, <3>3, HasStays
      <3>5. b = BlockAt(kv', r, p) /\ o = OffsetAt(p) /\ x = SubSeq(Toks'[r], 1, p)
        BY <1>4, <3>1
      <3> QED BY <1>2, <3>4, <3>5
    <2>2. CASE p > c
      <3>1. p \in Nat \ {0} /\ Reach(r)' - num_scheduled_tokens'[r] < p /\ p <= Reach(r)'
        BY <1>1, <1>5, <1>7, <2>2
      <3>2. <<r, p>> \in Req \X (Nat \ {0}) /\ <<r, p>>[1] = r /\ <<r, p>>[2] = p
        BY <1>1, <3>1
      <3>3. <<r, p>> \in Fills'
        BY <3>1, <3>2 DEF Fills
      <3> QED BY <3>3, FillsNext
    <2> QED BY <1>1, <2>1, <2>2
  <1>12. ComputedHeld(kv', cells', Fills', Toks', r, Reach(r)')
    BY <1>5, <1>7, <1>11 DEF ComputedHeld
  <1>13. /\ Consistent(kv', Known') /\ Toks' \in [Req -> Seq(Token)]
         /\ Begins(Known'[r], Toks'[r])
    <2>1. Toks \in [Req -> Seq(Token)] /\ Begins(Known[r], Toks[r])
      BY <1>1, ToksFacts DEF Longer
    <2> QED BY <1>1, <1>4, <2>1 DEF IInv, Tabled
  <1>14. Held'
    BY <1>1, <1>2, <1>4, <1>5, <1>8, <1>9, <1>11, <1>12, <1>13, GrowingHolds DEF HeldInv
  <1> QED BY <1>6, <1>14 DEF HeldInv

(* A token is consumed: it was in flight, now it is known, and what the    *)
(* asynchronous scheduler caches with it has been computed.                *)
LEMMA OutputHolds ==
    ASSUME IInv, IInv', HeldInv, UpdateRequest
    PROVE  HeldInv'
  <1>0. PICK r, t, left : r = NextTodo /\ t = oldest.token[r] /\ left = placeholders_left(r)
    OBVIOUS
  <1>1. /\ pc = "update" /\ pc' \in {"update", "stopped"} /\ r \in todo /\ r \in Req
        /\ r \in DOMAIN oldest.token /\ t \in Token
        /\ output' = [output EXCEPT ![r] = Append(output[r], t)]
        /\ UNCHANGED <<computed, uses, num_scheduled_tokens>>
        /\ First = Batch(todo, oldest.rows, DOMAIN oldest.token \cap todo)
        /\ Known \in [Req -> Seq(Token)] /\ Known[r] = all_token_ids(r)
        /\ Len(Known[r]) = NumTokens(r) /\ NumTokens(r) \in Nat
        /\ Known' = [Known EXCEPT ![r] = Append(Known[r], t)]
    BY <1>0, OutputFacts
  <1>2. \A s \in Req : Reach(s) = computed[s] /\ Reach(s)' = computed[s]
    BY <1>0, OutputFacts
  <1>3. /\ UNCHANGED <<cells, deferred, batch_queue>>
        /\ \/ status' = [status EXCEPT ![r] = "finished"] /\ todo' = todo
           \/ status' = status /\ todo' = todo \ {r}
    BY <1>0 DEF UpdateRequest
  <1>4. /\ \A s \in Req : s # r => status'[s] = status[s] /\ output'[s] = output[s]
        /\ output'[r] = Append(output[r], t) /\ output[r] \in Seq(Token)
        /\ status'[r] = "running" => status[r] = "running" /\ todo' = todo \ {r}
    <2>1. /\ status \in [Req -> {"unknown", "waiting", "running", "preempted", "finished"}]
          /\ output \in [Req -> Seq(Token)]
      BY DEF IInv, Types
    <2> QED BY <1>1, <1>3, <2>1
  <1>5. First'.sampled = DOMAIN oldest.token \cap todo'
    <2>1. batch_queue # << >>
      BY <1>1, UpdatingFacts DEF Updating
    <2> QED BY <1>1, <1>3, <2>1 DEF First, oldest, Updating, Batch
  <1>6. First.sampled = DOMAIN oldest.token \cap todo
    BY <1>1 DEF Batch
  <1>7. ASSUME NEW s \in Req, s # r
        PROVE  /\ Toks'[s] = Toks[s] /\ NumTokens(s)' = NumTokens(s)
               /\ Sampled(First, s)' = Sampled(First, s)
    <2>1. (s \in First.sampled)' <=> s \in First.sampled
      BY <1>3, <1>5, <1>6, <1>7
    <2>2. Flying(s)' = Flying(s) /\ Sampled(First, s)' = Sampled(First, s)
      BY <1>3, <2>1, SameFlight
    <2>3. all_token_ids(s)' = all_token_ids(s) /\ NumTokens(s)' = NumTokens(s)
      BY <1>4, <1>7 DEF all_token_ids, NumTokens
    <2> QED BY <2>2, <2>3 DEF Toks
  <1>8. PICK a, u : a = Known[r] /\ u = Append(a, t)
    OBVIOUS
  <1>9. /\ a \in Seq(Token) /\ u \in Seq(Token) /\ Len(a) = NumTokens(r)
        /\ Len(u) = Len(a) + 1 /\ Known'[r] = u /\ a = all_token_ids(r)
    <2>1. a \in Seq(Token) /\ Len(a) = NumTokens(r) /\ Known'[r] = u /\ a = all_token_ids(r)
      BY <1>1, <1>8
    <2> QED BY <1>1, <1>8, <2>1
  <1>10. all_token_ids(r)' = u /\ NumTokens(r)' = NumTokens(r) + 1
    <2>1. uses[r] # 0
      <3>1. Known[r] # << >>
        BY <1>0, OutputFacts
      <3> QED BY <1>1, <3>1 DEF Known
    <2>2. all_token_ids(r)' = u
      BY <1>1, <1>9, <2>1 DEF Known
    <2>3. NumTokens(r)' = NumTokens(r) + 1
      <3>1. Len(output'[r]) = Len(output[r]) + 1
        BY <1>1, <1>4
      <3>2. Len(Prompt[r]) \in Nat /\ Len(output[r]) \in Nat
        BY <1>1, <1>4, ConstantFacts
      <3>3. /\ NumTokens(r) = Len(Prompt[r]) + Len(output[r])
            /\ NumTokens(r)' = Len(Prompt[r]) + Len(output'[r])
        BY DEF NumTokens
      <3> DEFINE x == Len(Prompt[r])
                 y == Len(output[r])
      <3>4. x \in Nat /\ y \in Nat /\ NumTokens(r) = x + y /\ NumTokens(r)' = x + (y + 1)
        BY <3>1, <3>2, <3>3
      <3> HIDE DEF x, y
      <3> QED BY <3>4
    <2> QED BY <2>2, <2>3
  <1>11. PICK two \in Seq(Token) :
             /\ Toks[r] = u \o two
             /\ status'[r] = "running" => Toks'[r] = u \o two
    <2> DEFINE two == IF Len(batch_queue) = 2 /\ r \in DOMAIN batch_queue[2].token
                      THEN <<batch_queue[2].token[r]>> ELSE << >>
    <2>1. two \in Seq(Token)
      <3>1. ASSUME Len(batch_queue) = 2, r \in DOMAIN batch_queue[2].token
            PROVE  batch_queue[2].token[r] \in Token
        <4>1. 2 \in DOMAIN batch_queue
          BY <3>1 DEF IInv, Frames
        <4> QED BY <3>1, <4>1, QueuedTokens
      <3> QED BY <3>1
    <2>2. Flying(r) = <<t>> \o two
      <3>1. r \in First.sampled
        BY <1>1, <1>6
      <3> QED BY <1>0, <3>1 DEF Flying
    <2>3. status'[r] = "running" => Flying(r)' = << >> \o two
      <3>1. status'[r] = "running" => r \notin First'.sampled
        BY <1>4, <1>5
      <3> QED BY <1>3, <3>1 DEF Flying
    <2> HIDE DEF two
    <2>4. u = a \o <<t>> /\ << >> \o two = two
      <3>1. << >> \o two = two
        BY <2>1, ConcatEmptySeq
      <3> QED BY <1>1, <1>8, <1>9, <3>1
    <2>5. a \o (<<t>> \o two) = u \o two
      <3>1. \A x1, x2, x3 \in Seq(Token) : (x1 \o x2) \o x3 = x1 \o (x2 \o x3)
        BY ConcatAssociative
      <3>2. <<t>> \in Seq(Token)
        BY <1>1
      <3> QED BY <1>9, <2>1, <2>4, <3>1, <3>2
    <2>6. Toks[r] = u \o two
      BY <1>1, <1>9, <2>2, <2>5 DEF Toks
    <2>7. status'[r] = "running" => Toks'[r] = u \o two
      BY <1>1, <1>10, <2>3, <2>4 DEF Toks
    <2> QED BY <2>1, <2>6, <2>7
  <1>12. status'[r] = "running" =>
             /\ Toks'[r] = Toks[r]
             /\ NumTokens(r)' + Sampled(First, r)' = NumTokens(r) + Sampled(First, r)
    <2>1. Sampled(First, r) = 1
      BY <1>1, <1>6 DEF Sampled
    <2>2. status'[r] = "running" => Sampled(First, r)' = 0
      BY <1>4, <1>5 DEF Sampled
    <2> QED BY <1>1, <1>10, <1>11, <2>1, <2>2
  <1>13. Scheduled = {}
    BY <1>1 DEF IInv, Schedules, Scheduling, Executing
  <1>14. InTime'
    BY <1>1, <1>3, <1>4, <1>7, <1>12, InTimeStays DEF Executing, HeldInv
  <1>15. CASE ~(Async /\ status[r] = "running")
    <2>1. kv' = kv
      BY <1>0, <1>15, OutputFacts
    <2>2. ASSUME NEW s \in Req, status'[s] = "running"
          PROVE  status[s] = "running" /\ Toks'[s] = Toks[s]
      BY <1>4, <1>7, <1>12, <2>2
    <2>3. Held'
      BY <1>2, <1>3, <1>13, <2>1, <2>2, HeldStays DEF HeldInv
    <2> QED BY <1>14, <2>3 DEF HeldInv
  <1>16. CASE Async /\ status[r] = "running"
    <2>1. PICK num \in Nat : /\ num = computed[r] - left /\ num <= computed[r]
                             /\ num <= Len(u)
      BY <1>0, <1>8, <1>9, <1>16, OutputFacts
    <2>2. kv' = cache_blocks(kv, r, u, num)
      BY <1>0, <1>8, <1>16, <2>1, OutputFacts
    <2>3. Grows(kv, kv', r, num)
      <3>1. kv \in KVType /\ Len(kv.req_to_blocks[r]) \in Nat
        BY <1>1, ManagerFields DEF IInv, Tabled, Consistent
      <3> DEFINE y == Len(kv.req_to_blocks[r]) * BlockSize
      <3>2. y \in Nat
        BY <3>1, ConstantFacts, TimesMonotonic
      <3>3. computed[r] <= y /\ computed[r] \in Nat
        <4>1. Reach(r) <= y
          BY <1>1, <1>16 DEF IInv, Tabled
        <4> QED BY <1>1, <1>2, <4>1, FillsFacts
      <3> HIDE DEF y
      <3>4. num <= y
        BY <2>1, <3>2, <3>3
      <3> QED BY <1>1, <2>1, <2>2, <3>1, <3>4, CachingGrows DEF y
    <2>4. \A p \in 1 .. Reach(r) :
              Has(kv', cells', Fills', Toks', BlockAt(kv', r, p), OffsetAt(p),
                  SubSeq(Toks[r], 1, p))
      BY <1>1, <1>3, <1>13, <1>16, <2>3, GrowStays DEF HeldInv
    <2>5. ComputedHeld(kv', cells', Fills', Toks', r, Reach(r)')
          \/ status'[r] # "running"
      BY <1>1, <1>2, <1>12, <2>4 DEF ComputedHeld
    <2>6. PICK X : X = Known'
      OBVIOUS
    <2>7. ASSUME NEW p \in 1 .. num
          PROVE  Has(kv', cells', Fills', Toks', BlockAt(kv', r, p), OffsetAt(p),
                     SubSeq(X[r], 1, p))
      <3>1. p \in 1 .. Reach(r) /\ p \in 1 .. Len(u)
        <4>1. computed[r] \in Nat /\ Len(u) \in Nat /\ Reach(r) = computed[r]
          BY <1>1, <1>2, <1>9, FillsFacts
        <4> QED BY <2>1, <4>1
      <3>2. Begins(u, u \o two) /\ u \o two \in Seq(Token)
        <4>1. /\ u \o two \in Seq(Token) /\ Len(u \o two) = Len(u) + Len(two)
              /\ \A i \in 1 .. Len(u) : (u \o two)[i] = u[i]
          BY <1>9
        <4>2. Len(u) \in Nat /\ Len(two) \in Nat
          BY <1>9
        <4> QED BY <4>1, <4>2 DEF Begins
      <3>3. SubSeq(u \o two, 1, p) = SubSeq(u, 1, p)
        BY <1>9, <3>1, <3>2, SamePrefix
      <3>4. SubSeq(X[r], 1, p) = SubSeq(Toks[r], 1, p)
        BY <1>9, <1>11, <2>6, <3>3
      <3> QED BY <2>4, <3>1, <3>4
    <2>8. /\ Consistent(kv', Known') /\ X \in [Req -> Seq(Token)]
          /\ Begins(Known'[r], X[r])
      <3>1. X \in [Req -> Seq(Token)]
        BY <1>1, <1>8, <1>9, <2>6
      <3>2. Consistent(kv', Known')
        BY DEF IInv, Tabled
      <3>3. Begins(u, u)
        <4>1. Len(u) \in Nat
          BY <1>9
        <4> QED BY <4>1 DEF Begins
      <3> QED BY <1>9, <2>6, <3>1, <3>2, <3>3
    <2>9. /\ \A s \in Req : s # r =>
                 status'[s] = status[s] /\ Reach(s)' = Reach(s) /\ Toks'[s] = Toks[s]
          /\ r \notin Scheduled
          /\ \A s \in Scheduled : num_scheduled_tokens'[s] = num_scheduled_tokens[s]
      BY <1>2, <1>4, <1>7, <1>13
    <2>10. Held'
      BY <1>1, <1>3, <2>1, <2>3, <2>5, <2>7, <2>8, <2>9, GrowingHolds DEF HeldInv
    <2> QED BY <1>14, <2>10 DEF HeldInv
  <1> QED BY <1>15, <1>16

LEMMA InitHeld == Init => HeldInv
  <1> SUFFICES ASSUME Init PROVE HeldInv
    OBVIOUS
  <1>1. kv = InitKV /\ \A r \in Req : status[r] = "unknown"
    BY DEF Init
  <1>2. \A b \in Blocks : kv.pool.block_hash[b] = NoHash
    BY <1>1 DEF InitKV
  <1>3. CachedHeld(kv, cells, Fills, Toks)
    BY <1>2 DEF CachedHeld
  <1> QED BY <1>1, <1>3 DEF HeldInv, Held, InTime

LEMMA HeldKept ==
    ASSUME ~PriorityPolicy, IInv, IInv', NoneDropped, ScheduledHaveRows, HeldInv, [Next]_vars
    PROVE  HeldInv'
  <1>1. ASSUME \E r \in Req : AddRequest(r) \/ AbortRequest(r) PROVE HeldInv'
    BY <1>1, LeavingHolds
  <1>2. ASSUME Step PROVE HeldInv'
    <2>1. CASE \/ BeginStep \/ BeginDrain \/ SkipRunning \/ PickRunning \/ EndRunning
               \/ EndWaiting \/ PopBatch \/ SkipUpdate \/ UpdateThrows
      BY <2>1, QuietStepsHold
    <2>2. CASE FreeStopped \/ PreemptRunning
      BY <2>2, LeavingHolds
    <2>3. CASE ScheduleRunning
      BY <2>3, RunningHolds
    <2>4. CASE AdmitWaiting
      BY <2>4, AdmissionHolds
    <2>5. CASE FinishSchedule
      BY <2>5, ScheduledHold
    <2>6. CASE ExecuteAndSample \/ ExecuteOnly
      <3>1. Rows = Scheduled
        <4>1. pc \in {"execute", "execute_only"}
          BY <2>6 DEF ExecuteAndSample, ExecuteOnly
        <4> QED BY <4>1, ScheduledFacts DEF ScheduledHaveRows
      <3> QED BY <2>6, <3>1, ExecutedHold
    <2>7. CASE UpdateRequest
      BY <2>7, OutputHolds
    <2>8. CASE FinishUpdate
      BY <2>8, ConsumedHold
    <2> QED BY <1>2, <2>1, <2>2, <2>3, <2>4, <2>5, <2>6, <2>7, <2>8 DEF Step
  <1>3. ASSUME Rest \/ UNCHANGED vars PROVE HeldInv'
    BY <1>3, QuietStepsHold
  <1> QED BY <1>1, <1>2, <1>3 DEF Next

(* Between steps nothing is about to be filled. *)
LEMMA HeldBetweenSteps ==
    ASSUME IInv, HeldInv
    PROVE  KVHoldsOwnTokens
  <1> SUFFICES ASSUME pc = "idle" PROVE KVHoldsOwnTokens
    BY DEF KVHoldsOwnTokens, ComputedKVIsOwn, CachedBlocksAreComputed
  <1>1. Scheduled = {}
    BY DEF IInv, Schedules, Scheduling, Executing
  <1>2. Fills = {}
    BY <1>1, FillsFacts
  <1>3. ASSUME NEW b, NEW o, NEW x, Has(kv, cells, Fills, Toks, b, o, x)
        PROVE  cells[b][o] = x
    BY <1>2, <1>3 DEF Has, FilledWith
  <1>4. ASSUME NEW r \in Range(running), NEW p \in 1 .. computed[r]
        PROVE  cells[BlockOf(r, p)][OffsetOf(p)] = SubSeq(device_toks(r), 1, p)
    <2>1. r \in Req /\ status[r] = "running"
      <3>1. running \in Seq(Req)
        BY DEF IInv, Types
      <3>2. r \in Req
        BY <3>1, RangeFacts
      <3> QED BY <3>2 DEF IInv, Queues, Lists, Updating
    <2>2. Reach(r) = computed[r]
      <3>1. num_scheduled_tokens[r] = 0
        BY <1>1, <2>1 DEF Scheduled
      <3> QED BY <2>1, <3>1, FillsFacts DEF Reach, Pending
    <2>3. device_toks(r) = Toks[r]
      BY <2>1, RunnerHolds DEF Updating
    <2>4. Has(kv, cells, Fills, Toks, BlockAt(kv, r, p), OffsetAt(p), SubSeq(Toks[r], 1, p))
      BY <2>1, <2>2 DEF HeldInv, Held, ComputedHeld
    <2>5. cells[BlockAt(kv, r, p)][OffsetAt(p)] = SubSeq(Toks[r], 1, p)
      BY <1>3, <2>4
    <2> QED BY <2>3, <2>5 DEF BlockOf, BlockAt, OffsetOf, OffsetAt
  <1>5. ComputedKVIsOwn
    BY <1>4 DEF ComputedKVIsOwn
  <1>6. CachedBlocksAreComputed
    <2>1. ASSUME NEW b \in Blocks, NEW h, h = kv.pool.block_hash[b], h # NoHash,
                 NEW o \in 1 .. BlockSize
          PROVE  cells[b][o] = SubSeq(h, 1, Len(h) - BlockSize + o)
      <3>1. Has(kv, cells, Fills, Toks, b, o, SubSeq(h, 1, Len(h) - BlockSize + o))
        BY <2>1 DEF HeldInv, Held, CachedHeld
      <3> QED BY <1>3, <3>1
    <2> QED BY <2>1 DEF CachedBlocksAreComputed
  <1> QED BY <1>5, <1>6 DEF KVHoldsOwnTokens

(* First come, first served, attention never reads KV of other tokens than *)
(* the request's own.  Between steps, every position a running request     *)
(* counts as computed was written for exactly its prefix, by the request   *)
(* or by one that shared the block, and every block the cache offers to    *)
(* the next request has all the KV its hash promises: allocate_slots       *)
(* caches blocks before the step fills them, tokens are scheduled before   *)
(* they are known, and preempted or aborted requests leave cached blocks   *)
(* behind, but none of it shows between steps.                             *)
THEOREM CellsHoldOwnTokens ==
    ASSUME Disciplined, ~PriorityPolicy
    PROVE  Spec => []KVHoldsOwnTokens
  <1>1. Init => HeldInv /\ NoneDropped
    BY InitHeld, InitNoneDropped
  <1>2. IInv /\ NoneDropped /\ ScheduledHaveRows /\ [Next]_vars => NoneDropped'
    BY NoneDroppedKept
  <1>3. IInv /\ IInv' /\ NoneDropped /\ ScheduledHaveRows /\ HeldInv /\ [Next]_vars => HeldInv'
    BY HeldKept
  <1>4. IInv /\ HeldInv => KVHoldsOwnTokens
    BY HeldBetweenSteps
  <1>5. Spec => []IInv
    BY Invariance
  <1>6. Spec => []ScheduledHaveRows
    BY RowsAreFound
  <1> QED BY <1>1, <1>2, <1>3, <1>4, <1>5, <1>6, PTL DEF Spec

===============================================================================
