------------------------------ MODULE Scheduler ------------------------------
(***************************************************************************)
(* The continuous-batching scheduler and the engine core that drives it:   *)
(* Scheduler, AsyncScheduler and check_stop (src/vllm/v1/core/sched/), the *)
(* two step functions of EngineCore (src/vllm/v1/engine/core.cpp), and as  *)
(* much of the model runner as decides which scheduled requests get a      *)
(* token.                                                                  *)
(*                                                                         *)
(* One thread runs all of it.  Between two steps it takes requests and     *)
(* aborts from its input queue; a step is                                  *)
(*                                                                         *)
(*   schedule()            running loop, waiting loop, bookkeeping         *)
(*   execute and sample    eager, the result goes into the batch queue     *)
(*   update_from_output()  on the oldest batch in the queue                *)
(*                                                                         *)
(* and pc is where in it the thread is.  Under asynchronous scheduling the *)
(* batch queue holds two batches, so that a step is scheduled before the   *)
(* tokens the step before it sampled are known: every such token is a      *)
(* placeholder.  Otherwise the queue holds one and the step consumes it.   *)
(***************************************************************************)
EXTENDS KVCacheManager

CONSTANTS Prompt,               \* request -> its prompt
          MaxTokens,            \* request -> max_tokens
          MinTokens,            \* request -> min_tokens
          StopTokens,           \* request -> the tokens that stop it: eos, stop_token_ids
          Structured,           \* the requests with a grammar
          PriorityPolicy,       \* SchedulingPolicy: priority, else FCFS
          Priority,             \* request -> priority, lower first
          MaxNumRunningReqs,    \* max_num_seqs
          MaxNumScheduledTokens,\* max_num_batched_tokens
          LongPrefillThreshold, \* long_prefill_token_threshold, 0 for none
          EnableChunkedPrefill, \* enable_chunked_prefill
          ReserveFullIsl,       \* scheduler_reserve_full_isl
          Async,                \* AsyncScheduler and a batch queue of two
          Reused                \* bound of the model: the ids that come back, once

ASSUME SchedulerAssumption ==
    /\ Req \subseteq Nat
    /\ Prompt \in [Req -> Seq(Token) \ {<< >>}]
    /\ \A r \in Req : Len(Prompt[r]) <= MaxModelLen
    /\ MaxTokens \in [Req -> Nat \ {0}]
    /\ MinTokens \in [Req -> Nat]
    /\ \A r \in Req : MinTokens[r] <= MaxTokens[r]
    /\ StopTokens \in [Req -> SUBSET Token]
    /\ Structured \subseteq Req
    /\ PriorityPolicy \in BOOLEAN
    /\ Priority \in [Req -> Int]
    /\ MaxNumRunningReqs \in Nat \ {0}
    /\ MaxNumScheduledTokens \in Nat \ {0}
    /\ LongPrefillThreshold \in Nat
    /\ EnableChunkedPrefill \in BOOLEAN
    /\ ReserveFullIsl \in BOOLEAN
    /\ Async \in BOOLEAN
    /\ Reused \subseteq Req

VARIABLES
    kv,                    \* the KVCacheManager
    status,                \* request -> its status; "unknown" and "finished" are not in requests
    output,                \* request -> output_token_ids
    computed,              \* request -> num_computed_tokens
    placeholders,          \* request -> num_output_placeholders
    running,               \* the running list, in admission order
    waiting,               \* the waiting queue, next to admit first
    finished_req_ids,      \* finished since the last schedule()
    pc,                    \* where the core thread is
    req_index,             \* cursor of the running loop
    fitting,               \* <<request, num_new_tokens>> the running loop makes room for
    token_budget,          \* what the step may still schedule
    num_scheduled_tokens,  \* request -> tokens scheduled this step, 0 for none
    preempted,             \* some request was preempted this step
    deferred,              \* the executed batch whose sampling waits, or NoBatch
    batch_queue,           \* executed batches, oldest first
    todo,                  \* requests update_from_output has still to look at
    in_batch,              \* the requests in the model runner's persistent batch
    cells,                 \* block, offset -> the token prefix whose KV was written there
    uses                   \* request -> how often the id was added

sched == <<req_index, fitting, token_budget, num_scheduled_tokens, preempted>>
batch == <<deferred, batch_queue, todo, in_batch>>
queues == <<running, waiting, finished_req_ids>>
reqs == <<status, output, computed, placeholders, uses>>
vars == <<kv, reqs, queues, pc, sched, batch, cells>>

BatchQueueSize == IF Async THEN 2 ELSE 1
NoBatch == [reqs |-> {}, rows |-> {}, sampled |-> {}]

(* The requests map. *)
Unfinished(r) == status[r] \in {"waiting", "running", "preempted"}
all_token_ids(r)      == Prompt[r] \o output[r]
NumTokens(r)     == Len(Prompt[r]) + Len(output[r])

Init ==
    /\ kv = InitKV
    /\ status = [r \in Req |-> "unknown"]
    /\ output = [r \in Req |-> << >>]
    /\ computed = [r \in Req |-> 0]
    /\ placeholders = [r \in Req |-> 0]
    /\ uses = [r \in Req |-> 0]
    /\ running = << >> /\ waiting = << >> /\ finished_req_ids = {}
    /\ pc = "idle"
    /\ req_index = 1 /\ fitting = << >> /\ token_budget = 0 /\ preempted = FALSE
    /\ num_scheduled_tokens = [r \in Req |-> 0]
    /\ deferred = NoBatch /\ batch_queue = << >> /\ todo = {} /\ in_batch = {}
    /\ cells = [b \in Blocks |-> [o \in 1 .. BlockSize |-> << >>]]

----------------------------------------------------------------------------
(* The waiting queue: FCFS is a deque, priority a heap.  Arrival times     *)
(* follow the request ids.                                                 *)

Precedes(r, s) == Priority[r] < Priority[s] \/ (Priority[r] = Priority[s] /\ r < s)

HeapInsert(q, r) ==
    Keep(q, {s \in Req : Precedes(s, r)}) \o <<r>> \o Keep(q, {s \in Req : Precedes(r, s)})

queue_add_request(q, r)     == IF PriorityPolicy THEN HeapInsert(q, r) ELSE Append(q, r)
(* Mutant: a preempted request queues up at the end. *)
queue_prepend_request_AtEnd(q, r) == IF PriorityPolicy THEN HeapInsert(q, r) ELSE Append(q, r)

queue_prepend_request(q, r) == IF PriorityPolicy THEN HeapInsert(q, r) ELSE <<r>> \o q

----------------------------------------------------------------------------
(* Between steps *)

(* The client's ids are unique among unfinished requests; a finished id    *)
(* may come back.                                                          *)
AddRequest(r) ==
    /\ pc = "idle"
    /\ ~Unfinished(r)
    /\ uses[r] = 0 \/ (uses[r] = 1 /\ r \in Reused)
    /\ uses' = [uses EXCEPT ![r] = @ + 1]
    /\ status' = [status EXCEPT ![r] = "waiting"]
    /\ output' = [output EXCEPT ![r] = << >>]
    /\ computed' = [computed EXCEPT ![r] = 0]
    /\ placeholders' = [placeholders EXCEPT ![r] = 0]
    /\ waiting' = queue_add_request(waiting, r)
    /\ UNCHANGED <<kv, running, finished_req_ids, pc, sched, batch, cells>>

(* Mutant: a preempted request is looked for in the running list. *)
LeaveQueue_ForgetsPreempted(r) ==
    IF status[r] = "waiting"
    THEN waiting' = Keep(waiting, Req \ {r}) /\ UNCHANGED running
    ELSE running' = Keep(running, Req \ {r}) /\ UNCHANGED waiting

LeaveQueue(r) ==
    IF status[r] = "running"
    THEN running' = Keep(running, Req \ {r}) /\ UNCHANGED waiting
    ELSE waiting' = Keep(waiting, Req \ {r}) /\ UNCHANGED running

(* finish_requests, on behalf of a client that aborts. *)
AbortRequest(r) ==
    /\ pc = "idle"
    /\ Unfinished(r)
    /\ LeaveQueue(r)
    /\ status' = [status EXCEPT ![r] = "finished"]
    /\ finished_req_ids' = finished_req_ids \cup {r}
    /\ kv' = free(kv, r)
    /\ UNCHANGED <<output, computed, placeholders, uses, pc, sched, batch, cells>>

HasRequests == waiting # << >> \/ running # << >> \/ finished_req_ids # {}
HasWork     == HasRequests \/ batch_queue # << >>

BeginStep ==
    /\ pc = "idle"
    /\ HasRequests
    /\ pc' = "running"
    /\ req_index' = 1
    /\ token_budget' = MaxNumScheduledTokens
    /\ UNCHANGED <<kv, reqs, queues, fitting, num_scheduled_tokens, preempted, batch, cells>>

(* Nothing to schedule, a batch still to consume. *)
BeginDrain ==
    /\ pc = "idle"
    /\ ~HasRequests
    /\ batch_queue # << >>
    /\ pc' = "pop"
    /\ UNCHANGED <<kv, reqs, queues, sched, batch, cells>>

----------------------------------------------------------------------------
(* schedule(): the running loop *)

Shortened(n) == IF 0 < LongPrefillThreshold THEN Least(n, LongPrefillThreshold) ELSE n

(* Mutant: the cap leaves out one position too many. *)
NumNewTokens_CapTooLow(r) ==
    Least(Least(Shortened(NumTokens(r) + placeholders[r] - computed[r]), token_budget),
          Greatest(MaxModelLen - computed[r] - 2, 0))

NumNewTokens(r) ==
    Least(Least(Shortened(NumTokens(r) + placeholders[r] - computed[r]), token_budget),
          MaxModelLen - computed[r] - 1)

(* Mutant: one token too late. *)
ReachesMaxTokens_Late(r) ==
    /\ placeholders[r] > 0
    /\ computed[r] + 1 - placeholders[r] >= Len(Prompt[r]) + MaxTokens[r]

(* Mutant: one token early. *)
ReachesMaxTokens_Early(r) ==
    /\ placeholders[r] > 0
    /\ computed[r] + 3 - placeholders[r] >= Len(Prompt[r]) + MaxTokens[r]

(* The token in flight is known to be the last one max_tokens allows. *)
ReachesMaxTokens(r) ==
    /\ placeholders[r] > 0
    /\ computed[r] + 2 - placeholders[r] >= Len(Prompt[r]) + MaxTokens[r]

InRunningLoop == pc = "running" /\ req_index <= Len(running) /\ token_budget > 0

SkipRunning ==
    /\ InRunningLoop
    /\ ReachesMaxTokens(running[req_index]) \/ NumNewTokens(running[req_index]) = 0
    /\ req_index' = req_index + 1
    /\ UNCHANGED <<kv, reqs, queues, pc, fitting, token_budget, num_scheduled_tokens,
                   preempted, batch, cells>>

PickRunning ==
    /\ InRunningLoop
    /\ ~ReachesMaxTokens(running[req_index])
    /\ NumNewTokens(running[req_index]) # 0
    /\ fitting' = <<running[req_index], NumNewTokens(running[req_index])>>
    /\ pc' = "fit"
    /\ UNCHANGED <<kv, reqs, queues, req_index, token_budget, num_scheduled_tokens,
                   preempted, batch, cells>>

(* Mutant: room for the next token is taken for granted. *)
Fits_Always(r, n) == TRUE

Fits(r, n) == CanAllocate(kv, r, computed[r], n, << >>, 0, 0)

ScheduleRunning ==
    LET r == fitting[1]
        n == fitting[2]
    IN  /\ pc = "fit"
        /\ Fits(r, n)
        /\ kv' = allocate_slots_running(kv, r, all_token_ids(r), computed[r], n)
        /\ num_scheduled_tokens' = [num_scheduled_tokens EXCEPT ![r] = n]
        /\ token_budget' = token_budget - n
        /\ req_index' = req_index + 1
        /\ fitting' = << >>
        /\ pc' = "running"
        /\ UNCHANGED <<reqs, queues, preempted, batch, cells>>

(* FCFS preempts the last request admitted, priority the one that all      *)
(* others precede; that one may have been scheduled already this step.     *)
Victim == IF PriorityPolicy
          THEN CHOOSE v \in Range(running) : \A s \in Range(running) : v = s \/ Precedes(s, v)
          ELSE running[Len(running)]

(* Mutants: what the step scheduled for the victim stands; or the undo     *)
(* does not give the budget back.                                          *)
UndoScheduled_Not(v) == UNCHANGED <<token_budget, num_scheduled_tokens, req_index>>

UndoScheduled_KeepsBudget(v) ==
    IF PriorityPolicy /\ num_scheduled_tokens[v] # 0
    THEN /\ num_scheduled_tokens' = [num_scheduled_tokens EXCEPT ![v] = 0]
         /\ req_index' = req_index - 1
         /\ UNCHANGED token_budget
    ELSE UNCHANGED <<token_budget, num_scheduled_tokens, req_index>>

(* Under priority, take back what the step has scheduled for the victim.   *)
UndoScheduled(v) ==
    IF PriorityPolicy /\ num_scheduled_tokens[v] # 0
    THEN /\ token_budget' = token_budget + num_scheduled_tokens[v]
         /\ num_scheduled_tokens' = [num_scheduled_tokens EXCEPT ![v] = 0]
         /\ req_index' = req_index - 1
    ELSE UNCHANGED <<token_budget, num_scheduled_tokens, req_index>>

(* preempt_request.  A request that preempts itself ends the loop. *)
PreemptRunning ==
    LET v == Victim
    IN  /\ pc = "fit"
        /\ ~Fits(fitting[1], fitting[2])
        /\ running' = Keep(running, Req \ {v})
        /\ kv' = free(kv, v)
        /\ status' = [status EXCEPT ![v] = "preempted"]
        /\ computed' = [computed EXCEPT ![v] = 0]
        /\ waiting' = queue_prepend_request(waiting, v)
        /\ preempted' = TRUE
        /\ UndoScheduled(v)
        /\ IF v = fitting[1] THEN pc' = "assemble" /\ fitting' = << >>
                             ELSE UNCHANGED <<pc, fitting>>
        /\ UNCHANGED <<output, placeholders, uses, finished_req_ids, batch, cells>>

(* A step that preempted admits nobody. *)
EndRunning ==
    /\ pc = "running"
    /\ ~InRunningLoop
    /\ pc' = IF preempted THEN "assemble" ELSE "waiting"
    /\ UNCHANGED <<kv, reqs, queues, sched, batch, cells>>

----------------------------------------------------------------------------
(* schedule(): the waiting loop.  Nobody waits with computed tokens, so    *)
(* the branch of the code for such a request is left out.                  *)

InWaitingLoop ==
    /\ pc = "waiting"
    /\ waiting # << >>
    /\ token_budget > 0
    /\ Len(running) < MaxNumRunningReqs

Candidate ==
    LET r    == Head(waiting)
        hits == get_computed_blocks(kv, all_token_ids(r))
        rest == Shortened(NumTokens(r) - Len(hits) * BlockSize)
    IN  [req |-> r, hits |-> hits, start |-> Len(hits) * BlockSize,
         fits_budget |-> EnableChunkedPrefill \/ rest <= token_budget,
         num_new |-> Least(rest, token_budget)]

CanAdmit(c) ==
    /\ c.fits_budget
    /\ CanAllocate(kv, c.req, c.start, c.num_new, c.hits,
                   IF ReserveFullIsl THEN NumTokens(c.req) ELSE 0,
                   IF running # << >> THEN WatermarkBlocks ELSE 0)

AdmitWaiting ==
    LET c == Candidate
    IN  /\ InWaitingLoop
        /\ CanAdmit(c)
        /\ kv' = allocate_slots_waiting(kv, c.req, all_token_ids(c.req), c.hits, c.num_new)
        /\ waiting' = Tail(waiting)
        /\ running' = Append(running, c.req)
        /\ status' = [status EXCEPT ![c.req] = "running"]
        /\ computed' = [computed EXCEPT ![c.req] = c.start]
        /\ num_scheduled_tokens' = [num_scheduled_tokens EXCEPT ![c.req] = c.num_new]
        /\ token_budget' = token_budget - c.num_new
        /\ UNCHANGED <<output, placeholders, uses, finished_req_ids, pc, req_index, fitting,
                       preempted, batch, cells>>

EndWaiting ==
    /\ pc = "waiting"
    /\ ~(InWaitingLoop /\ CanAdmit(Candidate))
    /\ pc' = "assemble"
    /\ UNCHANGED <<kv, reqs, queues, sched, batch, cells>>

----------------------------------------------------------------------------
(* schedule(): update_after_schedule.  The step samples for the requests   *)
(* it brings up to date.                                                   *)

Scheduled == {r \in Req : num_scheduled_tokens[r] # 0}

(* Mutant: the token that completes the prefill counts as a chunk of it. *)
is_prefill_chunk_Late(r) ==
    computed[r] + num_scheduled_tokens[r] <= NumTokens(r) + placeholders[r]

is_prefill_chunk(r) ==
    computed[r] + num_scheduled_tokens[r] < NumTokens(r) + placeholders[r]

(* Mutant: sampling is never deferred. *)
PendingStructured_Never == FALSE

(* Mutant: every decode of a structured request defers. *)
PendingStructured_Always == \E r \in Scheduled \cap Structured : ~is_prefill_chunk(r)

(* pending_structured_output_tokens: a grammar needs a token in flight. *)
PendingStructured ==
    \E r \in Scheduled \cap Structured : ~is_prefill_chunk(r) /\ placeholders[r] > 0

FinishSchedule ==
    /\ pc = "assemble"
    /\ computed' = [r \in Req |-> computed[r] + num_scheduled_tokens[r]]
    /\ placeholders' = [r \in Req |->
           IF Async /\ r \in Scheduled /\ ~is_prefill_chunk(r)
           THEN placeholders[r] + 1 ELSE placeholders[r]]
    /\ finished_req_ids' = {}
    /\ pc' = IF Async /\ PendingStructured THEN "execute_only" ELSE "execute"
    /\ UNCHANGED <<kv, status, output, uses, running, waiting, sched, batch, cells>>

----------------------------------------------------------------------------
(* The model runner.  Its tokens of a request are the confirmed ones and   *)
(* those sampled but not consumed yet.                                     *)

FramesOf(r) == {i \in DOMAIN batch_queue : r \in DOMAIN batch_queue[i].token
                                           /\ batch_queue[i].use[r] = uses[r]}
InFlight(r) ==
    [j \in 1 .. Cardinality(FramesOf(r)) |->
        batch_queue[CHOOSE i \in FramesOf(r) : RankIn(FramesOf(r), i) = j - 1].token[r]]
device_toks(r) == all_token_ids(r) \o InFlight(r)

(* update_states: a request that is not scheduled leaves the persistent    *)
(* batch, one that the waiting loop admitted, for the first time or again, *)
(* enters it.  One that comes from the running loop is looked up there.    *)
NewReqs == {running[i] : i \in req_index .. Len(running)} \cap Scheduled
Rows    == (in_batch \cap Scheduled) \cup NewReqs

(* Position p of a request, counted from 1, has its KV in a cell of the    *)
(* block its table names.                                                  *)
BlockOf(r, p)  == kv.req_to_blocks[r][((p - 1) \div BlockSize) + 1]
OffsetOf(p)    == ((p - 1) % BlockSize) + 1
(* Mutant: the first scheduled position counts as computed already. *)
NewPositions_StartsLate(r) == computed[r] - num_scheduled_tokens[r] + 2 .. computed[r]

NewPositions(r) == computed[r] - num_scheduled_tokens[r] + 1 .. computed[r]

(* The forward pass writes the KV of every scheduled position of its rows. *)
Written(b, o) == {rp \in Rows \X (1 .. MaxModelLen) :
                    /\ rp[2] \in NewPositions(rp[1])
                    /\ BlockOf(rp[1], rp[2]) = b
                    /\ OffsetOf(rp[2]) = o}

Forward ==
    cells' = [b \in Blocks |-> [o \in 1 .. BlockSize |->
                 IF Written(b, o) = {} THEN cells[b][o]
                 ELSE LET rp == CHOOSE w \in Written(b, o) : TRUE
                      IN  SubSeq(device_toks(rp[1]), 1, rp[2])]]

(* A row gets a token unless the request has known tokens not computed yet. *)
SampledRows == {r \in Rows : computed[r] >= Len(device_toks(r))}

Frame(requests, rows, token) ==
    [reqs |-> requests, rows |-> rows, token |-> token,
     use |-> [r \in requests |-> uses[r]]]

(* The schedule is spent once its batch is executed. *)
EndSchedule ==
    /\ num_scheduled_tokens' = [r \in Req |-> 0]
    /\ token_budget' = 0 /\ req_index' = 1 /\ preempted' = FALSE
    /\ UNCHANGED fitting

(* Execute and sample.  With room in the queue and more to do, the thread  *)
(* returns to schedule the next batch instead of consuming the oldest.     *)
ExecuteAndSample ==
    /\ pc = "execute"
    /\ Forward
    /\ \E token \in [SampledRows -> Token] :
          batch_queue' = Append(batch_queue, Frame(Scheduled, Rows, token))
    /\ pc' = IF /\ Len(batch_queue) + 1 < BatchQueueSize
                /\ Scheduled # {} \/ HasRequests
             THEN "idle" ELSE "pop"
    /\ in_batch' = Rows
    /\ EndSchedule
    /\ UNCHANGED <<kv, reqs, queues, deferred, todo>>

(* Execute, and sample after the oldest batch is consumed. *)
ExecuteOnly ==
    /\ pc = "execute_only"
    /\ Forward
    /\ deferred' = [reqs |-> Scheduled, rows |-> Rows, sampled |-> SampledRows]
    /\ pc' = "pop"
    /\ in_batch' = Rows
    /\ EndSchedule
    /\ UNCHANGED <<kv, reqs, queues, batch_queue, todo>>

----------------------------------------------------------------------------
(* update_from_output on the oldest batch: its requests in id order.  The  *)
(* batch leaves the queue when all are looked at.                          *)

oldest == batch_queue[1]

PopBatch ==
    /\ pc = "pop"
    /\ batch_queue # << >>
    /\ todo' = oldest.reqs
    /\ pc' = "update"
    /\ UNCHANGED <<kv, reqs, queues, sched, deferred, batch_queue, in_batch, cells>>

NextTodo == CHOOSE r \in todo : \A s \in todo : r <= s

(* Finished or aborted since it was scheduled, or without a token. *)
SkipUpdate ==
    /\ pc = "update"
    /\ todo # {}
    /\ \/ ~Unfinished(NextTodo)
       \/ NextTodo \in oldest.rows \ DOMAIN oldest.token
    /\ todo' = todo \ {NextTodo}
    /\ UNCHANGED <<kv, reqs, queues, pc, sched, deferred, batch_queue, in_batch, cells>>

(* req_id_to_index.at(): a scheduled request without a row of the output   *)
(* ends the engine core thread.                                            *)
UpdateThrows ==
    /\ pc = "update"
    /\ todo # {}
    /\ Unfinished(NextTodo) /\ NextTodo \notin oldest.rows
    /\ pc' = "dead"
    /\ UNCHANGED <<kv, reqs, queues, sched, batch, cells>>

(* check_stop on a request whose output is out: min_tokens gates the stop  *)
(* tokens and the length caps alike.                                       *)
check_stop(r, out) ==
    /\ Len(out) >= MinTokens[r]
    /\ \/ out[Len(out)] \in StopTokens[r]
       \/ Len(Prompt[r]) + Len(out) >= MaxModelLen
       \/ Len(out) >= MaxTokens[r]

(* Mutant: a preempted request's placeholder stays. *)
placeholders_left_RunningOnly(r) ==
    IF Async /\ status[r] = "running" THEN placeholders[r] - 1 ELSE placeholders[r]

placeholders_left(r) == IF Async THEN placeholders[r] - 1 ELSE placeholders[r]

(* update_request_with_output; a grammar may reject the token.  A request  *)
(* that stops is freed next, so it stays in todo until FreeStopped.        *)
UpdateRequest ==
    LET r   == NextTodo
        out == Append(output[r], oldest.token[r])
        left == placeholders_left(r)
    IN  /\ pc = "update"
        /\ todo # {}
        /\ Unfinished(r) /\ r \in DOMAIN oldest.token
        /\ output' = [output EXCEPT ![r] = out]
        /\ placeholders' = [placeholders EXCEPT ![r] = left]
        /\ kv' = IF Async /\ status[r] = "running"
                 THEN cache_blocks(kv, r, Prompt[r] \o out, computed[r] - left)
                 ELSE kv
        /\ \E rejected \in IF r \in Structured THEN BOOLEAN ELSE {FALSE} :
              IF check_stop(r, out) \/ rejected
              THEN /\ status' = [status EXCEPT ![r] = "finished"]
                   /\ pc' = "stopped"
                   /\ UNCHANGED todo
              ELSE /\ todo' = todo \ {r}
                   /\ UNCHANGED <<status, pc>>
        /\ UNCHANGED <<computed, uses, queues, sched, deferred, batch_queue, in_batch, cells>>

(* Mutant: a stopped request keeps its blocks. *)
FreeStopped_KeepsBlocks ==
    /\ pc = "stopped"
    /\ finished_req_ids' = finished_req_ids \cup {NextTodo}
    /\ todo' = todo \ {NextTodo}
    /\ pc' = "update"
    /\ UNCHANGED <<kv, reqs, running, waiting, sched, deferred, batch_queue, in_batch, cells>>

FreeStopped ==
    /\ pc = "stopped"
    /\ kv' = free(kv, NextTodo)
    /\ finished_req_ids' = finished_req_ids \cup {NextTodo}
    /\ todo' = todo \ {NextTodo}
    /\ pc' = "update"
    /\ UNCHANGED <<reqs, running, waiting, sched, deferred, batch_queue, in_batch, cells>>

(* Stopped requests leave the queues and the map; then a deferred batch is *)
(* sampled.                                                                *)
FinishUpdate ==
    /\ pc = "update"
    /\ todo = {}
    /\ running' = Keep(running, {r \in Req : Unfinished(r)})
    /\ waiting' = Keep(waiting, {r \in Req : Unfinished(r)})
    /\ IF deferred = NoBatch
       THEN batch_queue' = Tail(batch_queue)
       ELSE \E token \in [deferred.sampled -> Token] :
              batch_queue' = Append(Tail(batch_queue),
                                    Frame(deferred.reqs, deferred.rows, token))
    /\ deferred' = NoBatch
    /\ pc' = "idle"
    /\ UNCHANGED <<kv, reqs, finished_req_ids, sched, todo, in_batch, cells>>

----------------------------------------------------------------------------
Step ==
    \/ BeginStep \/ BeginDrain
    \/ SkipRunning \/ PickRunning \/ ScheduleRunning \/ PreemptRunning \/ EndRunning
    \/ AdmitWaiting \/ EndWaiting
    \/ FinishSchedule \/ ExecuteAndSample \/ ExecuteOnly
    \/ PopBatch \/ SkipUpdate \/ UpdateThrows \/ UpdateRequest \/ FreeStopped \/ FinishUpdate

(* Without work the thread blocks on its input queue; or it has ended. *)
Rest == ((pc = "idle" /\ ~HasWork) \/ pc = "dead") /\ UNCHANGED vars

Next ==
    \/ \E r \in Req : AddRequest(r)
    \/ \E r \in Req : AbortRequest(r)
    \/ Step
    \/ Rest

Spec == Init /\ [][Next]_vars

(* The busy loop steps as long as there is work.  This is WF_vars(Step)    *)
(* with ENABLED Step written out: the thread can take a step when it is    *)
(* inside one or has work to begin one.  That it can, that no step gets    *)
(* stuck half way, is what the deadlock check of every run shows: nobody   *)
(* else moves while pc is not "idle".                                      *)
Busy == pc # "dead" /\ (pc # "idle" \/ HasWork)
CoreThreadRuns == []<>~Busy \/ []<><<Step>>_vars
FairSpec == Spec /\ CoreThreadRuns

----------------------------------------------------------------------------
(* Properties *)

(* The queues and the requests map agree between steps: a running request  *)
(* is in running once, a waiting or preempted one in waiting once, and     *)
(* nobody else is in either.                                               *)
QueuesMatchStatus ==
    pc = "idle" =>
        /\ IsInjective(running) /\ IsInjective(waiting)
        /\ Range(running) = {r \in Req : status[r] = "running"}
        /\ Range(waiting) = {r \in Req : status[r] \in {"waiting", "preempted"}}

(* Type invariant, and the queues against the requests map.                *)
TypeInv ==
    /\ kv \in KVType
    /\ status \in [Req -> {"unknown", "waiting", "running", "preempted", "finished"}]
    /\ output \in [Req -> Seq(Token)]
    /\ computed \in [Req -> Nat]
    /\ placeholders \in [Req -> Nat]
    /\ uses \in [Req -> 0 .. 2]
    /\ running \in Seq(Req) /\ waiting \in Seq(Req)
    /\ finished_req_ids \subseteq Req
    /\ pc \in {"idle", "running", "fit", "waiting", "assemble", "execute", "execute_only",
               "pop", "update", "stopped", "dead"}
    /\ req_index \in Nat \ {0}
    /\ fitting \in {<< >>} \cup (Req \X Nat)
    /\ token_budget \in 0 .. MaxNumScheduledTokens
    /\ num_scheduled_tokens \in [Req -> 0 .. MaxNumScheduledTokens]
    /\ preempted \in BOOLEAN
    /\ deferred.reqs \subseteq Req /\ deferred.sampled \subseteq deferred.rows
    /\ Len(batch_queue) <= BatchQueueSize
    /\ todo \subseteq Req /\ in_batch \subseteq Req
    /\ QueuesMatchStatus

(* num_output_placeholders counts the sampled tokens of an unfinished      *)
(* request that update_from_output has not seen, through preemption,       *)
(* abort and deferred sampling.                                            *)
PlaceholdersExact ==
    Async /\ pc = "idle" =>
        \A r \in Req : Unfinished(r) => placeholders[r] = Len(InFlight(r))

(* The grammar that masks a structured request's row has seen all of its   *)
(* tokens: it never has two sampled tokens outstanding.                    *)
GrammarSeesAllTokens ==
    \A r \in Structured : Unfinished(r) => Len(InFlight(r)) <= 1

(* Scheduling ahead never samples past max_tokens or the model length.     *)
NeverSamplesPastLimit ==
    pc \in {"idle", "pop"} =>
        \A r \in Req : Unfinished(r) =>
            /\ Len(output[r]) + Len(InFlight(r)) <= MaxTokens[r]
            /\ Len(device_toks(r)) <= MaxModelLen

(* step_with_batch_queue takes the back of a queue that is not empty: what *)
(* a deferred sampling waits for is there.                                 *)
BatchToPop == pc = "pop" => batch_queue # << >>

(* Scheduling ahead of its tokens, the scheduler accounts for every one    *)
(* that is in flight: in its counts, towards the grammar, towards the      *)
(* limits and in the queue it takes the next output from.                  *)
TokensInFlightAccounted ==
    PlaceholdersExact /\ GrammarSeesAllTokens /\ NeverSamplesPastLimit /\ BatchToPop

(* An admission while others run leaves the watermark free and, when the   *)
(* whole sequence must fit, the blocks the rest of it will take: what      *)
(* get_num_blocks_to_allocate estimates is what the allocation takes.      *)
AdmissionLeavesRoom ==
    [][\A r \in Req :
         (r \notin Range(running) /\ r \in Range(running') /\ running # << >>) =>
             LET rest == IF ReserveFullIsl
                         THEN cdiv(NumTokens(r), BlockSize) - Len(kv'.req_to_blocks[r])
                         ELSE 0
             IN  get_num_free_blocks(kv'.pool) >= WatermarkBlocks + rest]_vars

(* A preemption in the middle of a step takes back all that the step had   *)
(* done for its victim: the budget and what is scheduled add up, and the   *)
(* runner is handed only requests that are still running, with blocks for  *)
(* every token they are to compute.                                        *)
PreemptionIsUndone ==
    /\ pc \in {"running", "fit", "waiting", "assemble"} =>
           token_budget + FoldFunction(+, 0, num_scheduled_tokens) = MaxNumScheduledTokens
    /\ Len(running) <= MaxNumRunningReqs
    /\ pc \in {"assemble", "execute", "execute_only"} =>
           \A r \in Scheduled :
               /\ status[r] = "running"
               /\ LET end == computed[r] + IF pc = "assemble" THEN num_scheduled_tokens[r] ELSE 0
                  IN  end <= Len(kv.req_to_blocks[r]) * BlockSize

(* A request the running loop schedules is in the runner's persistent      *)
(* batch, which keeps only what every step schedules: the runner has no    *)
(* other place to find it, and its tokens have no row in the output.       *)
ScheduledHaveRows ==
    pc \in {"execute", "execute_only"} => Scheduled \subseteq Rows

(* What attention reads for a request is the KV of its own tokens: each    *)
(* position counted as computed was written, by it or by the request its   *)
(* block was shared from, for exactly this prefix.                         *)
ComputedKVIsOwn ==
    pc = "idle" =>
        \A r \in Range(running) : \A p \in 1 .. computed[r] :
            cells[BlockOf(r, p)][OffsetOf(p)] = SubSeq(device_toks(r), 1, p)

(* Only finalized blocks are cached: the KV a cached block promises to the *)
(* next request with its prefix has been written.                          *)
CachedBlocksAreComputed ==
    pc = "idle" =>
        \A b \in Blocks : LET h == kv.pool.block_hash[b] IN
            h # NoHash => \A o \in 1 .. BlockSize :
                cells[b][o] = SubSeq(h, 1, Len(h) - BlockSize + o)

(* No request ever attends to KV that is not its own tokens': neither what *)
(* it has computed nor what it may hit.                                    *)
KVHoldsOwnTokens == ComputedKVIsOwn /\ CachedBlocksAreComputed

(* FCFS is kept through preemption and retry: of two unfinished requests   *)
(* the one ahead stays ahead, whether they run or wait.                    *)
Ahead(line, r, s) == \E i, j \in DOMAIN line : i < j /\ line[i] = r /\ line[j] = s

FirstComeFirstServed ==
    [][\A r, s \in Req :
         (/\ Ahead(running \o waiting, r, s)
          /\ {r, s} \subseteq Range(running' \o waiting'))
             => Ahead(running' \o waiting', r, s)]_vars

(* The engine comes to rest, its batch queue empty and every block free:   *)
(* every request is finished in the end, retries after preemption do not   *)
(* go on for ever, nobody waits for ever and no block is lost.             *)
ComesToRest == <>[](~HasWork /\ get_num_free_blocks(kv.pool) = NumGpuBlocks - 1)

----------------------------------------------------------------------------
(* The scheduler keeps the protocol of the KV cache manager.  The tokens   *)
(* of a step count as computed from the moment they have slots.            *)
KVC == INSTANCE KVCache WITH
    Prompts <- {Prompt[r] : r \in Req},
    MaxTokens <- MaxModelLen + 1,
    toks <- [r \in Req |-> IF uses[r] = 0 THEN << >> ELSE all_token_ids(r)],
    computed <- [r \in Req |->
        IF r \in Owners(kv)
        THEN computed[r] + IF pc \in {"execute", "execute_only"} THEN 0 ELSE num_scheduled_tokens[r]
        ELSE 0]

KeepsKVProtocol == KVC!Spec
==============================================================================
