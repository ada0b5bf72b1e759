------------------------------ MODULE ModelRunner -----------------------------
(***************************************************************************)
(* GPUModelRunner (src/vllm/v1/worker/gpu/runner.cpp): execute_model,      *)
(* sample_tokens and sample_tokens_async over the persistent batch, the    *)
(* state slots of the linear-attention layers, the pool of asynchronous    *)
(* outputs (async_output.cpp) and the kernels that splice sampled tokens   *)
(* on the device (src/vt/cuda/combine_tokens.cu).                          *)
(*                                                                         *)
(* The core thread drives it: schedule, execute, sample, and get_output    *)
(* for the oldest batch once the queue is full.  The scheduler here makes  *)
(* the outputs FCFS makes (module Scheduler): it schedules every running   *)
(* request but one whose last token is in flight, preempts from the tail,  *)
(* admits in order.  The path is chosen at construction:                   *)
(*                                                                         *)
(*   sync    sample_tokens; one batch at a time                            *)
(*   host    sample_tokens_async on a backend whose queue is synchronous   *)
(*   device  sample_tokens_async on CUDA: the host enqueues work on the    *)
(*           main and the copy queue and runs ahead of both                *)
(***************************************************************************)
EXTENDS InputBatch

CONSTANTS PromptLen,            \* request -> its length
          MaxTokens,            \* request -> max_tokens
          Structured,           \* the requests with a grammar
          BlockSize,
          LongPrefillThreshold, \* long_prefill_token_threshold
          PrefixHit,            \* computed tokens an admission may start with
          Paths,                \* the paths to check
          InitialSlots,         \* outputs the pool holds at first
          MaxPreemptions,       \* bounds of the model: preemptions and aborts
          MaxAborts

ASSUME ModelRunnerAssumption ==
    /\ Req \subseteq Nat \ {0}
    /\ PromptLen \in [Req -> Nat \ {0}]
    /\ MaxTokens \in [Req -> Nat \ {0}]
    /\ Structured \subseteq Req /\ Penalised \subseteq Req
    /\ {MaxNumReqs, BlockSize, LongPrefillThreshold, InitialSlots} \subseteq Nat \ {0}
    /\ PrefixHit \in Nat
    /\ Paths \subseteq {"sync", "host", "device"}

VARIABLES
    path,
    \* the scheduler
    toks,          \* request -> its confirmed tokens
    computed,      \* request -> num_computed_tokens
    placeholders,  \* request -> num_output_placeholders
    held,          \* request -> its blocks
    admissions,    \* request -> how often it was admitted
    running, waiting, finished_req_ids,
    bound,         \* preemptions and aborts so far
    so,            \* the SchedulerOutput of the step
    pc,
    batch_queue,   \* outputs not consumed yet, oldest first
    \* the runner
    ib,            \* input_batch_
    slot_of, free_slots,    \* gdn_slot_of_req_ (0 for none), gdn_free_slots_
    exec,          \* exec_state_
    pool,          \* the output slots: [in_use, dev, pinned]
    \* the device
    main_q, copy_q,\* enqueued work, next first
    gdn,           \* state slot -> <<request, tokens it has absorbed>>
    fed            \* what the last forward pass was given, row by row

sched == <<toks, computed, placeholders, held, admissions, running, waiting,
           finished_req_ids, bound>>
runner == <<ib, slot_of, free_slots, exec>>
device == <<main_q, copy_q, gdn, fed>>
vars == <<path, sched, so, pc, batch_queue, runner, pool, device>>

Async     == path # "sync"
MaxQueue  == IF Async THEN 2 ELSE 1
NoState   == <<0, 0>>
Junk      == <<0, 1>>          \* what a prefill chunk's row samples
NoExec    == [ids |-> << >>, discard |-> {}, end |-> << >>]
FreeOutput == [in_use |-> FALSE, dev |-> << >>, pinned |-> << >>]
EmptySO   == [finished |-> {}, new |-> << >>, cached |-> << >>, n |-> << >>, defer |-> FALSE]
cdiv(a, b) == (a + b - 1) \div b

Init ==
    /\ path \in Paths
    /\ toks = [r \in Req |-> [p \in 1 .. PromptLen[r] |-> <<r, p>>]]
    /\ computed = [r \in Req |-> 0] /\ placeholders = [r \in Req |-> 0]
    /\ held = [r \in Req |-> << >>] /\ admissions = [r \in Req |-> 0]
    /\ running = << >>
    /\ waiting = SetToSortSeq(Req, <)
    /\ finished_req_ids = {}
    /\ bound = [preempted |-> 0, aborted |-> 0]
    /\ so = EmptySO /\ pc = "idle" /\ batch_queue = << >>
    /\ ib = EmptyBatch
    /\ slot_of = [r \in Req |-> 0]
    /\ free_slots = Reverse([s \in Slots |-> s])
    /\ exec = NoExec
    /\ pool = [i \in 1 .. InitialSlots |-> FreeOutput]
    /\ main_q = << >> /\ copy_q = << >>
    /\ gdn = [s \in Slots |-> NoState]
    /\ fed = << >>

Live(r) == r \in Range(running) \cup Range(waiting)
Keep(q, S) == SelectSeq(q, LAMBDA r : r \in S)

----------------------------------------------------------------------------
(* The scheduler *)

LastInFlight(r) ==
    /\ placeholders[r] > 0
    /\ computed[r] + 2 - placeholders[r] >= PromptLen[r] + MaxTokens[r]

Shortened(n) == IF n < LongPrefillThreshold THEN n ELSE LongPrefillThreshold

(* Blocks a request gets so that they hold end tokens.  They are named by  *)
(* request, admission and position, so that none of them is a stale one.   *)
NewBlocks(r, use, has, end) ==
    [j \in 1 .. cdiv(end, BlockSize) - has |-> <<r, use, has + j>>]

Admission(r, start) ==
    LET n == Shortened(Len(toks[r]) - start)
    IN  [n |-> n,
         data |-> [req |-> r, toks |-> toks[r], prompt |-> PromptLen[r], computed |-> start,
                   blocks |-> NewBlocks(r, admissions[r] + 1, 0, start + n)]]

(* The last k running requests are preempted; when there are none, the     *)
(* first j waiting ones are admitted, each at start[r] computed tokens.    *)
Schedule(k, j, start) ==
    LET stay    == SubSeq(running, 1, Len(running) - k)
        gone    == SubSeq(running, Len(running) - k + 1, Len(running))
        in      == SubSeq(waiting, 1, j)
        go      == {r \in Range(stay) : ~LastInFlight(r)}
        n       == [r \in go \cup Range(in) |->
                      IF r \in go THEN Shortened(Len(toks[r]) + placeholders[r] - computed[r])
                      ELSE Admission(r, start[r]).n]
        from    == [r \in DOMAIN n |-> IF r \in go THEN computed[r] ELSE start[r]]
        more(r) == NewBlocks(r, admissions[r], Len(held[r]), from[r] + n[r])
        samples == {r \in DOMAIN n : from[r] + n[r] >= Len(toks[r]) + placeholders[r]}
    IN  /\ pc = "idle"
        /\ running # << >> \/ waiting # << >> \/ finished_req_ids # {}
        /\ k = 0 \/ j = 0
        /\ Len(stay) + j <= MaxNumReqs
        /\ k + bound.preempted <= MaxPreemptions
        /\ \A r \in Req : start[r] < IF r \in Range(in) THEN Len(toks[r]) ELSE 1
        /\ so' = [finished |-> finished_req_ids,
                  new      |-> [i \in 1 .. j |-> Admission(in[i], start[in[i]]).data],
                  cached   |-> [r \in go |-> [computed |-> computed[r], new_blocks |-> more(r)]],
                  n        |-> n,
                  defer    |-> Async /\ \E r \in samples \cap Structured : placeholders[r] > 0]
        /\ computed' = [r \in Req |-> IF r \in DOMAIN n THEN from[r] + n[r]
                                      ELSE IF r \in Range(gone) THEN 0 ELSE computed[r]]
        /\ placeholders' = [r \in Req |-> IF Async /\ r \in samples THEN placeholders[r] + 1
                                          ELSE placeholders[r]]
        /\ held' = [r \in Req |-> IF r \in go THEN held[r] \o more(r)
                                  ELSE IF r \in Range(in) THEN Admission(r, start[r]).data.blocks
                                  ELSE IF r \in Range(gone) THEN << >> ELSE held[r]]
        /\ admissions' = [r \in Req |-> IF r \in Range(in) THEN admissions[r] + 1
                                        ELSE admissions[r]]
        /\ running' = stay \o in
        /\ waiting' = gone \o SubSeq(waiting, j + 1, Len(waiting))
        /\ finished_req_ids' = {}
        /\ bound' = [bound EXCEPT !.preempted = @ + k]
        /\ pc' = "execute"
        /\ UNCHANGED <<path, toks, batch_queue, runner, pool, device>>

(* Nothing to schedule, a batch to consume. *)
Drain ==
    /\ pc = "idle"
    /\ running = << >> /\ waiting = << >> /\ finished_req_ids = {}
    /\ batch_queue # << >>
    /\ pc' = "consume"
    /\ UNCHANGED <<path, sched, so, batch_queue, runner, pool, device>>

Abort(r) ==
    /\ pc = "idle"
    /\ Live(r)
    /\ bound.aborted < MaxAborts
    /\ bound' = [bound EXCEPT !.aborted = @ + 1]
    /\ running' = Keep(running, Req \ {r}) /\ waiting' = Keep(waiting, Req \ {r})
    /\ finished_req_ids' = finished_req_ids \cup {r}
    /\ held' = [held EXCEPT ![r] = << >>]
    /\ UNCHANGED <<path, toks, computed, placeholders, admissions, so, pc, batch_queue, runner,
                   pool, device>>

----------------------------------------------------------------------------
(* The work of a queue.  On the device path it runs when the device gets   *)
(* to it, otherwise at once.                                               *)

(* A forward pass: combine_sampled_and_draft_tokens, then the layers.  The *)
(* splice reads prefill_len and last_sampled_tokens when it runs.          *)
(* Mutant: the chunk that completes the prefill is spliced too.            *)
Spliced_AtPrefillEnd(b, row, i) == row.end >= b.prefill[i]

Spliced(b, row, i) == row.end > b.prefill[i]

Given(b, rows) ==
    [i \in DOMAIN rows |->
        LET row == rows[i]
        IN  [rows[i] EXCEPT !.toks =
                IF Async /\ Spliced(b, row, i) THEN [@ EXCEPT ![Len(@)] = b.last[i]] ELSE @]]

(* The layers read each row's recurrent state unless the row starts a      *)
(* sequence, and leave it advanced.                                        *)
WithState(states, rows) == [i \in DOMAIN rows |->
    [req |-> rows[i].req, start |-> rows[i].start, toks |-> rows[i].toks,
     blocks |-> rows[i].blocks, own |-> rows[i].own,
     state |-> IF rows[i].start > 0 THEN states[rows[i].slot] ELSE NoState]]

Advanced(states, rows) ==
    [s \in Slots |-> IF \E i \in DOMAIN rows : rows[i].slot = s
                     THEN LET row == rows[CHOOSE i \in DOMAIN rows : rows[i].slot = s]
                          IN  <<row.req, row.end>>
                     ELSE states[s]]

(* The sampler writes the output slot, the scatter last_sampled_tokens.    *)
Scattered(last, ids) == [s \in Slots |-> IF s \in DOMAIN ids THEN ids[s] ELSE last[s]]

DeviceStep ==
    /\ main_q # << >>
    /\ main_q' = Tail(main_q)
    /\ LET op == Head(main_q)
       IN  \/ /\ op.op = "forward"
              /\ fed' = WithState(gdn, Given(ib, op.rows))
              /\ gdn' = Advanced(gdn, op.rows)
              /\ UNCHANGED <<ib, pool, copy_q>>
           \/ /\ op.op = "sample"
              /\ pool' = [pool EXCEPT ![op.slot].dev = op.ids]
              /\ UNCHANGED <<ib, gdn, fed, copy_q>>
           \/ /\ op.op = "scatter"
              /\ ib' = [ib EXCEPT !.last = Scattered(@, op.ids)]
              /\ UNCHANGED <<pool, gdn, fed, copy_q>>
           \/ /\ op.op = "fork"          \* RecordEvent(fork_event): the copy may go
              /\ copy_q' = LET i == Min({j \in DOMAIN copy_q : ~copy_q[j].ready})
                           IN  [copy_q EXCEPT ![i].ready = TRUE]
              /\ UNCHANGED <<ib, pool, gdn, fed>>
    /\ UNCHANGED <<path, sched, so, pc, batch_queue, slot_of, free_slots, exec>>

(* The copy queue waits for the fork event of its next copy. *)
CopyStep ==
    /\ copy_q # << >>
    /\ Head(copy_q).ready
    /\ copy_q' = Tail(copy_q)
    /\ pool' = [pool EXCEPT ![Head(copy_q).slot].pinned = pool[Head(copy_q).slot].dev]
    /\ UNCHANGED <<path, sched, so, pc, batch_queue, runner, main_q, gdn, fed>>

----------------------------------------------------------------------------
(* execute_model *)

(* Where the decode-first reorder wants a request: decodes, short extends, *)
(* long extends, first chunks of a prefill.                                *)
Region(b, n) == [s \in 1 .. Len(b.req_ids) |->
    IF b.computed[s] = 0 THEN 3
    ELSE IF n[b.req_ids[s]] > 1 THEN 2
    ELSE IF b.computed[s] < b.prompt[s] THEN 1 ELSE 0]

(* remap_gdn_state_slots: slots of requests that left the batch go back to *)
(* the free list, in any order (the map is hashed); new requests take the  *)
(* last free one.                                                          *)
Reclaimed(b) == {r \in Req : slot_of[r] # 0 /\ r \notin InBatch(b)}

Remap(b, order) ==
    LET free   == free_slots \o [i \in DOMAIN order |-> slot_of[order[i]]]
        needy  == SelectSeq(b.req_ids, LAMBDA r : slot_of[r] = 0)
        Rank(r) == CHOOSE i \in DOMAIN needy : needy[i] = r
    IN  /\ slot_of' = [r \in Req |->
               IF r \in Range(order) THEN 0
               ELSE IF r \in Range(needy) THEN free[Len(free) + 1 - Rank(r)] ELSE slot_of[r]]
        /\ free_slots' = SubSeq(free, 1, Len(free) - Len(needy))

(* prepare_inputs for slot i: the tokens and blocks of the scheduled       *)
(* positions, with what the scheduler gave the request.                    *)
Column(b, i, p) == IF p <= Len(b.toks[i]) THEN b.toks[i][p] ELSE NoTok

Row(b, slots, i) ==
    LET r == b.req_ids[i]
        start == b.computed[i]
        end == start + so.n[r]
    IN  [req |-> r, start |-> start, end |-> end, slot |-> slots[r],
         toks |-> [k \in 1 .. so.n[r] |-> Column(b, i, start + k)],
         blocks |-> b.blocks[i], own |-> held[r]]

(* Mutants: the row of the token that completes the prefill is discarded;  *)
(* that of the last chunk but one token is not.                            *)
Discarded_AtEnd(b, row, i) == row.end <= Len(b.toks[i])
Discarded_Late(b, row, i)  == row.end + 1 < Len(b.toks[i])

(* The row of a request that is still consuming known tokens. *)
Discarded(b, row, i) == row.end < Len(b.toks[i])

ExecuteModel ==
    LET b0 == update_states(ib, so)
        b  == IF b0.req_ids = << >> THEN b0 ELSE swap_chain(b0, Region(b0, so.n))
    IN  /\ pc = "execute"
        /\ ib' = b
        /\ IF DOMAIN so.n = {} \/ InBatch(b0) = {}
           THEN /\ exec' = NoExec
                /\ UNCHANGED <<slot_of, free_slots, device>>
           ELSE /\ \E order \in SetToSeqs(Reclaimed(b)) : Remap(b, order)
                /\ LET rows == [i \in DOMAIN b.req_ids |-> Row(b, slot_of', i)]
                   IN  /\ exec' = [ids |-> b.req_ids,
                                   discard |-> {i \in DOMAIN rows : Discarded(b, rows[i], i)},
                                   end |-> [i \in DOMAIN rows |-> rows[i].end]]
                       /\ IF path = "device"
                          THEN /\ main_q' = Append(main_q, [op |-> "forward", rows |-> rows])
                               /\ UNCHANGED <<gdn, fed>>
                          ELSE /\ fed' = WithState(gdn, Given(b, rows))
                               /\ gdn' = Advanced(gdn, rows)
                               /\ UNCHANGED main_q
                /\ UNCHANGED copy_q
        /\ pc' = IF so.defer THEN "consume" ELSE "sample"
        /\ UNCHANGED <<path, sched, so, batch_queue, pool>>

----------------------------------------------------------------------------
(* sample_tokens and sample_tokens_async *)

(* The next token of each row's request. *)
SampledIds == [i \in DOMAIN exec.ids |-> IF i \in exec.discard THEN Junk
                                          ELSE <<exec.ids[i], exec.end[i] + 1>>]

(* Bookkeeping of the rows that sampled.  The asynchronous paths count the *)
(* token but write neither its column nor the output tokens.               *)
Counted(b, ids) ==
    LET rows == DOMAIN ids \ exec.discard
    IN  [b EXCEPT !.toks = [s \in Slots |-> IF s \notin rows THEN @[s]
                                ELSE Append(@[s], IF Async THEN Junk ELSE ids[s])],
                  !.out = [s \in Slots |-> IF s \notin rows \/ Async THEN @[s]
                                ELSE Append(@[s], ids[s])],
                  !.last = [s \in Slots |-> IF s \notin rows \/ path = "device" THEN @[s]
                                ELSE ids[s]]]

(* Mutant: the pool hands out its slots in turn. *)
Acquire_RoundRobin == (Cardinality({i \in DOMAIN pool : pool[i].in_use}) % InitialSlots) + 1

(* The first output slot not in use; the pool grows when there is none. *)
Acquire == LET free == {i \in DOMAIN pool : ~pool[i].in_use}
           IN  IF free = {} THEN Len(pool) + 1 ELSE Min(free)

Acquired(s, dev, pinned) ==
    LET p == IF s > Len(pool) THEN Append(pool, FreeOutput) ELSE pool
    IN  [p EXCEPT ![s] = [in_use |-> TRUE, dev |-> IF dev THEN SampledIds ELSE @.dev,
                          pinned |-> IF pinned THEN SampledIds ELSE @.pinned]]

Sample ==
    LET s   == IF Async THEN Acquire ELSE 0
        ids == SampledIds
        b   == IF exec.ids = << >> THEN ib ELSE refresh_metadata(ib)
    IN  /\ pc = "sample"
        /\ ib' = Counted(b, ids)
        /\ batch_queue' = Append(batch_queue,
               [ids |-> exec.ids, discard |-> exec.discard, slot |-> s,
                toks |-> IF Async THEN << >> ELSE ids])
        /\ CASE path = "sync"   -> UNCHANGED <<pool, main_q, copy_q>>
             [] path = "host"   -> /\ pool' = Acquired(s, TRUE, TRUE)
                                   /\ UNCHANGED <<main_q, copy_q>>
             [] path = "device" -> /\ pool' = Acquired(s, FALSE, FALSE)
                                   /\ main_q' = main_q
                                        \o (IF ids = << >> THEN << >>
                                            ELSE << [op |-> "sample", slot |-> s, ids |-> ids],
                                                    [op |-> "scatter", ids |-> ids] >>)
                                        \o << [op |-> "fork"] >>
                                   /\ copy_q' = Append(copy_q, [slot |-> s, ready |-> FALSE])
        /\ exec' = NoExec
        /\ so' = EmptySO
        /\ pc' = IF so.defer \/ ( /\ Len(batch_queue) + 1 < MaxQueue
                                  /\ \/ DOMAIN so.n # {} \/ running # << >>
                                     \/ waiting # << >> \/ finished_req_ids # {})
                 THEN "idle" ELSE "consume"
        /\ UNCHANGED <<path, sched, slot_of, free_slots, gdn, fed>>

----------------------------------------------------------------------------
(* get_output, then update_from_output                                     *)

oldest == batch_queue[1]

(* Mutant: the pinned buffer is read without waiting for the event. *)
CopyDone_Assumed(slot) == TRUE

CopyDone(slot) == \A i \in DOMAIN copy_q : copy_q[i].slot # slot

(* Discarded rows are emptied; a row nobody has copied holds anything. *)
Output == LET ids == IF Async THEN pool[oldest.slot].pinned ELSE oldest.toks
          IN  [i \in DOMAIN oldest.ids \ oldest.discard |->
                 IF i \in DOMAIN ids THEN ids[i] ELSE Junk]

RowOf(r) == CHOOSE i \in DOMAIN oldest.ids : oldest.ids[i] = r

Consume ==
    /\ pc = "consume"
    /\ path = "device" => CopyDone(oldest.slot)
    /\ LET got == {r \in Range(oldest.ids) : Live(r) /\ RowOf(r) \in DOMAIN Output}
           full == {r \in got : Len(toks[r]) + 1 - PromptLen[r] >= MaxTokens[r]}
       IN  \E stopped \in SUBSET got :
              /\ full \subseteq stopped
              /\ toks' = [r \in Req |-> IF r \in got THEN Append(toks[r], Output[RowOf(r)])
                                        ELSE toks[r]]
              /\ placeholders' = [r \in Req |-> IF Async /\ r \in got THEN placeholders[r] - 1
                                                ELSE placeholders[r]]
              /\ running' = Keep(running, Req \ stopped)
              /\ waiting' = Keep(waiting, Req \ stopped)
              /\ held' = [r \in Req |-> IF r \in stopped THEN << >> ELSE held[r]]
              /\ finished_req_ids' = finished_req_ids \cup stopped
    /\ pool' = IF Async THEN [pool EXCEPT ![oldest.slot].in_use = FALSE] ELSE pool
    /\ batch_queue' = Tail(batch_queue)
    /\ pc' = IF so.defer THEN "sample" ELSE "idle"
    /\ UNCHANGED <<path, computed, admissions, bound, so, runner, device>>

----------------------------------------------------------------------------
Rest ==
    /\ pc = "idle" /\ running = << >> /\ waiting = << >> /\ finished_req_ids = {}
    /\ batch_queue = << >> /\ main_q = << >> /\ copy_q = << >>
    /\ UNCHANGED vars

Next ==
    \/ \E k \in 0 .. Len(running), j \in 0 .. Len(waiting),
           start \in [Req -> {0, PrefixHit}] : Schedule(k, j, start)
    \/ Drain
    \/ \E r \in Req : Abort(r)
    \/ ExecuteModel \/ Sample \/ Consume
    \/ DeviceStep \/ CopyStep
    \/ Rest

Spec == Init /\ [][Next]_vars

----------------------------------------------------------------------------
(* Properties *)

TypeInv ==
    /\ path \in Paths
    /\ pc \in {"idle", "execute", "sample", "consume"}
    /\ placeholders \in [Req -> Nat] /\ computed \in [Req -> Nat]
    /\ ib.index \in [Req -> 0 .. MaxNumReqs]
    /\ ib.removed = {}
    /\ slot_of \in [Req -> 0 .. MaxNumReqs]
    /\ free_slots \in Seq(Slots)
    /\ exec.discard \subseteq DOMAIN exec.ids
    /\ Len(batch_queue) <= MaxQueue

(* The batch is dense and holds exactly what the step schedules: every     *)
(* scheduled request has one row, at the slot its index names, and the     *)
(* scheduler finds it in the output.                                       *)
BatchMirrorsSchedule ==
    /\ Len(ib.req_ids) = num_reqs(ib)
    /\ \A r \in InBatch(ib) : ib.req_ids[ib.index[r]] = r
    /\ pc = "sample" /\ ~so.defer => Range(exec.ids) = DOMAIN so.n

(* The cached sampling metadata is never stale: as long as it is not       *)
(* marked dirty it has the parameters of the request in each row, and the  *)
(* penalties' output is behind the row's by the token just sampled at most.*)
MetadataFresh ==
    ~ib.dirty => /\ Len(ib.md) = Len(ib.req_ids)
                 /\ \A s \in DOMAIN ib.md :
                      /\ ib.md[s].params = ib.req_ids[s]
                      /\ no_penalties(ib) \/ Len(ib.out[s]) - Len(ib.md[s].out) \in {0, 1}

(* The scheduler and the runner agree on which rows sample: the tokens in  *)
(* flight for a request are its placeholders.                              *)
PlaceholdersMatchRows ==
    Async /\ pc \in {"idle", "execute"} =>
        \A r \in Req : Live(r) =>
            LET n == Cardinality({f \in DOMAIN batch_queue :
                        \E i \in DOMAIN batch_queue[f].ids \ batch_queue[f].discard :
                            batch_queue[f].ids[i] = r})
            IN  placeholders[r] = n + IF pc = "execute" /\ r \in DOMAIN so.n
                                         /\ computed[r] >= Len(toks[r]) + n
                                      THEN 1 ELSE 0

(* Scheduler, batch and sampler see the same requests in the same rows.    *)
BatchExact == BatchMirrorsSchedule /\ MetadataFresh /\ PlaceholdersMatchRows

(* Each row is fed the tokens of its own request at the positions          *)
(* scheduled: through hole filling, condense and reorder, through the      *)
(* splice of a token the host has not seen, and after a resumption.        *)
InputsAreOwn ==
    \A i \in DOMAIN fed : \A k \in DOMAIN fed[i].toks :
        fed[i].toks[k] = <<fed[i].req, fed[i].start + k>>

(* Where the host waits for the sampled tokens it is so.                   *)
HostInputsAreOwn == path # "device" => InputsAreOwn

(* Each row reads its own memory: its block table row is what the          *)
(* scheduler allocated, and its recurrent state is its own, after exactly  *)
(* the tokens computed so far.                                             *)
RowsReadOwnMemory ==
    \A i \in DOMAIN fed :
        /\ fed[i].blocks = fed[i].own
        /\ PrefixHit = 0 /\ fed[i].start > 0 => fed[i].state = <<fed[i].req, fed[i].start>>

(* No state slot is lost or shared: every slot is free once or has one     *)
(* owner.                                                                  *)
StateSlotsExact ==
    LET used == {r \in Req : slot_of[r] # 0}
    IN  /\ IsInjective(free_slots)
        /\ Range(free_slots) \cup {slot_of[r] : r \in used} = Slots
        /\ Len(free_slots) + Cardinality(used) = MaxNumReqs

(* What a row reads is its own: tokens in, paged and recurrent memory.     *)
RowsAreOwn == HostInputsAreOwn /\ RowsReadOwnMemory /\ StateSlotsExact

(* The tokens a request receives are its own, in order, none lost, none    *)
(* twice and none of a prefill chunk, whatever the device has still to do  *)
(* when the host asks and however output slots are reused.                 *)
StreamsAreOwn ==
    \A r \in Req : \A p \in DOMAIN toks[r] : toks[r][p] = <<r, p>>
==============================================================================
