----------------------------- MODULE EngineClient -----------------------------
(***************************************************************************)
(* The asynchronous front end of the engine: AsyncLLM, OutputProcessor and *)
(* RequestOutputCollector, and behind them InprocClient and EngineCoreProc *)
(* (src/vllm/v1/engine/).  Its threads are                                 *)
(*                                                                         *)
(*   one consumer per call of add_request, reading its collector           *)
(*   any number of threads that abort a request by its id                  *)
(*   the engine thread, EngineCoreProc::run_busy_loop                      *)
(*   the output handler, AsyncLLM::RunOutputHandler                        *)
(*   the closer, the thread that won the right to shut down                *)
(*                                                                         *)
(* and what they share is two queues, a few atomic flags and the request   *)
(* table behind output_processor_mutex_.  An action is what a thread does  *)
(* under one hold of that mutex, or between two accesses to the rest.      *)
(*                                                                         *)
(* The scheduler is reduced to what its steps put out: Scheduler is its    *)
(* model, and ComesToRest there is the fairness taken here.                *)
(***************************************************************************)
EXTENDS Naturals, Sequences

CONSTANTS Call,           \* calls of add_request, each with its own collector
          Id,             \* request ids
          None,           \* no call
          IdOf,           \* call -> the id it submits under
          KindOf,         \* call -> RequestOutputKind
          HasStop,        \* the calls with stop strings
          StreamInterval, \* stream_interval
          AbortMode,      \* shutdown_timeout_s = 0: shutdown aborts, else drains
          MaxTokens,      \* bound of the model: call -> tokens it is given at most
          MayCrash,       \* whether a step of the engine may throw
          MayShutdown,    \* whether shutdown may be called
          ReuseAborted    \* whether callers reuse an id the core did not finish

ASSUME EngineClientAssumption ==
    /\ None \notin Call
    /\ IdOf \in [Call -> Id]
    /\ KindOf \in [Call -> {"delta", "cumulative", "final_only"}]
    /\ HasStop \subseteq Call
    /\ StreamInterval \in Nat \ {0}
    /\ MaxTokens \in [Call -> Nat \ {0}]
    /\ {AbortMode, MayCrash, MayShutdown, ReuseAborted} \subseteq BOOLEAN

VARIABLES
    client,         \* call -> how far it is
    received,       \* call -> the tokens its consumer has
    collector,      \* call -> its RequestOutputCollector
    request_states, \* id -> the call registered under it, or None
    output_tokens,  \* call -> its detokenizer's output tokens
    sent,           \* call -> sent_tokens_offset
    ending,         \* call -> what ended its RequestState
    unsent,         \* calls whose aborting thread has still to tell the core
    handler,        \* where the output handler is
    reqs_to_abort,  \* ids the output handler is about to abort
    closer,         \* where the closer is
    swept,          \* ids the closer is about to abort
    errored,        \* AsyncLLM::errored_
    engine_dead,    \* InprocClient::engine_dead_
    input_queue,    \* EngineCoreProc::input_queue
    output_queue,   \* EngineCoreProc::output_queue
    shutdown_state, \* EngineCoreProc::shutdown_state
    engine,         \* where the engine thread is
    core,           \* id -> the call whose request the scheduler holds, or None
    emitted,        \* call -> how many tokens the scheduler has put out for it
    finished_req_ids \* whether requests finished since the last schedule()

table == <<request_states, output_tokens, sent, ending, collector>>
consumers == <<client, received>>
handling == <<handler, reqs_to_abort>>
closing == <<closer, swept>>
threads == <<unsent, handling, closing>>
flags == <<errored, engine_dead>>
queues == <<input_queue, output_queue>>
inner == <<engine, core, emitted, finished_req_ids, shutdown_state>>
vars == <<table, consumers, threads, flags, queues, inner>>

EmptyCollector == [full |-> FALSE, tokens |-> << >>, finished |-> FALSE, error |-> FALSE]

Init ==
    /\ client = [c \in Call |-> "new"]
    /\ received = [c \in Call |-> << >>]
    /\ collector = [c \in Call |-> EmptyCollector]
    /\ request_states = [i \in Id |-> None]
    /\ output_tokens = [c \in Call |-> << >>]
    /\ sent = [c \in Call |-> 0]
    /\ ending = [c \in Call |-> "none"]
    /\ unsent = {} /\ handler = "get" /\ reqs_to_abort = {}
    /\ closer = "none" /\ swept = {}
    /\ errored = FALSE /\ engine_dead = FALSE
    /\ input_queue = << >> /\ output_queue = << >>
    /\ shutdown_state = "running" /\ engine = "top"
    /\ core = [i \in Id |-> None]
    /\ emitted = [c \in Call |-> 0]
    /\ finished_req_ids = FALSE

shutdown_started == closer # "none"
stopping == closer \notin {"none", "started"}

----------------------------------------------------------------------------
(* RequestOutputCollector and RequestState.  An update u of a registered   *)
(* call is [tokens, end]: new tokens, and what ends it, or "none".         *)

Grown(c, u) == output_tokens[c] \o u.tokens

(* make_request_output holds an output back: in final_only mode until the  *)
(* end, and until stream_interval tokens have come since the last one.     *)
MakesOutput(c, u) ==
    \/ u.end # "none"
    \/ /\ KindOf[c] # "final_only"
       /\ \/ StreamInterval = 1
          \/ sent[c] = 0
          \/ Len(Grown(c, u)) - sent[c] >= StreamInterval

(* Mutant: a delta is the tokens just come, without those held back. *)
OutputOf_NewOnly(c, u) == IF KindOf[c] # "delta" THEN Grown(c, u) ELSE u.tokens

(* What it then holds: everything so far, or what a delta still owes. *)
OutputOf(c, u) ==
    IF KindOf[c] # "delta" THEN Grown(c, u)
    ELSE IF StreamInterval = 1 THEN u.tokens
    ELSE SubSeq(Grown(c, u), sent[c] + 1, Len(Grown(c, u)))

(* Mutant: an output not yet taken is lost to the next. *)
put_Replaces(slot, tokens, finished, aggregate) ==
    [slot EXCEPT !.full = TRUE, !.tokens = tokens, !.finished = finished]

(* A collector is a slot for one output.  One that is put on top of one    *)
(* not yet taken is merged with it: deltas are appended, anything else     *)
(* replaces it, and finished stays.                                        *)
put(slot, tokens, finished, aggregate) ==
    [slot EXCEPT !.full = TRUE,
                 !.tokens = IF slot.full /\ aggregate THEN @ \o tokens ELSE tokens,
                 !.finished = @ \/ finished]

(* Give every call in the domain of updates its update; drop the           *)
(* RequestState of those that end.                                         *)
Deliver(updates) ==
    LET Outputs == {c \in DOMAIN updates : MakesOutput(c, updates[c])} IN
    /\ output_tokens' = [c \in Call |-> IF c \in DOMAIN updates THEN Grown(c, updates[c])
                                                               ELSE output_tokens[c]]
    /\ collector' = [c \in Call |->
           IF c \in Outputs
           THEN put(collector[c], OutputOf(c, updates[c]), updates[c].end # "none",
                    KindOf[c] = "delta")
           ELSE collector[c]]
    /\ sent' = [c \in Call |->
           IF c \in Outputs /\ KindOf[c] = "delta" /\ StreamInterval > 1
           THEN Len(Grown(c, updates[c]))
           ELSE sent[c]]
    /\ ending' = [c \in Call |-> IF c \in DOMAIN updates THEN updates[c].end ELSE ending[c]]
    /\ request_states' = [i \in Id |->
           IF request_states[i] \in DOMAIN updates /\ updates[request_states[i]].end # "none"
           THEN None ELSE request_states[i]]

Registered(ids) == {request_states[i] : i \in ids} \ {None}

(* OutputProcessor::abort_requests, each with its terminal output. *)
abort_requests(ids) == Deliver([c \in Registered(ids) |-> [tokens |-> << >>, end |-> "abort"]])

----------------------------------------------------------------------------
(* Callers and consumers.                                                  *)

Add(c)     == [type |-> "ADD", call |-> c, ids |-> {}]
AbortMsg(ids) == [type |-> "ABORT", call |-> None, ids |-> ids]
Wakeup     == [type |-> "WAKEUP", call |-> None, ids |-> {}]
(* InprocClient::abort_requests_async *)
abort_requests_async(ids) ==
    input_queue' = IF ids = {} \/ engine_dead THEN input_queue
                                              ELSE Append(input_queue, AbortMsg(ids))

Stopped == shutdown_started \/ errored \/ engine_dead

(* The check at the top of add_request, outside the lock; the prompt is    *)
(* processed between it and the rest.                                      *)
CheckRunning(c) ==
    /\ client[c] = "new"
    /\ client' = [client EXCEPT ![c] = IF Stopped THEN "refused" ELSE "checked"]
    /\ UNCHANGED <<received, table, threads, flags, queues, inner>>

(* How callers use ids: one whose request an abort or a stop string ended  *)
(* is not used again, unless ReuseAborted.  The callers in the repository  *)
(* never use one twice.                                                    *)
MayUse(c) ==
    ReuseAborted \/ \A d \in Call : IdOf[d] = IdOf[c] => ending[d] \in {"none", "core"}

(* The rest of add_request, under the lock: it throws, *)
AddRequestThrows(c) ==
    /\ client[c] = "checked"
    /\ MayUse(c)
    /\ Stopped \/ request_states[IdOf[c]] # None
    /\ client' = [client EXCEPT ![c] = IF Stopped THEN "refused" ELSE "duplicate"]
    /\ UNCHANGED <<received, table, threads, flags, queues, inner>>

(* or registers the request and puts it into the engine's queue. *)
Register(c) ==
    /\ client[c] = "checked"
    /\ MayUse(c)
    /\ client' = [client EXCEPT ![c] = "waiting"]
    /\ request_states' = [request_states EXCEPT ![IdOf[c]] = c]
    /\ input_queue' = Append(input_queue, Add(c))
    /\ UNCHANGED <<output_tokens, sent, ending, collector, received, threads, flags, output_queue,
                   inner>>

(* Mutant: shutdown is checked for before the lock only. *)
AddRequest_CheckedOnce(c) == Register(c) /\ request_states[IdOf[c]] = None
(* Mutant: an id in use is not looked for. *)
AddRequest_AnyId(c) == Register(c) /\ ~Stopped

AddRequest(c) == Register(c) /\ ~Stopped /\ request_states[IdOf[c]] = None

(* get and get_nowait: an error first, else the output. *)
GetOutput(c) ==
    /\ client[c] = "waiting"
    /\ IF collector[c].error
       THEN /\ collector' = [collector EXCEPT ![c].error = FALSE]
            /\ client' = [client EXCEPT ![c] = "caught"]
            /\ UNCHANGED received
       ELSE /\ collector[c].full
            /\ received' = [received EXCEPT ![c] =
                   IF KindOf[c] = "delta" THEN @ \o collector[c].tokens ELSE collector[c].tokens]
            /\ client' = [client EXCEPT ![c] = IF collector[c].finished THEN "finished" ELSE @]
            /\ collector' = [collector EXCEPT ![c] = EmptyCollector]
    /\ UNCHANGED <<request_states, output_tokens, sent, ending, threads, flags, queues, inner>>

(* AsyncLLM::abort, first half, under the lock. *)
AbortRequest(i) ==
    /\ request_states[i] # None
    /\ abort_requests({i})
    /\ unsent' = unsent \union Registered({i})
    /\ UNCHANGED <<consumers, handling, closing, flags, queues, inner>>

(* Second half, without it. *)
SendAbort(c) ==
    /\ c \in unsent
    /\ unsent' = unsent \ {c}
    /\ abort_requests_async({IdOf[c]})
    /\ UNCHANGED <<table, consumers, handling, closing, flags, output_queue, inner>>

(* A consumer that got an error aborts its id and passes the error on. *)
AbortAfterError(c) ==
    /\ client[c] = "caught"
    /\ client' = [client EXCEPT ![c] = "failed"]
    /\ abort_requests({IdOf[c]})
    /\ unsent' = unsent \union Registered({IdOf[c]})
    /\ UNCHANGED <<received, handling, closing, flags, queues, inner>>

----------------------------------------------------------------------------
(* AsyncLLM::RunOutputHandler.                                             *)

(* Pull a frame and run process_outputs on it under the lock: output for   *)
(* an id that is not registered is dropped, and the detokenizer may find a *)
(* stop string in what an id of stops was given.                           *)
process_outputs(outputs, stops) ==
    Deliver([c \in Registered(DOMAIN outputs) |->
        LET o == outputs[IdOf[c]] IN
        [tokens |-> o.tokens,
         end |-> IF o.finished THEN "core" ELSE IF IdOf[c] \in stops THEN "stop" ELSE "none"]])

MayFindStop(outputs) ==
    {i \in DOMAIN outputs : request_states[i] \in HasStop /\ outputs[i].tokens # << >>}

(* Mutant: an abort is sent for what the core has finished, too. *)
ToAbort_Finished(outputs, stops) == stops \union {i \in DOMAIN outputs : outputs[i].finished}

ToAbort(outputs, stops) == {i \in stops : ~outputs[i].finished}

HandleOutputs ==
    /\ handler = "get" /\ output_queue # << >>
    /\ Head(output_queue).type = "OUTPUTS"
    /\ LET outputs == Head(output_queue).outputs IN
       \E stops \in SUBSET MayFindStop(outputs) :
          /\ process_outputs(outputs, stops)
          /\ reqs_to_abort' = ToAbort(outputs, stops)
    /\ output_queue' = Tail(output_queue)
    /\ handler' = IF reqs_to_abort' = {} THEN "get" ELSE "aborting"
    /\ UNCHANGED <<consumers, unsent, closing, flags, input_queue, inner>>

AbortStopped ==
    /\ handler = "aborting"
    /\ abort_requests_async(reqs_to_abort)
    /\ reqs_to_abort' = {} /\ handler' = "get"
    /\ UNCHANGED <<table, consumers, unsent, closing, flags, output_queue, inner>>

(* get_output meets the sentinel: the engine is dead, and it throws. *)
HandleEngineDead ==
    /\ handler = "get" /\ output_queue # << >>
    /\ Head(output_queue).type = "DEAD"
    /\ output_queue' = Tail(output_queue)
    /\ engine_dead' = TRUE /\ handler' = "caught"
    /\ UNCHANGED <<table, consumers, unsent, reqs_to_abort, closing, errored, input_queue, inner>>

(* Mutant: the errors are not handed on. *)
HandlerFails_Quietly ==
    /\ handler = "caught" /\ handler' = "ended"
    /\ errored' = ~stopping
    /\ UNCHANGED <<table, consumers, unsent, reqs_to_abort, closing, engine_dead, queues, inner>>

(* Its catch clause.  errored_ is set before the lock is taken. *)
HandlerFails ==
    /\ handler = "caught"
    /\ IF stopping THEN handler' = "ended" /\ UNCHANGED errored
                   ELSE handler' = "propagating" /\ errored' = TRUE
    /\ UNCHANGED <<table, consumers, unsent, reqs_to_abort, closing, engine_dead, queues, inner>>

(* put_error on every registered collector, whatever it holds. *)
PropagateError ==
    /\ handler = "propagating"
    /\ handler' = "ended"
    /\ collector' = [c \in Call |->
           IF c \in Registered(Id) THEN [EmptyCollector EXCEPT !.error = TRUE] ELSE collector[c]]
    /\ UNCHANGED <<request_states, output_tokens, sent, ending, consumers, unsent, reqs_to_abort,
                   closing, flags, queues, inner>>

----------------------------------------------------------------------------
(* AsyncLLM::shutdown, by the one thread that sets shutdown_started_, and  *)
(* InprocClient::shutdown, which it calls.                                 *)

Shutdown ==
    /\ MayShutdown /\ closer = "none" /\ closer' = "started"
    /\ UNCHANGED <<table, consumers, unsent, handling, swept, flags, queues, inner>>

SetStopping ==
    /\ closer = "started" /\ closer' = "stopping"
    /\ UNCHANGED <<table, consumers, unsent, handling, swept, flags, queues, inner>>

(* abort_all_requests, under the lock. *)
AbortAll ==
    /\ closer = "stopping" /\ closer' = "sweeping"
    /\ abort_requests(Id)
    /\ swept' = {i \in Id : request_states[i] # None}
    /\ UNCHANGED <<consumers, unsent, handling, flags, queues, inner>>

(* Mutant: what shutdown aborted is not aborted in the core. *)
SendSwept_Forgets ==
    /\ closer = "sweeping" /\ closer' = "requesting"
    /\ swept' = {}
    /\ UNCHANGED <<table, consumers, unsent, handling, flags, queues, inner>>

SendSwept ==
    /\ closer = "sweeping" /\ closer' = "requesting"
    /\ abort_requests_async(swept)
    /\ swept' = {}
    /\ UNCHANGED <<table, consumers, unsent, handling, flags, output_queue, inner>>

RequestShutdown ==
    /\ closer = "requesting" /\ closer' = "waking"
    /\ shutdown_state' = "requested"
    /\ UNCHANGED <<table, consumers, unsent, handling, swept, flags, queues, engine, core, emitted,
                   finished_req_ids>>

(* Mutant: an idle engine is not woken. *)
WakeEngine_Not ==
    /\ closer = "waking" /\ closer' = "joining"
    /\ UNCHANGED <<table, consumers, unsent, handling, swept, flags, queues, inner>>

WakeEngine ==
    /\ closer = "waking" /\ closer' = "joining"
    /\ input_queue' = Append(input_queue, Wakeup)
    /\ UNCHANGED <<table, consumers, unsent, handling, swept, flags, output_queue, inner>>

EngineDead == [type |-> "DEAD", outputs |-> << >>]

(* Join the engine thread, then wake the output handler with the sentinel. *)
JoinEngine ==
    /\ closer = "joining" /\ engine \in {"exited", "dead"}
    /\ closer' = "closing"
    /\ output_queue' = Append(output_queue, EngineDead)
    /\ UNCHANGED <<table, consumers, unsent, handling, swept, flags, input_queue, inner>>

JoinHandler ==
    /\ closer = "closing" /\ handler = "ended"
    /\ closer' = "closed"
    /\ UNCHANGED <<table, consumers, unsent, handling, swept, flags, queues, inner>>

----------------------------------------------------------------------------
(* EngineCoreProc::run_busy_loop: shutdown, input, step.                   *)

outside == <<table, consumers, threads, flags>>

Live     == {core[i] : i \in Id} \ {None}
has_work == Live # {} \/ finished_req_ids

Output(c, tokens, finished) == [call |-> c, tokens |-> tokens, finished |-> finished]
PutOutputs(outputs) ==
    output_queue' = IF DOMAIN outputs = {} THEN output_queue
                    ELSE Append(output_queue, [type |-> "OUTPUTS", outputs |-> outputs])
(* send_finish_outputs *)
AbortOutputs(calls) ==
    PutOutputs([i \in {IdOf[c] : c \in calls} |->
                   Output(CHOOSE c \in calls : IdOf[c] = i, << >>, TRUE)])

handle_shutdown ==
    /\ engine = "top"
    /\ IF shutdown_state = "requested"
       THEN /\ shutdown_state' = "shutting_down"
            /\ IF AbortMode
               THEN /\ core' = [i \in Id |-> None]
                    /\ finished_req_ids' = (finished_req_ids \/ Live # {})
                    /\ AbortOutputs(Live)
               ELSE UNCHANGED <<core, finished_req_ids, output_queue>>
       ELSE UNCHANGED <<shutdown_state, core, finished_req_ids, output_queue>>
    /\ engine' = IF shutdown_state = "running" \/ has_work' THEN "polling" ELSE "exited"
    /\ UNCHANGED <<outside, input_queue, emitted>>

(* process_input_queue.  Without work, and not shutting down, it waits for *)
(* the queue; then it takes what there is.                                 *)
PollInput ==
    /\ engine = "polling"
    /\ engine' = IF ~has_work /\ shutdown_state = "running" THEN "waiting" ELSE "draining"
    /\ UNCHANGED <<outside, queues, core, emitted, finished_req_ids, shutdown_state>>

Taking(type) ==
    /\ engine \in {"waiting", "draining"}
    /\ input_queue # << >> /\ Head(input_queue).type = type
    /\ input_queue' = Tail(input_queue)
    /\ engine' = IF engine = "waiting" THEN "polling" ELSE engine
    /\ UNCHANGED <<outside, emitted, shutdown_state>>

HandleAdd ==
    LET c == Head(input_queue).call IN
    /\ Taking("ADD")
    /\ IF shutdown_state = "running"
       THEN core' = [core EXCEPT ![IdOf[c]] = c] /\ UNCHANGED output_queue
       ELSE AbortOutputs({c}) /\ UNCHANGED core
    /\ UNCHANGED finished_req_ids

HandleAbort ==
    LET ids == Head(input_queue).ids IN
    /\ Taking("ABORT")
    /\ core' = [i \in Id |-> IF i \in ids THEN None ELSE core[i]]
    /\ finished_req_ids' = (finished_req_ids \/ \E i \in ids : core[i] # None)
    /\ UNCHANGED output_queue

HandleWakeup ==
    /\ Taking("WAKEUP")
    /\ UNCHANGED <<core, finished_req_ids, output_queue>>

EndInput ==
    /\ engine = "draining" /\ input_queue = << >>
    /\ engine' = "stepping"
    /\ UNCHANGED <<outside, queues, core, emitted, finished_req_ids, shutdown_state>>

(* Mutant: the last token is one late. *)
ProcessStep_OffByOne(given, finishing) ==
    /\ engine = "stepping" /\ engine' = "top"
    /\ {c \in given : emitted[c] = MaxTokens[c]} \subseteq finishing
    /\ PutOutputs([i \in {IdOf[c] : c \in given} |->
           Output(core[i], <<<<core[i], emitted[core[i]] + 1>>>>, core[i] \in finishing)])
    /\ emitted' = [c \in Call |-> IF c \in given THEN emitted[c] + 1 ELSE emitted[c]]
    /\ core' = [i \in Id |-> IF core[i] \in finishing THEN None ELSE core[i]]
    /\ finished_req_ids' = (finishing # {})
    /\ UNCHANGED <<outside, input_queue, shutdown_state>>

(* A step gives some requests a token each, of which some finish: those    *)
(* that have MaxTokens, for one.                                           *)
ProcessStep(given, finishing) ==
    /\ engine = "stepping" /\ engine' = "top"
    /\ {c \in given : emitted[c] + 1 = MaxTokens[c]} \subseteq finishing
    /\ PutOutputs([i \in {IdOf[c] : c \in given} |->
           Output(core[i], <<<<core[i], emitted[core[i]] + 1>>>>, core[i] \in finishing)])
    /\ emitted' = [c \in Call |-> IF c \in given THEN emitted[c] + 1 ELSE emitted[c]]
    /\ core' = [i \in Id |-> IF core[i] \in finishing THEN None ELSE core[i]]
    /\ finished_req_ids' = (finishing # {})
    /\ UNCHANGED <<outside, input_queue, shutdown_state>>

process_engine_step == \E given \in SUBSET Live : \E finishing \in SUBSET given :
                           ProcessStep(given, finishing)

(* Mutant: the engine dies without a word. *)
EngineThrows_Silent ==
    /\ MayCrash /\ engine = "stepping" /\ has_work
    /\ engine' = "dead"
    /\ UNCHANGED <<outside, queues, core, emitted, finished_req_ids, shutdown_state>>

(* The guard of the engine thread: the sentinel, and the thread ends. *)
EngineThrows ==
    /\ MayCrash /\ engine = "stepping" /\ has_work
    /\ engine' = "dead"
    /\ output_queue' = Append(output_queue, EngineDead)
    /\ UNCHANGED <<outside, input_queue, core, emitted, finished_req_ids, shutdown_state>>

----------------------------------------------------------------------------
EngineThread == \/ handle_shutdown \/ PollInput \/ HandleAdd \/ HandleAbort \/ HandleWakeup
                \/ EndInput \/ process_engine_step

OutputHandler == HandleOutputs \/ AbortStopped \/ HandleEngineDead \/ HandlerFails
                 \/ PropagateError

Closer == SetStopping \/ AbortAll \/ SendSwept \/ RequestShutdown \/ WakeEngine \/ JoinEngine
          \/ JoinHandler

Consumer(c) == GetOutput(c) \/ AbortAfterError(c)

Next ==
    \/ \E c \in Call : CheckRunning(c) \/ AddRequestThrows(c) \/ AddRequest(c)
                     \/ Consumer(c) \/ SendAbort(c)
    \/ \E i \in Id : AbortRequest(i)
    \/ Shutdown \/ Closer
    \/ OutputHandler
    \/ EngineThread \/ EngineThrows

(* Every thread goes on while it can, and so does a consumer that has      *)
(* called and an abort that has begun.  Nobody has to call, to abort, to   *)
(* shut down, and a step need not throw.  The last conjunct is what the    *)
(* scheduler promises: no request goes without tokens for ever.            *)
Fairness ==
    /\ WF_vars(EngineThread) /\ WF_vars(OutputHandler) /\ WF_vars(Closer)
    /\ \A c \in Call : WF_vars(Consumer(c)) /\ WF_vars(SendAbort(c))
    /\ \A c \in Call : SF_vars(\E given \in SUBSET Live : \E finishing \in SUBSET given :
                                   c \in given /\ ProcessStep(given, finishing))

Spec == Init /\ [][Next]_vars
FairSpec == Spec /\ Fairness

----------------------------------------------------------------------------
(* Properties.                                                             *)

Own(c, n) == [k \in 1 .. n |-> <<c, k>>]
Message == [type : {"ADD", "ABORT", "WAKEUP"}, call : Call \union {None}, ids : SUBSET Id]

(* Type invariant of the front end, its threads and the core process.      *)
TypeInv ==
    /\ client \in [Call -> {"new", "checked", "refused", "duplicate", "waiting", "caught",
                            "finished", "failed"}]
    /\ \A c \in Call : received[c] \in Seq(Call \X Nat)
    /\ \A c \in Call : output_tokens[c] \in Seq(Call \X Nat)
    /\ \A c \in Call : sent[c] \in 0 .. Len(output_tokens[c])
    /\ request_states \in [Id -> Call \union {None}]
    /\ core \in [Id -> Call \union {None}]
    /\ \A i \in Id : {request_states[i], core[i]} \subseteq {c \in Call : IdOf[c] = i} \union {None}
    /\ ending \in [Call -> {"none", "core", "stop", "abort"}]
    /\ \A c \in Call : emitted[c] \in 0 .. MaxTokens[c]
    /\ input_queue \in Seq(Message)
    /\ unsent \subseteq Call /\ reqs_to_abort \subseteq Id /\ swept \subseteq Id
    /\ handler \in {"get", "aborting", "caught", "propagating", "ended"}
    /\ closer \in {"none", "started", "stopping", "sweeping", "requesting", "waking", "joining",
                   "closing", "closed"}
    /\ engine \in {"top", "polling", "waiting", "draining", "stepping", "exited", "dead"}
    /\ shutdown_state \in {"running", "requested", "shutting_down"}

(* A consumer that has seen the end of its stream has every token that was *)
(* detokenized for it, once each, whatever was merged in its collector,    *)
(* held back for stream_interval or still owed when it was aborted; and if *)
(* the scheduler ended the request, every token the scheduler made.        *)
(* Nothing is left in or put into its collector.                           *)
FinishedIsComplete ==
    \A c \in Call : client[c] = "finished" =>
        /\ received[c] = output_tokens[c]
        /\ ending[c] = "core" => received[c] = Own(c, emitted[c])
        /\ collector[c] = EmptyCollector

InFlight(c) == \E k \in 1 .. Len(input_queue) : input_queue[k] = Add(c)
EndsInQueue(c) ==
    \E k \in 1 .. Len(output_queue) :
        LET outputs == output_queue[k].outputs IN
        IdOf[c] \in DOMAIN outputs /\ outputs[IdOf[c]].call = c /\ outputs[IdOf[c]].finished

(* While the engine runs, a registered request is on its way to the        *)
(* scheduler, or the scheduler has it, or its last frame is on its way     *)
(* back: no request is registered that nobody works on, and no abort meant *)
(* for another one takes it out of the scheduler.  When the engine has     *)
(* died, the output handler has been told or is about to be.               *)
RegisteredIsServed ==
    \A i \in Id : LET c == request_states[i] IN c # None =>
        IF engine # "dead" THEN InFlight(c) \/ core[i] = c \/ EndsInQueue(c)
        ELSE handler \in {"get", "aborting"} =>
                 \E k \in 1 .. Len(output_queue) : output_queue[k] = EngineDead

AbortComing(i, from) ==
    \/ \E c \in unsent : IdOf[c] = i
    \/ i \in reqs_to_abort \union swept
    \/ \E k \in from .. Len(input_queue) : input_queue[k].type = "ABORT" /\ i \in input_queue[k].ids

(* While the engine runs, a request that is in the scheduler or on its way *)
(* there is registered, or an abort of it is coming behind it: no request  *)
(* takes up the scheduler with nobody to read its tokens.                  *)
OrphansAreAborted ==
    engine \notin {"dead", "exited"} =>
        /\ \A i \in Id : core[i] # None => request_states[i] = core[i] \/ AbortComing(i, 1)
        /\ \A k \in 1 .. Len(input_queue) : LET c == input_queue[k].call IN
               c # None => request_states[IdOf[c]] = c \/ AbortComing(IdOf[c], k)

(* A request lives in the front end and in the scheduler together, but for *)
(* what is on its way between them.                                        *)
RequestsHaveBothEnds == RegisteredIsServed /\ OrphansAreAborted

(* Once shutdown has aborted all that is registered, nothing is registered *)
(* again, although add_request's first check may have passed before.       *)
NoneAfterSweep ==
    closer \notin {"none", "started", "stopping"} => \A i \in Id : request_states[i] = None

(* When the output handler has ended, whether by the death of the engine   *)
(* or by shutdown, every consumer that still waits has an error or its end *)
(* in its collector: there is nobody left to put one there.                *)
NobodyLeftWaiting ==
    handler = "ended" /\ (errored \/ closer \notin {"started", "stopping"}) =>
        \A c \in Call : client[c] = "waiting" => collector[c].error \/ collector[c].finished

(* Nobody is left behind by shutdown or an engine's death: nobody comes to *)
(* be registered after the sweep, nobody waits for who has gone.           *)
NobodyLeftBehind == NoneAfterSweep /\ NobodyLeftWaiting

(* The scheduler is never given a request under the id of one it has: its  *)
(* map would destroy the one its queues still point to.                    *)
OneRequestPerId ==
    [][\A i \in Id : core[i] # None => core'[i] \in {core[i], None}]_vars

(* A shutdown that has begun comes to its end, whatever the engine, the    *)
(* handler and the callers are doing.                                      *)
ShutdownCompletes == closer = "started" ~> closer = "closed"

(* The front end implements RequestStream.                                 *)
Phase ==
    [c \in Call |->
        CASE client[c] \in {"new", "checked"}        -> "new"
          [] client[c] \in {"refused", "duplicate"}  -> "refused"
          [] client[c] = "waiting"                   -> "open"
          [] client[c] = "finished"                  -> "ended"
          [] client[c] \in {"caught", "failed"}      -> "failed"]
Streams == INSTANCE RequestStream WITH phase <- Phase

(* Every consumer gets its own request's tokens, in order, from the first, *)
(* and is released in the end: by a last output or an error, if the        *)
(* request finishes, is aborted, or the engine dies or is shut down.       *)
ImplementsStreams == Streams!Spec
=============================================================================
