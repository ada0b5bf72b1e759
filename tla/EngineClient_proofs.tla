------------------------- MODULE EngineClient_proofs -------------------------
(***************************************************************************)
(* Proofs about EngineClient, for any calls, ids, kinds of output, stop    *)
(* strings and stream intervals.                                           *)
(*                                                                         *)
(* First, that nothing is registered behind shutdown's back and nobody is  *)
(* left waiting when the output handler has ended.  What carries it, IInv, *)
(* is that a waiting consumer is registered, so that the sweep or the      *)
(* error will find it, or has what releases it in its collector already.   *)
(*                                                                         *)
(* Then, for callers that do not use an aborted id again, the streams: who *)
(* has seen the end has everything, what is registered is served and what  *)
(* is scheduled is wanted, no id is scheduled twice, and every step is one *)
(* of RequestStream or a stutter.  What carries it, Streaming, follows a   *)
(* request and its tokens through both queues.  A step of the engine takes *)
(* at most the head of the input queue and puts one frame out (Works); a   *)
(* delivery takes at most the head of the output queue (Delivers); what a  *)
(* thread sends was to be sent (Sends); the rest leaves the queues and the *)
(* table alone (AsideKeeps).  Each step is one of these.                   *)
(***************************************************************************)
EXTENDS EngineClient, SequenceTheorems, TLAPS

Fields == {"full", "tokens", "finished", "error"}
IsSlot(s) ==
    /\ DOMAIN s = Fields
    /\ s = [f \in Fields |-> s[f]]
    /\ s.finished \in BOOLEAN /\ s.error \in BOOLEAN

IsTable ==
    /\ request_states \in [Id -> Call \union {None}]
    /\ \A i \in Id : request_states[i] # None => IdOf[request_states[i]] = i
    /\ collector = [c \in Call |-> collector[c]]
    /\ \A c \in Call : IsSlot(collector[c])

Released(c) == collector[c].error \/ collector[c].finished

WaitingAreHeld ==
    \A c \in Call : client[c] = "waiting" => request_states[IdOf[c]] = c \/ Released(c)

(* The output handler ends by shutdown or with the error set by itself, *)
EndedForAReason ==
    /\ errored => handler \in {"propagating", "ended"}
    /\ handler = "propagating" => errored
    /\ handler = "ended" => errored \/ stopping

(* and in the second case the error is in the collectors. *)
ErrorIsOut ==
    handler = "ended" /\ errored => \A c \in Call : client[c] = "waiting" => Released(c)

IInv ==
    /\ client = [c \in Call |-> client[c]]
    /\ errored \in BOOLEAN
    /\ IsTable
    /\ WaitingAreHeld
    /\ NoneAfterSweep
    /\ EndedForAReason
    /\ ErrorIsOut

----------------------------------------------------------------------------
(* What delivering updates does to the table.                              *)

(* An output put into a slot leaves an error there, and an end. *)
LEMMA PutKeeps ==
    ASSUME NEW s, IsSlot(s), NEW tokens, NEW fin \in BOOLEAN, NEW agg \in BOOLEAN
    PROVE  /\ IsSlot(put(s, tokens, fin, agg))
           /\ put(s, tokens, fin, agg).error = s.error
           /\ put(s, tokens, fin, agg).finished = (s.finished \/ fin)
  <1> DEFINE p == put(s, tokens, fin, agg)
  <1>1. DOMAIN p = Fields /\ p = [f \in Fields |-> p[f]]
    BY DEF put, IsSlot, Fields
  <1>2. p.error = s.error
    BY DEF put, IsSlot, Fields
  <1>3. p.finished = (s.finished \/ fin)
    BY DEF put, IsSlot, Fields
  <1> QED BY <1>1, <1>2, <1>3 DEF IsSlot

(* So does taking the error out. *)
LEMMA ClearKeeps ==
    ASSUME NEW s, IsSlot(s)
    PROVE  IsSlot([s EXCEPT !.error = FALSE])
  <1> DEFINE p == [s EXCEPT !.error = FALSE]
  <1>1. DOMAIN p = Fields /\ p = [f \in Fields |-> p[f]]
    BY DEF IsSlot, Fields
  <1>2. p.error = FALSE
    BY DEF IsSlot, Fields
  <1>3. p.finished = s.finished
    BY DEF IsSlot, Fields
  <1> QED BY <1>1, <1>2, <1>3 DEF IsSlot

(* The table only shrinks, collectors keep what releases their consumers,  *)
(* and who drops out of the table gets an end.                             *)
Shrinks ==
    /\ \A i \in Id : request_states'[i] \in {request_states[i], None}
    /\ \A c \in Call : Released(c) => Released(c)'
    /\ \A c \in Call : request_states[IdOf[c]] = c =>
           request_states'[IdOf[c]] = c \/ Released(c)'

(* Any delivery of updates to calls, aborts and outputs alike, does so. *)
LEMMA DeliverShrinks ==
    ASSUME IsTable, NEW updates, Deliver(updates)
    PROVE  IsTable' /\ Shrinks
  <1> USE EngineClientAssumption DEF EngineClientAssumption
  <1> DEFINE Ends(c) == c \in DOMAIN updates /\ updates[c].end # "none"
  <1>1. \A i \in Id : request_states'[i] = IF Ends(request_states[i]) THEN None
                                                                   ELSE request_states[i]
    BY DEF Deliver
  <1>2. ASSUME NEW c \in Call
        PROVE  /\ IsSlot(collector'[c])
               /\ Released(c) => Released(c)'
               /\ Ends(c) => Released(c)'
    <2> DEFINE fin == updates[c].end # "none"
               gets == c \in DOMAIN updates /\ MakesOutput(c, updates[c])
               p == put(collector[c], OutputOf(c, updates[c]), fin, KindOf[c] = "delta")
    <2>1. IsSlot(collector[c])
      BY DEF IsTable
    <2>2. collector'[c] = IF gets THEN p ELSE collector[c]
      BY DEF Deliver
    <2>3. IsSlot(p) /\ p.error = collector[c].error /\ p.finished = (collector[c].finished \/ fin)
      <3> DEFINE slot == collector[c]
                 tokens == OutputOf(c, updates[c])
                 agg == KindOf[c] = "delta"
      <3>1. fin \in BOOLEAN /\ agg \in BOOLEAN /\ IsSlot(slot)
        BY <2>1
      <3>2. p = put(slot, tokens, fin, agg)
        OBVIOUS
      <3> HIDE DEF fin, slot, tokens, agg, p
      <3>3. /\ IsSlot(put(slot, tokens, fin, agg))
            /\ put(slot, tokens, fin, agg).error = slot.error
            /\ put(slot, tokens, fin, agg).finished = (slot.finished \/ fin)
        BY ONLY <3>1, PutKeeps
      <3> QED BY <3>2, <3>3 DEF slot
    <2>4. Ends(c) => gets
      BY DEF MakesOutput
    <2> HIDE DEF p, gets, fin
    <2>5. Released(c) <=> (collector[c].error \/ collector[c].finished)
      BY DEF Released
    <2>6. Released(c)' <=> (collector'[c].error \/ collector'[c].finished)
      BY DEF Released
    <2>7. Ends(c) => fin
      BY DEF fin
    <2> QED BY <2>1, <2>2, <2>3, <2>4, <2>5, <2>6, <2>7
  <1>3. collector' = [c \in Call |-> collector'[c]] /\ request_states' \in [Id -> Call \union {None}]
    BY DEF Deliver, IsTable
  <1>4. IsTable'
    BY <1>1, <1>2, <1>3 DEF IsTable
  <1>5. \A c \in Call : request_states[IdOf[c]] = c =>
            request_states'[IdOf[c]] = c \/ Released(c)'
    BY <1>1, <1>2
  <1> HIDE DEF Ends
  <1> QED BY <1>1, <1>2, <1>4, <1>5 DEF Shrinks

(* Where the table does not change it shrinks by nothing. *)
LEMMA UnchangedShrinks ==
    ASSUME IsTable, UNCHANGED table
    PROVE  IsTable' /\ Shrinks
  <1>1. UNCHANGED <<request_states, collector>>
    BY DEF table
  <1>2. IsTable'
    BY <1>1 DEF IsTable
  <1> QED BY <1>1, <1>2 DEF Shrinks, Released

----------------------------------------------------------------------------
(* Each step keeps the invariant.                                          *)

Swept == closer \notin {"none", "started", "stopping"}

(* A step that at most shrinks the table keeps the invariant, unless it    *)
(* ends the output handler, has a consumer start to wait or completes the  *)
(* sweep with something still registered.                                  *)
LEMMA ShrinkingKeeps ==
    ASSUME IInv, IsTable', Shrinks,
           client' = [c \in Call |-> client'[c]],
           \A c \in Call : client'[c] = "waiting" => client[c] = "waiting",
           UNCHANGED errored,
           stopping => stopping',
           Swept' => Swept \/ \A i \in Id : request_states'[i] = None,
           \/ UNCHANGED handler
           \/ {handler, handler'} \intersect {"propagating", "ended"} = {}
    PROVE  IInv'
  <1> USE EngineClientAssumption DEF EngineClientAssumption
  <1>1. WaitingAreHeld'
    BY DEF IInv, WaitingAreHeld, Shrinks
  <1>2. NoneAfterSweep'
    BY DEF IInv, NoneAfterSweep, Shrinks, Swept
  <1>3. EndedForAReason'
    BY DEF IInv, EndedForAReason
  <1>4. ErrorIsOut'
    BY DEF IInv, ErrorIsOut, Shrinks
  <1> QED BY <1>1, <1>2, <1>3, <1>4 DEF IInv

(* Steps that leave the table, the consumers' states and the handler alone *)
(* and do not move the closer: what is left is none of IInv's business.    *)
LEMMA OutsideKeeps ==
    ASSUME IInv, UNCHANGED <<table, client, handler, closer, errored>>
    PROVE  IInv'
  <1>1. IsTable' /\ Shrinks
    BY UnchangedShrinks DEF IInv
  <1> QED BY <1>1, ShrinkingKeeps DEF IInv, stopping, Swept

(* The invariant holds initially. *)
LEMMA InitIInv == Init => IInv
  <1> USE EngineClientAssumption DEF EngineClientAssumption
  <1> SUFFICES ASSUME Init PROVE IInv
    OBVIOUS
  <1>1. \A c \in Call : collector[c] = EmptyCollector /\ client[c] = "new"
    BY DEF Init
  <1>2. IsSlot(EmptyCollector)
    BY DEF IsSlot, EmptyCollector, Fields
  <1>3. IsTable
    BY <1>1, <1>2 DEF Init, IsTable
  <1>4. WaitingAreHeld /\ ErrorIsOut
    BY <1>1 DEF WaitingAreHeld, ErrorIsOut
  <1> QED BY <1>3, <1>4 DEF Init, IInv, NoneAfterSweep, EndedForAReason

(* Registering under a free id, while nothing is shut down or broken. *)
LEMMA AddRequestKeeps ==
    ASSUME IInv, NEW c \in Call, AddRequest(c)
    PROVE  IInv'
  <1> USE EngineClientAssumption DEF EngineClientAssumption
  <1>1. /\ client' = [client EXCEPT ![c] = "waiting"]
        /\ request_states' = [request_states EXCEPT ![IdOf[c]] = c]
        /\ request_states[IdOf[c]] = None
        /\ closer = "none" /\ ~errored
        /\ UNCHANGED <<collector, closer, errored, handler>>
    BY DEF AddRequest, Register, Stopped, shutdown_started, threads, closing, handling, flags
  <1>2. IsTable'
    BY <1>1 DEF IInv, IsTable
  <1>3. \A d \in Call : client'[d] = "waiting" => request_states'[IdOf[d]] = d \/ Released(d)'
    <2> SUFFICES ASSUME NEW d \in Call, client'[d] = "waiting"
                 PROVE  request_states'[IdOf[d]] = d \/ Released(d)'
      OBVIOUS
    <2>1. CASE d = c
      BY <2>1, <1>1 DEF IInv, IsTable
    <2>2. CASE d # c
      <3>1. client[d] = "waiting"
        BY <2>2, <1>1 DEF IInv
      <3>2. request_states[IdOf[d]] = d \/ Released(d)
        BY <3>1 DEF IInv, WaitingAreHeld
      <3>3. request_states[IdOf[d]] = d => request_states'[IdOf[d]] = d
        BY <1>1 DEF IInv, IsTable
      <3>4. Released(d) => Released(d)'
        BY <1>1 DEF Released
      <3> QED BY <3>2, <3>3, <3>4
    <2> QED BY <2>1, <2>2
  <1>4. WaitingAreHeld'
    BY <1>3 DEF WaitingAreHeld
  <1> QED BY <1>1, <1>2, <1>4 DEF IInv, NoneAfterSweep, EndedForAReason, ErrorIsOut, stopping

(* Taking an output: a consumer that goes on waiting had not been released *)
(* by what it took.                                                        *)
LEMMA GetOutputKeeps ==
    ASSUME IInv, NEW c \in Call, GetOutput(c)
    PROVE  IInv'
  <1>1. /\ client[c] = "waiting"
        /\ UNCHANGED <<request_states, closer, errored, handler>>
    BY DEF GetOutput, threads, closing, handling, flags
  <1> DEFINE Slot == IF collector[c].error THEN [collector[c] EXCEPT !.error = FALSE]
                                            ELSE EmptyCollector
  <1>0. /\ collector' = [collector EXCEPT ![c] = Slot]
        /\ \E state : client' = [client EXCEPT ![c] = state]
    <2>1. CASE collector[c].error
      <3>1. collector' = [collector EXCEPT ![c].error = FALSE]
        BY <2>1 DEF GetOutput
      <3>2. Slot = [collector[c] EXCEPT !.error = FALSE]
        BY <2>1
      <3>3. client' = [client EXCEPT ![c] = "caught"]
        BY <2>1 DEF GetOutput
      <3> QED BY <3>1, <3>2, <3>3, Zenon
    <2>2. CASE ~collector[c].error
      BY <2>2 DEF GetOutput
    <2> QED BY <2>1, <2>2
  <1>3. IsSlot(collector[c])
    BY DEF IInv, IsTable
  <1>4. IsSlot(Slot)
    <2>1. IsSlot(EmptyCollector)
      BY DEF IsSlot, EmptyCollector, Fields
    <2>2. IsSlot([collector[c] EXCEPT !.error = FALSE])
      BY <1>3, ClearKeeps
    <2> QED BY <2>1, <2>2
  <1> HIDE DEF Slot
  <1>2. /\ client' = [d \in Call |-> client'[d]]
        /\ collector' = [d \in Call |-> collector'[d]]
        /\ \A d \in Call \ {c} : client'[d] = client[d] /\ collector'[d] = collector[d]
        /\ collector'[c] = Slot
    BY <1>0 DEF IInv, IsTable
  <1>5. IsTable'
    BY <1>1, <1>2, <1>4 DEF IInv, IsTable
  <1>6. client'[c] = "waiting" => ~Released(c)
    BY DEF GetOutput, IInv, Released
  <1>7. \A d \in Call \ {c} : Released(d)' <=> Released(d)
    BY <1>2 DEF Released
  <1>8. WaitingAreHeld'
    BY <1>1, <1>2, <1>6, <1>7 DEF IInv, WaitingAreHeld
  <1>9. ErrorIsOut'
    BY <1>1, <1>2, <1>6, <1>7 DEF IInv, ErrorIsOut
  <1> QED BY <1>1, <1>2, <1>5, <1>8, <1>9 DEF IInv, NoneAfterSweep, EndedForAReason, stopping

(* The handler's catch clause. *)
LEMMA HandlerFailsKeeps ==
    ASSUME IInv, HandlerFails
    PROVE  IInv'
  <1>1. UNCHANGED <<table, client, closer>>
    BY DEF HandlerFails, consumers, closing
  <1>2. IsTable' /\ Shrinks
    BY <1>1, UnchangedShrinks DEF IInv
  <1>3. WaitingAreHeld' /\ NoneAfterSweep'
    BY <1>1, <1>2 DEF IInv, WaitingAreHeld, NoneAfterSweep, Shrinks, table
  <1>4. EndedForAReason' /\ ErrorIsOut' /\ errored' \in BOOLEAN
    BY <1>1 DEF HandlerFails, IInv, EndedForAReason, ErrorIsOut, stopping
  <1> QED BY <1>1, <1>2, <1>3, <1>4 DEF IInv

(* The error into every registered collector. *)
LEMMA PropagateErrorKeeps ==
    ASSUME IInv, PropagateError
    PROVE  IInv'
  <1> USE EngineClientAssumption DEF EngineClientAssumption
  <1> DEFINE In(c) == c \in Registered(Id)
             Broken == [EmptyCollector EXCEPT !.error = TRUE]
  <1>1. /\ handler' = "ended" /\ errored
        /\ UNCHANGED <<client, request_states, closer, errored>>
    BY DEF PropagateError, IInv, EndedForAReason, consumers, closing, flags
  <1>2. /\ collector' = [c \in Call |-> collector'[c]]
        /\ \A c \in Call : collector'[c] = IF In(c) THEN Broken ELSE collector[c]
    BY DEF PropagateError
  <1>3. IsSlot(Broken) /\ Broken.error
    BY DEF IsSlot, EmptyCollector, Fields
  <1>4. IsTable'
    BY <1>1, <1>2, <1>3 DEF IInv, IsTable
  <1>5. \A c \in Call : client[c] = "waiting" => Released(c)'
    <2> SUFFICES ASSUME NEW c \in Call, client[c] = "waiting" PROVE Released(c)'
      OBVIOUS
    <2>1. CASE In(c)
      BY <2>1, <1>2, <1>3 DEF Released
    <2>2. CASE ~In(c)
      <3>1. request_states[IdOf[c]] # c
        BY <2>2 DEF Registered
      <3>2. Released(c)
        BY <3>1 DEF IInv, WaitingAreHeld
      <3> QED BY <3>2, <2>2, <1>2 DEF Released
    <2> QED BY <2>1, <2>2
  <1>6. WaitingAreHeld' /\ ErrorIsOut'
    BY <1>1, <1>5 DEF WaitingAreHeld, ErrorIsOut
  <1> QED BY <1>1, <1>4, <1>6 DEF IInv, NoneAfterSweep, EndedForAReason, stopping

(* The sweep: every registered request ends. *)
LEMMA AbortAllKeeps ==
    ASSUME IInv, AbortAll
    PROVE  IInv'
  <1> USE EngineClientAssumption DEF EngineClientAssumption
  <1> DEFINE ends == [c \in Registered(Id) |-> [tokens |-> << >>, end |-> "abort"]]
  <1>1. IsTable' /\ Shrinks
    <2>1. Deliver(ends)
      BY DEF AbortAll, abort_requests
    <2> HIDE DEF ends
    <2> QED BY <2>1, DeliverShrinks DEF IInv
  <1>2. ASSUME NEW i \in Id PROVE request_states'[i] = None
    <2>1. request_states' = [k \in Id |->
              IF request_states[k] \in DOMAIN ends /\ ends[request_states[k]].end # "none"
              THEN None ELSE request_states[k]]
      BY DEF AbortAll, abort_requests, Deliver
    <2>2. request_states[i] # None => request_states[i] \in Registered(Id)
      BY DEF Registered
    <2> QED BY <2>1, <2>2
  <1>3. UNCHANGED <<client, errored, handler>> /\ closer = "stopping" /\ closer' = "sweeping"
    BY DEF AbortAll, consumers, handling, flags
  <1> QED BY <1>1, <1>2, <1>3, ShrinkingKeeps DEF IInv, stopping

(* The rest of the closer's steps leave all but the closer alone. *)
LEMMA CloserKeeps ==
    ASSUME IInv, Shutdown \/ Closer
    PROVE  IInv'
  <1>1. CASE AbortAll
    BY <1>1, AbortAllKeeps
  <1>2. CASE Shutdown \/ (Closer /\ ~AbortAll)
    <2>1. UNCHANGED <<table, client, handler, errored>>
      BY <1>2 DEF Shutdown, Closer, SetStopping, SendSwept, RequestShutdown, WakeEngine,
                  JoinEngine, JoinHandler, consumers, handling, flags
    <2>2. (stopping => stopping') /\ (Swept' => Swept)
      BY <1>2 DEF Shutdown, Closer, SetStopping, SendSwept, RequestShutdown, WakeEngine,
                  JoinEngine, JoinHandler, stopping, Swept
    <2>3. IsTable' /\ Shrinks
      BY <2>1, UnchangedShrinks DEF IInv
    <2> QED BY <2>1, <2>2, <2>3, ShrinkingKeeps DEF IInv
  <1> QED BY <1>1, <1>2

(* The steps that deliver updates, but for the sweep. *)
LEMMA DeliveryKeeps ==
    ASSUME IInv, NEW updates, Deliver(updates),
           client' = [c \in Call |-> client'[c]],
           \A c \in Call : client'[c] = "waiting" => client[c] = "waiting",
           UNCHANGED <<errored, closer>>,
           \/ UNCHANGED handler
           \/ {handler, handler'} \intersect {"propagating", "ended"} = {}
    PROVE  IInv'
  <1>1. IsTable' /\ Shrinks
    BY DeliverShrinks DEF IInv
  <1> QED BY <1>1, ShrinkingKeeps DEF stopping, Swept

(* Every step of the specification keeps the invariant. *)
LEMMA NextIInv == IInv /\ [Next]_vars => IInv'
  <1> SUFFICES ASSUME IInv, [Next]_vars PROVE IInv'
    OBVIOUS
  <1> USE EngineClientAssumption DEF EngineClientAssumption
  <1>1. ASSUME NEW c \in Call, CheckRunning(c) \/ AddRequestThrows(c) PROVE IInv'
    <2>1. UNCHANGED <<table, closer, errored, handler>>
      BY <1>1 DEF CheckRunning, AddRequestThrows, threads, closing, handling, flags
    <2>2. IsTable' /\ Shrinks
      BY <2>1, UnchangedShrinks DEF IInv
    <2>3. /\ client' = [d \in Call |-> client'[d]]
          /\ \A d \in Call : client'[d] = "waiting" => client[d] = "waiting"
      BY <1>1 DEF CheckRunning, AddRequestThrows, IInv
    <2> QED BY <2>1, <2>2, <2>3, ShrinkingKeeps DEF IInv, stopping, Swept
  <1>2. ASSUME NEW c \in Call, AddRequest(c) PROVE IInv'
    BY <1>2, AddRequestKeeps
  <1>3. ASSUME NEW c \in Call, GetOutput(c) PROVE IInv'
    BY <1>3, GetOutputKeeps
  <1>4. ASSUME NEW c \in Call, AbortAfterError(c) PROVE IInv'
    <2>1. \E updates : Deliver(updates)
      BY <1>4 DEF AbortAfterError, abort_requests
    <2>2. /\ client' = [d \in Call |-> client'[d]]
          /\ \A d \in Call : client'[d] = "waiting" => client[d] = "waiting"
          /\ UNCHANGED <<errored, closer, handler>>
      BY <1>4 DEF AbortAfterError, IInv, closing, handling, flags
    <2> QED BY <2>1, <2>2, DeliveryKeeps
  <1>5. ASSUME NEW c \in Call, SendAbort(c) PROVE IInv'
    <2>1. UNCHANGED <<table, client, handler, closer, errored>>
      BY <1>5 DEF SendAbort, consumers, handling, closing, flags
    <2> QED BY <2>1, OutsideKeeps
  <1>6. ASSUME NEW i \in Id, AbortRequest(i) PROVE IInv'
    <2>1. \E updates : Deliver(updates)
      BY <1>6 DEF AbortRequest, abort_requests
    <2>2. UNCHANGED <<client, errored, closer, handler>>
      BY <1>6 DEF AbortRequest, consumers, closing, handling, flags
    <2> QED BY <2>1, <2>2, DeliveryKeeps DEF IInv
  <1>7. CASE Shutdown \/ Closer
    BY <1>7, CloserKeeps
  <1>8. CASE HandleOutputs
    <2>1. \E updates : Deliver(updates)
      BY <1>8 DEF HandleOutputs, process_outputs
    <2>2. /\ UNCHANGED <<client, errored, closer>>
          /\ handler = "get" /\ handler' \in {"get", "aborting"}
      BY <1>8 DEF HandleOutputs, consumers, closing, flags
    <2> QED BY <2>1, <2>2, DeliveryKeeps DEF IInv
  <1>9. CASE AbortStopped \/ HandleEngineDead
    <2>1. /\ UNCHANGED <<table, client, closer, errored>>
          /\ {handler, handler'} \intersect {"propagating", "ended"} = {}
      BY <1>9 DEF AbortStopped, HandleEngineDead, consumers, closing, flags
    <2>2. IsTable' /\ Shrinks
      BY <2>1, UnchangedShrinks DEF IInv
    <2> QED BY <2>1, <2>2, ShrinkingKeeps DEF IInv, stopping, Swept
  <1>10. CASE HandlerFails
    BY <1>10, HandlerFailsKeeps
  <1>11. CASE PropagateError
    BY <1>11, PropagateErrorKeeps
  <1>12. CASE EngineThread \/ EngineThrows
    <2>1. UNCHANGED outside
      BY <1>12 DEF EngineThread, EngineThrows, handle_shutdown, PollInput, HandleAdd, HandleAbort,
                   HandleWakeup, Taking, EndInput, process_engine_step, ProcessStep
    <2>2. UNCHANGED <<table, client, handler, closer, errored>>
      BY <2>1 DEF outside, consumers, threads, handling, closing, flags
    <2> QED BY <2>2, OutsideKeeps
  <1>13. CASE UNCHANGED vars
    <2>1. UNCHANGED <<table, client, handler, closer, errored>>
      BY <1>13 DEF vars, consumers, threads, handling, closing, flags
    <2> QED BY <2>1, OutsideKeeps
  <1> QED
    BY <1>1, <1>2, <1>3, <1>4, <1>5, <1>6, <1>7, <1>8, <1>9, <1>10, <1>11, <1>12, <1>13
    DEF Next, Consumer, OutputHandler

----------------------------------------------------------------------------
(* The invariant holds of every execution. *)
LEMMA SpecIInv == Spec => []IInv
  <1> QED BY InitIInv, NextIInv, PTL DEF Spec

(* Once shutdown has swept the table, add_request registers nothing any    *)
(* more: it looks at shutdown_started_ again under the lock the sweep was  *)
(* made under.                                                             *)
THEOREM NoneAfterSweepHolds == Spec => []NoneAfterSweep
  <1>1. IInv => NoneAfterSweep
    BY DEF IInv
  <1> QED BY <1>1, SpecIInv, PTL

(* When the output handler has ended, every consumer that waits has its    *)
(* end or an error in its collector: the death of the engine has put one   *)
(* into those registered then, the sweep has ended those registered before *)
(* it, and nobody was registered since.                                    *)
THEOREM NobodyLeftWaitingHolds == Spec => []NobodyLeftWaiting
  <1> USE EngineClientAssumption DEF EngineClientAssumption
  <1>1. IInv => NobodyLeftWaiting
    <2> SUFFICES ASSUME IInv, handler = "ended", errored \/ closer \notin {"started", "stopping"},
                        NEW c \in Call, client[c] = "waiting"
                 PROVE  Released(c)
      BY DEF NobodyLeftWaiting, Released
    <2>1. CASE errored
      BY <2>1 DEF IInv, ErrorIsOut
    <2>2. CASE ~errored
      <3>1. closer \notin {"none", "started", "stopping"}
        BY <2>2 DEF IInv, EndedForAReason, stopping
      <3>2. request_states[IdOf[c]] = None
        BY <3>1 DEF IInv, NoneAfterSweep
      <3> QED BY <3>2 DEF IInv, WaitingAreHeld
    <2> QED BY <2>1, <2>2
  <1> QED BY <1>1, SpecIInv, PTL

(* Neither shutdown nor an engine's death, in any order with submissions   *)
(* and with each other, leaves a consumer behind.                          *)
THEOREM NobodyLeftBehindHolds == Spec => []NobodyLeftBehind
  <1>1. NoneAfterSweep /\ NobodyLeftWaiting => NobodyLeftBehind
    BY DEF NobodyLeftBehind
  <1> QED BY <1>1, NoneAfterSweepHolds, NobodyLeftWaitingHolds, PTL

----------------------------------------------------------------------------
(* The streams, for callers that do not use an aborted id again.  What     *)
(* carries them: of the calls under one id only one is open, all that is   *)
(* on its way in the queues and in the scheduler under the id is that      *)
(* call's, and its tokens follow each other.                               *)

Tokened == Seq(Call \X Nat)
SlotType == [full : BOOLEAN, tokens : Tokened, finished : BOOLEAN, error : BOOLEAN]
OutputType == [call : Call, tokens : Tokened, finished : BOOLEAN]
OutputsType == UNION {[S -> OutputType] : S \in SUBSET Id}
FrameType == [type : {"OUTPUTS", "DEAD"}, outputs : OutputsType]

Typed ==
    /\ client \in [Call -> {"new", "checked", "refused", "duplicate", "waiting", "caught",
                            "finished", "failed"}]
    /\ received \in [Call -> Tokened]
    /\ collector \in [Call -> SlotType]
    /\ request_states \in [Id -> Call \union {None}]
    /\ output_tokens \in [Call -> Tokened]
    /\ sent \in [Call -> Nat]
    /\ ending \in [Call -> {"none", "core", "stop", "abort"}]
    /\ unsent \subseteq Call /\ reqs_to_abort \subseteq Id /\ swept \subseteq Id
    /\ handler \in {"get", "aborting", "caught", "propagating", "ended"}
    /\ closer \in {"none", "started", "stopping", "sweeping", "requesting", "waking", "joining",
                   "closing", "closed"}
    /\ input_queue \in Seq(Message)
    /\ output_queue \in Seq(FrameType)
    /\ shutdown_state \in {"running", "requested", "shutting_down"}
    /\ engine \in {"top", "polling", "waiting", "draining", "stepping", "exited", "dead"}
    /\ core \in [Id -> Call \union {None}]
    /\ emitted \in [Call -> Nat]

Submitted(c) == client[c] \in {"waiting", "caught", "finished", "failed"}
Open(c)      == Submitted(c) /\ ending[c] # "core"
Held(c)      == request_states[IdOf[c]] = c

(* What is in the queues.                                                  *)
Adds(k, c)    == k \in 1 .. Len(input_queue) /\ input_queue[k] = Add(c)
Carries(k, c) == /\ k \in 1 .. Len(output_queue)
                 /\ IdOf[c] \in DOMAIN output_queue[k].outputs
                 /\ output_queue[k].outputs[IdOf[c]].call = c
Last(k, c)    == Carries(k, c) /\ output_queue[k].outputs[IdOf[c]].finished
TokensAt(k, c) == IF Carries(k, c) THEN output_queue[k].outputs[IdOf[c]].tokens ELSE << >>

(* An entry of a queue is what one of the threads puts there.              *)
Queued ==
    /\ \A k \in 1 .. Len(input_queue) : LET m == input_queue[k] IN
           IF m.call = None THEN m.type # "ADD" ELSE m = Add(m.call)
    /\ \A k \in 1 .. Len(output_queue) : LET f == output_queue[k] IN
           /\ f.type = "DEAD" => f = EngineDead
           /\ \A i \in DOMAIN f.outputs : IdOf[f.outputs[i].call] = i

(* A submitted request is registered until something has ended it; of the  *)
(* requests under one id only one is open.                                 *)
Table ==
    /\ \A c \in Call : Held(c) <=> Submitted(c) /\ ending[c] = "none"
    /\ \A i \in Id : request_states[i] # None => IdOf[request_states[i]] = i
    /\ \A i \in Id : core[i] # None => IdOf[core[i]] = i
    /\ \A c \in Call : ~Submitted(c) => ending[c] = "none"
    /\ \A c, d \in Call : Open(c) /\ Open(d) /\ IdOf[c] = IdOf[d] => c = d

(* A request is in one place at a time on its way to the scheduler and     *)
(* back, and its last output is the last there is.                         *)
OnePlace ==
    \A c \in Call :
        /\ \A k \in 1 .. Len(input_queue) : Adds(k, c) =>
               /\ Open(c) /\ core[IdOf[c]] # c /\ emitted[c] = 0
               /\ \A l \in 1 .. Len(input_queue) : Adds(l, c) => k = l
               /\ \A l \in 1 .. Len(output_queue) : ~Carries(l, c)
        /\ core[IdOf[c]] = c =>
               /\ Open(c) /\ emitted[c] < MaxTokens[c]
               /\ \A k \in 1 .. Len(output_queue) : ~Last(k, c)
        /\ \A k \in 1 .. Len(output_queue) : Carries(k, c) =>
               /\ Open(c)
               /\ Last(k, c) => \A l \in 1 .. Len(output_queue) : Carries(l, c) => l <= k

(* An id that an abort is on its way for is not used any more.             *)
AbortsAreOver ==
    \A i \in Id : AbortComing(i, 1) =>
        \E d \in Call : IdOf[d] = i /\ ending[d] \in {"stop", "abort"}

(* The sentinel follows the end of the engine thread, and its death.       *)
DeadIsTold ==
    /\ engine_dead \/ handler \in {"caught", "propagating", "ended"} => engine \in {"dead", "exited"}
    /\ \A k \in 1 .. Len(output_queue) : output_queue[k] = EngineDead => engine \in {"dead", "exited"}
    /\ engine = "dead" /\ handler \in {"get", "aborting"} =>
           \E k \in 1 .. Len(output_queue) : output_queue[k] = EngineDead
    /\ reqs_to_abort # {} => handler = "aborting"
    /\ swept # {} => closer = "sweeping"

(* The tokens of a registered request: those it has, those in each frame   *)
(* of the queue, and so on to the last one emitted.                        *)
InOrder(c, n) ==
    /\ n \in [0 .. Len(output_queue) -> 0 .. MaxTokens[c]]
    /\ n[0] = Len(output_tokens[c])
    /\ n[Len(output_queue)] = emitted[c]
    /\ \A k \in 1 .. Len(output_queue) :
           /\ \/ TokensAt(k, c) = << >> /\ n[k] = n[k - 1]
              \/ n[k] = n[k - 1] + 1 /\ TokensAt(k, c) = <<<<c, n[k]>>>>
           /\ Last(k, c) => n[k] = emitted[c]
TokensFollow ==
    \A c \in Call :
        /\ output_tokens[c] = Own(c, Len(output_tokens[c]))
        /\ Len(output_tokens[c]) <= MaxTokens[c] /\ emitted[c] <= MaxTokens[c]
        /\ Held(c) => \E n \in [0 .. Len(output_queue) -> 0 .. MaxTokens[c]] : InOrder(c, n)
        /\ ending[c] = "core" => Len(output_tokens[c]) = emitted[c]
        /\ ~Submitted(c) => output_tokens[c] = << >> /\ emitted[c] = 0

(* What a consumer has and what its collector holds for it.                *)
Owed(c) == IF StreamInterval > 1 THEN sent[c] ELSE Len(output_tokens[c])
Slot(c) ==
    /\ sent[c] <= Len(output_tokens[c])
    /\ received[c] = Own(c, Len(received[c])) /\ Len(received[c]) <= Len(output_tokens[c])
    /\ ~collector[c].full => collector[c].tokens = << >> /\ ~collector[c].finished
    /\ collector[c].finished => ending[c] # "none"
    /\ client[c] = "waiting" /\ ~collector[c].error =>
           IF KindOf[c] = "delta"
           THEN /\ received[c] \o collector[c].tokens = Own(c, Owed(c))
                /\ collector[c].finished => Owed(c) = Len(output_tokens[c])
           ELSE collector[c].full =>
                /\ collector[c].tokens = Own(c, Len(collector[c].tokens))
                /\ Len(collector[c].tokens) \in Len(received[c]) .. Len(output_tokens[c])
                /\ collector[c].finished => collector[c].tokens = output_tokens[c]
    /\ client[c] = "finished" =>
           received[c] = output_tokens[c] /\ ending[c] # "none" /\ collector[c] = EmptyCollector
    /\ ~Submitted(c) => received[c] = << >> /\ collector[c] = EmptyCollector /\ sent[c] = 0
Slots == \A c \in Call : Slot(c)

(* What is proved to be inductive. *)
Streaming ==
    /\ Typed /\ Queued /\ Table /\ OnePlace /\ AbortsAreOver /\ DeadIsTold /\ TokensFollow
    /\ Slots /\ RegisteredIsServed /\ OrphansAreAborted

----------------------------------------------------------------------------
(* Sequences, and the tokens of a call.                                    *)

(* What appending and taking the head do to a queue. *)
LEMMA QueueFacts ==
    ASSUME NEW E, NEW q \in Seq(E)
    PROVE  /\ Len(q) \in Nat
           /\ \A m \in E : /\ Append(q, m) \in Seq(E)
                           /\ Len(Append(q, m)) = Len(q) + 1
                           /\ Append(q, m)[Len(q) + 1] = m
                           /\ \A k \in 1 .. Len(q) : Append(q, m)[k] = q[k]
           /\ q # << >> => /\ Tail(q) \in Seq(E) /\ Len(q) > 0
                           /\ Len(Tail(q)) = Len(q) - 1
                           /\ Head(q) = q[1] /\ Head(q) \in E
                           /\ \A k \in 1 .. Len(q) - 1 : Tail(q)[k] = q[k + 1]
  OBVIOUS

(* What joining two sequences of tokens gives. *)
LEMMA Joined ==
    ASSUME NEW s \in Tokened, NEW t \in Tokened
    PROVE  /\ s \o t \in Tokened /\ Len(s \o t) = Len(s) + Len(t)
           /\ \A i \in 1 .. Len(s) : (s \o t)[i] = s[i]
           /\ \A i \in 1 .. Len(t) : (s \o t)[Len(s) + i] = t[i]
  BY DEF Tokened

(* Sequences of tokens that agree everywhere are equal. *)
LEMMA Same ==
    ASSUME NEW s \in Tokened, NEW t \in Tokened, Len(s) = Len(t),
           \A i \in 1 .. Len(s) : s[i] = t[i]
    PROVE  s = t
  BY SeqEqual DEF Tokened

(* The first n tokens of a call. *)
LEMMA OwnFacts ==
    ASSUME NEW c \in Call, NEW n \in Nat
    PROVE  /\ Own(c, n) \in Tokened /\ Len(Own(c, n)) = n
           /\ \A k \in 1 .. n : Own(c, n)[k] = <<c, k>>
  <1>1. \A k \in 1 .. n : <<c, k>> \in Call \X Nat
    OBVIOUS
  <1> QED BY <1>1 DEF Own, Tokened

(* The next token, and those from some point on. *)
LEMMA OwnGrows ==
    ASSUME NEW c \in Call, NEW n \in Nat
    PROVE  /\ Own(c, n) \o <<<<c, n + 1>>>> = Own(c, n + 1)
           /\ Own(c, n) \o << >> = Own(c, n)
           /\ Own(c, 0) = << >>
  <1> DEFINE p == Own(c, n)
             t == <<<<c, n + 1>>>>
             q == Own(c, n + 1)
  <1>1. /\ p \in Tokened /\ Len(p) = n /\ \A k \in 1 .. n : p[k] = <<c, k>>
        /\ q \in Tokened /\ Len(q) = n + 1 /\ \A k \in 1 .. n + 1 : q[k] = <<c, k>>
        /\ Own(c, 0) \in Tokened /\ Len(Own(c, 0)) = 0
    BY OwnFacts
  <1>2. t \in Tokened /\ Len(t) = 1 /\ t[1] = <<c, n + 1>>
    BY DEF Tokened
  <1> HIDE DEF p, q, t
  <1>3. p \o t = q
    <2>1. /\ p \o t \in Tokened /\ Len(p \o t) = n + 1 /\ (p \o t)[n + 1] = <<c, n + 1>>
          /\ \A i \in 1 .. n : (p \o t)[i] = p[i]
      <3>1. /\ p \o t \in Tokened /\ Len(p \o t) = Len(p) + Len(t)
            /\ \A i \in 1 .. Len(p) : (p \o t)[i] = p[i]
            /\ \A i \in 1 .. Len(t) : (p \o t)[Len(p) + i] = t[i]
        BY <1>1, <1>2, Joined
      <3>2. 1 \in 1 .. Len(t)
        BY <1>2
      <3>3. (p \o t)[Len(p) + 1] = t[1]
        BY <3>1, <3>2
      <3> QED BY <1>1, <1>2, <3>1, <3>3
    <2>2. \A i \in 1 .. n + 1 : (p \o t)[i] = q[i]
      <3> TAKE i \in 1 .. n + 1
      <3>1. i \in 1 .. n \/ i = n + 1
        OBVIOUS
      <3> QED BY <1>1, <2>1, <3>1
    <2> QED BY <1>1, <2>1, <2>2, Same
  <1>4. p \o << >> = p
    BY <1>1, ConcatEmptySeq DEF Tokened
  <1>5. Own(c, 0) = << >>
    BY <1>1, EmptySeq DEF Tokened
  <1> QED BY <1>3, <1>4, <1>5 DEF p, q, t

(* The first n tokens and the rest, which a delta owes, are all tokens. *)
LEMMA OwnRest ==
    ASSUME NEW c \in Call, NEW n \in Nat, NEW m \in Nat, n <= m
    PROVE  Own(c, n) \o SubSeq(Own(c, m), n + 1, Len(Own(c, m))) = Own(c, m)
  <1> DEFINE p == Own(c, n)
             q == Own(c, m)
             t == SubSeq(q, n + 1, m)
  <1>1. /\ p \in Tokened /\ Len(p) = n /\ \A k \in 1 .. n : p[k] = <<c, k>>
        /\ q \in Tokened /\ Len(q) = m /\ \A k \in 1 .. m : q[k] = <<c, k>>
    BY OwnFacts
  <1> HIDE DEF p, q
  <1>2. t \in Tokened /\ Len(t) = m - n /\ \A k \in 1 .. m - n : t[k] = q[n + k]
    BY <1>1 DEF Tokened
  <1> HIDE DEF t
  <1>3. /\ p \o t \in Tokened /\ Len(p \o t) = m
        /\ \A i \in 1 .. n : (p \o t)[i] = p[i]
        /\ \A i \in 1 .. m - n : (p \o t)[n + i] = t[i]
    <2>1. /\ p \o t \in Tokened /\ Len(p \o t) = Len(p) + Len(t)
          /\ \A i \in 1 .. Len(p) : (p \o t)[i] = p[i]
          /\ \A i \in 1 .. Len(t) : (p \o t)[Len(p) + i] = t[i]
      BY <1>1, <1>2, Joined
    <2> QED BY <1>1, <1>2, <2>1
  <1>4. \A i \in 1 .. m : (p \o t)[i] = q[i]
    <2> TAKE i \in 1 .. m
    <2>1. CASE i <= n
      BY <1>1, <1>3, <2>1
    <2>2. CASE ~(i <= n)
      <3>1. i - n \in 1 .. m - n /\ n + (i - n) = i
        BY <2>2
      <3>2. t[i - n] = q[i]
        BY <1>2, <3>1
      <3>3. (p \o t)[n + (i - n)] = t[i - n]
        BY <1>3, <3>1
      <3> QED BY <3>1, <3>2, <3>3
    <2> QED BY <2>1, <2>2
  <1>5. p \o t = q
    BY <1>1, <1>3, <1>4, Same
  <1> QED BY <1>1, <1>5 DEF p, q, t

----------------------------------------------------------------------------
(* What delivering updates does, call by call.                             *)

Kept(c) ==
    /\ output_tokens'[c] = output_tokens[c] /\ sent'[c] = sent[c]
    /\ ending'[c] = ending[c] /\ collector'[c] = collector[c]
    /\ Held(c)' <=> Held(c)
Given(c, u) ==
    /\ output_tokens'[c] = Grown(c, u) /\ ending'[c] = u.end
    /\ Held(c)' <=> u.end = "none"
    /\ collector'[c] = IF MakesOutput(c, u)
                       THEN put(collector[c], OutputOf(c, u), u.end # "none", KindOf[c] = "delta")
                       ELSE collector[c]
    /\ sent'[c] = IF MakesOutput(c, u) /\ KindOf[c] = "delta" /\ StreamInterval > 1
                  THEN Len(Grown(c, u)) ELSE sent[c]
TableTyped ==
    /\ request_states \in [Id -> Call \union {None}]
    /\ output_tokens \in [Call -> Tokened]
    /\ sent \in [Call -> Nat]
    /\ ending \in [Call -> {"none", "core", "stop", "abort"}]
    /\ collector \in [Call -> SlotType]
AreUpdates(updates) ==
    /\ DOMAIN updates \subseteq {c \in Call : Held(c)}
    /\ \A c \in DOMAIN updates :
           updates[c].tokens \in Tokened /\ updates[c].end \in {"none", "core", "stop", "abort"}

(* More tokens and parts of them are sequences of tokens. *)
LEMMA GrownTyped ==
    ASSUME NEW t \in Tokened, NEW u \in Tokened, NEW n \in Nat
    PROVE  /\ t \o u \in Tokened /\ Len(t \o u) = Len(t) + Len(u) /\ Len(t) \in Nat /\ Len(u) \in Nat
           /\ SubSeq(t, n + 1, Len(t)) \in Tokened
  BY DEF Tokened

(* The slot t is s with an output put on top. *)
PutOn(t, s, tokens, fin, agg) ==
    /\ t.full = TRUE /\ t.error = s.error /\ t.finished = (s.finished \/ fin)
    /\ t.tokens = IF s.full /\ agg THEN s.tokens \o tokens ELSE tokens

(* What put makes of a collector. *)
LEMMA PutTyped ==
    ASSUME NEW s \in SlotType, NEW tokens \in Tokened, NEW fin \in BOOLEAN, NEW agg \in BOOLEAN
    PROVE  /\ put(s, tokens, fin, agg) \in SlotType
           /\ PutOn(put(s, tokens, fin, agg), s, tokens, fin, agg)
  <1> DEFINE t == IF s.full /\ agg THEN s.tokens \o tokens ELSE tokens
             f == s.finished \/ fin
  <1>1. put(s, tokens, fin, agg) = [s EXCEPT !.full = TRUE, !.tokens = t, !.finished = f]
    BY DEF put, SlotType
  <1>2. t \in Tokened /\ f \in BOOLEAN
    BY GrownTyped DEF SlotType
  <1> HIDE DEF t, f
  <1>3. /\ put(s, tokens, fin, agg) \in SlotType
        /\ put(s, tokens, fin, agg).full = TRUE
        /\ put(s, tokens, fin, agg).error = s.error
        /\ put(s, tokens, fin, agg).finished = f
        /\ put(s, tokens, fin, agg).tokens = t
    BY <1>1, <1>2 DEF SlotType
  <1> QED BY <1>3 DEF t, f, PutOn

(* Joining is associative. *)
Associates(s, t, u) == (s \o t) \o u = s \o (t \o u)
LEMMA JoinedTwice ==
    ASSUME NEW s \in Tokened, NEW t \in Tokened, NEW u \in Tokened
    PROVE  Associates(s, t, u)
  <1> DEFINE S == Call \X Nat
  <1>1. s \in Seq(S) /\ t \in Seq(S) /\ u \in Seq(S)
    BY DEF Tokened
  <1> HIDE DEF S
  <1> QED BY <1>1, ConcatAssociative DEF Associates

(* Joining nothing. *)
LEMMA JoinedEmpty ==
    ASSUME NEW s \in Tokened
    PROVE  << >> \o s = s /\ s \o << >> = s
  BY ConcatEmptySeq DEF Tokened

(* Each call in the domain is given its update, every other is kept. *)
LEMMA DeliverEach ==
    ASSUME TableTyped, \A i \in Id : request_states[i] # None => IdOf[request_states[i]] = i,
           NEW updates, AreUpdates(updates), Deliver(updates)
    PROVE  /\ TableTyped'
           /\ \A i \in Id : request_states'[i] \in {request_states[i], None}
           /\ \A c \in Call : IF c \in DOMAIN updates THEN Given(c, updates[c]) ELSE Kept(c)
  <1> USE EngineClientAssumption DEF EngineClientAssumption
  <1> DEFINE Out == {c \in DOMAIN updates : MakesOutput(c, updates[c])}
  <1>1. ASSUME NEW c \in DOMAIN updates
        PROVE  /\ c \in Call /\ updates[c].tokens \in Tokened /\ Grown(c, updates[c]) \in Tokened
               /\ Len(Grown(c, updates[c])) \in Nat
               /\ updates[c].end \in {"none", "core", "stop", "abort"}
               /\ OutputOf(c, updates[c]) \in Tokened
    <2>1. c \in Call /\ updates[c].tokens \in Tokened /\ output_tokens[c] \in Tokened
          /\ updates[c].end \in {"none", "core", "stop", "abort"} /\ sent[c] \in Nat
      BY DEF AreUpdates, TableTyped
    <2>2. Grown(c, updates[c]) \in Tokened /\ Len(Grown(c, updates[c])) \in Nat
      BY <2>1, GrownTyped DEF Grown
    <2>3. SubSeq(Grown(c, updates[c]), sent[c] + 1, Len(Grown(c, updates[c]))) \in Tokened
      BY <2>1, <2>2, GrownTyped
    <2> QED BY <2>1, <2>2, <2>3 DEF OutputOf
  <1>2. output_tokens' \in [Call -> Tokened]
    <2>1. output_tokens' = [c \in Call |-> IF c \in DOMAIN updates THEN Grown(c, updates[c])
                                                                  ELSE output_tokens[c]]
      BY DEF Deliver
    <2> QED BY <1>1, <2>1 DEF TableTyped
  <1>3. sent' \in [Call -> Nat]
    <2>1. sent' = [c \in Call |->
           IF c \in Out /\ KindOf[c] = "delta" /\ StreamInterval > 1
           THEN Len(Grown(c, updates[c]))
           ELSE sent[c]]
      BY DEF Deliver
    <2> QED BY <1>1, <2>1 DEF TableTyped
  <1>4. ending' \in [Call -> {"none", "core", "stop", "abort"}]
    BY <1>1 DEF Deliver, TableTyped
  <1>5. collector' \in [Call -> SlotType]
    <2>1. collector' = [c \in Call |->
           IF c \in Out
           THEN put(collector[c], OutputOf(c, updates[c]), updates[c].end # "none",
                    KindOf[c] = "delta")
           ELSE collector[c]]
      BY DEF Deliver
    <2>2. ASSUME NEW c \in Out
          PROVE  put(collector[c], OutputOf(c, updates[c]), updates[c].end # "none",
                     KindOf[c] = "delta") \in SlotType
      <3>1. collector[c] \in SlotType /\ OutputOf(c, updates[c]) \in Tokened
        BY <1>1 DEF TableTyped
      <3>2. (updates[c].end # "none") \in BOOLEAN /\ (KindOf[c] = "delta") \in BOOLEAN
        OBVIOUS
      <3> QED BY <3>1, <3>2, PutTyped
    <2> QED BY <2>1, <2>2 DEF TableTyped
  <1>6. \A i \in Id : request_states'[i] =
           IF request_states[i] \in DOMAIN updates /\ updates[request_states[i]].end # "none"
           THEN None ELSE request_states[i]
    BY DEF Deliver
  <1>7. request_states' \in [Id -> Call \union {None}]
    BY <1>6 DEF Deliver, TableTyped
  <1>8. ASSUME NEW c \in Call, c \notin DOMAIN updates PROVE Kept(c)
    <2>1. /\ output_tokens'[c] = output_tokens[c] /\ sent'[c] = sent[c]
          /\ ending'[c] = ending[c] /\ collector'[c] = collector[c]
      BY <1>8 DEF Deliver
    <2>2. Held(c)' <=> Held(c)
      BY <1>6, <1>8 DEF Held
    <2> QED BY <2>1, <2>2 DEF Kept
  <1>9. ASSUME NEW c \in DOMAIN updates PROVE Given(c, updates[c])
    <2>1. c \in Call /\ Held(c)
      BY DEF AreUpdates
    <2>2. output_tokens'[c] = Grown(c, updates[c]) /\ ending'[c] = updates[c].end
      BY <2>1 DEF Deliver
    <2>3. Held(c)' <=> updates[c].end = "none"
      BY <1>6, <2>1 DEF Held
    <2>4. collector'[c] = IF MakesOutput(c, updates[c])
                       THEN put(collector[c], OutputOf(c, updates[c]), updates[c].end # "none",
                                KindOf[c] = "delta")
                       ELSE collector[c]
      BY <2>1 DEF Deliver
    <2>5. sent'[c] = IF MakesOutput(c, updates[c]) /\ KindOf[c] = "delta" /\ StreamInterval > 1
                  THEN Len(Grown(c, updates[c])) ELSE sent[c]
      BY <2>1 DEF Deliver
    <2> QED BY <2>2, <2>3, <2>4, <2>5 DEF Given
  <1> QED BY <1>2, <1>3, <1>4, <1>5, <1>6, <1>7, <1>8, <1>9 DEF TableTyped

(* A call whose consumer does nothing, or passes an error on. *)
Waits(c) == client'[c] = client[c] \/ (client[c] = "caught" /\ client'[c] = "failed")

(* A consumer that is given nothing has what it had, and so has its        *)
(* collector.                                                              *)
LEMMA SlotKept ==
    ASSUME NEW c \in Call, Slot(c), Kept(c), received'[c] = received[c], Waits(c)
    PROVE  Slot(c)'
  <1>1. /\ output_tokens'[c] = output_tokens[c] /\ sent'[c] = sent[c]
        /\ ending'[c] = ending[c] /\ collector'[c] = collector[c]
    BY DEF Kept
  <1>2. Owed(c)' = Owed(c)
    BY <1>1 DEF Owed
  <1>3. /\ client'[c] = "waiting" => client[c] = "waiting"
        /\ client'[c] = "finished" => client[c] = "finished"
        /\ ~Submitted(c)' => ~Submitted(c)
    BY DEF Waits, Submitted
  <1> QED BY <1>1, <1>2, <1>3 DEF Slot

(* An output put into the collector of a registered call continues what    *)
(* its consumer has, with what is in the collector already.                *)
LEMMA SlotGiven ==
    ASSUME TableTyped, TableTyped', received \in [Call -> Tokened],
           NEW c \in Call, Slot(c), Submitted(c), ending[c] = "none",
           output_tokens[c] = Own(c, Len(output_tokens[c])),
           NEW u, u.tokens \in Tokened, u.end \in {"none", "core", "stop", "abort"},
           Given(c, u), output_tokens'[c] = Own(c, Len(output_tokens'[c])),
           received'[c] = received[c], Waits(c)
    PROVE  Slot(c)'
  <1> USE EngineClientAssumption DEF EngineClientAssumption
  <1> DEFINE o == output_tokens[c]
             g == output_tokens'[c]
             s == collector[c]
             t == collector'[c]
             out == OutputOf(c, u)
             delta == KindOf[c] = "delta"
  <1>1. /\ o \in Tokened /\ g \in Tokened /\ g = o \o u.tokens /\ g = Grown(c, u)
        /\ Len(o) \in Nat /\ Len(g) \in Nat /\ Len(g) = Len(o) + Len(u.tokens)
        /\ Len(u.tokens) \in Nat /\ Len(o) <= Len(g)
    <2>1. o \in Tokened /\ g \in Tokened /\ g = o \o u.tokens /\ g = Grown(c, u)
      BY DEF TableTyped, Given, Grown
    <2>2. /\ Len(o \o u.tokens) = Len(o) + Len(u.tokens) /\ Len(o) \in Nat /\ Len(u.tokens) \in Nat
      <3>1. output_tokens[c] \in Tokened
        BY <2>1
      <3> QED BY <3>1, GrownTyped
    <2> HIDE DEF o, g
    <2> QED BY <2>1, <2>2
  <1>2. /\ s \in SlotType /\ t \in SlotType /\ sent[c] \in Nat /\ received[c] \in Tokened
        /\ sent[c] <= Len(o) /\ Len(received[c]) \in Nat /\ Len(received[c]) <= Len(o)
        /\ ~s.finished /\ (~s.full => s.tokens = << >>)
        /\ ending'[c] = u.end /\ received'[c] = received[c]
        /\ received[c] = Own(c, Len(received[c]))
    <2>1. received[c] \in Tokened
      OBVIOUS
    <2> QED BY <2>1 DEF TableTyped, Slot, Given, Tokened
  <1>3. /\ client'[c] = "waiting" => client[c] = "waiting"
        /\ client'[c] # "finished"
        /\ Submitted(c)'
    BY <1>2 DEF Waits, Submitted, Slot
  <1>4. CASE ~MakesOutput(c, u)
    <2>1. t = s /\ sent'[c] = sent[c] /\ u.end = "none" /\ (delta => StreamInterval > 1)
      BY <1>4 DEF Given, MakesOutput
    <2>2. delta => Owed(c)' = Owed(c)
      BY <2>1 DEF Owed
    <2> HIDE DEF o, g
    <2>3. sent'[c] <= Len(g) /\ Len(received[c]) <= Len(g)
      BY <1>1, <1>2, <2>1
    <2>4. client'[c] = "waiting" /\ ~t.error =>
           IF delta
           THEN /\ received'[c] \o t.tokens = Own(c, Owed(c)')
                /\ t.finished => Owed(c)' = Len(g)
           ELSE t.full =>
                /\ t.tokens = Own(c, Len(t.tokens))
                /\ Len(t.tokens) \in Len(received'[c]) .. Len(g)
                /\ t.finished => t.tokens = g
      <3> SUFFICES ASSUME client[c] = "waiting", ~s.error
                   PROVE  IF delta THEN received[c] \o s.tokens = Own(c, Owed(c))
                          ELSE s.full => /\ s.tokens = Own(c, Len(s.tokens))
                                         /\ Len(s.tokens) \in Len(received[c]) .. Len(g)
        BY <1>2, <1>3, <2>1, <2>2
      <3>1. IF delta THEN received[c] \o s.tokens = Own(c, Owed(c))
            ELSE s.full => /\ s.tokens = Own(c, Len(s.tokens))
                           /\ Len(s.tokens) \in Len(received[c]) .. Len(o)
        BY DEF Slot, o
      <3> QED BY <1>1, <1>2, <3>1
    <2>5. t.finished => ending'[c] # "none"
      BY <1>2, <2>1
    <2> QED BY <1>2, <1>3, <2>1, <2>3, <2>4, <2>5 DEF Slot, g
  <1>5. CASE MakesOutput(c, u)
    <2>1. /\ t = put(s, out, u.end # "none", delta)
          /\ sent'[c] = IF delta /\ StreamInterval > 1 THEN Len(g) ELSE sent[c]
      BY <1>1, <1>5 DEF Given
    <2>2. out \in Tokened
      <3>1. SubSeq(g, sent[c] + 1, Len(g)) \in Tokened
        BY <1>1, <1>2, GrownTyped
      <3> QED BY <1>1, <3>1 DEF OutputOf
    <2>3. /\ t.full = TRUE /\ t.error = s.error /\ t.finished = (u.end # "none")
          /\ t.tokens = IF s.full /\ delta THEN s.tokens \o out ELSE out
      <3> DEFINE fin == u.end # "none"
      <3>1. fin \in BOOLEAN /\ delta \in BOOLEAN
        OBVIOUS
      <3>2. t = put(s, out, fin, delta)
        BY <2>1
      <3>4. s \in SlotType
        BY <1>2
      <3>5. out \in Tokened
        BY <2>2
      <3> HIDE DEF fin, delta, s, t, out
      <3>3. /\ t.full = TRUE /\ t.error = s.error /\ t.finished = (s.finished \/ fin)
            /\ t.tokens = IF s.full /\ delta THEN s.tokens \o out ELSE out
        <4>1. PutOn(put(s, out, fin, delta), s, out, fin, delta)
          BY <3>1, <3>4, <3>5, PutTyped, Zenon
        <4> QED BY <3>2, <4>1 DEF PutOn
      <3> QED BY <1>2, <3>1, <3>3 DEF fin
    <2>4. s.tokens \in Tokened
      BY <1>2 DEF SlotType
    <2> HIDE DEF o, g, s, t, out
    <2>5. sent'[c] <= Len(g) /\ Len(received[c]) <= Len(g)
      BY <1>1, <1>2, <2>1
    <2>6. ASSUME delta, client[c] = "waiting", ~s.error
          PROVE  received[c] \o t.tokens = Own(c, Len(g)) /\ Owed(c)' = Len(g)
      <3>1. t.tokens = s.tokens \o out
        <4>1. << >> \o out = out
          BY <2>2, JoinedEmpty
        <4> QED BY <1>2, <2>3, <2>6, <4>1
      <3>2. received[c] \o s.tokens = Own(c, Owed(c))
        BY <2>6 DEF Slot, s
      <3>3. (received[c] \o s.tokens) \o out = received[c] \o (s.tokens \o out)
        <4>1. received[c] \in Tokened
          BY <1>2
        <4>2. Associates(received[c], s.tokens, out)
          BY <4>1, <2>2, <2>4, JoinedTwice
        <4> QED BY <4>2 DEF Associates
      <3>4. Own(c, Owed(c)) \o out = Own(c, Len(g))
        <4>1. CASE StreamInterval > 1
          <5>6. StreamInterval # 1
            BY <4>1
          <5>7. out = SubSeq(Grown(c, u), sent[c] + 1, Len(Grown(c, u)))
            BY <2>6, <5>6 DEF OutputOf, out, delta
          <5>1. out = SubSeq(g, sent[c] + 1, Len(g)) /\ Owed(c) = sent[c]
            BY <1>1, <4>1, <5>7 DEF Owed
          <5>2. sent[c] \in Nat /\ Len(g) \in Nat /\ sent[c] <= Len(g)
            BY <1>1, <1>2
          <5>3. g = Own(c, Len(g))
            BY DEF g
          <5> DEFINE n == sent[c]
                     m == Len(g)
          <5> HIDE DEF n, m
          <5>4. Own(c, n) \o SubSeq(Own(c, m), n + 1, Len(Own(c, m))) = Own(c, m)
            BY <5>2, OwnRest DEF n, m
          <5> QED BY <5>1, <5>3, <5>4 DEF n, m
        <4>2. CASE ~(StreamInterval > 1)
          <5>1. StreamInterval = 1
            BY <4>2
          <5>2. out = u.tokens /\ Owed(c) = Len(o)
            BY <2>6, <4>2, <5>1 DEF OutputOf, out, Owed, o
          <5>3. o = Own(c, Len(o)) /\ g = Own(c, Len(g))
            BY DEF o, g
          <5> QED BY <1>1, <5>2, <5>3
        <4> QED BY <4>1, <4>2
      <3>5. Owed(c)' = Len(g)
        BY <2>1, <2>6 DEF Owed, g
      <3> QED BY <3>1, <3>2, <3>3, <3>4, <3>5
    <2>7. ASSUME ~delta
          PROVE  t.tokens = g /\ Len(t.tokens) \in Len(received[c]) .. Len(g)
                 /\ t.tokens = Own(c, Len(t.tokens))
      <3>1. t.tokens = g
        <4>1. out = Grown(c, u)
          BY <2>7 DEF OutputOf, out, delta
        <4> QED BY <1>1, <2>3, <2>7, <4>1
      <3>2. g = Own(c, Len(g))
        BY DEF g
      <3>3. Len(g) \in Len(received[c]) .. Len(g)
        BY <1>1, <1>2, <2>5
      <3> QED BY <3>1, <3>2, <3>3
    <2>8. t.finished => ending'[c] # "none"
      BY <1>2, <2>3
    <2>9. client'[c] = "waiting" /\ ~t.error =>
           IF delta
           THEN /\ received'[c] \o t.tokens = Own(c, Owed(c)')
                /\ t.finished => Owed(c)' = Len(g)
           ELSE t.full =>
                /\ t.tokens = Own(c, Len(t.tokens))
                /\ Len(t.tokens) \in Len(received'[c]) .. Len(g)
                /\ t.finished => t.tokens = g
      BY <1>2, <1>3, <2>3, <2>6, <2>7
    <2> QED BY <1>2, <1>3, <2>3, <2>5, <2>8, <2>9 DEF Slot, g, t
  <1> QED BY <1>4, <1>5

----------------------------------------------------------------------------
(* Steps that leave the queues, the table and the scheduler alone.         *)

(* Where at most a thread moves on, or a consumer, only the collectors and *)
(* what the consumers have are to be looked at.                            *)
LEMMA AsideKeeps ==
    ASSUME Streaming, Typed', Slots',
           \A c \in Call : Submitted(c)' <=> Submitted(c),
           UNCHANGED <<request_states, output_tokens, ending, queues, core, emitted, unsent,
                       reqs_to_abort, swept, engine_dead>>,
           UNCHANGED engine \/ {engine, engine'} \intersect {"dead", "exited"} = {},
           UNCHANGED handler \/ {handler, handler'} \intersect {"get", "aborting"} = {},
           swept # {} => closer' = "sweeping"
    PROVE  Streaming'
  <1> USE DEF queues
  <1>1. Queued'
    BY DEF Streaming, Queued
  <1>2. \A c \in Call : (Open(c)' <=> Open(c)) /\ (Held(c)' <=> Held(c))
    BY DEF Open, Held
  <1>3. Table'
    BY <1>2 DEF Streaming, Table
  <1>4. OnePlace'
    BY <1>2 DEF Streaming, OnePlace, Adds, Carries, Last
  <1>5. AbortsAreOver' /\ (\A i \in Id, k \in Nat : AbortComing(i, k)' <=> AbortComing(i, k))
    BY DEF Streaming, AbortsAreOver, AbortComing
  <1>6. DeadIsTold'
    BY DEF Streaming, DeadIsTold, Typed
  <1>7. TokensFollow'
    <2>1. \A c \in Call : \A n : InOrder(c, n)' <=> InOrder(c, n)
      BY DEF InOrder, TokensAt, Last, Carries
    <2> QED BY <1>2, <2>1 DEF Streaming, TokensFollow
  <1>8. RegisteredIsServed'
    <2>1. \A c : (InFlight(c)' <=> InFlight(c)) /\ (EndsInQueue(c)' <=> EndsInQueue(c))
      BY DEF InFlight, EndsInQueue
    <2> QED BY <2>1 DEF Streaming, RegisteredIsServed, Typed
  <1>9. OrphansAreAborted'
    <2>1. /\ \A i \in Id : AbortComing(i, 1)' <=> AbortComing(i, 1)
          /\ \A i \in Id : \A k \in 1 .. Len(input_queue) : AbortComing(i, k)' <=> AbortComing(i, k)
      BY <1>5 DEF AbortComing
    <2>2. engine' \notin {"dead", "exited"} => engine \notin {"dead", "exited"}
      OBVIOUS
    <2>3. ASSUME NEW k \in 1 .. Len(input_queue), input_queue[k].call # None,
                 OrphansAreAborted, engine \notin {"dead", "exited"}
          PROVE  \/ request_states'[IdOf[input_queue[k].call]] = input_queue[k].call
                 \/ AbortComing(IdOf[input_queue[k].call], k)'
      <3>1. \/ request_states[IdOf[input_queue[k].call]] = input_queue[k].call
            \/ AbortComing(IdOf[input_queue[k].call], k)
        BY <2>3 DEF OrphansAreAborted
      <3> QED BY <3>1 DEF AbortComing
    <2> QED BY <2>1, <2>2, <2>3 DEF Streaming, OrphansAreAborted
  <1> QED BY <1>1, <1>3, <1>4, <1>5, <1>6, <1>7, <1>8, <1>9 DEF Streaming

----------------------------------------------------------------------------
(* Steps that put something into the input queue.                          *)

(* What stands for an abort of i that is still to be sent. *)
AbortNow(i) == (\E c \in unsent : IdOf[c] = i) \/ i \in reqs_to_abort \union swept
AbortAt(i, from) == \E k \in from .. Len(input_queue) :
                        input_queue[k].type = "ABORT" /\ i \in input_queue[k].ids

(* The call in an entry of the input queue is registered or about to be    *)
(* aborted.                                                                *)
Backed(k) ==
    LET c == input_queue[k].call IN
    c # None => request_states[IdOf[c]] = c \/ AbortComing(IdOf[c], k)

(* The message m may have been sent; an abort in it was to be sent, and    *)
(* what is no longer to be sent is in it, or the engine is gone.           *)
Sends(m) ==
    /\ input_queue' = input_queue \/ input_queue' = Append(input_queue, m)
    /\ unsent' \subseteq unsent /\ reqs_to_abort' \subseteq reqs_to_abort /\ swept' \subseteq swept
    /\ input_queue' = Append(input_queue, m) /\ m.type = "ABORT" => \A i \in m.ids : AbortNow(i)
    /\ \A i \in Id : AbortNow(i) =>
           \/ AbortNow(i)' \/ engine \in {"dead", "exited"}
           \/ input_queue' = Append(input_queue, m) /\ m.type = "ABORT" /\ i \in m.ids

(* An abort that is sent moves from the thread that sends it to the queue, *)
(* behind all that was there.                                              *)
LEMMA SendingKeeps ==
    ASSUME Streaming, Typed', NEW m \in Message, m.call = None, m.type # "ADD", Sends(m),
           UNCHANGED <<table, client, received, output_queue, engine, core, emitted, engine_dead>>,
           UNCHANGED handler \/ {handler, handler'} \subseteq {"get", "aborting"},
           reqs_to_abort' # {} => handler' = "aborting",
           swept' # {} => closer' = "sweeping"
    PROVE  Streaming'
  <1> USE EngineClientAssumption DEF EngineClientAssumption
  <1> USE DEF table
  <1>1. /\ Len(input_queue) \in Nat /\ Len(input_queue') \in Nat
        /\ \A k \in 1 .. Len(input_queue) : k \in 1 .. Len(input_queue') /\ input_queue'[k] = input_queue[k]
        /\ \A k \in 1 .. Len(input_queue') :
               \/ k \in 1 .. Len(input_queue) /\ input_queue'[k] = input_queue[k]
               \/ k = Len(input_queue) + 1 /\ input_queue'[k] = m /\ input_queue' = Append(input_queue, m)
        /\ input_queue' = Append(input_queue, m) =>
               Len(input_queue') = Len(input_queue) + 1 /\ input_queue'[Len(input_queue) + 1] = m
    <2>0. input_queue \in Seq(Message)
      BY DEF Streaming, Typed
    <2>1. /\ Len(input_queue) \in Nat
          /\ Len(Append(input_queue, m)) = Len(input_queue) + 1
          /\ Append(input_queue, m)[Len(input_queue) + 1] = m
          /\ \A k \in 1 .. Len(input_queue) : Append(input_queue, m)[k] = input_queue[k]
      BY <2>0, QueueFacts
    <2>2. CASE input_queue' = input_queue
      BY <2>0, <2>1, <2>2
    <2>3. CASE input_queue' = Append(input_queue, m)
      BY <2>1, <2>3
    <2> QED BY <2>2, <2>3 DEF Sends
  <1>2. \A c \in Call : \A k : Adds(k, c)' <=> Adds(k, c)
    <2>1. \A c \in Call : m # Add(c)
      BY DEF Add
    <2> QED BY <1>1, <2>1 DEF Adds
  <1>3. \A c \in Call : /\ (Open(c)' <=> Open(c)) /\ (Held(c)' <=> Held(c))
                        /\ (Submitted(c)' <=> Submitted(c))
    BY DEF Open, Held, Submitted
  <1>4. Queued'
    BY <1>1 DEF Streaming, Queued
  <1>5. Table'
    BY <1>3 DEF Streaming, Table
  <1>6. OnePlace'
    <2>1. \A c \in Call : \A l : (Carries(l, c)' <=> Carries(l, c)) /\ (Last(l, c)' <=> Last(l, c))
      BY DEF Carries, Last
    <2>2. SUFFICES ASSUME NEW c \in Call
          PROVE  /\ \A k \in 1 .. Len(input_queue') : Adds(k, c)' =>
                        /\ Open(c)' /\ core'[IdOf[c]] # c /\ emitted'[c] = 0
                        /\ \A l \in 1 .. Len(input_queue') : Adds(l, c)' => k = l
                        /\ \A l \in 1 .. Len(output_queue') : ~Carries(l, c)'
                 /\ core'[IdOf[c]] = c =>
                        /\ Open(c)' /\ emitted'[c] < MaxTokens[c]
                        /\ \A k \in 1 .. Len(output_queue') : ~Last(k, c)'
                 /\ \A k \in 1 .. Len(output_queue') : Carries(k, c)' =>
                        /\ Open(c)'
                        /\ Last(k, c)' => \A l \in 1 .. Len(output_queue') : Carries(l, c)' => l <= k
      BY DEF OnePlace
    <2>3. \A k : Adds(k, c) => k \in 1 .. Len(input_queue)
      BY DEF Adds
    <2>4. OnePlace
      BY DEF Streaming
    <2> QED BY <1>2, <1>3, <2>1, <2>3, <2>4 DEF OnePlace
  <1>7. \A i \in Id : \A from \in Nat : AbortComing(i, from) <=> AbortNow(i) \/ AbortAt(i, from)
    BY DEF AbortComing, AbortNow, AbortAt
  <1>8. \A i \in Id : \A from \in Nat : AbortComing(i, from)' <=> AbortNow(i)' \/ AbortAt(i, from)'
    BY DEF AbortComing, AbortNow, AbortAt
  <1>9. \A i \in Id : AbortComing(i, 1)' => AbortComing(i, 1)
    <2>1. \A i \in Id : AbortNow(i)' => AbortNow(i)
      BY DEF AbortNow, Sends
    <2>2. \A i \in Id : AbortAt(i, 1)' => AbortAt(i, 1) \/ AbortNow(i)
      BY <1>1 DEF AbortAt, Sends
    <2> QED BY <1>7, <1>8, <2>1, <2>2
  <1>10. \A i \in Id : \A from \in 1 .. Len(input_queue) + 1 :
            AbortComing(i, from) => AbortComing(i, from)' \/ engine \in {"dead", "exited"}
    <2> SUFFICES ASSUME NEW i \in Id, NEW from \in 1 .. Len(input_queue) + 1,
                        AbortComing(i, from), engine \notin {"dead", "exited"}
                 PROVE  AbortNow(i)' \/ AbortAt(i, from)'
      BY <1>1, <1>8
    <2>1. CASE AbortNow(i)
      <3>1. CASE input_queue' = Append(input_queue, m) /\ m.type = "ABORT" /\ i \in m.ids
        BY <1>1, <3>1 DEF AbortAt
      <3> QED BY <2>1, <3>1 DEF Sends
    <2>2. CASE AbortAt(i, from)
      BY <1>1, <2>2 DEF AbortAt
    <2> QED BY <1>1, <1>7, <2>1, <2>2
  <1>11. AbortsAreOver'
    BY <1>9 DEF Streaming, AbortsAreOver
  <1>12. DeadIsTold'
    BY DEF Streaming, DeadIsTold
  <1>13. TokensFollow'
    <2>1. \A c \in Call : \A n : InOrder(c, n)' <=> InOrder(c, n)
      BY DEF InOrder, TokensAt, Last, Carries
    <2> QED BY <1>3, <2>1 DEF Streaming, TokensFollow
  <1>14. Slots'
    BY <1>3 DEF Streaming, Slots, Slot, Owed
  <1>15. RegisteredIsServed'
    <2>1. \A c \in Call : (InFlight(c) => InFlight(c)') /\ (EndsInQueue(c)' <=> EndsInQueue(c))
      BY <1>1 DEF InFlight, EndsInQueue
    <2>2. \A i \in Id : request_states[i] \in Call \union {None}
      BY DEF Streaming, Typed
    <2> QED BY <2>1, <2>2 DEF Streaming, RegisteredIsServed
  <1>16. OrphansAreAborted'
    <2>0. CASE engine \in {"dead", "exited"}
      BY <2>0 DEF OrphansAreAborted
    <2> SUFFICES ASSUME engine \notin {"dead", "exited"} PROVE OrphansAreAborted'
      BY <2>0
    <2>1. /\ \A i \in Id : core[i] # None => request_states[i] = core[i] \/ AbortComing(i, 1)
          /\ \A k \in 1 .. Len(input_queue) : input_queue[k].call # None =>
                \/ request_states[IdOf[input_queue[k].call]] = input_queue[k].call
                \/ AbortComing(IdOf[input_queue[k].call], k)
      BY DEF Streaming, OrphansAreAborted
    <2>2. \A k \in 1 .. Len(input_queue) : input_queue[k].call \in Call \union {None}
      <3>1. input_queue \in Seq(Message)
        BY DEF Streaming, Typed
      <3>2. \A k \in 1 .. Len(input_queue) : input_queue[k] \in Message
        BY <3>1
      <3> QED BY <3>2 DEF Message
    <2>3. ASSUME NEW k \in 1 .. Len(input_queue') PROVE Backed(k)'
      <3> SUFFICES ASSUME NEW d \in Call, input_queue'[k].call = d
                   PROVE  request_states'[IdOf[d]] = d \/ AbortComing(IdOf[d], k)'
        <4>1. \/ input_queue'[k] = m
              \/ k \in 1 .. Len(input_queue) /\ input_queue'[k] = input_queue[k]
          BY <1>1
        <4>2. input_queue'[k].call \in Call \union {None}
          BY <2>2, <4>1
        <4> QED BY <4>2 DEF Backed
      <3>1. k \in 1 .. Len(input_queue) /\ input_queue'[k] = input_queue[k]
        BY <1>1
      <3>2. IdOf[d] \in Id /\ k \in 1 .. Len(input_queue) + 1
        BY <1>1, <3>1
      <3>3. AbortComing(IdOf[d], k) => AbortComing(IdOf[d], k)'
        BY <1>10, <3>2
      <3>4. request_states[IdOf[d]] = d \/ AbortComing(IdOf[d], k)
        BY <2>1, <3>1
      <3> QED BY <3>3, <3>4
    <2>4. 1 \in 1 .. Len(input_queue) + 1
      BY <1>1
    <2>5. \A i \in Id : core[i] # None => request_states[i] = core[i] \/ AbortComing(i, 1)'
      BY <1>10, <2>1, <2>4
    <2> QED BY <2>3, <2>5 DEF OrphansAreAborted, Backed
  <1> QED BY <1>4, <1>5, <1>6, <1>11, <1>12, <1>13, <1>14, <1>15, <1>16 DEF Streaming

----------------------------------------------------------------------------
(* Steps of the engine thread.                                             *)

Out(O, c)  == IdOf[c] \in DOMAIN O /\ O[IdOf[c]].call = c
Popped     == input_queue # << >> /\ input_queue' = Tail(input_queue)
Came(c)    == Popped /\ Head(input_queue) = Add(c)
Aborted(i) == Popped /\ Head(input_queue).type = "ABORT" /\ i \in Head(input_queue).ids

(* What a step does with c: it comes into the scheduler from the queue     *)
(* only, gets at most the next token, and does not leave without a last    *)
(* output unless it is aborted.                                            *)
WorksOn(O, c) ==
    /\ core'[IdOf[c]] = c => (core[IdOf[c]] = c \/ Came(c)) /\ emitted'[c] < MaxTokens[c]
    /\ core[IdOf[c]] = c \/ Came(c) =>
           core'[IdOf[c]] = c \/ (Out(O, c) /\ O[IdOf[c]].finished) \/ Aborted(IdOf[c])
    /\ ~Out(O, c) => emitted'[c] = emitted[c]
    /\ Out(O, c) =>
           /\ core[IdOf[c]] = c \/ Came(c)
           /\ O[IdOf[c]].finished => core'[IdOf[c]] # c
           /\ emitted'[c] <= MaxTokens[c]
           /\ \/ O[IdOf[c]].tokens = << >> /\ emitted'[c] = emitted[c]
              \/ O[IdOf[c]].tokens = <<<<c, emitted[c] + 1>>>> /\ emitted'[c] = emitted[c] + 1

(* What it does at all.  O is the frame of outputs it puts out.            *)
Acts(O) ==
    /\ input_queue' = input_queue \/ Popped
    /\ \A i \in DOMAIN O : IdOf[O[i].call] = i
    /\ \A i \in Id : core'[i] # None => IdOf[core'[i]] = i
    /\ \A i \in Id : Aborted(i) => core'[i] = None
    /\ \A c \in Call : WorksOn(O, c)
Works(O) == PutOutputs(O) /\ Acts(O)

(* The input queue loses its head, by s places, *)
Shifted(s) ==
    /\ s \in {0, 1} /\ (s = 1 <=> Popped)
    /\ Len(input_queue) \in Nat /\ Len(input_queue') \in Nat /\ Len(input_queue') = Len(input_queue) - s
    /\ \A k \in 1 .. Len(input_queue') :
           k + s \in 1 .. Len(input_queue) /\ input_queue'[k] = input_queue[k + s]
    /\ \A k \in 1 .. Len(input_queue) :
           \/ k = s /\ input_queue[k] = Head(input_queue)
           \/ k - s \in 1 .. Len(input_queue') /\ input_queue'[k - s] = input_queue[k]

(* and the output queue grows, by the outputs O if there are any.          *)
Grows(O) ==
    LET p == Len(output_queue) IN
    /\ p \in Nat /\ Len(output_queue') \in {p, p + 1}
    /\ \A c \in Call :
           /\ \A k \in 1 .. p : /\ Carries(k, c)' <=> Carries(k, c)
                                /\ Last(k, c)' <=> Last(k, c)
                                /\ TokensAt(k, c)' = TokensAt(k, c)
           /\ \A k \in 1 .. Len(output_queue') : k \notin 1 .. p =>
                  /\ k = p + 1
                  /\ Carries(k, c)' <=> Out(O, c)
                  /\ Last(k, c)' <=> Out(O, c) /\ O[IdOf[c]].finished
                  /\ TokensAt(k, c)' = IF Out(O, c) THEN O[IdOf[c]].tokens ELSE << >>
           /\ Out(O, c) => Len(output_queue') = p + 1

Frame(O) == [type |-> "OUTPUTS", outputs |-> O]
Extended(O) ==
    /\ Grows(O)
    /\ \A k \in 1 .. Len(output_queue) : output_queue'[k] = output_queue[k]
    /\ \A k \in 1 .. Len(output_queue') :
           k \notin 1 .. Len(output_queue) => output_queue'[k] = Frame(O)

(* Every step of the engine leaves the input queue as it is or takes its   *)
(* head.                                                                   *)
LEMMA QueueShifts ==
    ASSUME input_queue \in Seq(Message), input_queue' = input_queue \/ Popped
    PROVE  \E s : Shifted(s)
  <1>1. CASE Popped
    <2>1. /\ Tail(input_queue) \in Seq(Message) /\ Len(input_queue) > 0 /\ Len(input_queue) \in Nat
          /\ Len(Tail(input_queue)) = Len(input_queue) - 1
          /\ Head(input_queue) = input_queue[1]
          /\ \A k \in 1 .. Len(input_queue) - 1 : Tail(input_queue)[k] = input_queue[k + 1]
      BY <1>1, QueueFacts DEF Popped
    <2>2. input_queue' = Tail(input_queue)
      BY <1>1 DEF Popped
    <2>3. Shifted(1)
      BY <1>1, <2>1, <2>2 DEF Shifted
    <2> QED BY <2>3
  <1>2. CASE ~Popped
    <2>1. Len(input_queue) \in Nat
      OBVIOUS
    <2>2. Shifted(0)
      BY <1>2, <2>1 DEF Shifted
    <2> QED BY <2>2
  <1> QED BY <1>1, <1>2

(* What the engine puts out comes behind all there was. *)
LEMMA QueueExtends ==
    ASSUME output_queue \in Seq(FrameType), NEW O \in OutputsType, PutOutputs(O)
    PROVE  Extended(O)
  <1> DEFINE f == Frame(O)
             p == Len(output_queue)
  <1>1. f \in FrameType /\ f.outputs = O
    BY DEF FrameType, Frame
  <1>2. output_queue' = IF DOMAIN O = {} THEN output_queue ELSE Append(output_queue, f)
    BY DEF PutOutputs, Frame
  <1> HIDE DEF f
  <1>3. /\ p \in Nat /\ Len(Append(output_queue, f)) = p + 1
        /\ Append(output_queue, f)[p + 1] = f
        /\ \A k \in 1 .. p : Append(output_queue, f)[k] = output_queue[k]
    BY <1>1, QueueFacts
  <1>4. /\ p \in Nat /\ Len(output_queue') = IF DOMAIN O = {} THEN p ELSE p + 1
        /\ \A k \in 1 .. p : output_queue'[k] = output_queue[k]
        /\ DOMAIN O # {} => output_queue'[p + 1] = f
    BY <1>2, <1>3
  <1>5. ASSUME NEW c \in Call, NEW k \in 1 .. p
        PROVE  /\ Carries(k, c)' <=> Carries(k, c)
               /\ Last(k, c)' <=> Last(k, c)
               /\ TokensAt(k, c)' = TokensAt(k, c)
    <2>1. k \in 1 .. Len(output_queue) /\ k \in 1 .. Len(output_queue') /\ output_queue'[k] = output_queue[k]
      BY <1>4
    <2> QED BY <2>1 DEF Carries, Last, TokensAt
  <1>6. ASSUME NEW c \in Call, NEW k \in 1 .. Len(output_queue'), k \notin 1 .. p
        PROVE  /\ k = p + 1
               /\ Carries(k, c)' <=> Out(O, c)
               /\ Last(k, c)' <=> Out(O, c) /\ O[IdOf[c]].finished
               /\ TokensAt(k, c)' = IF Out(O, c) THEN O[IdOf[c]].tokens ELSE << >>
    <2>1. k = p + 1 /\ output_queue'[k] = f
      <3> DEFINE q == Len(output_queue')
      <3>1. q = (IF DOMAIN O = {} THEN p ELSE p + 1) /\ k \in 1 .. q /\ k \notin 1 .. p /\ p \in Nat
        BY <1>4, <1>6
      <3> HIDE DEF p, q
      <3>2. k = p + 1 /\ DOMAIN O # {}
        <4>1. CASE DOMAIN O = {}
          BY <3>1, <4>1
        <4>2. CASE DOMAIN O # {}
          <5>1. q = p + 1
            BY <3>1, <4>2
          <5>2. k = p + 1
            BY <3>1, <5>1
          <5> QED BY <4>2, <5>2
        <4> QED BY <4>1, <4>2
      <3> QED BY <1>4, <3>2
    <2>2. output_queue'[k].outputs = O
      BY <1>1, <2>1
    <2> QED BY <1>6, <2>1, <2>2 DEF Carries, Last, TokensAt, Out
  <1>7. ASSUME NEW c \in Call, Out(O, c) PROVE Len(output_queue') = p + 1
    BY <1>4, <1>7 DEF Out
  <1>8. ASSUME NEW k \in 1 .. Len(output_queue'), k \notin 1 .. p PROVE output_queue'[k] = f
    <2> DEFINE q == Len(output_queue')
    <2>1. q = (IF DOMAIN O = {} THEN p ELSE p + 1) /\ k \in 1 .. q /\ k \notin 1 .. p /\ p \in Nat
      BY <1>4, <1>8
    <2> HIDE DEF p, q
    <2>2. DOMAIN O # {}
      BY <2>1
    <2>3. k = p + 1
      BY <2>1, <2>2
    <2> QED BY <1>4, <2>2, <2>3
  <1> QED BY <1>4, <1>5, <1>6, <1>7, <1>8 DEF Grows, Extended, f

(* Who comes from the queue was in it, and not yet with the scheduler.     *)
LEMMA CameFacts ==
    ASSUME Streaming, NEW c \in Call, Came(c)
    PROVE  /\ Adds(1, c) /\ Open(c) /\ core[IdOf[c]] # c /\ emitted[c] = 0
           /\ \A l : Adds(l, c) => l = 1
           /\ \A l : ~Carries(l, c)
  <1>1. input_queue \in Seq(Message)
    BY DEF Streaming, Typed
  <1>2. Head(input_queue) = input_queue[1] /\ 1 \in 1 .. Len(input_queue)
    BY <1>1, QueueFacts DEF Came, Popped
  <1>3. Adds(1, c)
    BY <1>2 DEF Came, Adds
  <1>4. /\ \A l : Adds(l, c) => l \in 1 .. Len(input_queue)
        /\ \A l : Carries(l, c) => l \in 1 .. Len(output_queue)
    BY DEF Adds, Carries
  <1> QED BY <1>2, <1>3, <1>4 DEF Streaming, OnePlace

(* Whom a step of the engine works on is open, and at its place.           *)
LEMMA WorkedOn ==
    ASSUME Streaming, NEW O, NEW c \in Call, WorksOn(O, c), Out(O, c) \/ core'[IdOf[c]] = c
    PROVE  /\ Open(c) /\ (core[IdOf[c]] = c \/ Came(c))
           /\ \A l : ~Last(l, c)
           /\ Came(c) => \A l : ~Carries(l, c)
  <1>1. core[IdOf[c]] = c \/ Came(c)
    BY DEF WorksOn
  <1>2. \A l : Last(l, c) => l \in 1 .. Len(output_queue) /\ Carries(l, c)
    BY DEF Last, Carries
  <1>3. CASE Came(c)
    BY <1>2, <1>3, CameFacts
  <1>4. CASE core[IdOf[c]] = c /\ ~Came(c)
    BY <1>2, <1>4 DEF Streaming, OnePlace
  <1> QED BY <1>1, <1>3, <1>4

(* A request is still in one place, whatever the engine took, scheduled    *)
(* and put out.                                                            *)
LEMMA EngineKeepsPlace ==
    ASSUME Streaming, UNCHANGED <<table, consumers>>, NEW s, Shifted(s), NEW O, Grows(O), Acts(O)
    PROVE  OnePlace'
  <1> DEFINE p == Len(output_queue)
  <1> SUFFICES ASSUME NEW c \in Call
      PROVE  /\ \A k \in 1 .. Len(input_queue') : Adds(k, c)' =>
                    /\ Open(c)' /\ core'[IdOf[c]] # c /\ emitted'[c] = 0
                    /\ \A l \in 1 .. Len(input_queue') : Adds(l, c)' => k = l
                    /\ \A l \in 1 .. Len(output_queue') : ~Carries(l, c)'
             /\ core'[IdOf[c]] = c =>
                    /\ Open(c)' /\ emitted'[c] < MaxTokens[c]
                    /\ \A k \in 1 .. Len(output_queue') : ~Last(k, c)'
             /\ \A k \in 1 .. Len(output_queue') : Carries(k, c)' =>
                    /\ Open(c)'
                    /\ Last(k, c)' => \A l \in 1 .. Len(output_queue') : Carries(l, c)' => l <= k
    BY DEF OnePlace
  <1>1. Open(c)' <=> Open(c)
    BY DEF table, consumers, Open, Submitted
  <1>2. WorksOn(O, c)
    BY DEF Acts
  <1>3. Out(O, c) \/ core'[IdOf[c]] = c =>
           /\ Open(c) /\ (core[IdOf[c]] = c \/ Came(c))
           /\ \A l : ~Last(l, c)
           /\ Came(c) => \A l : ~Carries(l, c)
    BY <1>2, WorkedOn
  <1>4. p \in Nat /\ \A l \in 1 .. Len(output_queue') : l \in 1 .. p \/ l = p + 1
    BY DEF Grows
  <1>5. \A l \in 1 .. Len(output_queue') :
           /\ l \in 1 .. p => (Carries(l, c)' <=> Carries(l, c)) /\ (Last(l, c)' <=> Last(l, c))
           /\ l \notin 1 .. p => (Carries(l, c)' <=> Out(O, c))
                                 /\ (Last(l, c)' <=> Out(O, c) /\ O[IdOf[c]].finished)
    BY DEF Grows
  <1>6. OnePlace
    BY DEF Streaming
  <1> HIDE DEF p
  <1>7. ASSUME NEW k \in 1 .. Len(input_queue'), Adds(k, c)'
        PROVE  /\ Open(c)' /\ core'[IdOf[c]] # c /\ emitted'[c] = 0
               /\ \A l \in 1 .. Len(input_queue') : Adds(l, c)' => k = l
               /\ \A l \in 1 .. Len(output_queue') : ~Carries(l, c)'
    <2>1. \A l \in 1 .. Len(input_queue') : Adds(l, c)' => Adds(l + s, c) /\ l + s \in 1 .. Len(input_queue)
      BY DEF Adds, Shifted
    <2>2. Adds(k + s, c) /\ k + s \in 1 .. Len(input_queue)
      BY <1>7, <2>1
    <2>3. /\ Open(c) /\ core[IdOf[c]] # c /\ emitted[c] = 0
          /\ \A l \in 1 .. Len(input_queue) : Adds(l, c) => k + s = l
          /\ \A l \in 1 .. Len(output_queue) : ~Carries(l, c)
      BY <1>6, <2>2 DEF OnePlace
    <2>4. ~Came(c)
      <3> SUFFICES ASSUME Came(c) PROVE FALSE
        OBVIOUS
      <3>1. s = 1 /\ k + s = 1
        BY <2>2, CameFacts DEF Came, Shifted
      <3> QED BY <3>1
    <2>5. core'[IdOf[c]] # c /\ ~Out(O, c)
      BY <1>3, <2>3, <2>4
    <2>6. emitted'[c] = 0
      BY <1>2, <2>3, <2>5 DEF WorksOn
    <2>7. \A l \in 1 .. Len(output_queue') : ~Carries(l, c)'
      BY <1>5, <2>3, <2>5 DEF p
    <2>8. \A l \in 1 .. Len(input_queue') : Adds(l, c)' => k = l
      <3> TAKE l \in 1 .. Len(input_queue')
      <3> HAVE Adds(l, c)'
      <3>1. k + s = l + s
        BY <2>1, <2>3
      <3> QED BY <3>1 DEF Shifted
    <2> QED BY <1>1, <2>3, <2>5, <2>6, <2>7, <2>8
  <1>8. ASSUME core'[IdOf[c]] = c
        PROVE  /\ Open(c)' /\ emitted'[c] < MaxTokens[c]
               /\ \A k \in 1 .. Len(output_queue') : ~Last(k, c)'
    <2>1. Open(c) /\ \A l : ~Last(l, c)
      BY <1>3, <1>8
    <2>2. emitted'[c] < MaxTokens[c] /\ ~(Out(O, c) /\ O[IdOf[c]].finished)
      BY <1>2, <1>8 DEF WorksOn
    <2>3. \A k \in 1 .. Len(output_queue') : ~Last(k, c)'
      BY <1>5, <2>1, <2>2
    <2> QED BY <1>1, <2>1, <2>2, <2>3
  <1>9. ASSUME NEW k \in 1 .. Len(output_queue'), Carries(k, c)'
        PROVE  /\ Open(c)'
               /\ Last(k, c)' => \A l \in 1 .. Len(output_queue') : Carries(l, c)' => l <= k
    <2>1. CASE k \in 1 .. p
      <3>1. Carries(k, c) /\ k \in 1 .. Len(output_queue)
        BY <1>5, <1>9, <2>1 DEF p
      <3>2. Open(c) /\ (Last(k, c) => \A l \in 1 .. Len(output_queue) : Carries(l, c) => l <= k)
        BY <1>6, <3>1 DEF OnePlace
      <3>3. Last(k, c) => ~Out(O, c)
        BY <1>3
      <3> QED BY <1>1, <1>5, <2>1, <3>2, <3>3 DEF p
    <2>2. CASE k \notin 1 .. p
      <3>1. Open(c)
        BY <1>3, <1>5, <1>9, <2>2
      <3>2. k = p + 1 /\ \A l \in 1 .. Len(output_queue') : l <= p + 1
        BY <1>4, <2>2
      <3> QED BY <1>1, <3>1, <3>2
    <2> QED BY <2>1, <2>2
  <1> QED BY <1>7, <1>8, <1>9

(* The tokens put out follow those put out before.                         *)
LEMMA EngineKeepsTokens ==
    ASSUME Streaming, UNCHANGED <<table, consumers>>, emitted' \in [Call -> Nat], NEW O, Grows(O), Acts(O)
    PROVE  TokensFollow'
  <1> USE EngineClientAssumption DEF EngineClientAssumption
  <1> SUFFICES ASSUME NEW c \in Call
      PROVE  /\ output_tokens'[c] = Own(c, Len(output_tokens'[c]))
             /\ Len(output_tokens'[c]) <= MaxTokens[c] /\ emitted'[c] <= MaxTokens[c]
             /\ Held(c)' => \E n \in [0 .. Len(output_queue') -> 0 .. MaxTokens[c]] : InOrder(c, n)'
             /\ ending'[c] = "core" => Len(output_tokens'[c]) = emitted'[c]
             /\ ~Submitted(c)' => output_tokens'[c] = << >> /\ emitted'[c] = 0
    BY DEF TokensFollow
  <1>1. /\ Submitted(c)' <=> Submitted(c)
        /\ Held(c)' <=> Held(c)
        /\ ending'[c] = ending[c] /\ output_tokens'[c] = output_tokens[c]
    BY DEF table, consumers, Held, Submitted
  <1>2. WorksOn(O, c)
    BY DEF Acts
  <1>3. Out(O, c) => Open(c) /\ \A l : ~Last(l, c)
    BY <1>2, WorkedOn
  <1>4. /\ output_tokens[c] = Own(c, Len(output_tokens[c]))
        /\ Len(output_tokens[c]) <= MaxTokens[c] /\ emitted[c] <= MaxTokens[c]
        /\ Held(c) => \E n \in [0 .. Len(output_queue) -> 0 .. MaxTokens[c]] : InOrder(c, n)
        /\ ending[c] = "core" => Len(output_tokens[c]) = emitted[c]
        /\ ~Submitted(c) => output_tokens[c] = << >> /\ emitted[c] = 0
    BY DEF Streaming, TokensFollow
  <1>5. /\ emitted'[c] <= MaxTokens[c]
        /\ ~Out(O, c) => emitted'[c] = emitted[c]
        /\ Out(O, c) => \/ O[IdOf[c]].tokens = << >> /\ emitted'[c] = emitted[c]
                        \/ O[IdOf[c]].tokens = <<<<c, emitted[c] + 1>>>> /\ emitted'[c] = emitted[c] + 1
    BY <1>2, <1>4 DEF WorksOn
  <1>6. ASSUME Held(c)
        PROVE  \E n \in [0 .. Len(output_queue') -> 0 .. MaxTokens[c]] : InOrder(c, n)'
    <2> DEFINE p == Len(output_queue)
               q == Len(output_queue')
    <2>1. PICK n \in [0 .. p -> 0 .. MaxTokens[c]] : InOrder(c, n)
      BY <1>4, <1>6
    <2>2. /\ n[0] = Len(output_tokens[c]) /\ n[p] = emitted[c]
          /\ \A k \in 1 .. p :
                 /\ \/ TokensAt(k, c) = << >> /\ n[k] = n[k - 1]
                    \/ n[k] = n[k - 1] + 1 /\ TokensAt(k, c) = <<<<c, n[k]>>>>
                 /\ Last(k, c) => n[k] = emitted[c]
      BY <2>1 DEF InOrder
    <2>3. /\ p \in Nat /\ (q = p \/ q = p + 1) /\ (Out(O, c) => q = p + 1)
          /\ \A k \in 1 .. p : (Last(k, c)' <=> Last(k, c)) /\ TokensAt(k, c)' = TokensAt(k, c)
          /\ \A k \in 1 .. q : k \notin 1 .. p =>
                 /\ k = p + 1
                 /\ Last(k, c)' <=> Out(O, c) /\ O[IdOf[c]].finished
                 /\ TokensAt(k, c)' = IF Out(O, c) THEN O[IdOf[c]].tokens ELSE << >>
      BY DEF Grows
    <2> HIDE DEF p, q
    <2>4. emitted'[c] \in 0 .. MaxTokens[c] /\ emitted'[c] \in Nat
      <3>1. emitted'[c] \in Nat /\ MaxTokens[c] \in Nat
        OBVIOUS
      <3> QED BY <1>5, <3>1
    <2> DEFINE v == [k \in 0 .. q |-> IF k \in 0 .. p THEN n[k] ELSE emitted'[c]]
    <2>11. PICK w : w = v
      OBVIOUS
    <2>5. w \in [0 .. q -> 0 .. MaxTokens[c]]
      BY <2>1, <2>4, <2>11
    <2>6. /\ \A k \in 0 .. p : k \in 0 .. q /\ w[k] = n[k]
          /\ \A k \in 0 .. q : k \notin 0 .. p => w[k] = emitted'[c]
      BY <2>3, <2>11
    <2> HIDE DEF v
    <2>7. w[0] = Len(output_tokens'[c])
      BY <1>1, <2>2, <2>3, <2>6
    <2>8. w[q] = emitted'[c]
      <3>1. CASE q = p
        <4>1. ~Out(O, c)
          BY <2>3, <3>1
        <4> QED BY <1>5, <2>2, <2>3, <2>6, <3>1, <4>1
      <3>2. CASE q = p + 1
        <4>1. q \in 0 .. q /\ q \notin 0 .. p
          BY <2>3, <3>2
        <4> QED BY <2>6, <4>1
      <3> QED BY <2>3, <3>1, <3>2
    <2>9. ASSUME NEW k \in 1 .. q
          PROVE  /\ \/ TokensAt(k, c)' = << >> /\ w[k] = w[k - 1]
                    \/ w[k] = w[k - 1] + 1 /\ TokensAt(k, c)' = <<<<c, w[k]>>>>
                 /\ Last(k, c)' => w[k] = emitted'[c]
      <3>1. CASE k \in 1 .. p
        <4>1. k \in 0 .. p /\ k - 1 \in 0 .. p
          BY <2>3, <3>1
        <4>2. w[k] = n[k] /\ w[k - 1] = n[k - 1]
          BY <2>6, <4>1
        <4>3. Last(k, c)' => Last(k, c) /\ ~Out(O, c)
          BY <1>3, <2>3, <3>1
        <4>4. Last(k, c)' => w[k] = emitted'[c]
          BY <1>5, <2>2, <3>1, <4>2, <4>3
        <4>5. TokensAt(k, c)' = TokensAt(k, c)
          BY <2>3, <3>1
        <4> QED BY <2>2, <3>1, <4>2, <4>4, <4>5
      <3>2. CASE k \notin 1 .. p
        <4>1. k = p + 1 /\ TokensAt(k, c)' = IF Out(O, c) THEN O[IdOf[c]].tokens ELSE << >>
          BY <2>3, <3>2
        <4>2. k \in 0 .. q /\ k \notin 0 .. p /\ k - 1 = p /\ p \in 0 .. p
          BY <2>3, <4>1
        <4>3. w[k] = emitted'[c] /\ w[k - 1] = emitted[c]
          BY <2>2, <2>6, <4>2
        <4> QED BY <1>5, <4>1, <4>3
      <3> QED BY <3>1, <3>2
    <2>10. InOrder(c, w)'
      BY <2>5, <2>7, <2>8, <2>9 DEF InOrder, q
    <2> QED BY <2>5, <2>10 DEF q
  <1>7. ending[c] = "core" \/ ~Submitted(c) => emitted'[c] = emitted[c]
    BY <1>3, <1>5 DEF Open
  <1> QED BY <1>1, <1>4, <1>5, <1>6, <1>7

(* A last output in the queue, in the terms of the invariant. *)
LEMMA EndsIsLast == \A c : EndsInQueue(c) <=> \E k \in 1 .. Len(output_queue) : Last(k, c)
  BY DEF EndsInQueue, Last, Carries

(* An abort on its way for an id leaves no request registered under it, so *)
(* that it takes nobody's request out of the scheduler.                    *)
LEMMA AbortedIsGone ==
    ASSUME Streaming, NEW c \in Call, Held(c), AbortComing(IdOf[c], 1)
    PROVE  FALSE
  <1> USE EngineClientAssumption DEF EngineClientAssumption
  <1>1. PICK d \in Call : IdOf[d] = IdOf[c] /\ ending[d] \in {"stop", "abort"}
    BY DEF Streaming, AbortsAreOver
  <1>2. Open(c) /\ ending[c] = "none"
    BY DEF Streaming, Table, Open
  <1>3. Open(d)
    BY <1>1 DEF Streaming, Table, Open
  <1>4. c = d
    BY <1>1, <1>2, <1>3 DEF Streaming, Table
  <1> QED BY <1>1, <1>2, <1>4

(* An abort that is taken from the queue was coming. *)
LEMMA AbortedComes ==
    ASSUME Streaming, NEW i \in Id, Aborted(i)
    PROVE  AbortComing(i, 1)
  <1>1. input_queue \in Seq(Message)
    BY DEF Streaming, Typed
  <1>2. Head(input_queue) = input_queue[1] /\ 1 \in 1 .. Len(input_queue)
    BY <1>1, QueueFacts DEF Aborted, Popped
  <1> QED BY <1>2 DEF Aborted, AbortComing

(* A registered request is still served, *)
LEMMA EngineServes ==
    ASSUME Streaming, UNCHANGED <<table, consumers>>, engine # "dead", engine' # "dead",
           NEW s, Shifted(s), NEW O, Grows(O), Acts(O)
    PROVE  RegisteredIsServed'
  <1> USE EngineClientAssumption DEF EngineClientAssumption
  <1>1. UNCHANGED <<request_states, ending, client>>
    BY DEF table, consumers
  <1>0. \A i \in Id : request_states[i] \in Call \union {None}
    BY DEF Streaming, Typed
  <1> SUFFICES ASSUME NEW i \in Id, NEW c \in Call, c = request_states[i]
               PROVE  InFlight(c)' \/ core'[i] = c \/ EndsInQueue(c)'
    BY <1>0, <1>1 DEF RegisteredIsServed
  <1>2. c = request_states[i]
    OBVIOUS
  <1>3. IdOf[c] = i /\ Held(c)
    BY <1>2 DEF Streaming, Table, Held
  <1>4. WorksOn(O, c) /\ ~Aborted(i)
    BY <1>3, AbortedIsGone, AbortedComes DEF Acts
  <1>5. core[i] = c \/ Came(c) => core'[i] = c \/ EndsInQueue(c)'
    <2> SUFFICES ASSUME core[i] = c \/ Came(c), core'[i] # c PROVE EndsInQueue(c)'
      OBVIOUS
    <2>1. Out(O, c) /\ O[IdOf[c]].finished
      BY <1>3, <1>4 DEF WorksOn
    <2> DEFINE p == Len(output_queue)
               q == Len(output_queue')
    <2>2. q = p + 1 /\ p \in Nat /\ \A k \in 1 .. q : k \notin 1 .. p =>
                (Last(k, c)' <=> Out(O, c) /\ O[IdOf[c]].finished)
      BY <2>1 DEF Grows
    <2> HIDE DEF p, q
    <2>3. q \in 1 .. q /\ q \notin 1 .. p
      BY <2>2
    <2>4. \E k \in 1 .. q : Last(k, c)'
      BY <2>1, <2>2, <2>3
    <2> QED BY <2>4 DEF q, EndsInQueue, Last, Carries
  <1>6. EndsInQueue(c) => EndsInQueue(c)'
    <2> SUFFICES ASSUME NEW k \in 1 .. Len(output_queue), Last(k, c) PROVE EndsInQueue(c)'
      BY EndsIsLast
    <2>1. Last(k, c)'
      BY DEF Grows
    <2>2. k \in 1 .. Len(output_queue')
      BY <2>1 DEF Last, Carries
    <2> QED BY <2>1, <2>2 DEF EndsInQueue, Last, Carries
  <1>7. InFlight(c) => Came(c) \/ InFlight(c)'
    <2> SUFFICES ASSUME NEW k \in 1 .. Len(input_queue), input_queue[k] = Add(c)
                 PROVE  Came(c) \/ InFlight(c)'
      BY DEF InFlight
    <2>1. \/ k = s /\ input_queue[k] = Head(input_queue)
          \/ k - s \in 1 .. Len(input_queue') /\ input_queue'[k - s] = input_queue[k]
      BY DEF Shifted
    <2>2. CASE k = s /\ input_queue[k] = Head(input_queue)
      BY <2>2 DEF Shifted, Came
    <2>3. CASE k - s \in 1 .. Len(input_queue') /\ input_queue'[k - s] = input_queue[k]
      BY <2>3 DEF InFlight
    <2> QED BY <2>1, <2>2, <2>3
  <1>8. InFlight(c) \/ core[i] = c \/ EndsInQueue(c)
    BY <1>2 DEF Streaming, RegisteredIsServed
  <1> QED BY <1>2, <1>5, <1>6, <1>7, <1>8

(* and one in the scheduler, or on its way there, is still backed.         *)
LEMMA EngineIsBacked ==
    ASSUME Streaming, Typed', UNCHANGED outside, engine \notin {"dead", "exited"},
           NEW s, Shifted(s), NEW O, Works(O)
    PROVE  OrphansAreAborted'
  <1> USE EngineClientAssumption DEF EngineClientAssumption
  <1>1. UNCHANGED <<request_states, unsent, reqs_to_abort, swept>>
    BY DEF outside, table, threads, handling, closing
  <1>2. /\ \A i \in Id : core[i] # None => request_states[i] = core[i] \/ AbortComing(i, 1)
        /\ \A k \in 1 .. Len(input_queue) : LET c == input_queue[k].call IN
              c # None => request_states[IdOf[c]] = c \/ AbortComing(IdOf[c], k)
    BY DEF Streaming, OrphansAreAborted
  <1>3. /\ \A k \in 1 .. Len(input_queue) : input_queue[k].call \in Call \union {None}
        /\ \A i \in Id : core[i] \in Call \union {None}
    <2>1. input_queue \in Seq(Message) /\ core \in [Id -> Call \union {None}]
      BY DEF Streaming, Typed
    <2>2. \A k \in 1 .. Len(input_queue) : input_queue[k] \in Message
      BY <2>1
    <2> QED BY <2>1, <2>2 DEF Message
  <1>4. /\ \A i \in Id : \A from \in Nat : AbortComing(i, from) <=> AbortNow(i) \/ AbortAt(i, from)
        /\ \A i \in Id : AbortNow(i)' <=> AbortNow(i)
    BY <1>1 DEF AbortComing, AbortNow, AbortAt
  <1>5. \A i \in Id : \A from \in Nat : AbortComing(i, from)' <=> AbortNow(i)' \/ AbortAt(i, from)'
    BY DEF AbortComing, AbortNow, AbortAt
  <1>6. ASSUME NEW i \in Id, NEW k \in 1 .. Len(input_queue'), AbortComing(i, k + s)
        PROVE  AbortComing(i, k)'
    <2>1. CASE AbortNow(i)
      BY <1>4, <1>5, <2>1
    <2>2. CASE AbortAt(i, k + s)
      <3>1. PICK l \in k + s .. Len(input_queue) : input_queue[l].type = "ABORT" /\ i \in input_queue[l].ids
        BY <2>2 DEF AbortAt
      <3>2. l - s \in k .. Len(input_queue') /\ input_queue'[l - s] = input_queue[l]
        BY <3>1 DEF Shifted
      <3> QED BY <1>5, <3>1, <3>2 DEF AbortAt
    <2>3. k + s \in Nat
      BY DEF Shifted
    <2> QED BY <1>4, <1>6, <2>1, <2>2, <2>3
  <1>7. ASSUME NEW k \in 1 .. Len(input_queue') PROVE Backed(k)'
    <2>1. k + s \in 1 .. Len(input_queue) /\ input_queue'[k] = input_queue[k + s]
      BY DEF Shifted
    <2> SUFFICES ASSUME NEW d \in Call, input_queue'[k].call = d
                 PROVE  request_states'[IdOf[d]] = d \/ AbortComing(IdOf[d], k)'
      BY <1>3, <2>1 DEF Backed
    <2>2. request_states[IdOf[d]] = d \/ AbortComing(IdOf[d], k + s)
      BY <1>2, <2>1
    <2> QED BY <1>1, <1>6, <2>2
  <1>8. ASSUME NEW i \in Id, NEW d \in Call, core'[i] = d
        PROVE  request_states[i] = d \/ AbortComing(i, 1)'
    <2>1. IdOf[d] = i /\ ~Aborted(i)
      BY <1>8 DEF Works, Acts
    <2>2. core[i] = d \/ Came(d)
      BY <1>8, <2>1 DEF Works, Acts, WorksOn
    <2>3. request_states[i] = d \/ AbortComing(i, 1)
      <3>1. CASE core[i] = d
        BY <1>2, <3>1
      <3>2. CASE Came(d)
        <4>1. 1 \in 1 .. Len(input_queue) /\ input_queue[1].call = d
          <5>1. Adds(1, d)
            BY <3>2, CameFacts
          <5> QED BY <5>1 DEF Adds, Add
        <4> QED BY <1>2, <2>1, <4>1
      <3> QED BY <2>2, <3>1, <3>2
    <2>4. ASSUME AbortAt(i, 1) PROVE AbortAt(i, 1)'
      <3>1. PICK l \in 1 .. Len(input_queue) : input_queue[l].type = "ABORT" /\ i \in input_queue[l].ids
        BY <2>4 DEF AbortAt
      <3>2. \/ l = s /\ input_queue[l] = Head(input_queue)
            \/ l - s \in 1 .. Len(input_queue') /\ input_queue'[l - s] = input_queue[l]
        BY DEF Shifted
      <3>3. CASE l = s /\ input_queue[l] = Head(input_queue)
        BY <2>1, <3>1, <3>3 DEF Shifted, Aborted
      <3>4. CASE l - s \in 1 .. Len(input_queue') /\ input_queue'[l - s] = input_queue[l]
        BY <3>1, <3>4 DEF AbortAt
      <3> QED BY <3>2, <3>3, <3>4
    <2> QED BY <1>4, <1>5, <2>3, <2>4
  <1>9. \A i \in Id : core'[i] \in Call \union {None}
    BY DEF Typed
  <1> QED BY <1>1, <1>7, <1>8, <1>9 DEF OrphansAreAborted, Backed

(* Every step of the engine thread, but for its death.                     *)
LEMMA EngineKeeps ==
    ASSUME Streaming, Typed', UNCHANGED outside, engine \notin {"dead", "exited"}, engine' # "dead",
           NEW O \in OutputsType, Works(O)
    PROVE  Streaming'
  <1>1. PICK s : Shifted(s)
    <2>1. input_queue \in Seq(Message)
      BY DEF Streaming, Typed
    <2>2. input_queue' = input_queue \/ Popped
      BY DEF Works, Acts
    <2> QED BY <2>1, <2>2, QueueShifts
  <1>2. Extended(O)
    BY QueueExtends DEF Streaming, Typed, Works
  <1>3. OnePlace' /\ TokensFollow' /\ RegisteredIsServed' /\ OrphansAreAborted'
    <2>1. UNCHANGED <<table, consumers>> /\ Grows(O) /\ Acts(O) /\ emitted' \in [Call -> Nat]
      BY <1>2 DEF outside, Extended, Works, Typed
    <2> QED BY <1>1, <2>1, EngineKeepsPlace, EngineKeepsTokens, EngineServes, EngineIsBacked
  <1>4. Slots'
    <2>1. UNCHANGED <<table, client, received>>
      BY DEF outside, consumers
    <2> QED BY <2>1 DEF table, Streaming, Slots, Slot, Owed, Submitted
  <1>5. Table'
    <2>1. UNCHANGED <<request_states, ending, client>>
      BY DEF outside, table, consumers
    <2>2. \A i \in Id : core'[i] # None => IdOf[core'[i]] = i
      BY DEF Works, Acts
    <2> QED BY <2>1, <2>2 DEF Streaming, Table, Held, Open, Submitted
  <1>6. AbortsAreOver'
    <2>1. UNCHANGED <<unsent, reqs_to_abort, swept, ending>>
      BY DEF outside, table, threads, handling, closing
    <2>2. ASSUME NEW i \in Id, AbortAt(i, 1)' PROVE AbortAt(i, 1)
      <3>1. PICK l \in 1 .. Len(input_queue') : input_queue'[l].type = "ABORT" /\ i \in input_queue'[l].ids
        BY <2>2 DEF AbortAt
      <3>2. l + s \in 1 .. Len(input_queue) /\ input_queue'[l] = input_queue[l + s]
        BY <1>1 DEF Shifted
      <3> QED BY <3>1, <3>2 DEF AbortAt
    <2>3. \A i \in Id : AbortComing(i, 1)' => AbortComing(i, 1)
      BY <2>1, <2>2 DEF AbortComing, AbortAt
    <2> QED BY <2>1, <2>3 DEF Streaming, AbortsAreOver
  <1>7. Queued'
    <2>1. ASSUME NEW k \in 1 .. Len(input_queue')
          PROVE  LET m == input_queue'[k] IN IF m.call = None THEN m.type # "ADD" ELSE m = Add(m.call)
      <3>1. k + s \in 1 .. Len(input_queue) /\ input_queue'[k] = input_queue[k + s]
        BY <1>1 DEF Shifted
      <3> QED BY <3>1 DEF Streaming, Queued
    <2>2. ASSUME NEW k \in 1 .. Len(output_queue')
          PROVE  LET f == output_queue'[k] IN
                 /\ f.type = "DEAD" => f = EngineDead
                 /\ \A i \in DOMAIN f.outputs : IdOf[f.outputs[i].call] = i
      <3>1. CASE k \in 1 .. Len(output_queue)
        <4>1. output_queue'[k] = output_queue[k]
          BY <1>2, <3>1 DEF Extended
        <4> QED BY <3>1, <4>1 DEF Streaming, Queued
      <3>2. CASE k \notin 1 .. Len(output_queue)
        <4>1. output_queue'[k] = Frame(O)
          BY <1>2, <3>2 DEF Extended
        <4>2. \A i \in DOMAIN O : IdOf[O[i].call] = i
          BY DEF Works, Acts
        <4> QED BY <4>1, <4>2 DEF Frame
      <3> QED BY <3>1, <3>2
    <2> QED BY <2>1, <2>2 DEF Queued
  <1>8. DeadIsTold'
    <2>1. UNCHANGED <<engine_dead, handler, reqs_to_abort, swept, closer>>
      BY DEF outside, threads, handling, closing, flags
    <2>2. /\ \A k \in 1 .. Len(output_queue) : output_queue[k] # EngineDead
          /\ ~engine_dead /\ handler \notin {"caught", "propagating", "ended"}
          /\ (reqs_to_abort # {} => handler = "aborting") /\ (swept # {} => closer = "sweeping")
      BY DEF Streaming, DeadIsTold
    <2>3. Frame(O) # EngineDead
      BY DEF Frame, EngineDead
    <2>4. \A k \in 1 .. Len(output_queue') : output_queue'[k] # EngineDead
      BY <1>2, <2>2, <2>3 DEF Extended
    <2> QED BY <2>1, <2>2, <2>4 DEF DeadIsTold
  <1> QED BY <1>3, <1>4, <1>5, <1>6, <1>7, <1>8 DEF Streaming

(* A step that puts nothing out. *)
NoOutputs == [i \in {} |-> Output(None, << >>, FALSE)]
LEMMA NothingOut ==
    /\ NoOutputs \in OutputsType /\ DOMAIN NoOutputs = {}
    /\ \A c : ~Out(NoOutputs, c)
    /\ UNCHANGED output_queue => PutOutputs(NoOutputs)
  <1>1. DOMAIN NoOutputs = {} /\ NoOutputs \in [{} -> OutputType]
    BY DEF NoOutputs
  <1>2. NoOutputs \in OutputsType
    <2>1. {} \in SUBSET Id
      OBVIOUS
    <2> QED BY <1>1, <2>1 DEF OutputsType
  <1> QED BY <1>1, <1>2 DEF Out, PutOutputs

(* The queues keep their type. *)
LEMMA PoppedTyped ==
    ASSUME input_queue \in Seq(Message), Popped
    PROVE  /\ input_queue' \in Seq(Message) /\ Head(input_queue) \in Message
           /\ Head(input_queue) = input_queue[1] /\ 1 \in 1 .. Len(input_queue)
  BY QueueFacts DEF Popped

(* What is put out is a frame like any other. *)
LEMMA PutOutTyped ==
    ASSUME output_queue \in Seq(FrameType), NEW O \in OutputsType, PutOutputs(O)
    PROVE  output_queue' \in Seq(FrameType)
  <1>1. Frame(O) \in FrameType
    BY DEF Frame, FrameType
  <1>2. Append(output_queue, Frame(O)) \in Seq(FrameType)
    BY <1>1, QueueFacts
  <1> QED BY <1>2 DEF PutOutputs, Frame

(* The requests in the scheduler are there under their ids. *)
LEMMA LiveFacts ==
    ASSUME Streaming, NEW c
    PROVE  c \in Live <=> c \in Call /\ core[IdOf[c]] = c
  <1> USE EngineClientAssumption DEF EngineClientAssumption
  <1>1. \A i \in Id : core[i] \in Call \union {None} /\ (core[i] # None => IdOf[core[i]] = i)
    BY DEF Streaming, Typed, Table
  <1>2. ASSUME c \in Live PROVE c \in Call /\ core[IdOf[c]] = c
    <2>1. PICK i \in Id : core[i] = c /\ c # None
      BY <1>2 DEF Live
    <2> QED BY <1>1, <2>1
  <1>3. ASSUME c \in Call, core[IdOf[c]] = c PROVE c \in Live
    <2>1. IdOf[c] \in Id /\ c # None
      BY <1>3
    <2> QED BY <1>3, <2>1 DEF Live
  <1> QED BY <1>2, <1>3

(* What a call in the scheduler has put out is within its limit. *)
LEMMA LiveBounds ==
    ASSUME Streaming, NEW c \in Call
    PROVE  /\ emitted[c] \in Nat /\ MaxTokens[c] \in Nat /\ emitted[c] <= MaxTokens[c]
           /\ core[IdOf[c]] = c => emitted[c] < MaxTokens[c] /\ Open(c)
  <1> USE EngineClientAssumption DEF EngineClientAssumption
  <1>1. emitted[c] \in Nat /\ MaxTokens[c] \in Nat
    BY DEF Streaming, Typed
  <1> QED BY <1>1 DEF Streaming, TokensFollow, OnePlace

(* send_finish_outputs: a last output for each. *)
FinishOf(calls) == [i \in {IdOf[c] : c \in calls} |->
                       Output(CHOOSE c \in calls : IdOf[c] = i, << >>, TRUE)]
LEMMA FinishFacts ==
    ASSUME NEW calls \in SUBSET Call, \A c, d \in calls : IdOf[c] = IdOf[d] => c = d
    PROVE  /\ FinishOf(calls) \in OutputsType
           /\ \A i \in DOMAIN FinishOf(calls) : IdOf[FinishOf(calls)[i].call] = i
           /\ \A c \in Call : Out(FinishOf(calls), c) <=> c \in calls
           /\ \A c \in calls : /\ FinishOf(calls)[IdOf[c]].finished
                               /\ FinishOf(calls)[IdOf[c]].tokens = << >>
  <1> USE EngineClientAssumption DEF EngineClientAssumption
  <1> DEFINE O == FinishOf(calls)
  <1>1. DOMAIN O = {IdOf[c] : c \in calls}
    BY DEF FinishOf
  <1>2. ASSUME NEW c \in calls
        PROVE  O[IdOf[c]] = [call |-> c, tokens |-> << >>, finished |-> TRUE]
    <2>1. (CHOOSE d \in calls : IdOf[d] = IdOf[c]) = c
      <3> DEFINE e == CHOOSE d \in calls : IdOf[d] = IdOf[c]
      <3>1. e \in calls /\ IdOf[e] = IdOf[c]
        OBVIOUS
      <3> HIDE DEF e
      <3>2. e = c
        BY <3>1
      <3> QED BY <3>2 DEF e
    <2>2. O[IdOf[c]] = Output(CHOOSE d \in calls : IdOf[d] = IdOf[c], << >>, TRUE)
      BY DEF FinishOf
    <2> QED BY <2>1, <2>2 DEF Output
  <1>3. << >> \in Tokened
    BY DEF Tokened
  <1>4. \A i \in DOMAIN O : \E c \in calls : i = IdOf[c]
    BY <1>1
  <1>11. O = [i \in DOMAIN O |-> O[i]]
    <2> DEFINE e(i) == Output(CHOOSE c \in calls : IdOf[c] = i, << >>, TRUE)
               S == {IdOf[c] : c \in calls}
    <2>1. O = [i \in S |-> e(i)]
      BY DEF FinishOf
    <2> HIDE DEF e, S, O
    <2>2. DOMAIN O = S /\ \A i \in S : O[i] = e(i)
      BY <2>1
    <2> QED BY <2>1, <2>2
  <1> HIDE DEF O
  <1>10. \A c \in calls : /\ O[IdOf[c]].call = c /\ O[IdOf[c]].tokens = << >>
                         /\ O[IdOf[c]].finished = TRUE /\ O[IdOf[c]] \in OutputType
    <2> TAKE c \in calls
    <2>1. O[IdOf[c]] = [call |-> c, tokens |-> << >>, finished |-> TRUE]
      BY <1>2
    <2> QED BY <1>3, <2>1 DEF OutputType
  <1>5. O \in [DOMAIN O -> OutputType]
    <2>1. ASSUME NEW i \in DOMAIN O PROVE O[i] \in OutputType
      <3>1. PICK c \in calls : i = IdOf[c]
        BY <1>4
      <3> QED BY <1>10, <3>1
    <2> QED BY <1>11, <2>1
  <1>6. DOMAIN O \in SUBSET Id
    BY <1>1
  <1>7. O \in OutputsType
    BY <1>5, <1>6 DEF OutputsType
  <1>8. ASSUME NEW i \in DOMAIN O PROVE IdOf[O[i].call] = i
    <2>1. PICK c \in calls : i = IdOf[c]
      BY <1>4
    <2> QED BY <1>10, <2>1
  <1>9. ASSUME NEW c \in Call PROVE Out(O, c) <=> c \in calls
    <2>1. ASSUME Out(O, c) PROVE c \in calls
      <3>1. PICK d \in calls : IdOf[c] = IdOf[d]
        BY <1>4, <2>1 DEF Out
      <3>2. O[IdOf[d]].call = c
        BY <2>1, <3>1 DEF Out
      <3> QED BY <1>10, <3>2
    <2>2. ASSUME c \in calls PROVE Out(O, c)
      BY <1>1, <1>10, <2>2 DEF Out
    <2> QED BY <2>1, <2>2
  <1> QED BY <1>7, <1>8, <1>9, <1>10 DEF O

(* handle_shutdown: in abort mode all that is scheduled ends, and says so. *)
LEMMA ShutdownHandled ==
    ASSUME Streaming, handle_shutdown
    PROVE  Streaming'
  <1> USE EngineClientAssumption DEF EngineClientAssumption
  <1>1. /\ engine = "top" /\ engine' \in {"polling", "exited"}
        /\ UNCHANGED <<outside, input_queue, emitted>>
    BY DEF handle_shutdown
  <1>2. shutdown_state' \in {"running", "requested", "shutting_down"} /\ Typed
    BY DEF handle_shutdown, Streaming, Typed
  <1>3. UNCHANGED <<client, received, collector, request_states, output_tokens, sent, ending,
                    unsent, reqs_to_abort, swept, handler, closer, input_queue, emitted>>
    BY <1>1 DEF outside, table, consumers, threads, handling, closing
  <1>4. ~Popped /\ \A i : ~Came(i) /\ ~Aborted(i)
    <2>1. input_queue \in Seq(Message)
      BY <1>2 DEF Typed
    <2>2. ~Popped
      BY <1>1, <2>1, QueueFacts DEF Popped
    <2> QED BY <2>2 DEF Came, Aborted
  <1>5. \A c \in Call : /\ emitted[c] \in Nat /\ emitted[c] <= MaxTokens[c]
                        /\ core[IdOf[c]] = c => emitted[c] < MaxTokens[c]
    BY LiveBounds
  <1>6. CASE shutdown_state = "requested" /\ AbortMode
    <2> DEFINE O == FinishOf(Live)
    <2>1. core' = [i \in Id |-> None] /\ PutOutputs(O)
      BY <1>6 DEF handle_shutdown, AbortOutputs, FinishOf
    <2>2. Live \in SUBSET Call /\ \A c, d \in Live : IdOf[c] = IdOf[d] => c = d
      BY LiveFacts
    <2>3. /\ O \in OutputsType
          /\ \A i \in DOMAIN O : IdOf[O[i].call] = i
          /\ \A c \in Call : Out(O, c) <=> c \in Live
          /\ \A c \in Live : O[IdOf[c]].finished /\ O[IdOf[c]].tokens = << >>
      BY <2>2, FinishFacts
    <2> HIDE DEF O
    <2>4. ASSUME NEW c \in Call PROVE WorksOn(O, c)
      <3>1. core'[IdOf[c]] = None /\ None # c
        BY <2>1
      <3>2. Out(O, c) <=> core[IdOf[c]] = c
        BY <2>3, LiveFacts
      <3>3. Out(O, c) => O[IdOf[c]].finished /\ O[IdOf[c]].tokens = << >>
        BY <2>3
      <3> QED BY <1>3, <1>4, <1>5, <3>1, <3>2, <3>3 DEF WorksOn
    <2>5. Works(O)
      BY <1>3, <1>4, <2>1, <2>3, <2>4 DEF Works, Acts
    <2>6. Typed'
      BY <1>1, <1>2, <1>3, <2>1, <2>3, PutOutTyped DEF Typed
    <2> QED BY <1>1, <2>3, <2>5, <2>6, EngineKeeps
  <1>7. CASE ~(shutdown_state = "requested" /\ AbortMode)
    <2>1. UNCHANGED <<core, output_queue>>
      BY <1>7 DEF handle_shutdown
    <2>2. ASSUME NEW c \in Call PROVE WorksOn(NoOutputs, c)
      <3>1. core[IdOf[c]] = c => emitted[c] < MaxTokens[c]
        BY <1>5
      <3> QED BY <1>3, <1>4, <2>1, <3>1, NothingOut DEF WorksOn
    <2>3. Works(NoOutputs)
      BY <1>3, <1>4, <2>1, <2>2, NothingOut DEF Works, Acts, Streaming, Table
    <2>4. Typed'
      BY <1>1, <1>2, <1>3, <2>1 DEF Typed
    <2> QED BY <1>1, <2>3, <2>4, NothingOut, EngineKeeps
  <1> QED BY <1>6, <1>7

(* process_input_queue takes one entry. *)
LEMMA TakingFacts ==
    ASSUME Streaming, NEW type, Taking(type)
    PROVE  /\ Popped /\ Head(input_queue).type = type
           /\ UNCHANGED <<outside, emitted, shutdown_state>>
           /\ engine \notin {"dead", "exited"} /\ engine' \in {"polling", "draining"}
           /\ type # "ADD" => \A c \in Call : ~Came(c)
           /\ Head(input_queue) \in Message
           /\ core' \in [Id -> Call \union {None}] /\ output_queue' \in Seq(FrameType) => Typed'
  <1>1. /\ Popped /\ Head(input_queue).type = type
        /\ UNCHANGED <<outside, emitted, shutdown_state>>
        /\ engine \notin {"dead", "exited"} /\ engine' \in {"polling", "draining"}
    BY DEF Taking, Popped
  <1>2. type # "ADD" => \A c \in Call : ~Came(c)
    BY <1>1 DEF Came, Add
  <1>3. UNCHANGED <<client, received, collector, request_states, output_tokens, sent, ending,
                    unsent, reqs_to_abort, swept, handler, closer, emitted, shutdown_state>>
    BY <1>1 DEF outside, table, consumers, threads, handling, closing
  <1>4. Head(input_queue) \in Message /\ input_queue' \in Seq(Message)
    BY <1>1, PoppedTyped DEF Streaming, Typed
  <1>5. core' \in [Id -> Call \union {None}] /\ output_queue' \in Seq(FrameType) => Typed'
    BY <1>1, <1>3, <1>4 DEF Streaming, Typed
  <1> QED BY <1>1, <1>2, <1>4, <1>5

(* The ids of an abort leave the scheduler: nobody is registered under     *)
(* them.                                                                   *)
LEMMA AbortHandled ==
    ASSUME Streaming, HandleAbort
    PROVE  Streaming'
  <1> USE EngineClientAssumption DEF EngineClientAssumption
  <1> DEFINE ids == Head(input_queue).ids
  <1>0. Taking("ABORT")
    BY DEF HandleAbort
  <1>1. UNCHANGED output_queue /\ core' = [i \in Id |-> IF i \in ids THEN None ELSE core[i]]
    BY DEF HandleAbort
  <1>2. /\ Popped /\ Head(input_queue).type = "ABORT" /\ UNCHANGED outside /\ UNCHANGED emitted
        /\ engine \notin {"dead", "exited"} /\ engine' # "dead"
        /\ \A c \in Call : ~Came(c)
        /\ core' \in [Id -> Call \union {None}] /\ output_queue' \in Seq(FrameType) => Typed'
    BY <1>0, TakingFacts
  <1>3. core \in [Id -> Call \union {None}] /\ output_queue \in Seq(FrameType)
        /\ \A i \in Id : core[i] # None => IdOf[core[i]] = i
    BY DEF Streaming, Typed, Table
  <1>4. Typed'
    BY <1>1, <1>2, <1>3
  <1>5. \A i : i \in ids => Aborted(i)
    BY <1>2 DEF Aborted
  <1>6. \A i : Aborted(i) => i \in ids
    BY DEF Aborted
  <1> HIDE DEF ids
  <1>7. ASSUME NEW c \in Call PROVE WorksOn(NoOutputs, c)
    <2>1. /\ emitted'[c] = emitted[c]
          /\ core[IdOf[c]] = c => emitted[c] < MaxTokens[c]
      BY <1>2, LiveBounds
    <2>2. IdOf[c] \in Id /\ c # None
      OBVIOUS
    <2> QED BY <1>1, <1>2, <1>5, <2>1, <2>2, NothingOut DEF WorksOn
  <1>8. Works(NoOutputs)
    BY <1>1, <1>2, <1>3, <1>6, <1>7, NothingOut DEF Works, Acts
  <1> QED BY <1>2, <1>4, <1>8, NothingOut, EngineKeeps

(* A wake-up is taken and nothing else. *)
LEMMA WakeupHandled ==
    ASSUME Streaming, HandleWakeup
    PROVE  Streaming'
  <1> USE EngineClientAssumption DEF EngineClientAssumption
  <1>1. Taking("WAKEUP") /\ UNCHANGED <<core, output_queue>>
    BY DEF HandleWakeup
  <1>2. /\ Popped /\ Head(input_queue).type = "WAKEUP" /\ UNCHANGED outside /\ UNCHANGED emitted
        /\ engine \notin {"dead", "exited"} /\ engine' # "dead"
        /\ \A c \in Call : ~Came(c)
        /\ core' \in [Id -> Call \union {None}] /\ output_queue' \in Seq(FrameType) => Typed'
    BY <1>1, TakingFacts
  <1>3. core \in [Id -> Call \union {None}] /\ output_queue \in Seq(FrameType)
        /\ \A i \in Id : core[i] # None => IdOf[core[i]] = i
    BY DEF Streaming, Typed, Table
  <1>4. Typed'
    BY <1>1, <1>2, <1>3
  <1>5. \A i : ~Aborted(i)
    BY <1>2 DEF Aborted
  <1>6. ASSUME NEW c \in Call PROVE WorksOn(NoOutputs, c)
    <2>1. /\ emitted'[c] = emitted[c]
          /\ core[IdOf[c]] = c => emitted[c] < MaxTokens[c]
      BY <1>2, LiveBounds
    <2> QED BY <1>1, <1>2, <2>1, NothingOut DEF WorksOn
  <1>7. Works(NoOutputs)
    BY <1>1, <1>2, <1>3, <1>5, <1>6, NothingOut DEF Works, Acts
  <1> QED BY <1>2, <1>4, <1>7, NothingOut, EngineKeeps

(* A request comes into the scheduler, or is refused with a last output    *)
(* once the core is shutting down.                                         *)
LEMMA AddHandled ==
    ASSUME Streaming, HandleAdd
    PROVE  Streaming'
  <1> USE EngineClientAssumption DEF EngineClientAssumption
  <1>0. Taking("ADD")
    BY DEF HandleAdd
  <1>1. PICK c \in Call : Head(input_queue) = Add(c)
    <2>1. Head(input_queue).type = "ADD" /\ Popped
      BY <1>0, TakingFacts
    <2>2. Head(input_queue) = input_queue[1] /\ 1 \in 1 .. Len(input_queue) /\ Head(input_queue) \in Message
      BY <2>1, PoppedTyped DEF Streaming, Typed
    <2>3. LET m == Head(input_queue) IN IF m.call = None THEN m.type # "ADD" ELSE m = Add(m.call)
      BY <2>2 DEF Streaming, Queued
    <2>4. Head(input_queue).call \in Call \union {None}
      BY <2>2 DEF Message
    <2> QED BY <2>1, <2>3, <2>4
  <1>2. /\ Popped /\ Head(input_queue).type = "ADD" /\ UNCHANGED outside /\ UNCHANGED emitted
        /\ engine \notin {"dead", "exited"} /\ engine' # "dead"
        /\ core' \in [Id -> Call \union {None}] /\ output_queue' \in Seq(FrameType) => Typed'
    BY <1>0, TakingFacts
  <1>3. /\ core \in [Id -> Call \union {None}] /\ output_queue \in Seq(FrameType)
        /\ \A i \in Id : core[i] # None => IdOf[core[i]] = i
    BY DEF Streaming, Typed, Table
  <1>4. /\ Came(c) /\ Open(c) /\ core[IdOf[c]] # c /\ emitted[c] = 0
        /\ \A d \in Call : Came(d) => d = c
    <2>1. Came(c)
      BY <1>1, <1>2 DEF Came
    <2>2. \A d \in Call : Came(d) => d = c
      BY <1>1 DEF Came, Add
    <2> QED BY <2>1, <2>2, CameFacts
  <1>5. \A i : ~Aborted(i)
    BY <1>2 DEF Aborted
  <1>6. \A d \in Call : core[IdOf[d]] = d => IdOf[d] # IdOf[c]
    <2> SUFFICES ASSUME NEW d \in Call, core[IdOf[d]] = d, IdOf[d] = IdOf[c] PROVE FALSE
      OBVIOUS
    <2>1. Open(d)
      BY LiveBounds
    <2>2. d = c
      BY <1>4, <2>1 DEF Streaming, Table
    <2> QED BY <1>4, <2>2
  <1>7. IdOf[c] \in Id /\ c # None /\ MaxTokens[c] \in Nat /\ MaxTokens[c] > 0
    OBVIOUS
  <1>8. CASE shutdown_state = "running"
    <2>1. core' = [core EXCEPT ![IdOf[c]] = c] /\ UNCHANGED output_queue
      BY <1>1, <1>8 DEF HandleAdd, Add
    <2>2. Typed'
      BY <1>2, <1>3, <1>7, <2>1
    <2>3. ASSUME NEW d \in Call PROVE WorksOn(NoOutputs, d)
      <3>1. core[IdOf[d]] = d => emitted[d] < MaxTokens[d]
        BY LiveBounds
      <3>2. core'[IdOf[d]] = IF IdOf[d] = IdOf[c] THEN c ELSE core[IdOf[d]]
        BY <1>3, <2>1
      <3>3. CASE d = c
        BY <1>2, <1>4, <1>7, <3>2, <3>3, NothingOut DEF WorksOn
      <3>4. CASE d # c
        BY <1>2, <1>4, <1>6, <3>1, <3>2, <3>4, NothingOut DEF WorksOn
      <3> QED BY <3>3, <3>4
    <2>4. Works(NoOutputs)
      BY <1>2, <1>3, <1>5, <1>7, <2>1, <2>3, NothingOut DEF Works, Acts
    <2> QED BY <1>2, <2>2, <2>4, NothingOut, EngineKeeps
  <1>9. CASE shutdown_state # "running"
    <2> DEFINE O == FinishOf({c})
    <2>1. UNCHANGED core /\ PutOutputs(O)
      <3>1. Head(input_queue).call = c
        BY <1>1 DEF Add
      <3>2. UNCHANGED core /\ AbortOutputs({Head(input_queue).call})
        BY <1>9 DEF HandleAdd
      <3>3. AbortOutputs({c})
        BY <3>1, <3>2
      <3> QED BY <3>2, <3>3 DEF AbortOutputs, FinishOf
    <2>2. /\ O \in OutputsType
          /\ \A i \in DOMAIN O : IdOf[O[i].call] = i
          /\ \A d \in Call : Out(O, d) <=> d \in {c}
          /\ \A d \in {c} : O[IdOf[d]].finished /\ O[IdOf[d]].tokens = << >>
      BY FinishFacts
    <2> HIDE DEF O
    <2>3. Typed'
      BY <1>2, <1>3, <2>1, <2>2, PutOutTyped
    <2>4. ASSUME NEW d \in Call PROVE WorksOn(O, d)
      <3>1. core[IdOf[d]] = d => emitted[d] < MaxTokens[d]
        BY LiveBounds
      <3>2. CASE d = c
        BY <1>2, <1>4, <1>7, <2>1, <2>2, <3>2 DEF WorksOn
      <3>3. CASE d # c
        BY <1>2, <1>4, <2>1, <2>2, <3>1, <3>3 DEF WorksOn
      <3> QED BY <3>2, <3>3
    <2>5. Works(O)
      BY <1>2, <1>3, <1>5, <2>1, <2>2, <2>4 DEF Works, Acts
    <2> QED BY <1>2, <2>2, <2>3, <2>5, EngineKeeps
  <1> QED BY <1>8, <1>9

(* A step gives tokens to some of the requests in the scheduler.           *)
LEMMA StepHandled ==
    ASSUME Streaming, NEW given \in SUBSET Live, NEW finishing \in SUBSET given,
           ProcessStep(given, finishing)
    PROVE  Streaming'
  <1> USE EngineClientAssumption DEF EngineClientAssumption
  <1> DEFINE S == {IdOf[c] : c \in given}
             e(i) == Output(core[i], <<<<core[i], emitted[core[i]] + 1>>>>, core[i] \in finishing)
             P == [i \in S |-> e(i)]
  <1>0. PICK O : O = P
    OBVIOUS
  <1>1. /\ engine = "stepping" /\ engine' = "top" /\ PutOutputs(O)
        /\ emitted' = [c \in Call |-> IF c \in given THEN emitted[c] + 1 ELSE emitted[c]]
        /\ core' = [i \in Id |-> IF core[i] \in finishing THEN None ELSE core[i]]
        /\ UNCHANGED <<outside, input_queue, shutdown_state>>
    BY <1>0 DEF ProcessStep
  <1>2. \A c \in Call : c \in given => (c \in finishing \/ emitted[c] + 1 # MaxTokens[c])
    BY DEF ProcessStep
  <1>3. \A c \in given : c \in Call /\ core[IdOf[c]] = c /\ IdOf[c] \in Id
    BY LiveFacts
  <1>4. Typed
    BY DEF Streaming
  <1>5. \A c \in given : /\ IdOf[c] \in DOMAIN O
                         /\ O[IdOf[c]] = Output(c, <<<<c, emitted[c] + 1>>>>, c \in finishing)
    BY <1>0, <1>3
  <1>6. \A i \in DOMAIN O : \E c \in given : i = IdOf[c]
    BY <1>0
  <1>7. O = [i \in DOMAIN O |-> O[i]] /\ DOMAIN O \in SUBSET Id
    <2>1. DOMAIN O = S /\ S \in SUBSET Id
      BY <1>0, <1>3
    <2>2. O = [i \in S |-> e(i)]
      BY <1>0
    <2> HIDE DEF S, e, P
    <2>3. \A i \in S : O[i] = e(i)
      BY <2>2
    <2> QED BY <2>1, <2>2, <2>3
  <1> HIDE DEF S, e, P
  <1>8. ASSUME NEW c \in given
        PROVE  /\ O[IdOf[c]].call = c /\ O[IdOf[c]].tokens = <<<<c, emitted[c] + 1>>>>
               /\ O[IdOf[c]].finished = (c \in finishing) /\ O[IdOf[c]] \in OutputType
    <2>1. <<<<c, emitted[c] + 1>>>> \in Tokened
      BY <1>3, <1>4 DEF Typed, Tokened
    <2>2. O[IdOf[c]] = Output(c, <<<<c, emitted[c] + 1>>>>, c \in finishing) /\ c \in Call
      BY <1>3, <1>5
    <2> QED BY <2>1, <2>2 DEF Output, OutputType
  <1>9. O \in OutputsType
    <2>1. \A i \in DOMAIN O : O[i] \in OutputType
      BY <1>6, <1>8
    <2> QED BY <1>7, <2>1 DEF OutputsType
  <1>10. \A i \in DOMAIN O : IdOf[O[i].call] = i
    BY <1>6, <1>8
  <1>11. \A c \in Call : Out(O, c) <=> c \in given
    <2> TAKE c \in Call
    <2>1. ASSUME Out(O, c) PROVE c \in given
      <3>1. PICK d \in given : IdOf[c] = IdOf[d]
        BY <1>6, <2>1 DEF Out
      <3>2. O[IdOf[d]].call = c
        BY <2>1, <3>1 DEF Out
      <3> QED BY <1>8, <3>2
    <2>2. ASSUME c \in given PROVE Out(O, c)
      BY <1>5, <1>8, <2>2 DEF Out
    <2> QED BY <2>1, <2>2
  <1>12. ~Popped /\ \A i : ~Came(i) /\ ~Aborted(i)
    <2>1. input_queue \in Seq(Message)
      BY <1>4 DEF Typed
    <2>2. ~Popped
      BY <1>1, <2>1, QueueFacts DEF Popped
    <2> QED BY <2>2 DEF Came, Aborted
  <1>13. ASSUME NEW c \in Call PROVE WorksOn(O, c)
    <2>1. /\ emitted[c] \in Nat /\ MaxTokens[c] \in Nat
          /\ core[IdOf[c]] = c => emitted[c] < MaxTokens[c]
      BY LiveBounds
    <2>2. core'[IdOf[c]] = IF core[IdOf[c]] \in finishing THEN None ELSE core[IdOf[c]]
      BY <1>1
    <2>3. core'[IdOf[c]] = c <=> core[IdOf[c]] = c /\ c \notin finishing
      <3>1. c # None
        OBVIOUS
      <3> QED BY <2>2, <3>1
    <2>4. emitted'[c] = IF c \in given THEN emitted[c] + 1 ELSE emitted[c]
      BY <1>1
    <2>5. CASE c \in given
      <3>1. core[IdOf[c]] = c /\ Out(O, c)
        BY <1>3, <1>11, <2>5
      <3>2. O[IdOf[c]].tokens = <<<<c, emitted[c] + 1>>>> /\ O[IdOf[c]].finished = (c \in finishing)
        BY <1>8, <2>5
      <3>3. emitted'[c] = emitted[c] + 1 /\ emitted'[c] <= MaxTokens[c]
            /\ (c \notin finishing => emitted'[c] < MaxTokens[c])
        BY <1>2, <2>1, <2>4, <2>5, <3>1
      <3> QED BY <2>3, <3>1, <3>2, <3>3 DEF WorksOn
    <2>6. CASE c \notin given
      <3>1. ~Out(O, c) /\ c \notin finishing
        BY <1>11, <2>6
      <3> QED BY <1>12, <2>1, <2>3, <2>4, <2>6, <3>1 DEF WorksOn
    <2> QED BY <2>5, <2>6
  <1>14. \A i \in Id : core'[i] # None => IdOf[core'[i]] = i
    BY <1>1 DEF Streaming, Table
  <1>15. Works(O)
    BY <1>1, <1>10, <1>12, <1>13, <1>14 DEF Works, Acts
  <1>16. Typed'
    <2>1. UNCHANGED <<client, received, collector, request_states, output_tokens, sent, ending,
                      unsent, reqs_to_abort, swept, handler, closer, input_queue, shutdown_state>>
      BY <1>1 DEF outside, table, consumers, threads, handling, closing
    <2>2. output_queue' \in Seq(FrameType)
      BY <1>1, <1>4, <1>9, PutOutTyped DEF Typed
    <2>3. emitted' \in [Call -> Nat] /\ core' \in [Id -> Call \union {None}]
      BY <1>1, <1>4 DEF Typed
    <2> QED BY <1>1, <1>4, <2>1, <2>2, <2>3 DEF Typed
  <1> QED BY <1>1, <1>9, <1>15, <1>16, EngineKeeps

(* The sentinel behind what is in the output queue: when the engine dies,  *)
(* and at the end of shutdown.                                             *)
LEMMA SentinelKeeps ==
    ASSUME Streaming, output_queue' = Append(output_queue, EngineDead),
           UNCHANGED <<table, consumers, unsent, handling, swept, flags, input_queue, core, emitted,
                       shutdown_state>>,
           \/ engine' = "dead" /\ engine # "exited"
           \/ engine' = engine /\ engine \in {"dead", "exited"},
           closer' \in {"none", "started", "stopping", "sweeping", "requesting", "waking", "joining",
                        "closing", "closed"},
           swept # {} => closer' = "sweeping"
    PROVE  Streaming'
  <1> USE EngineClientAssumption DEF EngineClientAssumption
  <1> DEFINE p == Len(output_queue)
             q == Len(output_queue')
  <1>1. UNCHANGED <<client, received, collector, request_states, output_tokens, sent, ending,
                    unsent, reqs_to_abort, swept, handler, engine_dead, input_queue, core, emitted,
                    shutdown_state>>
    BY DEF table, consumers, handling, flags
  <1>0. Typed
    BY DEF Streaming
  <1>2. /\ p \in Nat /\ q = p + 1 /\ output_queue'[p + 1] = EngineDead
        /\ \A k \in 1 .. p : output_queue'[k] = output_queue[k]
        /\ output_queue' \in Seq(FrameType)
    <2>1. output_queue \in Seq(FrameType)
      BY <1>0 DEF Typed
    <2>2. << >> \in OutputsType
      <3>1. << >> \in [{} -> OutputType] /\ {} \in SUBSET Id
        OBVIOUS
      <3> QED BY <3>1 DEF OutputsType
    <2>3. EngineDead \in FrameType
      BY <2>2 DEF EngineDead, FrameType
    <2> QED BY <2>1, <2>3, QueueFacts
  <1>3. ASSUME NEW c, NEW k \in 1 .. p
        PROVE  /\ Carries(k, c)' <=> Carries(k, c)
               /\ Last(k, c)' <=> Last(k, c)
               /\ TokensAt(k, c)' = TokensAt(k, c)
    <2>1. k \in 1 .. Len(output_queue) /\ k \in 1 .. Len(output_queue') /\ output_queue'[k] = output_queue[k]
      BY <1>2
    <2> QED BY <2>1 DEF Carries, Last, TokensAt
  <1>4. ASSUME NEW c, NEW k \in 1 .. q, k \notin 1 .. p
        PROVE  /\ ~Carries(k, c)' /\ ~Last(k, c)' /\ TokensAt(k, c)' = << >> /\ k = p + 1
               /\ output_queue'[k] = EngineDead
    <2>1. k = p + 1
      BY <1>2, <1>4
    <2>2. DOMAIN output_queue'[k].outputs = {}
      BY <1>2, <2>1 DEF EngineDead
    <2> QED BY <1>2, <2>1, <2>2 DEF Carries, Last, TokensAt
  <1>5. Grows(NoOutputs)
    BY <1>2, <1>3, <1>4, NothingOut DEF Grows
  <1>6. Acts(NoOutputs)
    <2>1. ~Popped
      <3>1. input_queue \in Seq(Message)
        BY <1>0 DEF Typed
      <3> QED BY <1>1, <3>1, QueueFacts DEF Popped
    <2>2. \A i : ~Came(i) /\ ~Aborted(i)
      BY <2>1 DEF Came, Aborted
    <2>3. ASSUME NEW c \in Call PROVE WorksOn(NoOutputs, c)
      <3>1. core[IdOf[c]] = c => emitted[c] < MaxTokens[c]
        BY LiveBounds
      <3> QED BY <1>1, <2>2, <3>1, NothingOut DEF WorksOn
    <2> QED BY <1>1, <2>2, <2>3, NothingOut DEF Acts, Streaming, Table
  <1>7. PICK s : Shifted(s)
    <2>1. input_queue \in Seq(Message)
      BY <1>0 DEF Typed
    <2> QED BY <1>1, <2>1, QueueShifts
  <1>8. OnePlace' /\ TokensFollow'
    <2>1. UNCHANGED <<table, consumers>> /\ emitted' \in [Call -> Nat]
      BY <1>0, <1>1 DEF Typed
    <2> QED BY <1>5, <1>6, <1>7, <2>1, EngineKeepsPlace, EngineKeepsTokens
  <1>9. Queued'
    <2>1. ASSUME NEW k \in 1 .. q
          PROVE  LET f == output_queue'[k] IN
                 /\ f.type = "DEAD" => f = EngineDead
                 /\ \A i \in DOMAIN f.outputs : IdOf[f.outputs[i].call] = i
      <3>1. CASE k \in 1 .. p
        <4>1. output_queue'[k] = output_queue[k]
          BY <1>2, <3>1
        <4> QED BY <3>1, <4>1 DEF Streaming, Queued
      <3>2. CASE k \notin 1 .. p
        <4>1. output_queue'[k] = EngineDead
          BY <1>4, <3>2
        <4> QED BY <4>1 DEF EngineDead
      <3> QED BY <3>1, <3>2
    <2> QED BY <1>1, <2>1 DEF Streaming, Queued
  <1>10. Table' /\ Slots'
    <2>1. Table'
      BY <1>1 DEF Streaming, Table, Held, Open, Submitted
    <2>2. Slots'
      BY <1>1 DEF Streaming, Slots, Slot, Owed, Submitted
    <2> QED BY <2>1, <2>2
  <1>11. AbortsAreOver'
    BY <1>1 DEF Streaming, AbortsAreOver, AbortComing
  <1>12. DeadIsTold' /\ \E k \in 1 .. q : output_queue'[k] = EngineDead
    <2>1. \E k \in 1 .. q : output_queue'[k] = EngineDead
      BY <1>2
    <2> QED BY <1>1, <2>1 DEF Streaming, DeadIsTold
  <1>13. RegisteredIsServed'
    <2>1. CASE engine' = "dead"
      BY <1>12, <2>1 DEF RegisteredIsServed
    <2>2. CASE engine' # "dead"
      <3>1. engine # "dead" /\ UNCHANGED <<table, consumers>>
        BY <2>2
      <3> QED BY <1>5, <1>6, <1>7, <2>2, <3>1, EngineServes
    <2> QED BY <2>1, <2>2
  <1>14. OrphansAreAborted'
    BY DEF OrphansAreAborted
  <1>15. Typed'
    BY <1>0, <1>1, <1>2 DEF Typed
  <1> QED BY <1>8, <1>9, <1>10, <1>11, <1>12, <1>13, <1>14, <1>15 DEF Streaming

(* The sentinel of an engine that dies, and *)
LEMMA ThrowKeeps ==
    ASSUME Streaming, EngineThrows
    PROVE  Streaming'
  <1>1. /\ output_queue' = Append(output_queue, EngineDead) /\ engine = "stepping" /\ engine' = "dead"
        /\ UNCHANGED <<table, consumers, unsent, handling, closer, swept, flags, input_queue, core,
                       emitted, shutdown_state>>
    BY DEF EngineThrows, outside, threads, closing
  <1>2. closer \in {"none", "started", "stopping", "sweeping", "requesting", "waking", "joining",
                    "closing", "closed"} /\ (swept # {} => closer = "sweeping")
    BY DEF Streaming, Typed, DeadIsTold
  <1> QED BY <1>1, <1>2, SentinelKeeps

(* that of the closer, when the engine thread has gone. *)
LEMMA JoinKeeps ==
    ASSUME Streaming, JoinEngine
    PROVE  Streaming'
  <1>1. /\ output_queue' = Append(output_queue, EngineDead) /\ engine \in {"exited", "dead"}
        /\ engine' = engine /\ closer = "joining" /\ closer' = "closing"
        /\ UNCHANGED <<table, consumers, unsent, handling, swept, flags, input_queue, core, emitted,
                       shutdown_state>>
    BY DEF JoinEngine, inner
  <1>2. swept # {} => closer = "sweeping"
    BY DEF Streaming, DeadIsTold
  <1> QED BY <1>1, <1>2, SentinelKeeps

----------------------------------------------------------------------------
(* Steps that update registered requests.                                  *)

Pulled  == output_queue # << >> /\ output_queue' = Tail(output_queue)
Took(c) == IF Pulled THEN TokensAt(1, c) ELSE << >>
Over(c) == Pulled /\ Last(1, c)
Stops(updates, i) == \E c \in DOMAIN updates : IdOf[c] = i /\ updates[c].end \in {"stop", "abort"}

(* The updates are what the frame just pulled, if one was, brings to those *)
(* that are registered, and aborts and stops; an abort in the core is to   *)
(* follow each of these.                                                   *)
Delivers(updates) ==
    /\ AreUpdates(updates)
    /\ \A c \in Call : IF c \in DOMAIN updates THEN Given(c, updates[c]) ELSE Kept(c)
    /\ \A i \in Id : request_states'[i] \in {request_states[i], None}
    /\ output_queue' = output_queue \/ Pulled
    /\ \A c \in DOMAIN updates :
           /\ updates[c].tokens = Took(c)
           /\ updates[c].end = "core" <=> Over(c)
    /\ \A c \in Call \ DOMAIN updates : Held(c) /\ Pulled => ~Carries(1, c)
    /\ unsent \subseteq unsent' /\ reqs_to_abort \subseteq reqs_to_abort' /\ swept \subseteq swept'
    /\ \A i \in Id : /\ AbortNow(i)' => AbortNow(i) \/ Stops(updates, i)
                     /\ Stops(updates, i) => AbortNow(i)'

(* The output queue loses its head, by t places.                           *)
Drained(t) ==
    /\ t \in {0, 1} /\ (t = 1 <=> Pulled)
    /\ Len(output_queue) \in Nat /\ Len(output_queue') \in Nat
    /\ Len(output_queue') = Len(output_queue) - t
    /\ \A k \in 1 .. Len(output_queue') :
           /\ k + t \in 1 .. Len(output_queue) /\ output_queue'[k] = output_queue[k + t]
           /\ \A c : /\ Carries(k, c)' <=> Carries(k + t, c)
                     /\ Last(k, c)' <=> Last(k + t, c)
                     /\ TokensAt(k, c)' = TokensAt(k + t, c)
    /\ \A k \in 1 .. Len(output_queue) :
           \/ k = t
           \/ k - t \in 1 .. Len(output_queue') /\ output_queue'[k - t] = output_queue[k] /\ (k - t) + t = k

(* Every delivery leaves the output queue as it is or takes its head. *)
LEMMA QueueDrains ==
    ASSUME output_queue \in Seq(FrameType), output_queue' = output_queue \/ Pulled
    PROVE  \E t : Drained(t)
  <1> DEFINE p == Len(output_queue)
             q == Len(output_queue')
  <1>1. ASSUME NEW t \in {0, 1}, p \in Nat, q \in Nat, q = p - t, t = 1 <=> Pulled,
               \A k \in 1 .. q : output_queue'[k] = output_queue[k + t]
        PROVE  Drained(t)
    <2>1. ASSUME NEW k \in 1 .. q
          PROVE  /\ k + t \in 1 .. p /\ output_queue'[k] = output_queue[k + t]
                 /\ \A c : /\ Carries(k, c)' <=> Carries(k + t, c)
                           /\ Last(k, c)' <=> Last(k + t, c)
                           /\ TokensAt(k, c)' = TokensAt(k + t, c)
      <3>1. k + t \in 1 .. Len(output_queue) /\ k \in 1 .. Len(output_queue')
            /\ output_queue'[k] = output_queue[k + t]
        BY <1>1
      <3> QED BY <3>1 DEF Carries, Last, TokensAt
    <2>2. ASSUME NEW k \in 1 .. p
          PROVE  \/ k = t
                 \/ k - t \in 1 .. q /\ output_queue'[k - t] = output_queue[k] /\ (k - t) + t = k
      <3> HIDE DEF p, q
      <3>1. (k - t) + t = k
        BY <1>1
      <3>2. k = t \/ k - t \in 1 .. q
        BY <1>1
      <3> QED BY <1>1, <3>1, <3>2
    <2> QED BY <1>1, <2>1, <2>2 DEF Drained
  <1>2. p \in Nat
    OBVIOUS
  <1>3. CASE Pulled
    <2>1. /\ Tail(output_queue) \in Seq(FrameType) /\ Len(output_queue) > 0
          /\ Len(Tail(output_queue)) = Len(output_queue) - 1
          /\ \A k \in 1 .. Len(output_queue) - 1 : Tail(output_queue)[k] = output_queue[k + 1]
      BY <1>3, QueueFacts DEF Pulled
    <2>2. output_queue' = Tail(output_queue)
      BY <1>3 DEF Pulled
    <2>3. q = p - 1 /\ q \in Nat /\ \A k \in 1 .. q : output_queue'[k] = output_queue[k + 1]
      <3>1. q = p - 1 /\ p > 0
        BY <2>1, <2>2
      <3>2. q \in Nat
        BY <1>2, <3>1
      <3>3. \A k \in 1 .. p - 1 : output_queue'[k] = output_queue[k + 1]
        BY <2>1, <2>2
      <3> QED BY <3>1, <3>2, <3>3
    <2>4. Drained(1)
      BY <1>1, <1>2, <1>3, <2>3
    <2> QED BY <2>4
  <1>4. CASE ~Pulled
    <2>1. q = p - 0 /\ q \in Nat /\ \A k \in 1 .. q : output_queue'[k] = output_queue[k + 0]
      BY <1>2, <1>4
    <2>2. Drained(0)
      BY <1>1, <1>2, <1>4, <2>1
    <2> QED BY <2>2
  <1> QED BY <1>3, <1>4

(* What an update does to what is in the queues and the table: who is      *)
(* ended by the core has nothing left there.                               *)
LEMMA DeliveredFacts ==
    ASSUME Streaming, NEW updates, Delivers(updates), NEW c \in Call, Waits(c)
    PROVE  /\ Submitted(c)' <=> Submitted(c)
           /\ Held(c)' <=> Submitted(c) /\ ending'[c] = "none"
           /\ Held(c)' => Held(c)
           /\ Open(c)' => Open(c)
           /\ Open(c) /\ ~Open(c)' => Held(c) /\ Over(c)
           /\ Held(c) /\ ~Held(c)' => Over(c) \/ Stops(updates, IdOf[c])
           /\ ending[c] # "none" => ending'[c] = ending[c]
  <1>1. Held(c) <=> Submitted(c) /\ ending[c] = "none"
    BY DEF Streaming, Table
  <1>2. Submitted(c)' <=> Submitted(c)
    BY DEF Waits, Submitted
  <1>3. CASE c \in DOMAIN updates
    <2>1. /\ Held(c) /\ ending'[c] = updates[c].end /\ (Held(c)' <=> updates[c].end = "none")
          /\ updates[c].end \in {"none", "core", "stop", "abort"}
          /\ updates[c].end = "core" <=> Over(c)
      BY <1>3 DEF Delivers, AreUpdates, Given
    <2>2. updates[c].end \in {"stop", "abort"} => Stops(updates, IdOf[c])
      BY <1>3 DEF Stops
    <2> QED BY <1>1, <1>2, <2>1, <2>2 DEF Open
  <1>4. CASE c \notin DOMAIN updates
    <2>1. ending'[c] = ending[c] /\ (Held(c)' <=> Held(c))
      BY <1>4 DEF Delivers, Kept
    <2> QED BY <1>1, <1>2, <2>1 DEF Open
  <1> QED BY <1>3, <1>4

(* A request is still in one place: what was its last output was the last  *)
(* there was.                                                              *)
LEMMA DeliveryKeepsPlace ==
    ASSUME Streaming, NEW updates, Delivers(updates), \A c \in Call : Waits(c),
           UNCHANGED <<input_queue, core, emitted>>, NEW t, Drained(t)
    PROVE  OnePlace'
  <1> SUFFICES ASSUME NEW c \in Call
      PROVE  /\ \A k \in 1 .. Len(input_queue') : Adds(k, c)' =>
                    /\ Open(c)' /\ core'[IdOf[c]] # c /\ emitted'[c] = 0
                    /\ \A l \in 1 .. Len(input_queue') : Adds(l, c)' => k = l
                    /\ \A l \in 1 .. Len(output_queue') : ~Carries(l, c)'
             /\ core'[IdOf[c]] = c =>
                    /\ Open(c)' /\ emitted'[c] < MaxTokens[c]
                    /\ \A k \in 1 .. Len(output_queue') : ~Last(k, c)'
             /\ \A k \in 1 .. Len(output_queue') : Carries(k, c)' =>
                    /\ Open(c)'
                    /\ Last(k, c)' => \A l \in 1 .. Len(output_queue') : Carries(l, c)' => l <= k
    BY DEF OnePlace
  <1>1. Open(c) /\ ~Open(c)' => Over(c)
    BY DeliveredFacts
  <1>2. Over(c) => t = 1 /\ Last(1, c) /\ Carries(1, c) /\ 1 \in 1 .. Len(output_queue)
    BY DEF Over, Drained, Last, Carries
  <1>3. /\ \A k \in 1 .. Len(input_queue) : Adds(k, c) =>
               /\ Open(c) /\ core[IdOf[c]] # c /\ emitted[c] = 0
               /\ \A l \in 1 .. Len(input_queue) : Adds(l, c) => k = l
               /\ \A l \in 1 .. Len(output_queue) : ~Carries(l, c)
        /\ core[IdOf[c]] = c =>
               /\ Open(c) /\ emitted[c] < MaxTokens[c]
               /\ \A k \in 1 .. Len(output_queue) : ~Last(k, c)
        /\ \A k \in 1 .. Len(output_queue) : Carries(k, c) =>
               /\ Open(c)
               /\ Last(k, c) => \A l \in 1 .. Len(output_queue) : Carries(l, c) => l <= k
    BY DEF Streaming, OnePlace
  <1>4. /\ Len(output_queue) \in Nat /\ Len(output_queue') \in Nat /\ t \in {0, 1}
        /\ \A k \in 1 .. Len(output_queue') :
               /\ k + t \in 1 .. Len(output_queue)
               /\ Carries(k, c)' <=> Carries(k + t, c)
               /\ Last(k, c)' <=> Last(k + t, c)
    BY DEF Drained
  <1>5. \A k : Adds(k, c)' <=> Adds(k, c)
    BY DEF Adds
  <1>6. ASSUME NEW k \in 1 .. Len(input_queue'), Adds(k, c)'
        PROVE  /\ Open(c)' /\ core'[IdOf[c]] # c /\ emitted'[c] = 0
               /\ \A l \in 1 .. Len(input_queue') : Adds(l, c)' => k = l
               /\ \A l \in 1 .. Len(output_queue') : ~Carries(l, c)'
    BY <1>1, <1>2, <1>3, <1>4, <1>5, <1>6
  <1>7. ASSUME core'[IdOf[c]] = c
        PROVE  /\ Open(c)' /\ emitted'[c] < MaxTokens[c]
               /\ \A k \in 1 .. Len(output_queue') : ~Last(k, c)'
    BY <1>1, <1>2, <1>3, <1>4, <1>7
  <1>8. ASSUME NEW k \in 1 .. Len(output_queue'), Carries(k, c)'
        PROVE  /\ Open(c)'
               /\ Last(k, c)' => \A l \in 1 .. Len(output_queue') : Carries(l, c)' => l <= k
    <2>1. k + t \in 1 .. Len(output_queue) /\ Carries(k + t, c)
      BY <1>4, <1>8
    <2>2. Open(c)'
      <3>1. Over(c) => k + 1 <= 1
        BY <1>2, <1>3, <2>1
      <3> QED BY <1>1, <1>3, <2>1, <3>1
    <2>3. ASSUME Last(k, c)', NEW l \in 1 .. Len(output_queue'), Carries(l, c)' PROVE l <= k
      <3>1. Last(k + t, c) /\ Carries(l + t, c) /\ l + t \in 1 .. Len(output_queue)
        BY <1>4, <2>3
      <3>2. l + t <= k + t
        BY <1>3, <2>1, <3>1
      <3> QED BY <1>4, <3>2
    <2> QED BY <2>2, <2>3
  <1> QED BY <1>6, <1>7, <1>8

(* The tokens of the frame pulled go from the queue to the call they are   *)
(* for.                                                                    *)
LEMMA DeliveryKeepsTokens ==
    ASSUME Streaming, NEW updates, Delivers(updates), \A c \in Call : Waits(c),
           UNCHANGED emitted, NEW t, Drained(t)
    PROVE  TokensFollow'
  <1> USE EngineClientAssumption DEF EngineClientAssumption
  <1> SUFFICES ASSUME NEW c \in Call
      PROVE  /\ output_tokens'[c] = Own(c, Len(output_tokens'[c]))
             /\ Len(output_tokens'[c]) <= MaxTokens[c] /\ emitted'[c] <= MaxTokens[c]
             /\ Held(c)' => \E n \in [0 .. Len(output_queue') -> 0 .. MaxTokens[c]] : InOrder(c, n)'
             /\ ending'[c] = "core" => Len(output_tokens'[c]) = emitted'[c]
             /\ ~Submitted(c)' => output_tokens'[c] = << >> /\ emitted'[c] = 0
    BY DEF TokensFollow
  <1>1. /\ Submitted(c)' <=> Submitted(c)
        /\ Held(c)' => Held(c)
        /\ Held(c) => Submitted(c)
    BY DeliveredFacts DEF Streaming, Table
  <1>2. /\ output_tokens[c] = Own(c, Len(output_tokens[c]))
        /\ Len(output_tokens[c]) <= MaxTokens[c] /\ emitted[c] <= MaxTokens[c]
        /\ Held(c) => \E n \in [0 .. Len(output_queue) -> 0 .. MaxTokens[c]] : InOrder(c, n)
        /\ ending[c] = "core" => Len(output_tokens[c]) = emitted[c]
        /\ ~Submitted(c) => output_tokens[c] = << >> /\ emitted[c] = 0
        /\ Len(output_tokens[c]) \in Nat /\ output_tokens[c] \in Tokened
    <2>1. output_tokens[c] \in Tokened
      BY DEF Streaming, Typed
    <2>2. Len(output_tokens[c]) \in Nat
      BY <2>1 DEF Tokened
    <2> QED BY <2>1, <2>2 DEF Streaming, TokensFollow
  <1>3. CASE c \notin DOMAIN updates /\ ~Held(c)
    <2>1. output_tokens'[c] = output_tokens[c] /\ ending'[c] = ending[c]
      BY <1>3 DEF Delivers, Kept
    <2> QED BY <1>1, <1>2, <1>3, <2>1
  <1>4. CASE Held(c)
    <2> DEFINE p == Len(output_queue)
               q == Len(output_queue')
    <2>1. PICK n \in [0 .. p -> 0 .. MaxTokens[c]] : InOrder(c, n)
      BY <1>2, <1>4
    <2>2. /\ n[0] = Len(output_tokens[c]) /\ n[p] = emitted[c]
          /\ \A k \in 1 .. p :
                 /\ \/ TokensAt(k, c) = << >> /\ n[k] = n[k - 1]
                    \/ n[k] = n[k - 1] + 1 /\ TokensAt(k, c) = <<<<c, n[k]>>>>
                 /\ Last(k, c) => n[k] = emitted[c]
      BY <2>1 DEF InOrder
    <2>3. /\ t \in {0, 1} /\ p \in Nat /\ q \in Nat /\ q = p - t /\ (t = 1 <=> Pulled)
          /\ \A k \in 1 .. q : /\ k + t \in 1 .. p
                               /\ Last(k, c)' <=> Last(k + t, c)
                               /\ TokensAt(k, c)' = TokensAt(k + t, c)
      BY DEF Drained
    <2> HIDE DEF p, q
    <2>4. t \in 0 .. p /\ n[t] \in 0 .. MaxTokens[c] /\ MaxTokens[c] \in Nat
          /\ (t = 1 => 1 \in 1 .. p)
      BY <2>1, <2>3
    <2>5. /\ output_tokens'[c] = output_tokens[c] \o Took(c)
          /\ ending'[c] = "core" => Over(c)
      <3>1. CASE c \in DOMAIN updates
        BY <3>1 DEF Delivers, Given, Grown
      <3>2. CASE c \notin DOMAIN updates
        <4>1. output_tokens'[c] = output_tokens[c] /\ ending'[c] = ending[c]
          BY <3>2 DEF Delivers, Kept
        <4>2. Took(c) = << >>
          BY <1>4, <3>2 DEF Delivers, Took, TokensAt
        <4>3. ending[c] = "none"
          BY <1>4 DEF Streaming, Table
        <4>4. output_tokens[c] \o << >> = output_tokens[c]
          BY <1>2, JoinedEmpty
        <4> QED BY <4>1, <4>2, <4>3, <4>4
      <3> QED BY <3>1, <3>2
    <2>6. output_tokens[c] \o Took(c) = Own(c, n[t]) /\ Len(Own(c, n[t])) = n[t]
      <3>1. Len(Own(c, n[t])) = n[t]
        BY <2>4, OwnFacts
      <3>2. CASE ~Pulled
        <4>1. Took(c) = << >> /\ t = 0
          BY <2>3, <3>2 DEF Took
        <4>2. output_tokens[c] \o << >> = output_tokens[c]
          BY <1>2, JoinedEmpty
        <4> QED BY <1>2, <2>2, <3>1, <4>1, <4>2
      <3>3. CASE Pulled
        <4>1. Took(c) = TokensAt(1, c) /\ t = 1 /\ 1 \in 1 .. p
          BY <2>3, <2>4, <3>3 DEF Took
        <4>2. \/ TokensAt(1, c) = << >> /\ n[1] = n[0]
              \/ n[1] = n[0] + 1 /\ TokensAt(1, c) = <<<<c, n[1]>>>>
          BY <2>2, <4>1
        <4> DEFINE m == Len(output_tokens[c])
        <4>3. /\ Own(c, m) \o <<<<c, m + 1>>>> = Own(c, m + 1)
              /\ Own(c, m) \o << >> = Own(c, m)
          BY <1>2, OwnGrows
        <4>4. output_tokens[c] = Own(c, m) /\ n[0] = m
          BY <1>2, <2>2
        <4> HIDE DEF m
        <4>5. CASE TokensAt(1, c) = << >> /\ n[1] = n[0]
          BY <3>1, <4>1, <4>3, <4>4, <4>5
        <4>6. CASE n[1] = n[0] + 1 /\ TokensAt(1, c) = <<<<c, n[1]>>>>
          BY <3>1, <4>1, <4>3, <4>4, <4>6
        <4> QED BY <4>2, <4>5, <4>6
      <3> QED BY <3>2, <3>3
    <2>7. ending'[c] = "core" => n[t] = emitted[c]
      <3>1. Over(c) => t = 1 /\ Last(1, c)
        BY <2>3 DEF Over
      <3> QED BY <2>2, <2>4, <2>5, <3>1
    <2> DEFINE v == [k \in 0 .. q |-> n[k + t]]
    <2>8. PICK w : w = v
      OBVIOUS
    <2>9. \A k \in 0 .. q : k + t \in 0 .. p
      BY <2>3
    <2>10. w \in [0 .. q -> 0 .. MaxTokens[c]] /\ \A k \in 0 .. q : w[k] = n[k + t]
      BY <2>1, <2>8, <2>9
    <2> HIDE DEF v
    <2>11. w[0] = n[t] /\ w[q] = n[p]
      <3>1. 0 \in 0 .. q /\ q \in 0 .. q /\ 0 + t = t /\ q + t = p
        BY <2>3
      <3> QED BY <2>10, <3>1
    <2>12. ASSUME NEW k \in 1 .. q
           PROVE  /\ \/ TokensAt(k, c)' = << >> /\ w[k] = w[k - 1]
                     \/ w[k] = w[k - 1] + 1 /\ TokensAt(k, c)' = <<<<c, w[k]>>>>
                  /\ Last(k, c)' => w[k] = emitted'[c]
      <3>1. /\ k \in 0 .. q /\ k - 1 \in 0 .. q /\ k + t \in 1 .. p /\ (k - 1) + t = (k + t) - 1
        BY <2>3
      <3>2. w[k] = n[k + t] /\ w[k - 1] = n[(k + t) - 1]
        BY <2>10, <3>1
      <3>3. (Last(k, c)' <=> Last(k + t, c)) /\ TokensAt(k, c)' = TokensAt(k + t, c)
        BY <2>3
      <3>4. /\ \/ TokensAt(k + t, c) = << >> /\ n[k + t] = n[(k + t) - 1]
               \/ n[k + t] = n[(k + t) - 1] + 1 /\ TokensAt(k + t, c) = <<<<c, n[k + t]>>>>
            /\ Last(k + t, c) => n[k + t] = emitted[c]
        BY <2>2, <3>1
      <3> QED BY <3>2, <3>3, <3>4
    <2>13. Len(output_tokens'[c]) = n[t] /\ output_tokens'[c] = Own(c, n[t])
      BY <2>5, <2>6
    <2>14. InOrder(c, w)'
      BY <2>2, <2>10, <2>11, <2>12, <2>13 DEF InOrder, q
    <2>15. \E m \in [0 .. q -> 0 .. MaxTokens[c]] : InOrder(c, m)'
      BY <2>10, <2>14
    <2> QED BY <1>1, <1>2, <1>4, <2>4, <2>7, <2>13, <2>15 DEF q
  <1>5. c \in DOMAIN updates => Held(c)
    BY DEF Delivers, AreUpdates
  <1> QED BY <1>3, <1>4, <1>5

(* Who stays registered is served as before.                               *)
LEMMA DeliveryServes ==
    ASSUME Streaming, NEW updates, Delivers(updates), \A c \in Call : Waits(c),
           UNCHANGED <<input_queue, core, engine>>, DeadIsTold', NEW t, Drained(t)
    PROVE  RegisteredIsServed'
  <1> USE EngineClientAssumption DEF EngineClientAssumption
  <1>1. CASE engine = "dead"
    BY <1>1 DEF RegisteredIsServed, DeadIsTold
  <1>2. CASE engine # "dead"
    <2>0. \A i \in Id : /\ request_states'[i] \in {request_states[i], None}
                        /\ request_states[i] \in Call \union {None}
      BY DEF Delivers, Streaming, Typed
    <2> SUFFICES ASSUME NEW i \in Id, NEW c \in Call, c = request_states'[i], c = request_states[i]
                 PROVE  InFlight(c)' \/ core[i] = c \/ EndsInQueue(c)'
      BY <1>2, <2>0 DEF RegisteredIsServed
    <2>1. IdOf[c] = i /\ Held(c) /\ Held(c)'
      <3>1. c # None
        OBVIOUS
      <3>2. IdOf[c] = i
        BY <3>1 DEF Streaming, Table
      <3> QED BY <3>2 DEF Held
    <2>2. InFlight(c) \/ core[i] = c \/ EndsInQueue(c)
      BY <1>2 DEF Streaming, RegisteredIsServed
    <2>3. InFlight(c) => InFlight(c)'
      BY DEF InFlight
    <2>4. ASSUME EndsInQueue(c) PROVE EndsInQueue(c)'
      <3>1. PICK k \in 1 .. Len(output_queue) : Last(k, c)
        BY <2>4, EndsIsLast
      <3>2. ~Over(c)
        <4>1. c \in DOMAIN updates => updates[c].end = "none"
          BY <2>1 DEF Delivers, Given
        <4>2. c \notin DOMAIN updates => ~Over(c)
          BY <2>1 DEF Delivers, Over, Last
        <4> QED BY <4>1, <4>2 DEF Delivers
      <3>3. k # t
        BY <3>1, <3>2 DEF Over, Drained
      <3>4. k - t \in 1 .. Len(output_queue') /\ (k - t) + t = k
        BY <3>3 DEF Drained
      <3>5. Last(k - t, c)' <=> Last((k - t) + t, c)
        BY <3>4 DEF Drained
      <3>6. \E l \in 1 .. Len(output_queue') : Last(l, c)'
        BY <3>1, <3>4, <3>5
      <3> QED BY <3>6 DEF EndsInQueue, Last, Carries
    <2> QED BY <2>2, <2>3, <2>4
  <1> QED BY <1>1, <1>2

(* Who is taken out of the table is gone from the core, or its abort is to *)
(* come.                                                                   *)
LEMMA DeliveryIsBacked ==
    ASSUME Streaming, NEW updates, Delivers(updates), \A c \in Call : Waits(c),
           UNCHANGED <<input_queue, core, engine>>
    PROVE  OrphansAreAborted' /\ AbortsAreOver'
  <1> USE EngineClientAssumption DEF EngineClientAssumption
  <1>1. /\ \A i \in Id : \A from \in Nat : AbortComing(i, from) <=> AbortNow(i) \/ AbortAt(i, from)
        /\ \A i \in Id : \A from \in Nat : AbortComing(i, from)' <=> AbortNow(i)' \/ AbortAt(i, from)
        /\ \A i \in Id : AbortNow(i) => AbortNow(i)'
    <2>1. \A i \in Id : AbortNow(i) => AbortNow(i)'
      BY DEF Delivers, AbortNow
    <2> QED BY <2>1 DEF AbortComing, AbortNow, AbortAt
  <1>2. ASSUME NEW d \in Call, Held(d), ~Over(d) PROVE Held(d)' \/ AbortNow(IdOf[d])'
    BY <1>2, DeliveredFacts DEF Delivers
  <1>3. /\ \A k \in 1 .. Len(input_queue) : input_queue[k].call \in Call \union {None}
        /\ \A i \in Id : core[i] \in Call \union {None} /\ (core[i] # None => IdOf[core[i]] = i)
    <2>1. input_queue \in Seq(Message) /\ core \in [Id -> Call \union {None}]
      BY DEF Streaming, Typed
    <2>2. \A k \in 1 .. Len(input_queue) : input_queue[k] \in Message
      BY <2>1
    <2> QED BY <2>1, <2>2 DEF Message, Streaming, Table
  <1>5. ASSUME engine \notin {"dead", "exited"} PROVE OrphansAreAborted'
    <2>1. /\ \A i \in Id : core[i] # None => request_states[i] = core[i] \/ AbortComing(i, 1)
          /\ \A k \in 1 .. Len(input_queue) : Backed(k)
      BY <1>5 DEF Streaming, OrphansAreAborted, Backed
    <2>2. ASSUME NEW i \in Id, NEW d \in Call, core[i] = d
          PROVE  request_states'[i] = d \/ AbortComing(i, 1)'
      <3>1. IdOf[d] = i
        BY <1>3, <2>2
      <3>2. ~Over(d)
        <4>1. \A k \in 1 .. Len(output_queue) : ~Last(k, d)
          BY <2>2, <3>1 DEF Streaming, OnePlace
        <4> QED BY <4>1 DEF Over, Last, Carries
      <3>3. Held(d) \/ AbortComing(i, 1)
        BY <2>1, <2>2, <3>1 DEF Held
      <3>4. Held(d) => Held(d)' \/ AbortNow(i)'
        BY <1>2, <3>1, <3>2
      <3> QED BY <1>1, <3>1, <3>3, <3>4 DEF Held
    <2>3. ASSUME NEW k \in 1 .. Len(input_queue) PROVE Backed(k)'
      <3> SUFFICES ASSUME NEW d \in Call, input_queue'[k].call = d
                   PROVE  request_states'[IdOf[d]] = d \/ AbortComing(IdOf[d], k)'
        BY <1>3 DEF Backed
      <3>1. Held(d) \/ AbortComing(IdOf[d], k)
        BY <2>1 DEF Backed, Held
      <3>2. ~Over(d)
        <4>1. Adds(k, d)
          BY DEF Streaming, Queued, Adds
        <4>2. \A l \in 1 .. Len(output_queue) : ~Carries(l, d)
          BY <4>1 DEF Streaming, OnePlace
        <4> QED BY <4>2 DEF Over, Last, Carries
      <3>3. Held(d) => Held(d)' \/ AbortNow(IdOf[d])'
        BY <1>2, <3>2
      <3>4. k \in Nat /\ IdOf[d] \in Id
        OBVIOUS
      <3> QED BY <1>1, <3>1, <3>3, <3>4 DEF Held
    <2>4. \A i \in Id : core'[i] # None => request_states'[i] = core'[i] \/ AbortComing(i, 1)'
      BY <1>3, <2>2
    <2> QED BY <2>3, <2>4 DEF OrphansAreAborted, Backed
  <1>6. AbortsAreOver'
    <2> SUFFICES ASSUME NEW i \in Id, AbortComing(i, 1)'
                 PROVE  \E d \in Call : IdOf[d] = i /\ ending'[d] \in {"stop", "abort"}
      BY DEF AbortsAreOver
    <2>1. CASE Stops(updates, i)
      <3>1. PICK d \in DOMAIN updates : IdOf[d] = i /\ updates[d].end \in {"stop", "abort"}
        BY <2>1 DEF Stops
      <3>2. d \in Call /\ ending'[d] = updates[d].end
        BY DEF Delivers, AreUpdates, Given
      <3> QED BY <3>1, <3>2
    <2>2. CASE AbortComing(i, 1)
      <3>1. PICK d \in Call : IdOf[d] = i /\ ending[d] \in {"stop", "abort"}
        BY <2>2 DEF Streaming, AbortsAreOver
      <3>2. ending'[d] = ending[d]
        BY <3>1, DeliveredFacts
      <3> QED BY <3>1, <3>2
    <2>3. AbortNow(i)' => AbortNow(i) \/ Stops(updates, i)
      BY DEF Delivers
    <2> QED BY <1>1, <2>1, <2>2, <2>3
  <1>4. engine \in {"dead", "exited"} => OrphansAreAborted'
    BY DEF OrphansAreAborted
  <1> QED BY <1>4, <1>5, <1>6

(* A step that delivers updates keeps it all.                              *)
LEMMA UpdatesKeep ==
    ASSUME Streaming, NEW updates, Delivers(updates), \A c \in Call : Waits(c),
           UNCHANGED <<received, input_queue, core, emitted, engine>>, DeadIsTold', Typed'
    PROVE  Streaming'
  <1> USE EngineClientAssumption DEF EngineClientAssumption
  <1>1. PICK t : Drained(t)
    <2>1. output_queue \in Seq(FrameType)
      BY DEF Streaming, Typed
    <2>2. output_queue' = output_queue \/ Pulled
      BY DEF Delivers
    <2> QED BY <2>1, <2>2, QueueDrains
  <1>2. OnePlace' /\ TokensFollow' /\ RegisteredIsServed' /\ OrphansAreAborted' /\ AbortsAreOver'
    BY <1>1, DeliveryKeepsPlace, DeliveryKeepsTokens, DeliveryServes, DeliveryIsBacked
  <1>3. Queued'
    <2>1. ASSUME NEW k \in 1 .. Len(output_queue')
          PROVE  LET f == output_queue'[k] IN
                 /\ f.type = "DEAD" => f = EngineDead
                 /\ \A i \in DOMAIN f.outputs : IdOf[f.outputs[i].call] = i
      <3>1. k + t \in 1 .. Len(output_queue) /\ output_queue'[k] = output_queue[k + t]
        BY <1>1 DEF Drained
      <3> QED BY <3>1 DEF Streaming, Queued
    <2> QED BY <2>1 DEF Streaming, Queued
  <1>4. Table'
    <2>1. \A c \in Call : /\ Submitted(c)' <=> Submitted(c)
                          /\ Held(c)' <=> Submitted(c) /\ ending'[c] = "none"
                          /\ Open(c)' => Open(c)
                          /\ ending[c] # "none" => ending'[c] = ending[c]
      BY DeliveredFacts
    <2>2. \A i \in Id : request_states'[i] # None => IdOf[request_states'[i]] = i
      BY DEF Delivers, Streaming, Table
    <2>3. \A c \in Call : ~Submitted(c)' => ending'[c] = "none"
      <3> TAKE c \in Call
      <3>1. CASE c \in DOMAIN updates
        <4>1. Held(c)
          BY <3>1 DEF Delivers, AreUpdates
        <4> QED BY <2>1, <4>1 DEF Streaming, Table
      <3>2. CASE c \notin DOMAIN updates
        <4>1. ending'[c] = ending[c]
          BY <3>2 DEF Delivers, Kept
        <4> QED BY <2>1, <4>1 DEF Streaming, Table
      <3> QED BY <3>1, <3>2
    <2> QED BY <2>1, <2>2, <2>3 DEF Streaming, Table
  <1>5. Slots'
    <2> SUFFICES ASSUME NEW c \in Call PROVE Slot(c)'
      BY DEF Slots
    <2>1. Slot(c) /\ Waits(c) /\ received'[c] = received[c]
      BY DEF Streaming, Slots
    <2>2. CASE c \notin DOMAIN updates
      <3>1. Kept(c)
        BY <2>2 DEF Delivers
      <3> QED BY <2>1, <3>1, SlotKept
    <2>3. CASE c \in DOMAIN updates
      <3> DEFINE u == updates[c]
      <3>1. Held(c) /\ u.tokens \in Tokened /\ u.end \in {"none", "core", "stop", "abort"} /\ Given(c, u)
        BY <2>3 DEF Delivers, AreUpdates
      <3>2. Submitted(c) /\ ending[c] = "none"
        BY <3>1 DEF Streaming, Table
      <3>3. TableTyped /\ TableTyped' /\ received \in [Call -> Tokened]
        BY DEF Streaming, Typed, TableTyped
      <3>4. /\ output_tokens[c] = Own(c, Len(output_tokens[c]))
            /\ output_tokens'[c] = Own(c, Len(output_tokens'[c]))
        BY <1>2 DEF Streaming, TokensFollow
      <3> HIDE DEF u
      <3> QED BY <2>1, <3>1, <3>2, <3>3, <3>4, SlotGiven
    <2> QED BY <2>2, <2>3
  <1> QED BY <1>2, <1>3, <1>4, <1>5 DEF Streaming

----------------------------------------------------------------------------
(* The steps that deliver updates.                                         *)

(* Nothing is pulled where the queue stays as it is. *)
LEMMA NotPulled ==
    ASSUME output_queue \in Seq(FrameType), UNCHANGED output_queue
    PROVE  ~Pulled
  <1>1. output_queue # << >> => Len(Tail(output_queue)) = Len(output_queue) - 1 /\ Len(output_queue) \in Nat
    BY QueueFacts
  <1> QED BY <1>1 DEF Pulled

(* abort_requests, with the aborts of what was registered to be sent next. *)
LEMMA AbortsKeep ==
    ASSUME Streaming, NEW ids \in SUBSET Id, abort_requests(ids), \A c \in Call : Waits(c),
           client' \in [Call -> {"new", "checked", "refused", "duplicate", "waiting", "caught",
                                 "finished", "failed"}],
           unsent' \subseteq Call, swept' \subseteq Id,
           closer' \in {"none", "started", "stopping", "sweeping", "requesting", "waking",
                        "joining", "closing", "closed"},
           unsent \subseteq unsent', swept \subseteq swept',
           \A i \in Id : AbortNow(i)' <=> AbortNow(i) \/ (i \in ids /\ request_states[i] # None),
           swept' # {} => closer' = "sweeping",
           UNCHANGED <<received, handler, reqs_to_abort, engine_dead, queues, engine, core, emitted,
                       shutdown_state>>
    PROVE  Streaming'
  <1> USE EngineClientAssumption DEF EngineClientAssumption
  <1> DEFINE updates == [c \in Registered(ids) |-> [tokens |-> << >>, end |-> "abort"]]
  <1>1. PICK u : u = updates
    OBVIOUS
  <1>2. Deliver(u)
    BY <1>1 DEF abort_requests
  <1>3. \A i \in Id : request_states[i] # None => IdOf[request_states[i]] = i
    BY DEF Streaming, Table
  <1>4. TableTyped
    BY DEF Streaming, Typed, TableTyped
  <1>5. /\ DOMAIN u = Registered(ids)
        /\ \A c \in DOMAIN u : u[c].tokens = << >> /\ u[c].end = "abort"
    BY <1>1
  <1> HIDE DEF updates
  <1>6. \A c : c \in Registered(ids) <=> c # None /\ \E i \in ids : c = request_states[i]
    BY DEF Registered
  <1>7. Registered(ids) \subseteq {c \in Call : Held(c)}
    <2> SUFFICES ASSUME NEW c \in Registered(ids) PROVE c \in Call /\ Held(c)
      OBVIOUS
    <2>1. PICK i \in ids : c # None /\ c = request_states[i]
      BY <1>6
    <2>2. i \in Id /\ IdOf[c] = i
      BY <2>1, <1>3
    <2> QED BY <2>1, <2>2, <1>4 DEF TableTyped, Held
  <1>8. AreUpdates(u)
    <2>1. << >> \in Tokened
      BY DEF Tokened
    <2> QED BY <1>5, <1>7, <2>1 DEF AreUpdates
  <1>9. /\ TableTyped'
        /\ \A i \in Id : request_states'[i] \in {request_states[i], None}
        /\ \A c \in Call : IF c \in DOMAIN u THEN Given(c, u[c]) ELSE Kept(c)
    BY <1>2, <1>3, <1>4, <1>8, DeliverEach
  <1>10. UNCHANGED <<input_queue, output_queue>> /\ ~Pulled
    <2>1. UNCHANGED <<input_queue, output_queue>>
      BY DEF queues
    <2> QED BY <2>1, NotPulled DEF Streaming, Typed
  <1>11. \A i \in Id : Stops(u, i) <=> i \in ids /\ request_states[i] # None
    <2> TAKE i \in Id
    <2>1. ASSUME Stops(u, i) PROVE i \in ids /\ request_states[i] # None
      <3>1. PICK c \in Registered(ids) : IdOf[c] = i
        BY <2>1, <1>5 DEF Stops
      <3>2. PICK j \in ids : c # None /\ c = request_states[j]
        BY <1>6
      <3>3. j = i
        BY <3>1, <3>2, <1>3
      <3> QED BY <3>2, <3>3
    <2>2. ASSUME i \in ids, request_states[i] # None PROVE Stops(u, i)
      <3>1. request_states[i] \in Registered(ids) /\ IdOf[request_states[i]] = i
        BY <2>2, <1>3, <1>6
      <3> QED BY <3>1, <1>5 DEF Stops
    <2> QED BY <2>1, <2>2
  <1>12. Delivers(u)
    <2>1. \A c \in DOMAIN u : u[c].tokens = Took(c) /\ (u[c].end = "core" <=> Over(c))
      BY <1>5, <1>10 DEF Took, Over
    <2> QED BY <1>8, <1>9, <1>10, <1>11, <2>1 DEF Delivers
  <1>13. DeadIsTold'
    BY <1>10 DEF Streaming, DeadIsTold
  <1>14. Typed'
    BY <1>9, <1>10 DEF Streaming, Typed, TableTyped
  <1> QED BY <1>10, <1>12, <1>13, <1>14, UpdatesKeep

(* A caller aborts by id, *)
LEMMA AbortRequestKeepsStreams ==
    ASSUME Streaming, NEW i \in Id, AbortRequest(i)
    PROVE  Streaming'
  <1>1. /\ abort_requests({i}) /\ unsent' = unsent \union Registered({i})
        /\ UNCHANGED <<consumers, handling, closing, flags, queues, inner>>
    BY DEF AbortRequest
  <1>2. UNCHANGED <<client, received, handler, reqs_to_abort, closer, swept, engine_dead, queues,
                    engine, core, emitted, shutdown_state>>
    BY <1>1 DEF consumers, handling, closing, flags, inner
  <1>3. {i} \in SUBSET Id
    OBVIOUS
  <1>4. request_states \in [Id -> Call \union {None}] /\ unsent \subseteq Call
    BY DEF Streaming, Typed
  <1>5. unsent' \subseteq Call
    BY <1>1, <1>4 DEF Registered
  <1>6. \A j \in Id : request_states[j] # None => IdOf[request_states[j]] = j
    BY DEF Streaming, Table
  <1>7. \A j \in Id : AbortNow(j)' <=> AbortNow(j) \/ (j \in {i} /\ request_states[j] # None)
    BY <1>1, <1>2, <1>6 DEF AbortNow, Registered
  <1>8. \A c \in Call : Waits(c)
    BY <1>2 DEF Waits
  <1> QED BY <1>1, <1>2, <1>3, <1>5, <1>7, <1>8, AbortsKeep DEF Streaming, Typed, DeadIsTold

(* a consumer that got an error aborts its own id, *)
LEMMA AbortAfterErrorKeepsStreams ==
    ASSUME Streaming, NEW c \in Call, AbortAfterError(c)
    PROVE  Streaming'
  <1> USE EngineClientAssumption DEF EngineClientAssumption
  <1>1. PICK i : i = IdOf[c]
    OBVIOUS
  <1>2. /\ abort_requests({i}) /\ unsent' = unsent \union Registered({i})
        /\ client[c] = "caught" /\ client' = [client EXCEPT ![c] = "failed"]
        /\ UNCHANGED <<received, handling, closing, flags, queues, inner>>
    BY <1>1 DEF AbortAfterError
  <1>3. UNCHANGED <<received, handler, reqs_to_abort, closer, swept, engine_dead, queues,
                    engine, core, emitted, shutdown_state>>
    BY <1>2 DEF handling, closing, flags, inner
  <1>4. i \in Id /\ {i} \in SUBSET Id
    BY <1>1
  <1>5. request_states \in [Id -> Call \union {None}] /\ unsent \subseteq Call
    BY DEF Streaming, Typed
  <1>6. unsent' \subseteq Call
    BY <1>2, <1>4, <1>5 DEF Registered
  <1>7. \A j \in Id : request_states[j] # None => IdOf[request_states[j]] = j
    BY DEF Streaming, Table
  <1>8. \A j \in Id : AbortNow(j)' <=> AbortNow(j) \/ (j \in {i} /\ request_states[j] # None)
    BY <1>2, <1>3, <1>4, <1>7 DEF AbortNow, Registered
  <1>9. client \in [Call -> {"new", "checked", "refused", "duplicate", "waiting", "caught",
                             "finished", "failed"}]
    BY DEF Streaming, Typed
  <1>10. /\ client' \in [Call -> {"new", "checked", "refused", "duplicate", "waiting", "caught",
                                  "finished", "failed"}]
         /\ \A d \in Call : Waits(d)
    BY <1>2, <1>9 DEF Waits
  <1> QED BY <1>2, <1>3, <1>4, <1>6, <1>8, <1>10, AbortsKeep DEF Streaming, Typed, DeadIsTold

(* and the closer aborts all, having swept nothing before: what it is      *)
(* about to send is what it took out.                                      *)
LEMMA AbortAllKeepsStreams ==
    ASSUME Streaming, AbortAll
    PROVE  Streaming'
  <1>1. /\ abort_requests(Id) /\ swept' = {i \in Id : request_states[i] # None}
        /\ closer = "stopping" /\ closer' = "sweeping"
        /\ UNCHANGED <<consumers, unsent, handling, flags, queues, inner>>
    BY DEF AbortAll
  <1>2. UNCHANGED <<client, received, handler, reqs_to_abort, unsent, engine_dead, queues,
                    engine, core, emitted, shutdown_state>>
    BY <1>1 DEF consumers, handling, flags, inner
  <1>3. swept = {}
    BY <1>1 DEF Streaming, DeadIsTold
  <1>4. \A j \in Id : AbortNow(j)' <=> AbortNow(j) \/ (j \in Id /\ request_states[j] # None)
    BY <1>1, <1>2, <1>3 DEF AbortNow
  <1>5. \A c \in Call : Waits(c)
    BY <1>2 DEF Waits
  <1> QED BY <1>1, <1>2, <1>3, <1>4, <1>5, AbortsKeep DEF Streaming, Typed, DeadIsTold

(* What the handler has taken from the queue was at its head, and what it  *)
(* leaves keeps the sentinel, if it was not that.                          *)
LEMMA SentinelStays ==
    ASSUME Streaming, output_queue # << >>, output_queue' = Tail(output_queue)
    PROVE  /\ Pulled /\ 1 \in 1 .. Len(output_queue)
           /\ Head(output_queue) = output_queue[1] /\ output_queue[1] \in FrameType
           /\ output_queue' \in Seq(FrameType)
           /\ \A k \in 1 .. Len(output_queue') : \E l \in 1 .. Len(output_queue) :
                  output_queue'[k] = output_queue[l]
           /\ Head(output_queue) # EngineDead /\ (\E k \in 1 .. Len(output_queue) : output_queue[k] = EngineDead)
                  => \E k \in 1 .. Len(output_queue') : output_queue'[k] = EngineDead
  <1>1. output_queue \in Seq(FrameType)
    BY DEF Streaming, Typed
  <1>2. /\ Len(output_queue) \in Nat /\ Len(output_queue) > 0
        /\ Tail(output_queue) \in Seq(FrameType)
        /\ Head(output_queue) = output_queue[1] /\ Head(output_queue) \in FrameType
    BY <1>1, QueueFacts
  <1>3. Pulled
    BY DEF Pulled
  <1>4. PICK t : Drained(t)
    BY <1>1, <1>3, QueueDrains
  <1>5. t = 1 /\ 1 \in 1 .. Len(output_queue)
    BY <1>2, <1>3, <1>4 DEF Drained
  <1>6. \A k \in 1 .. Len(output_queue') : \E l \in 1 .. Len(output_queue) :
            output_queue'[k] = output_queue[l]
    BY <1>4 DEF Drained
  <1>7. ASSUME Head(output_queue) # EngineDead, NEW k \in 1 .. Len(output_queue),
               output_queue[k] = EngineDead
        PROVE  \E l \in 1 .. Len(output_queue') : output_queue'[l] = EngineDead
    <2>1. k # t
      BY <1>2, <1>5, <1>7
    <2>2. k - t \in 1 .. Len(output_queue') /\ output_queue'[k - t] = output_queue[k]
      BY <1>4, <2>1 DEF Drained
    <2> QED BY <1>7, <2>2
  <1> QED BY <1>2, <1>3, <1>5, <1>6, <1>7

(* The updates that process_outputs makes of a frame: each goes to the     *)
(* call the core made it for, and the ids it stops are to be aborted.      *)
LEMMA HandleOutputsKeepsStreams ==
    ASSUME Streaming, HandleOutputs
    PROVE  Streaming'
  <1> USE EngineClientAssumption DEF EngineClientAssumption
  <1>1. PICK outputs : outputs = Head(output_queue).outputs
    OBVIOUS
  <1>2. PICK stops \in SUBSET MayFindStop(outputs) :
            process_outputs(outputs, stops) /\ reqs_to_abort' = ToAbort(outputs, stops)
    BY <1>1 DEF HandleOutputs
  <1>3. /\ handler = "get" /\ output_queue # << >> /\ output_queue' = Tail(output_queue)
        /\ Head(output_queue).type = "OUTPUTS"
        /\ handler' = IF reqs_to_abort' = {} THEN "get" ELSE "aborting"
        /\ UNCHANGED <<client, received, unsent, closer, swept, engine_dead, input_queue, engine,
                       core, emitted, shutdown_state>>
    BY DEF HandleOutputs, consumers, closing, flags, inner
  <1>4. /\ Pulled /\ 1 \in 1 .. Len(output_queue)
        /\ output_queue[1] = Head(output_queue) /\ output_queue[1] \in FrameType
        /\ output_queue' \in Seq(FrameType)
        /\ \A k \in 1 .. Len(output_queue') : \E l \in 1 .. Len(output_queue) :
               output_queue'[k] = output_queue[l]
        /\ Head(output_queue) # EngineDead /\ (\E k \in 1 .. Len(output_queue) : output_queue[k] = EngineDead)
               => \E k \in 1 .. Len(output_queue') : output_queue'[k] = EngineDead
    BY <1>3, SentinelStays
  <1>5. output_queue[1].outputs = outputs
    BY <1>1, <1>4
  <1>6. /\ DOMAIN outputs \subseteq Id
        /\ \A i \in DOMAIN outputs : /\ outputs[i].call \in Call /\ outputs[i].tokens \in Tokened
                                     /\ outputs[i].finished \in BOOLEAN
    <2>1. outputs \in OutputsType
      BY <1>4, <1>5 DEF FrameType
    <2>2. PICK S \in SUBSET Id : outputs \in [S -> OutputType]
      BY <2>1 DEF OutputsType
    <2> QED BY <2>2 DEF OutputType
  <1>7. /\ \A i \in Id : request_states[i] # None => IdOf[request_states[i]] = i
        /\ \A c \in Call : Held(c) => Open(c)
        /\ \A c, d \in Call : Open(c) /\ Open(d) /\ IdOf[c] = IdOf[d] => c = d
    <2>1. \A c \in Call : Held(c) => Open(c)
      BY DEF Streaming, Table, Open
    <2> QED BY <2>1 DEF Streaming, Table
  <1>8. TableTyped
    BY DEF Streaming, Typed, TableTyped
  <1>9. \A c : c \in Registered(DOMAIN outputs) <=>
                   c # None /\ \E i \in DOMAIN outputs : c = request_states[i]
    BY DEF Registered
  <1>10. ASSUME NEW c \in Registered(DOMAIN outputs)
         PROVE  /\ c \in Call /\ Held(c) /\ IdOf[c] \in DOMAIN outputs
                /\ outputs[IdOf[c]].call = c
                /\ Took(c) = outputs[IdOf[c]].tokens
                /\ Over(c) <=> outputs[IdOf[c]].finished
    <2>1. PICK i \in DOMAIN outputs : c # None /\ c = request_states[i]
      BY <1>9
    <2>2. i \in Id /\ IdOf[c] = i /\ c \in Call /\ Held(c)
      BY <1>6, <1>7, <1>8, <2>1 DEF TableTyped, Held
    <2>3. PICK d \in Call : outputs[i].call = d
      BY <1>6
    <2>4. IdOf[d] = i
      BY <1>4, <1>5, <2>3 DEF Streaming, Queued
    <2>5. Carries(1, d)
      BY <1>4, <1>5, <2>3, <2>4 DEF Carries
    <2>6. Open(d)
      BY <1>4, <2>5 DEF Streaming, OnePlace
    <2>7. d = c
      BY <1>7, <2>2, <2>4, <2>6
    <2>8. Carries(1, c)
      BY <2>5, <2>7
    <2> QED BY <1>4, <1>5, <2>2, <2>3, <2>7, <2>8 DEF Took, TokensAt, Over, Last
  <1> DEFINE updates == [c \in Registered(DOMAIN outputs) |->
                 LET o == outputs[IdOf[c]] IN
                 [tokens |-> o.tokens,
                  end |-> IF o.finished THEN "core" ELSE IF IdOf[c] \in stops THEN "stop" ELSE "none"]]
  <1>11. PICK u : u = updates
    OBVIOUS
  <1>12. Deliver(u)
    BY <1>2, <1>11 DEF process_outputs
  <1>13. /\ DOMAIN u = Registered(DOMAIN outputs)
         /\ \A c \in DOMAIN u :
                /\ u[c].tokens = outputs[IdOf[c]].tokens
                /\ u[c].end = IF outputs[IdOf[c]].finished THEN "core"
                              ELSE IF IdOf[c] \in stops THEN "stop" ELSE "none"
    BY <1>11
  <1> HIDE DEF updates
  <1>14. AreUpdates(u)
    BY <1>6, <1>10, <1>13 DEF AreUpdates
  <1>15. /\ TableTyped'
         /\ \A i \in Id : request_states'[i] \in {request_states[i], None}
         /\ \A c \in Call : IF c \in DOMAIN u THEN Given(c, u[c]) ELSE Kept(c)
    BY <1>7, <1>8, <1>12, <1>14, DeliverEach
  <1>16. reqs_to_abort' \subseteq Id /\ \A i \in Id : Stops(u, i) <=> i \in reqs_to_abort'
    <2>1. /\ \A i \in stops : i \in DOMAIN outputs /\ request_states[i] \in HasStop
          /\ reqs_to_abort' = {i \in stops : ~outputs[i].finished}
      BY <1>2 DEF MayFindStop, ToAbort
    <2>2. ASSUME NEW i \in Id, Stops(u, i) PROVE i \in reqs_to_abort'
      <3>1. PICK c \in DOMAIN u : IdOf[c] = i /\ u[c].end \in {"stop", "abort"}
        BY <2>2 DEF Stops
      <3>2. ~outputs[i].finished /\ i \in stops
        BY <1>13, <3>1
      <3> QED BY <2>1, <3>2
    <2>3. ASSUME NEW i \in Id, i \in reqs_to_abort' PROVE Stops(u, i)
      <3>1. i \in stops /\ ~outputs[i].finished /\ i \in DOMAIN outputs
            /\ request_states[i] \in Call
        BY <2>1, <2>3
      <3>2. request_states[i] \in DOMAIN u /\ IdOf[request_states[i]] = i
        BY <1>7, <1>9, <1>13, <3>1
      <3>3. u[request_states[i]].end = "stop"
        BY <1>13, <3>1, <3>2
      <3> QED BY <3>2, <3>3 DEF Stops
    <2> QED BY <1>6, <2>1, <2>2, <2>3
  <1>17. reqs_to_abort = {}
    BY <1>3 DEF Streaming, DeadIsTold
  <1>18. Delivers(u)
    <2>1. \A c \in DOMAIN u : u[c].tokens = Took(c) /\ (u[c].end = "core" <=> Over(c))
      BY <1>10, <1>13
    <2>2. ASSUME NEW c \in Call, c \notin DOMAIN u, Held(c) PROVE ~Carries(1, c)
      <3>1. Carries(1, c) => IdOf[c] \in DOMAIN outputs
        BY <1>5 DEF Carries
      <3> QED BY <1>9, <1>13, <2>2, <3>1 DEF Held
    <2>3. \A i \in Id : /\ AbortNow(i)' => AbortNow(i) \/ Stops(u, i)
                        /\ Stops(u, i) => AbortNow(i)'
      BY <1>3, <1>16 DEF AbortNow
    <2> QED BY <1>3, <1>4, <1>14, <1>15, <1>17, <2>1, <2>2, <2>3 DEF Delivers
  <1>19. DeadIsTold'
    <2>1. Head(output_queue) # EngineDead
      BY <1>3 DEF EngineDead
    <2> QED BY <1>3, <1>4, <2>1 DEF Streaming, DeadIsTold
  <1>20. Typed'
    BY <1>3, <1>4, <1>15, <1>16 DEF Streaming, Typed, TableTyped
  <1>21. \A c \in Call : Waits(c)
    BY <1>3 DEF Waits
  <1> QED BY <1>3, <1>18, <1>19, <1>20, <1>21, UpdatesKeep

(* The sentinel brings nothing to anybody. *)
LEMMA HandleEngineDeadKeepsStreams ==
    ASSUME Streaming, HandleEngineDead
    PROVE  Streaming'
  <1> USE EngineClientAssumption DEF EngineClientAssumption
  <1>1. /\ handler = "get" /\ handler' = "caught" /\ engine_dead' = TRUE
        /\ output_queue # << >> /\ output_queue' = Tail(output_queue)
        /\ Head(output_queue).type = "DEAD"
        /\ UNCHANGED <<request_states, output_tokens, sent, ending, collector, client, received,
                       unsent, reqs_to_abort, closer, swept, input_queue, engine, core, emitted,
                       shutdown_state>>
    BY DEF HandleEngineDead, table, consumers, closing, inner
  <1>2. /\ Pulled /\ 1 \in 1 .. Len(output_queue)
        /\ output_queue[1] = Head(output_queue) /\ output_queue[1] \in FrameType
        /\ output_queue' \in Seq(FrameType)
        /\ \A k \in 1 .. Len(output_queue') : \E l \in 1 .. Len(output_queue) :
               output_queue'[k] = output_queue[l]
    BY <1>1, SentinelStays
  <1>3. output_queue[1] = EngineDead
    BY <1>1, <1>2 DEF Streaming, Queued
  <1>4. \A c : ~Carries(1, c)
    BY <1>3 DEF Carries, EngineDead
  <1>5. PICK u : u = [c \in {} |-> None]
    OBVIOUS
  <1>6. DOMAIN u = {}
    BY <1>5
  <1>7. \A c \in Call : Kept(c)
    BY <1>1 DEF Kept, Held
  <1>8. \A i \in Id : ~Stops(u, i) /\ (AbortNow(i)' <=> AbortNow(i))
    BY <1>1, <1>6 DEF Stops, AbortNow
  <1>9. Delivers(u)
    BY <1>1, <1>2, <1>4, <1>6, <1>7, <1>8 DEF Delivers, AreUpdates
  <1>10. DeadIsTold'
    BY <1>1, <1>2, <1>3 DEF Streaming, DeadIsTold
  <1>11. Typed'
    BY <1>1, <1>2 DEF Streaming, Typed
  <1>12. \A c \in Call : Waits(c)
    BY <1>1 DEF Waits
  <1> QED BY <1>1, <1>9, <1>10, <1>11, <1>12, UpdatesKeep

----------------------------------------------------------------------------
(* The steps that send an abort or wake the engine.                        *)

(* What abort_requests_async sends. *)
LEMMA AsyncSends ==
    ASSUME Streaming, NEW ids \in SUBSET Id, abort_requests_async(ids),
           unsent' \subseteq unsent, reqs_to_abort' \subseteq reqs_to_abort, swept' \subseteq swept,
           \A i \in ids : AbortNow(i),
           \A i \in Id \ ids : AbortNow(i) => AbortNow(i)'
    PROVE  /\ AbortMsg(ids) \in Message /\ AbortMsg(ids).call = None /\ AbortMsg(ids).type # "ADD"
           /\ Sends(AbortMsg(ids)) /\ input_queue' \in Seq(Message)
  <1>1. /\ AbortMsg(ids) \in Message /\ AbortMsg(ids).call = None /\ AbortMsg(ids).type = "ABORT"
        /\ AbortMsg(ids).ids = ids
    BY DEF AbortMsg, Message
  <1>2. PICK m : m = AbortMsg(ids)
    OBVIOUS
  <1>3. input_queue' = IF ids = {} \/ engine_dead THEN input_queue ELSE Append(input_queue, m)
    BY <1>2 DEF abort_requests_async
  <1>4. m \in Message /\ m.type = "ABORT" /\ m.ids = ids
    BY <1>1, <1>2
  <1>5. input_queue' \in Seq(Message)
    <2>1. input_queue \in Seq(Message)
      BY DEF Streaming, Typed
    <2>2. Append(input_queue, m) \in Seq(Message)
      BY <1>4, <2>1, QueueFacts
    <2> QED BY <1>3, <2>1, <2>2
  <1>6. engine_dead => engine \in {"dead", "exited"}
    BY DEF Streaming, DeadIsTold
  <1>7. ASSUME NEW i \in Id, AbortNow(i)
        PROVE  \/ AbortNow(i)' \/ engine \in {"dead", "exited"}
               \/ input_queue' = Append(input_queue, m) /\ m.type = "ABORT" /\ i \in m.ids
    <2>1. CASE i \in ids /\ ~engine_dead
      <3>1. input_queue' = Append(input_queue, m)
        BY <1>3, <2>1
      <3> QED BY <1>4, <2>1, <3>1
    <2>2. CASE i \notin ids
      BY <1>7, <2>2
    <2>3. CASE engine_dead
      BY <1>6, <2>3
    <2> QED BY <2>1, <2>2, <2>3
  <1>8. Sends(m)
    BY <1>3, <1>4, <1>7 DEF Sends
  <1> QED BY <1>1, <1>2, <1>5, <1>8

(* The abort of a caller goes out, *)
LEMMA SendAbortKeepsStreams ==
    ASSUME Streaming, NEW c \in Call, SendAbort(c)
    PROVE  Streaming'
  <1> USE EngineClientAssumption DEF EngineClientAssumption
  <1>1. PICK ids : ids = {IdOf[c]}
    OBVIOUS
  <1>2. /\ c \in unsent /\ unsent' = unsent \ {c} /\ abort_requests_async(ids)
        /\ UNCHANGED <<table, client, received, handler, reqs_to_abort, closer, swept, engine_dead,
                       output_queue, engine, core, emitted, shutdown_state>>
    BY <1>1 DEF SendAbort, consumers, handling, closing, flags, inner
  <1>3. ids \in SUBSET Id /\ \A i \in Id : i \in ids <=> i = IdOf[c]
    BY <1>1
  <1>4. /\ \A i \in ids : AbortNow(i)
        /\ \A i \in Id \ ids : AbortNow(i) => AbortNow(i)'
    BY <1>2, <1>3 DEF AbortNow
  <1>5. /\ AbortMsg(ids) \in Message /\ AbortMsg(ids).call = None /\ AbortMsg(ids).type # "ADD"
        /\ Sends(AbortMsg(ids)) /\ input_queue' \in Seq(Message)
    BY <1>2, <1>3, <1>4, AsyncSends
  <1>6. Typed'
    BY <1>2, <1>5 DEF Streaming, Typed, table
  <1> QED BY <1>2, <1>5, <1>6, SendingKeeps DEF Streaming, DeadIsTold

(* that of what the detokenizer stopped, *)
LEMMA AbortStoppedKeepsStreams ==
    ASSUME Streaming, AbortStopped
    PROVE  Streaming'
  <1>1. PICK ids : ids = reqs_to_abort
    OBVIOUS
  <1>2. /\ handler = "aborting" /\ handler' = "get"
        /\ reqs_to_abort' = {} /\ abort_requests_async(ids)
        /\ UNCHANGED <<table, client, received, unsent, closer, swept, engine_dead,
                       output_queue, engine, core, emitted, shutdown_state>>
    BY <1>1 DEF AbortStopped, consumers, closing, flags, inner
  <1>3. ids \in SUBSET Id
    BY <1>1 DEF Streaming, Typed
  <1>4. /\ \A i \in ids : AbortNow(i)
        /\ \A i \in Id \ ids : AbortNow(i) => AbortNow(i)'
    BY <1>1, <1>2 DEF AbortNow
  <1>5. /\ AbortMsg(ids) \in Message /\ AbortMsg(ids).call = None /\ AbortMsg(ids).type # "ADD"
        /\ Sends(AbortMsg(ids)) /\ input_queue' \in Seq(Message)
    BY <1>2, <1>3, <1>4, AsyncSends
  <1>6. Typed'
    BY <1>2, <1>5 DEF Streaming, Typed, table
  <1> QED BY <1>2, <1>5, <1>6, SendingKeeps DEF Streaming, DeadIsTold

(* that of what shutdown swept, *)
LEMMA SendSweptKeepsStreams ==
    ASSUME Streaming, SendSwept
    PROVE  Streaming'
  <1>1. PICK ids : ids = swept
    OBVIOUS
  <1>2. /\ closer' = "requesting" /\ swept' = {} /\ abort_requests_async(ids)
        /\ UNCHANGED <<table, client, received, unsent, handler, reqs_to_abort, engine_dead,
                       output_queue, engine, core, emitted, shutdown_state>>
    BY <1>1 DEF SendSwept, consumers, handling, flags, inner
  <1>3. ids \in SUBSET Id
    BY <1>1 DEF Streaming, Typed
  <1>4. /\ \A i \in ids : AbortNow(i)
        /\ \A i \in Id \ ids : AbortNow(i) => AbortNow(i)'
    BY <1>1, <1>2 DEF AbortNow
  <1>5. /\ AbortMsg(ids) \in Message /\ AbortMsg(ids).call = None /\ AbortMsg(ids).type # "ADD"
        /\ Sends(AbortMsg(ids)) /\ input_queue' \in Seq(Message)
    BY <1>2, <1>3, <1>4, AsyncSends
  <1>6. Typed'
    BY <1>2, <1>5 DEF Streaming, Typed, table
  <1> QED BY <1>2, <1>5, <1>6, SendingKeeps DEF Streaming, DeadIsTold

(* and the wake-up of an engine that may be idle. *)
LEMMA WakeEngineKeepsStreams ==
    ASSUME Streaming, WakeEngine
    PROVE  Streaming'
  <1>1. PICK m : m = Wakeup
    OBVIOUS
  <1>2. /\ closer = "waking" /\ closer' = "joining" /\ input_queue' = Append(input_queue, m)
        /\ UNCHANGED <<table, client, received, unsent, handler, reqs_to_abort, swept, engine_dead,
                       output_queue, engine, core, emitted, shutdown_state>>
    BY <1>1 DEF WakeEngine, consumers, handling, flags, inner
  <1>3. m \in Message /\ m.call = None /\ m.type = "WAKEUP"
    BY <1>1 DEF Wakeup, Message
  <1>4. input_queue' \in Seq(Message)
    BY <1>2, <1>3, QueueFacts DEF Streaming, Typed
  <1>5. Sends(m)
    BY <1>2, <1>3 DEF Sends, AbortNow
  <1>6. Typed'
    BY <1>2, <1>4 DEF Streaming, Typed, table
  <1> QED BY <1>2, <1>3, <1>5, <1>6, SendingKeeps DEF Streaming, DeadIsTold

----------------------------------------------------------------------------
(* The steps aside: those of the threads, *)

(* Nothing changes for a consumer where nothing is put or taken, and it is *)
(* not registered. *)
LEMMA SlotsStay ==
    ASSUME Slots, UNCHANGED <<table, received>>,
           \A c \in Call : client'[c] = client[c] \/ (~Submitted(c) /\ ~Submitted(c)')
    PROVE  Slots'
  <1> SUFFICES ASSUME NEW c \in Call PROVE Slot(c)'
    BY DEF Slots
  <1>1. Slot(c) /\ Owed(c)' = Owed(c)
    BY DEF Slots, Owed, table
  <1>2. client'[c] # client[c] => /\ client'[c] \notin {"waiting", "finished"}
                                  /\ ~Submitted(c)
    BY DEF Submitted
  <1>3. ~Submitted(c)' => ~Submitted(c)
    BY DEF Submitted
  <1> QED BY <1>1, <1>2, <1>3 DEF Slot, table

(* A step of a thread that does nothing but to move it on. *)
LEMMA ThreadMovesKeeps ==
    ASSUME Streaming, UNCHANGED <<table, client, received, queues, core, emitted, unsent,
                                  reqs_to_abort, swept, engine_dead>>,
           handler' \in {"get", "aborting", "caught", "propagating", "ended"},
           closer' \in {"none", "started", "stopping", "sweeping", "requesting", "waking",
                        "joining", "closing", "closed"},
           shutdown_state' \in {"running", "requested", "shutting_down"},
           engine' \in {"top", "polling", "waiting", "draining", "stepping", "exited", "dead"},
           UNCHANGED engine \/ {engine, engine'} \intersect {"dead", "exited"} = {},
           UNCHANGED handler \/ {handler, handler'} \intersect {"get", "aborting"} = {},
           UNCHANGED closer \/ closer # "sweeping"
    PROVE  Streaming'
  <1>1. Typed'
    BY DEF Streaming, Typed, table, queues
  <1>2. Slots'
    BY SlotsStay DEF Streaming
  <1>3. \A c \in Call : Submitted(c)' <=> Submitted(c)
    BY DEF Submitted
  <1>4. swept # {} => closer' = "sweeping"
    BY DEF Streaming, DeadIsTold
  <1>5. UNCHANGED <<request_states, output_tokens, ending>>
    BY DEF table
  <1> QED BY <1>1, <1>2, <1>3, <1>4, <1>5, AsideKeeps

(* All steps that only move a thread. *)
LEMMA ThreadsKeepStreams ==
    ASSUME Streaming,
           \/ HandlerFails \/ Shutdown \/ SetStopping \/ RequestShutdown \/ JoinHandler
           \/ PollInput \/ EndInput \/ UNCHANGED vars
    PROVE  Streaming'
  <1> USE DEF table, consumers, handling, closing, threads, flags, inner, outside
  <1>0. Typed
    BY DEF Streaming
  <1>1. CASE HandlerFails
    BY <1>0, <1>1, ThreadMovesKeeps DEF HandlerFails, Typed
  <1>2. CASE Shutdown
    BY <1>0, <1>2, ThreadMovesKeeps DEF Shutdown, Typed
  <1>3. CASE SetStopping
    BY <1>0, <1>3, ThreadMovesKeeps DEF SetStopping, Typed
  <1>4. CASE RequestShutdown
    BY <1>0, <1>4, ThreadMovesKeeps DEF RequestShutdown, Typed
  <1>5. CASE JoinHandler
    BY <1>0, <1>5, ThreadMovesKeeps DEF JoinHandler, Typed
  <1>6. CASE PollInput
    BY <1>0, <1>6, ThreadMovesKeeps DEF PollInput, Typed
  <1>7. CASE EndInput
    BY <1>0, <1>7, ThreadMovesKeeps DEF EndInput, Typed
  <1>8. CASE UNCHANGED vars
    BY <1>0, <1>8, ThreadMovesKeeps DEF vars, Typed
  <1> QED BY <1>1, <1>2, <1>3, <1>4, <1>5, <1>6, <1>7, <1>8

(* those of the callers, that come to be refused or not, *)
LEMMA CallersKeepStreams ==
    ASSUME Streaming, NEW c \in Call, CheckRunning(c) \/ AddRequestThrows(c)
    PROVE  Streaming'
  <1> USE EngineClientAssumption DEF EngineClientAssumption
  <1>1. /\ client[c] \in {"new", "checked"}
        /\ \E state \in {"refused", "checked", "duplicate"} : client' = [client EXCEPT ![c] = state]
        /\ UNCHANGED <<received, table, threads, flags, queues, inner>>
    BY DEF CheckRunning, AddRequestThrows
  <1>2. UNCHANGED <<request_states, output_tokens, sent, ending, collector, unsent, handler,
                    reqs_to_abort, closer, swept, engine_dead, engine, core, emitted,
                    shutdown_state, input_queue, output_queue>>
    BY <1>1 DEF table, threads, handling, closing, flags, inner, queues
  <1>3. client \in [Call -> {"new", "checked", "refused", "duplicate", "waiting", "caught",
                             "finished", "failed"}]
    BY DEF Streaming, Typed
  <1>4. client' \in [Call -> {"new", "checked", "refused", "duplicate", "waiting", "caught",
                              "finished", "failed"}]
    BY <1>1, <1>3
  <1>5. Typed'
    BY <1>1, <1>2, <1>4 DEF Streaming, Typed
  <1>6. \A d \in Call : /\ client'[d] = client[d] \/ (~Submitted(d) /\ ~Submitted(d)')
                        /\ Submitted(d)' <=> Submitted(d)
    BY <1>1, <1>3 DEF Submitted
  <1>7. Slots'
    BY <1>1, <1>6, SlotsStay DEF Streaming
  <1>8. swept # {} => closer' = "sweeping"
    BY <1>2 DEF Streaming, DeadIsTold
  <1> QED BY <1>1, <1>2, <1>5, <1>6, <1>7, <1>8, AsideKeeps

(* that of the output handler that gives up, *)
LEMMA PropagateErrorKeepsStreams ==
    ASSUME Streaming, PropagateError
    PROVE  Streaming'
  <1> USE EngineClientAssumption DEF EngineClientAssumption
  <1> DEFINE broken == [EmptyCollector EXCEPT !.error = TRUE]
  <1>1. /\ handler = "propagating" /\ handler' = "ended"
        /\ UNCHANGED <<request_states, output_tokens, sent, ending, client, received, unsent,
                       reqs_to_abort, closer, swept, engine_dead, queues, engine, core, emitted,
                       shutdown_state>>
    BY DEF PropagateError, consumers, closing, flags, inner
  <1>2. collector' = [c \in Call |-> IF c \in Registered(Id) THEN broken ELSE collector[c]]
    BY DEF PropagateError
  <1>3. /\ broken \in SlotType /\ ~broken.full /\ broken.tokens = << >> /\ ~broken.finished
        /\ broken.error
    <2>1. << >> \in Tokened
      BY DEF Tokened
    <2> QED BY <2>1 DEF EmptyCollector, SlotType
  <1> HIDE DEF broken
  <1>4. collector \in [Call -> SlotType]
    BY DEF Streaming, Typed
  <1>5. collector' \in [Call -> SlotType]
    BY <1>2, <1>3, <1>4
  <1>6. Typed'
    BY <1>1, <1>5 DEF Streaming, Typed, queues
  <1>7. Slots'
    <2> SUFFICES ASSUME NEW c \in Call PROVE Slot(c)'
      BY DEF Slots
    <2>1. Slot(c) /\ Owed(c)' = Owed(c) /\ (Submitted(c)' <=> Submitted(c))
      BY <1>1 DEF Streaming, Slots, Owed, Submitted
    <2>2. CASE c \notin Registered(Id)
      <3>1. collector'[c] = collector[c]
        BY <1>2, <2>2
      <3> QED BY <1>1, <2>1, <3>1 DEF Slot
    <2>3. CASE c \in Registered(Id)
      <3>1. collector'[c] = broken
        BY <1>2, <2>3
      <3>2. PICK i \in Id : c = request_states[i]
        BY <2>3 DEF Registered
      <3>3. Held(c)
        BY <3>2 DEF Streaming, Table, Held
      <3>4. Submitted(c) /\ ending[c] = "none"
        BY <3>3 DEF Streaming, Table
      <3> QED BY <1>1, <1>3, <2>1, <3>1, <3>4 DEF Slot
    <2> QED BY <2>2, <2>3
  <1>8. \A c \in Call : Submitted(c)' <=> Submitted(c)
    BY <1>1 DEF Submitted
  <1>9. swept # {} => closer' = "sweeping"
    BY <1>1 DEF Streaming, DeadIsTold
  <1> QED BY <1>1, <1>6, <1>7, <1>8, <1>9, AsideKeeps

(* and that of a consumer that takes its output: it has what its collector *)
(* held for it, and nothing is left there.                                 *)
LEMMA GetOutputKeepsStreams ==
    ASSUME Streaming, NEW c \in Call, GetOutput(c)
    PROVE  Streaming'
  <1> USE EngineClientAssumption DEF EngineClientAssumption
  <1> DEFINE s == collector[c]
             t == collector'[c]
             r == received'[c]
  <1>1. /\ client[c] = "waiting"
        /\ UNCHANGED <<request_states, output_tokens, sent, ending, unsent, handler,
                       reqs_to_abort, closer, swept, engine_dead, queues, engine, core, emitted,
                       shutdown_state>>
    BY DEF GetOutput, threads, handling, closing, flags, inner
  <1>2. Typed
    BY DEF Streaming
  <1>3. /\ Slot(c) /\ Owed(c)' = Owed(c)
        /\ s \in SlotType /\ received[c] \in Tokened /\ output_tokens[c] \in Tokened
        /\ output_tokens[c] = Own(c, Len(output_tokens[c]))
    BY <1>1, <1>2 DEF Streaming, Slots, TokensFollow, Owed, Typed
  <1>4. \A d \in Call \ {c} : collector'[d] = collector[d] /\ received'[d] = received[d]
                                /\ client'[d] = client[d]
    BY <1>2 DEF GetOutput, Typed
  <1>5. << >> \in Tokened /\ EmptyCollector \in SlotType
    <2>1. << >> \in Tokened
      BY DEF Tokened
    <2> QED BY <2>1 DEF EmptyCollector, SlotType
  <1>6. ASSUME s.error
        PROVE  Typed' /\ Slot(c)' /\ client'[c] \in {"waiting", "caught", "finished", "failed"}
    <2>1. /\ collector' = [collector EXCEPT ![c].error = FALSE]
          /\ client' = [client EXCEPT ![c] = "caught"] /\ received' = received
      BY <1>6 DEF GetOutput
    <2>2. /\ t = [s EXCEPT !.error = FALSE] /\ collector' \in [Call -> SlotType]
          /\ client'[c] = "caught" /\ r = received[c]
      <3>1. collector' = [collector EXCEPT ![c] = [s EXCEPT !.error = FALSE]]
        BY <2>1
      <3>2. [s EXCEPT !.error = FALSE] \in SlotType
        BY <1>3 DEF SlotType
      <3>3. PICK v : v = [s EXCEPT !.error = FALSE]
        OBVIOUS
      <3>4. collector' = [collector EXCEPT ![c] = v] /\ v \in SlotType
        BY <3>1, <3>2, <3>3
      <3>5. t = v /\ collector' \in [Call -> SlotType]
        BY <1>2, <3>4 DEF Typed
      <3>6. client'[c] = "caught" /\ r = received[c]
        BY <1>2, <2>1 DEF Typed
      <3> QED BY <3>3, <3>5, <3>6
    <2>3. t.full = s.full /\ t.tokens = s.tokens /\ t.finished = s.finished /\ ~t.error
      BY <1>3, <2>2 DEF SlotType
    <2>4. Typed'
      BY <1>1, <1>2, <2>1, <2>2 DEF Typed, queues
    <2>5. Slot(c)'
      BY <1>1, <1>3, <2>2, <2>3 DEF Slot, Submitted
    <2>6. client'[c] \in {"waiting", "caught", "finished", "failed"}
      BY <2>2
    <2> QED BY <2>4, <2>5, <2>6
  <1>7. ASSUME ~s.error
        PROVE  Typed' /\ Slot(c)' /\ client'[c] \in {"waiting", "caught", "finished", "failed"}
    <2> DEFINE st == IF s.finished THEN "finished" ELSE client[c]
               new == IF KindOf[c] = "delta" THEN received[c] \o s.tokens ELSE s.tokens
    <2>1. /\ s.full /\ collector' = [collector EXCEPT ![c] = EmptyCollector]
          /\ client' = [client EXCEPT ![c] = IF s.finished THEN "finished" ELSE @]
          /\ received' = [received EXCEPT ![c] =
                   IF KindOf[c] = "delta" THEN @ \o s.tokens ELSE s.tokens]
      BY <1>7 DEF GetOutput
    <2>2. /\ s.full /\ collector' = [collector EXCEPT ![c] = EmptyCollector]
          /\ client' = [client EXCEPT ![c] = st] /\ received' = [received EXCEPT ![c] = new]
      BY <1>2, <2>1 DEF Typed
    <2>3. new \in Tokened /\ st \in {"finished", "waiting"}
      <3>1. s.tokens \in Tokened
        BY <1>3 DEF SlotType
      <3>2. received[c] \o s.tokens \in Tokened
        BY <1>3, <3>1, Joined
      <3> QED BY <1>1, <3>1, <3>2
    <2> HIDE DEF st, new
    <2>4. t = EmptyCollector /\ r = new /\ client'[c] = st
      BY <1>2, <2>2 DEF Typed
    <2>5. Typed'
      BY <1>1, <1>2, <1>5, <2>2, <2>3 DEF Typed, queues
    <2>6. ~t.full /\ t.tokens = << >> /\ ~t.finished /\ ~t.error
      BY <2>4 DEF EmptyCollector
    <2> DEFINE n == Len(output_tokens[c])
    <2>7. /\ n \in Nat /\ Owed(c) \in Nat /\ Owed(c) <= n /\ Len(s.tokens) \in Nat
      <3>1. sent[c] \in Nat /\ sent[c] <= n
        BY <1>2, <1>3 DEF Typed, Slot
      <3>2. n \in Nat /\ Len(s.tokens) \in Nat
        BY <1>3 DEF Tokened, SlotType
      <3> QED BY <3>1, <3>2 DEF Owed
    <2> HIDE DEF n
    <2>8. /\ r = Own(c, Len(r)) /\ Len(r) \in Nat /\ Len(r) <= n
          /\ s.finished => r = output_tokens[c]
          /\ KindOf[c] = "delta" => r = Own(c, Owed(c))
      <3>1. CASE KindOf[c] = "delta"
        <4>1. /\ r = Own(c, Owed(c)) /\ Len(Own(c, Owed(c))) = Owed(c)
              /\ s.finished => Owed(c) = n
          BY <1>1, <1>3, <1>7, <2>4, <2>7, <3>1, OwnFacts DEF Slot, new, n
        <4> QED BY <1>3, <2>7, <4>1 DEF n
      <3>2. CASE KindOf[c] # "delta"
        <4>1. /\ r = s.tokens /\ s.tokens = Own(c, Len(s.tokens)) /\ Len(s.tokens) <= n
              /\ s.finished => s.tokens = output_tokens[c]
          BY <1>1, <1>3, <1>7, <2>2, <2>4, <3>2 DEF Slot, new, n
        <4> QED BY <2>7, <3>2, <4>1
      <3> QED BY <3>1, <3>2
    <2>9. s.finished => ending[c] # "none"
      BY <1>3 DEF Slot
    <2>10. Slot(c)'
      <3>1. sent'[c] <= Len(output_tokens'[c]) /\ Len(output_tokens'[c]) = n
        BY <1>1, <1>3 DEF Slot, n
      <3>2. KindOf[c] = "delta" => r \o t.tokens = Own(c, Owed(c)')
        <4>1. r \o << >> = r
          BY <2>3, <2>4, JoinedEmpty
        <4> QED BY <1>3, <2>6, <2>8, <4>1
      <3>3. client'[c] = "finished" => r = output_tokens'[c] /\ ending'[c] # "none"
        BY <1>1, <2>4, <2>8, <2>9 DEF st
      <3>4. client'[c] \in {"waiting", "finished"}
        BY <2>3, <2>4
      <3> QED BY <2>4, <2>6, <2>8, <3>1, <3>2, <3>3, <3>4 DEF Slot, Submitted
    <2>11. client'[c] \in {"waiting", "caught", "finished", "failed"}
      BY <2>3, <2>4
    <2> QED BY <2>5, <2>10, <2>11
  <1>8. Typed' /\ Slot(c)' /\ client'[c] \in {"waiting", "caught", "finished", "failed"}
    BY <1>6, <1>7
  <1>9. \A d \in Call : Submitted(d)' <=> Submitted(d)
    BY <1>1, <1>4, <1>8 DEF Submitted
  <1>10. Slots'
    <2> SUFFICES ASSUME NEW d \in Call PROVE Slot(d)'
      BY DEF Slots
    <2>1. CASE d = c
      BY <1>8, <2>1
    <2>2. CASE d # c
      <3>1. Slot(d) /\ Owed(d)' = Owed(d) /\ (Submitted(d)' <=> Submitted(d))
        BY <1>1, <1>9 DEF Streaming, Slots, Owed
      <3> QED BY <1>1, <1>4, <2>2, <3>1 DEF Slot
    <2> QED BY <2>1, <2>2
  <1>11. swept # {} => closer' = "sweeping"
    BY <1>1 DEF Streaming, DeadIsTold
  <1> QED BY <1>1, <1>8, <1>9, <1>10, <1>11, AsideKeeps

----------------------------------------------------------------------------
(* Registering a request: no other of its id is open, so that neither the  *)
(* queues nor the scheduler hold anything under it.                        *)
LEMMA NoneIsOpen ==
    ASSUME Streaming, ~ReuseAborted, NEW c \in Call, AddRequest(c)
    PROVE  /\ \A d \in Call : IdOf[d] = IdOf[c] => ~Open(d) /\ ~Held(d)
           /\ ~Submitted(c) /\ request_states[IdOf[c]] = None /\ core[IdOf[c]] = None
  <1> USE EngineClientAssumption DEF EngineClientAssumption
  <1>1. /\ client[c] = "checked" /\ request_states[IdOf[c]] = None
        /\ \A d \in Call : IdOf[d] = IdOf[c] => ending[d] \in {"none", "core"}
    BY DEF AddRequest, Register, MayUse
  <1>2. ASSUME NEW d \in Call, IdOf[d] = IdOf[c] PROVE ~Open(d) /\ ~Held(d)
    <2>1. ~Held(d)
      BY <1>1, <1>2 DEF Held
    <2> QED BY <1>1, <1>2, <2>1 DEF Streaming, Table, Open
  <1>3. core[IdOf[c]] = None
    <2>1. PICK i : i = IdOf[c]
      OBVIOUS
    <2>2. i \in Id /\ core[i] \in Call \union {None}
      BY <2>1 DEF Streaming, Typed
    <2>3. PICK d : d = core[i]
      OBVIOUS
    <2>4. ASSUME d # None PROVE FALSE
      <3>1. d \in Call /\ IdOf[d] = i
        BY <2>2, <2>3, <2>4 DEF Streaming, Table
      <3>2. Open(d)
        BY <2>3, <3>1 DEF Streaming, OnePlace
      <3> QED BY <1>2, <2>1, <3>1, <3>2
    <2> QED BY <2>1, <2>3, <2>4
  <1>4. ~Submitted(c)
    BY <1>1 DEF Submitted
  <1> QED BY <1>1, <1>2, <1>3, <1>4

(* What is new in the input queue is the request. *)
Registers(c) ==
    /\ Len(input_queue) \in Nat /\ Len(input_queue') = Len(input_queue) + 1
    /\ input_queue' \in Seq(Message) /\ input_queue'[Len(input_queue) + 1] = Add(c)
    /\ \A k \in 1 .. Len(input_queue) : input_queue'[k] = input_queue[k]
    /\ \A k, d : Adds(k, d)' <=> Adds(k, d) \/ (k = Len(input_queue) + 1 /\ d = c)
    /\ \A i \in Id : \A from \in Nat \ {0} : AbortComing(i, from)' <=> AbortComing(i, from)

(* add_request puts the request, and nothing else, behind what is queued. *)
LEMMA RequestQueued ==
    ASSUME Streaming, NEW c \in Call, AddRequest(c)
    PROVE  Registers(c)
  <1> USE EngineClientAssumption DEF EngineClientAssumption
  <1>1. PICK m : m = Add(c)
    OBVIOUS
  <1>2. /\ input_queue' = Append(input_queue, m)
        /\ UNCHANGED <<unsent, reqs_to_abort, swept>>
    BY <1>1 DEF AddRequest, Register, threads, handling, closing
  <1>3. m \in Message /\ m.type = "ADD" /\ m.call = c
    BY <1>1 DEF Add, Message
  <1>4. /\ Len(input_queue) \in Nat /\ Len(input_queue') = Len(input_queue) + 1
        /\ input_queue' \in Seq(Message) /\ input_queue'[Len(input_queue) + 1] = m
        /\ \A k \in 1 .. Len(input_queue) : input_queue'[k] = input_queue[k]
    <2>1. input_queue \in Seq(Message)
      BY DEF Streaming, Typed
    <2> QED BY <1>2, <1>3, <2>1, QueueFacts
  <1>5. ASSUME NEW k, NEW d
        PROVE  Adds(k, d)' <=> Adds(k, d) \/ (k = Len(input_queue) + 1 /\ d = c)
    <2>1. Add(d) = Add(c) <=> d = c
      BY DEF Add
    <2>2. k \in 1 .. Len(input_queue') <=> k \in 1 .. Len(input_queue) \/ k = Len(input_queue) + 1
      BY <1>4
    <2>3. Len(input_queue) + 1 \notin 1 .. Len(input_queue)
      BY <1>4
    <2> QED BY <1>1, <1>4, <2>1, <2>2, <2>3 DEF Adds
  <1>6. ASSUME NEW i \in Id, NEW from \in Nat \ {0}
        PROVE  AbortComing(i, from)' <=> AbortComing(i, from)
    <2>1. \A k \in from .. Len(input_queue') : input_queue'[k].type = "ABORT" =>
              k \in from .. Len(input_queue)
      BY <1>3, <1>4
    <2>2. \A k \in from .. Len(input_queue) :
              k \in from .. Len(input_queue') /\ input_queue'[k] = input_queue[k]
      BY <1>4
    <2>3. AbortAt(i, from)' <=> AbortAt(i, from)
      BY <2>1, <2>2 DEF AbortAt
    <2> QED BY <1>2, <2>3 DEF AbortComing, AbortAt
  <1> QED BY <1>1, <1>4, <1>5, <1>6 DEF Registers

(* A request newly registered is on its way to the scheduler, alone under  *)
(* its id.                                                                 *)
LEMMA AddRequestKeepsStreams ==
    ASSUME Streaming, ~ReuseAborted, NEW c \in Call, AddRequest(c)
    PROVE  Streaming'
  <1> USE EngineClientAssumption DEF EngineClientAssumption
  <1> DEFINE p == Len(input_queue)
  <1>1. /\ client[c] = "checked" /\ client' = [client EXCEPT ![c] = "waiting"]
        /\ request_states' = [request_states EXCEPT ![IdOf[c]] = c]
        /\ ~engine_dead
        /\ UNCHANGED <<output_tokens, sent, ending, collector, received, unsent, handler,
                       reqs_to_abort, closer, swept, engine_dead, output_queue, engine, core,
                       emitted, shutdown_state>>
    BY DEF AddRequest, Register, Stopped, threads, handling, closing, flags, inner
  <1>2. /\ \A d \in Call : IdOf[d] = IdOf[c] => ~Open(d) /\ ~Held(d)
        /\ ~Submitted(c) /\ request_states[IdOf[c]] = None /\ core[IdOf[c]] = None
    BY NoneIsOpen
  <1>3. Registers(c)
    BY RequestQueued
  <1>4. /\ p \in Nat /\ Len(input_queue') = p + 1
        /\ input_queue' \in Seq(Message) /\ input_queue'[p + 1] = Add(c)
        /\ \A k \in 1 .. p : input_queue'[k] = input_queue[k]
        /\ \A k, d : Adds(k, d)' <=> Adds(k, d) \/ (k = p + 1 /\ d = c)
        /\ \A i \in Id : \A from \in Nat \ {0} : AbortComing(i, from)' <=> AbortComing(i, from)
    BY <1>3 DEF Registers
  <1> HIDE DEF p
  <1>5. /\ Typed /\ Queued /\ Table /\ OnePlace /\ AbortsAreOver /\ DeadIsTold /\ TokensFollow
        /\ Slots /\ RegisteredIsServed /\ OrphansAreAborted
    BY DEF Streaming
  <1>6. Typed'
    BY <1>1, <1>4, <1>5 DEF Typed
  <1>7. Queued'
    <2>1. ASSUME NEW k \in 1 .. Len(input_queue')
          PROVE  IF input_queue'[k].call = None THEN input_queue'[k].type # "ADD"
                                                ELSE input_queue'[k] = Add(input_queue'[k].call)
      <3>1. k \in 1 .. p \/ k = p + 1
        BY <1>4
      <3>2. CASE k \in 1 .. p
        BY <1>4, <1>5, <3>2 DEF Queued, p
      <3>3. CASE k = p + 1
        <4>1. PICK m : m = Add(c)
          OBVIOUS
        <4>2. m.call = c /\ c # None
          BY <4>1 DEF Add
        <4>3. input_queue'[k] = m
          BY <1>4, <3>3, <4>1
        <4> QED BY <4>1, <4>2, <4>3
      <3> QED BY <3>1, <3>2, <3>3
    <2> QED BY <1>1, <1>5, <2>1 DEF Queued
  <1>8. /\ \A d \in Call \ {c} : Submitted(d)' <=> Submitted(d)
        /\ Submitted(c)'
        /\ \A d \in Call \ {c} : Open(d)' <=> Open(d)
        /\ \A d \in Call \ {c} : Held(d)' <=> Held(d)
        /\ Held(c)' /\ ending'[c] = "none" /\ Open(c)'
    <2>1. /\ \A d \in Call \ {c} : Submitted(d)' <=> Submitted(d)
          /\ Submitted(c)'
      BY <1>1, <1>5 DEF Typed, Submitted
    <2>2. ending'[c] = "none"
      BY <1>1, <1>2, <1>5 DEF Table
    <2>3. \A d \in Call \ {c} : Held(d)' <=> Held(d)
      BY <1>1, <1>2, <1>5 DEF Typed, Held
    <2>4. Held(c)'
      BY <1>1, <1>5 DEF Typed, Held
    <2> QED BY <1>1, <2>1, <2>2, <2>3, <2>4 DEF Open
  <1>9. Table'
    <2>1. \A d \in Call : Held(d)' <=> Submitted(d)' /\ ending'[d] = "none"
      BY <1>1, <1>5, <1>8 DEF Table
    <2>2. \A i \in Id : request_states'[i] # None => IdOf[request_states'[i]] = i
      BY <1>1, <1>5 DEF Table, Typed
    <2>3. \A d, e \in Call : Open(d)' /\ Open(e)' /\ IdOf[d] = IdOf[e] => d = e
      BY <1>2, <1>5, <1>8 DEF Table
    <2> QED BY <1>1, <1>5, <1>8, <2>1, <2>2, <2>3 DEF Table
  <1>10. \A k, d : (Carries(k, d)' <=> Carries(k, d)) /\ (Last(k, d)' <=> Last(k, d))
                   /\ TokensAt(k, d)' = TokensAt(k, d)
    BY <1>1 DEF Carries, Last, TokensAt
  <1>11. /\ \A k \in 1 .. p : ~Adds(k, c)
         /\ \A k \in 1 .. Len(output_queue) : ~Carries(k, c)
         /\ emitted[c] = 0 /\ output_tokens[c] = << >>
    BY <1>2, <1>5 DEF OnePlace, TokensFollow, p
  <1>12. OnePlace'
    <2> SUFFICES ASSUME NEW d \in Call
        PROVE  /\ \A k \in 1 .. Len(input_queue') : Adds(k, d)' =>
                      /\ Open(d)' /\ core'[IdOf[d]] # d /\ emitted'[d] = 0
                      /\ \A l \in 1 .. Len(input_queue') : Adds(l, d)' => k = l
                      /\ \A l \in 1 .. Len(output_queue') : ~Carries(l, d)'
               /\ core'[IdOf[d]] = d =>
                      /\ Open(d)' /\ emitted'[d] < MaxTokens[d]
                      /\ \A k \in 1 .. Len(output_queue') : ~Last(k, d)'
               /\ \A k \in 1 .. Len(output_queue') : Carries(k, d)' =>
                      /\ Open(d)'
                      /\ Last(k, d)' => \A l \in 1 .. Len(output_queue') : Carries(l, d)' => l <= k
      BY DEF OnePlace
    <2>1. CASE d = c
      <3>1. \A k : Adds(k, c)' => k = p + 1
        <4>1. \A k : Adds(k, c) => k \in 1 .. p
          BY DEF Adds, p
        <4> QED BY <1>4, <1>11, <4>1
      <3> QED BY <1>1, <1>2, <1>8, <1>10, <1>11, <2>1, <3>1
    <2>2. CASE d # c
      <3>1. \A k : Adds(k, d)' => Adds(k, d) /\ k \in 1 .. p
        <4>1. \A k : Adds(k, d) => k \in 1 .. p
          BY DEF Adds, p
        <4> QED BY <1>4, <2>2, <4>1
      <3>2. /\ \A k \in 1 .. p : Adds(k, d) =>
                   /\ Open(d) /\ core[IdOf[d]] # d /\ emitted[d] = 0
                   /\ \A l \in 1 .. p : Adds(l, d) => k = l
                   /\ \A l \in 1 .. Len(output_queue) : ~Carries(l, d)
            /\ core[IdOf[d]] = d =>
                   /\ Open(d) /\ emitted[d] < MaxTokens[d]
                   /\ \A k \in 1 .. Len(output_queue) : ~Last(k, d)
            /\ \A k \in 1 .. Len(output_queue) : Carries(k, d) =>
                   /\ Open(d)
                   /\ Last(k, d) => \A l \in 1 .. Len(output_queue) : Carries(l, d) => l <= k
        BY <1>5 DEF OnePlace, p
      <3>3. Open(d)' <=> Open(d)
        BY <1>8, <2>2
      <3> QED BY <1>1, <1>10, <3>1, <3>2, <3>3
    <2> QED BY <2>1, <2>2
  <1>13. AbortsAreOver'
    <2>1. \A i \in Id : AbortComing(i, 1)' <=> AbortComing(i, 1)
      BY <1>4
    <2> QED BY <1>1, <1>5, <2>1 DEF AbortsAreOver
  <1>14. DeadIsTold'
    BY <1>1, <1>5 DEF DeadIsTold
  <1>15. TokensFollow'
    <2> SUFFICES ASSUME NEW d \in Call
        PROVE  /\ output_tokens'[d] = Own(d, Len(output_tokens'[d]))
               /\ Len(output_tokens'[d]) <= MaxTokens[d] /\ emitted'[d] <= MaxTokens[d]
               /\ Held(d)' => \E n \in [0 .. Len(output_queue') -> 0 .. MaxTokens[d]] : InOrder(d, n)'
               /\ ending'[d] = "core" => Len(output_tokens'[d]) = emitted'[d]
               /\ ~Submitted(d)' => output_tokens'[d] = << >> /\ emitted'[d] = 0
      BY DEF TokensFollow
    <2>1. /\ output_tokens[d] = Own(d, Len(output_tokens[d]))
          /\ Len(output_tokens[d]) <= MaxTokens[d] /\ emitted[d] <= MaxTokens[d]
          /\ Held(d) => \E n \in [0 .. Len(output_queue) -> 0 .. MaxTokens[d]] : InOrder(d, n)
          /\ ending[d] = "core" => Len(output_tokens[d]) = emitted[d]
          /\ ~Submitted(d) => output_tokens[d] = << >> /\ emitted[d] = 0
      BY <1>5 DEF TokensFollow
    <2>2. \A n : InOrder(d, n)' <=> InOrder(d, n)
      BY <1>1, <1>10 DEF InOrder
    <2>3. CASE d # c
      <3>1. (Held(d)' <=> Held(d)) /\ (Submitted(d)' <=> Submitted(d))
        BY <1>8, <2>3
      <3> QED BY <1>1, <2>1, <2>2, <3>1
    <2>4. CASE d = c
      <3> DEFINE m == Len(output_queue)
                 z == [k \in 0 .. m |-> 0]
      <3>1. m \in Nat
        BY <1>5 DEF Typed
      <3>2. Len(output_tokens[c]) = 0 /\ emitted[c] = 0
        BY <1>11
      <3>3. \A k \in 1 .. m : k \in 0 .. m /\ k - 1 \in 0 .. m /\ ~Carries(k, c)
        BY <1>11, <3>1
      <3>4. PICK w : w = z
        OBVIOUS
      <3>5. /\ \A k \in 0 .. m : w[k] = 0
            /\ w \in [0 .. m -> 0 .. MaxTokens[c]]
        BY <3>4
      <3> HIDE DEF z
      <3>6. 0 \in 0 .. m /\ m \in 0 .. m
        BY <3>1
      <3>7. \A k \in 1 .. m : TokensAt(k, c) = << >> /\ w[k] = w[k - 1] /\ ~Last(k, c)
        BY <3>3, <3>5 DEF TokensAt, Last
      <3>8. InOrder(c, w)
        BY <3>2, <3>5, <3>6, <3>7 DEF InOrder, m
      <3>9. \E n \in [0 .. Len(output_queue') -> 0 .. MaxTokens[d]] : InOrder(d, n)'
        BY <1>1, <2>2, <2>4, <3>5, <3>8 DEF m
      <3> QED BY <1>1, <1>8, <2>1, <2>4, <3>9
    <2> QED BY <2>3, <2>4
  <1>16. Slots'
    <2> SUFFICES ASSUME NEW d \in Call PROVE Slot(d)'
      BY DEF Slots
    <2>1. Slot(d) /\ Owed(d)' = Owed(d)
      BY <1>1, <1>5 DEF Slots, Owed
    <2>2. CASE d # c
      <3>1. (Submitted(d)' <=> Submitted(d)) /\ client'[d] = client[d]
        BY <1>1, <1>5, <1>8, <2>2 DEF Typed
      <3> QED BY <1>1, <2>1, <3>1 DEF Slot
    <2>3. CASE d = c
      <3>1. received[c] = << >> /\ collector[c] = EmptyCollector /\ sent[c] = 0
        BY <1>2, <2>1, <2>3 DEF Slot
      <3>2. Owed(c) = 0
        BY <1>11, <3>1 DEF Owed
      <3>3. Own(c, 0) = << >> /\ << >> \o << >> = << >>
        BY OwnGrows, JoinedEmpty DEF Tokened
      <3>4. client'[c] = "waiting"
        BY <1>1, <1>5 DEF Typed
      <3> QED BY <1>1, <1>8, <1>11, <2>1, <2>3, <3>1, <3>2, <3>3, <3>4 DEF Slot, EmptyCollector
    <2> QED BY <2>2, <2>3
  <1>17. RegisteredIsServed'
    <2>1. CASE engine = "dead"
      BY <1>1, <1>5, <2>1 DEF RegisteredIsServed, DeadIsTold
    <2>2. CASE engine # "dead"
      <3> SUFFICES ASSUME NEW i \in Id, NEW d, d = request_states'[i], d # None
                   PROVE  InFlight(d)' \/ core[i] = d \/ EndsInQueue(d)
        BY <1>1, <2>2 DEF RegisteredIsServed, EndsInQueue
      <3>1. CASE i = IdOf[c]
        <4>1. d = c
          BY <1>1, <1>5, <3>1 DEF Typed
        <4>2. p + 1 \in 1 .. Len(input_queue')
          BY <1>4
        <4> QED BY <1>4, <4>1, <4>2 DEF InFlight
      <3>2. CASE i # IdOf[c]
        <4>1. d = request_states[i]
          BY <1>1, <1>5, <3>2 DEF Typed
        <4>2. InFlight(d) \/ core[i] = d \/ EndsInQueue(d)
          BY <1>5, <2>2, <4>1 DEF RegisteredIsServed
        <4>3. ASSUME InFlight(d) PROVE InFlight(d)'
          <5>1. PICK k \in 1 .. p : input_queue[k] = Add(d)
            BY <4>3 DEF InFlight, p
          <5>2. k \in 1 .. Len(input_queue') /\ input_queue'[k] = Add(d)
            BY <1>4, <5>1
          <5> QED BY <5>2 DEF InFlight
        <4> QED BY <4>2, <4>3
      <3> QED BY <3>1, <3>2
    <2> QED BY <2>1, <2>2
  <1>18. OrphansAreAborted'
    <2>1. CASE engine \in {"dead", "exited"}
      BY <1>1, <2>1 DEF OrphansAreAborted
    <2>2. CASE engine \notin {"dead", "exited"}
      <3>1. /\ \A i \in Id : core[i] # None => request_states[i] = core[i] \/ AbortComing(i, 1)
            /\ \A k \in 1 .. p : Backed(k)
        BY <1>5, <2>2 DEF OrphansAreAborted, Backed, p
      <3>2. \A i \in Id : core[i] # None => request_states'[i] = core[i] \/ AbortComing(i, 1)'
        <4>1. \A i \in Id : core[i] # None => request_states'[i] = request_states[i]
          BY <1>1, <1>2, <1>5 DEF Typed
        <4> QED BY <1>4, <3>1, <4>1
      <3>3. ASSUME NEW k \in 1 .. Len(input_queue') PROVE Backed(k)'
        <4>1. k \in 1 .. p \/ k = p + 1
          BY <1>4
        <4>2. CASE k = p + 1
          <5>1. input_queue'[k].call = c
            BY <1>4, <4>2 DEF Add
          <5>2. request_states'[IdOf[c]] = c
            BY <1>1, <1>5 DEF Typed
          <5> QED BY <5>1, <5>2 DEF Backed
        <4>3. CASE k \in 1 .. p
          <5> SUFFICES ASSUME NEW d, d = input_queue[k].call, d # None
                       PROVE  request_states'[IdOf[d]] = d \/ AbortComing(IdOf[d], k)'
            BY <1>4, <4>3 DEF Backed
          <5>1. input_queue[k] \in Message /\ input_queue[k] = Add(d)
            BY <1>5, <4>3 DEF Typed, Queued, p
          <5>2. d \in Call /\ Adds(k, d)
            BY <4>3, <5>1 DEF Message, Adds, p
          <5>3. Open(d)
            BY <1>5, <4>3, <5>2 DEF OnePlace, p
          <5>4. IdOf[d] # IdOf[c]
            BY <1>2, <5>2, <5>3
          <5>5. request_states'[IdOf[d]] = request_states[IdOf[d]]
            BY <1>1, <1>5, <5>4 DEF Typed
          <5>6. request_states[IdOf[d]] = d \/ AbortComing(IdOf[d], k)
            BY <3>1, <4>3 DEF Backed
          <5>7. PICK i \in Id : i = IdOf[d]
            BY <5>2
          <5>8. AbortComing(i, k)' <=> AbortComing(i, k)
            BY <1>4, <4>3
          <5> QED BY <5>5, <5>6, <5>7, <5>8
        <4> QED BY <4>1, <4>2, <4>3
      <3> QED BY <1>1, <3>2, <3>3 DEF OrphansAreAborted, Backed
    <2> QED BY <2>1, <2>2
  <1> QED BY <1>6, <1>7, <1>9, <1>12, <1>13, <1>14, <1>15, <1>16, <1>17, <1>18 DEF Streaming

----------------------------------------------------------------------------
(* The invariant holds initially, *)
LEMMA InitStreaming == Init => Streaming
  <1> USE EngineClientAssumption DEF EngineClientAssumption
  <1> SUFFICES ASSUME Init PROVE Streaming
    OBVIOUS
  <1>1. /\ \A c \in Call : /\ client[c] = "new" /\ received[c] = << >>
                           /\ collector[c] = EmptyCollector /\ output_tokens[c] = << >>
                           /\ sent[c] = 0 /\ ending[c] = "none" /\ emitted[c] = 0
        /\ \A i \in Id : request_states[i] = None /\ core[i] = None
        /\ unsent = {} /\ reqs_to_abort = {} /\ swept = {} /\ handler = "get" /\ closer = "none"
        /\ engine_dead = FALSE /\ input_queue = << >> /\ output_queue = << >>
        /\ shutdown_state = "running" /\ engine = "top"
    BY DEF Init
  <1>2. << >> \in Tokened /\ EmptyCollector \in SlotType
    <2>1. << >> \in Tokened
      BY DEF Tokened
    <2> QED BY <2>1 DEF EmptyCollector, SlotType
  <1>3. Typed
    BY <1>2 DEF Init, Typed
  <1>4. \A c \in Call : ~Submitted(c) /\ ~Open(c) /\ ~Held(c)
    <2> TAKE c \in Call
    <2>1. client[c] = "new" /\ request_states[IdOf[c]] = None
      BY <1>1
    <2> QED BY <2>1 DEF Submitted, Open, Held
  <1>5. Len(input_queue) = 0 /\ Len(output_queue) = 0
    BY <1>1
  <1>6. \A k : k \notin 1 .. Len(input_queue) /\ k \notin 1 .. Len(output_queue)
    BY <1>5
  <1>7. Queued /\ OnePlace
    BY <1>1, <1>6 DEF Queued, OnePlace
  <1>8. Table
    BY <1>1, <1>4 DEF Table
  <1>9. \A i \in Id : ~AbortComing(i, 1)
    BY <1>1, <1>6 DEF AbortComing
  <1>10. AbortsAreOver /\ DeadIsTold
    BY <1>1, <1>6, <1>9 DEF AbortsAreOver, DeadIsTold
  <1>11. \A c \in Call : << >> = Own(c, 0) /\ Len(<< >>) = 0
    BY OwnGrows
  <1>12. TokensFollow
    <2> SUFFICES ASSUME NEW c \in Call
        PROVE  /\ output_tokens[c] = Own(c, Len(output_tokens[c]))
               /\ Len(output_tokens[c]) <= MaxTokens[c] /\ emitted[c] <= MaxTokens[c]
               /\ ~Held(c) /\ ending[c] # "core"
               /\ output_tokens[c] = << >> /\ emitted[c] = 0
      BY DEF TokensFollow
    <2>1. output_tokens[c] = << >> /\ Len(output_tokens[c]) = 0
      BY <1>1
    <2>2. 0 <= MaxTokens[c]
      OBVIOUS
    <2> QED BY <1>1, <1>4, <1>11, <2>1, <2>2
  <1>13. Slots
    <2> SUFFICES ASSUME NEW c \in Call PROVE Slot(c)
      BY DEF Slots
    <2>1. /\ output_tokens[c] = << >> /\ received[c] = << >> /\ sent[c] = 0
          /\ Len(output_tokens[c]) = 0 /\ Len(received[c]) = 0
      BY <1>1
    <2>2. received[c] = Own(c, Len(received[c]))
      BY <1>11, <2>1
    <2>3. /\ ~collector[c].full /\ collector[c].tokens = << >> /\ ~collector[c].finished
      BY <1>1 DEF EmptyCollector
    <2> QED BY <1>1, <1>4, <2>1, <2>2, <2>3 DEF Slot
  <1>14. RegisteredIsServed /\ OrphansAreAborted
    BY <1>1, <1>6 DEF RegisteredIsServed, OrphansAreAborted
  <1> QED BY <1>3, <1>7, <1>8, <1>10, <1>12, <1>13, <1>14 DEF Streaming

(* and every step keeps it. *)
LEMMA NextStreaming == ~ReuseAborted /\ Streaming /\ [Next]_vars => Streaming'
  <1> SUFFICES ASSUME ~ReuseAborted, Streaming, [Next]_vars PROVE Streaming'
    OBVIOUS
  <1>1. ASSUME NEW c \in Call,
               \/ CheckRunning(c) \/ AddRequestThrows(c) \/ AddRequest(c)
               \/ Consumer(c) \/ SendAbort(c)
        PROVE  Streaming'
    BY <1>1, CallersKeepStreams, AddRequestKeepsStreams, GetOutputKeepsStreams,
       AbortAfterErrorKeepsStreams, SendAbortKeepsStreams DEF Consumer
  <1>2. ASSUME NEW i \in Id, AbortRequest(i) PROVE Streaming'
    BY <1>2, AbortRequestKeepsStreams
  <1>3. CASE Shutdown \/ Closer
    BY <1>3, ThreadsKeepStreams, AbortAllKeepsStreams, SendSweptKeepsStreams,
       WakeEngineKeepsStreams, JoinKeeps DEF Closer
  <1>4. CASE OutputHandler
    BY <1>4, HandleOutputsKeepsStreams, AbortStoppedKeepsStreams, HandleEngineDeadKeepsStreams,
       ThreadsKeepStreams, PropagateErrorKeepsStreams DEF OutputHandler
  <1>5. CASE EngineThread \/ EngineThrows
    <2>1. CASE process_engine_step
      <3>1. PICK given \in SUBSET Live : \E finishing \in SUBSET given : ProcessStep(given, finishing)
        BY <2>1 DEF process_engine_step
      <3>2. PICK finishing \in SUBSET given : ProcessStep(given, finishing)
        BY <3>1
      <3> QED BY <3>2, StepHandled
    <2> QED BY <1>5, <2>1, ShutdownHandled, AddHandled, AbortHandled, WakeupHandled, ThreadsKeepStreams,
               ThrowKeeps DEF EngineThread
  <1>6. CASE UNCHANGED vars
    BY <1>6, ThreadsKeepStreams
  <1> QED BY <1>1, <1>2, <1>3, <1>4, <1>5, <1>6 DEF Next

(* So it holds always. *)
LEMMA SpecStreaming == ~ReuseAborted => (Spec => []Streaming)
  <1> SUFFICES ASSUME ~ReuseAborted PROVE Spec => []Streaming
    OBVIOUS
  <1>1. Streaming /\ [Next]_vars => Streaming'
    BY NextStreaming
  <1> QED BY <1>1, InitStreaming, PTL DEF Spec

(* The type invariant: the front end, its threads and the core process     *)
(* keep to the values the code gives them, what a request has been sent is *)
(* among what has been detokenized for it, and what is registered or       *)
(* scheduled under an id was submitted under it.                           *)
THEOREM TypeCorrect == ASSUME ~ReuseAborted PROVE Spec => []TypeInv
  <1> USE EngineClientAssumption DEF EngineClientAssumption
  <1>1. ASSUME Streaming PROVE TypeInv
    <2>1. /\ Typed /\ \A c \in Call : Slot(c)
          /\ \A i \in Id : request_states[i] # None => IdOf[request_states[i]] = i
          /\ \A i \in Id : core[i] # None => IdOf[core[i]] = i
          /\ \A c \in Call : emitted[c] <= MaxTokens[c]
      BY <1>1 DEF Streaming, Slots, Table, TokensFollow
    <2>2. \A c \in Call : /\ received[c] \in Seq(Call \X Nat) /\ output_tokens[c] \in Seq(Call \X Nat)
                          /\ sent[c] \in Nat /\ emitted[c] \in Nat /\ MaxTokens[c] \in Nat
      BY <2>1 DEF Typed, Tokened
    <2>3. \A c \in Call : sent[c] \in 0 .. Len(output_tokens[c])
      <3> TAKE c \in Call
      <3>1. sent[c] <= Len(output_tokens[c])
        BY <2>1 DEF Slot
      <3>2. output_tokens[c] \in Seq(Call \X Nat) /\ sent[c] \in Nat
        BY <2>2
      <3>3. Len(output_tokens[c]) \in Nat
        BY <3>2
      <3> QED BY <3>1, <3>2, <3>3
    <2>4. \A c \in Call : emitted[c] \in 0 .. MaxTokens[c]
      <3> TAKE c \in Call
      <3>1. emitted[c] \in Nat /\ MaxTokens[c] \in Nat /\ emitted[c] <= MaxTokens[c]
        BY <2>1, <2>2
      <3> QED BY <3>1
    <2>5. \A i \in Id : {request_states[i], core[i]} \subseteq {c \in Call : IdOf[c] = i} \union {None}
      BY <2>1 DEF Typed
    <2> QED BY <2>1, <2>2, <2>3, <2>4, <2>5 DEF Typed, TypeInv
  <1> QED BY <1>1, SpecStreaming, PTL

(* A consumer that has seen the end has all that was detokenized for it,   *)
(* and, if the scheduler ended its request, all that the scheduler made,   *)
(* whatever its collector merged or held back; nothing is left in it.      *)
THEOREM FinishedIsCompleteHolds == ASSUME ~ReuseAborted PROVE Spec => []FinishedIsComplete
  <1>1. ASSUME Streaming PROVE FinishedIsComplete
    <2> SUFFICES ASSUME NEW c \in Call, client[c] = "finished"
        PROVE  /\ received[c] = output_tokens[c]
               /\ ending[c] = "core" => received[c] = Own(c, emitted[c])
               /\ collector[c] = EmptyCollector
      BY DEF FinishedIsComplete
    <2>1. received[c] = output_tokens[c] /\ collector[c] = EmptyCollector
      BY <1>1 DEF Streaming, Slots, Slot
    <2>2. /\ output_tokens[c] = Own(c, Len(output_tokens[c]))
          /\ ending[c] = "core" => Len(output_tokens[c]) = emitted[c]
      BY <1>1 DEF Streaming, TokensFollow
    <2> QED BY <2>1, <2>2
  <1> QED BY <1>1, SpecStreaming, PTL

(* What is registered in the front end is on its way to the scheduler, in  *)
(* it or on its way back, and what the scheduler has is registered or an   *)
(* abort of it is coming, while the engine runs.                           *)
THEOREM RequestsHaveBothEndsHolds == ASSUME ~ReuseAborted PROVE Spec => []RequestsHaveBothEnds
  <1>1. Streaming => RequestsHaveBothEnds
    BY DEF Streaming, RequestsHaveBothEnds
  <1> QED BY <1>1, SpecStreaming, PTL

(* The scheduler is never given a request under an id it has: what is      *)
(* queued for it and what it has under the id are open, and only one is.   *)
THEOREM OneRequestPerIdHolds == ASSUME ~ReuseAborted PROVE Spec => OneRequestPerId
  <1> USE EngineClientAssumption DEF EngineClientAssumption
  <1> DEFINE Kept1 == \A i \in Id : core[i] # None => core'[i] \in {core[i], None}
  <1>1. ASSUME Streaming, [Next]_vars PROVE Kept1
    <2>1. CASE UNCHANGED core
      BY <2>1
    <2>2. CASE handle_shutdown
      BY <2>2 DEF handle_shutdown
    <2>3. CASE HandleAbort
      BY <2>3 DEF HandleAbort
    <2>4. CASE process_engine_step
      <3>1. PICK given \in SUBSET Live : \E finishing \in SUBSET given : ProcessStep(given, finishing)
        BY <2>4 DEF process_engine_step
      <3>2. PICK finishing \in SUBSET given : ProcessStep(given, finishing)
        BY <3>1
      <3> QED BY <3>2 DEF ProcessStep
    <2>5. CASE HandleAdd
      <3>1. PICK c : c = Head(input_queue).call
        OBVIOUS
      <3>2. /\ input_queue # << >> /\ Head(input_queue).type = "ADD"
            /\ UNCHANGED core \/ core' = [core EXCEPT ![IdOf[c]] = c]
        BY <2>5, <3>1 DEF HandleAdd, Taking
      <3>3. /\ Head(input_queue) = input_queue[1] /\ 1 \in 1 .. Len(input_queue)
            /\ input_queue[1] \in Message
        BY <1>1, <3>2, QueueFacts DEF Streaming, Typed
      <3>4. c \in Call /\ Adds(1, c)
        <4>1. c # None /\ input_queue[1] = Add(c)
          BY <1>1, <3>1, <3>2, <3>3 DEF Streaming, Queued
        <4> QED BY <3>1, <3>3, <4>1 DEF Message, Adds
      <3>5. Open(c) /\ core[IdOf[c]] # c
        BY <1>1, <3>3, <3>4 DEF Streaming, OnePlace
      <3>6. core[IdOf[c]] = None
        <4>1. PICK i : i = IdOf[c]
          OBVIOUS
        <4>2. PICK d : d = core[i]
          OBVIOUS
        <4>3. i \in Id /\ d \in Call \union {None}
          BY <1>1, <3>4, <4>1, <4>2 DEF Streaming, Typed
        <4>4. ASSUME d # None PROVE FALSE
          <5>1. d \in Call /\ IdOf[d] = i
            BY <1>1, <4>2, <4>3, <4>4 DEF Streaming, Table
          <5>2. Open(d)
            BY <1>1, <4>2, <5>1 DEF Streaming, OnePlace
          <5>3. c = d
            BY <1>1, <3>4, <3>5, <4>1, <5>1, <5>2 DEF Streaming, Table
          <5> QED BY <3>5, <4>1, <4>2, <5>3
        <4> QED BY <4>1, <4>2, <4>4
      <3>7. core \in [Id -> Call \union {None}]
        BY <1>1 DEF Streaming, Typed
      <3> QED BY <3>2, <3>4, <3>6, <3>7
    <2>6. \/ UNCHANGED core \/ handle_shutdown \/ HandleAbort \/ HandleAdd \/ process_engine_step
      <3> USE DEF inner
      <3>1. ASSUME NEW c \in Call,
                   \/ CheckRunning(c) \/ AddRequestThrows(c) \/ AddRequest(c)
                   \/ Consumer(c) \/ SendAbort(c)
            PROVE  UNCHANGED core
        BY <3>1 DEF CheckRunning, AddRequestThrows, AddRequest, Register, Consumer, GetOutput,
                    AbortAfterError, SendAbort
      <3>2. ASSUME NEW i \in Id, AbortRequest(i) PROVE UNCHANGED core
        BY <3>2 DEF AbortRequest
      <3>3. CASE Shutdown \/ Closer
        BY <3>3 DEF Shutdown, Closer, SetStopping, AbortAll, SendSwept, RequestShutdown, WakeEngine,
                    JoinEngine, JoinHandler
      <3>4. CASE OutputHandler
        BY <3>4 DEF OutputHandler, HandleOutputs, AbortStopped, HandleEngineDead, HandlerFails,
                    PropagateError
      <3>5. CASE PollInput \/ HandleWakeup \/ EndInput \/ EngineThrows
        BY <3>5 DEF PollInput, HandleWakeup, EndInput, EngineThrows
      <3>6. CASE UNCHANGED vars
        BY <3>6 DEF vars
      <3> QED BY <1>1, <3>1, <3>2, <3>3, <3>4, <3>5, <3>6 DEF Next, EngineThread
    <2> QED BY <2>1, <2>2, <2>3, <2>4, <2>5, <2>6
  <1> QED BY <1>1, SpecStreaming, PTL DEF Spec, OneRequestPerId

----------------------------------------------------------------------------
(* The streams: what a step of the front end is to its callers.            *)

Stage(s) == CASE s \in {"new", "checked"}       -> "new"
              [] s \in {"refused", "duplicate"} -> "refused"
              [] s = "waiting"                  -> "open"
              [] s = "finished"                 -> "ended"
              [] s \in {"caught", "failed"}     -> "failed"

(* Where one caller moves on, so does its stream, and no other. *)
LEMMA PhaseMoves ==
    ASSUME client = [c \in Call |-> client[c]], NEW c \in Call, NEW s,
           client' = [client EXCEPT ![c] = s]
    PROVE  /\ Phase[c] = Stage(client[c])
           /\ Phase' = [Phase EXCEPT ![c] = Stage(s)]
  <1>1. Phase = [d \in Call |-> Stage(client[d])]
    BY DEF Phase, Stage
  <1>2. Phase' = [d \in Call |-> Stage(client'[d])]
    BY DEF Phase, Stage
  <1>3. \A d \in Call : client'[d] = IF d = c THEN s ELSE client[d]
    OBVIOUS
  <1> QED BY <1>1, <1>2, <1>3

(* What a consumer takes continues its stream: its own tokens, as many as  *)
(* it had or more, and no more than there can be.                          *)
LEMMA TakingGrows ==
    ASSUME Streaming, Streaming', NEW c \in Call, GetOutput(c), ~collector[c].error
    PROVE  \E n \in Len(received[c]) .. MaxTokens[c] : received' = [received EXCEPT ![c] = Own(c, n)]
  <1> USE EngineClientAssumption DEF EngineClientAssumption
  <1> DEFINE new == IF KindOf[c] = "delta" THEN received[c] \o collector[c].tokens
                                           ELSE collector[c].tokens
  <1>1. /\ Typed /\ Slot(c) /\ Slot(c)' /\ client[c] = "waiting" /\ collector[c].full
        /\ Len(output_tokens'[c]) <= MaxTokens[c]
    BY DEF Streaming, Slots, GetOutput, TokensFollow
  <1>2. received' = [received EXCEPT ![c] = new]
    BY <1>1 DEF GetOutput, Typed
  <1>3. /\ received[c] \in Tokened /\ collector[c].tokens \in Tokened
        /\ received'[c] \in Tokened /\ output_tokens'[c] \in Tokened
    <2>1. received' \in [Call -> Tokened] /\ output_tokens' \in [Call -> Tokened]
      BY DEF Streaming, Typed
    <2> QED BY <1>1, <2>1 DEF Typed, SlotType
  <1>4. received'[c] = new
    BY <1>1, <1>2 DEF Typed
  <1>5. Len(received[c]) \in Nat /\ Len(collector[c].tokens) \in Nat /\ Len(received'[c]) \in Nat
        /\ Len(output_tokens'[c]) \in Nat /\ MaxTokens[c] \in Nat
    BY <1>3 DEF Tokened
  <1>6. received'[c] = Own(c, Len(received'[c])) /\ Len(received'[c]) <= Len(output_tokens'[c])
    BY <1>1 DEF Slot
  <1>7. Len(received[c]) <= Len(received'[c])
    <2>1. CASE KindOf[c] = "delta"
      <3>1. Len(received[c] \o collector[c].tokens) = Len(received[c]) + Len(collector[c].tokens)
        BY <1>3, Joined
      <3>2. received'[c] = received[c] \o collector[c].tokens
        BY <1>4, <2>1
      <3> HIDE DEF new
      <3>3. Len(received'[c]) = Len(received[c]) + Len(collector[c].tokens)
        BY <3>1, <3>2, Zenon
      <3>4. \A k, l \in Nat : k <= k + l
        OBVIOUS
      <3> QED BY <1>5, <3>3, <3>4, Zenon
    <2>2. CASE KindOf[c] # "delta"
      <3>1. Len(collector[c].tokens) \in Len(received[c]) .. Len(output_tokens[c])
        BY <1>1, <2>2 DEF Slot
      <3>2. Len(received[c]) <= Len(collector[c].tokens)
        BY <3>1
      <3> QED BY <1>4, <2>2, <3>2
    <2> QED BY <2>1, <2>2
  <1> HIDE DEF new
  <1>8. Len(received'[c]) \in Len(received[c]) .. MaxTokens[c]
    BY <1>1, <1>5, <1>6, <1>7
  <1>9. received' = [received EXCEPT ![c] = Own(c, Len(received'[c]))]
    BY <1>2, <1>4, <1>6
  <1> QED BY <1>8, <1>9

(* Every step is a step of the streams or nothing to them. *)
LEMMA StreamsStep ==
    ASSUME ~ReuseAborted, Streaming, [Next]_vars
    PROVE  [Streams!Next]_(Streams!streams)
  <1> USE EngineClientAssumption DEF EngineClientAssumption
  <1>1. Streaming' /\ client = [c \in Call |-> client[c]]
    BY NextStreaming DEF Streaming, Typed
  <1>2. UNCHANGED <<client, received>> => UNCHANGED Streams!streams
    BY DEF Streams!streams, Phase
  <1>3. ASSUME NEW c \in Call, CheckRunning(c) \/ AddRequestThrows(c)
        PROVE  [Streams!Next]_(Streams!streams)
    <2>1. /\ Stage(client[c]) = "new" /\ UNCHANGED received
          /\ \E s \in {"checked", "refused", "duplicate"} : client' = [client EXCEPT ![c] = s]
      BY <1>3 DEF CheckRunning, AddRequestThrows, Stage
    <2>2. PICK s \in {"checked", "refused", "duplicate"} : client' = [client EXCEPT ![c] = s]
      BY <2>1
    <2>3. Phase[c] = "new" /\ Phase' = [Phase EXCEPT ![c] = Stage(s)]
      BY <1>1, <2>1, <2>2, PhaseMoves
    <2>4. CASE s = "checked"
      <3>1. Stage(s) = "new"
        BY <2>4 DEF Stage
      <3>2. Phase' = Phase
        BY <2>3, <3>1 DEF Phase
      <3> QED BY <2>1, <3>2 DEF Streams!streams
    <2>5. CASE s \in {"refused", "duplicate"}
      <3>1. Stage(s) = "refused"
        BY <2>5 DEF Stage
      <3>2. Streams!Refuse(c)
        BY <2>1, <2>3, <3>1 DEF Streams!Refuse
      <3> QED BY <3>2 DEF Streams!Next
    <2> QED BY <2>2, <2>4, <2>5
  <1>4. ASSUME NEW c \in Call, AddRequest(c) PROVE Streams!Next
    <2>1. client[c] = "checked" /\ client' = [client EXCEPT ![c] = "waiting"] /\ UNCHANGED received
      BY <1>4 DEF AddRequest, Register
    <2>2. Stage(client[c]) = "new" /\ Stage("waiting") = "open"
      BY <2>1 DEF Stage
    <2>3. Phase[c] = "new" /\ Phase' = [Phase EXCEPT ![c] = "open"]
      BY <1>1, <2>1, <2>2, PhaseMoves
    <2> QED BY <2>1, <2>3 DEF Streams!Open, Streams!Next
  <1>5. ASSUME NEW c \in Call, GetOutput(c) PROVE Streams!Next
    <2>1. client[c] = "waiting" /\ Stage(client[c]) = "open"
      BY <1>5 DEF GetOutput, Stage
    <2>2. CASE collector[c].error
      <3>1. client' = [client EXCEPT ![c] = "caught"] /\ UNCHANGED received
        BY <1>5, <2>2 DEF GetOutput
      <3>2. Stage("caught") = "failed"
        BY DEF Stage
      <3>3. Phase[c] = "open" /\ Phase' = [Phase EXCEPT ![c] = "failed"]
        BY <1>1, <2>1, <3>1, <3>2, PhaseMoves
      <3> QED BY <3>1, <3>3 DEF Streams!Fail, Streams!Next
    <2>3. CASE ~collector[c].error
      <3>1. PICK n \in Len(received[c]) .. MaxTokens[c] : received' = [received EXCEPT ![c] = Own(c, n)]
        BY <1>1, <1>5, <2>3, TakingGrows
      <3>2. Own(c, n) = Streams!Tokens(c, n)
        BY DEF Own, Streams!Tokens, Streams!Token
      <3>3. PICK s \in {"waiting", "finished"} : client' = [client EXCEPT ![c] = s]
        <4>1. CASE collector[c].finished
          BY <1>5, <2>3, <4>1 DEF GetOutput
        <4>2. CASE ~collector[c].finished
          <5>1. client' = [client EXCEPT ![c] = client[c]]
            BY <1>5, <2>3, <4>2 DEF GetOutput
          <5> QED BY <2>1, <5>1
        <4> QED BY <4>1, <4>2
      <3>4. Phase[c] = "open" /\ Phase' = [Phase EXCEPT ![c] = Stage(s)]
        BY <1>1, <2>1, <3>3, PhaseMoves
      <3>5. Streams!Grow(c)
        BY <3>1, <3>2, <3>4 DEF Streams!Grow
      <3>6. CASE s = "waiting"
        <4>1. Stage(s) = "open"
          BY <3>6 DEF Stage
        <4>2. Phase' = Phase
          BY <3>4, <4>1 DEF Phase
        <4> QED BY <3>5, <4>2 DEF Streams!Continue, Streams!Next
      <3>7. CASE s = "finished"
        <4>1. Stage(s) = "ended"
          BY <3>7 DEF Stage
        <4> QED BY <3>4, <3>5, <4>1 DEF Streams!End, Streams!Next
      <3> QED BY <3>6, <3>7
    <2> QED BY <2>2, <2>3
  <1>6. ASSUME NEW c \in Call, AbortAfterError(c) PROVE UNCHANGED Streams!streams
    <2>1. client[c] = "caught" /\ client' = [client EXCEPT ![c] = "failed"] /\ UNCHANGED received
      BY <1>6 DEF AbortAfterError
    <2>2. Stage(client[c]) = "failed" /\ Stage("failed") = "failed"
      BY <2>1 DEF Stage
    <2>3. Phase[c] = "failed" /\ Phase' = [Phase EXCEPT ![c] = "failed"]
      BY <1>1, <2>1, <2>2, PhaseMoves
    <2>4. Phase' = Phase
      BY <2>3 DEF Phase
    <2> QED BY <2>1, <2>4 DEF Streams!streams
  <1>7. ASSUME NEW c \in Call, SendAbort(c) PROVE UNCHANGED <<client, received>>
    BY <1>7 DEF SendAbort, consumers
  <1>8. ASSUME NEW i \in Id, AbortRequest(i) PROVE UNCHANGED <<client, received>>
    BY <1>8 DEF AbortRequest, consumers
  <1>9. ASSUME Shutdown \/ Closer \/ OutputHandler \/ EngineThread \/ EngineThrows \/ UNCHANGED vars
        PROVE  UNCHANGED <<client, received>>
    <2> USE DEF consumers, outside
    <2>1. CASE Shutdown \/ Closer
      BY <2>1 DEF Shutdown, Closer, SetStopping, AbortAll, SendSwept, RequestShutdown, WakeEngine,
                  JoinEngine, JoinHandler
    <2>2. CASE OutputHandler
      BY <2>2 DEF OutputHandler, HandleOutputs, AbortStopped, HandleEngineDead, HandlerFails,
                  PropagateError
    <2>3. CASE process_engine_step
      <3>1. PICK given \in SUBSET Live : \E finishing \in SUBSET given : ProcessStep(given, finishing)
        BY <2>3 DEF process_engine_step
      <3>2. PICK finishing \in SUBSET given : ProcessStep(given, finishing)
        BY <3>1
      <3> QED BY <3>2 DEF ProcessStep
    <2>4. CASE EngineThread \/ EngineThrows
      BY <2>3, <2>4 DEF EngineThread, handle_shutdown, PollInput, HandleAdd, HandleAbort,
                        HandleWakeup, Taking, EndInput, EngineThrows
    <2>5. CASE UNCHANGED vars
      BY <2>5 DEF vars
    <2> QED BY <1>9, <2>1, <2>2, <2>4, <2>5
  <1> QED BY <1>2, <1>3, <1>4, <1>5, <1>6, <1>7, <1>8, <1>9 DEF Next, Consumer

(* The front end implements RequestStream, but for its fairness: a call is *)
(* refused, or its consumer gets its own request's tokens in order and     *)
(* from the first, and the stream ends or fails once.                      *)
THEOREM StreamsAreSafe ==
    ASSUME ~ReuseAborted
    PROVE  Spec => Streams!Init /\ [][Streams!Next]_(Streams!streams)
  <1>1. Init => Streams!Init
    <2> SUFFICES ASSUME Init PROVE Streams!Init
      OBVIOUS
    <2>1. client = [c \in Call |-> "new"] /\ received = [c \in Call |-> << >>]
      BY DEF Init
    <2>2. Phase = [c \in Call |-> "new"]
      <3>1. Phase = [c \in Call |-> Stage(client[c])]
        BY DEF Phase, Stage
      <3>2. \A c \in Call : Stage(client[c]) = "new"
        BY <2>1 DEF Stage
      <3> QED BY <3>1, <3>2
    <2> QED BY <2>1, <2>2 DEF Streams!Init
  <1>2. Streaming /\ [Next]_vars => [Streams!Next]_(Streams!streams)
    BY StreamsStep
  <1> QED BY <1>1, <1>2, SpecStreaming, PTL DEF Spec

=============================================================================
