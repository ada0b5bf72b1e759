------------------------------ MODULE PlanCache ------------------------------
(***************************************************************************)
(* The NVFP4 autotune plans of a process and the file that outlives it:    *)
(* SingleFlightPlanCache (src/vt/cuda/nvfp4_plan_cache.h), the warm-up     *)
(* session around it (src/vt/cuda/cuda_matmul_nvfp4_cutlass.cu) and        *)
(* WriteNativeCacheAtomically (src/vt/cuda/nvfp4_persistent_cache.cpp).    *)
(*                                                                         *)
(* Several engines live in one process.  Each loads (open a session,       *)
(* install the file's plans, warm up every profile, save) and then serves, *)
(* resolving plans as shapes come; it runs in one thread at a time.  The   *)
(* process may be killed, or the machine lose power, between any two steps.*)
(*                                                                         *)
(* A document is the function from its keys to their tactics.  A section   *)
(* under map_mutex_ or an entry's mutex is one step: the locks nest in one *)
(* order and nothing blocks inside.                                        *)
(***************************************************************************)
EXTENDS Integers, Sequences, FiniteSets

CONSTANTS Engine,       \* engines of the process
          Key,          \* plan keys, numbered in the order documents sort them
          WarmKeys,     \* engine -> the profiles its warm-up resolves
          Tactic,       \* what tuning may choose
          ReadOnlyModes,\* what VT_FP4_AUTOTUNE_CACHE_READONLY may be
          MaxFailures,  \* bound: tunings that fail, per life of the process
          MaxStops,     \* bound: kills and power losses
          None

Doc     == UNION {[K -> Tactic] : K \in SUBSET Key}
Session == [prior : Doc, save_allowed : BOOLEAN]

ASSUME PlanCacheAssumption ==
    /\ Key \subseteq Nat \ {0} /\ IsFiniteSet(Key)
    /\ WarmKeys \in [Engine -> SUBSET Key]
    /\ ReadOnlyModes \subseteq BOOLEAN /\ MaxFailures \in Nat /\ MaxStops \in Nat
    /\ None \notin Engine /\ None \notin Session

VARIABLES
    entries,   \* entries_: key -> index into flight, 0 for none
    flight,    \* every Entry made so far: [state, value]
    failures,  \* tunings that failed
    pmutex,    \* engine that holds g_fp4_persistent_mutex, or None
    session,   \* g_fp4_persistent_session: [prior, save_allowed], or None
    frozen,    \* g_fp4_persistent_read_only
    phase,     \* engine -> "off", "load", "warm", "serve", "dead"
    pc,        \* engine -> where it is
    key,       \* engine -> the key it resolves
    mine,      \* engine -> the entry it tunes or waits for
    todo,      \* engine -> keys left to install or to warm up
    opening,   \* the session being set up under pmutex
    temp,      \* the temporary file's document, and whether it is synced
    file,      \* the file as a reader sees it: [kind, doc, synced]
    old,       \* the file before its last replacement
    returned,  \* key -> plans handed out for it in this life of the process
    read_only, \* VT_FP4_AUTOTUNE_CACHE_READONLY of this life of the process
    stops      \* kills and power losses so far

flights == <<entries, flight, failures>>
storage == <<temp, file, old>>
control == <<phase, pc, key, mine, todo>>
persist == <<pmutex, session, frozen, opening>>
vars    == <<flights, storage, control, persist, returned, read_only, stops>>

NoDoc == [k \in {} |-> None]
File(kind, doc, synced) == [kind |-> kind, doc |-> doc, synced |-> synced]
First(K) == CHOOSE k \in K : \A l \in K : k <= l

NoSession == [prior |-> NoDoc, save_allowed |-> TRUE]
NoTemp    == [doc |-> NoDoc, synced |-> FALSE]

----------------------------------------------------------------------------
Init ==
    /\ entries = [k \in Key |-> 0] /\ flight = << >> /\ failures = 0
    /\ pmutex = None /\ session = None /\ frozen = FALSE /\ opening = NoSession
    /\ phase = [e \in Engine |-> "off"] /\ pc = [e \in Engine |-> "idle"]
    /\ key = [e \in Engine |-> 0] /\ mine = [e \in Engine |-> 0]
    /\ todo = [e \in Engine |-> {}]
    /\ temp = NoTemp
    /\ file \in {File("absent", NoDoc, TRUE), File("foreign", NoDoc, TRUE)}
                  \cup {File("doc", d, TRUE) : d \in Doc}
    /\ old = file
    /\ returned = [k \in Key |-> {}]
    /\ stops = 0 /\ read_only \in ReadOnlyModes

Goto(e, label) == pc' = [pc EXCEPT ![e] = label]
Enter(e, p, label) == phase' = [phase EXCEPT ![e] = p] /\ Goto(e, label)

(* The state of a key's entry in the map. *)
StateOf(k) == IF entries[k] = 0 THEN "none" ELSE flight[entries[k]].state
Ready      == {k \in Key : StateOf(k) = "ready"}
PlanOf(k)  == flight[entries[k]].value

----------------------------------------------------------------------------
(* BeginPersistentRuntime, all of it under g_fp4_persistent_mutex *)

(* Mutant: a rejected file does not stop the session from saving. *)
Rejected_SavesAnyway(e, doc) ==
    /\ opening' = [prior |-> NoDoc, save_allowed |-> TRUE]
    /\ pmutex' = e /\ frozen' = read_only
    /\ Enter(e, "load", "idle")

(* A native file that cannot be used fails a read-only load, and keeps a   *)
(* writable one from saving over it.                                       *)
Rejected(e, doc) ==
    IF read_only
    THEN /\ frozen' = FALSE /\ pmutex' = None
         /\ Enter(e, "dead", "idle")
         /\ UNCHANGED opening
    ELSE /\ opening' = [prior |-> doc, save_allowed |-> FALSE]
         /\ pmutex' = e /\ frozen' = read_only
         /\ Enter(e, "load", "idle")

BeginSession(e) ==
    /\ phase[e] \in {"off", "dead"} /\ pc[e] = "idle" /\ pmutex = None
    /\ \/ /\ session # None              \* overlapping sessions: throws
          /\ Enter(e, "dead", "idle")
          /\ UNCHANGED <<persist, todo>>
       \/ /\ session = None /\ file.kind \in {"absent", "doc"}
          /\ frozen' = read_only
          /\ opening' = [prior |-> file.doc, save_allowed |-> TRUE]
          /\ pmutex' = e
          /\ todo' = [todo EXCEPT ![e] = DOMAIN file.doc]
          /\ Enter(e, "load", "idle")
          /\ UNCHANGED session
       \/ /\ session = None /\ file.kind \in {"foreign", "torn"}
          /\ Rejected(e, NoDoc)
          /\ UNCHANGED <<session, todo>>
    /\ UNCHANGED <<flights, storage, key, mine, returned, read_only, stops>>

(* Mutant: the file's plans are kept for the merge, but not made live. *)
Install_NotLive(e) ==
    /\ phase[e] = "load" /\ todo[e] # {}
    /\ todo' = [todo EXCEPT ![e] = @ \ {First(@)}]
    /\ UNCHANGED <<flights, storage, persist, phase, pc, key, mine, returned, read_only, stops>>

(* InsertReadyIfAbsent for the next plan of the file.  A plan that is live *)
(* already stays; one that is being tuned makes the import throw.          *)
Install(e) ==
    /\ phase[e] = "load" /\ todo[e] # {}
    /\ LET k == First(todo[e])
       IN  \/ /\ StateOf(k) = "none"
              /\ flight' = Append(flight, [state |-> "ready", value |-> opening.prior[k]])
              /\ entries' = [entries EXCEPT ![k] = Len(flight) + 1]
              /\ todo' = [todo EXCEPT ![e] = @ \ {k}]
              /\ UNCHANGED <<persist, phase, pc>>
           \/ /\ StateOf(k) = "ready"
              /\ todo' = [todo EXCEPT ![e] = @ \ {k}]
              /\ UNCHANGED <<flight, entries, persist, phase, pc>>
           \/ /\ StateOf(k) = "tuning"
              /\ Rejected(e, opening.prior)
              /\ todo' = [todo EXCEPT ![e] = {}]
              /\ UNCHANGED <<flight, entries, session>>
    /\ UNCHANGED <<failures, storage, key, mine, returned, read_only, stops>>

SessionReady(e) ==
    /\ phase[e] = "load" /\ todo[e] = {}
    /\ session' = opening
    /\ opening' = NoSession
    /\ pmutex' = None
    /\ todo' = [todo EXCEPT ![e] = WarmKeys[e]]
    /\ Enter(e, "warm", "idle")
    /\ UNCHANGED <<flights, storage, frozen, key, mine, returned, read_only, stops>>

----------------------------------------------------------------------------
(* Resolving one key: FindReady, the frozen check, ResolvePlan, GetOrTune  *)

Resolve(e) ==
    /\ pc[e] = "idle"
    /\ \/ phase[e] = "warm" /\ todo[e] # {} /\ key' = [key EXCEPT ![e] = First(todo[e])]
       \/ phase[e] = "serve" /\ \E k \in Key : key' = [key EXCEPT ![e] = k]
    /\ Goto(e, "find")
    /\ UNCHANGED <<flights, storage, persist, phase, mine, todo, returned, read_only, stops>>

(* e gets plan v: the warm-up goes on to its next profile. *)
Give(e, v) ==
    /\ returned' = [returned EXCEPT ![key[e]] = @ \cup {v}]
    /\ todo' = [todo EXCEPT ![e] = @ \ {key[e]}]
    /\ mine' = [mine EXCEPT ![e] = 0]
    /\ Goto(e, "idle")
    /\ UNCHANGED phase

(* e gets an exception: it takes the warm-up scope, or the engine, down.   *)
Throw(e) ==
    /\ IF phase[e] = "warm" THEN Goto(e, "cancel") /\ UNCHANGED phase
                            ELSE Enter(e, "dead", "idle")
    /\ mine' = [mine EXCEPT ![e] = 0]
    /\ UNCHANGED <<todo, returned>>

FindReady(e) ==
    /\ pc[e] = "find"
    /\ IF StateOf(key[e]) = "ready"
       THEN Give(e, PlanOf(key[e]))
       ELSE Goto(e, "miss") /\ UNCHANGED <<returned, todo, mine, phase>>
    /\ UNCHANGED <<flights, storage, persist, key, read_only, stops>>

Miss(e) ==
    /\ pc[e] = "miss"
    /\ IF frozen THEN Throw(e)
                 ELSE Goto(e, "join") /\ UNCHANGED <<mine, phase, todo, returned>>
    /\ UNCHANGED <<flights, storage, persist, key, read_only, stops>>

(* ResolvePlan refuses to tune while the stream is being captured. *)
CaptureMiss(e) ==
    /\ pc[e] = "join" /\ phase[e] = "serve" /\ StateOf(key[e]) # "ready"
    /\ Throw(e)
    /\ UNCHANGED <<flights, storage, persist, key, read_only, stops>>

(* Mutant: the entry is looked up and made under two holds of the lock. *)
GetOrTune_Unlocked(e) ==
    /\ pc[e] = "join"
    /\ LET k == key[e]
       IN  IF StateOf(k) # "ready"
           THEN /\ flight' = Append(flight, [state |-> "tuning", value |-> None])
                /\ entries' = [entries EXCEPT ![k] = Len(flight) + 1]
                /\ mine' = [mine EXCEPT ![e] = Len(flight) + 1]
                /\ Goto(e, "tune")
           ELSE /\ mine' = [mine EXCEPT ![e] = entries[k]]
                /\ Goto(e, "wait")
                /\ UNCHANGED <<flight, entries>>
    /\ UNCHANGED <<failures, storage, persist, phase, key, todo, returned, read_only, stops>>

(* The first to ask makes the entry and tunes; the others wait for it. *)
GetOrTune(e) ==
    /\ pc[e] = "join"
    /\ LET k == key[e]
       IN  IF StateOf(k) = "none"
           THEN /\ flight' = Append(flight, [state |-> "tuning", value |-> None])
                /\ entries' = [entries EXCEPT ![k] = Len(flight) + 1]
                /\ mine' = [mine EXCEPT ![e] = Len(flight) + 1]
                /\ Goto(e, "tune")
           ELSE /\ mine' = [mine EXCEPT ![e] = entries[k]]
                /\ Goto(e, "wait")
                /\ UNCHANGED <<flight, entries>>
    /\ UNCHANGED <<failures, storage, persist, phase, key, todo, returned, read_only, stops>>

Tuned(e) ==
    /\ pc[e] = "tune"
    /\ \E v \in Tactic :
         /\ flight' = [flight EXCEPT ![mine[e]] = [state |-> "ready", value |-> v]]
         /\ Give(e, v)
    /\ UNCHANGED <<entries, failures, storage, persist, key, read_only, stops>>

(* Mutant: the failed entry stays in the map, and nobody is told. *)
TuneFails_Quietly(e) ==
    /\ pc[e] = "tune" /\ failures < MaxFailures
    /\ failures' = failures + 1
    /\ Throw(e)
    /\ UNCHANGED <<flight, entries, storage, persist, key, read_only, stops>>

(* A failed tuning takes its entry out of the map before it wakes those    *)
(* who wait, so that the next to ask tunes again.                          *)
TuneFails(e) ==
    /\ pc[e] = "tune" /\ failures < MaxFailures
    /\ failures' = failures + 1
    /\ flight' = [flight EXCEPT ![mine[e]].state = "failed"]
    /\ entries' = [entries EXCEPT ![key[e]] = IF @ = mine[e] THEN 0 ELSE @]
    /\ Throw(e)
    /\ UNCHANGED <<storage, persist, key, read_only, stops>>

(* Mutant: who waited takes the value without looking how the tuning ended. *)
Answered_Anyhow(e) ==
    /\ pc[e] = "wait" /\ flight[mine[e]].state # "tuning"
    /\ Give(e, flight[mine[e]].value)
    /\ UNCHANGED <<flights, storage, persist, key, read_only, stops>>

Answered(e) ==
    /\ pc[e] = "wait" /\ flight[mine[e]].state # "tuning"
    /\ IF flight[mine[e]].state = "ready" THEN Give(e, flight[mine[e]].value) ELSE Throw(e)
    /\ UNCHANGED <<flights, storage, persist, key, read_only, stops>>

----------------------------------------------------------------------------
(* The end of a warm-up: CompletePersistentRuntime under the session's     *)
(* mutex, then the scope's destructor                                      *)

Snapshot == [k \in Ready |-> PlanOf(k)]

(* MergeNativeCaches: what is live wins. *)
Merged(prior, current) ==
    [k \in DOMAIN prior \cup DOMAIN current |->
        IF k \in DOMAIN current THEN current[k] ELSE prior[k]]

Complete(e) ==
    /\ phase[e] = "warm" /\ pc[e] = "idle" /\ todo[e] = {} /\ pmutex = None
    /\ IF ~read_only /\ session.save_allowed
       THEN /\ temp' = [doc |-> Merged(session.prior, Snapshot), synced |-> FALSE]
            /\ Goto(e, "fsync")
            /\ pmutex' = e
       ELSE Goto(e, "close") /\ UNCHANGED <<temp, pmutex>>
    /\ UNCHANGED <<flights, file, old, phase, key, mine, todo, session, frozen, opening,
                   returned, read_only, stops>>

(* Mutant: the bytes are left to the kernel. *)
Fsync_Skipped(e) ==
    /\ pc[e] = "fsync"
    /\ Goto(e, "rename")
    /\ UNCHANGED <<flights, storage, phase, key, mine, todo, persist, returned, read_only, stops>>

Fsync(e) ==
    /\ pc[e] = "fsync"
    /\ temp' = [temp EXCEPT !.synced = TRUE]
    /\ Goto(e, "rename")
    /\ UNCHANGED <<flights, file, old, phase, key, mine, todo, persist, returned, read_only, stops>>

(* mkstemp, a write, fsync, close or rename fails: the temporary file is   *)
(* removed, and the process goes on without a saved file.                  *)
SaveFails(e) ==
    /\ pc[e] \in {"fsync", "rename"}
    /\ temp' = NoTemp
    /\ pmutex' = None
    /\ Goto(e, "close")
    /\ UNCHANGED <<flights, file, old, phase, key, mine, todo, session, frozen, opening,
                   returned, read_only, stops>>

Rename(e) ==
    /\ pc[e] = "rename"
    /\ file' = File("doc", temp.doc, temp.synced)
    /\ old' = file
    /\ temp' = NoTemp
    /\ pmutex' = None
    /\ Goto(e, "close")
    /\ UNCHANGED <<flights, phase, key, mine, todo, session, frozen, opening, returned, read_only, stops>>

(* EndPersistentRuntime(true): the process stays frozen if it was. *)
Close(e) ==
    /\ pc[e] = "close" /\ pmutex = None
    /\ session' = None
    /\ Enter(e, "serve", "idle")
    /\ UNCHANGED <<flights, storage, key, mine, todo, pmutex, frozen, opening, returned, read_only, stops>>

(* EndPersistentRuntime(false). *)
Cancel(e) ==
    /\ pc[e] = "cancel" /\ pmutex = None
    /\ session' = None
    /\ frozen' = FALSE
    /\ todo' = [todo EXCEPT ![e] = {}]
    /\ Enter(e, "dead", "idle")
    /\ UNCHANGED <<flights, storage, key, mine, pmutex, opening, returned, read_only, stops>>

----------------------------------------------------------------------------
(* The process is gone, and starts again with empty memory. *)
Restart ==
    /\ stops < MaxStops /\ stops' = stops + 1
    /\ read_only' \in ReadOnlyModes
    /\ entries' = [k \in Key |-> 0] /\ flight' = << >> /\ failures' = 0
    /\ pmutex' = None /\ session' = None /\ frozen' = FALSE /\ opening' = NoSession
    /\ phase' = [e \in Engine |-> "off"] /\ pc' = [e \in Engine |-> "idle"]
    /\ key' = [e \in Engine |-> 0] /\ mine' = [e \in Engine |-> 0]
    /\ todo' = [e \in Engine |-> {}]
    /\ temp' = NoTemp
    /\ returned' = [k \in Key |-> {}]

Kill == Restart /\ UNCHANGED <<file, old>>

(* A power loss keeps the old file or the new one under the name; of a     *)
(* file that was not synced it may keep less than its bytes.               *)
PowerLoss ==
    /\ Restart
    /\ file' \in {old, IF file.synced THEN file ELSE File("torn", NoDoc, TRUE)}
    /\ old' = file'

Loads(e)    == BeginSession(e) \/ Install(e) \/ SessionReady(e)
Resolves(e) == \/ FindReady(e) \/ Miss(e) \/ CaptureMiss(e) \/ GetOrTune(e)
               \/ Tuned(e) \/ TuneFails(e) \/ Answered(e)
Saves(e)    == Complete(e) \/ Fsync(e) \/ SaveFails(e) \/ Rename(e) \/ Close(e) \/ Cancel(e)

Next == \/ \E e \in Engine : Loads(e) \/ Resolve(e) \/ Resolves(e) \/ Saves(e)
        \/ Kill \/ PowerLoss

Spec == Init /\ [][Next]_vars

(* Every thread runs, tuning ends, and a lock that keeps being free is had.*)
Steps(e) == \/ Install(e) \/ SessionReady(e) \/ Resolves(e) \/ Saves(e)
            \/ (phase[e] = "warm" /\ Resolve(e))
Fairness == \A e \in Engine : WF_vars(Steps(e)) /\ SF_vars(Complete(e) \/ Close(e) \/ Cancel(e))
FairSpec == Spec /\ Fairness

----------------------------------------------------------------------------
(* The state's types. *)
TypeInv ==
    /\ flight \in Seq([state : {"tuning", "ready", "failed"}, value : Tactic \cup {None}])
    /\ entries \in [Key -> 0 .. Len(flight)] /\ mine \in [Engine -> 0 .. Len(flight)]
    /\ pmutex \in Engine \cup {None} /\ frozen \in BOOLEAN
    /\ session \in Session \cup {None} /\ opening \in Session
    /\ phase \in [Engine -> {"off", "load", "warm", "serve", "dead"}]
    /\ pc \in [Engine -> {"idle", "find", "miss", "join", "tune", "wait", "cancel",
                          "fsync", "rename", "close"}]
    /\ key \in [Engine -> Key \cup {0}] /\ todo \in [Engine -> SUBSET Key]
    /\ temp \in [doc : Doc, synced : BOOLEAN]
    /\ {file, old} \subseteq [kind : {"absent", "foreign", "doc", "torn"}, doc : Doc,
                             synced : BOOLEAN]
    /\ returned \in [Key -> SUBSET Tactic]
    /\ failures \in 0 .. MaxFailures /\ stops \in 0 .. MaxStops /\ read_only \in BOOLEAN

(* Whoever asks for a key, through a hit, a tuning, a wait for somebody    *)
(* else's tuning or the file, gets the one plan the process has for it:    *)
(* two engines never run one shape with two tactics.                       *)
OnePlanPerKey ==
    \A k \in Key : \A v \in returned[k] : k \in Ready /\ PlanOf(k) = v

(* A load reads a whole document or the one before it, whenever the        *)
(* process was killed or the power lost while it was being replaced.       *)
FileIsWhole == file.kind # "torn"

(* Every plan of one document is in the other, with the same tactic. *)
Extends(new, doc) == \A k \in DOMAIN doc : k \in DOMAIN new /\ new[k] = doc[k]

(* Saving neither drops nor changes a plan an earlier session saved, and   *)
(* replaces neither a file it could not read nor any file of a read-only   *)
(* process.                                                                *)
SavedPlansStay ==
    [][stops' = stops => /\ Extends(file'.doc, file.doc)
                         /\ file.kind = "foreign" \/ read_only => file' = file]_vars

(* A load ends, in an engine that serves or one that failed: nobody waits  *)
(* for an entry nobody tunes, or for a lock nobody gives back.             *)
LoadingEnds ==
    \A e \in Engine : phase[e] = "warm" ~> phase[e] \in {"serve", "dead", "off"}
==============================================================================
