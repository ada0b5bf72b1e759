--------------------------- MODULE PlanCache_proofs ---------------------------
(***************************************************************************)
(* Proofs about PlanCache, for any engines, keys, tactics and any number   *)
(* of failures, kills and power losses: one plan per key, a file that is   *)
(* whole, saves that lose nothing, and a file whose plans are the live     *)
(* ones.                                                                   *)
(***************************************************************************)
EXTENDS PlanCache, FiniteSetTheorems, SequenceTheorems, TLAPS

(* TypeInv in the parts that steps change together. *)
EntryType == [state : {"tuning", "ready", "failed"}, value : Tactic \cup {None}]
FileType  == [kind : {"absent", "foreign", "doc", "torn"}, doc : Doc, synced : BOOLEAN]
FlightTypes  == /\ flight \in Seq(EntryType) /\ entries \in [Key -> 0 .. Len(flight)]
                /\ mine \in [Engine -> 0 .. Len(flight)]
PersistTypes == /\ pmutex \in Engine \cup {None} /\ frozen \in BOOLEAN
                /\ session \in Session \cup {None} /\ opening \in Session
ControlTypes == /\ phase \in [Engine -> {"off", "load", "warm", "serve", "dead"}]
                /\ pc \in [Engine -> {"idle", "find", "miss", "join", "tune", "wait", "cancel",
                                      "fsync", "rename", "close"}]
                /\ key \in [Engine -> Key \cup {0}] /\ todo \in [Engine -> SUBSET Key]
FileTypes    == temp \in [doc : Doc, synced : BOOLEAN] /\ file \in FileType /\ old \in FileType
OtherTypes   == /\ returned \in [Key -> SUBSET Tactic] /\ failures \in 0 .. MaxFailures
                /\ stops \in 0 .. MaxStops /\ read_only \in BOOLEAN
Types == FlightTypes /\ PersistTypes /\ ControlTypes /\ FileTypes /\ OtherTypes

(* One engine at a time loads or warms up; g_fp4_persistent_mutex is held  *)
(* while it loads and while it saves.                                      *)
OneSession ==
    /\ \A e, f \in Engine : phase[e] \in {"load", "warm"} /\ phase[f] \in {"load", "warm"} => e = f
    /\ \A e \in Engine :
         /\ phase[e] = "load" => pmutex = e /\ session = None
         /\ phase[e] = "warm" => session # None
         /\ phase[e] \in {"off", "load", "dead"} => pc[e] = "idle"
         /\ pc[e] \in {"fsync", "rename"} => pmutex = e
         /\ pc[e] \in {"fsync", "rename", "close", "cancel"} => phase[e] = "warm"
         /\ phase[e] \in {"off", "serve", "dead"} \/ pc[e] \in {"fsync", "rename", "close"} =>
              todo[e] = {}

(* Who tunes an entry tunes it alone, and the map holds the entry; who     *)
(* waits for one waits for the map's, unless it has failed.                *)
SingleFlight ==
    /\ \A e, f \in Engine : pc[e] = "tune" /\ pc[f] = "tune" /\ mine[e] = mine[f] => e = f
    /\ \A e \in Engine :
         /\ pc[e] \in {"find", "miss", "join", "tune", "wait"} => key[e] \in Key
         /\ pc[e] = "tune" => /\ mine[e] # 0 /\ flight[mine[e]].state = "tuning"
                              /\ entries[key[e]] = mine[e]
         /\ pc[e] = "wait" => /\ mine[e] # 0
                              /\ flight[mine[e]].state # "failed" => entries[key[e]] = mine[e]
    /\ \A i \in 1 .. Len(flight) : flight[i].state = "ready" => flight[i].value \in Tactic

(* A session that may save knows the file it would replace.                *)
Knows(s) == s.save_allowed => s.prior = file.doc /\ file.kind \in {"absent", "doc"}

SessionKnowsFile ==
    \A e \in Engine :
        /\ phase[e] = "load" => Knows(opening) /\ todo[e] \subseteq DOMAIN opening.prior
        /\ phase[e] = "warm" /\ pc[e] # "close" => Knows(session)

(* What is saved holds what the file held, and is on the disk before it    *)
(* gets the file's name.                                                   *)
SavesWhole ==
    /\ file.kind # "torn" /\ file.synced /\ old.kind # "torn" /\ old.synced
    /\ \A e \in Engine :
         /\ pc[e] = "rename" => temp.synced
         /\ pc[e] \in {"fsync", "rename"} =>
              ~read_only /\ session.save_allowed /\ DOMAIN file.doc \subseteq DOMAIN temp.doc

IInv == Types /\ OneSession /\ SingleFlight /\ OnePlanPerKey /\ SessionKnowsFile /\ SavesWhole

----------------------------------------------------------------------------
(* The least of some keys is one of them. *)
LEMMA FirstIsIn ==
    ASSUME NEW K \in SUBSET Key, K # {}
    PROVE  First(K) \in K
  <1> DEFINE R == OpToRel(<, Nat)
  <1>1. K \subseteq Nat
    BY PlanCacheAssumption DEF PlanCacheAssumption
  <1>2. PICK k \in K : \A l \in K : ~(<<l, k>> \in R)
    <2>1. IsWellFoundedOn(R, Nat)
      BY NatLessThanWellFounded
    <2> HIDE DEF R
    <2> QED BY <1>1, <2>1, WFMin
  <1>3. \A l \in K : <<l, k>> \in R <=> l < k
    BY <1>1 DEF OpToRel
  <1> HIDE DEF R
  <1>4. ASSUME NEW l \in K PROVE k <= l
    <2>1. ~(l < k)
      BY <1>2, <1>3
    <2>2. l \in Nat /\ k \in Nat
      BY <1>1
    <2> QED BY ONLY <2>1, <2>2
  <1> QED BY <1>4 DEF First

LEMMA TypesAreTypeInv == Types => TypeInv
  BY DEF Types, FlightTypes, PersistTypes, ControlTypes, FileTypes, OtherTypes, EntryType, FileType,
         TypeInv

LEMMA NoDocIsDoc == NoDoc \in Doc
  <1>1. NoDoc \in [{} -> Tactic] /\ {} \in SUBSET Key
    BY DEF NoDoc
  <1> QED BY <1>1 DEF Doc

LEMMA DocsMap == \A d \in Doc : DOMAIN d \in SUBSET Key /\ d \in [DOMAIN d -> Tactic]
  BY DEF Doc

LEMMA InitIInv == Init => IInv
  <1> SUFFICES ASSUME Init PROVE IInv
    OBVIOUS
  <1> USE PlanCacheAssumption DEF PlanCacheAssumption
  <1>1. NoDoc \in Doc
    BY NoDocIsDoc
  <1>2. NoSession \in Session /\ NoTemp \in [doc : Doc, synced : BOOLEAN]
    BY <1>1 DEF NoSession, NoTemp, Session
  <1>3. file \in FileType
        /\ file.kind # "torn" /\ file.synced
    <2>1. ASSUME NEW kind \in {"absent", "foreign", "doc"}, NEW d \in Doc, file = File(kind, d, TRUE)
          PROVE  /\ file \in FileType
                 /\ file.kind # "torn" /\ file.synced
      BY <2>1 DEF File, FileType
    <2>2. \E kind \in {"absent", "foreign", "doc"}, d \in Doc : file = File(kind, d, TRUE)
      BY <1>1 DEF Init
    <2> QED BY <2>1, <2>2
  <1>4. Types
    <2>1. FlightTypes
      BY DEF Init, FlightTypes
    <2>2. PersistTypes
      BY <1>2 DEF Init, PersistTypes
    <2>3. ControlTypes
      BY DEF Init, ControlTypes
    <2>4. FileTypes
      BY <1>2, <1>3 DEF Init, FileTypes
    <2>5. OtherTypes
      BY DEF Init, OtherTypes
    <2> QED BY <2>1, <2>2, <2>3, <2>4, <2>5 DEF Types
  <1>5. OneSession /\ SingleFlight /\ OnePlanPerKey /\ SessionKnowsFile
    BY DEF Init, OneSession, SingleFlight, OnePlanPerKey, SessionKnowsFile
  <1> QED BY <1>3, <1>4, <1>5 DEF Init, IInv, SavesWhole

(* A step that resolves a key touches neither the session nor the file.    *)
LEMMA ResolvingKeepsFile ==
    ASSUME IInv, NEW e \in Engine,
           UNCHANGED <<storage, persist, read_only>>,
           \A f \in Engine \ {e} : UNCHANGED <<phase[f], pc[f], todo[f]>>,
           phase[e] \in {"warm", "serve"}, phase'[e] \in {phase[e], "dead"},
           phase'[e] = "dead" => phase[e] = "serve" /\ pc'[e] = "idle",
           pc[e] # "close", todo'[e] \subseteq todo[e],
           pc'[e] \notin {"fsync", "rename", "close"},
           pc'[e] = "cancel" => phase'[e] = "warm"
    PROVE  OneSession' /\ SessionKnowsFile' /\ SavesWhole'
  <1>1. OneSession'
    BY DEF IInv, OneSession, persist
  <1>2. SessionKnowsFile'
    BY DEF IInv, SessionKnowsFile, Knows, persist, storage
  <1>3. SavesWhole'
    BY DEF IInv, SavesWhole, persist, storage
  <1> QED BY <1>1, <1>2, <1>3

(* Where the other engines are, and what they are about, stays; and e has  *)
(* no more to do than before.                                              *)
OthersStay(e) ==
    /\ \A f \in Engine \ {e} : UNCHANGED <<phase[f], pc[f], todo[f], key[f], mine[f]>>
    /\ todo'[e] \subseteq todo[e]

(* A step that leaves the entries alone, and whose engine tunes nothing.   *)
LEMMA SameFlights ==
    ASSUME IInv, NEW e \in Engine, OthersStay(e), UNCHANGED <<entries, flight>>,
           pc'[e] # "tune",
           pc'[e] \in {"find", "miss", "join", "wait"} => key'[e] \in Key,
           pc'[e] = "wait" => mine'[e] # 0 /\ entries[key'[e]] = mine'[e]
    PROVE  SingleFlight'
  BY DEF IInv, SingleFlight, OthersStay

(* Handing out the plan of a ready key keeps to one plan. *)
LEMMA GivingKeepsPlan ==
    ASSUME IInv, NEW k \in Key, NEW v, UNCHANGED <<entries, flight>>,
           StateOf(k) = "ready" /\ v = PlanOf(k),
           returned' = [returned EXCEPT ![k] = @ \cup {v}]
    PROVE  OnePlanPerKey' /\ returned' \in [Key -> SUBSET Tactic]
  <1>1. \A l \in Key : StateOf(l)' = StateOf(l) /\ PlanOf(l)' = PlanOf(l)
    BY DEF StateOf, PlanOf
  <1>2. v \in Tactic
    BY DEF IInv, SingleFlight, StateOf, PlanOf, Types, FlightTypes
  <1>3. \A l \in Key : returned'[l] = IF l = k THEN returned[l] \cup {v} ELSE returned[l]
    BY DEF IInv, Types, OtherTypes
  <1>4. OnePlanPerKey'
    BY <1>1, <1>3 DEF IInv, OnePlanPerKey, Ready
  <1> QED BY <1>2, <1>4 DEF IInv, Types, OtherTypes

LEMMA SamePlans ==
    ASSUME IInv, UNCHANGED <<entries, flight, returned>>
    PROVE  OnePlanPerKey'
  BY DEF IInv, OnePlanPerKey, Ready, StateOf, PlanOf

(* The frame of a step of one engine. *)
LEMMA ResolveKeeps ==
    ASSUME IInv, NEW e \in Engine, Resolve(e)
    PROVE  IInv'
  <1>1. /\ UNCHANGED <<flights, storage, persist, phase, mine, todo, returned, read_only, stops>>
        /\ pc[e] = "idle" /\ pc' = [pc EXCEPT ![e] = "find"]
        /\ phase[e] \in {"warm", "serve"}
    BY DEF Resolve, Goto
  <1>2. \E k \in Key : key' = [key EXCEPT ![e] = k]
    BY FirstIsIn DEF Resolve, IInv, Types, ControlTypes
  <1>3. OthersStay(e)
    BY <1>1, <1>2 DEF IInv, Types, ControlTypes, OthersStay
  <1>4. pc'[e] = "find" /\ key'[e] \in Key
    BY <1>1, <1>2 DEF IInv, Types, ControlTypes
  <1>5. SingleFlight'
    BY <1>1, <1>3, <1>4, SameFlights DEF flights
  <1>6. OneSession' /\ SessionKnowsFile' /\ SavesWhole'
    BY <1>1, <1>3, <1>4, ResolvingKeepsFile DEF OthersStay
  <1>7. OnePlanPerKey'
    BY <1>1, SamePlans DEF flights
  <1>8. Types'
    BY <1>1, <1>2 DEF IInv, Types, FlightTypes, PersistTypes, ControlTypes, FileTypes, OtherTypes,
         flights, storage, persist
  <1> QED BY <1>5, <1>6, <1>7, <1>8 DEF IInv

LEMMA GiveMoves ==
    ASSUME IInv, NEW e \in Engine, NEW v, Give(e, v), UNCHANGED key
    PROVE  /\ ControlTypes' /\ mine' \in [Engine -> 0 .. Len(flight)] /\ OthersStay(e)
           /\ pc'[e] = "idle" /\ phase'[e] = phase[e]
  <1>1. Len(flight) \in Nat
    BY DEF IInv, Types, FlightTypes
  <1>2. mine' \in [Engine -> 0 .. Len(flight)] /\ \A f \in Engine \ {e} : mine'[f] = mine[f]
    BY <1>1 DEF Give, IInv, Types, FlightTypes
  <1>3. /\ todo' \in [Engine -> SUBSET Key] /\ todo'[e] \subseteq todo[e]
        /\ \A f \in Engine \ {e} : todo'[f] = todo[f]
    BY DEF Give, IInv, Types, ControlTypes
  <1> QED BY <1>2, <1>3 DEF Give, Goto, IInv, Types, ControlTypes, OthersStay

LEMMA ThrowMoves ==
    ASSUME IInv, NEW e \in Engine, Throw(e), UNCHANGED key
    PROVE  /\ ControlTypes' /\ mine' \in [Engine -> 0 .. Len(flight)] /\ OthersStay(e)
           /\ pc'[e] \in {"idle", "cancel"} /\ phase'[e] \in {phase[e], "dead"}
           /\ phase[e] = "warm" => pc'[e] = "cancel" /\ phase'[e] = "warm"
           /\ phase[e] # "warm" => pc'[e] = "idle" /\ phase'[e] = "dead"
           /\ UNCHANGED <<todo, returned>>
  <1>1. Len(flight) \in Nat
    BY DEF IInv, Types, FlightTypes
  <1>2. mine' \in [Engine -> 0 .. Len(flight)] /\ \A f \in Engine \ {e} : mine'[f] = mine[f]
    BY <1>1 DEF Throw, IInv, Types, FlightTypes
  <1>3. CASE phase[e] = "warm"
    BY <1>2, <1>3 DEF Throw, Goto, IInv, Types, ControlTypes, OthersStay
  <1>4. CASE phase[e] # "warm"
    BY <1>2, <1>4 DEF Throw, Goto, Enter, IInv, Types, ControlTypes, OthersStay
  <1> QED BY <1>3, <1>4

LEMMA GotoMoves ==
    ASSUME IInv, NEW e \in Engine, NEW label \in {"find", "miss", "join", "tune", "wait"},
           Goto(e, label), UNCHANGED <<phase, todo, key>>,
           \A f \in Engine \ {e} : mine'[f] = mine[f]
    PROVE  ControlTypes' /\ OthersStay(e) /\ pc'[e] = label /\ phase'[e] = phase[e]
  BY DEF Goto, IInv, Types, ControlTypes, OthersStay

(* What a step that resolves a key has to show. *)
LEMMA ResolvingKeeps ==
    ASSUME IInv, NEW e \in Engine, pc[e] \in {"find", "miss", "join", "tune", "wait"},
           UNCHANGED <<storage, persist, read_only, stops>>, OthersStay(e),
           \/ phase'[e] = phase[e] /\ pc'[e] \in {"idle", "miss", "join", "tune", "wait"}
           \/ phase'[e] = "warm" /\ phase[e] = "warm" /\ pc'[e] = "cancel"
           \/ phase'[e] = "dead" /\ phase[e] # "warm" /\ pc'[e] = "idle",
           FlightTypes', ControlTypes', returned' \in [Key -> SUBSET Tactic],
           failures' \in 0 .. MaxFailures, SingleFlight', OnePlanPerKey'
    PROVE  IInv'
  <1>1. phase[e] \in {"warm", "serve"}
    BY DEF IInv, OneSession, Types, ControlTypes
  <1>2. OneSession' /\ SessionKnowsFile' /\ SavesWhole'
    BY <1>1, ResolvingKeepsFile DEF OthersStay
  <1>3. Types'
    BY DEF IInv, Types, PersistTypes, FileTypes, OtherTypes, storage, persist
  <1> QED BY <1>2, <1>3 DEF IInv

LEMMA FindReadyKeeps ==
    ASSUME IInv, NEW e \in Engine, FindReady(e)
    PROVE  IInv'
  <1>1. /\ UNCHANGED <<flights, storage, persist, key, read_only, stops>>
        /\ pc[e] = "find"
    BY DEF FindReady
  <1>2. key[e] \in Key
    BY <1>1 DEF IInv, SingleFlight
  <1>3. CASE StateOf(key[e]) = "ready"
    <2>1. Give(e, PlanOf(key[e]))
      BY <1>3 DEF FindReady
    <2>2. /\ ControlTypes' /\ mine' \in [Engine -> 0 .. Len(flight)] /\ OthersStay(e)
          /\ pc'[e] = "idle" /\ phase'[e] = phase[e]
      BY <1>1, <2>1, GiveMoves
    <2>3. OnePlanPerKey' /\ returned' \in [Key -> SUBSET Tactic]
      BY <1>1, <1>2, <1>3, <2>1, GivingKeepsPlan DEF Give, flights
    <2>4. SingleFlight'
      BY <1>1, <2>2, SameFlights DEF flights
    <2> QED BY <1>1, <2>2, <2>3, <2>4, ResolvingKeeps
            DEF flights, FlightTypes, IInv, Types, OtherTypes
  <1>4. CASE StateOf(key[e]) # "ready"
    <2>1. Goto(e, "miss") /\ UNCHANGED <<returned, todo, mine, phase>>
      BY <1>4 DEF FindReady
    <2>2. ControlTypes' /\ OthersStay(e) /\ pc'[e] = "miss" /\ phase'[e] = phase[e]
      BY <1>1, <2>1, GotoMoves
    <2>3. SingleFlight' /\ OnePlanPerKey'
      BY <1>1, <1>2, <2>1, <2>2, SameFlights, SamePlans DEF flights
    <2> QED BY <1>1, <2>1, <2>2, <2>3, ResolvingKeeps
            DEF flights, FlightTypes, IInv, Types, OtherTypes
  <1> QED BY <1>3, <1>4

(* A step that ends in an exception and leaves the entries alone. *)
LEMMA ThrowKeeps ==
    ASSUME IInv, NEW e \in Engine, pc[e] \in {"find", "miss", "join", "wait"}, Throw(e),
           UNCHANGED <<flights, storage, persist, key, read_only, stops>>
    PROVE  IInv'
  <1>1. /\ ControlTypes' /\ mine' \in [Engine -> 0 .. Len(flight)] /\ OthersStay(e)
        /\ pc'[e] \in {"idle", "cancel"} /\ phase'[e] \in {phase[e], "dead"}
        /\ phase[e] = "warm" => pc'[e] = "cancel" /\ phase'[e] = "warm"
        /\ phase[e] # "warm" => pc'[e] = "idle" /\ phase'[e] = "dead"
        /\ UNCHANGED <<todo, returned>>
    BY ThrowMoves
  <1>2. SingleFlight' /\ OnePlanPerKey'
    BY <1>1, SameFlights, SamePlans DEF flights
  <1> QED BY <1>1, <1>2, ResolvingKeeps DEF flights, FlightTypes, IInv, Types, OtherTypes

LEMMA MissKeeps ==
    ASSUME IInv, NEW e \in Engine, Miss(e)
    PROVE  IInv'
  <1>1. UNCHANGED <<flights, storage, persist, key, read_only, stops>> /\ pc[e] = "miss"
    BY DEF Miss
  <1>2. CASE frozen
    BY <1>1, <1>2, ThrowKeeps DEF Miss
  <1>3. CASE ~frozen
    <2>1. Goto(e, "join") /\ UNCHANGED <<mine, phase, todo, returned>>
      BY <1>3 DEF Miss
    <2>2. ControlTypes' /\ OthersStay(e) /\ pc'[e] = "join" /\ phase'[e] = phase[e]
      BY <1>1, <2>1, GotoMoves
    <2>3. SingleFlight' /\ OnePlanPerKey'
      BY <1>1, <2>1, <2>2, SameFlights, SamePlans DEF flights, IInv, SingleFlight
    <2> QED BY <1>1, <2>1, <2>2, <2>3, ResolvingKeeps
            DEF flights, FlightTypes, IInv, Types, OtherTypes
  <1> QED BY <1>2, <1>3

LEMMA CaptureMissKeeps ==
    ASSUME IInv, NEW e \in Engine, CaptureMiss(e)
    PROVE  IInv'
  BY ThrowKeeps DEF CaptureMiss

LEMMA AnsweredKeeps ==
    ASSUME IInv, NEW e \in Engine, Answered(e)
    PROVE  IInv'
  <1>1. UNCHANGED <<flights, storage, persist, key, read_only, stops>> /\ pc[e] = "wait"
    BY DEF Answered
  <1>2. CASE flight[mine[e]].state = "ready"
    <2>1. Give(e, flight[mine[e]].value)
      BY <1>2 DEF Answered
    <2>2. /\ ControlTypes' /\ mine' \in [Engine -> 0 .. Len(flight)] /\ OthersStay(e)
          /\ pc'[e] = "idle" /\ phase'[e] = phase[e]
      BY <1>1, <2>1, GiveMoves
    <2>3. /\ key[e] \in Key /\ StateOf(key[e]) = "ready"
          /\ PlanOf(key[e]) = flight[mine[e]].value
      BY <1>1, <1>2 DEF IInv, SingleFlight, StateOf, PlanOf
    <2>4. OnePlanPerKey' /\ returned' \in [Key -> SUBSET Tactic]
      BY <1>1, <2>1, <2>3, GivingKeepsPlan DEF Give, flights
    <2>5. SingleFlight'
      BY <1>1, <2>2, SameFlights DEF flights
    <2> QED BY <1>1, <2>2, <2>4, <2>5, ResolvingKeeps
            DEF flights, FlightTypes, IInv, Types, OtherTypes
  <1>3. CASE flight[mine[e]].state # "ready"
    BY <1>1, <1>3, ThrowKeeps DEF Answered
  <1> QED BY <1>2, <1>3

(* A new entry under a key that has none: every other entry, and who       *)
(* tunes or waits for it, is as before.                                    *)
LEMMA NewEntry ==
    ASSUME IInv, NEW k \in Key, StateOf(k) = "none", NEW x \in EntryType,
           flight' = Append(flight, x), entries' = [entries EXCEPT ![k] = Len(flight) + 1]
    PROVE  /\ flight' \in Seq(EntryType) /\ entries' \in [Key -> 0 .. Len(flight')]
           /\ Len(flight) \in Nat /\ Len(flight') = Len(flight) + 1
           /\ flight'[Len(flight) + 1] = x /\ entries'[k] = Len(flight) + 1
           /\ \A i \in 1 .. Len(flight) : flight'[i] = flight[i]
           /\ \A l \in Key \ {k} : entries'[l] = entries[l]
           /\ entries[k] = 0
  <1>1. flight \in Seq(EntryType) /\ entries \in [Key -> 0 .. Len(flight)] /\ Len(flight) \in Nat
    BY DEF IInv, Types, FlightTypes
  <1>2. entries[k] = 0
    <2>1. SUFFICES ASSUME entries[k] # 0 PROVE FALSE
      OBVIOUS
    <2>2. flight[entries[k]] \in EntryType
      BY <1>1, <2>1
    <2>3. flight[entries[k]].state # "none"
      BY <2>2 DEF EntryType
    <2> QED BY <2>1, <2>3 DEF StateOf
  <1>3. /\ flight' \in Seq(EntryType) /\ Len(flight') = Len(flight) + 1
        /\ flight'[Len(flight) + 1] = x /\ \A i \in 1 .. Len(flight) : flight'[i] = flight[i]
    BY <1>1, AppendProperties
  <1>4. entries' \in [Key -> 0 .. Len(flight')]
    BY <1>1, <1>3
  <1> QED BY <1>1, <1>2, <1>3, <1>4

LEMMA NewEntryKeepsPlans ==
    ASSUME IInv, NEW k \in Key, StateOf(k) = "none", NEW x \in EntryType,
           flight' = Append(flight, x), entries' = [entries EXCEPT ![k] = Len(flight) + 1],
           UNCHANGED returned
    PROVE  OnePlanPerKey'
  <1>1. \A l \in Key \ {k} : \/ StateOf(l)' = StateOf(l) /\ PlanOf(l)' = PlanOf(l)
                             \/ entries[l] = 0
    BY NewEntry DEF StateOf, PlanOf, IInv, Types, FlightTypes
  <1>2. \A l \in Key : returned[l] # {} => StateOf(l) = "ready" /\ entries[l] # 0
    BY DEF IInv, OnePlanPerKey, Ready, StateOf
  <1>3. \A l \in Key : \A v \in returned[l] : PlanOf(l) = v
    BY DEF IInv, OnePlanPerKey
  <1>4. \A l \in Key \ {k} : returned[l] # {} => StateOf(l)' = "ready" /\ PlanOf(l)' = PlanOf(l)
    BY <1>1, <1>2
  <1>5. returned[k] = {}
    BY <1>2
  <1> QED BY <1>3, <1>4, <1>5 DEF OnePlanPerKey, Ready

LEMMA GetOrTuneKeeps ==
    ASSUME IInv, NEW e \in Engine, GetOrTune(e)
    PROVE  IInv'
  <1> DEFINE k == key[e]
  <1>1. /\ UNCHANGED <<failures, storage, persist, phase, key, todo, returned, read_only, stops>>
        /\ pc[e] = "join"
    BY DEF GetOrTune
  <1>2. k \in Key
    BY <1>1 DEF IInv, SingleFlight
  <1>3. CASE StateOf(k) = "none"
    <2> DEFINE x == [state |-> "tuning", value |-> None]
    <2>1. /\ flight' = Append(flight, x) /\ entries' = [entries EXCEPT ![k] = Len(flight) + 1]
          /\ mine' = [mine EXCEPT ![e] = Len(flight) + 1] /\ Goto(e, "tune")
      BY <1>3 DEF GetOrTune
    <2>2. x \in EntryType /\ x.state = "tuning"
      BY DEF EntryType
    <2> HIDE DEF x
    <2>3. /\ flight' \in Seq(EntryType) /\ entries' \in [Key -> 0 .. Len(flight')]
          /\ Len(flight) \in Nat /\ Len(flight') = Len(flight) + 1
          /\ flight'[Len(flight) + 1] = x /\ entries'[k] = Len(flight) + 1
          /\ \A i \in 1 .. Len(flight) : flight'[i] = flight[i]
          /\ \A l \in Key \ {k} : entries'[l] = entries[l]
          /\ entries[k] = 0
      BY <1>2, <1>3, <2>1, <2>2, NewEntry
    <2>4. OnePlanPerKey'
      BY <1>1, <1>2, <1>3, <2>1, <2>2, NewEntryKeepsPlans
    <2>5. /\ mine' \in [Engine -> 0 .. Len(flight')] /\ mine'[e] = Len(flight) + 1
          /\ \A f \in Engine \ {e} : mine'[f] = mine[f] /\ mine[f] \in 0 .. Len(flight)
      BY <2>1, <2>3 DEF IInv, Types, FlightTypes
    <2>6. ControlTypes' /\ OthersStay(e) /\ pc'[e] = "tune" /\ phase'[e] = phase[e]
      BY <1>1, <2>1, <2>5, GotoMoves
    <2>7. SingleFlight'
      <3>1. ASSUME NEW f \in Engine \ {e}
            PROVE  /\ pc'[f] = pc[f] /\ key'[f] = key[f] /\ mine'[f] = mine[f]
                   /\ mine[f] # Len(flight) + 1
                   /\ mine[f] # 0 => flight'[mine[f]] = flight[mine[f]]
        BY <2>3, <2>5, <2>6 DEF OthersStay
      <3>2. ASSUME NEW f \in Engine \ {e}
            PROVE  /\ pc'[f] \in {"find", "miss", "join", "tune", "wait"} => key'[f] \in Key
                   /\ pc'[f] = "tune" => /\ mine'[f] # 0 /\ flight'[mine'[f]].state = "tuning"
                                         /\ entries'[key'[f]] = mine'[f]
                   /\ pc'[f] = "wait" =>
                        /\ mine'[f] # 0
                        /\ flight'[mine'[f]].state # "failed" => entries'[key'[f]] = mine'[f]
        BY <2>3, <3>1 DEF IInv, SingleFlight
      <3>3. \A i \in 1 .. Len(flight') : flight'[i].state = "ready" => flight'[i].value \in Tactic
        BY <2>2, <2>3 DEF IInv, SingleFlight
      <3>4. \A f, g \in Engine : pc'[f] = "tune" /\ pc'[g] = "tune" /\ mine'[f] = mine'[g] => f = g
        BY <2>5, <3>1 DEF IInv, SingleFlight
      <3>5. key'[e] \in Key /\ mine'[e] # 0 /\ flight'[mine'[e]].state = "tuning"
            /\ entries'[key'[e]] = mine'[e]
        BY <1>1, <1>2, <2>2, <2>3, <2>5
      <3> QED BY <2>6, <3>2, <3>3, <3>4, <3>5 DEF SingleFlight
    <2> QED BY <1>1, <2>3, <2>4, <2>5, <2>6, <2>7, ResolvingKeeps
            DEF FlightTypes, IInv, Types, OtherTypes
  <1>4. CASE StateOf(k) # "none"
    <2>1. mine' = [mine EXCEPT ![e] = entries[k]] /\ Goto(e, "wait") /\ UNCHANGED <<flight, entries>>
      BY <1>4 DEF GetOrTune
    <2>2. entries[k] # 0 /\ entries[k] \in 0 .. Len(flight)
      BY <1>2, <1>4 DEF StateOf, IInv, Types, FlightTypes
    <2>3. /\ mine' \in [Engine -> 0 .. Len(flight)] /\ mine'[e] = entries[k]
          /\ \A f \in Engine \ {e} : mine'[f] = mine[f]
      BY <2>1, <2>2 DEF IInv, Types, FlightTypes
    <2>4. ControlTypes' /\ OthersStay(e) /\ pc'[e] = "wait" /\ phase'[e] = phase[e]
      BY <1>1, <2>1, <2>3, GotoMoves
    <2>5. SingleFlight' /\ OnePlanPerKey'
      BY <1>1, <1>2, <2>1, <2>2, <2>3, <2>4, SameFlights, SamePlans
    <2> QED BY <1>1, <2>1, <2>3, <2>4, <2>5, ResolvingKeeps DEF FlightTypes, IInv, Types, OtherTypes
  <1> QED BY <1>3, <1>4

(* The end of a tuning.  No plan of the key has been handed out yet, and   *)
(* nobody else tunes the entry.                                            *)
LEMMA TuningEnds ==
    ASSUME IInv, NEW e \in Engine, pc[e] = "tune", NEW x \in EntryType,
           flight' = [flight EXCEPT ![mine[e]] = x]
    PROVE  /\ key[e] \in Key /\ entries[key[e]] = mine[e] /\ mine[e] \in 1 .. Len(flight)
           /\ flight' \in Seq(EntryType) /\ Len(flight') = Len(flight) /\ Len(flight) \in Nat
           /\ flight'[mine[e]] = x
           /\ \A i \in 1 .. Len(flight) : i # mine[e] => flight'[i] = flight[i]
           /\ \A f \in Engine \ {e} : pc[f] = "tune" => mine[f] # mine[e] /\ key[f] # key[e]
           /\ \A l \in Key : entries[l] = mine[e] => returned[l] = {}
  <1>1. flight \in Seq(EntryType) /\ mine[e] \in 0 .. Len(flight) /\ Len(flight) \in Nat
    BY DEF IInv, Types, FlightTypes
  <1>2. /\ key[e] \in Key /\ entries[key[e]] = mine[e] /\ mine[e] # 0
        /\ flight[mine[e]].state = "tuning"
    BY DEF IInv, SingleFlight
  <1>3. flight' \in Seq(EntryType) /\ Len(flight') = Len(flight)
    BY <1>1, <1>2, ExceptSeq
  <1>4. flight'[mine[e]] = x /\ \A i \in 1 .. Len(flight) : i # mine[e] => flight'[i] = flight[i]
    BY <1>1, <1>2
  <1>5. \A f \in Engine \ {e} : pc[f] = "tune" => mine[f] # mine[e] /\ key[f] # key[e]
    BY <1>2 DEF IInv, SingleFlight
  <1>6. \A l \in Key : entries[l] = mine[e] => returned[l] = {}
    BY <1>2 DEF IInv, OnePlanPerKey, Ready, StateOf
  <1> QED BY <1>1, <1>2, <1>3, <1>4, <1>5, <1>6

LEMMA TunedKeeps ==
    ASSUME IInv, NEW e \in Engine, Tuned(e)
    PROVE  IInv'
  <1> DEFINE m == mine[e]
             k == key[e]
  <1>1. /\ UNCHANGED <<entries, failures, storage, persist, key, read_only, stops>>
        /\ pc[e] = "tune"
    BY DEF Tuned
  <1>2. PICK v \in Tactic : /\ flight' = [flight EXCEPT ![m] = [state |-> "ready", value |-> v]]
                            /\ Give(e, v)
    BY DEF Tuned
  <1> DEFINE x == [state |-> "ready", value |-> v]
  <1>3. x \in EntryType /\ x.state = "ready" /\ x.value = v
    BY DEF EntryType
  <1>4. flight' = [flight EXCEPT ![m] = x]
    BY <1>2
  <1> HIDE DEF x
  <1>5. /\ k \in Key /\ entries[k] = m /\ m \in 1 .. Len(flight)
        /\ flight' \in Seq(EntryType) /\ Len(flight') = Len(flight) /\ Len(flight) \in Nat
        /\ flight'[m] = x
        /\ \A i \in 1 .. Len(flight) : i # m => flight'[i] = flight[i]
        /\ \A f \in Engine \ {e} : pc[f] = "tune" => mine[f] # m /\ key[f] # k
        /\ \A l \in Key : entries[l] = m => returned[l] = {}
    BY <1>1, <1>3, <1>4, TuningEnds
  <1>6. /\ ControlTypes' /\ mine' \in [Engine -> 0 .. Len(flight)] /\ OthersStay(e)
        /\ pc'[e] = "idle" /\ phase'[e] = phase[e]
    BY <1>1, <1>2, GiveMoves
  <1>7. returned' \in [Key -> SUBSET Tactic]
        /\ \A l \in Key : returned'[l] = IF l = k THEN returned[l] \cup {v} ELSE returned[l]
    BY <1>2, <1>5 DEF Give, IInv, Types, OtherTypes
  <1>8. FlightTypes'
    BY <1>1, <1>5, <1>6 DEF FlightTypes, IInv, Types
  <1>9. OnePlanPerKey'
    <2>1. ASSUME NEW l \in Key, NEW w \in returned'[l]
          PROVE  entries[l] # 0 /\ flight'[entries[l]].state = "ready" /\ flight'[entries[l]].value = w
      <3>1. CASE l = k
        BY <1>3, <1>5, <1>7, <2>1, <3>1
      <3>2. CASE l # k
        <4>1. w \in returned[l] /\ entries[l] # m
          BY <1>5, <1>7, <2>1, <3>2
        <4>2. entries[l] # 0 /\ flight[entries[l]].state = "ready" /\ flight[entries[l]].value = w
          BY <4>1 DEF IInv, OnePlanPerKey, Ready, StateOf, PlanOf
        <4>3. entries[l] \in 0 .. Len(flight)
          BY DEF IInv, Types, FlightTypes
        <4> QED BY <1>5, <4>1, <4>2, <4>3
      <3> QED BY <3>1, <3>2
    <2> QED BY <1>1, <2>1 DEF OnePlanPerKey, Ready, StateOf, PlanOf
  <1>10. SingleFlight'
    <2>1. ASSUME NEW f \in Engine \ {e}
          PROVE  pc'[f] = pc[f] /\ key'[f] = key[f] /\ mine'[f] = mine[f]
                 /\ mine[f] \in 0 .. Len(flight)
      BY <1>6 DEF OthersStay, IInv, Types, FlightTypes
    <2>2. ASSUME NEW f \in Engine \ {e}
          PROVE  /\ pc'[f] \in {"find", "miss", "join", "tune", "wait"} => key'[f] \in Key
                 /\ pc'[f] = "tune" => /\ mine'[f] # 0 /\ flight'[mine'[f]].state = "tuning"
                                       /\ entries'[key'[f]] = mine'[f]
                 /\ pc'[f] = "wait" =>
                      /\ mine'[f] # 0
                      /\ flight'[mine'[f]].state # "failed" => entries'[key'[f]] = mine'[f]
      <3>1. pc'[f] \in {"find", "miss", "join", "tune", "wait"} => key'[f] \in Key
        BY <2>1 DEF IInv, SingleFlight
      <3>2. pc'[f] = "tune" => /\ mine'[f] # 0 /\ flight'[mine'[f]].state = "tuning"
                               /\ entries'[key'[f]] = mine'[f]
        BY <1>1, <1>5, <2>1 DEF IInv, SingleFlight
      <3>3. flight[m].state = "tuning"
        BY <1>1 DEF IInv, SingleFlight
      <3>4. pc'[f] = "wait" =>
                 /\ mine'[f] # 0
                 /\ flight'[mine'[f]].state # "failed" => entries'[key'[f]] = mine'[f]
        BY <1>1, <1>5, <2>1, <3>3 DEF IInv, SingleFlight
      <3> QED BY <3>1, <3>2, <3>4
    <2>3. \A i \in 1 .. Len(flight') : flight'[i].state = "ready" => flight'[i].value \in Tactic
      BY <1>3, <1>5 DEF IInv, SingleFlight
    <2>4. \A f, g \in Engine : pc'[f] = "tune" /\ pc'[g] = "tune" /\ mine'[f] = mine'[g] => f = g
      BY <1>6, <2>1 DEF IInv, SingleFlight
    <2> QED BY <1>6, <2>2, <2>3, <2>4 DEF SingleFlight
  <1> QED BY <1>1, <1>6, <1>7, <1>8, <1>9, <1>10, ResolvingKeeps DEF IInv, Types, OtherTypes

LEMMA TuneFailsKeeps ==
    ASSUME IInv, NEW e \in Engine, TuneFails(e)
    PROVE  IInv'
  <1> DEFINE m == mine[e]
             k == key[e]
             x == [flight[m] EXCEPT !.state = "failed"]
  <1>1. /\ UNCHANGED <<storage, persist, key, read_only, stops>>
        /\ pc[e] = "tune" /\ Throw(e)
        /\ entries' = [entries EXCEPT ![k] = IF @ = m THEN 0 ELSE @]
        /\ flight' = [flight EXCEPT ![m] = x]
    BY DEF TuneFails
  <1>2. failures' \in 0 .. MaxFailures
    BY PlanCacheAssumption DEF TuneFails, IInv, Types, OtherTypes, PlanCacheAssumption
  <1>3. x \in EntryType /\ x.state = "failed"
    <2>1. flight[m] \in EntryType
      BY <1>1 DEF IInv, SingleFlight, Types, FlightTypes
    <2> QED BY <2>1 DEF EntryType
  <1> HIDE DEF x
  <1>4. /\ k \in Key /\ entries[k] = m /\ m \in 1 .. Len(flight)
        /\ flight' \in Seq(EntryType) /\ Len(flight') = Len(flight) /\ Len(flight) \in Nat
        /\ flight'[m] = x
        /\ \A i \in 1 .. Len(flight) : i # m => flight'[i] = flight[i]
        /\ \A f \in Engine \ {e} : pc[f] = "tune" => mine[f] # m /\ key[f] # k
        /\ \A l \in Key : entries[l] = m => returned[l] = {}
    BY <1>1, <1>3, TuningEnds
  <1>5. /\ ControlTypes' /\ mine' \in [Engine -> 0 .. Len(flight)] /\ OthersStay(e)
        /\ pc'[e] \in {"idle", "cancel"} /\ phase'[e] \in {phase[e], "dead"}
        /\ phase[e] = "warm" => pc'[e] = "cancel" /\ phase'[e] = "warm"
        /\ phase[e] # "warm" => pc'[e] = "idle" /\ phase'[e] = "dead"
        /\ UNCHANGED <<todo, returned>>
    BY <1>1, ThrowMoves
  <1>6. /\ entries' \in [Key -> 0 .. Len(flight)] /\ entries'[k] = 0
        /\ \A l \in Key \ {k} : entries'[l] = entries[l] /\ entries[l] \in 0 .. Len(flight)
    BY <1>1, <1>4 DEF IInv, Types, FlightTypes
  <1>7. FlightTypes'
    BY <1>4, <1>5, <1>6 DEF FlightTypes
  <1>8. OnePlanPerKey'
    <2>1. ASSUME NEW l \in Key, NEW w \in returned[l]
          PROVE  entries'[l] # 0 /\ flight'[entries'[l]].state = "ready"
                 /\ flight'[entries'[l]].value = w
      <3>1. l # k /\ entries[l] # m
        BY <1>4, <2>1
      <3>2. entries[l] # 0 /\ flight[entries[l]].state = "ready" /\ flight[entries[l]].value = w
        BY DEF IInv, OnePlanPerKey, Ready, StateOf, PlanOf
      <3> QED BY <1>4, <1>6, <3>1, <3>2
    <2> QED BY <1>5, <2>1 DEF OnePlanPerKey, Ready, StateOf, PlanOf
  <1>9. SingleFlight'
    <2>1. ASSUME NEW f \in Engine \ {e}
          PROVE  pc'[f] = pc[f] /\ key'[f] = key[f] /\ mine'[f] = mine[f]
                 /\ mine[f] \in 0 .. Len(flight)
      BY <1>5 DEF OthersStay, IInv, Types, FlightTypes
    <2>2. ASSUME NEW f \in Engine \ {e}
          PROVE  /\ pc'[f] \in {"find", "miss", "join", "tune", "wait"} => key'[f] \in Key
                 /\ pc'[f] = "tune" => /\ mine'[f] # 0 /\ flight'[mine'[f]].state = "tuning"
                                       /\ entries'[key'[f]] = mine'[f]
                 /\ pc'[f] = "wait" =>
                      /\ mine'[f] # 0
                      /\ flight'[mine'[f]].state # "failed" => entries'[key'[f]] = mine'[f]
      <3>1. pc'[f] \in {"find", "miss", "join", "tune", "wait"} => key'[f] \in Key
        BY <2>1 DEF IInv, SingleFlight
      <3>2. pc'[f] = "tune" => /\ mine'[f] # 0 /\ flight'[mine'[f]].state = "tuning"
                               /\ entries'[key'[f]] = mine'[f]
        BY <1>4, <1>6, <2>1 DEF IInv, SingleFlight
      <3>3. pc'[f] = "wait" =>
                 /\ mine'[f] # 0
                 /\ flight'[mine'[f]].state # "failed" => entries'[key'[f]] = mine'[f]
        BY <1>3, <1>4, <1>6, <2>1 DEF IInv, SingleFlight
      <3> QED BY <3>1, <3>2, <3>3
    <2>3. \A i \in 1 .. Len(flight') : flight'[i].state = "ready" => flight'[i].value \in Tactic
      BY <1>3, <1>4 DEF IInv, SingleFlight
    <2>4. \A f, g \in Engine : pc'[f] = "tune" /\ pc'[g] = "tune" /\ mine'[f] = mine'[g] => f = g
      BY <1>5, <2>1 DEF IInv, SingleFlight
    <2> QED BY <1>5, <2>2, <2>3, <2>4 DEF SingleFlight
  <1> QED BY <1>1, <1>2, <1>5, <1>7, <1>8, <1>9, ResolvingKeeps DEF IInv, Types, OtherTypes

----------------------------------------------------------------------------
(* The session's steps: they leave every plan and every resolving engine   *)
(* alone.                                                                  *)
SessionLabels == {"idle", "fsync", "rename", "close"}

LEMMA SessionStep ==
    ASSUME IInv, NEW e \in Engine, UNCHANGED <<flights, key, mine, returned>>,
           \A f \in Engine \ {e} : pc'[f] = pc[f], pc'[e] \in SessionLabels
    PROVE  SingleFlight' /\ OnePlanPerKey' /\ FlightTypes'
  <1>1. SingleFlight'
    BY DEF IInv, SingleFlight, flights, SessionLabels
  <1>2. OnePlanPerKey'
    BY SamePlans DEF flights
  <1> QED BY <1>1, <1>2 DEF IInv, Types, FlightTypes, flights

LEMMA BeginSessionKeeps ==
    ASSUME IInv, NEW e \in Engine, BeginSession(e)
    PROVE  IInv'
  <1> USE PlanCacheAssumption DEF PlanCacheAssumption
  <1>1. /\ UNCHANGED <<flights, storage, key, mine, returned, read_only, stops>>
        /\ phase[e] \in {"off", "dead"} /\ pc[e] = "idle" /\ pmutex = None
    BY DEF BeginSession
  <1>2. \E p \in {"load", "dead"} : Enter(e, p, "idle")
    BY DEF BeginSession, Rejected
  <1>3. /\ \A f \in Engine \ {e} : phase'[f] = phase[f] /\ pc'[f] = pc[f]
        /\ pc'[e] = "idle" /\ phase'[e] \in {"load", "dead"}
        /\ phase' \in [Engine -> {"off", "load", "warm", "serve", "dead"}]
        /\ pc' = pc
    BY <1>1, <1>2 DEF Enter, Goto, IInv, Types, ControlTypes
  <1>4. SingleFlight' /\ OnePlanPerKey' /\ FlightTypes'
    BY <1>1, <1>3, SessionStep DEF SessionLabels
  <1>5. /\ session' = session
        /\ phase'[e] = "load" => pmutex' = e /\ session = None /\ Knows(opening')
        /\ phase'[e] = "dead" => pmutex' = None /\ todo' = todo
        /\ opening' \in Session /\ frozen' \in BOOLEAN
        /\ \A f \in Engine \ {e} : todo'[f] = todo[f]
        /\ todo' \in [Engine -> SUBSET Key]
        /\ phase'[e] = "load" => todo'[e] \subseteq DOMAIN opening'.prior
    <2>1. file.doc \in Doc /\ DOMAIN file.doc \in SUBSET Key /\ NoDoc \in Doc /\ read_only \in BOOLEAN
          /\ opening \in Session /\ frozen \in BOOLEAN /\ todo \in [Engine -> SUBSET Key]
      BY DocsMap, NoDocIsDoc DEF IInv, Types, FileTypes, FileType, OtherTypes, PersistTypes, ControlTypes
    <2>2. CASE session # None /\ UNCHANGED <<persist, todo>> /\ Enter(e, "dead", "idle")
      <3>1. phase'[e] = "dead"
        BY <2>2 DEF Enter, IInv, Types, ControlTypes
      <3> QED BY <1>1, <2>1, <2>2, <3>1 DEF persist
    <2>3. CASE /\ session = None /\ file.kind \in {"absent", "doc"} /\ frozen' = read_only
               /\ opening' = [prior |-> file.doc, save_allowed |-> TRUE]
               /\ pmutex' = e /\ todo' = [todo EXCEPT ![e] = DOMAIN file.doc]
               /\ Enter(e, "load", "idle") /\ UNCHANGED session
      <3>1. phase'[e] = "load"
        BY <2>3 DEF Enter, IInv, Types, ControlTypes
      <3> QED BY <2>1, <2>3, <3>1 DEF Session, Knows
    <2>4. CASE session = None /\ Rejected(e, NoDoc) /\ UNCHANGED <<session, todo>>
      <3>1. CASE read_only
        <4>1. phase'[e] = "dead"
          BY <2>4, <3>1 DEF Rejected, Enter, IInv, Types, ControlTypes
        <4> QED BY <2>1, <2>4, <3>1, <4>1 DEF Rejected
      <3>2. CASE ~read_only
        <4>1. /\ phase'[e] = "load" /\ pmutex' = e /\ frozen' = read_only
              /\ opening' = [prior |-> NoDoc, save_allowed |-> FALSE]
          BY <2>4, <3>2 DEF Rejected, Enter, IInv, Types, ControlTypes
        <4>2. opening' \in Session /\ Knows(opening')
          BY <2>1, <4>1 DEF Session, Knows
        <4>3. todo'[e] = {}
          BY <1>1, <2>4 DEF IInv, OneSession
        <4> QED BY <2>1, <2>4, <4>1, <4>2, <4>3
      <3> QED BY <3>1, <3>2
    <2> QED BY <2>2, <2>3, <2>4 DEF BeginSession
  <1>6. OneSession'
    BY <1>1, <1>3, <1>5 DEF IInv, OneSession
  <1>7. SessionKnowsFile'
    BY <1>1, <1>3, <1>5 DEF IInv, OneSession, SessionKnowsFile, Knows, storage
  <1>8. SavesWhole'
    BY <1>1, <1>3, <1>5 DEF IInv, SavesWhole, storage
  <1>9. Types'
    BY <1>1, <1>3, <1>4, <1>5 DEF IInv, Types, PersistTypes, ControlTypes, FileTypes, OtherTypes,
         storage, flights
  <1> QED BY <1>4, <1>6, <1>7, <1>8, <1>9 DEF IInv

LEMMA InstallKeeps ==
    ASSUME IInv, NEW e \in Engine, Install(e)
    PROVE  IInv'
  <1> USE PlanCacheAssumption DEF PlanCacheAssumption
  <1> DEFINE k == First(todo[e])
  <1>1. /\ UNCHANGED <<failures, storage, key, mine, returned, read_only, stops>>
        /\ phase[e] = "load" /\ todo[e] # {}
    BY DEF Install
  <1>2. /\ pc[e] = "idle" /\ pmutex = e /\ session = None
        /\ Knows(opening) /\ todo[e] \subseteq DOMAIN opening.prior
        /\ \A f \in Engine \ {e} : phase[f] \notin {"load", "warm"}
    BY <1>1 DEF IInv, OneSession, SessionKnowsFile
  <1>3. k \in todo[e] /\ k \in Key /\ opening.prior[k] \in Tactic /\ opening.prior \in Doc
        /\ opening \in Session
    <2>1. k \in todo[e] /\ k \in Key
      BY <1>1, FirstIsIn DEF IInv, Types, ControlTypes
    <2>2. opening \in Session /\ opening.prior \in Doc
      BY DEF IInv, Types, PersistTypes, Session
    <2> QED BY <1>2, <2>1, <2>2, DocsMap
  <1> HIDE DEF k
  <1>4. CASE UNCHANGED <<persist, phase, pc>> /\ todo' = [todo EXCEPT ![e] = @ \ {k}]
             /\ (\/ /\ StateOf(k) = "none"
                    /\ flight' = Append(flight, [state |-> "ready", value |-> opening.prior[k]])
                    /\ entries' = [entries EXCEPT ![k] = Len(flight) + 1]
                 \/ UNCHANGED <<flight, entries>>)
    <2>1. FlightTypes' /\ SingleFlight' /\ OnePlanPerKey'
      <3>1. CASE UNCHANGED <<flight, entries>>
        BY <1>1, <1>2, <1>4, <3>1, SessionStep DEF flights, SessionLabels
      <3>2. CASE /\ StateOf(k) = "none"
                 /\ flight' = Append(flight, [state |-> "ready", value |-> opening.prior[k]])
                 /\ entries' = [entries EXCEPT ![k] = Len(flight) + 1]
        <4> DEFINE x == [state |-> "ready", value |-> opening.prior[k]]
        <4>1. x \in EntryType /\ x.value \in Tactic
          BY <1>3 DEF EntryType
        <4>2. flight' = Append(flight, x)
          BY <3>2
        <4> HIDE DEF x
        <4>3. /\ flight' \in Seq(EntryType) /\ entries' \in [Key -> 0 .. Len(flight')]
              /\ Len(flight) \in Nat /\ Len(flight') = Len(flight) + 1
              /\ flight'[Len(flight) + 1] = x /\ entries'[k] = Len(flight) + 1
              /\ \A i \in 1 .. Len(flight) : flight'[i] = flight[i]
              /\ \A l \in Key \ {k} : entries'[l] = entries[l]
              /\ entries[k] = 0
          BY <1>3, <3>2, <4>1, <4>2, NewEntry
        <4>4. OnePlanPerKey'
          BY <1>1, <1>3, <3>2, <4>1, <4>2, NewEntryKeepsPlans
        <4>5. \A f \in Engine : mine[f] \in 0 .. Len(flight)
          BY DEF IInv, Types, FlightTypes
        <4>6. FlightTypes'
          BY <1>1, <4>3 DEF FlightTypes, IInv, Types
        <4>7. \A f \in Engine :
                 /\ pc[f] = "tune" => key[f] # k /\ flight'[mine[f]] = flight[mine[f]]
                 /\ pc[f] = "wait" => flight'[mine[f]] = flight[mine[f]]
                 /\ pc[f] = "wait" /\ key[f] = k => flight[mine[f]].state = "failed"
          BY <4>3, <4>5 DEF IInv, SingleFlight
        <4>8. SingleFlight'
          <5>1. \A i \in 1 .. Len(flight') : flight'[i].state = "ready" => flight'[i].value \in Tactic
            BY <4>1, <4>3 DEF IInv, SingleFlight
          <5>2. \A f, g \in Engine : pc'[f] = "tune" /\ pc'[g] = "tune" /\ mine'[f] = mine'[g] => f = g
            BY <1>1, <1>4 DEF IInv, SingleFlight
          <5>3. ASSUME NEW f \in Engine
                PROVE  /\ pc[f] \in {"find", "miss", "join", "tune", "wait"} => key[f] \in Key
                       /\ pc[f] = "tune" => /\ mine[f] # 0 /\ flight'[mine[f]].state = "tuning"
                                            /\ entries'[key[f]] = mine[f]
                       /\ pc[f] = "wait" =>
                            /\ mine[f] # 0
                            /\ flight'[mine[f]].state # "failed" => entries'[key[f]] = mine[f]
            BY <4>3, <4>7 DEF IInv, SingleFlight
          <5> QED BY <1>1, <1>4, <5>1, <5>2, <5>3 DEF SingleFlight
        <4> QED BY <4>4, <4>6, <4>8
      <3> QED BY <1>4, <3>1, <3>2
    <2>2. todo' \in [Engine -> SUBSET Key] /\ todo'[e] \subseteq todo[e]
          /\ \A f \in Engine \ {e} : todo'[f] = todo[f]
      BY <1>4 DEF IInv, Types, ControlTypes
    <2>3. OneSession' /\ SessionKnowsFile'
      BY <1>1, <1>2, <1>4, <2>2 DEF IInv, OneSession, SessionKnowsFile, Knows, persist, storage
    <2>4. SavesWhole'
      BY <1>1, <1>4 DEF IInv, SavesWhole, persist, storage
    <2>5. Types'
      BY <1>1, <1>4, <2>1, <2>2 DEF IInv, Types, PersistTypes, ControlTypes, FileTypes, OtherTypes,
           storage, persist
    <2> QED BY <2>1, <2>3, <2>4, <2>5 DEF IInv
  <1>5. CASE /\ Rejected(e, opening.prior) /\ todo' = [todo EXCEPT ![e] = {}]
             /\ UNCHANGED <<flight, entries, session>>
    <2>1. /\ \E p \in {"load", "dead"} : Enter(e, p, "idle")
          /\ frozen' \in BOOLEAN
      BY <1>5 DEF Rejected, IInv, Types, OtherTypes
    <2>2. /\ \A f \in Engine \ {e} : phase'[f] = phase[f] /\ todo'[f] = todo[f]
          /\ pc' = pc /\ phase'[e] \in {"load", "dead"} /\ todo'[e] = {}
          /\ phase' \in [Engine -> {"off", "load", "warm", "serve", "dead"}]
          /\ todo' \in [Engine -> SUBSET Key]
      BY <1>2, <1>5, <2>1 DEF Enter, Goto, IInv, Types, ControlTypes
    <2>3. /\ opening' \in Session
          /\ phase'[e] = "dead" => pmutex' = None
          /\ phase'[e] = "load" => pmutex' = e /\ Knows(opening')
          /\ pmutex' \in Engine \cup {None}
      <3>1. CASE read_only
        <4>1. phase'[e] = "dead"
          BY <1>5, <3>1 DEF Rejected, Enter, IInv, Types, ControlTypes
        <4> QED BY <1>3, <1>5, <3>1, <4>1 DEF Rejected
      <3>2. CASE ~read_only
        <4>1. /\ phase'[e] = "load" /\ pmutex' = e
              /\ opening' = [prior |-> opening.prior, save_allowed |-> FALSE]
          BY <1>5, <3>2 DEF Rejected, Enter, IInv, Types, ControlTypes
        <4> QED BY <1>3, <4>1 DEF Session, Knows
      <3> QED BY <3>1, <3>2
    <2>4. SingleFlight' /\ OnePlanPerKey' /\ FlightTypes'
      BY <1>1, <1>2, <1>5, <2>2, SessionStep DEF SessionLabels, flights
    <2>5. OneSession'
      BY <1>2, <1>5, <2>2, <2>3 DEF IInv, OneSession
    <2>6. SessionKnowsFile'
      BY <1>1, <1>2, <2>2, <2>3 DEF IInv, SessionKnowsFile, Knows, storage
    <2>7. SavesWhole'
      BY <1>1, <1>5, <2>2 DEF IInv, SavesWhole, storage
    <2>8. Types'
      BY <1>1, <1>5, <2>1, <2>2, <2>3, <2>4 DEF IInv, Types, PersistTypes, ControlTypes, FileTypes,
           OtherTypes, storage
    <2> QED BY <2>4, <2>5, <2>6, <2>7, <2>8 DEF IInv
  <1> QED BY <1>4, <1>5 DEF Install, k

LEMMA SessionReadyKeeps ==
    ASSUME IInv, NEW e \in Engine, SessionReady(e)
    PROVE  IInv'
  <1> USE PlanCacheAssumption DEF PlanCacheAssumption
  <1>1. /\ UNCHANGED <<flights, storage, frozen, key, mine, returned, read_only, stops>>
        /\ phase[e] = "load" /\ pmutex' = None /\ session' = opening /\ opening' = NoSession
        /\ todo' = [todo EXCEPT ![e] = WarmKeys[e]] /\ Enter(e, "warm", "idle")
    BY DEF SessionReady
  <1>2. /\ pc[e] = "idle" /\ pmutex = e /\ session = None /\ Knows(opening)
        /\ \A f \in Engine \ {e} : phase[f] \notin {"load", "warm"}
    BY <1>1 DEF IInv, OneSession, SessionKnowsFile
  <1>3. /\ \A f \in Engine \ {e} : phase'[f] = phase[f] /\ todo'[f] = todo[f]
        /\ pc' = pc /\ phase'[e] = "warm"
        /\ phase' \in [Engine -> {"off", "load", "warm", "serve", "dead"}]
        /\ todo' \in [Engine -> SUBSET Key]
    BY <1>1, <1>2 DEF Enter, Goto, IInv, Types, ControlTypes
  <1>4. SingleFlight' /\ OnePlanPerKey' /\ FlightTypes'
    BY <1>1, <1>2, <1>3, SessionStep DEF SessionLabels
  <1>5. session' \in Session /\ session' # None /\ opening' \in Session
    BY <1>1, NoDocIsDoc DEF IInv, Types, PersistTypes, NoSession, Session
  <1>6. OneSession'
    BY <1>1, <1>2, <1>3, <1>5 DEF IInv, OneSession
  <1>7. SessionKnowsFile'
    BY <1>1, <1>2, <1>3 DEF IInv, SessionKnowsFile, Knows, storage
  <1>8. SavesWhole'
    BY <1>1, <1>2, <1>3 DEF IInv, SavesWhole, OneSession, storage
  <1>9. Types'
    BY <1>1, <1>3, <1>4, <1>5 DEF IInv, Types, PersistTypes, ControlTypes, FileTypes, OtherTypes,
         storage, flights
  <1> QED BY <1>4, <1>6, <1>7, <1>8, <1>9 DEF IInv

(* The merge is a document, and drops nothing of the one it starts from. *)
LEMMA MergeKeeps ==
    ASSUME IInv, NEW d \in Doc
    PROVE  Merged(d, Snapshot) \in Doc /\ DOMAIN d \subseteq DOMAIN Merged(d, Snapshot)
  <1>1. Snapshot \in [Ready -> Tactic] /\ Ready \in SUBSET Key
    BY DEF Snapshot, Ready, PlanOf, StateOf, IInv, SingleFlight, Types, FlightTypes
  <1>2. DOMAIN d \in SUBSET Key /\ d \in [DOMAIN d -> Tactic]
    BY DocsMap
  <1> DEFINE K == DOMAIN d \cup Ready
  <1>3. Merged(d, Snapshot) \in [K -> Tactic] /\ K \in SUBSET Key
    BY <1>1, <1>2 DEF Merged
  <1>4. Merged(d, Snapshot) \in Doc
    BY <1>3 DEF Doc
  <1> QED BY <1>3, <1>4

(* What the steps of a save have in common. *)
LEMMA SaveStep ==
    ASSUME IInv, NEW e \in Engine, UNCHANGED <<flights, key, mine, returned, phase, todo>>,
           NEW label \in SessionLabels, Goto(e, label)
    PROVE  /\ SingleFlight' /\ OnePlanPerKey' /\ FlightTypes' /\ ControlTypes'
           /\ pc'[e] = label /\ \A f \in Engine \ {e} : pc'[f] = pc[f]
  <1>1. pc'[e] = label /\ \A f \in Engine \ {e} : pc'[f] = pc[f]
    BY DEF Goto, IInv, Types, ControlTypes
  <1>2. ControlTypes'
    BY DEF Goto, IInv, Types, ControlTypes, SessionLabels
  <1> QED BY <1>1, <1>2, SessionStep

LEMMA CompleteKeeps ==
    ASSUME IInv, NEW e \in Engine, Complete(e)
    PROVE  IInv'
  <1> USE PlanCacheAssumption DEF PlanCacheAssumption
  <1>1. /\ UNCHANGED <<flights, file, old, phase, key, mine, todo, session, frozen, opening,
                       returned, read_only, stops>>
        /\ phase[e] = "warm" /\ pc[e] = "idle" /\ todo[e] = {} /\ pmutex = None
    BY DEF Complete
  <1>2. \A f \in Engine : phase[f] # "load" /\ pc[f] \notin {"fsync", "rename"}
    BY <1>1 DEF IInv, OneSession
  <1>3. session \in Session /\ Knows(session)
    BY <1>1 DEF IInv, OneSession, SessionKnowsFile, Types, PersistTypes
  <1>4. CASE ~read_only /\ session.save_allowed
    <2> DEFINE merged == Merged(session.prior, Snapshot)
    <2>1. temp' = [doc |-> merged, synced |-> FALSE] /\ Goto(e, "fsync") /\ pmutex' = e
      BY <1>4 DEF Complete
    <2>2. merged \in Doc /\ DOMAIN file.doc \subseteq DOMAIN merged
      BY <1>3, <1>4, MergeKeeps DEF Session, Knows
    <2>3. /\ SingleFlight' /\ OnePlanPerKey' /\ FlightTypes' /\ ControlTypes'
          /\ pc'[e] = "fsync" /\ \A f \in Engine \ {e} : pc'[f] = pc[f]
      BY <1>1, <2>1, SaveStep DEF SessionLabels
    <2> HIDE DEF merged
    <2>4. OneSession'
      BY <1>1, <1>2, <2>1, <2>3 DEF IInv, OneSession
    <2>5. SessionKnowsFile'
      BY <1>1, <1>2, <1>3, <2>3 DEF IInv, SessionKnowsFile, Knows
    <2>6. SavesWhole'
      BY <1>1, <1>2, <1>4, <2>1, <2>2, <2>3 DEF IInv, SavesWhole
    <2>7. PersistTypes' /\ FileTypes' /\ OtherTypes'
      BY <1>1, <2>1, <2>2 DEF IInv, Types, PersistTypes, FileTypes, OtherTypes, flights
    <2> QED BY <2>3, <2>4, <2>5, <2>6, <2>7 DEF IInv, Types
  <1>5. CASE ~(~read_only /\ session.save_allowed)
    <2>1. Goto(e, "close") /\ UNCHANGED <<temp, pmutex>>
      BY <1>5 DEF Complete
    <2>2. /\ SingleFlight' /\ OnePlanPerKey' /\ FlightTypes' /\ ControlTypes'
          /\ pc'[e] = "close" /\ \A f \in Engine \ {e} : pc'[f] = pc[f]
      BY <1>1, <2>1, SaveStep DEF SessionLabels
    <2>3. OneSession' /\ SessionKnowsFile' /\ SavesWhole'
      BY <1>1, <1>2, <2>1, <2>2 DEF IInv, OneSession, SessionKnowsFile, SavesWhole, Knows
    <2>4. PersistTypes' /\ FileTypes' /\ OtherTypes'
      BY <1>1, <2>1 DEF IInv, Types, PersistTypes, FileTypes, OtherTypes, flights
    <2> QED BY <2>2, <2>3, <2>4 DEF IInv, Types
  <1> QED BY <1>4, <1>5

LEMMA FsyncKeeps ==
    ASSUME IInv, NEW e \in Engine, Fsync(e)
    PROVE  IInv'
  <1>1. /\ UNCHANGED <<flights, file, old, phase, key, mine, todo, persist, returned, read_only,
                       stops>>
        /\ pc[e] = "fsync" /\ temp' = [temp EXCEPT !.synced = TRUE] /\ Goto(e, "rename")
    BY DEF Fsync
  <1>2. /\ SingleFlight' /\ OnePlanPerKey' /\ FlightTypes' /\ ControlTypes'
        /\ pc'[e] = "rename" /\ \A f \in Engine \ {e} : pc'[f] = pc[f]
    BY <1>1, SaveStep DEF SessionLabels
  <1>3. temp' \in [doc : Doc, synced : BOOLEAN] /\ temp'.doc = temp.doc /\ temp'.synced
    BY <1>1 DEF IInv, Types, FileTypes
  <1>4. OneSession' /\ SessionKnowsFile'
    BY <1>1, <1>2 DEF IInv, OneSession, SessionKnowsFile, Knows, persist
  <1>5. SavesWhole'
    BY <1>1, <1>2, <1>3 DEF IInv, OneSession, SavesWhole, persist
  <1>6. PersistTypes' /\ FileTypes' /\ OtherTypes'
    BY <1>1, <1>3 DEF IInv, Types, PersistTypes, FileTypes, OtherTypes, persist, flights
  <1> QED BY <1>2, <1>4, <1>5, <1>6 DEF IInv, Types

LEMMA SaveFailsKeeps ==
    ASSUME IInv, NEW e \in Engine, SaveFails(e)
    PROVE  IInv'
  <1> USE PlanCacheAssumption DEF PlanCacheAssumption
  <1>1. /\ UNCHANGED <<flights, file, old, phase, key, mine, todo, session, frozen, opening,
                       returned, read_only, stops>>
        /\ pc[e] \in {"fsync", "rename"} /\ temp' = NoTemp /\ pmutex' = None /\ Goto(e, "close")
    BY DEF SaveFails
  <1>2. /\ SingleFlight' /\ OnePlanPerKey' /\ FlightTypes' /\ ControlTypes'
        /\ pc'[e] = "close" /\ \A f \in Engine \ {e} : pc'[f] = pc[f]
    BY <1>1, SaveStep DEF SessionLabels
  <1>3. \A f \in Engine \ {e} : phase[f] # "load" /\ pc[f] \notin {"fsync", "rename"}
    BY <1>1 DEF IInv, OneSession
  <1>4. phase[e] = "warm" /\ todo[e] = {}
    BY <1>1 DEF IInv, OneSession
  <1>5. OneSession' /\ SessionKnowsFile' /\ SavesWhole'
    BY <1>1, <1>2, <1>3, <1>4 DEF IInv, OneSession, SessionKnowsFile, SavesWhole, Knows
  <1>6. PersistTypes' /\ FileTypes' /\ OtherTypes'
    BY <1>1, NoDocIsDoc DEF IInv, Types, PersistTypes, FileTypes, OtherTypes, NoTemp, flights
  <1> QED BY <1>2, <1>5, <1>6 DEF IInv, Types

LEMMA RenameKeeps ==
    ASSUME IInv, NEW e \in Engine, Rename(e)
    PROVE  IInv'
  <1> USE PlanCacheAssumption DEF PlanCacheAssumption
  <1>1. /\ UNCHANGED <<flights, phase, key, mine, todo, session, frozen, opening, returned,
                       read_only, stops>>
        /\ pc[e] = "rename" /\ temp' = NoTemp /\ pmutex' = None /\ Goto(e, "close")
        /\ old' = file /\ file' = [kind |-> "doc", doc |-> temp.doc, synced |-> temp.synced]
    BY DEF Rename, File
  <1>2. /\ SingleFlight' /\ OnePlanPerKey' /\ FlightTypes' /\ ControlTypes'
        /\ pc'[e] = "close" /\ \A f \in Engine \ {e} : pc'[f] = pc[f]
    BY <1>1, SaveStep DEF SessionLabels
  <1>3. \A f \in Engine \ {e} : phase[f] \notin {"load", "warm"} /\ pc[f] \notin {"fsync", "rename"}
    BY <1>1 DEF IInv, OneSession
  <1>4. phase[e] = "warm" /\ todo[e] = {} /\ temp.synced
    BY <1>1 DEF IInv, OneSession, SavesWhole
  <1>5. OneSession' /\ SessionKnowsFile' /\ SavesWhole'
    BY <1>1, <1>2, <1>3, <1>4 DEF IInv, OneSession, SessionKnowsFile, SavesWhole, Knows
  <1>6. PersistTypes' /\ FileTypes' /\ OtherTypes'
    BY <1>1, NoDocIsDoc DEF IInv, Types, PersistTypes, FileTypes, FileType, OtherTypes, NoTemp, flights
  <1> QED BY <1>2, <1>5, <1>6 DEF IInv, Types

LEMMA EndKeeps ==
    ASSUME IInv, NEW e \in Engine, Close(e) \/ Cancel(e)
    PROVE  IInv'
  <1> USE PlanCacheAssumption DEF PlanCacheAssumption
  <1>1. /\ UNCHANGED <<flights, storage, key, mine, pmutex, opening, returned, read_only, stops>>
        /\ pc[e] \in {"close", "cancel"} /\ pmutex = None /\ session' = None
        /\ \E p \in {"serve", "dead"} : Enter(e, p, "idle")
        /\ frozen' \in BOOLEAN
    BY DEF Close, Cancel, IInv, Types, PersistTypes
  <1>2. /\ todo' \in [Engine -> SUBSET Key] /\ todo'[e] = {}
        /\ \A f \in Engine \ {e} : todo'[f] = todo[f]
    <2>1. CASE Close(e)
      BY <2>1 DEF Close, IInv, OneSession, Types, ControlTypes
    <2>2. CASE Cancel(e)
      BY <2>2 DEF Cancel, IInv, Types, ControlTypes
    <2> QED BY <2>1, <2>2
  <1>3. /\ pc'[e] = "idle" /\ \A f \in Engine \ {e} : pc'[f] = pc[f] /\ phase'[f] = phase[f]
        /\ phase'[e] \in {"serve", "dead"} /\ ControlTypes'
    BY <1>1, <1>2 DEF Enter, Goto, IInv, Types, ControlTypes
  <1>4. /\ phase[e] = "warm"
        /\ \A f \in Engine \ {e} : phase[f] \notin {"load", "warm"}
    BY <1>1 DEF IInv, OneSession
  <1>5. SingleFlight' /\ OnePlanPerKey' /\ FlightTypes'
    BY <1>1, <1>3, SessionStep DEF SessionLabels
  <1>6. OneSession' /\ SessionKnowsFile'
    BY <1>1, <1>2, <1>3, <1>4 DEF IInv, OneSession, SessionKnowsFile, Knows, storage
  <1>7. SavesWhole'
    BY <1>1, <1>3, <1>4 DEF IInv, OneSession, SavesWhole, storage
  <1>8. PersistTypes' /\ FileTypes' /\ OtherTypes'
    BY <1>1 DEF IInv, Types, PersistTypes, FileTypes, OtherTypes, storage, flights
  <1> QED BY <1>3, <1>5, <1>6, <1>7, <1>8 DEF IInv, Types

(* A kill, or a power loss: memory is gone, the file is one of two. *)
LEMMA StopKeeps ==
    ASSUME IInv, Kill \/ PowerLoss
    PROVE  IInv'
  <1> USE PlanCacheAssumption DEF PlanCacheAssumption
  <1>1. Restart
    BY DEF Kill, PowerLoss
  <1>2. NoSession \in Session /\ NoTemp \in [doc : Doc, synced : BOOLEAN]
    BY NoDocIsDoc DEF NoSession, NoTemp, Session
  <1>3. /\ file' \in FileType /\ file'.kind # "torn" /\ file'.synced
        /\ old' \in FileType /\ old'.kind # "torn" /\ old'.synced
    <2>1. /\ file \in FileType /\ file.kind # "torn" /\ file.synced
          /\ old \in FileType /\ old.kind # "torn" /\ old.synced
      BY DEF IInv, SavesWhole, Types, FileTypes
    <2>2. CASE Kill
      BY <2>1, <2>2 DEF Kill
    <2>3. CASE PowerLoss /\ file' = file
      BY <2>1, <2>3 DEF PowerLoss
    <2>4. CASE PowerLoss /\ file' = old
      BY <2>1, <2>4 DEF PowerLoss
    <2> QED BY <2>1, <2>2, <2>3, <2>4 DEF PowerLoss
  <1>4. FlightTypes'
    BY <1>1 DEF Restart, FlightTypes
  <1>5. PersistTypes'
    BY <1>1, <1>2 DEF Restart, PersistTypes
  <1>6. ControlTypes'
    BY <1>1 DEF Restart, ControlTypes
  <1>7. OtherTypes'
    BY <1>1 DEF Restart, IInv, Types, OtherTypes
  <1>8. FileTypes'
    BY <1>1, <1>2, <1>3 DEF Restart, FileTypes
  <1>9. OneSession' /\ SingleFlight' /\ OnePlanPerKey' /\ SessionKnowsFile'
    BY <1>1 DEF Restart, OneSession, SingleFlight, OnePlanPerKey, SessionKnowsFile
  <1>10. SavesWhole'
    BY <1>1, <1>3 DEF Restart, SavesWhole
  <1> QED BY <1>4, <1>5, <1>6, <1>7, <1>8, <1>9, <1>10 DEF IInv, Types

LEMMA NextIInv == IInv /\ [Next]_vars => IInv'
  <1> SUFFICES ASSUME IInv, [Next]_vars PROVE IInv'
    OBVIOUS
  <1>1. CASE UNCHANGED vars
    <2>1. Types'
      BY <1>1 DEF IInv, Types, FlightTypes, PersistTypes, ControlTypes, FileTypes, OtherTypes,
           vars, flights, storage, control, persist
    <2>2. OneSession' /\ SingleFlight'
      BY <1>1 DEF IInv, OneSession, SingleFlight, vars, flights, control, persist
    <2>3. OnePlanPerKey'
      BY <1>1, SamePlans DEF vars, flights
    <2>4. SessionKnowsFile' /\ SavesWhole'
      BY <1>1 DEF IInv, SessionKnowsFile, Knows, SavesWhole, vars, storage, control, persist
    <2> QED BY <2>1, <2>2, <2>3, <2>4 DEF IInv
  <1>2. ASSUME NEW e \in Engine, Loads(e) PROVE IInv'
    BY <1>2, BeginSessionKeeps, InstallKeeps, SessionReadyKeeps DEF Loads
  <1>3. ASSUME NEW e \in Engine, Resolve(e) PROVE IInv'
    BY <1>3, ResolveKeeps
  <1>4. ASSUME NEW e \in Engine, Resolves(e) PROVE IInv'
    BY <1>4, FindReadyKeeps, MissKeeps, CaptureMissKeeps, GetOrTuneKeeps, TunedKeeps,
       TuneFailsKeeps, AnsweredKeeps DEF Resolves
  <1>5. ASSUME NEW e \in Engine, Saves(e) PROVE IInv'
    BY <1>5, CompleteKeeps, FsyncKeeps, SaveFailsKeeps, RenameKeeps, EndKeeps DEF Saves
  <1>6. CASE Kill \/ PowerLoss
    BY <1>6, StopKeeps
  <1> QED BY <1>1, <1>2, <1>3, <1>4, <1>5, <1>6 DEF Next

(* The inductive invariant holds of every run. *)
THEOREM Invariance == Spec => []IInv
  <1> QED BY InitIInv, NextIInv, PTL DEF Spec

(* The state's types. *)
THEOREM TypeCorrect == Spec => []TypeInv
  <1>1. IInv => TypeInv
    BY TypesAreTypeInv DEF IInv
  <1> QED BY <1>1, Invariance, PTL

(* However engines race for a plan, by a hit, a tuning, a wait or the file *)
(* (FindReady, GetOrTune, InsertReadyIfAbsent), the process has one.       *)
THEOREM PlansAreOne == Spec => []OnePlanPerKey
  <1>1. IInv => OnePlanPerKey
    BY DEF IInv
  <1> QED BY <1>1, Invariance, PTL

(* Whenever the process stops, the file is a whole document or what was    *)
(* there before (WriteNativeCacheAtomically).                              *)
THEOREM FileStaysWhole == Spec => []FileIsWhole
  <1>1. IInv => FileIsWhole
    BY DEF IInv, SavesWhole, FileIsWhole
  <1> QED BY <1>1, Invariance, PTL

----------------------------------------------------------------------------
(* The file and the plans that are live.  A plan in the file is live with  *)
(* the tactic the file has, once an engine warms up or serves; until its   *)
(* import it is not live at all.  So no import meets a key that is being   *)
(* tuned, and what a save writes of an old plan is what it was.            *)
FileIsLive ==
    /\ file.kind # "doc" => DOMAIN file.doc = {}
    /\ old.kind # "doc" => DOMAIN old.doc = {}
    /\ \A k \in DOMAIN file.doc :
         StateOf(k) = "none" \/ (k \in Ready /\ PlanOf(k) = file.doc[k])
    /\ \A e \in Engine :
         /\ phase[e] = "load" => opening.prior = file.doc /\ DOMAIN file.doc \ todo[e] \subseteq Ready
         /\ phase[e] \in {"warm", "serve"} => DOMAIN file.doc \subseteq Ready
         /\ pc[e] \in {"fsync", "rename"} =>
              \A k \in DOMAIN temp.doc : k \in Ready /\ PlanOf(k) = temp.doc[k]

(* What is ready stays so, with its plan. *)
ReadyStays == \A k \in Ready : k \in Ready' /\ PlanOf(k)' = PlanOf(k)

LEMMA FileKeys == IInv => DOMAIN file.doc \in SUBSET Key /\ DOMAIN temp.doc \in SUBSET Key
  BY DocsMap DEF IInv, Types, FileTypes, FileType

LEMMA InitLive == Init => FileIsLive
  <1> SUFFICES ASSUME Init PROVE FileIsLive
    OBVIOUS
  <1>1. DOMAIN NoDoc = {}
    BY DEF NoDoc
  <1>2. file.kind # "doc" => DOMAIN file.doc = {}
    <2>1. ASSUME NEW d \in Doc, file = File("doc", d, TRUE) PROVE file.kind = "doc"
      BY <2>1 DEF File
    <2>2. ASSUME NEW kind, file = File(kind, NoDoc, TRUE) PROVE DOMAIN file.doc = {}
      BY <1>1, <2>2 DEF File
    <2> QED BY <2>1, <2>2 DEF Init
  <1>3. \A k \in DOMAIN file.doc : StateOf(k) = "none"
    <2>1. DOMAIN file.doc \in SUBSET Key
      BY InitIInv, FileKeys
    <2> QED BY <2>1 DEF Init, StateOf
  <1> QED BY <1>2, <1>3 DEF Init, FileIsLive

LEMMA SameReady == UNCHANGED <<entries, flight>> => ReadyStays
  BY DEF ReadyStays, Ready, StateOf, PlanOf

(* A step of a warming or serving engine that leaves the file alone.       *)
LEMMA ServingLive ==
    ASSUME IInv, FileIsLive, NEW e \in Engine, phase[e] \in {"warm", "serve"}, ReadyStays,
           UNCHANGED <<storage, opening>>,
           \A f \in Engine : /\ phase'[f] = "load" => phase[f] = "load" /\ todo'[f] = todo[f]
                             /\ pc'[f] \in {"fsync", "rename"} => pc[f] \in {"fsync", "rename"}
    PROVE  FileIsLive'
  <1>1. DOMAIN file.doc \subseteq Ready
    BY DEF FileIsLive
  <1>2. \A k \in DOMAIN file.doc : k \in Ready' /\ PlanOf(k)' = file.doc[k]
    <2>1. \A k \in Ready : StateOf(k) # "none"
      BY DEF Ready
    <2> QED BY <1>1, <2>1 DEF FileIsLive, ReadyStays
  <1>3. \A f \in Engine : pc'[f] \in {"fsync", "rename"} =>
            \A k \in DOMAIN temp.doc : k \in Ready' /\ PlanOf(k)' = temp.doc[k]
    BY DEF FileIsLive, ReadyStays
  <1>4. file' = file /\ old' = old /\ temp' = temp /\ opening' = opening
    BY DEF storage
  <1> QED BY <1>2, <1>3, <1>4 DEF FileIsLive

LEMMA ResolvesLive ==
    ASSUME IInv, FileIsLive, NEW e \in Engine, Resolve(e) \/ Resolves(e)
    PROVE  FileIsLive'
  <1>1. UNCHANGED <<storage, persist>>
    BY DEF Resolve, Resolves, FindReady, Miss, CaptureMiss, GetOrTune, Tuned, TuneFails, Answered
  <1>2. phase[e] \in {"warm", "serve"}
    <2>1. CASE Resolve(e)
      BY <2>1 DEF Resolve
    <2>2. CASE Resolves(e)
      <3>1. pc[e] # "idle"
        BY <2>2 DEF Resolves, FindReady, Miss, CaptureMiss, GetOrTune, Tuned, TuneFails, Answered
      <3> QED BY <3>1 DEF IInv, OneSession, Types, ControlTypes
    <2> QED BY <2>1, <2>2
  <1>3. /\ \E p \in {phase[e], "dead"} : phase' = [phase EXCEPT ![e] = p]
        /\ \E l \in {"idle", "find", "miss", "join", "tune", "wait", "cancel"} :
             pc' = [pc EXCEPT ![e] = l]
        /\ \A f \in Engine \ {e} : todo'[f] = todo[f]
    <2>1. phase' = phase => phase' = [phase EXCEPT ![e] = phase[e]]
      BY DEF IInv, Types, ControlTypes
    <2>2. CASE Resolve(e)
      BY <2>1, <2>2 DEF Resolve, Goto
    <2>3. ASSUME NEW v, Give(e, v)
          PROVE  /\ phase' = phase /\ pc' = [pc EXCEPT ![e] = "idle"]
                 /\ \A f \in Engine \ {e} : todo'[f] = todo[f]
      BY <2>3 DEF Give, Goto, IInv, Types, ControlTypes
    <2>4. ASSUME Throw(e)
          PROVE  /\ phase' = phase \/ phase' = [phase EXCEPT ![e] = "dead"]
                 /\ pc' = [pc EXCEPT ![e] = "idle"] \/ pc' = [pc EXCEPT ![e] = "cancel"]
                 /\ todo' = todo
      BY <2>4 DEF Throw, Goto, Enter
    <2>5. CASE FindReady(e)
      BY <2>1, <2>3, <2>5 DEF FindReady, Goto
    <2>6. CASE Miss(e)
      BY <2>1, <2>4, <2>6 DEF Miss, Goto
    <2>7. CASE CaptureMiss(e)
      BY <2>1, <2>4, <2>7 DEF CaptureMiss
    <2>8. CASE GetOrTune(e)
      BY <2>1, <2>8 DEF GetOrTune, Goto
    <2>9. CASE Tuned(e)
      BY <2>1, <2>3, <2>9 DEF Tuned
    <2>10. CASE TuneFails(e)
      BY <2>1, <2>4, <2>10 DEF TuneFails
    <2>11. CASE Answered(e)
      BY <2>1, <2>3, <2>4, <2>11 DEF Answered
    <2> QED BY <2>2, <2>5, <2>6, <2>7, <2>8, <2>9, <2>10, <2>11 DEF Resolves
  <1>4. \A f \in Engine : /\ phase'[f] = "load" => phase[f] = "load" /\ todo'[f] = todo[f]
                          /\ pc'[f] \in {"fsync", "rename"} => pc[f] \in {"fsync", "rename"}
    BY <1>2, <1>3 DEF IInv, Types, ControlTypes
  <1>5. ReadyStays
    <2>1. CASE UNCHANGED <<entries, flight>>
      BY <2>1, SameReady
    <2>2. CASE GetOrTune(e) /\ StateOf(key[e]) = "none"
      <3> DEFINE x == [state |-> "tuning", value |-> None]
      <3>1. key[e] \in Key /\ x \in EntryType
        BY <2>2 DEF GetOrTune, IInv, SingleFlight, EntryType
      <3>2. flight' = Append(flight, x) /\ entries' = [entries EXCEPT ![key[e]] = Len(flight) + 1]
        BY <2>2 DEF GetOrTune
      <3> HIDE DEF x
      <3>3. /\ \A i \in 1 .. Len(flight) : flight'[i] = flight[i]
            /\ \A l \in Key \ {key[e]} : entries'[l] = entries[l]
        BY <2>2, <3>1, <3>2, NewEntry
      <3>4. key[e] \notin Ready
        BY <2>2 DEF Ready
      <3>5. \A k \in Ready : k \in Key /\ entries[k] \in 1 .. Len(flight)
        BY DEF Ready, StateOf, IInv, Types, FlightTypes
      <3> QED BY <3>3, <3>4, <3>5 DEF ReadyStays, Ready, StateOf, PlanOf
    <2>3. CASE Tuned(e) \/ TuneFails(e)
      <3>1. PICK x \in EntryType : flight' = [flight EXCEPT ![mine[e]] = x]
        <4>1. CASE Tuned(e)
          BY <4>1 DEF Tuned, EntryType
        <4>2. CASE TuneFails(e)
          <5>1. flight[mine[e]] \in EntryType
            BY <4>2 DEF TuneFails, IInv, SingleFlight, Types, FlightTypes
          <5>2. [flight[mine[e]] EXCEPT !.state = "failed"] \in EntryType
            BY <5>1 DEF EntryType
          <5> QED BY <4>2, <5>2 DEF TuneFails
        <4> QED BY <2>3, <4>1, <4>2
      <3>2. pc[e] = "tune"
        BY <2>3 DEF Tuned, TuneFails
      <3>3. /\ entries[key[e]] = mine[e]
            /\ \A i \in 1 .. Len(flight) : i # mine[e] => flight'[i] = flight[i]
        BY <3>1, <3>2, TuningEnds
      <3>4. flight[mine[e]].state = "tuning"
        BY <3>2 DEF IInv, SingleFlight
      <3>5. \A k \in Ready : k \in Key /\ entries[k] \in 1 .. Len(flight) /\ entries[k] # mine[e]
        BY <3>4 DEF Ready, StateOf, IInv, Types, FlightTypes
      <3>6. \A k \in Ready : entries'[k] = entries[k]
        <4>1. CASE Tuned(e)
          BY <4>1 DEF Tuned
        <4>2. CASE TuneFails(e)
          <5>1. \A k \in Ready : k # key[e]
            BY <3>3, <3>5
          <5> QED BY <3>5, <4>2, <5>1 DEF TuneFails, IInv, Types, FlightTypes
        <4> QED BY <2>3, <4>1, <4>2
      <3> QED BY <3>3, <3>5, <3>6 DEF ReadyStays, Ready, StateOf, PlanOf
    <2> QED BY <2>1, <2>2, <2>3
        DEF Resolve, Resolves, FindReady, Miss, CaptureMiss, GetOrTune, Answered, flights
  <1> QED BY <1>1, <1>2, <1>4, <1>5, ServingLive DEF persist

(* A step of a load, a save or their end that leaves the plans alone.      *)
LEMMA SessionLive ==
    ASSUME IInv, FileIsLive, UNCHANGED <<entries, flight, file, old>>,
           \A f \in Engine :
             /\ phase'[f] = "load" =>
                  opening'.prior = file.doc /\ DOMAIN file.doc \ todo'[f] \subseteq Ready
             /\ phase'[f] \in {"warm", "serve"} => DOMAIN file.doc \subseteq Ready
             /\ pc'[f] \in {"fsync", "rename"} =>
                  \A k \in DOMAIN temp'.doc : k \in Ready /\ PlanOf(k) = temp'.doc[k]
    PROVE  FileIsLive'
  <1>1. /\ Ready' = Ready /\ \A k : StateOf(k)' = StateOf(k) /\ PlanOf(k)' = PlanOf(k)
    BY DEF Ready, StateOf, PlanOf
  <1> QED BY <1>1 DEF FileIsLive

LEMMA BeginSessionLive ==
    ASSUME IInv, FileIsLive, NEW e \in Engine, BeginSession(e)
    PROVE  FileIsLive'
  <1>1. /\ UNCHANGED <<entries, flight, file, old, temp>>
        /\ phase[e] \in {"off", "dead"} /\ pc[e] = "idle" /\ todo[e] = {} /\ pmutex = None
    BY DEF BeginSession, flights, storage, IInv, OneSession
  <1>2. \A f \in Engine : phase[f] # "load"
    BY <1>1, PlanCacheAssumption DEF IInv, OneSession, PlanCacheAssumption
  <1>3. \E p \in {"load", "dead"} : Enter(e, p, "idle")
    BY DEF BeginSession, Rejected
  <1>4. /\ \A f \in Engine \ {e} : phase'[f] = phase[f]
        /\ phase'[e] \in {"load", "dead"} /\ pc' = pc
    BY <1>1, <1>3 DEF Enter, Goto, IInv, Types, ControlTypes
  <1>5. phase'[e] = "load" => opening'.prior = file.doc /\ DOMAIN file.doc \ todo'[e] = {}
    <2>1. CASE session # None /\ Enter(e, "dead", "idle")
      BY <2>1 DEF Enter, IInv, Types, ControlTypes
    <2>2. CASE /\ opening' = [prior |-> file.doc, save_allowed |-> TRUE]
               /\ todo' = [todo EXCEPT ![e] = DOMAIN file.doc]
      BY <2>2 DEF IInv, Types, ControlTypes
    <2>3. CASE file.kind \in {"foreign", "torn"} /\ Rejected(e, NoDoc)
      <3>1. DOMAIN file.doc = {}
        BY <2>3 DEF FileIsLive
      <3>2. file.doc = NoDoc
        <4>1. file.doc \in [{} -> Tactic]
          BY <3>1, DocsMap DEF IInv, Types, FileTypes, FileType
        <4> QED BY <4>1 DEF NoDoc
      <3>3. CASE read_only
        BY <2>3, <3>3 DEF Rejected, Enter, IInv, Types, ControlTypes
      <3>4. CASE ~read_only
        BY <2>3, <3>1, <3>2, <3>4 DEF Rejected
      <3> QED BY <3>3, <3>4
    <2> QED BY <2>1, <2>2, <2>3 DEF BeginSession
  <1>6. \A f \in Engine : /\ phase[f] \in {"warm", "serve"} => DOMAIN file.doc \subseteq Ready
                          /\ pc[f] \in {"fsync", "rename"} =>
                               \A k \in DOMAIN temp.doc : k \in Ready /\ PlanOf(k) = temp.doc[k]
    BY DEF FileIsLive
  <1>7. \A f \in Engine : phase'[f] = "load" => f = e
    BY <1>2, <1>4
  <1> QED BY <1>1, <1>4, <1>5, <1>6, <1>7, SessionLive

(* A plan of the file is not live, or is live as the file has it. *)
LEMMA LiveAt ==
    ASSUME FileIsLive, NEW k \in DOMAIN file.doc
    PROVE  \/ StateOf(k) = "none"
           \/ k \in Key /\ StateOf(k) = "ready" /\ k \in Ready /\ PlanOf(k) = file.doc[k]
  <1>1. StateOf(k) = "none" \/ (k \in Ready /\ PlanOf(k) = file.doc[k])
    BY DEF FileIsLive
  <1>2. ASSUME k \in Ready PROVE k \in Key /\ StateOf(k) = "ready"
    BY <1>2 DEF Ready
  <1> QED BY <1>1, <1>2

LEMMA InstallLive ==
    ASSUME IInv, FileIsLive, NEW e \in Engine, Install(e)
    PROVE  FileIsLive'
  <1>1. /\ UNCHANGED storage /\ phase[e] = "load" /\ todo[e] # {}
    BY DEF Install
  <1>2. /\ todo[e] \subseteq DOMAIN file.doc /\ opening.prior = file.doc
        /\ DOMAIN file.doc \ todo[e] \subseteq Ready
        /\ \A f \in Engine : phase[f] = "load" => f = e
        /\ \A f \in Engine : pc[f] \notin {"fsync", "rename"}
        /\ \A f \in Engine : phase[f] # "warm"
    BY <1>1 DEF IInv, OneSession, SessionKnowsFile, FileIsLive
  <1>3. PICK k \in Key : k = First(todo[e]) /\ k \in todo[e] /\ k \in DOMAIN file.doc
    BY <1>1, <1>2, FirstIsIn DEF IInv, Types, ControlTypes
  <1>4. \/ StateOf(k) = "none"
        \/ StateOf(k) = "ready" /\ k \in Ready /\ PlanOf(k) = file.doc[k]
    BY <1>3, LiveAt
  <1>5. /\ UNCHANGED <<persist, phase, pc>> /\ todo' = [todo EXCEPT ![e] = @ \ {k}]
        /\ \/ /\ StateOf(k) = "none"
              /\ flight' = Append(flight, [state |-> "ready", value |-> file.doc[k]])
              /\ entries' = [entries EXCEPT ![k] = Len(flight) + 1]
           \/ k \in Ready /\ UNCHANGED <<flight, entries>>
    BY <1>2, <1>3, <1>4 DEF Install
  <1>6. ReadyStays /\ k \in Ready' /\ PlanOf(k)' = file.doc[k]
        /\ \A l \in DOMAIN file.doc \ {k} : 
              StateOf(l)' = StateOf(l) /\ (StateOf(l) = "ready" => PlanOf(l)' = PlanOf(l))
    <2>1. DOMAIN file.doc \subseteq Key
      BY FileKeys
    <2>2. CASE k \in Ready /\ UNCHANGED <<flight, entries>>
      <3>1. \A l : StateOf(l)' = StateOf(l) /\ PlanOf(l)' = PlanOf(l)
        BY <2>2 DEF StateOf, PlanOf
      <3>2. PlanOf(k) = file.doc[k]
        <4>1. StateOf(k) # "none"
          BY <2>2 DEF Ready
        <4> QED BY <1>4, <4>1
      <3> QED BY <2>2, <3>1, <3>2, SameReady DEF ReadyStays
    <2>3. CASE /\ StateOf(k) = "none"
               /\ flight' = Append(flight, [state |-> "ready", value |-> file.doc[k]])
               /\ entries' = [entries EXCEPT ![k] = Len(flight) + 1]
      <3> DEFINE x == [state |-> "ready", value |-> file.doc[k]]
      <3>1. x \in EntryType /\ x.state = "ready" /\ x.value = file.doc[k]
        <4>1. file.doc[k] \in Tactic
          BY <1>3, DocsMap DEF IInv, Types, FileTypes, FileType
        <4> QED BY <4>1 DEF EntryType
      <3>2. flight' = Append(flight, x)
        BY <2>3
      <3> HIDE DEF x
      <3>3. /\ Len(flight) \in Nat
            /\ flight'[Len(flight) + 1] = x /\ entries'[k] = Len(flight) + 1
            /\ \A i \in 1 .. Len(flight) : flight'[i] = flight[i]
            /\ \A l \in Key \ {k} : entries'[l] = entries[l]
        BY <1>3, <2>3, <3>1, <3>2, NewEntry
      <3>4. k \in Ready' /\ PlanOf(k)' = file.doc[k]
        <4>1. entries'[k] # 0 /\ flight'[entries'[k]] = x
          BY <3>3
        <4>2. StateOf(k)' = "ready"
          BY <3>1, <4>1 DEF StateOf
        <4>3. PlanOf(k)' = file.doc[k]
          BY <3>1, <4>1 DEF PlanOf
        <4> QED BY <1>3, <4>2, <4>3 DEF Ready
      <3>5. \A l \in Key \ {k} : entries[l] \in 0 .. Len(flight) /\ entries'[l] = entries[l]
        BY <3>3 DEF IInv, Types, FlightTypes
      <3>6. \A l \in Key \ {k} : StateOf(l)' = StateOf(l)
        BY <3>3, <3>5 DEF StateOf
      <3>7. \A l \in Key \ {k} : entries[l] # 0 => PlanOf(l)' = PlanOf(l)
        BY <3>3, <3>5 DEF PlanOf
      <3>8. k \notin Ready /\ \A l \in Ready : l \in Key /\ entries[l] # 0
        BY <2>3 DEF Ready, StateOf
      <3>9. ReadyStays
        BY <3>6, <3>7, <3>8 DEF ReadyStays, Ready
      <3>10. ASSUME NEW l \in DOMAIN file.doc \ {k}
             PROVE  StateOf(l)' = StateOf(l) /\ (StateOf(l) = "ready" => PlanOf(l)' = PlanOf(l))
        BY <2>1, <3>6, <3>7 DEF StateOf
      <3> QED BY <3>4, <3>9, <3>10
    <2> QED BY <1>5, <2>2, <2>3
  <1>7. /\ todo'[e] = todo[e] \ {k} /\ \A f \in Engine : phase'[f] = phase[f] /\ pc'[f] = pc[f]
        /\ opening' = opening /\ file' = file /\ old' = old
    BY <1>1, <1>5 DEF storage, persist, IInv, Types, ControlTypes
  <1>8. \A l \in DOMAIN file.doc : StateOf(l)' = "none" \/ (l \in Ready' /\ PlanOf(l)' = file.doc[l])
    <2>1. \A l \in DOMAIN file.doc \ {k} :
             StateOf(l) = "none" \/ (l \in Key /\ StateOf(l) = "ready" /\ PlanOf(l) = file.doc[l])
      BY LiveAt
    <2>2. \A l \in DOMAIN file.doc \ {k} :
             StateOf(l)' = "none" \/ (l \in Ready' /\ PlanOf(l)' = file.doc[l])
      <3> SUFFICES ASSUME NEW l \in DOMAIN file.doc \ {k}
                   PROVE  StateOf(l)' = "none" \/ (l \in Ready' /\ PlanOf(l)' = file.doc[l])
        OBVIOUS
      <3>1. StateOf(l)' = StateOf(l) /\ (StateOf(l) = "ready" => PlanOf(l)' = PlanOf(l))
        BY <1>6
      <3>2. l \in Ready => l \in Ready'
        BY <1>6 DEF ReadyStays
      <3> QED BY <3>1, <3>2, LiveAt
    <2> QED BY <1>6, <2>2
  <1>9. DOMAIN file.doc \ todo'[e] \subseteq Ready'
    BY <1>2, <1>6, <1>7 DEF ReadyStays
  <1>10. \A f \in Engine : phase[f] = "serve" => DOMAIN file.doc \subseteq Ready'
    BY <1>6 DEF FileIsLive, ReadyStays
  <1> QED BY <1>2, <1>7, <1>8, <1>9, <1>10 DEF FileIsLive

LEMMA SessionReadyLive ==
    ASSUME IInv, FileIsLive, NEW e \in Engine, SessionReady(e)
    PROVE  FileIsLive'
  <1>1. /\ UNCHANGED <<entries, flight, file, old, temp>>
        /\ phase[e] = "load" /\ todo[e] = {} /\ Enter(e, "warm", "idle")
    BY DEF SessionReady, flights, storage
  <1>2. DOMAIN file.doc \subseteq Ready
    BY <1>1 DEF FileIsLive
  <1>3. /\ \A f \in Engine \ {e} : phase'[f] = phase[f] /\ pc'[f] = pc[f] /\ phase[f] # "load"
        /\ phase'[e] = "warm" /\ pc'[e] = "idle"
    BY <1>1 DEF Enter, Goto, IInv, OneSession, Types, ControlTypes
  <1>4. \A f \in Engine : pc'[f] \in {"fsync", "rename"} =>
           \A k \in DOMAIN temp.doc : k \in Ready /\ PlanOf(k) = temp.doc[k]
    BY <1>3 DEF FileIsLive
  <1> QED BY <1>1, <1>2, <1>3, <1>4, SessionLive

LEMMA CompleteLive ==
    ASSUME IInv, FileIsLive, NEW e \in Engine, Complete(e)
    PROVE  FileIsLive'
  <1>1. /\ UNCHANGED <<entries, flight, file, old, phase, todo, opening>>
        /\ phase[e] = "warm" /\ pc[e] = "idle" /\ pmutex = None
    BY DEF Complete, flights
  <1>2. /\ DOMAIN file.doc \subseteq Ready
        /\ \A f \in Engine : phase[f] # "load" /\ pc[f] \notin {"fsync", "rename"}
    BY <1>1, PlanCacheAssumption DEF FileIsLive, IInv, OneSession, PlanCacheAssumption
  <1>3. /\ pc'[e] = "fsync" => session.save_allowed /\ temp'.doc = Merged(session.prior, Snapshot)
        /\ \A f \in Engine \ {e} : pc'[f] = pc[f]
    BY <1>1 DEF Complete, Goto, IInv, Types, ControlTypes
  <1>4. pc'[e] # "rename"
    BY <1>1 DEF Complete, Goto, IInv, Types, ControlTypes
  <1>5. pc'[e] = "fsync" => \A k \in DOMAIN temp'.doc : k \in Ready /\ PlanOf(k) = temp'.doc[k]
    <2> SUFFICES ASSUME pc'[e] = "fsync"
                 PROVE  \A k \in DOMAIN temp'.doc : k \in Ready /\ PlanOf(k) = temp'.doc[k]
      OBVIOUS
    <2>1. session.prior = file.doc
      BY <1>1, <1>3 DEF IInv, SessionKnowsFile, Knows
    <2>2. DOMAIN Snapshot = Ready /\ \A k \in Ready : Snapshot[k] = PlanOf(k)
      BY DEF Snapshot
    <2>3. DOMAIN session.prior \cup Ready = Ready
      BY <1>2, <2>1
    <2>4. temp'.doc = [k \in Ready |-> Snapshot[k]]
      BY <1>3, <2>2, <2>3 DEF Merged
    <2> QED BY <2>2, <2>4
  <1>6. \A f \in Engine : pc'[f] \in {"fsync", "rename"} =>
           \A k \in DOMAIN temp'.doc : k \in Ready /\ PlanOf(k) = temp'.doc[k]
    BY <1>2, <1>3, <1>4, <1>5
  <1> QED BY <1>1, <1>2, <1>6, SessionLive DEF FileIsLive

(* fsync, a failed save, and the end of a session change neither plans nor *)
(* the file.                                                               *)
LEMMA EndsLive ==
    ASSUME IInv, FileIsLive, NEW e \in Engine, Fsync(e) \/ SaveFails(e) \/ Close(e) \/ Cancel(e)
    PROVE  FileIsLive'
  <1>1. /\ UNCHANGED <<entries, flight, file, old, opening>>
        /\ pc[e] \in {"fsync", "rename", "close", "cancel"}
    BY DEF Fsync, SaveFails, Close, Cancel, flights, storage, persist
  <1>2. phase[e] = "warm" /\ \A f \in Engine \ {e} : phase[f] # "load"
    BY <1>1 DEF IInv, OneSession
  <1>3. \A f \in Engine \ {e} : phase'[f] = phase[f] /\ pc'[f] = pc[f]
    BY DEF Fsync, SaveFails, Close, Cancel, Goto, Enter, IInv, Types, ControlTypes
  <1>4. phase'[e] \in {"warm", "serve", "dead"}
    BY <1>2 DEF Fsync, SaveFails, Close, Cancel, Goto, Enter, IInv, Types, ControlTypes
  <1>5. \A f \in Engine : pc'[f] \in {"fsync", "rename"} =>
           \A k \in DOMAIN temp'.doc : k \in Ready /\ PlanOf(k) = temp'.doc[k]
    <2>1. CASE Fsync(e)
      <3>1. temp'.doc = temp.doc
        BY <2>1 DEF Fsync, IInv, Types, FileTypes
      <3>2. pc[e] = "fsync"
        BY <2>1 DEF Fsync
      <3> QED BY <1>3, <3>1, <3>2 DEF FileIsLive
    <2>2. CASE SaveFails(e)
      <3>1. pc'[e] = "close" /\ pc[e] \in {"fsync", "rename"}
        BY <2>2 DEF SaveFails, Goto, IInv, Types, ControlTypes
      <3>2. \A f \in Engine \ {e} : pc[f] \notin {"fsync", "rename"}
        BY <3>1 DEF IInv, OneSession
      <3> QED BY <1>3, <3>1, <3>2
    <2>3. CASE Close(e) \/ Cancel(e)
      <3>1. pc'[e] = "idle" /\ temp' = temp
        BY <2>3 DEF Close, Cancel, Enter, Goto, storage, IInv, Types, ControlTypes
      <3> QED BY <1>3, <3>1 DEF FileIsLive
    <2> QED BY <2>1, <2>2, <2>3
  <1>6. DOMAIN file.doc \subseteq Ready
    BY <1>2 DEF FileIsLive
  <1> QED BY <1>1, <1>2, <1>3, <1>4, <1>5, <1>6, SessionLive

LEMMA RenameLive ==
    ASSUME IInv, FileIsLive, NEW e \in Engine, Rename(e)
    PROVE  FileIsLive' /\ Extends(file'.doc, file.doc)
  <1>1. /\ UNCHANGED <<entries, flight, phase>> /\ pc[e] = "rename" /\ Goto(e, "close")
        /\ file'.kind = "doc" /\ file'.doc = temp.doc /\ old' = file
    BY DEF Rename, File, flights
  <1>2. \A k \in DOMAIN temp.doc : k \in Ready /\ PlanOf(k) = temp.doc[k]
    BY <1>1 DEF FileIsLive
  <1>3. /\ phase[e] = "warm" /\ pc'[e] = "close"
        /\ \A f \in Engine : phase[f] # "load" /\ pc'[f] \notin {"fsync", "rename"}
    <2>1. phase[e] = "warm" /\ pc'[e] = "close" /\ \A f \in Engine \ {e} : pc'[f] = pc[f]
      BY <1>1 DEF Goto, IInv, OneSession, Types, ControlTypes
    <2> QED BY <1>1, <2>1 DEF IInv, OneSession
  <1>4. Ready' = Ready /\ \A k : StateOf(k)' = StateOf(k) /\ PlanOf(k)' = PlanOf(k)
    BY <1>1 DEF Ready, StateOf, PlanOf
  <1>5. FileIsLive'
    BY <1>1, <1>2, <1>3, <1>4 DEF FileIsLive
  <1>6. \A k \in DOMAIN file.doc : k \in Ready /\ PlanOf(k) = file.doc[k]
    <2>1. DOMAIN file.doc \subseteq Ready
      BY <1>3 DEF FileIsLive
    <2>2. \A k \in Ready : StateOf(k) # "none"
      BY DEF Ready
    <2> QED BY <2>1, <2>2 DEF FileIsLive
  <1>7. DOMAIN file.doc \subseteq DOMAIN temp.doc
    BY <1>1 DEF IInv, SavesWhole
  <1> QED BY <1>1, <1>2, <1>5, <1>6, <1>7 DEF Extends

LEMMA StopLive ==
    ASSUME IInv, FileIsLive, Kill \/ PowerLoss
    PROVE  FileIsLive'
  <1>1. Restart
    BY DEF Kill, PowerLoss
  <1>2. \A k \in Key : StateOf(k)' = "none"
    BY <1>1 DEF Restart, StateOf
  <1>3. \A e \in Engine : phase'[e] = "off" /\ pc'[e] = "idle"
    BY <1>1 DEF Restart
  <1>4. file' \in {file, old} /\ old' \in {file, old}
    BY DEF Kill, PowerLoss, IInv, SavesWhole
  <1>5. DOMAIN file'.doc \subseteq Key
    BY <1>4, DocsMap DEF IInv, Types, FileTypes, FileType
  <1> QED BY <1>2, <1>3, <1>4, <1>5 DEF FileIsLive

LEMMA NextLive == IInv /\ FileIsLive /\ [Next]_vars => FileIsLive'
  <1> SUFFICES ASSUME IInv, FileIsLive, [Next]_vars PROVE FileIsLive'
    OBVIOUS
  <1>1. CASE UNCHANGED vars
    <2>1. UNCHANGED <<entries, flight, file, old, temp, phase, pc, todo, opening>>
      BY <1>1 DEF vars, flights, storage, control, persist
    <2> QED BY <2>1, SessionLive DEF FileIsLive
  <1>2. ASSUME NEW e \in Engine, Loads(e) PROVE FileIsLive'
    BY <1>2, BeginSessionLive, InstallLive, SessionReadyLive DEF Loads
  <1>3. ASSUME NEW e \in Engine, Resolve(e) \/ Resolves(e) PROVE FileIsLive'
    BY <1>3, ResolvesLive
  <1>4. ASSUME NEW e \in Engine, Saves(e) PROVE FileIsLive'
    BY <1>4, CompleteLive, EndsLive, RenameLive DEF Saves
  <1>5. CASE Kill \/ PowerLoss
    BY <1>5, StopLive
  <1> QED BY <1>1, <1>2, <1>3, <1>4, <1>5 DEF Next

(* What the file at the cache path holds is what the engines run: the      *)
(* import at load (InstallPersistentPlans) finds no key being tuned, and a *)
(* plan tuned later is never one the file already has.                     *)
THEOREM FileStaysLive == Spec => []FileIsLive
  <1> QED BY InitLive, NextLive, Invariance, PTL DEF Spec

(* A save neither drops nor changes a saved plan, and replaces neither a   *)
(* file it could not read nor one of a read-only process.                  *)
THEOREM SavesLoseNothing == Spec => SavedPlansStay
  <1> DEFINE Stays == /\ Extends(file'.doc, file.doc)
                      /\ file.kind = "foreign" \/ read_only => file' = file
  <1>1. ASSUME IInv, FileIsLive, Next, stops' = stops PROVE Stays
    <2>1. CASE UNCHANGED file
      BY <2>1 DEF Extends
    <2>2. ASSUME NEW e \in Engine, Rename(e) PROVE Stays
      <3>1. Extends(file'.doc, file.doc)
        BY <1>1, <2>2, RenameLive
      <3>2. phase[e] = "warm" /\ pc[e] = "rename"
        BY <1>1, <2>2 DEF Rename, IInv, OneSession
      <3>3. ~read_only /\ session.save_allowed /\ file.kind # "foreign"
        BY <1>1, <3>2 DEF IInv, SavesWhole, SessionKnowsFile, Knows
      <3> QED BY <3>1, <3>3
    <2>3. CASE Kill \/ PowerLoss
      <3>1. stops' = stops + 1 /\ stops \in Nat
        <4>1. Restart
          BY <2>3 DEF Kill, PowerLoss
        <4>2. stops \in 0 .. MaxStops /\ MaxStops \in Nat
          BY <1>1, PlanCacheAssumption DEF IInv, Types, OtherTypes, PlanCacheAssumption
        <4>3. stops' = stops + 1
          BY <4>1 DEF Restart
        <4> QED BY <4>2, <4>3
      <3> QED BY <1>1, <3>1
    <2>4. ASSUME NEW e \in Engine, Loads(e) \/ Resolve(e) \/ Resolves(e) PROVE UNCHANGED file
      BY <2>4 DEF Loads, BeginSession, Install, SessionReady, Resolve, Resolves, FindReady, Miss,
           CaptureMiss, GetOrTune, Tuned, TuneFails, Answered, storage
    <2>5. ASSUME NEW e \in Engine, Saves(e), ~Rename(e) PROVE UNCHANGED file
      BY <2>5 DEF Saves, Complete, Fsync, SaveFails, Close, Cancel, storage
    <2> QED BY <1>1, <2>1, <2>2, <2>3, <2>4, <2>5 DEF Next
  <1>2. IInv /\ FileIsLive /\ [Next]_vars => [stops' = stops => Stays]_vars
    BY <1>1
  <1> QED BY <1>2, Invariance, FileStaysLive, PTL DEF Spec, SavedPlansStay
=============================================================================
