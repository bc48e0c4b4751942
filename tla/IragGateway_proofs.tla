------------------------- MODULE IragGateway_proofs -------------------------
(***************************************************************************)
(* Proofs about the IRAG gateway for any number of requests, providers,    *)
(* keys and statuses, any chains, any threshold and any times.             *)
(***************************************************************************)
EXTENDS IragBreakerAudit, FiniteSetTheorems, TLAPS

(* The four invariants hold each other up: what a request delivers is a    *)
(* response of a provider of its chain because it is in place, and what    *)
(* the cache holds is sound because it was delivered.                      *)
Inv ==
    /\ TypeOK
    /\ RequestsInPlace
    /\ BreakerConsistent
    /\ CacheSound

(* Inside its chain, a request's current provider is one.                  *)
LEMMA CurrentIsProvider ==
    ASSUME TypeOK, NEW r \in Requests, idx[r] \in 1 .. Len(Chain[key[r]])
    PROVE  Current(r) \in Providers
<1>1. Chain[key[r]] \in Seq(Providers)
  BY ChainAssumption DEF TypeOK
<1> QED
  BY <1>1 DEF Current

(* A request that has not run out of chain stands inside it.               *)
LEMMA NotDoneInChain ==
    ASSUME TypeOK, NEW r \in Requests, ~ChainDone(r)
    PROVE  idx[r] \in 1 .. Len(Chain[key[r]])
<1>1. Chain[key[r]] \in Seq(Providers)
  BY ChainAssumption DEF TypeOK
<1>2. Len(Chain[key[r]]) \in Nat /\ idx[r] \in Nat \ {0}
  BY <1>1 DEF TypeOK
<1> QED
  BY <1>2 DEF ChainDone

(***************************************************************************)
(* The circuit breaker on its own: what each method does to the type and   *)
(* to the link between the count and the cooldown.                         *)
(***************************************************************************)
Breaker == CircuitTypeOK /\ BreakerConsistent

LEMMA BreakerAllow ==
    ASSUME Breaker, NEW p \in Providers, Allow(p) PROVE Breaker'
  BY FailThresholdAssumption, CooldownAssumption
     DEF FailThresholdAssumption, CooldownAssumption, Breaker, CircuitTypeOK, BreakerConsistent, Allow, CooldownOver, NotOpen, circuitVars

LEMMA BreakerSuccess ==
    ASSUME Breaker, NEW p \in Providers, Success(p) PROVE Breaker'
  BY FailThresholdAssumption, CooldownAssumption
     DEF FailThresholdAssumption, CooldownAssumption, Breaker, CircuitTypeOK, BreakerConsistent, Success, NotOpen

LEMMA BreakerFailure ==
    ASSUME Breaker, NEW p \in Providers, Failure(p) PROVE Breaker'
  BY FailThresholdAssumption, CooldownAssumption
     DEF FailThresholdAssumption, CooldownAssumption, Breaker, CircuitTypeOK, BreakerConsistent, Failure, NotOpen

LEMMA BreakerTick ==
    ASSUME Breaker, CircuitTick PROVE Breaker'
  BY FailThresholdAssumption, CooldownAssumption
     DEF FailThresholdAssumption, CooldownAssumption, Breaker, CircuitTypeOK, BreakerConsistent, CircuitTick, NotOpen

LEMMA BreakerReset ==
    ASSUME failures' = [p \in Providers |-> 0], openFor' = [p \in Providers |-> NotOpen]
    PROVE  Breaker'
  BY FailThresholdAssumption, CooldownAssumption
     DEF FailThresholdAssumption, CooldownAssumption, Breaker, CircuitTypeOK, BreakerConsistent, NotOpen

LEMMA BreakerUnchanged ==
    ASSUME Breaker, UNCHANGED circuitVars PROVE Breaker'
  BY DEF Breaker, CircuitTypeOK, BreakerConsistent, circuitVars

(* A calling request's provider is one, and so is the next one to ask.     *)
LEMMA CallingProvider ==
    ASSUME TypeOK, RequestsInPlace, NEW r \in Requests, pc[r] \in {"calling", "deliver"}
    PROVE  Current(r) \in Providers
  BY CurrentIsProvider DEF RequestsInPlace

LEMMA SelectedProvider ==
    ASSUME TypeOK, NEW r \in Requests, ~ChainDone(r)
    PROVE  Current(r) \in Providers
  BY NotDoneInChain, CurrentIsProvider

(* Every step of the gateway keeps the breaker consistent.                 *)
LEMMA BreakerStep ==
    ASSUME TypeOK, RequestsInPlace, BreakerConsistent, [Next]_vars
    PROVE  CircuitTypeOK' /\ BreakerConsistent'
<1> SUFFICES Breaker'
  BY DEF Breaker
<1>0. Breaker
  BY DEF Breaker, TypeOK
<1>1. ASSUME NEW r \in Requests, NEW k \in Keys, Arrive(r, k)
      PROVE  Breaker'
  BY <1>0, <1>1, BreakerUnchanged DEF Arrive
<1>2. ASSUME NEW r \in Requests,
             HangUp(r) \/ CacheHit(r) \/ CacheMiss(r) \/ SkipOpen(r) \/ Deliver(r) \/ GiveUp(r)
      PROVE  Breaker'
  BY <1>0, <1>2, BreakerUnchanged
     DEF HangUp, CacheHit, CacheMiss, SkipOpen, Deny, Deliver, GiveUp
<1>3. ASSUME NEW r \in Requests, Call(r)
      PROVE  Breaker'
  BY <1>0, <1>3, SelectedProvider, BreakerAllow DEF Call
<1>4. ASSUME NEW r \in Requests, pc[r] = "calling", NextProvider(r)
      PROVE  Breaker'
  BY <1>0, <1>4, CallingProvider, BreakerFailure DEF NextProvider
<1>5. ASSUME NEW r \in Requests, NEW s \in Statuses, ReplyUsable(r, s)
      PROVE  Breaker'
  BY <1>0, <1>5, CallingProvider, BreakerSuccess DEF ReplyUsable
<1>6. CASE Tick
  BY <1>0, <1>6, BreakerTick DEF Tick
<1>7. CASE Restart
  BY <1>7, BreakerReset DEF Restart
<1>8. CASE UNCHANGED vars
  BY <1>0, <1>8, BreakerUnchanged DEF vars
<1> QED
  BY <1>1, <1>2, <1>3, <1>4, <1>5, <1>6, <1>7, <1>8
     DEF Next, Proceed, Reply, ReplyRetryable, CallFails, CallUnavailable, CallCancelled,
         CallTimesOut

-----------------------------------------------------------------------------
(* Every step of the gateway keeps the types.                              *)
LEMMA TypeStep ==
    ASSUME TypeOK, RequestsInPlace, BreakerConsistent, [Next]_vars
    PROVE  TypeOK'
<1>0. CircuitTypeOK'
  BY BreakerStep
<1> USE <1>0, ChainAssumption, TimeoutAssumption, CacheTTLAssumption, StatusesAssumption
        DEF ChainAssumption, TimeoutAssumption, CacheTTLAssumption, StatusesAssumption,
            TypeOK, Pending, Answer, NoAnswer, NotFound
<1>1. ASSUME NEW r \in Requests, NEW k \in Keys, Arrive(r, k)
      PROVE  TypeOK'
  <2>1. PICK v \in {"lookup", "answered"}, a \in {NoAnswer, NotFound} :
           pc' = [pc EXCEPT ![r] = v] /\ answer' = [answer EXCEPT ![r] = a]
    BY <1>1 DEF Arrive
  <2>2. pc' \in [Requests -> Pending \cup {"idle", "answered"}]
    BY <2>1
  <2>4. a \in Answer
    OBVIOUS
  <2>5. answer' \in [Requests -> Answer]
    BY <2>1, <2>4
  <2>3. key' \in [Requests -> Keys]
    BY <1>1 DEF Arrive
  <2> QED
    BY <1>1, <2>2, <2>3, <2>5 DEF Arrive
<1>2. ASSUME NEW r \in Requests, HangUp(r) \/ CacheMiss(r) \/ SkipOpen(r)
      PROVE  TypeOK'
  <2>1. CASE HangUp(r)
    <3>1. gone' \in [Requests -> BOOLEAN]
      BY <2>1 DEF HangUp
    <3> QED
      BY <2>1, <3>1 DEF HangUp
  <2>2. CASE CacheMiss(r)
    BY <2>2 DEF CacheMiss
  <2>3. CASE SkipOpen(r)
    BY <2>3 DEF SkipOpen
  <2> QED
    BY <1>2, <2>1, <2>2, <2>3
<1>3. ASSUME NEW r \in Requests, CacheHit(r)
      PROVE  TypeOK'
  <2>1. PICK e \in cache : Write(r, [from |-> e.from, status |-> e.status])
    BY <1>3 DEF CacheHit
  <2>2. [from |-> e.from, status |-> e.status] \in Answer
    BY DEF Entry
  <2>3. answer' \in [Requests -> Answer]
    <3>1. answer \in [Requests -> Answer]
      OBVIOUS
    <3> HIDE DEF Answer
    <3> QED
      BY <2>1, <2>2, <3>1 DEF Write
  <2>4. /\ pc' \in [Requests -> Pending \cup {"idle", "answered"}]
        /\ idx' \in [Requests -> Nat \ {0}]
    BY <2>1 DEF Write
  <2>5. /\ sawTimeout' \in [Requests -> BOOLEAN] /\ gone' \in [Requests -> BOOLEAN]
        /\ got' \in [Requests -> Statuses \cup {0}]
    BY <2>1 DEF Write
  <2>6. UNCHANGED <<cache, key, left>>
    BY <1>3 DEF CacheHit
  <2> QED
    BY <2>3, <2>4, <2>5, <2>6 DEF Entry
<1>4. ASSUME NEW r \in Requests, Deliver(r)
      PROVE  TypeOK'
  <2>1. Current(r) \in Providers /\ got[r] \in Statuses
    BY <1>4, CallingProvider DEF Deliver, RequestsInPlace
  <2>2. cache' \subseteq Entry
    BY <1>4, <2>1 DEF Deliver, Store, Cacheable, Entry
  <2> QED
    BY <1>4, <2>1, <2>2 DEF Deliver, Write
<1>5. ASSUME NEW r \in Requests, GiveUp(r)
      PROVE  TypeOK'
  <2>1. PICK st \in {502, 504} : Write(r, Failed(st))
    <3> HIDE DEF TypeOK
    <3>1. CASE sawTimeout[r]
      BY <1>5, <3>1 DEF GiveUp
    <3>2. CASE ~sawTimeout[r]
      BY <1>5, <3>2 DEF GiveUp
    <3> QED
      BY <3>1, <3>2
  <2>2. Failed(st) \in Answer
    BY DEF Failed
  <2> QED
    BY <1>5, <2>1, <2>2 DEF GiveUp, Write
<1>6. ASSUME NEW r \in Requests, Call(r)
      PROVE  TypeOK'
  BY <1>6 DEF Call
<1>7. ASSUME NEW r \in Requests, NextProvider(r), sawTimeout' \in [Requests -> BOOLEAN]
      PROVE  TypeOK'
  BY <1>7 DEF NextProvider
<1>8. ASSUME NEW r \in Requests, NEW s \in Statuses, ReplyUsable(r, s)
      PROVE  TypeOK'
  BY <1>8 DEF ReplyUsable
<1>9. CASE Tick
  <2>1. cache' \subseteq Entry
    <3>1. ASSUME NEW e \in cache, e.left > 1
          PROVE  Aged(e) \in Entry
      BY <3>1 DEF Entry, Aged
    <3> QED
      BY <1>9, <3>1 DEF Tick
  <2> QED
    BY <1>9, <2>1 DEF Tick
<1>10. CASE Restart
  BY <1>10 DEF Restart
<1>11. CASE UNCHANGED vars
  BY <1>11 DEF vars, requestVars
<1>12. ASSUME NEW r \in Requests, CallTimesOut(r)
       PROVE  TypeOK'
  <2>1. sawTimeout' \in [Requests -> BOOLEAN]
    BY <1>12 DEF CallTimesOut
  <2> QED
    BY <1>12, <1>7, <2>1 DEF CallTimesOut
<1>13. ASSUME NEW r \in Requests, NextProvider(r), UNCHANGED sawTimeout
       PROVE  TypeOK'
  BY <1>13, <1>7
<1> HIDE DEF TypeOK
<1>14. ASSUME NEW r \in Requests, Proceed(r)
       PROVE  TypeOK'
  BY <1>2, <1>3, <1>4, <1>5, <1>6, <1>12, <1>13, <1>14 DEF Proceed, CallUnavailable, CallCancelled
<1>15. ASSUME NEW r \in Requests, NEW s \in Statuses, Reply(r, s)
       PROVE  TypeOK'
  BY <1>8, <1>13, <1>15 DEF Reply, ReplyRetryable
<1> QED
  BY <1>1, <1>2, <1>9, <1>10, <1>11, <1>13, <1>14, <1>15 DEF Next, CallFails

-----------------------------------------------------------------------------
(* Every step keeps calling and delivering requests inside their chains.   *)
LEMMA PlaceStep ==
    ASSUME TypeOK, RequestsInPlace, [Next]_vars
    PROVE  RequestsInPlace'
<1> USE DEF RequestsInPlace, Pending
<1> SUFFICES ASSUME NEW q \in Requests
             PROVE  /\ pc'[q] \in {"calling", "deliver"}
                         => idx'[q] \in 1 .. Len(Chain[key'[q]])
                    /\ pc'[q] = "deliver"
                         => got'[q] \in Statuses /\ ~ShouldRetry(key'[q], got'[q])
  OBVIOUS
<1>0. /\ pc \in [Requests -> Pending \cup {"idle", "answered"}]
      /\ key \in [Requests -> Keys]
      /\ idx \in [Requests -> Nat \ {0}]
      /\ got \in [Requests -> Statuses \cup {0}]
  BY DEF TypeOK
<1>1. ASSUME NEW r \in Requests, NEW k \in Keys, Arrive(r, k)
      PROVE  pc'[q] \in {"calling", "deliver"} =>
               pc'[q] = pc[q] /\ key'[q] = key[q] /\ idx'[q] = idx[q] /\ got'[q] = got[q]
  <2>1. CASE q = r
    BY <1>0, <1>1, <2>1 DEF Arrive
  <2>2. CASE q # r
    BY <1>0, <1>1, <2>2 DEF Arrive
  <2> QED
    BY <2>1, <2>2
<1>2. ASSUME NEW r \in Requests,
             CacheHit(r) \/ CacheMiss(r) \/ SkipOpen(r) \/ Deliver(r) \/ GiveUp(r) \/ NextProvider(r)
      PROVE  pc'[q] \in {"calling", "deliver"} =>
               pc'[q] = pc[q] /\ key'[q] = key[q] /\ idx'[q] = idx[q] /\ got'[q] = got[q]
  <2>1. CASE q = r
    BY <1>0, <1>2, <2>1
       DEF CacheHit, CacheMiss, SkipOpen, Deliver, GiveUp, NextProvider, Write
  <2>2. CASE q # r
    BY <1>0, <1>2, <2>2
       DEF CacheHit, CacheMiss, SkipOpen, Deliver, GiveUp, NextProvider, Write
  <2> QED
    BY <2>1, <2>2
<1>3. ASSUME NEW r \in Requests, Call(r)
      PROVE  /\ pc'[q] \in {"calling", "deliver"} => idx'[q] \in 1 .. Len(Chain[key'[q]])
             /\ pc'[q] = "deliver" =>
                  pc'[q] = pc[q] /\ key'[q] = key[q] /\ idx'[q] = idx[q] /\ got'[q] = got[q]
  <2>1. idx[r] \in 1 .. Len(Chain[key[r]])
    BY <1>3, NotDoneInChain DEF Call
  <2> QED
    BY <1>0, <1>3, <2>1 DEF Call
<1>4. ASSUME NEW r \in Requests, NEW s \in Statuses, ReplyUsable(r, s)
      PROVE  /\ pc'[q] \in {"calling", "deliver"} => idx'[q] \in 1 .. Len(Chain[key'[q]])
             /\ pc'[q] = "deliver" => got'[q] \in Statuses /\ ~ShouldRetry(key'[q], got'[q])
  BY <1>0, <1>4 DEF ReplyUsable
<1>5. ASSUME UNCHANGED <<pc, key, idx, got>>
      PROVE  pc'[q] = pc[q] /\ key'[q] = key[q] /\ idx'[q] = idx[q] /\ got'[q] = got[q]
  BY <1>5
<1>6. CASE Restart
  BY <1>6 DEF Restart
<1>7. Tick \/ UNCHANGED vars \/ (\E r \in Requests : HangUp(r)) => UNCHANGED <<pc, key, idx, got>>
  BY DEF Tick, vars, requestVars, HangUp
<1>8. ASSUME NEW r \in Requests, NEW s \in Statuses, Reply(r, s)
      PROVE  ReplyUsable(r, s) \/ NextProvider(r)
  BY <1>8 DEF Reply, ReplyRetryable
<1>9. ASSUME NEW r \in Requests, CallFails(r) \/ Proceed(r)
      PROVE  \/ CacheHit(r) \/ CacheMiss(r) \/ SkipOpen(r) \/ Deliver(r) \/ GiveUp(r)
             \/ NextProvider(r) \/ Call(r)
  BY <1>9 DEF CallFails, Proceed, CallTimesOut, CallCancelled, CallUnavailable
<1> HIDE DEF RequestsInPlace
<1>10. CASE \E r \in Requests, k \in Keys : Arrive(r, k)
  BY <1>10, <1>1 DEF RequestsInPlace
<1>11. CASE \E r \in Requests : CallFails(r) \/ Proceed(r)
  <2>1. PICK r \in Requests : CallFails(r) \/ Proceed(r)
    BY <1>11
  <2>2. CASE Call(r)
    BY <1>3, <2>2 DEF RequestsInPlace
  <2>3. CASE ~Call(r)
    BY <1>2, <1>9, <2>1, <2>3 DEF RequestsInPlace
  <2> QED
    BY <2>2, <2>3
<1>12. CASE \E r \in Requests, s \in Statuses : Reply(r, s)
  <2>1. PICK r \in Requests, s \in Statuses : Reply(r, s)
    BY <1>12
  <2>2. CASE ReplyUsable(r, s)
    BY <1>4, <2>2
  <2>3. CASE NextProvider(r)
    BY <1>2, <2>3 DEF RequestsInPlace
  <2> QED
    BY <1>8, <2>1, <2>2, <2>3
<1>13. CASE Tick \/ UNCHANGED vars \/ (\E r \in Requests : HangUp(r))
  BY <1>13, <1>5, <1>7 DEF RequestsInPlace
<1> QED
  BY <1>6, <1>10, <1>11, <1>12, <1>13 DEF Next

-----------------------------------------------------------------------------
(* Only Deliver adds to the cache, and what it adds is sound.              *)
LEMMA CacheStep ==
    ASSUME TypeOK, RequestsInPlace, CacheSound, [Next]_vars
    PROVE  CacheSound'
<1>1. ASSUME NEW r \in Requests, Deliver(r)
      PROVE  CacheSound'
  <2>1. /\ key[r] \in Keys
        /\ idx[r] \in 1 .. Len(Chain[key[r]])
        /\ ~ShouldRetry(key[r], got[r])
    BY <1>1 DEF Deliver, RequestsInPlace, TypeOK
  <2>2. CASE UNCHANGED cache
    BY <2>2 DEF CacheSound
  <2>3. CASE cache' = {e \in cache : e.key # key[r]}
                        \cup {[key |-> key[r], from |-> Current(r),
                               status |-> got[r], left |-> CacheTTL[key[r]]]}
    <3> DEFINE new == [key |-> key[r], from |-> Current(r),
                       status |-> got[r], left |-> CacheTTL[key[r]]]
    <3>1. /\ \E i \in 1 .. Len(Chain[new.key]) : new.from = Chain[new.key][i]
          /\ ~ShouldRetry(new.key, new.status)
          /\ new.left <= CacheTTL[new.key]
      BY <2>1, CacheTTLAssumption DEF Current, CacheTTLAssumption
    <3>2. \A e \in cache' : (e \in cache /\ e.key # new.key) \/ e = new
      BY <2>3
    <3>3. \A e \in cache' :
             /\ \E i \in 1 .. Len(Chain[e.key]) : e.from = Chain[e.key][i]
             /\ ~ShouldRetry(e.key, e.status)
             /\ e.left <= CacheTTL[e.key]
      BY <3>1, <3>2 DEF CacheSound
    <3>4. \A e, f \in cache' : e.key = f.key => e = f
      BY <3>2 DEF CacheSound
    <3> QED
      BY <3>3, <3>4 DEF CacheSound
  <2> QED
    BY <1>1, <2>2, <2>3 DEF Deliver, Store
<1>2. CASE Tick
  <2>1. \A e \in cache' : \E f \in cache : e = Aged(f)
    BY <1>2 DEF Tick
  <2>2. ASSUME NEW e \in cache', NEW f \in cache, e = Aged(f)
        PROVE  /\ e.key = f.key /\ e.from = f.from /\ e.status = f.status
               /\ e.left <= CacheTTL[e.key]
    <3>1. f \in Entry /\ f.left <= CacheTTL[f.key]
      BY DEF TypeOK, CacheSound
    <3>2. CacheTTL[f.key] \in Nat /\ f.left \in Nat
      BY <3>1, CacheTTLAssumption DEF CacheTTLAssumption, Entry
    <3> QED
      BY <2>2, <3>1, <3>2 DEF Aged
  <2>3. \A e \in cache' :
             /\ \E i \in 1 .. Len(Chain[e.key]) : e.from = Chain[e.key][i]
             /\ ~ShouldRetry(e.key, e.status)
             /\ e.left <= CacheTTL[e.key]
    BY <2>1, <2>2 DEF CacheSound
  <2>4. \A e, f \in cache' : e.key = f.key => e = f
    BY <2>1, <2>2 DEF CacheSound
  <2> QED
    BY <2>3, <2>4 DEF CacheSound
<1>3. ASSUME UNCHANGED cache
      PROVE  CacheSound'
  BY <1>3 DEF CacheSound
<1>4. \/ UNCHANGED cache
      \/ Tick
      \/ \E r \in Requests : Deliver(r)
  BY DEF Next, Proceed, Reply, ReplyRetryable, ReplyUsable, NextProvider, Arrive, HangUp,
         CacheHit, CacheMiss, SkipOpen, GiveUp, Call, CallFails, CallTimesOut, CallCancelled,
         CallUnavailable, Restart, vars
<1> QED
  BY <1>1, <1>2, <1>3, <1>4

-----------------------------------------------------------------------------
LEMMA InvInit == Init => Inv
<1> SUFFICES ASSUME Init PROVE Inv
  OBVIOUS
<1>1. TypeOK
  BY CooldownAssumption
     DEF Init, CircuitInit, TypeOK, CircuitTypeOK, CooldownAssumption, NotOpen, Answer, NoAnswer
<1>2. BreakerConsistent
  <2>1. \A p \in Providers : failures[p] = 0 /\ openFor[p] = NotOpen
    BY DEF Init, CircuitInit
  <2>2. ~(0 >= FailThreshold)
    BY FailThresholdAssumption DEF FailThresholdAssumption
  <2>3. ASSUME NEW p \in Providers
        PROVE  (openFor[p] # NotOpen) <=> (failures[p] >= FailThreshold)
    <3>1. failures[p] = 0 /\ openFor[p] = NotOpen
      BY <2>1
    <3>2. ~(failures[p] >= FailThreshold)
      BY <2>2, <3>1
    <3> QED
      BY <3>1, <3>2
  <2> QED
    BY <2>3 DEF BreakerConsistent
<1> QED
  BY <1>1, <1>2 DEF Init, Inv, RequestsInPlace, CacheSound

LEMMA InvStep == Inv /\ [Next]_vars => Inv'
  BY TypeStep, PlaceStep, BreakerStep, CacheStep DEF Inv

LEMMA InvAlways == Spec => []Inv
  BY InvInit, InvStep, PTL DEF Spec

(* Type correctness: every variable keeps to the values the code gives it. *)
THEOREM TypeCorrect == Spec => []TypeOK
<1>1. Inv => TypeOK
  BY DEF Inv
<1> QED
  BY <1>1, InvAlways, PTL

(* The breaker of a provider is open exactly when its failure count has    *)
(* reached the threshold, for any interleaving of requests.                *)
THEOREM BreakerAlwaysConsistent == Spec => []BreakerConsistent
<1>1. Inv => BreakerConsistent
  BY DEF Inv
<1> QED
  BY <1>1, InvAlways, PTL

(* The cache only ever holds usable answers of the key's own providers,    *)
(* one per key, for no longer than the route allows.                       *)
THEOREM CacheAlwaysSound == Spec => []CacheSound
<1>1. Inv => CacheSound
  BY DEF Inv
<1> QED
  BY <1>1, InvAlways, PTL

-----------------------------------------------------------------------------
(***************************************************************************)
(* How far the failure count can run past the threshold.                   *)
(***************************************************************************)
LEMMA InFlightFinite ==
    ASSUME NEW p \in Providers
    PROVE  /\ IsFiniteSet(InFlight(p)) /\ Cardinality(InFlight(p)) \in Nat
           /\ Cardinality(InFlight(p)) <= Cardinality(Requests)
           /\ Cardinality(Requests) \in Nat
<1>1. InFlight(p) \subseteq Requests
  BY DEF InFlight
<1> QED
  BY <1>1, RequestsAssumption, FS_Subset, FS_CardinalityType DEF RequestsAssumption

LEMMA InFlightFiniteNext ==
    ASSUME NEW p \in Providers
    PROVE  /\ IsFiniteSet(InFlight(p)') /\ Cardinality(InFlight(p)') \in Nat
           /\ Cardinality(InFlight(p)') <= Cardinality(Requests)
<1>1. InFlight(p)' \subseteq Requests
  BY DEF InFlight
<1> QED
  BY <1>1, RequestsAssumption, FS_Subset, FS_CardinalityType DEF RequestsAssumption

Bounded(p) ==
    failures[p] + Cardinality(InFlight(p)) <= FailThreshold - 1 + Cardinality(Requests)

(* A step that leaves p's count and p's calls alone.                       *)
LEMMA BoundedSame ==
    ASSUME NEW p \in Providers, Bounded(p),
           failures'[p] = failures[p], InFlight(p)' = InFlight(p)
    PROVE  Bounded(p)'
  BY DEF Bounded

(* A step after which p's count is below the threshold.                    *)
LEMMA BoundedBelow ==
    ASSUME NEW p \in Providers, TypeOK', failures'[p] < FailThreshold
    PROVE  Bounded(p)'
<1>1. failures'[p] \in Nat /\ FailThreshold \in Nat
  BY FailThresholdAssumption DEF TypeOK, CircuitTypeOK, FailThresholdAssumption
<1> QED
  BY <1>1, InFlightFinite, InFlightFiniteNext DEF Bounded

(* A call of p that fails adds one to the count and leaves the calls.      *)
LEMMA BoundedFailure ==
    ASSUME TypeOK, RequestsInPlace, NEW p \in Providers, Bounded(p), NEW r \in Requests,
           pc[r] = "calling", NextProvider(r), Current(r) = p
    PROVE  Bounded(p)'
<1>1. failures'[p] = failures[p] + 1 /\ failures[p] \in Nat
  BY DEF NextProvider, Failure, TypeOK, CircuitTypeOK
<1>2. InFlight(p)' = InFlight(p) \ {r}
  <2>1. \A q \in Requests \ {r} : pc'[q] = pc[q] /\ key'[q] = key[q] /\ idx'[q] = idx[q]
    BY DEF NextProvider, TypeOK
  <2>2. pc'[r] = "select"
    BY DEF NextProvider, TypeOK
  <2> QED
    BY <2>1, <2>2 DEF InFlight, Current
<1>3. r \in InFlight(p)
  BY DEF InFlight
<1>4. Cardinality(InFlight(p)') = Cardinality(InFlight(p)) - 1
  BY <1>2, <1>3, InFlightFinite, FS_RemoveElement
<1> QED
  BY <1>1, <1>4, InFlightFinite, FailThresholdAssumption DEF Bounded, FailThresholdAssumption

LEMMA BoundedStep ==
    ASSUME Inv, Inv', NEW p \in Providers, Bounded(p), [Next]_vars
    PROVE  Bounded(p)'
<1>0. /\ TypeOK /\ RequestsInPlace /\ BreakerConsistent /\ TypeOK'
      /\ pc \in [Requests -> Pending \cup {"idle", "answered"}]
      /\ key \in [Requests -> Keys]
      /\ idx \in [Requests -> Nat \ {0}]
      /\ failures \in [Providers -> Nat]
      /\ openFor \in [Providers -> NotOpen .. Cooldown]
      /\ FailThreshold \in Nat \ {0}
  BY FailThresholdAssumption DEF Inv, TypeOK, CircuitTypeOK, FailThresholdAssumption
(* Steps by which no call begins or ends.                                  *)
<1>1. ASSUME UNCHANGED failures,
             \A q \in Requests : \/ pc'[q] = pc[q] /\ key'[q] = key[q] /\ idx'[q] = idx[q]
                                 \/ pc[q] # "calling" /\ pc'[q] # "calling"
      PROVE  Bounded(p)'
  <2>1. InFlight(p)' = InFlight(p)
    BY <1>1 DEF InFlight, Current
  <2> QED
    BY <1>1, <2>1, BoundedSame
<1>2. ASSUME NEW r \in Requests, NEW k \in Keys, Arrive(r, k)
      PROVE  Bounded(p)'
  <2>1. ASSUME NEW q \in Requests, q # r
        PROVE  pc'[q] = pc[q] /\ key'[q] = key[q] /\ idx'[q] = idx[q]
    BY <1>0, <1>2, <2>1 DEF Arrive
  <2>2. pc[r] # "calling" /\ pc'[r] # "calling"
    BY <1>0, <1>2 DEF Arrive
  <2> QED
    BY <1>1, <1>2, <2>1, <2>2 DEF Arrive, circuitVars
<1>3. ASSUME NEW r \in Requests,
             CacheHit(r) \/ CacheMiss(r) \/ SkipOpen(r) \/ Deliver(r) \/ GiveUp(r)
      PROVE  Bounded(p)'
  <2>1. ASSUME NEW q \in Requests, q # r
        PROVE  pc'[q] = pc[q] /\ key'[q] = key[q] /\ idx'[q] = idx[q]
    BY <1>0, <1>3, <2>1 DEF CacheHit, CacheMiss, SkipOpen, Deliver, GiveUp, Write
  <2>2. pc[r] # "calling" /\ pc'[r] # "calling"
    BY <1>0, <1>3 DEF CacheHit, CacheMiss, SkipOpen, Deliver, GiveUp, Write
  <2>3. UNCHANGED failures
    BY <1>3 DEF CacheHit, CacheMiss, SkipOpen, Deny, Deliver, GiveUp, circuitVars
  <2> QED
    BY <1>1, <2>1, <2>2, <2>3
<1>4. ASSUME NEW r \in Requests, Call(r)
      PROVE  Bounded(p)'
  <2>1. CASE Current(r) = p
    <3>1. failures'[p] < FailThreshold
      BY <1>0, <1>4, <2>1
         DEF Call, Allow, Allowed, CooldownOver, BreakerConsistent, NotOpen, circuitVars
    <3> QED
      BY <1>0, <3>1, BoundedBelow
  <2>2. CASE Current(r) # p
    <3>1. failures'[p] = failures[p]
      BY <1>0, <1>4, <2>2 DEF Call, Allow, circuitVars
    <3>2. \A q \in Requests : Current(q)' = Current(q)
      BY <1>4 DEF Call, Current
    <3>3. InFlight(p)' = InFlight(p)
      BY <1>0, <1>4, <2>2, <3>2 DEF Call, InFlight
    <3> QED
      BY <3>1, <3>3, BoundedSame
  <2> QED
    BY <2>1, <2>2
<1>5. ASSUME NEW r \in Requests, pc[r] = "calling", NextProvider(r)
      PROVE  Bounded(p)'
  <2>1. CASE Current(r) = p
    BY <1>0, <1>5, <2>1, BoundedFailure
  <2>2. CASE Current(r) # p
    <3>1. failures'[p] = failures[p]
      BY <1>0, <1>5, <2>2 DEF NextProvider, Failure
    <3>2. \A q \in Requests \ {r} : pc'[q] = pc[q] /\ Current(q)' = Current(q)
      BY <1>0, <1>5 DEF NextProvider, Current
    <3>3. pc'[r] # "calling"
      BY <1>0, <1>5 DEF NextProvider
    <3>4. InFlight(p)' = InFlight(p)
      BY <2>2, <3>2, <3>3 DEF InFlight
    <3> QED
      BY <3>1, <3>4, BoundedSame
  <2> QED
    BY <2>1, <2>2
<1>6. ASSUME NEW r \in Requests, NEW s \in Statuses, ReplyUsable(r, s)
      PROVE  Bounded(p)'
  <2>1. CASE Current(r) = p
    <3>1. failures'[p] < FailThreshold
      BY <1>0, <1>6, <2>1 DEF ReplyUsable, Success
    <3> QED
      BY <1>0, <3>1, BoundedBelow
  <2>2. CASE Current(r) # p
    <3>1. failures'[p] = failures[p]
      BY <1>0, <1>6, <2>2 DEF ReplyUsable, Success
    <3>2. \A q \in Requests \ {r} : pc'[q] = pc[q] /\ Current(q)' = Current(q)
      BY <1>0, <1>6 DEF ReplyUsable, Current
    <3>3. pc'[r] # "calling"
      BY <1>0, <1>6 DEF ReplyUsable
    <3>4. InFlight(p)' = InFlight(p)
      BY <2>2, <3>2, <3>3 DEF InFlight
    <3> QED
      BY <3>1, <3>4, BoundedSame
  <2> QED
    BY <2>1, <2>2
<1>7. CASE Restart
  <2>1. failures'[p] < FailThreshold
    BY <1>0, <1>7 DEF Restart
  <2> QED
    BY <1>0, <2>1, BoundedBelow
<1>8. CASE Tick \/ UNCHANGED vars \/ (\E r \in Requests : HangUp(r))
  <2>1. UNCHANGED <<failures, pc, key, idx>>
    BY <1>8 DEF Tick, CircuitTick, vars, requestVars, circuitVars, HangUp
  <2> QED
    BY <1>1, <2>1
<1>9. ASSUME NEW r \in Requests, NEW s \in Statuses, Reply(r, s)
      PROVE  Bounded(p)'
  BY <1>5, <1>6, <1>9 DEF Reply, ReplyRetryable
<1>10. ASSUME NEW r \in Requests, CallFails(r) \/ Proceed(r)
       PROVE  Bounded(p)'
  BY <1>3, <1>4, <1>5, <1>10 DEF CallFails, Proceed, CallTimesOut, CallCancelled, CallUnavailable
<1> QED
  BY <1>2, <1>7, <1>8, <1>9, <1>10 DEF Next

(* Late failures never run a provider's count further past the threshold   *)
(* than there are other requests, whatever their number.                   *)
THEOREM FailuresAlwaysBounded == Spec => []FailuresBounded
<1>1. Init => FailuresBounded
  <2> SUFFICES ASSUME Init, NEW p \in Providers
               PROVE  failures[p] + Cardinality(InFlight(p))
                        <= FailThreshold - 1 + Cardinality(Requests)
    BY DEF FailuresBounded
  <2>1. failures[p] = 0
    BY DEF Init, CircuitInit
  <2> QED
    BY <2>1, InFlightFinite, FailThresholdAssumption DEF FailThresholdAssumption
<1>2. Inv /\ Inv' /\ FailuresBounded /\ [Next]_vars => FailuresBounded'
  BY BoundedStep DEF FailuresBounded, Bounded
<1> QED
  BY <1>1, <1>2, InvAlways, PTL DEF Spec

-----------------------------------------------------------------------------
(***************************************************************************)
(* The gateway implements GatewayPromise: each of its steps is a step of   *)
(* the promise, or one the promise does not see.                           *)
(***************************************************************************)
(* A step that leaves the stages, the questions, the answers and the cache *)
(* alone is invisible in the promise.                                      *)
LEMMA Invisible ==
    ASSUME UNCHANGED <<stageBar, key, answer, cache>>
    PROVE  UNCHANGED Promise!promiseVars
  BY DEF Promise!promiseVars, shelfBar

LEMMA InitMaps == Init => Promise!PromiseInit
  BY DEF Init, Promise!PromiseInit, stageBar, shelfBar, NoAnswer, Promise!Nobody

LEMMA ArriveMaps ==
    ASSUME TypeOK, NEW r \in Requests, NEW k \in Keys, Arrive(r, k)
    PROVE  Promise!Ask(r, k) \/ Promise!Refuse(r, k)
<1>1. stageBar[r] # "asked"
  BY DEF Arrive, stageBar
<1>2. shelfBar' = shelfBar
  BY DEF Arrive, shelfBar
<1>3. CASE Chain[k] = <<>>
  <2>1. \A p \in Providers : ~Serves(k, p)
    BY <1>3 DEF Serves
  <2>2. stageBar' = [stageBar EXCEPT ![r] = "told"]
    BY <1>3 DEF Arrive, stageBar, TypeOK
  <2>3. answer' = [answer EXCEPT ![r] = [from |-> Gateway, status |-> 404]]
    BY <1>3 DEF Arrive, NotFound
  <2>4. key' = [key EXCEPT ![r] = k]
    BY DEF Arrive
  <2> QED
    BY <1>1, <1>2, <2>1, <2>2, <2>3, <2>4 DEF Promise!Refuse
<1>4. CASE Chain[k] # <<>>
  <2>2. stageBar' = [stageBar EXCEPT ![r] = "asked"]
    BY <1>4 DEF Arrive, stageBar, TypeOK
  <2>3. answer' = [answer EXCEPT ![r] = Promise!Nobody]
    BY <1>4 DEF Arrive, NoAnswer, Promise!Nobody
  <2>4. key' = [key EXCEPT ![r] = k]
    BY DEF Arrive
  <2> QED
    BY <1>1, <1>2, <2>2, <2>3, <2>4 DEF Promise!Ask
<1> QED
  BY <1>3, <1>4

(* A goroutine that writes its answer answers the question it was asked.   *)
LEMMA WriteMaps ==
    ASSUME TypeOK, NEW r \in Requests, NEW a \in Answer,
           pc[r] \in Pending, Write(r, a), UNCHANGED key
    PROVE  Promise!Tell(r, a)
<1>1. stageBar[r] = "asked"
  BY DEF stageBar, Pending
<1>2. stageBar' = [stageBar EXCEPT ![r] = "told"]
  BY DEF Write, stageBar, TypeOK
<1>3. answer' = [answer EXCEPT ![r] = a]
  BY DEF Write
<1> QED
  BY <1>1, <1>2, <1>3 DEF Promise!Tell

LEMMA CacheHitMaps ==
    ASSUME TypeOK, NEW r \in Requests, CacheHit(r)
    PROVE  Promise!TellFromShelf(r)
<1>1. PICK e \in cache : e.key = key[r] /\ Write(r, [from |-> e.from, status |-> e.status])
  BY DEF CacheHit
<1> DEFINE f == [key |-> e.key, from |-> e.from, status |-> e.status]
<1>2. [from |-> e.from, status |-> e.status] \in Answer
  BY DEF TypeOK, Entry, Answer
<1>3. Promise!Tell(r, [from |-> e.from, status |-> e.status])
  BY <1>1, <1>2, WriteMaps DEF CacheHit, Pending
<1>4. f \in shelfBar /\ f.key = key[r]
  BY <1>1 DEF shelfBar
<1>5. Promise!Tell(r, [from |-> f.from, status |-> f.status])
  BY <1>3
<1>6. shelfBar' = shelfBar
  BY DEF CacheHit, shelfBar
<1> QED
  BY <1>4, <1>5, <1>6 DEF Promise!TellFromShelf

LEMMA DeliverMaps ==
    ASSUME Inv, NEW r \in Requests, Deliver(r)
    PROVE  \E p \in Providers, s \in Statuses : Promise!TellFresh(r, p, s)
<1> DEFINE p == Current(r)
           s == got[r]
           new == [key |-> key[r], from |-> p, status |-> s]
<1>1. p \in Providers /\ Serves(key[r], p)
  BY CallingProvider DEF Inv, Deliver, RequestsInPlace, Serves, Current
<1>2. s \in Statuses /\ Passable(key[r], s)
  BY DEF Inv, Deliver, RequestsInPlace, Passable
<1>3. [from |-> p, status |-> s] \in Answer
  BY <1>1, <1>2 DEF Answer
<1>4. Promise!Tell(r, [from |-> p, status |-> s])
  BY <1>3, WriteMaps DEF Inv, Deliver, Pending
<1>5. shelfBar' = shelfBar \/ shelfBar' = {e \in shelfBar : e.key # key[r]} \cup {new}
  <2>1. CASE UNCHANGED cache
    BY <2>1 DEF shelfBar
  <2>2. CASE cache' = {e \in cache : e.key # key[r]}
                        \cup {[key |-> key[r], from |-> p, status |-> s,
                               left |-> CacheTTL[key[r]]]}
    <3> DEFINE fresh == [key |-> key[r], from |-> p, status |-> s, left |-> CacheTTL[key[r]]]
               Shelved(e) == [key |-> e.key, from |-> e.from, status |-> e.status]
               kept == {e \in cache : e.key # key[r]}
    <3>1. Shelved(fresh) = new
      OBVIOUS
    <3>2. cache' = kept \cup {fresh}
      BY <2>2
    <3>3. shelfBar' = {Shelved(e) : e \in cache'} /\ shelfBar = {Shelved(e) : e \in cache}
      BY DEF shelfBar
    <3>4. \A e \in cache : Shelved(e).key = e.key
      OBVIOUS
    <3> HIDE DEF fresh, Shelved, new
    <3>5. {Shelved(e) : e \in cache'} = {Shelved(e) : e \in kept} \cup {new}
      BY <3>1, <3>2 DEF kept
    <3>6. {Shelved(e) : e \in kept} = {e \in {Shelved(e) : e \in cache} : e.key # key[r]}
      BY <3>4 DEF kept
    <3> QED
      BY <3>3, <3>5, <3>6 DEF new
  <2> QED
    BY <2>1, <2>2 DEF Deliver, Store
<1> HIDE DEF p, s
<1>6. Promise!TellFresh(r, p, s)
  BY <1>1, <1>2, <1>4, <1>5 DEF Promise!TellFresh
<1> QED
  BY <1>1, <1>2, <1>6

LEMMA GiveUpMaps ==
    ASSUME TypeOK, NEW r \in Requests, Chain[key[r]] # <<>>, GiveUp(r)
    PROVE  \E s \in {502, 504} : Promise!Apologise(r, s)
<1>1. PICK s \in {502, 504} : Write(r, Failed(s))
  BY DEF GiveUp
<1>2. Failed(s) \in Answer
  BY DEF Failed, Answer
<1>3. Promise!Tell(r, Failed(s))
  BY <1>1, <1>2, WriteMaps DEF GiveUp, Pending
<1>4. Promise!Tell(r, [from |-> Gateway, status |-> s])
  BY <1>3 DEF Failed
<1>5. \E p \in Providers : Serves(key[r], p)
  <2>1. Chain[key[r]] \in Seq(Providers)
    BY ChainAssumption DEF TypeOK
  <2>2. 1 \in 1 .. Len(Chain[key[r]]) /\ Chain[key[r]][1] \in Providers
    BY <2>1
  <2> QED
    BY <2>2 DEF Serves
<1>6. shelfBar' = shelfBar
  BY DEF GiveUp, shelfBar
<1> QED
  BY <1>4, <1>5, <1>6 DEF Promise!Apologise

(* Time only takes answers off the shelf.                                  *)
LEMMA TickMaps ==
    ASSUME Tick PROVE Promise!Discard
<1>1. shelfBar' \in SUBSET shelfBar
  BY DEF Tick, shelfBar, Aged
<1>2. UNCHANGED <<stageBar, key, answer>>
  BY DEF Tick, stageBar
<1> QED
  BY <1>1, <1>2 DEF Promise!Discard

LEMMA RestartMaps ==
    ASSUME TypeOK, Restart PROVE Promise!Forget
<1>1. stageBar' = [r \in Requests |-> "free"]
  BY DEF Restart, stageBar
<1>2. UNCHANGED <<key, answer, shelfBar>>
  BY DEF Restart, shelfBar
<1> QED
  BY <1>1, <1>2 DEF Promise!Forget

(* Breaker, calls, deadlines and retries do not show.                      *)
LEMMA SearchMaps ==
    ASSUME TypeOK, NEW r \in Requests,
           pc[r] \in Pending, pc'[r] \in Pending,
           pc' = [pc EXCEPT ![r] = pc'[r]],
           UNCHANGED <<key, answer, cache>>
    PROVE  UNCHANGED Promise!promiseVars
<1>1. \A q \in Requests : pc'[q] = pc[q] \/ (pc[q] \in Pending /\ pc'[q] \in Pending)
  BY DEF TypeOK
<1>2. UNCHANGED stageBar
  BY <1>1 DEF stageBar, Pending
<1> QED
  BY <1>2, Invisible

(* No request with an empty chain is ever pending.                         *)
Routed == \A r \in Requests : pc[r] \in Pending => Chain[key[r]] # <<>>

LEMMA RoutedStep ==
    ASSUME TypeOK, Routed, [Next]_vars PROVE Routed'
<1>1. ASSUME NEW r \in Requests, NEW k \in Keys, Arrive(r, k) PROVE Routed'
  BY <1>1 DEF Arrive, Routed, Pending, TypeOK
<1>2. ASSUME UNCHANGED key, \A r \in Requests : pc'[r] \in Pending => pc[r] \in Pending
      PROVE  Routed'
  BY <1>2 DEF Routed
<1>3. ASSUME NEW r \in Requests,
             HangUp(r) \/ CallFails(r) \/ Proceed(r) \/ \E s \in Statuses : Reply(r, s)
      PROVE  Routed'
  <2>1. UNCHANGED key /\ \A q \in Requests \ {r} : pc'[q] = pc[q]
    BY <1>3
       DEF HangUp, CallFails, Proceed, Reply, ReplyUsable, ReplyRetryable, NextProvider,
           CacheHit, CacheMiss, SkipOpen, Call, Deliver, GiveUp, CallTimesOut,
           CallCancelled, CallUnavailable, Write, TypeOK
  <2>2. pc[r] \in Pending
    BY <1>3
       DEF HangUp, CallFails, Proceed, Reply, ReplyUsable, ReplyRetryable,
           CacheHit, CacheMiss, SkipOpen, Call, Deliver, GiveUp, CallTimesOut,
           CallCancelled, CallUnavailable, Pending
  <2> QED
    BY <2>1, <2>2, <1>2
<1>4. CASE Tick \/ Restart \/ UNCHANGED vars
  BY <1>4, <1>2 DEF Tick, Restart, vars, requestVars, Pending
<1> QED
  BY <1>1, <1>3, <1>4 DEF Next

LEMMA StepMaps ==
    ASSUME Inv, Routed, [Next]_vars
    PROVE  [Promise!PromiseNext]_(Promise!promiseVars)
<1>0. TypeOK
  BY DEF Inv
<1>1. ASSUME NEW r \in Requests, NEW k \in Keys, Arrive(r, k)
      PROVE  Promise!PromiseNext
  BY <1>0, <1>1, ArriveMaps DEF Promise!PromiseNext
<1>2. ASSUME NEW r \in Requests, CacheHit(r)
      PROVE  Promise!PromiseNext
  BY <1>0, <1>2, CacheHitMaps DEF Promise!PromiseNext
<1>3. ASSUME NEW r \in Requests, Deliver(r)
      PROVE  Promise!PromiseNext
  BY <1>3, DeliverMaps DEF Promise!PromiseNext
<1>4. ASSUME NEW r \in Requests, GiveUp(r)
      PROVE  Promise!PromiseNext
  <2>1. Chain[key[r]] # <<>>
    BY <1>4 DEF Routed, GiveUp, Pending
  <2> QED
    BY <1>0, <1>4, <2>1, GiveUpMaps DEF Promise!PromiseNext
<1>5. ASSUME NEW r \in Requests, NextProvider(r), pc[r] = "calling"
      PROVE  UNCHANGED Promise!promiseVars
  BY <1>0, <1>5, SearchMaps DEF NextProvider, Pending, TypeOK
<1>6. ASSUME NEW r \in Requests,
             CacheMiss(r) \/ SkipOpen(r) \/ Call(r)
      PROVE  UNCHANGED Promise!promiseVars
  BY <1>0, <1>6, SearchMaps DEF CacheMiss, SkipOpen, Call, Pending, TypeOK
<1>7. ASSUME NEW r \in Requests, NEW s \in Statuses, ReplyUsable(r, s)
      PROVE  UNCHANGED Promise!promiseVars
  BY <1>0, <1>7, SearchMaps DEF ReplyUsable, Pending, TypeOK
<1>8. ASSUME NEW r \in Requests, HangUp(r)
      PROVE  UNCHANGED Promise!promiseVars
  BY <1>8, Invisible DEF HangUp, stageBar
<1>9. CASE Tick
  BY <1>9, TickMaps DEF Promise!PromiseNext
<1>10. CASE Restart
  BY <1>0, <1>10, RestartMaps DEF Promise!PromiseNext
<1>11. CASE UNCHANGED vars
  BY <1>11, Invisible DEF vars, requestVars, stageBar
<1>12. ASSUME NEW r \in Requests, NEW s \in Statuses, Reply(r, s)
       PROVE  UNCHANGED Promise!promiseVars
  BY <1>5, <1>7, <1>12 DEF Reply, ReplyRetryable
<1>13. ASSUME NEW r \in Requests, CallFails(r) \/ Proceed(r)
       PROVE  [Promise!PromiseNext]_(Promise!promiseVars)
  BY <1>2, <1>3, <1>4, <1>5, <1>6, <1>13
     DEF CallFails, Proceed, CallTimesOut, CallCancelled, CallUnavailable
<1> QED
  BY <1>1, <1>8, <1>9, <1>10, <1>11, <1>12, <1>13 DEF Next

(* The gateway implements its promise: whatever happens to breaker, calls, *)
(* deadlines and cache, clients only ever see what GatewayPromise allows.  *)
THEOREM GatewayKeepsPromise == Spec => KeepsPromise
<1>1. Init => Routed
  BY DEF Init, Routed, Pending
<1>2. Inv /\ Routed /\ [Next]_vars => Routed'
  BY RoutedStep DEF Inv
<1>3. Inv /\ Routed /\ [Next]_vars => [Promise!PromiseNext]_(Promise!promiseVars)
  BY StepMaps
<1> QED
  BY <1>1, <1>2, <1>3, InitMaps, InvAlways, PTL DEF Spec, KeepsPromise, Promise!PromiseSpec

-----------------------------------------------------------------------------
(***************************************************************************)
(* How the work wears down: the part of "every request is answered" and    *)
(* "every cooldown ends" that does not speak of fairness.                  *)
(***************************************************************************)
(* The providers of its chain a request has not been through yet, and one  *)
(* for the end of the chain.                                               *)
Room(r) == Len(Chain[key[r]]) + 1 - idx[r]

InRoom ==
    \A r \in Requests :
        /\ pc[r] \in {"idle", "answered", "lookup"} => idx[r] = 1
        /\ pc[r] = "select" => Room(r) >= 0

(* Steps a request has before it at most.                                  *)
StepsLeft(r) ==
    CASE pc[r] = "lookup" -> 2 * Room(r) + 2
      [] pc[r] = "select" -> 2 * Room(r) + 1
      [] pc[r] = "calling" -> 2 * Room(r)
      [] pc[r] = "deliver" -> 1
      [] OTHER -> 0

(* A step of the request's own goroutine, whatever its provider did.       *)
Acts(r) == Proceed(r) \/ CallFails(r) \/ \E s \in Statuses : Reply(r, s)

(* Its steps use them up, no other step gives it new ones, and the         *)
(* deadline of an attempt only comes nearer.                               *)
RequestsWearDown ==
    \A r \in Requests :
        /\ Acts(r) => StepsLeft(r)' < StepsLeft(r)
        /\ pc[r] \in Pending => StepsLeft(r)' <= StepsLeft(r)
        /\ pc[r] = "calling" => left'[r] <= left[r]
        /\ Tick /\ left[r] > 0 => left'[r] < left[r]

(* While a provider is shut out no new call of it begins, and only a call  *)
(* of it that ends can put off the end of its cooldown.                    *)
CooldownsWearDown ==
    \A p \in Providers : openFor[p] > 0 =>
        /\ InFlight(p)' \subseteq InFlight(p)
        /\ openFor'[p] > openFor[p] => InFlight(p)' # InFlight(p)
        /\ Tick => openFor'[p] < openFor[p]

LEMMA RoomType ==
    ASSUME TypeOK, NEW r \in Requests
    PROVE  Room(r) \in Int /\ Len(Chain[key[r]]) \in Nat /\ idx[r] \in Nat
<1>1. Chain[key[r]] \in Seq(Providers)
  BY ChainAssumption DEF ChainAssumption, TypeOK
<1>2. Len(Chain[key[r]]) \in Nat /\ idx[r] \in Nat
  BY <1>1 DEF TypeOK
<1> QED
  BY <1>2 DEF Room

LEMMA StepsLeftIs ==
    ASSUME TypeOK, RequestsInPlace, InRoom, NEW r \in Requests
    PROVE  /\ Room(r) \in Int
           /\ pc[r] = "lookup" => StepsLeft(r) = 2 * Room(r) + 2 /\ Room(r) >= 0
           /\ pc[r] = "select" => StepsLeft(r) = 2 * Room(r) + 1 /\ Room(r) >= 0
           /\ pc[r] = "calling" => StepsLeft(r) = 2 * Room(r) /\ Room(r) >= 1
           /\ pc[r] = "deliver" => StepsLeft(r) = 1
           /\ pc[r] \notin Pending => StepsLeft(r) = 0
           /\ StepsLeft(r) \in 0 .. 2 * Len(Chain[key[r]]) + 2
<1>1. /\ Len(Chain[key[r]]) \in Nat /\ idx[r] \in Nat \ {0}
      /\ pc[r] \in Pending \cup {"idle", "answered"}
      /\ Room(r) \in Int
  BY RoomType DEF TypeOK
<1> DEFINE n == Len(Chain[key[r]])
<1>2. Room(r) = n + 1 - idx[r]
  BY DEF Room
<1>3. /\ pc[r] = "lookup" => Room(r) >= 0
      /\ pc[r] = "select" => Room(r) >= 0
      /\ pc[r] = "calling" => Room(r) >= 1
  <2>1. /\ pc[r] = "lookup" => idx[r] = 1
        /\ pc[r] = "select" => Room(r) >= 0
        /\ pc[r] = "calling" => idx[r] \in 1 .. n
    BY DEF InRoom, RequestsInPlace
  <2> HIDE DEF n
  <2> QED
    BY <1>1, <1>2, <2>1 DEF n
<1>4. /\ pc[r] = "lookup" => StepsLeft(r) = 2 * Room(r) + 2
      /\ pc[r] = "select" => StepsLeft(r) = 2 * Room(r) + 1
      /\ pc[r] = "calling" => StepsLeft(r) = 2 * Room(r)
      /\ pc[r] = "deliver" => StepsLeft(r) = 1
      /\ pc[r] \notin Pending => StepsLeft(r) = 0
  BY DEF StepsLeft, Pending
<1>5. Room(r) <= n /\ n \in Nat
  <2> HIDE DEF n
  <2> QED
    BY <1>1, <1>2 DEF n
<1>6. StepsLeft(r) \in 0 .. 2 * n + 2
  <2> HIDE DEF n
  <2> QED
    BY <1>1, <1>3, <1>4, <1>5 DEF Pending
<1> QED
  BY <1>1, <1>3, <1>4, <1>6

(* What a step of r's goroutine does to where r stands.                    *)
LEMMA ActorMoves ==
    ASSUME TypeOK, NEW r \in Requests, Acts(r)
    PROVE  /\ key'[r] = key[r]
           /\ \/ /\ pc[r] = "lookup" /\ pc'[r] = "select" /\ idx'[r] = idx[r]
                 /\ left'[r] = left[r]
              \/ /\ pc[r] = "select" /\ pc'[r] = "select" /\ idx'[r] = idx[r] + 1
                 /\ ~ChainDone(r)
              \/ /\ pc[r] = "select" /\ pc'[r] = "calling" /\ idx'[r] = idx[r]
              \/ /\ pc[r] = "calling" /\ pc'[r] = "select" /\ idx'[r] = idx[r] + 1
                 /\ left'[r] = 0
              \/ /\ pc[r] = "calling" /\ pc'[r] = "deliver" /\ idx'[r] = idx[r]
                 /\ left'[r] = 0
              \/ /\ pc[r] \in {"lookup", "select", "deliver"} /\ pc'[r] = "answered"
                 /\ idx'[r] = 1
<1>0. /\ pc \in [Requests -> Pending \cup {"idle", "answered"}]
      /\ key \in [Requests -> Keys] /\ idx \in [Requests -> Nat \ {0}]
      /\ left \in [Requests -> Nat]
  BY DEF TypeOK
<1>1. CASE CacheHit(r) \/ Deliver(r) \/ GiveUp(r)
  BY <1>0, <1>1 DEF CacheHit, Deliver, GiveUp, Write
<1>2. CASE CacheMiss(r)
  BY <1>0, <1>2 DEF CacheMiss
<1>3. CASE SkipOpen(r)
  BY <1>0, <1>3 DEF SkipOpen
<1>4. CASE Call(r)
  BY <1>0, <1>4 DEF Call
<1>5. CASE pc[r] = "calling" /\ NextProvider(r)
  BY <1>0, <1>5 DEF NextProvider
<1>6. CASE \E s \in Statuses : ReplyUsable(r, s)
  BY <1>0, <1>6 DEF ReplyUsable
<1> QED
  BY <1>1, <1>2, <1>3, <1>4, <1>5, <1>6
     DEF Acts, Proceed, Reply, ReplyRetryable, CallFails, CallTimesOut, CallCancelled,
         CallUnavailable

(* The other requests stay where they are.                                 *)
LEMMA OthersStay ==
    ASSUME TypeOK, NEW r \in Requests, NEW q \in Requests \ {r},
           Acts(r) \/ HangUp(r) \/ \E k \in Keys : Arrive(r, k)
    PROVE  pc'[q] = pc[q] /\ key'[q] = key[q] /\ idx'[q] = idx[q] /\ left'[q] = left[q]
<1>0. /\ pc \in [Requests -> Pending \cup {"idle", "answered"}]
      /\ key \in [Requests -> Keys] /\ idx \in [Requests -> Nat \ {0}]
      /\ left \in [Requests -> Nat]
  BY DEF TypeOK
<1>1. CASE CacheHit(r) \/ Deliver(r) \/ GiveUp(r)
  BY <1>0, <1>1 DEF CacheHit, Deliver, GiveUp, Write
<1>2. CASE CacheMiss(r) \/ SkipOpen(r) \/ Call(r)
  BY <1>0, <1>2 DEF CacheMiss, SkipOpen, Call
<1>3. CASE NextProvider(r) \/ \E s \in Statuses : ReplyUsable(r, s)
  BY <1>0, <1>3 DEF NextProvider, ReplyUsable
<1>4. CASE HangUp(r) \/ \E k \in Keys : Arrive(r, k)
  BY <1>0, <1>4 DEF HangUp, Arrive
<1> QED
  BY <1>1, <1>2, <1>3, <1>4
     DEF Acts, Proceed, Reply, ReplyRetryable, CallFails, CallTimesOut, CallCancelled,
         CallUnavailable

(* One goroutine acts, one client does, the clock ticks or all begins anew.*)
LEMMA WhoActs ==
    ASSUME [Next]_vars
    PROVE  \/ \E r \in Requests : Acts(r) \/ HangUp(r) \/ \E k \in Keys : Arrive(r, k)
           \/ Tick \/ Restart \/ UNCHANGED vars
  BY DEF Next, Acts

LEMMA RoomStep ==
    ASSUME TypeOK, RequestsInPlace, InRoom, [Next]_vars PROVE InRoom'
<1> SUFFICES ASSUME NEW q \in Requests
             PROVE  /\ pc'[q] \in {"idle", "answered", "lookup"} => idx'[q] = 1
                    /\ pc'[q] = "select" => Room(q)' >= 0
  BY DEF InRoom
<1>0. /\ pc[q] \in {"idle", "answered", "lookup"} => idx[q] = 1
      /\ pc[q] = "select" => Room(q) >= 0
      /\ Room(q) \in Int /\ Len(Chain[key[q]]) \in Nat /\ idx[q] \in Nat
  BY RoomType DEF InRoom
<1>1. CASE pc'[q] = pc[q] /\ key'[q] = key[q] /\ idx'[q] = idx[q]
  <2>1. Room(q)' = Room(q)
    BY <1>1 DEF Room
  <2> QED
    BY <1>0, <1>1, <2>1
<1>2. CASE Acts(q)
  <2>1. Room(q)' = IF idx'[q] = idx[q] THEN Room(q)
                   ELSE Len(Chain[key[q]]) + 1 - idx'[q]
    BY <1>2, ActorMoves DEF Room
  <2>2. CASE pc[q] = "lookup" /\ pc'[q] = "select" /\ idx'[q] = idx[q]
    <3>1. Room(q) >= 0
      BY <1>0, <2>2, StepsLeftIs
    <3> QED
      BY <2>1, <2>2, <3>1
  <2>3. CASE pc[q] = "select" /\ ~ChainDone(q) /\ pc'[q] = "select" /\ idx'[q] = idx[q] + 1
    BY <1>0, <2>1, <2>3 DEF ChainDone
  <2>4. CASE pc[q] = "calling" /\ pc'[q] = "select" /\ idx'[q] = idx[q] + 1
    <3>1. idx[q] <= Len(Chain[key[q]])
      BY <2>4 DEF RequestsInPlace
    <3> QED
      BY <1>0, <2>1, <2>4, <3>1
  <2>5. CASE pc'[q] \in {"calling", "deliver"}
    BY <2>5
  <2>6. CASE pc'[q] = "answered" /\ idx'[q] = 1
    BY <2>6
  <2> QED
    BY <1>2, <2>2, <2>3, <2>4, <2>5, <2>6, ActorMoves
<1>3. ASSUME NEW k \in Keys, Arrive(q, k)
      PROVE  pc'[q] \in {"answered", "lookup"} /\ idx'[q] = 1
  BY <1>0, <1>3 DEF Arrive, TypeOK
<1>4. CASE Tick \/ UNCHANGED vars \/ HangUp(q)
  BY <1>1, <1>4 DEF Tick, vars, requestVars, HangUp
<1>5. CASE Restart
  BY <1>5 DEF Restart
<1>6. ASSUME NEW r \in Requests \ {q}, Acts(r) \/ HangUp(r) \/ \E k \in Keys : Arrive(r, k)
      PROVE  pc'[q] = pc[q] /\ key'[q] = key[q] /\ idx'[q] = idx[q]
  BY <1>6, OthersStay
<1> QED
  BY <1>1, <1>2, <1>3, <1>4, <1>5, <1>6, WhoActs

LEMMA ActsWears ==
    ASSUME TypeOK, RequestsInPlace, InRoom, NEW r \in Requests, Acts(r)
    PROVE  /\ StepsLeft(r)' < StepsLeft(r) /\ pc[r] \in Pending
           /\ StepsLeft(r)' \in Int
           /\ pc[r] = "calling" => left'[r] <= left[r]
<1>0. /\ Room(r) \in Int
      /\ pc[r] = "lookup" => StepsLeft(r) = 2 * Room(r) + 2 /\ Room(r) >= 0
      /\ pc[r] = "select" => StepsLeft(r) = 2 * Room(r) + 1 /\ Room(r) >= 0
      /\ pc[r] = "calling" => StepsLeft(r) = 2 * Room(r) /\ Room(r) >= 1
      /\ pc[r] = "deliver" => StepsLeft(r) = 1
  BY StepsLeftIs
<1>1. /\ pc'[r] = "select" => StepsLeft(r)' = 2 * Room(r)' + 1
      /\ pc'[r] = "calling" => StepsLeft(r)' = 2 * Room(r)'
      /\ pc'[r] = "deliver" => StepsLeft(r)' = 1
      /\ pc'[r] = "answered" => StepsLeft(r)' = 0
  BY DEF StepsLeft
<1>2. /\ idx'[r] = idx[r] => Room(r)' = Room(r)
      /\ idx'[r] = idx[r] + 1 => Room(r)' = Room(r) - 1
  <2> DEFINE n == Len(Chain[key[r]])
  <2>1. n \in Nat /\ idx[r] \in Nat /\ key'[r] = key[r]
    BY RoomType, ActorMoves
  <2>2. Room(r) = n + 1 - idx[r]
    BY DEF Room
  <2>3. Room(r)' = n + 1 - idx'[r]
    BY <2>1 DEF Room
  <2> HIDE DEF n
  <2> QED
    BY <2>1, <2>2, <2>3
<1>3. CASE pc'[r] = "answered"
  BY <1>0, <1>1, <1>3, ActorMoves DEF Pending
<1>4. CASE pc[r] = "lookup" /\ pc'[r] = "select" /\ idx'[r] = idx[r]
  BY <1>0, <1>1, <1>2, <1>4 DEF Pending
<1>5. CASE pc[r] = "select" /\ pc'[r] = "select" /\ idx'[r] = idx[r] + 1
  BY <1>0, <1>1, <1>2, <1>5 DEF Pending
<1>6. CASE pc[r] = "select" /\ pc'[r] = "calling" /\ idx'[r] = idx[r]
  BY <1>0, <1>1, <1>2, <1>6 DEF Pending
<1>7. CASE pc[r] = "calling" /\ pc'[r] = "select" /\ idx'[r] = idx[r] + 1 /\ left'[r] = 0
  BY <1>0, <1>1, <1>2, <1>7 DEF Pending, TypeOK
<1>8. CASE pc[r] = "calling" /\ pc'[r] = "deliver" /\ left'[r] = 0
  BY <1>0, <1>1, <1>8 DEF Pending, TypeOK
<1> QED
  BY <1>3, <1>4, <1>5, <1>6, <1>7, <1>8, ActorMoves

LEMMA RequestWears ==
    ASSUME TypeOK, RequestsInPlace, InRoom, Next, NEW r \in Requests
    PROVE  /\ Acts(r) => StepsLeft(r)' < StepsLeft(r)
           /\ pc[r] \in Pending => StepsLeft(r)' <= StepsLeft(r)
           /\ pc[r] = "calling" => left'[r] <= left[r]
           /\ Tick /\ left[r] > 0 => left'[r] < left[r]
<1>0. StepsLeft(r) \in Int /\ StepsLeft(r) >= 0 /\ left[r] \in Nat
  BY StepsLeftIs, RoomType DEF TypeOK
<1>1. Tick => UNCHANGED <<pc, key, idx>> /\ left'[r] = IF left[r] > 0 THEN left[r] - 1 ELSE 0
  BY DEF Tick
<1>2. Acts(r) => /\ StepsLeft(r)' < StepsLeft(r) /\ StepsLeft(r)' \in Int
                 /\ pc[r] = "calling" => left'[r] <= left[r]
  BY ActsWears
<1>3. pc'[r] = pc[r] /\ key'[r] = key[r] /\ idx'[r] = idx[r] => StepsLeft(r)' = StepsLeft(r)
  BY DEF StepsLeft, Room
<1>4. CASE Acts(r)
  BY <1>0, <1>1, <1>2, <1>4
<1>5. CASE ~Acts(r) /\ Tick
  BY <1>0, <1>1, <1>3, <1>5
<1>6. CASE ~Acts(r) /\ ~Tick /\ Restart
  <2>1. pc'[r] = "idle" /\ left'[r] = 0
    BY <1>6 DEF Restart
  <2>2. StepsLeft(r)' = 0
    BY <2>1 DEF StepsLeft
  <2> QED
    BY <1>0, <1>6, <2>1, <2>2
<1>7. CASE ~Acts(r) /\ ~Tick /\ pc[r] \in Pending
           /\ pc'[r] = pc[r] /\ key'[r] = key[r] /\ idx'[r] = idx[r] /\ left'[r] = left[r]
  BY <1>0, <1>3, <1>7
<1>8. ASSUME NEW q \in Requests \ {r}, Acts(q) \/ HangUp(q) \/ \E k \in Keys : Arrive(q, k)
      PROVE  pc'[r] = pc[r] /\ key'[r] = key[r] /\ idx'[r] = idx[r] /\ left'[r] = left[r]
  BY <1>8, OthersStay
<1>9. HangUp(r) => pc'[r] = pc[r] /\ key'[r] = key[r] /\ idx'[r] = idx[r] /\ left'[r] = left[r]
  BY DEF HangUp
<1>10. CASE ~Acts(r) /\ ~Tick /\ pc[r] \notin Pending
  BY <1>10 DEF Pending
<1>11. (\E k \in Keys : Arrive(r, k)) => pc[r] \notin Pending
  BY DEF Arrive, Pending
<1>12. UNCHANGED vars => pc'[r] = pc[r] /\ key'[r] = key[r] /\ idx'[r] = idx[r] /\ left'[r] = left[r]
  BY DEF vars, requestVars
<1> QED
  BY <1>4, <1>5, <1>6, <1>7, <1>8, <1>9, <1>10, <1>11, <1>12, WhoActs

(* A request goes through its chain once at most, in order: every step of  *)
(* its goroutine, be it a hit, a skip, a failure or an answer, brings its  *)
(* end nearer, and neither the other requests nor its client put it off;   *)
(* an attempt's deadline only comes nearer.                                *)
THEOREM RequestsAlwaysWearDown ==
    Spec => /\ [](\A r \in Requests : StepsLeft(r) \in 0 .. 2 * Len(Chain[key[r]]) + 2)
            /\ [][RequestsWearDown]_vars
<1>1. Init => InRoom
  BY DEF Init, InRoom
<1>2. Inv /\ InRoom /\ [Next]_vars => InRoom'
  BY RoomStep DEF Inv
<1>3. Inv /\ InRoom /\ [Next]_vars => [RequestsWearDown]_vars
  BY RequestWears DEF Inv, RequestsWearDown
<1>4. Inv /\ InRoom => \A r \in Requests : StepsLeft(r) \in 0 .. 2 * Len(Chain[key[r]]) + 2
  BY StepsLeftIs DEF Inv
<1> QED
  BY <1>1, <1>2, <1>3, <1>4, InvAlways, PTL DEF Spec

(* A step of a goroutine keeps the other calls of every provider, begins   *)
(* none of one that is shut out, and opens no breaker but its provider's.  *)
LEMMA ActsCooldown ==
    ASSUME TypeOK, NEW r \in Requests, Acts(r), NEW p \in Providers, openFor[p] > 0
    PROVE  /\ InFlight(p)' \subseteq InFlight(p)
           /\ openFor'[p] > openFor[p] => InFlight(p)' # InFlight(p)
<1>0. /\ pc \in [Requests -> Pending \cup {"idle", "answered"}]
      /\ openFor \in [Providers -> NotOpen .. Cooldown] /\ NotOpen .. Cooldown \subseteq Int
  BY CooldownAssumption DEF TypeOK, CircuitTypeOK, CooldownAssumption, NotOpen
<1>1. \A q \in Requests \ {r} : q \in InFlight(p)' <=> q \in InFlight(p)
  BY OthersStay DEF InFlight, Current
<1>2. InFlight(p) \subseteq Requests /\ InFlight(p)' \subseteq Requests
  BY DEF InFlight
<1>3. CASE Call(r)
  <2>1. Current(r) # p /\ Current(r)' = Current(r)
    <3>1. openFor[Current(r)] <= 0
      BY <1>3 DEF Call, Allow, Allowed
    <3>2. UNCHANGED <<key, idx>>
      BY <1>3 DEF Call
    <3>3. openFor[p] \in Int /\ openFor[p] > 0
      BY <1>0
    <3> QED
      BY <3>1, <3>2, <3>3 DEF Current
  <2>2. r \notin InFlight(p)'
    BY <2>1 DEF InFlight
  <2>3. openFor'[p] = openFor[p]
    BY <1>0, <1>3, <2>1 DEF Call, Allow, circuitVars
  <2> QED
    BY <1>0, <1>1, <1>2, <2>2, <2>3
<1>4. CASE pc[r] = "calling" /\ NextProvider(r)
  <2>1. r \notin InFlight(p)'
    BY <1>0, <1>4 DEF NextProvider, InFlight
  <2>2. CASE Current(r) = p
    <3>1. r \in InFlight(p)
      BY <1>4, <2>2 DEF InFlight
    <3> QED
      BY <1>1, <1>2, <2>1, <3>1
  <2>3. CASE Current(r) # p
    <3>1. openFor'[p] = openFor[p]
      BY <1>0, <1>4, <2>3 DEF NextProvider, Failure
    <3> QED
      BY <1>0, <1>1, <1>2, <2>1, <3>1
  <2> QED
    BY <2>2, <2>3
<1>5. CASE \E s \in Statuses : ReplyUsable(r, s)
  <2>1. r \notin InFlight(p)'
    BY <1>0, <1>5 DEF ReplyUsable, InFlight
  <2>2. openFor'[p] \in {NotOpen, openFor[p]}
    BY <1>0, <1>5 DEF ReplyUsable, Success
  <2>3. ~(openFor'[p] > openFor[p])
    BY <1>0, <2>2 DEF NotOpen
  <2> QED
    BY <1>1, <1>2, <2>1, <2>3
<1>6. CASE CacheHit(r) \/ CacheMiss(r) \/ SkipOpen(r) \/ Deliver(r) \/ GiveUp(r)
  <2>1. r \notin InFlight(p)'
    BY <1>0, <1>6 DEF CacheHit, CacheMiss, SkipOpen, Deliver, GiveUp, Write, InFlight
  <2>2. openFor'[p] = openFor[p]
    BY <1>6 DEF CacheHit, CacheMiss, SkipOpen, Deny, Deliver, GiveUp, circuitVars
  <2> QED
    BY <1>0, <1>1, <1>2, <2>1, <2>2
<1> QED
  BY <1>3, <1>4, <1>5, <1>6
     DEF Acts, Proceed, Reply, ReplyRetryable, CallFails, CallTimesOut, CallCancelled,
         CallUnavailable

(* A provider is not shut out for ever by calls that fail late: they are   *)
(* the ones that were under way, each of them puts the end of the cooldown *)
(* off once, and none joins them before it.                                *)
THEOREM CooldownsAlwaysWearDown == Spec => [][CooldownsWearDown]_vars
<1>1. Inv /\ [Next]_vars => [CooldownsWearDown]_vars
  <2> SUFFICES ASSUME Inv, Next, NEW p \in Providers, openFor[p] > 0
               PROVE  /\ InFlight(p)' \subseteq InFlight(p)
                      /\ openFor'[p] > openFor[p] => InFlight(p)' # InFlight(p)
                      /\ Tick => openFor'[p] < openFor[p]
    BY DEF CooldownsWearDown
  <2>0. /\ TypeOK /\ openFor \in [Providers -> NotOpen .. Cooldown]
        /\ NotOpen .. Cooldown \subseteq Int
    BY CooldownAssumption DEF Inv, TypeOK, CircuitTypeOK, CooldownAssumption, NotOpen
  <2>1. Tick => openFor'[p] = openFor[p] - 1 /\ UNCHANGED <<pc, key, idx>>
    BY <2>0 DEF Tick, CircuitTick
  <2>2. CASE Tick
    <3>1. InFlight(p)' = InFlight(p)
      BY <2>1, <2>2 DEF InFlight, Current
    <3> QED
      BY <2>0, <2>1, <2>2, <3>1
  <2>3. ASSUME NEW r \in Requests, Acts(r)
        PROVE  /\ InFlight(p)' \subseteq InFlight(p)
               /\ openFor'[p] > openFor[p] => InFlight(p)' # InFlight(p)
    BY <2>0, <2>3, ActsCooldown
  <2>4. ASSUME NEW r \in Requests, HangUp(r) \/ \E k \in Keys : Arrive(r, k)
        PROVE  InFlight(p)' = InFlight(p) /\ openFor'[p] = openFor[p]
    <3>1. \A q \in Requests \ {r} : q \in InFlight(p)' <=> q \in InFlight(p)
      BY <2>0, <2>4, OthersStay DEF InFlight, Current
    <3>2. r \in InFlight(p)' <=> r \in InFlight(p)
      BY <2>0, <2>4 DEF HangUp, Arrive, InFlight, Current, TypeOK
    <3>3. openFor' = openFor
      BY <2>4 DEF HangUp, Arrive, circuitVars
    <3> QED
      BY <3>1, <3>2, <3>3 DEF InFlight
  <2>5. CASE Restart
    <3>1. InFlight(p)' = {} /\ openFor'[p] = NotOpen
      BY <2>5 DEF Restart, InFlight
    <3> QED
      BY <2>0, <2>2, <3>1 DEF NotOpen
  <2>6. CASE ~Tick /\ ~Restart
    <3>1. PICK r \in Requests : Acts(r) \/ HangUp(r) \/ (\E k \in Keys : Arrive(r, k)) \/ UNCHANGED vars
      BY <2>6 DEF Next, Acts
    <3>2. CASE UNCHANGED vars
      <4>1. InFlight(p)' = InFlight(p) /\ openFor'[p] = openFor[p]
        BY <3>2 DEF vars, requestVars, circuitVars, InFlight, Current
      <4> QED
        BY <2>0, <2>6, <4>1
    <3> QED
      BY <2>0, <2>3, <2>4, <2>6, <3>1, <3>2
  <2> QED
    BY <2>2, <2>5, <2>6
<1> QED
  BY <1>1, InvAlways, PTL DEF Spec

-----------------------------------------------------------------------------
(***************************************************************************)
(* What the breaker guarantees of its backoff window: the same system,     *)
(* with the memory IragBreakerAudit gives it.                              *)
(***************************************************************************)

(* Recording changes nothing: an audited step is a step of the gateway.    *)
LEMMA AuditStep == [AuditNext]_<<vars, auditVars>> => [Next]_vars
  BY DEF AuditNext, Next, Proceed, Reply, OwnFailure

LEMMA AuditInvAlways == AuditSpec => []Inv
<1>1. AuditSpec => Spec
  <2>1. AuditInit => Init
    BY DEF AuditInit
  <2> QED
    BY <2>1, AuditStep, PTL DEF AuditSpec, Spec
<1> QED
  BY <1>1, InvAlways, PTL

AuditTypeOK ==
    /\ backoff \in [Providers -> Nat]
    /\ pardoned \in [Providers -> BOOLEAN]

(* Without a pardon the breaker stays open for as long as the window lasts.*)
Covered(p) == pardoned[p] \/ backoff[p] = 0 \/ backoff[p] <= openFor[p]

WindowCovered == AuditTypeOK /\ \A p \in Providers : Covered(p)

LEMMA WindowFailure ==
    ASSUME Inv, WindowCovered, NEW q \in Providers, NEW own, Failure(q), NoteFailure(q, own)
    PROVE  WindowCovered'
<1>0. CircuitTypeOK
  BY DEF Inv, TypeOK
<1>1. CASE openFor'[q] = Cooldown
  <2>1. /\ backoff' = [backoff EXCEPT ![q] = Cooldown]
        /\ pardoned' = [pardoned EXCEPT ![q] = FALSE]
    BY <1>1 DEF NoteFailure
  <2>2. openFor' = [openFor EXCEPT ![q] = Cooldown]
    BY <1>0, <1>1 DEF Failure, CircuitTypeOK
  <2>3. AuditTypeOK'
    BY <2>1, CooldownAssumption DEF CooldownAssumption, WindowCovered, AuditTypeOK
  <2>4. ASSUME NEW p \in Providers PROVE Covered(p)'
    <3>1. CASE p = q
      BY <1>0, <2>1, <2>2, <3>1, CooldownAssumption
         DEF CooldownAssumption, WindowCovered, AuditTypeOK, CircuitTypeOK, Covered
    <3>2. CASE p # q
      <4>1. backoff'[p] = backoff[p] /\ pardoned'[p] = pardoned[p] /\ openFor'[p] = openFor[p]
        BY <1>0, <2>1, <2>2, <3>2 DEF WindowCovered, AuditTypeOK, CircuitTypeOK
      <4> QED
        BY <4>1 DEF WindowCovered, Covered
    <3> QED
      BY <3>1, <3>2
  <2> QED
    BY <2>3, <2>4 DEF WindowCovered
<1>2. CASE openFor'[q] # Cooldown
  <2>1. openFor' = openFor
    BY <1>0, <1>2 DEF Failure, CircuitTypeOK
  <2>2. UNCHANGED <<backoff, pardoned>>
    BY <1>2 DEF NoteFailure
  <2> QED
    BY <2>1, <2>2 DEF WindowCovered, AuditTypeOK, Covered
<1> QED
  BY <1>1, <1>2

LEMMA WindowSuccess ==
    ASSUME Inv, WindowCovered, NEW q \in Providers, Success(q), NoteSuccess(q)
    PROVE  WindowCovered'
<1>0. CircuitTypeOK /\ AuditTypeOK
  BY DEF Inv, TypeOK, WindowCovered
<1>1. pardoned' = [pardoned EXCEPT ![q] = backoff[q] > 0] /\ backoff' = backoff
  BY DEF NoteSuccess
<1>2. AuditTypeOK'
  BY <1>0, <1>1 DEF AuditTypeOK
<1>3. ASSUME NEW p \in Providers PROVE Covered(p)'
  <2>1. CASE p = q
    <3>1. (pardoned'[q] <=> backoff[q] > 0) /\ backoff[q] \in Nat
      BY <1>0, <1>1 DEF AuditTypeOK
    <3>2. backoff[q] > 0 \/ backoff[q] = 0
      BY <3>1
    <3> QED
      BY <1>1, <2>1, <3>1, <3>2 DEF Covered
  <2>2. CASE p # q
    <3>1. backoff'[p] = backoff[p] /\ pardoned'[p] = pardoned[p] /\ openFor'[p] = openFor[p]
      BY <1>0, <1>1, <2>2 DEF AuditTypeOK, CircuitTypeOK, Success
    <3> QED
      BY <3>1 DEF WindowCovered, Covered
  <2> QED
    BY <2>1, <2>2
<1> QED
  BY <1>2, <1>3 DEF WindowCovered

(* Allow clears a record only when no time is left on it.                  *)
LEMMA WindowAllow ==
    ASSUME Inv, WindowCovered, NEW q \in Providers, Allow(q), UNCHANGED <<backoff, pardoned>>
    PROVE  WindowCovered'
<1>0. CircuitTypeOK /\ AuditTypeOK
  BY DEF Inv, TypeOK, WindowCovered
<1>1. ASSUME NEW p \in Providers PROVE openFor'[p] = openFor[p] \/ openFor[p] = 0
  BY <1>0 DEF Allow, CooldownOver, CircuitTypeOK, circuitVars
<1>2. ASSUME NEW p \in Providers PROVE Covered(p)'
  <2>1. backoff[p] \in Nat /\ Covered(p)
    BY <1>0 DEF AuditTypeOK, WindowCovered
  <2>2. pardoned[p] \/ backoff[p] = 0 \/ backoff[p] <= openFor'[p]
    BY <1>1, <2>1 DEF Covered
  <2> QED
    BY <2>2 DEF Covered
<1> QED
  BY <1>0, <1>2 DEF WindowCovered, AuditTypeOK

LEMMA WindowTick ==
    ASSUME Inv, WindowCovered, CircuitTick, NoteTick PROVE WindowCovered'
<1>0. CircuitTypeOK /\ AuditTypeOK
  BY DEF Inv, TypeOK, WindowCovered
<1>1. AuditTypeOK'
  <2>1. backoff' \in [Providers -> Nat]
    BY <1>0 DEF NoteTick, AuditTypeOK
  <2>2. pardoned' \in [Providers -> BOOLEAN]
    BY <1>0 DEF NoteTick, AuditTypeOK
  <2> QED
    BY <2>1, <2>2 DEF AuditTypeOK
<1>2. ASSUME NEW p \in Providers PROVE Covered(p)'
  <2>1. /\ backoff[p] \in Nat
        /\ openFor[p] \in NotOpen .. Cooldown
        /\ backoff'[p] = IF backoff[p] > 0 THEN backoff[p] - 1 ELSE 0
        /\ openFor'[p] = IF openFor[p] > 0 THEN openFor[p] - 1 ELSE openFor[p]
    BY <1>0 DEF NoteTick, CircuitTick, AuditTypeOK, CircuitTypeOK
  <2>2. CASE pardoned[p]
    <3>1. pardoned'[p] <=> backoff'[p] > 0
      BY <2>2 DEF NoteTick
    <3>2. backoff'[p] > 0 \/ backoff'[p] = 0
      BY <2>1
    <3> QED
      BY <3>1, <3>2 DEF Covered
  <2>3. CASE backoff[p] = 0 \/ backoff[p] <= openFor[p]
    <3>1. backoff'[p] = 0 \/ backoff'[p] <= openFor'[p]
      BY <2>1, <2>3, CooldownAssumption DEF CooldownAssumption, NotOpen
    <3> QED
      BY <3>1 DEF Covered
  <2> QED
    BY <2>2, <2>3 DEF WindowCovered, Covered
<1> QED
  BY <1>1, <1>2 DEF WindowCovered

LEMMA WindowStep ==
    ASSUME Inv, WindowCovered, [AuditNext]_<<vars, auditVars>> PROVE WindowCovered'
<1>1. ASSUME UNCHANGED <<openFor, backoff, pardoned>> PROVE WindowCovered'
  BY <1>1 DEF WindowCovered, AuditTypeOK, Covered
<1>2. ASSUME NEW r \in Requests, NEW k \in Keys, Arrive(r, k), UNCHANGED auditVars
      PROVE  WindowCovered'
  BY <1>1, <1>2 DEF Arrive, circuitVars, auditVars
<1>3. ASSUME NEW r \in Requests, UNCHANGED auditVars,
             HangUp(r) \/ CacheHit(r) \/ CacheMiss(r) \/ SkipOpen(r) \/ Deliver(r) \/ GiveUp(r)
      PROVE  WindowCovered'
  BY <1>1, <1>3
     DEF HangUp, CacheHit, CacheMiss, SkipOpen, Deny, Deliver, GiveUp, circuitVars, auditVars
<1>4. ASSUME NEW r \in Requests, Call(r), NoteCall(r) PROVE WindowCovered'
  <2>1. Current(r) \in Providers
    BY <1>4, SelectedProvider DEF Call, Inv
  <2> QED
    BY <1>4, <2>1, WindowAllow DEF Call, NoteCall
<1>5. ASSUME NEW r \in Requests, NEW own, pc[r] = "calling", NextProvider(r),
             NoteFailure(Current(r), own)
      PROVE  WindowCovered'
  <2>1. Current(r) \in Providers
    BY <1>5, CallingProvider DEF Inv
  <2> QED
    BY <1>5, <2>1, WindowFailure DEF NextProvider
<1>6. ASSUME NEW r \in Requests, NEW s \in Statuses, ReplyUsable(r, s), NoteSuccess(Current(r))
      PROVE  WindowCovered'
  <2>1. Current(r) \in Providers
    BY <1>6, CallingProvider DEF Inv, ReplyUsable
  <2> QED
    BY <1>6, <2>1, WindowSuccess DEF ReplyUsable
<1>7. CASE Tick /\ NoteTick
  BY <1>7, WindowTick DEF Tick
<1>8. CASE Restart /\ NoteRestart
  BY <1>8 DEF NoteRestart, WindowCovered, AuditTypeOK, Covered
<1>9. CASE UNCHANGED <<vars, auditVars>>
  BY <1>1, <1>9 DEF vars, circuitVars, auditVars
<1>10. ASSUME NEW r \in Requests, OwnFailure(r), NoteFailure(Current(r), 1)
       PROVE  WindowCovered'
  BY <1>5, <1>10 DEF OwnFailure, CallFails, CallTimesOut, CallUnavailable, ReplyRetryable
<1>11. ASSUME NEW r \in Requests, CallCancelled(r), NoteFailure(Current(r), 0)
       PROVE  WindowCovered'
  BY <1>5, <1>11 DEF CallCancelled
<1> QED
  BY <1>2, <1>3, <1>4, <1>6, <1>7, <1>8, <1>9, <1>10, <1>11 DEF AuditNext

(* Only Call begins a call.                                                *)
LEMMA BeginsByCall ==
    ASSUME Inv, [AuditNext]_<<vars, auditVars>>, NEW r \in Requests, Begins(r)
    PROVE  Call(r)
<1>0. TypeOK /\ [Next]_vars
  BY AuditStep DEF Inv
<1>1. ASSUME NEW q \in Requests, NEW v, pc' = [pc EXCEPT ![q] = v], v # "calling" PROVE FALSE
  BY <1>0, <1>1 DEF Begins, TypeOK
<1>2. ASSUME NEW q \in Requests, Call(q) PROVE Call(r)
  BY <1>0, <1>2 DEF Begins, Call, TypeOK
<1>3. ASSUME NEW q \in Requests, NEW k \in Keys PROVE ~Arrive(q, k)
  BY <1>1 DEF Arrive
<1>4. ASSUME NEW q \in Requests,
             CacheHit(q) \/ CacheMiss(q) \/ SkipOpen(q) \/ Deliver(q) \/ GiveUp(q)
               \/ CallTimesOut(q) \/ CallCancelled(q) \/ CallUnavailable(q) \/ CallFails(q)
               \/ \E s \in Statuses : Reply(q, s)
      PROVE  FALSE
  <2>1. CASE CacheHit(q) \/ Deliver(q) \/ GiveUp(q)
    BY <1>1, <2>1 DEF CacheHit, Deliver, GiveUp, Write
  <2>2. CASE CacheMiss(q)
    BY <1>1, <2>2 DEF CacheMiss
  <2>3. CASE SkipOpen(q)
    BY <2>3 DEF SkipOpen, Begins
  <2>4. CASE CallTimesOut(q) \/ CallCancelled(q) \/ CallUnavailable(q) \/ CallFails(q)
    BY <1>1, <2>4 DEF CallTimesOut, CallCancelled, CallUnavailable, CallFails, NextProvider
  <2>5. CASE \E s \in Statuses : Reply(q, s)
    BY <1>1, <2>5 DEF Reply, ReplyUsable, ReplyRetryable, NextProvider
  <2> QED
    BY <1>4, <2>1, <2>2, <2>3, <2>4, <2>5
<1>5. ~Tick /\ ~Restart /\ ~UNCHANGED vars
  BY DEF Tick, Restart, Begins, vars, requestVars
<1>6. ASSUME NEW q \in Requests PROVE ~HangUp(q)
  BY DEF HangUp, Begins
<1> QED
  BY <1>0, <1>2, <1>3, <1>4, <1>5, <1>6 DEF Next, Proceed

(* No call gets past an opened breaker within its window, except after the *)
(* success of a call that had begun before.                                *)
THEOREM BackoffHoldsUnlessPardoned == AuditSpec => BackoffUnlessPardoned
<1>1. AuditInit => WindowCovered
  BY DEF AuditInit, WindowCovered, AuditTypeOK, Covered
<1>2. Inv /\ WindowCovered /\ [AuditNext]_<<vars, auditVars>> => WindowCovered'
  BY WindowStep
<1>3. Inv /\ WindowCovered /\ [AuditNext]_<<vars, auditVars>>
        => \A r \in Requests :
              Begins(r) => backoff[Current(r)] = 0 \/ pardoned[Current(r)]
  <2> SUFFICES ASSUME Inv, WindowCovered, [AuditNext]_<<vars, auditVars>>,
                      NEW r \in Requests, Begins(r)
               PROVE  backoff[Current(r)] = 0 \/ pardoned[Current(r)]
    OBVIOUS
  <2>1. Call(r)
    BY BeginsByCall
  <2>2. Current(r) \in Providers
    BY <2>1, SelectedProvider DEF Call, Inv
  <2>3. openFor[Current(r)] <= 0 /\ backoff[Current(r)] \in Nat
    BY <2>1, <2>2 DEF Call, Allow, Allowed, WindowCovered, AuditTypeOK
  <2>4. openFor[Current(r)] \in Int
    BY <2>2, CooldownAssumption DEF CooldownAssumption, Inv, TypeOK, CircuitTypeOK, NotOpen
  <2>5. backoff[Current(r)] <= openFor[Current(r)] => backoff[Current(r)] = 0
    BY <2>3, <2>4
  <2> QED
    BY <2>2, <2>5 DEF WindowCovered, Covered
<1> QED
  BY <1>1, <1>2, <1>3, AuditInvAlways, PTL DEF AuditSpec, BackoffUnlessPardoned
=============================================================================
