---------------------------- MODULE IragGateway ----------------------------
(***************************************************************************)
(* The IRAG gateway (src/irag/service.go): concurrent HTTP requests, each  *)
(* served by its own goroutine, look their answer up in a shared cache and *)
(* otherwise walk their route's provider chain behind the shared circuit   *)
(* breaker of IragCircuit.                                                 *)
(*                                                                         *)
(* The few operators named after a slip (CacheHitAnyKey, CallUnchecked,    *)
(* ...) take no part in Next: they are what the properties must notice.    *)
(*                                                                         *)
(* A request slot r is one goroutine; a slot that was answered may be used *)
(* by the next request.  A key stands for what serveRoute distinguishes:   *)
(* one (method, path, query, body), with the chain, the time limit and the *)
(* cache time routeSpecForPath gives that path.                            *)
(***************************************************************************)
EXTENDS IragCircuit, Sequences, FiniteSets

CONSTANTS
    Requests,       \* request goroutines
    Keys,           \* the distinct requests clients send
    Chain,          \* routeSpec.Providers of each key, empty for an unknown route
    Timeout,        \* routeSpec.Timeout of each key, in ticks
    CacheTTL,       \* routeSpec.CacheTTL in ticks, 0 when absent or not a GET
    StrictKeys,     \* keys under the prefixes that also retry 400 and 403
    Enabled,        \* providers with an enabled entry in cfg.Upstreams
    Statuses        \* the HTTP statuses providers answer with

ASSUME ChainAssumption == Chain \in [Keys -> Seq(Providers)]
ASSUME TimeoutAssumption == Timeout \in [Keys -> Nat \ {0}]
ASSUME CacheTTLAssumption == CacheTTL \in [Keys -> Nat]
ASSUME StatusesAssumption == Statuses \subseteq 200 .. 599
ASSUME RequestsAssumption == IsFiniteSet(Requests)

Gateway == "gateway"   \* the author of an answer no provider gave

ASSUME GatewayAssumption == Gateway \notin Providers

VARIABLES
    pc,             \* where each goroutine stands
    key,            \* the request it serves
    idx,            \* the position in the chain it has reached
    left,           \* ticks until its attempt's context expires
    sawTimeout,     \* timeoutErr # nil
    gone,           \* the client's context is cancelled
    got,            \* status of the provider response it is about to deliver
    answer,         \* what was written to the client
    cache           \* live Redis entries, with their remaining ticks

requestVars == <<pc, key, idx, left, sawTimeout, gone, got, answer>>
vars == <<circuitVars, requestVars, cache>>

Current(r) == Chain[key[r]][idx[r]]
ChainDone(r) == idx[r] > Len(Chain[key[r]])

Pending == {"lookup", "select", "calling", "deliver"}
InFlight(p) == {r \in Requests : pc[r] = "calling" /\ Current(r) = p}

(***************************************************************************)
(* shouldRetryStatus and shouldRetryStatusForRoute                         *)
(***************************************************************************)
ShouldRetry(k, s) ==
    \/ s \in {404, 405, 408, 429}
    \/ s >= 500
    \/ k \in StrictKeys /\ s \in {400, 403}

Cacheable(k) == CacheTTL[k] > 0

Entry == [key : Keys, from : Providers, status : Statuses, left : Nat \ {0}]

(* What the client gets; its shape, headers and the request log are left   *)
(* out.                                                                    *)
Answer == [from : Providers \cup {Gateway}, status : Statuses \cup {0, 404, 502, 504}]

NoAnswer == [from |-> Gateway, status |-> 0]
NotFound == [from |-> Gateway, status |-> 404]

Init ==
    /\ CircuitInit
    /\ pc = [r \in Requests |-> "idle"]
    /\ key \in [Requests -> Keys]
    /\ idx = [r \in Requests |-> 1]
    /\ left = [r \in Requests |-> 0]
    /\ sawTimeout = [r \in Requests |-> FALSE]
    /\ gone = [r \in Requests |-> FALSE]
    /\ got = [r \in Requests |-> 0]
    /\ answer = [r \in Requests |-> NoAnswer]
    /\ cache = {}

-----------------------------------------------------------------------------
(***************************************************************************)
(* The client's side.                                                      *)
(***************************************************************************)

(* A request reaches serveRoute; a path with no chain is answered 404.     *)
Arrive(r, k) ==
    /\ pc[r] \in {"idle", "answered"}
    /\ key' = [key EXCEPT ![r] = k]
    /\ \/ /\ Chain[k] = <<>>
          /\ pc' = [pc EXCEPT ![r] = "answered"]
          /\ answer' = [answer EXCEPT ![r] = NotFound]
       \/ /\ Chain[k] # <<>>
          /\ pc' = [pc EXCEPT ![r] = "lookup"]
          /\ answer' = [answer EXCEPT ![r] = NoAnswer]
    /\ UNCHANGED <<circuitVars, cache, idx, left, sawTimeout, gone, got>>

(* The client hangs up: r.Context() is cancelled, the goroutine goes on.   *)
HangUp(r) ==
    /\ pc[r] \in Pending
    /\ ~gone[r]
    /\ gone' = [gone EXCEPT ![r] = TRUE]
    /\ UNCHANGED <<circuitVars, cache, pc, key, idx, left, sawTimeout, got, answer>>

-----------------------------------------------------------------------------
(***************************************************************************)
(* serveRoute                                                              *)
(***************************************************************************)
(* The answer is written and serveRoute returns: its locals are gone.      *)
Write(r, a) ==
    /\ pc' = [pc EXCEPT ![r] = "answered"]
    /\ answer' = [answer EXCEPT ![r] = a]
    /\ idx' = [idx EXCEPT ![r] = 1]
    /\ sawTimeout' = [sawTimeout EXCEPT ![r] = FALSE]
    /\ gone' = [gone EXCEPT ![r] = FALSE]
    /\ got' = [got EXCEPT ![r] = 0]

(* A hit is written as it was stored.                                      *)
CacheHitAnyKey(r) ==
    /\ pc[r] = "lookup"
    /\ \E e \in cache :
          Write(r, [from |-> e.from, status |-> e.status])
    /\ UNCHANGED <<circuitVars, cache, key, left>>

CacheHit(r) ==
    /\ pc[r] = "lookup"
    /\ Cacheable(key[r])
    /\ \E e \in cache :
          /\ e.key = key[r]
          /\ Write(r, [from |-> e.from, status |-> e.status])
    /\ UNCHANGED <<circuitVars, cache, key, left>>

(* A miss, an uncacheable route, or a lookup that fails (Redis trouble,    *)
(* a context already cancelled): on to the providers.                      *)
CacheMiss(r) ==
    /\ pc[r] = "lookup"
    /\ pc' = [pc EXCEPT ![r] = "select"]
    /\ UNCHANGED <<circuitVars, cache, key, idx, left, sawTimeout, gone, got, answer>>

(* The response goes to the cache, unless Redis fails, and to the client.  *)
StoreKeepingOld(r) ==
    \/ /\ Cacheable(key[r])
       /\ cache' = cache \cup {[key |-> key[r], from |-> Current(r),
                                status |-> got[r], left |-> CacheTTL[key[r]]]}
    \/ UNCHANGED cache

Store(r) ==
    \/ /\ Cacheable(key[r])
       /\ cache' = {e \in cache : e.key # key[r]}
                      \cup {[key |-> key[r], from |-> Current(r),
                             status |-> got[r], left |-> CacheTTL[key[r]]]}
    \/ UNCHANGED cache

Deliver(r) ==
    /\ pc[r] = "deliver"
    /\ Store(r)
    /\ Write(r, [from |-> Current(r), status |-> got[r]])
    /\ UNCHANGED <<circuitVars, key, left>>

(* Every provider was skipped or failed: writeFailure.                     *)
Failed(s) == [from |-> Gateway, status |-> s]

GiveUp(r) ==
    /\ pc[r] = "select"
    /\ ChainDone(r)
    /\ Write(r, Failed(IF sawTimeout[r] THEN 504 ELSE 502))
    /\ UNCHANGED <<circuitVars, cache, key, left>>

-----------------------------------------------------------------------------
(***************************************************************************)
(* proxyWithFallback and attemptProvider                                   *)
(***************************************************************************)
SkipOpen(r) ==
    /\ pc[r] = "select"
    /\ ~ChainDone(r)
    /\ Deny(Current(r))
    /\ idx' = [idx EXCEPT ![r] = @ + 1]
    /\ UNCHANGED <<cache, pc, key, left, sawTimeout, gone, got, answer>>

(* Allow says yes: the attempt begins, under a context of its own.         *)
CallUnchecked(r) ==
    /\ pc[r] = "select"
    /\ ~ChainDone(r)
    /\ UNCHANGED circuitVars
    /\ pc' = [pc EXCEPT ![r] = "calling"]
    /\ left' = [left EXCEPT ![r] = Timeout[key[r]]]
    /\ UNCHANGED <<cache, key, idx, sawTimeout, gone, got, answer>>

Call(r) ==
    /\ pc[r] = "select"
    /\ ~ChainDone(r)
    /\ Allow(Current(r))
    /\ pc' = [pc EXCEPT ![r] = "calling"]
    /\ left' = [left EXCEPT ![r] = Timeout[key[r]]]
    /\ UNCHANGED <<cache, key, idx, sawTimeout, gone, got, answer>>

(* The attempt failed: count it and go on with the next provider.          *)
NextProvider(r) ==
    /\ Failure(Current(r))
    /\ pc' = [pc EXCEPT ![r] = "select"]
    /\ idx' = [idx EXCEPT ![r] = @ + 1]
    /\ left' = [left EXCEPT ![r] = 0]
    /\ UNCHANGED <<cache, key, gone, got, answer>>

(* A response arrives before the attempt's context ends.                   *)
ReplyUsable(r, s) ==
    /\ pc[r] = "calling"
    /\ Current(r) \in Enabled
    /\ ~gone[r]
    /\ ~ShouldRetry(key[r], s)
    /\ Success(Current(r))
    /\ got' = [got EXCEPT ![r] = s]
    /\ pc' = [pc EXCEPT ![r] = "deliver"]
    /\ left' = [left EXCEPT ![r] = 0]
    /\ UNCHANGED <<cache, key, idx, sawTimeout, gone, answer>>

ReplyRetryable(r, s) ==
    /\ pc[r] = "calling"
    /\ Current(r) \in Enabled
    /\ ~gone[r]
    /\ ShouldRetry(key[r], s)
    /\ NextProvider(r)
    /\ UNCHANGED sawTimeout

Reply(r, s) == ReplyUsable(r, s) \/ ReplyRetryable(r, s)

(* No connection, or a body that breaks off.                               *)
CallFails(r) ==
    /\ pc[r] = "calling"
    /\ Current(r) \in Enabled
    /\ NextProvider(r)
    /\ UNCHANGED sawTimeout

(* The provider is not configured: an error without any call.              *)
CallUnavailable(r) ==
    /\ pc[r] = "calling"
    /\ Current(r) \notin Enabled
    /\ NextProvider(r)
    /\ UNCHANGED sawTimeout

(* The request's own context is cancelled: client.Do returns that error.   *)
CallCancelled(r) ==
    /\ pc[r] = "calling"
    /\ Current(r) \in Enabled
    /\ gone[r]
    /\ NextProvider(r)
    /\ UNCHANGED sawTimeout

CallEndsWithClientOnly(r) ==
    /\ pc[r] = "calling"
    /\ Current(r) \in Enabled
    /\ gone[r]
    /\ NextProvider(r)
    /\ sawTimeout' = [sawTimeout EXCEPT ![r] = TRUE]

CallTimesOut(r) ==
    /\ pc[r] = "calling"
    /\ Current(r) \in Enabled
    /\ left[r] = 0
    /\ NextProvider(r)
    /\ sawTimeout' = [sawTimeout EXCEPT ![r] = TRUE]

-----------------------------------------------------------------------------
Aged(e) == [key |-> e.key, from |-> e.from, status |-> e.status, left |-> e.left - 1]

Tick ==
    /\ CircuitTick
    /\ left' = [r \in Requests |-> IF left[r] > 0 THEN left[r] - 1 ELSE 0]
    /\ cache' = {Aged(e) : e \in {f \in cache : f.left > 1}}
    /\ UNCHANGED <<pc, key, idx, sawTimeout, gone, got, answer>>

(* The process stops (its shutdown waits 10 s, an attempt may take 7 min)  *)
(* and starts again: requests and breaker are gone, Redis is not.          *)
Restart ==
    /\ failures' = [p \in Providers |-> 0]
    /\ openFor' = [p \in Providers |-> NotOpen]
    /\ pc' = [r \in Requests |-> "idle"]
    /\ idx' = [r \in Requests |-> 1]
    /\ left' = [r \in Requests |-> 0]
    /\ sawTimeout' = [r \in Requests |-> FALSE]
    /\ gone' = [r \in Requests |-> FALSE]
    /\ got' = [r \in Requests |-> 0]
    /\ UNCHANGED <<key, answer, cache>>

Proceed(r) ==
    \/ CacheHit(r) \/ CacheMiss(r) \/ SkipOpen(r) \/ Call(r)
    \/ Deliver(r) \/ GiveUp(r)
    \/ CallTimesOut(r) \/ CallCancelled(r) \/ CallUnavailable(r)

Next ==
    \/ \E r \in Requests, k \in Keys : Arrive(r, k)
    \/ \E r \in Requests : HangUp(r) \/ CallFails(r) \/ Proceed(r)
    \/ \E r \in Requests, s \in Statuses : Reply(r, s)
    \/ Tick
    \/ Restart

Spec == Init /\ [][Next]_vars

(***************************************************************************)
(* Fairness.  The runtime schedules every goroutine that can run and the   *)
(* clock goes on.  Nothing is assumed of clients and providers: a provider *)
(* may stay silent, only the attempt's deadline ends such a call.          *)
(***************************************************************************)
Fairness == (\A r \in Requests : WF_vars(Proceed(r))) /\ WF_vars(Tick)

-----------------------------------------------------------------------------
TypeOK ==
    /\ CircuitTypeOK
    /\ pc \in [Requests -> Pending \cup {"idle", "answered"}]
    /\ key \in [Requests -> Keys]
    /\ idx \in [Requests -> Nat \ {0}]
    /\ left \in [Requests -> Nat]
    /\ sawTimeout \in [Requests -> BOOLEAN]
    /\ gone \in [Requests -> BOOLEAN]
    /\ got \in [Requests -> Statuses \cup {0}]
    /\ answer \in [Requests -> Answer]
    /\ cache \subseteq Entry

(* Where a request may stand: within its chain while it calls a provider,  *)
(* with a status it may pass on while it delivers.                         *)
RequestsInPlace ==
    \A r \in Requests :
        /\ pc[r] \in {"calling", "deliver"} => idx[r] \in 1 .. Len(Chain[key[r]])
        /\ pc[r] = "deliver" => got[r] \in Statuses /\ ~ShouldRetry(key[r], got[r])

(***************************************************************************)
(* The cache holds at most one answer per key, given by a provider of the  *)
(* key's own chain, never one of the statuses the gateway treats as that   *)
(* provider's failure, and for no longer than the route's cache time.      *)
(***************************************************************************)
CacheSound ==
    /\ \A e \in cache :
          /\ \E i \in 1 .. Len(Chain[e.key]) : e.from = Chain[e.key][i]
          /\ ~ShouldRetry(e.key, e.status)
          /\ e.left <= CacheTTL[e.key]
    /\ \A e, f \in cache : e.key = f.key => e = f

(***************************************************************************)
(* Late failures keep counting after the breaker has opened, so the count  *)
(* can pass the threshold, but only by the calls that were in flight when  *)
(* it opened: no more than the other requests there are.                   *)
(***************************************************************************)
FailuresBounded ==
    \A p \in Providers :
        failures[p] + Cardinality(InFlight(p)) <= FailThreshold - 1 + Cardinality(Requests)

(***************************************************************************)
(* Every request gets its answer, whatever the providers do, unless the    *)
(* process goes down under it.                                             *)
(***************************************************************************)
EveryRequestAnswered ==
    \A r \in Requests : (pc[r] = "lookup") ~> (pc[r] \in {"answered", "idle"})

(***************************************************************************)
(* A breaker that opened lets calls through again some time later: calls   *)
(* that fail late extend the cooldown, but they run out.                   *)
(***************************************************************************)
CooldownEnds ==
    \A p \in Providers : (openFor[p] > 0) ~> (openFor[p] <= 0)

(***************************************************************************)
(* Both: neither a request nor a provider waits for ever.                  *)
(***************************************************************************)
NothingWaits == EveryRequestAnswered /\ CooldownEnds

-----------------------------------------------------------------------------
(***************************************************************************)
(* The gateway implements its promise: breaker, deadlines, retries and the *)
(* age of cache entries are details no client can tell from the answers.   *)
(***************************************************************************)
Serves(k, p) == \E i \in 1 .. Len(Chain[k]) : Chain[k][i] = p
Passable(k, s) == ~ShouldRetry(k, s)

stageBar == [r \in Requests |-> IF pc[r] = "idle" THEN "free"
                                ELSE IF pc[r] = "answered" THEN "told" ELSE "asked"]
shelfBar == {[key |-> e.key, from |-> e.from, status |-> e.status] : e \in cache}

Promise == INSTANCE GatewayPromise
              WITH stage <- stageBar, asked <- key, told <- answer, shelf <- shelfBar

KeepsPromise == Promise!PromiseSpec
=============================================================================
