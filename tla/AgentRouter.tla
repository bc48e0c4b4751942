---------------------------- MODULE AgentRouter ----------------------------
(***************************************************************************)
(* The LLM router (src/engine/agent/router.go): concurrent Ask calls take  *)
(* a Redis key per resource with SETNX and an expiry, try the providers in *)
(* order, and delete the key when they are through.  The key's value is    *)
(* always "1": Redis cannot tell whose key it is, and neither can the code.*)
(* A router made without a locker takes no keys and is not modelled: there *)
(* is nothing then that its calls share.                                   *)
(*                                                                         *)
(* elapsed and overran are history: how long a call has been at work since *)
(* it got the key, and whether a call on this resource has outlasted it.   *)
(* SetNXForever and DuplicateReleasing are slips the properties must       *)
(* notice; no action uses them.                                            *)
(***************************************************************************)
EXTENDS Integers, FiniteSets

CONSTANTS
    Callers,        \* goroutines that call Ask
    Resources,      \* resource ids
    NumProviders,   \* len(r.providers)
    TTL             \* inflightTTL in ticks: 30 s, a provider may take 20 s

ASSUME NumProvidersAssumption == NumProviders \in Nat \ {0}
ASSUME TTLAssumption == TTL \in Nat \ {0}

VARIABLES
    pc,             \* where each caller stands
    resource,       \* the resource it asks about
    provider,       \* the provider it is at
    outcome,        \* what its last Ask returned
    lock,           \* ticks left of each inflight key; Absent, or NoExpiry
    elapsed,        \* ticks since the caller got its key
    overran         \* a call on the resource has outlasted its key

callVars == <<pc, resource, provider, outcome>>
auditVars == <<elapsed, overran>>
vars == <<callVars, lock, auditVars>>

Absent == 0
NoExpiry == -1

Working(c) == pc[c] \in {"asking", "releasing"}
WorkersOn(x) == {c \in Callers : Working(c) /\ resource[c] = x}

Init ==
    /\ pc = [c \in Callers |-> "idle"]
    /\ resource \in [Callers -> Resources]
    /\ provider = [c \in Callers |-> 1]
    /\ outcome = [c \in Callers |-> "none"]
    /\ lock = [x \in Resources |-> Absent]
    /\ elapsed = [c \in Callers |-> 0]
    /\ overran = [x \in Resources |-> FALSE]

(* Ask returns.                                                            *)
Return(c, result) ==
    /\ pc' = [pc EXCEPT ![c] = "idle"]
    /\ outcome' = [outcome EXCEPT ![c] = result]

-----------------------------------------------------------------------------
Ask(c, x) ==
    /\ pc[c] = "idle"
    /\ pc' = [pc EXCEPT ![c] = "locking"]
    /\ resource' = [resource EXCEPT ![c] = x]
    /\ provider' = [provider EXCEPT ![c] = 1]
    /\ outcome' = [outcome EXCEPT ![c] = "none"]
    /\ UNCHANGED <<lock, auditVars>>

(***************************************************************************)
(* acquireLock                                                             *)
(***************************************************************************)
SetNXForever(x) ==
    /\ lock[x] = Absent
    /\ lock' = [lock EXCEPT ![x] = NoExpiry]

SetNX(x) ==
    /\ lock[x] = Absent
    /\ lock' = [lock EXCEPT ![x] = TTL]

Acquire(c) ==
    LET x == resource[c]
    IN  /\ pc[c] = "locking"
        /\ SetNX(x)
        /\ pc' = [pc EXCEPT ![c] = "asking"]
        /\ elapsed' = [elapsed EXCEPT ![c] = 0]
        /\ overran' = [overran EXCEPT ![x] = @ /\ WorkersOn(x) # {}]
        /\ UNCHANGED <<resource, provider, outcome>>

DuplicateReleasing(c) ==
    /\ pc[c] = "locking"
    /\ lock[resource[c]] # Absent
    /\ Return(c, "duplicate")
    /\ lock' = [lock EXCEPT ![resource[c]] = Absent]
    /\ UNCHANGED <<resource, provider, auditVars>>

Duplicate(c) ==
    /\ pc[c] = "locking"
    /\ lock[resource[c]] # Absent
    /\ Return(c, "duplicate")
    /\ UNCHANGED <<lock, resource, provider, auditVars>>

(* Redis does not answer.  The key may have been set all the same, and as  *)
(* the deferred release is not yet in place, nobody deletes it.            *)
LockUnanswered(c) ==
    /\ pc[c] = "locking"
    /\ Return(c, "error")
    /\ SetNX(resource[c]) \/ UNCHANGED lock
    /\ UNCHANGED <<resource, provider, auditVars>>

(***************************************************************************)
(* The loop over the providers                                             *)
(***************************************************************************)
(* A completion, or an error that is not retryable: the loop is left.      *)
ProviderDecides(c) ==
    /\ pc[c] = "asking"
    /\ pc' = [pc EXCEPT ![c] = "releasing"]
    /\ \E result \in {"response", "error"} : outcome' = [outcome EXCEPT ![c] = result]
    /\ UNCHANGED <<resource, provider, lock, auditVars>>

(* 408, 429, 5xx or a timeout: the next provider, if there is one.         *)
ProviderRetryable(c) ==
    /\ pc[c] = "asking"
    /\ \/ /\ provider[c] < NumProviders
          /\ provider' = [provider EXCEPT ![c] = @ + 1]
          /\ UNCHANGED <<pc, outcome>>
       \/ /\ provider[c] = NumProviders
          /\ pc' = [pc EXCEPT ![c] = "releasing"]
          /\ outcome' = [outcome EXCEPT ![c] = "error"]
          /\ UNCHANGED provider
    /\ UNCHANGED <<resource, lock, auditVars>>

(***************************************************************************)
(* releaseLock: DEL, whoever set the key; its error is ignored.            *)
(***************************************************************************)
Release(c) ==
    /\ pc[c] = "releasing"
    /\ Return(c, outcome[c])
    /\ \/ lock' = [lock EXCEPT ![resource[c]] = Absent]
       \/ UNCHANGED lock
    /\ UNCHANGED <<resource, provider, auditVars>>

-----------------------------------------------------------------------------
Tick ==
    /\ lock' = [x \in Resources |-> IF lock[x] > 0 THEN lock[x] - 1 ELSE lock[x]]
    /\ elapsed' = [c \in Callers |->
                     IF Working(c) /\ elapsed[c] < TTL THEN elapsed[c] + 1 ELSE elapsed[c]]
    /\ overran' = [x \in Resources |->
                     overran[x] \/ \E c \in WorkersOn(x) : elapsed'[c] = TTL]
    /\ UNCHANGED callVars

(* The process dies and comes back: the calls are gone, the keys are not.  *)
Crash ==
    /\ pc' = [c \in Callers |-> "idle"]
    /\ outcome' = [c \in Callers |-> "none"]
    /\ UNCHANGED <<resource, provider, lock, auditVars>>

Proceed(c) ==
    \/ Acquire(c) \/ Duplicate(c) \/ LockUnanswered(c)
    \/ ProviderDecides(c) \/ ProviderRetryable(c)
    \/ Release(c)

Next ==
    \/ \E c \in Callers, x \in Resources : Ask(c, x)
    \/ \E c \in Callers : Proceed(c)
    \/ Tick
    \/ Crash

Spec == Init /\ [][Next]_vars

(***************************************************************************)
(* Goroutines run and keys age.  A provider call ends because its client   *)
(* has a timeout of 15 or 20 s, so its result is part of Proceed.          *)
(***************************************************************************)
FairSpec ==
    /\ Spec
    /\ \A c \in Callers : WF_vars(Proceed(c))
    /\ WF_vars(Tick)

-----------------------------------------------------------------------------
TypeOK ==
    /\ pc \in [Callers -> {"idle", "locking", "asking", "releasing"}]
    /\ resource \in [Callers -> Resources]
    /\ provider \in [Callers -> 1 .. NumProviders]
    /\ outcome \in [Callers -> {"none", "duplicate", "error", "response"}]
    /\ lock \in [Resources -> 0 .. TTL]
    /\ elapsed \in [Callers -> 0 .. TTL]
    /\ overran \in [Resources -> BOOLEAN]

(***************************************************************************)
(* As long as no call on a resource outlasts its key, the key keeps calls  *)
(* on that resource apart, through lost replies, failed deletes and        *)
(* restarts: an overlap always goes back to a call that took too long.     *)
(***************************************************************************)
OverlapNeedsOverrun ==
    \A x \in Resources : \A c, d \in WorkersOn(x) : c # d => overran[x]

(***************************************************************************)
(* No lost reply, failed delete or crash shuts a resource out for good.    *)
(***************************************************************************)
KeysGoAway == \A x \in Resources : (lock[x] # Absent) ~> (lock[x] = Absent)

(***************************************************************************)
(* Every Ask returns, however many providers fail.                         *)
(***************************************************************************)
EveryAskReturns == \A c \in Callers : (pc[c] = "locking") ~> (pc[c] = "idle")

(***************************************************************************)
(* Both: neither a key nor a provider holds a caller up for good.          *)
(***************************************************************************)
CallersGetThrough == KeysGoAway /\ EveryAskReturns
=============================================================================
