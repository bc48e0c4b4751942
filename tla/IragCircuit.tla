---------------------------- MODULE IragCircuit ----------------------------
(***************************************************************************)
(* The per-provider circuit breaker of the IRAG gateway                    *)
(* (src/irag/circuit.go).  Every method of CircuitBreaker runs under its   *)
(* mutex, so each is one atomic step of the goroutine that calls it.       *)
(*                                                                         *)
(* The code stores openUntil as a wall-clock instant.  Here openFor[p] is  *)
(* what is left of it: NotOpen is the zero time.Time, a positive number    *)
(* is the ticks until time.Now().After(openUntil) becomes true, and 0 says *)
(* that it already is -- the record is still there, because only Allow     *)
(* clears it.  Remaining time instead of dates keeps the model finite      *)
(* without a bound on the clock.                                           *)
(*                                                                         *)
(* AllowKeepingFailures is a slip the properties must notice; no action    *)
(* uses it.                                                                *)
(***************************************************************************)
EXTENDS Integers

CONSTANTS
    Providers,      \* the upstreams a breaker is kept for
    FailThreshold,  \* failThreshold: 3 in NewService
    Cooldown        \* cooldown in ticks: 60 s in NewService

ASSUME FailThresholdAssumption == FailThreshold \in Nat \ {0}
ASSUME CooldownAssumption == Cooldown \in Nat \ {0}

VARIABLES
    failures,       \* circuitState.failures
    openFor         \* what is left of circuitState.openUntil

circuitVars == <<failures, openFor>>

NotOpen == -1

(***************************************************************************)
(* ensure creates a provider's state at its first use, with zero values.   *)
(***************************************************************************)
CircuitInit ==
    /\ failures = [p \in Providers |-> 0]
    /\ openFor = [p \in Providers |-> NotOpen]

(***************************************************************************)
(* Allow.  An expired record is cleared by the call that finds it, and     *)
(* that call and every later one go through: there is no half-open probe.  *)
(***************************************************************************)
Allowed(p) == openFor[p] <= 0

CooldownOver(p) == openFor[p] = 0

AllowKeepingFailures(p) ==
    /\ Allowed(p)
    /\ openFor' = IF CooldownOver(p) THEN [openFor EXCEPT ![p] = NotOpen] ELSE openFor
    /\ UNCHANGED failures

Allow(p) ==
    /\ Allowed(p)
    /\ \/ /\ CooldownOver(p)
          /\ openFor' = [openFor EXCEPT ![p] = NotOpen]
          /\ failures' = [failures EXCEPT ![p] = 0]
       \/ /\ ~CooldownOver(p)
          /\ UNCHANGED circuitVars

Deny(p) ==
    /\ ~Allowed(p)
    /\ UNCHANGED circuitVars

(***************************************************************************)
(* Success clears the record whatever its state: the late success of a     *)
(* call that began before the breaker opened closes it again.              *)
(***************************************************************************)
Success(p) ==
    /\ failures' = [failures EXCEPT ![p] = 0]
    /\ openFor' = [openFor EXCEPT ![p] = NotOpen]

(***************************************************************************)
(* Failure counts, and from the threshold on every failure (re)starts the  *)
(* cooldown, also a late one that finds the breaker open.                  *)
(***************************************************************************)
Failure(p) ==
    /\ failures' = [failures EXCEPT ![p] = @ + 1]
    /\ openFor' = [openFor EXCEPT ![p] =
                     IF failures[p] + 1 >= FailThreshold THEN Cooldown ELSE @]

CircuitTick ==
    /\ openFor' = [p \in Providers |->
                     IF openFor[p] > 0 THEN openFor[p] - 1 ELSE openFor[p]]
    /\ UNCHANGED failures

CircuitTypeOK ==
    /\ failures \in [Providers -> Nat]
    /\ openFor \in [Providers -> NotOpen .. Cooldown]

(***************************************************************************)
(* A breaker holds a cooldown exactly when its count has reached the       *)
(* threshold: no path of Allow, Success and Failure leaves a provider shut *)
(* out without the failures to justify it, nor open with them.             *)
(***************************************************************************)
BreakerConsistent ==
    \A p \in Providers : (openFor[p] # NotOpen) <=> (failures[p] >= FailThreshold)
=============================================================================
