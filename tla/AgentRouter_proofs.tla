------------------------- MODULE AgentRouter_proofs -------------------------
(***************************************************************************)
(* Proofs about the LLM router, for any number of callers, resources and   *)
(* providers and any expiry.                                               *)
(***************************************************************************)
EXTENDS AgentRouter, TLAPS

USE NumProvidersAssumption, TTLAssumption
    DEF NumProvidersAssumption, TTLAssumption, Absent

THEOREM TypeCorrect == Spec => []TypeOK
<1>1. Init => TypeOK
  BY DEF Init, TypeOK
<1>2. TypeOK /\ [Next]_vars => TypeOK'
  <2> SUFFICES ASSUME TypeOK, [Next]_vars PROVE TypeOK'
    OBVIOUS
  <2> USE DEF TypeOK, callVars, auditVars
  <2>1. ASSUME NEW c \in Callers, NEW x \in Resources, Ask(c, x) PROVE TypeOK'
    BY <2>1 DEF Ask
  <2>2. ASSUME NEW c \in Callers, Acquire(c) PROVE TypeOK'
    BY <2>2 DEF Acquire, SetNX, WorkersOn
  <2>3. ASSUME NEW c \in Callers, Duplicate(c) PROVE TypeOK'
    BY <2>3 DEF Duplicate, Return
  <2>4. ASSUME NEW c \in Callers, LockUnanswered(c) PROVE TypeOK'
    BY <2>4 DEF LockUnanswered, Return, SetNX
  <2>5. ASSUME NEW c \in Callers, ProviderDecides(c) PROVE TypeOK'
    BY <2>5 DEF ProviderDecides
  <2>6. ASSUME NEW c \in Callers, ProviderRetryable(c) PROVE TypeOK'
    BY <2>6 DEF ProviderRetryable
  <2>7. ASSUME NEW c \in Callers, Release(c) PROVE TypeOK'
    BY <2>7 DEF Release, Return
  <2>8. CASE Tick
    <3>1. lock' \in [Resources -> 0 .. TTL]
      BY <2>8 DEF Tick
    <3>2. elapsed' \in [Callers -> 0 .. TTL]
      BY <2>8 DEF Tick
    <3>3. overran' \in [Resources -> BOOLEAN]
      BY <2>8 DEF Tick
    <3> QED
      BY <2>8, <3>1, <3>2, <3>3 DEF Tick
  <2>9. CASE Crash
    BY <2>9 DEF Crash
  <2>10. CASE UNCHANGED vars
    BY <2>10 DEF vars
  <2> QED
    BY <2>1, <2>2, <2>3, <2>4, <2>5, <2>6, <2>7, <2>8, <2>9, <2>10 DEF Next, Proceed
<1> QED
  BY <1>1, <1>2, PTL DEF Spec

-----------------------------------------------------------------------------
On(c, x) == Working(c) /\ resource[c] = x

(* While no call on x has outlasted its key, the one call at work there is *)
(* the one that set the key, and the key still has its remaining time.     *)
KeyCovers(x) ==
    ~overran[x] =>
      /\ \A c \in Callers : On(c, x) => elapsed[c] < TTL /\ lock[x] = TTL - elapsed[c]
      /\ \A c, d \in Callers : On(c, x) /\ On(d, x) => c = d

Covering == \A x \in Resources : KeyCovers(x)

(* A step that moves no caller into work on x, and leaves x's key and the  *)
(* clocks alone, keeps the key covering x.                                 *)
LEMMA CoverKept ==
    ASSUME NEW x \in Resources, KeyCovers(x), UNCHANGED <<elapsed, overran>>,
           lock'[x] = lock[x] \/ \A c \in Callers : ~On(c, x)',
           \A c \in Callers : On(c, x)' => On(c, x)
    PROVE  KeyCovers(x)'
  BY DEF KeyCovers

LEMMA CoverStep ==
    ASSUME TypeOK, Covering, [Next]_vars PROVE Covering'
<1> SUFFICES ASSUME NEW x \in Resources PROVE KeyCovers(x)'
  BY DEF Covering
<1>0. KeyCovers(x)
  BY DEF Covering
<1>1. ASSUME NEW c \in Callers, NEW y \in Resources, Ask(c, y) PROVE KeyCovers(x)'
  <2>1. \A d \in Callers : On(d, x)' => On(d, x)
    BY <1>1 DEF Ask, On, Working, TypeOK
  <2> QED
    BY <1>0, <1>1, <2>1, CoverKept DEF Ask, auditVars
<1>2. ASSUME NEW c \in Callers, Acquire(c) PROVE KeyCovers(x)'
  <2>1. CASE resource[c] = x
    <3>1. lock[x] = 0 /\ lock'[x] = TTL /\ elapsed'[c] = 0
      BY <1>2, <2>1 DEF Acquire, SetNX, TypeOK
    <3>2. \A d \in Callers \ {c} : (On(d, x)' <=> On(d, x)) /\ elapsed'[d] = elapsed[d]
      BY <1>2 DEF Acquire, On, Working, TypeOK
    <3>3. ~On(c, x)
      BY <1>2 DEF Acquire, On, Working
    <3>4. CASE overran[x]
      <4>1. CASE WorkersOn(x) # {}
        <5>1. overran'[x]
          BY <1>2, <2>1, <3>4, <4>1 DEF Acquire, TypeOK
        <5> QED
          BY <5>1 DEF KeyCovers
      <4>2. CASE WorkersOn(x) = {}
        <5>1. \A d \in Callers : ~On(d, x)
          BY <4>2 DEF WorkersOn, On
        <5> QED
          BY <3>1, <3>2, <5>1 DEF KeyCovers
      <4> QED
        BY <4>1, <4>2
    <3>5. CASE ~overran[x]
      <4>1. \A d \in Callers : ~On(d, x)
        BY <1>0, <3>1, <3>5 DEF KeyCovers, TypeOK
      <4> QED
        BY <3>1, <3>2, <4>1 DEF KeyCovers
    <3> QED
      BY <3>4, <3>5
  <2>2. CASE resource[c] # x
    <3>1. lock'[x] = lock[x] /\ (overran'[x] <=> overran[x])
      BY <1>2, <2>2 DEF Acquire, SetNX, TypeOK
    <3>2. \A d \in Callers : On(d, x)' => On(d, x) /\ elapsed'[d] = elapsed[d]
      BY <1>2, <2>2 DEF Acquire, On, Working, TypeOK
    <3> QED
      BY <1>0, <3>1, <3>2 DEF KeyCovers
  <2> QED
    BY <2>1, <2>2
<1>3. ASSUME NEW c \in Callers, Duplicate(c) PROVE KeyCovers(x)'
  <2>1. \A d \in Callers : On(d, x)' => On(d, x)
    BY <1>3 DEF Duplicate, Return, On, Working, TypeOK
  <2> QED
    BY <1>0, <1>3, <2>1, CoverKept DEF Duplicate, auditVars
<1>4. ASSUME NEW c \in Callers, LockUnanswered(c) PROVE KeyCovers(x)'
  <2>1. \A d \in Callers : On(d, x)' => On(d, x)
    BY <1>4 DEF LockUnanswered, Return, On, Working, TypeOK
  <2>2. CASE lock'[x] = lock[x]
    BY <1>0, <1>4, <2>1, <2>2, CoverKept DEF LockUnanswered, auditVars
  <2>3. CASE lock'[x] # lock[x]
    <3>1. lock[x] = 0
      BY <1>4, <2>3 DEF LockUnanswered, SetNX, TypeOK
    <3>2. overran[x] \/ \A d \in Callers : ~On(d, x)
      BY <1>0, <3>1 DEF KeyCovers, TypeOK
    <3>3. overran'[x] = overran[x]
      BY <1>4 DEF LockUnanswered, auditVars
    <3> QED
      BY <2>1, <3>2, <3>3 DEF KeyCovers
  <2> QED
    BY <2>2, <2>3
<1>5. ASSUME NEW c \in Callers, ProviderDecides(c) \/ ProviderRetryable(c)
      PROVE  KeyCovers(x)'
  <2>1. \A d \in Callers : On(d, x)' => On(d, x)
    BY <1>5 DEF ProviderDecides, ProviderRetryable, On, Working, TypeOK
  <2> QED
    BY <1>0, <1>5, <2>1, CoverKept DEF ProviderDecides, ProviderRetryable, auditVars
<1>6. ASSUME NEW c \in Callers, Release(c) PROVE KeyCovers(x)'
  <2>1. \A d \in Callers : On(d, x)' => On(d, x) /\ d # c
    BY <1>6 DEF Release, Return, On, Working, TypeOK
  <2>2. UNCHANGED <<elapsed, overran>>
    BY <1>6 DEF Release, auditVars
  <2>3. CASE resource[c] # x
    <3>1. lock'[x] = lock[x]
      BY <1>6, <2>3 DEF Release, TypeOK
    <3> QED
      BY <1>0, <2>1, <2>2, <3>1, CoverKept
  <2>4. CASE resource[c] = x
    <3>1. On(c, x)
      BY <1>6, <2>4 DEF Release, On, Working
    <3>2. overran[x] \/ \A d \in Callers : ~On(d, x)'
      BY <1>0, <2>1, <3>1 DEF KeyCovers
    <3> QED
      BY <2>2, <3>2 DEF KeyCovers
  <2> QED
    BY <2>3, <2>4
<1>7. CASE Tick
  <2> SUFFICES ASSUME ~overran'[x] PROVE KeyCovers(x)'
    BY DEF KeyCovers
  <2>1. ~overran[x] /\ \A c \in Callers : On(c, x) => elapsed'[c] # TTL
    BY <1>7 DEF Tick, WorkersOn, On
  <2>2. \A c \in Callers : On(c, x)' <=> On(c, x)
    BY <1>7 DEF Tick, callVars, On, Working
  <2>3. ASSUME NEW c \in Callers, On(c, x)
        PROVE  elapsed'[c] < TTL /\ lock'[x] = TTL - elapsed'[c]
    <3>1. elapsed[c] < TTL /\ lock[x] = TTL - elapsed[c] /\ elapsed[c] \in 0 .. TTL
      BY <1>0, <2>1, <2>3 DEF KeyCovers, TypeOK
    <3>2. elapsed'[c] = elapsed[c] + 1
      BY <1>7, <2>3, <3>1 DEF Tick, On
    <3>3. lock'[x] = lock[x] - 1
      BY <1>7, <3>1 DEF Tick
    <3> QED
      BY <2>1, <2>3, <3>1, <3>2, <3>3
  <2> QED
    BY <1>0, <2>1, <2>2, <2>3 DEF KeyCovers
<1>8. CASE Crash
  <2>1. \A c \in Callers : ~On(c, x)'
    BY <1>8 DEF Crash, On, Working
  <2> QED
    BY <2>1 DEF KeyCovers
<1>9. CASE UNCHANGED vars
  BY <1>0, <1>9, CoverKept DEF vars, callVars, auditVars, On, Working
<1> QED
  BY <1>1, <1>2, <1>3, <1>4, <1>5, <1>6, <1>7, <1>8, <1>9 DEF Next, Proceed

(* Two calls are at work on one resource only after a call outlasted the   *)
(* key: lost replies, failed deletes and restarts alone never cause it.    *)
THEOREM OverlapAlwaysNeedsOverrun == Spec => []OverlapNeedsOverrun
<1>1. Init => Covering
  BY DEF Init, Covering, KeyCovers, On, Working
<1>2. TypeOK /\ Covering /\ [Next]_vars => Covering'
  BY CoverStep
<1>3. TypeOK /\ Covering => OverlapNeedsOverrun
  BY DEF Covering, KeyCovers, OverlapNeedsOverrun, WorkersOn, On
<1> QED
  BY <1>1, <1>2, <1>3, TypeCorrect, PTL DEF Spec

-----------------------------------------------------------------------------
(* Steps an Ask has before it at most: the key, the providers it has not   *)
(* heard of yet, and the release.                                          *)
StepsLeft(c) ==
    CASE pc[c] = "locking" -> NumProviders + 2
      [] pc[c] = "asking" -> NumProviders - provider[c] + 2
      [] pc[c] = "releasing" -> 1
      [] OTHER -> 0

(* A call's own steps use them up, nothing gives it new ones, and a key's  *)
(* expiry is never put off, by whichever call.                             *)
WearsDown ==
    /\ \A c \in Callers :
          /\ Proceed(c) => StepsLeft(c)' < StepsLeft(c)
          /\ pc[c] # "idle" => StepsLeft(c)' <= StepsLeft(c)
    /\ \A x \in Resources :
          lock[x] # Absent => /\ lock'[x] <= lock[x]
                              /\ Tick => lock'[x] < lock[x]

LEMMA StepsLeftIs ==
    ASSUME TypeOK, NEW c \in Callers
    PROVE  /\ pc[c] = "locking" => StepsLeft(c) = NumProviders + 2
           /\ pc[c] = "asking" => StepsLeft(c) = NumProviders - provider[c] + 2
           /\ pc[c] = "releasing" => StepsLeft(c) = 1
           /\ pc[c] = "idle" => StepsLeft(c) = 0
           /\ provider[c] \in 1 .. NumProviders
           /\ StepsLeft(c) \in 0 .. NumProviders + 2
<1>1. pc[c] \in {"idle", "locking", "asking", "releasing"} /\ provider[c] \in 1 .. NumProviders
  BY DEF TypeOK
<1>2. /\ pc[c] = "locking" => StepsLeft(c) = NumProviders + 2
      /\ pc[c] = "asking" => StepsLeft(c) = NumProviders - provider[c] + 2
      /\ pc[c] = "releasing" => StepsLeft(c) = 1
      /\ pc[c] = "idle" => StepsLeft(c) = 0
  BY DEF StepsLeft
<1> QED
  BY <1>1, <1>2

LEMMA ProceedWears ==
    ASSUME TypeOK, NEW c \in Callers, Proceed(c) PROVE StepsLeft(c)' < StepsLeft(c)
<1>0. /\ pc[c] = "locking" => StepsLeft(c) = NumProviders + 2
      /\ pc[c] = "asking" => StepsLeft(c) = NumProviders - provider[c] + 2
      /\ pc[c] = "releasing" => StepsLeft(c) = 1
      /\ provider[c] \in 1 .. NumProviders
  BY StepsLeftIs
<1>1. CASE pc[c] \in {"locking", "releasing"} /\ pc'[c] = "idle"
  <2>1. StepsLeft(c)' = 0
    BY <1>1 DEF StepsLeft
  <2> QED
    BY <1>0, <1>1, <2>1
<1>2. CASE Acquire(c)
  <2>1. pc[c] = "locking" /\ pc'[c] = "asking" /\ provider'[c] = provider[c]
    BY <1>2 DEF Acquire, TypeOK
  <2>2. StepsLeft(c)' = NumProviders - provider'[c] + 2
    BY <2>1 DEF StepsLeft
  <2> QED
    BY <1>0, <2>1, <2>2
<1>3. CASE ProviderDecides(c) \/ ProviderRetryable(c)
  <2>1. pc[c] = "asking"
    BY <1>3 DEF ProviderDecides, ProviderRetryable
  <2>2. CASE pc'[c] = "releasing"
    <3>1. StepsLeft(c)' = 1
      BY <2>2 DEF StepsLeft
    <3> QED
      BY <1>0, <2>1, <3>1
  <2>3. CASE pc'[c] = "asking" /\ provider'[c] = provider[c] + 1
    <3>1. StepsLeft(c)' = NumProviders - provider'[c] + 2
      BY <2>3 DEF StepsLeft
    <3> QED
      BY <1>0, <2>1, <2>3, <3>1
  <2> QED
    BY <1>3, <2>1, <2>2, <2>3 DEF ProviderDecides, ProviderRetryable, TypeOK
<1>4. CASE Duplicate(c) \/ LockUnanswered(c) \/ Release(c)
  BY <1>1, <1>4 DEF Duplicate, LockUnanswered, Release, Return, TypeOK
<1> QED
  BY <1>2, <1>3, <1>4 DEF Proceed

(* Another caller's step, the clock and a crash give a call nothing to do. *)
LEMMA OthersWear ==
    ASSUME TypeOK, TypeOK', Next, NEW c \in Callers, pc[c] # "idle", ~Proceed(c)
    PROVE  StepsLeft(c)' <= StepsLeft(c)
<1>0. StepsLeft(c) \in 0 .. NumProviders + 2
  BY StepsLeftIs
<1>1. CASE pc'[c] = pc[c] /\ provider'[c] = provider[c]
  <2>1. StepsLeft(c)' = StepsLeft(c)
    BY <1>1 DEF StepsLeft
  <2> QED
    BY <1>0, <2>1
<1>2. CASE Crash
  <2>1. pc'[c] = "idle"
    BY <1>2 DEF Crash
  <2>2. StepsLeft(c)' = 0
    BY <2>1 DEF StepsLeft
  <2> QED
    BY <1>0, <2>2
<1>3. CASE Tick
  BY <1>1, <1>3 DEF Tick, callVars
<1>4. ASSUME NEW d \in Callers, Proceed(d) \/ \E x \in Resources : Ask(d, x)
      PROVE  StepsLeft(c)' <= StepsLeft(c)
  <2>1. d # c
    BY <1>4 DEF Ask
  <2> QED
    BY <1>1, <1>4, <2>1 DEF TypeOK, Proceed, Ask, Acquire, Duplicate, LockUnanswered,
                            ProviderDecides, ProviderRetryable, Release, Return
<1> QED
  BY <1>2, <1>3, <1>4 DEF Next

LEMMA KeysWear ==
    ASSUME TypeOK, Next, NEW x \in Resources, lock[x] # Absent
    PROVE  lock'[x] <= lock[x] /\ (Tick => lock'[x] < lock[x])
<1>0. lock[x] \in 1 .. TTL
  BY DEF TypeOK
<1>1. CASE Tick
  <2>1. lock'[x] = lock[x] - 1
    BY <1>0, <1>1 DEF Tick
  <2> QED
    BY <1>0, <2>1
<1>2. CASE ~Tick
  <2>1. lock'[x] \in {lock[x], Absent}
    BY <1>0, <1>2 DEF Next, Proceed, Ask, Acquire, SetNX, Duplicate, LockUnanswered,
                      ProviderDecides, ProviderRetryable, Release, Crash, TypeOK
  <2> QED
    BY <1>0, <1>2, <2>1
<1> QED
  BY <1>1, <1>2

(* Every Ask goes through its providers once at most and in order: its     *)
(* every step brings it nearer its return.  No call extends another's key  *)
(* or its own, so that a key that nobody deletes still ages away.          *)
THEOREM AsksAndKeysWearDown ==
    Spec => [](\A c \in Callers : StepsLeft(c) \in 0 .. NumProviders + 2) /\ [][WearsDown]_vars
<1>1. TypeOK /\ TypeOK' /\ [Next]_vars => [WearsDown]_vars
  <2> SUFFICES ASSUME TypeOK, TypeOK', Next PROVE WearsDown
    OBVIOUS
  <2>1. ASSUME NEW c \in Callers
        PROVE  /\ Proceed(c) => StepsLeft(c)' < StepsLeft(c)
               /\ pc[c] # "idle" => StepsLeft(c)' <= StepsLeft(c)
    <3>1. CASE Proceed(c)
      <4>1. StepsLeft(c)' \in Int
        BY DEF StepsLeft, TypeOK
      <4>2. StepsLeft(c) \in Int /\ StepsLeft(c)' < StepsLeft(c)
        BY <3>1, StepsLeftIs, ProceedWears
      <4> QED
        BY <4>1, <4>2
    <3>2. CASE ~Proceed(c)
      BY <3>2, OthersWear
    <3> QED
      BY <3>1, <3>2
  <2> QED
    BY <2>1, KeysWear DEF WearsDown
<1>2. TypeOK => \A c \in Callers : StepsLeft(c) \in 0 .. NumProviders + 2
  BY StepsLeftIs
<1> QED
  BY <1>1, <1>2, TypeCorrect, PTL DEF Spec
=============================================================================
