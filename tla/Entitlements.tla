---------------------------- MODULE Entitlements ----------------------------
(***************************************************************************)
(* Which plan a user has (src/api/auth/subscription.go): concurrent        *)
(* requests behind the premium gate of src/api/middleware/auth.go resolve  *)
(* one user's plan from a cache, the override in the users table and the   *)
(* subscription contracts of several chains, any of which may fail.        *)
(*                                                                         *)
(* A gated request resolves the plan twice: Me, then Entitlement; each     *)
(* reads the user first.  Others ask Entitlement only.  Times are kept as  *)
(* what is left of them: nothing bounds how long the system runs.          *)
(*                                                                         *)
(* The operators named after a slip (ProbeNoDecides, ...) take no part in  *)
(* PlanNext: they are what the properties must notice.                     *)
(***************************************************************************)
EXTENDS Integers, Sequences, FiniteSets

CONSTANTS
    Askers,       \* goroutines that serve requests of the user
    Gated,          \* those behind RequirePlan; the others ask Entitlement
    Linked,        \* the user's evm identities, in the order they were linked
    Chains,         \* the checkers of SUBSCRIPTION_NETWORKS, in order
    CacheTTL,       \* SubscriptionResolver.cacheTTL, in ticks
    Overrides,      \* the values users.plan_override takes, "" for none
    MaxTerm         \* bound: the longest subscription that ends, in ticks

ASSUME AskersAssumption == IsFiniteSet(Askers) /\ Gated \subseteq Askers
ASSUME OverridesAssumption == "" \in Overrides /\ Overrides \subseteq {"", "free", "premium"}
ASSUME ProbesAssumption == Len(Linked) \in Nat \ {0} /\ Len(Chains) \in Nat \ {0}
ASSUME TermsAssumption == CacheTTL \in Nat /\ MaxTerm \in Nat

(* hasActiveSubscription asks every chain about a wallet before the next   *)
(* wallet: the n-th of its questions.                                      *)
Probes == 1 .. Len(Linked) * Len(Chains)
Wallet(n) == Linked[1 + ((n - 1) \div Len(Chains))]
ChainAsked(n) == Chains[1 + ((n - 1) % Len(Chains))]

WalletSet == {Linked[i] : i \in DOMAIN Linked}
ChainSet == {Chains[i] : i \in DOMAIN Chains}

Forever == MaxTerm + 1      \* the term of a subscription that does not end
Expired == CacheTTL + 1     \* an age past which no cache entry counts
Plans == {"free", "premium"}

VARIABLES
    subs,           \* SubscriptionManager: ticks left, by chain and wallet
    override,       \* users.plan_override, "" for none
    cache,          \* planCache[user]
    ask             \* the requests

planVars == <<subs, override, cache, ask>>

(* earned, cause and fresh are not program state: what the properties ask  *)
(* of a plan, noted when it is resolved or taken from the cache; since is  *)
(* the true age of the entry.                                              *)
Outcome == [plan : Plans, earned : BOOLEAN, cause : BOOLEAN, fresh : BOOLEAN]
NoOutcome == [plan |-> "free", earned |-> TRUE, cause |-> TRUE, fresh |-> TRUE]

AskStages == {"idle", "user", "lookup", "override", "probe", "fill", "count", "done"}

(* fallback is user.Plan; said what planOverride returned; age the ticks   *)
(* since the resolve took its time; held the outcome of Me; allowed what   *)
(* the gate decided.  steady and paid are not program state: the sources   *)
(* that gave the user the plan ever since the user was read, none once a   *)
(* call failed or the plan is premium; and whether any did at some time.   *)
Enquiry ==
    [pc : AskStages, round : {1, 2}, fallback : Plans, said : {"", "free", "premium"}, probe : Nat, erred : BOOLEAN,
     age : 0 .. Expired, steady : SUBSET (Probes \cup {0}), paid : BOOLEAN,
     held : Outcome, out : Outcome, allowed : BOOLEAN]

Quiet ==
    [pc |-> "idle", round |-> 1, fallback |-> "free", said |-> "", probe |-> 1, erred |-> FALSE,
     age |-> 0, steady |-> {}, paid |-> FALSE, held |-> NoOutcome, out |-> NoOutcome, allowed |-> FALSE]

NoEntry == [out |-> NoOutcome, age |-> Expired, since |-> Expired]

PlanInit ==
    /\ subs = [c \in ChainSet |-> [w \in WalletSet |-> 0]]
    /\ override = ""
    /\ cache = NoEntry
    /\ ask = [r \in Askers |-> Quiet]

-----------------------------------------------------------------------------
IsAt(r, stage) == ask[r].pc = stage

(* isSubscribed *)
Subscribed(n) == subs[ChainAsked(n)][Wallet(n)] > 0

(* The sources that give the user the premium plan; 0 is the override.     *)
Sources == {n \in Probes : Subscribed(n)} \cup {n \in {0} : override = "premium"}

(* Keeps steady and paid of the requests under way, q their next value.    *)
Witnessed(q) ==
    [r \in Askers |->
        IF q[r].pc \in {"idle", "user", "count", "done"} THEN q[r]
        ELSE [q[r] EXCEPT !.steady = @ \cap Sources', !.paid = @ \/ Sources' # {}]]

-----------------------------------------------------------------------------
(***************************************************************************)
(* The contract's owner, and whoever edits the users table; calls that     *)
(* change nothing are left out.                                            *)
(***************************************************************************)
(* setSubscription and setSubscriptions: the wallets of one call.          *)
SetSubscriptions(c) ==
    /\ \E W \in (SUBSET WalletSet) \ {{}} : \E term \in [W -> 0 .. Forever] :
          /\ \E w \in W : term[w] # subs[c][w]
          /\ subs' = [subs EXCEPT ![c] = [w \in WalletSet |-> IF w \in W THEN term[w] ELSE @[w]]]
    /\ UNCHANGED <<override, cache>>
    /\ ask' = Witnessed(ask)

RevokeSubscription(c, w) ==
    /\ subs[c][w] > 0
    /\ subs' = [subs EXCEPT ![c][w] = 0]
    /\ UNCHANGED <<override, cache>>
    /\ ask' = Witnessed(ask)

SetOverride(o) ==
    /\ o # override
    /\ override' = o
    /\ UNCHANGED <<subs, cache>>
    /\ ask' = Witnessed(ask)

Older(age) == IF age < Expired THEN age + 1 ELSE age

PlanTick ==
    /\ subs' = [c \in ChainSet |-> [w \in WalletSet |->
                   IF subs[c][w] \in 1 .. MaxTerm THEN subs[c][w] - 1 ELSE subs[c][w]]]
    /\ cache' = IF cache.age >= CacheTTL THEN NoEntry ELSE [cache EXCEPT !.age = @ + 1, !.since = Older(@)]
    /\ UNCHANGED override
    /\ ask' = Witnessed([r \in Askers |->
                  IF ask[r].pc \in {"override", "probe", "fill"} THEN [ask[r] EXCEPT !.age = Older(@)]
                  ELSE ask[r]])

-----------------------------------------------------------------------------
(***************************************************************************)
(* The gate                                                                *)
(***************************************************************************)
Ask(r) ==
    /\ ask[r].pc \in {"idle", "done"}
    /\ ask' = [ask EXCEPT ![r] = [Quiet EXCEPT !.pc = "user", !.round = IF r \in Gated THEN 1 ELSE 2]]
    /\ UNCHANGED <<subs, override, cache>>

Decides(r, out) ==
    ask' = [ask EXCEPT ![r] = [Quiet EXCEPT !.pc = "done", !.out = out, !.allowed = out.plan = "premium"]]

(* The session is good and the user is read, by userByID.                  *)
ReadUser(r) ==
    /\ IsAt(r, "user")
    /\ ask' = [ask EXCEPT ![r].pc = "lookup",
                          ![r].fallback = IF override = "premium" THEN "premium" ELSE "free",
                          ![r].steady = Sources, ![r].paid = Sources # {}]
    /\ UNCHANGED <<subs, override, cache>>

(* Me cannot answer and the request is refused, or Entitlement cannot (the *)
(* session, the user or the wallet count) and what Me found decides.       *)
EntitlementFails(r) ==
    /\ ask[r].pc \in {"user", "count"}
    /\ IF ask[r].round = 1 \/ r \notin Gated THEN ask' = [ask EXCEPT ![r] = Quiet]
       ELSE Decides(r, ask[r].held)
    /\ UNCHANGED <<subs, override, cache>>

(* ResolveEntitlement has returned: on to Entitlement, or to its last read.*)
Returns(r, out) ==
    ask' = [ask EXCEPT ![r] =
               IF @.round = 1 THEN [Quiet EXCEPT !.pc = "user", !.round = 2, !.held = out]
               ELSE [Quiet EXCEPT !.pc = "count", !.round = 2, !.held = ask[r].held, !.out = out]]

CountWallets(r) ==
    /\ IsAt(r, "count")
    /\ Decides(r, ask[r].out)
    /\ UNCHANGED <<subs, override, cache>>

-----------------------------------------------------------------------------
(***************************************************************************)
(* ResolveEntitlement                                                      *)
(***************************************************************************)
(* cachedPlan, and now taken; or an entry that lives on when it is asked.  *)
HitRenewing(r) ==
    /\ IsAt(r, "lookup")
    /\ cache.age <= CacheTTL
    /\ cache' = [cache EXCEPT !.age = 0]
    /\ Returns(r, [cache.out EXCEPT !.fresh = cache.since <= CacheTTL])
    /\ UNCHANGED <<subs, override>>

Hit(r) ==
    /\ IsAt(r, "lookup")
    /\ cache.age <= CacheTTL
    /\ Returns(r, [cache.out EXCEPT !.fresh = cache.since <= CacheTTL])
    /\ UNCHANGED <<subs, override, cache>>

Miss(r) ==
    /\ IsAt(r, "lookup")
    /\ cache.age > CacheTTL
    /\ ask' = [ask EXCEPT ![r].pc = "override", ![r].age = 0]
    /\ UNCHANGED <<subs, override, cache>>

(* A plan as it is resolved: whether the user had what it says.            *)
Found(r, plan) ==
    [plan |-> plan,
     earned |-> plan = "premium" => ask[r].paid,
     cause |-> plan = "free" => ask[r].erred \/ ask[r].steady = {},
     fresh |-> TRUE]

(* planOverride *)
ReadOverride(r) ==
    /\ IsAt(r, "override")
    /\ ask' = [ask EXCEPT ![r].pc = "probe", ![r].said = override,
                          ![r].steady = IF override = "premium" THEN {} ELSE @]
    /\ UNCHANGED <<subs, override, cache>>

(* The error is returned with the fallback, and nothing is cached.         *)
OverrideFails(r) ==
    /\ IsAt(r, "override")
    /\ Returns(r, [Found(r, ask[r].fallback) EXCEPT !.cause = TRUE])
    /\ UNCHANGED <<subs, override, cache>>

(* hasActiveSubscription: the first chain that says yes decides.           *)
Asks(r) == IsAt(r, "probe") /\ ask[r].probe \in Probes

ProbeYes(r) ==
    /\ Asks(r)
    /\ Subscribed(ask[r].probe)
    /\ ask' = [ask EXCEPT ![r].pc = "fill", ![r].said = "premium", ![r].steady = {}]
    /\ UNCHANGED <<subs, override, cache>>

(* The first chain that answers decides.                                   *)
ProbeNoDecides(r) ==
    /\ Asks(r)
    /\ ~Subscribed(ask[r].probe)
    /\ ask' = [ask EXCEPT ![r].pc = "fill"]
    /\ UNCHANGED <<subs, override, cache>>

ProbeNo(r) ==
    /\ Asks(r)
    /\ ~Subscribed(ask[r].probe)
    /\ ask' = [ask EXCEPT ![r].probe = @ + 1]
    /\ UNCHANGED <<subs, override, cache>>

ProbeFails(r) ==
    /\ Asks(r)
    /\ ask' = [ask EXCEPT ![r].probe = @ + 1, ![r].erred = TRUE, ![r].steady = {}]
    /\ UNCHANGED <<subs, override, cache>>

(* The wallets cannot be read: no chain is asked any more.                 *)
WalletsFail(r) ==
    /\ IsAt(r, "probe")
    /\ ask' = [ask EXCEPT ![r].pc = "fill", ![r].erred = TRUE, ![r].steady = {}]
    /\ UNCHANGED <<subs, override, cache>>

NoneActive(r) ==
    /\ IsAt(r, "probe")
    /\ ask[r].probe \notin Probes
    /\ ask' = [ask EXCEPT ![r].pc = "fill"]
    /\ UNCHANGED <<subs, override, cache>>

(* A subscription, then the override, then the fallback; whichever it is is*)
(* cached, over what is there, for CacheTTL from when the resolve began,   *)
(* and so is the fallback when a chain failed.                             *)
Resolved(r) ==
    IF ask[r].said = "" THEN ask[r].fallback
    ELSE IF ask[r].said = "premium" THEN "premium" ELSE "free"

Fill(r) ==
    /\ IsAt(r, "fill")
    /\ cache' = IF ask[r].age > CacheTTL THEN NoEntry
                ELSE [out |-> Found(r, Resolved(r)), age |-> ask[r].age, since |-> ask[r].age]
    /\ Returns(r, Found(r, Resolved(r)))
    /\ UNCHANGED <<subs, override>>

-----------------------------------------------------------------------------
Proceed(r) ==
    \/ ReadUser(r) \/ Hit(r) \/ Miss(r) \/ ReadOverride(r)
    \/ ProbeYes(r) \/ ProbeNo(r) \/ NoneActive(r) \/ Fill(r) \/ CountWallets(r)

Trouble(r) == EntitlementFails(r) \/ OverrideFails(r) \/ ProbeFails(r) \/ WalletsFail(r)

Change ==
    \/ \E c \in ChainSet : SetSubscriptions(c)
    \/ \E c \in ChainSet, w \in WalletSet : RevokeSubscription(c, w)
    \/ \E o \in Overrides : SetOverride(o)

PlanNext ==
    \/ Change
    \/ PlanTick
    \/ \E r \in Askers : Ask(r) \/ Proceed(r) \/ Trouble(r)

PlanSpec == PlanInit /\ [][PlanNext]_planVars

-----------------------------------------------------------------------------
(* The contracts, the user, the cache and the requests have their types.   *)
PlanTypeOK ==
    /\ subs \in [ChainSet -> [WalletSet -> 0 .. Forever]]
    /\ override \in Overrides
    /\ cache \in [out : Outcome, age : 0 .. Expired, since : 0 .. Expired]
    /\ ask \in [Askers -> Enquiry]

(* subscription.go:187: whoever is let through had the premium plan, from a*)
(* chain or an override, at some time between the read of the user and the *)
(* storing of the plan by the request that resolved it.                    *)
PremiumEarned ==
    \A r \in Askers : IsAt(r, "done") /\ ask[r].allowed => ask[r].out.earned

(* subscription.go:244: whoever is turned away, while one subscription or  *)
(* the override was in force all the time the plan took to be resolved, is *)
(* so because a call failed then: asking chain after chain while another   *)
(* request fills the cache, and serving it from there, loses nothing.      *)
FreeForACause ==
    \A r \in Askers : IsAt(r, "done") /\ ~ask[r].allowed => ask[r].out.cause

(* subscription.go:300: what the cache answers was resolved by a request   *)
(* that began at most CacheTTL before, failures remembered there included, *)
(* however long that request took and however often the entry was asked.   *)
AnswersFresh ==
    \A r \in Askers : IsAt(r, "done") => ask[r].out.fresh

(***************************************************************************)
(* Both: whoever is let through or turned away, there is a reason for it.  *)
(***************************************************************************)
PlanJustified == PremiumEarned /\ FreeForACause
=============================================================================
