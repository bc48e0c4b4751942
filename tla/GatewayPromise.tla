--------------------------- MODULE GatewayPromise ---------------------------
(***************************************************************************)
(* What the IRAG gateway promises its clients, without breaker, clock or   *)
(* position in a chain.  A question is answered once: by a provider that   *)
(* serves its key, with a status worth passing on; by an earlier answer of *)
(* that kind to the same key, kept on the shelf; or by the gateway itself, *)
(* which then owns up to having none.                                      *)
(***************************************************************************)
EXTENDS Integers

CONSTANTS
    Requests, Keys, Providers, Gateway,
    Statuses,       \* what providers answer
    Serves(_, _),   \* Serves(k, p): provider p is in the chain of key k
    Passable(_, _)  \* Passable(k, s): status s ends the search for key k

VARIABLES
    stage,          \* "free", "asked" or "told"
    asked,          \* the key asked for
    told,           \* [from, status] of the answer
    shelf           \* reusable answers

promiseVars == <<stage, asked, told, shelf>>

Nobody == [from |-> Gateway, status |-> 0]

PromiseInit ==
    /\ stage = [r \in Requests |-> "free"]
    /\ asked \in [Requests -> Keys]
    /\ told = [r \in Requests |-> Nobody]
    /\ shelf = {}

Tell(r, a) ==
    /\ stage[r] = "asked"
    /\ stage' = [stage EXCEPT ![r] = "told"]
    /\ told' = [told EXCEPT ![r] = a]
    /\ UNCHANGED asked

Ask(r, k) ==
    /\ stage[r] # "asked"
    /\ stage' = [stage EXCEPT ![r] = "asked"]
    /\ asked' = [asked EXCEPT ![r] = k]
    /\ told' = [told EXCEPT ![r] = Nobody]
    /\ UNCHANGED shelf

(* The gateway knows no such route.                                        *)
Refuse(r, k) ==
    /\ stage[r] # "asked"
    /\ \A p \in Providers : ~Serves(k, p)
    /\ stage' = [stage EXCEPT ![r] = "told"]
    /\ asked' = [asked EXCEPT ![r] = k]
    /\ told' = [told EXCEPT ![r] = [from |-> Gateway, status |-> 404]]
    /\ UNCHANGED shelf

TellFresh(r, p, s) ==
    LET new == [key |-> asked[r], from |-> p, status |-> s]
    IN  /\ Serves(asked[r], p)
        /\ Passable(asked[r], s)
        /\ Tell(r, [from |-> p, status |-> s])
        /\ \/ UNCHANGED shelf
           \/ shelf' = {e \in shelf : e.key # asked[r]} \cup {new}

TellFromShelf(r) ==
    /\ \E e \in shelf :
          /\ e.key = asked[r]
          /\ Tell(r, [from |-> e.from, status |-> e.status])
    /\ UNCHANGED shelf

(* A provider serves the key, but none gave an answer worth passing on.    *)
Apologise(r, s) ==
    /\ s \in {502, 504}
    /\ \E p \in Providers : Serves(asked[r], p)
    /\ Tell(r, [from |-> Gateway, status |-> s])
    /\ UNCHANGED shelf

(* Answers on the shelf go out of date.                                    *)
Discard ==
    /\ shelf' \in SUBSET shelf
    /\ UNCHANGED <<stage, asked, told>>

(* The process goes down: what was asked stays unanswered.                 *)
Forget ==
    /\ stage' = [r \in Requests |-> "free"]
    /\ UNCHANGED <<asked, told, shelf>>

PromiseNext ==
    \/ \E r \in Requests, k \in Keys : Ask(r, k) \/ Refuse(r, k)
    \/ \E r \in Requests, p \in Providers, s \in Statuses : TellFresh(r, p, s)
    \/ \E r \in Requests : TellFromShelf(r) \/ (\E s \in {502, 504} : Apologise(r, s))
    \/ Discard
    \/ Forget

PromiseSpec == PromiseInit /\ [][PromiseNext]_promiseVars
=============================================================================
