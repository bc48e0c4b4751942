------------------------------- MODULE MCApi -------------------------------
(* Two requests to sign in, over one wallet and one Discord profile; and   *)
(* two that ask for a user's plan, of one wallet on two chains.  The two   *)
(* parts of the API share nothing but the id of the user: a behaviour of   *)
(* the instance is one of either, a sum and not a product.                 *)
EXTENDS Api, TLC

CONSTANTS r1, r2, a1, a2, wallet, profile, polygon, base

VARIABLE part   \* the part of the API that is asked

RequestSymmetry == Permutations(Requests)

OneWallet == <<wallet>>
TwoChains == <<polygon, base>>

MCInit == ApiInit /\ part \in {"sessions", "plans"}

MCNext ==
    /\ UNCHANGED part
    /\ \/ part = "sessions" /\ SessionStep
       \/ part = "plans" /\ PlanStep

MCSpec == MCInit /\ [][MCNext]_<<vars, planVars, part>>
=============================================================================
