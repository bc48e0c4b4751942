--------------------------- MODULE MCIragGateway ---------------------------
(***************************************************************************)
(* Instances for TLC of IragGateway, with a cached search route that falls *)
(* back on a provider that is not configured, an uncached strict route     *)
(* that starts with it, and a path that has no route; and of IragRoutes.   *)
(*                                                                         *)
(* The two share a run: a behaviour is one of the gateway, the routes      *)
(* untouched, or one of the routes, the gateway untouched.  In the         *)
(* gateway's a request is a key and the answers of its providers; what     *)
(* each of them is asked is the routes' business.                          *)
(***************************************************************************)
EXTENDS IragGateway, IragRoutes

CONSTANTS r1, r2, ryzumi, nexure, search, islamic, unknown

TwoRequests == {r1, r2}
RequestSymmetry == Permutations(Requests)

FallbackChain == (search :> <<ryzumi, nexure>> @@ islamic :> <<nexure, ryzumi>> @@ unknown :> <<>>)
SearchCached == (search :> 1 @@ islamic :> 0 @@ unknown :> 0)
OneTick == [k \in Keys |-> 1]

NoRoutes == asking = NoAsk /\ turn = 1 /\ lastSent = NothingSent /\ knew = FALSE

MCInit == Init /\ (NoRoutes \/ RouteInit)

MCNext == IF asking = NoAsk THEN Next /\ UNCHANGED routeVars ELSE RouteNext /\ UNCHANGED vars

MCSpec == MCInit /\ [][MCNext]_<<vars, routeVars>>
=============================================================================
