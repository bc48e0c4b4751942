-------------------------------- MODULE Api --------------------------------
(***************************************************************************)
(* The API server's two parts that keep state: sign-in and sessions        *)
(* (AuthSessions) and the plan a user is entitled to (Entitlements).  Its  *)
(* handlers serve both at once; they share nothing but the id of the user. *)
(***************************************************************************)
EXTENDS AuthSessions, Entitlements

ApiInit == Init /\ PlanInit

SessionStep == Next /\ UNCHANGED planVars
PlanStep == PlanNext /\ UNCHANGED vars

ApiNext == SessionStep \/ PlanStep

ApiSpec == ApiInit /\ [][ApiNext]_<<vars, planVars>>

(***************************************************************************)
(* The types of both parts (api/auth/service.go, subscription.go): all the *)
(* foreign keys between users, sessions and tokens lead somewhere.         *)
(***************************************************************************)
PartsTypeOK == TypeOK /\ PlanTypeOK
=============================================================================
