-------------------------- MODULE IragBreakerAudit --------------------------
(***************************************************************************)
(* The gateway with a memory of its own: history variables record what the *)
(* breaker's two fields forget, so that the documented contract of the     *)
(* breaker can be compared with what the code does.                        *)
(***************************************************************************)
EXTENDS IragGateway

VARIABLES
    backoff,        \* ticks left of the window since a failure last opened p
    pardoned,       \* a success has come in during that window
    faults          \* counted failures of p that p itself caused

auditVars == <<backoff, pardoned, faults>>

AuditInit ==
    /\ Init
    /\ backoff = [p \in Providers |-> 0]
    /\ pardoned = [p \in Providers |-> FALSE]
    /\ faults = [p \in Providers |-> 0]

(* A failure of p was counted; own is 1 when p is to blame for it.         *)
NoteFailure(p, own) ==
    /\ faults' = [faults EXCEPT ![p] = @ + own]
    /\ IF openFor'[p] = Cooldown
       THEN /\ backoff' = [backoff EXCEPT ![p] = Cooldown]
            /\ pardoned' = [pardoned EXCEPT ![p] = FALSE]
       ELSE UNCHANGED <<backoff, pardoned>>

NoteSuccess(p) ==
    /\ faults' = [faults EXCEPT ![p] = 0]
    /\ pardoned' = [pardoned EXCEPT ![p] = backoff[p] > 0]
    /\ UNCHANGED backoff

NoteCall(r) ==
    /\ faults' = [faults EXCEPT ![Current(r)] = IF CooldownOver(Current(r)) THEN 0 ELSE @]
    /\ UNCHANGED <<backoff, pardoned>>

NoteTick ==
    /\ backoff' = [p \in Providers |-> IF backoff[p] > 0 THEN backoff[p] - 1 ELSE 0]
    /\ pardoned' = [p \in Providers |-> pardoned[p] /\ backoff'[p] > 0]
    /\ UNCHANGED faults

NoteRestart ==
    /\ backoff' = [p \in Providers |-> 0]
    /\ pardoned' = [p \in Providers |-> FALSE]
    /\ faults' = [p \in Providers |-> 0]

OwnFailure(r) ==
    CallFails(r) \/ CallTimesOut(r) \/ CallUnavailable(r)
      \/ \E s \in Statuses : ReplyRetryable(r, s)

AuditNext ==
    \/ \E r \in Requests, k \in Keys : Arrive(r, k) /\ UNCHANGED auditVars
    \/ \E r \in Requests :
          \/ /\ \/ HangUp(r) \/ CacheHit(r) \/ CacheMiss(r)
                \/ SkipOpen(r) \/ Deliver(r) \/ GiveUp(r)
             /\ UNCHANGED auditVars
          \/ Call(r) /\ NoteCall(r)
          \/ OwnFailure(r) /\ NoteFailure(Current(r), 1)
          \/ CallCancelled(r) /\ NoteFailure(Current(r), 0)
          \/ (\E s \in Statuses : ReplyUsable(r, s)) /\ NoteSuccess(Current(r))
    \/ Tick /\ NoteTick
    \/ Restart /\ NoteRestart

AuditSpec == AuditInit /\ [][AuditNext]_<<vars, auditVars>>

(* The history watches and does not interfere: the gateway's own fairness. *)
FairAuditSpec == AuditSpec /\ Fairness

Begins(r) == pc[r] = "select" /\ pc'[r] = "calling"

(***************************************************************************)
(* During the window that a failure opened, a provider is called only once *)
(* a call that had begun before the window has come back with a success:   *)
(* nothing else the requests do gets a call past the breaker.              *)
(***************************************************************************)
BackoffUnlessPardoned ==
    [][\A r \in Requests :
          Begins(r) => backoff[Current(r)] = 0 \/ pardoned[Current(r)]]_<<vars, auditVars>>

(***************************************************************************)
(* docs/irag-wrapper-prd.docx.md:722 has it, per provider, that the        *)
(* "circuit breaker opens after 3 consecutive failures".  An open breaker  *)
(* would then mean that many failures of the provider's own making.        *)
(***************************************************************************)
OpenedByProvider ==
    \A p \in Providers : openFor[p] # NotOpen => faults[p] >= FailThreshold
=============================================================================
