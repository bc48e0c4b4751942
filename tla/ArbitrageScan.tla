---------------------------- MODULE ArbitrageScan ----------------------------
(***************************************************************************)
(* The arbitrage scanner (src/engine/market/arbitrage/engine.go, job.go):  *)
(* one job of the engine that, scan after scan, takes the coins' snapshots *)
(* out of the aggregator once, and then goes through them in the order of  *)
(* their names: configuration row, cooldown key, alert row, cooldown key.  *)
(*                                                                         *)
(* Between any two of those calls time passes, the operator may change a   *)
(* row of arbitrage_config, and the engine may be stopped and started; of  *)
(* each call to Redis or Postgres no answer may come.  The alert row and   *)
(* the cooldown key are written in that order and not together.            *)
(*                                                                         *)
(* owed, unmarked and alerted are history: what remains of the cooldown    *)
(* the last alert on a key promised, whether that promise went without its *)
(* key, and the keys alerted on so far.                                    *)
(* SkipStaying, MarkForgotten and InsertMarking are slips the properties   *)
(* must notice; no action uses them.                                       *)
(***************************************************************************)
EXTENDS Integers

CONSTANTS
    NumCoins,       \* the coins, numbered in the order of their ids
    Pairs,          \* a buying and a selling exchange
    MaxCooldown     \* bound: the longest CooldownSeconds, in ticks

ASSUME NumCoinsAssumption == NumCoins \in Nat
ASSUME MaxCooldownAssumption == MaxCooldown \in Nat

VARIABLES
    config,         \* table arbitrage_config: CooldownSeconds and IsEnabled
    cooldown,       \* Redis arb:cooldown:*, what is left of each key
    phase,          \* what the job does next; "down" once it has failed
    todo,           \* the coins of this scan that are still to do
    seen,           \* what the snapshots offer, of each of those coins
    cfg,            \* the row last read
    unchecked,      \* whether Redis failed to tell about the cooldown
    owed, unmarked, alerted

jobVars == <<phase, todo, seen, cfg, unchecked>>
auditVars == <<owed, unmarked, alerted>>
vars == <<config, cooldown, jobVars, auditVars>>

Coins == 1 .. NumCoins
Keys == Coins \X Pairs
Left == 0 .. MaxCooldown
Config == [seconds : Left, enabled : BOOLEAN]

NoOffer == "no offer"
Phases == {"idle", "config", "check", "insert", "mark", "down"}

(* What the loop has at hand while it is between two coins.                *)
NoRow == [seconds |-> 0, enabled |-> FALSE]

Coin == CHOOSE c \in todo : \A d \in todo : c <= d
Key == <<Coin, seen[Coin]>>

Init ==
    /\ config \in [Coins -> Config]
    /\ cooldown = [k \in Keys |-> 0]
    /\ phase = "idle"
    /\ todo = {}
    /\ seen = [c \in Coins |-> NoOffer]
    /\ cfg = NoRow
    /\ unchecked = FALSE
    /\ owed = [k \in Keys |-> 0]
    /\ unmarked = [k \in Keys |-> FALSE]
    /\ alerted = {}

(* Scan: the snapshots, and what detectOpportunity will find in them.      *)
Begin(known, offers) ==
    /\ phase = "idle"
    /\ phase' = IF known = {} THEN "idle" ELSE "config"
    /\ todo' = known
    /\ seen' = [c \in Coins |-> IF c \in known THEN offers[c] ELSE NoOffer]
    /\ UNCHANGED <<config, cooldown, cfg, unchecked, auditVars>>

NextCoin ==
    /\ todo' = todo \ {Coin}
    /\ seen' = [seen EXCEPT ![Coin] = NoOffer]
    /\ cfg' = NoRow
    /\ unchecked' = FALSE
    /\ phase' = IF todo = {Coin} THEN "idle" ELSE "config"

(* ConfigStore.Get; a coin that is disabled or offers nothing is passed.   *)
ReadConfig ==
    /\ phase = "config"
    /\ IF config[Coin].enabled /\ seen[Coin] \in Pairs
       THEN /\ cfg' = config[Coin]
            /\ phase' = "check"
            /\ UNCHANGED <<todo, seen, unchecked>>
       ELSE NextCoin
    /\ UNCHANGED <<config, cooldown, auditVars>>

(* An error ends the scan, the job and, in time, the engine.               *)
Drop ==
    /\ todo' = {}
    /\ seen' = [c \in Coins |-> NoOffer]
    /\ cfg' = NoRow
    /\ unchecked' = FALSE

GoDown == phase' = "down" /\ Drop

ConfigFails ==
    /\ phase = "config"
    /\ GoDown
    /\ UNCHANGED <<config, cooldown, auditVars>>

(* onCooldown: no cooldown configured, no such key, or no answer.          *)
SkipStaying == phase' = "config" /\ UNCHANGED <<todo, seen, cfg, unchecked>>

Skip == NextCoin

Check ==
    /\ phase = "check"
    /\ IF cfg.seconds > 0 /\ cooldown[Key] > 0
       THEN Skip
       ELSE phase' = "insert" /\ UNCHANGED <<todo, seen, cfg, unchecked>>
    /\ UNCHANGED <<config, cooldown, auditVars>>

CheckUnanswered ==
    /\ phase = "check"
    /\ cfg.seconds > 0
    /\ phase' = "insert"
    /\ unchecked' = TRUE
    /\ UNCHANGED <<config, cooldown, todo, seen, cfg, auditVars>>

Alert ==
    /\ owed' = [owed EXCEPT ![Key] = cfg.seconds]
    /\ alerted' = alerted \cup {Key}

(* SignalStore.Insert                                                      *)
Insert ==
    /\ phase = "insert"
    /\ Alert
    /\ unmarked' = [unmarked EXCEPT ![Key] = FALSE]
    /\ phase' = "mark"
    /\ UNCHANGED <<config, cooldown, todo, seen, cfg, unchecked>>

(* The row may be there all the same.                                      *)
InsertMarking ==
    /\ phase = "insert"
    /\ GoDown
    /\ cooldown' = [cooldown EXCEPT ![Key] = cfg.seconds]
    /\ UNCHANGED <<config, auditVars>>

InsertFails ==
    /\ phase = "insert"
    /\ GoDown
    /\ \/ UNCHANGED auditVars
       \/ /\ Alert
          /\ unmarked' = [unmarked EXCEPT ![Key] = TRUE]
    /\ UNCHANGED <<config, cooldown>>

(* markCooldown: with no cooldown configured nothing is written.           *)
MarkForgotten ==
    /\ phase = "mark"
    /\ NextCoin
    /\ UNCHANGED <<config, cooldown, auditVars>>

Mark ==
    /\ phase = "mark"
    /\ cooldown' = IF cfg.seconds > 0
                   THEN [cooldown EXCEPT ![Key] = cfg.seconds]
                   ELSE cooldown
    /\ NextCoin
    /\ UNCHANGED <<config, auditVars>>

(* The SET fails, and its error is dropped.                                *)
MarkFails ==
    /\ phase = "mark"
    /\ cfg.seconds > 0
    /\ unmarked' = [unmarked EXCEPT ![Key] = TRUE]
    /\ NextCoin
    /\ UNCHANGED <<config, cooldown, owed, alerted>>

(* The engine stops, of itself or not, and is started again.               *)
Restart ==
    /\ phase' = "idle"
    /\ Drop
    /\ unmarked' = IF phase = "mark" THEN [unmarked EXCEPT ![Key] = TRUE] ELSE unmarked
    /\ UNCHANGED <<config, cooldown, owed, alerted>>

Reconfigure(c, row) ==
    /\ config' = [config EXCEPT ![c] = row]
    /\ UNCHANGED <<cooldown, jobVars, auditVars>>

Lapsed(n) == IF n > 0 THEN n - 1 ELSE 0

Tick ==
    /\ cooldown' = [k \in Keys |-> Lapsed(cooldown[k])]
    /\ owed' = [k \in Keys |-> Lapsed(owed[k])]
    /\ UNCHANGED <<config, jobVars, unmarked, alerted>>

Proceed ==
    \/ ReadConfig \/ ConfigFails
    \/ Check \/ CheckUnanswered
    \/ Insert \/ InsertFails
    \/ Mark \/ MarkFails

Next ==
    \/ \E known \in SUBSET Coins, offers \in [Coins -> Pairs \cup {NoOffer}] :
         Begin(known, offers)
    \/ Proceed
    \/ Restart
    \/ \E c \in Coins, row \in Config : Reconfigure(c, row)
    \/ Tick

Spec == Init /\ [][Next]_vars

(* The job's goroutine runs.                                               *)
FairSpec == Spec /\ WF_vars(Proceed)

-----------------------------------------------------------------------------
TypeOK ==
    /\ config \in [Coins -> Config]
    /\ cooldown \in [Keys -> Left]
    /\ phase \in Phases
    /\ todo \in SUBSET Coins
    /\ seen \in [Coins -> Pairs \cup {NoOffer}]
    /\ cfg \in Config
    /\ unchecked \in BOOLEAN
    /\ owed \in [Keys -> Left]
    /\ unmarked \in [Keys -> BOOLEAN]
    /\ alerted \in SUBSET Keys

\* A row whose cooldown has been set to 0 asks for alerts without a pause.
Alerting == phase = "insert" /\ cfg.seconds > 0

(***************************************************************************)
(* A pair is alerted on again within the cooldown of its last alert only   *)
(* where Redis did not answer the check, or where that alert's key could   *)
(* not be written: the SET failed, the INSERT's answer was lost, or the    *)
(* engine stopped between the two.  Not counted is an alert by a row whose *)
(* cooldown has since been set to 0: Scan then does not look at the key.   *)
(***************************************************************************)
RealertNeedsTrouble ==
    Alerting /\ owed[Key] > 0 => unchecked \/ unmarked[Key]

(***************************************************************************)
(* No pair is kept quiet on account of an alert that was never recorded:   *)
(* an INSERT that fails leaves no key behind.                              *)
(***************************************************************************)
QuietOnlyAfterAlert == \A k \in Keys : cooldown[k] > 0 => k \in alerted

(***************************************************************************)
(* Whatever is disabled, skipped or fails, a scan comes to its end.        *)
(***************************************************************************)
ScansFinish == (phase = "config") ~> (phase \in {"idle", "down"})
=============================================================================
