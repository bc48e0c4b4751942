------------------------ MODULE ArbitrageScan_proofs ------------------------
(***************************************************************************)
(* Proofs about the arbitrage scanner, for any number of coins, any pairs  *)
(* of exchanges and any cooldowns.                                         *)
(***************************************************************************)
EXTENDS ArbitrageScan, FiniteSetTheorems, WellFoundedInduction, TLAPS

USE NumCoinsAssumption, MaxCooldownAssumption
    DEF NumCoinsAssumption, MaxCooldownAssumption

AtWork == phase \in {"config", "check", "insert", "mark"}
HasOffer == phase \in {"check", "insert", "mark"}

(* The scan has a coin in hand, and past its configuration, a pair.        *)
InHand ==
    /\ AtWork => todo # {}
    /\ HasOffer => seen[Coin] \in Pairs

(* Every alert whose key was written is still covered by it; the one that  *)
(* is about to be marked will be.                                          *)
Covered ==
    /\ \A k \in Keys :
         ~unmarked[k] => cooldown[k] >= owed[k] \/ (phase = "mark" /\ k = Key)
    /\ phase = "mark" => cfg.seconds >= owed[Key]

(* A pair about to be alerted on with a check that was answered has no key.*)
CheckHolds == Alerting /\ ~unchecked => cooldown[Key] = 0

Recorded == phase = "mark" => Key \in alerted

IInv == TypeOK /\ InHand /\ Covered /\ CheckHolds /\ Recorded /\ QuietOnlyAfterAlert

-----------------------------------------------------------------------------
LEMMA CoinInHand ==
    ASSUME TypeOK, todo # {}
    PROVE  Coin \in todo /\ Coin \in Coins
<1> DEFINE R == OpToRel(<, Nat)
<1>1. todo \subseteq Nat
  BY DEF TypeOK, Coins
<1>2. \E c \in todo : \A d \in todo : ~(<<d, c>> \in R)
  <2>1. IsWellFoundedOn(R, Nat)
    BY NatLessThanWellFounded
  <2> HIDE DEF R
  <2> QED
    BY <1>1, <2>1, WFMin
<1>3. \E c \in todo : \A d \in todo : c <= d
  <2>1. PICK c \in todo : \A d \in todo : ~(<<d, c>> \in R)
    BY <1>2
  <2>2. ASSUME NEW d \in todo PROVE c <= d
    <3>1. c \in Nat /\ d \in Nat
      BY <1>1
    <3>2. ~(d < c)
      BY <2>1, <3>1 DEF OpToRel
    <3> QED
      BY <3>1, <3>2
  <2> QED
    BY <2>2
<1> QED
  BY <1>3 DEF Coin, TypeOK

LEMMA KeyIsKey ==
    ASSUME TypeOK, InHand, HasOffer
    PROVE  Key \in Keys /\ Coin \in todo /\ todo # {}
  BY CoinInHand DEF InHand, HasOffer, AtWork, Key, Keys

LEMMA KeyKept ==
    ASSUME UNCHANGED <<todo, seen>> PROVE Key' = Key
  BY DEF Key, Coin

LEMMA NextCoinTypes ==
    ASSUME TypeOK, NextCoin, todo # {}
    PROVE  /\ phase' \in {"idle", "config"}
           /\ todo' \in SUBSET Coins
           /\ seen' \in [Coins -> Pairs \cup {NoOffer}]
           /\ cfg' \in Config
           /\ unchecked' \in BOOLEAN
           /\ phase' = "config" => todo' # {}
<1>1. cfg' \in Config
  BY DEF NextCoin, NoRow, Config, Left
<1>2. phase' \in {"idle", "config"} /\ (phase' = "config" => todo' # {})
  BY DEF NextCoin
<1>3. todo' \in SUBSET Coins
  BY DEF TypeOK, NextCoin
<1>4. unchecked' \in BOOLEAN
  BY DEF NextCoin
<1>5. seen' \in [Coins -> Pairs \cup {NoOffer}]
  BY DEF TypeOK, NextCoin
<1> QED
  BY <1>1, <1>2, <1>3, <1>4, <1>5

LEMMA DropTypes ==
    ASSUME Drop
    PROVE  /\ todo' \in SUBSET Coins
           /\ seen' \in [Coins -> Pairs \cup {NoOffer}]
           /\ cfg' \in Config
           /\ unchecked' \in BOOLEAN
<1>1. cfg' \in Config
  BY DEF Drop, NoRow, Config, Left
<1> QED
  BY <1>1 DEF Drop

(* Nothing about alerts and keys changes, and no alert is in hand.         *)
LEMMA QuietStep ==
    ASSUME IInv, TypeOK', UNCHANGED <<cooldown, auditVars>>,
           phase # "mark", phase' \notin {"insert", "mark"},
           phase' = "config" => todo' # {},
           phase' = "check" => todo' # {} /\ seen'[Coin'] \in Pairs
    PROVE  IInv'
<1>1. Covered'
  BY DEF IInv, Covered, auditVars
<1>2. CheckHolds' /\ Recorded'
  BY DEF CheckHolds, Recorded, Alerting
<1>3. InHand'
  BY DEF InHand, AtWork, HasOffer
<1>4. QuietOnlyAfterAlert'
  BY DEF IInv, QuietOnlyAfterAlert, auditVars
<1> QED
  BY <1>1, <1>2, <1>3, <1>4 DEF IInv

-----------------------------------------------------------------------------
LEMMA BeginKeeps ==
    ASSUME IInv, NEW known \in SUBSET Coins,
           NEW offers \in [Coins -> Pairs \cup {NoOffer}], Begin(known, offers)
    PROVE  IInv'
<1>1. TypeOK'
  BY DEF IInv, TypeOK, Begin, auditVars, Phases
<1> QED
  BY <1>1, QuietStep DEF Begin

LEMMA ReadConfigKeeps ==
    ASSUME IInv, ReadConfig PROVE IInv'
<1>1. Coin \in Coins
  BY CoinInHand DEF IInv, InHand, AtWork, ReadConfig
<1>2. CASE config[Coin].enabled /\ seen[Coin] \in Pairs
  <2>1. Coin' = Coin
    BY <1>2 DEF ReadConfig, Coin
  <2>2. TypeOK'
    BY <1>1, <1>2 DEF IInv, TypeOK, ReadConfig, auditVars, Phases
  <2>3. todo' # {} /\ seen'[Coin'] \in Pairs
    BY <1>2, <2>1 DEF IInv, InHand, AtWork, ReadConfig
  <2>4. phase # "mark" /\ phase' = "check" /\ UNCHANGED <<cooldown, auditVars>>
    BY <1>2 DEF ReadConfig
  <2> QED
    BY <2>2, <2>3, <2>4, QuietStep
<1>3. CASE ~(config[Coin].enabled /\ seen[Coin] \in Pairs)
  <2>1. NextCoin
    BY <1>3 DEF ReadConfig
  <2>2. TypeOK'
    BY <2>1, NextCoinTypes DEF IInv, TypeOK, InHand, AtWork, ReadConfig, auditVars, Phases
  <2>3. phase # "mark" /\ UNCHANGED <<cooldown, auditVars>>
    BY DEF ReadConfig
  <2> QED
    BY <2>1, <2>2, <2>3, NextCoinTypes, QuietStep DEF IInv, InHand, AtWork, ReadConfig
<1> QED
  BY <1>2, <1>3

LEMMA ConfigFailsKeeps ==
    ASSUME IInv, ConfigFails PROVE IInv'
<1>1. TypeOK'
  BY DropTypes DEF IInv, TypeOK, ConfigFails, GoDown, auditVars, Phases
<1> QED
  BY <1>1, QuietStep DEF ConfigFails, GoDown

LEMMA CheckKeeps ==
    ASSUME IInv, Check PROVE IInv'
<1>1. CASE cfg.seconds > 0 /\ cooldown[Key] > 0
  <2>1. NextCoin
    BY <1>1 DEF Check, Skip
  <2>2. TypeOK'
    BY <2>1, NextCoinTypes DEF IInv, TypeOK, InHand, AtWork, Check, auditVars, Phases
  <2>3. phase # "mark" /\ UNCHANGED <<cooldown, auditVars>>
    BY DEF Check
  <2> QED
    BY <2>1, <2>2, <2>3, NextCoinTypes, QuietStep DEF IInv, InHand, AtWork, Check
<1>2. CASE ~(cfg.seconds > 0 /\ cooldown[Key] > 0)
  <2>1. /\ phase = "check" /\ phase' = "insert"
        /\ UNCHANGED <<config, cooldown, todo, seen, cfg, unchecked, auditVars>>
    BY <1>2 DEF Check
  <2>2. Key' = Key /\ Coin' = Coin
    BY <2>1, KeyKept DEF Coin
  <2>3. TypeOK'
    BY <2>1 DEF IInv, TypeOK, auditVars, Phases
  <2>4. Key \in Keys /\ todo # {}
    BY <2>1, KeyIsKey DEF IInv, HasOffer
  <2>5. InHand'
    BY <2>1, <2>2, <2>4 DEF IInv, InHand, AtWork, HasOffer
  <2>6. cooldown[Key] \in Nat /\ cfg.seconds \in Nat
    BY <2>4 DEF IInv, TypeOK, Left, Config
  <2>7. CheckHolds'
    BY <1>2, <2>1, <2>2, <2>6 DEF CheckHolds, Alerting
  <2>8. Covered' /\ Recorded' /\ QuietOnlyAfterAlert'
    BY <2>1 DEF IInv, Covered, Recorded, QuietOnlyAfterAlert, auditVars
  <2> QED
    BY <2>3, <2>5, <2>7, <2>8 DEF IInv
<1> QED
  BY <1>1, <1>2

LEMMA CheckUnansweredKeeps ==
    ASSUME IInv, CheckUnanswered PROVE IInv'
<1>1. /\ phase = "check" /\ phase' = "insert" /\ unchecked' = TRUE
      /\ UNCHANGED <<config, cooldown, todo, seen, cfg, auditVars>>
  BY DEF CheckUnanswered
<1>2. Coin' = Coin
  BY <1>1 DEF Coin
<1>3. TypeOK'
  BY <1>1 DEF IInv, TypeOK, auditVars, Phases
<1>4. InHand'
  BY <1>1, <1>2 DEF IInv, InHand, AtWork, HasOffer
<1>5. CheckHolds' /\ Covered' /\ Recorded' /\ QuietOnlyAfterAlert'
  BY <1>1 DEF IInv, CheckHolds, Covered, Recorded, QuietOnlyAfterAlert, auditVars
<1> QED
  BY <1>3, <1>4, <1>5 DEF IInv

LEMMA InsertKeeps ==
    ASSUME IInv, Insert PROVE IInv'
<1>1. /\ phase = "insert" /\ phase' = "mark"
      /\ owed' = [owed EXCEPT ![Key] = cfg.seconds]
      /\ alerted' = alerted \cup {Key}
      /\ unmarked' = [unmarked EXCEPT ![Key] = FALSE]
      /\ UNCHANGED <<config, cooldown, todo, seen, cfg, unchecked>>
  BY DEF Insert, Alert
<1>2. Key' = Key /\ Coin' = Coin
  BY <1>1, KeyKept DEF Coin
<1>3. Key \in Keys /\ todo # {}
  BY <1>1, KeyIsKey DEF IInv, HasOffer
<1>4. cfg.seconds \in Left /\ cfg.seconds \in Nat
  BY DEF IInv, TypeOK, Config, Left
<1>5. TypeOK'
  BY <1>1, <1>3, <1>4 DEF IInv, TypeOK, Phases
<1>6. InHand'
  BY <1>1, <1>2, <1>3 DEF IInv, InHand, AtWork, HasOffer
<1>7. Covered'
  <2>1. cfg'.seconds >= owed'[Key']
    BY <1>1, <1>2, <1>3, <1>4 DEF IInv, TypeOK
  <2>2. ASSUME NEW k \in Keys, ~unmarked'[k], k # Key PROVE cooldown'[k] >= owed'[k]
    BY <1>1, <2>2 DEF IInv, TypeOK, Covered
  <2> QED
    BY <1>1, <1>2, <2>1, <2>2 DEF Covered
<1>8. CheckHolds' /\ Recorded' /\ QuietOnlyAfterAlert'
  BY <1>1, <1>2 DEF IInv, CheckHolds, Alerting, Recorded, QuietOnlyAfterAlert
<1> QED
  BY <1>5, <1>6, <1>7, <1>8 DEF IInv

LEMMA InsertFailsKeeps ==
    ASSUME IInv, InsertFails PROVE IInv'
<1>1. /\ phase = "insert" /\ phase' = "down" /\ Drop
      /\ UNCHANGED <<config, cooldown>>
  BY DEF InsertFails, GoDown
<1>2. Key \in Keys
  BY <1>1, KeyIsKey DEF IInv, HasOffer
<1>3. cfg.seconds \in Left
  BY DEF IInv, TypeOK, Config
<1>4. CASE UNCHANGED auditVars
  <2>1. TypeOK'
    BY <1>1, <1>4, DropTypes DEF IInv, TypeOK, auditVars, Phases
  <2> QED
    BY <1>1, <1>4, <2>1, QuietStep
<1>5. CASE /\ owed' = [owed EXCEPT ![Key] = cfg.seconds]
           /\ alerted' = alerted \cup {Key}
           /\ unmarked' = [unmarked EXCEPT ![Key] = TRUE]
  <2>1. TypeOK'
    BY <1>1, <1>2, <1>3, <1>5, DropTypes DEF IInv, TypeOK, Phases
  <2>2. ASSUME NEW k \in Keys, ~unmarked'[k] PROVE cooldown'[k] >= owed'[k]
    <3>1. k # Key
      BY <1>2, <1>5, <2>2 DEF IInv, TypeOK
    <3> QED
      BY <1>1, <1>5, <2>2, <3>1 DEF IInv, TypeOK, Covered
  <2>3. Covered'
    BY <1>1, <2>2 DEF Covered
  <2>4. InHand' /\ CheckHolds' /\ Recorded'
    BY <1>1 DEF InHand, AtWork, HasOffer, CheckHolds, Alerting, Recorded
  <2>5. QuietOnlyAfterAlert'
    BY <1>1, <1>5 DEF IInv, QuietOnlyAfterAlert
  <2> QED
    BY <2>1, <2>3, <2>4, <2>5 DEF IInv
<1> QED
  BY <1>4, <1>5 DEF InsertFails, Alert

LEMMA MarkKeeps ==
    ASSUME IInv, Mark PROVE IInv'
<1>1. phase = "mark" /\ NextCoin /\ UNCHANGED <<config, auditVars>>
  BY DEF Mark
<1>2. Key \in Keys
  BY <1>1, KeyIsKey DEF IInv, HasOffer
<1>3. cfg.seconds \in Left /\ cfg.seconds \in Nat
  BY DEF IInv, TypeOK, Config, Left
<1>4. cooldown' \in [Keys -> Left]
  BY <1>2, <1>3 DEF IInv, TypeOK, Mark
<1>5. TypeOK'
  BY <1>1, <1>4, NextCoinTypes DEF IInv, TypeOK, InHand, AtWork, auditVars, Phases
<1>6. cooldown'[Key] >= owed[Key]
  <2>1. cfg.seconds >= owed[Key] /\ owed[Key] \in Nat /\ cooldown[Key] \in Nat
    BY <1>1, <1>2 DEF IInv, Covered, TypeOK, Left
  <2>2. cfg.seconds > 0 => cooldown'[Key] = cfg.seconds
    BY <1>2 DEF IInv, TypeOK, Mark
  <2>3. cfg.seconds = 0 => cooldown'[Key] = cooldown[Key]
    BY <1>2 DEF IInv, TypeOK, Mark
  <2> QED
    BY <1>3, <2>1, <2>2, <2>3
<1>7. ASSUME NEW k \in Keys, ~unmarked[k] PROVE cooldown'[k] >= owed[k]
  <2>1. CASE k = Key
    BY <1>6, <2>1
  <2>2. CASE k # Key
    BY <1>7, <2>2 DEF IInv, TypeOK, Covered, Mark
  <2> QED
    BY <2>1, <2>2
<1>8. phase' \in {"idle", "config"} /\ (phase' = "config" => todo' # {})
  BY <1>1, NextCoinTypes DEF IInv, InHand, AtWork
<1>9. Covered'
  BY <1>1, <1>7, <1>8 DEF Covered, auditVars
<1>10. InHand' /\ CheckHolds' /\ Recorded'
  BY <1>8 DEF InHand, AtWork, HasOffer, CheckHolds, Alerting, Recorded
<1>11. QuietOnlyAfterAlert'
  <2>1. Key \in alerted
    BY <1>1 DEF IInv, Recorded
  <2>2. \A k \in Keys : k # Key => cooldown'[k] = cooldown[k]
    BY DEF IInv, TypeOK, Mark
  <2> QED
    BY <1>1, <2>1, <2>2 DEF IInv, QuietOnlyAfterAlert, auditVars
<1> QED
  BY <1>5, <1>9, <1>10, <1>11 DEF IInv

LEMMA MarkFailsKeeps ==
    ASSUME IInv, MarkFails PROVE IInv'
<1>1. /\ phase = "mark" /\ NextCoin
      /\ unmarked' = [unmarked EXCEPT ![Key] = TRUE]
      /\ UNCHANGED <<config, cooldown, owed, alerted>>
  BY DEF MarkFails
<1>2. TypeOK'
  BY <1>1, NextCoinTypes DEF IInv, TypeOK, InHand, AtWork, Phases
<1>3. phase' \in {"idle", "config"} /\ (phase' = "config" => todo' # {})
  BY <1>1, NextCoinTypes DEF IInv, InHand, AtWork
<1>4. Key \in Keys
  BY <1>1, KeyIsKey DEF IInv, HasOffer
<1>5. ASSUME NEW k \in Keys, ~unmarked'[k] PROVE cooldown[k] >= owed[k]
  <2>1. k # Key
    BY <1>1, <1>4, <1>5 DEF IInv, TypeOK
  <2> QED
    BY <1>1, <1>5, <2>1 DEF IInv, TypeOK, Covered
<1>6. Covered'
  BY <1>1, <1>3, <1>5 DEF Covered
<1>7. InHand' /\ CheckHolds' /\ Recorded' /\ QuietOnlyAfterAlert'
  BY <1>1, <1>3 DEF IInv, InHand, AtWork, HasOffer, CheckHolds, Alerting, Recorded,
                    QuietOnlyAfterAlert
<1> QED
  BY <1>2, <1>6, <1>7 DEF IInv

LEMMA RestartKeeps ==
    ASSUME IInv, Restart PROVE IInv'
<1>1. /\ phase' = "idle" /\ Drop
      /\ UNCHANGED <<config, cooldown, owed, alerted>>
  BY DEF Restart
<1>2. unmarked' \in [Keys -> BOOLEAN]
  BY DEF IInv, TypeOK, Restart
<1>3. TypeOK'
  BY <1>1, <1>2, DropTypes DEF IInv, TypeOK, Phases
<1>4. ASSUME NEW k \in Keys, ~unmarked'[k] PROVE cooldown[k] >= owed[k]
  <2>1. CASE phase = "mark"
    <3>1. Key \in Keys
      BY <2>1, KeyIsKey DEF IInv, HasOffer
    <3>2. unmarked' = [unmarked EXCEPT ![Key] = TRUE]
      BY <2>1 DEF Restart
    <3>3. k # Key
      BY <1>4, <3>1, <3>2 DEF IInv, TypeOK
    <3> QED
      BY <1>4, <3>2, <3>3 DEF IInv, TypeOK, Covered
  <2>2. CASE phase # "mark"
    BY <1>4, <2>2 DEF IInv, Covered, Restart
  <2> QED
    BY <2>1, <2>2
<1>5. Covered'
  BY <1>1, <1>4 DEF Covered
<1>6. InHand' /\ CheckHolds' /\ Recorded' /\ QuietOnlyAfterAlert'
  BY <1>1 DEF IInv, InHand, AtWork, HasOffer, CheckHolds, Alerting, Recorded,
              QuietOnlyAfterAlert
<1> QED
  BY <1>3, <1>5, <1>6 DEF IInv

(* Time and the operator leave the job where it is.                        *)
LEMMA ReconfigureKeeps ==
    ASSUME IInv, NEW c \in Coins, NEW row \in Config, Reconfigure(c, row)
    PROVE  IInv'
<1>1. UNCHANGED <<cooldown, phase, todo, seen, cfg, unchecked, owed, unmarked, alerted>>
  BY DEF Reconfigure, jobVars, auditVars
<1>2. Key' = Key /\ Coin' = Coin
  BY <1>1, KeyKept DEF Coin
<1>3. TypeOK'
  BY <1>1 DEF IInv, TypeOK, Reconfigure
<1> QED
  BY <1>1, <1>2, <1>3 DEF IInv, InHand, AtWork, HasOffer, Covered, CheckHolds, Alerting,
                          Recorded, QuietOnlyAfterAlert

LEMMA TickKeeps ==
    ASSUME IInv, Tick PROVE IInv'
<1>1. /\ cooldown' = [k \in Keys |-> Lapsed(cooldown[k])]
      /\ owed' = [k \in Keys |-> Lapsed(owed[k])]
      /\ UNCHANGED <<config, phase, todo, seen, cfg, unchecked, unmarked, alerted>>
  BY DEF Tick, jobVars
<1>2. Key' = Key /\ Coin' = Coin
  BY <1>1, KeyKept DEF Coin
<1>3. \A k \in Keys : cooldown[k] \in Left /\ owed[k] \in Left
  BY DEF IInv, TypeOK
<1>4. TypeOK'
  BY <1>1, <1>3 DEF IInv, TypeOK, Lapsed, Left
<1>5. InHand' /\ Recorded'
  BY <1>1, <1>2 DEF IInv, InHand, AtWork, HasOffer, Recorded
<1>6. \A k \in Keys : cooldown[k] >= owed[k] => cooldown'[k] >= owed'[k]
  BY <1>1, <1>3 DEF Lapsed, Left
<1>7. phase = "mark" => cfg.seconds >= owed'[Key]
  <2> SUFFICES ASSUME phase = "mark" PROVE cfg.seconds >= owed'[Key]
    OBVIOUS
  <2>1. Key \in Keys
    BY KeyIsKey DEF IInv, HasOffer
  <2>2. cfg.seconds >= owed[Key] /\ cfg.seconds \in Nat
    BY DEF IInv, Covered, TypeOK, Config, Left
  <2> QED
    BY <1>1, <1>3, <2>1, <2>2 DEF Lapsed, Left
<1>8. Covered'
  BY <1>1, <1>2, <1>6, <1>7 DEF IInv, Covered
<1>9. CheckHolds'
  <2> SUFFICES ASSUME Alerting, ~unchecked PROVE cooldown'[Key] = 0
    BY <1>1, <1>2 DEF CheckHolds, Alerting
  <2>1. Key \in Keys /\ cooldown[Key] = 0
    BY KeyIsKey DEF IInv, HasOffer, CheckHolds, Alerting
  <2> QED
    BY <1>1, <2>1 DEF Lapsed
<1>10. QuietOnlyAfterAlert'
  BY <1>1, <1>3 DEF IInv, QuietOnlyAfterAlert, Lapsed, Left
<1> QED
  BY <1>4, <1>5, <1>8, <1>9, <1>10 DEF IInv

LEMMA Invariance == Spec => []IInv
<1>1. Init => IInv
  <2> SUFFICES ASSUME Init PROVE IInv
    OBVIOUS
  <2>1. TypeOK
    <3>1. NoRow \in Config /\ 0 \in Left
      BY DEF NoRow, Config, Left
    <3>2. /\ cooldown \in [Keys -> Left] /\ owed \in [Keys -> Left]
          /\ unmarked \in [Keys -> BOOLEAN] /\ alerted \in SUBSET Keys
      BY <3>1 DEF Init
    <3>3. /\ config \in [Coins -> Config] /\ todo \in SUBSET Coins
          /\ seen \in [Coins -> Pairs \cup {NoOffer}]
      BY DEF Init
    <3>4. phase \in Phases /\ cfg \in Config /\ unchecked \in BOOLEAN
      BY <3>1 DEF Init, Phases
    <3> QED
      BY <3>2, <3>3, <3>4 DEF TypeOK
  <2>2. Covered
    BY DEF Init, Covered
  <2>3. InHand /\ CheckHolds /\ Recorded
    BY DEF Init, InHand, AtWork, HasOffer, CheckHolds, Alerting, Recorded
  <2>4. QuietOnlyAfterAlert
    BY DEF Init, QuietOnlyAfterAlert
  <2> QED
    BY <2>1, <2>2, <2>3, <2>4 DEF IInv
<1>2. IInv /\ [Next]_vars => IInv'
  <2> SUFFICES ASSUME IInv, [Next]_vars PROVE IInv'
    OBVIOUS
  <2>1. CASE UNCHANGED vars
    <3>1. Key' = Key /\ Coin' = Coin
      BY <2>1, KeyKept DEF vars, jobVars, Coin
    <3>2. TypeOK'
      BY <2>1 DEF IInv, TypeOK, vars, jobVars, auditVars
    <3>3. InHand' /\ Recorded' /\ QuietOnlyAfterAlert'
      BY <2>1, <3>1 DEF IInv, InHand, AtWork, HasOffer, Recorded,
         QuietOnlyAfterAlert, vars, jobVars, auditVars
    <3>5. CheckHolds'
      BY <2>1, <3>1 DEF IInv, CheckHolds, Alerting, vars, jobVars
    <3>4. Covered'
      BY <2>1, <3>1 DEF IInv, Covered, vars, jobVars, auditVars
    <3> QED
      BY <3>2, <3>3, <3>4, <3>5 DEF IInv
  <2>2. CASE Next
    BY <2>2, BeginKeeps, ReadConfigKeeps, ConfigFailsKeeps, CheckKeeps,
       CheckUnansweredKeeps, InsertKeeps, InsertFailsKeeps, MarkKeeps, MarkFailsKeeps,
       RestartKeeps, ReconfigureKeeps, TickKeeps DEF Next, Proceed
  <2> QED
    BY <2>1, <2>2
<1> QED
  BY <1>1, <1>2, PTL DEF Spec

-----------------------------------------------------------------------------
(* The scan's calls, failures, restarts, the operator and the clock keep   *)
(* the types.                                                              *)
THEOREM TypeCorrect == Spec => []TypeOK
<1>1. IInv => TypeOK
  BY DEF IInv
<1> QED
  BY <1>1, Invariance, PTL

(* A pair is alerted on within its cooldown only where Redis failed or the *)
(* engine stopped between the alert and its key.                           *)
THEOREM RealertAlwaysNeedsTrouble == Spec => []RealertNeedsTrouble
<1>1. IInv => RealertNeedsTrouble
  <2> SUFFICES ASSUME IInv, Alerting, ~unchecked, ~unmarked[Key] PROVE ~(owed[Key] > 0)
    BY DEF RealertNeedsTrouble
  <2>1. Key \in Keys
    BY KeyIsKey DEF IInv, HasOffer, Alerting
  <2>2. cooldown[Key] = 0
    BY DEF IInv, CheckHolds
  <2>3. cooldown[Key] >= owed[Key]
    BY <2>1 DEF IInv, Covered, Alerting
  <2>4. owed[Key] \in Nat
    BY <2>1 DEF IInv, TypeOK, Left
  <2> QED
    BY <2>2, <2>3, <2>4
<1> QED
  BY <1>1, Invariance, PTL

(* No cooldown key stands for an alert that was not recorded.              *)
THEOREM QuietAlwaysAfterAlert == Spec => []QuietOnlyAfterAlert
<1>1. IInv => QuietOnlyAfterAlert
  BY DEF IInv
<1> QED
  BY <1>1, Invariance, PTL

-----------------------------------------------------------------------------
(* The calls a scan has before it at most: four for a coin it has not come *)
(* to, fewer for the one in hand.                                          *)
CallsLeft == [config |-> 4, check |-> 3, insert |-> 2, mark |-> 1]

StepsLeft == IF AtWork THEN 4 * (Cardinality(todo) - 1) + CallsLeft[phase] ELSE 0

(* Every call of the scan uses one up, and nothing but a new scan adds any.*)
WearsDown ==
    /\ Proceed => StepsLeft' < StepsLeft
    /\ phase # "idle" => StepsLeft' <= StepsLeft

LEMMA TodoFinite ==
    ASSUME TypeOK
    PROVE  /\ IsFiniteSet(todo)
           /\ Cardinality(todo) \in 0 .. NumCoins
           /\ todo # {} => Cardinality(todo) >= 1
<1>1. IsFiniteSet(Coins) /\ Cardinality(Coins) = NumCoins
  BY FS_Interval DEF Coins
<1>2. IsFiniteSet(todo) /\ Cardinality(todo) <= NumCoins
  BY <1>1, FS_Subset DEF TypeOK
<1>3. Cardinality(todo) \in Nat /\ (Cardinality(todo) = 0 <=> todo = {})
  BY <1>2, FS_CardinalityType, FS_EmptySet
<1> QED
  BY <1>2, <1>3

LEMMA StepsLeftIn ==
    ASSUME IInv PROVE StepsLeft \in 0 .. 4 * NumCoins
<1>1. Cardinality(todo) \in 0 .. NumCoins /\ (AtWork => Cardinality(todo) >= 1)
  BY TodoFinite DEF IInv, InHand
<1>2. AtWork => CallsLeft[phase] \in 1 .. 4
  BY DEF AtWork, CallsLeft
<1> QED
  BY <1>1, <1>2 DEF StepsLeft

(* With its coin done the scan has at least as many calls less as that     *)
(* coin had left.                                                          *)
LEMMA NextCoinWears ==
    ASSUME IInv, AtWork, NextCoin PROVE StepsLeft' < StepsLeft
<1>1. Coin \in todo
  BY CoinInHand DEF IInv, InHand
<1>2. IsFiniteSet(todo) /\ Cardinality(todo) \in Nat /\ Cardinality(todo) >= 1
  BY TodoFinite DEF IInv, InHand
<1>3. Cardinality(todo') = Cardinality(todo) - 1
  BY <1>1, <1>2, FS_RemoveElement DEF NextCoin
<1>4. StepsLeft = 4 * (Cardinality(todo) - 1) + CallsLeft[phase] /\ CallsLeft[phase] \in 1 .. 4
  BY DEF StepsLeft, AtWork, CallsLeft
<1>5. CASE phase' = "config"
  <2>1. StepsLeft' = 4 * (Cardinality(todo') - 1) + 4
    BY <1>5 DEF StepsLeft, AtWork, CallsLeft
  <2> QED
    BY <1>2, <1>3, <1>4, <2>1
<1>6. CASE phase' = "idle"
  <2>1. StepsLeft' = 0
    BY <1>6 DEF StepsLeft, AtWork
  <2> QED
    BY <1>2, <1>4, <2>1
<1> QED
  BY <1>5, <1>6 DEF NextCoin

LEMMA CallWears ==
    ASSUME IInv, AtWork, AtWork', UNCHANGED todo, CallsLeft[phase'] < CallsLeft[phase]
    PROVE  StepsLeft' < StepsLeft
<1>1. Cardinality(todo) \in Nat
  BY TodoFinite DEF IInv
<1>2. CallsLeft[phase] \in 1 .. 4 /\ CallsLeft[phase'] \in 1 .. 4
  BY DEF AtWork, CallsLeft
<1> QED
  BY <1>1, <1>2 DEF StepsLeft

LEMMA ProceedWears ==
    ASSUME IInv, Proceed PROVE StepsLeft' < StepsLeft
<1>0. AtWork
  BY DEF Proceed, ReadConfig, ConfigFails, Check, CheckUnanswered, Insert, InsertFails,
         Mark, MarkFails, AtWork
<1>1. CASE NextCoin
  BY <1>0, <1>1, NextCoinWears
<1>2. CASE GoDown
  <2>1. StepsLeft' = 0
    BY <1>2 DEF GoDown, StepsLeft, AtWork
  <2>2. StepsLeft >= 1
    <3>1. Cardinality(todo) \in Nat /\ Cardinality(todo) >= 1
      BY <1>0, TodoFinite DEF IInv, InHand
    <3>2. CallsLeft[phase] \in 1 .. 4
      BY <1>0 DEF AtWork, CallsLeft
    <3> QED
      BY <1>0, <3>1, <3>2 DEF StepsLeft
  <2>3. StepsLeft \in Nat
    BY StepsLeftIn
  <2> QED
    BY <2>1, <2>2, <2>3
<1>3. CASE phase = "config" /\ phase' = "check" /\ UNCHANGED todo
  <2>1. AtWork' /\ CallsLeft[phase'] < CallsLeft[phase]
    BY <1>3 DEF AtWork, CallsLeft
  <2> QED
    BY <1>0, <1>3, <2>1, CallWears
<1>4. CASE phase = "check" /\ phase' = "insert" /\ UNCHANGED todo
  <2>1. AtWork' /\ CallsLeft[phase'] < CallsLeft[phase]
    BY <1>4 DEF AtWork, CallsLeft
  <2> QED
    BY <1>0, <1>4, <2>1, CallWears
<1>5. CASE phase = "insert" /\ phase' = "mark" /\ UNCHANGED todo
  <2>1. AtWork' /\ CallsLeft[phase'] < CallsLeft[phase]
    BY <1>5 DEF AtWork, CallsLeft
  <2> QED
    BY <1>0, <1>5, <2>1, CallWears
<1> QED
  BY <1>1, <1>2, <1>3, <1>4, <1>5
     DEF Proceed, ReadConfig, ConfigFails, Check, Skip, CheckUnanswered, Insert, InsertFails,
         Mark, MarkFails

(* A scan makes at most four calls a coin: every one of them, answered or  *)
(* not, brings its end nearer, and neither the operator, the clock nor a   *)
(* restart puts it off.                                                    *)
THEOREM ScansWearDown == Spec => [](StepsLeft \in 0 .. 4 * NumCoins) /\ [][WearsDown]_vars
<1> DEFINE Bounded == StepsLeft \in 0 .. 4 * NumCoins
<1>1. IInv /\ Bounded /\ Bounded' /\ [Next]_vars => [WearsDown]_vars
  <2> SUFFICES ASSUME IInv, Bounded, Bounded', Next PROVE WearsDown
    OBVIOUS
  <2>0. StepsLeft \in Nat /\ StepsLeft' \in Nat
    OBVIOUS
  <2>1. Proceed => StepsLeft' < StepsLeft
    BY ProceedWears
  <2>2. CASE Proceed
    BY <2>0, <2>1, <2>2 DEF WearsDown
  <2>3. CASE Restart
    <3>1. StepsLeft' = 0
      BY <2>3 DEF Restart, StepsLeft, AtWork
    <3> QED
      BY <2>0, <2>1, <3>1 DEF WearsDown
  <2>4. CASE UNCHANGED jobVars
    <3>1. StepsLeft' = StepsLeft
      BY <2>4 DEF jobVars, StepsLeft, AtWork
    <3> QED
      BY <2>0, <2>1, <3>1 DEF WearsDown
  <2>5. CASE phase = "idle" /\ ~Proceed
    BY <2>5 DEF WearsDown
  <2> QED
    BY <2>2, <2>3, <2>4, <2>5 DEF Next, Begin, Reconfigure, Tick
<1>2. IInv => Bounded
  BY StepsLeftIn
<1> QED
  BY <1>1, <1>2, Invariance, PTL DEF Spec
=============================================================================
