------------------------ MODULE SymbolMapping_proofs ------------------------
(***************************************************************************)
(* What a mapping sync leaves behind, for any pairs, coins and quotes, and *)
(* whatever the syncs before it left half written.                         *)
(***************************************************************************)
EXTENDS SymbolMapping, TLAPS

(* A row has a coin, and only a pair some coin is named after has a row.   *)
RowsNamed == \A p \in Pairs : rows[p] # NoRow => rows[p] \in Row /\ Named[p] # {}

(* What was chosen before the loop began is still what markets and coins   *)
(* make of it.                                                             *)
ChosenWell == pc # "off" => primaries \in PrimaryChoices(markets, coinOf)

(* The row of a candidate says what the build made of it.                  *)
IsBuilt(p) ==
    /\ rows[p] # NoRow
    /\ rows[p].coin = coinOf[p]
    /\ rows[p].primary <=> p \in primaries

BuiltSoFar ==
    /\ pc = "build" => \A p \in Candidates(markets) \ todo : IsBuilt(p)
    /\ pc \in {"check", "synced"} => \A p \in Candidates(markets) : IsBuilt(p)

(* The rows the validator has been at are live as their markets are.       *)
CheckedSoFar ==
    /\ pc = "build" => todo \subseteq Candidates(markets)
    /\ pc = "check" => todo \subseteq Present
    /\ pc = "synced" => todo = {}
    /\ pc \in {"check", "synced"} =>
          \A p \in Present \ todo : Active(p) <=> markets[p] = "trading"

IInv == TypeOK /\ RowsNamed /\ ChosenWell /\ BuiltSoFar /\ CheckedSoFar

LEMMA NoRowIsNone == NoRow \notin Row /\ \A r \in Row : r.status # "none"
  BY DEF NoRow, Row

LEMMA InitHolds == Init => IInv
  BY DEF Init, IInv, TypeOK, RowsNamed, ChosenWell, BuiltSoFar, CheckedSoFar, Present, Standing

LEMMA BeginHolds ==
    ASSUME IInv, Begin
    PROVE  IInv'
<1>1. TypeOK'
  BY DEF IInv, Begin, TypeOK, Candidates, PrimaryChoices
<1>2. RowsNamed'
  BY DEF IInv, Begin, RowsNamed
<1>3. ChosenWell'
  BY DEF Begin, ChosenWell
<1>4. BuiltSoFar'
  BY DEF Begin, BuiltSoFar
<1>5. CheckedSoFar'
  BY DEF Begin, CheckedSoFar
<1> QED
  BY <1>1, <1>2, <1>3, <1>4, <1>5 DEF IInv

(* One candidate's row is written: the others keep what they say.          *)
LEMMA UpsertHolds ==
    ASSUME IInv, NEW p \in Pairs, Upsert(p)
    PROVE  IInv'
<1> DEFINE row == [coin |-> coinOf[p], status |-> "active", primary |-> p \in primaries]
<1>0. /\ pc = "build" /\ pc' = "build" /\ p \in todo /\ todo' = todo \ {p}
      /\ UNCHANGED <<markets, coinOf, primaries>>
      /\ rows' = [rows EXCEPT ![p] = row]
  BY DEF Upsert
<1>1. p \in Candidates(markets)
  BY <1>0 DEF IInv, CheckedSoFar
<1>2. Named[p] # {} /\ coinOf[p] \in Coins
  BY <1>1, NamedAssumption DEF Candidates, IInv, TypeOK, Choices
<1>3. row \in Row
  BY <1>2 DEF Row
<1>4. rows'[p] = row /\ \A q \in Pairs \ {p} : rows'[q] = rows[q]
  BY <1>0 DEF IInv, TypeOK
<1>5. TypeOK'
  <2>1. rows' \in [Pairs -> Row \cup {NoRow}]
    BY <1>0, <1>3 DEF IInv, TypeOK
  <2>2. older' \subseteq Pairs \X Pairs
    BY DEF Upsert, Touch, Present, IInv, TypeOK
  <2> QED
    BY <1>0, <2>1, <2>2 DEF IInv, TypeOK
<1>6. RowsNamed'
  BY <1>2, <1>3, <1>4 DEF IInv, RowsNamed
<1>7. ChosenWell'
  BY <1>0 DEF IInv, ChosenWell, PrimaryChoices, Candidates
<1>8. BuiltSoFar'
  <2>1. IsBuilt(p)'
    <3>1. rows'[p] # NoRow
      BY <1>3, <1>4, NoRowIsNone
    <3>2. rows'[p].coin = coinOf'[p]
      BY <1>0, <1>4
    <3>3. rows'[p].primary <=> p \in primaries'
      <4>1. CASE p \in primaries
        <5>1. row = [coin |-> coinOf[p], status |-> "active", primary |-> TRUE]
          BY <4>1
        <5> QED
          BY <1>0, <1>4, <4>1, <5>1
      <4>2. CASE p \notin primaries
        <5>0. (p \in primaries) = FALSE
          BY <4>2
        <5>1. row = [coin |-> coinOf[p], status |-> "active", primary |-> FALSE]
          BY <5>0, Zenon
        <5> QED
          BY <1>0, <1>4, <4>2, <5>1
      <4> QED
        BY <4>1, <4>2
    <3> QED
      BY <3>1, <3>2, <3>3 DEF IsBuilt
  <2>2. ASSUME NEW q \in Candidates(markets) \ todo
        PROVE  IsBuilt(q)'
    BY <1>0, <1>4 DEF IInv, BuiltSoFar, IsBuilt, Candidates
  <2> QED
    BY <1>0, <2>1, <2>2 DEF BuiltSoFar, Candidates
<1>9. CheckedSoFar'
  BY <1>0 DEF IInv, CheckedSoFar, Candidates
<1> QED
  BY <1>5, <1>6, <1>7, <1>8, <1>9 DEF IInv

LEMMA ListRowsHolds ==
    ASSUME IInv, ListRows
    PROVE  IInv'
<1>1. TypeOK'
  BY DEF IInv, ListRows, TypeOK, Present
<1>2. RowsNamed' /\ ChosenWell'
  BY DEF IInv, ListRows, RowsNamed, ChosenWell, PrimaryChoices, Candidates
<1>3. BuiltSoFar'
  BY DEF IInv, ListRows, BuiltSoFar, IsBuilt, Candidates
<1>4. CheckedSoFar'
  BY DEF IInv, ListRows, CheckedSoFar, Present
<1> QED
  BY <1>1, <1>2, <1>3, <1>4 DEF IInv

(* A status is set: coin and primary flag stay.                            *)
LEMMA CheckHolds ==
    ASSUME IInv, NEW p \in Pairs, Check(p)
    PROVE  IInv'
<1> DEFINE row == [coin |-> rows[p].coin,
                   status |-> IF markets[p] = "trading" THEN "active" ELSE "delisted",
                   primary |-> rows[p].primary]
<1>0. /\ pc = "check" /\ pc' = "check" /\ p \in todo /\ todo' = todo \ {p}
      /\ UNCHANGED <<markets, coinOf, primaries>>
      /\ rows' = [rows EXCEPT ![p] = row]
  BY DEF Check, SetStatus
<1>1. rows[p] # NoRow
  BY <1>0 DEF IInv, CheckedSoFar, Present
<1>2. rows[p] \in Row /\ Named[p] # {}
  BY <1>1 DEF IInv, RowsNamed
<1>3. row \in Row
  BY <1>2 DEF Row
<1>4. rows'[p] = row /\ \A q \in Pairs \ {p} : rows'[q] = rows[q]
  BY <1>0 DEF IInv, TypeOK
<1>5. TypeOK'
  <2>1. rows' \in [Pairs -> Row \cup {NoRow}]
    BY <1>0, <1>3 DEF IInv, TypeOK
  <2>2. older' \subseteq Pairs \X Pairs
    BY DEF Check, Touch, Present, IInv, TypeOK
  <2> QED
    BY <1>0, <2>1, <2>2 DEF IInv, TypeOK
<1>6. RowsNamed'
  BY <1>2, <1>3, <1>4 DEF IInv, RowsNamed
<1>7. ChosenWell'
  BY <1>0 DEF IInv, ChosenWell, PrimaryChoices, Candidates
<1>8. BuiltSoFar'
  <2>1. ASSUME NEW q \in Candidates(markets)
        PROVE  IsBuilt(q)'
    <3>1. IsBuilt(q) /\ q \in Pairs
      BY <1>0 DEF IInv, BuiltSoFar, Candidates
    <3>2. CASE q = p
      BY <1>0, <1>3, <1>4, <3>1, <3>2, NoRowIsNone DEF IsBuilt
    <3>3. CASE q # p
      BY <1>0, <1>4, <3>1, <3>3 DEF IsBuilt
    <3> QED
      BY <3>2, <3>3
  <2> QED
    BY <1>0, <2>1 DEF BuiltSoFar, Candidates
<1>9. CheckedSoFar'
  <2>1. \A q \in Pairs : rows'[q] # NoRow <=> rows[q] # NoRow
    BY <1>1, <1>3, <1>4, NoRowIsNone
  <2>2. Active(p)' <=> markets[p] = "trading"
    BY <1>3, <1>4, NoRowIsNone DEF Active
  <2>3. ASSUME NEW q \in Present \ todo
        PROVE  Active(q)' <=> markets[q] = "trading"
    <3>1. Active(q) <=> markets[q] = "trading"
      BY <1>0 DEF IInv, CheckedSoFar
    <3> QED
      BY <1>0, <1>4, <3>1 DEF Active, Present
  <2>4. Present' = Present
    BY <2>1 DEF Present
  <2> QED
    BY <1>0, <2>2, <2>3, <2>4 DEF IInv, CheckedSoFar
<1> QED
  BY <1>5, <1>6, <1>7, <1>8, <1>9 DEF IInv

LEMMA EndHolds ==
    ASSUME IInv, Finish \/ Fail \/ UNCHANGED vars
    PROVE  IInv'
<1>1. TypeOK'
  BY DEF IInv, Finish, Fail, vars, syncVars, TypeOK
<1>2. RowsNamed' /\ ChosenWell'
  BY DEF IInv, Finish, Fail, vars, syncVars, RowsNamed, ChosenWell, PrimaryChoices, Candidates
<1>3. BuiltSoFar'
  BY DEF IInv, Finish, Fail, vars, syncVars, BuiltSoFar, IsBuilt, Candidates
<1>4. CheckedSoFar'
  BY DEF IInv, Finish, Fail, vars, syncVars, CheckedSoFar, Present, Active, Candidates
<1> QED
  BY <1>1, <1>2, <1>3, <1>4 DEF IInv

LEMMA InvAlways == Spec => []IInv
<1>1. IInv /\ [Next]_vars => IInv'
  BY BeginHolds, UpsertHolds, ListRowsHolds, CheckHolds, EndHolds DEF Next
<1> QED
  BY <1>1, InitHolds, PTL DEF Spec

(* The variables of the sync keep their types.                             *)
THEOREM TypeCorrect == Spec => []TypeOK
  BY InvAlways, PTL DEF IInv

-----------------------------------------------------------------------------
(* After a sync the live rows are those of the candidates that trade.      *)
LEMMA LiveAreTrading ==
    ASSUME IInv, pc = "synced", NEW p \in Pairs
    PROVE  /\ Active(p) <=> markets[p] = "trading" /\ Named[p] # {}
           /\ Active(p) => p \in Candidates(markets) /\ IsBuilt(p)
<1>1. Active(p) => markets[p] = "trading" /\ Named[p] # {}
  BY DEF IInv, CheckedSoFar, RowsNamed, Active, Present
<1>2. markets[p] = "trading" /\ Named[p] # {} => p \in Candidates(markets)
  BY DEF Candidates
<1>3. p \in Candidates(markets) => IsBuilt(p) /\ p \in Present
  BY DEF IInv, BuiltSoFar, IsBuilt, Present
<1> QED
  BY <1>1, <1>2, <1>3 DEF IInv, CheckedSoFar

(* SyncExchange (engine/market/mapping_sync.go): after a sync the live     *)
(* rows are the trading markets of known coins, whatever was left half     *)
(* done before.                                                            *)
THEOREM SyncedAlwaysTrue == Spec => []SyncedIsTrue
<1>1. IInv => SyncedIsTrue
  BY LiveAreTrading DEF SyncedIsTrue
<1> QED
  BY <1>1, InvAlways, PTL

(* The candidates of a coin have one primary, with the best quote of them. *)
LEMMA OnePrimaryChosen ==
    ASSUME IInv, pc = "synced", NEW p \in Candidates(markets)
    PROVE  \E q \in Candidates(markets) :
               /\ coinOf[q] = coinOf[p] /\ q \in primaries /\ Quote[q] <= Quote[p]
               /\ \A x \in primaries : coinOf[x] = coinOf[p] => x = q
<1>1. primaries \in PrimaryChoices(markets, coinOf)
  BY DEF IInv, ChosenWell
<1>2. PICK q \in primaries :
         {x \in primaries : coinOf[x] = coinOf[p]} = {q} /\ Quote[q] <= Quote[p]
  BY <1>1 DEF PrimaryChoices
<1>3. primaries \subseteq Candidates(markets)
  BY <1>1 DEF PrimaryChoices
<1> QED
  BY <1>2, <1>3

LEMMA OnePrimaryFollows == ASSUME IInv PROVE OnePrimaryEach
<1> SUFFICES ASSUME pc = "synced", NEW p \in Pairs, NEW q \in Pairs,
                    Active(p), Active(q), rows[p].coin = rows[q].coin,
                    rows[p].primary, rows[q].primary
             PROVE  p = q
  BY DEF OnePrimaryEach
<1>1. /\ p \in Candidates(markets) /\ IsBuilt(p)
      /\ q \in Candidates(markets) /\ IsBuilt(q)
  BY LiveAreTrading
<1>2. p \in primaries /\ q \in primaries /\ coinOf[p] = coinOf[q]
  BY <1>1 DEF IsBuilt
<1> QED
  BY <1>1, <1>2, OnePrimaryChosen

(* A coin's live primary has the best quote of its pairs; where none is    *)
(* live, its market is halted.                                             *)
LEMMA BestFollows == ASSUME IInv PROVE BestUnlessHalted
<1> SUFFICES ASSUME pc = "synced", NEW c \in Coins, NEW p \in Resolved(c), NEW q \in ActiveOf(c)
             PROVE  \/ Quote[p] <= Quote[q]
                    \/ \E h \in Pairs : /\ markets[h] = "halted"
                                        /\ Base[h] = Base[q]
                                        /\ Quote[h] <= Quote[q]
  BY DEF BestUnlessHalted
<1>1. /\ q \in Pairs /\ Active(q) /\ rows[q].coin = c
      /\ p \in Foremost(ActiveOf(c))
  BY DEF ActiveOf, Resolved
<1>2. q \in Candidates(markets) /\ coinOf[q] = c
  BY <1>1, LiveAreTrading DEF IsBuilt
<1>3. PICK h \in Candidates(markets) :
         /\ coinOf[h] = c /\ h \in primaries /\ Quote[h] <= Quote[q]
         /\ \A x \in primaries : coinOf[x] = c => x = h
  BY <1>2, OnePrimaryChosen
<1>4. h \in Pairs /\ IsBuilt(h) /\ markets[h] \in {"halted", "trading"}
  BY DEF Candidates, IInv, BuiltSoFar, TypeOK, Standing
<1>5. CASE markets[h] = "halted"
  <2>1. Named[h] \cap Named[q] # {}
    <3>1. coinOf[h] \in Named[h] /\ coinOf[q] \in Named[q]
      BY <1>1, <1>2, <1>4 DEF Candidates, IInv, TypeOK, Choices
    <3> QED
      BY <1>2, <1>3, <3>1
  <2>2. Base[h] = Base[q]
    BY <1>1, <1>4, <2>1, NamedAssumption
  <2> QED
    BY <1>3, <1>4, <1>5, <2>2
<1>6. CASE markets[h] = "trading"
  <2>1. Active(h) /\ rows[h].coin = c /\ rows[h].primary
    BY <1>3, <1>4, <1>6, LiveAreTrading DEF IsBuilt, Candidates
  <2>2. h \in {x \in ActiveOf(c) : rows[x].primary}
    BY <1>4, <2>1 DEF ActiveOf
  <2>3. p \in ActiveOf(c) /\ rows[p].primary
    BY <1>1, <2>2 DEF Foremost
  <2>4. p \in Pairs /\ Active(p) /\ rows[p].coin = c
    BY <2>3 DEF ActiveOf
  <2>5. p = h
    BY <1>4, <2>1, <2>3, <2>4, OnePrimaryFollows DEF OnePrimaryEach
  <2> QED
    BY <1>3, <2>5
<1> QED
  BY <1>4, <1>5, <1>6

(* choosePrimaryMappings (engine/market/mapping/builder.go): after a sync  *)
(* a coin has one live primary at most and is resolved to its best quoted  *)
(* pair, unless that quote's market is halted.                             *)
THEOREM PrimaryAlwaysRight == Spec => []PrimaryRight
<1>1. IInv => PrimaryRight
  BY OnePrimaryFollows, BestFollows DEF PrimaryRight
<1> QED
  BY <1>1, InvAlways, PTL
=============================================================================
