--------------------------- MODULE SymbolMapping ---------------------------
(***************************************************************************)
(* Which symbol an exchange trades a coin under                            *)
(* (src/engine/market/mapping and mapping_sync.go): a sync of one exchange *)
(* loads its spot markets, upserts a row of coin_exchange_mappings for     *)
(* each of them, one after the other, with the best quoted one as the      *)
(* coin's primary, and then sets the status of every row it finds.         *)
(* Resolvers read the rows at any time.                                    *)
(***************************************************************************)
EXTENDS Integers

CONSTANTS
    Pairs,          \* markets the exchange may list, by symbol
    Coins,          \* rows of the coins table
    Named,          \* coins whose ticker symbol is the pair's base asset
    Quote,          \* quotePriority of the pair's quote asset
    Base            \* the pair's base asset

(* coins.symbol is one ticker symbol: that of one base asset, if any.      *)
ASSUME NamedAssumption ==
    /\ Named \in [Pairs -> SUBSET Coins]
    /\ \A p, q \in Pairs : Base[p] = Base[q] => Named[p] = Named[q]
    /\ \A p, q \in Pairs : Named[p] \cap Named[q] # {} => Base[p] = Base[q]
ASSUME QuoteAssumption == Quote \in [Pairs -> Nat]

(* A pair is no spot market, one that is not active, or one that is.       *)
Standing == {"absent", "halted", "trading"}

NoRow == [status |-> "none"]
Row == [coin : Coins, status : {"active", "delisted"}, primary : BOOLEAN]

VARIABLES
    markets,        \* the markets the sync works on
    rows,           \* coin_exchange_mappings of this exchange
    older,          \* <<p, q>>: row p was last written before row q
    pc,             \* "off", "build", "check", "synced"
    todo,           \* pairs the loop has still to write
    coinOf,         \* coinBySymbol, for each pair's base
    primaries       \* what choosePrimaryMappings chose

syncVars == <<pc, todo, coinOf, primaries>>
vars == <<markets, rows, older, syncVars>>

Present == {p \in Pairs : rows[p] # NoRow}
Active(p) == rows[p] # NoRow /\ rows[p].status = "active"

(* Spot markets whose base is some coin's symbol.                          *)
Candidates(m) == {p \in Pairs : m[p] # "absent" /\ Named[p] # {}}

(* Any one of the coins with that symbol: their rows come in no order.     *)
Choices == {f \in [Pairs -> Coins] :
              /\ \A p \in Pairs : Named[p] # {} => f[p] \in Named[p]
              /\ \A p, q \in Pairs : Base[p] = Base[q] => f[p] = f[q]}

PrimaryChoices(m, f) ==
    {S \in SUBSET Candidates(m) :
        \A p \in Candidates(m) :
            \E q \in S : /\ {x \in S : f[x] = f[p]} = {q}
                         /\ Quote[q] <= Quote[p]}

Init ==
    /\ markets = [p \in Pairs |-> "absent"]
    /\ rows = [p \in Pairs |-> NoRow]
    /\ older = {}
    /\ pc = "off"
    /\ todo = {}
    /\ coinOf \in Choices
    /\ primaries = {}

-----------------------------------------------------------------------------
(* A row is written: it is now the one verified and updated last.          *)
Touch(p) == older' = {e \in older : e[1] # p} \cup {<<q, p>> : q \in Present \ {p}}

(* SyncExchange: markets and coins are read.                               *)
Begin ==
    /\ pc \in {"off", "synced"}
    /\ markets' \in [Pairs -> Standing]
    /\ coinOf' \in Choices
    /\ primaries' \in PrimaryChoices(markets', coinOf')
    /\ todo' = Candidates(markets')
    /\ pc' = "build"
    /\ UNCHANGED <<rows, older>>

(* UpsertMapping of one candidate, in the order Go's map gives them.       *)
UpsertKeepingPrimary(p) ==
    /\ pc = "build"
    /\ p \in todo
    /\ rows' = [rows EXCEPT ![p] =
                   [coin |-> coinOf[p], status |-> "active",
                    primary |-> p \in primaries \/ (@ # NoRow /\ @.primary)]]
    /\ Touch(p)
    /\ todo' = todo \ {p}
    /\ UNCHANGED <<markets, pc, coinOf, primaries>>

Upsert(p) ==
    /\ pc = "build"
    /\ p \in todo
    /\ rows' = [rows EXCEPT ![p] =
                   [coin |-> coinOf[p], status |-> "active", primary |-> p \in primaries]]
    /\ Touch(p)
    /\ todo' = todo \ {p}
    /\ UNCHANGED <<markets, pc, coinOf, primaries>>

(* The validator lists the rows there are.                                 *)
ListRows ==
    /\ pc = "build"
    /\ todo = {}
    /\ todo' = Present
    /\ pc' = "check"
    /\ UNCHANGED <<markets, rows, older, coinOf, primaries>>

SetStatus(p, s) == rows' = [rows EXCEPT ![p] =
    [coin |-> rows[p].coin, status |-> s, primary |-> rows[p].primary]]

CheckListed(p) ==
    /\ pc = "check"
    /\ p \in todo
    /\ SetStatus(p, IF markets[p] = "absent" THEN "delisted" ELSE "active")
    /\ Touch(p)
    /\ todo' = todo \ {p}
    /\ UNCHANGED <<markets, pc, coinOf, primaries>>

Check(p) ==
    /\ pc = "check"
    /\ p \in todo
    /\ SetStatus(p, IF markets[p] = "trading" THEN "active" ELSE "delisted")
    /\ Touch(p)
    /\ todo' = todo \ {p}
    /\ UNCHANGED <<markets, pc, coinOf, primaries>>

Finish ==
    /\ pc = "check"
    /\ todo = {}
    /\ pc' = "synced"
    /\ UNCHANGED <<markets, rows, older, todo, coinOf, primaries>>

(* An error of any of these steps, or a crash: the rest is not written.    *)
Fail ==
    /\ pc # "off"
    /\ pc' = "off"
    /\ todo' = {}
    /\ UNCHANGED <<markets, rows, older, coinOf, primaries>>

Next ==
    \/ Begin \/ ListRows \/ Finish \/ Fail
    \/ \E p \in Pairs : Upsert(p) \/ Check(p)

Spec == Init /\ [][Next]_vars

-----------------------------------------------------------------------------
(***************************************************************************)
(* GetPrimaryMapping: a coin's active row, the primary one first, then the *)
(* one written last.                                                       *)
(***************************************************************************)
ActiveOf(c) == {p \in Pairs : Active(p) /\ rows[p].coin = c}

Foremost(S) == LET P == {p \in S : rows[p].primary} IN IF P # {} THEN P ELSE S

Resolved(c) == {p \in Foremost(ActiveOf(c)) :
                  \A q \in Foremost(ActiveOf(c)) : <<p, q>> \notin older}

-----------------------------------------------------------------------------
TypeOK ==
    /\ markets \in [Pairs -> Standing]
    /\ rows \in [Pairs -> Row \cup {NoRow}]
    /\ older \subseteq Pairs \X Pairs
    /\ pc \in {"off", "build", "check", "synced"}
    /\ todo \subseteq Pairs
    /\ coinOf \in Choices
    /\ primaries \subseteq Pairs

(***************************************************************************)
(* After a sync the active rows are the markets that trade and belong to a *)
(* known coin, whatever earlier syncs left half done.                      *)
(***************************************************************************)
SyncedIsTrue ==
    pc = "synced" =>
        \A p \in Pairs : Active(p) <=> markets[p] = "trading" /\ Named[p] # {}

(***************************************************************************)
(* After a sync no coin has two live primaries, although rows of vanished  *)
(* markets stay primary and a symbol shared by two coins may change hands. *)
(***************************************************************************)
OnePrimaryEach ==
    pc = "synced" =>
        \A p, q \in Pairs :
            /\ Active(p) /\ Active(q)
            /\ rows[p].coin = rows[q].coin
            /\ rows[p].primary /\ rows[q].primary
            => p = q

(***************************************************************************)
(* After a sync a coin is resolved to a pair with the best quote of all    *)
(* its spot markets, unless that quote's markets are halted.               *)
(***************************************************************************)
BestUnlessHalted ==
    pc = "synced" =>
        \A c \in Coins : \A p \in Resolved(c), q \in ActiveOf(c) :
            \/ Quote[p] <= Quote[q]
            \/ \E h \in Pairs : /\ markets[h] = "halted"
                                /\ Base[h] = Base[q]
                                /\ Quote[h] <= Quote[q]

(***************************************************************************)
(* migrations/005_coin_exchange_mappings.sql:48 says of is_primary: "TRUE =*)
(* preferred pair for this exchange. Quote priority: USDT > USDC > BUSD >  *)
(* BTC."  A coin would then be resolved to the best quoted of its active   *)
(* pairs.                                                                  *)
(***************************************************************************)
PreferredQuote ==
    pc = "synced" =>
        \A c \in Coins : \A p \in Resolved(c), q \in ActiveOf(c) : Quote[p] <= Quote[q]

(***************************************************************************)
(* Both: after a sync a coin has one primary at most, and is resolved to   *)
(* the best pair it can be.                                                *)
(***************************************************************************)
PrimaryRight == OnePrimaryEach /\ BestUnlessHalted
=============================================================================
