----------------------------- MODULE NewsImpact -----------------------------
(***************************************************************************)
(* What the news did to the prices (src/engine/news/impact): a job of the  *)
(* engine keeps a row of news_price_impact for every coin an analysed      *)
(* article is about, with the price at its publication and 1, 4 and 24     *)
(* hours later, and writes the row that has them all to the history.       *)
(*                                                                         *)
(* A price is told by the time it was asked for.  The three windows are 1, *)
(* 2 and 3 ticks of the clock.                                             *)
(*                                                                         *)
(* PublishedLatest, ListUnprocessed and UnpricedEndsRun are the bodies of  *)
(* mutants; no action uses them.                                           *)
(***************************************************************************)
EXTENDS Naturals, FiniteSets, Sequences, Functions

CONSTANTS
    Mentions,       \* the coins each article is about, as an analysis finds
    Dates,          \* when each may be published: after the first candles
    Priceless,      \* the coins without candles
    TrackLimit,     \* the rows, and the candidates, of one run
    Horizon,        \* where the clock stops
    ImpactFaults    \* how often a statement may fail or the engine stop

Stories == DOMAIN Mentions
Coins == UNION {UNION Mentions[a] : a \in Stories}

ASSUME MentionsAssumption == Stories \subseteq Nat \ {0} /\ Coins \subseteq Nat
ASSUME DatesAssumption == \A a \in Stories : Dates[a] \in Seq(Nat) /\ Dates[a] # <<>>
ASSUME TrackLimitAssumption == TrackLimit \in Nat \ {0}
ASSUME FinitelyManyAssumption == IsFiniteSet(Stories) /\ IsFiniteSet(Coins)

VARIABLES
    stories,        \* news_articles with news_entities: what the other jobs wrote
    impact,         \* the rows of news_price_impact
    history,        \* the rows of news_price_impact_history
    tracker,        \* where the job is
    now,            \* the clock
    unrecorded,     \* the rows something failed for as they were completed
    impactFaults    \* how many faults there were

impactVars == <<stories, impact, history, tracker, now, unrecorded, impactFaults>>

Windows == 1 .. 3
NoPrice == 0

(* A row as it is written first: of that date, with that price.            *)
NewImpact(date, price) == [published |-> date, base |-> price, at |-> [w \in Windows |-> NoPrice]]

NoRow == [key |-> <<0, 0>>, row |-> NewImpact(0, NoPrice)]
NoTrack == [at |-> "idle", todo |-> {}, rows |-> {}, this |-> NoRow, now |-> 0]

ImpactInit ==
    /\ stories = [a \in Stories |-> [coins |-> {}, processed |-> FALSE, date |-> Head(Dates[a])]]
    /\ impact = <<>>
    /\ history = {}
    /\ tracker = NoTrack
    /\ now = 1
    /\ unrecorded = {}
    /\ impactFaults = 0

ImpactFault == /\ impactFaults < ImpactFaults
               /\ impactFaults' = impactFaults + 1

-----------------------------------------------------------------------------
(* What the other jobs do: the entities of an article are replaced until   *)
(* it is processed; its date changes with what the feed says.              *)
Analyse(a) ==
    /\ ~stories[a].processed
    /\ \E coins \in Mentions[a] : stories' = [stories EXCEPT ![a].coins = coins]
    /\ UNCHANGED <<impact, history, tracker, now, unrecorded, impactFaults>>

Process(a) ==
    /\ ~stories[a].processed
    /\ stories' = [stories EXCEPT ![a].processed = TRUE]
    /\ UNCHANGED <<impact, history, tracker, now, unrecorded, impactFaults>>

Redate(a) ==
    /\ \E d \in Range(Dates[a]) : stories' = [stories EXCEPT ![a].date = d]
    /\ UNCHANGED <<impact, history, tracker, now, unrecorded, impactFaults>>

ClockTick ==
    /\ now < Horizon
    /\ now' = now + 1
    /\ UNCHANGED <<stories, impact, history, tracker, unrecorded, impactFaults>>

-----------------------------------------------------------------------------
(* The rows that are missing, or have no price yet.                        *)

\* The price of a coin at a time: the last candle's until then.
Resolve(coin, at) == IF coin \in Priceless THEN NoPrice ELSE at

Complete(row) == \A w \in Windows : row.at[w] # NoPrice

Unpriced(p) == p \notin DOMAIN impact \/ impact[p].base = NoPrice

AboutCoins(as) == UNION {{<<a, c>> : c \in stories[a].coins} : a \in as}

Processed == {a \in Stories : stories[a].processed}

ByKey(p, q) == p[1] < q[1] \/ (p[1] = q[1] /\ p[2] < q[2])

\* ORDER BY ... LIMIT: the first of these.
FirstPairs(pairs) == {p \in pairs : Cardinality({q \in pairs : ByKey(q, p)}) < TrackLimit}

ListThese(pairs) ==
    /\ tracker.at = "idle"
    /\ tracker' = [NoTrack EXCEPT !.at = "candidates",
           !.todo = {[key |-> p, date |-> stories[p[1]].date] : p \in FirstPairs(pairs)}]
    /\ UNCHANGED <<stories, impact, history, now, unrecorded, impactFaults>>

\* Articles whose analysis is not final are listed.
ListUnprocessed == ListThese({p \in AboutCoins(Stories) : Unpriced(p)})

ListCandidates == ListThese({p \in AboutCoins(Processed) : Unpriced(p)})

\* The later date is kept.
PublishedLatest(p, date, price) ==
    IF p \in DOMAIN impact
    THEN [impact EXCEPT ![p].published = IF date > @ THEN date ELSE @,
                        ![p].base = IF @ = NoPrice THEN price ELSE @]
    ELSE [q \in DOMAIN impact \cup {p} |-> IF q = p THEN NewImpact(date, price) ELSE impact[q]]

\* The first price is kept, and the earliest date.
WithCandidate(p, date, price) ==
    IF p \in DOMAIN impact
    THEN [impact EXCEPT ![p].published = IF date < @ THEN date ELSE @,
                        ![p].base = IF @ = NoPrice THEN price ELSE @]
    ELSE [q \in DOMAIN impact \cup {p} |-> IF q = p THEN NewImpact(date, price) ELSE impact[q]]

\* The candidate whose turn it is.
NextCandidate(c) == c \in tracker.todo /\ \A d \in tracker.todo : ~ByKey(d.key, c.key)

UpsertCandidate ==
    /\ tracker.at = "candidates"
    /\ \E c \in tracker.todo :
          /\ NextCandidate(c)
          /\ impact' = WithCandidate(c.key, c.date, Resolve(c.key[2], c.date))
          /\ tracker' = [tracker EXCEPT !.todo = @ \ {c}]
    /\ UNCHANGED <<stories, history, now, unrecorded, impactFaults>>

\* The row is not written, or without a price, or its answer is lost.
CandidateFails ==
    /\ tracker.at = "candidates"
    /\ ImpactFault
    /\ \E c \in tracker.todo :
          /\ NextCandidate(c)
          /\ \/ UNCHANGED impact
             \/ \E price \in {NoPrice, Resolve(c.key[2], c.date)} :
                   impact' = WithCandidate(c.key, c.date, price)
          /\ tracker' = [tracker EXCEPT !.todo = @ \ {c}]
    /\ UNCHANGED <<stories, history, now, unrecorded>>

-----------------------------------------------------------------------------
(* The rows that are not complete, in the order of their dates; they and   *)
(* the time are read once.                                                 *)

ByDate(r, q) ==
    \/ r.row.published < q.row.published
    \/ r.row.published = q.row.published /\ ByKey(r.key, q.key)

Incomplete ==
    {[key |-> p, row |-> impact[p]] : p \in {q \in DOMAIN impact : ~Complete(impact[q])}}

PendingRows == {r \in Incomplete : Cardinality({q \in Incomplete : ByDate(q, r)}) < TrackLimit}

\* On to the first of these rows, or to wait for the next run.
TakeFrom(rows, time) ==
    \/ rows = {} /\ tracker' = NoTrack
    \/ \E r \in rows :
          /\ \A q \in rows : ~ByDate(q, r)
          /\ tracker' = [at |-> "base", todo |-> {}, rows |-> rows \ {r}, this |-> r, now |-> time]

ListPendingRows ==
    /\ tracker.at = "candidates" /\ tracker.todo = {}
    /\ TakeFrom(PendingRows, now)
    /\ UNCHANGED <<stories, impact, history, now, unrecorded, impactFaults>>

This == tracker.this

Window == CASE tracker.at = "1h" -> 1 [] tracker.at = "4h" -> 2 [] tracker.at = "24h" -> 3 [] OTHER -> 0

NextPoint == CASE tracker.at = "1h" -> "4h" [] tracker.at = "4h" -> "24h" [] OTHER -> "history"

NextRow == TakeFrom(tracker.rows, tracker.now)

HasBase ==
    /\ tracker.at = "base" /\ This.row.base # NoPrice
    /\ tracker' = [tracker EXCEPT !.at = "1h"]
    /\ UNCHANGED <<stories, impact, history, now, unrecorded, impactFaults>>

LateBase == Resolve(This.key[2], This.row.published)

FillBase ==
    /\ tracker.at = "base" /\ This.row.base = NoPrice
    /\ LateBase # NoPrice
    /\ impact' = WithCandidate(This.key, This.row.published, LateBase)
    /\ tracker' = [tracker EXCEPT !.at = "1h", !.this.row.base = LateBase]
    /\ UNCHANGED <<stories, history, now, unrecorded, impactFaults>>

UnpricedEndsRun ==
    /\ tracker.at = "base" /\ This.row.base = NoPrice /\ LateBase = NoPrice
    /\ tracker' = NoTrack
    /\ UNCHANGED <<stories, impact, history, now, unrecorded, impactFaults>>

\* A row that is still without a price is passed over.
SkipUnpriced ==
    /\ tracker.at = "base" /\ This.row.base = NoPrice
    /\ LateBase = NoPrice
    /\ NextRow
    /\ UNCHANGED <<stories, impact, history, now, unrecorded, impactFaults>>

FillFails ==
    /\ tracker.at = "base" /\ This.row.base = NoPrice
    /\ ImpactFault
    /\ impact' \in {impact, WithCandidate(This.key, This.row.published, LateBase)}
    /\ NextRow
    /\ UNCHANGED <<stories, history, now, unrecorded>>

Due ==
    /\ Window # 0
    /\ This.row.at[Window] = NoPrice
    /\ tracker.now > This.row.published + Window

LaterPrice == Resolve(This.key[2], This.row.published + Window)

NotDue ==
    /\ Window # 0 /\ ~Due
    /\ tracker' = [tracker EXCEPT !.at = NextPoint]
    /\ UNCHANGED <<stories, impact, history, now, unrecorded, impactFaults>>

UpdateSnapshot ==
    /\ Due
    /\ impact' = [impact EXCEPT ![This.key].at[Window] = LaterPrice]
    /\ tracker' = [tracker EXCEPT !.at = NextPoint, !.this.row.at[Window] = LaterPrice]
    /\ UNCHANGED <<stories, history, now, unrecorded, impactFaults>>

SnapshotFails ==
    /\ Due
    /\ ImpactFault
    /\ \/ UNCHANGED <<impact, unrecorded>>
       \/ /\ impact' = [impact EXCEPT ![This.key].at[Window] = LaterPrice]
          /\ unrecorded' = unrecorded \cup {This.key}
    /\ tracker' = [tracker EXCEPT !.at = NextPoint]
    /\ UNCHANGED <<stories, history, now>>

InsertHistory ==
    /\ tracker.at = "history"
    /\ history' = history \cup IF Complete(This.row) THEN {<<This.row.published, This.key>>} ELSE {}
    /\ NextRow
    /\ UNCHANGED <<stories, impact, now, unrecorded, impactFaults>>

HistoryFails ==
    /\ tracker.at = "history" /\ Complete(This.row)
    /\ ImpactFault
    /\ unrecorded' = unrecorded \cup {This.key}
    /\ NextRow
    /\ UNCHANGED <<stories, impact, history, now>>

\* A list that fails ends the engine, as a crash does.
TrackerStops ==
    /\ tracker # NoTrack
    /\ ImpactFault
    /\ tracker' = NoTrack
    /\ unrecorded' = unrecorded \cup IF This = NoRow THEN {} ELSE {This.key}
    /\ UNCHANGED <<stories, impact, history, now>>

TrackerStep ==
    \/ ListCandidates \/ UpsertCandidate
    \/ ListPendingRows \/ HasBase \/ FillBase \/ SkipUnpriced
    \/ NotDue \/ UpdateSnapshot \/ InsertHistory

ImpactNext ==
    \/ \E a \in Stories : Analyse(a) \/ Process(a) \/ Redate(a)
    \/ ClockTick
    \/ TrackerStep
    \/ CandidateFails \/ FillFails \/ SnapshotFails \/ HistoryFails \/ TrackerStops

ImpactSpec == ImpactInit /\ [][ImpactNext]_impactVars

\* The job runs at the ticks of its timer, and time passes.
ImpactFairness == WF_impactVars(TrackerStep) /\ WF_impactVars(ClockTick)

-----------------------------------------------------------------------------
(* Rows are of articles there are and of coins they may be about, and so   *)
(* is what the job has read of them.                                       *)
Pairs == Stories \X Coins
ImpactRow == [published : Nat, base : Nat, at : [Windows -> Nat]]
KeyedRow == [key : Pairs, row : ImpactRow]

ImpactTypeOK ==
    /\ stories \in [Stories -> [coins : SUBSET Coins, processed : BOOLEAN, date : Nat]]
    /\ DOMAIN impact \subseteq Pairs /\ impact \in [DOMAIN impact -> ImpactRow]
    /\ history \subseteq Nat \X Pairs
    /\ tracker \in [at : {"idle", "candidates", "base", "1h", "4h", "24h", "history"},
                    todo : SUBSET [key : Pairs, date : Nat], rows : SUBSET KeyedRow,
                    this : KeyedRow \cup {NoRow}, now : Nat]
    /\ now \in Nat
    /\ unrecorded \subseteq Pairs
    /\ impactFaults \in Nat

(***************************************************************************)
(* A snapshot is of one, four and 24 hours after the date its row bears:   *)
(* the article may be dated anew and the upsert take the earlier date, but *)
(* never once a window was filled.                                         *)
(***************************************************************************)
SnapshotsAligned ==
    \A p \in DOMAIN impact : \A w \in Windows :
        impact[p].at[w] # NoPrice => impact[p].at[w] = impact[p].published + w

(***************************************************************************)
(* The price the changes are measured from is not from before the date the *)
(* row bears: the impact never contains what happened before the news.     *)
(***************************************************************************)
BaseNotEarly ==
    \A p \in DOMAIN impact : impact[p].base # NoPrice => impact[p].base >= impact[p].published

(***************************************************************************)
(* A row is of a coin the article's final analysis found it is about.      *)
(***************************************************************************)
ImpactBacked ==
    \A p \in DOMAIN impact : stories[p[1]].processed /\ p[2] \in stories[p[1]].coins

(***************************************************************************)
(* A row that is complete is in the history, unless the job is at it, or   *)
(* something failed between the last snapshot and the history: then it is  *)
(* not listed again, and nothing will ever put it there.                   *)
(***************************************************************************)
CompletedRecorded ==
    \A p \in DOMAIN impact : Complete(impact[p]) =>
        \/ <<impact[p].published, p>> \in history
        \/ This.key = p
        \/ p \in unrecorded

(***************************************************************************)
(* Every coin with prices of an analysed article gets its complete row, as *)
(* long as the pairs that never get a price are fewer than a run takes:    *)
(* they are listed again by every run.                                     *)
(***************************************************************************)
NeverPriced ==
    UNION {{<<a, c>> : c \in (UNION Mentions[a]) \cap Priceless} : a \in Stories}

RowsComplete ==
    Cardinality(NeverPriced) < TrackLimit =>
        []<>(\A p \in AboutCoins(Processed) \ NeverPriced : p \in DOMAIN impact /\ Complete(impact[p]))

(***************************************************************************)
(* Both: a row's prices are of the dates it claims, the first of them at   *)
(* the earliest when the article appeared.                                 *)
(***************************************************************************)
PricesAligned == SnapshotsAligned /\ BaseNotEarly

(***************************************************************************)
(* Both: a row goes back to an analysis, and the history to a row.         *)
(***************************************************************************)
HistoryBacked == ImpactBacked /\ CompletedRecorded
=============================================================================
