---------------------------- MODULE NewsPipeline ----------------------------
(***************************************************************************)
(* From a feed to an analysed article (src/engine/news and news/ai): one   *)
(* job of the engine pulls the feeds into news_articles, another gives     *)
(* every row not yet processed its metadata and its entities.  They share  *)
(* the table and nothing else, and may fail or be cut short anywhere.      *)
(*                                                                         *)
(* What an article says stands for its title and body, and so for what is  *)
(* made of them: metadata and entities are the text they were made from.   *)
(* Dates and addresses are told apart, no more.                            *)
(*                                                                         *)
(* FailureEndsPull and MarkBeforeEntities are the bodies of mutants; no    *)
(* action uses them.                                                       *)
(***************************************************************************)
EXTENDS Naturals, FiniteSets, Sequences, Functions

CONSTANTS
    FeedOrder,      \* the sources, the most credible first
    Telegrams,      \* those of them that are Telegram channels
    Editions,       \* what each of them shows, one edition after the other
    MaxItems,       \* the items of an edition that are taken
    BatchLimit,     \* the articles of one run of the analyst
    PullFaults      \* how often a statement may fail or the engine stop

Feeds == Range(FeedOrder)

(* What a source shows of an item; "none" stands for what is not there.    *)
FeedItem == [id : STRING, link : STRING, text : STRING \ {"none"}, date : Nat]

ASSUME FeedsAssumption == FeedOrder # <<>> /\ FeedOrder \in Seq(Feeds)
ASSUME EditionsAssumption ==
    \A s \in Feeds : Editions[s] # <<>> /\ Editions[s] \in Seq(Seq(FeedItem))

VARIABLES
    edition,        \* of each source, the edition it shows
    articles,       \* the rows of news_articles, in the order of their id
    whole,          \* of each source, the edition last marked as a success
    failing,        \* the sources whose last run was marked as a failure
    puller,         \* where the job that pulls the feeds is
    analyst,        \* where the one that analyses is
    pullFaults      \* how many faults there were

newsVars == <<edition, articles, whole, failing, puller, analyst, pullFaults>>

NoPull == [at |-> "idle", left |-> <<>>, got |-> {}, shown |-> 0]

Nothing == [id |-> 0, text |-> "none", date |-> 0]
NoAnalysis == [at |-> "idle", batch |-> {}, this |-> Nothing, done |-> <<>>]

NewsInit ==
    /\ edition = [s \in Feeds |-> 1]
    /\ articles = <<>>
    /\ whole = [s \in Feeds |-> 0]
    /\ failing = {}
    /\ puller = NoPull
    /\ analyst = NoAnalysis
    /\ pullFaults = 0

Fault == /\ pullFaults < PullFaults
         /\ pullFaults' = pullFaults + 1

\* The source has news: items come, go and are edited.
Publish(s) ==
    /\ edition[s] < Len(Editions[s])
    /\ edition' = [edition EXCEPT ![s] = @ + 1]
    /\ UNCHANGED <<articles, whole, failing, puller, analyst, pullFaults>>

------------------------------------------------------------------------------
(* Parsing.  An item has the id its source gave it, a link, what it says   *)
(* and a date, any of which may be missing; a Telegram post's link is the  *)
(* first that leads out of Telegram.                                       *)

SourceURL(s, item) ==
    CASE item.link # "" -> <<"link", item.link>>
      [] s \in Telegrams -> IF item.id # "" THEN <<"post", item.id>> ELSE <<"page", s>>
      [] OTHER -> <<"page", s, item.id, item.text>>

ExternalID(s, item) ==
    CASE item.id # "" -> <<"id", item.id>>
      [] s \in Telegrams \/ item.link # "" -> SourceURL(s, item)
      [] OTHER -> <<"title", item.text>>

\* An undated item is of today, the latest of all dates.
Today == 99

Parsed(s, item) ==
    [ext |-> ExternalID(s, item), source |-> s, url |-> SourceURL(s, item), text |-> item.text,
     date |-> IF item.date = 0 THEN Today ELSE item.date]

\* The items of an edition that are taken, by their place in it: a post that
\* says nothing is none.
Said(s, n) == {i \in DOMAIN Editions[s][n] : s \in Telegrams => Editions[s][n][i].text # ""}

Fetched(s, n) == {i \in Said(s, n) : Cardinality({j \in Said(s, n) : j < i}) < MaxItems}

Item(s, n, i) == Parsed(s, Editions[s][n][i])

EveryArticle ==
    UNION {UNION {{Item(s, n, i) : i \in Fetched(s, n)} : n \in DOMAIN Editions[s]} : s \in Feeds}

------------------------------------------------------------------------------
(* The job that pulls the feeds, one source after the other.               *)

ListSources ==
    /\ puller.at = "idle"
    /\ puller' = [NoPull EXCEPT !.at = "fetch", !.left = FeedOrder]
    /\ UNCHANGED <<edition, articles, whole, failing, analyst, pullFaults>>

\* On to the next source, or to wait for the next run.
NextSource ==
    puller' = IF Len(puller.left) = 1 THEN NoPull
              ELSE [NoPull EXCEPT !.at = "fetch", !.left = Tail(puller.left)]

Fetch ==
    /\ puller.at = "fetch"
    /\ LET s == Head(puller.left)
       IN  puller' = [puller EXCEPT !.at = "insert", !.got = Fetched(s, edition[s]), !.shown = edition[s]]
    /\ UNCHANGED <<edition, articles, whole, failing, analyst, pullFaults>>

\* A source that fails ends the run.
FailureEndsPull ==
    /\ failing' \in {failing, failing \cup {Head(puller.left)}}
    /\ puller' = NoPull
    /\ UNCHANGED <<edition, whole, analyst>>

\* The mark of failure may be lost as well; nobody looks.
MarkFailure ==
    /\ failing' \in {failing, failing \cup {Head(puller.left)}}
    /\ NextSource
    /\ UNCHANGED <<edition, whole, analyst>>

FetchFails == puller.at = "fetch" /\ Fault /\ MarkFailure /\ UNCHANGED articles

SameRow(a, b) == a.ext = b.ext /\ a.source = b.source

RowOf(a) == {i \in DOMAIN articles : SameRow(articles[i], a)}

\* url_hash is UNIQUE, and ON CONFLICT does not name it.
AddressTaken(a) == \E i \in DOMAIN articles : articles[i].url = a.url /\ ~SameRow(articles[i], a)

NewRow(a) ==
    [ext |-> a.ext, source |-> a.source, url |-> a.url, text |-> a.text, date |-> a.date,
     processed |-> FALSE, meta |-> "none", ents |-> "none"]

Upserted(a) ==
    IF RowOf(a) = {} THEN Append(articles, NewRow(a))
    ELSE [i \in DOMAIN articles |->
             IF i \in RowOf(a)
             THEN [articles[i] EXCEPT !.url = a.url, !.text = a.text, !.date = a.date]
             ELSE articles[i]]

\* The item whose turn it is.
IsNext(i) == i \in puller.got /\ \A j \in puller.got : i <= j

Got(i) == Item(Head(puller.left), puller.shown, i)

InsertArticle ==
    /\ puller.at = "insert"
    /\ \E i \in puller.got :
          /\ IsNext(i) /\ ~AddressTaken(Got(i))
          /\ articles' = Upserted(Got(i))
          /\ puller' = [puller EXCEPT !.got = @ \ {i}]
    /\ UNCHANGED <<edition, whole, failing, analyst, pullFaults>>

\* One article that is refused ends the source's turn.
InsertRefused ==
    /\ puller.at = "insert"
    /\ \E i \in puller.got : IsNext(i) /\ AddressTaken(Got(i))
    /\ MarkFailure
    /\ UNCHANGED <<articles, pullFaults>>

\* The statement fails, or is done and its answer lost.
InsertFails ==
    /\ puller.at = "insert"
    /\ \E i \in puller.got :
          /\ IsNext(i)
          /\ UNCHANGED articles \/ (~AddressTaken(Got(i)) /\ articles' = Upserted(Got(i)))
    /\ Fault
    /\ MarkFailure

MarkSuccess ==
    /\ puller.at = "insert" /\ puller.got = {}
    /\ whole' = [whole EXCEPT ![Head(puller.left)] = puller.shown]
    /\ failing' = failing \ {Head(puller.left)}
    /\ NextSource
    /\ UNCHANGED <<edition, articles, analyst, pullFaults>>

PullStep == ListSources \/ Fetch \/ InsertArticle \/ InsertRefused \/ MarkSuccess

------------------------------------------------------------------------------
(* The job that analyses, a batch of the oldest pending articles at a time. *)

Earlier(a, b) == a.date < b.date \/ (a.date = b.date /\ a.id < b.id)

Pending ==
    {[id |-> i, text |-> articles[i].text, date |-> articles[i].date] :
        i \in {k \in DOMAIN articles : ~articles[k].processed}}

\* ORDER BY ... LIMIT: the first of them, as they are now.
Page == {a \in Pending : Cardinality({b \in Pending : Earlier(b, a)}) < BatchLimit}

ListPending ==
    /\ analyst.at = "idle"
    /\ Pending # {}
    /\ analyst' = [NoAnalysis EXCEPT !.at = "metadata", !.batch = Page]
    /\ UNCHANGED <<edition, articles, whole, failing, puller, pullFaults>>

\* The article whose turn it is.
IsOldest(a) == a \in analyst.batch /\ \A b \in analyst.batch : ~Earlier(b, a)

\* On to the next article, or to marking the batch.
NextArticle(batch, done) ==
    analyst' = [at |-> IF batch # {} THEN "metadata" ELSE IF done # <<>> THEN "mark" ELSE "idle",
                batch |-> batch, this |-> Nothing, done |-> done]

WithMeta(a) == [articles EXCEPT ![a.id].meta = a.text]
WithEnts(a) == [articles EXCEPT ![a.id].ents = a.text]

\* The batch is marked with what is still to be written.
MarkBeforeEntities ==
    /\ analyst.at = "metadata"
    /\ \E a \in analyst.batch :
          /\ IsOldest(a)
          /\ articles' = [WithMeta(a) EXCEPT ![a.id].processed = TRUE]
          /\ analyst' = [analyst EXCEPT !.at = "entities", !.batch = @ \ {a}, !.this = a]
    /\ UNCHANGED <<edition, whole, failing, puller, pullFaults>>

UpsertMetadata ==
    /\ analyst.at = "metadata"
    /\ \E a \in analyst.batch :
          /\ IsOldest(a)
          /\ articles' = WithMeta(a)
          /\ analyst' = [analyst EXCEPT !.at = "entities", !.batch = @ \ {a}, !.this = a]
    /\ UNCHANGED <<edition, whole, failing, puller, pullFaults>>

\* In one transaction.
ReplaceEntities ==
    /\ analyst.at = "entities"
    /\ articles' = WithEnts(analyst.this)
    /\ NextArticle(analyst.batch, Append(analyst.done, analyst.this.id))
    /\ UNCHANGED <<edition, whole, failing, puller, pullFaults>>

\* Either statement fails, or is done and its answer lost: the article is left.
AnalysisFails ==
    /\ Fault
    /\ \/ /\ analyst.at = "metadata"
          /\ \E a \in analyst.batch :
                /\ IsOldest(a)
                /\ articles' \in {articles, WithMeta(a)}
                /\ NextArticle(analyst.batch \ {a}, analyst.done)
       \/ /\ analyst.at = "entities"
          /\ articles' \in {articles, WithEnts(analyst.this)}
          /\ NextArticle(analyst.batch, analyst.done)
    /\ UNCHANGED <<edition, whole, failing, puller>>

MarkProcessed ==
    /\ analyst.at = "mark"
    /\ articles' = [articles EXCEPT ![Head(analyst.done)].processed = TRUE]
    /\ analyst' = IF Len(analyst.done) = 1 THEN NoAnalysis ELSE [analyst EXCEPT !.done = Tail(@)]
    /\ UNCHANGED <<edition, whole, failing, puller, pullFaults>>

AnalystStep == ListPending \/ UpsertMetadata \/ ReplaceEntities \/ MarkProcessed

------------------------------------------------------------------------------
(* An error a job returns (a list, the mark of a success or of an article) *)
(* stops the engine, as a crash does; started again, its jobs begin anew.  *)
StopAndStart ==
    /\ puller # NoPull \/ analyst # NoAnalysis
    /\ Fault
    /\ puller' = NoPull
    /\ analyst' = NoAnalysis
    /\ UNCHANGED <<edition, articles, whole, failing>>

NewsNext ==
    \/ \E s \in Feeds : Publish(s)
    \/ PullStep \/ FetchFails \/ InsertFails
    \/ AnalystStep \/ AnalysisFails
    \/ StopAndStart

NewsSpec == NewsInit /\ [][NewsNext]_newsVars

(***************************************************************************)
(* The jobs run at the ticks of their timers.                              *)
(***************************************************************************)
NewsFairness == WF_newsVars(PullStep) /\ WF_newsVars(AnalystStep)

------------------------------------------------------------------------------
(* Rows say what some source showed, or was made of that.                  *)
Texts == {a.text : a \in EveryArticle}
ArticleRow ==
    [ext : {a.ext : a \in EveryArticle}, source : Feeds, url : {a.url : a \in EveryArticle},
     text : Texts, date : Nat, processed : BOOLEAN,
     meta : Texts \cup {"none"}, ents : Texts \cup {"none"}]
ToAnalyse == [id : Nat, text : Texts, date : Nat]

NewsTypeOK ==
    /\ edition \in [Feeds -> Nat] /\ \A s \in Feeds : edition[s] \in DOMAIN Editions[s]
    /\ articles \in Seq(ArticleRow)
    /\ whole \in [Feeds -> Nat]
    /\ failing \subseteq Feeds
    /\ puller \in [at : {"idle", "fetch", "insert"}, left : Seq(Feeds), got : SUBSET Nat, shown : Nat]
    /\ analyst \in [at : {"idle", "metadata", "entities", "mark"}, batch : SUBSET ToAnalyse,
                    this : ToAnalyse \cup {Nothing}, done : Seq(Nat)]
    /\ pullFaults \in Nat

(***************************************************************************)
(* An article that counts as processed has metadata and entities, and of   *)
(* one and the same analysis: not metadata of what it said before it was   *)
(* edited and entities of what it says now, whatever failed in between.    *)
(* Nothing would ever put them right.                                      *)
(***************************************************************************)
OneAnalysis ==
    \A i \in DOMAIN articles :
        articles[i].processed => articles[i].meta = articles[i].ents /\ articles[i].ents # "none"

(***************************************************************************)
(* A source counts as a success on account of an edition all of whose      *)
(* articles are in the table: an item that was refused cannot be hidden    *)
(* behind a success.                                                       *)
(***************************************************************************)
SuccessIsWhole ==
    \A s \in Feeds : whole[s] > 0 =>
        \A i \in Fetched(s, whole[s]) : RowOf(Item(s, whole[s], i)) # {}

(***************************************************************************)
(* Every article a source ends up showing gets into the table, unless one  *)
(* of those shown before it, or it itself, has the address of another.     *)
(* Those stand in the way: the upsert that is refused ends the source's    *)
(* turn, in every run anew.  (Rows are never taken back, so what holds     *)
(* again and again holds in the end.)                                      *)
(***************************************************************************)
HasOwnAddress(a) == \A b \in EveryArticle : b.url = a.url => SameRow(a, b)

FeedsArrive ==
    []<>(\A s \in Feeds : edition[s] = Len(Editions[s]) =>
            LET n == Len(Editions[s])
            IN  \A i \in Fetched(s, n) :
                    (\A j \in Fetched(s, n) : j <= i => HasOwnAddress(Item(s, n, j)))
                        => RowOf(Item(s, n, i)) # {})

(***************************************************************************)
(* Every article in the table is analysed in the end, the edited ones and  *)
(* those whose analysis failed too.                                        *)
(***************************************************************************)
ArticlesAnalysed == []<>(\A i \in DOMAIN articles : articles[i].processed)

(***************************************************************************)
(* Both: whatever fails in between, articles arrive and are analysed.      *)
(***************************************************************************)
NewsFlows == FeedsArrive /\ ArticlesAnalysed

(***************************************************************************)
(* Both: what the tables say of an article and of its source belongs       *)
(* together.                                                               *)
(***************************************************************************)
AnalysisSound == OneAnalysis /\ SuccessIsWhole
=============================================================================
