------------------------- MODULE EngineJobs_proofs -------------------------
(***************************************************************************)
(* Proofs about the engine's supervisor and its stream, and about the jobs *)
(* of the news, each a system of its own: for any periodic jobs and any    *)
(* session limit, any feeds, articles, coins and limits, and any number of *)
(* faults.                                                                 *)
(***************************************************************************)
EXTENDS EngineJobs, NewsPipeline, NewsArchive, NewsImpact,
        FiniteSetTheorems, WellFoundedInduction, TLAPS

(* The supervisor and the stream.                                          *)

USE SessionLimitAssumption DEF SessionLimitAssumption

(* A read loop left because the context was done leaves the context done.  *)
CanceledIsStopping == why = "canceled" => Stopping

IInv == TypeOK /\ ConnectionTracked /\ NoJobMissing /\ CanceledIsStopping

LEMMA JobStepKeeps ==
    ASSUME IInv, NEW j \in Jobs, JobStep(j) PROVE IInv'
<1>1. PICK to \in {"run", "wait", "returned"} :
        /\ job' = [job EXCEPT ![j] = to]
        /\ to = "returned" => Stopping'
        /\ failed' \in BOOLEAN /\ (failed => failed')
        /\ UNCHANGED <<signalled, stream, why, exited, conn, age, inbox>>
  <2> USE DEF MoveJob, clientVars, Stopping, IInv, TypeOK
  <2>1. CASE RunEnds(j)
    BY <2>1 DEF RunEnds
  <2>2. CASE RunFails(j)
    BY <2>2 DEF RunFails
  <2>3. CASE RunCancelled(j)
    BY <2>3 DEF RunCancelled
  <2>4. CASE Wake(j)
    BY <2>4 DEF Wake
  <2>5. CASE Leave(j)
    BY <2>5 DEF Leave
  <2> QED
    BY <2>1, <2>2, <2>3, <2>4, <2>5 DEF JobStep
<1>2. Stopping => Stopping'
  BY <1>1 DEF Stopping
<1>3. TypeOK'
  BY <1>1 DEF IInv, TypeOK
<1>4. ConnectionTracked' /\ CanceledIsStopping'
  BY <1>1, <1>2 DEF IInv, ConnectionTracked, CanceledIsStopping
<1>5. NoJobMissing'
  BY <1>1, <1>2 DEF IInv, TypeOK, NoJobMissing
<1> QED
  BY <1>3, <1>4, <1>5 DEF IInv

LEMMA StreamStepKeeps ==
    ASSUME IInv, StreamStep PROVE IInv'
<1> USE DEF IInv, TypeOK, StreamPoints, ConnectionTracked, NoJobMissing, CanceledIsStopping,
            Stopping, MoveStream, clientVars
<1>1. CASE Top
  BY <1>1 DEF Top
<1>2. CASE Connect
  BY <1>2 DEF Connect
<1>3. CASE ConnectFails
  BY <1>3 DEF ConnectFails
<1>4. CASE CheckSession
  BY <1>4 DEF CheckSession, SessionOver
<1>5. CASE Read
  BY <1>5 DEF Read
<1>6. CASE Ingest
  BY <1>6 DEF Ingest
<1>7. CASE Close
  <2>1. TypeOK'
    <3>1. stream' \in {"returned", "retry"}
      BY <1>7 DEF Close
    <3>2. age' = 0 /\ conn' = FALSE
      BY <1>7 DEF Close
    <3>3. 0 \in 0 .. SessionLimit
      OBVIOUS
    <3> QED
      BY <1>7, <3>1, <3>2, <3>3 DEF Close
  <2>2. ConnectionTracked' /\ CanceledIsStopping'
    BY <1>7 DEF Close
  <2>3. NoJobMissing'
    BY <1>7 DEF Close
  <2> QED
    BY <2>1, <2>2, <2>3
<1>8. CASE Retry
  BY <1>8 DEF Retry
<1> QED
  BY <1>1, <1>2, <1>3, <1>4, <1>5, <1>6, <1>7, <1>8 DEF StreamStep

LEMMA Invariance == Spec => []IInv
<1>1. Init => IInv
  <2> SUFFICES ASSUME Init PROVE IInv
    OBVIOUS
  <2>1. TypeOK
    <3>1. job \in [Jobs -> {"run", "wait", "returned"}]
      BY DEF Init
    <3>2. age \in 0 .. SessionLimit
      BY DEF Init
    <3> QED
      BY <3>1, <3>2 DEF Init, TypeOK, StreamPoints
  <2>2. ConnectionTracked /\ CanceledIsStopping
    BY DEF Init, ConnectionTracked, CanceledIsStopping
  <2>3. NoJobMissing
    BY DEF Init, NoJobMissing
  <2> QED
    BY <2>1, <2>2, <2>3 DEF IInv
<1>2. IInv /\ [Next]_vars => IInv'
  <2> SUFFICES ASSUME IInv, [Next]_vars PROVE IInv'
    OBVIOUS
  <2>1. ASSUME NEW j \in Jobs, JobStep(j) PROVE IInv'
    BY <2>1, JobStepKeeps
  <2>2. CASE StreamStep
    BY <2>2, StreamStepKeeps
  <2>3. CASE Signal \/ Exit \/ UNCHANGED vars
    <3>1. /\ UNCHANGED <<failed, job, stream, why, conn, age, inbox>>
          /\ signalled' \in {signalled, TRUE} /\ exited' \in {exited, TRUE}
      BY <2>3 DEF Signal, Exit, vars, clientVars
    <3>2. TypeOK'
      BY <3>1 DEF IInv, TypeOK
    <3>3. Stopping => Stopping'
      BY <3>1 DEF Stopping
    <3>4. ConnectionTracked'
      BY <3>1 DEF IInv, ConnectionTracked
    <3>5. CanceledIsStopping' /\ NoJobMissing'
      BY <3>1, <3>3 DEF IInv, CanceledIsStopping, NoJobMissing
    <3> QED
      BY <3>2, <3>4, <3>5 DEF IInv
  <2>4. CASE Arrive
    BY <2>4 DEF IInv, TypeOK, ConnectionTracked, NoJobMissing, CanceledIsStopping,
       Stopping, Arrive
  <2>5. CASE Tick
    BY <2>5 DEF IInv, TypeOK, ConnectionTracked, NoJobMissing, CanceledIsStopping,
       Stopping, Tick
  <2> QED
    BY <2>1, <2>2, <2>3, <2>4, <2>5 DEF Next
<1> QED
  BY <1>1, <1>2, PTL DEF Spec

(* Jobs, stream, signals and Binance keep the types.                       *)
THEOREM TypeCorrect == Spec => []TypeOK
<1>1. IInv => TypeOK
  BY DEF IInv
<1> QED
  BY <1>1, Invariance, PTL

(* The client holds a connection exactly while the read loop runs.         *)
THEOREM ConnectionAlwaysTracked == Spec => []ConnectionTracked
<1>1. IInv => ConnectionTracked
  BY DEF IInv
<1> QED
  BY <1>1, Invariance, PTL

(* No job, periodic or the stream's, ends without the engine ending.       *)
THEOREM NoJobEverMissing == Spec => []NoJobMissing
<1>1. IInv => NoJobMissing
  BY DEF IInv
<1> QED
  BY <1>1, Invariance, PTL

(* Whoever has returned stays where he is.                                 *)
EndsClean ==
    exited => Stopping /\ ~conn /\ stream = "returned" /\ \A j \in Jobs : job[j] = "returned"

LEMMA NoStepAfterExit ==
    ASSUME IInv, EndsClean, Next PROVE ~exited
<1> SUFFICES ASSUME exited PROVE FALSE
  OBVIOUS
<1>1. /\ stream = "returned" /\ ~conn
      /\ \A j \in Jobs : job[j] = "returned"
  BY DEF EndsClean
<1>2. \A j \in Jobs : ~JobStep(j)
  BY <1>1 DEF JobStep, RunEnds, RunFails, RunCancelled, Wake, Leave, MoveJob
<1>3. ~StreamStep
  BY <1>1 DEF StreamStep, Top, Connect, ConnectFails, CheckSession, Read, Ingest, Close, Retry, MoveStream
<1>4. ~Arrive /\ ~Tick
  BY <1>1 DEF Arrive, Tick
<1>5. ~Signal /\ ~Exit
  BY DEF Signal, Exit
<1> QED
  BY <1>2, <1>3, <1>4, <1>5 DEF Next

LEMMA ExitIsClean ==
    ASSUME IInv, EndsClean, [Next]_vars PROVE EndsClean'
<1>1. CASE UNCHANGED vars
  BY <1>1 DEF vars, clientVars, EndsClean, Stopping
<1>2. CASE Next
  <2>1. ~exited
    BY <1>2, NoStepAfterExit
  <2>2. CASE Exit
    <3>1. stream = "returned" /\ \A j \in Jobs : job[j] = "returned"
      BY <2>2 DEF Exit
    <3>2. Stopping /\ ~conn
      BY <3>1 DEF IInv, NoJobMissing, ConnectionTracked
    <3> QED
      BY <2>2, <3>1, <3>2 DEF Exit, EndsClean, Stopping, clientVars
  <2>3. CASE ~Exit
    <3>1. exited' = exited
      BY <1>2, <2>3 DEF Next, Signal, JobStep, RunEnds, RunFails, RunCancelled, Wake, Leave, MoveJob,
         StreamStep, Top, Connect, ConnectFails, CheckSession, Read, Ingest, Close, Retry, MoveStream,
         Arrive, Tick
    <3> QED
      BY <2>1, <3>1 DEF EndsClean
  <2> QED
    BY <2>2, <2>3
<1> QED
  BY <1>1, <1>2

(* main.go:652: when group.Wait returns, it was told to or a job had       *)
(* failed, every job is back, the stream's connection is closed, and       *)
(* nothing of the engine takes another step.                               *)
THEOREM ExitAlwaysClean == Spec => []EndsClean /\ [][~exited]_vars
<1>1. Init => EndsClean
  BY DEF Init, EndsClean
<1>2. IInv /\ EndsClean /\ [Next]_vars => EndsClean' /\ [~exited]_vars
  BY NoStepAfterExit, ExitIsClean
<1> QED
  BY <1>1, <1>2, Invariance, PTL DEF Spec

HIDE SessionLimitAssumption DEF SessionLimitAssumption


-----------------------------------------------------------------------------
(* From the feeds to analysed articles.                                    *)

(* The source whose turn it is: what was taken of its edition is in the    *)
(* table, but for what is still to come.                                   *)
InSource ==
    /\ puller.at \in {"fetch", "insert"} => puller.left # <<>>
    /\ puller.at = "insert" =>
          /\ puller.shown \in DOMAIN Editions[Head(puller.left)]
          /\ puller.got \subseteq Fetched(Head(puller.left), puller.shown)
          /\ \A i \in Fetched(Head(puller.left), puller.shown) \ puller.got : RowOf(Got(i)) # {}

(* What is left of the batch is not processed.                             *)
BatchOpen ==
    /\ \A a \in analyst.batch : a.id \in DOMAIN articles /\ ~articles[a.id].processed
    /\ \A a, b \in analyst.batch : a.id = b.id => a = b
    /\ analyst.at \in {"idle", "mark"} => analyst.batch = {}

(* The article at hand has metadata of the text it was listed with.        *)
ThisOpen ==
    analyst.at = "entities" =>
        /\ analyst.this \in ToAnalyse
        /\ analyst.this.id \in DOMAIN articles /\ ~articles[analyst.this.id].processed
        /\ articles[analyst.this.id].meta = analyst.this.text
        /\ \A a \in analyst.batch : a.id # analyst.this.id

(* What is to be marked has both, and nothing of it is analysed again.     *)
DoneAnalysed ==
    /\ analyst.at = "mark" => analyst.done # <<>>
    /\ \A k \in DOMAIN analyst.done :
          /\ analyst.done[k] \in DOMAIN articles
          /\ articles[analyst.done[k]].meta = articles[analyst.done[k]].ents
          /\ articles[analyst.done[k]].ents # "none"
          /\ \A a \in analyst.batch : a.id # analyst.done[k]
          /\ analyst.at = "entities" => analyst.this.id # analyst.done[k]

NewsIInv ==
    /\ NewsTypeOK
    /\ OneAnalysis /\ SuccessIsWhole
    /\ InSource /\ BatchOpen /\ ThisOpen /\ DoneAnalysed

PullerType == [at : {"idle", "fetch", "insert"}, left : Seq(Feeds), got : SUBSET Nat, shown : Nat]
AnalystType ==
    [at : {"idle", "metadata", "entities", "mark"}, batch : SUBSET ToAnalyse,
     this : ToAnalyse \cup {Nothing}, done : Seq(Nat)]

LEMMA FeedsTyped ==
    /\ FeedOrder # <<>> /\ FeedOrder \in Seq(Feeds)
    /\ \A s \in Feeds : Editions[s] # <<>> /\ Editions[s] \in Seq(Seq(FeedItem))
BY FeedsAssumption, EditionsAssumption DEF FeedsAssumption, EditionsAssumption

(* An item of a source is an article with a text.                          *)
LEMMA ItemTyped ==
    ASSUME NEW s \in Feeds, NEW n \in DOMAIN Editions[s], NEW i \in Fetched(s, n)
    PROVE  /\ Item(s, n, i) \in EveryArticle
           /\ Item(s, n, i).source = s /\ Item(s, n, i).text # "none" /\ Item(s, n, i).date \in Nat
           /\ i \in Nat
<1>1. Editions[s][n] \in Seq(FeedItem) /\ i \in DOMAIN Editions[s][n]
  <2>1. Editions[s] \in Seq(Seq(FeedItem))
    BY FeedsTyped
  <2>2. Editions[s][n] \in Seq(FeedItem)
    BY <2>1
  <2>3. i \in Said(s, n)
    BY Zenon DEF Fetched
  <2>4. i \in DOMAIN Editions[s][n]
    BY <2>3, Zenon DEF Said
  <2> QED
    BY <2>2, <2>4
<1>2. Editions[s][n][i] \in FeedItem /\ i \in Nat
  BY <1>1
<1>3. Item(s, n, i) = Parsed(s, Editions[s][n][i])
  BY DEF Item
<1>4. /\ Parsed(s, Editions[s][n][i]).source = s
      /\ Parsed(s, Editions[s][n][i]).text = Editions[s][n][i].text
      /\ Parsed(s, Editions[s][n][i]).date = IF Editions[s][n][i].date = 0 THEN Today ELSE Editions[s][n][i].date
  BY DEF Parsed
<1>5. Item(s, n, i) \in EveryArticle
  <2>1. Item(s, n, i) \in {Item(s, n, j) : j \in Fetched(s, n)}
    BY Zenon
  <2> DEFINE items(m) == {Item(s, m, j) : j \in Fetched(s, m)}
  <2>2. items(n) \in {items(m) : m \in DOMAIN Editions[s]}
    BY Zenon
  <2>3. Item(s, n, i) \in UNION {items(m) : m \in DOMAIN Editions[s]}
    BY <2>1, <2>2, Zenon
  <2> DEFINE shown(q) == UNION {{Item(q, m, j) : j \in Fetched(q, m)} : m \in DOMAIN Editions[q]}
  <2>4. Item(s, n, i) \in shown(s)
    BY <2>3
  <2>5. EveryArticle = UNION {shown(q) : q \in Feeds}
    BY DEF EveryArticle
  <2> HIDE DEF shown
  <2> QED
    BY <2>4, <2>5
<1> QED
  BY <1>2, <1>3, <1>4, <1>5 DEF FeedItem, Today

(* Every article is an item of some source.                                *)
LEMMA ArticleTyped ==
    ASSUME NEW a \in EveryArticle
    PROVE  a.source \in Feeds /\ a.text # "none" /\ a.date \in Nat
<1>1. PICK s \in Feeds : a \in UNION {{Item(s, n, i) : i \in Fetched(s, n)} : n \in DOMAIN Editions[s]}
  BY Zenon DEF EveryArticle
<1>2. PICK n \in DOMAIN Editions[s] : a \in {Item(s, n, i) : i \in Fetched(s, n)}
  BY <1>1, Zenon
<1>3. PICK i \in Fetched(s, n) : a = Item(s, n, i)
  BY <1>2, Zenon
<1> QED
  BY <1>3, ItemTyped, Zenon

LEMMA TextsTyped == "none" \notin Texts
BY ArticleTyped DEF Texts

LEMMA NewRowTyped ==
    ASSUME NEW a \in EveryArticle
    PROVE  /\ NewRow(a) \in ArticleRow /\ NewRow(a).processed = FALSE
           /\ NewRow(a).ext = a.ext /\ NewRow(a).source = a.source
<1>1. a.source \in Feeds /\ a.date \in Nat
  BY ArticleTyped
<1>2. a.ext \in {b.ext : b \in EveryArticle} /\ a.url \in {b.url : b \in EveryArticle} /\ a.text \in Texts
  BY Zenon DEF Texts
<1>3. FALSE \in BOOLEAN
  OBVIOUS
<1>4. NewRow(a) \in ArticleRow
  BY <1>1, <1>2, <1>3, SMT DEF NewRow, ArticleRow
<1> QED
  BY <1>4, Zenon DEF NewRow

(* An edited row is the article it was, in the same state of analysis.     *)
LEMMA EditedTyped ==
    ASSUME NEW r \in ArticleRow, NEW a \in EveryArticle
    PROVE  LET e == [r EXCEPT !.url = a.url, !.text = a.text, !.date = a.date]
           IN  /\ e \in ArticleRow /\ e.ext = r.ext /\ e.source = r.source
               /\ e.processed = r.processed /\ e.meta = r.meta /\ e.ents = r.ents
<1> DEFINE e1 == [r EXCEPT !.url = a.url]
           e2 == [e1 EXCEPT !.text = a.text]
           e3 == [e2 EXCEPT !.date = a.date]
<1>1. a.url \in {b.url : b \in EveryArticle} /\ a.text \in Texts /\ a.date \in Nat
  BY ArticleTyped, Zenon DEF Texts
<1>2. /\ e1 \in ArticleRow /\ e1.ext = r.ext /\ e1.source = r.source
      /\ e1.processed = r.processed /\ e1.meta = r.meta /\ e1.ents = r.ents
  BY <1>1, Zenon DEF ArticleRow
<1> HIDE DEF e1
<1>3. /\ e2 \in ArticleRow /\ e2.ext = e1.ext /\ e2.source = e1.source
      /\ e2.processed = e1.processed /\ e2.meta = e1.meta /\ e2.ents = e1.ents
  BY <1>1, <1>2, Zenon DEF ArticleRow
<1> HIDE DEF e2
<1>4. /\ e3 \in ArticleRow /\ e3.ext = e2.ext /\ e3.source = e2.source
      /\ e3.processed = e2.processed /\ e3.meta = e2.meta /\ e3.ents = e2.ents
  BY <1>1, <1>3, Zenon DEF ArticleRow
<1> USE DEF e1, e2
<1> QED
  BY <1>2, <1>3, <1>4, Zenon

(* What a change of analysis leaves of a row.                              *)
LEMMA AnalysedTyped ==
    ASSUME NEW r \in ArticleRow, NEW t \in Texts \cup {"none"}
    PROVE  LET m == [r EXCEPT !.meta = t]
               n == [r EXCEPT !.ents = t]
               p == [r EXCEPT !.processed = TRUE]
           IN  /\ m \in ArticleRow /\ m.ext = r.ext /\ m.source = r.source /\ m.meta = t /\ m.ents = r.ents
               /\ m.processed = r.processed
               /\ n \in ArticleRow /\ n.ext = r.ext /\ n.source = r.source /\ n.ents = t /\ n.meta = r.meta
               /\ n.processed = r.processed
               /\ p \in ArticleRow /\ p.ext = r.ext /\ p.source = r.source /\ p.ents = r.ents /\ p.meta = r.meta
<1>1. TRUE \in BOOLEAN
  OBVIOUS
<1> QED
  BY <1>1, Zenon DEF ArticleRow

(* What follows the first of several.                                      *)
LEMMA TailOfSeveral ==
    ASSUME NEW S, NEW q \in Seq(S), q # <<>>, Len(q) # 1
    PROVE  /\ Tail(q) \in Seq(S) /\ Tail(q) # <<>>
           /\ \A k \in DOMAIN Tail(q) : k + 1 \in DOMAIN q /\ Tail(q)[k] = q[k + 1]
<1>1. Len(q) \in Nat /\ Len(q) # 0
  OBVIOUS
<1>2. Tail(q) \in Seq(S) /\ Len(Tail(q)) = Len(q) - 1
  OBVIOUS
<1>3. Len(Tail(q)) # 0
  BY <1>1, <1>2
<1>4. ASSUME Tail(q) = <<>> PROVE FALSE
  <2>1. Len(Tail(q)) = Len(<<>>)
    BY <1>4, Zenon
  <2>2. Len(<<>>) = 0
    OBVIOUS
  <2> QED
    BY <1>3, <2>1, <2>2
<1>5. \A k \in DOMAIN Tail(q) : k + 1 \in DOMAIN q /\ Tail(q)[k] = q[k + 1]
  OBVIOUS
<1> QED
  BY <1>2, <1>4, <1>5

-----------------------------------------------------------------------------
(* Rows keep who they are, and none is lost.                               *)
Grown ==
    /\ articles' \in Seq(ArticleRow)
    /\ DOMAIN articles \subseteq DOMAIN articles'
    /\ \A i \in DOMAIN articles :
          articles'[i].ext = articles[i].ext /\ articles'[i].source = articles[i].source

(* No analysis is touched, and new rows have none.                         *)
AnalysesKept ==
    /\ \A i \in DOMAIN articles :
          /\ articles'[i].processed = articles[i].processed
          /\ articles'[i].meta = articles[i].meta /\ articles'[i].ents = articles[i].ents
    /\ \A i \in DOMAIN articles' \ DOMAIN articles : ~articles'[i].processed

LEMMA RowStays ==
    ASSUME Grown, NEW a, RowOf(a) # {}
    PROVE  \E i \in DOMAIN articles' : SameRow(articles'[i], a)
BY DEF Grown, RowOf, SameRow

LEMMA SuccessKept ==
    ASSUME Grown, SuccessIsWhole, UNCHANGED whole PROVE SuccessIsWhole'
<1>1. ASSUME NEW s \in Feeds, whole[s] > 0, NEW i \in Fetched(s, whole[s])
      PROVE  \E k \in DOMAIN articles' : SameRow(articles'[k], Item(s, whole[s], i))
  BY <1>1, RowStays DEF SuccessIsWhole
<1> QED
  BY <1>1 DEF SuccessIsWhole, RowOf

LEMMA SourceKept ==
    ASSUME Grown, InSource, UNCHANGED puller PROVE InSource'
<1>1. ASSUME puller.at = "insert", NEW i \in Fetched(Head(puller.left), puller.shown) \ puller.got
      PROVE  \E k \in DOMAIN articles' : SameRow(articles'[k], Got(i))
  BY <1>1, RowStays DEF InSource
<1> QED
  BY <1>1 DEF InSource, RowOf, Got

LEMMA AnalystKept ==
    ASSUME NewsIInv, Grown, AnalysesKept, UNCHANGED analyst
    PROVE  OneAnalysis' /\ BatchOpen' /\ ThisOpen' /\ DoneAnalysed'
<1>1. OneAnalysis'
  <2>1. ASSUME NEW i \in DOMAIN articles', articles'[i].processed
        PROVE  articles'[i].meta = articles'[i].ents /\ articles'[i].ents # "none"
    <3>1. i \in DOMAIN articles
      BY <2>1 DEF AnalysesKept
    <3>2. articles[i].processed
      BY <2>1, <3>1, Zenon DEF AnalysesKept
    <3> QED
      BY <3>1, <3>2 DEF AnalysesKept, NewsIInv, OneAnalysis
  <2> QED
    BY <2>1 DEF OneAnalysis
<1>2. BatchOpen' /\ ThisOpen'
  <2>1. ASSUME NEW i \in DOMAIN articles, ~articles[i].processed
        PROVE  i \in DOMAIN articles' /\ ~articles'[i].processed /\ articles'[i].meta = articles[i].meta
    BY <2>1, Zenon DEF Grown, AnalysesKept
  <2>2. BatchOpen'
    BY <2>1 DEF NewsIInv, BatchOpen
  <2>3. ThisOpen'
    BY <2>1 DEF NewsIInv, ThisOpen
  <2> QED
    BY <2>2, <2>3
<1>3. DoneAnalysed'
  BY DEF NewsIInv, DoneAnalysed, Grown, AnalysesKept
<1> QED
  BY <1>1, <1>2, <1>3

LEMMA NothingWritten ==
    ASSUME NewsIInv, UNCHANGED articles PROVE Grown /\ AnalysesKept
BY DEF NewsIInv, NewsTypeOK, Grown, AnalysesKept

(* The upsert of an article leaves a row of it.                            *)
LEMMA UpsertGrows ==
    ASSUME NewsIInv, NEW a \in EveryArticle, articles' = Upserted(a)
    PROVE  Grown /\ AnalysesKept /\ \E k \in DOMAIN articles' : SameRow(articles'[k], a)
<1>0. articles \in Seq(ArticleRow)
  BY DEF NewsIInv, NewsTypeOK
<1>1. CASE RowOf(a) = {}
  <2>1. articles' = Append(articles, NewRow(a))
    BY <1>1 DEF Upserted
  <2>2. /\ NewRow(a) \in ArticleRow /\ NewRow(a).processed = FALSE
        /\ NewRow(a).ext = a.ext /\ NewRow(a).source = a.source
    BY NewRowTyped
  <2> DEFINE r == NewRow(a)  n == Len(articles) + 1
  <2> HIDE DEF r
  <2>3. /\ articles' \in Seq(ArticleRow) /\ DOMAIN articles' = 1 .. n /\ DOMAIN articles = 1 .. Len(articles)
        /\ \A i \in DOMAIN articles : articles'[i] = articles[i]
        /\ articles'[n] = r /\ n \in DOMAIN articles'
    BY <1>0, <2>1, <2>2 DEF r
  <2>4. \A i \in DOMAIN articles' \ DOMAIN articles : i = n
    BY <1>0, <2>3
  <2>5. Grown
    BY <1>0, <2>3 DEF Grown
  <2>6. AnalysesKept
    <3>1. \A i \in DOMAIN articles' \ DOMAIN articles : ~articles'[i].processed
      BY <2>2, <2>3, <2>4 DEF r
    <3> QED
      BY <2>3, <3>1 DEF AnalysesKept
  <2>7. SameRow(articles'[n], a)
    BY <2>2, <2>3 DEF r, SameRow
  <2> QED
    BY <2>3, <2>5, <2>6, <2>7
<1>2. CASE RowOf(a) # {}
  <2> DEFINE e(i) == [articles[i] EXCEPT !.url = a.url, !.text = a.text, !.date = a.date]
  <2>1. articles' = [i \in DOMAIN articles |-> IF i \in RowOf(a) THEN e(i) ELSE articles[i]]
    BY <1>2 DEF Upserted
  <2>2. ASSUME NEW i \in DOMAIN articles
        PROVE  /\ e(i) \in ArticleRow /\ e(i).ext = articles[i].ext /\ e(i).source = articles[i].source
               /\ e(i).processed = articles[i].processed /\ e(i).meta = articles[i].meta
               /\ e(i).ents = articles[i].ents
    <3>1. articles[i] \in ArticleRow
      BY <1>0
    <3> QED
      BY <3>1, EditedTyped, Zenon
  <2> HIDE DEF e
  <2>3. /\ articles' \in Seq(ArticleRow) /\ DOMAIN articles' = DOMAIN articles
        /\ \A i \in DOMAIN articles : articles'[i] = IF i \in RowOf(a) THEN e(i) ELSE articles[i]
    <3>1. DOMAIN articles' = 1 .. Len(articles) /\ Len(articles) \in Nat
      BY <1>0, <2>1
    <3>2. \A i \in DOMAIN articles : (IF i \in RowOf(a) THEN e(i) ELSE articles[i]) \in ArticleRow
      BY <1>0, <2>2
    <3>3. articles' \in [1 .. Len(articles) -> ArticleRow]
      BY <1>0, <2>1, <3>1, <3>2
    <3> QED
      BY <1>0, <2>1, <3>1, <3>3
  <2>4. Grown
    BY <2>2, <2>3 DEF Grown
  <2>5. AnalysesKept
    <3>1. ASSUME NEW i \in DOMAIN articles
          PROVE  /\ articles'[i].processed = articles[i].processed
                 /\ articles'[i].meta = articles[i].meta /\ articles'[i].ents = articles[i].ents
      BY <2>2, <2>3, Zenon
    <3> QED
      BY <2>3, <3>1, Zenon DEF AnalysesKept
  <2>6. \E k \in DOMAIN articles' : SameRow(articles'[k], a)
    BY <1>2, <2>4, RowStays
  <2> QED
    BY <2>4, <2>5, <2>6
<1> QED
  BY <1>1, <1>2

-----------------------------------------------------------------------------
(* The job that pulls.                                                     *)
LEMMA NoPullTyped ==
    /\ NoPull.at = "idle" /\ NoPull.left = <<>> /\ NoPull.got = {} /\ NoPull.shown = 0
    /\ NoPull \in PullerType
BY DEF NoPull, PullerType

LEMMA NextSourceKeeps ==
    ASSUME NewsIInv, puller.at \in {"fetch", "insert"}, NextSource
    PROVE  puller' \in PullerType /\ InSource'
<1>1. puller.left \in Seq(Feeds) /\ puller.left # <<>>
  BY DEF NewsIInv, NewsTypeOK, InSource
<1>2. CASE Len(puller.left) = 1
  <2>1. puller' = NoPull
    BY <1>2 DEF NextSource
  <2> QED
    BY <2>1, NoPullTyped DEF InSource
<1>3. CASE Len(puller.left) # 1
  <2>1. puller' = [NoPull EXCEPT !.at = "fetch", !.left = Tail(puller.left)]
    BY <1>3 DEF NextSource
  <2>2. Tail(puller.left) \in Seq(Feeds) /\ Tail(puller.left) # <<>>
    BY <1>1, <1>3, TailOfSeveral
  <2>3. puller' = [at |-> "fetch", left |-> Tail(puller.left), got |-> {}, shown |-> 0]
    BY <2>1 DEF NoPull
  <2> HIDE DEF NextSource
  <2>4. puller'.at = "fetch" /\ puller'.left = Tail(puller.left) /\ puller' \in PullerType
    BY <2>2, <2>3 DEF PullerType
  <2> QED
    BY <2>2, <2>4 DEF InSource
<1> QED
  BY <1>2, <1>3

(* A step that takes nothing from the table and leaves the analyst alone.  *)
LEMMA PullerWrites ==
    ASSUME NewsIInv, Grown, AnalysesKept, UNCHANGED <<edition, whole, analyst>>,
           failing' \subseteq Feeds, pullFaults' \in Nat, puller' \in PullerType, InSource'
    PROVE  NewsIInv'
<1>1. SuccessIsWhole'
  BY SuccessKept DEF NewsIInv
<1>2. OneAnalysis' /\ BatchOpen' /\ ThisOpen' /\ DoneAnalysed'
  BY AnalystKept
<1>3. NewsTypeOK'
  BY DEF NewsIInv, NewsTypeOK, PullerType, Grown
<1> QED
  BY <1>1, <1>2, <1>3 DEF NewsIInv

(* One that leaves both alone.                                             *)
LEMMA PullerMoves ==
    ASSUME NewsIInv, UNCHANGED <<edition, articles, whole, analyst>>,
           failing' \subseteq Feeds, pullFaults' \in Nat, puller' \in PullerType, InSource'
    PROVE  NewsIInv'
BY NothingWritten, PullerWrites

LEMMA MarkFailureKeeps ==
    ASSUME NewsIInv, Grown, AnalysesKept, puller.at \in {"fetch", "insert"}, MarkFailure, pullFaults' \in Nat
    PROVE  NewsIInv'
<1>1. puller.left \in Seq(Feeds) /\ puller.left # <<>>
  BY DEF NewsIInv, NewsTypeOK, InSource
<1>2. Head(puller.left) \in Feeds
  BY <1>1
<1>3. failing' \subseteq Feeds
  BY <1>2 DEF MarkFailure, NewsIInv, NewsTypeOK
<1>4. puller' \in PullerType /\ InSource'
  BY NextSourceKeeps DEF MarkFailure
<1> QED
  BY <1>3, <1>4, PullerWrites DEF MarkFailure

LEMMA ListSourcesKeeps ==
    ASSUME NewsIInv, ListSources PROVE NewsIInv'
<1>1. puller' = [at |-> "fetch", left |-> FeedOrder, got |-> {}, shown |-> 0]
  BY DEF ListSources, NoPull
<1>2. puller' \in PullerType /\ puller'.at = "fetch" /\ puller'.left = FeedOrder
  BY <1>1, FeedsTyped DEF PullerType
<1>3. InSource'
  BY <1>2, FeedsTyped DEF InSource
<1>4. failing \subseteq Feeds /\ pullFaults \in Nat
  BY DEF NewsIInv, NewsTypeOK
<1> QED
  BY <1>2, <1>3, <1>4, PullerMoves DEF ListSources

LEMMA FetchKeeps ==
    ASSUME NewsIInv, Fetch PROVE NewsIInv'
<1> DEFINE s == Head(puller.left)
<1>1. puller.left \in Seq(Feeds) /\ puller.left # <<>> /\ s \in Feeds /\ puller \in PullerType
  <2>1. puller.left \in Seq(Feeds) /\ puller.left # <<>> /\ puller \in PullerType
    BY DEF Fetch, NewsIInv, NewsTypeOK, InSource, PullerType
  <2> QED
    BY <2>1
<1>2. edition[s] \in DOMAIN Editions[s] /\ edition[s] \in Nat
  BY <1>1 DEF NewsIInv, NewsTypeOK
<1>3. puller' = [puller EXCEPT !.at = "insert", !.got = Fetched(s, edition[s]), !.shown = edition[s]]
  BY DEF Fetch
<1>4. Fetched(s, edition[s]) \subseteq Nat
  BY <1>1, <1>2, ItemTyped
<1> HIDE DEF s
<1>5. /\ puller'.at = "insert" /\ puller'.left = puller.left /\ puller'.got = Fetched(s, edition[s])
      /\ puller'.shown = edition[s] /\ puller' \in PullerType
  BY <1>1, <1>2, <1>3, <1>4 DEF PullerType
<1>6. InSource'
  BY <1>1, <1>2, <1>5 DEF InSource, s
<1>7. failing \subseteq Feeds /\ pullFaults \in Nat
  BY DEF NewsIInv, NewsTypeOK
<1> QED
  BY <1>5, <1>6, <1>7, PullerMoves DEF Fetch

(* The upsert of an item of the edition that was fetched.                  *)
LEMMA GotUpserted ==
    ASSUME NewsIInv, puller.at = "insert", NEW i \in puller.got, articles' = Upserted(Got(i))
    PROVE  Grown /\ AnalysesKept /\ \E k \in DOMAIN articles' : SameRow(articles'[k], Got(i))
<1>1. /\ Head(puller.left) \in Feeds /\ puller.shown \in DOMAIN Editions[Head(puller.left)]
      /\ i \in Fetched(Head(puller.left), puller.shown)
  BY DEF NewsIInv, NewsTypeOK, InSource
<1>2. Got(i) \in EveryArticle
  BY <1>1, ItemTyped DEF Got
<1> QED
  BY <1>2, UpsertGrows

LEMMA InsertArticleKeeps ==
    ASSUME NewsIInv, InsertArticle PROVE NewsIInv'
<1> DEFINE s == Head(puller.left)  n == puller.shown
<1>1. PICK i \in puller.got :
        articles' = Upserted(Got(i)) /\ puller' = [puller EXCEPT !.got = @ \ {i}]
  BY DEF InsertArticle
<1>2. UNCHANGED <<edition, whole, failing, analyst, pullFaults>> /\ puller.at = "insert"
  BY DEF InsertArticle
<1>3. /\ puller.left \in Seq(Feeds) /\ puller.left # <<>> /\ n \in DOMAIN Editions[s]
      /\ puller.got \subseteq Fetched(s, n)
      /\ \A j \in Fetched(s, n) \ puller.got : RowOf(Got(j)) # {}
  BY <1>2 DEF NewsIInv, NewsTypeOK, InSource
<1>4. Grown /\ AnalysesKept /\ \E k \in DOMAIN articles' : SameRow(articles'[k], Got(i))
  BY <1>1, <1>2, GotUpserted
<1>5. /\ puller'.at = "insert" /\ puller'.left = puller.left /\ puller'.shown = n
      /\ puller'.got = puller.got \ {i} /\ puller' \in PullerType
  BY <1>1, <1>2 DEF NewsIInv, NewsTypeOK, PullerType
<1>6. InSource'
  <2>1. ASSUME NEW j \in Fetched(s, n) \ puller'.got
        PROVE  \E k \in DOMAIN articles' : SameRow(articles'[k], Item(s, n, j))
    <3>1. CASE j = i
      BY <1>4, <3>1 DEF Got
    <3>2. CASE j # i
      <4>1. RowOf(Got(j)) # {}
        BY <1>3, <1>5, <2>1, <3>2
      <4>2. \E k \in DOMAIN articles' : SameRow(articles'[k], Got(j))
        BY <1>4, <4>1, RowStays
      <4> QED
        BY <4>2 DEF Got
    <3> QED
      BY <3>1, <3>2
  <2>2. puller'.left # <<>> /\ puller'.got \subseteq Fetched(s, n)
    BY <1>3, <1>5
  <2> HIDE DEF s, n
  <2>3. Head(puller'.left) = s
    BY <1>5 DEF s
  <2> QED
    BY <1>3, <1>5, <2>1, <2>2, <2>3 DEF InSource, RowOf, Got
<1>7. failing' \subseteq Feeds /\ pullFaults' \in Nat
  BY <1>2 DEF NewsIInv, NewsTypeOK
<1> QED
  BY <1>2, <1>4, <1>5, <1>6, <1>7, PullerWrites

LEMMA MarkSuccessKeeps ==
    ASSUME NewsIInv, MarkSuccess PROVE NewsIInv'
<1> DEFINE s == Head(puller.left)  n == puller.shown
<1>1. /\ puller.at = "insert" /\ puller.got = {} /\ NextSource
      /\ whole' = [whole EXCEPT ![s] = n] /\ failing' \subseteq failing
      /\ UNCHANGED <<edition, articles, analyst, pullFaults>>
  BY DEF MarkSuccess
<1>2. /\ puller.left \in Seq(Feeds) /\ puller.left # <<>> /\ n \in DOMAIN Editions[s] /\ n \in Nat
      /\ \A i \in Fetched(s, n) : RowOf(Got(i)) # {}
  BY <1>1 DEF NewsIInv, NewsTypeOK, InSource
<1>3. s \in Feeds
  BY <1>2
<1>4. \A i \in Fetched(s, n) : RowOf(Item(s, n, i)) # {}
  BY <1>2 DEF Got
<1> HIDE DEF s, n
<1>5. whole' \in [Feeds -> Nat] /\ whole'[s] = n /\ \A q \in Feeds \ {s} : whole'[q] = whole[q]
  BY <1>1, <1>2, <1>3 DEF NewsIInv, NewsTypeOK
<1>6. SuccessIsWhole'
  <2>1. ASSUME NEW q \in Feeds, whole'[q] > 0, NEW i \in Fetched(q, whole'[q])
        PROVE  RowOf(Item(q, whole'[q], i)) # {}
    <3>1. CASE q = s
      BY <1>4, <1>5, <2>1, <3>1
    <3>2. CASE q # s
      BY <1>5, <2>1, <3>2 DEF NewsIInv, SuccessIsWhole
    <3> QED
      BY <3>1, <3>2
  <2> QED
    BY <1>1, <2>1 DEF SuccessIsWhole, RowOf
<1>7. puller' \in PullerType /\ InSource'
  BY <1>1, NextSourceKeeps
<1>8. OneAnalysis' /\ BatchOpen' /\ ThisOpen' /\ DoneAnalysed'
  BY <1>1, AnalystKept, NothingWritten
<1>9. NewsTypeOK'
  BY <1>1, <1>5, <1>7 DEF NewsIInv, NewsTypeOK, PullerType
<1> QED
  BY <1>6, <1>7, <1>8, <1>9 DEF NewsIInv

-----------------------------------------------------------------------------
(* The job that analyses.                                                  *)
LEMMA NoAnalysisTyped ==
    /\ NoAnalysis.at = "idle" /\ NoAnalysis.batch = {} /\ NoAnalysis.this = Nothing /\ NoAnalysis.done = <<>>
    /\ NoAnalysis \in AnalystType
BY DEF NoAnalysis, AnalystType

(* A step that leaves the sources and the job that pulls alone.            *)
LEMMA AnalystMoves ==
    ASSUME NewsIInv, UNCHANGED <<edition, whole, failing, puller>>, pullFaults' \in Nat,
           analyst' \in AnalystType, Grown,
           OneAnalysis', BatchOpen', ThisOpen', DoneAnalysed'
    PROVE  NewsIInv'
<1>1. SuccessIsWhole' /\ InSource'
  BY SuccessKept, SourceKept DEF NewsIInv
<1>2. NewsTypeOK'
  BY DEF NewsIInv, NewsTypeOK, AnalystType, Grown
<1> QED
  BY <1>1, <1>2 DEF NewsIInv

LEMMA ListPendingKeeps ==
    ASSUME NewsIInv, ListPending PROVE NewsIInv'
<1>1. UNCHANGED <<edition, articles, whole, failing, puller, pullFaults>>
      /\ analyst' = [at |-> "metadata", batch |-> Page, this |-> Nothing, done |-> <<>>]
  BY DEF ListPending, NoAnalysis
<1>2. ASSUME NEW a \in Page
      PROVE  /\ a \in ToAnalyse /\ a.id \in DOMAIN articles /\ ~articles[a.id].processed
             /\ a = [id |-> a.id, text |-> articles[a.id].text, date |-> articles[a.id].date]
  <2>1. PICK i \in {k \in DOMAIN articles : ~articles[k].processed} :
          a = [id |-> i, text |-> articles[i].text, date |-> articles[i].date]
    BY DEF Page, Pending
  <2>2. articles[i] \in ArticleRow /\ i \in Nat
    BY DEF NewsIInv, NewsTypeOK
  <2>3. articles[i].text \in Texts /\ articles[i].date \in Nat
    BY <2>2 DEF ArticleRow
  <2>4. a.id = i /\ a \in ToAnalyse
    BY <2>1, <2>2, <2>3 DEF ToAnalyse
  <2>5. i \in DOMAIN articles /\ ~articles[i].processed
    OBVIOUS
  <2> QED
    BY <2>1, <2>4, <2>5
<1> DEFINE page == Page
<1>3. page \subseteq ToAnalyse /\ \A a, b \in page : a.id = b.id => a = b
  <2>1. ASSUME NEW a \in Page, NEW b \in Page, a.id = b.id PROVE a = b
    <3>1. a = [id |-> a.id, text |-> articles[a.id].text, date |-> articles[a.id].date]
      BY <1>2
    <3>2. b = [id |-> b.id, text |-> articles[b.id].text, date |-> articles[b.id].date]
      BY <1>2
    <3> QED
      BY <2>1, <3>1, <3>2
  <2> QED
    BY <1>2, <2>1
<1>4. \A a \in page : a.id \in DOMAIN articles /\ ~articles[a.id].processed
  BY <1>2
<1>5. analyst' = [at |-> "metadata", batch |-> page, this |-> Nothing, done |-> <<>>]
  BY <1>1
<1> HIDE DEF page
<1>6. /\ analyst'.at = "metadata" /\ analyst'.batch = page /\ analyst'.done = <<>>
      /\ analyst' \in AnalystType
  BY <1>3, <1>5 DEF AnalystType
<1>7. Grown
  BY <1>1, NothingWritten
<1>8. OneAnalysis'
  BY <1>1 DEF NewsIInv, OneAnalysis
<1>9. BatchOpen' /\ ThisOpen' /\ DoneAnalysed'
  BY <1>1, <1>3, <1>4, <1>6 DEF BatchOpen, ThisOpen, DoneAnalysed
<1>10. pullFaults' \in Nat
  BY <1>1 DEF NewsIInv, NewsTypeOK
<1> QED
  BY <1>1, <1>6, <1>7, <1>8, <1>9, <1>10, AnalystMoves

(* What is written to the row of an article that is not processed.         *)
LEMMA MetaWritten ==
    ASSUME NewsIInv, NEW a \in ToAnalyse, a.id \in DOMAIN articles, ~articles[a.id].processed,
           articles' \in {articles, WithMeta(a)}
    PROVE  /\ Grown /\ OneAnalysis'
           /\ \A i \in DOMAIN articles : ~articles[i].processed => ~articles'[i].processed
           /\ \A i \in DOMAIN articles \ {a.id} : articles'[i] = articles[i]
           /\ articles' = WithMeta(a) => articles'[a.id].meta = a.text
<1> DEFINE r == [articles[a.id] EXCEPT !.meta = a.text]
<1>1. articles \in Seq(ArticleRow) /\ articles[a.id] \in ArticleRow /\ a.text \in Texts \cup {"none"}
  BY DEF NewsIInv, NewsTypeOK, ToAnalyse
<1>2. /\ r \in ArticleRow /\ r.ext = articles[a.id].ext /\ r.source = articles[a.id].source
      /\ r.meta = a.text /\ r.processed = articles[a.id].processed
  BY <1>1, AnalysedTyped, Zenon
<1>3. WithMeta(a) = [articles EXCEPT ![a.id] = r]
  BY DEF WithMeta
<1>4. r.processed # TRUE /\ ~r.processed
  BY <1>2, Zenon
<1> HIDE DEF r
<1>5. CASE articles' = articles
  BY <1>1, <1>5, <1>2, <1>3 DEF Grown, NewsIInv, OneAnalysis
<1>6. CASE articles' = WithMeta(a)
  <2>1. /\ articles' \in Seq(ArticleRow) /\ DOMAIN articles' = DOMAIN articles /\ articles'[a.id] = r
        /\ \A i \in DOMAIN articles \ {a.id} : articles'[i] = articles[i]
    BY <1>1, <1>2, <1>3, <1>6
  <2>2. Grown
    BY <1>2, <2>1 DEF Grown
  <2>3. OneAnalysis'
    BY <1>4, <2>1 DEF NewsIInv, OneAnalysis
  <2> QED
    BY <1>2, <1>4, <2>1, <2>2, <2>3
<1> QED
  BY <1>5, <1>6

LEMMA EntsWritten ==
    ASSUME NewsIInv, NEW a \in ToAnalyse, a.id \in DOMAIN articles, ~articles[a.id].processed,
           articles' \in {articles, WithEnts(a)}
    PROVE  /\ Grown /\ OneAnalysis'
           /\ \A i \in DOMAIN articles : ~articles[i].processed => ~articles'[i].processed
           /\ \A i \in DOMAIN articles \ {a.id} : articles'[i] = articles[i]
           /\ articles'[a.id].meta = articles[a.id].meta
           /\ articles' = WithEnts(a) => articles'[a.id].ents = a.text
<1> DEFINE r == [articles[a.id] EXCEPT !.ents = a.text]
<1>1. articles \in Seq(ArticleRow) /\ articles[a.id] \in ArticleRow /\ a.text \in Texts \cup {"none"}
  BY DEF NewsIInv, NewsTypeOK, ToAnalyse
<1>2. /\ r \in ArticleRow /\ r.ext = articles[a.id].ext /\ r.source = articles[a.id].source
      /\ r.ents = a.text /\ r.meta = articles[a.id].meta /\ r.processed = articles[a.id].processed
  BY <1>1, AnalysedTyped, Zenon
<1>3. WithEnts(a) = [articles EXCEPT ![a.id] = r]
  BY DEF WithEnts
<1>4. r.processed # TRUE /\ ~r.processed
  BY <1>2, Zenon
<1> HIDE DEF r
<1>5. CASE articles' = articles
  BY <1>1, <1>5, <1>2, <1>3 DEF Grown, NewsIInv, OneAnalysis
<1>6. CASE articles' = WithEnts(a)
  <2>1. /\ articles' \in Seq(ArticleRow) /\ DOMAIN articles' = DOMAIN articles /\ articles'[a.id] = r
        /\ \A i \in DOMAIN articles \ {a.id} : articles'[i] = articles[i]
    BY <1>1, <1>2, <1>3, <1>6
  <2>2. Grown
    BY <1>2, <2>1 DEF Grown
  <2>3. OneAnalysis'
    BY <1>4, <2>1 DEF NewsIInv, OneAnalysis
  <2> QED
    BY <1>2, <1>4, <2>1, <2>2, <2>3
<1> QED
  BY <1>5, <1>6

(* On to the next article, with no row at hand.                            *)
LEMMA NextArticleKeeps ==
    ASSUME NewsIInv, NEW batch \in SUBSET analyst.batch, NEW done \in Seq(Nat),
           NextArticle(batch, done), Grown,
           \A i \in DOMAIN articles : ~articles[i].processed => ~articles'[i].processed,
           \A k \in DOMAIN done :
               /\ done[k] \in DOMAIN articles'
               /\ articles'[done[k]].meta = articles'[done[k]].ents /\ articles'[done[k]].ents # "none"
               /\ \A a \in batch : a.id # done[k]
    PROVE  analyst' \in AnalystType /\ BatchOpen' /\ ThisOpen' /\ DoneAnalysed'
<1> DEFINE at == IF batch # {} THEN "metadata" ELSE IF done # <<>> THEN "mark" ELSE "idle"
<1>1. analyst' = [at |-> at, batch |-> batch, this |-> Nothing, done |-> done]
  BY DEF NextArticle
<1>2. at \in {"metadata", "mark", "idle"} /\ (at # "metadata" => batch = {}) /\ (at = "mark" => done # <<>>)
  OBVIOUS
<1>3. batch \subseteq ToAnalyse
  BY DEF NewsIInv, NewsTypeOK
<1> HIDE DEF at
<1>4. analyst'.at = at /\ analyst'.batch = batch /\ analyst'.done = done
  BY <1>1
<1>5. analyst' \in AnalystType
  BY <1>1, <1>2, <1>3 DEF AnalystType
<1>6. BatchOpen'
  BY <1>2, <1>4 DEF NewsIInv, BatchOpen, Grown
<1>7. ThisOpen' /\ DoneAnalysed'
  BY <1>2, <1>4 DEF ThisOpen, DoneAnalysed
<1> QED
  BY <1>5, <1>6, <1>7

(* The article whose metadata is written.                                  *)
LEMMA MetadataKeeps ==
    ASSUME NewsIInv, analyst.at = "metadata", NEW a \in analyst.batch,
           UNCHANGED <<edition, whole, failing, puller>>, pullFaults' \in Nat,
           \/ articles' = WithMeta(a) /\ analyst' = [analyst EXCEPT !.at = "entities", !.batch = @ \ {a}, !.this = a]
           \/ articles' \in {articles, WithMeta(a)} /\ NextArticle(analyst.batch \ {a}, analyst.done)
    PROVE  NewsIInv'
<1>1. a \in ToAnalyse /\ a.id \in DOMAIN articles /\ ~articles[a.id].processed
  BY DEF NewsIInv, NewsTypeOK, BatchOpen
<1>2. \A b \in analyst.batch \ {a} : b.id # a.id
  BY DEF NewsIInv, BatchOpen
<1>3. /\ Grown /\ OneAnalysis'
      /\ \A i \in DOMAIN articles : ~articles[i].processed => ~articles'[i].processed
      /\ \A i \in DOMAIN articles \ {a.id} : articles'[i] = articles[i]
      /\ articles' = WithMeta(a) => articles'[a.id].meta = a.text
  BY <1>1, MetaWritten
<1>4. /\ analyst.done \in Seq(Nat)
      /\ \A k \in DOMAIN analyst.done :
             /\ analyst.done[k] \in DOMAIN articles'
             /\ articles'[analyst.done[k]].meta = articles'[analyst.done[k]].ents
             /\ articles'[analyst.done[k]].ents # "none"
             /\ analyst.done[k] # a.id
             /\ \A b \in analyst.batch \ {a} : b.id # analyst.done[k]
  BY <1>3 DEF NewsIInv, NewsTypeOK, DoneAnalysed, Grown
<1>5. CASE NextArticle(analyst.batch \ {a}, analyst.done)
  <2>1. analyst' \in AnalystType /\ BatchOpen' /\ ThisOpen' /\ DoneAnalysed'
    BY <1>3, <1>4, <1>5, NextArticleKeeps
  <2> QED
    BY <1>3, <2>1, AnalystMoves
<1>6. CASE articles' = WithMeta(a) /\ analyst' = [analyst EXCEPT !.at = "entities", !.batch = @ \ {a}, !.this = a]
  <2>1. /\ analyst'.at = "entities" /\ analyst'.batch = analyst.batch \ {a} /\ analyst'.this = a
        /\ analyst'.done = analyst.done /\ analyst' \in AnalystType
    BY <1>1, <1>6 DEF NewsIInv, NewsTypeOK, AnalystType
  <2>2. BatchOpen'
    BY <1>3, <2>1 DEF NewsIInv, BatchOpen, Grown
  <2>3. ThisOpen'
    BY <1>1, <1>2, <1>3, <1>6, <2>1 DEF ThisOpen, Grown
  <2>4. DoneAnalysed'
    BY <1>4, <2>1 DEF DoneAnalysed
  <2> QED
    BY <1>3, <2>1, <2>2, <2>3, <2>4, AnalystMoves
<1> QED
  BY <1>5, <1>6

LEMMA EntitiesKeeps ==
    ASSUME NewsIInv, analyst.at = "entities",
           UNCHANGED <<edition, whole, failing, puller>>, pullFaults' \in Nat,
           \/ /\ articles' = WithEnts(analyst.this)
              /\ NextArticle(analyst.batch, Append(analyst.done, analyst.this.id))
           \/ /\ articles' \in {articles, WithEnts(analyst.this)}
              /\ NextArticle(analyst.batch, analyst.done)
    PROVE  NewsIInv'
<1> DEFINE a == analyst.this
<1>1. /\ a \in ToAnalyse /\ a.id \in DOMAIN articles /\ ~articles[a.id].processed /\ articles[a.id].meta = a.text
      /\ \A b \in analyst.batch : b.id # a.id
  BY DEF NewsIInv, ThisOpen
<1>2. a.id \in Nat /\ a.text # "none"
  BY <1>1, TextsTyped DEF ToAnalyse
<1>3. articles' \in {articles, WithEnts(a)}
  OBVIOUS
<1>4. /\ Grown /\ OneAnalysis'
      /\ \A i \in DOMAIN articles : ~articles[i].processed => ~articles'[i].processed
      /\ \A i \in DOMAIN articles \ {a.id} : articles'[i] = articles[i]
      /\ articles'[a.id].meta = articles[a.id].meta
      /\ articles' = WithEnts(a) => articles'[a.id].ents = a.text
  <2> HIDE DEF a
  <2> QED
    BY <1>1, <1>3, EntsWritten
<1>5. /\ analyst.done \in Seq(Nat)
      /\ \A k \in DOMAIN analyst.done :
             /\ analyst.done[k] \in DOMAIN articles'
             /\ articles'[analyst.done[k]].meta = articles'[analyst.done[k]].ents
             /\ articles'[analyst.done[k]].ents # "none"
             /\ \A b \in analyst.batch : b.id # analyst.done[k]
  <2>1. \A k \in DOMAIN analyst.done : analyst.done[k] # a.id
    BY DEF NewsIInv, DoneAnalysed
  <2> QED
    BY <1>4, <2>1 DEF NewsIInv, NewsTypeOK, DoneAnalysed, Grown
<1> DEFINE done == Append(analyst.done, a.id)
<1>6. CASE NextArticle(analyst.batch, analyst.done)
  <2>1. analyst' \in AnalystType /\ BatchOpen' /\ ThisOpen' /\ DoneAnalysed'
    BY <1>4, <1>5, <1>6, NextArticleKeeps
  <2> QED
    BY <1>4, <2>1, AnalystMoves
<1>7. CASE articles' = WithEnts(a) /\ NextArticle(analyst.batch, done)
  <2>1. done \in Seq(Nat) /\ \A k \in DOMAIN done : done[k] = a.id \/ (k \in DOMAIN analyst.done /\ done[k] = analyst.done[k])
    BY <1>2, <1>5
  <2>2. /\ a.id \in DOMAIN articles' /\ articles'[a.id].meta = articles'[a.id].ents
        /\ articles'[a.id].ents # "none"
    BY <1>1, <1>2, <1>4, <1>7 DEF Grown
  <2> HIDE DEF done, a
  <2>3. \A k \in DOMAIN done :
             /\ done[k] \in DOMAIN articles'
             /\ articles'[done[k]].meta = articles'[done[k]].ents /\ articles'[done[k]].ents # "none"
             /\ \A b \in analyst.batch : b.id # done[k]
    BY <1>1, <1>5, <2>1, <2>2
  <2>4. analyst' \in AnalystType /\ BatchOpen' /\ ThisOpen' /\ DoneAnalysed'
    BY <1>4, <1>7, <2>1, <2>3, NextArticleKeeps
  <2> QED
    BY <1>4, <2>4, AnalystMoves
<1> QED
  BY <1>6, <1>7

LEMMA MarkProcessedKeeps ==
    ASSUME NewsIInv, MarkProcessed PROVE NewsIInv'
<1> DEFINE i == Head(analyst.done)
           r == [articles[i] EXCEPT !.processed = TRUE]
<1>1. /\ analyst.at = "mark" /\ articles' = [articles EXCEPT ![i] = r]
      /\ analyst' = IF Len(analyst.done) = 1 THEN NoAnalysis ELSE [analyst EXCEPT !.done = Tail(@)]
      /\ UNCHANGED <<edition, whole, failing, puller, pullFaults>>
  BY DEF MarkProcessed
<1>2. analyst.done \in Seq(Nat) /\ analyst.done # <<>> /\ analyst.batch = {} /\ analyst \in AnalystType
  BY <1>1 DEF NewsIInv, NewsTypeOK, DoneAnalysed, BatchOpen, AnalystType
<1>3. 1 \in DOMAIN analyst.done /\ i = analyst.done[1]
  BY <1>2
<1>4. i \in DOMAIN articles /\ articles[i].meta = articles[i].ents /\ articles[i].ents # "none"
  BY <1>3 DEF NewsIInv, DoneAnalysed
<1>5. articles \in Seq(ArticleRow) /\ articles[i] \in ArticleRow
  BY <1>4 DEF NewsIInv, NewsTypeOK
<1>6. "none" \in Texts \cup {"none"}
  OBVIOUS
<1>7. /\ r \in ArticleRow /\ r.ext = articles[i].ext /\ r.source = articles[i].source
      /\ r.ents = articles[i].ents /\ r.meta = articles[i].meta
  BY <1>5, <1>6, AnalysedTyped, Zenon
<1> HIDE DEF r, i
<1>8. /\ articles' \in Seq(ArticleRow) /\ DOMAIN articles' = DOMAIN articles /\ articles'[i] = r
      /\ \A k \in DOMAIN articles \ {i} : articles'[k] = articles[k]
  BY <1>1, <1>4, <1>5, <1>7
<1>9. Grown
  BY <1>7, <1>8 DEF Grown
<1>10. OneAnalysis'
  BY <1>4, <1>7, <1>8 DEF NewsIInv, OneAnalysis
<1>11. \A k \in DOMAIN articles : articles'[k].meta = articles[k].meta /\ articles'[k].ents = articles[k].ents
  BY <1>7, <1>8
<1>12. analyst' \in AnalystType /\ BatchOpen' /\ ThisOpen' /\ DoneAnalysed'
  <2>1. CASE Len(analyst.done) = 1
    <3>1. analyst' = NoAnalysis
      BY <1>1, <2>1
    <3> QED
      BY <3>1, NoAnalysisTyped DEF BatchOpen, ThisOpen, DoneAnalysed
  <2>2. CASE Len(analyst.done) # 1
    <3>1. /\ Tail(analyst.done) \in Seq(Nat) /\ Tail(analyst.done) # <<>>
          /\ \A k \in DOMAIN Tail(analyst.done) :
                k + 1 \in DOMAIN analyst.done /\ Tail(analyst.done)[k] = analyst.done[k + 1]
      BY <1>2, <2>2, TailOfSeveral
    <3>6. /\ analyst'.at = "mark" /\ analyst'.done = Tail(analyst.done) /\ analyst'.batch = {}
          /\ analyst' \in AnalystType
      BY <1>1, <1>2, <2>2, <3>1 DEF AnalystType
    <3>7. BatchOpen' /\ ThisOpen'
      BY <3>6 DEF BatchOpen, ThisOpen
    <3>8. \A k \in DOMAIN analyst.done :
             /\ analyst.done[k] \in DOMAIN articles
             /\ articles[analyst.done[k]].meta = articles[analyst.done[k]].ents
             /\ articles[analyst.done[k]].ents # "none"
      BY DEF NewsIInv, DoneAnalysed
    <3>9. DoneAnalysed'
      <4>1. ASSUME NEW k \in DOMAIN analyst'.done
            PROVE  /\ analyst'.done[k] \in DOMAIN articles'
                   /\ articles'[analyst'.done[k]].meta = articles'[analyst'.done[k]].ents
                   /\ articles'[analyst'.done[k]].ents # "none"
        <5> DEFINE j == analyst.done[k + 1]
        <5>1. analyst'.done[k] = j /\ k + 1 \in DOMAIN analyst.done
          BY <3>1, <3>6
        <5>2. j \in DOMAIN articles /\ articles[j].meta = articles[j].ents /\ articles[j].ents # "none"
          BY <3>8, <5>1
        <5> HIDE DEF j
        <5> QED
          BY <1>8, <1>11, <5>1, <5>2
      <4> QED
        BY <3>1, <3>6, <4>1 DEF DoneAnalysed
    <3> QED
      BY <3>6, <3>7, <3>9
  <2> QED
    BY <2>1, <2>2
<1>13. pullFaults' \in Nat
  BY <1>1 DEF NewsIInv, NewsTypeOK
<1> QED
  BY <1>1, <1>9, <1>10, <1>12, <1>13, AnalystMoves

LEMMA StopAndStartKeeps ==
    ASSUME NewsIInv, StopAndStart PROVE NewsIInv'
<1>1. UNCHANGED <<edition, articles, whole, failing>> /\ pullFaults' \in Nat
      /\ puller' = NoPull /\ analyst' = NoAnalysis
  BY DEF StopAndStart, Fault, NewsIInv, NewsTypeOK
<1>2. InSource' /\ BatchOpen' /\ ThisOpen' /\ DoneAnalysed'
  BY <1>1, NoPullTyped, NoAnalysisTyped DEF InSource, BatchOpen, ThisOpen, DoneAnalysed
<1>3. SuccessIsWhole'
  BY <1>1, NothingWritten, SuccessKept DEF NewsIInv
<1>4. OneAnalysis'
  BY <1>1 DEF NewsIInv, OneAnalysis
<1>5. NewsTypeOK'
  BY <1>1, NoPullTyped, NoAnalysisTyped DEF NewsIInv, NewsTypeOK, PullerType, AnalystType
<1> QED
  BY <1>2, <1>3, <1>4, <1>5 DEF NewsIInv

LEMMA PublishKeeps ==
    ASSUME NewsIInv, NEW s \in Feeds, Publish(s) PROVE NewsIInv'
<1>1. UNCHANGED <<articles, whole, failing, puller, analyst, pullFaults>>
      /\ edition[s] < Len(Editions[s]) /\ edition' = [edition EXCEPT ![s] = @ + 1]
  BY DEF Publish
<1>2. Editions[s] \in Seq(Seq(FeedItem)) /\ edition \in [Feeds -> Nat] /\ edition[s] \in DOMAIN Editions[s]
  BY FeedsTyped DEF NewsIInv, NewsTypeOK
<1>3. edition[s] + 1 \in DOMAIN Editions[s] /\ edition[s] + 1 \in Nat
  BY <1>1, <1>2
<1>4. edition' \in [Feeds -> Nat] /\ \A q \in Feeds : edition'[q] \in DOMAIN Editions[q]
  BY <1>1, <1>2, <1>3 DEF NewsIInv, NewsTypeOK
<1>5. NewsTypeOK'
  BY <1>1, <1>4 DEF NewsIInv, NewsTypeOK
<1>6. OneAnalysis' /\ SuccessIsWhole' /\ InSource'
  BY <1>1, NothingWritten, SuccessKept, SourceKept, AnalystKept DEF NewsIInv
<1>7. BatchOpen' /\ ThisOpen' /\ DoneAnalysed'
  BY <1>1, NothingWritten, AnalystKept
<1> QED
  BY <1>5, <1>6, <1>7 DEF NewsIInv

LEMMA NewsInitHolds == NewsInit => NewsIInv
<1> SUFFICES ASSUME NewsInit PROVE NewsIInv
  OBVIOUS
<1>1. \A s \in Feeds : 1 \in DOMAIN Editions[s]
  <2>1. \A s \in Feeds : Editions[s] # <<>> /\ Editions[s] \in Seq(Seq(FeedItem))
    BY FeedsTyped
  <2> QED
    BY <2>1
<1>2. NewsTypeOK
  BY <1>1, NoPullTyped, NoAnalysisTyped DEF NewsInit, NewsTypeOK, PullerType, AnalystType
<1>3. OneAnalysis /\ SuccessIsWhole
  BY DEF NewsInit, OneAnalysis, SuccessIsWhole
<1>4. InSource /\ BatchOpen /\ ThisOpen /\ DoneAnalysed
  BY NoPullTyped, NoAnalysisTyped DEF NewsInit, InSource, BatchOpen, ThisOpen, DoneAnalysed
<1> QED
  BY <1>2, <1>3, <1>4 DEF NewsIInv

LEMMA NewsInvariance == NewsSpec => []NewsIInv
<1>1. NewsIInv /\ [NewsNext]_newsVars => NewsIInv'
  <2> SUFFICES ASSUME NewsIInv, [NewsNext]_newsVars PROVE NewsIInv'
    OBVIOUS
  <2>0. pullFaults \in Nat /\ (Fault => pullFaults' \in Nat)
    BY DEF NewsIInv, NewsTypeOK, Fault
  <2>1. ASSUME NEW s \in Feeds, Publish(s) PROVE NewsIInv'
    BY <2>1, PublishKeeps
  <2>2. CASE ListSources
    BY <2>2, ListSourcesKeeps
  <2>3. CASE Fetch
    BY <2>3, FetchKeeps
  <2>4. CASE InsertArticle
    BY <2>4, InsertArticleKeeps
  <2>5. CASE InsertRefused \/ FetchFails \/ InsertFails
    <3>1. puller.at \in {"fetch", "insert"} /\ MarkFailure /\ pullFaults' \in Nat
      BY <2>0, <2>5 DEF InsertRefused, FetchFails, InsertFails
    <3>2. Grown /\ AnalysesKept
      <4>1. CASE UNCHANGED articles
        BY <4>1, NothingWritten
      <4>2. CASE InsertFails
        BY <4>1, <4>2, GotUpserted DEF InsertFails
      <4> QED
        BY <2>5, <4>1, <4>2 DEF InsertRefused, FetchFails
    <3> QED
      BY <3>1, <3>2, MarkFailureKeeps
  <2>6. CASE MarkSuccess
    BY <2>6, MarkSuccessKeeps
  <2>7. CASE ListPending
    BY <2>7, ListPendingKeeps
  <2>8. CASE UpsertMetadata
    BY <2>0, <2>8, MetadataKeeps DEF UpsertMetadata
  <2>9. CASE ReplaceEntities
    BY <2>0, <2>9, EntitiesKeeps DEF ReplaceEntities
  <2>10. CASE AnalysisFails
    <3>1. pullFaults' \in Nat /\ UNCHANGED <<edition, whole, failing, puller>>
      BY <2>0, <2>10 DEF AnalysisFails
    <3>2. CASE analyst.at = "metadata"
      BY <2>10, <3>1, <3>2, MetadataKeeps DEF AnalysisFails
    <3>3. CASE analyst.at = "entities"
      BY <2>10, <3>1, <3>3, EntitiesKeeps DEF AnalysisFails
    <3> QED
      BY <2>10, <3>2, <3>3 DEF AnalysisFails
  <2>11. CASE MarkProcessed
    BY <2>11, MarkProcessedKeeps
  <2>12. CASE StopAndStart
    BY <2>12, StopAndStartKeeps
  <2>13. CASE UNCHANGED newsVars
    <3>1. UNCHANGED <<edition, articles, whole, analyst>> /\ UNCHANGED <<failing, pullFaults, puller>>
      BY <2>13 DEF newsVars
    <3>2. InSource'
      BY <3>1, NothingWritten, SourceKept DEF NewsIInv
    <3>3. failing' \subseteq Feeds /\ pullFaults' \in Nat /\ puller' \in PullerType
      BY <3>1 DEF NewsIInv, NewsTypeOK, PullerType
    <3> QED
      BY <3>1, <3>2, <3>3, PullerMoves
  <2> QED
    BY <2>1, <2>2, <2>3, <2>4, <2>5, <2>6, <2>7, <2>8, <2>9, <2>10, <2>11, <2>12, <2>13
       DEF NewsNext, PullStep, AnalystStep
<1> QED
  BY <1>1, NewsInitHolds, PTL DEF NewsSpec

(* Rows say what some source showed, and the two jobs hold places of the   *)
(* editions and articles of the table, for any feeds and editions          *)
(* (news/service.go RunOnce, news/ai/processor.go RunOnce).                *)
THEOREM NewsTypeCorrect == NewsSpec => []NewsTypeOK
<1>1. NewsIInv => NewsTypeOK
  BY DEF NewsIInv
<1> QED
  BY <1>1, NewsInvariance, PTL

(* An article counts as processed only with metadata and entities of one   *)
(* and the same analysis (UpsertMetadata, ReplaceEntities, MarkProcessed), *)
(* and a source as a success only with every article of that edition in the*)
(* table (InsertArticles, MarkSourceSuccess), for any feeds, editions,     *)
(* limits and faults.                                                      *)
THEOREM AnalysisAlwaysSound == NewsSpec => []AnalysisSound
<1>1. NewsIInv => AnalysisSound
  BY DEF NewsIInv, AnalysisSound
<1> QED
  BY <1>1, NewsInvariance, PTL

(***************************************************************************)
(* What is filed stays filed: a row keeps its article; once processed, its *)
(* analysis is final, however the article is edited afterwards; and only   *)
(* the marking of a batch makes a row processed.                           *)
(***************************************************************************)
Filed ==
    \A i \in DOMAIN articles :
        /\ i \in DOMAIN articles'
        /\ articles'[i].ext = articles[i].ext /\ articles'[i].source = articles[i].source
        /\ articles[i].processed =>
              /\ articles'[i].processed
              /\ articles'[i].meta = articles[i].meta /\ articles'[i].ents = articles[i].ents
        /\ ~articles[i].processed /\ articles'[i].processed => analyst.at = "mark"

LEMMA GrownIsFiled ==
    ASSUME NewsIInv, Grown, AnalysesKept PROVE Filed
BY DEF Grown, AnalysesKept, Filed

(* A row that is not processed is written to; the others stand.            *)
LEMMA OneRowFiled ==
    ASSUME Grown, NEW k \in DOMAIN articles, ~articles[k].processed, ~articles'[k].processed,
           \A i \in DOMAIN articles \ {k} : articles'[i] = articles[i]
    PROVE  Filed
BY DEF Grown, Filed

LEMMA NewsStepFiles ==
    ASSUME NewsIInv, [NewsNext]_newsVars PROVE Filed
<1>1. CASE UNCHANGED articles
  BY <1>1, NothingWritten, GrownIsFiled
<1>2. ASSUME puller.at = "insert", NEW i \in puller.got, articles' = Upserted(Got(i))
      PROVE  Filed
  BY <1>2, GotUpserted, GrownIsFiled
<1>3. ASSUME analyst.at = "metadata", NEW a \in analyst.batch, articles' \in {articles, WithMeta(a)}
      PROVE  Filed
  <2>1. a \in ToAnalyse /\ a.id \in DOMAIN articles /\ ~articles[a.id].processed
    BY DEF NewsIInv, NewsTypeOK, BatchOpen
  <2>2. /\ Grown /\ ~articles'[a.id].processed
        /\ \A i \in DOMAIN articles \ {a.id} : articles'[i] = articles[i]
    BY <1>3, <2>1, MetaWritten
  <2> QED
    BY <2>1, <2>2, OneRowFiled
<1>4. ASSUME analyst.at = "entities", articles' \in {articles, WithEnts(analyst.this)}
      PROVE  Filed
  <2> DEFINE a == analyst.this
  <2>1. a \in ToAnalyse /\ a.id \in DOMAIN articles /\ ~articles[a.id].processed
    BY <1>4 DEF NewsIInv, ThisOpen
  <2> HIDE DEF a
  <2>2. /\ Grown /\ ~articles'[a.id].processed
        /\ \A i \in DOMAIN articles \ {a.id} : articles'[i] = articles[i]
    BY <1>4, <2>1, EntsWritten DEF a
  <2> QED
    BY <2>1, <2>2, OneRowFiled
<1>5. CASE MarkProcessed
  <2> DEFINE k == Head(analyst.done)
             r == [articles[k] EXCEPT !.processed = TRUE]
  <2>1. analyst.at = "mark" /\ articles' = [articles EXCEPT ![k] = r]
    BY <1>5 DEF MarkProcessed
  <2>2. k \in DOMAIN articles
    BY <2>1 DEF NewsIInv, NewsTypeOK, DoneAnalysed
  <2>3. articles \in Seq(ArticleRow) /\ articles[k] \in ArticleRow
    BY <2>2 DEF NewsIInv, NewsTypeOK
  <2>4. /\ r.ext = articles[k].ext /\ r.source = articles[k].source /\ r.processed = TRUE
        /\ r.meta = articles[k].meta /\ r.ents = articles[k].ents
    BY <2>3 DEF ArticleRow
  <2> HIDE DEF r, k
  <2>5. /\ DOMAIN articles' = DOMAIN articles /\ articles'[k] = r
        /\ \A i \in DOMAIN articles \ {k} : articles'[i] = articles[i]
    BY <2>1, <2>2, <2>3
  <2> QED
    BY <2>1, <2>4, <2>5 DEF Filed
<1>6. \/ UNCHANGED articles \/ MarkProcessed
      \/ puller.at = "insert" /\ \E i \in puller.got : articles' = Upserted(Got(i))
      \/ analyst.at = "metadata" /\ \E a \in analyst.batch : articles' \in {articles, WithMeta(a)}
      \/ analyst.at = "entities" /\ articles' \in {articles, WithEnts(analyst.this)}
  BY DEF NewsNext, newsVars, Publish, PullStep, ListSources, Fetch, InsertArticle, InsertRefused, MarkFailure,
     MarkSuccess, FetchFails, InsertFails, AnalystStep, ListPending, UpsertMetadata, ReplaceEntities, AnalysisFails,
     StopAndStart
<1> QED
  BY <1>1, <1>2, <1>3, <1>4, <1>5, <1>6

(* What a processed article's metadata and entities say is final, whatever *)
(* edits, retries, crashes and later batches come (UpsertMetadata,         *)
(* ReplaceEntities, MarkProcessed of news/ai): the impact tracker reads    *)
(* them once.  No row is lost or becomes another article's (InsertArticles)*)
THEOREM AnalysisIsFinal == NewsSpec => [][Filed]_newsVars
<1>1. NewsIInv /\ [NewsNext]_newsVars => [Filed]_newsVars
  BY NewsStepFiles
<1> QED
  BY <1>1, NewsInvariance, PTL DEF NewsSpec

-----------------------------------------------------------------------------
(* The archive.                                                            *)

ExportedOnDrive == \A a \in DOMAIN exports : exports[a].path[1] = a /\ exports[a] \in drive

(* What is left of a listing is not exported, nor is the article at hand.  *)
ListingOpen ==
    /\ \A a \in archivist.left : a.id \in DOMAIN papers \ DOMAIN exports
    /\ \A a, b \in archivist.left : a.id = b.id => a = b

CurrentOpen ==
    /\ archivist.at \in {"upload", "record"} =>
           /\ Current \in DOMAIN papers \ DOMAIN exports
           /\ \A a \in archivist.left : a.id # Current
    /\ archivist.at = "record" => archivist.file \in drive

ArchiveIInv == ArchiveTypeOK /\ ExportedOnDrive /\ ListingOpen /\ CurrentOpen

(* Facts about the shape of a record of the job.                           *)
LEMMA RestingTyped ==
    /\ NoFile \in File
    /\ Resting.at = "idle" /\ Resting.left = {} /\ Resting.file = NoFile
    /\ Resting \in [at : {"idle", "load", "upload", "record"}, left : SUBSET Listing, file : File]
<1>1. NoFile \in File
  <2>1. FALSE \in BOOLEAN /\ <<0, "first">> \in Nat \X Titles
    BY DEF Titles
  <2> QED
    BY <2>1 DEF NoFile, File
<1> QED
  BY <1>1 DEF Resting

LEMMA ListedTyped ==
    ASSUME ArchiveTypeOK, NEW rows \in SUBSET DOMAIN papers
    PROVE  /\ Listed(rows) \subseteq Listing
           /\ \A a \in Listed(rows) : a.id \in rows
           /\ \A a, b \in Listed(rows) : a.id = b.id => a = b
<1>1. \A a \in rows : a \in Nat /\ papers[a].title \in Titles
  BY DEF ArchiveTypeOK, Paper
<1>2. \A x \in Listed(rows) : \E a \in rows : x = [id |-> a, title |-> papers[a].title]
  BY DEF Listed, FirstOf
<1>3. \A x \in Listed(rows) : x \in Listing /\ x.id \in rows /\ x.title = papers[x.id].title
  <2> TAKE x \in Listed(rows)
  <2>1. PICK a \in rows : x = [id |-> a, title |-> papers[a].title]
    BY <1>2
  <2>2. x.id = a /\ x.title = papers[a].title
    BY <2>1
  <2> QED
    BY <1>1, <2>1, <2>2 DEF Listing
<1>4. \A x \in Listed(rows) : x = [id |-> x.id, title |-> x.title]
  BY <1>2
<1> QED
  BY <1>3, <1>4

(* On to the next article: nothing is at hand, and the rest is still open. *)
LEMMA NextKeeps ==
    ASSUME ArchiveIInv, NEW left \in SUBSET archivist.left, NextPaper(left),
           UNCHANGED papers, ArchiveTypeOK', ExportedOnDrive',
           \A a \in left : a.id \notin DOMAIN exports'
    PROVE  ArchiveIInv'
<1>1. archivist'.at \in {"idle", "load"} /\ archivist'.left = left
  BY RestingTyped DEF NextPaper, Resting
<1>2. ListingOpen'
  BY <1>1 DEF ArchiveIInv, ListingOpen
<1>3. CurrentOpen'
  BY <1>1 DEF CurrentOpen
<1> QED
  BY <1>2, <1>3 DEF ArchiveIInv

LEMMA NextTyped ==
    ASSUME ArchiveTypeOK, NEW left \in SUBSET archivist.left, NextPaper(left)
    PROVE  archivist' \in [at : {"idle", "load", "upload", "record"}, left : SUBSET Listing, file : File]
<1>1. left \in SUBSET Listing
  BY DEF ArchiveTypeOK
<1> QED
  BY <1>1, RestingTyped DEF NextPaper, Resting

(* An upload loses no other article's file, and a row is of its file.      *)
LEMMA UploadedKeeps ==
    ASSUME ArchiveIInv, archivist.at = "upload", drive' = Uploaded(archivist.file), UNCHANGED exports
    PROVE  drive' \subseteq File /\ archivist.file \in drive' /\ ExportedOnDrive'
<1>1. archivist.file \in File
  BY DEF ArchiveIInv, ArchiveTypeOK
<1>2. \A a \in DOMAIN exports : exports[a].path # archivist.file.path
  BY DEF ArchiveIInv, ExportedOnDrive, CurrentOpen, Current
<1>3. drive \subseteq File
  BY DEF ArchiveIInv, ArchiveTypeOK
<1> QED
  BY <1>1, <1>2, <1>3 DEF Uploaded, ArchiveIInv, ExportedOnDrive

LEMMA RecordedKeeps ==
    ASSUME ArchiveIInv, archivist.at = "record", exports' = Recorded, UNCHANGED <<papers, drive>>
    PROVE  /\ DOMAIN exports' \subseteq DOMAIN papers' /\ exports' \in [DOMAIN exports' -> File]
           /\ ExportedOnDrive'
           /\ \A a \in DOMAIN exports : a \in DOMAIN exports' /\ exports'[a] = exports[a]
           /\ \A a \in archivist.left : a.id \notin DOMAIN exports'
<1>1. archivist.file \in File /\ archivist.file \in drive /\ archivist.file.path[1] = Current
  BY DEF ArchiveIInv, ArchiveTypeOK, CurrentOpen, Current
<1>2. Current \in DOMAIN papers \ DOMAIN exports /\ \A a \in archivist.left : a.id # Current
  BY DEF ArchiveIInv, CurrentOpen
<1>3. DOMAIN exports' = DOMAIN exports \cup {Current}
  BY DEF Recorded
<1>4. \A a \in DOMAIN exports' : exports'[a] = IF a = Current THEN archivist.file ELSE exports[a]
  BY DEF Recorded
<1>5. exports' = [a \in DOMAIN exports' |-> exports'[a]]
  BY DEF Recorded
<1> QED
  BY <1>1, <1>2, <1>3, <1>4, <1>5 DEF ArchiveIInv, ArchiveTypeOK, ExportedOnDrive, ListingOpen

LEMMA ArchiveInitHolds == ArchiveInit => ArchiveIInv
<1> SUFFICES ASSUME ArchiveInit PROVE ArchiveIInv
  OBVIOUS
<1>1. ArchiveTypeOK
  BY RestingTyped DEF ArchiveInit, ArchiveTypeOK
<1>2. ExportedOnDrive /\ ListingOpen /\ CurrentOpen
  BY RestingTyped DEF ArchiveInit, ExportedOnDrive, ListingOpen, CurrentOpen
<1> QED
  BY <1>1, <1>2 DEF ArchiveIInv

(* A step of the archive keeps the invariant, and what was exported.       *)
LEMMA ArchiveStepKeeps ==
    ASSUME ArchiveIInv, [ArchiveNext]_archiveVars
    PROVE  /\ ArchiveIInv'
           /\ \A a \in DOMAIN exports : a \in DOMAIN exports' /\ exports'[a] = exports[a]
<1> USE DraftsAssumption DEF DraftsAssumption
<1>0. ArchiveTypeOK /\ ExportedOnDrive /\ ListingOpen /\ CurrentOpen
  BY DEF ArchiveIInv
<1>1. ASSUME NEW a \in Drafts, Appear(a) \/ Change(a) PROVE ArchiveIInv' /\ UNCHANGED exports
  <2>1. UNCHANGED <<drive, exports, archivist, archiveFaults>>
    BY <1>1 DEF Appear, Change
  <2>2. DOMAIN papers \subseteq DOMAIN papers' /\ DOMAIN papers' \subseteq Nat
    BY <1>0, <1>1 DEF Appear, Change, ArchiveTypeOK
  <2>3. papers' \in [DOMAIN papers' -> Paper]
    <3>1. [title |-> "first", analysed |-> FALSE] \in Paper
      <4>1. FALSE \in BOOLEAN
        OBVIOUS
      <4> QED
        BY <4>1 DEF Paper, Titles
    <3>2. \A b \in DOMAIN papers : [papers[b] EXCEPT !.title = "edited"] \in Paper
      BY <1>0 DEF ArchiveTypeOK, Paper, Titles
    <3>3. \A b \in DOMAIN papers : [papers[b] EXCEPT !.analysed = TRUE] \in Paper
      <4>1. TRUE \in BOOLEAN
        OBVIOUS
      <4> QED
        BY <4>1, <1>0, Zenon DEF ArchiveTypeOK, Paper
    <3>4. CASE Appear(a)
      BY <1>0, <3>1, <3>4 DEF Appear, ArchiveTypeOK
    <3>5. CASE Change(a)
      BY <1>0, <3>2, <3>3, <3>5 DEF Change, ArchiveTypeOK
    <3> QED
      BY <1>1, <3>4, <3>5
  <2>4. ArchiveTypeOK'
    BY <1>0, <2>1, <2>2, <2>3 DEF ArchiveTypeOK
  <2>5. ExportedOnDrive' /\ ListingOpen' /\ CurrentOpen'
    BY <1>0, <2>1, <2>2 DEF ExportedOnDrive, ListingOpen, CurrentOpen, Current
  <2> QED
    BY <2>1, <2>4, <2>5 DEF ArchiveIInv
<1>2. CASE ListUnexported
  <2> DEFINE rows == DOMAIN papers \ DOMAIN exports
  <2>1. UNCHANGED <<papers, drive, exports, archiveFaults>>
    BY <1>2 DEF ListUnexported
  <2>2. archivist'.at = "load" /\ archivist'.left = Listed(rows) /\ archivist'.file = NoFile
        /\ archivist' = [at |-> "load", left |-> Listed(rows), file |-> NoFile]
    BY <1>2, RestingTyped DEF ListUnexported, Resting
  <2>a. /\ Listed(rows) \subseteq Listing
        /\ \A a \in Listed(rows) : a.id \in rows
        /\ \A a, b \in Listed(rows) : a.id = b.id => a = b
    <3>1. rows \in SUBSET DOMAIN papers
      OBVIOUS
    <3> HIDE DEF rows
    <3> QED
      BY <1>0, <3>1, ListedTyped
  <2>3. ArchiveTypeOK'
    BY <1>0, <2>1, <2>2, <2>a, RestingTyped DEF ArchiveTypeOK
  <2>4. ListingOpen'
    <3>1. papers' = papers /\ exports' = exports /\ archivist'.left = Listed(rows)
      BY <2>1, <2>2
    <3> HIDE DEF rows
    <3>2. \A a \in archivist'.left : a.id \in rows
      BY <2>a, <3>1
    <3>3. \A a, b \in archivist'.left : a.id = b.id => a = b
      BY <2>a, <3>1
    <3> QED
      BY <3>1, <3>2, <3>3 DEF ListingOpen, rows
  <2>5. ExportedOnDrive' /\ CurrentOpen'
    BY <1>0, <2>1, <2>2 DEF ExportedOnDrive, CurrentOpen
  <2> QED
    BY <2>1, <2>3, <2>4, <2>5 DEF ArchiveIInv
<1>3. CASE Render
  <2>1. PICK a \in archivist.left : archivist' = [at |-> "upload", left |-> archivist.left \ {a},
                 file |-> [path |-> <<a.id, a.title>>, analysed |-> papers[a.id].analysed]]
    BY <1>3 DEF Render
  <2>2. UNCHANGED <<papers, drive, exports, archiveFaults>>
    BY <1>3 DEF Render
  <2>3. a.id \in DOMAIN papers \ DOMAIN exports /\ a.id \in Nat /\ a.title \in Titles
    BY <1>0 DEF ListingOpen, ArchiveTypeOK, Listing
  <2>4. [path |-> <<a.id, a.title>>, analysed |-> papers[a.id].analysed] \in File
    <3>1. papers[a.id].analysed \in BOOLEAN
      BY <1>0, <2>3, Zenon DEF ArchiveTypeOK, Paper
    <3> QED
      BY <2>3, <3>1 DEF File
  <2>5. archivist'.at = "upload" /\ archivist'.left = archivist.left \ {a} /\ Current' = a.id
    BY <2>1 DEF Current
  <2>6. ArchiveTypeOK'
    <3>1. archivist.left \ {a} \in SUBSET Listing
      BY <1>0 DEF ArchiveTypeOK
    <3>2. archivist' \in [at : {"idle", "load", "upload", "record"}, left : SUBSET Listing, file : File]
      BY <2>1, <2>4, <3>1
    <3> QED
      BY <1>0, <2>2, <3>2 DEF ArchiveTypeOK
  <2>7. ExportedOnDrive' /\ ListingOpen' /\ CurrentOpen'
    BY <1>0, <2>2, <2>3, <2>5 DEF ExportedOnDrive, ListingOpen, CurrentOpen
  <2> QED
    BY <2>2, <2>6, <2>7 DEF ArchiveIInv
<1>4. CASE UploadFile
  <2>1. UNCHANGED <<papers, exports, archiveFaults>> /\ drive' = Uploaded(archivist.file)
        /\ archivist.at = "upload"
    BY <1>4 DEF UploadFile
  <2>2. archivist'.at = "record" /\ archivist'.left = archivist.left /\ archivist'.file = archivist.file
        /\ archivist' \in [at : {"idle", "load", "upload", "record"}, left : SUBSET Listing, file : File]
    BY <1>0, <1>4 DEF UploadFile, ArchiveTypeOK
  <2>3. drive' \subseteq File /\ archivist.file \in drive' /\ ExportedOnDrive'
    BY <2>1, UploadedKeeps
  <2>4. ArchiveTypeOK'
    BY <1>0, <2>1, <2>2, <2>3 DEF ArchiveTypeOK
  <2>5. ListingOpen' /\ CurrentOpen'
    BY <1>0, <2>1, <2>2, <2>3 DEF ListingOpen, CurrentOpen, Current
  <2> QED
    BY <2>1, <2>3, <2>4, <2>5 DEF ArchiveIInv
<1>5. CASE UpsertExport
  <2>1. /\ UNCHANGED <<papers, drive, archiveFaults>> /\ exports' = Recorded /\ archivist.at = "record"
        /\ NextPaper(archivist.left)
    BY <1>5 DEF UpsertExport
  <2>2. ArchiveTypeOK'
    BY <1>0, <2>1, RecordedKeeps, NextTyped DEF ArchiveTypeOK
  <2> QED
    BY <2>1, <2>2, RecordedKeeps, NextKeeps
<1>6. CASE UploadRefused \/ LoadFails
  <2>1. UNCHANGED <<papers, drive, exports>> /\ archiveFaults' \in Nat
    BY <1>0, <1>6 DEF UploadRefused, LoadFails, ArchiveFault, ArchiveTypeOK
  <2>2. PICK left \in SUBSET archivist.left : NextPaper(left)
    BY <1>6 DEF UploadRefused, LoadFails
  <2>3. ArchiveTypeOK'
    BY <1>0, <2>1, <2>2, NextTyped DEF ArchiveTypeOK
  <2>4. ExportedOnDrive'
    BY <1>0, <2>1 DEF ExportedOnDrive
  <2>5. \A a \in left : a.id \notin DOMAIN exports'
    BY <1>0, <2>1 DEF ListingOpen
  <2> QED
    BY <2>1, <2>2, <2>3, <2>4, <2>5, NextKeeps
<1>7. CASE ExportFails
  <2>1. UNCHANGED papers /\ NextPaper(archivist.left) /\ archiveFaults' \in Nat
    BY <1>0, <1>7 DEF ExportFails, ArchiveFault, ArchiveTypeOK
  <2>2. \/ UNCHANGED <<drive, exports>>
        \/ archivist.at = "upload" /\ drive' = Uploaded(archivist.file) /\ UNCHANGED exports
        \/ archivist.at = "record" /\ exports' = Recorded /\ UNCHANGED drive
    BY <1>7 DEF ExportFails
  <2>3. /\ drive' \subseteq File /\ ExportedOnDrive'
        /\ DOMAIN exports' \subseteq DOMAIN papers' /\ exports' \in [DOMAIN exports' -> File]
        /\ \A a \in DOMAIN exports : a \in DOMAIN exports' /\ exports'[a] = exports[a]
        /\ \A a \in archivist.left : a.id \notin DOMAIN exports'
    <3>1. CASE UNCHANGED <<drive, exports>>
      BY <1>0, <2>1, <3>1 DEF ExportedOnDrive, ListingOpen, ArchiveTypeOK
    <3>2. CASE archivist.at = "upload" /\ drive' = Uploaded(archivist.file) /\ UNCHANGED exports
      BY <1>0, <2>1, <3>2, UploadedKeeps DEF ListingOpen, ArchiveTypeOK
    <3>3. CASE archivist.at = "record" /\ exports' = Recorded /\ UNCHANGED drive
      BY <1>0, <2>1, <3>3, RecordedKeeps DEF ArchiveTypeOK
    <3> QED
      BY <2>2, <3>1, <3>2, <3>3
  <2>4. ArchiveTypeOK'
    BY <1>0, <2>1, <2>3, NextTyped DEF ArchiveTypeOK
  <2> QED
    BY <2>1, <2>3, <2>4, NextKeeps
<1>8. CASE ArchiveStops
  <2>1. UNCHANGED <<papers, drive, exports>> /\ archiveFaults' \in Nat /\ archivist' = Resting
    BY <1>0, <1>8 DEF ArchiveStops, ArchiveFault, ArchiveTypeOK
  <2>2. ArchiveTypeOK'
    BY <1>0, <2>1, RestingTyped DEF ArchiveTypeOK
  <2>3. ExportedOnDrive' /\ ListingOpen' /\ CurrentOpen'
    BY <1>0, <2>1, RestingTyped DEF ExportedOnDrive, ListingOpen, CurrentOpen
  <2> QED
    BY <2>1, <2>2, <2>3 DEF ArchiveIInv
<1>9. CASE UNCHANGED archiveVars
  BY <1>0, <1>9 DEF archiveVars, ArchiveIInv, ArchiveTypeOK, ExportedOnDrive, ListingOpen, CurrentOpen, Current
<1> QED
  BY <1>1, <1>2, <1>3, <1>4, <1>5, <1>6, <1>7, <1>8, <1>9 DEF ArchiveNext, ArchiveStep

LEMMA ArchiveInvariance == ArchiveSpec => []ArchiveIInv
<1>1. ArchiveIInv /\ [ArchiveNext]_archiveVars => ArchiveIInv'
  BY ArchiveStepKeeps
<1> QED
  BY <1>1, ArchiveInitHolds, PTL DEF ArchiveSpec

(* Exports are of articles there are, and the job lists articles with the  *)
(* titles they had (news/archive/store.go ListPendingArticles).            *)
THEOREM ArchiveTypeCorrect == ArchiveSpec => []ArchiveTypeOK
<1>1. ArchiveIInv => ArchiveTypeOK
  BY DEF ArchiveIInv
<1> QED
  BY <1>1, ArchiveInvariance, PTL

(* What a row of the exports names lies on the drive, and no row is ever   *)
(* replaced (news/archive/service.go exportArticle, store.go UpsertExport),*)
(* for any articles, whichever uploads are refused, however many faults.   *)
THEOREM ExportsAlwaysSound == ArchiveSpec => ExportsSound
<1> DEFINE Sound ==
        /\ \A a \in DOMAIN exports' : exports'[a] \in drive'
        /\ \A a \in DOMAIN exports : a \in DOMAIN exports' /\ exports'[a] = exports[a]
<1>1. ArchiveIInv /\ [ArchiveNext]_archiveVars => [Sound]_archiveVars
  <2> SUFFICES ASSUME ArchiveIInv, [ArchiveNext]_archiveVars PROVE Sound
    OBVIOUS
  <2>1. ExportedOnDrive'
    BY ArchiveStepKeeps DEF ArchiveIInv
  <2>2. \A a \in DOMAIN exports' : exports'[a] \in drive'
    BY <2>1 DEF ExportedOnDrive
  <2> QED
    BY <2>2, ArchiveStepKeeps
<1> QED
  BY <1>1, ArchiveInvariance, PTL DEF ArchiveSpec, ExportsSound

(***************************************************************************)
(* What keeps broken articles from holding up the others, but for the next *)
(* step's being taken: OthersExported without fairness.                    *)
(***************************************************************************)
Unexported == DOMAIN papers \ DOMAIN exports

(* An article takes three steps: rendered, uploaded, recorded.             *)
ExportStepsLeft ==
    3 * Cardinality(archivist.left)
        + (CASE archivist.at = "upload" -> 2 [] archivist.at = "record" -> 1 [] OTHER -> 0)

(* A run ends.  Without a fault a listed article that is not broken stays  *)
(* listed until it is at hand, and at hand until it is exported; and a run *)
(* lists one, if there is one and the broken are fewer than its limit.     *)
ExportHeadway ==
    /\ archivist.at # "idle" => archivist' = archivist \/ ExportStepsLeft' < ExportStepsLeft
    /\ archiveFaults' = archiveFaults =>
           /\ \A a \in archivist.left :
                 a.id \notin Broken => a \in archivist'.left \/ (archivist'.at = "upload" /\ Current' = a.id)
           /\ archivist.at \in {"upload", "record"} /\ Current \notin Broken =>
                 \/ Current \in DOMAIN exports'
                 \/ archivist'.at \in {"upload", "record"} /\ Current' = Current
    /\ ListUnexported /\ IsFiniteSet(Broken) /\ Cardinality(Broken) < ArchiveLimit /\ Unexported \ Broken # {} =>
           \E a \in archivist'.left : a.id \notin Broken

ListingFinite ==
    /\ IsFiniteSet(DOMAIN papers) /\ IsFiniteSet(archivist.left)
    /\ archivist.at = "idle" => archivist = Resting
    /\ archivist.at = "load" => archivist.left # {}

LEMMA LeftCounted ==
    ASSUME NEW left, IsFiniteSet(left)
    PROVE  /\ Cardinality(left) \in Nat
           /\ left # {} => Cardinality(left) >= 1
           /\ \A a \in left : /\ IsFiniteSet(left \ {a})
                              /\ Cardinality(left \ {a}) = Cardinality(left) - 1
<1>1. Cardinality(left) \in Nat /\ (Cardinality(left) = 0 <=> left = {})
  BY FS_CardinalityType, FS_EmptySet
<1>2. \A a \in left : IsFiniteSet(left \ {a}) /\ Cardinality(left \ {a}) = Cardinality(left) - 1
  BY FS_RemoveElement
<1> QED
  BY <1>1, <1>2

LEMMA LeastNumber ==
    ASSUME NEW T \in SUBSET Nat, T # {}
    PROVE  \E k \in T : \A j \in T : k <= j
<1>1. PICK x \in T : \A y \in T : ~ (<<y, x>> \in OpToRel(<, Nat))
  BY NatLessThanWellFounded, WFMin
<1>2. \A y \in T : <<y, x>> \in Nat \X Nat /\ <<y, x>>[1] = y /\ <<y, x>>[2] = x
  OBVIOUS
<1>3. \A y \in T : ~(y < x)
  BY <1>1, <1>2 DEF OpToRel
<1> QED
  BY <1>3

(* Whichever of a finite set of rows are broken, if they are fewer than a  *)
(* page holds, a row that is not is on the first page.                     *)
Queued(rows, ahead, bad, limit) ==
    /\ limit \in Nat
    /\ rows \ bad # {} /\ IsFiniteSet(rows)
    /\ IsFiniteSet(bad) /\ Cardinality(bad) < limit
    /\ \A x \in rows : ahead[x] \subseteq rows /\ x \notin ahead[x]
    /\ \A x \in rows : \A y \in ahead[x] : ahead[y] \subseteq ahead[x]

LEMMA FirstPageReaches ==
    ASSUME NEW rows, NEW ahead, NEW bad, NEW limit, Queued(rows, ahead, bad, limit)
    PROVE  \E x \in rows \ bad : Cardinality(ahead[x]) < limit
<1> USE DEF Queued
<1> DEFINE Good(x) == ahead[x] \ bad
           Sizes == {Cardinality(Good(x)) : x \in rows \ bad}
<1>1. \A x \in rows : IsFiniteSet(Good(x)) /\ Cardinality(Good(x)) \in Nat
  <2> TAKE x \in rows
  <2>1. Good(x) \in SUBSET rows
    OBVIOUS
  <2> QED
    BY <2>1, FS_Subset, FS_CardinalityType
<1>2. PICK k \in Sizes : \A j \in Sizes : k <= j
  <2>1. Sizes \in SUBSET Nat
    <3> SUFFICES ASSUME NEW k \in Sizes PROVE k \in Nat
      OBVIOUS
    <3>1. PICK x \in rows \ bad : k = Cardinality(Good(x))
      OBVIOUS
    <3> QED
      BY <1>1, <3>1
  <2>2. PICK x \in rows \ bad : TRUE
    OBVIOUS
  <2>3. Cardinality(Good(x)) \in Sizes
    BY <2>2
  <2> HIDE DEF Sizes
  <2> QED
    BY <2>1, <2>3, LeastNumber
<1>3. PICK x \in rows \ bad : k = Cardinality(Good(x))
  OBVIOUS
<1>4. ASSUME NEW y \in Good(x) PROVE FALSE
  <2>1. y \in rows \ bad
    OBVIOUS
  <2>2. Good(y) \in SUBSET Good(x) /\ Good(y) # Good(x)
    BY <1>4, <2>1
  <2>3. Cardinality(Good(y)) < Cardinality(Good(x))
    <3>1. Cardinality(Good(y)) <= Cardinality(Good(x)) /\ Cardinality(Good(y)) # Cardinality(Good(x))
      BY <1>1, <2>2, FS_Subset
    <3> QED
      BY <1>1, <2>1, <3>1
  <2>4. Cardinality(Good(y)) \in Sizes
    BY <2>1
  <2> HIDE DEF Sizes, Good
  <2> QED
    BY <1>1, <1>2, <1>3, <2>1, <2>3, <2>4
<1>5. ahead[x] \in SUBSET bad
  BY <1>4
<1>6. Cardinality(ahead[x]) <= Cardinality(bad) /\ IsFiniteSet(ahead[x])
  BY <1>5, FS_Subset
<1> QED
  BY <1>6, FS_CardinalityType

LEMMA ListReaches ==
    ASSUME ArchiveIInv, ListingFinite, NEW bad,
           IsFiniteSet(bad), Cardinality(bad) < ArchiveLimit, Unexported \ bad # {}
    PROVE  \E a \in Listed(Unexported) : a.id \notin bad
<1> DEFINE ahead == [a \in Unexported |-> {b \in Unexported : b > a}]
<1>1. Unexported \in SUBSET Nat /\ IsFiniteSet(Unexported)
  BY FS_Subset DEF ArchiveIInv, ArchiveTypeOK, ListingFinite, Unexported
<1>2. \A x \in Unexported : ahead[x] \subseteq Unexported /\ x \notin ahead[x]
  BY <1>1
<1>3. \A x \in Unexported : \A y \in ahead[x] : ahead[y] \subseteq ahead[x]
  <2> SUFFICES ASSUME NEW x \in Unexported, NEW y \in ahead[x], NEW z \in ahead[y] PROVE z \in ahead[x]
    OBVIOUS
  <2>1. y \in Unexported /\ y > x
    OBVIOUS
  <2>2. z \in Unexported /\ z > y
    BY <2>1
  <2>3. z > x
    BY <1>1, <2>1, <2>2
  <2> QED
    BY <2>2, <2>3
<1>4. PICK x \in Unexported \ bad : Cardinality(ahead[x]) < ArchiveLimit
  <2>1. ArchiveLimit \in Nat
    BY ArchiveLimitAssumption DEF ArchiveLimitAssumption
  <2>2. Unexported \ bad # {} /\ IsFiniteSet(bad) /\ Cardinality(bad) < ArchiveLimit
    OBVIOUS
  <2> HIDE DEF ahead
  <2>3. Queued(Unexported, ahead, bad, ArchiveLimit)
    BY <1>1, <1>2, <1>3, <2>1, <2>2 DEF Queued
  <2> QED
    BY <2>3, FirstPageReaches
<1>5. x \in FirstOf(Unexported)
  BY <1>4 DEF FirstOf
<1>6. [id |-> x, title |-> papers[x].title] \in Listed(Unexported)
  BY <1>5 DEF Listed
<1>7. [id |-> x, title |-> papers[x].title].id \notin bad
  BY <1>4
<1> QED
  BY <1>6, <1>7

LEMMA ListedFinite ==
    ASSUME NEW rows, IsFiniteSet(rows) PROVE IsFiniteSet(Listed(rows))
<1> DEFINE entry == [a \in FirstOf(rows) |-> [id |-> a, title |-> papers[a].title]]
<1>1. IsFiniteSet(FirstOf(rows))
  BY FS_Subset DEF FirstOf
<1>2. entry \in Surjection(FirstOf(rows), Listed(rows))
  BY DEF Surjection, Listed
<1> QED
  BY <1>1, <1>2, FS_Surjection

LEMMA NextPaperIs ==
    ASSUME NEW left, NextPaper(left)
    PROVE  /\ archivist'.left = left
           /\ archivist'.at = IF left = {} THEN "idle" ELSE "load"
<1>1. CASE left = {}
  BY <1>1, RestingTyped DEF NextPaper
<1>2. CASE left # {}
  BY <1>2, RestingTyped DEF NextPaper, Resting
<1> QED
  BY <1>1, <1>2

(* What each step of the job does to its place and its listing.            *)
LEMMA ArchivistMoves ==
    ASSUME ArchiveIInv, ListingFinite, ArchiveNext, archivist' # archivist
    PROVE  \/ /\ ListUnexported
              /\ archivist.at = "idle" /\ archivist'.at = "load"
              /\ archivist'.left = Listed(Unexported) /\ Unexported # {}
           \/ /\ archivist.at = "load" /\ archivist'.at = "upload"
              /\ \E a \in archivist.left : archivist'.left = archivist.left \ {a} /\ Current' = a.id
           \/ /\ archivist.at = "upload" /\ archivist'.at = "record"
              /\ archivist'.left = archivist.left /\ Current' = Current
           \/ /\ archivist.at \in {"upload", "record"}
              /\ archivist'.left = archivist.left
              /\ archivist'.at = IF archivist.left = {} THEN "idle" ELSE "load"
              /\ archiveFaults' = archiveFaults => Current \in Broken \/ Current \in DOMAIN exports'
           \/ /\ archivist.at = "load" /\ archiveFaults' = archiveFaults + 1
              /\ \E a \in archivist.left :
                    /\ archivist'.left = archivist.left \ {a}
                    /\ archivist'.at = IF archivist'.left = {} THEN "idle" ELSE "load"
           \/ /\ archivist.at # "idle" /\ archivist'.at = "idle" /\ archivist'.left = {}
              /\ archiveFaults' = archiveFaults + 1
<1>1. archivist.at \in {"idle", "load", "upload", "record"} /\ archiveFaults \in Nat
  BY DEF ArchiveIInv, ArchiveTypeOK
<1>2. CASE ListUnexported
  BY <1>2, RestingTyped DEF ListUnexported, Unexported, Resting
<1>3. CASE Render
  BY <1>3 DEF Render, Current
<1>4. CASE UploadFile
  <2>1. archivist.at = "upload" /\ archivist' = [archivist EXCEPT !.at = "record"]
    BY <1>4 DEF UploadFile
  <2>2. archivist'.at = "record" /\ archivist'.left = archivist.left /\ archivist'.file = archivist.file
    BY <2>1 DEF ArchiveIInv, ArchiveTypeOK
  <2> QED
    BY <2>1, <2>2 DEF Current
<1>5. CASE UpsertExport
  <2>1. Current \in DOMAIN exports'
    BY <1>5 DEF UpsertExport, Recorded
  <2> QED
    BY <1>5, <2>1, NextPaperIs DEF UpsertExport
<1>6. CASE UploadRefused
  BY <1>6, NextPaperIs DEF UploadRefused
<1>7. CASE LoadFails
  <2>1. PICK a \in archivist.left : NextPaper(archivist.left \ {a})
    BY <1>7 DEF LoadFails
  <2>2. archivist.at = "load" /\ archiveFaults' = archiveFaults + 1
    BY <1>7 DEF LoadFails, ArchiveFault
  <2> QED
    BY <2>1, <2>2, NextPaperIs
<1>8. CASE ExportFails
  <2>1. archivist.at \in {"upload", "record"} /\ archiveFaults' = archiveFaults + 1
        /\ NextPaper(archivist.left)
    BY <1>8 DEF ExportFails, ArchiveFault
  <2>2. archiveFaults' # archiveFaults
    BY <1>1, <2>1
  <2> QED
    BY <2>1, <2>2, NextPaperIs
<1>9. CASE ArchiveStops
  <2>1. archivist' = Resting /\ archiveFaults' = archiveFaults + 1
    BY <1>9 DEF ArchiveStops, ArchiveFault
  <2>2. archivist.at # "idle"
    BY <1>9 DEF ArchiveStops, ListingFinite
  <2> QED
    BY <2>1, <2>2, RestingTyped
<1>10. ASSUME NEW a \in Drafts, Appear(a) \/ Change(a) PROVE FALSE
  BY <1>10 DEF Appear, Change
<1> QED
  BY <1>2, <1>3, <1>4, <1>5, <1>6, <1>7, <1>8, <1>9, <1>10 DEF ArchiveNext, ArchiveStep

(* Whenever the job is idle it has forgotten its listing and its file.     *)
LEMMA ArchivistComesToRest ==
    ASSUME ArchiveIInv, ArchiveNext, archivist' # archivist, archivist'.at = "idle"
    PROVE  archivist' = Resting
<1>1. \A left : NextPaper(left) => archivist' = Resting
  BY NextPaperIs DEF NextPaper
<1>2. CASE ListUnexported \/ Render
  <2>1. ListUnexported => archivist'.at = "load"
    BY RestingTyped DEF ListUnexported, Resting
  <2>2. Render => archivist'.at = "upload"
    BY DEF Render
  <2> QED
    BY <1>2, <2>1, <2>2
<1>3. CASE UploadFile
  BY <1>3 DEF UploadFile, ArchiveIInv, ArchiveTypeOK
<1>4. CASE UpsertExport \/ UploadRefused \/ LoadFails \/ ExportFails
  BY <1>1, <1>4 DEF UpsertExport, UploadRefused, LoadFails, ExportFails
<1>5. CASE ArchiveStops
  BY <1>5 DEF ArchiveStops
<1>6. ASSUME NEW a \in Drafts, Appear(a) \/ Change(a) PROVE FALSE
  BY <1>6 DEF Appear, Change
<1> QED
  BY <1>2, <1>3, <1>4, <1>5, <1>6 DEF ArchiveNext, ArchiveStep

LEMMA ListingFiniteStep ==
    ASSUME ArchiveIInv, ListingFinite, [ArchiveNext]_archiveVars PROVE ListingFinite'
<1>0. IsFiniteSet(DOMAIN papers) /\ IsFiniteSet(archivist.left)
  BY DEF ListingFinite
<1>1. IsFiniteSet(DOMAIN papers')
  <2>1. CASE UNCHANGED papers
    BY <1>0, <2>1
  <2>2. ASSUME NEW a \in Drafts, Appear(a) \/ Change(a)
        PROVE  DOMAIN papers' \in {DOMAIN papers, DOMAIN papers \cup {a}}
    BY <2>2 DEF Appear, Change
  <2>3. CASE \E a \in Drafts : Appear(a) \/ Change(a)
    <3>1. PICK a \in Drafts : Appear(a) \/ Change(a)
      BY <2>3
    <3>2. IsFiniteSet(DOMAIN papers \cup {a})
      BY <1>0, FS_AddElement
    <3> QED
      BY <1>0, <2>2, <3>1, <3>2
  <2> QED
    BY <2>1, <2>3 DEF ArchiveNext, ArchiveStep, ListUnexported, Render, UploadFile, UpsertExport,
       UploadRefused, LoadFails, ExportFails, ArchiveStops, archiveVars
<1>2. CASE archivist' = archivist
  BY <1>1, <1>2 DEF ListingFinite
<1>3. CASE archivist' # archivist
  <2>1. ArchiveNext
    BY <1>3 DEF archiveVars
  <2>2. IsFiniteSet(archivist'.left)
    <3>1. IsFiniteSet(Listed(Unexported))
      BY <1>0, FS_Subset, ListedFinite DEF Unexported
    <3>2. \A a \in archivist.left : IsFiniteSet(archivist.left \ {a})
      BY <1>0, LeftCounted
    <3> QED
      BY <1>0, <1>3, <2>1, <3>1, <3>2, FS_EmptySet, ArchivistMoves
  <2>3. archivist'.at = "load" => archivist'.left # {}
    <3>1. Unexported # {} => Listed(Unexported) # {}
      <4> SUFFICES ASSUME Unexported # {} PROVE \E a \in Listed(Unexported) : a.id \notin {}
        OBVIOUS
      <4>1. IsFiniteSet({}) /\ Cardinality({}) < ArchiveLimit /\ Unexported \ {} # {}
        BY FS_EmptySet, ArchiveLimitAssumption DEF ArchiveLimitAssumption
      <4> QED
        BY <4>1, ListReaches
    <3> QED
      BY <1>3, <2>1, <3>1, ArchivistMoves
  <2>4. archivist'.at = "idle" => archivist' = Resting
    BY <1>3, <2>1, RestingTyped, ArchivistComesToRest
  <2> QED
    BY <1>1, <2>2, <2>3, <2>4 DEF ListingFinite
<1> QED
  BY <1>2, <1>3

LEMMA StepsCounted ==
    ASSUME ArchiveIInv, ListingFinite
    PROVE  /\ Cardinality(archivist.left) \in Nat
           /\ archivist.at \in {"idle", "load", "upload", "record"}
           /\ archivist.at = "idle" => ExportStepsLeft = 0
           /\ archivist.at = "load" =>
                 ExportStepsLeft = 3 * Cardinality(archivist.left) /\ Cardinality(archivist.left) >= 1
           /\ archivist.at = "upload" => ExportStepsLeft = 3 * Cardinality(archivist.left) + 2
           /\ archivist.at = "record" => ExportStepsLeft = 3 * Cardinality(archivist.left) + 1
<1>1. Cardinality(archivist.left) \in Nat /\ (archivist.left # {} => Cardinality(archivist.left) >= 1)
  BY LeftCounted DEF ListingFinite
<1>2. archivist.at \in {"idle", "load", "upload", "record"}
  BY DEF ArchiveIInv, ArchiveTypeOK
<1>3. archivist.at = "idle" => archivist.left = {} /\ Cardinality(archivist.left) = 0
  BY RestingTyped, FS_EmptySet DEF ListingFinite
<1>4. archivist.at = "load" => Cardinality(archivist.left) >= 1
  BY <1>1 DEF ListingFinite
<1>5. archivist.at = "idle" => ExportStepsLeft = 0
  BY <1>3 DEF ExportStepsLeft
<1>6. archivist.at = "load" => ExportStepsLeft = 3 * Cardinality(archivist.left)
  BY <1>1 DEF ExportStepsLeft
<1>7. archivist.at = "upload" => ExportStepsLeft = 3 * Cardinality(archivist.left) + 2
  BY <1>1 DEF ExportStepsLeft
<1>8. archivist.at = "record" => ExportStepsLeft = 3 * Cardinality(archivist.left) + 1
  BY <1>1 DEF ExportStepsLeft
<1> QED
  BY <1>1, <1>2, <1>4, <1>5, <1>6, <1>7, <1>8

LEMMA RunWears ==
    ASSUME ArchiveIInv, ListingFinite, ArchiveIInv', ListingFinite', ArchiveNext,
           archivist.at # "idle", archivist' # archivist
    PROVE  ExportStepsLeft' < ExportStepsLeft
<1> DEFINE n == Cardinality(archivist.left)
           m == Cardinality(archivist'.left)
<1>1. /\ n \in Nat
      /\ archivist.at = "load" => ExportStepsLeft = 3 * n /\ n >= 1
      /\ archivist.at = "upload" => ExportStepsLeft = 3 * n + 2
      /\ archivist.at = "record" => ExportStepsLeft = 3 * n + 1
  BY StepsCounted
<1>2. /\ m \in Nat
      /\ archivist'.at = "idle" => ExportStepsLeft' = 0
      /\ archivist'.at = "load" => ExportStepsLeft' = 3 * m
      /\ archivist'.at = "upload" => ExportStepsLeft' = 3 * m + 2
      /\ archivist'.at = "record" => ExportStepsLeft' = 3 * m + 1
  <2>1. m \in Nat
    BY LeftCounted DEF ListingFinite
  <2>2. ExportStepsLeft' = 3 * m + (CASE archivist'.at = "upload" -> 2 [] archivist'.at = "record" -> 1 [] OTHER -> 0)
    BY DEF ExportStepsLeft
  <2>3. archivist'.at = "idle" => m = 0
    BY RestingTyped, FS_EmptySet DEF ListingFinite
  <2> HIDE DEF m
  <2> QED
    BY <2>1, <2>2, <2>3
<1>3. archivist'.left = archivist.left => m = n
  OBVIOUS
<1>4. (\E a \in archivist.left : archivist'.left = archivist.left \ {a}) => m = n - 1
  BY LeftCounted DEF ListingFinite
<1>5. archivist.at \in {"load", "upload", "record"}
  BY StepsCounted
<1> HIDE DEF n, m
<1> QED
  BY <1>1, <1>2, <1>3, <1>4, <1>5, ArchivistMoves

(* A run of the archive ends, whatever fails; without a fault it exports   *)
(* all it lists but the broken; and as long as those are fewer than a run  *)
(* takes it lists others, if any are left (news/archive/service.go RunOnce,*)
(* store.go ListPendingArticles).  What OthersExported adds is that the    *)
(* next step is taken.                                                     *)
THEOREM RunsReachOthers ==
    ArchiveSpec => [](ExportStepsLeft \in Nat) /\ [][ExportHeadway]_archiveVars
<1>1. ArchiveInit => ListingFinite
  <2> SUFFICES ASSUME ArchiveInit PROVE ListingFinite
    OBVIOUS
  <2>1. DOMAIN papers = {}
    BY DEF ArchiveInit
  <2>2. archivist = Resting /\ archivist.left = {} /\ archivist.at = "idle"
    BY RestingTyped DEF ArchiveInit
  <2> QED
    BY <2>1, <2>2, FS_EmptySet DEF ListingFinite
<1>2. ArchiveIInv /\ ListingFinite /\ [ArchiveNext]_archiveVars => ListingFinite'
  BY ListingFiniteStep
<1>3. ArchiveIInv /\ ListingFinite => ExportStepsLeft \in Nat
  <2> SUFFICES ASSUME ArchiveIInv, ListingFinite PROVE ExportStepsLeft \in Nat
    OBVIOUS
  <2> DEFINE n == Cardinality(archivist.left)
  <2>1. /\ n \in Nat
        /\ ExportStepsLeft = 0 \/ ExportStepsLeft = 3 * n \/ ExportStepsLeft = 3 * n + 2 \/ ExportStepsLeft = 3 * n + 1
    BY StepsCounted
  <2> HIDE DEF n
  <2> QED
    BY <2>1
<1>4. ArchiveIInv /\ ListingFinite /\ ArchiveIInv' /\ ListingFinite' /\ [ArchiveNext]_archiveVars
          => [ExportHeadway]_archiveVars
  <2> SUFFICES ASSUME ArchiveIInv, ListingFinite, ArchiveIInv', ListingFinite', ArchiveNext
               PROVE  ExportHeadway
    BY DEF archiveVars
  <2>1. archivist.at # "idle" => archivist' = archivist \/ ExportStepsLeft' < ExportStepsLeft
    BY RunWears
  <2>2. archiveFaults \in Nat /\ archiveFaults' = archiveFaults => archiveFaults' # archiveFaults + 1
    OBVIOUS
  <2>3. archiveFaults' = archiveFaults =>
           /\ \A a \in archivist.left :
                 a.id \notin Broken => a \in archivist'.left \/ (archivist'.at = "upload" /\ Current' = a.id)
           /\ archivist.at \in {"upload", "record"} /\ Current \notin Broken =>
                 \/ Current \in DOMAIN exports'
                 \/ archivist'.at \in {"upload", "record"} /\ Current' = Current
    <3> SUFFICES ASSUME archiveFaults' = archiveFaults
                 PROVE  /\ \A a \in archivist.left :
                              a.id \notin Broken => a \in archivist'.left \/ (archivist'.at = "upload" /\ Current' = a.id)
                        /\ archivist.at \in {"upload", "record"} /\ Current \notin Broken =>
                              \/ Current \in DOMAIN exports'
                              \/ archivist'.at \in {"upload", "record"} /\ Current' = Current
      OBVIOUS
    <3>1. archiveFaults' # archiveFaults + 1
      BY <2>2 DEF ArchiveIInv, ArchiveTypeOK
    <3>2. CASE archivist' = archivist
      BY <3>2 DEF Current
    <3>3. CASE archivist' # archivist
      <4>1. archivist.at = "idle" => archivist.left = {}
        BY RestingTyped DEF ListingFinite
      <4> QED
        BY <3>1, <3>3, <4>1, ArchivistMoves
    <3> QED
      BY <3>2, <3>3
  <2>4. ListUnexported => archivist'.left = Listed(Unexported)
    BY RestingTyped DEF ListUnexported, Unexported, Resting
  <2> QED
    BY <2>1, <2>3, <2>4, ListReaches DEF ExportHeadway
<1> QED
  BY <1>1, <1>2, <1>3, <1>4, ArchiveInvariance, PTL DEF ArchiveSpec

-----------------------------------------------------------------------------
(* The impact on prices.                                                   *)

AtRow == tracker.at \in {"base", "1h", "4h", "24h", "history"}

(* What is left of the candidates has no price yet and an analysis.        *)
CandidatesOpen ==
    /\ tracker.at = "candidates" \/ tracker.todo = {}
    /\ \A c \in tracker.todo :
          /\ stories[c.key[1]].processed /\ c.key[2] \in stories[c.key[1]].coins
          /\ Unpriced(c.key)
    /\ \A c, d \in tracker.todo : c.key = d.key => c = d

(* No window is filled before the price at the publication is.             *)
BaseFirst ==
    \A p \in DOMAIN impact : \A w \in Windows : impact[p].at[w] # NoPrice => impact[p].base # NoPrice

(* The rows still to be worked at are as they were read.                   *)
RowsCurrent ==
    \A r \in tracker.rows : r.key # This.key /\ r.key \in DOMAIN impact /\ r.row = impact[r.key]

(* The row at hand is as the table has it, but for what failed.            *)
ThisCurrent ==
    IF AtRow
    THEN /\ This.key \in DOMAIN impact
         /\ This.row.published = impact[This.key].published /\ This.row.base = impact[This.key].base
         /\ tracker.at # "base" => This.row.base # NoPrice
         /\ \A w \in Windows : This.row.at[w] = impact[This.key].at[w] \/ This.key \in unrecorded
    ELSE This = NoRow /\ tracker.rows = {}

ImpactIInv ==
    /\ ImpactTypeOK
    /\ SnapshotsAligned /\ BaseNotEarly /\ ImpactBacked /\ CompletedRecorded
    /\ CandidatesOpen /\ BaseFirst /\ RowsCurrent /\ ThisCurrent

TrackerType ==
    [at : {"idle", "candidates", "base", "1h", "4h", "24h", "history"},
     todo : SUBSET [key : Pairs, date : Nat], rows : SUBSET KeyedRow,
     this : KeyedRow \cup {NoRow}, now : Nat]

USE MentionsAssumption, DatesAssumption DEF MentionsAssumption, DatesAssumption

LEMMA NewImpactTyped ==
    ASSUME NEW date \in Nat, NEW price \in Nat
    PROVE  NewImpact(date, price) \in ImpactRow
BY DEF NewImpact, ImpactRow, NoPrice, Windows

LEMMA NoTrackTyped ==
    /\ NoTrack.at = "idle" /\ NoTrack.todo = {} /\ NoTrack.rows = {} /\ NoTrack.this = NoRow
    /\ NoTrack \in TrackerType
    /\ NoRow.key = <<0, 0>> /\ NoRow.key \notin Pairs
<1>1. <<0, 0>> \notin Pairs
  BY DEF Pairs
<1> QED
  BY <1>1 DEF NoTrack, NoRow, TrackerType

LEMMA ResolveTyped ==
    ASSUME NEW coin, NEW time \in Nat
    PROVE  Resolve(coin, time) \in Nat /\ Resolve(coin, time) \in {NoPrice, time}
BY DEF Resolve, NoPrice

LEMMA DatesTyped ==
    ASSUME NEW a \in Stories
    PROVE  Head(Dates[a]) \in Nat /\ Range(Dates[a]) \subseteq Nat
<1>1. Dates[a] \in Seq(Nat) /\ Dates[a] # <<>>
  OBVIOUS
<1> QED
  BY <1>1 DEF Range

LEMMA RowRewritten ==
    ASSUME NEW r \in ImpactRow, NEW date, NEW price
    PROVE  [[r EXCEPT !.published = date] EXCEPT !.base = price]
              = [published |-> date, base |-> price, at |-> r.at]
<1>1. PICK x \in Nat, y \in Nat, z \in [Windows -> Nat] : r = [published |-> x, base |-> y, at |-> z]
  BY DEF ImpactRow
<1>2. [r EXCEPT !.published = date] = [published |-> date, base |-> y, at |-> z]
  BY <1>1
<1>3. [[published |-> date, base |-> y, at |-> z] EXCEPT !.base = price] = [published |-> date, base |-> price, at |-> z]
  OBVIOUS
<1> QED
  BY <1>1, <1>2, <1>3

(* The upsert of a row that has no price: no other row changes, this one   *)
(* keeps its windows empty and takes a date that is not later.             *)
LEMMA WithCandidateRow ==
    ASSUME ImpactIInv, NEW p \in Pairs, NEW date \in Nat, NEW price \in {NoPrice, date}, Unpriced(p),
           impact' = WithCandidate(p, date, price)
    PROVE  /\ DOMAIN impact' = DOMAIN impact \cup {p}
           /\ impact' \in [DOMAIN impact' -> ImpactRow]
           /\ \A q \in DOMAIN impact \ {p} : impact'[q] = impact[q]
           /\ \A w \in Windows : impact'[p].at[w] = NoPrice
           /\ impact'[p].published <= date /\ impact'[p].base = price
           /\ p \in DOMAIN impact /\ date = impact[p].published => impact'[p].published = date
<1>0. NoPrice = 0 /\ price \in Nat
  BY DEF NoPrice
<1>1. CASE p \in DOMAIN impact
  <2>1. impact[p] \in ImpactRow /\ impact[p].base = NoPrice /\ \A w \in Windows : impact[p].at[w] = NoPrice
    BY <1>1 DEF ImpactIInv, ImpactTypeOK, BaseFirst, Unpriced
  <2> DEFINE row == [published |-> IF date < impact[p].published THEN date ELSE impact[p].published,
                     base |-> price, at |-> impact[p].at]
  <2>2. row \in ImpactRow
    BY <1>0, <2>1 DEF ImpactRow
  <2>3. impact' = [impact EXCEPT ![p] = row]
    <3>1. impact' = [impact EXCEPT ![p].published = IF date < @ THEN date ELSE @,
                                   ![p].base = IF @ = NoPrice THEN price ELSE @]
      BY <1>1 DEF WithCandidate
    <3>2. row = [[impact[p] EXCEPT !.published = IF date < impact[p].published THEN date ELSE impact[p].published]
                               EXCEPT !.base = IF impact[p].base = NoPrice THEN price ELSE impact[p].base]
      BY <2>1, RowRewritten
    <3>3. impact = [q \in DOMAIN impact |-> impact[q]]
      BY DEF ImpactIInv, ImpactTypeOK
    <3> QED
      BY <1>1, <3>1, <3>2, <3>3
  <2>4. row.base = price /\ row.at = impact[p].at
        /\ row.published = (IF date < impact[p].published THEN date ELSE impact[p].published)
    OBVIOUS
  <2>5. impact[p].published \in Nat
    BY <2>1 DEF ImpactRow
  <2> HIDE DEF row
  <2>6. DOMAIN impact' = DOMAIN impact /\ impact'[p] = row /\ impact' \in [DOMAIN impact -> ImpactRow]
        /\ \A q \in DOMAIN impact \ {p} : impact'[q] = impact[q]
    BY <1>1, <2>2, <2>3 DEF ImpactIInv, ImpactTypeOK
  <2>7. DOMAIN impact' = DOMAIN impact \cup {p} /\ impact' \in [DOMAIN impact' -> ImpactRow]
    BY <1>1, <2>6
  <2>8. impact'[p].published = (IF date < impact[p].published THEN date ELSE impact[p].published)
        /\ impact'[p].base = price /\ \A w \in Windows : impact'[p].at[w] = NoPrice
    BY <2>1, <2>4, <2>6
  <2>9. impact'[p].published <= date
        /\ (p \in DOMAIN impact /\ date = impact[p].published => impact'[p].published = date)
    BY <2>5, <2>8
  <2> QED
    BY <2>6, <2>7, <2>8, <2>9
<1>2. CASE p \notin DOMAIN impact
  <2>1. impact' = [q \in DOMAIN impact \cup {p} |-> IF q = p THEN NewImpact(date, price) ELSE impact[q]]
    BY <1>2 DEF WithCandidate
  <2>2. NewImpact(date, price) \in ImpactRow /\ NewImpact(date, price).published = date
        /\ NewImpact(date, price).base = price /\ \A w \in Windows : NewImpact(date, price).at[w] = NoPrice
    BY <1>0, NewImpactTyped DEF NewImpact
  <2>3. impact \in [DOMAIN impact -> ImpactRow]
    BY DEF ImpactIInv, ImpactTypeOK
  <2> HIDE DEF NewImpact
  <2>4. DOMAIN impact' = DOMAIN impact \cup {p} /\ impact'[p] = NewImpact(date, price)
        /\ impact' \in [DOMAIN impact' -> ImpactRow]
        /\ \A q \in DOMAIN impact \ {p} : impact'[q] = impact[q]
    BY <2>1, <2>2, <2>3
  <2> QED
    BY <1>2, <2>2, <2>4
<1> QED
  BY <1>1, <1>2

(* Such an upsert keeps what the rows promise.                             *)
LEMMA WithCandidateKeeps ==
    ASSUME ImpactIInv, NEW p \in Pairs, NEW date \in Nat, NEW price \in {NoPrice, date}, Unpriced(p),
           impact' = WithCandidate(p, date, price), stories[p[1]].processed, p[2] \in stories[p[1]].coins,
           UNCHANGED <<stories, history>>, unrecorded \subseteq unrecorded'
    PROVE  /\ SnapshotsAligned' /\ BaseNotEarly' /\ ImpactBacked' /\ BaseFirst'
           /\ DOMAIN impact' \subseteq Pairs
           /\ \A q \in DOMAIN impact' : Complete(impact'[q]) =>
                 q # p /\ q \in DOMAIN impact /\ Complete(impact[q]) /\ impact'[q] = impact[q]
<1>1. /\ DOMAIN impact' = DOMAIN impact \cup {p}
      /\ impact' \in [DOMAIN impact' -> ImpactRow]
      /\ \A q \in DOMAIN impact \ {p} : impact'[q] = impact[q]
      /\ \A w \in Windows : impact'[p].at[w] = NoPrice
      /\ impact'[p].published <= date /\ impact'[p].base = price
  BY WithCandidateRow
<1>2. SnapshotsAligned' /\ BaseFirst'
  BY <1>1 DEF ImpactIInv, SnapshotsAligned, BaseFirst
<1>3. BaseNotEarly'
  BY <1>1 DEF ImpactIInv, BaseNotEarly
<1>4. ImpactBacked' /\ DOMAIN impact' \subseteq Pairs
  BY <1>1 DEF ImpactIInv, ImpactBacked, ImpactTypeOK
<1>5. \A q \in DOMAIN impact' : Complete(impact'[q]) => q # p
  BY <1>1 DEF Complete, Windows
<1> QED
  BY <1>1, <1>2, <1>3, <1>4, <1>5

(* On to the next of rows that are as the table has them.                  *)
LEMMA TakeFromKeeps ==
    ASSUME NEW rows \in SUBSET KeyedRow, NEW time \in Nat, TakeFrom(rows, time),
           \A r \in rows : r.key \in DOMAIN impact' /\ r.row = impact'[r.key]
    PROVE  tracker' \in TrackerType /\ CandidatesOpen' /\ RowsCurrent' /\ ThisCurrent'
<1>1. CASE rows = {} /\ tracker' = NoTrack
  <2>1. tracker'.at = "idle" /\ tracker'.todo = {} /\ tracker'.rows = {} /\ This' = NoRow
    BY <1>1, NoTrackTyped DEF This
  <2> QED
    BY <1>1, <2>1, NoTrackTyped DEF CandidatesOpen, RowsCurrent, ThisCurrent, AtRow
<1>2. ASSUME NEW r \in rows,
             tracker' = [at |-> "base", todo |-> {}, rows |-> rows \ {r}, this |-> r, now |-> time]
      PROVE  tracker' \in TrackerType /\ CandidatesOpen' /\ RowsCurrent' /\ ThisCurrent'
  <2>1. tracker'.at = "base" /\ tracker'.todo = {} /\ tracker'.rows = rows \ {r} /\ This' = r
    BY <1>2 DEF This
  <2>2. tracker' \in TrackerType
    BY <1>2 DEF TrackerType
  <2>3. ASSUME NEW q \in rows \ {r} PROVE q.key # r.key
    <3>1. q = [key |-> q.key, row |-> q.row] /\ r = [key |-> r.key, row |-> r.row]
      BY DEF KeyedRow
    <3>2. q.key = r.key => q.row = r.row
      OBVIOUS
    <3> QED
      BY <3>1, <3>2
  <2>4. RowsCurrent'
    BY <2>1, <2>3 DEF RowsCurrent
  <2>5. ThisCurrent'
    BY <2>1 DEF ThisCurrent, AtRow
  <2> QED
    BY <2>1, <2>2, <2>4, <2>5 DEF CandidatesOpen
<1> QED
  BY <1>1, <1>2 DEF TakeFrom

LEMMA ImpactInitHolds == ImpactInit => ImpactIInv
<1> SUFFICES ASSUME ImpactInit PROVE ImpactIInv
  OBVIOUS
<1>1. stories \in [Stories -> [coins : SUBSET Coins, processed : BOOLEAN, date : Nat]]
  <2>1. \A a \in Stories : [coins |-> {}, processed |-> FALSE, date |-> Head(Dates[a])]
                              \in [coins : SUBSET Coins, processed : BOOLEAN, date : Nat]
    <3>1. FALSE \in BOOLEAN /\ {} \in SUBSET Coins
      OBVIOUS
    <3> QED
      BY <3>1, DatesTyped
  <2> QED
    BY <2>1 DEF ImpactInit
<1>2. ImpactTypeOK
  BY <1>1, NoTrackTyped DEF ImpactInit, ImpactTypeOK, TrackerType
<1>3. SnapshotsAligned /\ BaseNotEarly /\ ImpactBacked /\ CompletedRecorded /\ BaseFirst
  BY DEF ImpactInit, SnapshotsAligned, BaseNotEarly, ImpactBacked, CompletedRecorded, BaseFirst
<1>4. CandidatesOpen /\ RowsCurrent /\ ThisCurrent
  BY NoTrackTyped DEF ImpactInit, CandidatesOpen, RowsCurrent, ThisCurrent, AtRow, This
<1> QED
  BY <1>2, <1>3, <1>4 DEF ImpactIInv

(* What the other jobs do to articles takes no coin from a processed one.  *)
LEMMA OthersKeep ==
    ASSUME ImpactIInv, ClockTick \/ \E a \in Stories : Analyse(a) \/ Process(a) \/ Redate(a)
    PROVE  ImpactIInv'
<1> DEFINE Story == [coins : SUBSET Coins, processed : BOOLEAN, date : Nat]
           Kept == /\ stories' \in [Stories -> Story]
                   /\ \A a \in Stories : stories[a].processed =>
                         stories'[a].processed /\ stories'[a].coins = stories[a].coins
<1>1. UNCHANGED <<impact, history, tracker, unrecorded, impactFaults>> /\ now' \in Nat
  BY DEF Analyse, Process, Redate, ClockTick, ImpactIInv, ImpactTypeOK
<1>2. Kept
  <2>0. stories \in [Stories -> Story]
    BY DEF ImpactIInv, ImpactTypeOK
  <2>1. CASE ClockTick
    BY <2>0, <2>1 DEF ClockTick
  <2>2. ASSUME NEW a \in Stories, Analyse(a) PROVE Kept
    <3>1. PICK coins \in Mentions[a] : stories' = [stories EXCEPT ![a].coins = coins]
      BY <2>2 DEF Analyse
    <3>2. coins \in SUBSET Coins
      <4>1. \A c \in coins : c \in UNION Mentions[a]
        OBVIOUS
      <4> QED
        BY <4>1, Zenon DEF Coins
    <3>3. [stories[a] EXCEPT !.coins = coins] \in Story
      BY <2>0, <3>2, Zenon
    <3>4. ~stories[a].processed
      BY <2>2 DEF Analyse
    <3> HIDE DEF Story
    <3>5. stories' = [stories EXCEPT ![a] = [stories[a] EXCEPT !.coins = coins]]
      BY <3>1
    <3>6. stories' \in [Stories -> Story] /\ \A b \in Stories \ {a} : stories'[b] = stories[b]
      BY <2>0, <3>3, <3>5
    <3> QED
      BY <3>4, <3>6
  <2>3. ASSUME NEW a \in Stories, Process(a) PROVE Kept
    <3>1. stories' = [stories EXCEPT ![a] = [stories[a] EXCEPT !.processed = TRUE]]
      BY <2>3 DEF Process
    <3>2. [stories[a] EXCEPT !.processed = TRUE] \in Story
      <4>1. TRUE \in BOOLEAN
        OBVIOUS
      <4> QED
        BY <2>0, <4>1, Zenon
    <3>3. ~stories[a].processed
      BY <2>3 DEF Process
    <3> HIDE DEF Story
    <3>4. stories' \in [Stories -> Story] /\ \A b \in Stories \ {a} : stories'[b] = stories[b]
      BY <2>0, <3>1, <3>2
    <3> QED
      BY <3>3, <3>4
  <2>4. ASSUME NEW a \in Stories, Redate(a) PROVE Kept
    <3>1. PICK d \in Range(Dates[a]) : stories' = [stories EXCEPT ![a].date = d]
      BY <2>4 DEF Redate
    <3>2. d \in Nat
      BY DatesTyped
    <3>3. stories' = [stories EXCEPT ![a] = [stories[a] EXCEPT !.date = d]]
      BY <3>1
    <3>4. /\ [stories[a] EXCEPT !.date = d] \in Story
          /\ [stories[a] EXCEPT !.date = d].processed = stories[a].processed
          /\ [stories[a] EXCEPT !.date = d].coins = stories[a].coins
      BY <2>0, <3>2, Zenon
    <3> DEFINE new == [stories[a] EXCEPT !.date = d]
    <3>5. new \in Story /\ new.processed = stories[a].processed /\ new.coins = stories[a].coins
          /\ stories' = [stories EXCEPT ![a] = new]
      BY <3>3, <3>4
    <3> HIDE DEF Story, new
    <3>6. stories' \in [Stories -> Story] /\ stories'[a] = new /\ \A b \in Stories \ {a} : stories'[b] = stories[b]
      BY <2>0, <3>5
    <3>7. \A b \in Stories : stories[b].processed => stories'[b].processed /\ stories'[b].coins = stories[b].coins
      BY <3>5, <3>6, Zenon
    <3> QED
      BY <3>6, <3>7
  <2> HIDE DEF Kept
  <2> QED
    BY <2>1, <2>2, <2>3, <2>4
<1>3. ImpactTypeOK'
  BY <1>1, <1>2 DEF ImpactIInv, ImpactTypeOK
<1>4. SnapshotsAligned' /\ BaseNotEarly' /\ CompletedRecorded' /\ BaseFirst' /\ RowsCurrent' /\ ThisCurrent'
  BY <1>1 DEF ImpactIInv, SnapshotsAligned, BaseNotEarly, CompletedRecorded, BaseFirst, RowsCurrent,
              ThisCurrent, This, AtRow
<1>5. \A p \in Pairs : p[1] \in Stories
  BY DEF Pairs
<1>6. ImpactBacked'
  BY <1>1, <1>2, <1>5 DEF ImpactIInv, ImpactTypeOK, ImpactBacked
<1>7. CandidatesOpen'
  <2>1. \A c \in tracker.todo : c.key \in Pairs
    BY DEF ImpactIInv, ImpactTypeOK
  <2> QED
    BY <1>1, <1>2, <1>5, <2>1 DEF ImpactIInv, CandidatesOpen, Unpriced
<1> QED
  BY <1>3, <1>4, <1>6, <1>7 DEF ImpactIInv

LEMMA ListCandidatesKeeps ==
    ASSUME ImpactIInv, ListCandidates PROVE ImpactIInv'
<1> DEFINE pairs == {p \in AboutCoins(Processed) : Unpriced(p)}
           todo == {[key |-> p, date |-> stories[p[1]].date] : p \in FirstPairs(pairs)}
<1>1. UNCHANGED <<stories, impact, history, now, unrecorded, impactFaults>>
  BY DEF ListCandidates, ListThese
<1>2. tracker' = [NoTrack EXCEPT !.at = "candidates", !.todo = todo] /\ tracker.at = "idle"
  BY DEF ListCandidates, ListThese
<1>3. ASSUME NEW p \in FirstPairs(pairs)
      PROVE  p \in Pairs /\ stories[p[1]].processed /\ p[2] \in stories[p[1]].coins /\ Unpriced(p)
  <2>1. p \in AboutCoins(Processed) /\ Unpriced(p)
    BY DEF FirstPairs
  <2>2. PICK a \in Processed : p \in {<<a, c>> : c \in stories[a].coins}
    BY <2>1 DEF AboutCoins
  <2>3. a \in Stories /\ stories[a].processed
    BY <2>2 DEF Processed
  <2>4. PICK c \in stories[a].coins : p = <<a, c>>
    BY <2>2
  <2>5. c \in Coins
    BY <2>3, <2>4 DEF ImpactIInv, ImpactTypeOK
  <2> QED
    BY <2>1, <2>3, <2>4, <2>5 DEF Pairs
<1>4. ASSUME NEW p \in FirstPairs(pairs) PROVE stories[p[1]].date \in Nat
  BY <1>3 DEF ImpactIInv, ImpactTypeOK, Pairs
<1> HIDE DEF pairs
<1>5. todo \subseteq [key : Pairs, date : Nat]
  BY <1>3, <1>4
<1>6. \A c \in todo : stories[c.key[1]].processed /\ c.key[2] \in stories[c.key[1]].coins /\ Unpriced(c.key)
  BY <1>3
<1>7. \A c, d \in todo : c.key = d.key => c = d
  OBVIOUS
<1> HIDE DEF todo
<1>8. tracker'.at = "candidates" /\ tracker'.todo = todo /\ tracker'.rows = {} /\ This' = NoRow
      /\ tracker' \in TrackerType
  BY <1>2, <1>5, NoTrackTyped DEF NoTrack, TrackerType, This
<1>9. This = NoRow
  BY <1>2 DEF ImpactIInv, ThisCurrent, AtRow
<1>10. ImpactTypeOK'
  BY <1>1, <1>8 DEF ImpactIInv, ImpactTypeOK, TrackerType
<1>11. SnapshotsAligned' /\ BaseNotEarly' /\ CompletedRecorded' /\ BaseFirst' /\ ImpactBacked'
  BY <1>1, <1>8, <1>9 DEF ImpactIInv, SnapshotsAligned, BaseNotEarly, CompletedRecorded, BaseFirst, ImpactBacked
<1>12. CandidatesOpen'
  BY <1>1, <1>6, <1>7, <1>8 DEF CandidatesOpen, Unpriced
<1>13. RowsCurrent' /\ ThisCurrent'
  BY <1>8 DEF RowsCurrent, ThisCurrent, AtRow
<1> QED
  BY <1>10, <1>11, <1>12, <1>13 DEF ImpactIInv

LEMMA CandidateStepKeeps ==
    ASSUME ImpactIInv, UpsertCandidate \/ CandidateFails PROVE ImpactIInv'
<1>1. tracker.at = "candidates" /\ UNCHANGED <<stories, history, now, unrecorded>> /\ impactFaults' \in Nat
  BY DEF UpsertCandidate, CandidateFails, ImpactFault, ImpactIInv, ImpactTypeOK
<1>2. PICK c \in tracker.todo :
        /\ tracker' = [tracker EXCEPT !.todo = @ \ {c}]
        /\ \/ UNCHANGED impact
           \/ \E price \in {NoPrice, Resolve(c.key[2], c.date)} : impact' = WithCandidate(c.key, c.date, price)
  BY DEF UpsertCandidate, CandidateFails
<1>3. c.key \in Pairs /\ c.date \in Nat
  BY DEF ImpactIInv, ImpactTypeOK
<1>4. stories[c.key[1]].processed /\ c.key[2] \in stories[c.key[1]].coins /\ Unpriced(c.key)
  BY DEF ImpactIInv, CandidatesOpen
<1>5. /\ tracker'.at = "candidates" /\ tracker'.todo = tracker.todo \ {c}
      /\ This' = This /\ tracker'.rows = tracker.rows /\ tracker' \in TrackerType
  BY <1>1, <1>2 DEF ImpactIInv, ImpactTypeOK, TrackerType, This
<1>6. This = NoRow /\ tracker.rows = {}
  BY <1>1 DEF ImpactIInv, ThisCurrent, AtRow
<1>7. /\ SnapshotsAligned' /\ BaseNotEarly' /\ ImpactBacked' /\ BaseFirst' /\ CompletedRecorded'
      /\ DOMAIN impact' \subseteq Pairs /\ impact' \in [DOMAIN impact' -> ImpactRow]
      /\ \A q \in DOMAIN impact' : q # c.key => q \in DOMAIN impact /\ impact'[q] = impact[q]
  <2>1. CASE UNCHANGED impact
    BY <1>1, <1>5, <2>1 DEF ImpactIInv, ImpactTypeOK, SnapshotsAligned, BaseNotEarly, ImpactBacked, BaseFirst,
        CompletedRecorded
  <2>2. ASSUME NEW price \in {NoPrice, Resolve(c.key[2], c.date)}, impact' = WithCandidate(c.key, c.date, price)
        PROVE  <1>7!:
    <3>1. price \in {NoPrice, c.date}
      BY <1>3, ResolveTyped
    <3>2. /\ DOMAIN impact' = DOMAIN impact \cup {c.key} /\ impact' \in [DOMAIN impact' -> ImpactRow]
          /\ \A q \in DOMAIN impact \ {c.key} : impact'[q] = impact[q]
      BY <1>3, <1>4, <2>2, <3>1, WithCandidateRow
    <3>3. /\ SnapshotsAligned' /\ BaseNotEarly' /\ ImpactBacked' /\ BaseFirst'
          /\ DOMAIN impact' \subseteq Pairs
          /\ \A q \in DOMAIN impact' : Complete(impact'[q]) =>
                 q # c.key /\ q \in DOMAIN impact /\ Complete(impact[q]) /\ impact'[q] = impact[q]
      BY <1>1, <1>3, <1>4, <2>2, <3>1, WithCandidateKeeps
    <3>4. CompletedRecorded'
      BY <1>1, <1>5, <3>3 DEF ImpactIInv, CompletedRecorded
    <3> QED
      BY <3>2, <3>3, <3>4
  <2> QED
    BY <1>2, <2>1, <2>2
<1>8. ImpactTypeOK'
  BY <1>1, <1>5, <1>7 DEF ImpactIInv, ImpactTypeOK, TrackerType
<1>9. CandidatesOpen'
  <2>1. ASSUME NEW d \in tracker'.todo
        PROVE  d.key # c.key /\ stories[d.key[1]].processed /\ d.key[2] \in stories[d.key[1]].coins /\ Unpriced(d.key)
    BY <1>5 DEF ImpactIInv, CandidatesOpen
  <2>2. ASSUME NEW d \in tracker'.todo PROVE Unpriced(d.key)'
    BY <1>7, <2>1 DEF Unpriced
  <2>3. \A d, e \in tracker'.todo : d.key = e.key => d = e
    BY <1>5 DEF ImpactIInv, CandidatesOpen
  <2> QED
    BY <1>1, <1>5, <2>1, <2>2, <2>3 DEF CandidatesOpen
<1>10. RowsCurrent' /\ ThisCurrent'
  BY <1>5, <1>6 DEF RowsCurrent, ThisCurrent, AtRow
<1> QED
  BY <1>7, <1>8, <1>9, <1>10 DEF ImpactIInv

LEMMA ListPendingRowsKeeps ==
    ASSUME ImpactIInv, ListPendingRows PROVE ImpactIInv'
<1>1. /\ UNCHANGED <<stories, impact, history, now, unrecorded, impactFaults>>
      /\ TakeFrom(PendingRows, now) /\ tracker.at = "candidates"
  BY DEF ListPendingRows
<1>2. PendingRows \in SUBSET KeyedRow /\ \A r \in PendingRows : r.key \in DOMAIN impact' /\ r.row = impact'[r.key]
  BY <1>1 DEF PendingRows, Incomplete, ImpactIInv, ImpactTypeOK, KeyedRow
<1>3. tracker' \in TrackerType /\ CandidatesOpen' /\ RowsCurrent' /\ ThisCurrent'
  <2> now \in Nat
    BY DEF ImpactIInv, ImpactTypeOK
  <2> HIDE DEF PendingRows
  <2> QED
    BY <1>1, <1>2, TakeFromKeeps
<1>4. This.key \notin DOMAIN impact
  BY <1>1, NoTrackTyped DEF ImpactIInv, ImpactTypeOK, ThisCurrent, AtRow
<1>5. CompletedRecorded'
  BY <1>1, <1>4 DEF ImpactIInv, CompletedRecorded
<1>6. SnapshotsAligned' /\ BaseNotEarly' /\ ImpactBacked' /\ BaseFirst' /\ ImpactTypeOK'
  BY <1>1, <1>3 DEF ImpactIInv, SnapshotsAligned, BaseNotEarly, ImpactBacked, BaseFirst, ImpactTypeOK, TrackerType
<1> QED
  BY <1>3, <1>5, <1>6 DEF ImpactIInv

(* The row at hand, where the table has it.                                *)
LEMMA AtHand ==
    ASSUME ImpactIInv, AtRow
    PROVE  /\ This.key \in DOMAIN impact /\ This.key \in Pairs
           /\ This \in KeyedRow /\ This.row \in ImpactRow
           /\ This.row.published \in Nat /\ This.row.base \in Nat
           /\ This.row.published = impact[This.key].published
           /\ This.row.base = impact[This.key].base
           /\ This.row.base = NoPrice => Unpriced(This.key)
           /\ stories[This.key[1]].processed /\ This.key[2] \in stories[This.key[1]].coins
           /\ tracker.todo = {}
<1>1. This.key \in DOMAIN impact /\ This.key \in Pairs
  BY DEF ImpactIInv, ImpactTypeOK, ThisCurrent
<1>2. This \in KeyedRow
  BY <1>1, NoTrackTyped DEF ImpactIInv, ImpactTypeOK, This
<1>3. This.row \in ImpactRow
  BY <1>2 DEF KeyedRow
<1> QED
  BY <1>1, <1>2, <1>3 DEF ImpactIInv, ThisCurrent, Unpriced, ImpactBacked, CandidatesOpen, AtRow, ImpactRow

(* Only the place in the row changes.                                      *)
LEMMA OnInRow ==
    ASSUME ImpactIInv, HasBase \/ NotDue PROVE ImpactIInv'
<1>1. UNCHANGED <<stories, impact, history, now, unrecorded, impactFaults>>
  BY DEF HasBase, NotDue
<1>2. PICK at \in {"1h", "4h", "24h", "history"} : tracker' = [tracker EXCEPT !.at = at]
  BY DEF HasBase, NotDue, NextPoint
<1>3. AtRow /\ This.row.base # NoPrice
  BY DEF HasBase, NotDue, Window, AtRow, ImpactIInv, ThisCurrent
<1>4. /\ tracker'.at = at /\ tracker'.todo = tracker.todo /\ tracker'.rows = tracker.rows /\ This' = This
      /\ tracker' \in TrackerType
  BY <1>2 DEF ImpactIInv, ImpactTypeOK, TrackerType, This
<1>5. ImpactTypeOK'
  BY <1>1, <1>4 DEF ImpactIInv, ImpactTypeOK, TrackerType
<1>6. SnapshotsAligned' /\ BaseNotEarly' /\ ImpactBacked' /\ BaseFirst' /\ CompletedRecorded'
  BY <1>1, <1>4 DEF ImpactIInv, SnapshotsAligned, BaseNotEarly, ImpactBacked, BaseFirst, CompletedRecorded
<1>7. CandidatesOpen' /\ RowsCurrent' /\ ThisCurrent'
  BY <1>1, <1>3, <1>4, AtHand DEF ImpactIInv, CandidatesOpen, RowsCurrent, ThisCurrent, AtRow
<1> QED
  BY <1>5, <1>6, <1>7 DEF ImpactIInv

(* The late price goes to a row that has none.                             *)
LEMMA LateBaseKeeps ==
    ASSUME ImpactIInv, tracker.at = "base", This.row.base = NoPrice,
           impact' = WithCandidate(This.key, This.row.published, LateBase),
           UNCHANGED <<stories, history>>, unrecorded \subseteq unrecorded'
    PROVE  /\ SnapshotsAligned' /\ BaseNotEarly' /\ ImpactBacked' /\ BaseFirst'
           /\ DOMAIN impact' = DOMAIN impact /\ impact' \in [DOMAIN impact' -> ImpactRow]
           /\ \A q \in DOMAIN impact : Complete(impact'[q]) => q # This.key /\ Complete(impact[q])
           /\ \A q \in DOMAIN impact \ {This.key} : impact'[q] = impact[q]
           /\ impact'[This.key].published = This.row.published
           /\ impact'[This.key].base = LateBase
           /\ \A w \in Windows : impact'[This.key].at[w] = NoPrice /\ impact[This.key].at[w] = NoPrice
<1>1. AtRow
  BY DEF AtRow
<1> DEFINE p == This.key  d == This.row.published
<1>2. p \in Pairs /\ p \in DOMAIN impact /\ d \in Nat /\ Unpriced(p) /\ d = impact[p].published
      /\ stories[p[1]].processed /\ p[2] \in stories[p[1]].coins /\ impact[p].base = NoPrice
  BY <1>1, AtHand
<1>3. LateBase \in {NoPrice, d}
  BY <1>2, ResolveTyped DEF LateBase
<1>4. impact' = WithCandidate(p, d, LateBase)
  OBVIOUS
<1>5. \A w \in Windows : impact[p].at[w] = NoPrice
  BY <1>2 DEF ImpactIInv, BaseFirst
<1> HIDE DEF p, d
<1>6. /\ DOMAIN impact' = DOMAIN impact \cup {p}
      /\ impact' \in [DOMAIN impact' -> ImpactRow]
      /\ \A q \in DOMAIN impact \ {p} : impact'[q] = impact[q]
      /\ \A w \in Windows : impact'[p].at[w] = NoPrice
      /\ impact'[p].published = d /\ impact'[p].base = LateBase
  <2>1. DOMAIN impact' = DOMAIN impact \cup {p} /\ impact' \in [DOMAIN impact' -> ImpactRow]
    BY <1>2, <1>3, <1>4, WithCandidateRow
  <2>3. \A q \in DOMAIN impact \ {p} : impact'[q] = impact[q]
    BY <1>2, <1>3, <1>4, WithCandidateRow
  <2>4. ASSUME NEW w \in Windows PROVE impact'[p].at[w] = NoPrice
    BY <1>2, <1>3, <1>4, WithCandidateRow
  <2>5. impact'[p].base = LateBase
    BY <1>2, <1>3, <1>4, WithCandidateRow
  <2>2. impact'[p].published = d
    BY <1>2, <1>3, <1>4, WithCandidateRow
  <2> QED
    BY <2>1, <2>2, <2>3, <2>4, <2>5
<1>7. /\ SnapshotsAligned' /\ BaseNotEarly' /\ ImpactBacked' /\ BaseFirst'
      /\ \A q \in DOMAIN impact' : Complete(impact'[q]) =>
                 q # p /\ q \in DOMAIN impact /\ Complete(impact[q]) /\ impact'[q] = impact[q]
  <2>1. unrecorded \subseteq unrecorded' /\ UNCHANGED <<stories, history>>
    OBVIOUS
  <2> QED
    BY <1>2, <1>3, <1>4, <2>1, WithCandidateKeeps, Zenon
<1>8. DOMAIN impact' = DOMAIN impact
  BY <1>2, <1>6
<1>9. \A q \in DOMAIN impact : Complete(impact'[q]) => q # p /\ Complete(impact[q])
  BY <1>7, <1>8
<1> QED
  BY <1>2, <1>5, <1>6, <1>7, <1>8, <1>9 DEF p, d

LEMMA FillBaseKeeps ==
    ASSUME ImpactIInv, FillBase PROVE ImpactIInv'
<1>1. /\ tracker.at = "base" /\ This.row.base = NoPrice /\ LateBase # NoPrice
      /\ impact' = WithCandidate(This.key, This.row.published, LateBase)
      /\ UNCHANGED <<stories, history, now, unrecorded, impactFaults>>
      /\ tracker' = [tracker EXCEPT !.at = "1h", !.this.row.base = LateBase]
  BY DEF FillBase
<1>2. AtRow
  BY <1>1 DEF AtRow
<1>3. This \in KeyedRow /\ This.row \in ImpactRow /\ This.key \in DOMAIN impact
      /\ This.row.published \in Nat
  BY <1>2, AtHand
<1>4. LateBase \in Nat
  BY <1>3, ResolveTyped DEF LateBase
<1> DEFINE row == [This.row EXCEPT !.base = LateBase]
           new == [This EXCEPT !.row = row]
<1>5. row \in ImpactRow /\ row.base = LateBase /\ row.published = This.row.published /\ row.at = This.row.at
  BY <1>3, <1>4 DEF ImpactRow
<1>6. new \in KeyedRow /\ new.key = This.key /\ new.row = row
  <2> HIDE DEF row
  <2> QED
    BY <1>3, <1>5 DEF KeyedRow
<1>7. tracker' = [[tracker EXCEPT !.at = "1h"] EXCEPT !.this = new]
  BY <1>1 DEF This
<1> HIDE DEF row, new
<1>8. /\ tracker'.at = "1h" /\ tracker'.todo = tracker.todo /\ tracker'.rows = tracker.rows
      /\ This' = new /\ tracker' \in TrackerType
  <2>1. tracker \in TrackerType
    BY DEF ImpactIInv, ImpactTypeOK, TrackerType
  <2>2. [tracker EXCEPT !.at = "1h"] \in TrackerType
    BY <2>1 DEF TrackerType
  <2> QED
    BY <1>6, <1>7, <2>1, <2>2 DEF TrackerType, This
<1>9. /\ SnapshotsAligned' /\ BaseNotEarly' /\ ImpactBacked' /\ BaseFirst'
      /\ DOMAIN impact' = DOMAIN impact /\ impact' \in [DOMAIN impact' -> ImpactRow]
      /\ \A q \in DOMAIN impact : Complete(impact'[q]) => q # This.key /\ Complete(impact[q])
      /\ \A q \in DOMAIN impact \ {This.key} : impact'[q] = impact[q]
      /\ impact'[This.key].published = This.row.published
      /\ impact'[This.key].base = LateBase
      /\ \A w \in Windows : impact'[This.key].at[w] = NoPrice /\ impact[This.key].at[w] = NoPrice
  BY <1>1, LateBaseKeeps
<1>10. ImpactTypeOK'
  BY <1>1, <1>8, <1>9 DEF ImpactIInv, ImpactTypeOK, TrackerType
<1>11. CompletedRecorded'
  BY <1>1, <1>9 DEF ImpactIInv, CompletedRecorded
<1>12. CandidatesOpen'
  BY <1>1, <1>8 DEF ImpactIInv, CandidatesOpen
<1>13. RowsCurrent'
  BY <1>6, <1>8, <1>9 DEF ImpactIInv, RowsCurrent
<1>14. ThisCurrent'
  <2>1. \A w \in Windows : This.row.at[w] = impact[This.key].at[w] \/ This.key \in unrecorded
    BY <1>2 DEF ImpactIInv, ThisCurrent
  <2> QED
    BY <1>1, <1>3, <1>5, <1>6, <1>8, <1>9, <2>1 DEF ThisCurrent, AtRow
<1> QED
  BY <1>9, <1>10, <1>11, <1>12, <1>13, <1>14 DEF ImpactIInv

LEMMA NextRowKeeps ==
    ASSUME ImpactIInv, AtRow, NextRow,
           \A r \in tracker.rows : r.key \in DOMAIN impact' /\ r.row = impact'[r.key]
    PROVE  tracker' \in TrackerType /\ CandidatesOpen' /\ RowsCurrent' /\ ThisCurrent'
<1>1. tracker.rows \in SUBSET KeyedRow /\ tracker.now \in Nat
  BY DEF ImpactIInv, ImpactTypeOK
<1> QED
  BY <1>1, TakeFromKeeps DEF NextRow

LEMMA LeftUnpricedKeeps ==
    ASSUME ImpactIInv, SkipUnpriced \/ FillFails PROVE ImpactIInv'
<1>1. /\ tracker.at = "base" /\ This.row.base = NoPrice /\ AtRow
      /\ impact' \in {impact, WithCandidate(This.key, This.row.published, LateBase)}
      /\ NextRow
      /\ UNCHANGED <<stories, history, now, unrecorded>> /\ impactFaults' \in Nat
  BY DEF SkipUnpriced, FillFails, AtRow, ImpactFault, ImpactIInv, ImpactTypeOK
<1>2. This.key \in DOMAIN impact /\ impact[This.key].base = NoPrice
  BY <1>1, AtHand
<1>3. /\ SnapshotsAligned' /\ BaseNotEarly' /\ ImpactBacked' /\ BaseFirst'
      /\ DOMAIN impact' = DOMAIN impact /\ impact' \in [DOMAIN impact' -> ImpactRow]
      /\ \A q \in DOMAIN impact : Complete(impact'[q]) => q # This.key /\ Complete(impact[q])
      /\ \A q \in DOMAIN impact \ {This.key} : impact'[q] = impact[q]
  <2>1. CASE impact' = impact
    <3>1. ~Complete(impact[This.key])
      BY <1>2 DEF ImpactIInv, BaseFirst, Complete, Windows
    <3> QED
      BY <1>1, <2>1, <3>1 DEF ImpactIInv, ImpactTypeOK, SnapshotsAligned, BaseNotEarly, ImpactBacked, BaseFirst
  <2>2. CASE impact' = WithCandidate(This.key, This.row.published, LateBase)
    BY <1>1, <2>2, LateBaseKeeps
  <2> QED
    BY <1>1, <2>1, <2>2
<1>4. \A r \in tracker.rows : r.key \in DOMAIN impact' /\ r.row = impact'[r.key]
  BY <1>3 DEF ImpactIInv, RowsCurrent
<1>5. tracker' \in TrackerType /\ CandidatesOpen' /\ RowsCurrent' /\ ThisCurrent'
  BY <1>1, <1>4, NextRowKeeps
<1>6. CompletedRecorded'
  BY <1>1, <1>3 DEF ImpactIInv, CompletedRecorded
<1>7. ImpactTypeOK'
  BY <1>1, <1>3, <1>5 DEF ImpactIInv, ImpactTypeOK, TrackerType
<1> QED
  BY <1>3, <1>5, <1>6, <1>7 DEF ImpactIInv

LEMMA SnapshotTaken ==
    ASSUME NEW r \in ImpactRow, NEW w \in Windows, NEW price \in Nat
    PROVE  /\ [r EXCEPT !.at[w] = price] \in ImpactRow
           /\ [r EXCEPT !.at[w] = price].published = r.published
           /\ [r EXCEPT !.at[w] = price].base = r.base
           /\ [r EXCEPT !.at[w] = price].at = [r.at EXCEPT ![w] = price]
           /\ \A v \in Windows : [r EXCEPT !.at[w] = price].at[v] = IF v = w THEN price ELSE r.at[v]
<1>1. PICK x \in Nat, y \in Nat, z \in [Windows -> Nat] : r = [published |-> x, base |-> y, at |-> z]
  BY DEF ImpactRow
<1>2. [r EXCEPT !.at[w] = price] = [published |-> x, base |-> y, at |-> [z EXCEPT ![w] = price]]
  BY <1>1
<1>3. [z EXCEPT ![w] = price] \in [Windows -> Nat]
      /\ \A v \in Windows : [z EXCEPT ![w] = price][v] = IF v = w THEN price ELSE z[v]
  OBVIOUS
<1> QED
  BY <1>1, <1>2, <1>3 DEF ImpactRow

(* A window of the row at hand is filled in the table.                     *)
LEMMA SnapshotKeeps ==
    ASSUME ImpactIInv, Due, impact' = [impact EXCEPT ![This.key].at[Window] = LaterPrice],
           UNCHANGED <<stories, history>>
    PROVE  /\ AtRow /\ Window \in Windows /\ LaterPrice \in Nat /\ tracker.at # "base"
           /\ DOMAIN impact' = DOMAIN impact /\ impact' \in [DOMAIN impact -> ImpactRow]
           /\ \A q \in DOMAIN impact \ {This.key} : impact'[q] = impact[q]
           /\ impact'[This.key].published = impact[This.key].published
           /\ impact'[This.key].base = impact[This.key].base
           /\ \A v \in Windows : impact'[This.key].at[v]
                                    = IF v = Window THEN LaterPrice ELSE impact[This.key].at[v]
           /\ SnapshotsAligned' /\ BaseNotEarly' /\ ImpactBacked' /\ BaseFirst'
<1>1. AtRow /\ Window \in Windows /\ tracker.at # "base"
  BY DEF Due, Window, AtRow, Windows
<1> DEFINE k == This.key  w == Window  price == LaterPrice
<1>2. k \in DOMAIN impact /\ This.row.published \in Nat /\ This.row.published = impact[k].published
      /\ This.row.base = impact[k].base
  BY <1>1, AtHand
<1>3. price \in Nat /\ price \in {NoPrice, impact[k].published + w}
  <2>1. This.row.published + Window \in Nat
    BY <1>1, <1>2 DEF Windows
  <2> QED
    BY <1>2, <2>1, ResolveTyped DEF LaterPrice
<1>4. impact[k].base # NoPrice
  BY <1>1, <1>2 DEF ImpactIInv, ThisCurrent
<1>5. impact' = [impact EXCEPT ![k] = [impact[k] EXCEPT !.at[w] = price]] /\ w \in Windows
  BY <1>1
<1>6. impact \in [DOMAIN impact -> ImpactRow] /\ impact[k] \in ImpactRow
  BY <1>2 DEF ImpactIInv, ImpactTypeOK
<1> DEFINE row == [impact[k] EXCEPT !.at[w] = price]
<1>7. row \in ImpactRow /\ row.published = impact[k].published /\ row.base = impact[k].base
      /\ \A v \in Windows : row.at[v] = IF v = w THEN price ELSE impact[k].at[v]
  <2> HIDE DEF w, price, k
  <2> QED
    BY <1>3, <1>5, <1>6, SnapshotTaken
<1> HIDE DEF k, w, price
<1>8. impact' = [impact EXCEPT ![k] = row]
  BY <1>5
<1> HIDE DEF row
<1>9. /\ DOMAIN impact' = DOMAIN impact /\ impact' \in [DOMAIN impact -> ImpactRow]
      /\ \A q \in DOMAIN impact \ {k} : impact'[q] = impact[q]
      /\ impact'[k] = row
  BY <1>2, <1>6, <1>7, <1>8
<1>10. /\ impact'[k].published = impact[k].published /\ impact'[k].base = impact[k].base
       /\ \A v \in Windows : impact'[k].at[v] = IF v = w THEN price ELSE impact[k].at[v]
  BY <1>7, <1>9
<1>11. SnapshotsAligned'
  <2>1. SnapshotsAligned
    BY DEF ImpactIInv
  <2>2. ASSUME NEW p \in DOMAIN impact, NEW v \in Windows, impact'[p].at[v] # NoPrice
        PROVE  impact'[p].at[v] = impact'[p].published + v
    <3>1. CASE p = k /\ v = w
      <4>1. impact'[p].at[v] = price /\ impact'[p].published = impact[k].published
        BY <1>10, <3>1
      <4>2. price = impact[k].published + w
        BY <1>3, <2>2, <4>1
      <4> QED
        BY <1>2, <1>5, <3>1, <4>1, <4>2 DEF Windows
    <3>2. CASE p = k /\ v # w
      BY <1>10, <2>1, <2>2, <3>2 DEF SnapshotsAligned
    <3>3. CASE p # k
      <4>1. impact'[p] = impact[p]
        BY <1>9, <3>3
      <4>2. impact[p].at[v] = impact[p].published + v
        BY <2>1, <2>2, <4>1 DEF SnapshotsAligned
      <4> QED
        BY <4>1, <4>2
    <3> QED
      BY <3>1, <3>2, <3>3
  <2> QED
    BY <1>9, <2>2 DEF SnapshotsAligned
<1>12. BaseNotEarly'
  <2>1. BaseNotEarly
    BY DEF ImpactIInv
  <2> QED
    BY <1>9, <1>10, <2>1 DEF BaseNotEarly
<1>13. BaseFirst'
  <2>1. BaseFirst
    BY DEF ImpactIInv
  <2>2. ASSUME NEW p \in DOMAIN impact, NEW v \in Windows, impact'[p].at[v] # NoPrice
        PROVE  impact'[p].base # NoPrice
    <3>1. CASE p = k
      BY <1>4, <1>10, <3>1
    <3>2. CASE p # k
      BY <1>9, <2>1, <2>2, <3>2 DEF BaseFirst
    <3> QED
      BY <3>1, <3>2
  <2> QED
    BY <1>9, <2>2 DEF BaseFirst
<1>14. ImpactBacked'
  BY <1>9 DEF ImpactIInv, ImpactBacked
<1> QED
  BY <1>1, <1>2, <1>3, <1>7, <1>9, <1>10, <1>11, <1>12, <1>13, <1>14 DEF k, w, price

LEMMA SnapshotStepKeeps ==
    ASSUME ImpactIInv, UpdateSnapshot \/ SnapshotFails PROVE ImpactIInv'
<1>1. Due /\ UNCHANGED <<stories, history, now>> /\ impactFaults' \in Nat
  BY DEF UpdateSnapshot, SnapshotFails, ImpactFault, ImpactIInv, ImpactTypeOK
<1>2. AtRow /\ Window \in Windows /\ tracker.at # "base"
  BY <1>1 DEF Due, Window, AtRow, Windows
<1>3. NextPoint \in {"4h", "24h", "history"}
  BY DEF NextPoint
<1>4. This.key \in DOMAIN impact /\ This.key \in Pairs /\ This \in KeyedRow /\ This.row \in ImpactRow
      /\ This.row.published = impact[This.key].published /\ This.row.base = impact[This.key].base
  BY <1>2, AtHand
<1>5. This.row.base # NoPrice /\ \A v \in Windows : This.row.at[v] = impact[This.key].at[v] \/ This.key \in unrecorded
  BY <1>2 DEF ImpactIInv, ThisCurrent
<1>6. CASE UpdateSnapshot
  <2>1. impact' = [impact EXCEPT ![This.key].at[Window] = LaterPrice] /\ unrecorded' = unrecorded
        /\ tracker' = [tracker EXCEPT !.at = NextPoint, !.this.row.at[Window] = LaterPrice]
    BY <1>6 DEF UpdateSnapshot
  <2>2. /\ LaterPrice \in Nat
        /\ DOMAIN impact' = DOMAIN impact /\ impact' \in [DOMAIN impact -> ImpactRow]
        /\ \A q \in DOMAIN impact \ {This.key} : impact'[q] = impact[q]
        /\ impact'[This.key].published = impact[This.key].published
        /\ impact'[This.key].base = impact[This.key].base
        /\ \A v \in Windows : impact'[This.key].at[v]
                                 = IF v = Window THEN LaterPrice ELSE impact[This.key].at[v]
        /\ SnapshotsAligned' /\ BaseNotEarly' /\ ImpactBacked' /\ BaseFirst'
    BY <1>1, <2>1, SnapshotKeeps
  <2> DEFINE row == [This.row EXCEPT !.at[Window] = LaterPrice]
             new == [This EXCEPT !.row = row]
  <2>3. row \in ImpactRow /\ row.published = This.row.published /\ row.base = This.row.base
        /\ \A v \in Windows : row.at[v] = IF v = Window THEN LaterPrice ELSE This.row.at[v]
    BY <1>2, <1>4, <2>2, SnapshotTaken
  <2>4. new \in KeyedRow /\ new.key = This.key /\ new.row = row
    <3> HIDE DEF row
    <3> QED
      BY <1>4, <2>3 DEF KeyedRow
  <2>5. tracker' = [[tracker EXCEPT !.at = NextPoint] EXCEPT !.this = new]
    BY <2>1 DEF This
  <2> HIDE DEF row, new
  <2>6. /\ tracker'.at = NextPoint /\ tracker'.todo = tracker.todo /\ tracker'.rows = tracker.rows
        /\ This' = new /\ tracker' \in TrackerType
    <3>1. tracker \in TrackerType
      BY DEF ImpactIInv, ImpactTypeOK, TrackerType
    <3>2. [tracker EXCEPT !.at = NextPoint] \in TrackerType
      BY <1>3, <3>1 DEF TrackerType
    <3> QED
      BY <2>4, <2>5, <3>1, <3>2 DEF TrackerType, This
  <2>7. ImpactTypeOK'
    BY <1>1, <2>1, <2>2, <2>6 DEF ImpactIInv, ImpactTypeOK, TrackerType
  <2>8. CompletedRecorded'
    BY <1>1, <2>1, <2>2, <2>4, <2>6 DEF ImpactIInv, CompletedRecorded
  <2>9. CandidatesOpen'
    BY <1>2, <2>6, AtHand DEF CandidatesOpen
  <2>10. RowsCurrent'
    BY <2>2, <2>4, <2>6 DEF ImpactIInv, RowsCurrent
  <2>11. ThisCurrent'
    <3>1. \A v \in Windows : row.at[v] = impact'[This.key].at[v] \/ This.key \in unrecorded'
      BY <1>5, <2>1, <2>2, <2>3
    <3> QED
      BY <1>3, <1>4, <1>5, <2>2, <2>3, <2>4, <2>6, <3>1 DEF ThisCurrent, AtRow
  <2> QED
    BY <2>2, <2>7, <2>8, <2>9, <2>10, <2>11 DEF ImpactIInv
<1>7. CASE SnapshotFails
  <2>1. tracker' = [tracker EXCEPT !.at = NextPoint]
    BY <1>7 DEF SnapshotFails
  <2>2. /\ tracker'.at = NextPoint /\ tracker'.todo = tracker.todo /\ tracker'.rows = tracker.rows
        /\ This' = This /\ tracker' \in TrackerType
    BY <1>3, <2>1 DEF ImpactIInv, ImpactTypeOK, TrackerType, This
  <2>3. CandidatesOpen'
    BY <1>2, <2>2, AtHand DEF CandidatesOpen
  <2>4. CASE UNCHANGED <<impact, unrecorded>>
    <3>1. ImpactTypeOK'
      BY <1>1, <2>2, <2>4 DEF ImpactIInv, ImpactTypeOK, TrackerType
    <3>2. SnapshotsAligned' /\ BaseNotEarly' /\ ImpactBacked' /\ BaseFirst' /\ CompletedRecorded' /\ RowsCurrent'
      BY <1>1, <2>2, <2>4 DEF ImpactIInv, SnapshotsAligned, BaseNotEarly, ImpactBacked, BaseFirst,
          CompletedRecorded, RowsCurrent
    <3>3. ThisCurrent'
      BY <1>3, <1>4, <1>5, <2>2, <2>4 DEF ThisCurrent, AtRow
    <3> QED
      BY <2>3, <3>1, <3>2, <3>3 DEF ImpactIInv
  <2>5. CASE impact' = [impact EXCEPT ![This.key].at[Window] = LaterPrice] /\ unrecorded' = unrecorded \cup {This.key}
    <3>1. /\ DOMAIN impact' = DOMAIN impact /\ impact' \in [DOMAIN impact -> ImpactRow]
          /\ \A q \in DOMAIN impact \ {This.key} : impact'[q] = impact[q]
          /\ impact'[This.key].published = impact[This.key].published
          /\ impact'[This.key].base = impact[This.key].base
          /\ SnapshotsAligned' /\ BaseNotEarly' /\ ImpactBacked' /\ BaseFirst'
      BY <1>1, <2>5, SnapshotKeeps
    <3>2. ImpactTypeOK'
      BY <1>1, <1>4, <2>2, <2>5, <3>1 DEF ImpactIInv, ImpactTypeOK, TrackerType
    <3>3. CompletedRecorded'
      BY <1>1, <2>2, <2>5, <3>1 DEF ImpactIInv, CompletedRecorded
    <3>4. RowsCurrent'
      BY <2>2, <3>1 DEF ImpactIInv, RowsCurrent
    <3>5. ThisCurrent'
      BY <1>3, <1>4, <1>5, <2>2, <2>5, <3>1 DEF ThisCurrent, AtRow
    <3> QED
      BY <2>3, <3>1, <3>2, <3>3, <3>4, <3>5 DEF ImpactIInv
  <2> QED
    BY <1>7, <2>4, <2>5 DEF SnapshotFails
<1> QED
  BY <1>6, <1>7


(* A complete row is recorded as the job leaves it, or something failed.   *)
LEMMA HistoryStepKeeps ==
    ASSUME ImpactIInv, InsertHistory \/ HistoryFails PROVE ImpactIInv'
<1>1. /\ AtRow /\ NextRow /\ UNCHANGED <<stories, impact, now>> /\ impactFaults' \in Nat
      /\ history \subseteq history' /\ unrecorded \subseteq unrecorded'
  BY DEF InsertHistory, HistoryFails, AtRow, ImpactFault, ImpactIInv, ImpactTypeOK
<1>2. This.key \in DOMAIN impact /\ This.key \in Pairs /\ This.row.published \in Nat
      /\ This.row.published = impact[This.key].published
  BY <1>1, AtHand
<1>3. history' \subseteq Nat \X Pairs /\ unrecorded' \subseteq Pairs
  BY <1>1, <1>2 DEF InsertHistory, HistoryFails, ImpactIInv, ImpactTypeOK
<1>4. Complete(impact[This.key]) =>
         <<impact[This.key].published, This.key>> \in history' \/ This.key \in unrecorded'
  <2>1. \A w \in Windows : This.row.at[w] = impact[This.key].at[w] \/ This.key \in unrecorded
    BY <1>1 DEF ImpactIInv, ThisCurrent
  <2>2. Complete(impact[This.key]) => Complete(This.row) \/ This.key \in unrecorded
    BY <2>1 DEF Complete
  <2>3. CASE InsertHistory
    BY <1>2, <2>2, <2>3 DEF InsertHistory
  <2>4. CASE HistoryFails
    BY <2>4 DEF HistoryFails
  <2> QED
    BY <2>3, <2>4
<1>5. \A r \in tracker.rows : r.key \in DOMAIN impact' /\ r.row = impact'[r.key]
  BY <1>1 DEF ImpactIInv, RowsCurrent
<1>6. tracker' \in TrackerType /\ CandidatesOpen' /\ RowsCurrent' /\ ThisCurrent'
  BY <1>1, <1>5, NextRowKeeps
<1>7. CompletedRecorded'
  BY <1>1, <1>4 DEF ImpactIInv, CompletedRecorded
<1>8. ImpactTypeOK' /\ SnapshotsAligned' /\ BaseNotEarly' /\ ImpactBacked' /\ BaseFirst'
  BY <1>1, <1>3, <1>6 DEF ImpactIInv, ImpactTypeOK, TrackerType, SnapshotsAligned, BaseNotEarly,
     ImpactBacked, BaseFirst
<1> QED
  BY <1>6, <1>7, <1>8 DEF ImpactIInv

LEMMA TrackerStopsKeeps ==
    ASSUME ImpactIInv, TrackerStops PROVE ImpactIInv'
<1>1. /\ UNCHANGED <<stories, impact, history, now>> /\ impactFaults' \in Nat /\ tracker' = NoTrack
      /\ unrecorded' = unrecorded \cup IF This = NoRow THEN {} ELSE {This.key}
  BY DEF TrackerStops, ImpactFault, ImpactIInv, ImpactTypeOK
<1>2. This \in KeyedRow \cup {NoRow} /\ \A r \in KeyedRow : r.key \in Pairs
  BY DEF ImpactIInv, ImpactTypeOK, This, KeyedRow
<1>3. unrecorded' \subseteq Pairs
  BY <1>1, <1>2 DEF ImpactIInv, ImpactTypeOK
<1>4. This' = NoRow /\ tracker'.at = "idle" /\ tracker'.todo = {} /\ tracker'.rows = {}
  BY <1>1, NoTrackTyped DEF This
<1>5. CandidatesOpen' /\ RowsCurrent' /\ ThisCurrent'
  BY <1>4 DEF CandidatesOpen, RowsCurrent, ThisCurrent, AtRow
<1>6. \A p \in DOMAIN impact : p # NoRow.key
  BY NoTrackTyped DEF ImpactIInv, ImpactTypeOK
<1>7. CompletedRecorded'
  BY <1>1, <1>6 DEF ImpactIInv, CompletedRecorded
<1>8. ImpactTypeOK' /\ SnapshotsAligned' /\ BaseNotEarly' /\ ImpactBacked' /\ BaseFirst'
  BY <1>1, <1>3, NoTrackTyped DEF ImpactIInv, ImpactTypeOK, TrackerType, SnapshotsAligned, BaseNotEarly,
     ImpactBacked, BaseFirst
<1> QED
  BY <1>5, <1>7, <1>8 DEF ImpactIInv

LEMMA ImpactInvariance == ImpactSpec => []ImpactIInv
<1>1. ImpactIInv /\ [ImpactNext]_impactVars => ImpactIInv'
  <2> SUFFICES ASSUME ImpactIInv, [ImpactNext]_impactVars PROVE ImpactIInv'
    OBVIOUS
  <2>1. CASE ClockTick \/ \E a \in Stories : Analyse(a) \/ Process(a) \/ Redate(a)
    BY <2>1, OthersKeep
  <2>2. CASE ListCandidates \/ ListPendingRows
    BY <2>2, ListCandidatesKeeps, ListPendingRowsKeeps
  <2>3. CASE UpsertCandidate \/ CandidateFails
    BY <2>3, CandidateStepKeeps
  <2>4. CASE HasBase \/ NotDue
    BY <2>4, OnInRow
  <2>5. CASE FillBase
    BY <2>5, FillBaseKeeps
  <2>6. CASE SkipUnpriced \/ FillFails
    BY <2>6, LeftUnpricedKeeps
  <2>7. CASE UpdateSnapshot \/ SnapshotFails
    BY <2>7, SnapshotStepKeeps
  <2>8. CASE InsertHistory \/ HistoryFails
    BY <2>8, HistoryStepKeeps
  <2>9. CASE TrackerStops
    BY <2>9, TrackerStopsKeeps
  <2>10. CASE UNCHANGED impactVars
    BY <2>10 DEF impactVars, ImpactIInv, ImpactTypeOK, SnapshotsAligned, BaseNotEarly, ImpactBacked,
       CompletedRecorded, CandidatesOpen, BaseFirst, RowsCurrent, ThisCurrent, AtRow, This, Unpriced
  <2> QED
    BY <2>1, <2>2, <2>3, <2>4, <2>5, <2>6, <2>7, <2>8, <2>9, <2>10 DEF ImpactNext, TrackerStep
<1> QED
  BY <1>1, ImpactInitHolds, PTL DEF ImpactSpec

(***************************************************************************)
(* What is priced stays priced.  No coin without prices ever gets one, so a*)
(* window asked for twice, its row having been read before an answer was   *)
(* lost, is filled with what it holds.                                     *)
(***************************************************************************)
PricesFinal ==
    \A p \in DOMAIN impact :
        /\ p \in DOMAIN impact'
        /\ impact[p].base # NoPrice =>
              impact'[p].base = impact[p].base /\ impact'[p].published = impact[p].published
        /\ \A w \in Windows : impact[p].at[w] # NoPrice => impact'[p].at[w] = impact[p].at[w]

PricedOnly == \A p \in DOMAIN impact : impact[p].base # NoPrice => p[2] \notin Priceless

LEMMA PricedOnce ==
    ASSUME ImpactIInv, PricedOnly, NEW p \in Pairs, NEW date \in Nat, Unpriced(p),
           NEW price \in {NoPrice, Resolve(p[2], date)}, impact' = WithCandidate(p, date, price)
    PROVE  PricesFinal /\ PricedOnly'
<1>1. price \in {NoPrice, date}
  BY ResolveTyped
<1>2. /\ DOMAIN impact' = DOMAIN impact \cup {p}
      /\ \A q \in DOMAIN impact \ {p} : impact'[q] = impact[q]
      /\ impact'[p].base = price
  BY <1>1, WithCandidateRow
<1>3. p \in DOMAIN impact => impact[p].base = NoPrice /\ \A w \in Windows : impact[p].at[w] = NoPrice
  BY DEF Unpriced, ImpactIInv, BaseFirst
<1>4. PricesFinal
  BY <1>2, <1>3 DEF PricesFinal
<1>5. price # NoPrice => p[2] \notin Priceless
  BY DEF Resolve
<1> QED
  BY <1>2, <1>4, <1>5 DEF PricedOnly

LEMMA SnapshotIsFinal ==
    ASSUME ImpactIInv, PricedOnly, Due, UNCHANGED <<stories, history>>,
           impact' = [impact EXCEPT ![This.key].at[Window] = LaterPrice]
    PROVE  PricesFinal /\ PricedOnly'
<1>1. AtRow /\ Window \in Windows /\ tracker.at # "base"
  BY DEF Due, Window, AtRow, Windows
<1>2. /\ This.key \in DOMAIN impact /\ This.row.published = impact[This.key].published
      /\ impact[This.key].base # NoPrice
  BY <1>1, AtHand DEF ImpactIInv, ThisCurrent
<1>3. LaterPrice = impact[This.key].published + Window
  BY <1>2 DEF PricedOnly, LaterPrice, Resolve
<1>4. impact[This.key].at[Window] # NoPrice => impact[This.key].at[Window] = LaterPrice
  BY <1>1, <1>2, <1>3 DEF ImpactIInv, SnapshotsAligned
<1>5. /\ DOMAIN impact' = DOMAIN impact
      /\ \A q \in DOMAIN impact \ {This.key} : impact'[q] = impact[q]
      /\ impact'[This.key].published = impact[This.key].published
      /\ impact'[This.key].base = impact[This.key].base
      /\ \A v \in Windows : impact'[This.key].at[v]
                                 = IF v = Window THEN LaterPrice ELSE impact[This.key].at[v]
  BY SnapshotKeeps
<1>6. PricesFinal
  BY <1>2, <1>4, <1>5 DEF PricesFinal
<1> QED
  BY <1>5, <1>6 DEF PricedOnly

LEMMA ImpactStepFinal ==
    ASSUME ImpactIInv, PricedOnly, [ImpactNext]_impactVars
    PROVE  PricesFinal /\ PricedOnly'
<1>1. CASE UNCHANGED impact
  BY <1>1 DEF PricesFinal, PricedOnly
<1>2. ASSUME NEW c \in tracker.todo, NEW price \in {NoPrice, Resolve(c.key[2], c.date)},
             impact' = WithCandidate(c.key, c.date, price)
      PROVE  PricesFinal /\ PricedOnly'
  <2>1. c.key \in Pairs /\ c.date \in Nat /\ Unpriced(c.key)
    BY DEF ImpactIInv, ImpactTypeOK, CandidatesOpen
  <2> QED
    BY <1>2, <2>1, PricedOnce
<1>3. CASE /\ tracker.at = "base" /\ This.row.base = NoPrice
           /\ impact' = WithCandidate(This.key, This.row.published, LateBase)
  <2>1. AtRow
    BY <1>3 DEF AtRow
  <2>2. This.key \in Pairs /\ This.row.published \in Nat /\ Unpriced(This.key)
    BY <1>3, <2>1, AtHand
  <2>3. LateBase \in {NoPrice, Resolve(This.key[2], This.row.published)}
    BY DEF LateBase
  <2> QED
    BY <1>3, <2>2, <2>3, PricedOnce
<1>4. CASE /\ Due /\ UNCHANGED <<stories, history>>
           /\ impact' = [impact EXCEPT ![This.key].at[Window] = LaterPrice]
  BY <1>4, SnapshotIsFinal
<1>5. \/ UNCHANGED impact
      \/ \E c \in tracker.todo : \E price \in {NoPrice, Resolve(c.key[2], c.date)} :
            impact' = WithCandidate(c.key, c.date, price)
      \/ /\ tracker.at = "base" /\ This.row.base = NoPrice
         /\ impact' = WithCandidate(This.key, This.row.published, LateBase)
      \/ /\ Due /\ UNCHANGED <<stories, history>>
         /\ impact' = [impact EXCEPT ![This.key].at[Window] = LaterPrice]
  <2>1. CASE UpsertCandidate \/ CandidateFails
    BY <2>1 DEF UpsertCandidate, CandidateFails
  <2>2. CASE FillBase \/ FillFails
    BY <2>2 DEF FillBase, FillFails
  <2>3. CASE UpdateSnapshot \/ SnapshotFails
    BY <2>3 DEF UpdateSnapshot, SnapshotFails
  <2>4. CASE ~(UpsertCandidate \/ CandidateFails \/ FillBase \/ FillFails \/ UpdateSnapshot \/ SnapshotFails)
    BY <2>4 DEF ImpactNext, TrackerStep, impactVars, Analyse, Process, Redate, ClockTick, ListCandidates,
       ListThese, ListPendingRows, HasBase, SkipUnpriced, NotDue, InsertHistory, HistoryFails, TrackerStops
  <2> QED
    BY <2>1, <2>2, <2>3, <2>4
<1> QED
  BY <1>1, <1>2, <1>3, <1>4, <1>5

(* The rows of news_price_impact are of pairs of an article and a coin it  *)
(* may be about, and so is all the job has read (news/impact/service.go).  *)
THEOREM ImpactTypeCorrect == ImpactSpec => []ImpactTypeOK
<1>1. ImpactIInv => ImpactTypeOK
  BY DEF ImpactIInv
<1> QED
  BY <1>1, ImpactInvariance, PTL

(* A snapshot is of its window after the date its row bears and the first  *)
(* price of that date at the earliest, however the article is dated anew   *)
(* (news/impact/store.go UpsertCandidate, UpdateSnapshot), for any articles,*)
(* coins, dates and limits.                                                *)
THEOREM PricesAlwaysAligned == ImpactSpec => []PricesAligned
<1>1. ImpactIInv => PricesAligned
  BY DEF ImpactIInv, PricesAligned
<1> QED
  BY <1>1, ImpactInvariance, PTL

(* Every row goes back to a final analysis that names its coin, and a      *)
(* complete row is in the history unless the job is at it or something     *)
(* failed in between (news/impact/service.go RunOnce).                     *)
THEOREM HistoryAlwaysBacked == ImpactSpec => []HistoryBacked
<1>1. ImpactIInv => HistoryBacked
  BY DEF ImpactIInv, HistoryBacked
<1> QED
  BY <1>1, ImpactInvariance, PTL

(* Once a row has its first price, that price and the row's date are final,*)
(* and so is each snapshot, whatever is dated anew, retried, or tracked    *)
(* again after its answer was lost (news/impact/store.go UpsertCandidate,  *)
(* UpdateSnapshot); no row is ever taken back.                             *)
THEOREM PricesAreFinal == ImpactSpec => [][PricesFinal]_impactVars
<1>1. ImpactInit => PricedOnly
  BY DEF ImpactInit, PricedOnly
<1>2. ImpactIInv /\ PricedOnly /\ [ImpactNext]_impactVars => [PricesFinal]_impactVars /\ PricedOnly'
  BY ImpactStepFinal
<1> QED
  BY <1>1, <1>2, ImpactInvariance, PTL DEF ImpactSpec

(***************************************************************************)
(* What keeps the pairs without a price from holding up the others, but    *)
(* for the next step's being taken: RowsComplete without fairness.         *)
(***************************************************************************)
Candidates == {p \in AboutCoins(Processed) : Unpriced(p)}

\* What is left of a row: its base, three windows, and the history.
PointsLeft ==
    CASE tracker.at = "base" -> 5 [] tracker.at = "1h" -> 4 [] tracker.at = "4h" -> 3
      [] tracker.at = "24h" -> 2 [] tracker.at = "history" -> 1 [] OTHER -> 0

\* A candidate takes one, and may be a row more.
TrackStepsLeft ==
    IF tracker.at = "candidates"
    THEN 7 * Cardinality(tracker.todo) + 6 * Cardinality(DOMAIN impact) + 1
    ELSE 6 * Cardinality(tracker.rows) + PointsLeft

(* A run ends.  Without a fault no candidate is passed over unless it has  *)
(* no price, and no listed row.  And both listings have a pair that gets   *)
(* prices, if there is one and those that never do are fewer than a page.  *)
TrackHeadway ==
    /\ tracker.at # "idle" => tracker' = tracker \/ TrackStepsLeft' < TrackStepsLeft
    /\ impactFaults' = impactFaults =>
           /\ \A c \in tracker.todo : \/ c \in tracker'.todo
                                      \/ impact'[c.key].base = Resolve(c.key[2], c.date)
           /\ \A r \in tracker.rows : r \in tracker'.rows \/ This' = r
    /\ Cardinality(NeverPriced) < TrackLimit =>
           /\ ListCandidates /\ Candidates \ NeverPriced # {} =>
                 \E c \in tracker'.todo : c.key \notin NeverPriced
           /\ ListPendingRows /\ (\E r \in Incomplete : r.key \notin NeverPriced) =>
                 \E r \in tracker'.rows \cup {This'} : r.key \notin NeverPriced

TrackFinite ==
    /\ IsFiniteSet(tracker.todo) /\ IsFiniteSet(tracker.rows)
    /\ tracker.at = "idle" => tracker = NoTrack

LEMMA PairsFinite ==
    /\ IsFiniteSet(Pairs)
    /\ NeverPriced \subseteq Pairs /\ IsFiniteSet(NeverPriced)
<1>1. IsFiniteSet(Pairs)
  BY FinitelyManyAssumption, FS_Product DEF FinitelyManyAssumption, Pairs
<1>2. NeverPriced \subseteq Pairs
  <2> SUFFICES ASSUME NEW p \in NeverPriced PROVE p \in Pairs
    OBVIOUS
  <2>1. PICK a \in Stories : p \in {<<a, c>> : c \in (UNION Mentions[a]) \cap Priceless}
    BY DEF NeverPriced
  <2>2. PICK c \in UNION Mentions[a] : p = <<a, c>>
    BY <2>1
  <2>3. c \in Coins
    BY Zenon DEF Coins
  <2> QED
    BY <2>2, <2>3 DEF Pairs
<1> QED
  BY <1>1, <1>2, FS_Subset

LEMMA ByKeyOrders ==
    /\ \A p \in Pairs : ~ByKey(p, p)
    /\ \A p, q, r \in Pairs : ByKey(p, q) /\ ByKey(q, r) => ByKey(p, r)
<1>1. \A p \in Pairs : p[1] \in Nat /\ p[2] \in Nat
  BY DEF Pairs
<1> QED
  BY <1>1 DEF ByKey

LEMMA CandidatesFinite ==
    ASSUME ImpactIInv PROVE Candidates \subseteq Pairs /\ IsFiniteSet(Candidates)
<1>1. Candidates \subseteq Pairs
  <2> SUFFICES ASSUME NEW p \in Candidates PROVE p \in Pairs
    OBVIOUS
  <2>1. PICK a \in Processed : p \in {<<a, c>> : c \in stories[a].coins}
    BY DEF Candidates, AboutCoins
  <2>2. a \in Stories /\ stories[a].coins \subseteq Coins
    BY DEF Processed, ImpactIInv, ImpactTypeOK
  <2> QED
    BY <2>1, <2>2 DEF Pairs
<1> QED
  BY <1>1, PairsFinite, FS_Subset

LEMMA CandidatesReached ==
    ASSUME ImpactIInv, Cardinality(NeverPriced) < TrackLimit, Candidates \ NeverPriced # {}
    PROVE  \E p \in FirstPairs(Candidates) : p \notin NeverPriced
<1> DEFINE ahead == [p \in Candidates |-> {q \in Candidates : ByKey(q, p)}]
<1>1. Candidates \subseteq Pairs
  BY CandidatesFinite
<1>2. IsFiniteSet(Candidates)
  BY CandidatesFinite
<1>3. \A p \in Candidates : ahead[p] \subseteq Candidates /\ p \notin ahead[p]
  BY <1>1, ByKeyOrders
<1>4. \A p \in Candidates : \A q \in ahead[p] : ahead[q] \subseteq ahead[p]
  <2> SUFFICES ASSUME NEW p \in Candidates, NEW q \in ahead[p], NEW r \in ahead[q] PROVE r \in ahead[p]
    OBVIOUS
  <2>1. q \in Candidates /\ ByKey(q, p)
    OBVIOUS
  <2>2. r \in Candidates /\ ByKey(r, q)
    BY <2>1
  <2>3. ByKey(r, p)
    BY <1>1, <2>1, <2>2, ByKeyOrders
  <2> QED
    BY <2>2, <2>3
<1>5. PICK p \in Candidates \ NeverPriced : Cardinality(ahead[p]) < TrackLimit
  <2>1. TrackLimit \in Nat
    BY TrackLimitAssumption DEF TrackLimitAssumption
  <2> HIDE DEF ahead
  <2>2. Queued(Candidates, ahead, NeverPriced, TrackLimit)
    BY <1>2, <1>3, <1>4, <2>1, PairsFinite DEF Queued
  <2> QED
    BY <2>2, FirstPageReaches
<1> QED
  BY <1>5 DEF FirstPairs

(* There are as many entries as rows, and one for each key.                *)
LEMMA IncompleteFinite ==
    ASSUME ImpactIInv
    PROVE  /\ Incomplete \subseteq KeyedRow
           /\ \A r \in Incomplete : r.key \in DOMAIN impact /\ r.row = impact[r.key]
           /\ IsFiniteSet(DOMAIN impact) /\ IsFiniteSet(Incomplete)
           /\ Cardinality(Incomplete) <= Cardinality(DOMAIN impact)
           /\ \A bad \in SUBSET Pairs :
                 LET barred == {r \in Incomplete : r.key \in bad}
                 IN  IsFiniteSet(barred) /\ Cardinality(barred) <= Cardinality(bad)
<1>0. DOMAIN impact \subseteq Pairs /\ impact \in [DOMAIN impact -> ImpactRow]
  BY DEF ImpactIInv, ImpactTypeOK
<1>1. \A r \in Incomplete : /\ r \in KeyedRow
                            /\ r.key \in DOMAIN impact /\ r.row = impact[r.key]
                            /\ r = [key |-> r.key, row |-> impact[r.key]]
  <2> SUFFICES ASSUME NEW r \in Incomplete
               PROVE  /\ r \in KeyedRow
                      /\ r.key \in DOMAIN impact /\ r.row = impact[r.key]
                      /\ r = [key |-> r.key, row |-> impact[r.key]]
    OBVIOUS
  <2>1. PICK p \in DOMAIN impact : r = [key |-> p, row |-> impact[p]]
    BY DEF Incomplete
  <2>2. r.key = p /\ r.row = impact[p]
    BY <2>1
  <2> QED
    BY <1>0, <2>1, <2>2 DEF KeyedRow
<1>2. \A r, q \in Incomplete : r.key = q.key => r = q
  BY <1>1
<1>3. ASSUME NEW rows \in SUBSET Incomplete, NEW keys \in SUBSET Pairs, \A r \in rows : r.key \in keys
      PROVE  IsFiniteSet(keys) /\ IsFiniteSet(rows) /\ Cardinality(rows) <= Cardinality(keys)
  <2> DEFINE key == [r \in rows |-> r.key]
  <2>1. key \in Injection(rows, keys)
    BY <1>2, <1>3 DEF Injection, IsInjective
  <2>2. IsFiniteSet(keys)
    BY PairsFinite, FS_Subset
  <2> QED
    BY <2>1, <2>2, FS_Injection
<1>4. IsFiniteSet(DOMAIN impact) /\ IsFiniteSet(Incomplete) /\ Cardinality(Incomplete) <= Cardinality(DOMAIN impact)
  BY <1>0, <1>1, <1>3
<1>5. ASSUME NEW bad \in SUBSET Pairs
      PROVE  LET barred == {r \in Incomplete : r.key \in bad}
             IN  IsFiniteSet(barred) /\ Cardinality(barred) <= Cardinality(bad)
  BY <1>3
<1> QED
  BY <1>1, <1>4, <1>5

LEMMA PendingReached ==
    ASSUME ImpactIInv, Cardinality(NeverPriced) < TrackLimit,
           \E r \in Incomplete : r.key \notin NeverPriced
    PROVE  \E r \in PendingRows : r.key \notin NeverPriced
<1> DEFINE barred == {r \in Incomplete : r.key \in NeverPriced}
           ahead == [r \in Incomplete |-> {q \in Incomplete : ByDate(q, r)}]
<1>1. \A r \in Incomplete : r.key \in Pairs /\ r.row.published \in Nat
  BY IncompleteFinite DEF KeyedRow, ImpactRow
<1>2. IsFiniteSet(barred) /\ Cardinality(barred) < TrackLimit
  <2>1. IsFiniteSet(barred) /\ Cardinality(barred) <= Cardinality(NeverPriced)
    BY IncompleteFinite, PairsFinite
  <2>2. Cardinality(barred) \in Nat /\ Cardinality(NeverPriced) \in Nat /\ TrackLimit \in Nat
    BY <2>1, PairsFinite, FS_CardinalityType, TrackLimitAssumption DEF TrackLimitAssumption
  <2> HIDE DEF barred
  <2> QED
    BY <2>1, <2>2
<1>3. \A r \in Incomplete : ahead[r] \subseteq Incomplete /\ r \notin ahead[r]
  BY <1>1, ByKeyOrders DEF ByDate
<1>4. \A r \in Incomplete : \A q \in ahead[r] : ahead[q] \subseteq ahead[r]
  <2> SUFFICES ASSUME NEW r \in Incomplete, NEW q \in ahead[r], NEW s \in ahead[q] PROVE s \in ahead[r]
    OBVIOUS
  <2>1. q \in Incomplete /\ ByDate(q, r)
    OBVIOUS
  <2>2. s \in Incomplete /\ ByDate(s, q)
    BY <2>1
  <2>3. ByDate(s, r)
    BY <1>1, <2>1, <2>2, ByKeyOrders DEF ByDate
  <2> QED
    BY <2>2, <2>3
<1>5. PICK r \in Incomplete \ barred : Cardinality(ahead[r]) < TrackLimit
  <2>1. TrackLimit \in Nat
    BY TrackLimitAssumption DEF TrackLimitAssumption
  <2>2. Incomplete \ barred # {}
    OBVIOUS
  <2> HIDE DEF ahead, barred
  <2>3. Queued(Incomplete, ahead, barred, TrackLimit)
    BY <1>2, <1>3, <1>4, <2>1, <2>2, IncompleteFinite DEF Queued
  <2> QED
    BY <2>3, FirstPageReaches
<1> QED
  BY <1>5 DEF PendingRows
(* What each step of the job does to its place and its listings.           *)
LEMMA TakeFromMoves ==
    ASSUME NEW rows, NEW time, TakeFrom(rows, time)
    PROVE  \/ rows = {} /\ tracker' = NoTrack
           \/ /\ tracker'.at = "base" /\ tracker'.todo = {}
              /\ This' \in rows /\ tracker'.rows = rows \ {This'}
BY DEF TakeFrom, This

LEMMA TrackerMoves ==
    ASSUME ImpactIInv, TrackFinite, ImpactNext, tracker' # tracker
    PROVE  \/ /\ ListCandidates
              /\ tracker.at = "idle" /\ tracker'.at = "candidates" /\ tracker'.rows = {}
              /\ tracker'.todo = {[key |-> p, date |-> stories[p[1]].date] : p \in FirstPairs(Candidates)}
           \/ /\ tracker.at = "candidates" /\ tracker'.at = "candidates" /\ tracker'.rows = tracker.rows
              /\ \E c \in tracker.todo :
                    /\ tracker'.todo = tracker.todo \ {c}
                    /\ DOMAIN impact' \subseteq DOMAIN impact \cup {c.key}
                    /\ impactFaults' = impactFaults => impact'[c.key].base = Resolve(c.key[2], c.date)
           \/ /\ tracker.at = "candidates" /\ tracker.todo = {} /\ UNCHANGED impact
              /\ TakeFrom(PendingRows, now)
           \/ /\ AtRow /\ tracker'.at \in {"1h", "4h", "24h", "history"} /\ PointsLeft' < PointsLeft
              /\ tracker'.todo = tracker.todo /\ tracker'.rows = tracker.rows
           \/ /\ AtRow /\ TakeFrom(tracker.rows, tracker.now)
           \/ /\ tracker.at # "idle" /\ tracker' = NoTrack /\ impactFaults' = impactFaults + 1
<1>0. impactFaults \in Nat /\ tracker \in TrackerType
  BY DEF ImpactIInv, ImpactTypeOK, TrackerType
<1>1. CASE ListCandidates
  <2>1. tracker.at = "idle" /\ tracker' = [NoTrack EXCEPT !.at = "candidates",
           !.todo = {[key |-> p, date |-> stories[p[1]].date] : p \in FirstPairs(Candidates)}]
    BY <1>1 DEF ListCandidates, ListThese, Candidates
  <2>2. /\ tracker'.at = "candidates" /\ tracker'.rows = {}
        /\ tracker'.todo = {[key |-> p, date |-> stories[p[1]].date] : p \in FirstPairs(Candidates)}
    BY <2>1 DEF NoTrack
  <2> QED
    BY <1>1, <2>1, <2>2
<1>2. CASE UpsertCandidate \/ CandidateFails
  <2>1. PICK c \in tracker.todo :
          /\ tracker' = [tracker EXCEPT !.todo = @ \ {c}]
          /\ \/ UNCHANGED impact
             \/ \E price \in {NoPrice, Resolve(c.key[2], c.date)} : impact' = WithCandidate(c.key, c.date, price)
          /\ impactFaults' = impactFaults => impact' = WithCandidate(c.key, c.date, Resolve(c.key[2], c.date))
    BY <1>0, <1>2 DEF UpsertCandidate, CandidateFails, ImpactFault
  <2>2. tracker.at = "candidates" /\ tracker'.at = "candidates" /\ tracker'.rows = tracker.rows
        /\ tracker'.todo = tracker.todo \ {c}
    BY <1>0, <1>2, <2>1 DEF UpsertCandidate, CandidateFails, TrackerType
  <2>3. c.key \in Pairs /\ c.date \in Nat /\ Unpriced(c.key)
    BY DEF ImpactIInv, ImpactTypeOK, CandidatesOpen
  <2>4. ASSUME NEW price \in {NoPrice, Resolve(c.key[2], c.date)}, impact' = WithCandidate(c.key, c.date, price)
        PROVE  DOMAIN impact' = DOMAIN impact \cup {c.key} /\ impact'[c.key].base = price
    <3>1. price \in {NoPrice, c.date}
      BY <2>3, ResolveTyped
    <3> QED
      BY <2>3, <2>4, <3>1, WithCandidateRow
  <2>5. DOMAIN impact' \subseteq DOMAIN impact \cup {c.key}
    BY <2>1, <2>4
  <2>6. impactFaults' = impactFaults => impact'[c.key].base = Resolve(c.key[2], c.date)
    BY <2>1, <2>4
  <2> QED
    BY <2>2, <2>5, <2>6
<1>3. CASE ListPendingRows
  BY <1>3 DEF ListPendingRows
<1>4. CASE HasBase \/ FillBase
  <2>1. tracker.at = "base" /\ tracker'.at = "1h"
        /\ tracker'.todo = tracker.todo /\ tracker'.rows = tracker.rows
    BY <1>0, <1>4 DEF HasBase, FillBase, TrackerType
  <2>2. PointsLeft = 5 /\ PointsLeft' = 4
    BY <2>1 DEF PointsLeft
  <2> QED
    BY <2>1, <2>2 DEF AtRow
<1>5. CASE NotDue \/ UpdateSnapshot \/ SnapshotFails
  <2>1. tracker.at \in {"1h", "4h", "24h"}
    BY <1>5 DEF NotDue, UpdateSnapshot, SnapshotFails, Due, Window
  <2>2. tracker'.at = NextPoint /\ tracker'.todo = tracker.todo /\ tracker'.rows = tracker.rows
    BY <1>0, <1>5 DEF NotDue, UpdateSnapshot, SnapshotFails, TrackerType
  <2>3. PointsLeft' < PointsLeft /\ NextPoint \in {"4h", "24h", "history"}
    BY <2>1, <2>2 DEF PointsLeft, NextPoint
  <2> QED
    BY <2>1, <2>2, <2>3 DEF AtRow
<1>6. CASE SkipUnpriced \/ FillFails \/ InsertHistory \/ HistoryFails
  BY <1>6 DEF SkipUnpriced, FillFails, InsertHistory, HistoryFails, NextRow, AtRow
<1>7. CASE TrackerStops
  BY <1>7 DEF TrackerStops, ImpactFault, TrackFinite
<1>8. CASE ClockTick \/ \E a \in Stories : Analyse(a) \/ Process(a) \/ Redate(a)
  BY <1>8 DEF ClockTick, Analyse, Process, Redate
<1> QED
  BY <1>1, <1>2, <1>3, <1>4, <1>5, <1>6, <1>7, <1>8 DEF ImpactNext, TrackerStep

LEMMA TrackFiniteStep ==
    ASSUME ImpactIInv, TrackFinite, [ImpactNext]_impactVars PROVE TrackFinite'
<1>1. CASE tracker' = tracker
  BY <1>1 DEF TrackFinite
<1>2. CASE tracker' # tracker
  <2>0. ImpactNext
    BY <1>2 DEF impactVars
  <2>1. IsFiniteSet({}) /\ IsFiniteSet(tracker.todo) /\ IsFiniteSet(tracker.rows)
    BY FS_EmptySet DEF TrackFinite
  <2>2. CASE ListCandidates
    <3> DEFINE first == FirstPairs(Candidates)
               listed == {[key |-> p, date |-> stories[p[1]].date] : p \in first}
               entry == [p \in first |-> [key |-> p, date |-> stories[p[1]].date]]
    <3>1. IsFiniteSet(first)
      BY CandidatesFinite, FS_Subset DEF FirstPairs
    <3>2. entry \in Surjection(first, listed)
      BY DEF Surjection
    <3>3. IsFiniteSet(listed)
      BY <3>1, <3>2, FS_Surjection
    <3>4. tracker'.todo = listed /\ tracker'.rows = {} /\ tracker'.at = "candidates"
      BY <2>2, NoTrackTyped DEF ListCandidates, ListThese, Candidates, NoTrack
    <3> QED
      BY <2>1, <3>3, <3>4 DEF TrackFinite
  <2>3. ASSUME NEW rows, IsFiniteSet(rows), NEW time, TakeFrom(rows, time) PROVE TrackFinite'
    <3>1. CASE tracker' = NoTrack
      BY <2>1, <3>1, NoTrackTyped DEF TrackFinite
    <3>2. CASE tracker'.at = "base" /\ tracker'.todo = {} /\ tracker'.rows = rows \ {This'}
      BY <2>1, <2>3, <3>2, FS_Subset DEF TrackFinite
    <3> QED
      BY <2>3, <3>1, <3>2, TakeFromMoves
  <2>4. IsFiniteSet(PendingRows)
    BY IncompleteFinite, FS_Subset DEF PendingRows
  <2>5. \A c \in tracker.todo : IsFiniteSet(tracker.todo \ {c})
    BY <2>1, FS_Subset
  <2>6. tracker' = NoTrack => TrackFinite'
    BY <2>1, NoTrackTyped DEF TrackFinite
  <2>7. /\ tracker'.rows = tracker.rows
        /\ tracker'.todo = tracker.todo \/ \E c \in tracker.todo : tracker'.todo = tracker.todo \ {c}
        /\ tracker'.at # "idle"
        => TrackFinite'
    BY <2>1, <2>5 DEF TrackFinite
  <2> QED
    BY <1>2, <2>0, <2>1, <2>2, <2>3, <2>4, <2>6, <2>7, TrackerMoves
<1> QED
  BY <1>1, <1>2

LEMMA TrackWears ==
    ASSUME ImpactIInv, TrackFinite, ImpactIInv', TrackFinite', ImpactNext,
           tracker.at # "idle", tracker' # tracker
    PROVE  TrackStepsLeft' < TrackStepsLeft
<1> DEFINE t == Cardinality(tracker.todo)
           r == Cardinality(tracker.rows)
           i == Cardinality(DOMAIN impact)
           t1 == Cardinality(tracker'.todo)
           r1 == Cardinality(tracker'.rows)
           i1 == Cardinality(DOMAIN impact')
<1>1. t \in Nat /\ r \in Nat /\ t1 \in Nat /\ r1 \in Nat /\ i \in Nat /\ i1 \in Nat
  <2>1. IsFiniteSet(DOMAIN impact) /\ IsFiniteSet(DOMAIN impact')
    BY PairsFinite, FS_Subset DEF ImpactIInv, ImpactTypeOK
  <2> QED
    BY <2>1, FS_CardinalityType DEF TrackFinite
<1>2. /\ PointsLeft \in 0 .. 5 /\ PointsLeft' \in 0 .. 5
      /\ AtRow => PointsLeft >= 1
      /\ tracker'.at = "base" => PointsLeft' = 5
      /\ tracker'.at = "idle" => PointsLeft' = 0
  BY DEF PointsLeft, AtRow
<1>3. /\ tracker.at = "candidates" => TrackStepsLeft = 7 * t + 6 * i + 1
      /\ tracker.at # "candidates" => TrackStepsLeft = 6 * r + PointsLeft
      /\ tracker'.at = "candidates" => TrackStepsLeft' = 7 * t1 + 6 * i1 + 1
      /\ tracker'.at # "candidates" => TrackStepsLeft' = 6 * r1 + PointsLeft'
  BY DEF TrackStepsLeft
<1>4. ASSUME NEW rows, IsFiniteSet(rows), NEW time, TakeFrom(rows, time)
      PROVE  \/ TrackStepsLeft' = 0
             \/ Cardinality(rows) \in Nat /\ TrackStepsLeft' = 6 * Cardinality(rows) - 1
  <2>1. CASE tracker' = NoTrack
    <3>1. tracker'.at = "idle" /\ r1 = 0
      BY <2>1, NoTrackTyped, FS_EmptySet
    <3> QED
      BY <1>2, <1>3, <3>1
  <2>2. CASE tracker'.at = "base" /\ This' \in rows /\ tracker'.rows = rows \ {This'}
    <3>1. Cardinality(rows) \in Nat /\ r1 = Cardinality(rows) - 1
      BY <1>4, <2>2, LeftCounted
    <3> HIDE DEF r1
    <3> QED
      BY <1>2, <1>3, <2>2, <3>1
  <2> QED
    BY <1>4, <2>1, <2>2, TakeFromMoves
<1>5. CASE tracker.at = "candidates" /\ tracker.todo = {} /\ UNCHANGED impact /\ TakeFrom(PendingRows, now)
  <2> DEFINE n == Cardinality(PendingRows)
  <2>1. IsFiniteSet(PendingRows) /\ n \in Nat /\ n <= i
    <3>1. IsFiniteSet(PendingRows) /\ n <= Cardinality(Incomplete)
      BY IncompleteFinite, FS_Subset DEF PendingRows
    <3>2. n \in Nat /\ Cardinality(Incomplete) \in Nat /\ Cardinality(Incomplete) <= i
      BY <3>1, IncompleteFinite, FS_CardinalityType
    <3> HIDE DEF n, i
    <3> QED
      BY <1>1, <3>1, <3>2
  <2>2. TrackStepsLeft' = 0 \/ TrackStepsLeft' = 6 * n - 1
    BY <1>4, <1>5, <2>1
  <2> HIDE DEF n, t, i
  <2> QED
    BY <1>1, <1>3, <1>5, <2>1, <2>2
<1>6. CASE AtRow /\ TakeFrom(tracker.rows, tracker.now)
  <2>1. TrackStepsLeft' = 0 \/ TrackStepsLeft' = 6 * r - 1
    BY <1>4, <1>6 DEF TrackFinite
  <2>2. TrackStepsLeft = 6 * r + PointsLeft /\ PointsLeft >= 1
    BY <1>2, <1>3, <1>6 DEF AtRow
  <2> HIDE DEF r
  <2> QED
    BY <1>1, <1>2, <2>1, <2>2
<1>7. CASE /\ AtRow /\ tracker'.at \in {"1h", "4h", "24h", "history"} /\ PointsLeft' < PointsLeft
           /\ tracker'.rows = tracker.rows
  <2>1. r1 = r /\ tracker.at # "candidates" /\ tracker'.at # "candidates"
    BY <1>7 DEF AtRow
  <2> HIDE DEF r, r1
  <2> QED
    BY <1>1, <1>2, <1>3, <1>7, <2>1
<1>8. ASSUME tracker.at = "candidates", tracker'.at = "candidates", NEW c \in tracker.todo,
             tracker'.todo = tracker.todo \ {c}, DOMAIN impact' \subseteq DOMAIN impact \cup {c.key}
      PROVE  TrackStepsLeft' < TrackStepsLeft
  <2>1. t1 = t - 1
    BY <1>8, LeftCounted DEF TrackFinite
  <2>2. i1 <= i + 1
    <3> DEFINE more == DOMAIN impact \cup {c.key}
    <3>1. IsFiniteSet(more) /\ Cardinality(more) \in {i, i + 1}
      BY FS_AddElement, IncompleteFinite
    <3>2. i1 <= Cardinality(more)
      BY <1>8, <3>1, FS_Subset
    <3> HIDE DEF more, i, i1
    <3> QED
      BY <1>1, <3>1, <3>2
  <2> HIDE DEF t, t1, i, i1
  <2> QED
    BY <1>1, <1>3, <1>8, <2>1, <2>2
<1>9. CASE tracker' = NoTrack
  <2>1. TrackStepsLeft' = 0
    BY <1>2, <1>3, <1>9, NoTrackTyped, FS_EmptySet
  <2>2. tracker.at = "candidates" \/ AtRow
    BY DEF ImpactIInv, ImpactTypeOK, AtRow
  <2>3. TrackStepsLeft \in Nat /\ TrackStepsLeft >= 1
    <3> HIDE DEF t, i, r
    <3> QED
      BY <1>1, <1>2, <1>3, <2>2 DEF AtRow
  <2> QED
    BY <2>1, <2>3
<1> QED
  BY <1>5, <1>6, <1>7, <1>8, <1>9, TrackerMoves

(* A run of the tracker ends, whatever fails, with each listed row looked  *)
(* at and each candidate given its price, if it has one; and as long as the*)
(* pairs that never get one are fewer than a page, each of its two listings*)
(* has others, if any are left (news/impact/service.go RunOnce, store.go   *)
(* ListCandidates, ListPendingRows).  What RowsComplete adds is that the   *)
(* next step is taken.                                                     *)
THEOREM RunsReachPriced ==
    ImpactSpec => [](TrackStepsLeft \in Nat) /\ [][TrackHeadway]_impactVars
<1>1. ImpactInit => TrackFinite
  <2> SUFFICES ASSUME ImpactInit PROVE TrackFinite
    OBVIOUS
  <2>1. tracker = NoTrack /\ tracker.todo = {} /\ tracker.rows = {}
    BY NoTrackTyped DEF ImpactInit
  <2> QED
    BY <2>1, FS_EmptySet DEF TrackFinite
<1>2. ImpactIInv /\ TrackFinite /\ [ImpactNext]_impactVars => TrackFinite'
  BY TrackFiniteStep
<1>3. ImpactIInv /\ TrackFinite => TrackStepsLeft \in Nat
  <2> SUFFICES ASSUME ImpactIInv, TrackFinite PROVE TrackStepsLeft \in Nat
    OBVIOUS
  <2> DEFINE t == Cardinality(tracker.todo)
             r == Cardinality(tracker.rows)
             i == Cardinality(DOMAIN impact)
  <2>1. t \in Nat /\ r \in Nat /\ i \in Nat
    BY IncompleteFinite, FS_CardinalityType DEF TrackFinite
  <2>2. PointsLeft \in 0 .. 5
    BY DEF PointsLeft
  <2>3. TrackStepsLeft = 7 * t + 6 * i + 1 \/ TrackStepsLeft = 6 * r + PointsLeft
    BY DEF TrackStepsLeft
  <2> HIDE DEF t, r, i
  <2> QED
    BY <2>1, <2>2, <2>3
<1>4. ImpactIInv /\ TrackFinite /\ ImpactIInv' /\ TrackFinite' /\ [ImpactNext]_impactVars
          => [TrackHeadway]_impactVars
  <2> SUFFICES ASSUME ImpactIInv, TrackFinite, ImpactIInv', TrackFinite', ImpactNext
               PROVE  TrackHeadway
    BY DEF impactVars
  <2>1. tracker.at # "idle" => tracker' = tracker \/ TrackStepsLeft' < TrackStepsLeft
    BY TrackWears
  <2>2. ASSUME impactFaults' = impactFaults, NEW c \in tracker.todo
        PROVE  c \in tracker'.todo \/ impact'[c.key].base = Resolve(c.key[2], c.date)
    <3>1. impactFaults' # impactFaults + 1 /\ tracker.at = "candidates" /\ tracker.todo # {}
      BY <2>2 DEF ImpactIInv, ImpactTypeOK, CandidatesOpen
    <3> QED
      BY <2>2, <3>1, TrackerMoves DEF AtRow
  <2>3. ASSUME impactFaults' = impactFaults, NEW r \in tracker.rows
        PROVE  r \in tracker'.rows \/ This' = r
    <3>1. impactFaults' # impactFaults + 1 /\ AtRow
      BY <2>3 DEF ImpactIInv, ImpactTypeOK, ThisCurrent
    <3>2. CASE TakeFrom(tracker.rows, tracker.now)
      BY <3>2, TakeFromMoves
    <3> QED
      BY <2>3, <3>1, <3>2, TrackerMoves DEF AtRow
  <2>4. ASSUME Cardinality(NeverPriced) < TrackLimit, ListCandidates, Candidates \ NeverPriced # {}
        PROVE  \E c \in tracker'.todo : c.key \notin NeverPriced
    <3>1. PICK p \in FirstPairs(Candidates) : p \notin NeverPriced
      BY <2>4, CandidatesReached
    <3>2. tracker'.todo = {[key |-> q, date |-> stories[q[1]].date] : q \in FirstPairs(Candidates)}
      BY <2>4, NoTrackTyped DEF ListCandidates, ListThese, Candidates, NoTrack
    <3>3. [key |-> p, date |-> stories[p[1]].date] \in tracker'.todo
      BY <3>2
    <3>4. [key |-> p, date |-> stories[p[1]].date].key = p
      OBVIOUS
    <3> QED
      BY <3>1, <3>3, <3>4
  <2>5. ASSUME Cardinality(NeverPriced) < TrackLimit, ListPendingRows, \E r \in Incomplete : r.key \notin NeverPriced
        PROVE  \E r \in tracker'.rows \cup {This'} : r.key \notin NeverPriced
    <3>1. PICK r \in PendingRows : r.key \notin NeverPriced
      BY <2>5, PendingReached
    <3>2. TakeFrom(PendingRows, now)
      BY <2>5 DEF ListPendingRows
    <3>3. r \in tracker'.rows \cup {This'}
      BY <3>2, TakeFromMoves
    <3> QED
      BY <3>1, <3>3
  <2> QED
    BY <2>1, <2>2, <2>3, <2>4, <2>5 DEF TrackHeadway
<1> QED
  BY <1>1, <1>2, <1>3, <1>4, ImpactInvariance, PTL DEF ImpactSpec
=============================================================================
