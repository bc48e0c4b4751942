---------------------------- MODULE MCEngineJobs ----------------------------
(* The supervisor with two of its periodic jobs and the stream; and what   *)
(* the jobs of the news do to their tables.  These systems share nothing,  *)
(* so a behaviour of the instance is one of any of them, while the others  *)
(* are over: a sum of the four, not their product.                         *)
EXTENDS EngineJobs, NewsPipeline, NewsArchive, NewsImpact

CONSTANTS arbitrage, news

Shown(id, link, text, date) == [id |-> id, link |-> link, text |-> text, date |-> date]

MCOrder == <<"rss", "channel">>

(* An undated item, an edited one and one that names the page of another;  *)
(* a post with no link, and one that leads to the page of an article.      *)
MCEditions == [
    rss |-> << <<Shown("1", "u", "old", 2)>>,
               <<Shown("2", "v", "fresh", 0), Shown("1", "u", "new", 1), Shown("3", "u", "same page", 1)>> >>,
    channel |-> << <<Shown("p", "", "post", 1), Shown("q", "u", "cited", 2)>> >>]

(* The coins the articles are about, 1 without candles, and their dates:   *)
(* one is dated anew.                                                      *)
MCMentions == << {{1, 2}}, {{2}} >>
MCDates == << <<2, 1>>, <<2>> >>

-----------------------------------------------------------------------------
mcvars == <<vars, newsVars, archiveVars, impactVars>>

(* A system that is over: nothing of it is enabled.                        *)
NoJobs ==
    /\ signalled = TRUE /\ failed = FALSE /\ exited = TRUE
    /\ job = [j \in Jobs |-> "returned"] /\ stream = "returned"
    /\ conn = FALSE /\ age = 0 /\ inbox = "nothing" /\ why = "nothing"

NoPipeline ==
    /\ edition = [s \in Feeds |-> 0]
    /\ articles = <<>> /\ whole = [s \in Feeds |-> 0] /\ failing = {}
    /\ puller = [NoPull EXCEPT !.at = "over"]
    /\ analyst = [NoAnalysis EXCEPT !.at = "over"]
    /\ pullFaults = PullFaults

NoArchive ==
    /\ papers = <<>> /\ drive = {} /\ exports = <<>>
    /\ archivist = [Resting EXCEPT !.at = "over"]
    /\ archiveFaults = ArchiveFaults

NoImpact ==
    /\ stories = [a \in Stories |-> [coins |-> {}, processed |-> FALSE, date |-> Horizon]]
    /\ impact = <<>> /\ history = {} /\ unrecorded = {}
    /\ tracker = [NoTrack EXCEPT !.at = "over"]
    /\ now = Horizon
    /\ impactFaults = ImpactFaults

MCInit ==
    \/ Init /\ NoPipeline /\ NoArchive /\ NoImpact
    \/ NewsInit /\ NoJobs /\ NoArchive /\ NoImpact
    \/ ArchiveInit /\ NoJobs /\ NoPipeline /\ NoImpact
    \/ ImpactInit /\ NoJobs /\ NoPipeline /\ NoArchive

MCNext ==
    \/ Next /\ UNCHANGED <<newsVars, archiveVars, impactVars>>
    \/ puller.at # "over" /\ NewsNext /\ UNCHANGED <<vars, archiveVars, impactVars>>
    \/ archivist.at # "over" /\ ArchiveNext /\ UNCHANGED <<vars, newsVars, impactVars>>
    \/ tracker.at # "over" /\ ImpactNext /\ UNCHANGED <<vars, newsVars, archiveVars>>

MCSpec ==
    /\ MCInit /\ [][MCNext]_mcvars
    /\ Fairness /\ WF_vars(Arrive)
    /\ NewsFairness /\ ArchiveFairness /\ ImpactFairness

=============================================================================
