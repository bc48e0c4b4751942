---------------------------- MODULE NewsArchive ----------------------------
(***************************************************************************)
(* The archive of the news (src/engine/news/archive): a job of the engine  *)
(* writes every article once to the drive, as a file whose path is made of *)
(* its id, its date and its title, and remembers it in                     *)
(* news_article_markdown_exports.  Between the two any statement may fail, *)
(* or be done and its answer lost, and the engine may stop.                *)
(*                                                                         *)
(* An article is what becomes of its path and of its file: the title and   *)
(* whether it was analysed yet.                                            *)
(*                                                                         *)
(* ListAllArticles and FailureEndsRun are the bodies of mutants; no action *)
(* uses them.                                                              *)
(***************************************************************************)
EXTENDS Naturals, FiniteSets

CONSTANTS
    Drafts,         \* the articles there will be: numbers, the newest highest
    Broken,         \* those whose upload fails every time
    ArchiveLimit,   \* the articles of one run
    ArchiveFaults   \* how often a statement may fail or the engine stop

ASSUME DraftsAssumption == Drafts \subseteq Nat
ASSUME ArchiveLimitAssumption == ArchiveLimit \in Nat \ {0}

VARIABLES
    papers,         \* news_articles, with their analysis: what they are now
    drive,          \* what lies on the drive: path and text
    exports,        \* the rows of news_article_markdown_exports
    archivist,      \* where the job is
    archiveFaults   \* how many faults there were

archiveVars == <<papers, drive, exports, archivist, archiveFaults>>

Titles == {"first", "edited"}
Paper == [title : Titles, analysed : BOOLEAN]
Listing == [id : Nat, title : Titles]
File == [path : Nat \X Titles, analysed : BOOLEAN]

NoFile == [path |-> <<0, "first">>, analysed |-> FALSE]
Resting == [at |-> "idle", left |-> {}, file |-> NoFile]

ArchiveInit ==
    /\ papers = <<>>
    /\ drive = {}
    /\ exports = <<>>
    /\ archivist = Resting
    /\ archiveFaults = 0

ArchiveFault == /\ archiveFaults < ArchiveFaults
                /\ archiveFaults' = archiveFaults + 1

-----------------------------------------------------------------------------
(* Meanwhile the other jobs write articles, edit and analyse them.         *)
Appear(a) ==
    /\ a \notin DOMAIN papers
    /\ papers' = [b \in DOMAIN papers \cup {a} |->
                     IF b = a THEN [title |-> "first", analysed |-> FALSE] ELSE papers[b]]
    /\ UNCHANGED <<drive, exports, archivist, archiveFaults>>

Change(a) ==
    /\ a \in DOMAIN papers
    /\ \/ papers' = [papers EXCEPT ![a].title = "edited"]
       \/ papers' = [papers EXCEPT ![a].analysed = TRUE]
    /\ UNCHANGED <<drive, exports, archivist, archiveFaults>>

-----------------------------------------------------------------------------
(* The job.                                                                *)

\* ORDER BY id DESC LIMIT: the newest of these.
FirstOf(rows) == {a \in rows : Cardinality({b \in rows : b > a}) < ArchiveLimit}

\* An article is listed as it is now, its analysis loaded as its turn comes.
Listed(rows) == {[id |-> a, title |-> papers[a].title] : a \in FirstOf(rows)}

ListAllArticles ==
    /\ archivist.at = "idle" /\ DOMAIN papers # {}
    /\ archivist' = [Resting EXCEPT !.at = "load", !.left = Listed(DOMAIN papers)]
    /\ UNCHANGED <<papers, drive, exports, archiveFaults>>

ListUnexported ==
    /\ archivist.at = "idle" /\ DOMAIN papers \ DOMAIN exports # {}
    /\ archivist' = [Resting EXCEPT !.at = "load", !.left = Listed(DOMAIN papers \ DOMAIN exports)]
    /\ UNCHANGED <<papers, drive, exports, archiveFaults>>

\* The article whose turn it is.
IsNewest(a) == a \in archivist.left /\ \A b \in archivist.left : b.id <= a.id

NextPaper(left) ==
    archivist' = IF left = {} THEN Resting ELSE [Resting EXCEPT !.at = "load", !.left = left]

\* Metadata and entities are loaded, and the file is rendered.
Render ==
    /\ archivist.at = "load"
    /\ \E a \in archivist.left :
          /\ IsNewest(a)
          /\ archivist' = [at |-> "upload", left |-> archivist.left \ {a},
                 file |-> [path |-> <<a.id, a.title>>, analysed |-> papers[a.id].analysed]]
    /\ UNCHANGED <<papers, drive, exports, archiveFaults>>

\* The article whose file it is.
Current == archivist.file.path[1]

\* A file replaces the one of its path.
Uploaded(file) == {f \in drive : f.path # file.path} \cup {file}

UploadFile ==
    /\ archivist.at = "upload"
    /\ Current \notin Broken
    /\ drive' = Uploaded(archivist.file)
    /\ archivist' = [archivist EXCEPT !.at = "record"]
    /\ UNCHANGED <<papers, exports, archiveFaults>>

\* The row of the current article names its file.
Recorded ==
    [a \in DOMAIN exports \cup {Current} |-> IF a = Current THEN archivist.file ELSE exports[a]]

\* The link is asked for and the row written.
UpsertExport ==
    /\ archivist.at = "record"
    /\ exports' = Recorded
    /\ NextPaper(archivist.left)
    /\ UNCHANGED <<papers, drive, archiveFaults>>

FailureEndsRun ==
    /\ archivist.at = "upload" /\ Current \in Broken
    /\ archivist' = Resting
    /\ UNCHANGED <<papers, drive, exports, archiveFaults>>

\* An article that fails is passed over.
UploadRefused ==
    /\ archivist.at = "upload"
    /\ Current \in Broken
    /\ NextPaper(archivist.left)
    /\ UNCHANGED <<papers, drive, exports, archiveFaults>>

LoadFails ==
    /\ archivist.at = "load"
    /\ ArchiveFault
    /\ \E a \in archivist.left : IsNewest(a) /\ NextPaper(archivist.left \ {a})
    /\ UNCHANGED <<papers, drive, exports>>

ExportFails ==
    /\ archivist.at \in {"upload", "record"}
    /\ ArchiveFault
    /\ \/ UNCHANGED <<drive, exports>>
       \/ archivist.at = "upload" /\ drive' = Uploaded(archivist.file) /\ UNCHANGED exports
       \/ archivist.at = "record" /\ exports' = Recorded /\ UNCHANGED drive
    /\ NextPaper(archivist.left)
    /\ UNCHANGED papers

\* A list that fails ends the engine, as a crash does.
ArchiveStops ==
    /\ archivist # Resting
    /\ ArchiveFault
    /\ archivist' = Resting
    /\ UNCHANGED <<papers, drive, exports>>

ArchiveStep == ListUnexported \/ Render \/ UploadFile \/ UpsertExport \/ UploadRefused

ArchiveNext ==
    \/ \E a \in Drafts : Appear(a) \/ Change(a)
    \/ ArchiveStep \/ LoadFails \/ ExportFails \/ ArchiveStops

ArchiveSpec == ArchiveInit /\ [][ArchiveNext]_archiveVars

\* The job runs at the ticks of its timer.
ArchiveFairness == WF_archiveVars(ArchiveStep)

-----------------------------------------------------------------------------
(* Rows are of articles there are, and the job's listing is of one row     *)
(* each.                                                                   *)
ArchiveTypeOK ==
    /\ DOMAIN papers \subseteq Nat /\ papers \in [DOMAIN papers -> Paper]
    /\ drive \subseteq File
    /\ DOMAIN exports \subseteq DOMAIN papers /\ exports \in [DOMAIN exports -> File]
    /\ archivist \in [at : {"idle", "load", "upload", "record"}, left : SUBSET Listing, file : File]
    /\ archiveFaults \in Nat

(***************************************************************************)
(* What an export's row names is on the drive, with the very text that was *)
(* exported: an upload that failed, or one repeated under another title,   *)
(* is never taken for it.  And it is exported once: from then on the row   *)
(* names the same file, although the article is edited or analysed later.  *)
(* The upsert would replace the row; that nothing exported is listed again *)
(* keeps it.                                                               *)
(***************************************************************************)
ExportsSound ==
    [][/\ \A a \in DOMAIN exports' : exports'[a] \in drive'
       /\ \A a \in DOMAIN exports : a \in DOMAIN exports' /\ exports'[a] = exports[a]]_archiveVars

(***************************************************************************)
(* Articles that can never be exported do not keep the others from it, as  *)
(* long as they are fewer than a run takes: they are listed again first,   *)
(* or last, in every run.                                                  *)
(***************************************************************************)
OthersExported ==
    Cardinality(Broken) < ArchiveLimit => []<>(DOMAIN papers \ Broken \subseteq DOMAIN exports)
=============================================================================
