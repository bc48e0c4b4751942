----------------------------- MODULE EngineJobs -----------------------------
(***************************************************************************)
(* The engine's supervisor (run, src/engine/cmd/engine/main.go): an        *)
(* errgroup of jobs under one context.  All jobs but one are periodic and  *)
(* alike (RunOnce, then again at every tick of a timer, until RunOnce      *)
(* fails or the context is done).  The other keeps the Binance stream      *)
(* (BinanceStreamJob, src/engine/market/ticker/runtime.go) over a client   *)
(* whose sessions end after 23 hours (src/engine/market/ws/binance.go).    *)
(*                                                                         *)
(* The context may be done at any point.  It is looked at where the code   *)
(* looks at it: a read that waits for Binance does not.                    *)
(*                                                                         *)
(* LeaveOpen, RunFailsAlone and SessionChecked are slips the properties    *)
(* must notice; no action uses them.                                       *)
(***************************************************************************)
EXTENDS Integers

CONSTANTS
    Jobs,           \* the periodic jobs that are enabled
    SessionLimit    \* reconnectAfter in ticks: 23 h

ASSUME SessionLimitAssumption == SessionLimit \in Nat \ {0}

VARIABLES
    signalled,      \* SIGINT or SIGTERM was received
    failed,         \* some job returned an error: the errgroup cancels
    job,            \* where each periodic job is
    stream,         \* where the stream's job is
    conn,           \* whether the client holds a connection
    age,            \* of its session
    inbox,          \* what Binance sent last on it and is not read yet
    why,            \* why the read loop was left
    exited          \* group.Wait returned

clientVars == <<conn, age, inbox>>
vars == <<signalled, failed, job, stream, why, exited, clientVars>>

StreamPoints == {"top", "dial", "check", "read", "ingest", "close", "retry", "returned"}

(* The jobs' context is done.                                              *)
Stopping == signalled \/ failed

Init ==
    /\ signalled = FALSE
    /\ failed = FALSE
    /\ job = [j \in Jobs |-> "run"]
    /\ stream = "top"
    /\ conn = FALSE
    /\ age = 0
    /\ inbox = "nothing"
    /\ why = "nothing"
    /\ exited = FALSE

Signal ==
    /\ ~exited
    /\ signalled' = TRUE
    /\ UNCHANGED <<failed, job, stream, why, exited, clientVars>>

-----------------------------------------------------------------------------
(* A periodic job, j: Run of job.go, scheduler.go and their likes.         *)
MoveJob(j, from, to) ==
    /\ job[j] = from
    /\ job' = [job EXCEPT ![j] = to]
    /\ UNCHANGED <<signalled, stream, why, exited, clientVars>>

RunEnds(j) == MoveJob(j, "run", "wait") /\ UNCHANGED failed

RunFailsAlone(j) == MoveJob(j, "run", "returned") /\ UNCHANGED failed

RunFails(j) == MoveJob(j, "run", "returned") /\ failed' = TRUE

(* A call of RunOnce gives up as the context is done; main drops the error.*)
RunCancelled(j) == Stopping /\ MoveJob(j, "run", "returned") /\ UNCHANGED failed

(* The select: with the context done and the timer due it takes either.    *)
Wake(j) == MoveJob(j, "wait", "run") /\ UNCHANGED failed

Leave(j) == Stopping /\ MoveJob(j, "wait", "returned") /\ UNCHANGED failed

JobStep(j) == RunEnds(j) \/ RunFails(j) \/ RunCancelled(j) \/ Wake(j) \/ Leave(j)

-----------------------------------------------------------------------------
(* The stream's job.                                                       *)
MoveStream(from, to) ==
    /\ stream = from
    /\ stream' = to
    /\ UNCHANGED <<signalled, failed, job, exited>>

Top ==
    /\ MoveStream("top", IF Stopping THEN "returned" ELSE "dial")
    /\ UNCHANGED <<why, clientVars>>

(* Connect refuses while a connection is held.                             *)
Connect ==
    /\ ~conn
    /\ MoveStream("dial", "check")
    /\ conn' = TRUE
    /\ age' = 0
    /\ inbox' = "nothing"
    /\ UNCHANGED why

ConnectFails == MoveStream("dial", "retry") /\ UNCHANGED <<why, clientVars>>

(* ReadMessage looks at the session before it waits, not while it does.    *)
SessionOver == Stopping \/ age = SessionLimit

SessionChecked ==
    /\ MoveStream("check", "read")
    /\ UNCHANGED <<why, clientVars>>

CheckSession ==
    /\ MoveStream("check", IF SessionOver THEN "close" ELSE "read")
    /\ why' \in IF ~SessionOver THEN {why}
                ELSE (IF Stopping THEN {"canceled"} ELSE {})
                       \cup (IF age = SessionLimit THEN {"expired"} ELSE {})
    /\ UNCHANGED clientVars

Read ==
    /\ inbox # "nothing"
    /\ MoveStream("read", IF inbox = "tickers" THEN "ingest" ELSE "close")
    /\ why' = IF inbox = "tickers" THEN why ELSE "broken"
    /\ inbox' = "nothing"
    /\ UNCHANGED <<conn, age>>

(* ProcessBatchBestEffort and the aggregator (TickerFeed): no error here   *)
(* ends the loop.                                                          *)
Ingest == MoveStream("ingest", "check") /\ UNCHANGED <<why, clientVars>>

LeaveOpen ==
    /\ MoveStream("close", IF why = "canceled" THEN "returned" ELSE "retry")
    /\ why' = "nothing"
    /\ UNCHANGED clientVars

Close ==
    /\ MoveStream("close", IF why = "canceled" THEN "returned" ELSE "retry")
    /\ why' = "nothing"
    /\ conn' = FALSE
    /\ age' = 0
    /\ inbox' = "nothing"

(* waitOrCancel *)
Retry ==
    /\ \/ MoveStream("retry", "top")
       \/ Stopping /\ MoveStream("retry", "returned")
    /\ UNCHANGED <<why, clientVars>>

StreamStep ==
    \/ Top \/ Connect \/ ConnectFails \/ CheckSession
    \/ Read \/ Ingest \/ Close \/ Retry

-----------------------------------------------------------------------------
(* Binance sends tickers, something that is not (one bad ticker spoils the *)
(* message), or drops the connection; or nothing, for as long as it likes. *)
Arrive ==
    /\ conn /\ inbox = "nothing"
    /\ inbox' \in {"tickers", "garbage", "cut"}
    /\ UNCHANGED <<signalled, failed, job, stream, conn, age, why, exited>>

Tick ==
    /\ conn /\ age < SessionLimit
    /\ age' = age + 1
    /\ UNCHANGED <<signalled, failed, job, stream, conn, inbox, why, exited>>

Exit ==
    /\ ~exited
    /\ stream = "returned"
    /\ \A j \in Jobs : job[j] = "returned"
    /\ exited' = TRUE
    /\ UNCHANGED <<signalled, failed, job, stream, why, clientVars>>

Next ==
    \/ Signal
    \/ \E j \in Jobs : JobStep(j)
    \/ StreamStep
    \/ Arrive \/ Tick
    \/ Exit

Spec == Init /\ [][Next]_vars

(* The goroutines run, the retry timer fires, and of a context that is     *)
(* done and a timer that is due select does not take the timer for ever.   *)
Fairness ==
    /\ \A j \in Jobs : WF_vars(JobStep(j)) /\ SF_vars(Leave(j))
    /\ WF_vars(StreamStep)
    /\ WF_vars(Exit)

FairSpec == Spec /\ Fairness

(* Binance sends all tickers every second and closes after 24 hours.       *)
TalkingSpec == FairSpec /\ WF_vars(Arrive)

-----------------------------------------------------------------------------
TypeOK ==
    /\ signalled \in BOOLEAN
    /\ failed \in BOOLEAN
    /\ job \in [Jobs -> {"run", "wait", "returned"}]
    /\ stream \in StreamPoints
    /\ conn \in BOOLEAN
    /\ age \in 0 .. SessionLimit
    /\ inbox \in {"nothing", "tickers", "garbage", "cut"}
    /\ why \in {"nothing", "canceled", "expired", "broken"}
    /\ exited \in BOOLEAN

(***************************************************************************)
(* A connection is held from dialling to closing and no longer: the client *)
(* is never asked to connect over one, which it would refuse for ever.     *)
(***************************************************************************)
ConnectionTracked ==
    conn <=> stream \in {"check", "read", "ingest", "close"}

(***************************************************************************)
(* The engine does not go on with a job missing: one that has returned is  *)
(* on account of a signal or takes the others with it.                     *)
(***************************************************************************)
NoJobMissing ==
    (stream = "returned" \/ \E j \in Jobs : job[j] = "returned") => Stopping

(***************************************************************************)
(* Once a job has failed or the engine is told to stop, it does.           *)
(***************************************************************************)
StopsWhenTold == Stopping ~> exited

(***************************************************************************)
(* PRD.md:219 asks for "a context.Context with a 23-hour timeout to force  *)
(* a clean reconnect": a session that has reached its limit is closed.     *)
(***************************************************************************)
SessionsEnd == (conn /\ age = SessionLimit) ~> ~conn

(***************************************************************************)
(* Both: neither a session nor the engine goes on for ever.                *)
(***************************************************************************)
EngineEnds == StopsWhenTold /\ SessionsEnd
=============================================================================
