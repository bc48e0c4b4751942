----------------------------- MODULE Api_proofs -----------------------------
(***************************************************************************)
(* The API's two parts that keep state, each by itself: sign-in and        *)
(* sessions for any number of requests, rows, wallets and profiles and any *)
(* lifetimes (what is over buys nothing, and each live token beyond the    *)
(* first was paid for by two rotations that overlapped); and plans, for    *)
(* any requests, wallets, chains and cache times.                          *)
(***************************************************************************)
EXTENDS Api, SequenceTheorems, FiniteSetTheorems, TLAPS

(***************************************************************************)
(* Sessions.                                                               *)
(***************************************************************************)
(* The rows by themselves; LiveTokensCounted and AccountsBacked are        *)
(* inductive over them.                                                    *)
RowTypes ==
    /\ users \in Nat
    /\ owner \in [Identities -> 0 .. users]
    /\ nonces \in Seq(Nonce)
    /\ sessions \in Seq(Session)
    /\ tokens \in Seq(Token)
    /\ \A t \in DOMAIN tokens : tokens[t].session \in DOMAIN sessions

LivesOnce == \A s \in DOMAIN sessions : sessions[s].expires = sessions[s].born + RefreshTTL

Rows == RowTypes /\ LivesOnce /\ LiveTokensCounted /\ AccountsBacked

RequestTypes == clock \in 0 .. Horizon /\ req \in [Requests -> Request]

(* What a request has in hand is a row, or a user, that is there.          *)
InPlace(q) ==
    /\ q.now <= clock
    /\ q.pc \in {"token", "session", "rotate", "revoke"} => q.session \in DOMAIN sessions
    /\ q.pc \in {"token", "session", "rotate"} /\ q.kind = "refresh" =>
          q.arg \in DOMAIN tokens /\ tokens[q.arg].session = q.session
    /\ q.pc = "rotate" => q.kind = "refresh"
    /\ q.pc = "nonce" => q.kind = "verify"
    /\ q.pc = "provider" => q.kind = "discord"
    /\ q.pc \in {"nonce", "lookup", "enter"} /\ q.kind = "verify" => q.arg \in DOMAIN nonces
    /\ q.pc \in {"nonce", "provider", "lookup", "enter"} => q.who \in Identities
    /\ q.pc = "enter" => q.user \in {0, owner[q.who]}
    /\ q.pc = "open" => q.kind = "discord" /\ q.user \in 1 .. users

(* One that came late has not yet been where it is refused.                *)
NotLate(q) ==
    q.late =>
        /\ q.pc \notin {"rotate", "provider", "lookup", "enter", "open"}
        /\ q.pc = "token" /\ q.kind = "refresh" => tokens[q.arg].consumed \/ ~sessions[q.session].active
        /\ q.pc = "session" => ~sessions[q.session].active
        /\ q.pc = "nonce" => nonces[q.arg].used
        /\ q.pc = "done" => q.verdict # "ok"

(* What is rotated or answered is within the session's one lifetime.       *)
Serves(q) == q.pc = "done" /\ q.verdict = "ok" /\ q.kind \in {"refresh", "me"}

InTime(q) ==
    q.pc = "rotate" \/ Serves(q) =>
        q.session \in DOMAIN sessions /\ q.now <= sessions[q.session].expires

Caught(q) ==
    q.pc = "done" /\ q.verdict = "reuse" =>
        q.session \in DOMAIN sessions /\ (~q.lost => ~sessions[q.session].active)

Sound(q) == InPlace(q) /\ NotLate(q) /\ InTime(q) /\ Caught(q)

IInv == Rows /\ RequestTypes /\ \A r \in Requests : Sound(req[r])

(* Rows are numbered from 1 and hold what their columns allow.             *)
LEMMA RowFacts ==
    ASSUME RowTypes
    PROVE  /\ Len(nonces) \in Nat /\ DOMAIN nonces = 1 .. Len(nonces)
           /\ Len(sessions) \in Nat /\ DOMAIN sessions = 1 .. Len(sessions)
           /\ Len(tokens) \in Nat /\ DOMAIN tokens = 1 .. Len(tokens)
           /\ \A n \in DOMAIN nonces : nonces[n] \in Nonce
           /\ \A s \in DOMAIN sessions : sessions[s] \in Session
           /\ \A t \in DOMAIN tokens : tokens[t] \in Token
<1>1. nonces \in Seq(Nonce) /\ sessions \in Seq(Session) /\ tokens \in Seq(Token)
  BY DEF RowTypes
<1> QED
  BY <1>1, LenProperties

-----------------------------------------------------------------------------
LEMMA RestingIsRequest == Resting \in Request
  BY DEF Resting, Request, Stages, Kinds, Verdicts

LEMMA RestingIsSound == ASSUME clock \in Nat PROVE Sound(Resting)
  BY DEF Resting, Sound, InPlace, NotLate, InTime, Serves, Caught

LEMMA InitHolds == Init => IInv
<1> SUFFICES ASSUME Init PROVE IInv
  OBVIOUS
<1>1. /\ sessions = <<>> /\ DOMAIN sessions = {}
      /\ tokens = <<>> /\ DOMAIN tokens = {}
      /\ nonces = <<>> /\ users = 0 /\ clock = 0
      /\ owner = [i \in Identities |-> 0]
  BY DEF Init
<1>2. Rows
  BY <1>1, EmptySeq DEF Rows, RowTypes, LivesOnce, LiveTokensCounted, AccountsBacked
<1>3. RequestTypes
  BY RestingIsRequest, TimesAssumption DEF Init, RequestTypes
<1>4. \A r \in Requests : Sound(req[r])
  BY <1>1, RestingIsSound DEF Init
<1> QED
  BY <1>2, <1>3, <1>4 DEF IInv

-----------------------------------------------------------------------------
(***************************************************************************)
(* Time and rows only go forward: what is spent or revoked stays so, what  *)
(* is owned is owned for good.  What holds of a request goes on holding.   *)
(***************************************************************************)
Onward ==
    /\ clock' \in Nat /\ clock <= clock'
    /\ users' \in Nat /\ users <= users'
    /\ \A i \in Identities : owner[i] # 0 => owner'[i] = owner[i]
    /\ \A n \in DOMAIN nonces : n \in DOMAIN nonces' /\ (nonces[n].used => nonces'[n].used)
    /\ \A s \in DOMAIN sessions :
          /\ s \in DOMAIN sessions'
          /\ sessions'[s].expires = sessions[s].expires
          /\ ~sessions[s].active => ~sessions'[s].active
    /\ \A t \in DOMAIN tokens :
          /\ t \in DOMAIN tokens'
          /\ tokens'[t].session = tokens[t].session
          /\ tokens[t].consumed => tokens'[t].consumed

LEMMA StaysSound ==
    ASSUME IInv, Onward, NEW r \in Requests, req'[r] = req[r]
    PROVE  Sound(req[r])'
<1>0. /\ Sound(req[r]) /\ req[r] \in Request /\ clock \in Nat /\ users \in Nat
  BY DEF IInv, Rows, RowTypes, RequestTypes
<1>1. InPlace(req[r])'
  BY <1>0 DEF Onward, Sound, InPlace, Request
<1>2. NotLate(req[r])'
  BY <1>0 DEF Onward, Sound, InPlace, NotLate
<1>3. InTime(req[r])'
  BY <1>0 DEF Onward, Sound, InTime, Serves
<1>4. Caught(req[r])'
  BY <1>0 DEF Onward, Sound, Caught
<1> QED
  BY <1>1, <1>2, <1>3, <1>4 DEF Sound

(* A step of one request that leaves rows and clock as they should be.     *)
LEMMA OneMoves ==
    ASSUME IInv, Rows', Onward, clock' \in 0 .. Horizon,
           NEW r \in Requests, NEW q \in Request,
           req' = [req EXCEPT ![r] = q], Sound(req[r])'
    PROVE  IInv' /\ Onward
<1>0. req \in [Requests -> Request]
  BY DEF IInv, RequestTypes
<1>1. req' \in [Requests -> Request]
  BY <1>0
<1>2. ASSUME NEW o \in Requests
      PROVE  Sound(req[o])'
  <2>1. CASE o = r
    BY <2>1
  <2>2. CASE o # r
    BY <1>0, <2>2, StaysSound
  <2> QED
    BY <2>1, <2>2
<1> QED
  BY <1>1, <1>2 DEF IInv, RequestTypes

(* A step of one request that only reads.                                  *)
LEMMA RowsStand ==
    ASSUME IInv, UNCHANGED <<clock, db>>
    PROVE  Rows' /\ Onward /\ clock' \in 0 .. Horizon
<1>1. UNCHANGED <<clock, users, owner, nonces, sessions, tokens>>
  BY DEF db
<1>2. Rows'
  BY <1>1 DEF IInv, Rows, RowTypes, LivesOnce, LiveTokensCounted, LiveTokens, AccountsBacked
<1>3. Onward
  BY <1>1 DEF IInv, Rows, RowTypes, RequestTypes, Onward
<1> QED
  BY <1>1, <1>2, <1>3 DEF IInv, RequestTypes

LEMMA ReaderHolds ==
    ASSUME IInv, UNCHANGED <<clock, db>>, NEW r \in Requests, NEW q \in Request,
           req' = [req EXCEPT ![r] = q], Sound(q)
    PROVE  IInv' /\ Onward
<1>1. req'[r] = q
  BY DEF IInv, RequestTypes
<1>2. UNCHANGED <<clock, users, owner, nonces, sessions, tokens>>
  BY DEF db
<1>3. Sound(req[r])'
  BY <1>1, <1>2 DEF Sound, InPlace, NotLate, InTime, Serves, Caught
<1> QED
  BY <1>3, RowsStand, OneMoves

LEMMA RefusesHolds ==
    ASSUME IInv, UNCHANGED <<clock, db>>, NEW r \in Requests, Refuses(r)
    PROVE  IInv' /\ Onward
<1>1. Sound(Resting)
  BY RestingIsSound DEF IInv, RequestTypes
<1> QED
  BY <1>1, RestingIsRequest, ReaderHolds DEF Refuses

(* A request that goes on to another statement.                            *)
LEMMA Going ==
    ASSUME NEW q \in Request, NEW stage \in Stages
    PROVE  LET g == [q EXCEPT !.pc = stage]
           IN  /\ g \in Request
               /\ g.pc = stage
               /\ g.kind = q.kind /\ g.arg = q.arg /\ g.session = q.session
               /\ g.who = q.who /\ g.user = q.user /\ g.now = q.now
               /\ g.late = q.late /\ g.lost = q.lost /\ g.verdict = q.verdict
  BY DEF Request

LEMMA GoesHolds ==
    ASSUME IInv, UNCHANGED <<clock, db>>, NEW r \in Requests, NEW stage \in Stages, Goes(r, stage),
           Sound([req[r] EXCEPT !.pc = stage])
    PROVE  IInv' /\ Onward
<1>1. req[r] \in Request /\ req \in [Requests -> Request]
  BY DEF IInv, RequestTypes
<1>2. [req[r] EXCEPT !.pc = stage] \in Request
  BY <1>1, Going DEF Verdicts
<1>3. req' = [req EXCEPT ![r] = [req[r] EXCEPT !.pc = stage]]
  BY <1>1 DEF Goes
<1> QED
  BY <1>2, <1>3, ReaderHolds

LEMMA RevokesHolds ==
    ASSUME IInv, UNCHANGED <<clock, db>>, NEW r \in Requests, NEW verdict \in Verdicts,
           Revokes(r, verdict), req[r].session \in DOMAIN sessions
    PROVE  IInv' /\ Onward
<1> DEFINE v == [[req[r] EXCEPT !.pc = "revoke"] EXCEPT !.verdict = verdict]
<1>1. req[r] \in Request /\ req \in [Requests -> Request] /\ Sound(req[r])
  BY DEF IInv, RequestTypes
<1>2. v \in Request /\ v.pc = "revoke" /\ v.session = req[r].session /\ v.now = req[r].now
  BY <1>1 DEF Request, Stages
<1>3. req' = [req EXCEPT ![r] = v]
  BY <1>1 DEF Revokes
<1>4. Sound(v)
  BY <1>1, <1>2 DEF Sound, InPlace, NotLate, InTime, Serves, Caught
<1> QED
  BY <1>2, <1>3, <1>4, ReaderHolds

(* What is kept of a request that is answered.                             *)
Answered(r, verdict) ==
    [Resting EXCEPT !.pc = "done", !.kind = req[r].kind, !.session = req[r].session, !.now = req[r].now,
                    !.late = req[r].late, !.verdict = verdict]

LEMMA AnsweredFields ==
    ASSUME req \in [Requests -> Request], NEW r \in Requests, NEW verdict \in Verdicts
    PROVE  /\ Answered(r, verdict) \in Request
           /\ Answered(r, verdict).pc = "done"
           /\ Answered(r, verdict).verdict = verdict
           /\ Answered(r, verdict).kind = req[r].kind
           /\ Answered(r, verdict).session = req[r].session
           /\ Answered(r, verdict).now = req[r].now
           /\ Answered(r, verdict).late = req[r].late
<1>1. req[r] \in Request
  OBVIOUS
<1> QED
  BY <1>1, RestingIsRequest DEF Answered, Resting, Request, Stages

-----------------------------------------------------------------------------
(* Arrivals: what a request is sent with is there when it begins.          *)
LEMMA BeginHolds ==
    ASSUME IInv, NEW r \in Requests, NEW first \in Request, Begin(r, first),
           Sound([first EXCEPT !.now = clock])
    PROVE  IInv' /\ Onward
<1>1. [first EXCEPT !.now = clock] \in Request
  BY DEF IInv, RequestTypes, Request
<1> QED
  BY <1>1, ReaderHolds DEF Begin

LEMMA FirstRefresh ==
    ASSUME IInv, NEW t \in DOMAIN tokens
    PROVE  LET first == [Resting EXCEPT
                            !.pc = "token", !.kind = "refresh", !.arg = t, !.session = tokens[t].session,
                            !.late = tokens[t].consumed \/ ~sessions[tokens[t].session].active]
           IN  first \in Request /\ Sound([first EXCEPT !.now = clock])
<1>1. /\ t \in Nat /\ tokens[t] \in Token /\ tokens[t].session \in DOMAIN sessions
      /\ tokens[t].session \in Nat /\ clock \in Nat
  BY RowFacts DEF IInv, Rows, RowTypes, RequestTypes
<1> DEFINE spent == tokens[t].consumed \/ ~sessions[tokens[t].session].active
           first == [Resting EXCEPT
                            !.pc = "token", !.kind = "refresh", !.arg = t, !.session = tokens[t].session,
                            !.late = spent]
           q == [first EXCEPT !.now = clock]
<1>2. /\ q.pc = "token" /\ q.kind = "refresh" /\ q.arg = t /\ q.session = tokens[t].session
      /\ q.now = clock
  BY DEF Resting
<1>3. q.late = spent
  BY Zenon DEF Resting
<1>4. spent \in BOOLEAN
  OBVIOUS
<1>5. first \in Request
  BY <1>1, <1>4, RestingIsRequest DEF Request, Stages, Kinds
<1>6. InPlace(q)
  BY <1>1, <1>2 DEF InPlace
<1>7. NotLate(q)
  BY <1>2, <1>3 DEF NotLate
<1>8. InTime(q) /\ Caught(q)
  BY <1>2 DEF InTime, Serves, Caught
<1> QED
  BY <1>5, <1>6, <1>7, <1>8 DEF Sound

LEMMA FirstMe ==
    ASSUME IInv, NEW s \in DOMAIN sessions
    PROVE  LET first == [Resting EXCEPT !.pc = "session", !.kind = "me", !.session = s, !.late = ~sessions[s].active]
           IN  first \in Request /\ Sound([first EXCEPT !.now = clock])
<1>1. s \in Nat /\ clock \in Nat
  BY RowFacts DEF IInv, Rows, RowTypes, RequestTypes
<1> DEFINE over == ~sessions[s].active
           first == [Resting EXCEPT !.pc = "session", !.kind = "me", !.session = s, !.late = over]
           q == [first EXCEPT !.now = clock]
<1>2. q.pc = "session" /\ q.kind = "me" /\ q.session = s /\ q.now = clock
  BY DEF Resting
<1>3. q.late = over
  BY Zenon DEF Resting
<1>4. over \in BOOLEAN
  OBVIOUS
<1>5. first \in Request
  BY <1>1, <1>4, RestingIsRequest DEF Request, Stages, Kinds
<1>6. InPlace(q) /\ InTime(q) /\ Caught(q)
  BY <1>1, <1>2 DEF InPlace, InTime, Serves, Caught
<1>7. NotLate(q)
  BY <1>2, <1>3 DEF NotLate
<1> QED
  BY <1>5, <1>6, <1>7 DEF Sound

LEMMA FirstVerify ==
    ASSUME IInv, NEW n \in DOMAIN nonces
    PROVE  LET first == [Resting EXCEPT !.pc = "nonce", !.who = nonces[n].wallet, !.kind = "verify", !.arg = n,
                                        !.late = nonces[n].used]
           IN  first \in Request /\ Sound([first EXCEPT !.now = clock])
<1>1. n \in Nat /\ clock \in Nat /\ nonces[n] \in Nonce
  BY RowFacts DEF IInv, Rows, RowTypes, RequestTypes
<1>2. nonces[n].wallet \in Identities /\ nonces[n].used \in BOOLEAN
  BY <1>1 DEF Nonce, Identities
<1> DEFINE first == [Resting EXCEPT !.pc = "nonce", !.who = nonces[n].wallet, !.kind = "verify", !.arg = n,
                                    !.late = nonces[n].used]
           q == [first EXCEPT !.now = clock]
<1>3. /\ q.pc = "nonce" /\ q.kind = "verify" /\ q.arg = n /\ q.who = nonces[n].wallet /\ q.now = clock
      /\ q.late = nonces[n].used
  BY DEF Resting
<1>4. first \in Request
  BY <1>1, <1>2, RestingIsRequest DEF Request, Stages, Kinds
<1>5. InPlace(q) /\ NotLate(q) /\ InTime(q) /\ Caught(q)
  BY <1>1, <1>2, <1>3 DEF InPlace, NotLate, InTime, Serves, Caught
<1> QED
  BY <1>4, <1>5 DEF Sound

LEMMA FirstLogout ==
    ASSUME IInv, NEW s \in DOMAIN sessions, NEW stage \in {"revoke", "token"}
    PROVE  LET first == [Resting EXCEPT !.pc = stage, !.kind = "logout", !.session = s]
           IN  first \in Request /\ Sound([first EXCEPT !.now = clock])
<1>1. s \in Nat /\ clock \in Nat
  BY RowFacts DEF IInv, Rows, RowTypes, RequestTypes
<1> DEFINE first == [Resting EXCEPT !.pc = stage, !.kind = "logout", !.session = s]
           q == [first EXCEPT !.now = clock]
<1>2. q.pc = stage /\ q.kind = "logout" /\ q.session = s /\ q.now = clock /\ q.late = FALSE
  BY DEF Resting
<1>3. first \in Request
  BY <1>1, RestingIsRequest DEF Request, Stages, Kinds
<1>4. InPlace(q) /\ NotLate(q) /\ InTime(q) /\ Caught(q)
  BY <1>1, <1>2 DEF InPlace, NotLate, InTime, Serves, Caught
<1> QED
  BY <1>3, <1>4 DEF Sound

LEMMA FirstDiscord ==
    ASSUME IInv, NEW i \in Profiles
    PROVE  LET first == [Resting EXCEPT !.pc = "provider", !.kind = "discord", !.who = i]
           IN  first \in Request /\ Sound([first EXCEPT !.now = clock])
<1>1. clock \in Nat /\ i \in Identities
  BY DEF IInv, RequestTypes, Identities
<1> DEFINE first == [Resting EXCEPT !.pc = "provider", !.kind = "discord", !.who = i]
           q == [first EXCEPT !.now = clock]
<1>2. q.pc = "provider" /\ q.kind = "discord" /\ q.who = i /\ q.now = clock /\ q.late = FALSE
  BY DEF Resting
<1>3. first \in Request
  BY <1>1, RestingIsRequest DEF Request, Stages, Kinds
<1>4. InPlace(q) /\ NotLate(q) /\ InTime(q) /\ Caught(q)
  BY <1>1, <1>2 DEF InPlace, NotLate, InTime, Serves, Caught
<1> QED
  BY <1>3, <1>4 DEF Sound

LEMMA ArriveHolds ==
    ASSUME IInv, NEW r \in Requests, Arrive(r)
    PROVE  IInv' /\ Onward
<1>1. ASSUME NEW t \in DOMAIN tokens, BeginRefresh(r, t)
      PROVE  IInv' /\ Onward
  BY <1>1, FirstRefresh, BeginHolds DEF BeginRefresh
<1>2. ASSUME NEW t \in DOMAIN tokens, LogoutByRefresh(r, t)
      PROVE  IInv' /\ Onward
  <2>1. tokens[t].session \in DOMAIN sessions
    BY DEF IInv, Rows, RowTypes
  <2> QED
    BY <1>2, <2>1, FirstLogout, BeginHolds DEF LogoutByRefresh, BeginLogout
<1>3. ASSUME NEW s \in DOMAIN sessions, BeginMe(r, s)
      PROVE  IInv' /\ Onward
  BY <1>3, FirstMe, BeginHolds DEF BeginMe
<1>4. ASSUME NEW s \in DOMAIN sessions, LogoutByAccess(r, s)
      PROVE  IInv' /\ Onward
  BY <1>4, FirstLogout, BeginHolds DEF LogoutByAccess, BeginLogout
<1>5. ASSUME NEW n \in DOMAIN nonces, BeginVerify(r, n)
      PROVE  IInv' /\ Onward
  BY <1>5, FirstVerify, BeginHolds DEF BeginVerify
<1>6. ASSUME NEW i \in Profiles, BeginDiscord(r, i)
      PROVE  IInv' /\ Onward
  BY <1>6, FirstDiscord, BeginHolds DEF BeginDiscord
<1> QED
  BY <1>1, <1>2, <1>3, <1>4, <1>5, <1>6 DEF Arrive

-----------------------------------------------------------------------------
(* A request that reads what it has in hand and goes on, or is refused.    *)
LEMMA TheRequest ==
    ASSUME IInv, NEW r \in Requests
    PROVE  req[r] \in Request /\ Sound(req[r]) /\ InPlace(req[r]) /\ NotLate(req[r]) /\ InTime(req[r])
  BY DEF IInv, RequestTypes, Sound

LEMMA ReadTokenHolds ==
    ASSUME IInv, NEW r \in Requests, ReadSpentToken(r) \/ ReadUnspentToken(r)
    PROVE  IInv' /\ Onward
<1> DEFINE q == req[r]
           g == [q EXCEPT !.pc = "session"]
<1>1. q \in Request /\ InPlace(q) /\ NotLate(q) /\ q.pc = "token" /\ q.kind = "refresh"
  BY TheRequest DEF ReadSpentToken, ReadUnspentToken, Reading, At
<1>2. CASE ReadSpentToken(r)
  <2>1. q.session \in DOMAIN sessions
    BY <1>1 DEF InPlace
  <2> QED
    BY <1>2, <2>1, RevokesHolds DEF ReadSpentToken, Verdicts
<1>3. CASE ReadUnspentToken(r)
  <2>1. CASE Refuses(r)
    BY <1>3, <2>1, RefusesHolds DEF ReadUnspentToken
  <2>2. CASE Goes(r, "session")
    <3>1. /\ g.pc = "session" /\ g.kind = "refresh" /\ g.late = q.late /\ g.arg = q.arg
          /\ g.session = q.session /\ g.now = q.now
      BY <1>1, Going DEF Stages
    <3>2. InPlace(g)
      BY <1>1, <3>1 DEF InPlace
    <3>3. NotLate(g)
      BY <1>1, <1>3, <3>1 DEF NotLate, ReadUnspentToken
    <3>4. InTime(g) /\ Caught(g)
      BY <3>1 DEF InTime, Serves, Caught
    <3>5. Sound(g) /\ "session" \in Stages
      BY <3>2, <3>3, <3>4 DEF Sound, Stages
    <3> QED
      BY <1>3, <2>2, <3>5, GoesHolds DEF ReadUnspentToken
  <2> QED
    BY <1>3, <2>1, <2>2 DEF ReadUnspentToken
<1> QED
  BY <1>2, <1>3

(* A session that is active was so when the request began.                 *)
LEMMA ReadSessionHolds ==
    ASSUME IInv, NEW r \in Requests, ReadSession(r)
    PROVE  IInv' /\ Onward
<1> DEFINE q == req[r]
           g == [q EXCEPT !.pc = "rotate"]
<1>1. q \in Request /\ InPlace(q) /\ NotLate(q) /\ q.pc = "session" /\ q.kind = "refresh"
  BY TheRequest DEF ReadSession, Reading, At
<1>2. q.session \in DOMAIN sessions
  BY <1>1 DEF InPlace
<1>3. CASE Refuses(r)
  BY <1>3, RefusesHolds DEF ReadSession
<1>4. CASE sessions[q.session].active /\ Outlived(r) /\ Revokes(r, "none")
  BY <1>2, <1>4, RevokesHolds DEF ReadSession, Verdicts
<1>5. CASE sessions[q.session].active /\ ~Outlived(r) /\ Goes(r, "rotate")
  <2>1. /\ g.pc = "rotate" /\ g.kind = "refresh" /\ g.late = q.late /\ g.arg = q.arg
        /\ g.session = q.session /\ g.now = q.now
    BY <1>1, Going DEF Stages
  <2>2. InPlace(g)
    BY <1>1, <2>1 DEF InPlace
  <2>3. NotLate(g)
    BY <1>1, <1>5, <2>1 DEF NotLate
  <2>4. InTime(g)
    <3>1. sessions[q.session].expires \in Nat /\ q.now \in Nat
      BY <1>1, <1>2, RowFacts DEF IInv, Rows, Session, Request
    <3> QED
      BY <1>2, <1>5, <2>1, <3>1 DEF InTime, Outlived
  <2>5. Caught(g)
    BY <2>1 DEF Caught
  <2>6. Sound(g) /\ "rotate" \in Stages
    BY <2>2, <2>3, <2>4, <2>5 DEF Sound, Stages
  <2> QED
    BY <1>5, <2>6, GoesHolds DEF ReadSession
<1> QED
  BY <1>3, <1>4, <1>5 DEF ReadSession

LEMMA ReadLogoutTokenHolds ==
    ASSUME IInv, NEW r \in Requests, ReadLogoutToken(r)
    PROVE  IInv' /\ Onward
<1> DEFINE q == req[r]
           g == [q EXCEPT !.pc = "revoke"]
<1>1. q \in Request /\ InPlace(q) /\ NotLate(q) /\ q.pc = "token"
  BY TheRequest DEF ReadLogoutToken, Reading, At
<1>2. g.pc = "revoke" /\ g.session = q.session /\ g.now = q.now
  BY <1>1, Going DEF Stages
<1>3. InPlace(g) /\ NotLate(g) /\ InTime(g) /\ Caught(g)
  BY <1>1, <1>2 DEF InPlace, NotLate, InTime, Serves, Caught
<1>4. Sound(g) /\ "revoke" \in Stages
  BY <1>3 DEF Sound, Stages
<1> QED
  BY <1>4, GoesHolds DEF ReadLogoutToken

LEMMA ReadOwnSessionHolds ==
    ASSUME IInv, NEW r \in Requests, ReadOwnSession(r)
    PROVE  IInv' /\ Onward
<1> DEFINE q == req[r]
           s == sessions[q.session]
           a == Answered(r, "ok")
<1>1. q \in Request /\ InPlace(q) /\ NotLate(q) /\ q.pc = "session" /\ q.kind = "me"
  BY TheRequest DEF ReadOwnSession, Reading, At
<1>2. CASE Refuses(r)
  BY <1>2, RefusesHolds DEF ReadOwnSession
<1>3. CASE s.active /\ clock <= s.expires /\ Answers(r, "ok")
  <2>1. /\ a \in Request /\ a.pc = "done" /\ a.verdict = "ok" /\ a.kind = q.kind /\ a.session = q.session
        /\ a.now = q.now /\ a.late = q.late
    BY AnsweredFields DEF IInv, RequestTypes, Verdicts
  <2>2. q.session \in DOMAIN sessions /\ q.now <= clock
    BY <1>1 DEF InPlace
  <2>3. s.expires \in Nat /\ q.now \in Nat /\ clock \in Nat
    BY <1>1, <2>2, RowFacts DEF IInv, Rows, RequestTypes, Session, Request
  <2>4. InPlace(a) /\ Caught(a)
    BY <2>1, <2>2 DEF InPlace, Caught
  <2>5. NotLate(a)
    BY <1>1, <1>3, <2>1 DEF NotLate
  <2>6. InTime(a)
    BY <1>3, <2>1, <2>2, <2>3 DEF InTime
  <2>7. Sound(a) /\ req' = [req EXCEPT ![r] = a]
    BY <1>3, <2>4, <2>5, <2>6 DEF Sound, Answers, Answered
  <2> QED
    BY <2>1, <2>7, ReaderHolds DEF ReadOwnSession
<1> QED
  BY <1>2, <1>3 DEF ReadOwnSession

LEMMA ReadNonceHolds ==
    ASSUME IInv, NEW r \in Requests, ReadNonce(r)
    PROVE  IInv' /\ Onward
<1> DEFINE q == req[r]
           g == [q EXCEPT !.pc = "lookup"]
<1>1. q \in Request /\ InPlace(q) /\ NotLate(q) /\ q.pc = "nonce"
  BY TheRequest DEF ReadNonce, At
<1>2. CASE Refuses(r)
  BY <1>2, RefusesHolds DEF ReadNonce
<1>3. CASE ~nonces[q.arg].used /\ Goes(r, "lookup")
  <2>1. /\ g.pc = "lookup" /\ g.kind = q.kind /\ g.arg = q.arg /\ g.who = q.who /\ g.now = q.now
        /\ g.late = q.late
    BY <1>1, Going DEF Stages
  <2>2. InPlace(g)
    BY <1>1, <2>1 DEF InPlace
  <2>3. NotLate(g)
    BY <1>1, <1>3, <2>1 DEF NotLate
  <2>4. InTime(g) /\ Caught(g)
    BY <2>1 DEF InTime, Serves, Caught
  <2>5. Sound(g) /\ "lookup" \in Stages
    BY <2>2, <2>3, <2>4 DEF Sound, Stages
  <2> QED
    BY <1>3, <2>5, GoesHolds DEF ReadNonce
<1> QED
  BY <1>2, <1>3 DEF ReadNonce

LEMMA DiscordAnswersHolds ==
    ASSUME IInv, NEW r \in Requests, DiscordAnswers(r)
    PROVE  IInv' /\ Onward
<1> DEFINE q == req[r]
           g == [[q EXCEPT !.pc = "lookup"] EXCEPT !.now = clock]
<1>1. q \in Request /\ InPlace(q) /\ NotLate(q) /\ q.pc = "provider" /\ clock \in Nat
  BY TheRequest DEF DiscordAnswers, At, IInv, RequestTypes
<1>2. /\ g \in Request /\ g.pc = "lookup" /\ g.kind = q.kind /\ g.arg = q.arg /\ g.who = q.who
      /\ g.now = clock /\ g.late = q.late
  BY <1>1 DEF Request, Stages
<1>3. req' = [req EXCEPT ![r] = g]
  BY DEF DiscordAnswers, IInv, RequestTypes
<1>4. InPlace(g)
  BY <1>1, <1>2 DEF InPlace
<1>5. NotLate(g) /\ InTime(g) /\ Caught(g)
  BY <1>1, <1>2 DEF NotLate, InTime, Serves, Caught
<1> QED
  BY <1>2, <1>3, <1>4, <1>5, ReaderHolds DEF Sound, DiscordAnswers

LEMMA LookUpHolds ==
    ASSUME IInv, NEW r \in Requests, LookUp(r)
    PROVE  IInv' /\ Onward
<1> DEFINE q == req[r]
           g == [[q EXCEPT !.pc = "enter"] EXCEPT !.user = owner[q.who]]
<1>1. q \in Request /\ InPlace(q) /\ NotLate(q) /\ q.pc = "lookup"
  BY TheRequest DEF LookUp, At
<1>2. owner[q.who] \in Nat
  BY <1>1 DEF InPlace, IInv, Rows, RowTypes
<1>3. /\ g \in Request /\ g.pc = "enter" /\ g.kind = q.kind /\ g.arg = q.arg /\ g.who = q.who
      /\ g.now = q.now /\ g.late = q.late /\ g.user = owner[q.who]
  BY <1>1, <1>2 DEF Request, Stages
<1>4. req' = [req EXCEPT ![r] = g]
  BY DEF LookUp, IInv, RequestTypes
<1>5. InPlace(g)
  BY <1>1, <1>3 DEF InPlace
<1>6. NotLate(g) /\ InTime(g) /\ Caught(g)
  BY <1>1, <1>3 DEF NotLate, InTime, Serves, Caught
<1> QED
  BY <1>3, <1>4, <1>5, <1>6, ReaderHolds DEF Sound, LookUp

(* The revocation is lost: what was caught is refused all the same.        *)
LEMMA RevokeFailsHolds ==
    ASSUME IInv, NEW r \in Requests, RevokeFails(r)
    PROVE  IInv' /\ Onward
<1> DEFINE q == req[r]
           g == [[[q EXCEPT !.pc = "done"] EXCEPT !.lost = TRUE] EXCEPT !.arg = 0]
<1>1. q \in Request /\ InPlace(q) /\ NotLate(q) /\ q.pc = "revoke"
  BY TheRequest DEF RevokeFails, At
<1>2. CASE q.verdict = "reuse"
  <2>1. /\ g \in Request /\ g.pc = "done" /\ g.verdict = "reuse" /\ g.session = q.session
        /\ g.now = q.now /\ g.lost = TRUE
    BY <1>1, <1>2 DEF Request, Stages
  <2>2. req' = [req EXCEPT ![r] = g]
    BY <1>2 DEF RevokeFails, IInv, RequestTypes
  <2>3. InPlace(g) /\ NotLate(g) /\ InTime(g) /\ Caught(g)
    BY <1>1, <2>1 DEF InPlace, NotLate, InTime, Serves, Caught
  <2> QED
    BY <2>1, <2>2, <2>3, ReaderHolds DEF Sound, RevokeFails
<1>3. CASE q.verdict # "reuse"
  <2>1. Refuses(r)
    BY <1>3 DEF RevokeFails, Refuses, IInv, RequestTypes
  <2> QED
    BY <2>1, RefusesHolds DEF RevokeFails
<1> QED
  BY <1>2, <1>3

-----------------------------------------------------------------------------
(***************************************************************************)
(* Steps that write.  A row is changed or appended, the others stand.      *)
(***************************************************************************)
LEMMA NoneMoves ==
    ASSUME IInv, Rows', Onward, clock' \in 0 .. Horizon, UNCHANGED req
    PROVE  IInv' /\ Onward
<1>1. \A r \in Requests : Sound(req[r])'
  BY StaysSound
<1> QED
  BY <1>1 DEF IInv, RequestTypes

LEMMA TickHolds == ASSUME IInv, Tick PROVE IInv' /\ Onward
<1>1. UNCHANGED <<users, owner, nonces, sessions, tokens>>
  BY DEF Tick, db
<1>2. Rows'
  BY <1>1 DEF IInv, Rows, RowTypes, LivesOnce, LiveTokensCounted, LiveTokens, AccountsBacked
<1>3. clock' \in 0 .. Horizon /\ clock <= clock' /\ clock' \in Nat
  BY TimesAssumption DEF Tick, IInv, RequestTypes
<1>4. Onward
  BY <1>1, <1>3 DEF IInv, Rows, RowTypes, Onward
<1> QED
  BY <1>2, <1>3, <1>4, NoneMoves DEF Tick

LEMMA StandsHolds == ASSUME IInv, UNCHANGED vars PROVE IInv' /\ Onward
<1>1. UNCHANGED <<clock, db>> /\ UNCHANGED req
  BY DEF vars
<1> QED
  BY <1>1, RowsStand, NoneMoves

LEMMA NonceHolds ==
    ASSUME IInv, NEW w \in Wallets, RequestWeb3Nonce(w)
    PROVE  IInv' /\ Onward
<1> DEFINE e == [wallet |-> w, used |-> FALSE, expires |-> clock + NonceTTL]
<1>1. e \in Nonce /\ nonces \in Seq(Nonce) /\ nonces' = Append(nonces, e)
  BY TimesAssumption DEF RequestWeb3Nonce, Nonce, IInv, Rows, RowTypes, RequestTypes
<1>2. UNCHANGED <<clock, users, owner, sessions, tokens, req>>
  BY DEF RequestWeb3Nonce
<1> HIDE DEF e
<1>3. /\ nonces' \in Seq(Nonce)
      /\ Len(nonces') = Len(nonces) + 1
      /\ \A i \in 1 .. Len(nonces) : nonces'[i] = nonces[i]
  BY <1>1, AppendProperties
<1>4. DOMAIN nonces = 1 .. Len(nonces) /\ DOMAIN nonces' = 1 .. Len(nonces') /\ Len(nonces) \in Nat
  BY <1>1, <1>3, LenProperties
<1>5. Rows'
  BY <1>2, <1>3 DEF IInv, Rows, RowTypes, LivesOnce, LiveTokensCounted, LiveTokens, AccountsBacked
<1>6. Onward
  BY <1>2, <1>3, <1>4 DEF IInv, Rows, RowTypes, RequestTypes, Onward
<1> QED
  BY <1>2, <1>5, <1>6, NoneMoves DEF IInv, RequestTypes

LEMMA SessionSet ==
    ASSUME RowTypes, NEW s \in DOMAIN sessions, NEW e \in Session, sessions' = [sessions EXCEPT ![s] = e]
    PROVE  /\ sessions' \in Seq(Session)
           /\ DOMAIN sessions' = DOMAIN sessions
           /\ Len(sessions') = Len(sessions)
           /\ \A x \in DOMAIN sessions : sessions'[x] = IF x = s THEN e ELSE sessions[x]
<1>1. sessions \in Seq(Session) /\ DOMAIN sessions = 1 .. Len(sessions)
  BY RowFacts DEF RowTypes
<1>2. /\ sessions' \in Seq(Session)
      /\ Len(sessions') = Len(sessions)
      /\ \A x \in 1 .. Len(sessions) : sessions'[x] = IF x = s THEN e ELSE sessions[x]
  BY <1>1, ExceptSeq
<1>3. DOMAIN sessions' = 1 .. Len(sessions')
  BY <1>2, LenProperties
<1> QED
  BY <1>1, <1>2, <1>3

(* revokeSession leaves a session as it was, but for its status.           *)
LEMMA RevokeHolds ==
    ASSUME IInv, NEW r \in Requests, Revoke(r)
    PROVE  IInv' /\ Onward
<1> DEFINE q == req[r]
           e == [sessions[q.session] EXCEPT !.active = FALSE]
           a == Answered(r, "reuse")
<1>1. q \in Request /\ InPlace(q) /\ NotLate(q) /\ q.pc = "revoke"
  BY TheRequest DEF Revoke, At
<1>2. /\ q.session \in DOMAIN sessions /\ sessions[q.session] \in Session
      /\ RowTypes /\ clock \in Nat
  BY <1>1, RowFacts DEF InPlace, IInv, Rows, RequestTypes
<1>3. /\ e \in Session /\ e.active = FALSE /\ e.user = sessions[q.session].user
      /\ e.born = sessions[q.session].born /\ e.expires = sessions[q.session].expires
      /\ e.forks = sessions[q.session].forks
  BY <1>2 DEF Session
<1>4. /\ sessions' = [sessions EXCEPT ![q.session] = e]
      /\ UNCHANGED <<clock, users, owner, nonces, tokens>>
  BY <1>2 DEF Revoke
<1> HIDE DEF e
<1>5. /\ sessions' \in Seq(Session)
      /\ DOMAIN sessions' = DOMAIN sessions
      /\ \A x \in DOMAIN sessions : sessions'[x] = IF x = q.session THEN e ELSE sessions[x]
  BY <1>2, <1>3, <1>4, SessionSet
<1>6. \A x \in DOMAIN sessions :
         /\ sessions'[x].user = sessions[x].user /\ sessions'[x].born = sessions[x].born
         /\ sessions'[x].expires = sessions[x].expires /\ sessions'[x].forks = sessions[x].forks
         /\ ~sessions[x].active => ~sessions'[x].active
  BY <1>3, <1>5
<1>7. Rows'
  <2>1. RowTypes' /\ LivesOnce' /\ AccountsBacked'
    BY <1>4, <1>5, <1>6 DEF IInv, Rows, RowTypes, LivesOnce, AccountsBacked
  <2>2. LiveTokensCounted'
    BY <1>4, <1>5, <1>6 DEF IInv, Rows, LiveTokensCounted, LiveTokens
  <2> QED
    BY <2>1, <2>2 DEF Rows
<1>8. Onward /\ clock' \in 0 .. Horizon
  BY <1>2, <1>4, <1>5, <1>6 DEF IInv, RowTypes, RequestTypes, Onward
<1>9. CASE q.verdict = "reuse" /\ Answers(r, "reuse")
  <2>1. /\ a \in Request /\ a.pc = "done" /\ a.verdict = "reuse" /\ a.session = q.session /\ a.now = q.now
    BY AnsweredFields DEF IInv, RequestTypes, Verdicts
  <2>2. req' = [req EXCEPT ![r] = a] /\ req'[r] = a
    BY <1>9 DEF Answers, Answered, IInv, RequestTypes
  <2>3. Sound(req[r])'
    BY <1>1, <1>2, <1>3, <1>4, <1>5, <2>1, <2>2 DEF Sound, InPlace, NotLate, InTime, Serves, Caught
  <2> QED
    BY <1>7, <1>8, <2>1, <2>2, <2>3, OneMoves
<1>10. CASE Refuses(r)
  <2>1. req' = [req EXCEPT ![r] = Resting] /\ req'[r] = Resting
    BY <1>10 DEF Refuses, IInv, RequestTypes
  <2>2. Sound(req[r])'
    BY <1>2, <1>4, <2>1 DEF Resting, Sound, InPlace, NotLate, InTime, Serves, Caught
  <2> QED
    BY <1>7, <1>8, <2>1, <2>2, RestingIsRequest, OneMoves
<1> QED
  BY <1>9, <1>10 DEF Revoke

LEMMA LiveFinite == ASSUME RowTypes, NEW s PROVE IsFiniteSet(LiveTokens(s)) /\ LiveTokens(s) \subseteq DOMAIN tokens
<1>1. DOMAIN tokens = 1 .. Len(tokens) /\ Len(tokens) \in Nat
  BY RowFacts
<1>2. IsFiniteSet(DOMAIN tokens)
  BY <1>1, FS_Interval
<1> QED
  BY <1>2, FS_Subset DEF LiveTokens

(* Of a token's fields, consumed alone is ever written.                    *)
LEMMA TokenSpent ==
    ASSUME RowTypes, NEW t \in DOMAIN tokens, NEW e \in Token,
           tokens' = Append([tokens EXCEPT ![t].consumed = TRUE], e)
    PROVE  /\ tokens' \in Seq(Token)
           /\ DOMAIN tokens' = DOMAIN tokens \cup {Len(tokens) + 1}
           /\ Len(tokens) + 1 \notin DOMAIN tokens
           /\ tokens'[Len(tokens) + 1] = e
           /\ \A x \in DOMAIN tokens : tokens'[x].session = tokens[x].session
           /\ \A x \in DOMAIN tokens : tokens'[x].consumed <=> x = t \/ tokens[x].consumed
<1> DEFINE spent == [tokens[t] EXCEPT !.consumed = TRUE]
           mid == [tokens EXCEPT ![t] = spent]
<1>1. tokens \in Seq(Token) /\ DOMAIN tokens = 1 .. Len(tokens) /\ Len(tokens) \in Nat /\ tokens[t] \in Token
  BY RowFacts DEF RowTypes
<1>2. spent \in Token /\ spent.session = tokens[t].session /\ spent.consumed = TRUE
  BY <1>1 DEF Token
<1>3. tokens' = Append(mid, e)
  OBVIOUS
<1> HIDE DEF spent
<1>4. /\ mid \in Seq(Token)
      /\ Len(mid) = Len(tokens)
      /\ \A x \in 1 .. Len(tokens) : mid[x] = IF x = t THEN spent ELSE tokens[x]
  BY <1>1, <1>2, ExceptSeq
<1> HIDE DEF mid
<1>5. /\ tokens' \in Seq(Token)
      /\ Len(tokens') = Len(tokens) + 1
      /\ tokens'[Len(tokens) + 1] = e
      /\ \A x \in 1 .. Len(tokens) : tokens'[x] = mid[x]
  <2>1. /\ Append(mid, e) \in Seq(Token)
        /\ Len(Append(mid, e)) = Len(mid) + 1
        /\ \A x \in 1 .. Len(mid) : Append(mid, e)[x] = mid[x]
        /\ Append(mid, e)[Len(mid) + 1] = e
    BY <1>4, AppendProperties
  <2> QED
    BY <1>3, <1>4, <2>1
<1>6. DOMAIN tokens' = 1 .. Len(tokens) + 1
  BY <1>5, LenProperties
<1>7. \A x \in DOMAIN tokens : tokens'[x] = IF x = t THEN spent ELSE tokens[x]
  BY <1>1, <1>4, <1>5
<1>8. \A x \in DOMAIN tokens : tokens'[x].session = tokens[x].session
  BY <1>2, <1>7
<1>9. \A x \in DOMAIN tokens : tokens'[x].consumed <=> x = t \/ tokens[x].consumed
  BY <1>2, <1>7
<1> QED
  BY <1>1, <1>5, <1>6, <1>8, <1>9

(* The new token takes the place of the one it was had for; if that had    *)
(* been taken by another rotation already, it is one more.                 *)
LEMMA RotationCounted ==
    ASSUME RowTypes, NEW t \in DOMAIN tokens, NEW now \in Nat,
           tokens' = Append([tokens EXCEPT ![t].consumed = TRUE], NewToken(tokens[t].session, now)),
           NEW x \in DOMAIN sessions
    PROVE  Cardinality(LiveTokens(x))' =
               IF x = tokens[t].session /\ tokens[t].consumed THEN Cardinality(LiveTokens(x)) + 1
               ELSE Cardinality(LiveTokens(x))
<1> DEFINE s == tokens[t].session
           e == NewToken(s, now)
           n == Len(tokens) + 1
<1>1. e \in Token /\ e.session = s /\ e.consumed = FALSE
  BY RowFacts, TimesAssumption DEF NewToken, Token
<1> HIDE DEF e
<1>2. /\ DOMAIN tokens' = DOMAIN tokens \cup {n}
      /\ n \notin DOMAIN tokens
      /\ tokens'[n] = e
      /\ \A y \in DOMAIN tokens : tokens'[y].session = tokens[y].session
      /\ \A y \in DOMAIN tokens : tokens'[y].consumed <=> y = t \/ tokens[y].consumed
  BY <1>1, TokenSpent DEF e
<1>3. IsFiniteSet(LiveTokens(x)) /\ LiveTokens(x) \subseteq DOMAIN tokens
  BY LiveFinite
<1> HIDE DEF n
<1>4. CASE x = s
  <2>1. LiveTokens(x)' = (LiveTokens(x) \ {t}) \cup {n}
    BY <1>1, <1>2, <1>4 DEF LiveTokens
  <2>2. t \in LiveTokens(x) <=> ~tokens[t].consumed
    BY <1>4 DEF LiveTokens
  <2>3. n \notin LiveTokens(x) \ {t}
    BY <1>2, <1>3
  <2>4. /\ IsFiniteSet(LiveTokens(x) \ {t})
        /\ Cardinality(LiveTokens(x) \ {t}) =
              IF t \in LiveTokens(x) THEN Cardinality(LiveTokens(x)) - 1 ELSE Cardinality(LiveTokens(x))
    BY <1>3, FS_RemoveElement
  <2>5. Cardinality((LiveTokens(x) \ {t}) \cup {n}) = Cardinality(LiveTokens(x) \ {t}) + 1
    BY <2>3, <2>4, FS_AddElement
  <2>6. Cardinality(LiveTokens(x)) \in Nat
    BY <1>3, FS_CardinalityType
  <2>7. Cardinality(LiveTokens(x))' = Cardinality(LiveTokens(x) \ {t}) + 1
    BY <2>1, <2>5
  <2> QED
    BY <1>4, <2>2, <2>4, <2>6, <2>7
<1>5. CASE x # s
  <2>1. LiveTokens(x)' = LiveTokens(x)
    BY <1>1, <1>2, <1>5 DEF LiveTokens
  <2> QED
    BY <1>5, <2>1
<1> QED
  BY <1>4, <1>5

LEMMA RotateHolds ==
    ASSUME IInv, NEW r \in Requests, Rotate(r)
    PROVE  IInv' /\ Onward
<1> DEFINE q == req[r]
           old == sessions[q.session]
           forks == IF tokens[q.arg].consumed THEN old.forks + 1 ELSE old.forks
           e == [[old EXCEPT !.seen = q.now] EXCEPT !.forks = forks]
           a == Answered(r, "ok")
<1>1. /\ q \in Request /\ InPlace(q) /\ NotLate(q) /\ InTime(q) /\ q.pc = "rotate"
      /\ RowTypes
  BY TheRequest DEF Rotate, At, IInv, Rows
<1>2. /\ q.session \in DOMAIN sessions /\ old \in Session
      /\ q.arg \in DOMAIN tokens /\ tokens[q.arg].session = q.session /\ q.kind = "refresh"
      /\ q.now <= clock /\ q.now \in Nat /\ clock \in Nat
      /\ q.session \in Nat \ {0}
  BY <1>1, RowFacts DEF InPlace, IInv, RequestTypes, Request
<1>3. forks \in Nat
  BY <1>2 DEF Session
<1>4. sessions' = [sessions EXCEPT ![q.session] = e]
  BY <1>1, <1>2, RowFacts DEF Rotate
<1> HIDE DEF forks
<1>5. /\ e \in Session /\ e.user = old.user /\ e.active = old.active
      /\ e.born = old.born /\ e.expires = old.expires /\ e.forks = forks
  BY <1>2, <1>3 DEF Session
<1> HIDE DEF e
<1>6. /\ sessions' \in Seq(Session)
      /\ DOMAIN sessions' = DOMAIN sessions
      /\ \A x \in DOMAIN sessions : sessions'[x] = IF x = q.session THEN e ELSE sessions[x]
  BY <1>1, <1>2, <1>4, <1>5, SessionSet
<1>7. \A x \in DOMAIN sessions :
         /\ sessions'[x].user = sessions[x].user /\ sessions'[x].born = sessions[x].born
         /\ sessions'[x].expires = sessions[x].expires /\ sessions'[x].active = sessions[x].active
         /\ sessions'[x].forks = IF x = q.session THEN forks ELSE sessions[x].forks
  BY <1>5, <1>6
<1> DEFINE new == NewToken(q.session, q.now)
<1>8. new \in Token /\ new.session = q.session
  BY <1>2, TimesAssumption DEF NewToken, Token
<1>9. tokens' = Append([tokens EXCEPT ![q.arg].consumed = TRUE], new) /\ UNCHANGED <<clock, users, owner, nonces>>
  BY DEF Rotate
<1> HIDE DEF new
<1>10. /\ tokens' \in Seq(Token)
       /\ DOMAIN tokens' = DOMAIN tokens \cup {Len(tokens) + 1}
       /\ tokens'[Len(tokens) + 1] = new
       /\ \A x \in DOMAIN tokens : tokens'[x].session = tokens[x].session
       /\ \A x \in DOMAIN tokens : tokens'[x].consumed <=> x = q.arg \/ tokens[x].consumed
  BY <1>1, <1>2, <1>8, <1>9, TokenSpent
<1>11. Rows'
  <2>1. RowTypes'
    BY <1>2, <1>6, <1>8, <1>9, <1>10 DEF IInv, Rows, RowTypes
  <2>2. LivesOnce' /\ AccountsBacked'
    BY <1>6, <1>7, <1>9 DEF IInv, Rows, LivesOnce, AccountsBacked
  <2>3. ASSUME NEW x \in DOMAIN sessions
        PROVE  Cardinality(LiveTokens(x))' = 1 + sessions'[x].forks
    <3>1. Cardinality(LiveTokens(x))' =
             IF x = q.session /\ tokens[q.arg].consumed THEN Cardinality(LiveTokens(x)) + 1
             ELSE Cardinality(LiveTokens(x))
      BY <1>1, <1>2, <1>9, RotationCounted DEF new
    <3>2. Cardinality(LiveTokens(x)) = 1 + sessions[x].forks /\ sessions[x].forks \in Nat
      BY <1>1, RowFacts DEF IInv, Rows, LiveTokensCounted, Session
    <3> QED
      BY <1>7, <3>1, <3>2 DEF forks
  <2>4. LiveTokensCounted'
    BY <1>6, <2>3 DEF LiveTokensCounted
  <2> QED
    BY <2>1, <2>2, <2>4 DEF Rows
<1>12. Onward /\ clock' \in 0 .. Horizon
  BY <1>1, <1>2, <1>6, <1>7, <1>9, <1>10 DEF IInv, RowTypes, RequestTypes, Onward
<1>13. /\ a \in Request /\ a.pc = "done" /\ a.verdict = "ok" /\ a.session = q.session /\ a.now = q.now
       /\ a.late = q.late
  BY AnsweredFields DEF IInv, RequestTypes, Verdicts
<1>14. req' = [req EXCEPT ![r] = a] /\ req'[r] = a
  BY DEF Rotate, Answers, Answered, IInv, RequestTypes
<1>15. Sound(req[r])'
  <2>1. InPlace(req[r])' /\ Caught(req[r])'
    BY <1>2, <1>9, <1>13, <1>14 DEF InPlace, Caught
  <2>2. NotLate(req[r])'
    BY <1>1, <1>13, <1>14 DEF NotLate
  <2>3. InTime(req[r])'
    BY <1>1, <1>6, <1>7, <1>13, <1>14 DEF InTime
  <2> QED
    BY <2>1, <2>2, <2>3 DEF Sound
<1> QED
  BY <1>11, <1>12, <1>13, <1>14, <1>15, OneMoves

-----------------------------------------------------------------------------
(* Of two that saw no user, the second fails: a user's one identity is his *)
(* own, and an identity keeps its user.                                    *)
OneEach == \A u \in 1 .. users : \E i \in Identities : owner[i] = u /\ \A j \in Identities \ {i} : owner[j] # u

LEMMA UserEntersHolds ==
    ASSUME IInv, NEW r \in Requests, At(r, "enter"), UserEnters(r)
    PROVE  /\ users \in Nat /\ users' \in Nat /\ users <= users' /\ UserOf(r) \in 1 .. users'
           /\ owner' \in [Identities -> 0 .. users']
           /\ \A i \in Identities : owner[i] # 0 => owner'[i] = owner[i]
           /\ OneEach'
<1> DEFINE q == req[r]
<1>1. /\ q \in Request /\ InPlace(q) /\ users \in Nat /\ owner \in [Identities -> 0 .. users]
      /\ OneEach
  BY TheRequest DEF IInv, Rows, RowTypes, AccountsBacked, OneEach
<1>2. q.who \in Identities /\ q.user \in {0, owner[q.who]}
  BY <1>1 DEF InPlace, At
<1>3. CASE Fresh(r)
  <2>1. /\ owner[q.who] = 0 /\ users' = users + 1 /\ UserOf(r) = users + 1
        /\ owner' = [owner EXCEPT ![q.who] = users + 1]
    BY <1>3 DEF UserEnters, UserOf
  <2>2. owner'[q.who] = users + 1 /\ \A j \in Identities \ {q.who} : owner'[j] = owner[j]
    BY <1>1, <1>2, <2>1
  <2>3. owner' \in [Identities -> 0 .. users']
    BY <1>1, <1>2, <2>1
  <2>4. ASSUME NEW u \in 1 .. users + 1
        PROVE  \E i \in Identities : owner'[i] = u /\ \A j \in Identities \ {i} : owner'[j] # u
    <3>1. CASE u = users + 1
      <4>1. \A j \in Identities \ {q.who} : owner[j] \in 0 .. users
        BY <1>1
      <4>2. \A j \in Identities \ {q.who} : owner'[j] # u
        BY <1>1, <2>2, <3>1, <4>1
      <4> QED
        BY <1>2, <2>2, <3>1, <4>2
    <3>2. CASE u # users + 1
      <4>1. u \in 1 .. users
        BY <1>1, <3>2
      <4>2. PICK i \in Identities : owner[i] = u /\ \A j \in Identities \ {i} : owner[j] # u
        BY <1>1, <4>1 DEF OneEach
      <4>3. i # q.who
        BY <2>1, <4>1, <4>2
      <4> QED
        BY <2>2, <3>2, <4>2, <4>3
    <3> QED
      BY <3>1, <3>2
  <2>5. OneEach'
    BY <2>1, <2>4 DEF OneEach
  <2> QED
    BY <1>1, <2>1, <2>2, <2>3, <2>5
<1>4. CASE ~Fresh(r)
  <2>1. q.user # 0 /\ q.user = owner[q.who]
    BY <1>2, <1>4 DEF Fresh
  <2>2. users' = users /\ UserOf(r) = q.user /\ owner' = owner
    BY <1>1, <1>2, <1>4, <2>1 DEF UserEnters, UserOf
  <2>3. UserOf(r) \in 1 .. users
    BY <1>1, <1>2, <2>1, <2>2
  <2> QED
    BY <1>1, <2>2, <2>3 DEF OneEach
<1> QED
  BY <1>3, <1>4

(* A session is opened with one token, and no token points to it before.   *)
LEMMA OpensHolds ==
    ASSUME IInv, NEW u \in Nat \ {0}, NEW now \in Nat,
           sessions' = Append(sessions, NewSession(u, now)),
           tokens' = Append(tokens, NewToken(Len(sessions) + 1, now))
    PROVE  /\ sessions' \in Seq(Session) /\ tokens' \in Seq(Token)
           /\ \A s \in DOMAIN sessions : s \in DOMAIN sessions' /\ sessions'[s] = sessions[s]
           /\ \A s \in DOMAIN sessions' \ DOMAIN sessions : sessions'[s].user = u
           /\ \A t \in DOMAIN tokens : t \in DOMAIN tokens' /\ tokens'[t] = tokens[t]
           /\ \A t \in DOMAIN tokens' : tokens'[t].session \in DOMAIN sessions'
           /\ LivesOnce' /\ LiveTokensCounted'
<1> DEFINE new == NewSession(u, now)
           own == NewToken(Len(sessions) + 1, now)
           s1 == Len(sessions) + 1
           t1 == Len(tokens) + 1
<1>1. /\ RowTypes /\ sessions \in Seq(Session) /\ tokens \in Seq(Token)
      /\ Len(sessions) \in Nat /\ Len(tokens) \in Nat
      /\ DOMAIN sessions = 1 .. Len(sessions) /\ DOMAIN tokens = 1 .. Len(tokens)
      /\ \A t \in DOMAIN tokens : tokens[t].session \in DOMAIN sessions
  BY RowFacts DEF IInv, Rows, RowTypes
<1>2. /\ new \in Session /\ new.user = u /\ new.expires = new.born + RefreshTTL /\ new.forks = 0
      /\ own \in Token /\ own.session = s1 /\ own.consumed = FALSE
  BY <1>1, TimesAssumption DEF NewSession, NewToken, Session, Token
<1> HIDE DEF new, own
<1>3. /\ sessions' \in Seq(Session)
      /\ Len(sessions') = s1
      /\ \A s \in 1 .. Len(sessions) : sessions'[s] = sessions[s]
      /\ sessions'[s1] = new
  BY <1>1, <1>2, AppendProperties DEF new
<1>4. /\ tokens' \in Seq(Token)
      /\ Len(tokens') = t1
      /\ \A t \in 1 .. Len(tokens) : tokens'[t] = tokens[t]
      /\ tokens'[t1] = own
  BY <1>1, <1>2, AppendProperties DEF own
<1>5. DOMAIN sessions' = 1 .. s1 /\ DOMAIN tokens' = 1 .. t1
  BY <1>3, <1>4, LenProperties
<1>6. LivesOnce'
  BY <1>1, <1>2, <1>3, <1>5 DEF IInv, Rows, LivesOnce
<1>7. ASSUME NEW s \in DOMAIN sessions
      PROVE  Cardinality(LiveTokens(s))' = 1 + sessions'[s].forks
  <2>1. LiveTokens(s)' = LiveTokens(s)
    BY <1>1, <1>2, <1>4, <1>5 DEF LiveTokens
  <2>2. Cardinality(LiveTokens(s)) = 1 + sessions[s].forks
    BY DEF IInv, Rows, LiveTokensCounted
  <2> QED
    BY <1>1, <1>3, <2>1, <2>2
<1>8. ASSUME NEW s \in {s1}
      PROVE  Cardinality(LiveTokens(s))' = 1 + sessions'[s].forks
  <2>1. LiveTokens(s)' = {t1}
    BY <1>1, <1>2, <1>4, <1>5 DEF LiveTokens
  <2>2. Cardinality({t1}) = 1
    BY FS_Singleton
  <2>3. Cardinality(LiveTokens(s))' = 1
    BY <2>1, <2>2
  <2> QED
    BY <1>2, <1>3, <2>3
<1>9. LiveTokensCounted'
  BY <1>1, <1>5, <1>7, <1>8 DEF LiveTokensCounted
<1> QED
  BY <1>1, <1>2, <1>3, <1>4, <1>5, <1>6, <1>9

(* A wallet's one transaction: nonce, user, identity, session and token.   *)
LEMMA WalletEntersHolds ==
    ASSUME IInv, NEW r \in Requests, WalletEnters(r)
    PROVE  IInv' /\ Onward
<1> DEFINE q == req[r]
           e == [nonces[q.arg] EXCEPT !.used = TRUE]
           a == Answered(r, "ok")
<1>1. /\ q \in Request /\ InPlace(q) /\ NotLate(q) /\ q.pc = "enter" /\ q.kind = "verify"
      /\ RowTypes /\ clock \in Nat /\ q.now \in Nat
  BY TheRequest DEF WalletEnters, At, IInv, Rows, RequestTypes, Request
<1>2. /\ users \in Nat /\ users' \in Nat /\ users <= users' /\ UserOf(r) \in 1 .. users'
      /\ owner' \in [Identities -> 0 .. users']
      /\ \A i \in Identities : owner[i] # 0 => owner'[i] = owner[i]
      /\ OneEach'
  BY UserEntersHolds DEF WalletEnters
<1>3. UserOf(r) \in Nat \ {0}
  BY <1>2
<1>4. /\ sessions' \in Seq(Session) /\ tokens' \in Seq(Token)
      /\ \A s \in DOMAIN sessions : s \in DOMAIN sessions' /\ sessions'[s] = sessions[s]
      /\ \A s \in DOMAIN sessions' \ DOMAIN sessions : sessions'[s].user = UserOf(r)
      /\ \A t \in DOMAIN tokens : t \in DOMAIN tokens' /\ tokens'[t] = tokens[t]
      /\ \A t \in DOMAIN tokens' : tokens'[t].session \in DOMAIN sessions'
      /\ LivesOnce' /\ LiveTokensCounted'
  BY <1>1, <1>3, OpensHolds DEF WalletEnters, Opens
<1>5. /\ nonces \in Seq(Nonce) /\ q.arg \in DOMAIN nonces /\ DOMAIN nonces = 1 .. Len(nonces)
      /\ nonces[q.arg] \in Nonce
  BY <1>1, RowFacts DEF InPlace, RowTypes
<1>6. e \in Nonce /\ e.used = TRUE /\ nonces' = [nonces EXCEPT ![q.arg] = e]
  BY <1>5 DEF WalletEnters, Nonce
<1> HIDE DEF e
<1>7. /\ nonces' \in Seq(Nonce) /\ Len(nonces') = Len(nonces)
      /\ \A n \in 1 .. Len(nonces) : nonces'[n] = IF n = q.arg THEN e ELSE nonces[n]
  BY <1>5, <1>6, ExceptSeq
<1>8. DOMAIN nonces' = DOMAIN nonces
  BY <1>5, <1>7, LenProperties
<1>9. Rows'
  <2>1. RowTypes'
    BY <1>2, <1>4, <1>7 DEF RowTypes
  <2>2. ASSUME NEW s \in DOMAIN sessions'
        PROVE  sessions'[s].user <= users'
    <3>1. CASE s \in DOMAIN sessions
      <4>1. sessions[s].user <= users /\ sessions[s].user \in Nat
        BY <1>1, <3>1, RowFacts DEF IInv, Rows, AccountsBacked, Session
      <4> QED
        BY <1>2, <1>4, <3>1, <4>1
    <3>2. CASE s \notin DOMAIN sessions
      BY <1>2, <1>4, <3>2
    <3> QED
      BY <3>1, <3>2
  <2>3. AccountsBacked'
    BY <1>2, <2>2 DEF AccountsBacked, OneEach
  <2> QED
    BY <1>4, <2>1, <2>3 DEF Rows
<1>10. clock' = clock
  BY DEF WalletEnters
<1>11. Onward /\ clock' \in 0 .. Horizon
  BY <1>1, <1>2, <1>4, <1>5, <1>6, <1>7, <1>8, <1>10 DEF IInv, RequestTypes, Onward
<1>12. /\ a \in Request /\ a.pc = "done" /\ a.verdict = "ok" /\ a.kind = q.kind /\ a.now = q.now
       /\ a.late = q.late
  BY AnsweredFields DEF IInv, RequestTypes, Verdicts
<1>13. req' = [req EXCEPT ![r] = a] /\ req'[r] = a
  BY DEF WalletEnters, Answers, Answered, IInv, RequestTypes
<1>14. Sound(req[r])'
  BY <1>1, <1>10, <1>12, <1>13 DEF Sound, InPlace, NotLate, InTime, Serves, Caught
<1> QED
  BY <1>9, <1>11, <1>12, <1>13, <1>14, OneMoves

(* Discord's two transactions.                                             *)
LEMMA DiscordEntersHolds ==
    ASSUME IInv, NEW r \in Requests, DiscordEnters(r)
    PROVE  IInv' /\ Onward
<1> DEFINE q == req[r]
           g == [[q EXCEPT !.pc = "open"] EXCEPT !.user = UserOf(r)]
<1>1. q \in Request /\ InPlace(q) /\ NotLate(q) /\ q.pc = "enter" /\ q.kind = "discord"
      /\ RowTypes
  BY TheRequest DEF DiscordEnters, At, IInv, Rows
<1>2. /\ users \in Nat /\ users' \in Nat /\ users <= users' /\ UserOf(r) \in 1 .. users'
      /\ owner' \in [Identities -> 0 .. users']
      /\ \A i \in Identities : owner[i] # 0 => owner'[i] = owner[i]
      /\ OneEach'
  BY UserEntersHolds DEF DiscordEnters
<1>3. UNCHANGED <<clock, nonces, sessions, tokens>>
  BY DEF DiscordEnters
<1>4. Rows'
  <2>1. RowTypes'
    BY <1>1, <1>2, <1>3 DEF RowTypes
  <2>2. LivesOnce' /\ LiveTokensCounted'
    BY <1>3 DEF IInv, Rows, LivesOnce, LiveTokensCounted, LiveTokens
  <2>3. \A s \in DOMAIN sessions : sessions[s].user <= users /\ sessions[s].user \in Nat
    BY <1>1, RowFacts DEF IInv, Rows, AccountsBacked, Session
  <2>4. AccountsBacked'
    BY <1>2, <1>3, <2>3 DEF AccountsBacked, OneEach
  <2> QED
    BY <2>1, <2>2, <2>4 DEF Rows
<1>5. Onward /\ clock' \in 0 .. Horizon
  BY <1>2, <1>3 DEF IInv, RequestTypes, Onward
<1>6. /\ g \in Request /\ g.pc = "open" /\ g.user = UserOf(r) /\ g.kind = q.kind /\ g.now = q.now
      /\ g.late = q.late
  <2>1. UserOf(r) \in Nat
    BY <1>2
  <2> QED
    BY <1>1, <2>1 DEF Request, Stages
<1>7. req' = [req EXCEPT ![r] = g] /\ req'[r] = g
  BY DEF DiscordEnters, IInv, RequestTypes
<1> HIDE DEF g
<1>8. Sound(req[r])'
  <2>1. InPlace(req[r])'
    BY <1>1, <1>2, <1>3, <1>6, <1>7 DEF InPlace
  <2>2. NotLate(req[r])' /\ InTime(req[r])' /\ Caught(req[r])'
    BY <1>1, <1>6, <1>7 DEF NotLate, InTime, Serves, Caught
  <2> QED
    BY <2>1, <2>2 DEF Sound
<1> QED
  BY <1>4, <1>5, <1>6, <1>7, <1>8, OneMoves

LEMMA OpenSessionHolds ==
    ASSUME IInv, NEW r \in Requests, OpenSession(r)
    PROVE  IInv' /\ Onward
<1> DEFINE q == req[r]
           a == Answered(r, "ok")
<1>1. /\ q \in Request /\ InPlace(q) /\ NotLate(q) /\ q.pc = "open" /\ q.kind = "discord"
      /\ RowTypes /\ q.now \in Nat
  BY TheRequest DEF OpenSession, At, IInv, Rows, InPlace, Request
<1>2. q.user \in 1 .. users /\ users \in Nat /\ q.user \in Nat \ {0}
  BY <1>1 DEF InPlace, RowTypes
<1>3. /\ sessions' \in Seq(Session) /\ tokens' \in Seq(Token)
      /\ \A s \in DOMAIN sessions : s \in DOMAIN sessions' /\ sessions'[s] = sessions[s]
      /\ \A s \in DOMAIN sessions' \ DOMAIN sessions : sessions'[s].user = q.user
      /\ \A t \in DOMAIN tokens : t \in DOMAIN tokens' /\ tokens'[t] = tokens[t]
      /\ \A t \in DOMAIN tokens' : tokens'[t].session \in DOMAIN sessions'
      /\ LivesOnce' /\ LiveTokensCounted'
  BY <1>1, <1>2, OpensHolds DEF OpenSession, Opens
<1>4. UNCHANGED <<clock, users, owner, nonces>>
  BY DEF OpenSession
<1>5. Rows'
  <2>1. RowTypes'
    BY <1>1, <1>3, <1>4 DEF RowTypes
  <2>2. \A s \in DOMAIN sessions' : sessions'[s].user <= users
    BY <1>2, <1>3 DEF IInv, Rows, AccountsBacked
  <2>3. AccountsBacked'
    BY <1>4, <2>2 DEF IInv, Rows, AccountsBacked
  <2> QED
    BY <1>3, <2>1, <2>3 DEF Rows
<1>6. Onward /\ clock' \in 0 .. Horizon
  BY <1>2, <1>3, <1>4 DEF IInv, RequestTypes, Onward
<1>7. /\ a \in Request /\ a.pc = "done" /\ a.verdict = "ok" /\ a.kind = q.kind /\ a.now = q.now
      /\ a.late = q.late
  BY AnsweredFields DEF IInv, RequestTypes, Verdicts
<1>8. req' = [req EXCEPT ![r] = a] /\ req'[r] = a
  BY DEF OpenSession, Answers, Answered, IInv, RequestTypes
<1>9. Sound(req[r])'
  BY <1>1, <1>4, <1>7, <1>8 DEF Sound, InPlace, NotLate, InTime, Serves, Caught
<1> QED
  BY <1>5, <1>6, <1>7, <1>8, <1>9, OneMoves

-----------------------------------------------------------------------------
LEMMA StepHolds ==
    ASSUME IInv, NEW r \in Requests, Step(r)
    PROVE  IInv' /\ Onward
<1>1. CASE Fail(r)
  BY <1>1, RefusesHolds DEF Fail
<1>2. CASE ~Fail(r)
  BY <1>2, ReadTokenHolds, ReadSessionHolds, RotateHolds, ReadLogoutTokenHolds, RevokeHolds,
     RevokeFailsHolds, ReadOwnSessionHolds, ReadNonceHolds, LookUpHolds, DiscordAnswersHolds,
     WalletEntersHolds, DiscordEntersHolds, OpenSessionHolds DEF Step
<1> QED
  BY <1>1, <1>2

LEMMA NextHolds ==
    ASSUME IInv, [Next]_vars
    PROVE  IInv' /\ Onward
BY TickHolds, NonceHolds, ArriveHolds, StepHolds, StandsHolds DEF Next

LEMMA InvAlways == Spec => []IInv
BY InitHolds, NextHolds, PTL DEF Spec

(* No statement of service.go and web3.go takes anything back: an identity *)
(* stays its user's, a used nonce used, a consumed token consumed and of   *)
(* its session, and a revoked session is never active again nor lives any  *)
(* longer, whatever handlers overlap and whichever statements fail.        *)
THEOREM RowsOnlyGoOn == Spec => [][Onward]_vars
<1>1. IInv /\ [Next]_vars => [Onward]_vars
  BY NextHolds
<1> QED
  BY <1>1, InvAlways, PTL DEF Spec

(***************************************************************************)
(* Sign-in keeps the abstract book.  A session has one live token more than*)
(* it was forked, so only its own row says what is in the book.            *)
(***************************************************************************)
LEMMA LiveByForks ==
    ASSUME IInv, IInv'
    PROVE  /\ LiveCounts = [s \in DOMAIN sessions |-> 1 + sessions[s].forks]
           /\ LiveCounts' = [s \in DOMAIN sessions' |-> 1 + sessions'[s].forks]
<1>1. LiveTokensCounted /\ LiveTokensCounted'
  BY DEF IInv, Rows
<1> QED
  BY <1>1 DEF LiveTokensCounted, LiveCounts

LEMMA BookStands ==
    ASSUME IInv, IInv', UNCHANGED <<owner, sessions>> PROVE UNCHANGED Book!bookVars
BY LiveByForks DEF Book!bookVars, Holders, OpenSessions

(* The identity that enters has a user, or gets one nobody has.            *)
LEMMA EnteringEnrols ==
    ASSUME IInv, NEW r \in Requests, At(r, "enter"), UserEnters(r)
    PROVE  /\ req[r].who \in Identities
           /\ owner'[req[r].who] = UserOf(r) /\ UserOf(r) # 0
           /\ UNCHANGED owner \/ Book!Enrol(req[r].who, UserOf(r))
<1>1. /\ req[r] \in Request /\ InPlace(req[r])
      /\ users \in Nat /\ owner \in [Identities -> 0 .. users]
  BY TheRequest DEF IInv, Rows, RowTypes
<1>2. req[r].who \in Identities /\ req[r].user \in {0, owner[req[r].who]}
  BY <1>1 DEF InPlace, At
<1>3. owner' = [owner EXCEPT ![req[r].who] = UserOf(r)]
  BY DEF UserEnters
<1>4. CASE Fresh(r)
  <2>1. owner[req[r].who] = 0 /\ UserOf(r) = users + 1
    BY <1>4 DEF UserEnters, UserOf
  <2>2. UserOf(r) # 0 /\ \A j \in Identities : owner[j] # UserOf(r)
    BY <1>1, <2>1
  <2> QED
    BY <1>1, <1>2, <1>3, <2>1, <2>2 DEF Book!Enrol
<1>5. CASE ~Fresh(r)
  <2>1. req[r].user # 0 /\ UserOf(r) = owner[req[r].who]
    BY <1>2, <1>5 DEF Fresh, UserOf
  <2> QED
    BY <1>1, <1>2, <1>3, <1>5, <2>1 DEF Fresh
<1> QED
  BY <1>4, <1>5

(* What is appended to the sessions is appended to the book.               *)
LEMMA OpeningSignsIn ==
    ASSUME IInv, IInv', NEW i \in Identities, NEW now,
           UNCHANGED owner \/ Book!Enrol(i, owner'[i]), owner'[i] # 0,
           sessions' = Append(sessions, NewSession(owner'[i], now))
    PROVE  Book!SignIn(i)
<1> DEFINE u == owner'[i]
           n == Len(sessions)
           new == NewSession(u, now)
<1>1. /\ n \in Nat /\ DOMAIN sessions = 1 .. n /\ sessions \in Seq(Session)
      /\ \A s \in 1 .. n : sessions[s] \in Session
  BY RowFacts DEF IInv, Rows, RowTypes
<1>2. /\ DOMAIN sessions' = 1 .. n + 1
      /\ sessions'[n + 1] = new
      /\ \A s \in 1 .. n : sessions'[s] = sessions[s]
  BY <1>1
<1>3. new.user = u /\ new.active = TRUE /\ new.forks = 0
  BY DEF NewSession
<1> HIDE DEF u, n, new
<1>4. Holders' = Append(Holders, u)
  <2>1. Holders = [s \in 1 .. n |-> sessions[s].user]
    BY <1>1 DEF Holders
  <2>2. Holders' = [s \in 1 .. n + 1 |-> IF s = n + 1 THEN u ELSE sessions[s].user]
    BY <1>1, <1>2, <1>3 DEF Holders
  <2> QED
    BY <1>1, <2>1, <2>2
<1>5. LiveCounts' = Append(LiveCounts, 1)
  <2>1. LiveCounts = [s \in 1 .. n |-> 1 + sessions[s].forks]
    BY <1>1, LiveByForks
  <2>2. LiveCounts' = [s \in 1 .. n + 1 |-> IF s = n + 1 THEN 1 ELSE 1 + sessions[s].forks]
    BY <1>1, <1>2, <1>3, LiveByForks
  <2> QED
    BY <1>1, <2>1, <2>2
<1>6. Len(Holders') = n + 1
  BY <1>1, <1>2 DEF Holders
<1>7. OpenSessions' = OpenSessions \cup {n + 1}
  BY <1>1, <1>2, <1>3 DEF OpenSessions
<1> QED
  BY <1>4, <1>5, <1>6, <1>7 DEF Book!SignIn, u

LEMMA RevokeCloses ==
    ASSUME IInv, IInv', NEW r \in Requests, Revoke(r)
    PROVE  [Book!BookNext]_Book!bookVars
<1> DEFINE s == req[r].session
           e == [sessions[s] EXCEPT !.active = FALSE]
<1>1. s \in DOMAIN sessions /\ RowTypes /\ sessions[s] \in Session
  BY TheRequest, RowFacts DEF Revoke, At, InPlace, IInv, Rows
<1>2. e \in Session /\ e.user = sessions[s].user /\ e.forks = sessions[s].forks /\ e.active = FALSE
  BY <1>1 DEF Session
<1>3. sessions' = [sessions EXCEPT ![s] = e] /\ UNCHANGED owner
  BY <1>1 DEF Revoke
<1> HIDE DEF e
<1>4. /\ DOMAIN sessions' = DOMAIN sessions
      /\ \A x \in DOMAIN sessions : sessions'[x] = IF x = s THEN e ELSE sessions[x]
  BY <1>1, <1>2, <1>3, SessionSet
<1> HIDE DEF s
<1>5. UNCHANGED <<owner, Holders, LiveCounts>>
  BY <1>2, <1>3, <1>4, LiveByForks DEF Holders
<1>6. OpenSessions' = OpenSessions \ {s}
  BY <1>2, <1>4 DEF OpenSessions
<1>7. CASE s \in OpenSessions
  <2>1. Book!Close(s)
    BY <1>5, <1>6, <1>7 DEF Book!Close
  <2>2. s \in DOMAIN Holders
    BY <1>1 DEF Holders
  <2> QED
    BY <2>1, <2>2 DEF Book!BookNext
<1>8. CASE s \notin OpenSessions
  BY <1>5, <1>6, <1>8 DEF Book!bookVars
<1> QED
  BY <1>7, <1>8

LEMMA RotateForksOrStands ==
    ASSUME IInv, IInv', NEW r \in Requests, Rotate(r)
    PROVE  [Book!BookNext]_Book!bookVars
<1> DEFINE s == req[r].session
           late == tokens[req[r].arg].consumed
           forks == IF late THEN sessions[s].forks + 1 ELSE sessions[s].forks
           e == [[sessions[s] EXCEPT !.seen = req[r].now] EXCEPT !.forks = forks]
<1>1. /\ s \in DOMAIN sessions /\ RowTypes /\ sessions[s] \in Session
      /\ req[r].now \in Nat
  BY TheRequest, RowFacts DEF Rotate, At, InPlace, IInv, Rows, Request
<1>2. forks \in Nat
  BY <1>1 DEF Session
<1>3. sessions' = [sessions EXCEPT ![s] = e] /\ UNCHANGED owner
  BY <1>1, RowFacts DEF Rotate
<1> HIDE DEF forks
<1>4. /\ e \in Session /\ e.user = sessions[s].user /\ e.active = sessions[s].active
      /\ e.forks = forks
  BY <1>1, <1>2 DEF Session
<1> HIDE DEF e
<1>5. /\ DOMAIN sessions' = DOMAIN sessions
      /\ \A x \in DOMAIN sessions : sessions'[x] = IF x = s THEN e ELSE sessions[x]
  BY <1>1, <1>3, <1>4, SessionSet
<1> HIDE DEF s, late
<1>6. UNCHANGED <<owner, Holders, OpenSessions>>
  BY <1>3, <1>4, <1>5 DEF Holders, OpenSessions
<1>7. \A x \in DOMAIN sessions : sessions[x].forks \in Nat
  BY <1>1, RowFacts DEF Session
<1>8. CASE late
  <2>1. LiveCounts' = [LiveCounts EXCEPT ![s] = @ + 1]
    <3>1. LiveCounts' = [x \in DOMAIN sessions |-> IF x = s THEN 1 + forks ELSE 1 + sessions[x].forks]
      BY <1>4, <1>5, LiveByForks
    <3>2. 1 + forks = (1 + sessions[s].forks) + 1
      BY <1>1, <1>7, <1>8 DEF forks
    <3> QED
      BY <1>1, <3>1, <3>2, LiveByForks
  <2>2. Book!Fork(s)
    BY <1>6, <2>1 DEF Book!Fork
  <2>3. s \in DOMAIN Holders
    BY <1>1 DEF Holders
  <2> QED
    BY <2>2, <2>3 DEF Book!BookNext
<1>9. CASE ~late
  <2>1. UNCHANGED LiveCounts
    BY <1>4, <1>5, <1>9, LiveByForks DEF forks
  <2> QED
    BY <1>6, <2>1 DEF Book!bookVars
<1> QED
  BY <1>8, <1>9

LEMMA NextKeepsBook ==
    ASSUME IInv, IInv', [Next]_vars
    PROVE  [Book!BookNext]_Book!bookVars
<1>1. ASSUME NEW r \in Requests, WalletEnters(r) PROVE Book!BookNext
  <2>1. Book!SignIn(req[r].who)
    BY <1>1, EnteringEnrols, OpeningSignsIn DEF WalletEnters, Opens
  <2> QED
    BY <1>1, <2>1, EnteringEnrols DEF WalletEnters, Book!BookNext
<1>2. ASSUME NEW r \in Requests, DiscordEnters(r) PROVE [Book!BookNext]_Book!bookVars
  <2>1. /\ UNCHANGED sessions /\ req[r].who \in Identities /\ owner'[req[r].who] = UserOf(r)
        /\ UNCHANGED owner \/ Book!Enrol(req[r].who, UserOf(r))
    BY <1>2, EnteringEnrols DEF DiscordEnters
  <2>2. UNCHANGED <<Holders, OpenSessions, LiveCounts>>
    BY <2>1, LiveByForks DEF Holders, OpenSessions
  <2> QED
    BY <2>1, <2>2, BookStands DEF Book!BookNext, Book!SignUp
<1>3. ASSUME NEW r \in Requests, OpenSession(r) PROVE Book!BookNext
  <2>1. /\ UNCHANGED owner /\ req[r].user # 0
        /\ sessions' = Append(sessions, NewSession(req[r].user, req[r].now))
    BY <1>3, TheRequest DEF OpenSession, Opens, At, InPlace
  <2>2. PICK i \in Identities : owner[i] = req[r].user
    BY <1>3, TheRequest DEF OpenSession, At, InPlace, IInv, Rows, AccountsBacked
  <2>3. Book!SignIn(i)
    BY <2>1, <2>2, OpeningSignsIn
  <2> QED
    BY <2>3 DEF Book!BookNext
<1>4. ASSUME NEW r \in Requests, Step(r) PROVE [Book!BookNext]_Book!bookVars
  <2>1. CASE UNCHANGED <<owner, sessions>>
    BY <2>1, BookStands
  <2>2. CASE Rotate(r) \/ Revoke(r)
    BY <2>2, RotateForksOrStands, RevokeCloses
  <2>3. CASE WalletEnters(r) \/ DiscordEnters(r) \/ OpenSession(r)
    BY <1>1, <1>2, <1>3, <2>3
  <2>4. UNCHANGED <<owner, sessions>> \/ Rotate(r) \/ Revoke(r)
           \/ WalletEnters(r) \/ DiscordEnters(r) \/ OpenSession(r)
    BY <1>4 DEF Step, Fail, ReadSpentToken, ReadUnspentToken, ReadSession, ReadLogoutToken, RevokeFails,
       ReadOwnSession, ReadNonce, LookUp, DiscordAnswers, db
  <2> QED
    BY <2>1, <2>2, <2>3, <2>4
<1>5. CASE \E r \in Requests : Step(r)
  BY <1>4, <1>5
<1>6. CASE ~\E r \in Requests : Step(r)
  <2>1. UNCHANGED <<owner, sessions>>
    BY <1>6 DEF Next, Tick, RequestWeb3Nonce, Arrive, BeginRefresh, BeginLogout, LogoutByAccess,
       LogoutByRefresh, BeginMe, BeginVerify, BeginDiscord, Begin, db, vars
  <2> QED
    BY <2>1, BookStands
<1> QED
  BY <1>5, <1>6

(* However sign-ins, refreshes and logouts of service.go and web3.go       *)
(* overlap, fail half-way or come late, users and sessions are those of the*)
(* abstract book: no session opens for nobody or reopens, no two identities*)
(* get one user, and tokens are replaced one for one but for counted forks.*)
THEOREM SignInKeepsBook == Spec => KeepsBook
<1>1. Init => Book!BookInit
  <2> SUFFICES ASSUME Init PROVE Book!BookInit
    OBVIOUS
  <2>1. sessions = <<>> /\ DOMAIN sessions = {} /\ owner = [i \in Identities |-> 0]
    BY DEF Init
  <2>2. Holders = <<>> /\ LiveCounts = <<>> /\ OpenSessions = {}
    BY <2>1 DEF Holders, LiveCounts, OpenSessions
  <2> QED
    BY <2>1, <2>2 DEF Book!BookInit
<1> QED
  BY <1>1, InvAlways, NextKeepsBook, PTL DEF Spec, KeepsBook, Book!BookSpec

(* The variables of AuthSessions keep their types, and a token's session   *)
(* is there.                                                               *)
THEOREM TypeCorrect == Spec => []TypeOK
<1>1. IInv => TypeOK
  BY DEF IInv, Rows, RowTypes, RequestTypes, TypeOK
<1> QED
  BY <1>1, InvAlways, PTL

(* Refresh, Me and VerifyWeb3Signature (api/auth/service.go): no request   *)
(* that began after its token or nonce was spent, its session revoked, is  *)
(* answered as good, and none is served when the session's one lifetime,   *)
(* counted from the sign-in, is over.                                      *)
THEOREM EndsAlwaysFinal == Spec => []EndsAreFinal
<1>1. ASSUME IInv PROVE LateComersRefused
  BY <1>1 DEF IInv, Sound, NotLate, LateComersRefused, Done, At
<1>2. ASSUME IInv PROVE LifetimeKept
  <2>1. ASSUME NEW r \in Requests, Done(r, "ok"), req[r].kind \in {"refresh", "me"}
        PROVE  req[r].now <= sessions[req[r].session].born + RefreshTTL
    <3>1. /\ req[r].session \in DOMAIN sessions
          /\ req[r].now <= sessions[req[r].session].expires
      BY <1>2, <2>1 DEF IInv, Sound, InTime, Serves, Done, At
    <3> QED
      BY <1>2, <3>1 DEF IInv, Rows, LivesOnce
  <2> QED
    BY <2>1 DEF LifetimeKept
<1>3. IInv => EndsAreFinal
  BY <1>1, <1>2 DEF EndsAreFinal
<1> QED
  BY <1>3, InvAlways, PTL

(* service.go:372: however many rotations of one token overlap, a session  *)
(* has exactly one live token and one more for each that came too late.    *)
THEOREM LiveTokensAlwaysCounted == Spec => []LiveTokensCounted
<1>1. IInv => LiveTokensCounted
  BY DEF IInv, Rows
<1> QED
  BY <1>1, InvAlways, PTL

(* service.go:346: a token presented again leaves its session revoked, for *)
(* good, unless the revoking UPDATE was lost.                              *)
THEOREM ReuseAlwaysRevokes == Spec => []ReuseRevokes
<1>1. IInv => ReuseRevokes
  BY DEF IInv, Sound, Caught, ReuseRevokes, Done, At
<1> QED
  BY <1>1, InvAlways, PTL

(* service.go:681, web3.go:63: racing first sign-ins leave each user one   *)
(* identity, and each session a user.                                      *)
THEOREM AccountsAlwaysBacked == Spec => []AccountsBacked
<1>1. IInv => AccountsBacked
  BY DEF IInv, Rows
<1> QED
  BY <1>1, InvAlways, PTL

-----------------------------------------------------------------------------
(***************************************************************************)
(* Plans.  All that was ever resolved was justified when it was: what says *)
(* so is kept with it.                                                     *)
(***************************************************************************)
Justified(o) == o.earned /\ o.cause /\ o.fresh

(* While a plan is resolved, what gave it to the user all along is still   *)
(* in force, and whatever is in force now was at some time; the chains     *)
(* already asked are not among the former.                                 *)
Resolving == {"lookup", "override", "probe", "fill"}

Backed(q) ==
    /\ q.pc \in Resolving => /\ q.steady \subseteq Sources
                             /\ Sources # {} => q.paid
                             /\ q.fallback = "premium" => q.paid
    /\ q.pc \in {"probe", "fill"} /\ q.said = "premium" => q.paid
    /\ q.pc \in {"user", "lookup", "override"} => q.probe = 1
    /\ q.pc = "probe" => q.probe # 0 /\ \A n \in q.steady : n \in Probes /\ n >= q.probe
    /\ q.pc = "fill" => q.steady = {}

Reasoned(q) == Justified(q.held) /\ Justified(q.out) /\ Backed(q)

CacheTrue == cache.since = cache.age /\ Justified(cache.out)

PlanInv == PlanTypeOK /\ CacheTrue /\ \A r \in Askers : Reasoned(ask[r])

LEMMA ProbesAreNumbers == Probes \subseteq Nat \ {0} /\ Sources \subseteq Probes \cup {0}
<1>1. Len(Linked) * Len(Chains) \in Nat
  BY ProbesAssumption
<1> QED
  BY <1>1 DEF Probes, Sources

LEMMA NoOutcomeIsJustified == NoOutcome \in Outcome /\ Justified(NoOutcome)
  BY DEF NoOutcome, Outcome, Plans, Justified

LEMMA QuietIsReasoned == Quiet \in Enquiry /\ Reasoned(Quiet)
<1>1. 0 \in 0 .. Expired
  BY TermsAssumption DEF Expired
<1>2. Quiet \in Enquiry
  BY <1>1, NoOutcomeIsJustified DEF Quiet, Enquiry, AskStages, Plans
<1>3. Reasoned(Quiet)
  BY NoOutcomeIsJustified DEF Reasoned, Backed, Quiet, Resolving
<1> QED
  BY <1>2, <1>3

LEMMA NoEntryIsTrue ==
    /\ NoEntry \in [out : Outcome, age : 0 .. Expired, since : 0 .. Expired]
    /\ NoEntry.since = NoEntry.age /\ Justified(NoEntry.out)
  BY NoOutcomeIsJustified, TermsAssumption DEF NoEntry, Expired

LEMMA PlanInitHolds == PlanInit => PlanInv
<1> SUFFICES ASSUME PlanInit PROVE PlanInv
  OBVIOUS
<1>1. PlanTypeOK
  <2>1. 0 \in 0 .. Forever
    BY TermsAssumption DEF Forever
  <2>2. subs \in [ChainSet -> [WalletSet -> 0 .. Forever]]
    BY <2>1 DEF PlanInit
  <2>3. override \in Overrides /\ cache = NoEntry /\ ask \in [Askers -> Enquiry]
    BY OverridesAssumption, QuietIsReasoned DEF PlanInit
  <2> QED
    BY <2>2, <2>3, NoEntryIsTrue DEF PlanTypeOK
<1>2. CacheTrue
  BY NoEntryIsTrue DEF CacheTrue, PlanInit
<1>3. \A r \in Askers : Reasoned(ask[r])
  BY QuietIsReasoned DEF PlanInit
<1> QED
  BY <1>1, <1>2, <1>3 DEF PlanInv

-----------------------------------------------------------------------------
(* A change of what is in force, seen by those who are resolving.          *)
SameBut(q, p) ==
    /\ q.pc = p.pc /\ q.fallback = p.fallback /\ q.said = p.said /\ q.probe = p.probe
    /\ q.steady = p.steady /\ q.paid = p.paid /\ q.held = p.held /\ q.out = p.out

LEMMA WitnessedHolds ==
    ASSUME PlanInv, NEW q \in [Askers -> Enquiry], \A r \in Askers : SameBut(q[r], ask[r]),
           ask' = Witnessed(q)
    PROVE  ask' \in [Askers -> Enquiry] /\ \A r \in Askers : Reasoned(ask[r])'
<1>1. ASSUME NEW r \in Askers
      PROVE  ask'[r] \in Enquiry /\ Reasoned(ask[r])'
  <2> DEFINE p == q[r]
             w == [[p EXCEPT !.steady = @ \cap Sources'] EXCEPT !.paid = @ \/ Sources' # {}]
  <2>1. p \in Enquiry /\ SameBut(p, ask[r]) /\ Reasoned(ask[r])
    BY DEF PlanInv
  <2>2. CASE p.pc \in {"idle", "user", "count", "done"}
    <3>1. ask'[r] = p
      BY <2>2 DEF Witnessed
    <3> HIDE DEF p
    <3> QED
      BY <2>1, <2>2, <3>1 DEF Reasoned, Backed, SameBut, Resolving
  <2>3. CASE p.pc \notin {"idle", "user", "count", "done"}
    <3>1. ask'[r] = w
      BY <2>3 DEF Witnessed
    <3> HIDE DEF p
    <3>2. /\ w.pc = p.pc /\ w.fallback = p.fallback /\ w.said = p.said /\ w.probe = p.probe
          /\ w.held = p.held /\ w.out = p.out
          /\ w.steady = p.steady \cap Sources'
      BY <2>1 DEF Enquiry
    <3>3. w.paid <=> (p.paid \/ Sources' # {})
      BY <2>1 DEF Enquiry
    <3>4. w \in Enquiry
      BY <2>1 DEF Enquiry
    <3> HIDE DEF w
    <3> QED
      BY <2>1, <3>1, <3>2, <3>3, <3>4 DEF Reasoned, Backed, SameBut
  <2> QED
    BY <2>2, <2>3
<1>2. ask' = [r \in Askers |-> ask'[r]]
  BY DEF Witnessed
<1> QED
  BY <1>1, <1>2
LEMMA ChangeHolds == ASSUME PlanInv, Change PROVE PlanInv'
<1>1. /\ ask \in [Askers -> Enquiry]
      /\ subs \in [ChainSet -> [WalletSet -> 0 .. Forever]]
      /\ override \in Overrides
  BY DEF PlanInv, PlanTypeOK
<1>2. ask' = Witnessed(ask) /\ cache' = cache
  BY DEF Change, SetSubscriptions, RevokeSubscription, SetOverride
<1>3. subs' \in [ChainSet -> [WalletSet -> 0 .. Forever]] /\ override' \in Overrides
  <2>1. ASSUME NEW c \in ChainSet, SetSubscriptions(c)
        PROVE  subs' \in [ChainSet -> [WalletSet -> 0 .. Forever]] /\ override' \in Overrides
    <3>1. PICK W \in (SUBSET WalletSet) \ {{}} : \E term \in [W -> 0 .. Forever] :
             subs' = [subs EXCEPT ![c] = [w \in WalletSet |-> IF w \in W THEN term[w] ELSE subs[c][w]]]
      BY <1>1, <2>1 DEF SetSubscriptions
    <3>2. PICK term \in [W -> 0 .. Forever] :
             subs' = [subs EXCEPT ![c] = [w \in WalletSet |-> IF w \in W THEN term[w] ELSE subs[c][w]]]
      BY <3>1
    <3>3. [w \in WalletSet |-> IF w \in W THEN term[w] ELSE subs[c][w]] \in [WalletSet -> 0 .. Forever]
      BY <1>1
    <3> QED
      BY <1>1, <2>1, <3>2, <3>3 DEF SetSubscriptions
  <2>2. ASSUME NEW c \in ChainSet, NEW w \in WalletSet, RevokeSubscription(c, w)
        PROVE  subs' \in [ChainSet -> [WalletSet -> 0 .. Forever]] /\ override' \in Overrides
    <3>1. 0 \in 0 .. Forever
      BY TermsAssumption DEF Forever
    <3> QED
      BY <1>1, <2>2, <3>1 DEF RevokeSubscription
  <2>3. ASSUME NEW o \in Overrides, SetOverride(o)
        PROVE  subs' \in [ChainSet -> [WalletSet -> 0 .. Forever]] /\ override' \in Overrides
    BY <1>1, <2>3 DEF SetOverride
  <2> QED
    BY <2>1, <2>2, <2>3 DEF Change
<1>4. ask' \in [Askers -> Enquiry] /\ \A r \in Askers : Reasoned(ask[r])'
  <2>1. \A r \in Askers : SameBut(ask[r], ask[r])
    BY DEF SameBut
  <2> QED
    BY <1>1, <1>2, <2>1, WitnessedHolds
<1> QED
  BY <1>2, <1>3, <1>4 DEF PlanInv, PlanTypeOK, CacheTrue

(* The clocks of cache and requests go on together.                        *)
LEMMA PlanTickHolds == ASSUME PlanInv, PlanTick PROVE PlanInv'
<1>1. PlanTypeOK /\ CacheTrue
  BY DEF PlanInv
<1> DEFINE aged == [r \in Askers |-> IF ask[r].pc \in {"override", "probe", "fill"}
                                     THEN [ask[r] EXCEPT !.age = Older(@)] ELSE ask[r]]
<1>2. \A a \in 0 .. Expired : Older(a) \in 0 .. Expired
  BY TermsAssumption DEF Older, Expired
<1>3. ASSUME NEW r \in Askers
      PROVE  aged[r] \in Enquiry /\ SameBut(aged[r], ask[r])
  <2>1. ask[r] \in Enquiry /\ Older(ask[r].age) \in 0 .. Expired
    BY <1>1, <1>2 DEF PlanTypeOK, Enquiry
  <2> QED
    BY <2>1 DEF Enquiry, SameBut
<1>4. aged \in [Askers -> Enquiry] /\ ask' = Witnessed(aged)
  BY <1>3 DEF PlanTick
<1> HIDE DEF aged
<1>5. ask' \in [Askers -> Enquiry] /\ \A r \in Askers : Reasoned(ask[r])'
  BY <1>3, <1>4, WitnessedHolds
<1>6. subs' \in [ChainSet -> [WalletSet -> 0 .. Forever]] /\ override' \in Overrides
  BY <1>1, TermsAssumption DEF PlanTypeOK, PlanTick, Forever
<1>7. cache' \in [out : Outcome, age : 0 .. Expired, since : 0 .. Expired] /\ CacheTrue'
  <2>1. CASE cache.age >= CacheTTL
    BY <2>1, NoEntryIsTrue DEF PlanTick, CacheTrue
  <2>2. CASE cache.age < CacheTTL
    <3>1. cache' = [[cache EXCEPT !.age = cache.age + 1] EXCEPT !.since = Older(cache.since)]
      BY <1>1, <2>2, TermsAssumption DEF PlanTick, PlanTypeOK, Expired
    <3>2. Older(cache.since) = cache.age + 1 /\ cache.age + 1 \in 0 .. Expired
      BY <1>1, <2>2, TermsAssumption DEF PlanTypeOK, CacheTrue, Older, Expired
    <3> QED
      BY <1>1, <3>1, <3>2 DEF PlanTypeOK, CacheTrue, Justified
  <2> QED
    BY <1>1, <2>1, <2>2, TermsAssumption DEF PlanTypeOK, Expired
<1> QED
  BY <1>5, <1>6, <1>7 DEF PlanInv, PlanTypeOK

-----------------------------------------------------------------------------
(* A step of one request, while nothing in force changes.                  *)
LEMMA OneAsks ==
    ASSUME PlanInv, UNCHANGED <<subs, override>>,
           cache' \in [out : Outcome, age : 0 .. Expired, since : 0 .. Expired], CacheTrue',
           NEW r \in Askers, NEW q \in Enquiry, ask' = [ask EXCEPT ![r] = q], Reasoned(q)
    PROVE  PlanInv'
<1>1. ask \in [Askers -> Enquiry] /\ \A o \in Askers : Reasoned(ask[o])
  BY DEF PlanInv, PlanTypeOK
<1>2. Sources' = Sources
  BY DEF Sources, Subscribed
<1>3. ASSUME NEW o \in Askers
      PROVE  Reasoned(ask[o])'
  <2>1. ask'[o] = q \/ ask'[o] = ask[o]
    BY <1>1
  <2> QED
    BY <1>1, <1>2, <2>1 DEF Reasoned, Backed
<1> QED
  BY <1>1, <1>3 DEF PlanInv, PlanTypeOK

LEMMA OneReads ==
    ASSUME PlanInv, UNCHANGED <<subs, override, cache>>,
           NEW r \in Askers, NEW q \in Enquiry, ask' = [ask EXCEPT ![r] = q], Reasoned(q)
    PROVE  PlanInv'
<1>1. /\ cache' \in [out : Outcome, age : 0 .. Expired, since : 0 .. Expired]
      /\ CacheTrue'
  BY DEF PlanInv, PlanTypeOK, CacheTrue
<1> QED
  BY <1>1, OneAsks

LEMMA TheEnquiry ==
    ASSUME PlanInv, NEW r \in Askers
    PROVE  /\ ask[r] \in Enquiry /\ ask \in [Askers -> Enquiry]
           /\ Reasoned(ask[r]) /\ Backed(ask[r]) /\ Justified(ask[r].held) /\ Justified(ask[r].out)
           /\ ask[r].held \in Outcome /\ ask[r].out \in Outcome
           /\ cache.out \in Outcome /\ Justified(cache.out) /\ cache.age \in 0 .. Expired
           /\ cache.since = cache.age
<1>1. /\ ask[r] \in Enquiry /\ ask \in [Askers -> Enquiry]
      /\ cache \in [out : Outcome, age : 0 .. Expired, since : 0 .. Expired]
      /\ Reasoned(ask[r]) /\ CacheTrue
  BY DEF PlanInv, PlanTypeOK
<1> QED
  BY <1>1 DEF Enquiry, Reasoned, CacheTrue

LEMMA ReturnsHolds ==
    ASSUME PlanInv, UNCHANGED <<subs, override>>,
           cache' \in [out : Outcome, age : 0 .. Expired, since : 0 .. Expired], CacheTrue',
           NEW r \in Askers, NEW out \in Outcome, Justified(out), Returns(r, out)
    PROVE  PlanInv'
<1> DEFINE first == [Quiet EXCEPT !.pc = "user", !.round = 2, !.held = out]
           second == [Quiet EXCEPT !.pc = "count", !.round = 2, !.held = ask[r].held, !.out = out]
<1>1. /\ ask \in [Askers -> Enquiry] /\ ask[r].held \in Outcome /\ Justified(ask[r].held)
      /\ Quiet \in Enquiry /\ Justified(Quiet.out)
  BY TheEnquiry, QuietIsReasoned DEF Reasoned
<1>2. first \in Enquiry /\ first.pc = "user" /\ first.held = out /\ first.out = Quiet.out /\ first.probe = 1
  BY <1>1 DEF Quiet, Enquiry, AskStages
<1>3. second \in Enquiry /\ second.pc = "count" /\ second.held = ask[r].held /\ second.out = out
  BY <1>1 DEF Quiet, Enquiry, AskStages
<1>4. ask' = [ask EXCEPT ![r] = first] \/ ask' = [ask EXCEPT ![r] = second]
  BY <1>1 DEF Returns
<1> HIDE DEF first, second
<1>5. Reasoned(first) /\ Reasoned(second)
  BY <1>1, <1>2, <1>3 DEF Reasoned, Backed, Resolving
<1> QED
  BY <1>2, <1>3, <1>4, <1>5, OneAsks

LEMMA DecidesHolds ==
    ASSUME PlanInv, UNCHANGED <<subs, override, cache>>,
           NEW r \in Askers, NEW out \in Outcome, Justified(out), Decides(r, out)
    PROVE  PlanInv'
<1> DEFINE premium == out.plan = "premium"
           q == [Quiet EXCEPT !.pc = "done", !.out = out, !.allowed = premium]
<1>1. Quiet \in Enquiry /\ Justified(Quiet.held) /\ premium \in BOOLEAN
  BY QuietIsReasoned DEF Reasoned
<1>2. q \in Enquiry
  BY <1>1 DEF Enquiry, AskStages
<1>3. q.pc = "done" /\ q.held = Quiet.held /\ q.out = out
  BY DEF Quiet
<1>4. Reasoned(q)
  BY <1>1, <1>3 DEF Reasoned, Backed, Resolving
<1> QED
  BY <1>2, <1>4, OneReads DEF Decides

(* A plan is found with a reason.                                          *)
LEMMA FoundIsJustified ==
    ASSUME NEW r \in Askers, NEW plan \in Plans,
           plan = "premium" => ask[r].paid,
           plan = "free" => ask[r].erred \/ ask[r].steady = {}
    PROVE  Found(r, plan) \in Outcome /\ Justified(Found(r, plan))
<1>1. (plan = "premium" => ask[r].paid) = TRUE /\ (plan = "free" => ask[r].erred \/ ask[r].steady = {}) = TRUE
  OBVIOUS
<1>2. Found(r, plan) = [plan |-> plan, earned |-> TRUE, cause |-> TRUE, fresh |-> TRUE]
  BY <1>1, Zenon DEF Found
<1> QED
  BY <1>2 DEF Outcome, Justified

-----------------------------------------------------------------------------
LEMMA AskHolds ==
    ASSUME PlanInv, NEW r \in Askers, Ask(r)
    PROVE  PlanInv'
<1> DEFINE round == IF r \in Gated THEN 1 ELSE 2
           q == [Quiet EXCEPT !.pc = "user", !.round = round]
<1>1. q \in Enquiry /\ q.pc = "user" /\ q.held = Quiet.held /\ q.out = Quiet.out /\ q.probe = 1
  BY QuietIsReasoned DEF Quiet, Enquiry, AskStages
<1>2. Reasoned(q)
  BY <1>1, QuietIsReasoned DEF Reasoned, Backed, Resolving
<1> QED
  BY <1>1, <1>2, OneReads DEF Ask

(* What is in force as the user is read, is in force from then on or not.  *)
LEMMA ReadUserHolds ==
    ASSUME PlanInv, NEW r \in Askers, ReadUser(r)
    PROVE  PlanInv'
<1> DEFINE p == ask[r]
           plan == IF override = "premium" THEN "premium" ELSE "free"
           paid == Sources # {}
           q == [[[[p EXCEPT !.pc = "lookup"] EXCEPT !.fallback = plan] EXCEPT !.steady = Sources]
                    EXCEPT !.paid = paid]
<1>1. p \in Enquiry /\ Reasoned(p) /\ ask \in [Askers -> Enquiry] /\ p.pc = "user"
  BY TheEnquiry DEF ReadUser, IsAt
<1>2. ask' = [ask EXCEPT ![r] = q]
  BY <1>1 DEF ReadUser
<1>3. plan \in Plans /\ paid \in BOOLEAN /\ Sources \in SUBSET (Probes \cup {0})
  BY ProbesAreNumbers DEF Plans
<1>4. override = "premium" => paid
  BY DEF Sources
<1>5. plan = "premium" => paid
  BY <1>4
<1> HIDE DEF plan, p
<1>6. q \in Enquiry
  BY <1>1, <1>3 DEF Enquiry, AskStages
<1>7. q.pc = "lookup" /\ q.fallback = plan /\ q.steady = Sources /\ q.held = p.held /\ q.out = p.out /\ q.probe = p.probe
  BY <1>1 DEF Enquiry
<1>8. q.paid = paid
  BY <1>1, Zenon DEF Enquiry
<1>9. Reasoned(q)
  BY <1>1, <1>5, <1>7, <1>8 DEF Reasoned, Backed, Resolving
<1> QED
  BY <1>2, <1>6, <1>9, OneReads DEF ReadUser

LEMMA EntitlementFailsHolds ==
    ASSUME PlanInv, NEW r \in Askers, EntitlementFails(r)
    PROVE  PlanInv'
<1>1. CASE ask' = [ask EXCEPT ![r] = Quiet]
  BY <1>1, QuietIsReasoned, OneReads DEF EntitlementFails
<1>2. CASE Decides(r, ask[r].held)
  BY <1>2, TheEnquiry, DecidesHolds DEF EntitlementFails
<1> QED
  BY <1>1, <1>2 DEF EntitlementFails

LEMMA CountWalletsHolds ==
    ASSUME PlanInv, NEW r \in Askers, CountWallets(r)
    PROVE  PlanInv'
  BY TheEnquiry, DecidesHolds DEF CountWallets

(* An entry that counts is no older than it says.                          *)
LEMMA HitHolds ==
    ASSUME PlanInv, NEW r \in Askers, Hit(r)
    PROVE  PlanInv'
<1>1. cache.out \in Outcome /\ Justified(cache.out) /\ cache.since <= CacheTTL
  BY TheEnquiry DEF Hit
<1>2. (cache.since <= CacheTTL) = TRUE
  BY <1>1
<1>3. [cache.out EXCEPT !.fresh = cache.since <= CacheTTL] = [cache.out EXCEPT !.fresh = TRUE]
  BY <1>2, Zenon
<1>4. [cache.out EXCEPT !.fresh = TRUE] \in Outcome /\ Justified([cache.out EXCEPT !.fresh = TRUE])
  BY <1>1 DEF Outcome, Justified
<1>5. Returns(r, [cache.out EXCEPT !.fresh = TRUE])
  BY <1>3, Zenon DEF Hit
<1>6. /\ cache' \in [out : Outcome, age : 0 .. Expired, since : 0 .. Expired]
      /\ CacheTrue' /\ UNCHANGED <<subs, override>>
  BY DEF Hit, PlanInv, PlanTypeOK, CacheTrue
<1> QED
  BY <1>4, <1>5, <1>6, ReturnsHolds

LEMMA MissHolds ==
    ASSUME PlanInv, NEW r \in Askers, Miss(r)
    PROVE  PlanInv'
<1> DEFINE p == ask[r]
           q == [[p EXCEPT !.pc = "override"] EXCEPT !.age = 0]
<1>1. p \in Enquiry /\ Reasoned(p) /\ ask \in [Askers -> Enquiry] /\ p.pc = "lookup"
  BY TheEnquiry DEF Miss, IsAt
<1>2. ask' = [ask EXCEPT ![r] = q]
  BY <1>1 DEF Miss
<1>3. 0 \in 0 .. Expired
  BY TermsAssumption DEF Expired
<1> HIDE DEF p
<1>4. /\ q \in Enquiry /\ q.pc = "override" /\ q.fallback = p.fallback /\ q.probe = p.probe
      /\ q.steady = p.steady /\ q.paid = p.paid /\ q.held = p.held /\ q.out = p.out
  BY <1>1, <1>3 DEF Enquiry, AskStages
<1>5. Reasoned(q)
  BY <1>1, <1>4 DEF Reasoned, Backed, Resolving
<1> QED
  BY <1>2, <1>4, <1>5, OneReads DEF Miss

(* From here on the override is no source any more: it was premium and the *)
(* plan is, or it was none.                                                *)
LEMMA ReadOverrideHolds ==
    ASSUME PlanInv, NEW r \in Askers, ReadOverride(r)
    PROVE  PlanInv'
<1> DEFINE p == ask[r]
           steady == IF override = "premium" THEN {} ELSE p.steady
           q == [[[p EXCEPT !.pc = "probe"] EXCEPT !.said = override] EXCEPT !.steady = steady]
<1>1. /\ p \in Enquiry /\ Reasoned(p) /\ ask \in [Askers -> Enquiry] /\ p.pc = "override"
      /\ override \in {"", "free", "premium"}
  BY TheEnquiry, OverridesAssumption DEF ReadOverride, IsAt, PlanInv, PlanTypeOK
<1>2. ask' = [ask EXCEPT ![r] = q]
  BY <1>1 DEF ReadOverride
<1>3. /\ p.steady \subseteq Sources /\ (Sources # {} => p.paid) /\ p.probe = 1
      /\ (p.fallback = "premium" => p.paid)
  BY <1>1 DEF Reasoned, Backed, Resolving
<1>4. steady \subseteq Sources /\ \A n \in steady : n \in Probes /\ n >= 1
  <2>1. CASE override = "premium"
    BY <2>1
  <2>2. CASE override # "premium"
    <3>1. Sources \subseteq Probes
      BY <2>2 DEF Sources
    <3>2. \A n \in Probes : n \in Nat \ {0}
      BY ProbesAreNumbers
    <3> QED
      BY <1>3, <2>2, <3>1, <3>2
  <2> QED
    BY <2>1, <2>2
<1>5. override = "premium" => p.paid
  BY <1>3 DEF Sources
<1> HIDE DEF p, steady
<1>6. steady \in SUBSET (Probes \cup {0})
  BY <1>4
<1>7. /\ q \in Enquiry /\ q.pc = "probe" /\ q.fallback = p.fallback /\ q.probe = p.probe
      /\ q.said = override /\ q.steady = steady /\ q.paid = p.paid /\ q.held = p.held /\ q.out = p.out
  BY <1>1, <1>6 DEF Enquiry, AskStages
<1>8. q.probe = 1 /\ q.probe # 0
  BY <1>3, <1>7
<1>9. Reasoned(q)
  BY <1>1, <1>3, <1>4, <1>5, <1>7, <1>8 DEF Reasoned, Backed, Resolving
<1> QED
  BY <1>2, <1>7, <1>9, OneReads DEF ReadOverride

LEMMA OverrideFailsHolds ==
    ASSUME PlanInv, NEW r \in Askers, OverrideFails(r)
    PROVE  PlanInv'
<1> DEFINE p == ask[r]
           found == Found(r, p.fallback)
           cause == p.fallback = "free" => p.erred \/ p.steady = {}
<1>1. p \in Enquiry /\ p.pc = "override" /\ Backed(p)
  BY TheEnquiry DEF OverrideFails, IsAt
<1>2. p.fallback \in Plans /\ (p.fallback = "premium" => p.paid)
  BY <1>1 DEF Enquiry, Backed, Resolving
<1>3. (p.fallback = "premium" => ask[r].paid) = TRUE
  BY <1>2
<1>4. found = [plan |-> p.fallback, earned |-> TRUE, cause |-> cause, fresh |-> TRUE]
  BY <1>3, Zenon DEF Found
<1>5. cause \in BOOLEAN
  OBVIOUS
<1> HIDE DEF found, cause
<1>6. found \in Outcome /\ found.earned = TRUE /\ found.fresh = TRUE
  BY <1>2, <1>4, <1>5 DEF Outcome
<1>7. [found EXCEPT !.cause = TRUE] \in Outcome /\ Justified([found EXCEPT !.cause = TRUE])
  BY <1>6 DEF Outcome, Justified
<1>8. /\ cache' \in [out : Outcome, age : 0 .. Expired, since : 0 .. Expired]
      /\ CacheTrue' /\ UNCHANGED <<subs, override>>
  BY DEF OverrideFails, PlanInv, PlanTypeOK, CacheTrue
<1> QED
  BY <1>7, <1>8, ReturnsHolds DEF OverrideFails, found

(* A probe that decides: whatever held all along is no concern any more.   *)
LEMMA ProbeEndsHolds ==
    ASSUME PlanInv, NEW r \in Askers, ProbeYes(r) \/ WalletsFail(r) \/ NoneActive(r)
    PROVE  PlanInv'
<1> DEFINE p == ask[r]
<1>1. /\ p \in Enquiry /\ Reasoned(p) /\ ask \in [Askers -> Enquiry] /\ p.pc = "probe"
      /\ UNCHANGED <<subs, override, cache>>
  BY TheEnquiry DEF ProbeYes, WalletsFail, NoneActive, Asks, IsAt
<1>2. /\ p.steady \subseteq Sources /\ (Sources # {} => p.paid)
      /\ (p.fallback = "premium" => p.paid) /\ (p.said = "premium" => p.paid)
      /\ p.probe # 0 /\ \A n \in p.steady : n \in Probes /\ n >= p.probe
  BY <1>1 DEF Reasoned, Backed, Resolving
<1>3. CASE ProbeYes(r)
  <2> DEFINE q == [[[p EXCEPT !.pc = "fill"] EXCEPT !.said = "premium"] EXCEPT !.steady = {}]
  <2>1. ask' = [ask EXCEPT ![r] = q]
    BY <1>1, <1>3 DEF ProbeYes
  <2>2. p.paid
    BY <1>2, <1>3 DEF ProbeYes, Asks, Sources
  <2> HIDE DEF p
  <2>3. /\ q \in Enquiry /\ q.pc = "fill" /\ q.fallback = p.fallback /\ q.steady = {} /\ q.paid = p.paid
        /\ q.held = p.held /\ q.out = p.out
    BY <1>1 DEF Enquiry, AskStages
  <2>4. Reasoned(q)
    BY <1>1, <1>2, <2>2, <2>3 DEF Reasoned, Backed, Resolving
  <2> QED
    BY <1>1, <2>1, <2>3, <2>4, OneReads
<1>4. CASE WalletsFail(r)
  <2> DEFINE q == [[[p EXCEPT !.pc = "fill"] EXCEPT !.erred = TRUE] EXCEPT !.steady = {}]
  <2>1. ask' = [ask EXCEPT ![r] = q]
    BY <1>1, <1>4 DEF WalletsFail
  <2> HIDE DEF p
  <2>2. /\ q \in Enquiry /\ q.pc = "fill" /\ q.fallback = p.fallback /\ q.steady = {} /\ q.paid = p.paid
        /\ q.said = p.said /\ q.held = p.held /\ q.out = p.out
    BY <1>1 DEF Enquiry, AskStages
  <2>3. Reasoned(q)
    BY <1>1, <1>2, <2>2 DEF Reasoned, Backed, Resolving
  <2> QED
    BY <1>1, <2>1, <2>2, <2>3, OneReads
<1>5. CASE NoneActive(r)
  <2> DEFINE q == [p EXCEPT !.pc = "fill"]
  <2>1. ask' = [ask EXCEPT ![r] = q]
    BY <1>1, <1>5 DEF NoneActive
  <2>2. p.steady = {}
    <3> DEFINE last == Len(Linked) * Len(Chains)
    <3>1. last \in Nat
      BY ProbesAssumption
    <3>2. p.probe \in Nat /\ p.probe # 0 /\ p.probe \notin Probes
      BY <1>1, <1>2, <1>5 DEF Enquiry, NoneActive
    <3>3. Probes = 1 .. last
      BY DEF Probes
    <3> HIDE DEF last
    <3>4. \A n \in Probes : ~(n >= p.probe)
      BY <3>1, <3>2, <3>3
    <3> QED
      BY <1>2, <3>4
  <2> HIDE DEF p
  <2>3. /\ q \in Enquiry /\ q.pc = "fill" /\ q.fallback = p.fallback /\ q.steady = p.steady /\ q.paid = p.paid
        /\ q.said = p.said /\ q.held = p.held /\ q.out = p.out
    BY <1>1 DEF Enquiry, AskStages
  <2>4. Reasoned(q)
    BY <1>1, <1>2, <2>2, <2>3 DEF Reasoned, Backed, Resolving
  <2> QED
    BY <1>1, <2>1, <2>3, <2>4, OneReads
<1> QED
  BY <1>3, <1>4, <1>5

(* A chain that says no was not a source all along.                        *)
LEMMA ProbeGoesOnHolds ==
    ASSUME PlanInv, NEW r \in Askers, ProbeNo(r) \/ ProbeFails(r)
    PROVE  PlanInv'
<1> DEFINE p == ask[r]
           next == p.probe + 1
<1>1. /\ p \in Enquiry /\ Reasoned(p) /\ ask \in [Askers -> Enquiry] /\ p.pc = "probe"
      /\ UNCHANGED <<subs, override, cache>>
  BY TheEnquiry DEF ProbeNo, ProbeFails, Asks, IsAt
<1>2. next \in Nat /\ next # 0 /\ \A n \in Nat : n >= p.probe /\ n # p.probe => n >= next
  <2>1. p.probe \in Nat
    BY <1>1 DEF Enquiry
  <2> QED
    BY <2>1
<1>3. /\ p.steady \subseteq Sources /\ (Sources # {} => p.paid)
      /\ (p.fallback = "premium" => p.paid) /\ (p.said = "premium" => p.paid)
      /\ \A n \in p.steady : n \in Probes /\ n >= p.probe
      /\ p.probe \in Nat
  BY <1>1 DEF Reasoned, Backed, Resolving, Enquiry
<1>4. CASE ProbeNo(r)
  <2> DEFINE q == [p EXCEPT !.probe = next]
  <2>1. ask' = [ask EXCEPT ![r] = q]
    BY <1>1, <1>4 DEF ProbeNo
  <2>2. p.probe \notin p.steady
    <3>1. p.probe \notin Sources
      BY <1>4, ProbesAreNumbers DEF ProbeNo, Asks, Sources
    <3> QED
      BY <1>3, <3>1
  <2> HIDE DEF p, next
  <2>3. \A n \in p.steady : n \in Probes /\ n >= next
    <3>1. \A n \in p.steady : n \in Nat /\ n # p.probe
      BY <1>3, <2>2, ProbesAreNumbers
    <3> QED
      BY <1>2, <1>3, <3>1
  <2>4. /\ q \in Enquiry /\ q.pc = "probe" /\ q.fallback = p.fallback /\ q.steady = p.steady /\ q.paid = p.paid
        /\ q.said = p.said /\ q.held = p.held /\ q.out = p.out /\ q.probe = next
    BY <1>1, <1>2 DEF Enquiry
  <2>5. Reasoned(q)
    BY <1>1, <1>2, <1>3, <2>3, <2>4 DEF Reasoned, Backed, Resolving
  <2> QED
    BY <1>1, <2>1, <2>4, <2>5, OneReads
<1>5. CASE ProbeFails(r)
  <2> DEFINE q == [[[p EXCEPT !.probe = next] EXCEPT !.erred = TRUE] EXCEPT !.steady = {}]
  <2>1. ask' = [ask EXCEPT ![r] = q]
    BY <1>1, <1>5 DEF ProbeFails
  <2> HIDE DEF p, next
  <2>2. /\ q \in Enquiry /\ q.pc = "probe" /\ q.fallback = p.fallback /\ q.steady = {} /\ q.paid = p.paid
        /\ q.said = p.said /\ q.held = p.held /\ q.out = p.out /\ q.probe = next
    BY <1>1, <1>2 DEF Enquiry
  <2>3. Reasoned(q)
    BY <1>1, <1>2, <1>3, <2>2 DEF Reasoned, Backed, Resolving
  <2> QED
    BY <1>1, <2>1, <2>2, <2>3, OneReads
<1> QED
  BY <1>4, <1>5

LEMMA FillHolds ==
    ASSUME PlanInv, NEW r \in Askers, Fill(r)
    PROVE  PlanInv'
<1> DEFINE p == ask[r]
           found == Found(r, Resolved(r))
<1>1. p \in Enquiry /\ Backed(p) /\ p.pc = "fill"
  BY TheEnquiry DEF Fill, IsAt
<1>2. /\ p.steady = {} /\ (p.fallback = "premium" => p.paid) /\ (p.said = "premium" => p.paid)
      /\ p.fallback \in Plans /\ p.age \in 0 .. Expired
  BY <1>1 DEF Backed, Resolving, Enquiry
<1>3. Resolved(r) \in Plans /\ (Resolved(r) = "premium" => p.paid)
  BY <1>2 DEF Resolved, Plans
<1>4. found \in Outcome /\ Justified(found)
  BY <1>2, <1>3, FoundIsJustified
<1> HIDE DEF found
<1>5. cache' \in [out : Outcome, age : 0 .. Expired, since : 0 .. Expired] /\ CacheTrue'
  <2>1. CASE cache' = NoEntry
    BY <2>1, NoEntryIsTrue DEF CacheTrue
  <2>2. CASE cache' = [out |-> found, age |-> p.age, since |-> p.age]
    BY <1>2, <1>4, <2>2 DEF CacheTrue
  <2> QED
    BY <2>1, <2>2 DEF Fill, found
<1>6. Returns(r, found) /\ UNCHANGED <<subs, override>>
  BY DEF Fill, found
<1> QED
  BY <1>4, <1>5, <1>6, ReturnsHolds

LEMMA PlanInvAlways == PlanSpec => []PlanInv
<1>1. ASSUME PlanInv, NEW r \in Askers, Ask(r) \/ Proceed(r) \/ Trouble(r)
      PROVE  PlanInv'
  BY <1>1, AskHolds, ReadUserHolds, HitHolds, MissHolds, ReadOverrideHolds, ProbeEndsHolds, ProbeGoesOnHolds,
     FillHolds, CountWalletsHolds, EntitlementFailsHolds, OverrideFailsHolds DEF Proceed, Trouble
<1>2. ASSUME PlanInv, UNCHANGED planVars
      PROVE  PlanInv'
  <2>1. UNCHANGED <<subs, override, cache, ask>>
    BY <1>2 DEF planVars
  <2>2. Sources' = Sources
    BY <2>1 DEF Sources, Subscribed
  <2> QED
    BY <1>2, <2>1, <2>2 DEF PlanInv, PlanTypeOK, CacheTrue, Reasoned, Backed
<1>3. PlanInv /\ [PlanNext]_planVars => PlanInv'
  BY <1>1, <1>2, ChangeHolds, PlanTickHolds DEF PlanNext
<1> QED
  BY <1>3, PlanInitHolds, PTL DEF PlanSpec

(* The variables of Entitlements keep their types.                         *)
THEOREM PlanTypeCorrect == PlanSpec => []PlanTypeOK
  BY PlanInvAlways, PTL DEF PlanInv

(* ResolveEntitlement and RequirePlan (api/auth/subscription.go,           *)
(* middleware/auth.go): whoever is let through had the premium plan while  *)
(* it was resolved, whoever is turned away lacked it at some time then, or *)
(* a call failed; for any chains and wallets, however resolves overlap.    *)
THEOREM PlanAlwaysJustified == PlanSpec => []PlanJustified
<1>1. PlanInv => PlanJustified
  BY DEF PlanInv, Reasoned, Justified, PlanJustified, PremiumEarned, FreeForACause
<1> QED
  BY <1>1, PlanInvAlways, PTL

(* subscription.go:300: what the cache answers was resolved by a request   *)
(* that began at most CacheTTL before.                                     *)
THEOREM AnswersAlwaysFresh == PlanSpec => []AnswersFresh
<1>1. PlanInv => AnswersFresh
  BY DEF PlanInv, Reasoned, Justified, AnswersFresh
<1> QED
  BY <1>1, PlanInvAlways, PTL

-----------------------------------------------------------------------------
(* Both parts at once.  Each step is one of either part's and leaves the   *)
(* other alone, so what was proved of each holds of the server.            *)
LEMMA ServerIsBoth == ApiSpec => Spec /\ PlanSpec
<1>1. ApiInit => Init /\ PlanInit
  BY DEF ApiInit
<1>2. [ApiNext]_<<vars, planVars>> => [Next]_vars
  BY DEF ApiNext, SessionStep, PlanStep
<1>3. [ApiNext]_<<vars, planVars>> => [PlanNext]_planVars
  BY DEF ApiNext, SessionStep, PlanStep
<1> QED
  BY <1>1, <1>2, <1>3, PTL DEF ApiSpec, Spec, PlanSpec

(* However the handlers of both parts interleave (api/auth/service.go,     *)
(* subscription.go), all their rows keep their types: users, sessions and  *)
(* tokens refer to rows that are there.                                    *)
THEOREM PartsTypeCorrect == ApiSpec => []PartsTypeOK
<1>1. TypeOK /\ PlanTypeOK => PartsTypeOK
  BY DEF PartsTypeOK
<1> QED
  BY <1>1, ServerIsBoth, TypeCorrect, PlanTypeCorrect, PTL
=============================================================================
