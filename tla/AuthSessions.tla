---------------------------- MODULE AuthSessions ----------------------------
(***************************************************************************)
(* Sign-in and sessions (src/api/auth/service.go, web3.go): concurrent     *)
(* requests that read users, identities, sessions, refresh tokens and      *)
(* nonces one statement at a time and change them in transactions.         *)
(*                                                                         *)
(* A request slot r is one goroutine; a slot that was answered may be used *)
(* by the next request.  Rows are numbered in the order they are inserted. *)
(* Hashes, signatures, JWTs and profiles are left out: a token or a nonce  *)
(* is its row, a bad signature or a failed call to Discord one of the ways *)
(* a request ends in an error.                                             *)
(*                                                                         *)
(* The operators named after a slip (ReadSessionTrusting, ...) take no part*)
(* in Next: they are what the properties must notice.                      *)
(***************************************************************************)
EXTENDS Integers, Sequences, FiniteSets

CONSTANTS
    Requests,       \* request goroutines
    Wallets,        \* normalized wallet addresses
    Profiles,       \* Discord profile ids
    RefreshTTL,     \* Service.refreshTTL, in ticks
    RefreshIdle,    \* Service.refreshIdle, in ticks
    NonceTTL,       \* the five minutes of RequestWeb3Nonce, in ticks
    MaxTokens,      \* bound: refresh tokens ever inserted
    MaxNonces,      \* bound: nonces ever inserted
    Horizon         \* bound: the last tick of the clock

ASSUME RequestsAssumption == IsFiniteSet(Requests)
ASSUME IdentitiesAssumption == IsFiniteSet(Wallets \cup Profiles) /\ Wallets \cap Profiles = {}

Nobody == "nobody"
ASSUME NobodyAssumption == Nobody \notin Wallets \cup Profiles

ASSUME TimesAssumption ==
    /\ RefreshTTL \in Nat /\ RefreshIdle \in Nat /\ NonceTTL \in Nat
    /\ MaxTokens \in Nat /\ MaxNonces \in Nat /\ Horizon \in Nat

Identities == Wallets \cup Profiles

VARIABLES
    clock,          \* what s.now() returns
    users,          \* rows of users, numbered from 1
    owner,          \* auth_identities: the user of each identity, 0 for none
    nonces,         \* auth_nonces
    sessions,       \* auth_sessions
    tokens,         \* auth_refresh_tokens
    req             \* the requests

db == <<users, owner, nonces, sessions, tokens>>
vars == <<clock, db, req>>

Nonce == [wallet : Wallets, used : BOOLEAN, expires : Nat]

(* forks is not a column: the rotations whose UPDATE found the token       *)
(* consumed already.                                                       *)
Session == [user : Nat \ {0}, active : BOOLEAN, born : Nat, seen : Nat, expires : Nat, forks : Nat]

Token == [session : Nat \ {0}, consumed : BOOLEAN, expires : Nat]

Kinds == {"refresh", "logout", "me", "verify", "discord"}
Stages == {"idle", "token", "session", "rotate", "revoke", "nonce", "provider", "lookup", "enter", "open", "done"}
Verdicts == {"none", "ok", "reuse"}

(* arg is the row it was sent with (token, session or nonce), session the  *)
(* session that belongs to it, who the identity it signs in, user what it  *)
(* has learned of that identity's user.  late and lost are not program     *)
(* state: late, that what it presents was spent or revoked when it began;  *)
(* lost, that its revoking UPDATE failed.                                  *)
Request ==
    [pc : Stages, kind : Kinds, arg : Nat, session : Nat, who : Identities \cup {Nobody}, user : Nat, now : Nat,
     late : BOOLEAN, lost : BOOLEAN, verdict : Verdicts]

LiveTokens(s) == {t \in DOMAIN tokens : tokens[t].session = s /\ ~tokens[t].consumed}

Resting ==
    [pc |-> "idle", kind |-> "me", arg |-> 0, session |-> 0, who |-> Nobody, user |-> 0, now |-> 0,
     late |-> FALSE, lost |-> FALSE, verdict |-> "none"]

Init ==
    /\ clock = 0
    /\ users = 0
    /\ owner = [i \in Identities |-> 0]
    /\ nonces = <<>>
    /\ sessions = <<>>
    /\ tokens = <<>>
    /\ req = [r \in Requests |-> Resting]

-----------------------------------------------------------------------------
At(r, stage) == req[r].pc = stage
Free(r) == At(r, "idle") \/ At(r, "done")
Goes(r, stage) == req' = [req EXCEPT ![r].pc = stage]

(* What is kept of a request that was answered is what the properties ask: *)
(* nothing of one that was refused or failed, whatever the error.          *)
Answers(r, verdict) ==
    req' = [req EXCEPT ![r] =
               [Resting EXCEPT !.pc = "done", !.kind = req[r].kind, !.session = req[r].session, !.now = req[r].now,
                               !.late = req[r].late, !.verdict = verdict]]
Refuses(r) == req' = [req EXCEPT ![r] = Resting]
Revokes(r, verdict) == req' = [req EXCEPT ![r].pc = "revoke", ![r].verdict = verdict]

Begin(r, first) ==
    /\ Free(r)
    /\ req' = [req EXCEPT ![r] = [first EXCEPT !.now = clock]]
    /\ UNCHANGED <<clock, db>>

(* The bound on tokens leaves room for what the requests under way insert. *)
Inserting == {r \in Requests : ~Free(r) /\ req[r].kind \in {"refresh", "verify", "discord"}}
RoomForToken == Len(tokens) + Cardinality(Inserting) < MaxTokens

(* Any statement of a request can fail, and so can Discord and the check of*)
(* a signature: it is answered with the error, its transaction rolls back. *)
Fail(r) ==
    /\ ~Free(r)
    /\ ~At(r, "revoke")
    /\ Refuses(r)
    /\ UNCHANGED <<clock, db>>

-----------------------------------------------------------------------------
(***************************************************************************)
(* Refresh: one statement reads the token, one the session; one            *)
(* transaction consumes the token, touches the session and inserts the     *)
(* next token, whether or not the consuming UPDATE found a row.            *)
(***************************************************************************)
BeginRefresh(r, t) ==
    /\ RoomForToken
    /\ Begin(r, [Resting EXCEPT
                    !.pc = "token", !.kind = "refresh", !.arg = t, !.session = tokens[t].session,
                    !.late = tokens[t].consumed \/ ~sessions[tokens[t].session].active])

Reading(r, kind, stage) == At(r, stage) /\ req[r].kind = kind

(* A token presented again is refused, its session left as it was.         *)
ReadSpentForgiving(r) ==
    /\ Reading(r, "refresh", "token")
    /\ tokens[req[r].arg].consumed
    /\ Answers(r, "reuse")
    /\ UNCHANGED <<clock, db>>

ReadSpentToken(r) ==
    /\ Reading(r, "refresh", "token")
    /\ tokens[req[r].arg].consumed
    /\ Revokes(r, "reuse")
    /\ UNCHANGED <<clock, db>>

ReadUnspentToken(r) ==
    /\ Reading(r, "refresh", "token")
    /\ ~tokens[req[r].arg].consumed
    /\ IF req[r].now > tokens[req[r].arg].expires THEN Refuses(r) ELSE Goes(r, "session")
    /\ UNCHANGED <<clock, db>>

Outlived(r) ==
    LET s == sessions[req[r].session] IN
    \/ req[r].now > s.expires
    \/ req[r].now - s.seen > RefreshIdle

(* The status of the session is not looked at.                             *)
ReadSessionTrusting(r) ==
    /\ Reading(r, "refresh", "session")
    /\ IF Outlived(r) THEN Revokes(r, "none") ELSE Goes(r, "rotate")
    /\ UNCHANGED <<clock, db>>

ReadSession(r) ==
    /\ Reading(r, "refresh", "session")
    /\ \/ /\ ~sessions[req[r].session].active
          /\ Refuses(r)
       \/ /\ sessions[req[r].session].active
          /\ IF Outlived(r) THEN Revokes(r, "none") ELSE Goes(r, "rotate")
    /\ UNCHANGED <<clock, db>>

NewToken(s, now) == [session |-> s, consumed |-> FALSE, expires |-> now + RefreshTTL]

(* A rotation that leaves the old token as it is.                          *)
RotateUnspent(r) ==
    LET t == req[r].arg
        s == req[r].session
    IN
    /\ At(r, "rotate")
    /\ tokens' = Append(tokens, NewToken(s, req[r].now))
    /\ sessions' = [sessions EXCEPT ![s].seen = req[r].now]
    /\ Answers(r, "ok")
    /\ UNCHANGED <<clock, users, owner, nonces>>

Rotate(r) ==
    LET t == req[r].arg
        s == req[r].session
    IN
    /\ At(r, "rotate")
    /\ tokens' = Append([tokens EXCEPT ![t].consumed = TRUE], NewToken(s, req[r].now))
    /\ sessions' = [sessions EXCEPT ![s].seen = req[r].now,
                                    ![s].forks = IF tokens[t].consumed THEN @ + 1 ELSE @]
    /\ Answers(r, "ok")
    /\ UNCHANGED <<clock, users, owner, nonces>>

-----------------------------------------------------------------------------
(***************************************************************************)
(* revokeSession, at the end of a logout and of a refresh that found its   *)
(* token reused or its session outlived.  Refresh drops the error of a     *)
(* revocation that fails, Logout returns it.                               *)
(***************************************************************************)
Revoke(r) ==
    /\ At(r, "revoke")
    /\ sessions' = [sessions EXCEPT ![req[r].session].active = FALSE]
    /\ IF req[r].verdict = "reuse" THEN Answers(r, "reuse") ELSE Refuses(r)
    /\ UNCHANGED <<clock, users, owner, nonces, tokens>>

RevokeFails(r) ==
    /\ At(r, "revoke")
    /\ req' = [req EXCEPT ![r] = IF @.verdict = "reuse" THEN [@ EXCEPT !.pc = "done", !.lost = TRUE, !.arg = 0]
                                 ELSE Resting]
    /\ UNCHANGED <<clock, db>>

(* Logout, with an access token, that names its session, or a refresh      *)
(* token, whose row does.                                                  *)
BeginLogout(r, s, first) ==
    Begin(r, [Resting EXCEPT !.pc = first, !.kind = "logout", !.session = s])

LogoutByAccess(r, s) == BeginLogout(r, s, "revoke")

LogoutByRefresh(r, t) == BeginLogout(r, tokens[t].session, "token")

ReadLogoutToken(r) ==
    /\ Reading(r, "logout", "token")
    /\ Goes(r, "revoke")
    /\ UNCHANGED <<clock, db>>

(* Me and Entitlement: the session must be active and not past its end; how*)
(* long it was idle, and the Exp claim, are not looked at.                 *)
BeginMe(r, s) ==
    Begin(r, [Resting EXCEPT !.pc = "session", !.kind = "me", !.session = s,
                                         !.late = ~sessions[s].active])

ReadOwnSession(r) ==
    LET s == sessions[req[r].session] IN
    /\ Reading(r, "me", "session")
    /\ IF s.active /\ clock <= s.expires THEN Answers(r, "ok") ELSE Refuses(r)
    /\ UNCHANGED <<clock, db>>

-----------------------------------------------------------------------------
(***************************************************************************)
(* Sign-in.  upsertWalletUserTx and upsertDiscordUser look the identity up *)
(* and, when there is none, insert a user and the identity: the identity's *)
(* uniqueness fails the transaction that comes second.  A wallet's one     *)
(* transaction first takes its nonce's row and also opens the session;     *)
(* Discord's session is opened by a second transaction.                    *)
(***************************************************************************)
RequestWeb3Nonce(w) ==
    /\ Len(nonces) < MaxNonces
    /\ nonces' = Append(nonces, [wallet |-> w, used |-> FALSE, expires |-> clock + NonceTTL])
    /\ UNCHANGED <<clock, users, owner, sessions, tokens, req>>

BeginVerify(r, n) ==
    /\ RoomForToken
    /\ Begin(r, [Resting EXCEPT !.pc = "nonce", !.who = nonces[n].wallet, !.kind = "verify", !.arg = n,
                                                  !.late = nonces[n].used])

ReadNonce(r) ==
    LET n == nonces[req[r].arg] IN
    /\ At(r, "nonce")
    /\ IF n.used \/ req[r].now > n.expires THEN Refuses(r) ELSE Goes(r, "lookup")
    /\ UNCHANGED <<clock, db>>

(* The callback asks Discord for the profile; the time is taken after that.*)
BeginDiscord(r, i) ==
    /\ RoomForToken
    /\ Begin(r, [Resting EXCEPT !.pc = "provider", !.kind = "discord", !.who = i])

DiscordAnswers(r) ==
    /\ At(r, "provider")
    /\ req' = [req EXCEPT ![r].pc = "lookup", ![r].now = clock]
    /\ UNCHANGED <<clock, db>>

(* The UPDATE of a nonce waits for another transaction that holds its row. *)
RowHeld(r) ==
    /\ req[r].kind = "verify"
    /\ \E o \in Requests \ {r} : At(o, "enter") /\ req[o].kind = "verify" /\ req[o].arg = req[r].arg

LookUp(r) ==
    /\ At(r, "lookup")
    /\ ~RowHeld(r)
    /\ req' = [req EXCEPT ![r].pc = "enter", ![r].user = owner[req[r].who]]
    /\ UNCHANGED <<clock, db>>

NewSession(u, now) ==
    [user |-> u, active |-> TRUE, born |-> now, seen |-> now, expires |-> now + RefreshTTL, forks |-> 0]

(* createSessionTx *)
Opens(r, u) ==
    /\ sessions' = Append(sessions, NewSession(u, req[r].now))
    /\ tokens' = Append(tokens, NewToken(Len(sessions) + 1, req[r].now))

Fresh(r) == req[r].user = 0
UserOf(r) == IF Fresh(r) THEN users + 1 ELSE req[r].user

(* The identity of a user just inserted goes over the one that was there.  *)
UserEntersOver(r) ==
    /\ users' = IF Fresh(r) THEN UserOf(r) ELSE users
    /\ owner' = [owner EXCEPT ![req[r].who] = UserOf(r)]

(* insertUserTx or insertWalletUserTx and the identity, or the user found. *)
UserEnters(r) ==
    /\ Fresh(r) => owner[req[r].who] = 0
    /\ users' = IF Fresh(r) THEN UserOf(r) ELSE users
    /\ owner' = [owner EXCEPT ![req[r].who] = UserOf(r)]

WalletEnters(r) ==
    /\ At(r, "enter")
    /\ req[r].kind = "verify"
    /\ UserEnters(r)
    /\ nonces' = [nonces EXCEPT ![req[r].arg].used = TRUE]
    /\ Opens(r, UserOf(r))
    /\ Answers(r, "ok")
    /\ UNCHANGED clock

DiscordEnters(r) ==
    /\ At(r, "enter")
    /\ req[r].kind = "discord"
    /\ UserEnters(r)
    /\ req' = [req EXCEPT ![r].pc = "open", ![r].user = UserOf(r)]
    /\ UNCHANGED <<clock, nonces, sessions, tokens>>

(* Discord's session: the token is inserted and its session is not.        *)
OpenTokenAlone(r) ==
    /\ At(r, "open")
    /\ tokens' = Append(tokens, NewToken(Len(sessions) + 1, req[r].now))
    /\ Answers(r, "ok")
    /\ UNCHANGED <<clock, users, owner, nonces, sessions>>

OpenSession(r) ==
    /\ At(r, "open")
    /\ Opens(r, req[r].user)
    /\ Answers(r, "ok")
    /\ UNCHANGED <<clock, users, owner, nonces>>

-----------------------------------------------------------------------------
Tick ==
    /\ clock < Horizon
    /\ clock' = clock + 1
    /\ UNCHANGED <<db, req>>

Arrive(r) ==
    \/ \E t \in DOMAIN tokens : BeginRefresh(r, t) \/ LogoutByRefresh(r, t)
    \/ \E s \in DOMAIN sessions : BeginMe(r, s) \/ LogoutByAccess(r, s)
    \/ \E n \in DOMAIN nonces : BeginVerify(r, n)
    \/ \E i \in Profiles : BeginDiscord(r, i)

Step(r) ==
    \/ ReadSpentToken(r) \/ ReadUnspentToken(r) \/ ReadSession(r) \/ Rotate(r)
    \/ ReadLogoutToken(r) \/ Revoke(r) \/ RevokeFails(r)
    \/ ReadOwnSession(r)
    \/ ReadNonce(r) \/ LookUp(r) \/ DiscordAnswers(r) \/ WalletEnters(r) \/ DiscordEnters(r) \/ OpenSession(r)
    \/ Fail(r)

Next ==
    \/ Tick
    \/ \E w \in Wallets : RequestWeb3Nonce(w)
    \/ \E r \in Requests : Arrive(r) \/ Step(r)

Spec == Init /\ [][Next]_vars

-----------------------------------------------------------------------------
(* Rows and requests hold values of their types; a row points to a row.    *)
TypeOK ==
    /\ clock \in 0 .. Horizon
    /\ users \in Nat
    /\ owner \in [Identities -> 0 .. users]
    /\ nonces \in Seq(Nonce)
    /\ sessions \in Seq(Session)
    /\ tokens \in Seq(Token)
    /\ req \in [Requests -> Request]
    /\ \A t \in DOMAIN tokens : tokens[t].session \in DOMAIN sessions

Done(r, verdict) == At(r, "done") /\ req[r].verdict = verdict

(* service.go:345 and :357, web3.go:47: what was spent or revoked before a *)
(* request began is never answered as good, whoever else was under way: a  *)
(* spent token or nonce buys nothing, a revoked session neither a new token*)
(* nor an answer.  Only those that overlap its spending get past.          *)
LateComersRefused ==
    \A r \in Requests : Done(r, "ok") => ~req[r].late

(* service.go:372: a session has one token to rotate, and one more for each*)
(* rotation whose UPDATE found the token consumed by another under way.    *)
LiveTokensCounted ==
    \A s \in DOMAIN sessions : Cardinality(LiveTokens(s)) = 1 + sessions[s].forks

(* service.go:346: a token that is presented again leaves its session      *)
(* revoked, unless the revoking UPDATE, whose error is dropped, was lost.  *)
ReuseRevokes ==
    \A r \in Requests :
        Done(r, "reuse") /\ ~req[r].lost => ~sessions[req[r].session].active

(* service.go:814: however often it is refreshed, a session serves nothing *)
(* later than RefreshTTL after the sign-in that opened it.                 *)
LifetimeKept ==
    \A r \in Requests :
        Done(r, "ok") /\ req[r].kind \in {"refresh", "me"}
            => req[r].now <= sessions[req[r].session].born + RefreshTTL

(* service.go:681, web3.go:63: each user has exactly one identity, even    *)
(* when first sign-ins with one identity race, and each session a user.    *)
AccountsBacked ==
    /\ \A u \in 1 .. users : \E i \in Identities : owner[i] = u /\ \A j \in Identities \ {i} : owner[j] # u
    /\ \A s \in DOMAIN sessions : sessions[s].user <= users

(***************************************************************************)
(* Both: nothing is answered on the strength of what is over.              *)
(***************************************************************************)
EndsAreFinal == LateComersRefused /\ LifetimeKept

(***************************************************************************)
(* service.go:265-606: whatever requests overlap and whichever statements  *)
(* fail, users and sessions are those of the abstract book: one change at a*)
(* time, nothing taken back, no session reopened.                          *)
(***************************************************************************)
Holders == [s \in DOMAIN sessions |-> sessions[s].user]
OpenSessions == {s \in DOMAIN sessions : sessions[s].active}
LiveCounts == [s \in DOMAIN sessions |-> Cardinality(LiveTokens(s))]

Book ==
    INSTANCE SessionBook
    WITH account <- owner, holder <- Holders, open <- OpenSessions, live <- LiveCounts

KeepsBook == Book!BookSpec
=============================================================================
