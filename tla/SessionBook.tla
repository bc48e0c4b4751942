---------------------------- MODULE SessionBook ----------------------------
(***************************************************************************)
(* What sign-in promises, without requests, statements, nonces or clock: a *)
(* register of who is whom and a book of sessions, one changed at a time.  *)
(* Who is enrolled keeps a user of his own; a session is opened for one    *)
(* who is enrolled, with one token; it can be closed and is never reopened,*)
(* and its tokens are replaced, but for a fork that leaves one more.       *)
(***************************************************************************)
EXTENDS Integers, Sequences

CONSTANT Identities

VARIABLES
    account,        \* the user of each identity, 0 for none
    holder,         \* the user of each session, in the order they were opened
    open,           \* the sessions that are open
    live            \* how many tokens each session could be continued with

bookVars == <<account, holder, open, live>>

BookInit ==
    /\ account = [i \in Identities |-> 0]
    /\ holder = <<>>
    /\ open = {}
    /\ live = <<>>

(* An identity without a user gets one that is nobody else's.              *)
Enrol(i, u) ==
    /\ account[i] = 0
    /\ u # 0
    /\ \A j \in Identities : account[j] # u
    /\ account' = [account EXCEPT ![i] = u]

SignUp(i) == Enrol(i, account'[i]) /\ UNCHANGED <<holder, open, live>>

SignIn(i) ==
    /\ UNCHANGED account \/ Enrol(i, account'[i])
    /\ account'[i] # 0
    /\ holder' = Append(holder, account'[i])
    /\ open' = open \cup {Len(holder')}
    /\ live' = Append(live, 1)

Close(s) ==
    /\ s \in open
    /\ open' = open \ {s}
    /\ UNCHANGED <<account, holder, live>>

Fork(s) ==
    /\ live' = [live EXCEPT ![s] = @ + 1]
    /\ UNCHANGED <<account, holder, open>>

BookNext ==
    \/ \E i \in Identities : SignUp(i) \/ SignIn(i)
    \/ \E s \in DOMAIN holder : Close(s) \/ Fork(s)

BookSpec == BookInit /\ [][BookNext]_bookVars
=============================================================================
