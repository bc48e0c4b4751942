----------------------------- MODULE RouteText -----------------------------
(***************************************************************************)
(* What the gateway's routing tables are made of: matching a path against  *)
(* names, prefixes and words, the first rule of a switch that matches, and *)
(* the rewriting of a query's parameters.  A path is a lower-case string;  *)
(* a query maps the parameters that are not blank to their values.         *)
(***************************************************************************)
EXTENDS Naturals, Sequences, FiniteSetsExt, TLC

HasPrefix(s, p) == Len(p) <= Len(s) /\ SubSeq(s, 1, Len(p)) = p

HasSuffix(s, p) == Len(p) <= Len(s) /\ SubSeq(s, Len(s) - Len(p) + 1, Len(s)) = p

Holds(s, w) == \E i \in 0 .. Len(s) : HasPrefix(SubSeq(s, i + 1, Len(s)), w)

After(s, p) == IF HasPrefix(s, p) THEN SubSeq(s, Len(p) + 1, Len(s)) ELSE s

(***************************************************************************)
(* A table is a sequence of rules <<patterns, outcome>>, a switch of the   *)
(* code: the first rule one of whose patterns matches gives the outcome.   *)
(***************************************************************************)
FirstRule(table, hits, other) == IF hits = {} THEN other ELSE table[Min(hits)][2]

ByName(table, s, other) == FirstRule(table, {i \in DOMAIN table : s \in table[i][1]}, other)

ByPrefix(table, s, other) ==
    FirstRule(table, {i \in DOMAIN table : \E p \in table[i][1] : HasPrefix(s, p)}, other)

ByWord(table, s, other) ==
    FirstRule(table, {i \in DOMAIN table : \E w \in table[i][1] : Holds(s, w)}, other)

NoQuery == <<>>

\* The first of these parameters that the query has, or "".
FirstGiven(query, names) ==
    LET has == {i \in DOMAIN names : names[i] \in DOMAIN query}
    IN  IF has = {} THEN "" ELSE query[names[Min(has)]]

\* That value under each of the names outs.
Given(query, names, outs) ==
    IF FirstGiven(query, names) = "" THEN NoQuery ELSE [o \in outs |-> FirstGiven(query, names)]

Kept(query, names) == [n \in names \cap DOMAIN query |-> query[n]]

\* The query cut down to that value, or left as it came if it is not there.
CutTo(query, names, outs) ==
    IF FirstGiven(query, names) = "" THEN query ELSE Given(query, names, outs)

(***************************************************************************)
(* What is sent upstream: own says whether a case of the provider's own    *)
(* named the route, or the request is passed on as it came.                *)
(***************************************************************************)
Sent(path, query) == [path |-> path, query |-> query, own |-> TRUE]

PassedOn(path, query) == [path |-> path, query |-> query, own |-> FALSE]
=============================================================================
