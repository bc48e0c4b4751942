-------------------------- MODULE OhlcvSync_proofs --------------------------
(***************************************************************************)
(* The candle table of one series stays whole and settled, for every page  *)
(* size, every set of pairs and every length of the run.                   *)
(***************************************************************************)
EXTENDS OhlcvSync, TLAPS

(* Where a sync stands with respect to table and clock.                    *)
SyncInPlace ==
    /\ \A t \in Held : t <= now
    /\ pc \in {"poll", "store"} => Latest(since)
    /\ pc = "store" => /\ from <= to /\ to <= polledAt /\ polledAt <= now
                       /\ since # NoTime => from = since
    /\ pc = "push" => /\ from <= to /\ polledAt <= now
                      /\ \A t \in from .. to : t \in Held /\ (stored[t].final <=> t < polledAt)

(* No list claims final values for the forming candle, nor, while a page   *)
(* waits to be stored, for candles the page saw forming.                   *)
FinalInPast ==
    \A p \in Pairs : \A i \in 1 .. Len(buffer[p]) :
        buffer[p][i].final => /\ buffer[p][i].at < now
                              /\ pc = "store" => buffer[p][i].at < polledAt

(* A row with its final values is marked closed and of a candle that has   *)
(* ended, and that the page waiting to be stored saw ended.                *)
SettledInPast ==
    \A t \in Held : stored[t].final =>
        /\ stored[t].closed
        /\ t < now
        /\ pc = "store" => t < polledAt

(* A page is pushed from where the lists ended: nothing in them is newer   *)
(* than the candle to be pushed next.                                      *)
ListsBehindPage ==
    pc = "push" => \A p \in Pairs : \A i \in 1 .. Len(buffer[p]) : buffer[p][i].at <= from

(* Entry e may stand before entry f: BufferNewestFirst, list by list.      *)
Before(e, f) == e.at > f.at \/ (e.at = f.at /\ (f.final => e.final))

NewestFirst(list) == \A i, j \in 1 .. Len(list) : i < j => Before(list[i], list[j])

IInv == TypeOK /\ SyncInPlace /\ FinalInPast /\ SettledInPast /\ ListsBehindPage
          /\ SettledBehindNewest /\ NoHoles /\ BufferBackedByStore /\ BufferNewestFirst

LEMMA ListByList == BufferNewestFirst <=> \A p \in Pairs : NewestFirst(buffer[p])
  BY DEF BufferNewestFirst, NewestFirst, Before

LEMMA InitHolds == Init => IInv
<1> SUFFICES ASSUME Init PROVE IInv
  OBVIOUS
<1>1. Held = {}
  BY DEF Held, Init
<1>2. TypeOK
  BY HorizonAssumption DEF HorizonAssumption, Init, TypeOK, Times, NoTime
<1>3. FinalInPast /\ BufferBackedByStore /\ BufferNewestFirst /\ ListsBehindPage
  BY DEF Init, FinalInPast, BufferBackedByStore, BufferNewestFirst, ListsBehindPage
<1> QED
  BY <1>1, <1>2, <1>3 DEF Init, IInv, SyncInPlace, SettledInPast, SettledBehindNewest, NoHoles

(* The page and the table before it: the table ends where the page begins. *)
LEMMA StoreHolds ==
    ASSUME IInv, Store PROVE IInv'
<1>0. /\ TypeOK /\ SyncInPlace /\ SettledBehindNewest /\ NoHoles
      /\ from \in Times /\ to \in Times /\ now \in Times /\ polledAt \in Times
      /\ since \in Times \cup {NoTime} /\ Times \subseteq Int
  BY HorizonAssumption DEF HorizonAssumption, IInv, TypeOK, Times
<1>1. /\ from <= to /\ to <= polledAt /\ polledAt <= now
      /\ since # NoTime => from = since
      /\ Latest(since)
  BY <1>0 DEF SyncInPlace, Store
<1>2. from .. to \subseteq Times
  BY <1>0, HorizonAssumption DEF HorizonAssumption, Times
<1> DEFINE row(t) == [pair |-> pair, final |-> t < polledAt, closed |-> t < now]
<1>3. /\ \A t \in from .. to : stored'[t] = row(t)
      /\ \A t \in from .. to : stored'[t].final <=> t < polledAt
      /\ \A t \in from .. to : stored'[t].closed <=> t < now
  <2>1. \A t \in from .. to : stored'[t] = row(t)
    BY <1>2 DEF Store
  <2>2. ASSUME NEW t \in from .. to
        PROVE  (stored'[t].final <=> t < polledAt) /\ (stored'[t].closed <=> t < now)
    <3>1. row(t).final <=> t < polledAt
      OBVIOUS
    <3>2. row(t).closed <=> t < now
      OBVIOUS
    <3> HIDE DEF row
    <3>3. stored'[t] = row(t)
      BY <2>1
    <3> QED
      BY <3>1, <3>2, <3>3
  <2> QED
    BY <2>1, <2>2
<1>4. \A t \in Times \ (from .. to) : stored'[t] = stored[t]
  BY DEF Store
<1>5. \A t \in Times : row(t) # Never
  <2>1. \A t \in Times : "closed" \in DOMAIN row(t)
    OBVIOUS
  <2>2. "closed" \notin DOMAIN Never
    BY DEF Never
  <2> QED
    BY <2>1, <2>2
<1>6. Held' = Held \cup (from .. to)
  BY <1>2, <1>3, <1>4, <1>5 DEF Held
<1>7. Held \subseteq Times
  BY DEF Held
<1>8. \A t \in Held \ (from .. to) : t < from /\ since = from /\ from \in Held
  BY <1>0, <1>1, <1>7, HorizonAssumption DEF HorizonAssumption, Latest, Times, NoTime
<1>9. \A t \in Held : t <= to
  BY <1>0, <1>1, <1>7, HorizonAssumption DEF HorizonAssumption, Latest, Times, NoTime
<1>10. TypeOK'
  <2>1. stored' \in [Times -> Candle \cup {Never}]
    BY <1>0 DEF Store, TypeOK, Candle
  <2> QED
    BY <1>0, <2>1 DEF TypeOK, Store
<1>11. SyncInPlace'
  <2>1. \A t \in Held' : t <= now'
    BY <1>0, <1>1, <1>6, <1>7 DEF SyncInPlace, Store
  <2>2. \A t \in from .. to : t \in Held' /\ (stored'[t].final <=> t < polledAt)
    BY <1>3, <1>6
  <2> QED
    BY <1>1, <2>1, <2>2 DEF SyncInPlace, Store
<1>12. SettledBehindNewest'
  <2> SUFFICES ASSUME NEW t \in Held', NEW u \in Held', t < u
               PROVE  stored'[t].final /\ stored'[t].closed
    BY DEF SettledBehindNewest
  <2>1. u <= to
    BY <1>6, <1>9
  <2>2. CASE t \in from .. to
    <3>1. t < polledAt /\ t < now
      BY <1>0, <1>1, <1>6, <1>7, <2>1, <2>2
    <3> QED
      BY <1>3, <2>2, <3>1
  <2>3. CASE t \notin from .. to
    <3>1. t \in Held /\ t < from /\ from \in Held
      BY <1>6, <1>8, <2>3
    <3>2. stored[t].final /\ stored[t].closed
      BY <1>0, <3>1 DEF SettledBehindNewest
    <3> QED
      BY <1>4, <1>7, <2>3, <3>1, <3>2
  <2> QED
    BY <2>2, <2>3
<1>13. NoHoles'
  <2> SUFFICES ASSUME NEW t \in Held', NEW u \in Held', NEW v \in t .. u
               PROVE  v \in Held'
    BY DEF NoHoles
  <2>1. t \in Int /\ u \in Int /\ v \in Int /\ u <= to
    BY <1>0, <1>6, <1>7, <1>9
  <2>2. CASE t \in from .. to
    BY <1>0, <1>6, <2>1, <2>2
  <2>3. CASE t \notin from .. to /\ v < from
    <3>1. t \in Held /\ from \in Held /\ v \in t .. from
      BY <1>0, <1>6, <1>8, <2>1, <2>3
    <3> QED
      BY <1>0, <1>6, <3>1 DEF NoHoles
  <2>4. CASE v >= from
    BY <1>0, <1>6, <2>1, <2>4
  <2> QED
    BY <1>0, <2>1, <2>2, <2>3, <2>4
<1>14. FinalInPast'
  BY DEF IInv, FinalInPast, Store
<1>15. BufferBackedByStore'
  <2> SUFFICES ASSUME NEW p \in Pairs, NEW i \in 1 .. Len(buffer[p])
               PROVE  /\ buffer[p][i].at \in Held'
                      /\ buffer[p][i].final => stored'[buffer[p][i].at].final
    BY DEF BufferBackedByStore, Store
  <2>1. /\ buffer[p][i].at \in Held
        /\ buffer[p][i].final => stored[buffer[p][i].at].final
        /\ buffer[p][i].final => buffer[p][i].at < polledAt
    BY DEF IInv, BufferBackedByStore, FinalInPast, Store
  <2> QED
    BY <1>3, <1>4, <1>6, <1>7, <2>1
<1>16. BufferNewestFirst'
  BY DEF IInv, BufferNewestFirst, Store
<1>17. ListsBehindPage'
  <2>1. \A t \in Held : t <= from
    BY <1>0, <1>1, <1>7, HorizonAssumption DEF HorizonAssumption, Latest, Times, NoTime
  <2> QED
    BY <2>1 DEF IInv, BufferBackedByStore, ListsBehindPage, Store
<1>18. SettledInPast'
  <2> SUFFICES ASSUME NEW t \in Held', stored'[t].final
               PROVE  stored'[t].closed /\ t < now
    BY DEF SettledInPast, Store
  <2>1. CASE t \in from .. to
    BY <1>0, <1>1, <1>3, <2>1
  <2>2. CASE t \notin from .. to
    <3>1. t \in Held /\ t \in Times /\ stored'[t] = stored[t]
      BY <1>4, <1>6, <1>7, <2>2
    <3> QED
      BY <3>1 DEF IInv, SettledInPast
  <2> QED
    BY <2>1, <2>2
<1> QED
  BY <1>10, <1>11, <1>12, <1>13, <1>14, <1>15, <1>16, <1>17, <1>18 DEF IInv

(* What a push adds to a list is the one entry it pushes.                  *)
LEMMA PushedEntries ==
    ASSUME TypeOK, NEW e \in Entry, NEW s \in Seq(Entry), NEW l \in {<<e>> \o s, Trimmed(<<e>> \o s)}
    PROVE  /\ l \in Seq(Entry)
           /\ \A i \in 1 .. Len(l) : l[i] = e \/ \E j \in 1 .. Len(s) : l[i] = s[j]
<1> DEFINE w == <<e>> \o s
<1>1. w \in Seq(Entry) /\ Len(w) = Len(s) + 1 /\ Len(s) \in Nat
  OBVIOUS
<1>2. w[1] = e /\ \A i \in 2 .. Len(w) : w[i] = s[i - 1] /\ i - 1 \in 1 .. Len(s)
  OBVIOUS
<1>3. \A i \in 1 .. Len(w) : w[i] = e \/ \E j \in 1 .. Len(s) : w[i] = s[j]
  BY <1>1, <1>2
<1> HIDE DEF w
<1>4. CASE l = w
  BY <1>1, <1>3, <1>4
<1>5. CASE l = Trimmed(w) /\ Len(w) > BufferCap
  <2>1. l = SubSeq(w, 1, BufferCap)
    BY <1>5 DEF Trimmed
  <2>2. l \in Seq(Entry) /\ Len(l) = BufferCap /\ \A i \in 1 .. BufferCap : l[i] = w[i]
    BY <1>1, <1>5, <2>1, BufferCapAssumption DEF BufferCapAssumption
  <2> QED
    BY <1>1, <1>3, <1>5, <2>2, BufferCapAssumption DEF BufferCapAssumption
<1>6. CASE l = Trimmed(w) /\ ~(Len(w) > BufferCap)
  BY <1>1, <1>3, <1>6 DEF Trimmed
<1> QED
  BY <1>4, <1>5, <1>6 DEF w

(* A push keeps the order when what it pushes may stand before all there is. *)
LEMMA PushedInOrder ==
    ASSUME TypeOK, NEW e \in Entry, NEW s \in Seq(Entry), NewestFirst(s),
           \A i \in 1 .. Len(s) : Before(e, s[i]),
           NEW l \in {<<e>> \o s, Trimmed(<<e>> \o s)}
    PROVE  NewestFirst(l)
<1> DEFINE w == <<e>> \o s
<1>1. w \in Seq(Entry) /\ Len(w) = Len(s) + 1 /\ Len(s) \in Nat
  OBVIOUS
<1>2. w[1] = e /\ \A i \in 2 .. Len(w) : w[i] = s[i - 1] /\ i - 1 \in 1 .. Len(s)
  OBVIOUS
<1> HIDE DEF w
<1>3. NewestFirst(w)
  <2> SUFFICES ASSUME NEW i \in 1 .. Len(w), NEW j \in 1 .. Len(w), i < j
               PROVE  Before(w[i], w[j])
    BY DEF NewestFirst
  <2>1. j \in 2 .. Len(w) /\ (i = 1 \/ i \in 2 .. Len(w))
    BY <1>1
  <2>2. CASE i = 1
    BY <1>2, <2>1, <2>2
  <2>3. CASE i \in 2 .. Len(w)
    <3>1. i - 1 < j - 1
      BY <1>1, <2>1
    <3> QED
      BY <1>2, <2>1, <2>3, <3>1 DEF NewestFirst
  <2> QED
    BY <2>1, <2>2, <2>3
<1>4. CASE l = w
  BY <1>3, <1>4
<1>5. CASE l = Trimmed(w) /\ Len(w) > BufferCap
  <2>1. l = SubSeq(w, 1, BufferCap)
    BY <1>5 DEF Trimmed
  <2>2. Len(l) = BufferCap /\ \A i \in 1 .. BufferCap : l[i] = w[i]
    BY <1>1, <1>5, <2>1, BufferCapAssumption DEF BufferCapAssumption
  <2>3. 1 .. BufferCap \subseteq 1 .. Len(w)
    BY <1>1, <1>5, BufferCapAssumption DEF BufferCapAssumption
  <2> QED
    BY <1>3, <2>2, <2>3 DEF NewestFirst
<1>6. CASE l = Trimmed(w) /\ ~(Len(w) > BufferCap)
  BY <1>3, <1>6 DEF Trimmed
<1> QED
  BY <1>4, <1>5, <1>6 DEF w

(* The version about to be pushed is at least as late as all in the lists. *)
LEMMA VersionBeforeAll ==
    ASSUME IInv, pc = "push", NEW p \in Pairs, NEW i \in 1 .. Len(buffer[p])
    PROVE  Before(Version(from), buffer[p][i])
<1> DEFINE f == buffer[p][i]
<1>1. f.at <= from /\ f.at \in Held /\ (f.final => stored[f.at].final)
  BY DEF IInv, ListsBehindPage, BufferBackedByStore
<1>2. f.at \in Int /\ from \in Int /\ from \in from .. to
  BY <1>1, HorizonAssumption DEF HorizonAssumption, IInv, TypeOK, SyncInPlace, Held, Times
<1>3. stored[from].final <=> from < polledAt
  BY <1>2 DEF IInv, SyncInPlace
<1>4. Version(from).at = from /\ (Version(from).final <=> from < polledAt)
  BY DEF Version
<1> HIDE DEF f
<1>5. Before(Version(from), f)
  BY <1>1, <1>2, <1>3, <1>4 DEF Before
<1> QED
  BY <1>5 DEF f

(* Whatever the end of the push, the list got the version in the table.    *)
LEMMA PushHolds ==
    ASSUME IInv, pc = "push", NEW l \in Seq(Entry),
           \A i \in 1 .. Len(l) :
              \/ l[i] = Version(from)
              \/ \E j \in 1 .. Len(buffer[pair]) : l[i] = buffer[pair][j],
           buffer' = [buffer EXCEPT ![pair] = l],
           UNCHANGED <<now, stored>>,
           pc' # "store"
    PROVE  FinalInPast' /\ BufferBackedByStore' /\ buffer' \in [Pairs -> Seq(Entry)]
<1>0. TypeOK /\ SyncInPlace /\ pair \in Pairs /\ buffer \in [Pairs -> Seq(Entry)]
  BY DEF IInv, TypeOK
<1>1. from \in Held /\ (stored[from].final <=> from < polledAt) /\ polledAt <= now
      /\ from \in Int /\ polledAt \in Int /\ now \in Int
  BY <1>0, HorizonAssumption DEF HorizonAssumption, SyncInPlace, TypeOK, Times
<1>2. Version(from).at = from /\ (Version(from).final <=> from < polledAt)
  BY DEF Version
<1>3. ASSUME NEW p \in Pairs, NEW i \in 1 .. Len(buffer'[p])
      PROVE  /\ buffer'[p][i].at \in Held
             /\ buffer'[p][i].final => stored[buffer'[p][i].at].final /\ buffer'[p][i].at < now
  <2>1. CASE p # pair
    BY <1>0, <1>3, <2>1 DEF IInv, BufferBackedByStore, FinalInPast
  <2>2. CASE p = pair /\ l[i] = Version(from)
    BY <1>0, <1>1, <1>2, <2>2
  <2>3. CASE p = pair /\ \E j \in 1 .. Len(buffer[pair]) : l[i] = buffer[pair][j]
    BY <1>0, <2>3 DEF IInv, BufferBackedByStore, FinalInPast
  <2> QED
    BY <1>0, <1>3, <2>1, <2>2, <2>3
<1>4. Held' = Held
  BY DEF Held
<1> QED
  BY <1>0, <1>3, <1>4 DEF FinalInPast, BufferBackedByStore

(* A step that neither stores nor pushes leaves the table as it was.       *)
LEMMA QuietHolds ==
    ASSUME IInv, UNCHANGED <<stored, buffer>>, now' \in Times, now <= now',
           pc' # "store", pc' # "push" \/ (pc = "push" /\ from' = from)
    PROVE  /\ SettledBehindNewest' /\ NoHoles' /\ BufferBackedByStore' /\ FinalInPast'
           /\ BufferNewestFirst' /\ ListsBehindPage' /\ SettledInPast'
<1>0. Held' = Held
  BY DEF Held
<1>1. SettledBehindNewest' /\ NoHoles'
  BY <1>0 DEF IInv, SettledBehindNewest, NoHoles
<1>2. BufferBackedByStore'
  BY <1>0 DEF IInv, BufferBackedByStore
<1>3. FinalInPast'
  <2> SUFFICES ASSUME NEW p \in Pairs, NEW i \in 1 .. Len(buffer[p]), buffer[p][i].final
               PROVE  buffer[p][i].at < now'
    BY DEF FinalInPast
  <2>1. buffer[p][i].at < now /\ buffer[p][i].at \in Held
    BY DEF IInv, FinalInPast, BufferBackedByStore
  <2> QED
    BY <2>1, HorizonAssumption DEF HorizonAssumption, IInv, TypeOK, Times, Held
<1>4. BufferNewestFirst' /\ ListsBehindPage'
  BY DEF IInv, BufferNewestFirst, ListsBehindPage
<1>5. SettledInPast'
  <2> SUFFICES ASSUME NEW t \in Held, stored[t].final
               PROVE  stored[t].closed /\ t < now'
    BY <1>0 DEF SettledInPast
  <2>1. stored[t].closed /\ t < now /\ t \in Times
    BY DEF IInv, SettledInPast, Held
  <2> QED
    BY <2>1, HorizonAssumption DEF HorizonAssumption, IInv, TypeOK, Times
<1> QED
  BY <1>1, <1>2, <1>3, <1>4, <1>5

LEMMA ReturnTypes ==
    ASSUME TypeOK, Return
    PROVE  /\ pc' = "idle" /\ pair' \in Pairs /\ since' \in Times \cup {NoTime}
           /\ from' \in Times /\ to' \in Times /\ polledAt' \in Times
  BY HorizonAssumption DEF HorizonAssumption, TypeOK, Return, Times

LEMMA NextHolds ==
    ASSUME IInv, [Next]_vars PROVE IInv'
<1>0. /\ TypeOK /\ SyncInPlace /\ SettledBehindNewest /\ NoHoles
      /\ now \in Times /\ Times \subseteq Int
  BY HorizonAssumption DEF HorizonAssumption, IInv, TypeOK, Times
<1>1. CASE Begin
  <2>1. TypeOK'
    BY <1>0, <1>1 DEF Begin, TypeOK
  <2>2. Held' = Held /\ Latest(since')
    BY <1>1 DEF Begin, Held
  <2>3. SyncInPlace'
    BY <1>0, <1>1, <2>2 DEF Begin, SyncInPlace, Latest
  <2> QED
    BY <1>0, <1>1, <2>1, <2>3, QuietHolds DEF Begin, IInv
<1>2. CASE Poll
  <2>0. UNCHANGED <<now, stored, buffer>> /\ Held' = Held /\ pc = "poll"
    BY <1>2 DEF Poll, Held
  <2>1. CASE Return
    <3>1. TypeOK'
      BY <1>0, <2>0, <2>1, ReturnTypes DEF TypeOK
    <3>2. SyncInPlace'
      BY <1>0, <2>0, <2>1 DEF Return, SyncInPlace
    <3> QED
      BY <1>0, <2>0, <2>1, <3>1, <3>2, QuietHolds DEF Return, IInv
  <2>2. CASE ~Return
    <3>1. PICK last \in {now - 1, now} :
             /\ PageStart(last) <= last
             /\ from' = PageStart(last)
             /\ to' = IF last - from' < PageSize THEN last ELSE from' + PageSize - 1
             /\ polledAt' = now
             /\ pc' = "store"
             /\ UNCHANGED <<since, pair>>
      BY <1>2, <2>2 DEF Poll
    <3>2. since \in Times \cup {NoTime} /\ Latest(since) /\ last \in Int /\ last <= now
      BY <1>0, <2>0 DEF TypeOK, SyncInPlace
    <3>3. PageStart(last) \in Int /\ PageStart(last) >= 0
          /\ (since # NoTime => PageStart(last) = since)
      BY <1>0, <3>1, <3>2, PageSizeAssumption DEF PageSizeAssumption, PageStart, Times
    <3>4. from' <= to' /\ to' <= last /\ from' \in Times /\ to' \in Times
      BY <1>0, <3>1, <3>2, <3>3, PageSizeAssumption, HorizonAssumption
         DEF PageSizeAssumption, HorizonAssumption, Times
    <3>5. TypeOK'
      BY <1>0, <2>0, <3>1, <3>4 DEF TypeOK
    <3>6. SyncInPlace'
      <4>1. Latest(since)'
        BY <2>0, <3>1, <3>2 DEF Latest
      <4>2. to' <= now
        BY <1>0, <3>2, <3>4
      <4> QED
        BY <1>0, <2>0, <3>1, <3>3, <3>4, <4>1, <4>2 DEF SyncInPlace
    <3>7. SettledBehindNewest' /\ NoHoles' /\ BufferBackedByStore'
      BY <1>0, <2>0 DEF IInv, SettledBehindNewest, NoHoles, BufferBackedByStore
    <3>8. FinalInPast' /\ BufferNewestFirst' /\ ListsBehindPage'
      BY <2>0, <3>1 DEF IInv, FinalInPast, BufferNewestFirst, ListsBehindPage
    <3>9. SettledInPast'
      BY <2>0, <3>1 DEF IInv, SettledInPast
    <3> QED
      BY <3>5, <3>6, <3>7, <3>8, <3>9 DEF IInv
  <2> QED
    BY <2>1, <2>2
<1>3. CASE Store
  BY <1>3, StoreHolds
<1>4. CASE Push \/ PushUntrimmed
  <2>0. UNCHANGED <<now, stored>> /\ Held' = Held /\ pc = "push" /\ pair \in Pairs
        /\ from \in Times /\ to \in Times /\ from <= to
    BY <1>0, <1>4 DEF Push, PushUntrimmed, Held, TypeOK, SyncInPlace
  <2>1. Version(from) \in Entry
    BY <2>0 DEF Version, Entry
  <2> DEFINE w == <<Version(from)>> \o buffer[pair]
  <2>2. PICK l \in {w, Trimmed(w)} : buffer' = [buffer EXCEPT ![pair] = l]
    BY <1>4 DEF Push, PushUntrimmed
  <2>3. /\ l \in Seq(Entry)
        /\ \A i \in 1 .. Len(l) : \/ l[i] = Version(from)
                                  \/ \E j \in 1 .. Len(buffer[pair]) : l[i] = buffer[pair][j]
    <3>1. buffer[pair] \in Seq(Entry)
      BY <1>0, <2>0 DEF TypeOK
    <3> QED
      BY <1>0, <2>1, <2>2, <3>1, PushedEntries
  <2>4. \/ Return
        \/ from # to /\ from' = from + 1 /\ UNCHANGED <<pc, since, pair, to, polledAt>>
    BY <1>4 DEF Push, PushUntrimmed
  <2>5. pc' # "store"
    BY <2>0, <2>4 DEF Return
  <2> HIDE DEF w
  <2>6. FinalInPast' /\ BufferBackedByStore' /\ buffer' \in [Pairs -> Seq(Entry)]
    BY <2>0, <2>2, <2>3, <2>5, PushHolds
  <2>7. TypeOK'
    <3>1. CASE Return
      BY <1>0, <2>0, <2>6, <3>1, ReturnTypes DEF TypeOK
    <3>2. CASE from # to /\ from' = from + 1 /\ UNCHANGED <<pc, since, pair, to, polledAt>>
      <4>1. from' \in Times
        BY <1>0, <2>0, <3>2, HorizonAssumption DEF HorizonAssumption, Times
      <4> QED
        BY <1>0, <2>0, <2>6, <3>2, <4>1 DEF TypeOK
    <3> QED
      BY <2>4, <3>1, <3>2
  <2>8. SyncInPlace'
    <3>1. CASE Return
      BY <1>0, <2>0, <3>1 DEF Return, SyncInPlace
    <3>2. CASE from # to /\ from' = from + 1 /\ UNCHANGED <<pc, since, pair, to, polledAt>>
      <4>1. from \in Int /\ to \in Int /\ from' <= to' /\ from' .. to' \subseteq from .. to
        BY <1>0, <2>0, <3>2
      <4>2. \A t \in from' .. to' : t \in Held' /\ (stored'[t].final <=> t < polledAt')
        BY <1>0, <2>0, <3>2, <4>1 DEF SyncInPlace
      <4> QED
        BY <1>0, <2>0, <3>2, <4>1, <4>2 DEF SyncInPlace
    <3> QED
      BY <2>4, <3>1, <3>2
  <2>9. SettledBehindNewest' /\ NoHoles'
    BY <1>0, <2>0 DEF SettledBehindNewest, NoHoles
  <2>10. BufferNewestFirst'
    <3>1. \A p \in Pairs : NewestFirst(buffer[p])
      BY ListByList DEF IInv
    <3>2. NewestFirst(l)
      BY <1>0, <2>0, <2>1, <2>2, <3>1, PushedInOrder, VersionBeforeAll DEF TypeOK, w
    <3>3. \A p \in Pairs : NewestFirst(buffer'[p])
      BY <1>0, <2>0, <2>2, <3>1, <3>2 DEF TypeOK
    <3> QED
      BY <3>3 DEF BufferNewestFirst, NewestFirst, Before
  <2>11. ListsBehindPage'
    <3>1. CASE Return
      BY <3>1 DEF Return, ListsBehindPage
    <3>2. CASE from # to /\ from' = from + 1 /\ UNCHANGED <<pc, since, pair, to, polledAt>>
      <4>0. SUFFICES \A p \in Pairs : \A i \in 1 .. Len(buffer'[p]) : buffer'[p][i].at <= from
        <5> SUFFICES ASSUME NEW p \in Pairs, NEW i \in 1 .. Len(buffer'[p]),
                            buffer'[p][i].at <= from
                     PROVE  buffer'[p][i].at <= from'
          BY DEF ListsBehindPage
        <5>1. buffer'[p][i] \in Entry
          BY <2>6
        <5>2. buffer'[p][i].at \in Int /\ from \in Int /\ from' = from + 1
          BY <1>0, <2>0, <3>2, <5>1 DEF Entry
        <5> QED
          BY <5>2
      <4> SUFFICES ASSUME NEW p \in Pairs, NEW i \in 1 .. Len(buffer'[p])
                   PROVE  buffer'[p][i].at <= from
        BY <4>0
      <4>1. Version(from).at <= from
        BY <1>0, <2>0 DEF Version
      <4>2. \A q \in Pairs : \A j \in 1 .. Len(buffer[q]) : buffer[q][j].at <= from
        BY <2>0 DEF IInv, ListsBehindPage
      <4>3. CASE p # pair
        BY <1>0, <2>2, <4>2, <4>3 DEF TypeOK
      <4>4. CASE p = pair
        BY <1>0, <2>0, <2>2, <2>3, <4>1, <4>2, <4>4 DEF TypeOK
      <4> QED
        BY <4>3, <4>4
    <3> QED
      BY <2>4, <3>1, <3>2
  <2>12. SettledInPast'
    BY <2>0, <2>5 DEF IInv, SettledInPast
  <2> QED
    BY <2>6, <2>7, <2>8, <2>9, <2>10, <2>11, <2>12 DEF IInv
<1>5. CASE Abandon
  <2>1. UNCHANGED <<now, stored, buffer>> /\ Return /\ Held' = Held
    BY <1>5 DEF Abandon, Held
  <2>2. TypeOK'
    BY <1>0, <2>1, ReturnTypes DEF TypeOK
  <2>3. SyncInPlace'
    BY <1>0, <2>1 DEF Return, SyncInPlace
  <2> QED
    BY <1>0, <2>1, <2>2, <2>3, QuietHolds DEF Return, IInv
<1>6. CASE Tick
  <2>1. UNCHANGED <<stored, buffer, syncVars>> /\ Held' = Held
        /\ now' \in Times /\ now' = now + 1
    BY <1>0, <1>6, HorizonAssumption DEF HorizonAssumption, Tick, Held, Times
  <2>2. TypeOK'
    BY <1>0, <2>1 DEF TypeOK, syncVars
  <2>3. SyncInPlace'
    <3>1. \A t \in Held' : t <= now'
      BY <1>0, <2>1 DEF SyncInPlace, Held
    <3>2. polledAt <= now => polledAt <= now'
      BY <1>0, <2>1 DEF TypeOK
    <3> QED
      BY <1>0, <2>1, <3>1, <3>2 DEF SyncInPlace, Latest, syncVars
  <2>4. FinalInPast'
    <3> SUFFICES ASSUME NEW p \in Pairs, NEW i \in 1 .. Len(buffer[p]), buffer[p][i].final
                 PROVE  buffer[p][i].at < now' /\ (pc = "store" => buffer[p][i].at < polledAt)
      BY <2>1 DEF FinalInPast, syncVars
    <3>1. buffer[p][i].at < now /\ buffer[p][i].at \in Times
          /\ (pc = "store" => buffer[p][i].at < polledAt)
      BY DEF IInv, FinalInPast, BufferBackedByStore, Held
    <3>2. buffer[p][i].at < now'
      <4>1. now \in Int /\ buffer[p][i].at \in Int
        BY <1>0, <3>1, HorizonAssumption DEF HorizonAssumption, TypeOK, Times
      <4> QED
        BY <2>1, <3>1, <4>1
    <3> QED
      BY <3>1, <3>2
  <2>5. /\ SettledBehindNewest' /\ NoHoles' /\ BufferBackedByStore'
        /\ BufferNewestFirst' /\ ListsBehindPage'
    BY <1>0, <2>1 DEF IInv, SettledBehindNewest, NoHoles, BufferBackedByStore,
                      BufferNewestFirst, ListsBehindPage, syncVars
  <2>6. SettledInPast'
    <3> SUFFICES ASSUME NEW t \in Held, stored[t].final
                 PROVE  stored[t].closed /\ t < now' /\ (pc = "store" => t < polledAt)
      BY <2>1 DEF SettledInPast, syncVars
    <3>1. stored[t].closed /\ t < now /\ t \in Int /\ (pc = "store" => t < polledAt)
      BY HorizonAssumption DEF HorizonAssumption, IInv, SettledInPast, Held, Times
    <3> QED
      BY <1>0, <2>1, <3>1
  <2> QED
    BY <2>2, <2>3, <2>4, <2>5, <2>6 DEF IInv
<1>7. CASE UNCHANGED vars
  <2>1. UNCHANGED <<now, stored, buffer, pc, since, pair, from, to, polledAt>> /\ Held' = Held
    BY <1>7 DEF vars, syncVars, Held
  <2> QED
    BY <2>1 DEF IInv, TypeOK, SyncInPlace, Latest, FinalInPast, SettledInPast, SettledBehindNewest,
                NoHoles, BufferBackedByStore, BufferNewestFirst, ListsBehindPage
<1> QED
  BY <1>1, <1>2, <1>3, <1>4, <1>5, <1>6, <1>7 DEF Next

(* The rows of a page come in all at once, from the newest candle on, and  *)
(* what had its final values still has them.                               *)
LEMMA StoreGrows ==
    ASSUME IInv, IInv', Store PROVE Series!SeriesNext
<1>0. /\ TypeOK /\ SyncInPlace /\ SettledInPast
      /\ from \in Times /\ to \in Times /\ now \in Times /\ polledAt \in Times
      /\ Times \subseteq Int
  BY HorizonAssumption DEF HorizonAssumption, IInv, TypeOK, Times
<1>1. /\ from <= to /\ to <= polledAt /\ polledAt <= now
      /\ since # NoTime => from = since
      /\ Latest(since)
  BY <1>0 DEF SyncInPlace, Store
<1>2. from .. to \subseteq Times /\ Held \subseteq Times /\ Held' \subseteq Times
  BY <1>0, HorizonAssumption DEF HorizonAssumption, Times, Held
<1> DEFINE row(t) == [pair |-> pair, final |-> t < polledAt, closed |-> t < now]
<1>3. /\ \A t \in from .. to : stored'[t] = row(t)
      /\ \A t \in Times \ (from .. to) : stored'[t] = stored[t]
  BY <1>2 DEF Store
<1>4. /\ \A t \in Times : row(t).final <=> t < polledAt
      /\ \A t \in Times : row(t).closed <=> t < now
      /\ \A t \in Times : row(t) # Never
  <2>1. \A t \in Times : "closed" \in DOMAIN row(t)
    OBVIOUS
  <2>2. "closed" \notin DOMAIN Never
    BY DEF Never
  <2>3. \A t \in Times : (row(t).final <=> t < polledAt) /\ (row(t).closed <=> t < now)
    OBVIOUS
  <2> QED
    BY <2>1, <2>2, <2>3
<1> HIDE DEF row
<1>5. Held' = Held \cup (from .. to)
  BY <1>2, <1>3, <1>4 DEF Held
<1>6. Held # {} => from \in Held /\ \A t \in Held : t <= from
  <2> SUFFICES ASSUME Held # {} PROVE from \in Held /\ \A t \in Held : t <= from
    OBVIOUS
  <2>1. since \in Held /\ \A t \in Held : t <= since
    BY <1>1 DEF Latest
  <2>2. since # NoTime
    BY <1>2, <2>1, HorizonAssumption DEF HorizonAssumption, Times, NoTime
  <2> QED
    BY <1>1, <2>1, <2>2
<1>7. \A t \in from .. to : t \in Settled' <=> t < polledAt
  BY <1>0, <1>1, <1>2, <1>3, <1>4, <1>5 DEF Settled
<1>8. \A t \in Times \ (from .. to) : t \in Settled' <=> t \in Settled
  BY <1>3, <1>5 DEF Settled
<1>9. \A t \in Settled : t < polledAt
  BY <1>0 DEF Settled, SettledInPast, Store
<1>10. Settled \subseteq Times /\ Settled' \subseteq Times
  BY <1>2 DEF Settled
<1>11. Settled' \in {Settled \cup (from .. to - 1), Settled \cup (from .. to)}
  <2>1. CASE to < polledAt
    <3>1. \A t \in from .. to : t \in Settled'
      BY <1>0, <1>2, <1>7, <2>1
    <3>2. Settled' = Settled \cup (from .. to)
      BY <1>2, <1>8, <1>10, <3>1
    <3> QED
      BY <3>2
  <2>2. CASE to = polledAt
    <3>1. to \notin Settled /\ to \notin Settled'
      BY <1>0, <1>1, <1>7, <1>9, <2>2
    <3>2. \A t \in from .. to - 1 : t \in from .. to /\ t \in Settled'
      BY <1>0, <1>2, <1>7, <2>2
    <3>3. \A t \in from .. to : t = to \/ t \in from .. to - 1
      BY <1>0
    <3>4. Settled' = Settled \cup (from .. to - 1)
      BY <1>2, <1>8, <1>10, <3>1, <3>2, <3>3
    <3> QED
      BY <3>4
  <2> QED
    BY <1>0, <1>1, <2>1, <2>2
<1>12. Series!Grow(from, to)
  BY <1>1, <1>5, <1>6, <1>11 DEF Series!Grow
<1>13. from \in Held' /\ to \in Held'
  BY <1>0, <1>1, <1>5
<1> QED
  BY <1>12, <1>13 DEF Series!SeriesNext

LEMMA NextKeepsSeries ==
    ASSUME IInv, IInv', [Next]_vars PROVE [Series!SeriesNext]_Series!seriesVars
<1>1. CASE Store
  BY <1>1, StoreGrows
<1>2. CASE ~Store
  <2>1. stored' = stored
    BY <1>2 DEF Next, Begin, Poll, Push, PushUntrimmed, Abandon, Tick, vars
  <2> QED
    BY <2>1 DEF Series!seriesVars, Held, Settled
<1> QED
  BY <1>1, <1>2

LEMMA IInvAlways == Spec => []IInv
  BY InitHolds, NextHolds, PTL DEF Spec

(* The variables keep their types: pages and candles stay within the run.  *)
THEOREM TypeCorrect == Spec => []TypeOK
<1>1. IInv => TypeOK
  BY DEF IInv
<1> QED
  BY <1>1, IInvAlways, PTL

(* All candles but the newest are final and closed, whatever syncs are cut *)
(* short: that is what re-fetching the newest one is for.                  *)
THEOREM AlwaysSettledBehindNewest == Spec => []SettledBehindNewest
<1>1. IInv => SettledBehindNewest
  BY DEF IInv
<1> QED
  BY <1>1, IInvAlways, PTL

(* Downtime of any length leaves no hole in the series.                    *)
THEOREM NeverHoles == Spec => []NoHoles
<1>1. IInv => NoHoles
  BY DEF IInv
<1> QED
  BY <1>1, IInvAlways, PTL

(* No list ever shows a candle, or a version of it, the table lacks.       *)
THEOREM BufferAlwaysBacked == Spec => []BufferBackedByStore
<1>1. IInv => BufferBackedByStore
  BY DEF IInv
<1> QED
  BY <1>1, IInvAlways, PTL

(* Every list runs from newer to older candles and from the later version  *)
(* of a candle to the earlier one, through syncs cut short between LPUSH   *)
(* and LTRIM, repeated pages and changes of symbol.                        *)
THEOREM BufferAlwaysNewestFirst == Spec => []BufferNewestFirst
<1>1. IInv => BufferNewestFirst
  BY DEF IInv
<1> QED
  BY <1>1, IInvAlways, PTL

(* The sync, crashes and failures included, implements the abstract series *)
(* that only grows and never takes back what is settled.                   *)
THEOREM SyncKeepsSeries == Spec => KeepsSeries
<1>1. Init => Series!SeriesInit
  BY DEF Init, Series!SeriesInit, Held, Settled
<1> QED
  BY <1>1, IInvAlways, NextKeepsSeries, PTL DEF Spec, KeepsSeries, Series!SeriesSpec
=============================================================================
