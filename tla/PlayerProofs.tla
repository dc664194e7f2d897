---------------------------- MODULE PlayerProofs ----------------------------
(***************************************************************************)
(* What is proved of Player for every catalog, every journey length and    *)
(* any number of queued media events.                                      *)
(***************************************************************************)
EXTENDS Player, SequenceTheorems, WellFoundedInduction, TLAPS

-----------------------------------------------------------------------------
(* Queues of media events.                                                 *)

\* Nothing is in an empty queue.
LEMMA NothingQueued ==
    \A e : ~Contains(<<>>, e)
BY DEF Contains

\* What a queue holds after one more event.
LEMMA QueuedMore ==
    ASSUME NEW ts \in Seq(Events), NEW e \in Events
    PROVE  /\ Append(ts, e) \in Seq(Events)
           /\ \A f : Contains(Append(ts, e), f) <=> f = e \/ Contains(ts, f)
<1>1. Append(ts, e) \in Seq(Events) /\ Len(Append(ts, e)) = Len(ts) + 1
  OBVIOUS
<1>2. \A i \in 1..Len(ts) : Append(ts, e)[i] = ts[i]
  OBVIOUS
<1>3. Append(ts, e)[Len(ts) + 1] = e
  OBVIOUS
<1> QED BY <1>1, <1>2, <1>3 DEF Contains

\* What a queue held before its first event was delivered.
LEMMA QueuedBefore ==
    ASSUME NEW ts \in Seq(Events), ts # <<>>
    PROVE  /\ Tail(ts) \in Seq(Events)
           /\ Head(ts) \in Events
           /\ Contains(ts, Head(ts))
           /\ \A f : Contains(Tail(ts), f) => Contains(ts, f)
<1>1. Tail(ts) \in Seq(Events) /\ Len(Tail(ts)) = Len(ts) - 1
  OBVIOUS
<1>2. \A i \in 1..Len(Tail(ts)) : Tail(ts)[i] = ts[i + 1] /\ i + 1 \in 1..Len(ts)
  BY <1>1
<1>3. 1 \in 1..Len(ts) /\ Head(ts) = ts[1] /\ ts[1] \in Events
  OBVIOUS
<1> QED BY <1>1, <1>2, <1>3 DEF Contains

\* With nothing queued the page goes on saying what it says.
LEMMA SaysNow ==
    ASSUME NEW p \in BOOLEAN
    PROVE  WillSay(<<>>, p) <=> p
BY DEF WillSay

\* A queued "play" tells the page to say so, a stop not to, anything else nothing.
LEMMA SaysMore ==
    ASSUME NEW ts \in Seq(Events), NEW e \in Events, NEW p \in BOOLEAN
    PROVE  /\ e = "play" => WillSay(Append(ts, e), p)
           /\ e \in Stops => ~WillSay(Append(ts, e), p)
           /\ e \notin Stops \cup {"play"} => (WillSay(Append(ts, e), p) <=> WillSay(ts, p))
<1> DEFINE n == Len(ts)
           us == Append(ts, e)
<1>1. n \in Nat /\ Len(us) = n + 1 /\ us[n + 1] = e
  OBVIOUS
<1>2. \A i \in 1..n : us[i] = ts[i]
  OBVIOUS
<1>3. ASSUME e = "play" PROVE WillSay(us, p)
  BY <1>1, <1>3 DEF WillSay
<1>4. ASSUME e \in Stops PROVE ~WillSay(us, p)
  <2>1. n + 1 \in 1..Len(us) /\ us[n + 1] \in Stops /\ us[n + 1] # "play"
    BY <1>1, <1>4 DEF Stops
  <2>2. \A i \in 1..Len(us) : us[i] = "play" => n + 1 \in (i + 1)..Len(us)
    BY <1>1, <2>1
  <2> QED BY <2>1, <2>2 DEF WillSay
<1>5. ASSUME e \notin Stops \cup {"play"} PROVE WillSay(us, p) <=> WillSay(ts, p)
  <2>1. \A i \in 1..(n + 1) : i \in 1..n \/ i = n + 1
    BY <1>1
  <2>2. (\A i \in 1..Len(us) : us[i] \notin Stops) <=> (\A i \in 1..n : ts[i] \notin Stops)
    BY <1>1, <1>2, <1>5, <2>1
  <2>3. \A i \in 1..n : (\A k \in (i + 1)..Len(us) : us[k] \notin Stops)
                          <=> (\A k \in (i + 1)..n : ts[k] \notin Stops)
    BY <1>1, <1>2, <1>5
  <2>4. (\E i \in 1..Len(us) : us[i] = "play" /\ \A k \in (i + 1)..Len(us) : us[k] \notin Stops)
          <=> (\E i \in 1..n : ts[i] = "play" /\ \A k \in (i + 1)..n : ts[k] \notin Stops)
    BY <1>1, <1>2, <1>5, <2>1, <2>3
  <2> QED BY <2>2, <2>4 DEF WillSay
<1> QED BY <1>3, <1>4, <1>5

\* What the page will say is what the rest of the queue makes of the first event.
LEMMA SaysAfter ==
    ASSUME NEW ts \in Seq(Events), ts # <<>>, NEW p \in BOOLEAN
    PROVE  /\ Head(ts) = "play" => (WillSay(ts, p) <=> WillSay(Tail(ts), TRUE))
           /\ Head(ts) \in Stops => (WillSay(ts, p) <=> WillSay(Tail(ts), FALSE))
           /\ Head(ts) \notin Stops \cup {"play"} => (WillSay(ts, p) <=> WillSay(Tail(ts), p))
<1> DEFINE us == Tail(ts)
           Quiet == \A i \in 1..Len(us) : us[i] \notin Stops
           Late == \E i \in 1..Len(us) : us[i] = "play" /\ \A k \in (i + 1)..Len(us) : us[k] \notin Stops
           h == Head(ts)
<1>1. us \in Seq(Events) /\ Len(us) \in Nat /\ Len(ts) = Len(us) + 1 /\ ts[1] = h
  OBVIOUS
<1>2. \A i \in 1..Len(us) : ts[i + 1] = us[i]
  BY <1>1
<1> HIDE DEF us, h
<1>3. \A k \in 2..Len(ts) : k - 1 \in 1..Len(us) /\ ts[k] = us[k - 1]
  BY <1>1, <1>2
<1>4. (\A k \in 2..Len(ts) : ts[k] \notin Stops) <=> Quiet
  BY <1>1, <1>2, <1>3
<1>5. (\A k \in 1..Len(ts) : ts[k] \notin Stops) <=> Quiet /\ h \notin Stops
  BY <1>1, <1>4
<1>6. \A i \in 1..Len(us) : (\A k \in (i + 1)..Len(us) : us[k] \notin Stops)
                              <=> (\A k \in (i + 2)..Len(ts) : ts[k] \notin Stops)
  <2> TAKE i \in 1..Len(us)
  <2>1. \A k \in (i + 1)..Len(us) : k + 1 \in (i + 2)..Len(ts) /\ ts[k + 1] = us[k]
    BY <1>1, <1>2
  <2>2. \A k \in (i + 2)..Len(ts) : k - 1 \in (i + 1)..Len(us) /\ ts[k] = us[k - 1]
    BY <1>1, <1>3
  <2> QED BY <2>1, <2>2
<1>7. (\E i \in 1..Len(ts) : ts[i] = "play" /\ \A k \in (i + 1)..Len(ts) : ts[k] \notin Stops)
        <=> (h = "play" /\ Quiet) \/ Late
  <2>1. ASSUME NEW i \in 1..Len(ts), ts[i] = "play", \A k \in (i + 1)..Len(ts) : ts[k] \notin Stops
        PROVE  (h = "play" /\ Quiet) \/ Late
    <3>1. CASE i = 1
      BY <1>1, <1>4, <2>1, <3>1
    <3>2. CASE i # 1
      <4>1. i - 1 \in 1..Len(us) /\ us[i - 1] = "play"
        BY <1>1, <1>3, <2>1, <3>2
      <4>2. \A k \in ((i - 1) + 2)..Len(ts) : ts[k] \notin Stops
        BY <1>1, <2>1
      <4> QED BY <1>6, <4>1, <4>2
    <3> QED BY <3>1, <3>2
  <2>2. ASSUME h = "play", Quiet
        PROVE  \E i \in 1..Len(ts) : ts[i] = "play" /\ \A k \in (i + 1)..Len(ts) : ts[k] \notin Stops
    <3>1. 1 \in 1..Len(ts) /\ ts[1] = "play"
      BY <1>1, <2>2
    <3>2. \A k \in (1 + 1)..Len(ts) : ts[k] \notin Stops
      BY <1>4, <2>2
    <3> QED BY <3>1, <3>2
  <2>3. ASSUME NEW i \in 1..Len(us), us[i] = "play", \A k \in (i + 1)..Len(us) : us[k] \notin Stops
        PROVE  \E j \in 1..Len(ts) : ts[j] = "play" /\ \A k \in (j + 1)..Len(ts) : ts[k] \notin Stops
    <3>1. i + 1 \in 1..Len(ts) /\ ts[i + 1] = "play"
      BY <1>1, <1>2, <2>3
    <3>2. \A k \in ((i + 1) + 1)..Len(ts) : ts[k] \notin Stops
      BY <1>1, <1>6, <2>3
    <3> QED BY <3>1, <3>2
  <2> QED BY <2>1, <2>2, <2>3
<1>8. \A q \in BOOLEAN : WillSay(us, q) <=> (q /\ Quiet) \/ Late
  BY DEF WillSay
<1>9. WillSay(ts, p) <=> (p /\ Quiet /\ h \notin Stops) \/ (h = "play" /\ Quiet) \/ Late
  BY <1>5, <1>7 DEF WillSay
<1>10. "play" \notin Stops
  BY DEF Stops
<1> QED BY <1>8, <1>9, <1>10 DEF us, h

-----------------------------------------------------------------------------
(* Journeys and plans.                                                     *)

GoodJourney(j) == j \in Journeys /\ IsInjective(j.queue) /\ j.index <= Len(j.queue)

\* A nonempty set of positions has a least one.
LEMMA LeastPosition ==
    ASSUME NEW S \in SUBSET Nat, S # {}
    PROVE  Min(S) \in S
<1>1. PICK m \in S : \A k \in S : ~(<<k, m>> \in OpToRel(<, Nat))
  BY NatLessThanWellFounded, WFMin, Zenon
<1>2. \A k \in S : ~(k < m)
  BY <1>1, Zenon DEF OpToRel
<1>3. \A k \in S : m <= k
  BY <1>2
<1> QED BY <1>3 DEF Min

\* A good journey shows one of its tracks.
LEMMA ShowsTrack ==
    ASSUME NEW j, GoodJourney(j)
    PROVE  /\ j.queue \in Seq(Tracks) /\ j.index \in 1..Len(j.queue) /\ j.status \in Statuses
           /\ Current(j) \in Tracks
BY DEF GoodJourney, Journeys, Current

\* The journey shown may be moved to any of its tracks.
LEMMA Moved ==
    ASSUME GoodJourney(shown), NEW i \in 1..Len(shown.queue)
    PROVE  GoodJourney(GoTo(i)) /\ GoTo(i).queue = shown.queue /\ GoTo(i).index = i
BY DEF GoodJourney, Journeys, GoTo, Statuses

\* The first place of a queued track is a place of the queue.
LEMMA PlaceOfTrack ==
    ASSUME NEW q \in Seq(Tracks), NEW t, Contains(q, t)
    PROVE  LET S == {i \in 1..Len(q) : q[i] = t} IN S # {} /\ Min(S) \in 1..Len(q)
<1> DEFINE S == {i \in 1..Len(q) : q[i] = t}
<1>1. S # {} /\ S \in SUBSET Nat
  BY DEF Contains
<1>2. Min(S) \in S
  BY <1>1, LeastPosition
<1> QED BY <1>1, <1>2

\* A track that is not queued goes in behind the current one.
LEMMA Inserted ==
    ASSUME NEW j, GoodJourney(j), NEW t \in Tracks, ~Contains(j.queue, t)
    PROVE  GoodJourney([queue |-> InsertAt(j.queue, j.index + 1, t),
                        index |-> j.index + 1, status |-> "active"])
<1> DEFINE q == j.queue
           i == j.index
           n == Len(q)
           new == InsertAt(q, i + 1, t)
<1>1. q \in Seq(Tracks) /\ i \in 1..n /\ n \in Nat
  BY ShowsTrack
<1>2. \A a, b \in 1..n : q[a] = q[b] => a = b
  BY <1>1 DEF GoodJourney, IsInjective
<1>3. \A a \in 1..n : q[a] # t
  BY DEF Contains
<1> HIDE DEF q, i
<1>4. new = SubSeq(q, 1, i) \o <<t>> \o SubSeq(q, i + 1, n)
  <2>1. (i + 1) - 1 = i
    BY <1>1
  <2> QED BY <2>1, Zenon DEF InsertAt
<1>5. /\ SubSeq(q, 1, i) \in Seq(Tracks) /\ Len(SubSeq(q, 1, i)) = i
      /\ \A a \in 1..i : SubSeq(q, 1, i)[a] = q[a]
  BY <1>1
<1>6. /\ SubSeq(q, i + 1, n) \in Seq(Tracks) /\ Len(SubSeq(q, i + 1, n)) = n - i
      /\ \A a \in 1..(n - i) : SubSeq(q, i + 1, n)[a] = q[i + a]
  BY <1>1
<1>7. /\ SubSeq(q, 1, i) \o <<t>> \in Seq(Tracks) /\ Len(SubSeq(q, 1, i) \o <<t>>) = i + 1
      /\ \A a \in 1..i : (SubSeq(q, 1, i) \o <<t>>)[a] = q[a]
      /\ (SubSeq(q, 1, i) \o <<t>>)[i + 1] = t
  BY <1>1, <1>5
<1>8. /\ new \in Seq(Tracks) /\ Len(new) = n + 1
      /\ \A a \in 1..i : new[a] = q[a]
      /\ new[i + 1] = t
      /\ \A a \in (i + 2)..(n + 1) : new[a] = q[a - 1]
  <2> DEFINE front == SubSeq(q, 1, i) \o <<t>>
             back == SubSeq(q, i + 1, n)
  <2> HIDE DEF front, back
  <2>1. new = front \o back
    BY <1>4 DEF front, back
  <2>2. front \in Seq(Tracks) /\ back \in Seq(Tracks) /\ Len(front) = i + 1 /\ Len(back) = n - i
    BY <1>6, <1>7 DEF front, back
  <2>10. /\ front \o back \in Seq(Tracks)
         /\ Len(front \o back) = Len(front) + Len(back)
         /\ \A a \in 1..Len(front) + Len(back) :
               (front \o back)[a] = IF a <= Len(front) THEN front[a] ELSE back[a - Len(front)]
    BY <2>2, ConcatProperties
  <2> HIDE DEF new
  <2>3. new \in Seq(Tracks) /\ Len(new) = n + 1
    BY <1>1, <2>1, <2>2, <2>10
  <2>4. \A a \in 1..(i + 1) : new[a] = front[a]
    BY <1>1, <2>1, <2>2, <2>10
  <2>5. \A a \in (i + 2)..(n + 1) : new[a] = back[a - (i + 1)]
    BY <1>1, <2>1, <2>2, <2>10
  <2>6. \A a \in (i + 2)..(n + 1) : a - (i + 1) \in 1..(n - i) /\ i + (a - (i + 1)) = a - 1
    BY <1>1
  <2>7. \A a \in (i + 2)..(n + 1) : back[a - (i + 1)] = q[a - 1]
    BY <1>6, <2>6 DEF back
  <2>8. \A a \in 1..i : front[a] = q[a]
    BY <1>7 DEF front
  <2>9. front[i + 1] = t
    BY <1>7 DEF front
  <2> QED BY <1>1, <2>3, <2>4, <2>5, <2>7, <2>8, <2>9
<1> HIDE DEF new, n
<1>9. IsInjective(new)
  <2>1. SUFFICES ASSUME NEW a \in 1..(n + 1), NEW b \in 1..(n + 1), new[a] = new[b]
                 PROVE  a = b
    BY <1>8 DEF IsInjective
  <2> DEFINE Old(c) == IF c <= i THEN c ELSE c - 1
  <2>2. \A c \in 1..(n + 1) : c # i + 1 => Old(c) \in 1..n /\ new[c] = q[Old(c)]
    BY <1>1, <1>8
  <2>3. CASE a # i + 1 /\ b # i + 1
    BY <1>1, <1>2, <2>1, <2>2, <2>3
  <2>4. CASE a = i + 1 \/ b = i + 1
    BY <1>3, <1>8, <2>1, <2>2, <2>4 DEF q, n
  <2> QED BY <2>3, <2>4
<1>10. i + 1 \in Nat \ {0} /\ i + 1 <= Len(new) /\ "active" \in Statuses
  BY <1>1, <1>8 DEF Statuses
<1> QED BY <1>8, <1>9, <1>10 DEF GoodJourney, Journeys, new, q, i

\* A plan has as many distinct tracks as were asked for, none of them excluded.
LEMMA PlanTracks ==
    ASSUME NEW excluded, NEW n \in Nat, NEW q \in Plans(excluded, n)
    PROVE  /\ q \in Seq(Tracks) /\ Len(q) = n /\ IsInjective(q)
           /\ \A a \in 1..n : q[a] \notin excluded
<1>1. q \in [1..n -> Tracks \ excluded] /\ IsInjective(q)
  BY DEF Plans, TupleOf
<1> QED BY <1>1

-----------------------------------------------------------------------------
(* The audio element and what the page knows of it.  The parts of the      *)
(* invariant, for a file verified or not (v), how much of it arrived (m),  *)
(* whether the audio is paused (pa) and was started over (re), what the    *)
(* page says (pl) and the events queued (ts).                              *)

Sounding == {"metadata", "data", "broken"}
Failed == {"absent", "short", "broken"}

Known(v, m, pa, pl, ts) ==
    /\ v \/ Contains(ts, "loadedmetadata") => m \in Sounding
    /\ Contains(ts, "loadedshort") \/ Contains(ts, "error") => m \in Failed
    /\ ~pa \/ pl \/ Contains(ts, "play") => v

EndsBeforePlays(re, ts) ==
    \A i, k \in 1..Len(ts) : i < k /\ ts[i] = "ended" /\ ts[k] = "play" => re

CatchesUp(m, pa, re, pl, ts) ==
    /\ WillSay(ts, pl) => ~pa
    /\ ~pa /\ m # "broken" /\ ~re /\ ~Contains(ts, "ended") => WillSay(ts, pl)
    /\ EndsBeforePlays(re, ts)

Follows(v, m, pa, re, pl, ts) == Known(v, m, pa, pl, ts) /\ CatchesUp(m, pa, re, pl, ts)

\* A file that has just begun to load is silent, and the page says so.
LEMMA FreshFile ==
    Follows(FALSE, "loading", TRUE, FALSE, FALSE, <<>>)
<1>1. ~WillSay(<<>>, FALSE)
  BY SaysNow
<1>2. EndsBeforePlays(FALSE, <<>>)
  BY DEF EndsBeforePlays
<1> QED BY <1>1, <1>2, NothingQueued DEF Follows, Known, CatchesUp

\* An event that is not "play" comes after every "ended"; a "play" may start the track over.
LEMMA EndsMore ==
    ASSUME NEW ts \in Seq(Events), NEW e \in Events, NEW re \in BOOLEAN,
           EndsBeforePlays(re, ts),
           e = "play" /\ Contains(ts, "ended") => re
    PROVE  EndsBeforePlays(re, Append(ts, e))
<1>1. Len(Append(ts, e)) = Len(ts) + 1 /\ Append(ts, e)[Len(ts) + 1] = e /\ Len(ts) \in Nat
  OBVIOUS
<1>2. \A i \in 1..Len(ts) : Append(ts, e)[i] = ts[i]
  OBVIOUS
<1>3. SUFFICES ASSUME NEW i \in 1..(Len(ts) + 1), NEW k \in 1..(Len(ts) + 1), i < k,
                      Append(ts, e)[i] = "ended", Append(ts, e)[k] = "play"
               PROVE  re
  BY <1>1 DEF EndsBeforePlays
<1>4. i \in 1..Len(ts) /\ ts[i] = "ended"
  BY <1>1, <1>2, <1>3
<1>5. CASE k \in 1..Len(ts)
  BY <1>2, <1>3, <1>4, <1>5 DEF EndsBeforePlays
<1>6. CASE k = Len(ts) + 1
  BY <1>1, <1>3, <1>4, <1>6 DEF Contains
<1> QED BY <1>1, <1>5, <1>6

\* Delivering an event reorders nothing.
LEMMA EndsAfter ==
    ASSUME NEW ts \in Seq(Events), ts # <<>>, NEW re \in BOOLEAN, EndsBeforePlays(re, ts)
    PROVE  /\ EndsBeforePlays(re, Tail(ts))
           /\ Head(ts) = "ended" /\ ~re => ~Contains(Tail(ts), "play")
<1>1. Len(Tail(ts)) = Len(ts) - 1 /\ Head(ts) = ts[1] /\ Len(ts) \in Nat \ {0}
  OBVIOUS
<1>2. \A i \in 1..Len(Tail(ts)) : Tail(ts)[i] = ts[i + 1] /\ i + 1 \in 1..Len(ts)
  BY <1>1
<1>3. EndsBeforePlays(re, Tail(ts))
  <2>1. SUFFICES ASSUME NEW i \in 1..Len(Tail(ts)), NEW k \in 1..Len(Tail(ts)), i < k,
                        Tail(ts)[i] = "ended", Tail(ts)[k] = "play"
                 PROVE  re
    BY DEF EndsBeforePlays
  <2>2. i + 1 < k + 1 /\ ts[i + 1] = "ended" /\ ts[k + 1] = "play"
    BY <1>1, <1>2, <2>1
  <2> QED BY <1>2, <2>2 DEF EndsBeforePlays
<1>4. ASSUME Head(ts) = "ended", NEW k \in 1..Len(Tail(ts)), Tail(ts)[k] = "play"
      PROVE  re
  <2>1. 1 < k + 1 /\ ts[1] = "ended" /\ ts[k + 1] = "play" /\ 1 \in 1..Len(ts)
    BY <1>1, <1>2, <1>4
  <2> QED BY <1>2, <2>1 DEF EndsBeforePlays
<1> QED BY <1>3, <1>4 DEF Contains

\* A pause is queued with the event that tells of it.
LEMMA PauseFollows ==
    ASSUME NEW v \in BOOLEAN, NEW m, NEW pa \in BOOLEAN, NEW re \in BOOLEAN, NEW pl \in BOOLEAN,
           NEW ts \in Seq(Events), NEW e, Follows(v, m, pa, re, pl, ts),
           e = "pause" \/ e = "pauseAbort"
    PROVE  Follows(v, m, TRUE, re, pl, Append(ts, e))
<1>1. e \in Events /\ e \in Stops /\ e \notin {"play", "loadedmetadata", "loadedshort", "error"}
  BY DEF Events, Stops
<1>2. \A f : Contains(Append(ts, e), f) <=> f = e \/ Contains(ts, f)
  BY <1>1, QueuedMore
<1>3. ~WillSay(Append(ts, e), pl)
  BY <1>1, SaysMore
<1>4. EndsBeforePlays(re, Append(ts, e))
  BY <1>1, EndsMore DEF Follows, CatchesUp
<1> QED BY <1>1, <1>2, <1>3, <1>4 DEF Follows, Known, CatchesUp

\* So is a play() that ends a pause; one that starts a track over is remembered.
LEMMA PlayFollows ==
    ASSUME NEW m, NEW pa \in BOOLEAN, NEW re \in BOOLEAN, NEW pl \in BOOLEAN,
           NEW ts \in Seq(Events), Follows(TRUE, m, pa, re, pl, ts)
    PROVE  Follows(TRUE, m, FALSE, re \/ Contains(ts, "ended"), pl,
                   IF pa THEN Append(ts, "play") ELSE ts)
<1> DEFINE over == re \/ Contains(ts, "ended")
<1>1. "play" \in Events /\ over \in BOOLEAN
  BY DEF Events, Contains
<1>2. EndsBeforePlays(over, ts)
  BY DEF Follows, CatchesUp, EndsBeforePlays
<1> HIDE DEF over
<1>3. CASE pa
  <2>1. \A f : Contains(Append(ts, "play"), f) <=> f = "play" \/ Contains(ts, f)
    BY <1>1, QueuedMore
  <2>2. WillSay(Append(ts, "play"), pl)
    BY <1>1, SaysMore
  <2>3. Contains(ts, "ended") => over
    BY DEF over
  <2>4. EndsBeforePlays(over, Append(ts, "play"))
    BY <1>1, <1>2, <2>3, EndsMore
  <2>5. Follows(TRUE, m, FALSE, over, pl, Append(ts, "play"))
    BY <2>1, <2>2, <2>4 DEF Follows, Known, CatchesUp
  <2> QED BY <1>3, <2>5 DEF over
<1>4. CASE ~pa
  <2>1. ~over => (~re /\ ~Contains(ts, "ended"))
    BY Zenon DEF over
  <2>2. Follows(TRUE, m, FALSE, over, pl, ts)
    BY <1>2, <1>4, <2>1 DEF Follows, Known, CatchesUp
  <2> QED BY <1>4, <2>2 DEF over
<1> QED BY <1>3, <1>4

\* Loading again a file of which nothing has arrived drops the events of it.
LEMMA ReloadFollows ==
    ASSUME NEW m \in {"loading", "absent"}, NEW pa \in BOOLEAN, NEW re \in BOOLEAN,
           NEW pl \in BOOLEAN, NEW ts \in Seq(Events), Follows(FALSE, m, pa, re, pl, ts)
    PROVE  Follows(FALSE, "loading", pa, re, pl, <<>>)
BY NothingQueued, SaysNow DEF Follows, Known, CatchesUp, EndsBeforePlays

\* The page hears of a play or of a stop.
LEMMA ToldFollows ==
    ASSUME NEW v, NEW m, NEW pa, NEW re, NEW pl, NEW ts, Follows(v, m, pa, re, pl, ts),
           v \in BOOLEAN, pa \in BOOLEAN, re \in BOOLEAN, pl \in BOOLEAN,
           ts \in Seq(Events), ts # <<>>
    PROVE  /\ Head(ts) = "play" => Follows(v, m, pa, re, TRUE, Tail(ts))
           /\ Head(ts) \in {"pause", "pauseAbort"} => Follows(v, m, pa, re, FALSE, Tail(ts))
           /\ Head(ts) = "ended" => Follows(v, m, IF re THEN pa ELSE TRUE, re, FALSE, Tail(ts))
<1>1. \A f : Contains(Tail(ts), f) => Contains(ts, f)
  BY QueuedBefore
<1>2. Contains(ts, Head(ts)) /\ Tail(ts) \in Seq(Events)
  BY QueuedBefore
<1>3. \A f : Contains(ts, f) => f = Head(ts) \/ Contains(Tail(ts), f)
  <2>1. SUFFICES ASSUME NEW f, NEW i \in 1..Len(ts), ts[i] = f
                 PROVE  f = Head(ts) \/ Contains(Tail(ts), f)
    BY DEF Contains
  <2>2. CASE i = 1
    BY <2>1, <2>2
  <2>3. CASE i # 1
    <3>1. i - 1 \in 1..Len(Tail(ts)) /\ Tail(ts)[i - 1] = ts[i]
      BY <2>3
    <3> QED BY <2>1, <3>1 DEF Contains
  <2> QED BY <2>2, <2>3
<1>4. EndsBeforePlays(re, Tail(ts))
  BY EndsAfter DEF Follows, CatchesUp
<1>5. CASE Head(ts) = "play"
  <2>1. WillSay(ts, pl) <=> WillSay(Tail(ts), TRUE)
    BY <1>5, SaysAfter
  <2>2. Contains(ts, "ended") <=> Contains(Tail(ts), "ended")
    BY <1>1, <1>3, <1>5
  <2>3. Follows(v, m, pa, re, TRUE, Tail(ts))
    BY <1>1, <1>2, <1>4, <1>5, <2>1, <2>2 DEF Follows, Known, CatchesUp
  <2> QED BY <1>5, <2>3
<1>6. CASE Head(ts) \in {"pause", "pauseAbort"}
  <2>1. WillSay(ts, pl) <=> WillSay(Tail(ts), FALSE)
    BY <1>6, SaysAfter DEF Stops
  <2>2. Contains(ts, "ended") <=> Contains(Tail(ts), "ended")
    BY <1>1, <1>3, <1>6
  <2>3. Follows(v, m, pa, re, FALSE, Tail(ts))
    BY <1>1, <1>2, <1>4, <2>1, <2>2 DEF Follows, Known, CatchesUp
  <2> QED BY <1>6, <2>3
<1>7. CASE Head(ts) = "ended"
  <2>1. WillSay(ts, pl) <=> WillSay(Tail(ts), FALSE)
    BY <1>7, SaysAfter DEF Stops
  <2>2. CASE re
    <3>1. Follows(v, m, pa, re, FALSE, Tail(ts))
      BY <1>1, <1>2, <1>4, <2>1, <2>2 DEF Follows, Known, CatchesUp
    <3> QED BY <1>7, <2>2, <3>1
  <2>3. CASE ~re
    <3>1. ~Contains(Tail(ts), "play")
      BY <1>7, <2>3, EndsAfter DEF Follows, CatchesUp
    <3>2. ~WillSay(Tail(ts), FALSE)
      BY <3>1 DEF WillSay, Contains
    <3>3. Follows(v, m, TRUE, re, FALSE, Tail(ts))
      BY <1>1, <1>4, <3>1, <3>2 DEF Follows, Known, CatchesUp
    <3> QED BY <1>7, <2>3, <3>3
  <2> QED BY <2>2, <2>3
<1> QED BY <1>5, <1>6, <1>7

\* The report of a load tells the page nothing of playing; a full track is verified by it,
\* and a page that gives the track up may say it stopped.
LEMMA LoadFollows ==
    ASSUME NEW v, NEW m, NEW pa, NEW re, NEW pl, NEW ts, Follows(v, m, pa, re, pl, ts),
           v \in BOOLEAN, pa \in BOOLEAN, re \in BOOLEAN, pl \in BOOLEAN,
           ts \in Seq(Events), ts # <<>>
    PROVE  /\ Head(ts) = "loadedmetadata" => Follows(TRUE, m, pa, re, pl, Tail(ts))
           /\ Head(ts) \in {"loadedshort", "error"}
                => /\ Follows(v, m, pa, re, pl, Tail(ts))
                   /\ Follows(v, m, pa, re, FALSE, Tail(ts))
<1>1. \A f : Contains(Tail(ts), f) => Contains(ts, f)
  BY QueuedBefore
<1>2. Contains(ts, Head(ts)) /\ Tail(ts) \in Seq(Events)
  BY QueuedBefore
<1>3. EndsBeforePlays(re, Tail(ts))
  BY EndsAfter DEF Follows, CatchesUp
<1>4. SUFFICES ASSUME Head(ts) \in {"loadedmetadata", "loadedshort", "error"}
               PROVE  /\ Head(ts) = "loadedmetadata" => Follows(TRUE, m, pa, re, pl, Tail(ts))
                      /\ Head(ts) \in {"loadedshort", "error"}
                           => /\ Follows(v, m, pa, re, pl, Tail(ts))
                              /\ Follows(v, m, pa, re, FALSE, Tail(ts))
  OBVIOUS
<1>5. WillSay(ts, pl) <=> WillSay(Tail(ts), pl)
  BY <1>4, SaysAfter DEF Stops
<1>6. Contains(ts, "ended") => Contains(Tail(ts), "ended")
  <2>1. SUFFICES ASSUME NEW i \in 1..Len(ts), ts[i] = "ended"
                 PROVE  Contains(Tail(ts), "ended")
    BY DEF Contains
  <2>2. i # 1
    BY <1>4, <2>1
  <2>3. i - 1 \in 1..Len(Tail(ts)) /\ Tail(ts)[i - 1] = "ended"
    BY <2>1, <2>2
  <2> QED BY <2>3 DEF Contains
<1>7. CatchesUp(m, pa, re, pl, Tail(ts))
  BY <1>1, <1>3, <1>5, <1>6 DEF Follows, CatchesUp
<1>8. Known(v, m, pa, pl, Tail(ts)) /\ Known(v, m, pa, FALSE, Tail(ts))
  BY <1>1 DEF Follows, Known
<1>9. Head(ts) = "loadedmetadata" => Known(TRUE, m, pa, pl, Tail(ts))
  BY <1>1, <1>2 DEF Follows, Known
<1>10. Head(ts) \in {"loadedshort", "error"} => CatchesUp(m, pa, re, FALSE, Tail(ts))
  <2>1. WillSay(Tail(ts), FALSE) => WillSay(Tail(ts), pl)
    BY DEF WillSay
  <2>2. Head(ts) \in {"loadedshort", "error"} => m \in Failed /\ (v => m \in Sounding) /\ (~pa => v)
    BY <1>2 DEF Follows, Known
  <2>3. Head(ts) \in {"loadedshort", "error"} => pa \/ m = "broken"
    BY <2>2 DEF Failed, Sounding
  <2> QED BY <1>7, <2>1, <2>3 DEF CatchesUp
<1> QED BY <1>7, <1>8, <1>9, <1>10 DEF Follows

\* What the network does to a file: its first bytes, their failure, the rest of them.
LEMMA ArrivalFollows ==
    ASSUME NEW v, NEW m, NEW pa, NEW re, NEW pl, NEW ts, Follows(v, m, pa, re, pl, ts),
           v \in BOOLEAN, pa \in BOOLEAN, re \in BOOLEAN, pl \in BOOLEAN,
           ts \in Seq(Events)
    PROVE  /\ m = "loading" =>
                /\ Follows(v, "metadata", pa, re, pl, Append(ts, "loadedmetadata"))
                /\ Follows(v, "short", pa, re, pl, Append(ts, "loadedshort"))
                /\ Follows(v, "absent", pa, re, pl, Append(ts, "error"))
           /\ m = "metadata" => Follows(v, "data", pa, re, pl, ts)
           /\ m \in {"metadata", "short", "data"} /\ ~Contains(ts, "ended")
                => Follows(v, "broken", pa, re, pl, Append(ts, "error"))
           /\ m = "data" /\ ~pa /\ ~Contains(ts, "ended")
                => Follows(v, "data", pa, FALSE, pl, Append(ts, "ended"))
<1>1. \A e \in {"loadedmetadata", "loadedshort", "error", "ended"} :
        /\ e \in Events
        /\ \A f : Contains(Append(ts, e), f) <=> f = e \/ Contains(ts, f)
        /\ EndsBeforePlays(re, Append(ts, e))
  <2> TAKE e \in {"loadedmetadata", "loadedshort", "error", "ended"}
  <2>1. e \in Events /\ e # "play"
    BY DEF Events
  <2>2. EndsBeforePlays(re, ts)
    BY DEF Follows, CatchesUp
  <2> QED BY <2>1, <2>2, QueuedMore, EndsMore
<1>2. \A e \in {"loadedmetadata", "loadedshort", "error"} :
        WillSay(Append(ts, e), pl) <=> WillSay(ts, pl)
  BY <1>1, SaysMore DEF Stops
<1>3. ~WillSay(Append(ts, "ended"), pl)
  BY <1>1, SaysMore DEF Stops
<1>4. ASSUME m = "loading"
      PROVE  /\ Follows(v, "metadata", pa, re, pl, Append(ts, "loadedmetadata"))
             /\ Follows(v, "short", pa, re, pl, Append(ts, "loadedshort"))
             /\ Follows(v, "absent", pa, re, pl, Append(ts, "error"))
  <2>1. /\ ~v /\ pa /\ ~pl
        /\ \A e \in {"loadedmetadata", "loadedshort", "error", "play"} : ~Contains(ts, e)
    BY <1>4 DEF Follows, Known, Sounding, Failed
  <2>2. \A e \in {"loadedmetadata", "loadedshort", "error"} : ~WillSay(Append(ts, e), pl)
    BY <1>2, <2>1 DEF Follows, CatchesUp
  <2> QED BY <1>1, <2>1, <2>2 DEF Follows, Known, CatchesUp, Sounding, Failed
<1>5. ASSUME m = "metadata" PROVE Follows(v, "data", pa, re, pl, ts)
  BY <1>5 DEF Follows, Known, CatchesUp, Sounding, Failed
<1>6. ASSUME m \in {"metadata", "short", "data"}, ~Contains(ts, "ended")
      PROVE  Follows(v, "broken", pa, re, pl, Append(ts, "error"))
  BY <1>1, <1>2, <1>6 DEF Follows, Known, CatchesUp, Sounding, Failed
<1>7. ASSUME m = "data", ~pa, ~Contains(ts, "ended")
      PROVE  Follows(v, "data", pa, FALSE, pl, Append(ts, "ended"))
  <2>1. EndsBeforePlays(FALSE, ts)
    BY <1>7 DEF EndsBeforePlays, Contains
  <2>2. EndsBeforePlays(FALSE, Append(ts, "ended"))
    BY <1>1, <2>1, EndsMore
  <2> QED BY <1>1, <1>3, <1>7, <2>2 DEF Follows, Known, CatchesUp
<1> QED BY <1>4, <1>5, <1>6, <1>7

-----------------------------------------------------------------------------
(* Types.                                                                  *)

GoodListens(l) == l \in Seq(Records) /\ Len(l) <= HistoryLimit
GoodRefs(rq, v, rj, h) ==
    rq \in BOOLEAN /\ v \in BOOLEAN /\ rj \in SUBSET Tracks /\ h \in BOOLEAN
GoodLabel(pl, l, e) == pl \in BOOLEAN /\ l \in BOOLEAN /\ e \in Messages
GoodAudio(id, m, pa, pr, re, ts) ==
    /\ id \in Tracks /\ m \in Media /\ ts \in Seq(Events)
    /\ pa \in BOOLEAN /\ pr \in BOOLEAN /\ re \in BOOLEAN
    /\ pr => ~pa
GoodTurn(f, r) == f \in BOOLEAN /\ r \in {"none", "aborted", "refused"}

GoodPage == GoodJourney(journey) /\ GoodJourney(shown) /\ GoodListens(listens) /\ GoodListens(shownListens)
Good ==
    /\ GoodPage
    /\ GoodRefs(requested, verified, rejected, heard)
    /\ GoodLabel(playing, loading, error)
    /\ GoodAudio(loaded, media, paused, promise, replayed, tasks)
    /\ GoodTurn(flushing, rejection)

\* The type invariant, variable by variable.
LEMMA TypeParts ==
    (TypeOK <=> Good) /\ (TypeOK' <=> Good')
<1>1. TypeOK <=> Good
  BY DEF TypeOK, Good, GoodPage, GoodJourney, GoodListens, GoodRefs, GoodLabel, GoodAudio, GoodTurn
<1>2. TypeOK' <=> Good'
  BY DEF TypeOK, Good, GoodPage, GoodJourney, GoodListens, GoodRefs, GoodLabel, GoodAudio, GoodTurn
<1> QED BY <1>1, <1>2

\* The inductive invariant, part by part.
LEMMA FollowParts ==
    /\ (FileKnown /\ PageCatchesUp) <=> Follows(verified, media, paused, replayed, playing, tasks)
    /\ (FileKnown /\ PageCatchesUp)'
         <=> Follows(verified, media, paused, replayed, playing, tasks)'
BY DEF FileKnown, PageCatchesUp, Follows, Known, CatchesUp, EndsBeforePlays, Sounding, Failed

\* A record of the track shown, among the last of the listening history.
LEMMA RecordAdded ==
    ASSUME Good, NEW c \in BOOLEAN
    PROVE  GoodListens(Recorded(c))
<1> DEFINE all == Append(shownListens, [track |-> Current(shown), heard |-> heard, completed |-> c])
           first == IF Len(all) > HistoryLimit THEN Len(all) - HistoryLimit + 1 ELSE 1
<1>1. Current(shown) \in Tracks /\ heard \in BOOLEAN /\ shownListens \in Seq(Records)
  BY ShowsTrack DEF Good, GoodPage, GoodRefs, GoodListens
<1>2. [track |-> Current(shown), heard |-> heard, completed |-> c] \in Records
  BY <1>1 DEF Records
<1>3. all \in Seq(Records)
  BY <1>1, <1>2, AppendProperties
<1>4. HistoryLimit \in Nat
  BY PlayerAssumption
<1>5. Recorded(c) = SubSeq(all, first, Len(all))
  BY DEF Recorded
<1> HIDE DEF all
<1>6. first \in Nat /\ first >= 1 /\ Len(all) \in Nat
  BY <1>3, <1>4
<1>7. \A i \in first..Len(all) : all[i] \in Records
  BY <1>3, <1>6
<1>8. /\ SubSeq(all, first, Len(all)) \in Seq(Records)
      /\ Len(SubSeq(all, first, Len(all)))
           = IF first <= Len(all) THEN Len(all) - first + 1 ELSE 0
  <2> HIDE DEF first
  <2> QED BY <1>6, <1>7, SubSeqProperties
<1> QED BY <1>4, <1>5, <1>6, <1>8 DEF GoodListens

\* The first journey of a page.
LEMMA FirstIsGood ==
    GoodJourney(FirstJourney) /\ GoodListens(<<>>)
<1>1. FirstQueue \in Seq(Tracks) /\ Len(FirstQueue) \in Nat \ {0} /\ IsInjective(FirstQueue)
  BY PlayerAssumption
<1>2. FirstJourney \in Journeys /\ FirstJourney.index <= Len(FirstJourney.queue)
  BY <1>1 DEF FirstJourney, Journeys, Statuses
<1>3. <<>> \in Seq(Records) /\ Len(<<>>) <= HistoryLimit
  BY PlayerAssumption
<1> QED BY <1>1, <1>2, <1>3 DEF GoodJourney, GoodListens, FirstJourney

-----------------------------------------------------------------------------
(* The handlers.                                                           *)

AudioNow == Follows(verified, media, paused, replayed, playing, tasks)

\* requestPlayback keeps what the page knows of the audio, for the events that stay queued and
\* a file verified or not.
LEMMA RequestHandled ==
    ASSUME Good, NEW ts \in Seq(Events), NEW v \in BOOLEAN,
           Follows(v, media, paused, replayed, playing, ts),
           RequestPlayback(ts, v)
    PROVE  /\ requested' \in BOOLEAN
           /\ GoodLabel(playing', loading', error')
           /\ GoodAudio(loaded', media', paused', promise', replayed', tasks')
           /\ rejection' \in {"none", "aborted", "refused"}
           /\ Follows(v, media', paused', replayed', playing', tasks')
<1>0. /\ playing \in BOOLEAN /\ loaded \in Tracks /\ media \in Media
      /\ paused \in BOOLEAN /\ promise \in BOOLEAN /\ replayed \in BOOLEAN
      /\ promise => ~paused
      /\ rejection \in {"none", "aborted", "refused"}
  BY DEF Good, GoodLabel, GoodAudio, GoodTurn
<1>1. /\ requested' \in BOOLEAN /\ playing' = playing /\ loaded' = loaded
      /\ GoodLabel(playing', loading', error')
  BY <1>0 DEF RequestPlayback, GoodLabel, Messages
<1>2. CASE v /\ \/ rejection' = "refused" /\ tasks' = ts /\ UNCHANGED <<paused, promise, replayed, media>>
                \/ /\ paused' = FALSE /\ promise' = (media # "data")
                   /\ tasks' = IF paused THEN Append(ts, "play") ELSE ts
                   /\ replayed' = (replayed \/ Contains(ts, "ended"))
                   /\ UNCHANGED <<rejection, media>>
  <2>1. CASE rejection' = "refused" /\ tasks' = ts /\ UNCHANGED <<paused, promise, replayed, media>>
    BY <1>0, <1>1, <2>1 DEF GoodAudio
  <2>2. CASE /\ paused' = FALSE /\ promise' = (media # "data")
             /\ tasks' = IF paused THEN Append(ts, "play") ELSE ts
             /\ replayed' = (replayed \/ Contains(ts, "ended"))
             /\ UNCHANGED <<rejection, media>>
    <3>1. Follows(TRUE, media, paused, replayed, playing, ts)
      BY <1>2, Zenon
    <3>2. Follows(TRUE, media, FALSE, replayed \/ Contains(ts, "ended"), playing,
                  IF paused THEN Append(ts, "play") ELSE ts)
      BY <1>0, <3>1, PlayFollows
    <3>3. Follows(v, media', paused', replayed', playing', tasks')
      BY <1>1, <1>2, <2>2, <3>2, Zenon
    <3>4. "play" \in Events /\ Append(ts, "play") \in Seq(Events)
      BY DEF Events
    <3>5. replayed' \in BOOLEAN
      BY <1>0, <2>2, Zenon
    <3>6. promise' \in BOOLEAN
      BY <2>2
    <3>7. tasks' \in Seq(Events)
      BY <2>2, <3>4
    <3> QED BY <1>0, <1>1, <2>2, <3>3, <3>5, <3>6, <3>7 DEF GoodAudio
  <2> QED BY <1>2, <2>1, <2>2
<1>3. CASE ~v /\ media \in {"loading", "absent"}
  <2>1. tasks' = <<>> /\ media' = "loading" /\ UNCHANGED <<paused, promise, replayed, rejection>>
    BY <1>3 DEF RequestPlayback
  <2>2. Follows(FALSE, media, paused, replayed, playing, ts)
    BY <1>3, Zenon
  <2>3. Follows(FALSE, "loading", paused, replayed, playing, <<>>)
    BY <1>0, <1>3, <2>2, ReloadFollows
  <2>4. Follows(v, media', paused', replayed', playing', tasks')
    BY <1>1, <1>3, <2>1, <2>3, Zenon
  <2>5. <<>> \in Seq(Events) /\ "loading" \in Media
    BY DEF Media
  <2> QED BY <1>0, <1>1, <2>1, <2>4, <2>5 DEF GoodAudio
<1>4. CASE ~v /\ media \notin {"loading", "absent"}
  <2>1. tasks' = ts /\ UNCHANGED <<media, paused, promise, replayed, rejection>>
    BY <1>4 DEF RequestPlayback
  <2> QED BY <1>0, <1>1, <2>1 DEF GoodAudio
<1>5. v => PlayAudio(ts) /\ UNCHANGED media
  BY DEF RequestPlayback
<1> QED BY <1>2, <1>3, <1>4, <1>5 DEF PlayAudio

\* audio.pause() keeps it too.
LEMMA PauseHandled ==
    ASSUME Good, AudioNow, PauseAudio
    PROVE  /\ GoodAudio(loaded', media', paused', promise', replayed', tasks')
           /\ Follows(verified, media', paused', replayed', playing, tasks')
<1>0. /\ verified \in BOOLEAN /\ playing \in BOOLEAN /\ loaded \in Tracks /\ media \in Media
      /\ paused \in BOOLEAN /\ promise \in BOOLEAN /\ replayed \in BOOLEAN
      /\ tasks \in Seq(Events)
      /\ GoodAudio(loaded, media, paused, promise, replayed, tasks)
  BY DEF Good, GoodLabel, GoodAudio, GoodRefs
<1>1. CASE paused
  <2>1. UNCHANGED <<loaded, media, paused, promise, replayed, tasks>>
    BY <1>1 DEF PauseAudio, audio
  <2> QED BY <1>0, <2>1 DEF AudioNow
<1>2. CASE ~paused
  <2> DEFINE e == IF promise THEN "pauseAbort" ELSE "pause"
  <2>1. e \in {"pause", "pauseAbort"} /\ e \in Events
    BY DEF Events
  <2>2. /\ paused' = TRUE /\ promise' = FALSE /\ tasks' = Append(tasks, e)
        /\ UNCHANGED <<loaded, media, replayed>>
    BY <1>2 DEF PauseAudio
  <2> HIDE DEF e
  <2>3. Follows(verified, media, TRUE, replayed, playing, Append(tasks, e))
    <3>1. Follows(verified, media, paused, replayed, playing, tasks)
      BY DEF AudioNow
    <3>2. e = "pause" \/ e = "pauseAbort"
      BY <2>1
    <3> QED BY <1>0, <3>1, <3>2, PauseFollows
  <2>4. Append(tasks, e) \in Seq(Events)
    BY <1>0, <2>1
  <2> QED BY <1>0, <2>2, <2>3, <2>4 DEF GoodAudio
<1> QED BY <1>1, <1>2

\* audioFailure moves on to a later track of the queue or stops.
LEMMA FailureHandled ==
    ASSUME Good, AudioFailure
    PROVE  /\ GoodJourney(journey') /\ requested' \in BOOLEAN /\ rejected' \in SUBSET Tracks
           /\ GoodLabel(playing', loading', error')
           /\ playing' = playing \/ playing' = FALSE
<1>1. GoodJourney(shown) /\ GoodJourney(journey) /\ Current(shown) \in Tracks
  BY ShowsTrack DEF Good, GoodPage
<1>2. /\ requested \in BOOLEAN /\ rejected \in SUBSET Tracks
      /\ GoodLabel(playing, loading, error)
  BY DEF Good, GoodRefs
<1>3. CASE Current(shown) \in rejected
  BY <1>1, <1>2, <1>3 DEF AudioFailure, label
<1>4. CASE Current(shown) \notin rejected /\ NextUsable # {}
  <2>1. NextUsable \in SUBSET Nat
    BY DEF NextUsable
  <2>2. Min(NextUsable) \in NextUsable
    BY <1>4, <2>1, LeastPosition
  <2>3. Min(NextUsable) \in 1..Len(shown.queue)
    BY <2>2 DEF NextUsable
  <2>4. GoodJourney(GoTo(Min(NextUsable)))
    BY <1>1, <2>3, Moved
  <2>5. /\ requested' = TRUE /\ rejected' = rejected \cup {Current(shown)}
        /\ journey' = GoTo(Min(NextUsable)) /\ UNCHANGED <<playing, loading, error>>
    BY <1>4 DEF AudioFailure, label
  <2> QED BY <1>1, <1>2, <2>4, <2>5
<1>5. CASE Current(shown) \notin rejected /\ ~(NextUsable # {})
  <2>1. /\ requested' = FALSE /\ rejected' = rejected \cup {Current(shown)}
        /\ playing' = FALSE /\ loading' = FALSE /\ error' = "unavailable" /\ journey' = journey
    BY <1>5 DEF AudioFailure
  <2> QED BY <1>1, <1>2, <2>1 DEF GoodLabel, Messages
<1> QED BY <1>3, <1>4, <1>5

\* A plan for the tracks after the current one keeps those up to it, and its first track was
\* not given up nor heard, unless there is no plan.
LEMMA ReplannedTracks ==
    ASSUME GoodJourney(shown), shown.index < Len(shown.queue),
           NEW q \in Replanned(SubSeq(shown.queue, 1, shown.index))
    PROVE  LET past == SubSeq(shown.queue, 1, shown.index) IN
           /\ q \in Seq(Tracks) /\ IsInjective(q) /\ Len(q) = Len(shown.queue)
           /\ IsPrefix(past, q)
           /\ \/ q[shown.index + 1] \notin rejected \cup ToSet(past)
              \/ Plans(rejected \cup ToSet(past), Len(shown.queue) - shown.index) = {}
<1> DEFINE old == shown.queue
           i == shown.index
           past == SubSeq(old, 1, i)
           n == Len(old) - i
           gone == rejected \cup ToSet(past)
<1>1. old \in Seq(Tracks) /\ i \in 1..Len(old) /\ Len(old) \in Nat /\ n \in Nat \ {0}
  BY ShowsTrack
<1>2. \A a, b \in 1..Len(old) : old[a] = old[b] => a = b
  BY <1>1 DEF GoodJourney, IsInjective
<1> HIDE DEF old, i
<1>3. /\ past \in Seq(Tracks) /\ Len(past) = i
      /\ \A a \in 1..i : past[a] = old[a]
  BY <1>1
<1>4. q \in IF Plans(gone, n) = {} THEN {old} ELSE {past \o p : p \in Plans(gone, n)}
  BY <1>3 DEF Replanned, old, i
<1> HIDE DEF n, past
<1>5. CASE Plans(gone, n) = {}
  <2>1. q = old
    BY <1>4, <1>5
  <2>2. IsPrefix(past, old)
    <3>1. SubSeq(past, 1, i) = SubSeq(old, 1, i)
      BY <1>1, <1>3 DEF past
    <3> QED BY <1>1, <1>3, <3>1 DEF IsPrefix
  <2>3. IsInjective(old)
    BY DEF GoodJourney, old
  <2> QED BY <1>1, <1>5, <2>1, <2>2, <2>3 DEF old, i, n, past
<1>6. CASE Plans(gone, n) # {}
  <2>1. PICK p \in Plans(gone, n) : q = past \o p
    BY <1>4, <1>6
  <2>2. /\ p \in Seq(Tracks) /\ Len(p) = n /\ IsInjective(p)
        /\ \A a \in 1..n : p[a] \notin gone
    BY <1>1, PlanTracks
  <2>3. /\ q \in Seq(Tracks) /\ Len(q) = i + n
        /\ \A a \in 1..(i + n) : q[a] = IF a <= i THEN past[a] ELSE p[a - i]
    BY <1>3, <2>1, <2>2, ConcatProperties
  <2>4. Len(q) = Len(old)
    BY <1>1, <2>3 DEF n
  <2>5. \A a \in 1..i : past[a] \in gone
    BY <1>1, <1>3 DEF ToSet
  <2>6. IsInjective(q)
    <3>1. SUFFICES ASSUME NEW a \in 1..(i + n), NEW b \in 1..(i + n), q[a] = q[b], a <= b
                   PROVE  a = b
      BY <1>1, <2>3 DEF IsInjective
    <3>2. CASE b <= i
      BY <1>1, <1>2, <1>3, <2>3, <3>1, <3>2
    <3>3. CASE a <= i /\ b > i
      <4>1. b - i \in 1..n /\ q[b] = p[b - i] /\ q[a] = past[a] /\ a \in 1..i
        BY <1>1, <2>3, <3>1, <3>3
      <4> QED BY <2>2, <2>5, <3>1, <4>1
    <3>4. CASE a > i
      <4>1. a - i \in 1..n /\ b - i \in 1..n /\ p[a - i] = p[b - i]
        BY <1>1, <2>3, <3>1, <3>4
      <4>2. a - i = b - i
        BY <2>2, <4>1 DEF IsInjective
      <4> QED BY <1>1, <4>2
    <3> QED BY <1>1, <3>1, <3>2, <3>3, <3>4
  <2>7. IsPrefix(past, q)
    <3>1. SubSeq(q, 1, i) \in Seq(Tracks) /\ Len(SubSeq(q, 1, i)) = i
      BY <1>1, <2>3
    <3>2. \A a \in 1..i : SubSeq(q, 1, i)[a] = past[a]
      BY <1>1, <2>3
    <3>3. SubSeq(q, 1, i) = past
      BY <1>3, <3>1, <3>2
    <3>4. SubSeq(past, 1, i) = past
      BY <1>1, <1>3
    <3> QED BY <1>1, <1>3, <2>3, <3>3, <3>4 DEF IsPrefix
  <2>8. i + 1 \in 1..(i + n) /\ q[i + 1] = p[1] /\ 1 \in 1..n
    BY <1>1, <2>3
  <2>9. q[i + 1] \notin gone
    BY <2>2, <2>8
  <2> QED BY <2>3, <2>4, <2>6, <2>7, <2>9 DEF old, i, past
<1> QED BY <1>5, <1>6

-----------------------------------------------------------------------------
(* Every step keeps the types and what the page knows of the audio.        *)

Core == Good /\ AudioNow

LEMMA CoreInit ==
    Init => Core
<1>1. SUFFICES ASSUME Init PROVE Core
  OBVIOUS
<1>2. GoodJourney(FirstJourney) /\ GoodListens(<<>>)
  BY FirstIsGood
<1>3. Current(FirstJourney) \in Tracks
  BY <1>2, ShowsTrack
<1>4. <<>> \in Seq(Events) /\ "loading" \in Media /\ "" \in Messages /\ {} \in SUBSET Tracks
  BY DEF Media, Messages
<1>5. GoodPage
  BY <1>1, <1>2 DEF Init, GoodPage
<1>6. GoodRefs(requested, verified, rejected, heard) /\ GoodLabel(playing, loading, error)
  BY <1>1, <1>4 DEF Init, GoodRefs, GoodLabel
<1>7. GoodAudio(loaded, media, paused, promise, replayed, tasks)
  BY <1>1, <1>3, <1>4 DEF Init, GoodAudio
<1>8. GoodTurn(flushing, rejection)
  BY <1>1 DEF Init, GoodTurn
<1>9. AudioNow
  <2>1. /\ verified = FALSE /\ media = "loading" /\ paused = TRUE /\ replayed = FALSE
        /\ playing = FALSE /\ tasks = <<>>
    BY <1>1 DEF Init
  <2> QED BY <2>1, FreshFile, Zenon DEF AudioNow
<1> QED BY <1>5, <1>6, <1>7, <1>8, <1>9 DEF Good, Core

LEMMA CoreNext ==
    ASSUME Core, [Next]_vars
    PROVE  Core'
<1>0. /\ GoodJourney(journey) /\ GoodJourney(shown) /\ GoodListens(listens) /\ GoodListens(shownListens)
      /\ requested \in BOOLEAN /\ verified \in BOOLEAN /\ rejected \in SUBSET Tracks /\ heard \in BOOLEAN
      /\ playing \in BOOLEAN /\ loading \in BOOLEAN /\ error \in Messages
      /\ loaded \in Tracks /\ media \in Media /\ tasks \in Seq(Events)
      /\ paused \in BOOLEAN /\ promise \in BOOLEAN /\ replayed \in BOOLEAN
      /\ promise => ~paused
      /\ flushing \in BOOLEAN /\ rejection \in {"none", "aborted", "refused"}
  BY DEF Core, Good, GoodPage, GoodRefs, GoodLabel, GoodAudio, GoodTurn
<1>a. /\ GoodAudio(loaded, media, paused, promise, replayed, tasks)
      /\ GoodTurn(flushing, rejection) /\ Good
      /\ Follows(verified, media, paused, replayed, playing, tasks)
  BY DEF Core, Good, AudioNow
<1>f. ASSUME tasks # <<>>
      PROVE  /\ Head(tasks) = "play" => Follows(verified, media, paused, replayed, TRUE, Tail(tasks))
             /\ Head(tasks) \in {"pause", "pauseAbort"}
                  => Follows(verified, media, paused, replayed, FALSE, Tail(tasks))
             /\ Head(tasks) = "ended"
                  => Follows(verified, media, IF replayed THEN paused ELSE TRUE, replayed, FALSE, Tail(tasks))
  <2>1. Follows(verified, media, paused, replayed, playing, tasks)
    BY <1>a
  <2> QED BY <1>0, <1>f, <2>1, ToldFollows, Zenon
<1>g. ASSUME tasks # <<>>
      PROVE  /\ Head(tasks) = "loadedmetadata" => Follows(TRUE, media, paused, replayed, playing, Tail(tasks))
             /\ Head(tasks) \in {"loadedshort", "error"}
                  => /\ Follows(verified, media, paused, replayed, playing, Tail(tasks))
                     /\ Follows(verified, media, paused, replayed, FALSE, Tail(tasks))
  <2>1. Follows(verified, media, paused, replayed, playing, tasks)
    BY <1>a
  <2> QED BY <1>0, <1>g, <2>1, LoadFollows, Zenon
<1>h. /\ media = "loading" =>
           /\ Follows(verified, "metadata", paused, replayed, playing, Append(tasks, "loadedmetadata"))
           /\ Follows(verified, "short", paused, replayed, playing, Append(tasks, "loadedshort"))
           /\ Follows(verified, "absent", paused, replayed, playing, Append(tasks, "error"))
      /\ media = "metadata" => Follows(verified, "data", paused, replayed, playing, tasks)
      /\ media \in {"metadata", "short", "data"} /\ ~Contains(tasks, "ended")
           => Follows(verified, "broken", paused, replayed, playing, Append(tasks, "error"))
      /\ media = "data" /\ ~paused /\ ~Contains(tasks, "ended")
           => Follows(verified, "data", paused, FALSE, playing, Append(tasks, "ended"))
  <2>1. Follows(verified, media, paused, replayed, playing, tasks)
    BY <1>a
  <2> QED BY <1>0, <2>1, ArrivalFollows, Zenon
<1>b. Current(shown) \in Tracks /\ shown.queue \in Seq(Tracks) /\ shown.index \in 1..Len(shown.queue)
  BY <1>0, ShowsTrack
<1>c. /\ "" \in Messages /\ "blocked" \in Messages /\ "noJourney" \in Messages
      /\ "loading" \in Media /\ <<>> \in Seq(Events)
  BY DEF Messages, Media
<1>d. ASSUME Flush PROVE flushing' \in BOOLEAN
  BY <1>d DEF Flush
<1>e. ASSUME GoodPage', GoodRefs(requested, verified, rejected, heard)',
             GoodLabel(playing, loading, error)',
             GoodAudio(loaded', media', paused', promise', replayed', tasks'),
             flushing' \in BOOLEAN, rejection' \in {"none", "aborted", "refused"},
             Follows(verified', media', paused', replayed', playing', tasks')
      PROVE  Core'
  BY <1>e DEF Core, Good, GoodTurn, AudioNow
<1>1. CASE PressPlay
  <2>1. RequestPlayback(tasks, verified) /\ UNCHANGED <<page, verified, rejected, heard>> /\ Flush
    BY <1>1 DEF PressPlay
  <2>2. /\ requested' \in BOOLEAN
        /\ GoodLabel(playing', loading', error')
        /\ GoodAudio(loaded', media', paused', promise', replayed', tasks')
        /\ rejection' \in {"none", "aborted", "refused"}
        /\ Follows(verified, media', paused', replayed', playing', tasks')
    BY <1>0, <1>a, <2>1, RequestHandled
  <2>3. GoodPage' /\ GoodRefs(requested, verified, rejected, heard)'
    BY <1>0, <2>1, <2>2 DEF GoodPage, GoodRefs, page
  <2>4. verified' = verified
    BY <2>1
  <2> QED BY <1>d, <1>e, <2>1, <2>2, <2>3, <2>4
<1>2. CASE PressPause
  <2>1. /\ PauseAudio /\ requested' = FALSE /\ loading' = FALSE /\ Flush
        /\ UNCHANGED <<page, verified, rejected, heard, playing, error, rejection>>
    BY <1>2 DEF PressPause
  <2>2. /\ GoodAudio(loaded', media', paused', promise', replayed', tasks')
        /\ Follows(verified, media', paused', replayed', playing, tasks')
    BY <1>a, <2>1, PauseHandled DEF AudioNow
  <2>3. GoodPage' /\ GoodRefs(requested, verified, rejected, heard)' /\ GoodLabel(playing, loading, error)'
    BY <1>0, <2>1 DEF GoodPage, GoodRefs, GoodLabel, page
  <2>4. verified' = verified /\ playing' = playing /\ rejection' = rejection
    BY <2>1
  <2> QED BY <1>0, <1>d, <1>e, <2>1, <2>2, <2>3, <2>4
<1>3. CASE Reload
  <2>1. /\ journey' = FirstJourney /\ shown' = FirstJourney
        /\ listens' = shownListens /\ shownListens' = shownListens
        /\ requested' = FALSE /\ verified' = FALSE /\ rejected' = {} /\ heard' = FALSE
        /\ playing' = FALSE /\ loading' = FALSE /\ error' = ""
        /\ loaded' = Current(FirstJourney) /\ media' = "loading" /\ paused' = TRUE
        /\ promise' = FALSE /\ replayed' = FALSE /\ tasks' = <<>>
        /\ flushing' = flushing /\ rejection' = rejection
    BY <1>3 DEF Reload
  <2>2. GoodJourney(FirstJourney) /\ Current(FirstJourney) \in Tracks
    BY FirstIsGood, ShowsTrack
  <2>3. GoodPage' /\ GoodRefs(requested, verified, rejected, heard)' /\ GoodLabel(playing, loading, error)'
    BY <1>0, <1>c, <2>1, <2>2 DEF GoodPage, GoodRefs, GoodLabel
  <2>4. GoodAudio(loaded', media', paused', promise', replayed', tasks')
    BY <1>c, <2>1, <2>2 DEF GoodAudio
  <2>5. Follows(verified', media', paused', replayed', playing', tasks')
    BY <2>1, FreshFile, Zenon
  <2> QED BY <1>0, <1>e, <2>1, <2>3, <2>4, <2>5
<1>4. ASSUME NEW same, Start(same), GoodJourney(journey'), GoodListens(listens'),
             UNCHANGED <<shown, shownListens, verified, rejected, heard>>, Flush
      PROVE  Core'
  <2>1. GoodPage'
    BY <1>0, <1>4 DEF GoodPage
  <2>2. verified' = verified
    BY <1>4
  <2>3. CASE same
    <3>1. RequestPlayback(tasks, verified)
      BY <1>4, <2>3 DEF Start
    <3>2. /\ requested' \in BOOLEAN
          /\ GoodLabel(playing', loading', error')
          /\ GoodAudio(loaded', media', paused', promise', replayed', tasks')
          /\ rejection' \in {"none", "aborted", "refused"}
          /\ Follows(verified, media', paused', replayed', playing', tasks')
      BY <1>0, <1>a, <3>1, RequestHandled
    <3>3. GoodRefs(requested, verified, rejected, heard)'
      BY <1>0, <1>4, <3>2 DEF GoodRefs
    <3> QED BY <1>d, <1>e, <1>4, <2>1, <2>2, <3>2, <3>3
  <2>4. CASE ~same
    <3>1. requested' = TRUE /\ UNCHANGED <<label, audio, rejection>>
      BY <1>4, <2>4 DEF Start
    <3>2. GoodRefs(requested, verified, rejected, heard)' /\ GoodLabel(playing, loading, error)'
      BY <1>0, <1>4, <3>1 DEF GoodRefs, GoodLabel, label
    <3>3. UNCHANGED <<media, paused, replayed, playing, tasks, loaded, promise>> /\ rejection' = rejection
      BY <3>1 DEF audio, label
    <3>4. /\ GoodAudio(loaded', media', paused', promise', replayed', tasks')
          /\ Follows(verified', media', paused', replayed', playing', tasks')
      BY <1>a, <2>2, <3>3
    <3> QED BY <1>0, <1>d, <1>e, <1>4, <2>1, <3>2, <3>3, <3>4
  <2> QED BY <2>3, <2>4
<1>5. ASSUME NEW i \in 1..Len(shown.queue), MoveTo(i) PROVE Core'
  <2>1. GoodListens(Recorded(FALSE))
    BY <1>a, RecordAdded
  <2>2. GoodJourney(GoTo(i))
    BY <1>0, Moved
  <2>3. journey' = GoTo(i) /\ (listens' = Recorded(FALSE) \/ listens' = listens)
    BY <1>5 DEF MoveTo
  <2>4. Start(i = shown.index) /\ UNCHANGED <<shown, shownListens, verified, rejected, heard>> /\ Flush
    BY <1>5 DEF MoveTo
  <2> QED BY <1>0, <1>4, <2>1, <2>2, <2>3, <2>4
<1>6. ASSUME NEW t \in Tracks, PlayCatalogTrack(t) PROVE Core'
  <2>1. GoodListens(Recorded(FALSE))
    BY <1>a, RecordAdded
  <2>2. GoodJourney(journey')
    <3>1. CASE Contains(shown.queue, t)
      <4> DEFINE S == {i \in 1..Len(shown.queue) : shown.queue[i] = t}
      <4>1. S # {} /\ Min(S) \in 1..Len(shown.queue)
        BY <1>b, <3>1, PlaceOfTrack
      <4>2. journey' = GoTo(SelectInSeq(shown.queue, LAMBDA u : u = t))
        BY <1>6, <3>1, Zenon DEF PlayCatalogTrack
      <4>3. SelectInSeq(shown.queue, LAMBDA u : u = t) = IF S # {} THEN Min(S) ELSE 0
        BY DEF SelectInSeq
      <4>4. journey' = GoTo(Min(S))
        BY <4>1, <4>2, <4>3, Zenon
      <4> HIDE DEF S
      <4>5. PICK i \in 1..Len(shown.queue) : i = Min(S)
        BY <4>1, Zenon
      <4>6. journey' = GoTo(i)
        BY <4>4, <4>5, Zenon
      <4> QED BY <1>0, <4>6, Moved
    <3>2. CASE ~Contains(shown.queue, t)
      <4>1. journey' = [queue |-> InsertAt(shown.queue, shown.index + 1, t),
                        index |-> shown.index + 1, status |-> "active"]
        BY <1>6, <3>2, Zenon DEF PlayCatalogTrack
      <4>2. GoodJourney([queue |-> InsertAt(shown.queue, shown.index + 1, t),
                         index |-> shown.index + 1, status |-> "active"])
        BY <1>0, <3>2, Inserted
      <4> QED BY <4>1, <4>2, Zenon
    <3> QED BY <3>1, <3>2
  <2>3. listens' = IF t # Current(shown) THEN Recorded(FALSE) ELSE listens
    BY <1>6, Zenon DEF PlayCatalogTrack
  <2>4. /\ Start(t = Current(shown)) /\ UNCHANGED <<shown, shownListens, verified, rejected, heard>>
        /\ Flush
    BY <1>6, Zenon DEF PlayCatalogTrack
  <2>5. GoodListens(listens')
    BY <1>0, <2>1, <2>3
  <2> QED BY <1>4, <2>2, <2>4, <2>5
<1>7. ASSUME NEW n \in Counts, BuildJourney(n) PROVE Core'
  <2>1. /\ PauseAudio /\ requested' = FALSE /\ Flush
        /\ UNCHANGED <<shown, listens, shownListens, verified, rejected, heard, playing, loading,
                       rejection>>
    BY <1>7 DEF BuildJourney
  <2>2. /\ GoodAudio(loaded', media', paused', promise', replayed', tasks')
        /\ Follows(verified, media', paused', replayed', playing, tasks')
    BY <1>a, <2>1, PauseHandled DEF AudioNow
  <2>3. GoodJourney(journey') /\ error' \in Messages
    <3>1. CASE journey' = journey /\ error' = "noJourney"
      BY <1>0, <1>c, <3>1
    <3>2. ASSUME NEW q \in Plans(rejected, n), journey' = [queue |-> q, index |-> 1, status |-> "ready"],
                 error' = ""
          PROVE  GoodJourney(journey') /\ error' \in Messages
      <4>1. n \in Nat \ {0}
        BY PlayerAssumption
      <4>2. q \in Seq(Tracks) /\ Len(q) = n /\ IsInjective(q)
        BY <4>1, PlanTracks
      <4>3. GoodJourney([queue |-> q, index |-> 1, status |-> "ready"])
        BY <4>1, <4>2 DEF GoodJourney, Journeys, Statuses
      <4> QED BY <1>c, <3>2, <4>3
    <3> QED BY <1>7, <3>1, <3>2 DEF BuildJourney
  <2>4. GoodPage' /\ GoodRefs(requested, verified, rejected, heard)' /\ GoodLabel(playing, loading, error)'
    BY <1>0, <2>1, <2>3 DEF GoodPage, GoodRefs, GoodLabel
  <2>5. verified' = verified /\ playing' = playing /\ rejection' = rejection
    BY <2>1
  <2> QED BY <1>0, <1>d, <1>e, <2>1, <2>2, <2>4, <2>5
<1>8. CASE RunEffect
  <2>1. /\ UNCHANGED <<journey, shown, listens, shownListens, requested, rejected>>
        /\ verified' = FALSE /\ heard' = FALSE
        /\ playing' = FALSE /\ loading' = requested /\ error' = ""
        /\ loaded' = Current(shown) /\ media' = "loading" /\ paused' = TRUE
        /\ promise' = FALSE /\ replayed' = FALSE /\ tasks' = <<>>
        /\ flushing' = (flushing /\ RenderDue)
        /\ rejection' = IF promise \/ Contains(tasks, "pauseAbort") THEN "aborted" ELSE rejection
    BY <1>8, Zenon DEF RunEffect, ForgetFile, ShowLoading, page
  <2>2. GoodPage' /\ GoodRefs(requested, verified, rejected, heard)' /\ GoodLabel(playing, loading, error)'
    BY <1>0, <1>c, <2>1 DEF GoodPage, GoodRefs, GoodLabel
  <2>3. GoodAudio(loaded', media', paused', promise', replayed', tasks')
    BY <1>b, <1>c, <2>1 DEF GoodAudio
  <2>4. Follows(verified', media', paused', replayed', playing', tasks')
    BY <2>1, FreshFile, Zenon
  <2>5. flushing' \in BOOLEAN
    BY <1>0, <2>1 DEF RenderDue
  <2>6. rejection' \in {"none", "aborted", "refused"}
    BY <1>0, <2>1
  <2> QED BY <1>e, <2>2, <2>3, <2>4, <2>5, <2>6
<1>9. ASSUME UNCHANGED <<refs, label, audio, rejection>>,
             GoodJourney(journey'), GoodJourney(shown'), GoodListens(listens'), GoodListens(shownListens'),
             flushing' \in BOOLEAN
      PROVE  Core'
  <2>1. GoodPage' /\ GoodRefs(requested, verified, rejected, heard)' /\ GoodLabel(playing, loading, error)'
    BY <1>0, <1>9 DEF GoodPage, GoodRefs, GoodLabel, refs, label
  <2>2. /\ UNCHANGED <<loaded, media, paused, promise, replayed, tasks, verified, playing>>
        /\ rejection' = rejection
    BY <1>9 DEF audio, refs, label
  <2> QED BY <1>0, <1>a, <1>e, <1>9, <2>1, <2>2
<1>10. CASE Render
  <2>1. /\ shown' = journey /\ shownListens' = listens /\ journey' = journey /\ listens' = listens
        /\ UNCHANGED <<refs, label, audio, rejection>>
        /\ flushing' = (flushing /\ Current(journey) # loaded)
    BY <1>10 DEF Render
  <2> QED BY <1>0, <1>9, <2>1
<1>11. CASE PlayRejected
  <2>1. /\ rejection' = "none" /\ requested' = FALSE /\ loading' = FALSE /\ error' = "blocked"
        /\ UNCHANGED <<page, verified, rejected, heard, playing, audio, flushing>>
    BY <1>11 DEF PlayRejected
  <2>2. GoodPage' /\ GoodRefs(requested, verified, rejected, heard)' /\ GoodLabel(playing, loading, error)'
    BY <1>0, <1>c, <2>1 DEF GoodPage, GoodRefs, GoodLabel, page
  <2>3. UNCHANGED <<loaded, media, paused, promise, replayed, tasks, verified, playing, flushing>>
    BY <2>1 DEF audio
  <2> QED BY <1>0, <1>a, <1>e, <2>1, <2>2, <2>3
<1> DEFINE Told(ev) == tasks # <<>> /\ Head(tasks) = ev
<1>12. CASE OnPlay
  <2>1. /\ Told("play") /\ tasks' = Tail(tasks) /\ UNCHANGED <<loaded, media, paused, promise, replayed>>
        /\ playing' = TRUE /\ loading' = FALSE /\ error' = ""
        /\ UNCHANGED <<page, refs, rejection>> /\ Flush
    BY <1>12 DEF OnPlay, Deliver, Delivered
  <2>2. Follows(verified, media, paused, replayed, TRUE, Tail(tasks)) /\ Tail(tasks) \in Seq(Events)
    <3>1. Follows(verified, media, paused, replayed, TRUE, Tail(tasks))
      BY <1>f, <2>1, Zenon
    <3>2. Tail(tasks) \in Seq(Events)
      <4>1. tasks # <<>>
        BY <2>1, Zenon
      <4> QED BY <1>0, <4>1
    <3> QED BY <3>1, <3>2, Zenon
  <2>3. GoodPage' /\ GoodRefs(requested, verified, rejected, heard)' /\ GoodLabel(playing, loading, error)'
    BY <1>0, <1>c, <2>1 DEF GoodPage, GoodRefs, GoodLabel, page, refs
  <2>4. GoodAudio(loaded', media', paused', promise', replayed', tasks')
    BY <1>0, <2>1, <2>2 DEF GoodAudio
  <2>5. verified' = verified
    BY <2>1 DEF refs
  <2>6. Follows(verified', media', paused', replayed', playing', tasks')
    BY <2>1, <2>2, <2>5, Zenon
  <2> QED BY <1>0, <1>d, <1>e, <2>1, <2>3, <2>4, <2>6
<1>13. CASE OnPause
  <2>1. /\ tasks # <<>> /\ Head(tasks) \in {"pause", "pauseAbort"}
        /\ tasks' = Tail(tasks) /\ UNCHANGED <<loaded, media, paused, promise, replayed>>
        /\ playing' = FALSE /\ UNCHANGED <<page, refs, loading, error>> /\ Flush
        /\ rejection' = IF Head(tasks) = "pauseAbort" THEN "aborted" ELSE rejection
    BY <1>13 DEF OnPause, Deliver, Delivered
  <2>2. Follows(verified, media, paused, replayed, FALSE, Tail(tasks)) /\ Tail(tasks) \in Seq(Events)
    <3>1. Follows(verified, media, paused, replayed, FALSE, Tail(tasks))
      BY <1>f, <2>1, Zenon
    <3>2. Tail(tasks) \in Seq(Events)
      BY <1>0, <2>1
    <3> QED BY <3>1, <3>2, Zenon
  <2>3. GoodPage' /\ GoodRefs(requested, verified, rejected, heard)' /\ GoodLabel(playing, loading, error)'
    BY <1>0, <1>c, <2>1 DEF GoodPage, GoodRefs, GoodLabel, page, refs
  <2>4. GoodAudio(loaded', media', paused', promise', replayed', tasks')
    BY <1>0, <2>1, <2>2 DEF GoodAudio
  <2>5. verified' = verified
    BY <2>1 DEF refs
  <2>6. Follows(verified', media', paused', replayed', playing', tasks')
    BY <2>1, <2>2, <2>5, Zenon
  <2>7. rejection' \in {"none", "aborted", "refused"}
    BY <1>0, <2>1
  <2> QED BY <1>d, <1>e, <2>1, <2>3, <2>4, <2>6, <2>7
<1>14. ASSUME Told("error") \/ Told("loadedshort"), Delivered, AudioFailure,
              UNCHANGED <<shown, listens, shownListens, verified, heard, flushing, rejection>>
       PROVE  Core'
  <2>1. /\ GoodJourney(journey') /\ requested' \in BOOLEAN /\ rejected' \in SUBSET Tracks
        /\ GoodLabel(playing', loading', error')
        /\ playing' = playing \/ playing' = FALSE
    BY <1>a, <1>14, FailureHandled
  <2>2. /\ tasks' = Tail(tasks) /\ UNCHANGED <<loaded, media, paused, promise, replayed, verified>>
        /\ flushing' = flushing /\ rejection' = rejection
    BY <1>14 DEF Delivered
  <2>3. /\ Follows(verified, media, paused, replayed, playing, Tail(tasks))
        /\ Follows(verified, media, paused, replayed, FALSE, Tail(tasks))
        /\ Tail(tasks) \in Seq(Events)
    <3>1. tasks # <<>> /\ Head(tasks) \in {"error", "loadedshort"}
      BY <1>14
    <3>2. /\ Follows(verified, media, paused, replayed, playing, Tail(tasks))
          /\ Follows(verified, media, paused, replayed, FALSE, Tail(tasks))
      BY <1>g, <3>1
    <3>3. Tail(tasks) \in Seq(Events)
      BY <1>0, <3>1
    <3> QED BY <3>2, <3>3, Zenon
  <2>4. GoodPage' /\ GoodRefs(requested, verified, rejected, heard)'
    BY <1>0, <1>14, <2>1 DEF GoodPage, GoodRefs
  <2>5. GoodAudio(loaded', media', paused', promise', replayed', tasks')
    BY <1>0, <2>2, <2>3 DEF GoodAudio
  <2>6. Follows(verified', media', paused', replayed', playing', tasks')
    BY <2>1, <2>2, <2>3, Zenon
  <2> QED BY <1>0, <1>e, <2>1, <2>2, <2>4, <2>5, <2>6
<1>15. CASE OnError
  BY <1>14, <1>15 DEF OnError, Deliver
<1>16. CASE OnShortMetadata
  BY <1>14, <1>16 DEF OnShortMetadata, Deliver
<1>17. CASE OnMetadata
  <2>1. /\ Told("loadedmetadata") /\ verified' = TRUE /\ WhenVerified
        /\ UNCHANGED <<page, rejected, heard, flushing>>
    BY <1>17 DEF OnMetadata, Deliver
  <2>2. /\ Follows(TRUE, media, paused, replayed, playing, Tail(tasks))
        /\ Tail(tasks) \in Seq(Events)
    <3>1. Follows(TRUE, media, paused, replayed, playing, Tail(tasks))
      BY <1>g, <2>1, Zenon
    <3>2. Tail(tasks) \in Seq(Events)
      BY <1>0, <2>1
    <3> QED BY <3>1, <3>2, Zenon
  <2>3. GoodPage' /\ flushing' = flushing
    BY <1>0, <2>1 DEF GoodPage, page
  <2>4. CASE requested
    <3>1. RequestPlayback(Tail(tasks), TRUE)
      BY <2>1, <2>4 DEF WhenVerified
    <3>2. /\ requested' \in BOOLEAN
          /\ GoodLabel(playing', loading', error')
          /\ GoodAudio(loaded', media', paused', promise', replayed', tasks')
          /\ rejection' \in {"none", "aborted", "refused"}
          /\ Follows(TRUE, media', paused', replayed', playing', tasks')
      BY <1>a, <2>2, <3>1, RequestHandled
    <3>3. GoodRefs(requested, verified, rejected, heard)'
      BY <1>0, <2>1, <3>2 DEF GoodRefs
    <3>4. Follows(verified', media', paused', replayed', playing', tasks')
      BY <2>1, <3>2, Zenon
    <3> QED BY <1>0, <1>e, <2>3, <3>2, <3>3, <3>4
  <2>5. CASE ~requested
    <3>1. /\ tasks' = Tail(tasks) /\ UNCHANGED <<loaded, media, paused, promise, replayed>>
          /\ loading' = FALSE /\ UNCHANGED <<requested, playing, error, rejection>>
      BY <2>1, <2>5 DEF WhenVerified, StayQuiet, Delivered
    <3>2. GoodRefs(requested, verified, rejected, heard)' /\ GoodLabel(playing, loading, error)'
      BY <1>0, <2>1, <3>1 DEF GoodRefs, GoodLabel
    <3>3. GoodAudio(loaded', media', paused', promise', replayed', tasks')
      BY <1>0, <2>2, <3>1 DEF GoodAudio
    <3>4. Follows(verified', media', paused', replayed', playing', tasks')
      BY <2>1, <2>2, <3>1, Zenon
    <3>5. rejection' = rejection
      BY <3>1
    <3> QED BY <1>0, <1>e, <2>3, <3>2, <3>3, <3>4, <3>5
  <2> QED BY <2>4, <2>5
<1>18. CASE OnEnded
  <2>1. /\ Told("ended") /\ tasks' = Tail(tasks)
        /\ IF replayed THEN UNCHANGED <<paused, promise>> ELSE paused' = TRUE /\ promise' = FALSE
        /\ playing' = FALSE /\ listens' = Recorded(TRUE)
        /\ UNCHANGED <<shown, shownListens, verified, rejected, heard, loading, error, loaded, media,
                       replayed, flushing, rejection>>
    BY <1>18 DEF OnEnded, Deliver
  <2>2. Follows(verified, media, IF replayed THEN paused ELSE TRUE, replayed, FALSE, Tail(tasks))
    BY <1>0, <1>f, <2>1
  <2>3. Tail(tasks) \in Seq(Events)
    BY <1>0, <2>1
  <2>4. GoodJourney(journey') /\ requested' \in BOOLEAN
    <3>1. CASE requested' = FALSE /\ journey' = [shown EXCEPT !.status = "completed"]
      <4>1. shown \in [queue : Seq(Tracks), index : Nat \ {0}, status : Statuses]
        BY <1>0 DEF GoodJourney, Journeys
      <4>2. /\ journey' \in [queue : Seq(Tracks), index : Nat \ {0}, status : Statuses]
            /\ journey'.queue = shown.queue /\ journey'.index = shown.index
        BY <3>1, <4>1 DEF Statuses
      <4> QED BY <1>0, <3>1, <4>2 DEF GoodJourney, Journeys
    <3>2. ASSUME shown.index < Len(shown.queue), requested' = TRUE,
                 NEW q \in Replanned(SubSeq(shown.queue, 1, shown.index)),
                 journey' = [queue |-> q, index |-> shown.index + 1, status |-> "active"]
          PROVE  GoodJourney(journey') /\ requested' \in BOOLEAN
      <4>1. q \in Seq(Tracks) /\ IsInjective(q) /\ Len(q) = Len(shown.queue)
        BY <1>0, <3>2, ReplannedTracks
      <4> QED BY <1>b, <3>2, <4>1 DEF GoodJourney, Journeys, Statuses
    <3> QED BY <1>18, <3>1, <3>2 DEF OnEnded
  <2>5. GoodListens(Recorded(TRUE))
    BY <1>a, RecordAdded
  <2>6. GoodPage' /\ GoodRefs(requested, verified, rejected, heard)' /\ GoodLabel(playing, loading, error)'
    BY <1>0, <2>1, <2>4, <2>5 DEF GoodPage, GoodRefs, GoodLabel
  <2>7. GoodAudio(loaded', media', paused', promise', replayed', tasks')
    BY <1>0, <2>1, <2>3 DEF GoodAudio
  <2>8. paused' = (IF replayed THEN paused ELSE TRUE)
    BY <2>1
  <2>9. Follows(verified', media', paused', replayed', playing', tasks')
    BY <2>1, <2>2, <2>8, Zenon
  <2> QED BY <1>0, <1>e, <2>1, <2>6, <2>7, <2>9
<1>19. ASSUME NEW m \in Media, NEW e \in Events, Arrives(m, e),
              Follows(verified, m, paused, replayed /\ e # "ended", playing, Append(tasks, e))
       PROVE  Core'
  <2>1. /\ media' = m /\ tasks' = Append(tasks, e) /\ replayed' = (replayed /\ e # "ended")
        /\ UNCHANGED <<page, refs, label, loaded, paused, promise, flushing, rejection>>
    BY <1>19 DEF Arrives
  <2>2. GoodPage' /\ GoodRefs(requested, verified, rejected, heard)' /\ GoodLabel(playing, loading, error)'
    BY <1>0, <2>1 DEF GoodPage, GoodRefs, GoodLabel, page, refs, label
  <2>3. GoodAudio(loaded', media', paused', promise', replayed', tasks')
    BY <1>0, <2>1 DEF GoodAudio
  <2>4. verified' = verified /\ playing' = playing
    BY <2>1 DEF refs, label
  <2>5. Follows(verified', media', paused', replayed', playing', tasks')
    BY <1>19, <2>1, <2>4, Zenon
  <2> QED BY <1>0, <1>e, <2>1, <2>2, <2>3, <2>5
<1>20. CASE LoadEnds
  <2>1. /\ Follows(verified, "metadata", paused, replayed, playing, Append(tasks, "loadedmetadata"))
        /\ Follows(verified, "short", paused, replayed, playing, Append(tasks, "loadedshort"))
        /\ Follows(verified, "absent", paused, replayed, playing, Append(tasks, "error"))
    BY <1>h, <1>20 DEF LoadEnds
  <2>2. \A e \in {"loadedmetadata", "loadedshort", "error"} : (replayed /\ e # "ended") = replayed
    BY <1>0
  <2>3. /\ {"metadata", "short", "absent"} \subseteq Media
        /\ {"loadedmetadata", "loadedshort", "error"} \subseteq Events
    BY DEF Media, Events
  <2>4. CASE Arrives("metadata", "loadedmetadata")
    BY <1>19, <2>1, <2>2, <2>3, <2>4
  <2>5. CASE Arrives("short", "loadedshort")
    BY <1>19, <2>1, <2>2, <2>3, <2>5
  <2>6. CASE Arrives("absent", "error")
    BY <1>19, <2>1, <2>2, <2>3, <2>6
  <2> QED BY <1>20, <2>4, <2>5, <2>6 DEF LoadEnds
<1>21. CASE DataArrives
  <2>1. /\ media = "metadata" /\ media' = "data" /\ promise' = FALSE
        /\ UNCHANGED <<page, refs, label, loaded, paused, replayed, tasks, flushing, rejection>>
    BY <1>21 DEF DataArrives
  <2>2. Follows(verified, "data", paused, replayed, playing, tasks)
    BY <1>h, <2>1
  <2>3. GoodPage' /\ GoodRefs(requested, verified, rejected, heard)' /\ GoodLabel(playing, loading, error)'
    BY <1>0, <2>1 DEF GoodPage, GoodRefs, GoodLabel, page, refs, label
  <2>4. GoodAudio(loaded', media', paused', promise', replayed', tasks')
    BY <1>0, <2>1 DEF GoodAudio, Media
  <2>5. verified' = verified /\ playing' = playing
    BY <2>1 DEF refs, label
  <2> QED BY <1>0, <1>e, <2>1, <2>2, <2>3, <2>4, <2>5
<1>22. CASE TransferFails
  <2>1. Follows(verified, "broken", paused, replayed, playing, Append(tasks, "error"))
    BY <1>h, <1>22 DEF TransferFails
  <2>2. (replayed /\ "error" # "ended") = replayed /\ "broken" \in Media /\ "error" \in Events
    BY <1>0 DEF Media, Events
  <2> QED BY <1>19, <1>22, <2>1, <2>2 DEF TransferFails
<1>23. CASE TimeUpdate
  <2>1. /\ heard' = TRUE
        /\ UNCHANGED <<page, requested, verified, rejected, label, audio, flushing, rejection>>
    BY <1>23 DEF TimeUpdate
  <2>2. GoodPage' /\ GoodRefs(requested, verified, rejected, heard)' /\ GoodLabel(playing, loading, error)'
    BY <1>0, <2>1 DEF GoodPage, GoodRefs, GoodLabel, page, label
  <2>3. /\ UNCHANGED <<loaded, media, paused, promise, replayed, tasks, verified, playing, flushing>>
        /\ rejection' = rejection
    BY <2>1 DEF audio, label
  <2> QED BY <1>0, <1>a, <1>e, <2>2, <2>3
<1>24. CASE TrackEnds
  <2>1. Follows(verified, "data", paused, FALSE, playing, Append(tasks, "ended"))
    BY <1>h, <1>24 DEF TrackEnds
  <2>2. (replayed /\ "ended" # "ended") = FALSE /\ "data" \in Media /\ "ended" \in Events
    BY <1>0 DEF Media, Events
  <2> QED BY <1>19, <1>24, <2>1, <2>2 DEF TrackEnds
<1>25. CASE UNCHANGED vars
  <2>1. UNCHANGED <<page, refs, label, audio, flushing, rejection>>
    BY <1>25 DEF vars
  <2> QED BY <1>0, <1>9, <2>1 DEF page
<1> QED
  BY <1>1, <1>2, <1>3, <1>5, <1>6, <1>7, <1>8, <1>10, <1>11, <1>12, <1>13, <1>15, <1>16, <1>17,
     <1>18, <1>20, <1>21, <1>22, <1>23, <1>24, <1>25
  DEF Next, Listener, React, MediaEvents, Browser

-----------------------------------------------------------------------------
(* Every step keeps the journeys the player makes by itself true to the    *)
(* journey shown.                                                          *)

AdaptedTo(s, j, gone) ==
    LET past == SubSeq(s.queue, 1, s.index) IN
    /\ IsPrefix(past, j.queue)
    /\ Len(j.queue) = Len(s.queue)
    /\ \/ Current(j) \notin gone \cup {Current(s)}
       \/ j.index = s.index
       \/ Plans(gone \cup ToSet(past), Len(s.queue) - s.index) = {}

\* What has been played starts the queue.
LEMMA PastIsPrefix ==
    ASSUME NEW j, GoodJourney(j)
    PROVE  /\ IsPrefix(SubSeq(j.queue, 1, j.index), j.queue)
           /\ Current(j) \in ToSet(SubSeq(j.queue, 1, j.index))
<1> DEFINE q == j.queue
           i == j.index
           past == SubSeq(q, 1, i)
<1>1. q \in Seq(Tracks) /\ i \in 1..Len(q) /\ Len(q) \in Nat
  BY ShowsTrack
<1> HIDE DEF q, i
<1>2. past \in Seq(Tracks) /\ Len(past) = i /\ \A a \in 1..i : past[a] = q[a]
  BY <1>1
<1>3. SubSeq(past, 1, i) = SubSeq(q, 1, i)
  BY <1>1, <1>2
<1>4. IsPrefix(past, q)
  BY <1>1, <1>2, <1>3 DEF IsPrefix
<1>5. i \in DOMAIN past /\ past[i] = q[i]
  BY <1>1, <1>2
<1>6. q[i] \in ToSet(past)
  BY <1>5 DEF ToSet
<1> QED BY <1>4, <1>6 DEF Current, q, i

\* The journey shown is true to itself, and so are its queue at another track not given up.
LEMMA SameQueueAdapted ==
    ASSUME NEW s, GoodJourney(s), NEW j, j.queue = s.queue, NEW gone,
           j.index = s.index \/ Current(j) \notin gone \cup {Current(s)}
    PROVE  AdaptedTo(s, j, gone)
BY PastIsPrefix DEF AdaptedTo

\* Giving up the track shown takes nothing from the plans for the tracks after it.
LEMMA GivenUpAdapted ==
    ASSUME NEW s, GoodJourney(s), NEW j, NEW gone, AdaptedTo(s, j, gone)
    PROVE  /\ AdaptedTo(s, j, gone \cup {Current(s)})
           /\ (gone \cup {Current(s)}) \cup ToSet(SubSeq(s.queue, 1, s.index))
                = gone \cup ToSet(SubSeq(s.queue, 1, s.index))
<1> DEFINE past == SubSeq(s.queue, 1, s.index)
<1>1. (gone \cup {Current(s)}) \cup ToSet(past) = gone \cup ToSet(past)
  BY PastIsPrefix
<1>2. (gone \cup {Current(s)}) \cup {Current(s)} = gone \cup {Current(s)}
  OBVIOUS
<1> QED BY <1>1, <1>2 DEF AdaptedTo

LEMMA AdaptsParts ==
    /\ AdaptsShown <=> (~flushing => AdaptedTo(shown, journey, rejected))
    /\ AdaptsShown' <=> (~flushing' => AdaptedTo(shown', journey', rejected'))
BY Zenon DEF AdaptsShown, AdaptedTo

\* A track given up: the journey goes on after it, or stays.
LEMMA FailureAdapts ==
    ASSUME Good, AdaptedTo(shown, journey, rejected), AudioFailure
    PROVE  /\ AdaptedTo(shown, journey', rejected')
           /\ rejected' \cup ToSet(SubSeq(shown.queue, 1, shown.index))
                = rejected \cup ToSet(SubSeq(shown.queue, 1, shown.index))
<1>1. GoodJourney(shown)
  BY DEF Good, GoodPage
<1> DEFINE gone == rejected \cup {Current(shown)}
<1>2. CASE Current(shown) \in rejected
  <2>1. journey' = journey /\ rejected' = rejected
    BY <1>2 DEF AudioFailure
  <2> QED BY <2>1
<1>3. CASE Current(shown) \notin rejected
  <2>1. rejected' = gone
    BY <1>3 DEF AudioFailure
  <2>2. /\ AdaptedTo(shown, journey, gone)
        /\ gone \cup ToSet(SubSeq(shown.queue, 1, shown.index))
             = rejected \cup ToSet(SubSeq(shown.queue, 1, shown.index))
    BY <1>1, GivenUpAdapted
  <2>3. CASE NextUsable # {}
    <3>0. NextUsable \in SUBSET Nat
      BY DEF NextUsable
    <3>1. Min(NextUsable) \in NextUsable
      BY <2>3, <3>0, LeastPosition
    <3>2. PICK i \in NextUsable : i = Min(NextUsable)
      BY <3>1, Zenon
    <3>3. i \in 1..Len(shown.queue) /\ shown.queue[i] \notin gone
      BY DEF NextUsable
    <3>4. journey' = GoTo(i)
      BY <1>3, <2>3, <3>2, Zenon DEF AudioFailure
    <3>5. journey'.queue = shown.queue /\ Current(journey') = shown.queue[i]
      BY <3>4 DEF GoTo, Current
    <3>6. Current(journey') \notin gone \cup {Current(shown)}
      BY <3>3, <3>5
    <3>7. AdaptedTo(shown, journey', gone)
      BY <1>1, <3>5, <3>6, SameQueueAdapted
    <3> QED BY <2>1, <2>2, <3>7
  <2>4. CASE ~(NextUsable # {})
    <3>1. journey' = journey
      BY <1>3, <2>4 DEF AudioFailure
    <3> QED BY <2>1, <2>2, <3>1
  <2> QED BY <2>3, <2>4
<1> QED BY <1>2, <1>3

\* A track that ended: the journey is over, or goes on with a plan made anew.
LEMMA EndedAdapts ==
    ASSUME Good, OnEnded
    PROVE  AdaptedTo(shown, journey', rejected)
<1>1. GoodJourney(shown)
  BY DEF Good, GoodPage
<1>2. CASE journey' = [shown EXCEPT !.status = "completed"]
  <2>1. shown \in [queue : Seq(Tracks), index : Nat \ {0}, status : Statuses]
    BY <1>1 DEF GoodJourney, Journeys
  <2>2. journey'.queue = shown.queue /\ journey'.index = shown.index
    BY <1>2, <2>1
  <2> QED BY <1>1, <2>2, SameQueueAdapted
<1>3. ASSUME shown.index < Len(shown.queue),
             NEW q \in Replanned(SubSeq(shown.queue, 1, shown.index)),
             journey' = [queue |-> q, index |-> shown.index + 1, status |-> "active"]
      PROVE  AdaptedTo(shown, journey', rejected)
  <2> DEFINE past == SubSeq(shown.queue, 1, shown.index)
  <2>1. /\ Len(q) = Len(shown.queue) /\ IsPrefix(past, q)
        /\ \/ q[shown.index + 1] \notin rejected \cup ToSet(past)
           \/ Plans(rejected \cup ToSet(past), Len(shown.queue) - shown.index) = {}
    BY <1>1, <1>3, ReplannedTracks
  <2>2. journey'.queue = q /\ Current(journey') = q[shown.index + 1]
    BY <1>3 DEF Current
  <2>3. Current(shown) \in ToSet(past)
    BY <1>1, PastIsPrefix
  <2> HIDE DEF past
  <2>4. Current(journey') \notin rejected \cup ToSet(past)
          => Current(journey') \notin rejected \cup {Current(shown)}
    BY <2>3
  <2> QED BY <2>1, <2>2, <2>4 DEF AdaptedTo, past
<1> QED BY <1>2, <1>3 DEF OnEnded

LEMMA AdaptsNext ==
    ASSUME Good, AdaptsShown, [Next]_vars
    PROVE  AdaptsShown'
<1>0. GoodJourney(journey) /\ GoodJourney(shown) /\ flushing \in BOOLEAN
  BY DEF Good, GoodPage, GoodTurn
<1>a. ~flushing => AdaptedTo(shown, journey, rejected)
  BY AdaptsParts
<1>b. SUFFICES ~flushing' => AdaptedTo(shown', journey', rejected')
  BY AdaptsParts
<1>c. ASSUME GoodJourney(shown'), journey' = shown'
      PROVE  AdaptedTo(shown', journey', rejected')
  BY <1>c, SameQueueAdapted
<1>d. ASSUME Flush, UNCHANGED shown
      PROVE  ~flushing' => AdaptedTo(shown', journey', rejected')
  <2>1. ~flushing' => journey' = shown'
    BY <1>d DEF Flush
  <2> QED BY <1>0, <1>c, <1>d, <2>1
<1>e. ASSUME UNCHANGED <<journey, shown, rejected, flushing>>
      PROVE  ~flushing' => AdaptedTo(shown', journey', rejected')
  BY <1>a, <1>e
<1>1. CASE \/ PressPlay \/ PressPause \/ OnPlay \/ OnPause
           \/ \E i \in 1..Len(shown.queue) : MoveTo(i)
           \/ \E t \in Tracks : PlayCatalogTrack(t)
           \/ \E n \in Counts : BuildJourney(n)
  <2>1. Flush
    BY <1>1, Zenon DEF PressPlay, PressPause, OnPlay, OnPause, MoveTo, PlayCatalogTrack, BuildJourney
  <2>2. UNCHANGED shown
    BY <1>1, Zenon DEF PressPlay, PressPause, OnPlay, OnPause, MoveTo, PlayCatalogTrack, BuildJourney, page
  <2> QED BY <1>d, <2>1, <2>2
<1>2. CASE Reload
  <2>1. journey' = FirstJourney /\ shown' = FirstJourney
    BY <1>2 DEF Reload
  <2> QED BY <1>c, <2>1, FirstIsGood
<1>3. CASE RunEffect
  <2>1. UNCHANGED <<journey, shown, rejected>> /\ flushing' = (flushing /\ RenderDue)
    BY <1>3 DEF RunEffect, page
  <2>2. CASE ~flushing
    BY <1>a, <2>1, <2>2
  <2>3. CASE flushing
    <3>1. ~flushing' => journey = shown
      BY <2>1, <2>3 DEF RenderDue
    <3> QED BY <1>0, <1>c, <2>1, <3>1
  <2> QED BY <2>2, <2>3
<1>4. CASE Render
  <2>1. shown' = journey /\ journey' = journey
    BY <1>4 DEF Render
  <2> QED BY <1>0, <1>c, <2>1
<1>5. CASE OnError \/ OnShortMetadata
  <2>1. AudioFailure /\ UNCHANGED <<shown, flushing>> /\ ~flushing
    BY <1>5 DEF OnError, OnShortMetadata, Deliver, Idle
  <2>2. AdaptedTo(shown, journey', rejected')
    BY <1>a, <2>1, FailureAdapts
  <2> QED BY <2>1, <2>2
<1>6. CASE OnEnded
  <2>1. AdaptedTo(shown, journey', rejected)
    BY <1>6, EndedAdapts
  <2>2. UNCHANGED <<shown, rejected>>
    BY <1>6 DEF OnEnded
  <2> QED BY <2>1, <2>2
<1>7. CASE PlayRejected
  BY <1>e, <1>7 DEF PlayRejected, page
<1>8. CASE OnMetadata
  BY <1>e, <1>8 DEF OnMetadata, page
<1>9. CASE LoadEnds \/ DataArrives \/ TransferFails \/ TrackEnds
  BY <1>e, <1>9 DEF LoadEnds, DataArrives, TransferFails, TrackEnds, Arrives, page, refs
<1>10. CASE TimeUpdate
  BY <1>e, <1>10 DEF TimeUpdate, page
<1>11. CASE UNCHANGED vars
  BY <1>e, <1>11 DEF vars, page, refs
<1> QED
  BY <1>1, <1>2, <1>3, <1>4, <1>5, <1>6, <1>7, <1>8, <1>9, <1>10, <1>11
  DEF Next, Listener, React, MediaEvents, Browser

-----------------------------------------------------------------------------
(* The theorems.                                                           *)

\* The inductive invariant holds in every state of the player, for any catalog and with any
\* number of media events queued.
THEOREM Invariance == Spec => []IInv
<1>1. IInv <=> Core /\ AdaptsShown
  BY TypeParts, FollowParts, Zenon DEF IInv, Core, AudioNow
<1>2. IInv' <=> Core' /\ AdaptsShown'
  BY TypeParts, FollowParts, Zenon DEF IInv, Core, AudioNow
<1>3. Init => IInv
  <2>1. SUFFICES ASSUME Init PROVE Core /\ AdaptsShown
    BY <1>1
  <2>2. Core
    BY <2>1, CoreInit
  <2>3. GoodJourney(shown) /\ journey = shown
    BY <2>1, <2>2 DEF Init, Core, Good, GoodPage
  <2>4. AdaptedTo(shown, journey, rejected)
    BY <2>3, SameQueueAdapted
  <2> QED BY <2>2, <2>4, AdaptsParts
<1>4. IInv /\ [Next]_vars => IInv'
  <2>1. SUFFICES ASSUME Core, AdaptsShown, [Next]_vars PROVE Core' /\ AdaptsShown'
    BY <1>1, <1>2
  <2>2. Core'
    BY <2>1, CoreNext
  <2>3. AdaptsShown'
    BY <2>1, AdaptsNext DEF Core
  <2> QED BY <2>2, <2>3
<1> QED BY <1>3, <1>4, PTL DEF Spec

\* Journeys stay journeys: distinct tracks of the catalog and a position among them, through
\* every insertion, plan and replan; the records stay within their limit.
THEOREM TypeCorrect == Spec => []TypeOK
<1>1. IInv => TypeOK
  BY DEF IInv
<1> QED BY <1>1, Invariance, PTL

\* Whatever was clicked, loaded and failed before, only a file found to be a full track sounds.
THEOREM SoundCorrect == Spec => []OnlyFullTracksSound
<1>1. IInv => OnlyFullTracksSound
  BY DEF IInv, FileKnown, OnlyFullTracksSound
<1> QED BY <1>1, Invariance, PTL

\* With no event queued, what the page says of playing is what the audio does.
THEOREM PageCorrect == Spec => []PageTellsAudio
<1>1. IInv => PageTellsAudio
  <2>1. SUFFICES ASSUME IInv, tasks = <<>>
                 PROVE  /\ playing => ~paused
                        /\ ~paused /\ media # "broken" /\ ~replayed => playing
    BY DEF PageTellsAudio
  <2>2. playing \in BOOLEAN
    BY <2>1, TypeParts DEF IInv, Good, GoodLabel
  <2>3. WillSay(tasks, playing) <=> playing
    BY <2>1, <2>2, SaysNow
  <2>4. ~Contains(tasks, "ended")
    BY <2>1, NothingQueued
  <2> QED BY <2>1, <2>3, <2>4 DEF IInv, PageCatchesUp
<1> QED BY <1>1, Invariance, PTL

\* A failure or an end leaves what was played in place and goes on to a track not given up,
\* unless no plan is left.
THEOREM AdaptCorrect == Spec => AdaptsAhead
<1> DEFINE past == SubSeq(shown.queue, 1, shown.index)
           Ahead == /\ IsPrefix(past, journey'.queue)
                    /\ Len(journey'.queue) = Len(shown.queue)
                    /\ \/ Current(journey') \notin rejected'
                       \/ journey'.index = shown.index
                       \/ Plans(rejected \cup ToSet(past), Len(shown.queue) - shown.index) = {}
<1>1. ASSUME IInv, OnError \/ OnShortMetadata \/ OnEnded PROVE Ahead
  <2>1. Good /\ AdaptsShown
    BY <1>1, TypeParts DEF IInv
  <2>2. ~flushing
    BY <1>1 DEF OnError, OnShortMetadata, OnEnded, Deliver, Idle
  <2>3. AdaptedTo(shown, journey, rejected)
    BY <2>1, <2>2, AdaptsParts
  <2>4. /\ AdaptedTo(shown, journey', rejected')
        /\ rejected' \cup ToSet(past) = rejected \cup ToSet(past)
    <3>1. CASE OnError \/ OnShortMetadata
      <4>1. AudioFailure
        BY <3>1 DEF OnError, OnShortMetadata
      <4> QED BY <2>1, <2>3, <4>1, FailureAdapts
    <3>2. CASE OnEnded
      <4>1. rejected' = rejected
        BY <3>2 DEF OnEnded
      <4> QED BY <2>1, <3>2, <4>1, EndedAdapts
    <3> QED BY <1>1, <3>1, <3>2
  <2> QED BY <2>4 DEF AdaptedTo
<1>2. IInv /\ [Next]_vars => [OnError \/ OnShortMetadata \/ OnEnded => Ahead]_vars
  BY <1>1
<1> QED BY <1>2, Invariance, PTL DEF Spec, AdaptsAhead

=============================================================================
