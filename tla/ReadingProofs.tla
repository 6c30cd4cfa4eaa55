----------------------------- MODULE ReadingProofs -----------------------------
(***************************************************************************)
(* Proofs about what the commands that read PAGASA and the recall commands *)
(* show: the captures of the station table (StationCapture), the           *)
(* candidates section of a recall (RecallSurface), the three storm         *)
(* commands (StormReports) and a list read through MCP (McpPages).         *)
(***************************************************************************)
EXTENDS StationCapture, RecallSurface, StormReports, McpPages,
        FiniteSetTheorems, SequenceTheorems, WellFoundedInduction, TLAPS

--------------------------------------------------------------------------------
(***************************************************************************)
(* StationCapture, for any stations, values and number of schedulers.  The *)
(* newest capture of a station decides what is stored of it: the invariant *)
(* relates each stored reading, and each page on its way to the store, to  *)
(* the newest one noted.                                                   *)
(***************************************************************************)

(***************************************************************************)
(* Pages and their stamps.                                                 *)
(***************************************************************************)

HasPage(p) == capture[p].pc = "fetched"
OneEach(batch) == \A r, t \in batch : r.station = t.station => r = t
Behind(batch) == \A r \in Stamped(batch) : r.at <= day /\ r.at <= table[r.station].at
InOrder(batch, later) ==
  \A r \in Stamped(batch), t \in Stamped(later) : r.station = t.station => r.at <= t.at

TableInv ==
  \A s \in Stations : table[s].station = s /\ (table[s].at = NoStamp \/ table[s].at <= day)

PagesInv ==
  \A p \in Schedulers : HasPage(p) =>
    /\ capture[p].visit \in 1 .. visits /\ IsFiniteSet(capture[p].page)
    /\ OneEach(capture[p].page) /\ Behind(capture[p].page)

\* Pages are known by their visits, and a later one has no older stamps.
PageOrderInv ==
  \A p, q \in Schedulers : HasPage(p) /\ HasPage(q) /\ p # q =>
    /\ capture[p].visit # capture[q].visit
    /\ capture[p].visit < capture[q].visit => InOrder(capture[p].page, capture[q].page)

\* How the pages still to be stored stand to the newest reading that is.
Ranked(p, s) ==
  HasPage(p) =>
    /\ capture[p].visit # newest[s].visit
    /\ \A r \in Stamped(capture[p].page) : r.station = s =>
         /\ capture[p].visit < newest[s].visit => r.at <= newest[s].reading.at
         /\ newest[s].visit < capture[p].visit => newest[s].reading.at <= r.at

NewestInv ==
  \A s \in Stations : newest[s] # Unseen =>
    /\ newest[s].visit \in 1 .. visits /\ newest[s].reading.station = s
    /\ newest[s].reading.at <= day /\ newest[s].reading.at <= table[s].at
    /\ \A p \in Schedulers : Ranked(p, s)

\* No row is newer than the newest reading, and one of the same stamp is that reading.
RowsInv ==
  /\ IsFiniteSet(obs)
  /\ \A o \in obs :
       /\ newest[o.station] # Unseen /\ o.at <= newest[o.station].reading.at
       /\ o.at = newest[o.station].reading.at /\ ~newest[o.station].overtaken =>
            o = newest[o.station].reading

NewestKept ==
  \A s \in Stations :
    newest[s] # Unseen /\ ~newest[s].overtaken /\ newest[s].reading.at >= day - Retention =>
      newest[s].reading \in obs

CaptureInv ==
  CaptureTypeOK /\ TableInv /\ PagesInv /\ PageOrderInv /\ NewestInv /\ RowsInv /\ NewestKept

\* The numbers that are days.
LEMMA StampFacts ==
  /\ Retention \in Nat /\ LastDay \in Nat /\ MaxEdits \in Nat /\ MaxVisits \in Nat
  /\ IsFiniteSet(Stations) /\ NoStamp \in Nat /\ NoStamp \notin Days /\ 0 \in Days
  /\ \A d \in Days : d \in Nat /\ d <= NoStamp
  BY CaptureAssumption DEF Days, NoStamp

\* The fields of a reading that has a stamp, and of the newest one.
LEMMA ReadingFields ==
  /\ \A r \in Reading : r.station \in Stations /\ r.at \in Nat /\ (r.at # NoStamp => r.at \in Days)
                        /\ (r.at # NoStamp => r \in Observation)
  /\ \A o \in Observation : o.station \in Stations /\ o.at \in Days /\ o.at \in Nat
  /\ \A n \in Latest : n.visit \in Nat /\ n.reading \in Observation /\ n.overtaken \in BOOLEAN
  /\ Unseen.visit = 0
  BY StampFacts DEF Reading, Observation, Latest, Unseen

\* What is stored of a page are its readings with a time of their own.
LEMMA StampedReadings ==
  ASSUME NEW batch \in SUBSET Reading
  PROVE  Stamped(batch) \subseteq batch /\ Stamped(batch) \subseteq Observation
         /\ \A r \in Stamped(batch) : r.at # NoStamp
  BY ReadingFields DEF Stamped

\* What the type invariant says of one capture.
LEMMA CaptureFields ==
  ASSUME CaptureTypeOK, NEW p \in Schedulers
  PROVE  /\ capture[p].page \in SUBSET Reading /\ capture[p].visit \in Nat
         /\ capture[p] \in Capture
  BY DEF CaptureTypeOK, Capture

\* At first nothing is fetched and nothing stored.
LEMMA CaptureInitSafe == CaptureInit => CaptureInv
<1> SUFFICES ASSUME CaptureInit PROVE CaptureInv
  OBVIOUS
<1>1. CaptureTypeOK /\ TableInv
  <2>1. PICK v \in Values : table = [s \in Stations |-> [station |-> s, at |-> 0, value |-> v]]
    BY DEF CaptureInit
  <2>2. table \in [Stations -> Reading] /\ TableInv
    BY <2>1, StampFacts DEF CaptureInit, Reading, TableInv
  <2>3. capture \in [Schedulers -> Capture]
    BY DEF CaptureInit, Capture, Resting
  <2>4. day \in Days /\ edits \in 0 .. MaxEdits /\ visits \in 0 .. MaxVisits
    BY StampFacts DEF CaptureInit
  <2>5. newest \in [Stations -> {Unseen} \cup Latest] /\ obs \subseteq Observation
    BY DEF CaptureInit
  <2> QED BY <2>2, <2>3, <2>4, <2>5 DEF CaptureTypeOK
<1>2. \A p \in Schedulers : ~HasPage(p)
  BY DEF CaptureInit, HasPage, Resting
<1>3. \A s \in Stations : newest[s] = Unseen
  BY DEF CaptureInit
<1>4. obs = {} /\ IsFiniteSet(obs)
  BY FS_EmptySet DEF CaptureInit
<1> QED BY <1>1, <1>2, <1>3, <1>4
        DEF CaptureInv, PagesInv, PageOrderInv, NewestInv, RowsInv, NewestKept

(***************************************************************************)
(* The property.                                                           *)
(***************************************************************************)

\* The newest reading comes first in the history.
LEMMA NewestComesFirst == CaptureInv => CorrectionsWin
<1> SUFFICES ASSUME CaptureInv, NEW s \in Stations, newest[s] # Unseen, ~newest[s].overtaken,
                    newest[s].reading.at >= day - Retention
             PROVE  History(s, 1) = {newest[s].reading}
  BY DEF CorrectionsWin
<1> DEFINE top == newest[s].reading
           rows == {o \in obs : o.station = s}
           Above(o) == {n \in rows : n.at > o.at}
<1>1. top \in rows /\ top.at \in Nat /\ IsFiniteSet(rows)
  <2>1. newest[s] \in Latest /\ IsFiniteSet(obs)
    BY DEF CaptureInv, CaptureTypeOK, RowsInv
  <2>2. top \in obs /\ top.station = s /\ top.at \in Nat
    BY <2>1, ReadingFields DEF CaptureInv, NewestKept, NewestInv
  <2> QED BY <2>1, <2>2, FS_Subset
<1>2. \A o \in rows : o.at \in Nat /\ o.at <= top.at /\ (o.at = top.at => o = top)
  BY ReadingFields DEF CaptureInv, CaptureTypeOK, RowsInv
<1>3. ASSUME NEW o \in rows PROVE Cardinality(Above(o)) < 1 <=> o = top
  <2>1. IsFiniteSet(Above(o)) /\ Cardinality(Above(o)) \in Nat
    BY <1>1, FS_Subset, FS_CardinalityType
  <2>2. Cardinality(Above(o)) = 0 <=> Above(o) = {}
    <3> HIDE DEF Above
    <3> QED BY <2>1, FS_EmptySet
  <2>3. Above(o) = {} <=> o = top
    BY <1>1, <1>2
  <2> HIDE DEF Above
  <2> QED BY <2>1, <2>2, <2>3
<1>4. History(s, 1) = {o \in rows : Cardinality(Above(o)) < 1}
  BY DEF History
<1> HIDE DEF rows, Above, top
<1>5. History(s, 1) = {top}
  BY <1>1, <1>3, <1>4
<1> QED BY <1>5 DEF top

(***************************************************************************)
(* The steps.                                                              *)
(***************************************************************************)

\* An edit of the page leaves no stamp older than it was.
LEMMA PageEditedSafe == ASSUME CaptureInv, NEW s \in Stations, PageEdited(s) PROVE CaptureInv'
<1>1. PICK at \in {table[s].at, day, NoStamp}, v \in Values :
        table' = [table EXCEPT ![s] = [station |-> s, at |-> at, value |-> v]]
  BY DEF PageEdited
<1>2. /\ table \in [Stations -> Reading] /\ day \in Days /\ edits' \in 0 .. MaxEdits
      /\ UNCHANGED <<obs, capture, day, visits, newest>>
      /\ table[s].at = NoStamp \/ table[s].at <= day
  BY StampFacts DEF CaptureInv, CaptureTypeOK, PageEdited, TableInv
<1>3. at \in Days \cup {NoStamp} /\ at \in Nat /\ table[s].at \in Nat /\ day \in Nat
      /\ (at = NoStamp \/ at <= day)
      /\ \A n \in Nat : n <= day /\ n <= table[s].at => n <= at
  <2>1. table[s].at \in Days \cup {NoStamp}
    BY <1>2 DEF Reading
  <2> QED BY <1>2, <2>1, StampFacts
<1>4. table' \in [Stations -> Reading] /\ table'[s].at = at /\ table'[s].station = s
      /\ \A t \in Stations : t # s => table'[t] = table[t]
  BY <1>1, <1>2, <1>3 DEF Reading
<1>5. CaptureTypeOK'
  BY <1>2, <1>4 DEF CaptureInv, CaptureTypeOK
<1>6. TableInv'
  BY <1>2, <1>3, <1>4 DEF CaptureInv, TableInv
<1>7. \A t \in Stations, n \in Nat : n <= day /\ n <= table[t].at => n <= table'[t].at
  BY <1>3, <1>4
<1>8. PagesInv'
  <2> SUFFICES ASSUME NEW p \in Schedulers, HasPage(p), NEW r \in Stamped(capture[p].page)
               PROVE  r.at <= table'[r.station].at
    BY <1>2 DEF CaptureInv, PagesInv, HasPage, Behind, OneEach
  <2>1. r \in Observation
    BY StampedReadings, CaptureFields DEF CaptureInv
  <2>2. r.at <= day /\ r.at <= table[r.station].at
    BY DEF CaptureInv, PagesInv, Behind
  <2> QED BY <1>7, <2>1, <2>2, ReadingFields
<1>9. NewestInv'
  <2> SUFFICES ASSUME NEW t \in Stations, newest[t] # Unseen
               PROVE  newest[t].reading.at <= table'[t].at
    BY <1>2 DEF CaptureInv, NewestInv, Ranked, HasPage
  <2>1. newest[t] \in Latest
    BY DEF CaptureInv, CaptureTypeOK
  <2>2. newest[t].reading.at <= day /\ newest[t].reading.at <= table[t].at
    BY DEF CaptureInv, NewestInv
  <2> QED BY <1>7, <2>1, <2>2, ReadingFields
<1>10. PageOrderInv' /\ RowsInv' /\ NewestKept'
  BY <1>2 DEF CaptureInv, PageOrderInv, RowsInv, NewestKept, HasPage
<1> QED BY <1>5, <1>6, <1>8, <1>9, <1>10 DEF CaptureInv

\* Time only takes readings out of retention.
LEMMA NextDaySafe == ASSUME CaptureInv, NextDay PROVE CaptureInv'
<1>1. /\ day' \in Days /\ day' = day + 1 /\ day \in Nat
      /\ UNCHANGED <<table, obs, capture, edits, visits, newest>>
  BY StampFacts DEF NextDay, CaptureInv, CaptureTypeOK, Days
<1>2. \A n \in Nat : (n <= day => n <= day') /\ (n >= day' - Retention => n >= day - Retention)
  BY <1>1, StampFacts
<1>3. CaptureTypeOK'
  BY <1>1 DEF CaptureInv, CaptureTypeOK
<1>4. TableInv'
  <2> SUFFICES ASSUME NEW s \in Stations PROVE table[s].at = NoStamp \/ table[s].at <= day'
    BY <1>1 DEF CaptureInv, TableInv
  <2>1. table[s].at \in Nat
    BY ReadingFields DEF CaptureInv, CaptureTypeOK
  <2> QED BY <1>2, <2>1 DEF CaptureInv, TableInv
<1>5. PagesInv'
  <2> SUFFICES ASSUME NEW p \in Schedulers, HasPage(p), NEW r \in Stamped(capture[p].page)
               PROVE  r.at <= day'
    BY <1>1 DEF CaptureInv, PagesInv, HasPage, Behind, OneEach
  <2>1. r \in Observation
    BY StampedReadings, CaptureFields DEF CaptureInv
  <2>2. r.at <= day
    BY DEF CaptureInv, PagesInv, Behind
  <2> QED BY <1>2, <2>1, <2>2, ReadingFields
<1>6. \A s \in Stations : newest[s] # Unseen => newest[s].reading.at \in Nat
  BY ReadingFields DEF CaptureInv, CaptureTypeOK
<1>7. NewestInv'
  BY <1>1, <1>2, <1>6 DEF CaptureInv, NewestInv, Ranked, HasPage
<1>8. NewestKept'
  BY <1>1, <1>2, <1>6 DEF CaptureInv, NewestKept
<1>9. PageOrderInv' /\ RowsInv'
  BY <1>1 DEF CaptureInv, PageOrderInv, RowsInv, HasPage
<1> QED BY <1>3, <1>4, <1>5, <1>7, <1>8, <1>9 DEF CaptureInv

\* The page as it is for some stations.
PageOf(S) == {table[s] : s \in S}

\* What a capture fetches of some stations is what the table shows of them, and not ahead of it.
LEMMA PageOfStations ==
  ASSUME CaptureInv, NEW S \in SUBSET Stations
  PROVE  /\ PageOf(S) \in SUBSET Reading /\ IsFiniteSet(PageOf(S)) /\ OneEach(PageOf(S))
         /\ \A r \in PageOf(S) : r.station \in Stations /\ r = table[r.station]
         /\ Behind(PageOf(S))
<1>1. \A s \in Stations : table[s] \in Reading /\ table[s].station = s
                          /\ (table[s].at = NoStamp \/ table[s].at <= day)
  BY DEF CaptureInv, CaptureTypeOK, TableInv
<1>2. PageOf(S) \in SUBSET Reading /\ OneEach(PageOf(S))
      /\ \A r \in PageOf(S) : r.station \in Stations /\ r = table[r.station]
  BY <1>1 DEF PageOf, OneEach
<1>3. Behind(PageOf(S))
  <2>1. \A r \in Stamped(PageOf(S)) : r.at \in Nat /\ r.at <= day /\ r = table[r.station]
    BY <1>1, <1>2, ReadingFields DEF Stamped
  <2> QED BY <2>1 DEF Behind
<1>4. IsFiniteSet(PageOf(S))
  <2> DEFINE f == [s \in S |-> table[s]]
  <2>1. f \in Surjection(S, PageOf(S))
    BY DEF Surjection, PageOf
  <2>2. IsFiniteSet(S)
    BY StampFacts, FS_Subset
  <2> QED BY <2>1, <2>2, FS_Surjection
<1> QED BY <1>2, <1>3, <1>4

\* What a step of one capture leaves alone.
LEMMA OthersStay ==
  ASSUME CaptureTypeOK, NEW p \in Schedulers, NEW c \in Capture, capture' = [capture EXCEPT ![p] = c]
  PROVE  /\ capture' \in [Schedulers -> Capture] /\ capture'[p] = c
         /\ \A q \in Schedulers : q # p => capture'[q] = capture[q]
  BY DEF CaptureTypeOK

\* A page fetched now is later than every other one, and has no older stamps.
LEMMA FetchedSafe ==
  ASSUME CaptureInv, NEW p \in Schedulers, NEW S \in SUBSET Stations \ {{}}, Fetched(p, S)
  PROVE  CaptureInv'
<1> DEFINE c == [pc |-> "fetched", page |-> PageOf(S), visit |-> visits + 1]
<1>1. /\ visits \in Nat /\ visits' = visits + 1 /\ visits' \in 0 .. MaxVisits
      /\ capture' = [capture EXCEPT ![p] = c] /\ ~HasPage(p)
      /\ UNCHANGED <<table, obs, day, edits, newest>>
  BY StampFacts DEF Fetched, CaptureInv, CaptureTypeOK, PageOf, HasPage, Resting
<1>2. /\ PageOf(S) \in SUBSET Reading /\ IsFiniteSet(PageOf(S)) /\ OneEach(PageOf(S))
      /\ \A r \in PageOf(S) : r.station \in Stations /\ r = table[r.station]
      /\ Behind(PageOf(S))
  BY PageOfStations
<1>3. c \in Capture /\ c.pc = "fetched" /\ c.page = PageOf(S) /\ c.visit = visits + 1
  BY <1>1, <1>2 DEF Capture
<1> HIDE DEF c
<1>4. /\ capture' \in [Schedulers -> Capture] /\ capture'[p] = c
      /\ \A q \in Schedulers : q # p => capture'[q] = capture[q]
  BY <1>1, <1>3, OthersStay DEF CaptureInv
<1>5. CaptureTypeOK'
  BY <1>1, <1>4 DEF CaptureInv, CaptureTypeOK
<1>6. TableInv' /\ RowsInv' /\ NewestKept'
  BY <1>1 DEF CaptureInv, TableInv, RowsInv, NewestKept
<1>7. PagesInv'
  <2> SUFFICES ASSUME NEW q \in Schedulers, HasPage(q)'
               PROVE  /\ capture'[q].visit \in 1 .. visits' /\ IsFiniteSet(capture'[q].page)
                      /\ OneEach(capture'[q].page) /\ Behind(capture'[q].page)
    BY <1>1 DEF PagesInv, Behind
  <2>1. CASE q = p
    BY <1>1, <1>2, <1>3, <1>4, <2>1
  <2>2. CASE q # p
    BY <1>1, <1>4, <2>2 DEF CaptureInv, PagesInv, HasPage
  <2> QED BY <2>1, <2>2
<1>8. \A q \in Schedulers : HasPage(q) => /\ capture[q].visit \in 1 .. visits
                                          /\ InOrder(capture[q].page, PageOf(S))
  <2> SUFFICES ASSUME NEW q \in Schedulers, HasPage(q)
               PROVE  InOrder(capture[q].page, PageOf(S))
    BY DEF CaptureInv, PagesInv
  <2>1. Behind(capture[q].page)
    BY DEF CaptureInv, PagesInv
  <2> QED BY <1>2, <2>1 DEF InOrder, Behind, Stamped
<1>9. PageOrderInv'
  <2> SUFFICES ASSUME NEW q \in Schedulers, NEW t \in Schedulers, HasPage(q)', HasPage(t)', q # t
               PROVE  /\ capture'[q].visit # capture'[t].visit
                      /\ capture'[q].visit < capture'[t].visit =>
                           InOrder(capture'[q].page, capture'[t].page)
    BY DEF PageOrderInv
  <2>1. CASE q = p
    <3>1. HasPage(t) /\ capture'[t] = capture[t] /\ capture[t].visit \in 1 .. visits
      BY <1>4, <1>8, <2>1 DEF HasPage
    <3> QED BY <1>1, <1>3, <1>4, <2>1, <3>1
  <2>2. CASE t = p
    <3>1. HasPage(q) /\ capture'[q] = capture[q] /\ capture[q].visit \in 1 .. visits
          /\ InOrder(capture[q].page, PageOf(S))
      BY <1>4, <1>8, <2>2 DEF HasPage
    <3> QED BY <1>1, <1>3, <1>4, <2>2, <3>1
  <2>3. CASE q # p /\ t # p
    BY <1>4, <2>3 DEF CaptureInv, PageOrderInv, HasPage
  <2> QED BY <2>1, <2>2, <2>3
<1>10. NewestInv'
  <2> SUFFICES ASSUME NEW s \in Stations, newest[s] # Unseen
               PROVE  /\ newest[s].visit \in 1 .. visits'
                      /\ \A q \in Schedulers : Ranked(q, s)'
    BY <1>1 DEF CaptureInv, NewestInv
  <2>1. newest[s].visit \in 1 .. visits /\ newest[s].reading.at <= table[s].at
        /\ \A q \in Schedulers : Ranked(q, s)
    BY DEF CaptureInv, NewestInv
  <2>2. newest[s].visit \in 1 .. visits'
    BY <1>1, <2>1
  <2>3. Ranked(p, s)'
    <3>1. \A r \in Stamped(PageOf(S)) : r = table[r.station]
      BY <1>2 DEF Stamped
    <3>2. ~(visits + 1 < newest[s].visit) /\ visits + 1 # newest[s].visit
      BY <1>1, <2>1
    <3> QED BY <1>1, <1>3, <1>4, <2>1, <3>1, <3>2 DEF Ranked
  <2>4. ASSUME NEW q \in Schedulers, q # p PROVE Ranked(q, s)'
    BY <1>1, <1>4, <2>1, <2>4 DEF Ranked, HasPage
  <2> QED BY <2>2, <2>3, <2>4
<1> QED BY <1>5, <1>6, <1>7, <1>9, <1>10 DEF CaptureInv

\* A capture that has no page any more, and the others as they were.
LEMMA PageDropped ==
  ASSUME CaptureInv, NEW p \in Schedulers, NEW c \in Capture, c.pc # "fetched",
         capture' = [capture EXCEPT ![p] = c], UNCHANGED <<table, day, edits, visits>>
  PROVE  /\ capture' \in [Schedulers -> Capture] /\ TableInv' /\ PagesInv' /\ PageOrderInv'
         /\ \A q \in Schedulers : HasPage(q)' => HasPage(q) /\ q # p /\ capture'[q] = capture[q]
<1>1. /\ capture' \in [Schedulers -> Capture] /\ capture'[p] = c
      /\ \A q \in Schedulers : q # p => capture'[q] = capture[q]
  BY OthersStay DEF CaptureInv
<1>2. \A q \in Schedulers : HasPage(q)' => HasPage(q) /\ q # p /\ capture'[q] = capture[q]
  BY <1>1 DEF HasPage
<1>3. TableInv'
  BY DEF CaptureInv, TableInv
<1>4. PagesInv'
  BY <1>2 DEF CaptureInv, PagesInv, Behind
<1>5. PageOrderInv'
  BY <1>2 DEF CaptureInv, PageOrderInv
<1> QED BY <1>1, <1>2, <1>3, <1>4, <1>5

\* A prune, and the end of a capture at any point: the rows that are left are those in retention.
LEMMA CaptureEndsSafe ==
  ASSUME CaptureInv, NEW p \in Schedulers, capture' = [capture EXCEPT ![p] = Resting],
         UNCHANGED <<table, day, edits, visits, newest>>, obs' \subseteq obs,
         \A o \in obs : o.at >= day - Retention => o \in obs'
  PROVE  CaptureInv'
<1>1. Resting \in Capture /\ Resting.pc # "fetched"
  BY DEF Resting, Capture
<1>2. /\ capture' \in [Schedulers -> Capture] /\ TableInv' /\ PagesInv' /\ PageOrderInv'
      /\ \A q \in Schedulers : HasPage(q)' => HasPage(q) /\ q # p /\ capture'[q] = capture[q]
  BY <1>1, PageDropped
<1>3. CaptureTypeOK'
  BY <1>2 DEF CaptureInv, CaptureTypeOK
<1>4. NewestInv'
  BY <1>2 DEF CaptureInv, NewestInv, Ranked
<1>5. RowsInv'
  <2>1. IsFiniteSet(obs')
    BY FS_Subset DEF CaptureInv, RowsInv
  <2> QED BY <2>1 DEF CaptureInv, RowsInv
<1>6. NewestKept'
  BY DEF CaptureInv, NewestKept
<1> QED BY <1>2, <1>3, <1>4, <1>5, <1>6 DEF CaptureInv

(***************************************************************************)
(* Storing a page.                                                         *)
(***************************************************************************)

\* A page with one reading of a station gives that one to the newest readings.
LEMMA NotedReading ==
  ASSUME NEW batch, OneEach(batch), NEW r \in batch, NEW visit
  PROVE  Noted(r.station, batch, visit) =
           IF newest[r.station].visit < visit
           THEN [visit |-> visit, reading |-> r, overtaken |-> FALSE]
           ELSE [newest[r.station] EXCEPT
                   !.overtaken = @ \/ SameObservation(newest[r.station].reading, r)]
<1> DEFINE s == r.station
           of == {t \in batch : t.station = s}
<1>1. of = {r} /\ of # {}
  BY DEF OneEach
<1>2. (CHOOSE t \in of : TRUE) = r
  BY <1>1
<1>3. Noted(s, batch, visit) =
        IF of = {} THEN newest[s]
        ELSE LET t == CHOOSE t \in of : TRUE IN
             IF newest[s].visit < visit THEN [visit |-> visit, reading |-> t, overtaken |-> FALSE]
             ELSE [newest[s] EXCEPT !.overtaken = @ \/ SameObservation(newest[s].reading, t)]
  BY DEF Noted
<1> HIDE DEF of
<1> QED BY <1>1, <1>2, <1>3

\* A station that is not on a page is not noted.
LEMMA NotedNothing ==
  ASSUME NEW batch, NEW s, \A r \in batch : r.station # s, NEW visit
  PROVE  Noted(s, batch, visit) = newest[s]
  BY DEF Noted

\* What storing a page makes of the newest reading of a station in it.
Advanced(s, r, visit) ==
  IF newest[s].visit < visit
  THEN newest'[s] = [visit |-> visit, reading |-> r, overtaken |-> FALSE]
  ELSE /\ newest[s] \in Latest
       /\ newest'[s].visit = newest[s].visit /\ newest'[s].reading = newest[s].reading
       /\ newest'[s].overtaken = (newest[s].overtaken \/ r.at = newest[s].reading.at)
       /\ newest'[s] \in Latest

\* Storing a page keeps the invariant: a reading takes the place of none that was captured later.
LEMMA StoredSafe == ASSUME CaptureInv, NEW p \in Schedulers, Stored(p) PROVE CaptureInv'
<1> DEFINE batch == Stamped(capture[p].page)
           visit == capture[p].visit
           c == [capture[p] EXCEPT !.pc = "stored", !.page = {}]
<1>1. /\ HasPage(p) /\ obs' = Upserted(obs, batch)
      /\ newest' = [s \in Stations |-> Noted(s, batch, visit)]
      /\ capture' = [capture EXCEPT ![p] = c]
      /\ UNCHANGED <<table, day, edits, visits>>
  BY DEF Stored, HasPage
<1>2. /\ batch \subseteq Observation /\ IsFiniteSet(batch) /\ OneEach(batch)
      /\ visit \in 1 .. visits /\ visit \in Nat /\ visits \in Nat
      /\ \A r \in batch : r.at <= day /\ r.at <= table[r.station].at
  <2>1. capture[p].page \in SUBSET Reading /\ visits \in Nat
    BY CaptureFields, StampFacts DEF CaptureInv, CaptureTypeOK
  <2>2. batch \subseteq capture[p].page /\ batch \subseteq Observation
    BY <2>1, StampedReadings
  <2>3. /\ visit \in 1 .. visits /\ IsFiniteSet(capture[p].page)
        /\ OneEach(capture[p].page) /\ Behind(capture[p].page)
    BY <1>1 DEF CaptureInv, PagesInv
  <2> QED BY <2>1, <2>2, <2>3, FS_Subset DEF OneEach, Behind
<1>3. c \in Capture /\ c.pc # "fetched"
  <2>1. capture[p] \in Capture
    BY CaptureFields DEF CaptureInv
  <2> QED BY <2>1 DEF Capture
<1> HIDE DEF c, batch, visit
<1>4. /\ capture' \in [Schedulers -> Capture] /\ TableInv' /\ PagesInv' /\ PageOrderInv'
      /\ \A q \in Schedulers : HasPage(q)' => HasPage(q) /\ q # p /\ capture'[q] = capture[q]
  BY <1>1, <1>3, PageDropped
<1>5. \A s \in Stations : newest[s] = Unseen \/ (newest[s] \in Latest /\ newest[s].visit >= 1
                            /\ newest[s].visit \in Nat /\ newest[s].reading \in Observation
                            /\ newest[s].reading.station = s /\ newest[s].overtaken \in BOOLEAN)
  BY <1>2, ReadingFields DEF CaptureInv, CaptureTypeOK, NewestInv
<1>6. ASSUME NEW r \in batch PROVE Advanced(r.station, r, visit)
  <2> DEFINE s == r.station
  <2>1. s \in Stations /\ r \in Observation
    BY <1>2, ReadingFields
  <2>2. newest'[s] = IF newest[s].visit < visit
                     THEN [visit |-> visit, reading |-> r, overtaken |-> FALSE]
                     ELSE [newest[s] EXCEPT !.overtaken = @ \/ SameObservation(newest[s].reading, r)]
    BY <1>1, <1>2, <2>1, NotedReading
  <2>3. CASE newest[s].visit < visit
    BY <2>2, <2>3 DEF Advanced
  <2>4. CASE ~(newest[s].visit < visit)
    <3>1. newest[s] \in Latest /\ newest[s].reading.station = s /\ newest[s].overtaken \in BOOLEAN
      BY <1>2, <1>5, <2>1, <2>4, ReadingFields
    <3> DEFINE over == newest[s].overtaken \/ SameObservation(newest[s].reading, r)
    <3>2. newest'[s] = [newest[s] EXCEPT !.overtaken = over]
      BY <2>2, <2>4
    <3>3. over \in BOOLEAN /\ over = (newest[s].overtaken \/ r.at = newest[s].reading.at)
      BY <3>1 DEF SameObservation
    <3> HIDE DEF over
    <3>4. /\ newest'[s].visit = newest[s].visit /\ newest'[s].reading = newest[s].reading
          /\ newest'[s].overtaken = over /\ newest'[s] \in Latest
      BY <3>1, <3>2, <3>3 DEF Latest
    <3> QED BY <2>4, <3>1, <3>3, <3>4 DEF Advanced
  <2> QED BY <2>3, <2>4
<1>7. ASSUME NEW s \in Stations, \A r \in batch : r.station # s PROVE newest'[s] = newest[s]
  BY <1>1, <1>7, NotedNothing
<1>8. \A r \in batch : [visit |-> visit, reading |-> r, overtaken |-> FALSE] \in Latest
  BY <1>2 DEF Latest
<1>9. \A s \in Stations : newest'[s] \in {Unseen} \cup Latest
  <2> SUFFICES ASSUME NEW s \in Stations PROVE newest'[s] \in {Unseen} \cup Latest
    OBVIOUS
  <2>1. CASE \E r \in batch : r.station = s
    BY <1>6, <1>8, <2>1 DEF Advanced
  <2>2. CASE \A r \in batch : r.station # s
    BY <1>5, <1>7, <2>2
  <2> QED BY <2>1, <2>2
<1>10. /\ obs' \subseteq Observation /\ IsFiniteSet(obs')
       /\ \A o \in obs' : o \in batch \/ (o \in obs /\ \A r \in batch : ~SameObservation(o, r))
       /\ batch \subseteq obs'
       /\ \A o \in obs : (\A r \in batch : ~SameObservation(o, r)) => o \in obs'
  <2>1. obs \subseteq Observation /\ IsFiniteSet(obs)
    BY DEF CaptureInv, CaptureTypeOK, RowsInv
  <2> DEFINE old == {o \in obs : ~\E r \in batch : SameObservation(o, r)}
  <2>2. obs' = old \cup batch /\ old \subseteq obs
    BY <1>1 DEF Upserted
  <2>3. IsFiniteSet(old) /\ IsFiniteSet(old \cup batch)
    <3>1. IsFiniteSet(old)
      BY <2>1, FS_Subset
    <3> HIDE DEF old
    <3> QED BY <1>2, <3>1, FS_Union
  <2> QED BY <1>2, <2>1, <2>2, <2>3
<1>11. CaptureTypeOK'
  <2>1. newest' \in [Stations -> {Unseen} \cup Latest]
    BY <1>1, <1>9
  <2> QED BY <1>1, <1>4, <1>10, <2>1 DEF CaptureInv, CaptureTypeOK
\* How a reading that is stored stands to the newest one, and to the other pages.
<1>12. ASSUME NEW r \in batch
       PROVE  LET s == r.station IN
              newest[s] # Unseen =>
                /\ visit # newest[s].visit
                /\ visit < newest[s].visit => r.at <= newest[s].reading.at
                /\ newest[s].visit < visit => newest[s].reading.at <= r.at
  <2>1. r.station \in Stations
    BY <1>2, ReadingFields
  <2>2. newest[r.station] # Unseen => Ranked(p, r.station)
    BY <2>1 DEF CaptureInv, NewestInv
  <2> QED BY <1>1, <2>2 DEF Ranked, batch, visit
<1>13. \A q \in Schedulers : HasPage(q)' =>
         /\ capture[q].visit # visit
         /\ capture[q].visit < visit => InOrder(capture[q].page, capture[p].page)
         /\ visit < capture[q].visit => InOrder(capture[p].page, capture[q].page)
         /\ capture[q].visit \in Nat
  BY <1>1, <1>4, CaptureFields DEF CaptureInv, PageOrderInv, visit
<1>14. NewestInv'
  <2> SUFFICES ASSUME NEW s \in Stations, newest'[s] # Unseen
               PROVE  /\ newest'[s].visit \in 1 .. visits /\ newest'[s].reading.station = s
                      /\ newest'[s].reading.at <= day /\ newest'[s].reading.at <= table[s].at
                      /\ \A q \in Schedulers : Ranked(q, s)'
    BY <1>1 DEF NewestInv
  <2>1. CASE newest'[s].visit = newest[s].visit /\ newest'[s].reading = newest[s].reading
             /\ newest[s] # Unseen
    BY <1>1, <1>4, <2>1 DEF CaptureInv, NewestInv, Ranked
  <2>2. CASE \E r \in batch : r.station = s /\ newest[s].visit < visit
    <3>1. PICK r \in batch : r.station = s /\ newest[s].visit < visit
      BY <2>2
    <3>2. newest'[s] = [visit |-> visit, reading |-> r, overtaken |-> FALSE]
      BY <1>6, <3>1 DEF Advanced
    <3>3. /\ newest'[s].visit \in 1 .. visits /\ newest'[s].reading.station = s
          /\ newest'[s].reading.at <= day /\ newest'[s].reading.at <= table[s].at
      BY <1>2, <3>1, <3>2
    <3>4. ASSUME NEW q \in Schedulers, HasPage(q)' PROVE Ranked(q, s)'
      <4>1. /\ capture'[q] = capture[q] /\ capture[q].visit # visit
            /\ capture[q].visit < visit => InOrder(capture[q].page, capture[p].page)
            /\ visit < capture[q].visit => InOrder(capture[p].page, capture[q].page)
        BY <1>4, <1>13, <3>4
      <4>2. r \in Stamped(capture[p].page) /\ newest'[s].visit = visit /\ newest'[s].reading = r
        BY <3>2 DEF batch
      <4> QED BY <3>1, <4>1, <4>2 DEF Ranked, InOrder
    <3> QED BY <3>3, <3>4 DEF Ranked
  <2>3. CASE \E r \in batch : r.station = s /\ ~(newest[s].visit < visit)
    <3>1. newest'[s].visit = newest[s].visit /\ newest'[s].reading = newest[s].reading
          /\ newest[s] \in Latest
      BY <1>6, <2>3 DEF Advanced
    <3>2. newest[s] # Unseen
      BY <1>2, <2>3, ReadingFields
    <3> QED BY <2>1, <3>1, <3>2
  <2>4. CASE \A r \in batch : r.station # s
    BY <1>7, <2>1, <2>4
  <2> QED BY <2>2, <2>3, <2>4
<1>15. RowsInv'
  <2> SUFFICES ASSUME NEW o \in obs'
               PROVE  /\ newest'[o.station] # Unseen /\ o.at <= newest'[o.station].reading.at
                      /\ o.at = newest'[o.station].reading.at /\ ~newest'[o.station].overtaken =>
                           o = newest'[o.station].reading
    BY <1>10 DEF RowsInv
  <2> DEFINE s == o.station
  <2>0. s \in Stations /\ o.at \in Nat /\ o \in Observation
    BY <1>10, ReadingFields
  <2>u. \A n \in Latest : n # Unseen
    BY DEF Latest, Unseen
  <2>1. CASE o \in batch
    <3>1. Advanced(s, o, visit)
      BY <1>6, <2>1
    <3>2. CASE newest[s].visit < visit
      BY <1>8, <2>0, <2>1, <2>u, <3>1, <3>2 DEF Advanced
    <3>3. CASE ~(newest[s].visit < visit)
      <4>1. newest[s] # Unseen /\ newest[s].visit \in Nat
        BY <2>u, <3>1, <3>3, ReadingFields DEF Advanced
      <4>2. visit < newest[s].visit
        BY <1>2, <1>12, <2>1, <3>3, <4>1
      <4>3. o.at <= newest[s].reading.at
        BY <1>12, <2>1, <4>1, <4>2
      <4> QED BY <2>u, <3>1, <3>3, <4>3 DEF Advanced
    <3> QED BY <3>2, <3>3
  <2>2. CASE o \notin batch
    <3>1. o \in obs /\ \A r \in batch : ~SameObservation(o, r)
      BY <1>10, <2>2
    <3>2. /\ newest[s] # Unseen /\ o.at <= newest[s].reading.at
          /\ o.at = newest[s].reading.at /\ ~newest[s].overtaken => o = newest[s].reading
      BY <3>1 DEF CaptureInv, RowsInv
    <3>3. CASE \A r \in batch : r.station # s
      BY <1>7, <2>0, <3>2, <3>3
    <3>4. CASE \E r \in batch : r.station = s
      <4>1. PICK r \in batch : r.station = s
        BY <3>4
      <4>2. Advanced(s, r, visit) /\ r.at # o.at /\ r.at \in Nat
        BY <1>2, <1>6, <3>1, <4>1, ReadingFields DEF SameObservation
      <4>3. CASE newest[s].visit < visit
        <5>1. newest[s].reading.at <= r.at /\ newest[s].reading.at \in Nat
          BY <1>5, <1>12, <2>0, <3>2, <4>1, <4>3, ReadingFields
        <5>2. newest'[s] = [visit |-> visit, reading |-> r, overtaken |-> FALSE] /\ newest'[s] # Unseen
          BY <1>8, <2>u, <4>2, <4>3 DEF Advanced
        <5> QED BY <2>0, <3>2, <4>2, <5>1, <5>2
      <4>4. CASE ~(newest[s].visit < visit)
        BY <2>u, <3>2, <4>2, <4>4 DEF Advanced
      <4> QED BY <4>3, <4>4
    <3> QED BY <3>3, <3>4
  <2> QED BY <2>1, <2>2
<1>16. NewestKept'
  <2> SUFFICES ASSUME NEW s \in Stations, newest'[s] # Unseen, ~newest'[s].overtaken,
                      newest'[s].reading.at >= day - Retention
               PROVE  newest'[s].reading \in obs'
    BY <1>1 DEF NewestKept
  <2>1. CASE \A r \in batch : r.station # s
    <3>1. newest'[s] = newest[s] /\ newest[s].reading \in obs /\ newest[s].reading.station = s
      BY <1>7, <2>1 DEF CaptureInv, NewestKept, NewestInv
    <3> QED BY <1>10, <2>1, <3>1 DEF SameObservation
  <2>2. CASE \E r \in batch : r.station = s
    <3>1. PICK r \in batch : r.station = s
      BY <2>2
    <3>2. Advanced(s, r, visit)
      BY <1>6, <3>1
    <3>3. CASE newest[s].visit < visit
      BY <1>10, <3>1, <3>2, <3>3 DEF Advanced
    <3>4. CASE ~(newest[s].visit < visit)
      <4>1. /\ newest[s] # Unseen /\ ~newest[s].overtaken /\ r.at # newest[s].reading.at
            /\ newest'[s].reading = newest[s].reading
        <5>1. \A n \in Latest : n # Unseen
          BY DEF Latest, Unseen
        <5> QED BY <3>2, <3>4, <5>1 DEF Advanced
      <4>2. newest[s].reading \in obs /\ newest[s].reading.station = s
        BY <4>1 DEF CaptureInv, NewestKept, NewestInv
      <4>3. \A t \in batch : ~SameObservation(newest[s].reading, t)
        BY <1>2, <3>1, <4>1, <4>2 DEF SameObservation, OneEach
      <4> QED BY <1>10, <4>1, <4>2, <4>3
    <3> QED BY <3>3, <3>4
  <2> QED BY <2>1, <2>2
<1> QED BY <1>4, <1>11, <1>14, <1>15, <1>16 DEF CaptureInv

\* Every step of the stations, the table and the schedulers keeps the invariant.
LEMMA CaptureKept == CaptureInv /\ [CaptureNext]_captureVars => CaptureInv'
<1> SUFFICES ASSUME CaptureInv, [CaptureNext]_captureVars PROVE CaptureInv'
  OBVIOUS
<1>1. CASE \E s \in Stations : PageEdited(s)
  BY <1>1, PageEditedSafe
<1>2. CASE \E p \in Schedulers, S \in SUBSET Stations \ {{}} : Fetched(p, S)
  BY <1>2, FetchedSafe
<1>3. CASE \E p \in Schedulers : Stored(p)
  BY <1>3, StoredSafe
<1>4. CASE \E p \in Schedulers : Pruned(p)
  BY <1>4, CaptureEndsSafe DEF Pruned
<1>5. CASE \E p \in Schedulers : CaptureStops(p)
  BY <1>5, CaptureEndsSafe DEF CaptureStops
<1>6. CASE NextDay
  BY <1>6, NextDaySafe
<1>7. CASE UNCHANGED captureVars
  BY <1>7 DEF captureVars, CaptureInv, CaptureTypeOK, TableInv, PagesInv, PageOrderInv, NewestInv,
              RowsInv, NewestKept, HasPage, Behind, Ranked
<1> QED BY <1>1, <1>2, <1>3, <1>4, <1>5, <1>6, <1>7 DEF CaptureNext

\* Every reachable state of the captures is well-typed.
THEOREM CaptureTypeCorrect == CaptureSpec => []CaptureTypeOK
<1>1. CaptureInv => CaptureTypeOK
  BY DEF CaptureInv
<1> QED BY <1>1, CaptureInitSafe, CaptureKept, PTL DEF CaptureSpec

\* Corrected re-scrapes win, for any number of stations, captures at once, edits of the page and
\* days of retention.
THEOREM CaptureCorrectionsWin == CaptureSpec => []CorrectionsWin
  BY NewestComesFirst, CaptureInitSafe, CaptureKept, PTL DEF CaptureSpec

--------------------------------------------------------------------------------
(***************************************************************************)
(* RecallSurface, for any families and paths and any limits of the         *)
(* section.                                                                *)
(***************************************************************************)

(***************************************************************************)
(* The candidates section of a recall.                                     *)
(***************************************************************************)

\* What is assumed of the constants.
LEMMA SurfaceConstants ==
  /\ ShownCap \in Nat /\ ScanLimit \in Nat
  /\ MaxCandidates \in Nat /\ MaxSightings \in Nat \ {0} /\ MaxSeen \in Nat
  BY SurfaceAssumption

\* An id is given once.
SurfaceInv ==
  /\ SurfaceTypeOK /\ IsFiniteSet(open)
  /\ \A r \in open : r.id <= derived
  /\ \A r, s \in open : r.id = s.id => r = s

\* What a row of the scan is.
LEMMA ScanFields ==
  /\ \A r \in CandidateScan : /\ r.id \in Nat \ {0} /\ r.sightings \in Nat /\ r.seen \in Nat
                              /\ r.sightings <= MaxSightings
  BY SurfaceConstants DEF CandidateScan

\* At first there is no candidate.
LEMMA SurfaceInitSafe == SurfaceInit => SurfaceInv
<1> SUFFICES ASSUME SurfaceInit PROVE SurfaceInv
  OBVIOUS
<1>1. SurfaceTypeOK
  BY SurfaceConstants DEF SurfaceInit, SurfaceTypeOK, StoredBook
<1>2. open = {} /\ IsFiniteSet(open)
  BY FS_EmptySet DEF SurfaceInit
<1> QED BY <1>1, <1>2 DEF SurfaceInv

\* A candidate with one more sighting.
SeenAgain(r, t) == [r EXCEPT !.sightings = @ + 1, !.seen = t]

\* A sighting derives a candidate with the next id, or is counted on the open one.
LEMMA SightedSafe ==
  ASSUME SurfaceInv, NEW f \in SurfaceFamilies \cup {NoFamily}, NEW path \in Paths \cup {NoPath},
         Sighted(f, path)
  PROVE  SurfaceInv'
<1>1. /\ open \subseteq CandidateScan /\ derived \in 0 .. MaxCandidates /\ derived \in Nat
      /\ now \in 0 .. MaxSeen /\ UNCHANGED <<book, now>>
      /\ book \in [SurfaceFamilies \cup {NoFamily} -> StoredBook] /\ IsFiniteSet(open)
      /\ \A r \in open : r.id <= derived /\ r.id \in Nat
  <2>1. UNCHANGED <<book, now>>
    BY DEF Sighted
  <2>2. /\ open \subseteq CandidateScan /\ derived \in 0 .. MaxCandidates /\ now \in 0 .. MaxSeen
        /\ book \in [SurfaceFamilies \cup {NoFamily} -> StoredBook] /\ IsFiniteSet(open)
        /\ \A r \in open : r.id <= derived
    BY DEF SurfaceInv, SurfaceTypeOK
  <2>3. \A r \in open : r.id \in Nat
    BY <2>2, ScanFields
  <2>4. derived \in Nat
    BY <2>2
  <2> QED BY <2>1, <2>2, <2>3, <2>4
<1>2. CASE /\ derived < MaxCandidates /\ derived' = derived + 1
           /\ open' = open \cup {[id |-> derived + 1, family |-> f, path |-> path, sightings |-> 1,
                                  seen |-> now]}
  <2> DEFINE new == [id |-> derived + 1, family |-> f, path |-> path, sightings |-> 1, seen |-> now]
  <2>1. new \in CandidateScan /\ new.id = derived + 1 /\ derived + 1 \in 0 .. MaxCandidates
    BY <1>1, <1>2, SurfaceConstants DEF CandidateScan
  <2>2. open' = open \cup {new} /\ derived' = derived + 1
    BY <1>2
  <2> HIDE DEF new
  <2>3. IsFiniteSet(open')
    BY <1>1, <2>2, FS_AddElement
  <2>4. SurfaceTypeOK'
    BY <1>1, <2>1, <2>2 DEF SurfaceTypeOK
  <2>5. \A r \in open' : r.id <= derived'
    BY <1>1, <2>1, <2>2
  <2>6. \A r, s \in open' : r.id = s.id => r = s
    BY <1>1, <2>1, <2>2 DEF SurfaceInv
  <2> QED BY <2>3, <2>4, <2>5, <2>6 DEF SurfaceInv
<1>3. CASE \E r \in open :
             /\ r.family = f /\ r.path = path /\ r.sightings < MaxSightings
             /\ open' = (open \ {r}) \cup {[r EXCEPT !.sightings = @ + 1, !.seen = now]}
             /\ UNCHANGED derived
  <2>1. PICK r \in open : /\ r.sightings < MaxSightings /\ open' = (open \ {r}) \cup {SeenAgain(r, now)}
                          /\ UNCHANGED derived
    BY <1>3 DEF SeenAgain
  <2>2. SeenAgain(r, now) \in CandidateScan /\ SeenAgain(r, now).id = r.id
    <3>1. r \in CandidateScan /\ r.sightings \in 1 .. MaxSightings
      BY <1>1, <2>1 DEF CandidateScan
    <3>2. r.sightings + 1 \in 1 .. MaxSightings
      BY <3>1, <2>1, SurfaceConstants
    <3>3. now \in 0 .. MaxSeen
      BY <1>1
    <3> QED BY <3>1, <3>2, <3>3 DEF CandidateScan, SeenAgain
  <2> DEFINE new == SeenAgain(r, now)
             old == open \ {r}
  <2> HIDE DEF new
  <2>3. new \in CandidateScan /\ new.id = r.id /\ open' = old \cup {new}
    BY <2>1, <2>2 DEF new
  <2>4. IsFiniteSet(open')
    <3>1. IsFiniteSet(old)
      BY <1>1, FS_RemoveElement
    <3> HIDE DEF old
    <3> QED BY <2>3, <3>1, FS_AddElement
  <2>5. SurfaceTypeOK'
    BY <1>1, <2>1, <2>3 DEF SurfaceTypeOK
  <2>6. \A s \in open' : s.id <= derived'
    BY <1>1, <2>1, <2>3
  <2>7. \A s, t \in open' : s.id = t.id => s = t
    BY <1>1, <2>1, <2>3 DEF SurfaceInv
  <2> QED BY <2>4, <2>5, <2>6, <2>7 DEF SurfaceInv
<1> QED BY <1>2, <1>3 DEF Sighted

\* Every step keeps the ids of the open candidates apart.
LEMMA SurfaceKept == SurfaceInv /\ [SurfaceNext]_surfaceVars => SurfaceInv'
<1> SUFFICES ASSUME SurfaceInv, [SurfaceNext]_surfaceVars PROVE SurfaceInv'
  OBVIOUS
<1>1. CASE \E f \in SurfaceFamilies \cup {NoFamily}, path \in Paths \cup {NoPath} : Sighted(f, path)
  BY <1>1, SightedSafe
<1>2. CASE \E f \in SurfaceFamilies \cup {NoFamily} : ConfirmShown(f)
  <2>1. open' \subseteq open /\ UNCHANGED <<book, derived, now>>
    BY <1>2 DEF ConfirmShown
  <2>2. IsFiniteSet(open')
    BY <2>1, FS_Subset DEF SurfaceInv
  <2> QED BY <2>1, <2>2 DEF SurfaceInv, SurfaceTypeOK
<1>3. CASE \E f \in SurfaceFamilies : StoreBook(f)
  <2>1. UNCHANGED <<open, derived, now>>
    BY <1>3 DEF StoreBook
  <2>2. book' \in [SurfaceFamilies \cup {NoFamily} -> StoredBook]
    BY <1>3 DEF StoreBook, SurfaceInv, SurfaceTypeOK
  <2> QED BY <2>1, <2>2 DEF SurfaceInv, SurfaceTypeOK
<1>4. CASE ClockTicks
  BY <1>4, SurfaceConstants DEF ClockTicks, SurfaceInv, SurfaceTypeOK
<1>5. CASE UNCHANGED surfaceVars
  BY <1>5 DEF surfaceVars, SurfaceInv, SurfaceTypeOK
<1> QED BY <1>1, <1>2, <1>3, <1>4, <1>5 DEF SurfaceNext

(***************************************************************************)
(* The orders of the query and of the program.                             *)
(***************************************************************************)

\* The order of the sightings is total on rows with different ids.
LEMMA SeenMoreOrder ==
  ASSUME SurfaceInv
  PROVE  /\ \A r, s \in open : r # s => SeenMore(r, s) \/ SeenMore(s, r)
         /\ \A r, s, t \in open : SeenMore(r, s) /\ SeenMore(s, t) => SeenMore(r, t)
         /\ \A r \in open : ~SeenMore(r, r)
         /\ \A r, s \in open : SeenMore(r, s) => s.sightings <= r.sightings
<1>1. \A r \in open : r.id \in Nat /\ r.sightings \in Nat /\ r.seen \in Nat
  BY ScanFields DEF SurfaceInv, SurfaceTypeOK
<1>2. \A r, s \in open : r # s => r.id # s.id
  BY DEF SurfaceInv
<1>3. ASSUME NEW r \in open, NEW s \in open, r # s PROVE SeenMore(r, s) \/ SeenMore(s, r)
  BY <1>1, <1>2, <1>3 DEF SeenMore
<1>4. ASSUME NEW r \in open, NEW s \in open, NEW t \in open, SeenMore(r, s), SeenMore(s, t)
      PROVE  SeenMore(r, t)
  BY <1>1, <1>4 DEF SeenMore
<1>5. ASSUME NEW r \in open PROVE ~SeenMore(r, r)
  BY <1>1, <1>5 DEF SeenMore
<1>6. ASSUME NEW r \in open, NEW s \in open, SeenMore(r, s) PROVE s.sightings <= r.sightings
  BY <1>1, <1>6 DEF SeenMore
<1> QED BY <1>3, <1>4, <1>5, <1>6

\* So are the order of the query and the rank.
LEMMA ScanOrder ==
  ASSUME SurfaceInv, NEW f
  PROVE  /\ \A r, s \in open : r # s => ScannedBefore(f, r, s) \/ ScannedBefore(f, s, r)
         /\ \A r, s, t \in open :
              ScannedBefore(f, r, s) /\ ScannedBefore(f, s, t) => ScannedBefore(f, r, t)
         /\ \A r \in open : ~ScannedBefore(f, r, r)
  BY SeenMoreOrder DEF ScannedBefore, Anchored

\* The first tier holds the anchored candidates.
LEMMA TierFields ==
  \A f, r : Tier(f, r) \in 0 .. 2 /\ (Tier(f, r) = 0 <=> Anchored(f, r))
  BY DEF Tier

\* The ranking is a strict total order of the open candidates.
LEMMA RankOrder ==
  ASSUME SurfaceInv, NEW f
  PROVE  /\ \A r, s \in open : r # s => RankedBefore(f, r, s) \/ RankedBefore(f, s, r)
         /\ \A r, s, t \in open :
              RankedBefore(f, r, s) /\ RankedBefore(f, s, t) => RankedBefore(f, r, t)
         /\ \A r \in open : ~RankedBefore(f, r, r)
<1>1. \A r : Tier(f, r) \in 0 .. 2
  BY TierFields
<1> QED BY <1>1, SeenMoreOrder DEF RankedBefore

\* Of a finite set that is ordered, what comes before a row among the first n is among them too.
LEMMA FirstOnes ==
  ASSUME NEW S, IsFiniteSet(S), NEW n \in Nat, NEW A \in SUBSET S, NEW B \in SUBSET S,
         A \subseteq B, Cardinality(B) < n
  PROVE  Cardinality(A) < n
<1>1. IsFiniteSet(B)
  BY FS_Subset
<1>2. Cardinality(A) <= Cardinality(B) /\ IsFiniteSet(A)
  BY <1>1, FS_Subset
<1>3. Cardinality(A) \in Nat /\ Cardinality(B) \in Nat
  BY <1>1, <1>2, FS_CardinalityType
<1> QED BY <1>2, <1>3

\* A row that the query leaves out is behind every row it takes.
LEMMA LeftOutOfScan ==
  ASSUME SurfaceInv, NEW f, NEW r \in open, r \notin Scanned(f), NEW s \in Scanned(f)
  PROVE  ScannedBefore(f, s, r)
<1> DEFINE Before(x) == {t \in open : ScannedBefore(f, t, x)}
<1>1. s \in open /\ Cardinality(Before(s)) < ScanLimit /\ ~(Cardinality(Before(r)) < ScanLimit)
  BY DEF Scanned
<1>2. r # s
  OBVIOUS
<1>3. ASSUME ScannedBefore(f, r, s) PROVE FALSE
  <2>1. Before(r) \subseteq Before(s)
    BY <1>1, <1>3, ScanOrder
  <2>2. IsFiniteSet(open) /\ Before(r) \subseteq open /\ Before(s) \subseteq open
    BY DEF SurfaceInv
  <2> HIDE DEF Before
  <2> QED BY <1>1, <2>1, <2>2, FirstOnes, SurfaceConstants
<1> QED BY <1>1, <1>2, <1>3, ScanOrder

\* And one that the program leaves out is ranked behind every row it shows.
LEMMA LeftOutOfShown ==
  ASSUME SurfaceInv, NEW f, NEW r \in Scanned(f), r \notin Surfaced(f), NEW s \in Surfaced(f)
  PROVE  RankedBefore(f, s, r)
<1> DEFINE Before(x) == {t \in Scanned(f) : RankedBefore(f, t, x)}
<1>1. s \in Scanned(f) /\ Cardinality(Before(s)) < ShownCap /\ ~(Cardinality(Before(r)) < ShownCap)
  BY DEF Surfaced
<1>2. r # s /\ r \in open /\ s \in open /\ Scanned(f) \subseteq open
  BY <1>1 DEF Scanned
<1>3. ASSUME RankedBefore(f, r, s) PROVE FALSE
  <2>1. Before(r) \subseteq Before(s)
    BY <1>2, <1>3, RankOrder
  <2>2. IsFiniteSet(open) /\ Before(r) \subseteq open /\ Before(s) \subseteq open
    BY <1>2 DEF SurfaceInv
  <2> HIDE DEF Before
  <2> QED BY <1>1, <2>1, <2>2, FirstOnes, SurfaceConstants
<1> QED BY <1>2, <1>3, RankOrder

\* What is left out of the section is ranked after all that is shown.
LEMMA SurfaceProven == SurfaceInv => ProvenIsShown
<1> SUFFICES ASSUME SurfaceInv, NEW f \in SurfaceFamilies \cup {NoFamily},
                    NEW r \in open \ Surfaced(f), NEW s \in Surfaced(f)
             PROVE  /\ Anchored(f, r) => Anchored(f, s)
                    /\ Tier(f, r) = Tier(f, s) => r.sightings <= s.sightings
  BY DEF ProvenIsShown
<1>1. s \in Scanned(f) /\ s \in open
  BY DEF Surfaced, Scanned
<1>2. \A x : Tier(f, x) \in 0 .. 2 /\ (Tier(f, x) = 0 <=> Anchored(f, x))
  BY TierFields
<1>3. CASE r \notin Scanned(f)
  <2>1. ScannedBefore(f, s, r)
    BY <1>1, <1>3, LeftOutOfScan
  <2>2. Anchored(f, r) => Anchored(f, s)
    BY <2>1 DEF ScannedBefore
  <2>3. Tier(f, r) = Tier(f, s) => Anchored(f, r) = Anchored(f, s)
    BY <1>2 DEF Anchored
  <2>4. Tier(f, r) = Tier(f, s) => SeenMore(s, r)
    BY <2>1, <2>3 DEF ScannedBefore
  <2> QED BY <1>1, <2>2, <2>4, SeenMoreOrder
<1>4. CASE r \in Scanned(f)
  <2>1. RankedBefore(f, s, r)
    BY <1>4, LeftOutOfShown
  <2>2. Tier(f, r) = Tier(f, s) => SeenMore(s, r)
    BY <2>1 DEF RankedBefore
  <2>3. Tier(f, s) <= Tier(f, r)
    BY <1>2, <2>1 DEF RankedBefore
  <2> QED BY <1>1, <1>2, <2>2, <2>3, SeenMoreOrder
<1> QED BY <1>3, <1>4

\* Every reachable state of the section is well-typed.
THEOREM SurfaceTypeCorrect == SurfaceSpec => []SurfaceTypeOK
<1>1. SurfaceInv => SurfaceTypeOK
  BY DEF SurfaceInv
<1> QED BY <1>1, SurfaceInitSafe, SurfaceKept, PTL DEF SurfaceSpec

\* The two bounds hide no candidate that should come first, for any bounds of the query and of the
\* section, candidates and playbooks.
THEOREM SurfaceShowsProven == SurfaceSpec => []ProvenIsShown
  BY SurfaceProven, SurfaceInitSafe, SurfaceKept, PTL DEF SurfaceSpec

--------------------------------------------------------------------------------
(***************************************************************************)
(* StormReports, for any areas and any signals.  The three commands read   *)
(* what PAGASA shows one source at a time, so the invariant speaks of the  *)
(* sources already fetched, and of what each command makes of the same     *)
(* results.                                                                *)
(***************************************************************************)

(***************************************************************************)
(* watch, approach and storm.                                              *)
(***************************************************************************)

\* What each command says of area a, of these results: the right-hand side of Answer.
SaidOf(a) == [c \in Commands |-> CASE c = "watch" -> WatchReport(a)
                                   [] c = "approach" -> ApproachReport(a)
                                   [] c = "storm" -> StormReport(a)]
AllSilent == [c \in Commands |-> Silent]

\* What is reported stands on the results that are still there: they are replaced only by a fetch,
\* which forgets the reports, and no fetch ends while there are reports.
StormInv ==
  /\ StormTypeOK
  /\ report = AllSilent \/ (fetched.pending = {} /\ \E a \in Areas : report = SaidOf(a))

\* The constants, one fact at a time.
LEMMA StormConstants == Areas # {} /\ MaxSignal \in Nat /\ MaxNews \in Nat
  BY StormAssumption

\* A set of signals that is not empty has a highest one.
LEMMA HighestSignal ==
  ASSUME NEW S \in SUBSET (1 .. MaxSignal), S # {}
  PROVE  \E s \in S : \A t \in S : t <= s
<1> DEFINE Less == OpToRel(<, Nat)
           below == {m \in Nat : MaxSignal - m \in S}
<1>1. MaxSignal \in Nat
  BY StormConstants
<1>2. PICK s \in S : TRUE
  OBVIOUS
<1>3. s \in 1 .. MaxSignal
  BY <1>2
<1>4. MaxSignal - s \in Nat /\ MaxSignal - (MaxSignal - s) = s
  BY <1>1, <1>3
<1>5. below # {} /\ below \subseteq Nat
  BY <1>2, <1>4
<1>6. IsWellFoundedOn(Less, Nat)
  BY NatLessThanWellFounded
<1>7. \A m, k \in Nat : k < m => <<k, m>> \in Less
  BY DEF OpToRel
<1> HIDE DEF Less, below
<1>8. PICK m \in below : \A k \in below : <<k, m>> \notin Less
  BY <1>5, <1>6, WFMin
<1>9. m \in Nat /\ MaxSignal - m \in S
  BY <1>8 DEF below
<1>10. ASSUME NEW t \in S PROVE t <= MaxSignal - m
  <2>1. t \in 1 .. MaxSignal
    OBVIOUS
  <2>2. MaxSignal - t \in Nat /\ MaxSignal - (MaxSignal - t) = t
    BY <1>1, <2>1
  <2>3. MaxSignal - t \in below
    BY <2>2 DEF below
  <2>4. ~(MaxSignal - t < m)
    BY <1>7, <1>8, <1>9, <2>2, <2>3
  <2> QED BY <1>1, <1>9, <2>1, <2>2, <2>4
<1> QED BY <1>9, <1>10

\* watch takes the highest signal the area is listed under.
LEMMA MatchIsHighest ==
  ASSUME NEW a \in Areas
  PROVE  /\ MatchWindSignal(a) \in 0 .. MaxSignal
         /\ \A s \in Listed(a) : s <= MatchWindSignal(a)
<1>1. Listed(a) \in SUBSET (1 .. MaxSignal)
  BY DEF Listed
<1>2. CASE Listed(a) = {}
  BY <1>2, StormConstants DEF MatchWindSignal
<1>3. CASE Listed(a) # {}
  <2> DEFINE top == CHOOSE s \in Listed(a) : \A t \in Listed(a) : t <= s
  <2>1. \E s \in Listed(a) : \A t \in Listed(a) : t <= s
    BY <1>1, <1>3, HighestSignal
  <2>2. top \in Listed(a) /\ \A t \in Listed(a) : t <= top
    BY <2>1, Zenon
  <2>3. MatchWindSignal(a) = top
    BY <1>3 DEF MatchWindSignal
  <2> HIDE DEF top
  <2>4. top \in 1 .. MaxSignal
    BY <1>1, <2>2
  <2> QED BY <2>2, <2>3, <2>4, StormConstants
<1> QED BY <1>2, <1>3

\* The fields of a report.
LEMMA SilentFields ==
  /\ Silent \in Report /\ Silent.says = "nothing"
  /\ \A says : [Silent EXCEPT !.says = says].says = says
  BY StormConstants DEF Silent, Report

\* What watch reports.
LEMMA WatchFields ==
  ASSUME NEW a \in Areas
  PROVE  /\ WatchReport(a) \in Report /\ WatchReport(a).area = a
         /\ WatchReport(a).signal = MatchWindSignal(a)
         /\ WatchReport(a).says = IF MatchWindSignal(a) > 0 \/ Named \/ Bulletins THEN "active" ELSE "none"
<1>1. MatchWindSignal(a) \in 0 .. MaxSignal
  BY MatchIsHighest
<1> QED BY <1>1, SilentFields DEF WatchReport, Report, Silent

\* What approach reports.
LEMMA ApproachFields ==
  ASSUME NEW a \in Areas, StormTypeOK
  PROVE  /\ ApproachReport(a) \in Report
         /\ ApproachReport(a).says = IF ~fetched.weather.ok THEN "error"
                                     ELSE IF Named \/ Bulletins THEN "active" ELSE "none"
<1>1. /\ fetched.weather.page.panel \in BOOLEAN /\ fetched.weather.page.position \in BOOLEAN
      /\ fetched.bulletin.ok \in BOOLEAN /\ fetched.bulletin.page.position \in BOOLEAN
      /\ fetched.weather.ok \in BOOLEAN
  BY DEF StormTypeOK, Fetch, Weather, Bulletin
<1> DEFINE located == \/ fetched.weather.page.panel /\ fetched.weather.page.position
                      \/ fetched.bulletin.ok /\ fetched.bulletin.page.position
<1>2. located \in BOOLEAN
  BY <1>1
<1>3. /\ ~fetched.weather.ok => ApproachReport(a) = [Silent EXCEPT !.says = "error"]
      /\ fetched.weather.ok /\ ~(Named \/ Bulletins) => ApproachReport(a) = [Silent EXCEPT !.says = "none"]
      /\ fetched.weather.ok /\ (Named \/ Bulletins) =>
           ApproachReport(a) = [Silent EXCEPT !.says = "active", !.located = located]
  BY DEF ApproachReport, ApproachActive
<1> HIDE DEF located
<1>4. [Silent EXCEPT !.says = "active", !.located = located] \in Report
  BY <1>2, SilentFields DEF Silent, Report
<1>5. /\ [Silent EXCEPT !.says = "error"] \in Report
      /\ [Silent EXCEPT !.says = "none"] \in Report
      /\ [Silent EXCEPT !.says = "active", !.located = located].says = "active"
  BY SilentFields DEF Silent, Report
<1>6. CASE ~fetched.weather.ok
  BY <1>3, <1>5, <1>6, SilentFields
<1>7. CASE fetched.weather.ok /\ ~(Named \/ Bulletins)
  BY <1>3, <1>5, <1>7, SilentFields
<1>8. CASE fetched.weather.ok /\ (Named \/ Bulletins)
  BY <1>3, <1>4, <1>5, <1>8
<1> QED BY <1>6, <1>7, <1>8

\* What storm reports.
LEMMA StormFields ==
  ASSUME NEW a \in Areas
  PROVE  /\ StormReport(a) \in Report
         /\ StormReport(a).says = IF ~fetched.bulletin.ok THEN "error"
                                  ELSE IF Named \/ Bulletins THEN "active" ELSE "none"
  BY SilentFields DEF StormReport, Silent, Report

\* The three reports.
LEMMA SaidFields ==
  ASSUME NEW a
  PROVE  /\ SaidOf(a)["watch"] = WatchReport(a)
         /\ SaidOf(a)["approach"] = ApproachReport(a)
         /\ SaidOf(a)["storm"] = StormReport(a)
         /\ \A c \in Commands : AllSilent[c] = Silent
  BY DEF SaidOf, Commands, AllSilent

\* They are reports.
LEMMA SaidTyped ==
  ASSUME NEW a \in Areas, StormTypeOK
  PROVE  SaidOf(a) \in [Commands -> Report]
<1>1. WatchReport(a) \in Report /\ ApproachReport(a) \in Report /\ StormReport(a) \in Report
  BY WatchFields, ApproachFields, StormFields
<1>2. \A c \in Commands : SaidOf(a)[c] \in Report
  BY <1>1, SaidFields DEF Commands
<1> QED BY <1>2 DEF SaidOf

\* Before the first fetch there is nothing to report.
LEMMA StormInitSafe == StormInit => StormInv
<1> SUFFICES ASSUME StormInit PROVE StormInv
  OBVIOUS
<1>1. report = AllSilent /\ report \in [Commands -> Report]
  BY SilentFields DEF StormInit, AllSilent
<1>2. page \in [weather : Weather, bulletin : Bulletin] /\ kept = page
  BY DEF StormInit, QuietWeather, NoWeather, NoBulletin, Weather, Bulletin
<1>3. fetched \in [asked : BOOLEAN, pending : SUBSET Pages,
                   weather : Fetch(Weather), bulletin : Fetch(Bulletin)]
  BY DEF StormInit, NothingFetched, Failed, Fetch, NoWeather, NoBulletin, Weather, Bulletin
<1>4. storm \in BOOLEAN /\ warned \in [Areas -> 0 .. MaxSignal] /\ news \in 0 .. MaxNews
  <2>1. 0 \in 0 .. MaxSignal /\ 0 \in 0 .. MaxNews
    BY StormConstants
  <2> QED BY <2>1 DEF StormInit
<1> QED BY <1>1, <1>2, <1>3, <1>4 DEF StormInv, StormTypeOK

\* The weather and the two pages change under the reports.
LEMMA OutsideSafe ==
  ASSUME StormInv, UNCHANGED <<kept, fetched, report>>,
         storm' \in BOOLEAN, warned' \in [Areas -> 0 .. MaxSignal], news' \in 0 .. MaxNews,
         page' \in [weather : Weather, bulletin : Bulletin]
  PROVE  StormInv'
<1>1. StormTypeOK'
  BY DEF StormInv, StormTypeOK
<1>2. \A a : SaidOf(a)' = SaidOf(a)
  BY DEF SaidOf, WatchReport, ApproachReport, StormReport, MatchWindSignal, Listed, Named, Bulletins,
         ApproachActive
<1>3. AllSilent' = AllSilent
  BY DEF AllSilent, Silent
<1> QED BY <1>1, <1>2, <1>3 DEF StormInv

\* A storm rises.
LEMMA RisesSafe ==
  ASSUME StormInv, NEW a \in Areas, NEW s \in 0 .. MaxSignal, StormRises(a, s)
  PROVE  StormInv'
<1>1. storm' \in BOOLEAN /\ page' = page /\ UNCHANGED <<kept, fetched, report>>
  BY DEF StormRises
<1>2. warned' \in [Areas -> 0 .. MaxSignal]
  BY DEF StormRises, StormInv, StormTypeOK
<1>3. news' \in 0 .. MaxNews
  BY StormConstants DEF StormRises, Changes, StormInv, StormTypeOK
<1>4. page' \in [weather : Weather, bulletin : Bulletin]
  BY <1>1 DEF StormInv, StormTypeOK
<1> QED BY <1>1, <1>2, <1>3, <1>4, OutsideSafe

\* A storm passes.
LEMMA PassesSafe ==
  ASSUME StormInv, StormPasses
  PROVE  StormInv'
<1>1. storm' \in BOOLEAN /\ page' = page /\ UNCHANGED <<kept, fetched, report>>
  BY DEF StormPasses
<1>2. warned' \in [Areas -> 0 .. MaxSignal]
  BY StormConstants DEF StormPasses
<1>3. news' \in 0 .. MaxNews
  BY StormConstants DEF StormPasses, Changes, StormInv, StormTypeOK
<1>4. page' \in [weather : Weather, bulletin : Bulletin]
  BY <1>1 DEF StormInv, StormTypeOK
<1> QED BY <1>1, <1>2, <1>3, <1>4, OutsideSafe

\* One of the pages is published.
LEMMA PublishSafe ==
  ASSUME StormInv, PublishWeather \/ PublishBulletin
  PROVE  StormInv'
<1>1. UNCHANGED <<storm, warned, kept, fetched, report, news>>
  BY DEF PublishWeather, PublishBulletin
<1>2. storm \in BOOLEAN /\ page \in [weather : Weather, bulletin : Bulletin]
  BY DEF StormInv, StormTypeOK
<1>3. page' \in [weather : Weather, bulletin : Bulletin]
  <2>1. CASE PublishWeather
    <3>1. PICK position \in BOOLEAN :
            page' = [page EXCEPT !.weather =
                       [panel |-> TRUE, named |-> storm, position |-> storm /\ position]]
      BY <2>1 DEF PublishWeather
    <3> DEFINE new == [panel |-> TRUE, named |-> storm, position |-> storm /\ position]
    <3>2. new \in Weather
      BY <1>2 DEF Weather
    <3>3. page' = [page EXCEPT !.weather = new]
      BY <3>1
    <3> HIDE DEF new
    <3> QED BY <1>2, <3>2, <3>3
  <2>2. CASE PublishBulletin
    <3> DEFINE listed == {r \in (1 .. MaxSignal) \X Areas : r[1] = warned[r[2]]}
    <3>1. PICK more \in SUBSET {r \in (1 .. MaxSignal) \X Areas : r[1] < warned[r[2]]},
               position \in BOOLEAN :
            page' = [page EXCEPT !.bulletin =
                       [pdfs |-> storm, position |-> storm /\ position, signals |-> listed \cup more]]
      BY <2>2 DEF PublishBulletin
    <3> DEFINE new == [pdfs |-> storm, position |-> storm /\ position, signals |-> listed \cup more]
    <3>2. listed \cup more \in SUBSET ((1 .. MaxSignal) \X Areas)
      OBVIOUS
    <3> HIDE DEF listed
    <3>3. new \in Bulletin
      BY <1>2, <3>2 DEF Bulletin
    <3>4. page' = [page EXCEPT !.bulletin = new]
      BY <3>1
    <3> HIDE DEF new
    <3> QED BY <1>2, <3>3, <3>4
  <2> QED BY <2>1, <2>2
<1>4. storm' \in BOOLEAN /\ warned' \in [Areas -> 0 .. MaxSignal] /\ news' \in 0 .. MaxNews
  BY <1>1 DEF StormInv, StormTypeOK
<1> QED BY <1>1, <1>3, <1>4, OutsideSafe

\* A fetch begins, without reports.
LEMMA FetchSafe ==
  ASSUME StormInv, FetchPages
  PROVE  StormInv'
<1>1. report' = AllSilent /\ UNCHANGED <<storm, warned, page, kept, news>>
  BY DEF FetchPages, AllSilent
<1>2. fetched' = [NothingFetched EXCEPT !.asked = TRUE, !.pending = Pages]
  BY DEF FetchPages
<1>3. NothingFetched \in [asked : BOOLEAN, pending : SUBSET Pages,
                          weather : Fetch(Weather), bulletin : Fetch(Bulletin)]
  BY DEF NothingFetched, Failed, Fetch, NoWeather, NoBulletin, Weather, Bulletin
<1>4. fetched' \in [asked : BOOLEAN, pending : SUBSET Pages,
                    weather : Fetch(Weather), bulletin : Fetch(Bulletin)]
  BY <1>2, <1>3
<1>5. report' \in [Commands -> Report]
  BY <1>1, SilentFields DEF AllSilent
<1>6. StormTypeOK'
  BY <1>1, <1>4, <1>5 DEF StormInv, StormTypeOK
<1>7. report' = AllSilent'
  BY <1>1 DEF AllSilent, Silent
<1> QED BY <1>6, <1>7 DEF StormInv

\* The two kinds of result.
LEMMA GotTyped ==
  \A S : \A x \in S : /\ Got(x) \in Fetch(S) /\ Got(x).page = x
                      /\ Failed(x) \in Fetch(S) /\ Failed(x).page = x
  BY DEF Got, Failed, Fetch

\* What is found on a page is a page.
LEMMA FoundTyped ==
  ASSUME NEW source \in [weather : Weather, bulletin : Bulletin]
  PROVE  /\ Found("weather", source) \subseteq Weather
         /\ Found("bulletin", source) \subseteq Bulletin
<1>1. source.weather \in Weather /\ source.bulletin \in Bulletin
  OBVIOUS
<1>2. SynopsisOf(source.weather) \subseteq Weather
  <2>1. PICK w \in Weather : w = source.weather
    BY <1>1
  <2>2. NoWeather \in Weather
    BY DEF NoWeather, Weather
  <2> DEFINE Part(n, o) ==
        [panel |-> w.panel, named |-> w.named /\ n, position |-> w.position /\ o]
  <2>3. \A n, o \in BOOLEAN : Part(n, o) \in Weather
    BY DEF Weather
  <2>4. SynopsisOf(w) = {NoWeather} \cup {Part(n, o) : n, o \in BOOLEAN}
    BY DEF SynopsisOf
  <2> HIDE DEF Part
  <2>5. SynopsisOf(w) \subseteq Weather
    BY <2>2, <2>3, <2>4
  <2> QED BY <2>1, <2>5
<1>3. StormDetailOf(source.bulletin) \subseteq Bulletin
  BY <1>1 DEF StormDetailOf, Bulletin
<1> QED BY <1>2, <1>3 DEF Found

\* A fetch ends: there are no reports yet.
LEMMA ReturnsSafe ==
  ASSUME StormInv, NEW x \in Pages, Returns(x)
  PROVE  StormInv'
<1>1. /\ x \in fetched.pending /\ UNCHANGED <<storm, warned, page, report, news>>
      /\ report = AllSilent
  BY DEF Returns, StormInv
<1>2. /\ page \in [weather : Weather, bulletin : Bulletin]
      /\ kept \in [weather : Weather, bulletin : Bulletin]
      /\ fetched \in [asked : BOOLEAN, pending : SUBSET Pages,
                      weather : Fetch(Weather), bulletin : Fetch(Bulletin)]
  BY DEF StormInv, StormTypeOK
<1>3. kept' \in {kept, [kept EXCEPT ![x] = page[x]]}
  BY DEF Returns
<1>4. PICK result : /\ \/ \E parsed \in Found(x, page) \cup Found(x, kept) : result = Got(parsed)
                       \/ result = Failed(Empty(x))
                    /\ fetched' = [fetched EXCEPT ![x] = result, !.pending = @ \ {x}]
  BY DEF Returns, Ends
<1>5. CASE x = "weather"
  <2>1. Found(x, page) \cup Found(x, kept) \subseteq Weather /\ Empty(x) \in Weather
    BY <1>2, <1>5, FoundTyped DEF Empty, NoWeather, Weather
  <2>2. result \in Fetch(Weather)
    BY <1>4, <2>1, GotTyped, Zenon
  <2>3. fetched' \in [asked : BOOLEAN, pending : SUBSET Pages,
                      weather : Fetch(Weather), bulletin : Fetch(Bulletin)]
    BY <1>2, <1>4, <1>5, <2>2
  <2>4. kept' \in [weather : Weather, bulletin : Bulletin]
    BY <1>2, <1>3, <1>5
  <2> QED BY <1>1, <2>3, <2>4 DEF StormInv, StormTypeOK, AllSilent, Silent
<1>6. CASE x = "bulletin"
  <2>1. Found(x, page) \cup Found(x, kept) \subseteq Bulletin /\ Empty(x) \in Bulletin
    BY <1>2, <1>6, FoundTyped DEF Empty, NoBulletin, Bulletin
  <2>2. result \in Fetch(Bulletin)
    BY <1>4, <2>1, GotTyped, Zenon
  <2>3. fetched' \in [asked : BOOLEAN, pending : SUBSET Pages,
                      weather : Fetch(Weather), bulletin : Fetch(Bulletin)]
    BY <1>2, <1>4, <1>6, <2>2
  <2>4. kept' \in [weather : Weather, bulletin : Bulletin]
    BY <1>2, <1>3, <1>6
  <2> QED BY <1>1, <2>3, <2>4 DEF StormInv, StormTypeOK, AllSilent, Silent
<1> QED BY <1>5, <1>6 DEF Pages

\* The commands answer, of the results there are.
LEMMA AnswerSafe ==
  ASSUME StormInv, NEW a \in Areas, Answer(a)
  PROVE  StormInv'
<1>1. UNCHANGED <<storm, warned, page, kept, fetched, news>> /\ fetched.pending = {}
  BY DEF Answer
<1>2. report' = SaidOf(a)
  BY DEF Answer, SaidOf
<1>3. SaidOf(a)' = SaidOf(a)
  BY <1>1 DEF SaidOf, WatchReport, ApproachReport, StormReport, MatchWindSignal, Listed, Named,
              Bulletins, ApproachActive
<1>4. report' \in [Commands -> Report]
  BY <1>2, SaidTyped DEF StormInv
<1>5. StormTypeOK'
  BY <1>1, <1>4 DEF StormInv, StormTypeOK
<1> QED BY <1>1, <1>2, <1>3, <1>5 DEF StormInv

\* Every step preserves the invariant.
LEMMA StormKept == StormInv /\ [StormNext]_stormVars => StormInv'
<1> SUFFICES ASSUME StormInv, [StormNext]_stormVars PROVE StormInv'
  OBVIOUS
<1>1. CASE \E a \in Areas, s \in 0 .. MaxSignal : StormRises(a, s)
  BY <1>1, RisesSafe
<1>2. CASE \E a \in Areas : Answer(a)
  BY <1>2, AnswerSafe
<1>3. CASE StormPasses
  BY <1>3, PassesSafe
<1>4. CASE PublishWeather \/ PublishBulletin
  BY <1>4, PublishSafe
<1>5. CASE FetchPages
  BY <1>5, FetchSafe
<1>6. CASE \E x \in Pages : Returns(x)
  BY <1>6, ReturnsSafe
<1>7. CASE UNCHANGED stormVars
  <2>1. UNCHANGED <<storm, warned, page, kept, fetched, report, news>>
    BY <1>7 DEF stormVars
  <2>2. /\ storm' \in BOOLEAN /\ warned' \in [Areas -> 0 .. MaxSignal] /\ news' \in 0 .. MaxNews
        /\ page' \in [weather : Weather, bulletin : Bulletin]
    BY <2>1 DEF StormInv, StormTypeOK
  <2> QED BY <2>1, <2>2, OutsideSafe
<1> QED BY <1>1, <1>2, <1>3, <1>4, <1>5, <1>6, <1>7 DEF StormNext

\* Where each page alone would answer, the two that need it agree with the one that needs none,
\* but of a signal.
LEMMA StormAgrees == StormInv => CommandsAgree
<1> SUFFICES ASSUME StormInv, NEW c \in Commands, NEW d \in Commands,
                    report[c].says = "active", report[d].says = "none"
             PROVE  /\ c = "watch" /\ report[c].signal > 0
                    /\ fetched.bulletin.ok /\ ~fetched.bulletin.page.pdfs
  BY DEF CommandsAgree
<1>1. PICK a \in Areas : report = SaidOf(a)
  <2>1. report # AllSilent
    BY SilentFields, SaidFields
  <2> QED BY <2>1 DEF StormInv
<1>2. /\ report["watch"].signal = MatchWindSignal(a)
      /\ report["watch"].says = IF MatchWindSignal(a) > 0 \/ Named \/ Bulletins THEN "active" ELSE "none"
      /\ report["approach"].says = IF ~fetched.weather.ok THEN "error"
                                   ELSE IF Named \/ Bulletins THEN "active" ELSE "none"
      /\ report["storm"].says = IF ~fetched.bulletin.ok THEN "error"
                                ELSE IF Named \/ Bulletins THEN "active" ELSE "none"
  <2>1. StormTypeOK
    BY DEF StormInv
  <2> QED BY <1>1, <2>1, SaidFields, WatchFields, ApproachFields, StormFields
<1>3. ~(Named \/ Bulletins)
  BY <1>2 DEF Commands
<1>4. c = "watch" /\ MatchWindSignal(a) > 0
  BY <1>2, <1>3 DEF Commands
<1>5. Listed(a) # {}
  BY <1>4 DEF MatchWindSignal
<1>6. fetched.bulletin.ok
  BY <1>5 DEF Listed
<1>7. ~fetched.bulletin.page.pdfs
  BY <1>3, <1>6 DEF Bulletins
<1> QED BY <1>2, <1>4, <1>6, <1>7

\* A signal in effect that the bulletin lists is among those watch takes the highest of.
LEMMA StormNotUnderstated == StormInv => SignalNotUnderstated
<1> SUFFICES ASSUME StormInv, report["watch"].says # "nothing", UpToDate
             PROVE  report["watch"].signal >= warned[report["watch"].area]
  BY DEF SignalNotUnderstated
<1>1. PICK a \in Areas : report = SaidOf(a)
  <2>1. report # AllSilent
    BY SilentFields, SaidFields DEF Commands
  <2> QED BY <2>1 DEF StormInv
<1>2. report["watch"].area = a /\ report["watch"].signal = MatchWindSignal(a)
  BY <1>1, SaidFields, WatchFields
<1>3. MatchWindSignal(a) \in 0 .. MaxSignal /\ \A s \in Listed(a) : s <= MatchWindSignal(a)
  BY MatchIsHighest
<1>4. warned[a] \in 0 .. MaxSignal
  BY DEF StormInv, StormTypeOK
<1>5. CASE warned[a] = 0
  BY <1>2, <1>3, <1>5
<1>6. CASE warned[a] # 0
  <2>1. warned[a] \in 1 .. MaxSignal /\ warned[a] > 0
    BY <1>4, <1>6
  <2>2. warned[a] \in Listed(a)
    BY <2>1 DEF UpToDate, Listed
  <2>3. warned[a] <= MatchWindSignal(a)
    BY <1>3, <2>2
  <2> QED BY <1>2, <1>3, <1>4, <2>3
<1> QED BY <1>5, <1>6

\* Every reachable state of the two pages and the three reports is well-typed.
THEOREM StormTypeCorrect == StormSpec => []StormTypeOK
<1>1. StormInv => StormTypeOK
  BY DEF StormInv
<1> QED BY <1>1, StormInitSafe, StormKept, PTL DEF StormSpec

\* No command says that a cyclone is active while another denies it, for any areas and signals,
\* whichever page fails, is old, or is understood in part only; unless watch does, of a signal on
\* a bulletin whose links were not found.
THEOREM StormCommandsAgree == StormSpec => []CommandsAgree
  BY StormAgrees, StormInitSafe, StormKept, PTL DEF StormSpec

\* watch reports no signal below one that is in effect and on the bulletin it read.
THEOREM StormSignalHolds == StormSpec => []SignalNotUnderstated
  BY StormNotUnderstated, StormInitSafe, StormKept, PTL DEF StormSpec

--------------------------------------------------------------------------------
(***************************************************************************)
(* McpPages, for an API of any number of pages of any lengths and any      *)
(* budget of a result.  Before every call that can go on, what the caller  *)
(* was given are exactly the items before the cursor, in order.            *)
(***************************************************************************)

(***************************************************************************)
(* The pages.                                                              *)
(***************************************************************************)

\* The items before an offset of a page of the API.
Reached(u, o) == {i \in Items : i[1] < u \/ (i[1] = u /\ i[2] <= o)}

\* Only the last page names itself.
EndsOnce == \A u \in DOMAIN api : api[u].again => u = Len(api) /\ u > 1

WalkInv ==
  /\ PagesTypeOK /\ EndsOnce
  /\ \A m, n \in DOMAIN given : m < n => Precedes(given[m], given[n])
  /\ cursor \in Cursor => /\ cursor.upstream \in DOMAIN api
                          /\ cursor.offset <= Len(api[cursor.upstream].items)
                          /\ ToSet(given) = Reached(cursor.upstream, cursor.offset)
  /\ \E u, o \in Nat : ToSet(given) = Reached(u, o)
  /\ cursor = NoCursor /\ api[Len(api)].rest + Note <= MaxBytes => ToSet(given) = Items

\* The pages are a list of at least one page, and the items of a page are a list.
LEMMA ApiFields ==
  ASSUME PagesTypeOK
  PROVE  /\ Len(api) \in Nat \ {0} /\ DOMAIN api = 1 .. Len(api) /\ Len(api) <= ApiPages
         /\ \A u \in 1 .. Len(api) :
              /\ Len(api[u].items) \in Nat /\ DOMAIN api[u].items = 1 .. Len(api[u].items)
              /\ Len(api[u].items) <= ApiPageSize
              /\ api[u].rest \in Nat /\ api[u].again \in BOOLEAN
<1>1. PICK n \in 1 .. ApiPages : api \in [1 .. n -> ApiPage]
  BY DEF PagesTypeOK
<1>2. n \in Nat \ {0} /\ api \in Seq(ApiPage) /\ Len(api) = n /\ n <= ApiPages
  BY <1>1, McpPagesAssumption
<1>3. ASSUME NEW u \in 1 .. n
      PROVE  /\ Len(api[u].items) \in Nat /\ DOMAIN api[u].items = 1 .. Len(api[u].items)
             /\ Len(api[u].items) <= ApiPageSize
             /\ api[u].rest \in Nat /\ api[u].again \in BOOLEAN
  <2>1. api[u] \in ApiPage
    BY <1>1
  <2>2. PICK k \in 0 .. ApiPageSize : api[u].items \in [1 .. k -> Sizes]
    BY <2>1 DEF ApiPage
  <2>3. k \in Nat /\ api[u].items \in Seq(Sizes) /\ Len(api[u].items) = k /\ k <= ApiPageSize
    BY <2>2, McpPagesAssumption
  <2> QED BY <2>1, <2>2, <2>3, McpPagesAssumption DEF ApiPage
<1> QED BY <1>1, <1>2, <1>3

\* An item is a page and a place on it.
LEMMA ItemFields ==
  ASSUME PagesTypeOK
  PROVE  /\ \A u \in 1 .. Len(api) : \A k \in 1 .. Len(api[u].items) : <<u, k>> \in Items
         /\ \A i \in Items : /\ i[1] \in 1 .. Len(api) /\ i[2] \in 1 .. Len(api[i[1]].items)
                             /\ i = <<i[1], i[2]>>
                             /\ i \in (1 .. ApiPages) \X (1 .. ApiPageSize)
<1>1. \A u \in 1 .. Len(api) : \A k \in 1 .. Len(api[u].items) : <<u, k>> \in Items
  BY ApiFields DEF Items
<1>2. ASSUME NEW i \in Items
      PROVE  /\ i[1] \in 1 .. Len(api) /\ i[2] \in 1 .. Len(api[i[1]].items) /\ i = <<i[1], i[2]>>
             /\ i \in (1 .. ApiPages) \X (1 .. ApiPageSize)
  <2>1. PICK u \in 1 .. Len(api) : i \in {u} \X (1 .. Len(api[u].items))
    BY ApiFields DEF Items
  <2>2. i[1] = u /\ i[2] \in 1 .. Len(api[u].items) /\ i = <<i[1], i[2]>>
    BY <2>1
  <2>3. u \in 1 .. ApiPages /\ i[2] \in 1 .. ApiPageSize
    <3>1. Len(api) \in Nat /\ Len(api) <= ApiPages /\ Len(api[u].items) \in Nat
          /\ Len(api[u].items) <= ApiPageSize
      BY ApiFields
    <3> QED BY <2>2, <3>1, McpPagesAssumption
  <2> QED BY <2>2, <2>3
<1> QED BY <1>1, <1>2

\* An empty sum.
LEMMA TotalOfNothing == Total(<<>>) = 0
<1> DEFINE Step(g) == [s \in SUBSET {} |->
                         IF s = {} THEN 0 ELSE LET x == Max(s) IN g[s \ {x}] + <<>>[x]]
           sums == CHOOSE g : g = Step(g)
<1>1. \E g : g = Step(g)
  <2>1. [s \in SUBSET {} |-> 0] = Step([s \in SUBSET {} |-> 0])
    OBVIOUS
  <2> QED BY <2>1
<1>2. sums[{}] = 0
  BY <1>1
<1>3. DOMAIN <<>> = {}
  OBVIOUS
<1> QED BY <1>2, <1>3 DEF Total, FoldLeft, MapThenFoldSet

\* A result without items has room if the other fields of the page leave it.
LEMMA RoomForNone ==
  ASSUME PagesTypeOK, cursor.upstream \in 1 .. Len(api), cursor.offset \in Nat, NEW next
  PROVE  Room(0, next) <=>
           api[cursor.upstream].rest + (IF next = NoCursor THEN 0 ELSE Note) <= MaxBytes
<1>1. Chunk(0) = <<>>
  BY DEF Chunk
<1>2. Total(Chunk(0)) = 0
  BY <1>1, TotalOfNothing
<1>3. api[cursor.upstream].rest \in Nat /\ Note \in Nat
  BY ApiFields, McpPagesAssumption
<1> QED BY <1>2, <1>3 DEF Room

\* Where a result with n more items leads: further on the page, to the next page, or nowhere.
LEMMA NextAfterIs ==
  ASSUME PagesTypeOK, EndsOnce, cursor.upstream \in 1 .. Len(api), cursor \in Cursor,
         cursor.offset <= Len(api[cursor.upstream].items), NEW n \in Nat
  PROVE  LET u == cursor.upstream
             o == cursor.offset IN
         /\ o + n < Len(api[u].items) => NextAfter(n) = [offset |-> o + n, upstream |-> u]
         /\ ~(o + n < Len(api[u].items)) /\ u < Len(api) =>
              NextAfter(n) = [offset |-> 0, upstream |-> u + 1]
         /\ ~(o + n < Len(api[u].items)) /\ u = Len(api) => NextAfter(n) = NoCursor
<1> DEFINE u == cursor.upstream
           o == cursor.offset
<1>1. /\ u \in Nat \ {0} /\ o \in Nat /\ Len(api) \in Nat /\ u <= Len(api)
      /\ Len(api[u].items) \in Nat /\ api[u].again \in BOOLEAN /\ DOMAIN api = 1 .. Len(api)
  BY ApiFields DEF Cursor
<1>2. cursor = [offset |-> o, upstream |-> u]
  BY DEF Cursor
<1>3. [cursor EXCEPT !.offset = o + n] = [offset |-> o + n, upstream |-> u]
  BY <1>2
<1>4. u < Len(api) => NextUpstream = u + 1 /\ u + 1 # 0
  BY <1>1 DEF NextUpstream, NamedNext, EndsOnce
<1>5. u = Len(api) => NextUpstream = 0
  <2> SUFFICES ASSUME u = Len(api) PROVE NextUpstream = 0
    OBVIOUS
  <2>1. ~(u < Len(api))
    BY <1>1
  <2>2. NamedNext = u \/ NamedNext = 0
    BY <2>1 DEF NamedNext
  <2> QED BY <2>2 DEF NextUpstream
<1> QED BY <1>1, <1>3, <1>4, <1>5 DEF NextAfter, NextPageCursor

\* At the end of a page everything before the next one is reached, and at the last page everything.
LEMMA PageReached ==
  ASSUME PagesTypeOK, NEW u \in 1 .. Len(api)
  PROVE  /\ Reached(u, Len(api[u].items)) = Reached(u + 1, 0)
         /\ u = Len(api) => Reached(u, Len(api[u].items)) = Items
<1>1. u \in Nat /\ Len(api) \in Nat /\ Len(api[u].items) \in Nat
  BY ApiFields
<1>2. \A i \in Items : /\ i[1] \in 1 .. Len(api) /\ i[2] \in 1 .. Len(api[i[1]].items)
  BY ItemFields
<1>3. \A i \in Items : i[1] \in Nat /\ i[1] <= Len(api) /\ i[2] \in Nat \ {0}
                       /\ (i[1] = u => i[2] <= Len(api[u].items))
  <2> TAKE i \in Items
  <2>1. Len(api[i[1]].items) \in Nat
    BY <1>2, ApiFields
  <2> QED BY <1>1, <1>2, <2>1
<1>4. \A i \in Items : (i[1] < u \/ (i[1] = u /\ i[2] <= Len(api[u].items))) <=>
                         (i[1] < u + 1 \/ (i[1] = u + 1 /\ i[2] <= 0))
  BY <1>1, <1>3
<1>5. Reached(u, Len(api[u].items)) = Reached(u + 1, 0)
  BY <1>4 DEF Reached
<1>6. u = Len(api) => \A i \in Items : i[1] < u \/ (i[1] = u /\ i[2] <= Len(api[u].items))
  BY <1>1, <1>3
<1>7. u = Len(api) => Reached(u, Len(api[u].items)) = Items
  BY <1>6 DEF Reached
<1> QED BY <1>5, <1>7

(***************************************************************************)
(* The calls.                                                              *)
(***************************************************************************)

\* What is known of a call.
LEMMA CallFields ==
  ASSUME WalkInv, cursor \in Cursor
  PROVE  /\ PagesTypeOK /\ EndsOnce
         /\ cursor.upstream \in 1 .. Len(api) /\ cursor.upstream \in Nat \ {0}
         /\ cursor.offset \in Nat
         /\ cursor.offset <= Len(api[cursor.upstream].items)
         /\ Len(api[cursor.upstream].items) \in Nat
         /\ Remaining \in Nat /\ Remaining = Len(api[cursor.upstream].items) - cursor.offset
         /\ ToSet(given) = Reached(cursor.upstream, cursor.offset)
<1>1. PagesTypeOK /\ EndsOnce /\ cursor.upstream \in DOMAIN api
      /\ cursor.offset <= Len(api[cursor.upstream].items)
      /\ ToSet(given) = Reached(cursor.upstream, cursor.offset)
  BY DEF WalkInv
<1>2. cursor.offset \in Nat /\ cursor.upstream \in 1 .. Len(api) /\ Len(api) \in Nat
      /\ Len(api[cursor.upstream].items) \in Nat
  BY <1>1, ApiFields DEF Cursor
<1> QED BY <1>1, <1>2 DEF Remaining

\* A result that leads to where the walk stands after n more items: the whole page is given, or there
\* is more of it to come.
LEMMA WalkGoesOn ==
  ASSUME WalkInv, cursor \in Cursor, UNCHANGED api, NEW n \in Nat, n <= Remaining,
         cursor' = NextAfter(n),
         given' \in Seq((1 .. ApiPages) \X (1 .. ApiPageSize)),
         \A k, m \in DOMAIN given' : k < m => Precedes(given'[k], given'[m]),
         ToSet(given') = Reached(cursor.upstream, cursor.offset + n)
  PROVE  WalkInv'
<1> DEFINE u == cursor.upstream
           o == cursor.offset
           size == Len(api[u].items)
<1>1. /\ PagesTypeOK /\ EndsOnce /\ u \in 1 .. Len(api) /\ u \in Nat \ {0} /\ o \in Nat /\ o <= size
      /\ size \in Nat /\ o + n <= size /\ o + n \in Nat
  BY CallFields
<1>2. Len(api) \in Nat /\ Len(api) <= ApiPages /\ DOMAIN api = 1 .. Len(api) /\ ApiPages \in Nat
      /\ \A v \in 1 .. Len(api) : Len(api[v].items) \in Nat
  BY <1>1, ApiFields, McpPagesAssumption
<1>3. \A v, w : Reached(v, w)' = Reached(v, w)
  BY DEF Reached, Items
<1>4. Items' = Items
  BY DEF Items
<1>5. NoCursor \notin Cursor /\ NoCursor.upstream = 0
  BY DEF NoCursor, Cursor
<1>6. CASE o + n < size
  <2>1. cursor' = [offset |-> o + n, upstream |-> u]
    BY <1>1, <1>6, NextAfterIs
  <2>2. cursor' \in Cursor /\ cursor' # NoCursor
    BY <1>1, <1>2, <1>5, <2>1 DEF Cursor
  <2>3. ToSet(given)' = Reached(cursor.upstream, cursor.offset)'
    BY <2>1, <1>3
  <2>4. \E v, w \in Nat : ToSet(given)' = Reached(v, w)'
    BY <1>1, <1>3
  <2>5. PagesTypeOK'
    BY <1>1, <2>2 DEF PagesTypeOK
  <2>6. cursor'.upstream \in DOMAIN api' /\ cursor'.offset <= Len(api'[cursor'.upstream].items)
    BY <1>1, <1>2, <1>6, <2>1
  <2> QED BY <1>1, <2>2, <2>3, <2>4, <2>5, <2>6 DEF WalkInv, EndsOnce
<1>7. CASE ~(o + n < size) /\ u < Len(api)
  <2>1. cursor' = [offset |-> 0, upstream |-> u + 1]
    BY <1>1, <1>7, NextAfterIs
  <2>2. u + 1 \in 1 .. Len(api) /\ u + 1 \in 1 .. ApiPages
    BY <1>1, <1>2, <1>7
  <2>3. cursor' \in Cursor /\ cursor' # NoCursor
    BY <1>5, <2>1, <2>2 DEF Cursor
  <2>4. o + n = size
    BY <1>1, <1>7
  <2>5. ToSet(given') = Reached(u + 1, 0)
    BY <1>1, <2>4, PageReached
  <2>6. ToSet(given)' = Reached(cursor.upstream, cursor.offset)'
    BY <1>3, <2>1, <2>5
  <2>7. \E v, w \in Nat : ToSet(given)' = Reached(v, w)'
    BY <1>1, <1>3
  <2>8. PagesTypeOK'
    BY <1>1, <2>3 DEF PagesTypeOK
  <2>9. cursor'.upstream \in DOMAIN api' /\ cursor'.offset <= Len(api'[cursor'.upstream].items)
    BY <1>2, <2>1, <2>2
  <2> QED BY <1>1, <2>3, <2>6, <2>7, <2>8, <2>9 DEF WalkInv, EndsOnce
<1>8. CASE ~(o + n < size) /\ u = Len(api)
  <2>1. cursor' = NoCursor
    BY <1>1, <1>8, NextAfterIs
  <2>2. o + n = size
    BY <1>1, <1>8
  <2>3. ToSet(given') = Items
    BY <1>1, <1>8, <2>2, PageReached
  <2>4. \E v, w \in Nat : ToSet(given)' = Reached(v, w)'
    BY <1>1, <1>3
  <2>5. PagesTypeOK'
    BY <1>1, <2>1 DEF PagesTypeOK
  <2> QED BY <1>1, <1>4, <1>5, <2>1, <2>3, <2>4, <2>5 DEF WalkInv, EndsOnce
<1> QED BY <1>1, <1>2, <1>6, <1>7, <1>8

\* A list followed by another.
LEMMA Appended ==
  ASSUME NEW S, NEW s \in Seq(S), NEW t \in Seq(S)
  PROVE  /\ s \o t \in Seq(S)
         /\ DOMAIN s = 1 .. Len(s) /\ DOMAIN (s \o t) = 1 .. Len(s) + Len(t)
         /\ \A k \in 1 .. Len(s) : (s \o t)[k] = s[k]
         /\ \A k \in 1 .. Len(t) : (s \o t)[Len(s) + k] = t[k]
<1>1. s \o t \in Seq(S) /\ Len(s \o t) = Len(s) + Len(t)
  BY ConcatProperties
<1>2. DOMAIN s = 1 .. Len(s) /\ DOMAIN (s \o t) = 1 .. Len(s \o t) /\ Len(s) \in Nat /\ Len(t) \in Nat
  BY <1>1
<1>3. \A k \in 1 .. Len(s) + Len(t) : (s \o t)[k] = IF k <= Len(s) THEN s[k] ELSE t[k - Len(s)]
  BY ConcatProperties
<1>4. \A k \in 1 .. Len(s) : k \in 1 .. Len(s) + Len(t) /\ k <= Len(s)
  BY <1>2
<1>5. \A k \in 1 .. Len(t) : /\ Len(s) + k \in 1 .. Len(s) + Len(t) /\ ~(Len(s) + k <= Len(s))
                            /\ (Len(s) + k) - Len(s) = k
  BY <1>2
<1> QED BY <1>1, <1>2, <1>3, <1>4, <1>5

\* A result with n items: they follow what was given.
LEMMA GivenSafe ==
  ASSUME WalkInv, cursor \in Cursor, UNCHANGED api, NEW n \in Nat, n <= Remaining, Given(n)
  PROVE  WalkInv'
<1> PICK u \in Nat, o \in Nat, size \in Nat, len \in Nat :
      /\ u = cursor.upstream /\ o = cursor.offset /\ len = Len(given)
      /\ size = Len(api[u].items) /\ o + n <= size
  <2> DEFINE v == cursor.upstream
  <2>1. PagesTypeOK /\ v \in Nat \ {0} /\ cursor.offset \in Nat /\ Len(api[v].items) \in Nat
        /\ cursor.offset + n <= Len(api[v].items)
    BY CallFields
  <2>2. Len(given) \in Nat
    BY <2>1 DEF PagesTypeOK
  <2> QED BY <2>1, <2>2
<1> DEFINE more == [k \in 1 .. n |-> <<u, o + k>>]
           Place == (1 .. ApiPages) \X (1 .. ApiPageSize)
<1>1. /\ PagesTypeOK /\ u \in 1 .. Len(api)
      /\ ToSet(given) = Reached(u, o) /\ given \in Seq(Place)
  BY CallFields DEF PagesTypeOK
<1>2. \A k \in 1 .. n : o + k \in 1 .. size
  OBVIOUS
<1>3. \A k \in 1 .. n : <<u, o + k>> \in Items /\ <<u, o + k>> \in Place
  BY <1>1, <1>2, ItemFields
<1>4. more \in Seq(Place) /\ Len(more) = n
  <2>1. \A k \in 1 .. n : <<u, o + k>> \in Place
    BY <1>3
  <2> HIDE DEF Place
  <2>2. more \in [1 .. n -> Place]
    BY <2>1
  <2> HIDE DEF more
  <2> QED BY <2>2
<1>5. given' = given \o more /\ cursor' = NextAfter(n)
  BY DEF Given
<1>6. /\ given' \in Seq(Place) /\ DOMAIN given = 1 .. len /\ DOMAIN given' = 1 .. len + n
      /\ \A k \in 1 .. len : given'[k] = given[k]
      /\ \A k \in 1 .. n : given'[len + k] = <<u, o + k>>
  <2> HIDE DEF Place
  <2>1. \A k \in 1 .. n : more[k] = <<u, o + k>>
    OBVIOUS
  <2> HIDE DEF more
  <2>2. given \in Seq(Place) /\ more \in Seq(Place) /\ Len(more) = n /\ given' = given \o more
    BY <1>1, <1>4, <1>5 DEF Place
  <2>3. given' \in Seq(Place) /\ DOMAIN given = 1 .. len /\ DOMAIN given' = 1 .. len + n
    BY <2>2, Appended
  <2>4. \A k \in 1 .. len : given'[k] = given[k]
    BY <2>2, Appended
  <2>5. \A k \in 1 .. n : given'[len + k] = more[k]
    BY <2>2, Appended
  <2> QED BY <2>1, <2>3, <2>4, <2>5
<1>7. \A k \in 1 .. len + n : k \in 1 .. len \/ \E l \in 1 .. n : k = len + l
  <2> TAKE k \in 1 .. len + n
  <2>1. CASE k > len
    <3>1. k - len \in 1 .. n /\ k = len + (k - len)
      BY <2>1
    <3> QED BY <3>1
  <2> QED BY <2>1
<1>8. \A k \in 1 .. len : given[k] \in Reached(u, o)
  BY <1>1, <1>6 DEF ToSet
<1>9. ToSet(given') = Reached(u, o + n)
  <2>1. ToSet(given') = ToSet(given) \cup {<<u, o + l>> : l \in 1 .. n}
    <3>1. ASSUME NEW i \in ToSet(given')
          PROVE  i \in ToSet(given) \cup {<<u, o + l>> : l \in 1 .. n}
      <4>1. PICK k \in 1 .. len + n : i = given'[k]
        BY <1>6 DEF ToSet
      <4>2. CASE k \in 1 .. len
        BY <1>6, <4>1, <4>2 DEF ToSet
      <4>3. ASSUME NEW l \in 1 .. n, k = len + l PROVE i \in {<<u, o + j>> : j \in 1 .. n}
        <5>1. i = <<u, o + l>>
          BY <1>6, <4>1, <4>3
        <5> QED BY <5>1
      <4> QED BY <1>7, <4>2, <4>3
    <3>2. ToSet(given) \subseteq ToSet(given')
      <4>1. 1 .. len \subseteq 1 .. len + n
        OBVIOUS
      <4> QED BY <1>6, <4>1 DEF ToSet
    <3>3. \A l \in 1 .. n : len + l \in 1 .. len + n
      OBVIOUS
    <3>4. {<<u, o + l>> : l \in 1 .. n} \subseteq ToSet(given')
      BY <1>6, <3>3 DEF ToSet
    <3> QED BY <3>1, <3>2, <3>4
  <2>2. ASSUME NEW i \in Items
        PROVE  i \in Reached(u, o + n) <=>
                 i \in Reached(u, o) \/ \E l \in 1 .. n : i = <<u, o + l>>
    <3>1. i[1] \in Nat /\ i[2] \in Nat /\ i = <<i[1], i[2]>>
      BY <1>1, ItemFields, ApiFields
    <3>2. ASSUME i[1] = u, o < i[2], i[2] <= o + n PROVE \E l \in 1 .. n : i = <<u, o + l>>
      <4>1. i[2] - o \in 1 .. n /\ i[2] = o + (i[2] - o)
        BY <1>1, <3>1, <3>2
      <4> QED BY <3>1, <3>2, <4>1
    <3>3. ASSUME NEW l \in 1 .. n, i = <<u, o + l>> PROVE i[1] = u /\ i[2] <= o + n
      BY <1>1, <3>3
    <3>4. o <= o + n
      BY <1>1
    <3> QED BY <1>1, <3>1, <3>2, <3>3, <3>4 DEF Reached
  <2>3. Reached(u, o) \subseteq Items /\ Reached(u, o + n) \subseteq Items
    BY DEF Reached
  <2> QED BY <1>1, <1>3, <2>1, <2>2, <2>3
<1>10. \A k, m \in 1 .. len + n : k < m => Precedes(given'[k], given'[m])
  <2> SUFFICES ASSUME NEW k \in 1 .. len + n, NEW m \in 1 .. len + n, k < m
               PROVE  Precedes(given'[k], given'[m])
    OBVIOUS
  <2>1. CASE m \in 1 .. len
    <3>1. k \in 1 .. len
      BY <2>1
    <3> QED BY <1>6, <2>1, <3>1 DEF WalkInv
  <2>2. ASSUME NEW l \in 1 .. n, m = len + l PROVE Precedes(given'[k], given'[m])
    <3>1. given'[m] = <<u, o + l>>
      BY <1>6, <2>2
    <3>2. CASE k \in 1 .. len
      <4>1. given'[k] = given[k] /\ given[k] \in Reached(u, o)
        BY <1>6, <1>8, <3>2
      <4>2. given[k][1] < u \/ (given[k][1] = u /\ given[k][2] <= o)
        BY <4>1 DEF Reached
      <4>3. given[k][2] \in Nat /\ o < o + l
        <5>1. given[k] \in Items
          BY <4>1 DEF Reached
        <5>2. given[k][2] \in 1 .. ApiPageSize
          BY <1>1, <5>1, ItemFields
        <5>3. \A i \in 1 .. ApiPageSize : i \in Nat
          BY McpPagesAssumption
        <5>4. o < o + l
          BY <2>2
        <5> QED BY <5>2, <5>3, <5>4
      <4> QED BY <3>1, <4>1, <4>2, <4>3 DEF Precedes
    <3>3. ASSUME NEW j \in 1 .. n, k = len + j PROVE Precedes(given'[k], given'[m])
      <4>1. o + j < o + l
        BY <2>2, <3>3
      <4>2. given'[k] = <<u, o + j>>
        BY <1>6, <3>3
      <4> QED BY <3>1, <4>1, <4>2 DEF Precedes
    <3> QED BY <1>7, <3>2, <3>3
  <2> QED BY <1>7, <2>1, <2>2
<1> HIDE DEF more, Place
<1> QED BY <1>5, <1>6, <1>9, <1>10, WalkGoesOn DEF Place

\* A result without items: the page has none left, or is too long without its list.
LEMMA NothingGivenSafe ==
  ASSUME WalkInv, cursor \in Cursor, UNCHANGED <<api, given>>,
         Remaining > 0 => ~Room(0, NextAfter(1)),
         cursor' = IF Room(0, NextAfter(Remaining)) THEN NextAfter(Remaining) ELSE NotResumable
  PROVE  WalkInv'
<1> DEFINE u == cursor.upstream
           o == cursor.offset
<1>1. /\ PagesTypeOK /\ EndsOnce /\ u \in 1 .. Len(api) /\ u \in Nat \ {0} /\ o \in Nat
      /\ o <= Len(api[u].items) /\ Len(api[u].items) \in Nat
      /\ Remaining \in Nat /\ Remaining = Len(api[u].items) - o
      /\ ToSet(given) = Reached(u, o)
  BY CallFields
<1>2. Len(api) \in Nat /\ DOMAIN api = 1 .. Len(api) /\ api[u].rest \in Nat /\ Note \in Nat
      /\ MaxBytes \in Nat
  BY <1>1, ApiFields, McpPagesAssumption
<1>3. given \in Seq((1 .. ApiPages) \X (1 .. ApiPageSize))
      /\ \A k, m \in DOMAIN given : k < m => Precedes(given[k], given[m])
  BY DEF WalkInv, PagesTypeOK
<1>4. ASSUME cursor' \in {NoCursor, NotResumable},
             cursor' = NoCursor => api[Len(api)].rest + Note > MaxBytes
      PROVE  WalkInv'
  <2>1. cursor' \notin Cursor
    BY <1>4 DEF NoCursor, NotResumable, Cursor
  <2>2. PagesTypeOK'
    BY <1>1, <1>4 DEF PagesTypeOK
  <2>3. \E v, w \in Nat : ToSet(given)' = Reached(v, w)'
    <3>1. ToSet(given') = ToSet(given) /\ \A v, w \in Nat : Reached(v, w)' = Reached(v, w)
      BY DEF Reached, Items
    <3> QED BY <1>1, <3>1
  <2>4. ~(cursor' = NoCursor /\ api'[Len(api')].rest + Note <= MaxBytes)
    <3>1. api[Len(api)].rest \in Nat
      BY <1>1, ApiFields
    <3> QED BY <1>2, <1>4, <3>1
  <2> QED BY <1>1, <1>3, <2>1, <2>2, <2>3, <2>4 DEF WalkInv, EndsOnce
<1>5. CASE ~Room(0, NextAfter(Remaining))
  <2>1. NotResumable # NoCursor
    BY DEF NotResumable, NoCursor
  <2> QED BY <1>4, <1>5, <2>1
<1>6. CASE Room(0, NextAfter(Remaining)) /\ Remaining = 0
  <2>1. cursor' = NextAfter(0) /\ o + 0 = o
    BY <1>1, <1>6
  <2> QED BY <1>1, <1>3, <1>6, <2>1, WalkGoesOn
<1>7. CASE Room(0, NextAfter(Remaining)) /\ Remaining > 0
  <2>1. ~Room(0, NextAfter(1)) /\ cursor' = NextAfter(Remaining)
    BY <1>7
  <2>2. api[u].rest + Note > MaxBytes
    <3>1. ~(api[u].rest + (IF NextAfter(1) = NoCursor THEN 0 ELSE Note) <= MaxBytes)
      BY <1>1, <2>1, RoomForNone
    <3> QED BY <1>2, <3>1
  <2>3. NextAfter(Remaining) = NoCursor
    <3>1. api[u].rest + (IF NextAfter(Remaining) = NoCursor THEN 0 ELSE Note) <= MaxBytes
      BY <1>1, <1>7, RoomForNone
    <3> QED BY <1>2, <2>2, <3>1
  <2>4. u = Len(api)
    <3>1. ~(o + Remaining < Len(api[u].items))
      BY <1>1
    <3>2. u < Len(api) => NextAfter(Remaining) = [offset |-> 0, upstream |-> u + 1]
      BY <1>1, <3>1, NextAfterIs
    <3>3. NoCursor.upstream = 0
      BY DEF NoCursor
    <3> QED BY <1>1, <1>2, <2>3, <3>2, <3>3
  <2> QED BY <1>4, <2>1, <2>2, <2>3, <2>4
<1> QED BY <1>1, <1>5, <1>6, <1>7

\* At first nothing is given, and the walk stands before the first item.
LEMMA PagesInitSafe == PagesInit => WalkInv
<1> SUFFICES ASSUME PagesInit PROVE WalkInv
  OBVIOUS
<1>1. PagesTypeOK
  <2>1. ApiPages \in Nat \ {0}
    BY McpPagesAssumption DEF PagesInit
  <2> QED BY <2>1 DEF PagesInit, PagesTypeOK, Cursor
<1>2. /\ Len(api) \in Nat \ {0} /\ DOMAIN api = 1 .. Len(api)
      /\ \A u \in 1 .. Len(api) : Len(api[u].items) \in Nat
  BY <1>1, ApiFields
<1>3. cursor = [offset |-> 0, upstream |-> 1] /\ given = <<>>
  BY DEF PagesInit
<1>4. Reached(1, 0) = {}
  <2>1. \A i \in Items : i[1] \in 1 .. Len(api) /\ i[2] \in 1 .. Len(api[i[1]].items)
    BY <1>1, ItemFields
  <2>2. \A i \in Items : ~(i[1] < 1) /\ ~(i[2] <= 0)
    BY <1>2, <2>1
  <2> QED BY <2>2 DEF Reached
<1>5. ToSet(given) = {} /\ DOMAIN given = {}
  BY <1>3 DEF ToSet
<1>6. cursor.upstream \in DOMAIN api /\ cursor.offset <= Len(api[cursor.upstream].items)
      /\ cursor # NoCursor /\ cursor.upstream = 1 /\ cursor.offset = 0
  BY <1>2, <1>3 DEF NoCursor
<1> QED BY <1>1, <1>4, <1>5, <1>6 DEF PagesInit, WalkInv, EndsOnce

\* Every call keeps the invariant.
LEMMA PagesKept == WalkInv /\ [CallTool]_pagesVars => WalkInv'
<1> SUFFICES ASSUME WalkInv, [CallTool]_pagesVars PROVE WalkInv'
  OBVIOUS
<1>1. CASE CallTool
  <2>1. cursor \in Cursor /\ UNCHANGED api /\ Remaining \in Nat
    BY <1>1, CallFields DEF CallTool
  <2>2. ASSUME NEW n \in Fitting, Given(n) PROVE WalkInv'
    <3>1. n \in Nat /\ n <= Remaining
      BY McpPagesAssumption DEF Fitting
    <3> QED BY <2>1, <2>2, <3>1, GivenSafe
  <2>3. ASSUME Remaining > 0, Given(1) PROVE WalkInv'
    BY <2>1, <2>3, GivenSafe
  <2>4. ASSUME Remaining > 0 => ~Room(0, NextAfter(1)),
               cursor' = IF Room(0, NextAfter(Remaining)) THEN NextAfter(Remaining)
                         ELSE NotResumable,
               UNCHANGED given
        PROVE  WalkInv'
    BY <2>1, <2>4, NothingGivenSafe
  <2> QED BY <1>1, <2>2, <2>3, <2>4 DEF CallTool
<1>2. CASE UNCHANGED pagesVars
  <2>1. api' = api /\ cursor' = cursor /\ given' = given
    BY <1>2 DEF pagesVars
  <2>2. Items' = Items /\ \A v, w : Reached(v, w)' = Reached(v, w)
    BY <2>1 DEF Reached, Items
  <2>3. PagesTypeOK' /\ EndsOnce'
    BY <2>1 DEF WalkInv, PagesTypeOK, EndsOnce
  <2> QED BY <2>1, <2>2, <2>3 DEF WalkInv
<1> QED BY <1>1, <1>2

\* Nothing before a given item is missing.
LEMMA PagesComplete == WalkInv => WalkIsComplete
<1> SUFFICES ASSUME WalkInv PROVE WalkIsComplete
  OBVIOUS
<1>1. PICK u, o \in Nat : ToSet(given) = Reached(u, o)
  BY DEF WalkInv
<1>2. ASSUME NEW n \in DOMAIN given, NEW i \in Items, Precedes(i, given[n]) PROVE i \in ToSet(given)
  <2>1. given[n] \in Reached(u, o)
    BY <1>1 DEF ToSet
  <2>2. \A j \in Items : j[1] \in Nat /\ j[2] \in Nat
    BY ItemFields, ApiFields DEF WalkInv
  <2> QED BY <1>1, <1>2, <2>1, <2>2 DEF Reached, Precedes
<1> QED BY <1>2 DEF WalkInv, WalkIsComplete

\* The pages, the cursor and what was given are well typed.
THEOREM PagesTypeCorrect == PagesSpec => []PagesTypeOK
<1>1. WalkInv => PagesTypeOK
  BY DEF WalkInv
<1> QED BY <1>1, PagesInitSafe, PagesKept, PTL DEF PagesSpec

\* A walk through any pages, with any limits of a result, gives every item once and in order.
THEOREM PagesWalkIsComplete == PagesSpec => []WalkIsComplete
  BY PagesComplete, PagesInitSafe, PagesKept, PTL DEF PagesSpec

================================================================================
