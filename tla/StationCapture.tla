---------------------------- MODULE StationCapture -----------------------------
(***************************************************************************)
(* obs, obs --capture and obs history (internal/cli/obs.go) over the       *)
(* aws_obs table (internal/store/aws_obs.go).  PAGASA publishes the last   *)
(* reading of each station only; a schedule of captures keeps the series.  *)
(*                                                                         *)
(* The page and its editors are external: a station's reading is replaced  *)
(* by a newer one, or corrected under the stamp it has, or its stamp       *)
(* cannot be read.  A reading is its value; its name and units play no     *)
(* part.                                                                   *)
(***************************************************************************)
EXTENDS Integers, FiniteSets

CONSTANTS
  Stations,
  Values,     \* readings
  Schedulers, \* processes that capture
  Retention,  \* DefaultAWSObsRetention, in steps of the clock
  LastDay,
  MaxEdits,   \* edits of the page
  MaxVisits   \* fetches of it

ASSUME CaptureAssumption ==
  /\ IsFiniteSet(Stations)
  /\ Retention \in Nat /\ LastDay \in Nat /\ MaxEdits \in Nat
  /\ MaxVisits \in Nat

VARIABLES
  table,    \* table[s]: what the page lists for station s
  obs,      \* aws_obs
  capture,  \* capture[p]: how far the capture of process p is
  day,
  edits,
  visits,   \* pages fetched so far
  newest    \* (for the properties) newest[s]: the reading of s in the page fetched last among
            \* those stored, and whether an older page has since been stored over it

captureVars == <<table, obs, capture, day, edits, visits, newest>>

Days == 0 .. LastDay
NoStamp == LastDay + 1
Reading == [station : Stations, at : Days \cup {NoStamp}, value : Values]
Observation == [station : Stations, at : Days, value : Values]
Latest == [visit : Nat, reading : Observation, overtaken : BOOLEAN]
Unseen == [visit |-> 0]

Capture == [pc : {"idle", "fetched", "stored"}, page : SUBSET Reading, visit : Nat]
Resting == [pc |-> "idle", page |-> {}, visit |-> 0]

CaptureTypeOK ==
  /\ table \in [Stations -> Reading] /\ obs \subseteq Observation
  /\ capture \in [Schedulers -> Capture]
  /\ day \in Days /\ edits \in 0 .. MaxEdits /\ visits \in 0 .. MaxVisits
  /\ newest \in [Stations -> {Unseen} \cup Latest]

CaptureInit ==
  /\ \E v \in Values : table = [s \in Stations |-> [station |-> s, at |-> 0, value |-> v]]
  /\ obs = {} /\ capture = [p \in Schedulers |-> Resting]
  /\ day = 0 /\ edits = 0 /\ visits = 0
  /\ newest = [s \in Stations |-> Unseen]

\* Not this program: PAGASA replaces or corrects a reading, or garbles its stamp.
PageEdited(s) ==
  /\ edits < MaxEdits /\ edits' = edits + 1
  /\ \E at \in {table[s].at, day, NoStamp}, v \in Values :
       table' = [table EXCEPT ![s] = [station |-> s, at |-> at, value |-> v]]
  /\ UNCHANGED <<obs, capture, day, visits, newest>>

NextDay ==
  /\ day < LastDay /\ day' = day + 1
  /\ UNCHANGED <<table, obs, capture, edits, visits, newest>>

\* fetchAWSStations, past the cache, and filterAWSStations.  A fetch that fails, or finds no row it
\* can parse, ends the command.
Fetched(p, S) ==
  /\ capture[p] = Resting
  /\ visits < MaxVisits /\ visits' = visits + 1
  /\ capture' = [capture EXCEPT ![p] =
                   [pc |-> "fetched", page |-> {table[s] : s \in S}, visit |-> visits + 1]]
  /\ UNCHANGED <<table, obs, day, edits, newest>>

\* Readings with no stamp are skipped.
Stamped(page) == {r \in page : r.at # NoStamp}
SameObservation(r, t) == r.station = t.station /\ r.at = t.at

\* Mutant of Upserted: a row that is there stays as it is.
InsertedOnly(rows, page) ==
  rows \cup {r \in page : ~\E o \in rows : SameObservation(o, r)}

\* INSERT ... ON CONFLICT (station_id, observed_at) DO UPDATE
Upserted(rows, page) == {o \in rows : ~\E r \in page : SameObservation(o, r)} \cup page

\* (For the properties.)
Noted(s, page, visit) ==
  LET of == {r \in page : r.station = s} IN
  IF of = {} THEN newest[s]
  ELSE LET r == CHOOSE r \in of : TRUE IN
       IF newest[s].visit < visit THEN [visit |-> visit, reading |-> r, overtaken |-> FALSE]
       ELSE [newest[s] EXCEPT !.overtaken = @ \/ SameObservation(newest[s].reading, r)]

\* captureAWSStations, UpsertAWSObsBatch: one transaction.
Stored(p) ==
  LET page == Stamped(capture[p].page) IN
  /\ capture[p].pc = "fetched"
  /\ obs' = Upserted(obs, page)
  /\ newest' = [s \in Stations |-> Noted(s, page, capture[p].visit)]
  /\ capture' = [capture EXCEPT ![p] = [@ EXCEPT !.pc = "stored", !.page = {}]]
  /\ UNCHANGED <<table, day, edits, visits>>

\* PruneAWSObs goes by the time of the observation.
Pruned(p) ==
  /\ capture[p].pc = "stored"
  /\ obs' = {o \in obs : o.at >= day - Retention}
  /\ capture' = [capture EXCEPT ![p] = Resting]
  /\ UNCHANGED <<table, day, edits, visits, newest>>

\* An obs without --capture, an error, or a kill.
CaptureStops(p) ==
  /\ capture[p] # Resting
  /\ capture' = [capture EXCEPT ![p] = Resting]
  /\ UNCHANGED <<table, obs, day, edits, visits, newest>>

CaptureNext ==
  \/ \E s \in Stations : PageEdited(s)
  \/ \E p \in Schedulers : \/ \E S \in SUBSET Stations \ {{}} : Fetched(p, S)
                           \/ Stored(p) \/ Pruned(p) \/ CaptureStops(p)
  \/ NextDay

CaptureSpec == CaptureInit /\ [][CaptureNext]_captureVars

\* obs history, for one station: the newest first.
History(s, limit) ==
  LET rows == {o \in obs : o.station = s} IN
  {o \in rows : Cardinality({n \in rows : n.at > o.at}) < limit}

\* While it is within retention, what the last fetched page said of a station comes first in its
\* history: "corrected re-scrapes win", captures for one station only, killed ones and prunes of
\* others notwithstanding.  Only a capture that fetched earlier and stores later under the same
\* stamp can undo a correction.
CorrectionsWin ==
  \A s \in Stations :
    newest[s] # Unseen /\ ~newest[s].overtaken /\ newest[s].reading.at >= day - Retention =>
      History(s, 1) = {newest[s].reading}
=============================================================================
