----------------------------- MODULE RecallSurface -----------------------------
(***************************************************************************)
(* The candidates section of a recall (surfaceCandidates in                *)
(* internal/learn/recall.go): of the open candidates a bounded query takes *)
(* the first ScanLimit, knowing families and sightings; the program then   *)
(* ranks those, knowing in addition the commands the playbook of the       *)
(* family runs, and shows the first ShownCap.  An agent confirms what it   *)
(* is shown, by id.                                                        *)
(***************************************************************************)
EXTENDS Integers, FiniteSets

CONSTANTS
  SurfaceFamilies,  \* query families
  Paths,            \* command paths
  ShownCap,         \* candidateSurfaceCap
  ScanLimit,        \* candidateScanLimit
  MaxCandidates,    \* candidates ever derived
  MaxSightings,     \* sightings of one candidate
  MaxSeen           \* readings of the clock

VARIABLES
  open,    \* the rows of learn_candidates with status 'open'
  book,    \* book[f]: the command paths run by the playbook of family f
  derived, \* the last id given
  now      \* the clock, in seconds: the resolution of last_seen_at

surfaceVars == <<open, book, derived, now>>

ASSUME SurfaceAssumption ==
  /\ ShownCap \in Nat \ {0} /\ ScanLimit \in Nat /\ ShownCap <= ScanLimit
  /\ MaxCandidates \in Nat /\ MaxSightings \in Nat \ {0} /\ MaxSeen \in Nat

NoFamily == "no family"   \* of a query that is all entities, or of a correction outside one
NoPath == "no path"

CandidateScan == [id : 1 .. MaxCandidates, family : SurfaceFamilies \cup {NoFamily},
                  path : Paths \cup {NoPath}, sightings : 1 .. MaxSightings, seen : 0 .. MaxSeen]

\* Of a stored playbook recall uses the steps that parse: none, if its text does not.
StoredBook == SUBSET Paths

SurfaceTypeOK ==
  /\ open \subseteq CandidateScan
  /\ book \in [SurfaceFamilies \cup {NoFamily} -> StoredBook]
  /\ derived \in 0 .. MaxCandidates /\ now \in 0 .. MaxSeen

SurfaceInit ==
  /\ open = {} /\ derived = 0 /\ now = 0
  /\ book = [f \in SurfaceFamilies \cup {NoFamily} |-> {}]

Anchored(f, r) == f # NoFamily /\ r.family = f

\* ORDER BY sightings DESC, last_seen_at DESC, id
SeenMore(r, s) ==
  \/ r.sightings > s.sightings
  \/ r.sightings = s.sightings /\ r.seen > s.seen
  \/ r.sightings = s.sightings /\ r.seen = s.seen /\ r.id < s.id

\* Mutant of ScannedBefore: the query orders by sightings only, and the program ranks the rest.
ScannedBySightings(f, r, s) == SeenMore(r, s)

\* ORDER BY CASE WHEN query_family = ? THEN 0 ELSE 1 END, ...
ScannedBefore(f, r, s) ==
  IF Anchored(f, r) = Anchored(f, s) THEN SeenMore(r, s) ELSE Anchored(f, r)

Scanned(f) ==
  {r \in open : Cardinality({s \in open : ScannedBefore(f, s, r)}) < ScanLimit}

\* playbookUsesCommandPath, of the playbook recall has attached
UsesPath(f, path) == path \in book[f]

Tier(f, r) == IF Anchored(f, r) THEN 0 ELSE IF UsesPath(f, r.path) THEN 1 ELSE 2

RankedBefore(f, r, s) ==
  IF Tier(f, r) = Tier(f, s) THEN SeenMore(r, s) ELSE Tier(f, r) < Tier(f, s)

Surfaced(f) ==
  {r \in Scanned(f) : Cardinality({s \in Scanned(f) : RankedBefore(f, s, r)}) < ShownCap}

\* DeriveCandidate: a new signature, or one more sighting of an open row.
Sighted(f, path) ==
  /\ \/ /\ derived < MaxCandidates
        /\ derived' = derived + 1
        /\ open' = open \cup {[id |-> derived + 1, family |-> f, path |-> path, sightings |-> 1, seen |-> now]}
     \/ \E r \in open :
          /\ r.family = f /\ r.path = path /\ r.sightings < MaxSightings
          /\ open' = (open \ {r}) \cup {[r EXCEPT !.sightings = @ + 1, !.seen = now]}
          /\ UNCHANGED derived
  /\ UNCHANGED <<book, now>>

\* The second step of next_action: the id of a row that was shown.
ConfirmShown(f) ==
  /\ \E r \in Surfaced(f) : open' = open \ {r}
  /\ UNCHANGED <<book, derived, now>>

StoreBook(f) ==
  /\ \E b \in StoredBook : book' = [book EXCEPT ![f] = b]
  /\ UNCHANGED <<open, derived, now>>

ClockTicks ==
  /\ now < MaxSeen /\ now' = now + 1
  /\ UNCHANGED <<open, book, derived>>

SurfaceNext ==
  \/ \E f \in SurfaceFamilies \cup {NoFamily}, path \in Paths \cup {NoPath} : Sighted(f, path)
  \/ \E f \in SurfaceFamilies \cup {NoFamily} : ConfirmShown(f)
  \/ \E f \in SurfaceFamilies : StoreBook(f)
  \/ ClockTicks

SurfaceSpec == SurfaceInit /\ [][SurfaceNext]_surfaceVars

\* The two bounds together hide no candidate that should come first: a row of the asked family is
\* left out only for rows of that family, and no row, of whatever tier, for one of the same tier
\* that was seen less often, so that proven rows come back session after session.
ProvenIsShown ==
  \A f \in SurfaceFamilies \cup {NoFamily} :
    \A r \in open \ Surfaced(f), s \in Surfaced(f) :
      /\ Anchored(f, r) => Anchored(f, s)
      /\ Tier(f, r) = Tier(f, s) => r.sightings <= s.sightings
=============================================================================
