--------------------------- MODULE WeatherHistory -----------------------------
(***************************************************************************)
(* The commands now and digest (internal/cli/now.go, digest.go): what they *)
(* read through the response cache becomes a snapshot in the local store,  *)
(* from which history and drift are answered.                              *)
(*                                                                         *)
(* A snapshot is filed under the time it claims.  digest takes that time   *)
(* before its pages are fetched, now when it saves.                        *)
(***************************************************************************)
EXTENDS ResponseCache

CONSTANT MaxSnapshots  \* commands that save one

ASSUME HistoryAssumption == MaxSnapshots \in Nat

VARIABLES
  history,  \* the snapshots: [at |-> captured_at, asOf |-> when the content was true]
  saved     \* how many were saved

historyVars == <<cacheVars, history, saved>>

Snapshot == [at : Nat, asOf : Nat]

HistoryTypeOK == CacheTypeOK /\ history \subseteq Snapshot /\ saved \in 0 .. MaxSnapshots

HistoryInit == CacheInit /\ history = {} /\ saved = 0

\* The row of the same second is replaced.
Filed(snapshots, s) == {t \in snapshots : t.at # s.at} \cup {s}

CapturedAt(p, digest) == IF digest THEN reader[p].since ELSE time

\* saveSnapshot: best effort.  now saves nothing when the page was empty or garbled, digest
\* saves what it could parse: nothing of such a page, which history and drift pass over.
Save(p, digest) ==
  /\ reader[p].pc = "got" /\ saved < MaxSnapshots /\ reader[p].body.whole
  /\ history' = Filed(history, [at |-> CapturedAt(p, digest), asOf |-> reader[p].body.asOf])
  /\ saved' = saved + 1
  /\ reader' = [reader EXCEPT ![p] = IdleReader]
  /\ UNCHANGED <<time, server, file, cleared, overlaps, kills>>

\* A command that only reads, or whose snapshot could not be saved.
Done(p) ==
  /\ reader[p].pc = "got"
  /\ reader' = [reader EXCEPT ![p] = IdleReader]
  /\ UNCHANGED <<time, server, file, cleared, overlaps, kills, history, saved>>

HistoryNext ==
  \/ \E p \in Readers :
       \/ CacheStep(p) /\ UNCHANGED <<history, saved>>
       \/ \E digest \in BOOLEAN : Save(p, digest)
       \/ Done(p)
  \/ TimePasses /\ UNCHANGED <<history, saved>>

HistorySpec == HistoryInit /\ [][HistoryNext]_historyVars

\* history and drift list the snapshots by captured_at.  Of two that are further apart than the
\* cache's lifetime and two calls the later one tells the later weather, although one may come
\* from the cache and the other from a slow fetch: drift shows no change backwards.
DriftInOrder ==
  \A s, t \in history :
    s.at + CacheTTL + 2 * CommandTimeout < t.at => s.asOf <= t.asOf
=============================================================================
