------------------------------ MODULE StoreOpen -------------------------------
(***************************************************************************)
(* Opening the local SQLite store (internal/store/store.go): processes of  *)
(* different releases check, migrate and stamp one database file at once.  *)
(*                                                                         *)
(* The whole migration is one BEGIN IMMEDIATE transaction, so its effect   *)
(* appears with its commit or, after an error or a crash, not at all.      *)
(* BEGIN and COMMIT are retried while the file is busy, until a deadline.  *)
(***************************************************************************)
EXTENDS Integers, FiniteSets

CONSTANTS
  Procs, NoProc,
  Binary,     \* Binary[p]: the StoreSchemaVersion of the release p runs
  Rows,       \* resources
  Found,      \* the schema versions a first open may find
  MaxRetries  \* busy answers before the deadline of retryOnBusy

FTSContentVersion == 4  \* resourcesFTSContentSchemaVersion

\* Releases older than the last rewrite of the search index are no longer around.
ASSUME ReleasesAssumption ==
  /\ Binary \in [Procs -> {v \in Nat : v >= FTSContentVersion}]
  /\ Found \subseteq Nat
  /\ MaxRetries \in Nat
  /\ NoProc \notin Procs

VARIABLES
  db,      \* the committed content of the file
  writer,  \* the process that holds SQLite's write lock, or NoProc
  job      \* job[p]: how far process p is

vars == <<db, writer, job>>

\* How the search index finds a row: its rowid scheme (the version that introduced it) and
\* whether its content is the searchable leaves of the row or its raw JSON.
IndexEntry == [rowid : 1 .. 3, leaves : BOOLEAN]
Current == [rowid |-> 3, leaves |-> TRUE]

Database ==
  [version : Nat,            \* PRAGMA user_version
   composite : BOOLEAN,      \* the resources table has its two-column key
   rows : SUBSET Rows,
   index : UNION {[R -> IndexEntry] : R \in SUBSET Rows},  \* resources_fts
   tables : SUBSET Nat]      \* the schema versions whose tables and columns exist

Job == [pc : {"closed", "probe", "connect", "check", "begin", "locked", "commit", "open"},
        seen : Nat,                  \* user_version as read under the lock
        retries : 0 .. MaxRetries]
Closed == [pc |-> "closed", seen |-> 0, retries |-> 0]

Finish(p) == job' = [job EXCEPT ![p] = Closed]
Goto(p, label) == job' = [job EXCEPT ![p].pc = label]
Newer(p, version) == version > Binary[p]

(***************************************************************************)
(* The migration of a database that was at version found, by release v.    *)
(***************************************************************************)

Rebuilt(d) == [d EXCEPT !.index = [r \in d.rows |-> Current]]

Without(index, r) == [x \in DOMAIN index \ {r} |-> index[x]]
Indexed(index, r) == [x \in DOMAIN index \cup {r} |-> IF x = r THEN Current ELSE index[x]]

\* Mutant of Rekeyed: the rows are not copied to the new table.
RekeyedEmpty(d, found) ==
  IF found < 2 THEN Rebuilt([d EXCEPT !.composite = TRUE, !.rows = {}])
  ELSE IF found = 2 THEN Rebuilt(d) ELSE d

\* migrateResourcesCompositeKey below 2, migrateResourcesFTSRowIDs at 2.
Rekeyed(d, found) ==
  IF found < 2 THEN Rebuilt([d EXCEPT !.composite = TRUE])
  ELSE IF found = 2 THEN Rebuilt(d) ELSE d

\* Mutant of Recontented: the gate is off by one.
RecontentedLate(d, found) == IF found < FTSContentVersion - 1 THEN Rebuilt(d) ELSE d

\* migrateResourcesFTSContent.
Recontented(d, found) == IF found < FTSContentVersion THEN Rebuilt(d) ELSE d

\* Mutant of Created: only the tables of this release.
CreatedOwn(d, v) == [d EXCEPT !.tables = @ \cup {v}]

\* backfillColumns, the CREATE TABLE IF NOT EXISTS list and migrateExtras.
Created(d, v) == [d EXCEPT !.tables = @ \cup 1 .. v]

Stamped(d, v) == [d EXCEPT !.version = v]

Migrated(d, found, v) == Stamped(Recontented(Created(Rekeyed(d, found), v), found), v)

(***************************************************************************)
(* OpenWithContext.                                                        *)
(***************************************************************************)

Open(p) ==
  /\ job[p].pc = "closed"
  /\ Goto(p, "probe")
  /\ UNCHANGED <<db, writer>>

\* rejectNewerSchemaBeforeWAL: a probe that fails lets the open go on.
Probe(p) ==
  /\ job[p].pc = "probe"
  /\ \/ Newer(p, db.version) /\ Finish(p)
     \/ Goto(p, "connect")
  /\ UNCHANGED <<db, writer>>

\* ensureSQLiteDriverInitialized: the first connection converts the file to WAL, which may be
\* refused as busy. The deadline of migrate starts after it.
Connect(p) ==
  /\ job[p].pc = "connect"
  /\ job' = [job EXCEPT ![p].pc = "check", ![p].retries = 0]
  /\ UNCHANGED <<db, writer>>

\* The migration's connection and its read of user_version before the lock.
Check(p) ==
  /\ job[p].pc = "check"
  /\ IF Newer(p, db.version) THEN Finish(p) ELSE Goto(p, "begin")
  /\ UNCHANGED <<db, writer>>

Begin(p) ==
  /\ job[p].pc = "begin" /\ writer = NoProc
  /\ writer' = p
  /\ Goto(p, "locked")
  /\ UNCHANGED db

\* Mutant of Recheck: the version is not read again under the lock.
RecheckSkipped(p) ==
  /\ job[p].pc = "locked"
  /\ job' = [job EXCEPT ![p].pc = "commit", ![p].seen = db.version]
  /\ UNCHANGED <<db, writer>>

\* The read of user_version under the lock; a newer one rolls back.
Recheck(p) ==
  /\ job[p].pc = "locked"
  /\ IF Newer(p, db.version)
     THEN Finish(p) /\ writer' = NoProc
     ELSE /\ job' = [job EXCEPT ![p].pc = "commit", ![p].seen = db.version]
          /\ UNCHANGED writer
  /\ UNCHANGED db

Commit(p) ==
  /\ job[p].pc = "commit"
  /\ db' = Migrated(db, job[p].seen, Binary[p])
  /\ writer' = NoProc
  /\ job' = [job EXCEPT ![p] = [Closed EXCEPT !.pc = "open"]]

\* Mutant of Busy: no deadline.
BusyForever(p) ==
  /\ job[p].pc \in {"connect", "check", "commit"} \/ (job[p].pc = "begin" /\ writer # NoProc)
  /\ UNCHANGED vars

\* The file is busy: wait and try again, or give up at the deadline.
Busy(p) ==
  /\ job[p].pc \in {"connect", "check", "commit"} \/ (job[p].pc = "begin" /\ writer # NoProc)
  /\ IF job[p].retries < MaxRetries
     THEN job' = [job EXCEPT ![p].retries = @ + 1] /\ UNCHANGED writer
     ELSE Finish(p) /\ writer' = IF writer = p THEN NoProc ELSE writer
  /\ UNCHANGED db

\* A statement fails, the context is cancelled, the process is killed or the store is closed:
\* an open transaction is rolled back.
Leave(p) ==
  /\ job[p].pc # "closed"
  /\ Finish(p)
  /\ writer' = IF writer = p THEN NoProc ELSE writer
  /\ UNCHANGED db

\* upsertGenericResourceTx in a transaction of its own: the row, then its old index entry
\* deleted and a new one inserted; a failure of either of the last two is only a warning.
Upsert(p, r) ==
  /\ job[p].pc = "open" /\ writer = NoProc
  /\ \E index \in {db.index, Without(db.index, r), Indexed(db.index, r)} :
        db' = [db EXCEPT !.rows = @ \cup {r}, !.index = index]
  /\ UNCHANGED <<writer, job>>

\* A file an earlier release left, or a fresh one.
AsLeft(version, rows) ==
  [version |-> version, composite |-> version >= 2, rows |-> rows,
   index |-> [r \in rows |-> [rowid |-> IF version < 2 THEN 1 ELSE IF version = 2 THEN 2 ELSE 3,
                              leaves |-> version >= FTSContentVersion]],
   tables |-> 1 .. version]

Init ==
  /\ db \in {AsLeft(version, rows) : version \in Found, rows \in SUBSET Rows}
  /\ writer = NoProc
  /\ job = [p \in Procs |-> Closed]

Step(p) ==
  \/ Open(p) \/ Probe(p) \/ Connect(p) \/ Check(p)
  \/ Begin(p) \/ Recheck(p) \/ Commit(p) \/ Busy(p) \/ Leave(p)
  \/ \E r \in Rows : Upsert(p, r)

Next == \E p \in Procs : Step(p)

\* A process that is opening the store goes on until it has an answer; Busy is what makes it
\* wait, and the deadline ends that.
Fairness ==
  \A p \in Procs :
    WF_vars(Probe(p) \/ Connect(p) \/ Check(p) \/ Begin(p) \/ Recheck(p) \/ Commit(p) \/ Busy(p))

Spec == Init /\ [][Next]_vars /\ Fairness

TypeOK ==
  /\ db \in Database
  /\ DOMAIN db.index \subseteq db.rows
  /\ writer \in Procs \cup {NoProc}
  /\ job \in [Procs -> Job]

(***************************************************************************)
(* What opening the store promises.                                        *)
(***************************************************************************)

\* "Silently downgrading user_version" is what the second read under the lock prevents
\* (store.go): whatever releases open the file at once, the stamp never goes down.
NeverDowngraded == [][db'.version >= db.version]_vars

\* The stamp tells the truth: a file stamped v has the tables of every version up to v, the
\* composite key and a search index whose every entry is in the current scheme, though opens
\* are rejected, run into the deadline or are killed at any point.
StampIsTrue ==
  /\ 1 .. db.version \subseteq db.tables
  /\ db.version >= 2 => db.composite
  /\ db.version >= FTSContentVersion => \A r \in DOMAIN db.index : db.index[r] = Current

\* A migration loses no row: the copy to resources_v2 and the rebuilds keep all of them.
RowsSurvive == [][db.rows \subseteq db'.rows]_vars

\* Every open returns, with a store or an error, also while another process holds the lock:
\* the waits share one deadline.
OpenReturns == \A p \in Procs : job[p].pc = "probe" ~> job[p].pc \in {"open", "closed"}
=============================================================================
