--------------------------- MODULE StoreOpenProofs ----------------------------
(***************************************************************************)
(* Proofs about StoreOpen, for any set of processes, any releases and any  *)
(* content of the file.                                                    *)
(*                                                                         *)
(* The inductive invariant says what the lock is for: the process in the   *)
(* transaction holds it, so that between its second read of user_version   *)
(* and its commit the version it has read is the version of the file.      *)
(***************************************************************************)
EXTENDS StoreOpen, TLAPS

InTransaction(p) == job[p].pc \in {"locked", "commit"}

\* At most the holder of the lock is in a transaction, and it knows the version of the file.
LockHeld ==
  \A p \in Procs :
    /\ InTransaction(p) => writer = p
    /\ job[p].pc = "commit" => job[p].seen = db.version /\ ~Newer(p, db.version)

OpenInv == TypeOK /\ LockHeld /\ StampIsTrue

(***************************************************************************)
(* The migration as a function of the file.                                *)
(***************************************************************************)

Sound(d) == d \in Database /\ DOMAIN d.index \subseteq d.rows
AllCurrent(d) == \A r \in DOMAIN d.index : d.index[r] = Current

LEMMA RebuiltSound ==
  ASSUME NEW d, Sound(d)
  PROVE  Sound(Rebuilt(d)) /\ AllCurrent(Rebuilt(d))
<1>1. [r \in d.rows |-> Current] \in [d.rows -> IndexEntry]
  BY DEF Current, IndexEntry
<1>2. d.rows \in SUBSET Rows
  BY DEF Sound, Database
<1>3. [r \in d.rows |-> Current] \in UNION {[R -> IndexEntry] : R \in SUBSET Rows}
  BY <1>1, <1>2
<1>4. Rebuilt(d) \in Database /\ Rebuilt(d).index = [r \in d.rows |-> Current]
      /\ Rebuilt(d).rows = d.rows
  BY <1>3 DEF Rebuilt, Database, Sound
<1> QED
  BY <1>4 DEF Sound, AllCurrent

LEMMA RekeyedSound ==
  ASSUME NEW d, Sound(d), NEW found \in Nat
  PROVE  LET m == Rekeyed(d, found)
         IN  /\ Sound(m)
             /\ m.version = d.version /\ m.rows = d.rows /\ m.tables = d.tables
             /\ found < 2 \/ d.composite => m.composite
             /\ found >= FTSContentVersion => m = d
<1> DEFINE c == [d EXCEPT !.composite = TRUE]
<1>1. /\ Sound(c) /\ c.version = d.version /\ c.rows = d.rows /\ c.tables = d.tables
      /\ c.composite = TRUE
  BY DEF Sound, Database
<1>2. Sound(Rebuilt(c)) /\ Rebuilt(c).version = d.version /\ Rebuilt(c).rows = d.rows
      /\ Rebuilt(c).tables = d.tables /\ Rebuilt(c).composite = TRUE
  <2>1. Sound(Rebuilt(c))
    BY <1>1, RebuiltSound
  <2> QED
    BY <2>1, <1>1 DEF Rebuilt, Sound, Database
<1>3. Sound(Rebuilt(d)) /\ Rebuilt(d).version = d.version /\ Rebuilt(d).rows = d.rows
      /\ Rebuilt(d).tables = d.tables /\ Rebuilt(d).composite = d.composite
  <2>1. Sound(Rebuilt(d))
    BY RebuiltSound
  <2> QED
    BY <2>1 DEF Rebuilt, Sound, Database
<1>4. CASE found < 2
  <2>1. Rekeyed(d, found) = Rebuilt(c)
    BY <1>4 DEF Rekeyed
  <2> QED
    BY <2>1, <1>2, <1>4 DEF FTSContentVersion
<1>5. CASE found = 2
  <2>1. Rekeyed(d, found) = Rebuilt(d)
    BY <1>5 DEF Rekeyed
  <2> QED
    BY <2>1, <1>3, <1>5 DEF FTSContentVersion
<1>6. CASE found > 2
  <2>1. Rekeyed(d, found) = d
    BY <1>6 DEF Rekeyed
  <2> QED
    BY <2>1, <1>6
<1> QED
  BY <1>4, <1>5, <1>6

LEMMA MigratedSound ==
  ASSUME NEW d, Sound(d), NEW found \in Nat, NEW v \in Nat
  PROVE  LET m == Migrated(d, found, v)
         IN  /\ Sound(m)
             /\ m.version = v /\ m.rows = d.rows
             /\ 1 .. v \subseteq m.tables
             /\ found < 2 \/ d.composite => m.composite
             /\ found < FTSContentVersion \/ AllCurrent(d) => AllCurrent(m)
<1> DEFINE k == Rekeyed(d, found)
           t == Created(k, v)
           n == Recontented(t, found)
<1>1. /\ Sound(k) /\ k.rows = d.rows
      /\ found < 2 \/ d.composite => k.composite
      /\ found >= FTSContentVersion => k = d
  BY RekeyedSound
<1> HIDE DEF k
<1>2. /\ Sound(t) /\ t.rows = k.rows /\ 1 .. v \subseteq t.tables
      /\ t.composite = k.composite /\ t.index = k.index
  BY <1>1 DEF Created, Sound, Database
<1> HIDE DEF t
<1>3. /\ Sound(n) /\ n.rows = t.rows /\ n.tables = t.tables /\ n.composite = t.composite
      /\ found < FTSContentVersion => AllCurrent(n)
      /\ found >= FTSContentVersion => n.index = t.index
  <2>1. CASE found < FTSContentVersion
    <3>1. n = Rebuilt(t)
      BY <2>1 DEF Recontented
    <3>2. Sound(Rebuilt(t)) /\ AllCurrent(Rebuilt(t))
      BY <1>2, RebuiltSound
    <3>3. /\ Rebuilt(t).rows = t.rows /\ Rebuilt(t).tables = t.tables
          /\ Rebuilt(t).composite = t.composite
      BY <1>2 DEF Rebuilt, Sound, Database
    <3> QED
      BY <3>1, <3>2, <3>3, <2>1 DEF FTSContentVersion
  <2>2. CASE found >= FTSContentVersion
    BY <2>2, <1>2 DEF Recontented, FTSContentVersion
  <2> QED
    BY <2>1, <2>2 DEF FTSContentVersion
<1> HIDE DEF n
<1>4. Migrated(d, found, v) = Stamped(n, v)
  BY DEF Migrated, k, t, n
<1>5. /\ Sound(Stamped(n, v)) /\ Stamped(n, v).version = v /\ Stamped(n, v).rows = n.rows
      /\ Stamped(n, v).tables = n.tables /\ Stamped(n, v).composite = n.composite
      /\ Stamped(n, v).index = n.index
  BY <1>3 DEF Stamped, Sound, Database
<1>6. found < FTSContentVersion \/ AllCurrent(d) => AllCurrent(n)
  BY <1>1, <1>2, <1>3 DEF AllCurrent, FTSContentVersion
<1> QED
  BY <1>1, <1>2, <1>3, <1>4, <1>5, <1>6 DEF AllCurrent

(***************************************************************************)
(* The steps.                                                              *)
(***************************************************************************)

LEMMA VersionsAreNumbers ==
  ASSUME TypeOK
  PROVE  db.version \in Nat /\ \A p \in Procs : Binary[p] \in Nat
BY ReleasesAssumption DEF TypeOK, Database, FTSContentVersion

LEMMA OpenInit == Init => OpenInv
<1> SUFFICES ASSUME Init PROVE OpenInv
  OBVIOUS
<1>1. PICK version \in Found, rows \in SUBSET Rows : db = AsLeft(version, rows)
  BY DEF Init
<1>2. version \in Nat /\ Found \subseteq Nat
  BY ReleasesAssumption
<1> DEFINE entry(r) == [rowid |-> IF version < 2 THEN 1 ELSE IF version = 2 THEN 2 ELSE 3,
                        leaves |-> version >= FTSContentVersion]
<1>3. /\ db.version = version /\ db.composite = (version >= 2) /\ db.rows = rows
      /\ db.tables = 1 .. version
      /\ db.index = [r \in rows |-> entry(r)]
  BY <1>1 DEF AsLeft
<1>4. db = [version |-> db.version, composite |-> db.composite, rows |-> db.rows,
            index |-> db.index, tables |-> db.tables]
  BY <1>1 DEF AsLeft
<1>5. \A r \in rows : entry(r) \in IndexEntry
  BY <1>2 DEF IndexEntry, FTSContentVersion
<1>6. db.index \in UNION {[R -> IndexEntry] : R \in SUBSET Rows}
  <2>1. db.index \in [rows -> IndexEntry]
    BY <1>3, <1>5
  <2> QED
    BY <2>1
<1>7. db \in Database /\ DOMAIN db.index \subseteq db.rows
  <2>1. (version >= 2) \in BOOLEAN /\ 1 .. version \in SUBSET Nat
    BY <1>2
  <2> QED
    BY <1>2, <1>3, <1>4, <1>6, <2>1 DEF Database
<1>8. TypeOK
  BY <1>7, ReleasesAssumption DEF Init, TypeOK, Job, Closed
<1>9. LockHeld
  BY DEF Init, LockHeld, InTransaction, Closed
<1>10. StampIsTrue
  <2>1. version >= FTSContentVersion => \A r \in rows : entry(r) = Current
    <3> SUFFICES ASSUME version >= FTSContentVersion, NEW r \in rows PROVE entry(r) = Current
      OBVIOUS
    <3>1. (version >= FTSContentVersion) = TRUE
      OBVIOUS
    <3>2. (IF version < 2 THEN 1 ELSE IF version = 2 THEN 2 ELSE 3) = 3
      BY <1>2 DEF FTSContentVersion
    <3> QED
      BY <3>1, <3>2, Zenon DEF Current
  <2> QED
    BY <1>3, <2>1 DEF StampIsTrue
<1> QED
  BY <1>8, <1>9, <1>10 DEF OpenInv

\* A step that leaves the file alone: only the lock and the jobs are left to check.
LEMMA FileUntouched ==
  ASSUME OpenInv, UNCHANGED db,
         writer' \in Procs \cup {NoProc}, job' \in [Procs -> Job], LockHeld'
  PROVE  OpenInv'
BY DEF OpenInv, TypeOK, StampIsTrue

\* The steps of p outside Commit and Upsert.
LEMMA OpenJobStep ==
  ASSUME OpenInv, NEW p \in Procs,
         \/ Open(p) \/ Probe(p) \/ Connect(p) \/ Check(p)
         \/ Begin(p) \/ Recheck(p) \/ Busy(p) \/ Leave(p)
  PROVE  OpenInv' /\ UNCHANGED db
<1>0. job \in [Procs -> Job] /\ job[p] \in Job /\ writer \in Procs \cup {NoProc}
  BY DEF OpenInv, TypeOK
<1>1. db.version \in Nat
  BY VersionsAreNumbers DEF OpenInv
<1>2. UNCHANGED db
  BY DEF Open, Probe, Connect, Check, Begin, Recheck, Busy, Leave
<1>3. writer' \in Procs \cup {NoProc}
  BY <1>0 DEF Open, Probe, Connect, Check, Begin, Recheck, Busy, Leave
<1>4. job' \in [Procs -> Job]
  <2>1. Closed \in Job
    BY ReleasesAssumption DEF Closed, Job
  <2>2. CASE Finish(p)
    BY <2>1, <2>2, <1>0 DEF Finish
  <2>3. ASSUME NEW label \in {"probe", "connect", "check", "begin", "locked"},
               Goto(p, label)
        PROVE  job' \in [Procs -> Job]
    <3> DEFINE j == [job[p] EXCEPT !.pc = label]
    <3>1. j \in Job
      BY <2>3, <1>0 DEF Job
    <3>2. job' = [job EXCEPT ![p] = j]
      BY <2>3 DEF Goto
    <3> QED
      BY <3>1, <3>2, <1>0
  <2>4. CASE Connect(p)
    <3> DEFINE j == [job[p] EXCEPT !.pc = "check", !.retries = 0]
    <3>0. 0 \in 0 .. MaxRetries
      BY ReleasesAssumption
    <3>1. j \in Job
      BY <1>0, <3>0 DEF Job
    <3>2. job' = [job EXCEPT ![p] = j]
      BY <2>4, <1>0 DEF Connect, Job
    <3> QED
      BY <3>1, <3>2, <1>0
  <2>5. CASE Recheck(p)
    <3> DEFINE j == [job[p] EXCEPT !.pc = "commit", !.seen = db.version]
    <3>1. CASE job' = [job EXCEPT ![p].pc = "commit", ![p].seen = db.version]
      <4>1. j \in Job
        BY <1>0, <1>1 DEF Job
      <4>2. job' = [job EXCEPT ![p] = j]
        BY <3>1, <1>0 DEF Job
      <4> QED
        BY <4>1, <4>2, <1>0
    <3> QED
      BY <2>5, <2>2, <3>1 DEF Recheck
  <2>6. CASE Busy(p)
    <3> DEFINE j == [job[p] EXCEPT !.retries = @ + 1]
    <3>1. CASE job[p].retries < MaxRetries /\ job' = [job EXCEPT ![p].retries = @ + 1]
      <4>1. job[p].retries + 1 \in 0 .. MaxRetries
        BY <3>1, <1>0, ReleasesAssumption DEF Job
      <4>2. j \in Job
        BY <4>1, <1>0 DEF Job
      <4>3. job' = [job EXCEPT ![p] = j]
        BY <3>1, <1>0 DEF Job
      <4> QED
        BY <4>2, <4>3, <1>0
    <3> QED
      BY <2>6, <2>2, <3>1 DEF Busy
  <2> QED
    BY <2>2, <2>3, <2>4, <2>5, <2>6 DEF Open, Probe, Check, Begin, Leave
<1>5. LockHeld'
  <2> SUFFICES ASSUME NEW q \in Procs
               PROVE  /\ InTransaction(q)' => writer' = q
                      /\ job'[q].pc = "commit" =>
                           job'[q].seen = db.version /\ ~Newer(q, db.version)
    BY <1>2 DEF LockHeld, Newer
  <2>1. /\ InTransaction(q) => writer = q
        /\ InTransaction(p) => writer = p
        /\ job[q].pc = "commit" => job[q].seen = db.version /\ ~Newer(q, db.version)
    BY DEF OpenInv, LockHeld
  <2>2. CASE q = p
    <3>1. CASE Recheck(p)
      BY <3>1, <2>1, <2>2, <1>0 DEF Recheck, Finish, Closed, InTransaction, Job
    <3>2. CASE Busy(p)
      BY <3>2, <2>1, <2>2, <1>0 DEF Busy, Finish, Closed, InTransaction, Job
    <3>3. CASE Begin(p)
      BY <3>3, <2>2, <1>0 DEF Begin, Goto, InTransaction, Job
    <3>4. CASE Open(p) \/ Probe(p) \/ Connect(p) \/ Check(p) \/ Leave(p)
      BY <3>4, <2>2, <1>0
         DEF Open, Probe, Connect, Check, Leave, Goto, Finish, Closed, InTransaction, Job
    <3> QED
      BY <3>1, <3>2, <3>3, <3>4
  <2>3. CASE q # p
    <3>1. job'[q] = job[q]
      BY <2>3, <1>0
         DEF Open, Probe, Connect, Check, Begin, Recheck, Busy, Leave, Goto, Finish
    <3>2. writer = q => writer' = q
      BY <2>3, <2>1, <1>0, ReleasesAssumption
         DEF Open, Probe, Connect, Check, Begin, Recheck, Busy, Leave, InTransaction
    <3> QED
      BY <3>1, <3>2, <2>1 DEF InTransaction
  <2> QED
    BY <2>2, <2>3
<1> QED
  BY <1>2, <1>3, <1>4, <1>5, FileUntouched

LEMMA OpenCommitStep ==
  ASSUME OpenInv, NEW p \in Procs, Commit(p)
  PROVE  OpenInv' /\ db'.version >= db.version /\ db'.rows = db.rows
<1> DEFINE found == job[p].seen
<1>1. /\ Sound(db) /\ found = db.version /\ ~Newer(p, db.version) /\ writer = p
      /\ job \in [Procs -> Job]
  BY DEF OpenInv, TypeOK, Sound, LockHeld, InTransaction, Commit
<1>2. db.version \in Nat /\ Binary[p] \in Nat
  BY VersionsAreNumbers DEF OpenInv
<1>3. /\ Sound(db')
      /\ db'.version = Binary[p] /\ db'.rows = db.rows
      /\ 1 .. Binary[p] \subseteq db'.tables
      /\ found < 2 \/ db.composite => db'.composite
      /\ found < FTSContentVersion \/ AllCurrent(db) => AllCurrent(db')
  BY <1>1, <1>2, MigratedSound DEF Commit
<1>4. db'.version >= db.version
  BY <1>1, <1>2, <1>3 DEF Newer
<1>5. TypeOK'
  <2>1. [Closed EXCEPT !.pc = "open"] \in Job
    BY ReleasesAssumption DEF Closed, Job
  <2> QED
    BY <2>1, <1>1, <1>3 DEF Commit, TypeOK, Sound
<1>6. LockHeld'
  <2>1. \A q \in Procs : q # p => ~InTransaction(q) /\ job'[q] = job[q]
    BY <1>1 DEF OpenInv, LockHeld, Commit
  <2>2. job'[p].pc = "open"
    BY <1>1 DEF Commit, Closed
  <2> QED
    BY <2>1, <2>2 DEF LockHeld, InTransaction
<1>7. StampIsTrue'
  <2>1. found >= 2 => db.composite
    BY <1>1 DEF OpenInv, StampIsTrue
  <2>2. found >= FTSContentVersion => AllCurrent(db)
    BY <1>1 DEF OpenInv, StampIsTrue, AllCurrent
  <2> QED
    BY <2>1, <2>2, <1>1, <1>2, <1>3 DEF StampIsTrue, AllCurrent, FTSContentVersion
<1> QED
  BY <1>3, <1>4, <1>5, <1>6, <1>7 DEF OpenInv

LEMMA OpenUpsertStep ==
  ASSUME OpenInv, NEW p \in Procs, NEW r \in Rows, Upsert(p, r)
  PROVE  OpenInv' /\ db'.version = db.version /\ db.rows \subseteq db'.rows
<1>1. PICK index \in {db.index, Without(db.index, r), Indexed(db.index, r)} :
        db' = [db EXCEPT !.rows = @ \cup {r}, !.index = index]
  BY DEF Upsert
<1>2. db \in Database /\ DOMAIN db.index \subseteq db.rows
  BY DEF OpenInv, TypeOK
<1>3. PICK R \in SUBSET Rows : db.index \in [R -> IndexEntry]
  BY <1>2 DEF Database
<1>4. /\ \E S \in SUBSET Rows : index \in [S -> IndexEntry]
      /\ DOMAIN index \subseteq db.rows \cup {r}
      /\ AllCurrent(db) => \A x \in DOMAIN index : index[x] = Current
  <2>1. CASE index = db.index
    BY <2>1, <1>2, <1>3 DEF AllCurrent
  <2>2. CASE index = Without(db.index, r)
    <3>1. index \in [R \ {r} -> IndexEntry]
      BY <2>2, <1>3 DEF Without
    <3> QED
      BY <3>1, <2>2, <1>2, <1>3 DEF AllCurrent, Without
  <2>3. CASE index = Indexed(db.index, r)
    <3>1. index \in [R \cup {r} -> IndexEntry]
      BY <2>3, <1>3 DEF Indexed, Current, IndexEntry
    <3>2. R \cup {r} \in SUBSET Rows
      BY <1>3
    <3>3. DOMAIN index = DOMAIN db.index \cup {r}
      BY <2>3 DEF Indexed
    <3>4. AllCurrent(db) => \A x \in DOMAIN index : index[x] = Current
      BY <2>3 DEF AllCurrent, Indexed
    <3> QED
      BY <3>1, <3>2, <3>3, <3>4, <1>2
  <2> QED
    BY <1>1, <2>1, <2>2, <2>3
<1>5. /\ db'.version = db.version /\ db'.composite = db.composite /\ db'.tables = db.tables
      /\ db'.rows = db.rows \cup {r} /\ db'.index = index /\ db' \in Database
  <2>1. index \in UNION {[S -> IndexEntry] : S \in SUBSET Rows}
    BY <1>4
  <2> QED
    BY <1>1, <1>2, <2>1 DEF Database
<1>6. TypeOK'
  BY <1>4, <1>5 DEF OpenInv, TypeOK, Upsert
<1>7. LockHeld'
  BY <1>5 DEF OpenInv, LockHeld, InTransaction, Newer, Upsert
<1>8. StampIsTrue'
  BY <1>4, <1>5 DEF OpenInv, StampIsTrue, AllCurrent
<1> QED
  BY <1>5, <1>6, <1>7, <1>8 DEF OpenInv

LEMMA OpenNext ==
  ASSUME OpenInv, [Next]_vars
  PROVE  OpenInv' /\ db'.version >= db.version /\ db.rows \subseteq db'.rows
<1>1. CASE UNCHANGED vars
  <2>1. db.version \in Nat
    BY VersionsAreNumbers DEF OpenInv
  <2> QED
    BY <1>1, <2>1 DEF vars, OpenInv, TypeOK, LockHeld, InTransaction, StampIsTrue, Newer
<1>2. ASSUME NEW p \in Procs, Step(p)
      PROVE  OpenInv' /\ db'.version >= db.version /\ db.rows \subseteq db'.rows
  <2>1. db.version \in Nat
    BY VersionsAreNumbers DEF OpenInv
  <2>2. CASE \/ Open(p) \/ Probe(p) \/ Connect(p) \/ Check(p)
             \/ Begin(p) \/ Recheck(p) \/ Busy(p) \/ Leave(p)
    BY <2>1, <2>2, OpenJobStep
  <2>3. CASE Commit(p)
    BY <2>3, OpenCommitStep
  <2>4. CASE \E r \in Rows : Upsert(p, r)
    BY <2>1, <2>4, OpenUpsertStep
  <2> QED
    BY <1>2, <2>2, <2>3, <2>4 DEF Step
<1> QED
  BY <1>1, <1>2 DEF Next

(***************************************************************************)
(* The theorems.                                                           *)
(***************************************************************************)

THEOREM OpenInvariant == Spec => []OpenInv
<1>1. OpenInv /\ [Next]_vars => OpenInv'
  BY OpenNext
<1> QED
  BY OpenInit, <1>1, PTL DEF Spec

\* Every state is well typed: the waits of an open never pass their bound and the index holds
\* no entry without a row (migrate, retryOnBusy, upsertGenericResourceTx).
THEOREM StoreTypeCorrect == Spec => []TypeOK
<1>1. OpenInv => TypeOK
  BY DEF OpenInv
<1> QED
  BY OpenInvariant, <1>1, PTL

\* However many processes of whatever releases open a file some release left, its stamp never
\* promises a table, a key or an index content that is not there (migrate).
THEOREM StampStaysTrue == Spec => []StampIsTrue
<1>1. OpenInv => StampIsTrue
  BY DEF OpenInv
<1> QED
  BY OpenInvariant, <1>1, PTL

\* No interleaving of opens of whatever releases lowers user_version: the second read, under the
\* lock, is enough (migrate).
THEOREM NoDowngrade == Spec => NeverDowngraded
<1>1. OpenInv /\ [Next]_vars => [db'.version >= db.version]_vars
  BY OpenNext
<1> QED
  BY OpenInvariant, <1>1, PTL DEF Spec, NeverDowngraded

\* No migration, whatever it starts from and wherever it is cut off, loses a row
\* (migrateResourcesCompositeKey, withMigrationLock).
THEOREM NoRowLost == Spec => RowsSurvive
<1>1. OpenInv /\ [Next]_vars => [db.rows \subseteq db'.rows]_vars
  BY OpenNext
<1> QED
  BY OpenInvariant, <1>1, PTL DEF Spec, RowsSurvive
=============================================================================
