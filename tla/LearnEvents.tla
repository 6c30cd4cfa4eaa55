------------------------------ MODULE LearnEvents ------------------------------
(***************************************************************************)
(* The measurement trail of the learn loop (internal/store/events.go) and  *)
(* the commands of internal/cli that write and report it.                  *)
(*                                                                         *)
(* A command does its work, then records events one statement at a time;   *)
(* a statement that fails is logged and skipped.  `learnings stats` prunes *)
(* in two statements and reads its report in several more, outside any     *)
(* transaction, while other processes record, prune and forget.            *)
(***************************************************************************)
EXTENDS Integers, SequencesExt

CONSTANTS
  Hashes,    \* query families
  Clients,   \* processes
  MaxWork,   \* commands that record events
  MaxTime,
  MaxAge,    \* DefaultLearnEventMaxAge, in steps of the clock
  MaxRows    \* DefaultLearnEventMaxRows

ASSUME EventsAssumption ==
  MaxWork \in Nat /\ MaxTime \in Nat /\ MaxAge \in Nat /\ MaxRows \in Nat \ {0}

VARIABLES
  events,   \* the rows of learn_events
  kept,     \* kept[f]: the row that f was taught, 0 when it has none
  played,   \* families with a playbook
  given,    \* row ids given out; they are never used again
  client,   \* client[p]: what process p still has to do
  time,
  worked     \* commands that record so far

eventVars == <<events, kept, played, given, client, time, worked>>

EventKinds == {"recall_hit", "recall_miss", "recall_playbook_hit", "teach", "teach_playbook",
               "amend", "forget", "judged"}
Event == [id : Nat \ {0}, kind : EventKinds, hash : Hashes, row : Nat,
          ts : 0 .. MaxTime]

\* A statement that a process has yet to execute.
Statement == [does : {"insert"}, kind : EventKinds, hash : Hashes, row : Nat]
               \cup [does : {"cascade"}, hash : Hashes]

StatsSteps == <<"age", "cap", "counts", "taught", "reused", "amended", "print">>

\* disturbed: (for the properties) an event was recorded since the first of the reads
Stats == [pc : ToSet(StatsSteps), disturbed : BOOLEAN, taught : Nat, reused : Nat,
          playbookHits : Nat, amended : Nat]
Ready == [pc |-> "ready"]
Recording == [pc : {"record"}, todo : Seq(Statement) \ {<<>>}]

EventsTypeOK ==
  /\ events \subseteq Event /\ kept \in [Hashes -> Nat] /\ played \subseteq Hashes
  /\ given \in Nat /\ time \in 0 .. MaxTime /\ worked \in 0 .. MaxWork
  /\ client \in [Clients -> {Ready} \cup Stats \cup Recording]

EventsInit ==
  /\ events = {} /\ kept = [f \in Hashes |-> 0] /\ played = {} /\ given = 0
  /\ client = [p \in Clients |-> Ready] /\ time = 0 /\ worked = 0

Insert(kind, f, row) == [does |-> "insert", kind |-> kind, hash |-> f, row |-> row]
Records(p, todo) ==
  /\ client[p] = Ready /\ worked < MaxWork
  /\ worked' = worked + 1
  /\ client' = [client EXCEPT ![p] = [pc |-> "record", todo |-> todo]]
  /\ UNCHANGED <<events, time>>

\* teach, of one resource.  Teaching it again finds its row.
Taught(p, f) ==
  LET row == IF kept[f] = 0 THEN given + 1 ELSE kept[f] IN
  /\ Records(p, <<Insert("teach", f, row)>>)
  /\ kept' = [kept EXCEPT ![f] = row]
  /\ given' = IF kept[f] = 0 THEN given + 1 ELSE given
  /\ UNCHANGED played

\* recordRecallEvents: the row of the top hit, which an alias may have found for another family,
\* and whether the family has a playbook.
Recalled(p, f) ==
  /\ \E top \in {kept[g] : g \in Hashes} :
       /\ top = 0 => kept[f] = 0
       /\ Records(p,
            <<IF top > 0 THEN Insert("recall_hit", f, top) ELSE Insert("recall_miss", f, 0)>>
            \o (IF f \in played THEN <<Insert("recall_playbook_hit", f, 0)>> ELSE <<>>))
  /\ UNCHANGED <<kept, played, given>>

\* teach-playbook, playbook amend.
Choreographed(p, f, kind) ==
  /\ kind \in {"teach_playbook", "amend"}
  /\ Records(p, <<Insert(kind, f, 0)>>)
  /\ played' = played \cup {f}
  /\ UNCHANGED <<kept, given>>

\* confirm and reject, whose events are only counted.
Judged(p, f) ==
  /\ Records(p, <<Insert("judged", f, 0)>>)
  /\ UNCHANGED <<kept, played, given>>

\* learnings forget, that found rows.  The cascade deletes the family's whole trail, then one event
\* says so.
Forgotten(p, f) ==
  /\ kept[f] # 0
  /\ Records(p, <<[does |-> "cascade", hash |-> f], Insert("forget", f, 0)>>)
  /\ kept' = [kept EXCEPT ![f] = 0]
  /\ UNCHANGED <<played, given>>

StatsBegins(p) ==
  /\ client[p] = Ready
  /\ client' = [client EXCEPT ![p] = [pc |-> StatsSteps[1], disturbed |-> FALSE, taught |-> 0,
                                      reused |-> 0, playbookHits |-> 0, amended |-> 0]]
  /\ UNCHANGED <<events, kept, played, given, time, worked>>

Reading(q) == client[q].pc \in {"taught", "reused", "amended", "print"}

\* The id SQLite gives the next row of a table without AUTOINCREMENT.
NextIds == {id \in {1} \cup {e.id + 1 : e \in events} : \A e \in events : e.id < id}

\* InsertLearnEvent.  It reads the clock before it waits for the database.
Inserted(s) ==
  \E id \in NextIds, ts \in {time, time - 1} \cap 0 .. MaxTime :
    events' = events \cup
                {[id |-> id, kind |-> s.kind, hash |-> s.hash, row |-> s.row, ts |-> ts]}

\* DeleteLearnEventsByFamilyHash
Cascaded(s) == events' = {e \in events : e.hash # s.hash}

\* The next statement of a process that records.  It may fail; a process may also be killed.
StatementRuns(p) ==
  /\ client[p].pc = "record"
  /\ LET s == Head(client[p].todo)
         rest == Tail(client[p].todo)
         ready == [client EXCEPT ![p] = IF rest = <<>> THEN Ready ELSE [@ EXCEPT !.todo = rest]] IN
     \/ /\ s.does = "insert" /\ Inserted(s)
        /\ client' = [q \in Clients |-> IF Reading(q) THEN [ready[q] EXCEPT !.disturbed = TRUE]
                                        ELSE ready[q]]
     \/ s.does = "cascade" /\ Cascaded(s) /\ client' = ready
     \/ client' = ready /\ UNCHANGED events
  /\ UNCHANGED <<kept, played, given, time, worked>>

ClientStops(p) ==
  /\ client[p] # Ready
  /\ client' = [client EXCEPT ![p] = Ready]
  /\ UNCHANGED <<events, kept, played, given, time, worked>>

\* Events in the order the statistics go by: time, then id.
Follows(e, d) == e.ts > d.ts \/ (e.ts = d.ts /\ e.id > d.id)
Of(kind) == {e \in events : e.kind = kind}

\* The rows that were taught, and those of them that a later hit names.  (The fallback by family
\* counts events without a row, which this program no longer records.)
TaughtRows == {e.row : e \in Of("teach")}
ReusedRows ==
  {t.row : t \in {t \in Of("teach") : \E h \in Of("recall_hit") : h.row = t.row /\ Follows(h, t)}}

\* The playbook hits that an amend of the same family followed.
AmendedHits ==
  {h \in Of("recall_playbook_hit") : \E a \in Of("amend") : a.hash = h.hash /\ Follows(a, h)}

\* PruneLearnEvents, its first statement and its second.
Recent == {e \in events : e.ts >= time - MaxAge}
Newest == {e \in events : Cardinality({g \in events : Follows(g, e)}) < MaxRows}

\* Mutant of StatsAnswer: the reused rows are counted before the taught ones.
StatsAnswerSwapped(s, pc) ==
  CASE pc = "counts" -> [s EXCEPT !.playbookHits = Cardinality(Of("recall_playbook_hit"))]
    [] pc = "taught" -> [s EXCEPT !.reused = Cardinality(ReusedRows)]
    [] pc = "reused" -> [s EXCEPT !.taught = Cardinality(TaughtRows)]
    [] OTHER -> [s EXCEPT !.amended = Cardinality(AmendedHits)]

\* What one query of LearnEventStats adds to the report.
StatsAnswer(s, pc) ==
  CASE pc = "counts" -> [s EXCEPT !.playbookHits = Cardinality(Of("recall_playbook_hit"))]
    [] pc = "taught" -> [s EXCEPT !.taught = Cardinality(TaughtRows)]
    [] pc = "reused" -> [s EXCEPT !.reused = Cardinality(ReusedRows)]
    [] OTHER -> [s EXCEPT !.amended = Cardinality(AmendedHits)]

\* The next statement of learnings stats.  A prune that fails is skipped over, and its second
\* statement with it; a read that fails ends the command.
StatsStep(p, n) ==
  /\ n < Len(StatsSteps) /\ client[p].pc = StatsSteps[n]
  /\ LET goes(m) == [client EXCEPT ![p].pc = StatsSteps[m]] IN
     CASE n \in {1, 2} ->
            \/ events' = (IF n = 1 THEN Recent ELSE Newest) /\ client' = goes(n + 1)
            \/ UNCHANGED events /\ client' = goes(3)
       [] OTHER ->
            /\ client' = [goes(n + 1) EXCEPT ![p] = StatsAnswer(@, StatsSteps[n])]
            /\ UNCHANGED events
  /\ UNCHANGED <<kept, played, given, time, worked>>

DayPasses ==
  /\ time < MaxTime
  /\ time' = time + 1
  /\ UNCHANGED <<events, kept, played, given, client, worked>>

EventsNext ==
  \/ \E p \in Clients :
       \/ \E f \in Hashes : \/ Taught(p, f) \/ Recalled(p, f) \/ Judged(p, f) \/ Forgotten(p, f)
                            \/ \E kind \in EventKinds : Choreographed(p, f, kind)
       \/ StatementRuns(p) \/ StatsBegins(p) \/ ClientStops(p)
       \/ \E n \in DOMAIN StatsSteps : StatsStep(p, n)
  \/ DayPasses

EventsSpec == EventsInit /\ [][EventsNext]_eventVars

\* However pruning and forgetting fall between the reads of a report, it credits no more rows with
\* reuse than it counts as taught, and takes no more playbook hits for amended than it counts: the
\* ratios stay between 0 and 1.  Only an event recorded between two of the reads can break this.
ReportAddsUp ==
  \A p \in Clients : client[p].pc = "print" /\ ~client[p].disturbed =>
    client[p].reused <= client[p].taught /\ client[p].amended <= client[p].playbookHits
=============================================================================
