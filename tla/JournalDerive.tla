---------------------------- MODULE JournalDerive -----------------------------
(***************************************************************************)
(* The invocation journal (internal/learn/journal.go) and the derivation   *)
(* pass that runs after each command (internal/learn/derive.go, called     *)
(* from internal/cli/root.go).                                             *)
(*                                                                         *)
(* Every CLI process appends one line to the segment of the day and then   *)
(* scans what lies behind the stored offset for flag corrections.  There   *)
(* is no lock: the appends, cleanups, reads, candidate upserts and offset  *)
(* writes of all processes interleave, and a process may be killed between *)
(* any two of them.                                                        *)
(***************************************************************************)
EXTENDS FlagCorrections, Sequences, FiniteSetsExt

CONSTANTS
  Procs,
  Second,     \* ticks of the clock per second: the journal keeps whole seconds
  DayLength,  \* ticks per day
  MaxAge,     \* journalMaxSegmentAgeDays
  MaxTotal,   \* journalMaxTotalBytes, in lines
  Slow,       \* whether the clock may advance between a step that reads it and the next one
  MaxNow, MaxLines, MaxSighted  \* bounds of the model

ASSUME JournalAssumption ==
  /\ Second \in Nat \ {0} /\ Window \in Nat /\ Window % Second = 0
  /\ DayLength \in Nat \ {0} /\ MaxAge \in Nat /\ MaxTotal \in Nat
  /\ MaxNow \in Nat /\ MaxLines \in Nat /\ MaxSighted \in Nat \ {0}
  /\ Slow \in BOOLEAN
  /\ NoFamily \notin Families

VARIABLES
  now,      \* the wall clock
  segments, \* segments[d]: the file of day d
  offset,   \* the content of journal.offset
  sighted,  \* sighted[x]: how often DeriveCandidate has counted the failure at x
  job       \* job[p]: how far process p is

vars == <<now, segments, offset, sighted, job>>

Days == 0 .. MaxNow \div DayLength
Today == now \div DayLength
Seconds == {t \in 0 .. MaxNow : t % Second = 0}
Stamp == now - (now % Second)  \* what RFC 3339 without a fraction keeps of the time
Junk == [kind |-> "junk"]  \* a line that does not parse
Entry == {e \in [kind : Kinds, session : Sessions, cmd : Commands,
                 family : Families \cup {NoFamily}, at : Seconds] :
            e.kind = "recall" <=> e.family # NoFamily}
Segment == [exists : BOOLEAN, lines : Seq(Entry \cup {Junk}),
            torn : BOOLEAN]  \* what follows the last newline is part of a line
NoSegment == [exists |-> FALSE, lines |-> <<>>, torn |-> FALSE]
Positions == Days \X (1 .. 2 * MaxLines)
Offset == [day : Days \cup {-1}, line : Nat]
Start == [day |-> -1, line |-> 0]
Correction == [at : Positions, cmd : Commands, session : Sessions,
               family : Families \cup {NoFamily}]

Job == [pc : {"idle", "repair", "heal", "write", "cleanup", "lastCleanup", "load",
              "read", "seed", "decide", "derive"},
        entry : Entry \cup {Junk},
        day : Days,                  \* the segment the entry goes to
        from : Offset,               \* the offset loaded
        next : Offset,               \* the offset to store
        waiting : SUBSET Seconds,    \* when the unpaired failures of the batch happened
        todo : SUBSET Correction]    \* the pairs still to be derived
Idle == [pc |-> "idle", entry |-> Junk, day |-> 0, from |-> Start, next |-> Start,
         waiting |-> {}, todo |-> {}]

Finish(p) == job' = [job EXCEPT ![p] = Idle]
Goto(p, label) == job' = [job EXCEPT ![p].pc = label]

(***************************************************************************)
(* The segments.                                                           *)
(***************************************************************************)

Existing == {d \in Days : segments[d].exists}
Lines(D) == MapThenSumSet(LAMBDA d : Len(segments[d].lines), D)

\* Appending text that ends in a newline: it completes whatever is torn.
Append1(s, line) ==
  [exists |-> TRUE, lines |-> Append(s.lines, IF s.torn THEN Junk ELSE line), torn |-> FALSE]

Readable == {x \in Positions : /\ x[2] \in DOMAIN segments[x[1]].lines
                               /\ segments[x[1]].lines[x[2]] # Junk}
Journal == [x \in Readable |-> segments[x[1]].lines[x[2]]]

\* The oldest-first walk of cleanupJournalSegments stops at the first segment that is neither
\* too old nor part of too much, and never reaches the newest one.
Expired ==
  {d \in Existing :
     /\ \E newer \in Existing : newer > d
     /\ \A c \in Existing : c <= d =>
          \/ c * DayLength < now - MaxAge * DayLength
          \/ Lines({e \in Existing : e >= c}) > MaxTotal}

\* What a read from offset o stores afterwards: the end of the newest segment it has read.
End(o) ==
  LET read == {d \in Existing : d >= o.day}
  IN  IF read = {} THEN o ELSE [day |-> Max(read), line |-> Len(segments[Max(read)].lines)]

(***************************************************************************)
(* The processes.                                                          *)
(***************************************************************************)

InFlight == {p \in Procs : job[p].pc \in {"repair", "heal", "write"}}

\* JournalInvocation after a command has run: the time stamp and the segment's name.
Invoke(p) ==
  /\ job[p] = Idle
  /\ Lines(Existing) + Cardinality(InFlight) < MaxLines
  /\ \E e \in Entry :
       /\ e.at = Stamp
       /\ job' = [job EXCEPT ![p] = [Idle EXCEPT !.pc = "repair", !.entry = e, !.day = Today]]
  /\ UNCHANGED <<now, segments, offset, sighted>>

\* repairJournalSegmentTail looks at the last byte and then ends a torn line.
RepairInspect(p) ==
  /\ job[p].pc = "repair"
  /\ Goto(p, IF segments[job[p].day].torn THEN "heal" ELSE "write")
  /\ UNCHANGED <<now, segments, offset, sighted>>

RepairHeal(p) ==
  /\ job[p].pc = "heal"
  /\ segments' = [segments EXCEPT ![job[p].day] = Append1(@, Junk)]
  /\ Goto(p, "write")
  /\ UNCHANGED <<now, offset, sighted>>

\* The learn commands run no pass.
RunsPass(p) == job[p].entry.kind # "recall"

\* The single O_APPEND write of the line.
Write(p) ==
  /\ job[p].pc = "write"
  /\ segments' = [segments EXCEPT ![job[p].day] = Append1(@, job[p].entry)]
  /\ job' = [job EXCEPT ![p] =
       [Idle EXCEPT !.pc = IF RunsPass(p) THEN "cleanup" ELSE "lastCleanup"]]
  /\ UNCHANGED <<now, offset, sighted>>

\* The disk is full or the process is killed in the write; the pass runs anyway if it can.
WriteTorn(p) ==
  /\ job[p].pc = "write"
  /\ segments' = [segments EXCEPT ![job[p].day].exists = TRUE, ![job[p].day].torn = TRUE]
  /\ IF RunsPass(p) THEN job' = [job EXCEPT ![p] = [Idle EXCEPT !.pc = "load"]] ELSE Finish(p)
  /\ UNCHANGED <<now, offset, sighted>>

Cleanup(p) ==
  /\ job[p].pc \in {"cleanup", "lastCleanup"}
  /\ LET expired == Expired
     IN  segments' = [d \in Days |-> IF d \in expired THEN NoSegment ELSE segments[d]]
  /\ IF job[p].pc = "cleanup" THEN Goto(p, "load") ELSE Finish(p)
  /\ UNCHANGED <<now, offset, sighted>>

LoadOffset(p) ==
  /\ job[p].pc = "load"
  /\ job' = [job EXCEPT ![p] = [Idle EXCEPT !.pc = "read", !.from = offset]]
  /\ UNCHANGED <<now, segments, offset, sighted>>

\* ReadJournalFrom; what the pairing finds in the batch depends on nothing read later but the
\* seed and the clock.
Read(p) ==
  /\ job[p].pc = "read"
  /\ LET from == job[p].from
         batch == Batch(Journal, from)
     IN  IF DOMAIN batch = {} /\ End(from) = from
         THEN Finish(p)
         ELSE job' = [job EXCEPT ![p] =
                [@ EXCEPT !.pc = "seed", !.next = End(from), !.waiting = Waiting(batch),
                          !.todo = Corrections(batch)]]
  /\ UNCHANGED <<now, segments, offset, sighted>>

\* sessionRecallFamiliesBeforeBatch reads the journal once more, for what lies before the
\* offset.  A segment it cannot read it leaves out, and all of them if it cannot list them.
ReadSeed(p, unread) ==
  /\ job[p].pc = "seed"
  /\ LET there == {x \in Readable : x[1] \notin unread}
         j == [x \in there |-> Journal[x]]
     IN  job' = [job EXCEPT ![p] =
           [@ EXCEPT !.pc = "decide", !.from = Start,
                     !.todo = {Seeded(c, j, job[p].from) : c \in job[p].todo}]]
  /\ UNCHANGED <<now, segments, offset, sighted>>

\* A failure that may still be corrected holds the whole batch: its time is in whole seconds,
\* the clock is not.
Decide(p) ==
  /\ job[p].pc = "decide"
  /\ IF \E at \in job[p].waiting : now - at <= Window
     THEN Finish(p)
     ELSE job' = [job EXCEPT ![p].pc = "derive", ![p].waiting = {}]
  /\ UNCHANGED <<now, segments, offset, sighted>>

\* One DeriveCandidate call, in the order of the batch.
Derive(p) ==
  /\ job[p].pc = "derive"
  /\ \E c \in job[p].todo :
       /\ \A d \in job[p].todo : d = c \/ Before(c.at, d.at)
       /\ sighted' = [sighted EXCEPT ![c.at] = IF @ < MaxSighted THEN @ + 1 ELSE @]
       /\ job' = [job EXCEPT ![p].todo = @ \ {c}]
  /\ UNCHANGED <<now, segments, offset>>

\* StoreJournalOffset replaces the file atomically.
StoreOffset(p) ==
  /\ job[p].pc = "derive" /\ job[p].todo = {}
  /\ offset' = job[p].next
  /\ Finish(p)
  /\ UNCHANGED <<now, segments, sighted>>

\* The process is killed, or the store or a file refuses a call and the pass gives up.
Abort(p) ==
  /\ job[p] # Idle
  /\ Finish(p)
  /\ UNCHANGED <<now, segments, offset, sighted>>

Tick ==
  /\ now < MaxNow
  /\ Slow \/ \A p \in Procs : job[p].pc \notin {"repair", "heal", "write", "seed", "decide"}
  /\ now' = now + 1
  /\ UNCHANGED <<segments, offset, sighted, job>>

Init ==
  /\ now = 0
  /\ segments = [d \in Days |-> NoSegment]
  /\ offset = Start
  /\ sighted = [x \in Positions |-> 0]
  /\ job = [p \in Procs |-> Idle]

Step(p) ==
  \/ Invoke(p)
  \/ RepairInspect(p) \/ RepairHeal(p) \/ Write(p) \/ WriteTorn(p) \/ Cleanup(p)
  \/ LoadOffset(p) \/ Read(p) \/ (\E unread \in SUBSET Existing : ReadSeed(p, unread))
  \/ Decide(p) \/ Derive(p) \/ StoreOffset(p) \/ Abort(p)

Next == Tick \/ \E p \in Procs : Step(p)

Spec == Init /\ [][Next]_vars

TypeOK ==
  /\ now \in 0 .. MaxNow
  /\ segments \in [Days -> Segment]
  /\ offset \in Offset
  /\ sighted \in [Positions -> 0 .. MaxSighted]
  /\ job \in [Procs -> Job]

(***************************************************************************)
(* What derivation promises.                                               *)
(***************************************************************************)

\* A correction the stored offset has left behind has been counted: neither a crash, a failed
\* upsert, a pass that stores a smaller offset than another one, a held batch nor a rollover
\* of segments lets a pass step over an observation.
\* Holds while no clock reading is stale when it is used (Slow is FALSE), of the corrections whose
\* stored time is within the window, not at its end: in the second that ends the window a pass
\* gives the failure up, and a correction written in the same second still pairs with it.
NothingSkipped ==
  LET j == Journal
  IN  \A y \in DOMAIN j : ~Before(<<offset.day, offset.line>>, y) =>
        \A x \in DOMAIN j :
          Paired(j, x, y) /\ j[y].at - j[x].at < Window => sighted[x] >= 1

\* "Every observation is counted exactly once" (derive.go).
CountedOnce == \A x \in Positions : sighted[x] <= 1

\* The batch is read before the seed is, and lines are added and segments removed in between.  Yet
\* if every segment is read, a correction goes to the last recall of its session before the
\* failure that the journal still holds, and if it holds none, where the batch had put it.
\* Holds while no clock reading is stale when it is used: no line goes to a segment of the past.
AnchorsAgree ==
  [][\A p \in Procs : ReadSeed(p, {}) =>
       \A c \in job'[p].todo :
         LET j == Journal
             said == {x \in Recalls(j, c.session) : Before(x, c.at)}
         IN  IF said # {} THEN c.family = LastFamily(j, said)
             ELSE \E b \in job[p].todo : b.at = c.at /\ b.family = c.family]_vars

\* No success corrects two failures: a retry that fails again takes the place of the failure
\* before it, whatever sessions, torn lines and rollovers come between.
OneFailurePerSuccess ==
  LET j == Journal
  IN  \A x, z \in DOMAIN j :
        Paired(j, x, z) => \A y \in DOMAIN j : Paired(j, y, z) => x = y
=============================================================================
