--------------------------- MODULE EndpointLedger ---------------------------
(***************************************************************************)
(* The endpoint limiter of internal/platform/ratelimit.go.  Every request  *)
(* of every process passes Wait, which reserves a slot in a token bucket   *)
(* kept in a file (the ledger) under a lock file made with O_EXCL.  A lock *)
(* file older than two minutes is taken for abandoned and removed.         *)
(*                                                                         *)
(* Time is counted in ticks and tokens in units of 1/Interval, so that a   *)
(* tick refills Steady units and a request costs Interval of them.         *)
(***************************************************************************)
EXTENDS Integers, FiniteSets

CONSTANTS
  Procs,          \* processes, or limiters of one process
  Steady,         \* requests per Interval ticks, once the burst is spent
  Interval,
  Burst,          \* the capacity of the bucket, in requests
  Stale,          \* the age above which a lock file is abandoned
  MaxCrashes, MaxRequests, MaxNow  \* bounds of the model

ASSUME BudgetAssumption ==  \* EndpointBudget.Validate
  Steady \in Nat \ {0} /\ Interval \in Nat \ {0} /\ Burst \in Nat \ {0} /\ Stale \in Nat \ {0}
ASSUME BoundsAssumption ==
  IsFiniteSet(Procs) /\ MaxCrashes \in Nat /\ MaxRequests \in Nat \ {0} /\ MaxNow \in Nat

VARIABLES
  now,      \* the wall clock
  ledger,   \* the ledger file
  lock,     \* the time the lock file was made, or NoLock
  granted,  \* the slots of the requests Wait has let through
  job       \* job[p]: the call of Wait in process p

vars == <<now, ledger, lock, granted, job>>

Capacity == Burst * Interval
NoLock == -1
NoLedger == [tokens |-> 0, at |-> -1]  \* no file: the zero ledger, with a zero UpdatedAt
Ledger == [tokens : 0 .. Capacity, at : Nat] \cup {NoLedger}

Job == [pc : {"idle", "lock", "break", "read", "write", "release", "dead"},
        since : Nat,       \* when it made its lock file
        next : Ledger,     \* the ledger it is going to write
        slot : Nat,        \* the time its request may start at
        requests : 0 .. MaxRequests]

Goto(p, label) == job' = [job EXCEPT ![p].pc = label]
Finish(p) == job' = [job EXCEPT ![p].pc = "idle", ![p].since = 0, ![p].slot = 0,
                                ![p].next = NoLedger]

Critical(p) == job[p].pc \in {"read", "write", "release"}
Crashed == {p \in Procs : job[p].pc = "dead"}

(***************************************************************************)
(* The arithmetic of Wait.                                                 *)
(***************************************************************************)
Least(m, n) == IF m <= n THEN m ELSE n

Refilled(l, t) ==
  IF l = NoLedger THEN [tokens |-> Capacity, at |-> t]
  ELSE IF l.at < t
       THEN [tokens |-> Least(Capacity, l.tokens + Steady * (t - l.at)), at |-> t] ELSE l

\* Mutant of Refill: the quotient is truncated.
RefillTruncated(tokens) == (Interval - tokens) \div Steady

\* The ticks until a bucket with less than one token has one: math.Ceil.
Refill(tokens) == (Interval - tokens + Steady - 1) \div Steady

\* A bucket with a token gives it away; an empty one is moved to the tick of its next token.
Reserved(l, t) ==
  LET r == Refilled(l, t)
  IN  IF r.tokens >= Interval THEN [r EXCEPT !.tokens = @ - Interval]
      ELSE [tokens |-> 0, at |-> r.at + Refill(r.tokens)]

SlotOf(l, t) == IF Refilled(l, t).tokens >= Interval THEN t ELSE Reserved(l, t).at

(***************************************************************************)
(* Wait, statement by statement.                                           *)
(***************************************************************************)
Request(p) ==
  /\ job[p].pc = "idle" /\ job[p].requests < MaxRequests
  /\ job' = [job EXCEPT ![p].pc = "lock", ![p].requests = @ + 1]
  /\ UNCHANGED <<now, ledger, lock, granted>>

Acquire(p) ==
  /\ job[p].pc = "lock"
  /\ lock = NoLock
  /\ lock' = now
  /\ job' = [job EXCEPT ![p].pc = "read", ![p].since = now]
  /\ UNCHANGED <<now, ledger, granted>>

\* Mutant of Abandoned: no lock file is ever taken for abandoned.
AbandonedNever(since) == since > now

Abandoned(since) == since # NoLock /\ now - since > Stale

\* The lock file exists and is old.  It is removed in a system call of its own.
FindStale(p) ==
  /\ job[p].pc = "lock"
  /\ Abandoned(lock)
  /\ Goto(p, "break")
  /\ UNCHANGED <<now, ledger, lock, granted>>

Break(p) ==
  /\ job[p].pc = "break"
  /\ lock' = NoLock
  /\ Goto(p, "lock")
  /\ UNCHANGED <<now, ledger, granted>>

\* The context ends while the process polls for the lock.
GiveUp(p) ==
  /\ job[p].pc = "lock"
  /\ Finish(p)
  /\ UNCHANGED <<now, ledger, lock, granted>>

\* Read the clock and the file and work out the reservation.
ReadLedger(p) ==
  /\ job[p].pc = "read"
  /\ job' = [job EXCEPT ![p].pc = "write", ![p].next = Reserved(ledger, now),
                        ![p].slot = SlotOf(ledger, now)]
  /\ UNCHANGED <<now, ledger, lock, granted>>

\* Replace the file by renaming, or fail and release the lock with an error.
WriteLedger(p) ==
  /\ job[p].pc = "write"
  /\ ledger' = job[p].next
  /\ Goto(p, "release")
  /\ UNCHANGED <<now, lock, granted>>

WriteFails(p) ==
  /\ job[p].pc = "write"
  /\ lock' = NoLock
  /\ Finish(p)
  /\ UNCHANGED <<now, ledger, granted>>

\* Remove the lock file, whoever made it, and sleep until the slot; a sleep that is
\* cancelled lets no request through.
Release(p) ==
  /\ job[p].pc = "release"
  /\ lock' = NoLock
  /\ \/ granted' = granted \cup {[by |-> p, n |-> job[p].requests, slot |-> job[p].slot]}
     \/ UNCHANGED granted
  /\ Finish(p)
  /\ UNCHANGED <<now, ledger>>

\* A killed process leaves its lock file behind.  Not so late (a bound) that the model's
\* clock would end before the file is old.
Crash(p) ==
  /\ job[p].pc \notin {"idle", "dead"}
  /\ Cardinality(Crashed) < MaxCrashes /\ now + Stale < MaxNow
  /\ job' = [job EXCEPT ![p].pc = "dead", ![p].since = 0, ![p].slot = 0, ![p].next = NoLedger]
  /\ UNCHANGED <<now, ledger, lock, granted>>

\* Reading and writing the ledger takes less than the two minutes of Stale: a holder that
\* lives is never older.
Tick ==
  /\ now < MaxNow
  /\ \A p \in Procs : Critical(p) => now - job[p].since < Stale
  /\ now' = now + 1
  /\ UNCHANGED <<ledger, lock, granted, job>>

Init ==
  /\ now = 0
  /\ ledger = NoLedger
  /\ lock = NoLock
  /\ granted = {}
  /\ job = [p \in Procs |-> [pc |-> "idle", since |-> 0, next |-> NoLedger, slot |-> 0,
                             requests |-> 0]]

Working(p) ==
  \/ Acquire(p) \/ FindStale(p) \/ Break(p)
  \/ ReadLedger(p) \/ WriteLedger(p) \/ WriteFails(p) \/ Release(p)

Next == Tick \/ \E p \in Procs : Request(p) \/ Working(p) \/ GiveUp(p) \/ Crash(p)

\* The clock runs, and a process that can go on does; nothing forces a request, a
\* cancellation or a crash.
Fairness == WF_vars(Tick) /\ \A p \in Procs : WF_vars(Working(p))

Spec == Init /\ [][Next]_vars /\ Fairness

TypeOK ==
  /\ now \in 0 .. MaxNow
  /\ ledger \in Ledger
  /\ lock \in 0 .. now \cup {NoLock}
  /\ granted \subseteq [by : Procs, n : 1 .. MaxRequests, slot : Nat]
  /\ job \in [Procs -> Job]

\* The budget holds across processes: the requests of any stretch of time are at most the
\* burst and what the steady rate refills in that time, whichever processes sent them.
WithinBudget ==
  \A first, last \in granted : first.slot <= last.slot =>
    Interval * Cardinality({g \in granted : first.slot <= g.slot /\ g.slot <= last.slot})
      <= Interval * Burst + Steady * (last.slot - first.slot)

\* A process that asks for the lock gets it or gives up, even when the holder was killed.
NobodyStuck == \A p \in Procs : job[p].pc = "lock" ~> job[p].pc # "lock"
=============================================================================
