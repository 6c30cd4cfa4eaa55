------------------------------ MODULE LedgerProofs -----------------------------
EXTENDS EndpointLedger, FiniteSetTheorems, TLAPS

(***************************************************************************)
(* The lock file.                                                          *)
(***************************************************************************)

\* No more than one process can find the lock file of a process that was killed: none is killed,
\* or there is only one other.  With three processes, two may find it and the second remove the
\* lock file the first has made since (the run LedgerBroken).
OneBreaker == MaxCrashes = 0 \/ Cardinality(Procs) <= 2

\* The constants, one fact at a time.
LEMMA LedgerConstants ==
  /\ Steady \in Nat \ {0} /\ Interval \in Nat \ {0} /\ Burst \in Nat \ {0} /\ Stale \in Nat \ {0}
  /\ IsFiniteSet(Procs) /\ MaxCrashes \in Nat /\ MaxRequests \in Nat \ {0} /\ MaxNow \in Nat
  BY BudgetAssumption, BoundsAssumption

\* The bucket holds at least one request.
LEMMA CapacityFits == Capacity \in Nat /\ Interval <= Capacity /\ Capacity = Interval * Burst
<1>1. Interval \in Nat /\ Burst \in Nat /\ Burst >= 1 /\ Interval >= 1
  BY LedgerConstants
<1> DEFINE more == Burst - 1
<1>2. more \in Nat /\ Burst = more + 1
  BY <1>1
<1> HIDE DEF more
<1>3. Burst * Interval = more * Interval + Interval /\ more * Interval \in Nat
  BY <1>1, <1>2
<1> QED BY <1>1, <1>3 DEF Capacity

\* While a holder lives, the lock file is its own and is not old; a process about to remove an old
\* one is the only one that lives.
Held ==
  /\ \A p, q \in Procs : Critical(p) /\ Critical(q) => p = q
  /\ \A p \in Procs : Critical(p) => lock = job[p].since /\ now - job[p].since <= Stale
  /\ \A p, q \in Procs : job[p].pc = "break" /\ p # q => job[q].pc = "dead"
  /\ lock # NoLock => \E p \in Procs : Critical(p) \/ job[p].pc = "dead"
  /\ MaxCrashes = 0 => \A p \in Procs : job[p].pc # "dead"

\* A call under way has been counted.
Counted ==
  \A p \in Procs : job[p].pc \notin {"idle", "dead"} => job[p].requests \in 1 .. MaxRequests
LockInv == TypeOK /\ Held /\ Counted

\* Two processes: one that is not the first is the second.
LEMMA TwoProcs ==
  ASSUME Cardinality(Procs) <= 2, NEW p \in Procs, NEW q \in Procs, p # q
  PROVE  \A r \in Procs : r = p \/ r = q
<1> SUFFICES ASSUME NEW r \in Procs, r # p, r # q PROVE FALSE
  OBVIOUS
<1> DEFINE one == {p}
           two == {p, q}
           three == {p, q, r}
<1>1. IsFiniteSet(one) /\ Cardinality(one) = 1
  BY FS_Singleton
<1>2. q \notin one /\ two = one \cup {q}
  OBVIOUS
<1>3. r \notin two /\ three = two \cup {r} /\ three \subseteq Procs
  OBVIOUS
<1> HIDE DEF one, two, three
<1>4. IsFiniteSet(two) /\ Cardinality(two) = 2
  <2>1. IsFiniteSet(one \cup {q}) /\ Cardinality(one \cup {q}) = Cardinality(one) + 1
    BY <1>1, <1>2, FS_AddElement
  <2> QED BY <1>1, <1>2, <2>1
<1>5. IsFiniteSet(three) /\ Cardinality(three) = 3
  <2>1. IsFiniteSet(two \cup {r}) /\ Cardinality(two \cup {r}) = Cardinality(two) + 1
    BY <1>3, <1>4, FS_AddElement
  <2> QED BY <1>3, <1>4, <2>1
<1>6. Cardinality(three) <= Cardinality(Procs)
  BY <1>3, LedgerConstants, FS_Subset
<1>7. Cardinality(Procs) \in Nat
  BY LedgerConstants, FS_CardinalityType
<1> QED BY <1>5, <1>6, <1>7

\* What TypeOK says of a job.
LEMMA JobFields ==
  ASSUME TypeOK, NEW p \in Procs
  PROVE  /\ job[p].pc \in {"idle", "lock", "break", "read", "write", "release", "dead"}
         /\ job[p].since \in Nat /\ job[p].next \in Ledger /\ job[p].slot \in Nat
         /\ job[p].requests \in 0 .. MaxRequests
  BY DEF TypeOK, Job

\* A step of p alone, that takes it to a label.
Moves(p, label) ==
  /\ \A q \in Procs : q # p => job'[q] = job[q]
  /\ job'[p].pc = label

\* The steps of p leave the other jobs alone.
LEMMA Own ==
  ASSUME TypeOK, NEW p \in Procs
  PROVE  /\ Request(p) => Moves(p, "lock")
         /\ Acquire(p) => Moves(p, "read") /\ job'[p].since = now
         /\ FindStale(p) => Moves(p, "break")
         /\ Break(p) => Moves(p, "lock")
         /\ GiveUp(p) => Moves(p, "idle")
         /\ ReadLedger(p) => /\ Moves(p, "write") /\ job'[p].since = job[p].since
                             /\ job'[p].next = Reserved(ledger, now)
                             /\ job'[p].slot = SlotOf(ledger, now)
         /\ WriteLedger(p) => /\ Moves(p, "release") /\ job'[p].since = job[p].since
                              /\ job'[p].slot = job[p].slot
         /\ WriteFails(p) => Moves(p, "idle")
         /\ Release(p) => Moves(p, "idle")
         /\ Crash(p) => Moves(p, "dead")
<1>1. job \in [Procs -> Job] /\ job[p] \in Job
  BY DEF TypeOK
<1>2. Request(p) => Moves(p, "lock")
  BY <1>1 DEF Request, Moves, Job
<1>3. Acquire(p) => Moves(p, "read") /\ job'[p].since = now
  BY <1>1 DEF Acquire, Moves, Job
<1>4. FindStale(p) => Moves(p, "break")
  BY <1>1 DEF FindStale, Goto, Moves, Job
<1>5. Break(p) => Moves(p, "lock")
  BY <1>1 DEF Break, Goto, Moves, Job
<1>6. Finish(p) => Moves(p, "idle")
  BY <1>1 DEF Finish, Moves, Job
<1>7. ReadLedger(p) => /\ Moves(p, "write") /\ job'[p].since = job[p].since
                       /\ job'[p].next = Reserved(ledger, now)
                       /\ job'[p].slot = SlotOf(ledger, now)
  BY <1>1 DEF ReadLedger, Moves, Job
<1>8. WriteLedger(p) => /\ Moves(p, "release") /\ job'[p].since = job[p].since
                        /\ job'[p].slot = job[p].slot
  BY <1>1 DEF WriteLedger, Goto, Moves, Job
<1>9. Crash(p) => Moves(p, "dead")
  BY <1>1 DEF Crash, Moves, Job
<1> QED BY <1>2, <1>3, <1>4, <1>5, <1>6, <1>7, <1>8, <1>9 DEF GiveUp, WriteFails, Release

(***************************************************************************)
(* The bucket.                                                             *)
(***************************************************************************)

\* A quotient of natural numbers, and what is left.
LEMMA Quotients ==
  ASSUME NEW n \in Nat, NEW d \in Nat \ {0}
  PROVE  n \div d \in Nat /\ d * (n \div d) <= n /\ n < d * (n \div d) + d
  OBVIOUS

\* The wait for a token is long enough for one.
LEMMA RefillFills ==
  ASSUME NEW tokens \in Nat, tokens < Interval
  PROVE  Refill(tokens) \in Nat /\ Steady * Refill(tokens) >= Interval - tokens
<1> DEFINE n == Interval - tokens + Steady - 1
           k == n \div Steady
<1>1. n \in Nat /\ Steady \in Nat \ {0} /\ n = Interval - tokens + Steady - 1 /\ Interval \in Nat
  BY LedgerConstants
<1>2. Refill(tokens) = k
  BY DEF Refill
<1> HIDE DEF n
<1>3. k \in Nat /\ n < Steady * k + Steady
  BY <1>1, Quotients
<1> HIDE DEF k
<1>4. Steady * k \in Nat
  BY <1>1, <1>3
<1> QED BY <1>1, <1>2, <1>3, <1>4

\* A bucket that is refilled is one, no older than the clock, and holds no more than what the
\* steady rate has added.
LEMMA RefilledFields ==
  ASSUME NEW l \in Ledger, NEW t \in Nat
  PROVE  /\ Refilled(l, t) \in [tokens : 0 .. Capacity, at : Nat]
         /\ t <= Refilled(l, t).at
         /\ l = NoLedger => Refilled(l, t) = [tokens |-> Capacity, at |-> t]
         /\ l # NoLedger =>
              /\ l \in [tokens : 0 .. Capacity, at : Nat]
              /\ l.at >= t => Refilled(l, t) = l
              /\ l.at < t => /\ Refilled(l, t).at = t
                             /\ Refilled(l, t).tokens <= l.tokens + Steady * (t - l.at)
<1>1. CASE l = NoLedger
  BY <1>1, CapacityFits DEF Refilled, NoLedger
<1>2. CASE l # NoLedger
  <2>1. l \in [tokens : 0 .. Capacity, at : Nat]
    BY <1>2 DEF Ledger
  <2>2. CASE l.at >= t
    BY <1>2, <2>1, <2>2 DEF Refilled
  <2>3. CASE l.at < t
    <3> DEFINE more == l.tokens + Steady * (t - l.at)
    <3>1. t - l.at \in Nat /\ Steady \in Nat
      BY <2>1, <2>3, LedgerConstants
    <3>2. Steady * (t - l.at) \in Nat
      BY <3>1
    <3>3. more \in Nat
      BY <2>1, <3>2
    <3>4. Refilled(l, t) = [tokens |-> Least(Capacity, more), at |-> t]
      BY <1>2, <2>3 DEF Refilled
    <3> HIDE DEF more
    <3>5. Least(Capacity, more) \in 0 .. Capacity /\ Least(Capacity, more) <= more
      BY <3>3, CapacityFits DEF Least
    <3>6. Refilled(l, t).tokens <= more
      BY <3>4, <3>5
    <3> QED BY <1>2, <2>1, <2>3, <3>4, <3>5, <3>6 DEF more
  <2> QED BY <2>1, <2>2, <2>3
<1> QED BY <1>1, <1>2

\* A reservation takes a token, or moves the bucket to the tick of its next one.
LEMMA ReservedFields ==
  ASSUME NEW l \in Ledger, NEW t \in Nat
  PROVE  LET r == Refilled(l, t) IN
         /\ Reserved(l, t) \in [tokens : 0 .. Capacity, at : Nat]
         /\ r.tokens >= Interval => /\ Reserved(l, t).tokens = r.tokens - Interval
                                    /\ Reserved(l, t).at = r.at
                                    /\ SlotOf(l, t) = t
         /\ r.tokens < Interval => /\ Reserved(l, t).tokens = 0
                                   /\ Reserved(l, t).at = r.at + Refill(r.tokens)
                                   /\ Refill(r.tokens) \in Nat
                                   /\ Steady * Refill(r.tokens) >= Interval - r.tokens
                                   /\ SlotOf(l, t) = Reserved(l, t).at
<1> DEFINE r == Refilled(l, t)
<1>1. r \in [tokens : 0 .. Capacity, at : Nat]
  BY RefilledFields
<1>2. Interval \in Nat \ {0} /\ Capacity \in Nat
  BY LedgerConstants, CapacityFits
<1>3. /\ r.tokens >= Interval => /\ Reserved(l, t) = [r EXCEPT !.tokens = @ - Interval]
                                 /\ SlotOf(l, t) = t
      /\ ~(r.tokens >= Interval) => /\ Reserved(l, t) = [tokens |-> 0, at |-> r.at + Refill(r.tokens)]
                                    /\ SlotOf(l, t) = Reserved(l, t).at
  BY DEF Reserved, SlotOf
<1> HIDE DEF r
<1>4. CASE r.tokens >= Interval
  BY <1>1, <1>2, <1>3, <1>4 DEF r
<1>5. CASE r.tokens < Interval
  <2>1. Refill(r.tokens) \in Nat /\ Steady * Refill(r.tokens) >= Interval - r.tokens
    BY <1>1, <1>5, RefillFills
  <2>2. ~(r.tokens >= Interval)
    BY <1>1, <1>2, <1>5
  <2> QED BY <1>1, <1>2, <1>3, <2>1, <2>2 DEF r
<1> QED BY <1>1, <1>2, <1>4, <1>5

(***************************************************************************)
(* The lock is held by one process at a time.                              *)
(***************************************************************************)

\* Nobody holds the lock at the start.
LEMMA LockInit == Init => LockInv
<1> SUFFICES ASSUME Init PROVE LockInv
  OBVIOUS
<1>1. \A p \in Procs : job[p] = [pc |-> "idle", since |-> 0, next |-> NoLedger, slot |-> 0, requests |-> 0]
  BY DEF Init
<1>2. 0 \in 0 .. MaxRequests /\ 0 \in 0 .. MaxNow
  BY LedgerConstants
<1>3. TypeOK
  BY <1>1, <1>2 DEF Init, TypeOK, Job, Ledger
<1>4. Held /\ Counted
  BY <1>1 DEF Init, Held, Counted, Critical
<1> QED BY <1>3, <1>4 DEF LockInv

\* A job whose call is over keeps its count only.
LEMMA Cleared ==
  ASSUME NEW j \in Job, NEW label
  PROVE  [[[[j EXCEPT !.pc = label] EXCEPT !.since = 0] EXCEPT !.slot = 0] EXCEPT !.next = NoLedger]
           = [pc |-> label, since |-> 0, next |-> NoLedger, slot |-> 0, requests |-> j.requests]
<1>1. j = [pc |-> j.pc, since |-> j.since, next |-> j.next, slot |-> j.slot, requests |-> j.requests]
  BY DEF Job
<1>2. [j EXCEPT !.pc = label]
        = [pc |-> label, since |-> j.since, next |-> j.next, slot |-> j.slot, requests |-> j.requests]
  BY <1>1
<1> DEFINE a == [pc |-> label, since |-> j.since, next |-> j.next, slot |-> j.slot,
                 requests |-> j.requests]
           b == [pc |-> label, since |-> 0, next |-> j.next, slot |-> j.slot, requests |-> j.requests]
           c == [pc |-> label, since |-> 0, next |-> j.next, slot |-> 0, requests |-> j.requests]
<1>3. [a EXCEPT !.since = 0] = b
  OBVIOUS
<1>4. [b EXCEPT !.slot = 0] = c
  OBVIOUS
<1>5. [c EXCEPT !.next = NoLedger]
        = [pc |-> label, since |-> 0, next |-> NoLedger, slot |-> 0, requests |-> j.requests]
  OBVIOUS
<1> QED BY <1>2, <1>3, <1>4, <1>5

\* What a step does to the types, one action at a time.
LEMMA LedgerTyped == LockInv /\ [Next]_vars => TypeOK'
<1> SUFFICES ASSUME LockInv, [Next]_vars PROVE TypeOK'
  OBVIOUS
<1>1. /\ now \in 0 .. MaxNow /\ ledger \in Ledger /\ lock \in 0 .. now \cup {NoLock}
      /\ granted \subseteq [by : Procs, n : 1 .. MaxRequests, slot : Nat]
      /\ job \in [Procs -> Job] /\ TypeOK
  BY DEF LockInv, TypeOK
<1>2. NoLedger \in Ledger /\ now \in Nat
  BY <1>1 DEF Ledger
<1>3. \A p \in Procs : job[p] \in Job
  BY <1>1
<1>4. ASSUME NEW p \in Procs, Finish(p) PROVE job' \in [Procs -> Job]
  <2> DEFINE done == [pc |-> "idle", since |-> 0, next |-> NoLedger, slot |-> 0,
                      requests |-> job[p].requests]
  <2>1. done \in Job
    BY <1>2, <1>3 DEF Job
  <2>2. job' = [job EXCEPT ![p] = done]
    <3>1. job' = [job EXCEPT ![p] = [[[[job[p] EXCEPT !.pc = "idle"] EXCEPT !.since = 0]
                                       EXCEPT !.slot = 0] EXCEPT !.next = NoLedger]]
      BY <1>1, <1>4 DEF Finish
    <3>2. [[[[job[p] EXCEPT !.pc = "idle"] EXCEPT !.since = 0]
              EXCEPT !.slot = 0] EXCEPT !.next = NoLedger] = done
      BY <1>3, Cleared
    <3> QED BY <3>1, <3>2
  <2> HIDE DEF done
  <2> QED BY <1>1, <2>1, <2>2
<1>5. CASE Tick
  <2>1. now' \in 0 .. MaxNow /\ now' = now + 1 /\ UNCHANGED <<ledger, lock, granted, job>>
    BY <1>1, <1>5, LedgerConstants DEF Tick
  <2>2. lock' \in 0 .. now' \cup {NoLock}
    BY <1>1, <2>1
  <2> QED BY <1>1, <2>1, <2>2 DEF TypeOK
<1>6. ASSUME NEW p \in Procs, Request(p) PROVE TypeOK'
  <2>1. job[p].requests + 1 \in 0 .. MaxRequests
    BY <1>3, <1>6, LedgerConstants DEF Request, Job
  <2>2. job' = [job EXCEPT ![p].pc = "lock", ![p].requests = @ + 1] /\ UNCHANGED <<now, ledger, lock, granted>>
    BY <1>6 DEF Request
  <2>3. job' \in [Procs -> Job]
    BY <1>1, <1>3, <2>1, <2>2 DEF Job
  <2> QED BY <1>1, <2>2, <2>3 DEF TypeOK
<1>7. ASSUME NEW p \in Procs, Acquire(p) PROVE TypeOK'
  <2>1. job' \in [Procs -> Job]
    BY <1>1, <1>2, <1>3, <1>7 DEF Acquire, Job
  <2>2. lock' \in 0 .. now \cup {NoLock} /\ UNCHANGED <<now, ledger, granted>>
    BY <1>1, <1>7 DEF Acquire
  <2> QED BY <1>1, <2>1, <2>2 DEF TypeOK
<1>8. ASSUME NEW p \in Procs, FindStale(p) \/ Break(p) PROVE TypeOK'
  <2>1. job' \in [Procs -> Job]
    BY <1>1, <1>3, <1>8 DEF FindStale, Break, Goto, Job
  <2>2. lock' \in 0 .. now \cup {NoLock} /\ UNCHANGED <<now, ledger, granted>>
    BY <1>1, <1>8 DEF FindStale, Break
  <2> QED BY <1>1, <2>1, <2>2 DEF TypeOK
<1>9. ASSUME NEW p \in Procs, GiveUp(p) \/ WriteFails(p) PROVE TypeOK'
  <2>1. job' \in [Procs -> Job]
    BY <1>4, <1>9 DEF GiveUp, WriteFails
  <2>2. lock' \in 0 .. now \cup {NoLock} /\ UNCHANGED <<now, ledger, granted>>
    BY <1>1, <1>9 DEF GiveUp, WriteFails
  <2> QED BY <1>1, <2>1, <2>2 DEF TypeOK
<1>10. ASSUME NEW p \in Procs, ReadLedger(p) PROVE TypeOK'
  <2> DEFINE next == Reserved(ledger, now)
             slot == SlotOf(ledger, now)
  <2>1. next \in [tokens : 0 .. Capacity, at : Nat]
    BY <1>1, <1>2, ReservedFields
  <2>2. slot = now \/ slot = next.at
    BY DEF SlotOf
  <2>3. slot \in Nat /\ next \in Ledger
    BY <1>2, <2>1, <2>2 DEF Ledger
  <2>4. /\ job' = [job EXCEPT ![p].pc = "write", ![p].next = next, ![p].slot = slot]
        /\ UNCHANGED <<now, ledger, lock, granted>>
    BY <1>10 DEF ReadLedger
  <2> HIDE DEF next, slot
  <2>5. job' \in [Procs -> Job]
    BY <1>1, <1>3, <2>3, <2>4 DEF Job
  <2> QED BY <1>1, <2>4, <2>5 DEF TypeOK
<1>11. ASSUME NEW p \in Procs, WriteLedger(p) PROVE TypeOK'
  <2>1. job' \in [Procs -> Job]
    BY <1>1, <1>3, <1>11 DEF WriteLedger, Goto, Job
  <2>2. ledger' \in Ledger /\ UNCHANGED <<now, lock, granted>>
    BY <1>1, <1>11, JobFields DEF WriteLedger
  <2> QED BY <1>1, <2>1, <2>2 DEF TypeOK
<1>12. ASSUME NEW p \in Procs, Release(p) PROVE TypeOK'
  <2>1. job' \in [Procs -> Job] /\ lock' = NoLock /\ UNCHANGED <<now, ledger>>
    BY <1>4, <1>12 DEF Release
  <2>2. job[p].requests \in 1 .. MaxRequests /\ job[p].slot \in Nat
    BY <1>1, <1>12, JobFields DEF Release, LockInv, Counted
  <2>3. granted' \subseteq [by : Procs, n : 1 .. MaxRequests, slot : Nat]
    BY <1>1, <1>12, <2>2 DEF Release
  <2> QED BY <1>1, <2>1, <2>3 DEF TypeOK
<1>13. ASSUME NEW p \in Procs, Crash(p) PROVE TypeOK'
  <2> DEFINE dead == [pc |-> "dead", since |-> 0, next |-> NoLedger, slot |-> 0,
                      requests |-> job[p].requests]
  <2>1. dead \in Job
    BY <1>2, <1>3 DEF Job
  <2>3. job' = [job EXCEPT ![p] = dead]
    <3>1. job' = [job EXCEPT ![p] = [[[[job[p] EXCEPT !.pc = "dead"] EXCEPT !.since = 0]
                                       EXCEPT !.slot = 0] EXCEPT !.next = NoLedger]]
      BY <1>1, <1>13 DEF Crash
    <3>2. [[[[job[p] EXCEPT !.pc = "dead"] EXCEPT !.since = 0]
              EXCEPT !.slot = 0] EXCEPT !.next = NoLedger] = dead
      BY <1>3, Cleared
    <3> QED BY <3>1, <3>2
  <2> HIDE DEF dead
  <2>4. job' \in [Procs -> Job]
    BY <1>1, <2>1, <2>3
  <2>2. UNCHANGED <<now, ledger, lock, granted>>
    BY <1>13 DEF Crash
  <2> QED BY <1>1, <2>2, <2>4 DEF TypeOK
<1>14. CASE UNCHANGED vars
  BY <1>1, <1>14 DEF vars, TypeOK
<1> QED BY <1>5, <1>6, <1>7, <1>8, <1>9, <1>10, <1>11, <1>12, <1>13, <1>14 DEF Next, Working

\* And to the count of calls.
LEMMA LedgerCounted == LockInv /\ [Next]_vars => Counted'
<1> SUFFICES ASSUME LockInv, [Next]_vars, NEW q \in Procs, job'[q].pc \notin {"idle", "dead"}
             PROVE  job'[q].requests \in 1 .. MaxRequests
  BY DEF Counted
<1>1. TypeOK /\ Counted /\ job \in [Procs -> Job] /\ job[q] \in Job
  BY DEF LockInv, TypeOK
<1>2. CASE job' = job
  BY <1>1, <1>2 DEF Counted
<1>3. ASSUME NEW p \in Procs, Request(p) \/ Working(p) \/ GiveUp(p) \/ Crash(p)
      PROVE  job'[q].requests \in 1 .. MaxRequests
  <2>1. CASE p # q
    <3>1. job'[q] = job[q]
      BY <1>1, <1>3, <2>1, Own DEF Working, Moves
    <3> QED BY <1>1, <3>1 DEF Counted
  <2>2. CASE p = q
    <3>1. CASE Request(q)
      <4>1. job'[q].requests = job[q].requests + 1 /\ job[q].requests < MaxRequests
        BY <1>1, <3>1 DEF Request, Job
      <4> QED BY <1>1, <4>1, LedgerConstants DEF Job
    <3>2. CASE Acquire(q) \/ FindStale(q) \/ Break(q) \/ ReadLedger(q) \/ WriteLedger(q)
      <4>1. job'[q].requests = job[q].requests /\ job[q].pc \notin {"idle", "dead"}
        BY <1>1, <3>2 DEF Acquire, FindStale, Break, ReadLedger, WriteLedger, Goto, Job
      <4> QED BY <1>1, <4>1 DEF Counted
    <3>3. CASE WriteFails(q) \/ Release(q) \/ GiveUp(q) \/ Crash(q)
      BY <1>1, <3>3, Own DEF Moves
    <3> QED BY <1>3, <2>2, <3>1, <3>2, <3>3 DEF Working
  <2> QED BY <2>1, <2>2
<1>4. CASE UNCHANGED vars
  BY <1>2, <1>4 DEF vars
<1>5. CASE Tick
  BY <1>2, <1>5 DEF Tick
<1> QED BY <1>3, <1>4, <1>5 DEF Next

\* A lock file is found to be old only after its maker was killed, by the one process left.
LEMMA FoundAlone ==
  ASSUME OneBreaker, LockInv, NEW p \in Procs, FindStale(p)
  PROVE  \A q \in Procs : q # p => job[q].pc = "dead"
<1>1. /\ job[p].pc = "lock" /\ lock # NoLock /\ now - lock > Stale
      /\ now \in Nat /\ Stale \in Nat
  BY LedgerConstants DEF FindStale, Abandoned, LockInv, TypeOK
<1>2. \A q \in Procs : ~Critical(q)
  <2>1. ASSUME NEW q \in Procs, Critical(q) PROVE FALSE
    <3>1. lock = job[q].since /\ now - job[q].since <= Stale /\ job[q].since \in Nat
      BY <2>1, JobFields DEF LockInv, Held
    <3> QED BY <1>1, <3>1
  <2> QED BY <2>1
<1>3. PICK q \in Procs : job[q].pc = "dead"
  BY <1>1, <1>2 DEF LockInv, Held
<1>4. q # p
  BY <1>1, <1>3
<1>5. Cardinality(Procs) <= 2
  BY <1>3 DEF OneBreaker, LockInv, Held
<1> QED BY <1>3, <1>4, <1>5, TwoProcs

\* A process is killed only if some may be.
LEMMA CrashAllowed ==
  ASSUME LockInv, NEW p \in Procs, Crash(p)
  PROVE  MaxCrashes # 0
<1>1. Cardinality(Crashed) < MaxCrashes
  BY DEF Crash
<1>2. Crashed \subseteq Procs
  BY DEF Crashed
<1>3. IsFiniteSet(Crashed)
  BY <1>2, LedgerConstants, FS_Subset
<1>4. Cardinality(Crashed) \in Nat
  BY <1>3, FS_CardinalityType
<1> QED BY <1>1, <1>4, LedgerConstants

\* Of the steps of a process, those that leave the lock and the holders alone, ...
LEMMA QuietHeld ==
  ASSUME OneBreaker, LockInv, NEW p \in Procs,
         Request(p) \/ GiveUp(p) \/ FindStale(p) \/ Crash(p)
  PROVE  Held'
<1>1. Held /\ TypeOK /\ UNCHANGED <<now, lock>>
  BY DEF LockInv, Request, GiveUp, FindStale, Crash
<1>2. /\ \A q \in Procs : q # p => job'[q] = job[q]
      /\ job'[p].pc \in {"lock", "idle", "break", "dead"}
      /\ job'[p].pc = "break" => FindStale(p)
      /\ job'[p].pc = "dead" <=> Crash(p)
  <2>1. CASE Request(p)
    BY <1>1, <2>1, Own DEF Moves, Request, Crash
  <2>2. CASE GiveUp(p)
    <3>1. Moves(p, "idle")
      BY <1>1, <2>2, Own
    <3>2. ~Crash(p)
      <4>1. SUFFICES ASSUME Crash(p) PROVE FALSE
        OBVIOUS
      <4>2. Moves(p, "dead")
        BY <1>1, <4>1, Own
      <4> QED BY <3>1, <4>2 DEF Moves
    <3> QED BY <3>1, <3>2 DEF Moves
  <2>3. CASE FindStale(p)
    <3>1. Moves(p, "break")
      BY <1>1, <2>3, Own
    <3>2. ~Crash(p)
      <4>1. SUFFICES ASSUME Crash(p) PROVE FALSE
        OBVIOUS
      <4>2. Moves(p, "dead")
        BY <1>1, <4>1, Own
      <4> QED BY <3>1, <4>2 DEF Moves
    <3> QED BY <2>3, <3>1, <3>2 DEF Moves
  <2>4. CASE Crash(p)
    BY <1>1, <2>4, Own DEF Moves
  <2> QED BY <2>1, <2>2, <2>3, <2>4
<1>3. job[p].pc # "dead"
  BY DEF Request, GiveUp, FindStale, Crash
<1>4. /\ \A q \in Procs : Critical(q)' => q # p /\ Critical(q)
      /\ \A q \in Procs : Critical(q) /\ q # p => Critical(q)'
  BY <1>2 DEF Critical
<1>5. \A q, r \in Procs : Critical(q)' /\ Critical(r)' => q = r
  BY <1>1, <1>4 DEF Held
<1>6. \A q \in Procs : Critical(q)' => lock' = job'[q].since /\ now' - job'[q].since <= Stale
  BY <1>1, <1>2, <1>4 DEF Held
<1>7. \A q, r \in Procs : job'[q].pc = "break" /\ q # r => job'[r].pc = "dead"
  <2>1. SUFFICES ASSUME NEW q \in Procs, NEW r \in Procs, job'[q].pc = "break", q # r
                 PROVE  job'[r].pc = "dead"
    OBVIOUS
  <2>2. CASE q = p
    <3>1. FindStale(p)
      BY <1>2, <2>1, <2>2
    <3>2. job[r].pc = "dead"
      BY <2>1, <2>2, <3>1, FoundAlone
    <3> QED BY <1>2, <2>1, <2>2, <3>2
  <2>3. CASE q # p
    BY <1>1, <1>2, <1>3, <2>1, <2>3 DEF Held
  <2> QED BY <2>2, <2>3
<1>8. lock' # NoLock => \E q \in Procs : Critical(q)' \/ job'[q].pc = "dead"
  <2>1. SUFFICES ASSUME lock # NoLock PROVE \E q \in Procs : Critical(q)' \/ job'[q].pc = "dead"
    BY <1>1
  <2>2. PICK q \in Procs : Critical(q) \/ job[q].pc = "dead"
    BY <1>1, <2>1 DEF Held
  <2>3. CASE q # p
    BY <1>2, <1>4, <2>2, <2>3
  <2>4. CASE q = p
    <3>1. Critical(p)
      BY <1>3, <2>2, <2>4
    <3>2. Crash(p)
      BY <3>1 DEF Critical, Request, GiveUp, FindStale
    <3> QED BY <1>2, <3>2
  <2> QED BY <2>3, <2>4
<1>9. MaxCrashes = 0 => \A q \in Procs : job'[q].pc # "dead"
  <2>1. SUFFICES ASSUME MaxCrashes = 0, NEW q \in Procs PROVE job'[q].pc # "dead"
    OBVIOUS
  <2>2. ~Crash(p)
    BY <2>1, CrashAllowed
  <2> QED BY <1>1, <1>2, <2>1, <2>2 DEF Held
<1> QED BY <1>5, <1>6, <1>7, <1>8, <1>9 DEF Held

\* ... those of a holder that remains one, ...
LEMMA HolderHeld ==
  ASSUME LockInv, NEW p \in Procs, ReadLedger(p) \/ WriteLedger(p)
  PROVE  Held'
<1>1. Held /\ TypeOK /\ UNCHANGED <<now, lock>> /\ Critical(p)
  BY DEF LockInv, ReadLedger, WriteLedger, Critical
<1>2. /\ \A q \in Procs : q # p => job'[q] = job[q]
      /\ job'[p].pc \in {"write", "release"} /\ job'[p].since = job[p].since
  BY <1>1, Own DEF Moves
<1>3. \A q \in Procs : Critical(q)' <=> Critical(q)
  BY <1>1, <1>2 DEF Critical
<1>4. \A q \in Procs : /\ job'[q].since = job[q].since
                       /\ job'[q].pc = "break" <=> job[q].pc = "break"
                       /\ job'[q].pc = "dead" <=> job[q].pc = "dead"
  BY <1>1, <1>2 DEF Critical
<1> QED BY <1>1, <1>3, <1>4 DEF Held

\* ... and those that make the lock file or remove it.
LEMMA LockingHeld ==
  ASSUME LockInv, NEW p \in Procs, Acquire(p) \/ Break(p) \/ WriteFails(p) \/ Release(p)
  PROVE  Held'
<1>1. Held /\ TypeOK /\ now' = now /\ now \in Nat /\ Stale \in Nat
  BY LedgerConstants DEF LockInv, TypeOK, Acquire, Break, WriteFails, Release
<1>2. /\ \A q \in Procs : q # p => job'[q] = job[q]
      /\ job'[p].pc \notin {"break", "dead"} /\ job[p].pc # "dead"
  BY <1>1, Own DEF Moves, Acquire, Break, WriteFails, Release
<1>3. \A q \in Procs : job[q].since # NoLock
  BY <1>1, JobFields DEF NoLock
<1>4. \A q \in Procs : q # p => ~Critical(q)
  <2>1. CASE Acquire(p)
    BY <1>1, <1>3, <2>1 DEF Acquire, Held
  <2>2. CASE Break(p)
    BY <1>1, <2>2 DEF Break, Held, Critical
  <2>3. CASE WriteFails(p) \/ Release(p)
    BY <1>1, <2>3 DEF WriteFails, Release, Held, Critical
  <2> QED BY <2>1, <2>2, <2>3
<1>5. \A q, r \in Procs : job'[q].pc = "break" /\ q # r => job'[r].pc = "dead"
  BY <1>1, <1>2 DEF Held
<1>6. MaxCrashes = 0 => \A q \in Procs : job'[q].pc # "dead"
  BY <1>1, <1>2 DEF Held
<1>7. \A q \in Procs : Critical(q)' => q = p
  BY <1>2, <1>4 DEF Critical
<1>8. Critical(p)' => lock' = job'[p].since /\ now' - job'[p].since <= Stale
  <2>1. CASE Acquire(p)
    <3>1. lock' = now /\ job'[p].since = now
      BY <1>1, <2>1, Own DEF Acquire
    <3> QED BY <1>1, <3>1
  <2>2. CASE Break(p) \/ WriteFails(p) \/ Release(p)
    <3>1. job'[p].pc \in {"lock", "idle"}
      BY <1>1, <2>2, Own DEF Moves
    <3> QED BY <3>1 DEF Critical
  <2> QED BY <2>1, <2>2
<1>9. lock' # NoLock => Critical(p)'
  <2>1. CASE Acquire(p)
    <3>1. job'[p].pc = "read"
      BY <1>1, <2>1, Own DEF Moves
    <3> QED BY <3>1 DEF Critical
  <2>2. CASE Break(p) \/ WriteFails(p) \/ Release(p)
    BY <2>2 DEF Break, WriteFails, Release
  <2> QED BY <2>1, <2>2
<1> QED BY <1>5, <1>6, <1>7, <1>8, <1>9 DEF Held

\* A holder that lives lets the clock run only as far as its lock is not old.
LEMMA TickHeld == LockInv /\ Tick => Held'
<1> SUFFICES ASSUME LockInv, Tick PROVE Held'
  OBVIOUS
<1>1. Held /\ TypeOK /\ now \in Nat /\ now' = now + 1 /\ UNCHANGED <<lock, job>> /\ Stale \in Nat
  BY LedgerConstants DEF LockInv, TypeOK, Tick
<1>2. \A p \in Procs : Critical(p) => now - job[p].since < Stale /\ job[p].since \in Nat
  BY <1>1, JobFields DEF Tick
<1>3. \A p \in Procs : Critical(p)' <=> Critical(p)
  BY <1>1 DEF Critical
<1>4. \A p \in Procs : Critical(p) => now' - job[p].since <= Stale
  BY <1>1, <1>2
<1> QED BY <1>1, <1>3, <1>4 DEF Held

\* Every step keeps the lock to one process.
LEMMA LockKept == OneBreaker /\ LockInv /\ [Next]_vars => LockInv'
<1> SUFFICES ASSUME OneBreaker, LockInv, [Next]_vars PROVE LockInv'
  OBVIOUS
<1>1. TypeOK' /\ Counted'
  BY LedgerTyped, LedgerCounted
<1>2. Held'
  <2>1. CASE Tick
    BY <2>1, TickHeld
  <2>2. CASE \E p \in Procs : Request(p) \/ Working(p) \/ GiveUp(p) \/ Crash(p)
    BY <2>2, QuietHeld, HolderHeld, LockingHeld DEF Working
  <2>3. CASE UNCHANGED vars
    BY <2>3 DEF vars, LockInv, Held, Critical
  <2> QED BY <2>1, <2>2, <2>3 DEF Next
<1> QED BY <1>1, <1>2 DEF LockInv

(***************************************************************************)
(* What the ledger still allows covers what it has granted.                *)
(***************************************************************************)

\* The requests granted a slot from x on, and one that is about to be.
Since(x) == {g \in granted : x <= g.slot}
Within(x, y) == {g \in granted : x <= g.slot /\ g.slot <= y}
Pending == IF \E p \in Procs : job[p].pc = "release" THEN 1 ELSE 0

\* What the ledger accounts for from x on: the burst it no longer holds, and the time it has
\* moved ahead.
Accounted(l, x) == Capacity - l.tokens + Steady * (l.at - x)

\* The requests from any x on, with the one that holds the lock, fit into what is accounted for.
Covered == \A x \in Nat : x <= ledger.at => Interval * (Cardinality(Since(x)) + Pending) <= Accounted(ledger, x)

\* So do those of any stretch of time, at the burst and the steady rate.
Bounded ==
  \A x, y \in Nat : x <= y => Interval * Cardinality(Within(x, y)) <= Capacity + Steady * (y - x)

\* The holder of the lock reserves in the ledger that is there, and its slot is the time the
\* ledger is moved to.
ReservedAt(j, t) == j.next = Reserved(ledger, t) /\ (ledger.at > t => ledger.tokens < Interval)
Reserving ==
  /\ \A p \in Procs : job[p].pc = "write" =>
       /\ \E t \in 0 .. now : ReservedAt(job[p], t)
       /\ job[p].slot = job[p].next.at
  /\ \A p \in Procs : job[p].pc = "release" => job[p].slot = ledger.at /\ ledger # NoLedger

BudgetInv ==
  /\ LockInv /\ IsFiniteSet(granted)
  /\ ledger = NoLedger => granted = {}
  /\ \A g \in granted : g.slot <= ledger.at
  /\ ledger.at > now => ledger.tokens < Interval
  /\ Reserving
  /\ ledger # NoLedger => Covered
  /\ Bounded

\* The products of the account.
LEMMA Products ==
  /\ \A m, n \in Nat : m * n \in Nat
  /\ \A m, n \in Nat : m * (n + 1) = m * n + m
  /\ \A m, i, k \in Nat : m * (i + k) = m * i + m * k
  OBVIOUS

\* A stretch of time is the sum of its parts.
LEMMA SteadyAdds ==
  ASSUME NEW x \in Int, NEW y \in Int, NEW z \in Int, x <= y, y <= z
  PROVE  /\ Steady * (z - x) = Steady * (z - y) + Steady * (y - x)
         /\ Steady * (z - y) \in Nat /\ Steady * (y - x) \in Nat
<1> DEFINE i == z - y
           k == y - x
<1>1. i \in Nat /\ k \in Nat /\ z - x = i + k /\ Steady \in Nat
  BY LedgerConstants
<1> HIDE DEF i, k
<1>2. Steady * (i + k) = Steady * i + Steady * k /\ Steady * i \in Nat /\ Steady * k \in Nat
  BY <1>1, Products
<1> QED BY <1>1, <1>2 DEF i, k

\* What a stretch of time refills.
LEMMA SteadyNat ==
  ASSUME NEW x \in Int, NEW y \in Int, x <= y
  PROVE  Steady * (y - x) \in Nat
<1>1. y <= y /\ y \in Int
  OBVIOUS
<1> QED BY <1>1, SteadyAdds

\* A larger number of requests needs a larger part of the budget.
LEMMA CostGrows ==
  ASSUME NEW m \in Nat, NEW n \in Nat, m <= n
  PROVE  Interval * m <= Interval * n /\ Interval * m \in Nat /\ Interval * n \in Nat
<1> DEFINE k == n - m
<1>1. k \in Nat /\ n = m + k /\ Interval \in Nat
  BY LedgerConstants
<1> HIDE DEF k
<1>2. Interval * (m + k) = Interval * m + Interval * k /\ Interval * m \in Nat /\ Interval * k \in Nat
  BY <1>1, Products
<1> QED BY <1>1, <1>2

\* The requests of a stretch are finitely many.
LEMMA GrantedFinite ==
  ASSUME IsFiniteSet(granted), NEW S \in SUBSET granted, NEW T \in SUBSET granted, S \subseteq T
  PROVE  /\ IsFiniteSet(S) /\ IsFiniteSet(T) /\ Cardinality(S) \in Nat /\ Cardinality(T) \in Nat
         /\ Cardinality(S) <= Cardinality(T)
<1>1. IsFiniteSet(S) /\ IsFiniteSet(T)
  BY FS_Subset
<1>2. Cardinality(S) <= Cardinality(T)
  BY <1>1, FS_Subset
<1> QED BY <1>1, <1>2, FS_CardinalityType

\* Nothing is granted past the time of the ledger.
LEMMA NoneAhead ==
  ASSUME BudgetInv, NEW x \in Nat, x > ledger.at
  PROVE  Since(x) = {} /\ Cardinality(Since(x)) = 0
<1>1. granted \subseteq [by : Procs, n : 1 .. MaxRequests, slot : Nat] /\ ledger \in Ledger
  BY DEF BudgetInv, LockInv, TypeOK
<1>2. ledger.at \in Int
  BY <1>1 DEF Ledger, NoLedger
<1>3. \A g \in granted : g.slot <= ledger.at /\ g.slot \in Nat
  BY <1>1 DEF BudgetInv
<1>4. Since(x) = {}
  BY <1>2, <1>3 DEF Since
<1> QED BY <1>4, FS_EmptySet

\* A bucket that is refilled accounts for no less.
LEMMA RefillCovers ==
  ASSUME BudgetInv, Pending = 0, NEW t \in Nat, NEW x \in Nat, x <= Refilled(ledger, t).at
  PROVE  Interval * Cardinality(Since(x)) <= Accounted(Refilled(ledger, t), x)
<1> DEFINE r == Refilled(ledger, t)
           n == Cardinality(Since(x))
<1>1. ledger \in Ledger /\ IsFiniteSet(granted)
  BY DEF BudgetInv, LockInv, TypeOK
<1>2. r \in [tokens : 0 .. Capacity, at : Nat] /\ Capacity \in Nat
  BY <1>1, RefilledFields, CapacityFits
<1>3. r.tokens \in 0 .. Capacity /\ r.at \in Nat
  BY <1>2
<1>4. n \in Nat
  BY <1>1, GrantedFinite DEF Since
<1>5. Steady * (r.at - x) \in Nat
  <2>1. x <= r.at
    OBVIOUS
  <2> HIDE DEF r
  <2>2. x \in Int /\ r.at \in Int
    BY <1>3
  <2> QED BY <2>1, <2>2, SteadyNat, Zenon
<1>6. CASE n = 0
  <2>1. Interval * n = 0
    BY <1>6, LedgerConstants
  <2> QED BY <1>2, <1>3, <1>5, <2>1 DEF Accounted
<1>7. CASE n # 0
  <2>1. x <= ledger.at /\ ledger # NoLedger
    <3>1. ledger.at \in Int
      BY <1>1 DEF Ledger, NoLedger
    <3>2. ~(x > ledger.at)
      BY <1>7, NoneAhead
    <3>3. NoLedger.at = -1
      BY DEF NoLedger
    <3> QED BY <3>1, <3>2, <3>3
  <2>2. ledger \in [tokens : 0 .. Capacity, at : Nat]
    BY <1>1, <2>1, RefilledFields
  <2>3. Interval * n <= Accounted(ledger, x)
    <3>1. Interval * (n + Pending) <= Accounted(ledger, x)
      BY <2>1 DEF BudgetInv, Covered
    <3> QED BY <1>4, <3>1
  <2>4. CASE ledger.at >= t
    BY <1>1, <2>1, <2>3, <2>4, RefilledFields
  <2>5. CASE ledger.at < t
    <3>1. r.at = t /\ r.tokens <= ledger.tokens + Steady * (t - ledger.at)
      BY <1>1, <2>1, <2>5, RefilledFields
    <3>2. /\ Steady * (t - x) = Steady * (t - ledger.at) + Steady * (ledger.at - x)
          /\ Steady * (t - ledger.at) \in Nat /\ Steady * (ledger.at - x) \in Nat
      BY <2>1, <2>2, <2>5, SteadyAdds
    <3>3. Interval * n \in Nat
      BY <1>4, LedgerConstants, Products
    <3> HIDE DEF r, n
    <3>4. Accounted(r, x) = Capacity - r.tokens + Steady * (t - x)
      BY <3>1 DEF Accounted
    <3>5. Accounted(ledger, x) = Capacity - ledger.tokens + Steady * (ledger.at - x)
      BY DEF Accounted
    <3>6. ledger.tokens \in Nat
      BY <1>2, <2>2
    <3>7. Interval * n <= Accounted(r, x)
      BY <1>2, <1>3, <2>3, <3>1, <3>2, <3>3, <3>4, <3>5, <3>6
    <3> QED BY <3>7 DEF r, n
  <2>6. ledger.at \in Nat
    BY <2>2
  <2> QED BY <2>4, <2>5, <2>6
<1> QED BY <1>6, <1>7

\* And a reservation for one request more.
LEMMA ReserveCovers ==
  ASSUME BudgetInv, Pending = 0, NEW t \in Nat, NEW x \in Nat, x <= Reserved(ledger, t).at
  PROVE  Interval * (Cardinality(Since(x)) + 1) <= Accounted(Reserved(ledger, t), x)
<1> DEFINE r == Refilled(ledger, t)
           s == Reserved(ledger, t)
           n == Cardinality(Since(x))
<1>1. ledger \in Ledger /\ IsFiniteSet(granted)
  BY DEF BudgetInv, LockInv, TypeOK
<1>2. /\ r \in [tokens : 0 .. Capacity, at : Nat] /\ Capacity \in Nat /\ Interval \in Nat
      /\ s \in [tokens : 0 .. Capacity, at : Nat] /\ Interval <= Capacity
  BY <1>1, RefilledFields, ReservedFields, CapacityFits, LedgerConstants
<1>3. r.tokens \in 0 .. Capacity /\ r.at \in Nat /\ s.tokens \in 0 .. Capacity /\ s.at \in Nat
  BY <1>2
<1>4. n \in Nat
  BY <1>1, GrantedFinite DEF Since
<1>5. Interval * (n + 1) = Interval * n + Interval /\ Interval * n \in Nat
  BY <1>2, <1>4, Products
<1>6. x <= r.at => Interval * n <= Accounted(r, x)
  BY RefillCovers
<1>7. /\ r.tokens >= Interval => s.tokens = r.tokens - Interval /\ s.at = r.at
      /\ r.tokens < Interval => /\ s.tokens = 0 /\ s.at = r.at + Refill(r.tokens)
                                /\ Refill(r.tokens) \in Nat
                                /\ Steady * Refill(r.tokens) >= Interval - r.tokens
  BY <1>1, ReservedFields
<1>8. x <= s.at
  OBVIOUS
<1>9. /\ r.at < x => n = 0
  <2>1. ASSUME r.at < x PROVE x > ledger.at
    <3>1. ledger.at <= r.at
      <4>1. CASE ledger = NoLedger
        <5>1. ledger.at = -1
          BY <4>1 DEF NoLedger
        <5> QED BY <1>3, <5>1
      <4>2. CASE ledger # NoLedger
        <5>1. ledger.at \in Nat
          BY <1>1, <4>2, RefilledFields
        <5>2. CASE ledger.at >= t
          BY <1>1, <4>2, <5>1, <5>2, RefilledFields
        <5>3. CASE ledger.at < t
          BY <1>1, <4>2, <5>1, <5>3, RefilledFields
        <5> QED BY <5>1, <5>2, <5>3
      <4> QED BY <4>1, <4>2
    <3>2. ledger.at \in Int
      BY <1>1 DEF Ledger, NoLedger
    <3> QED BY <1>3, <2>1, <3>1, <3>2
  <2>2. ASSUME r.at < x PROVE n = 0
    BY <2>1, <2>2, NoneAhead
  <2> QED BY <2>2
<1> HIDE DEF r, s, n
<1>10. Accounted(s, x) = Capacity - s.tokens + Steady * (s.at - x)
  BY DEF Accounted
<1>11. Accounted(r, x) = Capacity - r.tokens + Steady * (r.at - x)
  BY DEF Accounted
<1>12. CASE r.tokens >= Interval
  <2>1. x <= r.at /\ s.at = r.at /\ s.tokens = r.tokens - Interval
    BY <1>7, <1>8, <1>12
  <2>2. Steady * (r.at - x) \in Nat
    <3>1. x \in Int /\ r.at \in Int /\ x <= r.at
      BY <1>3, <2>1
    <3> QED BY <3>1, SteadyNat, Zenon
  <2>3. Accounted(s, x) = Accounted(r, x) + Interval
    BY <1>2, <1>3, <1>10, <1>11, <2>1, <2>2
  <2>4. Accounted(r, x) \in Int
    BY <1>2, <1>3, <1>11, <2>2
  <2>5. Interval * (n + 1) <= Accounted(s, x)
    BY <1>2, <1>5, <1>6, <2>1, <2>3, <2>4
  <2> QED BY <2>5 DEF s, n
<1>13. CASE r.tokens < Interval /\ x <= r.at
  <2> DEFINE k == Refill(r.tokens)
  <2>1. s.tokens = 0 /\ s.at = r.at + k /\ k \in Nat /\ Steady * k >= Interval - r.tokens
    BY <1>7, <1>13
  <2> HIDE DEF k
  <2>2. /\ Steady * (s.at - x) = Steady * (s.at - r.at) + Steady * (r.at - x)
        /\ Steady * (s.at - r.at) \in Nat /\ Steady * (r.at - x) \in Nat
    <3>1. x <= r.at /\ r.at <= s.at /\ x \in Int /\ r.at \in Int /\ s.at \in Int
      BY <1>3, <1>13, <2>1
    <3> QED BY <3>1, SteadyAdds, Zenon
  <2>3. s.at - r.at = k
    BY <1>3, <2>1
  <2>4. Interval * n <= Capacity - r.tokens + Steady * (r.at - x)
    BY <1>6, <1>11, <1>13
  <2>5. Interval * (n + 1) <= Capacity + Steady * (s.at - x)
    BY <1>2, <1>3, <1>5, <2>1, <2>2, <2>3, <2>4
  <2>6. Accounted(s, x) = Capacity + Steady * (s.at - x)
    BY <1>2, <1>10, <2>1, <2>2
  <2> QED BY <2>5, <2>6 DEF s, n
<1>14. CASE r.tokens < Interval /\ r.at < x
  <2>1. n = 0 /\ s.tokens = 0
    BY <1>7, <1>9, <1>14
  <2>2. Steady * (s.at - x) \in Nat
    <3>1. x \in Int /\ s.at \in Int
      BY <1>3
    <3> QED BY <1>8, <3>1, SteadyNat, Zenon
  <2>3. Interval * (n + 1) = Interval
    BY <1>2, <2>1
  <2>4. Interval * (n + 1) <= Accounted(s, x)
    BY <1>2, <1>10, <2>1, <2>2, <2>3
  <2> QED BY <2>4 DEF s, n
<1> QED BY <1>2, <1>3, <1>12, <1>13, <1>14

\* The time of the ledger never goes back, and is past the clock only in an empty bucket.
LEMMA ReservedAhead ==
  ASSUME NEW l \in Ledger, NEW t \in Nat, l.at > t => l.tokens < Interval
  PROVE  /\ l.at <= Reserved(l, t).at /\ t <= Reserved(l, t).at
         /\ Reserved(l, t).at > t => Reserved(l, t).tokens < Interval
         /\ SlotOf(l, t) = Reserved(l, t).at
<1> DEFINE r == Refilled(l, t)
           s == Reserved(l, t)
<1>1. /\ r \in [tokens : 0 .. Capacity, at : Nat] /\ s \in [tokens : 0 .. Capacity, at : Nat]
      /\ Interval \in Nat \ {0} /\ Capacity \in Nat /\ t <= r.at
  BY RefilledFields, ReservedFields, LedgerConstants, CapacityFits
<1>2. r.tokens \in 0 .. Capacity /\ r.at \in Nat /\ s.tokens \in 0 .. Capacity /\ s.at \in Nat
  BY <1>1
<1>3. l.at <= r.at /\ (r.at > t => r = l /\ l.at > t)
  <2>1. CASE l = NoLedger
    <3>1. l.at = -1 /\ r.at = t
      BY <2>1, RefilledFields DEF NoLedger
    <3> QED BY <1>2, <3>1
  <2>2. CASE l # NoLedger
    <3>1. l.at \in Nat /\ (l.at >= t => r = l) /\ (l.at < t => r.at = t)
      BY <2>2, RefilledFields
    <3>2. CASE l.at >= t
      <4>1. r = l
        BY <3>1, <3>2
      <4> QED BY <3>1, <4>1
    <3>3. CASE l.at < t
      <4>1. r.at = t
        BY <3>1, <3>3
      <4> HIDE DEF r
      <4> QED BY <3>1, <3>3, <4>1
    <3> QED BY <3>1, <3>2, <3>3
  <2> QED BY <2>1, <2>2
<1>4. /\ r.tokens >= Interval => s.tokens = r.tokens - Interval /\ s.at = r.at /\ SlotOf(l, t) = t
      /\ r.tokens < Interval => /\ s.tokens = 0 /\ s.at = r.at + Refill(r.tokens)
                                /\ Refill(r.tokens) \in Nat /\ SlotOf(l, t) = s.at
  BY ReservedFields
<1>5. l.at \in Int
  BY DEF Ledger, NoLedger
<1>6. r.at > t => r.tokens < Interval
  BY <1>3
<1> HIDE DEF r, s
<1>7. CASE r.tokens >= Interval
  <2>1. s.at = r.at /\ r.at = t /\ SlotOf(l, t) = t
    BY <1>1, <1>2, <1>4, <1>6, <1>7
  <2>2. l.at <= s.at /\ t <= s.at /\ ~(s.at > t)
    BY <1>1, <1>2, <1>3, <1>5, <2>1
  <2> QED BY <2>1, <2>2 DEF s
<1>8. CASE r.tokens < Interval
  <2>1. s.tokens = 0 /\ s.at = r.at + Refill(r.tokens) /\ Refill(r.tokens) \in Nat /\ SlotOf(l, t) = s.at
    BY <1>4, <1>8
  <2>2. l.at <= s.at /\ t <= s.at /\ s.tokens < Interval
    BY <1>1, <1>2, <1>3, <1>5, <2>1
  <2> QED BY <2>1, <2>2 DEF s
<1> QED BY <1>1, <1>2, <1>7, <1>8

\* Nothing is granted at the start.
LEMMA BudgetInit == Init => BudgetInv
<1> SUFFICES ASSUME Init PROVE BudgetInv
  OBVIOUS
<1>1. LockInv /\ granted = {} /\ ledger = NoLedger /\ now = 0
  BY LockInit DEF Init
<1>2. \A p \in Procs : job[p].pc = "idle"
  BY DEF Init
<1>3. ~(ledger.at > now)
  BY <1>1 DEF NoLedger
<1>4. Bounded
  <2>1. SUFFICES ASSUME NEW x \in Nat, NEW y \in Nat, x <= y
                 PROVE  Interval * Cardinality(Within(x, y)) <= Capacity + Steady * (y - x)
    BY DEF Bounded
  <2>2. Within(x, y) = {}
    BY <1>1 DEF Within
  <2>3. Cardinality(Within(x, y)) = 0
    BY <2>2, FS_EmptySet
  <2>4. Steady * (y - x) \in Nat
    BY <2>1, SteadyNat
  <2>5. Interval * 0 = 0 /\ Capacity \in Nat
    BY LedgerConstants, CapacityFits
  <2> QED BY <2>3, <2>4, <2>5
<1> QED BY <1>1, <1>2, <1>3, <1>4, FS_EmptySet DEF BudgetInv, Reserving

\* The count that holds the lock is one or none.
LEMMA PendingOne == Pending \in {0, 1}
  BY DEF Pending

\* What is known of a reservation under way.
LEMMA ReservingAt ==
  ASSUME Reserving, NEW p \in Procs, job[p].pc = "write"
  PROVE  /\ \E t \in 0 .. now : ReservedAt(job[p], t)
         /\ job[p].slot = job[p].next.at
  BY Zenon DEF Reserving

\* Steps that only take processes away from their reservation leave the account as it is.
LEMMA QuietBudget ==
  ASSUME BudgetInv, LockInv', UNCHANGED <<ledger, granted>>, now <= now',
         \A q \in Procs : job'[q].pc \in {"write", "release"} => job'[q] = job[q]
  PROVE  BudgetInv'
<1>1. /\ now \in Nat /\ now' \in Nat /\ ledger \in Ledger /\ IsFiniteSet(granted)
  BY DEF BudgetInv, LockInv, TypeOK
<1>2. ledger.at \in Int
  BY <1>1 DEF Ledger, NoLedger
<1>3. /\ \A x : Since(x)' = Since(x)
      /\ \A x, y : Within(x, y)' = Within(x, y)
  BY DEF Since, Within
<1>4. Pending' <= Pending /\ Pending' \in {0, 1} /\ Pending \in {0, 1}
  BY DEF Pending
<1>5. ledger'.at > now' => ledger'.tokens < Interval
  <2>1. ledger.at > now' => ledger.at > now
    BY <1>1, <1>2
  <2> QED BY <2>1 DEF BudgetInv
<1>6. Reserving'
  <2>1. ASSUME NEW q \in Procs, job'[q].pc = "write"
        PROVE  /\ \E t \in 0 .. now' : ReservedAt(job[q], t)'
               /\ job'[q].slot = job'[q].next.at
    <3>1. job'[q] = job[q] /\ job[q].pc = "write"
      BY <2>1
    <3>2. PICK t \in 0 .. now : ReservedAt(job[q], t)
      <4>1. Reserving
        BY DEF BudgetInv
      <4>2. \E t \in 0 .. now : ReservedAt(job[q], t)
        BY <3>1, <4>1, ReservingAt, Zenon
      <4> QED BY <4>2
    <3>3. t \in 0 .. now'
      BY <1>1
    <3>4. job[q].slot = job[q].next.at
      BY <3>1 DEF BudgetInv, Reserving
    <3> QED BY <3>1, <3>2, <3>3, <3>4 DEF ReservedAt
  <2>2. ASSUME NEW q \in Procs, job'[q].pc = "release"
        PROVE  job'[q].slot = ledger'.at /\ ledger' # NoLedger
    BY <2>2 DEF BudgetInv, Reserving
  <2> QED BY <2>1, <2>2 DEF Reserving
<1>7. ledger' # NoLedger => Covered'
  <2>1. SUFFICES ASSUME ledger # NoLedger, NEW x \in Nat, x <= ledger.at
                 PROVE  Interval * (Cardinality(Since(x)) + Pending') <= Accounted(ledger, x)
    BY <1>3 DEF Covered, Accounted
  <2>2. Interval * (Cardinality(Since(x)) + Pending) <= Accounted(ledger, x)
    BY <2>1 DEF BudgetInv, Covered
  <2> DEFINE n == Cardinality(Since(x))
             a == Accounted(ledger, x)
  <2>3. n \in Nat
    BY <1>1, GrantedFinite DEF Since
  <2>4. a \in Int
    <3>1. Steady * (ledger.at - x) \in Nat
      <4>1. x \in Int /\ x <= ledger.at
        BY <2>1
      <4> QED BY <1>2, <4>1, SteadyNat, Zenon
    <3>2. ledger.tokens \in Nat /\ Capacity \in Nat
      BY <1>1, <2>1, CapacityFits DEF Ledger
    <3> QED BY <3>1, <3>2 DEF Accounted
  <2> HIDE DEF n, a
  <2>5. n + Pending' \in Nat /\ n + Pending \in Nat /\ n + Pending' <= n + Pending
    <3> DEFINE i == Pending
               k == Pending'
    <3>1. i \in Nat /\ k \in Nat /\ k <= i
      BY <1>4
    <3> HIDE DEF i, k
    <3>2. n + k \in Nat /\ n + i \in Nat /\ n + k <= n + i
      BY <2>3, <3>1
    <3> QED BY <3>2 DEF i, k
  <2>6. /\ Interval * (n + Pending') <= Interval * (n + Pending)
        /\ Interval * (n + Pending') \in Nat /\ Interval * (n + Pending) \in Nat
    BY <2>5, CostGrows
  <2>7. Interval * (n + Pending') <= a
    BY <2>2, <2>4, <2>6 DEF n, a
  <2> QED BY <2>7 DEF n, a
<1>8. Bounded'
  BY <1>3 DEF BudgetInv, Bounded, Capacity
<1> QED BY <1>1, <1>5, <1>6, <1>7, <1>8 DEF BudgetInv

\* A holder that reads the ledger reserves in it.
LEMMA ReadBudget ==
  ASSUME BudgetInv, LockInv', NEW p \in Procs, ReadLedger(p)
  PROVE  BudgetInv'
<1>1. /\ now \in Nat /\ ledger \in Ledger /\ UNCHANGED <<now, ledger, granted>> /\ TypeOK
      /\ job[p].pc = "read"
  BY DEF BudgetInv, LockInv, TypeOK, ReadLedger
<1>2. /\ \A q \in Procs : q # p => job'[q] = job[q]
      /\ job'[p].pc = "write" /\ job'[p].next = Reserved(ledger, now)
      /\ job'[p].slot = SlotOf(ledger, now)
  BY <1>1, Own DEF Moves
<1>3. job'[p].slot = job'[p].next.at
  <2>1. ledger.at > now => ledger.tokens < Interval
    BY DEF BudgetInv
  <2> QED BY <1>1, <1>2, <2>1, ReservedAhead
<1>4. Reserving'
  <2>1. now \in 0 .. now /\ (ledger.at > now => ledger.tokens < Interval)
    BY <1>1 DEF BudgetInv
  <2> QED BY <1>1, <1>2, <1>3, <2>1 DEF BudgetInv, Reserving, ReservedAt
<1>5. Pending' = Pending
  BY <1>1, <1>2 DEF Pending
<1>6. /\ \A x : Since(x)' = Since(x)
      /\ \A x, y : Within(x, y)' = Within(x, y)
  BY <1>1 DEF Since, Within
<1>7. Covered' <=> Covered
  BY <1>1, <1>5, <1>6 DEF Covered, Accounted, Capacity
<1>8. Bounded' <=> Bounded
  BY <1>1, <1>6 DEF Bounded, Capacity
<1> QED BY <1>1, <1>4, <1>7, <1>8 DEF BudgetInv

\* What is accounted for is a number.
LEMMA AccountedInt ==
  ASSUME ledger \in Ledger, ledger # NoLedger, NEW x \in Nat, x <= ledger.at
  PROVE  Accounted(ledger, x) \in Int
<1>1. ledger.at \in Nat /\ ledger.tokens \in Nat /\ Capacity \in Nat
  BY CapacityFits DEF Ledger
<1>2. x \in Int /\ ledger.at \in Int
  BY <1>1
<1>3. Steady * (ledger.at - x) \in Nat
  BY <1>2, SteadyNat, Zenon
<1> QED BY <1>1, <1>3 DEF Accounted

\* Its slot is counted when it has written the ledger, ...
LEMMA WriteBudget ==
  ASSUME BudgetInv, LockInv', NEW p \in Procs, WriteLedger(p)
  PROVE  BudgetInv'
<1>1. /\ now \in Nat /\ ledger \in Ledger /\ UNCHANGED <<now, granted>> /\ TypeOK /\ Held
      /\ job[p].pc = "write" /\ ledger' = job[p].next /\ IsFiniteSet(granted)
  BY DEF BudgetInv, LockInv, TypeOK, WriteLedger
<1>2. /\ \A q \in Procs : q # p => job'[q] = job[q]
      /\ job'[p].pc = "release" /\ job'[p].slot = job[p].slot
  BY <1>1, Own DEF Moves
<1>3. \A q \in Procs : q # p => job[q].pc \notin {"write", "release"}
  BY <1>1 DEF Held, Critical
<1>4. PICK t \in 0 .. now : ledger' = Reserved(ledger, t) /\ ReservedAt(job[p], t)
  <2>1. Reserving
    BY DEF BudgetInv
  <2>2. job[p].pc = "write" /\ ledger' = job[p].next
    BY <1>1
  <2>3. \E t \in 0 .. now : ReservedAt(job[p], t)
    BY <2>1, <2>2, ReservingAt, Zenon
  <2> QED BY <2>2, <2>3 DEF ReservedAt
<1>5. t \in Nat /\ t <= now /\ job[p].slot = ledger'.at
  <2>1. Reserving
    BY DEF BudgetInv
  <2>2. job[p].pc = "write" /\ ledger' = job[p].next
    BY <1>1
  <2>3. job[p].slot = ledger'.at
    BY <2>1, <2>2, ReservingAt, Zenon
  <2> QED BY <1>1, <1>4, <2>3
<1>6. /\ ledger' \in [tokens : 0 .. Capacity, at : Nat]
      /\ ledger.at <= ledger'.at /\ t <= ledger'.at
      /\ ledger'.at > t => ledger'.tokens < Interval
  BY <1>1, <1>4, <1>5, ReservedFields, ReservedAhead DEF ReservedAt
<1>7. ledger' # NoLedger /\ ledger'.at \in Nat
  BY <1>6 DEF NoLedger
<1>8. Pending = 0 /\ Pending' = 1
  <2>1. \A q \in Procs : job[q].pc # "release"
    BY <1>1, <1>3
  <2> QED BY <1>2, <2>1 DEF Pending
<1>9. /\ \A x : Since(x)' = Since(x)
      /\ \A x, y : Within(x, y)' = Within(x, y)
  BY <1>1 DEF Since, Within
<1>10. Covered'
  <2>1. SUFFICES ASSUME NEW x \in Nat, x <= ledger'.at
                 PROVE  Interval * (Cardinality(Since(x)) + 1) <= Accounted(ledger', x)
    BY <1>8, <1>9 DEF Covered, Accounted, Capacity
  <2>2. x <= Reserved(ledger, t).at
    BY <1>4, <2>1
  <2>3. Interval * (Cardinality(Since(x)) + 1) <= Accounted(Reserved(ledger, t), x)
    BY <1>5, <1>8, <2>2, ReserveCovers
  <2> QED BY <1>4, <2>3
<1>11. \A g \in granted' : g.slot <= ledger'.at
  <2>1. ledger.at \in Int
    BY <1>1 DEF Ledger, NoLedger
  <2>2. \A g \in granted : g.slot \in Nat /\ g.slot <= ledger.at
    BY DEF BudgetInv, LockInv, TypeOK
  <2> QED BY <1>1, <1>6, <1>7, <2>1, <2>2
<1>12. ledger'.at > now' => ledger'.tokens < Interval
  <2>1. ledger'.at > now => ledger'.at > t
    BY <1>1, <1>5, <1>7
  <2> QED BY <1>1, <1>6, <2>1
<1>13. Reserving'
  BY <1>2, <1>3, <1>5, <1>7 DEF Reserving
<1>14. Bounded'
  BY <1>9 DEF BudgetInv, Bounded, Capacity
<1> QED BY <1>1, <1>7, <1>10, <1>11, <1>12, <1>13, <1>14 DEF BudgetInv

\* ... and granted when it lets the lock go: the stretches that end at the slot end where the
\* ledger stands, and the others are as they were.
LEMMA ReleaseBudget ==
  ASSUME BudgetInv, LockInv', NEW p \in Procs, Release(p)
  PROVE  BudgetInv'
<1>1. /\ now \in Nat /\ ledger \in Ledger /\ UNCHANGED <<now, ledger>> /\ TypeOK /\ Held
      /\ job[p].pc = "release" /\ IsFiniteSet(granted)
  BY DEF BudgetInv, LockInv, TypeOK, Release
<1>2. /\ \A q \in Procs : q # p => job'[q] = job[q]
      /\ job'[p].pc = "idle"
  BY <1>1, Own DEF Moves
<1>3. \A q \in Procs : q # p => job[q].pc \notin {"write", "release"}
  BY <1>1 DEF Held, Critical
<1>4. ledger # NoLedger /\ job[p].slot = ledger.at /\ ledger.at \in Nat
  <2>1. ledger # NoLedger /\ job[p].slot = ledger.at
    BY <1>1 DEF BudgetInv, Reserving
  <2> QED BY <1>1, <2>1 DEF Ledger
<1> DEFINE new == [by |-> p, n |-> job[p].requests, slot |-> job[p].slot]
<1>5. granted \subseteq granted' /\ granted' \subseteq granted \cup {new} /\ new.slot = ledger.at
  BY <1>4 DEF Release
<1> HIDE DEF new
<1>6. IsFiniteSet(granted')
  <2>1. IsFiniteSet(granted \cup {new})
    BY <1>1, FS_AddElement
  <2> QED BY <1>5, <2>1, FS_Subset
<1>7. Pending = 1 /\ Pending' = 0
  <2>1. \A q \in Procs : job'[q].pc # "release"
    BY <1>1, <1>2, <1>3
  <2> QED BY <1>1, <2>1 DEF Pending
<1>8. ASSUME NEW x \in Nat
      PROVE  /\ Cardinality(Since(x)') <= Cardinality(Since(x)) + 1
             /\ Cardinality(Since(x)) \in Nat /\ Cardinality(Since(x)') \in Nat
             /\ IsFiniteSet(Since(x)')
  <2> DEFINE before == Since(x)
             after == Since(x)'
  <2>1. after \subseteq before \cup {new}
    BY <1>5 DEF Since
  <2>2. IsFiniteSet(before) /\ Cardinality(before) \in Nat
    BY <1>1, GrantedFinite DEF Since
  <2> HIDE DEF before, after
  <2>3. IsFiniteSet(before \cup {new}) /\ Cardinality(before \cup {new}) <= Cardinality(before) + 1
    <3>1. CASE new \in before
      <4> DEFINE both == before \cup {new}
      <4>1. both = before
        BY <3>1
      <4> HIDE DEF both
      <4>2. IsFiniteSet(both) /\ Cardinality(both) <= Cardinality(before) + 1
        BY <2>2, <4>1
      <4> QED BY <4>2 DEF both
    <3>2. CASE new \notin before
      <4>1. IsFiniteSet(before \cup {new}) /\ Cardinality(before \cup {new}) = Cardinality(before) + 1
        BY <2>2, <3>2, FS_AddElement
      <4> QED BY <2>2, <4>1
    <3> QED BY <3>1, <3>2
  <2>4. IsFiniteSet(after) /\ Cardinality(after) <= Cardinality(before \cup {new})
    BY <2>1, <2>3, FS_Subset
  <2>5. Cardinality(after) \in Nat /\ Cardinality(before \cup {new}) \in Nat
    BY <2>3, <2>4, FS_CardinalityType
  <2>6. Cardinality(after) <= Cardinality(before) + 1
    BY <2>2, <2>3, <2>4, <2>5
  <2> QED BY <2>2, <2>4, <2>5, <2>6 DEF before, after
<1>9. ASSUME NEW x \in Nat, x <= ledger.at
      PROVE  Interval * Cardinality(Since(x)') <= Accounted(ledger, x)
  <2> DEFINE n == Cardinality(Since(x))
             m == Cardinality(Since(x)')
  <2>1. m \in Nat /\ n \in Nat /\ m <= n + 1
    BY <1>8
  <2>2. Interval * (n + 1) <= Accounted(ledger, x)
    BY <1>4, <1>7, <1>9 DEF BudgetInv, Covered
  <2>3. Accounted(ledger, x) \in Int
    BY <1>1, <1>4, <1>9, AccountedInt
  <2> HIDE DEF n, m
  <2>4. Interval * m <= Interval * (n + 1) /\ Interval * m \in Nat /\ Interval * (n + 1) \in Nat
    <3>1. n + 1 \in Nat /\ m <= n + 1
      BY <2>1
    <3> QED BY <2>1, <3>1, CostGrows
  <2>5. Interval * m <= Accounted(ledger, x)
    BY <2>2, <2>3, <2>4
  <2> QED BY <2>5 DEF m
<1>10. Covered'
  <2>1. SUFFICES ASSUME NEW x \in Nat, x <= ledger.at
                 PROVE  Interval * (Cardinality(Since(x)') + 0) <= Accounted(ledger, x)
    BY <1>1, <1>7 DEF Covered, Accounted, Capacity
  <2>2. Cardinality(Since(x)') + 0 = Cardinality(Since(x)')
    BY <1>8
  <2> QED BY <1>9, <2>1, <2>2
<1>11. \A g \in granted' : g.slot <= ledger'.at
  BY <1>1, <1>4, <1>5 DEF BudgetInv
<1>12. Reserving'
  BY <1>2, <1>3 DEF Reserving
<1>13. Bounded'
  <2>1. SUFFICES ASSUME NEW x \in Nat, NEW y \in Nat, x <= y
                 PROVE  Interval * Cardinality(Within(x, y)') <= Capacity + Steady * (y - x)
    BY DEF Bounded, Capacity
  <2>2. CASE y < ledger.at
    <3>1. Within(x, y)' = Within(x, y)
      BY <1>4, <1>5, <2>2 DEF Within
    <3> QED BY <2>1, <3>1 DEF BudgetInv, Bounded
  <2>3. CASE ~(y < ledger.at)
    <3>1. Within(x, y)' \subseteq Since(x)'
      BY DEF Within, Since
    <3>2. IsFiniteSet(Since(x)') /\ Cardinality(Since(x)') \in Nat
      BY <1>8
    <3>3. IsFiniteSet(Within(x, y)') /\ Cardinality(Within(x, y)') <= Cardinality(Since(x)')
      BY <3>1, <3>2, FS_Subset
    <3>4. Cardinality(Within(x, y)') \in Nat
      BY <3>3, FS_CardinalityType
    <3> DEFINE m == Cardinality(Within(x, y)')
               n == Cardinality(Since(x)')
    <3>5. Interval * m <= Interval * n /\ Interval * m \in Nat /\ Interval * n \in Nat
      BY <3>2, <3>3, <3>4, CostGrows
    <3>6. Capacity \in Nat /\ Steady * (y - x) \in Nat
      BY <2>1, CapacityFits, SteadyNat
    <3>7. CASE x <= ledger.at
      <4>1. Interval * n <= Accounted(ledger, x)
        BY <1>9, <3>7
      <4>2. Steady * (y - x) = Steady * (y - ledger.at) + Steady * (ledger.at - x)
            /\ Steady * (y - ledger.at) \in Nat /\ Steady * (ledger.at - x) \in Nat
        <5>1. x \in Int /\ y \in Int /\ ledger.at \in Int /\ x <= ledger.at /\ ledger.at <= y
          BY <1>4, <2>3, <3>7
        <5> QED BY <5>1, SteadyAdds, Zenon
      <4>3. ledger.tokens \in Nat
        BY <1>1, <1>4, CapacityFits DEF Ledger
      <4> HIDE DEF m, n
      <4>4. Interval * m <= Capacity + Steady * (y - x)
        BY <3>5, <3>6, <4>1, <4>2, <4>3 DEF Accounted
      <4> QED BY <4>4 DEF m
    <3>8. CASE ~(x <= ledger.at)
      <4>1. Since(x)' = {}
        <5>1. \A g \in granted' : g.slot \in Nat /\ g.slot <= ledger.at
          BY <1>1, <1>11 DEF LockInv, TypeOK
        <5> QED BY <1>4, <3>8, <5>1 DEF Since
      <4>2. n = 0
        BY <4>1, FS_EmptySet
      <4>3. Interval * 0 = 0
        BY LedgerConstants
      <4> HIDE DEF m, n
      <4>4. Interval * m <= Capacity + Steady * (y - x)
        BY <3>5, <3>6, <4>2, <4>3
      <4> QED BY <4>4 DEF m
    <3> QED BY <3>7, <3>8
  <2> QED BY <2>2, <2>3
<1>14. ledger'.at > now' => ledger'.tokens < Interval
  BY <1>1 DEF BudgetInv
<1> QED BY <1>1, <1>4, <1>6, <1>10, <1>11, <1>12, <1>13, <1>14 DEF BudgetInv

\* Every step keeps the account.
LEMMA BudgetKept == OneBreaker /\ BudgetInv /\ [Next]_vars => BudgetInv'
<1> SUFFICES ASSUME OneBreaker, BudgetInv, [Next]_vars PROVE BudgetInv'
  OBVIOUS
<1>1. LockInv' /\ TypeOK /\ now \in Nat
  BY LockKept DEF BudgetInv, LockInv, TypeOK
<1>2. CASE Tick \/ UNCHANGED vars
  <2>1. UNCHANGED <<ledger, granted, job>> /\ now <= now'
    BY <1>1, <1>2 DEF Tick, vars
  <2> QED BY <1>1, <2>1, QuietBudget
<1>3. ASSUME NEW p \in Procs, Request(p) \/ Working(p) \/ GiveUp(p) \/ Crash(p)
      PROVE  BudgetInv'
  <2>1. CASE Request(p) \/ Acquire(p) \/ FindStale(p) \/ Break(p) \/ GiveUp(p) \/ WriteFails(p) \/ Crash(p)
    <3>1. UNCHANGED <<now, ledger, granted>>
      BY <2>1 DEF Request, Acquire, FindStale, Break, GiveUp, WriteFails, Crash
    <3>2. \A q \in Procs : q # p => job'[q] = job[q]
      BY <1>1, <2>1, Own DEF Moves
    <3>3. job'[p].pc \notin {"write", "release"}
      BY <1>1, <2>1, Own DEF Moves
    <3>4. now <= now'
      BY <1>1, <3>1
    <3> QED BY <1>1, <3>1, <3>2, <3>3, <3>4, QuietBudget
  <2>2. CASE ReadLedger(p)
    BY <1>1, <2>2, ReadBudget
  <2>3. CASE WriteLedger(p)
    BY <1>1, <2>3, WriteBudget
  <2>4. CASE Release(p)
    BY <1>1, <2>4, ReleaseBudget
  <2> QED BY <1>3, <2>1, <2>2, <2>3, <2>4 DEF Working
<1> QED BY <1>2, <1>3 DEF Next

\* The account bounds the requests of any stretch.
LEMMA BudgetHolds == BudgetInv => WithinBudget
<1> SUFFICES ASSUME BudgetInv, NEW first \in granted, NEW last \in granted, first.slot <= last.slot
             PROVE  Interval * Cardinality({g \in granted : first.slot <= g.slot /\ g.slot <= last.slot})
                      <= Interval * Burst + Steady * (last.slot - first.slot)
  BY DEF WithinBudget
<1>1. first.slot \in Nat /\ last.slot \in Nat
  BY DEF BudgetInv, LockInv, TypeOK
<1>2. Interval * Cardinality(Within(first.slot, last.slot)) <= Capacity + Steady * (last.slot - first.slot)
  BY <1>1 DEF BudgetInv, Bounded
<1> QED BY <1>2, CapacityFits DEF Within

\* Every reachable state of the ledger and its lock is well-typed.
THEOREM LedgerTypeCorrect == ASSUME OneBreaker PROVE Spec => []TypeOK
<1>1. BudgetInv => TypeOK
  BY DEF BudgetInv, LockInv
<1>2. BudgetInv /\ [Next]_vars => BudgetInv'
  BY BudgetKept
<1> QED BY <1>1, <1>2, BudgetInit, PTL DEF Spec

\* The budget holds across processes: the requests of any stretch of time are at most the burst
\* and what the steady rate refills in that time, for any rate, interval, burst and number of
\* processes, as long as no two of them can find the same abandoned lock file.
THEOREM LedgerHoldsBudget == ASSUME OneBreaker PROVE Spec => []WithinBudget
<1>1. BudgetInv /\ [Next]_vars => BudgetInv'
  BY BudgetKept
<1> QED BY <1>1, BudgetInit, BudgetHolds, PTL DEF Spec
=============================================================================
