---------------------------- MODULE LocalSideProofs ----------------------------
(***************************************************************************)
(* Proofs about the parts that work on local files and tables: the workers *)
(* of a fan-out (Fanout), the migration of legacy artifacts                *)
(* (ClientMigration), the seeding of playbooks (PlaybookSeed), the mirror  *)
(* of synced resources (ResourceMirror), the learnings (Learned) and the   *)
(* learn telemetry (LearnEvents).                                          *)
(***************************************************************************)
EXTENDS Fanout, ClientMigration, PlaybookSeed, ResourceMirror, Learned,
        LearnEvents, SequenceTheorems, FiniteSetTheorems, TLAPS

--------------------------------------------------------------------------------
(***************************************************************************)
(* Fanout, for any number of sources and any workers.  The inductive       *)
(* invariant follows each source through the run: it is yet to be fed, in  *)
(* the channel once, or with one worker, and its slots are empty; or it    *)
(* has exactly one outcome.                                                *)
(***************************************************************************)

Unstarted(i) == fan.phase \in {"idle", "feeding"} /\ fan.next <= i
Queued(i) == \E n \in DOMAIN jobs : jobs[n] = i
Holds(w) == worker[w].pc \in {"check", "call"}
Held(i) == \E w \in Workers : Holds(w) /\ worker[w].job = i
Open(i) == Unstarted(i) \/ Queued(i) \/ Held(i)

\* What is in the channel, or with a worker, was fed, and is nowhere else.
OnePlace ==
  /\ \A m, n \in DOMAIN jobs : jobs[m] = jobs[n] => m = n
  /\ \A n \in DOMAIN jobs : jobs[n] < fan.next
  /\ \A w \in Workers : Holds(w) => /\ worker[w].job \in Indices
                                    /\ worker[w].job < fan.next
                                    /\ \A n \in DOMAIN jobs : jobs[n] # worker[w].job
  /\ \A v, w \in Workers : Holds(v) /\ Holds(w) /\ worker[v].job = worker[w].job => v = w

Outcomes ==
  \A i \in Indices :
    IF Open(i) THEN ~slots[i].result /\ ~slots[i].error ELSE slots[i].result # slots[i].error

\* A call is counted when it begins.
Counted ==
  \A i \in Indices :
    /\ calls[i] <= 1
    /\ Unstarted(i) \/ Queued(i) => calls[i] = 0
    /\ \A w \in Workers : worker[w].pc = "check" /\ worker[w].job = i => calls[i] = 0

\* A worker leaves when the channel is closed and empty; the run ends when all have.
Gone ==
  /\ \A w \in Workers : worker[w].pc = "gone" => Closed /\ jobs = <<>>
  /\ fan.phase = "returned" => \A w \in Workers : worker[w].pc = "gone"

FanInv == FanTypeOK /\ OnePlace /\ Outcomes /\ Counted /\ Gone

\* In the initial state every source is unstarted.
LEMMA InitEstablishes == FanInit => FanInv
<1> SUFFICES ASSUME FanInit PROVE FanInv
  OBVIOUS
<1> USE FanoutAssumption DEF FanInit
<1>1. FanTypeOK
  <2>1. Cardinality(Workers) \in Nat
    BY FS_CardinalityType
  <2>2. fan \in [phase : {"idle", "feeding", "waiting", "returned"}, next : 1 .. Sources + 1]
    OBVIOUS
  <2>3. jobs \in Seq(Indices) /\ Len(jobs) = 0
    OBVIOUS
  <2>4. worker \in [Workers -> [pc : {"pull", "check", "call", "gone"}, job : 0 .. Sources]]
    BY DEF NoJob
  <2>5. /\ slots \in [Indices -> [result : BOOLEAN, error : BOOLEAN]]
        /\ calls \in [Indices -> Nat] /\ done \in BOOLEAN
    OBVIOUS
  <2> QED
    BY <2>1, <2>2, <2>3, <2>4, <2>5 DEF FanTypeOK
<1>2. OnePlace
  BY DEF OnePlace, Holds
<1>3. Outcomes
  BY DEF Outcomes, Open, Unstarted, Indices
<1>4. Counted
  BY DEF Counted
<1>5. Gone
  BY DEF Gone
<1> QED
  BY <1>1, <1>2, <1>3, <1>4, <1>5 DEF FanInv

\* Append and Tail, as the channel uses them.
LEMMA Appended ==
  ASSUME NEW S, NEW s \in Seq(S), NEW x \in S
  PROVE  /\ Append(s, x) \in Seq(S) /\ Len(Append(s, x)) = Len(s) + 1
         /\ DOMAIN Append(s, x) = 1 .. Len(s) + 1 /\ DOMAIN s = 1 .. Len(s)
         /\ Append(s, x)[Len(s) + 1] = x
         /\ \A n \in DOMAIN s : Append(s, x)[n] = s[n]
  OBVIOUS

\* What Tail leaves, and where.
LEMMA Pulled ==
  ASSUME NEW S, NEW s \in Seq(S), s # <<>>
  PROVE  /\ Tail(s) \in Seq(S) /\ Len(Tail(s)) = Len(s) - 1 /\ Len(s) \in Nat \ {0}
         /\ DOMAIN Tail(s) = 1 .. Len(s) - 1 /\ DOMAIN s = 1 .. Len(s)
         /\ Head(s) = s[1] /\ Head(s) \in S
         /\ \A n \in DOMAIN Tail(s) : Tail(s)[n] = s[n + 1]
  OBVIOUS

\* The source fed is queued once, and no worker has it.
LEMMA FeedKeeps == ASSUME FanInv, Feed PROVE FanInv'
<1> USE DEF FanInv
<1>0. /\ jobs \in Seq(Indices) /\ fan.next \in Indices /\ fan.phase = "feeding"
      /\ fan' = [fan EXCEPT !.next = @ + 1] /\ jobs' = Append(jobs, fan.next)
      /\ UNCHANGED <<worker, slots, calls, done>>
  BY FanoutAssumption DEF FanTypeOK, Feed, Indices
<1>1. /\ jobs' \in Seq(Indices) /\ Len(jobs') = Len(jobs) + 1
      /\ DOMAIN jobs' = 1 .. Len(jobs) + 1 /\ DOMAIN jobs = 1 .. Len(jobs)
      /\ jobs'[Len(jobs) + 1] = fan.next
      /\ \A n \in DOMAIN jobs : jobs'[n] = jobs[n]
  BY <1>0, Appended
<1>2. Len(jobs) \in Nat
  BY <1>0
<1>3. fan'.phase = "feeding" /\ fan'.next = fan.next + 1 /\ fan.next \in Nat
  BY <1>0 DEF FanTypeOK, Indices
<1>4. FanTypeOK'
  <2>1. Cardinality(Workers) \in Nat
    BY FanoutAssumption, FS_CardinalityType
  <2>2. Len(jobs') <= 2 * Cardinality(Workers)
    BY <2>1, <1>1, <1>2 DEF Feed
  <2>3. fan' \in [phase : {"idle", "feeding", "waiting", "returned"}, next : 1 .. Sources + 1]
    BY <1>0, FanoutAssumption DEF FanTypeOK, Feed
  <2> QED
    BY <2>2, <2>3, <1>0, <1>1 DEF FanTypeOK
<1>5. OnePlace'
  <2>0. \A n \in DOMAIN jobs' :
          \/ n \in DOMAIN jobs /\ jobs'[n] = jobs[n] /\ jobs[n] < fan.next
          \/ n = Len(jobs) + 1 /\ jobs'[n] = fan.next
    <3>1. \A n \in DOMAIN jobs' : n \in DOMAIN jobs \/ n = Len(jobs) + 1
      BY <1>1, <1>2
    <3>2. \A n \in DOMAIN jobs : jobs[n] < fan.next
      BY DEF OnePlace
    <3>3. jobs'[Len(jobs) + 1] = fan.next /\ \A n \in DOMAIN jobs : jobs'[n] = jobs[n]
      BY <1>1
    <3> TAKE n \in DOMAIN jobs'
    <3>4. CASE n \in DOMAIN jobs
      <4>1. jobs'[n] = jobs[n]
        BY <3>3, <3>4
      <4>2. jobs[n] < fan.next
        BY <3>2, <3>4
      <4> QED
        BY <3>4, <4>1, <4>2
    <3>5. CASE n = Len(jobs) + 1
      BY <3>3, <3>5
    <3> QED
      BY <3>1, <3>4, <3>5
  <2>1. \A m, n \in DOMAIN jobs' : jobs'[m] = jobs'[n] => m = n
    <3> SUFFICES ASSUME NEW m \in DOMAIN jobs', NEW n \in DOMAIN jobs', jobs'[m] = jobs'[n]
                 PROVE  m = n
      OBVIOUS
    <3>1. \A k \in DOMAIN jobs : jobs[k] # fan.next
      BY <1>3, <1>0, <1>1, <1>2 DEF OnePlace, Indices
    <3> QED
      BY <2>0, <3>1 DEF OnePlace
  <2>2. \A n \in DOMAIN jobs' : jobs'[n] < fan'.next
    BY <2>0, <1>0, <1>1, <1>3, FanoutAssumption DEF Indices
  <2>3. ASSUME NEW w \in Workers, Holds(w)'
        PROVE  /\ worker'[w].job \in Indices /\ worker'[w].job < fan'.next
               /\ \A n \in DOMAIN jobs' : jobs'[n] # worker'[w].job
    <3>1. /\ worker'[w].job \in Indices /\ worker'[w].job < fan.next
          /\ \A n \in DOMAIN jobs : jobs[n] # worker'[w].job
      BY <2>3, <1>0 DEF OnePlace, Holds
    <3>2. worker'[w].job < fan'.next /\ worker'[w].job # fan.next
      BY <3>1, <1>3, FanoutAssumption DEF Indices
    <3> QED
      BY <3>1, <3>2, <2>0
  <2>4. \A v, w \in Workers : Holds(v)' /\ Holds(w)' /\ worker'[v].job = worker'[w].job => v = w
    BY <1>0 DEF OnePlace, Holds
  <2> QED
    BY <2>1, <2>2, <2>3, <2>4 DEF OnePlace
<1>6. \A i \in Indices : /\ Open(i)' <=> Open(i)
                         /\ Unstarted(i)' => Unstarted(i)
                         /\ Queued(i)' => Queued(i) \/ i = fan.next
  <2> SUFFICES ASSUME NEW i \in Indices
               PROVE  /\ Open(i)' <=> Open(i)
                      /\ Unstarted(i)' => Unstarted(i)
                      /\ Queued(i)' => Queued(i) \/ i = fan.next
    OBVIOUS
  <2>1. Queued(i)' <=> Queued(i) \/ i = fan.next
    BY <1>1, <1>2 DEF Queued
  <2>2. Unstarted(i) <=> Unstarted(i)' \/ i = fan.next
    BY <1>0, <1>3 DEF Unstarted, Indices
  <2>3. Held(i)' <=> Held(i)
    BY <1>0 DEF Held, Holds
  <2> QED
    BY <2>1, <2>2, <2>3 DEF Open
<1>7. Outcomes'
  BY <1>6, <1>0 DEF Outcomes
<1>8. Counted'
  <2>1. Unstarted(fan.next)
    BY <1>0, <1>3 DEF Unstarted
  <2> QED
    BY <2>1, <1>6, <1>0 DEF Counted
<1>9. Gone'
  BY <1>0, <1>3 DEF Gone, Closed
<1> QED
  BY <1>4, <1>5, <1>7, <1>8, <1>9

\* The sources not fed get the error and stay unfed; the others keep theirs.
LEMMA StopFeedingKeeps == ASSUME FanInv, StopFeeding PROVE FanInv'
<1> USE DEF FanInv
<1>0. /\ fan.phase = "feeding" /\ fan' = [fan EXCEPT !.phase = "waiting"]
      /\ slots' = [i \in Indices |-> IF i \in Unfed THEN [slots[i] EXCEPT !.error = TRUE] ELSE slots[i]]
      /\ UNCHANGED <<jobs, worker, calls, done>>
  BY DEF StopFeeding
<1>1. fan'.phase = "waiting" /\ fan'.next = fan.next /\ fan.next \in Nat
  BY <1>0, FanoutAssumption DEF FanTypeOK
<1>2. FanTypeOK'
  <2>1. fan' \in [phase : {"idle", "feeding", "waiting", "returned"}, next : 1 .. Sources + 1]
    BY <1>0 DEF FanTypeOK
  <2>2. slots' \in [Indices -> [result : BOOLEAN, error : BOOLEAN]]
    BY <1>0 DEF FanTypeOK
  <2> QED
    BY <2>1, <2>2, <1>0 DEF FanTypeOK
<1>3. OnePlace'
  BY <1>0, <1>1 DEF OnePlace, Holds
<1>4. \A i \in Indices : /\ ~Unstarted(i)' /\ (Unstarted(i) <=> i \in Unfed)
                         /\ Queued(i)' <=> Queued(i)
                         /\ Held(i)' <=> Held(i)
                         /\ Queued(i) \/ Held(i) => ~Unstarted(i)
  <2> SUFFICES ASSUME NEW i \in Indices
               PROVE  /\ ~Unstarted(i)' /\ (Unstarted(i) <=> i \in Unfed)
                      /\ Queued(i)' <=> Queued(i)
                      /\ Held(i)' <=> Held(i)
                      /\ Queued(i) \/ Held(i) => ~Unstarted(i)
    OBVIOUS
  <2>1. ~Unstarted(i)' /\ (Unstarted(i) <=> i \in Unfed)
    BY <1>0, <1>1, FanoutAssumption DEF Unstarted, Unfed, Indices
  <2>2. (Queued(i)' <=> Queued(i)) /\ (Held(i)' <=> Held(i))
    BY <1>0 DEF Queued, Held, Holds
  <2>3. Queued(i) \/ Held(i) => i < fan.next
    BY DEF Queued, Held, OnePlace
  <2>4. Queued(i) \/ Held(i) => ~Unstarted(i)
    BY <2>3, <1>1, FanoutAssumption DEF Unstarted, Indices
  <2> QED
    BY <2>1, <2>2, <2>4
<1>5. Outcomes'
  <2> SUFFICES ASSUME NEW i \in Indices
               PROVE  IF Open(i)' THEN ~slots'[i].result /\ ~slots'[i].error
                      ELSE slots'[i].result # slots'[i].error
    BY DEF Outcomes
  <2>0. slots[i] \in [result : BOOLEAN, error : BOOLEAN]
    BY DEF FanTypeOK
  <2>1. CASE Unstarted(i)
    BY <2>0, <2>1, <1>0, <1>4 DEF Outcomes, Open
  <2>2. CASE ~Unstarted(i)
    BY <2>2, <1>0, <1>4 DEF Outcomes, Open
  <2> QED
    BY <2>1, <2>2
<1>6. Counted'
  BY <1>0, <1>4 DEF Counted
<1>7. Gone'
  BY <1>0, <1>1 DEF Gone, Closed
<1> QED
  BY <1>2, <1>3, <1>5, <1>6, <1>7

\* FanStart, FeedingEnds and FanReturn move the phase only; FanCancel not even that.
LEMMA PhaseKeeps ==
  ASSUME FanInv, UNCHANGED <<jobs, worker, slots, calls>>, done' \in BOOLEAN,
         fan' \in [phase : {"idle", "feeding", "waiting", "returned"}, next : 1 .. Sources + 1],
         fan'.next = fan.next,
         \A i \in Indices : Unstarted(i)' <=> Unstarted(i),
         Closed => Closed',
         fan'.phase = "returned" => \A w \in Workers : worker[w].pc = "gone"
  PROVE  FanInv'
<1> USE DEF FanInv
<1>1. FanTypeOK'
  BY DEF FanTypeOK
<1>2. OnePlace'
  BY DEF OnePlace, Holds
<1>3. \A i \in Indices : (Queued(i)' <=> Queued(i)) /\ (Open(i)' <=> Open(i))
  BY DEF Open, Queued, Held, Holds
<1>4. Outcomes'
  BY <1>3 DEF Outcomes
<1>5. Counted'
  BY <1>3 DEF Counted
<1>6. Gone'
  BY DEF Gone
<1> QED
  BY <1>1, <1>2, <1>4, <1>5, <1>6

\* Feeding begins with every source unstarted still.
LEMMA FanStartKeeps == ASSUME FanInv, FanStart PROVE FanInv'
<1>1. /\ fan' \in [phase : {"idle", "feeding", "waiting", "returned"}, next : 1 .. Sources + 1]
      /\ fan'.next = fan.next /\ fan'.phase = "feeding" /\ fan.phase = "idle" /\ done' \in BOOLEAN
      /\ UNCHANGED <<jobs, worker, slots, calls>>
  BY DEF FanInv, FanTypeOK, FanStart
<1>2. \A i \in Indices : Unstarted(i)' <=> Unstarted(i)
  BY <1>1 DEF Unstarted
<1>3. Closed => Closed'
  BY <1>1 DEF Closed
<1> QED
  BY <1>1, <1>2, <1>3, PhaseKeeps

\* The channel is closed when no source is unstarted.
LEMMA FeedingEndsKeeps == ASSUME FanInv, FeedingEnds PROVE FanInv'
<1>1. /\ fan' \in [phase : {"idle", "feeding", "waiting", "returned"}, next : 1 .. Sources + 1]
      /\ fan'.next = fan.next /\ fan'.phase = "waiting" /\ fan.next > Sources
      /\ fan.next \in 1 .. Sources + 1
      /\ done' \in BOOLEAN /\ UNCHANGED <<jobs, worker, slots, calls>>
  BY DEF FanInv, FanTypeOK, FeedingEnds
<1>2. \A i \in Indices : ~Unstarted(i)' /\ ~Unstarted(i)
  BY <1>1, FanoutAssumption DEF Unstarted, Indices
<1>3. Closed => Closed'
  BY <1>1 DEF Closed
<1> QED
  BY <1>1, <1>2, <1>3, PhaseKeeps

\* The run returns when every worker has left.
LEMMA FanReturnKeeps == ASSUME FanInv, FanReturn PROVE FanInv'
<1>1. /\ fan' \in [phase : {"idle", "feeding", "waiting", "returned"}, next : 1 .. Sources + 1]
      /\ fan'.next = fan.next /\ fan.phase = "waiting" /\ fan'.phase = "returned"
      /\ done' \in BOOLEAN /\ UNCHANGED <<jobs, worker, slots, calls>>
      /\ \A w \in Workers : worker[w].pc = "gone"
  BY DEF FanInv, FanTypeOK, FanReturn
<1>2. \A i \in Indices : ~Unstarted(i)' /\ ~Unstarted(i)
  BY <1>1 DEF Unstarted
<1>3. Closed => Closed'
  BY <1>1 DEF Closed
<1> QED
  BY <1>1, <1>2, <1>3, PhaseKeeps

\* Canceling the context moves nothing by itself.
LEMMA FanCancelKeeps == ASSUME FanInv, FanCancel PROVE FanInv'
<1>1. UNCHANGED <<fan, jobs, worker, slots, calls>> /\ done' \in BOOLEAN
  BY DEF FanCancel
<1>2. /\ fan' \in [phase : {"idle", "feeding", "waiting", "returned"}, next : 1 .. Sources + 1]
      /\ fan'.phase = "returned" => \A w \in Workers : worker[w].pc = "gone"
  BY <1>1 DEF FanInv, FanTypeOK, Gone
<1>3. (Closed => Closed') /\ \A i \in Indices : Unstarted(i)' <=> Unstarted(i)
  BY <1>1 DEF Closed, Unstarted
<1> QED
  BY <1>1, <1>2, <1>3, PhaseKeeps

\* The head of the channel goes to one worker.
LEMMA PullKeeps ==
  ASSUME FanInv, NEW w \in Workers, worker[w].pc = "pull", jobs # <<>>, jobs' = Tail(jobs),
         worker' = [worker EXCEPT ![w] = [pc |-> "check", job |-> Head(jobs)]],
         UNCHANGED <<fan, slots, calls, done>>
  PROVE  FanInv'
<1> USE DEF FanInv
<1>1. /\ jobs' \in Seq(Indices) /\ Len(jobs') = Len(jobs) - 1 /\ Len(jobs) \in Nat \ {0}
      /\ DOMAIN jobs' = 1 .. Len(jobs) - 1 /\ DOMAIN jobs = 1 .. Len(jobs)
      /\ Head(jobs) = jobs[1] /\ Head(jobs) \in Indices
      /\ \A n \in DOMAIN jobs' : jobs'[n] = jobs[n + 1]
  BY Pulled DEF FanTypeOK
<1>2. 1 \in DOMAIN jobs /\ \A n \in DOMAIN jobs' : n + 1 \in DOMAIN jobs /\ n + 1 # 1
  BY <1>1
<1>3. \A n \in DOMAIN jobs : n = 1 \/ \E m \in DOMAIN jobs' : n = m + 1
  <2> SUFFICES ASSUME NEW n \in DOMAIN jobs, n # 1
               PROVE  n - 1 \in DOMAIN jobs' /\ n = (n - 1) + 1
    OBVIOUS
  <2> QED
    BY <1>1
<1>4. /\ worker'[w].pc = "check" /\ worker'[w].job = jobs[1]
      /\ \A v \in Workers \ {w} : worker'[v] = worker[v]
  BY <1>1 DEF FanTypeOK
<1>5. FanTypeOK'
  <2>1. worker' \in [Workers -> [pc : {"pull", "check", "call", "gone"}, job : 0 .. Sources]]
    BY <1>1, FanoutAssumption DEF FanTypeOK, Indices
  <2>2. Len(jobs') <= 2 * Cardinality(Workers)
    <3>1. Cardinality(Workers) \in Nat
      BY FanoutAssumption, FS_CardinalityType
    <3> QED
      BY <3>1, <1>1 DEF FanTypeOK
  <2> QED
    BY <2>1, <2>2, <1>1 DEF FanTypeOK
<1>6. \A n \in DOMAIN jobs' : jobs'[n] # jobs[1]
  BY <1>1, <1>2 DEF OnePlace
<1>7. OnePlace'
  <2>1. \A m, n \in DOMAIN jobs' : jobs'[m] = jobs'[n] => m = n
    <3> SUFFICES ASSUME NEW m \in DOMAIN jobs', NEW n \in DOMAIN jobs', jobs'[m] = jobs'[n]
                 PROVE  m = n
      OBVIOUS
    <3>1. m + 1 = n + 1
      BY <1>1, <1>2 DEF OnePlace
    <3> QED
      BY <3>1, <1>1
  <2>2. \A n \in DOMAIN jobs' : jobs'[n] < fan'.next
    BY <1>1, <1>2 DEF OnePlace
  <2>3. ASSUME NEW v \in Workers, Holds(v)'
        PROVE  /\ worker'[v].job \in Indices /\ worker'[v].job < fan'.next
               /\ \A n \in DOMAIN jobs' : jobs'[n] # worker'[v].job
    <3>1. CASE v = w
      BY <3>1, <1>1, <1>2, <1>4, <1>6 DEF OnePlace
    <3>2. CASE v # w
      BY <3>2, <2>3, <1>1, <1>2, <1>4 DEF OnePlace, Holds
    <3> QED
      BY <3>1, <3>2
  <2>4. ASSUME NEW u \in Workers, NEW v \in Workers, Holds(u)', Holds(v)', worker'[u].job = worker'[v].job
        PROVE  u = v
    <3>1. \A x \in Workers \ {w} : Holds(x)' => Holds(x) /\ worker'[x].job # jobs[1]
      BY <1>2, <1>4 DEF OnePlace, Holds
    <3> QED
      BY <2>4, <3>1, <1>4 DEF OnePlace
  <2> QED
    BY <2>1, <2>2, <2>3, <2>4 DEF OnePlace
<1>8. \A i \in Indices : (Unstarted(i)' <=> Unstarted(i)) /\ (Queued(i) <=> Queued(i)' \/ i = jobs[1])
  <2> TAKE i \in Indices
  <2>1. Unstarted(i)' <=> Unstarted(i)
    BY DEF Unstarted
  <2>2. Queued(i)' => Queued(i)
    BY <1>1, <1>2 DEF Queued
  <2>3. Queued(i) => Queued(i)' \/ i = jobs[1]
    BY <1>1, <1>2, <1>3 DEF Queued
  <2>4. i = jobs[1] => Queued(i)
    BY <1>2 DEF Queued
  <2> QED
    BY <2>1, <2>2, <2>3, <2>4
<1>9. \A i \in Indices : Open(i)' <=> Open(i)
  <2> TAKE i \in Indices
  <2>1. Held(i)' <=> Held(i) \/ i = jobs[1]
    BY <1>4 DEF Held, Holds
  <2> QED
    BY <2>1, <1>8 DEF Open
<1>10. Outcomes'
  BY <1>9 DEF Outcomes
<1>11. Counted'
  <2>1. \A i \in Indices : /\ calls'[i] <= 1
                           /\ Unstarted(i)' \/ Queued(i)' => calls'[i] = 0
    BY <1>8 DEF Counted
  <2>2. ASSUME NEW i \in Indices, NEW v \in Workers, worker'[v].pc = "check", worker'[v].job = i
        PROVE  calls'[i] = 0
    <3>1. CASE v = w
      BY <3>1, <2>2, <1>4, <1>8 DEF Counted
    <3>2. CASE v # w
      BY <3>2, <2>2, <1>4 DEF Counted
    <3> QED
      BY <3>1, <3>2
  <2> QED
    BY <2>1, <2>2 DEF Counted
<1>12. Gone'
  <2>1. \A v \in Workers : worker[v].pc # "gone"
    BY DEF Gone
  <2>2. \A v \in Workers : worker'[v].pc # "gone"
    BY <2>1, <1>4
  <2>3. fan.phase # "returned"
    BY <2>1 DEF Gone
  <2> QED
    BY <2>2, <2>3 DEF Gone
<1> QED
  BY <1>5, <1>7, <1>10, <1>11, <1>12

\* A worker that has no source leaves.
LEMMA LeaveKeeps ==
  ASSUME FanInv, NEW w \in Workers, worker[w].pc = "pull", jobs = <<>>, Closed,
         worker' = [worker EXCEPT ![w].pc = "gone"], UNCHANGED <<fan, jobs, slots, calls, done>>
  PROVE  FanInv'
<1> USE DEF FanInv
<1>1. worker'[w].pc = "gone" /\ \A v \in Workers \ {w} : worker'[v] = worker[v]
  BY DEF FanTypeOK
<1>2. FanTypeOK'
  BY DEF FanTypeOK
<1>3. \A v \in Workers : (Holds(v)' <=> Holds(v)) /\ (Holds(v) => worker'[v] = worker[v])
  BY <1>1 DEF Holds
<1>4. OnePlace'
  BY <1>3 DEF OnePlace
<1>5. \A i \in Indices : /\ Unstarted(i)' <=> Unstarted(i)
                         /\ Queued(i)' <=> Queued(i)
                         /\ Open(i)' <=> Open(i)
  BY <1>3 DEF Open, Unstarted, Queued, Held
<1>6. Outcomes'
  BY <1>5 DEF Outcomes
<1>7. Counted'
  BY <1>1, <1>5 DEF Counted
<1>8. Gone'
  BY <1>1 DEF Gone, Closed
<1> QED
  BY <1>2, <1>4, <1>6, <1>7, <1>8

\* A worker that holds a source gives it one outcome and goes back to the channel.
LEMMA SettleKeeps ==
  ASSUME FanInv, NEW w \in Workers, Holds(w), NEW slot \in [result : BOOLEAN, error : BOOLEAN],
         slot.result # slot.error,
         slots' = [slots EXCEPT ![worker[w].job] = slot],
         worker' = [worker EXCEPT ![w] = [pc |-> "pull", job |-> NoJob]],
         UNCHANGED <<fan, jobs, calls, done>>
  PROVE  FanInv'
<1> USE DEF FanInv
<1>1. PICK i \in Indices : i = worker[w].job
  BY DEF OnePlace
<1>2. worker'[w].pc = "pull" /\ \A v \in Workers \ {w} : worker'[v] = worker[v]
  BY DEF FanTypeOK
<1>3. slots'[i] = slot /\ \A k \in Indices \ {i} : slots'[k] = slots[k]
  BY <1>1 DEF FanTypeOK
<1>4. FanTypeOK'
  <2>1. worker' \in [Workers -> [pc : {"pull", "check", "call", "gone"}, job : 0 .. Sources]]
    BY FanoutAssumption DEF FanTypeOK, NoJob
  <2>2. slots' \in [Indices -> [result : BOOLEAN, error : BOOLEAN]]
    BY DEF FanTypeOK
  <2> QED
    BY <2>1, <2>2 DEF FanTypeOK
<1>5. \A v \in Workers : Holds(v)' => v # w /\ Holds(v) /\ worker'[v] = worker[v]
  BY <1>2 DEF Holds
<1>6. OnePlace'
  BY <1>5 DEF OnePlace
<1>7. \A k \in Indices : (Unstarted(k)' <=> Unstarted(k)) /\ (Queued(k)' <=> Queued(k))
  BY DEF Unstarted, Queued
<1>8. ~Open(i)'
  <2>1. ~Unstarted(i)
    BY <1>1, FanoutAssumption DEF OnePlace, Unstarted, Indices, FanTypeOK
  <2>2. ~Queued(i)
    BY <1>1 DEF OnePlace, Queued
  <2>3. ~Held(i)'
    BY <1>1, <1>5 DEF Held, OnePlace
  <2> QED
    BY <1>1, <1>7, <2>1, <2>2, <2>3 DEF Open
<1>9. \A k \in Indices \ {i} : Open(k)' <=> Open(k)
  <2> TAKE k \in Indices \ {i}
  <2>1. Held(k)' => Held(k)
    BY <1>5 DEF Held
  <2>2. Held(k) => Held(k)'
    <3> SUFFICES ASSUME NEW v \in Workers, Holds(v), worker[v].job = k
                 PROVE  Held(k)'
      BY DEF Held
    <3>1. v # w
      BY <1>1
    <3> QED
      BY <3>1, <1>2 DEF Held, Holds
  <2> QED
    BY <2>1, <2>2, <1>7 DEF Open
<1>10. Outcomes'
  BY <1>3, <1>8, <1>9 DEF Outcomes
<1>11. Counted'
  BY <1>2, <1>7 DEF Counted
<1>12. Gone'
  <2>1. fan.phase # "returned"
    BY DEF Gone, Holds
  <2> QED
    BY <2>1, <1>2 DEF Gone, Closed
<1> QED
  BY <1>4, <1>6, <1>10, <1>11, <1>12

\* A worker calls fn for the source it holds.
LEMMA CallKeeps ==
  ASSUME FanInv, NEW w \in Workers, worker[w].pc = "check",
         worker' = [worker EXCEPT ![w].pc = "call"],
         calls' = [calls EXCEPT ![worker[w].job] = @ + 1],
         UNCHANGED <<fan, jobs, slots, done>>
  PROVE  FanInv'
<1> DEFINE i == worker[w].job
<1> USE DEF FanInv
<1>1. i \in Indices /\ Holds(w) /\ calls[i] = 0
  BY DEF OnePlace, Holds, Counted
<1>2. /\ worker'[w].pc = "call" /\ worker'[w].job = i
      /\ \A v \in Workers \ {w} : worker'[v] = worker[v]
  BY DEF FanTypeOK
<1>3. calls'[i] = 1 /\ \A k \in Indices \ {i} : calls'[k] = calls[k]
  BY <1>1 DEF FanTypeOK
<1>4. FanTypeOK'
  <2>1. worker' \in [Workers -> [pc : {"pull", "check", "call", "gone"}, job : 0 .. Sources]]
    BY DEF FanTypeOK
  <2>2. calls' \in [Indices -> Nat]
    BY <1>1 DEF FanTypeOK
  <2> QED
    BY <2>1, <2>2 DEF FanTypeOK
<1>5. \A v \in Workers : (Holds(v)' <=> Holds(v)) /\ worker'[v].job = worker[v].job
  BY <1>1, <1>2 DEF Holds
<1>6. OnePlace'
  BY <1>5 DEF OnePlace
<1>7. \A k \in Indices : /\ Unstarted(k)' <=> Unstarted(k)
                         /\ Queued(k)' <=> Queued(k)
                         /\ Open(k)' <=> Open(k)
  BY <1>5 DEF Open, Unstarted, Queued, Held
<1>8. Outcomes'
  BY <1>7 DEF Outcomes
<1>9. ~Unstarted(i) /\ ~Queued(i)
  <2>1. ~Unstarted(i)
    BY <1>1, FanoutAssumption DEF OnePlace, Unstarted, Indices, FanTypeOK
  <2>2. ~Queued(i)
    BY <1>1 DEF OnePlace, Queued
  <2> QED
    BY <2>1, <2>2
<1>10. Counted'
  <2> SUFFICES ASSUME NEW k \in Indices
               PROVE  /\ calls'[k] <= 1
                      /\ Unstarted(k)' \/ Queued(k)' => calls'[k] = 0
                      /\ \A v \in Workers : worker'[v].pc = "check" /\ worker'[v].job = k => calls'[k] = 0
    BY DEF Counted
  <2>1. CASE k = i
    <3>1. \A v \in Workers \ {w} : Holds(v) => worker[v].job # i
      BY <1>1 DEF OnePlace
    <3> QED
      BY <2>1, <3>1, <1>2, <1>3, <1>7, <1>9 DEF Holds
  <2>2. CASE k # i
    BY <2>2, <1>2, <1>3, <1>7 DEF Counted
  <2> QED
    BY <2>1, <2>2
<1>11. Gone'
  BY <1>2 DEF Gone, Closed
<1> QED
  BY <1>4, <1>6, <1>8, <1>10, <1>11

\* Each step of a worker is one of the four above.
LEMMA WorkerKeeps == ASSUME FanInv, NEW w \in Workers, WorkerStep(w) PROVE FanInv'
<1>0. Holds(w) => /\ worker[w].job \in Indices
                  /\ ~slots[worker[w].job].result /\ ~slots[worker[w].job].error
                  /\ slots[worker[w].job] \in [result : BOOLEAN, error : BOOLEAN]
  BY DEF FanInv, FanTypeOK, OnePlace, Outcomes, Open, Held
<1>1. CASE Pull(w)
  <2>1. CASE jobs # <<>> /\ worker' = [worker EXCEPT ![w] = [pc |-> "check", job |-> Head(jobs)]]
             /\ jobs' = Tail(jobs)
    BY <1>1, <2>1, PullKeeps DEF Pull
  <2>2. CASE jobs = <<>> /\ Closed /\ worker' = [worker EXCEPT ![w].pc = "gone"] /\ jobs' = jobs
    BY <1>1, <2>2, LeaveKeeps DEF Pull
  <2> QED
    BY <1>1, <2>1, <2>2 DEF Pull
<1>2. CASE CheckCanceled(w)
  <2>1. CASE done
    <3> DEFINE slot == [slots[worker[w].job] EXCEPT !.error = TRUE]
    <3>1. Holds(w)
      BY <1>2 DEF CheckCanceled, Holds
    <3>2. slot \in [result : BOOLEAN, error : BOOLEAN] /\ slot.result # slot.error
      BY <3>1, <1>0
    <3>3. slots' = [slots EXCEPT ![worker[w].job] = slot]
      BY <1>2, <2>1 DEF CheckCanceled
    <3>4. /\ worker' = [worker EXCEPT ![w] = [pc |-> "pull", job |-> NoJob]]
          /\ UNCHANGED <<fan, jobs, calls, done>>
      BY <1>2, <2>1 DEF CheckCanceled
    <3> HIDE DEF slot
    <3> QED
      BY <3>1, <3>2, <3>3, <3>4, SettleKeeps
  <2>2. CASE ~done
    BY <1>2, <2>2, CallKeeps DEF CheckCanceled
  <2> QED
    BY <2>1, <2>2
<1>3. CASE CallReturns(w)
  <2>1. PICK ok \in BOOLEAN :
          slots' = [slots EXCEPT ![worker[w].job] =
                      IF ok THEN [@ EXCEPT !.result = TRUE] ELSE [@ EXCEPT !.error = TRUE]]
    BY <1>3 DEF CallReturns
  <2> DEFINE slot == IF ok THEN [slots[worker[w].job] EXCEPT !.result = TRUE]
                     ELSE [slots[worker[w].job] EXCEPT !.error = TRUE]
  <2>2. Holds(w)
    BY <1>3 DEF CallReturns, Holds
  <2>3. slot \in [result : BOOLEAN, error : BOOLEAN] /\ slot.result # slot.error
    BY <2>2, <1>0
  <2>4. slots' = [slots EXCEPT ![worker[w].job] = slot]
    BY <2>1
  <2>5. /\ worker' = [worker EXCEPT ![w] = [pc |-> "pull", job |-> NoJob]]
        /\ UNCHANGED <<fan, jobs, calls, done>>
    BY <1>3 DEF CallReturns
  <2> HIDE DEF slot
  <2> QED
    BY <2>2, <2>3, <2>4, <2>5, SettleKeeps
<1> QED
  BY <1>1, <1>2, <1>3 DEF WorkerStep

\* A step that changes nothing.
LEMMA StutterKeeps == ASSUME FanInv, UNCHANGED fanVars PROVE FanInv'
<1>1. UNCHANGED <<fan, jobs, worker, slots, calls, done>>
  BY DEF fanVars
<1>2. /\ done' \in BOOLEAN
      /\ fan' \in [phase : {"idle", "feeding", "waiting", "returned"}, next : 1 .. Sources + 1]
      /\ fan'.phase = "returned" => \A w \in Workers : worker[w].pc = "gone"
  BY <1>1 DEF FanInv, FanTypeOK, Gone
<1>3. (Closed => Closed') /\ \A i \in Indices : Unstarted(i)' <=> Unstarted(i)
  BY <1>1 DEF Closed, Unstarted
<1> QED
  BY <1>1, <1>2, <1>3, PhaseKeeps

\* The invariant is inductive.
LEMMA StepKeeps == FanInv /\ [FanNext]_fanVars => FanInv'
<1> SUFFICES ASSUME FanInv, [FanNext]_fanVars PROVE FanInv'
  OBVIOUS
<1>1. CASE FanStart
  BY <1>1, FanStartKeeps
<1>2. CASE FanCancel
  BY <1>2, FanCancelKeeps
<1>3. CASE Feed
  BY <1>3, FeedKeeps
<1>4. CASE StopFeeding
  BY <1>4, StopFeedingKeeps
<1>5. CASE FeedingEnds
  BY <1>5, FeedingEndsKeeps
<1>6. CASE FanReturn
  BY <1>6, FanReturnKeeps
<1>7. ASSUME NEW w \in Workers, WorkerStep(w) PROVE FanInv'
  BY <1>7, WorkerKeeps
<1>8. CASE UNCHANGED fanVars
  BY <1>8, StutterKeeps
<1> QED
  BY <1>1, <1>2, <1>3, <1>4, <1>5, <1>6, <1>7, <1>8 DEF FanNext, FeederStep

\* When all workers have left, no source is open.
LEMMA InvAccounts == FanInv => EverySourceAccounted
<1> SUFFICES ASSUME FanInv, fan.phase = "returned", NEW i \in Indices
             PROVE  slots[i].result # slots[i].error /\ calls[i] <= 1
  BY DEF EverySourceAccounted
<1>1. PICK w \in Workers : worker[w].pc = "gone"
  BY FanoutAssumption DEF FanInv, Gone
<1>2. jobs = <<>> /\ \A v \in Workers : ~Holds(v)
  BY <1>1 DEF FanInv, Gone, Holds
<1>3. ~Open(i)
  BY <1>2 DEF Open, Unstarted, Queued, Held
<1> QED
  BY <1>3 DEF FanInv, Outcomes, Counted

\* The invariant holds in every state of every run of FanoutRun.
THEOREM FanoutInvariant == FanSpec => []FanInv
<1> QED
  BY InitEstablishes, StepKeeps, PTL DEF FanSpec

\* Whatever the number of sources and workers, and whenever the context is canceled, a FanoutRun
\* that returns has one result or one error for every source, and has called fn at most once for
\* it (fanout.go:151-173).
THEOREM NoSourceDropped == FanSpec => []EverySourceAccounted
<1> QED
  BY FanoutInvariant, InvAccounts, PTL

--------------------------------------------------------------------------------
(***************************************************************************)
(* ClientMigration, for any number of processes that migrate.  A file is   *)
(* in its place, or a process has copied it before it moved it away: the   *)
(* invariant says what each process believes of its copy, and that the     *)
(* copy is its own.                                                        *)
(***************************************************************************)

\* What every step of process p leaves to show of the type: its own next record.
LEMMA MigrationOwnRecord ==
  ASSUME NEW p \in Migrators, NEW r, r = Resting \/ r \in MigratorState,
         migrator \in [Migrators -> {Resting} \cup MigratorState],
         migrator' = [migrator EXCEPT ![p] = r]
  PROVE  /\ migrator' \in [Migrators -> {Resting} \cup MigratorState]
         /\ migrator'[p] = r
         /\ \A q \in Migrators : q # p => migrator'[q] = migrator[q]
OBVIOUS

\* A record with a command counter is not that of a resting process.
LEMMA MigrationBusy ==
  ASSUME MigrationTypeOK, NEW p \in Migrators, migrator[p].pc # "idle"
  PROVE  migrator[p] \in MigratorState
BY DEF MigrationTypeOK, Resting

\* An update of single fields of a busy process is an update of its record.
LEMMA MigrationGoes ==
  ASSUME MigrationTypeOK, NEW p \in Migrators, migrator[p] \in MigratorState,
         NEW pc \in {"gate", "save", "adopt", "copy", "copying", "verify", "check", "move"},
         NEW status \in [Kinds -> Statuses], NEW reading \in Contents, NEW moved \in BOOLEAN
  PROVE  [migrator[p] EXCEPT !.pc = pc, !.status = status, !.reading = reading, !.moved = moved]
           \in MigratorState
BY DEF MigrationTypeOK, MigratorState

\* The places and what may be at them.
LEMMA MigrationPlaces ==
  /\ Kinds = {"config", "database"}
  /\ BackupOf["config"] = "config.backup" /\ BackupOf["database"] = "database.backup"
  /\ Places = {"config", "database", "config.backup", "database.backup", "target"}
  /\ Missing \in Contents /\ Partial \in Contents /\ Missing # Partial
  /\ Missing.owner # "me" /\ Partial.owner # "me"
BY DEF Kinds, BackupOf, Places, Missing, Partial, Content, Contents, Owners

\* The type of the files after a step that writes one place or renames one.
LEMMA MigrationFiles ==
  ASSUME MigrationTypeOK, NEW a \in Places, NEW b \in Places, NEW c \in Contents
  PROVE  /\ [file EXCEPT ![a] = c] \in [Places -> Contents]
         /\ Renamed(a, b) \in [Places -> Contents]
BY MigrationPlaces DEF MigrationTypeOK, Renamed
\* A legacy file is where it was, as is the older backup, or it is the backup and there was none.
InPlace(k) == file[k] = original[k] /\ file[BackupOf[k]] = original[BackupOf[k]]
BackedUp(k) ==
  file[k] = Missing /\ file[BackupOf[k]] = original[k] /\ original[BackupOf[k]] = Missing

\* A process that passed the check of the backups renames, and takes back, only over nothing.
MoverSafe(p) ==
  /\ Does(p, "move") => /\ \A k \in ToMove(p) : original[BackupOf[k]] = Missing
                        /\ migrator[p].moved => original["config.backup"] = Missing
  /\ migrator[p].pc \notin {"idle", "move"} => ~migrator[p].moved

LegacyInv ==
  /\ MigrationTypeOK
  /\ \A k \in Kinds : original[k] # Missing /\ (InPlace(k) \/ BackedUp(k))
  /\ \A p \in Migrators : MoverSafe(p)

\* What a process may believe of the legacy database, by how far it is.
BeliefOf(p) == migrator[p].status["database"]
Believes(p) ==
  /\ migrator[p].pc \in {"gate", "save", "adopt", "copy", "copying", "verify"}
       => BeliefOf(p) \in {"none", "pending", "backed_up"}
  /\ Does(p, "check") => BeliefOf(p) \in {"none", "adopted", "quarantined", "backed_up"}
  /\ Does(p, "move") => BeliefOf(p) \in {"none", "adopted", "backed_up"}

\* A process that has adopted the target, and may move the legacy database.
Adopted(p) == migrator[p].pc \in {"check", "move"} /\ BeliefOf(p) = "adopted"
Copies(p) == migrator[p].pc \in CopyPhases

\* As long as no process copied or adopted beside one that copies: one copies, over nothing,
\* while the legacy database is in its place and nobody has adopted the copy; and a database
\* that was adopted stays.
CopyAlone(p) ==
  /\ Copies(p) => /\ \A q \in Migrators : Copies(q) => p = q
                  /\ \A q \in Migrators : ~Adopted(q)
                  /\ file["database"] # Missing
  /\ Does(p, "copy") => file["target"] = Missing
  /\ Does(p, "copying") => file["target"] = Partial
  /\ Adopted(p) => Owned("target")

CopyInv ==
  /\ MigrationTypeOK
  /\ \A p \in Migrators : Believes(p)
  /\ ~raced => \A p \in Migrators : CopyAlone(p)
  /\ MovedOnlyAfterCopy

\* MoveLegacy for the file that is next.
MoveLegacyOf(p, k) ==
  /\ k \in ToMove(p) /\ (k = "database" => "config" \notin ToMove(p))
  /\ \/ /\ file[k] # Missing
        /\ file' = Renamed(k, BackupOf[k])
        /\ migrator' = [migrator EXCEPT ![p].status[k] = "backed_up",
                                        ![p].moved = k = "config"]
     \/ /\ file' = IF k = "database" /\ migrator[p].moved /\ file["config.backup"] # Missing
                   THEN Renamed("config.backup", "config") ELSE file
        /\ Fails(p)
     \/ file[k] # Missing /\ file' = file /\ Fails(p)

\* A move is the move of one of the files.
LEMMA MigrationMoves ==
  ASSUME NEW p \in Migrators, MoveLegacy(p) PROVE \E k \in Kinds : MoveLegacyOf(p, k)
  <1>1. CASE "config" \in ToMove(p)
    <2>1. MoveLegacyOf(p, "config")
      BY <1>1 DEF MoveLegacy, MoveLegacyOf
    <2> QED BY <2>1, MigrationPlaces
  <1>2. CASE "config" \notin ToMove(p)
    <2>1. "database" \in ToMove(p)
      BY <1>2, MigrationPlaces DEF MoveLegacy, ToMove
    <2>2. MoveLegacyOf(p, "database")
      BY <1>2, <2>1 DEF MoveLegacy, MoveLegacyOf
    <2> QED BY <2>2, MigrationPlaces
  <1> QED BY <1>1, <1>2

\* The first record of a process that begins.
LEMMA MigrationBegunTyped ==
  ASSUME MigrationTypeOK, NEW p \in Migrators, NEW chosen \in SUBSET Kinds,
         NEW cleanup \in BOOLEAN, MigrateBegins(p, chosen, cleanup)
  PROVE  migrator'[p] \in MigratorState /\ migrator' = [migrator EXCEPT ![p] = migrator'[p]]
  <1> DEFINE status == [k \in Kinds |-> IF k \in chosen THEN Inspected(k) ELSE "none"]
  <1>1. status \in [Kinds -> Statuses]
    BY DEF Inspected, Statuses
  <1> HIDE DEF status
  <1>2. [pc |-> "gate", already |-> source = "candidate", cleanup |-> cleanup,
         reading |-> Missing, moved |-> FALSE, status |-> status] \in MigratorState
    BY <1>1, MigrationPlaces DEF MigratorState
  <1> QED BY <1>2 DEF MigrateBegins, MigrationTypeOK, status

\* Every step of a process writes the record of that process alone, and a record of the type.
MigrationOwn(p) ==
  /\ migrator' = [migrator EXCEPT ![p] = migrator'[p]]
  /\ migrator'[p] \in {Resting} \cup MigratorState

\* The ways a step of a migration moves on change the record of that migration only.
LEMMA MigrationStepsOwn ==
  ASSUME MigrationTypeOK, NEW p \in Migrators
  PROVE  /\ Fails(p) => MigrationOwn(p)
         /\ \A pc \in {"gate", "save", "adopt", "copy", "copying", "verify", "check", "move"} :
              migrator[p] \in MigratorState /\ Goes(p, pc) => MigrationOwn(p)
         /\ \A status \in Statuses :
              migrator[p] \in MigratorState /\ AdoptAs(p, status) => MigrationOwn(p)
  <1>1. Fails(p) => MigrationOwn(p)
    BY DEF Fails, MigrationOwn, MigrationTypeOK
  <1>2. ASSUME NEW pc \in {"gate", "save", "adopt", "copy", "copying", "verify", "check", "move"},
               migrator[p] \in MigratorState, Goes(p, pc)
        PROVE  MigrationOwn(p)
    <2>1. [migrator[p] EXCEPT !.pc = pc] \in MigratorState
      BY <1>2 DEF MigratorState
    <2> QED BY <1>2, <2>1 DEF Goes, MigrationOwn, MigrationTypeOK
  <1>3. ASSUME NEW status \in Statuses, migrator[p] \in MigratorState, AdoptAs(p, status)
        PROVE  MigrationOwn(p)
    <2>1. [migrator[p] EXCEPT !.pc = "check", !.status["database"] = status] \in MigratorState
      BY <1>3 DEF MigratorState, Kinds
    <2> QED BY <1>3, <2>1 DEF AdoptAs, MigrationOwn, MigrationTypeOK
  <1> QED BY <1>1, <1>2, <1>3

\* A move, too.
LEMMA MoveOwn ==
  ASSUME MigrationTypeOK, NEW p \in Migrators, MoveLegacy(p)
  PROVE  MigrationOwn(p) /\ file' \in [Places -> Contents]
  <1>1. PICK k \in Kinds : MoveLegacyOf(p, k)
    BY MigrationMoves
  <1>2. migrator[p] \in MigratorState
    BY MigrationBusy DEF MoveLegacy, Does
  <1>3. file' \in [Places -> Contents]
    <2>1. file \in [Places -> Contents]
      BY DEF MigrationTypeOK
    <2> QED BY <1>1, <2>1, MigrationFiles, MigrationPlaces DEF MoveLegacyOf
  <1>4. MigrationOwn(p)
    <2>1. [migrator[p] EXCEPT !.status[k] = "backed_up", !.moved = (k = "config")]
            \in MigratorState
      BY <1>2 DEF MigratorState, Statuses
    <2> QED BY <1>1, <2>1, MigrationStepsOwn DEF MoveLegacyOf, MigrationOwn, MigrationTypeOK
  <1> QED BY <1>3, <1>4

\* MigrationTypeOK is inductive: one step per action.
LEMMA MigrationTyped == MigrationTypeOK /\ [MigrationNext]_migrationVars => MigrationTypeOK'
<1> SUFFICES ASSUME MigrationTypeOK, [MigrationNext]_migrationVars PROVE MigrationTypeOK'
  OBVIOUS
<1>1. ASSUME NEW p \in Migrators, MigrationOwn(p), UNCHANGED original,
             file' \in [Places -> Contents], raced' \in BOOLEAN,
             source' \in {"absent", "trusted", "candidate"}
      PROVE  MigrationTypeOK'
  BY <1>1 DEF MigrationTypeOK, MigrationOwn
<1>2. ASSUME NEW p \in Migrators, NEW chosen \in SUBSET Kinds, NEW cleanup \in BOOLEAN,
             MigrateBegins(p, chosen, cleanup)
      PROVE  MigrationTypeOK'
  <2>1. MigrationOwn(p)
    BY <1>2, MigrationBegunTyped DEF MigrationOwn
  <2> QED BY <1>1, <1>2, <2>1 DEF MigrateBegins, MigrationTypeOK
<1>3. ASSUME NEW p \in Migrators, GatePasses(p) PROVE MigrationTypeOK'
  BY <1>1, <1>3, MigrationBusy, MigrationStepsOwn DEF GatePasses, Does, MigrationTypeOK
<1>4. ASSUME NEW p \in Migrators, MigrateSaves(p) PROVE MigrationTypeOK'
  BY <1>1, <1>4, MigrationBusy, MigrationStepsOwn DEF MigrateSaves, Does, MigrationTypeOK
<1>5. ASSUME NEW p \in Migrators, Adopt(p) PROVE MigrationTypeOK'
  <2>1. migrator[p] \in MigratorState
    BY <1>5, MigrationBusy DEF Adopt, Does
  <2>2. MigrationOwn(p) /\ raced' \in BOOLEAN
    <3>0. raced' \in BOOLEAN
      BY <1>5 DEF Adopt, MigrationTypeOK
    <3>1. CASE Goes(p, "check")
      BY <2>1, <3>0, <3>1, MigrationStepsOwn
    <3>2. CASE Fails(p)
      BY <3>0, <3>2, MigrationStepsOwn
    <3>3. CASE AdoptAs(p, "adopted") \/ AdoptAs(p, "quarantined") \/ AdoptAs(p, "backed_up")
      BY <2>1, <3>0, <3>3, MigrationStepsOwn DEF Statuses
    <3>4. CASE migrator' = [migrator EXCEPT ![p].pc = "copy", ![p].reading = file["database"]]
      <4>1. file["database"] \in Contents
        BY MigrationPlaces DEF MigrationTypeOK
      <4>2. [migrator[p] EXCEPT !.pc = "copy", !.reading = file["database"]] \in MigratorState
        BY <2>1, <4>1 DEF MigratorState
      <4> QED BY <3>0, <3>4, <4>2 DEF MigrationOwn, MigrationTypeOK
    <3> QED BY <1>5, <3>1, <3>2, <3>3, <3>4 DEF Adopt
  <2> QED BY <1>1, <1>5, <2>2 DEF Adopt, MigrationTypeOK
<1>6. ASSUME NEW p \in Migrators, CopyBegins(p) PROVE MigrationTypeOK'
  <2>1. file' \in [Places -> Contents]
    BY <1>6, MigrationFiles, MigrationPlaces DEF CopyBegins
  <2> QED BY <1>1, <1>6, <2>1, MigrationBusy, MigrationStepsOwn
          DEF CopyBegins, Does, MigrationTypeOK
<1>7. ASSUME NEW p \in Migrators, CopyEnds(p) PROVE MigrationTypeOK'
  <2>1. migrator[p].reading \in Contents
    BY <1>7, MigrationBusy DEF CopyEnds, Does, MigratorState
  <2>2. file' \in [Places -> Contents]
    BY <1>7, <2>1, MigrationFiles, MigrationPlaces DEF CopyEnds, MigrationTypeOK
  <2> QED BY <1>1, <1>7, <2>2, MigrationBusy, MigrationStepsOwn
          DEF CopyEnds, Does, MigrationTypeOK
<1>8. ASSUME NEW p \in Migrators, CopyVerified(p) PROVE MigrationTypeOK'
  <2>1. file' \in [Places -> Contents]
    BY <1>8, MigrationFiles, MigrationPlaces DEF CopyVerified, MigrationTypeOK
  <2>2. MigrationOwn(p)
    BY <1>8, MigrationBusy, MigrationStepsOwn DEF CopyVerified, Does, Statuses
  <2> QED BY <1>1, <1>8, <2>1, <2>2 DEF CopyVerified, MigrationTypeOK
<1>9. ASSUME NEW p \in Migrators, CheckBackups(p) PROVE MigrationTypeOK'
  BY <1>1, <1>9, MigrationBusy, MigrationStepsOwn DEF CheckBackups, Does, MigrationTypeOK
<1>10. ASSUME NEW p \in Migrators, MoveLegacy(p) PROVE MigrationTypeOK'
  BY <1>1, <1>10, MoveOwn DEF MoveLegacy, MigrationTypeOK
<1>11. ASSUME NEW p \in Migrators, MigrateStops(p) PROVE MigrationTypeOK'
  BY <1>1, <1>11, MigrationStepsOwn DEF MigrateStops, MigrationTypeOK
<1>12. CASE SourceSet
  BY <1>12 DEF SourceSet, MigrationTypeOK
<1>13. CASE UNCHANGED migrationVars
  BY <1>13 DEF migrationVars, MigrationTypeOK
<1> QED BY <1>2, <1>3, <1>4, <1>5, <1>6, <1>7, <1>8, <1>9, <1>10, <1>11, <1>12, <1>13
        DEF MigrationNext

\* At first every migration rests, and the files are some of those a user may have.
LEMMA MigrationInitTyped == MigrationInit => MigrationTypeOK
<1> SUFFICES ASSUME MigrationInit PROVE MigrationTypeOK
  OBVIOUS
<1>1. file \in [Places -> Contents]
  BY MigrationPlaces DEF MigrationInit, Contents, Content, Settings, Database, Owners, Missing
<1> QED BY <1>1 DEF MigrationInit, MigrationTypeOK

\* The state of every migration is well typed.
THEOREM MigrationTypeCorrect == MigrationSpec => []MigrationTypeOK
BY MigrationInitTyped, MigrationTyped, PTL DEF MigrationSpec

(***************************************************************************)
(* No legacy file and no older backup is lost.                             *)
(***************************************************************************)

\* What the files are worth depends on the files of the legacy places and the backups alone.
LEMMA LegacyFrame ==
  ASSUME LegacyInv, UNCHANGED original, MigrationTypeOK',
         \A k \in Kinds : file'[k] = file[k] /\ file'[BackupOf[k]] = file[BackupOf[k]],
         \A p \in Migrators : MoverSafe(p)'
  PROVE  LegacyInv'
  BY DEF LegacyInv, InPlace, BackedUp

\* A process that is not the one that steps stays safe.
LEMMA MoverFrame ==
  ASSUME MigrationTypeOK, NEW p \in Migrators, MigrationOwn(p), UNCHANGED original,
         NEW q \in Migrators, q # p, MoverSafe(q)
  PROVE  MoverSafe(q)'
  <1>1. migrator'[q] = migrator[q]
    BY DEF MigrationTypeOK, MigrationOwn
  <1> QED BY <1>1 DEF MoverSafe, Does, ToMove

\* The process of the step is at rest, or not yet past the check of the backups.
Unarmed(p) ==
  \/ migrator[p].pc = "idle"
  \/ migrator[p].pc # "move" /\ ~migrator[p].moved

\* The step of a process that neither renames nor passes the check of the backups.
LEMMA MoverIdles ==
  ASSUME LegacyInv, MigrationTypeOK', NEW p \in Migrators, MigrationOwn(p), UNCHANGED original,
         \A k \in Kinds : file'[k] = file[k] /\ file'[BackupOf[k]] = file[BackupOf[k]],
         Unarmed(p)'
  PROVE  LegacyInv'
  <1>1. MoverSafe(p)'
    BY DEF MoverSafe, Does, Unarmed
  <1>2. \A q \in Migrators : MoverSafe(q)'
    BY <1>1, MoverFrame DEF LegacyInv
  <1> QED BY <1>2, LegacyFrame

\* The places of the legacy files and of their backups are not the place of a profile.
LEMMA LegacyPlaces ==
  ASSUME MigrationTypeOK, NEW c, file' = [file EXCEPT !["target"] = c]
  PROVE  \A k \in Kinds : file'[k] = file[k] /\ file'[BackupOf[k]] = file[BackupOf[k]]
  BY MigrationPlaces DEF MigrationTypeOK

\* A rename puts a legacy file where its backup is, and one that is taken back where it was.
LEMMA MoveKeepsLegacy ==
  ASSUME LegacyInv, MigrationTypeOK', NEW p \in Migrators, MoveLegacy(p), MigrationOwn(p)
  PROVE  LegacyInv'
<1>1. PICK k \in Kinds : MoveLegacyOf(p, k)
  BY MigrationMoves
<1>2. /\ Does(p, "move") /\ UNCHANGED original /\ MigrationTypeOK
      /\ migrator[p] \in MigratorState /\ MoverSafe(p)
  BY MigrationBusy DEF LegacyInv, MoveLegacy, Does
<1>3. migrator[p].status \in [Kinds -> Statuses]
  BY <1>2 DEF MigratorState
<1>4. original[BackupOf[k]] = Missing
  BY <1>1, <1>2 DEF MoveLegacyOf, MoverSafe
<1>5. CASE /\ file[k] # Missing /\ file' = Renamed(k, BackupOf[k])
           /\ migrator' = [migrator EXCEPT ![p].status[k] = "backed_up",
                                           ![p].moved = k = "config"]
  <2>1. InPlace(k)
    BY <1>5 DEF LegacyInv, BackedUp
  <2>2. BackedUp(k)'
    BY <1>2, <1>4, <1>5, <2>1, MigrationPlaces DEF InPlace, BackedUp, Renamed, MigrationTypeOK
  <2>3. \A j \in Kinds : j # k => file'[j] = file[j] /\ file'[BackupOf[j]] = file[BackupOf[j]]
    BY <1>2, <1>5, MigrationPlaces DEF Renamed, MigrationTypeOK
  <2>4. \A j \in Kinds : original'[j] # Missing /\ (InPlace(j)' \/ BackedUp(j)')
    BY <1>2, <2>2, <2>3 DEF LegacyInv, InPlace, BackedUp
  <2>5. MoverSafe(p)'
    <3>1. /\ migrator'[p].pc = "move" /\ migrator'[p].moved = (k = "config")
          /\ \A j \in Kinds : migrator'[p].status[j]
                                = IF j = k THEN "backed_up" ELSE migrator[p].status[j]
      BY <1>2, <1>3, <1>5 DEF MigrationTypeOK, MigratorState, Does
    <3>2. \A j \in Kinds : j \in ToMove(p)' => j \in ToMove(p)
      BY <3>1 DEF ToMove
    <3> QED BY <1>2, <1>4, <3>1, <3>2, MigrationPlaces DEF MoverSafe, ToMove
  <2>6. \A q \in Migrators : MoverSafe(q)'
    BY <1>2, <2>5, MoverFrame DEF LegacyInv
  <2> QED BY <2>4, <2>6 DEF LegacyInv
<1>6. CASE ~(file' = file) /\ Fails(p)
  <2>1. /\ file' = Renamed("config.backup", "config") /\ file["config.backup"] # Missing
        /\ migrator[p].moved
    <3>1. migrator'[p].pc # "move"
      BY <1>2, <1>6 DEF Fails, MigrationTypeOK, Resting
    <3>2. ~(migrator' = [migrator EXCEPT ![p].status[k] = "backed_up",
                                         ![p].moved = k = "config"])
      BY <1>2, <3>1 DEF MigrationTypeOK, MigratorState, Does
    <3> QED BY <1>1, <1>6, <3>2 DEF MoveLegacyOf
  <2>2. original["config.backup"] = Missing
    BY <1>2, <2>1 DEF MoverSafe
  <2>3. BackedUp("config")
    BY <2>1, <2>2, MigrationPlaces DEF LegacyInv, InPlace
  <2>4. InPlace("config")'
    BY <1>2, <2>1, <2>2, <2>3, MigrationPlaces DEF BackedUp, InPlace, Renamed, MigrationTypeOK
  <2>5. file'["database"] = file["database"] /\ file'["database.backup"] = file["database.backup"]
    BY <1>2, <2>1, MigrationPlaces DEF Renamed, MigrationTypeOK
  <2>6. \A j \in Kinds : original'[j] # Missing /\ (InPlace(j)' \/ BackedUp(j)')
    BY <1>2, <2>4, <2>5, MigrationPlaces DEF LegacyInv, InPlace, BackedUp
  <2>7. \A q \in Migrators : MoverSafe(q)'
    <3>1. migrator'[p] = Resting
      BY <1>2, <1>6 DEF Fails, MigrationTypeOK
    <3>2. MoverSafe(p)'
      BY <3>1 DEF MoverSafe, Does, Resting
    <3> QED BY <1>2, <3>2, MoverFrame DEF LegacyInv
  <2> QED BY <2>6, <2>7 DEF LegacyInv
<1>7. CASE file' = file /\ Fails(p)
  <2>1. Unarmed(p)'
    <3>1. migrator'[p].pc = "idle"
      BY <1>2, <1>7 DEF Fails, MigrationTypeOK, Resting
    <3> QED BY <3>1 DEF Unarmed
  <2>2. \A j \in Kinds : file'[j] = file[j] /\ file'[BackupOf[j]] = file[BackupOf[j]]
    BY <1>7
  <2> QED BY <1>2, <2>1, <2>2, MoverIdles
<1> QED BY <1>1, <1>5, <1>6, <1>7 DEF MoveLegacyOf

\* Of the files a copy writes only the database of the profile.
OnlyTarget == file' = file \/ \E c \in Contents : file' = [file EXCEPT !["target"] = c]

\* LegacyInv is inductive.
LEMMA LegacyKept == LegacyInv /\ [MigrationNext]_migrationVars => LegacyInv'
<1> SUFFICES ASSUME LegacyInv, [MigrationNext]_migrationVars PROVE LegacyInv'
  OBVIOUS
<1>1. MigrationTypeOK /\ MigrationTypeOK' /\ \A p \in Migrators : MoverSafe(p)
  BY MigrationTyped DEF LegacyInv
<1>2. ASSUME NEW p \in Migrators, MigrationOwn(p) /\ Unarmed(p)', UNCHANGED original,
             OnlyTarget
      PROVE  LegacyInv'
  <2>1. \A k \in Kinds : file'[k] = file[k] /\ file'[BackupOf[k]] = file[BackupOf[k]]
    BY <1>1, <1>2, LegacyPlaces DEF OnlyTarget
  <2> QED BY <1>1, <1>2, <2>1, MoverIdles
<1>3. ASSUME NEW p \in Migrators, Fails(p)
      PROVE  MigrationOwn(p) /\ Unarmed(p)'
  <2>1. migrator'[p].pc = "idle"
    BY <1>1, <1>3 DEF Fails, MigrationTypeOK, Resting
  <2>2. MigrationOwn(p)
    BY <1>1, <1>3, MigrationStepsOwn
  <2> QED BY <2>1, <2>2 DEF Unarmed
<1>4. ASSUME NEW p \in Migrators, migrator[p].pc \notin {"idle", "move"},
             NEW pc \in {"adopt", "save", "copy", "copying", "verify", "check"}, Goes(p, pc)
      PROVE  MigrationOwn(p) /\ Unarmed(p)'
  <2>1. migrator[p] \in MigratorState /\ ~migrator[p].moved
    BY <1>1, <1>4, MigrationBusy DEF MoverSafe
  <2>2. MigrationOwn(p)
    BY <1>1, <1>4, <2>1, MigrationStepsOwn
  <2> QED BY <1>1, <1>4, <2>1, <2>2 DEF Goes, MigrationTypeOK, MigratorState, Unarmed
<1>5. ASSUME NEW p \in Migrators, migrator[p].pc \notin {"idle", "move"},
             NEW status \in Statuses, AdoptAs(p, status)
      PROVE  MigrationOwn(p) /\ Unarmed(p)'
  <2>1. migrator[p] \in MigratorState /\ ~migrator[p].moved
    BY <1>1, <1>5, MigrationBusy DEF MoverSafe
  <2>2. MigrationOwn(p)
    BY <1>1, <1>5, <2>1, MigrationStepsOwn
  <2> QED BY <1>1, <1>5, <2>1, <2>2 DEF AdoptAs, MigrationTypeOK, MigratorState, Unarmed
<1>6. ASSUME NEW p \in Migrators, NEW chosen \in SUBSET Kinds, NEW cleanup \in BOOLEAN,
             MigrateBegins(p, chosen, cleanup)
      PROVE  LegacyInv'
  <2>1. MigrationOwn(p)
    BY <1>1, <1>6, MigrationBegunTyped DEF MigrationOwn
  <2>2. Unarmed(p)'
    BY <1>1, <1>6 DEF MigrateBegins, MigrationTypeOK, Unarmed
  <2> QED BY <1>2, <1>6, <2>1, <2>2 DEF MigrateBegins, OnlyTarget
<1>7. ASSUME NEW p \in Migrators, GatePasses(p) PROVE LegacyInv'
  BY <1>2, <1>4, <1>7 DEF GatePasses, Does, OnlyTarget
<1>8. ASSUME NEW p \in Migrators, MigrateSaves(p) PROVE LegacyInv'
  BY <1>2, <1>4, <1>8 DEF MigrateSaves, Does, OnlyTarget
<1>9. ASSUME NEW p \in Migrators, Adopt(p) PROVE LegacyInv'
  <2>1. migrator[p] \in MigratorState /\ ~migrator[p].moved /\ migrator[p].pc = "adopt"
    BY <1>1, <1>9, MigrationBusy DEF Adopt, Does, MoverSafe
  <2>2. UNCHANGED <<file, original>> /\ OnlyTarget
    BY <1>9 DEF Adopt, OnlyTarget
  <2>3. CASE \/ Goes(p, "check") \/ Fails(p)
             \/ \E status \in {"adopted", "quarantined", "backed_up"} : AdoptAs(p, status)
    <3>1. MigrationOwn(p) /\ Unarmed(p)'
      BY <1>3, <1>4, <1>5, <2>1, <2>3 DEF Statuses
    <3> QED BY <1>2, <2>2, <3>1
  <2>4. CASE migrator' = [migrator EXCEPT ![p].pc = "copy", ![p].reading = file["database"]]
    <3>1. file["database"] \in Contents
      BY <1>1, MigrationPlaces DEF MigrationTypeOK
    <3>2. [migrator[p] EXCEPT !.pc = "copy", !.reading = file["database"]] \in MigratorState
      BY <2>1, <3>1 DEF MigratorState
    <3>3. MigrationOwn(p) /\ Unarmed(p)'
      BY <1>1, <2>1, <2>4, <3>2 DEF MigrationOwn, MigrationTypeOK, MigratorState, Unarmed
    <3> QED BY <1>2, <2>2, <3>3
  <2> QED BY <1>9, <2>3, <2>4 DEF Adopt
<1>10. ASSUME NEW p \in Migrators, CopyBegins(p) PROVE LegacyInv'
  <2>1. OnlyTarget
    BY <1>10, MigrationPlaces DEF CopyBegins, OnlyTarget
  <2>2. MigrationOwn(p) /\ Unarmed(p)'
    BY <1>3, <1>4, <1>10 DEF CopyBegins, Does
  <2> QED BY <1>2, <1>10, <2>1, <2>2 DEF CopyBegins
<1>11. ASSUME NEW p \in Migrators, CopyEnds(p) PROVE LegacyInv'
  <2>1. migrator[p].reading \in Contents
    BY <1>1, <1>11, MigrationBusy DEF CopyEnds, Does, MigratorState
  <2>2. OnlyTarget
    BY <1>11, <2>1, MigrationPlaces DEF CopyEnds, OnlyTarget
  <2>3. MigrationOwn(p) /\ Unarmed(p)'
    BY <1>3, <1>4, <1>11 DEF CopyEnds, Does
  <2> QED BY <1>2, <1>11, <2>2, <2>3 DEF CopyEnds
<1>12. ASSUME NEW p \in Migrators, CopyVerified(p) PROVE LegacyInv'
  <2>1. OnlyTarget
    BY <1>12, MigrationPlaces DEF CopyVerified, OnlyTarget
  <2>2. MigrationOwn(p) /\ Unarmed(p)'
    BY <1>3, <1>5, <1>12 DEF CopyVerified, Does, Statuses
  <2> QED BY <1>2, <1>12, <2>1, <2>2 DEF CopyVerified
<1>13. ASSUME NEW p \in Migrators, CheckBackups(p) PROVE LegacyInv'
  <2>1. migrator[p] \in MigratorState /\ ~migrator[p].moved /\ UNCHANGED <<file, original>>
    BY <1>1, <1>13, MigrationBusy DEF CheckBackups, Does, MoverSafe
  <2>2. CASE Goes(p, "move") /\ MayMove(p)
    <3>1. \A k \in ToMove(p) : original[BackupOf[k]] = Missing
      BY <2>2 DEF MayMove, LegacyInv, InPlace, BackedUp, ToMove
    <3>2. migrator'[p] = [migrator[p] EXCEPT !.pc = "move"]
      BY <1>1, <2>2 DEF Goes, MigrationTypeOK
    <3>3. ToMove(p)' = ToMove(p) /\ ~migrator'[p].moved
      BY <2>1, <3>2 DEF ToMove, MigratorState
    <3>4. MoverSafe(p)'
      BY <2>1, <3>1, <3>2, <3>3 DEF MoverSafe, MigratorState
    <3>5. MigrationOwn(p)
      BY <1>1, <2>1, <2>2, MigrationStepsOwn
    <3>6. \A q \in Migrators : MoverSafe(q)'
      BY <1>1, <2>1, <3>4, <3>5, MoverFrame
    <3> QED BY <1>1, <2>1, <3>6, LegacyFrame
  <2>3. CASE Fails(p)
    BY <1>2, <1>3, <2>1, <2>3 DEF OnlyTarget
  <2> QED BY <1>13, <2>2, <2>3 DEF CheckBackups
<1>14. ASSUME NEW p \in Migrators, MoveLegacy(p) PROVE LegacyInv'
  <2>1. MigrationOwn(p)
    BY <1>1, <1>14, MoveOwn
  <2> QED BY <1>1, <1>14, <2>1, MoveKeepsLegacy
<1>15. ASSUME NEW p \in Migrators, MigrateStops(p) PROVE LegacyInv'
  BY <1>2, <1>3, <1>15 DEF MigrateStops, OnlyTarget
<1>16. CASE SourceSet
  BY <1>1, <1>16 DEF SourceSet, LegacyInv, InPlace, BackedUp, MoverSafe, Does, ToMove
<1>17. CASE UNCHANGED migrationVars
  BY <1>1, <1>17 DEF migrationVars, LegacyInv, InPlace, BackedUp, MoverSafe, Does, ToMove
<1> QED BY <1>6, <1>7, <1>8, <1>9, <1>10, <1>11, <1>12, <1>13, <1>14, <1>15, <1>16, <1>17
        DEF MigrationNext

\* At first every legacy file is in its place.
LEMMA LegacyInit == MigrationInit => LegacyInv
<1> SUFFICES ASSUME MigrationInit PROVE LegacyInv
  OBVIOUS
<1>1. \A k \in Kinds : original[k] # Missing /\ InPlace(k)
  BY MigrationPlaces DEF MigrationInit, InPlace, Settings, Database, Content, Missing
<1>2. \A p \in Migrators : MoverSafe(p)
  BY DEF MigrationInit, MoverSafe, Does, Resting
<1> QED BY <1>1, <1>2, MigrationInitTyped DEF LegacyInv

\* No interleaving of migrations, failed renames and kills loses a legacy file or an older
\* backup: a file that a migration has moved is the backup, where nothing was.
THEOREM LegacyStaysRecoverable == MigrationSpec => []LegacyRecoverable
<1>1. LegacyInv => LegacyRecoverable
  BY DEF LegacyInv, LegacyRecoverable, InPlace, BackedUp
<1> QED BY <1>1, LegacyInit, LegacyKept, PTL DEF MigrationSpec

(***************************************************************************)
(* The legacy database leaves its place only after the copy.               *)
(***************************************************************************)

\* A process is what it was when its record is.
LEMMA CopyOthers ==
  ASSUME MigrationTypeOK, NEW p \in Migrators, MigrationOwn(p), NEW q \in Migrators, q # p
  PROVE  /\ migrator'[q] = migrator[q]
         /\ Copies(q)' = Copies(q) /\ Adopted(q)' = Adopted(q) /\ Believes(q)' = Believes(q)
  <1>1. migrator'[q] = migrator[q]
    BY DEF MigrationTypeOK, MigrationOwn
  <1> QED BY <1>1 DEF Copies, Adopted, Believes, BeliefOf, Does

\* The step of a process outside the copy, and not onto an adopted database, leaves the copying
\* of the others as it was.
Apart(p) == ~Copies(p) /\ ~Adopted(p)

\* A step that leaves the target and the legacy database alone, and neither copies nor adopts,
\* or has adopted before, leaves the copies of the others.
LEMMA CopyFrame ==
  ASSUME MigrationTypeOK, NEW p \in Migrators, MigrationOwn(p), ~Copies(p)',
         Adopted(p)' => Adopted(p), file'["target"] = file["target"],
         file'["database"] = file["database"], \A q \in Migrators : CopyAlone(q)
  PROVE  \A q \in Migrators : CopyAlone(q)'
  <1>1. Owned("target")' = Owned("target")
    BY DEF Owned
  <1>2. CopyAlone(p)'
    BY <1>1 DEF CopyAlone, Does, Copies, CopyPhases
  <1>3. ASSUME NEW q \in Migrators, q # p PROVE CopyAlone(q)'
    <2>1. /\ \A r \in Migrators : Copies(r)' => Copies(r)
          /\ \A r \in Migrators : Adopted(r)' => Adopted(r)
          /\ migrator'[q] = migrator[q]
      BY <1>3, CopyOthers
    <2> QED BY <1>1, <2>1 DEF CopyAlone, Does
  <1> QED BY <1>2, <1>3

\* One who copies alone may write the place of the profile: nobody has adopted what was there.
LEMMA CopyWrites ==
  ASSUME MigrationTypeOK, NEW p \in Migrators, MigrationOwn(p), Copies(p),
         \A q \in Migrators : CopyAlone(q), CopyAlone(p)'
  PROVE  \A q \in Migrators : CopyAlone(q)'
  <1>1. ASSUME NEW q \in Migrators, q # p PROVE CopyAlone(q)'
    <2>1. ~Copies(q) /\ ~Adopted(q)
      BY <1>1 DEF CopyAlone
    <2>2. ~Copies(q)' /\ ~Adopted(q)'
      BY <1>1, <2>1, CopyOthers
    <2> QED BY <2>2 DEF CopyAlone, Does, Copies, CopyPhases
  <1> QED BY <1>1

\* CopyInv is inductive.
LEMMA CopyKept == CopyInv /\ [MigrationNext]_migrationVars => CopyInv'
<1> SUFFICES ASSUME CopyInv, [MigrationNext]_migrationVars PROVE CopyInv'
  OBVIOUS
<1>1. /\ MigrationTypeOK /\ MigrationTypeOK' /\ MovedOnlyAfterCopy
      /\ \A p \in Migrators : Believes(p)
      /\ ~raced => \A p \in Migrators : CopyAlone(p)
  BY MigrationTyped DEF CopyInv
\* A step that writes no file.
<1>2. ASSUME NEW p \in Migrators, MigrationOwn(p), file' = file, ~raced' => ~raced,
             raced' \in BOOLEAN,
             Believes(p)', ~Copies(p)', ~raced => (Adopted(p)' => Adopted(p))
      PROVE  CopyInv'
  <2>1. \A q \in Migrators : Believes(q)'
    BY <1>1, <1>2, CopyOthers
  <2>2. ~raced' => \A q \in Migrators : CopyAlone(q)'
    BY <1>1, <1>2, CopyFrame DEF MigrationTypeOK
  <2>3. MovedOnlyAfterCopy'
    BY <1>1, <1>2 DEF MovedOnlyAfterCopy, MigrationTypeOK
  <2> QED BY <1>1, <2>1, <2>2, <2>3 DEF CopyInv
<1>3. ASSUME NEW p \in Migrators, Fails(p)
      PROVE  MigrationOwn(p) /\ Believes(p)' /\ Apart(p)' /\ migrator'[p].pc = "idle"
  <2>1. migrator'[p].pc = "idle"
    BY <1>1, <1>3 DEF Fails, MigrationTypeOK, Resting
  <2>2. Believes(p)' /\ Apart(p)'
    BY <2>1 DEF Believes, Apart, Adopted, Copies, Does, CopyPhases
  <2> QED BY <1>1, <1>3, <2>1, <2>2, MigrationStepsOwn
<1>4. ASSUME NEW p \in Migrators, migrator[p] \in MigratorState,
             NEW pc \in {"save", "adopt", "copy", "copying", "verify", "check", "move"}, Goes(p, pc)
      PROVE  MigrationOwn(p) /\ migrator'[p].pc = pc /\ BeliefOf(p)' = BeliefOf(p)
  <2>1. MigrationOwn(p)
    BY <1>1, <1>4, MigrationStepsOwn
  <2> QED BY <1>1, <1>4, <2>1 DEF Goes, MigrationTypeOK, MigratorState, BeliefOf
\* A database is adopted beside nobody who copies, or the others have raced.
<1>5. ASSUME NEW p \in Migrators, migrator[p] \in MigratorState, ~Copies(p) \/ Does(p, "verify"),
             NEW status \in {"adopted", "quarantined", "backed_up"}, AdoptAs(p, status),
             file' = file, raced' \in BOOLEAN, ~raced' => ~raced,
             status = "adopted" =>
               /\ Owned("target")
               /\ ~raced' => \A q \in Migrators \ {p} : ~Copies(q)
      PROVE  CopyInv'
  <2>1. MigrationOwn(p)
    BY <1>1, <1>5, MigrationStepsOwn DEF Statuses
  <2>2. migrator'[p].pc = "check" /\ BeliefOf(p)' = status
    BY <1>1, <1>5 DEF AdoptAs, MigrationTypeOK, MigratorState, BeliefOf, Kinds
  <2>3. Believes(p)' /\ ~Copies(p)' /\ (Adopted(p)' <=> status = "adopted")
    BY <1>5, <2>2 DEF Believes, Does, Copies, CopyPhases, Adopted
  <2>4. CASE status # "adopted"
    BY <1>2, <1>5, <2>1, <2>3, <2>4
  <2>5. CASE status = "adopted"
    <3>1. \A q \in Migrators : Believes(q)'
      BY <1>1, <2>1, <2>3, CopyOthers
    <3>2. ASSUME ~raced' PROVE \A q \in Migrators : CopyAlone(q)'
      <4>1. Owned("target")' /\ \A q \in Migrators : ~Copies(q)'
        BY <1>1, <1>5, <2>1, <2>3, <2>5, <3>2, CopyOthers DEF Owned
      <4> QED BY <4>1 DEF CopyAlone, Does, Copies, CopyPhases
    <3>3. MovedOnlyAfterCopy'
      BY <1>5, <2>5 DEF MovedOnlyAfterCopy, Owned
    <3> QED BY <1>1, <3>1, <3>2, <3>3 DEF CopyInv
  <2> QED BY <2>4, <2>5
<1>6. ASSUME NEW p \in Migrators, NEW chosen \in SUBSET Kinds, NEW cleanup \in BOOLEAN,
             MigrateBegins(p, chosen, cleanup)
      PROVE  CopyInv'
  <2>1. MigrationOwn(p)
    BY <1>1, <1>6, MigrationBegunTyped DEF MigrationOwn
  <2>2. /\ migrator'[p].pc = "gate"
        /\ BeliefOf(p)' = IF "database" \in chosen THEN Inspected("database") ELSE "none"
    BY <1>1, <1>6 DEF MigrateBegins, MigrationTypeOK, BeliefOf, Kinds
  <2>3. Believes(p)' /\ Apart(p)'
    BY <2>2 DEF Believes, Apart, Adopted, Copies, Does, CopyPhases, Inspected
  <2> QED BY <1>1, <1>2, <1>6, <2>1, <2>3 DEF MigrateBegins, Apart, MigrationTypeOK
<1>7. ASSUME NEW p \in Migrators, GatePasses(p) PROVE CopyInv'
  <2>1. migrator[p] \in MigratorState /\ migrator[p].pc = "gate" /\ Believes(p)
    BY <1>1, <1>7, MigrationBusy DEF GatePasses, Does
  <2>2. /\ MigrationOwn(p) /\ migrator'[p].pc \in {"adopt", "save"}
        /\ BeliefOf(p)' = BeliefOf(p)
    BY <1>4, <1>7, <2>1 DEF GatePasses
  <2>3. Believes(p)' /\ Apart(p)'
    BY <2>1, <2>2 DEF Believes, Apart, Adopted, Copies, Does, CopyPhases
  <2> QED BY <1>1, <1>2, <1>7, <2>2, <2>3 DEF GatePasses, Apart, MigrationTypeOK
<1>8. ASSUME NEW p \in Migrators, MigrateSaves(p) PROVE CopyInv'
  <2>1. migrator[p] \in MigratorState /\ migrator[p].pc = "save" /\ Believes(p)
    BY <1>1, <1>8, MigrationBusy DEF MigrateSaves, Does
  <2>2. /\ MigrationOwn(p) /\ migrator'[p].pc = "adopt"
        /\ BeliefOf(p)' = BeliefOf(p)
    BY <1>4, <1>8, <2>1 DEF MigrateSaves
  <2>3. Believes(p)' /\ Apart(p)'
    BY <2>1, <2>2 DEF Believes, Apart, Adopted, Copies, Does, CopyPhases
  <2> QED BY <1>1, <1>2, <1>8, <2>2, <2>3 DEF MigrateSaves, Apart, MigrationTypeOK
<1>9. ASSUME NEW p \in Migrators, Adopt(p) PROVE CopyInv'
  <2>1. /\ migrator[p] \in MigratorState /\ migrator[p].pc = "adopt" /\ Believes(p)
        /\ file' = file /\ raced' \in BOOLEAN /\ (~raced' => ~raced) /\ ~Copies(p)
    BY <1>1, <1>9, MigrationBusy DEF Adopt, Does, Copies, CopyPhases, MigrationTypeOK
  <2>2. CASE BeliefOf(p) = "none" /\ Goes(p, "check")
    <3>1. MigrationOwn(p) /\ migrator'[p].pc = "check" /\ BeliefOf(p)' = "none"
      BY <1>4, <2>1, <2>2
    <3>2. Believes(p)' /\ Apart(p)'
      BY <3>1 DEF Believes, Apart, Adopted, Copies, Does, CopyPhases
    <3> QED BY <1>2, <2>1, <3>1, <3>2 DEF Apart
  <2>3. CASE AdoptAs(p, "adopted") /\ Owned("target") /\ raced' = (raced \/ CopyingBeside(p))
    <3>1. ~raced' => \A q \in Migrators \ {p} : ~Copies(q)
      BY <2>3 DEF CopyingBeside, Copies
    <3> QED BY <1>5, <2>1, <2>3, <3>1
  <2>4. CASE AdoptAs(p, "quarantined") \/ AdoptAs(p, "backed_up")
    BY <1>5, <2>1, <2>4
  <2>5. CASE Fails(p)
    BY <1>2, <1>3, <2>1, <2>5 DEF Apart
  <2>6. CASE /\ BeliefOf(p) = "pending" /\ file["target"] = Missing /\ Owned("database")
             /\ migrator' = [migrator EXCEPT ![p].pc = "copy", ![p].reading = file["database"]]
             /\ raced' = (raced \/ CopyingBeside(p))
    <3>1. /\ MigrationOwn(p) /\ migrator'[p].pc = "copy" /\ BeliefOf(p)' = "pending"
      <4>1. file["database"] \in Contents
        BY <1>1, MigrationPlaces DEF MigrationTypeOK
      <4>2. [migrator[p] EXCEPT !.pc = "copy", !.reading = file["database"]] \in MigratorState
        BY <2>1, <4>1 DEF MigratorState
      <4> QED BY <1>1, <2>1, <2>6, <4>2 DEF MigrationOwn, MigrationTypeOK, MigratorState, BeliefOf
    <3>2. Believes(p)' /\ Copies(p)' /\ ~Adopted(p)'
      BY <3>1 DEF Believes, Does, Copies, CopyPhases, Adopted
    <3>3. \A q \in Migrators : Believes(q)'
      BY <1>1, <3>1, <3>2, CopyOthers
    <3>4. ASSUME ~raced' PROVE \A q \in Migrators : CopyAlone(q)'
      <4>1. ~raced /\ \A q \in Migrators : q # p => ~Copies(q)
        BY <2>6, <3>4 DEF CopyingBeside, Copies
      <4>2. \A q \in Migrators : q # p => ~Copies(q)'
        BY <1>1, <3>1, <4>1, CopyOthers
      <4>3. \A q \in Migrators : ~Adopted(q)
        BY <1>1, <2>6, <4>1, MigrationPlaces DEF CopyAlone, Owned
      <4>4. \A q \in Migrators : ~Adopted(q)'
        BY <1>1, <3>1, <3>2, <4>3, CopyOthers
      <4>5. file'["database"] # Missing /\ file'["target"] = Missing
        BY <2>1, <2>6, MigrationPlaces DEF Owned
      <4>6. CopyAlone(p)'
        BY <3>1, <4>2, <4>4, <4>5 DEF CopyAlone, Does
      <4> QED BY <4>2, <4>4, <4>6 DEF CopyAlone, Does, Copies, CopyPhases
    <3>5. MovedOnlyAfterCopy'
      BY <1>1, <2>1 DEF MovedOnlyAfterCopy
    <3> QED BY <1>1, <3>3, <3>4, <3>5 DEF CopyInv
  <2> QED BY <1>9, <2>2, <2>3, <2>4, <2>5, <2>6 DEF Adopt, BeliefOf
\* A step that writes the place of the profile.
<1>10. ASSUME NEW p \in Migrators, MigrationOwn(p), UNCHANGED raced, Believes(p)', Copies(p),
              ~raced => CopyAlone(p)', file'["database"] = file["database"]
       PROVE  CopyInv'
  <2>1. \A q \in Migrators : Believes(q)'
    BY <1>1, <1>10, CopyOthers
  <2>2. ~raced' => \A q \in Migrators : CopyAlone(q)'
    BY <1>1, <1>10, CopyWrites
  <2>3. MovedOnlyAfterCopy'
    <3>1. ~raced => file["database"] # Missing
      BY <1>1, <1>10 DEF CopyAlone
    <3> QED BY <1>10, <3>1, MigrationPlaces DEF MovedOnlyAfterCopy
  <2> QED BY <1>1, <2>1, <2>2, <2>3 DEF CopyInv
\* It goes on copying alone.
<1>11. ASSUME NEW p \in Migrators, MigrationOwn(p), ~raced, Copies(p), ~Adopted(p)',
              file'["database"] = file["database"],
              Does(p, "copy")' => file'["target"] = Missing,
              Does(p, "copying")' => file'["target"] = Partial
       PROVE  CopyAlone(p)'
  <2>1. /\ \A q \in Migrators : q # p => ~Copies(q) /\ ~Adopted(q)
        /\ file["database"] # Missing
    BY <1>1, <1>11 DEF CopyAlone
  <2>2. \A q \in Migrators : q # p => ~Copies(q)' /\ ~Adopted(q)'
    BY <1>1, <1>11, <2>1, CopyOthers
  <2>3. file'["database"] # Missing
    BY <1>11, <2>1
  <2> QED BY <1>11, <2>2, <2>3 DEF CopyAlone
\* The copy fails, and what there is of it is removed.
<1>20. ASSUME NEW p \in Migrators, Copies(p), Fails(p), UNCHANGED raced,
              file'["database"] = file["database"]
       PROVE  CopyInv'
  <2>1. MigrationOwn(p) /\ Believes(p)' /\ ~Adopted(p)' /\ ~Does(p, "copy")' /\ ~Does(p, "copying")'
    BY <1>3, <1>20 DEF Apart, Does
  <2> QED BY <1>10, <1>11, <1>20, <2>1
<1>12. ASSUME NEW p \in Migrators, CopyBegins(p) PROVE CopyInv'
  <2>1. /\ migrator[p] \in MigratorState /\ migrator[p].pc = "copy" /\ Believes(p)
        /\ UNCHANGED raced /\ file \in [Places -> Contents] /\ Copies(p)
    BY <1>1, <1>12, MigrationBusy DEF CopyBegins, Does, MigrationTypeOK, Copies, CopyPhases
  <2>2. CASE file["target"] = Missing
    <3>1. file' = [file EXCEPT !["target"] = Partial] /\ Goes(p, "copying")
      BY <1>12, <2>2 DEF CopyBegins
    <3>2. MigrationOwn(p) /\ migrator'[p].pc = "copying" /\ BeliefOf(p)' = BeliefOf(p)
      BY <1>4, <2>1, <3>1
    <3>3. Believes(p)' /\ ~Adopted(p)' /\ ~Does(p, "copy")'
      BY <2>1, <3>2 DEF Believes, Does, Adopted
    <3>4. file'["target"] = Partial /\ file'["database"] = file["database"]
      BY <2>1, <3>1, MigrationPlaces
    <3>5. ~raced => CopyAlone(p)'
      BY <1>11, <2>1, <3>2, <3>3, <3>4
    <3> QED BY <1>10, <2>1, <3>2, <3>3, <3>4, <3>5
  <2>3. CASE file["target"] # Missing
    <3>1. file' = [file EXCEPT !["target"] = Missing] /\ Fails(p)
      BY <1>12, <2>3 DEF CopyBegins
    <3>2. file'["database"] = file["database"]
      BY <2>1, <3>1, MigrationPlaces
    <3> QED BY <1>20, <2>1, <3>1, <3>2
  <2> QED BY <2>2, <2>3
<1>13. ASSUME NEW p \in Migrators, CopyEnds(p) PROVE CopyInv'
  <2>1. /\ migrator[p] \in MigratorState /\ migrator[p].pc = "copying" /\ Believes(p)
        /\ UNCHANGED raced /\ file'["database"] = file["database"] /\ Copies(p)
    BY <1>1, <1>13, MigrationBusy, MigrationPlaces
    DEF CopyEnds, Does, MigrationTypeOK, Copies, CopyPhases
  <2>2. CASE Goes(p, "verify")
    <3>1. MigrationOwn(p) /\ migrator'[p].pc = "verify" /\ BeliefOf(p)' = BeliefOf(p)
      BY <1>4, <2>1, <2>2
    <3>2. Believes(p)' /\ ~Adopted(p)' /\ ~Does(p, "copy")' /\ ~Does(p, "copying")'
      BY <2>1, <3>1 DEF Believes, Does, Adopted
    <3>3. ~raced => CopyAlone(p)'
      BY <1>11, <2>1, <3>1, <3>2
    <3> QED BY <1>10, <2>1, <3>1, <3>2, <3>3
  <2>3. CASE Fails(p)
    BY <1>20, <2>1, <2>3
  <2> QED BY <1>13, <2>2, <2>3 DEF CopyEnds
<1>14. ASSUME NEW p \in Migrators, CopyVerified(p) PROVE CopyInv'
  <2>1. /\ migrator[p] \in MigratorState /\ migrator[p].pc = "verify" /\ Believes(p)
        /\ UNCHANGED raced /\ file'["database"] = file["database"] /\ Copies(p)
    BY <1>1, <1>14, MigrationBusy, MigrationPlaces
    DEF CopyVerified, Does, MigrationTypeOK, Copies, CopyPhases
  <2>2. CASE Owned("target") /\ file' = file /\ AdoptAs(p, "adopted")
    <3>1. ~raced' => \A q \in Migrators \ {p} : ~Copies(q)
      BY <1>1, <2>1 DEF CopyAlone
    <3>2. raced' \in BOOLEAN /\ (~raced' => ~raced) /\ Does(p, "verify")
      BY <1>1, <2>1 DEF MigrationTypeOK, Does
    <3> QED BY <1>5, <2>1, <2>2, <3>1, <3>2
  <2>3. CASE Fails(p)
    BY <1>20, <2>1, <2>3
  <2> QED BY <1>14, <2>2, <2>3 DEF CopyVerified
<1>15. ASSUME NEW p \in Migrators, CheckBackups(p) PROVE CopyInv'
  <2>1. /\ migrator[p] \in MigratorState /\ migrator[p].pc = "check" /\ Believes(p)
        /\ UNCHANGED <<file, raced>>
    BY <1>1, <1>15, MigrationBusy DEF CheckBackups, Does
  <2>2. CASE Goes(p, "move") /\ MayMove(p)
    <3>1. MigrationOwn(p) /\ migrator'[p].pc = "move" /\ BeliefOf(p)' = BeliefOf(p)
      BY <1>4, <2>1, <2>2
    <3>2. Believes(p)'
      BY <2>1, <2>2, <3>1 DEF Believes, Does, MayMove, BeliefOf
    <3>3. ~Copies(p)' /\ (Adopted(p)' => Adopted(p))
      BY <2>1, <3>1 DEF Copies, CopyPhases, Adopted
    <3> QED BY <1>1, <1>2, <2>1, <3>1, <3>2, <3>3 DEF MigrationTypeOK
  <2>3. CASE Fails(p)
    BY <1>1, <1>2, <1>3, <2>1, <2>3 DEF Apart, MigrationTypeOK
  <2> QED BY <1>15, <2>2, <2>3 DEF CheckBackups
<1>16. ASSUME NEW p \in Migrators, MoveLegacy(p) PROVE CopyInv'
  <2>1. /\ migrator[p] \in MigratorState /\ migrator[p].pc = "move" /\ Believes(p)
        /\ UNCHANGED raced /\ file \in [Places -> Contents] /\ MigrationOwn(p)
    BY <1>1, <1>16, MigrationBusy, MoveOwn DEF MoveLegacy, Does, MigrationTypeOK
  <2>2. PICK k \in Kinds : MoveLegacyOf(p, k)
    BY <1>16, MigrationMoves
  <2>3. file'["target"] = file["target"] /\ (Owned("target")' = Owned("target"))
    BY <2>1, <2>2, MigrationPlaces DEF MoveLegacyOf, Renamed, Owned
  <2>4. Believes(p)' /\ ~Copies(p)' /\ (Adopted(p)' => Adopted(p))
    <3>1. CASE Fails(p)
      BY <1>3, <3>1 DEF Apart
    <3>2. CASE migrator' = [migrator EXCEPT ![p].status[k] = "backed_up",
                                            ![p].moved = k = "config"]
      <4>1. migrator[p].status \in [Kinds -> Statuses]
        BY <2>1 DEF MigratorState
      <4>2. /\ migrator'[p].pc = "move"
            /\ BeliefOf(p)' = IF k = "database" THEN "backed_up" ELSE BeliefOf(p)
        BY <1>1, <2>1, <3>2, <4>1, MigrationPlaces DEF MigrationTypeOK, MigratorState, BeliefOf
      <4>3. Believes(p)'
        BY <2>1, <4>2 DEF Believes, Does
      <4>4. ~Copies(p)' /\ (Adopted(p)' => Adopted(p))
        BY <2>1, <4>2 DEF Copies, CopyPhases, Adopted
      <4> QED BY <4>3, <4>4
    <3> QED BY <2>2, <3>1, <3>2 DEF MoveLegacyOf
  <2>5. \A q \in Migrators : Believes(q)'
    BY <1>1, <2>1, <2>4, CopyOthers
  <2>6. ASSUME ~raced' PROVE \A q \in Migrators : CopyAlone(q)'
    <3>1. CASE file'["database"] = file["database"]
      BY <1>1, <2>1, <2>3, <2>4, <2>6, <3>1, CopyFrame
    <3>2. CASE file'["database"] # file["database"]
      <4>1. k = "database"
        BY <2>1, <2>2, <3>2, MigrationPlaces DEF MoveLegacyOf, Renamed
      <4>2. Adopted(p)
        BY <2>1, <2>2, <4>1 DEF MoveLegacyOf, ToMove, Believes, Does, BeliefOf, Adopted
      <4>3. \A q \in Migrators : ~Copies(q)
        BY <1>1, <2>1, <2>6, <4>2 DEF CopyAlone
      <4>4. \A q \in Migrators : ~Copies(q)' /\ (Adopted(q)' => Adopted(q))
        BY <1>1, <2>1, <2>4, <4>3, CopyOthers
      <4> QED BY <1>1, <2>1, <2>3, <2>6, <4>4 DEF CopyAlone, Does, Copies, CopyPhases
    <3> QED BY <3>1, <3>2
  <2>7. MovedOnlyAfterCopy'
    <3>1. CASE k = "config"
      <4>1. file'["database"] = file["database"]
        BY <2>1, <2>2, <3>1, MigrationPlaces DEF MoveLegacyOf, Renamed
      <4> QED BY <1>1, <2>1, <2>3, <4>1 DEF MovedOnlyAfterCopy
    <3>2. CASE k = "database"
      <4>1. Adopted(p)
        BY <2>1, <2>2, <3>2 DEF MoveLegacyOf, ToMove, Believes, Does, BeliefOf, Adopted
      <4>2. ~raced => Owned("target")
        BY <1>1, <4>1 DEF CopyAlone
      <4> QED BY <2>1, <2>3, <4>2 DEF MovedOnlyAfterCopy, Owned
    <3> QED BY <3>1, <3>2, MigrationPlaces
  <2> QED BY <1>1, <2>5, <2>6, <2>7 DEF CopyInv
<1>17. ASSUME NEW p \in Migrators, MigrateStops(p) PROVE CopyInv'
  BY <1>1, <1>2, <1>3, <1>17 DEF MigrateStops, Apart, MigrationTypeOK
<1>18. CASE SourceSet
  BY <1>1, <1>18 DEF SourceSet, CopyInv, Believes, BeliefOf, Does, CopyAlone, Owned,
                     Copies, Adopted, MovedOnlyAfterCopy
<1>19. CASE UNCHANGED migrationVars
  BY <1>1, <1>19 DEF migrationVars, CopyInv, Believes, BeliefOf, Does, CopyAlone, Owned,
                     Copies, Adopted, MovedOnlyAfterCopy
<1> QED BY <1>6, <1>7, <1>8, <1>9, <1>12, <1>13, <1>14, <1>15, <1>16, <1>17, <1>18, <1>19
        DEF MigrationNext

\* At first no copy is made.
LEMMA CopyInit == MigrationInit => CopyInv
<1> SUFFICES ASSUME MigrationInit PROVE CopyInv
  OBVIOUS
<1>1. \A p \in Migrators : migrator[p].pc = "idle"
  BY DEF MigrationInit, Resting
<1>2. \A p \in Migrators : Believes(p) /\ CopyAlone(p)
  BY <1>1 DEF Believes, CopyAlone, Copies, Adopted, Does, CopyPhases
<1>3. file["database"] # Missing
  BY MigrationPlaces DEF MigrationInit, Database, Content, Missing
<1> QED BY <1>2, <1>3, MigrationInitTyped DEF CopyInv, MovedOnlyAfterCopy

\* Unless a process copied or adopted beside one that was copying, the legacy database leaves its place only when the place
\* of the profile has a whole database of the verified tenant.
THEOREM LegacyMovedOnlyAfterCopy == MigrationSpec => []MovedOnlyAfterCopy
<1>1. CopyInv => MovedOnlyAfterCopy
  BY DEF CopyInv
<1> QED BY <1>1, CopyInit, CopyKept, PTL DEF MigrationSpec

--------------------------------------------------------------------------------
(***************************************************************************)
(* PlaybookSeed, for any list of versions and their entries and any number *)
(* of seeders.  The table of playbooks is read as the marks in the notes   *)
(* of a family; an operation keeps the marks, and the invariant says what  *)
(* a seeder at work has installed.                                         *)
(***************************************************************************)

(***************************************************************************)
(* The rows of the playbook table.                                         *)
(***************************************************************************)

SeedJsons == {Own, NoText} \cup {e.json : e \in SeedEntries}
SeedPieces == Markers \cup {e.notes : e \in SeedEntries}

\* A row is its family, its playbook and its notes.
LEMMA SeedRowFields ==
  /\ \A b \in SeedRows : b.family \in Families /\ b.json \in SeedJsons /\ b.notes \in Seq(SeedPieces)
  /\ \A f \in Families, json \in SeedJsons, notes \in Seq(SeedPieces) :
       LET c == [family |-> f, json |-> json, notes |-> notes] IN
       c \in SeedRows /\ c.family = f /\ c.json = json /\ c.notes = notes
  BY DEF SeedRows, PlaybookRows, SeedJsons, SeedPieces

RowWith(b, json, notes) == [b EXCEPT !.json = json, !.notes = notes]

\* A row given another playbook and notes is a row of the same family.
LEMMA SeedRowWith ==
  ASSUME NEW b \in SeedRows, NEW json \in SeedJsons, NEW notes \in Seq(SeedPieces)
  PROVE  /\ RowWith(b, json, notes) \in SeedRows
         /\ RowWith(b, json, notes).family = b.family
         /\ RowWith(b, json, notes).json = json
         /\ RowWith(b, json, notes).notes = notes
  BY DEF SeedRows, PlaybookRows, SeedJsons, SeedPieces, RowWith

\* The pieces of notes that are one piece, or get one more.
LEMMA SeedPiecesOf ==
  /\ \A n \in SeedPieces : <<n>> \in Seq(SeedPieces) /\ <<n>> # <<>>
  /\ \A s \in Seq(SeedPieces), n \in SeedPieces :
       Append(s, n) \in Seq(SeedPieces) /\ ToSet(Append(s, n)) = ToSet(s) \cup {n}
  <1>1. ASSUME NEW s \in Seq(SeedPieces), NEW n \in SeedPieces
        PROVE  Append(s, n) \in Seq(SeedPieces) /\ ToSet(Append(s, n)) = ToSet(s) \cup {n}
    <2>1. /\ Append(s, n) \in Seq(SeedPieces) /\ Len(s) \in Nat
          /\ DOMAIN Append(s, n) = 1 .. Len(s) + 1 /\ DOMAIN s = 1 .. Len(s)
          /\ \A i \in 1 .. Len(s) : Append(s, n)[i] = s[i]
          /\ Append(s, n)[Len(s) + 1] = n
      BY <1>1, AppendProperties, LenProperties
    <2>2. \A i \in DOMAIN Append(s, n) : i \in DOMAIN s \/ i = Len(s) + 1
      BY <2>1
    <2>3. \A i \in DOMAIN s : i \in DOMAIN Append(s, n)
      BY <2>1
    <2>4. Len(s) + 1 \in DOMAIN Append(s, n)
      BY <2>1
    <2>5. ASSUME NEW x \in ToSet(Append(s, n)) PROVE x \in ToSet(s) \cup {n}
      BY <2>1, <2>2, <2>5 DEF ToSet
    <2>6. ASSUME NEW x \in ToSet(s) \cup {n} PROVE x \in ToSet(Append(s, n))
      BY <2>1, <2>3, <2>4, <2>6 DEF ToSet
    <2> QED BY <2>1, <2>5, <2>6
  <1>2. \A n \in SeedPieces : <<n>> \in Seq(SeedPieces) /\ <<n>> # <<>>
    BY EmptySeq
  <1> QED BY <1>1, <1>2

\* A row that is upserted keeps its family, and its notes if they are to be preserved.
LEMMA SeedUpserted ==
  ASSUME NEW b \in SeedRows, NEW json \in SeedJsons, NEW notes \in Seq(SeedPieces),
         NEW preserve \in BOOLEAN
  PROVE  LET c == Upserted(b, json, notes, preserve) IN
         /\ c \in SeedRows /\ c.family = b.family
         /\ c.json = IF json = NoText THEN b.json ELSE json
         /\ c.notes = IF notes = <<>> \/ (preserve /\ b.notes # <<>>) THEN b.notes ELSE notes
  <1> DEFINE j == IF json = NoText THEN b.json ELSE json
             n == IF notes = <<>> \/ (preserve /\ b.notes # <<>>) THEN b.notes ELSE notes
  <1>1. j \in SeedJsons /\ n \in Seq(SeedPieces)
    BY SeedRowFields
  <1>2. Upserted(b, json, notes, preserve) = RowWith(b, j, n)
    BY DEF Upserted, RowWith
  <1> HIDE DEF j, n
  <1>3. /\ RowWith(b, j, n) \in SeedRows
        /\ RowWith(b, j, n).family = b.family
        /\ RowWith(b, j, n).json = j
        /\ RowWith(b, j, n).notes = n
    BY <1>1, SeedRowWith
  <1> QED BY <1>2, <1>3 DEF j, n

\* An upsert keeps the other families, and leaves one row or more of its own.
LEMMA SeedTableUpserted ==
  ASSUME NEW table \in SUBSET SeedRows, NEW f \in Families, NEW json \in SeedJsons,
         NEW notes \in Seq(SeedPieces), NEW preserve \in BOOLEAN
  PROVE  LET after == UpsertPlaybook(table, f, json, notes, preserve) IN
         /\ after \subseteq SeedRows
         /\ \A b \in table : b.family # f => b \in after
         /\ \A b \in table : b.family = f => Upserted(b, json, notes, preserve) \in after
         /\ (\A b \in table : b.family # f) =>
              [family |-> f, json |-> json, notes |-> notes] \in after
  <1> DEFINE after == UpsertPlaybook(table, f, json, notes, preserve)
  <1>1. CASE HasPlaybook(table, f)
    <2>1. after = {IF b.family = f THEN Upserted(b, json, notes, preserve) ELSE b : b \in table}
      BY <1>1 DEF UpsertPlaybook
    <2>2. after \subseteq SeedRows
      BY <2>1, SeedUpserted
    <2>3. \A b \in table : b.family # f => b \in after
      BY <2>1
    <2>4. \A b \in table : b.family = f => Upserted(b, json, notes, preserve) \in after
      BY <2>1
    <2> QED BY <1>1, <2>2, <2>3, <2>4 DEF HasPlaybook
  <1>2. CASE ~HasPlaybook(table, f)
    <2>1. after = table \cup {[family |-> f, json |-> json, notes |-> notes]}
      BY <1>2 DEF UpsertPlaybook
    <2>2. [family |-> f, json |-> json, notes |-> notes] \in SeedRows
      BY SeedRowFields
    <2> QED BY <1>2, <2>1, <2>2 DEF HasPlaybook
  <1> QED BY <1>1, <1>2

\* The row b with an amendment.
HasAmended(table, b, m) ==
  \E c \in table : c.family = b.family /\ c.json = b.json /\ ToSet(c.notes) = ToSet(b.notes) \cup {m}

\* An amendment is in the notes of its family, and nothing else is touched.
LEMMA SeedTableAppended ==
  ASSUME NEW table \in SUBSET SeedRows, NEW f \in Families, NEW m \in SeedPieces
  PROVE  LET after == AppendNote(table, f, m) IN
         /\ after \subseteq SeedRows
         /\ \A b \in table : b.family # f => b \in after
         /\ \A b \in table : b.family = f => HasAmended(after, b, m)
         /\ \E c \in after : c.family = f /\ m \in ToSet(c.notes)
  <1> DEFINE after == AppendNote(table, f, m)
  <1> DEFINE Longer(b) == [b EXCEPT !.notes = Append(@, m)]
  <1>1. ASSUME NEW b \in SeedRows
        PROVE  /\ Longer(b) \in SeedRows /\ Longer(b).family = b.family
               /\ Longer(b).json = b.json /\ ToSet(Longer(b).notes) = ToSet(b.notes) \cup {m}
    <2>1. b.notes \in Seq(SeedPieces) /\ b.json \in SeedJsons
      BY SeedRowFields
    <2>2. /\ Append(b.notes, m) \in Seq(SeedPieces)
          /\ ToSet(Append(b.notes, m)) = ToSet(b.notes) \cup {m}
      BY <2>1, SeedPiecesOf
    <2> DEFINE j == b.json
               n == Append(b.notes, m)
    <2>3. Longer(b) = RowWith(b, j, n)
      BY DEF SeedRows, PlaybookRows, RowWith
    <2>4. j \in SeedJsons /\ n \in Seq(SeedPieces) /\ ToSet(n) = ToSet(b.notes) \cup {m}
      BY <2>1, <2>2
    <2> HIDE DEF j, n, Longer
    <2>5. Longer(b) \in SeedRows /\ Longer(b).family = b.family /\ Longer(b).json = j
          /\ Longer(b).notes = n
      BY <2>3, <2>4, SeedRowWith
    <2> QED BY <2>4, <2>5 DEF j
  <1>2. CASE HasPlaybook(table, f)
    <2>1. after = {IF b.family = f THEN Longer(b) ELSE b : b \in table}
      BY <1>2 DEF AppendNote
    <2> HIDE DEF Longer
    <2>2. after \subseteq SeedRows
      BY <1>1, <2>1
    <2>3. \A b \in table : b.family # f => b \in after
      BY <2>1
    <2>4. \A b \in table : b.family = f => Longer(b) \in after
      BY <2>1
    <2>5. \A b \in table : b.family = f => HasAmended(after, b, m)
      BY <1>1, <2>4 DEF HasAmended
    <2>6. \E c \in after : c.family = f /\ m \in ToSet(c.notes)
      BY <1>2, <2>5 DEF HasPlaybook, HasAmended
    <2> QED BY <2>2, <2>3, <2>5, <2>6
  <1>3. CASE ~HasPlaybook(table, f)
    <2> DEFINE new == [family |-> f, json |-> NoText, notes |-> <<m>>]
    <2>1. after = table \cup {new}
      BY <1>3 DEF AppendNote
    <2>2. <<m>> \in Seq(SeedPieces) /\ NoText \in SeedJsons /\ m \in ToSet(<<m>>)
      <3>1. 1 \in DOMAIN <<m>> /\ <<m>>[1] = m
        OBVIOUS
      <3> QED BY <3>1, SeedPiecesOf DEF SeedJsons, ToSet
    <2>3. new \in SeedRows /\ new.family = f /\ new.notes = <<m>>
      BY <2>2, SeedRowFields
    <2> HIDE DEF new
    <2> QED BY <1>3, <2>1, <2>2, <2>3 DEF HasPlaybook
  <1> QED BY <1>2, <1>3

(***************************************************************************)
(* What a table holds of an entry, and of an amendment.                    *)
(***************************************************************************)

Marked(b) == ToSet(b.notes) \cap Markers # {}
RowNoted(b, e) == b.family = e.family /\ (Marked(b) \/ b.notes = <<e.notes>>)
RowInstalled(b, e) == RowNoted(b, e) /\ b.json \in {e.json, Own}

\* A row with the notes of the entry, or with amended ones; and with its playbook, or a taught one.
KeptIn(table, e) == \E b \in table : RowNoted(b, e)
InstalledIn(table, e) == \E b \in table : RowInstalled(b, e)
HasMark(table, f, m) == \E b \in table : b.family = f /\ m \in ToSet(b.notes)

\* An entry has a family, a playbook that is not empty and notes.
LEMMA SeedEntryFields ==
  ASSUME NEW e \in SeedEntries
  PROVE  /\ e.family \in Families /\ e.json \in SeedJsons /\ e.json # NoText
         /\ <<e.notes>> \in Seq(SeedPieces) /\ <<e.notes>> # <<>>
  <1>1. e.notes \in SeedPieces
    BY DEF SeedPieces
  <1> QED BY <1>1, SeedAssumption, SeedPiecesOf DEF SeedJsons

\* Notes with an amendment are not empty.
LEMMA MarkedNotEmpty == ASSUME NEW m, NEW s, m \in ToSet(s) PROVE s # <<>>
  BY DEF ToSet

\* The upsert of an entry leaves what any entry of the same version has; two are of two families.
LEMMA UpsertKeepsEntries ==
  ASSUME NEW table \in SUBSET SeedRows, NEW e0 \in SeedEntries, NEW preserve \in BOOLEAN,
         NEW e \in SeedEntries, e.family = e0.family => e = e0
  PROVE  LET after == UpsertPlaybook(table, e0.family, e0.json, <<e0.notes>>, preserve) IN
         /\ KeptIn(table, e) => KeptIn(after, e)
         /\ InstalledIn(table, e) => InstalledIn(after, e)
<1> DEFINE after == UpsertPlaybook(table, e0.family, e0.json, <<e0.notes>>, preserve)
<1> DEFINE f == e0.family
           json == e0.json
           notes == <<e0.notes>>
<1>1. f \in Families /\ json \in SeedJsons /\ json # NoText /\ notes \in Seq(SeedPieces) /\ notes # <<>>
  BY SeedEntryFields
<1>2. after = UpsertPlaybook(table, f, json, notes, preserve)
  OBVIOUS
<1> HIDE DEF after
<1>3. ASSUME NEW b \in table, RowNoted(b, e)
      PROVE  \E c \in after : RowNoted(c, e) /\ (RowInstalled(b, e) => RowInstalled(c, e))
  <2>1. CASE b.family # f
    <3> HIDE DEF f, json, notes
    <3>1. b \in after
      BY <1>1, <1>2, <2>1, SeedTableUpserted
    <3> QED BY <1>3, <3>1
  <2>2. CASE b.family = f
    <3> DEFINE c == Upserted(b, json, notes, preserve)
    <3>1. e = e0
      BY <1>3, <2>2 DEF RowNoted
    <3>2. c \in after /\ c.family = f /\ c.json = json
          /\ c.notes = IF preserve /\ b.notes # <<>> THEN b.notes ELSE notes
      <4> HIDE DEF f, json, notes
      <4>1. c \in after
        BY <1>1, <1>2, <2>2, SeedTableUpserted
      <4>2. b \in SeedRows
        OBVIOUS
      <4> QED BY <1>1, <2>2, <4>1, <4>2, SeedUpserted
    <3> HIDE DEF c
    <3>3. RowInstalled(c, e)
      BY <1>3, <3>1, <3>2 DEF RowInstalled, RowNoted, Marked
    <3> QED BY <3>2, <3>3 DEF RowInstalled
  <2> QED BY <2>1, <2>2
<1> HIDE DEF f, json, notes
<1>4. KeptIn(table, e) => KeptIn(after, e)
  BY <1>3 DEF KeptIn
<1>5. InstalledIn(table, e) => InstalledIn(after, e)
  BY <1>3 DEF InstalledIn, RowInstalled
<1> QED BY <1>4, <1>5 DEF after, f, json, notes

\* And it installs the entry, if what is to be preserved is still amended.
LEMMA UpsertInstalls ==
  ASSUME NEW table \in SUBSET SeedRows, NEW e0 \in SeedEntries, NEW preserve \in BOOLEAN,
         preserve => KeptIn(table, e0)
  PROVE  LET after == UpsertPlaybook(table, e0.family, e0.json, <<e0.notes>>, preserve) IN
         InstalledIn(after, e0)
<1> DEFINE after == UpsertPlaybook(table, e0.family, e0.json, <<e0.notes>>, preserve)
<1> DEFINE f == e0.family
           json == e0.json
           notes == <<e0.notes>>
<1>1. f \in Families /\ json \in SeedJsons /\ json # NoText /\ notes \in Seq(SeedPieces) /\ notes # <<>>
  BY SeedEntryFields
<1>2. after = UpsertPlaybook(table, f, json, notes, preserve)
  OBVIOUS
<1> HIDE DEF after
<1>3. CASE \E b \in table : b.family = f
  <2>1. PICK b \in table : b.family = f /\ (preserve => RowNoted(b, e0))
    BY <1>3 DEF KeptIn, RowNoted
  <2> DEFINE c == Upserted(b, json, notes, preserve)
  <2>2. c \in after /\ c.family = f /\ c.json = json
        /\ c.notes = IF preserve /\ b.notes # <<>> THEN b.notes ELSE notes
    <3> HIDE DEF f, json, notes
    <3>1. c \in after
      BY <1>1, <1>2, <2>1, SeedTableUpserted
    <3>2. b \in SeedRows
      OBVIOUS
    <3> QED BY <1>1, <2>1, <3>1, <3>2, SeedUpserted
  <2> HIDE DEF c
  <2>3. RowInstalled(c, e0)
    BY <2>1, <2>2 DEF RowInstalled, RowNoted, Marked
  <2> QED BY <2>2, <2>3 DEF InstalledIn, after
<1>4. CASE \A b \in table : b.family # f
  <2> DEFINE c == [family |-> f, json |-> json, notes |-> notes]
  <2>1. c \in after
    <3> HIDE DEF f, json, notes
    <3> QED BY <1>1, <1>2, <1>4, SeedTableUpserted
  <2>2. RowInstalled(c, e0)
    BY DEF RowInstalled, RowNoted
  <2> QED BY <2>1, <2>2 DEF InstalledIn, after
<1> QED BY <1>3, <1>4

\* A playbook that a user teaches leaves the notes alone.
LEMMA TeachKeepsEntries ==
  ASSUME NEW table \in SUBSET SeedRows, NEW f \in Families, NEW e \in SeedEntries
  PROVE  LET after == UpsertPlaybook(table, f, Own, <<>>, FALSE) IN
         /\ KeptIn(table, e) => KeptIn(after, e)
         /\ InstalledIn(table, e) => InstalledIn(after, e)
<1> DEFINE after == UpsertPlaybook(table, f, Own, <<>>, FALSE)
<1>1. Own \in SeedJsons /\ <<>> \in Seq(SeedPieces)
  BY EmptySeq DEF SeedJsons
<1>2. ASSUME NEW b \in table, RowNoted(b, e)
      PROVE  \E c \in after : RowNoted(c, e) /\ (RowInstalled(b, e) => RowInstalled(c, e))
  <2>1. CASE b.family # f
    <3>1. b \in after
      BY <1>1, <2>1, SeedTableUpserted
    <3> QED BY <1>2, <3>1
  <2>2. CASE b.family = f
    <3> DEFINE c == Upserted(b, Own, <<>>, FALSE)
    <3>1. c \in after
      BY <1>1, <2>2, SeedTableUpserted
    <3>2. c.family = f /\ c.json \in {b.json, Own} /\ c.notes = b.notes
      <4>1. b \in SeedRows
        OBVIOUS
      <4>2. /\ c.family = b.family
            /\ c.json = IF Own = NoText THEN b.json ELSE Own
            /\ c.notes = IF <<>> = <<>> \/ (FALSE /\ b.notes # <<>>) THEN b.notes ELSE <<>>
        BY <1>1, <4>1, SeedUpserted, Zenon
      <4> HIDE DEF c
      <4> QED BY <2>2, <4>2
    <3> HIDE DEF c
    <3> QED BY <1>2, <2>2, <3>1, <3>2 DEF RowInstalled, RowNoted, Marked
  <2> QED BY <2>1, <2>2
<1> QED BY <1>2 DEF KeptIn, InstalledIn, RowInstalled

\* An amended row is as good as one with the notes of the entry.
LEMMA AppendKeepsEntries ==
  ASSUME NEW table \in SUBSET SeedRows, NEW f \in Families, NEW m \in Markers, NEW e \in SeedEntries
  PROVE  LET after == AppendNote(table, f, m) IN
         /\ KeptIn(table, e) => KeptIn(after, e)
         /\ InstalledIn(table, e) => InstalledIn(after, e)
<1> DEFINE after == AppendNote(table, f, m)
<1>1. m \in SeedPieces
  BY DEF SeedPieces
<1>2. ASSUME NEW b \in table, RowNoted(b, e)
      PROVE  \E c \in after : RowNoted(c, e) /\ (RowInstalled(b, e) => RowInstalled(c, e))
  <2>1. CASE b.family # f
    <3>1. b \in after
      BY <1>1, <2>1, SeedTableAppended
    <3> QED BY <1>2, <3>1
  <2>2. CASE b.family = f
    <3>1. HasAmended(after, b, m)
      BY <1>1, <2>2, SeedTableAppended
    <3>2. PICK c \in after : /\ c.family = f /\ c.json = b.json
                             /\ ToSet(c.notes) = ToSet(b.notes) \cup {m}
      BY <2>2, <3>1 DEF HasAmended
    <3> QED BY <1>2, <2>2, <3>2 DEF RowInstalled, RowNoted, Marked
  <2> QED BY <2>1, <2>2
<1> QED BY <1>2 DEF KeptIn, InstalledIn, RowInstalled

\* An upsert that preserves the notes, or brings none, loses no amendment; nor does one of another
\* family, nor an amendment.
LEMMA UpsertKeepsMarks ==
  ASSUME NEW table \in SUBSET SeedRows, NEW f \in Families, NEW json \in SeedJsons,
         NEW notes \in Seq(SeedPieces), NEW preserve \in BOOLEAN,
         NEW g, NEW m, HasMark(table, g, m), g = f => preserve \/ notes = <<>>
  PROVE  LET after == UpsertPlaybook(table, f, json, notes, preserve) IN
         HasMark(after, g, m)
<1> DEFINE after == UpsertPlaybook(table, f, json, notes, preserve)
<1>1. PICK b \in table : b.family = g /\ m \in ToSet(b.notes)
  BY DEF HasMark
<1>2. CASE g # f
  <2>1. b \in after
    BY <1>1, <1>2, SeedTableUpserted
  <2> QED BY <1>1, <2>1 DEF HasMark
<1>3. CASE g = f
  <2> DEFINE c == Upserted(b, json, notes, preserve)
  <2>1. b.notes # <<>>
    BY <1>1, MarkedNotEmpty
  <2>2. c \in after
    BY <1>1, <1>3, SeedTableUpserted
  <2>3. c.family = g /\ c.notes = b.notes
    <3>1. b \in SeedRows
      OBVIOUS
    <3> QED BY <1>1, <1>3, <2>1, <3>1, SeedUpserted
  <2> HIDE DEF c
  <2> QED BY <1>1, <2>2, <2>3 DEF HasMark
<1> QED BY <1>2, <1>3

\* Adding a note to a family adds its mark and loses no mark.
LEMMA AppendKeepsMarks ==
  ASSUME NEW table \in SUBSET SeedRows, NEW f \in Families, NEW n \in SeedPieces, NEW g, NEW m
  PROVE  LET after == AppendNote(table, f, n) IN
         /\ HasMark(table, g, m) => HasMark(after, g, m)
         /\ HasMark(after, f, n)
<1> DEFINE after == AppendNote(table, f, n)
<1>1. ASSUME HasMark(table, g, m) PROVE HasMark(after, g, m)
  <2>1. PICK b \in table : b.family = g /\ m \in ToSet(b.notes)
    BY <1>1 DEF HasMark
  <2>2. CASE g # f
    <3>1. b \in after
      BY <2>1, <2>2, SeedTableAppended
    <3> QED BY <2>1, <3>1 DEF HasMark
  <2>3. CASE g = f
    <3>1. HasAmended(after, b, n)
      BY <2>1, <2>3, SeedTableAppended
    <3>2. PICK c \in after : c.family = f /\ ToSet(c.notes) = ToSet(b.notes) \cup {n}
      BY <2>1, <2>3, <3>1 DEF HasAmended
    <3> QED BY <2>1, <2>3, <3>2 DEF HasMark
  <2> QED BY <2>2, <2>3
<1>2. HasMark(after, f, n)
  BY SeedTableAppended DEF HasMark
<1> QED BY <1>1, <1>2

(***************************************************************************)
(* The inductive invariant.                                                *)
(***************************************************************************)

EntryOf(s) == Seeds[s.version][s.next]
AllInstalled(table, v, n) == \A i \in 1 .. n : InstalledIn(table, Seeds[v][i])

\* A seeder that is to overwrite notes overwrites no amendment that is to be heard.
SeederSafe(s, newest, told) ==
  s # NotSeeding =>
    /\ s.version <= newest
    /\ s.next \in Nat \ {0} /\ s.next <= Len(Seeds[s.version]) + 1
    /\ s.pc = "upsert" =>
         /\ s.next <= Len(Seeds[s.version])
         /\ ~s.preserve => \A h \in told : h[1] # EntryOf(s).family

\* Among seeders of one version a seeder without a failure has installed what it has passed, and
\* what it is to preserve is amended, or has been installed meanwhile.
SeederAlone(s, newest, table) ==
  s # NotSeeding =>
    /\ s.version = newest
    /\ ~s.failed => AllInstalled(table, newest, s.next - 1)
    /\ s.pc = "upsert" /\ s.preserve => KeptIn(table, EntryOf(s))

AloneComplete ==
  ~mixed => /\ \A p \in Seeders : SeederAlone(seeder[p], binary, shelf)
            /\ sentinel = binary => AllInstalled(shelf, binary, Len(Seeds[binary]))

SeedInv ==
  /\ SeedTypeOK /\ sentinel <= binary
  /\ \A h \in heard : HasMark(shelf, h[1], h[2])
  /\ \A p \in Seeders : SeederSafe(seeder[p], binary, heard)
  /\ AloneComplete

\* What there is at each place of a version, and that no two are for one family.
LEMMA SeedEntryAt ==
  ASSUME NEW v \in Versions
  PROVE  /\ Len(Seeds[v]) \in Nat /\ \A i \in 1 .. Len(Seeds[v]) : Seeds[v][i] \in SeedEntries
         /\ \A i, j \in 1 .. Len(Seeds[v]) :
              Seeds[v][i].family = Seeds[v][j].family => Seeds[v][i] = Seeds[v][j]
  BY SeedAssumption, ElementOfSeq, LenProperties

\* What is assumed of the versions.
LEMMA SeedVersions ==
  Len(Seeds) \in Nat /\ 1 \in Versions /\ Versions \subseteq Nat /\ MaxAmends \in Nat
  BY SeedAssumption DEF Versions

\* A seeder at work has a record, and at its upsert an entry.
LEMMA SeederAtWork ==
  ASSUME SeedInv, NEW p \in Seeders, AtWork(p)
  PROVE  /\ seeder[p] \in SeederState /\ seeder[p].next \in Nat \ {0}
         /\ seeder[p].version \in Versions /\ seeder[p].version <= binary
         /\ Len(Seeds[seeder[p].version]) \in Nat
         /\ HasEntry(p) => Entry(p) \in SeedEntries
         /\ seeder[p].pc = "upsert" => HasEntry(p)
  <1>1. seeder[p] \in SeederState /\ SeederSafe(seeder[p], binary, heard)
    BY DEF SeedInv, SeedTypeOK, AtWork
  <1>2. seeder[p].version \in Versions
    BY <1>1 DEF SeederState
  <1> QED BY <1>1, <1>2, SeedEntryAt DEF SeederSafe, AtWork, HasEntry, Entry

\* An amendment is in the notes of a family when it is in those of a row.
LEMMA MarkInNotes == \A f, m : m \in NotesOf(f) <=> HasMark(shelf, f, m)
  BY DEF NotesOf, HasMark

\* The invariant says that an acknowledged amendment is in the notes.
LEMMA SeedAmendKept == SeedInv => AmendKept
  BY MarkInNotes DEF SeedInv, AmendKept

\* The invariant says that a completed seeding left every entry of its version.
LEMMA SeedIsComplete == SeedInv => SeedComplete
<1> SUFFICES ASSUME SeedInv, sentinel = binary, ~mixed, NEW e \in ToSet(Seeds[binary])
             PROVE  \E b \in shelf : /\ b.family = e.family /\ b.json \in {e.json, Own}
                                     /\ IsAmended(e.family) \/ b.notes = <<e.notes>>
  BY DEF SeedComplete
<1>1. binary \in Versions /\ AllInstalled(shelf, binary, Len(Seeds[binary]))
  BY DEF SeedInv, SeedTypeOK, AloneComplete
<1>2. PICK i \in 1 .. Len(Seeds[binary]) : e = Seeds[binary][i]
  <2>1. Seeds[binary] \in Seq(SeedEntries)
    BY <1>1, SeedAssumption
  <2> QED BY <2>1, LenProperties DEF ToSet
<1>3. PICK b \in shelf : RowInstalled(b, e)
  BY <1>1, <1>2 DEF AllInstalled, InstalledIn
<1>4. Marked(b) => IsAmended(b.family)
  <2>1. ASSUME NEW m \in ToSet(b.notes), m \in Markers PROVE m \in NotesOf(b.family) \cap Markers
    BY <2>1, MarkInNotes DEF HasMark
  <2> QED BY <2>1 DEF Marked, IsAmended
<1> QED BY <1>3, <1>4 DEF RowInstalled, RowNoted

\* At first nothing is seeded.
LEMMA SeedInitSafe == SeedInit => SeedInv
<1> SUFFICES ASSUME SeedInit PROVE SeedInv
  OBVIOUS
<1>1. SeedTypeOK /\ sentinel <= binary /\ sentinel # binary
  <2>1. seeder \in [Seeders -> {NotSeeding} \cup SeederState] /\ shelf \subseteq SeedRows
    BY DEF SeedInit
  <2>2. sentinel = 0 /\ binary = 1 /\ binary \in Versions
    BY SeedVersions DEF SeedInit
  <2>3. amends \in 0 .. MaxAmends
    BY SeedVersions DEF SeedInit
  <2>4. mixed \in BOOLEAN /\ heard \subseteq Families \X Markers
    BY DEF SeedInit
  <2> QED BY <2>1, <2>2, <2>3, <2>4 DEF SeedTypeOK
<1>2. \A p \in Seeders : seeder[p] = NotSeeding
  BY DEF SeedInit
<1> QED BY <1>1, <1>2 DEF SeedInit, SeedInv, SeederSafe, AloneComplete, SeederAlone

\* What a change of the table keeps of the entries of a version.
KeepsEntries(table, after, v) ==
  \A i \in 1 .. Len(Seeds[v]) :
    /\ KeptIn(table, Seeds[v][i]) => KeptIn(after, Seeds[v][i])
    /\ InstalledIn(table, Seeds[v][i]) => InstalledIn(after, Seeds[v][i])

\* Then the seeders that did not step, and the sentinel, are worth what they were.
LEMMA AloneFrame ==
  ASSUME SeedInv, ~mixed, NEW after, KeepsEntries(shelf, after, binary)
  PROVE  /\ \A p \in Seeders : SeederAlone(seeder[p], binary, after)
         /\ sentinel = binary => AllInstalled(after, binary, Len(Seeds[binary]))
<1>1. binary \in Versions /\ Len(Seeds[binary]) \in Nat
  BY SeedEntryAt DEF SeedInv, SeedTypeOK
<1>2. sentinel = binary => AllInstalled(after, binary, Len(Seeds[binary]))
  BY DEF SeedInv, AloneComplete, AllInstalled, KeepsEntries
<1>3. ASSUME NEW p \in Seeders, seeder[p] # NotSeeding PROVE SeederAlone(seeder[p], binary, after)
  <2> DEFINE s == seeder[p]
  <2>1. SeederAlone(s, binary, shelf) /\ s.version = binary
    BY <1>3 DEF SeedInv, AloneComplete, SeederAlone
  <2>2. /\ s.next \in Nat \ {0} /\ s.next - 1 <= Len(Seeds[binary])
        /\ s.pc = "upsert" => s.next \in 1 .. Len(Seeds[binary])
    BY <1>1, <1>3, <2>1 DEF SeedInv, SeederSafe
  <2>3. \A i \in 1 .. s.next - 1 : i \in 1 .. Len(Seeds[binary])
    BY <1>1, <2>2
  <2> HIDE DEF s
  <2>4. ~s.failed => AllInstalled(after, binary, s.next - 1)
    BY <1>3, <2>1, <2>3 DEF SeederAlone, AllInstalled, KeepsEntries, s
  <2>5. s.pc = "upsert" /\ s.preserve => KeptIn(after, EntryOf(s))
    BY <1>3, <2>1, <2>2 DEF SeederAlone, KeepsEntries, EntryOf, s
  <2> QED BY <2>1, <2>4, <2>5 DEF SeederAlone, s
<1> QED BY <1>2, <1>3 DEF SeederAlone

\* A step of a seeder writes its own record.
SeedOwn(p, r) == seeder' = [seeder EXCEPT ![p] = r] /\ (r = NotSeeding \/ r \in SeederState)

\* A step that changes one seeder and keeps the rows of every entry keeps the invariant.
LEMMA SeedOwnFrame ==
  ASSUME SeedInv, NEW p \in Seeders, NEW r, SeedOwn(p, r), UNCHANGED <<binary, amends>>,
         mixed' = mixed, shelf' \subseteq SeedRows, sentinel' \in {0} \cup Versions,
         sentinel' <= binary,
         heard' \subseteq heard, \A h \in heard' : HasMark(shelf', h[1], h[2]),
         SeederSafe(r, binary, heard'),
         ~mixed => /\ KeepsEntries(shelf, shelf', binary) /\ SeederAlone(r, binary, shelf')
                   /\ sentinel' = binary => AllInstalled(shelf', binary, Len(Seeds[binary]))
  PROVE  SeedInv'
<1>1. SeedTypeOK'
  BY DEF SeedInv, SeedTypeOK, SeedOwn
<1>2. seeder'[p] = r /\ \A q \in Seeders : q # p => seeder'[q] = seeder[q]
  BY DEF SeedInv, SeedTypeOK, SeedOwn
<1>3. ASSUME NEW q \in Seeders PROVE SeederSafe(seeder'[q], binary, heard')
  <2>1. CASE q = p
    BY <1>2, <2>1
  <2>2. CASE q # p
    BY <1>2, <2>2 DEF SeedInv, SeederSafe
  <2> QED BY <2>1, <2>2
<1>4. ASSUME ~mixed PROVE \A q \in Seeders : SeederAlone(seeder'[q], binary, shelf')
  BY <1>2, <1>4, AloneFrame
<1> QED BY <1>1, <1>3, <1>4 DEF SeedInv, AloneComplete

\* A table that does not change keeps everything.
LEMMA KeepsSame == \A table, v : KeepsEntries(table, table, v)
  BY DEF KeepsEntries

\* A seeding begins, of the entries of the binary.
LEMMA SeedBeginsSafe == ASSUME SeedInv, NEW p \in Seeders, SeedBegins(p) PROVE SeedInv'
<1> DEFINE r == [pc |-> "read", version |-> binary, next |-> 1, preserve |-> FALSE, failed |-> FALSE]
<1>1. binary \in Versions /\ Len(Seeds[binary]) \in Nat
  BY SeedEntryAt DEF SeedInv, SeedTypeOK
<1>2. /\ r \in SeederState /\ r.pc = "read" /\ r.version = binary /\ r.next = 1
      /\ r.failed = FALSE
  BY <1>1 DEF SeederState
<1>3. SeedOwn(p, r)
  BY <1>2 DEF SeedBegins, SeedOwn
<1> HIDE DEF r
<1>4. SeederSafe(r, binary, heard)
  BY <1>1, <1>2, SeedVersions DEF SeederSafe
<1>5. SeederAlone(r, binary, shelf)
  BY <1>2 DEF SeederAlone, AllInstalled
<1>6. UNCHANGED <<shelf, sentinel, binary, mixed, amends, heard>>
  BY DEF SeedBegins
<1>7. /\ shelf \subseteq SeedRows /\ sentinel \in {0} \cup Versions /\ sentinel <= binary
      /\ \A h \in heard : HasMark(shelf, h[1], h[2])
      /\ ~mixed /\ sentinel = binary => AllInstalled(shelf, binary, Len(Seeds[binary]))
  BY DEF SeedInv, SeedTypeOK, AloneComplete
<1> QED BY <1>3, <1>4, <1>5, <1>6, <1>7, KeepsSame, SeedOwnFrame

\* A seeder that stops, at its end or half-way.
LEMMA SeedStopsSafe ==
  ASSUME SeedInv, NEW p \in Seeders, seeder' = [seeder EXCEPT ![p] = NotSeeding],
         UNCHANGED <<shelf, binary, mixed, amends, heard>>,
         sentinel' \in {0} \cup Versions, sentinel' <= binary,
         ~mixed /\ sentinel' = binary => AllInstalled(shelf, binary, Len(Seeds[binary]))
  PROVE  SeedInv'
<1>1. SeedOwn(p, NotSeeding)
  BY DEF SeedOwn
<1>2. SeederSafe(NotSeeding, binary, heard) /\ SeederAlone(NotSeeding, binary, shelf)
  BY DEF SeederSafe, SeederAlone
<1>3. shelf \subseteq SeedRows /\ \A h \in heard : HasMark(shelf, h[1], h[2])
  BY DEF SeedInv, SeedTypeOK
<1> QED BY <1>1, <1>2, <1>3, KeepsSame, SeedOwnFrame

\* The sentinel is written by a seeder that has passed every entry and failed at none.
LEMMA SeedEndsSafe == ASSUME SeedInv, NEW p \in Seeders, SeedEnds(p) PROVE SeedInv'
<1>1. /\ seeder[p] \in SeederState /\ seeder[p].next \in Nat \ {0}
      /\ seeder[p].version \in Versions /\ seeder[p].version <= binary
      /\ Len(Seeds[seeder[p].version]) \in Nat
  BY SeederAtWork DEF SeedEnds
<1>2. /\ sentinel' = seeder[p].version /\ ~seeder[p].failed /\ AtWork(p)
      /\ ~(seeder[p].next <= Len(Seeds[seeder[p].version]))
  BY DEF SeedEnds, SentinelDue, HasEntry
<1>3. ~mixed => AllInstalled(shelf, binary, Len(Seeds[binary]))
  <2> SUFFICES ASSUME ~mixed PROVE AllInstalled(shelf, binary, Len(Seeds[binary]))
    OBVIOUS
  <2>1. seeder[p].version = binary /\ AllInstalled(shelf, binary, seeder[p].next - 1)
    BY <1>2 DEF SeedInv, AloneComplete, SeederAlone, AtWork
  <2>2. \A i \in 1 .. Len(Seeds[binary]) : i \in 1 .. seeder[p].next - 1
    BY <1>1, <1>2, <2>1
  <2> QED BY <2>1, <2>2 DEF AllInstalled
<1>4. /\ seeder' = [seeder EXCEPT ![p] = NotSeeding]
      /\ UNCHANGED <<shelf, binary, mixed, amends, heard>>
      /\ sentinel' \in {0} \cup Versions /\ sentinel' <= binary
  BY <1>1, <1>2 DEF SeedEnds
<1> QED BY <1>3, <1>4, SeedStopsSafe

\* The record of a seeder that goes on to the next entry.
SeederNext(s, failed) == [s EXCEPT !.pc = "read", !.next = @ + 1, !.failed = failed]

\* A seeder that goes on to its next entry has a record.
LEMMA SeederNextTyped ==
  ASSUME NEW s \in SeederState, NEW failed \in BOOLEAN
  PROVE  /\ SeederNext(s, failed) \in SeederState /\ SeederNext(s, failed).pc = "read"
         /\ SeederNext(s, failed).next = s.next + 1
         /\ SeederNext(s, failed).version = s.version
         /\ SeederNext(s, failed).failed = failed
  <1>1. s.next \in Nat /\ s.next + 1 \in Nat
    BY DEF SeederState
  <1> QED BY <1>1 DEF SeederState, SeederNext

\* An entry that does not parse is a failure; otherwise the notes are to be preserved when one of
\* them is an amendment, and amendments that could not be read are not to be heard.
LEMMA SeedReadsSafe == ASSUME SeedInv, NEW p \in Seeders, SeedReads(p) PROVE SeedInv'
<1> DEFINE s == seeder[p]
           e == Entry(p)
<1>1. /\ s \in SeederState /\ s.next \in Nat \ {0} /\ s.version \in Versions
      /\ s.version <= binary /\ Len(Seeds[s.version]) \in Nat
      /\ e \in SeedEntries /\ s.next <= Len(Seeds[s.version]) /\ s # NotSeeding
      /\ s.pc = "read"
  BY SeederAtWork DEF SeedReads, HasEntry, AtWork
<1>2. /\ UNCHANGED <<shelf, sentinel, binary, mixed, amends>> /\ seeder \in [Seeders -> {NotSeeding} \cup SeederState]
      /\ shelf \subseteq SeedRows /\ sentinel \in {0} \cup Versions /\ sentinel <= binary
      /\ \A h \in heard : HasMark(shelf, h[1], h[2])
      /\ heard \subseteq Families \X Markers
      /\ ~mixed => SeederAlone(s, binary, shelf)
      /\ ~mixed /\ sentinel = binary => AllInstalled(shelf, binary, Len(Seeds[binary]))
  BY DEF SeedReads, SeedInv, SeedTypeOK, AloneComplete
<1>3. CASE e.parses
  <2>1. PICK readable \in BOOLEAN :
          /\ seeder' = [seeder EXCEPT ![p].pc = "upsert", ![p].preserve = Preserve(p, readable)]
          /\ heard' = IF readable THEN heard ELSE {h \in heard : h[1] # e.family}
    BY <1>3 DEF SeedReads
  <2> DEFINE keep == Preserve(p, readable)
             r == [s EXCEPT !.pc = "upsert", !.preserve = keep]
  <2>2. keep \in BOOLEAN
    BY DEF Preserve, IsAmended
  <2>3. seeder' = [seeder EXCEPT ![p] = r]
    BY <1>2, <2>1
  <2> HIDE DEF keep
  <2>4. /\ r \in SeederState /\ r.pc = "upsert" /\ r.preserve = keep /\ r.next = s.next
        /\ r.version = s.version /\ r.failed = s.failed
    BY <1>1, <2>2 DEF SeederState
  <2>5. SeedOwn(p, r)
    BY <2>3, <2>4 DEF SeedOwn
  <2> HIDE DEF r
  <2>6. EntryOf(r) = e
    BY <2>4 DEF EntryOf, Entry
  <2>7. ~keep => \A h \in heard' : h[1] # e.family
    <3>1. ASSUME ~keep, readable, NEW h \in heard, h[1] = e.family PROVE FALSE
      <4>1. h[2] \in Markers /\ h[2] \in NotesOf(e.family)
        BY <1>2, <3>1, MarkInNotes
      <4> QED BY <3>1, <4>1 DEF keep, Preserve, IsAmended
    <3> QED BY <2>1, <3>1
  <2>8. keep => KeptIn(shelf, e)
    <3>1. ASSUME keep PROVE KeptIn(shelf, e)
      <4>1. PICK m \in Markers : m \in NotesOf(e.family)
        BY <3>1 DEF keep, Preserve, IsAmended
      <4>2. PICK b \in shelf : b.family = e.family /\ m \in ToSet(b.notes)
        BY <4>1, MarkInNotes DEF HasMark
      <4> QED BY <4>2 DEF KeptIn, RowNoted, Marked
    <3> QED BY <3>1
  <2>9. SeederSafe(r, binary, heard')
    BY <1>1, <2>4, <2>6, <2>7 DEF SeederSafe
  <2>10. ~mixed => SeederAlone(r, binary, shelf)
    BY <1>1, <1>2, <2>4, <2>6, <2>8 DEF SeederAlone
  <2>11. heard' \subseteq heard
    BY <2>1
  <2>12. \A h \in heard' : HasMark(shelf', h[1], h[2])
    BY <1>2, <2>11
  <2> QED BY <1>2, <2>5, <2>9, <2>10, <2>11, <2>12, KeepsSame, SeedOwnFrame
<1>4. CASE ~e.parses
  <2> DEFINE r == SeederNext(s, TRUE)
  <2>1. seeder' = [seeder EXCEPT ![p] = r] /\ heard' = heard
    <3>1. /\ seeder' = [seeder EXCEPT ![p].failed = TRUE, ![p].next = @ + 1]
          /\ heard' = heard
      BY <1>4 DEF SeedReads
    <3>2. [s EXCEPT !.failed = TRUE, !.next = @ + 1] = r
      BY <1>1 DEF SeederNext, SeederState
    <3> QED BY <1>2, <3>1, <3>2
  <2>2. /\ r \in SeederState /\ r.pc = "read" /\ r.next = s.next + 1
        /\ r.version = s.version /\ r.failed = TRUE
    BY <1>1, SeederNextTyped
  <2>3. SeedOwn(p, r)
    BY <2>1, <2>2 DEF SeedOwn
  <2> HIDE DEF r
  <2>4. SeederSafe(r, binary, heard)
    BY <1>1, <2>2 DEF SeederSafe
  <2>5. ~mixed => SeederAlone(r, binary, shelf)
    BY <1>1, <1>2, <2>2 DEF SeederAlone
  <2> QED BY <1>2, <2>1, <2>3, <2>4, <2>5, KeepsSame, SeedOwnFrame
<1> QED BY <1>3, <1>4

\* The upsert of an entry installs it, and loses no amendment that is to be heard.
LEMMA SeedUpsertsSafe == ASSUME SeedInv, NEW p \in Seeders, SeedUpserts(p) PROVE SeedInv'
<1> DEFINE s == seeder[p]
           e == Entry(p)
<1>1. /\ s \in SeederState /\ s.next \in Nat \ {0} /\ s.version \in Versions
      /\ s.version <= binary /\ Len(Seeds[s.version]) \in Nat
      /\ e \in SeedEntries /\ s.next <= Len(Seeds[s.version]) /\ s # NotSeeding
      /\ s.pc = "upsert" /\ s.preserve \in BOOLEAN
  BY SeederAtWork DEF SeedUpserts, HasEntry, AtWork, SeederState
<1>2. /\ UNCHANGED <<sentinel, binary, mixed, amends, heard>>
      /\ seeder \in [Seeders -> {NotSeeding} \cup SeederState]
      /\ shelf \in SUBSET SeedRows /\ sentinel \in {0} \cup Versions /\ sentinel <= binary
      /\ \A h \in heard : HasMark(shelf, h[1], h[2])
      /\ SeederSafe(s, binary, heard)
      /\ ~mixed => SeederAlone(s, binary, shelf)
      /\ ~mixed /\ sentinel = binary => AllInstalled(shelf, binary, Len(Seeds[binary]))
  BY DEF SeedUpserts, SeedInv, SeedTypeOK, AloneComplete
<1> DEFINE after == UpsertPlaybook(shelf, e.family, e.json, <<e.notes>>, s.preserve)
<1>3. PICK ok \in BOOLEAN :
        /\ shelf' = IF ok THEN after ELSE shelf
        /\ seeder' = [seeder EXCEPT ![p].pc = "read", ![p].next = @ + 1, ![p].failed = @ \/ ~ok]
  BY DEF SeedUpserts
<1> DEFINE failed == s.failed \/ ~ok
           r == SeederNext(s, failed)
<1>4. seeder' = [seeder EXCEPT ![p] = r] /\ failed \in BOOLEAN
  BY <1>1, <1>2, <1>3 DEF SeederState, SeederNext
<1>5. (~failed => ok) /\ (~failed => ~s.failed)
  OBVIOUS
<1> HIDE DEF failed
<1>6. /\ r \in SeederState /\ r.pc = "read" /\ r.next = s.next + 1
      /\ r.version = s.version /\ r.failed = failed
  BY <1>1, <1>4, SeederNextTyped
<1>7. SeedOwn(p, r)
  BY <1>4, <1>6 DEF SeedOwn
<1> HIDE DEF r
<1>8. SeederSafe(r, binary, heard)
  BY <1>1, <1>6 DEF SeederSafe
<1>9. /\ e.family \in Families /\ e.json \in SeedJsons /\ <<e.notes>> \in Seq(SeedPieces)
  BY <1>1, SeedEntryFields
<1>10. after \subseteq SeedRows
  <2> HIDE DEF e, s
  <2> QED BY <1>1, <1>2, <1>9, SeedTableUpserted
<1>11. \A h \in heard : HasMark(after, h[1], h[2])
  <2> SUFFICES ASSUME NEW h \in heard PROVE HasMark(after, h[1], h[2])
    OBVIOUS
  <2>1. h[1] = e.family => s.preserve
    BY <1>1, <1>2 DEF SeederSafe, EntryOf, Entry
  <2>2. HasMark(shelf, h[1], h[2])
    BY <1>2
  <2> HIDE DEF e, s
  <2> QED BY <1>1, <1>2, <1>9, <2>1, <2>2, UpsertKeepsMarks
<1>12. ASSUME ~mixed
       PROVE  KeepsEntries(shelf, after, binary) /\ InstalledIn(after, e) /\ s.version = binary
  <2>1. s.version = binary /\ (s.preserve => KeptIn(shelf, e))
    BY <1>1, <1>2, <1>12 DEF SeederAlone, EntryOf, Entry
  <2>2. \A i \in 1 .. Len(Seeds[binary]) :
          Seeds[binary][i] \in SeedEntries
          /\ (Seeds[binary][i].family = e.family => Seeds[binary][i] = e)
    BY <1>1, <2>1, SeedEntryAt DEF Entry
  <2> HIDE DEF e, s
  <2>3. InstalledIn(after, e)
    BY <1>1, <1>2, <2>1, UpsertInstalls
  <2>4. ASSUME NEW i \in 1 .. Len(Seeds[binary])
        PROVE  /\ KeptIn(shelf, Seeds[binary][i]) => KeptIn(after, Seeds[binary][i])
               /\ InstalledIn(shelf, Seeds[binary][i]) => InstalledIn(after, Seeds[binary][i])
    <3> DEFINE d == Seeds[binary][i]
    <3>1. d \in SeedEntries /\ (d.family = e.family => d = e)
      BY <2>2
    <3> HIDE DEF d
    <3>2. /\ KeptIn(shelf, d) => KeptIn(after, d)
          /\ InstalledIn(shelf, d) => InstalledIn(after, d)
      BY <1>1, <1>2, <3>1, UpsertKeepsEntries
    <3> QED BY <3>2 DEF d
  <2> QED BY <2>1, <2>3, <2>4 DEF KeepsEntries
<1>13. ASSUME ~mixed PROVE KeepsEntries(shelf, shelf', binary)
  BY <1>3, <1>12, <1>13, KeepsSame
<1>14. ASSUME ~mixed PROVE SeederAlone(r, binary, shelf')
  <2>1. ASSUME ~failed PROVE AllInstalled(shelf', binary, r.next - 1)
    <3>1. shelf' = after /\ AllInstalled(shelf, binary, s.next - 1) /\ s.version = binary
      BY <1>1, <1>2, <1>3, <1>5, <1>12, <1>14, <2>1 DEF SeederAlone
    <3>2. ASSUME NEW i \in 1 .. r.next - 1 PROVE InstalledIn(after, Seeds[binary][i])
      <4>1. CASE i = s.next
        BY <1>12, <1>14, <3>1, <4>1 DEF Entry
      <4>2. CASE i # s.next
        <5>1. i \in 1 .. s.next - 1 /\ i \in 1 .. Len(Seeds[binary])
          BY <1>1, <1>6, <3>1, <3>2, <4>2
        <5> QED BY <1>12, <1>14, <3>1, <5>1 DEF AllInstalled, KeepsEntries
      <4> QED BY <4>1, <4>2
    <3> QED BY <3>1, <3>2 DEF AllInstalled
  <2> QED BY <1>6, <1>12, <1>14, <2>1 DEF SeederAlone
<1>15. ASSUME ~mixed, sentinel = binary PROVE AllInstalled(shelf', binary, Len(Seeds[binary]))
  BY <1>13, <1>15, AloneFrame
<1>16. shelf' \subseteq SeedRows /\ \A h \in heard' : HasMark(shelf', h[1], h[2])
  BY <1>2, <1>3, <1>10, <1>11
<1> HIDE DEF s, e, after
<1> QED BY <1>2, <1>7, <1>8, <1>13, <1>14, <1>15, <1>16, SeedOwnFrame

\* A change of the table that keeps the entries; an amendment that is to be heard from now on is of
\* a family that nobody is about to upsert.
LEMMA SeedTableFrame ==
  ASSUME SeedInv, UNCHANGED <<seeder, sentinel, binary, mixed>>, amends' \in 0 .. MaxAmends,
         heard' \subseteq Families \X Markers, shelf' \subseteq SeedRows,
         KeepsEntries(shelf, shelf', binary),
         \A h \in heard' : HasMark(shelf', h[1], h[2]),
         \A h \in heard' : \/ h \in heard
                           \/ \A p \in Seeders : AtWork(p) /\ seeder[p].pc = "upsert" =>
                                                   Entry(p).family # h[1]
  PROVE  SeedInv'
<1>1. SeedTypeOK' /\ sentinel' <= binary'
  BY DEF SeedInv, SeedTypeOK
<1>2. ASSUME NEW p \in Seeders PROVE SeederSafe(seeder[p], binary, heard')
  BY DEF SeedInv, SeederSafe, AtWork, EntryOf, Entry
<1>3. ASSUME ~mixed PROVE \A p \in Seeders : SeederAlone(seeder[p], binary, shelf')
  BY <1>3, AloneFrame
<1>4. ASSUME ~mixed, sentinel = binary PROVE AllInstalled(shelf', binary, Len(Seeds[binary]))
  BY <1>4, AloneFrame
<1> QED BY <1>1, <1>2, <1>3, <1>4 DEF SeedInv, AloneComplete

\* An amendment is heard unless a seeder stands between its reading and its upsert of the row.
LEMMA AmendSeededSafe == ASSUME SeedInv, NEW f \in Families, AmendSeeded(f) PROVE SeedInv'
<1> DEFINE m == amends + 1
<1>1. m \in Markers /\ m \in SeedPieces /\ m \in 0 .. MaxAmends /\ amends' = m
  BY SeedVersions DEF SeedInv, SeedTypeOK, AmendSeeded, Markers, SeedPieces
<1>2. /\ UNCHANGED <<seeder, sentinel, binary, mixed>> /\ shelf \in SUBSET SeedRows
      /\ shelf' = AppendNote(shelf, f, m) /\ binary \in Versions
      /\ heard \subseteq Families \X Markers /\ \A h \in heard : HasMark(shelf, h[1], h[2])
  BY <1>1 DEF AmendSeeded, SeedInv, SeedTypeOK
<1>3. \/ heard' = heard
      \/ /\ heard' = heard \cup {<<f, m>>}
         /\ \A p \in Seeders : AtWork(p) /\ seeder[p].pc = "upsert" => Entry(p).family # f
  BY <1>1 DEF AmendSeeded
<1> HIDE DEF m
<1>4. shelf' \subseteq SeedRows
  BY <1>1, <1>2, SeedTableAppended
<1>5. /\ \A g, n : HasMark(shelf, g, n) => HasMark(shelf', g, n)
      /\ HasMark(shelf', f, m)
  BY <1>1, <1>2, AppendKeepsMarks
<1>6. KeepsEntries(shelf, shelf', binary)
  <2>1. ASSUME NEW i \in 1 .. Len(Seeds[binary])
        PROVE  /\ KeptIn(shelf, Seeds[binary][i]) => KeptIn(shelf', Seeds[binary][i])
               /\ InstalledIn(shelf, Seeds[binary][i]) => InstalledIn(shelf', Seeds[binary][i])
    <3> DEFINE e == Seeds[binary][i]
    <3>1. e \in SeedEntries
      BY <1>2, SeedEntryAt
    <3> HIDE DEF e
    <3>2. (KeptIn(shelf, e) => KeptIn(shelf', e)) /\ (InstalledIn(shelf, e) => InstalledIn(shelf', e))
      BY <1>1, <1>2, <3>1, AppendKeepsEntries
    <3> QED BY <3>2 DEF e
  <2> QED BY <2>1 DEF KeepsEntries
<1>7. \A h \in heard' : HasMark(shelf', h[1], h[2])
  BY <1>2, <1>3, <1>5
<1>8. heard' \subseteq Families \X Markers
  BY <1>1, <1>2, <1>3
<1>9. \A h \in heard' : \/ h \in heard
                        \/ \A p \in Seeders : AtWork(p) /\ seeder[p].pc = "upsert" =>
                                                Entry(p).family # h[1]
  BY <1>3
<1> QED BY <1>1, <1>2, <1>4, <1>6, <1>7, <1>8, <1>9, SeedTableFrame

\* A playbook of the user's own takes no notes away.
LEMMA TeachOwnSafe == ASSUME SeedInv, NEW f \in Families, TeachOwn(f) PROVE SeedInv'
<1>1. /\ UNCHANGED <<seeder, sentinel, binary, mixed, amends, heard>> /\ shelf \in SUBSET SeedRows
      /\ shelf' = UpsertPlaybook(shelf, f, Own, <<>>, FALSE) /\ binary \in Versions
      /\ heard \subseteq Families \X Markers /\ \A h \in heard : HasMark(shelf, h[1], h[2])
      /\ amends \in 0 .. MaxAmends
  BY DEF TeachOwn, SeedInv, SeedTypeOK
<1>2. Own \in SeedJsons /\ <<>> \in Seq(SeedPieces)
  BY EmptySeq DEF SeedJsons
<1>3. shelf' \subseteq SeedRows
  BY <1>1, <1>2, SeedTableUpserted
<1>4. \A h \in heard' : HasMark(shelf', h[1], h[2])
  <2> SUFFICES ASSUME NEW h \in heard PROVE HasMark(shelf', h[1], h[2])
    BY <1>1
  <2> DEFINE g == h[1]
             m == h[2]
  <2>1. HasMark(shelf, g, m)
    BY <1>1
  <2> HIDE DEF g, m
  <2>2. HasMark(shelf', g, m)
    BY <1>1, <1>2, <2>1, UpsertKeepsMarks
  <2> QED BY <2>2 DEF g, m
<1>5. KeepsEntries(shelf, shelf', binary)
  <2>1. ASSUME NEW i \in 1 .. Len(Seeds[binary])
        PROVE  /\ KeptIn(shelf, Seeds[binary][i]) => KeptIn(shelf', Seeds[binary][i])
               /\ InstalledIn(shelf, Seeds[binary][i]) => InstalledIn(shelf', Seeds[binary][i])
    <3> DEFINE e == Seeds[binary][i]
    <3>1. e \in SeedEntries
      BY <1>1, SeedEntryAt
    <3> HIDE DEF e
    <3>2. (KeptIn(shelf, e) => KeptIn(shelf', e)) /\ (InstalledIn(shelf, e) => InstalledIn(shelf', e))
      BY <1>1, <3>1, TeachKeepsEntries
    <3> QED BY <3>2 DEF e
  <2> QED BY <2>1 DEF KeepsEntries
<1> QED BY <1>1, <1>3, <1>4, <1>5, SeedTableFrame

\* A new version finds no sentinel of its own, and no seeder unless it is mixed.
LEMMA UpgradeSafe == ASSUME SeedInv, Upgrade PROVE SeedInv'
<1>1. /\ binary \in Versions /\ binary' = binary + 1 /\ binary' \in Versions /\ binary \in Nat
      /\ sentinel \in {0} \cup Versions /\ sentinel \in Nat /\ sentinel <= binary
      /\ UNCHANGED <<shelf, sentinel, seeder, amends, heard>>
      /\ ~mixed' => \A p \in Seeders : seeder[p] = NotSeeding
      /\ mixed' \in BOOLEAN
  BY SeedVersions DEF SeedInv, SeedTypeOK, Upgrade, AtWork, Versions
<1>2. SeedTypeOK' /\ sentinel' <= binary' /\ sentinel' # binary'
  BY <1>1 DEF SeedInv, SeedTypeOK
<1>3. ASSUME NEW p \in Seeders PROVE SeederSafe(seeder'[p], binary', heard')
  <2>1. CASE seeder[p] = NotSeeding
    BY <1>1, <2>1 DEF SeederSafe
  <2>2. CASE seeder[p] # NotSeeding
    <3>1. seeder[p].version \in Nat /\ SeederSafe(seeder[p], binary, heard)
      BY <2>2, SeederAtWork, SeedVersions DEF AtWork, SeedInv
    <3> QED BY <1>1, <2>2, <3>1 DEF SeederSafe
  <2> QED BY <2>1, <2>2
<1>4. AloneComplete'
  BY <1>1, <1>2 DEF AloneComplete, SeederAlone
<1> QED BY <1>1, <1>2, <1>3, <1>4 DEF SeedInv

\* No step of the seeding, the amending, the teaching or the upgrading breaks the invariant.
LEMMA SeedKept == SeedInv /\ [SeedNext]_seedVars => SeedInv'
<1> SUFFICES ASSUME SeedInv, [SeedNext]_seedVars PROVE SeedInv'
  OBVIOUS
<1>1. CASE \E p \in Seeders : SeedBegins(p)
  BY <1>1, SeedBeginsSafe
<1>2. CASE \E p \in Seeders : SeedReads(p)
  BY <1>2, SeedReadsSafe
<1>3. CASE \E p \in Seeders : SeedUpserts(p)
  BY <1>3, SeedUpsertsSafe
<1>4. CASE \E p \in Seeders : SeedEnds(p)
  BY <1>4, SeedEndsSafe
<1>5. CASE \E p \in Seeders : SeedStops(p)
  <2>1. PICK p \in Seeders : SeedStops(p)
    BY <1>5
  <2>2. sentinel' \in {0} \cup Versions /\ sentinel' <= binary
        /\ (~mixed /\ sentinel' = binary => AllInstalled(shelf, binary, Len(Seeds[binary])))
    BY <2>1 DEF SeedStops, SeedInv, SeedTypeOK, AloneComplete
  <2>3. seeder' = [seeder EXCEPT ![p] = NotSeeding] /\ UNCHANGED <<shelf, binary, mixed, amends, heard>>
    BY <2>1 DEF SeedStops
  <2> QED BY <2>2, <2>3, SeedStopsSafe
<1>6. CASE \E f \in Families : AmendSeeded(f)
  BY <1>6, AmendSeededSafe
<1>7. CASE \E f \in Families : TeachOwn(f)
  BY <1>7, TeachOwnSafe
<1>8. CASE Upgrade
  BY <1>8, UpgradeSafe
<1>9. CASE UNCHANGED seedVars
  <2>1. UNCHANGED <<shelf, sentinel, seeder, binary, mixed, amends, heard>>
    BY <1>9 DEF seedVars
  <2> QED BY <2>1 DEF SeedInv, SeedTypeOK, SeederSafe, AloneComplete, SeederAlone, AtWork,
                      AllInstalled, InstalledIn, KeptIn, HasMark, EntryOf
<1> QED BY <1>1, <1>2, <1>3, <1>4, <1>5, <1>6, <1>7, <1>8, <1>9 DEF SeedNext

\* Every reachable state of the seeding is well-typed.
THEOREM SeedTypeCorrect == SeedSpec => []SeedTypeOK
<1>1. SeedInv => SeedTypeOK
  BY DEF SeedInv
<1> QED BY <1>1, SeedInitSafe, SeedKept, PTL DEF SeedSpec

\* No seeding of any binary, at any time, overwrites an amendment that it read or that came before
\* its reading.
THEOREM SeedKeepsAmendments == SeedSpec => []AmendKept
  BY SeedAmendKept, SeedInitSafe, SeedKept, PTL DEF SeedSpec

\* The sentinel of the version that is installed vouches for every entry of that version.
THEOREM SeedInstallsAll == SeedSpec => []SeedComplete
  BY SeedIsComplete, SeedInitSafe, SeedKept, PTL DEF SeedSpec

--------------------------------------------------------------------------------
(***************************************************************************)
(* ResourceMirror, for any ids, page size and limits.  The invariant says  *)
(* of a sync at work, as long as it is answered as declared, that what was *)
(* listed all along is on the pages it has read or those still to come.    *)
(***************************************************************************)

(***************************************************************************)
(* Lists of different ids.                                                 *)
(***************************************************************************)

Distinct(list) == \A m, n \in 1 .. Len(list) : list[m] = list[n] => m = n
Beyond(list, offset) == {list[n] : n \in {m \in 1 .. Len(list) : m > offset}}

\* What is assumed of the constants.
LEMMA MirrorConstants ==
  IsFiniteSet(Ids) /\ PageSize \in Nat \ {0} /\ MaxPages \in Nat \ {0} /\ MaxChanges \in Nat
  BY MirrorAssumption

\* What a listing is: its ids in order.
LEMMA ListFields ==
  ASSUME NEW list \in Seq(Ids)
  PROVE  /\ Len(list) \in Nat /\ DOMAIN list = 1 .. Len(list)
         /\ \A n \in 1 .. Len(list) : list[n] \in Ids
         /\ ToSet(list) = {list[n] : n \in 1 .. Len(list)} /\ ToSet(list) \subseteq Ids
         /\ Beyond(list, 0) = ToSet(list)
<1>1. /\ Len(list) \in Nat /\ DOMAIN list = 1 .. Len(list)
      /\ \A n \in 1 .. Len(list) : list[n] \in Ids
  BY LenProperties, ElementOfSeq
<1>2. ToSet(list) = {list[n] : n \in 1 .. Len(list)}
  BY <1>1 DEF ToSet
<1>3. {m \in 1 .. Len(list) : m > 0} = 1 .. Len(list)
  BY <1>1
<1> QED BY <1>1, <1>2, <1>3 DEF Beyond

\* The list of all ids, in any order.
LEMMA AllListed == SetToSeq(Ids) \in Seq(Ids) /\ Distinct(SetToSeq(Ids))
<1> DEFINE n == Cardinality(Ids)
           list == SetToSeq(Ids)
<1>1. n \in Nat /\ ExistsBijection(1 .. n, Ids)
  BY MirrorConstants, FS_CardinalityType
<1>2. \E f \in [1 .. n -> Ids] : IsInjective(f)
  BY <1>1 DEF ExistsBijection, Bijection, Injection
<1>3. list \in [1 .. n -> Ids] /\ IsInjective(list)
  BY <1>2 DEF SetToSeq
<1> HIDE DEF n, list
<1>4. list \in Seq(Ids) /\ DOMAIN list = 1 .. n
  BY <1>1, <1>3, SeqDef
<1>5. Len(list) = n
  BY <1>1, <1>4, LenProperties
<1>6. Distinct(list)
  BY <1>3, <1>4, <1>5 DEF IsInjective, Distinct
<1> QED BY <1>4, <1>6 DEF list

\* An id that is added at either end leaves the list distinct, and moves nothing forward.
LEMMA ListLonger ==
  ASSUME NEW list \in Seq(Ids), Distinct(list), NEW i \in Ids, i \notin ToSet(list),
         NEW new \in {Append(list, i), <<i>> \o list}
  PROVE  /\ new \in Seq(Ids) /\ Distinct(new)
         /\ \A offset \in Nat : Beyond(list, offset) \subseteq Beyond(new, offset)
<1>1. Len(list) \in Nat /\ \A n \in 1 .. Len(list) : list[n] # i
  BY ListFields
<1>2. CASE new = Append(list, i)
  <2>1. /\ new \in Seq(Ids) /\ Len(new) = Len(list) + 1 /\ new[Len(list) + 1] = i
        /\ \A n \in 1 .. Len(list) : new[n] = list[n]
    BY <1>2, AppendProperties
  <2>2. \A n \in 1 .. Len(new) : n \in 1 .. Len(list) \/ n = Len(list) + 1
    BY <1>1, <2>1
  <2>3. \A n \in 1 .. Len(list) : n \in 1 .. Len(new)
    BY <1>1, <2>1
  <2>4. Distinct(new)
    <3> SUFFICES ASSUME NEW m \in 1 .. Len(new), NEW n \in 1 .. Len(new), new[m] = new[n]
                 PROVE  m = n
      BY DEF Distinct
    <3> QED BY <1>1, <2>1, <2>2 DEF Distinct
  <2>5. \A offset \in Nat : Beyond(list, offset) \subseteq Beyond(new, offset)
    BY <2>1, <2>3 DEF Beyond
  <2> QED BY <2>1, <2>4, <2>5
<1>3. CASE new = <<i>> \o list
  <2>1. <<i>> \in Seq(Ids) /\ Len(<<i>>) = 1 /\ <<i>>[1] = i
    BY EmptySeq
  <2> DEFINE one == <<i>>
  <2> HIDE DEF one
  <2>2. /\ new \in Seq(Ids) /\ Len(new) = 1 + Len(list)
        /\ \A n \in 1 .. 1 + Len(list) : new[n] = IF n <= 1 THEN one[n] ELSE list[n - 1]
    BY <1>3, <2>1, ConcatProperties DEF one
  <2>3. new[1] = i /\ \A n \in 1 .. Len(list) : n + 1 \in 1 .. Len(new) /\ new[n + 1] = list[n]
    <3>1. 1 \in 1 .. 1 + Len(list) /\ 1 <= 1 /\ one[1] = i
      BY <1>1, <2>1 DEF one
    <3>2. ASSUME NEW n \in 1 .. Len(list)
          PROVE  n + 1 \in 1 .. 1 + Len(list) /\ ~(n + 1 <= 1) /\ (n + 1) - 1 = n
      BY <1>1
    <3> QED BY <2>2, <3>1, <3>2
  <2>4. \A n \in 1 .. Len(new) : n = 1 \/ (n - 1 \in 1 .. Len(list) /\ new[n] = list[n - 1])
    BY <1>1, <2>2
  <2>5. Distinct(new)
    <3> SUFFICES ASSUME NEW m \in 1 .. Len(new), NEW n \in 1 .. Len(new), new[m] = new[n]
                 PROVE  m = n
      BY DEF Distinct
    <3>1. CASE m = 1 \/ n = 1
      BY <1>1, <2>3, <2>4, <3>1
    <3>2. CASE m # 1 /\ n # 1
      <4>1. m - 1 \in 1 .. Len(list) /\ n - 1 \in 1 .. Len(list) /\ list[m - 1] = list[n - 1]
        BY <2>4, <3>2
      <4>2. m - 1 = n - 1
        BY <4>1 DEF Distinct
      <4> QED BY <1>1, <2>2, <4>2
    <3> QED BY <3>1, <3>2
  <2>6. ASSUME NEW offset \in Nat, NEW x \in Beyond(list, offset) PROVE x \in Beyond(new, offset)
    <3>1. PICK n \in 1 .. Len(list) : n > offset /\ x = list[n]
      BY <2>6 DEF Beyond
    <3>2. n + 1 \in 1 .. Len(new) /\ n + 1 > offset /\ x = new[n + 1]
      BY <1>1, <2>3, <3>1
    <3> QED BY <3>2 DEF Beyond
  <2> QED BY <2>2, <2>5, <2>6
<1> QED BY <1>2, <1>3

\* A list without one of its ids.
LEMMA ListShorter ==
  ASSUME NEW list \in Seq(Ids), Distinct(list), NEW k \in 1 .. Len(list)
  PROVE  RemoveAt(list, k) \in Seq(Ids) /\ Distinct(RemoveAt(list, k))
<1> DEFINE a == SubSeq(list, 1, k - 1)
           b == SubSeq(list, k + 1, Len(list))
           n == Len(list)
<1>1. n \in Nat /\ k \in 1 .. n /\ \A i \in 1 .. n : list[i] \in Ids
  BY ListFields
<1>2. a \in Seq(Ids) /\ Len(a) = k - 1 /\ \A i \in 1 .. k - 1 : a[i] = list[i]
  <2>1. 1 \in Int /\ k - 1 \in Int /\ \A i \in 1 .. k - 1 : list[i] \in Ids
    BY <1>1
  <2>2. a \in Seq(Ids) /\ Len(a) = (IF 1 <= k - 1 THEN (k - 1) - 1 + 1 ELSE 0)
        /\ \A i \in 1 .. (k - 1) - 1 + 1 : a[i] = list[1 + i - 1]
    BY <2>1, SubSeqProperties
  <2> HIDE DEF a
  <2> QED BY <1>1, <2>2
<1>3. b \in Seq(Ids) /\ Len(b) = n - k /\ \A i \in 1 .. n - k : b[i] = list[k + i]
  <2>1. k + 1 \in Int /\ n \in Int /\ \A i \in k + 1 .. n : list[i] \in Ids
    BY <1>1
  <2>2. b \in Seq(Ids) /\ Len(b) = (IF k + 1 <= n THEN n - (k + 1) + 1 ELSE 0)
        /\ \A i \in 1 .. n - (k + 1) + 1 : b[i] = list[(k + 1) + i - 1]
    BY <2>1, SubSeqProperties
  <2> HIDE DEF b, n
  <2>3. Len(b) = n - k
    BY <1>1, <2>2
  <2>4. ASSUME NEW i \in 1 .. n - k PROVE b[i] = list[k + i]
    <3>1. i \in 1 .. n - (k + 1) + 1 /\ (k + 1) + i - 1 = k + i
      BY <1>1
    <3> QED BY <2>2, <3>1
  <2> QED BY <2>2, <2>3, <2>4
<1> HIDE DEF a, b
<1> DEFINE new == a \o b
<1>4. /\ new \in Seq(Ids) /\ Len(new) = n - 1
      /\ \A i \in 1 .. n - 1 : new[i] = IF i <= k - 1 THEN a[i] ELSE b[i - (k - 1)]
  <2>1. /\ new \in Seq(Ids) /\ Len(new) = Len(a) + Len(b)
        /\ \A i \in 1 .. Len(a) + Len(b) : new[i] = IF i <= Len(a) THEN a[i] ELSE b[i - Len(a)]
    BY <1>2, <1>3, ConcatProperties
  <2>2. Len(a) + Len(b) = n - 1
    BY <1>1, <1>2, <1>3
  <2> HIDE DEF new
  <2> QED BY <1>2, <2>1, <2>2
<1> HIDE DEF new, n
\* Where each id stands in the longer list.
<1>5. ASSUME NEW i \in 1 .. n - 1
      PROVE  /\ i < k => i \in 1 .. n /\ new[i] = list[i]
             /\ ~(i < k) => i + 1 \in 1 .. n /\ new[i] = list[i + 1]
  <2>1. CASE i < k
    <3>1. i \in 1 .. k - 1 /\ i <= k - 1 /\ i \in 1 .. n
      BY <1>1, <2>1
    <3> QED BY <1>2, <1>4, <2>1, <3>1
  <2>2. CASE ~(i < k)
    <3>1. i - (k - 1) \in 1 .. n - k /\ ~(i <= k - 1) /\ k + (i - (k - 1)) = i + 1 /\ i + 1 \in 1 .. n
      BY <1>1, <2>2
    <3> QED BY <1>3, <1>4, <2>2, <3>1
  <2> QED BY <2>1, <2>2
<1>6. Distinct(new)
  <2> SUFFICES ASSUME NEW i \in 1 .. n - 1, NEW j \in 1 .. n - 1, new[i] = new[j] PROVE i = j
    BY <1>4 DEF Distinct
  <2>1. \A x, y \in 1 .. n : list[x] = list[y] => x = y
    BY DEF Distinct, n
  <2> QED BY <1>1, <1>5, <2>1
<1> QED BY <1>4, <1>6 DEF new, a, b, n, RemoveAt

\* One page of a list, and what is beyond it.
PageOn(list, offset) ==
  {list[n] : n \in (offset + 1 .. offset + PageSize) \cap DOMAIN list}

\* A page holds what follows its offset, up to the next page, and the last page all of it.
LEMMA PageCovers ==
  ASSUME NEW list \in Seq(Ids), NEW offset \in Nat
  PROVE  /\ PageOn(list, offset) \subseteq Ids
         /\ Beyond(list, offset) \subseteq PageOn(list, offset) \cup Beyond(list, offset + PageSize)
         /\ ~(offset + PageSize < Len(list)) => Beyond(list, offset) \subseteq PageOn(list, offset)
<1>1. Len(list) \in Nat /\ DOMAIN list = 1 .. Len(list) /\ PageSize \in Nat
      /\ \A n \in 1 .. Len(list) : list[n] \in Ids
  BY ListFields, MirrorConstants
<1>2. PageOn(list, offset) \subseteq Ids
  BY <1>1 DEF PageOn
<1>3. ASSUME NEW n \in 1 .. Len(list), n > offset
      PROVE  list[n] \in PageOn(list, offset) \/ n > offset + PageSize
  <2>1. n <= offset + PageSize => n \in (offset + 1 .. offset + PageSize) \cap DOMAIN list
    BY <1>1, <1>3
  <2> QED BY <1>1, <2>1 DEF PageOn
<1>4. Beyond(list, offset) \subseteq PageOn(list, offset) \cup Beyond(list, offset + PageSize)
  BY <1>3 DEF Beyond
<1>5. ASSUME ~(offset + PageSize < Len(list)) PROVE Beyond(list, offset) \subseteq PageOn(list, offset)
  <2>1. \A n \in 1 .. Len(list) : ~(n > offset + PageSize)
    BY <1>1, <1>5
  <2> QED BY <1>3, <2>1 DEF Beyond
<1> QED BY <1>2, <1>4, <1>5

\* A page that is not full is the last one: the ids of a list are distinct.
LEMMA FullPage ==
  ASSUME NEW list \in Seq(Ids), Distinct(list), NEW offset \in Nat, offset + PageSize < Len(list)
  PROVE  Cardinality(PageOn(list, offset)) = PageSize
<1> DEFINE S == offset + 1 .. offset + PageSize
           T == PageOn(list, offset)
           f == [n \in S |-> list[n]]
<1>1. Len(list) \in Nat /\ DOMAIN list = 1 .. Len(list) /\ PageSize \in Nat \ {0}
  BY ListFields, MirrorConstants
<1>2. S \subseteq 1 .. Len(list) /\ T = {list[n] : n \in S}
  <2>1. S \subseteq 1 .. Len(list)
    BY <1>1
  <2>2. S \cap DOMAIN list = S
    BY <1>1, <2>1
  <2> QED BY <2>1, <2>2 DEF PageOn
<1>3. IsFiniteSet(S) /\ Cardinality(S) = PageSize
  <2> DEFINE low == offset + 1
             high == offset + PageSize
  <2>1. low \in Int /\ high \in Int /\ ~(low > high) /\ high - low + 1 = PageSize
    BY <1>1
  <2> HIDE DEF low, high
  <2>2. IsFiniteSet(low .. high) /\ Cardinality(low .. high) = PageSize
    BY <2>1, FS_Interval
  <2> QED BY <2>2 DEF low, high
<1>4. \A m, n \in S : list[m] = list[n] => m = n
  BY <1>2 DEF Distinct
<1> HIDE DEF S, T
<1>5. f \in [S -> T] /\ (\A m, n \in S : f[m] = f[n] => m = n) /\ \A t \in T : \E m \in S : f[m] = t
  BY <1>2, <1>4
<1> HIDE DEF f
<1>6. DOMAIN f = S
  BY <1>5
<1>7. f \in Bijection(S, T)
  BY <1>5, <1>6 DEF Bijection, Injection, Surjection, IsInjective
<1>8. Cardinality(T) = Cardinality(S)
  BY <1>3, <1>7, FS_Bijection DEF ExistsBijection
<1> QED BY <1>3, <1>8 DEF T

(***************************************************************************)
(* The inductive invariant.                                                *)
(***************************************************************************)

\* While the server removes nothing and answers as it is declared to, what it listed at first has
\* been got or is still beyond; an enumeration that is not cut short has got it all.
SyncSafe(s, list) ==
  s # NoSync =>
    /\ s.pc = "sweep" => ~s.cut
    /\ s.steady /\ s.whole /\ s.pc = "page"
         => s.began \subseteq s.got \cup Beyond(list, s.offset)
    /\ s.steady /\ s.whole /\ s.pc # "page" /\ ~s.cut => s.began \subseteq s.got

MirrorInv ==
  /\ MirrorTypeOK
  /\ \A a \in Parents : Distinct(remote[a])
  /\ SyncSafe(sync, remote[sync.parent])

\* At first nothing is mirrored and every list holds different ids.
LEMMA MirrorInitSafe == MirrorInit => MirrorInv
<1> SUFFICES ASSUME MirrorInit PROVE MirrorInv
  OBVIOUS
<1>1. <<>> \in Seq(Ids) /\ Distinct(<<>>)
  BY EmptySeq DEF Distinct
<1> DEFINE all == SetToSeq(Ids)
<1>2. all \in Seq(Ids) /\ Distinct(all)
  BY AllListed
<1> HIDE DEF all
<1>3. remote \in {[a \in Parents |-> <<>>], [a \in Parents |-> all]}
  BY DEF MirrorInit, all
<1>4. remote \in [Parents -> Seq(Ids)] /\ \A a \in Parents : Distinct(remote[a])
  BY <1>1, <1>2, <1>3
<1>5. /\ rows \subseteq Rows /\ lookup \in [Lookups -> SUBSET Rows] /\ changes \in 0 .. MaxChanges
      /\ OneEach(rows) /\ \A p \in Lookups : OneEach(lookup[p])
  BY MirrorConstants DEF MirrorInit, OneEach
<1> QED BY <1>4, <1>5 DEF MirrorInit, MirrorInv, MirrorTypeOK, SyncSafe

\* The fields of a sync that is under way.
LEMMA SyncFields ==
  ASSUME MirrorInv, sync # NoSync
  PROVE  /\ sync \in SyncState /\ sync.parent \in Parents /\ sync.offset \in Nat
         /\ sync.page \in 1 .. MaxPages /\ sync.got \subseteq Ids /\ sync.began \subseteq Ids
         /\ sync.pc \in {"page", "store", "sweep"}
         /\ remote[sync.parent] \in Seq(Ids) /\ Distinct(remote[sync.parent])
         /\ Page = PageOn(remote[sync.parent], sync.offset)
  BY DEF MirrorInv, MirrorTypeOK, SyncState, Page, PageOn

\* The server adds an id at an end of a list it was not on.
LEMMA RemoteAddsSafe ==
  ASSUME MirrorInv, NEW a \in Parents, NEW i \in Ids, RemoteAdds(a, i) PROVE MirrorInv'
<1> DEFINE list == remote[a]
<1>1. PICK new \in {Append(list, i), <<i>> \o list} : remote' = [remote EXCEPT ![a] = new]
  BY DEF RemoteAdds
<1>2. /\ remote \in [Parents -> Seq(Ids)] /\ list \in Seq(Ids) /\ Distinct(list) /\ i \notin ToSet(list)
      /\ UNCHANGED <<rows, sync, lookup>> /\ changes' \in 0 .. MaxChanges
  BY MirrorConstants DEF MirrorInv, MirrorTypeOK, RemoteAdds
<1> HIDE DEF list
<1>3. /\ new \in Seq(Ids) /\ Distinct(new)
      /\ \A offset \in Nat : Beyond(list, offset) \subseteq Beyond(new, offset)
  BY <1>1, <1>2, ListLonger
<1>4. /\ remote' \in [Parents -> Seq(Ids)] /\ remote'[a] = new
      /\ \A b \in Parents : b # a => remote'[b] = remote[b]
  BY <1>1, <1>2, <1>3
<1>5. MirrorTypeOK'
  BY <1>2, <1>4 DEF MirrorInv, MirrorTypeOK
<1>6. \A b \in Parents : Distinct(remote'[b])
  BY <1>3, <1>4 DEF MirrorInv
<1>7. SyncSafe(sync, remote'[sync.parent])
  <2> SUFFICES ASSUME sync # NoSync PROVE SyncSafe(sync, remote'[sync.parent])
    BY DEF SyncSafe
  <2>1. SyncSafe(sync, remote[sync.parent]) /\ sync.parent \in Parents /\ sync.offset \in Nat
    BY SyncFields DEF MirrorInv
  <2>2. Beyond(remote[sync.parent], sync.offset) \subseteq Beyond(remote'[sync.parent], sync.offset)
    BY <1>3, <1>4, <2>1 DEF list
  <2> QED BY <2>1, <2>2 DEF SyncSafe
<1> QED BY <1>2, <1>5, <1>6, <1>7 DEF MirrorInv

\* A sync under way that is not steady any more.
Unsteady(s) == [s EXCEPT !.steady = FALSE]

\* The server removes an id from a list.
LEMMA RemoteRemovesSafe ==
  ASSUME MirrorInv, NEW a \in Parents, NEW n \in 1 .. Len(remote[a]), RemoteRemoves(a, n)
  PROVE  MirrorInv'
<1> DEFINE list == remote[a]
           new == RemoveAt(list, n)
<1>1. /\ remote \in [Parents -> Seq(Ids)] /\ list \in Seq(Ids) /\ Distinct(list)
      /\ n \in 1 .. Len(list) /\ remote' = [remote EXCEPT ![a] = new]
      /\ UNCHANGED <<rows, lookup>> /\ changes' \in 0 .. MaxChanges
      /\ sync' = IF sync # NoSync /\ sync.parent = a THEN Unsteady(sync) ELSE sync
  BY MirrorConstants DEF MirrorInv, MirrorTypeOK, RemoteRemoves, Unsteady
<1> HIDE DEF list
<1>2. new \in Seq(Ids) /\ Distinct(new)
  BY <1>1, ListShorter
<1> HIDE DEF new
<1>3. /\ remote' \in [Parents -> Seq(Ids)] /\ remote'[a] = new
      /\ \A b \in Parents : b # a => remote'[b] = remote[b]
  BY <1>1, <1>2
<1>4. \A b \in Parents : Distinct(remote'[b])
  BY <1>2, <1>3 DEF MirrorInv
<1>5. CASE sync # NoSync /\ sync.parent = a
  <2>1. /\ Unsteady(sync) \in SyncState
        /\ Unsteady(sync).pc = sync.pc /\ Unsteady(sync).cut = sync.cut
    BY <1>5, SyncFields DEF SyncState, Unsteady
  <2>2. ~Unsteady(sync).steady
    BY <1>5, SyncFields DEF SyncState, Unsteady
  <2>3. SyncSafe(sync, remote[sync.parent])
    BY DEF MirrorInv
  <2>4. sync' = Unsteady(sync)
    BY <1>1, <1>5
  <2>5. SyncSafe(sync', remote'[sync'.parent])
    BY <1>5, <2>1, <2>2, <2>3, <2>4 DEF SyncSafe
  <2>6. MirrorTypeOK'
    BY <1>1, <1>3, <2>1, <2>4 DEF MirrorInv, MirrorTypeOK
  <2> QED BY <1>4, <2>5, <2>6 DEF MirrorInv
<1>6. CASE ~(sync # NoSync /\ sync.parent = a)
  <2>1. sync' = sync
    BY <1>1, <1>6
  <2>2. SyncSafe(sync, remote'[sync.parent])
    BY <1>3, <1>6, SyncFields DEF MirrorInv, SyncSafe
  <2>3. MirrorTypeOK'
    BY <1>1, <1>3, <2>1 DEF MirrorInv, MirrorTypeOK
  <2> QED BY <1>4, <2>1, <2>2, <2>3 DEF MirrorInv
<1> QED BY <1>5, <1>6

\* A step of the sync, with the list as it is.
LEMMA SyncFrame ==
  ASSUME MirrorInv, NEW s, sync' = s, s = NoSync \/ s \in SyncState,
         UNCHANGED <<remote, lookup, changes>>, rows' \subseteq Rows, OneEach(rows'),
         SyncSafe(s, remote[s.parent])
  PROVE  MirrorInv'
  BY DEF MirrorInv, MirrorTypeOK

\* A sync of a parent begins.
LEMMA SyncBeginsSafe ==
  ASSUME MirrorInv, NEW a \in Parents, NEW signal \in Signals, SyncBegins(a, signal)
  PROVE  MirrorInv'
<1> DEFINE s == [pc |-> "page", parent |-> a, signal |-> signal, offset |-> 0, page |-> 1, got |-> {},
                 cut |-> FALSE, began |-> ToSet(remote[a]), steady |-> TRUE,
                 whole |-> TRUE]
<1>1. remote[a] \in Seq(Ids) /\ rows \subseteq Rows /\ OneEach(rows)
  BY DEF MirrorInv, MirrorTypeOK
<1>2. ToSet(remote[a]) \subseteq Ids /\ Beyond(remote[a], 0) = ToSet(remote[a])
  BY <1>1, ListFields
<1>3. s \in SyncState
  BY <1>2, MirrorConstants DEF SyncState
<1>4. SyncSafe(s, remote[s.parent])
  BY <1>2 DEF SyncSafe
<1>5. sync' = s /\ UNCHANGED <<rows, remote, lookup, changes>>
  BY DEF SyncBegins
<1> HIDE DEF s
<1> QED BY <1>1, <1>3, <1>4, <1>5, SyncFrame

\* The sync after an answer: with the next page to fetch, or at its end.
GoesOn(s) == [s EXCEPT !.offset = @ + PageSize, !.page = @ + 1]
StopsAt(s, cut) == [s EXCEPT !.pc = "store", !.cut = cut]

\* What a sync becomes when it goes on to the next page, or stops at this one.
LEMMA SyncRecords ==
  ASSUME NEW s \in SyncState, NEW cut \in BOOLEAN
  PROVE  LET u == GoesOn(s)
             v == StopsAt(s, cut) IN
         /\ s.page < MaxPages => u \in SyncState
         /\ u.got = s.got /\ u.offset = s.offset + PageSize /\ u.pc = s.pc
         /\ u.parent = s.parent /\ u.began = s.began /\ u.steady = s.steady /\ u.whole = s.whole
         /\ v \in SyncState /\ v.got = s.got /\ v.pc = "store" /\ v.cut = cut
         /\ v.parent = s.parent /\ v.began = s.began /\ v.steady = s.steady /\ v.whole = s.whole
<1>1. /\ s.offset \in Nat /\ s.page \in 1 .. MaxPages /\ MaxPages \in Nat
      /\ s.offset + PageSize \in Nat
      /\ s.page < MaxPages => s.page + 1 \in 1 .. MaxPages
  BY MirrorConstants DEF SyncState
<1> QED BY <1>1 DEF SyncState, GoesOn, StopsAt

\* What an answer adds to a sync.
LEMMA AnswerRecord ==
  ASSUME MirrorInv, sync # NoSync, NEW items \in {Page, {}}, NEW form \in Forms
  PROVE  LET t == Answered(items, form) IN
         /\ t \in SyncState /\ t.got = sync.got \cup items
         /\ t.whole = (sync.whole /\ items = Page /\ form = "declared")
         /\ t.offset = sync.offset /\ t.page = sync.page /\ t.pc = sync.pc
         /\ t.parent = sync.parent /\ t.began = sync.began /\ t.steady = sync.steady
<1>1. sync \in SyncState /\ items \subseteq Ids
  BY SyncFields, PageCovers
<1>2. sync.whole \in BOOLEAN /\ sync.got \cup items \in SUBSET Ids
  BY <1>1 DEF SyncState
<1>3. PICK got, whole : /\ got = sync.got \cup items
                        /\ whole = (sync.whole /\ items = Page /\ form = "declared")
  OBVIOUS
<1>4. got \in SUBSET Ids /\ whole \in BOOLEAN
  BY <1>2, <1>3
<1>5. Answered(items, form) = [sync EXCEPT !.got = got, !.whole = whole]
  BY <1>3 DEF Answered
<1> QED BY <1>1, <1>3, <1>4, <1>5 DEF SyncState

\* An answer of the declared form says that there is more whenever there is.
LEMMA DeclaredTells ==
  ASSUME MirrorInv, sync # NoSync, ~More(Page, "declared")
  PROVE  ~(sync.offset + PageSize < Len(remote[sync.parent]))
<1>1. CASE sync.signal = "full page"
  <2>1. Cardinality(Page) # PageSize
    BY <1>1 DEF More
  <2> QED BY <2>1, SyncFields, FullPage
<1>2. CASE sync.signal # "full page"
  BY <1>2 DEF More, MoreListed
<1> QED BY <1>1, <1>2

\* A page takes in what it lists; the last page, unless it is a truncation, leaves nothing out.
LEMMA FetchPageSafe == ASSUME MirrorInv, sync # NoSync, FetchPage PROVE MirrorInv'
<1>1. PICK items \in {Page, {}}, form \in Forms, repeated \in BOOLEAN :
        sync' = IF More(items, form) /\ sync.page < MaxPages /\ ~Cut(repeated)
                THEN GoesOn(Answered(items, form))
                ELSE StopsAt(Answered(items, form), More(items, form) /\ Cut(repeated))
  <2>1. PICK items \in {Page, {}},
             form \in IF sync.signal = "full page" THEN {"declared"} ELSE Forms,
             repeated \in IF sync.signal = "cursor" /\ sync.page > 1 THEN BOOLEAN ELSE {FALSE} :
          sync' = IF More(items, form) /\ sync.page < MaxPages /\ ~Cut(repeated)
                  THEN GoesOn(Answered(items, form))
                  ELSE StopsAt(Answered(items, form), More(items, form) /\ Cut(repeated))
    BY Zenon DEF FetchPage, GoesOn, StopsAt
  <2>2. form \in Forms /\ repeated \in BOOLEAN
    BY DEF Forms
  <2> QED BY <2>1, <2>2
<1>2. PICK t, more, list : t = Answered(items, form) /\ more = More(items, form) /\ list = remote[sync.parent]
  OBVIOUS
<1>3. /\ sync \in SyncState /\ sync.offset \in Nat /\ sync.page \in 1 .. MaxPages
      /\ list \in Seq(Ids) /\ Distinct(list) /\ sync.pc = "page"
      /\ Page = PageOn(list, sync.offset) /\ rows \subseteq Rows /\ OneEach(rows)
      /\ UNCHANGED <<rows, remote, lookup, changes>>
      /\ sync.steady /\ sync.whole => sync.began \subseteq sync.got \cup Beyond(list, sync.offset)
  <2>1. /\ sync \in SyncState /\ sync.offset \in Nat /\ sync.page \in 1 .. MaxPages
        /\ list \in Seq(Ids) /\ Distinct(list) /\ Page = PageOn(list, sync.offset)
    BY <1>2, SyncFields
  <2>2. sync.pc = "page" /\ UNCHANGED <<rows, remote, lookup, changes>>
    BY DEF FetchPage
  <2>3. rows \subseteq Rows /\ OneEach(rows) /\ SyncSafe(sync, list)
    BY <1>2 DEF MirrorInv, MirrorTypeOK
  <2> QED BY <2>1, <2>2, <2>3 DEF SyncSafe
<1>4. Page \subseteq Ids /\ Beyond(list, sync.offset) \subseteq Page \cup Beyond(list, sync.offset + PageSize)
  BY <1>3, PageCovers
<1>5. /\ t \in SyncState /\ t.offset = sync.offset /\ t.page = sync.page /\ t.pc = "page"
      /\ t.parent = sync.parent /\ t.began = sync.began /\ t.steady = sync.steady
      /\ t.got = sync.got \cup items
      /\ t.whole = (sync.whole /\ items = Page /\ form = "declared")
  BY <1>2, <1>3, AnswerRecord
<1>6. t.whole => /\ sync.whole /\ t.got = sync.got \cup Page
                 /\ ~more => Beyond(list, sync.offset) \subseteq Page
  <2> SUFFICES ASSUME t.whole PROVE /\ sync.whole /\ t.got = sync.got \cup Page
                                    /\ ~more => Beyond(list, sync.offset) \subseteq Page
    OBVIOUS
  <2>1. sync.whole /\ items = Page /\ form = "declared" /\ t.got = sync.got \cup Page
    BY <1>5
  <2>2. ~more => ~(sync.offset + PageSize < Len(list))
    BY <1>2, <2>1, DeclaredTells
  <2> QED BY <1>3, <2>1, <2>2, PageCovers
<1>7. CASE more /\ sync.page < MaxPages /\ ~Cut(repeated)
  <2>1. PICK s : s = GoesOn(t)
    OBVIOUS
  <2>2. sync' = s
    BY <1>1, <1>2, <1>7, <2>1
  <2>3. /\ s \in SyncState /\ s.got = t.got /\ s.offset = sync.offset + PageSize /\ s.pc = "page"
        /\ s.parent = sync.parent /\ s.began = sync.began /\ s.steady = sync.steady
        /\ s.whole = t.whole
    BY <1>5, <1>7, <2>1, SyncRecords
  <2>4. SyncSafe(s, remote[s.parent])
    BY <1>2, <1>3, <1>4, <1>6, <2>3 DEF SyncSafe
  <2> QED BY <1>3, <2>2, <2>3, <2>4, SyncFrame
<1>8. CASE ~(more /\ sync.page < MaxPages /\ ~Cut(repeated))
  <2>1. PICK cut : cut = (more /\ Cut(repeated))
    OBVIOUS
  <2>2. cut \in BOOLEAN /\ (~cut => ~more)
    <3>1. Cut(repeated) \in BOOLEAN /\ (~Cut(repeated) => sync.page # MaxPages)
      BY DEF Cut
    <3>2. sync.page # MaxPages => sync.page < MaxPages
      BY <1>3, MirrorConstants
    <3>3. more \in BOOLEAN
      BY <1>2 DEF More, MoreListed
    <3> QED BY <1>8, <2>1, <3>1, <3>2, <3>3
  <2>3. PICK s : s = StopsAt(t, cut)
    OBVIOUS
  <2>4. sync' = s
    BY <1>1, <1>2, <1>8, <2>1, <2>3
  <2>5. /\ s \in SyncState /\ s.got = t.got /\ s.pc = "store" /\ s.cut = cut
        /\ s.parent = sync.parent /\ s.began = sync.began /\ s.steady = sync.steady
        /\ s.whole = t.whole
    BY <1>5, <2>2, <2>3, SyncRecords
  <2>6. SyncSafe(s, remote[s.parent])
    BY <1>3, <1>6, <2>2, <2>5 DEF SyncSafe
  <2> QED BY <1>3, <2>4, <2>5, <2>6, SyncFrame
<1> QED BY <1>7, <1>8

\* A batch that is stored leaves one row an id, and no id without a row.
LEMMA UpsertKeeps ==
  ASSUME rows \subseteq Rows, OneEach(rows), NEW new \in SUBSET Rows, OneEach(new)
  PROVE  /\ Replaced(new) \subseteq Rows /\ OneEach(Replaced(new))
         /\ IdsOf(rows) \subseteq IdsOf(Replaced(new))
<1>1. Replaced(new) \subseteq Rows
  BY DEF Replaced
<1>2. OneEach(Replaced(new))
  BY DEF Replaced, OneEach, IdsOf
<1>3. IdsOf(rows) \subseteq IdsOf(Replaced(new))
  BY DEF Replaced, IdsOf
<1> QED BY <1>1, <1>2, <1>3

\* What a sync stores.
LEMMA SyncBatch ==
  ASSUME MirrorInv, sync # NoSync
  PROVE  sync.got \X {sync.parent} \subseteq Rows /\ OneEach(sync.got \X {sync.parent})
  BY SyncFields DEF Rows, OneEach

Sweeping(s) == [s EXCEPT !.pc = "sweep"]

\* A sync stores what it got, and sweeps if it was not cut short.
LEMMA SyncStoresSafe == ASSUME MirrorInv, sync # NoSync, SyncStores PROVE MirrorInv'
<1>1. /\ sync \in SyncState /\ sync.pc = "store" /\ sync.parent \in Parents /\ sync.got \subseteq Ids
      /\ UNCHANGED <<remote, lookup, changes>> /\ rows' \subseteq Rows /\ OneEach(rows')
      /\ sync' = IF sync.cut THEN NoSync ELSE Sweeping(sync)
      /\ SyncSafe(sync, remote[sync.parent])
  BY SyncFields, SyncBatch, UpsertKeeps DEF SyncStores, MirrorInv, MirrorTypeOK, Sweeping
<1>2. CASE sync.cut
  BY <1>1, <1>2, SyncFrame DEF SyncSafe
<1>3. CASE ~sync.cut
  <2> DEFINE s == Sweeping(sync)
  <2>1. /\ s \in SyncState /\ s.pc = "sweep" /\ s.cut = sync.cut /\ s.got = sync.got
        /\ s.began = sync.began /\ s.steady = sync.steady /\ s.whole = sync.whole
        /\ s.parent = sync.parent
    BY <1>1 DEF SyncState, Sweeping
  <2> HIDE DEF s
  <2>2. SyncSafe(s, remote[s.parent])
    BY <1>1, <1>3, <2>1 DEF SyncSafe
  <2>3. sync' = s
    BY <1>1, <1>3 DEF s
  <2> QED BY <1>1, <2>1, <2>2, <2>3, SyncFrame
<1> QED BY <1>2, <1>3

\* Its end, whether it swept or not.
LEMMA SyncOver ==
  ASSUME MirrorInv, sync' = NoSync, UNCHANGED <<remote, lookup, changes>>, rows' \subseteq rows
  PROVE  MirrorInv'
  BY DEF MirrorInv, MirrorTypeOK, SyncSafe, OneEach

\* A lookup of one id, and the row it writes through.
LEMMA LookupSafe ==
  ASSUME MirrorInv, NEW p \in Lookups, LookupAnswered(p) \/ WriteThrough(p) PROVE MirrorInv'
<1>1. UNCHANGED <<remote, sync, changes>>
  BY DEF LookupAnswered, WriteThrough
<1>2. /\ rows \subseteq Rows /\ lookup \in [Lookups -> SUBSET Rows] /\ remote \in [Parents -> Seq(Ids)]
      /\ OneEach(rows) /\ \A q \in Lookups : OneEach(lookup[q])
  BY DEF MirrorInv, MirrorTypeOK
<1>3. CASE LookupAnswered(p)
  <2>1. ASSUME NEW a \in Parents PROVE Listed(a) \subseteq Rows /\ OneEach(Listed(a))
    <3>1. ToSet(remote[a]) \subseteq Ids
      BY <1>2, ListFields
    <3>2. \A r \in Listed(a) : r \in Rows /\ r = <<r[1], a>>
      BY <3>1 DEF Listed, Rows
    <3> QED BY <3>2 DEF OneEach
  <2>2. PICK answer : lookup' = [lookup EXCEPT ![p] = answer] /\ answer \subseteq Rows /\ OneEach(answer)
    <3>1. PICK a \in Parents : \E answer \in {Listed(a)} \cup {{r} : r \in Listed(a)} :
                                 lookup' = [lookup EXCEPT ![p] = answer]
      BY <1>3 DEF LookupAnswered
    <3>2. \A r \in Listed(a) : {r} \subseteq Rows /\ OneEach({r})
      BY <2>1 DEF OneEach
    <3> QED BY <2>1, <3>1, <3>2
  <2>3. /\ lookup' \in [Lookups -> SUBSET Rows] /\ rows' = rows
        /\ \A q \in Lookups : OneEach(lookup'[q])
    BY <1>2, <1>3, <2>2 DEF LookupAnswered
  <2> QED BY <1>1, <2>3 DEF MirrorInv, MirrorTypeOK
<1>4. CASE WriteThrough(p)
  <2>1. rows' \subseteq Rows /\ OneEach(rows')
    BY <1>2, <1>4, UpsertKeeps DEF WriteThrough
  <2>2. /\ lookup' \in [Lookups -> SUBSET Rows]
        /\ \A q \in Lookups : OneEach(lookup'[q])
    BY <1>2, <1>4 DEF WriteThrough, OneEach
  <2> QED BY <1>1, <2>1, <2>2 DEF MirrorInv, MirrorTypeOK
<1> QED BY <1>3, <1>4

\* Every step of the server, the sync and the lookups keeps the invariant.
LEMMA MirrorKept == MirrorInv /\ [MirrorNext]_mirrorVars => MirrorInv'
<1> SUFFICES ASSUME MirrorInv, [MirrorNext]_mirrorVars PROVE MirrorInv'
  OBVIOUS
<1>0. NoSync.pc = "idle"
  BY DEF NoSync
<1>1. CASE \E a \in Parents, i \in Ids : RemoteAdds(a, i)
  BY <1>1, RemoteAddsSafe
<1>2. CASE \E a \in Parents : \E n \in 1 .. Len(remote[a]) : RemoteRemoves(a, n)
  BY <1>2, RemoteRemovesSafe
<1>3. CASE \E a \in Parents, signal \in Signals : SyncBegins(a, signal)
  BY <1>3, SyncBeginsSafe
<1>4. CASE \E p \in Lookups : LookupAnswered(p) \/ WriteThrough(p)
  BY <1>4, LookupSafe
<1>5. CASE FetchPage
  <2>1. sync # NoSync
    BY <1>0, <1>5 DEF FetchPage
  <2> QED BY <1>5, <2>1, FetchPageSafe
<1>6. CASE SyncStores
  <2>1. sync # NoSync
    BY <1>0, <1>6 DEF SyncStores
  <2> QED BY <1>6, <2>1, SyncStoresSafe
<1>7. CASE Sweep
  BY <1>7, SyncOver DEF Sweep
<1>8. CASE SyncStops
  BY <1>8, SyncOver DEF SyncStops
<1>9. CASE UNCHANGED mirrorVars
  BY <1>9 DEF mirrorVars, MirrorInv, MirrorTypeOK, SyncSafe
<1> QED BY <1>1, <1>2, <1>3, <1>4, <1>5, <1>6, <1>7, <1>8, <1>9 DEF MirrorNext

\* Only a sweep takes rows away, and what it takes was not got.
LEMMA SweepSpares ==
  ASSUME MirrorInv, [MirrorNext]_mirrorVars, NEW i \in IdsOf(rows) \ IdsOf(rows'),
         sync.steady, sync.whole
  PROVE  i \notin sync.began
<1>1. CASE Sweep
  <2>1. PICK r \in rows : r[1] = i /\ r \notin rows'
    BY DEF IdsOf
  <2>2. i \notin sync.got /\ sync.pc = "sweep"
    BY <1>1, <2>1 DEF Sweep, Victims
  <2>3. sync # NoSync
    BY <2>2 DEF NoSync
  <2>4. sync.began \subseteq sync.got
    BY <2>2, <2>3 DEF MirrorInv, SyncSafe
  <2> QED BY <2>2, <2>4
<1>2. CASE rows' = rows
  BY <1>2
<1>3. CASE SyncStores
  <2>1. sync # NoSync
    BY <1>3 DEF SyncStores, NoSync
  <2>2. IdsOf(rows) \subseteq IdsOf(rows')
    BY <1>3, <2>1, SyncBatch, UpsertKeeps DEF SyncStores, MirrorInv, MirrorTypeOK
  <2> QED BY <2>2
<1>4. ASSUME NEW p \in Lookups, WriteThrough(p) PROVE FALSE
  <2>1. lookup[p] \in SUBSET Rows /\ OneEach(lookup[p]) /\ rows \subseteq Rows /\ OneEach(rows)
    BY DEF MirrorInv, MirrorTypeOK
  <2>2. IdsOf(rows) \subseteq IdsOf(rows')
    BY <1>4, <2>1, UpsertKeeps DEF WriteThrough
  <2> QED BY <2>2
<1> QED BY <1>1, <1>2, <1>3, <1>4 DEF MirrorNext, mirrorVars, RemoteAdds, RemoteRemoves,
          SyncBegins, LookupAnswered, FetchPage, SyncStops

\* Every reachable state of the mirror is well-typed.
THEOREM MirrorTypeCorrect == MirrorSpec => []MirrorTypeOK
<1>1. MirrorInv => MirrorTypeOK
  BY DEF MirrorInv
<1> QED BY <1>1, MirrorInitSafe, MirrorKept, PTL DEF MirrorSpec

\* A sweep spares what the parent it sweeps listed all along, for any page size, page limit, list
\* and number of readers that write through, as long as the answers are of their declared form.
THEOREM MirrorSparesListed == MirrorSpec => SweepSparesListed
<1>1. MirrorInv /\ [MirrorNext]_mirrorVars
        => [\A i \in IdsOf(rows) \ IdsOf(rows') :
              sync.steady /\ sync.whole => i \notin sync.began]_mirrorVars
  BY SweepSpares
<1> QED BY <1>1, MirrorInitSafe, MirrorKept, PTL DEF MirrorSpec, SweepSparesListed

--------------------------------------------------------------------------------
(***************************************************************************)
(* Learned, for any words and any number of teachers and questions.        *)
(***************************************************************************)

(***************************************************************************)
(* What was taught is recalled.                                            *)
(***************************************************************************)

\* What the words of a query were, by the lookups of some time.
ResolveIn(w, L) == {row[2] : row \in {r \in L : w \in {r[1], r[2]}}}
EntitiesIn(q, L) == q.caps \cup {w \in q.plain : ResolveIn(w, L) # {}}

\* A row is as teach made it: confirming it changes its confidence only.
AsTaught(row) ==
  /\ row.pattern = PatternOf(row.by)
  /\ row.entities = EntitiesIn(row.by, row.seen)
  /\ row.seen \subseteq lookups

LearnedInv ==
  /\ LearnedTypeOK
  /\ teacher \in [Teachers -> TeacherState \cup {Idle}]
  /\ \A row \in learned : AsTaught(row)
  /\ \A p \in Teachers : teacher[p] # Idle => AsTaught(teacher[p].row)

\* The constants, one fact at a time.
LEMMA LearnedConstants ==
  /\ IsFiniteSet(Words) /\ Odd \subseteq Words /\ \A w \in Odd : <<w>> \notin Words
  /\ Dropped \subseteq Words \ Odd
  /\ MaxLearned \in Nat /\ Questions \subseteq Queries /\ Answers \subseteq Resources
  BY LearnedAssumption

\* Now, they are those of the lookups of now.
LEMMA EntitiesNow == \A q : Entities(q) = EntitiesIn(q, lookups)
  BY DEF Entities, EntitiesIn, Resolve, ResolveIn

\* The words of a query.
LEMMA QueryFields ==
  ASSUME NEW q \in Queries
  PROVE  /\ q.caps \subseteq Words /\ q.plain \subseteq Words /\ WordsOf(q) \subseteq Words
         /\ WordsOf(q) # {} /\ PatternOf(q) \subseteq Tokens
         /\ \A L : EntitiesIn(q, L) \subseteq WordsOf(q) /\ q.caps \subseteq EntitiesIn(q, L)
  BY DEF Queries, WordsOf, PatternOf, Tokens, EntitiesIn

\* What a row of the table is made of.
LEMMA RowFields ==
  ASSUME NEW row \in LearnedRow
  PROVE  /\ row.pattern \subseteq Tokens /\ row.entities \subseteq Words
         /\ row.resource \in Resources /\ row.confidence \in Nat /\ row.by \in Queries
         /\ row.seen \subseteq Words \X Words
         /\ [row EXCEPT !.confidence = @ + 1] \in LearnedRow
         /\ [row EXCEPT !.confidence = @ + 1].pattern = row.pattern
         /\ [row EXCEPT !.confidence = @ + 1].entities = row.entities
         /\ [row EXCEPT !.confidence = @ + 1].by = row.by
         /\ [row EXCEPT !.confidence = @ + 1].seen = row.seen
  BY DEF LearnedRow

\* Nothing is taught at the start.
LEMMA LearnedInitSafe == LearnedInit => LearnedInv
<1> SUFFICES ASSUME LearnedInit PROVE LearnedInv
  OBVIOUS
<1>1. learned = {} /\ lookups = {} /\ inferred = {} /\ synced \subseteq Resources
  BY LearnedConstants DEF LearnedInit
<1>2. teacher = [p \in Teachers |-> Idle] /\ taught \in 0 .. MaxLearned
  BY LearnedConstants DEF LearnedInit
<1> QED BY <1>1, <1>2 DEF LearnedInv, LearnedTypeOK

\* Rows stay as taught while the lookups grow.
LEMMA StaysTaught ==
  ASSUME lookups \subseteq lookups', NEW row, AsTaught(row)
  PROVE  AsTaught(row)'
  BY DEF AsTaught, PatternOf, EntitiesIn, ResolveIn, WordsOf, Token

\* The tables change under the teachers.
LEMMA TablesSafe ==
  ASSUME LearnedInv, UNCHANGED <<teacher, taught, synced>>, learned' \subseteq learned,
         lookups \subseteq lookups', lookups' \subseteq Words \X Words, inferred' \subseteq Pattern
  PROVE  LearnedInv'
<1>1. LearnedTypeOK'
  BY DEF LearnedInv, LearnedTypeOK
<1>2. \A row \in learned' : AsTaught(row)'
  BY StaysTaught DEF LearnedInv
<1>3. \A p \in Teachers : teacher'[p] # Idle => AsTaught(teacher[p].row)'
  BY StaysTaught DEF LearnedInv
<1> QED BY <1>1, <1>2, <1>3 DEF LearnedInv

\* teach begins, with what it works out of the lookups.
LEMMA BeginsSafe ==
  ASSUME LearnedInv, NEW p \in Teachers, NEW q \in Questions, NEW r \in Answers, TeachBegins(p, q, r)
  PROVE  LearnedInv'
<1> DEFINE made == [pattern |-> PatternOf(q), entities |-> TeachEntities(q), resource |-> r,
                    confidence |-> 2, by |-> q, seen |-> lookups]
<1>1. /\ UNCHANGED <<learned, lookups, inferred, synced>> /\ taught' \in 0 .. MaxLearned
      /\ teacher' = [teacher EXCEPT ![p] = [pc |-> "promoted", row |-> made]]
  BY LearnedConstants DEF TeachBegins, LearnedInv, LearnedTypeOK
<1>2. q \in Queries /\ r \in Resources /\ lookups \subseteq Words \X Words
  BY LearnedConstants DEF LearnedInv, LearnedTypeOK
<1>3. TeachEntities(q) = EntitiesIn(q, lookups)
  BY EntitiesNow DEF TeachEntities
<1>4. PatternOf(q) \in SUBSET Tokens /\ TeachEntities(q) \in SUBSET Words
  BY <1>2, <1>3, QueryFields
<1>5. made \in LearnedRow /\ AsTaught(made)
  BY <1>2, <1>3, <1>4 DEF LearnedRow, AsTaught
<1> HIDE DEF made
<1>6. PICK row \in LearnedRow : row = made /\ AsTaught(row)
  BY <1>5
<1> DEFINE new == [pc |-> "promoted", row |-> row]
<1>7. new \in TeacherState /\ new.row = row /\ teacher' = [teacher EXCEPT ![p] = new]
  BY <1>1, <1>6 DEF TeacherState
<1> HIDE DEF new
<1>8. teacher' \in [Teachers -> TeacherState \cup {Idle}]
  BY <1>7 DEF LearnedInv
<1>9. LearnedTypeOK'
  BY <1>1, <1>8 DEF LearnedInv, LearnedTypeOK
<1>10. \A s : AsTaught(s) => AsTaught(s)'
  BY <1>1, StaysTaught
<1>11. ASSUME NEW o \in Teachers, teacher'[o] # Idle PROVE AsTaught(teacher[o].row)'
  <2>1. CASE o = p
    <3>1. teacher'[o].row = row
      BY <1>7, <2>1 DEF LearnedInv
    <3>2. AsTaught(row)'
      BY <1>6, <1>10
    <3> QED BY <3>1, <3>2 DEF AsTaught
  <2>2. CASE o # p
    <3>1. teacher'[o] = teacher[o]
      BY <1>7, <2>2 DEF LearnedInv
    <3>2. AsTaught(teacher[o].row)
      BY <1>11, <3>1 DEF LearnedInv
    <3> QED BY <1>1, <3>1, <3>2 DEF AsTaught
  <2> QED BY <2>1, <2>2
<1>12. \A s \in learned' : AsTaught(s)'
  BY <1>1, <1>10 DEF LearnedInv
<1> QED BY <1>8, <1>9, <1>11, <1>12 DEF LearnedInv

\* The row is filed, or the one that is there confirmed.
LEMMA FilesSafe ==
  ASSUME LearnedInv, NEW p \in Teachers, TeachFiles(p)
  PROVE  LearnedInv'
<1>1. UNCHANGED <<lookups, inferred, synced, taught>> /\ teacher' = [teacher EXCEPT ![p].pc = "filed"]
  BY DEF TeachFiles
<1>2. /\ teacher[p].pc = "promoted" /\ teacher[p] # Idle /\ teacher[p] \in TeacherState
      /\ AsTaught(teacher[p].row)
  BY DEF TeachFiles, LearnedInv, Idle
<1>3. PICK new \in LearnedRow : new = teacher[p].row /\ AsTaught(new)
  BY <1>2 DEF TeacherState
<1>4. learned \subseteq LearnedRow /\ \A row \in learned : AsTaught(row)
  BY DEF LearnedInv, LearnedTypeOK
<1>5. ASSUME NEW row \in learned'
      PROVE  row \in learned \cup {new} \/ \E old \in learned : row = [old EXCEPT !.confidence = @ + 1]
  BY <1>3, <1>5 DEF TeachFiles
<1>6. ASSUME NEW row \in learned' PROVE row \in LearnedRow /\ AsTaught(row)
  <2>1. CASE row \in learned \cup {new}
    BY <1>3, <1>4, <2>1
  <2>2. CASE \E old \in learned : row = [old EXCEPT !.confidence = @ + 1]
    <3>1. PICK old \in learned : row = [old EXCEPT !.confidence = @ + 1]
      BY <2>2
    <3>2. /\ row \in LearnedRow /\ row.pattern = old.pattern /\ row.entities = old.entities
          /\ row.by = old.by /\ row.seen = old.seen
      BY <1>4, <3>1, RowFields
    <3> QED BY <1>4, <3>2 DEF AsTaught
  <2> QED BY <1>5, <2>1, <2>2
<1>7. \A s : AsTaught(s) => AsTaught(s)'
  BY <1>1, StaysTaught
<1>8. \A row \in learned' : AsTaught(row)'
  BY <1>6, <1>7
<1>9. teacher'[p].row = teacher[p].row /\ \A o \in Teachers : o # p => teacher'[o] = teacher[o]
  BY <1>1, <1>2 DEF LearnedInv, TeacherState
<1>10. teacher' \in [Teachers -> TeacherState \cup {Idle}]
  <2>1. [teacher[p] EXCEPT !.pc = "filed"] \in TeacherState
    BY <1>2 DEF TeacherState
  <2> QED BY <1>1, <2>1 DEF LearnedInv
<1>11. ASSUME NEW o \in Teachers, teacher'[o] # Idle PROVE AsTaught(teacher[o].row)'
  <2>1. CASE o = p
    <3>1. teacher'[o].row = new
      BY <1>3, <1>9, <2>1
    <3>2. AsTaught(new)'
      BY <1>3, <1>7
    <3> QED BY <3>1, <3>2 DEF AsTaught
  <2>2. CASE o # p
    <3>1. teacher'[o] = teacher[o]
      BY <1>9, <2>2
    <3>2. AsTaught(teacher[o].row)
      BY <1>11, <3>1 DEF LearnedInv
    <3> QED BY <1>1, <3>1, <3>2 DEF AsTaught
  <2> QED BY <2>1, <2>2
<1>12. LearnedTypeOK'
  BY <1>1, <1>6, <1>10 DEF LearnedInv, LearnedTypeOK
<1> QED BY <1>8, <1>10, <1>11, <1>12 DEF LearnedInv

\* The patterns inferred are patterns.
LEMMA InferredTyped == LearnedInv => Inferable \subseteq Pattern
<1> SUFFICES ASSUME LearnedInv, NEW row \in learned
             PROVE  [query |-> Shape(row), stem |-> row.resource.stem] \in Pattern
  BY DEF Inferable
<1>1. row \in LearnedRow
  BY DEF LearnedInv, LearnedTypeOK
<1>2. row.pattern \subseteq Tokens /\ row.resource \in Resources
  BY <1>1, RowFields
<1>3. Shape(row) \in SUBSET Tokens /\ row.resource.stem \in Stems
  BY <1>2 DEF Shape, Resources
<1> QED BY <1>3 DEF Pattern

\* A teach ends, with the patterns or without.
LEMMA EndsSafe ==
  ASSUME LearnedInv, NEW p \in Teachers, TeachInfers(p) \/ TeachStops(p)
  PROVE  LearnedInv'
<1>1. UNCHANGED <<learned, lookups, synced, taught>> /\ teacher' = [teacher EXCEPT ![p] = Idle]
  BY DEF TeachInfers, TeachStops
<1>2. inferred' \subseteq Pattern
  BY InferredTyped DEF TeachInfers, TeachStops, LearnedInv, LearnedTypeOK
<1>3. teacher' \in [Teachers -> TeacherState \cup {Idle}]
  BY <1>1 DEF LearnedInv
<1>4. ASSUME NEW o \in Teachers, teacher'[o] # Idle PROVE AsTaught(teacher[o].row)'
  <2>1. teacher'[o] = teacher[o]
    BY <1>1, <1>4 DEF LearnedInv
  <2>2. AsTaught(teacher[o].row)
    BY <1>4, <2>1 DEF LearnedInv
  <2> QED BY <1>1, <2>1, <2>2 DEF AsTaught
<1>5. \A row \in learned' : AsTaught(row)'
  BY <1>1 DEF LearnedInv, AsTaught
<1>6. LearnedTypeOK'
  BY <1>1, <1>2, <1>3 DEF LearnedInv, LearnedTypeOK
<1> QED BY <1>3, <1>4, <1>5, <1>6 DEF LearnedInv

\* Every step preserves the invariant.
LEMMA LearnedKept == LearnedInv /\ [LearnedNext]_learnedVars => LearnedInv'
<1> SUFFICES ASSUME LearnedInv, [LearnedNext]_learnedVars PROVE LearnedInv'
  OBVIOUS
<1>1. learned \subseteq LearnedRow /\ lookups \subseteq Words \X Words /\ inferred \subseteq Pattern
  BY DEF LearnedInv, LearnedTypeOK
<1>2. CASE \E p \in Teachers, q \in Questions, r \in Answers : TeachBegins(p, q, r)
  BY <1>2, BeginsSafe
<1>3. CASE \E p \in Teachers : TeachFiles(p)
  BY <1>3, FilesSafe
<1>4. CASE \E p \in Teachers : TeachInfers(p) \/ TeachStops(p)
  BY <1>4, EndsSafe
<1>5. CASE \E v, c \in Words : TeachLookup(v, c)
  BY <1>1, <1>5, TablesSafe DEF TeachLookup
<1>6. CASE \E words \in SUBSET Words, stem \in Stems : TeachPattern(words, stem)
  <2>1. PICK words \in SUBSET Words, stem \in Stems : TeachPattern(words, stem)
    BY <1>6
  <2>2. UNCHANGED <<learned, lookups, synced, teacher, taught>>
    BY <2>1 DEF TeachPattern
  <2>3. inferred' \subseteq Pattern
    BY <2>1 DEF TeachPattern, Pattern, Tokens
  <2> QED BY <1>1, <2>2, <2>3, TablesSafe
<1>7. CASE \E row \in learned, resources \in {Resources} \cup {{r} : r \in Resources} :
             Forget(row.by, resources)
  BY <1>1, <1>7, TablesSafe DEF Forget
<1>8. CASE UNCHANGED learnedVars
  BY <1>1, <1>8, TablesSafe DEF learnedVars
<1> QED BY <1>2, <1>3, <1>4, <1>5, <1>6, <1>7, <1>8 DEF LearnedNext

(***************************************************************************)
(* What recall makes of a row.                                             *)
(***************************************************************************)

\* A set that is not empty overlaps with itself.
LEMMA OverlapsItself ==
  ASSUME NEW A \in SUBSET Words, A # {}
  PROVE  Overlap(A, A, 6)
<1>1. IsFiniteSet(A)
  BY LearnedConstants, FS_Subset
<1>2. Cardinality(A) \in Nat
  BY <1>1, FS_CardinalityType
<1>3. A \cap A = A /\ A \cup A = A
  OBVIOUS
<1>4. 10 * Cardinality(A) >= 6 * Cardinality(A)
  BY <1>2
<1> QED BY <1>3, <1>4 DEF Overlap

\* The entities of a row are words of the query it was taught for, also when recall has to find
\* them in its pattern.
LEMMA StoredAreWords ==
  ASSUME LearnedInv, NEW row \in learned
  PROVE  StoredEntities(row) \subseteq WordsOf(row.by)
<1>1. row \in LearnedRow /\ AsTaught(row)
  BY DEF LearnedInv, LearnedTypeOK
<1>2. row.by \in Queries
  BY <1>1, RowFields
<1>3. row.entities \subseteq WordsOf(row.by)
  BY <1>1, <1>2, QueryFields DEF AsTaught
<1>4. ASSUME NEW w \in Words \ Odd, w \in row.pattern PROVE w \in WordsOf(row.by)
  <2>1. PICK v \in WordsOf(row.by) : w = Token(v)
    BY <1>1, <1>4 DEF AsTaught, PatternOf
  <2>2. v \notin Odd
    BY <2>1, LearnedConstants DEF Token
  <2> QED BY <2>1, <2>2 DEF Token
<1> QED BY <1>3, <1>4 DEF StoredEntities

\* Asked with the lookups it was taught with, a query whose words the pattern keeps, the
\* capitalized ones aside, has the entities and the other words of its row.
LEMMA Symmetric ==
  ASSUME LearnedInv, NEW row \in learned, row.seen = lookups, WordsOf(row.by) \cap Odd = {},
         row.by.plain \cap Dropped = {}
  PROVE  /\ StoredEntities(row) = Entities(row.by)
         /\ StoredNonEntities(row) = NonEntities(row.by)
         /\ Entities(row.by) \cup NonEntities(row.by) = WordsOf(row.by)
<1> DEFINE q == row.by
<1>1. row \in LearnedRow /\ AsTaught(row)
  BY DEF LearnedInv, LearnedTypeOK
<1>2. q \in Queries
  BY <1>1, RowFields
<1>3. row.pattern = WordsOf(q) \ Dropped
  <2>1. \A w \in WordsOf(q) : Token(w) = w
    BY DEF Token
  <2> QED BY <1>1, <2>1 DEF AsTaught, PatternOf
<1>4. row.entities = Entities(q)
  BY <1>1, EntitiesNow DEF AsTaught
<1>5. q.caps \subseteq Entities(q) /\ Entities(q) \subseteq WordsOf(q) /\ WordsOf(q) = q.caps \cup q.plain
  BY <1>2, QueryFields, EntitiesNow DEF WordsOf
<1>6. StoredEntities(row) = Entities(q)
  <2>1. CASE Entities(q) # {}
    BY <1>4, <2>1 DEF StoredEntities
  <2>2. CASE Entities(q) = {}
    <3>1. \A w \in WordsOf(q) : Resolve(w) = {}
      BY <1>5, <2>2 DEF Entities
    <3> QED BY <1>3, <1>4, <2>2, <3>1 DEF StoredEntities
  <2> QED BY <2>1, <2>2
<1>7. StoredNonEntities(row) = NonEntities(q)
  <2>1. row.pattern \ Entities(q) = q.plain \ Entities(q)
    BY <1>3, <1>5
  <2> QED BY <1>6, <2>1 DEF StoredNonEntities, NonEntities
<1> QED BY <1>5, <1>6, <1>7 DEF NonEntities

\* So it finds the row, and does not take it for another question's.
LEMMA LearnedFound ==
  ASSUME LearnedInv, NEW row \in learned, row.seen = lookups, WordsOf(row.by) \cap Odd = {},
         row.by.plain \cap Dropped = {}
  PROVE  HitOf(row.by, row) \in Hits(row.by)
<1> DEFINE q == row.by
<1>1. /\ StoredEntities(row) = Entities(q) /\ StoredNonEntities(row) = NonEntities(q)
      /\ Entities(q) \cup NonEntities(q) = WordsOf(q)
  BY Symmetric
<1>2. row \in LearnedRow
  BY DEF LearnedInv, LearnedTypeOK
<1>3. WordsOf(q) \subseteq Words /\ WordsOf(q) # {}
  BY <1>2, RowFields, QueryFields
<1>4. ByWords(q, row)
  <2>1. CASE NonEntities(q) # {}
    <3>1. Overlap(NonEntities(q), NonEntities(q), 6)
      BY <1>1, <1>3, <2>1, OverlapsItself
    <3> QED BY <1>1, <3>1 DEF ByWords
  <2>2. CASE NonEntities(q) = {}
    <3>1. Overlap(Entities(q), Entities(q), 6)
      BY <1>1, <1>3, <2>2, OverlapsItself
    <3> QED BY <1>1, <2>2, <3>1 DEF ByWords
  <2> QED BY <2>1, <2>2
<1>5. Verdict(q, row) # "mismatch"
  <2>1. ASSUME Entities(q) # {} PROVE SomeAlike(Entities(q), StoredEntities(row))
    BY <1>1, <2>1 DEF SomeAlike, Alike
  <2> QED BY <2>1 DEF Verdict
<1> QED BY <1>4, <1>5 DEF Hits

\* What is found is answered, or the answer is full of what ranks as high.
LEMMA LearnedRecalls == LearnedInv => TaughtIsRecalled
<1> SUFFICES ASSUME LearnedInv, NEW row \in learned, row.seen = lookups,
                    WordsOf(row.by) \cap Odd = {}, row.by.plain \cap Dropped = {},
                    NEW answer \in Results(row.by), row.resource \notin {h.resource : h \in answer}
             PROVE  /\ Cardinality(answer) = Limit
                    /\ \A h \in answer : ~Precedes(HitOf(row.by, row), h)
  BY DEF TaughtIsRecalled
<1> DEFINE hit == HitOf(row.by, row)
<1>1. hit \in Found(row.by)
  BY LearnedFound DEF Found
<1>2. hit \notin answer
  <2>1. hit.resource = row.resource
    BY DEF HitOf
  <2> QED BY <2>1
<1>3. /\ \/ answer = Found(row.by) /\ Cardinality(answer) <= Limit
         \/ Cardinality(answer) = Limit
      /\ \A h \in answer, g \in Found(row.by) \ answer : ~Precedes(g, h)
  BY DEF Results
<1> QED BY <1>1, <1>2, <1>3

\* An exact match shares an entity, up to a part of it, or a canonical, with the words that were
\* taught.
LEMMA LearnedJustifies == LearnedInv => SkipIsJustified
<1> SUFFICES ASSUME LearnedInv, NEW q \in Questions
             PROVE  /\ \A h \in Hits(q) : h.match = "exact" /\ h.confidence >= 2 =>
                         \/ SomeAlike(Entities(q), WordsOf(h.row.by))
                         \/ ResolveSet(Entities(q)) \cap ResolveSet(WordsOf(h.row.by)) # {}
                    /\ \A r \in PatternHits(q) : r.about \subseteq Entities(q)
  BY DEF SkipIsJustified
<1>1. ASSUME NEW h \in Hits(q), h.match = "exact"
      PROVE  \/ SomeAlike(Entities(q), WordsOf(h.row.by))
             \/ ResolveSet(Entities(q)) \cap ResolveSet(WordsOf(h.row.by)) # {}
  <2>1. PICK row \in learned : h = HitOf(q, row)
    BY DEF Hits
  <2>2. h.row = row /\ Verdict(q, row) = "exact"
    BY <1>1, <2>1 DEF HitOf
  <2>3. StoredEntities(row) \subseteq WordsOf(row.by)
    BY StoredAreWords
  <2>4. \/ SomeAlike(Entities(q), StoredEntities(row))
        \/ CanonicalOverlap(q, row)
    BY <2>2 DEF Verdict
  <2>5. ResolveSet(StoredEntities(row)) \subseteq ResolveSet(WordsOf(row.by))
    BY <2>3 DEF ResolveSet
  <2> QED BY <2>2, <2>3, <2>4, <2>5 DEF CanonicalOverlap, SomeAlike
<1>2. \A r \in PatternHits(q) : r.about \subseteq Entities(q)
  BY DEF PatternHits
<1> QED BY <1>1, <1>2

\* Every reachable state of the learnings is well-typed.
THEOREM LearnedTypeCorrect == LearnedSpec => []LearnedTypeOK
<1>1. LearnedInv => LearnedTypeOK
  BY DEF LearnedInv
<1> QED BY <1>1, LearnedInitSafe, LearnedKept, PTL DEF LearnedSpec

\* A query that was taught, with no word that only the pattern drops or splits, is recalled unless
\* the answer is full of what ranks as high, for any words, lookups and resources and whatever
\* other processes teach and forget meanwhile.
THEOREM LearnedTaughtIsRecalled == LearnedSpec => []TaughtIsRecalled
  BY LearnedRecalls, LearnedInitSafe, LearnedKept, PTL DEF LearnedSpec

\* A result with which an agent may skip discovery was taught for a query with a word that is an
\* entity of the asked one, contains it or is contained in it, or means the same by a lookup; or it
\* is by a pattern about one of its entities.
THEOREM LearnedSkipIsJustified == LearnedSpec => []SkipIsJustified
  BY LearnedJustifies, LearnedInitSafe, LearnedKept, PTL DEF LearnedSpec

--------------------------------------------------------------------------------
(***************************************************************************)
(* LearnEvents, for any number of clients and any events.  The statements  *)
(* of a report read one after another; as long as no event is recorded,    *)
(* what a later one finds can only be less than what an earlier one has    *)
(* counted.                                                                *)
(***************************************************************************)

(***************************************************************************)
(* What a report has read.                                                 *)
(***************************************************************************)

\* What a report with no event recorded since its first read may still find is no more than what it
\* has counted.
StatsSafe(s) ==
  ~s.disturbed =>
    /\ s.pc \in {"taught", "reused", "amended"} => Cardinality(AmendedHits) <= s.playbookHits
    /\ s.pc = "print" => s.amended <= s.playbookHits
    /\ s.pc = "reused" => Cardinality(ReusedRows) <= s.taught
    /\ s.pc \in {"amended", "print"} => s.reused <= s.taught

EventsInv ==
  /\ EventsTypeOK /\ IsFiniteSet(events)
  /\ \A p \in Clients : client[p] \in Stats => StatsSafe(client[p])

\* The steps of a report.
LEMMA StatsStepsAre ==
  /\ DOMAIN StatsSteps = 1 .. 7 /\ Len(StatsSteps) = 7
  /\ StatsSteps[1] = "age" /\ StatsSteps[2] = "cap" /\ StatsSteps[3] = "counts"
  /\ StatsSteps[4] = "taught" /\ StatsSteps[5] = "reused" /\ StatsSteps[6] = "amended"
  /\ StatsSteps[7] = "print"
  /\ ToSet(StatsSteps) = {"age", "cap", "counts", "taught", "reused", "amended", "print"}
<1>1. /\ DOMAIN StatsSteps = 1 .. 7 /\ Len(StatsSteps) = 7
      /\ StatsSteps[1] = "age" /\ StatsSteps[2] = "cap" /\ StatsSteps[3] = "counts"
      /\ StatsSteps[4] = "taught" /\ StatsSteps[5] = "reused" /\ StatsSteps[6] = "amended"
      /\ StatsSteps[7] = "print"
  BY DEF StatsSteps
<1>2. ToSet(StatsSteps) = {StatsSteps[n] : n \in DOMAIN StatsSteps}
  BY DEF ToSet
<1>3. 1 .. 7 = {1, 2, 3, 4, 5, 6, 7}
  OBVIOUS
<1>4. ToSet(StatsSteps) = {StatsSteps[1], StatsSteps[2], StatsSteps[3], StatsSteps[4],
                           StatsSteps[5], StatsSteps[6], StatsSteps[7]}
  BY <1>1, <1>2, <1>3
<1> QED BY <1>1, <1>4

\* What is counted of finitely many events is a number, and no more of fewer events.
LEMMA CountsAre ==
  ASSUME IsFiniteSet(events)
  PROVE  /\ IsFiniteSet(TaughtRows) /\ Cardinality(TaughtRows) \in Nat
         /\ IsFiniteSet(ReusedRows) /\ Cardinality(ReusedRows) \in Nat
         /\ Cardinality(ReusedRows) <= Cardinality(TaughtRows)
         /\ IsFiniteSet(AmendedHits) /\ Cardinality(AmendedHits) \in Nat
         /\ Cardinality(Of("recall_playbook_hit")) \in Nat
         /\ Cardinality(AmendedHits) <= Cardinality(Of("recall_playbook_hit"))
<1>1. \A kind : IsFiniteSet(Of(kind))
  BY FS_Subset DEF Of
<1> DEFINE f == [e \in Of("teach") |-> e.row]
<1>2. f \in Surjection(Of("teach"), TaughtRows)
  BY DEF Surjection, TaughtRows
<1>3. IsFiniteSet(TaughtRows)
  <2> HIDE DEF f
  <2> QED BY <1>1, <1>2, FS_Surjection
<1>4. ReusedRows \in SUBSET TaughtRows
  BY DEF ReusedRows, TaughtRows
<1>5. AmendedHits \in SUBSET Of("recall_playbook_hit")
  BY DEF AmendedHits
<1>6. IsFiniteSet(ReusedRows) /\ Cardinality(ReusedRows) <= Cardinality(TaughtRows)
  BY <1>3, <1>4, FS_Subset
<1>7. /\ IsFiniteSet(AmendedHits)
      /\ Cardinality(AmendedHits) <= Cardinality(Of("recall_playbook_hit"))
  BY <1>1, <1>5, FS_Subset
<1> QED BY <1>1, <1>3, <1>6, <1>7, FS_CardinalityType

\* A statement that only deletes leaves no more to find.
LEMMA CountsShrink ==
  ASSUME IsFiniteSet(events), events' \subseteq events
  PROVE  /\ IsFiniteSet(events')
         /\ Cardinality(AmendedHits') <= Cardinality(AmendedHits)
         /\ Cardinality(ReusedRows') <= Cardinality(ReusedRows)
         /\ Cardinality(AmendedHits') \in Nat /\ Cardinality(ReusedRows') \in Nat
<1>1. IsFiniteSet(events')
  BY FS_Subset
<1>2. IsFiniteSet(AmendedHits) /\ IsFiniteSet(ReusedRows)
  BY CountsAre
<1>3. AmendedHits' \in SUBSET AmendedHits
  BY DEF AmendedHits, Of, Follows
<1>4. ReusedRows' \in SUBSET ReusedRows
  BY DEF ReusedRows, Of, Follows
<1> QED BY <1>1, <1>2, <1>3, <1>4, FS_Subset, FS_CardinalityType

\* What a report has read stays good when rows are deleted.
LEMMA StatsSafeKept ==
  ASSUME IsFiniteSet(events), events' \subseteq events, NEW s \in Stats, StatsSafe(s)
  PROVE  StatsSafe(s)'
<1>1. s.playbookHits \in Nat /\ s.taught \in Nat
  BY DEF Stats
<1>2. /\ Cardinality(AmendedHits') <= Cardinality(AmendedHits)
      /\ Cardinality(ReusedRows') <= Cardinality(ReusedRows)
      /\ Cardinality(AmendedHits') \in Nat /\ Cardinality(ReusedRows') \in Nat
  BY CountsShrink
<1>3. Cardinality(AmendedHits) \in Nat /\ Cardinality(ReusedRows) \in Nat
  BY CountsAre
<1>4. ~s.disturbed /\ s.pc \in {"taught", "reused", "amended"} =>
        Cardinality(AmendedHits') <= s.playbookHits
  BY <1>1, <1>2, <1>3 DEF StatsSafe
<1>5. ~s.disturbed /\ s.pc = "reused" => Cardinality(ReusedRows') <= s.taught
  BY <1>1, <1>2, <1>3 DEF StatsSafe
<1> QED BY <1>4, <1>5 DEF StatsSafe

\* What a process is doing tells its record.
LEMMA ClientRecords ==
  ASSUME NEW c \in {Ready} \cup Stats \cup Recording
  PROVE  /\ c = Ready <=> c.pc = "ready"
         /\ c \in Recording <=> c.pc = "record"
         /\ c \in Stats <=> c.pc \in ToSet(StatsSteps)
         /\ Ready \notin Stats /\ Ready.pc = "ready"
<1>1. Ready.pc = "ready" /\ "ready" \notin ToSet(StatsSteps) /\ "record" \notin ToSet(StatsSteps)
  BY StatsStepsAre DEF Ready
<1>2. c \in Stats => c.pc \in ToSet(StatsSteps)
  BY DEF Stats
<1>3. c \in Recording => c.pc = "record"
  BY DEF Recording
<1>4. Ready \notin Stats
  BY <1>1 DEF Stats
<1> QED BY <1>1, <1>2, <1>3, <1>4

\* A step of one process that records no event.
LEMMA OneClientSafe ==
  ASSUME EventsInv, NEW p \in Clients, NEW c \in {Ready} \cup Stats \cup Recording,
         client' = [client EXCEPT ![p] = c], events' \subseteq events,
         c \in Stats => StatsSafe(c)',
         kept' \in [Hashes -> Nat], played' \subseteq Hashes, given' \in Nat,
         time' \in 0 .. MaxTime, worked' \in 0 .. MaxWork
  PROVE  EventsInv'
<1>1. client \in [Clients -> {Ready} \cup Stats \cup Recording] /\ events \subseteq Event
  BY DEF EventsInv, EventsTypeOK
<1>2. client' \in [Clients -> {Ready} \cup Stats \cup Recording]
  BY <1>1
<1>3. EventsTypeOK'
  BY <1>1, <1>2 DEF EventsTypeOK
<1>4. IsFiniteSet(events)
  BY DEF EventsInv
<1>5. IsFiniteSet(events')
  BY <1>4, FS_Subset
<1>6. ASSUME NEW q \in Clients, client'[q] \in Stats PROVE StatsSafe(client[q])'
  <2>1. CASE q = p
    BY <1>1, <1>6, <2>1
  <2>2. CASE q # p
    <3>1. client'[q] = client[q]
      BY <1>1, <2>2
    <3>2. StatsSafe(client[q])
      BY <1>6, <3>1 DEF EventsInv
    <3>3. PICK s \in Stats : s = client[q]
      BY <1>6, <3>1
    <3>4. StatsSafe(s)'
      BY <1>4, <3>2, <3>3, StatsSafeKept
    <3>5. s = client[q]'
      BY <3>1, <3>3
    <3> QED BY <3>4, <3>5 DEF StatsSafe
  <2> QED BY <2>1, <2>2
<1> QED BY <1>3, <1>5, <1>6 DEF EventsInv

(***************************************************************************)
(* The steps.                                                              *)
(***************************************************************************)

\* The commands that record begin.
LEMMA RecordsSafe ==
  ASSUME EventsInv, NEW p \in Clients, NEW todo \in Seq(Statement) \ {<<>>}, Records(p, todo),
         kept' \in [Hashes -> Nat], played' \subseteq Hashes, given' \in Nat
  PROVE  EventsInv'
<1> DEFINE c == [pc |-> "record", todo |-> todo]
<1>1. c \in Recording /\ c.pc = "record"
  BY DEF Recording
<1>2. c \notin Stats
  BY <1>1, ClientRecords, StatsStepsAre
<1>3. worked' \in 0 .. MaxWork /\ time' \in 0 .. MaxTime /\ events' \subseteq events
  BY EventsAssumption DEF Records, EventsInv, EventsTypeOK
<1>4. client' = [client EXCEPT ![p] = c]
  BY DEF Records
<1> HIDE DEF c
<1> QED BY <1>1, <1>2, <1>3, <1>4, OneClientSafe

\* A statement that records one event.
LEMMA InsertTyped ==
  ASSUME NEW kind \in EventKinds, NEW f \in Hashes, NEW row \in Nat
  PROVE  Insert(kind, f, row) \in Statement
  BY DEF Insert, Statement

\* What each command of the learn loop has to record.
LEMMA CommandsSafe ==
  ASSUME EventsInv, NEW p \in Clients, NEW f \in Hashes, NEW kind \in EventKinds,
         Taught(p, f) \/ Recalled(p, f) \/ Judged(p, f) \/ Forgotten(p, f)
           \/ Choreographed(p, f, kind)
  PROVE  EventsInv'
<1>1. /\ kept \in [Hashes -> Nat] /\ played \subseteq Hashes /\ given \in Nat
  BY DEF EventsInv, EventsTypeOK
<1>2. CASE Taught(p, f)
  <2> DEFINE row == IF kept[f] = 0 THEN given + 1 ELSE kept[f]
  <2>1. row \in Nat
    BY <1>1
  <2>2. Insert("teach", f, row) \in Statement
    BY <2>1, InsertTyped DEF EventKinds
  <2>3. /\ Records(p, <<Insert("teach", f, row)>>) /\ kept' = [kept EXCEPT ![f] = row]
        /\ given' \in Nat /\ UNCHANGED played
    BY <1>1, <1>2 DEF Taught
  <2> HIDE DEF row
  <2>4. kept' \in [Hashes -> Nat]
    BY <1>1, <2>1, <2>3
  <2>5. <<Insert("teach", f, row)>> \in Seq(Statement) \ {<<>>}
    BY <2>2
  <2> QED BY <1>1, <2>3, <2>4, <2>5, RecordsSafe
<1>3. CASE Recalled(p, f)
  <2>1. PICK top \in {kept[g] : g \in Hashes} :
          Records(p,
            <<IF top > 0 THEN Insert("recall_hit", f, top) ELSE Insert("recall_miss", f, 0)>>
            \o (IF f \in played THEN <<Insert("recall_playbook_hit", f, 0)>> ELSE <<>>))
    BY <1>3 DEF Recalled
  <2> DEFINE first == IF top > 0 THEN Insert("recall_hit", f, top) ELSE Insert("recall_miss", f, 0)
             second == IF f \in played THEN <<Insert("recall_playbook_hit", f, 0)>> ELSE <<>>
  <2>2. top \in Nat
    BY <1>1
  <2>3. /\ Insert("recall_hit", f, top) \in Statement /\ Insert("recall_miss", f, 0) \in Statement
        /\ Insert("recall_playbook_hit", f, 0) \in Statement
    BY <2>2, InsertTyped DEF EventKinds
  <2>4. <<first>> \in Seq(Statement) /\ second \in Seq(Statement) /\ Len(<<first>>) = 1
    BY <2>3
  <2>5. Records(p, <<first>> \o second)
    BY <2>1
  <2> HIDE DEF first, second
  <2>6. <<first>> \o second \in Seq(Statement) \ {<<>>}
    BY <2>4
  <2>7. UNCHANGED <<kept, played, given>>
    BY <1>3 DEF Recalled
  <2> QED BY <1>1, <2>5, <2>6, <2>7, RecordsSafe
<1>4. CASE Judged(p, f)
  <2>1. <<Insert("judged", f, 0)>> \in Seq(Statement) \ {<<>>}
    BY InsertTyped DEF EventKinds
  <2> QED BY <1>1, <1>4, <2>1, RecordsSafe DEF Judged
<1>5. CASE Forgotten(p, f)
  <2> DEFINE cascade == [does |-> "cascade", hash |-> f]
  <2>1. cascade \in Statement /\ Insert("forget", f, 0) \in Statement
    BY InsertTyped DEF EventKinds, Statement
  <2>2. <<cascade, Insert("forget", f, 0)>> \in Seq(Statement) \ {<<>>}
    BY <2>1
  <2>3. kept' \in [Hashes -> Nat] /\ UNCHANGED <<played, given>>
        /\ Records(p, <<cascade, Insert("forget", f, 0)>>)
    BY <1>1, <1>5 DEF Forgotten
  <2> QED BY <1>1, <2>2, <2>3, RecordsSafe
<1>6. CASE Choreographed(p, f, kind)
  <2>1. <<Insert(kind, f, 0)>> \in Seq(Statement) \ {<<>>}
    BY InsertTyped
  <2>2. played' \subseteq Hashes /\ UNCHANGED <<kept, given>> /\ Records(p, <<Insert(kind, f, 0)>>)
    BY <1>1, <1>6 DEF Choreographed
  <2> QED BY <1>1, <2>1, <2>2, RecordsSafe
<1> QED BY <1>2, <1>3, <1>4, <1>5, <1>6

\* An event is recorded: whoever is reading is disturbed.
LEMMA InsertSafe ==
  ASSUME EventsInv, NEW p \in Clients, client[p].pc = "record",
         NEW s \in Statement, s.does = "insert", Inserted(s),
         NEW c \in {Ready} \cup Recording,
         client' = [q \in Clients |->
                      IF Reading(q) THEN [[client EXCEPT ![p] = c][q] EXCEPT !.disturbed = TRUE]
                      ELSE [client EXCEPT ![p] = c][q]],
         UNCHANGED <<kept, played, given, time, worked>>
  PROVE  EventsInv'
<1>1. /\ client \in [Clients -> {Ready} \cup Stats \cup Recording] /\ events \subseteq Event
      /\ IsFiniteSet(events) /\ time \in 0 .. MaxTime
  BY DEF EventsInv, EventsTypeOK
<1>2. events' \subseteq Event /\ IsFiniteSet(events')
  <2>1. PICK id \in NextIds, ts \in {time, time - 1} \cap 0 .. MaxTime :
          events' = events \cup
            {[id |-> id, kind |-> s.kind, hash |-> s.hash, row |-> s.row, ts |-> ts]}
    BY DEF Inserted
  <2>2. id \in Nat \ {0}
    BY <1>1 DEF NextIds, Event
  <2>3. s.kind \in EventKinds /\ s.hash \in Hashes /\ s.row \in Nat
    BY DEF Statement
  <2>4. [id |-> id, kind |-> s.kind, hash |-> s.hash, row |-> s.row, ts |-> ts] \in Event
    BY <2>2, <2>3 DEF Event
  <2> QED BY <1>1, <2>1, <2>4, FS_AddElement
<1>3. ASSUME NEW q \in Clients
      PROVE  /\ client'[q] \in {Ready} \cup Stats \cup Recording
             /\ client'[q] \in Stats => StatsSafe(client[q])'
  <2>0. client[q] \in {Ready} \cup Stats \cup Recording /\ ~Reading(p) /\ c \notin Stats
    BY <1>1, ClientRecords, StatsStepsAre DEF Reading
  <2>1. CASE q = p
    BY <1>1, <2>0, <2>1
  <2>2. CASE q # p /\ Reading(q)
    <3>1. client[q] \in Stats
      BY <2>0, <2>2, ClientRecords, StatsStepsAre DEF Reading
    <3>2. client'[q] = [client[q] EXCEPT !.disturbed = TRUE]
      BY <1>1, <2>2
    <3>3. \A t \in Stats : [t EXCEPT !.disturbed = TRUE] \in Stats
                              /\ [t EXCEPT !.disturbed = TRUE].disturbed
      BY DEF Stats
    <3>4. client'[q] \in Stats /\ client'[q].disturbed
      BY <3>1, <3>2, <3>3, Zenon
    <3> QED BY <3>4 DEF StatsSafe
  <2>3. CASE q # p /\ ~Reading(q)
    <3>1. client'[q] = client[q]
      BY <1>1, <2>3
    <3>2. StatsSafe(client[q])'
      BY <2>3, <3>1 DEF StatsSafe, Reading
    <3> QED BY <2>0, <3>1, <3>2
  <2> QED BY <2>1, <2>2, <2>3
<1>4. client' \in [Clients -> {Ready} \cup Stats \cup Recording]
  BY <1>3
<1>5. EventsTypeOK'
  BY <1>2, <1>4 DEF EventsInv, EventsTypeOK
<1> QED BY <1>2, <1>3, <1>5 DEF EventsInv

\* The next statement of a process that records.
LEMMA StatementSafe ==
  ASSUME EventsInv, NEW p \in Clients, StatementRuns(p) PROVE EventsInv'
<1> DEFINE s == Head(client[p].todo)
           rest == Tail(client[p].todo)
           c == IF rest = <<>> THEN Ready ELSE [client[p] EXCEPT !.todo = rest]
<1>1. /\ client \in [Clients -> {Ready} \cup Stats \cup Recording] /\ client[p].pc = "record"
      /\ kept \in [Hashes -> Nat] /\ played \subseteq Hashes /\ given \in Nat
      /\ time \in 0 .. MaxTime /\ worked \in 0 .. MaxWork
      /\ UNCHANGED <<kept, played, given, time, worked>>
  BY DEF EventsInv, EventsTypeOK, StatementRuns
<1>2. client[p] \in Recording
  BY <1>1, ClientRecords
<1>3. client[p].todo \in Seq(Statement) /\ client[p].todo # <<>>
  BY <1>2 DEF Recording
<1>4. s \in Statement /\ rest \in Seq(Statement)
  BY <1>3, HeadTailProperties
<1>5. c \in {Ready} \cup Recording
  BY <1>2, <1>4 DEF Recording
<1>6. [client EXCEPT ![p] = IF rest = <<>> THEN Ready ELSE [@ EXCEPT !.todo = rest]]
        = [client EXCEPT ![p] = c]
  BY <1>1
<1>7. \/ /\ s.does = "insert" /\ Inserted(s)
         /\ client' = [q \in Clients |->
                        IF Reading(q) THEN [[client EXCEPT ![p] = c][q] EXCEPT !.disturbed = TRUE]
                        ELSE [client EXCEPT ![p] = c][q]]
      \/ Cascaded(s) /\ client' = [client EXCEPT ![p] = c]
      \/ client' = [client EXCEPT ![p] = c] /\ UNCHANGED events
  BY <1>6, Zenon DEF StatementRuns
<1>8. c \notin Stats
  BY <1>5, ClientRecords, StatsStepsAre
<1> HIDE DEF s, c, rest
<1>9. CASE s.does = "insert" /\ Inserted(s)
           /\ client' = [q \in Clients |->
                          IF Reading(q) THEN [[client EXCEPT ![p] = c][q] EXCEPT !.disturbed = TRUE]
                          ELSE [client EXCEPT ![p] = c][q]]
  BY <1>1, <1>4, <1>5, <1>9, InsertSafe
<1>10. CASE (Cascaded(s) \/ UNCHANGED events) /\ client' = [client EXCEPT ![p] = c]
  <2>1. events' \subseteq events
    BY <1>10 DEF Cascaded
  <2> QED BY <1>1, <1>5, <1>8, <1>10, <2>1, OneClientSafe
<1> QED BY <1>7, <1>9, <1>10

\* A report begins, having read nothing.
LEMMA StatsBeginsSafe ==
  ASSUME EventsInv, NEW p \in Clients, StatsBegins(p) PROVE EventsInv'
<1> DEFINE c == [pc |-> StatsSteps[1], disturbed |-> FALSE, taught |-> 0,
                 reused |-> 0, playbookHits |-> 0, amended |-> 0]
<1>1. c \in Stats /\ c.pc = "age"
  BY StatsStepsAre DEF Stats
<1>2. StatsSafe(c)'
  BY <1>1 DEF StatsSafe
<1>3. client' = [client EXCEPT ![p] = c] /\ UNCHANGED <<events, kept, played, given, time, worked>>
  BY DEF StatsBegins
<1> HIDE DEF c
<1> QED BY <1>1, <1>2, <1>3, OneClientSafe DEF EventsInv, EventsTypeOK

\* What a report is with the answer to one query.
LEMMA AnswerFields ==
  ASSUME NEW s \in Stats, IsFiniteSet(events)
  PROVE  /\ StatsAnswer(s, "counts") \in Stats
         /\ StatsAnswer(s, "counts").pc = s.pc /\ StatsAnswer(s, "counts").disturbed = s.disturbed
         /\ StatsAnswer(s, "counts").playbookHits = Cardinality(Of("recall_playbook_hit"))
         /\ StatsAnswer(s, "taught") \in Stats
         /\ StatsAnswer(s, "taught").pc = s.pc /\ StatsAnswer(s, "taught").disturbed = s.disturbed
         /\ StatsAnswer(s, "taught").playbookHits = s.playbookHits
         /\ StatsAnswer(s, "taught").taught = Cardinality(TaughtRows)
         /\ StatsAnswer(s, "reused") \in Stats
         /\ StatsAnswer(s, "reused").pc = s.pc /\ StatsAnswer(s, "reused").disturbed = s.disturbed
         /\ StatsAnswer(s, "reused").playbookHits = s.playbookHits
         /\ StatsAnswer(s, "reused").taught = s.taught
         /\ StatsAnswer(s, "reused").reused = Cardinality(ReusedRows)
         /\ StatsAnswer(s, "amended") \in Stats
         /\ StatsAnswer(s, "amended").pc = s.pc /\ StatsAnswer(s, "amended").disturbed = s.disturbed
         /\ StatsAnswer(s, "amended").playbookHits = s.playbookHits
         /\ StatsAnswer(s, "amended").taught = s.taught
         /\ StatsAnswer(s, "amended").reused = s.reused
         /\ StatsAnswer(s, "amended").amended = Cardinality(AmendedHits)
<1>1. /\ Cardinality(Of("recall_playbook_hit")) \in Nat /\ Cardinality(TaughtRows) \in Nat
      /\ Cardinality(ReusedRows) \in Nat /\ Cardinality(AmendedHits) \in Nat
  BY CountsAre
<1> QED BY <1>1 DEF StatsAnswer, Stats

\* The statements of a report that delete.
LEMMA PruneSafe ==
  ASSUME EventsInv, NEW p \in Clients, NEW n \in {1, 2}, StatsStep(p, n) PROVE EventsInv'
<1>1. /\ client \in [Clients -> {Ready} \cup Stats \cup Recording]
      /\ client[p].pc = StatsSteps[n] /\ UNCHANGED <<kept, played, given, time, worked>>
  BY DEF StatsStep, EventsInv, EventsTypeOK
<1>2. PICK old \in Stats : old = client[p]
  BY <1>1, ClientRecords, StatsStepsAre
<1>3. events' \subseteq events
  BY DEF StatsStep, Recent, Newest
<1>4. PICK m \in {n + 1, 3} : client' = [client EXCEPT ![p].pc = StatsSteps[m]]
  BY DEF StatsStep
<1> DEFINE c == [old EXCEPT !.pc = StatsSteps[m]]
<1>5. c \in Stats /\ c.pc \in {"cap", "counts"}
  BY StatsStepsAre DEF Stats
<1>6. StatsSafe(c)'
  BY <1>5 DEF StatsSafe
<1>7. client' = [client EXCEPT ![p] = c]
  BY <1>1, <1>2, <1>4
<1> HIDE DEF c
<1>8. /\ kept' \in [Hashes -> Nat] /\ played' \subseteq Hashes /\ given' \in Nat
      /\ time' \in 0 .. MaxTime /\ worked' \in 0 .. MaxWork
  BY <1>1 DEF EventsInv, EventsTypeOK
<1> QED BY <1>3, <1>5, <1>6, <1>7, <1>8, OneClientSafe

\* The statements of a report that read.
LEMMA ReadSafe ==
  ASSUME EventsInv, NEW p \in Clients, NEW n \in 3 .. 6, StatsStep(p, n) PROVE EventsInv'
<1>1. /\ client \in [Clients -> {Ready} \cup Stats \cup Recording] /\ IsFiniteSet(events)
      /\ client[p].pc = StatsSteps[n] /\ UNCHANGED <<events, kept, played, given, time, worked>>
      /\ client' = [[client EXCEPT ![p].pc = StatsSteps[n + 1]]
                      EXCEPT ![p] = StatsAnswer(@, StatsSteps[n])]
  BY DEF StatsStep, EventsInv, EventsTypeOK
<1>2. PICK old \in Stats : old = client[p]
  BY <1>1, ClientRecords, StatsStepsAre
<1>3. StatsSafe(old)
  BY <1>2 DEF EventsInv
<1> DEFINE s == [old EXCEPT !.pc = StatsSteps[n + 1]]
<1>4. /\ s \in Stats /\ s.pc = StatsSteps[n + 1] /\ s.disturbed = old.disturbed
      /\ s.taught = old.taught /\ s.reused = old.reused /\ s.playbookHits = old.playbookHits
  BY StatsStepsAre DEF Stats
<1> DEFINE c == StatsAnswer(s, StatsSteps[n])
<1>5. client' = [client EXCEPT ![p] = c]
  BY <1>1, <1>2
<1>6. /\ Cardinality(ReusedRows) <= Cardinality(TaughtRows)
      /\ Cardinality(AmendedHits) <= Cardinality(Of("recall_playbook_hit"))
  BY <1>1, CountsAre
<1> HIDE DEF s
<1>7. c \in Stats /\ StatsSafe(c)
  <2>1. CASE n = 3
    <3>1. StatsSteps[n] = "counts" /\ s.pc = "taught"
      BY <1>4, <2>1, StatsStepsAre
    <3> QED BY <1>1, <1>4, <1>6, <3>1, AnswerFields DEF StatsSafe
  <2>2. CASE n = 4
    <3>1. StatsSteps[n] = "taught" /\ s.pc = "reused" /\ old.pc = "taught"
      BY <1>1, <1>2, <1>4, <2>2, StatsStepsAre
    <3> QED BY <1>1, <1>3, <1>4, <1>6, <3>1, AnswerFields DEF StatsSafe
  <2>3. CASE n = 5
    <3>1. StatsSteps[n] = "reused" /\ s.pc = "amended" /\ old.pc = "reused"
      BY <1>1, <1>2, <1>4, <2>3, StatsStepsAre
    <3> QED BY <1>1, <1>3, <1>4, <3>1, AnswerFields DEF StatsSafe
  <2>4. CASE n = 6
    <3>1. StatsSteps[n] = "amended" /\ s.pc = "print" /\ old.pc = "amended"
      BY <1>1, <1>2, <1>4, <2>4, StatsStepsAre
    <3> QED BY <1>1, <1>3, <1>4, <3>1, AnswerFields DEF StatsSafe
  <2> QED BY <2>1, <2>2, <2>3, <2>4
<1> HIDE DEF c
<1>8. PICK new \in Stats : new = c
  BY <1>7
<1>9. StatsSafe(new)'
  BY <1>1, <1>7, <1>8, StatsSafeKept
<1> QED BY <1>1, <1>5, <1>8, <1>9, OneClientSafe DEF EventsInv, EventsTypeOK

\* At first nothing is recorded.
LEMMA EventsInitSafe == EventsInit => EventsInv
<1> SUFFICES ASSUME EventsInit PROVE EventsInv
  OBVIOUS
<1>1. EventsTypeOK
  BY EventsAssumption DEF EventsInit, EventsTypeOK
<1>2. Ready \notin Stats
  BY ClientRecords
<1> QED BY <1>1, <1>2, FS_EmptySet DEF EventsInit, EventsInv

\* Every step of every command keeps the invariant.
LEMMA EventsKept == EventsInv /\ [EventsNext]_eventVars => EventsInv'
<1> SUFFICES ASSUME EventsInv, [EventsNext]_eventVars PROVE EventsInv'
  OBVIOUS
<1>1. ASSUME NEW p \in Clients, NEW f \in Hashes,
             Taught(p, f) \/ Recalled(p, f) \/ Judged(p, f) \/ Forgotten(p, f)
               \/ \E kind \in EventKinds : Choreographed(p, f, kind)
      PROVE  EventsInv'
  <2>1. "judged" \in EventKinds
    BY DEF EventKinds
  <2> QED BY <1>1, <2>1, CommandsSafe
<1>2. ASSUME NEW p \in Clients, ClientStops(p) PROVE EventsInv'
  <2>1. Ready \notin Stats
    BY ClientRecords
  <2> QED BY <1>2, <2>1, OneClientSafe DEF ClientStops, EventsInv, EventsTypeOK
<1>3. ASSUME NEW p \in Clients, NEW n \in DOMAIN StatsSteps, StatsStep(p, n) PROVE EventsInv'
  <2>1. n \in {1, 2} \/ n \in 3 .. 6
    BY <1>3, StatsStepsAre DEF StatsStep
  <2> QED BY <1>3, <2>1, PruneSafe, ReadSafe
<1>4. CASE DayPasses
  <2>1. UNCHANGED <<events, kept, played, given, client, worked>> /\ time' \in 0 .. MaxTime
    BY <1>4, EventsAssumption DEF DayPasses, EventsInv, EventsTypeOK
  <2> QED BY <2>1 DEF EventsInv, EventsTypeOK, StatsSafe, AmendedHits, ReusedRows, Of, Follows
<1>5. CASE UNCHANGED eventVars
  BY <1>5 DEF eventVars, EventsInv, EventsTypeOK, StatsSafe, AmendedHits, ReusedRows, Of, Follows
<1> QED BY <1>1, <1>2, <1>3, <1>4, <1>5, StatementSafe, StatsBeginsSafe DEF EventsNext

\* The events and every command in progress are well typed.
THEOREM EventsTypeCorrect == EventsSpec => []EventsTypeOK
<1>1. EventsInv => EventsTypeOK
  BY DEF EventsInv
<1> QED BY <1>1, EventsInitSafe, EventsKept, PTL DEF EventsSpec

\* The ratios of a report stay between 0 and 1, for any families, processes and limits of retention,
\* unless an event is recorded between two of its reads.
THEOREM EventsReportAddsUp == EventsSpec => []ReportAddsUp
<1>1. EventsInv => ReportAddsUp
  <2> SUFFICES ASSUME EventsInv, NEW p \in Clients, client[p].pc = "print", ~client[p].disturbed
               PROVE  client[p].reused <= client[p].taught
                      /\ client[p].amended <= client[p].playbookHits
    BY DEF ReportAddsUp
  <2>1. client[p] \in Stats
    BY ClientRecords, StatsStepsAre DEF EventsInv, EventsTypeOK
  <2> QED BY <2>1 DEF EventsInv, StatsSafe
<1> QED BY <1>1, EventsInitSafe, EventsKept, PTL DEF EventsSpec

================================================================================
