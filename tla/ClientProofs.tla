------------------------------ MODULE ClientProofs ------------------------------
(***************************************************************************)
(* Proofs about the HTTP client: a request and its retries (HttpRequest),  *)
(* the response cache and the snapshots taken through it (WeatherHistory), *)
(* and the limiter every request waits at (AdaptiveLimiter).               *)
(***************************************************************************)
EXTENDS HttpRequest, WeatherHistory, AdaptiveLimiter, FiniteSetTheorems, TLAPS

--------------------------------------------------------------------------------
(***************************************************************************)
(* HttpRequest, for any budgets, timeouts and number of retries.           *)
(***************************************************************************)

Unsafe == ~CanRetryAmbiguousFailure

\* A write that must not be sent twice never waits to be sent again, and has had no effect until
\* its only exchange ends.
SentOnce ==
  /\ call.pc = "idle" => performed = 0
  /\ Unsafe => /\ call.pc # "sleep"
               /\ performed <= 1
               /\ call.pc \in {"pacing", "flight"} => performed = 0

\* How far each wait can be from the start of the call.
OnTime ==
  /\ call.pc = "pacing" =>
       /\ call.since - call.started <= RetryBudget
       /\ call.since <= clock /\ clock <= call.since + MaxPacing
  /\ call.pc = "flight" =>
       /\ call.since - call.started <= RetryBudget + MaxPacing
       /\ call.since <= clock /\ clock <= call.since + MaxFlight
  /\ call.pc = "sleep" =>
       /\ call.wake - call.started <= RetryBudget
       /\ clock <= call.wake

\* Whatever the call waits for now, the time the server asked for is over when it ends.
Heard ==
  LET over == refusal.at + Obeyed(refusal.asked)
  IN  /\ call.pc = "idle" => over = 0
      /\ call.pc \in {"pacing", "flight"} => over <= call.since
      /\ call.pc = "sleep" => over <= call.wake

\* A call sleeps only before an attempt it still has.
AttemptsLeft == call.pc = "sleep" => call.attempt < Retries

RequestInv == RequestTypeOK /\ SentOnce /\ OnTime /\ Heard /\ AttemptsLeft

\* Nobody has been refused, and no request performed, when the call begins.
LEMMA InitHolds == RequestInit => RequestInv
<1> SUFFICES ASSUME RequestInit PROVE RequestInv
  OBVIOUS
<1> USE RequestAssumption DEF RequestInit
<1>1. RequestTypeOK
  BY DEF RequestTypeOK, Call, Methods
<1>2. SentOnce
  BY DEF SentOnce, Unsafe, CanRetryAmbiguousFailure, CanRetryRequest
<1>3. OnTime
  BY DEF OnTime
<1>4. Heard
  BY DEF Heard, Obeyed
<1>5. AttemptsLeft
  BY DEF AttemptsLeft
<1> QED
  BY <1>1, <1>2, <1>3, <1>4, <1>5 DEF RequestInv

\* What is obeyed is a time, and no longer than asked for.
LEMMA ObeyedIsTime ==
  ASSUME NEW asked \in Nat
  PROVE  Obeyed(asked) \in Nat /\ Obeyed(asked) <= asked
  BY RequestAssumption DEF Obeyed

\* A wait chosen after a 429 is a time, and as long as what is obeyed of it.
LEMMA DelayIsHeard ==
  ASSUME NEW asked \in Nat, NEW attempt \in 0 .. Retries, NEW wait \in RetryAfterDelays(asked, attempt)
  PROVE  wait \in Nat /\ wait >= Obeyed(asked)
<1>1. Backoff(attempt) \in Nat
  BY BackoffAssumption
<1>2. Obeyed(asked) \in Nat /\ Obeyed(Backoff(attempt)) \in Nat
  BY <1>1, ObeyedIsTime
<1>3. asked = 0 => Obeyed(asked) = 0
  BY RequestAssumption DEF Obeyed
<1> QED
  BY <1>2, <1>3 DEF RetryAfterDelays

\* A call that is over keeps what it promised.
LEMMA DoneKeeps ==
  ASSUME RequestInv, call' = [call EXCEPT !.pc = "done"], UNCHANGED clock,
         performed' \in Nat, refusal' \in [at : Nat, asked : 0 .. MaxAsked],
         Unsafe => performed' <= 1
  PROVE  RequestInv'
<1> USE DEF RequestInv
<1>1. /\ call'.pc = "done" /\ call'.method = call.method /\ call'.keyed = call.keyed
      /\ call'.readOnly = call.readOnly /\ call' \in Call
  BY DEF RequestTypeOK, Call
<1>2. RequestTypeOK'
  BY <1>1 DEF RequestTypeOK
<1>3. Unsafe' <=> Unsafe
  BY <1>1 DEF Unsafe, CanRetryAmbiguousFailure
<1>4. SentOnce'
  BY <1>1, <1>3 DEF SentOnce
<1>5. OnTime' /\ Heard' /\ AttemptsLeft'
  BY <1>1 DEF OnTime, Heard, AttemptsLeft
<1> QED
  BY <1>2, <1>4, <1>5

\* An exchange that ends in a retry, if it may, or in a failure.
LEMMA RetryKeeps ==
  ASSUME RequestInv, call.pc = "flight", NEW wait \in Nat, RetryOrFail(wait), UNCHANGED clock,
         NEW applied \in {0, 1}, performed' = performed + applied,
         refusal' \in [at : Nat, asked : 0 .. MaxAsked],
         \/ refusal' = refusal
         \/ refusal'.at = clock /\ Obeyed(refusal'.asked) <= wait
  PROVE  RequestInv'
<1> USE DEF RequestInv
<1>1. performed' \in Nat /\ (Unsafe => performed' <= 1)
  BY DEF RequestTypeOK, SentOnce
<1>2. CASE ~MayRetry(wait)
  BY <1>1, <1>2, DoneKeeps DEF RetryOrFail, Finished
<1>3. CASE MayRetry(wait)
  <2>1. call' = [call EXCEPT !.pc = "sleep", !.wake = clock + wait]
    BY <1>3 DEF RetryOrFail, SleepThenRetry
  <2>0. clock + wait \in Nat
    BY DEF RequestTypeOK
  <2>2. /\ call'.pc = "sleep" /\ call'.wake = clock + wait /\ call'.started = call.started
        /\ call'.method = call.method /\ call'.keyed = call.keyed
        /\ call'.readOnly = call.readOnly /\ call' \in Call
    BY <2>0, <2>1 DEF RequestTypeOK, Call
  <2>3. RequestTypeOK'
    BY <1>1, <2>2 DEF RequestTypeOK
  <2>4. ~Unsafe'
    BY <1>3, <2>2 DEF MayRetry, Unsafe, CanRetryAmbiguousFailure
  <2>5. SentOnce'
    BY <2>2, <2>4 DEF SentOnce
  <2>6. OnTime'
    BY <1>3, <2>2, RequestAssumption DEF OnTime, MayRetry, RetryWithinBudget, RequestTypeOK, Call
  <2>7. Heard'
    <3>1. refusal.at \in Nat /\ refusal.asked \in Nat /\ refusal'.at \in Nat /\ refusal'.asked \in Nat
      BY RequestAssumption DEF RequestTypeOK
    <3>2. Obeyed(refusal.asked) \in Nat /\ Obeyed(refusal'.asked) \in Nat
      BY <3>1, ObeyedIsTime
    <3>3. refusal.at + Obeyed(refusal.asked) <= clock
      BY <3>1, <3>2 DEF Heard, OnTime, RequestTypeOK, Call
    <3>4. refusal'.at + Obeyed(refusal'.asked) <= clock + wait
      BY <3>1, <3>2, <3>3 DEF RequestTypeOK
    <3>5. Obeyed(refusal.asked)' = Obeyed(refusal'.asked)
      BY DEF Obeyed
    <3> QED
      BY <2>2, <3>4, <3>5 DEF Heard
  <2>8. AttemptsLeft'
    BY <1>3, <2>1 DEF AttemptsLeft, MayRetry, RequestTypeOK, Call
  <2> QED
    BY <2>3, <2>5, <2>6, <2>7, <2>8
<1> QED
  BY <1>2, <1>3

\* The clock of the first attempt starts with the call.
LEMMA BeginKeeps ==
  ASSUME RequestInv, NEW method \in Methods, NEW keyed \in BOOLEAN, NEW readOnly \in BOOLEAN,
         Begin(method, keyed, readOnly)
  PROVE  RequestInv'
<1> USE DEF RequestInv
<1>1. PICK pc \in {"pacing", "done"} :
        call' = [call EXCEPT !.pc = pc, !.method = method, !.keyed = keyed, !.readOnly = readOnly,
                             !.started = clock, !.since = clock]
  BY DEF Begin
<1>2. call.pc = "idle" /\ UNCHANGED <<clock, performed, refusal>>
  BY DEF Begin
<1>3. /\ call'.pc = pc /\ call'.started = clock /\ call'.since = clock /\ call' \in Call
  BY <1>1 DEF RequestTypeOK, Call
<1>4. RequestTypeOK'
  BY <1>2, <1>3 DEF RequestTypeOK
<1>5. SentOnce'
  BY <1>2, <1>3 DEF SentOnce
<1>6. OnTime'
  BY <1>2, <1>3, RequestAssumption DEF OnTime, RequestTypeOK
<1>7. Heard'
  BY <1>2, <1>3 DEF Heard, RequestTypeOK, Obeyed
<1>8. AttemptsLeft'
  BY <1>3 DEF AttemptsLeft
<1> QED
  BY <1>4, <1>5, <1>6, <1>7, <1>8

\* The limiters held the attempt no longer than MaxPacing.
LEMMA SendKeeps == ASSUME RequestInv, Send PROVE RequestInv'
<1> USE DEF RequestInv
<1>0. call.pc = "pacing" /\ UNCHANGED <<clock, performed, refusal>>
  BY DEF Send
<1>1. CASE call.canceled
  <2>1. /\ performed' \in Nat /\ refusal' \in [at : Nat, asked : 0 .. MaxAsked]
        /\ Unsafe => performed' <= 1
    BY <1>0 DEF RequestTypeOK, SentOnce
  <2> QED
    BY <1>0, <1>1, <2>1, DoneKeeps DEF Send, Finished
<1>2. CASE ~call.canceled
  <2>1. call' = [call EXCEPT !.pc = "flight", !.since = clock]
    BY <1>2 DEF Send
  <2>2. /\ call'.pc = "flight" /\ call'.since = clock /\ call'.started = call.started
        /\ call'.method = call.method /\ call'.keyed = call.keyed
        /\ call'.readOnly = call.readOnly /\ call' \in Call
    BY <2>1 DEF RequestTypeOK, Call
  <2>3. RequestTypeOK'
    BY <1>0, <2>2 DEF RequestTypeOK
  <2>4. SentOnce'
    BY <1>0, <2>2 DEF SentOnce, Unsafe, CanRetryAmbiguousFailure
  <2>5. OnTime'
    BY <1>0, <2>2, RequestAssumption DEF OnTime, RequestTypeOK, Call
  <2>6. Heard'
    <3>1. refusal.at \in Nat /\ Obeyed(refusal.asked) \in Nat
      BY RequestAssumption, ObeyedIsTime DEF RequestTypeOK
    <3>2. refusal.at + Obeyed(refusal.asked) <= clock
      BY <1>0, <3>1 DEF Heard, OnTime, RequestTypeOK, Call
    <3> QED
      BY <1>0, <2>2, <3>2 DEF Heard, Obeyed
  <2>7. AttemptsLeft'
    BY <2>2 DEF AttemptsLeft
  <2> QED
    BY <2>3, <2>4, <2>5, <2>6, <2>7
<1> QED
  BY <1>1, <1>2

\* Each way an exchange ends.
LEMMA ExchangeKeeps ==
  ASSUME RequestInv, NEW applied \in {0, 1}, NEW headers \in BOOLEAN, NEW asked \in 0 .. MaxAsked,
         Lost(applied, headers) \/ Answered(applied) \/ ServerError(applied) \/ RateLimited(asked)
  PROVE  RequestInv'
<1> USE DEF RequestInv
<1>0. call.pc = "flight" /\ UNCHANGED clock /\ Backoff(call.attempt) \in Nat
      /\ call.attempt \in 0 .. Retries
  BY BackoffAssumption DEF Lost, Answered, ServerError, RateLimited, RequestTypeOK, Call
<1>1. refusal \in [at : Nat, asked : 0 .. MaxAsked]
  BY DEF RequestTypeOK
<1>2. performed' = performed + applied => performed' \in Nat /\ (Unsafe => performed' <= 1)
  BY <1>0 DEF RequestTypeOK, SentOnce
<1>3. CASE Lost(applied, headers)
  <2>1. performed' = performed + applied /\ refusal' = refusal
    BY <1>3 DEF Lost
  <2>2. CASE headers \/ call.canceled
    BY <1>0, <1>1, <1>2, <1>3, <2>1, <2>2, DoneKeeps DEF Lost, Finished
  <2>3. CASE ~(headers \/ call.canceled)
    BY <1>0, <1>1, <1>3, <2>1, <2>3, RetryKeeps DEF Lost
  <2> QED
    BY <2>2, <2>3
<1>4. CASE Answered(applied)
  BY <1>0, <1>1, <1>2, <1>4, DoneKeeps DEF Answered, Finished
<1>5. CASE ServerError(applied)
  BY <1>0, <1>1, <1>5, RetryKeeps DEF ServerError
<1>6. CASE RateLimited(asked)
  <2>1. PICK wait \in RetryAfterDelays(asked, call.attempt) : RetryOrFail(wait)
    BY <1>6 DEF RateLimited
  <2>2. wait \in Nat /\ Obeyed(asked) <= wait
    <3>1. asked \in Nat
      BY RequestAssumption
    <3>2. wait \in Nat /\ wait >= Obeyed(asked) /\ Obeyed(asked) \in Nat
      BY <1>0, <2>1, <3>1, DelayIsHeard, ObeyedIsTime
    <3> QED
      BY <3>2
  <2>3. refusal' = [at |-> clock, asked |-> asked] /\ performed' = performed + 0
    BY <1>6 DEF RateLimited, RequestTypeOK
  <2>4. /\ refusal' \in [at : Nat, asked : 0 .. MaxAsked]
        /\ refusal'.at = clock /\ Obeyed(refusal'.asked) <= wait
    BY <2>2, <2>3 DEF RequestTypeOK
  <2> QED
    BY <1>0, <2>1, <2>2, <2>3, <2>4, RetryKeeps
<1> QED
  BY <1>3, <1>4, <1>5, <1>6

\* The sleep ends when its timer fires, not later.
LEMMA WokenKeeps == ASSUME RequestInv, Woken PROVE RequestInv'
<1> USE DEF RequestInv
<1>0. call.pc = "sleep" /\ UNCHANGED <<clock, performed, refusal>>
  BY DEF Woken
<1>1. CASE Finished
  <2>1. /\ performed' \in Nat /\ refusal' \in [at : Nat, asked : 0 .. MaxAsked]
        /\ Unsafe => performed' <= 1
    BY <1>0 DEF RequestTypeOK, SentOnce
  <2> QED
    BY <1>0, <1>1, <2>1, DoneKeeps DEF Finished
<1>2. CASE /\ call.wake <= clock
           /\ call' = [call EXCEPT !.pc = "pacing", !.attempt = @ + 1, !.since = clock]
  <2>1. call.attempt + 1 \in 0 .. Retries
    BY <1>0, RequestAssumption DEF AttemptsLeft, RequestTypeOK, Call
  <2>2. /\ call'.pc = "pacing" /\ call'.since = clock /\ call'.started = call.started
        /\ call'.method = call.method /\ call'.keyed = call.keyed
        /\ call'.readOnly = call.readOnly /\ call' \in Call
    BY <1>2, <2>1 DEF RequestTypeOK, Call
  <2>3. clock = call.wake
    BY <1>0, <1>2 DEF OnTime, RequestTypeOK, Call
  <2>4. RequestTypeOK'
    BY <1>0, <2>2 DEF RequestTypeOK
  <2>5. SentOnce'
    BY <1>0, <2>2 DEF SentOnce, Unsafe, CanRetryAmbiguousFailure
  <2>6. OnTime'
    BY <1>0, <2>2, <2>3, RequestAssumption DEF OnTime, RequestTypeOK, Call
  <2>7. Heard'
    BY <1>0, <2>2, <2>3 DEF Heard, Obeyed
  <2>8. AttemptsLeft'
    BY <2>2 DEF AttemptsLeft
  <2> QED
    BY <2>4, <2>5, <2>6, <2>7, <2>8
<1> QED
  BY <1>1, <1>2 DEF Woken

\* The end of the caller's context moves nothing by itself.
LEMMA CancelKeeps == ASSUME RequestInv, Cancel PROVE RequestInv'
<1> USE DEF RequestInv
<1>1. /\ call' = [call EXCEPT !.canceled = TRUE]
      /\ UNCHANGED <<clock, performed, refusal>>
  BY DEF Cancel
<1>2. /\ call'.pc = call.pc /\ call'.since = call.since /\ call'.started = call.started
      /\ call'.wake = call.wake /\ call'.attempt = call.attempt /\ call'.method = call.method
      /\ call'.keyed = call.keyed /\ call'.readOnly = call.readOnly /\ call' \in Call
  BY <1>1 DEF RequestTypeOK, Call
<1>3. RequestTypeOK'
  BY <1>1, <1>2 DEF RequestTypeOK
<1>4. SentOnce'
  BY <1>1, <1>2 DEF SentOnce, Unsafe, CanRetryAmbiguousFailure
<1>5. OnTime' /\ AttemptsLeft'
  BY <1>1, <1>2 DEF OnTime, AttemptsLeft
<1>6. Heard'
  BY <1>1, <1>2 DEF Heard, Obeyed
<1> QED
  BY <1>3, <1>4, <1>5, <1>6

\* Time passes only while the present wait may last.
LEMMA SecondKeeps == ASSUME RequestInv, Second PROVE RequestInv'
<1> USE DEF RequestInv
<1>1. clock' = clock + 1 /\ UNCHANGED <<call, performed, refusal>>
  BY DEF Second
<1>2. RequestTypeOK'
  BY <1>1 DEF RequestTypeOK
<1>3. SentOnce'
  BY <1>1 DEF SentOnce, Unsafe, CanRetryAmbiguousFailure
<1>4. OnTime'
  BY <1>1, RequestAssumption DEF OnTime, Second, RequestTypeOK, Call
<1>5. Heard' /\ AttemptsLeft'
  BY <1>1 DEF Heard, Obeyed, AttemptsLeft
<1> QED
  BY <1>2, <1>3, <1>4, <1>5

\* The invariant is inductive.
LEMMA NextHolds == RequestInv /\ [RequestNext]_requestVars => RequestInv'
<1> SUFFICES ASSUME RequestInv, [RequestNext]_requestVars PROVE RequestInv'
  OBVIOUS
<1>1. ASSUME NEW method \in Methods, NEW keyed \in BOOLEAN, NEW readOnly \in BOOLEAN,
             Begin(method, keyed, readOnly)
      PROVE  RequestInv'
  BY <1>1, BeginKeeps
<1>2. CASE Send
  BY <1>2, SendKeeps
<1>3. ASSUME NEW applied \in {0, 1}, NEW headers \in BOOLEAN,
             Lost(applied, headers) \/ Answered(applied) \/ ServerError(applied)
      PROVE  RequestInv'
  <2>1. 0 \in 0 .. MaxAsked
    BY RequestAssumption
  <2> QED
    BY <1>3, <2>1, ExchangeKeeps
<1>4. ASSUME NEW asked \in 0 .. MaxAsked, RateLimited(asked)
      PROVE  RequestInv'
  BY <1>4, ExchangeKeeps
<1>5. CASE Woken
  BY <1>5, WokenKeeps
<1>6. CASE Cancel
  BY <1>6, CancelKeeps
<1>7. CASE Second
  BY <1>7, SecondKeeps
<1>8. CASE UNCHANGED requestVars
  <2>1. UNCHANGED <<call, clock, performed, refusal>>
    BY <1>8 DEF requestVars
  <2> QED
    BY <2>1 DEF RequestInv, RequestTypeOK, SentOnce, Unsafe, CanRetryAmbiguousFailure, OnTime,
                Heard, Obeyed, AttemptsLeft
<1> QED
  BY <1>1, <1>2, <1>3, <1>4, <1>5, <1>6, <1>7, <1>8 DEF RequestNext

\* What the invariant says of the effects of a write, of the length of a call, and of a refusal.
LEMMA InvPromises == RequestInv => UnsafeWriteOnce /\ EndsInTime /\ ServerIsHeard
<1> SUFFICES ASSUME RequestInv PROVE UnsafeWriteOnce /\ EndsInTime /\ ServerIsHeard
  OBVIOUS
<1>1. UnsafeWriteOnce
  BY DEF RequestInv, SentOnce, Unsafe, CanRetryAmbiguousFailure, CanRetryRequest, UnsafeWriteOnce
<1>2. EndsInTime
  BY RequestAssumption DEF RequestInv, RequestTypeOK, Call, OnTime, EndsInTime
<1>3. ServerIsHeard
  <2>1. refusal.at \in Nat /\ Obeyed(refusal.asked) \in Nat
    BY RequestAssumption, ObeyedIsTime DEF RequestInv, RequestTypeOK
  <2> QED
    BY <2>1 DEF RequestInv, RequestTypeOK, Call, Heard, ServerIsHeard
<1> QED
  BY <1>1, <1>2, <1>3

\* The invariant holds in every state of every call.
THEOREM RequestInvariant == RequestSpec => []RequestInv
<1> QED
  BY InitHolds, NextHolds, PTL DEF RequestSpec

\* However many retries are allowed, and whatever answers are lost, a write without an idempotency
\* key that is no declared read is performed at most once (canRetryAmbiguousFailure).
THEOREM WriteOnce == RequestSpec => []UnsafeWriteOnce
<1> QED
  BY RequestInvariant, InvPromises, PTL

\* For any budget, timeout and server, a call is over by the end of its retry budget and one more
\* attempt (retryWithinBudget).
THEOREM CallEndsInTime == RequestSpec => []EndsInTime
<1> QED
  BY RequestInvariant, InvPromises, PTL

\* Whatever the server asks for, the next attempt waits for it, up to what the client obeys
\* (RetryAfterDelay).
THEOREM RefusalIsHeard == RequestSpec => []ServerIsHeard
<1> QED
  BY RequestInvariant, InvPromises, PTL

--------------------------------------------------------------------------------
(***************************************************************************)
(* WeatherHistory and the ResponseCache it reads through, for any number   *)
(* of processes, any time to live and any bounds.  A call that overlaps    *)
(* the clearing of the cache may still store what it fetched before: the   *)
(* invariant marks it (overlaps), and so tells an entry that is older than *)
(* the last clearing from one that must be newer.                          *)
(***************************************************************************)

\* A call in progress takes no longer than CommandTimeout, and what it has fetched is from its
\* own time, or of a state older than an invalidation that overlapped it.
FetchedPcs == {"answered", "fill"}

CallSafe(p) ==
  /\ reader[p].pc # "idle" => /\ reader[p].since <= time
                              /\ time <= reader[p].since + CommandTimeout
  /\ reader[p].pc \in FetchedPcs /\ reader[p].body # Nothing =>
       /\ reader[p].body.whole
       /\ reader[p].since <= reader[p].body.asOf /\ reader[p].body.asOf <= time
       /\ reader[p].body.version < cleared => p \in overlaps
  /\ reader[p].pc = "fill" => reader[p].node <= file.node
  /\ reader[p].pc = "read" /\ Exists => time <= file.mtime + CacheTTL
  /\ reader[p].pc = "got" /\ reader[p].body.whole =>
       /\ 0 <= reader[p].body.asOf /\ reader[p].body.asOf <= time
       /\ time <= reader[p].body.asOf + CacheTTL + CommandTimeout
  /\ reader[p].pc = "clear" => reader[p].body.version <= server

\* What is in the file was put there by a call of at most CommandTimeout.
FileSafe ==
  /\ file.mtime <= time
  /\ file.body.whole => /\ 0 <= file.body.asOf /\ file.body.asOf <= file.mtime
                        /\ file.mtime <= file.body.asOf + CommandTimeout

CacheInv ==
  /\ CacheTypeOK /\ FileSafe /\ NoForgottenEntry /\ BlankIsTransient
  /\ \A p \in Readers : CallSafe(p)

\* The constants, and the number that stands for no time.
LEMMA CacheNumbers ==
  /\ CacheTTL \in Nat /\ CommandTimeout \in Nat /\ MaxClock \in Nat
  /\ MaxMutations \in Nat /\ MaxKills \in Nat /\ Never = -1
  BY CacheAssumption DEF Never

\* The records at first.
LEMMA CacheRecords ==
  /\ Nothing \in Body /\ IdleReader \in Reader /\ NoFile \in File
  /\ Nothing.whole = FALSE /\ Nothing.asOf = -1 /\ IdleReader.pc = "idle"
  /\ NoFile.mtime = -1 /\ NoFile.body = Nothing /\ NoFile.node = 0
  BY DEF Nothing, Body, IdleReader, Reader, NoFile, File, Never

\* At first the cache is empty and nobody calls.
LEMMA CacheInitSafe == CacheInit => CacheInv
<1> SUFFICES ASSUME CacheInit PROVE CacheInv
  OBVIOUS
<1>1. CacheTypeOK
  BY CacheNumbers, CacheRecords DEF CacheInit, CacheTypeOK
<1>2. FileSafe /\ NoForgottenEntry
  BY CacheRecords DEF CacheInit, FileSafe, NoForgottenEntry
<1>3. BlankIsTransient
  BY CacheNumbers, CacheRecords DEF CacheInit, BlankIsTransient, Exists
<1>4. \A p \in Readers : CallSafe(p)
  BY CacheRecords DEF CacheInit, CallSafe, FetchedPcs
<1> QED BY <1>1, <1>2, <1>3, <1>4 DEF CacheInv

\* The others of a step by p that takes no time and removes no file: what is in the file may be
\* written now.
Quick(p) ==
  /\ reader' = [reader EXCEPT ![p] = reader'[p]] /\ reader'[p] \in Reader
  /\ UNCHANGED <<time, cleared>> /\ server' >= server /\ server' \in 0 .. MaxMutations
  /\ overlaps' \in {overlaps, overlaps \ {p}}
  /\ kills' \in kills .. MaxKills

\* A spoiled file is otherwise the one it was.
LEMMA SpoiledFields ==
  ASSUME file \in File
  PROVE  /\ Spoiled \in File /\ Spoiled.node = file.node /\ Spoiled.mtime = file.mtime
         /\ Spoiled.body = file.body /\ Spoiled.late = file.late /\ Spoiled.spoiled = TRUE
  BY DEF Spoiled, File

\* A step of one call that keeps the file in its place, or writes it now, leaves every other call
\* as it was.
LEMMA OthersSafe ==
  ASSUME CacheInv, NEW p \in Readers, Quick(p), file' \in File, file'.node = file.node,
         file'.mtime \in {file.mtime, time}, CallSafe(p)'
  PROVE  CacheTypeOK' /\ \A q \in Readers : CallSafe(q)'
<1>1. CacheTypeOK /\ \A q \in Readers : CallSafe(q)
  BY DEF CacheInv
<1>2. CacheTypeOK'
  BY <1>1, CacheNumbers DEF CacheTypeOK, Quick
<1>3. ASSUME NEW q \in Readers, q # p PROVE CallSafe(q)'
  <2>1. reader'[q] = reader[q] /\ reader[q] \in Reader /\ CallSafe(q)
    BY <1>1, <1>3 DEF CacheTypeOK, Quick
  <2>2. /\ time' = time /\ cleared' = cleared /\ time \in Nat
        /\ server' >= server /\ server \in Nat /\ server' \in Nat /\ (q \in overlaps => q \in overlaps')
    BY <1>1, <1>3, CacheNumbers DEF CacheTypeOK, Quick
  <2>3. Exists' => (Exists /\ file'.mtime = file.mtime) \/ time <= file'.mtime + CacheTTL
    BY <2>2, CacheNumbers DEF Exists
  <2> QED BY <2>1, <2>2, <2>3 DEF CallSafe, FetchedPcs, Reader, Body
<1> QED BY <1>2, <1>3

\* A step of a call that does not write the file: it is as it was, or spoiled.
LEMMA CacheCalm ==
  ASSUME CacheInv, NEW p \in Readers, Quick(p), file' = file \/ file' = Spoiled, CallSafe(p)',
         Opened(p) => file' = Spoiled
  PROVE  CacheInv'
<1>1. CacheTypeOK /\ FileSafe /\ NoForgottenEntry /\ BlankIsTransient /\ file \in File
  BY DEF CacheInv, CacheTypeOK
<1>2. /\ file' \in File /\ file'.node = file.node /\ file'.mtime = file.mtime
      /\ file'.body = file.body /\ file'.late = file.late
  BY <1>1, SpoiledFields
<1>3. CacheTypeOK' /\ \A q \in Readers : CallSafe(q)'
  BY <1>2, OthersSafe
<1>4. FileSafe' /\ NoForgottenEntry'
  BY <1>1, <1>2 DEF FileSafe, NoForgottenEntry, Quick
<1>5. BlankIsTransient'
  <2>1. ASSUME Exists', file'.body.asOf = Never, ~file'.spoiled
        PROVE  \E q \in Readers : reader'[q].pc = "fill" /\ reader'[q].node = file'.node
    <3>1. file' = file /\ ~Opened(p)
      BY <1>1, <2>1, SpoiledFields
    <3>2. PICK q \in Readers : Opened(q)
      BY <1>1, <1>2, <2>1, <3>1 DEF BlankIsTransient, Exists
    <3>3. reader'[q] = reader[q]
      BY <1>1, <3>1, <3>2 DEF Quick, CacheTypeOK
    <3> QED BY <1>2, <3>2, <3>3 DEF Opened
  <2> QED BY <2>1 DEF BlankIsTransient, Opened
<1> QED BY <1>3, <1>4, <1>5 DEF CacheInv

\* The process of a step that ends its call.
LEMMA CallEnds ==
  ASSUME CacheInv, NEW p \in Readers, reader' = [reader EXCEPT ![p] = IdleReader],
         file' = file \/ file' = Spoiled, Opened(p) => file' = Spoiled,
         UNCHANGED <<time, server, cleared>>, overlaps' = overlaps, kills' \in kills .. MaxKills
  PROVE  CacheInv'
<1>1. CacheTypeOK
  BY DEF CacheInv
<1>2. reader'[p] = IdleReader
  BY <1>1 DEF CacheTypeOK
<1>3. Quick(p)
  BY <1>1, <1>2, CacheRecords, CacheNumbers DEF Quick, CacheTypeOK
<1>4. CallSafe(p)'
  BY <1>2, CacheRecords DEF CallSafe, FetchedPcs
<1> QED BY <1>3, <1>4, CacheCalm

\* What every step on the cache keeps of the record of its process.
LEMMA ReaderTyped ==
  ASSUME CacheTypeOK, NEW p \in Readers
  PROVE  /\ reader[p] \in Reader /\ reader[p].body \in Body /\ reader[p].since \in Nat
         /\ reader[p].node \in Nat /\ reader[p].body.version \in Nat
         /\ reader[p].body.asOf \in {-1} \cup Nat /\ reader[p].body.whole \in BOOLEAN
         /\ file \in File /\ file.node \in Nat /\ file.mtime \in {-1} \cup Nat
         /\ file.body \in Body /\ file.body.version \in Nat /\ file.late \in BOOLEAN
         /\ file.body.asOf \in {-1} \cup Nat /\ file.body.whole \in BOOLEAN
         /\ time \in Nat /\ time <= MaxClock /\ server \in Nat /\ server <= MaxMutations
         /\ cleared \in Nat /\ cleared <= server /\ kills \in 0 .. MaxKills
         /\ overlaps \subseteq Readers
  <1>1. reader[p] \in Reader /\ file \in File
    BY DEF CacheTypeOK
  <1> QED BY <1>1, CacheNumbers DEF CacheTypeOK, Reader, File, Body, Never

\* A get begins: it finds a file it may serve, or asks the server.
LEMMA GetSafe ==
  ASSUME CacheInv, NEW p \in Readers, NEW fresh \in BOOLEAN, Get(p, fresh) PROVE CacheInv'
<1>1. CacheTypeOK
  BY DEF CacheInv
<1> DEFINE pc == IF Servable /\ ~fresh THEN "read" ELSE "flight"
<1>2. /\ reader'[p] = [IdleReader EXCEPT !.pc = pc, !.since = time] /\ pc \in {"read", "flight"}
      /\ reader' = [reader EXCEPT ![p] = reader'[p]]
  BY <1>1 DEF Get, CacheTypeOK
<1>3. reader'[p].pc = pc /\ reader'[p].since = time /\ reader'[p] \in Reader
  BY <1>1, <1>2, ReaderTyped, CacheRecords DEF IdleReader, Reader
<1>4. Quick(p)
  BY <1>1, <1>2, <1>3, ReaderTyped DEF Get, Quick, CacheTypeOK
<1>5. pc = "read" => time <= file.mtime + CacheTTL
  BY <1>1, ReaderTyped, CacheNumbers DEF Servable, Expired
<1>6. CallSafe(p)'
  BY <1>1, <1>2, <1>3, <1>5, ReaderTyped, CacheNumbers DEF Get, CallSafe, FetchedPcs
<1> QED BY <1>4, <1>6, CacheCalm DEF Get, Opened

\* The cached file is read, or found gone.
LEMMA ReadFileSafe ==
  ASSUME CacheInv, NEW p \in Readers, ReadFile(p) PROVE CacheInv'
<1>1. CacheTypeOK /\ CallSafe(p) /\ FileSafe
  BY DEF CacheInv
<1>2. CASE Exists
  <2>1. reader' = [reader EXCEPT ![p].pc = "got", ![p].body = file.body, ![p].hit = TRUE]
    BY <1>2 DEF ReadFile
  <2>2. /\ reader'[p] = [reader[p] EXCEPT !.pc = "got", !.body = file.body, !.hit = TRUE]
        /\ reader' = [reader EXCEPT ![p] = reader'[p]]
    BY <1>1, <2>1 DEF CacheTypeOK
  <2>3. /\ reader'[p] \in Reader /\ reader'[p].pc = "got" /\ reader'[p].body = file.body
        /\ reader'[p].since = reader[p].since
    BY <1>1, <2>2, ReaderTyped DEF Reader
  <2>4. Quick(p)
    BY <1>1, <2>2, <2>3, ReaderTyped DEF ReadFile, Quick, CacheTypeOK
  <2>5. file.body.whole => /\ 0 <= file.body.asOf /\ file.body.asOf <= time
                           /\ time <= file.body.asOf + CacheTTL + CommandTimeout
    BY <1>1, <1>2, ReaderTyped, CacheNumbers DEF ReadFile, CallSafe, FileSafe
  <2>6. CallSafe(p)'
    BY <1>1, <2>3, <2>5 DEF ReadFile, CallSafe, FetchedPcs
  <2> QED BY <2>4, <2>6, CacheCalm DEF ReadFile, Opened
<1>3. CASE ~Exists
  <2>1. reader' = [reader EXCEPT ![p].pc = "flight"]
    BY <1>3 DEF ReadFile, Advance
  <2>2. /\ reader'[p] = [reader[p] EXCEPT !.pc = "flight"]
        /\ reader' = [reader EXCEPT ![p] = reader'[p]]
    BY <1>1, <2>1 DEF CacheTypeOK
  <2>3. reader'[p] \in Reader /\ reader'[p].pc = "flight" /\ reader'[p].since = reader[p].since
    BY <1>1, <2>2, ReaderTyped DEF Reader
  <2>4. Quick(p)
    BY <1>1, <2>2, <2>3, ReaderTyped DEF ReadFile, Quick, CacheTypeOK
  <2>5. CallSafe(p)'
    BY <1>1, <2>3 DEF ReadFile, CallSafe, FetchedPcs
  <2> QED BY <2>4, <2>5, CacheCalm DEF ReadFile, Opened
<1> QED BY <1>2, <1>3

\* The server answers with what it holds now, or with nothing.
LEMMA AnswerSafe ==
  ASSUME CacheInv, NEW p \in Readers, ServerAnswers(p) PROVE CacheInv'
<1>1. CacheTypeOK /\ CallSafe(p)
  BY DEF CacheInv
<1> DEFINE told == [asOf |-> time, version |-> server, whole |-> TRUE]
<1>2. told \in Body /\ told.asOf = time /\ told.version = server /\ told.whole
  BY <1>1, ReaderTyped DEF Body
<1> HIDE DEF told
<1>3. PICK body \in {told, Nothing} :
        reader' = [reader EXCEPT ![p].pc = "answered", ![p].body = body]
  BY DEF ServerAnswers, told
<1>4. body \in Body
  BY <1>2, <1>3, CacheRecords
<1>5. /\ reader'[p] = [reader[p] EXCEPT !.pc = "answered", !.body = body]
      /\ reader' = [reader EXCEPT ![p] = reader'[p]]
  BY <1>1, <1>3 DEF CacheTypeOK
<1>6. /\ reader'[p] \in Reader /\ reader'[p].pc = "answered" /\ reader'[p].body = body
      /\ reader'[p].since = reader[p].since
  BY <1>1, <1>4, <1>5, ReaderTyped DEF Reader
<1>7. Quick(p)
  BY <1>1, <1>5, <1>6, ReaderTyped DEF ServerAnswers, Quick, CacheTypeOK
<1>8. body # Nothing => body.whole /\ body.asOf = time /\ body.version = server
  BY <1>2, <1>3
<1>9. CallSafe(p)'
  BY <1>1, <1>6, <1>8, ReaderTyped DEF ServerAnswers, CallSafe, FetchedPcs
<1> QED BY <1>7, <1>9, CacheCalm DEF ServerAnswers, Opened

\* The answer reaches the caller, which opens the file of the cache for writing if it may keep it.
LEMMA ArrivesSafe ==
  ASSUME CacheInv, NEW p \in Readers, NEW cacheable \in BOOLEAN, Arrives(p, cacheable)
  PROVE  CacheInv'
<1>1. CacheTypeOK /\ CallSafe(p) /\ reader[p].pc = "answered"
  BY DEF CacheInv, Arrives
<1>2. CASE cacheable
  <2>1. /\ file' = [file EXCEPT !.mtime = time, !.body = Nothing, !.late = p \in overlaps,
                                 !.spoiled = FALSE]
        /\ reader' = [reader EXCEPT ![p].pc = "fill", ![p].node = file.node]
        /\ UNCHANGED <<time, server, cleared, overlaps, kills>>
    BY <1>2 DEF Arrives
  <2>2. /\ reader'[p] = [reader[p] EXCEPT !.pc = "fill", !.node = file.node]
        /\ reader' = [reader EXCEPT ![p] = reader'[p]]
    BY <1>1, <2>1 DEF CacheTypeOK
  <2>3. /\ reader'[p] \in Reader /\ reader'[p].pc = "fill" /\ reader'[p].body = reader[p].body
        /\ reader'[p].since = reader[p].since /\ reader'[p].node = file.node
    BY <1>1, <2>2, ReaderTyped DEF Reader
  <2>4. Quick(p)
    BY <1>1, <2>1, <2>2, <2>3, ReaderTyped DEF Quick, CacheTypeOK
  <2>5. /\ file' \in File /\ file'.node = file.node /\ file'.mtime = time
        /\ file'.body = Nothing
    <3> DEFINE late == p \in overlaps
    <3>1. /\ late \in BOOLEAN
          /\ file' = [file EXCEPT !.mtime = time, !.body = Nothing, !.late = late,
                                  !.spoiled = FALSE]
      BY <2>1
    <3> HIDE DEF late
    <3> QED BY <1>1, <3>1, ReaderTyped, CacheRecords DEF File
  <2>6. CallSafe(p)'
    BY <1>1, <2>1, <2>3, <2>5, ReaderTyped DEF CallSafe, FetchedPcs
  <2>7. CacheTypeOK' /\ \A q \in Readers : CallSafe(q)'
    BY <2>4, <2>5, <2>6, OthersSafe
  <2>8. FileSafe' /\ NoForgottenEntry'
    BY <1>1, <2>1, <2>5, CacheRecords, ReaderTyped DEF FileSafe, NoForgottenEntry
  <2>9. BlankIsTransient'
    BY <2>3, <2>5 DEF BlankIsTransient, Opened
  <2> QED BY <2>7, <2>8, <2>9 DEF CacheInv
<1>3. CASE ~cacheable
  <2>1. /\ file' = file /\ reader' = [reader EXCEPT ![p].pc = "got"]
        /\ UNCHANGED <<time, server, cleared, overlaps, kills>>
    BY <1>3 DEF Arrives, Advance
  <2>2. /\ reader'[p] = [reader[p] EXCEPT !.pc = "got"]
        /\ reader' = [reader EXCEPT ![p] = reader'[p]]
    BY <1>1, <2>1 DEF CacheTypeOK
  <2>3. /\ reader'[p] \in Reader /\ reader'[p].pc = "got" /\ reader'[p].body = reader[p].body
        /\ reader'[p].since = reader[p].since
    BY <1>1, <2>2, ReaderTyped DEF Reader
  <2>4. Quick(p)
    BY <1>1, <2>1, <2>2, <2>3, ReaderTyped DEF Quick, CacheTypeOK
  <2>5. CallSafe(p)'
    BY <1>1, <2>1, <2>3, ReaderTyped, CacheNumbers, CacheRecords DEF CallSafe, FetchedPcs
  <2> QED BY <1>1, <2>1, <2>4, <2>5, CacheCalm DEF Opened
<1> QED BY <1>2, <1>3

\* The file opened for writing gets what was fetched, unless it was removed in between.
LEMMA FillSafe ==
  ASSUME CacheInv, NEW p \in Readers, FillFile(p) PROVE CacheInv'
<1>1. /\ CacheTypeOK /\ CallSafe(p) /\ reader[p].pc = "fill"
      /\ FileSafe /\ NoForgottenEntry /\ BlankIsTransient
      /\ UNCHANGED <<time, server, cleared, overlaps, kills>>
  BY DEF CacheInv, FillFile
<1>2. /\ reader'[p] = [reader[p] EXCEPT !.pc = "got"]
      /\ reader' = [reader EXCEPT ![p] = reader'[p]]
  BY <1>1 DEF FillFile, Advance, CacheTypeOK
<1>3. /\ reader'[p] \in Reader /\ reader'[p].pc = "got" /\ reader'[p].body = reader[p].body
      /\ reader'[p].since = reader[p].since
  BY <1>1, <1>2, ReaderTyped DEF Reader
<1>4. Quick(p)
  BY <1>1, <1>2, <1>3, ReaderTyped DEF Quick, CacheTypeOK
<1>5. CallSafe(p)'
  BY <1>1, <1>3, ReaderTyped, CacheNumbers, CacheRecords DEF CallSafe, FetchedPcs
<1>6. ASSUME NEW whole \in BOOLEAN, reader[p].body # Nothing, Opened(p),
             file' = [file EXCEPT !.mtime = time, !.late = @ \/ p \in overlaps,
                                  !.body = [reader[p].body EXCEPT !.whole = whole]]
      PROVE  CacheInv'
  <2>1. /\ [reader[p].body EXCEPT !.whole = whole] \in Body
        /\ [reader[p].body EXCEPT !.whole = whole].asOf = reader[p].body.asOf
        /\ [reader[p].body EXCEPT !.whole = whole].version = reader[p].body.version
    BY <1>1, ReaderTyped DEF Body
  <2>2. /\ file' \in File /\ file'.node = file.node /\ file'.mtime = time
        /\ file'.late = (file.late \/ p \in overlaps)
        /\ file'.body.asOf = reader[p].body.asOf
        /\ file'.body.version = reader[p].body.version
    BY <1>1, <1>6, <2>1, ReaderTyped DEF File
  <2>3. CacheTypeOK' /\ \A q \in Readers : CallSafe(q)'
    BY <1>4, <1>5, <2>2, OthersSafe
  <2>4. FileSafe'
    BY <1>1, <1>6, <2>2, ReaderTyped, CacheNumbers DEF FileSafe, CallSafe, FetchedPcs
  <2>5. NoForgottenEntry'
    BY <1>1, <1>6, <2>2, ReaderTyped DEF NoForgottenEntry, CallSafe, FetchedPcs
  <2>6. BlankIsTransient'
    BY <1>1, <1>6, <2>2, ReaderTyped, CacheNumbers DEF BlankIsTransient, CallSafe, FetchedPcs
  <2> QED BY <2>3, <2>4, <2>5, <2>6 DEF CacheInv
<1>7. CASE (file' = file \/ file' = Spoiled) /\ (Opened(p) => file' = Spoiled)
  BY <1>4, <1>5, <1>7, CacheCalm
<1> QED BY <1>6, <1>7 DEF FillFile

\* A write to the server begins.
LEMMA PostSafe ==
  ASSUME CacheInv, NEW p \in Readers, Post(p) PROVE CacheInv'
<1>1. CacheTypeOK /\ reader[p].pc = "idle"
  BY DEF CacheInv, Post
<1>2. /\ reader'[p] = [IdleReader EXCEPT !.pc = "post", !.since = time]
      /\ reader' = [reader EXCEPT ![p] = reader'[p]]
  BY <1>1 DEF Post, CacheTypeOK
<1>3. reader'[p].pc = "post" /\ reader'[p].since = time /\ reader'[p] \in Reader
  BY <1>1, <1>2, ReaderTyped, CacheRecords DEF IdleReader, Reader
<1>4. Quick(p)
  BY <1>1, <1>2, <1>3, ReaderTyped DEF Post, Quick, CacheTypeOK
<1>5. CallSafe(p)'
  BY <1>1, <1>3, ReaderTyped, CacheNumbers DEF Post, CallSafe, FetchedPcs
<1> QED BY <1>1, <1>4, <1>5, CacheCalm DEF Post, Opened

\* The server applies a write; an answered one goes on to clear the cache.
LEMMA AppliedSafe ==
  ASSUME CacheInv, NEW p \in Readers, NEW answered \in BOOLEAN, PostApplied(p, answered)
  PROVE  CacheInv'
<1>1. CacheTypeOK /\ reader[p].pc = "post" /\ server' = server + 1 /\ server < MaxMutations
  BY DEF CacheInv, PostApplied
<1> DEFINE body == [Nothing EXCEPT !.version = server + 1]
           pc == IF answered THEN "clear" ELSE "idle"
<1>2. body \in Body /\ body.version = server + 1
  <2>1. server + 1 \in Nat
    BY <1>1, ReaderTyped
  <2> QED BY <2>1, CacheRecords DEF Body
<1>3. /\ reader'[p] = [IdleReader EXCEPT !.pc = pc, !.since = time, !.body = body]
      /\ reader' = [reader EXCEPT ![p] = reader'[p]]
  BY <1>1 DEF PostApplied, CacheTypeOK
<1> HIDE DEF body
<1>4. /\ reader'[p].pc \in {"clear", "idle"} /\ reader'[p].since = time
      /\ reader'[p].body = body /\ reader'[p] \in Reader
  <2>1. reader'[p] = [pc |-> pc, since |-> time, body |-> body, hit |-> FALSE, node |-> 0]
    BY <1>3 DEF IdleReader
  <2> QED BY <1>1, <1>2, <2>1, ReaderTyped DEF Reader
<1>5. Quick(p)
  BY <1>1, <1>3, <1>4, ReaderTyped, CacheNumbers DEF PostApplied, Quick, CacheTypeOK
<1>6. CallSafe(p)'
  BY <1>1, <1>2, <1>4, ReaderTyped, CacheNumbers DEF PostApplied, CallSafe, FetchedPcs
<1> QED BY <1>1, <1>5, <1>6, CacheCalm DEF PostApplied, Opened

\* An invalidation leaves no file, and notes who is in a call.
LEMMA ClearSafe ==
  ASSUME CacheInv, NEW p \in Readers, ClearCache(p) PROVE CacheInv'
<1>1. CacheTypeOK /\ CallSafe(p) /\ reader[p].pc = "clear" /\ \A q \in Readers : CallSafe(q)
  BY DEF CacheInv, ClearCache
<1>2. /\ file' \in File /\ file'.node = file.node + 1 /\ file'.mtime = -1
      /\ file'.body = Nothing
  <2>1. file' = [node |-> file.node + 1, mtime |-> -1, body |-> Nothing, late |-> FALSE,
                   spoiled |-> FALSE]
    BY DEF ClearCache, Removed, NoFile, Never
  <2> QED BY <1>1, <2>1, ReaderTyped, CacheRecords, CacheNumbers DEF File
<1>3. /\ cleared' \in Nat /\ cleared' >= cleared /\ cleared' <= server
      /\ UNCHANGED <<time, server, kills>>
  BY <1>1, ReaderTyped DEF ClearCache, CallSafe
<1>4. reader'[p] = IdleReader /\ \A q \in Readers : q # p => reader'[q] = reader[q]
  BY <1>1 DEF ClearCache, CacheTypeOK
<1>5. CacheTypeOK'
  <2>1. reader' \in [Readers -> Reader] /\ overlaps' \subseteq Readers
    BY <1>1, CacheRecords DEF ClearCache, CacheTypeOK
  <2> QED BY <1>1, <1>2, <1>3, <2>1, ReaderTyped DEF CacheTypeOK
<1>6. FileSafe' /\ NoForgottenEntry' /\ BlankIsTransient'
  BY <1>1, <1>2, <1>3, CacheRecords, CacheNumbers, ReaderTyped
  DEF FileSafe, NoForgottenEntry, BlankIsTransient, Exists
<1>7. CallSafe(p)'
  BY <1>4, CacheRecords DEF CallSafe, FetchedPcs
<1>8. ASSUME NEW q \in Readers, q # p PROVE CallSafe(q)'
  <2>1. reader'[q] = reader[q] /\ CallSafe(q) /\ (reader[q].pc # "idle" => q \in overlaps')
    BY <1>1, <1>4, <1>8 DEF ClearCache
  <2>2. ~Exists'
    BY <1>2, CacheNumbers DEF Exists
  <2> QED BY <1>1, <1>2, <1>3, <2>1, <2>2, ReaderTyped DEF CallSafe, FetchedPcs
<1> QED BY <1>5, <1>6, <1>7, <1>8 DEF CacheInv

\* No time passes while a process is at a local file, and no call takes longer than its limit.
LEMMA TimeSafe ==
  ASSUME CacheInv, TimePasses PROVE CacheInv'
<1>1. CacheTypeOK /\ time' = time + 1 /\ \A p \in Readers : CallSafe(p)
  BY DEF CacheInv, TimePasses
<1>2. UNCHANGED <<server, file, reader, cleared, overlaps, kills>>
  BY DEF TimePasses
<1>3. time \in 0 .. MaxClock /\ MaxClock \in Nat /\ time < MaxClock
  BY <1>1, CacheNumbers DEF CacheTypeOK, TimePasses
<1>4. CacheTypeOK'
  BY <1>1, <1>2, <1>3 DEF CacheTypeOK
<1>5. FileSafe'
  <2>1. file.mtime \in {-1} \cup Nat
    BY <1>1, CacheNumbers DEF CacheTypeOK, File
  <2> QED BY <1>1, <1>2, <1>3, <2>1 DEF CacheInv, FileSafe
<1>6. NoForgottenEntry' /\ BlankIsTransient'
  BY <1>2 DEF CacheInv, NoForgottenEntry, BlankIsTransient, Exists, Opened
<1>7. ASSUME NEW p \in Readers PROVE CallSafe(p)'
  <2>1. CallSafe(p) /\ reader[p].pc \in {"idle", "flight", "answered", "post"}
    BY <1>1 DEF TimePasses
  <2>2. reader[p].pc # "idle" => time < reader[p].since + CommandTimeout
    BY DEF TimePasses
  <2> QED BY <1>1, <1>2, <1>3, <2>1, <2>2, ReaderTyped, CacheNumbers DEF CallSafe, FetchedPcs
<1> QED BY <1>4, <1>5, <1>6, <1>7 DEF CacheInv

\* CacheInv is inductive: one step per action of the client.
LEMMA CacheKept ==
  ASSUME CacheInv, NEW p \in Readers, CacheStep(p) PROVE CacheInv'
<1>1. CASE CallFails(p)
  <2>1. CacheTypeOK
    BY DEF CacheInv
  <2>2. kills' \in kills .. MaxKills
    BY <1>1, <2>1, ReaderTyped DEF CallFails
  <2> QED BY <1>1, <2>2, CallEnds DEF CallFails, Opened
<1>2. CASE Killed(p)
  <2>1. CacheTypeOK
    BY DEF CacheInv
  <2>2. kills' \in kills .. MaxKills
    BY <1>2, <2>1, ReaderTyped, CacheNumbers DEF Killed
  <2> QED BY <1>2, <2>2, CallEnds DEF Killed
<1> QED BY <1>1, <1>2, GetSafe, ReadFileSafe, AnswerSafe, ArrivesSafe, FillSafe, PostSafe,
           AppliedSafe, ClearSafe DEF CacheStep

(***************************************************************************)
(* The snapshots.                                                          *)
(***************************************************************************)

\* A snapshot claims a time close to that of its content.
Dated(s) ==
  s.at <= s.asOf + CacheTTL + CommandTimeout /\ s.asOf <= s.at + CommandTimeout

HistoryInv == HistoryTypeOK /\ CacheInv /\ \A s \in history : Dated(s)

\* At first there is no snapshot.
LEMMA HistoryInitSafe == HistoryInit => HistoryInv
<1>1. MaxSnapshots \in Nat
  BY HistoryAssumption
<1> QED BY <1>1, CacheInitSafe DEF HistoryInit, HistoryInv, HistoryTypeOK, CacheInv

\* Every step of the cache and of the history keeps the invariant of both.
LEMMA HistoryKept == HistoryInv /\ [HistoryNext]_historyVars => HistoryInv'
<1> SUFFICES ASSUME HistoryInv, [HistoryNext]_historyVars PROVE HistoryInv'
  OBVIOUS
<1>1. CacheInv /\ CacheTypeOK /\ history \subseteq Snapshot /\ saved \in 0 .. MaxSnapshots
  BY DEF HistoryInv, HistoryTypeOK
<1>2. ASSUME CacheInv', UNCHANGED <<history, saved>> PROVE HistoryInv'
  BY <1>2 DEF HistoryInv, HistoryTypeOK, CacheInv, Dated
<1>3. ASSUME NEW p \in Readers, CacheStep(p), UNCHANGED <<history, saved>> PROVE HistoryInv'
  BY <1>1, <1>2, <1>3, CacheKept
<1>4. ASSUME NEW p \in Readers, Done(p) PROVE HistoryInv'
  <2>1. kills' \in kills .. MaxKills
    BY <1>1, <1>4, ReaderTyped DEF Done
  <2> QED BY <1>1, <1>2, <1>4, <2>1, CallEnds DEF Done, Opened
<1>5. ASSUME NEW p \in Readers, NEW digest \in BOOLEAN, Save(p, digest) PROVE HistoryInv'
  <2> DEFINE s == [at |-> CapturedAt(p, digest), asOf |-> reader[p].body.asOf]
  <2>1. CallSafe(p) /\ reader[p].pc = "got" /\ reader[p].body.whole
    BY <1>1, <1>5 DEF Save, CacheInv
  <2>2. s \in Snapshot
    BY <1>1, <2>1, ReaderTyped, CacheNumbers DEF CapturedAt, Snapshot, CallSafe
  <2>3. Dated(s)
    BY <1>1, <2>1, ReaderTyped, CacheNumbers DEF CapturedAt, Dated, CallSafe
  <2>4. history' = Filed(history, s)
    BY <1>5 DEF Save
  <2> HIDE DEF s
  <2>5. history' \subseteq Snapshot /\ \A t \in history' : t \in history \/ t = s
    BY <1>1, <2>2, <2>4 DEF Filed
  <2>6. CacheInv'
    <3>1. kills' \in kills .. MaxKills
      BY <1>1, <1>5, ReaderTyped DEF Save
    <3> QED BY <1>1, <1>5, <2>1, <3>1, CallEnds DEF Save, Opened
  <2>7. saved' \in 0 .. MaxSnapshots
    BY <1>1, <1>5, HistoryAssumption DEF Save
  <2>8. \A t \in history' : Dated(t)
    BY <2>3, <2>5 DEF HistoryInv
  <2> QED BY <2>5, <2>6, <2>7, <2>8 DEF HistoryInv, HistoryTypeOK, CacheInv, Dated
<1>6. CASE TimePasses /\ UNCHANGED <<history, saved>>
  BY <1>1, <1>2, <1>6, TimeSafe
<1>7. CASE UNCHANGED historyVars
  BY <1>1, <1>7 DEF historyVars, cacheVars, HistoryInv, HistoryTypeOK, CacheInv, CacheTypeOK,
     FileSafe, NoForgottenEntry, BlankIsTransient, CallSafe, Exists, Opened, Dated
<1> QED BY <1>3, <1>4, <1>5, <1>6, <1>7 DEF HistoryNext

\* The invariant of the cache and of the history always holds.
LEMMA HistorySafe == HistorySpec => []HistoryInv
BY HistoryInitSafe, HistoryKept, PTL DEF HistorySpec

\* The cache and the snapshots are well typed.
THEOREM HistoryTypeCorrect == HistorySpec => []HistoryTypeOK
<1>1. HistoryInv => HistoryTypeOK
  BY DEF HistoryInv
<1> QED BY <1>1, HistorySafe, PTL

\* What a call returns was true no longer ago than the lifetime of the cache and one call.
THEOREM CacheServesFresh == HistorySpec => []ServedFresh
<1>1. HistoryInv => ServedFresh
  <2> SUFFICES ASSUME HistoryInv, NEW p \in Readers, reader[p].pc = "got", reader[p].body.whole
               PROVE  time - reader[p].body.asOf <= CacheTTL + CommandTimeout
    BY DEF ServedFresh
  <2> QED BY ReaderTyped, CacheNumbers DEF HistoryInv, CacheInv, CallSafe
<1> QED BY <1>1, HistorySafe, PTL

\* An entry older than a change that was invalidated was put there by a call that had started
\* before that invalidation.
THEOREM CacheForgetsNoEntry == HistorySpec => []NoForgottenEntry
<1>1. HistoryInv => NoForgottenEntry
  BY DEF HistoryInv, CacheInv
<1> QED BY <1>1, HistorySafe, PTL

\* An empty body is in the file only while a writer is at it, unless one that had opened this file
\* was killed, could not write or had got an empty answer: nothing else leaves one behind.
THEOREM CacheBlankIsTransient == HistorySpec => []BlankIsTransient
<1>1. HistoryInv => BlankIsTransient
  BY DEF HistoryInv, CacheInv
<1> QED BY <1>1, HistorySafe, PTL

\* Of two snapshots far enough apart the later one tells the later weather.
THEOREM DriftKeepsOrder == HistorySpec => []DriftInOrder
<1>1. HistoryInv => DriftInOrder
  <2> SUFFICES ASSUME HistoryInv, NEW s \in history, NEW t \in history,
                      s.at + CacheTTL + 2 * CommandTimeout < t.at
               PROVE  s.asOf <= t.asOf
    BY DEF DriftInOrder
  <2>1. s \in Snapshot /\ t \in Snapshot /\ Dated(s) /\ Dated(t)
    BY DEF HistoryInv, HistoryTypeOK
  <2> QED BY <2>1, CacheNumbers DEF Snapshot, Dated
<1> QED BY <1>1, HistorySafe, PTL

--------------------------------------------------------------------------------
(***************************************************************************)
(* AdaptiveLimiter, for any number of callers and any rates.  Slots are    *)
(* handed out in a line: the invariant bounds how far away a slot is by    *)
(* the callers ahead of it, each of them worth at most the delay of the    *)
(* slowest rate.                                                           *)
(***************************************************************************)

(***************************************************************************)
(* Arithmetic.                                                             *)
(***************************************************************************)

\* A quotient of natural numbers, and what is left.
LEMMA Quotient ==
  ASSUME NEW n \in Nat, NEW d \in Nat \ {0}
  PROVE  n \div d \in Nat /\ d * (n \div d) <= n /\ n < d * (n \div d) + d
  OBVIOUS

\* A product of natural numbers is one.
LEMMA ProductNat == \A m, n \in Nat : m * n \in Nat
  OBVIOUS

\* A product grows with its factors.
LEMMA ProductGrows ==
  ASSUME NEW a \in Nat, NEW b \in Nat, NEW m \in Nat, NEW n \in Nat, a <= b, m <= n
  PROVE  a * m <= b * n
  <1>1. a * m <= a * n
    <2>1. PICK k \in Nat : n = m + k
      <3>1. n - m \in Nat /\ n = m + (n - m)
        OBVIOUS
      <3> QED BY <3>1
    <2>2. a * n = a * m + a * k /\ a * k \in Nat /\ a * m \in Nat
      BY <2>1
    <2> QED BY <2>2
  <1>2. a * n <= b * n
    <2>1. PICK k \in Nat : b = a + k
      <3>1. b - a \in Nat /\ b = a + (b - a)
        OBVIOUS
      <3> QED BY <3>1
    <2>2. b * n = a * n + k * n /\ k * n \in Nat /\ a * n \in Nat
      BY <2>1
    <2> QED BY <2>2
  <1>3. a * m \in Nat /\ a * n \in Nat /\ b * n \in Nat
    BY ProductNat
  <1> QED BY <1>1, <1>2, <1>3

\* A higher rate has shorter delays.
LEMMA QuotientFalls ==
  ASSUME NEW n \in Nat, NEW a \in Nat \ {0}, NEW b \in Nat \ {0}, a <= b
  PROVE  n \div b <= n \div a
<1> DEFINE q == n \div a
           r == n \div b
<1>1. q \in Nat /\ n < a * q + a
  BY Quotient
<1>2. r \in Nat /\ b * r <= n
  BY Quotient
<1> HIDE DEF q, r
<1> SUFFICES ASSUME ~(r <= q) PROVE FALSE
  BY DEF q, r
<1>3. q + 1 <= r /\ q + 1 \in Nat
  BY <1>1, <1>2
<1>4. a * (q + 1) <= b * r
  BY <1>2, <1>3, ProductGrows
<1>5. a * (q + 1) = a * q + a /\ a * q \in Nat /\ b * r \in Nat
  BY <1>1, <1>2, ProductNat
<1> QED BY <1>1, <1>2, <1>4, <1>5

(***************************************************************************)
(* The constants and the rates.                                            *)
(***************************************************************************)

\* What is assumed of the constants.
LEMMA LimiterConstants ==
  /\ IsFiniteSet(Callers) /\ Period \in Nat \ {0} /\ FloorRate \in Nat \ {0} /\ StartRate \in Nat \ {0}
  /\ FloorRate <= StartRate /\ StartRate <= Period
  /\ RampAfter \in Nat \ {0} /\ Brake \in Nat \ {0}
  /\ Remainings \subseteq Nat /\ Resets \subseteq Nat \ {0}
  /\ LongestDelay \in Nat
<1>1. FloorRate \in Nat \ {0} /\ Period \in Nat \ {0}
  BY LimiterAssumption
<1> QED BY <1>1, LimiterAssumption, Quotient DEF LongestDelay

\* A rate between the floor and the period, and not above an explicit --rate-limit.
Governed(l) ==
  /\ l \in Limiter /\ FloorRate <= l.rate
  /\ l.maxRate > 0 => l.rate <= l.maxRate

\* What a rate is floored and capped to.
LEMMA FlooredRate ==
  ASSUME limiter \in Limiter, NEW rate \in Nat
  PROVE  /\ Floored(Capped(rate)) \in Nat /\ FloorRate <= Floored(Capped(rate))
         /\ limiter.maxRate > 0 => Floored(Capped(rate)) <= limiter.maxRate
         /\ Floored(rate) \in Nat /\ FloorRate <= Floored(rate)
         /\ \A cap \in Nat : rate <= cap /\ FloorRate <= cap => Floored(rate) <= cap
<1>1. limiter.maxRate \in {0, StartRate}
  BY DEF Limiter
<1> QED BY <1>1, LimiterConstants DEF Floored, Capped, Greatest, Least

\* The limiter with another rate.
Rated(l, rate, successes) == [l EXCEPT !.rate = rate, !.successes = successes]

\* A limiter given a rate between the floor and its maximum is governed by both.
LEMMA RatedGoverned ==
  ASSUME NEW l \in Limiter, NEW rate \in Nat, NEW successes \in 0 .. RampAfter,
         FloorRate <= rate, l.maxRate > 0 => rate <= l.maxRate
  PROVE  Governed(Rated(l, rate, successes)) /\ Rated(l, rate, successes).last = l.last
         /\ Rated(l, rate, successes).maxRate = l.maxRate
  BY DEF Limiter, Governed, Rated

\* What an answer may make of the limiter.
Follows(l, old) == Governed(l) /\ l.last = old.last /\ l.maxRate = old.maxRate

\* Headers raise or brake the rate within its bounds.
LEMMA HeadersGoverned ==
  ASSUME Governed(limiter), NEW r \in Remainings, NEW t \in Resets
  PROVE  Follows(ObserveHeaders(limiter, r, t), limiter)
<1> DEFINE budget == Greatest(limiter.budget, (r * Period) \div t)
           target == IF r * Period < budget * Brake THEN (r * Period) \div Brake ELSE budget
           rate == Floored(Capped(target))
<1>1. r \in Nat /\ t \in Nat \ {0} /\ Period \in Nat /\ Brake \in Nat \ {0} /\ limiter \in Limiter
  BY LimiterConstants DEF Governed
<1>2. r * Period \in Nat
  BY <1>1, ProductNat
<1>3. budget \in Nat
  <2>1. (r * Period) \div t \in Nat
    BY <1>1, <1>2, Quotient
  <2>2. limiter.budget \in Nat
    BY <1>1 DEF Limiter
  <2> QED BY <2>1, <2>2 DEF Greatest
<1>4. target \in Nat
  <2>1. (r * Period) \div Brake \in Nat
    BY <1>1, <1>2, Quotient
  <2> QED BY <2>1, <1>3
<1> HIDE DEF target
<1>5. rate \in Nat /\ FloorRate <= rate /\ (limiter.maxRate > 0 => rate <= limiter.maxRate)
  BY <1>1, <1>4, FlooredRate
<1>6. ObserveHeaders(limiter, r, t) =
        [limiter EXCEPT !.budget = budget, !.rate = rate, !.headerDriven = TRUE, !.successes = 0]
  BY DEF ObserveHeaders, target
<1> HIDE DEF rate, budget
<1>7. 0 \in 0 .. RampAfter
  BY LimiterConstants
<1> QED BY <1>1, <1>3, <1>5, <1>6, <1>7 DEF Follows, Governed, Limiter

\* A refusal halves the rate, but not below the floor.
LEMMA RefusalGoverned ==
  ASSUME limiter \in Limiter, NEW l, Governed(l) PROVE Follows(OnRateLimit(l), l)
<1> DEFINE half == l.rate \div 2
           rate == Floored(half)
           budget == IF l.headerDriven THEN l.budget ELSE l.budget \div 2
<1>1. l \in Limiter /\ l.rate \in Nat /\ FloorRate <= l.rate /\ l.budget \in Nat
      /\ FloorRate \in Nat /\ 0 \in 0 .. RampAfter
  BY LimiterConstants DEF Governed, Limiter
<1>2. half \in Nat /\ half <= l.rate
  BY <1>1
<1> HIDE DEF half
<1>3. rate \in Nat /\ FloorRate <= rate /\ rate <= l.rate
  BY <1>1, <1>2, FlooredRate
<1>4. budget \in Nat
  BY <1>1
<1>5. OnRateLimit(l) =
        [l EXCEPT !.ceiling = l.rate, !.rate = rate, !.successes = 0, !.budget = budget]
  BY DEF OnRateLimit, half
<1> HIDE DEF rate, budget
<1>6. l.maxRate \in Nat /\ (l.maxRate > 0 => l.rate <= l.maxRate)
  BY <1>1, LimiterConstants DEF Governed, Limiter
<1>7. l.maxRate > 0 => rate <= l.maxRate
  BY <1>1, <1>3, <1>6
<1> QED BY <1>1, <1>3, <1>4, <1>5, <1>7 DEF Follows, Governed, Limiter

\* Successes raise the rate, not above the limit.
LEMMA SuccessGoverned ==
  ASSUME limiter \in Limiter, NEW l, Governed(l), l.maxRate = limiter.maxRate
  PROVE  Follows(OnSuccess(l), l)
<1>1. l \in Limiter /\ l.rate \in Nat /\ l.ceiling \in Nat /\ 0 \in 0 .. RampAfter
      /\ l.successes \in 0 .. RampAfter /\ RampAfter \in Nat \ {0}
      /\ FloorRate <= l.rate /\ (l.maxRate > 0 => l.rate <= l.maxRate)
  BY LimiterConstants DEF Governed, Limiter
<1>2. CASE l.headerDriven
  <2>1. OnSuccess(l) = Rated(l, l.rate, 0)
    BY <1>1, <1>2 DEF OnSuccess, Rated, Limiter
  <2> QED BY <1>1, <2>1, RatedGoverned DEF Follows
<1>3. CASE ~l.headerDriven /\ l.successes + 1 < RampAfter
  <2> DEFINE successes == l.successes + 1
  <2>1. successes \in 0 .. RampAfter
    BY <1>1, <1>3
  <2>2. OnSuccess(l) = Rated(l, l.rate, successes)
    BY <1>1, <1>3 DEF OnSuccess, Ramped, Rated, Limiter
  <2> HIDE DEF successes
  <2> QED BY <1>1, <2>1, <2>2, RatedGoverned DEF Follows
<1>4. CASE ~l.headerDriven /\ ~(l.successes + 1 < RampAfter)
  <2> DEFINE raised == (l.rate * 5) \div 4
             known == IF l.ceiling > 0 THEN Least(raised, (l.ceiling * 9) \div 10) ELSE raised
             rate == Floored(Capped(known))
  <2>1. known \in Nat
    BY <1>1 DEF Least
  <2>2. OnSuccess(l) = Rated(l, rate, 0)
    BY <1>1, <1>4 DEF OnSuccess, Ramped, Rated, Limiter
  <2> HIDE DEF known
  <2>3. rate \in Nat /\ FloorRate <= rate /\ (limiter.maxRate > 0 => rate <= limiter.maxRate)
    BY <2>1, FlooredRate
  <2> HIDE DEF rate
  <2> QED BY <1>1, <2>2, <2>3, RatedGoverned DEF Follows
<1> QED BY <1>2, <1>3, <1>4

(***************************************************************************)
(* The pace.                                                               *)
(***************************************************************************)

PaceInv == LimiterTypeOK /\ Governed(limiter) /\ Polite

\* At first the rate is the starting rate.
LEMMA PaceInit == LimiterInit => PaceInv
<1> SUFFICES ASSUME LimiterInit PROVE PaceInv
  OBVIOUS
<1>1. PICK maxRate \in {0, StartRate} :
        limiter = [rate |-> StartRate, ceiling |-> 0, budget |-> 0, successes |-> 0,
                   headerDriven |-> FALSE, maxRate |-> maxRate, last |-> -LongestDelay]
  BY DEF LimiterInit
<1>2. Governed(limiter) /\ (limiter.maxRate > 0 => limiter.maxRate = StartRate)
  BY <1>1, LimiterConstants DEF Governed, Limiter
<1>3. gap = LongestDelay /\ gap \in Nat
  BY LimiterConstants DEF LimiterInit
<1>4. Period \div StartRate <= LongestDelay
  BY LimiterConstants, QuotientFalls DEF LongestDelay
<1>5. caller \in [Callers -> Caller]
  BY DEF LimiterInit, Caller
<1> QED BY <1>2, <1>3, <1>4, <1>5 DEF PaceInv, LimiterTypeOK, Polite, Governed

\* The slot that is reserved next is no nearer to the last one than the rate says.
LEMMA NextSlotSpaced ==
  ASSUME PaceInv
  PROVE  /\ NextSlot \in Nat /\ limiter.last \in Int /\ Period \div limiter.rate \in Nat
         /\ NextSlot >= limiter.last + Period \div limiter.rate
         /\ NextSlot > 0 => NextSlot = limiter.last + Period \div limiter.rate
         /\ Period \div limiter.rate <= LongestDelay
         /\ limiter.maxRate > 0 => Period \div limiter.maxRate <= Period \div limiter.rate
<1>1. /\ limiter.rate \in Nat \ {0} /\ FloorRate <= limiter.rate /\ limiter.last \in Int
      /\ limiter.maxRate \in Nat /\ (limiter.maxRate > 0 => limiter.rate <= limiter.maxRate)
  BY LimiterConstants DEF PaceInv, Governed, Limiter
<1> DEFINE delay == Period \div limiter.rate
<1>2. delay \in Nat
  BY <1>1, LimiterConstants, Quotient
<1>3. delay <= LongestDelay
  BY <1>1, LimiterConstants, QuotientFalls DEF LongestDelay
<1>4. ASSUME limiter.maxRate > 0 PROVE Period \div limiter.maxRate <= delay
  <2> DEFINE low == limiter.rate
             high == limiter.maxRate
  <2>1. low \in Nat \ {0} /\ high \in Nat \ {0} /\ low <= high /\ Period \in Nat
    BY <1>1, <1>4, LimiterConstants
  <2> HIDE DEF low, high
  <2>2. Period \div high <= Period \div low
    BY <2>1, QuotientFalls
  <2> QED BY <2>2 DEF low, high
<1>5. NextSlot = Greatest(0, limiter.last + delay)
  BY DEF NextSlot
<1> HIDE DEF delay
<1>6. /\ NextSlot \in Nat /\ NextSlot >= limiter.last + delay
      /\ NextSlot > 0 => NextSlot = limiter.last + delay
  BY <1>1, <1>2, <1>5 DEF Greatest
<1> QED BY <1>1, <1>2, <1>3, <1>4, <1>6 DEF delay

\* The limiter with another last slot.
LastAt(l, n) == [l EXCEPT !.last = n]

\* Moving the last slot moves no rate.
LEMMA LastGoverned ==
  ASSUME NEW l, Governed(l), NEW n \in Int
  PROVE  Governed(LastAt(l, n)) /\ LastAt(l, n).last = n /\ LastAt(l, n).maxRate = l.maxRate
         /\ LastAt(l, n).rate = l.rate
  BY DEF Governed, Limiter, LastAt

\* A reservation is spaced by the delay of the rate it is made at.
LEMMA ReserveKeepsPace == ASSUME PaceInv, NEW c \in Callers, Reserve(c) PROVE PaceInv'
<1>1. NextSlot \in Nat /\ limiter.last \in Int /\ Governed(limiter) /\ caller \in [Callers -> Caller]
  BY NextSlotSpaced DEF PaceInv, LimiterTypeOK
<1>2. limiter' = LastAt(limiter, NextSlot) /\ gap' = NextSlot - limiter.last
      /\ caller' = [caller EXCEPT ![c] = [pc |-> "waiting", slot |-> NextSlot]]
  BY DEF Reserve, LastAt
<1>3. Governed(limiter') /\ limiter'.maxRate = limiter.maxRate
  BY <1>1, <1>2, LastGoverned
<1>4. caller' \in [Callers -> Caller]
  BY <1>1, <1>2 DEF Caller
<1>5. gap' \in Nat /\ gap' >= Period \div limiter.rate
  BY <1>1, <1>2, NextSlotSpaced
<1>6. ASSUME limiter.maxRate > 0 PROVE gap' >= Period \div limiter.maxRate
  <2>1. limiter.maxRate \in Nat \ {0}
    BY <1>1, <1>6, LimiterConstants DEF Governed, Limiter
  <2>2. Period \div limiter.maxRate \in Nat
    BY <2>1, LimiterConstants, Quotient
  <2> QED BY <1>5, <1>6, <2>2, NextSlotSpaced
<1> QED BY <1>3, <1>4, <1>5, <1>6 DEF PaceInv, LimiterTypeOK, Governed, Polite

\* An answer, whatever it says.
LEMMA AnswerGoverned ==
  ASSUME PaceInv, NEW c \in Callers, NEW refused \in BOOLEAN, RateAnswer(c, refused)
  PROVE  Follows(limiter', limiter)
<1>1. Governed(limiter) /\ limiter \in Limiter
  BY DEF PaceInv, Governed
<1>2. PICK l \in {limiter} \cup {ObserveHeaders(limiter, r, t) : r \in Remainings, t \in Resets} :
        limiter' = IF refused THEN OnRateLimit(l) ELSE OnSuccess(l)
  BY DEF RateAnswer
<1>3. Follows(l, limiter)
  BY <1>1, HeadersGoverned DEF Follows
<1>4. Follows(OnRateLimit(l), l) /\ Follows(OnSuccess(l), l)
  BY <1>1, <1>3, RefusalGoverned, SuccessGoverned DEF Follows
<1> QED BY <1>2, <1>3, <1>4 DEF Follows

\* Every step of the limiter keeps the pace.
LEMMA PaceKept == PaceInv /\ [LimiterNext]_limiterVars => PaceInv'
<1> SUFFICES ASSUME PaceInv, [LimiterNext]_limiterVars PROVE PaceInv'
  OBVIOUS
<1>0. caller \in [Callers -> Caller] /\ Governed(limiter) /\ gap \in Nat /\ limiter.last \in Int
  BY DEF PaceInv, LimiterTypeOK, Governed, Limiter
<1>1. CASE \E c \in Callers : Reserve(c)
  BY <1>1, ReserveKeepsPace
<1>2. CASE \E c \in Callers : SendAtSlot(c) \/ Unanswered(c)
  <2>1. UNCHANGED <<limiter, gap>>
    BY <1>2 DEF SendAtSlot, Unanswered
  <2>2. caller' \in [Callers -> Caller]
    BY <1>0, <1>2 DEF SendAtSlot, Unanswered, Caller
  <2> QED BY <1>0, <2>1, <2>2 DEF PaceInv, LimiterTypeOK, Governed, Polite
<1>3. CASE \E c \in Callers, refused \in BOOLEAN : RateAnswer(c, refused)
  <2>0. PICK c \in Callers, refused \in BOOLEAN : RateAnswer(c, refused)
    BY <1>3
  <2>1. Follows(limiter', limiter)
    BY <2>0, AnswerGoverned
  <2>5. UNCHANGED gap
    BY <2>0 DEF RateAnswer
  <2>2. caller' \in [Callers -> Caller]
    BY <1>0, <1>3 DEF RateAnswer, Caller
  <2> QED BY <1>0, <2>1, <2>2, <2>5 DEF PaceInv, LimiterTypeOK, Governed, Polite, Follows
<1>4. CASE LimiterTick
  <2> DEFINE n == Greatest(limiter.last - 1, -LongestDelay)
  <2>1. n \in Int
    BY <1>0, LimiterConstants DEF Greatest
  <2>2. limiter' = LastAt(limiter, n) /\ UNCHANGED gap
    BY <1>0, <1>4 DEF LimiterTick, LastAt, Governed, Limiter
  <2> HIDE DEF n
  <2>3. Governed(limiter') /\ limiter'.maxRate = limiter.maxRate
    BY <1>0, <2>1, <2>2, LastGoverned
  <2>4. caller' \in [Callers -> Caller]
    BY <1>0, <1>4 DEF LimiterTick, Caller
  <2> QED BY <1>0, <2>2, <2>3, <2>4 DEF PaceInv, LimiterTypeOK, Governed, Polite
<1>5. CASE UNCHANGED limiterVars
  BY <1>5 DEF limiterVars, PaceInv, LimiterTypeOK, Governed, Polite
<1> QED BY <1>1, <1>2, <1>3, <1>4, <1>5 DEF LimiterNext

\* Every reachable state of the limiter is well-typed.
THEOREM LimiterTypeCorrect == LimiterSpec => []LimiterTypeOK
<1>1. PaceInv => LimiterTypeOK
  BY DEF PaceInv
<1> QED BY <1>1, PaceInit, PaceKept, PTL DEF LimiterSpec

\* An explicit --rate-limit is kept to by all goroutines together, for every rate, floor, number of
\* goroutines and every answer of the server.
THEOREM LimiterIsPolite == LimiterSpec => []Polite
<1>1. PaceInv => Polite
  BY DEF PaceInv
<1> QED BY <1>1, PaceInit, PaceKept, PTL DEF LimiterSpec

(***************************************************************************)
(* The line.                                                               *)
(***************************************************************************)

\* Who waits for a slot later than low, and not after high.
InLine(callers, low, high) ==
  {d \in Callers : callers[d].pc = "waiting" /\ low < callers[d].slot /\ callers[d].slot <= high}

\* Between any time and the slot of a caller there is no more than one longest delay for each slot
\* between them; the last slot is the highest, and somebody's if it is still to come.
LineInv ==
  /\ \A c \in Callers : caller[c].pc = "waiting" /\ caller[c].slot > 0 => caller[c].slot <= limiter.last
  /\ limiter.last > 0 =>
       \E c \in Callers : caller[c].pc = "waiting" /\ caller[c].slot = limiter.last
  /\ \A c \in Callers, low \in Nat : caller[c].pc = "waiting" /\ low < caller[c].slot =>
       caller[c].slot - low <= LongestDelay * Cardinality(InLine(caller, low, caller[c].slot))
  /\ limiter.rate <= Period

\* A line of callers is finite.
LEMMA InLineFinite == \A callers, low, high : IsFiniteSet(InLine(callers, low, high))
  BY LimiterConstants, FS_Subset DEF InLine

\* At first nobody waits.
LEMMA LineInit == LimiterInit => LineInv
<1> SUFFICES ASSUME LimiterInit PROVE LineInv
  OBVIOUS
<1>1. \A c \in Callers : caller[c].pc # "waiting"
  BY DEF LimiterInit
<1>2. limiter.last <= 0 /\ limiter.rate <= Period
  BY LimiterConstants DEF LimiterInit
<1>3. ~(limiter.last > 0)
  BY <1>2, LimiterConstants DEF LimiterInit
<1> QED BY <1>1, <1>2, <1>3 DEF LineInv

\* A step that leaves the waiting callers and the last slot alone leaves the line alone.
LEMMA LineFrame ==
  ASSUME LineInv, limiter'.last = limiter.last, limiter'.rate <= Period,
         \A c \in Callers : /\ caller'[c].pc = "waiting" /\ caller'[c].slot > 0 =>
                                 caller[c].pc = "waiting" /\ caller'[c].slot = caller[c].slot
                            /\ caller[c].pc = "waiting" /\ caller[c].slot > 0 =>
                                 caller'[c].pc = "waiting" /\ caller'[c].slot = caller[c].slot,
         \A c \in Callers : caller[c].slot \in Nat /\ caller'[c].slot \in Nat
  PROVE  LineInv'
<1>1. \A low \in Nat : \A high : InLine(caller', low, high) = InLine(caller, low, high)
  BY DEF InLine
<1>2. \A c \in Callers : caller'[c].pc = "waiting" /\ caller'[c].slot > 0 =>
                           caller'[c].slot <= limiter'.last
  BY DEF LineInv
<1>3. limiter'.last > 0 =>
        \E c \in Callers : caller'[c].pc = "waiting" /\ caller'[c].slot = limiter'.last
  BY DEF LineInv
<1>4. ASSUME NEW c \in Callers, NEW low \in Nat, caller'[c].pc = "waiting", low < caller'[c].slot
      PROVE  caller'[c].slot - low <= LongestDelay * Cardinality(InLine(caller', low, caller'[c].slot))
  <2>1. caller[c].pc = "waiting" /\ caller'[c].slot = caller[c].slot
    BY <1>4
  <2> QED BY <1>1, <1>4, <2>1 DEF LineInv
<1> QED BY <1>2, <1>3, <1>4 DEF LineInv

\* One more caller in the line is one more delay.
LEMMA LineGrows ==
  ASSUME NEW S \in SUBSET Callers, NEW c \in Callers, c \notin S, NEW n \in Int, NEW m \in Int,
         n <= LongestDelay * Cardinality(S), m <= n + LongestDelay
  PROVE  m <= LongestDelay * Cardinality(S \cup {c})
<1>1. IsFiniteSet(S) /\ LongestDelay \in Nat
  BY LimiterConstants, FS_Subset
<1>2. Cardinality(S \cup {c}) = Cardinality(S) + 1 /\ Cardinality(S) \in Nat
  BY <1>1, FS_AddElement, FS_CardinalityType
<1> DEFINE k == Cardinality(S)
<1>3. LongestDelay * (k + 1) = LongestDelay * k + LongestDelay /\ LongestDelay * k \in Nat
  BY <1>1, <1>2
<1> HIDE DEF k
<1>4. n <= LongestDelay * k
  BY DEF k
<1>5. m <= LongestDelay * (k + 1)
  BY <1>1, <1>3, <1>4
<1> QED BY <1>2, <1>5 DEF k

\* The next slot is at most one delay later than the last.
LEMMA ReserveKeepsLine == ASSUME PaceInv, LineInv, NEW c \in Callers, Reserve(c) PROVE LineInv'
<1> DEFINE slot == NextSlot
           last == limiter.last
           delay == Period \div limiter.rate
<1>1. /\ slot \in Nat /\ last \in Int /\ delay \in Nat /\ slot >= last + delay
      /\ slot > 0 => slot = last + delay
      /\ delay <= LongestDelay /\ LongestDelay \in Nat
  BY NextSlotSpaced, LimiterConstants
<1>2. delay >= 1
  <2>1. limiter.rate \in Nat \ {0} /\ limiter.rate <= Period /\ Period \in Nat \ {0}
    BY LimiterConstants DEF PaceInv, LineInv, Governed, Limiter
  <2> DEFINE rate == limiter.rate
  <2>2. Period \div rate \in Nat /\ Period < rate * (Period \div rate) + rate
    BY <2>1, Quotient
  <2>3. Period \div rate # 0
    <3>1. Period \div rate = 0 => rate * (Period \div rate) = 0
      BY <2>1
    <3> QED BY <2>1, <2>2, <3>1
  <2> QED BY <2>2, <2>3
<1>3. /\ limiter' = LastAt(limiter, slot) /\ limiter'.last = slot /\ limiter'.rate = limiter.rate
      /\ caller'[c] = [pc |-> "waiting", slot |-> slot]
      /\ \A d \in Callers : d # c => caller'[d] = caller[d]
      /\ caller[c].pc = "idle" /\ caller \in [Callers -> Caller]
      /\ \A d \in Callers : caller[d].slot \in Nat
  <2>1. /\ limiter' = LastAt(limiter, slot) /\ caller[c].pc = "idle"
        /\ caller' = [caller EXCEPT ![c] = [pc |-> "waiting", slot |-> slot]]
    BY DEF Reserve, LastAt
  <2>2. caller \in [Callers -> Caller] /\ Governed(limiter)
    BY DEF PaceInv, LimiterTypeOK
  <2> HIDE DEF slot
  <2>3. limiter'.last = slot /\ limiter'.rate = limiter.rate
    <3>1. slot \in Int
      BY <1>1
    <3> QED BY <2>1, <2>2, <3>1, LastGoverned
  <2> QED BY <2>1, <2>2, <2>3 DEF Caller
<1> HIDE DEF slot, delay
<1>4. \A d \in Callers : caller[d].pc = "waiting" /\ caller[d].slot > 0 => caller[d].slot < slot
  BY <1>1, <1>2, <1>3 DEF LineInv
<1>5. ASSUME NEW low \in Nat, low < slot
      PROVE  slot - low <= LongestDelay * Cardinality(InLine(caller', low, slot))
  <2>1. slot = last + delay
    BY <1>1, <1>5
  <2> DEFINE S == InLine(caller, low, last)
  <2>2. InLine(caller', low, slot) = S \cup {c}
    <3>1. ASSUME NEW d \in Callers, d # c
          PROVE  d \in InLine(caller', low, slot) <=> d \in S
      BY <1>1, <1>2, <1>3, <1>4, <3>1, <2>1 DEF InLine, LineInv
    <3>2. c \in InLine(caller', low, slot)
      BY <1>1, <1>3, <1>5 DEF InLine
    <3>3. InLine(caller', low, slot) \subseteq Callers /\ S \subseteq Callers
      BY DEF InLine
    <3> HIDE DEF S
    <3> QED BY <3>1, <3>2, <3>3
  <2>3. S \subseteq Callers /\ c \notin S
    BY <1>3 DEF InLine
  <2>4. Cardinality(S) \in Nat
    BY InLineFinite, FS_CardinalityType
  <2>5. CASE low < last
    <3>1. PICK d \in Callers : caller[d].pc = "waiting" /\ caller[d].slot = last
      BY <1>1, <2>5 DEF LineInv
    <3>2. last - low <= LongestDelay * Cardinality(S)
      BY <2>5, <3>1 DEF LineInv
    <3>3. slot - low <= last - low + LongestDelay
      BY <1>1, <2>1
    <3> HIDE DEF S, last
    <3> QED BY <1>1, <2>2, <2>3, <3>2, <3>3, LineGrows
  <2>6. CASE ~(low < last)
    <3>1. 0 <= LongestDelay * Cardinality(S)
      BY <1>1, <2>4, ProductNat
    <3>2. slot - low <= 0 + LongestDelay
      BY <1>1, <2>1, <2>6
    <3> HIDE DEF S, last
    <3> QED BY <1>1, <2>2, <2>3, <3>1, <3>2, LineGrows
  <2> QED BY <2>5, <2>6
<1>6. ASSUME NEW d \in Callers, NEW low \in Nat, caller'[d].pc = "waiting", low < caller'[d].slot
      PROVE  caller'[d].slot - low <= LongestDelay * Cardinality(InLine(caller', low, caller'[d].slot))
  <2>1. CASE d = c
    BY <1>3, <1>5, <1>6, <2>1
  <2>2. CASE d # c
    <3> DEFINE high == caller[d].slot
    <3>1. caller'[d] = caller[d] /\ high \in Nat /\ high < slot
      BY <1>3, <1>4, <1>6, <2>2
    <3>2. InLine(caller', low, high) = InLine(caller, low, high)
      <4>1. c \notin InLine(caller', low, high) /\ c \notin InLine(caller, low, high)
        BY <1>1, <1>3, <3>1 DEF InLine
      <4>2. \A e \in Callers : e # c => (e \in InLine(caller', low, high) <=> e \in InLine(caller, low, high))
        BY <1>3 DEF InLine
      <4>3. InLine(caller', low, high) \subseteq Callers /\ InLine(caller, low, high) \subseteq Callers
        BY DEF InLine
      <4> HIDE DEF high
      <4> QED BY <4>1, <4>2, <4>3
    <3>3. high - low <= LongestDelay * Cardinality(InLine(caller, low, high))
      BY <1>6, <3>1 DEF LineInv
    <3> QED BY <3>1, <3>2, <3>3
  <2> QED BY <2>1, <2>2
<1>7. \A d \in Callers : caller'[d].pc = "waiting" /\ caller'[d].slot > 0 => caller'[d].slot <= limiter'.last
  BY <1>1, <1>3, <1>4
<1>8. limiter'.last > 0 => \E d \in Callers : caller'[d].pc = "waiting" /\ caller'[d].slot = limiter'.last
  BY <1>3
<1>9. limiter'.rate <= Period
  BY <1>3 DEF LineInv
<1> QED BY <1>6, <1>7, <1>8, <1>9 DEF LineInv

\* A tick brings everyone nearer, and nobody who waits is at his slot already.
LEMMA TickKeepsLine == ASSUME PaceInv, LineInv, LimiterTick PROVE LineInv'
<1> DEFINE last == Greatest(limiter.last - 1, -LongestDelay)
<1>1. /\ limiter' = LastAt(limiter, last) /\ limiter.last \in Int /\ last \in Int /\ LongestDelay \in Nat
      /\ limiter'.last = last /\ limiter'.rate = limiter.rate
  <2>1. limiter.last \in Int /\ Governed(limiter) /\ LongestDelay \in Nat
    BY LimiterConstants DEF PaceInv, Governed, Limiter
  <2>2. last \in Int
    BY <2>1 DEF Greatest
  <2>3. limiter' = LastAt(limiter, last)
    BY DEF LimiterTick, LastAt
  <2> HIDE DEF last
  <2> QED BY <2>1, <2>2, <2>3, LastGoverned
<1>2. ASSUME NEW c \in Callers
      PROVE  /\ caller[c].slot \in Nat /\ caller'[c].slot \in Int /\ caller'[c].pc = caller[c].pc
             /\ caller[c].pc = "waiting" => caller'[c].slot = caller[c].slot - 1 /\ caller[c].slot > 0
  BY <1>2 DEF PaceInv, LimiterTypeOK, Caller, LimiterTick
<1>3. ASSUME NEW c \in Callers, NEW low \in Nat, caller'[c].pc = "waiting", low < caller'[c].slot
      PROVE  caller'[c].slot - low <= LongestDelay * Cardinality(InLine(caller', low, caller'[c].slot))
  <2> DEFINE high == caller[c].slot
  <2>1. high \in Nat /\ caller'[c].slot = high - 1 /\ caller[c].pc = "waiting" /\ low + 1 < high
        /\ low + 1 \in Nat
    BY <1>2, <1>3
  <2>2. InLine(caller', low, high - 1) = InLine(caller, low + 1, high)
    <3>1. ASSUME NEW d \in Callers
          PROVE  d \in InLine(caller', low, high - 1) <=> d \in InLine(caller, low + 1, high)
      BY <1>2, <2>1 DEF InLine
    <3>2. InLine(caller', low, high - 1) \subseteq Callers /\ InLine(caller, low + 1, high) \subseteq Callers
      BY DEF InLine
    <3> HIDE DEF high
    <3> QED BY <3>1, <3>2
  <2>3. high - (low + 1) <= LongestDelay * Cardinality(InLine(caller, low + 1, high))
    BY <2>1 DEF LineInv
  <2>4. (high - 1) - low = high - (low + 1)
    BY <2>1
  <2> HIDE DEF high
  <2> QED BY <2>1, <2>2, <2>3, <2>4
<1>4. \A c \in Callers : caller'[c].pc = "waiting" /\ caller'[c].slot > 0 => caller'[c].slot <= limiter'.last
  <2>1. last >= limiter.last - 1
    BY <1>1 DEF Greatest
  <2> HIDE DEF last
  <2> QED BY <1>1, <1>2, <2>1 DEF LineInv
<1>5. limiter'.last > 0 => \E c \in Callers : caller'[c].pc = "waiting" /\ caller'[c].slot = limiter'.last
  <2>1. last > 0 => last = limiter.last - 1
    BY <1>1 DEF Greatest
  <2> HIDE DEF last
  <2>2. last > 0 => limiter.last > 0
    BY <1>1, <2>1
  <2> QED BY <1>1, <1>2, <2>1, <2>2 DEF LineInv
<1>6. limiter'.rate <= Period
  BY <1>1 DEF LineInv
<1> QED BY <1>3, <1>4, <1>5, <1>6 DEF LineInv

\* Every step of the limiter keeps the line: a slot is no further away than the callers ahead of
\* it make it.
LEMMA LineKept == PaceInv /\ LineInv /\ [LimiterNext]_limiterVars => LineInv'
<1> SUFFICES ASSUME PaceInv, LineInv, [LimiterNext]_limiterVars PROVE LineInv'
  OBVIOUS
<1>0. /\ caller \in [Callers -> Caller] /\ limiter.rate <= Period
      /\ \A c \in Callers : caller[c].slot \in Nat
  BY DEF PaceInv, LimiterTypeOK, LineInv, Caller
<1>1. CASE \E c \in Callers : Reserve(c)
  BY <1>1, ReserveKeepsLine
<1>2. CASE \E c \in Callers : SendAtSlot(c)
  <2>1. PICK c \in Callers : SendAtSlot(c)
    BY <1>2
  <2>2. /\ limiter'.last = limiter.last /\ limiter'.rate <= Period /\ caller[c].slot = 0
        /\ caller'[c].slot = 0
        /\ \A d \in Callers : d # c => caller'[d] = caller[d]
    BY <1>0, <2>1 DEF SendAtSlot, Caller
  <2> QED BY <1>0, <2>2, LineFrame
<1>3. CASE \E c \in Callers : Unanswered(c)
  <2>1. PICK c \in Callers : Unanswered(c)
    BY <1>3
  <2>2. /\ limiter'.last = limiter.last /\ limiter'.rate <= Period /\ caller[c].pc # "waiting"
        /\ caller'[c].pc = "idle" /\ caller'[c].slot = caller[c].slot
        /\ \A d \in Callers : d # c => caller'[d] = caller[d]
    BY <1>0, <2>1 DEF Unanswered, Caller
  <2> QED BY <1>0, <2>2, LineFrame
<1>4. CASE \E c \in Callers, refused \in BOOLEAN : RateAnswer(c, refused)
  <2>1. PICK c \in Callers, refused \in BOOLEAN : RateAnswer(c, refused)
    BY <1>4
  <2>2. limiter'.last = limiter.last
    BY <2>1, AnswerGoverned DEF Follows
  <2>3. /\ limiter'.rate <= Period /\ caller[c].pc # "waiting"
        /\ caller'[c].pc = "idle" /\ caller'[c].slot = caller[c].slot
        /\ \A d \in Callers : d # c => caller'[d] = caller[d]
    BY <1>0, <2>1 DEF RateAnswer, Caller
  <2> QED BY <1>0, <2>2, <2>3, LineFrame
<1>5. CASE LimiterTick
  BY <1>5, TickKeepsLine
<1>6. CASE UNCHANGED limiterVars
  BY <1>0, <1>6, LineFrame DEF limiterVars
<1> QED BY <1>1, <1>2, <1>3, <1>4, <1>5, <1>6 DEF LimiterNext

\* A caller has no more delays before it than there are callers that are not idle.
LEMMA LineBounded == PaceInv /\ LineInv => NoDeathSpiral
<1> SUFFICES ASSUME PaceInv, LineInv, NEW c \in Callers, caller[c].pc = "waiting"
             PROVE  caller[c].slot <= LongestDelay * Cardinality({d \in Callers : caller[d].pc # "idle"})
  BY DEF NoDeathSpiral
<1> DEFINE busy == {d \in Callers : caller[d].pc # "idle"}
           S == InLine(caller, 0, caller[c].slot)
           slot == caller[c].slot
<1>1. IsFiniteSet(busy) /\ LongestDelay \in Nat /\ slot \in Nat /\ S \subseteq busy
  BY LimiterConstants, FS_Subset DEF PaceInv, LimiterTypeOK, Caller, InLine
<1>2. slot > 0 => slot - 0 <= LongestDelay * Cardinality(S)
  BY <1>1 DEF LineInv
<1>3. Cardinality(S) \in Nat /\ Cardinality(busy) \in Nat /\ Cardinality(S) <= Cardinality(busy)
  <2> HIDE DEF S, busy
  <2> QED BY <1>1, FS_Subset, FS_CardinalityType
<1> HIDE DEF S, busy, slot
<1>4. LongestDelay * Cardinality(S) <= LongestDelay * Cardinality(busy)
  BY <1>1, <1>3, ProductGrows
<1>5. LongestDelay * Cardinality(S) \in Nat /\ LongestDelay * Cardinality(busy) \in Nat
  BY <1>1, <1>3, ProductNat
<1>6. slot <= LongestDelay * Cardinality(busy)
  BY <1>1, <1>2, <1>4, <1>5
<1> QED BY <1>6 DEF slot, busy

\* Whatever the server answers, no goroutine waits longer than one turn at the floor rate for each
\* that is under way.
THEOREM LimiterHasNoSpiral == LimiterSpec => []NoDeathSpiral
<1>1. LimiterInit => PaceInv /\ LineInv
  BY PaceInit, LineInit
<1>2. PaceInv /\ LineInv /\ [LimiterNext]_limiterVars => PaceInv' /\ LineInv'
  BY PaceKept, LineKept
<1> QED BY <1>1, <1>2, LineBounded, PTL DEF LimiterSpec

================================================================================
