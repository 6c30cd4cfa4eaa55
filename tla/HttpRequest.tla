----------------------------- MODULE HttpRequest ------------------------------
(***************************************************************************)
(* One call of the HTTP client (internal/client/client.go, doInternal):    *)
(* pacing, sending, and the retries that a lost answer, a server error or  *)
(* a 429 lead to.                                                          *)
(*                                                                         *)
(* The server is external: it may perform a request and lose the answer,   *)
(* perform it and report an error, or refuse it and ask to be left alone   *)
(* for a while.  A clock of whole seconds passes while the client waits.   *)
(***************************************************************************)
EXTENDS Integers

CONSTANTS
  Retries,       \* clientMaxRetries: 3, or 0 when a verifier or dogfood run drives the CLI
  RetryBudget,   \* the time a call may spend on retries
  MaxRetryAfter, \* the longest the client obeys a Retry-After
  MaxAsked,      \* what the server asks for at most
  MaxFlight,     \* the timeout of an HTTP exchange
  MaxPacing      \* the time the two limiters hold one request at most

ASSUME RequestAssumption ==
  /\ Retries \in Nat /\ RetryBudget \in Nat /\ MaxRetryAfter \in Nat
  /\ MaxAsked \in Nat /\ MaxFlight \in Nat /\ MaxPacing \in Nat

Methods == {"GET", "POST", "PUT", "DELETE", "PATCH"}

VARIABLES
  call,      \* the call in progress
  clock,
  performed, \* how often the server has performed the request
  refusal    \* the last 429: when it was sent, and the time the server asked for

requestVars == <<call, clock, performed, refusal>>

Call ==
  [pc : {"idle", "pacing", "flight", "sleep", "done"},
   method : Methods,
   keyed : BOOLEAN,     \* an idempotency key is among the headers
   readOnly : BOOLEAN,  \* the PostQuery* family: a read that rides a writing verb
   attempt : 0 .. Retries,
   started : Nat,       \* retryStarted
   since : Nat,         \* when the present wait, or exchange, began
   wake : Nat,          \* when the present sleep ends
   canceled : BOOLEAN]  \* the caller's context

RequestTypeOK ==
  /\ call \in Call
  /\ clock \in Nat /\ performed \in Nat
  /\ refusal \in [at : Nat, asked : 0 .. MaxAsked]

RequestInit ==
  /\ call = [pc |-> "idle", method |-> "GET", keyed |-> FALSE, readOnly |-> FALSE, attempt |-> 0,
             started |-> 0, since |-> 0, wake |-> 0, canceled |-> FALSE]
  /\ clock = 0 /\ performed = 0 /\ refusal = [at |-> 0, asked |-> 0]

\* Mutant of CanRetryRequest: a write without a key is sent again.
CanRetryAnything(method, keyed) == TRUE

CanRetryRequest(method, keyed) == method \in {"POST", "PATCH"} => keyed

CanRetryAmbiguousFailure == call.readOnly \/ CanRetryRequest(call.method, call.keyed)

\* Mutant of RetryWithinBudget: the time already spent is forgotten.
RetryForgetsElapsed(wait) == wait <= RetryBudget

RetryWithinBudget(wait) == clock - call.started + wait <= RetryBudget

MayRetry(wait) ==
  call.attempt < Retries /\ CanRetryAmbiguousFailure /\ RetryWithinBudget(wait)

Backoff(attempt) == 2 ^ attempt

\* A power of two is a natural number, which the provers do not know.
ASSUME BackoffAssumption == \A attempt \in 0 .. Retries : Backoff(attempt) \in Nat

Obeyed(asked) == IF asked < MaxRetryAfter THEN asked ELSE MaxRetryAfter

\* Mutant of RetryAfterDelays: the header is not read.
JitterDelays(asked, attempt) == 0 .. Obeyed(Backoff(attempt))

\* The waits RetryAfterDelay may choose: what the server asks for, if it does, else any jitter
\* up to an exponential cap.
RetryAfterDelays(asked, attempt) ==
  IF asked > 0 THEN {Obeyed(asked)} ELSE 0 .. Obeyed(Backoff(attempt))

Finished == call' = [call EXCEPT !.pc = "done"]
SleepThenRetry(wait) == call' = [call EXCEPT !.pc = "sleep", !.wake = clock + wait]

RetryOrFail(wait) == IF MayRetry(wait) THEN SleepThenRetry(wait) ELSE Finished

\* A call that verify mode short-circuits, that is a dry run, or that fails before its first
\* attempt (an unresolved path parameter, no credentials, no budget for its endpoint class)
\* does not reach the loop.
Begin(method, keyed, readOnly) ==
  /\ call.pc = "idle"
  /\ readOnly => method \in {"POST", "PUT", "PATCH"}
  /\ call' \in {[call EXCEPT !.pc = pc, !.method = method, !.keyed = keyed, !.readOnly = readOnly,
                             !.started = clock, !.since = clock] : pc \in {"pacing", "done"}}
  /\ UNCHANGED <<clock, performed, refusal>>

\* The limiters let the attempt pass.  Do sends nothing on a context that is canceled, and the
\* wait for the shared budget fails on one.
Send ==
  /\ call.pc = "pacing"
  /\ IF call.canceled THEN Finished ELSE call' = [call EXCEPT !.pc = "flight", !.since = clock]
  /\ UNCHANGED <<clock, performed, refusal>>

\* No whole answer arrives.  If the connection failed (not after the headers had arrived), the
\* call backs off, unless it was canceled.
Lost(applied, headers) ==
  /\ call.pc = "flight"
  /\ IF headers \/ call.canceled THEN Finished ELSE RetryOrFail(Backoff(call.attempt))
  /\ performed' = performed + applied
  /\ UNCHANGED <<clock, refusal>>

\* A status below 400, or a 4xx other than 429.
Answered(applied) ==
  /\ call.pc = "flight"
  /\ Finished
  /\ performed' = performed + applied
  /\ UNCHANGED <<clock, refusal>>

ServerError(applied) ==
  /\ call.pc = "flight"
  /\ RetryOrFail(Backoff(call.attempt))
  /\ performed' = performed + applied
  /\ UNCHANGED <<clock, refusal>>

RateLimited(asked) ==
  /\ call.pc = "flight"
  /\ \E wait \in RetryAfterDelays(asked, call.attempt) : RetryOrFail(wait)
  /\ refusal' = [at |-> clock, asked |-> asked]
  /\ UNCHANGED <<clock, performed>>

\* sleepContext: the timer fires, or the context is canceled.
Woken ==
  /\ call.pc = "sleep"
  /\ \/ /\ call.canceled
        /\ Finished
     \/ /\ call.wake <= clock
        /\ call' = [call EXCEPT !.pc = "pacing", !.attempt = @ + 1, !.since = clock]
  /\ UNCHANGED <<clock, performed, refusal>>

Cancel ==
  /\ call.pc \in {"pacing", "flight", "sleep"} /\ ~call.canceled
  /\ call' = [call EXCEPT !.canceled = TRUE]
  /\ UNCHANGED <<clock, performed, refusal>>

\* Time passes while the call waits, for no longer than a limiter holds it, the HTTP client's
\* timeout lets the exchange take, or the timer of its sleep runs.
Second ==
  /\ \/ call.pc = "pacing" /\ clock < call.since + MaxPacing
     \/ call.pc = "flight" /\ clock < call.since + MaxFlight
     \/ call.pc = "sleep" /\ clock < call.wake /\ ~call.canceled
  /\ clock' = clock + 1
  /\ UNCHANGED <<call, performed, refusal>>

RequestNext ==
  \/ \E method \in Methods, keyed, readOnly \in BOOLEAN : Begin(method, keyed, readOnly)
  \/ Send
  \/ \E applied \in {0, 1} :
       \/ \E headers \in BOOLEAN : Lost(applied, headers)
       \/ Answered(applied)
       \/ ServerError(applied)
  \/ \E asked \in 0 .. MaxAsked : RateLimited(asked)
  \/ Woken
  \/ Cancel
  \/ Second

RequestSpec == RequestInit /\ [][RequestNext]_requestVars

\* A write that carries no idempotency key and is not a declared read is performed at most once,
\* however its answer is lost ("a write may already have committed remotely", client.go:964).
UnsafeWriteOnce ==
  call.method \in {"POST", "PATCH"} /\ ~call.keyed /\ ~call.readOnly => performed <= 1

\* A call is over by the end of its retry budget and one more attempt: no chain of lost answers,
\* server errors and refusals keeps it longer, and the budget is one for all its attempts.
EndsInTime ==
  call.pc \in {"pacing", "flight", "sleep"} =>
    clock - call.started <= RetryBudget + MaxPacing + MaxFlight

\* An attempt after a 429 is not sent before the time the server asked for has passed, up to the
\* minute the client obeys, whatever else the call waited for ("RetryAfterDelay honors RFC
\* Retry-After values").
ServerIsHeard ==
  call.pc = "flight" => call.since >= refusal.at + Obeyed(refusal.asked)
=============================================================================
