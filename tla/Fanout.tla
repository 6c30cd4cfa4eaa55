-------------------------------- MODULE Fanout --------------------------------
(***************************************************************************)
(* FanoutRun (internal/cliutil/fanout.go): a bounded queue feeds workers   *)
(* that call a function once for each source, until all sources are done   *)
(* or the context is canceled.                                             *)
(***************************************************************************)
EXTENDS Integers, Sequences, FiniteSets

CONSTANTS
  Sources,  \* how many sources
  Workers   \* the worker goroutines: WithConcurrency of them

ASSUME FanoutAssumption == Sources \in Nat /\ IsFiniteSet(Workers) /\ Workers # {}

VARIABLES
  fan,     \* the feeding goroutine: its phase and the next source
  jobs,    \* the channel
  worker,  \* worker[w]: the source it works on, or what it is about to do
  slots,   \* slots[i]: what was recorded for source i
  calls,   \* calls[i]: how often fn was called for source i
  done     \* ctx is canceled

fanVars == <<fan, jobs, worker, slots, calls, done>>

Indices == 1 .. Sources
NoJob == 0

FanTypeOK ==
  /\ fan \in [phase : {"idle", "feeding", "waiting", "returned"}, next : 1 .. Sources + 1]
  /\ jobs \in Seq(Indices) /\ Len(jobs) <= 2 * Cardinality(Workers)
  /\ worker \in [Workers -> [pc : {"pull", "check", "call", "gone"}, job : 0 .. Sources]]
  /\ slots \in [Indices -> [result : BOOLEAN, error : BOOLEAN]]
  /\ calls \in [Indices -> Nat] /\ done \in BOOLEAN

FanInit ==
  /\ fan = [phase |-> "idle", next |-> 1] /\ jobs = <<>>
  /\ worker = [w \in Workers |-> [pc |-> "pull", job |-> NoJob]]
  /\ slots = [i \in Indices |-> [result |-> FALSE, error |-> FALSE]]
  /\ calls = [i \in Indices |-> 0] /\ done = FALSE

FanStart ==
  /\ fan.phase = "idle"
  /\ fan' = [fan EXCEPT !.phase = "feeding"]
  /\ UNCHANGED <<jobs, worker, slots, calls, done>>

\* Either case of the select may be taken when both are ready.
Feed ==
  /\ fan.phase = "feeding" /\ fan.next <= Sources /\ Len(jobs) < 2 * Cardinality(Workers)
  /\ jobs' = Append(jobs, fan.next)
  /\ fan' = [fan EXCEPT !.next = @ + 1]
  /\ UNCHANGED <<worker, slots, calls, done>>

\* Mutant of Unfed: the source the loop stood at is left out.
UnfedAfterThis == fan.next + 1 .. Sources

Unfed == fan.next .. Sources

StopFeeding ==
  /\ fan.phase = "feeding" /\ fan.next <= Sources /\ done
  /\ slots' = [i \in Indices |-> IF i \in Unfed THEN [slots[i] EXCEPT !.error = TRUE] ELSE slots[i]]
  /\ fan' = [fan EXCEPT !.phase = "waiting"]
  /\ UNCHANGED <<jobs, worker, calls, done>>

\* All fed: the channel is closed too.
FeedingEnds ==
  /\ fan.phase = "feeding" /\ fan.next > Sources
  /\ fan' = [fan EXCEPT !.phase = "waiting"]
  /\ UNCHANGED <<jobs, worker, slots, calls, done>>

Closed == fan.phase \in {"waiting", "returned"}

Pull(w) ==
  /\ worker[w].pc = "pull"
  /\ \/ /\ jobs # <<>>
        /\ worker' = [worker EXCEPT ![w] = [pc |-> "check", job |-> Head(jobs)]]
        /\ jobs' = Tail(jobs)
     \/ /\ jobs = <<>> /\ Closed
        /\ worker' = [worker EXCEPT ![w].pc = "gone"]
        /\ jobs' = jobs
  /\ UNCHANGED <<fan, slots, calls, done>>

CheckCanceled(w) ==
  /\ worker[w].pc = "check"
  /\ IF done
     THEN /\ slots' = [slots EXCEPT ![worker[w].job].error = TRUE]
          /\ worker' = [worker EXCEPT ![w] = [pc |-> "pull", job |-> NoJob]]
          /\ calls' = calls
     ELSE /\ worker' = [worker EXCEPT ![w].pc = "call"]
          /\ calls' = [calls EXCEPT ![worker[w].job] = @ + 1]
          /\ slots' = slots
  /\ UNCHANGED <<fan, jobs, done>>

\* Mutant of CallReturns: a panic of fn takes its worker with it.
CallReturnsOrPanics(w) ==
  /\ worker[w].pc = "call"
  /\ \/ /\ worker' = [worker EXCEPT ![w] = [pc |-> "pull", job |-> NoJob]]
        /\ slots' = [slots EXCEPT ![worker[w].job].result = TRUE]
     \/ /\ worker' = [worker EXCEPT ![w].pc = "dead"]
        /\ slots' = [slots EXCEPT ![worker[w].job].error = TRUE]
  /\ UNCHANGED <<fan, jobs, calls, done>>

\* fn returns a result, or an error, or panics, which is recovered as an error.
CallReturns(w) ==
  /\ worker[w].pc = "call"
  /\ \E ok \in BOOLEAN :
       slots' = [slots EXCEPT ![worker[w].job] =
                   IF ok THEN [@ EXCEPT !.result = TRUE] ELSE [@ EXCEPT !.error = TRUE]]
  /\ worker' = [worker EXCEPT ![w] = [pc |-> "pull", job |-> NoJob]]
  /\ UNCHANGED <<fan, jobs, calls, done>>

\* wg.Wait, then the results and the errors are collected from the slots.
FanReturn ==
  /\ fan.phase = "waiting" /\ \A w \in Workers : worker[w].pc = "gone"
  /\ fan' = [fan EXCEPT !.phase = "returned"]
  /\ UNCHANGED <<jobs, worker, slots, calls, done>>

FanCancel ==
  /\ ~done /\ fan.phase \in {"feeding", "waiting"}
  /\ done' = TRUE
  /\ UNCHANGED <<fan, jobs, worker, slots, calls>>

WorkerStep(w) == Pull(w) \/ CheckCanceled(w) \/ CallReturns(w)
FeederStep == Feed \/ StopFeeding \/ FeedingEnds \/ FanReturn

FanNext == FanStart \/ FanCancel \/ FeederStep \/ \E w \in Workers : WorkerStep(w)

\* Goroutines run, and fn returns.
FanFairness == WF_fanVars(FeederStep) /\ \A w \in Workers : WF_fanVars(WorkerStep(w))

FanSpec == FanInit /\ [][FanNext]_fanVars /\ FanFairness

\* When FanoutRun returns, every source has either a result or an error, never both, and fn was
\* called at most once for it ("cancel never silently drops a source").
EverySourceAccounted ==
  fan.phase = "returned" =>
    \A i \in Indices : slots[i].result # slots[i].error /\ calls[i] <= 1

\* FanoutRun returns, even if the context is canceled while the channel is full.
FanoutReturns == fan.phase = "feeding" ~> fan.phase = "returned"
=============================================================================
