---------------------------- MODULE AdaptiveLimiter ---------------------------
(***************************************************************************)
(* The client's own pacing (internal/cliutil/ratelimit.go): requests of    *)
(* several goroutines reserve time slots at a rate that follows the        *)
(* server's answers.                                                       *)
(*                                                                         *)
(* A rate is a whole number of requests per Period of time, at most one    *)
(* per unit of time, and fractions are rounded down.  Times are relative   *)
(* to the present.  The server's answers are external.                     *)
(***************************************************************************)
EXTENDS Integers, FiniteSets

CONSTANTS
  Callers,     \* goroutines that share the client
  Period,
  StartRate,   \* --rate-limit, or defaultAutoStartRate
  FloorRate,   \* half a request per second, or the start rate if that is lower
  RampAfter,   \* successes before the rate is raised
  Remainings,  \* the allowances the server may advertise
  Resets,      \* the times until they are renewed
  Brake        \* brakeSafetySeconds

ASSUME LimiterAssumption ==
  /\ IsFiniteSet(Callers)
  /\ Period \in Nat \ {0} /\ FloorRate \in 1 .. StartRate /\ StartRate \in 1 .. Period
  /\ RampAfter \in Nat \ {0} /\ Brake \in Nat \ {0}
  /\ Remainings \subseteq Nat /\ Resets \subseteq Nat \ {0}

VARIABLES
  limiter,
  caller,   \* caller[c]: whether c waits for its slot (in so much time), or for an answer
  gap       \* between the last two slots

limiterVars == <<limiter, caller, gap>>

Limiter ==
  [rate : Nat, ceiling : Nat, budget : Nat, successes : 0 .. RampAfter, headerDriven : BOOLEAN,
   maxRate : {0, StartRate},  \* 0 in auto mode
   last : Int]                \* lastRequest: the last slot reserved
Caller == [pc : {"idle", "waiting", "sent"}, slot : Nat]
LongestDelay == Period \div FloorRate

LimiterTypeOK ==
  limiter \in Limiter /\ caller \in [Callers -> Caller] /\ gap \in Nat

LimiterInit ==
  /\ \E maxRate \in {0, StartRate} :
       limiter = [rate |-> StartRate, ceiling |-> 0, budget |-> 0, successes |-> 0,
                  headerDriven |-> FALSE, maxRate |-> maxRate, last |-> -LongestDelay]
  /\ caller = [c \in Callers |-> [pc |-> "idle", slot |-> 0]]
  /\ gap = LongestDelay

Least(a, b) == IF a < b THEN a ELSE b
Greatest(a, b) == IF a < b THEN b ELSE a

\* Mutant of Floored: only a rate of zero is avoided.
FlooredAtOne(rate) == Greatest(rate, 1)

Floored(rate) == Greatest(rate, FloorRate)

Capped(rate) == IF limiter.maxRate > 0 THEN Least(rate, limiter.maxRate) ELSE rate

\* Mutant of NextSlot: a slot that another goroutine has reserved is not seen.
NextSlotAlone == Greatest(0, Least(limiter.last, 0) + Period \div limiter.rate)

NextSlot == Greatest(0, limiter.last + Period \div limiter.rate)

\* Wait reserves the next slot under the lock and then sleeps until it.
Reserve(c) ==
  /\ caller[c].pc = "idle"
  /\ gap' = NextSlot - limiter.last
  /\ limiter' = [limiter EXCEPT !.last = NextSlot]
  /\ caller' = [caller EXCEPT ![c] = [pc |-> "waiting", slot |-> NextSlot]]

SendAtSlot(c) ==
  /\ caller[c].pc = "waiting" /\ caller[c].slot = 0
  /\ caller' = [caller EXCEPT ![c].pc = "sent"]
  /\ UNCHANGED <<limiter, gap>>

Ramped(l) ==
  LET raised == (l.rate * 5) \div 4
      known == IF l.ceiling > 0 THEN Least(raised, (l.ceiling * 9) \div 10) ELSE raised
  IN IF l.successes + 1 < RampAfter THEN [l EXCEPT !.successes = @ + 1]
     ELSE [l EXCEPT !.successes = 0, !.rate = Floored(Capped(known))]

OnSuccess(l) == IF l.headerDriven THEN [l EXCEPT !.successes = 0] ELSE Ramped(l)

OnRateLimit(l) ==
  [l EXCEPT !.ceiling = l.rate, !.rate = Floored(l.rate \div 2), !.successes = 0,
            !.budget = IF l.headerDriven THEN @ ELSE @ \div 2]

\* The highest refill rate seen so far governs, unless what remains would not last for the brake
\* interval at that rate.
ObserveHeaders(l, remaining, reset) ==
  LET budget == Greatest(l.budget, (remaining * Period) \div reset)
      target == IF remaining * Period < budget * Brake
                THEN (remaining * Period) \div Brake ELSE budget
  IN [l EXCEPT !.budget = budget, !.rate = Floored(Capped(target)),
               !.headerDriven = TRUE, !.successes = 0]

\* An answer, with or without rate-limit headers; doInternal lets the headers speak first.
RateAnswer(c, refused) ==
  /\ caller[c].pc = "sent"
  /\ \E l \in {limiter} \cup {ObserveHeaders(limiter, r, t) : r \in Remainings, t \in Resets} :
       limiter' = IF refused THEN OnRateLimit(l) ELSE OnSuccess(l)
  /\ limiter'.rate <= Period
  /\ caller' = [caller EXCEPT ![c].pc = "idle"]
  /\ UNCHANGED gap

\* No answer, or a status that says nothing about the rate.
Unanswered(c) ==
  /\ caller[c].pc = "sent"
  /\ caller' = [caller EXCEPT ![c].pc = "idle"]
  /\ UNCHANGED <<limiter, gap>>

\* A sleeping caller is woken in time.  How long ago the last slot was no longer matters after
\* the longest delay.
LimiterTick ==
  /\ \A c \in Callers : caller[c].pc = "waiting" => caller[c].slot > 0
  /\ limiter' = [limiter EXCEPT !.last = Greatest(@ - 1, -LongestDelay)]
  /\ caller' = [c \in Callers |->
       IF caller[c].pc = "waiting" THEN [caller[c] EXCEPT !.slot = @ - 1] ELSE caller[c]]
  /\ UNCHANGED gap

LimiterNext ==
  \/ \E c \in Callers :
       \/ Reserve(c) \/ SendAtSlot(c) \/ Unanswered(c)
       \/ \E refused \in BOOLEAN : RateAnswer(c, refused)
  \/ LimiterTick

LimiterSpec == LimiterInit /\ [][LimiterNext]_limiterVars

\* Under an explicit --rate-limit no two requests are closer together than it says, whichever
\* goroutines send them, whatever the server advertises and however many requests succeed.
Polite == limiter.maxRate > 0 => gap >= Period \div limiter.maxRate

\* Whatever the server advertises or refuses, a caller waits no longer than one turn at the floor
\* rate for each caller in line: the rate does not spiral towards zero.
NoDeathSpiral ==
  \A c \in Callers : caller[c].pc = "waiting" =>
    caller[c].slot <= LongestDelay * Cardinality({d \in Callers : caller[d].pc # "idle"})
=============================================================================
