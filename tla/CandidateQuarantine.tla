------------------------- MODULE CandidateQuarantine -------------------------
(***************************************************************************)
(* What the candidate table promises an agent: captured text is            *)
(* quarantined until a judgment.  verdict[s] is the standing of derivation *)
(* signature s; guidance is the set of signatures whose captured text the  *)
(* verified playbooks carry.  Judging s may add s and nothing else;        *)
(* anything already there may be edited away.                              *)
(***************************************************************************)
CONSTANTS
  Sigs,         \* derivation signatures
  Retractable   \* signatures whose confirmation may be followed by a rejection

VARIABLES verdict, guidance
vars == <<verdict, guidance>>

Verdicts == {"unknown", "open", "expired", "confirmed", "rejected"}

Init ==
  /\ verdict = [s \in Sigs |-> "unknown"]
  /\ guidance = {}

Observe(s) ==
  /\ verdict[s] \in {"unknown", "expired"}
  /\ verdict' = [verdict EXCEPT ![s] = "open"]
  /\ UNCHANGED guidance

\* The one action that promotes: s is open, and only text of s can be new.
Judge(s) ==
  /\ verdict[s] = "open"
  /\ verdict' = [verdict EXCEPT ![s] = "confirmed"]
  /\ guidance' \subseteq guidance \cup {s}

Dismiss(s) ==
  /\ verdict[s] \in {"open", "expired"} \/ (verdict[s] = "confirmed" /\ s \in Retractable)
  /\ verdict' = [verdict EXCEPT ![s] = "rejected"]
  /\ UNCHANGED guidance

\* A purge: one sweep expires open signatures, another forgets settled ones.
Expire(S) ==
  /\ \A s \in S : verdict[s] = "open"
  /\ verdict' = [s \in Sigs |-> IF s \in S THEN "expired" ELSE verdict[s]]
  /\ UNCHANGED guidance

Forget(S) ==
  /\ \A s \in S : verdict[s] # "open"
  /\ verdict' = [s \in Sigs |-> IF s \in S THEN "unknown" ELSE verdict[s]]
  /\ UNCHANGED guidance

Edit ==
  /\ guidance' \subseteq guidance
  /\ UNCHANGED verdict

Next ==
  \/ \E s \in Sigs : Observe(s) \/ Judge(s) \/ Dismiss(s)
  \/ \E S \in SUBSET Sigs : Expire(S) \/ Forget(S)
  \/ Edit

Spec == Init /\ [][Next]_vars
=============================================================================
