--------------------------- MODULE MCJournalDerive ----------------------------
(***************************************************************************)
(* Instances of JournalDerive: two processes and one or two sessions.      *)
(***************************************************************************)
EXTENDS JournalDerive, TLC

CONSTANTS p1, p2

Symmetric == Permutations({p1, p2})

\* At most one line in the journal is torn, or spoiled by a torn one, and only on the first day.
Damaged ==
  {<<d, 0>> : d \in {e \in Days : segments[e].torn}} \cup
  {x \in Positions : x[2] \in DOMAIN segments[x[1]].lines /\ x \notin Readable}

OneTorn ==
  /\ Init
  /\ [][Next /\ Cardinality(Damaged') <= 1 /\ \A x \in Damaged' : x[1] = 0]_vars
=============================================================================
