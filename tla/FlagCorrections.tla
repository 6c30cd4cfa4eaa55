--------------------------- MODULE FlagCorrections ----------------------------
(***************************************************************************)
(* How internal/learn/derive.go pairs a failed flag with its correction.   *)
(* A journal is a function from the positions of its readable lines to     *)
(* entries.  A position <<d, i>> is line i of the segment of day d; the    *)
(* segments sort by name, so by day.                                       *)
(***************************************************************************)
EXTENDS Integers

CONSTANTS
  Sessions,   \* session keys
  Commands,   \* subcommand verb chains; one misspelt flag of each is ever used
  Families,   \* query families a recall resolves
  NoFamily,   \* the empty family
  Window      \* flagCorrectionWindow, in ticks of the clock

\* The kind of an invocation: it failed on a flag no command has; it succeeded and its flags
\* name the correction; it was a recall that resolved a family; or anything else.
Kinds == {"failed", "corrected", "recall", "other"}

Before(x, y) == x[1] < y[1] \/ (x[1] = y[1] /\ x[2] < y[2])

\* The part of journal j a read from offset o returns: what lies behind <<o.day, o.line>>.
Batch(j, o) == [x \in {y \in DOMAIN j : Before(<<o.day, o.line>>, y)} |-> j[x]]

Follows(j, x, y) ==
  /\ Before(x, y)
  /\ j[y].session = j[x].session
  /\ j[y].cmd = j[x].cmd

\* y holds the next invocation of x's command in x's session.
IsNext(j, x, y) ==
  /\ Follows(j, x, y)
  /\ \A z \in DOMAIN j : Follows(j, x, z) => z = y \/ Before(y, z)

\* Mutant of Paired: any later success counts, also across an intervening retry.
PairedAnyLater(j, x, y) ==
  /\ j[x].kind = "failed" /\ j[y].kind = "corrected"
  /\ Follows(j, x, y)
  /\ j[y].at - j[x].at \in 0 .. Window

Paired(j, x, y) ==
  /\ j[x].kind = "failed" /\ j[y].kind = "corrected"
  /\ IsNext(j, x, y)
  /\ j[y].at - j[x].at \in 0 .. Window

\* Mutant of Waiting: an unpaired failure never holds the batch.
WaitingIgnored(j) == {j[x].at : x \in {}}

\* When the failures happened that no invocation of their command follows yet.
Waiting(j) ==
  {j[x].at : x \in {z \in DOMAIN j : j[z].kind = "failed" /\ \A y \in DOMAIN j : ~Follows(j, z, y)}}

Recalls(j, session) ==
  {x \in DOMAIN j : j[x].kind = "recall" /\ j[x].session = session /\ j[x].family # NoFamily}

\* The family of the last of these recalls.
LastFamily(j, recalls) ==
  IF recalls = {} THEN NoFamily
  ELSE j[CHOOSE x \in recalls : \A y \in recalls : y = x \/ Before(y, x)].family

\* Mutant of Seed: the scan for the seed does not stop at the offset.
SeedUnbounded(j, o, session) == LastFamily(j, Recalls(j, session))

\* sessionRecallFamiliesBeforeBatch: the last recall at or before the offset.
Seed(j, o, session) ==
  LastFamily(j, {x \in Recalls(j, session) : ~Before(<<o.day, o.line>>, x)})

\* The last recall of its session before the failure at x, in the batch b.
InBatch(b, x) == LastFamily(b, {y \in Recalls(b, b[x].session) : Before(y, x)})

\* What pairFlagCorrections finds in the batch b; a correction no recall in the batch anchors
\* has no family yet.
Corrections(b) ==
  {[at |-> x, cmd |-> b[x].cmd, session |-> b[x].session, family |-> InBatch(b, x)] :
     x \in {y \in DOMAIN b : \E z \in DOMAIN b : Paired(b, y, z)}}

\* The seed anchors what the batch does not.
Seeded(c, j, o) ==
  IF c.family = NoFamily THEN [c EXCEPT !.family = Seed(j, o, c.session)] ELSE c
=============================================================================
