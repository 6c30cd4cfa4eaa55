--------------------------- MODULE JournalProofs ----------------------------

(***************************************************************************)
(* Proofs about the pairing of flag corrections and the pass that finds    *)
(* them, for any journal, processes and limits.                            *)
(***************************************************************************)
EXTENDS JournalDerive, WellFoundedInduction, TLAPS

(***************************************************************************)
(* Positions are totally ordered, and a set of them has a last one.        *)
(***************************************************************************)

\* Before is a strict total order.
LEMMA BeforeIsOrder ==
  ASSUME NEW x \in Int \X Int, NEW y \in Int \X Int
  PROVE  /\ x = y \/ Before(x, y) \/ Before(y, x)
         /\ ~(Before(x, y) /\ Before(y, x)) /\ ~Before(x, x)
         /\ \A z \in Int \X Int : Before(x, y) /\ Before(y, z) => Before(x, z)
  BY DEF Before

\* Induction over the naturals, as the least element of a set.
LEMMA Least == ASSUME NEW T \in SUBSET Nat, T # {} PROVE \E m \in T : \A k \in T : m <= k
<1>1. PICK m \in T : \A k \in T : ~(<<k, m>> \in OpToRel(<, Nat))
  BY NatLessThanWellFounded, WFMin
<1>2. \A k \in T : ~(k < m)
  BY <1>1 DEF OpToRel
<1> QED
  BY <1>2

\* A set of integers that is bounded above has a greatest member.
LEMMA Greatest ==
  ASSUME NEW n \in Int, NEW T, T # {}, \A k \in T : k \in Int /\ k <= n
  PROVE  \E m \in T : \A k \in T : k <= m
<1> DEFINE D == {n - k : k \in T}
<1>1. D \in SUBSET Nat /\ D # {}
  OBVIOUS
<1>2. PICK d \in D : \A e \in D : d <= e
  <2> HIDE DEF D
  <2> QED
    BY <1>1, Least
<1>3. PICK m \in T : d = n - m
  OBVIOUS
<1>4. \A k \in T : n - m <= n - k
  BY <1>2, <1>3
<1> QED
  BY <1>4

\* Max, which is a choice, is in the set.
LEMMA MaxIsMember ==
  ASSUME NEW n \in Int, NEW T, T # {}, \A k \in T : k \in Int /\ k <= n
  PROVE  Max(T) \in T
<1>1. PICK m \in T : \A k \in T : m >= k
  BY Greatest
<1> QED
  BY <1>1 DEF Max

\* Between positions whose days and lines are bounded.
LastOf(S, x) == x \in S /\ \A y \in S : y = x \/ Before(y, x)

\* A set of positions bounded in days and in lines has a last one.
LEMMA LastExists ==
  ASSUME NEW m \in Int, NEW n \in Int, NEW S, S # {},
         \A x \in S : x \in Int \X Int /\ x[1] <= m /\ x[2] <= n
  PROVE  \E x \in S : LastOf(S, x)
<1> DEFINE D == {x[1] : x \in S}
<1>1. PICK d \in D : \A k \in D : k <= d
  <2>1. D # {} /\ \A k \in D : k \in Int /\ k <= m
    OBVIOUS
  <2> HIDE DEF D
  <2> QED
    BY <2>1, Greatest
<1> DEFINE L == {x[2] : x \in {y \in S : y[1] = d}}
<1>2. PICK l \in L : \A k \in L : k <= l
  <2>1. L # {} /\ \A k \in L : k \in Int /\ k <= n
    OBVIOUS
  <2> HIDE DEF L
  <2> QED
    BY <2>1, Greatest
<1>3. PICK x \in S : x[1] = d /\ x[2] = l
  OBVIOUS
<1>4. \A y \in S : y[1] <= x[1] /\ (y[1] = x[1] => y[2] <= x[2])
  BY <1>1, <1>2, <1>3
<1> HIDE DEF D, L
<1>5. \A y \in S : y = x \/ Before(y, x)
  BY <1>4 DEF Before
<1> QED
  BY <1>5 DEF LastOf

\* There is one last position at most.
LEMMA LastIsUnique ==
  ASSUME NEW S, \A x \in S : x \in Int \X Int, NEW x, NEW y, LastOf(S, x), LastOf(S, y)
  PROVE  x = y
  BY BeforeIsOrder DEF LastOf

(***************************************************************************)
(* The pairing.                                                            *)
(***************************************************************************)

\* For every journal: a success is the correction of one failure at most.
LEMMA PairingIsInjective ==
  ASSUME NEW j, \A x \in DOMAIN j : x \in Int \X Int,
         NEW x \in DOMAIN j, NEW y \in DOMAIN j, NEW z \in DOMAIN j, Paired(j, x, z), Paired(j, y, z)
  PROVE  x = y
<1>0. x \in Int \X Int /\ y \in Int \X Int /\ z \in Int \X Int
  OBVIOUS
<1>1. /\ Follows(j, x, z) /\ Follows(j, y, z)
      /\ \A u \in DOMAIN j : Follows(j, x, u) => u = z \/ Before(z, u)
      /\ \A u \in DOMAIN j : Follows(j, y, u) => u = z \/ Before(z, u)
      /\ j[x].kind = "failed" /\ j[y].kind = "failed" /\ j[z].kind = "corrected"
  BY DEF Paired, IsNext
<1>2. ~Before(x, y)
  <2> SUFFICES ASSUME Before(x, y) PROVE FALSE
    OBVIOUS
  <2>1. Follows(j, x, y)
    BY <1>1 DEF Follows
  <2>2. y # z /\ Before(y, z)
    BY <1>1 DEF Follows
  <2> QED
    BY <1>0, <1>1, <2>1, <2>2, BeforeIsOrder
<1>3. ~Before(y, x)
  <2> SUFFICES ASSUME Before(y, x) PROVE FALSE
    OBVIOUS
  <2>1. Follows(j, y, x)
    BY <1>1 DEF Follows
  <2>2. x # z /\ Before(x, z)
    BY <1>1 DEF Follows
  <2> QED
    BY <1>0, <1>1, <2>1, <2>2, BeforeIsOrder
<1> QED
  BY <1>0, <1>2, <1>3, BeforeIsOrder

\* The family of the last recall, when there is one.
LEMMA LastFamilyIs ==
  ASSUME NEW j, NEW S, \A x \in S : x \in Int \X Int, NEW x \in S, LastOf(S, x)
  PROVE  LastFamily(j, S) = j[x].family
<1>1. (CHOOSE u \in S : \A y \in S : y = u \/ Before(y, u)) = x
  BY LastIsUnique DEF LastOf
<1> QED
  BY <1>1 DEF LastFamily

\* What the journal still holds of the recalls that might anchor c.
Said(j, c) == {x \in Recalls(j, c.session) : Before(x, c.at)}

\* A correction c from a batch read behind o, and what becomes of the journal meanwhile: of the
\* recalls before the failure none lies in the batch, or the last one that is left is the batch's.
AnchoredBy(j, o, c) ==
  /\ <<o.day, o.line>> \in Int \X Int /\ c.at \in Int \X Int /\ Before(<<o.day, o.line>>, c.at)
  /\ c.family = NoFamily => \A x \in Said(j, c) : ~Before(<<o.day, o.line>>, x)
  /\ c.family # NoFamily =>
       \A x \in Said(j, c) : LastOf(Said(j, c), x) => j[x].family = c.family

\* Every pair of a batch is anchored when the batch is read.
LEMMA BatchAnchors ==
  ASSUME NEW j, NEW m \in Int, NEW n \in Int,
         \A x \in DOMAIN j : x \in Int \X Int /\ x[1] <= m /\ x[2] <= n,
         NEW o, <<o.day, o.line>> \in Int \X Int, NEW c \in Corrections(Batch(j, o))
  PROVE  c.at \in DOMAIN j /\ AnchoredBy(j, o, c)
<1> DEFINE from == <<o.day, o.line>>
           b == Batch(j, o)
           A == Said(j, c)
           B == {y \in A : Before(from, y)}
<1>1. /\ DOMAIN b = {y \in DOMAIN j : Before(from, y)}
      /\ \A y \in DOMAIN b : b[y] = j[y]
  BY DEF Batch
<1>2. PICK x \in DOMAIN b :
        c = [at |-> x, cmd |-> b[x].cmd, session |-> b[x].session, family |-> InBatch(b, x)]
  BY DEF Corrections
<1>3. c.at = x /\ c.session = b[x].session /\ c.family = InBatch(b, x)
  BY <1>2
<1>4. x \in DOMAIN j /\ x \in Int \X Int /\ Before(from, x)
  BY <1>1
<1>5. A \subseteq DOMAIN j
  BY DEF Said, Recalls
<1>6. {y \in Recalls(b, b[x].session) : Before(y, x)} = B
  BY <1>1, <1>3 DEF Recalls, Said
<1>7. c.family = LastFamily(b, B)
  BY <1>3, <1>6 DEF InBatch
<1>8. CASE B = {}
  <2>1. c.family = NoFamily
    BY <1>7, <1>8 DEF LastFamily
  <2>2. \A y \in A : ~Before(from, y)
    BY <1>8
  <2> HIDE DEF A, B, b
  <2> QED
    BY <1>3, <1>4, <2>1, <2>2 DEF AnchoredBy, A
<1>9. CASE B # {}
  <2>1. \A y \in A : y \in Int \X Int /\ y[1] <= m /\ y[2] <= n
    BY <1>5
  <2>2. PICK l \in B : LastOf(B, l)
    <3>1. \A y \in B : y \in Int \X Int /\ y[1] <= m /\ y[2] <= n
      BY <2>1
    <3> HIDE DEF B
    <3> QED
      BY <1>9, <3>1, LastExists
  <2>3. l \in A /\ LastOf(A, l)
    <3>1. ASSUME NEW y \in A PROVE y = l \/ Before(y, l)
      <4>1. CASE Before(from, y)
        BY <2>2, <4>1 DEF LastOf
      <4>2. CASE ~Before(from, y)
        <5>1. y \in Int \X Int /\ l \in Int \X Int /\ Before(from, l) /\ from \in Int \X Int
          BY <2>1
        <5> HIDE DEF from, A, B
        <5> QED
          BY <4>2, <5>1, BeforeIsOrder
      <4> QED
        BY <4>1, <4>2
    <3>2. l \in A
      OBVIOUS
    <3> HIDE DEF A
    <3> QED
      BY <3>1, <3>2 DEF LastOf
  <2>4. LastFamily(b, B) = b[l].family /\ \A y \in A : LastOf(A, y) => y = l
    <3>1. /\ \A y \in A : y \in Int \X Int
          /\ \A y \in B : y \in Int \X Int
      BY <2>1
    <3> HIDE DEF A, B, b
    <3> QED
      BY <2>2, <2>3, <3>1, LastFamilyIs, LastIsUnique
  <2>5. b[l] = j[l] /\ j[l].family # NoFamily
    BY <1>1, <1>5 DEF Said, Recalls
  <2>6. c.family # NoFamily /\ \A y \in A : LastOf(A, y) => j[y].family = c.family
    BY <1>7, <2>4, <2>5
  <2> HIDE DEF A, B, b
  <2> QED
    BY <1>3, <1>4, <2>6 DEF AnchoredBy, A
<1> QED
  BY <1>3, <1>4, <1>8, <1>9

\* The seed gives a correction the last recall that is left, or leaves it as it was.
LEMMA SeedAnchors ==
  ASSUME NEW j, NEW m \in Int, NEW n \in Int,
         \A x \in DOMAIN j : x \in Int \X Int /\ x[1] <= m /\ x[2] <= n,
         NEW o, NEW c \in Correction, AnchoredBy(j, o, c)
  PROVE  LET d == Seeded(c, j, o)
         IN  /\ d.at = c.at /\ d.session = c.session
             /\ IF Said(j, c) # {} THEN d.family = LastFamily(j, Said(j, c)) ELSE d.family = c.family
<1> DEFINE from == <<o.day, o.line>>
           R == Recalls(j, c.session)
           d == Seeded(c, j, o)
<1>0. d.at = c.at /\ d.session = c.session
  BY DEF Seeded, Correction
<1>1. CASE c.family # NoFamily
  <2>1. d.family = c.family
    BY <1>1 DEF Seeded
  <2>2. ASSUME Said(j, c) # {} PROVE LastFamily(j, Said(j, c)) = c.family
    <3>1. \A x \in Said(j, c) : x \in Int \X Int /\ x[1] <= m /\ x[2] <= n
      BY DEF Said, Recalls
    <3>2. PICK x \in Said(j, c) : LastOf(Said(j, c), x)
      BY <2>2, <3>1, LastExists
    <3>3. LastFamily(j, Said(j, c)) = j[x].family
      BY <3>1, <3>2, LastFamilyIs
    <3> QED
      BY <1>1, <3>2, <3>3 DEF AnchoredBy
  <2> HIDE DEF d
  <2> QED
    BY <1>0, <2>1, <2>2 DEF d
<1>2. CASE c.family = NoFamily
  <2>1. ASSUME NEW x \in R PROVE ~Before(from, x) <=> Before(x, c.at)
    <3>1. x \in Int \X Int /\ from \in Int \X Int /\ c.at \in Int \X Int /\ Before(from, c.at)
      BY DEF AnchoredBy, Recalls
    <3>2. Before(x, c.at) => ~Before(from, x)
      BY <1>2 DEF AnchoredBy, Said
    <3> HIDE DEF from, R
    <3> QED
      BY <3>1, <3>2, BeforeIsOrder
  <2>2. Said(j, c) = {x \in R : ~Before(from, x)}
    BY <2>1 DEF Said
  <2>3. Seed(j, o, c.session) = LastFamily(j, Said(j, c))
    BY <2>2 DEF Seed
  <2>4. d.family = Seed(j, o, c.session)
    BY <1>2 DEF Seeded, Correction
  <2>5. Said(j, c) = {} => LastFamily(j, Said(j, c)) = NoFamily
    BY DEF LastFamily
  <2> HIDE DEF d
  <2> QED
    BY <1>0, <1>2, <2>3, <2>4, <2>5 DEF d
<1> QED
  BY <1>1, <1>2

(***************************************************************************)
(* Types.                                                                  *)
(***************************************************************************)

\* Quotient and remainder.
LEMMA Quotient ==
  ASSUME NEW n \in Nat, NEW d \in Nat \ {0}
  PROVE  \E q \in Nat, r \in 0 .. d - 1 : n = q * d + r /\ n % d = r /\ n - (n % d) = q * d
<1>1. n \div d \in Nat /\ n % d \in 0 .. d - 1 /\ n = (n \div d) * d + (n % d)
  OBVIOUS
<1>2. n - (n % d) = (n \div d) * d
  <2>1. (n \div d) * d \in Nat
    BY <1>1
  <2> QED
    BY <1>1, <2>1
<1> QED
  BY <1>1, <1>2

\* Between multiples.
LEMMA Multiples ==
  ASSUME NEW q \in Nat, NEW u \in Nat, NEW d \in Nat \ {0}, q * d < (u + 1) * d
  PROVE  q <= u /\ q * d <= u * d
<1>1. q <= u
  <2> SUFFICES ASSUME u + 1 <= q PROVE FALSE
    OBVIOUS
  <2>1. (u + 1) * d <= q * d
    OBVIOUS
  <2> QED
    BY <2>1
<1>2. q * d <= u * d
  BY <1>1
<1> QED
  BY <1>1, <1>2

\* Whole seconds run on with the clock.
LEMMA StampMonotonic == ASSUME NEW a \in Nat, NEW b \in Nat, NEW d \in Nat \ {0}, a <= b
  PROVE a - (a % d) \in Nat /\ a - (a % d) <= a /\ a - (a % d) <= b - (b % d)
<1>1. PICK q \in Nat, r \in 0 .. d-1 : a = q * d + r /\ a % d = r /\ a - (a % d) = q * d
  BY Quotient
<1>2. PICK u \in Nat, s \in 0 .. d-1 : b = u * d + s /\ b % d = s /\ b - (b % d) = u * d
  BY Quotient
<1>3. q * d \in Nat /\ u * d \in Nat /\ (u + 1) * d = u * d + d
  OBVIOUS
<1>4. q * d < (u + 1) * d
  BY <1>1, <1>2, <1>3
<1>5. q * d <= u * d
  BY <1>4, Multiples
<1> QED BY <1>1, <1>2, <1>3, <1>5

\* What is more than a whole number of seconds ago is at least that many whole seconds ago.
LEMMA WholeGap == ASSUME NEW n \in Nat, NEW a \in Nat, NEW w \in Nat, NEW d \in Nat \ {0}, a % d = 0, w % d = 0, n - a > w
  PROVE n - (n % d) - a >= w
<1>1. PICK q \in Nat, r \in 0 .. d-1 : n = q * d + r /\ n % d = r /\ n - (n % d) = q * d
  BY Quotient
<1>2. PICK u \in Nat : a = u * d
  <2>1. PICK k \in Nat, s \in 0 .. d-1 : a = k * d + s /\ a % d = s /\ a - (a % d) = k * d
    BY Quotient
  <2> QED BY <2>1
<1>3. PICK v \in Nat : w = v * d
  <2>1. PICK k \in Nat, s \in 0 .. d-1 : w = k * d + s /\ w % d = s /\ w - (w % d) = k * d
    BY Quotient
  <2> QED BY <2>1
<1>4. (u + v) * d = u * d + v * d /\ (q + 1) * d = q * d + d /\ q * d \in Nat
  OBVIOUS
<1>5. (u + v) * d < (q + 1) * d
  BY <1>1, <1>2, <1>3, <1>4
<1>6. (u + v) * d <= q * d
  BY <1>5, Multiples
<1> QED BY <1>1, <1>2, <1>3, <1>4, <1>6

\* Days do not run backwards.
LEMMA DivMonotonic ==
  ASSUME NEW a \in Nat, NEW b \in Nat, NEW d \in Nat \ {0}, a <= b
  PROVE  a \div d \in Nat /\ a \div d <= b \div d
  OBVIOUS

\* The days are naturals up to the last one.
LEMMA DaysAre == Days \subseteq Nat /\ MaxNow \div DayLength \in Nat
  BY DivMonotonic, JournalAssumption DEF Days

\* What a step of p does to job, given the new record.
LEMMA JobTyped ==
  ASSUME job \in [Procs -> Job], NEW p \in Procs, NEW r \in Job, job' = [job EXCEPT ![p] = r]
  PROVE  job' \in [Procs -> Job]
  OBVIOUS

\* An idle process has a well-typed record.
LEMMA IdleTyped == Idle \in Job
<1>1. 0 \in Days
  BY DaysAre DEF Days
<1> QED
  BY <1>1 DEF Idle, Job, Offset, Start

\* A line is appended to a segment.
LEMMA AppendTyped ==
  ASSUME NEW s \in Segment, NEW line \in Entry \cup {Junk}
  PROVE  Append1(s, line) \in Segment
  BY DEF Append1, Segment

\* The journal is a function from bounded positions to entries.
LEMMA JournalTyped ==
  ASSUME segments \in [Days -> Segment]
  PROVE  /\ DOMAIN Journal \subseteq Positions
         /\ \A x \in DOMAIN Journal :
              /\ x \in Int \X Int /\ x[1] <= MaxNow \div DayLength /\ x[2] <= 2 * MaxLines
              /\ Journal[x] \in Entry
<1>1. DOMAIN Journal = Readable /\ Readable \subseteq Positions
  BY DEF Journal, Readable
<1>2. ASSUME NEW x \in Readable
      PROVE  /\ x \in Int \X Int /\ x[1] <= MaxNow \div DayLength /\ x[2] <= 2 * MaxLines
             /\ Journal[x] \in Entry
  <2>1. x[1] \in Days /\ x[2] \in 1 .. 2 * MaxLines /\ x = <<x[1], x[2]>>
    BY <1>1 DEF Positions
  <2>2. x \in Int \X Int /\ x[1] <= MaxNow \div DayLength /\ x[2] <= 2 * MaxLines
    BY <2>1, DaysAre, JournalAssumption DEF Days
  <2>3. segments[x[1]].lines \in Seq(Entry \cup {Junk}) /\ x[2] \in DOMAIN segments[x[1]].lines
    BY <2>1 DEF Readable, Segment
  <2>4. segments[x[1]].lines[x[2]] \in Entry \cup {Junk}
    BY <2>3
  <2>5. Journal[x] = segments[x[1]].lines[x[2]]
    BY DEF Journal
  <2> QED
    BY <2>2, <2>4, <2>5 DEF Readable
<1> QED
  BY <1>1, <1>2

\* What a read hands on.
LEMMA EndTyped ==
  ASSUME segments \in [Days -> Segment], NEW o \in Offset
  PROVE  End(o) \in Offset
<1> DEFINE read == {d \in Existing : d >= o.day}
<1>1. CASE read = {}
  BY <1>1 DEF End
<1>2. CASE read # {}
  <2>1. Max(read) \in read
    <3>1. \A k \in read : k \in Int /\ k <= MaxNow \div DayLength
      BY DaysAre DEF Existing, Days
    <3> HIDE DEF read
    <3> QED
      BY <1>2, <3>1, DaysAre, MaxIsMember
  <2>2. Max(read) \in Days
    BY <2>1 DEF Existing
  <2>3. Len(segments[Max(read)].lines) \in Nat
    BY <2>2 DEF Segment
  <2>4. End(o) = [day |-> Max(read), line |-> Len(segments[Max(read)].lines)]
    BY <1>2 DEF End
  <2> HIDE DEF read
  <2> QED
    BY <2>2, <2>3, <2>4 DEF Offset
<1> QED
  BY <1>1, <1>2

\* Offsets compare with positions.
LEMMA OffsetIsPosition == \A o \in Offset : <<o.day, o.line>> \in Int \X Int
<1> SUFFICES ASSUME NEW o \in Offset PROVE <<o.day, o.line>> \in Int \X Int
  OBVIOUS
<1>1. o.day \in Days \cup {-1} /\ o.line \in Nat
  BY DEF Offset
<1>2. o.day \in Int
  <2>1. CASE o.day \in Days
    <3>1. \A d \in Days : d \in Int
      BY DaysAre
    <3> HIDE <1>1
    <3> QED
      BY <2>1, <3>1, Zenon
  <2>2. CASE o.day = -1
    BY <2>2
  <2> QED
    BY <1>1, <2>1, <2>2
<1> QED
  BY <1>1, <1>2

\* What waits is a set of times.
LEMMA WaitingTyped ==
  ASSUME segments \in [Days -> Segment], NEW o
  PROVE  Waiting(Batch(Journal, o)) \subseteq Seconds
<1>1. \A x \in DOMAIN Batch(Journal, o) : Batch(Journal, o)[x] \in Entry
  BY JournalTyped DEF Batch
<1> QED
  BY <1>1 DEF Waiting, Entry

\* The family of the last of some lines.
LEMMA LastFamilyTyped ==
  ASSUME segments \in [Days -> Segment], NEW j, DOMAIN j \subseteq DOMAIN Journal,
         \A x \in DOMAIN j : j[x] = Journal[x], NEW S \in SUBSET DOMAIN j
  PROVE  LastFamily(j, S) \in Families \cup {NoFamily}
<1>1. CASE S = {}
  BY <1>1 DEF LastFamily
<1>2. CASE S # {}
  <2>1. \A x \in S : /\ x \in Int \X Int /\ x[1] <= MaxNow \div DayLength /\ x[2] <= 2 * MaxLines
                     /\ j[x] \in Entry
    BY JournalTyped
  <2>2. 2 * MaxLines \in Int /\ MaxNow \div DayLength \in Int
    BY DaysAre, JournalAssumption
  <2>3. PICK x \in S : LastOf(S, x)
    BY <1>2, <2>1, <2>2, LastExists
  <2>4. LastFamily(j, S) = j[x].family
    BY <2>1, <2>3, LastFamilyIs
  <2> QED
    BY <2>1, <2>4 DEF Entry
<1> QED
  BY <1>1, <1>2

\* The corrections of a batch are well typed, the anchor included.
LEMMA CorrectionsTyped ==
  ASSUME segments \in [Days -> Segment], NEW o
  PROVE  Corrections(Batch(Journal, o)) \subseteq Correction
<1> DEFINE b == Batch(Journal, o)
<1>1. DOMAIN b \subseteq DOMAIN Journal /\ \A x \in DOMAIN b : b[x] = Journal[x]
  BY DEF Batch
<1>2. ASSUME NEW x \in DOMAIN b
      PROVE  [at |-> x, cmd |-> b[x].cmd, session |-> b[x].session, family |-> InBatch(b, x)]
               \in Correction
  <2>1. x \in Positions /\ b[x] \in Entry
    BY <1>1, JournalTyped
  <2>2. {y \in Recalls(b, b[x].session) : Before(y, x)} \in SUBSET DOMAIN b
    BY DEF Recalls
  <2>3. InBatch(b, x) \in Families \cup {NoFamily}
    <3> HIDE DEF b
    <3> QED
      BY <1>1, <2>2, LastFamilyTyped DEF InBatch
  <2> QED
    BY <2>1, <2>3 DEF Correction, Entry
<1> HIDE DEF b
<1>3. Corrections(b) \subseteq Correction
  BY <1>2 DEF Corrections
<1> QED
  BY <1>3 DEF b

\* So are they with the seed.
LEMMA SeededTyped ==
  ASSUME segments \in [Days -> Segment], NEW j, DOMAIN j \subseteq DOMAIN Journal,
         \A x \in DOMAIN j : j[x] = Journal[x], NEW o, NEW c \in Correction
  PROVE  Seeded(c, j, o) \in Correction
<1>1. Seed(j, o, c.session) \in Families \cup {NoFamily}
  <2>1. {x \in Recalls(j, c.session) : ~Before(<<o.day, o.line>>, x)} \in SUBSET DOMAIN j
    BY DEF Recalls
  <2> QED
    BY <2>1, LastFamilyTyped DEF Seed
<1> QED
  BY <1>1 DEF Seeded, Correction

\* Every step of a process keeps the types.
LEMMA StepTyped == ASSUME TypeOK, NEW p \in Procs, Step(p) PROVE TypeOK'
<1> USE DEF TypeOK
<1>0. job[p] \in Job /\ job[p].day \in Days /\ job[p].entry \in Entry \cup {Junk}
  BY DEF Job
<1>1. ASSUME NEW l \in {"repair", "heal", "write", "cleanup", "lastCleanup", "load", "read",
                        "seed", "decide", "derive"},
             Goto(p, l)
      PROVE  job' \in [Procs -> Job]
  <2>1. [job[p] EXCEPT !.pc = l] \in Job
    BY <1>0 DEF Job
  <2> QED
    BY <1>1, <2>1, JobTyped DEF Goto
<1>2. Finish(p) => job' \in [Procs -> Job]
  BY IdleTyped, JobTyped DEF Finish
<1>3. CASE Invoke(p)
  <2>0. PICK e \in Entry :
          /\ e.at = Stamp
          /\ job' = [job EXCEPT ![p] = [Idle EXCEPT !.pc = "repair", !.entry = e, !.day = Today]]
    BY <1>3 DEF Invoke
  <2>1. Today \in Days
    <3>1. now \in Nat /\ MaxNow \in Nat /\ now <= MaxNow /\ DayLength \in Nat \ {0}
      BY JournalAssumption
    <3>2. Today \in Nat /\ Today <= MaxNow \div DayLength /\ MaxNow \div DayLength \in Nat
      BY <3>1, DivMonotonic DEF Today
    <3> QED
      BY <3>2 DEF Days
  <2>2. [Idle EXCEPT !.pc = "repair", !.entry = e, !.day = Today] \in Job
    BY <2>1, IdleTyped DEF Job
  <2>3. job' \in [Procs -> Job]
    BY <2>0, <2>2, JobTyped
  <2> QED
    BY <1>3, <2>3 DEF Invoke
<1>4. CASE RepairInspect(p)
  BY <1>1, <1>4 DEF RepairInspect
<1>5. CASE RepairHeal(p)
  <2>1. Append1(segments[job[p].day], Junk) \in Segment
    BY <1>0, AppendTyped
  <2> QED
    BY <1>0, <1>1, <1>5, <2>1 DEF RepairHeal
<1>6. CASE Write(p)
  <2>1. Append1(segments[job[p].day], job[p].entry) \in Segment
    BY <1>0, AppendTyped
  <2>2. [Idle EXCEPT !.pc = IF RunsPass(p) THEN "cleanup" ELSE "lastCleanup"] \in Job
    BY IdleTyped DEF Job
  <2>3. job' \in [Procs -> Job]
    BY <1>6, <2>2, JobTyped DEF Write
  <2> QED
    BY <1>0, <1>6, <2>1, <2>3 DEF Write
<1>7. CASE WriteTorn(p)
  <2>1. segments' \in [Days -> Segment]
    BY <1>0, <1>7 DEF WriteTorn, Segment
  <2>2. [Idle EXCEPT !.pc = "load"] \in Job
    BY IdleTyped DEF Job
  <2>3. job' \in [Procs -> Job]
    BY <1>2, <1>7, <2>2, JobTyped DEF WriteTorn
  <2> QED
    BY <1>7, <2>1, <2>3 DEF WriteTorn
<1>8. CASE Cleanup(p)
  <2>1. NoSegment \in Segment
    BY DEF NoSegment, Segment
  <2>2. segments' \in [Days -> Segment]
    BY <1>8, <2>1 DEF Cleanup
  <2>3. job' \in [Procs -> Job]
    BY <1>1, <1>2, <1>8 DEF Cleanup
  <2> QED
    BY <1>8, <2>2, <2>3 DEF Cleanup
<1>9. CASE LoadOffset(p)
  <2>1. [Idle EXCEPT !.pc = "read", !.from = offset] \in Job
    BY IdleTyped DEF Job
  <2>2. job' \in [Procs -> Job]
    BY <1>9, <2>1, JobTyped DEF LoadOffset
  <2> QED
    BY <1>9, <2>2 DEF LoadOffset
<1>10. CASE Read(p)
  <2>1. job[p].from \in Offset
    BY <1>0 DEF Job
  <2>2. /\ End(job[p].from) \in Offset
        /\ Waiting(Batch(Journal, job[p].from)) \subseteq Seconds
        /\ Corrections(Batch(Journal, job[p].from)) \subseteq Correction
    BY <2>1, EndTyped, WaitingTyped, CorrectionsTyped
  <2>3. [job[p] EXCEPT !.pc = "seed", !.next = End(job[p].from),
                       !.waiting = Waiting(Batch(Journal, job[p].from)),
                       !.todo = Corrections(Batch(Journal, job[p].from))] \in Job
    BY <1>0, <2>2 DEF Job
  <2>4. job' \in [Procs -> Job]
    BY <1>2, <1>10, <2>3, JobTyped DEF Read
  <2> QED
    BY <1>10, <2>4 DEF Read
<1>15. ASSUME NEW unread \in SUBSET Existing, ReadSeed(p, unread) PROVE TypeOK'
  <2> DEFINE j == [x \in {y \in Readable : y[1] \notin unread} |-> Journal[x]]
  <2>1. DOMAIN j \subseteq DOMAIN Journal /\ \A x \in DOMAIN j : j[x] = Journal[x]
    BY DEF Journal
  <2>2. job' = [job EXCEPT ![p] =
          [job[p] EXCEPT !.pc = "decide", !.from = Start,
                         !.todo = {Seeded(c, j, job[p].from) : c \in job[p].todo}]]
    BY <1>15 DEF ReadSeed
  <2>3. job[p].todo \subseteq Correction /\ Start \in Offset
    BY <1>0 DEF Job, Offset, Start
  <2> HIDE DEF j
  <2>4. {Seeded(c, j, job[p].from) : c \in job[p].todo} \subseteq Correction
    BY <2>1, <2>3, SeededTyped
  <2>5. [job[p] EXCEPT !.pc = "decide", !.from = Start,
                       !.todo = {Seeded(c, j, job[p].from) : c \in job[p].todo}] \in Job
    BY <1>0, <2>3, <2>4 DEF Job
  <2>6. job' \in [Procs -> Job]
    BY <2>2, <2>5, JobTyped
  <2> QED
    BY <1>15, <2>6 DEF ReadSeed
<1>11. CASE Decide(p)
  <2>1. [job[p] EXCEPT !.pc = "derive", !.waiting = {}] \in Job
    BY <1>0 DEF Job
  <2>2. job' \in [Procs -> Job]
    BY <1>2, <1>11, <2>1, JobTyped DEF Decide
  <2> QED
    BY <1>11, <2>2 DEF Decide
<1>12. CASE Derive(p)
  <2>1. PICK c \in job[p].todo :
          /\ sighted' = [sighted EXCEPT ![c.at] = IF @ < MaxSighted THEN @ + 1 ELSE @]
          /\ job' = [job EXCEPT ![p].todo = @ \ {c}]
    BY <1>12 DEF Derive
  <2>2. [job[p] EXCEPT !.todo = @ \ {c}] \in Job
    BY <1>0 DEF Job
  <2>3. job' \in [Procs -> Job]
    BY <2>1, <2>2, JobTyped
  <2>4. c.at \in Positions
    BY <1>0 DEF Job, Correction
  <2>5. sighted' \in [Positions -> 0 .. MaxSighted]
    BY <2>1, <2>4, JournalAssumption
  <2> QED
    BY <1>12, <2>3, <2>5 DEF Derive
<1>13. CASE StoreOffset(p)
  <2>1. job[p].next \in Offset
    BY <1>0 DEF Job
  <2> QED
    BY <1>2, <1>13, <2>1 DEF StoreOffset
<1>14. CASE Abort(p)
  BY <1>2, <1>14 DEF Abort
<1> QED
  BY <1>3, <1>4, <1>5, <1>6, <1>7, <1>8, <1>9, <1>10, <1>11, <1>12, <1>13, <1>14, <1>15
     DEF Step

\* The initial state is well typed.
LEMMA TypeInit == Init => TypeOK
<1> SUFFICES ASSUME Init PROVE TypeOK
  OBVIOUS
<1>1. NoSegment \in Segment /\ Start \in Offset
  BY DEF NoSegment, Segment, Start, Offset
<1> QED
  BY <1>1, IdleTyped, JournalAssumption DEF Init, TypeOK

\* The types are inductive as they stand: what a read hands on is typed because positions are
\* bounded, so that a set of them has a last one.
LEMMA TypeNext == TypeOK /\ [Next]_vars => TypeOK'
<1> SUFFICES ASSUME TypeOK, [Next]_vars PROVE TypeOK'
  OBVIOUS
<1>1. CASE Tick
  BY <1>1, JournalAssumption DEF Tick, TypeOK
<1>2. ASSUME NEW p \in Procs, Step(p) PROVE TypeOK'
  BY <1>2, StepTyped
<1>3. CASE UNCHANGED vars
  BY <1>3 DEF vars, TypeOK
<1> QED
  BY <1>1, <1>2, <1>3 DEF Next

\* The journal, the offset and every pass in progress stay well typed.
THEOREM JournalTypeCorrect == Spec => []TypeOK
<1> QED
  BY TypeInit, TypeNext, PTL DEF Spec

(***************************************************************************)
(* What the pairing promises, in every state.                              *)
(***************************************************************************)

\* Whatever processes append, tear, heal and clean up, no success in the journal corrects two
\* failures: a retry that fails takes the place of the failure before it (pairFlagCorrections).
THEOREM SuccessCorrectsOne == Spec => []OneFailurePerSuccess
<1>1. TypeOK => OneFailurePerSuccess
  <2> SUFFICES ASSUME TypeOK,
                      NEW x \in DOMAIN Journal, NEW y \in DOMAIN Journal, NEW z \in DOMAIN Journal,
                      Paired(Journal, x, z), Paired(Journal, y, z)
               PROVE  x = y
    BY DEF OneFailurePerSuccess
  <2>1. \A u \in DOMAIN Journal : u \in Int \X Int
    BY JournalTyped DEF TypeOK
  <2> QED
    BY <2>1, PairingIsInjective
<1> QED
  BY <1>1, JournalTypeCorrect, PTL

(***************************************************************************)
(* Nothing is skipped, while no clock reading is stale when it is used.    *)
(*                                                                         *)
(* The argument is about an offset, stored or carried by a pass, and the   *)
(* failures at or before it.  Such a failure has been counted, or its next *)
(* invocation is known, or comes too late to correct it.                   *)
(***************************************************************************)

Pos(o) == <<o.day, o.line>>

\* The pairs well within the window that a pass storing o leaves behind are in C.
Covered(j, o, C) ==
  \A x, y \in DOMAIN j :
    Paired(j, x, y) /\ j[y].at - j[x].at < Window /\ ~Before(Pos(o), y) => x \in C

\* In the second n, whatever follows x, or will, is not well within the window.
Late(j, n, x) ==
  /\ n - j[x].at >= Window
  /\ \A z \in DOMAIN j : Follows(j, x, z) => j[z].at - j[x].at >= Window

\* A failure at or before o that nothing at or before o follows.
Unanswered(j, o, x) ==
  /\ j[x].kind = "failed" /\ ~Before(Pos(o), x)
  /\ \A z \in DOMAIN j : Follows(j, x, z) => Before(Pos(o), z)

\* What o leaves behind is in C or late, but for the failures at times in W.
SettledAt(j, n, o, C, W) ==
  /\ Covered(j, o, C)
  /\ \A x \in DOMAIN j : Unanswered(j, o, x) => j[x].at \in W \/ Late(j, n, x)

\* The last position of the present day's segment: lines are added behind it only.
Edge == <<Today, Len(segments[Today].lines)>>

Seen == {x \in Positions : sighted[x] >= 1}
Due(r) == {c.at : c \in r.todo}

\* Segments are of past days; an empty file may exist, lines without a file do not.
Dated ==
  \A d \in Days : /\ segments[d].exists => d <= Today
                  /\ ~segments[d].exists => segments[d].lines = <<>>

\* A line about to be written bears the present second and goes to the present day.
Stamped(today, n, r) ==
  r.pc \in {"repair", "heal", "write"} => r.day = today /\ r.entry.at = n

\* What a pass has read or is about to store, in terms of the journal, the time, the edge and what
\* has been counted.
PassSettled(j, n, e, C, r) ==
  /\ r.pc = "read" => ~Before(e, Pos(r.from)) /\ SettledAt(j, n, r.from, C, {})
  /\ r.pc = "seed" => \A c \in r.todo : ~Before(e, c.at) /\ AnchoredBy(j, r.from, c)
  /\ r.pc \in {"seed", "decide"} =>
       /\ ~Before(e, Pos(r.next)) /\ SettledAt(j, n, r.next, C \cup Due(r), r.waiting)
       /\ \A z \in DOMAIN j : Before(Pos(r.next), z) => j[z].at = n
  /\ r.pc = "derive" => ~Before(e, Pos(r.next)) /\ SettledAt(j, n, r.next, C \cup Due(r), {})

ScanInv ==
  /\ TypeOK /\ Dated
  /\ ~Before(Edge, Pos(offset)) /\ SettledAt(Journal, Stamp, offset, Seen, {})
  /\ \A p \in Procs : Stamped(Today, Stamp, job[p]) /\ PassSettled(Journal, Stamp, Edge, Seen, job[p])

(***************************************************************************)
(* How what an offset leaves behind fares when the journal changes.        *)
(***************************************************************************)

IsJournal(j) == \A x \in DOMAIN j : x \in Int \X Int /\ j[x].at \in Int

\* k is j with a further entry w, after all others.
Grown(j, k, w) ==
  /\ DOMAIN k = DOMAIN j \cup {w} /\ \A x \in DOMAIN j : k[x] = j[x] /\ Before(x, w)

\* k is j without the entries up to some position.
Trimmed(j, k) ==
  /\ DOMAIN k \subseteq DOMAIN j /\ \A x \in DOMAIN k : k[x] = j[x]
  /\ \A x \in DOMAIN k, y \in DOMAIN j : Before(x, y) => y \in DOMAIN k

\* An entry written now, behind the offset, is no correction of what the offset left behind.
LEMMA GrownSettled ==
  ASSUME NEW j, NEW k, IsJournal(j), IsJournal(k), NEW w, Grown(j, k, w),
         NEW n \in Int, k[w].at = n, Window \in Nat,
         NEW o, Pos(o) \in Int \X Int, Before(Pos(o), w), NEW C, NEW W, SettledAt(j, n, o, C, W)
  PROVE  SettledAt(k, n, o, C, W)
<1>0. /\ \A x \in DOMAIN j : x \in DOMAIN k /\ k[x] = j[x] /\ x # w
      /\ \A x \in DOMAIN k : x \in DOMAIN j \/ x = w
      /\ w \in DOMAIN k
  BY BeforeIsOrder DEF Grown, IsJournal
<1>1. \A x, y \in DOMAIN j : Follows(k, x, y) <=> Follows(j, x, y)
  BY <1>0 DEF Follows
<1>2. \A x \in DOMAIN k : ~Before(Pos(o), x) => x \in DOMAIN j
  BY <1>0
<1>3. Covered(k, o, C)
  <2> SUFFICES ASSUME NEW x \in DOMAIN k, NEW y \in DOMAIN k, Paired(k, x, y),
                      k[y].at - k[x].at < Window, ~Before(Pos(o), y)
               PROVE  x \in C
    BY DEF Covered
  <2>1. y \in DOMAIN j /\ x \in DOMAIN j
    <3>1. y \in DOMAIN j
      BY <1>2
    <3>2. x # w
      <4>1. Before(x, y) /\ Before(y, w)
        BY <3>1 DEF Paired, IsNext, Follows, Grown
      <4> QED
        BY <3>1, <4>1, <1>0, BeforeIsOrder DEF IsJournal
    <3> QED
      BY <1>0, <3>1, <3>2
  <2>2. Paired(j, x, y)
    BY <1>0, <1>1, <2>1 DEF Paired, IsNext
  <2> QED
    BY <1>0, <2>1, <2>2 DEF SettledAt, Covered
<1>4. ASSUME NEW x \in DOMAIN k, Unanswered(k, o, x)
      PROVE  k[x].at \in W \/ Late(k, n, x)
  <2>1. x \in DOMAIN j /\ k[x] = j[x]
    BY <1>0, <1>2, <1>4 DEF Unanswered
  <2>2. Unanswered(j, o, x)
    BY <1>0, <1>1, <1>4, <2>1 DEF Unanswered
  <2>3. CASE j[x].at \in W
    BY <2>1, <2>3
  <2>4. CASE Late(j, n, x)
    <3>1. ASSUME NEW z \in DOMAIN k, Follows(k, x, z) PROVE k[z].at - k[x].at >= Window
      <4>1. CASE z = w
        BY <2>1, <2>4, <4>1 DEF Late
      <4>2. CASE z \in DOMAIN j
        BY <1>0, <1>1, <2>1, <2>4, <3>1, <4>2 DEF Late
      <4> QED
        BY <1>0, <4>1, <4>2
    <3> QED
      BY <2>1, <2>4, <3>1 DEF Late
  <2> QED
    BY <2>1, <2>2, <2>3, <2>4 DEF SettledAt
<1> QED
  BY <1>3, <1>4 DEF SettledAt

\* A cleanup takes no follower without what it follows.
LEMMA TrimmedSettled ==
  ASSUME NEW j, NEW k, IsJournal(j), Trimmed(j, k),
         NEW n, NEW o, NEW C, NEW W, SettledAt(j, n, o, C, W)
  PROVE  SettledAt(k, n, o, C, W)
<1>0. \A x \in DOMAIN k : x \in DOMAIN j /\ k[x] = j[x]
  BY DEF Trimmed
<1>1. \A x \in DOMAIN k, y \in DOMAIN j : Follows(j, x, y) => y \in DOMAIN k /\ Follows(k, x, y)
  BY <1>0 DEF Follows, Trimmed
<1>2. \A x, y \in DOMAIN k : Follows(k, x, y) => Follows(j, x, y)
  BY <1>0 DEF Follows
<1>3. Covered(k, o, C)
  <2> SUFFICES ASSUME NEW x \in DOMAIN k, NEW y \in DOMAIN k, Paired(k, x, y),
                      k[y].at - k[x].at < Window, ~Before(Pos(o), y)
               PROVE  x \in C
    BY DEF Covered
  <2>1. Paired(j, x, y)
    BY <1>0, <1>1, <1>2 DEF Paired, IsNext
  <2> QED
    BY <1>0, <2>1 DEF SettledAt, Covered
<1>4. ASSUME NEW x \in DOMAIN k, Unanswered(k, o, x)
      PROVE  k[x].at \in W \/ Late(k, n, x)
  <2>1. x \in DOMAIN j /\ k[x] = j[x]
    BY <1>0
  <2>2. Unanswered(j, o, x)
    BY <1>1, <1>4, <2>1 DEF Unanswered
  <2>3. Late(j, n, x) => Late(k, n, x)
    BY <1>0, <1>2 DEF Late
  <2> QED
    BY <2>1, <2>2, <2>3 DEF SettledAt
<1> QED
  BY <1>3, <1>4 DEF SettledAt

\* Later, with more counted.
LEMMA LaterSettled ==
  ASSUME NEW j, IsJournal(j), NEW n \in Int, NEW m \in Int, n <= m, Window \in Nat,
         NEW o, NEW C, NEW D, C \subseteq D, NEW W, SettledAt(j, n, o, C, W)
  PROVE  SettledAt(j, m, o, D, W)
<1>1. \A x \in DOMAIN j : Late(j, n, x) => Late(j, m, x)
  BY DEF Late, IsJournal
<1> QED
  BY <1>1 DEF SettledAt, Covered

\* A read from a settled offset, to the end of the journal: what it pairs and what waits is all that
\* is left to settle.
LEMMA ReadSettled ==
  ASSUME NEW j, IsJournal(j), NEW n, Window \in Nat,
         NEW o, Pos(o) \in Int \X Int, NEW C, SettledAt(j, n, o, C, {}),
         NEW e, \A x \in DOMAIN j : ~Before(Pos(e), x)
  PROVE  SettledAt(j, n, e, C \cup {c.at : c \in Corrections(Batch(j, o))}, Waiting(Batch(j, o)))
<1> DEFINE b == Batch(j, o)
           D == {c.at : c \in Corrections(b)}
<1>0. /\ DOMAIN b = {x \in DOMAIN j : Before(Pos(o), x)}
      /\ \A x \in DOMAIN b : x \in DOMAIN j /\ b[x] = j[x]
  BY DEF Batch, Pos
<1>1. \A x, y \in DOMAIN b : Follows(b, x, y) <=> Follows(j, x, y)
  BY <1>0 DEF Follows
<1>2. \A x \in DOMAIN b, y \in DOMAIN j : Follows(j, x, y) => y \in DOMAIN b
  <2> SUFFICES ASSUME NEW x \in DOMAIN b, NEW y \in DOMAIN j, Follows(j, x, y) PROVE Before(Pos(o), y)
    BY <1>0
  <2>1. Before(Pos(o), x) /\ Before(x, y) /\ x \in Int \X Int /\ y \in Int \X Int
    BY <1>0 DEF Follows, IsJournal
  <2> HIDE DEF b
  <2> QED
    BY <2>1, BeforeIsOrder
<1>3. ASSUME NEW x \in DOMAIN j, NEW y \in DOMAIN j, Paired(j, x, y), j[y].at - j[x].at < Window
      PROVE  x \in C \cup D
  <2>1. CASE ~Before(Pos(o), y)
    BY <1>3, <2>1 DEF SettledAt, Covered
  <2>2. CASE Before(Pos(o), y) /\ x \in DOMAIN b
    <3>1. y \in DOMAIN b
      BY <1>0, <2>2
    <3>2. Paired(b, x, y)
      BY <1>0, <1>1, <1>3, <2>2, <3>1 DEF Paired, IsNext
    <3>3. [at |-> x, cmd |-> b[x].cmd, session |-> b[x].session, family |-> InBatch(b, x)]
            \in Corrections(b)
      BY <2>2, <3>1, <3>2 DEF Corrections
    <3> QED
      BY <3>3
  <2>3. CASE Before(Pos(o), y) /\ x \notin DOMAIN b
    <3>1. Follows(j, x, y) /\ j[x].kind = "failed" /\ j[y].at - j[x].at \in 0 .. Window
          /\ \A z \in DOMAIN j : Follows(j, x, z) => z = y \/ Before(y, z)
      BY <1>3 DEF Paired, IsNext
    <3>2. \A z \in DOMAIN j : Follows(j, x, z) => Before(Pos(o), z)
      BY <2>3, <3>1, BeforeIsOrder DEF IsJournal
    <3>3. Unanswered(j, o, x)
      BY <1>0, <2>3, <3>1, <3>2 DEF Unanswered
    <3>4. j[y].at - j[x].at >= Window
      BY <3>1, <3>3 DEF SettledAt, Late
    <3> QED
      BY <1>3, <3>4 DEF IsJournal
  <2> QED
    BY <2>1, <2>2, <2>3
<1>4. ASSUME NEW x \in DOMAIN j, Unanswered(j, e, x)
      PROVE  j[x].at \in Waiting(b) \/ Late(j, n, x)
  <2>1. \A z \in DOMAIN j : ~Follows(j, x, z)
    BY <1>4 DEF Unanswered
  <2>2. CASE x \in DOMAIN b
    <3>1. b[x].kind = "failed" /\ \A y \in DOMAIN b : ~Follows(b, x, y)
      BY <1>0, <1>1, <1>4, <2>1, <2>2 DEF Unanswered
    <3>2. b[x].at \in Waiting(b)
      BY <2>2, <3>1 DEF Waiting
    <3> QED
      BY <1>0, <2>2, <3>2
  <2>3. CASE x \notin DOMAIN b
    <3>1. Unanswered(j, o, x)
      BY <1>0, <1>4, <2>1, <2>3 DEF Unanswered
    <3> QED
      BY <3>1 DEF SettledAt
  <2> QED
    BY <2>2, <2>3
<1>5. Covered(j, e, C \cup D)
  BY <1>3 DEF Covered
<1> QED
  BY <1>4, <1>5 DEF SettledAt

\* The decision: nothing waits within the window, and what came after the read came just now.
LEMMA DecidedSettled ==
  ASSUME NEW j, IsJournal(j), NEW n \in Int, Window \in Nat, NEW o, NEW C, NEW W,
         SettledAt(j, n, o, C, W), \A at \in W : n - at >= Window,
         \A z \in DOMAIN j : Before(Pos(o), z) => j[z].at = n
  PROVE  SettledAt(j, n, o, C, {})
<1>1. ASSUME NEW x \in DOMAIN j, Unanswered(j, o, x), j[x].at \in W PROVE Late(j, n, x)
  <2>1. n - j[x].at >= Window
    BY <1>1 DEF IsJournal
  <2>2. \A z \in DOMAIN j : Follows(j, x, z) => j[z].at = n
    BY <1>1 DEF Unanswered
  <2> QED
    BY <2>1, <2>2 DEF Late
<1> QED
  BY <1>1 DEF SettledAt

\* What a step does to the journal, the time and the edge: nothing, or the clock advances, or an
\* entry of the present time is added behind the edge, or the oldest are removed.
Moved(j, n, e, k, m, f) ==
  /\ n <= m /\ ~Before(f, e)
  /\ \/ k = j
     \/ m = n /\ \E w : Grown(j, k, w) /\ k[w].at = n /\ Before(e, w)
     \/ m = n /\ Trimmed(j, k)

\* A settled offset stays settled.
LEMMA MovedSettled ==
  ASSUME NEW j, IsJournal(j), NEW k, IsJournal(k), NEW n \in Int, NEW m \in Int, Window \in Nat,
         NEW e \in Int \X Int, NEW f \in Int \X Int, Moved(j, n, e, k, m, f),
         NEW o, Pos(o) \in Int \X Int, ~Before(e, Pos(o)),
         NEW C, NEW D, C \subseteq D, NEW W, SettledAt(j, n, o, C, W)
  PROVE  ~Before(f, Pos(o)) /\ SettledAt(k, m, o, D, W)
<1>1. ~Before(f, Pos(o))
  <2> DEFINE q == Pos(o)
  <2>1. q \in Int \X Int /\ ~Before(e, q) /\ ~Before(f, e)
    BY DEF Moved
  <2> HIDE DEF q
  <2>2. ~Before(f, q)
    BY <2>1, BeforeIsOrder
  <2> QED
    BY <2>2 DEF q
<1>2. SettledAt(j, m, o, D, W)
  BY LaterSettled DEF Moved
<1>3. CASE k = j
  BY <1>1, <1>2, <1>3
<1>4. ASSUME NEW w, m = n, Grown(j, k, w), k[w].at = n, Before(e, w)
      PROVE  SettledAt(k, m, o, D, W)
  <2>1. w \in Int \X Int
    BY <1>4 DEF Grown, IsJournal
  <2>2. Before(Pos(o), w)
    <3> DEFINE q == Pos(o)
    <3>1. q \in Int \X Int /\ ~Before(e, q)
      OBVIOUS
    <3> HIDE DEF q
    <3>2. Before(q, w)
      BY <1>4, <2>1, <3>1, BeforeIsOrder
    <3> QED
      BY <3>2 DEF q
  <2> QED
    BY <1>2, <1>4, <2>2, GrownSettled
<1>5. ASSUME m = n, Trimmed(j, k) PROVE SettledAt(k, m, o, D, W)
  BY <1>2, <1>5, TrimmedSettled
<1> QED
  BY <1>1, <1>3, <1>4, <1>5 DEF Moved

\* Nor do the anchors change when lines are added behind the edge or the oldest removed.
LEMMA MovedAnchors ==
  ASSUME NEW j, IsJournal(j), NEW k, IsJournal(k), NEW n, NEW m,
         NEW e \in Int \X Int, NEW f \in Int \X Int, Moved(j, n, e, k, m, f),
         NEW o, NEW c, AnchoredBy(j, o, c), ~Before(e, c.at)
  PROVE  ~Before(f, c.at) /\ AnchoredBy(k, o, c)
<1>0. c.at \in Int \X Int /\ \A x \in Said(j, c) : x \in DOMAIN j
  BY DEF AnchoredBy, Said, Recalls
<1>1. ~Before(f, c.at)
  BY <1>0, BeforeIsOrder DEF Moved
<1>2. CASE k = j
  BY <1>1, <1>2
<1>3. ASSUME NEW w, Grown(j, k, w), Before(e, w) PROVE AnchoredBy(k, o, c)
  <2>1. ~Before(w, c.at)
    <3>1. w \in Int \X Int
      BY <1>3 DEF Grown, IsJournal
    <3> QED
      BY <1>0, <1>3, <3>1, BeforeIsOrder
  <2>2. Said(k, c) = Said(j, c)
    BY <1>3, <2>1 DEF Said, Recalls, Grown
  <2>3. \A x \in Said(j, c) : k[x] = j[x]
    BY <1>0, <1>3 DEF Grown
  <2> QED
    BY <2>2, <2>3 DEF AnchoredBy
<1>4. ASSUME Trimmed(j, k) PROVE AnchoredBy(k, o, c)
  <2>1. \A x \in Said(k, c) : x \in Said(j, c) /\ k[x] = j[x] /\ x \in DOMAIN k
    BY <1>4 DEF Said, Recalls, Trimmed
  <2>2. \A x \in Said(j, c) : x \in DOMAIN k => x \in Said(k, c)
    BY <1>4 DEF Said, Recalls, Trimmed
  <2>3. ASSUME NEW x \in Said(k, c), LastOf(Said(k, c), x) PROVE LastOf(Said(j, c), x)
    <3>1. ASSUME NEW y \in Said(j, c) PROVE y = x \/ Before(y, x)
      <4>1. x \in Int \X Int /\ y \in Int \X Int /\ y \in DOMAIN j /\ x \in DOMAIN k
        BY <1>0, <2>1 DEF IsJournal
      <4>2. CASE Before(x, y)
        <5>1. y \in Said(k, c)
          BY <1>4, <2>2, <4>1, <4>2 DEF Trimmed
        <5> QED
          BY <2>3, <5>1 DEF LastOf
      <4> QED
        BY <4>1, <4>2, BeforeIsOrder
    <3> QED
      BY <2>1, <3>1 DEF LastOf
  <2> QED
    BY <2>1, <2>3 DEF AnchoredBy
<1> QED
  BY <1>1, <1>2, <1>3, <1>4 DEF Moved

\* A pass is not disturbed by what others do meanwhile, if the clock stands between the read and the
\* decision.
LEMMA MovedPass ==
  ASSUME NEW j, IsJournal(j), NEW k, IsJournal(k), NEW n \in Int, NEW m \in Int, Window \in Nat,
         NEW e \in Int \X Int, NEW f \in Int \X Int, Moved(j, n, e, k, m, f),
         NEW C, NEW D, C \subseteq D, NEW r \in Job, PassSettled(j, n, e, C, r),
         r.pc \in {"seed", "decide"} => m = n
  PROVE  PassSettled(k, m, f, D, r)
<1>0. Pos(r.from) \in Int \X Int /\ Pos(r.next) \in Int \X Int
  BY OffsetIsPosition DEF Job, Pos
<1>1. C \cup Due(r) \subseteq D \cup Due(r)
  OBVIOUS
<1>2. ASSUME NEW o, Pos(o) \in Int \X Int, ~Before(e, Pos(o)), NEW A, NEW B, A \subseteq B,
             NEW W, SettledAt(j, n, o, A, W)
      PROVE  ~Before(f, Pos(o)) /\ SettledAt(k, m, o, B, W)
  BY <1>2, MovedSettled
<1>3. r.pc = "read" => ~Before(f, Pos(r.from)) /\ SettledAt(k, m, r.from, D, {})
  <2> SUFFICES ASSUME r.pc = "read" PROVE ~Before(f, Pos(r.from)) /\ SettledAt(k, m, r.from, D, {})
    OBVIOUS
  <2>1. ~Before(e, Pos(r.from)) /\ SettledAt(j, n, r.from, C, {})
    BY DEF PassSettled
  <2> QED
    BY <1>0, <1>2, <2>1
<1>4. r.pc \in {"seed", "decide"} => /\ ~Before(f, Pos(r.next))
                                     /\ SettledAt(k, m, r.next, D \cup Due(r), r.waiting)
  <2> SUFFICES ASSUME r.pc \in {"seed", "decide"}
               PROVE  ~Before(f, Pos(r.next)) /\ SettledAt(k, m, r.next, D \cup Due(r), r.waiting)
    OBVIOUS
  <2>1. ~Before(e, Pos(r.next)) /\ SettledAt(j, n, r.next, C \cup Due(r), r.waiting)
    BY DEF PassSettled
  <2> QED
    BY <1>0, <1>1, <1>2, <2>1
<1>5. r.pc = "derive" => ~Before(f, Pos(r.next)) /\ SettledAt(k, m, r.next, D \cup Due(r), {})
  <2> SUFFICES ASSUME r.pc = "derive"
               PROVE  ~Before(f, Pos(r.next)) /\ SettledAt(k, m, r.next, D \cup Due(r), {})
    OBVIOUS
  <2>1. ~Before(e, Pos(r.next)) /\ SettledAt(j, n, r.next, C \cup Due(r), {})
    BY DEF PassSettled
  <2> QED
    BY <1>0, <1>1, <1>2, <2>1
<1>6. ASSUME r.pc \in {"seed", "decide"}, NEW z \in DOMAIN k, Before(Pos(r.next), z) PROVE k[z].at = m
  BY <1>6 DEF PassSettled, Moved, Grown, Trimmed
<1>7. ASSUME r.pc = "seed", NEW c \in r.todo PROVE ~Before(f, c.at) /\ AnchoredBy(k, r.from, c)
  <2>1. ~Before(e, c.at) /\ AnchoredBy(j, r.from, c)
    BY <1>7 DEF PassSettled
  <2> QED
    BY <2>1, MovedAnchors
<1> QED
  BY <1>3, <1>4, <1>5, <1>6, <1>7 DEF PassSettled

(***************************************************************************)
(* The steps.                                                              *)
(***************************************************************************)

\* Seconds are times.
LEMMA StampTyped ==
  ASSUME TypeOK
  PROVE  now \in Nat /\ Stamp \in Nat /\ (TypeOK' /\ now <= now' => Stamp' \in Nat /\ Stamp <= Stamp')
<1>1. now \in Nat /\ Second \in Nat \ {0} /\ (TypeOK' => now' \in Nat)
  BY JournalAssumption DEF TypeOK
<1> QED
  BY <1>1, StampMonotonic DEF Stamp

\* The present day is one of the days.
LEMMA TodayTyped == TypeOK => Today \in Nat /\ Today \in Days /\ now \in Nat
<1> SUFFICES ASSUME TypeOK PROVE Today \in Nat /\ Today \in Days /\ now \in Nat
  OBVIOUS
<1>1. now \in Nat /\ MaxNow \in Nat /\ now <= MaxNow /\ DayLength \in Nat \ {0}
  BY JournalAssumption DEF TypeOK
<1>2. Today \in Nat /\ Today <= MaxNow \div DayLength
  BY <1>1, DivMonotonic DEF Today
<1>3. MaxNow \div DayLength \in Nat
  BY DaysAre
<1> QED
  BY <1>1, <1>2, <1>3 DEF Days

\* The edge is a position or the place before the first one.
LEMMA EdgeTyped == TypeOK => Edge \in Int \X Int
<1> SUFFICES ASSUME TypeOK PROVE Edge \in Int \X Int
  OBVIOUS
<1>1. Today \in Nat /\ segments[Today] \in Segment
  BY TodayTyped DEF TypeOK
<1>2. Len(segments[Today].lines) \in Nat
  BY <1>1 DEF Segment
<1> QED
  BY <1>1, <1>2 DEF Edge

\* The journal is as the lemmas above take it.
LEMMA JournalIs == TypeOK => IsJournal(Journal)
<1> SUFFICES ASSUME TypeOK, NEW x \in DOMAIN Journal
             PROVE  x \in Int \X Int /\ Journal[x].at \in Int
  BY DEF IsJournal
<1>1. x \in Int \X Int /\ Journal[x] \in Entry
  BY JournalTyped DEF TypeOK
<1>2. Journal[x].at \in 0 .. MaxNow
  BY <1>1 DEF Entry, Seconds
<1> QED
  BY <1>1, <1>2, JournalAssumption

\* A step that adds a line to the present day's segment.
LEMMA AppendMoves ==
  ASSUME TypeOK, TypeOK', Dated, UNCHANGED now, NEW line, line = Junk \/ line.at = Stamp,
         segments' = [segments EXCEPT ![Today] = Append1(@, line)]
  PROVE  Dated' /\ Moved(Journal, Stamp, Edge, Journal', Stamp', Edge')
<1> DEFINE s == segments[Today]
           l == IF s.torn THEN Junk ELSE line
           w == <<Today, Len(s.lines) + 1>>
<1>0. /\ Today \in Nat /\ Today \in Days /\ Stamp \in Nat /\ Stamp' = Stamp /\ Today' = Today
      /\ s \in Segment /\ segments \in [Days -> Segment]
  BY TodayTyped, StampTyped DEF TypeOK, Today, Stamp
<1>1. /\ s.lines \in Seq(Entry \cup {Junk}) /\ Len(s.lines) \in Nat
      /\ segments'[Today] \in Segment
      /\ segments'[Today].lines = Append(s.lines, l) /\ segments'[Today].exists
      /\ \A d \in Days \ {Today} : segments'[d] = segments[d]
  BY <1>0 DEF Append1, Segment, TypeOK
<1>2. /\ Len(segments'[Today].lines) = Len(s.lines) + 1
      /\ DOMAIN segments'[Today].lines = 1 .. Len(s.lines) + 1 /\ DOMAIN s.lines = 1 .. Len(s.lines)
      /\ segments'[Today].lines[Len(s.lines) + 1] = l
      /\ \A i \in DOMAIN s.lines : segments'[Today].lines[i] = s.lines[i]
  BY <1>1
<1>3. Dated'
  BY <1>0, <1>1 DEF Dated
<1>4. Edge' = w /\ Edge = <<Today, Len(s.lines)>> /\ Before(Edge, w) /\ ~Before(Edge', Edge)
  BY <1>0, <1>1, <1>2 DEF Edge, Before
<1>5. \A x \in Positions : x[1] \in Days /\ x[2] \in Nat /\ x = <<x[1], x[2]>>
  BY JournalAssumption DEF Positions
<1>6. ASSUME NEW x \in Positions
      PROVE  /\ x \in Readable' <=> x \in Readable \/ (x = w /\ l # Junk)
             /\ x \in Readable => x # w /\ Before(x, w)
             /\ x \in Readable => segments'[x[1]].lines[x[2]] = segments[x[1]].lines[x[2]]
  <2>1. CASE x[1] # Today
    <3>1. segments'[x[1]] = segments[x[1]] /\ x # w
      BY <1>1, <1>5, <2>1
    <3>2. x \in Readable => x[1] < Today
      <4>1. x \in Readable => segments[x[1]].lines # <<>>
        BY <1>0, <1>5 DEF Readable
      <4>2. x \in Readable => x[1] <= Today /\ x[1] \in Nat
        BY <1>5, <4>1, DaysAre DEF Dated
      <4> QED
        BY <1>0, <2>1, <4>2
    <3> QED
      BY <3>1, <3>2 DEF Readable, Before
  <2>2. CASE x[1] = Today
    <3>1. x \in Readable <=> x[2] \in 1 .. Len(s.lines) /\ s.lines[x[2]] # Junk
      BY <1>2, <2>2 DEF Readable
    <3>2. x \in Readable' <=> x[2] \in 1 .. Len(s.lines) + 1 /\ segments'[Today].lines[x[2]] # Junk
      BY <1>2, <2>2 DEF Readable
    <3>3. x = w <=> x[2] = Len(s.lines) + 1
      BY <1>5, <2>2
    <3>4. x[2] \in Nat /\ Len(s.lines) \in Nat
      BY <1>1, <1>5
    <3>5. x[2] \in 1 .. Len(s.lines) => segments'[Today].lines[x[2]] = s.lines[x[2]]
      BY <1>2
    <3>6. x[2] = Len(s.lines) + 1 => segments'[Today].lines[x[2]] = l
      BY <1>2
    <3> HIDE DEF s, l, w
    <3>7. x \in Readable' <=> x \in Readable \/ (x = w /\ l # Junk)
      BY <3>1, <3>2, <3>3, <3>4, <3>5, <3>6
    <3>8. x \in Readable => x # w /\ Before(x, w)
      BY <2>2, <3>1, <3>3, <3>4 DEF Before, w
    <3>9. x \in Readable => segments'[x[1]].lines[x[2]] = segments[x[1]].lines[x[2]]
      BY <2>2, <3>1, <3>5 DEF s
    <3> QED
      BY <3>7, <3>8, <3>9
  <2> QED
    BY <2>1, <2>2
<1>7. DOMAIN Journal = Readable /\ DOMAIN Journal' = Readable' /\ Readable \subseteq Positions
  BY DEF Journal, Readable
<1>8. CASE w \in Positions /\ l # Junk
  <2>1. Readable' = Readable \cup {w}
    <3> HIDE DEF w, l
    <3> QED
      BY <1>6, <1>8 DEF Readable
  <2>2. \A x \in Readable : Journal'[x] = Journal[x] /\ Before(x, w)
    <3> HIDE DEF w
    <3> QED
      BY <1>6, <1>7, <2>1 DEF Journal
  <2>3. Grown(Journal, Journal', w)
    BY <1>7, <2>1, <2>2 DEF Grown
  <2>4. Journal'[w] = line /\ line # Junk
    <3>1. Journal'[w] = segments'[w[1]].lines[w[2]]
      <4> HIDE DEF w
      <4> QED
        BY <2>1 DEF Journal
    <3> QED
      BY <1>2, <1>8, <3>1
  <2>5. Journal'[w].at = Stamp
    BY <2>4
  <2> HIDE DEF w
  <2> QED
    BY <1>0, <1>3, <1>4, <2>3, <2>5 DEF Moved
<1>9. CASE ~(w \in Positions /\ l # Junk)
  <2>1. Readable' = Readable
    <3> HIDE DEF w, l
    <3> QED
      BY <1>6, <1>9 DEF Readable
  <2>2. Journal' = Journal
    BY <1>6, <1>7, <2>1 DEF Journal
  <2> HIDE DEF w
  <2> QED
    BY <1>0, <1>3, <1>4, <2>2 DEF Moved
<1> QED
  BY <1>8, <1>9

\* The journal depends on the lines alone.
LEMMA SameLines ==
  ASSUME TypeOK, TypeOK', \A d \in Days : segments'[d].lines = segments[d].lines
  PROVE  Journal' = Journal
<1>1. \A x \in Positions : x[1] \in Days
  BY DEF Positions
<1>2. Readable' = Readable
  BY <1>1 DEF Readable
<1>3. \A x \in Readable : segments'[x[1]].lines[x[2]] = segments[x[1]].lines[x[2]]
  BY <1>1 DEF Readable
<1> QED
  BY <1>2, <1>3 DEF Journal

\* A write that stops short adds no line.
LEMMA TearMoves ==
  ASSUME TypeOK, TypeOK', Dated, UNCHANGED now,
         segments' = [segments EXCEPT ![Today].exists = TRUE, ![Today].torn = TRUE]
  PROVE  Dated' /\ Moved(Journal, Stamp, Edge, Journal', Stamp', Edge')
<1>0. /\ Today \in Nat /\ Today \in Days /\ Stamp \in Nat /\ Stamp' = Stamp /\ Today' = Today
      /\ segments \in [Days -> Segment]
  BY TodayTyped, StampTyped DEF TypeOK, Today, Stamp
<1>1. ASSUME NEW d \in Days
      PROVE  /\ segments'[d].lines = segments[d].lines
             /\ d # Today => segments'[d] = segments[d]
             /\ d = Today => segments'[d].exists
  BY <1>0 DEF Segment
<1>2. Dated'
  BY <1>0, <1>1 DEF Dated
<1>3. Journal' = Journal
  BY <1>1, SameLines
<1>4. Edge' = Edge /\ ~Before(Edge, Edge)
  BY <1>0, <1>1, EdgeTyped, BeforeIsOrder DEF Edge
<1> QED
  BY <1>0, <1>2, <1>3, <1>4 DEF Moved

\* The present day's segment is the newest and stays.
LEMMA CleanupMoves ==
  ASSUME TypeOK, TypeOK', Dated, UNCHANGED now,
         segments' = [d \in Days |-> IF d \in Expired THEN NoSegment ELSE segments[d]]
  PROVE  Dated' /\ Moved(Journal, Stamp, Edge, Journal', Stamp', Edge')
<1>0. /\ Today \in Nat /\ Today \in Days /\ Stamp \in Nat /\ Stamp' = Stamp /\ Today' = Today
      /\ segments \in [Days -> Segment]
  BY TodayTyped, StampTyped DEF TypeOK, Today, Stamp
<1>1. Today \notin Expired
  BY <1>0, DaysAre DEF Dated, Expired, Existing
<1>2. \A d \in Expired, c \in Existing : c <= d => c \in Expired
  <2> SUFFICES ASSUME NEW d \in Expired, NEW c \in Existing, c <= d PROVE c \in Expired
    OBVIOUS
  <2>1. Existing \subseteq Nat /\ d \in Existing
    BY DaysAre DEF Existing, Expired
  <2>2. \E newer \in Existing : newer > c
    BY <2>1 DEF Expired
  <2>3. ASSUME NEW b \in Existing, b <= c
        PROVE  \/ b * DayLength < now - MaxAge * DayLength
               \/ Lines({e \in Existing : e >= b}) > MaxTotal
    <3>1. b <= d
      BY <2>1, <2>3
    <3> QED
      BY <3>1 DEF Expired
  <2> QED
    BY <2>2, <2>3 DEF Expired
<1>3. ASSUME NEW d \in Days
      PROVE  /\ d \in Expired => ~segments'[d].exists /\ segments'[d].lines = <<>>
             /\ d \notin Expired => segments'[d] = segments[d]
  BY DEF NoSegment
<1>4. Dated'
  BY <1>0, <1>3 DEF Dated
<1>5. \A x \in Positions : x[1] \in Days /\ x[1] \in Nat /\ x[2] \in Nat
  <2>1. \A x \in Positions : x[1] \in Days /\ x[2] \in Nat
    BY JournalAssumption DEF Positions
  <2> QED
    BY <2>1, DaysAre
<1>6. ASSUME NEW x \in Readable'
      PROVE  x \in Readable /\ x[1] \notin Expired /\ x[1] \in Existing
             /\ segments'[x[1]] = segments[x[1]]
  <2>1. x \in Positions /\ x[1] \in Days /\ x[2] \in DOMAIN segments'[x[1]].lines
    BY <1>5 DEF Readable
  <2>2. x[1] \notin Expired
    BY <1>3, <2>1
  <2>3. x \in Readable
    BY <1>3, <2>1, <2>2 DEF Readable
  <2>4. segments[x[1]].lines # <<>>
    BY <1>3, <2>1, <2>2
  <2> QED
    BY <1>3, <2>1, <2>2, <2>3, <2>4 DEF Existing, Dated
<1>7. ASSUME NEW x \in Readable', NEW y \in Readable, Before(x, y)
      PROVE  y \in Readable'
  <2>1. x \in Positions /\ y \in Positions
    BY DEF Readable
  <2>2. x[1] <= y[1]
    BY <1>5, <1>7, <2>1 DEF Before
  <2>3. y[1] \notin Expired
    BY <1>2, <1>6, <2>2
  <2> QED
    BY <1>3, <1>5, <2>1, <2>3 DEF Readable
<1>8. DOMAIN Journal = Readable /\ DOMAIN Journal' = Readable'
  BY DEF Journal
<1>9. Trimmed(Journal, Journal')
  <2>1. \A x \in Readable' : Journal'[x] = Journal[x]
    BY <1>6 DEF Journal
  <2> QED
    BY <1>6, <1>7, <1>8, <2>1 DEF Trimmed
<1>10. Edge' = Edge /\ ~Before(Edge, Edge)
  BY <1>0, <1>1, <1>3, EdgeTyped, BeforeIsOrder DEF Edge
<1> QED
  BY <1>0, <1>4, <1>9, <1>10 DEF Moved

\* Time passes: on a new day the edge is a new segment.
LEMMA TickMoves ==
  ASSUME TypeOK, TypeOK', Dated, now' = now + 1, UNCHANGED segments
  PROVE  Dated' /\ Moved(Journal, Stamp, Edge, Journal', Stamp', Edge')
<1>0. /\ Stamp \in Nat /\ Stamp' \in Nat /\ Stamp <= Stamp'
      /\ Today \in Nat /\ Today' \in Nat /\ Today <= Today'
  <2>1. now \in Nat /\ now <= now'
    BY TodayTyped
  <2>2. Today \in Nat /\ Today' \in Nat /\ Today <= Today'
    BY <2>1, DivMonotonic, JournalAssumption DEF Today
  <2> QED
    BY <2>1, <2>2, StampTyped
<1>1. Dated'
  BY <1>0, DaysAre DEF Dated
<1>2. Journal' = Journal
  BY SameLines
<1>3. ~Before(Edge', Edge)
  <2>1. CASE Today' = Today
    BY <2>1, EdgeTyped, BeforeIsOrder DEF Edge
  <2>2. CASE Today' # Today
    BY <1>0, <2>2 DEF Edge, Before
  <2> QED
    BY <2>1, <2>2
<1> QED
  BY <1>0, <1>1, <1>2, <1>3 DEF Moved

\* Nothing in the files changes.
LEMMA StandsMoves ==
  ASSUME TypeOK, TypeOK', Dated, UNCHANGED <<now, segments>>
  PROVE  /\ Dated' /\ Moved(Journal, Stamp, Edge, Journal', Stamp', Edge')
         /\ Journal' = Journal /\ Edge' = Edge /\ Today' = Today /\ Stamp' = Stamp
<1>0. Stamp \in Nat /\ Stamp' = Stamp /\ Today' = Today /\ Edge' = Edge
  BY StampTyped DEF Today, Edge, Stamp
<1>1. Dated' /\ Journal' = Journal
  BY <1>0, SameLines DEF Dated
<1> QED
  BY <1>0, <1>1, EdgeTyped, BeforeIsOrder DEF Moved

(***************************************************************************)
(* The invariant of the scans is inductive.                                *)
(***************************************************************************)

\* What the lemmas about the journal assume of the files.
FilesTyped == IsJournal(Journal) /\ Edge \in Int \X Int /\ Stamp \in Nat

\* Types give what the lemmas ask of the files.
LEMMA FilesAreTyped == TypeOK => FilesTyped
  BY JournalIs, EdgeTyped, StampTyped DEF FilesTyped

\* And so they do after a step.
LEMMA FilesStayTyped == TypeOK' => FilesTyped'
  BY FilesAreTyped, PTL

\* What has been counted stays counted.
LEMMA SeenGrows ==
  ASSUME TypeOK,
         \/ UNCHANGED sighted
         \/ \E x \in Positions :
              sighted' = [sighted EXCEPT ![x] = IF @ < MaxSighted THEN @ + 1 ELSE @]
  PROVE  Seen \subseteq Seen'
<1>1. \A x \in Positions : sighted[x] \in Nat
  BY JournalAssumption DEF TypeOK
<1>2. sighted \in [Positions -> 0 .. MaxSighted] /\ MaxSighted \in Nat
  BY JournalAssumption DEF TypeOK
<1> QED
  BY <1>1, <1>2 DEF Seen

\* The labels at which a process has read the clock and not yet used what it read.
Timed == {"repair", "heal", "write", "seed", "decide"}
TimeStands == Today' = Today /\ Stamp' = Stamp

\* A step that moves the files as above keeps what the others and the stored offset rely on.
LEMMA ScanFrame ==
  ASSUME ScanInv, TypeOK', Dated', Moved(Journal, Stamp, Edge, Journal', Stamp', Edge'),
         Seen \subseteq Seen',
         \/ UNCHANGED offset
         \/ ~Before(Edge', Pos(offset')) /\ SettledAt(Journal', Stamp', offset', Seen', {}),
         \A q \in Procs :
           \/ job'[q] = job[q] /\ (TimeStands \/ job[q].pc \notin Timed)
           \/ Stamped(Today', Stamp', job'[q]) /\ PassSettled(Journal', Stamp', Edge', Seen', job'[q])
  PROVE  ScanInv'
<1>0. /\ IsJournal(Journal) /\ IsJournal(Journal') /\ Stamp \in Int /\ Stamp' \in Int /\ Window \in Nat
      /\ Edge \in Int \X Int /\ Edge' \in Int \X Int
  <2>1. FilesTyped /\ FilesTyped'
    BY FilesAreTyped, FilesStayTyped DEF ScanInv
  <2> QED
    BY <2>1, JournalAssumption DEF FilesTyped
<1>1. ~Before(Edge', Pos(offset')) /\ SettledAt(Journal', Stamp', offset', Seen', {})
  <2>1. CASE UNCHANGED offset
    <3>1. Pos(offset) \in Int \X Int
      BY OffsetIsPosition DEF ScanInv, TypeOK, Pos
    <3>2. ~Before(Edge, Pos(offset)) /\ SettledAt(Journal, Stamp, offset, Seen, {})
      BY DEF ScanInv
    <3>3. ~Before(Edge', Pos(offset)) /\ SettledAt(Journal', Stamp', offset, Seen', {})
      BY <1>0, <3>1, <3>2, MovedSettled
    <3> QED
      BY <2>1, <3>3
  <2> QED
    BY <2>1
<1>2. ASSUME NEW q \in Procs
      PROVE  Stamped(Today', Stamp', job'[q]) /\ PassSettled(Journal', Stamp', Edge', Seen', job'[q])
  <2>1. ASSUME job'[q] = job[q], TimeStands \/ job[q].pc \notin Timed
        PROVE  Stamped(Today', Stamp', job'[q]) /\ PassSettled(Journal', Stamp', Edge', Seen', job'[q])
    <3>1. PICK r \in Job : r = job[q]
      BY DEF ScanInv, TypeOK
    <3>2. Stamped(Today, Stamp, r) /\ PassSettled(Journal, Stamp, Edge, Seen, r)
      BY <3>1 DEF ScanInv
    <3>3. r.pc \in {"seed", "decide"} => Stamp' = Stamp
      BY <2>1, <3>1 DEF Timed, TimeStands
    <3>4. PassSettled(Journal', Stamp', Edge', Seen', r)
      BY <1>0, <3>2, <3>3, MovedPass
    <3>5. Stamped(Today', Stamp', r)
      BY <2>1, <3>1, <3>2 DEF Stamped, Timed, TimeStands
    <3> QED
      BY <2>1, <3>1, <3>4, <3>5
  <2> QED
    BY <2>1
<1> QED
  BY <1>1, <1>2 DEF ScanInv

\* A step of p: only its own record needs a look.
LEMMA ScanOwn ==
  ASSUME ScanInv, TypeOK', NEW p \in Procs, NEW r \in Job, job' = [job EXCEPT ![p] = r],
         UNCHANGED now, Dated', Moved(Journal, Stamp, Edge, Journal', Stamp', Edge'),
         Seen \subseteq Seen',
         \/ UNCHANGED offset
         \/ ~Before(Edge', Pos(offset')) /\ SettledAt(Journal', Stamp', offset', Seen', {}),
         Stamped(Today', Stamp', r), PassSettled(Journal', Stamp', Edge', Seen', r)
  PROVE  ScanInv'
<1>1. job \in [Procs -> Job]
  BY DEF ScanInv, TypeOK
<1>2. job'[p] = r /\ \A q \in Procs \ {p} : job'[q] = job[q]
  BY <1>1
<1>3. TimeStands
  BY DEF Today, Stamp, TimeStands
<1>4. \A q \in Procs :
        \/ job'[q] = job[q] /\ (TimeStands \/ job[q].pc \notin Timed)
        \/ Stamped(Today', Stamp', job'[q]) /\ PassSettled(Journal', Stamp', Edge', Seen', job'[q])
  BY <1>2, <1>3
<1> QED
  BY <1>4, ScanFrame

\* Labels at which a process relies on nothing.
LEMMA Unconcerned ==
  ASSUME NEW r, r.pc \in {"idle", "cleanup", "lastCleanup", "load"},
         NEW d, NEW j, NEW n, NEW e, NEW C
  PROVE  Stamped(d, n, r) /\ PassSettled(j, n, e, C, r)
  BY DEF Stamped, PassSettled

\* The end of a read: nothing lies behind it, and it is not beyond the edge.
LEMMA EndIs ==
  ASSUME TypeOK, Dated, NEW o \in Offset, ~Before(Edge, Pos(o))
  PROVE  /\ \A x \in DOMAIN Journal : ~Before(Pos(End(o)), x)
         /\ ~Before(Edge, Pos(End(o)))
<1> DEFINE read == {d \in Existing : d >= o.day}
<1>0. o.day \in Int /\ o.line \in Int
  <2>1. Pos(o) \in Int \X Int
    BY OffsetIsPosition DEF Pos
  <2> QED
    BY <2>1 DEF Pos
<1>1. /\ Today \in Nat /\ Existing \subseteq Nat /\ Existing \subseteq Days
      /\ \A d \in Existing : d <= Today
      /\ \A d \in Days : segments[d].lines \in Seq(Entry \cup {Junk})
  BY TodayTyped, DaysAre DEF Existing, Dated, TypeOK, Segment
<1>2. ASSUME NEW x \in DOMAIN Journal
      PROVE  /\ x[1] \in Existing /\ x[1] \in Nat /\ x[2] \in Nat
             /\ x[2] <= Len(segments[x[1]].lines)
  <2>1. x \in Positions /\ x[1] \in Days /\ x[2] \in DOMAIN segments[x[1]].lines
    BY DEF Journal, Readable, Positions
  <2>2. segments[x[1]].lines # <<>>
    BY <1>1, <2>1
  <2> QED
    BY <1>1, <2>1, <2>2 DEF Dated, Existing
<1>3. CASE read = {}
  <2>1. End(o) = o
    BY <1>3 DEF End
  <2>2. ASSUME NEW x \in DOMAIN Journal PROVE ~Before(Pos(o), x)
    <3>1. x[1] < o.day
      BY <1>0, <1>2, <1>3
    <3> QED
      BY <1>0, <1>2, <3>1 DEF Pos, Before
  <2> QED
    BY <2>1, <2>2
<1>4. CASE read # {}
  <2> DEFINE m == Max(read)
  <2>1. m \in read /\ \A k \in read : k <= m
    <3>1. \A k \in read : k \in Int /\ k <= Today
      BY <1>1
    <3> HIDE DEF read
    <3>2. PICK k \in read : \A i \in read : i <= k
      BY <1>1, <1>4, <3>1, Greatest
    <3> QED
      BY <3>1, <3>2 DEF Max
  <2>2. Pos(End(o)) = <<m, Len(segments[m].lines)>>
    BY <1>4 DEF End, Pos
  <2> HIDE DEF m
  <2>3. m \in Existing /\ m \in Nat /\ m >= o.day /\ m <= Today /\ Len(segments[m].lines) \in Nat
    BY <1>1, <2>1
  <2>4. ASSUME NEW x \in DOMAIN Journal PROVE ~Before(Pos(End(o)), x)
    <3>1. x[1] <= m
      BY <1>0, <1>2, <2>1, <2>3
    <3> QED
      BY <1>2, <2>2, <2>3, <3>1 DEF Before
  <2>5. ~Before(Edge, Pos(End(o)))
    BY <1>1, <2>2, <2>3 DEF Edge, Before
  <2> QED
    BY <2>4, <2>5
<1> QED
  BY <1>3, <1>4

\* The record of a process that finishes or goes on.
LEMMA NextRecord ==
  ASSUME TypeOK, NEW p \in Procs
  PROVE  /\ Finish(p) => job' = [job EXCEPT ![p] = Idle]
         /\ \A l : Goto(p, l) => job' = [job EXCEPT ![p] = [job[p] EXCEPT !.pc = l]]
         /\ job[p] \in Job /\ Idle \in Job
  BY IdleTyped DEF TypeOK, Finish, Goto

\* The label of an idle process.
LEMMA IdleIs == Idle.pc = "idle"
  BY DEF Idle

\* A process that writes stamped its line today.
LEMMA StampedNow ==
  ASSUME ScanInv, NEW p \in Procs, job[p].pc \in {"repair", "heal", "write"}
  PROVE  job[p].day = Today /\ job[p].entry.at = Stamp
  BY DEF ScanInv, Stamped

\* The steps that touch neither the files nor what is counted, and end at r.
LEMMA ScanQuiet ==
  ASSUME ScanInv, TypeOK', NEW p \in Procs, NEW r \in Job, job' = [job EXCEPT ![p] = r],
         UNCHANGED <<now, segments, sighted, offset>>,
         Stamped(Today, Stamp, r), PassSettled(Journal, Stamp, Edge, Seen, r)
  PROVE  ScanInv'
<1>1. /\ Dated' /\ Moved(Journal, Stamp, Edge, Journal', Stamp', Edge')
      /\ Journal' = Journal /\ Edge' = Edge /\ Today' = Today /\ Stamp' = Stamp
  BY StandsMoves DEF ScanInv
<1>2. Seen' = Seen
  BY DEF Seen
<1>3. Stamped(Today', Stamp', r) /\ PassSettled(Journal', Stamp', Edge', Seen', r)
  BY <1>1, <1>2
<1> QED
  BY <1>1, <1>2, <1>3, ScanOwn

\* The steps that write to the files and leave the process at a label where it relies on nothing.
LEMMA ScanDone ==
  ASSUME ScanInv, TypeOK', NEW p \in Procs, NEW r \in Job, job' = [job EXCEPT ![p] = r],
         UNCHANGED <<now, sighted, offset>>,
         Dated', Moved(Journal, Stamp, Edge, Journal', Stamp', Edge'),
         r.pc \in {"idle", "cleanup", "lastCleanup", "load"}
  PROVE  ScanInv'
<1>1. Seen' = Seen
  BY DEF Seen
<1>2. Stamped(Today', Stamp', r) /\ PassSettled(Journal', Stamp', Edge', Seen', r)
  BY Unconcerned
<1> QED
  BY <1>1, <1>2, ScanOwn

\* A torn line has been ended, and p still has its own to write.
LEMMA ScanHealed ==
  ASSUME ScanInv, TypeOK', NEW p \in Procs, NEW r \in Job, job' = [job EXCEPT ![p] = r],
         UNCHANGED <<now, sighted, offset>>,
         Dated', Moved(Journal, Stamp, Edge, Journal', Stamp', Edge'),
         Stamped(Today, Stamp, r), r.pc = "write"
  PROVE  ScanInv'
<1>1. Seen' = Seen /\ Today' = Today /\ Stamp' = Stamp
  BY DEF Seen, Today, Stamp
<1>2. Stamped(Today', Stamp', r) /\ PassSettled(Journal', Stamp', Edge', Seen', r)
  BY <1>1 DEF PassSettled
<1> QED
  BY <1>1, <1>2, ScanOwn

\* Every step of a process keeps the invariant.
LEMMA ScanStep == ASSUME ScanInv, NEW p \in Procs, Step(p), TypeOK' PROVE ScanInv'
<1>0. /\ TypeOK /\ Dated /\ job \in [Procs -> Job] /\ job[p] \in Job /\ Idle \in Job
      /\ segments \in [Days -> Segment] /\ offset \in Offset
      /\ PassSettled(Journal, Stamp, Edge, Seen, job[p]) /\ Stamped(Today, Stamp, job[p])
  BY NextRecord DEF ScanInv, TypeOK
<1>1. ASSUME Finish(p), UNCHANGED <<now, segments, sighted, offset>> PROVE ScanInv'
  <2>1. job' = [job EXCEPT ![p] = Idle]
    BY <1>1 DEF Finish
  <2>2. Stamped(Today, Stamp, Idle) /\ PassSettled(Journal, Stamp, Edge, Seen, Idle)
    BY IdleIs, Unconcerned
  <2> QED
    BY <1>0, <1>1, <2>1, <2>2, ScanQuiet
<1>2. CASE Invoke(p)
  <2>0. PICK e \in Entry :
          /\ e.at = Stamp
          /\ job' = [job EXCEPT ![p] = [Idle EXCEPT !.pc = "repair", !.entry = e, !.day = Today]]
    BY <1>2 DEF Invoke
  <2> DEFINE r == [Idle EXCEPT !.pc = "repair", !.entry = e, !.day = Today]
  <2>1. r \in Job /\ r.pc = "repair" /\ r.day = Today /\ r.entry.at = Stamp
    <3>1. Today \in Days
      BY <1>0, TodayTyped
    <3> QED
      BY <1>0, <2>0, <3>1 DEF Job
  <2>2. job' = [job EXCEPT ![p] = r]
    BY <2>0
  <2> HIDE DEF r
  <2>3. Stamped(Today, Stamp, r) /\ PassSettled(Journal, Stamp, Edge, Seen, r)
    BY <2>1 DEF Stamped, PassSettled
  <2> QED
    BY <1>0, <1>2, <2>1, <2>2, <2>3, ScanQuiet DEF Invoke
<1>3. CASE RepairInspect(p)
  <2> DEFINE l == IF segments[job[p].day].torn THEN "heal" ELSE "write"
             r == [job[p] EXCEPT !.pc = l]
  <2>1. /\ r \in Job /\ r.pc \in {"heal", "write"} /\ r.day = job[p].day /\ r.entry = job[p].entry
        /\ job' = [job EXCEPT ![p] = r]
    BY <1>0, <1>3 DEF RepairInspect, Goto, Job
  <2> HIDE DEF r
  <2>2. Stamped(Today, Stamp, r) /\ PassSettled(Journal, Stamp, Edge, Seen, r)
    BY <1>0, <1>3, <2>1 DEF RepairInspect, Stamped, PassSettled
  <2> QED
    BY <1>0, <1>3, <2>1, <2>2, ScanQuiet DEF RepairInspect
<1>4. CASE RepairHeal(p)
  <2> DEFINE r == [job[p] EXCEPT !.pc = "write"]
  <2>1. /\ r \in Job /\ r.pc = "write" /\ r.day = job[p].day /\ r.entry = job[p].entry
        /\ job' = [job EXCEPT ![p] = r]
    BY <1>0, <1>4 DEF RepairHeal, Goto, Job
  <2> HIDE DEF r
  <2>2. Dated' /\ Moved(Journal, Stamp, Edge, Journal', Stamp', Edge')
    <3>1. segments' = [segments EXCEPT ![Today] = Append1(@, Junk)] /\ UNCHANGED now
      BY <1>4, StampedNow DEF RepairHeal
    <3> QED
      BY <1>0, <3>1, AppendMoves
  <2>3. Stamped(Today, Stamp, r)
    BY <1>0, <1>4, <2>1 DEF RepairHeal, Stamped
  <2> QED
    BY <1>0, <1>4, <2>1, <2>2, <2>3, ScanHealed DEF RepairHeal
<1>5. CASE Write(p)
  <2> DEFINE l == IF RunsPass(p) THEN "cleanup" ELSE "lastCleanup"
             r == [Idle EXCEPT !.pc = l]
  <2>1. r \in Job /\ r.pc \in {"cleanup", "lastCleanup"} /\ job' = [job EXCEPT ![p] = r]
    BY <1>0, <1>5 DEF Write, Job
  <2> HIDE DEF r
  <2>2. Dated' /\ Moved(Journal, Stamp, Edge, Journal', Stamp', Edge')
    <3>1. /\ segments' = [segments EXCEPT ![Today] = Append1(@, job[p].entry)] /\ UNCHANGED now
          /\ job[p].entry.at = Stamp
      BY <1>5, StampedNow DEF Write
    <3> QED
      BY <1>0, <3>1, AppendMoves
  <2>3. UNCHANGED <<now, sighted, offset>>
    BY <1>5 DEF Write
  <2> QED
    BY <1>0, <2>1, <2>2, <2>3, ScanDone
<1>6. CASE WriteTorn(p)
  <2>1. Dated' /\ Moved(Journal, Stamp, Edge, Journal', Stamp', Edge')
    <3>1. /\ segments' = [segments EXCEPT ![Today].exists = TRUE, ![Today].torn = TRUE]
          /\ UNCHANGED now
      BY <1>6, StampedNow DEF WriteTorn
    <3> QED
      BY <1>0, <3>1, TearMoves
  <2>0. UNCHANGED <<now, sighted, offset>>
    BY <1>6 DEF WriteTorn
  <2>2. CASE Finish(p)
    <3>1. job' = [job EXCEPT ![p] = Idle] /\ Idle.pc \in {"idle", "cleanup", "lastCleanup", "load"}
      BY <2>2, IdleIs DEF Finish
    <3> QED
      BY <1>0, <2>0, <2>1, <3>1, ScanDone
  <2>3. CASE job' = [job EXCEPT ![p] = [Idle EXCEPT !.pc = "load"]]
    <3> DEFINE r == [Idle EXCEPT !.pc = "load"]
    <3>1. r \in Job /\ r.pc \in {"idle", "cleanup", "lastCleanup", "load"}
      BY <1>0 DEF Job
    <3>2. job' = [job EXCEPT ![p] = r]
      BY <2>3
    <3> HIDE DEF r
    <3> QED
      BY <1>0, <2>0, <2>1, <3>1, <3>2, ScanDone
  <2> QED
    BY <1>6, <2>2, <2>3 DEF WriteTorn
<1>7. CASE Cleanup(p)
  <2>1. Dated' /\ Moved(Journal, Stamp, Edge, Journal', Stamp', Edge')
    BY <1>0, <1>7, CleanupMoves DEF Cleanup
  <2>0. UNCHANGED <<now, sighted, offset>>
    BY <1>7 DEF Cleanup
  <2>2. CASE Finish(p)
    <3>1. job' = [job EXCEPT ![p] = Idle] /\ Idle.pc \in {"idle", "cleanup", "lastCleanup", "load"}
      BY <2>2, IdleIs DEF Finish
    <3> QED
      BY <1>0, <2>0, <2>1, <3>1, ScanDone
  <2>3. CASE Goto(p, "load")
    <3> DEFINE r == [job[p] EXCEPT !.pc = "load"]
    <3>1. /\ r \in Job /\ r.pc \in {"idle", "cleanup", "lastCleanup", "load"}
          /\ job' = [job EXCEPT ![p] = r]
      BY <1>0, <2>3 DEF Job, Goto
    <3> HIDE DEF r
    <3> QED
      BY <1>0, <2>0, <2>1, <3>1, ScanDone
  <2> QED
    BY <1>7, <2>2, <2>3 DEF Cleanup
<1>8. CASE LoadOffset(p)
  <2> DEFINE r == [Idle EXCEPT !.pc = "read", !.from = offset]
  <2>1. r \in Job /\ r.pc = "read" /\ r.from = offset /\ job' = [job EXCEPT ![p] = r]
    BY <1>0, <1>8 DEF LoadOffset, Job, Idle
  <2> HIDE DEF r
  <2>2. Stamped(Today, Stamp, r) /\ PassSettled(Journal, Stamp, Edge, Seen, r)
    BY <2>1 DEF Stamped, PassSettled, ScanInv
  <2> QED
    BY <1>0, <1>8, <2>1, <2>2, ScanQuiet DEF LoadOffset
<1>9. CASE Read(p)
  <2>1. CASE Finish(p)
    BY <1>1, <1>9, <2>1 DEF Read
  <2>2. CASE ~Finish(p)
    <3> DEFINE o == job[p].from
               b == Batch(Journal, o)
               r == [job[p] EXCEPT !.pc = "seed", !.next = End(o), !.waiting = Waiting(b),
                       !.todo = Corrections(b)]
    <3>1. o \in Offset /\ ~Before(Edge, Pos(o)) /\ SettledAt(Journal, Stamp, o, Seen, {})
      BY <1>0, <1>9 DEF Read, PassSettled, Job
    <3>2. /\ \A x \in DOMAIN Journal : ~Before(Pos(End(o)), x)
          /\ ~Before(Edge, Pos(End(o)))
      BY <1>0, <3>1, EndIs
    <3>3. SettledAt(Journal, Stamp, End(o), Seen \cup {c.at : c \in Corrections(b)}, Waiting(b))
      <4>1. IsJournal(Journal) /\ Window \in Nat /\ Pos(o) \in Int \X Int
        BY <1>0, <3>1, JournalIs, OffsetIsPosition, JournalAssumption DEF Pos
      <4> HIDE DEF o
      <4> QED
        BY <3>1, <3>2, <4>1, ReadSettled
    <3>4. job' = [job EXCEPT ![p] = r]
      BY <1>9, <2>2 DEF Read
    <3>5. r = job'[p] /\ r \in Job
      BY <1>0, <3>4 DEF TypeOK
    <3>6. /\ r.pc = "seed" /\ r.from = o /\ r.next = End(o) /\ r.waiting = Waiting(b)
          /\ r.todo = Corrections(b) /\ Due(r) = {c.at : c \in Corrections(b)}
      BY <1>0 DEF Job, Due
    <3>8. ASSUME NEW c \in Corrections(b) PROVE ~Before(Edge, c.at) /\ AnchoredBy(Journal, o, c)
      <4>1. 2 * MaxLines \in Int /\ MaxNow \div DayLength \in Int
        BY DaysAre, JournalAssumption
      <4>2. \A y \in DOMAIN Journal :
              y \in Int \X Int /\ y[1] <= MaxNow \div DayLength /\ y[2] <= 2 * MaxLines
        BY <1>0, JournalTyped
      <4>3. <<o.day, o.line>> \in Int \X Int
        BY <3>1, OffsetIsPosition
      <4>4. c.at \in DOMAIN Journal /\ AnchoredBy(Journal, o, c)
        <5> HIDE DEF o
        <5> QED
          BY <4>1, <4>2, <4>3, BatchAnchors
      <4>5. End(o) \in Offset
        BY <1>0, <3>1, EndTyped
      <4>6. /\ Pos(End(o)) \in Int \X Int /\ c.at \in Int \X Int /\ Edge \in Int \X Int
            /\ ~Before(Pos(End(o)), c.at) /\ ~Before(Edge, Pos(End(o)))
        BY <1>0, <3>2, <4>2, <4>4, <4>5, OffsetIsPosition, EdgeTyped DEF Pos
      <4>7. ~Before(Edge, c.at)
        <5> DEFINE q == Pos(End(o))
        <5> HIDE DEF q, o
        <5> QED
          BY <4>6, BeforeIsOrder DEF q
      <4> QED
        BY <4>4, <4>7
    <3> HIDE DEF r, o, b
    <3>7. Stamped(Today, Stamp, r) /\ PassSettled(Journal, Stamp, Edge, Seen, r)
      BY <3>2, <3>3, <3>6, <3>8 DEF Stamped, PassSettled
    <3> QED
      BY <1>0, <1>9, <3>4, <3>5, <3>7, ScanQuiet DEF Read
  <2> QED
    BY <2>1, <2>2
<1>14. ASSUME NEW unread \in SUBSET Existing, ReadSeed(p, unread) PROVE ScanInv'
  <2> DEFINE j == [x \in {y \in Readable : y[1] \notin unread} |-> Journal[x]]
             new == {Seeded(c, j, job[p].from) : c \in job[p].todo}
             r == [job[p] EXCEPT !.pc = "decide", !.from = Start, !.todo = new]
  <2>1. job' = [job EXCEPT ![p] = r]
    BY <1>14 DEF ReadSeed
  <2>2. /\ r = job'[p] /\ r \in Job /\ r.pc = "decide" /\ r.todo = new
        /\ r.next = job[p].next /\ r.waiting = job[p].waiting
    BY <1>0, <2>1 DEF TypeOK, Job
  <2>3. Due(r) = Due(job[p])
    <3>1. \A c \in job[p].todo : Seeded(c, j, job[p].from).at = c.at
      <4> HIDE DEF j
      <4> QED
        BY <1>0 DEF Seeded, Job, Correction
    <3> HIDE DEF r, j
    <3> QED
      BY <2>2, <3>1 DEF Due
  <2> HIDE DEF r
  <2>4. Stamped(Today, Stamp, r) /\ PassSettled(Journal, Stamp, Edge, Seen, r)
    BY <1>0, <1>14, <2>2, <2>3 DEF Stamped, PassSettled, ReadSeed
  <2> QED
    BY <1>0, <1>14, <2>1, <2>2, <2>4, ScanQuiet DEF ReadSeed
<1>10. CASE Decide(p)
  <2>1. CASE Finish(p)
    BY <1>1, <1>10, <2>1 DEF Decide
  <2>2. CASE ~Finish(p)
    <3> DEFINE r == [job[p] EXCEPT !.pc = "derive", !.waiting = {}]
    <3>1. /\ job' = [job EXCEPT ![p] = r]
          /\ \A at \in job[p].waiting : ~(now - at <= Window)
      BY <1>10, <2>2 DEF Decide
    <3>6. ASSUME NEW at \in job[p].waiting PROVE Stamp - at >= Window
      <4>1. at \in Nat /\ at % Second = 0
        BY <1>0, JournalAssumption DEF Job, Seconds
      <4>2. now \in Nat /\ Second \in Nat \ {0} /\ Window \in Nat /\ Window % Second = 0
        BY <1>0, StampTyped, JournalAssumption
      <4>3. now - at > Window
        BY <3>1, <4>1, <4>2
      <4> QED
        BY <4>1, <4>2, <4>3, WholeGap DEF Stamp
    <3>2. r \in Job /\ r.pc = "derive" /\ r.next = job[p].next /\ Due(r) = Due(job[p])
      BY <1>0 DEF Job, Due
    <3>3. /\ ~Before(Edge, Pos(job[p].next))
          /\ SettledAt(Journal, Stamp, job[p].next, Seen \cup Due(job[p]), job[p].waiting)
          /\ \A z \in DOMAIN Journal : Before(Pos(job[p].next), z) => Journal[z].at = Stamp
      BY <1>0, <1>10 DEF Decide, PassSettled
    <3>4. SettledAt(Journal, Stamp, job[p].next, Seen \cup Due(job[p]), {})
      <4>1. IsJournal(Journal) /\ Stamp \in Int /\ Window \in Nat
        BY <1>0, JournalIs, StampTyped, JournalAssumption
      <4> QED
        BY <3>3, <3>6, <4>1, DecidedSettled
    <3> HIDE DEF r
    <3>5. Stamped(Today, Stamp, r) /\ PassSettled(Journal, Stamp, Edge, Seen, r)
      BY <3>2, <3>3, <3>4 DEF Stamped, PassSettled
    <3> QED
      BY <1>0, <1>10, <3>1, <3>2, <3>5, ScanQuiet DEF Decide
  <2> QED
    BY <2>1, <2>2
<1>11. CASE Derive(p)
  <2>1. PICK c \in job[p].todo :
          /\ sighted' = [sighted EXCEPT ![c.at] = IF @ < MaxSighted THEN @ + 1 ELSE @]
          /\ job' = [job EXCEPT ![p].todo = @ \ {c}]
    BY <1>11 DEF Derive
  <2> DEFINE r == [job[p] EXCEPT !.todo = @ \ {c}]
  <2>2. r \in Job /\ r.pc = "derive" /\ r.next = job[p].next /\ job' = [job EXCEPT ![p] = r]
    BY <1>0, <1>11, <2>1 DEF Job, Derive
  <2>3. c.at \in Positions
    BY <1>0 DEF Job, Correction
  <2>4. Seen \subseteq Seen'
    BY <1>0, <2>1, <2>3, SeenGrows
  <2>5. c.at \in Seen'
    <3>1. sighted[c.at] \in 0 .. MaxSighted /\ MaxSighted \in Nat \ {0}
      BY <1>0, <2>3, JournalAssumption DEF TypeOK
    <3>2. sighted'[c.at] >= 1
      BY <1>0, <2>1, <2>3, <3>1 DEF TypeOK
    <3> QED
      BY <2>3, <3>2 DEF Seen
  <2>6. Due(job[p]) \subseteq Due(r) \cup {c.at}
    BY <1>0 DEF Due, Job
  <2>7. /\ Dated' /\ Moved(Journal, Stamp, Edge, Journal', Stamp', Edge')
        /\ Journal' = Journal /\ Edge' = Edge /\ Today' = Today /\ Stamp' = Stamp
    BY <1>0, <1>11, StandsMoves DEF Derive
  <2> HIDE DEF r
  <2>8. ~Before(Edge, Pos(r.next)) /\ SettledAt(Journal, Stamp, r.next, Seen' \cup Due(r), {})
    <3>1. ~Before(Edge, Pos(r.next)) /\ SettledAt(Journal, Stamp, r.next, Seen \cup Due(job[p]), {})
      BY <1>0, <1>11, <2>2 DEF Derive, PassSettled
    <3>2. Seen \cup Due(job[p]) \subseteq Seen' \cup Due(r)
      BY <2>4, <2>5, <2>6
    <3>3. IsJournal(Journal) /\ Stamp \in Int /\ Window \in Nat
      BY <1>0, JournalIs, StampTyped, JournalAssumption
    <3> QED
      BY <3>1, <3>2, <3>3, LaterSettled
  <2>9. Stamped(Today', Stamp', r) /\ PassSettled(Journal', Stamp', Edge', Seen', r)
    BY <2>2, <2>7, <2>8 DEF Stamped, PassSettled
  <2> QED
    BY <1>0, <1>11, <2>2, <2>4, <2>7, <2>9, ScanOwn DEF Derive
<1>12. CASE StoreOffset(p)
  <2>1. /\ Dated' /\ Moved(Journal, Stamp, Edge, Journal', Stamp', Edge')
        /\ Journal' = Journal /\ Edge' = Edge /\ Today' = Today /\ Stamp' = Stamp
    BY <1>0, <1>12, StandsMoves DEF StoreOffset
  <2>2. Seen' = Seen
    BY <1>12 DEF StoreOffset, Seen
  <2>3. ~Before(Edge', Pos(offset')) /\ SettledAt(Journal', Stamp', offset', Seen', {})
    <3>1. Due(job[p]) = {}
      BY <1>12 DEF StoreOffset, Due
    <3>2. offset' = job[p].next /\ job[p].pc = "derive"
      BY <1>12 DEF StoreOffset
    <3>3. Seen \cup Due(job[p]) = Seen
      BY <3>1
    <3> QED
      BY <1>0, <2>1, <2>2, <3>2, <3>3 DEF PassSettled
  <2>4. Stamped(Today', Stamp', Idle) /\ PassSettled(Journal', Stamp', Edge', Seen', Idle)
    BY IdleIs, Unconcerned
  <2>5. job' = [job EXCEPT ![p] = Idle]
    BY <1>12 DEF StoreOffset, Finish
  <2> QED
    BY <1>0, <1>12, <2>1, <2>2, <2>3, <2>4, <2>5, ScanOwn DEF StoreOffset
<1>13. CASE Abort(p)
  BY <1>1, <1>13 DEF Abort
<1> QED
  BY <1>2, <1>3, <1>4, <1>5, <1>6, <1>7, <1>8, <1>9, <1>10, <1>11, <1>12, <1>13, <1>14 DEF Step

(***************************************************************************)
(* The theorem.                                                            *)
(***************************************************************************)

\* The clock advances while nobody holds a reading of it.
LEMMA ScanTick == ASSUME ~Slow, ScanInv, Tick, TypeOK' PROVE ScanInv'
<1>1. Dated' /\ Moved(Journal, Stamp, Edge, Journal', Stamp', Edge')
  BY TickMoves DEF Tick, ScanInv
<1>2. Seen \subseteq Seen' /\ UNCHANGED offset
  BY DEF Tick, Seen
<1>3. \A q \in Procs : job'[q] = job[q] /\ job[q].pc \notin Timed
  BY DEF Tick, Timed
<1> QED
  BY <1>1, <1>2, <1>3, ScanFrame

\* So does a step of anything else.
LEMMA ScanStutter == ASSUME ScanInv, UNCHANGED vars, TypeOK' PROVE ScanInv'
<1>1. Dated' /\ Moved(Journal, Stamp, Edge, Journal', Stamp', Edge')
  BY StandsMoves DEF vars, ScanInv
<1>2. Seen \subseteq Seen' /\ UNCHANGED offset /\ TimeStands
  BY DEF vars, Seen, Today, Stamp, TimeStands
<1>3. \A q \in Procs : job'[q] = job[q]
  BY DEF vars
<1> QED
  BY <1>1, <1>2, <1>3, ScanFrame

\* The invariant is inductive if the clock waits.
LEMMA ScanNext == ~Slow => (ScanInv /\ [Next]_vars => ScanInv')
<1> SUFFICES ASSUME ~Slow, ScanInv, [Next]_vars PROVE ScanInv'
  OBVIOUS
<1>1. TypeOK'
  BY TypeNext DEF ScanInv
<1>2. CASE Tick
  BY <1>1, <1>2, ScanTick
<1>3. ASSUME NEW p \in Procs, Step(p) PROVE ScanInv'
  BY <1>1, <1>3, ScanStep
<1>4. CASE UNCHANGED vars
  BY <1>1, <1>4, ScanStutter
<1> QED
  BY <1>2, <1>3, <1>4 DEF Next

\* It holds of an empty journal.
LEMMA ScanInit == Init => ScanInv
<1> SUFFICES ASSUME Init PROVE ScanInv
  OBVIOUS
<1>1. TypeOK
  BY TypeInit
<1>2. Dated
  BY DEF Init, Dated, NoSegment
<1>3. DOMAIN Journal = {}
  BY DEF Init, Journal, Readable, NoSegment, Positions
<1>4. SettledAt(Journal, Stamp, offset, Seen, {})
  BY <1>3 DEF SettledAt, Covered
<1>5. ~Before(Edge, Pos(offset))
  BY <1>1, TodayTyped DEF Init, Edge, Pos, Start, Before
<1>6. \A p \in Procs : Stamped(Today, Stamp, job[p]) /\ PassSettled(Journal, Stamp, Edge, Seen, job[p])
  BY IdleIs, Unconcerned DEF Init
<1> QED
  BY <1>1, <1>2, <1>4, <1>5, <1>6 DEF ScanInv

\* If the clock never advances between a reading of it and what is done with the reading, then
\* whatever passes interleave, are killed, or store the smaller of two offsets last, and whatever
\* lines are torn and segments removed, a correction that the stored offset has left behind has
\* been counted (deriveFlagCorrections stores its offset last, and holds a batch).
THEOREM NothingIsSkipped == ASSUME ~Slow PROVE Spec => []NothingSkipped
<1>1. ScanInv => NothingSkipped
  BY DEF ScanInv, SettledAt, Covered, NothingSkipped, Seen, Pos
<1>2. ScanInv /\ [Next]_vars => ScanInv'
  BY ScanNext
<1> QED
  BY <1>1, <1>2, ScanInit, PTL DEF Spec

\* If the clock never advances between a reading of it and what is done with the reading, then a
\* pass whose second read finds every segment anchors each correction to the last recall of its
\* session before the failure that the journal then still holds, and leaves it where the batch put
\* it if there is none: the batch and the seed together miss no recall and prefer none wrongly,
\* whatever was appended or removed between the two reads (sessionRecallFamiliesBeforeBatch).
THEOREM SeedAndBatchAgree == ASSUME ~Slow PROVE Spec => AnchorsAgree
<1> DEFINE Agree ==
      \A p \in Procs : ReadSeed(p, {}) =>
        \A c \in job'[p].todo :
          LET j == Journal
              said == {x \in Recalls(j, c.session) : Before(x, c.at)}
          IN  IF said # {} THEN c.family = LastFamily(j, said)
              ELSE \E b \in job[p].todo : b.at = c.at /\ b.family = c.family
<1>1. ScanInv => [Agree]_vars
  <2> SUFFICES ASSUME ScanInv, NEW p \in Procs, ReadSeed(p, {}), NEW c \in job'[p].todo
               PROVE  IF Said(Journal, c) # {} THEN c.family = LastFamily(Journal, Said(Journal, c))
                      ELSE \E b \in job[p].todo : b.at = c.at /\ b.family = c.family
    BY DEF Said
  <2>0. /\ TypeOK /\ job \in [Procs -> Job] /\ job[p] \in Job
        /\ PassSettled(Journal, Stamp, Edge, Seen, job[p])
    BY DEF ScanInv, TypeOK
  <2>1. [x \in {y \in Readable : y[1] \notin {}} |-> Journal[x]] = Journal
    BY DEF Journal
  <2>2. job'[p].todo = {Seeded(b, Journal, job[p].from) : b \in job[p].todo}
    <3> DEFINE new(j) == {Seeded(b, j, job[p].from) : b \in job[p].todo}
    <3>1. job' = [job EXCEPT ![p] =
            [job[p] EXCEPT !.pc = "decide", !.from = Start,
                           !.todo = new([x \in {y \in Readable : y[1] \notin {}} |-> Journal[x]])]]
      BY DEF ReadSeed
    <3>2. job' = [job EXCEPT ![p] =
            [job[p] EXCEPT !.pc = "decide", !.from = Start, !.todo = new(Journal)]]
      <4> HIDE DEF new
      <4> QED
        BY <2>1, <3>1
    <3>3. job'[p].todo = new(Journal)
      <4> HIDE DEF new
      <4> QED
        BY <2>0, <3>2 DEF Job
    <3> QED
      BY <3>3
  <2>3. PICK b \in job[p].todo : c = Seeded(b, Journal, job[p].from)
    BY <2>2
  <2>4. b \in Correction /\ AnchoredBy(Journal, job[p].from, b)
    BY <2>0 DEF ReadSeed, PassSettled, Job
  <2>5. 2 * MaxLines \in Int /\ MaxNow \div DayLength \in Int
    BY DaysAre, JournalAssumption
  <2>6. \A y \in DOMAIN Journal :
          y \in Int \X Int /\ y[1] <= MaxNow \div DayLength /\ y[2] <= 2 * MaxLines
    BY <2>0, JournalTyped DEF TypeOK
  <2>7. /\ c.at = b.at /\ c.session = b.session
        /\ IF Said(Journal, b) # {} THEN c.family = LastFamily(Journal, Said(Journal, b))
           ELSE c.family = b.family
    BY <2>3, <2>4, <2>5, <2>6, SeedAnchors
  <2>8. Said(Journal, c) = Said(Journal, b)
    BY <2>7 DEF Said
  <2> QED
    BY <2>7, <2>8
<1>2. ScanInv /\ [Next]_vars => ScanInv'
  BY ScanNext
<1> QED
  BY <1>1, <1>2, ScanInit, PTL DEF Spec, AnchorsAgree
=============================================================================
