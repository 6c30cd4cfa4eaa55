-------------------------------- MODULE Learned -------------------------------
(***************************************************************************)
(* What teach, teach-lookup, teach-pattern and forget keep, and what       *)
(* recall makes of it (internal/store/learnings.go, internal/learn).       *)
(*                                                                         *)
(* A query is a set of words, some capitalized, after stopwords are gone   *)
(* and synonyms folded.  teach files it under a pattern made by one        *)
(* normalizer (letters a to z, digits), recall reads it with another that  *)
(* keeps words whole and has stopwords of its own.  This program registers *)
(* no tickers.  Every action is one transaction, or one statement, of a    *)
(* process; teach takes three.                                             *)
(***************************************************************************)
EXTENDS Integers, FiniteSets

CONSTANTS
  Words,       \* words that are no stopwords of the entity extractor
  Odd,         \* those the pattern does not keep whole: with a hyphen, or a letter such as n-tilde
  Dropped,     \* those that are stopwords of the pattern: odds, whats
  Within,      \* <<v, w>>: v is a part of w
  Stems,       \* resource ids without the entity they may contain
  Questions,   \* the queries that are taught, and asked
  Answers,     \* the resources they are taught for
  Limit,       \* results of a recall
  Teachers,    \* processes
  MaxLearned,  \* teaches
  MaxLookups   \* rows of entity_lookups

VARIABLES
  learned,   \* search_learnings
  lookups,   \* entity_lookups: <<value, canonical>>
  inferred,  \* search_patterns
  synced,    \* the resources in the local store
  teacher,   \* teacher[p]: how far the teach of process p is
  taught     \* teaches so far

learnedVars == <<learned, lookups, inferred, synced, teacher, taught>>

Queries == {q \in [caps : SUBSET Words, plain : SUBSET Words] :
              q.caps \cap q.plain = {} /\ q.caps \cup q.plain # {}}
Resources == [stem : Stems, about : {{}} \cup {{w} : w \in Words}]

ASSUME LearnedAssumption ==
  /\ IsFiniteSet(Words) /\ Odd \subseteq Words /\ Dropped \subseteq Words \ Odd
  /\ Within \subseteq Words \X Words /\ Limit \in Nat \ {0}
  /\ \A w \in Odd : <<w>> \notin Words  \* what the pattern makes of an odd word is not a word
  /\ MaxLearned \in Nat /\ MaxLookups \in Nat
  /\ Questions \subseteq Queries /\ Answers \subseteq Resources

WordsOf(q) == q.caps \cup q.plain
Token(w) == IF w \in Odd THEN <<w>> ELSE w
Tokens == {Token(w) : w \in Words}

\* seen: (for the properties) the lookups the first teach of the row went by
LearnedRow == [pattern : SUBSET Tokens, entities : SUBSET Words, resource : Resources,
               confidence : Nat, by : Queries, seen : SUBSET (Words \X Words)]
TeacherState == [pc : {"idle", "promoted", "filed"}, row : LearnedRow]
Idle == [pc |-> "idle"]
Pattern == [query : SUBSET (Words \cup Tokens), stem : Stems]

LearnedTypeOK ==
  /\ learned \subseteq LearnedRow /\ lookups \subseteq Words \X Words
  /\ inferred \subseteq Pattern /\ synced \subseteq Resources
  /\ \A p \in Teachers : teacher[p] = Idle \/ teacher[p] \in TeacherState
  /\ taught \in 0 .. MaxLearned

LearnedInit ==
  /\ learned = {} /\ lookups = {} /\ inferred = {} /\ synced \in {{}, Answers}
  /\ teacher = [p \in Teachers |-> Idle] /\ taught = 0

\* NormalizeQuery of the store.
PatternOf(q) == {Token(w) : w \in WordsOf(q) \ Dropped}

\* CanonicalResolver.  A canonical resolves to itself.
Resolve(w) == {row[2] : row \in {r \in lookups : w \in {r[1], r[2]}}}
ResolveSet(S) == UNION {Resolve(w) : w \in S}

\* Normalize and PromoteEntities: capitalized words, and the words a lookup knows.
Entities(q) == q.caps \cup {w \in q.plain : Resolve(w) # {}}

\* Mutant of TeachEntities: only capitalized words count.
TeachEntitiesUnpromoted(q) == q.caps

\* What teach files with the row.
TeachEntities(q) == Entities(q)

NonEntities(q) == q.plain \ Entities(q)

\* Token sets that overlap by at least n tenths.
Overlap(A, B, n) ==
  A # {} /\ B # {} /\ 10 * Cardinality(A \cap B) >= n * Cardinality(A \cup B)

\* Rows without entities are read with the lookups of now.
StoredEntities(row) ==
  IF row.entities # {} THEN row.entities
  ELSE {w \in Words \ Odd : w \in row.pattern /\ Resolve(w) # {}}

StoredNonEntities(row) == row.pattern \ StoredEntities(row)
CanonicalOverlap(q, row) ==
  ResolveSet(Entities(q)) \cap ResolveSet(StoredEntities(row)) # {}

\* The rows Recall keeps: by their words; by their entities when there are no other words; by a
\* common canonical of different entities; or, with different entities, as a similar shape.
ByWords(q, row) ==
  \/ Overlap(NonEntities(q), StoredNonEntities(row), 6)
  \/ /\ NonEntities(q) = {} /\ StoredNonEntities(row) = {}
     /\ Overlap(Entities(q), StoredEntities(row), 6)
Loosely(q, row) == Overlap(NonEntities(q), StoredNonEntities(row), 3)
ByCanonical(q, row) ==
  /\ Entities(q) \cap StoredEntities(row) = {}
  /\ IF CanonicalOverlap(q, row)
     THEN \/ Loosely(q, row)
          \/ Overlap(ResolveSet(Entities(q)), ResolveSet(StoredEntities(row)), 3)
          \/ /\ NonEntities(q) = {} /\ StoredNonEntities(row) = {}
             /\ Overlap(Entities(q), StoredEntities(row), 3)
     ELSE Entities(q) # {} /\ StoredEntities(row) # {} /\ Loosely(q, row)

\* Mutant of Verdict: whatever is kept is taken for a match.
VerdictKept(q, row) == "exact"

\* ClassifyEntityMatch takes a word for one it is a part of.
Alike(v, w) == v = w \/ {<<v, w>>, <<w, v>>} \cap Within # {}
SomeAlike(A, B) == \E v \in A, w \in B : Alike(v, w)

\* validateResource and the promotion of a cross-alias match.  No fields are registered for the
\* resources of this CLI, so one that is in the store says nothing about its entities.
Verdict(q, row) ==
  IF row.resource \notin synced /\ Entities(q) = {} /\ StoredEntities(row) = {} THEN "unknown"
  ELSE IF row.resource \in synced \/ Entities(q) = {} \/ StoredEntities(row) = {} THEN "partial"
  ELSE IF SomeAlike(Entities(q), StoredEntities(row)) \/ CanonicalOverlap(q, row) THEN "exact"
  ELSE "mismatch"

HitOf(q, row) ==
  [resource |-> row.resource, match |-> Verdict(q, row), source |-> "taught",
   confidence |-> row.confidence, row |-> row]
Hits(q) ==
  {HitOf(q, row) : row \in {r \in learned :
     (ByWords(q, r) \/ ByCanonical(q, r)) /\ Verdict(q, r) # "mismatch"}}

\* patterns.Apply: the template, filled with an entity of the query, must name a resource that is
\* in the store.  A template takes the first entity that fits; here each is taken, which gives the
\* taught results all the competitors they can have.
PatternHits(q) ==
  {r \in synced : \E p \in inferred, w \in Entities(q) :
     Overlap(NonEntities(q), p.query, 6) /\ r = [stem |-> p.stem, about |-> {w}]}

Found(q) ==
  Hits(q) \cup {[resource |-> r, match |-> "exact", source |-> "pattern", confidence |-> 0] :
                  r \in {s \in PatternHits(q) : \A h \in Hits(q) : h.resource # s}}

\* sortHits; results that agree up to here are ordered by score and age, so in any order.
Priority == [exact |-> 0, partial |-> 1, unknown |-> 2]
Precedes(g, h) ==
  \/ Priority[g.match] < Priority[h.match]
  \/ /\ g.match = h.match
     /\ \/ g.source = "taught" /\ h.source = "pattern"
        \/ g.source = h.source /\ g.confidence > h.confidence

\* What recall may answer: the first of what it found.
Results(q) ==
  {answer \in SUBSET Found(q) :
     /\ \/ answer = Found(q) /\ Cardinality(answer) <= Limit
        \/ Cardinality(answer) = Limit
     /\ \A h \in answer, g \in Found(q) \ answer : ~Precedes(g, h)}

\* teach: reads the lookups (and fails later, before it changes anything, for a query of which the
\* pattern keeps nothing), ...
TeachBegins(p, q, r) ==
  /\ teacher[p].pc = "idle" /\ taught < MaxLearned
  /\ PatternOf(q) # {}
  /\ taught' = taught + 1
  /\ teacher' = [teacher EXCEPT ![p] = [pc |-> "promoted", row |->
       [pattern |-> PatternOf(q), entities |-> TeachEntities(q), resource |-> r, confidence |-> 2,
        by |-> q, seen |-> lookups]]]
  /\ UNCHANGED <<learned, lookups, inferred, synced>>

SameKey(row, other) == row.pattern = other.pattern /\ row.resource = other.resource

\* ... files the row (UpsertLearning: a row that exists keeps its entities), ...
TeachFiles(p) ==
  LET new == teacher[p].row
      old == {row \in learned : SameKey(row, new)} IN
  /\ teacher[p].pc = "promoted"
  /\ learned' = (learned \ old) \cup
       (IF old = {} THEN {new} ELSE {[row EXCEPT !.confidence = @ + 1] : row \in old})
  /\ teacher' = [teacher EXCEPT ![p].pc = "filed"]
  /\ UNCHANGED <<lookups, inferred, synced, taught>>

\* The templates that two or more rows of one shape agree on: each has one entity, and its
\* resource is the same id around that entity.
Shape(row) == row.pattern \ {Token(w) : w \in row.entities}
Inferable ==
  {t \in {[query |-> Shape(row), stem |-> row.resource.stem] :
            row \in {r \in learned : r.entities # {} /\ Shape(r) # {}}} :
     LET members == {row \in learned : row.entities # {} /\ Shape(row) = t.query} IN
     /\ Cardinality(members) > 1
     /\ \A row \in members : /\ Cardinality(row.entities) = 1
                             /\ row.resource = [stem |-> t.stem, about |-> row.entities]}

\* ... and infers patterns.
TeachInfers(p) ==
  /\ teacher[p].pc = "filed"
  /\ inferred' = inferred \cup Inferable
  /\ teacher' = [teacher EXCEPT ![p] = Idle]
  /\ UNCHANGED <<learned, lookups, synced, taught>>

\* An error, or a kill, after the row was filed or before.
TeachStops(p) ==
  /\ teacher[p] # Idle
  /\ teacher' = [teacher EXCEPT ![p] = Idle]
  /\ UNCHANGED <<learned, lookups, inferred, synced, taught>>

TeachLookup(value, canonical) ==
  /\ Cardinality(lookups) < MaxLookups
  /\ lookups' = lookups \cup {<<value, canonical>>}
  /\ UNCHANGED <<learned, inferred, synced, teacher, taught>>

\* The template is kept as it is typed.
TeachPattern(words, stem) ==
  /\ inferred = {}
  /\ inferred' = {[query |-> words, stem |-> stem]}
  /\ UNCHANGED <<learned, lookups, synced, teacher, taught>>

\* forget, with --all or --resource.  Inferred patterns stay.
Forget(q, resources) ==
  /\ learned' = {row \in learned : ~(row.pattern = PatternOf(q) /\ row.resource \in resources)}
  /\ learned' # learned
  /\ UNCHANGED <<lookups, inferred, synced, teacher, taught>>

LearnedNext ==
  \/ \E p \in Teachers :
       \/ \E q \in Questions, r \in Answers : TeachBegins(p, q, r)
       \/ TeachFiles(p) \/ TeachInfers(p) \/ TeachStops(p)
  \/ \E v, c \in Words : TeachLookup(v, c)
  \/ \E words \in SUBSET Words, stem \in Stems : TeachPattern(words, stem)
  \/ \E row \in learned, resources \in {Resources} \cup {{r} : r \in Resources} :
       Forget(row.by, resources)

LearnedSpec == LearnedInit /\ [][LearnedNext]_learnedVars

\* A query that was taught is recalled with its resource, whichever of its words are known by a
\* lookup, or the answer is full of results that rank as high, as long as no lookup was added
\* since ("keeping write (teach) and read (recall) symmetric", normalize.go).  It is not so for a
\* query with an odd word, or with a plain one that only the pattern drops, nor for one that only
\* confirmed a row that another spelling, or other lookups, had created.
TaughtIsRecalled ==
  \A row \in learned :
    row.seen = lookups /\ WordsOf(row.by) \cap Odd = {} /\ row.by.plain \cap Dropped = {} =>
      \A answer \in Results(row.by) :
        \/ row.resource \in {h.resource : h \in answer}
        \/ /\ Cardinality(answer) = Limit
           /\ \A h \in answer : ~Precedes(HitOf(row.by, row), h)

\* A result with which an agent may skip discovery (an exact match of confidence 2) was taught
\* for a query with a word that is an entity of the asked one, contains it or is contained in it,
\* or that has a canonical in common with one of its entities; or it is, by a pattern, about an
\* entity of the asked query.
SkipIsJustified ==
  \A q \in Questions :
    /\ \A h \in Hits(q) : h.match = "exact" /\ h.confidence >= 2 =>
         \/ SomeAlike(Entities(q), WordsOf(h.row.by))
         \/ ResolveSet(Entities(q)) \cap ResolveSet(WordsOf(h.row.by)) # {}
    /\ \A r \in PatternHits(q) : r.about \subseteq Entities(q)
=============================================================================
