----------------------------- MODULE PlaybookSeed -----------------------------
(***************************************************************************)
(* The seeding of the playbooks a binary carries into learning_playbooks   *)
(* (internal/cli/playbook_init.go), while agents amend the same rows, users *)
(* teach playbooks of their own and the binary is upgraded.  For each      *)
(* family the stored notes are read, then the row is upserted, in separate *)
(* transactions; the sentinel row is written last.                         *)
(***************************************************************************)
EXTENDS Playbooks, Integers, SequencesExt

CONSTANTS
  Seeds,      \* Seeds[v]: what version v of the binary carries, in the order it is installed
  Families,   \* query families
  Own,        \* the playbook a user teaches
  Seeders,    \* processes
  MaxAmends   \* amendments

VARIABLES
  shelf,      \* learning_playbooks, without the sentinel row
  sentinel,   \* notes_text of the sentinel row, 0 if there is none
  seeder,     \* seeder[p]: how far the seeding of process p is
  binary,     \* the version installed now
  mixed,      \* (for the properties) an older version was seeding when it was installed
  amends,     \* amendments so far
  heard       \* (for the properties) those that no seeding had to overlook

seedVars == <<shelf, sentinel, seeder, binary, mixed, amends, heard>>

Versions == 1 .. Len(Seeds)
SeedEntries == UNION {ToSet(Seeds[v]) : v \in Versions}
Markers == 1 .. MaxAmends

\* No two entries of a version are for one family, and none is of an empty playbook.
ASSUME SeedAssumption ==
  /\ MaxAmends \in Nat /\ Len(Seeds) \in Nat \ {0}
  /\ \A v \in Versions :
       /\ Seeds[v] \in Seq(SeedEntries)
       /\ \A i, j \in 1 .. Len(Seeds[v]) : Seeds[v][i].family = Seeds[v][j].family => i = j
  /\ \A e \in SeedEntries : e.family \in Families /\ e.json # NoText

SeederState == [pc : {"read", "upsert"}, version : Versions, next : Nat, preserve : BOOLEAN,
                failed : BOOLEAN]
NotSeeding == [pc |-> "idle"]

SeedRows == PlaybookRows(Families, {Own} \cup {e.json : e \in SeedEntries},
                         Markers \cup {e.notes : e \in SeedEntries})

SeedTypeOK ==
  /\ shelf \subseteq SeedRows
  /\ sentinel \in {0} \cup Versions /\ binary \in Versions /\ mixed \in BOOLEAN
  /\ seeder \in [Seeders -> {NotSeeding} \cup SeederState]
  /\ amends \in 0 .. MaxAmends /\ heard \subseteq Families \X Markers

SeedInit ==
  /\ shelf = {} /\ sentinel = 0 /\ seeder = [p \in Seeders |-> NotSeeding]
  /\ binary = 1 /\ mixed = FALSE /\ amends = 0 /\ heard = {}

NotesOf(f) == UNION {ToSet(b.notes) : b \in {r \in shelf : r.family = f}}

\* amendMarkerRe.
IsAmended(f) == NotesOf(f) \cap Markers # {}
Entry(p) == Seeds[seeder[p].version][seeder[p].next]
AtWork(p) == seeder[p] # NotSeeding

\* A sentinel that cannot be read does not stop the seeding.
SeedBegins(p) ==
  /\ ~AtWork(p)
  /\ \E readable \in BOOLEAN : ~(readable /\ sentinel = binary)
  /\ seeder' = [seeder EXCEPT ![p] = [pc |-> "read", version |-> binary, next |-> 1,
                                      preserve |-> FALSE, failed |-> FALSE]]
  /\ UNCHANGED <<shelf, sentinel, binary, mixed, amends, heard>>

HasEntry(p) == seeder[p].next <= Len(Seeds[seeder[p].version])

\* Mutant of Preserve: the notes of the binary win.
PreserveNever(p, readable) == FALSE

\* A row that cannot be read counts as one without amendments.
Preserve(p, readable) == readable /\ IsAmended(Entry(p).family)

SeedReads(p) ==
  /\ AtWork(p) /\ seeder[p].pc = "read" /\ HasEntry(p)
  /\ IF Entry(p).parses
     THEN \E readable \in BOOLEAN :
            /\ seeder' = [seeder EXCEPT ![p].pc = "upsert", ![p].preserve = Preserve(p, readable)]
            /\ heard' = IF readable THEN heard ELSE {h \in heard : h[1] # Entry(p).family}
     ELSE /\ seeder' = [seeder EXCEPT ![p].failed = TRUE, ![p].next = @ + 1]
          /\ heard' = heard
  /\ UNCHANGED <<shelf, sentinel, binary, mixed, amends>>

SeedUpserts(p) ==
  /\ AtWork(p) /\ seeder[p].pc = "upsert"
  /\ \E ok \in BOOLEAN :
       /\ shelf' = IF ok THEN UpsertPlaybook(shelf, Entry(p).family, Entry(p).json,
                                             <<Entry(p).notes>>, seeder[p].preserve)
                   ELSE shelf
       /\ seeder' = [seeder EXCEPT ![p].pc = "read", ![p].next = @ + 1, ![p].failed = @ \/ ~ok]
  /\ UNCHANGED <<sentinel, binary, mixed, amends, heard>>

\* Mutant of SentinelDue: the sentinel is written after a partial failure too.
SentinelDueAnyway(p) == TRUE

SentinelDue(p) == ~seeder[p].failed

SeedEnds(p) ==
  /\ AtWork(p) /\ seeder[p].pc = "read" /\ ~HasEntry(p) /\ SentinelDue(p)
  /\ sentinel' = seeder[p].version
  /\ seeder' = [seeder EXCEPT ![p] = NotSeeding]
  /\ UNCHANGED <<shelf, binary, mixed, amends, heard>>

\* A failure was reported, the sentinel was not written, or the process was canceled or killed.
SeedStops(p) ==
  /\ AtWork(p)
  /\ seeder' = [seeder EXCEPT ![p] = NotSeeding]
  /\ UNCHANGED <<shelf, sentinel, binary, mixed, amends, heard>>

\* playbook amend.
AmendSeeded(f) ==
  /\ amends < MaxAmends
  /\ amends' = amends + 1
  /\ shelf' = AppendNote(shelf, f, amends')
  /\ heard' = IF \E p \in Seeders : AtWork(p) /\ seeder[p].pc = "upsert" /\ Entry(p).family = f
              THEN heard ELSE heard \cup {<<f, amends'>>}
  /\ UNCHANGED <<sentinel, seeder, binary, mixed>>

\* teach-playbook, without notes.
TeachOwn(f) ==
  /\ shelf' = UpsertPlaybook(shelf, f, Own, <<>>, FALSE)
  /\ UNCHANGED <<sentinel, seeder, binary, mixed, amends, heard>>

\* Processes of the older version go on.
Upgrade ==
  /\ binary < Len(Seeds)
  /\ binary' = binary + 1
  /\ mixed' = \E p \in Seeders : AtWork(p)
  /\ UNCHANGED <<shelf, sentinel, seeder, amends, heard>>

SeedNext ==
  \/ \E p \in Seeders : SeedBegins(p) \/ SeedReads(p) \/ SeedUpserts(p) \/ SeedEnds(p) \/ SeedStops(p)
  \/ \E f \in Families : AmendSeeded(f) \/ TeachOwn(f)
  \/ Upgrade

SeedSpec == SeedInit /\ [][SeedNext]_seedVars

\* Once the sentinel names the version that is installed, each family has the playbook and the
\* notes of that version, or what a user or an agent put there, however many seedings failed, ran
\* at once or were killed; unless an older binary was seeding during the upgrade.
SeedComplete ==
  sentinel = binary /\ ~mixed =>
    \A e \in ToSet(Seeds[binary]) : \E b \in shelf :
      /\ b.family = e.family /\ b.json \in {e.json, Own}
      /\ IsAmended(e.family) \/ b.notes = <<e.notes>>

\* "agent gotchas survive binary upgrades" (playbook_init.go:18): no seeding overwrites an
\* amendment, unless it came between its reading of the row and its upsert, or could not be read.
AmendKept == \A h \in heard : h[2] \in NotesOf(h[1])
=============================================================================
