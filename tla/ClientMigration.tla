---------------------------- MODULE ClientMigration ---------------------------
(***************************************************************************)
(* client migrate (internal/cli/platform_client.go, internal/platform):    *)
(* behind a live identity gate a client profile gets its source, a legacy  *)
(* database of the same tenant is copied to the place of that profile, and *)
(* with --cleanup-legacy the legacy files are renamed to backups.  Several *)
(* processes may migrate at once and any may be killed between two steps.  *)
(*                                                                         *)
(* No source is registered in this program, so that the command ends at    *)
(* its first line here; the code below it is modelled as it would run.     *)
(***************************************************************************)
EXTENDS Naturals

CONSTANT Migrators  \* processes

VARIABLES
  file,      \* file[f]: what is at the place f
  source,    \* the source in the stored client profile
  migrator,  \* migrator[p]: how far the migrate of process p is
  original,  \* (for the properties) the files at first
  raced      \* (for the properties) a process copied, or adopted, while another was copying

migrationVars == <<file, source, migrator, original, raced>>

Kinds == {"config", "database"}
BackupOf == [k \in Kinds |-> IF k = "config" THEN "config.backup" ELSE "database.backup"]
Places == Kinds \cup {BackupOf[k] : k \in Kinds} \cup {"target"}

\* What may be at a place.  A partial file is what a copy that was cut short leaves.
Content(what, owner) == [what |-> what, owner |-> owner]
Missing == Content("missing", "nobody")
Partial == Content("partial", "nobody")
Settings(age) == Content(age, "nobody")
Database(age, owner) == Content(age, owner)
Owners == {"me", "other", "nobody"}
Contents == [what : {"missing", "partial", "legacy", "earlier"}, owner : Owners]
Statuses == {"none", "preserved", "pending", "backed_up", "quarantined", "adopted"}

MigratorState == [pc : {"gate", "save", "adopt", "copy", "copying", "verify", "check", "move"},
                  status : [Kinds -> Statuses], already : BOOLEAN, cleanup : BOOLEAN,
                  reading : Contents, moved : BOOLEAN]  \* moved: it has renamed the config
Resting == [pc |-> "idle"]

MigrationTypeOK ==
  /\ file \in [Places -> Contents] /\ original \in [Places -> Contents]
  /\ source \in {"absent", "trusted", "candidate"} /\ raced \in BOOLEAN
  /\ migrator \in [Migrators -> {Resting} \cup MigratorState]

\* There may be a backup, and a database of the profile, from before.
MigrationInit ==
  /\ \E owner \in Owners, config \in {Missing, Settings("earlier")},
        backup \in {Missing, Database("earlier", "me")},
        target \in {Missing, Database("earlier", "me"), Database("earlier", "other")} :
       file = [f \in Places |-> CASE f = "config" -> Settings("legacy")
                                  [] f = "config.backup" -> config
                                  [] f = "database" -> Database("legacy", owner)
                                  [] f = "database.backup" -> backup
                                  [] f = "target" -> target]
  /\ original = file /\ source = "absent" /\ raced = FALSE
  /\ migrator = [p \in Migrators |-> Resting]

Does(p, pc) == migrator[p].pc = pc
Goes(p, pc) == migrator' = [migrator EXCEPT ![p].pc = pc]
Fails(p) == migrator' = [migrator EXCEPT ![p] = Resting]

\* Mutant of Owned: a database that is there is taken for one that was checked.
OwnedIfThere(f) == file[f] # Missing

\* VerifyTenantMetadata: it can be read, and is of the tenant that the gate just verified.
Owned(f) == file[f].owner = "me"

\* InspectLegacyMigrationPaths.
Inspected(k) ==
  IF file[k] # Missing THEN IF k = "config" THEN "preserved" ELSE "pending"
  ELSE "backed_up"

\* The profile is loaded and the legacy files of the command line are inspected; a file that is
\* neither there nor backed up ends the command, as does a source with other settings.
MigrateBegins(p, given, cleanup) ==
  /\ migrator[p] = Resting /\ source # "trusted"
  /\ \A k \in given : file[k] # Missing \/ file[BackupOf[k]] # Missing
  /\ migrator' = [migrator EXCEPT ![p] =
       [pc |-> "gate", already |-> source = "candidate", cleanup |-> cleanup, reading |-> Missing,
        moved |-> FALSE, status |-> [k \in Kinds |-> IF k \in given THEN Inspected(k) ELSE "none"]]]
  /\ UNCHANGED <<file, source, original, raced>>

\* VerifyPreparedProfileSource.  If it fails, MigrateStops.
GatePasses(p) ==
  /\ Does(p, "gate")
  /\ Goes(p, IF migrator[p].already THEN "adopt" ELSE "save")
  /\ UNCHANGED <<file, source, original, raced>>

\* SaveProfile: the profile as it was loaded, with the source added.
MigrateSaves(p) ==
  /\ Does(p, "save")
  /\ source' = "candidate" /\ Goes(p, "adopt")
  /\ UNCHANGED <<file, original, raced>>

\* client source set, by another process.
SourceSet ==
  /\ source = "absent"
  /\ source' = "trusted"
  /\ UNCHANGED <<file, migrator, original, raced>>

\* The status "backed_up" stands for a file with a path of its backup, whatever its status is
\* called in the code.
AdoptAs(p, status) ==
  migrator' = [migrator EXCEPT ![p].pc = "check", ![p].status["database"] = status]

CopyPhases == {"copy", "copying", "verify"}
CopyingBeside(p) == \E q \in Migrators \ {p} : migrator[q].pc \in CopyPhases

\* AdoptVerifiedLegacyDatabase, up to the copy.
Adopt(p) ==
  /\ Does(p, "adopt")
  /\ \/ migrator[p].status["database"] = "none" /\ Goes(p, "check") /\ UNCHANGED raced
     \/ /\ migrator[p].status["database"] = "backed_up"
        /\ IF Owned("target") THEN AdoptAs(p, "backed_up") ELSE Fails(p)
        /\ UNCHANGED raced
     \/ /\ migrator[p].status["database"] = "pending"
        /\ IF ~Owned("database") THEN AdoptAs(p, "quarantined") /\ UNCHANGED raced
           ELSE /\ IF file["target"] = Missing
                   THEN migrator' = [migrator EXCEPT ![p].pc = "copy",
                                                     ![p].reading = file["database"]]
                   ELSE IF Owned("target") THEN AdoptAs(p, "adopted") ELSE Fails(p)
                /\ raced' = (raced \/ CopyingBeside(p))
  /\ UNCHANGED <<file, source, original>>

\* VACUUM INTO fails if its output is there, and the output is removed.
CopyBegins(p) ==
  /\ Does(p, "copy")
  /\ IF file["target"] = Missing
     THEN file' = [file EXCEPT !["target"] = Partial] /\ Goes(p, "copying")
     ELSE file' = [file EXCEPT !["target"] = Missing] /\ Fails(p)
  /\ UNCHANGED <<source, original, raced>>

CopyEnds(p) ==
  /\ Does(p, "copying")
  /\ \/ /\ file' = IF file["target"] = Missing THEN file
                   ELSE [file EXCEPT !["target"] = migrator[p].reading]
        /\ Goes(p, "verify")
     \/ file' = [file EXCEPT !["target"] = Missing] /\ Fails(p)
  /\ UNCHANGED <<source, original, raced>>

\* A copy that is good is removed as well, when its chmod, its opening or the UPDATE of its
\* metadata fails.
CopyVerified(p) ==
  /\ Does(p, "verify")
  /\ \/ Owned("target") /\ file' = file /\ AdoptAs(p, "adopted")
     \/ file' = [file EXCEPT !["target"] = Missing] /\ Fails(p)
  /\ UNCHANGED <<source, original, raced>>

\* A file with a backup is skipped, also when the command goes on to the other one.
ToMove(p) == {k \in Kinds : migrator[p].status[k] \notin {"none", "backed_up"}}

\* Mutant of MayMove: an older backup does not stand in the way.
MayMoveOver(p) == migrator[p].status["database"] # "quarantined"

\* The checks of BackupLegacyArtifacts, before the first rename.
MayMove(p) ==
  /\ migrator[p].status["database"] # "quarantined"
  /\ \A k \in ToMove(p) : file[BackupOf[k]] = Missing

CheckBackups(p) ==
  /\ Does(p, "check")
  /\ IF migrator[p].cleanup /\ MayMove(p) THEN Goes(p, "move") ELSE Fails(p)
  /\ UNCHANGED <<file, source, original, raced>>

Renamed(from, to) == [file EXCEPT ![to] = file[from], ![from] = Missing]

\* Config first.  A rename that fails takes back the one before it; a chmod that fails, its own.
MoveLegacy(p) ==
  /\ Does(p, "move") /\ ToMove(p) # {}
  /\ LET k == IF "config" \in ToMove(p) THEN "config" ELSE "database" IN
     \/ /\ file[k] # Missing
        /\ file' = Renamed(k, BackupOf[k])
        /\ migrator' = [migrator EXCEPT ![p].status[k] = "backed_up",
                                        ![p].moved = k = "config"]
     \/ /\ file' = IF k = "database" /\ migrator[p].moved /\ file["config.backup"] # Missing
                   THEN Renamed("config.backup", "config") ELSE file
        /\ Fails(p)
     \/ file[k] # Missing /\ file' = file /\ Fails(p)
  /\ UNCHANGED <<source, original, raced>>

\* Done, an error that changed nothing, or a kill.
MigrateStops(p) ==
  /\ migrator[p] # Resting
  /\ Fails(p)
  /\ UNCHANGED <<file, source, original, raced>>

MigrationNext ==
  \/ \E p \in Migrators :
       \/ \E given \in SUBSET Kinds, cleanup \in BOOLEAN : MigrateBegins(p, given, cleanup)
       \/ GatePasses(p) \/ MigrateSaves(p) \/ Adopt(p) \/ CopyBegins(p) \/ CopyEnds(p)
       \/ CopyVerified(p) \/ CheckBackups(p) \/ MoveLegacy(p) \/ MigrateStops(p)
  \/ SourceSet

MigrationSpec == MigrationInit /\ [][MigrationNext]_migrationVars

\* "It never deletes legacy state" (migration.go): no interleaving of migrations, failed renames
\* and kills loses a legacy file or an older backup.
LegacyRecoverable ==
  \A k \in Kinds : {original[k], original[BackupOf[k]]} \subseteq {file[k], file[BackupOf[k]], Missing}

\* The legacy database leaves its place only when the place of the profile has a whole database
\* of the verified tenant, also after a copy that was cut short or removed; unless a process
\* copied or adopted while another one was copying, which may remove what the first has adopted.
MovedOnlyAfterCopy ==
  file["database"] = Missing /\ ~raced => file["target"].owner = "me"
=============================================================================
