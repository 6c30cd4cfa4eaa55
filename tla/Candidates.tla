----------------------------- MODULE Candidates ------------------------------
(***************************************************************************)
(* The learn_candidates table (internal/store/candidates.go) and the       *)
(* commands that judge its rows (internal/cli/learnings_candidates.go,     *)
(* internal/cli/teach.go, internal/learn/synthesize.go).                   *)
(*                                                                         *)
(* Every CLI invocation is a process of its own and SQLite serialises only *)
(* single statements and transactions, so a command is a sequence of       *)
(* steps, one per statement or transaction, that interleaves with those of *)
(* every other process; a process may be killed between any two of them.   *)
(***************************************************************************)
EXTENDS Integers, FiniteSets, Playbooks

CONSTANTS
  Procs,         \* CLI processes
  Families,      \* query families; each is also its playbook_candidate signature
  Aliases,       \* flag_alias derivation signatures
  Noted,         \* families whose episodes carry correction notes
  NoFamily,      \* the empty query_family
  Agent,         \* text an agent or operator wrote
  PurgeInUse,    \* whether operators run learnings purge
  MaxId, MaxSightings, MaxSteps, MaxNotes  \* bounds of the model

ASSUME ConstantsDistinct ==
  /\ Families \cap Aliases = {}
  /\ NoFamily \notin Families
  /\ Agent \notin Families \cup Aliases
  /\ Noted \subseteq Families
  /\ PurgeInUse \in BOOLEAN
ASSUME BoundsAssumption ==
  MaxId \in Nat /\ MaxSightings \in Nat \ {0} /\ MaxSteps \in Nat \ {0} /\ MaxNotes \in Nat

VARIABLES
  cands,      \* the rows of learn_candidates
  playbooks,  \* the rows of learning_playbooks
  job         \* job[p]: the command process p is running

vars == <<cands, playbooks, job>>

Sigs == Families \cup Aliases
IsPlaybook(sig) == sig \in Families  \* the row's class
Ids == 1 .. MaxId

\* The payload a synthesis writes: an episode of one family.  A flag correction has one step.
Payload == [of : Sigs, steps : 1 .. MaxSteps]
Row == [id : Ids, sig : Sigs, payload : Payload, family : Families \cup {NoFamily},
        sightings : 1 .. MaxSightings,  \* the last value stands for itself or more
        status : {"open", "confirmed", "rejected", "expired"},
        stale : BOOLEAN]                \* open, and unseen for longer than the TTL
\* What a command keeps of a row it has read.
Copy == [id : Ids, sig : Sigs, payload : Payload, family : Families \cup {NoFamily}]
CopyOf(r) == [id |-> r.id, sig |-> r.sig, payload |-> r.payload, family |-> r.family]
Playbook == PlaybookRows(Families, Payload \cup {Agent}, Sigs \cup {Agent})

Job == [pc : {"idle", "shown", "purge", "promote", "materialize", "mark", "derive",
              "readback", "refresh"},
        fam : Families \cup {NoFamily},   \* the family a teach resolved
        seen : SUBSET Copy,               \* rows read earlier and still to be acted on
        steps : 0 .. MaxSteps,            \* the length of the episode read from the journal
        affected : BOOLEAN]               \* the derive upsert changed a row
Idle == [pc |-> "idle", fam |-> NoFamily, seen |-> {}, steps |-> 0, affected |-> FALSE]

Finish(p) == job' = [job EXCEPT ![p] = Idle]
Goto(p, label) == job' = [job EXCEPT ![p].pc = label]

(***************************************************************************)
(* Statements on the two tables.                                           *)
(***************************************************************************)

\* id INTEGER PRIMARY KEY without AUTOINCREMENT: one above the largest id in use.
FreshId(i) ==
  /\ \A r \in cands : r.id < i
  /\ i = 1 \/ \E r \in cands : r.id = i - 1

Replace(r, new) == cands' = (cands \ {r}) \cup {new}

Bumped(r) ==
  [r EXCEPT !.sightings = IF @ < MaxSightings THEN @ + 1 ELSE @,
            !.status = IF @ = "expired" THEN "open" ELSE @,
            !.stale = FALSE]

Settled(r, status) == [r EXCEPT !.status = status, !.stale = FALSE]

\* Mutant of Tombstoned: the upsert lacks its WHERE status != 'rejected'.
TombstonedIgnored(sig) == sig \notin Sigs

Tombstoned(sig) == \E r \in cands : r.sig = sig /\ r.status = "rejected"

BumpRow(sig) ==
  \E r \in cands : r.sig = sig /\ Replace(r, Bumped(r))

NewRow(i, sig, steps, family) ==
  [id |-> i, sig |-> sig, payload |-> [of |-> sig, steps |-> steps], family |-> family,
   sightings |-> 1, status |-> "open", stale |-> FALSE]

InsertRow(sig, steps, family) ==
  /\ \A r \in cands : r.sig # sig
  /\ \E i \in Ids : FreshId(i) /\ cands' = cands \cup {NewRow(i, sig, steps, family)}

\* The single upsert of DeriveCandidate; a tombstone drops the observation.
UpsertCandidate(sig, steps, family) ==
  \/ Tombstoned(sig) /\ UNCHANGED cands
  \/ ~Tombstoned(sig) /\ BumpRow(sig)
  \/ InsertRow(sig, steps, family)

\* Mutants of OpenRows: the transaction does not check the status again, or not the id.
OpenRowsUnchecked(id) == {r \in cands : r.id = id}
OpenRowsAnyId(id) == {r \in cands : r.status = "open"}

\* The row a confirm transaction finds: getOpenCandidateForConfirmTx.
OpenRows(id) == {r \in cands : r.id = id /\ r.status = "open"}

Confirm(r) == Replace(r, Settled(r, "confirmed"))

NotesText(payload) == IF payload.of \in Noted THEN <<payload.of>> ELSE <<>>

\* There is room for a further note under family f.
NotesFit(f) == \A b \in playbooks : b.family = f => Len(b.notes) < MaxNotes

\* Mutant of ConfirmWithPlaybook: the playbook is written before the row is checked.
ConfirmWithPlaybookFirst(row) ==
  /\ playbooks' = UpsertPlaybook(playbooks, row.family, row.payload,
                                 NotesText(row.payload), FALSE)
  /\ LET found == {r \in OpenRows(row.id) : IsPlaybook(r.sig)}
     IN  (found = {} /\ UNCHANGED cands) \/ \E r \in found : Confirm(r)

\* ConfirmCandidateWithPlaybook: upsert the payload read before and mark the row, or fail.
ConfirmWithPlaybook(row) ==
  LET found == {r \in OpenRows(row.id) : IsPlaybook(r.sig)}
  IN  \/ /\ found = {}
         /\ UNCHANGED <<cands, playbooks>>
      \/ \E r \in found :
           /\ playbooks' = UpsertPlaybook(playbooks, row.family, row.payload,
                                          NotesText(row.payload), FALSE)
           /\ Confirm(r)

\* ConfirmCandidateWithPlaybookNote: append the correction note and mark the row, or fail.
ConfirmWithNote(row, family) ==
  LET found == {r \in OpenRows(row.id) : ~IsPlaybook(r.sig)}
  IN  \/ /\ found = {} \/ family = NoFamily
         /\ UNCHANGED <<cands, playbooks>>
      \/ \E r \in found :
           /\ family # NoFamily /\ NotesFit(family)
           /\ playbooks' = AppendNote(playbooks, family, row.payload.of)
           /\ Confirm(r)

(***************************************************************************)
(* Capture: observations that arrive without a judgment.                   *)
(***************************************************************************)

\* A post-run derivation pass records one paired flag correction.
DeriveFlagAlias(sig, family) ==
  /\ sig \in Aliases
  /\ UpsertCandidate(sig, 1, family)
  /\ UNCHANGED <<playbooks, job>>

\* The last_seen_at of an open row falls behind the TTL cutoff.
Age(r) ==
  /\ r.status = "open" /\ ~r.stale
  /\ Replace(r, [r EXCEPT !.stale = TRUE])
  /\ UNCHANGED <<playbooks, job>>

(***************************************************************************)
(* learnings confirm <id>: read and print the row, then the transaction.   *)
(***************************************************************************)

ConfirmShow(p, r) ==
  /\ job[p] = Idle
  /\ r.status = "open"
  /\ job' = [job EXCEPT ![p].pc = "shown", ![p].seen = {CopyOf(r)}]
  /\ UNCHANGED <<cands, playbooks>>

\* A correction without an anchor lands under the confirming session's last recall, if any.
ConfirmCommit(p) ==
  /\ job[p].pc = "shown"
  /\ \E row \in job[p].seen :
       \/ IsPlaybook(row.sig) /\ ConfirmWithPlaybook(row)
       \/ /\ ~IsPlaybook(row.sig)
          /\ \E f \in IF row.family = NoFamily THEN Families \cup {NoFamily} ELSE {row.family} :
               ConfirmWithNote(row, f)
  /\ Finish(p)

(***************************************************************************)
(* learnings reject <id>: any row but a rejected one or a confirmed alias. *)
(***************************************************************************)

Reject(r) ==
  /\ r.status \in {"open", "expired"} \/ (r.status = "confirmed" /\ IsPlaybook(r.sig))
  /\ Replace(r, Settled(r, "rejected"))
  /\ UNCHANGED <<playbooks, job>>

(***************************************************************************)
(* learnings purge [--tombstones]: sweep stale open rows, then delete the  *)
(* settled ones in a second statement.                                     *)
(***************************************************************************)

PurgeExpire(p) ==
  /\ PurgeInUse
  /\ job[p] = Idle
  /\ cands' = {IF r.status = "open" /\ r.stale THEN Settled(r, "expired") ELSE r :
                 r \in cands}
  /\ Goto(p, "purge")
  /\ UNCHANGED playbooks

\* Mutant of PurgedStatuses: everything that is not a tombstone is deleted.
PurgedStatusesOpen(includeTombstones) ==
  {"open", "expired", "confirmed"} \cup (IF includeTombstones THEN {"rejected"} ELSE {})

PurgedStatuses(includeTombstones) ==
  {"expired", "confirmed"} \cup (IF includeTombstones THEN {"rejected"} ELSE {})

PurgeDelete(p, includeTombstones) ==
  /\ job[p].pc = "purge"
  /\ cands' = {r \in cands : r.status \notin PurgedStatuses(includeTombstones)}
  /\ Finish(p)
  /\ UNCHANGED playbooks

(***************************************************************************)
(* teach: the promotion of the family's open candidate, then the synthesis *)
(* of a new one.                                                           *)
(***************************************************************************)

\* promoteCandidateOnTeach lists the family's open playbook candidates.  A teach given a
\* choreography or notes has stored them before, in a transaction of its own: TeachPlaybook.
PromoteList(p, f) ==
  /\ job[p] = Idle
  /\ job' = [job EXCEPT ![p].pc = "promote", ![p].fam = f,
       ![p].seen = {CopyOf(r) : r \in {c \in cands :
                      c.status = "open" /\ IsPlaybook(c.sig) /\ c.family = f}}]
  /\ UNCHANGED <<cands, playbooks>>

\* The loop of promoteCandidateOnTeach: look for a playbook before each listed row.
PromoteNext(p) ==
  /\ job[p].pc = "promote" /\ job[p].seen # {}
  /\ Goto(p, IF HasPlaybook(playbooks, job[p].fam) THEN "mark" ELSE "materialize")
  /\ UNCHANGED <<cands, playbooks>>

PromoteRow(p) ==
  /\ job[p].pc \in {"materialize", "mark"}
  /\ \E row \in job[p].seen :
       /\ job' = [job EXCEPT ![p].pc = "promote", ![p].seen = @ \ {row}]
       /\ \/ /\ job[p].pc = "materialize"
             /\ ConfirmWithPlaybook(row)
          \* ConfirmCandidate: no class is checked, and a row that is not open is an error.
          \/ /\ job[p].pc = "mark"
             /\ \/ OpenRows(row.id) = {} /\ UNCHANGED cands
                \/ \E r \in OpenRows(row.id) : Confirm(r)
             /\ UNCHANGED playbooks

\* SynthesizePlaybookCandidate stops when the family has a playbook or no trusted episode.
SynthesizeGate(p, steps) ==
  /\ job[p].pc = "promote" /\ job[p].seen = {}
  /\ IF HasPlaybook(playbooks, job[p].fam) \/ steps = 0
     THEN Finish(p)
     ELSE job' = [job EXCEPT ![p].pc = "derive", ![p].steps = steps]
  /\ UNCHANGED <<cands, playbooks>>

SynthesizeDerive(p) ==
  /\ job[p].pc = "derive"
  /\ UpsertCandidate(job[p].fam, job[p].steps, job[p].fam)
  /\ job' = [job EXCEPT ![p].pc = "readback", ![p].affected = ~Tombstoned(job[p].fam)]
  /\ UNCHANGED playbooks

\* The row may be superseded: not rejected, not inserted by this call, and longer.
Superseded(p, r) ==
  /\ r.sig = job[p].fam
  /\ r.status # "rejected"
  /\ ~(job[p].affected /\ r.sightings = 1)
  /\ job[p].steps < r.payload.steps

SynthesizeReadback(p) ==
  /\ job[p].pc = "readback"
  /\ LET longer == {r \in cands : Superseded(p, r)}
     IN  IF longer = {} THEN Finish(p)
         ELSE job' = [job EXCEPT ![p].pc = "refresh", ![p].seen = {CopyOf(r) : r \in longer}]
  /\ UNCHANGED <<cands, playbooks>>

\* refreshShorterSynthesis: UPDATE ... WHERE id = ? AND status = 'open'.
SynthesizeRefresh(p) ==
  /\ job[p].pc = "refresh"
  /\ LET targets == UNION {OpenRows(row.id) : row \in job[p].seen}
         fresh   == [of |-> job[p].fam, steps |-> job[p].steps]
     IN  cands' = (cands \ targets) \cup {[r EXCEPT !.payload = fresh] : r \in targets}
  /\ Finish(p)
  /\ UNCHANGED playbooks

(***************************************************************************)
(* teach-playbook and playbook amend: one transaction each.                *)
(***************************************************************************)

\* The agent's own choreography, notes or both.
TeachPlaybook(f) ==
  /\ \E json \in {NoText, Agent}, notes \in {<<>>, <<Agent>>} :
       /\ json # NoText \/ notes # <<>>
       /\ playbooks' = UpsertPlaybook(playbooks, f, json, notes, FALSE)
  /\ UNCHANGED <<cands, job>>

Amend(f) ==
  /\ NotesFit(f)
  /\ playbooks' = AppendNote(playbooks, f, Agent)
  /\ UNCHANGED <<cands, job>>

\* The process is killed; SQLite rolls an unfinished transaction back.
Crash(p) ==
  /\ job[p] # Idle
  /\ Finish(p)
  /\ UNCHANGED <<cands, playbooks>>

Init ==
  /\ cands = {}
  /\ playbooks = {}
  /\ job = [p \in Procs |-> Idle]

Step(p) ==
  \/ \E r \in cands : ConfirmShow(p, r)
  \/ ConfirmCommit(p)
  \/ PurgeExpire(p)
  \/ \E includeTombstones \in BOOLEAN : PurgeDelete(p, includeTombstones)
  \/ \E f \in Families : PromoteList(p, f)
  \/ PromoteNext(p) \/ PromoteRow(p)
  \/ \E steps \in 0 .. MaxSteps : SynthesizeGate(p, steps)
  \/ SynthesizeDerive(p) \/ SynthesizeReadback(p) \/ SynthesizeRefresh(p)
  \/ Crash(p)

Next ==
  \/ \E p \in Procs : Step(p)
  \/ \E sig \in Aliases, family \in Families \cup {NoFamily} : DeriveFlagAlias(sig, family)
  \/ \E r \in cands : Age(r) \/ Reject(r)
  \/ \E f \in Families : TeachPlaybook(f) \/ Amend(f)

Spec == Init /\ [][Next]_vars

TypeOK ==
  /\ cands \subseteq Row
  /\ playbooks \subseteq Playbook
  /\ job \in [Procs -> Job]

(***************************************************************************)
(* What judging a candidate promises.                                      *)
(***************************************************************************)

\* The signatures whose captured text the playbooks hold.
Guidance ==
  {sig \in Sigs : \E b \in playbooks : \/ sig \in {b.notes[i] : i \in DOMAIN b.notes}
                                       \/ b.json # NoText /\ b.json # Agent /\ b.json.of = sig}

\* Captured text is in a playbook only while its candidate's row says it was confirmed
\* (or, for a playbook candidate, confirmed and later rejected), and the note of a flag
\* correction is there at most once, however many confirms and promotions race.
\* Holds while nobody purges: a purge hands the id of a settled row to a later candidate.
QuarantineHolds ==
  /\ \A sig \in Guidance : \E r \in cands :
       r.sig = sig /\ (r.status = "confirmed" \/ (r.status = "rejected" /\ IsPlaybook(sig)))
  /\ \A a \in Aliases, b, c \in playbooks : \A i \in DOMAIN b.notes, j \in DOMAIN c.notes :
       b.notes[i] = a /\ c.notes[j] = a => b = c /\ i = j

\* The row a confirm command marks is the one whose payload it printed: "the caller
\* always sees exactly what is being blessed" (learnings_candidates.go).
ConfirmsWhatItShowed ==
  [][\A p \in Procs : job[p].pc = "shown" /\ job'[p] = Idle =>
       \A r \in cands : r.status = "open" /\ Settled(r, "confirmed") \in cands' =>
         \E row \in job[p].seen : row.sig = r.sig]_vars

\* A rejected row stays as it is, unseen by later observations, until a purge with
\* --tombstones deletes it: no command reopens, confirms or bumps a tombstone.
TombstonesHold ==
  [][\A r \in cands : r.status = "rejected" =>
       \/ r \in cands'
       \/ \E p \in Procs : job[p].pc = "purge" /\ job'[p] = Idle]_vars

\* An open row is never deleted: a purge whose sweep ran before a sighting reopened the row
\* (a second statement, maybe another process between them) leaves that row alone.
OpenRowsSurvive ==
  [][\A r \in cands : r.status = "open" => \E t \in cands' : t.id = r.id /\ t.sig = r.sig]_vars

\* New captured text appears in a playbook only in the transaction that confirms a row, so
\* neither a crash nor a failed check leaves text without a confirmation.
PromotionIsAtomic ==
  [][~(Guidance' \subseteq Guidance) =>
       \E r \in cands : r.status = "open" /\ Settled(r, "confirmed") \in cands']_vars

\* The table implements the quarantine: each step of each command is an observation, a
\* judgment, a dismissal, a sweep or an edit of CandidateQuarantine, or invisible there.
Verdict == [sig \in Sigs |->
  IF \E r \in cands : r.sig = sig THEN (CHOOSE r \in cands : r.sig = sig).status ELSE "unknown"]

Q == INSTANCE CandidateQuarantine
       WITH Sigs <- Sigs, Retractable <- Families, verdict <- Verdict, guidance <- Guidance

ImplementsQuarantine == Q!Spec
=============================================================================
