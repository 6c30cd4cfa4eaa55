---------------------------- MODULE CandidatesProofs ----------------------------
(***************************************************************************)
(* Proofs about Candidates, for any number of processes, families, flag    *)
(* corrections and ids.                                                    *)
(***************************************************************************)
EXTENDS Candidates, SequenceTheorems, TLAPS

USE ConstantsDistinct, BoundsAssumption

(***************************************************************************)
(* The playbook table.                                                     *)
(***************************************************************************)

\* An upsert keeps the table well typed.
LEMMA UpsertTyped ==
  ASSUME NEW table \in SUBSET Playbook, NEW f \in Families,
         NEW json \in Payload \cup {Agent, NoText}, NEW notes \in Seq(Sigs \cup {Agent})
  PROVE  UpsertPlaybook(table, f, json, notes, FALSE) \in SUBSET Playbook
  <1>1. \A b \in Playbook : Upserted(b, json, notes, FALSE) \in Playbook
    BY DEF Playbook, PlaybookRows, Upserted
  <1>2. [family |-> f, json |-> json, notes |-> notes] \in Playbook
    BY DEF Playbook, PlaybookRows
  <1> QED BY <1>1, <1>2 DEF UpsertPlaybook

\* Appending a note keeps the table well typed.
LEMMA AppendTyped ==
  ASSUME NEW table \in SUBSET Playbook, NEW f \in Families, NEW mark \in Sigs \cup {Agent}
  PROVE  AppendNote(table, f, mark) \in SUBSET Playbook
  <1>1. \A b \in Playbook : [b EXCEPT !.notes = Append(@, mark)] \in Playbook
    BY AppendProperties DEF Playbook, PlaybookRows
  <1>2. [family |-> f, json |-> NoText, notes |-> <<mark>>] \in Playbook
    BY DEF Playbook, PlaybookRows
  <1> QED BY <1>1, <1>2 DEF AppendNote

(***************************************************************************)
(* The candidate table.                                                    *)
(***************************************************************************)

\* The rows a statement writes are well typed.
LEMMA BumpedTyped == ASSUME NEW r \in Row PROVE Bumped(r) \in Row
  <1> DEFINE n == IF r.sightings < MaxSightings THEN r.sightings + 1 ELSE r.sightings
             st == IF r.status = "expired" THEN "open" ELSE r.status
  <1>1. n \in 1 .. MaxSightings
    BY DEF Row
  <1>2. st \in {"open", "confirmed", "rejected", "expired"}
    BY DEF Row
  <1>3. Bumped(r) = [r EXCEPT !.sightings = n, !.status = st, !.stale = FALSE]
    BY DEF Bumped
  <1> HIDE DEF n, st
  <1> QED BY <1>1, <1>2, <1>3 DEF Row

LEMMA SettledTyped ==
  ASSUME NEW r \in Row, NEW status \in {"open", "confirmed", "rejected", "expired"}
  PROVE  Settled(r, status) \in Row
  BY DEF Row, Settled

LEMMA CopyTyped == ASSUME NEW r \in Row PROVE CopyOf(r) \in Copy
  BY DEF Row, Copy, CopyOf

LEMMA NewRowTyped ==
  ASSUME NEW i \in Ids, NEW sig \in Sigs, NEW steps \in 1 .. MaxSteps,
         NEW family \in Families \cup {NoFamily}
  PROVE  NewRow(i, sig, steps, family) \in Row
  BY DEF Row, NewRow, Payload

\* The derive upsert keeps the table well typed.
LEMMA UpsertCandidateTyped ==
  ASSUME cands \subseteq Row, NEW sig \in Sigs, NEW steps \in 1 .. MaxSteps,
         NEW family \in Families \cup {NoFamily}, UpsertCandidate(sig, steps, family)
  PROVE  cands' \subseteq Row
  <1>1. CASE UNCHANGED cands
    BY <1>1
  <1>2. CASE BumpRow(sig)
    BY <1>2, BumpedTyped DEF BumpRow, Replace
  <1>3. CASE InsertRow(sig, steps, family)
    BY <1>3, NewRowTyped DEF InsertRow
  <1> QED BY <1>1, <1>2, <1>3 DEF UpsertCandidate

\* Either confirm transaction keeps both tables well typed.
LEMMA ConfirmTyped ==
  ASSUME cands \subseteq Row, playbooks \subseteq Playbook, NEW row \in Copy,
         \/ row.family \in Families /\ ConfirmWithPlaybook(row)
         \/ \E f \in Families \cup {NoFamily} : ConfirmWithNote(row, f)
  PROVE  cands' \subseteq Row /\ playbooks' \subseteq Playbook
  <1> USE DEF OpenRows, Confirm, Replace
  <1>1. CASE row.family \in Families /\ ConfirmWithPlaybook(row)
    <2>0. row.payload \in Payload /\ row.payload.of \in Sigs
      BY DEF Copy, Payload
    <2>1. NotesText(row.payload) \in Seq(Sigs \cup {Agent})
      <3>1. <<row.payload.of>> \in Seq(Sigs \cup {Agent}) /\ <<>> \in Seq(Sigs \cup {Agent})
        BY <2>0
      <3>2. NotesText(row.payload) \in {<<row.payload.of>>, <<>>}
        BY Zenon DEF NotesText
      <3> QED BY <3>1, <3>2
    <2>2. UpsertPlaybook(playbooks, row.family, row.payload, NotesText(row.payload), FALSE)
            \subseteq Playbook
      BY <1>1, <2>0, <2>1, UpsertTyped
    <2> QED BY <1>1, <2>2, SettledTyped DEF ConfirmWithPlaybook
  <1>2. ASSUME NEW f \in Families \cup {NoFamily}, ConfirmWithNote(row, f)
        PROVE  cands' \subseteq Row /\ playbooks' \subseteq Playbook
    <2>1. f \in Families => AppendNote(playbooks, f, row.payload.of) \subseteq Playbook
      BY AppendTyped DEF Copy, Payload
    <2> QED BY <1>2, <2>1, SettledTyped DEF ConfirmWithNote
  <1> QED BY <1>1, <1>2

(***************************************************************************)
(* Type correctness.                                                       *)
(***************************************************************************)

\* A playbook candidate carries its own family, in the table and in every copy of it.
Anchored ==
  /\ \A r \in cands : IsPlaybook(r.sig) => r.family = r.sig
  /\ \A p \in Procs : \A row \in job[p].seen : IsPlaybook(row.sig) => row.family = row.sig

\* A teach has resolved its family, and has an episode once it derives.
TeachResolved ==
  \A p \in Procs :
    /\ job[p].pc \in {"promote", "materialize", "mark", "derive", "readback", "refresh"} =>
         job[p].fam \in Families
    /\ job[p].pc \in {"derive", "readback", "refresh"} => job[p].steps \in 1 .. MaxSteps
    /\ job[p].pc \in {"promote", "materialize", "mark"} => \A row \in job[p].seen : IsPlaybook(row.sig)

TypeInv == TypeOK /\ Anchored /\ TeachResolved

\* What a step of p does to job, given the new record.
LEMMA JobStep ==
  ASSUME job \in [Procs -> Job], NEW p \in Procs, NEW j \in Job,
         job' = [job EXCEPT ![p] = j]
  PROVE  /\ job' \in [Procs -> Job]
         /\ job'[p] = j
         /\ \A q \in Procs : q # p => job'[q] = job[q]
  OBVIOUS

LEMMA IdleTyped == Idle \in Job
  BY DEF Idle, Job

\* Only the record of p may disturb the job part of the invariant.
LEMMA JobInv ==
  ASSUME TypeInv, NEW p \in Procs, NEW j \in Job, job' = [job EXCEPT ![p] = j],
         \A row \in j.seen : IsPlaybook(row.sig) => row.family = row.sig,
         j.pc \in {"promote", "materialize", "mark", "derive", "readback", "refresh"} =>
           j.fam \in Families,
         j.pc \in {"derive", "readback", "refresh"} => j.steps \in 1 .. MaxSteps,
         j.pc \in {"promote", "materialize", "mark"} => \A row \in j.seen : IsPlaybook(row.sig),
         cands' \subseteq Row, playbooks' \subseteq Playbook,
         \A r \in cands' : IsPlaybook(r.sig) => r.family = r.sig
  PROVE  TypeInv'
  <1>1. /\ job' \in [Procs -> Job]
        /\ job'[p] = j
        /\ \A q \in Procs : q # p => job'[q] = job[q]
    BY JobStep DEF TypeInv, TypeOK
  <1>2. TypeOK'
    BY <1>1 DEF TypeOK
  <1>3. Anchored'
    BY <1>1 DEF Anchored, TypeInv
  <1>4. TeachResolved'
    BY <1>1 DEF TeachResolved, TypeInv
  <1> QED BY <1>2, <1>3, <1>4 DEF TypeInv

\* What the row updates leave alone.
LEMMA BumpedKeeps ==
  ASSUME NEW r \in Row
  PROVE  /\ Bumped(r).id = r.id /\ Bumped(r).sig = r.sig
         /\ Bumped(r).payload = r.payload /\ Bumped(r).family = r.family
  BY DEF Row, Bumped

LEMMA SettledKeeps ==
  ASSUME NEW r \in Row, NEW status
  PROVE  /\ Settled(r, status).id = r.id /\ Settled(r, status).sig = r.sig
         /\ Settled(r, status).payload = r.payload /\ Settled(r, status).family = r.family
         /\ Settled(r, status).status = status
  BY DEF Row, Settled

\* The derive upsert keeps playbook candidates under their own family.
LEMMA UpsertCandidateAnchored ==
  ASSUME cands \subseteq Row, NEW sig, NEW steps, NEW family, IsPlaybook(sig) => family = sig,
         \A r \in cands : IsPlaybook(r.sig) => r.family = r.sig,
         UpsertCandidate(sig, steps, family)
  PROVE  \A r \in cands' : IsPlaybook(r.sig) => r.family = r.sig
  <1>1. CASE UNCHANGED cands
    BY <1>1
  <1>2. CASE BumpRow(sig)
    BY <1>2, BumpedKeeps DEF BumpRow, Replace
  <1>3. CASE InsertRow(sig, steps, family)
    BY <1>3 DEF InsertRow, NewRow
  <1> QED BY <1>1, <1>2, <1>3 DEF UpsertCandidate

\* The confirm transactions do too: they only settle a row.
LEMMA SettleAnchored ==
  ASSUME cands \subseteq Row, \A r \in cands : IsPlaybook(r.sig) => r.family = r.sig,
         NEW r \in cands, NEW status, Replace(r, Settled(r, status))
  PROVE  \A t \in cands' : IsPlaybook(t.sig) => t.family = t.sig
  BY SettledKeeps DEF Replace

LEMMA ConfirmAnchored ==
  ASSUME cands \subseteq Row, \A r \in cands : IsPlaybook(r.sig) => r.family = r.sig,
         NEW row, NEW f, ConfirmWithPlaybook(row) \/ ConfirmWithNote(row, f)
  PROVE  \A t \in cands' : IsPlaybook(t.sig) => t.family = t.sig
  BY SettleAnchored DEF ConfirmWithPlaybook, ConfirmWithNote, Confirm, OpenRows

\* Every step of a process preserves the invariant.
LEMMA TypeStep ==
  ASSUME TypeInv, NEW p \in Procs, Step(p)
  PROVE  TypeInv'
  <1> USE DEF TypeInv, TypeOK
  <1>0. /\ job[p] \in Job /\ Idle \in Job /\ Idle.seen = {} /\ Idle.pc = "idle"
        /\ \A row \in job[p].seen : row \in Copy
        /\ \A r \in cands : r \in Row
    BY IdleTyped DEF Idle, Job
  <1>idle. ASSUME job' = [job EXCEPT ![p] = Idle], cands' \subseteq Row, playbooks' \subseteq Playbook,
                  \A r \in cands' : IsPlaybook(r.sig) => r.family = r.sig
           PROVE  TypeInv'
    BY <1>idle, <1>0, JobInv
  <1>1. ASSUME NEW r \in cands, ConfirmShow(p, r) PROVE TypeInv'
    <2> DEFINE j == [job[p] EXCEPT !.pc = "shown", !.seen = {CopyOf(r)}]
    <2>1. j \in Job
      BY <1>0, CopyTyped DEF Job
    <2>2. job' = [job EXCEPT ![p] = j]
      BY <1>1 DEF ConfirmShow
    <2>3. j.pc = "shown" /\ \A row \in j.seen : IsPlaybook(row.sig) => row.family = row.sig
      BY <1>0 DEF Job, CopyOf, Anchored
    <2>4. UNCHANGED <<cands, playbooks>>
      BY <1>1 DEF ConfirmShow
    <2> HIDE DEF j
    <2> QED BY <2>1, <2>2, <2>3, <2>4, JobInv DEF Anchored
  <1>2. CASE ConfirmCommit(p)
    <2>1. PICK row \in job[p].seen :
            \/ IsPlaybook(row.sig) /\ ConfirmWithPlaybook(row)
            \/ \E f \in Families \cup {NoFamily} : ConfirmWithNote(row, f)
      BY <1>2, <1>0 DEF ConfirmCommit, Copy
    <2>2. row.family \in Families \/ ~IsPlaybook(row.sig)
      BY DEF Anchored, IsPlaybook
    <2>3. cands' \subseteq Row /\ playbooks' \subseteq Playbook
      BY <1>0, <2>1, <2>2, ConfirmTyped
    <2>4. \A t \in cands' : IsPlaybook(t.sig) => t.family = t.sig
      BY <2>1, ConfirmAnchored DEF Anchored
    <2> QED BY <1>2, <1>idle, <2>3, <2>4 DEF ConfirmCommit, Finish
  <1>3. CASE PurgeExpire(p)
    <2> DEFINE j == [job[p] EXCEPT !.pc = "purge"]
    <2>1. j \in Job /\ j.pc = "purge" /\ j.seen = job[p].seen
      BY <1>0 DEF Job
    <2>2. job' = [job EXCEPT ![p] = j] /\ UNCHANGED playbooks
      BY <1>3 DEF PurgeExpire, Goto
    <2>3. cands' \subseteq Row /\ \A t \in cands' : IsPlaybook(t.sig) => t.family = t.sig
      BY <1>0, <1>3, SettledTyped, SettledKeeps DEF PurgeExpire, Anchored
    <2> HIDE DEF j
    <2> QED BY <2>1, <2>2, <2>3, JobInv DEF Anchored
  <1>4. ASSUME NEW t \in BOOLEAN, PurgeDelete(p, t) PROVE TypeInv'
    BY <1>4, <1>idle DEF PurgeDelete, Finish, Anchored
  <1>5. ASSUME NEW f \in Families, PromoteList(p, f) PROVE TypeInv'
    <2> DEFINE listed == {CopyOf(r) : r \in {c \in cands :
                            c.status = "open" /\ IsPlaybook(c.sig) /\ c.family = f}}
               j == [job[p] EXCEPT !.pc = "promote", !.fam = f, !.seen = listed]
    <2>1. /\ listed \subseteq Copy
          /\ \A row \in listed : IsPlaybook(row.sig) /\ row.family = row.sig
      BY <1>0, CopyTyped DEF CopyOf, Anchored
    <2> HIDE DEF listed
    <2>2. j \in Job /\ j.pc = "promote" /\ j.seen = listed /\ j.fam = f
      BY <1>0, <2>1 DEF Job
    <2>3. job' = [job EXCEPT ![p] = j] /\ UNCHANGED <<cands, playbooks>>
      BY <1>5 DEF PromoteList, listed
    <2> HIDE DEF j
    <2> QED BY <2>1, <2>2, <2>3, JobInv DEF Anchored
  <1>6. CASE PromoteNext(p)
    <2> DEFINE l == IF HasPlaybook(playbooks, job[p].fam) THEN "mark" ELSE "materialize"
               j == [job[p] EXCEPT !.pc = l]
    <2>1. /\ j \in Job /\ j.pc \in {"mark", "materialize"}
          /\ j.seen = job[p].seen /\ j.fam = job[p].fam
      BY <1>0 DEF Job
    <2>2. job' = [job EXCEPT ![p] = j] /\ UNCHANGED <<cands, playbooks>>
      BY <1>6 DEF PromoteNext, Goto
    <2>3. j.fam \in Families /\ \A row \in j.seen : IsPlaybook(row.sig)
      BY <1>6, <2>1 DEF PromoteNext, TeachResolved
    <2> HIDE DEF j
    <2> QED BY <2>1, <2>2, <2>3, JobInv DEF Anchored
  <1>7. CASE PromoteRow(p)
    <2>1. PICK row \in job[p].seen :
            /\ job' = [job EXCEPT ![p].pc = "promote", ![p].seen = @ \ {row}]
            /\ \/ ConfirmWithPlaybook(row)
               \/ UNCHANGED <<cands, playbooks>>
               \/ UNCHANGED playbooks /\ \E r \in cands : Replace(r, Settled(r, "confirmed"))
      BY <1>7, <1>0 DEF PromoteRow, OpenRows, Confirm
    <2> DEFINE j == [job[p] EXCEPT !.pc = "promote", !.seen = @ \ {row}]
    <2>2. /\ j \in Job /\ j.pc = "promote"
          /\ j.seen \subseteq job[p].seen /\ j.fam = job[p].fam
      BY <1>0 DEF Job
    <2>3. job' = [job EXCEPT ![p] = j]
      BY <2>1
    <2>4. j.fam \in Families /\ \A t \in job[p].seen : IsPlaybook(t.sig) /\ t.family = t.sig
      BY <1>7, <2>2 DEF PromoteRow, TeachResolved, Anchored
    <2>5. row.family \in Families
      BY <2>4 DEF IsPlaybook
    <2>6. cands' \subseteq Row /\ playbooks' \subseteq Playbook
      BY <1>0, <2>1, <2>5, ConfirmTyped, SettledTyped DEF Replace
    <2>7. \A t \in cands' : IsPlaybook(t.sig) => t.family = t.sig
      BY <2>1, ConfirmAnchored, SettleAnchored DEF Anchored
    <2> HIDE DEF j
    <2> QED BY <2>2, <2>3, <2>4, <2>6, <2>7, JobInv
  <1>8. ASSUME NEW steps \in 0 .. MaxSteps, SynthesizeGate(p, steps) PROVE TypeInv'
    <2>1. CASE HasPlaybook(playbooks, job[p].fam) \/ steps = 0
      BY <1>8, <1>idle, <2>1 DEF SynthesizeGate, Finish, Anchored
    <2>2. CASE ~(HasPlaybook(playbooks, job[p].fam) \/ steps = 0)
      <3> DEFINE j == [job[p] EXCEPT !.pc = "derive", !.steps = steps]
      <3>1. /\ j \in Job /\ j.pc = "derive"
            /\ j.seen = job[p].seen /\ j.fam = job[p].fam /\ j.steps = steps
        BY <1>0 DEF Job
      <3>2. job' = [job EXCEPT ![p] = j] /\ UNCHANGED <<cands, playbooks>>
        BY <1>8, <2>2 DEF SynthesizeGate
      <3>3. j.fam \in Families /\ steps \in 1 .. MaxSteps
        BY <1>8, <2>2, <3>1 DEF SynthesizeGate, TeachResolved
      <3> HIDE DEF j
      <3> QED BY <3>1, <3>2, <3>3, JobInv DEF Anchored
    <2> QED BY <2>1, <2>2
  <1>9. CASE SynthesizeDerive(p)
    <2> DEFINE a == ~Tombstoned(job[p].fam)
               j == [job[p] EXCEPT !.pc = "readback", !.affected = a]
    <2>0. a \in BOOLEAN
      BY DEF Tombstoned
    <2> HIDE DEF a
    <2>1. /\ j \in Job /\ j.pc = "readback" /\ j.seen = job[p].seen
          /\ j.fam = job[p].fam /\ j.steps = job[p].steps
      BY <1>0, <2>0 DEF Job
    <2>2. job' = [job EXCEPT ![p] = j] /\ UNCHANGED playbooks
      BY <1>9 DEF SynthesizeDerive, a
    <2>3. job[p].fam \in Families /\ job[p].steps \in 1 .. MaxSteps
      BY <1>9 DEF SynthesizeDerive, TeachResolved
    <2>4. cands' \subseteq Row /\ \A t \in cands' : IsPlaybook(t.sig) => t.family = t.sig
      BY <1>9, <2>3, UpsertCandidateTyped, UpsertCandidateAnchored DEF SynthesizeDerive, Sigs, Anchored
    <2> HIDE DEF j
    <2> QED BY <2>1, <2>2, <2>3, <2>4, JobInv DEF Anchored
  <1>10. CASE SynthesizeReadback(p)
    <2> DEFINE longer == {r \in cands : Superseded(p, r)}
               held == {CopyOf(r) : r \in longer}
               j == [job[p] EXCEPT !.pc = "refresh", !.seen = held]
    <2>1. held \subseteq Copy /\ \A row \in held : IsPlaybook(row.sig) => row.family = row.sig
      BY <1>0, CopyTyped DEF CopyOf, Anchored
    <2>2. CASE longer = {}
      BY <1>10, <1>idle, <2>2 DEF SynthesizeReadback, Finish, Anchored
    <2>3. CASE longer # {}
      <3>1. job' = [job EXCEPT ![p] = j] /\ UNCHANGED <<cands, playbooks>>
        BY <1>10, <2>3 DEF SynthesizeReadback
      <3> HIDE DEF longer, held
      <3>2. /\ j \in Job /\ j.pc = "refresh" /\ j.seen = held
            /\ j.fam = job[p].fam /\ j.steps = job[p].steps
        BY <1>0, <2>1 DEF Job
      <3>3. job[p].fam \in Families /\ job[p].steps \in 1 .. MaxSteps
        BY <1>10 DEF SynthesizeReadback, TeachResolved
      <3> HIDE DEF j
      <3> QED BY <2>1, <3>1, <3>2, <3>3, JobInv DEF Anchored
    <2> QED BY <2>2, <2>3
  <1>11. CASE SynthesizeRefresh(p)
    <2> DEFINE fresh == [of |-> job[p].fam, steps |-> job[p].steps]
    <2>1. fresh \in Payload
      BY <1>11 DEF SynthesizeRefresh, TeachResolved, Payload, Sigs
    <2> HIDE DEF fresh
    <2>2. \A r \in Row : /\ [r EXCEPT !.payload = fresh] \in Row
                        /\ [r EXCEPT !.payload = fresh].sig = r.sig
                        /\ [r EXCEPT !.payload = fresh].family = r.family
      BY <2>1 DEF Row
    <2>3. PICK targets \in SUBSET cands :
            cands' = (cands \ targets) \cup {[r EXCEPT !.payload = fresh] : r \in targets}
      BY <1>11 DEF SynthesizeRefresh, OpenRows, fresh
    <2>4. ASSUME NEW t \in cands'
          PROVE  t \in Row /\ (IsPlaybook(t.sig) => t.family = t.sig)
      <3>1. CASE t \in cands
        BY <3>1, <1>0 DEF Anchored
      <3>2. CASE \E r \in cands : t = [r EXCEPT !.payload = fresh]
        <4>1. PICK r \in cands : t = [r EXCEPT !.payload = fresh]
          BY <3>2
        <4>2. t \in Row /\ t.sig = r.sig /\ t.family = r.family
          BY <1>0, <2>2, <4>1
        <4> QED BY <4>2 DEF Anchored
      <3> QED BY <2>3, <3>1, <3>2
    <2>5. cands' \subseteq Row /\ \A t \in cands' : IsPlaybook(t.sig) => t.family = t.sig
      BY <2>4
    <2> QED BY <1>11, <1>idle, <2>5 DEF SynthesizeRefresh, Finish
  <1>12. CASE Crash(p)
    BY <1>12, <1>idle DEF Crash, Finish, Anchored
  <1> QED
    BY <1>1, <1>2, <1>3, <1>4, <1>5, <1>6, <1>7, <1>8, <1>9, <1>10, <1>11, <1>12 DEF Step

LEMMA TypeInit == Init => TypeInv
  <1> SUFFICES ASSUME Init PROVE TypeInv
    OBVIOUS
  <1>1. TypeOK
    BY IdleTyped DEF Init, TypeOK
  <1>2. \A p \in Procs : job[p].pc = "idle" /\ job[p].seen = {}
    BY DEF Init, Idle
  <1> QED BY <1>1, <1>2 DEF Init, TypeInv, Anchored, TeachResolved

\* The commands that are one transaction leave job alone.
LEMMA TypeFrame ==
  ASSUME TypeInv, UNCHANGED job, cands' \subseteq Row, playbooks' \subseteq Playbook,
         \A r \in cands' : IsPlaybook(r.sig) => r.family = r.sig
  PROVE  TypeInv'
  BY DEF TypeInv, TypeOK, Anchored, TeachResolved

\* Every step of the system preserves the type invariant.
LEMMA TypeNext == TypeInv /\ [Next]_vars => TypeInv'
  <1> SUFFICES ASSUME TypeInv, [Next]_vars PROVE TypeInv'
    OBVIOUS
  <1>0. /\ cands \subseteq Row /\ playbooks \subseteq Playbook
        /\ \A r \in cands : IsPlaybook(r.sig) => r.family = r.sig
    BY DEF TypeInv, TypeOK, Anchored
  <1>1. ASSUME NEW p \in Procs, Step(p) PROVE TypeInv'
    BY <1>1, TypeStep
  <1>2. ASSUME NEW sig \in Aliases, NEW family \in Families \cup {NoFamily},
               DeriveFlagAlias(sig, family)
        PROVE  TypeInv'
    <2>1. ~IsPlaybook(sig) /\ sig \in Sigs /\ 1 \in 1 .. MaxSteps
      BY DEF IsPlaybook, Sigs
    <2> QED
      BY <1>0, <1>2, <2>1, UpsertCandidateTyped, UpsertCandidateAnchored, TypeFrame
      DEF DeriveFlagAlias
  <1>3. ASSUME NEW r \in cands, Age(r) PROVE TypeInv'
    <2> DEFINE t == [r EXCEPT !.stale = TRUE]
    <2>1. t \in Row /\ t.sig = r.sig /\ t.family = r.family
      BY <1>0 DEF Row
    <2>2. cands' = (cands \ {r}) \cup {t}
      BY <1>3 DEF Age, Replace
    <2> HIDE DEF t
    <2> QED BY <1>0, <1>3, <2>1, <2>2, TypeFrame DEF Age
  <1>4. ASSUME NEW r \in cands, Reject(r) PROVE TypeInv'
    BY <1>0, <1>4, SettledTyped, SettleAnchored, TypeFrame DEF Reject, Replace
  <1>5. ASSUME NEW f \in Families, TeachPlaybook(f) PROVE TypeInv'
    <2>1. PICK json \in {NoText, Agent}, notes \in {<<>>, <<Agent>>} :
            playbooks' = UpsertPlaybook(playbooks, f, json, notes, FALSE)
      BY <1>5 DEF TeachPlaybook
    <2>2. notes \in Seq(Sigs \cup {Agent})
      <3>1. <<>> \in Seq(Sigs \cup {Agent}) /\ <<Agent>> \in Seq(Sigs \cup {Agent})
        OBVIOUS
      <3> QED BY <3>1
    <2>3. playbooks' \subseteq Playbook
      BY <1>0, <2>1, <2>2, UpsertTyped
    <2> QED BY <1>0, <1>5, <2>3, TypeFrame DEF TeachPlaybook
  <1>6. ASSUME NEW f \in Families, Amend(f) PROVE TypeInv'
    BY <1>0, <1>6, AppendTyped, TypeFrame DEF Amend
  <1>7. CASE UNCHANGED vars
    BY <1>0, <1>7, TypeFrame DEF vars
  <1> QED BY <1>1, <1>2, <1>3, <1>4, <1>5, <1>6, <1>7 DEF Next

\* Whatever commands run and crash beside each other, every row, playbook and job stays well
\* typed: no sighting count of zero, no id out of range, no playbook of an unknown family.
THEOREM TypeCorrect == Spec => []TypeOK
  <1>1. TypeInv => TypeOK
    BY DEF TypeInv
  <1> QED BY <1>1, TypeInit, TypeNext, PTL DEF Spec

--------------------------------------------------------------------------------
(***************************************************************************)
(* The safety of Candidates: rows stay unique whatever happens, and        *)
(* captured text stays quarantined while nobody purges.                    *)
(***************************************************************************)

(***************************************************************************)
(* Rows stay unique.                                                       *)
(***************************************************************************)

\* The constraints of the table: no two rows have one id or one derivation signature.  The proofs
\* below rest on it; the database enforces it (store.go, learn_candidates).
UniqueRows ==
  \A r, t \in cands : r.id = t.id \/ r.sig = t.sig => r = t

\* Replacing a row by one with its id and signature.
LEMMA ReplaceUnique ==
  ASSUME UniqueRows, NEW r \in cands, NEW new, new.id = r.id, new.sig = r.sig, Replace(r, new)
  PROVE  UniqueRows'
  BY DEF UniqueRows, Replace

LEMMA SettleUnique ==
  ASSUME cands \subseteq Row, UniqueRows, NEW r \in cands, NEW status,
         Replace(r, Settled(r, status))
  PROVE  UniqueRows'
  BY ReplaceUnique, SettledKeeps

\* The derive upsert inserts under a new id and a new signature.
LEMMA UpsertCandidateUnique ==
  ASSUME cands \subseteq Row, UniqueRows, NEW sig, NEW steps, NEW family,
         UpsertCandidate(sig, steps, family)
  PROVE  UniqueRows'
  <1>1. CASE UNCHANGED cands
    BY <1>1 DEF UniqueRows
  <1>2. CASE BumpRow(sig)
    BY <1>2, BumpedKeeps, ReplaceUnique DEF BumpRow
  <1>3. CASE InsertRow(sig, steps, family)
    <2>1. PICK i \in Ids : FreshId(i) /\ cands' = cands \cup {NewRow(i, sig, steps, family)}
      BY <1>3 DEF InsertRow
    <2>2. NewRow(i, sig, steps, family).id = i /\ NewRow(i, sig, steps, family).sig = sig
      BY DEF NewRow
    <2>3. \A r \in cands : r.id # i /\ r.sig # sig
      BY <1>3, <2>1 DEF InsertRow, FreshId, Row, Ids
    <2> QED BY <2>1, <2>2, <2>3 DEF UniqueRows
  <1> QED BY <1>1, <1>2, <1>3 DEF UpsertCandidate

LEMMA ConfirmUnique ==
  ASSUME cands \subseteq Row, UniqueRows, NEW row, NEW f,
         ConfirmWithPlaybook(row) \/ ConfirmWithNote(row, f)
  PROVE  UniqueRows'
  <1>1. UNCHANGED cands \/ \E r \in cands : Replace(r, Settled(r, "confirmed"))
    BY DEF ConfirmWithPlaybook, ConfirmWithNote, Confirm, OpenRows
  <1>2. CASE UNCHANGED cands
    BY <1>2 DEF UniqueRows
  <1> QED BY <1>1, <1>2, SettleUnique

\* Rewriting the payload of some rows.
LEMMA RewriteUnique ==
  ASSUME cands \subseteq Row, UniqueRows, NEW fresh, NEW targets \in SUBSET cands,
         cands' = (cands \ targets) \cup {[r EXCEPT !.payload = fresh] : r \in targets}
  PROVE  UniqueRows'
  <1>1. \A t \in cands' : \E r \in cands :
          /\ t.id = r.id /\ t.sig = r.sig
          /\ t = IF r \in targets THEN [r EXCEPT !.payload = fresh] ELSE r
    BY DEF Row
  <1> QED BY <1>1 DEF UniqueRows

LEMMA ExpireUnique ==
  ASSUME cands \subseteq Row, UniqueRows, NEW p \in Procs, PurgeExpire(p)
  PROVE  UniqueRows'
  <1>1. \A t \in cands' : \E r \in cands :
          /\ t.id = r.id /\ t.sig = r.sig
          /\ t = IF r.status = "open" /\ r.stale THEN Settled(r, "expired") ELSE r
    BY SettledKeeps DEF PurgeExpire
  <1> QED BY <1>1 DEF UniqueRows

\* Every step preserves uniqueness.
LEMMA UniqueNext == TypeInv /\ UniqueRows /\ [Next]_vars => UniqueRows'
  <1> SUFFICES ASSUME TypeInv, UniqueRows, [Next]_vars PROVE UniqueRows'
    OBVIOUS
  <1>0. cands \subseteq Row
    BY DEF TypeInv, TypeOK
  <1>same. UNCHANGED cands => UniqueRows'
    BY DEF UniqueRows
  <1>1. ASSUME NEW p \in Procs, Step(p) PROVE UniqueRows'
    <2>1. CASE \/ \E r \in cands : ConfirmShow(p, r)
               \/ \E f \in Families : PromoteList(p, f)
               \/ PromoteNext(p)
               \/ \E steps \in 0 .. MaxSteps : SynthesizeGate(p, steps)
               \/ SynthesizeReadback(p) \/ Crash(p)
      BY <2>1, <1>same
      DEF ConfirmShow, PromoteList, PromoteNext, SynthesizeGate, SynthesizeReadback, Crash
    <2>2. CASE ConfirmCommit(p)
      BY <2>2, <1>0, ConfirmUnique DEF ConfirmCommit
    <2>3. CASE PurgeExpire(p)
      BY <2>3, <1>0, ExpireUnique
    <2>4. CASE \E t \in BOOLEAN : PurgeDelete(p, t)
      BY <2>4 DEF PurgeDelete, UniqueRows
    <2>5. CASE PromoteRow(p)
      <3>1. \/ \E row \in job[p].seen : ConfirmWithPlaybook(row)
            \/ UNCHANGED cands
            \/ \E r \in cands : Replace(r, Settled(r, "confirmed"))
        BY <2>5 DEF PromoteRow, OpenRows, Confirm
      <3> QED BY <3>1, <1>0, <1>same, ConfirmUnique, SettleUnique
    <2>6. CASE SynthesizeDerive(p)
      BY <2>6, <1>0, UpsertCandidateUnique DEF SynthesizeDerive
    <2>7. CASE SynthesizeRefresh(p)
      <3>1. \E targets \in SUBSET cands : cands' = (cands \ targets) \cup
              {[r EXCEPT !.payload = [of |-> job[p].fam, steps |-> job[p].steps]] : r \in targets}
        BY <2>7 DEF SynthesizeRefresh, OpenRows
      <3> QED BY <3>1, <1>0, RewriteUnique
    <2> QED BY <1>1, <2>1, <2>2, <2>3, <2>4, <2>5, <2>6, <2>7 DEF Step
  <1>2. ASSUME NEW sig \in Aliases, NEW family \in Families \cup {NoFamily},
               DeriveFlagAlias(sig, family)
        PROVE  UniqueRows'
    BY <1>0, <1>2, UpsertCandidateUnique DEF DeriveFlagAlias
  <1>3. ASSUME NEW r \in cands, Age(r) PROVE UniqueRows'
    <2>1. [r EXCEPT !.stale = TRUE].id = r.id /\ [r EXCEPT !.stale = TRUE].sig = r.sig
      BY <1>0 DEF Row
    <2> QED BY <1>3, <2>1, ReplaceUnique DEF Age
  <1>4. ASSUME NEW r \in cands, Reject(r) PROVE UniqueRows'
    BY <1>0, <1>4, SettleUnique DEF Reject
  <1>5. ASSUME NEW f \in Families, TeachPlaybook(f) \/ Amend(f) PROVE UniqueRows'
    BY <1>5, <1>same DEF TeachPlaybook, Amend
  <1>6. CASE UNCHANGED vars
    BY <1>6, <1>same DEF vars
  <1> QED BY <1>1, <1>2, <1>3, <1>4, <1>5, <1>6 DEF Next

(***************************************************************************)
(* The quarantine, while nobody purges.                                    *)
(***************************************************************************)

\* Every copy a command holds is of a row that is still there.
HeldRows ==
  \A p \in Procs : \A row \in job[p].seen :
    \E r \in cands : r.id = row.id /\ r.sig = row.sig

\* A payload is of the signature it is stored under, in the table and in every copy; a
\* synthesis about to refresh rows holds rows of its own family only.
PayloadsOwn ==
  /\ \A r \in cands : r.payload.of = r.sig
  /\ \A p \in Procs : \A row \in job[p].seen :
       /\ row.payload.of = row.sig
       /\ job[p].pc = "refresh" => row.sig = job[p].fam

OnePlaybook == \A b, c \in playbooks : b.family = c.family => b = c

NoPurge == \A p \in Procs : job[p].pc # "purge"

SafeInv ==
  /\ TypeInv /\ UniqueRows /\ NoPurge
  /\ HeldRows /\ PayloadsOwn /\ OnePlaybook /\ QuarantineHolds

\* What an upsert leaves in the playbook table: each row's notes and choreography are the
\* stored ones of its family or the given ones.
LEMMA UpsertEffect ==
  ASSUME NEW table \in SUBSET Playbook, NEW f, NEW json, NEW notes,
         \A b, c \in table : b.family = c.family => b = c,
         NEW b \in UpsertPlaybook(table, f, json, notes, FALSE)
  PROVE  /\ b.notes = notes \/ \E c \in table : c.family = b.family /\ c.notes = b.notes
         /\ b.json = json \/ \E c \in table : c.family = b.family /\ c.json = b.json
         /\ \A d \in UpsertPlaybook(table, f, json, notes, FALSE) :
              d.family = b.family => d = b
  <1>1. CASE HasPlaybook(table, f)
    <2> DEFINE Image(c) == IF c.family = f THEN Upserted(c, json, notes, FALSE) ELSE c
    <2>1. UpsertPlaybook(table, f, json, notes, FALSE) = {Image(c) : c \in table}
      BY <1>1 DEF UpsertPlaybook
    <2>2. \A c \in table : /\ Image(c).family = c.family
                           /\ Image(c).notes = c.notes \/ Image(c).notes = notes
                           /\ Image(c).json = c.json \/ Image(c).json = json
      BY DEF Upserted, Playbook, PlaybookRows
    <2> HIDE DEF Image
    <2>3. PICK c \in table : b = Image(c)
      BY <2>1
    <2>4. ASSUME NEW d \in UpsertPlaybook(table, f, json, notes, FALSE), d.family = b.family
          PROVE  d = b
      <3>1. PICK e \in table : d = Image(e)
        BY <2>1
      <3>2. e = c
        BY <2>2, <2>3, <2>4, <3>1
      <3> QED BY <2>3, <3>1, <3>2
    <2> QED BY <2>2, <2>3, <2>4
  <1>2. CASE ~HasPlaybook(table, f)
    BY <1>2 DEF UpsertPlaybook, HasPlaybook
  <1> QED BY <1>1, <1>2

\* What an append leaves: rows as they were, and the row of the family with the mark after
\* its notes or alone.
Appended(b, table, f, mark) ==
  /\ b.family = f
  /\ \/ \E c \in table : c.family = f /\ b.json = c.json /\ b.notes = Append(c.notes, mark)
     \/ b.json = NoText /\ b.notes = <<mark>>

LEMMA AppendEffect ==
  ASSUME NEW table \in SUBSET Playbook, NEW f, NEW mark,
         \A b, c \in table : b.family = c.family => b = c,
         NEW b \in AppendNote(table, f, mark)
  PROVE  /\ b \in table \/ Appended(b, table, f, mark)
         /\ \A d \in AppendNote(table, f, mark) : d.family = b.family => d = b
  <1> USE DEF Appended
  <1>1. CASE HasPlaybook(table, f)
    <2> DEFINE Image(c) == IF c.family = f THEN [c EXCEPT !.notes = Append(@, mark)] ELSE c
    <2>1. AppendNote(table, f, mark) = {Image(c) : c \in table}
      BY <1>1 DEF AppendNote
    <2>2. \A c \in table :
            /\ Image(c).family = c.family
            /\ \/ Image(c) = c
               \/ /\ c.family = f /\ Image(c).json = c.json
                  /\ Image(c).notes = Append(c.notes, mark)
      BY DEF Playbook, PlaybookRows
    <2> HIDE DEF Image
    <2> QED BY <2>1, <2>2
  <1>2. CASE ~HasPlaybook(table, f)
    BY <1>2 DEF AppendNote, HasPlaybook
  <1> QED BY <1>1, <1>2

\* The row of sig allows its text to guide.
Vouched(sig) ==
  \E r \in cands : /\ r.sig = sig
                   /\ r.status = "confirmed" \/ (r.status = "rejected" /\ IsPlaybook(sig))

\* A table of playbooks carries text of sig in its notes or its choreography.
InNotes(b, sig) == \E i \in DOMAIN b.notes : b.notes[i] = sig
InJson(b, sig) == b.json # NoText /\ b.json # Agent /\ b.json.of = sig

LEMMA GuidanceIs ==
  \A sig : sig \in Guidance <=> sig \in Sigs /\ \E b \in playbooks : InNotes(b, sig) \/ InJson(b, sig)
  BY DEF Guidance, InNotes, InJson

\* No statement on the candidates alone disturbs the quarantine if it keeps the vouchers.
LEMMA RowsQuarantined ==
  ASSUME QuarantineHolds, OnePlaybook, UNCHANGED playbooks,
         \A sig \in Sigs : Vouched(sig) => Vouched(sig)'
  PROVE  QuarantineHolds' /\ OnePlaybook'
  BY DEF QuarantineHolds, OnePlaybook, Guidance, Vouched

\* An upsert of text that is vouched for, and of no flag correction, keeps the quarantine.
LEMMA UpsertQuarantined ==
  ASSUME playbooks \subseteq Playbook, QuarantineHolds, OnePlaybook,
         NEW f, NEW json, NEW notes,
         playbooks' = UpsertPlaybook(playbooks, f, json, notes, FALSE),
         \A sig \in Sigs : Vouched(sig) => Vouched(sig)',
         \A sig \in Sigs :
           (\E i \in DOMAIN notes : notes[i] = sig) \/ (json # NoText /\ json # Agent /\ json.of = sig)
             => Vouched(sig)' /\ sig \notin Aliases
  PROVE  QuarantineHolds' /\ OnePlaybook'
  <1>1. \A b, c \in playbooks : b.family = c.family => b = c
    BY DEF OnePlaybook
  <1>2. OnePlaybook'
    <2> SUFFICES ASSUME NEW b \in playbooks', NEW c \in playbooks', b.family = c.family
                 PROVE  b = c
      BY DEF OnePlaybook
    <2>1. playbooks \in SUBSET Playbook
      OBVIOUS
    <2> QED BY <1>1, <2>1, UpsertEffect
  <1>3. \A b \in playbooks' :
          /\ b.notes = notes \/ \E c \in playbooks : c.family = b.family /\ c.notes = b.notes
          /\ b.json = json \/ \E c \in playbooks : c.family = b.family /\ c.json = b.json
    BY <1>1, UpsertEffect
  <1>4. \A sig \in Guidance : Vouched(sig)
    BY DEF QuarantineHolds, Vouched
  <1>5. ASSUME NEW sig \in Sigs, NEW b \in playbooks', InNotes(b, sig) \/ InJson(b, sig)
        PROVE  Vouched(sig)'
    <2>0. \A c \in playbooks : InNotes(c, sig) \/ InJson(c, sig) => Vouched(sig)'
      BY <1>4, GuidanceIs
    <2>1. CASE InNotes(b, sig)
      <3>1. CASE b.notes = notes
        BY <2>1, <3>1 DEF InNotes
      <3>2. CASE \E c \in playbooks : c.notes = b.notes
        BY <2>0, <2>1, <3>2 DEF InNotes
      <3> QED BY <1>3, <3>1, <3>2
    <2>2. CASE InJson(b, sig)
      <3>1. CASE b.json = json
        BY <2>2, <3>1 DEF InJson
      <3>2. CASE \E c \in playbooks : c.json = b.json
        BY <2>0, <2>2, <3>2 DEF InJson
      <3> QED BY <1>3, <3>1, <3>2
    <2> QED BY <1>5, <2>1, <2>2
  <1>6. \A sig \in Guidance' : Vouched(sig)'
    BY <1>5 DEF Guidance, InNotes, InJson
  <1>8. \A sig \in Guidance' : \E r \in cands' :
          r.sig = sig /\ (r.status = "confirmed" \/ (r.status = "rejected" /\ IsPlaybook(sig)))
    BY <1>6 DEF Vouched
  <1>9. \A a \in Aliases, b, c \in playbooks' : \A i \in DOMAIN b.notes, j \in DOMAIN c.notes :
          b.notes[i] = a /\ c.notes[j] = a => b = c /\ i = j
    <2> TAKE a \in Aliases, b, c \in playbooks'
    <2> TAKE i \in DOMAIN b.notes, j \in DOMAIN c.notes
    <2> HAVE b.notes[i] = a /\ c.notes[j] = a
    <2>1. a \in Sigs /\ b.notes # notes /\ c.notes # notes
      <3>1. a \in Sigs
        BY DEF Sigs
      <3>2. ~ \E k \in DOMAIN notes : notes[k] = a
        BY <3>1
      <3> QED BY <3>1, <3>2
    <2>2. PICK d \in playbooks : d.family = b.family /\ d.notes = b.notes
      BY <1>3, <2>1
    <2>3. PICK e \in playbooks : e.family = c.family /\ e.notes = c.notes
      BY <1>3, <2>1
    <2>4. d = e /\ i = j
      BY <2>2, <2>3 DEF QuarantineHolds
    <2> QED BY <1>2, <2>2, <2>3, <2>4 DEF OnePlaybook
  <1>10. QuarantineHolds'
    BY <1>8, <1>9 DEF QuarantineHolds
  <1> QED BY <1>2, <1>10

\* Appending a mark that is vouched for, and was nowhere before if it is that of a flag
\* correction, keeps the quarantine.
LEMMA AppendQuarantined ==
  ASSUME playbooks \subseteq Playbook, QuarantineHolds, OnePlaybook,
         NEW f, NEW mark \in Sigs \cup {Agent},
         playbooks' = AppendNote(playbooks, f, mark),
         \A sig \in Sigs : Vouched(sig) => Vouched(sig)',
         mark \in Sigs => Vouched(mark)',
         mark \in Aliases => mark \notin Guidance
  PROVE  QuarantineHolds' /\ OnePlaybook'
  <1>1. \A b, c \in playbooks : b.family = c.family => b = c
    BY DEF OnePlaybook
  <1>2. OnePlaybook'
    <2> SUFFICES ASSUME NEW b \in playbooks', NEW c \in playbooks', b.family = c.family
                 PROVE  b = c
      BY DEF OnePlaybook
    <2>1. playbooks \in SUBSET Playbook
      OBVIOUS
    <2> QED BY <1>1, <2>1, AppendEffect
  <1>3. ASSUME NEW b \in playbooks', b \notin playbooks
        PROVE  /\ b.family = f
               /\ b.json = NoText \/ \E c \in playbooks : b.json = c.json
               /\ \A i \in DOMAIN b.notes :
                    \/ b.notes[i] = mark
                    \/ \E c \in playbooks : /\ c.family = f
                                            /\ i \in DOMAIN c.notes /\ c.notes[i] = b.notes[i]
               /\ \A i, j \in DOMAIN b.notes : b.notes[i] = mark /\ b.notes[j] = mark =>
                    i = j \/ \E c \in playbooks : InNotes(c, mark)
    <2>0. playbooks \in SUBSET Playbook
      OBVIOUS
    <2>1. CASE b.json = NoText /\ b.notes = <<mark>> /\ b.family = f
      BY <2>1
    <2>2. ASSUME NEW c \in playbooks, c.family = f, b.family = f, b.json = c.json,
                 b.notes = Append(c.notes, mark)
          PROVE  \A i \in DOMAIN b.notes :
                   \/ i = Len(c.notes) + 1 /\ b.notes[i] = mark
                   \/ i \in DOMAIN c.notes /\ c.notes[i] = b.notes[i]
      <3>1. c.notes \in Seq(Sigs \cup {Agent})
        BY DEF Playbook, PlaybookRows
      <3> QED BY <2>2, <3>1
    <2>3. ASSUME NEW c \in playbooks, c.family = f, b.family = f, b.json = c.json,
                 b.notes = Append(c.notes, mark)
          PROVE  \A i, j \in DOMAIN b.notes : b.notes[i] = mark /\ b.notes[j] = mark =>
                   i = j \/ InNotes(c, mark)
      BY <2>2, <2>3 DEF InNotes
    <2>4. CASE \E c \in playbooks : /\ c.family = f /\ b.family = f /\ b.json = c.json
                                   /\ b.notes = Append(c.notes, mark)
      BY <2>2, <2>3, <2>4
    <2>5. Appended(b, playbooks, f, mark)
      <3>1. b \in AppendNote(playbooks, f, mark)
        OBVIOUS
      <3> QED BY <1>1, <1>3, <2>0, <3>1, AppendEffect
    <2> QED BY <2>1, <2>4, <2>5 DEF Appended
  <1>4. \A sig \in Guidance : Vouched(sig)
    BY DEF QuarantineHolds, Vouched
  <1>5. ASSUME NEW sig \in Sigs, NEW b \in playbooks', InNotes(b, sig) \/ InJson(b, sig)
        PROVE  Vouched(sig)'
    <2>0. \A c \in playbooks : InNotes(c, sig) \/ InJson(c, sig) => Vouched(sig)'
      BY <1>4, GuidanceIs
    <2>1. CASE b \in playbooks
      BY <1>5, <2>0, <2>1
    <2>2. CASE b \notin playbooks /\ InNotes(b, sig)
      BY <1>3, <2>0, <2>2 DEF InNotes
    <2>3. CASE b \notin playbooks /\ InJson(b, sig)
      BY <1>3, <2>0, <2>3 DEF InJson
    <2> QED BY <1>5, <2>1, <2>2, <2>3
  <1>6. \A sig \in Guidance' : Vouched(sig)'
    BY <1>5 DEF Guidance, InNotes, InJson
  <1>7. ASSUME NEW a \in Aliases, NEW b \in playbooks', NEW c \in playbooks',
               NEW i \in DOMAIN b.notes, NEW j \in DOMAIN c.notes,
               b.notes[i] = a, c.notes[j] = a
        PROVE  b = c /\ i = j
    <2>0. a \in Sigs
      BY DEF Sigs
    <2>1. CASE a = mark
      <3>1. \A d \in playbooks : ~InNotes(d, mark)
        BY <2>0, <2>1, GuidanceIs
      <3>2. b.family = f /\ c.family = f
        BY <1>3, <1>7, <2>1, <3>1 DEF InNotes
      <3>3. b = c
        BY <1>2, <3>2 DEF OnePlaybook
      <3> QED BY <1>3, <1>7, <2>1, <3>1, <3>3 DEF InNotes
    <2>2. CASE a # mark
      <3>1. PICK d \in playbooks : d.family = b.family /\ i \in DOMAIN d.notes /\ d.notes[i] = a
        BY <1>3, <1>7, <2>2
      <3>2. PICK e \in playbooks : e.family = c.family /\ j \in DOMAIN e.notes /\ e.notes[j] = a
        BY <1>3, <1>7, <2>2
      <3>3. d = e /\ i = j
        BY <3>1, <3>2 DEF QuarantineHolds
      <3> QED BY <1>2, <3>1, <3>2, <3>3 DEF OnePlaybook
    <2> QED BY <2>1, <2>2
  <1>8. \A sig \in Guidance' : \E r \in cands' :
          r.sig = sig /\ (r.status = "confirmed" \/ (r.status = "rejected" /\ IsPlaybook(sig)))
    BY <1>6 DEF Vouched
  <1> QED BY <1>2, <1>7, <1>8 DEF QuarantineHolds

(***************************************************************************)
(* The statements on the candidates, under the invariant.                  *)
(***************************************************************************)

\* What a statement keeps: every row under its id and signature, payloads of their own
\* signature, and every voucher.
RowsKept ==
  /\ \A r \in cands : \E t \in cands' : t.id = r.id /\ t.sig = r.sig
  /\ \A t \in cands' : t.payload.of = t.sig
  /\ \A sig \in Sigs : Vouched(sig) => Vouched(sig)'

LEMMA NothingKept ==
  ASSUME PayloadsOwn, UNCHANGED cands
  PROVE  RowsKept
  BY DEF RowsKept, PayloadsOwn, Vouched

\* A row replaced by one that differs from it in its count or standing.
LEMMA ReplaceKept ==
  ASSUME PayloadsOwn, NEW r \in cands, NEW new, Replace(r, new),
         new.id = r.id, new.sig = r.sig, new.payload = r.payload,
         r.status = "confirmed" =>
           new.status = "confirmed" \/ (new.status = "rejected" /\ IsPlaybook(r.sig)),
         r.status = "rejected" => new.status = "rejected"
  PROVE  RowsKept
  BY DEF RowsKept, PayloadsOwn, Vouched, Replace

\* Confirming an open row keeps the others and vouches for its signature.
LEMMA ConfirmKept ==
  ASSUME cands \subseteq Row, PayloadsOwn, NEW r \in cands, r.status = "open", Confirm(r)
  PROVE  RowsKept /\ Vouched(r.sig)'
  <1>1. /\ Settled(r, "confirmed").id = r.id /\ Settled(r, "confirmed").sig = r.sig
        /\ Settled(r, "confirmed").payload = r.payload
        /\ Settled(r, "confirmed").status = "confirmed"
    BY SettledKeeps
  <1>2. RowsKept
    BY <1>1, ReplaceKept DEF Confirm
  <1>3. Settled(r, "confirmed") \in cands'
    BY DEF Confirm, Replace
  <1> QED BY <1>1, <1>2, <1>3 DEF Vouched

LEMMA UpsertCandidateKept ==
  ASSUME cands \subseteq Row, PayloadsOwn, NEW sig, NEW steps, NEW family,
         UpsertCandidate(sig, steps, family)
  PROVE  RowsKept
  <1>1. CASE UNCHANGED cands
    BY <1>1, NothingKept
  <1>2. CASE BumpRow(sig)
    <2>1. PICK r \in cands : r.sig = sig /\ Replace(r, Bumped(r))
      BY <1>2 DEF BumpRow
    <2>2. r.status # "expired" => Bumped(r).status = r.status
      BY DEF Bumped, Row
    <2> QED BY <2>1, <2>2, BumpedKeeps, ReplaceKept
  <1>3. CASE InsertRow(sig, steps, family)
    <2>1. PICK i \in Ids : cands' = cands \cup {NewRow(i, sig, steps, family)}
      BY <1>3 DEF InsertRow
    <2>2. NewRow(i, sig, steps, family).payload.of = NewRow(i, sig, steps, family).sig
      BY DEF NewRow
    <2> QED BY <2>1, <2>2 DEF RowsKept, PayloadsOwn, Vouched
  <1> QED BY <1>1, <1>2, <1>3 DEF UpsertCandidate

\* Under the invariant the open row a confirm finds is the row whose copy it holds.
LEMMA SameRow ==
  ASSUME SafeInv, NEW p \in Procs, NEW row \in job[p].seen, NEW r \in OpenRows(row.id)
  PROVE  /\ r \in cands /\ r.status = "open"
         /\ r.sig = row.sig /\ row.payload.of = r.sig /\ r.sig \in Sigs
  BY DEF SafeInv, HeldRows, UniqueRows, PayloadsOwn, OpenRows, TypeInv, TypeOK, Row

\* An open row means that no playbook carries text of its signature.
LEMMA OpenUnseen ==
  ASSUME SafeInv, NEW r \in cands, r.status = "open"
  PROVE  r.sig \notin Guidance
  BY DEF SafeInv, QuarantineHolds, UniqueRows

LEMMA PromoteSafe ==
  ASSUME SafeInv, NEW p \in Procs, NEW row \in job[p].seen, ConfirmWithPlaybook(row)
  PROVE  RowsKept /\ QuarantineHolds' /\ OnePlaybook'
  <1>0. /\ cands \subseteq Row /\ playbooks \subseteq Playbook
        /\ PayloadsOwn /\ QuarantineHolds /\ OnePlaybook
    BY DEF SafeInv, TypeInv, TypeOK
  <1>1. CASE UNCHANGED <<cands, playbooks>>
    BY <1>0, <1>1, NothingKept, RowsQuarantined DEF RowsKept
  <1>2. ASSUME NEW r \in OpenRows(row.id), IsPlaybook(r.sig), Confirm(r),
               playbooks' = UpsertPlaybook(playbooks, row.family, row.payload,
                                           NotesText(row.payload), FALSE)
        PROVE  RowsKept /\ QuarantineHolds' /\ OnePlaybook'
    <2>1. /\ r \in cands /\ r.status = "open" /\ r.sig \in Sigs
          /\ row.payload.of = r.sig
      BY SameRow
    <2>2. RowsKept /\ Vouched(r.sig)'
      BY <1>0, <1>2, <2>1, ConfirmKept
    <2>3. \A i \in DOMAIN NotesText(row.payload) : NotesText(row.payload)[i] = r.sig
      BY <2>1 DEF NotesText
    <2>4. r.sig \notin Aliases
      BY <1>2, ConstantsDistinct DEF IsPlaybook
    <2> DEFINE notes == NotesText(row.payload)
    <2>5. ASSUME NEW sig \in Sigs,
                 \/ \E i \in DOMAIN notes : notes[i] = sig
                 \/ row.payload # NoText /\ row.payload # Agent /\ row.payload.of = sig
          PROVE  Vouched(sig)' /\ sig \notin Aliases
      <3>1. sig = r.sig
        BY <2>1, <2>3, <2>5
      <3> QED BY <2>2, <2>4, <3>1
    <2>6. \A sig \in Sigs : Vouched(sig) => Vouched(sig)'
      BY <2>2 DEF RowsKept
    <2>7. playbooks' = UpsertPlaybook(playbooks, row.family, row.payload, notes, FALSE)
      BY <1>2
    <2> HIDE DEF notes
    <2> QED BY <1>0, <2>2, <2>5, <2>6, <2>7, UpsertQuarantined
  <1> QED BY <1>1, <1>2 DEF ConfirmWithPlaybook

LEMMA NoteSafe ==
  ASSUME SafeInv, NEW p \in Procs, NEW row \in job[p].seen, NEW f, ConfirmWithNote(row, f)
  PROVE  RowsKept /\ QuarantineHolds' /\ OnePlaybook'
  <1>0. /\ cands \subseteq Row /\ playbooks \subseteq Playbook
        /\ PayloadsOwn /\ QuarantineHolds /\ OnePlaybook
    BY DEF SafeInv, TypeInv, TypeOK
  <1>1. CASE UNCHANGED <<cands, playbooks>>
    BY <1>0, <1>1, NothingKept, RowsQuarantined DEF RowsKept
  <1>2. ASSUME NEW r \in OpenRows(row.id), Confirm(r),
               playbooks' = AppendNote(playbooks, f, row.payload.of)
        PROVE  RowsKept /\ QuarantineHolds' /\ OnePlaybook'
    <2>1. /\ r \in cands /\ r.status = "open" /\ r.sig \in Sigs
          /\ row.payload.of = r.sig
      BY SameRow
    <2>2. RowsKept /\ Vouched(r.sig)'
      BY <1>0, <1>2, <2>1, ConfirmKept
    <2>3. r.sig \notin Guidance
      BY <2>1, OpenUnseen
    <2>4. playbooks' = AppendNote(playbooks, f, r.sig)
      BY <1>2, <2>1
    <2> QED BY <1>0, <2>1, <2>2, <2>3, <2>4, AppendQuarantined DEF RowsKept
  <1> QED BY <1>1, <1>2 DEF ConfirmWithNote

(***************************************************************************)
(* The steps.                                                              *)
(***************************************************************************)

\* A step of p that keeps the rows and takes into its job only copies of rows it had or
\* reads now preserves the invariant.
LEMMA SafeJob ==
  ASSUME SafeInv, TypeInv', UniqueRows', RowsKept, QuarantineHolds', OnePlaybook',
         NEW p \in Procs, NEW j, job' = [job EXCEPT ![p] = j], j.pc # "purge",
         \A row \in j.seen : /\ row \in job[p].seen \/ \E r \in cands : row = CopyOf(r)
                             /\ j.pc = "refresh" => row.sig = j.fam
  PROVE  SafeInv'
  <1>1. job'[p] = j /\ \A q \in Procs : q # p => job'[q] = job[q]
    BY DEF SafeInv, TypeInv, TypeOK
  <1>2. \A row \in j.seen : /\ row.payload.of = row.sig
                            /\ \E r \in cands : r.id = row.id /\ r.sig = row.sig
    BY DEF SafeInv, HeldRows, PayloadsOwn, CopyOf
  <1>3. NoPurge'
    BY <1>1 DEF SafeInv, NoPurge
  <1>4. HeldRows'
    BY <1>1, <1>2 DEF SafeInv, HeldRows, RowsKept
  <1>5. PayloadsOwn'
    BY <1>1, <1>2 DEF SafeInv, PayloadsOwn, RowsKept
  <1> QED BY <1>3, <1>4, <1>5 DEF SafeInv

LEMMA SafeFrame ==
  ASSUME SafeInv, TypeInv', UniqueRows', RowsKept, QuarantineHolds', OnePlaybook', UNCHANGED job
  PROVE  SafeInv'
  BY DEF SafeInv, NoPurge, HeldRows, PayloadsOwn, RowsKept

\* Refreshing rows gives them a payload of their own signature.
LEMMA RefreshKept ==
  ASSUME SafeInv, NEW p \in Procs, SynthesizeRefresh(p)
  PROVE  RowsKept
  <1> DEFINE fresh == [of |-> job[p].fam, steps |-> job[p].steps]
             targets == UNION {OpenRows(row.id) : row \in job[p].seen}
  <1>1. \A r \in targets : r \in cands /\ r.sig = job[p].fam
    <2>1. ASSUME NEW row \in job[p].seen, NEW r \in OpenRows(row.id)
          PROVE  r \in cands /\ r.sig = job[p].fam
      BY SameRow DEF SafeInv, PayloadsOwn, SynthesizeRefresh
    <2> QED BY <2>1
  <1>2. cands' = (cands \ targets) \cup {[r EXCEPT !.payload = fresh] : r \in targets}
    BY DEF SynthesizeRefresh
  <1>3. fresh.of = job[p].fam
    OBVIOUS
  <1> HIDE DEF fresh, targets
  <1>4. \A r \in cands : LET t == [r EXCEPT !.payload = fresh]
                         IN  /\ t.id = r.id /\ t.sig = r.sig /\ t.status = r.status
                             /\ t.payload = fresh
    BY DEF SafeInv, TypeInv, TypeOK, Row
  <1>5. PayloadsOwn
    BY DEF SafeInv
  <1>6. ASSUME NEW r \in cands
        PROVE  \E t \in cands' : t.id = r.id /\ t.sig = r.sig /\ t.status = r.status
    BY <1>2, <1>4
  <1>7. ASSUME NEW t \in cands' PROVE t.payload.of = t.sig
    <2>1. CASE t \in cands
      BY <1>5, <2>1 DEF PayloadsOwn
    <2>2. ASSUME NEW r \in targets, t = [r EXCEPT !.payload = fresh] PROVE t.payload.of = t.sig
      BY <1>1, <1>3, <1>4, <2>2
    <2> QED BY <1>2, <2>1, <2>2
  <1> QED BY <1>6, <1>7 DEF RowsKept, Vouched

LEMMA SafeStep ==
  ASSUME SafeInv, TypeInv', UniqueRows', ~PurgeInUse, NEW p \in Procs, Step(p)
  PROVE  SafeInv'
  <1>0. /\ job[p] \in Job /\ cands \subseteq Row
        /\ PayloadsOwn /\ QuarantineHolds /\ OnePlaybook /\ job[p].pc # "purge"
        /\ Idle.pc = "idle" /\ Idle.seen = {}
    BY DEF SafeInv, TypeInv, TypeOK, NoPurge, Idle
  <1>rows. RowsKept /\ UNCHANGED playbooks => QuarantineHolds' /\ OnePlaybook'
    BY <1>0, RowsQuarantined DEF RowsKept
  <1>same. UNCHANGED <<cands, playbooks>> => RowsKept /\ QuarantineHolds' /\ OnePlaybook'
    BY <1>0, <1>rows, NothingKept
  <1>idle. ASSUME Finish(p), RowsKept, QuarantineHolds', OnePlaybook' PROVE SafeInv'
    BY <1>0, <1>idle, SafeJob DEF Finish
  <1>1. ASSUME NEW r \in cands, ConfirmShow(p, r) PROVE SafeInv'
    <2> DEFINE j == [job[p] EXCEPT !.pc = "shown", !.seen = {CopyOf(r)}]
    <2>1. job' = [job EXCEPT ![p] = j] /\ UNCHANGED <<cands, playbooks>>
      BY <1>1 DEF ConfirmShow
    <2>2. j.pc = "shown" /\ j.seen = {CopyOf(r)}
      BY <1>0 DEF Job
    <2> HIDE DEF j
    <2> QED BY <1>same, <2>1, <2>2, SafeJob
  <1>2. CASE ConfirmCommit(p)
    <2>1. \E row \in job[p].seen : \/ ConfirmWithPlaybook(row)
                                   \/ \E f : ConfirmWithNote(row, f)
      BY <1>2 DEF ConfirmCommit
    <2>2. RowsKept /\ QuarantineHolds' /\ OnePlaybook'
      BY <2>1, PromoteSafe, NoteSafe
    <2> QED BY <1>2, <1>idle, <2>2 DEF ConfirmCommit
  <1>3. CASE PurgeExpire(p) \/ \E t \in BOOLEAN : PurgeDelete(p, t)
    BY <1>0, <1>3 DEF PurgeExpire, PurgeDelete
  <1>4. ASSUME NEW f \in Families, PromoteList(p, f) PROVE SafeInv'
    <2> DEFINE listed == {CopyOf(r) : r \in {c \in cands :
                            c.status = "open" /\ IsPlaybook(c.sig) /\ c.family = f}}
               j == [job[p] EXCEPT !.pc = "promote", !.fam = f, !.seen = listed]
    <2>1. job' = [job EXCEPT ![p] = j] /\ UNCHANGED <<cands, playbooks>>
      BY <1>4 DEF PromoteList
    <2>2. \A row \in listed : \E r \in cands : row = CopyOf(r)
      OBVIOUS
    <2> HIDE DEF listed
    <2>3. j.pc = "promote" /\ j.seen = listed
      BY <1>0 DEF Job
    <2> HIDE DEF j
    <2> QED BY <1>same, <2>1, <2>2, <2>3, SafeJob
  <1>5. CASE PromoteNext(p)
    <2> DEFINE l == IF HasPlaybook(playbooks, job[p].fam) THEN "mark" ELSE "materialize"
               j == [job[p] EXCEPT !.pc = l]
    <2>1. job' = [job EXCEPT ![p] = j] /\ UNCHANGED <<cands, playbooks>>
      BY <1>5 DEF PromoteNext, Goto
    <2>2. j.pc \in {"mark", "materialize"} /\ j.seen = job[p].seen
      BY <1>0 DEF Job
    <2> HIDE DEF j
    <2> QED BY <1>same, <2>1, <2>2, SafeJob
  <1>6. CASE PromoteRow(p)
    <2>1. PICK row \in job[p].seen :
            /\ job' = [job EXCEPT ![p].pc = "promote", ![p].seen = @ \ {row}]
            /\ \/ ConfirmWithPlaybook(row)
               \/ UNCHANGED <<cands, playbooks>>
               \/ UNCHANGED playbooks /\ \E r \in OpenRows(row.id) : Confirm(r)
      BY <1>6 DEF PromoteRow
    <2>2. RowsKept /\ QuarantineHolds' /\ OnePlaybook'
      BY <1>0, <1>rows, <1>same, <2>1, PromoteSafe, ConfirmKept DEF OpenRows
    <2> DEFINE j == [job[p] EXCEPT !.pc = "promote", !.seen = @ \ {row}]
    <2>3. j.pc = "promote" /\ j.seen \subseteq job[p].seen
      BY <1>0 DEF Job
    <2>4. job' = [job EXCEPT ![p] = j]
      BY <2>1
    <2> HIDE DEF j
    <2> QED BY <2>2, <2>3, <2>4, SafeJob
  <1>7. ASSUME NEW steps \in 0 .. MaxSteps, SynthesizeGate(p, steps) PROVE SafeInv'
    <2>1. CASE Finish(p)
      BY <1>7, <1>idle, <1>same, <2>1 DEF SynthesizeGate
    <2>2. CASE ~Finish(p)
      <3> DEFINE j == [job[p] EXCEPT !.pc = "derive", !.steps = steps]
      <3>1. job' = [job EXCEPT ![p] = j] /\ UNCHANGED <<cands, playbooks>>
        BY <1>7, <2>2 DEF SynthesizeGate
      <3>2. j.pc = "derive" /\ j.seen = job[p].seen
        BY <1>0 DEF Job
      <3> HIDE DEF j
      <3> QED BY <1>same, <3>1, <3>2, SafeJob
    <2> QED BY <2>1, <2>2
  <1>8. CASE SynthesizeDerive(p)
    <2> DEFINE a == ~Tombstoned(job[p].fam)
               j == [job[p] EXCEPT !.pc = "readback", !.affected = a]
    <2>1. job' = [job EXCEPT ![p] = j] /\ UNCHANGED playbooks
      BY <1>8 DEF SynthesizeDerive
    <2>2. RowsKept
      BY <1>0, <1>8, UpsertCandidateKept DEF SynthesizeDerive
    <2> HIDE DEF a
    <2>3. j.pc = "readback" /\ j.seen = job[p].seen
      BY <1>0 DEF Job
    <2> HIDE DEF j
    <2> QED BY <1>rows, <2>1, <2>2, <2>3, SafeJob
  <1>9. CASE SynthesizeReadback(p)
    <2>1. CASE Finish(p)
      BY <1>9, <1>idle, <1>same, <2>1 DEF SynthesizeReadback
    <2>2. CASE ~Finish(p)
      <3> DEFINE held == {CopyOf(r) : r \in {c \in cands : Superseded(p, c)}}
                 j == [job[p] EXCEPT !.pc = "refresh", !.seen = held]
      <3>1. job' = [job EXCEPT ![p] = j] /\ UNCHANGED <<cands, playbooks>>
        BY <1>9, <2>2 DEF SynthesizeReadback
      <3>2. \A row \in held : /\ \E r \in cands : row = CopyOf(r)
                              /\ row.sig = job[p].fam
        BY DEF CopyOf, Superseded
      <3> HIDE DEF held
      <3>3. j.pc = "refresh" /\ j.seen = held /\ j.fam = job[p].fam
        BY <1>0 DEF Job
      <3> HIDE DEF j
      <3> QED BY <1>same, <3>1, <3>2, <3>3, SafeJob
    <2> QED BY <2>1, <2>2
  <1>10. CASE SynthesizeRefresh(p)
    BY <1>10, <1>idle, <1>rows, RefreshKept DEF SynthesizeRefresh
  <1>11. CASE Crash(p)
    BY <1>11, <1>idle, <1>same DEF Crash
  <1> QED
    BY <1>1, <1>2, <1>3, <1>4, <1>5, <1>6, <1>7, <1>8, <1>9, <1>10, <1>11 DEF Step

LEMMA SafeInit == Init => SafeInv
  <1> SUFFICES ASSUME Init PROVE SafeInv
    OBVIOUS
  <1>1. TypeInv
    BY TypeInit
  <1>2. \A p \in Procs : job[p].pc = "idle" /\ job[p].seen = {}
    BY DEF Init, Idle
  <1> QED BY <1>1, <1>2
      DEF Init, SafeInv, UniqueRows, NoPurge, HeldRows, PayloadsOwn, OnePlaybook,
          QuarantineHolds, Guidance

LEMMA SafeNext ==
  ASSUME ~PurgeInUse, SafeInv, [Next]_vars
  PROVE  SafeInv'
  <1>0. /\ TypeInv' /\ UniqueRows' /\ cands \subseteq Row /\ playbooks \subseteq Playbook
        /\ PayloadsOwn /\ QuarantineHolds /\ OnePlaybook
    BY TypeNext, UniqueNext DEF SafeInv, TypeInv, TypeOK
  <1>rows. RowsKept /\ UNCHANGED <<playbooks, job>> => SafeInv'
    BY <1>0, RowsQuarantined, SafeFrame DEF RowsKept
  <1>1. ASSUME NEW p \in Procs, Step(p) PROVE SafeInv'
    BY <1>0, <1>1, SafeStep
  <1>2. ASSUME NEW sig, NEW family, DeriveFlagAlias(sig, family) PROVE SafeInv'
    BY <1>0, <1>2, <1>rows, UpsertCandidateKept DEF DeriveFlagAlias
  <1>3. ASSUME NEW r \in cands, Age(r) PROVE SafeInv'
    <2> DEFINE t == [r EXCEPT !.stale = TRUE]
    <2>1. t.id = r.id /\ t.sig = r.sig /\ t.payload = r.payload /\ t.status = r.status
      BY <1>0 DEF Row
    <2>2. Replace(r, t) /\ UNCHANGED <<playbooks, job>>
      BY <1>3 DEF Age
    <2> HIDE DEF t
    <2> QED BY <1>0, <1>rows, <2>1, <2>2, ReplaceKept
  <1>4. ASSUME NEW r \in cands, Reject(r) PROVE SafeInv'
    <2>1. RowsKept
      BY <1>0, <1>4, SettledKeeps, ReplaceKept DEF Reject
    <2> QED BY <1>4, <1>rows, <2>1 DEF Reject
  <1>5. ASSUME NEW f \in Families, TeachPlaybook(f) PROVE SafeInv'
    <2>1. PICK json \in {NoText, Agent}, notes \in {<<>>, <<Agent>>} :
            playbooks' = UpsertPlaybook(playbooks, f, json, notes, FALSE)
      BY <1>5 DEF TeachPlaybook
    <2>2. \A sig \in Sigs : ~ \E i \in DOMAIN notes : notes[i] = sig
      BY ConstantsDistinct DEF Sigs
    <2>3. RowsKept /\ UNCHANGED job
      BY <1>0, <1>5, NothingKept DEF TeachPlaybook
    <2>4. QuarantineHolds' /\ OnePlaybook'
      BY <1>0, <2>1, <2>2, <2>3, UpsertQuarantined DEF RowsKept
    <2> QED BY <1>0, <2>3, <2>4, SafeFrame
  <1>6. ASSUME NEW f \in Families, Amend(f) PROVE SafeInv'
    <2>1. Agent \notin Sigs /\ Agent \notin Aliases
      BY ConstantsDistinct DEF Sigs
    <2>2. RowsKept /\ UNCHANGED job
      BY <1>0, <1>6, NothingKept DEF Amend
    <2>3. QuarantineHolds' /\ OnePlaybook'
      BY <1>0, <1>6, <2>1, <2>2, AppendQuarantined DEF RowsKept, Amend
    <2> QED BY <1>0, <2>2, <2>3, SafeFrame
  <1>7. CASE UNCHANGED vars
    BY <1>0, <1>7, <1>rows, NothingKept DEF vars
  <1> QED BY <1>1, <1>2, <1>3, <1>4, <1>5, <1>6, <1>7 DEF Next

\* While nobody purges, captured text guides an agent only if the row it came from was
\* confirmed, and a flag correction's note is written once, whatever number of processes
\* confirm, promote, reject, synthesise and die at any step.
THEOREM CaptureIsQuarantined ==
  ASSUME ~PurgeInUse
  PROVE  Spec => []QuarantineHolds
  <1>1. SafeInv => QuarantineHolds
    BY DEF SafeInv
  <1>2. SafeInv /\ [Next]_vars => SafeInv'
    BY SafeNext
  <1> QED BY <1>1, <1>2, SafeInit, PTL DEF Spec

\* While nobody purges, the row a confirm command marks has the signature of the row it
\* printed, for any number of commands in flight.
THEOREM ConfirmsTheShownRow ==
  ASSUME ~PurgeInUse
  PROVE  Spec => ConfirmsWhatItShowed
  <1> DEFINE Shown == \A p \in Procs : job[p].pc = "shown" /\ job'[p] = Idle =>
                        \A r \in cands : r.status = "open" /\ Settled(r, "confirmed") \in cands' =>
                          \E row \in job[p].seen : row.sig = r.sig
  <1>1. SafeInv /\ [Next]_vars => Shown
    <2> SUFFICES ASSUME SafeInv, [Next]_vars,
                        NEW p \in Procs, job[p].pc = "shown", job'[p] = Idle,
                        NEW r \in cands, r.status = "open", Settled(r, "confirmed") \in cands'
                 PROVE  \E row \in job[p].seen : row.sig = r.sig
      OBVIOUS
    <2>0. /\ cands \subseteq Row /\ UniqueRows /\ job \in [Procs -> Job]
          /\ job[p] # Idle /\ Idle.pc = "idle"
      BY DEF SafeInv, TypeInv, TypeOK, Idle
    <2>1. /\ Settled(r, "confirmed").id = r.id /\ Settled(r, "confirmed").status = "confirmed"
      BY <2>0, SettledKeeps
    <2>2. Settled(r, "confirmed") \notin cands
      BY <2>0, <2>1 DEF UniqueRows
    <2>3. Step(p)
      <3>1. \A q \in Procs : Step(q) /\ q # p => job'[p] = job[p]
        BY <2>0 DEF Step, ConfirmShow, ConfirmCommit, PurgeExpire, PurgeDelete, PromoteList,
             PromoteNext, PromoteRow, SynthesizeGate, SynthesizeDerive, SynthesizeReadback,
             SynthesizeRefresh, Crash, Finish, Goto
      <3>2. UNCHANGED job \/ \E q \in Procs : Step(q)
        BY DEF Next, vars, DeriveFlagAlias, Age, Reject, TeachPlaybook, Amend
      <3> QED BY <2>0, <3>1, <3>2
    <2>4. ConfirmCommit(p)
      BY <2>0, <2>2, <2>3 DEF Step, ConfirmShow, PurgeExpire, PurgeDelete, PromoteList,
           PromoteNext, PromoteRow, SynthesizeGate, SynthesizeDerive, SynthesizeReadback,
           SynthesizeRefresh, Crash
    <2>5. PICK row \in job[p].seen : UNCHANGED cands \/ \E t \in OpenRows(row.id) : Confirm(t)
      BY <2>4 DEF ConfirmCommit, ConfirmWithPlaybook, ConfirmWithNote
    <2>6. PICK t \in OpenRows(row.id) : cands' = (cands \ {t}) \cup {Settled(t, "confirmed")}
      BY <2>2, <2>5 DEF Confirm, Replace
    <2>7. t \in cands /\ t.sig = row.sig
      BY SameRow
    <2>8. Settled(t, "confirmed").id = t.id
      BY <2>0, <2>7, SettledKeeps
    <2>9. t = r
      BY <2>0, <2>1, <2>2, <2>6, <2>7, <2>8 DEF UniqueRows
    <2> QED BY <2>7, <2>9
  <1>2. SafeInv /\ [Next]_vars => SafeInv'
    BY SafeNext
  <1> QED BY <1>1, <1>2, SafeInit, PTL DEF Spec, ConfirmsWhatItShowed

================================================================================
