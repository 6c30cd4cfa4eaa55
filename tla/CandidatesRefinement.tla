-------------------------- MODULE CandidatesRefinement --------------------------
(***************************************************************************)
(* Proof that the candidate table, with every command on it, implements    *)
(* CandidateQuarantine while nobody purges, and of what no step of any     *)
(* command does to its two tables.                                         *)
(***************************************************************************)
EXTENDS CandidatesProofs

--------------------------------------------------------------------------------
(***************************************************************************)
(* Each step is an observation, a judgment, a dismissal or an edit of      *)
(* CandidateQuarantine, or a stutter.                                      *)
(***************************************************************************)

(***************************************************************************)
(* Verdicts of a table C, which is cands or cands'.                        *)
(***************************************************************************)
UniqueIn(C) == \A r, t \in C : r.sig = t.sig => r = t

VerdictIn(C) == [sig \in Sigs |->
  IF \E r \in C : r.sig = sig THEN (CHOOSE r \in C : r.sig = sig).status ELSE "unknown"]

LEMMA VerdictOfRow ==
  ASSUME NEW C, UniqueIn(C), NEW r \in C, r.sig \in Sigs
  PROVE  VerdictIn(C)[r.sig] = r.status
  <1>1. (CHOOSE c \in C : c.sig = r.sig) = r
    BY DEF UniqueIn
  <1> QED BY <1>1 DEF VerdictIn

LEMMA VerdictOfNone ==
  ASSUME NEW C, NEW sig \in Sigs, \A r \in C : r.sig # sig
  PROVE  VerdictIn(C)[sig] = "unknown"
  BY DEF VerdictIn

\* Tables that agree on a signature give the same verdict on it.
LEMMA VerdictAgrees ==
  ASSUME NEW C, NEW D, UniqueIn(C), UniqueIn(D), NEW sig \in Sigs,
         \A r \in C : r.sig = sig => \E t \in D : t.sig = sig /\ t.status = r.status,
         \A t \in D : t.sig = sig => \E r \in C : r.sig = sig
  PROVE  VerdictIn(D)[sig] = VerdictIn(C)[sig]
  <1>1. CASE \E r \in C : r.sig = sig
    <2>1. PICK r \in C : r.sig = sig
      BY <1>1
    <2>2. PICK t \in D : t.sig = sig /\ t.status = r.status
      BY <2>1
    <2> QED BY <2>1, <2>2, VerdictOfRow
  <1>2. CASE \A r \in C : r.sig # sig
    BY <1>2, VerdictOfNone
  <1> QED BY <1>1, <1>2

\* A statement that changes the standing of one signature only.
LEMMA VerdictChange ==
  ASSUME NEW C, NEW D, UniqueIn(C), UniqueIn(D), NEW s \in Sigs, NEW t \in D, t.sig = s,
         \A r \in C : r.sig # s => \E u \in D : u.sig = r.sig /\ u.status = r.status,
         \A u \in D : u.sig # s => \E r \in C : r.sig = u.sig
  PROVE  VerdictIn(D) = [VerdictIn(C) EXCEPT ![s] = t.status]
  <1>1. VerdictIn(D)[s] = t.status
    BY VerdictOfRow
  <1>2. ASSUME NEW sig \in Sigs, sig # s PROVE VerdictIn(D)[sig] = VerdictIn(C)[sig]
    BY <1>2, VerdictAgrees
  <1>3. /\ VerdictIn(C) = [sig \in Sigs |-> VerdictIn(C)[sig]]
        /\ VerdictIn(D) = [sig \in Sigs |-> VerdictIn(D)[sig]]
    BY DEF VerdictIn
  <1> QED BY <1>1, <1>2, <1>3

\* A statement that changes no standing.
LEMMA VerdictSame ==
  ASSUME NEW C, NEW D, UniqueIn(C), UniqueIn(D),
         \A r \in C : \E u \in D : u.sig = r.sig /\ u.status = r.status,
         \A u \in D : \E r \in C : r.sig = u.sig
  PROVE  VerdictIn(D) = VerdictIn(C)
  <1>1. ASSUME NEW sig \in Sigs PROVE VerdictIn(D)[sig] = VerdictIn(C)[sig]
    <2>1. \A r \in C : r.sig = sig => \E t \in D : t.sig = sig /\ t.status = r.status
      OBVIOUS
    <2>2. \A t \in D : t.sig = sig => \E r \in C : r.sig = sig
      OBVIOUS
    <2> QED BY <2>1, <2>2, VerdictAgrees
  <1> QED BY <1>1 DEF VerdictIn

\* Replacing a row changes at most the verdict on its signature.
LEMMA ReplaceVerdict ==
  ASSUME cands \subseteq Row, UniqueRows, UniqueRows', NEW r \in cands, NEW new,
         new.sig = r.sig, Replace(r, new)
  PROVE  /\ VerdictIn(cands)[r.sig] = r.status
         /\ VerdictIn(cands') = [VerdictIn(cands) EXCEPT ![r.sig] = new.status]
         /\ r.sig \in Sigs
  <1>1. UniqueIn(cands) /\ UniqueIn(cands') /\ r.sig \in Sigs
    BY DEF UniqueRows, UniqueIn, Row
  <1>2. new \in cands'
    BY DEF Replace
  <1>3. \A c \in cands : c.sig # r.sig => c \in cands'
    BY DEF Replace
  <1>4. \A u \in cands' : u.sig # r.sig => u \in cands
    BY DEF Replace
  <1>5. VerdictIn(cands') = [VerdictIn(cands) EXCEPT ![r.sig] = new.status]
    BY <1>1, <1>2, <1>3, <1>4, VerdictChange
  <1> QED BY <1>1, <1>5, VerdictOfRow

(***************************************************************************)
(* How statements on the playbooks change the guidance.                    *)
(***************************************************************************)

\* An upsert adds only what the given text carries.
LEMMA UpsertGuidance ==
  ASSUME playbooks \subseteq Playbook, OnePlaybook, NEW f, NEW json, NEW notes, NEW S,
         playbooks' = UpsertPlaybook(playbooks, f, json, notes, FALSE),
         \A sig \in Sigs :
           (\E i \in DOMAIN notes : notes[i] = sig) \/ (json # NoText /\ json # Agent /\ json.of = sig)
             => sig \in S
  PROVE  Guidance' \subseteq Guidance \cup S
  <1>1. \A b \in playbooks' :
          /\ b.notes = notes \/ \E c \in playbooks : c.family = b.family /\ c.notes = b.notes
          /\ b.json = json \/ \E c \in playbooks : c.family = b.family /\ c.json = b.json
    <2>1. playbooks \in SUBSET Playbook /\ \A b, c \in playbooks : b.family = c.family => b = c
      BY DEF OnePlaybook
    <2> QED BY <2>1, UpsertEffect
  <1>2. ASSUME NEW sig \in Sigs, NEW b \in playbooks', InNotes(b, sig) \/ InJson(b, sig)
        PROVE  sig \in Guidance \cup S
    <2>0. \A c \in playbooks : InNotes(c, sig) \/ InJson(c, sig) => sig \in Guidance
      BY GuidanceIs
    <2>1. CASE InNotes(b, sig)
      <3>1. CASE b.notes = notes
        BY <2>1, <3>1 DEF InNotes
      <3>2. CASE \E c \in playbooks : c.notes = b.notes
        BY <2>0, <2>1, <3>2 DEF InNotes
      <3> QED BY <1>1, <3>1, <3>2
    <2>2. CASE InJson(b, sig)
      <3>1. CASE b.json = json
        BY <2>2, <3>1 DEF InJson
      <3>2. CASE \E c \in playbooks : c.json = b.json
        BY <2>0, <2>2, <3>2 DEF InJson
      <3> QED BY <1>1, <3>1, <3>2
    <2> QED BY <1>2, <2>1, <2>2
  <1> QED BY <1>2 DEF Guidance, InNotes, InJson

\* An append adds only its mark.
LEMMA AppendGuidance ==
  ASSUME playbooks \subseteq Playbook, OnePlaybook, NEW f, NEW mark \in Sigs \cup {Agent},
         playbooks' = AppendNote(playbooks, f, mark)
  PROVE  Guidance' \subseteq Guidance \cup {mark}
  <1>1. \A b \in playbooks' : b \in playbooks \/ Appended(b, playbooks, f, mark)
    <2>1. playbooks \in SUBSET Playbook /\ \A b, c \in playbooks : b.family = c.family => b = c
      BY DEF OnePlaybook
    <2> QED BY <2>1, AppendEffect
  <1>2. ASSUME NEW sig \in Sigs, NEW b \in playbooks', InNotes(b, sig) \/ InJson(b, sig),
               sig # mark
        PROVE  sig \in Guidance
    <2>0. \A c \in playbooks : InNotes(c, sig) \/ InJson(c, sig) => sig \in Guidance
      BY GuidanceIs
    <2>1. CASE b \in playbooks
      BY <1>2, <2>0, <2>1
    <2>2. CASE b.json = NoText /\ b.notes = <<mark>>
      BY <1>2, <2>2 DEF InNotes, InJson
    <2>3. ASSUME NEW c \in playbooks, b.json = c.json, b.notes = Append(c.notes, mark)
          PROVE  sig \in Guidance
      <3>1. c.notes \in Seq(Sigs \cup {Agent})
        BY DEF Playbook, PlaybookRows
      <3>2. InNotes(b, sig) => InNotes(c, sig)
        BY <1>2, <2>3, <3>1 DEF InNotes
      <3> QED BY <1>2, <2>0, <2>3, <3>2 DEF InJson
    <2> QED BY <1>1, <2>1, <2>2, <2>3 DEF Appended
  <1> QED BY <1>2 DEF Guidance, InNotes, InJson

(***************************************************************************)
(* Steps map to steps.                                                     *)
(***************************************************************************)

LEMMA VerdictIs == Verdict = VerdictIn(cands) /\ Verdict' = VerdictIn(cands')
  BY DEF Verdict, VerdictIn

\* Verdicts and guidance stay as they are.
LEMMA StutterMaps ==
  ASSUME cands \subseteq Row, UniqueRows, UniqueRows', UNCHANGED playbooks,
         \A r \in cands : \E u \in cands' : u.sig = r.sig /\ u.status = r.status,
         \A u \in cands' : \E r \in cands : r.sig = u.sig
  PROVE  UNCHANGED Q!vars
  <1>1. UniqueIn(cands) /\ UniqueIn(cands')
    BY DEF UniqueRows, UniqueIn
  <1>2. Verdict' = Verdict
    BY <1>1, VerdictSame, VerdictIs
  <1>3. Guidance' = Guidance
    BY DEF Guidance
  <1> QED BY <1>2, <1>3 DEF Q!vars

LEMMA ObserveMaps ==
  ASSUME cands \subseteq Row, UniqueRows, UniqueRows', NEW sig \in Sigs, NEW steps, NEW family,
         UpsertCandidate(sig, steps, family), UNCHANGED playbooks
  PROVE  Q!Next \/ UNCHANGED Q!vars
  <1>0. Guidance' = Guidance
    BY DEF Guidance
  <1>1. CASE UNCHANGED cands
    BY <1>1, StutterMaps
  <1>2. CASE BumpRow(sig)
    <2>1. PICK r \in cands : r.sig = sig /\ Replace(r, Bumped(r))
      BY <1>2 DEF BumpRow
    <2>2. Bumped(r).sig = sig /\ Bumped(r).status = IF r.status = "expired" THEN "open" ELSE r.status
      BY <2>1, BumpedKeeps DEF Bumped, Row
    <2>3. /\ Verdict[sig] = r.status
          /\ Verdict' = [Verdict EXCEPT ![sig] = Bumped(r).status]
      BY <2>1, <2>2, ReplaceVerdict, VerdictIs
    <2>4. CASE r.status = "expired"
      BY <1>0, <2>2, <2>3, <2>4 DEF Q!Next, Q!Observe
    <2>5. CASE r.status # "expired"
      <3>1. Verdict' = Verdict
        <4>1. Verdict = [s \in Sigs |-> Verdict[s]]
          BY DEF Verdict
        <4> QED BY <2>2, <2>3, <2>5, <4>1
      <3> QED BY <1>0, <3>1 DEF Q!vars
    <2> QED BY <2>4, <2>5
  <1>3. CASE InsertRow(sig, steps, family)
    <2>1. PICK i \in Ids : cands' = cands \cup {NewRow(i, sig, steps, family)}
      BY <1>3 DEF InsertRow
    <2> DEFINE new == NewRow(i, sig, steps, family)
    <2>2. new.sig = sig /\ new.status = "open"
      BY DEF NewRow
    <2> HIDE DEF new
    <2>3. UniqueIn(cands) /\ UniqueIn(cands') /\ new \in cands'
      BY <2>1 DEF UniqueRows, UniqueIn, new
    <2>4. \A r \in cands : r \in cands' /\ r.sig # sig
      BY <1>3, <2>1 DEF InsertRow
    <2>5. \A u \in cands' : u.sig # sig => u \in cands
      BY <2>1, <2>2 DEF new
    <2>6. Verdict' = [Verdict EXCEPT ![sig] = "open"]
      BY <2>2, <2>3, <2>4, <2>5, VerdictChange, VerdictIs
    <2>7. Verdict[sig] = "unknown"
      BY <2>4, VerdictOfNone, VerdictIs
    <2> QED BY <1>0, <2>6, <2>7 DEF Q!Next, Q!Observe
  <1> QED BY <1>1, <1>2, <1>3 DEF UpsertCandidate

\* Confirming an open row, with no guidance but its own added, is a judgment.
LEMMA JudgeMaps ==
  ASSUME cands \subseteq Row, UniqueRows, UniqueRows', NEW r \in cands, r.status = "open",
         Confirm(r), Guidance' \subseteq Guidance \cup {r.sig}
  PROVE  Q!Next
  <1>1. Settled(r, "confirmed").sig = r.sig /\ Settled(r, "confirmed").status = "confirmed"
    BY SettledKeeps
  <1>2. /\ Verdict[r.sig] = "open" /\ r.sig \in Sigs
        /\ Verdict' = [Verdict EXCEPT ![r.sig] = "confirmed"]
    BY <1>1, ReplaceVerdict, VerdictIs DEF Confirm
  <1> QED BY <1>2 DEF Q!Next, Q!Judge

LEMMA PromoteMaps ==
  ASSUME SafeInv, UniqueRows', NEW p \in Procs, NEW row \in job[p].seen,
         ConfirmWithPlaybook(row)
  PROVE  Q!Next \/ UNCHANGED Q!vars
  <1>0. cands \subseteq Row /\ playbooks \subseteq Playbook /\ UniqueRows /\ OnePlaybook
    BY DEF SafeInv, TypeInv, TypeOK
  <1>1. CASE UNCHANGED <<cands, playbooks>>
    BY <1>0, <1>1, StutterMaps
  <1>2. ASSUME NEW r \in OpenRows(row.id), Confirm(r),
               playbooks' = UpsertPlaybook(playbooks, row.family, row.payload,
                                           NotesText(row.payload), FALSE)
        PROVE  Q!Next
    <2>1. r \in cands /\ r.status = "open" /\ row.payload.of = r.sig
      BY SameRow
    <2> DEFINE notes == NotesText(row.payload)
    <2>2. \A i \in DOMAIN notes : notes[i] = r.sig
      BY <2>1 DEF NotesText
    <2>3. playbooks' = UpsertPlaybook(playbooks, row.family, row.payload, notes, FALSE)
      BY <1>2
    <2> HIDE DEF notes
    <2> DEFINE own == {r.sig}
    <2>4. \A sig \in Sigs :
            (\E i \in DOMAIN notes : notes[i] = sig)
              \/ (row.payload # NoText /\ row.payload # Agent /\ row.payload.of = sig)
            => sig \in own
      BY <2>1, <2>2
    <2> HIDE DEF own
    <2>5. Guidance' \subseteq Guidance \cup own
      BY <1>0, <2>3, <2>4, UpsertGuidance
    <2>6. Guidance' \subseteq Guidance \cup {r.sig}
      BY <2>5 DEF own
    <2> QED BY <1>0, <1>2, <2>1, <2>6, JudgeMaps
  <1> QED BY <1>1, <1>2 DEF ConfirmWithPlaybook

LEMMA NoteMaps ==
  ASSUME SafeInv, UniqueRows', NEW p \in Procs, NEW row \in job[p].seen, NEW f,
         ConfirmWithNote(row, f)
  PROVE  Q!Next \/ UNCHANGED Q!vars
  <1>0. cands \subseteq Row /\ playbooks \subseteq Playbook /\ UniqueRows /\ OnePlaybook
    BY DEF SafeInv, TypeInv, TypeOK
  <1>1. CASE UNCHANGED <<cands, playbooks>>
    BY <1>0, <1>1, StutterMaps
  <1>2. ASSUME NEW r \in OpenRows(row.id), Confirm(r),
               playbooks' = AppendNote(playbooks, f, row.payload.of)
        PROVE  Q!Next
    <2>1. r \in cands /\ r.status = "open" /\ row.payload.of = r.sig /\ r.sig \in Sigs
      BY SameRow
    <2>2. playbooks' = AppendNote(playbooks, f, r.sig)
      BY <1>2, <2>1
    <2>3. Guidance' \subseteq Guidance \cup {r.sig}
      BY <1>0, <2>1, <2>2, AppendGuidance
    <2> QED BY <1>0, <1>2, <2>1, <2>3, JudgeMaps
  <1> QED BY <1>1, <1>2 DEF ConfirmWithNote

\* Every step of the system is a step or a stutter of the quarantine.
LEMMA StepMaps ==
  ASSUME ~PurgeInUse, SafeInv, SafeInv', [Next]_vars
  PROVE  Q!Next \/ UNCHANGED Q!vars
  <1>0. /\ cands \subseteq Row /\ playbooks \subseteq Playbook /\ PayloadsOwn
        /\ UniqueRows /\ UniqueRows' /\ OnePlaybook
    BY DEF SafeInv, TypeInv, TypeOK
  <1>same. UNCHANGED <<cands, playbooks>> => UNCHANGED Q!vars
    BY <1>0, StutterMaps
  <1>rows. UNCHANGED playbooks => Guidance' \subseteq Guidance /\ Guidance' = Guidance
    BY DEF Guidance
  <1>1. ASSUME NEW p \in Procs, Step(p) PROVE Q!Next \/ UNCHANGED Q!vars
    <2>1. CASE \/ \E r \in cands : ConfirmShow(p, r)
               \/ \E f \in Families : PromoteList(p, f)
               \/ PromoteNext(p)
               \/ \E steps \in 0 .. MaxSteps : SynthesizeGate(p, steps)
               \/ SynthesizeReadback(p) \/ Crash(p)
      BY <2>1, <1>same
      DEF ConfirmShow, PromoteList, PromoteNext, SynthesizeGate, SynthesizeReadback, Crash
    <2>2. CASE ConfirmCommit(p)
      BY <2>2, <1>0, PromoteMaps, NoteMaps DEF ConfirmCommit
    <2>3. CASE PurgeExpire(p) \/ \E t \in BOOLEAN : PurgeDelete(p, t)
      BY <2>3 DEF PurgeExpire, PurgeDelete, SafeInv, NoPurge
    <2>4. CASE PromoteRow(p)
      <3>1. PICK row \in job[p].seen :
              \/ ConfirmWithPlaybook(row)
              \/ UNCHANGED <<cands, playbooks>>
              \/ UNCHANGED playbooks /\ \E r \in OpenRows(row.id) : Confirm(r)
        BY <2>4 DEF PromoteRow
      <3>2. ASSUME NEW r \in OpenRows(row.id), Confirm(r), UNCHANGED playbooks PROVE Q!Next
        BY <1>0, <1>rows, <3>2, JudgeMaps DEF OpenRows
      <3> QED BY <1>0, <1>same, <3>1, <3>2, PromoteMaps
    <2>5. CASE SynthesizeDerive(p)
      <3>1. job[p].fam \in Sigs
        BY <2>5 DEF SynthesizeDerive, SafeInv, TypeInv, TeachResolved, Sigs
      <3> QED BY <2>5, <1>0, <3>1, ObserveMaps DEF SynthesizeDerive
    <2>6. CASE SynthesizeRefresh(p)
      <3> DEFINE fresh == [of |-> job[p].fam, steps |-> job[p].steps]
      <3>1. PICK targets \in SUBSET cands :
              cands' = (cands \ targets) \cup {[r EXCEPT !.payload = fresh] : r \in targets}
        BY <2>6 DEF SynthesizeRefresh, OpenRows
      <3> HIDE DEF fresh
      <3>2. \A r \in cands : /\ [r EXCEPT !.payload = fresh].sig = r.sig
                             /\ [r EXCEPT !.payload = fresh].status = r.status
        BY <1>0 DEF Row
      <3>3. \A r \in cands : \E u \in cands' : u.sig = r.sig /\ u.status = r.status
        BY <3>1, <3>2
      <3>4. \A u \in cands' : \E r \in cands : r.sig = u.sig
        BY <3>1, <3>2
      <3>5. UNCHANGED playbooks
        BY <2>6 DEF SynthesizeRefresh
      <3> QED BY <1>0, <3>3, <3>4, <3>5, StutterMaps
    <2> QED BY <1>1, <2>1, <2>2, <2>3, <2>4, <2>5, <2>6 DEF Step
  <1>2. ASSUME NEW sig \in Aliases, NEW family, DeriveFlagAlias(sig, family)
        PROVE  Q!Next \/ UNCHANGED Q!vars
    BY <1>0, <1>2, ObserveMaps DEF DeriveFlagAlias, Sigs
  <1>3. ASSUME NEW r \in cands, Age(r) PROVE UNCHANGED Q!vars
    <2> DEFINE t == [r EXCEPT !.stale = TRUE]
    <2>1. t.sig = r.sig /\ t.status = r.status
      BY <1>0 DEF Row
    <2>2. cands' = (cands \ {r}) \cup {t} /\ UNCHANGED playbooks
      BY <1>3 DEF Age, Replace
    <2> HIDE DEF t
    <2>3. \A c \in cands : \E u \in cands' : u.sig = c.sig /\ u.status = c.status
      BY <2>1, <2>2
    <2>4. \A u \in cands' : \E c \in cands : c.sig = u.sig
      BY <2>1, <2>2
    <2> QED BY <1>0, <2>2, <2>3, <2>4, StutterMaps
  <1>4. ASSUME NEW r \in cands, Reject(r) PROVE Q!Next
    <2>1. Settled(r, "rejected").sig = r.sig /\ Settled(r, "rejected").status = "rejected"
      BY <1>0, SettledKeeps
    <2>2. /\ Verdict[r.sig] = r.status /\ r.sig \in Sigs
          /\ Verdict' = [Verdict EXCEPT ![r.sig] = "rejected"]
      BY <1>0, <1>4, <2>1, ReplaceVerdict, VerdictIs DEF Reject
    <2> QED BY <1>4, <1>rows, <2>2 DEF Reject, IsPlaybook, Q!Next, Q!Dismiss
  <1>5. ASSUME NEW f \in Families, TeachPlaybook(f) PROVE Q!Next
    <2>1. PICK json \in {NoText, Agent}, notes \in {<<>>, <<Agent>>} :
            playbooks' = UpsertPlaybook(playbooks, f, json, notes, FALSE)
      BY <1>5 DEF TeachPlaybook
    <2>2. \A sig \in Sigs : ~ \E i \in DOMAIN notes : notes[i] = sig
      BY ConstantsDistinct DEF Sigs
    <2>3. Guidance' \subseteq Guidance \cup {}
      BY <1>0, <2>1, <2>2, UpsertGuidance
    <2>4. Verdict' = Verdict
      BY <1>5 DEF TeachPlaybook, Verdict
    <2> QED BY <2>3, <2>4 DEF Q!Next, Q!Edit
  <1>6. ASSUME NEW f \in Families, Amend(f) PROVE Q!Next
    <2>1. Agent \notin Sigs
      BY ConstantsDistinct DEF Sigs
    <2>2. Guidance' \subseteq Guidance \cup {Agent} /\ Guidance' \subseteq Sigs
      BY <1>0, <1>6, AppendGuidance DEF Amend, Guidance
    <2>3. Verdict' = Verdict
      BY <1>6 DEF Amend, Verdict
    <2> QED BY <2>1, <2>2, <2>3 DEF Q!Next, Q!Edit
  <1>7. CASE UNCHANGED vars
    BY <1>7, <1>same DEF vars
  <1> QED BY <1>1, <1>2, <1>3, <1>4, <1>5, <1>6, <1>7 DEF Next

LEMMA InitMaps == Init => Q!Init
  BY DEF Init, Q!Init, Verdict, Guidance

\* While nobody purges, the candidate table and every command on it implement the
\* quarantine: guidance comes into being in judgments of open signatures only.
THEOREM TableImplementsQuarantine ==
  ASSUME ~PurgeInUse
  PROVE  Spec => ImplementsQuarantine
  <1>1. SafeInv /\ SafeInv' /\ [Next]_vars => [Q!Next]_(Q!vars)
    BY StepMaps
  <1>2. SafeInv /\ [Next]_vars => SafeInv'
    BY SafeNext
  <1> QED BY <1>1, <1>2, SafeInit, InitMaps, PTL DEF Spec, ImplementsQuarantine, Q!Spec

--------------------------------------------------------------------------------
(***************************************************************************)
(* What no step of any command does to the two tables, purges included: it *)
(* does not touch a tombstone, delete an open row, or add captured text    *)
(* without confirming a row.                                               *)
(***************************************************************************)

(***************************************************************************)
(* The rows.                                                               *)
(***************************************************************************)

\* What every statement but the second of a purge does to the rows.
RowsStand ==
  /\ \A r \in cands : r.status = "rejected" => r \in cands'
  /\ \A r \in cands : \E t \in cands' : t.id = r.id /\ t.sig = r.sig

\* A row that is no tombstone is replaced by one with its id and signature.
LEMMA ReplaceStands ==
  ASSUME NEW r \in cands, r.status # "rejected",
         NEW new, new.id = r.id, new.sig = r.sig, Replace(r, new)
  PROVE  RowsStand
  BY DEF RowsStand, Replace

\* Settling a row that is no tombstone.
LEMMA SettleStands ==
  ASSUME cands \subseteq Row, NEW r \in cands, r.status # "rejected", NEW status,
         Replace(r, Settled(r, status))
  PROVE  RowsStand
  BY ReplaceStands, SettledKeeps

\* An observation drops, bumps or inserts, and bumps no tombstone.
LEMMA UpsertCandidateStands ==
  ASSUME cands \subseteq Row, NEW sig, NEW steps, NEW family, UpsertCandidate(sig, steps, family)
  PROVE  RowsStand
  <1>1. CASE UNCHANGED cands
    BY <1>1 DEF RowsStand
  <1>2. CASE ~Tombstoned(sig) /\ BumpRow(sig)
    <2>1. PICK r \in cands : r.sig = sig /\ Replace(r, Bumped(r))
      BY <1>2 DEF BumpRow
    <2>2. r.status # "rejected"
      BY <1>2, <2>1 DEF Tombstoned
    <2> QED BY <2>1, <2>2, BumpedKeeps, ReplaceStands
  <1>3. CASE InsertRow(sig, steps, family)
    BY <1>3 DEF InsertRow, RowsStand
  <1> QED BY <1>1, <1>2, <1>3 DEF UpsertCandidate

\* A confirm transaction settles an open row or nothing.
LEMMA ConfirmStands ==
  ASSUME cands \subseteq Row, NEW row, NEW f,
         ConfirmWithPlaybook(row) \/ ConfirmWithNote(row, f)
  PROVE  RowsStand
  <1>1. UNCHANGED cands \/ \E r \in cands : r.status = "open" /\ Replace(r, Settled(r, "confirmed"))
    BY DEF ConfirmWithPlaybook, ConfirmWithNote, Confirm, OpenRows
  <1>2. CASE UNCHANGED cands
    BY <1>2 DEF RowsStand
  <1> QED BY <1>1, <1>2, SettleStands

\* A step of a process, purges included.
LEMMA StepStands ==
  ASSUME cands \subseteq Row, NEW p \in Procs, Step(p)
  PROVE  RowsStand \/ \E t \in BOOLEAN : PurgeDelete(p, t)
  <1>same. UNCHANGED cands => RowsStand
    BY DEF RowsStand
  <1>1. CASE \/ \E r \in cands : ConfirmShow(p, r)
             \/ \E f \in Families : PromoteList(p, f)
             \/ PromoteNext(p)
             \/ \E steps \in 0 .. MaxSteps : SynthesizeGate(p, steps)
             \/ SynthesizeReadback(p) \/ Crash(p)
    BY <1>1, <1>same
    DEF ConfirmShow, PromoteList, PromoteNext, SynthesizeGate, SynthesizeReadback, Crash
  <1>2. CASE ConfirmCommit(p)
    BY <1>2, ConfirmStands DEF ConfirmCommit
  <1>3. CASE PurgeExpire(p)
    <2> DEFINE Swept(r) == IF r.status = "open" /\ r.stale THEN Settled(r, "expired") ELSE r
    <2>1. cands' = {Swept(r) : r \in cands}
      BY <1>3 DEF PurgeExpire
    <2>2. \A r \in cands : /\ Swept(r).id = r.id /\ Swept(r).sig = r.sig
                           /\ r.status = "rejected" => Swept(r) = r
      BY SettledKeeps
    <2> HIDE DEF Swept
    <2> QED BY <2>1, <2>2 DEF RowsStand
  <1>4. CASE PromoteRow(p)
    <2>1. \/ \E row \in job[p].seen : ConfirmWithPlaybook(row)
          \/ UNCHANGED cands
          \/ \E r \in cands : r.status = "open" /\ Replace(r, Settled(r, "confirmed"))
      BY <1>4 DEF PromoteRow, OpenRows, Confirm
    <2> QED BY <2>1, <1>same, ConfirmStands, SettleStands
  <1>5. CASE SynthesizeDerive(p)
    BY <1>5, UpsertCandidateStands DEF SynthesizeDerive
  <1>6. CASE SynthesizeRefresh(p)
    <2>1. PICK targets \in SUBSET {r \in cands : r.status = "open"} :
            cands' = (cands \ targets) \cup
              {[r EXCEPT !.payload = [of |-> job[p].fam, steps |-> job[p].steps]] : r \in targets}
      BY <1>6 DEF SynthesizeRefresh, OpenRows
    <2>2. \A r \in cands : r \notin targets => r \in cands'
      BY <2>1
    <2>3. ASSUME NEW r \in targets PROVE \E t \in cands' : t.id = r.id /\ t.sig = r.sig
      <3> DEFINE t == [r EXCEPT !.payload = [of |-> job[p].fam, steps |-> job[p].steps]]
      <3>1. t \in cands'
        BY <2>1
      <3>2. t.id = r.id /\ t.sig = r.sig
        BY <2>1 DEF Row
      <3> HIDE DEF t
      <3> QED BY <3>1, <3>2
    <2> QED BY <2>2, <2>3 DEF RowsStand
  <1> QED BY <1>1, <1>2, <1>3, <1>4, <1>5, <1>6 DEF Step

\* A step of the specification.
LEMMA NextStands ==
  ASSUME TypeInv, [Next]_vars
  PROVE  RowsStand \/ \E p \in Procs, t \in BOOLEAN : PurgeDelete(p, t)
  <1>0. cands \subseteq Row
    BY DEF TypeInv, TypeOK
  <1>same. UNCHANGED cands => RowsStand
    BY DEF RowsStand
  <1>1. ASSUME NEW p \in Procs, Step(p)
        PROVE  RowsStand \/ \E t \in BOOLEAN : PurgeDelete(p, t)
    BY <1>0, <1>1, StepStands
  <1>2. ASSUME NEW sig \in Aliases, NEW family \in Families \cup {NoFamily},
               DeriveFlagAlias(sig, family)
        PROVE  RowsStand
    BY <1>0, <1>2, UpsertCandidateStands DEF DeriveFlagAlias
  <1>3. ASSUME NEW r \in cands, Age(r) PROVE RowsStand
    <2>1. [r EXCEPT !.stale = TRUE].id = r.id /\ [r EXCEPT !.stale = TRUE].sig = r.sig
      BY <1>0 DEF Row
    <2> QED BY <1>3, <2>1, ReplaceStands DEF Age
  <1>4. ASSUME NEW r \in cands, Reject(r) PROVE RowsStand
    BY <1>0, <1>4, SettleStands DEF Reject
  <1>5. ASSUME NEW f \in Families, TeachPlaybook(f) \/ Amend(f) PROVE RowsStand
    BY <1>5, <1>same DEF TeachPlaybook, Amend
  <1>6. CASE UNCHANGED vars
    BY <1>6, <1>same DEF vars
  <1> QED BY <1>1, <1>2, <1>3, <1>4, <1>5, <1>6 DEF Next

\* Whatever else runs, a rejected row stays as it is until the second statement of a purge
\* (DeriveCandidate's WHERE status != 'rejected', and the status checks of every other statement).
THEOREM TombstonesStay == Spec => TombstonesHold
  <1> DEFINE Holds == \A r \in cands : r.status = "rejected" =>
                        \/ r \in cands'
                        \/ \E p \in Procs : job[p].pc = "purge" /\ job'[p] = Idle
  <1>1. TypeInv /\ [Next]_vars => [Holds]_vars
    <2> SUFFICES ASSUME TypeInv, [Next]_vars PROVE Holds
      OBVIOUS
    <2>1. CASE RowsStand
      BY <2>1 DEF RowsStand
    <2>2. ASSUME NEW p \in Procs, NEW t \in BOOLEAN, PurgeDelete(p, t) PROVE Holds
      <3>1. job[p].pc = "purge" /\ job'[p] = Idle
        BY <2>2 DEF PurgeDelete, Finish, TypeInv, TypeOK
      <3> QED BY <3>1
    <2> HIDE DEF Holds
    <2> QED BY <2>1, <2>2, NextStands
  <1> QED BY <1>1, TypeInit, TypeNext, PTL DEF Spec, TombstonesHold

\* No interleaving of purges with the commands that reopen rows deletes an open one.
THEOREM OpenRowsStay == Spec => OpenRowsSurvive
  <1> DEFINE Survive == \A r \in cands : r.status = "open" =>
                          \E t \in cands' : t.id = r.id /\ t.sig = r.sig
  <1>1. TypeInv /\ [Next]_vars => [Survive]_vars
    <2> SUFFICES ASSUME TypeInv, [Next]_vars PROVE Survive
      OBVIOUS
    <2>1. CASE RowsStand
      BY <2>1 DEF RowsStand
    <2>2. ASSUME NEW p \in Procs, NEW t \in BOOLEAN, PurgeDelete(p, t) PROVE Survive
      BY <2>2 DEF PurgeDelete, PurgedStatuses
    <2> HIDE DEF Survive
    <2> QED BY <2>1, <2>2, NextStands
  <1> QED BY <1>1, TypeInit, TypeNext, PTL DEF Spec, OpenRowsSurvive

(***************************************************************************)
(* The playbooks.                                                          *)
(***************************************************************************)

\* This step confirms an open row.
Confirms == \E r \in cands : r.status = "open" /\ Settled(r, "confirmed") \in cands'

\* What a step does to the playbooks: nothing, or one upsert or one append, of the agent's own
\* text unless the step confirms a row.
BooksChange ==
  \/ UNCHANGED playbooks
  \/ \E f, json, notes :
       /\ playbooks' = UpsertPlaybook(playbooks, f, json, notes, FALSE)
       /\ Confirms \/ (json \in {NoText, Agent} /\ notes \in {<<>>, <<Agent>>})
  \/ \E f, mark :
       /\ playbooks' = AppendNote(playbooks, f, mark)
       /\ Confirms \/ mark = Agent

\* A confirm transaction writes both tables or neither.
LEMMA ConfirmBooks ==
  ASSUME NEW row, NEW f, ConfirmWithPlaybook(row) \/ ConfirmWithNote(row, f)
  PROVE  BooksChange
  <1>1. ASSUME NEW r \in cands, r.status = "open", Confirm(r) PROVE Confirms
    BY <1>1 DEF Confirm, Replace, Confirms
  <1>2. CASE ConfirmWithPlaybook(row)
    BY <1>1, <1>2 DEF ConfirmWithPlaybook, OpenRows, BooksChange
  <1>3. CASE ConfirmWithNote(row, f)
    BY <1>1, <1>3 DEF ConfirmWithNote, OpenRows, BooksChange
  <1> QED BY <1>2, <1>3

\* A step of the specification.
LEMMA NextBooks == ASSUME [Next]_vars PROVE BooksChange
  <1>same. UNCHANGED playbooks => BooksChange
    BY DEF BooksChange
  <1>1. ASSUME NEW p \in Procs, Step(p) PROVE BooksChange
    <2>1. CASE ConfirmCommit(p)
      BY <2>1, ConfirmBooks DEF ConfirmCommit
    <2>2. CASE PromoteRow(p)
      BY <2>2, <1>same, ConfirmBooks DEF PromoteRow
    <2>3. UNCHANGED playbooks \/ ConfirmCommit(p) \/ PromoteRow(p)
      BY <1>1 DEF Step, ConfirmShow, PurgeExpire, PurgeDelete, PromoteList, PromoteNext,
           SynthesizeGate, SynthesizeDerive, SynthesizeReadback, SynthesizeRefresh, Crash
    <2> QED BY <2>1, <2>2, <2>3, <1>same
  <1>2. ASSUME NEW f \in Families, TeachPlaybook(f) PROVE BooksChange
    BY <1>2 DEF TeachPlaybook, BooksChange
  <1>3. ASSUME NEW f \in Families, Amend(f) PROVE BooksChange
    BY <1>3 DEF Amend, BooksChange
  <1>4. ASSUME NEW sig \in Aliases, NEW family \in Families \cup {NoFamily},
               DeriveFlagAlias(sig, family)
        PROVE  BooksChange
    BY <1>4, <1>same DEF DeriveFlagAlias
  <1>5. ASSUME NEW r \in cands, Age(r) \/ Reject(r) PROVE BooksChange
    BY <1>5, <1>same DEF Age, Reject
  <1>6. CASE UNCHANGED vars
    BY <1>6, <1>same DEF vars
  <1> QED BY <1>1, <1>2, <1>3, <1>4, <1>5, <1>6 DEF Next

\* A family keeps one playbook.
LEMMA OnePlaybookNext == TypeInv /\ OnePlaybook /\ [Next]_vars => OnePlaybook'
  <1> SUFFICES ASSUME TypeInv, OnePlaybook, [Next]_vars PROVE OnePlaybook'
    OBVIOUS
  <1>0. playbooks \in SUBSET Playbook /\ \A b, c \in playbooks : b.family = c.family => b = c
    BY DEF TypeInv, TypeOK, OnePlaybook
  <1>1. CASE UNCHANGED playbooks
    BY <1>1 DEF OnePlaybook
  <1>2. ASSUME NEW f, NEW json, NEW notes,
               playbooks' = UpsertPlaybook(playbooks, f, json, notes, FALSE)
        PROVE  OnePlaybook'
    BY <1>0, <1>2, UpsertEffect DEF OnePlaybook
  <1>3. ASSUME NEW f, NEW mark, playbooks' = AppendNote(playbooks, f, mark)
        PROVE  OnePlaybook'
    BY <1>0, <1>3, AppendEffect DEF OnePlaybook
  <1>4. BooksChange
    BY NextBooks
  <1> QED BY <1>1, <1>2, <1>3, <1>4 DEF BooksChange

\* The agent's own text is no captured text.
LEMMA AgentAddsNothing ==
  ASSUME playbooks \subseteq Playbook, OnePlaybook, BooksChange, ~Confirms
  PROVE  Guidance' \subseteq Guidance
  <1>0. Agent \notin Sigs
    BY ConstantsDistinct DEF Sigs
  <1>1. CASE UNCHANGED playbooks
    BY <1>1 DEF Guidance
  <1>2. ASSUME NEW f, NEW json \in {NoText, Agent}, NEW notes \in {<<>>, <<Agent>>},
               playbooks' = UpsertPlaybook(playbooks, f, json, notes, FALSE)
        PROVE  Guidance' \subseteq Guidance
    <2>1. \A sig \in Sigs :
            (\E i \in DOMAIN notes : notes[i] = sig)
              \/ (json # NoText /\ json # Agent /\ json.of = sig) => sig \in {}
      BY <1>0, <1>2
    <2>2. Guidance' \subseteq Guidance \cup {}
      BY <1>2, <2>1, UpsertGuidance
    <2> QED BY <2>2
  <1>3. ASSUME NEW f, playbooks' = AppendNote(playbooks, f, Agent)
        PROVE  Guidance' \subseteq Guidance
    <2>1. Guidance' \subseteq Guidance \cup {Agent}
      BY <1>3, AppendGuidance
    <2> QED BY <1>0, <2>1 DEF Guidance
  <1> QED BY <1>1, <1>2, <1>3 DEF BooksChange

\* Wherever a process stops and whatever a transaction finds, captured text is added to the
\* playbooks only by the transaction that confirms a row (ConfirmCandidateWithPlaybook,
\* ConfirmCandidateWithPlaybookNote).
THEOREM PromotesAtomically == Spec => PromotionIsAtomic
  <1> DEFINE Atomic == ~(Guidance' \subseteq Guidance) =>
                         \E r \in cands : r.status = "open" /\ Settled(r, "confirmed") \in cands'
  <1>1. TypeInv /\ OnePlaybook /\ [Next]_vars => [Atomic]_vars
    <2> SUFFICES ASSUME TypeInv, OnePlaybook, [Next]_vars PROVE Atomic
      OBVIOUS
    <2>1. playbooks \subseteq Playbook
      BY DEF TypeInv, TypeOK
    <2>2. ~Confirms => Guidance' \subseteq Guidance
      BY <2>1, NextBooks, AgentAddsNothing
    <2> QED BY <2>2 DEF Confirms
  <1>2. Init => OnePlaybook
    BY DEF Init, OnePlaybook
  <1> QED BY <1>1, <1>2, TypeInit, TypeNext, OnePlaybookNext, PTL DEF Spec, PromotionIsAtomic

================================================================================
