------------------------------ MODULE Playbooks ------------------------------
(***************************************************************************)
(* The learning_playbooks table of internal/store/playbooks.go: one row of *)
(* guidance per query family.  A table is a set of rows.  A row's json is  *)
(* the stored choreography or NoText; its notes_text is the sequence of    *)
(* pieces it was assembled from, <<>> when it is empty.                    *)
(***************************************************************************)
EXTENDS Sequences

CONSTANT NoText  \* the empty playbook_json

PlaybookRows(Families, Jsons, Pieces) ==
  [family : Families, json : Jsons \cup {NoText}, notes : Seq(Pieces)]

HasPlaybook(table, f) == \E b \in table : b.family = f

(***************************************************************************)
(* upsertPlaybookTx: an empty column of the caller leaves the stored one   *)
(* alone; preserve also keeps notes that are already there.                *)
(***************************************************************************)
Upserted(b, json, notes, preserve) ==
  [b EXCEPT !.json  = IF json = NoText THEN @ ELSE json,
            !.notes = IF notes = <<>> \/ (preserve /\ @ # <<>>) THEN @ ELSE notes]

UpsertPlaybook(table, f, json, notes, preserve) ==
  IF HasPlaybook(table, f)
  THEN {IF b.family = f THEN Upserted(b, json, notes, preserve) ELSE b : b \in table}
  ELSE table \cup {[family |-> f, json |-> json, notes |-> notes]}

(***************************************************************************)
(* appendPlaybookNotesTx: concatenate onto the notes in SQL, or insert a   *)
(* notes-only row.                                                         *)
(***************************************************************************)
AppendNote(table, f, marker) ==
  IF HasPlaybook(table, f)
  THEN {IF b.family = f THEN [b EXCEPT !.notes = Append(@, marker)] ELSE b : b \in table}
  ELSE table \cup {[family |-> f, json |-> NoText, notes |-> <<marker>>]}
=============================================================================
