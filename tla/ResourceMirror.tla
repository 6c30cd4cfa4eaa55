---------------------------- MODULE ResourceMirror ----------------------------
(***************************************************************************)
(* The local copy of what the server lists (internal/store/store.go,       *)
(* internal/cli/data_source.go, paginatedGet of helpers.go).  A live       *)
(* answer is written through to the store; a sync enumerates one partition *)
(* page by page, stores what it got and sweeps what it did not see.        *)
(*                                                                         *)
(* A row is keyed by its id: this program names no resource whose rows     *)
(* have the parent in their key (resourceParentKeyColumns is empty), and   *)
(* of an item that two parents list the one written last stays.  The       *)
(* full-text entry is written and deleted in the same transaction and      *)
(* stays out of the model, as do typed tables and junctions, of which this *)
(* program registers none.                                                 *)
(* The sync that calls these functions is no command of this program: it   *)
(* does what ReconcilePartition asks of its caller, to pass only a         *)
(* complete enumeration.                                                   *)
(***************************************************************************)
EXTENDS Integers, SequencesExt

CONSTANTS
  Ids, Parents,
  PageSize,    \* the server honours the limit it is sent
  MaxPages,    \* paginatedGetMaxPages
  Lookups,     \* processes that read
  MaxChanges   \* changes at the server

ASSUME MirrorAssumption ==
  /\ IsFiniteSet(Ids)
  /\ PageSize \in Nat \ {0} /\ MaxPages \in Nat \ {0} /\ MaxChanges \in Nat

VARIABLES
  remote,   \* remote[a]: the ids the server lists for parent a, in order
  rows,     \* resources: <<id, the parent that its data name>>
  sync,     \* the sync at work
  lookup,   \* lookup[p]: the rows of an answer that p has not written through yet
  changes   \* changes at the server so far

mirrorVars == <<remote, rows, sync, lookup, changes>>

Rows == Ids \X Parents
OneEach(set) == \A r, s \in set : r[1] = s[1] => r = s
IdsOf(set) == {r[1] : r \in set}

\* How the endpoint of a resource is declared to say that there is another page, and what an
\* answer is: with that signal, a bare array, or without a signal that can be read.
Signals == {"full page", "has_more", "has_more without cursor", "cursor"}
Forms == {"declared", "array", "other"}

\* For the properties: what the server listed when the enumeration began, whether it has removed
\* nothing since, and whether every answer had its items and its signal where they are declared.
SyncState == [pc : {"page", "store", "sweep"}, parent : Parents, signal : Signals, offset : Nat,
              page : 1 .. MaxPages, got : SUBSET Ids, cut : BOOLEAN, began : SUBSET Ids,
              steady : BOOLEAN, whole : BOOLEAN]
NoSync == [pc |-> "idle"]

MirrorTypeOK ==
  /\ remote \in [Parents -> Seq(Ids)] /\ rows \subseteq Rows /\ OneEach(rows)
  /\ sync = NoSync \/ sync \in SyncState
  /\ lookup \in [Lookups -> SUBSET Rows] /\ (\A p \in Lookups : OneEach(lookup[p]))
  /\ changes \in 0 .. MaxChanges

MirrorInit ==
  /\ remote \in {[a \in Parents |-> <<>>], [a \in Parents |-> SetToSeq(Ids)]}
  /\ rows = {} /\ sync = NoSync
  /\ lookup = [p \in Lookups |-> {}] /\ changes = 0

Listed(a) == {<<i, a>> : i \in ToSet(remote[a])}

\* Not this program: the server.
RemoteAdds(a, i) ==
  /\ changes < MaxChanges /\ i \notin ToSet(remote[a])
  /\ changes' = changes + 1
  /\ \E list \in {Append(remote[a], i), <<i>> \o remote[a]} : remote' = [remote EXCEPT ![a] = list]
  /\ UNCHANGED <<rows, sync, lookup>>

RemoteRemoves(a, n) ==
  /\ changes < MaxChanges
  /\ changes' = changes + 1
  /\ remote' = [remote EXCEPT ![a] = RemoveAt(@, n)]
  /\ sync' = IF sync # NoSync /\ sync.parent = a THEN [sync EXCEPT !.steady = FALSE] ELSE sync
  /\ UNCHANGED <<rows, lookup>>

\* resolveRead with a live answer: a list, or one of its items.
LookupAnswered(p) ==
  /\ lookup[p] = {}
  /\ \E a \in Parents : \E answer \in {Listed(a)} \cup {{r} : r \in Listed(a)} :
       lookup' = [lookup EXCEPT ![p] = answer]
  /\ UNCHANGED <<remote, rows, sync, changes>>

\* UpsertBatch, one transaction: a row replaces the one of the same id, whatever its parent.
Replaced(new) == {r \in rows : r[1] \notin IdsOf(new)} \cup new

\* writeThroughCache; its failure is ignored.
WriteThrough(p) ==
  /\ lookup[p] # {}
  /\ \E ok \in BOOLEAN : rows' = IF ok THEN Replaced(lookup[p]) ELSE rows
  /\ lookup' = [lookup EXCEPT ![p] = {}]
  /\ UNCHANGED <<remote, sync, changes>>

SyncBegins(a, signal) ==
  /\ sync = NoSync
  /\ sync' = [pc |-> "page", parent |-> a, signal |-> signal, offset |-> 0, page |-> 1, got |-> {},
              cut |-> FALSE, began |-> ToSet(remote[a]), steady |-> TRUE, whole |-> TRUE]
  /\ UNCHANGED <<remote, rows, lookup, changes>>

Page ==
  {remote[sync.parent][n] : n \in (sync.offset + 1 .. sync.offset + PageSize) \cap DOMAIN remote[sync.parent]}
MoreListed == sync.offset + PageSize < Len(remote[sync.parent])

\* The answer says, or a full page suggests, that there is another page.  An answer that has not
\* the form of its endpoint says nothing, but a bare array may suggest it where pages are numbered.
More(items, form) ==
  \/ /\ <<sync.signal, form>> \in {<<"full page", "declared">>, <<"has_more", "array">>}
     /\ Cardinality(items) = PageSize
  \/ sync.signal # "full page" /\ form = "declared" /\ MoreListed

\* Mutant of Cut: the page limit is an end like any other.
CutQuietly(repeated) == sync.signal = "has_more without cursor" \/ repeated

\* The ends of an enumeration that are marked as a truncation although the loop got no error.
Cut(repeated) ==
  sync.signal = "has_more without cursor" \/ repeated \/ sync.page = MaxPages

Answered(items, form) ==
  [sync EXCEPT !.got = @ \cup items, !.whole = @ /\ items = Page /\ form = "declared"]

\* One round of the loop of paginatedGet, with --all.  The items may not be found in the answer;
\* an answer without a usable signal ends the enumeration like the last page, and is not marked.
FetchPage ==
  /\ sync.pc = "page"
  /\ \E items \in {Page, {}},
        form \in IF sync.signal = "full page" THEN {"declared"} ELSE Forms,
        repeated \in IF sync.signal = "cursor" /\ sync.page > 1 THEN BOOLEAN ELSE {FALSE} :
       sync' = IF More(items, form) /\ sync.page < MaxPages /\ ~Cut(repeated)
               THEN [Answered(items, form) EXCEPT !.offset = @ + PageSize, !.page = @ + 1]
               ELSE [Answered(items, form) EXCEPT !.pc = "store",
                                                  !.cut = More(items, form) /\ Cut(repeated)]
  /\ UNCHANGED <<remote, rows, lookup, changes>>

SyncStores ==
  /\ sync.pc = "store"
  /\ rows' = Replaced(sync.got \X {sync.parent})
  /\ sync' = IF sync.cut THEN NoSync ELSE [sync EXCEPT !.pc = "sweep"]
  /\ UNCHANGED <<remote, lookup, changes>>

Victims == {r \in rows : r[2] = sync.parent /\ r[1] \notin sync.got}

\* ReconcilePartition, one transaction.
Sweep ==
  /\ sync.pc = "sweep"
  /\ rows' = rows \ Victims
  /\ sync' = NoSync
  /\ UNCHANGED <<remote, lookup, changes>>

\* A failed request or transaction, or a kill.
SyncStops ==
  /\ sync # NoSync
  /\ sync' = NoSync
  /\ UNCHANGED <<remote, rows, lookup, changes>>

MirrorNext ==
  \/ \E a \in Parents : \/ \E i \in Ids : RemoteAdds(a, i)
                        \/ \E n \in 1 .. Len(remote[a]) : RemoteRemoves(a, n)
                        \/ \E signal \in Signals : SyncBegins(a, signal)
  \/ \E p \in Lookups : LookupAnswered(p) \/ WriteThrough(p)
  \/ FetchPage \/ SyncStores \/ Sweep \/ SyncStops

MirrorSpec == MirrorInit /\ [][MirrorNext]_mirrorVars

\* A sweep deletes no row of an item that the parent it sweeps listed from the start of the
\* enumeration to its end, however its pages were signalled, whatever was added meanwhile and
\* whoever wrote through; unless the server removed an item, which shifts the later ones to a page
\* already read, or an answer was not of its declared form, when the enumeration ends unmarked.
SweepSparesListed ==
  [][\A i \in IdsOf(rows) \ IdsOf(rows') : sync.steady /\ sync.whole => i \notin sync.began]_mirrorVars
=============================================================================
