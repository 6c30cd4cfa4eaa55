-------------------------------- MODULE McpPages -------------------------------
(***************************************************************************)
(* A list read through the MCP server (internal/mcp/bound, makeAPIHandler  *)
(* in internal/mcp/tools.go).  Each page of the API is cut to the result   *)
(* budget; the caller goes on with an opaque cursor that names a page of   *)
(* the API and an offset into it.  A page is an array, or an object with   *)
(* one array and other fields; it does not change during the walk.         *)
(*                                                                         *)
(* No tool this binary registers has a cursor parameter yet: the walk is   *)
(* that of a tool generated for an API whose endpoints are paginated.      *)
(***************************************************************************)
EXTENDS Integers, SequencesExt

CONSTANTS
  ApiPages,     \* pages of the API
  ApiPageSize,  \* items of one
  Sizes,        \* what an item, or the other fields of a page, may take
  MaxItems,     \* bound.MaxItems
  MaxBytes,     \* bound.MaxBytes
  Note          \* what the marks of a result that was cut take; the few bytes by which the length
                \* of the cursor among them varies are left out

ASSUME McpPagesAssumption ==
  /\ ApiPages \in Nat /\ ApiPageSize \in Nat /\ Sizes \subseteq Nat \ {0}
  /\ MaxItems \in Nat \ {0} /\ MaxBytes \in Nat /\ Note \in Nat

VARIABLES
  api,     \* the pages; its cursor for page u is u, and none for the first
  cursor,  \* what the caller sends next, or NoCursor
  given    \* the items the caller was given, whole or as a preview

pagesVars == <<api, cursor, given>>

\* again: the last page names itself as the next one
ApiPage == [items : UNION {[1 .. n -> Sizes] : n \in 0 .. ApiPageSize}, rest : Sizes, again : BOOLEAN]
Cursor == [offset : Nat, upstream : 1 .. ApiPages]
NoCursor == [offset |-> 0, upstream |-> 0]
NotResumable == [offset |-> 1, upstream |-> 0]  \* a preview of the whole page

PagesTypeOK ==
  /\ api \in UNION {[1 .. n -> ApiPage] : n \in 1 .. ApiPages}
  /\ cursor \in Cursor \cup {NoCursor, NotResumable}
  /\ given \in Seq((1 .. ApiPages) \X (1 .. ApiPageSize))

PagesInit ==
  /\ api \in UNION {[1 .. n -> ApiPage] : n \in 1 .. ApiPages}
  /\ \A u \in DOMAIN api : api[u].again => u = Len(api) /\ u > 1
  /\ cursor = [offset |-> 0, upstream |-> 1] /\ given = <<>>

Total(sizes) == FoldLeft(+, 0, sizes)
Remaining == Len(api[cursor.upstream].items) - cursor.offset
Chunk(n) == SubSeq(api[cursor.upstream].items, cursor.offset + 1, cursor.offset + n)

\* The cursor of the API in the response, 0 if there is none.
NamedNext ==
  IF api[cursor.upstream].again THEN cursor.upstream
  ELSE IF cursor.upstream < Len(api) THEN cursor.upstream + 1 ELSE 0

\* boundedSingleArrayPageObject: the cursor just used leads nowhere.
NextUpstream == IF NamedNext = cursor.upstream THEN 0 ELSE NamedNext

\* Mutant of NextPageCursor: the API's cursor is looked at first.
NextPageCursorUpstream(offset) ==
  IF NextUpstream # 0 THEN [offset |-> 0, upstream |-> NextUpstream]
  ELSE IF offset < Len(api[cursor.upstream].items) THEN [cursor EXCEPT !.offset = offset]
  ELSE NoCursor

NextPageCursor(offset) ==
  IF offset < Len(api[cursor.upstream].items) THEN [cursor EXCEPT !.offset = offset]
  ELSE IF NextUpstream # 0 THEN [offset |-> 0, upstream |-> NextUpstream]
  ELSE NoCursor

\* A result with the first n of the remaining items and the cursor next is short enough.
Room(n, next) ==
  api[cursor.upstream].rest + Total(Chunk(n)) + (IF next = NoCursor THEN 0 ELSE Note) <= MaxBytes

NextAfter(n) == NextPageCursor(cursor.offset + n)
Fitting == {n \in 1 .. MaxItems : n <= Remaining /\ Room(n, NextAfter(n))}

Given(n) ==
  /\ given' = given \o [k \in 1 .. n |-> <<cursor.upstream, cursor.offset + k>>]
  /\ cursor' = NextAfter(n)

\* fitJSONPageItems: as many items as fit; or a preview of an item too long for a result; or no
\* item at all, which boundedPageListEnvelope replaces by a preview of the page if it is too long.
CallTool ==
  /\ cursor \in Cursor
  /\ \/ \E n \in Fitting : (\A m \in Fitting : m <= n) /\ Given(n)
     \/ Fitting = {} /\ Remaining > 0 /\ Room(0, NextAfter(1)) /\ Given(1)
     \/ /\ Fitting = {} /\ (Remaining > 0 => ~Room(0, NextAfter(1)))
        /\ cursor' = IF Room(0, NextAfter(Remaining)) THEN NextAfter(Remaining) ELSE NotResumable
        /\ UNCHANGED given
  /\ UNCHANGED api

PagesSpec == PagesInit /\ [][CallTool]_pagesVars

Items == UNION {{u} \X DOMAIN api[u].items : u \in DOMAIN api}
Precedes(i, j) == i[1] < j[1] \/ (i[1] = j[1] /\ i[2] < j[2])

\* The walk gives the items of all pages once and in order and skips none, whatever mixture of pages
\* and offsets the cursors went through, and it ends only after the last item; unless it says, at a
\* page that is too long without its list, that it cannot go on.  One page is excepted: a last
\* one that is short enough without its list only as long as the result has no cursor.
WalkIsComplete ==
  /\ \A m, n \in DOMAIN given : m < n => Precedes(given[m], given[n])
  /\ \A n \in DOMAIN given : {i \in Items : Precedes(i, given[n])} \subseteq ToSet(given)
  /\ cursor = NoCursor /\ api[Len(api)].rest + Note <= MaxBytes => ToSet(given) = Items
=============================================================================
