---------------------------- MODULE ResponseCache -----------------------------
(***************************************************************************)
(* The client's response cache (internal/client/client.go): processes that *)
(* read one page of the server through one cache file, and processes that  *)
(* change the resource behind it.                                          *)
(*                                                                         *)
(* No lock protects the file.  Opening it for writing empties it, and what *)
(* is then written lands in whatever file that was, so two writers can mix *)
(* their bodies and a removal in between leaves the write without effect.  *)
(* An error of a write is ignored, and so is an empty answer.              *)
(* The metadata that a verified platform session adds is left out: no      *)
(* command of this CLI has one.  The step from a finished call back to     *)
(* idle belongs to the command that made it: see WeatherHistory.           *)
(***************************************************************************)
EXTENDS Integers, FiniteSets

CONSTANTS
  Readers,         \* the processes
  CacheTTL,        \* how long a cached response may be served
  CommandTimeout,  \* boundCtx: how long a command's calls may take
  MaxClock,        \* the model ends here
  MaxMutations,    \* requests that change the resource
  MaxKills         \* processes killed in the middle of a call

ASSUME CacheAssumption ==
  {CacheTTL, CommandTimeout, MaxClock, MaxMutations, MaxKills} \subseteq Nat

VARIABLES
  time,
  server,    \* how many times the resource was changed
  file,      \* the body's file
  reader,    \* reader[p]: how far the call of process p is
  cleared,   \* the last change whose invalidation is done
  overlaps,  \* the processes that were in a call when the cache was last cleared
  kills

cacheVars == <<time, server, file, reader, cleared, overlaps, kills>>

Never == -1
Nothing == [asOf |-> Never, version |-> 0, whole |-> FALSE]  \* an empty body
NoFile == [node |-> 0, mtime |-> Never, body |-> Nothing, late |-> FALSE, spoiled |-> FALSE]

\* A body: when the server produced it, from which state, and whether it is one response.
Body == [asOf : {Never} \cup Nat, version : Nat, whole : BOOLEAN]
File == [node : Nat,  \* how many files at this place were removed: an older one is another file
         mtime : {Never} \cup Nat, body : Body,
         \* for the properties: written by a call that an invalidation overlapped, and opened by
         \* one that was killed, could not write or had nothing to write
         late : BOOLEAN, spoiled : BOOLEAN]
Reader ==
  [pc : {"idle", "read", "flight", "answered", "fill", "got", "post", "clear"},
   since : Nat,      \* when the command started
   body : Body,      \* what it fetched or read
   hit : BOOLEAN,
   node : Nat]       \* the file it opened for writing
IdleReader == [pc |-> "idle", since |-> 0, body |-> Nothing, hit |-> FALSE, node |-> 0]

CacheTypeOK ==
  /\ time \in 0 .. MaxClock /\ server \in 0 .. MaxMutations /\ cleared \in 0 .. server
  /\ kills \in 0 .. MaxKills /\ file \in File
  /\ reader \in [Readers -> Reader] /\ overlaps \subseteq Readers

CacheInit ==
  /\ time = 0 /\ server = 0 /\ cleared = 0 /\ kills = 0
  /\ file = NoFile /\ reader = [p \in Readers |-> IdleReader] /\ overlaps = {}

Exists == file.mtime # Never
Advance(p, label) == reader' = [reader EXCEPT ![p].pc = label]

\* Mutant of Expired: an age of exactly two lifetimes is served.
ExpiredLate(f) == time - f.mtime > 2 * CacheTTL

Expired(f) == time - f.mtime > CacheTTL

\* Mutant of Servable: the age of the file is not looked at.
ServableForever == Exists

Servable == Exists /\ ~Expired(file)

\* GetWithHeaders, or with fresh GetNoCache, which skips the read and still writes.
Get(p, fresh) ==
  /\ reader[p].pc = "idle"
  /\ reader' = [reader EXCEPT ![p] =
       [IdleReader EXCEPT !.pc = IF Servable /\ ~fresh THEN "read" ELSE "flight", !.since = time]]
  /\ overlaps' = overlaps \ {p}
  /\ UNCHANGED <<time, server, file, cleared, kills>>

\* The file that was there for Stat is read as it is now.
ReadFile(p) ==
  /\ reader[p].pc = "read"
  /\ IF Exists
     THEN reader' = [reader EXCEPT ![p].pc = "got", ![p].body = file.body, ![p].hit = TRUE]
     ELSE Advance(p, "flight")
  /\ UNCHANGED <<time, server, file, cleared, overlaps, kills>>

\* The server answers (to the last attempt, if there were several), perhaps with an empty body; the
\* answer travels.
ServerAnswers(p) ==
  /\ reader[p].pc = "flight"
  /\ \E body \in {[asOf |-> time, version |-> server, whole |-> TRUE], Nothing} :
       reader' = [reader EXCEPT ![p].pc = "answered", ![p].body = body]
  /\ UNCHANGED <<time, server, file, cleared, overlaps, kills>>

\* doInternal returns a body.  writeCacheWithHeaders, unless caching is off, opens the file, which
\* empties it, or creates one.
Arrives(p, cacheable) ==
  /\ reader[p].pc = "answered"
  /\ IF cacheable
     THEN /\ file' = [file EXCEPT !.mtime = time, !.body = Nothing, !.late = p \in overlaps,
                                  !.spoiled = FALSE]
          /\ reader' = [reader EXCEPT ![p].pc = "fill", ![p].node = file.node]
     ELSE /\ Advance(p, "got")
          /\ file' = file
  /\ UNCHANGED <<time, server, cleared, overlaps, kills>>

\* Mutant of CallFails: the empty result of a failed call is cached.
CallFailsCached(p) ==
  /\ reader[p].pc \in {"flight", "answered", "post"}
  /\ reader' = [reader EXCEPT ![p] = IdleReader]
  /\ file' = [file EXCEPT !.mtime = time, !.body = Nothing, !.late = FALSE, !.spoiled = FALSE]
  /\ UNCHANGED <<time, server, cleared, overlaps, kills>>

\* doInternal returns an error.
CallFails(p) ==
  /\ reader[p].pc \in {"flight", "answered", "post"}
  /\ reader' = [reader EXCEPT ![p] = IdleReader]
  /\ UNCHANGED <<time, server, file, cleared, overlaps, kills>>

\* The file that p opened is the one that is there.
Opened(p) == reader[p].pc = "fill" /\ reader[p].node = file.node
Spoiled == [file EXCEPT !.spoiled = TRUE]

\* The body is written.  It is not whole when the write stops midway, which nobody learns of, or
\* when a longer one written meanwhile leaves its tail.
FillFile(p) ==
  /\ reader[p].pc = "fill"
  /\ IF Opened(p)
     THEN \/ /\ reader[p].body # Nothing
             /\ \E whole \in BOOLEAN :
                  file' = [file EXCEPT !.mtime = time, !.late = @ \/ p \in overlaps,
                                       !.body = [reader[p].body EXCEPT !.whole = whole]]
          \/ file' = Spoiled  \* nothing is written
     ELSE file' = file
  /\ Advance(p, "got")
  /\ UNCHANGED <<time, server, cleared, overlaps, kills>>

\* A POST: the server applies it, and may answer it.
Post(p) ==
  /\ reader[p].pc = "idle" /\ server < MaxMutations
  /\ reader' = [reader EXCEPT ![p] = [IdleReader EXCEPT !.pc = "post", !.since = time]]
  /\ UNCHANGED <<time, server, file, cleared, overlaps, kills>>

PostApplied(p, answered) ==
  /\ reader[p].pc = "post" /\ server < MaxMutations
  /\ server' = server + 1
  /\ reader' = [reader EXCEPT ![p] =
       [IdleReader EXCEPT !.pc = IF answered THEN "clear" ELSE "idle", !.since = time,
                          !.body = [Nothing EXCEPT !.version = server + 1]]]
  /\ UNCHANGED <<time, file, cleared, overlaps, kills>>

\* Mutant of Removed: the entry is kept.
RemovedNot(f) == f

Removed(f) == [NoFile EXCEPT !.node = f.node + 1]

\* invalidateCacheAfterMutation.
ClearCache(p) ==
  /\ reader[p].pc = "clear"
  /\ file' = Removed(file)
  /\ cleared' = IF reader[p].body.version > cleared THEN reader[p].body.version ELSE cleared
  /\ overlaps' = {q \in Readers \ {p} : reader[q].pc # "idle"}
  /\ reader' = [reader EXCEPT ![p] = IdleReader]
  /\ UNCHANGED <<time, server, kills>>

Killed(p) ==
  /\ reader[p].pc \in {"fill", "clear"} /\ kills < MaxKills
  /\ kills' = kills + 1
  /\ file' = IF Opened(p) THEN Spoiled ELSE file
  /\ reader' = [reader EXCEPT ![p] = IdleReader]
  /\ UNCHANGED <<time, server, cleared, overlaps>>

\* Steps on local files take less than a unit of time; a call takes at most CommandTimeout.
TimePasses ==
  /\ time < MaxClock
  /\ \A p \in Readers :
       /\ reader[p].pc \in {"idle", "flight", "answered", "post"}
       /\ reader[p].pc # "idle" => time < reader[p].since + CommandTimeout
  /\ time' = time + 1
  /\ UNCHANGED <<server, file, reader, cleared, overlaps, kills>>

CacheStep(p) ==
  \/ \E fresh \in BOOLEAN : Get(p, fresh)
  \/ ReadFile(p) \/ ServerAnswers(p) \/ CallFails(p)
  \/ \E cacheable \in BOOLEAN : Arrives(p, cacheable)
  \/ FillFile(p) \/ Post(p) \/ ClearCache(p) \/ Killed(p)
  \/ \E answered \in BOOLEAN : PostApplied(p, answered)

\* What a call returns was true no longer ago than the cache's lifetime and one call, whoever
\* wrote the file and however old the response was when it was written (readCacheWithHeaders
\* ages the file, not the response).
ServedFresh ==
  \A p \in Readers :
    reader[p].pc = "got" /\ reader[p].body.whole =>
      time - reader[p].body.asOf <= CacheTTL + CommandTimeout

\* An entry older than a change whose invalidation is done was put there by a call that had
\* started before that invalidation.
NoForgottenEntry ==
  file.body.whole /\ file.body.version < cleared => file.late

\* An empty body is in the file only while a writer is about to fill it; unless a process that had
\* opened this file was killed, could not write or had got an empty answer: then the entry is
\* served empty for its whole lifetime.
BlankIsTransient ==
  Exists /\ file.body.asOf = Never /\ ~file.spoiled => \E p \in Readers : Opened(p)
=============================================================================
