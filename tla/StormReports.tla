---------------------------- MODULE StormReports ------------------------------
(***************************************************************************)
(* watch, approach and storm (internal/cli): what they say of the active   *)
(* cyclone from two pages fetched independently, of which one may fail, be *)
(* served from the cache, or no longer have the layout the parser knows in *)
(* all of its panels.                                                      *)
(*                                                                         *)
(* The weather and PAGASA's editors, who update the two pages one after    *)
(* the other, are external.                                                *)
(***************************************************************************)
EXTENDS Integers, FiniteSets

CONSTANTS
  Areas,      \* localities
  MaxSignal,  \* the highest wind signal
  MaxNews     \* changes of the weather

VARIABLES
  storm,     \* a cyclone is active
  warned,    \* warned[a]: the wind signal in effect for a, 0 when none is
  page,      \* the two pages as published
  kept,      \* the copies in the response cache
  fetched,   \* what a command got
  report,    \* report[c]: what command c made of it
  news

ASSUME StormAssumption == Areas # {} /\ MaxSignal \in Nat /\ MaxNews \in Nat

stormVars == <<storm, warned, page, kept, fetched, report, news>>

Commands == {"watch", "approach", "storm"}
Pages == {"weather", "bulletin"}

\* What ParseSynopsis and ParseStormDetail find: the name of a cyclone, its position, links to
\* bulletin PDFs, the rows of the wind-signal table.
Weather == [panel : BOOLEAN, named : BOOLEAN, position : BOOLEAN]
Bulletin == [pdfs : BOOLEAN, position : BOOLEAN, signals : SUBSET ((1 .. MaxSignal) \X Areas)]
NoWeather == [panel |-> FALSE, named |-> FALSE, position |-> FALSE]
NoBulletin == [pdfs |-> FALSE, position |-> FALSE, signals |-> {}]

\* A fetch: the page, or an error.
Got(x) == [ok |-> TRUE, page |-> x]
Failed(x) == [ok |-> FALSE, page |-> x]
Fetch(S) == [ok : BOOLEAN, page : S]

\* What is reported: nothing, an error, that no cyclone is active, or that one is, with the
\* signal of the asked area (watch) and whether the center is known (approach).
Report == [says : {"nothing", "error", "none", "active"}, signal : 0 .. MaxSignal,
           area : Areas, located : BOOLEAN]
Silent == [says |-> "nothing", signal |-> 0, area |-> CHOOSE a \in Areas : TRUE, located |-> FALSE]

StormTypeOK ==
  /\ storm \in BOOLEAN /\ warned \in [Areas -> 0 .. MaxSignal] /\ news \in 0 .. MaxNews
  /\ page \in [weather : Weather, bulletin : Bulletin]
  /\ kept \in [weather : Weather, bulletin : Bulletin]
  /\ fetched \in [asked : BOOLEAN, pending : SUBSET Pages,
                  weather : Fetch(Weather), bulletin : Fetch(Bulletin)]
  /\ report \in [Commands -> Report]

NothingFetched ==
  [asked |-> FALSE, pending |-> {}, weather |-> Failed(NoWeather), bulletin |-> Failed(NoBulletin)]
QuietWeather == [NoWeather EXCEPT !.panel = TRUE]

StormInit ==
  /\ storm = FALSE /\ warned = [a \in Areas |-> 0] /\ news = 0
  /\ page = [weather |-> QuietWeather, bulletin |-> NoBulletin] /\ kept = page
  /\ fetched = NothingFetched /\ report = [c \in Commands |-> Silent]

Changes == news < MaxNews /\ news' = news + 1

StormRises(a, s) ==
  /\ Changes
  /\ storm' = TRUE /\ warned' = [warned EXCEPT ![a] = s]
  /\ UNCHANGED <<page, kept, fetched, report>>

StormPasses ==
  /\ Changes /\ storm
  /\ storm' = FALSE /\ warned' = [a \in Areas |-> 0]
  /\ UNCHANGED <<page, kept, fetched, report>>

\* The synopsis may leave the position out.
PublishWeather ==
  /\ \E position \in BOOLEAN :
       page' = [page EXCEPT !.weather =
                  [panel |-> TRUE, named |-> storm, position |-> storm /\ position]]
  /\ UNCHANGED <<storm, warned, kept, fetched, report, news>>

\* An area may be listed under more than one signal.
PublishBulletin ==
  /\ LET listed == {r \in (1 .. MaxSignal) \X Areas : r[1] = warned[r[2]]} IN
     \E more \in SUBSET {r \in (1 .. MaxSignal) \X Areas : r[1] < warned[r[2]]},
        position \in BOOLEAN :
       page' = [page EXCEPT !.bulletin =
                  [pdfs |-> storm, position |-> storm /\ position, signals |-> listed \cup more]]
  /\ UNCHANGED <<storm, warned, kept, fetched, report, news>>

\* fetchPages starts both fetches.
FetchPages ==
  /\ fetched.pending = {}
  /\ fetched' = [NothingFetched EXCEPT !.asked = TRUE, !.pending = Pages]
  /\ report' = [c \in Commands |-> Silent]
  /\ UNCHANGED <<storm, warned, page, kept, news>>

Empty(x) == IF x = "weather" THEN NoWeather ELSE NoBulletin

\* What may be found on a page: each part is looked for on its own, and one whose layout the
\* parser does not know is left at its zero value.  Of the signals, any rows may be lost.
SynopsisOf(w) ==
  {NoWeather} \cup
  {[panel |-> w.panel, named |-> w.named /\ n, position |-> w.position /\ o] : n, o \in BOOLEAN}
StormDetailOf(b) ==
  {[pdfs |-> b.pdfs /\ l, position |-> b.position /\ o, signals |-> S] :
     l, o \in BOOLEAN, S \in SUBSET b.signals}
Found(x, source) ==
  IF x = "weather" THEN SynopsisOf(source.weather) ELSE StormDetailOf(source.bulletin)

Ends(x, result) == fetched' = [fetched EXCEPT ![x] = result, !.pending = @ \ {x}]

\* Each ends on its own: with what is found on the published page (which is then cached) or on the
\* cached copy, or with an error.
Returns(x) ==
  /\ x \in fetched.pending
  /\ \/ /\ \E parsed \in Found(x, page) : Ends(x, Got(parsed))
        /\ kept' = [kept EXCEPT ![x] = page[x]]
     \/ /\ \/ \E parsed \in Found(x, kept) : Ends(x, Got(parsed))
           \/ Ends(x, Failed(Empty(x)))
        /\ kept' = kept
  /\ UNCHANGED <<storm, warned, page, report, news>>

Named == fetched.weather.ok /\ fetched.weather.page.panel /\ fetched.weather.page.named
Bulletins == fetched.bulletin.ok /\ fetched.bulletin.page.pdfs
Listed(a) == {s \in 1 .. MaxSignal : fetched.bulletin.ok /\ <<s, a>> \in fetched.bulletin.page.signals}

\* Mutant of MatchWindSignal: the first row that names the area wins.
MatchFirstSignal(a) ==
  IF Listed(a) = {} THEN 0 ELSE CHOOSE s \in Listed(a) : \A t \in Listed(a) : s <= t

MatchWindSignal(a) ==
  IF Listed(a) = {} THEN 0 ELSE CHOOSE s \in Listed(a) : \A t \in Listed(a) : t <= s

\* Neither page is required.
WatchReport(a) ==
  LET signal == MatchWindSignal(a) IN
  [Silent EXCEPT !.says = IF signal > 0 \/ Named \/ Bulletins THEN "active" ELSE "none",
                 !.signal = signal, !.area = a]

\* Mutant of ApproachActive: the bulletin is not asked.
ApproachBySynopsis == Named

\* /weather is required; the bulletin stands in for a synopsis without a cyclone or a position.
ApproachActive == Named \/ Bulletins

ApproachReport(a) ==
  IF ~fetched.weather.ok THEN [Silent EXCEPT !.says = "error"]
  ELSE IF ~ApproachActive THEN [Silent EXCEPT !.says = "none"]
  ELSE [Silent EXCEPT !.says = "active",
          !.located = \/ fetched.weather.page.panel /\ fetched.weather.page.position
                      \/ fetched.bulletin.ok /\ fetched.bulletin.page.position]

\* The bulletin is required.
StormReport(a) ==
  IF ~fetched.bulletin.ok THEN [Silent EXCEPT !.says = "error"]
  ELSE [Silent EXCEPT !.says = IF Named \/ Bulletins THEN "active" ELSE "none"]

\* What each command would answer for area a with these two results.
Answer(a) ==
  /\ fetched.asked /\ fetched.pending = {}
  /\ report = [c \in Commands |-> Silent]
  /\ report' = [c \in Commands |-> CASE c = "watch" -> WatchReport(a)
                                     [] c = "approach" -> ApproachReport(a)
                                     [] c = "storm" -> StormReport(a)]
  /\ UNCHANGED <<storm, warned, page, kept, fetched, news>>

StormNext ==
  \/ \E a \in Areas :
       \/ \E s \in 0 .. MaxSignal : StormRises(a, s)
       \/ Answer(a)
  \/ StormPasses \/ PublishWeather \/ PublishBulletin
  \/ FetchPages \/ \E x \in Pages : Returns(x)

StormSpec == StormInit /\ [][StormNext]_stormVars

\* Of the same two fetches no command says that a cyclone is active while another denies it,
\* although each requires a different page and treats the other one's failure in its own way; but
\* watch may, of a signal it found on a bulletin without finding the links to the PDFs.
CommandsAgree ==
  \A c, d \in Commands : report[c].says = "active" /\ report[d].says = "none" =>
    /\ c = "watch" /\ report[c].signal > 0
    /\ fetched.bulletin.ok /\ ~fetched.bulletin.page.pdfs

\* While every signal in effect is among those found on the bulletin, watch reports none that
\* is lower than the one in effect for the area (matchWindSignal: "finds the highest signal
\* number whose affected_areas text contains area").
UpToDate ==
  /\ fetched.bulletin.ok
  /\ \A a \in Areas : warned[a] > 0 => <<warned[a], a>> \in fetched.bulletin.page.signals

SignalNotUnderstated ==
  report["watch"].says # "nothing" /\ UpToDate =>
    report["watch"].signal >= warned[report["watch"].area]

\* watch says that no signal is in effect only after it has read at least one of its pages.
WatchSawSomething ==
  report["watch"].says = "none" => fetched.weather.ok \/ fetched.bulletin.ok
=============================================================================
