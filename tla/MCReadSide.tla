------------------------------ MODULE MCReadSide ------------------------------
(***************************************************************************)
(* The reading commands and the HTTP client below them on small instances. *)
(* The components share no state, so each is explored in a scene of its    *)
(* own in which the others stand still; the response cache has two, one    *)
(* with changes of the resource, kills, empty answers and failed writes,   *)
(* and one with saved snapshots.                                           *)
(***************************************************************************)
EXTENDS HttpRequest, WeatherHistory, StormReports, AdaptiveLimiter, StationCapture, RecallSurface, McpPages

CONSTANT v1

VARIABLE scene

readVars == <<scene, requestVars, historyVars, stormVars, limiterVars, captureVars, surfaceVars, pagesVars>>

Scenes == {"request", "changes", "history", "reports", "limiter", "capture", "surface", "pages"}

Init ==
  /\ scene \in Scenes
  /\ RequestInit /\ HistoryInit /\ StormInit /\ LimiterInit /\ CaptureInit /\ SurfaceInit /\ PagesInit
  /\ scene # "limiter" => limiter.maxRate = 0
  /\ scene # "capture" => table = [s \in Stations |-> [station |-> s, at |-> 0, value |-> v1]]
  /\ scene # "pages" => api = <<[items |-> <<>>, rest |-> 1, again |-> FALSE]>>

Next ==
  /\ UNCHANGED scene
  /\ \/ /\ scene = "request" /\ RequestNext
        /\ UNCHANGED <<historyVars, stormVars, limiterVars, captureVars, surfaceVars, pagesVars>>
     \/ /\ scene = "changes" /\ HistoryNext /\ saved' = 0
        /\ UNCHANGED <<requestVars, stormVars, limiterVars, captureVars, surfaceVars, pagesVars>>
     \/ /\ scene = "history" /\ HistoryNext /\ server' = 0 /\ kills' = 0
        /\ \A p \in Readers : reader'[p].pc # "post"
        /\ \A p \in Readers : reader'[p].pc = "answered" => reader'[p].body # Nothing
        /\ ~file'.spoiled
        /\ UNCHANGED <<requestVars, stormVars, limiterVars, captureVars, surfaceVars, pagesVars>>
     \/ /\ scene = "reports" /\ StormNext
        /\ UNCHANGED <<requestVars, historyVars, limiterVars, captureVars, surfaceVars, pagesVars>>
     \/ /\ scene = "limiter" /\ LimiterNext
        /\ UNCHANGED <<requestVars, historyVars, stormVars, captureVars, surfaceVars, pagesVars>>
     \/ /\ scene = "capture" /\ CaptureNext
        /\ UNCHANGED <<requestVars, historyVars, stormVars, limiterVars, surfaceVars, pagesVars>>
     \/ /\ scene = "surface" /\ SurfaceNext
        /\ UNCHANGED <<requestVars, historyVars, stormVars, limiterVars, captureVars, pagesVars>>
     \/ /\ scene = "pages" /\ CallTool
        /\ UNCHANGED <<requestVars, historyVars, stormVars, limiterVars, captureVars, surfaceVars>>

Spec == Init /\ [][Next]_readVars
=============================================================================
