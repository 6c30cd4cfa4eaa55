------------------------------ MODULE MCLocalSide ------------------------------
(***************************************************************************)
(* The fan-out and the local stores on small instances.  The components    *)
(* share no state, so each is explored in a scene of its own in which the  *)
(* others stand still.                                                     *)
(***************************************************************************)
EXTENDS Fanout, Learned, PlaybookSeed, ResourceMirror, ClientMigration, LearnEvents

CONSTANTS city, town, cape, rain, odd, odds, s1, f1, f2, j1, j2, n1, n2,
  Reporters   \* processes that run no command but learnings stats

VARIABLE scene

MCQuestions ==
  {[caps |-> {city}, plain |-> {rain}], [caps |-> {town}, plain |-> {rain}],
   [caps |-> {}, plain |-> {city, rain}], [caps |-> {town}, plain |-> {}],
   [caps |-> {cape}, plain |-> {rain, odd, odds}]}
MCWithin == {<<cape, town>>}
MCAnswers == {[stem |-> s1, about |-> S] : S \in {{city}, {town}, {}}}

\* Two releases: the second mends the base that does not parse in the first.
Base(family, json, notes, parses) ==
  [family |-> family, json |-> json, notes |-> notes, parses |-> parses]
MCSeeds == << <<Base(f1, j1, n1, TRUE), Base(f2, j1, n1, FALSE)>>,
              <<Base(f1, j2, n2, TRUE), Base(f2, j2, n2, TRUE)>> >>

\* The lookups and patterns that say something about the questions.
TellingLookups == lookups' \subseteq {<<city, town>>, <<rain, rain>>, <<town, city>>}
TellingPatterns == \A p \in inferred' : p.query = {rain}

localVars == <<scene, fanVars, learnedVars, seedVars, mirrorVars, migrationVars, eventVars>>

Scenes == {"fanout", "learned", "seed", "mirror", "migration", "events"}

Init ==
  /\ scene \in Scenes
  /\ FanInit /\ LearnedInit /\ SeedInit /\ MirrorInit /\ MigrationInit /\ EventsInit
  /\ scene # "learned" => synced = {}
  /\ scene # "mirror" => \A a \in Parents : remote[a] = <<>>
  \* at most one backup is left of an earlier migration
  /\ file["config.backup"] = Missing \/ file["database.backup"] = Missing
  /\ scene # "migration" => file = [f \in Places |-> IF f = "config" THEN Settings("legacy")
                                                   ELSE IF f = "database" THEN Database("legacy", "me")
                                                   ELSE Missing]

InFanout(A) == scene = "fanout" /\ A /\ UNCHANGED <<scene, learnedVars, seedVars, mirrorVars, migrationVars, eventVars>>

Next ==
  \/ InFanout(FanNext)
  \/ /\ scene = "learned" /\ LearnedNext /\ TellingLookups /\ TellingPatterns
     /\ UNCHANGED <<scene, fanVars, seedVars, mirrorVars, migrationVars, eventVars>>
  \/ /\ scene = "seed" /\ SeedNext
     /\ UNCHANGED <<scene, fanVars, learnedVars, mirrorVars, migrationVars, eventVars>>
  \/ /\ scene = "mirror" /\ MirrorNext
     /\ UNCHANGED <<scene, fanVars, learnedVars, seedVars, migrationVars, eventVars>>
  \/ /\ scene = "migration" /\ MigrationNext
     /\ UNCHANGED <<scene, fanVars, learnedVars, seedVars, mirrorVars, eventVars>>
  \/ /\ scene = "events" /\ EventsNext /\ \A p \in Reporters : client'[p].pc # "record"
     /\ UNCHANGED <<scene, fanVars, learnedVars, seedVars, mirrorVars, migrationVars>>

\* The fairness of FanSpec, in its scene.
Spec ==
  /\ Init /\ [][Next]_localVars
  /\ WF_localVars(InFanout(FeederStep))
  /\ \A w \in Workers : WF_localVars(InFanout(WorkerStep(w)))
=============================================================================
