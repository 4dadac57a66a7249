--------------------------- MODULE MCComposerTwin ---------------------------
(***************************************************************************)
(* Spaces exported twice.  The composer model is MCComposer's.             *)
(***************************************************************************)
EXTENDS MCComposer, ComposerTwin

(* A space whose snapshots agree, some of them observed twice.             *)
AgreeingScenario ==
  [priority |-> Relation("priority", "A", "select", FALSE),
   high     |-> Option("priority", "A", "red", 2, 1, 3),
   low      |-> Option("priority", "B", "blue", 0, 5, 2),
   lower    |-> Option("priority", "C", "blue", 0, 5, 1),
   again    |-> Option("priority", "A", "red", 2, 1, 3),
   space    |-> Space({"A"}, {}, {"page"}, {}),
   reread   |-> Space({}, {"B"}, {"page"}, {}),
   page     |-> Page("page", {"priority"}, {"type-lost"}, {})]

AgreeingTasks == DOMAIN AgreeingScenario
AgreeingFlaky == {"priority", "space"}

ASSUME SpaceAgrees == AgreeingSpace
=============================================================================
