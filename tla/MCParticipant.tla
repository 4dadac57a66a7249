--------------------------- MODULE MCParticipant ---------------------------
(***************************************************************************)
(* An export whose index names a participant.  The composer model is       *)
(* MCComposer's.                                                           *)
(***************************************************************************)
EXTENDS MCComposer, Export

MCListings == {"_favorite"}

(* A space whose homepage is a member's profile.                           *)
ParticipantScenario ==
  [space       |-> Space({"A"}, {}, {"_participant"}, {}),
   participant |-> [Page("_participant", {}, {}, {})
                      EXCEPT !.envelope = "participant"],
   page        |-> Page("page", {}, {}, {})]

ParticipantTasks == DOMAIN ParticipantScenario
=============================================================================
