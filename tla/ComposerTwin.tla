---------------------------- MODULE ComposerTwin ----------------------------
(***************************************************************************)
(* One space exported twice.  The composer's own variables are the first   *)
(* export's; the second runs after it, over the same snapshots, under a    *)
(* schedule of its own.  It is an instance of CompositionProofs, so that   *)
(* the composer's lemmas are there for the second export too.              *)
(***************************************************************************)
EXTENDS Composer

VARIABLES c2, issues2, task2, docs2, blobs2, run2, out2

vars2 == <<c2, issues2, task2, docs2, blobs2, run2, out2>>

Again == INSTANCE CompositionProofs WITH
           c <- c2, issues <- issues2, task <- task2, docs <- docs2,
           blobs <- blobs2, run <- run2, out <- out2

TwinInit == Init /\ Again!Init

TwinNext ==
  \/ Next /\ UNCHANGED vars2
  \/ run = "finished" /\ Again!Next /\ UNCHANGED vars

TwinSpec == TwinInit /\ [][TwinNext]_<<vars, vars2>>

(***************************************************************************)
(* The same space state gives the same verdict and the same bytes: two     *)
(* exports whose tasks came to the same ends returned the same from        *)
(* Finish, whatever order those tasks reached the composer in              *)
(* (compose_test.go "observation ORDER must never reach the bytes").       *)
(***************************************************************************)
SameSpaceSameBytes ==
  (out.status # "none" /\ out2.status # "none" /\ task = task2 /\ blobs = blobs2)
    => /\ out.status = out2.status
       /\ out.status = "bundle" => /\ out.dictionary = out2.dictionary
                                   /\ out.index = out2.index
=============================================================================
