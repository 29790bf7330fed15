---------------------------- MODULE MCFollowUps ----------------------------
(* Instances of FollowUps small enough for TLC. *)
EXTENDS FollowUps, TLC

CONSTANTS f1, f2

TwoWorkers == {f1, f2}
OneWorker == {f1}

AllOps == RecordOps \cup JobOps
Rescheduling == {"reschedule_job"}
Dropping == {"cancel_job"}

Alike == Permutations(TwoWorkers)
=============================================================================
