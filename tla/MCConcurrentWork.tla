-------------------------- MODULE MCConcurrentWork --------------------------
(* Instances of ConcurrentWork for TLC.                                    *)
EXTENDS ConcurrentWork, TLC

CONSTANTS r1, r2, r3, ann, ben

MCKinds == {"schedule", "subtask", "record", "delete", "edit", "remove"}
=============================================================================
