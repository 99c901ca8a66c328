------------------------------ MODULE MCScene ------------------------------
(* SceneLifecycle on small instances; the values are in the .cfg files.    *)
EXTENDS SceneLifecycle, TLC

(* Workers are interchangeable. *)
WorkerSymmetry == Permutations(Workers)

(* A run may keep to the time before the deadline of the scene. *)
BeforeDeadline == ~ overdue
=============================================================================
