-------------------------- MODULE MCEventDelivery --------------------------
(* Instances of EventDelivery for TLC.  Workers are interchangeable.        *)
EXTENDS EventDelivery, TLC

WorkerSymmetry == Permutations(Workers)
=============================================================================
