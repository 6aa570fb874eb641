------------------------------ MODULE MCEventBus ------------------------------
(* Instances of EventBus for TLC. *)
EXTENDS EventBus

CONSTANTS w1, w2

AckFaults == {"ack"}
=============================================================================
