------------------------------ MODULE MCWorker ------------------------------
(* Instances of WorkerControl for TLC. *)
EXTENDS WorkerControl

CONSTANTS c1, c2
=============================================================================
