------------------------------ MODULE MCWorker -------------------------------
(* Bounded instances of WorkerLoop.                                        *)
EXTENDS WorkerLoop
=============================================================================
