------------------------------ MODULE MCNewRun ------------------------------
(* One dataset, small enough that one of the held-out sizes leaves too few   *)
(* rows for its buckets.                                                       *)
EXTENDS NewRun

DatasetsValue == {[rows |-> 7, buckets |-> 3]}
=============================================================================
