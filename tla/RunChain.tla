------------------------------ MODULE RunChain ------------------------------
(***************************************************************************)
(* What a training run promises, without the machinery: a chain of         *)
(* adapters, each published from a non-empty set of contributions that     *)
(* were all trained from the adapter before it, none of which was ever     *)
(* refused, before or after.  docs/02-architecture-v2.md section 3.3:      *)
(* "Every contribution to round N provably started from the same weights". *)
(***************************************************************************)
EXTENDS Integers, Sequences

CONSTANTS
  Work,    \* contributions
  Length   \* how many adapters the run publishes

VARIABLES
  trainedFrom,  \* the adapter each contribution was trained from, or NotOffered
  refused,      \* the contributions that were turned down
  published,    \* the chain: what each adapter was made from
  finished

vars == <<trainedFrom, refused, published, finished>>

NotOffered == -1

Published(c) == \E i \in DOMAIN published : c \in published[i]

Init ==
  /\ trainedFrom = [c \in Work |-> NotOffered]
  /\ refused = {}
  /\ published = <<>>
  /\ finished = FALSE

\* A contribution is handed in against the adapter that is current.
Offer(c) ==
  /\ ~finished
  /\ trainedFrom[c] = NotOffered
  /\ trainedFrom' = [trainedFrom EXCEPT ![c] = Len(published)]
  /\ UNCHANGED <<refused, published, finished>>

Refuse(C) ==
  /\ \A c \in C : trainedFrom[c] # NotOffered /\ ~Published(c)
  /\ refused' = refused \cup C
  /\ UNCHANGED <<trainedFrom, published, finished>>

Publish(K) ==
  /\ ~finished
  /\ K # {}
  /\ \A c \in K : trainedFrom[c] = Len(published) /\ c \notin refused
  /\ Len(published) < Length
  /\ published' = Append(published, K)
  /\ UNCHANGED <<trainedFrom, refused, finished>>

Finish ==
  /\ Len(published) = Length
  /\ finished' = TRUE
  /\ UNCHANGED <<trainedFrom, refused, published>>

Next ==
  \/ \E c \in Work : Offer(c)
  \/ \E C \in SUBSET Work : Refuse(C) \/ Publish(C)
  \/ Finish

Spec == Init /\ [][Next]_vars

=============================================================================
