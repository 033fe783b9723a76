---------------------------- MODULE MCGeneration ----------------------------
(* A model-checking instance of Generation: intents that share a behaviour.  *)
EXTENDS Generation

Shared == [i \in 1 .. NIntent |-> "p"]

====
