--------------------------- MODULE MCSessionBatch ---------------------------
(* Model-checking instances of SessionBatch: the kinds of turn a run uses.   *)
EXTENDS SessionBatch

Plain == [complete |-> TRUE, save |-> FALSE]
Gap == [complete |-> FALSE, save |-> FALSE]
Save == [complete |-> TRUE, save |-> TRUE]

AllKinds == {Plain, Gap, Save}
Always == {TRUE}
Either == BOOLEAN

(* One thing goes wrong: a crash, a failed write or a batch without a route.
   And of two turns one is plain: a gap comes first or a save last. *)
Unrouted == UNION {{<<s, id>> : id \in {x \in Id : batch[s][x].unrouted}} : s \in Session}
OneTrouble == crashes' + faults' + Cardinality(Unrouted') <= 1
Histories == {<<>>, <<Plain>>, <<Gap>>, <<Plain, Plain>>, <<Gap, Plain>>, <<Plain, Save>>}
Chosen == OneTrouble /\ \A s \in Session : obs'[s] \in Histories
====
