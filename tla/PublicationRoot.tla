--------------------------- MODULE PublicationRoot ---------------------------
(***************************************************************************)
(* The directory a skill is published into: how a binding of it is         *)
(* resolved, and how a directory that was absent when it was bound is      *)
(* made, one level at a time, while its owner moves directories about.     *)
(*                                                                         *)
(* Two levels lie above the skills: .dsh and .dsh/skills of a project, or  *)
(* the DSH home and its skills.  What is above them stays where it is, and *)
(* the project's .git marker stays too.  A resolution reads both levels at *)
(* one moment.  A home has no other identity than the one of level 1: it   *)
(* cannot change without the skills directory in it changing.              *)
(***************************************************************************)
EXTENDS Integers

CONSTANTS
    Scopes,       \* the lineage's scope: "PROJECT", "USER"
    Media,        \* where the session keeps its files: "DISK", "CONTEXT"
    Bindings      \* what finding the session and its contract may give

ASSUME PublicationRootAssumption ==
    /\ Scopes \subseteq {"PROJECT", "USER"}
    /\ Media \subseteq {"DISK", "CONTEXT"}
    /\ Bindings \subseteq {"READY", "STALE", "UNAVAILABLE"}

VARIABLES
    scope, medium,  \* of the session the proposal comes from
    tree,           \* the identity of the directory at each level
    binding         \* what the process has observed of it

Levels == 1 .. 2
Absent == 0
Link == -1        \* a link, a junction or a file in the directory's place

(* The deepest level that was there, its identity, the level that preparing
   it has reached, and the identity of the root once it is prepared.         *)
NoBinding == [depth |-> 0, id |-> Absent, reached |-> 0, root |-> Absent]

Real(level) == level = 0 \/ tree[level] > 0
Ready == Real(1) /\ Real(2)

(* An identity that nobody has seen or remembers. *)
FreshFor(used) == CHOOSE n \in 1 .. 5 : n \notin used
Remembered == {tree[1], tree[2], binding.id, binding.root}

InitRoot(there) ==
    /\ scope \in Scopes /\ medium \in Media /\ binding = NoBinding
    /\ tree \in {<<Absent, Absent>>, <<1, Absent>>, <<1, 2>>}
    /\ there => Ready

----
(* What the provider says of the directory.  On the disk a home that cannot be
   observed is not there; in the session's own file system it is an error.   *)
Located ==
    IF scope = "USER" /\ (tree[1] = Absent \/ (tree[1] = Link /\ medium = "DISK")) THEN "STALE"
    ELSE IF Link \in {tree[1], tree[2]} THEN "UNAVAILABLE"
    ELSE "READY"

(* The session may be gone, its contract unsupported, its workspace another. *)
Resolutions == {IF b = "READY" THEN Located ELSE b : b \in Bindings}

Depth == IF tree[1] = Absent THEN 0 ELSE IF tree[2] = Absent THEN 1 ELSE 2
Identity(level) == IF level = 0 THEN Absent ELSE tree[level]
Observed == [depth |-> Depth, id |-> Identity(Depth), reached |-> Depth, root |-> Absent]

(* The directory the binding starts from is still the one that was observed. *)
AncestorHolds == Real(binding.depth) /\ Identity(binding.depth) = binding.id
RootHolds == tree[2] = binding.root

(* Preparing takes one more level: what is there is taken, unless it is no
   directory, what is not is made.                                           *)
NextLevel == binding.reached + 1
Passable == Real(binding.reached) /\ tree[NextLevel] # Link
WithLevel ==
    IF tree[NextLevel] # Absent THEN tree
    ELSE [tree EXCEPT ![NextLevel] = FreshFor(Remembered)]

(* A write in the session's own file system makes every level that is missing. *)
Filled ==
    LET one == IF tree[1] = Absent THEN FreshFor(Remembered) ELSE tree[1]
    IN  <<one, IF tree[2] = Absent THEN FreshFor(Remembered \cup {one}) ELSE tree[2]>>

(* What the owner may make of the path: with a level go those below it. *)
MovedTrees ==
    {t \in [Levels -> {Absent, Link, FreshFor(Remembered)} \cup {tree[1], tree[2]}] :
       \E level \in Levels :
         /\ level = 2 => Real(1)
         /\ t[level] \in {Absent, Link, FreshFor(Remembered)} \ {tree[level]}
         /\ IF level = 1 THEN t[2] = Absent ELSE t[1] = tree[1]}
====
