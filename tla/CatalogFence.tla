---------------------------- MODULE CatalogFence ----------------------------
(***************************************************************************)
(* What the global record promises to everybody who reads the Pending      *)
(* Catalog: one intent at a time holds it, a mutation is prepared before   *)
(* it changes anything and is then committed or dropped, and while an      *)
(* intent holds the catalog a mutation is committed only if it is the      *)
(* holder's own or leaves the catalog with nobody.                         *)
(***************************************************************************)
EXTENDS Naturals

CONSTANTS
    Holder,     \* who may hold the catalog
    Nobody      \* not a holder

VARIABLES
    epoch,      \* how many mutations have been committed
    holder,     \* who holds the catalog
    prepared    \* whose mutation is prepared: "NONE", the "HOLDER"'s or a "USER"'s

vars == <<epoch, holder, prepared>>

Init == epoch = 0 /\ holder = Nobody /\ prepared = "NONE"

Take(h) ==
    /\ holder = Nobody /\ prepared = "NONE"
    /\ holder' = h
    /\ UNCHANGED <<epoch, prepared>>

(* The holder may give the catalog back, but not in the middle of a mutation. *)
Release ==
    /\ holder # Nobody /\ prepared # "HOLDER"
    /\ holder' = Nobody
    /\ UNCHANGED <<epoch, prepared>>

PrepareHeld ==
    /\ holder # Nobody /\ prepared = "NONE"
    /\ prepared' = "HOLDER"
    /\ UNCHANGED <<epoch, holder>>

(* A user's mutation may be prepared while an intent holds the catalog, but only
   one that gives up this very intent: see its commit.                       *)
PrepareByUser ==
    /\ prepared = "NONE"
    /\ prepared' = "USER"
    /\ UNCHANGED <<epoch, holder>>

(* A commit moves the epoch; a user's leaves the catalog with nobody. *)
Commit ==
    /\ prepared # "NONE"
    /\ epoch' = epoch + 1 /\ prepared' = "NONE"
    /\ holder' = Nobody \/ (holder' = holder /\ prepared = "HOLDER")

Drop ==
    /\ prepared # "NONE"
    /\ prepared' = "NONE"
    /\ UNCHANGED <<epoch, holder>>

Next ==
    \/ \E h \in Holder : Take(h)
    \/ Release \/ PrepareHeld \/ PrepareByUser \/ Commit \/ Drop
Spec == Init /\ [][Next]_vars
====
