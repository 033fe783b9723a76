------------------------- MODULE PublicationAttempt -------------------------
(***************************************************************************)
(* What the filesystem port promises the publication coordinator about one *)
(* attempt: the answer ABSENT is given only while nothing of the attempt   *)
(* exists, PUBLISHED only once the attempt is final, and a final attempt   *)
(* is never answered with a conflict or with ABSENT, however often it is   *)
(* asked again.                                                            *)
(***************************************************************************)
CONSTANT Nothing      \* no answer is pending

VARIABLES
    disk,     \* "UNTOUCHED", "OPEN" or "FINAL"
    answer    \* the answer the coordinator has not acted on yet

vars == <<disk, answer>>

Init == disk = "UNTOUCHED" /\ answer = Nothing

(* The attempt advances while the coordinator waits. *)
Open == answer = Nothing /\ disk = "UNTOUCHED" /\ disk' = "OPEN" /\ UNCHANGED answer
Finish == answer = Nothing /\ disk = "OPEN" /\ disk' = "FINAL" /\ answer' = "PUBLISHED"

(* What may be answered when the disk is in this state. *)
Truthful(a, d) ==
    CASE a = "PUBLISHED" -> d = "FINAL"
      [] a = "ABSENT"    -> d = "UNTOUCHED"
      [] a = "CONFLICT"  -> d # "FINAL"
      [] OTHER           -> TRUE
Answer ==
    /\ answer = Nothing
    /\ \E a \in {"PUBLISHED", "ABSENT", "CONFLICT", "STALE", "UNAVAILABLE"} :
         Truthful(a, disk') /\ answer' = a
    /\ disk' = disk \/ (disk = "UNTOUCHED" /\ disk' = "OPEN")

(* The coordinator acts on the answer, or loses it in a crash. *)
Act == answer # Nothing /\ answer' = Nothing /\ UNCHANGED disk

Next == Open \/ Finish \/ Answer \/ Act
Spec == Init /\ [][Next]_vars
====
