------------------------- MODULE ProposalDeskProofs -------------------------
(* Theorems about ProposalDesk, for every value of its constants.           *)
EXTENDS ProposalDesk, SequenceTheorems, TLAPS

----
(* The invariant: the global record and its journal have their fields, and a
   journal is open only while nobody else holds the catalog.                *)
Shaped(g) ==
    /\ g = [epoch |-> g.epoch, journal |-> g.journal, fence |-> g.fence]
    /\ g.journal = [kind |-> g.journal.kind, owner |-> g.journal.owner,
                    phase |-> g.journal.phase, epoch |-> g.journal.epoch,
                    code |-> g.journal.code]
OneOwner == global.journal.kind # None => global.fence = "FREE"
FenceInv == Shaped(global) /\ OneOwner

(* What a step may do to the global record: a journal is opened, amended,
   dropped or committed, or somebody else's hold of the catalog moves on.   *)
Becomes(epoch, kind, fence) ==
    /\ Shaped(global')
    /\ global'.epoch = epoch /\ global'.journal.kind = kind /\ global'.fence = fence
Open == global.journal.kind # None
Prepares == Free /\ \E kind : kind # None /\ Becomes(global.epoch, kind, "FREE")
Amends == Open /\ Becomes(global.epoch, global.journal.kind, global.fence)
Drops == Open /\ Becomes(global.epoch, None, global.fence)
Commits == Open /\ Becomes(global.epoch + 1, None, global.fence)
Moves(from, epoch, to) ==
    global.fence = from /\ global.journal.kind = None /\ Becomes(epoch, None, to)
Hands ==
    \/ Moves("FREE", global.epoch, "LEASE") \/ Moves("FREE", global.epoch, "PURGE")
    \/ Moves("LEASE", global.epoch, "COMMITTING") \/ Moves("LEASE", global.epoch, "FREE")
    \/ Moves("COMMITTING", global.epoch + 1, "FREE") \/ Moves("PURGE", global.epoch + 1, "FREE")
Touches == UNCHANGED global \/ Prepares \/ Amends \/ Drops \/ Commits \/ Hands

FenceKept == FenceInv' /\ [Fence!Next]_(Fence!vars)

----
(* Each of them keeps the invariant and is a step of the fence. *)

LEMMA SteadyKept ==
  ASSUME FenceInv, UNCHANGED global
  PROVE FenceKept
<1>1. FenceInv' BY Zenon DEF FenceInv, OneOwner
<1>2. UNCHANGED Fence!vars BY Zenon DEF Fence!vars
<1> QED BY <1>1, <1>2, Zenon DEF FenceKept

LEMMA PreparesKept ==
  ASSUME FenceInv, Prepares
  PROVE FenceKept
<1>1. PICK kind : kind # None /\ Becomes(global.epoch, kind, "FREE")
  BY Zenon DEF Prepares
<1>2. FenceInv' BY <1>1, Zenon DEF FenceInv, OneOwner, Becomes
<1>3. Fence!PrepareByUser
  BY <1>1 DEF Prepares, Free, Becomes, Fence!PrepareByUser, None
<1> QED BY <1>2, <1>3, Zenon DEF FenceKept, Fence!Next

LEMMA AmendsKept ==
  ASSUME FenceInv, Amends
  PROVE FenceKept
<1>1. FenceInv' BY Zenon DEF FenceInv, OneOwner, Becomes, Amends
<1>2. UNCHANGED Fence!vars BY Zenon DEF Fence!vars, Amends, Becomes
<1> QED BY <1>1, <1>2, Zenon DEF FenceKept

LEMMA DropsKept ==
  ASSUME FenceInv, Drops
  PROVE FenceKept
<1>1. FenceInv' BY Zenon DEF FenceInv, OneOwner, Becomes, Drops
<1>2. global.fence = "FREE" BY Zenon DEF FenceInv, OneOwner, Drops, Open
<1>3. Fence!Drop BY <1>2 DEF Drops, Open, Becomes, Fence!Drop, None
<1> QED BY <1>1, <1>3, Zenon DEF FenceKept, Fence!Next

LEMMA CommitsKept ==
  ASSUME FenceInv, Commits
  PROVE FenceKept
<1>1. FenceInv' BY Zenon DEF FenceInv, OneOwner, Becomes, Commits
<1>2. global.fence = "FREE"
  BY Zenon DEF FenceInv, OneOwner, Commits, Open
<1>3. Fence!Commit
  BY <1>2 DEF Commits, Open, Becomes, Fence!Commit, None
<1> QED BY <1>1, <1>3, Zenon DEF FenceKept, Fence!Next

LEMMA HandsKept ==
  ASSUME FenceInv, Hands
  PROVE FenceKept
<1>1. FenceInv' BY Zenon DEF FenceInv, OneOwner, Becomes, Hands, Moves
<1>2. CASE Moves("FREE", global.epoch, "LEASE")
  <2>1. Fence!Take("OTHERS")
    BY <1>2 DEF Moves, Becomes, Fence!Take, None
  <2> QED BY <1>1, <2>1, Zenon DEF FenceKept, Fence!Next
<1>3. CASE Moves("FREE", global.epoch, "PURGE")
  <2>1. Fence!PrepareByUser
    BY <1>3 DEF Moves, Becomes, Fence!PrepareByUser, None
  <2> QED BY <1>1, <2>1, Zenon DEF FenceKept, Fence!Next
<1>4. CASE Moves("LEASE", global.epoch, "COMMITTING")
  <2>1. Fence!PrepareHeld
    BY <1>4 DEF Moves, Becomes, Fence!PrepareHeld, None
  <2> QED BY <1>1, <2>1, Zenon DEF FenceKept, Fence!Next
<1>5. CASE Moves("LEASE", global.epoch, "FREE")
  <2>1. Fence!Release BY <1>5 DEF Moves, Becomes, Fence!Release, None
  <2> QED BY <1>1, <2>1, Zenon DEF FenceKept, Fence!Next
<1>6. CASE Moves("COMMITTING", global.epoch + 1, "FREE")
  <2>1. Fence!Commit BY <1>6 DEF Moves, Becomes, Fence!Commit, None
  <2> QED BY <1>1, <2>1, Zenon DEF FenceKept, Fence!Next
<1>7. CASE Moves("PURGE", global.epoch + 1, "FREE")
  <2>1. Fence!Commit BY <1>7 DEF Moves, Becomes, Fence!Commit, None
  <2> QED BY <1>1, <2>1, Zenon DEF FenceKept, Fence!Next
<1> QED BY <1>2, <1>3, <1>4, <1>5, <1>6, <1>7, Zenon DEF Hands

LEMMA TouchesKept ==
    ASSUME FenceInv, Touches
    PROVE FenceKept
BY SteadyKept, PreparesKept, AmendsKept, DropsKept, CommitsKept, HandsKept, Zenon DEF Touches

----
(* What the values that are written do to the record. *)

LEMMA NoJournalShape ==
    /\ NoJournal = [kind |-> NoJournal.kind, owner |-> NoJournal.owner,
                    phase |-> NoJournal.phase, epoch |-> NoJournal.epoch,
                    code |-> NoJournal.code]
    /\ NoJournal.kind = None
BY DEF NoJournal

LEMMA JournalReplaced ==
  ASSUME Shaped(global), NEW j,
         j = [kind |-> j.kind, owner |-> j.owner, phase |-> j.phase,
              epoch |-> j.epoch, code |-> j.code],
         global' = [global EXCEPT !.journal = j]
  PROVE Becomes(global.epoch, j.kind, global.fence)
<1>1. global' = [epoch |-> global.epoch, journal |-> j, fence |-> global.fence]
  BY DEF Shaped
<1> HIDE DEF Shaped
<1>2. global'.epoch = global.epoch /\ global'.journal = j /\ global'.fence = global.fence
  BY <1>1
<1> QED BY <1>1, <1>2, Zenon DEF Becomes, Shaped

LEMMA PreparedTouches ==
  ASSUME FenceInv, Free, NEW kind, kind # None, NEW owner, global' = Prepared(kind, owner)
  PROVE Touches
<1> DEFINE j == [NoJournal EXCEPT !.kind = kind, !.owner = owner, !.epoch = global.epoch]
<1>1. j = [kind |-> kind, owner |-> owner, phase |-> "PREPARED", epoch |-> global.epoch,
           code |-> None]
  <2> DEFINE i == [NoJournal EXCEPT !.kind = kind]
             h == [i EXCEPT !.owner = owner]
  <2>1. i = [kind |-> kind, owner |-> <<0, 0>>, phase |-> "PREPARED", epoch |-> 0, code |-> None]
    BY DEF NoJournal
  <2>2. j = [h EXCEPT !.epoch = global.epoch] BY Zenon
  <2> HIDE DEF i, j
  <2>3. h = [kind |-> kind, owner |-> owner, phase |-> "PREPARED", epoch |-> 0, code |-> None]
    BY <2>1
  <2> HIDE DEF h
  <2> QED BY <2>2, <2>3
<1>2. j = [kind |-> j.kind, owner |-> j.owner, phase |-> j.phase, epoch |-> j.epoch,
           code |-> j.code] /\ j.kind = kind
  BY <1>1
<1>3. global' = [global EXCEPT !.journal = j] BY Zenon DEF Prepared
<1> HIDE DEF j
<1>4. Becomes(global.epoch, kind, global.fence)
  BY <1>2, <1>3, JournalReplaced, Zenon DEF FenceInv
<1> QED BY <1>4, Zenon DEF Touches, Prepares, Free

LEMMA PhasedTouches ==
  ASSUME FenceInv, Open, NEW phase, NEW code, global' = Phased(phase, code)
  PROVE Touches
<1> DEFINE j == [global.journal EXCEPT !.phase = phase, !.code = code]
<1>1. j = [kind |-> global.journal.kind, owner |-> global.journal.owner, phase |-> phase,
           epoch |-> global.journal.epoch, code |-> code]
  <2> DEFINE i == [global.journal EXCEPT !.phase = phase]
  <2>1. i = [kind |-> global.journal.kind, owner |-> global.journal.owner, phase |-> phase,
             epoch |-> global.journal.epoch, code |-> global.journal.code]
    BY DEF FenceInv, Shaped
  <2>2. j = [i EXCEPT !.code = code] BY Zenon
  <2> HIDE DEF i, j
  <2> QED BY <2>1, <2>2
<1>2. j = [kind |-> j.kind, owner |-> j.owner, phase |-> j.phase, epoch |-> j.epoch,
           code |-> j.code] /\ j.kind = global.journal.kind
  BY <1>1
<1> DEFINE i == [global.journal EXCEPT !.phase = phase]
           h == [epoch |-> global.epoch, journal |-> i, fence |-> global.fence]
<1>3. global' = [global EXCEPT !.journal = j]
  <2>1. [global EXCEPT !.journal.phase = phase] = h
    BY DEF FenceInv, Shaped
  <2>2. global' = [h EXCEPT !.journal.code = code]
    BY <2>1, Zenon DEF Phased
  <2> HIDE DEF i
  <2>3. [h EXCEPT !.journal.code = code]
        = [epoch |-> global.epoch, journal |-> [i EXCEPT !.code = code], fence |-> global.fence]
    OBVIOUS
  <2>4. j = [i EXCEPT !.code = code] BY Zenon DEF i
  <2>5. [global EXCEPT !.journal = j]
        = [epoch |-> global.epoch, journal |-> j, fence |-> global.fence]
    <3> HIDE DEF j
    <3> QED BY DEF FenceInv, Shaped
  <2> QED BY <2>2, <2>3, <2>4, <2>5, Zenon
<1> HIDE DEF j
<1>4. Becomes(global.epoch, global.journal.kind, global.fence)
  BY <1>2, <1>3, JournalReplaced, Zenon DEF FenceInv
<1> QED BY <1>4, Zenon DEF Touches, Amends

LEMMA DroppedTouches ==
  ASSUME FenceInv, Open, global' = Dropped
  PROVE Touches
<1>1. Becomes(global.epoch, None, global.fence)
  BY NoJournalShape, JournalReplaced, Zenon DEF FenceInv, Dropped
<1> QED BY <1>1, Zenon DEF Touches, Drops

LEMMA CommittedTouches ==
  ASSUME FenceInv, Open, global' = Committed
  PROVE Touches
<1>1. global' = [epoch |-> global.epoch + 1, journal |-> NoJournal, fence |-> global.fence]
  BY DEF Committed, FenceInv, Shaped
<1>2. /\ global'.epoch = global.epoch + 1 /\ global'.journal = NoJournal
      /\ global'.fence = global.fence
  BY <1>1
<1>3. Shaped(global') BY <1>1, <1>2, NoJournalShape, Zenon DEF Shaped
<1>4. Becomes(global.epoch + 1, None, global.fence)
  BY <1>2, <1>3, NoJournalShape, Zenon DEF Becomes
<1> QED BY <1>4, Zenon DEF Touches, Commits

LEMMA FenceMoved ==
  ASSUME FenceInv, global.journal.kind = None, NEW to,
         global' = [global EXCEPT !.fence = to]
  PROVE Becomes(global.epoch, None, to)
<1>1. global' = [epoch |-> global.epoch, journal |-> global.journal, fence |-> to]
  BY DEF FenceInv, Shaped
<1>2. global'.epoch = global.epoch /\ global'.journal = global.journal /\ global'.fence = to
  BY <1>1
<1>3. Shaped(global') BY <1>1, <1>2, Zenon DEF Shaped, FenceInv
<1> QED BY <1>2, <1>3, Zenon DEF Becomes

LEMMA FenceMovedOn ==
  ASSUME FenceInv, global.journal.kind = None, NEW to,
         global' = [global EXCEPT !.fence = to, !.epoch = @ + 1]
  PROVE Becomes(global.epoch + 1, None, to)
<1>1. global' = [epoch |-> global.epoch + 1, journal |-> global.journal, fence |-> to]
  BY DEF FenceInv, Shaped
<1>2. global'.epoch = global.epoch + 1 /\ global'.journal = global.journal /\ global'.fence = to
  BY <1>1
<1>3. Shaped(global') BY <1>1, <1>2, Zenon DEF Shaped, FenceInv
<1> QED BY <1>2, <1>3, Zenon DEF Becomes

LEMMA OwnsOpen ==
    ASSUME NEW kind, kind # None, NEW owner, Owns(kind, owner)
    PROVE Open
BY Zenon DEF Owns, Open

LEMMA KindNames ==
    /\ "REVIEW" # None /\ "PUBLICATION" # None /\ "REFRESH" # None /\ "REVISION" # None
BY DEF None

----
(* The steps, one by one. *)

(* Steps that write nothing, or the row of a lineage. *)
LEMMA QuietSteps ==
  ASSUME NEW c,
         \/ Begin(c) \/ Restore(c) \/ Ask \/ Crash
         \/ Inspect \/ Relieve \/ Approve \/ Attention \/ Decide \/ RecoverReview \/ Returned
         \/ Publish \/ Install \/ AskDisk \/ RecordRefusal \/ PublishRow \/ Reconcile \/ Recheck
         \/ RecordFailure("note", Throw("publication"))
         \/ RecordFailure("failure", PublicationFailed)
         \/ Supersede \/ Recall \/ RecoverRefresh
         \/ Revise \/ ReserveCall \/ Call \/ RecheckRevision \/ Child \/ MarkFailed \/ ForgetCalls
  PROVE UNCHANGED global
<1>1. CASE Begin(c) BY <1>1, Zenon DEF Begin, Same
<1>2. CASE Restore(c) BY <1>2, Zenon DEF Restore, Same
<1>3. CASE Ask BY <1>3, Zenon DEF Ask
<1>4. CASE Crash BY <1>4, Zenon DEF Crash
<1>5. CASE Inspect BY <1>5, Zenon DEF Inspect, Same
<1>6. CASE Approve BY <1>6, Zenon DEF Approve, Same
<1>7. CASE RecoverReview BY <1>7, Zenon DEF RecoverReview, Same
<1>8. CASE Returned BY <1>8, Zenon DEF Returned, Same
<1>9. CASE Publish BY <1>9, Zenon DEF Publish, Same
<1>10. CASE Reconcile BY <1>10, Zenon DEF Reconcile, Same
<1>11. CASE Recheck BY <1>11, Zenon DEF Recheck, Same
<1>12. CASE RecoverRefresh BY <1>12, Zenon DEF RecoverRefresh, Same
<1>13. CASE Revise BY <1>13, Zenon DEF Revise, Same
<1>14. CASE Call BY <1>14, Zenon DEF Call, Same
<1>15. CASE RecheckRevision BY <1>15, Zenon DEF RecheckRevision, Same
<1>16. CASE Install BY <1>16, Zenon DEF Install, Awaits, Same
<1>17. CASE AskDisk BY <1>17, Zenon DEF AskDisk, Awaits, Same
<1>18. CASE Relieve BY <1>18, Zenon DEF Relieve, PutLineage, Write
<1>19. CASE Attention BY <1>19, Zenon DEF Attention, PutLineage, Write
<1>20. CASE Decide BY <1>20, Zenon DEF Decide, PutLineage, Write
<1>21. CASE PublishRow BY <1>21, Zenon DEF PublishRow, PutLineage, Write
<1>22. CASE Supersede BY <1>22, Zenon DEF Supersede, PutLineage, Write
<1>23. CASE ReserveCall
  BY <1>23, Zenon DEF ReserveCall, PutLineage, Write
<1>24. CASE Child BY <1>24, Zenon DEF Child, PutLineage, Write
<1>25. CASE MarkFailed BY <1>25, Zenon DEF MarkFailed, PutLineage, Write
<1>26. CASE RecordRefusal
  BY <1>26, Zenon DEF RecordRefusal, PutLineage, Write, Same
<1>27. CASE Recall BY <1>27, Zenon DEF Recall, PutLineage, Write, Same
<1>28. CASE RecordFailure("note", Throw("publication"))
  BY <1>28, Zenon DEF RecordFailure, PutLineage, Write
<1>29. CASE RecordFailure("failure", PublicationFailed)
  BY <1>29, Zenon DEF RecordFailure, PutLineage, Write
<1>30. CASE ForgetCalls BY <1>30, Zenon DEF ForgetCalls
<1> QED BY <1>1, <1>2, <1>3, <1>4, <1>5, <1>6, <1>7, <1>8, <1>9, <1>10, <1>11, <1>12,
         <1>13, <1>14, <1>15, <1>16, <1>17, <1>18, <1>19, <1>20, <1>21, <1>22, <1>23,
         <1>24, <1>25, <1>26, <1>27, <1>28, <1>29, <1>30, Zenon

(* A journal is opened. *)
LEMMA Preparing ==
  ASSUME FenceInv, PrepareReview \/ PreparePublication \/ PrepareRefresh \/ PrepareRevision
  PROVE Touches
<1>1. CASE PrepareReview
  <2>1. \/ UNCHANGED global
        \/ Free /\ global' = Prepared("REVIEW", Owner(job["review"]))
    BY <1>1, Zenon DEF PrepareReview, PutGlobal, Write, Same
  <2> QED BY <2>1, KindNames, PreparedTouches, Zenon DEF Touches
<1>2. CASE PreparePublication
  <2>1. \/ UNCHANGED global
        \/ Free /\ global' = Prepared("PUBLICATION", Owner(job["publication"]))
    BY <1>2, Zenon DEF PreparePublication, PutGlobal, Write, Same
  <2> QED BY <2>1, KindNames, PreparedTouches, Zenon DEF Touches
<1>3. CASE PrepareRefresh
  <2>1. \/ UNCHANGED global
        \/ Free /\ global' = Prepared("REFRESH", Owner(job["refresh"]))
    BY <1>3, Zenon DEF PrepareRefresh, PutGlobal, Write, Same
  <2> QED BY <2>1, KindNames, PreparedTouches, Zenon DEF Touches
<1>4. CASE PrepareRevision
  <2>1. \/ UNCHANGED global
        \/ Free /\ global' = Prepared("REVISION", RevisionOwner(job["revision"]))
    BY <1>4, Zenon DEF PrepareRevision, PutGlobal, Write, Same
  <2> QED BY <2>1, KindNames, PreparedTouches, Zenon DEF Touches
<1> QED BY <1>1, <1>2, <1>3, <1>4, Zenon

(* Its attempt starts, is refused or starts again. *)
LEMMA Amending ==
  ASSUME FenceInv, Execute \/ Refuse \/ Unexecute
  PROVE Touches
<1>1. CASE Execute
  <2>1. \/ UNCHANGED global
        \/ HoldsAttempt(job["publication"]) /\ global' = Phased("EXECUTING", None)
    BY <1>1, Zenon DEF Execute, PutGlobal, Write
  <2>2. HoldsAttempt(job["publication"]) => Open
    BY KindNames, OwnsOpen, Zenon DEF HoldsAttempt
  <2> QED BY <2>1, <2>2, PhasedTouches, Zenon DEF Touches
<1>2. CASE Refuse
  <2>1. \/ UNCHANGED global
        \/ HoldsAttempt(job["publication"]) /\ global' = Phased("NEEDS_REFRESH", job["publication"].code)
    BY <1>2, Zenon DEF Refuse, PutGlobal, Write
  <2>2. HoldsAttempt(job["publication"]) => Open
    BY KindNames, OwnsOpen, Zenon DEF HoldsAttempt
  <2> QED BY <2>1, <2>2, PhasedTouches, Zenon DEF Touches
<1>3. CASE Unexecute
  <2>1. \/ UNCHANGED global
        \/ HoldsAttempt(job["publication"]) /\ global' = Phased("PREPARED", None)
    BY <1>3, Zenon DEF Unexecute, PutGlobal, Write
  <2>2. HoldsAttempt(job["publication"]) => Open
    BY KindNames, OwnsOpen, Zenon DEF HoldsAttempt
  <2> QED BY <2>1, <2>2, PhasedTouches, Zenon DEF Touches
<1> QED BY <1>1, <1>2, <1>3, Zenon

(* It is dropped or committed, by its own operation or by a recovery. *)
LEMMA Closing ==
  ASSUME FenceInv,
         \/ ClearReview \/ CommitReview \/ ClearAttempt \/ CommitAttempt
         \/ CommitRefresh \/ Settle \/ Salvage
  PROVE Touches
<1>1. CASE ClearReview
  <2>1. UNCHANGED global \/ (Current("REVIEW", Owner(job["review"])) /\ global' = Dropped)
    BY <1>1, Zenon DEF ClearReview, CloseReview, PutGlobal, Write
  <2>2. Current("REVIEW", Owner(job["review"])) => Open
    BY KindNames, OwnsOpen, Zenon DEF HoldsAttempt, Current
  <2> QED BY <2>1, <2>2, DroppedTouches, Zenon DEF Touches
<1>2. CASE CommitReview
  <2>1. UNCHANGED global \/ (Current("REVIEW", Owner(job["review"])) /\ global' = Committed)
    BY <1>2, Zenon DEF CommitReview, CloseReview, PutGlobal, Write
  <2>2. Current("REVIEW", Owner(job["review"])) => Open
    BY KindNames, OwnsOpen, Zenon DEF HoldsAttempt, Current
  <2> QED BY <2>1, <2>2, CommittedTouches, Zenon DEF Touches
<1>3. CASE ClearAttempt
  <2>1. UNCHANGED global \/ (HoldsAttempt(job["publication"]) /\ global' = Dropped)
    BY <1>3, Zenon DEF ClearAttempt, PutGlobal, Write
  <2>2. HoldsAttempt(job["publication"]) => Open
    BY KindNames, OwnsOpen, Zenon DEF HoldsAttempt, Current
  <2> QED BY <2>1, <2>2, DroppedTouches, Zenon DEF Touches
<1>4. CASE CommitAttempt
  <2>1. UNCHANGED global \/ (HoldsAttempt(job["publication"]) /\ global' = Committed)
    BY <1>4, Zenon DEF CommitAttempt, PutGlobal, Write
  <2>2. HoldsAttempt(job["publication"]) => Open
    BY KindNames, OwnsOpen, Zenon DEF HoldsAttempt, Current
  <2> QED BY <2>1, <2>2, CommittedTouches, Zenon DEF Touches
<1>5. CASE CommitRefresh
  <2>1. UNCHANGED global \/ (Owns("REFRESH", Owner(job["refresh"])) /\ global' = Committed)
    BY <1>5, Zenon DEF CommitRefresh, PutGlobal, Write
  <2>2. Owns("REFRESH", Owner(job["refresh"])) => Open
    BY KindNames, OwnsOpen, Zenon DEF HoldsAttempt, Current
  <2> QED BY <2>1, <2>2, CommittedTouches, Zenon DEF Touches
<1>6. CASE Settle
  <2>1. UNCHANGED global \/ (Current("REVISION", RevisionOwner(job["revision"])) /\ global' = Committed)
    BY <1>6, Zenon DEF Settle, PutGlobal, Write
  <2>2. Current("REVISION", RevisionOwner(job["revision"])) => Open
    BY KindNames, OwnsOpen, Zenon DEF HoldsAttempt, Current
  <2> QED BY <2>1, <2>2, CommittedTouches, Zenon DEF Touches
<1>7. CASE Salvage
  <2>1. \/ UNCHANGED global
        \/ global.journal.kind = "REVISION" /\ (global' = Committed \/ global' = Dropped)
    BY <1>7, Zenon DEF Salvage, PutGlobal, Write, Same
  <2>2. global.journal.kind = "REVISION" => Open
    BY KindNames, Zenon DEF Open
  <2> QED BY <2>1, <2>2, CommittedTouches, DroppedTouches, Zenon DEF Touches
<1> QED BY <1>1, <1>2, <1>3, <1>4, <1>5, <1>6, <1>7, Zenon

(* Somebody else takes the catalog, and goes on with it. *)
LEMMA Handing ==
  ASSUME FenceInv, Take \/ Commit \/ Release \/ Purge
  PROVE Touches
<1>1. CASE Take
  <2>1. Free /\ \E f \in {"LEASE", "PURGE"} : global' = [global EXCEPT !.fence = f]
    BY <1>1, Zenon DEF Take
  <2> QED BY <2>1, FenceMoved, Zenon DEF Touches, Hands, Moves, Free
<1>2. CASE Commit
  <2>1. /\ global.fence = "LEASE" /\ global.journal.kind = None
        /\ global' = [global EXCEPT !.fence = "COMMITTING"]
    BY <1>2, Zenon DEF Commit
  <2> QED BY <2>1, FenceMoved, Zenon DEF Touches, Hands, Moves
<1>3. CASE Release
  <2>1. /\ global.journal.kind = None
        /\ \/ global.fence = "LEASE" /\ global' = [global EXCEPT !.fence = "FREE"]
           \/ /\ global.fence = "COMMITTING"
              /\ global' = [global EXCEPT !.fence = "FREE", !.epoch = @ + 1]
    BY <1>3, Zenon DEF Release
  <2> QED BY <2>1, FenceMoved, FenceMovedOn, Zenon DEF Touches, Hands, Moves
<1>4. CASE Purge
  <2>1. /\ global.fence = "PURGE"
        /\ UNCHANGED global \/ global' = [global EXCEPT !.fence = "FREE", !.epoch = @ + 1]
    BY <1>4, Zenon DEF Purge
  <2>2. global.journal.kind = None BY <2>1, Zenon DEF FenceInv, OneOwner
  <2> QED BY <2>1, <2>2, FenceMovedOn, Zenon DEF Touches, Hands, Moves
<1> QED BY <1>1, <1>2, <1>3, <1>4, Zenon

LEMMA NextTouches ==
  ASSUME FenceInv, [Next]_vars
  PROVE Touches
<1>1. CASE UNCHANGED vars BY <1>1, Zenon DEF vars, Touches
<1>2. CASE Environment
  BY <1>2, QuietSteps, Handing, Zenon DEF Environment, Touches
<1>3. CASE \E c \in Coordinators : Begin(c) \/ Restore(c)
  BY <1>3, QuietSteps, Zenon DEF Touches
<1>4. CASE Review
  BY <1>4, QuietSteps, Preparing, Closing, Zenon DEF Review, Touches
<1>5. CASE Publication
  BY <1>5, QuietSteps, Preparing, Amending, Closing, Zenon DEF Publication, Touches
<1>6. CASE Refresh
  BY <1>6, QuietSteps, Preparing, Closing, Zenon DEF Refresh, Touches
<1>7. CASE Revision
  BY <1>7, QuietSteps, Preparing, Closing, Zenon DEF Revision, Touches
<1> QED BY <1>1, <1>2, <1>3, <1>4, <1>5, <1>6, <1>7, Zenon DEF Next, Desk

----
LEMMA InitFence == Init => FenceInv /\ Fence!Init
<1> SUFFICES ASSUME Init PROVE FenceInv /\ Fence!Init OBVIOUS
<1>1. global = [epoch |-> 0, journal |-> NoJournal, fence |-> "FREE"]
  BY Zenon DEF Init
<1>2. global.epoch = 0 /\ global.journal = NoJournal /\ global.fence = "FREE"
  BY <1>1
<1>3. FenceInv
  BY <1>1, <1>2, NoJournalShape, Zenon DEF FenceInv, Shaped, OneOwner
<1>4. Fence!Init BY <1>2, NoJournalShape DEF Fence!Init, None
<1> QED BY <1>3, <1>4

LEMMA NextFence == FenceInv /\ [Next]_vars => FenceKept
  BY NextTouches, TouchesKept, Zenon

(* The four coordinators of the desk share the catalog with generation and purge
   as a fence allows: a journal is opened only while nobody holds the catalog
   and no other is open, every mutation that moves the epoch closes the journal
   that was opened for it, and a generation that holds the catalog finds it as
   it took it, for every set of lineages and of operations and every order of
   requests, failed writes, crashes and recoveries
   (the guards on globalMutationJournal, generationLease and purgeJournal in
   every prepare, finalize and recover of application/review and publication). *)
THEOREM FenceImplemented == Spec => ImplementsFence
<1>1. Spec => []FenceInv
  <2>1. FenceInv /\ [Next]_vars => FenceInv'
    BY NextFence, Zenon DEF FenceKept
  <2> QED BY <2>1, InitFence, PTL DEF Spec
<1>2. FenceInv /\ [Next]_vars => [Fence!Next]_(Fence!vars)
  BY NextFence, Zenon DEF FenceKept
<1> QED BY <1>1, <1>2, InitFence, PTL DEF Spec, ImplementsFence, Fence!Spec

----
(* The desk's invariant.  What a coordinator has read of a lineage is either
   still so or the lineage has a later revision, and its last proposal is the
   one that was read, decided since perhaps, or was made at a later epoch.
   A lineage that was removed had proposals of earlier epochs only.          *)
Live(l) == lineage[l].state # "ABSENT"
AsRead(s, ln) ==
    \/ s.revision < ln.revision
    \/ /\ s.revision = ln.revision /\ s.state = ln.state
       /\ s.proposals = ln.proposals /\ s.actions = ln.actions
Follows(s, ln) ==
    \/ Len(s.proposals) < Len(ln.proposals) /\ Last(s).epoch < Last(ln).epoch
    \/ /\ Len(s.proposals) = Len(ln.proposals) /\ Last(s).epoch = Last(ln).epoch
       /\ Last(s).by = Last(ln).by /\ Last(s).decision \in {None, Last(ln).decision}
Past(l, s) ==
    IF s.state = "ABSENT" THEN ~Live(l)
    ELSE /\ s.proposals # << >>
         /\ IF Live(l) THEN AsRead(s, lineage[l]) /\ Follows(s, lineage[l])
            ELSE \/ Last(s).epoch < global.epoch
                 \/ global.fence = "PURGE" /\ Last(s).epoch <= global.epoch

(* The last proposal is of an epoch that has come, or is the child of the
   revision that is about to move the epoch; and a lineage leaves ACTIVE under a
   journal that moves the epoch, to be refreshed only by its first proposal.  *)
ChildAhead(owner, l, epoch) ==
    owner[1] = l /\ Last(lineage[l]).epoch = epoch + 1 /\ Last(lineage[l]).by = -owner[2]
InEpoch(l) ==
    \/ Last(lineage[l]).epoch <= global.epoch
    \/ global.journal.kind = "REVISION" /\ ChildAhead(global.journal.owner, l, global.epoch)
Leaves(l, state, kind) ==
    lineage[l].state = state =>
        \/ Last(lineage[l]).epoch < global.epoch
        \/ Owns(kind, <<l, Len(lineage[l].proposals)>>)
Once(l) == lineage[l].state = "REFRESHING" => Len(lineage[l].proposals) = 1
OutOfPlay(l) ==
    /\ Leaves(l, "PUBLISHED", "PUBLICATION") /\ Leaves(l, "TERMINAL", "REVIEW")
    /\ Leaves(l, "REFRESHING", "REFRESH") /\ Once(l)
RowInv(l) == Live(l) => ValidLineage(lineage[l]) /\ InEpoch(l) /\ OutOfPlay(l)

(* The journal of an attempt names an approved proposal of the present epoch,
   and until the attempt has started there is no final file of it that it was not
   denied.                                                                   *)
NotFinal(owner, epoch) ==
    \A a \in final \ denied : ~(owner = <<a[1], a[2]>> /\ epoch = a[3])
Approved(owner) ==
    /\ owner[1] \in Lineages /\ Live(owner[1])
    /\ owner = <<owner[1], Len(lineage[owner[1]].proposals)>>
    /\ Last(lineage[owner[1]]).decision = "APPROVED"
    /\ Last(lineage[owner[1]]).epoch = global.epoch
    /\ lineage[owner[1]].state \in {"ACTIVE", "PUBLISHED"}
JournalInv ==
    LET jr == global.journal
    IN  /\ ValidJournal(jr)
        /\ jr.kind # None => jr.epoch = global.epoch
        /\ jr.kind = "PUBLICATION" =>
               /\ Approved(jr.owner)
               /\ jr.phase # "EXECUTING" => NotFinal(jr.owner, jr.epoch)

(* What each coordinator knows at its steps. *)
Looks(j) == Past(j.l, j.seen) /\ j.seen.state # "ABSENT" /\ Len(j.seen.proposals) = j.ref
ReviewInv ==
    LET j == job["review"]
    IN  /\ j.at \in {"inspect", "relieve", "approve", "attention", "prepare", "decide"} => Looks(j)
        /\ j.at = "attention" => j.code \in Codes
        /\ j.at = "decide" => Owns("REVIEW", Owner(j))
        /\ j.at = "clear" => lineage[j.l].state # "TERMINAL"

Attempting == {"execute", "install", "ask disk", "refuse", "failure", "failure, clear", "clear",
               "publish row", "unexecute", "recheck"}
PublicationInv ==
    LET j == job["publication"]
    IN  /\ j.at \in {"publish", "prepare", "note", "commit"} \cup Attempting => Looks(j)
        /\ j.at \in {"publish", "prepare", "note"} =>
               j.seen.state = "ACTIVE" /\ Last(j.seen).decision = "APPROVED"
        /\ j.at = "prepare" => Last(j.seen).epoch = j.epoch
        /\ j.at \in {"note", "refuse", "failure", "failure, clear"} => j.code \in Codes
        /\ j.at \in Attempting => HoldsAttempt(j) /\ lineage[j.l].state # "PUBLISHED"
        /\ j.at = "commit" => HoldsAttempt(j) /\ lineage[j.l].state = "PUBLISHED"
        /\ j.at \in {"install", "ask disk"} => global.journal.phase = "EXECUTING"
        /\ j.at \in {"execute", "failure, clear", "clear", "recheck"} =>
               global.journal.phase # "EXECUTING"
        /\ j.at \in {"refuse", "unexecute"} => NotFinal(Owner(j), j.epoch)

Superseded(j) ==
    LET n == Len(lineage[j.l].proposals)
    IN  ~Live(j.l) \/ n > j.ref \/ (n = j.ref /\ lineage[j.l].state # "ACTIVE")
RefreshInv ==
    LET j == job["refresh"]
    IN  /\ j.at = "supersede" \/ (j.at = "unrefreshed" /\ j.op # "restore") =>
               Owns("REFRESH", Owner(j)) \/ Superseded(j)
        /\ j.at \in {"recall", "reserve"} => Superseded(j)

Reserved(j) == Live(j.l) /\ Len(lineage[j.l].proposals) = j.ref =>
    \E k \in Acts(lineage[j.l], j.id) : lineage[j.l].actions[k].parent = j.ref
RevisionInv ==
    LET j == job["revision"]
    IN  /\ j.at \in {"revise", "reserve", "call", "recheck", "prepare", "child"} =>
               /\ Looks(j) /\ j.id \in Ids
               /\ ValidProposal(j.parent) /\ j.parent.state = "ACTIVE"
               /\ j.parent.by = Last(j.seen).by
        /\ j.at \in {"revise", "reserve"} => Acts(j.seen, j.id) = {}
        /\ j.at \in {"call", "recheck", "prepare", "child"} => Reserved(j)
        /\ j.at \in {"prepare", "child"} => Last(j.seen).epoch = j.epoch
        /\ j.at = "child" => Owns("REVISION", RevisionOwner(j)) /\ global.epoch = j.epoch
        /\ j.at = "fail" => Past(j.l, j.seen)

(* Types; and a job has a lineage, but for a recovery that has yet to read one. *)
GlobalTypes ==
    /\ global.epoch \in Nat /\ global.fence \in {"FREE", "LEASE", "COMMITTING", "PURGE"}
    /\ global.journal.kind \in {None, "REVIEW", "PUBLICATION", "REFRESH", "REVISION"}
    /\ global.journal.phase \in {"PREPARED", "EXECUTING", "NEEDS_REFRESH"}
    /\ global.journal.code \in Codes \cup {None}
Ops == {None, "inspect", "approve", "reject", "publish", "recover", "refresh", "revise",
        "restore", "undo"}
Unnamed == {"unrefreshed", "salvage", "reviewed", "reconcile", "forget"}
Job == [at : Steps, op : Ops, l : Lineages \cup {0}, ref : Nat, id : Ids \cup {0}, epoch : Nat,
        code : Codes \cup {None}, seen : Lineage, parent : Proposal]
JobOK(j) ==
    /\ j \in Job
    /\ j.l \in Lineages \/ j.at = "idle" \/ (j.op = "restore" /\ j.at \in Unnamed)
AskedOK(r) ==
    /\ r.op \in Ops \ {None, "restore", "undo"} /\ r.l \in Lineages
    /\ r.rev \in Nat /\ r.ref \in Nat
    /\ r.id \in Ids \cup {0} /\ (r.op = "revise" => r.id \in Ids)
Modes == Coordinators \cup {"up", "failed"}
QueueOK == mode \in Modes /\ \A r \in asked : AskedOK(r)
JobsOK == job \in [Coordinators -> Job] /\ \A c \in Coordinators : JobOK(job[c])

(* What is on record, and the whole. *)
RowsInv == lineage \in [Lineages -> Lineage] /\ \A l \in Lineages : RowInv(l)
DiskInv ==
    /\ final \subseteq opened /\ denied \subseteq final
    /\ \A a \in final : a = <<a[1], a[2], a[3]>> /\ a[1] \in Lineages
    /\ PublishedIsAccounted
Record == FenceInv /\ GlobalTypes /\ RowsInv /\ JournalInv /\ DiskInv
Knows(c) ==
    CASE c = "review" -> ReviewInv [] c = "publication" -> PublicationInv
      [] c = "refresh" -> RefreshInv [] c = "revision" -> RevisionInv [] OTHER -> TRUE
DeskInv == Record /\ JobsOK /\ QueueOK /\ \A c \in Coordinators : Knows(c)

----
(* A step, seen by everybody but its coordinator: the journal of another is left
   alone, and every lineage stays, moves to a later revision or is purged.   *)
Held(c) ==
    CASE c = "review" -> "REVIEW" [] c = "publication" -> "PUBLICATION"
      [] c = "refresh" -> "REFRESH" [] c = "revision" -> "REVISION" [] OTHER -> None
Ages ==
    \/ global'.epoch = global.epoch + 1
    \/ global'.epoch = global.epoch /\ (global.fence = "PURGE" => global'.fence = "PURGE")
Journals(kind) == global.journal.kind = kind
Longer(ln, m) == Len(ln.proposals) < Len(m.proposals)
StateMoves(c, ln, m) ==
    \/ m.state = ln.state /\ (Longer(ln, m) => ln.state = "ACTIVE" /\ Journals("REVISION"))
    \/ /\ ln.state = "REFRESHING" /\ m.state = "ACTIVE" /\ Longer(ln, m) /\ Journals(None)
    \/ /\ ~Longer(ln, m)
       /\ \/ ln.state = "ACTIVE" /\ m.state = "PUBLISHED" /\ c = "publication" /\ Journals(Held(c))
          \/ ln.state # "PUBLISHED" /\ m.state = "TERMINAL" /\ c = "review" /\ Journals(Held(c))
          \/ /\ ln.state = "ACTIVE" /\ m.state = "REFRESHING" /\ c = "refresh"
             /\ Journals(Held(c)) /\ Len(m.proposals) = 1
Grows(c, ln, m) ==
    /\ AsRead(ln, m) /\ Follows(ln, m) /\ StateMoves(c, ln, m)
    /\ ~Longer(ln, m) => \A k \in DOMAIN ln.actions :
          /\ k \in DOMAIN m.actions /\ m.actions[k].id = ln.actions[k].id
          /\ m.actions[k].parent = ln.actions[k].parent
RowMoves(c, l) ==
    \/ ~Live(l) /\ ~Live(l)'
    \/ Live(l) /\ ~Live(l)' /\ global.fence = "PURGE" /\ UNCHANGED global
    \/ Live(l) /\ Live(l)' /\ Grows(c, lineage[l], lineage'[l])
World(c) ==
    /\ global.journal.kind \notin {None, Held(c)} => UNCHANGED global
    /\ Ages /\ \A l \in Lineages : RowMoves(c, l)
    /\ c # "publication" => UNCHANGED <<opened, final, denied>>

----
(* Rows and what was read of them. *)

LEMMA RowFields ==
    ASSUME NEW ln \in Lineage
    PROVE  /\ ln.state \in {"ACTIVE", "REFRESHING", "PUBLISHED", "TERMINAL", "ABSENT"}
           /\ ln.revision \in Nat /\ ln.intent \in {"READY", "RECALLING"}
           /\ ln.proposals \in Seq(Proposal) /\ ln.actions \in Seq(Action)
           /\ Len(ln.proposals) \in Nat
           /\ DOMAIN ln.proposals = 1..Len(ln.proposals)
           /\ DOMAIN ln.actions = 1..Len(ln.actions) /\ Len(ln.actions) \in Nat
BY DEF Lineage

LEMMA ProposalFields ==
    ASSUME NEW p \in Proposal
    PROVE  /\ p.state \in {"ACTIVE", "SUPERSEDED", "TERMINAL", "PUBLISHED"}
           /\ p.decision \in {None, "APPROVED", "REJECTED"}
           /\ p.review \in Codes \cup {None} /\ p.publication \in Codes \cup {None}
           /\ p.epoch \in Nat /\ p.by \in Nat
BY DEF Proposal

LEMMA LastField ==
  ASSUME NEW ln \in Lineage, ln.proposals # << >>
  PROVE  /\ Last(ln) \in Proposal /\ Len(ln.proposals) \in DOMAIN ln.proposals
         /\ Len(ln.proposals) > 0 /\ Last(ln).epoch \in Nat
<1>1. ln.proposals \in Seq(Proposal) BY RowFields, Zenon
<1>2. Len(ln.proposals) \in 1..Len(ln.proposals) BY <1>1
<1>3. Last(ln) \in Proposal BY <1>1, <1>2, ElementOfSeq, Zenon DEF Last
<1> QED BY <1>1, <1>2, <1>3, RowFields, ProposalFields

LEMMA FollowsOn ==
  ASSUME NEW s \in Lineage, NEW ln \in Lineage, NEW m \in Lineage,
         s.proposals # << >>, ln.proposals # << >>, m.proposals # << >>,
         Follows(s, ln), Follows(ln, m)
  PROVE Follows(s, m)
<1>1. /\ Last(s).epoch \in Nat /\ Last(ln).epoch \in Nat /\ Last(m).epoch \in Nat
      /\ Len(s.proposals) \in Nat /\ Len(ln.proposals) \in Nat /\ Len(m.proposals) \in Nat
  BY LastField, RowFields, Zenon
<1> QED BY <1>1 DEF Follows

LEMMA AsReadOn ==
  ASSUME NEW s \in Lineage, NEW ln \in Lineage, NEW m \in Lineage,
         AsRead(s, ln), AsRead(ln, m)
  PROVE AsRead(s, m)
<1>1. s.revision \in Nat /\ ln.revision \in Nat /\ m.revision \in Nat
  BY RowFields, Zenon
<1> QED BY <1>1 DEF AsRead

LEMMA RowAlone ==
    ASSUME RowsInv, NEW l \in Lineages
    PROVE  /\ lineage[l] \in Lineage
           /\ Live(l) => /\ ValidLineage(lineage[l]) /\ InEpoch(l) /\ OutOfPlay(l)
                         /\ lineage[l].proposals # << >>
BY Zenon DEF RowsInv, RowInv, ValidLineage

(* What was read of a lineage stays its past. *)
LEMMA PastKept ==
  ASSUME NEW c, Record, World(c), RowsInv', GlobalTypes', NEW l \in Lineages, NEW s \in Lineage,
         Past(l, s)
  PROVE Past(l, s)'
<1>1. CASE s.state = "ABSENT" BY <1>1, Zenon DEF Past, World, RowMoves
<1>2. CASE s.state # "ABSENT" /\ ~Live(l)
  <2>1. ~Live(l)' BY <1>2, Zenon DEF World, RowMoves
  <2>2. s.proposals # << >> BY <1>2, Zenon DEF Past
  <2>3. Last(s).epoch \in Nat /\ global.epoch \in Nat
    BY <2>2, LastField, Zenon DEF Record, GlobalTypes
  <2>4. Last(s).epoch < global.epoch \/ (global.fence = "PURGE" /\ Last(s).epoch <= global.epoch)
    BY <1>2, Zenon DEF Past
  <2>5. Last(s).epoch < global'.epoch \/ (global'.fence = "PURGE" /\ Last(s).epoch <= global'.epoch)
    BY <2>3, <2>4 DEF World, Ages
  <2> QED BY <1>2, <2>1, <2>2, <2>5, Zenon DEF Past
<1>3. CASE s.state # "ABSENT" /\ Live(l) /\ ~Live(l)'
  <2>1. global.fence = "PURGE" /\ UNCHANGED global
    BY <1>3, Zenon DEF World, RowMoves
  <2>2. global.journal.kind = None
    BY <2>1, Zenon DEF Record, FenceInv, OneOwner
  <2>3. s.proposals # << >> /\ lineage[l].proposals # << >> /\ lineage[l] \in Lineage
    BY <1>3, RowAlone, Zenon DEF Past, Record
  <2>4. Last(s).epoch \in Nat /\ Last(lineage[l]).epoch \in Nat /\ global.epoch \in Nat
    BY <2>3, LastField, Zenon DEF Record, GlobalTypes
  <2>5. Last(lineage[l]).epoch <= global.epoch
    BY <1>3, <2>2, RowAlone, KindNames, Zenon DEF InEpoch, Record
  <2>6. Last(s).epoch <= Last(lineage[l]).epoch
    BY <1>3, <2>4 DEF Past, Follows
  <2>7. Last(s).epoch <= global'.epoch BY <2>1, <2>4, <2>5, <2>6
  <2> QED BY <1>3, <2>1, <2>3, <2>7, Zenon DEF Past
<1>4. CASE s.state # "ABSENT" /\ Live(l) /\ Live(l)'
  <2>1. /\ lineage[l] \in Lineage /\ lineage'[l] \in Lineage
        /\ s.proposals # << >> /\ lineage[l].proposals # << >> /\ lineage'[l].proposals # << >>
    BY <1>4, RowAlone, Zenon DEF Past, Record, RowsInv, RowInv, ValidLineage
  <2>2. AsRead(s, lineage[l]) /\ Follows(s, lineage[l])
    BY <1>4, Zenon DEF Past
  <2>3. AsRead(lineage[l], lineage'[l]) /\ Follows(lineage[l], lineage'[l])
    BY <1>4, Zenon DEF World, RowMoves, Grows
  <2>4. AsRead(s, lineage'[l]) /\ Follows(s, lineage'[l])
    BY <2>1, <2>2, <2>3, AsReadOn, FollowsOn, Zenon
  <2> QED BY <1>4, <2>1, <2>4, Zenon DEF Past
<1> QED BY <1>1, <1>2, <1>3, <1>4, Zenon

LEMMA PastNow ==
  ASSUME RowsInv, NEW l \in Lineages
  PROVE Past(l, lineage[l])
<1>1. CASE ~Live(l) BY <1>1, Zenon DEF Past, Live
<1>2. CASE Live(l)
  BY <1>2, RowAlone, Zenon DEF Past, Live, AsRead, Follows
<1> QED BY <1>1, <1>2, Zenon

----
(* What a coordinator knows, a step of another leaves as it is. *)
Beside(c, d) ==
    /\ Record /\ World(c) /\ Record' /\ c # d /\ job'[d] = job[d]
    /\ JobOK(job[d]) /\ Knows(d)

LEMMA LooksKept ==
  ASSUME NEW c, Record, World(c), Record', NEW j, JobOK(j), j.l \in Lineages, Looks(j)
  PROVE Looks(j)'
<1>1. j.seen \in Lineage BY DEF JobOK, Job
<1>2. Past(j.l, j.seen)' BY <1>1, PastKept, Zenon DEF Record, Looks
<1> QED BY <1>2, Zenon DEF Looks

LEMMA JobNamed ==
    ASSUME NEW j, JobOK(j), j.at \notin Unnamed, j.at # "idle"
    PROVE j.l \in Lineages
BY Zenon DEF JobOK

LEMMA KindsDiffer ==
    /\ "REVIEW" # None /\ "PUBLICATION" # None /\ "REFRESH" # None /\ "REVISION" # None
    /\ Held("review") = "REVIEW" /\ Held("publication") = "PUBLICATION"
    /\ Held("refresh") = "REFRESH" /\ Held("revision") = "REVISION" /\ Held("others") = None
BY DEF None, Held

LEMMA HoldKept ==
    ASSUME NEW c \in Coordinators \cup {"others"}, World(c), NEW d \in Coordinators, c # d,
           global.journal.kind = Held(d)
    PROVE UNCHANGED global
BY DEF World, Held, None, Coordinators

LEMMA ReviewBeside ==
  ASSUME NEW c \in Coordinators \cup {"others"}, Beside(c, "review")
  PROVE ReviewInv'
<1>j. PICK j : j = job["review"] OBVIOUS
<1>0. job'["review"] = j /\ JobOK(j) /\ c # "review"
  BY <1>j, Zenon DEF Beside
<1>1. ReviewInv BY DEF Beside, Knows
<1>2. j.at \in {"inspect", "relieve", "approve", "attention", "prepare", "decide", "clear"}
      => j.l \in Lineages
  BY <1>0 DEF JobOK, Unnamed
<1>3. j.at \in {"inspect", "relieve", "approve", "attention", "prepare", "decide"} => Looks(j)'
  BY <1>j, <1>0, <1>1, <1>2, LooksKept, Zenon DEF ReviewInv, Beside
<1>4. j.at = "decide" => Owns("REVIEW", Owner(j))'
  <2>1. SUFFICES ASSUME j.at = "decide" PROVE Owns("REVIEW", Owner(j))' OBVIOUS
  <2>2. Owns("REVIEW", Owner(j))
    BY <1>j, <1>1, <2>1, Zenon DEF ReviewInv
  <2>3. "review" \in Coordinators BY DEF Coordinators
  <2>4. UNCHANGED global
    BY <1>0, <2>2, <2>3, HoldKept, KindsDiffer, Zenon DEF Owns, Beside
  <2> QED BY <2>2, <2>4, Zenon DEF Owns
<1>5. j.at = "clear" => lineage'[j.l].state # "TERMINAL"
  <2>1. SUFFICES ASSUME j.at = "clear" PROVE lineage'[j.l].state # "TERMINAL" OBVIOUS
  <2>2. j.l \in Lineages /\ lineage[j.l].state # "TERMINAL"
    BY <1>j, <1>1, <1>2, <2>1, Zenon DEF ReviewInv
  <2>3. RowMoves(c, j.l) BY <2>2, Zenon DEF Beside, World
  <2> QED BY <1>0, <2>2, <2>3 DEF RowMoves, Live, Grows, StateMoves
<1> QED BY <1>j, <1>0, <1>1, <1>3, <1>4, <1>5, Zenon DEF ReviewInv

LEMMA PublicationBeside ==
  ASSUME NEW c \in Coordinators \cup {"others"}, Beside(c, "publication")
  PROVE PublicationInv'
<1>j. PICK j : j = job["publication"] OBVIOUS
<1>0. job'["publication"] = j /\ JobOK(j) /\ c # "publication"
  BY <1>j, Zenon DEF Beside
<1>1. PublicationInv BY DEF Beside, Knows
<1>2. j.at \in {"publish", "prepare", "note", "commit"} \cup Attempting => j.l \in Lineages
  BY <1>0 DEF JobOK, Unnamed, Attempting
<1>3. j.at \in {"publish", "prepare", "note", "commit"} \cup Attempting => Looks(j)'
  BY <1>j, <1>0, <1>1, <1>2, LooksKept, Zenon DEF PublicationInv, Beside
<1>4. UNCHANGED <<final, denied>> BY <1>0, Zenon DEF Beside, World
<1>5. j.at \in Attempting \cup {"commit"} => UNCHANGED global /\ HoldsAttempt(j)
  <2>1. SUFFICES ASSUME j.at \in Attempting \cup {"commit"}
                 PROVE UNCHANGED global /\ HoldsAttempt(j) OBVIOUS
  <2>2. HoldsAttempt(j) BY <1>j, <1>1, <2>1 DEF PublicationInv
  <2>3. "publication" \in Coordinators BY DEF Coordinators
  <2>4. UNCHANGED global
    BY <1>0, <2>2, <2>3, HoldKept, KindsDiffer, Zenon DEF HoldsAttempt, Owns, Beside
  <2> QED BY <2>2, <2>4
<1>6. j.at \in Attempting \cup {"commit"} => HoldsAttempt(j)'
  BY <1>5, Zenon DEF HoldsAttempt, Owns
<1>7. ASSUME j.at \in Attempting PROVE lineage'[j.l].state # "PUBLISHED"
  <2>1. j.l \in Lineages /\ lineage[j.l].state # "PUBLISHED"
    BY <1>j, <1>1, <1>2, <1>7, Zenon DEF PublicationInv
  <2>2. RowMoves(c, j.l) BY <2>1, Zenon DEF Beside, World
  <2> QED BY <1>0, <2>1, <2>2 DEF RowMoves, Live, Grows, StateMoves
<1>8. ASSUME j.at = "commit" PROVE lineage'[j.l].state = "PUBLISHED"
  <2>1. j.l \in Lineages /\ lineage[j.l].state = "PUBLISHED"
    BY <1>j, <1>1, <1>2, <1>8, Zenon DEF PublicationInv
  <2>2. RowMoves(c, j.l) BY <2>1, Zenon DEF Beside, World
  <2>3. UNCHANGED global /\ Owns("PUBLICATION", Owner(j))
    BY <1>5, <1>8, Zenon DEF HoldsAttempt
  <2>4. global.fence = "FREE"
    BY <2>3, KindsDiffer, Zenon DEF Beside, Record, FenceInv, OneOwner, Owns
  <2> QED BY <1>0, <2>1, <2>2, <2>4 DEF RowMoves, Live, Grows, StateMoves
<1>9. j.at \in {"install", "ask disk"} => global'.journal.phase = "EXECUTING"
  BY <1>j, <1>1, <1>5 DEF PublicationInv, Attempting
<1>10. j.at \in {"execute", "failure, clear", "clear", "recheck"} => global'.journal.phase # "EXECUTING"
  BY <1>j, <1>1, <1>5 DEF PublicationInv, Attempting
<1>11. j.at \in {"refuse", "unexecute"} => NotFinal(Owner(j), j.epoch)'
  BY <1>j, <1>1, <1>4, Zenon DEF PublicationInv, NotFinal, Owner
<1> QED BY <1>j, <1>0, <1>1, <1>3, <1>6, <1>7, <1>8, <1>9, <1>10, <1>11, Zenon DEF PublicationInv

LEMMA SupersededKept ==
  ASSUME NEW c, Record, World(c), Record', NEW j, JobOK(j), j.l \in Lineages, Superseded(j)
  PROVE Superseded(j)'
<1>1. RowMoves(c, j.l) BY Zenon DEF World
<1>2. CASE ~Live(j.l) BY <1>1, <1>2, Zenon DEF RowMoves, Superseded
<1>3. CASE Live(j.l) /\ ~Live(j.l)' BY <1>3, Zenon DEF Superseded
<1>4. CASE Live(j.l) /\ Live(j.l)'
  <2>1. Follows(lineage[j.l], lineage'[j.l]) /\ StateMoves(c, lineage[j.l], lineage'[j.l])
    BY <1>1, <1>4, Zenon DEF RowMoves, Grows
  <2>2. /\ Len(lineage[j.l].proposals) \in Nat /\ Len(lineage'[j.l].proposals) \in Nat
        /\ j.ref \in Nat
    BY RowFields DEF Record, RowsInv, JobOK, Job
  <2>3. CASE Len(lineage[j.l].proposals) > j.ref
    BY <2>1, <2>2, <2>3 DEF Follows, Superseded
  <2>4. CASE Len(lineage[j.l].proposals) = j.ref /\ lineage[j.l].state # "ACTIVE"
    BY <2>1, <2>2, <2>4 DEF Follows, Superseded, StateMoves, Longer
  <2> QED BY <1>4, <2>3, <2>4, Zenon DEF Superseded
<1> QED BY <1>2, <1>3, <1>4

LEMMA RefreshBeside ==
  ASSUME NEW c \in Coordinators \cup {"others"}, Beside(c, "refresh")
  PROVE RefreshInv'
<1>j. PICK j : j = job["refresh"] OBVIOUS
<1>0. job'["refresh"] = j /\ JobOK(j) /\ c # "refresh"
  BY <1>j, Zenon DEF Beside
<1>1. RefreshInv BY DEF Beside, Knows
<1>2. /\ j.at = "supersede" \/ (j.at = "unrefreshed" /\ j.op # "restore") => j.l \in Lineages
      /\ j.at \in {"recall", "reserve"} => j.l \in Lineages
  BY <1>0 DEF JobOK, Unnamed
<1>3. j.l \in Lineages /\ Superseded(j) => Superseded(j)'
  BY <1>0, SupersededKept, Zenon DEF Beside
<1>4. Owns("REFRESH", Owner(j)) => Owns("REFRESH", Owner(j))'
  <2>1. SUFFICES ASSUME Owns("REFRESH", Owner(j)) PROVE Owns("REFRESH", Owner(j))' OBVIOUS
  <2>2. "refresh" \in Coordinators BY DEF Coordinators
  <2>3. UNCHANGED global
    BY <1>0, <2>1, <2>2, HoldKept, KindsDiffer, Zenon DEF Owns, Beside
  <2> QED BY <2>1, <2>3, Zenon DEF Owns
<1> QED BY <1>j, <1>0, <1>1, <1>2, <1>3, <1>4, Zenon DEF RefreshInv

LEMMA ReservedKept ==
  ASSUME NEW c, Record, World(c), Record', NEW j, JobOK(j), j.l \in Lineages, Looks(j), Reserved(j)
  PROVE Reserved(j)'
<1> SUFFICES ASSUME Live(j.l)', Len(lineage'[j.l].proposals) = j.ref
             PROVE \E k \in Acts(lineage'[j.l], j.id) : lineage'[j.l].actions[k].parent = j.ref
  BY Zenon DEF Reserved, Acts
<1>1. Live(j.l) /\ Grows(c, lineage[j.l], lineage'[j.l])
  BY Zenon DEF World, RowMoves
<1>2. j.seen \in Lineage /\ lineage[j.l] \in Lineage /\ Follows(j.seen, lineage[j.l])
      /\ Len(j.seen.proposals) = j.ref
  BY <1>1, RowAlone, Zenon DEF JobOK, Job, Looks, Past, Record
<1>3. ~Longer(lineage[j.l], lineage'[j.l]) /\ Len(lineage[j.l].proposals) = j.ref
  <2>1. Len(lineage[j.l].proposals) \in Nat /\ Len(j.seen.proposals) \in Nat
    BY <1>2, RowFields, Zenon
  <2>2. Len(lineage[j.l].proposals) <= j.ref
    BY <1>1, <2>1 DEF Grows, Follows
  <2>3. j.ref <= Len(lineage[j.l].proposals) BY <1>2, <2>1 DEF Follows
  <2> QED BY <1>2, <2>1, <2>2, <2>3 DEF Longer
<1>4. PICK k \in Acts(lineage[j.l], j.id) : lineage[j.l].actions[k].parent = j.ref
  BY <1>1, <1>3, Zenon DEF Reserved
<1>5. k \in Acts(lineage'[j.l], j.id) /\ lineage'[j.l].actions[k].parent = j.ref
  BY <1>1, <1>3, <1>4, Zenon DEF Grows, Acts
<1> QED BY <1>5, Zenon

LEMMA RevisionBeside ==
  ASSUME NEW c \in Coordinators \cup {"others"}, Beside(c, "revision")
  PROVE RevisionInv'
<1>j. PICK j : j = job["revision"] OBVIOUS
<1> DEFINE Reads == {"revise", "reserve", "call", "recheck", "prepare", "child"}
<1>0. job'["revision"] = j /\ JobOK(j) /\ c # "revision"
  BY <1>j, Zenon DEF Beside
<1>1. RevisionInv BY DEF Beside, Knows
<1>2. j.at \in Reads \cup {"fail"} => j.l \in Lineages
  BY <1>0 DEF JobOK, Unnamed
<1> HIDE DEF Reads
<1>3. j.at \in Reads => Looks(j)'
  BY <1>j, <1>0, <1>1, <1>2, LooksKept, Zenon DEF RevisionInv, Beside, Reads
<1>4. j.at = "fail" => Past(j.l, j.seen)'
  <2>1. j.seen \in Lineage BY <1>0 DEF JobOK, Job
  <2> QED BY <1>j, <1>0, <1>1, <1>2, <2>1, PastKept, Zenon DEF RevisionInv, Beside, Record
<1>5. j.at \in {"call", "recheck", "prepare", "child"} => Reserved(j)'
  BY <1>j, <1>0, <1>1, <1>2, ReservedKept, Zenon DEF RevisionInv, Beside, Reads
<1>6. j.at = "child" => Owns("REVISION", RevisionOwner(j))' /\ global'.epoch = j.epoch
  <2>1. SUFFICES ASSUME j.at = "child"
                 PROVE Owns("REVISION", RevisionOwner(j))' /\ global'.epoch = j.epoch
    OBVIOUS
  <2>2. Owns("REVISION", RevisionOwner(j)) /\ global.epoch = j.epoch
    BY <1>j, <1>1, <2>1, Zenon DEF RevisionInv
  <2>3. "revision" \in Coordinators BY DEF Coordinators
  <2>4. UNCHANGED global
    BY <1>0, <2>2, <2>3, HoldKept, KindsDiffer, Zenon DEF Owns, Beside
  <2> QED BY <2>2, <2>4, Zenon DEF Owns
<1> QED BY <1>j, <1>0, <1>1, <1>3, <1>4, <1>5, <1>6, Zenon DEF RevisionInv, Reads

(* So a step of c has only to see to what c itself knows. *)
LEMMA Apart ==
  ASSUME NEW c \in Coordinators \cup {"others"}, DeskInv, World(c), Record', QueueOK',
         NEW j, JobOK(j), job' = IF c = "others" THEN job ELSE [job EXCEPT ![c] = j],
         Knows(c)'
  PROVE DeskInv'
<1>1. \A d \in Coordinators : d # c => job'[d] = job[d]
  BY DEF DeskInv, JobsOK
<1>2. \A d \in Coordinators : d = c => job'[d] = j
  BY DEF DeskInv, JobsOK, Coordinators
<1>3. JobsOK'
  <2>1. job' \in [Coordinators -> Job]
    BY DEF DeskInv, JobsOK, JobOK, Coordinators
  <2> QED BY <1>1, <1>2, <2>1, Zenon DEF DeskInv, JobsOK
<1>4. ASSUME NEW d \in Coordinators, d # c PROVE Beside(c, d)
  BY <1>1, <1>4, Zenon DEF DeskInv, JobsOK, Beside
<1>5. /\ c # "review" => ReviewInv'
      /\ c # "publication" => PublicationInv'
      /\ c # "refresh" => RefreshInv'
      /\ c # "revision" => RevisionInv'
  BY <1>4, ReviewBeside, PublicationBeside, RefreshBeside, RevisionBeside DEF Coordinators
<1>6. \A d \in Coordinators : Knows(d)' BY <1>5 DEF Knows, Coordinators
<1> QED BY <1>3, <1>6, Zenon DEF DeskInv

----
(* What is written, and why it keeps the record.  First the rows. *)
Writes(c, l) ==
    \/ ~Live(l) /\ ~Live(l)'
    \/ /\ Live(l) /\ Live(l)' /\ ValidLineage(lineage'[l]) /\ Grows(c, lineage[l], lineage'[l])
       /\ \/ /\ ~Longer(lineage[l], lineage'[l])
             /\ Last(lineage'[l]).epoch = Last(lineage[l]).epoch
             /\ Last(lineage'[l]).by = Last(lineage[l]).by
          \/ c = "revision" /\ Journals("REVISION") /\ ChildAhead(global.journal.owner, l, global.epoch)'
       /\ lineage'[l].state \in {lineage[l].state, "ACTIVE"}
          \/ Owns(Held(c), <<l, Len(lineage'[l].proposals)>>)
RowsWritten(c) ==
    /\ lineage' \in [Lineages -> Lineage] /\ UNCHANGED <<global, opened, final, denied>>
    /\ \A l \in Lineages : lineage'[l] = lineage[l] \/ Writes(c, l)

LEMMA RowStays ==
  ASSUME NEW c, RowsInv, NEW l \in Lineages, lineage'[l] = lineage[l]
  PROVE RowMoves(c, l)
<1>1. CASE ~Live(l) BY <1>1, Zenon DEF RowMoves, Live
<1>2. CASE Live(l)
  <2>1. AsRead(lineage[l], lineage'[l]) /\ Follows(lineage[l], lineage'[l])
    BY Zenon DEF AsRead, Follows
  <2>2. ~(Len(lineage[l].proposals) < Len(lineage[l].proposals))
    <3>1. Len(lineage[l].proposals) \in Nat
      BY RowAlone, RowFields, Zenon
    <3> QED BY <3>1
  <2>3. StateMoves(c, lineage[l], lineage'[l])
    BY <2>2, Zenon DEF StateMoves, Longer
  <2>4. Grows(c, lineage[l], lineage'[l]) BY <2>1, <2>3, Zenon DEF Grows
  <2> QED BY <1>2, <2>4, Zenon DEF RowMoves, Live
<1> QED BY <1>1, <1>2

LEMMA RowsWrittenMove ==
  ASSUME NEW c \in Coordinators, Record, RowsWritten(c)
  PROVE World(c)
<1>1. \A l \in Lineages : RowMoves(c, l)
  BY RowStays, Zenon DEF RowsWritten, Writes, RowMoves, Record
<1>2. Ages BY Zenon DEF RowsWritten, Ages
<1> QED BY <1>1, <1>2, Zenon DEF RowsWritten, World

(* A row that is written without growing has as many proposals as before. *)
LEMMA NotLonger ==
    ASSUME NEW c, NEW ln \in Lineage, NEW m \in Lineage, Grows(c, ln, m), ~Longer(ln, m)
    PROVE  /\ Len(m.proposals) = Len(ln.proposals)
           /\ Last(ln).decision \in {None, Last(m).decision}
           /\ Last(m).epoch = Last(ln).epoch
BY Zenon DEF Grows, Follows, Longer

LEMMA RowsWrittenRows ==
  ASSUME NEW c \in Coordinators, Record, RowsWritten(c)
  PROVE RowsInv'
<1> SUFFICES ASSUME NEW l \in Lineages, Live(l)'
             PROVE ValidLineage(lineage'[l]) /\ InEpoch(l)' /\ OutOfPlay(l)'
  BY Zenon DEF RowsInv, RowInv, RowsWritten
<1>0. global' = global /\ lineage[l] \in Lineage /\ lineage'[l] \in Lineage
  BY RowAlone, Zenon DEF RowsWritten, Record
<1>1. CASE lineage'[l] = lineage[l]
  <2>1. ValidLineage(lineage[l]) /\ InEpoch(l) /\ OutOfPlay(l)
    BY <1>1, RowAlone, Zenon DEF Record, Live
  <2> QED BY <1>0, <1>1, <2>1, Zenon DEF InEpoch, ChildAhead, OutOfPlay, Once, Leaves, Owns
<1>2. CASE lineage'[l] # lineage[l]
  <2>1. Writes(c, l) /\ Live(l) BY <1>2, Zenon DEF RowsWritten, Writes
  <2>2. InEpoch(l) /\ OutOfPlay(l) BY <2>1, RowAlone, Zenon DEF Record
  <2>3. ValidLineage(lineage'[l]) /\ Grows(c, lineage[l], lineage'[l])
    BY <2>1, Zenon DEF Writes
  <2>4. InEpoch(l)'
    BY <1>0, <2>1, <2>2, Zenon DEF Writes, InEpoch, ChildAhead, Journals
  <2>5. ASSUME NEW state, NEW kind, Leaves(l, state, kind), state # "ACTIVE",
               lineage'[l].state = state => kind = Held(c) \/ lineage[l].state = state
        PROVE Leaves(l, state, kind)'
    <3> SUFFICES ASSUME lineage'[l].state = state
                 PROVE  \/ Last(lineage'[l]).epoch < global.epoch
                        \/ Owns(kind, <<l, Len(lineage'[l].proposals)>>)
      BY <1>0, Zenon DEF Leaves, Owns
    <3>1. CASE lineage[l].state # state BY <2>1, <2>5, <3>1 DEF Writes
    <3>2. CASE lineage[l].state = state
      <4>1. ~Longer(lineage[l], lineage'[l])
        BY <2>3, <2>5, <3>2, Zenon DEF Grows, StateMoves
      <4>2. /\ Len(lineage'[l].proposals) = Len(lineage[l].proposals)
            /\ Last(lineage'[l]).epoch = Last(lineage[l]).epoch
        BY <1>0, <2>3, <4>1, NotLonger, Zenon
      <4> QED BY <2>5, <3>2, <4>2, Zenon DEF Leaves
    <3> QED BY <3>1, <3>2
  <2>6. StateMoves(c, lineage[l], lineage'[l]) BY <2>3, Zenon DEF Grows
  <2>7. Leaves(l, "PUBLISHED", "PUBLICATION")'
    BY <2>2, <2>5, <2>6 DEF OutOfPlay, StateMoves, Held
  <2>8. Leaves(l, "TERMINAL", "REVIEW")'
    BY <2>2, <2>5, <2>6 DEF OutOfPlay, StateMoves, Held
  <2>9. Leaves(l, "REFRESHING", "REFRESH")'
    BY <2>2, <2>5, <2>6 DEF OutOfPlay, StateMoves, Held
  <2>10. Once(l)'
    <3> SUFFICES ASSUME lineage'[l].state = "REFRESHING" PROVE Len(lineage'[l].proposals) = 1
      BY Zenon DEF Once
    <3>1. CASE lineage[l].state # "REFRESHING"
      BY <2>6, <3>1 DEF StateMoves
    <3>2. CASE lineage[l].state = "REFRESHING"
      <4>1. ~Longer(lineage[l], lineage'[l])
        BY <2>6, <3>2 DEF StateMoves
      <4> QED BY <1>0, <2>2, <2>3, <3>2, <4>1, NotLonger, Zenon DEF OutOfPlay, Once
    <3> QED BY <3>1, <3>2
  <2> QED BY <2>3, <2>4, <2>7, <2>8, <2>9, <2>10, Zenon DEF OutOfPlay
<1> QED BY <1>1, <1>2

(* What is approved stays so under its journal. *)
LEMMA ApprovedKept ==
  ASSUME NEW c, Record, World(c), RowsInv', UNCHANGED global, Journals("PUBLICATION"),
         Approved(global.journal.owner)
  PROVE Approved(global.journal.owner)'
<1> PICK l : l = global.journal.owner[1] OBVIOUS
<1>1. /\ l \in Lineages /\ Live(l) /\ lineage[l] \in Lineage /\ lineage'[l] \in Lineage
      /\ lineage[l].state \in {"ACTIVE", "PUBLISHED"}
  BY RowAlone, Zenon DEF Approved, Record, RowsInv
<1>2. RowMoves(c, l) /\ global.fence = "FREE"
  BY <1>1, KindsDiffer, Zenon DEF World, Journals, Record, FenceInv, OneOwner
<1>3. Live(l)' /\ Grows(c, lineage[l], lineage'[l])
  BY <1>1, <1>2, Zenon DEF RowMoves
<1>4. ~Longer(lineage[l], lineage'[l])
  BY <1>3, KindsDiffer, ZenonT(60) DEF Grows, StateMoves, Journals
<1>5. lineage'[l].state \in {"ACTIVE", "PUBLISHED"}
  BY <1>1, <1>3, KindsDiffer, ZenonT(60) DEF Grows, StateMoves, Journals, Held
<1>6. /\ Len(lineage'[l].proposals) = Len(lineage[l].proposals)
      /\ Last(lineage[l]).decision \in {None, Last(lineage'[l]).decision}
      /\ Last(lineage'[l]).epoch = Last(lineage[l]).epoch
  BY <1>1, <1>3, <1>4, NotLonger, Zenon
<1>7. "APPROVED" # None BY DEF None
<1>8. Last(lineage'[l]).decision = "APPROVED"
  BY <1>6, <1>7, Zenon DEF Approved
<1> QED BY <1>1, <1>3, <1>5, <1>6, <1>8, Zenon DEF Approved, Live

LEMMA RowsWrittenDisk ==
  ASSUME NEW c \in Coordinators, Record, RowsWritten(c)
  PROVE DiskInv'
<1>0. UNCHANGED <<global, opened, final, denied>> /\ World(c) /\ RowsInv'
  BY RowsWrittenMove, RowsWrittenRows, Zenon DEF RowsWritten
<1> SUFFICES ASSUME NEW a \in final \ denied
             PROVE  \/ lineage'[a[1]].state = "ABSENT"
                    \/ lineage'[a[1]].state = "PUBLISHED" /\ Len(lineage'[a[1]].proposals) = a[2]
                    \/ global.journal.kind = "PUBLICATION" /\ global.journal.owner = <<a[1], a[2]>>
                       /\ global.journal.epoch = a[3]
  BY <1>0, Zenon DEF DiskInv, PublishedIsAccounted, Record
<1>1. a[1] \in Lineages /\ RowMoves(c, a[1])
  BY <1>0, Zenon DEF Record, DiskInv, World
<1>2. \/ lineage[a[1]].state = "ABSENT"
      \/ lineage[a[1]].state = "PUBLISHED" /\ Len(lineage[a[1]].proposals) = a[2]
      \/ global.journal.kind = "PUBLICATION" /\ global.journal.owner = <<a[1], a[2]>>
         /\ global.journal.epoch = a[3]
  BY Zenon DEF Record, DiskInv, PublishedIsAccounted
<1>3. CASE lineage[a[1]].state = "ABSENT"
  BY <1>1, <1>3 DEF RowMoves, Live
<1>4. CASE lineage[a[1]].state = "PUBLISHED" /\ Len(lineage[a[1]].proposals) = a[2]
  <2>1. CASE ~Live(a[1])' BY <2>1, Zenon DEF Live
  <2>2. CASE Live(a[1])'
    <3>1. Grows(c, lineage[a[1]], lineage'[a[1]])
      BY <1>1, <1>4, <2>2 DEF RowMoves, Live
    <3>2. ~Longer(lineage[a[1]], lineage'[a[1]]) /\ lineage'[a[1]].state = "PUBLISHED"
      BY <1>4, <3>1 DEF Grows, StateMoves
    <3>3. lineage[a[1]] \in Lineage /\ lineage'[a[1]] \in Lineage
      BY <1>0, <1>1, Zenon DEF Record, RowsInv
    <3> QED BY <1>4, <3>1, <3>2, <3>3, NotLonger, Zenon
  <2> QED BY <2>1, <2>2
<1> QED BY <1>2, <1>3, <1>4

LEMMA RowsWrittenKept ==
  ASSUME NEW c \in Coordinators, Record, RowsWritten(c)
  PROVE World(c) /\ Record'
<1>1. World(c) /\ RowsInv' /\ DiskInv'
  BY RowsWrittenMove, RowsWrittenRows, RowsWrittenDisk, Zenon
<1>2. UNCHANGED <<global, opened, final, denied>>
  BY Zenon DEF RowsWritten
<1>3. FenceInv' /\ GlobalTypes'
  BY <1>2, Zenon DEF Record, FenceInv, OneOwner, GlobalTypes
<1>4. JournalInv'
  <2>1. global.journal.kind = "PUBLICATION" => Approved(global.journal.owner)'
    BY <1>1, <1>2, ApprovedKept, Zenon DEF Record, JournalInv, Journals
  <2> QED BY <1>2, <2>1, Zenon DEF Record, JournalInv, ValidJournal, NotFinal
<1> QED BY <1>1, <1>3, <1>4, Zenon DEF Record

LEMMA QuietKept ==
  ASSUME NEW c \in Coordinators, Record, UNCHANGED <<global, lineage, opened, final, denied>>
  PROVE World(c) /\ Record'
<1>1. RowsWritten(c) BY Zenon DEF RowsWritten, Record, RowsInv
<1> QED BY <1>1, RowsWrittenKept

----
(* Then the global record: a journal is opened, amended, dropped, committed. *)

LEMMA PreparedFields ==
  ASSUME FenceInv, NEW kind, NEW owner, global' = Prepared(kind, owner)
  PROVE  /\ global'.epoch = global.epoch /\ global'.fence = global.fence
         /\ global'.journal.kind = kind /\ global'.journal.owner = owner
         /\ global'.journal.phase = "PREPARED" /\ global'.journal.epoch = global.epoch
         /\ global'.journal.code = None
<1> DEFINE i == [NoJournal EXCEPT !.kind = kind]
           h == [i EXCEPT !.owner = owner]
           j == [h EXCEPT !.epoch = global.epoch]
<1>1. i = [kind |-> kind, owner |-> <<0, 0>>, phase |-> "PREPARED", epoch |-> 0, code |-> None]
  BY DEF NoJournal
<1>2. global' = [global EXCEPT !.journal = j] BY Zenon DEF Prepared
<1> HIDE DEF i
<1>3. h = [kind |-> kind, owner |-> owner, phase |-> "PREPARED", epoch |-> 0, code |-> None]
  BY <1>1
<1> HIDE DEF h
<1>4. j = [kind |-> kind, owner |-> owner, phase |-> "PREPARED", epoch |-> global.epoch, code |-> None]
  BY <1>3
<1> HIDE DEF j
<1>5. global' = [epoch |-> global.epoch, journal |-> j, fence |-> global.fence]
  BY <1>2 DEF FenceInv, Shaped
<1> QED BY <1>4, <1>5

LEMMA PhasedFields ==
  ASSUME FenceInv, NEW phase, NEW code, global' = Phased(phase, code)
  PROVE  /\ global'.epoch = global.epoch /\ global'.fence = global.fence
         /\ global'.journal.kind = global.journal.kind
         /\ global'.journal.owner = global.journal.owner
         /\ global'.journal.phase = phase /\ global'.journal.epoch = global.journal.epoch
         /\ global'.journal.code = code
<1> DEFINE i == [global.journal EXCEPT !.phase = phase]
           h == [epoch |-> global.epoch, journal |-> i, fence |-> global.fence]
<1>1. i = [kind |-> global.journal.kind, owner |-> global.journal.owner, phase |-> phase,
           epoch |-> global.journal.epoch, code |-> global.journal.code]
  BY DEF FenceInv, Shaped
<1>2. [global EXCEPT !.journal.phase = phase] = h
  BY DEF FenceInv, Shaped
<1>3. global' = [h EXCEPT !.journal.code = code]
  BY <1>2, Zenon DEF Phased
<1> HIDE DEF i
<1>4. global' = [epoch |-> global.epoch, journal |-> [i EXCEPT !.code = code], fence |-> global.fence]
  BY <1>3
<1>5. global'.epoch = global.epoch /\ global'.fence = global.fence /\ global'.journal = [i EXCEPT !.code = code]
  BY <1>4
<1>6. global'.journal = [kind |-> global.journal.kind, owner |-> global.journal.owner, phase |-> phase,
                         epoch |-> global.journal.epoch, code |-> code]
  BY <1>1, <1>5
<1> QED BY <1>5, <1>6

LEMMA ClosedFields ==
  ASSUME FenceInv, global' = Dropped \/ global' = Committed
  PROVE  /\ global' = Dropped => global'.epoch = global.epoch
         /\ global' = Committed => global'.epoch = global.epoch + 1
         /\ global'.fence = global.fence /\ global'.journal = NoJournal
         /\ NoJournal.kind = None /\ NoJournal.phase = "PREPARED" /\ NoJournal.code = None
<1>1. ASSUME global' = Dropped
      PROVE global' = [epoch |-> global.epoch, journal |-> NoJournal, fence |-> global.fence]
  BY <1>1 DEF Dropped, FenceInv, Shaped
<1>2. ASSUME global' = Committed
      PROVE global' = [epoch |-> global.epoch + 1, journal |-> NoJournal, fence |-> global.fence]
  BY <1>2 DEF Committed, FenceInv, Shaped
<1>3. /\ global' = Dropped => global'.epoch = global.epoch
      /\ global' = Committed => global'.epoch = global.epoch + 1
      /\ global'.fence = global.fence /\ global'.journal = NoJournal
  BY <1>1, <1>2
<1> QED BY <1>3 DEF NoJournal

LEMMA FenceAfter ==
    ASSUME Record, Touches
    PROVE FenceInv'
BY TouchesKept, Zenon DEF FenceKept, Record

LEMMA RowsAside ==
    ASSUME NEW c, Record, UNCHANGED lineage
    PROVE \A l \in Lineages : RowMoves(c, l)
BY RowStays, Zenon DEF Record

(* A journal is opened on a free catalog. *)
LEMMA PreparedKept ==
  ASSUME NEW c \in Coordinators, Record, UNCHANGED <<lineage, opened, final, denied>>, Free,
         NEW owner, global' = Prepared(Held(c), owner),
         c = "publication" => Approved(owner) /\ NotFinal(owner, global.epoch)
  PROVE World(c) /\ Record'
<1>0. Held(c) \in {"REVIEW", "PUBLICATION", "REFRESH", "REVISION"} /\ Held(c) # None
      /\ (Held(c) = "PUBLICATION" => c = "publication")
  BY DEF Held, Coordinators, None
<1>1. /\ global'.epoch = global.epoch /\ global'.fence = global.fence
      /\ global'.journal.kind = Held(c) /\ global'.journal.owner = owner
      /\ global'.journal.phase = "PREPARED" /\ global'.journal.epoch = global.epoch
      /\ global'.journal.code = None
  BY PreparedFields, Zenon DEF Record
<1>2. World(c)
  <2>1. Ages BY <1>1, Zenon DEF Ages
  <2> QED BY <2>1, RowsAside, Zenon DEF World, Free
<1>3. FenceInv' BY <1>0, PreparedTouches, FenceAfter, Zenon DEF Record
<1>4. GlobalTypes' BY <1>0, <1>1, Zenon DEF GlobalTypes, Record
<1>5. RowsInv'
  <2> SUFFICES ASSUME NEW l \in Lineages, Live(l)
               PROVE ValidLineage(lineage[l]) /\ InEpoch(l)' /\ OutOfPlay(l)'
    BY Zenon DEF RowsInv, RowInv, Record, Live
  <2>1. ValidLineage(lineage[l]) /\ InEpoch(l) /\ OutOfPlay(l)
    BY RowAlone, Zenon DEF Record
  <2>2. Last(lineage[l]).epoch <= global.epoch
    BY <2>1, KindsDiffer, Zenon DEF InEpoch, Free
  <2>3. InEpoch(l)' BY <1>1, <2>2, Zenon DEF InEpoch
  <2>4. OutOfPlay(l)'
    BY <1>1, <2>1, KindsDiffer, Zenon DEF OutOfPlay, Once, Leaves, Free, Owns
  <2> QED BY <2>1, <2>3, <2>4
<1>6. JournalInv'
  <2>1. ValidJournal(global'.journal) BY <1>1 DEF ValidJournal
  <2>2. Held(c) = "PUBLICATION" => Approved(owner)'
    BY <1>0, <1>1, Zenon DEF Approved, Live
  <2> QED BY <1>0, <1>1, <2>1, <2>2, Zenon DEF JournalInv, NotFinal
<1>7. DiskInv'
  BY Zenon DEF Record, DiskInv, PublishedIsAccounted, Free, None
<1> QED BY <1>2, <1>3, <1>4, <1>5, <1>6, <1>7, Zenon DEF Record

(* The journal of an attempt is amended. *)
LEMMA PhasedKept ==
  ASSUME Record, UNCHANGED <<lineage, opened, final, denied>>, Journals("PUBLICATION"),
         NEW phase \in {"PREPARED", "EXECUTING", "NEEDS_REFRESH"}, NEW code \in Codes \cup {None},
         phase = "NEEDS_REFRESH" <=> code # None,
         phase # "EXECUTING" => NotFinal(global.journal.owner, global.journal.epoch),
         global' = Phased(phase, code)
  PROVE World("publication") /\ Record'
<1>1. /\ global'.epoch = global.epoch /\ global'.fence = global.fence
      /\ global'.journal.kind = "PUBLICATION" /\ global'.journal.owner = global.journal.owner
      /\ global'.journal.phase = phase /\ global'.journal.epoch = global.journal.epoch
      /\ global'.journal.code = code
  BY PhasedFields, Zenon DEF Record, Journals
<1>2. World("publication")
  <2>1. Ages BY <1>1, Zenon DEF Ages
  <2> QED BY <2>1, RowsAside, KindsDiffer, Zenon DEF World, Journals
<1>3. FenceInv'
  <2>1. Open BY KindsDiffer, Zenon DEF Open, Journals
  <2> QED BY <2>1, PhasedTouches, FenceAfter, Zenon DEF Record
<1>4. GlobalTypes' BY <1>1, Zenon DEF GlobalTypes, Record, Journals
<1>5. RowsInv'
  BY <1>1, Zenon DEF Record, RowsInv, RowInv, Live, InEpoch, ChildAhead, OutOfPlay, Once, Leaves,
    Owns, Journals
<1>6. JournalInv'
  <2>1. ValidJournal(global'.journal) BY <1>1 DEF ValidJournal
  <2>2. Approved(global.journal.owner)'
    BY <1>1, Zenon DEF Approved, Live, Record, JournalInv, Journals
  <2> QED BY <1>1, <2>1, <2>2, Zenon DEF JournalInv, NotFinal, Record, Journals
<1>7. DiskInv'
  BY <1>1, Zenon DEF Record, DiskInv, PublishedIsAccounted, Journals
<1> QED BY <1>2, <1>3, <1>4, <1>5, <1>6, <1>7, Zenon DEF Record

LEMMA ClosedRecord ==
  ASSUME NEW c \in Coordinators, Record, UNCHANGED <<lineage, opened, final, denied>>,
         Journals(Held(c)), global' = Dropped \/ global' = Committed
  PROVE  /\ World(c) /\ FenceInv' /\ GlobalTypes' /\ JournalInv'
         /\ global' = Dropped => global'.epoch = global.epoch
         /\ global' = Committed => global'.epoch = global.epoch + 1
         /\ global'.journal.kind = None
<1>1. /\ global' = Dropped => global'.epoch = global.epoch
      /\ global' = Committed => global'.epoch = global.epoch + 1
      /\ global'.fence = global.fence /\ global'.journal = NoJournal
      /\ NoJournal.kind = None /\ NoJournal.phase = "PREPARED" /\ NoJournal.code = None
  BY ClosedFields, Zenon DEF Record
<1>2. World(c)
  <2>1. Ages BY <1>1, Zenon DEF Ages
  <2> QED BY <2>1, RowsAside, Zenon DEF World, Journals
<1>3. FenceInv'
  <2>1. Open BY DEF Open, Journals, Held, Coordinators, None
  <2> QED BY <2>1, DroppedTouches, CommittedTouches, FenceAfter, Zenon DEF Record
<1>4. GlobalTypes'
  <2>1. global'.epoch \in Nat BY <1>1 DEF Record, GlobalTypes
  <2> QED BY <1>1, <2>1, Zenon DEF GlobalTypes, Record
<1>5. JournalInv' BY <1>1 DEF JournalInv, ValidJournal, None
<1> QED BY <1>1, <1>2, <1>3, <1>4, <1>5, Zenon

(* A journal is dropped by the coordinator that has done nothing under it. *)
LEMMA DroppedKept ==
  ASSUME NEW c \in Coordinators, c # "refresh", Record, UNCHANGED <<lineage, opened, final, denied>>,
         Journals(Held(c)), global' = Dropped,
         c = "review" => lineage[global.journal.owner[1]].state # "TERMINAL",
         c = "publication" => /\ lineage[global.journal.owner[1]].state # "PUBLISHED"
                              /\ NotFinal(global.journal.owner, global.journal.epoch),
         c = "revision" => \A l \in Lineages : Live(l) =>
                              ~ChildAhead(global.journal.owner, l, global.epoch)
  PROVE World(c) /\ Record'
<1>1. /\ World(c) /\ FenceInv' /\ GlobalTypes' /\ JournalInv'
      /\ global'.epoch = global.epoch /\ global'.journal.kind = None
  BY ClosedRecord, Zenon
<1>2. RowsInv'
  <2> SUFFICES ASSUME NEW l \in Lineages, Live(l)
               PROVE ValidLineage(lineage[l]) /\ InEpoch(l)' /\ OutOfPlay(l)'
    BY Zenon DEF RowsInv, RowInv, Record, Live
  <2>1. ValidLineage(lineage[l]) /\ InEpoch(l) /\ OutOfPlay(l)
    BY RowAlone, Zenon DEF Record
  <2>2. InEpoch(l)'
    <3>1. Journals("REVISION") => c = "revision"
      BY DEF Journals, Held, Coordinators
    <3> QED BY <1>1, <2>1, <3>1, Zenon DEF InEpoch, Journals
  <2>3. ASSUME NEW state, NEW kind, Leaves(l, state, kind),
               kind = Held(c) => lineage[global.journal.owner[1]].state # state
        PROVE Leaves(l, state, kind)'
    <3> SUFFICES ASSUME lineage[l].state = state PROVE Last(lineage[l]).epoch < global'.epoch
      BY Zenon DEF Leaves
    <3>1. ~Owns(kind, <<l, Len(lineage[l].proposals)>>)
      BY <2>3 DEF Owns, Journals
    <3> QED BY <1>1, <2>3, <3>1, Zenon DEF Leaves
  <2>4. Leaves(l, "PUBLISHED", "PUBLICATION")'
    BY <2>1, <2>3 DEF OutOfPlay, Held, Coordinators
  <2>5. Leaves(l, "TERMINAL", "REVIEW")'
    BY <2>1, <2>3 DEF OutOfPlay, Held, Coordinators
  <2>6. Leaves(l, "REFRESHING", "REFRESH")'
    BY <2>1, <2>3 DEF OutOfPlay, Held, Coordinators
  <2> QED BY <2>1, <2>2, <2>4, <2>5, <2>6, Zenon DEF OutOfPlay, Once
<1>3. DiskInv'
  <2>1. Journals("PUBLICATION") => c = "publication"
    BY DEF Journals, Held, Coordinators
  <2> QED BY <2>1, Zenon DEF Record, DiskInv, PublishedIsAccounted, Journals, NotFinal
<1> QED BY <1>1, <1>2, <1>3, Zenon DEF Record

(* A journal is committed, and the epoch moves. *)
LEMMA CommittedKept ==
  ASSUME NEW c \in Coordinators, Record, UNCHANGED <<lineage, opened, final, denied>>,
         Journals(Held(c)), global' = Committed,
         c = "publication" => lineage[global.journal.owner[1]].state = "PUBLISHED"
  PROVE World(c) /\ Record'
<1>0. global.epoch \in Nat BY DEF Record, GlobalTypes
<1>1. /\ World(c) /\ FenceInv' /\ GlobalTypes' /\ JournalInv'
      /\ global'.epoch = global.epoch + 1 /\ global'.journal.kind = None
  BY ClosedRecord, Zenon
<1>2. RowsInv'
  <2> SUFFICES ASSUME NEW l \in Lineages, Live(l)
               PROVE ValidLineage(lineage[l]) /\ InEpoch(l)' /\ OutOfPlay(l)'
    BY Zenon DEF RowsInv, RowInv, Record, Live
  <2>1. /\ ValidLineage(lineage[l]) /\ InEpoch(l) /\ OutOfPlay(l)
        /\ Last(lineage[l]).epoch \in Nat
    BY RowAlone, LastField, Zenon DEF Record
  <2>2. InEpoch(l)' BY <1>0, <1>1, <2>1 DEF InEpoch, ChildAhead
  <2>3. ASSUME NEW state, NEW kind, Leaves(l, state, kind), kind # "REVISION"
        PROVE Leaves(l, state, kind)'
    <3> SUFFICES ASSUME lineage[l].state = state PROVE Last(lineage[l]).epoch < global'.epoch
      BY Zenon DEF Leaves
    <3>1. Last(lineage[l]).epoch <= global.epoch
      <4>1. CASE Journals("REVISION")
        BY <1>0, <2>1, <2>3, <4>1 DEF Leaves, Owns, Journals
      <4>2. CASE ~Journals("REVISION")
        BY <2>1, <4>2 DEF InEpoch, Journals
      <4> QED BY <4>1, <4>2
    <3> QED BY <1>0, <1>1, <2>1, <3>1
  <2> QED BY <2>1, <2>2, <2>3 DEF OutOfPlay, Once
<1>3. DiskInv'
  <2>1. Journals("PUBLICATION") => c = "publication"
    BY DEF Journals, Held, Coordinators
  <2>2. ASSUME NEW a \in final \ denied, Journals("PUBLICATION"), global.journal.owner = <<a[1], a[2]>>
        PROVE lineage[a[1]].state = "PUBLISHED" /\ Len(lineage[a[1]].proposals) = a[2]
    <3>1. Approved(global.journal.owner)
      BY <2>2, Zenon DEF Record, JournalInv, Journals
    <3> QED BY <2>1, <2>2, <3>1 DEF Approved
  <2> QED BY <2>2, Zenon DEF Record, DiskInv, PublishedIsAccounted, Journals
<1> QED BY <1>1, <1>2, <1>3, Zenon DEF Record

----
(* A row with another last proposal. *)
LEMMA AmendedFields ==
  ASSUME NEW ln \in Lineage, ln.proposals # << >>, NEW p \in Proposal
  PROVE  LET m == Amended(ln, p)
         IN  /\ m \in Lineage /\ m.revision = ln.revision + 1 /\ m.state = ln.state
             /\ m.intent = ln.intent /\ m.actions = ln.actions
             /\ m.proposals = [ln.proposals EXCEPT ![Len(ln.proposals)] = p]
<1> DEFINE n == Len(ln.proposals)
           q == [ln.proposals EXCEPT ![n] = p]
           h == [ln EXCEPT !.revision = @ + 1]
<1>1. ln.proposals \in Seq(Proposal) /\ n \in 1..Len(ln.proposals)
  BY LastField, RowFields, Zenon
<1>2. q \in Seq(Proposal) BY <1>1, ExceptSeq, Zenon
<1>3. ln = [state |-> ln.state, revision |-> ln.revision, intent |-> ln.intent,
            proposals |-> ln.proposals, actions |-> ln.actions]
  BY DEF Lineage
<1>4. h = [state |-> ln.state, revision |-> ln.revision + 1, intent |-> ln.intent,
           proposals |-> ln.proposals, actions |-> ln.actions]
  BY <1>3
<1>5. Amended(ln, p) = [h EXCEPT !.proposals[n] = p]
  BY Zenon DEF Amended
<1> HIDE DEF h, n
<1>6. Amended(ln, p) = [state |-> ln.state, revision |-> ln.revision + 1, intent |-> ln.intent,
                        proposals |-> q, actions |-> ln.actions]
  BY <1>4, <1>5
<1>7. ln.revision + 1 \in Nat BY DEF Lineage
<1> HIDE DEF q
<1>8. Amended(ln, p) \in Lineage
  BY <1>2, <1>6, <1>7, RowFields DEF Lineage
<1> QED BY <1>6, <1>8 DEF q, n

(* What is the same of a row m that amends ln. *)
AmendsLast(ln, m, p) ==
    /\ m \in Lineage /\ m.revision = ln.revision + 1 /\ m.actions = ln.actions
    /\ Len(m.proposals) = Len(ln.proposals) /\ m.proposals # << >> /\ Last(m) = p
    /\ \A i \in 1..Len(ln.proposals) :
          m.proposals[i] = IF i = Len(ln.proposals) THEN p ELSE ln.proposals[i]

LEMMA AmendedRow ==
  ASSUME NEW ln \in Lineage, ln.proposals # << >>, NEW p \in Proposal,
         NEW m, m.state \in {"ACTIVE", "REFRESHING", "PUBLISHED", "TERMINAL"},
         m = Amended(ln, p) \/ m = [Amended(ln, p) EXCEPT !.state = m.state]
  PROVE AmendsLast(ln, m, p)
<1>1. LET a == Amended(ln, p)
      IN  /\ a \in Lineage /\ a.revision = ln.revision + 1 /\ a.actions = ln.actions
          /\ a.proposals = [ln.proposals EXCEPT ![Len(ln.proposals)] = p]
  BY AmendedFields, Zenon
<1>2. /\ m \in Lineage /\ m.revision = ln.revision + 1 /\ m.actions = ln.actions
      /\ m.proposals = [ln.proposals EXCEPT ![Len(ln.proposals)] = p]
  <2>1. CASE m = Amended(ln, p) BY <1>1, <2>1, Zenon
  <2>2. CASE m = [Amended(ln, p) EXCEPT !.state = m.state]
    <3> DEFINE a == Amended(ln, p)
    <3>1. m = [a EXCEPT !.state = m.state] BY <2>2
    <3>2. a \in Lineage BY <1>1
    <3> HIDE DEF a
    <3>3. m \in Lineage /\ m.revision = a.revision /\ m.actions = a.actions /\ m.proposals = a.proposals
      BY <3>1, <3>2 DEF Lineage
    <3> QED BY <1>1, <3>3 DEF a
  <2> QED BY <2>1, <2>2
<1>3. ln.proposals \in Seq(Proposal) /\ Len(ln.proposals) \in 1..Len(ln.proposals)
  BY LastField, RowFields, Zenon
<1>4. /\ Len(m.proposals) = Len(ln.proposals)
      /\ \A i \in 1..Len(ln.proposals) :
            m.proposals[i] = IF i = Len(ln.proposals) THEN p ELSE ln.proposals[i]
  <2> PICK s, n : s = ln.proposals /\ n = Len(s) OBVIOUS
  <2>1. s \in Seq(Proposal) /\ n \in 1..Len(s) BY <1>3
  <2>2. /\ Len([s EXCEPT ![n] = p]) = Len(s)
        /\ \A i \in 1..Len(s) : [s EXCEPT ![n] = p][i] = IF i = n THEN p ELSE s[i]
    BY <2>1, ExceptSeq
  <2>3. m.proposals = [s EXCEPT ![n] = p] BY <1>2
  <2> QED BY <2>2, <2>3
<1>5. Last(m) = p BY <1>3, <1>4, Zenon DEF Last
<1>6. m.proposals # << >> BY <1>3, <1>4
<1> QED BY <1>2, <1>4, <1>5, <1>6, Zenon DEF AmendsLast

LEMMA AmendedValid ==
  ASSUME NEW ln \in Lineage, ValidLineage(ln), NEW p \in Proposal, ValidProposal(p),
         p.by = Last(ln).by, NEW m, AmendsLast(ln, m, p),
         p.state = IF m.state = "REFRESHING" THEN "SUPERSEDED" ELSE m.state,
         m.state = "PUBLISHED" => p.decision = "APPROVED",
         m.state = "TERMINAL" => p.decision = "REJECTED"
  PROVE ValidLineage(m)
<1>1. /\ DOMAIN m.proposals = 1..Len(ln.proposals) /\ DOMAIN ln.proposals = 1..Len(ln.proposals)
      /\ m.actions = ln.actions
  BY RowFields, Zenon DEF AmendsLast
<1>2. \A i \in DOMAIN m.proposals : /\ ValidProposal(m.proposals[i])
                                    /\ m.proposals[i].by = ln.proposals[i].by
  BY <1>1, Zenon DEF AmendsLast, ValidLineage, Last
<1> PICK s, t, as : s = ln.proposals /\ t = m.proposals /\ as = ln.actions OBVIOUS
<1>3. ValidActions(m)
  <2>1. /\ \A k, h \in DOMAIN as : as[k].id = as[h].id => k = h
        /\ \A k \in DOMAIN as : as[k].state = "SUCCEEDED" =>
              \E i \in DOMAIN s : s[i].by = as[k].id /\ as[k].parent = i - 1
    BY DEF ValidActions, ValidLineage
  <2>2. DOMAIN t = DOMAIN s /\ \A i \in DOMAIN t : t[i].by = s[i].by
    BY <1>1, <1>2
  <2>3. \A k \in DOMAIN as : as[k].state = "SUCCEEDED" =>
              \E i \in DOMAIN t : t[i].by = as[k].id /\ as[k].parent = i - 1
    BY <2>1, <2>2
  <2> QED BY <1>1, <2>1, <2>3 DEF ValidActions
<1>4. ValidSources(m)
  BY <1>1, <1>2, Zenon DEF ValidSources, ValidLineage, Acts
<1> QED BY <1>2, <1>3, <1>4, Zenon DEF ValidLineage, AmendsLast

(* A row m that the store takes, and what may become of the lineage's state. *)
Proper(l, m, p) ==
    /\ Live(l) /\ p \in Proposal /\ ValidProposal(p)
    /\ p.by = Last(lineage[l]).by /\ p.epoch = Last(lineage[l]).epoch
    /\ Last(lineage[l]).decision \in {None, p.decision}
    /\ m.state \in {"ACTIVE", "REFRESHING", "PUBLISHED", "TERMINAL"}
    /\ m = Amended(lineage[l], p) \/ m = [Amended(lineage[l], p) EXCEPT !.state = m.state]
    /\ p.state = IF m.state = "REFRESHING" THEN "SUPERSEDED" ELSE m.state
    /\ m.state = "PUBLISHED" => p.decision = "APPROVED"
    /\ m.state = "TERMINAL" => p.decision = "REJECTED"
Turned(c, l, m) ==
    \/ m.state = lineage[l].state
    \/ /\ Owns(Held(c), <<l, Len(lineage[l].proposals)>>)
       /\ \/ lineage[l].state = "ACTIVE" /\ m.state = "PUBLISHED" /\ c = "publication"
          \/ lineage[l].state # "PUBLISHED" /\ m.state = "TERMINAL" /\ c = "review"
          \/ /\ lineage[l].state = "ACTIVE" /\ m.state = "REFRESHING" /\ c = "refresh"
             /\ Len(m.proposals) = 1

LEMMA AmendedWrites ==
  ASSUME NEW c \in Coordinators, Record, NEW l \in Lineages, NEW m, NEW p,
         Proper(l, m, p), Turned(c, l, m),
         UNCHANGED <<global, opened, final, denied>>, lineage' = [lineage EXCEPT ![l] = m]
  PROVE RowsWritten(c)
<1> PICK ln : ln = lineage[l] OBVIOUS
<1>1. ln \in Lineage /\ ln.proposals # << >> /\ ValidLineage(ln)
  BY RowAlone, Zenon DEF Record, Proper
<1>2. AmendsLast(ln, m, p)
  <2>1. m = Amended(ln, p) \/ m = [Amended(ln, p) EXCEPT !.state = m.state]
    BY DEF Proper
  <2>2. p \in Proposal /\ m.state \in {"ACTIVE", "REFRESHING", "PUBLISHED", "TERMINAL"}
    BY DEF Proper
  <2> QED BY <1>1, <2>1, <2>2, AmendedRow
<1>3. ValidLineage(m) BY <1>1, <1>2, AmendedValid, Zenon DEF Proper
<1>4. lineage' \in [Lineages -> Lineage] /\ lineage'[l] = m
      /\ \A k \in Lineages : k # l => lineage'[k] = lineage[k]
  BY <1>2 DEF Record, RowsInv, AmendsLast
<1>5. ~Longer(ln, m)
  <2>1. Len(ln.proposals) \in Nat BY <1>1, RowFields, Zenon
  <2> QED BY <1>2, <2>1 DEF AmendsLast, Longer
<1>6. Grows(c, ln, m)
  <2>1. AsRead(ln, m)
    <3>1. ln.revision \in Nat BY <1>1, RowFields, Zenon
    <3> QED BY <1>2, <3>1 DEF AsRead, AmendsLast
  <2>2. Follows(ln, m) BY <1>2, Zenon DEF Follows, AmendsLast, Proper
  <2>3. StateMoves(c, ln, m)
    BY <1>5, Zenon DEF StateMoves, Owns, Journals, Turned
  <2> QED BY <1>2, <2>1, <2>2, <2>3, Zenon DEF Grows, AmendsLast
<1>7. Writes(c, l)
  <2>1. Live(l)' BY <1>4 DEF Live, Proper
  <2>2. /\ Last(m).epoch = Last(ln).epoch /\ Last(m).by = Last(ln).by
        /\ Len(m.proposals) = Len(ln.proposals)
    BY <1>2, Zenon DEF AmendsLast, Proper
  <2>3. Live(l) /\ (m.state = ln.state \/ Owns(Held(c), <<l, Len(m.proposals)>>))
    BY <2>2, Zenon DEF Proper, Turned
  <2> QED BY <1>3, <1>4, <1>5, <1>6, <2>1, <2>2, <2>3, Zenon DEF Writes
<1> QED BY <1>4, <1>7, Zenon DEF RowsWritten

(* The proposals that are written. *)
Redecided(p, q) == q \in Proposal /\ q.by = p.by /\ q.epoch = p.epoch

LEMMA LookedAt ==
    ASSUME NEW p \in Proposal, NEW code \in Codes \cup {None}
    PROVE  LET q == [p EXCEPT !.review = code]
           IN  /\ Redecided(p, q) /\ q.review = code /\ q.state = p.state
               /\ q.decision = p.decision /\ q.publication = p.publication
BY DEF Proposal, Redecided

LEMMA Attempted ==
    ASSUME NEW p \in Proposal, NEW code \in Codes \cup {None}
    PROVE  LET q == [p EXCEPT !.publication = code]
           IN  /\ Redecided(p, q) /\ q.publication = code /\ q.state = p.state
               /\ q.decision = p.decision /\ q.review = p.review
BY DEF Proposal, Redecided

LEMMA Retired ==
    ASSUME NEW p \in Proposal
    PROVE  LET q == [p EXCEPT !.state = "SUPERSEDED"]
           IN  /\ Redecided(p, q) /\ q.state = "SUPERSEDED" /\ q.publication = p.publication
               /\ q.decision = p.decision /\ q.review = p.review
BY DEF Proposal, Redecided

LEMMA MadePublic ==
  ASSUME NEW p \in Proposal
  PROVE  LET q == [p EXCEPT !.state = "PUBLISHED", !.publication = None]
         IN  /\ Redecided(p, q) /\ q.state = "PUBLISHED" /\ q.publication = None
             /\ q.decision = p.decision /\ q.review = p.review
<1> DEFINE h == [p EXCEPT !.state = "PUBLISHED"]
<1>1. /\ Redecided(p, h) /\ h.state = "PUBLISHED" /\ h.publication = p.publication
      /\ h.decision = p.decision /\ h.review = p.review
  BY DEF Proposal, Redecided
<1>2. [p EXCEPT !.state = "PUBLISHED", !.publication = None] = [h EXCEPT !.publication = None]
  OBVIOUS
<1> HIDE DEF h
<1>3. LET q == [h EXCEPT !.publication = None]
      IN  /\ Redecided(h, q) /\ q.publication = None /\ q.state = h.state
          /\ q.decision = h.decision /\ q.review = h.review
  BY <1>1, Attempted DEF Redecided
<1> QED BY <1>1, <1>2, <1>3 DEF Redecided

LEMMA DecidedFields ==
  ASSUME NEW p \in Proposal, NEW op
  PROVE  LET q == Decided(p, op)
         IN  /\ Redecided(p, q) /\ q.review = None /\ q.publication = p.publication
             /\ op = "approve" => q.state = p.state /\ q.decision = "APPROVED"
             /\ op # "approve" => q.state = "TERMINAL" /\ q.decision = "REJECTED"
<1>1. CASE op = "approve"
  <2> DEFINE h == [p EXCEPT !.decision = "APPROVED"]
  <2>1. Redecided(p, h) /\ h.state = p.state /\ h.decision = "APPROVED" /\ h.publication = p.publication
    BY DEF Proposal, Redecided
  <2>2. Decided(p, op) = [h EXCEPT !.review = None] BY <1>1 DEF Decided
  <2> HIDE DEF h
  <2>3. LET q == [h EXCEPT !.review = None]
        IN  /\ Redecided(h, q) /\ q.review = None /\ q.state = h.state
            /\ q.decision = h.decision /\ q.publication = h.publication
    BY <2>1, LookedAt DEF Redecided
  <2> QED BY <1>1, <2>1, <2>2, <2>3 DEF Redecided
<1>2. CASE op # "approve"
  <2> DEFINE g == [p EXCEPT !.decision = "REJECTED"]
             h == [g EXCEPT !.review = None]
  <2>1. Redecided(p, g) /\ g.decision = "REJECTED" /\ g.publication = p.publication
    BY DEF Proposal, Redecided
  <2>2. Decided(p, op) = [h EXCEPT !.state = "TERMINAL"]
    BY <1>2 DEF Decided
  <2> HIDE DEF g
  <2>3. /\ Redecided(g, h) /\ h.review = None /\ h.decision = g.decision
        /\ h.publication = g.publication
    BY <2>1, LookedAt DEF Redecided
  <2> HIDE DEF h
  <2>4. LET q == [h EXCEPT !.state = "TERMINAL"]
        IN  /\ Redecided(h, q) /\ q.review = h.review /\ q.state = "TERMINAL"
            /\ q.decision = h.decision /\ q.publication = h.publication
    BY <2>3 DEF Proposal, Redecided
  <2> QED BY <1>2, <2>1, <2>2, <2>3, <2>4 DEF Redecided
<1> QED BY <1>1, <1>2

----
(* The jobs that go on, and those that end. *)
SameJob(j, k) ==
    /\ k \in Job /\ k.l = j.l /\ k.ref = j.ref /\ k.id = j.id /\ k.seen = j.seen
    /\ k.parent = j.parent

LEMMA JobAt ==
    ASSUME NEW j \in Job, NEW at \in Steps
    PROVE  LET k == [j EXCEPT !.at = at]
           IN  SameJob(j, k) /\ k.at = at /\ k.op = j.op /\ k.epoch = j.epoch /\ k.code = j.code
BY DEF Job, SameJob

LEMMA JobSees ==
    ASSUME NEW j \in Job, NEW s \in Lineage
    PROVE  LET k == [j EXCEPT !.seen = s]
           IN  /\ k \in Job /\ k.at = j.at /\ k.op = j.op /\ k.l = j.l /\ k.ref = j.ref
               /\ k.id = j.id /\ k.epoch = j.epoch /\ k.code = j.code /\ k.seen = s
               /\ k.parent = j.parent
BY DEF Job

SeenAt(j, s, at) == [j EXCEPT !.seen = s, !.at = at]
LEMMA JobSeesAt ==
  ASSUME NEW j \in Job, NEW s \in Lineage, NEW at \in Steps
  PROVE  LET k == SeenAt(j, s, at)
         IN  /\ k \in Job /\ k.at = at /\ k.op = j.op /\ k.l = j.l /\ k.ref = j.ref
             /\ k.id = j.id /\ k.epoch = j.epoch /\ k.code = j.code /\ k.seen = s
             /\ k.parent = j.parent
<1> DEFINE h == [j EXCEPT !.seen = s]
           k == [h EXCEPT !.at = at]
<1>1. /\ h \in Job /\ h.at = j.at /\ h.op = j.op /\ h.l = j.l /\ h.ref = j.ref
      /\ h.id = j.id /\ h.epoch = j.epoch /\ h.code = j.code /\ h.seen = s
      /\ h.parent = j.parent
  BY JobSees
<1>2. SeenAt(j, s, at) = k BY DEF SeenAt
<1> HIDE DEF h
<1>3. SameJob(h, k) /\ k.at = at /\ k.op = h.op /\ k.epoch = h.epoch /\ k.code = h.code
  BY <1>1, JobAt
<1> HIDE DEF k
<1> QED BY <1>1, <1>2, <1>3 DEF SameJob

LEMMA JobWithCode ==
  ASSUME NEW j \in Job, NEW at \in Steps, NEW code \in Codes \cup {None}
  PROVE  /\ SameJob(j, WithCode(j, at, code)) /\ WithCode(j, at, code).at = at
         /\ WithCode(j, at, code).op = j.op /\ WithCode(j, at, code).epoch = j.epoch
         /\ WithCode(j, at, code).code = code
<1> DEFINE h == [j EXCEPT !.at = at]
<1>1. SameJob(j, h) /\ h.at = at /\ h.op = j.op /\ h.epoch = j.epoch
  BY JobAt
<1>2. WithCode(j, at, code) = [h EXCEPT !.code = code] BY DEF WithCode
<1> HIDE DEF h
<1>3. LET k == [h EXCEPT !.code = code]
      IN  SameJob(h, k) /\ k.at = h.at /\ k.op = h.op /\ k.epoch = h.epoch /\ k.code = code
  BY <1>1 DEF Job, SameJob
<1> QED BY <1>1, <1>2, <1>3 DEF SameJob

LEMMA JobWithEpoch ==
  ASSUME NEW j \in Job, NEW at \in Steps, global.epoch \in Nat
  PROVE  LET k == WithEpoch(j, at)
         IN  SameJob(j, k) /\ k.at = at /\ k.op = j.op /\ k.epoch = global.epoch /\ k.code = j.code
<1> PICK e : e = global.epoch OBVIOUS
<1> DEFINE h == [j EXCEPT !.at = at]
<1>1. SameJob(j, h) /\ h.at = at /\ h.op = j.op /\ h.code = j.code
  BY JobAt
<1>2. WithEpoch(j, at) = [h EXCEPT !.epoch = e] BY DEF WithEpoch
<1> HIDE DEF h
<1>3. LET k == [h EXCEPT !.epoch = e]
      IN  SameJob(h, k) /\ k.at = h.at /\ k.op = h.op /\ k.epoch = e /\ k.code = h.code
  BY <1>1 DEF Job, SameJob
<1> QED BY <1>1, <1>2, <1>3 DEF SameJob

LEMMA JobUndone ==
  ASSUME NEW j \in Job, NEW at \in Steps
  PROVE  LET k == [j EXCEPT !.at = at, !.op = IF @ = "restore" THEN @ ELSE "undo"]
         IN  SameJob(j, k) /\ k.at = at /\ k.epoch = j.epoch /\ k.code = j.code
<1> PICK op : op = IF j.op = "restore" THEN j.op ELSE "undo" OBVIOUS
<1> DEFINE h == [j EXCEPT !.at = at]
<1>1. SameJob(j, h) /\ h.at = at /\ h.op = j.op /\ h.epoch = j.epoch /\ h.code = j.code
  BY JobAt
<1>2. [j EXCEPT !.at = at, !.op = IF @ = "restore" THEN @ ELSE "undo"] = [h EXCEPT !.op = op]
  BY <1>1
<1>3. op \in Ops BY DEF Job, Ops
<1> HIDE DEF h
<1>4. LET k == [h EXCEPT !.op = op]
      IN  SameJob(h, k) /\ k.at = h.at /\ k.epoch = h.epoch /\ k.code = h.code
  BY <1>1, <1>3 DEF Job, SameJob
<1> QED BY <1>1, <1>2, <1>4 DEF SameJob

LEMMA JobLands ==
    ASSUME NEW j, NEW k, SameJob(j, k), j.l \in Lineages
    PROVE JobOK(k)
BY DEF SameJob, JobOK

LEMMA FreshProposal ==
    ASSUME NEW epoch \in Nat, NEW by \in Nat
    PROVE  /\ NewProposal(epoch, by) \in Proposal /\ ValidProposal(NewProposal(epoch, by))
           /\ NewProposal(epoch, by).state = "ACTIVE" /\ NewProposal(epoch, by).epoch = epoch
           /\ NewProposal(epoch, by).by = by
BY DEF NewProposal, Proposal, ValidProposal, Codes, None

LEMMA AbsentRow == Absent \in Lineage /\ Absent.state = "ABSENT"
<1>1. << >> \in Seq(Proposal) /\ << >> \in Seq(Action) OBVIOUS
<1> QED BY <1>1 DEF Absent, Lineage

LEMMA IdleJob == Idle \in Job /\ Idle.at = "idle" /\ JobOK(Idle)
<1>1. Absent \in Lineage /\ NewProposal(0, 0) \in Proposal
  BY AbsentRow, FreshProposal
<1>2. "idle" \in Steps /\ None \in Ops BY DEF Steps, Ops
<1>3. Idle \in Job /\ Idle.at = "idle" BY <1>1, <1>2 DEF Idle, Job
<1> QED BY <1>3 DEF JobOK

LEMMA IdleKnows ==
  ASSUME NEW c \in Coordinators, job'[c] = Idle
  PROVE Knows(c)'
<1>0. Idle.at = "idle" BY IdleJob
<1>1. CASE c = "review"
  <2> PICK k : k = Idle OBVIOUS
  <2> QED BY <1>0, <1>1 DEF Knows, ReviewInv
<1>2. CASE c = "publication"
  BY <1>0, <1>2 DEF Knows, PublicationInv, Attempting
<1>3. CASE c = "refresh" BY <1>0, <1>3 DEF Knows, RefreshInv
<1>4. CASE c = "revision" BY <1>0, <1>4 DEF Knows, RevisionInv
<1> QED BY <1>1, <1>2, <1>3, <1>4 DEF Coordinators

(* An operation that ends leaves its coordinator idle. *)
LEMMA Ended ==
  ASSUME NEW c \in Coordinators, DeskInv, World(c), Record', Return(c) \/ Throw(c),
         job[c].at # "idle"
  PROVE DeskInv'
<1> PICK j : j = job[c] OBVIOUS
<1>1. JobOK(j) /\ j \in Job BY DEF DeskInv, JobsOK, JobOK
<1>2. job' = [job EXCEPT ![c] = Idle] BY Zenon DEF Return, Throw
<1>3. job'[c] = Idle BY <1>2 DEF DeskInv, JobsOK
<1>4. QueueOK'
  <2>1. mode \in Modes /\ \A r \in asked : AskedOK(r)
    BY Zenon DEF DeskInv, QueueOK
  <2>2. mode' \in Modes
    BY <2>1 DEF Return, Throw, AfterRecovery, Modes, Coordinators
  <2>3. \A r \in asked' : AskedOK(r)
    <3>1. CASE UNCHANGED asked BY <2>1, <3>1, Zenon
    <3>2. CASE Return(c) /\ j.op = "approve"
      <4>1. j.l \in Lineages BY <1>1, <3>2 DEF JobOK
      <4>2. j.seen.revision \in Nat /\ j.ref \in Nat
        BY <1>1, RowFields DEF Job
      <4>3. AskedOK(Request("publish", j.l, j.seen.revision, j.ref, 0))
        BY <4>1, <4>2 DEF AskedOK, Request, Ops, None
      <4> QED BY <2>1, <3>2, <4>3 DEF Return
    <3> QED BY <3>1, <3>2 DEF Return, Throw
  <2> QED BY <2>2, <2>3, Zenon DEF QueueOK
<1>5. c # "others" BY DEF Coordinators
<1>6. Knows(c)' BY <1>3, IdleKnows
<1> QED BY <1>2, <1>4, <1>5, <1>6, IdleJob, Apart

LEMMA Went ==
  ASSUME NEW c \in Coordinators, DeskInv, World(c), Record', NEW k, JobOK(k), Goto(c, k),
         Knows(c)'
  PROVE DeskInv'
<1>1. QueueOK' BY Zenon DEF DeskInv, QueueOK, Goto
<1>2. c # "others" BY DEF Coordinators
<1> QED BY <1>1, <1>2, Apart, Zenon DEF Goto

(* What each coordinator has to know where it goes on. *)
Looking == {"inspect", "relieve", "approve", "attention", "prepare", "decide"}

LEMMA ReviewGoes ==
  ASSUME DeskInv, World("review"), Record', NEW k, JobOK(k), Goto("review", k),
         k.at \in Looking => Looks(k), k.at = "attention" => k.code \in Codes,
         k.at = "decide" => Owns("REVIEW", Owner(k))',
         k.at = "clear" => lineage'[k.l].state # "TERMINAL"
  PROVE DeskInv'
<1>1. "review" \in Coordinators BY DEF Coordinators
<1>2. job'["review"] = k BY <1>1 DEF Goto, DeskInv, JobsOK
<1>3. k.at \in Looking => Looks(k)'
  <2>1. k.at \in Looking => k.l \in Lineages
    BY DEF JobOK, Looking, Unnamed
  <2> QED BY <2>1, LooksKept, Zenon DEF DeskInv
<1>4. ReviewInv' BY <1>2, <1>3, Zenon DEF ReviewInv, Looking
<1> QED BY <1>1, <1>4, Went DEF Knows

Publishing == {"publish", "prepare", "note", "commit"} \cup Attempting

LEMMA PublicationGoes ==
  ASSUME DeskInv, World("publication"), Record', NEW k, JobOK(k), Goto("publication", k),
         k.at \in Publishing => Looks(k),
         k.at \in {"publish", "prepare", "note"} =>
             k.seen.state = "ACTIVE" /\ Last(k.seen).decision = "APPROVED",
         k.at = "prepare" => Last(k.seen).epoch = k.epoch,
         k.at \in {"note", "refuse", "failure", "failure, clear"} => k.code \in Codes,
         k.at \in Attempting => HoldsAttempt(k)' /\ lineage'[k.l].state # "PUBLISHED",
         k.at = "commit" => HoldsAttempt(k)' /\ lineage'[k.l].state = "PUBLISHED",
         k.at \in {"install", "ask disk"} => global'.journal.phase = "EXECUTING",
         k.at \in {"execute", "failure, clear", "clear", "recheck"} =>
             global'.journal.phase # "EXECUTING",
         k.at \in {"refuse", "unexecute"} => NotFinal(Owner(k), k.epoch)'
  PROVE DeskInv'
<1>1. "publication" \in Coordinators BY DEF Coordinators
<1>2. job'["publication"] = k BY <1>1 DEF Goto, DeskInv, JobsOK
<1>3. k.at \in Publishing => Looks(k)'
  <2>1. k.at \in Publishing => k.l \in Lineages
    BY DEF JobOK, Publishing, Attempting, Unnamed
  <2> QED BY <2>1, LooksKept, Zenon DEF DeskInv
<1>4. PublicationInv'
  BY <1>2, <1>3, Zenon DEF PublicationInv, Publishing
<1> QED BY <1>1, <1>4, Went DEF Knows

LEMMA RefreshGoes ==
  ASSUME DeskInv, World("refresh"), Record', NEW k, JobOK(k), Goto("refresh", k),
         k.at = "supersede" \/ (k.at = "unrefreshed" /\ k.op # "restore") =>
             Owns("REFRESH", Owner(k))' \/ Superseded(k)',
         k.at \in {"recall", "reserve"} => Superseded(k)'
  PROVE DeskInv'
<1>1. "refresh" \in Coordinators BY DEF Coordinators
<1>2. job'["refresh"] = k BY <1>1 DEF Goto, DeskInv, JobsOK
<1>3. RefreshInv' BY <1>2, Zenon DEF RefreshInv
<1> QED BY <1>1, <1>3, Went DEF Knows

Revising == {"revise", "reserve", "call", "recheck", "prepare", "child"}

LEMMA RevisionGoes ==
  ASSUME DeskInv, World("revision"), Record', NEW k, JobOK(k), Goto("revision", k),
         k.at \in Revising => /\ Looks(k) /\ k.id \in Ids
                              /\ ValidProposal(k.parent) /\ k.parent.state = "ACTIVE"
                              /\ k.parent.by = Last(k.seen).by,
         k.at \in {"revise", "reserve"} => Acts(k.seen, k.id) = {},
         k.at \in {"call", "recheck", "prepare", "child"} => Reserved(k)',
         k.at \in {"prepare", "child"} => Last(k.seen).epoch = k.epoch,
         k.at = "child" => Owns("REVISION", RevisionOwner(k))' /\ global'.epoch = k.epoch,
         k.at = "fail" => Past(k.l, k.seen)
  PROVE DeskInv'
<1>1. "revision" \in Coordinators BY DEF Coordinators
<1>2. job'["revision"] = k BY <1>1 DEF Goto, DeskInv, JobsOK
<1>3. k.at \in Revising \cup {"fail"} => k.l \in Lineages
  BY DEF JobOK, Revising, Unnamed
<1>4. k.at \in Revising => Looks(k)'
  BY <1>3, LooksKept, Zenon DEF DeskInv
<1>5. k.at = "fail" => Past(k.l, k.seen)'
  <2>1. k.seen \in Lineage BY DEF JobOK, Job
  <2> QED BY <1>3, <2>1, PastKept, Zenon DEF DeskInv, Record
<1>6. RevisionInv' BY <1>2, <1>4, <1>5, Zenon DEF RevisionInv, Revising
<1> QED BY <1>1, <1>6, Went DEF Knows

----
(* What is known when a step is taken. *)
LEMMA JobKnown ==
    ASSUME NEW c \in Coordinators, DeskInv
    PROVE  /\ JobOK(job[c]) /\ job[c] \in Job /\ job[c].seen \in Lineage /\ Record
           /\ job[c].at \notin Unnamed /\ job[c].at # "idle" => job[c].l \in Lineages
BY DEF DeskInv, JobsOK, JobOK, Job

LEMMA LookFacts ==
  ASSUME NEW j, JobOK(j), j.l \in Lineages, Looks(j), Record
  PROVE  /\ j.seen \in Lineage /\ j.seen.proposals # << >> /\ Last(j.seen) \in Proposal
         /\ Len(j.seen.proposals) = j.ref /\ j.seen.state # "ABSENT"
         /\ Live(j.l) => AsRead(j.seen, lineage[j.l]) /\ Follows(j.seen, lineage[j.l])
         /\ ~Live(j.l) => \/ Last(j.seen).epoch < global.epoch
                          \/ global.fence = "PURGE" /\ Last(j.seen).epoch <= global.epoch
<1>1. j.seen \in Lineage BY DEF JobOK, Job
<1>2. Past(j.l, j.seen) /\ j.seen.state # "ABSENT" /\ j.seen.proposals # << >>
  BY Zenon DEF Looks, Past
<1> QED BY <1>1, <1>2, LastField, Zenon DEF Looks, Past

(* A lineage that has not moved is as it was read. *)
LEMMA UnmovedFacts ==
  ASSUME NEW j, JobOK(j), j.l \in Lineages, Looks(j), Record, Unmoved(j)
  PROVE  /\ Live(j.l) /\ lineage[j.l].state = j.seen.state
         /\ lineage[j.l].proposals = j.seen.proposals /\ lineage[j.l].actions = j.seen.actions
         /\ Last(lineage[j.l]) = Last(j.seen) /\ Len(lineage[j.l].proposals) = j.ref
<1>1. Live(j.l) /\ lineage[j.l].revision = j.seen.revision
  BY Zenon DEF Unmoved, Live
<1>2. AsRead(j.seen, lineage[j.l]) /\ Len(j.seen.proposals) = j.ref
  BY <1>1, LookFacts, Zenon
<1>3. j.seen.revision \in Nat BY LookFacts, RowFields, Zenon
<1>4. ~(j.seen.revision < lineage[j.l].revision) BY <1>1, <1>3
<1>5. /\ lineage[j.l].state = j.seen.state
      /\ lineage[j.l].proposals = j.seen.proposals /\ lineage[j.l].actions = j.seen.actions
  BY <1>2, <1>4, Zenon DEF AsRead
<1> QED BY <1>1, <1>2, <1>5, Zenon DEF Last

(* The row of a lineage, with its last proposal. *)
LEMMA LiveFacts ==
  ASSUME Record, NEW l \in Lineages, Live(l)
  PROVE  /\ lineage[l] \in Lineage /\ ValidLineage(lineage[l]) /\ lineage[l].proposals # << >>
         /\ Last(lineage[l]) \in Proposal /\ ValidProposal(Last(lineage[l]))
         /\ Last(lineage[l]).state = IF lineage[l].state = "REFRESHING" THEN "SUPERSEDED"
                                     ELSE lineage[l].state
         /\ lineage[l].state \in {"ACTIVE", "REFRESHING", "PUBLISHED", "TERMINAL"}
         /\ lineage[l].state = "PUBLISHED" => Last(lineage[l]).decision = "APPROVED"
         /\ lineage[l].state = "TERMINAL" => Last(lineage[l]).decision = "REJECTED"
<1>1. lineage[l] \in Lineage /\ ValidLineage(lineage[l]) /\ lineage[l].proposals # << >>
  BY RowAlone, Zenon DEF Record
<1>2. Last(lineage[l]) \in Proposal /\ Len(lineage[l].proposals) \in DOMAIN lineage[l].proposals
  BY <1>1, LastField, Zenon
<1>3. ValidProposal(Last(lineage[l]))
  BY <1>1, <1>2, Zenon DEF ValidLineage, Last
<1>4. lineage[l].state \in {"ACTIVE", "REFRESHING", "PUBLISHED", "TERMINAL"}
  BY <1>1, RowFields DEF Live
<1> QED BY <1>1, <1>2, <1>3, <1>4, Zenon DEF ValidLineage

(* A failure is written, a failure of a look or of an attempt, or is taken away. *)
LEMMA FailureWritten ==
  ASSUME NEW c \in Coordinators, Record, NEW l \in Lineages, Live(l),
         NEW p \in Proposal, ValidProposal(p), Redecided(Last(lineage[l]), p),
         p.state = Last(lineage[l]).state, p.decision = Last(lineage[l]).decision,
         UNCHANGED <<global, opened, final, denied>>,
         lineage' = [lineage EXCEPT ![l] = Amended(lineage[l], p)]
  PROVE World(c) /\ Record'
<1> PICK ln : ln = lineage[l] OBVIOUS
<1> PICK m : m = Amended(ln, p) OBVIOUS
<1>1. /\ ln \in Lineage /\ ln.proposals # << >> /\ Last(ln) \in Proposal
      /\ Last(ln).state = IF ln.state = "REFRESHING" THEN "SUPERSEDED" ELSE ln.state
      /\ ln.state \in {"ACTIVE", "REFRESHING", "PUBLISHED", "TERMINAL"}
      /\ ln.state = "PUBLISHED" => Last(ln).decision = "APPROVED"
      /\ ln.state = "TERMINAL" => Last(ln).decision = "REJECTED"
  BY LiveFacts
<1>2. m.state = ln.state BY <1>1, AmendedFields
<1>3. p.by = Last(ln).by /\ p.epoch = Last(ln).epoch BY DEF Redecided
<1>4. RowsWritten(c)
  <2>1. Proper(l, m, p)
    <3>1. Last(ln).decision \in {None, p.decision} /\ m = Amended(lineage[l], p) OBVIOUS
    <3> QED BY <1>1, <1>2, <1>3, <3>1, Zenon DEF Proper
  <2>2. Turned(c, l, m) BY <1>2, Zenon DEF Turned
  <2> QED BY <2>1, <2>2, AmendedWrites
<1> QED BY <1>4, RowsWrittenKept

----
(* Review, step by step. *)
LEMMA CodesOfOutcomes ==
    \A o : CodeOf(o) \in Codes /\ "CATALOG_CHANGED" \in Codes
BY DEF CodeOf, Codes

LEMMA SameLook ==
    ASSUME NEW j, NEW k, SameJob(j, k), Looks(j)
    PROVE Looks(k)
BY Zenon DEF SameJob, Looks

LEMMA ReviewAt ==
  ASSUME DeskInv, NEW j, j = job["review"], j.at \in Looking
  PROVE  /\ j.l \in Lineages /\ Looks(j) /\ JobOK(j) /\ j \in Job /\ Record
         /\ "review" \in Coordinators /\ j.at # "idle"
         /\ j.at = "attention" => j.code \in Codes
         /\ j.at = "decide" => Owns("REVIEW", Owner(j))
<1>1. "review" \in Coordinators /\ j.at \notin Unnamed /\ j.at # "idle"
  BY DEF Coordinators, Looking, Unnamed
<1>2. JobOK(j) /\ j \in Job /\ Record /\ j.l \in Lineages
  BY <1>1, JobKnown
<1>3. ReviewInv BY <1>1 DEF DeskInv, Knows
<1> QED BY <1>1, <1>2, <1>3, Zenon DEF ReviewInv, Looking

(* It looks on, at the same proposal. *)
LEMMA ReviewLooksOn ==
  ASSUME DeskInv, NEW j, j = job["review"], j.at \in Looking, NEW k, SameJob(j, k),
         k.at \in Looking \ {"decide"}, k.at = "attention" => k.code \in Codes,
         Goto("review", k), UNCHANGED <<global, lineage, opened, final, denied>>
  PROVE DeskInv'
<1>1. j.l \in Lineages /\ Looks(j) /\ Record /\ "review" \in Coordinators
  BY ReviewAt
<1>2. World("review") /\ Record' BY <1>1, QuietKept
<1>3. JobOK(k) /\ Looks(k) BY <1>1, JobLands, SameLook
<1>4. k.at # "decide" /\ k.at # "clear" BY DEF Looking
<1> QED BY <1>2, <1>3, <1>4, ReviewGoes

LEMMA InspectKeeps ==
  ASSUME DeskInv, Inspect
  PROVE DeskInv'
<1> PICK j : j = job["review"] OBVIOUS
<1>1. j.at = "inspect" /\ UNCHANGED <<global, lineage, opened, final, denied>>
  BY Zenon DEF Inspect, At, Same
<1>2. j.at \in Looking /\ {"relieve", "attention"} \subseteq Looking \ {"decide"}
      /\ {"relieve", "attention"} \subseteq Steps
  BY <1>1 DEF Looking, Steps
<1>3. \/ Return("review")
      \/ Goto("review", [j EXCEPT !.at = "relieve"])
      \/ \E code \in Codes : Goto("review", WithCode(j, "attention", code))
  BY CodesOfOutcomes, Zenon DEF Inspect, To
<1>4. j \in Job /\ Record /\ "review" \in Coordinators /\ j.at # "idle"
  BY <1>2, ReviewAt
<1>5. CASE Return("review") BY <1>1, <1>4, <1>5, QuietKept, Ended
<1>6. CASE Goto("review", [j EXCEPT !.at = "relieve"])
  <2> PICK k : k = [j EXCEPT !.at = "relieve"] OBVIOUS
  <2>1. SameJob(j, k) /\ k.at = "relieve" BY <1>2, <1>4, JobAt
  <2> QED BY <1>1, <1>2, <1>6, <2>1, ReviewLooksOn
<1>7. ASSUME NEW code \in Codes, Goto("review", WithCode(j, "attention", code))
      PROVE DeskInv'
  <2> PICK k : k = WithCode(j, "attention", code) OBVIOUS
  <2>1. SameJob(j, k) /\ k.at = "attention" /\ k.code = code
    BY <1>2, <1>4, JobWithCode
  <2> QED BY <1>1, <1>2, <1>7, <2>1, ReviewLooksOn
<1> QED BY <1>3, <1>5, <1>6, <1>7

LEMMA ApproveKeeps ==
  ASSUME DeskInv, Approve
  PROVE DeskInv'
<1> PICK j : j = job["review"] OBVIOUS
<1>1. j.at = "approve" /\ UNCHANGED <<global, lineage, opened, final, denied>>
  BY Zenon DEF Approve, At, Same
<1>2. j.at \in Looking /\ {"prepare", "attention"} \subseteq Looking \ {"decide"}
      /\ {"prepare", "attention"} \subseteq Steps
  BY <1>1 DEF Looking, Steps
<1>3. \/ Goto("review", WithEpoch(j, "prepare"))
      \/ \E code \in Codes : Goto("review", WithCode(j, "attention", code))
  BY CodesOfOutcomes, Zenon DEF Approve
<1>4. j \in Job /\ Record /\ global.epoch \in Nat
  BY <1>2, ReviewAt DEF Record, GlobalTypes
<1>5. CASE Goto("review", WithEpoch(j, "prepare"))
  <2> PICK k : k = WithEpoch(j, "prepare") OBVIOUS
  <2>1. SameJob(j, k) /\ k.at = "prepare" BY <1>2, <1>4, JobWithEpoch
  <2> QED BY <1>1, <1>2, <1>5, <2>1, ReviewLooksOn
<1>6. ASSUME NEW code \in Codes, Goto("review", WithCode(j, "attention", code))
      PROVE DeskInv'
  <2> PICK k : k = WithCode(j, "attention", code) OBVIOUS
  <2>1. SameJob(j, k) /\ k.at = "attention" /\ k.code = code
    BY <1>2, <1>4, JobWithCode
  <2> QED BY <1>1, <1>2, <1>6, <2>1, ReviewLooksOn
<1> QED BY <1>3, <1>5, <1>6

(* A look that is written, or whose failure is taken away. *)
LEMMA LookWritten ==
  ASSUME DeskInv, NEW j, j = job["review"], j.at \in Looking, Unmoved(j),
         Return("review") \/ Throw("review"), UNCHANGED <<global, opened, final, denied>>,
         NEW code \in Codes \cup {None}, Last(lineage[j.l]).decision = None \/ code = None,
         lineage' = [lineage EXCEPT ![j.l] =
             Amended(lineage[j.l], [Last(lineage[j.l]) EXCEPT !.review = code])]
  PROVE DeskInv'
<1> PICK p : p = Last(lineage[j.l]) OBVIOUS
<1> PICK q : q = [p EXCEPT !.review = code] OBVIOUS
<1>1. /\ j.l \in Lineages /\ Looks(j) /\ Record /\ JobOK(j) /\ "review" \in Coordinators
      /\ j.at # "idle"
  BY ReviewAt
<1>2. Live(j.l) BY Zenon DEF Unmoved, Live
<1>3. p \in Proposal /\ ValidProposal(p) BY <1>1, <1>2, LiveFacts
<1>4. /\ Redecided(p, q) /\ q.review = code /\ q.state = p.state
      /\ q.decision = p.decision /\ q.publication = p.publication
  BY <1>3, LookedAt
<1>5. ValidProposal(q) BY <1>3, <1>4, Zenon DEF ValidProposal
<1>6. World("review") /\ Record'
  <2>1. q \in Proposal BY <1>4, Zenon DEF Redecided
  <2> QED BY <1>1, <1>2, <1>4, <1>5, <2>1, FailureWritten
<1> QED BY <1>1, <1>6, Ended

LEMMA RelieveKeeps ==
  ASSUME DeskInv, Relieve
  PROVE DeskInv'
<1> PICK j : j = job["review"] OBVIOUS
<1>1. j.at = "relieve" /\ UNCHANGED <<global, opened, final, denied>> /\ (Return("review") \/ Throw("review"))
  BY Zenon DEF Relieve, At, PutLineage, Write
<1>2. \/ UNCHANGED lineage
      \/ Unmoved(j) /\ lineage' = [lineage EXCEPT ![j.l] =
             Amended(lineage[j.l], [Last(lineage[j.l]) EXCEPT !.review = None])]
  BY Zenon DEF Relieve, PutLineage, Write
<1>3. j.at \in Looking BY <1>1 DEF Looking
<1>4. CASE UNCHANGED lineage
  BY <1>1, <1>3, <1>4, ReviewAt, QuietKept, Ended
<1>5. CASE Unmoved(j) /\ lineage' = [lineage EXCEPT ![j.l] =
             Amended(lineage[j.l], [Last(lineage[j.l]) EXCEPT !.review = None])]
  BY <1>1, <1>3, <1>5, LookWritten
<1> QED BY <1>2, <1>4, <1>5

LEMMA AttentionKeeps ==
  ASSUME DeskInv, Attention
  PROVE DeskInv'
<1> PICK j : j = job["review"] OBVIOUS
<1>1. j.at = "attention" /\ UNCHANGED <<global, opened, final, denied>> /\ (Return("review") \/ Throw("review"))
  BY Zenon DEF Attention, At, PutLineage, Write
<1>2. \/ UNCHANGED lineage
      \/ Undecided(j) /\ lineage' = [lineage EXCEPT ![j.l] =
             Amended(lineage[j.l], [Last(lineage[j.l]) EXCEPT !.review = j.code])]
  BY Zenon DEF Attention, PutLineage, Write
<1>3. j.at \in Looking BY <1>1 DEF Looking
<1>4. CASE UNCHANGED lineage
  BY <1>1, <1>3, <1>4, ReviewAt, QuietKept, Ended
<1>5. CASE Undecided(j) /\ lineage' = [lineage EXCEPT ![j.l] =
             Amended(lineage[j.l], [Last(lineage[j.l]) EXCEPT !.review = j.code])]
  <2>1. j.code \in Codes /\ Unmoved(j) /\ Last(lineage[j.l]).decision = None
    BY <1>1, <1>3, <1>5, ReviewAt DEF Undecided
  <2> QED BY <1>1, <1>3, <1>5, <2>1, LookWritten
<1> QED BY <1>2, <1>4, <1>5

LEMMA QuietEnds ==
    ASSUME NEW c \in Coordinators, DeskInv, UNCHANGED <<global, lineage, opened, final, denied>>,
           Return(c) \/ Throw(c), job[c].at # "idle"
    PROVE DeskInv'
BY JobKnown, QuietKept, Ended

LEMMA ReviewUndone ==
  ASSUME DeskInv, World("review"), Record', job["review"].l \in Lineages,
         Undo("review", "reviewed")
  PROVE DeskInv'
<1> PICK j : j = job["review"] OBVIOUS
<1> PICK k : k = [j EXCEPT !.at = "reviewed", !.op = IF @ = "restore" THEN @ ELSE "undo"]
  OBVIOUS
<1>1. j \in Job /\ "review" \in Coordinators /\ "reviewed" \in Steps /\ "reviewed" \notin Looking
      /\ "reviewed" # "clear"
  BY JobKnown DEF Coordinators, Steps, Looking
<1>2. SameJob(j, k) /\ k.at = "reviewed" BY <1>1, JobUndone
<1>3. JobOK(k) BY <1>2, JobLands
<1>4. Goto("review", k) BY Zenon DEF Undo
<1>5. k.at # "attention" /\ k.at # "decide" /\ k.at # "clear" /\ k.at \notin Looking
  BY <1>1, <1>2
<1> QED BY <1>3, <1>4, <1>5, ReviewGoes

LEMMA PrepareReviewKeeps ==
  ASSUME DeskInv, PrepareReview
  PROVE DeskInv'
<1> PICK j : j = job["review"] OBVIOUS
<1>1. j.at = "prepare" /\ UNCHANGED <<lineage, opened, final, denied>>
  BY Zenon DEF PrepareReview, At, Same, PutGlobal, Write
<1>2. \/ UNCHANGED global /\ Goto("review", WithCode(j, "attention", "CATALOG_CHANGED"))
      \/ UNCHANGED global /\ Throw("review")
      \/ /\ Free /\ global' = Prepared("REVIEW", Owner(j))
         /\ Goto("review", [j EXCEPT !.at = "decide"]) \/ Throw("review")
  BY Zenon DEF PrepareReview, PutGlobal, Write, Same, To
<1>3. j.at \in Looking /\ {"attention", "decide"} \subseteq Looking
      /\ "attention" # "decide" /\ {"attention", "decide"} \subseteq Steps
  BY <1>1 DEF Looking, Steps
<1>4. /\ j.l \in Lineages /\ Looks(j) /\ Record /\ JobOK(j) /\ j \in Job /\ j.at # "idle"
      /\ "review" \in Coordinators
  BY <1>3, ReviewAt
<1>5. CASE UNCHANGED global /\ Goto("review", WithCode(j, "attention", "CATALOG_CHANGED"))
  <2> PICK k : k = WithCode(j, "attention", "CATALOG_CHANGED") OBVIOUS
  <2>1. SameJob(j, k) /\ k.at = "attention" /\ k.code \in Codes
    BY <1>3, <1>4, CodesOfOutcomes, JobWithCode
  <2> QED BY <1>1, <1>3, <1>5, <2>1, ReviewLooksOn
<1>6. CASE UNCHANGED global /\ Throw("review")
  BY <1>1, <1>4, <1>6, QuietEnds
<1>7. CASE /\ Free /\ global' = Prepared("REVIEW", Owner(j))
           /\ Goto("review", [j EXCEPT !.at = "decide"]) \/ Throw("review")
  <2>1. Held("review") = "REVIEW" /\ "review" # "publication"
    BY KindsDiffer
  <2>2. World("review") /\ Record'
    BY <1>1, <1>4, <1>7, <2>1, PreparedKept
  <2>3. CASE Throw("review") BY <1>4, <2>2, <2>3, Ended
  <2>4. CASE Goto("review", [j EXCEPT !.at = "decide"])
    <3> PICK k : k = [j EXCEPT !.at = "decide"] OBVIOUS
    <3>1. SameJob(j, k) /\ k.at = "decide" BY <1>3, <1>4, JobAt
    <3>2. JobOK(k) /\ Looks(k) BY <1>4, <3>1, JobLands, SameLook
    <3>3. global'.journal.kind = "REVIEW" /\ global'.journal.owner = Owner(j)
      BY <1>4, <1>7, PreparedFields DEF Record
    <3>4. Owns("REVIEW", Owner(k))'
      BY <3>1, <3>3, Zenon DEF Owns, Owner, SameJob
    <3> QED BY <2>2, <2>4, <3>1, <3>2, <3>4, ReviewGoes
  <2> QED BY <1>7, <2>3, <2>4
<1> QED BY <1>2, <1>5, <1>6, <1>7

(* What is decided is undecided till then. *)
LEMMA DecisionIsProper ==
  ASSUME Record, NEW l \in Lineages, Live(l), Last(lineage[l]).decision = None, NEW op,
         Owns("REVIEW", <<l, Len(lineage[l].proposals)>>),
         NEW m, LET a == Amended(lineage[l], Decided(Last(lineage[l]), op))
                IN  m = IF op = "approve" THEN a ELSE [a EXCEPT !.state = "TERMINAL"]
  PROVE  /\ Proper(l, m, Decided(Last(lineage[l]), op)) /\ Turned("review", l, m)
         /\ m \in Lineage /\ (op = "approve" => m.state # "TERMINAL")
<1> PICK ln, p, q : ln = lineage[l] /\ p = Last(ln) /\ q = Decided(p, op) OBVIOUS
<1> PICK a : a = Amended(ln, q) OBVIOUS
<1>1. /\ ln \in Lineage /\ ln.proposals # << >> /\ p \in Proposal /\ ValidProposal(p)
      /\ p.state = IF ln.state = "REFRESHING" THEN "SUPERSEDED" ELSE ln.state
      /\ ln.state \in {"ACTIVE", "REFRESHING", "PUBLISHED", "TERMINAL"}
      /\ ln.state = "PUBLISHED" => p.decision = "APPROVED"
      /\ ln.state = "TERMINAL" => p.decision = "REJECTED"
  BY LiveFacts
<1>2. ln.state \in {"ACTIVE", "REFRESHING"} /\ p.state \in {"ACTIVE", "SUPERSEDED"}
      /\ p.publication = None
  BY <1>1 DEF ValidProposal, None
<1>3. /\ Redecided(p, q) /\ q.review = None /\ q.publication = None
      /\ op = "approve" => q.state = p.state /\ q.decision = "APPROVED"
      /\ op # "approve" => q.state = "TERMINAL" /\ q.decision = "REJECTED"
  BY <1>1, <1>2, DecidedFields
<1>4. ValidProposal(q) BY <1>2, <1>3 DEF ValidProposal
<1>5. q \in Proposal /\ a \in Lineage /\ a.state = ln.state
  BY <1>1, <1>3, AmendedFields DEF Redecided
<1>6. /\ op = "approve" => m = a /\ m.state = ln.state
      /\ op # "approve" => m = [a EXCEPT !.state = m.state] /\ m.state = "TERMINAL"
      /\ m \in Lineage
  <2>1. CASE op = "approve" BY <1>5, <2>1
  <2>2. CASE op # "approve"
    <3>1. m = [a EXCEPT !.state = "TERMINAL"] BY <2>2
    <3> HIDE DEF Amended
    <3>2. m.state = "TERMINAL" /\ m \in Lineage
      BY <1>5, <3>1 DEF Lineage
    <3> QED BY <2>2, <3>1, <3>2
  <2> QED BY <2>1, <2>2
<1>7. /\ m = a \/ m = [a EXCEPT !.state = m.state]
      /\ q.state = IF m.state = "REFRESHING" THEN "SUPERSEDED" ELSE m.state
      /\ m.state = "PUBLISHED" => q.decision = "APPROVED"
      /\ m.state = "TERMINAL" => q.decision = "REJECTED"
      /\ m.state \in {"ACTIVE", "REFRESHING", "PUBLISHED", "TERMINAL"}
  BY <1>1, <1>2, <1>3, <1>6
<1>8. Proper(l, m, q)
  BY <1>3, <1>4, <1>5, <1>7, Zenon DEF Proper, Redecided
<1>9. Turned("review", l, m) BY <1>2, <1>6, KindsDiffer DEF Turned
<1> QED BY <1>2, <1>6, <1>8, <1>9

LEMMA DecideKeeps ==
  ASSUME DeskInv, Decide
  PROVE DeskInv'
<1> PICK j : j = job["review"] OBVIOUS
<1> PICK m : m = LET a == Amended(lineage[j.l], Decided(Last(lineage[j.l]), j.op))
                 IN  IF j.op = "approve" THEN a ELSE [a EXCEPT !.state = "TERMINAL"]
  OBVIOUS
<1> PICK at : at = IF j.op = "approve" THEN "clear" ELSE "commit" OBVIOUS
<1> PICK k : k = SeenAt(j, m, at) OBVIOUS
<1>1. j.at = "decide" /\ UNCHANGED <<global, opened, final, denied>>
  BY Zenon DEF Decide, At, PutLineage, Write
<1>2. \/ UNCHANGED lineage /\ Undo("review", "reviewed")
      \/ /\ Undecided(j) /\ lineage' = [lineage EXCEPT ![j.l] = m]
         /\ Goto("review", k) \/ Undo("review", "reviewed")
  BY Zenon DEF Decide, PutLineage, Write, SeenAt
<1>3. j.at \in Looking BY <1>1 DEF Looking
<1>4. /\ j.l \in Lineages /\ Looks(j) /\ Record /\ JobOK(j) /\ j \in Job
      /\ "review" \in Coordinators /\ Owns("REVIEW", Owner(j))
  BY <1>1, <1>3, ReviewAt
<1>5. CASE UNCHANGED lineage /\ Undo("review", "reviewed")
  BY <1>1, <1>4, <1>5, QuietKept, ReviewUndone
<1>6. CASE /\ Undecided(j) /\ lineage' = [lineage EXCEPT ![j.l] = m]
           /\ Goto("review", k) \/ Undo("review", "reviewed")
  <2>1. Unmoved(j) /\ Last(lineage[j.l]).decision = None
    BY <1>6, Zenon DEF Undecided
  <2>2. Live(j.l) /\ Len(lineage[j.l].proposals) = j.ref
    BY <1>4, <2>1, UnmovedFacts
  <2>3. Owns("REVIEW", <<j.l, Len(lineage[j.l].proposals)>>)
    BY <1>4, <2>2, Zenon DEF Owner
  <2>4. /\ Proper(j.l, m, Decided(Last(lineage[j.l]), j.op)) /\ Turned("review", j.l, m)
        /\ m \in Lineage /\ (j.op = "approve" => m.state # "TERMINAL")
    BY <1>4, <2>1, <2>2, <2>3, DecisionIsProper
  <2>5. World("review") /\ Record'
    BY <1>1, <1>4, <1>6, <2>4, AmendedWrites, RowsWrittenKept
  <2>6. CASE Undo("review", "reviewed")
    BY <1>4, <2>5, <2>6, ReviewUndone
  <2>7. CASE Goto("review", k)
    <3>2. at \in Steps /\ at \notin Looking BY DEF Steps, Looking
    <3>4. k \in Job /\ k.l = j.l /\ k.at = at
      BY <1>4, <2>4, <3>2, JobSeesAt
    <3>5. JobOK(k) /\ k.l = j.l BY <1>4, <3>4 DEF JobOK
    <3>6. k.at = "clear" => lineage'[k.l].state # "TERMINAL"
      BY <1>4, <1>6, <2>4, <3>4, <3>5 DEF Record, RowsInv
    <3>7. k.at \notin Looking /\ k.at # "attention" /\ k.at # "decide"
      BY <3>2, <3>4 DEF Looking
    <3> QED BY <2>5, <2>7, <3>5, <3>6, <3>7, ReviewGoes
  <2> QED BY <1>6, <2>6, <2>7
<1> QED BY <1>2, <1>5, <1>6

LEMMA CloseReviewKeeps ==
  ASSUME DeskInv, NEW j, j = job["review"], j.at \in {"clear", "commit"},
         UNCHANGED <<lineage, opened, final, denied>>,
         \/ UNCHANGED global
         \/ /\ Owns("REVIEW", Owner(j))
            /\ \/ j.at = "clear" /\ global' = Dropped
               \/ j.at = "commit" /\ global' = Committed,
         Return("review") \/ Throw("review") \/ Undo("review", "reviewed")
  PROVE DeskInv'
<1>1. /\ "review" \in Coordinators /\ j.at \notin Unnamed /\ j.at # "idle" /\ "review" # "refresh"
      /\ "review" # "publication" /\ "review" # "revision"
  BY DEF Coordinators, Unnamed
<1>2. JobOK(j) /\ Record /\ j.l \in Lineages BY <1>1, JobKnown
<1>3. j.at = "clear" => lineage[j.l].state # "TERMINAL"
  BY <1>1 DEF DeskInv, Knows, ReviewInv
<1>4. World("review") /\ Record'
  <2>1. CASE UNCHANGED global BY <1>1, <1>2, <2>1, QuietKept
  <2>2. CASE Owns("REVIEW", Owner(j))
             /\ \/ j.at = "clear" /\ global' = Dropped
                \/ j.at = "commit" /\ global' = Committed
    <3>1. Journals(Held("review")) /\ global.journal.owner[1] = j.l
      BY <2>2, KindsDiffer DEF Journals, Owns, Owner
    <3>2. CASE j.at = "clear" /\ global' = Dropped
      BY <1>1, <1>2, <1>3, <3>1, <3>2, DroppedKept
    <3>3. CASE j.at = "commit" /\ global' = Committed
      BY <1>1, <1>2, <3>1, <3>3, CommittedKept
    <3> QED BY <2>2, <3>2, <3>3
  <2> QED BY <2>1, <2>2
<1>5. CASE Return("review") \/ Throw("review")
  BY <1>1, <1>4, <1>5, Ended
<1>6. CASE Undo("review", "reviewed") BY <1>2, <1>4, <1>6, ReviewUndone
<1> QED BY <1>5, <1>6

LEMMA ClearReviewKeeps ==
  ASSUME DeskInv, ClearReview
  PROVE DeskInv'
<1> PICK j : j = job["review"] OBVIOUS
<1>1. /\ j.at = "clear" /\ UNCHANGED <<lineage, opened, final, denied>>
      /\ UNCHANGED global \/ (Owns("REVIEW", Owner(j)) /\ global' = Dropped)
      /\ Return("review") \/ Throw("review") \/ Undo("review", "reviewed")
  BY Zenon DEF ClearReview, CloseReview, At, PutGlobal, Write, Current, ReviewFailed
<1> QED BY <1>1, CloseReviewKeeps

LEMMA CommitReviewKeeps ==
  ASSUME DeskInv, CommitReview
  PROVE DeskInv'
<1> PICK j : j = job["review"] OBVIOUS
<1>1. /\ j.at = "commit" /\ UNCHANGED <<lineage, opened, final, denied>>
      /\ UNCHANGED global \/ (Owns("REVIEW", Owner(j)) /\ global' = Committed)
      /\ Return("review") \/ Throw("review") \/ Undo("review", "reviewed")
  BY Zenon DEF CommitReview, CloseReview, At, PutGlobal, Write, Current, ReviewFailed
<1> QED BY <1>1, CloseReviewKeeps

LEMMA ReturnedKeeps ==
  ASSUME DeskInv, Returned
  PROVE DeskInv'
<1>1. /\ job["review"].at = "return" /\ UNCHANGED <<global, lineage, opened, final, denied>>
      /\ Return("review")
  BY Zenon DEF Returned, At, Same
<1>2. "review" \in Coordinators /\ "return" # "idle" BY DEF Coordinators
<1> QED BY <1>1, <1>2, QuietEnds

(* The lineage that a journal names. *)
LEMMA OwnLineage ==
    ASSUME NEW owner, OwnLineages(owner) # {},
           NEW l, l = CHOOSE k \in OwnLineages(owner) : TRUE
    PROVE l \in Lineages /\ Live(l) /\ owner = <<l, Len(lineage[l].proposals)>>
BY DEF OwnLineages, Live

NamedAt(j, l, ref, at) == [[j EXCEPT !.l = l, !.ref = ref] EXCEPT !.at = at]
LEMMA JobNamedAt ==
  ASSUME NEW j \in Job, NEW l \in Lineages, NEW ref \in Nat, NEW at \in Steps
  PROVE  /\ JobOK(NamedAt(j, l, ref, at)) /\ NamedAt(j, l, ref, at).at = at
         /\ NamedAt(j, l, ref, at).l = l /\ NamedAt(j, l, ref, at).ref = ref
<1> DEFINE g == [j EXCEPT !.l = l]
           h == [g EXCEPT !.ref = ref]
           k == [h EXCEPT !.at = at]
<1>1. g \in Job /\ g.l = l BY DEF Job
<1>2. NamedAt(j, l, ref, at) = k BY DEF NamedAt
<1> HIDE DEF g
<1>3. h \in Job /\ h.l = l /\ h.ref = ref BY <1>1 DEF Job
<1> HIDE DEF h
<1>4. SameJob(h, k) /\ k.at = at BY <1>3, JobAt
<1> HIDE DEF k
<1> QED BY <1>2, <1>3, <1>4 DEF SameJob, JobOK

LEMMA RecoverReviewKeeps ==
  ASSUME DeskInv, RecoverReview
  PROVE DeskInv'
<1> PICK j : j = job["review"] OBVIOUS
<1> PICK owner : owner = global.journal.owner OBVIOUS
<1> PICK l : l = CHOOSE k \in OwnLineages(owner) : TRUE OBVIOUS
<1>1. j.at = "reviewed" /\ UNCHANGED <<global, lineage, opened, final, denied>>
  BY Zenon DEF RecoverReview, At, Same
<1>2. \/ Return("review") \/ Throw("review")
      \/ /\ OwnLineages(owner) # {}
         /\ \/ Goto("review", NamedAt(j, l, owner[2], "commit"))
            \/ lineage[l].state = "ACTIVE" /\ Goto("review", NamedAt(j, l, owner[2], "clear"))
  BY Zenon DEF RecoverReview, NamedAt
<1>3. "review" \in Coordinators /\ j.at # "idle"
  BY <1>1 DEF Coordinators
<1>4. j \in Job /\ Record BY <1>3, JobKnown
<1>5. CASE Return("review") \/ Throw("review")
  BY <1>1, <1>3, <1>5, QuietEnds
<1>6. ASSUME OwnLineages(owner) # {}, NEW at \in {"clear", "commit"},
             Goto("review", NamedAt(j, l, owner[2], at)), at = "clear" => lineage[l].state = "ACTIVE"
      PROVE DeskInv'
  <2> PICK k : k = NamedAt(j, l, owner[2], at) OBVIOUS
  <2>1. l \in Lineages /\ Live(l) /\ owner = <<l, Len(lineage[l].proposals)>>
    BY <1>6, OwnLineage
  <2>2. owner[2] \in Nat BY <1>4, <2>1, LiveFacts, RowFields
  <2>3. at \in Steps /\ at \notin Looking /\ at # "decide" /\ at # "attention"
    BY DEF Steps, Looking
  <2>4. JobOK(k) /\ k.at = at /\ k.l = l
    <3> PICK ref : ref = owner[2] OBVIOUS
    <3>1. j \in Job /\ l \in Lineages /\ ref \in Nat /\ at \in Steps
      BY <1>4, <2>1, <2>2, <2>3
    <3>2. k = NamedAt(j, l, ref, at) OBVIOUS
    <3>3. JobOK(NamedAt(j, l, ref, at)) /\ NamedAt(j, l, ref, at).at = at
          /\ NamedAt(j, l, ref, at).l = l
      BY <3>1, JobNamedAt
    <3> QED BY <3>2, <3>3
  <2>5. World("review") /\ Record' BY <1>1, <1>3, <1>4, QuietKept
  <2>6. k.at = "clear" => lineage'[k.l].state # "TERMINAL"
    BY <1>1, <1>6, <2>4
  <2> QED BY <1>6, <2>3, <2>4, <2>5, <2>6, ReviewGoes
<1> QED BY <1>2, <1>5, <1>6

LEMMA ReviewKeeps ==
    ASSUME DeskInv, Review
    PROVE DeskInv'
BY InspectKeeps, RelieveKeeps, ApproveKeeps, AttentionKeeps, PrepareReviewKeeps, DecideKeeps,
   ClearReviewKeeps, CommitReviewKeeps, RecoverReviewKeeps, ReturnedKeeps, Zenon DEF Review

----
(* Publication, step by step. *)
LEMMA PublicationAt ==
  ASSUME DeskInv, NEW j, j = job["publication"], j.at \in Publishing
  PROVE  /\ j.l \in Lineages /\ Looks(j) /\ JobOK(j) /\ j \in Job /\ Record
         /\ "publication" \in Coordinators /\ j.at # "idle"
         /\ j.at \in {"publish", "prepare", "note"} =>
                j.seen.state = "ACTIVE" /\ Last(j.seen).decision = "APPROVED"
         /\ j.at = "prepare" => Last(j.seen).epoch = j.epoch
         /\ j.at \in {"note", "refuse", "failure", "failure, clear"} => j.code \in Codes
         /\ j.at \in Attempting => HoldsAttempt(j) /\ lineage[j.l].state # "PUBLISHED"
         /\ j.at = "commit" => HoldsAttempt(j) /\ lineage[j.l].state = "PUBLISHED"
         /\ j.at \in {"install", "ask disk"} => global.journal.phase = "EXECUTING"
         /\ j.at \in {"execute", "failure, clear", "clear", "recheck"} =>
                global.journal.phase # "EXECUTING"
         /\ j.at \in {"refuse", "unexecute"} => NotFinal(Owner(j), j.epoch)
<1>1. "publication" \in Coordinators /\ j.at \notin Unnamed /\ j.at # "idle"
  BY DEF Coordinators, Publishing, Attempting, Unnamed
<1>2. JobOK(j) /\ j \in Job /\ Record /\ j.l \in Lineages
  BY <1>1, JobKnown
<1>3. PublicationInv BY <1>1 DEF DeskInv, Knows
<1> QED BY <1>1, <1>2, <1>3, Zenon DEF PublicationInv, Publishing

LEMMA AttemptingPublishes == Attempting \subseteq Publishing /\ "commit" \in Publishing
    /\ {"publish", "prepare", "note"} \subseteq Publishing
    /\ {"publish", "prepare", "note", "commit"} \cap Attempting = {}
BY DEF Publishing, Attempting

LEMMA PublicationFails ==
  ASSUME DeskInv, World("publication"), Record', NEW j, j = job["publication"],
         j.l \in Lineages, j.at # "idle",
         Return("publication") \/ Throw("publication") \/ PublicationFailed
  PROVE DeskInv'
<1>1. j \in Job /\ "publication" \in Coordinators
  BY JobKnown DEF Coordinators
<1>2. CASE Return("publication") \/ Throw("publication")
  BY <1>1, <1>2, Ended
<1>3. CASE Undo("publication", "reconcile")
  <2> PICK k : k = [j EXCEPT !.at = "reconcile", !.op = IF @ = "restore" THEN @ ELSE "undo"]
    OBVIOUS
  <2>1. "reconcile" \in Steps /\ "reconcile" \notin Publishing
    BY DEF Steps, Publishing, Attempting
  <2>2. SameJob(j, k) /\ k.at = "reconcile" BY <1>1, <2>1, JobUndone
  <2>3. JobOK(k) /\ k.at \notin Publishing BY <2>1, <2>2, JobLands
  <2>4. Goto("publication", k) BY <1>3, Zenon DEF Undo
  <2> QED BY <2>3, <2>4, PublicationGoes DEF Publishing, Attempting
<1> QED BY <1>2, <1>3, Zenon DEF PublicationFailed

(* An attempt that holds the journal is of an approved proposal. *)
LEMMA AttemptFacts ==
  ASSUME DeskInv, NEW j, j = job["publication"], j.at \in Attempting
  PROVE  /\ Live(j.l) /\ Len(lineage[j.l].proposals) = j.ref
         /\ lineage[j.l].state = "ACTIVE" /\ Last(lineage[j.l]).decision = "APPROVED"
         /\ Journals("PUBLICATION") /\ global.journal.owner = Owner(j)
         /\ global.journal.epoch = j.epoch
         /\ Owns("PUBLICATION", <<j.l, Len(lineage[j.l].proposals)>>)
         /\ global.journal.phase # "EXECUTING" => NotFinal(Owner(j), j.epoch)
<1>1. HoldsAttempt(j) /\ lineage[j.l].state # "PUBLISHED" /\ Record
  BY AttemptingPublishes, PublicationAt
<1>2. Journals("PUBLICATION") /\ global.journal.owner = Owner(j) /\ global.journal.epoch = j.epoch
  BY <1>1, Zenon DEF HoldsAttempt, Owns, Journals
<1>3. Approved(Owner(j)) /\ (global.journal.phase # "EXECUTING" => NotFinal(Owner(j), j.epoch))
  BY <1>1, <1>2, Zenon DEF Record, JournalInv, Journals
<1>4. Live(j.l) /\ Owner(j) = <<j.l, Len(lineage[j.l].proposals)>>
      /\ lineage[j.l].state = "ACTIVE" /\ Last(lineage[j.l]).decision = "APPROVED"
  BY <1>1, <1>3 DEF Approved, Owner
<1>5. Len(lineage[j.l].proposals) = j.ref BY <1>4 DEF Owner
<1> QED BY <1>2, <1>3, <1>4, <1>5, Zenon DEF Owns, Journals

LEMMA AttemptGoes ==
  ASSUME DeskInv, World("publication"), Record', NEW j, j = job["publication"],
         j.at \in Attempting, NEW k, SameJob(j, k), k.epoch = j.epoch, k.at \in Attempting,
         Goto("publication", k),
         global'.journal.kind = global.journal.kind,
         global'.journal.owner = global.journal.owner,
         global'.journal.epoch = global.journal.epoch,
         lineage'[j.l].state # "PUBLISHED",
         k.at \in {"refuse", "failure", "failure, clear"} => k.code \in Codes,
         k.at \in {"install", "ask disk"} => global'.journal.phase = "EXECUTING",
         k.at \in {"execute", "failure, clear", "clear", "recheck"} =>
             global'.journal.phase # "EXECUTING",
         k.at \in {"refuse", "unexecute"} => NotFinal(Owner(j), j.epoch)'
  PROVE DeskInv'
<1>1. j.l \in Lineages /\ Looks(j) /\ HoldsAttempt(j)
  BY AttemptingPublishes, PublicationAt
<1>2. JobOK(k) /\ Looks(k) BY <1>1, JobLands, SameLook
<1>3. HoldsAttempt(k)'
  BY <1>1, Zenon DEF HoldsAttempt, Owns, Owner, SameJob
<1>4. lineage'[k.l].state # "PUBLISHED" BY Zenon DEF SameJob
<1>5. k.at \in {"refuse", "unexecute"} => NotFinal(Owner(k), k.epoch)'
  BY Zenon DEF NotFinal, Owner, SameJob
<1>6. k.at \notin {"publish", "prepare", "note", "commit"}
  BY AttemptingPublishes
<1>7. k.at \in {"note", "refuse", "failure", "failure, clear"} => k.code \in Codes
  BY <1>6
<1> QED BY <1>2, <1>3, <1>4, <1>5, <1>6, <1>7, PublicationGoes

LEMMA PublishKeeps ==
  ASSUME DeskInv, Publish
  PROVE DeskInv'
<1> PICK j : j = job["publication"] OBVIOUS
<1>1. j.at = "publish" /\ UNCHANGED <<global, lineage, opened, final, denied>>
  BY Zenon DEF Publish, At, Same
<1>2. \/ "CURRENT" \in Revalidated(j) /\ Goto("publication", WithEpoch(j, "prepare"))
      \/ \E code \in Codes : Goto("publication", WithCode(j, "note", code))
  BY CodesOfOutcomes, Zenon DEF Publish
<1>3. j.at \in Publishing /\ {"prepare", "note"} \subseteq Steps
  BY <1>1, AttemptingPublishes DEF Steps
<1>4. /\ j.l \in Lineages /\ Looks(j) /\ j \in Job /\ Record /\ "publication" \in Coordinators
      /\ j.seen.state = "ACTIVE" /\ Last(j.seen).decision = "APPROVED"
      /\ global.epoch \in Nat
  BY <1>1, <1>3, PublicationAt DEF Record, GlobalTypes
<1>5. World("publication") /\ Record' BY <1>1, <1>4, QuietKept
<1>6. ASSUME NEW k, SameJob(j, k), k.at \in {"prepare", "note"}, k.at = "note" => k.code \in Codes,
             k.at = "prepare" => Last(j.seen).epoch = k.epoch, Goto("publication", k)
      PROVE DeskInv'
  <2>1. JobOK(k) /\ Looks(k) /\ k.seen = j.seen
    BY <1>4, <1>6, JobLands, SameLook DEF SameJob
  <2>2. k.at \notin Attempting /\ k.at # "commit" BY <1>6 DEF Attempting
  <2> QED BY <1>4, <1>5, <1>6, <2>1, <2>2, PublicationGoes DEF Attempting
<1>7. CASE "CURRENT" \in Revalidated(j) /\ Goto("publication", WithEpoch(j, "prepare"))
  <2> PICK k : k = WithEpoch(j, "prepare") OBVIOUS
  <2>1. SameJob(j, k) /\ k.at = "prepare" /\ k.epoch = global.epoch
    BY <1>3, <1>4, JobWithEpoch
  <2>2. Last(j.seen).epoch = global.epoch BY <1>7 DEF Revalidated
  <2> QED BY <1>6, <1>7, <2>1, <2>2
<1>8. ASSUME NEW code \in Codes, Goto("publication", WithCode(j, "note", code))
      PROVE DeskInv'
  <2> PICK k : k = WithCode(j, "note", code) OBVIOUS
  <2>1. SameJob(j, k) /\ k.at = "note" /\ k.code = code
    BY <1>3, <1>4, JobWithCode
  <2> QED BY <1>6, <1>8, <2>1
<1> QED BY <1>2, <1>7, <1>8

(* On a free catalog, what was read of this very epoch is still the last word. *)
LEMMA ReadyFacts ==
  ASSUME Record, NEW j, JobOK(j), j.l \in Lineages, Looks(j), Free,
         Last(j.seen).decision = "APPROVED", Last(j.seen).epoch = global.epoch
  PROVE  /\ Approved(Owner(j)) /\ NotFinal(Owner(j), global.epoch)
         /\ lineage[j.l].state = "ACTIVE"
<1> PICK l, s, ln : l = j.l /\ s = j.seen /\ ln = lineage[l] OBVIOUS
<1>1. /\ s \in Lineage /\ s.proposals # << >> /\ Len(s.proposals) = j.ref
      /\ Live(l) => AsRead(s, ln) /\ Follows(s, ln)
      /\ ~Live(l) => \/ Last(s).epoch < global.epoch
                     \/ global.fence = "PURGE" /\ Last(s).epoch <= global.epoch
  BY LookFacts
<1>2. global.epoch \in Nat /\ global.journal.kind = None /\ global.fence = "FREE"
  BY DEF Record, GlobalTypes, Free
<1>3. Live(l) BY <1>1, <1>2
<1>4. ln \in Lineage /\ ln.proposals # << >> /\ InEpoch(l) /\ OutOfPlay(l)
  BY <1>3, RowAlone DEF Record
<1>5. Last(ln).epoch <= global.epoch /\ Last(ln).epoch \in Nat
  BY <1>2, <1>4, LastField, KindsDiffer DEF InEpoch
<1>6. /\ Len(ln.proposals) = j.ref /\ Last(ln).epoch = global.epoch
      /\ Last(s).decision \in {None, Last(ln).decision}
  BY <1>1, <1>2, <1>3, <1>5 DEF Follows
<1>7. Last(ln).decision = "APPROVED" BY <1>6 DEF None
<1>8. ASSUME NEW state, NEW kind, kind # None, Leaves(l, state, kind)
      PROVE ln.state # state
  BY <1>2, <1>6, <1>8 DEF Leaves, Owns
<1>9. ln.state \in {"ACTIVE", "REFRESHING", "PUBLISHED", "TERMINAL"}
  BY <1>3, LiveFacts
<1>10. ln.state = "ACTIVE"
  BY <1>4, <1>8, <1>9, KindsDiffer DEF OutOfPlay
<1>11. Owner(j) = <<l, Len(ln.proposals)>> BY <1>6 DEF Owner
<1>12. Approved(Owner(j)) BY <1>3, <1>6, <1>7, <1>10, <1>11 DEF Approved
<1>13. NotFinal(Owner(j), global.epoch)
  <2> SUFFICES ASSUME NEW a \in final \ denied, Owner(j) = <<a[1], a[2]>> PROVE FALSE
    BY DEF NotFinal
  <2>1. a[1] = l BY DEF Owner
  <2>2. \/ lineage[a[1]].state = "ABSENT"
        \/ lineage[a[1]].state = "PUBLISHED" /\ Len(lineage[a[1]].proposals) = a[2]
        \/ global.journal.kind = "PUBLICATION"
    BY Zenon DEF Record, DiskInv, PublishedIsAccounted
  <2> QED BY <1>2, <1>3, <1>10, <2>1, <2>2, KindsDiffer DEF Live
<1> QED BY <1>10, <1>12, <1>13

LEMMA PreparePublicationKeeps ==
  ASSUME DeskInv, PreparePublication
  PROVE DeskInv'
<1> PICK j : j = job["publication"] OBVIOUS
<1>1. j.at = "prepare" /\ UNCHANGED <<lineage, opened, final, denied>>
  BY Zenon DEF PreparePublication, At, Same, PutGlobal, Write
<1>2. \/ UNCHANGED global /\ Goto("publication", WithCode(j, "note", "CATALOG_CHANGED"))
      \/ UNCHANGED global /\ Throw("publication")
      \/ /\ Free /\ global.epoch = j.epoch /\ global' = Prepared("PUBLICATION", Owner(j))
         /\ Goto("publication", [j EXCEPT !.at = "execute"]) \/ Throw("publication")
  BY Zenon DEF PreparePublication, PutGlobal, Write, Same, To
<1>3. j.at \in Publishing /\ {"note", "execute"} \subseteq Steps /\ "execute" \in Attempting
      /\ "note" \notin Attempting /\ "execute" \notin {"refuse", "unexecute", "install", "ask disk"}
  BY <1>1, AttemptingPublishes DEF Steps, Attempting
<1>4. /\ j.l \in Lineages /\ Looks(j) /\ Record /\ JobOK(j) /\ j \in Job /\ j.at # "idle"
      /\ "publication" \in Coordinators /\ Last(j.seen).epoch = j.epoch
      /\ j.seen.state = "ACTIVE" /\ Last(j.seen).decision = "APPROVED"
  BY <1>1, <1>3, PublicationAt
<1>5. CASE UNCHANGED global /\ Goto("publication", WithCode(j, "note", "CATALOG_CHANGED"))
  <2> PICK k : k = WithCode(j, "note", "CATALOG_CHANGED") OBVIOUS
  <2>1. SameJob(j, k) /\ k.at = "note" /\ k.code \in Codes
    BY <1>3, <1>4, CodesOfOutcomes, JobWithCode
  <2>2. JobOK(k) /\ Looks(k) /\ k.seen = j.seen
    BY <1>4, <2>1, JobLands, SameLook DEF SameJob
  <2>3. World("publication") /\ Record' BY <1>1, <1>4, <1>5, QuietKept
  <2> QED BY <1>3, <1>4, <1>5, <2>1, <2>2, <2>3, PublicationGoes
<1>6. CASE UNCHANGED global /\ Throw("publication")
  BY <1>1, <1>4, <1>6, QuietEnds
<1>7. CASE /\ Free /\ global.epoch = j.epoch /\ global' = Prepared("PUBLICATION", Owner(j))
           /\ Goto("publication", [j EXCEPT !.at = "execute"]) \/ Throw("publication")
  <2>1. /\ Approved(Owner(j)) /\ NotFinal(Owner(j), global.epoch)
        /\ lineage[j.l].state = "ACTIVE"
    BY <1>4, <1>7, ReadyFacts
  <2>2. World("publication") /\ Record'
    BY <1>1, <1>4, <1>7, <2>1, KindsDiffer, PreparedKept
  <2>3. CASE Throw("publication") BY <1>4, <2>2, <2>3, Ended
  <2>4. CASE Goto("publication", [j EXCEPT !.at = "execute"])
    <3> PICK k : k = [j EXCEPT !.at = "execute"] OBVIOUS
    <3>1. SameJob(j, k) /\ k.at = "execute" /\ k.epoch = j.epoch
      BY <1>3, <1>4, JobAt
    <3>2. JobOK(k) /\ Looks(k) /\ k.l = j.l
      BY <1>4, <3>1, JobLands, SameLook DEF SameJob
    <3>3. /\ global'.journal.kind = "PUBLICATION" /\ global'.journal.owner = Owner(j)
          /\ global'.journal.epoch = j.epoch /\ global'.journal.phase = "PREPARED"
      BY <1>4, <1>7, PreparedFields DEF Record
    <3>4. HoldsAttempt(k)'
      BY <3>1, <3>3, Zenon DEF HoldsAttempt, Owns, Owner, SameJob
    <3>5. lineage'[k.l].state # "PUBLISHED" BY <1>1, <2>1, <3>2
    <3> QED BY <1>3, <2>2, <2>4, <3>1, <3>2, <3>3, <3>4, <3>5, PublicationGoes
  <2> QED BY <1>7, <2>3, <2>4
<1> QED BY <1>2, <1>5, <1>6, <1>7

LEMMA AttemptGoesTo ==
  ASSUME DeskInv, World("publication"), Record', NEW j, j = job["publication"],
         j.at \in Attempting, NEW at \in Attempting,
         Goto("publication", [j EXCEPT !.at = at]),
         global'.journal.kind = global.journal.kind,
         global'.journal.owner = global.journal.owner,
         global'.journal.epoch = global.journal.epoch,
         lineage'[j.l].state # "PUBLISHED",
         at \in {"refuse", "failure", "failure, clear"} => j.code \in Codes,
         at \in {"install", "ask disk"} => global'.journal.phase = "EXECUTING",
         at \in {"execute", "failure, clear", "clear", "recheck"} =>
             global'.journal.phase # "EXECUTING",
         at \in {"refuse", "unexecute"} => NotFinal(Owner(j), j.epoch)'
  PROVE DeskInv'
<1> PICK k : k = [j EXCEPT !.at = at] OBVIOUS
<1>1. j \in Job /\ at \in Steps
  BY AttemptingPublishes, PublicationAt DEF Attempting, Steps
<1>2. SameJob(j, k) /\ k.at = at /\ k.epoch = j.epoch /\ k.code = j.code
  BY <1>1, JobAt
<1> QED BY <1>2, AttemptGoes

LEMMA ExecuteKeeps ==
  ASSUME DeskInv, Execute
  PROVE DeskInv'
<1> PICK j : j = job["publication"] OBVIOUS
<1>1. j.at = "execute" /\ UNCHANGED <<lineage, opened, final, denied>>
  BY Zenon DEF Execute, At, PutGlobal, Write
<1>2. \/ UNCHANGED global /\ Throw("publication")
      \/ /\ global' = Phased("EXECUTING", None)
         /\ Goto("publication", [j EXCEPT !.at = "install"]) \/ Throw("publication")
  BY Zenon DEF Execute, PutGlobal, Write, To
<1>3. j.at \in Attempting /\ "install" \in Attempting
  BY <1>1 DEF Attempting
<1>4. /\ j.l \in Lineages /\ Record /\ j.at # "idle" /\ "publication" \in Coordinators
      /\ Journals("PUBLICATION") /\ lineage[j.l].state # "PUBLISHED"
  BY <1>3, AttemptingPublishes, AttemptFacts, PublicationAt
<1>5. CASE UNCHANGED global /\ Throw("publication")
  BY <1>1, <1>4, <1>5, QuietEnds
<1>6. CASE /\ global' = Phased("EXECUTING", None)
           /\ Goto("publication", [j EXCEPT !.at = "install"]) \/ Throw("publication")
  <2>1. World("publication") /\ Record' BY <1>1, <1>4, <1>6, PhasedKept
  <2>2. /\ global'.journal.kind = global.journal.kind
        /\ global'.journal.owner = global.journal.owner
        /\ global'.journal.epoch = global.journal.epoch /\ global'.journal.phase = "EXECUTING"
    BY <1>4, <1>6, PhasedFields DEF Record
  <2>3. CASE Throw("publication") BY <1>4, <2>1, <2>3, Ended
  <2>4. CASE Goto("publication", [j EXCEPT !.at = "install"])
    BY <1>1, <1>3, <1>4, <2>1, <2>2, <2>4, AttemptGoesTo
  <2> QED BY <1>6, <2>3, <2>4
<1> QED BY <1>2, <1>5, <1>6

(* The disk is reached for an attempt that holds the journal and has started. *)
LEMMA DiskKept ==
  ASSUME Record, UNCHANGED <<global, lineage>>, NEW a, a = <<a[1], a[2], a[3]>>,
         a[1] \in Lineages, NEW d, Reaches(a, d),
         UNCHANGED denied \/ \E x : Heard(a, d, x),
         global.journal.kind = "PUBLICATION", global.journal.owner = <<a[1], a[2]>>,
         global.journal.epoch = a[3], global.journal.phase = "EXECUTING"
  PROVE World("publication") /\ Record'
<1>1. World("publication")
  BY RowsAside, KindsDiffer, Zenon DEF World, Ages
<1>2. FenceInv' /\ GlobalTypes' /\ RowsInv'
  BY Zenon DEF Record, FenceInv, OneOwner, GlobalTypes, RowsInv, RowInv, Live, InEpoch,
               ChildAhead, OutOfPlay, Once, Leaves, Owns
<1>3. JournalInv' BY Zenon DEF Record, JournalInv, Approved, Live
<1>4. final' \in {final, final \cup {a}} /\ opened \subseteq opened' /\ (final' # final => a \in opened')
  BY DEF Reaches
<1>5. DiskInv'
  <2>1. \A b \in final' : b \in final \/ b = a BY <1>4
  <2>2. final' \subseteq opened' BY <1>4, <2>1 DEF Record, DiskInv
  <2>3. \A b \in final' : b = <<b[1], b[2], b[3]>> /\ b[1] \in Lineages
    BY <2>1, Zenon DEF Record, DiskInv
  <2>4. denied' \subseteq final' /\ \A b \in denied : b \in denied' \/ b = a
    BY <1>4 DEF Record, DiskInv, Reaches, Heard
  <2>5. PublishedIsAccounted'
    BY <2>1, <2>4, Zenon DEF Record, DiskInv, PublishedIsAccounted
  <2> QED BY <2>2, <2>3, <2>4, <2>5, Zenon DEF DiskInv
<1> QED BY <1>1, <1>2, <1>3, <1>5, Zenon DEF Record

(* And what the disk answers is so. *)
LEMMA AnswerFacts ==
  ASSUME NEW a, NEW d, NEW x \in Answers(a, d), Reaches(a, d), Heard(a, d, x),
         d \in Later(DiskOf(a)) \/ (d = "UNTOUCHED" /\ a \notin final)
  PROVE  /\ x \in {"PUBLISHED", "CONFLICT", "STALE", "UNAVAILABLE", "ABSENT"}
         /\ x \in {"STALE", "CONFLICT", "ABSENT"} => a \notin final' \ denied'
<1>1. /\ x \in {"PUBLISHED", "CONFLICT", "STALE", "UNAVAILABLE", "ABSENT"}
      /\ Port(a)!Truthful(x, d)
  BY DEF Answers
<1>2. x \in {"STALE", "CONFLICT", "ABSENT"} => d # "FINAL" \/ a \in denied'
  BY <1>1 DEF Port!Truthful, Heard
<1>3. d # "FINAL" => a \notin final BY DEF Later, DiskOf
<1>4. d # "FINAL" => final' = final BY DEF Reaches
<1> QED BY <1>1, <1>2, <1>3, <1>4

LEMMA AnsweredKeeps ==
  ASSUME DeskInv, NEW j, j = job["publication"], j.at \in {"install", "ask disk"},
         UNCHANGED <<global, lineage>>, NEW d, NEW x \in Answers(Attempt(j), d),
         d \in Later(DiskOf(Attempt(j))) \/ (d = "UNTOUCHED" /\ Attempt(j) \notin final),
         Reaches(Attempt(j), d), Heard(Attempt(j), d, x), Goto("publication", Answered(j, x))
  PROVE DeskInv'
<1> PICK a : a = Attempt(j) OBVIOUS
<1>1. j.at \in Attempting /\ {"publish row", "refuse", "unexecute", "failure"} \subseteq Attempting
      /\ {"publish row", "refuse", "unexecute", "failure"} \cap
         {"install", "ask disk", "execute", "failure, clear", "clear", "recheck"} = {}
  BY DEF Attempting
<1>2. /\ j.l \in Lineages /\ Record /\ j \in Job /\ lineage[j.l].state # "PUBLISHED"
      /\ global.journal.phase = "EXECUTING"
  BY <1>1, AttemptingPublishes, PublicationAt
<1>3. Journals("PUBLICATION") /\ global.journal.owner = Owner(j) /\ global.journal.epoch = j.epoch
  BY <1>1, AttemptFacts
<1>4. /\ a = <<a[1], a[2], a[3]>> /\ a[1] = j.l /\ <<a[1], a[2]>> = Owner(j) /\ a[3] = j.epoch
      /\ a = <<j.l, j.ref, j.epoch>>
  BY DEF Attempt, Owner
<1>5. World("publication") /\ Record'
  BY <1>2, <1>3, <1>4, DiskKept, Zenon DEF Journals
<1>6. /\ x \in {"PUBLISHED", "CONFLICT", "STALE", "UNAVAILABLE", "ABSENT"}
      /\ x \in {"STALE", "CONFLICT", "ABSENT"} => a \notin final' \ denied'
  BY AnswerFacts
<1>7. x \in {"STALE", "CONFLICT", "ABSENT"} => NotFinal(Owner(j), j.epoch)'
  <2> SUFFICES ASSUME a \notin final' \ denied', NEW b \in final' \ denied',
                      Owner(j) = <<b[1], b[2]>>, j.epoch = b[3]
               PROVE FALSE
    BY <1>6, Zenon DEF NotFinal, Owner
  <2>1. b = <<b[1], b[2], b[3]>> BY <1>5, Zenon DEF Record, DiskInv
  <2>2. b[1] = j.l /\ b[2] = j.ref BY DEF Owner
  <2> QED BY <1>4, <2>1, <2>2
<1>8. UNCHANGED global /\ lineage'[j.l].state # "PUBLISHED" BY <1>2
<1>9. CASE x = "PUBLISHED"
  <2>1. Goto("publication", [j EXCEPT !.at = "publish row"])
    BY <1>9 DEF Answered
  <2> QED BY <1>1, <1>5, <1>8, <2>1, AttemptGoesTo
<1>10. CASE x = "ABSENT"
  <2>1. Goto("publication", [j EXCEPT !.at = "unexecute"])
    BY <1>10 DEF Answered
  <2> QED BY <1>1, <1>5, <1>7, <1>8, <1>10, <2>1, AttemptGoesTo
<1>11. ASSUME NEW at \in {"refuse", "failure"}, NEW code \in Codes,
              Goto("publication", WithCode(j, at, code)),
              at = "refuse" => x \in {"STALE", "CONFLICT", "ABSENT"}
       PROVE DeskInv'
  <2> PICK k : k = WithCode(j, at, code) OBVIOUS
  <2>1. at \in Steps /\ at \in Attempting /\ at # "unexecute"
        /\ at \notin {"install", "ask disk", "execute", "failure, clear", "clear", "recheck"}
    BY DEF Steps, Attempting
  <2>2. SameJob(j, k) /\ k.at = at /\ k.code = code /\ k.epoch = j.epoch
    <3>1. j \in Job /\ at \in Steps /\ code \in Codes \cup {None}
      BY <1>2, <2>1
    <3> QED BY <3>1, JobWithCode, ZenonT(60)
  <2> QED BY <1>1, <1>5, <1>7, <1>8, <1>11, <2>1, <2>2, AttemptGoes
<1>12. {"CATALOG_CHANGED", "PUBLICATION_CONFLICT", "PUBLICATION_UNAVAILABLE"} \subseteq Codes
  BY DEF Codes
<1>13. CASE x = "STALE"
  <2>1. Goto("publication", WithCode(j, "refuse", "CATALOG_CHANGED"))
    BY <1>13 DEF Answered
  <2> QED BY <1>11, <1>12, <1>13, <2>1
<1>14. CASE x = "CONFLICT"
  <2>1. Goto("publication", WithCode(j, "refuse", "PUBLICATION_CONFLICT"))
    BY <1>14 DEF Answered
  <2> QED BY <1>11, <1>12, <1>14, <2>1
<1>15. CASE x = "UNAVAILABLE"
  <2>1. Goto("publication", WithCode(j, "failure", "PUBLICATION_UNAVAILABLE"))
    BY <1>15 DEF Answered
  <2> QED BY <1>11, <1>12, <2>1
<1> QED BY <1>6, <1>9, <1>10, <1>13, <1>14, <1>15

LEMMA InstallKeeps ==
  ASSUME DeskInv, Install
  PROVE DeskInv'
<1> PICK j : j = job["publication"] OBVIOUS
<1>1. j.at = "install" /\ UNCHANGED <<global, lineage>>
  BY Zenon DEF Install, Awaits, Same
<1>2. PICK d \in Later(DiskOf(Attempt(j))) : \E x \in Answers(Attempt(j), d) \ {"ABSENT"} :
         Reaches(Attempt(j), d) /\ Heard(Attempt(j), d, x) /\ Goto("publication", Answered(j, x))
  BY Zenon DEF Install
<1>3. PICK x \in Answers(Attempt(j), d) :
         Reaches(Attempt(j), d) /\ Heard(Attempt(j), d, x) /\ Goto("publication", Answered(j, x))
  BY <1>2
<1> QED BY <1>1, <1>2, <1>3, AnsweredKeeps

LEMMA AskDiskKeeps ==
  ASSUME DeskInv, AskDisk
  PROVE DeskInv'
<1> PICK j : j = job["publication"] OBVIOUS
<1> PICK a : a = Attempt(j) OBVIOUS
<1>1. j.at = "ask disk" /\ UNCHANGED <<global, lineage>>
  BY Zenon DEF AskDisk, Awaits, Same
<1>2. PICK d \in IF a \in opened THEN Later(DiskOf(a)) ELSE {"UNTOUCHED"} :
         \E x \in Answers(a, d) :
             Reaches(a, d) /\ Heard(a, d, x) /\ Goto("publication", Answered(j, x))
  BY Zenon DEF AskDisk
<1>x. PICK x \in Answers(a, d) :
         Reaches(a, d) /\ Heard(a, d, x) /\ Goto("publication", Answered(j, x))
  BY <1>2
<1>3. final \subseteq opened BY Zenon DEF DeskInv, Record, DiskInv
<1>4. d \in Later(DiskOf(a)) \/ (d = "UNTOUCHED" /\ a \notin final)
  BY <1>2, <1>3
<1> QED BY <1>1, <1>x, <1>4, AnsweredKeeps

LEMMA RefuseKeeps ==
  ASSUME DeskInv, Refuse
  PROVE DeskInv'
<1> PICK j : j = job["publication"] OBVIOUS
<1>1. j.at = "refuse" /\ UNCHANGED <<lineage, opened, final, denied>>
  BY Zenon DEF Refuse, At, PutGlobal, Write
<1>2. \/ UNCHANGED global /\ PublicationFailed
      \/ /\ global' = Phased("NEEDS_REFRESH", j.code)
         /\ Goto("publication", [j EXCEPT !.at = "failure, clear"]) \/ PublicationFailed
  BY Zenon DEF Refuse, PutGlobal, Write, To
<1>3. j.at \in Attempting /\ "failure, clear" \in Attempting
  BY <1>1 DEF Attempting
<1>4. /\ j.l \in Lineages /\ Record /\ j.at # "idle" /\ "publication" \in Coordinators
      /\ Journals("PUBLICATION") /\ lineage[j.l].state # "PUBLISHED" /\ j.code \in Codes
      /\ NotFinal(Owner(j), j.epoch)
      /\ global.journal.owner = Owner(j) /\ global.journal.epoch = j.epoch
  BY <1>1, <1>3, AttemptingPublishes, AttemptFacts, PublicationAt
<1>5. CASE UNCHANGED global /\ PublicationFailed
  BY <1>1, <1>4, <1>5, QuietKept, PublicationFails
<1>6. CASE /\ global' = Phased("NEEDS_REFRESH", j.code)
           /\ Goto("publication", [j EXCEPT !.at = "failure, clear"]) \/ PublicationFailed
  <2>1. j.code # None BY <1>4 DEF Codes, None
  <2>2. World("publication") /\ Record'
    BY <1>1, <1>4, <1>6, <2>1, PhasedKept
  <2>3. /\ global'.journal.kind = global.journal.kind
        /\ global'.journal.owner = global.journal.owner
        /\ global'.journal.epoch = global.journal.epoch /\ global'.journal.phase = "NEEDS_REFRESH"
    BY <1>4, <1>6, PhasedFields DEF Record
  <2>4. CASE PublicationFailed BY <1>4, <2>2, <2>4, PublicationFails
  <2>5. CASE Goto("publication", [j EXCEPT !.at = "failure, clear"])
    BY <1>1, <1>3, <1>4, <2>2, <2>3, <2>5, AttemptGoesTo
  <2> QED BY <1>6, <2>4, <2>5
<1> QED BY <1>2, <1>5, <1>6

LEMMA UnexecuteKeeps ==
  ASSUME DeskInv, Unexecute
  PROVE DeskInv'
<1> PICK j : j = job["publication"] OBVIOUS
<1>1. j.at = "unexecute" /\ UNCHANGED <<lineage, opened, final, denied>>
  BY Zenon DEF Unexecute, At, PutGlobal, Write
<1>2. \/ UNCHANGED global /\ PublicationFailed
      \/ /\ global' = Phased("PREPARED", None)
         /\ Goto("publication", [j EXCEPT !.at = "recheck"]) \/ PublicationFailed
  BY Zenon DEF Unexecute, PutGlobal, Write, To
<1>3. j.at \in Attempting /\ "recheck" \in Attempting
  BY <1>1 DEF Attempting
<1>4. /\ j.l \in Lineages /\ Record /\ j.at # "idle" /\ "publication" \in Coordinators
      /\ Journals("PUBLICATION") /\ lineage[j.l].state # "PUBLISHED"
      /\ NotFinal(Owner(j), j.epoch)
      /\ global.journal.owner = Owner(j) /\ global.journal.epoch = j.epoch
  BY <1>1, <1>3, AttemptingPublishes, AttemptFacts, PublicationAt
<1>5. CASE UNCHANGED global /\ PublicationFailed
  BY <1>1, <1>4, <1>5, QuietKept, PublicationFails
<1>6. CASE /\ global' = Phased("PREPARED", None)
           /\ Goto("publication", [j EXCEPT !.at = "recheck"]) \/ PublicationFailed
  <2>2. World("publication") /\ Record' BY <1>1, <1>4, <1>6, PhasedKept
  <2>3. /\ global'.journal.kind = global.journal.kind
        /\ global'.journal.owner = global.journal.owner
        /\ global'.journal.epoch = global.journal.epoch /\ global'.journal.phase = "PREPARED"
    BY <1>4, <1>6, PhasedFields DEF Record
  <2>4. CASE PublicationFailed BY <1>4, <2>2, <2>4, PublicationFails
  <2>5. CASE Goto("publication", [j EXCEPT !.at = "recheck"])
    BY <1>1, <1>3, <1>4, <2>2, <2>3, <2>5, AttemptGoesTo
  <2> QED BY <1>6, <2>4, <2>5
<1> QED BY <1>2, <1>5, <1>6

LEMMA RecheckKeeps ==
  ASSUME DeskInv, Recheck
  PROVE DeskInv'
<1> PICK j : j = job["publication"] OBVIOUS
<1>1. j.at = "recheck" /\ UNCHANGED <<global, lineage, opened, final, denied>>
  BY Zenon DEF Recheck, At, Same
<1>2. \/ Goto("publication", [j EXCEPT !.at = "execute"])
      \/ Goto("publication", WithCode(j, "refuse", "CATALOG_CHANGED"))
      \/ Goto("publication", WithCode(j, "failure, clear", "CATALOG_UNAVAILABLE"))
  BY Zenon DEF Recheck, To
<1>3. j.at \in Attempting /\ {"execute", "refuse", "failure, clear"} \subseteq Attempting
      /\ {"refuse", "failure, clear"} \subseteq Steps
      /\ {"CATALOG_CHANGED", "CATALOG_UNAVAILABLE"} \subseteq Codes
  BY <1>1 DEF Attempting, Steps, Codes
<1>4. /\ j.l \in Lineages /\ Record /\ j \in Job /\ "publication" \in Coordinators
      /\ lineage[j.l].state # "PUBLISHED" /\ global.journal.phase # "EXECUTING"
      /\ NotFinal(Owner(j), j.epoch)
  BY <1>1, <1>3, AttemptingPublishes, AttemptFacts, PublicationAt
<1>5. World("publication") /\ Record' /\ NotFinal(Owner(j), j.epoch)'
      /\ lineage'[j.l].state # "PUBLISHED" /\ UNCHANGED global
  BY <1>1, <1>4, QuietKept DEF NotFinal, Owner
<1>6. CASE Goto("publication", [j EXCEPT !.at = "execute"])
  BY <1>3, <1>4, <1>5, <1>6, AttemptGoesTo
<1>7. ASSUME NEW at \in {"refuse", "failure, clear"}, NEW code \in Codes,
             Goto("publication", WithCode(j, at, code))
      PROVE DeskInv'
  <2> PICK k : k = WithCode(j, at, code) OBVIOUS
  <2>1. SameJob(j, k) /\ k.at = at /\ k.code = code /\ k.epoch = j.epoch
    <3>1. j \in Job /\ at \in Steps /\ code \in Codes \cup {None}
      BY <1>3, <1>4
    <3> QED BY <3>1, JobWithCode, Zenon
  <2> QED BY <1>3, <1>4, <1>5, <1>7, <2>1, AttemptGoes
<1> QED BY <1>2, <1>3, <1>6, <1>7

(* The failure of an attempt is written beside the approval. *)
LEMMA FailureNoted ==
  ASSUME Record, NEW l \in Lineages, Live(l), lineage[l].state = "ACTIVE",
         Last(lineage[l]).decision = "APPROVED", NEW code \in Codes,
         UNCHANGED <<global, opened, final, denied>>,
         lineage' = [lineage EXCEPT ![l] =
             Amended(lineage[l], [Last(lineage[l]) EXCEPT !.publication = code])]
  PROVE World("publication") /\ Record' /\ lineage'[l].state = "ACTIVE"
<1> PICK ln, p : ln = lineage[l] /\ p = Last(ln) OBVIOUS
<1> PICK q : q = [p EXCEPT !.publication = code] OBVIOUS
<1>1. /\ ln \in Lineage /\ ln.proposals # << >> /\ p \in Proposal /\ ValidProposal(p)
      /\ p.state = "ACTIVE" /\ "publication" \in Coordinators
  BY LiveFacts DEF Coordinators
<1>2. /\ Redecided(p, q) /\ q.publication = code /\ q.state = p.state
      /\ q.decision = p.decision /\ q.review = p.review
  BY <1>1, Attempted
<1>3. ValidProposal(q) /\ q \in Proposal
  BY <1>1, <1>2 DEF ValidProposal, Redecided, None
<1>4. World("publication") /\ Record'
  BY <1>1, <1>2, <1>3, FailureWritten
<1>5. Amended(ln, q).state = "ACTIVE" BY <1>1, <1>3, AmendedFields
<1>6. lineage'[l] = Amended(ln, q) BY DEF Record, RowsInv
<1> QED BY <1>4, <1>5, <1>6

LEMMA NoteKeeps ==
  ASSUME DeskInv, RecordFailure("note", Throw("publication"))
  PROVE DeskInv'
<1> PICK j : j = job["publication"] OBVIOUS
<1>1. /\ j.at = "note" /\ UNCHANGED <<global, opened, final, denied>>
      /\ Return("publication") \/ Throw("publication")
      /\ UNCHANGED lineage \/ (Unmoved(j) /\ lineage' = [lineage EXCEPT ![j.l] =
             Amended(lineage[j.l], [Last(lineage[j.l]) EXCEPT !.publication = j.code])])
  BY Zenon DEF RecordFailure, At, PutLineage, Write, Failed
<1>2. /\ j.l \in Lineages /\ Looks(j) /\ Record /\ JobOK(j) /\ "publication" \in Coordinators
      /\ j.at # "idle" /\ j.code \in Codes
      /\ j.seen.state = "ACTIVE" /\ Last(j.seen).decision = "APPROVED"
  BY <1>1, AttemptingPublishes, PublicationAt
<1>3. CASE UNCHANGED lineage BY <1>1, <1>2, <1>3, QuietEnds
<1>4. CASE Unmoved(j) /\ lineage' = [lineage EXCEPT ![j.l] =
             Amended(lineage[j.l], [Last(lineage[j.l]) EXCEPT !.publication = j.code])]
  <2>1. /\ Live(j.l) /\ lineage[j.l].state = "ACTIVE"
        /\ Last(lineage[j.l]).decision = "APPROVED"
    BY <1>2, <1>4, UnmovedFacts
  <2>2. World("publication") /\ Record'
    BY <1>1, <1>2, <1>4, <2>1, FailureNoted
  <2> QED BY <1>1, <1>2, <2>2, Ended
<1> QED BY <1>1, <1>3, <1>4

LEMMA FailureKeeps ==
  ASSUME DeskInv, RecordFailure("failure", PublicationFailed)
  PROVE DeskInv'
<1> PICK j : j = job["publication"] OBVIOUS
<1>1. /\ j.at = "failure" /\ UNCHANGED <<global, opened, final, denied>>
      /\ Return("publication") \/ PublicationFailed
      /\ UNCHANGED lineage \/ lineage' = [lineage EXCEPT ![j.l] =
             Amended(lineage[j.l], [Last(lineage[j.l]) EXCEPT !.publication = j.code])]
  BY Zenon DEF RecordFailure, At, PutLineage, Write, Failed
<1>2. j.at \in Attempting BY <1>1 DEF Attempting
<1>3. /\ j.l \in Lineages /\ Record /\ "publication" \in Coordinators
      /\ j.at # "idle" /\ j.code \in Codes
      /\ Live(j.l) /\ lineage[j.l].state = "ACTIVE" /\ Last(lineage[j.l]).decision = "APPROVED"
  BY <1>1, <1>2, AttemptingPublishes, PublicationAt, AttemptFacts
<1>4. CASE UNCHANGED lineage
  BY <1>1, <1>3, <1>4, QuietKept, PublicationFails
<1>5. CASE lineage' = [lineage EXCEPT ![j.l] =
             Amended(lineage[j.l], [Last(lineage[j.l]) EXCEPT !.publication = j.code])]
  <2>1. World("publication") /\ Record'
    BY <1>1, <1>3, <1>5, FailureNoted
  <2> QED BY <1>1, <1>3, <2>1, PublicationFails
<1> QED BY <1>1, <1>4, <1>5

LEMMA RecordRefusalKeeps ==
  ASSUME DeskInv, RecordRefusal
  PROVE DeskInv'
<1> PICK j : j = job["publication"] OBVIOUS
<1>1. /\ j.at = "failure, clear" /\ UNCHANGED <<global, opened, final, denied>>
      /\ Goto("publication", [j EXCEPT !.at = "clear"]) \/ PublicationFailed
      /\ UNCHANGED lineage \/ lineage' = [lineage EXCEPT ![j.l] =
             Amended(lineage[j.l], [Last(lineage[j.l]) EXCEPT !.publication = j.code])]
  BY Zenon DEF RecordRefusal, At, PutLineage, Write, Failed, Same, To
<1>2. j.at \in Attempting /\ "clear" \in Attempting
  BY <1>1 DEF Attempting
<1>3. /\ j.l \in Lineages /\ Record /\ "publication" \in Coordinators
      /\ j.at # "idle" /\ j.code \in Codes /\ global.journal.phase # "EXECUTING"
      /\ Live(j.l) /\ lineage[j.l].state = "ACTIVE" /\ Last(lineage[j.l]).decision = "APPROVED"
  BY <1>1, <1>2, AttemptingPublishes, PublicationAt, AttemptFacts
<1>4. World("publication") /\ Record' /\ lineage'[j.l].state = "ACTIVE"
  <2>1. CASE UNCHANGED lineage BY <1>1, <1>3, <2>1, QuietKept
  <2>2. CASE lineage' = [lineage EXCEPT ![j.l] =
             Amended(lineage[j.l], [Last(lineage[j.l]) EXCEPT !.publication = j.code])]
    BY <1>1, <1>3, <2>2, FailureNoted
  <2> QED BY <1>1, <2>1, <2>2
<1>5. CASE PublicationFailed BY <1>3, <1>4, <1>5, PublicationFails
<1>6. CASE Goto("publication", [j EXCEPT !.at = "clear"])
  BY <1>1, <1>2, <1>3, <1>4, <1>6, AttemptGoesTo
<1> QED BY <1>1, <1>5, <1>6

LEMMA ClearAttemptKeeps ==
  ASSUME DeskInv, ClearAttempt
  PROVE DeskInv'
<1> PICK j : j = job["publication"] OBVIOUS
<1>1. /\ j.at = "clear" /\ UNCHANGED <<lineage, opened, final, denied>>
      /\ UNCHANGED global \/ global' = Dropped
      /\ Return("publication") \/ PublicationFailed
  BY Zenon DEF ClearAttempt, At, PutGlobal, Write
<1>2. j.at \in Attempting BY <1>1 DEF Attempting
<1>3. /\ j.l \in Lineages /\ Record /\ "publication" \in Coordinators
      /\ j.at # "idle" /\ global.journal.phase # "EXECUTING" /\ lineage[j.l].state # "PUBLISHED"
      /\ Journals("PUBLICATION") /\ global.journal.owner = Owner(j)
      /\ global.journal.epoch = j.epoch /\ NotFinal(Owner(j), j.epoch)
  BY <1>1, <1>2, AttemptingPublishes, PublicationAt, AttemptFacts
<1>4. global.journal.owner[1] = j.l /\ Journals(Held("publication"))
  BY <1>3, KindsDiffer DEF Owner
<1>5. World("publication") /\ Record'
  <2>1. CASE UNCHANGED global BY <1>1, <1>3, <2>1, QuietKept
  <2>2. CASE global' = Dropped BY <1>1, <1>3, <1>4, <2>2, DroppedKept
  <2> QED BY <1>1, <2>1, <2>2
<1> QED BY <1>1, <1>3, <1>5, PublicationFails

LEMMA PublishRowKeeps ==
  ASSUME DeskInv, PublishRow
  PROVE DeskInv'
<1> PICK j : j = job["publication"] OBVIOUS
<1> PICK p : p = Last(lineage[j.l]) OBVIOUS
<1> PICK q : q = [p EXCEPT !.state = "PUBLISHED", !.publication = None] OBVIOUS
<1> PICK m : m = [Amended(lineage[j.l], q) EXCEPT !.state = "PUBLISHED"] OBVIOUS
<1>1. /\ j.at = "publish row" /\ UNCHANGED <<global, opened, final, denied>>
      /\ \/ UNCHANGED lineage /\ PublicationFailed
         \/ /\ lineage' = [lineage EXCEPT ![j.l] = m]
            /\ Goto("publication", [j EXCEPT !.at = "commit"]) \/ PublicationFailed
  BY Zenon DEF PublishRow, At, PutLineage, Write, To
<1>2. j.at \in Attempting BY <1>1 DEF Attempting
<1>3. /\ j.l \in Lineages /\ Record /\ "publication" \in Coordinators
      /\ j.at # "idle" /\ Looks(j) /\ JobOK(j) /\ j \in Job /\ HoldsAttempt(j)
      /\ Live(j.l) /\ lineage[j.l].state = "ACTIVE" /\ p.decision = "APPROVED"
      /\ Owns("PUBLICATION", <<j.l, Len(lineage[j.l].proposals)>>)
  BY <1>1, <1>2, AttemptingPublishes, PublicationAt, AttemptFacts
<1>4. CASE UNCHANGED lineage /\ PublicationFailed
  BY <1>1, <1>3, <1>4, QuietKept, PublicationFails
<1>5. CASE /\ lineage' = [lineage EXCEPT ![j.l] = m]
           /\ Goto("publication", [j EXCEPT !.at = "commit"]) \/ PublicationFailed
  <2>1. /\ lineage[j.l] \in Lineage /\ lineage[j.l].proposals # << >>
        /\ p \in Proposal /\ ValidProposal(p)
    BY <1>3, LiveFacts
  <2>2. /\ Redecided(p, q) /\ q.state = "PUBLISHED" /\ q.publication = None
        /\ q.decision = p.decision /\ q.review = p.review
    BY <2>1, MadePublic
  <2>3. ValidProposal(q) /\ q \in Proposal /\ q.by = p.by /\ q.epoch = p.epoch
    BY <1>3, <2>1, <2>2 DEF ValidProposal, Redecided, None
  <2>4. Amended(lineage[j.l], q) \in Lineage
    BY <2>1, <2>3, AmendedFields
  <2>5. m.state = "PUBLISHED" BY <2>4 DEF Lineage
  <2>6. Proper(j.l, m, q)
    <3>1. m = [Amended(lineage[j.l], q) EXCEPT !.state = m.state]
      BY <2>5
    <3> QED BY <1>3, <2>2, <2>3, <2>5, <3>1 DEF Proper
  <2>7. Turned("publication", j.l, m)
    BY <1>3, <2>5, KindsDiffer DEF Turned
  <2>8. World("publication") /\ Record'
    BY <1>1, <1>3, <1>5, <2>6, <2>7, AmendedWrites, RowsWrittenKept
  <2>9. CASE PublicationFailed BY <1>3, <2>8, <2>9, PublicationFails
  <2>10. CASE Goto("publication", [j EXCEPT !.at = "commit"])
    <3> PICK k : k = [j EXCEPT !.at = "commit"] OBVIOUS
    <3>1. "commit" \in Steps /\ "commit" \notin Attempting
      BY DEF Steps, Attempting
    <3>2. SameJob(j, k) /\ k.at = "commit" /\ k.epoch = j.epoch
      BY <1>3, <3>1, JobAt
    <3>3. JobOK(k) /\ Looks(k) /\ k.l = j.l
      BY <1>3, <3>2, JobLands, SameLook DEF SameJob
    <3>4. HoldsAttempt(k)'
      BY <1>1, <1>3, <3>2, Zenon DEF HoldsAttempt, Owns, Owner, SameJob
    <3>5. lineage'[k.l].state = "PUBLISHED"
      BY <1>3, <1>5, <2>5, <3>3 DEF Record, RowsInv
    <3> QED BY <2>8, <2>10, <3>1, <3>2, <3>3, <3>4, <3>5, PublicationGoes
  <2> QED BY <1>5, <2>9, <2>10
<1> QED BY <1>1, <1>4, <1>5

LEMMA CommitAttemptKeeps ==
  ASSUME DeskInv, CommitAttempt
  PROVE DeskInv'
<1> PICK j : j = job["publication"] OBVIOUS
<1>1. /\ j.at = "commit" /\ UNCHANGED <<lineage, opened, final, denied>>
      /\ UNCHANGED global \/ global' = Committed
      /\ Return("publication") \/ PublicationFailed
  BY Zenon DEF CommitAttempt, At, PutGlobal, Write
<1>2. /\ j.l \in Lineages /\ Record /\ "publication" \in Coordinators
      /\ j.at # "idle" /\ HoldsAttempt(j) /\ lineage[j.l].state = "PUBLISHED"
  BY <1>1, AttemptingPublishes, PublicationAt
<1>3. global.journal.owner[1] = j.l /\ Journals(Held("publication"))
  BY <1>2, KindsDiffer DEF Owner, HoldsAttempt, Owns, Journals
<1>4. World("publication") /\ Record'
  <2>1. CASE UNCHANGED global BY <1>1, <1>2, <2>1, QuietKept
  <2>2. CASE global' = Committed
    BY <1>1, <1>2, <1>3, <2>2, CommittedKept
  <2> QED BY <1>1, <2>1, <2>2
<1> QED BY <1>1, <1>2, <1>4, PublicationFails

(* The attempt that a journal names is taken up again. *)
Found(j, l, ref, epoch, s) == [j EXCEPT !.l = l, !.ref = ref, !.epoch = epoch, !.seen = s]
Finds(k, l, ref, epoch, s) ==
    k \in Job /\ k.l = l /\ k.ref = ref /\ k.epoch = epoch /\ k.seen = s
Coded(j, code) == [j EXCEPT !.code = code]
Handled(j, at) == [j EXCEPT !.at = at, !.op = IF @ = "restore" THEN @ ELSE "undo"]

LEMMA JobFound ==
  ASSUME NEW j \in Job, NEW l \in Lineages, NEW ref \in Nat, NEW epoch \in Nat, NEW s \in Lineage
  PROVE Finds(Found(j, l, ref, epoch, s), l, ref, epoch, s)
<1> DEFINE f == [j EXCEPT !.l = l]
           g == [f EXCEPT !.ref = ref]
           h == [g EXCEPT !.epoch = epoch]
           k == [h EXCEPT !.seen = s]
<1>1. Found(j, l, ref, epoch, s) = k BY DEF Found
<1>2. f \in Job /\ f.l = l BY DEF Job
<1> HIDE DEF f
<1>3. g \in Job /\ g.l = l /\ g.ref = ref BY <1>2 DEF Job
<1> HIDE DEF g
<1>4. h \in Job /\ h.l = l /\ h.ref = ref /\ h.epoch = epoch
  BY <1>3 DEF Job
<1> HIDE DEF h
<1>5. k \in Job /\ k.l = l /\ k.ref = ref /\ k.epoch = epoch /\ k.seen = s
  BY <1>4, JobSees
<1> HIDE DEF k
<1> QED BY <1>1, <1>5 DEF Finds

LEMMA JobCoded ==
    ASSUME NEW j \in Job, NEW code \in Codes \cup {None}
    PROVE  /\ SameJob(j, Coded(j, code)) /\ Coded(j, code).epoch = j.epoch
           /\ Coded(j, code).code = code
BY DEF Job, SameJob, Coded

LEMMA JobHandled ==
    ASSUME NEW j \in Job, NEW at \in Steps
    PROVE  /\ SameJob(j, Handled(j, at)) /\ Handled(j, at).at = at
           /\ Handled(j, at).epoch = j.epoch /\ Handled(j, at).code = j.code
BY JobUndone DEF Handled

LEMMA ReconcileKeeps ==
  ASSUME DeskInv, Reconcile
  PROVE DeskInv'
<1> DEFINE j == job["publication"]
           owner == global.journal.owner
           e == global.journal.epoch
           code == global.journal.code
           l == CHOOSE i \in OwnLineages(owner) : TRUE
           ref == owner[2]
           s == lineage[l]
           f == Found(j, l, ref, e, s)
<1>1. j.at = "reconcile" /\ UNCHANGED <<global, lineage, opened, final, denied>>
  BY Zenon DEF Reconcile, At, Same
<1>2. \/ Return("publication") \/ Throw("publication")
      \/ /\ Journals("PUBLICATION") /\ OwnLineages(owner) # {}
         /\ \/ lineage[l].state = "PUBLISHED" /\ Goto("publication", Handled(f, "commit"))
            \/ /\ lineage[l].state # "PUBLISHED"
               /\ \/ /\ global.journal.phase = "NEEDS_REFRESH"
                     /\ Goto("publication", Handled(Coded(f, code), "failure, clear"))
                  \/ /\ global.journal.phase = "EXECUTING"
                     /\ Goto("publication", Handled(f, "ask disk"))
                  \/ /\ global.journal.phase \notin {"NEEDS_REFRESH", "EXECUTING"}
                     /\ Goto("publication", Handled(f, "recheck"))
  <2>1. IF global.journal.kind # "PUBLICATION" THEN Return("publication")
        ELSE IF OwnLineages(owner) = {} THEN Throw("publication")
        ELSE IF lineage[l].state = "PUBLISHED" THEN Goto("publication", Handled(f, "commit"))
        ELSE IF global.journal.phase = "NEEDS_REFRESH"
        THEN Goto("publication", Handled(Coded(f, code), "failure, clear"))
        ELSE IF ~Publishable(lineage[l], global.journal.phase = "EXECUTING")
        THEN Throw("publication")
        ELSE Goto("publication", Handled(f, IF global.journal.phase = "EXECUTING"
                                            THEN "ask disk" ELSE "recheck"))
    BY Zenon DEF Reconcile, Handling, Handled, Found, Coded
  <2> QED BY <2>1 DEF Journals
<1>0. /\ j = job["publication"] /\ owner = global.journal.owner /\ e = global.journal.epoch
      /\ code = global.journal.code /\ (l = CHOOSE i \in OwnLineages(owner) : TRUE)
      /\ ref = owner[2] /\ s = lineage[l] /\ f = Found(j, l, ref, e, s) OBVIOUS
<1> HIDE DEF j, owner, e, code, l, ref, s, f
<1>3. j \in Job /\ Record /\ "publication" \in Coordinators /\ j.at # "idle"
  BY <1>0, <1>1, JobKnown DEF Coordinators
<1>4. CASE Return("publication") \/ Throw("publication")
  BY <1>0, <1>1, <1>3, <1>4, QuietEnds
<1>5. ASSUME Journals("PUBLICATION"), OwnLineages(owner) # {},
             NEW g, SameJob(f, g), g.epoch = f.epoch,
             NEW at \in {"commit", "failure, clear", "ask disk", "recheck"},
             Goto("publication", Handled(g, at)),
             at = "commit" => lineage[l].state = "PUBLISHED",
             at # "commit" => lineage[l].state # "PUBLISHED",
             at = "failure, clear" => g.code \in Codes,
             at = "ask disk" <=> (at # "commit" /\ global.journal.phase = "EXECUTING")
      PROVE DeskInv'
  <2> PICK k : k = Handled(g, at) OBVIOUS
  <2>1. l \in Lineages /\ Live(l) /\ owner = <<l, Len(lineage[l].proposals)>>
    BY <1>0, <1>5, OwnLineage
  <2>2. ref \in Nat /\ s \in Lineage /\ ref = Len(s.proposals) /\ owner = <<l, ref>>
    <3>1. lineage[l] \in Lineage BY <1>3, <2>1, LiveFacts
    <3> PICK n : n = Len(lineage[l].proposals) OBVIOUS
    <3>2. n \in Nat BY <3>1, RowFields
    <3>3. owner = <<l, n>> BY <2>1
    <3>0. ref = owner[2] /\ s = lineage[l] BY <1>0, Zenon
    <3>4. ref = n BY <3>0, <3>3
    <3> QED BY <3>0, <3>1, <3>2, <3>3, <3>4
  <2>3. e \in Nat
    BY <1>3, <1>5, <1>0, KindsDiffer DEF Record, JournalInv, GlobalTypes, Journals
  <2>4. f \in Job /\ f.l = l /\ f.ref = ref /\ f.epoch = e /\ f.seen = s
    <3>1. f = Found(j, l, ref, e, s) BY <1>0, Zenon
    <3>2. j \in Job /\ l \in Lineages /\ ref \in Nat /\ e \in Nat /\ s \in Lineage
      BY <1>3, <2>1, <2>2, <2>3
    <3>3. Finds(f, l, ref, e, s) BY <3>1, <3>2, JobFound, Zenon
    <3> QED BY <3>3, Zenon DEF Finds
  <2>5. at \in Steps /\ at \notin {"publish", "prepare", "note", "refuse", "failure", "install",
                                   "unexecute", "execute", "clear"}
    BY DEF Steps
  <2>6. g \in Job BY <1>5 DEF SameJob
  <2>7. SameJob(g, k) /\ k.at = at /\ k.epoch = g.epoch /\ k.code = g.code
    BY <2>5, <2>6, JobHandled, Zenon
  <2>8. k \in Job /\ k.l = l /\ k.ref = ref /\ k.epoch = e /\ k.seen = s
    BY <1>5, <2>4, <2>7 DEF SameJob
  <2>9. JobOK(k) BY <2>1, <2>8 DEF JobOK
  <2>10. Looks(k)
    <3>1. Past(l, s) BY <1>0, <1>3, <2>1, PastNow DEF Record
    <3>2. s.state # "ABSENT" BY <1>0, <2>1, ZenonT(60) DEF Live
    <3> QED BY <2>1, <2>2, <2>8, <3>1, <3>2, Zenon DEF Looks
  <2>11. HoldsAttempt(k)'
    BY <1>0, <1>1, <1>5, <2>2, <2>8, ZenonT(60) DEF HoldsAttempt, Owns, Owner, Journals
  <2>12. World("publication") /\ Record' BY <1>1, <1>3, QuietKept
  <2>13. UNCHANGED <<global, lineage>> BY <1>1
  <2>14. k.at \in {"note", "refuse", "failure", "failure, clear"} => k.code \in Codes
    BY <1>5, <2>5, <2>7
  <2>15. k.at \in Attempting => HoldsAttempt(k)' /\ lineage'[k.l].state # "PUBLISHED"
    BY <1>5, <2>7, <2>8, <2>11, <2>13, AttemptingPublishes
  <2>16. k.at = "commit" => HoldsAttempt(k)' /\ lineage'[k.l].state = "PUBLISHED"
    BY <1>5, <2>7, <2>8, <2>11, <2>13
  <2>17. /\ k.at \in {"install", "ask disk"} => global'.journal.phase = "EXECUTING"
         /\ k.at \in {"execute", "failure, clear", "clear", "recheck"} =>
                global'.journal.phase # "EXECUTING"
         /\ k.at \notin {"publish", "prepare", "note", "refuse", "unexecute"}
    BY <1>5, <2>5, <2>7, <2>13
  <2>18. Goto("publication", k) BY <1>5
  <2> QED BY <2>9, <2>10, <2>12, <2>14, <2>15, <2>16, <2>17, <2>18, PublicationGoes
<1>6. ASSUME NEW g, g = f \/ (code \in Codes /\ g = Coded(f, code)), OwnLineages(owner) # {},
             Journals("PUBLICATION")
      PROVE  SameJob(f, g) /\ g.epoch = f.epoch /\ (g # f => g.code \in Codes)
             /\ (g = Coded(f, code) /\ code \in Codes => g.code = code)
  <2>1. l \in Lineages /\ Live(l) /\ owner = <<l, Len(lineage[l].proposals)>>
    BY <1>0, <1>6, OwnLineage
  <2>2. ref \in Nat /\ s \in Lineage
    <3>1. lineage[l] \in Lineage BY <1>3, <2>1, LiveFacts
    <3> PICK n : n = Len(lineage[l].proposals) OBVIOUS
    <3>2. n \in Nat BY <3>1, RowFields
    <3>3. owner = <<l, n>> BY <2>1
    <3>0. ref = owner[2] /\ s = lineage[l] BY <1>0, Zenon
    <3>4. ref = n BY <3>0, <3>3
    <3> QED BY <3>0, <3>1, <3>2, <3>3, <3>4
  <2>3. e \in Nat
    BY <1>3, <1>6, <1>0, KindsDiffer DEF Record, JournalInv, GlobalTypes, Journals
  <2>4. f \in Job
    <3>1. f = Found(j, l, ref, e, s) BY <1>0, Zenon
    <3>2. j \in Job /\ l \in Lineages /\ ref \in Nat /\ e \in Nat /\ s \in Lineage
      BY <1>3, <2>1, <2>2, <2>3
    <3>3. Finds(f, l, ref, e, s) BY <3>1, <3>2, JobFound, Zenon
    <3> QED BY <3>3, Zenon DEF Finds
  <2>5. CASE g = f /\ (code \notin Codes \/ g # Coded(f, code))
    BY <2>4, <2>5 DEF SameJob
  <2>6. CASE code \in Codes /\ g = Coded(f, code)
    <3>1. code \in Codes \cup {None} BY <2>6
    <3>2. SameJob(f, Coded(f, code)) /\ Coded(f, code).epoch = f.epoch /\ Coded(f, code).code = code
      BY <2>4, <3>1, JobCoded
    <3> QED BY <2>6, <3>2
  <2> QED BY <1>6, <2>5, <2>6
<1>7. ASSUME Journals("PUBLICATION"), OwnLineages(owner) # {},
             lineage[l].state = "PUBLISHED", Goto("publication", Handled(f, "commit"))
      PROVE DeskInv'
  <2>1. SameJob(f, f) /\ f.epoch = f.epoch BY <1>6, <1>7
  <2> QED BY <1>5, <1>7, <2>1
<1>8. ASSUME Journals("PUBLICATION"), OwnLineages(owner) # {}, lineage[l].state # "PUBLISHED",
             NEW at \in {"ask disk", "recheck"}, Goto("publication", Handled(f, at)),
             at = "ask disk" <=> global.journal.phase = "EXECUTING"
      PROVE DeskInv'
  <2>1. SameJob(f, f) /\ f.epoch = f.epoch BY <1>6, <1>8
  <2> QED BY <1>5, <1>8, <2>1
<1>9. ASSUME Journals("PUBLICATION"), OwnLineages(owner) # {}, lineage[l].state # "PUBLISHED",
             global.journal.phase = "NEEDS_REFRESH",
             Goto("publication", Handled(Coded(f, code), "failure, clear"))
      PROVE DeskInv'
  <2> PICK g : g = Coded(f, code) OBVIOUS
  <2>1. code \in Codes /\ code # None
    BY <1>0, <1>3, <1>9 DEF Record, JournalInv, ValidJournal, GlobalTypes
  <2>2. SameJob(f, g) /\ g.epoch = f.epoch /\ g.code \in Codes
    <3>1. g.code = code BY <1>6, <1>9, <2>1
    <3> QED BY <1>6, <1>9, <2>1, <3>1
  <2> QED BY <1>5, <1>9, <2>2
<1> QED BY <1>2, <1>4, <1>7, <1>8, <1>9

LEMMA PublicationKeeps ==
    ASSUME DeskInv, Publication
    PROVE DeskInv'
BY PublishKeeps, PreparePublicationKeeps, ExecuteKeeps, InstallKeeps, AskDiskKeeps, RefuseKeeps,
   NoteKeeps, FailureKeeps, RecordRefusalKeeps, ClearAttemptKeeps, PublishRowKeeps,
   CommitAttemptKeeps, ReconcileKeeps, UnexecuteKeeps, RecheckKeeps, Zenon DEF Publication

----
(* Refresh, step by step. *)
LEMMA RefreshAt ==
  ASSUME DeskInv, NEW j, j = job["refresh"]
  PROVE  /\ JobOK(j) /\ j \in Job /\ Record /\ "refresh" \in Coordinators
         /\ j.at \notin Unnamed /\ j.at # "idle" => j.l \in Lineages
         /\ j.at = "unrefreshed" /\ j.op # "restore" => j.l \in Lineages
         /\ j.at = "supersede" \/ (j.at = "unrefreshed" /\ j.op # "restore") =>
                Owns("REFRESH", Owner(j)) \/ Superseded(j)
         /\ j.at \in {"recall", "reserve"} => Superseded(j)
<1>1. "refresh" \in Coordinators BY DEF Coordinators
<1>2. RefreshInv BY <1>1, Zenon DEF DeskInv, Knows
<1>3. JobOK(j) /\ j \in Job /\ Record BY <1>1, JobKnown
<1>4. j.at = "unrefreshed" /\ j.op # "restore" => j.l \in Lineages
  BY <1>3 DEF JobOK
<1>5. j.at \notin Unnamed /\ j.at # "idle" => j.l \in Lineages
  BY <1>3, JobNamed
<1> QED BY <1>1, <1>2, <1>3, <1>4, <1>5, Zenon DEF RefreshInv

(* An error of a refresh ends it, or looks at what the journal means. *)
LEMMA RefreshFails ==
  ASSUME DeskInv, World("refresh"), Record', NEW j, j = job["refresh"], j.l \in Lineages,
         j.at # "idle", Owns("REFRESH", Owner(j))' \/ Superseded(j)',
         Return("refresh") \/ Throw("refresh") \/ RefreshFailed
  PROVE DeskInv'
<1>1. "refresh" \in Coordinators /\ j \in Job
  BY JobKnown DEF Coordinators
<1>2. CASE Return("refresh") \/ Throw("refresh") BY <1>1, <1>2, Ended
<1>3. CASE Undo("refresh", "unrefreshed")
  <2> PICK k : k = [j EXCEPT !.at = "unrefreshed", !.op = IF @ = "restore" THEN @ ELSE "undo"]
    OBVIOUS
  <2>1. "unrefreshed" \in Steps BY DEF Steps
  <2>2. SameJob(j, k) /\ k.at = "unrefreshed" BY <1>1, <2>1, JobUndone
  <2>3. JobOK(k) BY <2>2, JobLands
  <2>4. Goto("refresh", k) BY <1>3, Zenon DEF Undo
  <2>5. Owns("REFRESH", Owner(k))' \/ Superseded(k)'
    BY <2>2, Zenon DEF SameJob, Owns, Owner, Superseded
  <2> QED BY <2>2, <2>3, <2>4, <2>5, RefreshGoes
<1> QED BY <1>2, <1>3, Zenon DEF RefreshFailed

LEMMA RefreshGoesTo ==
  ASSUME DeskInv, World("refresh"), Record', NEW j, j = job["refresh"], j.l \in Lineages,
         NEW at \in {"supersede", "recall", "reserve"}, Goto("refresh", [j EXCEPT !.at = at]),
         at = "supersede" => Owns("REFRESH", Owner(j))' \/ Superseded(j)',
         at # "supersede" => Superseded(j)'
  PROVE DeskInv'
<1> PICK k : k = [j EXCEPT !.at = at] OBVIOUS
<1>1. j \in Job /\ at \in Steps /\ at # "unrefreshed"
  BY RefreshAt DEF Steps
<1>2. SameJob(j, k) /\ k.at = at BY <1>1, JobAt
<1>3. JobOK(k) BY <1>2, JobLands
<1>4. /\ Owns("REFRESH", Owner(j))' => Owns("REFRESH", Owner(k))'
      /\ Superseded(j)' => Superseded(k)'
  BY <1>2, Zenon DEF SameJob, Owns, Owner, Superseded
<1> QED BY <1>1, <1>2, <1>3, <1>4, RefreshGoes

LEMMA PrepareRefreshKeeps ==
  ASSUME DeskInv, PrepareRefresh
  PROVE DeskInv'
<1> PICK j : j = job["refresh"] OBVIOUS
<1>1. j.at = "prepare" /\ UNCHANGED <<lineage, opened, final, denied>>
  BY Zenon DEF PrepareRefresh, At, Same, PutGlobal, Write
<1>2. \/ /\ UNCHANGED global /\ Owns("REFRESH", Owner(j))
         /\ Goto("refresh", [j EXCEPT !.at = "supersede"])
      \/ UNCHANGED global /\ Throw("refresh")
      \/ /\ Free /\ global' = Prepared("REFRESH", Owner(j))
         /\ Goto("refresh", [j EXCEPT !.at = "supersede"]) \/ Throw("refresh")
  BY Zenon DEF PrepareRefresh, PutGlobal, Write, Same, To
<1>3. j.at \notin Unnamed /\ j.at # "idle" BY <1>1 DEF Unnamed
<1>4. j.l \in Lineages /\ Record /\ JobOK(j) /\ j \in Job /\ "refresh" \in Coordinators
  BY <1>3, RefreshAt
<1>5. CASE UNCHANGED global
  <2>1. World("refresh") /\ Record' BY <1>1, <1>4, <1>5, QuietKept
  <2>2. CASE Throw("refresh") BY <1>3, <1>4, <2>1, <2>2, Ended
  <2>3. CASE Owns("REFRESH", Owner(j)) /\ Goto("refresh", [j EXCEPT !.at = "supersede"])
    <3>1. Owns("REFRESH", Owner(j))'
      BY <1>5, <2>3, Zenon DEF Owns, Owner
    <3> QED BY <1>4, <2>1, <2>3, <3>1, RefreshGoesTo
  <2>4. CASE /\ Free /\ global' = Prepared("REFRESH", Owner(j))
             /\ Goto("refresh", [j EXCEPT !.at = "supersede"]) \/ Throw("refresh")
    <3>1. global'.journal.kind = "REFRESH" /\ global'.journal.kind = None
      BY <1>4, <1>5, <2>4, PreparedFields DEF Record, Free
    <3> QED BY <3>1, KindsDiffer
  <2> QED BY <1>2, <2>2, <2>3, <2>4
<1>7. CASE /\ Free /\ global' = Prepared("REFRESH", Owner(j))
           /\ Goto("refresh", [j EXCEPT !.at = "supersede"]) \/ Throw("refresh")
  <2>1. Held("refresh") = "REFRESH" /\ "refresh" # "publication"
    BY KindsDiffer
  <2>2. World("refresh") /\ Record'
    BY <1>1, <1>4, <1>7, <2>1, PreparedKept
  <2>3. CASE Throw("refresh") BY <1>3, <1>4, <2>2, <2>3, Ended
  <2>4. CASE Goto("refresh", [j EXCEPT !.at = "supersede"])
    <3>1. global'.journal.kind = "REFRESH" /\ global'.journal.owner = Owner(j)
      BY <1>4, <1>7, PreparedFields DEF Record
    <3>2. Owns("REFRESH", Owner(j))' BY <3>1, Zenon DEF Owns, Owner
    <3> QED BY <1>4, <2>2, <2>4, <3>2, RefreshGoesTo
  <2> QED BY <1>7, <2>3, <2>4
<1> QED BY <1>2, <1>5, <1>7

LEMMA AmendedLength ==
  ASSUME Record, NEW l \in Lineages, NEW m, NEW p, Proper(l, m, p)
  PROVE Len(m.proposals) = Len(lineage[l].proposals)
<1> PICK ln : ln = lineage[l] OBVIOUS
<1>1. ln \in Lineage /\ ln.proposals # << >>
  BY RowAlone, Zenon DEF Record, Proper
<1>2. m = Amended(ln, p) \/ m = [Amended(ln, p) EXCEPT !.state = m.state]
  BY DEF Proper
<1>3. p \in Proposal /\ m.state \in {"ACTIVE", "REFRESHING", "PUBLISHED", "TERMINAL"}
  BY DEF Proper
<1>4. AmendsLast(ln, m, p) BY <1>1, <1>2, <1>3, AmendedRow
<1> QED BY <1>4, Zenon DEF AmendsLast

(* A proposal that is superseded is the one whose journal is open. *)
LEMMA SupersedeKeeps ==
  ASSUME DeskInv, Supersede
  PROVE DeskInv'
<1> PICK j : j = job["refresh"] OBVIOUS
<1> PICK p : p = Last(lineage[j.l]) OBVIOUS
<1> PICK q : q = [p EXCEPT !.state = "SUPERSEDED"] OBVIOUS
<1> PICK m : m = [Amended(lineage[j.l], q) EXCEPT !.state = "REFRESHING"] OBVIOUS
<1>1. /\ j.at = "supersede" /\ UNCHANGED <<global, opened, final, denied>>
      /\ \/ UNCHANGED lineage /\ RefreshFailed
         \/ /\ Refreshable(lineage[j.l]) /\ Len(lineage[j.l].proposals) = j.ref
            /\ lineage' = [lineage EXCEPT ![j.l] = m]
            /\ Goto("refresh", [j EXCEPT !.at = "recall"]) \/ RefreshFailed
  BY Zenon DEF Supersede, At, PutLineage, Write, To
<1>2. j.at \notin Unnamed /\ j.at # "idle" BY <1>1 DEF Unnamed
<1>3. /\ j.l \in Lineages /\ Record /\ "refresh" \in Coordinators /\ JobOK(j) /\ j \in Job
      /\ Owns("REFRESH", Owner(j)) \/ Superseded(j)
  BY <1>1, <1>2, RefreshAt
<1>4. CASE UNCHANGED lineage /\ RefreshFailed
  <2>1. Owns("REFRESH", Owner(j))' \/ Superseded(j)'
    BY <1>1, <1>3, <1>4, Zenon DEF Owns, Owner, Superseded, Live
  <2> QED BY <1>1, <1>2, <1>3, <1>4, <2>1, QuietKept, RefreshFails
<1>5. CASE /\ Refreshable(lineage[j.l]) /\ Len(lineage[j.l].proposals) = j.ref
           /\ lineage' = [lineage EXCEPT ![j.l] = m]
           /\ Goto("refresh", [j EXCEPT !.at = "recall"]) \/ RefreshFailed
  <2>1. /\ lineage[j.l].state = "ACTIVE" /\ p.decision \in {None, "APPROVED"} /\ Live(j.l)
    BY <1>5 DEF Refreshable, Live
  <2>2. /\ lineage[j.l] \in Lineage /\ lineage[j.l].proposals # << >>
        /\ p \in Proposal /\ ValidProposal(p)
    BY <1>3, <2>1, LiveFacts
  <2>3. /\ Redecided(p, q) /\ q.state = "SUPERSEDED" /\ q.publication = p.publication
        /\ q.decision = p.decision /\ q.review = p.review
    BY <2>2, Retired
  <2>4. ValidProposal(q) /\ q \in Proposal /\ q.by = p.by /\ q.epoch = p.epoch
    BY <2>1, <2>2, <2>3 DEF ValidProposal, Redecided, None
  <2>5. Amended(lineage[j.l], q) \in Lineage
    BY <2>2, <2>4, AmendedFields
  <2>6. m.state = "REFRESHING" BY <2>5 DEF Lineage
  <2>7. Proper(j.l, m, q)
    <3>1. m = [Amended(lineage[j.l], q) EXCEPT !.state = m.state]
      BY <2>6
    <3> QED BY <2>1, <2>3, <2>4, <2>6, <3>1 DEF Proper
  <2>8. Owns("REFRESH", <<j.l, Len(lineage[j.l].proposals)>>)
    <3>1. j.ref \in Nat BY <1>3 DEF Job
    <3>2. ~Superseded(j) BY <1>5, <2>1, <3>1 DEF Superseded
    <3> QED BY <1>3, <1>5, <3>2 DEF Owner
  <2>14. Len(m.proposals) = Len(lineage[j.l].proposals) /\ Len(lineage[j.l].proposals) = 1
    <3>1. Len(lineage[j.l].proposals) = 1 BY <1>5 DEF Refreshable
    <3> QED BY <1>3, <2>7, <3>1, AmendedLength
  <2>9. Turned("refresh", j.l, m)
    BY <2>1, <2>6, <2>8, <2>14, KindsDiffer DEF Turned
  <2>10. World("refresh") /\ Record'
    BY <1>1, <1>3, <1>5, <2>7, <2>9, AmendedWrites, RowsWrittenKept
  <2>11. Superseded(j)'
    <3>1. lineage'[j.l] = m BY <1>3, <1>5 DEF Record, RowsInv
    <3> QED BY <1>5, <2>6, <2>14, <3>1 DEF Superseded
  <2>12. CASE RefreshFailed
    BY <1>2, <1>3, <2>10, <2>11, <2>12, RefreshFails
  <2>13. CASE Goto("refresh", [j EXCEPT !.at = "recall"])
    BY <1>3, <2>10, <2>11, <2>13, RefreshGoesTo
  <2> QED BY <1>5, <2>12, <2>13
<1> QED BY <1>1, <1>4, <1>5

(* The intent of a row is nobody's concern here. *)
LEMMA IntentFields ==
    ASSUME NEW ln \in Lineage
    PROVE  LET m == [ln EXCEPT !.intent = "RECALLING"]
           IN  /\ m \in Lineage /\ m.state = ln.state /\ m.revision = ln.revision
               /\ m.proposals = ln.proposals /\ m.actions = ln.actions
BY DEF Lineage

LEMMA IntentWritten ==
  ASSUME NEW c \in Coordinators, Record, NEW l \in Lineages, UNCHANGED <<global, opened, final, denied>>,
         lineage' = [lineage EXCEPT ![l] = [lineage[l] EXCEPT !.intent = "RECALLING"]]
  PROVE World(c) /\ Record'
<1> PICK ln, m : ln = lineage[l] /\ m = [ln EXCEPT !.intent = "RECALLING"] OBVIOUS
<1>1. ln \in Lineage BY DEF Record, RowsInv
<1>2. /\ m \in Lineage /\ m.state = ln.state /\ m.revision = ln.revision
      /\ m.proposals = ln.proposals /\ m.actions = ln.actions
  BY <1>1, IntentFields
<1>3. lineage' \in [Lineages -> Lineage] /\ lineage'[l] = m
      /\ \A k \in Lineages : k # l => lineage'[k] = lineage[k]
  BY <1>2 DEF Record, RowsInv
<1>4. CASE ~Live(l)
  <2>1. ~Live(l)' BY <1>2, <1>3, <1>4 DEF Live
  <2>2. RowsWritten(c)
    BY <1>3, <1>4, <2>1, Zenon DEF RowsWritten, Writes
  <2> QED BY <2>2, RowsWrittenKept
<1>5. CASE Live(l)
  <2>1. ValidLineage(ln) /\ Last(m) = Last(ln)
    BY <1>2, <1>5, RowAlone, Zenon DEF Record, Last
  <2>2. ValidLineage(m)
    <3>0. \A id : Acts(m, id) = Acts(ln, id) BY <1>2, Zenon DEF Acts
    <3>1. ValidActions(m) BY <1>2, <2>1 DEF ValidLineage, ValidActions
    <3>2. ValidSources(m)
      BY <1>2, <2>1, <3>0 DEF ValidLineage, ValidSources
    <3> QED BY <1>2, <2>1, <3>1, <3>2, Zenon DEF ValidLineage
  <2>3. Len(ln.proposals) \in Nat BY <1>1, RowFields
  <2>4. ~Longer(ln, m) BY <1>2, <2>3 DEF Longer
  <2>5. Last(ln).decision \in {None, Last(m).decision} BY <2>1
  <2>6. Grows(c, ln, m)
    BY <1>2, <2>1, <2>4, <2>5, Zenon DEF Grows, AsRead, Follows, StateMoves
  <2>7. Live(l)' BY <1>2, <1>3, <1>5 DEF Live
  <2>8. lineage'[l].state \in {lineage[l].state, "ACTIVE"} BY <1>2, <1>3
  <2>9. Writes(c, l)
    BY <1>2, <1>3, <1>5, <2>1, <2>2, <2>4, <2>6, <2>7, <2>8, Zenon DEF Writes
  <2>10. RowsWritten(c) BY <1>3, <2>9, Zenon DEF RowsWritten
  <2> QED BY <2>10, RowsWrittenKept
<1> QED BY <1>4, <1>5

LEMMA RecallKeeps ==
  ASSUME DeskInv, Recall
  PROVE DeskInv'
<1> PICK j : j = job["refresh"] OBVIOUS
<1>1. /\ j.at = "recall" /\ UNCHANGED <<global, opened, final, denied>>
      /\ \/ UNCHANGED lineage
         \/ lineage' = [lineage EXCEPT ![j.l] = [lineage[j.l] EXCEPT !.intent = "RECALLING"]]
      /\ Goto("refresh", [j EXCEPT !.at = "reserve"]) \/ RefreshFailed
  BY Zenon DEF Recall, At, PutLineage, Write, To, Same
<1>2. j.at \notin Unnamed /\ j.at # "idle" BY <1>1 DEF Unnamed
<1>3. j.l \in Lineages /\ Record /\ "refresh" \in Coordinators /\ JobOK(j) /\ Superseded(j)
  BY <1>1, <1>2, RefreshAt
<1>4. World("refresh") /\ Record'
  <2>1. CASE UNCHANGED lineage BY <1>1, <1>3, <2>1, QuietKept
  <2>2. CASE lineage' = [lineage EXCEPT ![j.l] = [lineage[j.l] EXCEPT !.intent = "RECALLING"]]
    BY <1>1, <1>3, <2>2, IntentWritten
  <2> QED BY <1>1, <2>1, <2>2
<1>5. Superseded(j)' BY <1>3, <1>4, SupersededKept
<1>6. CASE RefreshFailed BY <1>2, <1>3, <1>4, <1>5, <1>6, RefreshFails
<1>7. CASE Goto("refresh", [j EXCEPT !.at = "reserve"])
  BY <1>3, <1>4, <1>5, <1>7, RefreshGoesTo
<1> QED BY <1>1, <1>6, <1>7

LEMMA CommitRefreshKeeps ==
  ASSUME DeskInv, CommitRefresh
  PROVE DeskInv'
<1> PICK j : j = job["refresh"] OBVIOUS
<1>1. /\ j.at = "reserve" /\ UNCHANGED <<lineage, opened, final, denied>>
      /\ UNCHANGED global \/ (Owns("REFRESH", Owner(j)) /\ global' = Committed)
      /\ Return("refresh") \/ RefreshFailed
  BY Zenon DEF CommitRefresh, At, PutGlobal, Write
<1>2. j.at \notin Unnamed /\ j.at # "idle" BY <1>1 DEF Unnamed
<1>3. j.l \in Lineages /\ Record /\ "refresh" \in Coordinators /\ JobOK(j) /\ Superseded(j)
  BY <1>1, <1>2, RefreshAt
<1>4. World("refresh") /\ Record'
  <2>1. CASE UNCHANGED global BY <1>1, <1>3, <2>1, QuietKept
  <2>2. CASE Owns("REFRESH", Owner(j)) /\ global' = Committed
    <3>1. Journals(Held("refresh")) /\ "refresh" # "publication"
      BY <2>2, KindsDiffer DEF Journals, Owns
    <3> QED BY <1>1, <1>3, <2>2, <3>1, CommittedKept
  <2> QED BY <1>1, <2>1, <2>2
<1>5. Superseded(j)' BY <1>3, <1>4, SupersededKept
<1> QED BY <1>1, <1>2, <1>3, <1>4, <1>5, RefreshFails

LEMMA RecoverRefreshKeeps ==
  ASSUME DeskInv, RecoverRefresh
  PROVE DeskInv'
<1> PICK j : j = job["refresh"] OBVIOUS
<1> PICK owner : owner = IF j.op = "restore" THEN global.journal.owner ELSE Owner(j)
  OBVIOUS
<1> PICK l : l = CHOOSE k \in OwnLineages(owner) : TRUE OBVIOUS
<1>1. j.at = "unrefreshed" /\ UNCHANGED <<global, lineage, opened, final, denied>>
  BY Zenon DEF RecoverRefresh, At, Same
<1>2. \/ Return("refresh") \/ Throw("refresh")
      \/ /\ OwnLineages(owner) # {} /\ (j.op = "restore" => global.journal.kind = "REFRESH")
         /\ \/ /\ lineage[l].state = "REFRESHING"
               /\ Goto("refresh", NamedAt(j, l, owner[2], "recall"))
            \/ /\ Refreshable(lineage[l]) /\ Goto("refresh", NamedAt(j, l, owner[2], "supersede"))
  BY Zenon DEF RecoverRefresh, NamedAt
<1>3. "refresh" \in Coordinators /\ j.at # "idle" /\ j \in Job /\ Record
  BY <1>1, RefreshAt
<1>4. CASE Return("refresh") \/ Throw("refresh")
  BY <1>1, <1>3, <1>4, QuietEnds
<1>5. ASSUME OwnLineages(owner) # {}, NEW at \in {"recall", "supersede"},
             Goto("refresh", NamedAt(j, l, owner[2], at)),
             at = "recall" => lineage[l].state = "REFRESHING",
             at = "supersede" => lineage[l].state = "ACTIVE",
             j.op = "restore" => global.journal.kind = "REFRESH"
      PROVE DeskInv'
  <2> PICK k : k = NamedAt(j, l, owner[2], at) OBVIOUS
  <2> PICK n : n = Len(lineage[l].proposals) OBVIOUS
  <2>1. l \in Lineages /\ Live(l) /\ owner = <<l, n>>
    BY <1>5, OwnLineage
  <2>2. n \in Nat /\ owner[2] = n BY <1>3, <2>1, LiveFacts, RowFields
  <2>3. at \in Steps /\ at # "unrefreshed" BY DEF Steps
  <2>4. JobOK(k) /\ k.at = at /\ k.l = l /\ k.ref = n
    <3>1. j \in Job /\ l \in Lineages /\ n \in Nat /\ at \in Steps
      BY <1>3, <2>1, <2>2, <2>3
    <3>2. k = NamedAt(j, l, n, at) BY <2>2
    <3>3. JobOK(NamedAt(j, l, n, at)) /\ NamedAt(j, l, n, at).at = at
          /\ NamedAt(j, l, n, at).l = l /\ NamedAt(j, l, n, at).ref = n
      BY <3>1, JobNamedAt
    <3> QED BY <3>2, <3>3
  <2>5. World("refresh") /\ Record' BY <1>1, <1>3, QuietKept
  <2>6. at = "recall" => Superseded(k)'
    BY <1>1, <1>5, <2>4 DEF Superseded
  <2>7. at = "supersede" => Owns("REFRESH", Owner(k))'
    <3> SUFFICES ASSUME at = "supersede" PROVE Owns("REFRESH", Owner(k))
      BY <1>1, Zenon DEF Owns, Owner
    <3>1. Owner(k) = owner BY <2>1, <2>4 DEF Owner
    <3>2. CASE j.op = "restore" BY <1>5, <3>1, <3>2 DEF Owns
    <3>3. CASE j.op # "restore"
      <4>1. Owns("REFRESH", Owner(j)) \/ Superseded(j)
        BY <1>1, <3>3, RefreshAt
      <4>2. owner = Owner(j) BY <3>3
      <4>3. j.l = l /\ j.ref = n BY <2>1, <4>2 DEF Owner
      <4>4. ~Superseded(j) BY <1>5, <2>1, <2>2, <4>3 DEF Superseded
      <4> QED BY <3>1, <4>1, <4>2, <4>4
    <3> QED BY <3>2, <3>3
  <2> QED BY <1>5, <2>3, <2>4, <2>5, <2>6, <2>7, RefreshGoes
<1>6. Refreshable(lineage[l]) => lineage[l].state = "ACTIVE"
  BY DEF Refreshable
<1> QED BY <1>2, <1>4, <1>5, <1>6

LEMMA RefreshKeeps ==
    ASSUME DeskInv, Refresh
    PROVE DeskInv'
BY PrepareRefreshKeeps, SupersedeKeeps, RecallKeeps, CommitRefreshKeeps, RecoverRefreshKeeps,
   Zenon DEF Refresh

----
(* Revision, step by step. *)
LEMMA RevisionAt ==
  ASSUME DeskInv, NEW j, j = job["revision"]
  PROVE  /\ JobOK(j) /\ j \in Job /\ Record /\ "revision" \in Coordinators
         /\ j.at \notin Unnamed /\ j.at # "idle" => j.l \in Lineages
         /\ j.at = "salvage" /\ j.op # "restore" => j.l \in Lineages
         /\ j.at \in Revising => /\ Looks(j) /\ j.id \in Ids /\ j.l \in Lineages
                                 /\ ValidProposal(j.parent) /\ j.parent.state = "ACTIVE"
                                 /\ j.parent.by = Last(j.seen).by
         /\ j.at \in {"revise", "reserve"} => Acts(j.seen, j.id) = {}
         /\ j.at \in {"call", "recheck", "prepare", "child"} => Reserved(j)
         /\ j.at \in {"prepare", "child"} => Last(j.seen).epoch = j.epoch
         /\ j.at = "child" => Owns("REVISION", RevisionOwner(j)) /\ global.epoch = j.epoch
         /\ j.at = "fail" => Past(j.l, j.seen)
<1>1. "revision" \in Coordinators BY DEF Coordinators
<1>2. RevisionInv BY <1>1, Zenon DEF DeskInv, Knows
<1>3. JobOK(j) /\ j \in Job /\ Record BY <1>1, JobKnown
<1>4. j.at = "salvage" /\ j.op # "restore" => j.l \in Lineages
  BY <1>3 DEF JobOK
<1>5. j.at \notin Unnamed /\ j.at # "idle" => j.l \in Lineages
  BY <1>3, JobNamed
<1>6. j.at \in Revising => j.at \notin Unnamed /\ j.at # "idle"
  BY DEF Revising, Unnamed
<1> QED BY <1>1, <1>2, <1>3, <1>4, <1>5, <1>6, Zenon DEF RevisionInv, Revising

(* A job of a revision goes on with what it knew. *)
LEMMA RevisionGoesOn ==
  ASSUME DeskInv, World("revision"), Record', NEW j, j = job["revision"], j.at \in Revising,
         NEW k, SameJob(j, k), k.at \in Revising \cup {"salvage", "settle"},
         Goto("revision", k),
         k.at \in {"revise", "reserve"} => j.at \in {"revise", "reserve"},
         k.at \in {"call", "recheck", "prepare", "child"} => Reserved(j)',
         k.at \in {"prepare", "child"} => Last(j.seen).epoch = k.epoch,
         k.at = "child" => Owns("REVISION", RevisionOwner(j))' /\ global'.epoch = k.epoch
  PROVE DeskInv'
<1>1. /\ Looks(j) /\ j.id \in Ids /\ j.l \in Lineages
      /\ ValidProposal(j.parent) /\ j.parent.state = "ACTIVE" /\ j.parent.by = Last(j.seen).by
      /\ j.at \in {"revise", "reserve"} => Acts(j.seen, j.id) = {}
  BY RevisionAt
<1>2. /\ k.l = j.l /\ k.ref = j.ref /\ k.id = j.id /\ k.seen = j.seen /\ k.parent = j.parent
  BY Zenon DEF SameJob
<1>3. JobOK(k) /\ Looks(k) BY <1>1, JobLands, SameLook
<1>4. Reserved(j)' => Reserved(k)'
  BY <1>2, Zenon DEF Reserved, Live, Acts
<1>5. RevisionOwner(k) = RevisionOwner(j)
  BY <1>2, Zenon DEF RevisionOwner
<1>6. k.at # "fail" BY DEF Revising
<1>7. Owns("REVISION", RevisionOwner(j))' => Owns("REVISION", RevisionOwner(k))'
  BY <1>2, Zenon DEF Owns, RevisionOwner
<1>8. k.at \in {"revise", "reserve"} => Acts(k.seen, k.id) = {}
  BY <1>1, <1>2
<1>9. k.at \in {"prepare", "child"} => Last(k.seen).epoch = k.epoch
  BY <1>2
<1>10. ValidProposal(k.parent) /\ k.parent.state = "ACTIVE" /\ k.parent.by = Last(k.seen).by
       /\ k.id \in Ids
  BY <1>1, <1>2
<1> QED BY <1>3, <1>4, <1>6, <1>7, <1>8, <1>9, <1>10, RevisionGoes

LEMMA RevisionGoesTo ==
  ASSUME DeskInv, World("revision"), Record', NEW j, j = job["revision"], j.at \in Revising,
         NEW at \in Revising \cup {"salvage", "settle"}, at \notin {"revise", "reserve"},
         Goto("revision", [j EXCEPT !.at = at]),
         at \in {"call", "recheck", "prepare", "child"} => Reserved(j)',
         at \in {"prepare", "child"} => Last(j.seen).epoch = j.epoch,
         at = "child" => Owns("REVISION", RevisionOwner(j))' /\ global'.epoch = j.epoch
  PROVE DeskInv'
<1> PICK k : k = [j EXCEPT !.at = at] OBVIOUS
<1>1. j \in Job /\ at \in Steps BY RevisionAt DEF Steps, Revising
<1>2. SameJob(j, k) /\ k.at = at /\ k.epoch = j.epoch BY <1>1, JobAt
<1> QED BY <1>2, RevisionGoesOn

LEMMA ReviseKeeps ==
  ASSUME DeskInv, Revise
  PROVE DeskInv'
<1> PICK j : j = job["revision"] OBVIOUS
<1>1. /\ j.at = "revise" /\ UNCHANGED <<global, lineage, opened, final, denied>>
      /\ Goto("revision", WithEpoch(j, "reserve")) \/ Throw("revision")
  BY Zenon DEF Revise, At, Same
<1>2. j.at \in Revising /\ j.at # "idle" BY <1>1 DEF Revising
<1>3. j \in Job /\ Record /\ "revision" \in Coordinators BY RevisionAt
<1>4. World("revision") /\ Record' BY <1>1, <1>3, QuietKept
<1>5. CASE Throw("revision") BY <1>2, <1>3, <1>4, <1>5, Ended
<1>6. CASE Goto("revision", WithEpoch(j, "reserve"))
  <2> PICK k : k = WithEpoch(j, "reserve") OBVIOUS
  <2>1. global.epoch \in Nat /\ "reserve" \in Steps /\ "reserve" \in Revising
    BY <1>3 DEF Record, GlobalTypes, Steps, Revising
  <2>2. SameJob(j, k) /\ k.at = "reserve" BY <1>3, <2>1, JobWithEpoch
  <2>3. Goto("revision", k) BY <1>6
  <2>4. k.at \in Revising \cup {"salvage", "settle"} BY <2>1, <2>2
  <2>5. /\ k.at \in {"revise", "reserve"} => j.at \in {"revise", "reserve"}
        /\ k.at \notin {"call", "recheck", "prepare", "child"}
    BY <1>1, <2>2
  <2> QED BY <1>2, <1>4, <2>2, <2>3, <2>4, <2>5, RevisionGoesOn
<1> QED BY <1>1, <1>5, <1>6

AtSeeing(j, at, s) == [j EXCEPT !.at = at, !.seen = s]
Sees(j, k, at, s) ==
    /\ k \in Job /\ k.at = at /\ k.op = j.op /\ k.l = j.l /\ k.ref = j.ref
    /\ k.id = j.id /\ k.epoch = j.epoch /\ k.code = j.code /\ k.seen = s
    /\ k.parent = j.parent
LEMMA JobAtSeeing ==
  ASSUME NEW j \in Job, NEW at \in Steps, NEW s \in Lineage
  PROVE Sees(j, AtSeeing(j, at, s), at, s)
<1> DEFINE f == [j EXCEPT !.at = at]
           g == [f EXCEPT !.seen = s]
<1>1. AtSeeing(j, at, s) = g BY DEF AtSeeing
<1>2. SameJob(j, f) /\ f.at = at /\ f.op = j.op /\ f.epoch = j.epoch /\ f.code = j.code
  BY JobAt
<1> HIDE DEF f
<1>3. /\ g \in Job /\ g.at = f.at /\ g.op = f.op /\ g.l = f.l /\ g.ref = f.ref
      /\ g.id = f.id /\ g.epoch = f.epoch /\ g.code = f.code /\ g.seen = s
      /\ g.parent = f.parent
  BY <1>2, JobSees DEF SameJob
<1> HIDE DEF g
<1> QED BY <1>1, <1>2, <1>3 DEF Sees, SameJob

(* The reservation of a call stays where no row is written. *)
LEMMA ReservedStays ==
    ASSUME UNCHANGED lineage, NEW j, Reserved(j)
    PROVE Reserved(j)'
BY Zenon DEF Reserved, Live, Acts

LEMMA CallKeeps ==
  ASSUME DeskInv, Call
  PROVE DeskInv'
<1> PICK j : j = job["revision"] OBVIOUS
<1> PICK s : s = lineage[j.l] OBVIOUS
<1>1. /\ j.at = "call" /\ UNCHANGED <<global, lineage, opened, final, denied>>
      /\ \/ Goto("revision", [j EXCEPT !.at = "salvage"])
         \/ /\ s.state # "ABSENT" /\ Len(s.proposals) = j.ref
            /\ Goto("revision", [j EXCEPT !.at = "recheck", !.seen = s])
  BY Zenon DEF Call, At, Same, To
<1>2. j.at \in Revising BY <1>1 DEF Revising
<1>3. /\ j \in Job /\ JobOK(j) /\ Record /\ "revision" \in Coordinators /\ j.l \in Lineages
      /\ Looks(j) /\ Reserved(j) /\ j.id \in Ids /\ ValidProposal(j.parent)
      /\ j.parent.state = "ACTIVE" /\ j.parent.by = Last(j.seen).by
  BY <1>1, <1>2, RevisionAt
<1>4. World("revision") /\ Record' BY <1>1, <1>3, QuietKept
<1>5. CASE Goto("revision", [j EXCEPT !.at = "salvage"])
  BY <1>2, <1>4, <1>5, RevisionGoesTo
<1>6. ASSUME s.state # "ABSENT", Len(s.proposals) = j.ref,
             NEW k, Goto("revision", k), k \in Job, k.at = "recheck", k.l = j.l, k.ref = j.ref,
             k.id = j.id, k.seen = s, k.parent = j.parent
      PROVE DeskInv'
  <2>1. Live(j.l) BY <1>6 DEF Live
  <2>2. Past(j.l, s) BY <1>3, PastNow DEF Record
  <2>3. Looks(k) BY <1>6, <2>2, Zenon DEF Looks
  <2>4. Last(s).by = Last(j.seen).by
    <3>1. Follows(j.seen, s) /\ Len(j.seen.proposals) = j.ref
      BY <1>3, <2>1, LookFacts
    <3>2. j.ref \in Nat BY <1>3 DEF Job
    <3> QED BY <1>6, <3>1, <3>2 DEF Follows
  <2>5. JobOK(k) BY <1>3, <1>6 DEF JobOK
  <2>6. Reserved(k)' BY <1>1, <1>3, <1>6, Zenon DEF Reserved, Live, Acts
  <2> QED BY <1>3, <1>4, <1>6, <2>3, <2>4, <2>5, <2>6, RevisionGoes
<1>7. ASSUME s.state # "ABSENT", Len(s.proposals) = j.ref,
             Goto("revision", [j EXCEPT !.at = "recheck", !.seen = s])
      PROVE DeskInv'
  <2>1. s \in Lineage /\ "recheck" \in Steps
    BY <1>3, RowAlone DEF Record, Steps
  <2>2. Sees(j, AtSeeing(j, "recheck", s), "recheck", s)
    BY <1>3, <2>1, JobAtSeeing, Zenon
  <2>3. Goto("revision", AtSeeing(j, "recheck", s))
    BY <1>7, Zenon DEF AtSeeing
  <2> QED BY <1>6, <1>7, <2>2, <2>3, Zenon DEF Sees
<1> QED BY <1>1, <1>5, <1>7

LEMMA RecheckRevisionKeeps ==
  ASSUME DeskInv, RecheckRevision
  PROVE DeskInv'
<1> PICK j : j = job["revision"] OBVIOUS
<1>1. /\ j.at = "recheck" /\ UNCHANGED <<global, lineage, opened, final, denied>>
      /\ \/ Goto("revision", [j EXCEPT !.at = "salvage"])
         \/ /\ "CURRENT" \in Revalidated(j) /\ global.epoch = j.epoch
            /\ Goto("revision", [j EXCEPT !.at = "prepare"])
  BY Zenon DEF RecheckRevision, At, Same, To
<1>2. j.at \in Revising /\ "prepare" \in Revising BY <1>1 DEF Revising
<1>3. /\ j \in Job /\ Record /\ "revision" \in Coordinators /\ Reserved(j)
  BY <1>1, <1>2, RevisionAt
<1>4. World("revision") /\ Record' BY <1>1, <1>3, QuietKept
<1>5. CASE Goto("revision", [j EXCEPT !.at = "salvage"])
  BY <1>2, <1>4, <1>5, RevisionGoesTo
<1>6. CASE /\ "CURRENT" \in Revalidated(j) /\ global.epoch = j.epoch
           /\ Goto("revision", [j EXCEPT !.at = "prepare"])
  <2>1. Last(j.seen).epoch = j.epoch BY <1>6 DEF Revalidated
  <2>2. Reserved(j)' BY <1>1, <1>3, ReservedStays
  <2> QED BY <1>2, <1>4, <1>6, <2>1, <2>2, RevisionGoesTo
<1> QED BY <1>1, <1>5, <1>6

LEMMA PrepareRevisionKeeps ==
  ASSUME DeskInv, PrepareRevision
  PROVE DeskInv'
<1> PICK j : j = job["revision"] OBVIOUS
<1>1. /\ j.at = "prepare" /\ UNCHANGED <<lineage, opened, final, denied>>
      /\ \/ UNCHANGED global /\ Goto("revision", [j EXCEPT !.at = "salvage"])
         \/ /\ Free /\ global.epoch = j.epoch /\ global' = Prepared("REVISION", RevisionOwner(j))
            /\ \/ Goto("revision", [j EXCEPT !.at = "salvage"])
               \/ Goto("revision", [j EXCEPT !.at = "child"])
  BY Zenon DEF PrepareRevision, At, To, PutGlobal, Write
<1>2. j.at \in Revising /\ "child" \in Revising BY <1>1 DEF Revising
<1>3. /\ j \in Job /\ Record /\ "revision" \in Coordinators /\ Reserved(j)
      /\ Last(j.seen).epoch = j.epoch
  BY <1>1, <1>2, RevisionAt
<1>4. CASE UNCHANGED global /\ Goto("revision", [j EXCEPT !.at = "salvage"])
  BY <1>1, <1>2, <1>3, <1>4, QuietKept, RevisionGoesTo
<1>5. CASE /\ Free /\ global.epoch = j.epoch /\ global' = Prepared("REVISION", RevisionOwner(j))
           /\ \/ Goto("revision", [j EXCEPT !.at = "salvage"])
              \/ Goto("revision", [j EXCEPT !.at = "child"])
  <2>1. Held("revision") = "REVISION" /\ "revision" # "publication"
    BY KindsDiffer
  <2>2. World("revision") /\ Record'
    BY <1>1, <1>3, <1>5, <2>1, PreparedKept
  <2>3. CASE Goto("revision", [j EXCEPT !.at = "salvage"])
    BY <1>2, <2>2, <2>3, RevisionGoesTo
  <2>4. CASE Goto("revision", [j EXCEPT !.at = "child"])
    <3>1. /\ global'.journal.kind = "REVISION" /\ global'.journal.owner = RevisionOwner(j)
          /\ global'.epoch = global.epoch
      BY <1>3, <1>5, PreparedFields DEF Record
    <3>2. Owns("REVISION", RevisionOwner(j))'
      BY <3>1, Zenon DEF Owns, RevisionOwner
    <3>3. Reserved(j)' BY <1>1, <1>3, ReservedStays
    <3> QED BY <1>2, <1>3, <1>5, <2>2, <2>4, <3>1, <3>2, <3>3, RevisionGoesTo
  <2> QED BY <1>5, <2>3, <2>4
<1> QED BY <1>1, <1>4, <1>5

LEMMA RevisionSalvages ==
  ASSUME DeskInv, World("revision"), Record', NEW j, j = job["revision"], j.l \in Lineages,
         Goto("revision", [j EXCEPT !.at = "salvage"])
  PROVE DeskInv'
<1> PICK k : k = [j EXCEPT !.at = "salvage"] OBVIOUS
<1>1. j \in Job /\ "salvage" \in Steps /\ "salvage" \notin Revising /\ "salvage" # "fail"
  BY RevisionAt DEF Steps, Revising
<1>2. SameJob(j, k) /\ k.at = "salvage" BY <1>1, JobAt
<1>3. JobOK(k) BY <1>2, JobLands
<1>4. /\ k.at \notin Revising /\ k.at # "fail" /\ k.at \notin {"revise", "reserve"}
      /\ k.at \notin {"call", "recheck", "prepare", "child"}
      /\ k.at \notin {"prepare", "child"} /\ k.at # "child"
  BY <1>1, <1>2
<1> QED BY <1>3, <1>4, RevisionGoes

LEMMA SettleKeeps ==
  ASSUME DeskInv, Settle
  PROVE DeskInv'
<1> PICK j : j = job["revision"] OBVIOUS
<1>1. /\ j.at = "settle" /\ UNCHANGED <<lineage, opened, final, denied>>
      /\ UNCHANGED global \/ (Owns("REVISION", RevisionOwner(j)) /\ global' = Committed)
      /\ Return("revision") \/ Goto("revision", [j EXCEPT !.at = "salvage"])
  BY Zenon DEF Settle, At, PutGlobal, Write, To, Current
<1>2. j.at \notin Unnamed /\ j.at # "idle" BY <1>1 DEF Unnamed
<1>3. Record /\ "revision" \in Coordinators /\ j.l \in Lineages
  BY <1>2, RevisionAt
<1>4. World("revision") /\ Record'
  <2>1. CASE UNCHANGED global BY <1>1, <1>3, <2>1, QuietKept
  <2>2. CASE Owns("REVISION", RevisionOwner(j)) /\ global' = Committed
    <3>1. Journals(Held("revision")) /\ "revision" # "publication"
      BY <2>2, KindsDiffer DEF Journals, Owns
    <3> QED BY <1>1, <1>3, <2>2, <3>1, CommittedKept
  <2> QED BY <1>1, <2>1, <2>2
<1>5. CASE Return("revision") BY <1>2, <1>3, <1>4, <1>5, Ended
<1>6. CASE Goto("revision", [j EXCEPT !.at = "salvage"])
  BY <1>3, <1>4, <1>6, RevisionSalvages
<1> QED BY <1>1, <1>5, <1>6

(* A journal that is dropped has no child that would be left ahead of the epoch. *)
LEMMA NoChildAhead ==
  ASSUME Record, NEW owner, IsBeforeChild(owner), NEW l \in Lineages, Live(l)
  PROVE ~ChildAhead(owner, l, global.epoch)
<1> SUFFICES ASSUME ChildAhead(owner, l, global.epoch) PROVE FALSE OBVIOUS
<1>1. lineage[l] \in Lineage /\ lineage[l].proposals # << >>
  BY RowAlone DEF Record
<1>2. Len(lineage[l].proposals) \in DOMAIN lineage[l].proposals
  BY <1>1, LastField
<1>3. lineage[l].proposals[Len(lineage[l].proposals)].by = -owner[2] /\ owner[1] = l
  BY DEF ChildAhead, Last
<1>4. Len(lineage[l].proposals) \in ChildOf(owner)
  BY <1>2, <1>3, Zenon DEF ChildOf
<1> QED BY <1>4, Zenon DEF IsBeforeChild

LEMMA SalvageKeeps ==
  ASSUME DeskInv, Salvage
  PROVE DeskInv'
<1> PICK j : j = job["revision"] OBVIOUS
<1>1. /\ j.at = "salvage" /\ UNCHANGED <<lineage, opened, final, denied>>
      /\ \/ UNCHANGED global
         \/ Journals("REVISION") /\ global' = Committed
         \/ Journals("REVISION") /\ IsBeforeChild(global.journal.owner) /\ global' = Dropped
      /\ \/ j.op = "restore" /\ Goto("revision", [j EXCEPT !.at = "forget"])
         \/ Throw("revision")
         \/ j.op # "restore" /\ Goto("revision", AtSeeing(j, "fail", lineage[j.l]))
  <2>1. j.at = "salvage" /\ UNCHANGED <<lineage, opened, final, denied>>
    BY Zenon DEF Salvage, At, PutGlobal, Write, Same
  <2>2. \/ UNCHANGED global
        \/ Journals("REVISION") /\ global' = Committed
        \/ Journals("REVISION") /\ IsBeforeChild(global.journal.owner) /\ global' = Dropped
    BY Zenon DEF Salvage, PutGlobal, Write, Same, Journals
  <2>3. \/ j.op = "restore" /\ Goto("revision", [j EXCEPT !.at = "forget"])
        \/ Throw("revision")
        \/ j.op # "restore" /\ Goto("revision", AtSeeing(j, "fail", lineage[j.l]))
    BY Zenon DEF Salvage, PutGlobal, Write, Same, AtSeeing
  <2> QED BY <2>1, <2>2, <2>3
<1>2. /\ Record /\ "revision" \in Coordinators /\ j \in Job /\ j.at # "idle"
      /\ j.op # "restore" => j.l \in Lineages
  BY <1>1, RevisionAt
<1>3. World("revision") /\ Record'
  <2>1. CASE UNCHANGED global BY <1>1, <1>2, <2>1, QuietKept
  <2>2. Journals("REVISION") => Journals(Held("revision"))
    BY KindsDiffer
  <2>3. CASE Journals("REVISION") /\ global' = Committed
    <3>1. "revision" # "publication" OBVIOUS
    <3> QED BY <1>1, <1>2, <2>2, <2>3, <3>1, CommittedKept
  <2>4. CASE /\ Journals("REVISION") /\ IsBeforeChild(global.journal.owner)
             /\ global' = Dropped
    <3>1. "revision" # "publication" /\ "revision" # "refresh" /\ "revision" # "review"
      OBVIOUS
    <3>2. \A l \in Lineages : Live(l) => ~ChildAhead(global.journal.owner, l, global.epoch)
      BY <1>2, <2>4, NoChildAhead
    <3> QED BY <1>1, <1>2, <2>2, <2>4, <3>1, <3>2, DroppedKept
  <2> QED BY <1>1, <2>1, <2>3, <2>4
<1>4. CASE Throw("revision") BY <1>2, <1>3, <1>4, Ended
<1>5. CASE j.op = "restore" /\ Goto("revision", [j EXCEPT !.at = "forget"])
  <2> PICK k : k = [j EXCEPT !.at = "forget"] OBVIOUS
  <2>1. "forget" \in Steps /\ "forget" \in Unnamed /\ "forget" \notin Revising
    BY DEF Steps, Unnamed, Revising
  <2>2. SameJob(j, k) /\ k.at = "forget" /\ k.op = j.op
    BY <1>2, <2>1, JobAt
  <2>3. JobOK(k) BY <1>5, <2>1, <2>2 DEF JobOK, SameJob
  <2>4. /\ k.at \notin Revising /\ k.at # "fail" /\ k.at \notin {"revise", "reserve"}
        /\ k.at \notin {"call", "recheck", "prepare", "child"}
        /\ k.at \notin {"prepare", "child"} /\ k.at # "child"
    BY <2>1, <2>2
  <2>5. Goto("revision", k) BY <1>5
  <2> QED BY <1>3, <2>3, <2>4, <2>5, RevisionGoes
<1>6. CASE j.op # "restore" /\ Goto("revision", AtSeeing(j, "fail", lineage[j.l]))
  <2> PICK s : s = lineage[j.l] OBVIOUS
  <2> PICK k : k = AtSeeing(j, "fail", s) OBVIOUS
  <2>1. "fail" \in Steps /\ "fail" \notin Unnamed /\ "fail" \notin Revising /\ s \in Lineage
    BY <1>2, <1>6, RowAlone DEF Steps, Unnamed, Revising, Record
  <2>2. Sees(j, k, "fail", s) BY <1>2, <2>1, JobAtSeeing, Zenon
  <2>3. JobOK(k) /\ k.at = "fail" /\ k.l = j.l /\ k.seen = s
    BY <1>2, <1>6, <2>2 DEF JobOK, Sees
  <2>4. Past(k.l, k.seen) BY <1>2, <1>6, <2>3, PastNow DEF Record
  <2>5. /\ k.at \notin Revising /\ k.at \notin {"revise", "reserve"}
        /\ k.at \notin {"call", "recheck", "prepare", "child"}
        /\ k.at \notin {"prepare", "child"} /\ k.at # "child"
    BY <2>1, <2>3
  <2>6. Goto("revision", k) BY <1>6
  <2> QED BY <1>3, <2>3, <2>4, <2>5, <2>6, RevisionGoes
<1> QED BY <1>1, <1>4, <1>5, <1>6

----
(* What becomes of the revision actions of a row. *)
Labelled(s, K, state) ==
    [k \in DOMAIN s |-> IF k \in K THEN [s[k] EXCEPT !.state = state] ELSE s[k]]
ActionStates == {"CALL_RESERVED", "SUCCEEDED", "FAILED", "OUTCOME_UNKNOWN"}
Relabels(s, t, K, state) ==
    /\ t \in Seq(Action) /\ DOMAIN t = DOMAIN s
    /\ \A k \in DOMAIN s : /\ t[k].id = s[k].id /\ t[k].parent = s[k].parent
                           /\ t[k].state = IF k \in K THEN state ELSE s[k].state

LEMMA LabelledFields ==
  ASSUME NEW s \in Seq(Action), NEW K, NEW state \in ActionStates
  PROVE Relabels(s, Labelled(s, K, state), K, state)
<1> PICK t : t = Labelled(s, K, state) OBVIOUS
<1>1. /\ DOMAIN t = DOMAIN s
      /\ \A k \in DOMAIN s : t[k] = IF k \in K THEN [s[k] EXCEPT !.state = state] ELSE s[k]
  BY DEF Labelled
<1>2. DOMAIN s = 1..Len(s) /\ Len(s) \in Nat /\ \A k \in DOMAIN s : s[k] \in Action
  OBVIOUS
<1>3. ASSUME NEW k \in DOMAIN s
      PROVE  /\ t[k] \in Action /\ t[k].id = s[k].id /\ t[k].parent = s[k].parent
             /\ t[k].state = IF k \in K THEN state ELSE s[k].state
  BY <1>1, <1>2, <1>3 DEF Action, ActionStates
<1>4. t = [k \in 1..Len(s) |-> t[k]] BY <1>2 DEF Labelled
<1>5. t \in Seq(Action) BY <1>2, <1>3, <1>4
<1> QED BY <1>1, <1>3, <1>5 DEF Relabels

LEMMA MarkedFields ==
  ASSUME NEW ln \in Lineage, NEW id, NEW state \in ActionStates
  PROVE  LET m == Marked(ln, id, state)
         IN  /\ m \in Lineage /\ m.state = ln.state /\ m.revision = ln.revision
             /\ m.proposals = ln.proposals /\ Relabels(ln.actions, m.actions, Acts(ln, id), state)
<1> PICK t : t = Labelled(ln.actions, Acts(ln, id), state) OBVIOUS
<1>1. ln.actions \in Seq(Action) BY RowFields
<1>2. Relabels(ln.actions, t, Acts(ln, id), state)
  BY <1>1, LabelledFields
<1>3. t = [k \in DOMAIN ln.actions |-> IF ln.actions[k].id = id
                                       THEN [ln.actions[k] EXCEPT !.state = state]
                                       ELSE ln.actions[k]]
  BY DEF Labelled, Acts
<1>4. Marked(ln, id, state) = [ln EXCEPT !.actions = t]
  BY <1>3 DEF Marked
<1>5. t \in Seq(Action) BY <1>2 DEF Relabels
<1>6. LET m == [ln EXCEPT !.actions = t]
      IN  /\ m \in Lineage /\ m.state = ln.state /\ m.revision = ln.revision
          /\ m.proposals = ln.proposals /\ m.actions = t
  BY <1>5 DEF Lineage
<1> QED BY <1>2, <1>4, <1>6

(* No action that has a child is marked otherwise. *)
Marks(ln, m) ==
    /\ m \in Lineage /\ m.state = ln.state /\ m.proposals = ln.proposals
    /\ ln.revision < m.revision /\ DOMAIN m.actions = DOMAIN ln.actions
    /\ \A k \in DOMAIN ln.actions :
          /\ m.actions[k].id = ln.actions[k].id /\ m.actions[k].parent = ln.actions[k].parent
          /\ m.actions[k].state = "SUCCEEDED" <=> ln.actions[k].state = "SUCCEEDED"

LEMMA MarksValid ==
  ASSUME NEW ln \in Lineage, ValidLineage(ln), NEW m, Marks(ln, m)
  PROVE ValidLineage(m)
<1>1. ValidActions(m) BY DEF ValidLineage, ValidActions, Marks
<1>2. ValidSources(m)
  <2>1. ASSUME NEW i \in DOMAIN m.proposals, m.proposals[i].by # 0
        PROVE  /\ i > 1
               /\ \E k \in Acts(m, m.proposals[i].by) :
                     m.actions[k].state = "SUCCEEDED" /\ m.actions[k].parent = i - 1
    <3>1. i \in DOMAIN ln.proposals /\ ln.proposals[i].by = m.proposals[i].by
      BY <2>1 DEF Marks
    <3>2. i > 1 BY <2>1, <3>1 DEF ValidLineage, ValidSources
    <3>3. PICK k \in Acts(ln, ln.proposals[i].by) :
              ln.actions[k].state = "SUCCEEDED" /\ ln.actions[k].parent = i - 1
      BY <2>1, <3>1 DEF ValidLineage, ValidSources
    <3>4. k \in Acts(m, m.proposals[i].by) BY <3>1, <3>3 DEF Acts, Marks
    <3>5. m.actions[k].state = "SUCCEEDED" /\ m.actions[k].parent = i - 1
      BY <3>3 DEF Acts, Marks
    <3> QED BY <3>2, <3>4, <3>5
  <2> QED BY <2>1 DEF ValidSources
<1>3. Last(m) = Last(ln) BY DEF Marks, Last
<1>4. m.state = ln.state /\ m.proposals = ln.proposals BY DEF Marks
<1>5. \A i \in DOMAIN m.proposals : ValidProposal(m.proposals[i])
  BY <1>4 DEF ValidLineage
<1> QED BY <1>1, <1>2, <1>3, <1>4, <1>5, Zenon DEF ValidLineage

LEMMA MarksWrites ==
  ASSUME NEW c \in Coordinators, Record, NEW l \in Lineages, Marks(lineage[l], lineage'[l])
  PROVE Writes(c, l)
<1> PICK ln, m : ln = lineage[l] /\ m = lineage'[l] OBVIOUS
<1>1. ln \in Lineage /\ Marks(ln, m) BY DEF Record, RowsInv
<1>2. CASE ~Live(l)
  <2>1. ~Live(l)' BY <1>2 DEF Live, Marks
  <2> QED BY <1>2, <2>1, Zenon DEF Writes
<1>3. CASE Live(l)
  <2>1. ValidLineage(ln) /\ ln.proposals # << >>
    BY <1>3, RowAlone DEF Record
  <2>2. ValidLineage(m) BY <1>1, <2>1, MarksValid
  <2>3. m.proposals = ln.proposals /\ m.state = ln.state /\ ln.revision < m.revision
        /\ Last(m) = Last(ln)
    BY <1>1 DEF Marks, Last
  <2>4. Len(ln.proposals) \in Nat BY <1>1, RowFields
  <2>5. ~Longer(ln, m) BY <2>3, <2>4 DEF Longer
  <2>6. Last(ln).decision \in {None, Last(m).decision} BY <2>3
  <2>7. \A k \in DOMAIN ln.actions :
           /\ k \in DOMAIN m.actions /\ m.actions[k].id = ln.actions[k].id
           /\ m.actions[k].parent = ln.actions[k].parent
    BY <1>1 DEF Marks
  <2>8. AsRead(ln, m) /\ Follows(ln, m) /\ StateMoves(c, ln, m)
    BY <2>3, <2>5, <2>6, Zenon DEF AsRead, Follows, StateMoves
  <2>9. Grows(c, ln, m) BY <2>7, <2>8, Zenon DEF Grows
  <2>10. Live(l)' /\ lineage'[l].state \in {lineage[l].state, "ACTIVE"}
    BY <1>3, <2>3 DEF Live
  <2> QED BY <1>3, <2>2, <2>3, <2>5, <2>9, <2>10, Zenon DEF Writes
<1> QED BY <1>2, <1>3

(* A call that is marked as failed was reserved: no child came of it. *)
LEMMA FailedMarks ==
  ASSUME NEW ln \in Lineage, ValidLineage(ln), NEW id,
         NEW r \in Acts(ln, id), ln.actions[r].state = "CALL_RESERVED",
         NEW m, m = [Marked(ln, id, "FAILED") EXCEPT !.revision = @ + 1]
  PROVE Marks(ln, m)
<1> PICK f : f = Marked(ln, id, "FAILED") OBVIOUS
<1>1. "FAILED" \in ActionStates BY DEF ActionStates
<1>2. /\ f \in Lineage /\ f.state = ln.state /\ f.revision = ln.revision
      /\ f.proposals = ln.proposals /\ Relabels(ln.actions, f.actions, Acts(ln, id), "FAILED")
  BY <1>1, MarkedFields
<1>3. m = [f EXCEPT !.revision = @ + 1] OBVIOUS
<1>4. /\ m \in Lineage /\ m.state = f.state /\ m.revision = f.revision + 1
      /\ m.proposals = f.proposals /\ m.actions = f.actions
  BY <1>2, <1>3 DEF Lineage
<1>5. ln.revision \in Nat BY RowFields
<1>6. \A k \in Acts(ln, id) : ln.actions[k].state = "CALL_RESERVED"
  <2>1. ASSUME NEW k \in Acts(ln, id) PROVE k = r
    BY <2>1 DEF Acts, ValidLineage, ValidActions
  <2> QED BY <2>1
<1>7. ASSUME NEW k \in DOMAIN ln.actions
      PROVE  /\ m.actions[k].id = ln.actions[k].id /\ m.actions[k].parent = ln.actions[k].parent
             /\ m.actions[k].state = "SUCCEEDED" <=> ln.actions[k].state = "SUCCEEDED"
  <2>1. /\ m.actions[k].id = ln.actions[k].id /\ m.actions[k].parent = ln.actions[k].parent
        /\ m.actions[k].state = IF k \in Acts(ln, id) THEN "FAILED" ELSE ln.actions[k].state
    BY <1>2, <1>4 DEF Relabels
  <2>2. CASE k \in Acts(ln, id) BY <1>6, <2>1, <2>2
  <2>3. CASE k \notin Acts(ln, id) BY <2>1, <2>3
  <2> QED BY <2>2, <2>3
<1>8. DOMAIN m.actions = DOMAIN ln.actions BY <1>2, <1>4 DEF Relabels
<1> QED BY <1>2, <1>4, <1>5, <1>7, <1>8 DEF Marks

LEMMA MarkFailedKeeps ==
  ASSUME DeskInv, MarkFailed
  PROVE DeskInv'
<1> PICK j : j = job["revision"] OBVIOUS
<1> PICK ln : ln = lineage[j.l] OBVIOUS
<1> PICK m : m = [Marked(ln, j.id, "FAILED") EXCEPT !.revision = @ + 1] OBVIOUS
<1>1. /\ j.at = "fail" /\ UNCHANGED <<global, opened, final, denied>> /\ Return("revision")
      /\ \/ UNCHANGED lineage
         \/ /\ \E k \in DOMAIN j.seen.actions :
                  j.seen.actions[k].id = j.id /\ j.seen.actions[k].state = "CALL_RESERVED"
            /\ Unmoved(j) /\ lineage' = [lineage EXCEPT ![j.l] = m]
  BY Zenon DEF MarkFailed, At, PutLineage, Write
<1>2. j.at \notin Unnamed /\ j.at # "idle" BY <1>1 DEF Unnamed
<1>3. /\ Record /\ "revision" \in Coordinators /\ j.l \in Lineages /\ j \in Job
      /\ Past(j.l, j.seen)
  BY <1>1, <1>2, RevisionAt
<1>4. World("revision") /\ Record'
  <2>1. CASE UNCHANGED lineage BY <1>1, <1>3, <2>1, QuietKept
  <2>2. ASSUME NEW r \in DOMAIN j.seen.actions, j.seen.actions[r].id = j.id,
               j.seen.actions[r].state = "CALL_RESERVED", Unmoved(j),
               lineage' = [lineage EXCEPT ![j.l] = m]
        PROVE World("revision") /\ Record'
    <3>1. Live(j.l) /\ ln.revision = j.seen.revision
      BY <2>2 DEF Unmoved, Live
    <3>2. ln \in Lineage /\ ValidLineage(ln) /\ ln.revision \in Nat
      BY <1>3, <3>1, LiveFacts, RowFields
    <3>3. ln.actions = j.seen.actions
      <4>1. AsRead(j.seen, ln) BY <1>3, <3>1, Zenon DEF Past
      <4> QED BY <3>1, <3>2, <4>1 DEF AsRead
    <3>4. r \in Acts(ln, j.id) /\ ln.actions[r].state = "CALL_RESERVED"
      BY <2>2, <3>3 DEF Acts
    <3>5. Marks(ln, m) BY <3>2, <3>4, FailedMarks
    <3>6. m \in Lineage BY <3>5, Zenon DEF Marks
    <3>7. lineage' \in [Lineages -> Lineage] /\ lineage'[j.l] = m
          /\ \A i \in Lineages : i # j.l => lineage'[i] = lineage[i]
      BY <1>3, <2>2, <3>6 DEF Record, RowsInv
    <3>8. Writes("revision", j.l) BY <1>3, <3>5, <3>7, MarksWrites
    <3>9. RowsWritten("revision")
      BY <1>1, <3>7, <3>8, Zenon DEF RowsWritten
    <3> QED BY <1>3, <3>9, RowsWrittenKept
  <2> QED BY <1>1, <2>1, <2>2
<1> QED BY <1>1, <1>2, <1>3, <1>4, Ended

OpenCalls(ln) == {k \in DOMAIN ln.actions : ln.actions[k].state = "CALL_RESERVED"}
Forgotten(ln) ==
    [ln EXCEPT !.revision = @ + 1, !.actions = Labelled(ln.actions, OpenCalls(ln), "OUTCOME_UNKNOWN")]

LEMMA ForgottenMarks ==
  ASSUME NEW ln \in Lineage
  PROVE Marks(ln, Forgotten(ln))
<1> PICK t : t = Labelled(ln.actions, OpenCalls(ln), "OUTCOME_UNKNOWN") OBVIOUS
<1>1. ln.actions \in Seq(Action) /\ ln.revision \in Nat /\ "OUTCOME_UNKNOWN" \in ActionStates
  BY RowFields DEF ActionStates
<1>2. Relabels(ln.actions, t, OpenCalls(ln), "OUTCOME_UNKNOWN")
  BY <1>1, LabelledFields
<1> DEFINE f == [ln EXCEPT !.revision = @ + 1]
           m == [f EXCEPT !.actions = t]
<1>3. Forgotten(ln) = m BY DEF Forgotten
<1>4. /\ f \in Lineage /\ f.state = ln.state /\ f.revision = ln.revision + 1
      /\ f.proposals = ln.proposals
  BY DEF Lineage
<1> HIDE DEF f
<1>5. /\ m \in Lineage /\ m.state = f.state /\ m.revision = f.revision
      /\ m.proposals = f.proposals /\ m.actions = t
  BY <1>2, <1>4 DEF Lineage, Relabels
<1> HIDE DEF m
<1>6. \A k \in DOMAIN ln.actions :
         /\ m.actions[k].id = ln.actions[k].id /\ m.actions[k].parent = ln.actions[k].parent
         /\ m.actions[k].state = "SUCCEEDED" <=> ln.actions[k].state = "SUCCEEDED"
  BY <1>2, <1>5 DEF Relabels, OpenCalls
<1>7. DOMAIN m.actions = DOMAIN ln.actions BY <1>2, <1>5 DEF Relabels
<1>8. Marks(ln, m) BY <1>1, <1>4, <1>5, <1>6, <1>7 DEF Marks
<1> QED BY <1>3, <1>8

LEMMA ForgetCallsKeeps ==
  ASSUME DeskInv, ForgetCalls
  PROVE DeskInv'
<1> PICK j : j = job["revision"] OBVIOUS
<1>1. j.at = "forget" /\ UNCHANGED <<global, opened, final, denied>> /\ Return("revision")
  BY Zenon DEF ForgetCalls, At
<1>2. Record /\ "revision" \in Coordinators /\ j.at # "idle"
  BY <1>1, RevisionAt
<1>3. lineage' = [l \in Lineages |->
                     IF OpenCalls(lineage[l]) = {} THEN lineage[l] ELSE Forgotten(lineage[l])]
  BY DEF ForgetCalls, Forgotten, OpenCalls, Labelled
<1>4. ASSUME NEW l \in Lineages
      PROVE  /\ lineage'[l] \in Lineage
             /\ lineage'[l] = lineage[l] \/ Writes("revision", l)
  <2>1. lineage[l] \in Lineage BY <1>2 DEF Record, RowsInv
  <2>2. CASE OpenCalls(lineage[l]) = {} BY <1>3, <2>1, <2>2
  <2>3. CASE OpenCalls(lineage[l]) # {}
    <3>1. lineage'[l] = Forgotten(lineage[l]) BY <1>3, <2>3
    <3>2. Marks(lineage[l], lineage'[l]) BY <2>1, <3>1, ForgottenMarks
    <3>3. Writes("revision", l) BY <1>2, <3>2, MarksWrites
    <3> QED BY <3>2, <3>3, Zenon DEF Marks
  <2> QED BY <2>2, <2>3
<1>5. lineage' \in [Lineages -> Lineage] BY <1>3, <1>4
<1>6. RowsWritten("revision") BY <1>1, <1>4, <1>5, Zenon DEF RowsWritten
<1> QED BY <1>1, <1>2, <1>6, RowsWrittenKept, Ended

(* A call is reserved under an identifier that no action of the row has. *)
Reserving(ln, a) == [ln EXCEPT !.revision = @ + 1, !.actions = Append(@, a)]
Appends(ln, m, a) ==
    /\ m \in Lineage /\ m.state = ln.state /\ m.proposals = ln.proposals
    /\ m.revision = ln.revision + 1 /\ DOMAIN m.actions = 1..(Len(ln.actions) + 1)
    /\ \A k \in 1..Len(ln.actions) : m.actions[k] = ln.actions[k]
    /\ m.actions[Len(ln.actions) + 1] = a

LEMMA ReservingFields ==
  ASSUME NEW ln \in Lineage, NEW a \in Action
  PROVE Appends(ln, Reserving(ln, a), a)
<1> DEFINE f == [ln EXCEPT !.revision = @ + 1]
           t == Append(ln.actions, a)
           m == [f EXCEPT !.actions = t]
<1>1. Reserving(ln, a) = m BY DEF Reserving
<1>2. ln.actions \in Seq(Action) BY RowFields
<1>3. /\ t \in Seq(Action) /\ DOMAIN t = 1..(Len(ln.actions) + 1)
      /\ \A k \in 1..Len(ln.actions) : t[k] = ln.actions[k]
      /\ t[Len(ln.actions) + 1] = a
  BY <1>2
<1> HIDE DEF t
<1>4. /\ f \in Lineage /\ f.state = ln.state /\ f.revision = ln.revision + 1
      /\ f.proposals = ln.proposals
  BY DEF Lineage
<1> HIDE DEF f
<1>5. /\ m \in Lineage /\ m.state = f.state /\ m.revision = f.revision
      /\ m.proposals = f.proposals /\ m.actions = t
  BY <1>3, <1>4 DEF Lineage
<1> HIDE DEF m
<1> QED BY <1>1, <1>3, <1>4, <1>5 DEF Appends

LEMMA AppendsValid ==
  ASSUME NEW ln \in Lineage, ValidLineage(ln), NEW a \in Action, a.state = "CALL_RESERVED",
         Acts(ln, a.id) = {}, NEW m, Appends(ln, m, a)
  PROVE ValidLineage(m)
<1>0. DOMAIN ln.actions = 1..Len(ln.actions) /\ Len(ln.actions) \in Nat
  BY RowFields
<1>1. \A k \in DOMAIN ln.actions : ln.actions[k].id # a.id BY DEF Acts
<1>2. ValidActions(m)
  <2>1. ASSUME NEW k \in DOMAIN m.actions, NEW i \in DOMAIN m.actions,
               m.actions[k].id = m.actions[i].id
        PROVE k = i
    <3> DEFINE n == Len(ln.actions)
    <3>1. /\ n \in Nat /\ DOMAIN m.actions = 1..(n + 1) /\ m.actions[n + 1] = a
          /\ \A j \in 1..n : m.actions[j] = ln.actions[j] /\ j \in DOMAIN ln.actions
      BY <1>0 DEF Appends
    <3>2. \A j, l \in DOMAIN ln.actions : ln.actions[j].id = ln.actions[l].id => j = l
      BY DEF ValidLineage, ValidActions
    <3> HIDE DEF n
    <3>3. k \in 1..n + 1 /\ i \in 1..n + 1 BY <3>1
    <3>4. CASE k \in 1..n /\ i \in 1..n BY <2>1, <3>1, <3>2, <3>4
    <3>5. CASE k = n + 1 /\ i \in 1..n BY <1>1, <2>1, <3>1, <3>5
    <3>6. CASE k \in 1..n /\ i = n + 1 BY <1>1, <2>1, <3>1, <3>6
    <3>7. CASE k = n + 1 /\ i = n + 1 BY <3>7
    <3> QED BY <3>1, <3>3, <3>4, <3>5, <3>6, <3>7
  <2>2. ASSUME NEW k \in DOMAIN m.actions, m.actions[k].state = "SUCCEEDED"
        PROVE  \E i \in DOMAIN m.proposals :
                   m.proposals[i].by = m.actions[k].id /\ m.actions[k].parent = i - 1
    <3>1. k \in DOMAIN ln.actions /\ m.actions[k] = ln.actions[k]
      BY <1>0, <2>2 DEF Appends
    <3>2. m.proposals = ln.proposals BY DEF Appends
    <3> QED BY <2>2, <3>1, <3>2 DEF ValidLineage, ValidActions
  <2> QED BY <2>1, <2>2, Zenon DEF ValidActions
<1>3. ValidSources(m)
  <2>1. ASSUME NEW i \in DOMAIN m.proposals, m.proposals[i].by # 0
        PROVE  /\ i > 1
               /\ \E k \in Acts(m, m.proposals[i].by) :
                     m.actions[k].state = "SUCCEEDED" /\ m.actions[k].parent = i - 1
    <3>1. i \in DOMAIN ln.proposals /\ ln.proposals[i].by = m.proposals[i].by
      BY <2>1 DEF Appends
    <3>2. i > 1 BY <2>1, <3>1 DEF ValidLineage, ValidSources
    <3>3. PICK k \in Acts(ln, ln.proposals[i].by) :
              ln.actions[k].state = "SUCCEEDED" /\ ln.actions[k].parent = i - 1
      BY <2>1, <3>1 DEF ValidLineage, ValidSources
    <3>4. k \in DOMAIN m.actions /\ m.actions[k] = ln.actions[k]
      BY <1>0, <3>3 DEF Acts, Appends
    <3>5. k \in Acts(m, m.proposals[i].by) BY <3>1, <3>3, <3>4 DEF Acts
    <3> QED BY <3>2, <3>3, <3>4, <3>5
  <2> QED BY <2>1 DEF ValidSources
<1>4. Last(m) = Last(ln) /\ m.state = ln.state /\ m.proposals = ln.proposals
  BY DEF Appends, Last
<1>5. \A i \in DOMAIN m.proposals : ValidProposal(m.proposals[i])
  BY <1>4 DEF ValidLineage
<1> QED BY <1>2, <1>3, <1>4, <1>5, Zenon DEF ValidLineage

LEMMA ReservationWritten ==
  ASSUME Record, NEW l \in Lineages, Live(l), NEW a \in Action, a.state = "CALL_RESERVED",
         Acts(lineage[l], a.id) = {}, UNCHANGED <<global, opened, final, denied>>,
         lineage' = [lineage EXCEPT ![l] = Reserving(lineage[l], a)]
  PROVE  /\ World("revision") /\ Record' /\ Live(l)'
         /\ \E k \in Acts(lineage'[l], a.id) : lineage'[l].actions[k].parent = a.parent
<1> PICK ln, m : ln = lineage[l] /\ m = Reserving(ln, a) OBVIOUS
<1>1. /\ ln \in Lineage /\ ValidLineage(ln) /\ "revision" \in Coordinators
      /\ DOMAIN ln.actions = 1..Len(ln.actions) /\ Len(ln.actions) \in Nat
      /\ Len(ln.proposals) \in Nat /\ ln.revision \in Nat
  BY LiveFacts, RowFields DEF Coordinators
<1>2. Appends(ln, m, a) BY <1>1, ReservingFields
<1>3. ValidLineage(m) BY <1>1, <1>2, AppendsValid
<1>4. /\ m \in Lineage /\ m.state = ln.state /\ m.proposals = ln.proposals
      /\ m.revision = ln.revision + 1 /\ Last(m) = Last(ln)
  BY <1>2 DEF Appends, Last
<1>5. lineage' \in [Lineages -> Lineage] /\ lineage'[l] = m
      /\ \A i \in Lineages : i # l => lineage'[i] = lineage[i]
  BY <1>4 DEF Record, RowsInv
<1>6. ~Longer(ln, m) /\ ln.revision < m.revision
  BY <1>1, <1>4 DEF Longer
<1>7. Last(ln).decision \in {None, Last(m).decision} BY <1>4
<1>8. AsRead(ln, m) /\ Follows(ln, m) /\ StateMoves("revision", ln, m)
  BY <1>4, <1>6, <1>7, Zenon DEF AsRead, Follows, StateMoves
<1>9. \A k \in DOMAIN ln.actions :
         /\ k \in DOMAIN m.actions /\ m.actions[k].id = ln.actions[k].id
         /\ m.actions[k].parent = ln.actions[k].parent
  BY <1>1, <1>2 DEF Appends
<1>10. Grows("revision", ln, m) BY <1>8, <1>9, Zenon DEF Grows
<1>11. Live(l)' /\ lineage'[l].state \in {lineage[l].state, "ACTIVE"}
  BY <1>4, <1>5 DEF Live
<1>12. Writes("revision", l)
  BY <1>3, <1>4, <1>5, <1>6, <1>10, <1>11, Zenon DEF Writes
<1>13. RowsWritten("revision") BY <1>5, <1>12, Zenon DEF RowsWritten
<1>14. \E k \in Acts(lineage'[l], a.id) : lineage'[l].actions[k].parent = a.parent
  <2>1. Len(ln.actions) + 1 \in Acts(m, a.id) /\ m.actions[Len(ln.actions) + 1] = a
    BY <1>1, <1>2 DEF Acts, Appends
  <2> QED BY <1>5, <2>1
<1> QED BY <1>1, <1>11, <1>13, <1>14, RowsWrittenKept

LEMMA ReserveCallKeeps ==
  ASSUME DeskInv, ReserveCall
  PROVE DeskInv'
<1> PICK j : j = job["revision"] OBVIOUS
<1> PICK a : a = [id |-> j.id, parent |-> j.ref, state |-> "CALL_RESERVED"] OBVIOUS
<1>1. /\ j.at = "reserve" /\ UNCHANGED <<global, opened, final, denied>>
      /\ \/ UNCHANGED lineage /\ Throw("revision")
         \/ /\ Unmoved(j) /\ lineage' = [lineage EXCEPT ![j.l] = Reserving(lineage[j.l], a)]
            /\ Goto("revision", [j EXCEPT !.at = "call"]) \/ Throw("revision")
  BY Zenon DEF ReserveCall, At, PutLineage, Write, To, Reserving
<1>2. j.at \in Revising /\ j.at # "idle" /\ "call" \in Revising
  BY <1>1 DEF Revising
<1>3. /\ Record /\ "revision" \in Coordinators /\ j.l \in Lineages /\ j \in Job /\ JobOK(j)
      /\ Looks(j) /\ j.id \in Ids /\ Acts(j.seen, j.id) = {}
  BY <1>1, <1>2, RevisionAt
<1>4. CASE UNCHANGED lineage /\ Throw("revision")
  BY <1>1, <1>2, <1>3, <1>4, QuietEnds
<1>5. CASE /\ Unmoved(j) /\ lineage' = [lineage EXCEPT ![j.l] = Reserving(lineage[j.l], a)]
           /\ Goto("revision", [j EXCEPT !.at = "call"]) \/ Throw("revision")
  <2>1. Live(j.l) /\ lineage[j.l].actions = j.seen.actions
    BY <1>3, <1>5, UnmovedFacts
  <2>2. Acts(lineage[j.l], j.id) = {} BY <1>3, <2>1, Zenon DEF Acts
  <2>3. a \in Action /\ a.id = j.id /\ a.parent = j.ref /\ a.state = "CALL_RESERVED"
    BY <1>3 DEF Action, Job
  <2>4. /\ World("revision") /\ Record' /\ Live(j.l)'
        /\ \E k \in Acts(lineage'[j.l], a.id) : lineage'[j.l].actions[k].parent = a.parent
    BY <1>1, <1>3, <1>5, <2>1, <2>2, <2>3, ReservationWritten
  <2>5. CASE Throw("revision") BY <1>2, <1>3, <2>4, <2>5, Ended
  <2>6. CASE Goto("revision", [j EXCEPT !.at = "call"])
    <3>1. Reserved(j)' BY <2>3, <2>4, Zenon DEF Reserved, Acts
    <3> QED BY <1>2, <2>4, <2>6, <3>1, RevisionGoesTo
  <2> QED BY <1>5, <2>5, <2>6
<1> QED BY <1>1, <1>4, <1>5

(* The child of a revision goes behind its parent. *)
Revised(ln, q, p, t) ==
    [ln EXCEPT !.revision = @ + 1, !.proposals = Append([@ EXCEPT ![Len(ln.proposals)] = q], p),
               !.actions = t]
Extends(ln, m, q, p, t) ==
    /\ m \in Lineage /\ m.state = ln.state /\ m.actions = t
    /\ m.revision = ln.revision + 1 /\ DOMAIN m.proposals = 1..(Len(ln.proposals) + 1)
    /\ Len(m.proposals) = Len(ln.proposals) + 1
    /\ \A i \in 1..Len(ln.proposals) :
          m.proposals[i] = IF i = Len(ln.proposals) THEN q ELSE ln.proposals[i]
    /\ m.proposals[Len(ln.proposals) + 1] = p

LEMMA BumpedFields ==
    ASSUME NEW ln \in Lineage
    PROVE  LET f == [ln EXCEPT !.revision = @ + 1]
           IN  f \in Lineage /\ f.state = ln.state /\ f.revision = ln.revision + 1
BY DEF Lineage

LEMMA RevisedFields ==
  ASSUME NEW ln \in Lineage, ln.proposals # << >>, NEW q \in Proposal, NEW p \in Proposal, NEW t \in Seq(Action)
  PROVE Extends(ln, Revised(ln, q, p, t), q, p, t)
<1> DEFINE n == Len(ln.proposals)
           r == [ln.proposals EXCEPT ![n] = q]
           ps == Append(r, p)
           f == [ln EXCEPT !.revision = @ + 1]
           g == [f EXCEPT !.proposals = ps]
           m == [g EXCEPT !.actions = t]
<1>1. Revised(ln, q, p, t) = m BY DEF Revised
<1>2. ln.proposals \in Seq(Proposal) /\ n \in 1..Len(ln.proposals)
  BY LastField, RowFields, Zenon
<1> HIDE DEF n
<1>3. /\ r \in Seq(Proposal) /\ Len(r) = Len(ln.proposals)
      /\ \A i \in 1..Len(ln.proposals) : r[i] = IF i = n THEN q ELSE ln.proposals[i]
  <2>0. r \in Seq(Proposal) BY <1>2, ExceptSeq, Zenon
  <2>1. Len(r) = Len(ln.proposals)
    <3>1. DOMAIN r = DOMAIN ln.proposals BY Zenon
    <3> HIDE DEF r
    <3> QED BY <1>2, <2>0, <3>1
  <2>2. \A i \in 1..Len(ln.proposals) : r[i] = IF i = n THEN q ELSE ln.proposals[i]
    BY <1>2
  <2> QED BY <2>0, <2>1, <2>2
<1> HIDE DEF r
<1>4. /\ ps \in Seq(Proposal) /\ Len(ps) = Len(r) + 1 /\ DOMAIN ps = 1..(Len(r) + 1)
      /\ \A i \in 1..Len(r) : ps[i] = r[i]
      /\ ps[Len(r) + 1] = p
  BY <1>3
<1> HIDE DEF ps
<1>5. /\ f \in Lineage /\ f.state = ln.state /\ f.revision = ln.revision + 1
  BY BumpedFields
<1> HIDE DEF f
<1>6. /\ g \in Lineage /\ g.state = f.state /\ g.revision = f.revision /\ g.proposals = ps
  BY <1>4, <1>5 DEF Lineage
<1> HIDE DEF g
<1>7. /\ m \in Lineage /\ m.state = g.state /\ m.revision = g.revision
      /\ m.proposals = g.proposals /\ m.actions = t
  BY <1>6 DEF Lineage
<1> HIDE DEF m
<1>8. n = Len(ln.proposals) BY DEF n
<1>9. \A i \in 1..Len(ln.proposals) :
         m.proposals[i] = IF i = Len(ln.proposals) THEN q ELSE ln.proposals[i]
  BY <1>3, <1>4, <1>6, <1>7, <1>8
<1>10. /\ DOMAIN m.proposals = 1..(Len(ln.proposals) + 1)
       /\ Len(m.proposals) = Len(ln.proposals) + 1
       /\ m.proposals[Len(ln.proposals) + 1] = p
  BY <1>3, <1>4, <1>6, <1>7
<1> QED BY <1>1, <1>5, <1>6, <1>7, <1>9, <1>10, Zenon DEF Extends

LEMMA ExtendsValid ==
  ASSUME NEW ln \in Lineage, ValidLineage(ln), ln.state = "ACTIVE",
         NEW id \in Nat, id # 0, NEW r \in Acts(ln, id),
         ln.actions[r].parent = Len(ln.proposals),
         NEW q \in Proposal, ValidProposal(q), q.by = Last(ln).by,
         NEW p \in Proposal, ValidProposal(p), p.by = id, p.state = "ACTIVE",
         NEW t, Relabels(ln.actions, t, Acts(ln, id), "SUCCEEDED"),
         NEW m, Extends(ln, m, q, p, t)
  PROVE ValidLineage(m)
<1> PICK n : n = Len(ln.proposals) OBVIOUS
<1>0. /\ DOMAIN ln.proposals = 1..n /\ n \in Nat /\ n > 0 /\ n \in DOMAIN ln.proposals
      /\ Last(ln) = ln.proposals[n]
  BY RowFields, LastField DEF ValidLineage, Last
<1>1. /\ DOMAIN m.proposals = 1..(n + 1) /\ Len(m.proposals) = n + 1 /\ m.proposals[n + 1] = p
      /\ \A i \in 1..n : m.proposals[i] = IF i = n THEN q ELSE ln.proposals[i]
      /\ m.state = "ACTIVE" /\ m.actions = t
  BY DEF Extends
<1>2. \A i \in 1..n : m.proposals[i].by = ln.proposals[i].by
  BY <1>0, <1>1
<1>3. /\ DOMAIN t = DOMAIN ln.actions
      /\ \A k \in DOMAIN ln.actions :
            /\ t[k].id = ln.actions[k].id /\ t[k].parent = ln.actions[k].parent
            /\ t[k].state = IF k \in Acts(ln, id) THEN "SUCCEEDED" ELSE ln.actions[k].state
  BY DEF Relabels
<1>4. r \in DOMAIN ln.actions /\ ln.actions[r].id = id BY DEF Acts
<1>5. ASSUME NEW k \in Acts(ln, id) PROVE k = r
  BY <1>4, <1>5 DEF Acts, ValidLineage, ValidActions
<1>6. ValidActions(m)
  <2>1. ASSUME NEW k \in DOMAIN m.actions, NEW i \in DOMAIN m.actions,
               m.actions[k].id = m.actions[i].id
        PROVE k = i
    BY <1>1, <1>3, <2>1 DEF ValidLineage, ValidActions
  <2>2. ASSUME NEW k \in DOMAIN m.actions, m.actions[k].state = "SUCCEEDED"
        PROVE  \E i \in DOMAIN m.proposals :
                   m.proposals[i].by = m.actions[k].id /\ m.actions[k].parent = i - 1
    <3>1. k \in DOMAIN ln.actions /\ m.actions[k].id = ln.actions[k].id
          /\ m.actions[k].parent = ln.actions[k].parent
      BY <1>1, <1>3
    <3>2. CASE k \in Acts(ln, id)
      <4>1. m.actions[k].id = id /\ m.actions[k].parent = n
        BY <1>4, <1>5, <3>1, <3>2
      <4>2. n + 1 \in DOMAIN m.proposals /\ m.proposals[n + 1].by = id /\ n = (n + 1) - 1
        BY <1>0, <1>1
      <4> QED BY <4>1, <4>2
    <3>3. CASE k \notin Acts(ln, id)
      <4>1. ln.actions[k].state = "SUCCEEDED"
        BY <1>1, <1>3, <2>2, <3>1, <3>3
      <4>2. PICK i \in DOMAIN ln.proposals :
                ln.proposals[i].by = ln.actions[k].id /\ ln.actions[k].parent = i - 1
        BY <3>1, <4>1 DEF ValidLineage, ValidActions
      <4>3. i \in DOMAIN m.proposals /\ m.proposals[i].by = ln.proposals[i].by
        BY <1>0, <1>1, <1>2
      <4> QED BY <3>1, <4>2, <4>3
    <3> QED BY <3>2, <3>3
  <2> QED BY <2>1, <2>2, Zenon DEF ValidActions
<1>7. ValidSources(m)
  <2>1. ASSUME NEW i \in DOMAIN m.proposals, m.proposals[i].by # 0
        PROVE  /\ i > 1
               /\ \E k \in Acts(m, m.proposals[i].by) :
                     m.actions[k].state = "SUCCEEDED" /\ m.actions[k].parent = i - 1
    <3>1. CASE i = n + 1
      <4>1. i > 1 /\ m.proposals[i].by = id /\ n = i - 1
        BY <1>0, <1>1, <3>1
      <4>2. r \in DOMAIN m.actions /\ m.actions[r].id = id
        BY <1>1, <1>3, <1>4
      <4>3. r \in Acts(m, m.proposals[i].by) BY <4>1, <4>2 DEF Acts
      <4>4. m.actions[r].state = "SUCCEEDED" /\ m.actions[r].parent = i - 1
        BY <1>1, <1>3, <1>4, <4>1
      <4> QED BY <4>1, <4>3, <4>4
    <3>2. CASE i \in 1..n
      <4>1. i \in DOMAIN ln.proposals /\ ln.proposals[i].by = m.proposals[i].by
        BY <1>0, <1>2, <3>2
      <4>2. i > 1 BY <2>1, <4>1 DEF ValidLineage, ValidSources
      <4>3. PICK k \in Acts(ln, ln.proposals[i].by) :
                ln.actions[k].state = "SUCCEEDED" /\ ln.actions[k].parent = i - 1
        BY <2>1, <4>1 DEF ValidLineage, ValidSources
      <4>4. k \in DOMAIN ln.actions /\ ln.actions[k].id = ln.proposals[i].by
        BY <4>3 DEF Acts
      <4>5. k \in DOMAIN m.actions /\ m.actions[k].id = m.proposals[i].by
        BY <1>1, <1>3, <4>1, <4>4
      <4>6. k \in Acts(m, m.proposals[i].by) BY <4>5 DEF Acts
      <4>7. m.actions[k].state = "SUCCEEDED" /\ m.actions[k].parent = i - 1
        BY <1>1, <1>3, <4>3, <4>4
      <4> QED BY <4>2, <4>6, <4>7
    <3> QED BY <1>0, <1>1, <3>1, <3>2
  <2> QED BY <2>1 DEF ValidSources
<1>8. \A i \in DOMAIN m.proposals : ValidProposal(m.proposals[i])
  <2>1. \A i \in DOMAIN ln.proposals : ValidProposal(ln.proposals[i])
    BY DEF ValidLineage
  <2> QED BY <1>0, <1>1, <2>1
<1>9. Last(m) = p /\ m.proposals # << >> BY <1>0, <1>1 DEF Last
<1>10. /\ Last(m).state = IF m.state = "REFRESHING" THEN "SUPERSEDED" ELSE m.state
       /\ m.state # "PUBLISHED" /\ m.state # "TERMINAL"
  BY <1>1, <1>9
<1> QED BY <1>6, <1>7, <1>8, <1>9, <1>10, Zenon DEF ValidLineage

LEMMA ExtendsAlike ==
    ASSUME NEW s, NEW ln, s.state = ln.state, s.proposals = ln.proposals,
           s.revision = ln.revision, NEW m, NEW q, NEW p, NEW t, Extends(s, m, q, p, t)
    PROVE Extends(ln, m, q, p, t)
BY DEF Extends

LEMMA ExtendsWritten ==
  ASSUME Record, NEW l \in Lineages, Live(l), NEW ln, ln = lineage[l], ln.state = "ACTIVE",
         NEW id \in Nat, id # 0, NEW r \in Acts(ln, id),
         ln.actions[r].parent = Len(ln.proposals),
         NEW q \in Proposal, ValidProposal(q), q.by = Last(ln).by,
         NEW p \in Proposal, ValidProposal(p), p.by = id, p.state = "ACTIVE",
         p.epoch = global.epoch + 1, Last(ln).epoch = global.epoch,
         Journals("REVISION"), global.journal.owner = <<l, -id>>,
         NEW t, Relabels(ln.actions, t, Acts(ln, id), "SUCCEEDED"),
         NEW m, Extends(ln, m, q, p, t), UNCHANGED <<global, opened, final, denied>>,
         lineage' = [lineage EXCEPT ![l] = m]
  PROVE World("revision") /\ Record'
<1>1. /\ ln \in Lineage /\ ValidLineage(ln) /\ ln.revision \in Nat /\ Len(ln.proposals) \in Nat
      /\ Last(ln).epoch \in Nat /\ global.epoch \in Nat /\ "revision" \in Coordinators
  BY LiveFacts, RowFields, LastField DEF Record, GlobalTypes, Coordinators
<1>2. ValidLineage(m) BY <1>1, ExtendsValid
<1>3. /\ m \in Lineage /\ m.state = ln.state /\ m.revision = ln.revision + 1
      /\ Len(m.proposals) = Len(ln.proposals) + 1 /\ m.actions = t
      /\ Last(m) = p
  BY DEF Extends, Last
<1>4. lineage' \in [Lineages -> Lineage] /\ lineage'[l] = m
      /\ \A i \in Lineages : i # l => lineage'[i] = lineage[i]
  BY <1>3 DEF Record, RowsInv
<1>5. AsRead(ln, m) BY <1>1, <1>3 DEF AsRead
<1>6. Follows(ln, m) BY <1>1, <1>3 DEF Follows
<1>7. StateMoves("revision", ln, m) BY <1>3 DEF StateMoves
<1>8. Grows("revision", ln, m)
  <2>1. \A k \in DOMAIN ln.actions :
           /\ k \in DOMAIN m.actions /\ m.actions[k].id = ln.actions[k].id
           /\ m.actions[k].parent = ln.actions[k].parent
    BY <1>3 DEF Relabels
  <2> QED BY <1>5, <1>6, <1>7, <2>1, Zenon DEF Grows
<1>9. ChildAhead(global.journal.owner, l, global.epoch)'
  <2>1. global'.journal.owner = <<l, -id>> /\ global'.epoch = global.epoch OBVIOUS
  <2>2. -(-id) = id OBVIOUS
  <2>3. <<l, -id>>[1] = l /\ <<l, -id>>[2] = -id OBVIOUS
  <2>4. /\ global'.journal.owner[1] = l /\ Last(lineage'[l]).epoch = global'.epoch + 1
        /\ Last(lineage'[l]).by = -global'.journal.owner[2]
    BY <1>3, <1>4, <2>1, <2>2, <2>3
  <2> QED BY <2>4, Zenon DEF ChildAhead
<1>10. Live(l)' /\ lineage'[l].state \in {lineage[l].state, "ACTIVE"}
  BY <1>3, <1>4 DEF Live
<1>11. Writes("revision", l)
  BY <1>2, <1>4, <1>8, <1>9, <1>10, Zenon DEF Writes
<1>12. RowsWritten("revision") BY <1>4, <1>11, Zenon DEF RowsWritten
<1> QED BY <1>1, <1>12, RowsWrittenKept

LEMMA ChildWritten ==
  ASSUME DeskInv, NEW j, j = job["revision"], j.at = "child", Unmoved(j),
         UNCHANGED <<global, opened, final, denied>>,
         lineage' = [lineage EXCEPT ![j.l] =
             Revised(j.seen, [j.parent EXCEPT !.state = "SUPERSEDED"],
                     NewProposal(j.epoch + 1, j.id),
                     Marked(lineage[j.l], j.id, "SUCCEEDED").actions)]
  PROVE World("revision") /\ Record'
<1> DEFINE l == j.l
           id == j.id
           ln == lineage[l]
           s == j.seen
           q == [j.parent EXCEPT !.state = "SUPERSEDED"]
           p == NewProposal(j.epoch + 1, id)
           t == Marked(ln, id, "SUCCEEDED").actions
           m == Revised(s, q, p, t)
<1>a. l = j.l /\ id = j.id /\ ln = lineage[l] /\ s = j.seen OBVIOUS
<1>q. q = [j.parent EXCEPT !.state = "SUPERSEDED"] OBVIOUS
<1>p. p = NewProposal(j.epoch + 1, id) OBVIOUS
<1>t. t = Marked(ln, id, "SUCCEEDED").actions OBVIOUS
<1>m. m = Revised(s, q, p, t) OBVIOUS
<1>14. lineage' = [lineage EXCEPT ![l] = m] OBVIOUS
<1> HIDE DEF l, id, ln, s, q, p, t, m
<1>1. "child" \in Revising /\ "SUCCEEDED" \in ActionStates
  BY DEF Revising, ActionStates
<1>2. /\ JobOK(j) /\ j \in Job /\ Record /\ "revision" \in Coordinators /\ l \in Lineages
      /\ Looks(j) /\ id \in Ids /\ ValidProposal(j.parent) /\ j.parent.state = "ACTIVE"
      /\ j.parent.by = Last(s).by /\ Reserved(j) /\ Last(s).epoch = j.epoch
      /\ Owns("REVISION", RevisionOwner(j)) /\ global.epoch = j.epoch
  BY <1>a, <1>1, RevisionAt
<1>3. /\ Live(l) /\ ln.state = s.state /\ ln.proposals = s.proposals /\ ln.actions = s.actions
      /\ Last(ln) = Last(s) /\ Len(ln.proposals) = j.ref
  BY <1>a, <1>2, UnmovedFacts
<1>4. /\ ln \in Lineage /\ ValidLineage(ln) /\ ln.proposals # << >> /\ s \in Lineage
      /\ ln.revision = s.revision /\ ln.revision \in Nat /\ Len(ln.proposals) \in Nat
      /\ Last(ln).epoch \in Nat
  <2>1. ln \in Lineage /\ ValidLineage(ln) /\ ln.proposals # << >> /\ s \in Lineage
    BY <1>a, <1>2, <1>3, LiveFacts DEF Job
  <2>2. ln.revision = s.revision BY <1>a DEF Unmoved
  <2> QED BY <2>1, <2>2, RowFields, LastField
<1>5. ln.state = "ACTIVE"
  <2>1. ln.state \in {"ACTIVE", "REFRESHING", "PUBLISHED", "TERMINAL"} /\ OutOfPlay(l)
    BY <1>a, <1>2, <1>3, LiveFacts, RowAlone DEF Record
  <2>2. ~(Last(ln).epoch < global.epoch) BY <1>2, <1>3, <1>4
  <2>3. global.journal.kind = "REVISION" BY <1>2 DEF Owns
  <2> QED BY <1>a, <2>1, <2>2, <2>3 DEF OutOfPlay, Leaves, Owns
<1>6. q \in Proposal /\ ValidProposal(q) /\ q.by = Last(ln).by
  <2>1. j.parent \in Proposal BY <1>2 DEF Job
  <2>2. /\ Redecided(j.parent, q) /\ q.state = "SUPERSEDED" /\ q.publication = j.parent.publication
        /\ q.decision = j.parent.decision /\ q.review = j.parent.review
    BY <1>q, <2>1, Retired
  <2> QED BY <1>2, <1>3, <2>1, <2>2 DEF ValidProposal, Redecided, None
<1>7. id \in Nat /\ id # 0 BY <1>2, ProposalDeskAssumption
<1>8. /\ p \in Proposal /\ ValidProposal(p) /\ p.state = "ACTIVE" /\ p.epoch = j.epoch + 1
      /\ p.by = id
  <2>1. j.epoch + 1 \in Nat BY <1>2 DEF Job
  <2> QED BY <1>p, <1>7, <2>1, FreshProposal
<1>9. Relabels(ln.actions, t, Acts(ln, id), "SUCCEEDED") /\ t \in Seq(Action)
  <2>1. Relabels(ln.actions, t, Acts(ln, id), "SUCCEEDED")
    BY <1>t, <1>1, <1>4, MarkedFields
  <2> QED BY <2>1 DEF Relabels
<1>10. Extends(s, m, q, p, t)
  BY <1>m, <1>3, <1>4, <1>6, <1>8, <1>9, RevisedFields
<1>11. Extends(ln, m, q, p, t)
  <2>1. s.state = ln.state /\ s.proposals = ln.proposals /\ s.revision = ln.revision
    BY <1>3, <1>4
  <2> QED BY <1>10, <2>1, ExtendsAlike, Zenon
<1>12. PICK r \in Acts(ln, id) : ln.actions[r].parent = j.ref
  BY <1>a, <1>2, <1>3, Zenon DEF Reserved
<1>13. Journals("REVISION") /\ global.journal.owner = <<l, -id>>
  BY <1>a, <1>2 DEF Owns, Journals, RevisionOwner
<1>15. /\ ln.actions[r].parent = Len(ln.proposals) /\ p.epoch = global.epoch + 1
       /\ Last(ln).epoch = global.epoch
  BY <1>2, <1>3, <1>8, <1>12
<1>16. UNCHANGED <<global, opened, final, denied>> OBVIOUS
<1> QED BY <1>a, <1>2, <1>3, <1>5, <1>6, <1>7, <1>8, <1>9, <1>11, <1>12, <1>13, <1>14, <1>15, <1>16,
           ExtendsWritten, Zenon

LEMMA ChildKeeps ==
  ASSUME DeskInv, Child
  PROVE DeskInv'
<1> PICK j : j = job["revision"] OBVIOUS
<1>1. /\ j.at = "child" /\ UNCHANGED <<global, opened, final, denied>>
      /\ \/ UNCHANGED lineage /\ Goto("revision", [j EXCEPT !.at = "salvage"])
         \/ /\ Unmoved(j)
            /\ lineage' = [lineage EXCEPT ![j.l] =
                  Revised(j.seen, [j.parent EXCEPT !.state = "SUPERSEDED"],
                          NewProposal(j.epoch + 1, j.id),
                          Marked(lineage[j.l], j.id, "SUCCEEDED").actions)]
            /\ \/ Goto("revision", [j EXCEPT !.at = "settle"])
               \/ Goto("revision", [j EXCEPT !.at = "salvage"])
  BY Zenon DEF Child, At, PutLineage, Write, To, Revised
<1>2. j.at \in Revising /\ "settle" \notin {"revise", "reserve"}
  BY <1>1 DEF Revising
<1>3. Record /\ "revision" \in Coordinators BY RevisionAt
<1>4. World("revision") /\ Record'
  <2>1. CASE UNCHANGED lineage BY <1>1, <1>3, <2>1, QuietKept
  <2>2. CASE /\ Unmoved(j)
             /\ lineage' = [lineage EXCEPT ![j.l] =
                   Revised(j.seen, [j.parent EXCEPT !.state = "SUPERSEDED"],
                           NewProposal(j.epoch + 1, j.id),
                           Marked(lineage[j.l], j.id, "SUCCEEDED").actions)]
    BY <1>1, <2>2, ChildWritten
  <2> QED BY <1>1, <2>1, <2>2
<1>5. CASE Goto("revision", [j EXCEPT !.at = "settle"])
  BY <1>2, <1>4, <1>5, RevisionGoesTo
<1>6. CASE Goto("revision", [j EXCEPT !.at = "salvage"])
  BY <1>2, <1>4, <1>6, RevisionGoesTo
<1> QED BY <1>1, <1>5, <1>6

LEMMA RevisionKeeps ==
    ASSUME DeskInv, Revision
    PROVE DeskInv'
BY ReviseKeeps, ReserveCallKeeps, CallKeeps, RecheckRevisionKeeps, PrepareRevisionKeeps,
   ChildKeeps, SettleKeeps, SalvageKeeps, MarkFailedKeeps, ForgetCallsKeeps, Zenon DEF Revision

----
(* A coordinator takes up a request, or after a start what it left undone. *)
Taken == {"inspect", "approve", "prepare", "publish", "revise"}
FirstIs(r, at, ln, c) ==
    /\ at \in Steps
    /\ c = "review" => at \in {"idle", "inspect", "approve", "prepare", "return", "reviewed"}
    /\ c = "publication" => at \in {"idle", "reconcile", "publish"}
    /\ c = "refresh" => at \in {"idle", "prepare"}
    /\ c = "revision" => at \in {"idle", "revise"}
    /\ at \in Taken => ln.state # "ABSENT" /\ Len(ln.proposals) = r.ref
    /\ at = "publish" => ln.state = "ACTIVE" /\ Last(ln).decision = "APPROVED"
    /\ at = "revise" => /\ Acts(ln, r.id) = {} /\ Last(ln).state = "ACTIVE"
                        /\ r.op = "revise"
LEMMA FirstStepFacts ==
  ASSUME NEW r, AskedOK(r)
  PROVE FirstIs(r, FirstStep(r), lineage[r.l], CoordinatorOf(r.op))
<1> PICK at : at = FirstStep(r) OBVIOUS
<1> PICK ln : ln = lineage[r.l] OBVIOUS
<1> PICK c : c = CoordinatorOf(r.op) OBVIOUS
<1> SUFFICES FirstIs(r, at, ln, c) OBVIOUS
<1>1. CASE r.op = "inspect"
  BY <1>1 DEF FirstIs, FirstStep, CoordinatorOf, Taken, Steps
<1>2. CASE r.op = "approve"
  BY <1>2 DEF FirstIs, FirstStep, CoordinatorOf, Taken, Steps
<1>3. CASE r.op = "reject"
  BY <1>3 DEF FirstIs, FirstStep, CoordinatorOf, Taken, Steps
<1>4. CASE r.op = "publish"
  BY <1>4 DEF FirstIs, FirstStep, CoordinatorOf, Taken, Steps, Publishable
<1>5. CASE r.op = "recover"
  BY <1>5 DEF FirstIs, FirstStep, CoordinatorOf, Taken, Steps
<1>6. CASE r.op = "refresh"
  BY <1>6 DEF FirstIs, FirstStep, CoordinatorOf, Taken, Steps
<1>7. CASE r.op = "revise"
  BY <1>7 DEF FirstIs, FirstStep, CoordinatorOf, Taken, Steps, Revisable
<1> QED BY <1>1, <1>2, <1>3, <1>4, <1>5, <1>6, <1>7 DEF AskedOK, Ops, None

Begun(at, op, l, ref, id, s, p) ==
    [Idle EXCEPT !.at = at, !.op = op, !.l = l, !.ref = ref, !.id = id, !.seen = s, !.parent = p]
Begins(k, at, op, l, ref, id, s, p) ==
    /\ JobOK(k) /\ k.at = at /\ k.op = op /\ k.l = l /\ k.ref = ref /\ k.id = id /\ k.seen = s
    /\ k.parent = p
LEMMA JobBegun ==
  ASSUME NEW at \in Steps, NEW op \in Ops, NEW l \in Lineages, NEW ref \in Nat,
         NEW id \in Ids \cup {0}, NEW s \in Lineage, NEW p \in Proposal
  PROVE Begins(Begun(at, op, l, ref, id, s, p), at, op, l, ref, id, s, p)
<1> DEFINE e == [Idle EXCEPT !.at = at]
           f == [e EXCEPT !.op = op]
           g == [f EXCEPT !.l = l]
           h == [g EXCEPT !.ref = ref]
           i == [h EXCEPT !.id = id]
           j == [i EXCEPT !.seen = s]
           k == [j EXCEPT !.parent = p]
<1>1. Begun(at, op, l, ref, id, s, p) = k BY DEF Begun
<1>2. e \in Job /\ e.at = at BY IdleJob DEF Job
<1> HIDE DEF e
<1>3. f \in Job /\ f.at = at /\ f.op = op BY <1>2 DEF Job
<1> HIDE DEF f
<1>4. g \in Job /\ g.at = at /\ g.op = op /\ g.l = l BY <1>3 DEF Job
<1> HIDE DEF g
<1>5. h \in Job /\ h.at = at /\ h.op = op /\ h.l = l /\ h.ref = ref
  BY <1>4 DEF Job
<1> HIDE DEF h
<1>6. i \in Job /\ i.at = at /\ i.op = op /\ i.l = l /\ i.ref = ref /\ i.id = id
  BY <1>5 DEF Job
<1> HIDE DEF i
<1>7. j \in Job /\ j.at = at /\ j.op = op /\ j.l = l /\ j.ref = ref /\ j.id = id /\ j.seen = s
  BY <1>6 DEF Job
<1> HIDE DEF j
<1>8. k \in Job /\ k.at = at /\ k.op = op /\ k.l = l /\ k.ref = ref /\ k.id = id /\ k.seen = s /\ k.parent = p
  BY <1>7 DEF Job
<1> HIDE DEF k
<1> QED BY <1>1, <1>8, Zenon DEF Begins, JobOK

(* What is known of a lineage that was just read. *)
LEMMA ReadNow ==
  ASSUME Record, NEW r, AskedOK(r), NEW at, at = FirstStep(r), at \in Taken
  PROVE  /\ Past(r.l, lineage[r.l]) /\ Live(r.l) /\ Len(lineage[r.l].proposals) = r.ref
         /\ lineage[r.l].proposals # << >> /\ ValidProposal(Last(lineage[r.l]))
<1>1. r.l \in Lineages BY Zenon DEF AskedOK
<1>2. lineage[r.l].state # "ABSENT" /\ Len(lineage[r.l].proposals) = r.ref
  BY FirstStepFacts, Zenon DEF FirstIs
<1> QED BY <1>1, <1>2, PastNow, LiveFacts, Zenon DEF Live, Record

LEMMA BegunKnows ==
  ASSUME NEW c \in Coordinators, Record, World(c), Record', UNCHANGED <<global, lineage>>,
         NEW r, AskedOK(r), c = CoordinatorOf(r.op), NEW at \in Steps \ {"idle"}, at = FirstStep(r),
         NEW k, NEW p, Begins(k, at, r.op, r.l, r.ref, r.id, lineage[r.l], p),
         lineage[r.l].proposals # << >> => p = Last(lineage[r.l]), job'[c] = k
  PROVE Knows(c)'
<1>1. /\ JobOK(k) /\ k.at = at /\ k.op = r.op /\ k.l = r.l /\ k.ref = r.ref /\ k.id = r.id
      /\ k.seen = lineage[r.l] /\ k.parent = p /\ k.l \in Lineages
  BY Zenon DEF Begins, AskedOK
<1>0. FirstIs(r, at, lineage[r.l], c) BY FirstStepFacts, Zenon
<1>2. at \in Taken => Looks(k) /\ Looks(k)'
  <2>1. at \in Taken => Looks(k) BY <1>1, ReadNow, Zenon DEF Looks, Live
  <2> QED BY <1>1, <2>1, LooksKept, Zenon
<1>3. CASE c = "review"
  <2>1. at \in {"inspect", "approve", "prepare", "return", "reviewed"}
    BY <1>0, <1>3 DEF FirstIs
  <2>2. at \in {"inspect", "relieve", "approve", "attention", "prepare", "decide"} => Looks(k)'
    BY <1>2, <2>1 DEF Taken
  <2>3. at # "attention" /\ at # "decide" /\ at # "clear" BY <2>1
  <2>4. ReviewInv' BY <1>1, <1>3, <2>2, <2>3, Zenon DEF ReviewInv
  <2> QED BY <1>3, <2>4 DEF Knows
<1>4. CASE c = "publication"
  <2>1. at \in {"reconcile", "publish"} BY <1>0, <1>4 DEF FirstIs
  <2>2. at = "publish" => /\ Looks(k)' /\ lineage[r.l].state = "ACTIVE"
                          /\ Last(lineage[r.l]).decision = "APPROVED"
    BY <1>0, <1>2 DEF FirstIs, Taken
  <2>3. PublicationInv'
    BY <1>1, <1>4, <2>1, <2>2 DEF PublicationInv, Attempting
  <2> QED BY <1>4, <2>3 DEF Knows
<1>5. CASE c = "refresh"
  <2>1. at = "prepare" BY <1>0, <1>5 DEF FirstIs
  <2>2. RefreshInv' BY <1>1, <1>5, <2>1 DEF RefreshInv
  <2> QED BY <1>5, <2>2 DEF Knows
<1>6. CASE c = "revision"
  <2>1. at = "revise" BY <1>0, <1>6 DEF FirstIs
  <2>2. /\ Acts(lineage[r.l], r.id) = {} /\ Last(lineage[r.l]).state = "ACTIVE" /\ r.id \in Ids
    BY <1>0, <2>1 DEF FirstIs, AskedOK
  <2>3. lineage[r.l].proposals # << >> /\ ValidProposal(Last(lineage[r.l]))
    BY <2>1, ReadNow DEF Taken
  <2>4. /\ Looks(k)' /\ k.id \in Ids /\ ValidProposal(k.parent) /\ k.parent.state = "ACTIVE"
        /\ k.parent.by = Last(k.seen).by /\ Acts(k.seen, k.id) = {}
    BY <1>1, <1>2, <2>1, <2>2, <2>3 DEF Taken
  <2>5. RevisionInv'
    <3>1. at \notin {"call", "recheck", "prepare", "child"} /\ at # "child" /\ at # "fail"
          /\ at \notin {"prepare", "child"}
      BY <2>1
    <3> QED BY <1>1, <1>6, <2>4, <3>1, Zenon DEF RevisionInv
  <2> QED BY <1>6, <2>5 DEF Knows
<1> QED BY <1>3, <1>4, <1>5, <1>6 DEF Coordinators

LEMMA BeginKeeps ==
  ASSUME NEW c \in Coordinators, DeskInv, Begin(c)
  PROVE DeskInv'
<1>1. UNCHANGED <<global, lineage, opened, final, denied, mode>>
  BY Zenon DEF Begin, At, Same
<1>2. PICK r \in asked :
        /\ CoordinatorOf(r.op) = c /\ asked' = asked \ {r}
        /\ job' = [job EXCEPT ![c] =
               IF FirstStep(r) = "idle" THEN Idle
               ELSE [Idle EXCEPT !.at = FirstStep(r), !.op = r.op, !.l = r.l, !.ref = r.ref,
                                 !.id = r.id, !.seen = lineage[r.l],
                                 !.parent = IF lineage[r.l].proposals = << >> THEN @
                                            ELSE Last(lineage[r.l])]]
  BY Zenon DEF Begin
<1> DEFINE p == IF lineage[r.l].proposals = << >> THEN Idle.parent ELSE Last(lineage[r.l])
           k == IF FirstStep(r) = "idle" THEN Idle
                ELSE Begun(FirstStep(r), r.op, r.l, r.ref, r.id, lineage[r.l], p)
<1>3. job' = [job EXCEPT ![c] = k] BY <1>2 DEF Begun, Idle
<1>4. Record /\ World(c) /\ Record' /\ AskedOK(r)
  BY <1>1, QuietKept, Zenon DEF DeskInv, QueueOK
<1>5. QueueOK' BY <1>1, <1>2, Zenon DEF DeskInv, QueueOK
<1>6. r.l \in Lineages /\ lineage[r.l] \in Lineage /\ p \in Proposal
  <2>1. r.l \in Lineages /\ lineage[r.l] \in Lineage
    BY <1>4, RowAlone, Zenon DEF AskedOK, Record
  <2>2. Idle.parent \in Proposal BY IdleJob DEF Job
  <2> QED BY <2>1, <2>2, LastField, Zenon
<1>7. FirstStep(r) # "idle" => Begins(k, FirstStep(r), r.op, r.l, r.ref, r.id, lineage[r.l], p)
  <2>1. FirstStep(r) \in Steps
    BY <1>4, FirstStepFacts, Zenon DEF FirstIs
  <2>2. r.op \in Ops /\ r.ref \in Nat /\ r.id \in Ids \cup {0}
    BY <1>4, Zenon DEF AskedOK
  <2> HIDE DEF p
  <2> QED BY <1>6, <2>1, <2>2, JobBegun, Zenon
<1>8. JobOK(k) BY <1>7, IdleJob, Zenon DEF Begins
<1>9. job'[c] = k
  <2> HIDE DEF k
  <2> QED BY <1>3 DEF DeskInv, JobsOK
<1>10. Knows(c)'
  <2>1. CASE FirstStep(r) = "idle" BY <1>9, <2>1, IdleKnows, Zenon
  <2>2. CASE FirstStep(r) # "idle"
    <3>1. lineage[r.l].proposals # << >> => p = Last(lineage[r.l])
      BY Zenon
    <3> HIDE DEF p, k
    <3>2. Begins(k, FirstStep(r), r.op, r.l, r.ref, r.id, lineage[r.l], p)
      BY <1>7, <2>2, Zenon
    <3>3. FirstStep(r) \in Steps \ {"idle"}
      BY <1>4, <2>2, FirstStepFacts, Zenon DEF FirstIs
    <3>4. UNCHANGED <<global, lineage>> /\ c = CoordinatorOf(r.op)
      BY <1>1, <1>2, Zenon
    <3> QED BY <1>4, <1>9, <3>1, <3>2, <3>3, <3>4, BegunKnows, Zenon
  <2> QED BY <2>1, <2>2
<1>11. c # "others" BY DEF Coordinators
<1> HIDE DEF k
<1> QED BY <1>3, <1>4, <1>5, <1>8, <1>10, <1>11, Apart, Zenon

LEMMA RestoreKeeps ==
  ASSUME NEW c \in Coordinators, DeskInv, Restore(c)
  PROVE DeskInv'
<1> DEFINE at == CASE c = "refresh" -> "unrefreshed" [] c = "revision" -> "salvage"
                   [] c = "review" -> "reviewed" [] OTHER -> "reconcile"
           k == [Idle EXCEPT !.op = "restore", !.at = at]
<1>1. UNCHANGED <<global, lineage, opened, final, denied>> /\ Goto(c, k)
  BY Zenon DEF Restore, At, Same
<1>2. at \in Steps /\ at \in Unnamed /\ at # "forget"
      /\ (c = "refresh" => at = "unrefreshed") /\ (c = "revision" => at = "salvage")
      /\ (c = "review" => at = "reviewed") /\ (c = "publication" => at = "reconcile")
  BY DEF Coordinators, Steps, Unnamed
<1> HIDE DEF at
<1>3. k.op = "restore" /\ k.at = at /\ k \in Job
  <2> DEFINE h == [Idle EXCEPT !.op = "restore"]
  <2>1. h \in Job /\ h.op = "restore" BY IdleJob DEF Job, Ops
  <2>2. k = [h EXCEPT !.at = at] OBVIOUS
  <2> HIDE DEF h, k
  <2>3. SameJob(h, k) /\ k.at = at /\ k.op = h.op
    BY <1>2, <2>1, <2>2, JobAt
  <2> QED BY <2>1, <2>3 DEF SameJob
<1> HIDE DEF k
<1>4. JobOK(k) BY <1>2, <1>3, Zenon DEF JobOK
<1>5. World(c) /\ Record' BY <1>1, QuietKept, Zenon DEF DeskInv
<1>6. CASE c = "review"
  <2>1. k.at = "reviewed" BY <1>2, <1>3, <1>6
  <2>2. k.at \notin Looking /\ k.at # "attention" /\ k.at # "decide" /\ k.at # "clear"
    BY <2>1 DEF Looking
  <2> QED BY <1>1, <1>4, <1>5, <1>6, <2>2, ReviewGoes
<1>7. CASE c = "publication"
  <2>1. k.at = "reconcile" BY <1>2, <1>3, <1>7
  <2>2. /\ k.at \notin Publishing /\ k.at \notin Attempting /\ k.at # "prepare" /\ k.at # "commit"
        /\ k.at \notin {"publish", "prepare", "note"}
        /\ k.at \notin {"note", "refuse", "failure", "failure, clear"}
        /\ k.at \notin {"install", "ask disk"} /\ k.at \notin {"refuse", "unexecute"}
        /\ k.at \notin {"execute", "failure, clear", "clear", "recheck"}
    BY <2>1 DEF Publishing, Attempting
  <2> QED BY <1>1, <1>4, <1>5, <1>7, <2>2, PublicationGoes
<1>8. CASE c = "refresh"
  <2>1. k.at = "unrefreshed" BY <1>2, <1>3, <1>8
  <2>2. k.at # "supersede" /\ k.at \notin {"recall", "reserve"} BY <2>1
  <2> QED BY <1>1, <1>3, <1>4, <1>5, <1>8, <2>2, RefreshGoes
<1>9. CASE c = "revision"
  <2>1. k.at = "salvage" BY <1>2, <1>3, <1>9
  <2>2. /\ k.at \notin Revising /\ k.at \notin {"revise", "reserve"} /\ k.at # "child"
        /\ k.at \notin {"call", "recheck", "prepare", "child"}
        /\ k.at \notin {"prepare", "child"} /\ k.at # "fail"
    BY <2>1 DEF Revising
  <2> QED BY <1>1, <1>4, <1>5, <1>9, <2>2, RevisionGoes
<1> QED BY <1>6, <1>7, <1>8, <1>9 DEF Coordinators

----
(* Everybody else.  The record stays when nothing of it is touched. *)
LEMMA AsideKept ==
  ASSUME Record, UNCHANGED <<global, lineage, opened, final, denied>>
  PROVE World("others") /\ Record'
<1>1. Record' BY QuietKept DEF Coordinators
<1>2. World("others") BY RowsAside, Zenon DEF World, Ages
<1> QED BY <1>1, <1>2

LEMMA OthersKeep ==
  ASSUME DeskInv, World("others"), Record', QueueOK', UNCHANGED job
  PROVE DeskInv'
<1>1. Knows("others")' BY DEF Knows
<1> QED BY <1>1, IdleJob, Apart

LEMMA AskedRight ==
  ASSUME Record, NEW l \in Lineages, NEW op \in Offered(lineage[l]) \cap Operations,
         NEW id \in IF op = "revise" THEN Ids ELSE {0}, NEW ref, ref = Len(lineage[l].proposals)
  PROVE AskedOK(Request(Routed(op, l, ref), l, lineage[l].revision, ref, id))
<1>1. op \in {"inspect", "approve", "reject", "retry", "refresh", "revise"}
  BY ProposalDeskAssumption
<1>2. lineage[l].revision \in Nat /\ ref \in Nat
  BY RowAlone, RowFields DEF Record
<1>3. /\ Routed(op, l, ref) \in {"inspect", "approve", "reject", "refresh", "revise", "recover",
                                "publish"}
      /\ Routed(op, l, ref) = "revise" => op = "revise"
  BY <1>1 DEF Routed
<1> PICK o : o = Routed(op, l, ref) OBVIOUS
<1>4. o \in Ops \ {None, "restore", "undo"} /\ id \in Ids \cup {0} /\ (o = "revise" => id \in Ids)
  BY <1>3 DEF Ops, None
<1> QED BY <1>2, <1>4 DEF AskedOK, Request

LEMMA AskKeeps ==
  ASSUME DeskInv, Ask
  PROVE DeskInv'
<1>1. UNCHANGED <<global, lineage, opened, final, denied, mode, job>>
  BY Zenon DEF Ask
<1>2. PICK l \in Lineages : \E op \in Offered(lineage[l]) \cap Operations :
         \E id \in IF op = "revise" THEN Ids ELSE {0} :
           LET ref == Len(lineage[l].proposals)
           IN  asked' = asked \cup {Request(Routed(op, l, ref), l, lineage[l].revision, ref, id)}
  BY Zenon DEF Ask
<1>3. PICK op \in Offered(lineage[l]) \cap Operations :
         \E id \in IF op = "revise" THEN Ids ELSE {0} :
           LET ref == Len(lineage[l].proposals)
           IN  asked' = asked \cup {Request(Routed(op, l, ref), l, lineage[l].revision, ref, id)}
  BY <1>2, Zenon
<1>4. PICK id \in IF op = "revise" THEN Ids ELSE {0} :
           LET ref == Len(lineage[l].proposals)
           IN  asked' = asked \cup {Request(Routed(op, l, ref), l, lineage[l].revision, ref, id)}
  BY <1>3, Zenon
<1> DEFINE r == Request(Routed(op, l, Len(lineage[l].proposals)), l, lineage[l].revision,
                        Len(lineage[l].proposals), id)
<1>5. asked' = asked \cup {r} BY <1>4, Zenon
<1>6. AskedOK(r) BY AskedRight, Zenon DEF DeskInv
<1> HIDE DEF r
<1>7. QueueOK' BY <1>1, <1>5, <1>6 DEF DeskInv, QueueOK
<1>8. World("others") /\ Record' BY <1>1, AsideKept, Zenon DEF DeskInv
<1> QED BY <1>1, <1>7, <1>8, OthersKeep, Zenon

(* Somebody else holds the catalog, or moves on, while no journal is open. *)
LEMMA HandedFields ==
  ASSUME FenceInv, NEW f,
         \/ global' = [global EXCEPT !.fence = f]
         \/ global' = [global EXCEPT !.fence = f, !.epoch = @ + 1]
  PROVE  /\ global'.journal = global.journal /\ global'.fence = f
         /\ global' = [global EXCEPT !.fence = f] => global'.epoch = global.epoch
         /\ global' = [global EXCEPT !.fence = f, !.epoch = @ + 1] =>
                global'.epoch = global.epoch + 1
<1>1. ASSUME global' = [global EXCEPT !.fence = f]
      PROVE global' = [epoch |-> global.epoch, journal |-> global.journal, fence |-> f]
  BY <1>1 DEF FenceInv, Shaped
<1>2. ASSUME global' = [global EXCEPT !.fence = f, !.epoch = @ + 1]
      PROVE global' = [epoch |-> global.epoch + 1, journal |-> global.journal, fence |-> f]
  BY <1>2 DEF FenceInv, Shaped
<1> QED BY <1>1, <1>2

Handed ==
    /\ global.journal.kind = None /\ global'.journal = global.journal
    /\ global'.epoch \in {global.epoch, global.epoch + 1}
    /\ global'.fence \in {"FREE", "LEASE", "COMMITTING", "PURGE"}
    /\ global'.epoch = global.epoch /\ global.fence = "PURGE" => global'.fence = "PURGE"
    /\ UNCHANGED <<opened, final, denied>>
LEMMA HandedKept ==
  ASSUME Record, Touches, Handed, lineage' \in [Lineages -> Lineage],
         \A l \in Lineages : \/ lineage'[l] = lineage[l]
                             \/ /\ RowMoves("others", l) /\ RowInv(l)'
                                /\ lineage[l].state = "PUBLISHED" => ~Live(l)'
  PROVE World("others") /\ Record'
<1>0. /\ global.journal.kind = None /\ global'.journal = global.journal
      /\ UNCHANGED <<opened, final, denied>> /\ global.epoch \in Nat
      /\ global'.epoch \in {global.epoch, global.epoch + 1}
  BY DEF Handed, Record, GlobalTypes
<1>1. World("others")
  <2>1. \A l \in Lineages : RowMoves("others", l)
    BY RowStays, Zenon DEF Record
  <2>2. Ages BY DEF Handed, Ages
  <2> QED BY <1>0, <2>1, <2>2, Zenon DEF World
<1>2. FenceInv' BY FenceAfter, Zenon
<1>3. GlobalTypes'
  <2>1. global'.epoch \in Nat BY <1>0
  <2> QED BY <1>0, <2>1, Zenon DEF Handed, Record, GlobalTypes
<1>4. RowsInv'
  <2> SUFFICES ASSUME NEW l \in Lineages, lineage'[l] = lineage[l], Live(l)
               PROVE ValidLineage(lineage[l]) /\ InEpoch(l)' /\ OutOfPlay(l)'
    BY Zenon DEF RowsInv, RowInv, Live
  <2>1. ValidLineage(lineage[l]) /\ InEpoch(l) /\ OutOfPlay(l) /\ Last(lineage[l]).epoch \in Nat
    BY RowAlone, LastField, Zenon DEF Record
  <2>2. Last(lineage[l]).epoch <= global'.epoch
    BY <1>0, <2>1, KindsDiffer DEF InEpoch
  <2>3. ASSUME NEW state, NEW kind, kind # None, Leaves(l, state, kind)
        PROVE Leaves(l, state, kind)'
    BY <1>0, <2>1, <2>3 DEF Leaves, Owns
  <2>4. OutOfPlay(l)'
    BY <2>1, <2>3, KindsDiffer, Zenon DEF OutOfPlay, Once
  <2> QED BY <2>1, <2>2, <2>4, Zenon DEF InEpoch
<1>5. JournalInv'
  BY <1>0, KindsDiffer, Zenon DEF Record, JournalInv, ValidJournal
<1>6. DiskInv'
  <2> SUFFICES ASSUME NEW a \in final \ denied
               PROVE  \/ lineage'[a[1]].state = "ABSENT"
                      \/ lineage'[a[1]].state = "PUBLISHED" /\ Len(lineage'[a[1]].proposals) = a[2]
    BY <1>0, Zenon DEF DiskInv, PublishedIsAccounted, Record
  <2>1. a[1] \in Lineages BY Zenon DEF Record, DiskInv
  <2>2. \/ lineage[a[1]].state = "ABSENT"
        \/ lineage[a[1]].state = "PUBLISHED" /\ Len(lineage[a[1]].proposals) = a[2]
    BY <1>0, KindsDiffer, Zenon DEF Record, DiskInv, PublishedIsAccounted
  <2> QED BY <2>1, <2>2, Zenon DEF Live, RowMoves
<1> QED BY <1>1, <1>2, <1>3, <1>4, <1>5, <1>6, Zenon DEF Record

LEMMA TakeKeeps ==
  ASSUME DeskInv, Take \/ Commit
  PROVE DeskInv'
<1>1. /\ UNCHANGED <<lineage, opened, final, denied, asked, job, mode>> /\ global.journal.kind = None
      /\ global.fence \in {"FREE", "LEASE"}
      /\ \E f \in {"LEASE", "PURGE", "COMMITTING"} : global' = [global EXCEPT !.fence = f]
  BY DEF Take, Commit, Others, Free
<1>2. Record /\ FenceInv /\ Touches
  BY Handing, Zenon DEF DeskInv, Record
<1>3. PICK f \in {"LEASE", "PURGE", "COMMITTING"} : global' = [global EXCEPT !.fence = f]
  BY <1>1
<1>4. Handed BY <1>1, <1>2, <1>3, HandedFields DEF Handed
<1>5. World("others") /\ Record'
  BY <1>1, <1>2, <1>4, HandedKept, Zenon DEF Record, RowsInv
<1> QED BY <1>1, <1>5, OthersKeep, Zenon DEF DeskInv, QueueOK

LEMMA PurgeKeeps ==
  ASSUME DeskInv, Purge
  PROVE DeskInv'
<1>1. UNCHANGED <<opened, final, denied, asked, job, mode>> /\ global.fence = "PURGE"
  BY Zenon DEF Purge, Others
<1>2. Record /\ FenceInv /\ Touches /\ global.journal.kind = None
  BY <1>1, Handing, Zenon DEF DeskInv, Record, FenceInv, OneOwner
<1>3. ASSUME NEW l \in Lineages, lineage[l].state # "ABSENT",
             lineage' = [lineage EXCEPT ![l] = Absent], UNCHANGED global
      PROVE World("others") /\ Record'
  <2>1. Handed BY <1>1, <1>2, <1>3 DEF Handed, Record, GlobalTypes
  <2>2. lineage' \in [Lineages -> Lineage] /\ lineage'[l] = Absent
        /\ \A k \in Lineages : k # l => lineage'[k] = lineage[k]
    BY <1>2, <1>3, AbsentRow DEF Record, RowsInv
  <2>3. Live(l) /\ ~Live(l)' BY <1>3, <2>2, AbsentRow, Zenon DEF Live
  <2>4. RowMoves("others", l) /\ RowInv(l)'
    BY <1>1, <1>3, <2>3, Zenon DEF RowMoves, RowInv
  <2> QED BY <1>2, <2>1, <2>2, <2>3, <2>4, HandedKept, Zenon
<1>4. ASSUME global' = [global EXCEPT !.fence = "FREE", !.epoch = @ + 1], UNCHANGED lineage
      PROVE World("others") /\ Record'
  <2>1. global'.journal = global.journal /\ global'.fence = "FREE"
        /\ global'.epoch = global.epoch + 1
    BY <1>2, <1>4, HandedFields
  <2>2. Handed BY <1>1, <1>2, <2>1 DEF Handed, Record, GlobalTypes
  <2> QED BY <1>2, <1>4, <2>2, HandedKept, Zenon DEF Record, RowsInv
<1>5. World("others") /\ Record' BY <1>3, <1>4, Zenon DEF Purge
<1> QED BY <1>1, <1>5, OthersKeep, Zenon DEF DeskInv, QueueOK

(* A lineage that was being refreshed has a proposal again. *)
Regrows(ln, m, p) ==
    /\ m \in Lineage /\ m.state = "ACTIVE" /\ m.actions = << >>
    /\ m.revision = ln.revision + 1 /\ DOMAIN m.proposals = 1..(Len(ln.proposals) + 1)
    /\ Len(m.proposals) = Len(ln.proposals) + 1
    /\ \A i \in 1..Len(ln.proposals) : m.proposals[i] = ln.proposals[i]
    /\ m.proposals[Len(ln.proposals) + 1] = p
LEMMA RegrownFields ==
  ASSUME NEW ln \in Lineage, NEW p \in Proposal
  PROVE Regrows(ln, Regrown(ln, p), p)
<1> DEFINE ps == Append(ln.proposals, p)
           f == [ln EXCEPT !.revision = @ + 1]
           g == [f EXCEPT !.state = "ACTIVE"]
           h == [g EXCEPT !.intent = "READY"]
           i == [h EXCEPT !.proposals = ps]
           m == [i EXCEPT !.actions = << >>]
<1>1. Regrown(ln, p) = m BY DEF Regrown
<1>2. /\ ps \in Seq(Proposal) /\ Len(ps) = Len(ln.proposals) + 1
      /\ DOMAIN ps = 1..(Len(ln.proposals) + 1)
      /\ \A k \in 1..Len(ln.proposals) : ps[k] = ln.proposals[k]
      /\ ps[Len(ln.proposals) + 1] = p
  <2>1. ln.proposals \in Seq(Proposal) BY RowFields, Zenon
  <2> QED BY <2>1
<1> HIDE DEF ps
<1>3. f \in Lineage /\ f.revision = ln.revision + 1 BY DEF Lineage
<1> HIDE DEF f
<1>4. g \in Lineage /\ g.revision = f.revision /\ g.state = "ACTIVE"
  BY <1>3 DEF Lineage
<1> HIDE DEF g
<1>5. h \in Lineage /\ h.revision = g.revision /\ h.state = g.state
  BY <1>4 DEF Lineage
<1> HIDE DEF h
<1>6. i \in Lineage /\ i.revision = h.revision /\ i.state = h.state /\ i.proposals = ps
  BY <1>2, <1>5 DEF Lineage
<1> HIDE DEF i
<1>7. << >> \in Seq(Action) OBVIOUS
<1>8. /\ m \in Lineage /\ m.revision = i.revision /\ m.state = i.state
      /\ m.proposals = i.proposals /\ m.actions = << >>
  BY <1>6, <1>7 DEF Lineage
<1> HIDE DEF m
<1>9. m.revision = ln.revision + 1 /\ m.state = "ACTIVE" /\ m.proposals = ps
  BY <1>3, <1>4, <1>5, <1>6, <1>8
<1> QED BY <1>1, <1>2, <1>8, <1>9, Zenon DEF Regrows

LEMMA RegrowsValid ==
  ASSUME NEW ln \in Lineage, ValidLineage(ln), Len(ln.proposals) = 1,
         NEW p \in Proposal, ValidProposal(p), p.by = 0, p.state = "ACTIVE",
         NEW m, Regrows(ln, m, p)
  PROVE ValidLineage(m)
<1> PICK n : n = Len(ln.proposals) OBVIOUS
<1>0. DOMAIN ln.proposals = 1..n /\ n \in Nat /\ n = 1 BY RowFields
<1>1. /\ DOMAIN m.proposals = 1..(n + 1) /\ Len(m.proposals) = n + 1 /\ m.proposals[n + 1] = p
      /\ \A i \in 1..n : m.proposals[i] = ln.proposals[i]
      /\ m.state = "ACTIVE" /\ m.actions = << >>
  BY DEF Regrows
<1>2. ValidActions(m)
  <2>1. DOMAIN m.actions = {} BY <1>1
  <2> QED BY <2>1, Zenon DEF ValidActions
<1>3. ValidSources(m)
  <2>1. ASSUME NEW i \in DOMAIN m.proposals PROVE m.proposals[i].by = 0
    <3>1. i = 1 \/ i = n + 1 BY <1>0, <1>1, <2>1
    <3>2. 1 \in DOMAIN ln.proposals /\ m.proposals[1] = ln.proposals[1]
      BY <1>0, <1>1
    <3>3. ln.proposals[1].by = 0 BY <3>2 DEF ValidLineage, ValidSources
    <3> QED BY <1>1, <3>1, <3>2, <3>3
  <2> QED BY <2>1, Zenon DEF ValidSources
<1>4. \A i \in DOMAIN m.proposals : ValidProposal(m.proposals[i])
  <2>1. \A i \in DOMAIN ln.proposals : ValidProposal(ln.proposals[i])
    BY DEF ValidLineage
  <2> QED BY <1>0, <1>1, <2>1
<1>5. Last(m) = p /\ m.proposals # << >> BY <1>0, <1>1 DEF Last
<1>6. /\ Last(m).state = IF m.state = "REFRESHING" THEN "SUPERSEDED" ELSE m.state
      /\ m.state # "PUBLISHED" /\ m.state # "TERMINAL"
  BY <1>1, <1>5
<1> QED BY <1>2, <1>3, <1>4, <1>5, <1>6, Zenon DEF ValidLineage

LEMMA RegrownRow ==
  ASSUME Record, global.journal.kind = None, global'.journal = global.journal,
         global'.epoch = global.epoch + 1, NEW l \in Lineages, lineage[l].state = "REFRESHING",
         NEW p \in Proposal, ValidProposal(p), p.by = 0, p.state = "ACTIVE",
         p.epoch = global.epoch + 1, Regrows(lineage[l], lineage'[l], p)
  PROVE RowMoves("others", l) /\ RowInv(l)'
<1> PICK ln : ln = lineage[l] OBVIOUS
<1> PICK m : m = lineage'[l] OBVIOUS
<1>0. Live(l) BY DEF Live
<1>1. /\ ln \in Lineage /\ ValidLineage(ln) /\ InEpoch(l) /\ OutOfPlay(l) /\ ln.revision \in Nat
      /\ Len(ln.proposals) \in Nat /\ Last(ln).epoch \in Nat /\ global.epoch \in Nat
  BY <1>0, RowAlone, RowFields, LastField DEF Record, GlobalTypes
<1>2. /\ m \in Lineage /\ m.state = "ACTIVE" /\ m.revision = ln.revision + 1
      /\ Len(m.proposals) = Len(ln.proposals) + 1 /\ Last(m) = p
  BY DEF Regrows, Last
<1>3. ValidLineage(m)
  <2>1. Len(ln.proposals) = 1 BY <1>1, Zenon DEF OutOfPlay, Once
  <2> QED BY <1>1, <2>1, RegrowsValid, Zenon
<1>4. Last(ln).epoch <= global.epoch
  BY <1>1, KindsDiffer, Zenon DEF InEpoch
<1>5. AsRead(ln, m) /\ Follows(ln, m) /\ Longer(ln, m)
  BY <1>1, <1>2, <1>4 DEF AsRead, Follows, Longer
<1>6. StateMoves("others", ln, m) BY <1>2, <1>5 DEF StateMoves, Journals
<1>7. Grows("others", ln, m) BY <1>2, <1>5, <1>6, Zenon DEF Grows
<1>8. Live(l)' BY <1>2 DEF Live
<1>9. RowMoves("others", l) BY <1>0, <1>7, <1>8, Zenon DEF RowMoves
<1>10. InEpoch(l)' BY <1>1, <1>2 DEF InEpoch
<1>11. OutOfPlay(l)' BY <1>2 DEF OutOfPlay, Once, Leaves
<1> QED BY <1>3, <1>9, <1>10, <1>11, Zenon DEF RowInv

LEMMA ReleaseKeeps ==
  ASSUME DeskInv, Release
  PROVE DeskInv'
<1>1. UNCHANGED <<opened, final, denied, asked, job, mode>> /\ global.fence \in {"LEASE", "COMMITTING"}
      /\ global.journal.kind = None
  BY Zenon DEF Release, Others
<1>2. Record /\ FenceInv /\ Touches
  BY Handing, Zenon DEF DeskInv, Record
<1>3. ASSUME UNCHANGED lineage, \/ global' = [global EXCEPT !.fence = "FREE"]
                                \/ global' = [global EXCEPT !.fence = "FREE", !.epoch = @ + 1]
      PROVE World("others") /\ Record'
  <2>1. Handed BY <1>1, <1>2, <1>3, HandedFields DEF Handed
  <2> QED BY <1>2, <1>3, <2>1, HandedKept, Zenon DEF Record, RowsInv
<1>4. ASSUME global' = [global EXCEPT !.fence = "FREE", !.epoch = @ + 1], NEW l \in Lineages,
             lineage[l].state = "REFRESHING",
             lineage' = [lineage EXCEPT ![l] = Regrown(lineage[l], NewProposal(global.epoch + 1, 0))]
      PROVE World("others") /\ Record'
  <2> PICK p : p = NewProposal(global.epoch + 1, 0) OBVIOUS
  <2>1. /\ global'.journal = global.journal /\ global'.fence = "FREE"
        /\ global'.epoch = global.epoch + 1
    BY <1>2, <1>4, HandedFields
  <2>2. Handed BY <1>1, <1>2, <2>1 DEF Handed, Record, GlobalTypes
  <2>3. /\ p \in Proposal /\ ValidProposal(p) /\ p.by = 0 /\ p.state = "ACTIVE"
        /\ p.epoch = global.epoch + 1
    <3>1. global.epoch + 1 \in Nat /\ 0 \in Nat
      BY <1>2 DEF Record, GlobalTypes
    <3> QED BY <3>1, FreshProposal
  <2>4. Regrows(lineage[l], Regrown(lineage[l], p), p)
    BY <1>2, <1>4, <2>3, RowAlone, RegrownFields, Zenon DEF Record
  <2> PICK m : m = Regrown(lineage[l], p) OBVIOUS
  <2>5. m \in Lineage BY <2>4, Zenon DEF Regrows
  <2>6. lineage' = [lineage EXCEPT ![l] = m] BY <1>4, Zenon
  <2>7. lineage' \in [Lineages -> Lineage] /\ lineage'[l] = m
        /\ \A k \in Lineages : k # l => lineage'[k] = lineage[k]
    BY <1>2, <2>5, <2>6 DEF Record, RowsInv
  <2>8. Regrows(lineage[l], lineage'[l], p) BY <2>4, <2>7, Zenon
  <2>9. RowMoves("others", l) /\ RowInv(l)' /\ lineage[l].state # "PUBLISHED"
    BY <1>1, <1>2, <1>4, <2>1, <2>3, <2>8, RegrownRow
  <2> QED BY <1>2, <2>2, <2>7, <2>9, HandedKept, Zenon
<1>5. World("others") /\ Record'
  <2>1. \/ UNCHANGED lineage /\ \/ global' = [global EXCEPT !.fence = "FREE"]
                                \/ global' = [global EXCEPT !.fence = "FREE", !.epoch = @ + 1]
        \/ /\ global' = [global EXCEPT !.fence = "FREE", !.epoch = @ + 1]
           /\ \E l \in Lineages :
                 /\ lineage[l].state = "REFRESHING"
                 /\ lineage' = [lineage EXCEPT ![l] =
                        Regrown(lineage[l], NewProposal(global.epoch + 1, 0))]
    <3>1. CASE global.fence = "LEASE" BY <3>1, Zenon DEF Release
    <3>2. CASE global.fence # "LEASE"
      <4>1. global' = [global EXCEPT !.fence = "FREE", !.epoch = @ + 1]
        BY <3>2, Zenon DEF Release
      <4>2. ASSUME ~UNCHANGED lineage
            PROVE  \E l \in Lineages :
                      /\ lineage[l].state = "REFRESHING"
                      /\ lineage' = [lineage EXCEPT ![l] =
                            Regrown(lineage[l], NewProposal(global.epoch + 1, 0))]
        BY <3>2, <4>2, Zenon DEF Release, Regrown
      <4> QED BY <4>1, <4>2, Zenon
    <3> QED BY <3>1, <3>2
  <2> QED BY <1>3, <1>4, <2>1, Zenon
<1> QED BY <1>1, <1>5, OthersKeep, Zenon DEF DeskInv, QueueOK

----
(* The process stops: nobody knows anything, and an attempt may have gone on. *)
LEMMA CrashRecord ==
  ASSUME DeskInv, Crash
  PROVE Record'
<1> PICK j : j = job["publication"] OBVIOUS
<1> PICK a : a = Attempt(j) OBVIOUS
<1>0. UNCHANGED <<global, lineage, denied>> /\ Record
  BY Zenon DEF Crash, DeskInv
<1>1. CASE j.at = "install"
  <2>1. PICK d \in Later(DiskOf(a)) : Reaches(a, d)
    BY <1>1, Zenon DEF Crash
  <2>2. j.at \in Attempting BY <1>1 DEF Attempting
  <2>3. j.l \in Lineages /\ global.journal.phase = "EXECUTING"
    BY <1>1, <2>2, AttemptingPublishes, PublicationAt
  <2>4. Journals("PUBLICATION") /\ global.journal.owner = Owner(j) /\ global.journal.epoch = j.epoch
    BY <2>2, AttemptFacts
  <2>5. /\ a = <<a[1], a[2], a[3]>> /\ a[1] = j.l /\ <<a[1], a[2]>> = Owner(j) /\ a[3] = j.epoch
    BY DEF Attempt, Owner
  <2> QED BY <1>0, <2>1, <2>3, <2>4, <2>5, DiskKept, Zenon DEF Journals
<1>2. CASE j.at # "install"
  <2>1. UNCHANGED <<opened, final, denied>> BY <1>2, Zenon DEF Crash
  <2> QED BY <1>0, <2>1, AsideKept, Zenon
<1> QED BY <1>1, <1>2

LEMMA CrashKeeps ==
  ASSUME DeskInv, Crash
  PROVE DeskInv'
<1>1. job' = [c \in Coordinators |-> Idle] /\ mode' = "refresh" /\ asked' = {}
  BY Zenon DEF Crash
<1>2. \A c \in Coordinators : job'[c] = Idle BY <1>1, Zenon
<1>3. JobsOK' BY <1>1, <1>2, IdleJob, Zenon DEF JobsOK
<1>4. QueueOK' BY <1>1 DEF QueueOK, Modes, Coordinators
<1>5. \A c \in Coordinators : Knows(c)' BY <1>2, IdleKnows, Zenon
<1> QED BY <1>3, <1>4, <1>5, CrashRecord, Zenon DEF DeskInv

----
(* The invariant holds at first and ever after. *)
LEMMA FirstRow ==
  LET ln == [Absent EXCEPT !.state = "ACTIVE", !.proposals = <<NewProposal(0, 0)>>]
  IN  /\ ln \in Lineage /\ ln.state = "ACTIVE" /\ ValidLineage(ln) /\ Last(ln).epoch = 0
<1> DEFINE p == NewProposal(0, 0)
           h == [Absent EXCEPT !.state = "ACTIVE"]
           ln == [h EXCEPT !.proposals = <<p>>]
<1>1. p \in Proposal /\ ValidProposal(p) /\ p.state = "ACTIVE" /\ p.epoch = 0 /\ p.by = 0
  BY FreshProposal
<1> HIDE DEF p
<1>2. h \in Lineage /\ h.state = "ACTIVE" /\ h.actions = << >>
  <2>1. << >> \in Seq(Proposal) /\ << >> \in Seq(Action) OBVIOUS
  <2> QED BY <2>1 DEF Absent, Lineage
<1> HIDE DEF h
<1>3. ln \in Lineage /\ ln.state = "ACTIVE" /\ ln.actions = << >> /\ ln.proposals = <<p>>
  <2>1. <<p>> \in Seq(Proposal) BY <1>1
  <2> QED BY <1>2, <2>1 DEF Lineage
<1>4. [Absent EXCEPT !.state = "ACTIVE", !.proposals = <<NewProposal(0, 0)>>] = ln
  BY DEF h, p
<1> HIDE DEF ln
<1>5. /\ Len(ln.proposals) = 1 /\ DOMAIN ln.proposals = {1} /\ ln.proposals[1] = p
      /\ DOMAIN ln.actions = {} /\ ln.proposals # << >>
  BY <1>3
<1>6. Last(ln) = p BY <1>5 DEF Last
<1>7. ValidActions(ln) /\ ValidSources(ln)
  BY <1>1, <1>5 DEF ValidActions, ValidSources
<1>8. \A i \in DOMAIN ln.proposals : ValidProposal(ln.proposals[i])
  BY <1>1, <1>5
<1>9. /\ Last(ln).state = IF ln.state = "REFRESHING" THEN "SUPERSEDED" ELSE ln.state
      /\ ln.state # "PUBLISHED" /\ ln.state # "TERMINAL"
  BY <1>1, <1>3, <1>6
<1>10. ValidLineage(ln)
  BY <1>5, <1>7, <1>8, <1>9, Zenon DEF ValidLineage
<1> QED BY <1>1, <1>3, <1>4, <1>6, <1>10, Zenon

LEMMA InitDesk ==
  ASSUME Init
  PROVE DeskInv
<1>1. /\ global = [epoch |-> 0, journal |-> NoJournal, fence |-> "FREE"]
      /\ opened = {} /\ final = {} /\ denied = {} /\ mode = "up" /\ asked = {}
      /\ job = [c \in Coordinators |-> Idle]
  BY Zenon DEF Init
<1>2. global.epoch = 0 /\ global.journal = NoJournal /\ global.fence = "FREE"
  BY <1>1
<1>3. NoJournal.kind = None /\ NoJournal.phase = "PREPARED" /\ NoJournal.code = None
  BY DEF NoJournal
<1>4. FenceInv BY InitFence
<1>5. GlobalTypes BY <1>2, <1>3 DEF GlobalTypes
<1>6. RowsInv
  <2> PICK first : first = [Absent EXCEPT !.state = "ACTIVE", !.proposals = <<NewProposal(0, 0)>>]
    OBVIOUS
  <2>1. first \in Lineage /\ first.state = "ACTIVE" /\ ValidLineage(first) /\ Last(first).epoch = 0
    BY FirstRow
  <2>2. lineage = [l \in Lineages |-> first] BY Zenon DEF Init
  <2>3. ASSUME NEW l \in Lineages
        PROVE /\ lineage[l] \in Lineage /\ ValidLineage(lineage[l]) /\ InEpoch(l) /\ OutOfPlay(l)
    <3>1. lineage[l] = first BY <2>2, <2>3
    <3> QED BY <1>2, <2>1, <3>1 DEF InEpoch, OutOfPlay, Leaves, Once
  <2> QED BY <2>1, <2>2, <2>3, Zenon DEF RowsInv, RowInv
<1>7. JournalInv BY <1>2, <1>3 DEF JournalInv, ValidJournal, None
<1>8. DiskInv BY <1>1 DEF DiskInv, PublishedIsAccounted
<1>9. \A c \in Coordinators : job[c] = Idle BY <1>1, Zenon
<1>10. JobsOK BY <1>1, <1>9, IdleJob, Zenon DEF JobsOK
<1>11. QueueOK BY <1>1 DEF QueueOK, Modes
<1>12. \A c \in Coordinators : Knows(c)
  BY <1>9, IdleJob DEF Knows, Coordinators, ReviewInv, PublicationInv, RefreshInv, RevisionInv,
                       Attempting
<1> QED BY <1>4, <1>5, <1>6, <1>7, <1>8, <1>10, <1>11, <1>12, Zenon DEF DeskInv, Record

LEMMA NextDesk ==
  ASSUME DeskInv, [Next]_vars
  PROVE DeskInv'
<1>1. CASE UNCHANGED vars
  <2>1. /\ UNCHANGED <<global, lineage, opened, final, denied>> /\ UNCHANGED mode
        /\ UNCHANGED asked /\ UNCHANGED job
    BY <1>1, Zenon DEF vars
  <2>2. World("others") /\ Record' BY <2>1, AsideKept, Zenon DEF DeskInv
  <2>3. QueueOK' BY <2>1, Zenon DEF DeskInv, QueueOK
  <2> QED BY <2>1, <2>2, <2>3, OthersKeep
<1>2. CASE Environment
  BY <1>2, AskKeeps, TakeKeeps, ReleaseKeeps, PurgeKeeps, CrashKeeps, Zenon DEF Environment
<1>3. CASE Desk
  BY <1>3, BeginKeeps, RestoreKeeps, ReviewKeeps, PublicationKeeps, RefreshKeeps, RevisionKeeps,
     Zenon DEF Desk
<1> QED BY <1>1, <1>2, <1>3, Zenon DEF Next

(* What the four coordinators know of the lineages they have read, of the journal
   and of the disk stays right through every interleaving of their steps with
   each other, with generation and purge, and with failed writes and crashes:
   the inductive invariant of the desk
   (the checks of v2-proposal-review, v2-proposal-publication, v2-proposal-refresh
   and v2-proposal-revision around each of their awaits).                    *)
THEOREM DeskIsInductive == Spec => []DeskInv
<1>1. Init => DeskInv BY InitDesk
<1>2. DeskInv /\ [Next]_vars => DeskInv' BY NextDesk
<1> QED BY <1>1, <1>2, PTL DEF Spec

(* Types of the desk: every coordinator is at a step of its program, and a file is
   final only of an attempt that has reached the disk.                       *)
THEOREM DeskTypes == Spec => []TypeOK
<1>1. DeskInv => TypeOK
  BY DEF DeskInv, Record, GlobalTypes, RowsInv, DiskInv, JobsOK, JobOK, Job, QueueOK, Modes,
         TypeOK
<1> QED BY <1>1, DeskIsInductive, PTL

(* No order of reviews, publications, refreshes and revisions, interrupted and
   recovered anywhere, composes a lineage row or a journal that the schema of the
   store refuses (NativeProposalLineageV2Schema, parsed at every write and read):
   a row that could never be written, and an operation that could never end. *)
THEOREM RowsStayValid == Spec => []RowsAreValid
<1>1. DeskInv => RowsAreValid
  BY Zenon DEF DeskInv, Record, RowsInv, RowInv, JournalInv, RowsAreValid, Live
<1> QED BY <1>1, DeskIsInductive, PTL

(* A skill file that is final is accounted for: its lineage is published, or the
   journal of its attempt is open and will be reconciled, or the lineage was
   purged (execute and reconcile of V2ProposalPublicationCoordinator).  The one
   exception is the code's own, named in the property: a file whose attempt was
   last answered STALE, for a root that changed, though it is final.        *)
THEOREM FinalIsAccounted == Spec => []PublishedIsAccounted
<1>1. DeskInv => PublishedIsAccounted
  BY Zenon DEF DeskInv, Record, DiskInv
<1> QED BY <1>1, DeskIsInductive, PTL

----
(* The disk is reached by an attempt that runs, and by nothing else. *)
Reviewed(a) ==
    /\ lineage[a[1]].state = "ACTIVE" /\ Len(lineage[a[1]].proposals) = a[2]
    /\ Last(lineage[a[1]]).decision = "APPROVED"
    /\ Last(lineage[a[1]]).epoch = global.epoch

LEMMA AttemptIsReviewed ==
  ASSUME DeskInv, NEW j, j = job["publication"], j.at = "install", NEW d, Reaches(Attempt(j), d),
         NEW a \in opened' \ opened
  PROVE Reviewed(a)
<1>1. j.at \in Attempting BY DEF Attempting
<1>2. /\ Live(j.l) /\ Len(lineage[j.l].proposals) = j.ref
      /\ lineage[j.l].state = "ACTIVE" /\ Last(lineage[j.l]).decision = "APPROVED"
      /\ Journals("PUBLICATION") /\ global.journal.owner = Owner(j)
  BY <1>1, AttemptFacts
<1>3. Approved(Owner(j))
  BY <1>2, Zenon DEF DeskInv, Record, JournalInv, Journals
<1>4. Owner(j)[1] = j.l BY DEF Owner
<1>5. Last(lineage[j.l]).epoch = global.epoch
  BY <1>3, <1>4, Zenon DEF Approved
<1>6. a = Attempt(j) BY DEF Reaches
<1>7. a[1] = j.l /\ a[2] = j.ref BY <1>6 DEF Attempt
<1> QED BY <1>2, <1>5, <1>7, Zenon DEF Reviewed

LEMMA AskedIsOpen ==
  ASSUME AskDisk
  PROVE opened' = opened
<1> PICK a : a = Attempt(job["publication"]) OBVIOUS
<1>1. PICK d \in IF a \in opened THEN Later(DiskOf(a)) ELSE {"UNTOUCHED"} : Reaches(a, d)
  BY Zenon DEF AskDisk
<1> QED BY <1>1 DEF Reaches

LEMMA OpenedElsewhere ==
  ASSUME Next, ~Install, ~AskDisk, ~Crash
  PROVE opened' = opened
<1>1. CASE Environment
  BY <1>1, Zenon DEF Environment, Ask, Take, Commit, Release, Purge, Others
<1>2. CASE \E c \in Coordinators : Begin(c) \/ Restore(c)
  BY <1>2, Zenon DEF Begin, Restore, At
<1>3. CASE Review
  BY <1>3, Zenon DEF Review, Inspect, Relieve, Approve, Attention, PrepareReview, Decide,
     ClearReview, CommitReview, CloseReview, RecoverReview, Returned, At
<1>4. CASE Publication
  BY <1>4, Zenon DEF Publication, Publish, PreparePublication, Execute, Refuse, RecordFailure,
     RecordRefusal, ClearAttempt, PublishRow, CommitAttempt, Reconcile, Unexecute, Recheck, At
<1>5. CASE Refresh
  BY <1>5, Zenon DEF Refresh, PrepareRefresh, Supersede, Recall, CommitRefresh, RecoverRefresh, At
<1>6. CASE Revision
  BY <1>6, Zenon DEF Revision, Revise, ReserveCall, Call, RecheckRevision, PrepareRevision, Child,
     Settle, Salvage, MarkFailed, ForgetCalls, At
<1> QED BY <1>1, <1>2, <1>3, <1>4, <1>5, <1>6, Zenon DEF Next, Desk

LEMMA OpenedIsReviewed ==
  ASSUME DeskInv, [Next]_vars
  PROVE \A a \in opened' \ opened : Reviewed(a)
<1>1. CASE UNCHANGED vars BY <1>1, Zenon DEF vars
<1> PICK j : j = job["publication"] OBVIOUS
<1>2. CASE Install
  <2>1. j.at = "install" /\ \E d : Reaches(Attempt(j), d)
    BY <1>2, Zenon DEF Install, Awaits
  <2> QED BY <2>1, AttemptIsReviewed, Zenon
<1>3. CASE Crash
  <2>1. CASE j.at = "install"
    <3>1. \E d : Reaches(Attempt(j), d) BY <1>3, <2>1, Zenon DEF Crash
    <3> QED BY <2>1, <3>1, AttemptIsReviewed, Zenon
  <2>2. CASE j.at # "install" BY <1>3, <2>2, Zenon DEF Crash
  <2> QED BY <2>1, <2>2
<1> QED BY <1>1, <1>2, <1>3, AskedIsOpen, OpenedElsewhere, Zenon

(* The disk is reached only by an attempt of the lineage's latest proposal, that
   the user has approved, at the epoch of the catalog it was made for, whatever
   was asked, revised, refreshed, lost or recovered in between
   (execute of V2ProposalPublicationCoordinator, after the journal is EXECUTING). *)
THEOREM OnlyReviewedIsWritten == Spec => WriteIsReviewed
<1>1. DeskInv /\ [Next]_vars => [\A a \in opened' \ opened : Reviewed(a)]_vars
  BY OpenedIsReviewed
<1>2. [\A a \in opened' \ opened : Reviewed(a)]_vars <=>
      [\A a \in opened' \ opened :
          /\ lineage[a[1]].state = "ACTIVE" /\ Len(lineage[a[1]].proposals) = a[2]
          /\ Last(lineage[a[1]]).decision = "APPROVED"
          /\ Last(lineage[a[1]]).epoch = global.epoch]_vars
  BY Zenon DEF Reviewed
<1> QED BY <1>1, <1>2, DeskIsInductive, PTL DEF Spec, WriteIsReviewed

====
