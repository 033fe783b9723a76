---------------------------- MODULE ProposalDesk ----------------------------
(***************************************************************************)
(* The desk: what a user does with a proposal.  Four coordinators review,  *)
(* publish, refresh and revise; each runs one operation at a time, all of  *)
(* them run beside each other, and every one reads a lineage, awaits the   *)
(* catalog, the model or the disk, and then writes the lineage row and the *)
(* global record in separate writes.  A journal in the global record is    *)
(* prepared first, and after a crash the four recoveries, one after the    *)
(* other, finish or drop what the journal names.                           *)
(*                                                                         *)
(* A proposal is named by its lineage and its position there: the digest   *)
(* in a reference binds what never changes.  The digest of the last        *)
(* mutation stands and falls with the epoch.  What an attempt does to the  *)
(* disk is PublicationAttempt, which SkillFile implements.                 *)
(***************************************************************************)
EXTENDS Integers, Sequences

CONSTANTS
    Lineages,          \* the lineages
    Operations,        \* what the user may do
    Ids,               \* identifiers of revision actions, made by the client
    MaxAsks,           \* bound: requests of the user
    MaxElsewhere,      \* bound: leases and purges taken by others
    MaxFaults,         \* bound: writes that fail, applied or not
    MaxCrashes         \* bound: crashes

ASSUME ProposalDeskAssumption ==
    /\ Operations \subseteq {"inspect", "approve", "reject", "retry", "refresh", "revise"}
    /\ Ids \subseteq Nat \ {0}
    /\ {MaxAsks, MaxElsewhere, MaxFaults, MaxCrashes} \subseteq Nat

None == "NONE"
Codes == {"CATALOG_CHANGED", "CATALOG_UNAVAILABLE", "PUBLICATION_UNAVAILABLE",
          "PUBLICATION_CONFLICT"}
Coordinators == {"refresh", "revision", "review", "publication"}

Proposal == [state : {"ACTIVE", "SUPERSEDED", "TERMINAL", "PUBLISHED"},
             decision : {None, "APPROVED", "REJECTED"},
             review : Codes \cup {None}, publication : Codes \cup {None},
             epoch : Nat, by : Nat]
Action == [id : Ids, parent : Nat,
           state : {"CALL_RESERVED", "SUCCEEDED", "FAILED", "OUTCOME_UNKNOWN"}]
Lineage == [state : {"ACTIVE", "REFRESHING", "PUBLISHED", "TERMINAL", "ABSENT"},
            revision : Nat, intent : {"READY", "RECALLING"},
            proposals : Seq(Proposal), actions : Seq(Action)]

NewProposal(epoch, by) ==
    [state |-> "ACTIVE", decision |-> None, review |-> None, publication |-> None,
     epoch |-> epoch, by |-> by]
Absent == [state |-> "ABSENT", revision |-> 0, intent |-> "READY",
           proposals |-> << >>, actions |-> << >>]

(* The journal: whose mutation, of which proposal or revision action, begun at
   which epoch.                                                              *)
NoJournal == [kind |-> None, owner |-> <<0, 0>>, phase |-> "PREPARED", epoch |-> 0,
              code |-> None]

VARIABLES
    global,     \* epoch, journal, and who else holds the catalog: the "fence"
    lineage,    \* the lineage rows, each with the state of its intent
    opened,     \* the attempts that have reached the disk
    final,      \* those whose skill file is final
    denied,     \* history: those of them last answered STALE, for a root that changed
    mode,       \* "up", the coordinator that recovers, or "failed"
    asked,      \* requests that wait for their coordinator
    job,        \* what each coordinator is doing
    asks, elsewhere, faults, crashes

vars == <<global, lineage, opened, final, denied, mode, asked, job, asks, elsewhere, faults,
          crashes>>

(* One operation: its next step, its request, and what it has read. *)
Idle == [at |-> "idle", op |-> None, l |-> 0, ref |-> 0, id |-> 0, epoch |-> 0,
         code |-> None, seen |-> Absent, parent |-> NewProposal(0, 0)]

Init ==
    /\ global = [epoch |-> 0, journal |-> NoJournal, fence |-> "FREE"]
    /\ lineage = [l \in Lineages |->
          [Absent EXCEPT !.state = "ACTIVE", !.proposals = <<NewProposal(0, 0)>>]]
    /\ opened = {} /\ final = {} /\ denied = {}
    /\ mode = "up" /\ asked = {}
    /\ job = [c \in Coordinators |-> Idle]
    /\ asks = 0 /\ elsewhere = 0 /\ faults = 0 /\ crashes = 0

----
Last(ln) == ln.proposals[Len(ln.proposals)]
Pending(ln) == ln.actions # << >> /\ ln.actions[Len(ln.actions)].state = "CALL_RESERVED"
Owner(j) == <<j.l, j.ref>>
Free == global.fence = "FREE" /\ global.journal.kind = None
Owns(kind, owner) == global.journal.kind = kind /\ global.journal.owner = owner
Prepared(kind, owner) ==
    [global EXCEPT !.journal = [NoJournal EXCEPT !.kind = kind, !.owner = owner,
                                                 !.epoch = global.epoch]]
Committed == [global EXCEPT !.journal = NoJournal, !.epoch = @ + 1]
Dropped == [global EXCEPT !.journal = NoJournal]
Amended(ln, p) ==
    [ln EXCEPT !.revision = @ + 1, !.proposals[Len(ln.proposals)] = p]

(* A revision action changes its state. *)
Marked(ln, id, state) ==
    [ln EXCEPT !.actions = [k \in DOMAIN ln.actions |->
        IF ln.actions[k].id = id THEN [ln.actions[k] EXCEPT !.state = state]
        ELSE ln.actions[k]]]
Acts(ln, id) == {k \in DOMAIN ln.actions : ln.actions[k].id = id}

Refreshable(ln) ==
    /\ ln.state = "ACTIVE" /\ Len(ln.proposals) = 1
    /\ IF Last(ln).decision = None THEN Last(ln).review = "CATALOG_CHANGED"
       ELSE /\ Last(ln).decision = "APPROVED"
            /\ Last(ln).publication \in {"CATALOG_CHANGED", "PUBLICATION_CONFLICT"}

Publishable(ln, outcomeUnknown) ==
    /\ ln.state = "ACTIVE" /\ Last(ln).decision = "APPROVED"
    /\ \/ outcomeUnknown
       \/ Last(ln).publication \notin {"CATALOG_CHANGED", "PUBLICATION_CONFLICT"}

Revisable(ln) ==
    /\ ln.state = "ACTIVE" /\ Last(ln).state = "ACTIVE"
    /\ \A k \in DOMAIN ln.actions : ln.actions[k].state # "CALL_RESERVED"

----
(* What the user is offered, by the state of the lineage as it is now. *)
Offered(ln) ==
    IF ln.state # "ACTIVE" THEN {}
    ELSE LET p == Last(ln)
             failure == IF p.decision = None THEN p.review ELSE p.publication
             look == IF p.decision = None /\ ~Pending(ln) THEN {"inspect"} ELSE {}
         IN  IF failure \in {"CATALOG_CHANGED", "PUBLICATION_CONFLICT"}
             THEN IF Len(ln.proposals) > 1 THEN {} ELSE look \cup {"refresh"}
             ELSE look \cup (IF Pending(ln) THEN {}
                             ELSE IF p.decision = None THEN {"approve", "reject", "revise"}
                             ELSE {"retry", "revise"})

Request(op, l, rev, ref, id) == [op |-> op, l |-> l, rev |-> rev, ref |-> ref, id |-> id]

(* Retrying an attempt that holds the journal recovers it, anything else publishes. *)
Routed(op, l, ref) ==
    IF op # "retry" THEN op
    ELSE IF Owns("PUBLICATION", <<l, ref>>) THEN "recover" ELSE "publish"

Ask ==
    /\ mode = "up" /\ global.fence # "PURGE"
    /\ asks < MaxAsks /\ asks' = asks + 1
    /\ \E l \in Lineages : \E op \in Offered(lineage[l]) \cap Operations :
         \E id \in IF op = "revise" THEN Ids ELSE {0} :
           LET ref == Len(lineage[l].proposals)
           IN  asked' = asked \cup {Request(Routed(op, l, ref), l, lineage[l].revision, ref, id)}
    /\ UNCHANGED <<global, lineage, opened, final, denied, mode, job, elsewhere, faults, crashes>>

----
(* How steps end.  A step of a coordinator leaves the disk and the bounds of
   others alone.                                                             *)
Goto(c, j) == job' = [job EXCEPT ![c] = j] /\ UNCHANGED <<asked, mode>>
To(c, at) == Goto(c, [job[c] EXCEPT !.at = at])

AfterRecovery(m) ==
    CASE m = "refresh" -> "revision" [] m = "revision" -> "review"
      [] m = "review" -> "publication" [] OTHER -> "up"

(* The operation returns; an approval that returns is followed by publishing
   what it returned.                                                         *)
Return(c) ==
    LET j == job[c]
    IN  /\ job' = [job EXCEPT ![c] = Idle]
        /\ asked' = IF j.op # "approve" THEN asked
                    ELSE asked \cup {Request("publish", j.l, j.seen.revision, j.ref, 0)}
        /\ mode' = IF j.op = "restore" THEN AfterRecovery(mode) ELSE mode
Throw(c) ==
    /\ job' = [job EXCEPT ![c] = Idle]
    /\ mode' = IF job[c].op = "restore" THEN "failed" ELSE mode
    /\ UNCHANGED asked

(* Handling the error of an operation ends in that error. *)
Undo(c, at) == Goto(c, [job[c] EXCEPT !.at = at, !.op = IF @ = "restore" THEN @ ELSE "undo"])

(* One write of the global record or of a lineage row: refused by its own check,
   done, or failed with or without effect.                                   *)
Faulty == mode = "up" /\ faults < MaxFaults /\ faults' = faults + 1
Write(allowed, g, ls, next, fail) ==
    IF ~allowed THEN UNCHANGED <<global, lineage, faults>> /\ fail
    ELSE \/ global' = g /\ lineage' = ls /\ next /\ UNCHANGED faults
         \/ /\ Faulty /\ fail
            /\ \/ global' = g /\ lineage' = ls
               \/ UNCHANGED <<global, lineage>>

(* Writes of the global record queue up.  A journal that is prepared in the same
   breath as its request is checked is in the queue before anything later.   *)
Queued(c) == job[c].at = "prepare" /\ job[c].op \in {"refresh", "reject"}
Turn(c) == \A d \in Coordinators \ {c} : ~Queued(d)
PutGlobal(c, allowed, g, next, fail) ==
    Turn(c) /\ Write(allowed, g, lineage, next, fail)
PutLineage(l, allowed, ln, next, fail) ==
    Write(allowed, global, [lineage EXCEPT ![l] = ln], next, fail)

Same == UNCHANGED <<global, lineage, faults>>
At(c, at) == job[c].at = at /\ UNCHANGED <<opened, final, denied, asks, elsewhere, crashes>>

(* The lineage is the one that was read. *)
Unmoved(j) == lineage[j.l].state # "ABSENT" /\ lineage[j.l].revision = j.seen.revision
Undecided(j) == Unmoved(j) /\ Last(lineage[j.l]).decision = None

----
(* The catalog is read again: it can be read while no mutation is prepared, or
   while the one that is belongs to this very proposal and has not started; it
   is CURRENT only at the proposal's own epoch.                              *)
Readable(owner) ==
    /\ global.fence \in {"FREE", "LEASE"}
    /\ \/ global.journal.kind = None
       \/ Owns("PUBLICATION", owner) /\ global.journal.phase = "PREPARED"
Revalidated(j) ==
    {"UNAVAILABLE"} \cup
    (IF ~Readable(Owner(j)) THEN {}
     ELSE {"STALE"} \cup (IF Last(j.seen).epoch = global.epoch THEN {"CURRENT"} ELSE {}))
CodeOf(outcome) == IF outcome = "STALE" THEN "CATALOG_CHANGED" ELSE "CATALOG_UNAVAILABLE"
WithCode(j, at, code) == [j EXCEPT !.at = at, !.code = code]
WithEpoch(j, at) == [j EXCEPT !.at = at, !.epoch = global.epoch]

----
(* A coordinator takes up a request. *)
CoordinatorOf(op) ==
    CASE op \in {"inspect", "approve", "reject"} -> "review"
      [] op \in {"publish", "recover"} -> "publication"
      [] op = "refresh" -> "refresh"
      [] op = "revise" -> "revision"

FirstStep(r) ==
    LET ln == lineage[r.l]
        found == ln.state # "ABSENT" /\ Len(ln.proposals) = r.ref
        fresh == found /\ ln.revision = r.rev
        owner == <<r.l, r.ref>>
        decision == IF found THEN Last(ln).decision ELSE None
    IN  CASE r.op = "inspect" ->
               IF fresh /\ decision = None /\ ln.state = "ACTIVE" THEN "inspect" ELSE "idle"
          [] r.op = "approve" ->
               IF decision = "APPROVED" THEN IF Owns("REVIEW", owner) THEN "reviewed" ELSE "return"
               ELSE IF fresh /\ decision = None THEN "approve" ELSE "idle"
          [] r.op = "reject" ->
               IF decision = "REJECTED" /\ Owns("REVIEW", owner) THEN "reviewed"
               ELSE IF fresh /\ decision = None THEN "prepare" ELSE "idle"
          [] r.op = "publish" ->
               IF found /\ ln.state = "PUBLISHED"
               THEN IF Owns("PUBLICATION", owner) THEN "reconcile" ELSE "idle"
               ELSE IF fresh /\ Publishable(ln, FALSE) THEN "publish" ELSE "idle"
          [] r.op = "recover" -> "reconcile"
          [] r.op = "refresh" -> IF fresh /\ Refreshable(ln) THEN "prepare" ELSE "idle"
          [] r.op = "revise" ->
               IF fresh /\ Acts(ln, r.id) = {} /\ Free /\ Revisable(ln) THEN "revise" ELSE "idle"

Begin(c) ==
    /\ mode = "up" /\ At(c, "idle")
    /\ \E r \in asked :
         /\ CoordinatorOf(r.op) = c /\ (FirstStep(r) = "prepare" => Turn(c))
         /\ asked' = asked \ {r}
         /\ job' = [job EXCEPT ![c] =
               IF FirstStep(r) = "idle" THEN Idle
               ELSE [Idle EXCEPT !.at = FirstStep(r), !.op = r.op, !.l = r.l, !.ref = r.ref,
                                 !.id = r.id, !.seen = lineage[r.l],
                                 !.parent = IF lineage[r.l].proposals = << >> THEN @
                                            ELSE Last(lineage[r.l])]]
    /\ UNCHANGED mode /\ Same

(* After a start, the recoveries run one after the other, when a purge that was
   under way has ended.                                                      *)
Restore(c) ==
    /\ mode = c /\ At(c, "idle") /\ global.fence # "PURGE"
    /\ Goto(c, [Idle EXCEPT !.op = "restore", !.at =
          CASE c = "refresh" -> "unrefreshed" [] c = "revision" -> "salvage"
            [] c = "review" -> "reviewed" [] OTHER -> "reconcile"])
    /\ Same

Returned == At("review", "return") /\ Return("review") /\ Same

----
(* Review.                                                                   *)
Inspect ==
    LET j == job["review"]
    IN  /\ At("review", "inspect")
        /\ \E o \in Revalidated(j) :
             IF o = "CURRENT"
             THEN IF Last(j.seen).review = None THEN Return("review") ELSE To("review", "relieve")
             ELSE IF Last(j.seen).review = CodeOf(o) THEN Return("review")
             ELSE Goto("review", WithCode(j, "attention", CodeOf(o)))
        /\ Same

(* The failure recorded earlier no longer holds. *)
Relieve ==
    LET j == job["review"]
    IN  /\ At("review", "relieve")
        /\ PutLineage(j.l, Unmoved(j),
                      Amended(lineage[j.l], [Last(lineage[j.l]) EXCEPT !.review = None]),
                      Return("review"), Throw("review"))

Approve ==
    LET j == job["review"]
    IN  /\ At("review", "approve")
        /\ \E o \in Revalidated(j) :
             IF o = "CURRENT" THEN Goto("review", WithEpoch(j, "prepare"))
             ELSE Goto("review", WithCode(j, "attention", CodeOf(o)))
        /\ Same

Attention ==
    LET j == job["review"]
    IN  /\ At("review", "attention")
        /\ PutLineage(j.l, Undecided(j),
                      Amended(lineage[j.l], [Last(lineage[j.l]) EXCEPT !.review = j.code]),
                      Return("review"), Throw("review"))

(* An approval is prepared at the epoch it was checked at, a rejection at any. *)
PrepareReview ==
    LET j == job["review"]
    IN  /\ At("review", "prepare")
        /\ IF Free /\ j.op = "approve" /\ global.epoch # j.epoch
           THEN Same /\ Goto("review", WithCode(j, "attention", "CATALOG_CHANGED"))
           ELSE PutGlobal("review", Free, Prepared("REVIEW", Owner(j)),
                          To("review", "decide"), Throw("review"))

(* Mutant of Decided: the failure of an earlier look stays beside the decision. *)
DecidedWithFailure(p, op) ==
    IF op = "approve" THEN [p EXCEPT !.decision = "APPROVED"]
    ELSE [p EXCEPT !.decision = "REJECTED", !.state = "TERMINAL"]
Decided(p, op) ==
    IF op = "approve" THEN [p EXCEPT !.decision = "APPROVED", !.review = None]
    ELSE [p EXCEPT !.decision = "REJECTED", !.review = None, !.state = "TERMINAL"]
Decide ==
    LET j == job["review"]
        ln == Amended(lineage[j.l], Decided(Last(lineage[j.l]), j.op))
        after == IF j.op = "approve" THEN ln ELSE [ln EXCEPT !.state = "TERMINAL"]
    IN  /\ At("review", "decide")
        /\ PutLineage(j.l, Undecided(j), after,
                      Goto("review", [j EXCEPT !.seen = after,
                          !.at = IF j.op = "approve" THEN "clear" ELSE "commit"]),
                      Undo("review", "reviewed"))

Current(kind, owner) == Owns(kind, owner) /\ global.journal.epoch = global.epoch
HandledReview == job["review"].op \in {"restore", "undo"} \/ job["review"].parent.decision # None
ReviewFailed == IF HandledReview THEN Throw("review") ELSE Undo("review", "reviewed")
(* Approving keeps the catalog as it is, rejecting takes the proposal out of it. *)
CloseReview(at, g) ==
    /\ At("review", at)
    /\ PutGlobal("review", Current("REVIEW", Owner(job["review"])), g, Return("review"), ReviewFailed)
ClearReview == CloseReview("clear", Dropped)
CommitReview == CloseReview("commit", Committed)

(* What the journal of a review that stopped half way means. *)
OwnLineages(owner) ==
    {l \in Lineages : lineage[l].state # "ABSENT" /\ owner = <<l, Len(lineage[l].proposals)>>}
RecoverReview ==
    LET j == job["review"]
        l == CHOOSE l \in OwnLineages(global.journal.owner) : TRUE
        p == Last(lineage[l])
        named == [j EXCEPT !.l = l, !.ref = global.journal.owner[2]]
    IN  /\ At("review", "reviewed") /\ Same
        /\ IF global.journal.kind # "REVIEW" THEN Return("review")
           ELSE IF OwnLineages(global.journal.owner) = {} THEN Throw("review")
           ELSE IF lineage[l].state = "TERMINAL" /\ p.decision = "REJECTED"
           THEN Goto("review", [named EXCEPT !.at = "commit"])
           ELSE IF lineage[l].state = "ACTIVE" /\ p.decision # "REJECTED"
           THEN Goto("review", [named EXCEPT !.at = "clear"])
           ELSE Throw("review")

----
(* Publication.  An attempt is named by the proposal and the epoch of its
   journal: the journal of one attempt is never another's.                   *)
Attempt(j) == <<j.l, j.ref, j.epoch>>
HandledPublication == job["publication"].op \in {"restore", "recover", "undo"}
PublicationFailed ==
    IF HandledPublication THEN Throw("publication") ELSE Undo("publication", "reconcile")
HoldsAttempt(j) == Owns("PUBLICATION", Owner(j)) /\ global.journal.epoch = j.epoch
Phased(phase, code) == [global EXCEPT !.journal.phase = phase, !.journal.code = code]

Publish ==
    LET j == job["publication"]
    IN  /\ At("publication", "publish")
        /\ \E o \in Revalidated(j) :
             IF o = "CURRENT" THEN Goto("publication", WithEpoch(j, "prepare"))
             ELSE Goto("publication", WithCode(j, "note", CodeOf(o)))
        /\ Same

(* Mutant of PreparePublication: the epoch that was checked is not compared. *)
PreparePublicationAnyEpoch ==
    LET j == job["publication"]
    IN  /\ At("publication", "prepare")
        /\ PutGlobal("publication", Free, Prepared("PUBLICATION", Owner(j)),
                     Goto("publication", WithEpoch(j, "execute")), Throw("publication"))
PreparePublication ==
    LET j == job["publication"]
    IN  /\ At("publication", "prepare")
        /\ IF Free /\ global.epoch # j.epoch
           THEN Same /\ Goto("publication", WithCode(j, "note", "CATALOG_CHANGED"))
           ELSE PutGlobal("publication", Free, Prepared("PUBLICATION", Owner(j)),
                          To("publication", "execute"), Throw("publication"))

(* The attempt is on record as started before the disk is touched. *)
Execute ==
    LET j == job["publication"]
    IN  /\ At("publication", "execute")
        /\ PutGlobal("publication", HoldsAttempt(j), Phased("EXECUTING", None),
                     To("publication", "install"), Throw("publication"))

(* What the disk answers: PublicationAttempt, where an attempt that was started
   may go on, or be found to have gone on, while the answer is awaited.      *)
DiskOf(a) == IF a \in final THEN "FINAL" ELSE IF a \in opened THEN "OPEN" ELSE "UNTOUCHED"
Port(a) == INSTANCE PublicationAttempt WITH Nothing <- None, disk <- DiskOf(a), answer <- None
Reaches(a, d) ==
    /\ opened' = IF d = "UNTOUCHED" THEN opened ELSE opened \cup {a}
    /\ final' = IF d = "FINAL" THEN final \cup {a} ELSE final
Later(d) ==
    CASE d = "UNTOUCHED" -> {"UNTOUCHED", "OPEN", "FINAL"}
      [] d = "OPEN" -> {"OPEN", "FINAL"} [] OTHER -> {"FINAL"}
(* A root that changed is answered STALE before the disk is looked at, even when
   the file is final.                                                        *)
Answers(a, d) ==
    {x \in {"PUBLISHED", "CONFLICT", "STALE", "UNAVAILABLE", "ABSENT"} :
        Port(a)!Truthful(x, d) /\ (x = "STALE" => d = DiskOf(a))}
Heard(a, d, x) ==
    denied' = IF x = "STALE" /\ d = "FINAL" THEN denied \cup {a} ELSE denied \ {a}

(* Mutant of Answered: an unknown outcome drops the journal like a refusal. *)
AnsweredKnown(j, answer) ==
    CASE answer = "PUBLISHED" -> [j EXCEPT !.at = "publish row"]
      [] answer = "STALE" -> WithCode(j, "refuse", "CATALOG_CHANGED")
      [] answer = "CONFLICT" -> WithCode(j, "refuse", "PUBLICATION_CONFLICT")
      [] answer = "ABSENT" -> [j EXCEPT !.at = "unexecute"]
      [] OTHER -> WithCode(j, "failure, clear", "PUBLICATION_UNAVAILABLE")
Answered(j, answer) ==
    CASE answer = "PUBLISHED" -> [j EXCEPT !.at = "publish row"]
      [] answer = "STALE" -> WithCode(j, "refuse", "CATALOG_CHANGED")
      [] answer = "CONFLICT" -> WithCode(j, "refuse", "PUBLICATION_CONFLICT")
      [] answer = "ABSENT" -> [j EXCEPT !.at = "unexecute"]
      [] OTHER -> WithCode(j, "failure", "PUBLICATION_UNAVAILABLE")
Awaits(at) ==
    job["publication"].at = at /\ UNCHANGED <<asks, elsewhere, crashes>> /\ Same
Install ==
    LET j == job["publication"] a == Attempt(j)
    IN  /\ Awaits("install")
        /\ \E d \in Later(DiskOf(a)) : \E x \in Answers(a, d) \ {"ABSENT"} :
             Reaches(a, d) /\ Heard(a, d, x) /\ Goto("publication", Answered(j, x))
AskDisk ==
    LET j == job["publication"] a == Attempt(j)
    IN  /\ Awaits("ask disk")
        /\ \E d \in IF a \in opened THEN Later(DiskOf(a)) ELSE {"UNTOUCHED"} :
             \E x \in Answers(a, d) :
                 Reaches(a, d) /\ Heard(a, d, x) /\ Goto("publication", Answered(j, x))

(* Nothing was written, and the proposal needs a refresh: first on record in the
   journal, then in the row, and then the journal goes.                      *)
Refuse ==
    LET j == job["publication"]
    IN  /\ At("publication", "refuse")
        /\ PutGlobal("publication",
                     /\ HoldsAttempt(j)
                     /\ global.journal.phase = "NEEDS_REFRESH" => global.journal.code = j.code,
                     Phased("NEEDS_REFRESH", j.code),
                     To("publication", "failure, clear"), PublicationFailed)

Failed(j) == Amended(lineage[j.l], [Last(lineage[j.l]) EXCEPT !.publication = j.code])
(* Before an attempt begins, and after one that may have written: its journal stays. *)
RecordFailure(at, fail) ==
    LET j == job["publication"]
    IN  /\ At("publication", at)
        /\ PutLineage(j.l, Unmoved(j), Failed(j), Return("publication"), fail)
RecordRefusal ==
    LET j == job["publication"]
    IN  /\ At("publication", "failure, clear")
        /\ IF HandledPublication /\ Last(j.seen).publication = j.code
           THEN Same /\ To("publication", "clear")
           ELSE PutLineage(j.l, Unmoved(j), Failed(j),
                           To("publication", "clear"), PublicationFailed)
ClearAttempt ==
    LET j == job["publication"]
    IN  /\ At("publication", "clear")
        /\ PutGlobal("publication", HoldsAttempt(j), Dropped, Return("publication"), PublicationFailed)

PublishRow ==
    LET j == job["publication"]
        p == [Last(lineage[j.l]) EXCEPT !.state = "PUBLISHED", !.publication = None]
    IN  /\ At("publication", "publish row")
        /\ PutLineage(j.l, Unmoved(j), [Amended(lineage[j.l], p) EXCEPT !.state = "PUBLISHED"],
                      To("publication", "commit"), PublicationFailed)
CommitAttempt ==
    LET j == job["publication"]
    IN  /\ At("publication", "commit")
        /\ PutGlobal("publication", HoldsAttempt(j) /\ j.epoch = global.epoch, Committed,
                     Return("publication"), PublicationFailed)

(* What the journal of an attempt that stopped half way means. *)
Handling(j, at) ==
    Goto("publication", [j EXCEPT !.at = at, !.op = IF @ = "restore" THEN @ ELSE "undo"])
Reconcile ==
    LET jr == global.journal
        l == CHOOSE l \in OwnLineages(jr.owner) : TRUE
        j == [job["publication"] EXCEPT !.l = l, !.ref = jr.owner[2], !.epoch = jr.epoch,
                                        !.seen = lineage[l]]
    IN  /\ At("publication", "reconcile") /\ Same
        /\ IF jr.kind # "PUBLICATION" THEN Return("publication")
           ELSE IF OwnLineages(jr.owner) = {} THEN Throw("publication")
           ELSE IF lineage[l].state = "PUBLISHED" THEN Handling(j, "commit")
           ELSE IF jr.phase = "NEEDS_REFRESH"
           THEN Handling([j EXCEPT !.code = jr.code], "failure, clear")
           ELSE IF ~Publishable(lineage[l], jr.phase = "EXECUTING") THEN Throw("publication")
           ELSE Handling(j, IF jr.phase = "EXECUTING" THEN "ask disk" ELSE "recheck")

(* Nothing exists of the attempt: it may be started again, if it still applies. *)
Unexecute ==
    LET j == job["publication"]
    IN  /\ At("publication", "unexecute")
        /\ PutGlobal("publication", HoldsAttempt(j) /\ global.journal.phase = "EXECUTING",
                     Phased("PREPARED", None), To("publication", "recheck"), PublicationFailed)
Recheck ==
    LET j == job["publication"]
    IN  /\ At("publication", "recheck")
        /\ \E o \in Revalidated(j) :
             CASE o = "CURRENT" -> To("publication", "execute")
               [] o = "STALE" -> Goto("publication", WithCode(j, "refuse", "CATALOG_CHANGED"))
               [] OTHER -> Goto("publication", WithCode(j, "failure, clear", "CATALOG_UNAVAILABLE"))
        /\ Same

----
(* Refresh: the proposal is superseded and its intent goes back to recall.   *)
RefreshFailed ==
    IF job["refresh"].op \in {"restore", "undo"} THEN Throw("refresh")
    ELSE Undo("refresh", "unrefreshed")

(* Mutant of PrepareRefresh: a lease does not hold a refresh off. *)
PrepareRefreshUnderLease ==
    LET j == job["refresh"]
    IN  /\ At("refresh", "prepare")
        /\ IF Owns("REFRESH", Owner(j)) THEN Same /\ To("refresh", "supersede")
           ELSE PutGlobal("refresh", global.journal.kind = None, Prepared("REFRESH", Owner(j)),
                          To("refresh", "supersede"), Throw("refresh"))
PrepareRefresh ==
    LET j == job["refresh"]
    IN  /\ At("refresh", "prepare")
        /\ IF Owns("REFRESH", Owner(j)) THEN Same /\ To("refresh", "supersede")
           ELSE PutGlobal("refresh", Free, Prepared("REFRESH", Owner(j)),
                          To("refresh", "supersede"), Throw("refresh"))

Supersede ==
    LET j == job["refresh"]
        ln == lineage[j.l]
    IN  /\ At("refresh", "supersede")
        /\ PutLineage(j.l, Refreshable(ln) /\ Len(ln.proposals) = j.ref,
                      [Amended(ln, [Last(ln) EXCEPT !.state = "SUPERSEDED"])
                           EXCEPT !.state = "REFRESHING"],
                      To("refresh", "recall"), RefreshFailed)

(* The intent is written unless an earlier attempt has done it. *)
Recall ==
    LET j == job["refresh"]
    IN  /\ At("refresh", "recall")
        /\ IF lineage[j.l].intent = "RECALLING" THEN Same /\ To("refresh", "reserve")
           ELSE PutLineage(j.l, Owns("REFRESH", Owner(j)),
                           [lineage[j.l] EXCEPT !.intent = "RECALLING"],
                           To("refresh", "reserve"), RefreshFailed)

CommitRefresh ==
    /\ At("refresh", "reserve")
    /\ PutGlobal("refresh", Owns("REFRESH", Owner(job["refresh"])), Committed,
                 Return("refresh"), RefreshFailed)

RecoverRefresh ==
    LET owner == IF job["refresh"].op = "restore" THEN global.journal.owner
                 ELSE Owner(job["refresh"])
        l == CHOOSE l \in OwnLineages(owner) : TRUE
        j == [job["refresh"] EXCEPT !.l = l, !.ref = owner[2]]
    IN  /\ At("refresh", "unrefreshed") /\ Same
        /\ IF \/ job["refresh"].op = "restore" /\ global.journal.kind # "REFRESH"
              \/ OwnLineages(owner) = {}
           THEN Return("refresh")
           ELSE IF lineage[l].state = "REFRESHING" THEN Goto("refresh", [j EXCEPT !.at = "recall"])
           ELSE IF Refreshable(lineage[l]) THEN Goto("refresh", [j EXCEPT !.at = "supersede"])
           ELSE Throw("refresh")

----
(* Revision: the user's comment becomes a new proposal by a model call.      *)
RevisionOwner(j) == <<j.l, -j.id>>
Revise ==
    LET j == job["revision"]
    IN  /\ At("revision", "revise")
        /\ \E o \in Revalidated(j) :
             IF o = "CURRENT" THEN Goto("revision", WithEpoch(j, "reserve")) ELSE Throw("revision")
        /\ Same

(* The call is reserved before it is made. *)
ReserveCall ==
    LET j == job["revision"]
        ln == lineage[j.l]
    IN  /\ At("revision", "reserve")
        /\ PutLineage(j.l, Unmoved(j),
                      [ln EXCEPT !.revision = @ + 1, !.actions = Append(@,
                           [id |-> j.id, parent |-> j.ref, state |-> "CALL_RESERVED"])],
                      To("revision", "call"), Throw("revision"))

(* The model answers or fails; then the lineage is read again. *)
Call ==
    LET j == job["revision"]
        found == lineage[j.l].state # "ABSENT" /\ Len(lineage[j.l].proposals) = j.ref
    IN  /\ At("revision", "call") /\ Same
        /\ \/ found /\ Goto("revision", [j EXCEPT !.at = "recheck", !.seen = lineage[j.l]])
           \/ To("revision", "salvage")

RecheckRevision ==
    LET j == job["revision"]
    IN  /\ At("revision", "recheck") /\ Same
        /\ \E o \in Revalidated(j) :
             To("revision", IF o = "CURRENT" /\ global.epoch = j.epoch THEN "prepare" ELSE "salvage")

PrepareRevision ==
    LET j == job["revision"]
    IN  /\ At("revision", "prepare")
        /\ PutGlobal("revision", Free /\ global.epoch = j.epoch, Prepared("REVISION", RevisionOwner(j)),
                     To("revision", "child"), To("revision", "salvage"))

(* The parent is written as it was before the call. *)
Child ==
    LET j == job["revision"]
        n == Len(j.seen.proposals)
        ln == [j.seen EXCEPT !.revision = @ + 1,
                   !.proposals = Append([@ EXCEPT ![n] = [j.parent EXCEPT !.state = "SUPERSEDED"]],
                                        NewProposal(j.epoch + 1, j.id)),
                   !.actions = Marked(lineage[j.l], j.id, "SUCCEEDED").actions]
    IN  /\ At("revision", "child")
        /\ PutLineage(j.l, Unmoved(j), ln, To("revision", "settle"), To("revision", "salvage"))

Settle ==
    LET j == job["revision"]
    IN  /\ At("revision", "settle")
        /\ PutGlobal("revision", Current("REVISION", RevisionOwner(j)), Committed,
                     Return("revision"), To("revision", "salvage"))

(* What the journal of a revision that stopped half way means: its child is the
   lineage's last proposal, or there is no child and the call is reserved.   *)
ChildOf(owner) == {i \in DOMAIN lineage[owner[1]].proposals :
    lineage[owner[1]].proposals[i].by = -owner[2]}
InState(owner, state) ==
    \E k \in Acts(lineage[owner[1]], -owner[2]) : lineage[owner[1]].actions[k].state = state
IsCommitted(owner) ==
    /\ InState(owner, "SUCCEEDED")
    /\ Len(lineage[owner[1]].proposals) \in ChildOf(owner)
    /\ Last(lineage[owner[1]]).epoch = global.epoch + 1
IsBeforeChild(owner) == InState(owner, "CALL_RESERVED") /\ ChildOf(owner) = {}

Salvage ==
    LET j == job["revision"]
        owner == global.journal.owner
        next == Goto("revision", IF j.op = "restore" THEN [j EXCEPT !.at = "forget"]
                                 ELSE [j EXCEPT !.at = "fail", !.seen = lineage[j.l]])
        fail == IF j.op = "restore" THEN Throw("revision") ELSE next
    IN  /\ At("revision", "salvage")
        /\ IF global.journal.kind # "REVISION" THEN Same /\ next
           ELSE IF IsCommitted(owner)
           THEN PutGlobal("revision", Current("REVISION", owner), Committed, next, fail)
           ELSE PutGlobal("revision", IsBeforeChild(owner), Dropped, next, fail)

(* Errors of the last write are swallowed: the call then stays reserved. *)
MarkFailed ==
    LET j == job["revision"]
        reserved == \E k \in DOMAIN j.seen.actions :
                        j.seen.actions[k].id = j.id /\ j.seen.actions[k].state = "CALL_RESERVED"
    IN  /\ At("revision", "fail")
        /\ PutLineage(j.l, reserved /\ Unmoved(j),
                      [Marked(lineage[j.l], j.id, "FAILED") EXCEPT !.revision = @ + 1],
                      Return("revision"), Return("revision"))

(* After a start nobody waits for a reserved call: its outcome is unknown.   *)
ForgetCalls ==
    /\ At("revision", "forget")
    /\ lineage' = [l \in Lineages |->
          LET ln == lineage[l]
              open == {k \in DOMAIN ln.actions : ln.actions[k].state = "CALL_RESERVED"}
          IN  IF open = {} THEN ln
              ELSE [ln EXCEPT !.revision = @ + 1, !.actions =
                        [k \in DOMAIN @ |-> IF k \in open THEN [@[k] EXCEPT !.state = "OUTCOME_UNKNOWN"]
                                            ELSE @[k]]]]
    /\ Return("revision")
    /\ UNCHANGED <<global, faults>>

----
(* Everybody else: the generation worker holds the catalog, commits a mutation
   of its own (a new proposal of a lineage that is being refreshed, perhaps),
   or gives it back; a purge removes the lineages; the process stops.        *)
Others == UNCHANGED <<opened, final, denied, asked, job, asks, faults, crashes, mode>>
(* The row of a refreshed lineage is composed anew: no revision action is carried over. *)
Regrown(ln, p) ==
    [ln EXCEPT !.revision = @ + 1, !.state = "ACTIVE", !.intent = "READY",
               !.proposals = Append(@, p), !.actions = << >>]
Take ==
    /\ Free /\ mode = "up" /\ Turn("others")
    /\ elsewhere < MaxElsewhere /\ elsewhere' = elsewhere + 1
    /\ \E f \in {"LEASE", "PURGE"} : global' = [global EXCEPT !.fence = f]
    /\ UNCHANGED lineage /\ Others
Commit ==
    /\ global.fence = "LEASE" /\ global.journal.kind = None /\ mode = "up"
    /\ global' = [global EXCEPT !.fence = "COMMITTING"]
    /\ UNCHANGED <<lineage, elsewhere>> /\ Others
Release ==
    /\ global.fence \in {"LEASE", "COMMITTING"} /\ global.journal.kind = None /\ mode = "up"
    /\ IF global.fence = "LEASE"
       THEN global' = [global EXCEPT !.fence = "FREE"] /\ UNCHANGED lineage
       ELSE /\ global' = [global EXCEPT !.fence = "FREE", !.epoch = @ + 1]
            /\ \/ UNCHANGED lineage
               \/ \E l \in Lineages :
                    /\ lineage[l].state = "REFRESHING" /\ lineage[l].intent = "RECALLING"
                    /\ lineage' = [lineage EXCEPT ![l] =
                           Regrown(@, NewProposal(global.epoch + 1, 0))]
    /\ UNCHANGED elsewhere /\ Others
Purge ==
    /\ global.fence = "PURGE"
    /\ \/ \E l \in Lineages :
            /\ lineage[l].state # "ABSENT"
            /\ lineage' = [lineage EXCEPT ![l] = Absent] /\ UNCHANGED global
       \/ /\ \A l \in Lineages : lineage[l].state = "ABSENT"
          /\ Turn("others")
          /\ global' = [global EXCEPT !.fence = "FREE", !.epoch = @ + 1] /\ UNCHANGED lineage
    /\ UNCHANGED elsewhere /\ Others

(* The generation worker finds its lease again; the disk may have been reached. *)
Crash ==
    /\ crashes < MaxCrashes /\ crashes' = crashes + 1 /\ mode # "failed"
    /\ mode' = "refresh" /\ asked' = {} /\ job' = [c \in Coordinators |-> Idle]
    /\ LET j == job["publication"] a == Attempt(j)
       IN  IF j.at = "install" THEN \E d \in Later(DiskOf(a)) : Reaches(a, d)
           ELSE UNCHANGED <<opened, final>>
    /\ UNCHANGED <<global, lineage, denied, asks, elsewhere, faults>>

----
Review == Inspect \/ Relieve \/ Approve \/ Attention \/ PrepareReview \/ Decide
          \/ ClearReview \/ CommitReview \/ RecoverReview \/ Returned
Publication ==
    \/ Publish \/ PreparePublication \/ Execute \/ Install \/ AskDisk \/ Refuse
    \/ RecordFailure("note", Throw("publication")) \/ RecordFailure("failure", PublicationFailed)
    \/ RecordRefusal \/ ClearAttempt \/ PublishRow \/ CommitAttempt
    \/ Reconcile \/ Unexecute \/ Recheck
Refresh == PrepareRefresh \/ Supersede \/ Recall \/ CommitRefresh \/ RecoverRefresh
Revision == Revise \/ ReserveCall \/ Call \/ RecheckRevision \/ PrepareRevision \/ Child
            \/ Settle \/ Salvage \/ MarkFailed \/ ForgetCalls
Desk == (\E c \in Coordinators : Begin(c) \/ Restore(c)) \/ Review \/ Publication
        \/ Refresh \/ Revision
Environment == Ask \/ Take \/ Commit \/ Release \/ Purge \/ Crash

Next == Desk \/ Environment
Spec == Init /\ [][Next]_vars
----
Steps == {"idle", "return", "inspect", "relieve", "approve", "attention", "prepare", "decide",
          "clear", "commit", "reviewed", "publish", "note", "execute", "install", "ask disk",
          "refuse", "failure", "failure, clear", "publish row", "reconcile", "unexecute",
          "recheck", "supersede", "recall", "reserve", "unrefreshed", "revise", "call",
          "child", "settle", "salvage", "fail", "forget"}

(* Types of the variables. *)
TypeOK ==
    /\ global.epoch \in Nat /\ global.fence \in {"FREE", "LEASE", "COMMITTING", "PURGE"}
    /\ global.journal.kind \in {None, "REVIEW", "PUBLICATION", "REFRESH", "REVISION"}
    /\ global.journal.phase \in {"PREPARED", "EXECUTING", "NEEDS_REFRESH"}
    /\ lineage \in [Lineages -> Lineage]
    /\ final \subseteq opened /\ denied \subseteq final
    /\ mode \in Coordinators \cup {"up", "failed"}
    /\ \A c \in Coordinators : job[c].at \in Steps /\ job[c].seen \in Lineage

(* What the schema of a row asks of a proposal, and of a lineage as a whole. *)
ValidProposal(p) ==
    /\ p.decision # None => p.review = None
    /\ p.decision = "REJECTED" => p.state = "TERMINAL"
    /\ p.decision = "APPROVED" => p.state # "TERMINAL"
    /\ p.state = "PUBLISHED" => p.decision = "APPROVED" /\ p.publication = None
    /\ p.publication # None => p.decision = "APPROVED" /\ p.state \in {"ACTIVE", "SUPERSEDED"}
(* A revised proposal is the child of the one just before it, by the one action that made it. *)
ValidActions(ln) ==
    /\ \A k, m \in DOMAIN ln.actions : ln.actions[k].id = ln.actions[m].id => k = m
    /\ \A k \in DOMAIN ln.actions : ln.actions[k].state = "SUCCEEDED" =>
          \E i \in DOMAIN ln.proposals :
              ln.proposals[i].by = ln.actions[k].id /\ ln.actions[k].parent = i - 1
ValidSources(ln) ==
    \A i \in DOMAIN ln.proposals : ln.proposals[i].by # 0 =>
        /\ i > 1
        /\ \E k \in Acts(ln, ln.proposals[i].by) :
              ln.actions[k].state = "SUCCEEDED" /\ ln.actions[k].parent = i - 1
ValidLineage(ln) ==
    /\ \A i \in DOMAIN ln.proposals : ValidProposal(ln.proposals[i])
    /\ ValidActions(ln) /\ ValidSources(ln)
    /\ ln.proposals # << >>
    /\ Last(ln).state = IF ln.state = "REFRESHING" THEN "SUPERSEDED" ELSE ln.state
    /\ ln.state = "PUBLISHED" => Last(ln).decision = "APPROVED"
    /\ ln.state = "TERMINAL" => Last(ln).decision = "REJECTED"

(* And of a journal: only a publication begins an attempt or ends in a refusal,
   and what was refused has a code.                                          *)
ValidJournal(j) ==
    /\ j.phase # "PREPARED" => j.kind = "PUBLICATION"
    /\ j.phase = "NEEDS_REFRESH" <=> j.code # None

(* No operation composes a row that the store would refuse and that could then
   never be written: not a decision on a proposal whose last look failed, not a
   revision of one whose publication failed, not a refresh of one that was
   revised (each row is parsed as it is written and as it is read).          *)
RowsAreValid ==
    /\ \A l \in Lineages : lineage[l].state = "ABSENT" \/ ValidLineage(lineage[l])
    /\ ValidJournal(global.journal)

(* A skill file that is final on disk is accounted for: its lineage says so, or
   the journal of the attempt is still open and will be reconciled
   (the fence of V2ProposalPublicationCoordinator).  The code forgets a final
   file in one way only: its attempt is asked again after the root changed, the
   answer is STALE without a look at the disk (v2-proposal-filesystem.ts 194-195),
   and the journal is dropped, though the port's comment says that STALE
   guarantees that nothing was written (v2-proposal-publication.ts 33-34).   *)
PublishedIsAccounted ==
    \A a \in final \ denied :
        \/ lineage[a[1]].state = "ABSENT"
        \/ lineage[a[1]].state = "PUBLISHED" /\ Len(lineage[a[1]].proposals) = a[2]
        \/ global.journal.kind = "PUBLICATION" /\ global.journal.owner = <<a[1], a[2]>>
           /\ global.journal.epoch = a[3]

(* The disk is touched only for what the user approved last, in a catalog that
   is still the one the proposal was made for, whatever was asked, revised,
   refreshed, lost or recovered in between.                                  *)
WriteIsReviewed ==
    [][\A a \in opened' \ opened :
          /\ lineage[a[1]].state = "ACTIVE" /\ Len(lineage[a[1]].proposals) = a[2]
          /\ Last(lineage[a[1]]).decision = "APPROVED"
          /\ Last(lineage[a[1]]).epoch = global.epoch]_vars

(* The desk implements the fence of the catalog that generation implements. *)
Fence == INSTANCE CatalogFence WITH
    Holder <- {"OTHERS"}, Nobody <- None, epoch <- global.epoch,
    holder <- IF global.fence \in {"LEASE", "COMMITTING"} THEN "OTHERS" ELSE None,
    prepared <- IF global.fence = "COMMITTING" THEN "HOLDER"
                ELSE IF global.fence = "PURGE" \/ global.journal.kind # None THEN "USER"
                ELSE "NONE"
ImplementsFence == Fence!Spec
====
