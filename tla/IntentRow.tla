----------------------------- MODULE IntentRow -----------------------------
(***************************************************************************)
(* The row of one experience intent: every write of it that any worker,    *)
(* recovery or user action asks for, and the schema every written row has  *)
(* to satisfy.  A write the schema refuses throws and leaves the row as it *)
(* was; the worker meets the same row at its next turn.                    *)
(*                                                                         *)
(* How a worker comes to its decision is the matter of the other modules;  *)
(* here it is a free choice, under the guards of the update itself and of  *)
(* the steps that lead to it.  A digest is the record of the facts it is   *)
(* derived from.  The scan has one summary per page, the analysis one page.*)
(***************************************************************************)
EXTENDS Naturals, FiniteSets, Sequences

CONSTANTS
    NPages,     \* the pages of a catalog scan
    Reads,      \* what reading a relevant candidate can come to
    MaxMoves    \* restarts, catalog mutations by others and turns of the session

ASSUME PagesAssumption ==
    NPages \in Nat /\ MaxMoves \in Nat /\ Reads \subseteq {"AVAILABLE", "READABLE", "UNAVAILABLE"}

VARIABLES
    row,        \* the intent's row
    epoch,      \* proposalCatalogEpoch
    lease,      \* the generation lease: "NONE" | "NOT_CALLED" | "CALLED" | "RESULT"
    flight,     \* the call or the generation this process is in the middle of
    refused,    \* the statuses of the writes the schema refused
    moves

vars == <<row, epoch, lease, flight, refused, moves>>

Pages == 1..NPages
None == [none |-> TRUE]

----
(* Identities, each the facts it is derived from. *)
ClaimId(rev) == [claim |-> rev]
OwnershipReceipt(own) ==
    [claim |-> own.claim, decision |-> own.state, evidence |-> own.evidence,
     input |-> own.input, reason |-> own.reason, resolved |-> own.resolved]
ScanBinding(basis, excl) == [basis |-> basis, excl |-> excl]
ScanPlan(binding, at) == [binding |-> binding, epoch |-> at]
ScanCall(plan, page) ==
    [stage |-> "CATALOG_SCAN", plan |-> plan, page |-> page, retry |-> 0]
RetryCall(id, rev) == [id EXCEPT !.retry = rev]
CoverageBinding(basis) == [basis |-> basis]
CoveragePlan(binding, at, bound) == [binding |-> binding, epoch |-> at, bound |-> bound]
CoverageCall(plan) == [stage |-> "COVERAGE", plan |-> plan]
GenerationCall(rev) == [stage |-> "GENERATION", rev |-> rev]

----
(* The parts of a row before their stage has begun, and the row a detector stages. *)
Waiting == [state |-> "WAITING"]
(* The turn the batch ends with is the first; any later one is the second. *)
Satisfied(turn) == [state |-> "SATISFIED", observed |-> turn, detected |-> turn]
Unowned ==
    [state |-> "NOT_STARTED", claimed |-> 0, claim |-> None, input |-> FALSE,
     evidence |-> "NONE", reason |-> FALSE, resolved |-> FALSE, receipt |-> None]
Unscanned ==
    [state |-> "NOT_STARTED", whole |-> FALSE, summed |-> FALSE, epoch |-> 0, basis |-> 0,
     binding |-> None, plan |-> None, classes |-> {}, candidates |-> {},
     reason |-> "NONE", excl |-> None]
Unanalyzed ==
    [state |-> "NOT_STARTED", retryUsed |-> FALSE, basis |-> 0, binding |-> None,
     plan |-> None, bound |-> {}, decisions |-> {}, input |-> None, target |-> 0]
Ungenerated(used) ==
    [state |-> "NOT_STARTED", action |-> "NONE", rev |-> 0, epoch |-> 0, leased |-> FALSE,
     excl |-> None, sealed |-> None, authorized |-> None, proposal |-> FALSE,
     reason |-> "NONE", refreshed |-> used, receipts |-> <<>>]
Staged(explicit) ==
    [rev |-> 1, status |-> "DETECTOR_STAGED", explicit |-> explicit, quiet |-> Waiting,
     own |-> Unowned, recall |-> Unscanned, coverage |-> Unanalyzed,
     generation |-> Ungenerated(FALSE), barrier |-> None, retry |-> None,
     calls |-> {}, reasons |-> {}, lineage |-> FALSE]

CallsOf(r, stage) == {c \in r.calls : c.id.stage = stage}

----
(* What an observation of the session and its skills can come to. *)
Observed == {"SILENT", "WRITTEN", "UNCLEAR"}

(* The schema.  What its status says of a row's parts. *)
Statuses ==
    {"DETECTOR_STAGED", "WAITING_FOR_QUIESCENCE", "READY", "OWNERSHIP_ARBITRATING",
     "RESOLVED_BY_AGENT", "NEEDS_CONFIRMATION", "RUN2SKILL_OWNED", "RECALLING",
     "COVERAGE_READY", "COVERAGE_ANALYZING", "COVERED", "COVERED_NEEDS_CONFIRMATION",
     "COVERAGE_RETRY_AUTHORIZED", "CREATE_AUTHORIZED", "MERGE_AUTHORIZED", "GENERATING",
     "PROPOSAL_READY", "NEEDS_ATTENTION", "DISCARDED"}
StatusFits(r) ==
    LET unused(part) == part.state = "NOT_STARTED"
        idle(owner) ==
            r.own.state = owner /\ unused(r.recall) /\ unused(r.coverage) /\ unused(r.generation)
        owned(scan, answers, steps) ==
            /\ r.own.state = "RUN2SKILL_OWNED" /\ r.recall.state = scan
            /\ r.coverage.state \in answers /\ r.generation.state \in steps
        fresh == {"NOT_STARTED"}
        ours == {"CREATE", "MERGE"}
    IN CASE r.status \in {"DETECTOR_STAGED", "WAITING_FOR_QUIESCENCE"} ->
              r.quiet.state = "WAITING" /\ idle("NOT_STARTED")
         [] r.status = "READY" -> r.quiet.state = "SATISFIED" /\ idle("NOT_STARTED")
         [] r.status = "OWNERSHIP_ARBITRATING" -> idle("ARBITRATING")
         [] r.status \in {"RESOLVED_BY_AGENT", "NEEDS_CONFIRMATION", "RUN2SKILL_OWNED"} ->
              idle(r.status)
         [] r.status = "RECALLING" -> owned("SCANNING", fresh, fresh)
         [] r.status = "COVERAGE_READY" -> owned("COMPLETE", fresh, fresh)
         [] r.status \in {"COVERAGE_ANALYZING", "COVERAGE_RETRY_AUTHORIZED"} ->
              owned("COMPLETE", {"ANALYZING"}, fresh)
         [] r.status \in {"COVERED", "COVERED_NEEDS_CONFIRMATION"} ->
              owned("COMPLETE", {"COVERED"}, fresh)
         [] r.status \in {"CREATE_AUTHORIZED", "MERGE_AUTHORIZED"} ->
              /\ owned("COMPLETE", {r.generation.action}, {"GENERATION_AUTHORIZED"})
              /\ (r.status = "CREATE_AUTHORIZED") = (r.generation.action = "CREATE")
         [] r.status = "GENERATING" ->
              owned("COMPLETE", ours,
                    {"GENERATION_LEASED", "GENERATION_CALL_RESERVED",
                     "GENERATION_CALL_TERMINAL", "RESULT_COMMITTED",
                     "PROPOSAL_COMMIT_AUTHORIZED", "PROPOSAL_BODY_COMMITTED"})
         [] r.status = "PROPOSAL_READY" -> owned("COMPLETE", ours, {"PROPOSAL_READY"})
         [] r.status = "NEEDS_ATTENTION" ->
              \/ r.own.state = "NEEDS_CONFIRMATION" \/ r.recall.state = "INCOMPLETE"
              \/ r.coverage.state = "NEEDS_ATTENTION" \/ r.generation.state = "NEEDS_ATTENTION"
         [] r.status = "DISCARDED" ->
              r.reasons # {} /\ unused(r.generation) /\ ~r.lineage

QuietFits(r) ==
    /\ r.quiet.state = "SATISFIED" => r.quiet.observed >= 1 /\ r.quiet.detected = r.quiet.observed
    /\ r.status \notin {"DETECTOR_STAGED", "WAITING_FOR_QUIESCENCE"} =>
          r.quiet.state = "SATISFIED"

OwnershipFits(r) ==
    LET own == r.own
        ended == {"RESOLVED_BY_AGENT", "NEEDS_CONFIRMATION", "RUN2SKILL_OWNED"}
    IN /\ own.state = "NOT_STARTED" => own = Unowned
       /\ own.state # "NOT_STARTED" => own.claimed # 0 /\ own.claim = ClaimId(own.claimed)
       /\ own.evidence \in Observed => own.input
       /\ own.state \in ended => own.evidence # "NONE" /\ own.receipt = OwnershipReceipt(own)
       /\ own.resolved = (own.state = "RESOLVED_BY_AGENT")
       /\ own.state = "NEEDS_CONFIRMATION" => own.reason
       /\ own.state = "ARBITRATING" => own.receipt = None /\ ~own.reason
       /\ own.state = "RUN2SKILL_OWNED" => own.evidence = "SILENT"
       /\ own.state = "RESOLVED_BY_AGENT" => own.evidence = "WRITTEN"

RecallFits(r) ==
    LET recall == r.recall
    IN /\ recall.whole = (recall.state = "COMPLETE")
       /\ recall.state = "COMPLETE" => recall.summed /\ recall.plan # None
       /\ recall.state = "NOT_STARTED" =>
             /\ ~recall.summed /\ recall.candidates = {} /\ recall.classes = {}
             /\ recall.plan = None
       /\ recall.state = "INCOMPLETE" => recall.reason # "NONE"
       /\ \A c \in recall.candidates :
             /\ c.class # "UNRELATED"
             /\ \A k \in recall.classes : k.page = c.page => k.class = c.class
       /\ recall.excl # None => recall.excl.prior < r.rev /\ r.generation.refreshed

(* The plan of a scan is there as a whole or not at all, and is of an earlier revision. *)
ScanPlanFits(r) ==
    LET recall == r.recall
    IN /\ (recall.plan = None) = (recall.basis = 0)
       /\ (recall.plan = None) = (recall.binding = None)
       /\ recall.plan # None =>
             /\ recall.basis < r.rev
             /\ recall.binding = ScanBinding(recall.basis, recall.excl)
             /\ recall.plan = ScanPlan(recall.binding, recall.epoch)

(* The calls of the current plan: the retried one counts in place of the one that failed. *)
CurrentScans(r) ==
    IF r.recall.plan = None THEN {}
    ELSE {c \in CallsOf(r, "CATALOG_SCAN") :
             c.rev > r.recall.basis /\ (r.retry # None => c.id # r.retry.failed)}
EffectiveCall(r, page) ==
    LET original == ScanCall(r.recall.plan, page)
    IN IF r.retry # None /\ r.retry.failed = original
       THEN RetryCall(original, r.retry.rev) ELSE original
Sealed(call) == call.outcome = "SUCCEEDED" /\ call.failure = "NONE"

RetryFits(r) ==
    r.retry # None =>
       /\ \E c \in CallsOf(r, "CATALOG_SCAN") :
             /\ c.id = r.retry.failed /\ c.outcome = "FAILED" /\ c.failure = "TEMPORARY"
             /\ c.rev < r.retry.rev
       /\ r.retry.rev <= r.rev
       /\ [rev |-> r.retry.rev, reason |-> "RETRY"] \in r.reasons

ScanLedgerFits(r) ==
    LET scans == CurrentScans(r)
    IN /\ \A c \in scans : c.page \in Pages /\ c.id = EffectiveCall(r, c.page)
       /\ Cardinality({c.page : c \in scans}) = Cardinality(scans)
       /\ Cardinality({k.page : k \in r.recall.classes}) = Cardinality(r.recall.classes)
       /\ \A k \in r.recall.classes :
             \E c \in scans : c.id = k.call /\ c.outcome = "SUCCEEDED" /\ c.page = k.page
       /\ \A c \in scans : Sealed(c) = (\E k \in r.recall.classes : k.call = c.id)
       /\ Cardinality({k.page : k \in r.recall.candidates}) = Cardinality(r.recall.candidates)
       /\ r.recall.summed =>
             {c.page : c \in r.recall.candidates}
                = {k.page : k \in {k \in r.recall.classes : k.class # "UNRELATED"}}
       /\ r.recall.state = "COMPLETE" => {c.page : c \in scans} = Pages /\ \A c \in scans : Sealed(c)

Readable(r) == {c.page : c \in {c \in r.recall.candidates : c.can # "UNAVAILABLE"}}
CurrentCoverage(r) ==
    IF r.coverage.plan = None THEN {}
    ELSE {c \in CallsOf(r, "COVERAGE") : c.rev = r.coverage.basis}

(* The bodies that could be read make one page, and none make none. *)
CoveragePages(r) == IF r.coverage.bound = {} THEN {} ELSE {1}

(* The plan of an analysis is there as a whole or not at all, over what recall could read. *)
CoveragePlanFits(r) ==
    LET cov == r.coverage
    IN /\ (cov.plan = None) = (cov.basis = 0)
       /\ (cov.plan = None) = (cov.binding = None)
       /\ cov.plan = None => cov.bound = {} /\ cov.decisions = {}
       /\ cov.state = "NOT_STARTED" => ~cov.retryUsed /\ cov = Unanalyzed
       /\ r.status = "COVERAGE_RETRY_AUTHORIZED" => cov.retryUsed
       /\ cov.plan # None =>
             /\ cov.basis <= r.rev /\ cov.binding = CoverageBinding(cov.basis)
             /\ cov.bound = Readable(r)
             /\ cov.plan = CoveragePlan(cov.binding, r.recall.epoch, cov.bound)

(* A decision is from the one call that sealed its page; any other call decided nothing. *)
CoverageLedgerFits(r) ==
    LET cov == r.coverage
        calls == CurrentCoverage(r)
    IN /\ Cardinality({d.page : d \in cov.decisions}) = Cardinality(cov.decisions)
       /\ \A d \in cov.decisions :
             /\ d.page \in cov.bound /\ d.call = CoverageCall(cov.plan)
             /\ \E c \in calls : c.id = d.call /\ Sealed(c)
       /\ \A c \in calls :
             /\ c.page \in CoveragePages(r) /\ c.id = CoverageCall(cov.plan)
             /\ {d.page : d \in {d \in cov.decisions : d.call = c.id}}
                   = IF c.outcome = "SUCCEEDED" THEN cov.bound ELSE {}
       /\ Cardinality({c.page : c \in calls}) = Cardinality(calls)

(* What may be concluded: nothing is created beside a candidate nobody could    *)
(* read, and one is merged into only if it is the only partial one and writable. *)
CoverageVerdictFits(r) ==
    LET cov == r.coverage
        calls == CurrentCoverage(r)
        decided(set) == {d \in cov.decisions : d.decision \in set}
    IN /\ cov.state \in {"COVERED", "CREATE", "MERGE"} =>
             /\ cov.plan # None /\ cov.input = cov.plan
             /\ Cardinality(calls) = Cardinality(CoveragePages(r)) /\ \A c \in calls : Sealed(c)
             /\ Cardinality(cov.decisions) = Cardinality(cov.bound)
             /\ CallsOf(r, "COVERAGE") # {} \/ (cov.state = "CREATE" /\ r.recall.candidates = {})
       /\ cov.state = "CREATE" =>
             /\ decided({"UNRELATED"}) = cov.decisions /\ cov.target = 0
             /\ \A c \in r.recall.candidates : c.can # "UNAVAILABLE"
       /\ cov.state = "MERGE" =>
             /\ {d.page : d \in decided({"PARTIAL"})} = {cov.target}
             /\ decided({"PARTIAL", "UNRELATED"}) = cov.decisions
             /\ \E c \in r.recall.candidates : c.page = cov.target /\ c.can = "AVAILABLE"
       /\ cov.state = "COVERED" =>
             ~cov.retryUsed /\ \E d \in decided({"COVERED"}) : d.page = cov.target

(* The receipts a generation has to show in each of its states, and what each binds. *)
Receipt(kind, at) == [kind |-> kind, epoch |-> at]
Called == <<"LEASE_ACQUIRED", "CALL_RESERVED", "CALL_TERMINAL">>
Proposing == {"PROPOSAL_AUTHORIZED", "BODY_COMMITTED", "INDEX_COMMITTED"}
Authorized == Called \o <<"RESULT_SEALED", "PROPOSAL_AUTHORIZED">>
ReceiptsOf(state, reason) ==
    CASE state \in {"NOT_STARTED", "GENERATION_AUTHORIZED"} -> <<>>
      [] state = "GENERATION_LEASED" -> <<"LEASE_ACQUIRED">>
      [] state = "GENERATION_CALL_RESERVED" -> <<"LEASE_ACQUIRED", "CALL_RESERVED">>
      [] state = "GENERATION_CALL_TERMINAL" -> Called
      [] state = "RESULT_COMMITTED" -> Append(Called, "RESULT_SEALED")
      [] state = "PROPOSAL_COMMIT_AUTHORIZED" -> Authorized
      [] state = "PROPOSAL_BODY_COMMITTED" -> Append(Authorized, "BODY_COMMITTED")
      [] state = "PROPOSAL_READY" -> Authorized \o <<"BODY_COMMITTED", "INDEX_COMMITTED">>
      [] state = "NEEDS_ATTENTION" ->
           Append(Called, IF reason = "STALE_RESULT" THEN "RESULT_SEALED" ELSE "BARRIER_COMMITTED")

Proposed == {"PROPOSAL_COMMIT_AUTHORIZED", "PROPOSAL_BODY_COMMITTED", "PROPOSAL_READY"}
Committed == {"RESULT_COMMITTED"} \cup Proposed
GenerationCalls(r) == {c \in CallsOf(r, "GENERATION") : c.rev = r.generation.rev}
HasResult(gen) == gen.state \in Committed \/ gen.reason = "STALE_RESULT"

GenerationFits(r) ==
    LET gen == r.generation
        calls == GenerationCalls(r)
        before == {"NOT_STARTED", "GENERATION_AUTHORIZED"}
    IN /\ gen.state = "NOT_STARTED" =>
             /\ gen = Ungenerated(gen.refreshed)
             /\ \A c \in CallsOf(r, "GENERATION") : c.rev # r.rev
       /\ gen.state # "NOT_STARTED" =>
             /\ gen.action # "NONE" /\ gen.rev \in 1..r.rev /\ gen.epoch = r.recall.epoch
             /\ r.coverage.state \in {"CREATE", "MERGE"} => gen.action = r.coverage.state
       /\ gen.state # "NEEDS_ATTENTION" => gen.reason = "NONE"
       /\ gen.leased = (gen.state \notin before)
       /\ CASE gen.state \in before \cup {"GENERATION_LEASED"} -> calls = {}
            [] gen.state = "GENERATION_CALL_RESERVED" ->
                 Cardinality(calls) = 1 /\ \A c \in calls : c.outcome = "RESERVED"
            [] OTHER -> Cardinality(calls) = 1 /\ \A c \in calls : c.outcome # "RESERVED"
       /\ HasResult(gen) = (gen.sealed # None)
       /\ gen.sealed # None =>
             /\ gen.sealed.rev = gen.rev /\ gen.sealed.in = gen.epoch
             /\ gen.sealed.out = gen.sealed.in + 1 /\ gen.sealed.action = gen.action
             /\ \A c \in calls : c.id = gen.sealed.call /\ c.outcome = "SUCCEEDED"
       /\ (gen.state \in Proposed) = (gen.authorized # None)
       /\ (gen.state \in Proposed) = gen.proposal
       /\ gen.authorized # None =>
             gen.authorized = [epoch |-> gen.sealed.out, excl |-> gen.excl]
       /\ gen.refreshed = (r.recall.excl # None)
       /\ IF r.recall.excl = None THEN gen.excl = None
          ELSE gen.state # "NOT_STARTED" => gen.excl = r.recall.excl

(* The barrier of a failed or refreshed generation, and when a row must and must not have one. *)
BarrierKind(reason) ==
    CASE reason = "GENERATION_KNOWN_FAILED" -> "KNOWN_FAILED"
      [] reason = "GENERATION_RESULT_LOST" -> "RESULT_LOST"
      [] reason = "GENERATION_OUTCOME_UNKNOWN" -> "OUTCOME_UNKNOWN"
      [] OTHER -> "STALE_RESULT"
Cleaned(r) == [rev |-> r.rev, reason |-> "DISMISS"] \in r.reasons
BarrierFits(r) ==
    LET gen == r.generation
        barrier == r.barrier
        excl == r.recall.excl
        closed == r.status = "COVERED" \/ (r.status = "DISCARDED" /\ Cleaned(r))
        toAttention ==
            /\ gen.state = "NEEDS_ATTENTION" /\ barrier.rev = gen.rev
            /\ barrier.in = gen.epoch /\ BarrierKind(gen.reason) = barrier.kind
            /\ \A c \in GenerationCalls(r) : c.id = barrier.call
        toRefresh ==
            /\ excl # None /\ barrier.kind = "STALE_RESULT"
            /\ barrier.rev = excl.prior /\ barrier.out = excl.receipt
            /\ r.recall.state = "COMPLETE" => r.recall.epoch = barrier.out
    IN /\ r.status = "DISCARDED" => Cleaned(r)
       /\ excl # None /\ ~HasResult(gen) /\ ~closed => barrier # None
       /\ HasResult(gen) \/ closed => barrier = None
       /\ barrier # None => barrier.out = barrier.in + 1 /\ (toAttention \/ toRefresh)
       /\ gen.state = "NEEDS_ATTENTION" =>
             gen.reason # "NONE" /\ (gen.reason = "STALE_RESULT") = (barrier = None)

(* A receipt is of the epoch its step was taken at or has moved the catalog to. *)
ReceiptsFit(r) ==
    LET gen == r.generation
        due(kind) ==
            CASE kind \in {"BODY_COMMITTED", "INDEX_COMMITTED"} -> gen.authorized.epoch + 1
              [] kind \in {"RESULT_SEALED", "PROPOSAL_AUTHORIZED"} -> gen.sealed.out
              [] kind = "BARRIER_COMMITTED" -> r.barrier.out
              [] OTHER -> gen.epoch
        kinds == ReceiptsOf(gen.state, gen.reason)
    IN gen.receipts = [i \in DOMAIN kinds |-> Receipt(kinds[i], due(kinds[i]))]

CallsFit(r) ==
    /\ Cardinality({c.id : c \in r.calls}) = Cardinality(r.calls)
    /\ \A c \in r.calls : c.rev <= r.rev
    /\ r.status = "PROPOSAL_READY" => r.lineage

(* The identity, the signature and the evidence of an intent are as they were detected. *)
Valid(r) ==
    /\ r.status \in Statuses /\ StatusFits(r) /\ QuietFits(r) /\ OwnershipFits(r)
    /\ RecallFits(r) /\ ScanPlanFits(r) /\ RetryFits(r) /\ ScanLedgerFits(r)
    /\ CoveragePlanFits(r) /\ CoverageLedgerFits(r) /\ CoverageVerdictFits(r)
    /\ GenerationFits(r) /\ BarrierFits(r) /\ ReceiptsFit(r) /\ CallsFit(r)

----
(* A write bumps the revision; one the schema refuses is a throw. *)
Written(new) == [new EXCEPT !.rev = row.rev + 1]
Put(new) ==
    LET written == Written(new)
    IN IF Valid(written) THEN row' = written /\ refused' = refused
       ELSE row' = row /\ refused' = refused \cup {new.status}
Revision == row.rev + 1
Moving == moves < MaxMoves /\ moves' = moves + 1
Record(call) == [row EXCEPT !.calls = @ \cup {call}]
NewCall(id, rev, page) ==
    [id |-> id, rev |-> rev, page |-> page, outcome |-> "RESERVED", failure |-> "NONE"]
(* The calls after the one with this identity ended. *)
Ended(id, outcome, failure) ==
    {IF c.id = id THEN [c EXCEPT !.outcome = outcome, !.failure = failure] ELSE c : c \in row.calls}

(* The detector's batch is committed and its intents are released to wait. *)
ReleaseStaged ==
    /\ row.status = "DETECTOR_STAGED"
    /\ Put([row EXCEPT !.status = "WAITING_FOR_QUIESCENCE"])
    /\ UNCHANGED <<epoch, lease, flight, moves>>

(* The session has been silent for long enough. *)
Release ==
    /\ row.status = "WAITING_FOR_QUIESCENCE"
    /\ Put([row EXCEPT !.status = "READY", !.quiet = Satisfied(1)])
    /\ UNCHANGED <<epoch, lease, flight, moves>>

(* The session has gone on to turns that were detected after this batch. *)
Supersede ==
    /\ row.status = "WAITING_FOR_QUIESCENCE"
    /\ Put([row EXCEPT !.status = "NEEDS_ATTENTION", !.quiet = Satisfied(2),
                       !.coverage.state = "NEEDS_ATTENTION"])
    /\ UNCHANGED <<epoch, lease, flight, moves>>

(* The session spoke before ownership was decided. *)
PutBack ==
    /\ row.status \in {"READY", "OWNERSHIP_ARBITRATING"} /\ Moving
    /\ Put([row EXCEPT !.status = "WAITING_FOR_QUIESCENCE", !.quiet = Waiting, !.own = Unowned])
    /\ UNCHANGED <<epoch, lease, flight>>

ClaimOwnership ==
    /\ row.status = "READY"
    /\ Put([row EXCEPT !.status = "OWNERSHIP_ARBITRATING",
                       !.own = [Unowned EXCEPT !.state = "ARBITRATING", !.claimed = row.rev,
                                               !.claim = ClaimId(row.rev)]])
    /\ UNCHANGED <<epoch, lease, flight, moves>>

BindInput ==
    /\ row.status = "OWNERSHIP_ARBITRATING" /\ ~row.own.input /\ row.own.evidence = "NONE"
    /\ Put([row EXCEPT !.own.input = TRUE])
    /\ UNCHANGED <<epoch, lease, flight, moves>>

(* What was observed needs its input bound; that nothing was observed does not. *)
SealEvidence ==
    /\ row.status = "OWNERSHIP_ARBITRATING" /\ row.own.evidence = "NONE"
    /\ \E evidence \in {"UNAVAILABLE"} \cup (IF row.own.input THEN Observed ELSE {}) :
          Put([row EXCEPT !.own.evidence = evidence])
    /\ UNCHANGED <<epoch, lease, flight, moves>>

Decisions(evidence) ==
    {"NEEDS_CONFIRMATION"} \cup
        CASE evidence = "SILENT" -> {"RUN2SKILL_OWNED"}
          [] evidence = "WRITTEN" -> {"RESOLVED_BY_AGENT"}
          [] OTHER -> {}

(* Without its batch nothing is decided, whatever the evidence. *)
DecideOwnership ==
    /\ row.status = "OWNERSHIP_ARBITRATING" /\ row.own.evidence # "NONE"
    /\ \E state \in Decisions(row.own.evidence) :
          LET own == [row.own EXCEPT !.state = state, !.reason = (state = "NEEDS_CONFIRMATION"),
                                     !.resolved = (state = "RESOLVED_BY_AGENT")]
          IN Put([row EXCEPT !.status = state,
                             !.own = [own EXCEPT !.receipt = OwnershipReceipt(own)]])
    /\ UNCHANGED <<epoch, lease, flight, moves>>

----
(* Catalog recall. *)
ClaimRecall ==
    /\ row.status = "RUN2SKILL_OWNED"
    /\ Put([row EXCEPT !.status = "RECALLING", !.recall = [Unscanned EXCEPT !.state = "SCANNING"]])
    /\ UNCHANGED <<epoch, lease, flight, moves>>

PlanScan ==
    /\ row.status = "RECALLING" /\ row.recall.plan = None
    /\ LET binding == ScanBinding(row.rev, row.recall.excl)
       IN Put([row EXCEPT !.recall = [@ EXCEPT
                !.epoch = epoch, !.basis = row.rev, !.binding = binding,
                !.plan = ScanPlan(binding, epoch), !.classes = {}]])
    /\ UNCHANGED <<epoch, lease, flight, moves>>

(* The page the scan has come to. *)
ScanningPage(page) ==
    LET done(p) == \E c \in row.calls : c.id = EffectiveCall(row, p) /\ c.outcome = "SUCCEEDED"
    IN /\ row.status = "RECALLING" /\ row.recall.plan # None
       /\ ~done(page) /\ \A p \in 1..(page - 1) : done(p)

ReservePage ==
    /\ \E page \in Pages :
          LET id == EffectiveCall(row, page)
          IN /\ ScanningPage(page) /\ \A c \in row.calls : c.id # id
             /\ Put(Record(NewCall(id, row.rev, page)))
             /\ flight' = id
    /\ UNCHANGED <<epoch, lease, moves>>

AnswerPage ==
    /\ \E page \in Pages, class \in {"RELEVANT", "UNRELATED"} :
          /\ ScanningPage(page) /\ flight = EffectiveCall(row, page)
          /\ Put([row EXCEPT !.recall.classes = @ \cup {[page |-> page, class |-> class, call |-> flight]},
                             !.calls = Ended(flight, "SUCCEEDED", "NONE")])
    /\ flight' = None
    /\ UNCHANGED <<epoch, lease, moves>>

Incomplete(calls, reason) ==
    [row EXCEPT !.status = "NEEDS_ATTENTION", !.calls = calls,
                !.recall = [@ EXCEPT !.state = "INCOMPLETE", !.whole = FALSE,
                                     !.summed = FALSE, !.reason = reason]]

(* An unusable answer is a success with a failure code. *)
FailPage ==
    /\ row.status = "RECALLING" /\ flight # None
    /\ \E failure \in {"TEMPORARY", "OTHER", "INVALID"} :
          Put(Incomplete(Ended(flight, IF failure = "INVALID" THEN "SUCCEEDED" ELSE "FAILED", failure),
                         failure))
    /\ flight' = None
    /\ UNCHANGED <<epoch, lease, moves>>

(* Mutant of LosePage: recovery does not see that the call was the retried one. *)
LoseFirstCall ==
    /\ row.status = "RECALLING" /\ flight = None
    /\ \E page \in Pages, c \in row.calls :
          /\ row.recall.plan # None /\ c.id = ScanCall(row.recall.plan, page) /\ c.outcome = "RESERVED"
          /\ Put(Incomplete(Ended(c.id, "OUTCOME_UNKNOWN", "OTHER"), "OTHER"))
    /\ UNCHANGED <<epoch, lease, flight, moves>>

(* Recovery meets a call whose process is gone. *)
LosePage ==
    /\ row.status = "RECALLING" /\ flight = None
    /\ \E page \in Pages, c \in row.calls :
          /\ row.recall.plan # None /\ c.id = EffectiveCall(row, page) /\ c.outcome = "RESERVED"
          /\ Put(Incomplete(Ended(c.id, "OUTCOME_UNKNOWN", "OTHER"), "OTHER"))
    /\ UNCHANGED <<epoch, lease, flight, moves>>

Idle(stage) == flight = None /\ \A c \in CallsOf(row, stage) : c.outcome # "RESERVED"

(* No batch, no complete catalog, another catalog than the plan's, too many pages. *)
GiveUpRecall ==
    /\ row.status = "RECALLING" /\ Idle("CATALOG_SCAN")
    /\ Put(Incomplete(row.calls, "OTHER"))
    /\ UNCHANGED <<epoch, lease, flight, moves>>

Scanned == \A p \in Pages : ~ScanningPage(p)
(* What reading every relevant candidate can have come to. *)
Loads ==
    LET relevant == {k.page : k \in {k \in row.recall.classes : k.class = "RELEVANT"}}
    IN {{[page |-> p, class |-> "RELEVANT", can |-> f[p]] : p \in relevant} :
            f \in [relevant -> Reads]}

FinishRecall ==
    /\ row.status = "RECALLING" /\ row.recall.plan # None /\ Idle("CATALOG_SCAN")
    /\ Scanned /\ epoch = row.recall.epoch
    /\ \E loaded \in Loads :
          IF \E c \in loaded : c.can = "UNAVAILABLE"
          THEN Put([Incomplete(row.calls, "OTHER") EXCEPT !.recall.summed = TRUE,
                                                          !.recall.candidates = loaded])
          ELSE Put([row EXCEPT !.status = "COVERAGE_READY",
                     !.recall = [@ EXCEPT !.state = "COMPLETE", !.whole = TRUE, !.summed = TRUE,
                                          !.candidates = loaded]])
    /\ UNCHANGED <<epoch, lease, flight, moves>>

----
(* Coverage analysis. *)
ClaimCoverage ==
    /\ row.status \in {"COVERAGE_READY", "COVERAGE_RETRY_AUTHORIZED"}
    /\ LET retry == row.status = "COVERAGE_RETRY_AUTHORIZED" \/ row.coverage.retryUsed
       IN Put([row EXCEPT !.status = "COVERAGE_ANALYZING",
                          !.coverage = [Unanalyzed EXCEPT !.state = "ANALYZING", !.retryUsed = retry]])
    /\ UNCHANGED <<epoch, lease, flight, moves>>

PlanCoverage ==
    /\ row.status = "COVERAGE_ANALYZING" /\ row.coverage.plan = None
    /\ epoch = row.recall.epoch
    /\ LET binding == CoverageBinding(row.rev)
           bound == Readable(row)
       IN Put([row EXCEPT !.coverage = [@ EXCEPT
                !.basis = row.rev, !.binding = binding, !.bound = bound,
                !.plan = CoveragePlan(binding, row.recall.epoch, bound)]])
    /\ UNCHANGED <<epoch, lease, flight, moves>>

ReserveCoverage ==
    /\ row.status = "COVERAGE_ANALYZING" /\ row.coverage.plan # None /\ row.coverage.bound # {}
    /\ LET id == CoverageCall(row.coverage.plan)
       IN /\ \A c \in row.calls : c.id # id
          /\ Put(Record(NewCall(id, row.coverage.basis, 1)))
          /\ flight' = id
    /\ UNCHANGED <<epoch, lease, moves>>

AnswerCoverage ==
    /\ row.status = "COVERAGE_ANALYZING" /\ flight # None
    /\ \E answer \in [row.coverage.bound -> {"UNRELATED", "PARTIAL", "COVERED"}] :
          Put([row EXCEPT !.calls = Ended(flight, "SUCCEEDED", "NONE"),
                 !.coverage.decisions = {[page |-> p, decision |-> answer[p], call |-> flight] :
                                            p \in row.coverage.bound}])
    /\ flight' = None
    /\ UNCHANGED <<epoch, lease, moves>>

Unclear(calls) ==
    [row EXCEPT !.status = "NEEDS_ATTENTION", !.calls = calls, !.coverage.state = "NEEDS_ATTENTION"]

FailCoverage ==
    /\ row.status = "COVERAGE_ANALYZING" /\ flight # None
    /\ Put(Unclear(Ended(flight, "FAILED", "OTHER")))
    /\ flight' = None
    /\ UNCHANGED <<epoch, lease, moves>>

LoseCoverage ==
    /\ row.status = "COVERAGE_ANALYZING" /\ flight = None
    /\ \E c \in CurrentCoverage(row) :
          c.outcome = "RESERVED" /\ Put(Unclear(Ended(c.id, "OUTCOME_UNKNOWN", "OTHER")))
    /\ UNCHANGED <<epoch, lease, flight, moves>>

(* No batch, another catalog, a body that changed, a budget, an ambiguous answer. *)
GiveUpCoverage ==
    /\ row.status = "COVERAGE_ANALYZING" /\ Idle("COVERAGE")
    /\ Put(Unclear(row.calls))
    /\ UNCHANGED <<epoch, lease, flight, moves>>

Concluding ==
    /\ row.status = "COVERAGE_ANALYZING" /\ row.coverage.plan # None /\ epoch = row.recall.epoch
    /\ {d.page : d \in row.coverage.decisions} = row.coverage.bound
Given(decision) == {d.page : d \in {d \in row.coverage.decisions : d.decision = decision}}

ConcludeCovered ==
    /\ Concluding
    /\ \E target \in Given("COVERED") :
          IF row.coverage.retryUsed THEN Put(Unclear(row.calls))
          ELSE Put([row EXCEPT
                 !.status = IF row.explicit THEN "COVERED_NEEDS_CONFIRMATION" ELSE "COVERED",
                 !.coverage = [@ EXCEPT !.state = "COVERED", !.input = row.coverage.plan,
                                        !.target = target]])
    /\ UNCHANGED <<epoch, lease, flight, moves>>

Authorize(action, target) ==
    Put([row EXCEPT
          !.status = IF action = "CREATE" THEN "CREATE_AUTHORIZED" ELSE "MERGE_AUTHORIZED",
          !.coverage = [@ EXCEPT !.state = action, !.input = row.coverage.plan, !.target = target],
          !.generation = [Ungenerated(row.generation.refreshed) EXCEPT
              !.state = "GENERATION_AUTHORIZED", !.action = action, !.rev = Revision,
              !.epoch = row.recall.epoch, !.excl = row.recall.excl]])

ConcludeOpen ==
    /\ Concluding /\ Given("COVERED") = {}
    /\ \/ Given("PARTIAL") = {} /\ Authorize("CREATE", 0)
       \/ \E c \in row.recall.candidates :
             /\ Given("PARTIAL") = {c.page} /\ c.can = "AVAILABLE"
             /\ Authorize("MERGE", c.page)
    /\ UNCHANGED <<epoch, lease, flight, moves>>

----
(* Generation.  A step here is the row's write with the write of the global *)
(* record that goes with it, except where a crash between the two is told   *)
(* apart by recovery.                                                       *)
Mine == GenerationCall(row.generation.rev)
(* Before the call everything can be given back; the reason stays in coverage. *)
Ungenerate(calls) ==
    [row EXCEPT !.status = "NEEDS_ATTENTION", !.coverage.state = "NEEDS_ATTENTION",
                !.generation = Ungenerated(row.generation.refreshed), !.calls = calls]

RefuseGeneration ==
    /\ row.status \in {"CREATE_AUTHORIZED", "MERGE_AUTHORIZED"}
    /\ Put(Ungenerate(row.calls))
    /\ UNCHANGED <<epoch, lease, flight, moves>>

Acquire ==
    /\ row.status \in {"CREATE_AUTHORIZED", "MERGE_AUTHORIZED"}
    /\ lease = "NONE" /\ epoch = row.generation.epoch
    /\ Put([row EXCEPT !.status = "GENERATING", !.generation = [@ EXCEPT
             !.state = "GENERATION_LEASED", !.leased = TRUE,
             !.receipts = <<Receipt("LEASE_ACQUIRED", row.generation.epoch)>>]])
    /\ lease' = "NOT_CALLED" /\ flight' = Mine
    /\ UNCHANGED <<epoch, moves>>

(* Released before the call: first the lease, then the row; recovery does the second part. *)
ReleaseLease ==
    /\ row.generation.state = "GENERATION_LEASED" /\ lease = "NOT_CALLED" /\ flight = Mine
    /\ lease' = "NONE" /\ flight' = None
    /\ UNCHANGED <<row, epoch, refused, moves>>
ResetPreCall ==
    /\ row.generation.state = "GENERATION_LEASED" /\ lease = "NONE"
    /\ Put(Ungenerate({c \in row.calls : c.id.stage # "GENERATION" \/ c.rev # row.generation.rev}))
    /\ UNCHANGED <<epoch, lease, flight, moves>>

(* The lease says that the call may be made before the row does. *)
MarkCalled ==
    /\ row.generation.state = "GENERATION_LEASED" /\ lease = "NOT_CALLED" /\ flight = Mine
    /\ lease' = "CALLED"
    /\ UNCHANGED <<row, epoch, flight, refused, moves>>

Step(state, receipt, at) ==
    [row.generation EXCEPT !.state = state, !.receipts = Append(@, Receipt(receipt, at))]

ReserveCall ==
    /\ row.generation.state = "GENERATION_LEASED" /\ lease = "CALLED" /\ flight = Mine
    /\ Put([Record(NewCall(Mine, row.generation.rev, 1)) EXCEPT
             !.generation = Step("GENERATION_CALL_RESERVED", "CALL_RESERVED", row.generation.epoch)])
    /\ UNCHANGED <<epoch, lease, flight, moves>>

TerminalCall ==
    /\ row.generation.state = "GENERATION_CALL_RESERVED" /\ flight = Mine
    /\ \E outcome \in {"SUCCEEDED", "FAILED"} :
          Put([row EXCEPT !.generation = Step("GENERATION_CALL_TERMINAL", "CALL_TERMINAL", @.epoch),
                          !.calls = Ended(Mine, outcome, "NONE")])
    /\ UNCHANGED <<epoch, lease, flight, moves>>

(* Recovery: the lease says called, so a call there may have been. *)
ForceUnknown ==
    /\ row.generation.state \in {"GENERATION_LEASED", "GENERATION_CALL_RESERVED"}
    /\ lease = "CALLED" /\ flight = None
    /\ LET lost == [NewCall(Mine, row.generation.rev, 1) EXCEPT !.outcome = "OUTCOME_UNKNOWN",
                                                                !.failure = "OTHER"]
       IN Put([row EXCEPT
             !.generation = [@ EXCEPT !.state = "GENERATION_CALL_TERMINAL",
                 !.receipts = [i \in DOMAIN Called |-> Receipt(Called[i], row.generation.epoch)]],
             !.calls = IF \E c \in row.calls : c.id = Mine
                       THEN Ended(Mine, "OUTCOME_UNKNOWN", "OTHER") ELSE @ \cup {lost}])
    /\ UNCHANGED <<epoch, lease, flight, moves>>

(* What the call returned, kept with the epoch it was made at and the one it moves to. *)
SealedResult ==
    LET gen == row.generation
    IN [rev |-> gen.rev, call |-> Mine, action |-> gen.action, in |-> gen.epoch, out |-> gen.epoch + 1]

(* Mutant of SealResult: a refreshed generation keeps the barrier of the one before. *)
SealResultKeepsBarrier ==
    /\ row.generation.state = "GENERATION_CALL_TERMINAL" /\ flight = Mine
    /\ lease = "CALLED" /\ epoch = row.generation.epoch
    /\ \A c \in GenerationCalls(row) : c.outcome = "SUCCEEDED"
    /\ Put([row EXCEPT !.generation = [Step("RESULT_COMMITTED", "RESULT_SEALED", SealedResult.out) EXCEPT
                                !.sealed = SealedResult]])
    /\ epoch' = epoch + 1 /\ lease' = "RESULT" /\ flight' = None
    /\ UNCHANGED moves

SealResult ==
    /\ row.generation.state = "GENERATION_CALL_TERMINAL" /\ flight = Mine
    /\ lease = "CALLED" /\ epoch = row.generation.epoch
    /\ \A c \in GenerationCalls(row) : c.outcome = "SUCCEEDED"
    /\ Put([row EXCEPT !.barrier = None,
             !.generation = [Step("RESULT_COMMITTED", "RESULT_SEALED", SealedResult.out) EXCEPT
                                !.sealed = SealedResult]])
    /\ epoch' = epoch + 1 /\ lease' = "RESULT" /\ flight' = None
    /\ UNCHANGED moves

(* A result that was lost or unusable, a failure, or nobody knows. *)
FailureOf(outcome) ==
    CASE outcome = "SUCCEEDED" -> "GENERATION_RESULT_LOST"
      [] outcome = "FAILED" -> "GENERATION_KNOWN_FAILED"
      [] outcome = "OUTCOME_UNKNOWN" -> "GENERATION_OUTCOME_UNKNOWN"
Barrier(kind, at) ==
    [kind |-> kind, rev |-> row.generation.rev, call |-> Mine, in |-> at, out |-> at + 1]

CommitBarrier ==
    /\ row.generation.state = "GENERATION_CALL_TERMINAL"
    /\ lease = "CALLED" /\ epoch = row.generation.epoch
    /\ \E c \in GenerationCalls(row) :
          LET reason == FailureOf(c.outcome)
              barrier == Barrier(BarrierKind(reason), row.generation.epoch)
          IN Put([row EXCEPT !.status = "NEEDS_ATTENTION", !.barrier = barrier,
                    !.generation = [Step("NEEDS_ATTENTION", "BARRIER_COMMITTED", barrier.out) EXCEPT
                        !.reason = reason]])
    /\ epoch' = epoch + 1 /\ lease' = "NONE" /\ flight' = None
    /\ UNCHANGED moves

AuthorizeProposal ==
    /\ row.generation.state = "RESULT_COMMITTED"
    /\ LET gen == row.generation
       IN Put([row EXCEPT !.generation =
                [Step("PROPOSAL_COMMIT_AUTHORIZED", "PROPOSAL_AUTHORIZED", gen.sealed.out) EXCEPT
                    !.proposal = TRUE, !.authorized = [epoch |-> gen.sealed.out, excl |-> gen.excl]]])
    /\ UNCHANGED <<epoch, lease, flight, moves>>

CommitBody ==
    /\ row.generation.state = "PROPOSAL_COMMIT_AUTHORIZED"
    /\ Put([row EXCEPT !.lineage = TRUE,
                       !.generation = Step("PROPOSAL_BODY_COMMITTED", "BODY_COMMITTED", @.authorized.epoch + 1)])
    /\ UNCHANGED <<epoch, lease, flight, moves>>

CommitIndex ==
    /\ row.generation.state = "PROPOSAL_BODY_COMMITTED"
    /\ Put([row EXCEPT !.status = "PROPOSAL_READY",
                       !.generation = Step("PROPOSAL_READY", "INDEX_COMMITTED", @.authorized.epoch + 1)])
    /\ epoch' = epoch + 1 /\ lease' = "NONE"
    /\ UNCHANGED <<flight, moves>>

(* The catalog, the target or the session has changed since the result was sealed. *)
MarkStale ==
    /\ row.generation.state \in {"RESULT_COMMITTED", "PROPOSAL_COMMIT_AUTHORIZED", "PROPOSAL_BODY_COMMITTED"}
    /\ LET kept == [row.generation EXCEPT !.proposal = FALSE, !.authorized = None]
       IN Put([row EXCEPT !.status = "NEEDS_ATTENTION", !.lineage = FALSE,
                !.generation = [kept EXCEPT !.state = "NEEDS_ATTENTION", !.reason = "STALE_RESULT",
                                            !.receipts = SelectSeq(@, LAMBDA x : x.kind \notin Proposing)]])
    /\ lease' = "NONE"
    /\ UNCHANGED <<epoch, flight, moves>>

----
(* What the user asks for. *)
Dispute ==
    /\ row.status = "COVERED_NEEDS_CONFIRMATION" /\ ~row.coverage.retryUsed
    /\ Put([row EXCEPT !.status = "COVERAGE_RETRY_AUTHORIZED",
             !.coverage = [@ EXCEPT !.state = "ANALYZING", !.retryUsed = TRUE],
             !.reasons = @ \cup {[rev |-> Revision, reason |-> "DISPUTE"]}])
    /\ UNCHANGED <<epoch, lease, flight, moves>>

RetryableCall ==
    IF row.status = "NEEDS_ATTENTION" /\ row.recall.state = "INCOMPLETE"
       /\ row.recall.reason = "TEMPORARY" /\ row.recall.plan # None /\ row.retry = None
    THEN {c \in CallsOf(row, "CATALOG_SCAN") :
             /\ c.outcome = "FAILED" /\ c.failure = "TEMPORARY"
             /\ c.id = ScanCall(row.recall.plan, c.page)}
    ELSE {}

RetryCatalog ==
    /\ \E c \in RetryableCall :
          Put([row EXCEPT !.status = "RECALLING",
                !.recall = [@ EXCEPT !.state = "SCANNING", !.reason = "NONE"],
                !.retry = [rev |-> Revision, failed |-> c.id],
                !.reasons = @ \cup {[rev |-> Revision, reason |-> "RETRY"]}])
    /\ UNCHANGED <<epoch, lease, flight, moves>>

Dismiss ==
    /\ row.status \in {"NEEDS_CONFIRMATION", "COVERED_NEEDS_CONFIRMATION", "NEEDS_ATTENTION"}
    /\ Put([row EXCEPT !.status = "DISCARDED", !.lineage = FALSE, !.barrier = None,
                       !.generation = Ungenerated(row.generation.refreshed),
                       !.reasons = @ \cup {[rev |-> Revision, reason |-> "DISMISS"]}])
    /\ epoch' = epoch + 1
    /\ UNCHANGED <<lease, flight, moves>>

(* A proposal that the catalog has overtaken is generated anew, once. *)
Refresh ==
    /\ row.status = "PROPOSAL_READY" /\ ~row.generation.refreshed
    /\ LET excl == [prior |-> row.generation.rev, receipt |-> epoch + 1]
       IN Put([row EXCEPT !.status = "RECALLING", !.lineage = FALSE,
                !.recall = [Unscanned EXCEPT !.state = "SCANNING", !.excl = excl],
                !.coverage = Unanalyzed, !.generation = Ungenerated(TRUE),
                !.barrier = Barrier("STALE_RESULT", epoch)])
    /\ epoch' = epoch + 1
    /\ UNCHANGED <<lease, flight, moves>>

----
(* Another intent's or a user's mutation of the catalog; nobody's while the lease is held. *)
CatalogMoves ==
    /\ lease = "NONE" /\ Moving
    /\ epoch' = epoch + 1
    /\ UNCHANGED <<row, lease, flight, refused>>

Restart ==
    /\ flight # None /\ Moving
    /\ flight' = None
    /\ UNCHANGED <<row, epoch, lease, refused>>

Init ==
    /\ \E explicit \in BOOLEAN : row = Staged(explicit)
    /\ epoch = 0 /\ lease = "NONE" /\ flight = None /\ refused = {} /\ moves = 0

Arbitrate == ClaimOwnership \/ BindInput \/ SealEvidence \/ DecideOwnership
Recall ==
    \/ ClaimRecall \/ PlanScan \/ ReservePage \/ AnswerPage \/ FailPage \/ LosePage
    \/ GiveUpRecall \/ FinishRecall
Analyze ==
    \/ ClaimCoverage \/ PlanCoverage \/ ReserveCoverage \/ AnswerCoverage \/ FailCoverage
    \/ LoseCoverage \/ GiveUpCoverage \/ ConcludeCovered \/ ConcludeOpen
Generate ==
    \/ RefuseGeneration \/ Acquire \/ ReleaseLease \/ ResetPreCall \/ MarkCalled \/ ReserveCall
    \/ TerminalCall \/ ForceUnknown \/ SealResult \/ CommitBarrier
    \/ AuthorizeProposal \/ CommitBody \/ CommitIndex \/ MarkStale
Work == ReleaseStaged \/ Release \/ Supersede \/ Arbitrate \/ Recall \/ Analyze \/ Generate
User == Dispute \/ RetryCatalog \/ Dismiss \/ Refresh

Next == Work \/ User \/ PutBack \/ CatalogMoves \/ Restart
(* The drain calls the workers for as long as one of them finds something to do. *)
Spec == Init /\ [][Next]_vars /\ WF_vars(Work)

----
(* The workers, the recoveries, the user's actions and the schema were written *)
(* apart; whatever the order they act in, none asks for a row the schema       *)
(* refuses, but for a refreshed intent whose catalog has moved on before its   *)
(* scan was planned, and a refreshed intent that turns out to be covered.      *)
OnlyRefreshedIsRefused ==
    refused # {} =>
        row.generation.refreshed /\ refused \subseteq {"COVERAGE_READY", "COVERED", "COVERED_NEEDS_CONFIRMATION"}

(* A crash behind the row's write of the lease leaves both as they are. *)
Stranded ==
    row.generation.state = "GENERATION_LEASED" /\ lease = "NOT_CALLED" /\ flight = None
Settled ==
    {"RESOLVED_BY_AGENT", "NEEDS_CONFIRMATION", "COVERED", "COVERED_NEEDS_CONFIRMATION",
     "PROPOSAL_READY", "NEEDS_ATTENTION", "DISCARDED"}
(* From its detection every intent comes to rest where it ended or waits for   *)
(* the user, and gives up the lease it took, through crashes, retries, disputes *)
(* and refreshes, unless a write was refused or a crash left its lease behind. *)
IntentSettles ==
    <>[]((row.status \in Settled /\ lease = "NONE") \/ refused # {} \/ Stranded)
====
