----------------------------- MODULE Generation -----------------------------
(***************************************************************************)
(* From an owned experience intent to an active proposal: the generation   *)
(* worker with its durable lease and call ledger, and the user's mutations *)
(* that share the Pending Catalog epoch with it (refresh, dismissal and    *)
(* rejection) or look at a proposal while it is being committed            *)
(* (inspection).                                                           *)
(*                                                                         *)
(* The store gives three kinds of durable write, each atomic by itself:    *)
(* the global record (epoch, mutation journal, lease, behaviour index),    *)
(* one intent, one proposal lineage.  Every operation is a sequence of     *)
(* such writes, so each write is a step and the process may stop, or the   *)
(* write may throw, between any two.                                       *)
(***************************************************************************)
EXTENDS Integers, Sequences, FiniteSets

CONSTANTS
    NIntent,           \* experience intents, numbered by createdAt
    Behaviour,         \* (persistence scope, behaviour signature) pairs
    BehaviourOf,       \* the behaviour of each intent
    RecallOutcomes,    \* what recall may conclude: "COMPLETE", "INCOMPLETE"
    CoverageOutcomes,  \* and coverage: "AUTHORIZED", "ATTENTION", "COVERED"
    CallOutcomes,      \* and the model call: "VALID", "INVALID", "FAILED"
    Actions,           \* user mutations: "REFRESH", "DISMISS", "REJECT"
    Views,             \* what inspecting finds: "CURRENT", "STALE", "UNAVAILABLE"
    MaxRevision,       \* bound: a lineage is inspected up to this revision
    MaxCrashes,        \* bound: crashes of the process
    MaxFaults          \* bound: durable writes that throw

ASSUME SizesAssumption ==
    NIntent \in Nat \ {0} /\ MaxRevision \in Nat /\ MaxCrashes \in Nat /\ MaxFaults \in Nat
ASSUME BehavioursAssumption == BehaviourOf \in [1 .. NIntent -> Behaviour]
ASSUME OutcomesAssumption ==
    /\ RecallOutcomes \subseteq {"COMPLETE", "INCOMPLETE"}
    /\ CoverageOutcomes \subseteq {"AUTHORIZED", "ATTENTION", "COVERED"}
    /\ CallOutcomes \subseteq {"VALID", "INVALID", "FAILED"}
    /\ Actions \subseteq {"REFRESH", "DISMISS", "REJECT"}
    /\ Views \subseteq {"CURRENT", "STALE", "UNAVAILABLE"}

Intent == 1 .. NIntent
Round == 1 .. 2          \* generation revisions: the second follows the one refresh

(* What a journal belongs to: the generation <<i, r>> that owns the sealed
   result, the barrier or the proposal, or <<i, 0>> for the intent itself.   *)
Owner == Intent \X (0 .. 2)
NoOwner == <<0, 0>>

NoJournal == [kind |-> "NONE", owner |-> NoOwner, at |-> 0]
Journal == [kind : {"GENERATION_RESULT", "BARRIER", "PROPOSAL", "USER_ACTION", "REVIEW"},
            owner : Owner, at : Nat] \cup {NoJournal}

NoLease == [state |-> "NONE", i |-> 0, round |-> 0, epoch |-> 0]
ResultStates == {"RESULT_COMMITTED", "PROPOSAL_COMMIT_AUTHORIZED"}
BodyStates == {"BODY_COMMITTED_INDEX_PENDING", "ACTIVE_COMPLETE"}
Lease == [state : {"NOT_CALLED", "CALL_RESERVED"} \cup ResultStates \cup BodyStates,
          i : Intent, round : Round, epoch : Nat] \cup {NoLease}

NoEntry == [owner |-> 0, state |-> "NONE"]
Entry == [owner : Intent, state : {"RESERVED", "ACTIVE"}] \cup {NoEntry}
Global == [epoch : Nat, journal : Journal, lease : Lease, index : [Behaviour -> Entry]]

(* An intent's status and generation state, which move together.  WAITING
   stands for every status before the worker owns the intent; PRECALL for the
   attention states that hold no generation.                                 *)
SealedStages == {"RESULT_COMMITTED", "PROPOSAL_COMMIT_AUTHORIZED", "PROPOSAL_BODY_COMMITTED"}
Stages == {"WAITING", "RECALLING", "COVERAGE", "COVERED", "AUTHORIZED", "LEASED",
           "CALL_RESERVED", "CALL_TERMINAL", "READY", "ATTENTION", "PRECALL",
           "DISCARDED"} \cup SealedStages
Calls == {"NONE", "RESERVED", "SUCCEEDED", "FAILED", "OUTCOME_UNKNOWN"}
Failures == {"KNOWN_FAILED", "RESULT_LOST", "OUTCOME_UNKNOWN"}
NoBarrier == [kind |-> "NONE", at |-> 0]
Barrier == [kind : Failures \cup {"STALE_RESULT"}, at : Nat] \cup {NoBarrier}
Unplanned == -1
IntentRow == [stage : Stages, round : Round, epoch : Nat \cup {Unplanned}, call : Calls,
              decision : {"NONE", "AUTHORIZED", "COVERED"},
              reason : Failures \cup {"NONE", "STALE_RESULT"}, barrier : Barrier]
NewIntent == [stage |-> "WAITING", round |-> 1, epoch |-> Unplanned, call |-> "NONE",
              decision |-> "NONE", reason |-> "NONE", barrier |-> NoBarrier]

(* A lineage, whose revision every write moves, and its proposals: the round
   that made each, the epoch it was committed at and what the last inspection
   recorded on it.                                                           *)
Proposal == [round : Round, at : Nat,
             failure : {"NONE", "CATALOG_CHANGED", "CATALOG_UNAVAILABLE"}]
NoLineage == [state |-> "NONE", revision |-> 0, owner |-> 0, proposals |-> << >>]
Lineage == [state : {"ACTIVE_PROPOSAL", "REFRESHING", "TERMINAL"}, revision : Nat,
            owner : Intent, proposals : Seq(Proposal)] \cup {NoLineage}

VARIABLES
    \* the durable domain
    global,     \* the global record, as far as generation uses it
    intents,    \* experience_intents
    lineages,   \* proposal_lineages, by behaviour
    \* the process
    mode,       \* "DOWN", "RECOVERING" (start has not resolved) or "UP"
    worker,     \* what the generation worker does next, for which intent
    desk,       \* the user mutation in progress
    glance,     \* the inspection in progress, at most one
    \* history and bounds
    calls,      \* model calls made for each generation
    crashes,
    faults

durable == <<global, intents, lineages>>
vars == <<durable, mode, worker, desk, glance, calls, crashes, faults>>

Fates == Failures \cup {"NONE", "RESULT"}
Idle == [pc |-> "idle", i |-> 1, fate |-> "NONE", expect |-> NoLineage]
Pcs == {"idle", "start", "forceUnknown", "strand", "strandReset",
        "bind", "beforeCall", "releasePreCall", "resetPreCall", "markReserved", "reserveCall",
        "generate", "terminalCall", "prepare", "commit", "finalize", "fence",
        "revalidate", "authorizeIntent", "authorizeLease", "prepareProposal", "putLineage",
        "markBody", "finalizeBody", "failed", "rollback", "abandon", "abandonRetry",
        "markStale", "releaseStale", "activate", "indexActive", "complete"}
NoDesk == [step |-> "none", i |-> 1, again |-> FALSE]
DeskSteps == {"none", "recover", "refreshLineage", "refreshIntent", "refreshFinal",
              "dismissIntent", "dismissFinal", "rejectLineage", "rejectFinal", "drop"}
Glance == [b : Behaviour, seen : Lineage, view : {"CURRENT", "STALE", "UNAVAILABLE"}]

TypeOK ==
    /\ global \in Global
    /\ intents \in [Intent -> IntentRow]
    /\ lineages \in [Behaviour -> Lineage]
    /\ mode \in {"DOWN", "RECOVERING", "UP"}
    /\ worker \in [pc : Pcs, i : Intent, fate : Fates, expect : Lineage]
    /\ desk \in [step : DeskSteps, i : Intent, again : BOOLEAN]
    /\ glance \subseteq Glance /\ Cardinality(glance) <= 1
    /\ calls \in [Intent \X Round -> Nat]
    /\ crashes \in 0 .. MaxCrashes
    /\ faults \in 0 .. MaxFaults

Init ==
    /\ global = [epoch |-> 0, journal |-> NoJournal, lease |-> NoLease,
                 index |-> [b \in Behaviour |-> NoEntry]]
    /\ intents = [i \in Intent |-> NewIntent]
    /\ lineages = [b \in Behaviour |-> NoLineage]
    /\ mode = "UP"
    /\ worker = Idle
    /\ desk = NoDesk
    /\ glance = {}
    /\ calls = [g \in Intent \X Round |-> 0]
    /\ crashes = 0
    /\ faults = 0

----
(* What the durable records say.                                            *)

epoch == global.epoch
journal == global.journal
lease == global.lease
me == worker.i
mine == intents[me]
HoldsLease(i) == lease.i = i /\ lease.round = intents[i].round
Own(i) == <<i, intents[i].round>>
JournalIs(kind, owner) == journal = [kind |-> kind, owner |-> owner, at |-> epoch]
Line(i) == lineages[BehaviourOf[i]]
IndexOf(i) == global.index[BehaviourOf[i]]
LastOf(line) == line.proposals[Len(line.proposals)]
Sealed(i) == \/ intents[i].stage \in SealedStages \cup {"READY"}
             \/ intents[i].stage = "ATTENTION" /\ intents[i].reason = "STALE_RESULT"
Refreshed(i) == intents[i].round = 2

(* The lineage #buildProposalLineage returns for an authorized intent,
   NoLineage when it returns undefined.                                      *)
Built(i) ==
    LET prior == Line(i)
        proposal == [round |-> intents[i].round, at |-> intents[i].epoch + 2, failure |-> "NONE"]
        fresh == [state |-> "ACTIVE_PROPOSAL", revision |-> prior.revision + 1, owner |-> i,
                  proposals |-> Append(prior.proposals, proposal)]
    IN  IF prior = NoLineage THEN fresh
        ELSE IF prior.owner # i THEN NoLineage
        ELSE IF prior.state = "REFRESHING" /\ Refreshed(i) THEN fresh
        ELSE IF prior.state = "ACTIVE_PROPOSAL" /\ LastOf(prior) = proposal THEN prior
        ELSE NoLineage

(* What a rollback puts back: nothing, or the superseded refresh.            *)
Predecessor(line) ==
    LET n == Len(line.proposals)
    IN  IF n <= 1 THEN NoLineage
        ELSE [line EXCEPT !.state = "REFRESHING", !.revision = @ - 1,
                          !.proposals = SubSeq(@, 1, n - 1)]

Refreshable(line) ==
    /\ line.state = "ACTIVE_PROPOSAL" /\ Len(line.proposals) = 1
    /\ LastOf(line).failure = "CATALOG_CHANGED"

----
(* One durable write each.                                                  *)

PutGlobal(g) == global' = g /\ UNCHANGED <<intents, lineages>>
PutIntent(i, row) == intents' = [intents EXCEPT ![i] = row] /\ UNCHANGED <<global, lineages>>
PutLineage(b, line) == lineages' = [lineages EXCEPT ![b] = line] /\ UNCHANGED <<global, intents>>
Nothing == UNCHANGED durable

(* Finalizing a mutation: the epoch moves and the journal is cleared.        *)
Advanced == [global EXCEPT !.epoch = @ + 1, !.journal = NoJournal]
Released == [global EXCEPT !.lease = NoLease]
Unreserved(entry, i) == IF entry.owner = i THEN NoEntry ELSE entry

(* The worker goes to w; when recovery has nothing left, start resolves.     *)
Go(w) ==
    /\ worker' = w
    /\ mode' = IF w.pc = "idle" /\ mode = "RECOVERING" THEN "UP" ELSE mode
    /\ UNCHANGED <<desk, glance, calls, crashes>>
At(pc) == [worker EXCEPT !.pc = pc]

(* A write that throws leaves the worker idle (the drain reports and is woken
   again) or, while recovering, makes start reject.                          *)
Thrown ==
    /\ worker' = Idle
    /\ mode' = IF mode = "RECOVERING" THEN "DOWN" ELSE mode
    /\ UNCHANGED <<desk, glance, calls, crashes>>

(* A write that throws may still have reached the disk.                      *)
Fault(write, then) ==
    /\ faults < MaxFaults /\ faults' = faults + 1
    /\ (write \/ Nothing)
    /\ then
Step(write, w) ==
    \/ write /\ Go(w) /\ UNCHANGED faults
    \/ Fault(write, Thrown)
Skip(w) == Nothing /\ Go(w) /\ UNCHANGED faults

Draining == mode = "UP" /\ worker.pc = "idle"
(* The drain runs the first stage that has work: recall and coverage before
   generation.                                                               *)
GenerationTurn == Draining /\ \A i \in Intent : intents[i].stage \notin {"RECALLING", "COVERAGE"}
Earliest(S) == CHOOSE i \in S : \A j \in S : i <= j
InStage(stage) == {i \in Intent : intents[i].stage = stage}

----
(* The stages before generation, as far as generation depends on them.      *)

Done(write) == write /\ UNCHANGED <<mode, worker, desk, glance, calls, crashes, faults>>

Claim(i) ==
    /\ Draining /\ intents[i].stage = "WAITING"
    /\ Done(PutIntent(i, [intents[i] EXCEPT !.stage = "RECALLING"]))

PreCall(row) == [row EXCEPT !.stage = "PRECALL", !.call = "NONE", !.decision = "NONE"]
CatalogComplete == journal = NoJournal
CatalogIs(i) == CatalogComplete /\ epoch = intents[i].epoch

(* A recall binds the epoch of the catalog it scans.                         *)
PlanRecall ==
    /\ Draining /\ InStage("RECALLING") # {}
    /\ LET i == Earliest(InStage("RECALLING"))
       IN  /\ intents[i].epoch = Unplanned
           /\ Done(PutIntent(i, IF CatalogComplete
                                THEN [intents[i] EXCEPT !.epoch = epoch]
                                ELSE PreCall(intents[i])))

(* Its completion is a row the schema must accept: a refreshed intent's
   recall has to be at the very epoch its refresh produced.                  *)
EndRecall ==
    /\ Draining /\ InStage("RECALLING") # {}
    /\ LET i == Earliest(InStage("RECALLING"))
           row == intents[i]
       IN  /\ row.epoch # Unplanned
           /\ \E outcome \in RecallOutcomes :
                 LET ends == outcome = "COMPLETE" /\ CatalogIs(i)
                 IN  /\ ends => row.barrier \in {NoBarrier, [kind |-> "STALE_RESULT", at |-> row.epoch]}
                     /\ Done(PutIntent(i, IF ends THEN [row EXCEPT !.stage = "COVERAGE"]
                                                  ELSE PreCall(row)))

(* The decisions of the classifier are durable before they are added up ...   *)
Covering == InStage("RECALLING") = {} /\ InStage("COVERAGE") # {}
Classify ==
    /\ Draining /\ Covering
    /\ LET i == Earliest(InStage("COVERAGE"))
       IN  /\ intents[i].decision = "NONE"
           /\ \E outcome \in CoverageOutcomes :
                 Done(PutIntent(i, IF outcome = "ATTENTION" \/ ~CatalogIs(i)
                                   THEN PreCall(intents[i])
                                   ELSE [intents[i] EXCEPT !.decision = outcome]))

(* ... to an authorization of the one generation or to the end of the intent.
   The schema accepts no COVERED row that still holds a barrier.             *)
Aggregate ==
    /\ Draining /\ Covering
    /\ LET i == Earliest(InStage("COVERAGE"))
           row == intents[i]
       IN  /\ row.decision # "NONE"
           /\ (row.decision = "COVERED" /\ CatalogIs(i)) => row.barrier = NoBarrier
           /\ Done(PutIntent(i, IF CatalogIs(i)
                                THEN [row EXCEPT !.stage = row.decision, !.decision = "NONE"]
                                ELSE PreCall(row)))

----
(* Acquiring the lease and the model call.                                  *)

Working(pc, i) == [Idle EXCEPT !.pc = pc, !.i = i]

Candidate ==
    IF lease.i \in InStage("AUTHORIZED") THEN lease.i ELSE Earliest(InStage("AUTHORIZED"))
(* Mutant of Unclaimed: a reservation of another intent is taken over. *)
UnclaimedUntilActive(i) == IndexOf(i).state # "ACTIVE"
Unclaimed(i) == IndexOf(i) \in {NoEntry, [owner |-> i, state |-> "RESERVED"]}
CanAcquire ==
    /\ GenerationTurn /\ InStage("AUTHORIZED") # {}
    /\ journal = NoJournal

Acquire ==
    /\ CanAcquire /\ lease = NoLease
    /\ LET i == Candidate
       IN  /\ epoch = intents[i].epoch
           /\ Unclaimed(i)
           /\ Step(PutGlobal([global EXCEPT
                      !.index[BehaviourOf[i]] = [owner |-> i, state |-> "RESERVED"],
                      !.lease = [state |-> "NOT_CALLED", i |-> i,
                                 round |-> intents[i].round, epoch |-> epoch]]),
                   Working("bind", i))

AcquireAgain ==
    /\ CanAcquire
    /\ LET i == Candidate
       IN  /\ lease = [state |-> "NOT_CALLED", i |-> i, round |-> intents[i].round, epoch |-> epoch]
           /\ Skip(Working("bind", i))

Refuse ==
    /\ CanAcquire /\ lease = NoLease
    /\ LET i == Candidate
       IN  /\ epoch # intents[i].epoch \/ ~Unclaimed(i)
           /\ Step(PutIntent(i, PreCall(intents[i])), Idle)

Bind ==
    /\ worker.pc = "bind"
    /\ Step(PutIntent(me, [mine EXCEPT !.stage = "LEASED"]), At("beforeCall"))

(* Snapshots, the merge target, the budget and the quiescence fence: any may
   refuse, and all hold only for the catalog the intent was authorized on.   *)
BeforeCall ==
    /\ worker.pc = "beforeCall"
    /\ \/ CatalogIs(me) /\ Skip(At("markReserved"))
       \/ Skip(At("releasePreCall"))

ReleasePreCall ==
    /\ worker.pc = "releasePreCall"
    /\ IF HoldsLease(me) /\ lease.state = "NOT_CALLED"
       THEN Step(PutGlobal([Released EXCEPT !.index[BehaviourOf[me]] = Unreserved(@, me)]),
                 At("resetPreCall"))
       ELSE Skip(Idle)

Reset(next) ==
    Step(IF mine.stage \in {"LEASED", "AUTHORIZED"} THEN PutIntent(me, PreCall(mine)) ELSE Nothing,
         next)
ResetPreCall == worker.pc = "resetPreCall" /\ Reset(Idle)

MarkReserved ==
    /\ worker.pc = "markReserved"
    /\ IF HoldsLease(me) /\ lease.state = "NOT_CALLED" /\ journal = NoJournal
       THEN Step(PutGlobal([global EXCEPT !.lease.state = "CALL_RESERVED"]), At("reserveCall"))
       ELSE Skip(Idle)

ReserveCall ==
    /\ worker.pc = "reserveCall"
    /\ Step(PutIntent(me, [mine EXCEPT !.stage = "CALL_RESERVED", !.call = "RESERVED"]),
            At("generate"))

(* The one call to the model; what comes back decides the outcome mutation.  *)
Generate ==
    /\ worker.pc = "generate"
    /\ \E outcome \in CallOutcomes :
          worker' = [At("terminalCall") EXCEPT
                       !.fate = CASE outcome = "VALID" -> "RESULT"
                                  [] outcome = "INVALID" -> "RESULT_LOST"
                                  [] outcome = "FAILED" -> "KNOWN_FAILED"]
    /\ calls' = [calls EXCEPT ![Own(me)] = @ + 1]
    /\ UNCHANGED <<durable, mode, desk, glance, crashes, faults>>

TerminalCall ==
    /\ worker.pc = "terminalCall"
    /\ Step(PutIntent(me, [mine EXCEPT
                  !.stage = "CALL_TERMINAL",
                  !.call = IF worker.fate = "KNOWN_FAILED" THEN "FAILED" ELSE "SUCCEEDED"]),
            At("prepare"))

----
(* The outcome mutation: a sealed result, or a barrier.                     *)

OutcomeKind == IF worker.fate = "RESULT" THEN "GENERATION_RESULT" ELSE "BARRIER"

PrepareOutcome ==
    /\ worker.pc = "prepare"
    /\ IF /\ mine.stage = "CALL_TERMINAL"
          /\ HoldsLease(me) /\ lease.state = "CALL_RESERVED"
          /\ CatalogIs(me)
       THEN Step(PutGlobal([global EXCEPT
                     !.journal = [kind |-> OutcomeKind, owner |-> Own(me), at |-> epoch]]),
                 At("commit"))
       ELSE Skip(Idle)

CommitOutcome ==
    /\ worker.pc = "commit"
    /\ Step(PutIntent(me,
              IF worker.fate = "RESULT"
              THEN [mine EXCEPT !.stage = "RESULT_COMMITTED", !.barrier = NoBarrier]
              ELSE [mine EXCEPT !.stage = "ATTENTION", !.reason = worker.fate,
                                !.barrier = [kind |-> worker.fate, at |-> mine.epoch + 1]]),
            At("finalize"))

FinalizeOutcome ==
    /\ worker.pc = "finalize"
    /\ LET next == IF worker.fate = "RESULT" /\ mode = "UP" THEN At("fence") ELSE Idle
       IN  IF HoldsLease(me) /\ epoch = mine.epoch /\ JournalIs(OutcomeKind, Own(me))
           THEN Step(PutGlobal([Advanced EXCEPT
                         !.lease = IF worker.fate = "RESULT"
                                   THEN [@ EXCEPT !.state = "RESULT_COMMITTED"] ELSE NoLease]),
                     next)
           ELSE Skip(next)

(* The quiescence fence once the result is sealed.                           *)
FenceResult == worker.pc = "fence" /\ (Skip(Idle) \/ Skip(At("markStale")))

MarkStale ==
    /\ worker.pc = "markStale"
    /\ Step(IF mine.stage \in SealedStages
            THEN PutIntent(me, [mine EXCEPT !.stage = "ATTENTION", !.reason = "STALE_RESULT"])
            ELSE Nothing,
            At("releaseStale"))

ReleaseStale ==
    /\ worker.pc = "releaseStale"
    /\ Step(IF HoldsLease(me) /\ lease.state \in ResultStates /\ journal = NoJournal
            THEN PutGlobal(Released) ELSE Nothing,
            Idle)

----
(* From a sealed result to an active proposal.                              *)

ProposalJournal(i) == [kind |-> "PROPOSAL", owner |-> Own(i), at |-> intents[i].epoch + 1]

(* What the commit does next once no prepared proposal is left to recover.   *)
Settle(i) ==
    IF intents[i].stage = "PROPOSAL_BODY_COMMITTED" /\ lease.state = "PROPOSAL_COMMIT_AUTHORIZED"
    THEN IF Built(i) = NoLineage THEN Working("markStale", i)
         ELSE [Working("rollback", i) EXCEPT !.expect = Built(i)]
    ELSE IF lease.state \in ResultStates THEN Working("revalidate", i)
    ELSE Working("activate", i)

(* A prepared proposal found at startup: finished when its body is exactly
   what this result builds, given up otherwise.                              *)
RecoverPrepared(i) ==
    IF Line(i) = NoLineage
    THEN Working(IF intents[i].stage = "PROPOSAL_BODY_COMMITTED" THEN "abandon" ELSE "abandonRetry", i)
    ELSE IF Line(i) = Built(i) THEN [Working("putLineage", i) EXCEPT !.expect = Built(i)]
    ELSE Working("abandon", i)

Continue(i) ==
    IF ~HoldsLease(i) \/ ~Sealed(i) THEN Idle
    ELSE IF intents[i].stage = "ATTENTION" THEN Working("releaseStale", i)
    ELSE IF journal = ProposalJournal(i) THEN RecoverPrepared(i)
    ELSE Settle(i)

ContinueCommit ==
    /\ GenerationTurn
    /\ lease.state \in ResultStates \cup BodyStates
    /\ journal.kind # "PROPOSAL" /\ Continue(lease.i) # Idle
    /\ Skip(Continue(lease.i))

(* Fence and catalog are read again; the only mutation since the input is
   the sealed result's own.                                                  *)
CatalogIsSealed == CatalogComplete /\ epoch = mine.epoch + 1
Revalidate ==
    /\ worker.pc = "revalidate"
    /\ \/ CatalogIsSealed /\ HoldsLease(me) /\ Skip(At("authorizeIntent"))
       \/ Skip(At("markStale"))

AuthorizeIntent ==
    /\ worker.pc = "authorizeIntent"
    /\ Step(IF mine.stage = "RESULT_COMMITTED"
            THEN PutIntent(me, [mine EXCEPT !.stage = "PROPOSAL_COMMIT_AUTHORIZED"]) ELSE Nothing,
            At("authorizeLease"))

AuthorizeLease ==
    /\ worker.pc = "authorizeLease"
    /\ IF HoldsLease(me) /\ lease.state \in ResultStates /\ journal = NoJournal
       THEN Step(PutGlobal([global EXCEPT !.lease.state = "PROPOSAL_COMMIT_AUTHORIZED"]),
                 At("prepareProposal"))
       ELSE Skip(Idle)

PrepareProposal ==
    /\ worker.pc = "prepareProposal"
    /\ IF Built(me) = NoLineage THEN Skip(Idle)
       ELSE \/ Skip(At("markStale"))
            \/ /\ CatalogIsSealed
               /\ HoldsLease(me) /\ lease.state = "PROPOSAL_COMMIT_AUTHORIZED"
               /\ Step(PutGlobal([global EXCEPT !.journal = ProposalJournal(me)]),
                       [At("putLineage") EXCEPT !.expect = Built(me)])

(* The writes of a prepared proposal are tried: whatever throws, or a fence
   that went stale, ends in the check of what became durable.                *)
Try(write, w) ==
    \/ write /\ Go(w) /\ UNCHANGED faults
    \/ Fault(write, Go(At("failed")))

PutProposal ==
    /\ worker.pc = "putLineage"
    /\ \/ Skip(At("failed"))
       \/ IF Line(me) = Predecessor(worker.expect)
          THEN Try(PutLineage(BehaviourOf[me], worker.expect), At("markBody"))
          ELSE Skip(At(IF Line(me) = worker.expect THEN "markBody" ELSE "failed"))

MarkBody ==
    /\ worker.pc = "markBody"
    /\ Try(IF mine.stage = "PROPOSAL_COMMIT_AUTHORIZED"
           THEN PutIntent(me, [mine EXCEPT !.stage = "PROPOSAL_BODY_COMMITTED"]) ELSE Nothing,
           At("finalizeBody"))

FinalizeBody ==
    /\ worker.pc = "finalizeBody"
    /\ \/ Skip(At("failed"))
       \/ IF /\ HoldsLease(me) /\ lease.state = "PROPOSAL_COMMIT_AUTHORIZED"
             /\ journal = ProposalJournal(me) /\ epoch = mine.epoch + 1
          THEN Try(PutGlobal([Advanced EXCEPT !.lease.state = "BODY_COMMITTED_INDEX_PENDING"]),
                   At("activate"))
          ELSE Skip(At("failed"))

BodyIsDurable ==
    /\ mine.stage = "PROPOSAL_BODY_COMMITTED" /\ Line(me) = worker.expect
    /\ journal = NoJournal /\ epoch = mine.epoch + 2
    /\ HoldsLease(me) /\ lease.state = "BODY_COMMITTED_INDEX_PENDING"
CheckDurable ==
    /\ worker.pc = "failed"
    /\ Skip(At(IF BodyIsDurable THEN "activate" ELSE "rollback"))

RollBack ==
    /\ worker.pc = "rollback"
    /\ Step(IF Line(me) = worker.expect
            THEN PutLineage(BehaviourOf[me], Predecessor(worker.expect)) ELSE Nothing,
            At("abandon"))

Abandon ==
    /\ worker.pc \in {"abandon", "abandonRetry"}
    /\ Step(IF journal = ProposalJournal(me)
            THEN PutGlobal([global EXCEPT !.journal = NoJournal]) ELSE Nothing,
            At(IF worker.pc = "abandon" THEN "markStale" ELSE "revalidate"))

Activate ==
    /\ worker.pc = "activate"
    /\ IF HoldsLease(me) /\ lease.state \in BodyStates
          /\ mine.stage \in {"PROPOSAL_BODY_COMMITTED", "READY"}
       THEN Step(PutIntent(me, [mine EXCEPT !.stage = "READY"]), At("indexActive"))
       ELSE Skip(Idle)

ActiveByMe ==
    /\ HoldsLease(me) /\ journal = NoJournal /\ epoch = mine.epoch + 2
    /\ IndexOf(me).owner = me
    /\ Line(me).state = "ACTIVE_PROPOSAL" /\ LastOf(Line(me)).round = mine.round

IndexActive ==
    /\ worker.pc = "indexActive"
    /\ IF ActiveByMe /\ lease.state \in BodyStates
       THEN Step(PutGlobal([global EXCEPT !.index[BehaviourOf[me]].state = "ACTIVE",
                                          !.lease.state = "ACTIVE_COMPLETE"]),
                 At("complete"))
       ELSE Skip(Idle)

Complete ==
    /\ worker.pc = "complete"
    /\ IF ActiveByMe /\ lease.state = "ACTIVE_COMPLETE" /\ IndexOf(me).state = "ACTIVE"
       THEN Step(PutGlobal(Released), Idle)
       ELSE Skip(Idle)

----
(* Recovery of the lease at startup.  Nothing here calls the model.         *)

(* Mutants of UnknownCall: the call is made again; nothing is done. *)
UnknownCallAgain(i) == Working("generate", i)
UnknownCall(i) == [Working("forceUnknown", i) EXCEPT !.fate = "OUTCOME_UNKNOWN"]
CallRecovery(i) ==
    CASE intents[i].call = "SUCCEEDED" -> [Working("prepare", i) EXCEPT !.fate = "RESULT_LOST"]
      [] intents[i].call = "FAILED" -> [Working("prepare", i) EXCEPT !.fate = "KNOWN_FAILED"]
      [] intents[i].call = "OUTCOME_UNKNOWN" -> [Working("prepare", i) EXCEPT !.fate = "OUTCOME_UNKNOWN"]
      [] intents[i].call = "RESERVED" \/ (intents[i].call = "NONE" /\ lease.state = "CALL_RESERVED")
            -> UnknownCall(i)
      [] OTHER -> Idle

LeaseRecovery(i) ==
    IF lease.state \in ResultStates \cup BodyStates THEN Continue(i) ELSE CallRecovery(i)

(* A prepared outcome without its row is abandoned.  Its kind is guessed from
   the call's outcome.                                                       *)
AbandonsOutcome(i) ==
    /\ HoldsLease(i) /\ ~Sealed(i) /\ intents[i].barrier = NoBarrier
    /\ journal.kind = IF intents[i].call = "SUCCEEDED" THEN "GENERATION_RESULT" ELSE "BARRIER"

Recover ==
    /\ worker.pc = "start" /\ desk = NoDesk
    /\ LET i == lease.i
       IN  IF lease = NoLease THEN Skip(At("strand"))
           ELSE IF journal # NoJournal /\ intents[i].stage = "RESULT_COMMITTED"
                THEN Skip([Working("finalize", i) EXCEPT !.fate = "RESULT"])
           ELSE IF journal # NoJournal /\ intents[i].stage = "ATTENTION" /\ intents[i].barrier # NoBarrier
                THEN Skip([Working("finalize", i) EXCEPT !.fate = intents[i].barrier.kind])
           ELSE IF journal # NoJournal /\ AbandonsOutcome(i)
                THEN Step(PutGlobal([global EXCEPT !.journal = NoJournal]), LeaseRecovery(i))
           ELSE Skip(LeaseRecovery(i))

ForceUnknown ==
    /\ worker.pc = "forceUnknown"
    /\ Step(IF mine.stage \in {"AUTHORIZED", "LEASED", "CALL_RESERVED"}
            THEN PutIntent(me, [mine EXCEPT !.stage = "CALL_TERMINAL", !.call = "OUTCOME_UNKNOWN"])
            ELSE Nothing,
            At("prepare"))

(* Without a lease, intents left LEASED lose their reservation and are reset. *)
Strand ==
    /\ worker.pc = "strand"
    /\ IF InStage("LEASED") = {} THEN Skip(Idle)
       ELSE LET i == Earliest(InStage("LEASED"))
            IN  Step(PutGlobal([global EXCEPT !.index = [b \in Behaviour |->
                          IF @[b] = [owner |-> i, state |-> "RESERVED"] THEN NoEntry ELSE @[b]]]),
                     Working("strandReset", i))
StrandReset == worker.pc = "strandReset" /\ Reset(Working("strand", me))

----
(* The user's mutations.  Each prepares the journal, changes its row and     *)
(* finalizes: the epoch moves, the journal is cleared.                       *)

Desk(step, i) == [step |-> step, i |-> i, again |-> desk.again]
Sit(d) ==
    /\ desk' = IF d.step = "none" THEN NoDesk ELSE d
    /\ UNCHANGED <<mode, worker, glance, calls, crashes>>

(* What fails after the journal is prepared is recovered once on the spot; at
   startup it makes start reject.                                            *)
DeskThrown ==
    IF mode = "RECOVERING"
    THEN mode' = "DOWN" /\ worker' = Idle /\ desk' = NoDesk /\ UNCHANGED <<glance, calls, crashes>>
    ELSE Sit(IF desk.again THEN NoDesk ELSE [step |-> "recover", i |-> desk.i, again |-> TRUE])
DeskStep(write, next) ==
    \/ write /\ Sit(Desk(next, desk.i)) /\ UNCHANGED faults
    \/ Fault(write, DeskThrown)
DeskSkip(step, i) == Nothing /\ Sit(Desk(step, i)) /\ UNCHANGED faults
DeskFails == Nothing /\ DeskThrown /\ UNCHANGED faults

UserAction(owner) == [kind |-> "USER_ACTION", owner |-> owner, at |-> epoch]
Prepare(j, step, i) ==
    \/ PutGlobal([global EXCEPT !.journal = j]) /\ Sit(Desk(step, i)) /\ UNCHANGED faults
    \/ Fault(PutGlobal([global EXCEPT !.journal = j]), Sit(NoDesk))

Asked(action) == action \in Actions /\ mode = "UP" /\ desk = NoDesk
LastOwner(line) == <<line.owner, LastOf(line).round>>

(* Mutant of CatalogIsFree: the lease is not looked at. *)
CatalogIsFreeOfJournal == journal = NoJournal
CatalogIsFree == lease = NoLease /\ journal = NoJournal
RefreshProposal(b) ==
    /\ Asked("REFRESH") /\ Refreshable(lineages[b])
    /\ CatalogIsFree \/ journal = UserAction(LastOwner(lineages[b]))
    /\ Prepare(UserAction(LastOwner(lineages[b])), "refreshLineage", lineages[b].owner)

RefreshLineage ==
    /\ desk.step = "refreshLineage"
    /\ LET line == Line(desk.i)
       IN  IF Refreshable(line)
           THEN DeskStep(PutLineage(BehaviourOf[desk.i],
                                    [line EXCEPT !.state = "REFRESHING", !.revision = @ + 1]),
                         "refreshIntent")
           ELSE DeskFails

(* The refreshed intent starts over with a new generation, and a barrier for
   the result it gives up.                                                   *)
StartedOver == [NewIntent EXCEPT !.stage = "RECALLING", !.round = 2,
                                 !.barrier = [kind |-> "STALE_RESULT", at |-> epoch + 1]]

RefreshIntent ==
    /\ desk.step = "refreshIntent"
    /\ LET row == intents[desk.i]
       IN  IF row.stage = "RECALLING" /\ Refreshed(desk.i) THEN DeskSkip("refreshFinal", desk.i)
           ELSE IF row.stage = "READY" /\ ~Refreshed(desk.i)
                THEN DeskStep(PutIntent(desk.i, StartedOver), "refreshFinal")
           ELSE DeskFails

RefreshFinal ==
    /\ desk.step = "refreshFinal"
    /\ IF journal = UserAction(<<desk.i, 1>>) /\ IndexOf(desk.i).owner = desk.i
       THEN DeskStep(PutGlobal([Advanced EXCEPT !.index[BehaviourOf[desk.i]].state = "RESERVED"]), "none")
       ELSE DeskFails

LeaseIsFreeOf(i) == lease = NoLease \/ lease.i = i
Dismiss(i) ==
    /\ Asked("DISMISS") /\ intents[i].stage \in {"ATTENTION", "PRECALL"}
    /\ (LeaseIsFreeOf(i) /\ journal = NoJournal) \/ journal = UserAction(<<i, 0>>)
    /\ Prepare(UserAction(<<i, 0>>), "dismissIntent", i)

DismissIntent ==
    /\ desk.step = "dismissIntent"
    /\ DeskStep(PutIntent(desk.i, [intents[desk.i] EXCEPT
                    !.stage = "DISCARDED", !.call = "NONE", !.reason = "NONE", !.barrier = NoBarrier]),
                "dismissFinal")

DismissFinal ==
    /\ desk.step = "dismissFinal"
    /\ IF journal # UserAction(<<desk.i, 0>>) THEN DeskSkip("none", 1)
       ELSE IF LeaseIsFreeOf(desk.i)
       THEN DeskStep(PutGlobal([Advanced EXCEPT !.lease = NoLease, !.index =
                         [b \in Behaviour |-> Unreserved(@[b], desk.i)]]),
                     "none")
       ELSE DeskFails

ReviewJournal(owner) == [kind |-> "REVIEW", owner |-> owner, at |-> epoch]
RejectProposal(b) ==
    /\ Asked("REJECT") /\ glance = {} /\ lineages[b].state = "ACTIVE_PROPOSAL"
    /\ CatalogIsFree
    /\ Prepare(ReviewJournal(LastOwner(lineages[b])), "rejectLineage", lineages[b].owner)

(* Rejecting again what a stopped rejection left is its recovery.            *)
RejectAgain(b) ==
    /\ Asked("REJECT") /\ glance = {} /\ lineages[b].state = "TERMINAL"
    /\ journal = ReviewJournal(LastOwner(lineages[b]))
    /\ Nothing /\ Sit([step |-> "recover", i |-> lineages[b].owner, again |-> TRUE])
    /\ UNCHANGED faults

RejectLineage ==
    /\ desk.step = "rejectLineage"
    /\ LET line == Line(desk.i)
       IN  IF line.state = "ACTIVE_PROPOSAL"
           THEN DeskStep(PutLineage(BehaviourOf[desk.i],
                             [line EXCEPT !.state = "TERMINAL", !.revision = @ + 1,
                                          !.proposals[Len(line.proposals)].failure = "NONE"]),
                         "rejectFinal")
           ELSE DeskFails

RejectFinal ==
    /\ desk.step = "rejectFinal"
    /\ IF journal = ReviewJournal(LastOwner(Line(desk.i)))
       THEN DeskStep(PutGlobal(Advanced), "none")
       ELSE DeskFails

(* Mutant of RefreshRecovery: a refresh that stopped half-way is dropped. *)
RefreshRecoveryDrops(i) == "drop"
RefreshRecovery(i) == CASE Line(i).state = "REFRESHING" -> "refreshIntent"
                        [] Refreshable(Line(i)) -> "refreshLineage"
                        [] OTHER -> "conflict"
(* Recovery of a prepared mutation, at startup or after a failed step: the
   row decides whether it is finished or dropped.                            *)
MutationRecovery(i) ==
    CASE journal.kind = "USER_ACTION" /\ journal.owner[2] = 0 ->
            IF intents[i].stage = "DISCARDED" THEN "dismissFinal" ELSE "drop"
      [] journal.kind = "USER_ACTION" /\ journal.owner[2] # 0 -> RefreshRecovery(i)
      [] journal.kind = "REVIEW" ->
            IF Line(i).state = "TERMINAL" THEN "rejectFinal" ELSE "drop"
      [] OTHER -> "none"

RecoverDesk ==
    /\ desk.step = "recover"
    /\ LET i == journal.owner[1]
           step == MutationRecovery(i)
       IN  IF step = "conflict" THEN DeskFails
           ELSE DeskSkip(step, IF step = "none" THEN 1 ELSE i)

Drop ==
    /\ desk.step = "drop"
    /\ DeskStep(PutGlobal([global EXCEPT !.journal = NoJournal]), "none")

----
(* Inspecting a proposal: read it, revalidate its catalog, record what was   *)
(* found if the lineage is still the revision that was read.  It runs on the *)
(* same queue as rejection.                                                  *)

Inspect(b, view) ==
    /\ mode = "UP" /\ glance = {} /\ desk.step \notin {"rejectLineage", "rejectFinal"}
    /\ lineages[b].state = "ACTIVE_PROPOSAL" /\ lineages[b].revision < MaxRevision
    /\ intents[lineages[b].owner].stage \in {"PROPOSAL_BODY_COMMITTED", "READY"}
    /\ view # "UNAVAILABLE" => CatalogComplete
    /\ view = "CURRENT" => epoch = LastOf(lineages[b]).at
    /\ glance' = {[b |-> b, seen |-> lineages[b], view |-> view]}
    /\ UNCHANGED <<durable, mode, worker, desk, calls, crashes, faults>>

FailureOf(view) == CASE view = "CURRENT" -> "NONE"
                     [] view = "STALE" -> "CATALOG_CHANGED"
                     [] view = "UNAVAILABLE" -> "CATALOG_UNAVAILABLE"
RecordInspection ==
    \E g \in glance :
        /\ IF lineages[g.b] = g.seen /\ LastOf(g.seen).failure # FailureOf(g.view)
           THEN PutLineage(g.b, [g.seen EXCEPT
                    !.revision = @ + 1, !.proposals[Len(g.seen.proposals)].failure = FailureOf(g.view)])
           ELSE Nothing
        /\ glance' = {}
        /\ UNCHANGED <<mode, worker, desk, calls, crashes, faults>>

----
(* The process.                                                             *)

Crash ==
    /\ mode # "DOWN" /\ crashes < MaxCrashes /\ crashes' = crashes + 1
    /\ mode' = "DOWN" /\ worker' = Idle /\ desk' = NoDesk /\ glance' = {}
    /\ UNCHANGED <<durable, calls, faults>>

(* Start recovers the user's mutations, then the lease.                      *)
Restart ==
    /\ mode = "DOWN"
    /\ mode' = "RECOVERING" /\ worker' = [Idle EXCEPT !.pc = "start"]
    /\ desk' = [NoDesk EXCEPT !.step = "recover"]
    /\ UNCHANGED <<durable, glance, calls, crashes, faults>>

EarlierStages == PlanRecall \/ EndRecall \/ Classify \/ Aggregate \/ \E i \in Intent : Claim(i)
LeaseSteps == Acquire \/ AcquireAgain \/ Refuse \/ ContinueCommit
Calling ==
    \/ Bind \/ BeforeCall \/ ReleasePreCall \/ ResetPreCall \/ MarkReserved \/ ReserveCall
    \/ Generate \/ TerminalCall \/ PrepareOutcome \/ CommitOutcome \/ FinalizeOutcome
    \/ FenceResult \/ MarkStale \/ ReleaseStale
Committing ==
    \/ Revalidate \/ AuthorizeIntent \/ AuthorizeLease \/ PrepareProposal \/ PutProposal
    \/ MarkBody \/ FinalizeBody \/ CheckDurable \/ RollBack \/ Abandon
    \/ Activate \/ IndexActive \/ Complete
Recovering == Recover \/ ForceUnknown \/ Strand \/ StrandReset
Worker == EarlierStages \/ LeaseSteps \/ Calling \/ Committing \/ Recovering
Mutating ==
    \/ RefreshLineage \/ RefreshIntent \/ RefreshFinal \/ DismissIntent \/ DismissFinal
    \/ RejectLineage \/ RejectFinal \/ RecoverDesk \/ Drop
User ==
    \/ \E b \in Behaviour : RefreshProposal(b) \/ RejectProposal(b) \/ RejectAgain(b)
    \/ \E i \in Intent : Dismiss(i)
    \/ \E b \in Behaviour, view \in Views : Inspect(b, view)

Next == Worker \/ Mutating \/ RecordInspection \/ User \/ Crash \/ Restart
Spec == Init /\ [][Next]_vars

----
(* Safety.                                                                  *)

(* A generation calls the model at most once, whatever crashes, faults and
   retries come between: generation-worker.ts reserves the call durably in
   the lease and in the intent before making it, and no recovery path makes
   it again.                                                                 *)
OneCallPerGeneration == \A g \in Intent \X Round : calls[g] <= 1

(* While a lease is held the epoch is fenced: nobody else's mutation commits,
   so the epoch is the one the lease was taken at plus the owner's own sealed
   result and proposal (the checks of #prepareMutation, #finalizeResult,
   #finalizeProposalBody and of every other mutation's prepare).             *)
OwnMutations == [NOT_CALLED |-> 0, CALL_RESERVED |-> 0,
                 RESULT_COMMITTED |-> 1, PROPOSAL_COMMIT_AUTHORIZED |-> 1,
                 BODY_COMMITTED_INDEX_PENDING |-> 2, ACTIVE_COMPLETE |-> 2]
LeaseFencesEpoch == lease # NoLease => epoch = lease.epoch + OwnMutations[lease.state]

(* A prepared journal is the current epoch's, and whoever prepared it is the
   only one who can hold the lease meanwhile.                                *)
JournalAndLease ==
    journal # NoJournal =>
        /\ journal.at = epoch
        /\ journal.kind \in {"GENERATION_RESULT", "BARRIER"} =>
              lease.state = "CALL_RESERVED" /\ <<lease.i, lease.round>> = journal.owner
        /\ journal.kind = "PROPOSAL" =>
              lease.state = "PROPOSAL_COMMIT_AUTHORIZED" /\ <<lease.i, lease.round>> = journal.owner
        /\ journal.kind = "REVIEW" => lease = NoLease
        /\ journal.kind = "USER_ACTION" =>
              lease = NoLease \/ (journal.owner = <<lease.i, 0>>)

(* Once nothing of it is in flight, an intent that is PROPOSAL_READY owns the
   newest proposal of its behaviour's lineage and the ACTIVE index entry.    *)
ReadyOwnsProposal ==
    \A i \in Intent :
        (intents[i].stage = "READY" /\ lease.i # i /\ journal = NoJournal) =>
            /\ Line(i).state \in {"ACTIVE_PROPOSAL", "TERMINAL"}
            /\ LastOwner(Line(i)) = Own(i)
            /\ IndexOf(i) = [owner |-> i, state |-> "ACTIVE"]

(* Of the intents with one behaviour at most one has been past its model call
   and not been dismissed: the others are refused when they acquire.         *)
Holding(i) ==
    intents[i].stage \in {"CALL_RESERVED", "CALL_TERMINAL", "ATTENTION", "READY"} \cup SealedStages
OneHolderPerBehaviour ==
    \A i, j \in Intent :
        (BehaviourOf[i] = BehaviourOf[j] /\ Holding(i) /\ Holding(j)) => i = j

(* The epoch moves one at a time, and only by the step that clears the
   journal prepared at that epoch.                                           *)
EpochMovesUnderJournal ==
    [][epoch' # epoch => /\ epoch' = epoch + 1
                         /\ journal.kind # "NONE" /\ journal.at = epoch
                         /\ journal' = NoJournal]_vars

(* Generation and the user's mutations implement the fence of CatalogFence:
   one intent holds the catalog at a time, and while it does a mutation is
   committed only if it is its own or takes the catalog from it, whatever stops
   or throws (the checks of #acquire, #prepareMutation and of every other
   prepare and finalize).                                                    *)
PreparedBy ==
    IF journal = NoJournal THEN "NONE"
    ELSE IF journal.kind \in {"GENERATION_RESULT", "BARRIER", "PROPOSAL"} THEN "HOLDER" ELSE "USER"
Fence == INSTANCE CatalogFence
            WITH Holder <- Intent, Nobody <- 0,
                 epoch <- epoch, holder <- lease.i, prepared <- PreparedBy
ImplementsFence == Fence!Spec

====
