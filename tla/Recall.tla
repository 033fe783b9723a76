------------------------------- MODULE Recall -------------------------------
(***************************************************************************)
(* From an owned intent to an authorised action: the complete scan of the  *)
(* skill catalog (complete-catalog-recall.ts), the analysis of what the    *)
(* relevant candidates already cover (complete-coverage.ts), the catalog   *)
(* both look at (v2-catalog-adapter.ts over v2-pending-catalog.ts) and the *)
(* two retries a user may ask for (v2-learning-attention-rpc.ts).          *)
(*                                                                         *)
(* Every look at the catalog is three reads with a suspension between      *)
(* them, every look at a body is two such looks around two more reads, and *)
(* the files and the pending catalog move meanwhile.  Each call of a model *)
(* is reserved in the intent before it is made and sealed after it, so     *)
(* that a crash, a failed write or a refused write can fall between.       *)
(*                                                                         *)
(* Candidates are numbers: the code keeps them in the order of their ids.  *)
(***************************************************************************)
EXTENDS Naturals, FiniteSets, FiniteSetsExt

CONSTANTS
    Skills,       \* runtime skills, each with a summary and a body
    Proposals,    \* pending candidates that carry a whole body
    Barriers,     \* pending candidates that carry a summary only
    Writable,     \* the skills whose file is read too
    Mergeable,    \* the writable ones of the intent's own scope
    PerPage,      \* summaries, or bodies, that fit one call
    MaxCalls,     \* calls one scan, and one analysis, may make
    MaxMoves      \* bound: edits by others, mutations of the pending catalog,
                  \* failed reads, failed writes and crashes, all together

ASSUME RecallAssumption ==
    /\ Skills \cup Proposals \cup Barriers \subseteq Nat \ {0}
    /\ Skills \cap (Proposals \cup Barriers) = {}
    /\ Proposals \cap Barriers = {}
    /\ Mergeable \subseteq Writable /\ Writable \subseteq Skills
    /\ PerPage \in Nat \ {0}
    /\ {MaxCalls, MaxMoves} \subseteq Nat

VARIABLES
    intent,       \* the intent's record
    w,            \* the drain: where it stands and what it holds
    up,           \* whether the plugin runs
    sums,         \* [Skills -> 0..2]: the version of a summary, 0 if absent
    bodies,       \* [Skills -> 1..2]: the version of a body
    pend,         \* the pending candidates
    epoch,        \* global.proposalCatalogEpoch
    journal,      \* whether a mutation of the pending catalog is in flight
    edits,        \* how many edits were made
    troubles,     \* how many troubles there were
    refused,      \* the write the schema refused last, "none" if none
    failed,       \* whether a write of the store failed
    asked         \* how often each page was sent to a model, by stage

vars == <<intent, w, up, sums, bodies, pend, epoch, journal, edits, troubles,
          refused, failed, asked>>
catalogVars == <<sums, bodies, pend, epoch, journal, edits>>

Candidates == Skills \cup Proposals \cup Barriers
Pages == 1..MaxCalls

\* A look at the catalog; a look that failed shows nothing.
NoLook == [ok |-> FALSE, sums |-> [s \in Skills |-> 0], pend |-> {}, epoch |-> 0]
Members(look) == {s \in Skills : look.sums[s] > 0} \cup look.pend

\* The page of a candidate among the candidates of S, and the pages of S.
PageOf(c, S) ==
    ((Cardinality({d \in S : d <= c}) - 1) \div PerPage) + 1
PagesOf(S) == {PageOf(c, S) : c \in S}

NoBodies == [c \in Candidates |-> 0]
NoCalls == [p \in Pages |-> "none"]
NoDecisions == [c \in Candidates |-> "none"]

CanMove == epoch + (IF journal THEN 1 ELSE 0) + edits + troubles < MaxMoves

Idle == [at |-> "idle", then |-> "idle", first |-> NoLook.sums, look |-> NoLook,
         before |-> NoLook, todo |-> {}, got |-> NoBodies, unread |-> {}, pass |-> 1]

Working == {"RUN2SKILL_OWNED", "RECALLING", "COVERAGE_READY", "COVERAGE_ANALYZING",
            "COVERAGE_RETRY_AUTHORIZED"}

Relevant == {c \in Candidates : intent.classes[c] = "RELEVANT"}

TypeOK ==
    /\ intent.status \in {"RUN2SKILL_OWNED", "RECALLING", "COVERAGE_READY",
           "COVERAGE_ANALYZING", "COVERAGE_RETRY_AUTHORIZED", "NEEDS_ATTENTION",
           "COVERED", "COVERED_NEEDS_CONFIRMATION", "CREATE_AUTHORIZED",
           "MERGE_AUTHORIZED"}
    /\ intent.classes \in [Candidates -> {"none", "RELEVANT", "UNRELATED"}]
    /\ intent.recalled \in [Candidates -> 0..2]
    /\ intent.decisions \in [Candidates -> {"none", "COVERED", "PARTIAL", "UNRELATED"}]
    /\ intent.plan.pend \subseteq Proposals \cup Barriers
    /\ sums \in [Skills -> 0..2] /\ bodies \in [Skills -> 1..2]
    /\ pend \subseteq Proposals \cup Barriers
    /\ epoch + edits + troubles <= MaxMoves
    /\ w.todo \cup w.unread \subseteq Candidates
    /\ w.got \in [Candidates -> 0..2]

\* An owned intent.  "refreshed" is one sent back by a refresh of its stale
\* result, which still holds the barrier of that result; "explicit" is one the
\* user asked to save.
Init ==
    /\ \E refreshed, explicit \in BOOLEAN :
          intent = [status |-> "RUN2SKILL_OWNED", reason |-> "none",
                    refreshed |-> refreshed, explicit |-> explicit,
                    plan |-> NoLook, scan |-> NoCalls, scanRetry |-> 0,
                    classes |-> NoDecisions, recalled |-> NoBodies,
                    sealed |-> FALSE, calls |-> NoCalls, decisions |-> NoDecisions,
                    retryUsed |-> FALSE]
    /\ w = Idle /\ up = TRUE
    /\ sums = [s \in Skills |-> 1] /\ bodies = [s \in Skills |-> 1]
    /\ \E others \in SUBSET Barriers : pend = Proposals \cup others
    /\ epoch = 0 /\ journal = FALSE
    /\ edits = 0 /\ troubles = 0 /\ refused = "none" /\ failed = FALSE
    /\ asked = [stage \in {"scan", "coverage"} |-> [p \in Pages |-> 0]]
----
(***************************************************************************)
(* The store.  An update that the schema refuses, or that cannot be        *)
(* written, throws: the record stays and the drain ends there.             *)
(***************************************************************************)

\* Refused(new): why the schema refuses a record.  A refreshed intent keeps its
\* barrier until its terminal replacement, its recall is complete only at the
\* epoch of that barrier, and a covered one may not keep the barrier.
Refused(new) ==
    IF /\ new.refreshed /\ new.status = "COVERED" THEN "covered"
    ELSE IF /\ new.refreshed /\ new.status = "COVERAGE_READY" /\ new.plan.epoch # 0
    THEN "epoch"
    ELSE "none"

Write(new, next) ==
    /\ UNCHANGED up
    /\ \/ /\ refused' = Refused(new)
          /\ intent' = IF refused' = "none" THEN new ELSE intent
          /\ w' = IF refused' = "none" THEN next ELSE Idle
          /\ UNCHANGED <<troubles, failed>>
       \/ /\ CanMove
          /\ troubles' = troubles + 1
          /\ failed' = TRUE
          /\ w' = Idle
          /\ UNCHANGED <<intent, refused>>

\* A step of the drain that writes nothing.
Go(next) == w' = next /\ UNCHANGED <<intent, up, troubles, refused, failed>>

\* Look at the catalog, then go on at k.
Look(held, k) == [held EXCEPT !.at = "first", !.then = k]

\* The drain reads the record again after each await and returns without a
\* write when it has left the stage; one drain runs at a time, so it has not.
Attention(reason) ==
    Write([intent EXCEPT !.status = "NEEDS_ATTENTION", !.reason = reason], Idle)
----
(***************************************************************************)
(* Looking at the catalog.                                                 *)
(***************************************************************************)

Seen(look) == [w EXCEPT !.at = w.then, !.look = look, !.first = NoLook.sums]

\* #runtime, the first time; a registry that fails makes the look incomplete.
FirstRuntime ==
    /\ up /\ w.at = "first"
    /\ \/ Go([w EXCEPT !.at = "pending", !.first = sums])
       \/ /\ CanMove
          /\ troubles' = troubles + 1
          /\ w' = Seen(NoLook)
          /\ UNCHANGED <<intent, up, refused, failed>>
    /\ UNCHANGED <<catalogVars, asked>>

\* derivePendingProposalCatalogV2: incomplete while a mutation is in flight.
ReadPending ==
    /\ up /\ w.at = "pending"
    /\ Go(IF journal THEN Seen(NoLook)
          ELSE [w EXCEPT !.at = "second",
                         !.look = [ok |-> TRUE, sums |-> w.first,
                                   pend |-> pend, epoch |-> epoch]])
    /\ UNCHANGED <<catalogVars, asked>>

\* #runtime, the second time, which has to agree with the first.
SecondRuntime ==
    /\ up /\ w.at = "second"
    /\ Go(Seen(IF sums = w.first THEN w.look ELSE NoLook))
    /\ UNCHANGED <<catalogVars, asked>>

\* #snapshotMatchesIntent, and #snapshotMatches of the analysis.
(* The epoch of the pending catalog is not compared. *)
Matches_withoutEpoch(look) ==
    look.ok /\ look.sums = intent.plan.sums /\ look.pend = intent.plan.pend
Matches(look) == look.ok /\ look = intent.plan

\* #read: a look, the definition, a look that has to be the same.  A body that
\* cannot be given is 0.
Given(c) ==
    IF \/ ~w.look.ok
       \/ c \notin Members(w.look)
       \/ c \in Barriers
       \/ c \in Skills /\ sums[c] # w.look.sums[c]
    THEN 0
    ELSE IF c \in Skills THEN bodies[c] ELSE 1

TheNext == Min(w.todo)

ReadBody ==
    /\ up /\ w.at = "read"
    /\ LET b == Given(TheNext)
       IN Go(IF b = 0
             THEN [w EXCEPT !.at = "kept", !.got[TheNext] = 0, !.before = NoLook]
             ELSE [w EXCEPT !.at = "file", !.got[TheNext] = b, !.before = w.look])
    /\ UNCHANGED <<catalogVars, asked>>

\* A writable skill's file has to hold the body the registry gave.
ReadFile ==
    /\ up /\ w.at = "file"
    /\ Go(IF TheNext \in Writable /\ bodies[TheNext] # w.got[TheNext]
          THEN [w EXCEPT !.at = "kept", !.got[TheNext] = 0, !.before = NoLook]
          ELSE Look(w, "kept"))
    /\ UNCHANGED <<catalogVars, asked>>

\* The candidate was read for good: both looks agree.
Kept == w.before.ok /\ w.look = w.before
----
(***************************************************************************)
(* The scan of the catalog.                                                *)
(***************************************************************************)

\* runOnce: claims the intent, or resumes a claimed one.
WakeRecall ==
    /\ up /\ w.at = "idle"
    /\ intent.status \in {"RUN2SKILL_OWNED", "RECALLING"}
    /\ IF intent.status = "RECALLING"
       THEN Go(Look(Idle, "plan"))
       ELSE Write([intent EXCEPT !.status = "RECALLING"], Look(Idle, "plan"))
    /\ UNCHANGED <<catalogVars, asked>>

\* #plan and #commitPlan; a plan that was committed has to be found again.
Plan ==
    /\ up /\ w.at = "plan"
    /\ IF ~w.look.ok THEN Attention("CATALOG_INCOMPLETE")
       ELSE IF ~(PagesOf(Members(w.look)) \subseteq Pages)
       THEN Attention("CATALOG_SCAN_BUDGET_EXHAUSTED")
       ELSE IF ~intent.plan.ok
       THEN Write([intent EXCEPT !.plan = w.look], [w EXCEPT !.at = "page"])
       ELSE IF ~Matches(w.look) THEN Attention("CATALOG_CHANGED")
       ELSE Go([w EXCEPT !.at = "page"])
    /\ UNCHANGED <<catalogVars, asked>>

ScanPages == PagesOf(Members(intent.plan))
OpenScanPages == {p \in ScanPages : intent.scan[p] # "SUCCEEDED"}

\* The next page without an answer: reserved, unless its call is there already.
(* A call that is still reserved is made again. *)
ScanPage_callsReserved ==
    /\ up /\ w.at = "page"
    /\ IF OpenScanPages = {} THEN Go(Look(w, "before"))
       ELSE Write([intent EXCEPT !.scan[Min(OpenScanPages)] = "RESERVED"],
                  [w EXCEPT !.at = "asking"])
    /\ UNCHANGED <<catalogVars, asked>>
ScanPage ==
    /\ up /\ w.at = "page"
    /\ IF OpenScanPages = {} THEN Go(Look(w, "before"))
       ELSE IF intent.scan[Min(OpenScanPages)] # "none" THEN Go(Idle)
       ELSE Write([intent EXCEPT !.scan[Min(OpenScanPages)] = "RESERVED"],
                  [w EXCEPT !.at = "asking"])
    /\ UNCHANGED <<catalogVars, asked>>

\* The classifier's answer for the page: a class of every summary on it, an
\* answer that does not fit the page, a failure, or one that may be retried.
ScanAnswer ==
    /\ up /\ w.at = "asking"
    /\ LET p == Min(OpenScanPages)
           page == {c \in Members(intent.plan) : PageOf(c, Members(intent.plan)) = p}
       IN /\ asked' = [asked EXCEPT !["scan"][p] = @ + 1]
          /\ \/ \E chosen \in SUBSET page :
                   Write([intent EXCEPT !.scan[p] = "SUCCEEDED",
                              !.classes = [c \in Candidates |->
                                  IF c \notin page THEN intent.classes[c]
                                  ELSE IF c \in chosen THEN "RELEVANT" ELSE "UNRELATED"]],
                         [w EXCEPT !.at = "page"])
             \/ \E end \in {<<"INVALID", "INVALID_CATALOG_SCAN_OUTPUT">>,
                            <<"FAILED", "CATALOG_SCAN_FAILED">>,
                            <<"FAILED", "CATALOG_SCAN_TEMPORARY_FAILED">>} :
                   Write([intent EXCEPT !.scan[p] = end[1], !.reason = end[2],
                                        !.status = "NEEDS_ATTENTION"], Idle)
    /\ UNCHANGED catalogVars

\* The look before the bodies are read.
BeforeRead ==
    /\ up /\ w.at = "before"
    /\ IF ~Matches(w.look) THEN Attention("CATALOG_CHANGED")
       ELSE Go([w EXCEPT !.at = "next", !.todo = Relevant])
    /\ UNCHANGED <<catalogVars, asked>>

\* #loadCandidates and #load, one candidate after the other.  The scan looks
\* once more only if something was read, the analysis always.
NextCandidate ==
    /\ up /\ w.at = "next"
    /\ Go(IF w.todo # {} THEN Look(w, "read")
          ELSE IF intent.status = "RECALLING" /\ Relevant = {}
          THEN [w EXCEPT !.at = "recalled"]
          ELSE Look(w, IF intent.status = "RECALLING" THEN "recalled" ELSE "loaded"))
    /\ UNCHANGED <<catalogVars, asked>>

\* The scan goes on past a candidate it cannot read; its summary has to be the
\* one that was classified.  The analysis stops unless the body is the one the
\* scan read.
AfterBody ==
    /\ up /\ w.at = "kept"
    /\ LET c == TheNext
           scanned == /\ Kept
                      /\ c \in Skills => w.before.sums[c] = intent.plan.sums[c]
           rest == [w EXCEPT !.at = "next", !.todo = @ \ {c}, !.before = NoLook]
       IN IF intent.status = "RECALLING"
          THEN Go(IF scanned THEN rest
                  ELSE [rest EXCEPT !.unread = @ \cup {c}, !.got[c] = 0])
          ELSE IF Kept /\ w.got[c] = intent.recalled[c] THEN Go(rest)
          ELSE Attention("COVERAGE_BODY_CHANGED")
    /\ UNCHANGED <<catalogVars, asked>>

\* #commitComplete, or one of the reasons not to.
Recalled ==
    /\ up /\ w.at = "recalled"
    /\ IF Relevant # {} /\ ~Matches(w.look) THEN Attention("CATALOG_CHANGED")
       ELSE IF w.unread # {} THEN Attention("RELEVANT_CANDIDATE_UNAVAILABLE")
       ELSE Write([intent EXCEPT !.status = "COVERAGE_READY", !.recalled = w.got], Idle)
    /\ UNCHANGED <<catalogVars, asked>>
----
(***************************************************************************)
(* The analysis of the bodies.                                             *)
(***************************************************************************)

\* runOnce: a claim starts the analysis over, with a plan of its own.
WakeCoverage ==
    /\ up /\ w.at = "idle"
    /\ intent.status \in {"COVERAGE_READY", "COVERAGE_RETRY_AUTHORIZED",
                          "COVERAGE_ANALYZING"}
    /\ IF intent.status = "COVERAGE_ANALYZING"
       THEN Go(Look(Idle, "matched"))
       ELSE Write([intent EXCEPT !.status = "COVERAGE_ANALYZING", !.sealed = FALSE,
                       !.calls = NoCalls, !.decisions = NoDecisions,
                       !.retryUsed = @ \/ intent.status = "COVERAGE_RETRY_AUTHORIZED"],
                  Look(Idle, "matched"))
    /\ UNCHANGED <<catalogVars, asked>>

\* #catalogStillMatches, before the bodies are read for the first and for the
\* last time.
StillMatches ==
    /\ up /\ w.at = "matched"
    /\ IF ~Matches(w.look) THEN Attention("COVERAGE_CATALOG_CHANGED")
       ELSE Go([w EXCEPT !.at = "next", !.todo = Relevant, !.got = NoBodies])
    /\ UNCHANGED <<catalogVars, asked>>

CoveragePages == PagesOf(Relevant)
OpenCoveragePages == {p \in CoveragePages : intent.calls[p] # "SUCCEEDED"}

\* #aggregate: what the decisions on every body amount to.
Decided(d) == {c \in Candidates : intent.decisions[c] = d}

Aggregate ==
    IF Decided("COVERED") # {}
    THEN IF intent.retryUsed THEN Attention("COVERAGE_RETRY_STILL_COVERED")
         ELSE Write([intent EXCEPT !.status =
                        IF intent.explicit THEN "COVERED_NEEDS_CONFIRMATION"
                        ELSE "COVERED"], Idle)
    ELSE IF Decided("PARTIAL") = {}
    THEN Write([intent EXCEPT !.status = "CREATE_AUTHORIZED"], Idle)
    ELSE IF Cardinality(Decided("PARTIAL")) = 1 /\ Decided("PARTIAL") \subseteq Mergeable
    THEN \* the merged body may be past the output budget
         \/ Write([intent EXCEPT !.status = "MERGE_AUTHORIZED"], Idle)
         \/ Attention("MERGE_OUTPUT_BUDGET_EXHAUSTED")
    ELSE Attention("COVERAGE_AMBIGUOUS")

\* The look that ends #load; then the pages are grouped and the plan sealed, or
\* after the last page the decisions are put together.
Loaded ==
    /\ up /\ w.at = "loaded"
    /\ IF ~Matches(w.look) THEN Attention("COVERAGE_CATALOG_CHANGED")
       ELSE IF w.pass = 2 THEN Aggregate
       ELSE IF ~(CoveragePages \subseteq Pages)
       THEN Attention("COVERAGE_BUDGET_EXHAUSTED")
       ELSE IF intent.sealed THEN Go([w EXCEPT !.at = "coveragePage"])
       ELSE Write([intent EXCEPT !.sealed = TRUE], [w EXCEPT !.at = "coveragePage"])
    /\ UNCHANGED <<catalogVars, asked>>

\* The next page without decisions: reserved, unless its call is there already.
CoveragePage ==
    /\ up /\ w.at = "coveragePage"
    /\ IF OpenCoveragePages = {} THEN Go(Look([w EXCEPT !.pass = 2], "matched"))
       ELSE IF intent.calls[Min(OpenCoveragePages)] # "none" THEN Go(Idle)
       ELSE Write([intent EXCEPT !.calls[Min(OpenCoveragePages)] = "RESERVED"],
                  [w EXCEPT !.at = "analysing"])
    /\ UNCHANGED <<catalogVars, asked>>

\* The classifier's answer for the page.
CoverageAnswer ==
    /\ up /\ w.at = "analysing"
    /\ LET p == Min(OpenCoveragePages)
           page == {c \in Relevant : PageOf(c, Relevant) = p}
       IN /\ asked' = [asked EXCEPT !["coverage"][p] = @ + 1]
          /\ \/ \E answer \in [page -> {"COVERED", "PARTIAL", "UNRELATED"}] :
                   Write([intent EXCEPT !.calls[p] = "SUCCEEDED",
                              !.decisions = [c \in Candidates |->
                                  IF c \in page THEN answer[c] ELSE intent.decisions[c]]],
                         [w EXCEPT !.at = "coveragePage"])
             \/ \E reason \in {"COVERAGE_CALL_FAILED", "INVALID_COVERAGE_OUTPUT"} :
                   Write([intent EXCEPT !.calls[p] = "FAILED", !.reason = reason,
                                        !.status = "NEEDS_ATTENTION"], Idle)
    /\ UNCHANGED catalogVars
----
(***************************************************************************)
(* The user, the catalog and the faults.                                   *)
(***************************************************************************)

\* #retryCatalog: once in the life of an intent, for a call that failed in a way
\* that may pass; the page gets a call of its own.
RetryCatalog ==
    /\ up
    /\ intent.status = "NEEDS_ATTENTION"
    /\ intent.reason = "CATALOG_SCAN_TEMPORARY_FAILED"
    /\ intent.scanRetry = 0
    /\ LET p == CHOOSE q \in Pages : intent.scan[q] = "FAILED"
       IN intent' = [intent EXCEPT !.status = "RECALLING", !.reason = "none",
                                   !.scanRetry = p, !.scan[p] = "none"]
    /\ UNCHANGED <<w, up, catalogVars, troubles, refused, failed, asked>>

\* #retry: the user disputes that the skill exists already.
DisputeCoverage ==
    /\ up
    /\ intent.status = "COVERED_NEEDS_CONFIRMATION"
    /\ ~intent.retryUsed
    /\ intent' = [intent EXCEPT !.status = "COVERAGE_RETRY_AUTHORIZED", !.retryUsed = TRUE]
    /\ UNCHANGED <<w, up, catalogVars, troubles, refused, failed, asked>>

\* Somebody edits, adds or deletes a skill.  What happens after the two stages
\* are done with the intent is left to the stages after them.
EditSkill ==
    /\ intent.status \in Working
    /\ CanMove
    /\ edits' = edits + 1
    /\ \E s \in Skills :
          \/ \E v \in (0..2) \ {sums[s]} : sums' = [sums EXCEPT ![s] = v] /\ UNCHANGED bodies
          \/ bodies' = [bodies EXCEPT ![s] = 3 - @] /\ UNCHANGED sums
    /\ UNCHANGED <<intent, w, up, pend, epoch, journal, troubles, refused, failed, asked>>

\* Another intent's result, proposal or barrier moves the pending catalog.
BeginMutation ==
    /\ intent.status \in Working
    /\ ~journal /\ CanMove
    /\ journal' = TRUE
    /\ UNCHANGED <<intent, w, up, sums, bodies, pend, epoch, edits, troubles, refused,
                   failed, asked>>

FinishMutation ==
    /\ journal
    /\ journal' = FALSE /\ epoch' = epoch + 1
    /\ \E c \in Proposals \cup Barriers :
          pend' = IF c \in pend THEN pend \ {c} ELSE pend \cup {c}
    /\ UNCHANGED <<intent, w, up, sums, bodies, edits, troubles, refused, failed, asked>>

Crash ==
    /\ up /\ intent.status \in Working
    /\ CanMove
    /\ troubles' = troubles + 1
    /\ up' = FALSE /\ w' = Idle
    /\ UNCHANGED <<intent, catalogVars, refused, failed, asked>>

\* recover of both stages: a call whose answer was not sealed is not made again.
(* The recovery leaves the reserved calls as they are. *)
Restart_keepsReserved ==
    /\ ~up
    /\ up' = TRUE
    /\ UNCHANGED <<intent, w, catalogVars, troubles, refused, failed, asked>>
Restart ==
    /\ ~up
    /\ up' = TRUE
    /\ intent' =
         IF intent.status = "RECALLING" /\ \E p \in Pages : intent.scan[p] = "RESERVED"
         THEN [intent EXCEPT !.status = "NEEDS_ATTENTION",
                   !.reason = "CATALOG_SCAN_OUTCOME_UNKNOWN",
                   !.scan = [p \in Pages |-> IF @[p] = "RESERVED" THEN "UNKNOWN" ELSE @[p]]]
         ELSE IF intent.status = "COVERAGE_ANALYZING"
                 /\ \E p \in Pages : intent.calls[p] = "RESERVED"
         THEN [intent EXCEPT !.status = "NEEDS_ATTENTION",
                   !.reason = "COVERAGE_OUTCOME_UNKNOWN",
                   !.calls = [p \in Pages |-> IF @[p] = "RESERVED" THEN "UNKNOWN" ELSE @[p]]]
         ELSE intent
    /\ UNCHANGED <<w, catalogVars, troubles, refused, failed, asked>>
----
Drain ==
    \/ FirstRuntime \/ ReadPending \/ SecondRuntime \/ ReadBody \/ ReadFile
    \/ WakeRecall \/ Plan \/ ScanPage \/ ScanAnswer \/ BeforeRead
    \/ NextCandidate \/ AfterBody \/ Recalled
    \/ WakeCoverage \/ StillMatches \/ Loaded \/ CoveragePage \/ CoverageAnswer

Next ==
    \/ Drain
    \/ RetryCatalog \/ DisputeCoverage
    \/ EditSkill \/ BeginMutation \/ FinishMutation
    \/ Crash \/ Restart

Spec == Init /\ [][Next]_vars /\ WF_vars(Drain)
----
Terminal == {"COVERED", "COVERED_NEEDS_CONFIRMATION", "CREATE_AUTHORIZED",
             "MERGE_AUTHORIZED"}

\* An intent is decided on one catalog: the last look shows the summaries, the
\* pending candidates and the epoch of the plan; every summary of the plan was
\* classified; every candidate that is not unrelated was judged by the body the
\* last read found; and a refreshed intent is decided at the epoch of its refresh.
DecidedOnOneCatalog ==
    [][(intent.status \notin Terminal /\ intent'.status \in Terminal) =>
          /\ w.look.ok /\ w.look = intent.plan
          /\ \A c \in Candidates :
                (c \in Members(intent.plan)) <=> (intent.classes[c] # "none")
          /\ \A c \in Relevant :
                intent.decisions[c] # "none" /\ w.got[c] = intent.recalled[c]
          /\ intent.refreshed => intent.plan.epoch = 0]_vars

\* No page is sent to a model twice, whatever crashes and fails: only the user's
\* own retry, of the scan's failed page or of the analysis, sends one again.
CalledOnce ==
    \A p \in Pages :
        /\ asked["scan"][p] <= 1 + (IF intent.scanRetry = p THEN 1 ELSE 0)
        /\ asked["coverage"][p] <= 1 + (IF intent.retryUsed THEN 1 ELSE 0)

\* While the plugin stays up, every intent leaves the two stages for a decision
\* or for the user's attention, whatever others do to the catalog; unless a write
\* failed or was refused, which leaves it where it was.
RecallSettles ==
    <>[](\/ intent.status \notin Working
         \/ ~up \/ failed \/ refused # "none")

\* A refreshed intent that turns out to be covered ends there: the store takes
\* the terminal state.
====
