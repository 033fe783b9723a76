# A verification project for Run2skill

Run2skill is a plugin that watches the turns of DSH agent sessions, decides with
a restricted model call which of them hold an experience worth keeping, and turns
each experience into a proposal for a skill file that the user reviews, revises,
publishes or rejects. All of its state is kept in a storage domain of the host:
a map of rows per kind (turn observations, batches, intents, lineages) and one
global record. A put or an update of one row is atomic; nothing spans two rows.
Most of what can go wrong lives in that gap: the code is a set of small workers
that move rows from state to state, and every worker must survive a crash, a failed
write or another actor between any two of its writes. The rest of what can go
wrong lies in the world outside: session logs, skill directories and a settings page
that go on moving while the code awaits them.

Paths below are relative to `src/src/` unless they start with `docs/` or `tests/`;
`:nnn` alone is a line of `docs/design/issue-84-session-batch-learning.md`.

## Inventory

| Part | State it keeps | Operations | Hard behaviour | What makes it correct |
|---|---|---|---|---|
| Capture and session observation (`application/capture`, `adapters/dsh-session`) | queue of signals, observed turns, scan cursors | activate, accept, drain, scan, degrade, reopen, dispose | saturation, failed keys, scans in slices over logs that grow | every finished turn is observed in the end |
| Session batching (`application/batch`) | `global.cursors`: per session observed and scanned watermarks, active batch, carry, manual request, last activity; `sessionBatches` rows | prepareSessionWindow, recordObservation, requestSynthesis, flushIdle, flushRequested, recover; the scheduler's queue and timer | a flush pass over many sessions races with the detector, two writes per freeze, cursors rebuilt after a restart | every turn in one batch, requests held and then served |
| Skill baselines (`adapters/dsh-skills/v2-root-manifest.ts`, `v2-catalog-adapter.ts`) | none that lasts: a walk of the roots and an observation of the runtime's catalog | capture | files change and the runtime scans between the reads | a complete baseline is of one moment |
| Batch detection (`application/detection`) | batch rows, staged intents, the watermark | runOnce, recover | the model call, four kinds of durable write in a row, a crash anywhere | no second call for the same turns, intents agree with the row |
| Pipeline runtime (`application/pipeline`, `host/v2-pipeline.ts`) | promise queue, timer | start, observe, requestSynthesis, wake, dispose | a drain of all stages up to 256 steps; deadlines; stages that report progress without any | what is ready is worked on, a start does not fail because of one row |
| Quiescence and ownership (`application/quiescence`, `application/ownership`) | intent status, fences, in-memory retries | runOnce, validate, nextEligibleAt, recover | session observed across an await; retry times held only in memory | an intent is released only after its session has been silent, and on a fence that still holds |
| Recall and coverage (`application/recall`, `application/coverage-analysis`) | intent status, pages | runOnce, recover, retry, dispute | catalog and bodies that change between pages | an intent is decided on one catalog |
| The intent's row (`domain/v2/schemas.ts`) | one row through all stages | every update of every worker | a row that the schema refuses is refused again at each try | no worker composes a row that cannot be written |
| Generation (`application/generation`) | intents' generation state, global lease, mutation journal, catalog epoch, behaviour index, lineages | runOnce, recover | one global lease; call intent, result, barrier, journal and lineage as separate writes | one call per reservation, one active lineage per behaviour, the lease is released |
| Desk (`application/review`, `application/publication`, the attention RPC) | the same journal and lineages | inspect, approve, reject, refresh, revise, publish, dismiss and their recoveries | every one prepares a journal and finishes it in later writes; recoveries dispatch on one journal | one holder at a time; what is written is what was approved |
| Publication filesystem (`adapters/dsh-publication`) | skill files, a journal of records per attempt | resolve and prepare the root, publish, recover, withdraw, finalise | the owner moves and edits files between any two operations; outcome unknown after a crash | nothing of the owner's is lost; what is answered is true |
| Purge (`application/purge/v2-purge-service.ts`) | `global.purgeJournal` | preview, confirm, retry, recover | row-by-row deletion beside workers that go on | nothing runs under it, what was deleted stays away, it ends |
| Client (`client/`, `adapters/dsh-connection`) | inbox, settings section, poller | select, decide, revise, poll | answers late, lost or stale; clicks that wait | a click decides about what was shown |
| V1 (`application/learn`, v1 stores and sagas) and `application/migration` | work items, reviews, publication sagas | lease, call, review, publish, purge, migrate | | no longer constructed: the plugin builds `Run2skillV2RuntimeFactory` (`host/index.ts` 1003) alone, and only a test calls the migration |

Components interact in four ways: the host calls `observe`, `requestSynthesis`
and `wake` (fire and forget, each appended to a promise queue); stages read and
write the same rows; the desk's and the purge's RPC handlers run at any moment
between two awaits of a stage; and the adapters read files and logs that others
write. JavaScript runs one synchronous section at a time, and each row's
read-modify-write and each `runExclusive` of the global record is such a section,
so these are the atomic steps of the models.

## Modules

| Module | What it is |
|---|---|
| `Capture`, `MCCapture` | from session logs to observed turns: activation, signals, the recovery lifecycle, the gap scanner |
| `SessionBatch`, `MCSessionBatch`, `SessionBatchProofs` | session batching, batch detection, and the wakes, flushes and drains that join them; its theorems, about one batch and about the order of all of them |
| `SkillBaseline`, `MCSkillBaseline`, `SkillBaselineProofs` | the capture of a complete baseline while files change; its theorems |
| `Quiescence`, `MCQuiescence`, `QuiescenceProofs` | the release of intents, the ownership decision, the deadlines and the timer; its theorems |
| `Recall`, `RecallProofs` | the scan of the catalog and the analysis of coverage, await by await; its theorems |
| `IntentRow` | every write of an intent's row against the schema of the row |
| `Generation`, `MCGeneration`, `GenerationProofs` | the generation worker from a recalled intent to an active proposal, with the mutations of the desk that share its global record; its theorems |
| `CatalogFence` | abstract: one holder of the catalog, one mutation prepared at a time, an epoch that only the holder or the user that gives the holder up may move. `Generation` and `ProposalDesk` implement it |
| `ProposalDesk`, `ProposalDeskProofs` | review, publication, refresh and revision beside each other, with their recoveries; its theorems |
| `PublicationAttempt` | abstract: what the file port promises about one attempt. `SkillFile` implements it; `ProposalDesk` relies on it |
| `PublicationRoot` | the resolution of a publication root and its preparation, level by level |
| `SkillFile`, `SkillFileProofs` | extends it: the transaction that installs one approved file, file operation by file operation; its theorems |
| `Purge`, `PurgeProofs` | clearing the cache beside the workers that go on filling it; its theorems |
| `ProposalInbox` | the settings page's list of drafts and the endpoints behind it |
| `SettingsPage` | the settings page's purge panel and its list of recent activity, with the endpoints behind them |

The modules meet at the state they share. What one module leaves to another is an
action of its environment there: `Quiescence` takes batches and intents from
`SessionBatch`, `Recall` a moving epoch from `Generation` and `ProposalDesk`,
`ProposalDesk` the answers of `PublicationAttempt`, which `SkillFile` is shown to give, and
a holder "OTHERS" of the catalog, which is `Generation` seen through `CatalogFence`.

`PROJECT.json` maps the definitions to the lines they stand for. One-line names of values and sets
(`NoJournal`, `Advanced`) have no entry of their own: the definitions that use them are mapped to their lines.

## Plan

Done: capture, batching and detection, baselines, quiescence, recall and coverage, the
intent's row, generation, the desk, publication, purge, the inbox, the purge panel and the recent activity. What is left, in this order:

1. `HostSessions`: the host's runtime per agent scope (`host/index.ts` 663-948), with dormant
   sessions, changed directories and the cached configurations.
2. The dismissal of a batch in attention, in `SessionBatch`.
3. Theorems: what is only model-checked so far (see *Proofs*).

## Module `Capture`

| Variable | Code |
|---|---|
| `log` | the host's logs: each event is a preset, the start of a turn, a header, or an end. A log is append-only; a revision is its length and a digest of a prefix the positions hashed |
| `active`, `rows`, `cursor` | durable: the activation, the turn observations, the session cursors |
| `life`, `queue`, `keys`, `failed` | the recovery lifecycle (`recovery-lifecycle.ts`) and its bounded queue of signals |
| `scan`, `root`, `memo` | the batch of a scan in progress, the root it reads, what it remembers (`v2-gap-scanner.ts`) |
| `preparing` | sessions whose window is being prepared |
| `heard`, `cut` | history: how long a log was when the plugin began to listen, and what the activation took for history |

Actions: `Activate` (the fence of the first activation, 168-262), `Log` with `Accept` (a signal is
queued, or its session marked for a scan when the queue is full), `OpenRuntime`, `ProbeFires`, `TakeNext`,
`LoopEnds`, `DrainSettles`, `TryEntry`, `AttemptFails` (four attempts of a candidate), `CatchUp`
(lifecycle 98-396); `List`, `ReadRoot`, `SkipSettled`, `PutRow`, `MoveCursor`, `InspectedAll`, `Note`,
`EndBatch` (one slice of a scan, 312-582); `PrepareWindow`, `WindowPrepared`; `Crash`, which also
stands for a close, and `Start`.

*Abstractions.* Sessions are roots; a log is never rolled back; a turn is its end and
whether it is whole. A row and its cursor are two writes of one exclusive section.
*Bounds.* Queue of one, slices of one session and two events, two attempts: saturation, a scan
in several slices and an exhausted candidate all happen with six events in two logs. One
trouble: a failed read or write, or a crash.
*Fairness.* `WF(Program)`: a promise once started runs to its next wait, timers fire, and the
host starts its plugins. Nobody is obliged to log anything.

## Module `SessionBatch`

### State

| Variable | Code |
|---|---|
| `obs[s]` | the `turn_observations` rows of a session: for each stored turn whether it is complete and whether it asks to be saved |
| `batch[s][<<from, to>>]` | the `session_batches` row; the code's identity is a hash of the same three. State, reasons, carry, number of intents, baseline. `called` counts the calls made for it: history |
| `intent[s][id][k]` | the status of the `k`-th experience intent of a batch |
| `cursor[s]` | the session's record in the global row: observed and detected watermark, active batch, manual request, carry, boundary baseline |
| `idle[s]` | has the idle deadline passed since the cursor's last activity? |
| `phase` | how far the start of the plugin has come: `down`, the detector's `recover`, `bind` (the cursors), `ask` (the flush that ends the start), `up` |
| `sched`, `wake`, `drain` | the promise tails: what the scheduler's current operation does next, a queued wake, queued drains of the pipeline |
| `det` | the detector: the next durable write (`pc`), the row it works on, the number of intents of the output |
| `crashes`, `faults` | bounds |

### Actions

| Action | Code |
|---|---|
| `PrepareSessionWindow`, `RecordObservation` | `session-batch-coordinator.ts` 130-225 |
| `RequestSynthesis`, `FlushRequested` | 240-290 and the permit of `host/v2-pipeline.ts` 70-86 |
| `TimerFires`, `WakeRequested`, `FlushIdle`, `ObserveFlush`, `StartFlush` | the scheduler: `nextIdleAt`, `wake`, `observe`, `start` |
| `Freeze` (an operator) | `#freezeOne` 435-597, every early return and throw |
| `StartDrain`, `RepairCommittedReady`, `ClaimNext`, `NothingFrozen`, `CallReturns`, `StageIntent`, `CommitReady`, `CommitAttention`, `SettleIntents`, `AdvanceCursor`, `AfterStageTransition` | `batch-detector-worker.ts`, one action per durable write |
| `WriteFails` with `Resume` | where `runOnce` goes on when such a write rejects |
| `Crash`, `Start`, `RecoverBatch`, `DetectorRecovered`, `RecoverCursors`, `Reopen` | loss of all volatile state, then `recover` of the detector and of the coordinator in that order |
| `AgentDisposed` | a wake from the host |

A flush over several sessions is one step up to its first failure: the pass runs inside
`runExclusive`, the rows it puts are new, and what the detector may write between two of
its awaits are rows that the pass has read. A pass that throws at a session
(`FlushThrows`) keeps the rows of the earlier sessions and writes no cursor.

### Abstractions

* Time is the one flag `idle[s]`. The order of the deadlines of different sessions is free.
* The detector's input is available except in the fault branch of `ClaimNext`; automatic
  learning is on; no purge is under way.
* A carry is its remaining lifetime. Contents, digests and the wording of reasons are left out.
* Two wakes that wait in the same queue are one: the second drain finds nothing.
* `Crash` also stands for a graceful stop, whose pending promises are dropped.
* The worker takes the oldest batch of a session first; between sessions the choice is
  free, because identities are hashes.

### Bounds

`MaxTurn` turns per session, `MaxIntents` intents of one output, `MaxCrashes`,
`MaxFaults`. `Threshold` (five in the code) is two and `CarryLife` (two in the code) is
one, so that a batch by threshold, a tail below it, a request and a carry that runs out
all occur within two turns. The run has one session: the definitions go through
sessions in the code's order, and what two of them share is the worker, the queues and one
pass of flushes, whose failure in the middle is a finding below. `Chosen` in `MCSessionBatch`
is the run's bound on trouble and on histories: one thing goes wrong (a crash, a failed write or a
batch without a route), and of two turns at least one is plain. The theorems on the order of
batches have neither bound.

### Fairness

`FairSpec`: weak fairness of the scheduler's steps and of the start, strong fairness of
the detector (its drain waits in FIFO order behind wakes that may keep coming, so it is
held up again and again, never for ever), and the idle deadline of a session comes.
Nothing obliges turns to arrive, requests to be made, or a failed write to be retried: after one,
the code itself may leave a session to the next event or restart, so `EverythingSettles`
speaks of the behaviours without one.

## Module `SkillBaseline`

A baseline is complete when two walks of the skill roots agree, and two observations of the
runtime's catalog between them agree too. `disk` and `listing` are the files and the versions of
the directories, `registry` what the runtime found when it last scanned, `port` whether the session
has a file system of its own and whether summaries give paths, `job` the capture and `baseline` its
result. Actions are the awaits of `v2-root-manifest.ts` 278-534 (`NextRoot`, `OpenRoot`, `SkipEntry`,
`ReadEntry`, `ReadRest`, `EntriesDone`, `Walked`, `Finish`) and of `v2-catalog-adapter.ts` 389-907
(`LookAt`, `LookAway`, `ReadBody`, `PassDone`, `Decide`); `Write`, `Delete` and `Rescan` are everybody
else. Without a context file system a file is a stream of two pieces, so that a write can tear it.

*Abstractions.* No write brings back earlier bytes: with one between the walks the property fails
in the code too, which compares bytes. A root that has files exists; a bundle and a flat file are
one kind; which roots a configuration gives is left out, and a limit of the walk is one outcome,
`Exhausted`. The world stands still once the capture has ended.
*Bounds.* A project root with one file and a user root with two whose names coincide, two edits:
an edit in each root on either side of its walk. The two files of the user root are symmetric.

## Module `Quiescence`

A session is a log of turns. `mem` and `disk` count the starts and ends of turns in memory and on
disk, so that position 2n is the end of turn n; `agent` is the registry, `deed` and `skills` what
agents have done to skill files, `base` the baselines. `cursor`, `batch` and `intents` are the rows;
`left`, `retry` and `timer` are what is left of each deadline; `work` is the drain at an await.

| Actions | Code |
|---|---|
| `AgentOpens`, `AgentRuns`, `TurnStarts`, `TurnEnds`, `Flush`, `AgentRests` | a session as `v2-session-activity.ts` and `v2-ownership-observation.ts` observe it |
| `Capture`, `Freeze`, `Detect` | what `SessionBatch` does: the cursor moves, a batch is frozen, intents are left |
| `RunQuiescence`, `Consider`, `Look`, `Release`, `Check`, `PutBack` | `session-quiescence-coordinator.ts` 62-320: observe, release, validate, put back |
| `Arbitrate`, `Verify`, `Ready`, `Claim`, `Claimed`, `BindInput`, `Captured`, `Seal`, `Sealed`, `RecordEnd`, `Recorded`, `Decide`, `Finalize`, `Requeue`, `RecoverClaim` | `agent-first-ownership.ts` 57-405 |
| `StartDrain`, `Rest`, `Schedule`, `Tick`, `TimerFires`, `Crash`, `Start` | `v2-pipeline-runtime.ts` 59-218 |

*Abstractions.* What a turn did is read as nothing, a save of the skill, or something else; a save is
found by its turn. A session that is closing is idle, then absent. Edits by others happen right
before somebody reads. The limit of 256 steps and row revisions are left out, so that of two writes the second
is refused by state alone. Time passes in drains too; `retry[i].late` notes a deadline of an intent that
passes in a drain after the drain has passed the intent, which is what `SilenceSettles` leaves out
(see findings).
*Bounds.* One session of two turns and one intent: a second turn may supersede, interrupt or
follow the release of the first. Idle time and the retry delay are one tick; every observation may
fail once.
*Fairness.* Weak fairness of the drain, the clock and the timer, and of what makes a log durable
and its batches known. No agent is obliged to end a turn.

## Module `Recall`

One intent from `OWNED` to an authorised action. `sums`, `bodies` and `pend` are the catalog as it
is, `epoch` and `journal` the global record, `w` the drain at an await with what it holds, `intent`
the row, `asked` counts the calls sent for each page. A look at the catalog is three reads
(`FirstRuntime`, `ReadPending`, `SecondRuntime`), a look at a body two such looks around two
more reads (`ReadBody`, `ReadFile`, `Kept`). `complete-catalog-recall.ts` is `WakeRecall`, `Plan`,
`ScanPage`, `ScanAnswer`, `NextCandidate`, `AfterBody`, `Recalled`; `complete-coverage.ts` is
`WakeCoverage`, `Loaded`, `CoveragePage`, `CoverageAnswer`, `Aggregate`; `RetryCatalog` and
`DisputeCoverage` are the user's two retries, and `Restart` the recoveries.

*Abstractions.* RELEVANT and POSSIBLE are one class; the several reasons for which a plan no longer
holds are one; a body too large for a call counts like a barrier, which has none. The
environment stops when the intent leaves the two stages.
*Bounds.* A skill that can be edited, a pending proposal with a body, a barrier; one summary or
body per call and two calls, so that a scan has several pages and may exceed its calls. Two
moves: edits, mutations, failures and crashes share them.
*Fairness.* `WF(Drain)`: the pipeline goes on while a stage reports work. Nobody else is fair.

## Module `IntentRow`

All workers, recoveries and user actions write the same row, and the schema (`domain/v2/schemas.ts`
1228-2091) decides whether a row may exist at all. `row` has the parts of the schema, `lease` and
`epoch` what of the global record the workers compare, `flight` the call this process is in the middle of,
`refused` the statuses the schema has refused. `Valid` is the schema: `StatusFits`,
`QuietFits`, `OwnershipFits`, `RecallFits`, `ScanPlanFits`, `ScanLedgerFits`, the plan, the ledger and the verdict
of coverage (`CoveragePlanFits`, `CoverageLedgerFits`, `CoverageVerdictFits`), `GenerationFits`,
`BarrierFits`, `CallsFit`, `ReceiptsFit`. Each write of each worker is an action with the guards of its update;
what led the worker to it is a free choice, because it is the matter of the other modules. A
digest is the record of the facts it is derived from, so that two digests agree when and only
when the facts do. A write that the schema refuses leaves the row as it was.

*Abstractions.* One summary per page, one page of coverage; the two writes of an acquisition and
of a sealing are one where no recovery tells them apart; refresh and dismissal are one step;
the sizes of lists (96 calls, 32 reasons), the digests of inputs and outputs, and purge are left out.
*Bounds.* Two pages, one move: a restart, a mutation by others, or a turn of the session.
Candidates are read or not; with the third reading (readable, not writable) the properties hold too, on
544,345 states.
*Fairness.* `WF(Work)`: the drain calls the workers as long as one of them has something to do.

## Module `Generation`

### State

`global` is the part of the global row that generation uses: the catalog `epoch`, the
mutation `journal`, the `lease`, and the behaviour `index`. `intents[i]` is an intent's
status together with its generation state (round, planned epoch, call, coverage decision,
reason for attention, barrier), which one row update writes. `lineages[b]` is the proposal
lineage of a behaviour: state, revision, owner and its proposals, each with the failure
that the last inspection recorded. These three are the kinds of durable write, each atomic
by itself. `mode`, `worker`, `desk` and `glance` are the process: the start, the worker's
next write, the user's mutation and the inspection in progress. `calls[<<i, r>>]` counts
the model calls of a generation.

### Actions

| Actions | Code |
|---|---|
| `Claim`, `PlanRecall`, `EndRecall`, `Classify`, `Aggregate` | what recall and coverage make durable: the epoch they plan for and the decision, with the rows `v2` schemas refuse |
| `Acquire`, `AcquireAgain`, `Refuse`, `Bind`, `BeforeCall`, `ReleasePreCall`, `ResetPreCall` | `generation-worker.ts` 409-541, 213-287, 1767-1817 |
| `MarkReserved`, `ReserveCall`, `Generate`, `TerminalCall` | 601-687: lease, intent, the call, its outcome |
| `PrepareOutcome`, `CommitOutcome`, `FinalizeOutcome`, `FenceResult`, `MarkStale`, `ReleaseStale` | 731-978, 1709-1746: sealing a result or a barrier under a journal |
| `Revalidate`, `AuthorizeIntent`, `AuthorizeLease`, `PrepareProposal`, `PutProposal`, `MarkBody`, `FinalizeBody`, `CheckDurable`, `RollBack`, `Abandon`, `Activate`, `IndexActive`, `Complete` | 980-1707: committing a proposal |
| `Recover`, `ForceUnknown`, `Strand`, `StrandReset` | `recover` 352-407 and what it calls |
| `RefreshProposal`, `RefreshLineage`, `RefreshIntent`, `RefreshFinal` | `review/v2-proposal-refresh.ts` |
| `RejectProposal`, `RejectAgain`, `RejectLineage`, `RejectFinal`, `Drop` | `review/v2-proposal-review.ts` |
| `Dismiss`, `DismissIntent`, `DismissFinal` | `dsh-connection/v2-learning-attention-rpc.ts` |
| `RecoverDesk` | the recovery of each of these, at startup and after a failed step |
| `Inspect`, `RecordInspection` | `inspect` 133-176: what is read, and what is written if the revision has not moved |
| `Crash`, `Restart` | the process stops anywhere; a start runs the recovery of the desk, then the worker's |

Every durable write of the worker and the desk is a step of its own and may throw
(`Fault`), in which case it may or may not have reached the disk: this is the case
`#commitPreparedProposal` looks at the disk for, and it is in every write.

### Abstractions

* The desk runs one mutation at a time, with inspection beside it; `ProposalDesk` has several
  at once, beside a generation seen through `CatalogFence`.
* A catalog snapshot is complete exactly while no journal is prepared, which is what
  `v2-pending-catalog.ts` decides from the global row. Unreadable roots are the recall
  outcome `INCOMPLETE`. Coverage is one page.
* The refusals by budget and by a missing batch are merged with the other refusals before
  the call. The confirmation of an explicit save is left out; approval, publication and
  revision are in `ProposalDesk`, the catalog retry in `Recall`, the purge in `Purge`.
* Lines 1837-1854 of the worker (an orphaned `NOT_CALLED` lease) are left out: only a
  purge leaves such a lease. A recall or a coverage whose row the schema refuses is a
  disabled `EndRecall` or `Aggregate`, and with it the stages behind it; `IntentRow` has the
  refusal as a step.
* An intent has at most two rounds: the second is the one that follows its one refresh.

### Bounds

`NIntent` intents in the order of their creation; `Shared` gives the two of the run one
behaviour, which is where they compete. `MaxRevision` bounds inspections; `MaxCrashes`
and `MaxFaults` are as above, and two failed writes let the recovery from a failure fail too.
Two intents are enough for every conflict the code distinguishes, since all of its
tests compare one intent with the one named in the lease, the index or the lineage.

## Module `CatalogFence`

What every reader of the Pending Catalog relies on, in three variables. An intent takes the
catalog when nobody holds it and nothing is prepared; a mutation is prepared, then committed
(the epoch moves by one) or dropped; the holder does not let go in the middle of its own
mutation; a mutation of the user that commits leaves the catalog with nobody. The mapping
of `Generation` is `holder <- lease.i`, `epoch <- epoch` and `prepared <- PreparedBy`, which reads from the
kind of the journal whether it is the generation's or the user's.
It is what the code's scattered comparisons of lease, journal and epoch amount to; each
prepare and each finalize makes them again because any amount of time, and a restart, may
lie between.
`ProposalDesk` maps its fence, behind which others are one holder "OTHERS".

## Module `ProposalDesk`

`global` is the epoch, the journal and a fence for everybody else (a generation's lease, a purge);
`lineage` the rows, each with the state of its intent, its proposals and its revision actions;
`opened` and `final` what attempts have done on disk; `asked` the requests that wait and `job[c]`
what each of the four coordinators is in the middle of: its next write and what it has read. A
coordinator runs one operation at a time (each has its own tail in the code), all four beside each
other and at every await.

| Actions | Code |
|---|---|
| `Ask`, `Return`, `Throw` | the RPC handlers, with what `v2-current-scope-authorizer.ts` offers |
| `Inspect`, `Relieve`, `Approve`, `Attention`, `PrepareReview`, `Decide`, `CommitReview`, `ClearReview` | `v2-proposal-review.ts` 133-480 |
| `Publish`, `PreparePublication`, `Execute`, `Install`, `Answered`, `Refuse`, `RecordFailure`, `ClearAttempt`, `PublishRow`, `CommitAttempt`, `Reconcile`, `Unexecute`, `Recheck` | `v2-proposal-publication.ts` 144-569 |
| `Revise`, `ReserveCall`, `Call`, `RecheckRevision`, `PrepareRevision`, `Child`, `Settle`, `Salvage`, `MarkFailed`, `ForgetCalls` | `v2-proposal-revision.ts` 239-638 |
| `PrepareRefresh`, `Supersede`, `Recall`, `CommitRefresh` | `v2-proposal-refresh.ts` 115-296 |
| `RecoverReview`, `RecoverRefresh` and the steps above as recoveries | the four recoveries in their order, `v2-production-runtime.ts` 210-222 |
| `Take`, `Commit`, `Release`, `Purge`, `Crash`, `Restore` | the others, and the process |

*Abstractions.* A proposal is its lineage and position; the file port is `PublicationAttempt`;
the catalog is readable or not at each look. The conversation with the model is one call.
*Bounds.* One lineage with three requests of any kind and two revision identifiers, so that a
retry with a known identifier occurs; one holder elsewhere, one failed write, one crash. With
two lineages nothing is shared but the journal and the epoch, which the second fence stands for.
A root that moved is answered `STALE` before the disk is looked at (`Answers`); `denied` keeps the attempts
last answered so although their file was final (see findings).

## Modules `PublicationAttempt`, `PublicationRoot` and `SkillFile`

`PublicationAttempt` has two variables: what an attempt has done (`UNTOUCHED`, `OPEN`, `FINAL`)
and the answer not yet acted on. `ABSENT` is answered only while nothing of the attempt exists,
`PUBLISHED` only once it is final, and a final attempt never with a conflict or `ABSENT`.

`PublicationRoot` has the two levels above the skills (`.dsh/skills` of a project, or the DSH
home), what the process observed of them when it bound the root, and their preparation, one
directory at a time, while their owner removes, replaces or links them
(`v2-stock-publication-binding.ts` 43-318, `filesystem-cas.mjs` 122-459).

`SkillFile` extends it with the bundle directory: inodes, names (`target`, `stage`, `backup`,
`claim`), bytes, the newest record of the append-only journal and the half-written ones after it.
Each file operation of `filesystem-cas.mjs` 479-1278 is an action: claim, stage, reserve, move,
link, install, check, put back, tidy, withdraw, finalise, and the recovery that looks at journal and
directory and decides where to go on (`Look`, `LookCreate`, `LookMerge`). A session with its own file
system is written with one conditional write (`Read`, `Write`, `Reread`, `Readback`, `Confirm`). The
owner may write, delete, replace or link between any two operations, and a crash may come at any of them.
A look at the target and the unlink that follows are two steps (`Preserve`, `Rebind`, `Dislodge`; `Match`,
`Withdrawing`), as are the link back and the unlink of the backup (`Restore`, `Release`); `fate` keeps whether the
owner saved between the look and the unlink, and whether the unlink destroyed that.

*Abstractions.* A resolution reads both levels at one moment; what is above them stays. The
root keeps its identity once a record exists. Observing a stage, a claim or a backup and unlinking it right
after is one step: nobody else writes these names but through the target, which is observed and
unlinked in steps of their own. Contents are told apart by who wrote them and no write brings back earlier bytes. The
limit of 64 records and the checks of paths and permissions are left out.
*Bounds.* Four edits and three crashes: a recovery may be interrupted and its recovery too.

## Module `Purge`

One session with one intent per batch. `at` is the creation time of each row (moments are told apart by the
previews between them), `journal` the phases of a purge, `lease`, `mutation`, `coord` and `det` what
the pipeline has under way, `op` the service's operation. `MakePreview`, `Confirm`, `Begin`, `MarkDeleting`,
`DeleteRow`, `MarkValidating`, `CheckResidue`, `Finish`, `Retry`, `RecoverPurge` are
`v2-purge-service.ts` 86-286; the pipeline appears as far as it reads the journal or owns rows that a
purge deletes. `promised` keeps the previewed rows whose turns the cursor had passed when the purge
began (`Confirmed`), and those of the purges completed.

*Bounds.* Two turns, one preview, one crash and one failed write. The copies that a migration left
are not in the model.
*Fairness.* Strong fairness of the purge's own steps (its turn in the shared tail of the global
record comes again and again), weak fairness of a freeze once begun, which it waits for, and of the
start. Nothing else need happen.

## Module `ProposalInbox`

`desk` and `acts` are the lineages as the host has them, `wire` and `answer` the requests and the
answer, `page` and `actions` the section and its attention summary, and `ui`, `op`, `attempt`,
`waiting`, `ready` the controller. One operation runs at a time; what finds one pending is dropped or
waits for its end and looks again (`proposal-inbox.ts` 371-379). The handlers are those of `v2-proposal-rpc.ts`
200-553, with what they offer and refuse; `Elsewhere` and `NewDraft` are other windows and the
workers; an answer may be lost or late, the section hidden, unmounted or given another key.

*Abstractions.* One text of feedback; a visible or hidden document gates polls alone; the attention
request and answer are one step; banners, the filter and the DOM are left out.
*Bounds.* Two drafts, two clicks that decide, one thing that happens elsewhere or goes wrong.
*Fairness.* Requests are handled and answered, polls come (each strong: what interrupts them does
so again and again, not for ever), a waiting click goes on. Nobody must click.

## Module `SettingsPage`

The settings page clears the cache and lists recent activity. `skill`, `purge`, `queue` and `offers`
are the host: the lineages, the purge's journal with the operation under way, the confirmations that
wait, the previews. `panel`, `job` and `poll` are the controller of the panel (`purge-settings.ts`), its
operation's call and its poll's call; `section` and `read` are the list and its call
(`run2skill-settings-page.ts` 244-411); `ui` is what is visible and unfolded. `known` is history: what
had been cleared when the page was told that a purge was complete.

| Actions | Code |
|---|---|
| `ClickPreview`, `PreviewReceived`, `CancelPreview`, `Confirm`, `ConfirmReceived`, `ReadbackReceived`, `Poll`, `PollReceived` | the controller 255-529: an operation, the readback after one that failed, the polls |
| `AskRead`, `ReadReceived`, `ReadFails` | the section: it reads until it has seen one revision three times, then goes on asking |
| `Show`, `Fold` | the tab and the disclosures, with `Look`, `Remount` and `Publish`, what they start, abort and mount anew |
| `HandlePreview`, `HandleConfirm`, `HandleStatus`, `HandleRead` | `purge-rpc.ts` 105-175, `v2-recent-skill-activity-rpc.ts` 42-101 |
| `Refuse`, `Begin`, `Mark`, `Delete`, `Validate`, `Clear`, `Fail`, `Restart`, `Recover`, `OtherConfirms`, `Learn` | `v2-purge-service.ts` 66-286 as far as a page can tell, another window's purge, the pipeline |

Answers come in any order. An aborted call is gone at once for the page, but a confirmation that
had reached the host goes on.

*Abstractions.* Whether the document is visible, scopes other than all data, the retry (never
offered, see findings), announcements and the page's learning status are left out. Eight reads
before the section gives up are five.
The page starts with both sections folded (1207, 1240-1265). The catalog epoch moves with each draft and
publication and with each purge, so a revision of the list is never that of another list.
*Bounds.* One lineage, two previews, one fault or other window's purge. Two moves of the user, where a move
hides the tab, folds a section or asks for a preview; to show and unfold is free: a purge of this page,
one of another, and a section mounted anew in the middle of either.
*Fairness.* The host's work, its handlers, the receptions, the poll and the reads. Nobody must click,
and nothing need go wrong.

## Runs

| Run | Question | States | Properties |
|---|---|---|---|
| `capture` | Two logs that grow while the queue drains, retries, degrades and reopens, and the scan goes on in slices: is an ended turn observed, or still known to somebody? | 1,369,102 | `TurnsAreObserved`, `DigestIsThePrefix`, `WindowFollowsTurns`, `EndedIsObservedOrQueued` |
| `batching` | Every kind of turn and trigger, a missing route, every output, answers of two intents, a failed write or a crash on one session: do rows, intents and watermark agree, and is everything settled in the end? | 816,200 | `RowsAreAdmitted`, `DetectedIsCovered`, `NoTurnDetectedTwice`, `IntentsMatchBatch`, `RequestIsServed`, `EverythingSettles` |
| `baseline` | Is a complete baseline of one moment, and are its candidates those of its manifest? | 1,414,168 | `ManifestIsOneMoment`, `CandidatesFitManifest` |
| `quiescence` | Is what is decided observed in silence, and is silence enough for a decision? | 1,392,304 | `DecidedInSilence`, `SilenceSettles` |
| `recall` | Is an intent decided on one catalog, no page sent twice, and does it come to an end? | 2,063,446 | `CalledOnce`, `DecidedOnOneCatalog`, `RecallSettles` |
| `intent_row` | Every write of every worker in every order: does the schema accept it, does the intent come to rest? | 256,814 | `OnlyRefreshedIsRefused`, `IntentSettles` |
| `shared_behaviour` | Two intents of one behaviour under generation, inspection, refresh, rejection and dismissal, a crash and two failed writes | 857,285 | `OneCallPerGeneration`, `OneHolderPerBehaviour`, `ReadyOwnsProposal`, `ImplementsFence` |
| `desk` | Two requests interleaved at every await, beside a generation, a failed write and a crash | 1,758,620 | `RowsAreValid`, `PublishedIsAccounted`, `WriteIsReviewed`, `ImplementsFence` |
| `skill_file` | The installation beside an owner and crashes, on disk and in a context | 5,239,517 | `OwnerBytesSurvive`, `InstallReplacesOnlyTheBase`, `WrittenIsNotInstalledAgain`, `OpensWhereApproved`, `ImplementsAttempt` |
| `purge` | A purge stopped at any point beside a pipeline that goes on | 1,157,537 | `PurgeIsQuiet`, `PurgedStaysAway`, `PurgeEnds` |
| `inbox` | Clicks that wait, polls, other windows, answers lost | 598,469 | `DecidesOnWhatWasShown`, `ListConverges` |
| `settings` | Purges of this page and of another window, a restart, lost and reordered answers, sections hidden and mounted anew | 1,811,796 | `ClearedIsNotShown`, `ActivityConverges`, `PanelSettles` |

All of them hold. Each property has a mutant in `PROJECT.json`: a definition of the model with one
plausible bug in the code it stands for, under which the run finds the property violated.
`TypeOK` of each module documents the ranges of its variables; those of `SessionBatch`,
`Generation`, `Recall`, `Purge` and `SkillFile` are proved.

Deadlock is not checked: when the bounded turns, user actions and crashes are used up the
system really has nothing left to do.

## Findings

Behaviour of the code that disagrees with its documents, or that its reviewers would want to
know of. They were met while modelling and are kept here in prose; where a property would fail
because of one, its definition says what is excepted.

*Batching and detection.*
* `flushIdle` puts rows session by session and writes the cursors once at the end. If it throws at a
  later session, an earlier one keeps a `FROZEN` row that its cursor does not name, and the next
  observation freezes a longer range beside it. A restart then fails in `#rebuildCursors`, which
  asserts one open batch per session. No turn is sent to the model twice in spite of it.
* A row that a failed flush left behind may be adopted by the timer's flush, which reports no
  change, so the pipeline is not woken until the next event.
* `:109` says result and watermark are one mutation; they are two writes, repaired by `recover`
  (`DetectedIsCovered` holds between them).

*Capture.*
* A turn may end unobserved while the plugin goes on: `recovery-lifecycle.ts` 196 and 283-299
  (against `:516`); `EndedIsObservedOrQueued` speaks of what the queue still knows.
* What was logged before the plugin heard anything is history only if the activation saw it:
  `v2-gap-scanner.ts` 287 (against `:447` and `tests/v2-gap-scanner.spec.ts` 394).
* `prepareSessionWindow` racing a scan without a cursor marks the log verified at 0; one unreadable
  session makes the whole scan `UNAVAILABLE`; a write that fails between a row and its cursor is
  answered with "Observation identity conflict" until the log is reopened.

*Quiescence and ownership.*
* A deadline that passes between the drain's check and `#schedule` arms no timer
  (`v2-pipeline-runtime.ts` 210-212), though `session-quiescence-coordinator.ts` 82 promises a future deadline
  or a retry: the intent waits for the next event. `SilenceSettles` excepts it (`late`) and fails without that.
* A release refused by the validation puts the intent back with a new revision (302-318); its retry was
  noted for the old one and is discarded (391-401).
* A failed write in ownership leaves the intent `ARBITRATING` until a restart; an end observation
  that differs at the second attempt gives `END_OBSERVATION_CHANGED` for ever.

*Recall and the intent's row.*
* A failed `finish` write leaves a `RESERVED` call: `runOnce` reports `PROCESSED` 256 times, the drain
  ends with its limit's error, and the later stages starve until a restart.
* `CATALOG_INCOMPLETE` goes to attention at once; `:248` promises a bounded re-fetch.
* A refreshed intent must be recalled at the epoch of its refresh (`schemas.ts` 1974), which any
  other mutation may move first; and it carries a barrier into `COVERED`, where the schema
  admits none (`complete-coverage.ts` 452, `schemas.ts` 1945; `:417`). Both rows are refused and
  the intent stays where it was; `OnlyRefreshedIsRefused` says that nothing else is.

*Generation.*
* `runOnce` looks for candidates among the authorised intents only. After a crash behind the write that
  binds the intent to its `NOT_CALLED` lease the intent is `GENERATING`, `recover` keeps the lease
  (`generation-worker.ts` 366-371), and every later acquisition is refused (`:398`, `:515`). It is
  `Stranded` in `IntentRow`.
* `#abandonPreparedMutation` (1755) tells what was prepared from the outcome of the call and takes an
  unusable answer, whose call succeeded, for a result: the barrier's journal stays and with it the lease.
* The rollback (1431) takes a lineage back only if it is exactly what was written; an inspection that
  recorded `CATALOG_UNAVAILABLE` meanwhile raised its revision, and a stale result keeps an active proposal.
* `#refreshIntent` makes the intent visible to the recall worker before the refresh is final; a drain in
  between moves it to attention, and after a crash there `#recoverPrepared` throws at every start.
* A refreshed intent released before its call gives up its reservation; the next intent of the
  behaviour finds a lineage that waits for another owner, `#buildProposalLineage` returns
  `undefined` and `commitProposalBody` returns without releasing (1283-1288).

*Desk.*
* An inspection that records `CATALOG_UNAVAILABLE` between a refresh's journal and its lineage row makes
  the proposal no longer refreshable; the journal stays and every later start fails
  (`v2-proposal-refresh.ts` 306; `:423`).
* After a failed write, a publish that was queued behind finds its own `PREPARED` journal, records
  `CATALOG_CHANGED`, and `INVALID_PUBLICATION_STATE` is thrown at every start.
* A final file may be forgotten: when the root moves before its attempt is asked again, `#execute` answers `STALE`
  without a look at the disk, in a recovery too (`v2-proposal-filesystem.ts` 194-195), and the coordinator drops the journal
  and asks for a refresh, though `STALE` guarantees that nothing was written (`v2-proposal-publication.ts`
  33-34). `PublishedIsAccounted` excepts these attempts (`denied`) and fails without that.
* A revised proposal that becomes `CATALOG_CHANGED` is offered no action and keeps its reservation.

*Publication filesystem.*
* What the owner saves in the target between the look at it and its unlink is destroyed: `preserveUnknownInstall`
  observes, awaits the check of the bundle directory and unlinks (`filesystem-cas.mjs` 647-650), `withdrawWrittenCreate`
  compares and unlinks (1205-1208). `OwnerBytesSurvive` excepts this gap (`fate`) and fails without that.
* A context's file system keeps no journal: after `PUBLISHED` and a crash the owner's edit is a
  `CONFLICT` and the owner's deletion `ABSENT`, upon which the coordinator writes the file again
  (against the class comment, `v2-proposal-filesystem.ts` 134-139).
* A created file stays though the answer is `CONFLICT` when a flat skill appears after the write; a
  `PUBLISHED` that is remembered is returned without reading again; preparation may leave a directory
  in an ancestor that was replaced.
* Retries never settle when the bundle directory is deleted (`filesystem-cas.mjs` 504-523; `docs/architecture/baseline.md:777`).
* The conflict `target_appeared` after `BACKUP_MOVED` contradicts the comment at
  `v2-proposal-publication.ts` 35-36; recovery after the rename does not give the owner's bytes back.

*Purge.*
* Purged turns may come back: a row beyond the cursor, or a turn that ended before the preview and was not
  yet scanned, is stored while or after the purge runs, for v2 keeps no fence of completed purges
  (`docs/architecture/baseline.md:28`, `docs/product/prd.md:561`). A put of a scan between the last look and the final write
  leaves such a row though the purge is `COMPLETED`. `PurgedStaysAway` speaks of turns the cursor had passed.
* `#finish` (241-244) clears the active batch although a batch frozen after the preview is kept;
  `#claimNext` (`batch-detector-worker.ts` 278) then throws until a restart. If a later turn ends first, it
  is frozen as a second open batch of the session, `#claimNext` throws again and again, and the next start
  refuses both (`session-batch-coordinator.ts` 406) and fails, as does every one after it.
* Such a batch, deleted by a second purge while its freeze is bound again, comes back under its old
  identity: the coordinator does not look at the journal. Its turns are gone, so that the detector gives it up
  as incomplete. `PurgedStaysAway` therefore excepts batches from what stays away.
* Intents and lineages created after the preview survive without their batch or intent. A proposal that
  outlived its intent so, deleted by a second purge, may be written anew if its turn lay beyond the cursor and
  came back with its intent before that one began. `Confirmed` asks for the intent with the proposal.
* `status()` never gives `lastError`, which the client's retry requires; a failed purge stays
  `IN_PROGRESS` until a restart (against `docs/architecture/baseline.md:509`).
* A manual request whose turns were purged stays queued until the next turn.

*Inbox.*
* A retry keeps its old action in the receipt (`proposal-inbox.ts` 466-484): RETRY and REFRESH are refused
  until the draft is selected again.
* Hiding the section during a decision aborts it without an error; `mutationPending` stays set until the
  section is mounted again (`docs/design/issue-72-unobtrusive-ui.md:235` says that hiding pauses polling).
* Of two clicks that wait, the second is dropped silently.
* A revision whose list reload fails, or whose answer is lost, announces that the draft was not replaced
  (558-566), though it was; and if its new draft is never offered the detail stays `LOADING`.

*Purge panel.*
* A poll answered `IDLE` before a purge began, but delivered after a readback saw `IN_PROGRESS`, announces a
  completion that has not happened (`purge-settings.ts` 457); an `IN_PROGRESS` poll that comes after the
  receipt announces the completion twice.
* A preview answered after another window's purge ended has no `previewScope`: it is held and no
  dialog opens. A click on preview during the readback of a failed operation is dropped.
* Two completions with equal counts look alike to `lastCompletion` (676-680): the second does not
  refresh the attention summary.
* Unmounting the section does not pause the controller, which goes on polling.

## Proofs

Everything is proved for any values of the constants, from the assumptions in the modules
alone (naturals, a threshold and a number of sessions and intents of at least one, outcomes
within their sets).

### `SessionBatchProofs`

*One batch.* The inductive invariant `IInv` is `TypeOK`, `WorkerHoldsItsBatch`, `IntentsMatchBatch` and
`StagedByItsWorker`. The worker's program counter determines the state of the row it works
on, and a released intent belongs to a `READY` row. The conjuncts lean on each other: the intents agree with the row only because the worker that writes the row
is the one that staged them, and the worker's hold on its row survives a flush only because a
flush puts rows that did not exist. One step per action, one per conjunct it can disturb;
unchanged conjuncts are carried by lemmas on the parts of the state they read.

| Theorem | States |
|---|---|
| `Inductive` | `Spec => []IInv` |
| `TypeCorrect` | `Spec => []TypeOK` |
| `WorkerHolds` | the worked row is claimed up to its terminal write, and terminal after it |
| `IntentsMatch` | intents and rows agree |
| `StagedByWorker` | only the worker that holds a claimed batch stages its intents |
| `StaysSettled` | a settled batch never changes and watermarks never go back |

*All batches of a session.* What the safety properties of batching say of all batches of a session at once. `OrderInv` is
`SessionsOrdered`, `Recovered` and `Counts`. `Ordered` of one session relates its rows, its cursor and the
stored turns: rows and cursor lie within the turns; a called row lies behind the watermark unless it
is the active one, before every row that is still frozen, and overlaps no other (`CallsApart`); an
active batch that is frozen is the latest of the frozen ones (`ActiveIsLatest`); a frozen row that no
cursor names is no longer than what the next flush freezes at its watermark (`NeverShorter`); every turn
behind the watermark is in a terminal row (`Covered`); and rows fit the schema (`RowsFit`). `NeverShorter` is the heart of it: a flush that fails may
leave frozen rows its cursor does not name, `<<1, 1>>` beside `<<1, 2>>`, and no turn is called twice only
because of two such rows the active one is the longer, while the worker takes the shorter first,
finds it is not the active one, and stops. That candidates never shrink holds because turns are only
appended, requests only move forward, and a flush asks for at least what an earlier one did.
`Recovered` says that between the detector's recovery and the coordinator's no row is claimed and no settled
row lies beyond its watermark, `Counts` that an output being staged has an intent.

| Theorem | States |
|---|---|
| `OrderIsInductive` | `Spec => []OrderInv` |
| `DetectedCovered` | `Spec => []DetectedIsCovered`: the watermark has passed only turns in settled batches |
| `NoTurnTwice` | `Spec => []NoTurnDetectedTwice` |
| `RowsAdmitted` | `Spec => []RowsAreAdmitted`: every row and cursor passes its schema when read back |

### `SkillBaselineProofs`

A walk reads the files one by one while others write them. `Holds` says what can be relied on of something read
earlier: no write carries a number already given (`Numbered`), so a file that has the number that was read has the bytes that
were read. `WalkIsTrue` says so of the walk under way: what it has still to read is absent from its entries, what it has read and nobody
touched is as it is on the disk. `FirstIsTrue` says, from the end of the first walk on, that an entry with the number the file
had at that moment (`history.middle`) is the file of that moment, and that a file that has the entry's number now still
is. The second walk closes the gap: an entry that both walks read stands for a file that was
`Undisturbed` from before the first walk's end to the second walk's reading, hence at that moment and at both observations.
`ObservationIsTrue` says what an observation has found of a file that is undisturbed (`Fair`), with or without paths in
the summaries; the delicate part is the index of the names of a directory, which is built file by
file and is complete for the undisturbed ones. One lemma per await; writers need only `Numbered`.
`RootsAssumption` says that the roots are different directories, that each is walked and that a skill has a name.

| Theorem | States |
|---|---|
| `BaselineIsInductive` | `Spec => []Inv` |
| `ManifestOfOneMoment` | `Spec => []ManifestIsOneMoment` |
| `CandidatesAreListed` | `Spec => []CandidatesFitManifest` |

### `QuiescenceProofs`

`Inv` says how the row an await is about, the session's log and what the drain remembers fit together. A released
intent has the fence of the last turn of its batch, which is durable (`RowIsTrue`). `RowsAwait` gives the status of the
row at each step, and of the rows still to come in a walk. `SightIsTrue` is about what was
seen before an await and is written after it: the cursor stays at the tail between the test of a release and its
write, because only an operation of the pipeline's own tail moves it; and the end of the log at which the skills
were captured lies at or behind the turn of the fence. The capture alone may see a later turn, which starts
while it runs. The validation behind it is what rules this out: a log only grows, so if it ends at
the fence's turn after the capture it did so before. What a restart finds sealed was sealed behind such a validation.

| Theorem | States |
|---|---|
| `QuiescenceIsInductive`, `TypeCorrect` | `Spec => []Inv`, `Spec => []TypeOK` |
| `DecidedBehindItsTurn` | `Spec => []DecidedInSilence` |

### `RecallProofs`

`IInv` is `WorldTyped` and `Core`: types of the row, the drain and the counters, and where the drain
stands determines the stage of the row it holds (`InStage`). A plan's pages are of the pages there
are (`PlanFits`), a page is classified exactly when its answer was taken (`Classified`, `Scanned`), and the
number of calls sent for a page is zero before its reservation and while the answer of an earlier one
is awaited, one behind it, and one more for the one retry a user may ask for (`ScanCounted`,
`CoverageCounted`): what makes a crash between reservation, call and answer harmless. A decision is
taken only after the second reading, which shows what the plan says (`Judged`, `BodiesRead`).

| Theorem | States |
|---|---|
| `Inductive`, `TypeCorrect` | `Spec => []IInv`, `Spec => []TypeOK` |
| `CalledAtMostOnce` | `Spec => []CalledOnce` |
| `DecidedOnThePlan` | `Spec => DecidedOnOneCatalog`: an action property, from `Core` |

### `GenerationProofs`

*Types.* `TypeInv` strengthens `TypeOK` by what the typing of a later write needs: a lineage that
exists has a proposal and has been written at least as often as it has proposals (`LineOK`: the
last proposal is read, and a rollback lowers the revision by one); a sealed row holds no barrier
and a row in attention none of a stale result (`RowOK`); between the call and the end of the
outcome's mutation the worker knows an outcome (`WorkerOK`: otherwise a barrier of kind `NONE`
could be written); and an inspection in progress has seen a lineage (`GlanceOK`).

*The fence.* `Fenced` is `LeaseFencesEpoch` and `JournalAndLease`, inductive together: the epoch
moves only under a journal prepared at it, and a journal admits only its own owner as the
holder of the lease, so a commit while the lease is held is the holder's, or leaves no lease.
A step either writes another kind of row, or is one of seven things done to the global record
(nothing, clear a journal, move a lease on, take it, give it up, prepare, finalize). For
each there is one lemma that proves `Fenced'`, the action property and the step of
`CatalogFence` it maps to (`FenceKept`), and one lemma per action that says which of the
seven it is.

| Theorem | States |
|---|---|
| `TypeCorrect` | `Spec => []TypeOK` |
| `EpochIsFenced` | `Spec => []LeaseFencesEpoch`: nobody commits under a generation's lease but itself |
| `JournalIsOwned` | `Spec => []JournalAndLease`: whoever finds a journal may finish or drop it |
| `EpochIsJournalled` | `Spec => EpochMovesUnderJournal`: same epoch and no journal twice means no commit in between |
| `FenceImplemented` | `Spec => ImplementsFence`: `Generation` implements `CatalogFence` |

*The holders.* `HolderInv` says who is past a model call. `CallsCounted`: no generation was called twice, none that a
refresh has yet to start, and none whose row stands before its reservation. `HoldersIndexed`: a row past
its call owns its behaviour's index entry, and so does the lease (`LeaseIndexed`). Neither is inductive
alone, because the worker writes from what it knew: `PlaceOK` says what the row and the lease are wherever
the worker is about to reserve, call or commit, and that it resets stranded intents only without a
lease; `DismissalOK` that the desk dismisses and releases only an intent that has stopped. `PlaceOK` needs no
journal: what keeps the desk away from the worker's row is that its mutations write rows that are
`READY` or have stopped, where the worker relies on nothing. One lemma per kind of write (a row, the
journal, the state of the lease, the index) says that it keeps `HoldersOK`, one per action which it is.

| Theorem | States |
|---|---|
| `HoldersInvariant` | `Spec => [](TypeInv /\ HolderInv)` |
| `OneCall` | `Spec => []OneCallPerGeneration` |
| `OneHolder` | `Spec => []OneHolderPerBehaviour` |
| `LinesInvariant` | `Spec => [](TypeInv /\ Fenced /\ HolderInv /\ LineInv)` |
| `ReadyOwned` | `Spec => []ReadyOwnsProposal` |

*The lines.* `LineInv` says whose the lineage is, and rests on the fence and the holders. `ReadyOwns` is the property without its
side condition on the journal: the proposal of a finished intent may be away, but only while a refresh of this very intent is
prepared. It needs `BodyOwned` (whose body is committed is the lineage's owner, so that giving the lease back leaves
the owner behind), `ReadyLeased` (a finished intent with the lease has its body committed), `LeaseStaged` (a
lease that is authorized belongs to an intent that is committing or was stopped), `RefreshOwned` and
`LinesOwned`. What the worker relies on is `BodyAt`, stated for each program counter of the
commit. The delicate part is what the check of a failed commit may conclude: the lineage it wrote is still
there, or an inspection has moved its revision past the one that was written (`Written`). Then the check fails
although the body is durable, and the worker goes to `rollback`; `BodyAt` says that the rollback does
not find its own line in that case, since the revision is higher, and so takes nothing from the intent. `DeskAt` says that the desk
goes on only under the journal it prepared, `Aside` why no mutation moves the global record while a proposal is
being put. One lemma per kind of write (`RowLines`, `GlobalLines`, `LineageLines`) says what it must respect,
and one per action that it does.

### `PurgeProofs`

`IInv` is `TypeInv`, `OpIsJournalled` and `PurgeIsQuiet`. `TypeInv` adds to `TypeOK` that the clock does not pass
the previews that are left, and that a purge that begins has its preview. The journal is written in the same
exclusive step that finds nothing busy, every claim, lease and mutation tests it in its own
write, and an operation that is past its first write has its journal, so that none goes on under
another's.

`PurgedStaysAway` needs more than that. `AwayInv` adds, in ten parts: rows and their states agree
(`RowsMatch`), and no row is older than the end of its last turn (`RowsAreDated`), which is why everything a
previewed row was made of lies before the preview; what the detector, the coordinator, the lease and the index
rely on (`DetHolds`, `CoordHolds`, `LeaseHolds`, `IndexHolds`); that the purge is recovered before
anything else runs (`PhasesHold`); that an operation works with its preview's horizon, and that what
was previewed is there until it begins (`OpHolds`). On these rest the two parts that matter: what a purge
has promised is behind the horizon and gone or still to be deleted, whatever step the operation, another
one or a restart is at (`RecordedLeaves`); and what was promised is gone, with its turns, behind a cursor that does
not go back (`PassedIsGone`): no turn is recorded again, so that no call can bring its intent back, nor a
lease its proposal. The lemmas `...Writers` say once which actions write a variable; each part then has one lemma for
its step.

| Theorem | States |
|---|---|
| `TypeCorrect` | `Spec => []TypeOK` |
| `NothingRunsUnderPurge` | `Spec => []PurgeIsQuiet`, through crashes, restarts and failed writes |
| `AwayInvariant` | `Spec => [](IInv /\ AwayInv)` |
| `WhatWasPurgedStaysAway` | `Spec => []PurgedStaysAway`, for any number of turns and previews |

### `ProposalDeskProofs`

*The fence.* `FenceInv` is the shape of the global record and `OneOwner`: while a journal is open nobody else
holds the catalog. Every step of the four coordinators touches the global record in one of six ways: not at all,
or it prepares, amends, drops or commits a journal, or the others take or give up the catalog.
One lemma per way maps it to a step of `CatalogFence` or to a stutter, and one per action says which
way it is.

*The rows.* `RowsAreValid` is not inductive, because a coordinator composes a row from what it read
several awaits ago. `DeskInv` says how old that may be. What was read of a lineage is `Past`: either it is
what the row still says, or the row has a later revision, and then its last proposal is the one that was
read, with a decision since perhaps, or one of a later epoch; a lineage that was removed had
proposals of earlier epochs only. A write tests the revision, so it finds what was read, and a journal tests the epoch, so
a prepare finds the last proposal that was read. `Knows` says for each coordinator what its program counter adds: what
is prepared is the attempt of an approved proposal, whose lineage is not published before its file is;
a call has its action on record, unless the lineage has gone on (`Reserved`); a parent to be superseded is
under the refresh's journal or already behind it (`Superseded`). On the rows' side `InEpoch` and
`OutOfPlay` say that a proposal is of an epoch that has come (or is the child of the revision that is about to
move it), and that a lineage leaves `ACTIVE` only under a journal that moves the epoch.

Each step then has two halves. `World(c)` is what everybody but `c` sees of a step of `c`: the journals of others are left alone,
and a row stays, moves to a later revision, or is purged. `Beside` says that under such a step what another
coordinator knows stays right, once for each of the four, so that no action is compared with any
other; one lemma per action shows that it is such a step and what it leaves `c` to know.

*The disk.* `PublishedIsAccounted` is part of `DeskInv` together with `NotFinal`: until an attempt is
`EXECUTING` no file of it is final, because a journal is dropped only once the disk says that its
attempt left nothing. Both leave out `denied`, the files the code forgets (see *Findings*): `AnswerFacts` shows that an
answer that drops the journal leaves the attempt without a final file or denied.

| Theorem | States |
|---|---|
| `FenceImplemented` | `Spec => ImplementsFence` |
| `DeskIsInductive`, `DeskTypes` | `Spec => []DeskInv`, `Spec => []TypeOK` |
| `RowsStayValid` | `Spec => []RowsAreValid`, for any lineages, operations, identifiers and number of requests and crashes |
| `FinalIsAccounted` | `Spec => []PublishedIsAccounted`: but for a final file last answered `STALE` |
| `OnlyReviewedIsWritten` | `Spec => WriteIsReviewed`: only the latest proposal, approved, at its epoch, reaches the disk |

The attempt to prove `RowsStayValid` found the model wrong in one place: a released generation appended its
proposal to the row of a refreshed lineage as it stood, with the revision actions of the parent. The
code composes the row anew (`generation-worker.ts` 1196-1259) and carries no action over; `Regrown` does now.

### `SkillFileProofs`

Two invariants come before the files. `TypeInv` adds to `TypeOK` that a root is prepared only while a level is
left to make, and that a conflict about to be recorded has a code. `Flow` says which states of the record
fit which moment of the program: nothing of a transaction runs before its first record or after its last, the
link of a first attempt follows `STAGED` or `BACKUP_MOVED`, the end follows `FINALIZING`.
`OpensWhereApproved` needs besides that the root that was bound is the one that was observed (`RootKnown`), and
`ImplementsAttempt` is a map of each step to one of the moves of `PublicationAttempt` (`AttemptStep`).

`FileInv` is about the inodes. A survival argument for the owner's bytes alone is not inductive, because a
name can be lost only if another still holds what it held, and that depends on what each name may be at each
moment: only the stage may be another name of the target (`Apart`), so an edit in place never reaches the backup; what the
transaction made holds what it wrote or an edit of it (`Wrote`), so what may be unlinked is never the owner's;
before a merge moves the target aside it is not the stage (`NotStaged`), so the move loses nothing but a reservation; the stage is linked
only with the base aside (`BaseAside`); the stage outlives the check of what was linked (`StageThere`), so that an unlink of what a look found there
loses nothing but what the owner has saved since (`Spoiled`, `Looked`, `TargetUnlinked`); what was put back is there under two
names until the backup's goes (`PutBackThere`), and after a loss nothing approved is left to link (`NothingToLink`); the stage is gone once the write is on record (`StageGone`). The one other place where the owner's last bytes
go is the reviewed base at the very end, and `BaseGivenUp` says that the installed bytes are then in its place and that
the process can only go on to the final record. One lemma per action; the names an action moves are told once, for the four
paths, by `MovedBack`, `MadeFour` and the `...Unlinked` lemmas.

The two action properties follow: `ComesFrom` shows that only the two links and the conditional write bring the
approved bytes to the target, `ComesByLink` and `ComesByWrite` what is on the disk when they do.

| Theorem | States |
|---|---|
| `TypeCorrect` | `Spec => []TypeOK` |
| `OpenedWhereApproved` | `Spec => OpensWhereApproved`: a transaction is opened only where the approved binding leads |
| `KeepsTheAttempt` | `Spec => ImplementsAttempt`: the answers keep the promise the desk relies on |
| `FilesAlways` | `Spec => [](TypeInv /\ Flow /\ FileInv)` |
| `OwnersBytesSurvive` | `Spec => []OwnerBytesSurvive`, for any number of edits and crashes; the gap is excepted |
| `ReplacesOnlyTheBase` | `Spec => InstallReplacesOnlyTheBase` |
| `WrittenOnce` | `Spec => WrittenIsNotInstalledAgain` |

### Model-checked only

`RequestIsServed` of `SessionBatch`, and the safety properties of `Capture`, `IntentRow`, `ProposalInbox` and
`SettingsPage`, which have no proofs yet. Liveness under fairness (`EverythingSettles` and its kin) is out of the
prover's reach and stays with the model checker.

## Not modelled

* `HostSessions` (`host/index.ts` 663-948, `exact-agent-scope.ts`, `stock-cold-preset.ts`,
  `stock-preset-mount.ts`): which runtime an agent belongs to. Met on the way: an agent disposed while
  `captureRootConfiguration` is awaited (1030-1040) leaves its scope registered; a failed capture
  leaves the configuration cached until disposal.
* The sections of the settings page that only show what they are given.
* The dismissal of a batch in attention (`v2-learning-attention-rpc.ts` 518-544), which clears the
  active batch, moves the watermark to its end and deletes its row; a carry rebuilt after a restart then
  comes from the settled row before it.
* The drain's limit of 256 steps; the drains of `SessionBatch`, `Quiescence` and `Recall` are not one model.
* V1 and the migration, which nothing in the plugin constructs or calls any more.
* What the text of a turn says (redaction, triggers, prompts, parsing, ranking), the layout of pages and
  proposals, the plugin's wiring and RPC schemas: pure functions or I/O that no property tells apart.
