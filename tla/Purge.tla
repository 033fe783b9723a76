------------------------------- MODULE Purge -------------------------------
(***************************************************************************)
(* Clearing the v2 cache, next to the workers that go on filling it.       *)
(*                                                                         *)
(* The user previews a purge and confirms the preview; V2PurgeService then *)
(* writes a journal into the global record, deletes row by row everything  *)
(* created at or before the moment of the preview, looks once more and     *)
(* clears the journal.  Only the writes of the global record are exclusive *)
(* (V2GlobalStore's tail); the deletions and the last look are not.        *)
(* The pipeline appears as far as it reads the journal, or owns rows that  *)
(* a purge deletes; SessionBatch and Generation have its detail.  One      *)
(* session, and one intent per batch, are enough for that.                 *)
(***************************************************************************)
EXTENDS Integers, FiniteSets

CONSTANTS
    MaxTurn,        \* bound: turns of the session
    MaxPreviews,    \* bound: previews
    Outcomes,       \* what the detector's model calls come to
    MaxCrashes,     \* bound: crashes of the process
    MaxFaults       \* bound: durable writes of the purge that fail

ASSUME BoundsAssumption ==
    /\ MaxTurn \in Nat \ {0} /\ MaxPreviews \in Nat
    /\ MaxCrashes \in Nat /\ MaxFaults \in Nat
ASSUME OutcomesAssumption == Outcomes \subseteq {"NONE", "READY", "FAILED"}

Turn == 1 .. MaxTurn
Id == {id \in Turn \X Turn : id[1] <= id[2]}    \* a batch, by its turn range
NoId == <<0, 0>>
Preview == 1 .. MaxPreviews
Time == 0 .. MaxPreviews + 1                    \* 0: never

(* A row is known by its table and its key; an observation by <<n, n>>. *)
Tables == {"lineage", "intent", "batch", "obs"}
RowKey == {r \in Tables \X Id : r[1] = "obs" => r[2][1] = r[2][2]}

VARIABLES
    clock,      \* moments are told apart by the previews between them
    ended,      \* the session log: when each turn ended
    \* the durable domain
    at,         \* the rows' createdAt, of a turn its observedAt; 0: no row
    state,      \* the states of the batch and intent rows
    cursor,     \* global.sessions: the session's cursor
    lease,      \* global.proposalGenerationLease: its owner
    index,      \* global.behaviorSignatureIndex: the owners of its entries
    mutation,   \* global.proposalCatalogMutationJournal is set
    journal,    \* global.purgeJournal
    \* the process
    phase,      \* "down", "purge" (recovering it), "recover", "up"
    coord,      \* the coordinator's exclusive mutation
    det,        \* the detector worker
    previews,   \* #previews and #completed
    op,         \* the purge operation on the service's tail
    failed,     \* the last purge operation of this process threw
    \* history and bounds
    promised,   \* the rows previewed for the purge that was begun whose turns the
                \* cursor had passed by then, and the same of the purges completed
    crashes, faults

log == <<clock, ended>>
rowvars == <<at, state>>
global == <<cursor, lease, index, mutation, journal>>
workers == <<phase, coord, det>>
service == <<previews, op, failed, promised>>
bounds == <<crashes, faults>>
vars == <<log, rowvars, global, workers, service, bounds>>

NoJournal == [by |-> 0, hide |-> 0, phase |-> "NONE"]
NoCoord == [pc |-> "off", id |-> NoId, at |-> 0, seen |-> 0]
NoDet == [pc |-> "off", id |-> NoId]
NoOp == [pc |-> "off", by |-> 0, hide |-> 0, left |-> {}, confirm |-> FALSE]
NoPreview == [hide |-> 0, rows |-> {}, state |-> "NONE"]

BatchStates == {"ABSENT", "FROZEN", "DETECTION_CLAIMED", "COMMITTED_NONE",
                "COMMITTED_READY", "NEEDS_ATTENTION"}
Terminal == {"COMMITTED_NONE", "COMMITTED_READY", "NEEDS_ATTENTION"}
IntentStates == {"ABSENT", "DETECTOR_STAGED", "RELEASED"}

TypeOK ==
    /\ clock \in Time \ {0} /\ ended \in [Turn -> Time]
    /\ at \in [RowKey -> Time]
    /\ state \in [batch : [Id -> BatchStates], intent : [Id -> IntentStates]]
    /\ cursor \in [observed : 0 .. MaxTurn, detected : 0 .. MaxTurn,
                   active : Id \cup {NoId}]
    /\ lease \in Id \cup {NoId} /\ index \subseteq Id /\ mutation \in BOOLEAN
    /\ journal \in [by : 0 .. MaxPreviews, hide : Time,
                    phase : {"NONE", "QUIESCED", "DELETING", "VALIDATING"}]
    /\ phase \in {"down", "purge", "recover", "up"}
    /\ coord \in [pc : {"off", "stored", "route", "put"}, id : Id \cup {NoId},
                  at : Time, seen : 0 .. MaxTurn]
    /\ det \in [pc : {"off", "called", "commit", "release", "advance"},
                id : Id \cup {NoId}]
    /\ previews \in [Preview -> [hide : Time, rows : SUBSET RowKey,
                                 state : {"NONE", "OFFERED", "COMPLETED", "LOST"}]]
    /\ op \in [pc : {"off", "begin", "mark", "delete", "validate", "check", "final"},
               by : 0 .. MaxPreviews, hide : Time, left : SUBSET RowKey, confirm : BOOLEAN]
    /\ failed \in BOOLEAN
    /\ promised \in [recorded : SUBSET RowKey, passed : SUBSET RowKey]
    /\ crashes \in 0 .. MaxCrashes /\ faults \in 0 .. MaxFaults

Init ==
    /\ clock = 1
    /\ ended = [n \in Turn |-> 0]
    /\ at = [r \in RowKey |-> 0]
    /\ state = [batch |-> [id \in Id |-> "ABSENT"],
                intent |-> [id \in Id |-> "ABSENT"]]
    /\ cursor = [observed |-> 0, detected |-> 0, active |-> NoId]
    /\ lease = NoId /\ index = {} /\ mutation = FALSE /\ journal = NoJournal
    /\ phase = "up"
    /\ coord = NoCoord /\ det = NoDet
    /\ previews = [n \in Preview |-> NoPreview]
    /\ op = NoOp /\ failed = FALSE
    /\ promised = [recorded |-> {}, passed |-> {}]
    /\ crashes = 0 /\ faults = 0

Rows == {r \in RowKey : at[r] # 0}
Obs(n) == <<"obs", <<n, n>>>>
Stored == {n \in Turn : Obs(n) \in Rows}
Up == phase = "up"
Exclusive == coord.pc = "off"       \* the tail of the global record is free
Purging == journal # NoJournal
Last(S) == CHOOSE n \in S : \A m \in S : n >= m
First(S) == CHOOSE n \in S : \A m \in S : n <= m

----
(* The session, and the coordinator that records and freezes its turns. An  *)
(* operation holds the tail from its first read to its write of the cursor. *)

TurnEnds ==
    \E n \in Turn :
        /\ ended[n] = 0 /\ \A m \in Turn : m < n => ended[m] # 0
        /\ ended' = [ended EXCEPT ![n] = clock]
        /\ UNCHANGED <<clock, rowvars, global, workers, service, bounds>>

(* recordObservation stores the turn, dated by its end in the log. *)
RecordObservation ==
    LET n == cursor.observed + 1
    IN  /\ Up /\ Exclusive
        /\ n \in Turn /\ ended[n] # 0
        /\ at' = [at EXCEPT ![Obs(n)] = ended[n]]
        /\ coord' = [NoCoord EXCEPT !.pc = "stored", !.seen = n]
        /\ UNCHANGED <<log, state, global, phase, det, service, bounds>>

FlushIdle ==
    /\ Up /\ Exclusive
    /\ cursor.active = NoId /\ \E n \in Stored : n > cursor.detected
    /\ coord' = [NoCoord EXCEPT !.pc = "stored", !.seen = cursor.observed]
    /\ UNCHANGED <<log, rowvars, global, phase, det, service, bounds>>

(* The one write of the global record that ends the operation. *)
WriteCursor(active) ==
    /\ cursor' = [cursor EXCEPT !.observed = coord.seen, !.active = active]
    /\ coord' = NoCoord
    /\ UNCHANGED <<lease, index, mutation, journal>>

(* #freezeOne: an active batch that is not open makes it throw; a batch that
   lies there frozen is bound again; a new one waits for its model route. *)
FreezeOne ==
    LET pending == {n \in Stored : n > cursor.detected}
        id == <<First(pending), Last(pending)>>
        open == cursor.active # NoId
        live == open /\ state.batch[cursor.active] \in {"FROZEN", "DETECTION_CLAIMED"}
    IN  /\ coord.pc = "stored"
        /\ \/ live /\ WriteCursor(cursor.active)
           \/ open /\ ~live /\ coord' = NoCoord /\ UNCHANGED global
           \/ ~open /\ WriteCursor(NoId)
           \/ /\ ~open /\ pending # {}
              /\ \/ state.batch[id] = "ABSENT"
                    /\ coord' = [coord EXCEPT !.pc = "route", !.id = id, !.at = clock]
                    /\ UNCHANGED global
                 \/ state.batch[id] = "FROZEN" /\ WriteCursor(id)
                 \/ state.batch[id] \notin {"ABSENT", "FROZEN"}
                    /\ coord' = NoCoord /\ UNCHANGED global
        /\ UNCHANGED <<log, rowvars, phase, det, service, bounds>>

RouteCaptured ==
    /\ coord.pc = "route"
    /\ at' = [at EXCEPT ![<<"batch", coord.id>>] = coord.at]
    /\ state' = [state EXCEPT !.batch[coord.id] = "FROZEN"]
    /\ coord' = [coord EXCEPT !.pc = "put"]
    /\ UNCHANGED <<log, global, phase, det, service, bounds>>

BindFrozen ==
    /\ coord.pc = "put"
    /\ WriteCursor(coord.id)
    /\ UNCHANGED <<log, rowvars, phase, det, service, bounds>>

----
(* The detector worker.                                                     *)

Detectable == Up /\ Exclusive /\ det.pc = "off" /\ ~Purging

Older(a, b) ==
    \/ at[<<"batch", a>>] < at[<<"batch", b>>]
    \/ at[<<"batch", a>>] = at[<<"batch", b>>] /\ a[1] < b[1]
    \/ at[<<"batch", a>>] = at[<<"batch", b>>] /\ a[1] = b[1] /\ a[2] <= b[2]

(* #claimNext; it throws for a frozen batch that is not the active one, and
   gives up a batch whose observations are gone. *)
ClaimNext(id) ==
    LET whole == id[1] .. id[2] \subseteq Stored
    IN  /\ Detectable
        /\ state.batch[id] = "FROZEN"
        /\ \A other \in Id : state.batch[other] = "FROZEN" => Older(id, other)
        /\ cursor.active = id
        /\ state' = [state EXCEPT !.batch[id] =
                        IF whole THEN "DETECTION_CLAIMED" ELSE "NEEDS_ATTENTION"]
        /\ det' = [pc |-> IF whole THEN "called" ELSE "advance", id |-> id]
        /\ UNCHANGED <<log, at, global, phase, coord, service, bounds>>

(* A batch that was detected once before, and whose turns came back after a
   purge, finds its intent under the same identity: a conflict. *)
CallReturns ==
    /\ det.pc = "called"
    /\ \E outcome \in Outcomes :
          IF outcome = "READY" /\ state.intent[det.id] = "ABSENT"
          THEN /\ at' = [at EXCEPT ![<<"intent", det.id>>] = clock]
               /\ state' = [state EXCEPT !.intent[det.id] = "DETECTOR_STAGED"]
               /\ det' = [det EXCEPT !.pc = "commit"]
          ELSE /\ state' = [state EXCEPT !.batch[det.id] =
                      IF outcome = "NONE" THEN "COMMITTED_NONE" ELSE "NEEDS_ATTENTION"]
               /\ det' = [det EXCEPT !.pc = "advance"]
               /\ UNCHANGED at
    /\ UNCHANGED <<log, global, phase, coord, service, bounds>>

CommitReady ==
    /\ det.pc = "commit"
    /\ state' = [state EXCEPT !.batch[det.id] = "COMMITTED_READY"]
    /\ det' = [det EXCEPT !.pc = "release"]
    /\ UNCHANGED <<log, at, global, phase, coord, service, bounds>>

(* #repairReadyIntents; when its intent is gone it throws, and what follows
   depends on whether the batch is still there. *)
RepairReadyIntents ==
    LET there == state.intent[det.id] # "ABSENT"
        batch == state.batch[det.id] # "ABSENT"
    IN  /\ det.pc = "release"
        /\ state' = [state EXCEPT !.intent[det.id] = IF there THEN "RELEASED" ELSE @]
        /\ det' = IF there \/ batch THEN [det EXCEPT !.pc = "advance"] ELSE NoDet
        /\ UNCHANGED <<log, at, global, phase, coord, service, bounds>>

(* #advanceCursor; it throws when another batch is active. *)
AdvanceCursor ==
    /\ det.pc = "advance" /\ Exclusive
    /\ IF det.id[2] > cursor.detected /\ cursor.active \in {NoId, det.id}
       THEN cursor' = [cursor EXCEPT !.detected = det.id[2], !.active = NoId]
       ELSE UNCHANGED cursor
    /\ det' = NoDet
    /\ UNCHANGED <<log, rowvars, lease, index, mutation, journal, phase, coord,
                   service, bounds>>

----
(* Generation and the user's actions, as far as the journal stops them.     *)

(* The condition under which the global record takes a lease or a journal of
   a catalog mutation. *)
Unfenced == Up /\ Exclusive /\ lease = NoId /\ ~mutation /\ ~Purging

AcquireLease(id) ==
    /\ Unfenced
    /\ state.intent[id] = "RELEASED" /\ state.batch[id] # "ABSENT"
    /\ <<"lineage", id>> \notin Rows
    /\ lease' = id /\ index' = index \cup {id}
    /\ UNCHANGED <<log, rowvars, cursor, mutation, journal, workers, service, bounds>>

(* The generation ends with a proposal, or without one: it keeps its
   reservation for the user's attention, or gives it up. *)
GenerationEnds ==
    /\ Up /\ Exclusive /\ lease # NoId
    /\ \/ at' = [at EXCEPT ![<<"lineage", lease>>] = clock] /\ UNCHANGED index
       \/ index' \in {index, index \ {lease}} /\ UNCHANGED at
    /\ lease' = NoId
    /\ UNCHANGED <<log, state, cursor, mutation, journal, workers, service, bounds>>

OpenMutation ==
    /\ Unfenced
    /\ mutation' = TRUE
    /\ UNCHANGED <<log, rowvars, cursor, lease, index, journal, workers, service, bounds>>

CloseMutation ==
    /\ Up /\ Exclusive /\ mutation
    /\ mutation' = FALSE
    /\ UNCHANGED <<log, rowvars, cursor, lease, index, journal, workers, service, bounds>>

----
(* V2PurgeService.                                                          *)

(* candidates *)
Candidates(hide) == {r \in Rows : at[r] <= hide}

(* #busy *)
Busy == lease # NoId \/ mutation \/ \E id \in Id : state.batch[id] = "DETECTION_CLAIMED"

MakePreview(n) ==
    /\ Up /\ ~Purging
    /\ previews[n].state = "NONE" /\ \A m \in Preview : m < n => previews[m].state # "NONE"
    /\ previews' = [previews EXCEPT ![n] =
          [hide |-> clock, rows |-> Candidates(clock), state |-> "OFFERED"]]
    /\ clock' \in {clock, clock + 1}
    /\ UNCHANGED <<ended, rowvars, global, workers, op, failed, promised, bounds>>

(* confirm, up to its first write: the preview is known and still what would
   be deleted, and nothing is under way. *)
Confirm(n) ==
    /\ Up /\ op = NoOp
    /\ previews[n].state = "OFFERED"
    /\ ~Busy
    /\ Candidates(previews[n].hide) = previews[n].rows
    /\ op' = [NoOp EXCEPT !.pc = "begin", !.by = n, !.hide = previews[n].hide,
                           !.confirm = TRUE]
    /\ UNCHANGED <<log, rowvars, global, workers, previews, failed, promised, bounds>>

(* recover, while the process starts, and retry: the journal says what to do. *)
ResumeJournal ==
    /\ Purging /\ op = NoOp
    /\ op' = [NoOp EXCEPT !.pc = "mark", !.by = journal.by, !.hide = journal.hide]
    /\ UNCHANGED <<log, rowvars, global, workers, previews, failed, promised, bounds>>

RecoverPurge == phase = "purge" /\ ResumeJournal
Retry == Up /\ ResumeJournal

(* The operation throws. A start that throws is a start that failed. *)
Throw ==
    /\ op' = NoOp
    /\ failed' = Up
    /\ phase' = IF Up THEN "up" ELSE "down"

(* Mutant of MayBegin: what was busy is not looked at again. *)
MayBeginOnce == Purging => journal.by = op.by

MayBegin == IF Purging THEN journal.by = op.by ELSE ~Busy

(* What the user may rely on: the previewed rows whose turns the cursor has
   passed, a proposal if the intent that it came of was previewed with it. *)
Confirmed ==
    {r \in previews[op.by].rows :
        /\ r[2][2] <= cursor.observed
        /\ r[1] = "lineage" => <<"intent", r[2]>> \in previews[op.by].rows}

(* #begin *)
Begin ==
    /\ op.pc = "begin" /\ Exclusive
    /\ IF MayBegin
       THEN /\ journal' = IF Purging THEN journal
                          ELSE [by |-> op.by, hide |-> op.hide, phase |-> "QUIESCED"]
            /\ promised' = [promised EXCEPT !.recorded = Confirmed]
            /\ op' = [op EXCEPT !.pc = "mark"]
            /\ UNCHANGED <<phase, failed>>
       ELSE Throw /\ UNCHANGED <<journal, promised>>
    /\ UNCHANGED <<log, rowvars, cursor, lease, index, mutation, coord, det,
                   previews, bounds>>

(* #setPhase DELETING, after which #finish selects what to delete. *)
MarkDeleting ==
    /\ op.pc = "mark" /\ Exclusive
    /\ journal' = [journal EXCEPT !.phase = "DELETING"]
    /\ op' = [op EXCEPT !.pc = "delete", !.left = Candidates(op.hide)]
    /\ UNCHANGED <<log, rowvars, cursor, lease, index, mutation, workers,
                   previews, failed, promised, bounds>>

Rank(r) == CASE r[1] = "lineage" -> 1 [] r[1] = "intent" -> 2
             [] r[1] = "batch" -> 3 [] OTHER -> 4

(* One row after another: proposals first, observations last. (The copies of
   a migration, which follow, are left out.) *)
DeleteRow(r) ==
    /\ op.pc = "delete" /\ r \in op.left
    /\ \A other \in op.left : Rank(r) <= Rank(other)
    /\ at' = [at EXCEPT ![r] = 0]
    /\ state' = IF r[1] \in {"batch", "intent"}
                THEN [state EXCEPT ![r[1]][r[2]] = "ABSENT"] ELSE state
    /\ op' = [op EXCEPT !.left = @ \ {r}]
    /\ UNCHANGED <<log, global, workers, previews, failed, promised, bounds>>

MarkValidating ==
    /\ op.pc = "delete" /\ op.left = {} /\ Exclusive
    /\ journal' = [journal EXCEPT !.phase = "VALIDATING"]
    /\ op' = [op EXCEPT !.pc = "check"]
    /\ UNCHANGED <<log, rowvars, cursor, lease, index, mutation, workers,
                   previews, failed, promised, bounds>>

(* The last look: a row that appeared meanwhile fails the purge. *)
CheckResidue ==
    /\ op.pc = "check"
    /\ IF Candidates(op.hide) = {}
       THEN op' = [op EXCEPT !.pc = "final",
                             !.left = {r \in Rows : r[1] = "intent"}]
            /\ UNCHANGED <<phase, failed>>
       ELSE Throw
    /\ UNCHANGED <<log, rowvars, global, coord, det, previews, promised, bounds>>

(* Mutant of Cleared: the watermarks go with the rows. *)
ClearedOfAll(c) == [observed |-> 0, detected |-> 0, active |-> NoId]

(* What a purge leaves of a session's cursor. *)
Cleared(c) == [c EXCEPT !.active = NoId]

(* The write that ends the purge; only a confirmation keeps its receipt. *)
Finish ==
    /\ op.pc = "final" /\ Exclusive
    /\ IF lease = NoId /\ ~mutation
       THEN /\ journal' = NoJournal
            /\ cursor' = Cleared(cursor)
            /\ index' = {id \in index : <<"intent", id>> \in op.left}
            /\ promised' = [recorded |-> {}, passed |-> promised.passed \cup promised.recorded]
            /\ previews' = IF op.confirm
                           THEN [previews EXCEPT ![op.by].state = "COMPLETED"]
                           ELSE previews
            /\ op' = NoOp
            /\ failed' = FALSE
            /\ phase' = IF Up THEN "up" ELSE "recover"
       ELSE Throw /\ UNCHANGED <<journal, cursor, index, promised, previews>>
    /\ UNCHANGED <<log, rowvars, lease, mutation, coord, det, bounds>>

(* A write of the service fails. *)
WriteFails ==
    /\ op.pc \in {"begin", "mark", "final"} \/ op.pc = "delete"
    /\ Exclusive /\ faults < MaxFaults
    /\ faults' = faults + 1
    /\ Throw
    /\ UNCHANGED <<log, rowvars, global, coord, det, previews, promised, crashes>>

----
(* Starting and stopping.                                                   *)

Stop ==
    /\ phase' = "down"
    /\ coord' = NoCoord /\ det' = NoDet /\ op' = NoOp /\ failed' = FALSE
    /\ previews' = [n \in Preview |-> IF previews[n].state = "NONE" THEN NoPreview
                                      ELSE [NoPreview EXCEPT !.state = "LOST"]]
    /\ UNCHANGED <<log, rowvars, global, promised>>

Crash ==
    /\ phase # "down" /\ crashes < MaxCrashes
    /\ crashes' = crashes + 1
    /\ Stop
    /\ UNCHANGED faults

(* The lifecycle reopens the runtime when a turn cannot be recorded. *)
Reopen ==
    /\ Up /\ Exclusive
    /\ cursor.observed + 1 \in Turn /\ ended[cursor.observed + 1] # 0
    /\ cursor.active # NoId
    /\ state.batch[cursor.active] \notin {"FROZEN", "DETECTION_CLAIMED"}
    /\ Stop
    /\ UNCHANGED bounds

(* Mutant of AfterActivation: the start does not look for a purge. *)
AfterActivationRecover == "recover"

(* DshV2ProductionRuntime.start recovers the purge before everything else. *)
AfterActivation == IF Purging THEN "purge" ELSE "recover"

Start ==
    /\ phase = "down"
    /\ phase' = AfterActivation
    /\ UNCHANGED <<log, rowvars, global, coord, det, service, bounds>>

(* The recoveries behind it, each of which SessionBatch, Generation and
   ProposalDesk take apart: abandoned calls, staged intents, watermarks, the
   active batch, the lease and the journals of the user's actions. *)
Recover ==
    LET batch == [id \in Id |-> IF state.batch[id] = "DETECTION_CLAIMED"
                                THEN "NEEDS_ATTENTION" ELSE state.batch[id]]
        intent == [id \in Id |->
                      IF state.intent[id] # "DETECTOR_STAGED" THEN state.intent[id]
                      ELSE CASE batch[id] = "COMMITTED_READY" -> "RELEASED"
                             [] batch[id] \in Terminal \ {"COMMITTED_READY"} -> "ABSENT"
                             [] OTHER -> "DETECTOR_STAGED"]
        ends == {id[2] : id \in {i \in Id : batch[i] \in Terminal}}
        open == {id \in Id : batch[id] = "FROZEN"}
    IN  /\ phase = "recover"
        /\ IF Cardinality(open) > 1
           THEN phase' = "down" /\ UNCHANGED <<rowvars, cursor, lease, index, mutation>>
           ELSE /\ state' = [batch |-> batch, intent |-> intent]
                /\ at' = [r \in RowKey |-> IF r[1] = "intent" /\ intent[r[2]] = "ABSENT"
                                           THEN 0 ELSE at[r]]
                /\ cursor' = [observed |-> Last({cursor.observed} \cup Stored),
                              detected |-> Last({cursor.detected} \cup ends),
                              active |-> IF open # {} THEN CHOOSE id \in open : TRUE
                                         ELSE IF ends # {} THEN NoId ELSE cursor.active]
                /\ lease' = NoId
                /\ index' \in {index, index \ {lease}}
                /\ mutation' = FALSE
                /\ phase' = "up"
        /\ UNCHANGED <<log, journal, coord, det, service, bounds>>

----
Coordinating == RecordObservation \/ FlushIdle \/ FreezeOne \/ RouteCaptured \/ BindFrozen

Detecting ==
    \/ \E id \in Id : ClaimNext(id)
    \/ CallReturns \/ CommitReady \/ RepairReadyIntents \/ AdvanceCursor

Reviewing ==
    \/ \E id \in Id : AcquireLease(id)
    \/ GenerationEnds \/ OpenMutation \/ CloseMutation

(* What the service goes on doing once it has begun. *)
Proceeding ==
    \/ Begin \/ MarkDeleting \/ MarkValidating \/ CheckResidue \/ Finish
    \/ \E r \in RowKey : DeleteRow(r)

Starting == Start \/ RecoverPurge \/ Recover

Next ==
    \/ TurnEnds
    \/ Coordinating
    \/ Detecting
    \/ Reviewing
    \/ \E n \in Preview : MakePreview(n) \/ Confirm(n)
    \/ Retry
    \/ Proceeding
    \/ WriteFails
    \/ Crash \/ Reopen
    \/ Starting

Spec == Init /\ [][Next]_vars

(* Operations that were begun go on, the exclusive ones in the order in which
   they were queued; a process that stopped is started again. Nobody has to
   retry a purge. *)
FairSpec ==
    /\ Spec
    /\ SF_vars(Proceeding)
    /\ WF_vars(FreezeOne \/ RouteCaptured \/ BindFrozen)
    /\ WF_vars(Starting)

----
(* Properties.                                                              *)

(* While a purge is under way nothing is learned or decided: no batch is at the
   detector's model, no generation holds the lease and no catalog mutation is
   open, whoever looked at the global record before the journal was written. *)
PurgeIsQuiet ==
    Purging => /\ lease = NoId /\ ~mutation
               /\ \A id \in Id : state.batch[id] # "DETECTION_CLAIMED"

(* What the user confirmed to delete is gone when the purge is completed and
   does not come back, neither from a worker that was at work on it nor from a
   log that is read again after a restart, if the session's cursor had passed it
   when the purge began: no turn of it is sent to the detector's model again. A
   batch may be frozen again under its old identity, once another purge has
   taken it from the cursor (#finish, activeBatchId); nothing comes of it, for
   its turns are gone. And no reservation of a behaviour is left to an intent
   that is gone. *)
PurgedStaysAway ==
    /\ \A r \in promised.passed : r \in Rows => r[1] = "batch"
    /\ det.pc = "called" => \A r \in promised.passed : det.id # r[2]
    /\ ~Purging => \A id \in index : <<"intent", id>> \in Rows

(* A purge that was begun ends, through any crash, unless it threw: that one
   is left to the user, or to the next start. *)
PurgeEnds == []<>(~Purging \/ failed)

====
