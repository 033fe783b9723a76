---------------------------- MODULE SessionBatch ----------------------------
(***************************************************************************)
(* Turn batching and batch detection of the v2 learning pipeline.          *)
(*                                                                         *)
(* The durable domain holds one row per observed turn, one row per         *)
(* SessionBatch, the experience intents of a batch, and in the single      *)
(* global record one cursor per session.  Only the global record is        *)
(* written under the in-process mutation tail; rows are written one by one *)
(* before it, so an operation that stops half-way leaves its rows behind.  *)
(* Three in-process actors use them: the scheduler tail (recording,        *)
(* synthesis requests, idle flushes), the pipeline tail (observing, then   *)
(* draining the detector) and the host that starts, stops and restarts.    *)
(***************************************************************************)
EXTENDS Integers, Sequences, FiniteSets

CONSTANTS
    NSession,       \* sessions, visited in the order of their lifecycle keys
    MaxTurn,        \* bound: turns a session log may reach
    Kinds,          \* the kinds of turn that end: [complete, save]
    Threshold,      \* complete turns that freeze a batch (5 in the code)
    CarryLife,      \* later batches a deferred carry may cross (2 in the code)
    MaxIntents,     \* bound: intents of one READY output (3 in the code)
    RouteOutcomes,  \* outcomes of capturing a model route, a set of BOOLEANs
    Captures,       \* outcomes of capturing a manifest baseline, BOOLEANs too
    Outputs,        \* what the detector's model calls return
    MaxCrashes,     \* bound: crashes of the process
    MaxFaults       \* bound: durable writes that fail

ASSUME SizesAssumption ==
    /\ NSession \in Nat \ {0}
    /\ MaxTurn \in Nat \ {0}
    /\ Threshold \in Nat \ {0}
    /\ CarryLife \in Nat
    /\ MaxIntents \in Nat \ {0}
    /\ MaxCrashes \in Nat
    /\ MaxFaults \in Nat
ASSUME KindsAssumption == Kinds \subseteq [complete : BOOLEAN, save : BOOLEAN]
ASSUME OutcomesAssumption ==
    /\ RouteOutcomes \subseteq BOOLEAN
    /\ Captures \subseteq BOOLEAN
    /\ Outputs \subseteq {"FAILED", "NONE", "DEFER", "READY"}

Session == 1 .. NSession
Turn == 1 .. MaxTurn
Id == Turn \X Turn           \* a batch id stands for its session and turn range
NoId == <<0, 0>>
NoCarry == -1
Carry == -1 .. CarryLife
Reasons == {"EXPLICIT", "THRESHOLD", "IDLE"}

TerminalStates ==
    {"COMMITTED_NONE", "COMMITTED_DEFER", "COMMITTED_READY", "NEEDS_ATTENTION"}
RowStates == {"ABSENT", "FROZEN", "DETECTION_CLAIMED"} \cup TerminalStates
IntentStates == {"ABSENT", "DETECTOR_STAGED", "WAITING_FOR_QUIESCENCE"}

(* `at' is the length of the session log when a complete baseline was
   captured; the code has no such field, the baseline property speaks of it. *)
Baseline == [after : -1 .. MaxTurn, complete : BOOLEAN, at : 0 .. MaxTurn]
NoBase == [after |-> -1, complete |-> FALSE, at |-> 0]
Unavailable(after) == [after |-> after, complete |-> FALSE, at |-> 0]

Row == [state : RowStates, reasons : SUBSET Reasons, carry : Carry,
        called : Nat, unrouted : BOOLEAN, intents : 0 .. MaxIntents,
        base : Baseline]
AbsentRow == [state |-> "ABSENT", reasons |-> {}, carry |-> NoCarry,
              called |-> 0, unrouted |-> FALSE, intents |-> 0, base |-> NoBase]

Cursor == [observed : 0 .. MaxTurn, detected : 0 .. MaxTurn,
           active : Id \cup {NoId}, manual : 0 .. MaxTurn,
           carry : Carry, base : Baseline]
NewCursor == [observed |-> 0, detected |-> 0, active |-> NoId, manual |-> 0,
              carry |-> NoCarry, base |-> NoBase]

VARIABLES
    \* the clock
    idle,       \* have 30 minutes passed since the cursor's lastActivityAt?
    \* the durable domain
    obs,        \* turn_observations: the kinds of the turns stored so far
    batch,      \* session_batches
    intent,     \* experience_intents, by batch and ordinal
    cursor,     \* global.sessions
    \* the process
    phase,      \* "down", "recover" (detector), "bind" (cursors), "ask", "up"
    sched,      \* what the operation on the scheduler tail does next
    wake,       \* a scheduler wake is queued
    drain,      \* pipeline drains that are queued: "behind" a queued wake, or
                \* "ready" once the scheduler tail settles
    det,        \* where the detector worker stands
    crashes,    \* crashes so far
    faults      \* failed writes so far

durable == <<obs, batch, intent, cursor>>
process == <<phase, sched, wake, drain, det>>
bounds == <<crashes, faults>>
vars == <<idle, durable, process, bounds>>

DetSteps == {"off", "run", "called", "stage", "fail", "discard",
             "release", "advance", "readvance", "after"}
NoDet == [pc |-> "off", s |-> 1, id |-> NoId, n |-> 0]
SchedSteps == {"idle", "requested", "flushIdle", "flushIdleChanged"}

TypeOK ==
    /\ idle \in [Session -> BOOLEAN]
    /\ obs \in [Session -> Seq(Kinds)] /\ \A s \in Session : Len(obs[s]) <= MaxTurn
    /\ batch \in [Session -> [Id -> Row]]
    /\ intent \in [Session -> [Id -> [1 .. MaxIntents -> IntentStates]]]
    /\ cursor \in [Session -> Cursor]
    /\ phase \in {"down", "recover", "bind", "ask", "up"}
    /\ sched \in SchedSteps
    /\ wake \in BOOLEAN
    /\ drain \subseteq {"behind", "ready"}
    /\ det \in [pc : DetSteps, s : Session, id : Id \cup {NoId}, n : 0 .. MaxIntents]
    /\ crashes \in 0 .. MaxCrashes
    /\ faults \in 0 .. MaxFaults

Init ==
    /\ idle = [s \in Session |-> FALSE]
    /\ obs = [s \in Session |-> << >>]
    /\ batch = [s \in Session |-> [id \in Id |-> AbsentRow]]
    /\ intent = [s \in Session |-> [id \in Id |-> [k \in 1 .. MaxIntents |-> "ABSENT"]]]
    /\ cursor = [s \in Session |-> NewCursor]
    /\ phase = "down"
    /\ sched = "idle"
    /\ wake = FALSE
    /\ drain = {}
    /\ det = NoDet
    /\ crashes = 0
    /\ faults = 0

----
(* Rows and cursors.                                                        *)

First(S) == CHOOSE n \in S : \A m \in S : n <= m
Last(S) == CHOOSE n \in S : \A m \in S : n >= m
Larger(m, n) == IF m >= n THEN m ELSE n

Open(r) == r.state \in {"FROZEN", "DETECTION_CLAIMED"}
Terminal(r) == r.state \in TerminalStates
OpenIds(s) == {id \in Id : Open(batch[s][id])}
TerminalIds(s) == {id \in Id : Terminal(batch[s][id])}
Staged(s, id) == {k \in 1 .. MaxIntents : intent[s][id][k] = "DETECTOR_STAGED"}

(* #windowStart: the turn after which the next batch begins.                *)
WindowStart(s, c) ==
    IF c.active # NoId /\ Open(batch[s][c.active]) THEN c.active[2] ELSE c.detected

(* Mutant of Consume: a request is dropped whatever its tail. *)
ConsumeAlways(c, through) == [c EXCEPT !.manual = 0]

(* consumeManualSynthesisRequest *)
Consume(c, through) == IF c.manual <= through THEN [c EXCEPT !.manual = 0] ELSE c

(* The cursor that refers to a frozen batch. *)
Bind(c, id) == [Consume(c, id[2]) EXCEPT !.active = id, !.base = NoBase]

(* #commitTerminalCursor: the cursor past a batch that got no route. *)
Settle(c, id, carry) ==
    [Consume(c, id[2]) EXCEPT !.active = NoId, !.base = NoBase,
                              !.detected = Larger(c.detected, id[2]),
                              !.carry = carry]

CompleteTurns(stored, from, to) == Cardinality({n \in from .. to : stored[n].complete})

(* #candidate: at most one range to freeze, with the reasons for it, of the
   turns stored after the detected watermark. The mode is "manual" when a
   synthesis request may be served, "idle" when the idle deadline has passed. *)
Candidate(c, stored, mode) ==
    LET pending == c.detected + 1 .. Len(stored)
        save == {n \in pending : stored[n].save}
        full == {n \in pending : CompleteTurns(stored, c.detected + 1, n) = Threshold}
        asked == {n \in pending : n >= c.manual}
        prompt == {n \in save \cup full : n = First(save \cup full)}
    IN  IF mode = "manual" /\ c.manual # 0
        THEN {[last |-> n, reasons |-> {"EXPLICIT"} \cup
                   {r \in {"THRESHOLD"} : \E m \in full : m <= n}] :
                 n \in {m \in asked : m = First(asked)}}
        ELSE IF prompt # {}
        THEN {[last |-> n, reasons |->
                   {r \in {"EXPLICIT"} : n \in save} \cup
                   {r \in {"THRESHOLD"} : full # {} /\ n = First(full)}] : n \in prompt}
        ELSE {[last |-> n, reasons |-> {"IDLE"}] :
                 n \in {m \in pending : m = Len(stored) /\ mode = "idle"}}

(* The row #freezeOne puts: frozen, or in attention when no route was found. *)
FrozenRow(c, cand, routed) ==
    LET base == IF c.base.after = c.detected THEN c.base ELSE Unavailable(c.detected)
    IN  [AbsentRow EXCEPT !.state = IF routed THEN "FROZEN" ELSE "NEEDS_ATTENTION",
                          !.reasons = cand.reasons,
                          !.carry = IF routed THEN NoCarry ELSE c.carry,
                          !.unrouted = ~routed,
                          !.base = base]

(* A queued synthesis request holds the session's turns back from any flush
   that does not serve requests. *)
Held(c, mode) == mode # "manual" /\ c.manual # 0

(* #freezeOne: the session's batch rows and cursor after it; ok is FALSE when
   it throws, which leaves both as they were. *)
Freeze(s, c, stored, mode, routed) ==
    LET same(ok) == [ok |-> ok, rows |-> batch[s], cursor |-> c]
        found == Candidate(c, stored, mode)
        cand == CHOOSE x \in found : TRUE
        id == <<c.detected + 1, cand.last>>
        old == batch[s][id]
    IN  IF c.active # NoId THEN same(Open(batch[s][c.active]))
        ELSE IF Held(c, mode) \/ found = {} THEN same(TRUE)
        ELSE IF old.state = "ABSENT"
        THEN [ok |-> TRUE,
              rows |-> [batch[s] EXCEPT ![id] = FrozenRow(c, cand, routed)],
              cursor |-> IF routed THEN Bind(c, id) ELSE Settle(c, id, c.carry)]
        ELSE IF old.reasons # cand.reasons THEN same(FALSE)
        ELSE IF old.unrouted THEN [same(TRUE) EXCEPT !.cursor = Settle(c, id, old.carry)]
        ELSE IF old.state = "FROZEN" THEN [same(TRUE) EXCEPT !.cursor = Bind(c, id)]
        ELSE same(FALSE)

----
(* The host: agents, time, crashes.                                         *)

(* Mutant of PipelineWake: the scheduler wakes and no drain follows. *)
PipelineWakeOnly == wake' = TRUE /\ UNCHANGED drain

(* Run2skillV2PipelineRuntime.wake, of a started pipeline. *)
PipelineWake ==
    /\ wake' = TRUE
    /\ drain' = drain \cup {"behind"}

AgentDisposed ==
    /\ phase = "up"
    /\ PipelineWake
    /\ UNCHANGED <<idle, durable, phase, sched, det, bounds>>

IdleElapses(s) ==
    /\ ~idle[s]
    /\ cursor[s].observed > 0
    /\ idle' = [idle EXCEPT ![s] = TRUE]
    /\ UNCHANGED <<durable, process, bounds>>

Stop ==
    /\ phase' = "down"
    /\ sched' = "idle"
    /\ wake' = FALSE
    /\ drain' = {}
    /\ det' = NoDet

Fault ==
    /\ faults < MaxFaults
    /\ faults' = faults + 1
    /\ UNCHANGED crashes

Crash ==
    /\ phase # "down"
    /\ crashes < MaxCrashes
    /\ crashes' = crashes + 1
    /\ Stop
    /\ UNCHANGED <<idle, durable, faults>>

----
(* The coordinator, one operation at a time on the scheduler tail.          *)

Routes == [Session -> RouteOutcomes]

Pass(S, c, mode, routed) ==
    [s \in Session |-> IF s \in S THEN Freeze(s, c[s], obs[s], mode[s], routed[s])
                       ELSE [ok |-> TRUE, rows |-> batch[s], cursor |-> c[s]]]

(* A pass of freezeOne over the sessions S in key order, from the cursors c,
   inside one exclusive mutation: when no session throws, all of it commits. *)
FlushCommits(S, c, mode) ==
    \E routed \in Routes :
        LET F == Pass(S, c, mode, routed)
        IN  /\ \A s \in Session : F[s].ok
            /\ batch' = [s \in Session |-> F[s].rows]
            /\ cursor' = [s \in Session |-> F[s].cursor]
            /\ UNCHANGED bounds

(* The first session in order that throws, or a write that fails, ends the
   pass: the rows put before it stay and no cursor is written. *)
FlushThrows(S, c, mode) ==
    \E routed \in Routes, cut \in 1 .. NSession + 1 :
        LET F == Pass(S, c, mode, routed)
        IN  /\ \A s \in Session : s < cut => F[s].ok
            /\ IF cut \in Session /\ ~F[cut].ok THEN UNCHANGED bounds ELSE Fault
            /\ batch' = [s \in Session |-> IF s < cut THEN F[s].rows ELSE batch[s]]
            /\ UNCHANGED cursor

IdleMode(late) == [s \in Session |-> IF late[s] THEN "idle" ELSE "observe"]
ManualMode == [s \in Session |-> "manual"]

Asked == {s \in Session : cursor[s].manual # 0}
Captured(s) == cursor[s].observed >= Len(obs[s])   \* no stored turn is ahead
Up == phase = "up"

(* prepareSessionWindow, called before the first step of a turn once every
   earlier turn of the session has been captured. *)
PrepareSessionWindow(s) ==
    LET c == cursor[s]
        start == WindowStart(s, c)
    IN  /\ Up /\ sched = "idle" /\ det.pc = "off"
        /\ Captured(s)
        /\ c.base.after # start
        /\ \E captured \in Captures :
              LET whole == captured /\ c.observed = start
              IN  cursor' = [cursor EXCEPT ![s].base =
                        IF whole THEN [after |-> start, complete |-> TRUE, at |-> c.observed]
                        ELSE Unavailable(start)]
        /\ UNCHANGED <<idle, obs, batch, intent, process, bounds>>

(* The cursor recordObservation writes before it freezes. *)
Recorded(s, n) ==
    LET c == cursor[s]
        start == WindowStart(s, c)
    IN  [c EXCEPT !.observed = Larger(c.observed, n),
                  !.manual = IF c.manual = 0 THEN 0 ELSE Larger(c.observed, n),
                  !.base = IF c.base.after = start THEN c.base
                           ELSE IF n > Len(obs[s]) THEN Unavailable(start) ELSE NoBase]

RecordObservation(s) ==
    LET n == cursor[s].observed + 1
        c == Recorded(s, n)
    IN  /\ Up /\ sched = "idle" /\ det.pc = "off"
        /\ n <= MaxTurn
        /\ IF n <= Len(obs[s]) THEN UNCHANGED obs
           ELSE \E kind \in Kinds : obs' = [obs EXCEPT ![s] = Append(@, kind)]
        /\ \E routed \in RouteOutcomes :
              LET f == Freeze(s, c, obs'[s], "observe", routed)
              IN  \/ /\ f.ok
                     /\ batch' = [batch EXCEPT ![s] = f.rows]
                     /\ cursor' = [cursor EXCEPT ![s] = f.cursor]
                     /\ idle' = [idle EXCEPT ![s] = FALSE]
                     /\ sched' = "requested"
                     /\ UNCHANGED bounds
                  \/ /\ f.ok
                     /\ Fault
                     /\ batch' \in {batch, [batch EXCEPT ![s] = f.rows]}
                     /\ UNCHANGED <<cursor, idle, sched>>
                  \/ /\ ~f.ok
                     /\ UNCHANGED <<batch, cursor, idle, sched, bounds>>
        /\ UNCHANGED <<intent, phase, wake, drain, det>>

(* flushRequested over the requests that are permitted: every durable turn is
   captured, no agent runs, and the activity can be read completely. *)
FlushRequested(Then, Else) ==
    /\ \E S \in SUBSET {s \in Asked : Captured(s)} :
          \/ FlushCommits(S, cursor, ManualMode) /\ Then
          \/ FlushThrows(S, cursor, ManualMode) /\ Else
    /\ UNCHANGED <<idle, obs, intent>>

(* The flush that completes SessionBatchScheduler.observe; the detector runs
   next, on the same turn of the pipeline tail. *)
ObserveFlush ==
    /\ Up /\ sched = "requested"
    /\ FlushRequested(/\ IF batch' = batch THEN UNCHANGED <<wake, drain>> ELSE PipelineWake
                      /\ det' = [det EXCEPT !.pc = "run"],
                      UNCHANGED <<wake, drain, det>>)
    /\ sched' = "idle"
    /\ UNCHANGED phase

RequestSynthesis(s) ==
    LET c == cursor[s]
    IN  /\ Up /\ sched = "idle"
        /\ c.observed > (IF c.active # NoId THEN c.active[2] ELSE c.detected)
        /\ cursor' = [cursor EXCEPT ![s].manual = c.observed]
        /\ PipelineWake
        /\ UNCHANGED <<idle, obs, batch, intent, phase, sched, det, bounds>>

(* The idle timer: nextIdleAt has passed for some session. *)
TimerFires ==
    /\ Up /\ sched = "idle" /\ ~wake
    /\ \E s \in Session :
          /\ cursor[s].active = NoId /\ cursor[s].manual = 0
          /\ cursor[s].observed > cursor[s].detected
          /\ idle[s]
    /\ wake' = TRUE
    /\ UNCHANGED <<idle, durable, phase, sched, drain, det, bounds>>

(* SessionBatchScheduler.wake: flushRequested, then flushIdle, each its own
   exclusive mutation; a throw ends the wake. *)
WakeRequested ==
    /\ Up /\ sched = "idle" /\ wake
    /\ FlushRequested(sched' = IF batch' = batch THEN "flushIdle" ELSE "flushIdleChanged",
                      UNCHANGED sched)
    /\ wake' = FALSE
    /\ drain' = IF drain = {} THEN {} ELSE {"ready"}
    /\ UNCHANGED <<phase, det>>

FlushIdle ==
    /\ Up /\ sched \in {"flushIdle", "flushIdleChanged"}
    /\ \/ /\ FlushCommits(Session, cursor, IdleMode(idle))
          /\ IF batch' = batch /\ sched = "flushIdle"
             THEN UNCHANGED <<wake, drain>>
             ELSE PipelineWake
       \/ FlushThrows(Session, cursor, IdleMode(idle)) /\ UNCHANGED <<wake, drain>>
    /\ sched' = "idle"
    /\ UNCHANGED <<idle, obs, intent, phase, det>>

----
(* The detector worker, one durable write at a time on the pipeline tail.   *)

At(pc) == phase \in {"recover", "up"} /\ det.pc = pc
Goto(pc) == det' = [det EXCEPT !.pc = pc]
Worked == batch[det.s][det.id]      \* the row the worker works on

(* A queued drain begins once the scheduler tail it waits for has settled. *)
StartDrain ==
    /\ Up /\ "ready" \in drain /\ sched = "idle" /\ det.pc = "off"
    /\ drain' = drain \ {"ready"}
    /\ Goto("run")
    /\ UNCHANGED <<idle, durable, phase, sched, wake, bounds>>

ReadyStaged == {b \in Session \X Id :
    batch[b[1]][b[2]].state = "COMMITTED_READY" /\ Staged(b[1], b[2]) # {}}

Release(s, id, k) ==
    intent' = [intent EXCEPT ![s][id][k] = "WAITING_FOR_QUIESCENCE"]

(* #repairCommittedReady, at the beginning of every runOnce. *)
RepairCommittedReady ==
    /\ Up /\ At("run")
    /\ \E b \in ReadyStaged : Release(b[1], b[2], First(Staged(b[1], b[2])))
    /\ UNCHANGED <<idle, obs, batch, cursor, process, bounds>>

(* The oldest frozen batch; of two of one session the shorter was put first. *)
Oldest(s, id) ==
    /\ batch[s][id].state = "FROZEN"
    /\ \A other \in Id : batch[s][other].state = "FROZEN" =>
          \/ id[1] < other[1]
          \/ id[1] = other[1] /\ id[2] <= other[2]

PutRow(s, id, row) == batch' = [batch EXCEPT ![s][id] = row]

ClaimNext(s, id) ==
    LET c == cursor[s]
        row == [batch[s][id] EXCEPT !.carry = c.carry]
        take(state, called, pc) ==
            /\ PutRow(s, id, [row EXCEPT !.state = state,
                                         !.called = @ + called])
            /\ det' = [pc |-> pc, s |-> s, id |-> id, n |-> 0]
    IN  /\ Up /\ At("run") /\ ReadyStaged = {}
        /\ Oldest(s, id)
        /\ \/ c.active = id /\ take("DETECTION_CLAIMED", 1, "called") /\ UNCHANGED bounds
           \/ c.active = id /\ take("NEEDS_ATTENTION", 0, "advance") /\ Fault
           \/ c.active # id /\ Goto("off") /\ UNCHANGED <<batch, bounds>>
        /\ UNCHANGED <<idle, obs, intent, cursor, phase, sched, wake, drain>>

NothingFrozen ==
    /\ Up /\ At("run") /\ ReadyStaged = {}
    /\ \A s \in Session, id \in Id : batch[s][id].state # "FROZEN"
    /\ Goto("off")
    /\ UNCHANGED <<idle, durable, phase, sched, wake, drain, bounds>>

(* Mutant of Finish: the intents counted for an output stay in any row. *)
FinishCounting(state, carry, pc) ==
    /\ PutRow(det.s, det.id, [Worked EXCEPT !.state = state, !.carry = carry, !.intents = det.n])
    /\ Goto(pc)

(* The row #commitOutput or #commitAttention writes for the claimed batch. *)
Finish(state, carry, pc) ==
    /\ PutRow(det.s, det.id, [Worked EXCEPT !.state = state, !.carry = carry,
                               !.intents = IF state = "COMMITTED_READY" THEN det.n ELSE 0])
    /\ Goto(pc)

(* The model call returns: an error or an unusable output, READY with some
   intents, NONE, or DEFER; a carry whose lifetime is spent cannot be deferred
   again, an unrelated one starts a new lifetime. *)
CallReturns ==
    /\ Up /\ At("called")
    /\ \E output \in Outputs :
          \/ output = "FAILED" /\ Finish("NEEDS_ATTENTION", Worked.carry, "discard")
          \/ output = "NONE" /\ Finish("COMMITTED_NONE", NoCarry, "advance")
          \/ output = "DEFER" /\ Finish("COMMITTED_DEFER", CarryLife, "advance")
          \/ /\ output = "DEFER" /\ Worked.carry > 0
             /\ Finish("COMMITTED_DEFER", Worked.carry - 1, "advance")
          \/ /\ output = "DEFER" /\ Worked.carry = 0
             /\ Finish("NEEDS_ATTENTION", Worked.carry, "discard")
          \/ /\ output = "READY"
             /\ \E n \in 1 .. MaxIntents : det' = [det EXCEPT !.pc = "stage", !.n = n]
             /\ UNCHANGED batch
    /\ UNCHANGED <<idle, obs, intent, cursor, phase, sched, wake, drain, bounds>>

(* Mutant of Missing: the last intent of an output is not written. *)
MissingButLast(s, id, n) == {k \in 1 .. n - 1 : intent[s][id][k] = "ABSENT"}

Missing(s, id, n) == {k \in 1 .. n : intent[s][id][k] = "ABSENT"}

StageIntent ==
    LET missing == Missing(det.s, det.id, det.n)
    IN  /\ Up /\ At("stage")
        /\ missing # {}
        /\ intent' = [intent EXCEPT ![det.s][det.id][First(missing)] = "DETECTOR_STAGED"]
        /\ UNCHANGED <<idle, obs, batch, cursor, process, bounds>>

CommitReady ==
    /\ Up /\ At("stage")
    /\ Missing(det.s, det.id, det.n) = {}
    /\ Finish("COMMITTED_READY", NoCarry, "release")
    /\ UNCHANGED <<idle, obs, intent, cursor, phase, sched, wake, drain, bounds>>

(* commitAttention after a commit that failed. *)
CommitAttention ==
    /\ Up /\ At("fail")
    /\ Finish("NEEDS_ATTENTION", Worked.carry, "discard")
    /\ UNCHANGED <<idle, obs, intent, cursor, phase, sched, wake, drain, bounds>>

(* #repairReadyIntents and #discardStagedIntents of the worked batch. *)
SettleIntents ==
    LET staged == Staged(det.s, det.id)
    IN  /\ At("release") \/ At("discard")
        /\ IF staged = {}
           THEN Goto("advance") /\ UNCHANGED intent
           ELSE /\ IF det.pc = "release" THEN Release(det.s, det.id, First(staged))
                   ELSE intent' = [intent EXCEPT ![det.s][det.id][First(staged)] = "ABSENT"]
                /\ UNCHANGED det
        /\ UNCHANGED <<idle, obs, batch, cursor, phase, sched, wake, drain, bounds>>

(* Mutant of Advanced: the watermark moves to the last turn observed. *)
AdvancedToObserved(c, id, row) == [c EXCEPT !.active = NoId, !.detected = c.observed]

(* #advanceCursor *)
Advanced(c, id, row) ==
    [c EXCEPT !.active = NoId, !.detected = id[2],
              !.carry = CASE row.state = "COMMITTED_DEFER" -> row.carry
                          [] row.state \in {"COMMITTED_NONE", "COMMITTED_READY"} -> NoCarry
                          [] OTHER -> c.carry]

AdvanceCursor ==
    LET c == cursor[det.s]
        settled == det.id[2] <= c.detected
        foreign == c.active \notin {NoId, det.id}
        resume == IF phase = "up" THEN "after" ELSE "off"
    IN  /\ At("advance") \/ At("readvance")
        /\ \/ settled /\ Goto(resume) /\ UNCHANGED <<cursor, phase, sched, wake, drain>>
           \/ /\ ~settled /\ ~foreign
              /\ cursor' = [cursor EXCEPT ![det.s] = Advanced(c, det.id, Worked)]
              /\ Goto(resume)
              /\ UNCHANGED <<phase, sched, wake, drain>>
           \/ /\ ~settled /\ foreign
              /\ IF phase = "up" THEN Goto("off") /\ UNCHANGED <<phase, sched, wake, drain>>
                 ELSE Stop
              /\ UNCHANGED cursor
        /\ UNCHANGED <<idle, obs, batch, intent, bounds>>

(* afterStageTransition, then the drain calls runOnce again. *)
AfterStageTransition ==
    /\ Up /\ At("after") /\ sched = "idle"
    /\ FlushRequested(Goto("run"), Goto("off"))
    /\ UNCHANGED <<phase, sched, wake, drain>>

(* Where the worker goes on after a failed write. Before the terminal row the
   batch goes to attention; after the row of an output is written the cursor is
   tried once more; any other failure ends the drain. *)
Resume(pc) ==
    CASE pc = "called" -> {IF output = "FAILED" THEN "off" ELSE "fail" : output \in Outputs}
      [] pc = "stage" -> {"fail"}
      [] pc = "release" -> {"readvance"}
      [] pc = "advance" -> {IF Worked.state = "NEEDS_ATTENTION" THEN "off" ELSE "readvance"}
      [] pc \in {"run", "fail", "discard", "readvance"} -> {"off"}
      [] OTHER -> {}

(* A write of the worker fails; while the process starts, that ends the start. *)
WriteFails ==
    /\ phase \in {"recover", "up"}
    /\ Fault
    /\ IF phase = "recover" THEN Stop
       ELSE /\ \E pc \in Resume(det.pc) : Goto(pc)
            /\ UNCHANGED <<phase, sched, wake, drain>>
    /\ UNCHANGED <<idle, durable>>

----
(* Starting: the detector recovers, then the coordinator, then a flush.     *)

Start ==
    /\ phase = "down"
    /\ phase' = "recover"
    /\ UNCHANGED <<idle, durable, sched, wake, drain, det, bounds>>

(* A degraded lifecycle closes and reopens the runtime: capturing a turn
   keeps failing because its session's active batch is settled. *)
Reopen ==
    /\ Up /\ sched = "idle" /\ det.pc = "off"
    /\ \E s \in Session :
          /\ cursor[s].observed < MaxTurn
          /\ cursor[s].active # NoId /\ ~Open(batch[s][cursor[s].active])
    /\ Stop
    /\ UNCHANGED <<idle, durable, bounds>>

Unrecovered == {b \in Session \X Id :
    LET row == batch[b[1]][b[2]]
    IN  \/ row.state = "DETECTION_CLAIMED"
        \/ /\ Terminal(row)
           /\ Staged(b[1], b[2]) # {} \/ b[2][2] > cursor[b[1]].detected}

Before(a, b) ==
    \/ a[1] < b[1]
    \/ a[1] = b[1] /\ a[2][2] <= b[2][2]

(* Mutant of Abandoned: a claimed batch is frozen again, to be tried once more. *)
FrozenAgain(row) ==
    IF row.state = "DETECTION_CLAIMED" THEN [row EXCEPT !.state = "FROZEN"] ELSE row

(* The outcome of a claimed call is unknown; the call is never made again. *)
Abandoned(row) ==
    IF row.state = "DETECTION_CLAIMED" THEN [row EXCEPT !.state = "NEEDS_ATTENTION"] ELSE row

(* BatchDetectorWorker.recover takes the batches in order; those it would leave
   as they are, are not listed. *)
RecoverBatch ==
    /\ phase = "recover" /\ det.pc = "off"
    /\ \E b \in Unrecovered :
          LET row == batch[b[1]][b[2]]
              pc == IF row.state = "COMMITTED_READY" THEN "release" ELSE "discard"
          IN  /\ \A other \in Unrecovered : Before(b, other)
              /\ det' = [pc |-> pc, s |-> b[1], id |-> b[2], n |-> 0]
              /\ PutRow(b[1], b[2], Abandoned(row))
    /\ UNCHANGED <<idle, obs, intent, cursor, phase, sched, wake, drain, bounds>>

DetectorRecovered ==
    /\ phase = "recover" /\ det.pc = "off" /\ Unrecovered = {}
    /\ phase' = "bind"
    /\ UNCHANGED <<idle, durable, sched, wake, drain, det, bounds>>

(* #rebuildCursors *)
Rebuilt(s) ==
    LET c == cursor[s]
        ends == {id[2] : id \in TerminalIds(s)}
        last == IF ends = {} THEN 0 ELSE Last(ends)
        tail == CHOOSE id \in TerminalIds(s) : id[2] = last
        observed == Larger(c.observed, Len(obs[s]))
        seen == [c EXCEPT !.observed = observed,
                          !.manual = IF c.manual = 0 THEN 0 ELSE observed]
        passed == IF ends = {} THEN seen
                  ELSE [Consume(seen, Larger(c.detected, last)) EXCEPT
                           !.active = NoId,
                           !.detected = Larger(c.detected, last),
                           !.carry = IF batch[s][tail].state \in
                                           {"COMMITTED_DEFER", "NEEDS_ATTENTION"}
                                     THEN batch[s][tail].carry ELSE NoCarry]
        open == CHOOSE id \in OpenIds(s) : TRUE
        bound == IF OpenIds(s) = {} THEN passed
                 ELSE [Consume(passed, open[2]) EXCEPT !.active = open]
        start == WindowStart(s, bound)
    IN  IF bound.base.after = start THEN bound
        ELSE IF bound.observed > start THEN [bound EXCEPT !.base = Unavailable(start)]
        ELSE [bound EXCEPT !.base = NoBase]

Contradictory == \E s \in Session : Cardinality(OpenIds(s)) > 1

(* SessionBatchCoordinator.recover *)
RecoverCursors ==
    LET c == [s \in Session |-> Rebuilt(s)]
        S == {s \in Session : c[s].active = NoId}
    IN  /\ phase = "bind"
        /\ idle' \in [Session -> BOOLEAN]
        /\ \A s \in Session : Len(obs[s]) <= cursor[s].observed => idle'[s] = idle[s]
        /\ \/ /\ ~Contradictory
              /\ FlushCommits(S, c, IdleMode(idle'))
              /\ phase' = "ask"
              /\ UNCHANGED <<sched, wake, drain, det>>
           \/ ~Contradictory /\ FlushThrows(S, c, IdleMode(idle')) /\ Stop
           \/ Contradictory /\ Stop /\ UNCHANGED <<batch, cursor, bounds>>
        /\ UNCHANGED <<obs, intent>>

(* SessionBatchScheduler.start ends with flushRequested; the pipeline drains. *)
StartFlush ==
    /\ phase = "ask"
    /\ FlushRequested(/\ phase' = "up"
                      /\ det' = [det EXCEPT !.pc = "run"]
                      /\ UNCHANGED <<sched, wake, drain>>,
                      Stop)

----
Scheduling ==
    \/ ObserveFlush
    \/ TimerFires
    \/ WakeRequested
    \/ FlushIdle

Detection ==
    \/ StartDrain
    \/ RepairCommittedReady
    \/ \E s \in Session, id \in Id : ClaimNext(s, id)
    \/ NothingFrozen
    \/ CallReturns
    \/ StageIntent
    \/ CommitReady
    \/ CommitAttention
    \/ SettleIntents
    \/ AdvanceCursor
    \/ AfterStageTransition

Starting ==
    \/ Start
    \/ Reopen
    \/ RecoverBatch
    \/ DetectorRecovered
    \/ RecoverCursors
    \/ StartFlush

Hosting ==
    \/ AgentDisposed
    \/ \E s \in Session :
          \/ IdleElapses(s)
          \/ PrepareSessionWindow(s)
          \/ RecordObservation(s)
          \/ RequestSynthesis(s)

Next ==
    \/ Hosting
    \/ Scheduling
    \/ Detection
    \/ Starting
    \/ WriteFails
    \/ Crash

Spec == Init /\ [][Next]_vars

(* The host's timers fire, and the promise queues serve what was put on them in
   order: a drain waits for the wakes queued before it and for no later one, so
   wakes that keep coming hold the detector up again and again, never for ever.
   No drain and no flush is fair in itself: it runs when something queued it. *)
FairSpec ==
    /\ Spec
    /\ WF_vars(Scheduling /\ UNCHANGED bounds)
    /\ SF_vars(Detection)
    /\ WF_vars(Starting /\ UNCHANGED bounds)
    /\ \A s \in Session : WF_vars(IdleElapses(s))

----
(* Properties.                                                              *)

Within(n, id) == id[1] <= n /\ n <= id[2]
Overlap(a, b) == a[1] <= b[2] /\ b[1] <= a[2]
Stored(s) == {id \in Id : batch[s][id].state # "ABSENT"}

(* No turn is sent to the detector's model twice, whatever range it is frozen
   in: neither a crash, nor a flush that stops half-way, nor two triggers that
   race make the worker call a batch again, or call two batches that have a
   turn in common. *)
Called(s, id) == batch[s][id].called > 0
NoTurnDetectedTwice ==
    \A s \in Session : \A a \in Id :
        /\ batch[s][a].called <= 1
        /\ \A b \in Id : a # b /\ Called(s, a) /\ Called(s, b) => ~Overlap(a, b)

(* What the schema of a batch asks of a row: a range of stored turns and a
   reason for it, intents exactly if the output was READY, a carry only where an
   output left one or a claim took one over, one call unless nobody has called,
   and none where there was no route. *)
Admitted(s, id, row) ==
    /\ id[1] <= id[2] /\ id[2] <= Len(obs[s])
    /\ row.reasons # {}
    /\ row.state = "COMMITTED_READY" <=> row.intents > 0
    /\ row.state = "COMMITTED_DEFER" => row.carry # NoCarry
    /\ row.carry # NoCarry =>
          row.state \in {"DETECTION_CLAIMED", "COMMITTED_DEFER", "NEEDS_ATTENTION"}
    /\ row.called <= 1
    /\ row.state # "NEEDS_ATTENTION" => row.called = (IF row.state = "FROZEN" THEN 0 ELSE 1)
    /\ row.unrouted => row.state = "NEEDS_ATTENTION" /\ row.called = 0

(* No freeze, claim, output or repair composes a row that the store refuses: a
   put that throws in a flush or behind a model call throws again every time.
   And a complete baseline in a row is older than the turns it is compared with. *)
RowsAreAdmitted ==
    \A s \in Session : \A id \in Stored(s) :
        LET row == batch[s][id]
        IN  Admitted(s, id, row) /\ (row.base.complete => row.base.at < id[1])

(* The detected watermark skips nothing: each turn up to it lies in a batch
   that has a terminal state, also when a row was written and its cursor was not. *)
DetectedIsCovered ==
    \A s \in Session : \A n \in 1 .. cursor[s].detected :
        \E id \in Stored(s) : Within(n, id) /\ Terminal(batch[s][id])

(* The intents of a batch agree with its row: one that was released for the
   later stages belongs to a READY batch, a READY batch has all its intents,
   and no other settled batch keeps a released one. *)
IntentsMatchBatch ==
    \A s \in Session : \A id \in Id, k \in 1 .. MaxIntents :
        LET row == batch[s][id]
        IN  /\ intent[s][id][k] = "WAITING_FOR_QUIESCENCE" =>
                  row.state = "COMMITTED_READY" /\ k <= row.intents
            /\ row.state = "COMMITTED_READY" =>
                  (k <= row.intents <=> intent[s][id][k] # "ABSENT")

(* The batch the worker works on stays its own: it is claimed from the call to
   the terminal row, whatever fails in between, and terminal from then on. *)
WorkerHoldsItsBatch ==
    /\ det.pc \notin {"off", "run"} => det.id \in Id
    /\ det.pc \in {"called", "stage", "fail"} => Worked.state = "DETECTION_CLAIMED"
    /\ det.pc \in {"discard", "advance", "readvance", "after"} => Terminal(Worked)
    /\ det.pc = "discard" => Worked.state # "COMMITTED_READY"
    /\ det.pc = "release" => Worked.state = "COMMITTED_READY"

(* Intents are staged by the worker that holds the batch and by nobody else: a
   batch that was never claimed has none, a call in flight has none yet, and no
   more are written than the output has. *)
StagedByItsWorker ==
    /\ \A s \in Session : \A id \in Id, k \in 1 .. MaxIntents :
          batch[s][id].state \in {"ABSENT", "FROZEN"} => intent[s][id][k] = "ABSENT"
    /\ \A k \in 1 .. MaxIntents :
          (det.pc = "called" \/ (det.pc = "stage" /\ k > det.n))
              => intent[det.s][det.id][k] = "ABSENT"

(* A synthesis request leaves the cursor only when each turn it asked for is
   detected or lies in an open batch: not at a crash, not at a restart. *)
RequestIsServed ==
    [][\A s \in Session :
          cursor[s].manual # 0 /\ cursor'[s].manual = 0 =>
              \A n \in 1 .. cursor[s].manual :
                  \/ n <= cursor'[s].detected
                  \/ \E id \in Id : Within(n, id) /\ Open(batch'[s][id])]_vars

(* A settled batch stays as it is and no watermark moves back. *)
SettledStaysSettled ==
    [][\A s \in Session :
          /\ cursor'[s].detected >= cursor[s].detected
          /\ cursor'[s].observed >= cursor[s].observed
          /\ \A id \in TerminalIds(s) : batch'[s][id] = batch[s][id]]_vars

(* In the end nothing is left to do: each observed turn is detected unless a
   synthesis request holds it, and no batch stays open. A failed write waits for
   the next start, so the runs with one are exempt. *)
EverythingSettles ==
    <>[](faults = 0 =>
            \A s \in Session :
               /\ \A id \in Id : ~Open(batch[s][id])
               /\ cursor[s].manual = 0 => cursor[s].detected >= cursor[s].observed)

====
