----------------------------- MODULE Quiescence -----------------------------
(***************************************************************************)
(* The release of the intents of a session that has fallen silent, and the *)
(* question whether the agent has saved the skill by itself: the           *)
(* SessionQuiescenceCoordinator, the AgentFirstOwnershipCoordinator, what  *)
(* both observe of a session, and the part of the pipeline that drives     *)
(* them: the drain, the deadline it asks for and the timer.                *)
(*                                                                         *)
(* A session is a log of turns. An event is in memory before it is durable,*)
(* and an observation is complete only when both are the same. Positions   *)
(* count the starts and the ends of turns, so that position 2n is the end  *)
(* of turn n and an odd position is an open turn. Capture, the freezing of *)
(* batches and the detector are steps of the environment (SessionBatch is  *)
(* their model): they move the cursor and leave intents.                   *)
(*                                                                         *)
(* Every await of the two coordinators ends a step. Time is what is left   *)
(* of each deadline.                                                       *)
(***************************************************************************)
EXTENDS Integers, Sequences, FiniteSets

CONSTANTS
    NSession,     \* sessions
    MaxTurn,      \* turns of a session
    NIntent,      \* intents that the detector may leave
    Idle,         \* requiredIdleMs
    Delays,       \* #retryDelay by stage
    Saves,        \* explicitSave of an intent
    Wholes,       \* completeness of the baseline and contract behind an intent
    Deeds,        \* what an agent may do to skills in a turn
    Misses,       \* the awaits at which an observation may fail for no lasting reason
    MaxTroubles   \* crashes, failed writes, failed observations, edits by others

ASSUME QuiescenceAssumption ==
    /\ NSession \in Nat \ {0} /\ MaxTurn \in Nat \ {0} /\ NIntent \in Nat \ {0}
    /\ Idle \in Nat \ {0} /\ Delays \in Seq(Nat \ {0}) /\ Delays # <<>>
    /\ Saves \subseteq BOOLEAN /\ Wholes \subseteq BOOLEAN
    /\ Deeds \subseteq {"NONE", "SAVED", "OTHER"}
    /\ MaxTroubles \in Nat
    /\ Misses \subseteq {"look", "check", "verify"}

Session == 1 .. NSession
Intent == 1 .. NIntent
Turn == 1 .. MaxTurn

VARIABLES
    mem,       \* the position of each session in memory
    disk,      \* and in the durable log
    agent,     \* the agent of each session, in the live registry
    deed,      \* what the agent did to skills in each turn
    skills,    \* the skill files: which turns' saves are in place, how often others edited
    base,      \* the skills when each turn started
    cursor,    \* global.sessions: observed, detected, active batch
    batch,     \* session_batches, by session and last turn
    intents,   \* experience_intents
    left,      \* what is left of each session's idle deadline
    retry,     \* #retries: stage and what is left, stage 0 for none; and, a history of the
               \* model, whether a deadline passed in a drain that had passed the intent
    timer,     \* what is left of the pipeline's timer
    queued,    \* does a drain wait in the pipeline's tail?
    work,      \* the drain
    troubles   \* crashes, failed writes, failed observations and edits so far; was a release put back?

world == <<mem, disk, agent, deed, skills, base>>
rows == <<cursor, batch, intents>>
clocks == <<left, retry, timer>>
vars == <<world, rows, clocks, queued, work, troubles>>

NoTimer == -1
NoRetry == [stage |-> 0, left |-> 0, late |-> FALSE]
NoEvidence == [kind |-> "NONE", end |-> [saved |-> {}, other |-> 0], at |-> 0]
Unavailable == [NoEvidence EXCEPT !.kind = "UNAVAILABLE"]
NoFence == [seen |-> 0, at |-> 0, agent |-> "absent"]
NoClaim == [bound |-> FALSE, evidence |-> NoEvidence]
NoEnd == [known |-> FALSE, end |-> NoEvidence.end]
NoBatch == [state |-> "ABSENT", first |-> 0, base |-> NoEvidence.end, end |-> NoEnd]
NoIntent == [status |-> "ABSENT", s |-> 1, last |-> 0, save |-> FALSE, whole |-> FALSE,
             fence |-> NoFence, claim |-> NoClaim]
Off == [pc |-> "off", i |-> 0, todo |-> {}, kind |-> "", seen |-> NoFence, evidence |-> NoEvidence]
Resting == [Off EXCEPT !.pc = "rest"]

Statuses == {"ABSENT", "WAITING", "READY", "ARBITRATING",
             "OWNED", "RESOLVED", "CONFIRM", "ATTENTION"}

----
(* The session and its environment.                                         *)

Ended(s) == disk[s] \div 2
OpenTurn(p) == p % 2 = 1
NoneStored(s) == disk[s] < 2

AgentOpens(s) ==
    /\ agent[s] = "absent"
    /\ agent' = [agent EXCEPT ![s] = "idle"]
    /\ UNCHANGED <<mem, disk, deed, skills, base, rows, clocks, queued, work, troubles>>

AgentRuns(s) ==
    /\ agent[s] = "idle" /\ mem[s] < 2 * MaxTurn
    /\ agent' = [agent EXCEPT ![s] = "running"]
    /\ UNCHANGED <<mem, disk, deed, skills, base, rows, clocks, queued, work, troubles>>

AgentRests(s) ==
    /\ agent[s] = "running" /\ ~OpenTurn(mem[s])
    /\ agent' = [agent EXCEPT ![s] = "idle"]
    /\ UNCHANGED <<mem, disk, deed, skills, base, rows, clocks, queued, work, troubles>>

(* A turn starts: its window is prepared before its first step, with the
   manifest of the skills. In the turn the agent saves a skill as the user
   asked, or does something about skills that does not amount to it. *)
TurnStarts(s) ==
    LET t == mem[s] \div 2 + 1
    IN  /\ agent[s] = "running" /\ ~OpenTurn(mem[s]) /\ mem[s] < 2 * MaxTurn
        /\ mem' = [mem EXCEPT ![s] = @ + 1]
        /\ base' = [base EXCEPT ![s][t] = skills]
        /\ \E d \in Deeds :
              /\ deed' = [deed EXCEPT ![s][t] = d]
              /\ skills' = IF d = "SAVED" THEN [skills EXCEPT !.saved = @ \cup {<<s, t>>}] ELSE skills
        /\ UNCHANGED <<disk, agent, rows, clocks, queued, work, troubles>>

TurnEnds(s) ==
    /\ agent[s] = "running" /\ OpenTurn(mem[s])
    /\ mem' = [mem EXCEPT ![s] = @ + 1]
    /\ UNCHANGED <<disk, agent, deed, skills, base, rows, clocks, queued, work, troubles>>

Flush(s) ==
    /\ disk[s] < mem[s]
    /\ disk' = [disk EXCEPT ![s] = mem[s]]
    /\ UNCHANGED <<mem, agent, deed, skills, base, rows, clocks, queued, work, troubles>>

----
(* Capture, freezing and detection, as far as they move the cursor. All but *)
(* the freeze are operations of the pipeline's tail or stages of its drain. *)

(* A turn is observed: the idle deadline starts again, and a drain follows. *)
ObserveTurn(s) ==
    /\ work.pc = "rest" /\ cursor[s].observed < Ended(s)
    /\ cursor' = [cursor EXCEPT ![s].observed = @ + 1]
    /\ left' = [left EXCEPT ![s] = Idle]
    /\ queued' = TRUE
    /\ UNCHANGED <<world, batch, intents, retry, timer, work, troubles>>

Freeze(s) ==
    /\ work.pc # "off" /\ cursor[s].active = 0 /\ cursor[s].detected < cursor[s].observed
    /\ cursor' = [cursor EXCEPT ![s].active = cursor[s].observed]
    /\ batch' = [batch EXCEPT ![s][cursor[s].observed] =
                    [state |-> "FROZEN", first |-> cursor[s].detected + 1,
                     base |-> base[s][cursor[s].detected + 1], end |-> NoEnd]]
    /\ queued' = TRUE
    /\ UNCHANGED <<world, intents, clocks, work, troubles>>

Unused == {i \in Intent : intents[i].status = "ABSENT"}

(* The first stage of the drain: the detector settles a batch, with intents or
   without. What a crash leaves of it is repaired before anybody looks. *)
Detect(s) ==
    LET l == cursor[s].active
        used == NIntent - Cardinality(Unused)
    IN  /\ work.pc = "stages" /\ l # 0
        /\ \E n \in 0 .. NIntent - used : \E save \in Saves, whole \in Wholes :
              /\ batch' = [batch EXCEPT ![s][l].state = IF n = 0 THEN "SETTLED" ELSE "COMMITTED_READY"]
              /\ intents' = [i \in Intent |->
                    IF i \in used + 1 .. used + n
                    THEN [NoIntent EXCEPT !.status = "WAITING", !.s = s, !.last = l,
                                          !.save = save, !.whole = whole]
                    ELSE intents[i]]
        /\ cursor' = [cursor EXCEPT ![s].active = 0, ![s].detected = l]
        /\ UNCHANGED <<world, clocks, queued, work, troubles>>

----
(* What is observed of a session: a list before and after, the log between, *)
(* and the live session and agent sampled around them. It is complete if    *)
(* nothing moved and memory has nothing that is not durable.                *)

Complete(s) == mem[s] = disk[s] /\ ~NoneStored(s)
Silent(s) == Complete(s) /\ agent[s] # "running" /\ ~OpenTurn(disk[s])
(* deriveSessionQuiescenceFenceDigestV2: the cursor and the activity revision. *)
FenceOf(s) == [seen |-> cursor[s].observed, at |-> disk[s], agent |-> agent[s]]

(* What releases and supersedes an intent, as far as rows tell. *)
Intact(i) == batch[intents[i].s][intents[i].last].state = "COMMITTED_READY"
Settled(s) == cursor[s].active = 0 /\ cursor[s].observed = cursor[s].detected
Superseded(i) == Intact(i) /\ Settled(intents[i].s) /\ cursor[intents[i].s].observed > intents[i].last
AtTail(i) == Intact(i) /\ Settled(intents[i].s) /\ cursor[intents[i].s].observed = intents[i].last
Releasable(i) == AtTail(i) /\ (intents[i].save \/ left[intents[i].s] = 0)
ReleaseDue(i) == intents[i].save \/ Superseded(i) \/ left[intents[i].s] = 0

(* #scheduleRetry: a stage that has not elapsed stays. *)
Rescheduled(r) ==
    IF r.stage # 0 /\ r.left > 0 THEN [r EXCEPT !.late = FALSE]
    ELSE LET stage == IF r.stage < Len(Delays) THEN r.stage + 1 ELSE r.stage
         IN  [stage |-> stage, left |-> Delays[stage], late |-> FALSE]

(* nextEligibleAt: only what is still to come counts. *)
RetryAt(i) == IF retry[i].left > 0 THEN {retry[i].left} ELSE {}
(* A deadline that has passed asks for no retry. *)
EligibleAt_deadlineOnly(i) ==
    IF intents[i].status # "WAITING" THEN {}
    ELSE IF Superseded(i) \/ intents[i].save THEN RetryAt(i)
    ELSE IF ~AtTail(i) THEN {}
    ELSE IF left[intents[i].s] > 0 THEN {left[intents[i].s]} ELSE {}
EligibleAt(i) ==
    IF intents[i].status # "WAITING" THEN {}
    ELSE IF Superseded(i) \/ intents[i].save THEN RetryAt(i)
    ELSE IF ~AtTail(i) THEN {}
    ELSE IF left[intents[i].s] > 0 THEN {left[intents[i].s]} ELSE RetryAt(i)
NextWakeAt ==
    LET all == UNION {EligibleAt(i) : i \in Intent}
    IN  IF all = {} THEN NoTimer ELSE CHOOSE d \in all : \A e \in all : d <= e

----
(* The drain. A drain that ends asks for the next deadline.                 *)

At(pc) == work.pc = pc
me == intents[work.i]
Staged(pc) == [work EXCEPT !.pc = pc]
NextStage == [Resting EXCEPT !.pc = "stages"]
Still == UNCHANGED <<world, cursor, left, queued>>
Quietly == Still /\ UNCHANGED troubles
SameRows == UNCHANGED <<batch, intents>>
Put(row) == intents' = [intents EXCEPT ![work.i] = row] /\ UNCHANGED batch

Rest == work' = [Resting EXCEPT !.pc = "schedule"]

Schedule ==
    /\ At("schedule")
    /\ work' = Resting /\ timer' = NextWakeAt
    /\ UNCHANGED <<rows, retry>> /\ Quietly

(* A write may fail, before or after it is durable: the drain ends there, a
   start fails. *)
Trouble(kind) ==
    /\ troubles.crash + troubles.write + troubles.miss + troubles.edit < MaxTroubles
    /\ troubles' = [troubles EXCEPT ![kind] = @ + 1]
Missed(await) == await \in Misses /\ Trouble("miss")
Aborted == IF work.kind = "recover" THEN work' = Off ELSE Rest
PutOrFail(row, next) ==
    \/ Put(row) /\ work' = next /\ UNCHANGED troubles
    \/ Trouble("write") /\ (Put(row) \/ SameRows) /\ Aborted

StartDrain ==
    /\ At("rest") /\ queued
    /\ queued' = FALSE /\ timer' = NoTimer
    /\ work' = NextStage
    /\ UNCHANGED <<world, rows, left, retry, troubles>>

With(status) == {i \in Intent : intents[i].status = status}
(* Rows are taken in the order in which the detector left them. *)
First(i, all) == i \in all /\ \A j \in all : i <= j

(* SessionQuiescenceCoordinator.runOnce *)
RunQuiescence ==
    /\ At("stages") /\ \A s \in Session : cursor[s].active = 0
    /\ work' = [Resting EXCEPT !.pc = "each", !.todo = With("WAITING")]
    /\ UNCHANGED <<rows, retry, timer>> /\ Quietly

Following(i) == [Resting EXCEPT !.pc = "each", !.todo = work.todo \ {i}]
Pass(i) ==
    /\ retry' = IF ReleaseDue(i) THEN [retry EXCEPT ![i] = Rescheduled(@)] ELSE retry
    /\ work' = Following(i)

Consider ==
    /\ At("each")
    /\ \E i \in work.todo :
          /\ First(i, work.todo)
          /\ IF Superseded(i) \/ Releasable(i)
             THEN /\ work' = [work EXCEPT !.pc = "look", !.i = i,
                                 !.kind = IF Superseded(i) THEN "attention" ELSE "release"]
                  /\ UNCHANGED retry
             ELSE Pass(i)
    /\ UNCHANGED <<rows, timer>> /\ Quietly

(* The session has been observed, and the cursor is compared with what it was.
   An intent that is superseded is not at the tail: nothing else is tried. *)
Look ==
    LET s == me.s
    IN  /\ At("look")
        /\ \/ /\ Silent(s) /\ Ended(s) = cursor[s].observed /\ cursor[s].active = 0
              /\ work' = [work EXCEPT !.pc = "put", !.seen = FenceOf(s)]
              /\ UNCHANGED <<retry, troubles>>
           \/ /\ ~Silent(s) \/ Ended(s) # cursor[s].observed \/ cursor[s].active # 0
              /\ Pass(work.i) /\ UNCHANGED troubles
           \/ Missed("look") /\ Pass(work.i)
        /\ UNCHANGED <<rows, timer>> /\ Still

(* A released intent is validated once more; one that is superseded is done
   with. Either way its retries are forgotten. *)
Release ==
    /\ At("put")
    /\ PutOrFail([me EXCEPT !.status = IF work.kind = "release" THEN "READY" ELSE "ATTENTION",
                            !.fence = work.seen],
                 IF work.kind = "release" THEN [work EXCEPT !.pc = "check"]
                 ELSE NextStage)
    /\ retry' = [retry EXCEPT ![work.i] = NoRetry]
    /\ UNCHANGED <<world, cursor, left, timer, queued>>

(* The end of the log is not looked at again: only the cursor counts. *)
Valid_cursorOnly(i) ==
    LET s == intents[i].s
    IN  Settled(s) /\ Ended(s) = cursor[s].observed
(* validate: the fence of the intent against the cursor before and after an
   observation, and against what the observation found. *)
Valid(i) ==
    LET s == intents[i].s
    IN  /\ intents[i].fence = FenceOf(s)
        /\ Settled(s) /\ Silent(s) /\ Ended(s) = cursor[s].observed
Validate(miss, i, valid, invalid) ==
    /\ \/ Valid(i) /\ work' = valid /\ UNCHANGED troubles
       \/ ~Valid(i) /\ work' = invalid /\ UNCHANGED troubles
       \/ Missed(miss) /\ work' = invalid
    /\ UNCHANGED <<rows, retry, timer>> /\ Still

Check == At("check") /\ Validate("check", work.i, NextStage, Staged("back"))

(* The fence did not hold: the intent waits again, with a new revision. The
   retry that runOnce then notes is that of the old revision, which
   nextEligibleAt discards. *)
PutBack ==
    /\ At("back")
    /\ \/ /\ Put([me EXCEPT !.status = "WAITING", !.fence = NoFence]) /\ work' = Following(work.i)
          /\ troubles' = [troubles EXCEPT !.back = 1]
       \/ Trouble("write") /\ SameRows /\ Rest
    /\ UNCHANGED <<world, cursor, left, timer, queued, retry>>

----
(* AgentFirstOwnershipCoordinator.runOnce                                   *)

Arbitrate ==
    /\ At("each") /\ work.todo = {}
    /\ \/ With("READY") = {} /\ Rest
       \/ \E i \in Intent : First(i, With("READY")) /\ work' = [Resting EXCEPT !.pc = "ready", !.i = i]
    /\ UNCHANGED <<rows, retry, timer>> /\ Quietly

Verify(pc, valid) == At(pc) /\ Validate("verify", work.i, valid, Staged("requeue"))

Ready == Verify("ready", Staged("claim"))

Claim ==
    /\ At("claim")
    /\ PutOrFail([me EXCEPT !.status = "ARBITRATING", !.claim = NoClaim], [work EXCEPT !.pc = "claimed"])
    /\ UNCHANGED <<world, cursor, left, timer, queued, retry>>

(* What is missing from the claim's input is evidence enough. *)
InputIsWhole == me.whole
Claimed ==
    Verify("claimed",
           IF InputIsWhole THEN Staged("bind")
           ELSE [work EXCEPT !.pc = "seal", !.evidence = Unavailable, !.kind = "missing"])

BindInput ==
    /\ At("bind")
    /\ PutOrFail([me EXCEPT !.claim.bound = TRUE], [work EXCEPT !.pc = "read"])
    /\ UNCHANGED <<world, cursor, left, timer, queued, retry>>

(* OwnershipObservationPort.observe: the log of the batch is read; the skills
   are captured after it; and the session must not have moved in between. *)
ReadLog ==
    /\ At("read")
    /\ work' = [work EXCEPT !.pc = "capture", !.seen = FenceOf(me.s)]
    /\ UNCHANGED <<rows, retry, timer>> /\ Quietly

CaptureSkills ==
    /\ At("capture")
    /\ \E evidence \in
          {Unavailable} \cup
          (IF disk[me.s] # work.seen.at THEN {}
           ELSE {[kind |-> "OBSERVED", end |-> skills, at |-> disk[me.s]]}) :
          work' = [work EXCEPT !.pc = "captured", !.evidence = evidence]
    /\ UNCHANGED <<rows, retry, timer>> /\ Quietly

Captured == Verify("captured", Staged("seal"))

(* #sealEvidence. What the claim itself lacked is not validated again. *)
Seal ==
    /\ At("seal")
    /\ PutOrFail([me EXCEPT !.claim.evidence = work.evidence],
          [work EXCEPT !.pc = IF work.evidence.kind = "OBSERVED" THEN "record"
                              ELSE IF work.kind \in {"missing", "recover"} THEN "final" ELSE "sealed"])
    /\ UNCHANGED <<world, cursor, left, timer, queued, retry>>

(* #recordEndObservation: the first one stays. *)
Recorded(end, evidence) == IF end.known THEN end ELSE [known |-> TRUE, end |-> evidence.end]
RecordEnd ==
    LET ev == me.claim.evidence
    IN  /\ At("record")
        /\ \/ /\ batch' = [batch EXCEPT ![me.s][me.last].end = Recorded(@, ev)]
              /\ work' = Staged(IF work.kind = "recover" THEN "final" ELSE "sealed")
              /\ UNCHANGED troubles
           \/ Trouble("write") /\ UNCHANGED batch /\ Aborted
        /\ UNCHANGED <<world, cursor, intents, left, timer, queued, retry>>

Sealed == Verify("sealed", Staged("final"))

----
(* #decide, for what the skills were at the start of the batch, what they   *)
(* are at its end and what the agent did in its turns.                      *)

TurnsOf(i) == batch[intents[i].s][intents[i].last].first .. intents[i].last
Deed(i, d) == {t \in TurnsOf(i) : deed[intents[i].s][t] = d}
NewSaves(i) ==
    intents[i].claim.evidence.end.saved \ batch[intents[i].s][intents[i].last].base.saved
Own(i) == {<<intents[i].s, t>> : t \in Deed(i, "SAVED")}
EndIsRecorded(i) ==
    LET end == batch[intents[i].s][intents[i].last].end
    IN  end.known /\ end.end = intents[i].claim.evidence.end
Unchanged(i) ==
    intents[i].claim.evidence.end = batch[intents[i].s][intents[i].last].base

Decide(i) ==
    LET ev == intents[i].claim.evidence
    IN  IF ev.kind # "OBSERVED" \/ ~EndIsRecorded(i) \/ Deed(i, "OTHER") # {} THEN "CONFIRM"
        ELSE IF Unchanged(i) /\ Deed(i, "SAVED") = {} THEN "OWNED"
        ELSE IF /\ ev.end.other = batch[intents[i].s][intents[i].last].base.other
                /\ NewSaves(i) = Own(i) /\ Cardinality(Own(i)) = 1
             THEN "RESOLVED"
        ELSE "CONFIRM"

(* Where a claim that is done with leads: to the next stage, or the next row. *)
Onward == IF work.kind = "recover" THEN [work EXCEPT !.pc = "recover", !.todo = @ \ {work.i}]
          ELSE NextStage

Finalize ==
    /\ At("final")
    /\ PutOrFail([me EXCEPT !.status = Decide(work.i)], Onward)
    /\ UNCHANGED <<world, cursor, left, timer, queued, retry>>

(* #requeueForQuiescence *)
Requeued(row) == [row EXCEPT !.status = "WAITING", !.fence = NoFence, !.claim = NoClaim]
Requeue ==
    /\ At("requeue")
    /\ PutOrFail(Requeued(me), Onward)
    /\ UNCHANGED <<world, cursor, left, timer, queued, retry>>

----
(* Time, crashes and the start.                                             *)

(* A deadline that passes in a drain is late for the intents it has passed: only
   one in the future arms the timer.                                        *)
Less(n) == IF n > 0 THEN n - 1 ELSE n
Passes(i) == left[intents[i].s] = 1 \/ retry[i].left = 1
Tick ==
    /\ left' = [s \in Session |-> Less(left[s])]
    /\ retry' = [i \in Intent |-> [stage |-> retry[i].stage, left |-> Less(retry[i].left),
                                   late |-> retry[i].late \/ (~At("rest") /\ Passes(i))]]
    /\ timer' = Less(timer)
    /\ clocks' # clocks
    /\ UNCHANGED <<world, rows, queued, work, troubles>>

TimerFires ==
    /\ timer = 0 /\ ~At("off")
    /\ timer' = NoTimer /\ queued' = TRUE
    /\ UNCHANGED <<world, rows, left, retry, work, troubles>>

(* The user, another session or another program edits the skills. Who reads
   them next is a turn that starts or a capture, so the edit waits for one. *)
OthersEdit ==
    /\ Trouble("edit")
    /\ \/ work.pc = "capture"
       \/ \E s \in Session : agent[s] = "running" /\ ~OpenTurn(mem[s]) /\ mem[s] < 2 * MaxTurn
    /\ skills' = [skills EXCEPT !.other = @ + 1]
    /\ UNCHANGED <<mem, disk, agent, deed, base, rows, clocks, queued, work>>

(* The process ends, and with it what the host kept in memory. *)
Crash ==
    /\ ~At("off") /\ Trouble("crash")
    /\ work' = Off /\ queued' = FALSE /\ timer' = NoTimer
    /\ retry' = [i \in Intent |-> NoRetry]
    /\ mem' = disk /\ agent' = [s \in Session |-> "absent"]
    /\ UNCHANGED <<disk, deed, skills, base, rows, left>>

Start ==
    /\ At("off")
    /\ work' = [Off EXCEPT !.pc = "recover", !.kind = "recover", !.todo = With("ARBITRATING")]
    /\ retry' = [i \in Intent |-> NoRetry] /\ timer' = NoTimer
    /\ UNCHANGED <<rows, queued>> /\ UNCHANGED <<world, left, troubles>>

(* recover: a claim whose fence still holds is finished with what it has. *)
LeftAt(kind) == CASE kind = "NONE" -> "seal" [] kind = "OBSERVED" -> "record" [] OTHER -> "final"
RecoverClaim ==
    /\ At("recover")
    /\ \E i \in work.todo :
          /\ First(i, work.todo)
          /\ Validate("verify", i, [work EXCEPT !.i = i, !.evidence = Unavailable,
                                              !.pc = LeftAt(intents[i].claim.evidence.kind)],
                      [work EXCEPT !.i = i, !.pc = "requeue"])

Recovered ==
    /\ At("recover") /\ work.todo = {}
    /\ work' = Resting /\ queued' = TRUE
    /\ UNCHANGED <<world, rows, clocks, troubles>>

----
Init ==
    /\ mem = [s \in Session |-> 0] /\ disk = mem
    /\ agent = [s \in Session |-> "idle"]
    /\ deed = [s \in Session |-> [t \in Turn |-> "NONE"]]
    /\ skills = NoEvidence.end
    /\ base = [s \in Session |-> [t \in Turn |-> NoEvidence.end]]
    /\ cursor = [s \in Session |-> [observed |-> 0, detected |-> 0, active |-> 0]]
    /\ batch = [s \in Session |-> [t \in Turn |-> NoBatch]]
    /\ intents = [i \in Intent |-> NoIntent]
    /\ left = [s \in Session |-> 0]
    /\ retry = [i \in Intent |-> NoRetry]
    /\ timer = NoTimer /\ queued = FALSE /\ work = Resting
    /\ troubles = [crash |-> 0, write |-> 0, miss |-> 0, edit |-> 0, back |-> 0]

OfSession(s) ==
    \/ AgentOpens(s) \/ AgentRuns(s) \/ AgentRests(s)
    \/ TurnStarts(s) \/ TurnEnds(s) \/ Flush(s)
Capture(s) == ObserveTurn(s) \/ Detect(s)
Drain ==
    \/ StartDrain \/ Schedule \/ RunQuiescence \/ Consider \/ Look \/ Release \/ Check \/ PutBack
    \/ Arbitrate \/ Ready \/ Claim \/ Claimed \/ BindInput \/ ReadLog \/ CaptureSkills
    \/ Captured \/ Seal \/ RecordEnd \/ Sealed \/ Finalize \/ Requeue
    \/ Start \/ RecoverClaim \/ Recovered

Next ==
    \/ \E s \in Session : OfSession(s) \/ Capture(s) \/ Freeze(s)
    \/ OthersEdit \/ Drain \/ Tick \/ TimerFires \/ Crash
Spec == Init /\ [][Next]_vars

FairSpec ==
    /\ Spec /\ WF_vars(Drain) /\ WF_vars(Tick) /\ WF_vars(TimerFires)
    /\ \A s \in Session : WF_vars(Flush(s)) /\ WF_vars(Capture(s)) /\ WF_vars(Freeze(s))

----
TypeOK ==
    /\ \A s \in Session : /\ disk[s] \in 0 .. mem[s] /\ mem[s] \in 0 .. 2 * MaxTurn
                          /\ agent[s] \in {"absent", "idle", "running"}
                          /\ cursor[s].active \in 0 .. MaxTurn
                          /\ cursor[s].detected <= cursor[s].observed
                          /\ cursor[s].observed <= Ended(s)
                          /\ left[s] \in 0 .. Idle
    /\ \A i \in Intent : /\ intents[i].status \in Statuses
                         /\ intents[i].status \in {"READY", "ARBITRATING"} => intents[i].fence # NoFence
                         /\ retry[i].stage \in 0 .. Len(Delays)
    /\ work.i \in 0 .. NIntent /\ work.todo \subseteq Intent

(* Whether the agent came first is decided on a manifest of the skills that
   was captured while the session was silent behind the last turn of the
   batch: no turn had started before the capture, neither of a session that
   went on during the observation nor of one that went on before a restart. *)
DecidedInSilence ==
    \A i \in Intent :
        intents[i].status \in {"OWNED", "RESOLVED"} =>
            intents[i].claim.evidence.at = 2 * intents[i].last

(* An intent of a session that stays silent is settled in the end, with a crash
   and with observations that fail: a deadline or a retry brings the drain back
   until it is owned, resolved, left to the user or sent to attention. The code
   fails this in three ways, which are left out: a failed write is left to a
   restart; a release that was put back is noted no retry; and a deadline that
   passes in a drain, after the drain has passed the intent, arms no timer
   (v2-pipeline-runtime.ts 210-212), though a deadline is what the comment of
   nextEligibleAt promises (session-quiescence-coordinator.ts 82).          *)
Pending(i) == intents[i].status \in {"WAITING", "READY", "ARBITRATING"}
Quiet(s) ==
    /\ mem[s] = disk[s] /\ ~OpenTurn(disk[s]) /\ agent[s] # "running"
    /\ Settled(s) /\ cursor[s].observed = Ended(s)
Moving(i) == ~Pending(i) \/ ~Quiet(intents[i].s) \/ troubles.write > 0
SilenceSettles == \A i \in Intent : []<>(Moving(i) \/ troubles.back > 0 \/ retry[i].late)

====
