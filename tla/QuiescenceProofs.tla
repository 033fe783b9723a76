-------------------------- MODULE QuiescenceProofs --------------------------
(* Theorems about Quiescence, for every value of its constants: who owns a  *)
(* skill is decided on a manifest captured behind the last turn of the batch,*)
(* and before any other.                                                    *)
EXTENDS Quiescence, TLAPS

----
(* Types. *)

Fences == [seen : Nat, at : Nat, agent : {"absent", "idle", "running"}]
Skills == [saved : SUBSET (Session \X Turn), other : Nat]
Evidences == [kind : {"NONE", "UNAVAILABLE", "OBSERVED"}, end : Skills, at : Nat]
Claims == [bound : BOOLEAN, evidence : Evidences]
Rows == [status : Statuses, s : Session, last : Nat, save : BOOLEAN, whole : BOOLEAN,
         fence : Fences, claim : Claims]
Pauses == {"off", "rest", "stages", "schedule"}
Releasing == {"each", "look", "put", "check", "back"}
Arbitrating == {"claimed", "bind", "read", "capture", "captured", "seal", "record", "sealed", "final"}
Points == Pauses \cup Releasing \cup Arbitrating \cup {"ready", "claim", "requeue", "recover"}
Works == [pc : Points, i : 0 .. NIntent, todo : SUBSET Intent,
          kind : {"", "attention", "release", "missing", "recover"},
          seen : Fences, evidence : Evidences]

WorldTyped ==
    /\ mem \in [Session -> 0 .. 2 * MaxTurn]
    /\ disk \in [Session -> Nat] /\ \A s \in Session : disk[s] <= mem[s]
    /\ agent \in [Session -> {"absent", "idle", "running"}]
    /\ skills \in Skills
CursorTyped ==
    /\ cursor \in [Session -> [observed : Nat, detected : Nat, active : Nat]]
    /\ \A s \in Session : /\ cursor[s].detected <= cursor[s].observed
                          /\ 2 * cursor[s].observed <= disk[s]
                          /\ cursor[s].active <= cursor[s].observed
ClocksTyped ==
    /\ left \in [Session -> 0 .. Idle]
    /\ retry \in [Intent -> [stage : 0 .. Len(Delays), left : Nat, late : BOOLEAN]]

----
(* The inductive invariant. *)

(* A released intent has the fence of its batch's last turn, and that turn is
   durable.  What was observed for a claim was observed behind the same turn. *)
RowIsTrue(i) ==
    LET row == intents[i]
    IN  /\ row.status # "ABSENT" => row.last \in Turn
        /\ row.status \in {"READY", "ARBITRATING"} =>
             row.fence.at = 2 * row.last /\ 2 * row.last <= disk[row.s]
        /\ row.claim.evidence.kind = "OBSERVED" => row.claim.evidence.at = 2 * row.last
        /\ row.status \in {"OWNED", "RESOLVED"} => row.claim.evidence.kind = "OBSERVED"
RowsAreTrue == intents \in [Intent -> Rows] /\ \A i \in Intent : RowIsTrue(i)

Waits(pcs, status) == work.pc \in pcs => work.i \in Intent /\ me.status = status

(* The intent that the drain is about has the status of its step, and so do the
   ones that are still to come. *)
RowsAwait ==
    /\ Waits({"look", "put"}, "WAITING")
    /\ Waits({"check", "back", "ready", "claim"}, "READY")
    /\ Waits(Arbitrating, "ARBITRATING")
    /\ work.pc = "requeue" => work.i \in Intent /\ me.status \in {"READY", "ARBITRATING"}
    /\ work.pc = "each" => work.todo \subseteq With("WAITING")
    /\ work.pc \in Releasing => work.todo \ {work.i} \subseteq With("WAITING")
    /\ work.pc = "recover" => work.todo \subseteq With("ARBITRATING")
    /\ work.pc \notin Pauses /\ work.kind = "recover" =>
         work.todo \ {work.i} \subseteq With("ARBITRATING")
    /\ work.pc \in Releasing \cup {"ready", "claim"} => work.kind # "recover"

(* What the drain has seen and not yet written: the cursor a release rests on, the
   fence it is about to give, the end of the log around the capture of the skills. *)
SightIsTrue ==
    /\ work.pc \in {"look", "put"} /\ work.kind = "release" =>
         cursor[me.s].observed = me.last
    /\ work.pc = "put" /\ work.kind = "release" =>
         work.seen.at = 2 * me.last /\ 2 * me.last <= disk[me.s]
    /\ work.pc = "capture" => 2 * me.last <= work.seen.at /\ work.seen.at <= disk[me.s]
    /\ work.pc = "captured" /\ work.evidence.kind = "OBSERVED" =>
         2 * me.last <= work.evidence.at /\ work.evidence.at <= disk[me.s]
    /\ work.pc = "seal" /\ work.evidence.kind = "OBSERVED" => work.evidence.at = 2 * me.last

StepIsTrue == work \in Works /\ RowsAwait /\ SightIsTrue

Inv == WorldTyped /\ CursorTyped /\ ClocksTyped /\ RowsAreTrue /\ StepIsTrue

----
(* What stays, by what a step leaves alone. *)

LEMMA Texts ==
  /\ NoFence \in Fences /\ NoEvidence \in Evidences /\ Unavailable \in Evidences
  /\ NoClaim \in Claims /\ Off \in Works /\ Resting \in Works
  /\ Off.pc = "off" /\ Resting.pc = "rest" /\ Resting.i = 0 /\ Resting.todo = {} /\ Resting.kind = ""
  /\ NoEvidence.kind = "NONE" /\ Unavailable.kind = "UNAVAILABLE"
<1>1. NoFence \in Fences BY DEF NoFence, Fences
<1>2. NoEvidence \in Evidences /\ NoEvidence.kind = "NONE"
  BY DEF NoEvidence, Evidences, Skills
<1>3. Unavailable \in Evidences /\ Unavailable.kind = "UNAVAILABLE"
  BY <1>2 DEF Unavailable, Evidences
<1>4. NoClaim \in Claims BY <1>2 DEF NoClaim, Claims
<1>5. Off \in Works /\ Off.pc = "off" /\ Off.i = 0 /\ Off.todo = {} /\ Off.kind = ""
  BY <1>1, <1>2, QuiescenceAssumption DEF Off, Works, Points, Pauses
<1>6. /\ Resting \in Works /\ Resting.pc = "rest" /\ Resting.i = 0 /\ Resting.todo = {}
      /\ Resting.kind = ""
  BY <1>5 DEF Resting, Works, Points, Pauses
<1>. QED BY <1>1, <1>2, <1>3, <1>4, <1>5, <1>6

LEMMA EmptyRow == NoIntent \in Rows /\ NoIntent.claim = NoClaim /\ NoIntent.status = "ABSENT"
<1>1. 1 \in Session BY QuiescenceAssumption DEF Session
<1>2. NoIntent \in Rows BY <1>1, Texts DEF NoIntent, Rows, Statuses
<1>. QED BY <1>2 DEF NoIntent

(* A drain that has ended, and one between its stages, hold on to nothing. *)
LEMMA PauseHolds ==
  ASSUME work' \in Works, work'.pc \in Pauses
  PROVE StepIsTrue'
  BY DEF StepIsTrue, RowsAwait, SightIsTrue, Waits, Pauses, Releasing, Arbitrating

(* A step of the world only adds to the logs. *)
LEMMA RowsStay ==
  ASSUME Inv, UNCHANGED intents, CursorTyped', \A s \in Session : disk[s] <= disk'[s],
         WorldTyped'
  PROVE RowsAreTrue'
  BY DEF Inv, RowsAreTrue, RowIsTrue, WorldTyped, Rows, Fences, Turn

LEMMA StepStays ==
  ASSUME Inv, UNCHANGED <<intents, work>>, WorldTyped',
         \A s \in Session : disk[s] <= disk'[s] /\ cursor[s].observed = cursor'[s].observed
  PROVE StepIsTrue'
<1>. USE DEF Inv
<1>1. work' \in Works /\ RowsAwait'
  BY DEF StepIsTrue, RowsAwait, Waits, me, With
<1>2. ASSUME work.pc \in Releasing \cup Arbitrating, work.i \in Intent
      PROVE me' = me /\ me.s \in Session /\ me.last \in Nat
  BY <1>2 DEF RowsAreTrue, Rows, me
<1>3. work.pc \in {"look", "put"} \cup Arbitrating => work.i \in Intent
  BY DEF StepIsTrue, RowsAwait, Waits
<1>4. work.seen.at \in Nat /\ work.evidence.at \in Nat
  BY DEF StepIsTrue, Works, Fences, Evidences
<1>5. SightIsTrue'
  BY <1>2, <1>3, <1>4 DEF StepIsTrue, SightIsTrue, Releasing, Arbitrating, WorldTyped
<1>. QED BY <1>1, <1>5 DEF StepIsTrue

LEMMA WorldKeeps ==
  ASSUME Inv, WorldTyped', \A s \in Session : disk[s] <= disk'[s],
         UNCHANGED <<cursor, intents, left, retry, work>>
  PROVE Inv'
<1>1. CursorTyped' /\ ClocksTyped'
  BY DEF Inv, WorldTyped, CursorTyped, ClocksTyped
<1>2. RowsAreTrue' BY <1>1, RowsStay
<1>3. StepIsTrue' BY StepStays
<1>. QED BY <1>1, <1>2, <1>3 DEF Inv

(* A step of the drain that writes no row. *)
LEMMA WorkKeeps ==
  ASSUME Inv, UNCHANGED <<mem, disk, agent, skills, cursor, intents, left>>, ClocksTyped', StepIsTrue'
  PROVE Inv'
<1>1. WorldTyped' /\ CursorTyped' BY DEF Inv, WorldTyped, CursorTyped
<1>2. RowsAreTrue' BY <1>1, RowsStay DEF Inv, WorldTyped
<1>. QED BY <1>1, <1>2 DEF Inv

(* A step of the drain that writes the row it is about, or writes it and fails. *)
LEMMA PutKeeps ==
  ASSUME Inv, UNCHANGED <<mem, disk, agent, skills, cursor, left>>, ClocksTyped', StepIsTrue',
         NEW row \in Rows, intents' \in {intents, [intents EXCEPT ![work.i] = row]},
         row.s = me.s, row.last = me.last, work.i \in Intent, me.status # "ABSENT",
         row.status \in {"READY", "ARBITRATING"} =>
             row.fence.at = 2 * row.last /\ 2 * row.last <= disk[row.s],
         row.claim.evidence.kind = "OBSERVED" => row.claim.evidence.at = 2 * row.last,
         row.status \in {"OWNED", "RESOLVED"} => row.claim.evidence.kind = "OBSERVED"
  PROVE Inv'
<1>1. WorldTyped' /\ CursorTyped' BY DEF Inv, WorldTyped, CursorTyped
<1>2. RowsAreTrue'
  <2>1. intents' \in [Intent -> Rows] BY DEF Inv, RowsAreTrue
  <2>2. ASSUME NEW i \in Intent PROVE RowIsTrue(i)'
    <3>1. CASE intents'[i] = intents[i]
      BY <3>1 DEF Inv, RowsAreTrue, RowIsTrue
    <3>2. CASE i = work.i /\ intents'[i] = row
      BY <3>2 DEF Inv, RowsAreTrue, RowIsTrue, me
    <3>. QED BY <3>1, <3>2 DEF Inv, RowsAreTrue
  <2>. QED BY <2>1, <2>2 DEF RowsAreTrue
<1>. QED BY <1>1, <1>2 DEF Inv

----
(* The world, the clocks and the stages before. *)

LEMMA OddIsBelow ==
  ASSUME NEW m \in Nat, NEW n \in Nat, m % 2 = 1, m <= 2 * n
  PROVE m < 2 * n OBVIOUS

LEMMA SessionKeeps == ASSUME Inv, NEW s \in Session, OfSession(s) PROVE Inv'
<1>. USE DEF world, rows, clocks
<1>1. CASE AgentOpens(s) \/ AgentRuns(s) \/ AgentRests(s)
  <2>1. WorldTyped'
    BY <1>1 DEF Inv, WorldTyped, AgentOpens, AgentRuns, AgentRests
  <2>. QED BY <1>1, <2>1, WorldKeeps DEF Inv, WorldTyped, AgentOpens, AgentRuns, AgentRests
<1>2. CASE TurnStarts(s)
  <2>1. mem' \in [Session -> 0 .. 2 * MaxTurn] /\ \A r \in Session : mem[r] <= mem'[r]
    BY <1>2, QuiescenceAssumption DEF TurnStarts, Inv, WorldTyped
  <2>2. skills' \in Skills
    <3>1. mem[s] \div 2 + 1 \in Turn
      BY <1>2, QuiescenceAssumption DEF TurnStarts, Inv, WorldTyped, Turn
    <3>. QED BY <1>2, <3>1 DEF TurnStarts, Inv, WorldTyped, Skills
  <2>3. WorldTyped' BY <1>2, <2>1, <2>2 DEF Inv, WorldTyped, TurnStarts
  <2>. QED BY <1>2, <2>3, WorldKeeps DEF Inv, WorldTyped, TurnStarts
<1>3. CASE TurnEnds(s)
  <2>1. mem' \in [Session -> 0 .. 2 * MaxTurn] /\ \A r \in Session : mem[r] <= mem'[r]
    <3>1. mem[s] \in Nat /\ mem[s] <= 2 * MaxTurn /\ mem[s] % 2 = 1 /\ mem' = [mem EXCEPT ![s] = @ + 1]
      BY <1>3, QuiescenceAssumption DEF TurnEnds, OpenTurn, Inv, WorldTyped
    <3>2. mem[s] < 2 * MaxTurn BY <3>1, QuiescenceAssumption, OddIsBelow
    <3>. QED BY <3>1, <3>2, QuiescenceAssumption DEF Inv, WorldTyped
  <2>2. WorldTyped' BY <1>3, <2>1 DEF Inv, WorldTyped, TurnEnds
  <2>. QED BY <1>3, <2>2, WorldKeeps DEF Inv, WorldTyped, TurnEnds
<1>4. CASE Flush(s)
  <2>1. WorldTyped' /\ \A r \in Session : disk[r] <= disk'[r]
    BY <1>4 DEF Inv, WorldTyped, Flush
  <2>. QED BY <1>4, <2>1, WorldKeeps DEF Flush
<1>. QED BY <1>1, <1>2, <1>3, <1>4 DEF OfSession

LEMMA EditKeeps == ASSUME Inv, OthersEdit PROVE Inv'
<1>1. WorldTyped' BY DEF Inv, WorldTyped, OthersEdit, Skills
<1>. QED BY <1>1, WorldKeeps DEF Inv, WorldTyped, OthersEdit, rows, clocks

LEMMA TimeKeeps == ASSUME Inv, Tick \/ TimerFires PROVE Inv'
<1>1. UNCHANGED <<world, rows, work>> /\ ClocksTyped'
  <2>1. CASE Tick
    <3>1. left' \in [Session -> 0 .. Idle]
      BY <2>1, QuiescenceAssumption DEF Tick, Less, Inv, ClocksTyped
    <3>2. retry' \in [Intent -> [stage : 0 .. Len(Delays), left : Nat, late : BOOLEAN]]
      BY <2>1 DEF Tick, Less, Inv, ClocksTyped
    <3>. QED BY <2>1, <3>1, <3>2 DEF Tick, ClocksTyped
  <2>2. CASE TimerFires BY <2>2 DEF TimerFires, Inv, ClocksTyped
  <2>. QED BY <2>1, <2>2
<1>2. WorldTyped' /\ CursorTyped'
  BY <1>1 DEF Inv, WorldTyped, CursorTyped, world, rows
<1>3. RowsAreTrue'
  BY <1>1, <1>2, RowsStay DEF Inv, WorldTyped, world, rows
<1>4. StepIsTrue'
  BY <1>1, <1>2, StepStays DEF Inv, WorldTyped, CursorTyped, world, rows
<1>. QED BY <1>1, <1>2, <1>3, <1>4 DEF Inv

LEMMA CrashKeeps == ASSUME Inv, Crash PROVE Inv'
<1>1. WorldTyped' /\ UNCHANGED <<disk, cursor, intents, left>>
  BY QuiescenceAssumption DEF Crash, Inv, WorldTyped, rows
<1>2. CursorTyped' /\ ClocksTyped'
  BY <1>1 DEF Crash, Inv, CursorTyped, ClocksTyped, NoRetry
<1>3. RowsAreTrue' BY <1>1, <1>2, RowsStay DEF Inv, WorldTyped
<1>4. StepIsTrue' BY Texts, PauseHolds DEF Crash, Pauses
<1>. QED BY <1>1, <1>2, <1>3, <1>4 DEF Inv

LEMMA ObserveTurnKeeps == ASSUME Inv, NEW s \in Session, ObserveTurn(s) PROVE Inv'
<1>1. UNCHANGED <<world, intents, work, retry>> BY DEF ObserveTurn, rows
<1>2. WorldTyped' BY <1>1 DEF Inv, WorldTyped, world
<1>3. CursorTyped'
  BY <1>1 DEF ObserveTurn, Ended, Inv, CursorTyped, WorldTyped, world
<1>4. ClocksTyped'
  BY <1>1, QuiescenceAssumption DEF ObserveTurn, Inv, ClocksTyped
<1>5. RowsAreTrue'
  BY <1>1, <1>2, <1>3, RowsStay DEF Inv, WorldTyped, world
<1>6. StepIsTrue' BY PauseHolds DEF ObserveTurn, Inv, StepIsTrue, Pauses
<1>. QED BY <1>2, <1>3, <1>4, <1>5, <1>6 DEF Inv

LEMMA FreezeKeeps == ASSUME Inv, NEW s \in Session, Freeze(s) PROVE Inv'
<1>1. UNCHANGED <<world, intents, work, retry, left>>
  BY DEF Freeze, rows, clocks
<1>2. WorldTyped' /\ ClocksTyped'
  BY <1>1 DEF Inv, WorldTyped, ClocksTyped, world
<1>3. CursorTyped' /\ \A r \in Session : cursor'[r].observed = cursor[r].observed
  BY <1>1 DEF Freeze, Inv, CursorTyped, world
<1>4. RowsAreTrue'
  BY <1>1, <1>2, <1>3, RowsStay DEF Inv, WorldTyped, world
<1>5. StepIsTrue'
  BY <1>1, <1>2, <1>3, StepStays DEF Inv, WorldTyped, world
<1>. QED BY <1>2, <1>3, <1>4, <1>5 DEF Inv

LEMMA DetectKeeps == ASSUME Inv, NEW s \in Session, Detect(s) PROVE Inv'
<1>. DEFINE new(save, whole) == [NoIntent EXCEPT !.status = "WAITING", !.s = s, !.last = cursor[s].active,
                                                 !.save = save, !.whole = whole]
<1>1. UNCHANGED <<world, work, retry, left>> BY DEF Detect, clocks
<1>2. WorldTyped' /\ ClocksTyped'
  BY <1>1 DEF Inv, WorldTyped, ClocksTyped, world
<1>3. CursorTyped'
  <2>1. cursor' = [cursor EXCEPT ![s].active = 0, ![s].detected = cursor[s].active]
    BY DEF Detect
  <2>. HIDE DEF new
  <2>2. cursor' \in [Session -> [observed : Nat, detected : Nat, active : Nat]]
    BY <2>1 DEF Inv, CursorTyped
  <2>3. /\ \A r \in Session \ {s} : cursor'[r] = cursor[r]
        /\ cursor'[s].active = 0 /\ cursor'[s].detected = cursor[s].active
        /\ cursor'[s].observed = cursor[s].observed
    BY <2>1 DEF Inv, CursorTyped
  <2>4. ASSUME NEW r \in Session
        PROVE /\ cursor'[r].detected <= cursor'[r].observed
              /\ 2 * cursor'[r].observed <= disk'[r]
              /\ cursor'[r].active <= cursor'[r].observed
    <3>1. CASE r = s BY <3>1, <2>3, <1>1 DEF Inv, CursorTyped, world
    <3>2. CASE r # s BY <3>2, <2>3, <1>1 DEF Inv, CursorTyped, world
    <3>. QED BY <3>1, <3>2
  <2>. QED BY <2>2, <2>4 DEF CursorTyped
<1>4. cursor[s].active \in Turn
  BY QuiescenceAssumption DEF Detect, Inv, CursorTyped, WorldTyped, Turn
<1>5. \A save, whole \in BOOLEAN :
        /\ new(save, whole) \in Rows /\ new(save, whole).status = "WAITING"
        /\ new(save, whole).last = cursor[s].active /\ new(save, whole).claim = NoClaim
  <2>. TAKE save, whole \in BOOLEAN
  <2>1. NoIntent \in Rows /\ NoIntent.claim = NoClaim BY EmptyRow
  <2>2. cursor[s].active \in Nat BY DEF Inv, CursorTyped
  <2>. QED BY <2>1, <2>2 DEF Rows, Statuses
<1>6. NoClaim.evidence.kind = "NONE" BY Texts DEF NoClaim
<1>7. RowsAreTrue'
  <2>1. PICK n \in 0 .. NIntent - (NIntent - Cardinality(Unused)), save \in Saves, whole \in Wholes :
          intents' = [i \in Intent |->
                        IF i \in NIntent - Cardinality(Unused) + 1 .. NIntent - Cardinality(Unused) + n
                        THEN new(save, whole) ELSE intents[i]]
    BY Zenon DEF Detect
  <2>2. \A i \in Intent : intents'[i] = intents[i] \/ intents'[i] = new(save, whole)
    BY <2>1
  <2>3. intents' \in [Intent -> Rows]
    BY <2>1, <1>5, QuiescenceAssumption DEF Inv, RowsAreTrue
  <2>4. ASSUME NEW i \in Intent PROVE RowIsTrue(i)'
    <3>1. CASE intents'[i] = intents[i]
      BY <3>1, <1>1 DEF Inv, RowsAreTrue, RowIsTrue, world
    <3>2. CASE intents'[i] = new(save, whole)
      BY <3>2, <1>4, <1>5, <1>6, QuiescenceAssumption DEF RowIsTrue
    <3>. QED BY <2>2, <3>1, <3>2
  <2>. QED BY <2>3, <2>4 DEF RowsAreTrue
<1>8. StepIsTrue'
  BY PauseHolds, <1>1 DEF Detect, Inv, StepIsTrue, Pauses
<1>. QED BY <1>2, <1>3, <1>7, <1>8 DEF Inv

----
(* The forms that the steps of the drain have. *)

LEMMA PausedKeeps ==
  ASSUME Inv, UNCHANGED <<world, cursor, intents, left>>, ClocksTyped',
         work' \in Works, work'.pc \in Pauses
  PROVE Inv'
  BY PauseHolds, WorkKeeps DEF world

LEMMA Abort == Aborted => work' \in Works /\ work'.pc \in Pauses
  BY Texts DEF Aborted, Rest, Works, Points, Pauses

LEMMA PutOrFailKeeps ==
  ASSUME Inv, NEW row \in Rows, NEW next, PutOrFail(row, next),
         UNCHANGED <<world, cursor, left>>, ClocksTyped', work.i \in Intent, me.status # "ABSENT",
         row.s = me.s, row.last = me.last,
         row.status \in {"READY", "ARBITRATING"} =>
             row.fence.at = 2 * row.last /\ 2 * row.last <= disk[row.s],
         row.claim.evidence.kind = "OBSERVED" => row.claim.evidence.at = 2 * row.last,
         row.status \in {"OWNED", "RESOLVED"} => row.claim.evidence.kind = "OBSERVED",
         intents' = [intents EXCEPT ![work.i] = row] /\ work' = next => StepIsTrue'
  PROVE Inv'
<1>1. intents' \in {intents, [intents EXCEPT ![work.i] = row]}
  BY DEF PutOrFail, Put, SameRows
<1>2. StepIsTrue' BY Abort, PauseHolds DEF PutOrFail, Put
<1>. QED BY <1>1, <1>2, PutKeeps DEF world

LEMMA RetryTyped ==
  ASSUME NEW r \in [stage : 0 .. Len(Delays), left : Nat, late : BOOLEAN]
  PROVE Rescheduled(r) \in [stage : 0 .. Len(Delays), left : Nat, late : BOOLEAN]
<1>1. Len(Delays) \in Nat \ {0} /\ \A k \in 1 .. Len(Delays) : Delays[k] \in Nat
  BY QuiescenceAssumption
<1>2. [r EXCEPT !.late = FALSE] \in [stage : 0 .. Len(Delays), left : Nat, late : BOOLEAN]
  OBVIOUS
<1>3. CASE r.stage # 0 /\ r.left > 0 BY <1>2, <1>3 DEF Rescheduled
<1>4. CASE ~(r.stage # 0 /\ r.left > 0)
  <2>. DEFINE stage == IF r.stage < Len(Delays) THEN r.stage + 1 ELSE r.stage
  <2>1. Rescheduled(r) = [stage |-> stage, left |-> Delays[stage], late |-> FALSE]
    BY <1>4, Zenon DEF Rescheduled
  <2>2. stage \in 1 .. Len(Delays) BY <1>1
  <2>. QED BY <1>1, <2>1, <2>2
<1>. QED BY <1>3, <1>4

(* The next row of the walk over the waiting intents. *)
LEMMA Follow ==
  ASSUME Inv, NEW i, work' = Following(i), \A j \in work.todo \ {i} : intents'[j].status = "WAITING"
  PROVE StepIsTrue'
<1>1. work.todo \subseteq Intent BY DEF Inv, StepIsTrue, Works
<1>2. /\ work' \in Works /\ work'.pc = "each" /\ work'.kind = ""
      /\ work'.todo = work.todo \ {i} /\ work'.i = 0
  BY <1>1, Texts DEF Following, Works, Points, Releasing
<1>. QED BY <1>1, <1>2 DEF StepIsTrue, RowsAwait, SightIsTrue, Waits, With, Pauses, Releasing, Arbitrating

LEMMA PassKeeps ==
  ASSUME Inv, NEW i \in Intent, Pass(i), UNCHANGED <<world, cursor, left, intents>>,
         work.todo \ {i} \subseteq With("WAITING")
  PROVE Inv'
<1>1. ClocksTyped' BY RetryTyped DEF Pass, Inv, ClocksTyped
<1>2. StepIsTrue' BY Follow DEF Pass, With
<1>. QED BY <1>1, <1>2, WorkKeeps DEF world

(* Who the drain is about. *)
LEMMA MeFacts ==
  ASSUME Inv, work.i \in Intent
  PROVE /\ me \in Rows /\ me.s \in Session /\ me.last \in Nat /\ disk[me.s] \in Nat
        /\ me.status # "ABSENT" => me.last \in Turn
        /\ me.status \in {"READY", "ARBITRATING"} =>
             me.fence.at = 2 * me.last /\ 2 * me.last <= disk[me.s]
        /\ me.claim.evidence.kind = "OBSERVED" => me.claim.evidence.at = 2 * me.last
        /\ me.status \in {"OWNED", "RESOLVED"} => me.claim.evidence.kind = "OBSERVED"
  BY DEF Inv, RowsAreTrue, RowIsTrue, Rows, me, WorldTyped

----
(* The release. *)

LEMMA PausingKeeps ==
  ASSUME Inv, Schedule \/ StartDrain \/ Recovered
  PROVE Inv'
<1>1. UNCHANGED <<world, cursor, intents, left, retry>>
  BY DEF Schedule, StartDrain, Recovered, Quietly, Still, rows, clocks
<1>2. work' \in Works /\ work'.pc \in Pauses
  BY Texts DEF Schedule, StartDrain, Recovered, NextStage, Works, Points, Pauses
<1>3. ClocksTyped' BY <1>1 DEF Inv, ClocksTyped
<1>. QED BY <1>1, <1>2, <1>3, PausedKeeps

LEMMA RunQuiescenceKeeps == ASSUME Inv, RunQuiescence PROVE Inv'
<1>1. UNCHANGED <<world, cursor, intents, left, retry>>
  BY DEF RunQuiescence, Quietly, Still, rows
<1>2. /\ work' \in Works /\ work'.pc = "each" /\ work'.kind = ""
      /\ work'.todo = With("WAITING") /\ work'.i = 0
  BY Texts DEF RunQuiescence, Works, Points, Releasing, With
<1>3. StepIsTrue'
  BY <1>1, <1>2 DEF StepIsTrue, RowsAwait, SightIsTrue, Waits, With, Pauses, Releasing, Arbitrating
<1>4. ClocksTyped' BY <1>1 DEF Inv, ClocksTyped
<1>. QED BY <1>1, <1>3, <1>4, WorkKeeps DEF world

LEMMA ConsiderKeeps == ASSUME Inv, Consider PROVE Inv'
<1>1. work.pc = "each" /\ UNCHANGED <<world, cursor, intents, left>>
  BY DEF Consider, At, Quietly, Still, rows
<1>2. PICK i \in work.todo :
        IF Superseded(i) \/ Releasable(i)
        THEN /\ work' = [work EXCEPT !.pc = "look", !.i = i,
                            !.kind = IF Superseded(i) THEN "attention" ELSE "release"]
             /\ UNCHANGED retry
        ELSE Pass(i)
  BY DEF Consider
<1>3. i \in Intent /\ intents[i].status = "WAITING" /\ work.todo \subseteq With("WAITING") /\ work \in Works
  BY <1>1 DEF Inv, StepIsTrue, RowsAwait, With
<1>4. CASE ~(Superseded(i) \/ Releasable(i))
  BY <1>1, <1>2, <1>3, <1>4, PassKeeps
<1>5. CASE Superseded(i) \/ Releasable(i)
  <2>1. /\ work' \in Works /\ work'.pc = "look" /\ work'.i = i /\ work'.todo = work.todo
        /\ work'.kind = IF Superseded(i) THEN "attention" ELSE "release"
    <3>1. work' = [work EXCEPT !.pc = "look", !.i = i,
                               !.kind = IF Superseded(i) THEN "attention" ELSE "release"]
      BY <1>2, <1>5, Zenon
    <3>2. i \in 0 .. NIntent BY <1>3, QuiescenceAssumption DEF Intent
    <3>. QED BY <1>3, <3>1, <3>2 DEF Works, Points, Releasing
  <2>2. work'.kind = "release" => cursor[intents[i].s].observed = intents[i].last
    BY <1>5, <2>1 DEF Releasable, AtTail
  <2>3. RowsAwait'
    BY <1>1, <1>3, <2>1
       DEF RowsAwait, Waits, With, me, Pauses, Releasing, Arbitrating
  <2>4. SightIsTrue' BY <1>1, <2>1, <2>2 DEF SightIsTrue, me
  <2>5. ClocksTyped'
    <3>1. UNCHANGED retry BY <1>2, <1>5, Zenon
    <3>. QED BY <1>1, <3>1 DEF Inv, ClocksTyped
  <2>. QED BY <1>1, <2>1, <2>3, <2>4, <2>5, WorkKeeps DEF StepIsTrue, world
<1>. QED BY <1>4, <1>5

LEMMA EndsAtTail ==
  ASSUME NEW p \in Nat, NEW n \in Nat, ~OpenTurn(p), p \div 2 = n
  PROVE p = 2 * n
  BY DEF OpenTurn

LEMMA LookKeeps == ASSUME Inv, Look PROVE Inv'
<1>1. work.pc = "look" /\ UNCHANGED <<world, cursor, intents, left>>
  BY DEF Look, At, Still, rows
<1>2. /\ work \in Works /\ work.i \in Intent /\ me.status = "WAITING"
      /\ work.todo \ {work.i} \subseteq With("WAITING")
      /\ work.kind = "release" => cursor[me.s].observed = me.last
      /\ work.kind # "recover"
  BY <1>1 DEF Inv, StepIsTrue, RowsAwait, SightIsTrue, Waits, Releasing
<1>3. CASE Pass(work.i) BY <1>1, <1>2, <1>3, PassKeeps
<1>4. CASE /\ Silent(me.s) /\ Ended(me.s) = cursor[me.s].observed
           /\ work' = [work EXCEPT !.pc = "put", !.seen = FenceOf(me.s)] /\ UNCHANGED retry
  <2>1. me.s \in Session /\ me.last \in Nat /\ disk[me.s] \in Nat
    BY <1>2, MeFacts
  <2>2. FenceOf(me.s) \in Fences /\ FenceOf(me.s).at = disk[me.s]
    BY <2>1 DEF FenceOf, Fences, Inv, WorldTyped, CursorTyped
  <2>3. work.kind = "release" => disk[me.s] = 2 * me.last
    BY <1>2, <1>4, <2>1, EndsAtTail DEF Silent, Ended
  <2>4. /\ work' \in Works /\ work'.pc = "put" /\ work'.i = work.i /\ work'.todo = work.todo
        /\ work'.kind = work.kind /\ work'.seen = FenceOf(me.s)
    BY <1>2, <1>4, <2>2 DEF Works, Points, Releasing
  <2>5. RowsAwait'
    BY <1>1, <1>2, <2>4 DEF RowsAwait, Waits, With, me, Pauses, Releasing, Arbitrating
  <2>6. SightIsTrue'
    BY <1>1, <1>2, <2>1, <2>2, <2>3, <2>4 DEF SightIsTrue, me, world
  <2>7. ClocksTyped' BY <1>1, <1>4 DEF Inv, ClocksTyped
  <2>. QED BY <1>1, <2>4, <2>5, <2>6, <2>7, WorkKeeps DEF StepIsTrue, world
<1>. QED BY <1>3, <1>4 DEF Look

LEMMA ReleaseKeeps == ASSUME Inv, Release PROVE Inv'
<1>. DEFINE row == [me EXCEPT !.status = IF work.kind = "release" THEN "READY" ELSE "ATTENTION",
                              !.fence = work.seen]
            next == IF work.kind = "release" THEN [work EXCEPT !.pc = "check"] ELSE NextStage
<1>1. work.pc = "put" /\ PutOrFail(row, next) /\ UNCHANGED <<world, cursor, left>>
  BY DEF Release, At
<1>2. /\ work \in Works /\ work.i \in Intent /\ me.status = "WAITING"
      /\ work.todo \ {work.i} \subseteq With("WAITING")
      /\ work.kind = "release" => work.seen.at = 2 * me.last /\ 2 * me.last <= disk[me.s]
      /\ work.kind # "recover"
  BY <1>1 DEF Inv, StepIsTrue, RowsAwait, SightIsTrue, Waits, Releasing
<1>3. ClocksTyped'
  <2>1. retry' = [retry EXCEPT ![work.i] = NoRetry] /\ UNCHANGED left
    BY DEF Release
  <2>2. NoRetry \in [stage : 0 .. Len(Delays), left : Nat, late : BOOLEAN]
    BY QuiescenceAssumption DEF NoRetry
  <2>. QED BY <2>1, <2>2 DEF Inv, ClocksTyped
<1>4. /\ row \in Rows /\ row.s = me.s /\ row.last = me.last /\ row.claim = me.claim
      /\ row.fence = work.seen
      /\ row.status = IF work.kind = "release" THEN "READY" ELSE "ATTENTION"
  BY <1>2, MeFacts DEF Rows, Works, Statuses
<1>5. ASSUME intents' = [intents EXCEPT ![work.i] = row], work' = next PROVE StepIsTrue'
  <2>1. CASE work.kind = "release"
    <3>1. /\ work' \in Works /\ work'.pc = "check" /\ work'.i = work.i /\ work'.todo = work.todo
          /\ work'.kind = work.kind
      BY <1>2, <1>5, <2>1 DEF Works, Points, Releasing
    <3>2. me'.status = "READY"
      BY <1>2, <1>4, <1>5, <2>1, <3>1 DEF me, Inv, RowsAreTrue
    <3>3. work.todo \ {work.i} \subseteq With("WAITING")'
      BY <1>2, <1>5 DEF With, Inv, RowsAreTrue
    <3>. QED BY <1>2, <3>1, <3>2, <3>3
         DEF StepIsTrue, RowsAwait, SightIsTrue, Waits, Pauses, Releasing, Arbitrating
  <2>2. CASE work.kind # "release"
    BY <1>5, <2>2, Texts, PauseHolds DEF NextStage, Works, Points, Pauses
  <2>. QED BY <2>1, <2>2
<1>6. me.claim.evidence.kind = "OBSERVED" => me.claim.evidence.at = 2 * me.last
  BY <1>2, MeFacts
<1>. HIDE DEF row, next
<1>. QED BY <1>1, <1>2, <1>3, <1>4, <1>5, <1>6, PutOrFailKeeps

(* A validation: the row it is about, and where it leads. *)
LEMMA ValidFacts ==
  ASSUME NEW i \in Intent, Inv, Valid(i), intents[i].status \in {"READY", "ARBITRATING"}
  PROVE disk[intents[i].s] = 2 * intents[i].last
  BY DEF Valid, FenceOf, Inv, RowsAreTrue, RowIsTrue

LEMMA ValidateKeeps ==
  ASSUME Inv, NEW miss, NEW i, NEW valid, NEW invalid, Validate(miss, i, valid, invalid),
         Valid(i) /\ work' = valid => StepIsTrue',
         work' = invalid => StepIsTrue'
  PROVE Inv'
<1>1. UNCHANGED <<world, cursor, intents, left, retry>> /\ StepIsTrue'
  BY DEF Validate, Still, rows
<1>2. ClocksTyped' BY <1>1 DEF Inv, ClocksTyped
<1>. QED BY <1>1, <1>2, WorkKeeps DEF world

LEMMA CheckKeeps == ASSUME Inv, Check PROVE Inv'
<1>1. work.pc = "check" /\ Validate("check", work.i, NextStage, Staged("back"))
  BY DEF Check, At
<1>2. UNCHANGED <<world, intents>> BY <1>1 DEF Validate, Still, rows
<1>3. ASSUME work' = NextStage PROVE StepIsTrue'
  BY <1>3, Texts, PauseHolds DEF NextStage, Works, Points, Pauses
<1>4. ASSUME work' = Staged("back") PROVE StepIsTrue'
  <2>1. work \in Works /\ RowsAwait BY DEF Inv, StepIsTrue
  <2>2. /\ work' \in Works /\ work'.pc = "back" /\ work'.i = work.i /\ work'.todo = work.todo
        /\ work'.kind = work.kind
    BY <1>4, <2>1 DEF Staged, Works, Points, Releasing
  <2>. QED BY <1>1, <1>2, <2>1, <2>2
       DEF StepIsTrue, RowsAwait, SightIsTrue, Waits, With, me, Pauses, Releasing, Arbitrating
<1>. QED BY <1>1, <1>3, <1>4, ValidateKeeps

LEMMA PutBackKeeps == ASSUME Inv, PutBack PROVE Inv'
<1>. DEFINE row == [me EXCEPT !.status = "WAITING", !.fence = NoFence]
<1>1. /\ work.pc = "back" /\ UNCHANGED <<world, cursor, left, retry>>
      /\ \/ intents' = [intents EXCEPT ![work.i] = row] /\ work' = Following(work.i)
         \/ UNCHANGED intents /\ Rest
  BY DEF PutBack, At, Put, SameRows
<1>2. /\ work.i \in Intent /\ me.status = "READY"
      /\ work.todo \ {work.i} \subseteq With("WAITING")
  BY <1>1 DEF Inv, StepIsTrue, RowsAwait, Waits, Releasing
<1>3. ClocksTyped' BY <1>1 DEF Inv, ClocksTyped
<1>4. /\ row \in Rows /\ row.s = me.s /\ row.last = me.last /\ row.claim = me.claim
      /\ row.status = "WAITING"
  BY <1>2, MeFacts, Texts DEF Rows, Statuses
<1>5. CASE intents' = [intents EXCEPT ![work.i] = row] /\ work' = Following(work.i)
  <2>1. \A j \in work.todo \ {work.i} : intents'[j].status = "WAITING"
    BY <1>2, <1>5 DEF With, Inv, RowsAreTrue
  <2>2. StepIsTrue' BY <1>5, <2>1, Follow
  <2>3. me.claim.evidence.kind = "OBSERVED" => me.claim.evidence.at = 2 * me.last
    BY <1>2, MeFacts
  <2>. HIDE DEF row
  <2>. QED BY <1>1, <1>2, <1>3, <1>4, <1>5, <2>2, <2>3, PutKeeps DEF world
<1>6. CASE UNCHANGED intents /\ Rest
  BY <1>1, <1>3, <1>6, Texts, PausedKeeps DEF Rest, Works, Points, Pauses
<1>. QED BY <1>1, <1>5, <1>6

----
(* The claim. *)

LEMMA ArbitrateKeeps == ASSUME Inv, Arbitrate PROVE Inv'
<1>1. UNCHANGED <<world, cursor, intents, left, retry>>
  BY DEF Arbitrate, Quietly, Still, rows
<1>2. ClocksTyped' BY <1>1 DEF Inv, ClocksTyped
<1>3. CASE Rest
  BY <1>1, <1>2, <1>3, Texts, PausedKeeps DEF Rest, Works, Points, Pauses
<1>4. CASE \E i \in Intent : First(i, With("READY")) /\ work' = [Resting EXCEPT !.pc = "ready", !.i = i]
  <2>1. PICK i \in Intent : intents[i].status = "READY" /\ work' = [Resting EXCEPT !.pc = "ready", !.i = i]
    BY <1>4 DEF First, With
  <2>2. /\ work' \in Works /\ work'.pc = "ready" /\ work'.i = i /\ work'.todo = {}
        /\ work'.kind = ""
    <3>1. i \in 0 .. NIntent BY QuiescenceAssumption DEF Intent
    <3>. QED BY <2>1, <3>1, Texts DEF Works, Points
  <2>3. StepIsTrue'
    BY <1>1, <2>1, <2>2
       DEF StepIsTrue, RowsAwait, SightIsTrue, Waits, me, Pauses, Releasing, Arbitrating
  <2>. QED BY <1>1, <1>2, <2>3, WorkKeeps DEF world
<1>. QED BY <1>3, <1>4 DEF Arbitrate

(* What an arbitration goes on with: the row is the same, and so are its kind and
   what is left to recover. *)
LEMMA ArbitrationStep ==
  ASSUME Inv, UNCHANGED <<intents, disk, cursor>>, work.i \in Intent, work' \in Works,
         work'.i = work.i, work'.todo = work.todo,
         work'.kind = work.kind \/ work'.kind = "missing",
         work.pc \notin Pauses,
         \/ work'.pc \in {"claim"} /\ me.status = "READY" /\ work'.kind # "recover"
         \/ work'.pc \in Arbitrating /\ me.status = "ARBITRATING"
         \/ work'.pc = "requeue" /\ me.status \in {"READY", "ARBITRATING"},
         SightIsTrue'
  PROVE StepIsTrue'
<1>1. work.kind = "recover" => work.todo \ {work.i} \subseteq With("ARBITRATING")
  BY DEF Inv, StepIsTrue, RowsAwait
<1>. QED BY <1>1
     DEF StepIsTrue, RowsAwait, Waits, With, me, Pauses, Releasing, Arbitrating

(* A validation on the way, which may send the intent back. *)
LEMMA VerifyKeeps ==
  ASSUME Inv, NEW pc, NEW valid, Verify(pc, valid), pc \notin Pauses,
         work.i \in Intent, me.status \in {"READY", "ARBITRATING"},
         Valid(work.i) /\ work' = valid => StepIsTrue'
  PROVE Inv'
<1>1. work.pc = pc /\ Validate("verify", work.i, valid, Staged("requeue"))
  BY DEF Verify, At
<1>2. UNCHANGED <<intents, disk, cursor>>
  BY <1>1 DEF Validate, Still, rows, world
<1>3. ASSUME work' = Staged("requeue") PROVE StepIsTrue'
  <2>1. /\ work' \in Works /\ work'.pc = "requeue" /\ work'.i = work.i /\ work'.todo = work.todo
        /\ work'.kind = work.kind
    BY <1>3 DEF Staged, Works, Points, Inv, StepIsTrue
  <2>. QED BY <1>1, <1>2, <2>1, ArbitrationStep DEF SightIsTrue
<1>. QED BY <1>1, <1>3, ValidateKeeps

LEMMA ReadyKeeps == ASSUME Inv, Ready PROVE Inv'
<1>1. work.pc = "ready" /\ UNCHANGED <<intents, disk, cursor>>
  BY DEF Ready, Verify, At, Validate, Still, rows, world
<1>2. work \in Works /\ work.i \in Intent /\ me.status = "READY" /\ work.kind # "recover"
  BY <1>1 DEF Inv, StepIsTrue, RowsAwait, Waits
<1>3. ASSUME work' = Staged("claim") PROVE StepIsTrue'
  <2>1. /\ work' \in Works /\ work'.pc = "claim" /\ work'.i = work.i /\ work'.todo = work.todo
        /\ work'.kind = work.kind
    BY <1>2, <1>3 DEF Staged, Works, Points
  <2>. QED BY <1>1, <1>2, <2>1, ArbitrationStep DEF SightIsTrue, Pauses
<1>. QED BY <1>2, <1>3, VerifyKeeps DEF Ready, Pauses

LEMMA ClaimKeeps == ASSUME Inv, Claim PROVE Inv'
<1>. DEFINE row == [me EXCEPT !.status = "ARBITRATING", !.claim = NoClaim]
            next == [work EXCEPT !.pc = "claimed"]
<1>1. work.pc = "claim" /\ PutOrFail(row, next) /\ UNCHANGED <<world, cursor, left, retry>>
  BY DEF Claim, At
<1>2. work \in Works /\ work.i \in Intent /\ me.status = "READY" /\ work.kind # "recover"
  BY <1>1 DEF Inv, StepIsTrue, RowsAwait, Waits
<1>3. ClocksTyped' BY <1>1 DEF Inv, ClocksTyped
<1>4. /\ row \in Rows /\ row.s = me.s /\ row.last = me.last /\ row.claim = NoClaim
      /\ row.fence = me.fence /\ row.status = "ARBITRATING"
  BY <1>2, MeFacts, Texts DEF Rows, Statuses
<1>5. ASSUME intents' = [intents EXCEPT ![work.i] = row], work' = next PROVE StepIsTrue'
  <2>1. work' \in Works /\ work'.pc = "claimed" /\ work'.i = work.i /\ work'.kind = work.kind
    BY <1>2, <1>5 DEF Works, Points, Arbitrating
  <2>2. me'.status = "ARBITRATING"
    BY <1>2, <1>4, <1>5, <2>1 DEF me, Inv, RowsAreTrue
  <2>. QED BY <1>2, <2>1, <2>2
       DEF StepIsTrue, RowsAwait, SightIsTrue, Waits, Pauses, Releasing, Arbitrating
<1>6. NoClaim.evidence.kind = "NONE" BY Texts DEF NoClaim
<1>7. me.fence.at = 2 * me.last /\ 2 * me.last <= disk[me.s]
  BY <1>2, MeFacts
<1>. HIDE DEF row, next
<1>. QED BY <1>1, <1>2, <1>3, <1>4, <1>5, <1>6, <1>7, PutOrFailKeeps

LEMMA ClaimedKeeps == ASSUME Inv, Claimed PROVE Inv'
<1>1. work.pc = "claimed" /\ UNCHANGED <<intents, disk, cursor>>
  BY DEF Claimed, Verify, At, Validate, Still, rows, world
<1>2. work \in Works /\ work.i \in Intent /\ me.status = "ARBITRATING"
  BY <1>1 DEF Inv, StepIsTrue, RowsAwait, Waits, Arbitrating
<1>3. ASSUME work' = IF InputIsWhole THEN Staged("bind")
                     ELSE [work EXCEPT !.pc = "seal", !.evidence = Unavailable, !.kind = "missing"]
      PROVE StepIsTrue'
  <2>1. /\ work' \in Works /\ work'.pc \in {"bind", "seal"} /\ work'.i = work.i /\ work'.todo = work.todo
        /\ work'.kind \in {work.kind, "missing"}
        /\ work'.pc = "seal" => work'.evidence.kind = "UNAVAILABLE"
    BY <1>2, <1>3, Texts DEF Staged, Works, Points, Arbitrating
  <2>. QED BY <1>1, <1>2, <2>1, ArbitrationStep DEF SightIsTrue, Pauses, Arbitrating
<1>. QED BY <1>2, <1>3, VerifyKeeps DEF Claimed, Pauses

LEMMA BindInputKeeps == ASSUME Inv, BindInput PROVE Inv'
<1>. DEFINE row == [me EXCEPT !.claim.bound = TRUE]
            next == [work EXCEPT !.pc = "read"]
<1>1. work.pc = "bind" /\ PutOrFail(row, next) /\ UNCHANGED <<world, cursor, left, retry>>
  BY DEF BindInput, At
<1>2. /\ work \in Works /\ work.i \in Intent /\ me.status = "ARBITRATING"
      /\ work.kind = "recover" => work.todo \ {work.i} \subseteq With("ARBITRATING")
  BY <1>1 DEF Inv, StepIsTrue, RowsAwait, Waits, Arbitrating, Pauses
<1>3. ClocksTyped' BY <1>1 DEF Inv, ClocksTyped
<1>4. /\ row \in Rows /\ row.s = me.s /\ row.last = me.last /\ row.fence = me.fence
      /\ row.claim.evidence = me.claim.evidence /\ row.status = me.status
  BY <1>2, MeFacts DEF Rows, Claims
<1>5. ASSUME intents' = [intents EXCEPT ![work.i] = row], work' = next PROVE StepIsTrue'
  <2>1. /\ work' \in Works /\ work'.pc = "read" /\ work'.i = work.i /\ work'.kind = work.kind
        /\ work'.todo = work.todo
    BY <1>2, <1>5 DEF Works, Points, Arbitrating
  <2>2. me'.status = "ARBITRATING"
    BY <1>2, <1>4, <1>5, <2>1 DEF me, Inv, RowsAreTrue
  <2>3. work.kind = "recover" => work.todo \ {work.i} \subseteq With("ARBITRATING")'
    BY <1>2, <1>5 DEF With, Inv, RowsAreTrue
  <2>. QED BY <1>2, <2>1, <2>2, <2>3
       DEF StepIsTrue, RowsAwait, SightIsTrue, Waits, Pauses, Releasing, Arbitrating
<1>6. /\ me.fence.at = 2 * me.last /\ 2 * me.last <= disk[me.s]
      /\ me.claim.evidence.kind = "OBSERVED" => me.claim.evidence.at = 2 * me.last
  BY <1>2, MeFacts
<1>. HIDE DEF row, next
<1>. QED BY <1>1, <1>2, <1>3, <1>4, <1>5, <1>6, PutOrFailKeeps

LEMMA ReadLogKeeps == ASSUME Inv, ReadLog PROVE Inv'
<1>1. /\ work.pc = "read" /\ UNCHANGED <<world, cursor, intents, left, retry>>
      /\ work' = [work EXCEPT !.pc = "capture", !.seen = FenceOf(me.s)]
  BY DEF ReadLog, At, Quietly, Still, rows
<1>2. work \in Works /\ work.i \in Intent /\ me.status = "ARBITRATING"
  BY <1>1 DEF Inv, StepIsTrue, RowsAwait, Waits, Arbitrating
<1>3. me.s \in Session /\ me.last \in Nat /\ 2 * me.last <= disk[me.s] /\ disk[me.s] \in Nat
  BY <1>2, MeFacts
<1>4. FenceOf(me.s) \in Fences /\ FenceOf(me.s).at = disk[me.s]
  BY <1>3 DEF FenceOf, Fences, Inv, WorldTyped, CursorTyped
<1>5. /\ work' \in Works /\ work'.pc = "capture" /\ work'.i = work.i /\ work'.todo = work.todo
      /\ work'.kind = work.kind /\ work'.seen = FenceOf(me.s)
  BY <1>1, <1>2, <1>4 DEF Works, Points, Arbitrating
<1>6. SightIsTrue'
  BY <1>1, <1>2, <1>3, <1>4, <1>5 DEF SightIsTrue, me, world
<1>7. StepIsTrue'
  BY <1>1, <1>2, <1>5, <1>6, ArbitrationStep DEF world, Pauses, Arbitrating
<1>8. ClocksTyped' BY <1>1 DEF Inv, ClocksTyped
<1>. QED BY <1>1, <1>7, <1>8, WorkKeeps DEF world

LEMMA CaptureSkillsKeeps == ASSUME Inv, CaptureSkills PROVE Inv'
<1>1. /\ work.pc = "capture" /\ UNCHANGED <<world, cursor, intents, left, retry>>
  BY DEF CaptureSkills, At, Quietly, Still, rows
<1>2. /\ work \in Works /\ work.i \in Intent /\ me.status = "ARBITRATING"
      /\ 2 * me.last <= work.seen.at
  BY <1>1 DEF Inv, StepIsTrue, RowsAwait, SightIsTrue, Waits, Arbitrating
<1>3. me.s \in Session /\ me.last \in Nat /\ disk[me.s] \in Nat
  BY <1>2, MeFacts
<1>4. PICK evidence \in {Unavailable} \cup
               (IF disk[me.s] # work.seen.at THEN {}
                ELSE {[kind |-> "OBSERVED", end |-> skills, at |-> disk[me.s]]}) :
          work' = [work EXCEPT !.pc = "captured", !.evidence = evidence]
  BY DEF CaptureSkills
<1>5. /\ evidence \in Evidences
      /\ evidence.kind = "OBSERVED" => evidence.at = disk[me.s] /\ disk[me.s] = work.seen.at
  <2>1. CASE evidence = Unavailable BY <2>1, Texts
  <2>2. CASE disk[me.s] = work.seen.at /\ evidence = [kind |-> "OBSERVED", end |-> skills, at |-> disk[me.s]]
    BY <2>2, <1>3 DEF Evidences, Inv, WorldTyped
  <2>. QED BY <1>4, <2>1, <2>2
<1>6. /\ work' \in Works /\ work'.pc = "captured" /\ work'.i = work.i /\ work'.todo = work.todo
      /\ work'.kind = work.kind /\ work'.evidence = evidence
  BY <1>2, <1>4, <1>5 DEF Works, Points, Arbitrating
<1>7. SightIsTrue'
  BY <1>1, <1>2, <1>3, <1>5, <1>6 DEF SightIsTrue, me, world
<1>8. StepIsTrue'
  BY <1>1, <1>2, <1>6, <1>7, ArbitrationStep DEF world, Pauses, Arbitrating
<1>9. ClocksTyped' BY <1>1 DEF Inv, ClocksTyped
<1>. QED BY <1>1, <1>8, <1>9, WorkKeeps DEF world

LEMMA CapturedKeeps == ASSUME Inv, Captured PROVE Inv'
<1>1. work.pc = "captured" /\ UNCHANGED <<intents, disk, cursor>>
  BY DEF Captured, Verify, At, Validate, Still, rows, world
<1>2. /\ work \in Works /\ work.i \in Intent /\ me.status = "ARBITRATING"
      /\ work.evidence.kind = "OBSERVED" => 2 * me.last <= work.evidence.at /\ work.evidence.at <= disk[me.s]
  BY <1>1 DEF Inv, StepIsTrue, RowsAwait, SightIsTrue, Waits, Arbitrating
<1>3. ASSUME Valid(work.i), work' = Staged("seal") PROVE StepIsTrue'
  <2>1. /\ work' \in Works /\ work'.pc = "seal" /\ work'.i = work.i /\ work'.todo = work.todo
        /\ work'.kind = work.kind /\ work'.evidence = work.evidence
    BY <1>2, <1>3 DEF Staged, Works, Points, Arbitrating
  <2>2. disk[me.s] = 2 * me.last /\ me.last \in Nat /\ work.evidence.at \in Nat
    BY <1>2, <1>3, MeFacts, ValidFacts DEF me, Works, Evidences
  <2>3. SightIsTrue' BY <1>1, <1>2, <2>1, <2>2 DEF SightIsTrue, me
  <2>. QED BY <1>1, <1>2, <2>1, <2>3, ArbitrationStep DEF Pauses, Arbitrating
<1>. QED BY <1>2, <1>3, VerifyKeeps DEF Captured, Pauses

LEMMA SealedKeeps == ASSUME Inv, Sealed PROVE Inv'
<1>1. work.pc = "sealed" /\ UNCHANGED <<intents, disk, cursor>>
  BY DEF Sealed, Verify, At, Validate, Still, rows, world
<1>2. work \in Works /\ work.i \in Intent /\ me.status = "ARBITRATING"
  BY <1>1 DEF Inv, StepIsTrue, RowsAwait, Waits, Arbitrating
<1>3. ASSUME work' = Staged("final") PROVE StepIsTrue'
  <2>1. /\ work' \in Works /\ work'.pc = "final" /\ work'.i = work.i /\ work'.todo = work.todo
        /\ work'.kind = work.kind
    BY <1>2, <1>3 DEF Staged, Works, Points, Arbitrating
  <2>. QED BY <1>1, <1>2, <2>1, ArbitrationStep DEF SightIsTrue, Pauses, Arbitrating
<1>. QED BY <1>2, <1>3, VerifyKeeps DEF Sealed, Pauses

LEMMA SealKeeps == ASSUME Inv, Seal PROVE Inv'
<1>. DEFINE row == [me EXCEPT !.claim.evidence = work.evidence]
            next == [work EXCEPT !.pc = IF work.evidence.kind = "OBSERVED" THEN "record"
                                        ELSE IF work.kind \in {"missing", "recover"} THEN "final"
                                        ELSE "sealed"]
<1>1. work.pc = "seal" /\ PutOrFail(row, next) /\ UNCHANGED <<world, cursor, left, retry>>
  BY DEF Seal, At
<1>2. /\ work \in Works /\ work.i \in Intent /\ me.status = "ARBITRATING"
      /\ work.evidence.kind = "OBSERVED" => work.evidence.at = 2 * me.last
      /\ work.kind = "recover" => work.todo \ {work.i} \subseteq With("ARBITRATING")
  BY <1>1 DEF Inv, StepIsTrue, RowsAwait, SightIsTrue, Waits, Arbitrating, Pauses
<1>3. ClocksTyped' BY <1>1 DEF Inv, ClocksTyped
<1>4. /\ row \in Rows /\ row.s = me.s /\ row.last = me.last /\ row.fence = me.fence
      /\ row.claim.evidence = work.evidence /\ row.status = me.status
  BY <1>2, MeFacts DEF Rows, Claims, Works
<1>5. ASSUME intents' = [intents EXCEPT ![work.i] = row], work' = next PROVE StepIsTrue'
  <2>1. /\ work' \in Works /\ work'.pc \in {"record", "final", "sealed"} /\ work'.i = work.i
        /\ work'.kind = work.kind /\ work'.todo = work.todo
    BY <1>2, <1>5 DEF Works, Points, Arbitrating
  <2>2. me'.status = "ARBITRATING"
    BY <1>2, <1>4, <1>5, <2>1 DEF me, Inv, RowsAreTrue
  <2>3. work.kind = "recover" => work.todo \ {work.i} \subseteq With("ARBITRATING")'
    BY <1>2, <1>5 DEF With, Inv, RowsAreTrue
  <2>. QED BY <1>2, <2>1, <2>2, <2>3
       DEF StepIsTrue, RowsAwait, SightIsTrue, Waits, Pauses, Releasing, Arbitrating
<1>6. me.fence.at = 2 * me.last /\ 2 * me.last <= disk[me.s]
  BY <1>2, MeFacts
<1>. HIDE DEF row, next
<1>. QED BY <1>1, <1>2, <1>3, <1>4, <1>5, <1>6, PutOrFailKeeps

LEMMA RecordEndKeeps == ASSUME Inv, RecordEnd PROVE Inv'
<1>1. work.pc = "record" /\ UNCHANGED <<world, cursor, intents, left, retry>>
  BY DEF RecordEnd, At
<1>2. work \in Works /\ work.i \in Intent /\ me.status = "ARBITRATING"
  BY <1>1 DEF Inv, StepIsTrue, RowsAwait, Waits, Arbitrating
<1>3. ClocksTyped' BY <1>1 DEF Inv, ClocksTyped
<1>4. CASE Aborted BY <1>1, <1>3, <1>4, Abort, PausedKeeps
<1>5. CASE work' = Staged(IF work.kind = "recover" THEN "final" ELSE "sealed")
  <2>1. /\ work' \in Works /\ work'.pc \in {"final", "sealed"} /\ work'.i = work.i
        /\ work'.kind = work.kind /\ work'.todo = work.todo
    BY <1>2, <1>5 DEF Staged, Works, Points, Arbitrating
  <2>2. StepIsTrue'
    BY <1>1, <1>2, <2>1, ArbitrationStep DEF SightIsTrue, Pauses, Arbitrating, world
  <2>. QED BY <1>1, <1>3, <2>2, WorkKeeps DEF world
<1>. QED BY <1>4, <1>5 DEF RecordEnd

----
(* The decision, the requeue and the recovery. *)

LEMMA OnwardStep ==
  ASSUME Inv, work' = Onward, work.pc \in Points \ Pauses, NEW row,
         intents' = [intents EXCEPT ![work.i] = row]
  PROVE StepIsTrue'
<1>1. CASE work.kind = "recover"
  <2>1. work \in Works /\ work.todo \ {work.i} \subseteq With("ARBITRATING")
    BY <1>1 DEF Inv, StepIsTrue, RowsAwait
  <2>2. /\ work' \in Works /\ work'.pc = "recover" /\ work'.todo = work.todo \ {work.i}
        /\ work'.kind = "recover" /\ work'.i = work.i
    BY <1>1, <2>1 DEF Onward, Works, Points
  <2>3. work'.todo \subseteq With("ARBITRATING")'
    BY <2>1, <2>2 DEF With, Inv, RowsAreTrue
  <2>. QED BY <2>2, <2>3
       DEF StepIsTrue, RowsAwait, SightIsTrue, Waits, Pauses, Releasing, Arbitrating
<1>2. CASE work.kind # "recover"
  BY <1>2, Texts, PauseHolds DEF Onward, NextStage, Works, Points, Pauses
<1>. QED BY <1>1, <1>2

LEMMA FinalizeKeeps == ASSUME Inv, Finalize PROVE Inv'
<1>. DEFINE row == [me EXCEPT !.status = Decide(work.i)]
<1>1. work.pc = "final" /\ PutOrFail(row, Onward) /\ UNCHANGED <<world, cursor, left, retry>>
  BY DEF Finalize, At
<1>2. work \in Works /\ work.i \in Intent /\ me.status = "ARBITRATING"
  BY <1>1 DEF Inv, StepIsTrue, RowsAwait, Waits, Arbitrating
<1>3. ClocksTyped' BY <1>1 DEF Inv, ClocksTyped
<1>4. /\ Decide(work.i) \in {"CONFIRM", "OWNED", "RESOLVED"}
      /\ Decide(work.i) # "CONFIRM" => me.claim.evidence.kind = "OBSERVED"
  BY DEF Decide, me
<1>5. /\ row \in Rows /\ row.s = me.s /\ row.last = me.last /\ row.claim = me.claim
      /\ row.status = Decide(work.i)
  BY <1>2, <1>4, MeFacts DEF Rows, Statuses
<1>6. me.claim.evidence.kind = "OBSERVED" => me.claim.evidence.at = 2 * me.last
  BY <1>2, MeFacts
<1>. HIDE DEF row
<1>7. ASSUME intents' = [intents EXCEPT ![work.i] = row], work' = Onward PROVE StepIsTrue'
  BY <1>1, <1>7, OnwardStep DEF Points, Pauses, Arbitrating
<1>. QED BY <1>1, <1>2, <1>3, <1>4, <1>5, <1>6, <1>7, PutOrFailKeeps

LEMMA RequeueKeeps == ASSUME Inv, Requeue PROVE Inv'
<1>. DEFINE row == Requeued(me)
<1>1. work.pc = "requeue" /\ PutOrFail(row, Onward) /\ UNCHANGED <<world, cursor, left, retry>>
  BY DEF Requeue, At
<1>2. work \in Works /\ work.i \in Intent /\ me.status \in {"READY", "ARBITRATING"}
  BY <1>1 DEF Inv, StepIsTrue, RowsAwait
<1>3. ClocksTyped' BY <1>1 DEF Inv, ClocksTyped
<1>4. /\ row \in Rows /\ row.s = me.s /\ row.last = me.last /\ row.claim = NoClaim
      /\ row.status = "WAITING"
  BY <1>2, MeFacts, Texts DEF Requeued, Rows, Statuses
<1>5. NoClaim.evidence.kind = "NONE" BY Texts DEF NoClaim
<1>. HIDE DEF row
<1>6. ASSUME intents' = [intents EXCEPT ![work.i] = row], work' = Onward PROVE StepIsTrue'
  BY <1>1, <1>6, OnwardStep DEF Points, Pauses, Arbitrating
<1>. QED BY <1>1, <1>2, <1>3, <1>4, <1>5, <1>6, PutOrFailKeeps

LEMMA StartKeeps == ASSUME Inv, Start PROVE Inv'
<1>1. /\ UNCHANGED <<world, cursor, intents, left>> /\ retry' = [i \in Intent |-> NoRetry]
      /\ work' = [Off EXCEPT !.pc = "recover", !.kind = "recover", !.todo = With("ARBITRATING")]
  BY DEF Start, rows
<1>2. ClocksTyped'
  <2>1. NoRetry \in [stage : 0 .. Len(Delays), left : Nat, late : BOOLEAN]
    BY QuiescenceAssumption DEF NoRetry
  <2>. QED BY <1>1, <2>1 DEF Inv, ClocksTyped
<1>3. /\ work' \in Works /\ work'.pc = "recover" /\ work'.kind = "recover"
      /\ work'.todo = With("ARBITRATING")
  BY <1>1, Texts DEF Works, Points, With
<1>4. StepIsTrue'
  BY <1>1, <1>3 DEF StepIsTrue, RowsAwait, SightIsTrue, Waits, With, Pauses, Releasing, Arbitrating
<1>. QED BY <1>1, <1>2, <1>4, WorkKeeps DEF world

LEMMA RecoverClaimKeeps == ASSUME Inv, RecoverClaim PROVE Inv'
<1>1. work.pc = "recover" BY DEF RecoverClaim, At
<1>2. PICK i \in work.todo :
        Validate("verify", i, [work EXCEPT !.i = i, !.evidence = Unavailable,
                                           !.pc = LeftAt(intents[i].claim.evidence.kind)],
                 [work EXCEPT !.i = i, !.pc = "requeue"])
  BY DEF RecoverClaim
<1>3. UNCHANGED <<world, cursor, intents, left, retry>>
  BY <1>2 DEF Validate, Still, rows
<1>4. /\ work \in Works /\ i \in Intent /\ intents[i].status = "ARBITRATING"
      /\ work.todo \subseteq With("ARBITRATING")
  BY <1>1 DEF Inv, StepIsTrue, RowsAwait, With
<1>5. i \in 0 .. NIntent BY <1>4, QuiescenceAssumption DEF Intent
<1>6. LeftAt(intents[i].claim.evidence.kind) \in {"seal", "record", "final"}
  BY DEF LeftAt
<1>7. ASSUME \/ work' = [work EXCEPT !.i = i, !.evidence = Unavailable,
                                     !.pc = LeftAt(intents[i].claim.evidence.kind)]
             \/ work' = [work EXCEPT !.i = i, !.pc = "requeue"]
      PROVE StepIsTrue'
  <2>1. /\ work' \in Works /\ work'.i = i /\ work'.todo = work.todo
        /\ work'.pc \in {"seal", "record", "final", "requeue"}
        /\ work'.pc = "seal" => work'.evidence.kind = "UNAVAILABLE"
    BY <1>4, <1>5, <1>6, <1>7, Texts DEF Works, Points, Arbitrating
  <2>. QED BY <1>3, <1>4, <2>1
       DEF StepIsTrue, RowsAwait, SightIsTrue, Waits, With, me, Pauses, Releasing, Arbitrating
<1>. QED BY <1>2, <1>7, ValidateKeeps

----
(* The theorems. *)

LEMMA InitHolds == Init => Inv
<1>. SUFFICES ASSUME Init PROVE Inv OBVIOUS
<1>1. WorldTyped
  BY QuiescenceAssumption DEF Init, WorldTyped, NoEvidence, Skills
<1>2. CursorTyped BY DEF Init, CursorTyped
<1>3. ClocksTyped BY QuiescenceAssumption DEF Init, ClocksTyped, NoRetry
<1>4. RowsAreTrue
  <2>1. NoClaim.evidence.kind = "NONE" BY Texts DEF NoClaim
  <2>. QED BY <2>1, EmptyRow DEF Init, RowsAreTrue, RowIsTrue
<1>5. StepIsTrue
  BY Texts DEF Init, StepIsTrue, RowsAwait, SightIsTrue, Waits, Pauses, Releasing, Arbitrating
<1>. QED BY <1>1, <1>2, <1>3, <1>4, <1>5 DEF Inv

LEMMA StutterKeeps == ASSUME Inv, UNCHANGED vars PROVE Inv'
<1>1. UNCHANGED <<mem, disk, agent, skills, cursor, intents, left, retry, work>>
  BY DEF vars, world, rows, clocks
<1>2. WorldTyped' BY <1>1 DEF Inv, WorldTyped
<1>. QED BY <1>1, <1>2, WorldKeeps DEF Inv, WorldTyped

LEMMA NextKeeps == Inv /\ [Next]_vars => Inv'
<1>. SUFFICES ASSUME Inv, [Next]_vars PROVE Inv' OBVIOUS
<1>1. CASE \E s \in Session : OfSession(s) \/ Capture(s) \/ Freeze(s)
  BY <1>1, SessionKeeps, ObserveTurnKeeps, DetectKeeps, FreezeKeeps DEF Capture
<1>2. CASE OthersEdit BY <1>2, EditKeeps
<1>3. CASE Drain
  BY <1>3, PausingKeeps, RunQuiescenceKeeps, ConsiderKeeps, LookKeeps, ReleaseKeeps, CheckKeeps,
     PutBackKeeps, ArbitrateKeeps, ReadyKeeps, ClaimKeeps, ClaimedKeeps, BindInputKeeps,
     ReadLogKeeps, CaptureSkillsKeeps, CapturedKeeps, SealKeeps, RecordEndKeeps, SealedKeeps,
     FinalizeKeeps, RequeueKeeps, StartKeeps, RecoverClaimKeeps DEF Drain
<1>4. CASE Tick \/ TimerFires BY <1>4, TimeKeeps
<1>5. CASE Crash BY <1>5, CrashKeeps
<1>6. CASE UNCHANGED vars BY <1>6, StutterKeeps
<1>. QED BY <1>1, <1>2, <1>3, <1>4, <1>5, <1>6 DEF Next

(* What the rows, the clocks and the drain have to do with the log and the cursor
   stays so at every await of the two coordinators, through crashes, recoveries,
   failed writes, failed observations and whatever a session does meanwhile. *)
THEOREM QuiescenceIsInductive == Spec => []Inv
<1>. QED BY InitHolds, NextKeeps, PTL DEF Spec

(* The logs, the cursors, the rows and the drain stay of their types: no cursor runs
   ahead of the durable log, and no intent is released without a fence. *)
THEOREM TypeCorrect == Spec => []TypeOK
<1>1. Inv => TypeOK
  <2>. SUFFICES ASSUME Inv PROVE TypeOK OBVIOUS
  <2>1. ASSUME NEW s \in Session
        PROVE /\ disk[s] \in 0 .. mem[s] /\ mem[s] \in 0 .. 2 * MaxTurn
              /\ agent[s] \in {"absent", "idle", "running"}
              /\ cursor[s].active \in 0 .. MaxTurn
              /\ cursor[s].detected <= cursor[s].observed
              /\ cursor[s].observed <= Ended(s)
              /\ left[s] \in 0 .. Idle
    BY QuiescenceAssumption DEF Inv, WorldTyped, CursorTyped, ClocksTyped, Ended
  <2>2. ASSUME NEW i \in Intent
        PROVE /\ intents[i].status \in Statuses
              /\ intents[i].status \in {"READY", "ARBITRATING"} => intents[i].fence # NoFence
              /\ retry[i].stage \in 0 .. Len(Delays)
    <3>1. intents[i] \in Rows /\ retry[i].stage \in 0 .. Len(Delays)
      BY DEF Inv, RowsAreTrue, ClocksTyped
    <3>2. intents[i].status \in {"READY", "ARBITRATING"} => intents[i].fence.at # 0
      BY QuiescenceAssumption DEF Inv, RowsAreTrue, RowIsTrue, Turn
    <3>. QED BY <3>1, <3>2 DEF Rows, NoFence
  <2>3. work.i \in 0 .. NIntent /\ work.todo \subseteq Intent
    BY DEF Inv, StepIsTrue, Works
  <2>. QED BY <2>1, <2>2, <2>3 DEF TypeOK
<1>. QED BY <1>1, QuiescenceIsInductive, PTL

(* No intent is left to Run2Skill or to the agent but on a manifest of the skills
   captured while the session was silent behind the last turn of its batch, for any
   number of sessions, turns, intents, crashes, failures and edits by others. *)
THEOREM DecidedBehindItsTurn == Spec => []DecidedInSilence
<1>1. Inv => DecidedInSilence
  BY DEF Inv, RowsAreTrue, RowIsTrue, DecidedInSilence
<1>. QED BY <1>1, QuiescenceIsInductive, PTL

====
