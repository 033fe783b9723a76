-------------------------- MODULE GenerationProofs --------------------------
(* Theorems about Generation, for every value of its constants.             *)
EXTENDS Generation, FiniteSetTheorems, WellFoundedInduction, TLAPS

----
(* Operators. *)

Before == {p \in Nat \X Nat : p[1] < p[2]}

(* A set of intents that is not empty has an earliest one. *)
LEMMA EarliestInSet ==
  ASSUME NEW S \in SUBSET Intent, S # {}
  PROVE Earliest(S) \in S
<1>1. OpToRel(<, Nat) = Before BY Zenon DEF OpToRel, Before
<1>2. IsWellFoundedOn(Before, Nat)
  BY <1>1, NatLessThanWellFounded, Zenon
<1>3. S \in SUBSET Nat BY SizesAssumption DEF Intent
<1>4. PICK i \in S : \A j \in S : ~ <<j, i>> \in Before
  BY <1>2, <1>3, WFMin, Zenon
<1>5. \A j \in S : i <= j
  <2> SUFFICES ASSUME NEW j \in S PROVE i <= j OBVIOUS
  <2>1. i \in Nat /\ j \in Nat BY <1>3
  <2>2. j < i => <<j, i>> \in Before BY <2>1, Zenon DEF Before
  <2> QED BY <2>1, <2>2, <1>4
<1> QED BY <1>5, Zenon DEF Earliest

LEMMA FirstIntent == 1 \in Intent
  BY SizesAssumption DEF Intent

LEMMA BehaviourType ==
  ASSUME NEW i \in Intent
  PROVE BehaviourOf[i] \in Behaviour
  BY BehavioursAssumption DEF Intent

(* What a lineage is: it has proposals, and its revision counts at least them. *)
LineOK(line) ==
    /\ line \in Lineage
    /\ line # NoLineage => Len(line.proposals) >= 1 /\ line.revision >= Len(line.proposals)

LEMMA NoLineageOK == LineOK(NoLineage)
  BY DEF LineOK, Lineage

LEMMA LineFields ==
  ASSUME NEW line, LineOK(line)
  PROVE  /\ line.revision \in Nat
         /\ line.proposals \in Seq(Proposal)
         /\ line = NoLineage \/
               (/\ line.state \in {"ACTIVE_PROPOSAL", "REFRESHING", "TERMINAL"}
                /\ line.owner \in Intent
                /\ Len(line.proposals) >= 1
                /\ line.revision >= Len(line.proposals)
                /\ LastOf(line) \in Proposal)
         /\ line.state # "NONE" => line # NoLineage
<1>1. CASE line = NoLineage
  <2>1. line.revision = 0 /\ line.proposals = << >> /\ line.state = "NONE"
    BY <1>1 DEF NoLineage
  <2> QED BY <1>1, <2>1
<1>2. CASE line # NoLineage
  <2>1. line \in [state : {"ACTIVE_PROPOSAL", "REFRESHING", "TERMINAL"}, revision : Nat,
                  owner : Intent, proposals : Seq(Proposal)]
    BY <1>2 DEF LineOK, Lineage
  <2>2. Len(line.proposals) >= 1 /\ line.revision >= Len(line.proposals)
    BY <1>2 DEF LineOK
  <2>3. LastOf(line) \in Proposal BY <2>1, <2>2 DEF LastOf
  <2>4. /\ line.state \in {"ACTIVE_PROPOSAL", "REFRESHING", "TERMINAL"}
        /\ line.owner \in Intent /\ line.revision \in Nat /\ line.proposals \in Seq(Proposal)
    BY <2>1
  <2> QED BY <1>2, <2>2, <2>3, <2>4, Zenon
<1> QED BY <1>1, <1>2

LEMMA LineFieldsMoved ==
  ASSUME NEW S, NEW R, NEW O, NEW P,
         NEW line \in [state : S, revision : R, owner : O, proposals : P],
         NEW s \in S, NEW r \in R, NEW p \in P
  PROVE  /\ [line EXCEPT !.state = s, !.revision = r] \in
                 [state : S, revision : R, owner : O, proposals : P]
         /\ [line EXCEPT !.state = s, !.revision = r].revision = r
         /\ [line EXCEPT !.state = s, !.revision = r].proposals = line.proposals
         /\ [line EXCEPT !.state = s, !.revision = r, !.proposals = p] \in
                 [state : S, revision : R, owner : O, proposals : P]
         /\ [line EXCEPT !.state = s, !.revision = r, !.proposals = p].revision = r
         /\ [line EXCEPT !.state = s, !.revision = r, !.proposals = p].proposals = p
  OBVIOUS

LineStates == {"ACTIVE_PROPOSAL", "REFRESHING", "TERMINAL"}
LineSet == [state : LineStates, revision : Nat, owner : Intent, proposals : Seq(Proposal)]

LEMMA LineSetOK ==
  ASSUME NEW line \in LineSet, Len(line.proposals) >= 1, line.revision >= Len(line.proposals)
  PROVE LineOK(line)
<1>1. line \in Lineage BY Zenon DEF Lineage, LineSet, LineStates
<1> QED BY <1>1, Zenon DEF LineOK

LEMMA LineInSet ==
  ASSUME NEW line, LineOK(line), line # NoLineage
  PROVE  /\ line \in LineSet
         /\ Len(line.proposals) \in Nat /\ Len(line.proposals) >= 1
         /\ line.revision \in Nat /\ line.revision >= Len(line.proposals)
<1>1. line \in LineSet BY Zenon DEF LineOK, Lineage, LineSet, LineStates
<1>2. line.proposals \in Seq(Proposal) /\ line.revision \in Nat
  BY <1>1 DEF LineSet
<1>3. Len(line.proposals) \in Nat BY <1>2
<1> QED BY <1>1, <1>2, <1>3 DEF LineOK

(* A lineage with another state, a higher revision and as many proposals. *)
LEMMA MovedLine ==
  ASSUME NEW line, LineOK(line), line # NoLineage, NEW state \in LineStates
  PROVE LineOK([line EXCEPT !.state = state, !.revision = @ + 1])
<1> DEFINE r == line.revision + 1
           new == [line EXCEPT !.state = state, !.revision = r]
<1>1. r \in Nat /\ r >= Len(line.proposals) BY LineInSet
<1>2. new \in LineSet /\ new.revision = r /\ new.proposals = line.proposals
  <2> HIDE DEF r
  <2>1. line \in LineSet BY LineInSet, Zenon
  <2> QED BY <1>1, <2>1, LineFieldsMoved, Zenon DEF LineSet
<1>3. LineOK(new)
  <2> HIDE DEF r, new
  <2> QED BY <1>1, <1>2, LineInSet, LineSetOK
<1> QED BY <1>3 DEF new, r

(* ... with another failure recorded on the last of them. *)
LEMMA MarkedLine ==
  ASSUME NEW line, LineOK(line), line # NoLineage, NEW state \in LineStates,
         NEW failure \in {"NONE", "CATALOG_CHANGED", "CATALOG_UNAVAILABLE"}
  PROVE  LineOK([line EXCEPT !.state = state, !.revision = @ + 1,
                             !.proposals[Len(line.proposals)].failure = failure])
<1> DEFINE n == Len(line.proposals)
           r == line.revision + 1
           marked == [line.proposals EXCEPT ![n].failure = failure]
           new == [line EXCEPT !.state = state, !.revision = r, !.proposals = marked]
<1>1. r \in Nat /\ r >= n /\ n \in Nat /\ n >= 1 BY LineInSet
<1>2. marked \in Seq(Proposal) /\ Len(marked) = n
  <2>1. line.proposals \in Seq(Proposal) BY LineInSet DEF LineSet
  <2> DEFINE last == [line.proposals[n] EXCEPT !.failure = failure]
  <2>2. last \in Proposal
    <3>1. line.proposals[n] \in Proposal BY <1>1, <2>1
    <3> QED BY <3>1 DEF Proposal
  <2>3. marked = [line.proposals EXCEPT ![n] = last] OBVIOUS
  <2> HIDE DEF last, n, marked
  <2>4. n = Len(line.proposals) BY DEF n
  <2> QED BY <1>1, <2>1, <2>2, <2>3, <2>4
<1>3. new \in LineSet /\ new.revision = r /\ new.proposals = marked
  <2> HIDE DEF r, marked
  <2>1. line \in LineSet BY LineInSet, Zenon
  <2> QED BY <1>1, <1>2, <2>1, LineFieldsMoved, Zenon DEF LineSet
<1>4. LineOK(new)
  <2> HIDE DEF r, new, marked, n
  <2> QED BY <1>1, <1>2, <1>3, LineSetOK
<1> QED BY <1>4 DEF new, r, marked, n

(* ... which may leave its state as it is. *)
LEMMA InspectedLine ==
  ASSUME NEW line, LineOK(line), line # NoLineage,
         NEW failure \in {"NONE", "CATALOG_CHANGED", "CATALOG_UNAVAILABLE"}
  PROVE  LineOK([line EXCEPT !.revision = @ + 1,
                             !.proposals[Len(line.proposals)].failure = failure])
<1>1. line.state \in LineStates BY LineInSet DEF LineSet
<1>2. LineOK([line EXCEPT !.state = line.state, !.revision = @ + 1,
                          !.proposals[Len(line.proposals)].failure = failure])
  BY <1>1, MarkedLine
<1>3. line = [line EXCEPT !.state = line.state] BY LineInSet DEF LineSet
<1> QED BY <1>2, <1>3

LEMMA PredecessorOK ==
  ASSUME NEW line, LineOK(line)
  PROVE LineOK(Predecessor(line))
<1> DEFINE n == Len(line.proposals)
<1>1. CASE n <= 1 BY <1>1, NoLineageOK DEF Predecessor
<1>2. CASE ~(n <= 1)
  <2> DEFINE r == line.revision - 1
             less == SubSeq(line.proposals, 1, n - 1)
             new == [line EXCEPT !.state = "REFRESHING", !.revision = r, !.proposals = less]
  <2>1. line # NoLineage BY <1>2 DEF NoLineage
  <2>2. n \in Nat /\ n > 1 /\ r \in Nat /\ r >= n - 1
    BY <1>2, <2>1, LineInSet
  <2>3. less \in Seq(Proposal) /\ Len(less) = n - 1
    <3>1. line.proposals \in Seq(Proposal)
      BY <2>1, LineInSet DEF LineSet
    <3> QED BY <2>2, <3>1
  <2>4. new \in LineSet /\ new.revision = r /\ new.proposals = less
    <3>1. "REFRESHING" \in LineStates BY DEF LineStates
    <3> HIDE DEF r, less
    <3>2. line \in LineSet BY <2>1, LineInSet, Zenon
    <3> QED BY <2>2, <2>3, <3>1, <3>2, LineFieldsMoved, Zenon DEF LineSet
  <2>5. LineOK(new)
    <3> HIDE DEF r, less, n, new
    <3> QED BY <2>2, <2>3, <2>4, LineSetOK
  <2> QED BY <1>2, <2>5 DEF Predecessor
<1> QED BY <1>1, <1>2

----
(* The inductive invariant of the types. *)

(* What a row of an intent is: a sealed result has no barrier, and what stops
   an intent is never the barrier of a refresh.                              *)
RowOK(row) ==
    /\ row \in IntentRow
    /\ row.stage \in SealedStages \cup {"READY"} => row.barrier = NoBarrier
    /\ row.stage = "ATTENTION" => row.barrier.kind # "STALE_RESULT"

DurableOK ==
    /\ global \in Global
    /\ intents \in [Intent -> IntentRow] /\ \A i \in Intent : RowOK(intents[i])
    /\ lineages \in [Behaviour -> Lineage] /\ \A b \in Behaviour : LineOK(lineages[b])

(* What the worker is: between its call and the end of the outcome mutation it
   knows an outcome.                                                         *)
CallPcs == {"forceUnknown", "terminalCall", "prepare", "commit", "finalize"}
WorkerSet == [pc : Pcs, i : Intent, fate : Fates, expect : Lineage]
WorkerOK(w) ==
    /\ w \in WorkerSet
    /\ LineOK(w.expect)
    /\ w.pc \in CallPcs => w.fate \in Failures \cup {"RESULT"}

DeskSet == [step : DeskSteps, i : Intent, again : BOOLEAN]
GlanceOK(s) == s \subseteq Glance /\ Cardinality(s) <= 1 /\ \A g \in s : g.seen # NoLineage
Modes == {"DOWN", "RECOVERING", "UP"}

TypeInv ==
    /\ DurableOK
    /\ WorkerOK(worker)
    /\ desk \in DeskSet
    /\ GlanceOK(glance)
    /\ mode \in Modes
    /\ calls \in [Intent \X Round -> Nat]
    /\ crashes \in 0 .. MaxCrashes
    /\ faults \in 0 .. MaxFaults

LEMMA TypeInvTypes == TypeInv => TypeOK
BY Zenon DEF TypeInv, TypeOK, DurableOK, WorkerOK, WorkerSet, DeskSet, GlanceOK, Modes

LEMMA IdleOK == WorkerOK(Idle)
<1>1. Idle \in WorkerSet
  <2>1. "idle" \in Pcs /\ "NONE" \in Fates /\ NoLineage \in Lineage
    BY DEF Pcs, Fates, Lineage
  <2> QED BY <2>1, FirstIntent DEF Idle, WorkerSet
<1>2. Idle.expect = NoLineage /\ Idle.pc = "idle" BY DEF Idle
<1> QED BY <1>1, <1>2, NoLineageOK DEF WorkerOK, CallPcs

(* The worker goes on to another place, with the outcome it knows. *)
LEMMA AtOK ==
  ASSUME NEW w, WorkerOK(w), NEW pc \in Pcs,
         pc \in CallPcs => w.fate \in Failures \cup {"RESULT"}
  PROVE WorkerOK([w EXCEPT !.pc = pc])
<1>1. w \in WorkerSet /\ LineOK(w.expect) BY DEF WorkerOK
<1>2. /\ [w EXCEPT !.pc = pc] \in WorkerSet
      /\ [w EXCEPT !.pc = pc].pc = pc /\ [w EXCEPT !.pc = pc].fate = w.fate
      /\ [w EXCEPT !.pc = pc].expect = w.expect
  BY <1>1 DEF WorkerSet
<1> QED BY <1>1, <1>2, Zenon DEF WorkerOK

LEMMA WithFate ==
  ASSUME NEW w, WorkerOK(w), NEW fate \in Failures \cup {"RESULT"}
  PROVE WorkerOK([w EXCEPT !.fate = fate])
<1>1. w \in WorkerSet /\ LineOK(w.expect) BY DEF WorkerOK
<1>2. fate \in Fates BY DEF Fates
<1>3. /\ [w EXCEPT !.fate = fate] \in WorkerSet
      /\ [w EXCEPT !.fate = fate].fate = fate
      /\ [w EXCEPT !.fate = fate].expect = w.expect
  BY <1>1, <1>2 DEF WorkerSet
<1> QED BY <1>1, <1>3, Zenon DEF WorkerOK

LEMMA WithExpect ==
  ASSUME NEW w, WorkerOK(w), NEW line, LineOK(line)
  PROVE WorkerOK([w EXCEPT !.expect = line])
<1>1. w \in WorkerSet /\ LineOK(w.expect) /\ line \in Lineage
  BY DEF WorkerOK, LineOK
<1>2. /\ [w EXCEPT !.expect = line] \in WorkerSet
      /\ [w EXCEPT !.expect = line].fate = w.fate /\ [w EXCEPT !.expect = line].pc = w.pc
      /\ [w EXCEPT !.expect = line].expect = line
  BY <1>1 DEF WorkerSet
<1> QED BY <1>1, <1>2, Zenon DEF WorkerOK

LEMMA WorkingOK ==
  ASSUME NEW pc \in Pcs, pc \notin CallPcs, NEW i \in Intent
  PROVE WorkerOK(Working(pc, i))
<1>1. Idle \in WorkerSet /\ LineOK(Idle.expect) BY IdleOK DEF WorkerOK
<1>2. /\ Working(pc, i) \in WorkerSet /\ Working(pc, i).pc = pc
      /\ Working(pc, i).expect = Idle.expect
  BY <1>1 DEF WorkerSet, Working
<1> QED BY <1>1, <1>2, Zenon DEF WorkerOK

(* ... or to the outcome mutation, with the outcome that recovery knows. *)
LEMMA WorkingFate ==
  ASSUME NEW pc \in Pcs, NEW i \in Intent, NEW fate \in Failures \cup {"RESULT"}
  PROVE WorkerOK([Working(pc, i) EXCEPT !.fate = fate])
<1>1. Idle \in WorkerSet /\ LineOK(Idle.expect) BY IdleOK DEF WorkerOK
<1>2. fate \in Fates BY DEF Fates
<1> DEFINE w == [Working(pc, i) EXCEPT !.fate = fate]
<1>3. w \in WorkerSet /\ w.fate = fate /\ w.expect = Idle.expect
  BY <1>1, <1>2 DEF WorkerSet, Working
<1> HIDE DEF w
<1>4. WorkerOK(w) BY <1>1, <1>3, Zenon DEF WorkerOK
<1> QED BY <1>4 DEF w

----
(* One durable write each. *)

LEMMA PutGlobalOK ==
  ASSUME DurableOK, NEW g \in Global, PutGlobal(g)
  PROVE DurableOK'
<1>1. global' = g /\ intents' = intents /\ lineages' = lineages
  BY Zenon DEF PutGlobal
<1> QED BY <1>1, Zenon DEF DurableOK

LEMMA PutIntentOK ==
  ASSUME DurableOK, NEW i \in Intent, NEW row, RowOK(row), PutIntent(i, row)
  PROVE DurableOK'
<1>1. global' = global /\ intents' = [intents EXCEPT ![i] = row] /\ lineages' = lineages
  BY Zenon DEF PutIntent
<1>2. row \in IntentRow BY Zenon DEF RowOK
<1>3. intents' \in [Intent -> IntentRow]
  BY <1>1, <1>2, Zenon DEF DurableOK
<1>4. \A j \in Intent : RowOK(intents'[j])
  <2> SUFFICES ASSUME NEW j \in Intent PROVE RowOK(intents'[j]) OBVIOUS
  <2>1. intents'[j] = IF j = i THEN row ELSE intents[j]
    BY <1>1, Zenon DEF DurableOK
  <2> QED BY <2>1, Zenon DEF DurableOK
<1> QED BY <1>1, <1>3, <1>4, Zenon DEF DurableOK, RowOK

LEMMA PutLineageOK ==
  ASSUME DurableOK, NEW b \in Behaviour, NEW line, LineOK(line), PutLineage(b, line)
  PROVE DurableOK'
<1>1. global' = global /\ intents' = intents /\ lineages' = [lineages EXCEPT ![b] = line]
  BY Zenon DEF PutLineage
<1>2. line \in Lineage BY Zenon DEF LineOK
<1>3. lineages' \in [Behaviour -> Lineage]
  BY <1>1, <1>2, Zenon DEF DurableOK
<1>4. \A c \in Behaviour : LineOK(lineages'[c])
  <2> SUFFICES ASSUME NEW c \in Behaviour PROVE LineOK(lineages'[c]) OBVIOUS
  <2>1. lineages'[c] = IF c = b THEN line ELSE lineages[c]
    BY <1>1, Zenon DEF DurableOK
  <2> QED BY <2>1, Zenon DEF DurableOK
<1> QED BY <1>1, <1>3, <1>4, Zenon DEF DurableOK, LineOK

LEMMA NothingOK == DurableOK /\ Nothing => DurableOK'
<1> SUFFICES ASSUME DurableOK, Nothing PROVE DurableOK' OBVIOUS
<1>1. global' = global /\ intents' = intents /\ lineages' = lineages
  BY Zenon DEF Nothing, durable
<1> QED BY <1>1, Zenon DEF DurableOK

(* What the durable records hold, piece by piece. *)
LEMMA GlobalFields ==
  ASSUME DurableOK
  PROVE  /\ epoch \in Nat /\ journal \in Journal /\ lease \in Lease
         /\ global.index \in [Behaviour -> Entry]
  BY DEF DurableOK, Global, epoch, journal, lease

LEMMA RowFields ==
  ASSUME DurableOK, NEW i \in Intent
  PROVE  /\ RowOK(intents[i]) /\ intents[i] \in IntentRow
         /\ intents[i].stage \in Stages /\ intents[i].round \in Round
         /\ intents[i].epoch \in Nat \cup {Unplanned} /\ intents[i].call \in Calls
         /\ intents[i].decision \in {"NONE", "AUTHORIZED", "COVERED"}
         /\ intents[i].barrier \in Barrier
         /\ intents[i].epoch + 1 \in Nat /\ intents[i].epoch + 2 \in Nat
<1>1. RowOK(intents[i]) /\ intents[i] \in IntentRow
  BY Zenon DEF DurableOK, RowOK
<1>2. /\ intents[i].stage \in Stages /\ intents[i].round \in Round
      /\ intents[i].epoch \in Nat \cup {Unplanned} /\ intents[i].call \in Calls
      /\ intents[i].decision \in {"NONE", "AUTHORIZED", "COVERED"}
      /\ intents[i].barrier \in Barrier
  <2> DEFINE D == {"NONE", "AUTHORIZED", "COVERED"}
             E == Nat \cup {Unplanned}
             N == Failures \cup {"NONE", "STALE_RESULT"}
  <2>1. intents[i] \in [stage : Stages, round : Round, epoch : E, call : Calls,
                        decision : D, reason : N, barrier : Barrier]
    BY <1>1, Zenon DEF IntentRow
  <2> HIDE DEF D, E, N
  <2>2. /\ intents[i].stage \in Stages /\ intents[i].round \in Round
        /\ intents[i].epoch \in E /\ intents[i].call \in Calls
        /\ intents[i].decision \in D /\ intents[i].barrier \in Barrier
    BY <2>1
  <2> QED BY <2>2, Zenon DEF D, E
<1>3. intents[i].epoch + 1 \in Nat /\ intents[i].epoch + 2 \in Nat
  BY <1>2 DEF Unplanned
<1> QED BY <1>1, <1>2, <1>3, Zenon

LEMMA LineOfIntent ==
  ASSUME DurableOK, NEW i \in Intent
  PROVE LineOK(Line(i))
<1>1. BehaviourOf[i] \in Behaviour BY BehaviourType
<1> QED BY <1>1, Zenon DEF DurableOK, Line

----
(* The updates of an intent's row. *)

Epochs == Nat \cup {Unplanned}
Decisions == {"NONE", "AUTHORIZED", "COVERED"}
Reasons == Failures \cup {"NONE", "STALE_RESULT"}

LEMMA RowUpdates ==
  ASSUME NEW S, NEW R, NEW E, NEW C, NEW D, NEW N, NEW B,
         NEW row \in [stage : S, round : R, epoch : E, call : C, decision : D,
                      reason : N, barrier : B]
  PROVE  /\ \A s \in S : [row EXCEPT !.stage = s] \in
               [stage : S, round : R, epoch : E, call : C, decision : D, reason : N, barrier : B]
         /\ \A s \in S : [row EXCEPT !.stage = s].stage = s
         /\ \A s \in S : [row EXCEPT !.stage = s].barrier = row.barrier
         /\ \A e \in E : [row EXCEPT !.epoch = e] \in
               [stage : S, round : R, epoch : E, call : C, decision : D, reason : N, barrier : B]
         /\ \A e \in E : [row EXCEPT !.epoch = e].stage = row.stage
         /\ \A e \in E : [row EXCEPT !.epoch = e].barrier = row.barrier
         /\ \A q \in R : [row EXCEPT !.round = q] \in
               [stage : S, round : R, epoch : E, call : C, decision : D, reason : N, barrier : B]
         /\ \A q \in R : [row EXCEPT !.round = q].stage = row.stage
         /\ \A c \in C : [row EXCEPT !.call = c] \in
               [stage : S, round : R, epoch : E, call : C, decision : D, reason : N, barrier : B]
         /\ \A c \in C : [row EXCEPT !.call = c].stage = row.stage
         /\ \A c \in C : [row EXCEPT !.call = c].barrier = row.barrier
         /\ \A d \in D : [row EXCEPT !.decision = d] \in
               [stage : S, round : R, epoch : E, call : C, decision : D, reason : N, barrier : B]
         /\ \A d \in D : [row EXCEPT !.decision = d].stage = row.stage
         /\ \A d \in D : [row EXCEPT !.decision = d].barrier = row.barrier
         /\ \A n \in N : [row EXCEPT !.reason = n] \in
               [stage : S, round : R, epoch : E, call : C, decision : D, reason : N, barrier : B]
         /\ \A n \in N : [row EXCEPT !.reason = n].stage = row.stage
         /\ \A n \in N : [row EXCEPT !.reason = n].barrier = row.barrier
         /\ \A b \in B : [row EXCEPT !.barrier = b] \in
               [stage : S, round : R, epoch : E, call : C, decision : D, reason : N, barrier : B]
         /\ \A b \in B : [row EXCEPT !.barrier = b].stage = row.stage
         /\ \A b \in B : [row EXCEPT !.barrier = b].barrier = b OBVIOUS

(* One field of a row at a time; which stages and barriers go together is left
   to the caller.                                                            *)
LEMMA RowStage ==
  ASSUME NEW row \in IntentRow, NEW s \in Stages
  PROVE  /\ [row EXCEPT !.stage = s] \in IntentRow
         /\ [row EXCEPT !.stage = s].stage = s
         /\ [row EXCEPT !.stage = s].barrier = row.barrier
<1>1. row \in [stage : Stages, round : Round, epoch : Epochs, call : Calls,
               decision : Decisions, reason : Reasons, barrier : Barrier]
  BY Zenon DEF IntentRow, Epochs, Decisions, Reasons
<1> QED BY <1>1, RowUpdates, Zenon DEF IntentRow, Epochs, Decisions, Reasons

LEMMA RowRound ==
  ASSUME NEW row \in IntentRow, NEW q \in Round
  PROVE  /\ [row EXCEPT !.round = q] \in IntentRow
         /\ [row EXCEPT !.round = q].stage = row.stage
<1>1. row \in [stage : Stages, round : Round, epoch : Epochs, call : Calls,
               decision : Decisions, reason : Reasons, barrier : Barrier]
  BY Zenon DEF IntentRow, Epochs, Decisions, Reasons
<1> QED BY <1>1, RowUpdates, Zenon DEF IntentRow, Epochs, Decisions, Reasons

LEMMA RowEpoch ==
  ASSUME NEW row \in IntentRow, NEW e \in Epochs
  PROVE  /\ [row EXCEPT !.epoch = e] \in IntentRow
         /\ [row EXCEPT !.epoch = e].stage = row.stage
         /\ [row EXCEPT !.epoch = e].barrier = row.barrier
<1>1. row \in [stage : Stages, round : Round, epoch : Epochs, call : Calls,
               decision : Decisions, reason : Reasons, barrier : Barrier]
  BY Zenon DEF IntentRow, Epochs, Decisions, Reasons
<1> QED BY <1>1, RowUpdates, Zenon DEF IntentRow, Epochs, Decisions, Reasons

LEMMA RowCall ==
  ASSUME NEW row \in IntentRow, NEW c \in Calls
  PROVE  /\ [row EXCEPT !.call = c] \in IntentRow
         /\ [row EXCEPT !.call = c].stage = row.stage
         /\ [row EXCEPT !.call = c].barrier = row.barrier
<1>1. row \in [stage : Stages, round : Round, epoch : Epochs, call : Calls,
               decision : Decisions, reason : Reasons, barrier : Barrier]
  BY Zenon DEF IntentRow, Epochs, Decisions, Reasons
<1> QED BY <1>1, RowUpdates, Zenon DEF IntentRow, Epochs, Decisions, Reasons

LEMMA RowDecision ==
  ASSUME NEW row \in IntentRow, NEW d \in Decisions
  PROVE  /\ [row EXCEPT !.decision = d] \in IntentRow
         /\ [row EXCEPT !.decision = d].stage = row.stage
         /\ [row EXCEPT !.decision = d].barrier = row.barrier
<1>1. row \in [stage : Stages, round : Round, epoch : Epochs, call : Calls,
               decision : Decisions, reason : Reasons, barrier : Barrier]
  BY Zenon DEF IntentRow, Epochs, Decisions, Reasons
<1> QED BY <1>1, RowUpdates, Zenon DEF IntentRow, Epochs, Decisions, Reasons

LEMMA RowReason ==
  ASSUME NEW row \in IntentRow, NEW n \in Reasons
  PROVE  /\ [row EXCEPT !.reason = n] \in IntentRow
         /\ [row EXCEPT !.reason = n].stage = row.stage
         /\ [row EXCEPT !.reason = n].barrier = row.barrier
<1>1. row \in [stage : Stages, round : Round, epoch : Epochs, call : Calls,
               decision : Decisions, reason : Reasons, barrier : Barrier]
  BY Zenon DEF IntentRow, Epochs, Decisions, Reasons
<1> QED BY <1>1, RowUpdates, Zenon DEF IntentRow, Epochs, Decisions, Reasons

LEMMA RowBarrier ==
  ASSUME NEW row \in IntentRow, NEW b \in Barrier
  PROVE  /\ [row EXCEPT !.barrier = b] \in IntentRow
         /\ [row EXCEPT !.barrier = b].stage = row.stage
         /\ [row EXCEPT !.barrier = b].barrier = b
<1>1. row \in [stage : Stages, round : Round, epoch : Epochs, call : Calls,
               decision : Decisions, reason : Reasons, barrier : Barrier]
  BY Zenon DEF IntentRow, Epochs, Decisions, Reasons
<1> QED BY <1>1, RowUpdates, Zenon DEF IntentRow, Epochs, Decisions, Reasons

(* Stages that say nothing about the barrier. *)
PlainStages == Stages \ (SealedStages \cup {"READY", "ATTENTION"})

LEMMA PlainRow ==
  ASSUME NEW row \in IntentRow, row.stage \in PlainStages
  PROVE RowOK(row)
  BY Zenon DEF RowOK, PlainStages

LEMMA PlainNames ==
  /\ {"WAITING", "RECALLING", "COVERAGE", "COVERED", "AUTHORIZED", "LEASED", "CALL_RESERVED",
      "CALL_TERMINAL", "PRECALL", "DISCARDED"} \subseteq PlainStages
  /\ PlainStages \subseteq Stages
  /\ SealedStages \cup {"READY", "ATTENTION"} \subseteq Stages
  /\ "NONE" \in Calls /\ "NONE" \in Decisions /\ "NONE" \in Reasons /\ NoBarrier \in Barrier
  /\ Failures \subseteq Reasons /\ "STALE_RESULT" \in Reasons
<1>1. /\ {"WAITING", "RECALLING", "COVERAGE", "COVERED", "AUTHORIZED", "LEASED", "CALL_RESERVED",
          "CALL_TERMINAL", "PRECALL", "DISCARDED"} \subseteq PlainStages
      /\ PlainStages \subseteq Stages
      /\ SealedStages \cup {"READY", "ATTENTION"} \subseteq Stages
  BY DEF PlainStages, Stages, SealedStages
<1>2. "NONE" \in Calls /\ "NONE" \in Decisions /\ "NONE" \in Reasons /\ NoBarrier \in Barrier
  BY DEF Calls, Decisions, Reasons, Barrier
<1>3. Failures \subseteq Reasons /\ "STALE_RESULT" \in Reasons
  BY DEF Reasons
<1> QED BY <1>1, <1>2, <1>3, Zenon

LEMMA StageOK ==
  ASSUME NEW row \in IntentRow, NEW s \in PlainStages
  PROVE RowOK([row EXCEPT !.stage = s])
<1>1. s \in Stages BY PlainNames, Zenon
<1> QED BY <1>1, RowStage, PlainRow, Zenon

LEMMA StageCallOK ==
  ASSUME NEW row \in IntentRow, NEW s \in PlainStages, NEW c \in Calls
  PROVE RowOK([row EXCEPT !.stage = s, !.call = c])
<1>1. s \in Stages BY PlainNames, Zenon
<1> DEFINE r == [row EXCEPT !.stage = s]
<1>2. r \in IntentRow /\ r.stage = s BY <1>1, RowStage, Zenon
<1>3. [r EXCEPT !.call = c] \in IntentRow /\ [r EXCEPT !.call = c].stage = s
  <2> HIDE DEF r
  <2> QED BY <1>2, RowCall, Zenon
<1>4. RowOK([r EXCEPT !.call = c]) BY <1>3, PlainRow, Zenon
<1> QED BY <1>4

LEMMA StageDecisionOK ==
  ASSUME NEW row \in IntentRow, NEW s \in PlainStages, NEW d \in Decisions
  PROVE RowOK([row EXCEPT !.stage = s, !.decision = d])
<1>1. s \in Stages BY PlainNames, Zenon
<1> DEFINE r == [row EXCEPT !.stage = s]
<1>2. r \in IntentRow /\ r.stage = s BY <1>1, RowStage, Zenon
<1>3. [r EXCEPT !.decision = d] \in IntentRow /\ [r EXCEPT !.decision = d].stage = s
  <2> HIDE DEF r
  <2> QED BY <1>2, RowDecision, Zenon
<1>4. RowOK([r EXCEPT !.decision = d]) BY <1>3, PlainRow, Zenon
<1> QED BY <1>4

LEMMA PreCallOK ==
  ASSUME NEW row \in IntentRow
  PROVE RowOK(PreCall(row))
<1> DEFINE r == [row EXCEPT !.stage = "PRECALL", !.call = "NONE"]
           q == [r EXCEPT !.decision = "NONE"]
<1>1. "PRECALL" \in PlainStages /\ "PRECALL" \in Stages /\ "NONE" \in Calls /\ "NONE" \in Decisions
  BY PlainNames, Zenon
<1>2. r \in IntentRow /\ r.stage = "PRECALL"
  <2> DEFINE t == [row EXCEPT !.stage = "PRECALL"]
  <2>1. t \in IntentRow /\ t.stage = "PRECALL" BY <1>1, RowStage, Zenon
  <2>2. [t EXCEPT !.call = "NONE"] \in IntentRow /\ [t EXCEPT !.call = "NONE"].stage = "PRECALL"
    <3> HIDE DEF t
    <3> QED BY <1>1, <2>1, RowCall, Zenon
  <2> QED BY <2>2
<1>3. q \in IntentRow /\ q.stage = "PRECALL"
  <2> HIDE DEF r
  <2> QED BY <1>1, <1>2, RowDecision, Zenon
<1>4. RowOK(q)
  <2> HIDE DEF q
  <2> QED BY <1>1, <1>3, PlainRow, Zenon
<1>5. PreCall(row) = q BY DEF PreCall
<1> QED BY <1>4, <1>5, Zenon

LEMMA DismissedOK ==
  ASSUME NEW row \in IntentRow
  PROVE  RowOK([row EXCEPT !.stage = "DISCARDED", !.call = "NONE", !.reason = "NONE",
                           !.barrier = NoBarrier])
<1> DEFINE r1 == [row EXCEPT !.stage = "DISCARDED"]
           r2 == [r1 EXCEPT !.call = "NONE"]
           r3 == [r2 EXCEPT !.reason = "NONE"]
           r4 == [r3 EXCEPT !.barrier = NoBarrier]
<1>1. /\ "DISCARDED" \in PlainStages /\ "DISCARDED" \in Stages
      /\ "NONE" \in Calls /\ "NONE" \in Reasons /\ NoBarrier \in Barrier
  BY PlainNames, Zenon
<1>2. r1 \in IntentRow /\ r1.stage = "DISCARDED"
  BY <1>1, RowStage, Zenon
<1>3. r2 \in IntentRow /\ r2.stage = "DISCARDED"
  <2> HIDE DEF r1
  <2> QED BY <1>1, <1>2, RowCall, Zenon
<1>4. r3 \in IntentRow /\ r3.stage = "DISCARDED"
  <2> HIDE DEF r2
  <2> QED BY <1>1, <1>3, RowReason, Zenon
<1>5. r4 \in IntentRow /\ r4.stage = "DISCARDED"
  <2> HIDE DEF r3
  <2> QED BY <1>1, <1>4, RowBarrier, Zenon
<1>6. RowOK(r4)
  <2> HIDE DEF r4
  <2> QED BY <1>1, <1>5, PlainRow, Zenon
<1> QED BY <1>6

(* A sealed row moves to another sealed stage. *)
LEMMA SealedOK ==
  ASSUME NEW row \in IntentRow, row.barrier = NoBarrier, NEW s \in SealedStages \cup {"READY"}
  PROVE RowOK([row EXCEPT !.stage = s])
<1>1. s \in Stages /\ s # "ATTENTION" BY DEF Stages, SealedStages
<1>2. /\ [row EXCEPT !.stage = s] \in IntentRow /\ [row EXCEPT !.stage = s].stage = s
      /\ [row EXCEPT !.stage = s].barrier = NoBarrier
  BY <1>1, RowStage, Zenon
<1> QED BY <1>1, <1>2, Zenon DEF RowOK

LEMMA ResultOK ==
  ASSUME NEW row \in IntentRow
  PROVE RowOK([row EXCEPT !.stage = "RESULT_COMMITTED", !.barrier = NoBarrier])
<1> DEFINE r1 == [row EXCEPT !.stage = "RESULT_COMMITTED"]
           r2 == [r1 EXCEPT !.barrier = NoBarrier]
<1>1. "RESULT_COMMITTED" \in Stages /\ NoBarrier \in Barrier
  BY DEF Stages, SealedStages, Barrier
<1>2. r1 \in IntentRow /\ r1.stage = "RESULT_COMMITTED"
  BY <1>1, RowStage, Zenon
<1>3. r2 \in IntentRow /\ r2.stage = "RESULT_COMMITTED" /\ r2.barrier = NoBarrier
  <2> HIDE DEF r1
  <2> QED BY <1>1, <1>2, RowBarrier, Zenon
<1>4. RowOK(r2)
  <2> HIDE DEF r2
  <2> QED BY <1>3, Zenon DEF RowOK
<1> QED BY <1>4

LEMMA FailureOK ==
  ASSUME NEW row \in IntentRow, NEW fate \in Failures, NEW at \in Nat
  PROVE  RowOK([row EXCEPT !.stage = "ATTENTION", !.reason = fate,
                           !.barrier = [kind |-> fate, at |-> at]])
<1> DEFINE bar == [kind |-> fate, at |-> at]
           r1 == [row EXCEPT !.stage = "ATTENTION"]
           r2 == [r1 EXCEPT !.reason = fate]
           r3 == [r2 EXCEPT !.barrier = bar]
<1>1. /\ "ATTENTION" \in Stages /\ fate \in Reasons /\ bar \in Barrier /\ bar.kind = fate
      /\ fate # "STALE_RESULT"
  BY DEF Stages, Reasons, Barrier, Failures
<1>2. r1 \in IntentRow /\ r1.stage = "ATTENTION"
  BY <1>1, RowStage, Zenon
<1>3. r2 \in IntentRow /\ r2.stage = "ATTENTION"
  <2> HIDE DEF r1
  <2> QED BY <1>1, <1>2, RowReason, Zenon
<1>4. r3 \in IntentRow /\ r3.stage = "ATTENTION" /\ r3.barrier = bar
  <2> HIDE DEF r2, bar
  <2> QED BY <1>1, <1>3, RowBarrier, Zenon
<1>5. "ATTENTION" \notin SealedStages \cup {"READY"} BY DEF SealedStages
<1>6. RowOK(r3)
  <2> HIDE DEF r3, bar
  <2> QED BY <1>1, <1>4, <1>5, Zenon DEF RowOK
<1> QED BY <1>6

LEMMA StaleOK ==
  ASSUME NEW row \in IntentRow, row.barrier = NoBarrier
  PROVE RowOK([row EXCEPT !.stage = "ATTENTION", !.reason = "STALE_RESULT"])
<1> DEFINE r1 == [row EXCEPT !.stage = "ATTENTION"]
           r2 == [r1 EXCEPT !.reason = "STALE_RESULT"]
<1>1. /\ "ATTENTION" \in Stages /\ "STALE_RESULT" \in Reasons /\ NoBarrier.kind # "STALE_RESULT"
  BY DEF Stages, Reasons, NoBarrier
<1>2. r1 \in IntentRow /\ r1.stage = "ATTENTION" /\ r1.barrier = NoBarrier
  BY <1>1, RowStage, Zenon
<1>3. r2 \in IntentRow /\ r2.stage = "ATTENTION" /\ r2.barrier = NoBarrier
  <2> HIDE DEF r1
  <2> QED BY <1>1, <1>2, RowReason, Zenon
<1>4. RowOK(r2)
  <2> HIDE DEF r2
  <2> QED BY <1>1, <1>3, Zenon DEF RowOK
<1> QED BY <1>4

LEMMA NewIntentOK == NewIntent \in IntentRow /\ RowOK(NewIntent)
<1>1. NewIntent \in IntentRow /\ NewIntent.stage = "WAITING"
  BY DEF NewIntent, IntentRow, Stages, Round, Calls, Barrier, Unplanned
<1>2. "WAITING" \in PlainStages BY PlainNames, Zenon
<1> QED BY <1>1, <1>2, PlainRow, Zenon

LEMMA StartedOverOK ==
  ASSUME DurableOK
  PROVE RowOK(StartedOver)
<1>1. epoch + 1 \in Nat BY GlobalFields
<1>2. StartedOver \in IntentRow /\ StartedOver.stage = "RECALLING"
  <2> DEFINE bar == [kind |-> "STALE_RESULT", at |-> epoch + 1]
             r1 == [NewIntent EXCEPT !.stage = "RECALLING"]
             r == [r1 EXCEPT !.round = 2]
  <2>1. bar \in Barrier BY <1>1 DEF Barrier
  <2>2. r \in IntentRow /\ r.stage = "RECALLING"
    <3>1. "RECALLING" \in Stages /\ 2 \in Round BY DEF Stages, Round
    <3>2. r1 \in IntentRow /\ r1.stage = "RECALLING"
      BY <3>1, NewIntentOK, RowStage, Zenon
    <3> HIDE DEF r1
    <3> QED BY <3>1, <3>2, RowRound, Zenon
  <2>3. StartedOver = [r EXCEPT !.barrier = bar]
    BY DEF StartedOver, NewIntent
  <2> HIDE DEF r, bar
  <2> QED BY <2>1, <2>2, <2>3, RowBarrier, Zenon
<1>3. "RECALLING" \in PlainStages BY PlainNames, Zenon
<1> QED BY <1>2, <1>3, PlainRow, Zenon

----
(* The updates of the global record. *)

Indexes == [Behaviour -> Entry]

LEMMA GlobalUpdates ==
  ASSUME NEW E, NEW J, NEW L, NEW X,
         NEW g \in [epoch : E, journal : J, lease : L, index : X]
  PROVE  /\ \A e \in E : [g EXCEPT !.epoch = e] \in [epoch : E, journal : J, lease : L, index : X]
         /\ \A j \in J : [g EXCEPT !.journal = j] \in [epoch : E, journal : J, lease : L, index : X]
         /\ \A l \in L : [g EXCEPT !.lease = l] \in [epoch : E, journal : J, lease : L, index : X]
         /\ \A x \in X : [g EXCEPT !.index = x] \in [epoch : E, journal : J, lease : L, index : X]
  OBVIOUS

LEMMA GlobalField ==
  ASSUME NEW g \in Global
  PROVE  /\ \A e \in Nat : [g EXCEPT !.epoch = e] \in Global
         /\ \A j \in Journal : [g EXCEPT !.journal = j] \in Global
         /\ \A l \in Lease : [g EXCEPT !.lease = l] \in Global
         /\ \A x \in Indexes : [g EXCEPT !.index = x] \in Global
         /\ g.epoch \in Nat /\ g.journal \in Journal /\ g.lease \in Lease /\ g.index \in Indexes
<1>1. g \in [epoch : Nat, journal : Journal, lease : Lease, index : Indexes]
  BY Zenon DEF Global, Indexes
<1>2. g.epoch \in Nat /\ g.journal \in Journal /\ g.lease \in Lease /\ g.index \in Indexes
  BY <1>1
<1> QED BY <1>1, <1>2, GlobalUpdates, Zenon DEF Global, Indexes

LEMMA Nones == NoJournal \in Journal /\ NoLease \in Lease /\ NoEntry \in Entry
  BY DEF Journal, Lease, Entry

LEMMA JournalSetOK ==
  ASSUME DurableOK, NEW j \in Journal
  PROVE [global EXCEPT !.journal = j] \in Global
  BY GlobalField, Zenon DEF DurableOK

LEMMA LeaseSetOK ==
  ASSUME DurableOK, NEW l \in Lease
  PROVE [global EXCEPT !.lease = l] \in Global
  BY GlobalField, Zenon DEF DurableOK

LEMMA IndexSetOK ==
  ASSUME DurableOK, NEW x \in Indexes
  PROVE [global EXCEPT !.index = x] \in Global
  BY GlobalField, Zenon DEF DurableOK

LEMMA AdvancedOK == DurableOK => Advanced \in Global
<1> SUFFICES ASSUME DurableOK PROVE Advanced \in Global OBVIOUS
<1> DEFINE e == global.epoch + 1
           g == [global EXCEPT !.epoch = e]
<1>1. e \in Nat BY GlobalField DEF DurableOK
<1>2. g \in Global
  <2> HIDE DEF e
  <2> QED BY <1>1, GlobalField, Zenon DEF DurableOK
<1>3. [g EXCEPT !.journal = NoJournal] \in Global
  <2> HIDE DEF g
  <2> QED BY <1>2, GlobalField, Nones, Zenon
<1>4. Advanced = [g EXCEPT !.journal = NoJournal] BY DEF Advanced
<1> QED BY <1>3, <1>4, Zenon

LEMMA ReleasedOK == DurableOK => Released \in Global
  BY LeaseSetOK, Nones, Zenon DEF Released

(* The lease of a held generation moves to another state. *)
LeaseStates == {"NOT_CALLED", "CALL_RESERVED"} \cup ResultStates \cup BodyStates

LEMMA LeaseMoves ==
  ASSUME NEW l \in Lease, l # NoLease, NEW s \in LeaseStates
  PROVE [l EXCEPT !.state = s] \in Lease
<1>1. l \in [state : LeaseStates, i : Intent, round : Round, epoch : Nat]
  BY Zenon DEF Lease, LeaseStates
<1>2. [l EXCEPT !.state = s] \in [state : LeaseStates, i : Intent, round : Round, epoch : Nat]
  <2> HIDE DEF LeaseStates
  <2> QED BY <1>1
<1> QED BY <1>2, Zenon DEF Lease, LeaseStates

LEMMA HeldLease ==
  ASSUME DurableOK, lease # NoLease
  PROVE  /\ lease.i \in Intent /\ lease.round \in Round
         /\ lease.epoch \in Nat /\ lease.state \in LeaseStates
<1>1. lease \in [state : LeaseStates, i : Intent, round : Round, epoch : Nat]
  BY GlobalFields, Zenon DEF Lease, LeaseStates
<1> QED BY <1>1

LEMMA NoLeaseFields == NoLease.state = "NONE" /\ NoLease.i = 0
  BY DEF NoLease

LEMMA EntryMoves ==
  ASSUME NEW e \in Entry, e.owner \in Intent, NEW s \in {"RESERVED", "ACTIVE"}
  PROVE [e EXCEPT !.state = s] \in Entry
<1>1. e # NoEntry BY SizesAssumption DEF NoEntry, Intent
<1> QED BY <1>1 DEF Entry

LEMMA UnreservedOK ==
  ASSUME NEW e \in Entry, NEW i
  PROVE Unreserved(e, i) \in Entry
  BY Nones, Zenon DEF Unreserved

(* The journals that are prepared. *)
LEMMA OwnOK ==
  ASSUME DurableOK, NEW i \in Intent
  PROVE Own(i) \in Owner
<1>1. intents[i].round \in Round BY RowFields, Zenon
<1> QED BY <1>1 DEF Own, Owner, Round

LEMMA JournalOK ==
  ASSUME NEW kind \in {"GENERATION_RESULT", "BARRIER", "PROPOSAL", "USER_ACTION", "REVIEW"},
         NEW owner \in Owner, NEW at \in Nat
  PROVE [kind |-> kind, owner |-> owner, at |-> at] \in Journal
  BY DEF Journal

LEMMA LastOwnerOK ==
  ASSUME NEW line, LineOK(line), line # NoLineage
  PROVE LastOwner(line) \in Owner
<1>1. line.owner \in Intent /\ LastOf(line) \in Proposal
  BY LineFields, Zenon
<1>2. LastOf(line).round \in Round BY <1>1 DEF Proposal
<1> QED BY <1>1, <1>2 DEF LastOwner, Owner, Round

(* The body that an authorized intent builds. *)
LEMMA BuiltOK ==
  ASSUME DurableOK, NEW i \in Intent
  PROVE LineOK(Built(i))
<1> DEFINE prior == Line(i)
           round == intents[i].round
           at == intents[i].epoch + 2
           proposal == [round |-> round, at |-> at, failure |-> "NONE"]
           revision == prior.revision + 1
           proposals == Append(prior.proposals, proposal)
           fresh == [state |-> "ACTIVE_PROPOSAL", revision |-> revision, owner |-> i,
                     proposals |-> proposals]
<1>1. LineOK(prior) BY LineOfIntent, Zenon
<1>2. round \in Round /\ at \in Nat BY RowFields, Zenon
<1>3. proposal \in Proposal
  <2> HIDE DEF round, at
  <2> QED BY <1>2 DEF Proposal
<1>4. prior.revision \in Nat /\ prior.proposals \in Seq(Proposal)
  BY <1>1, LineFields, Zenon
<1>5. prior.revision >= Len(prior.proposals)
  <2>1. CASE prior = NoLineage
    <3>1. prior.revision = 0 /\ Len(prior.proposals) = 0
      BY <2>1 DEF NoLineage
    <3> QED BY <3>1
  <2>2. CASE prior # NoLineage BY <2>2, <1>1, LineFields
  <2> QED BY <2>1, <2>2
<1>6. /\ proposals \in Seq(Proposal) /\ Len(proposals) = Len(prior.proposals) + 1
      /\ revision \in Nat /\ Len(prior.proposals) \in Nat
  <2> HIDE DEF proposal, prior
  <2> QED BY <1>3, <1>4
<1>7. Len(proposals) >= 1 /\ revision >= Len(proposals)
  <2> HIDE DEF proposals, prior
  <2> QED BY <1>4, <1>5, <1>6
<1>8. /\ fresh \in LineSet /\ fresh.proposals = proposals /\ fresh.revision = revision
  <2> HIDE DEF proposals, revision
  <2> QED BY <1>6 DEF LineSet, LineStates
<1>9. LineOK(fresh)
  <2> HIDE DEF proposals, revision, fresh
  <2> QED BY <1>7, <1>8, LineSetOK
<1>10. Built(i) \in {fresh, NoLineage, prior} BY Zenon DEF Built
<1> HIDE DEF fresh, prior
<1> QED BY <1>1, <1>9, <1>10, NoLineageOK, Zenon

----
(* What the steps do to the process: the worker moves to w, or its write
   throws and it is idle again.                                              *)

Counted == faults < MaxFaults /\ faults' = faults + 1
Moves(w) == (Go(w) /\ UNCHANGED faults) \/ (Counted /\ Thrown)
Tries(w) == (Go(w) /\ UNCHANGED faults) \/ (Counted /\ Go(At("failed")))

LEMMA CountedOK ==
  ASSUME faults \in 0 .. MaxFaults, Counted \/ faults' = faults
  PROVE faults' \in 0 .. MaxFaults
  BY SizesAssumption DEF Counted

LEMMA GoOK ==
  ASSUME TypeInv, DurableOK', NEW w, WorkerOK(w), Go(w), faults' \in 0 .. MaxFaults
  PROVE TypeInv'
<1>1. worker' = w /\ mode' \in Modes BY Zenon DEF TypeInv, Go, Modes
<1>2. WorkerOK(worker') BY <1>1, Zenon
<1>3. UNCHANGED <<desk, glance, calls, crashes>> BY Zenon DEF Go
<1> QED BY <1>1, <1>2, <1>3, Zenon DEF TypeInv, WorkerOK, GlanceOK

LEMMA ThrownOK ==
  ASSUME TypeInv, DurableOK', Thrown, faults' \in 0 .. MaxFaults
  PROVE TypeInv'
<1>1. worker' = Idle /\ mode' \in Modes
  BY Zenon DEF TypeInv, Thrown, Modes
<1>2. WorkerOK(worker') BY <1>1, IdleOK, Zenon
<1>3. UNCHANGED <<desk, glance, calls, crashes>> BY Zenon DEF Thrown
<1> QED BY <1>1, <1>2, <1>3, Zenon DEF TypeInv, WorkerOK, GlanceOK

LEMMA MovesOK ==
  ASSUME TypeInv, DurableOK', NEW w, WorkerOK(w), Moves(w)
  PROVE TypeInv'
<1>1. faults' \in 0 .. MaxFaults
  <2>1. Counted \/ faults' = faults BY Zenon DEF Moves
  <2> QED BY <2>1, CountedOK, Zenon DEF TypeInv
<1>2. CASE Go(w) BY <1>1, <1>2, GoOK, Zenon
<1>3. CASE Thrown BY <1>1, <1>3, ThrownOK, Zenon
<1> QED BY <1>2, <1>3, Zenon DEF Moves

LEMMA AtFailed ==
  ASSUME TypeInv
  PROVE WorkerOK(At("failed"))
<1>1. "failed" \in Pcs /\ "failed" \notin CallPcs BY DEF Pcs, CallPcs
<1>2. WorkerOK(worker) BY Zenon DEF TypeInv
<1> QED BY <1>1, <1>2, AtOK, Zenon DEF At

LEMMA TriesOK ==
  ASSUME TypeInv, DurableOK', NEW w, WorkerOK(w), Tries(w)
  PROVE TypeInv'
<1>1. faults' \in 0 .. MaxFaults
  <2>1. Counted \/ faults' = faults BY Zenon DEF Tries
  <2> QED BY <2>1, CountedOK, Zenon DEF TypeInv
<1>2. CASE Go(w) BY <1>1, <1>2, GoOK, Zenon
<1>3. CASE Go(At("failed")) BY <1>1, <1>3, AtFailed, GoOK, Zenon
<1> QED BY <1>2, <1>3, Zenon DEF Tries

(* The places the worker goes to that are not of the outcome mutation. *)
FreePcs == Pcs \ CallPcs

LEMMA FreeNames ==
  /\ {"idle", "start", "strand", "strandReset", "bind", "beforeCall",
      "releasePreCall", "resetPreCall", "markReserved", "reserveCall", "generate"} \subseteq FreePcs
  /\ {"fence", "revalidate", "authorizeIntent", "authorizeLease", "prepareProposal",
      "putLineage", "markBody", "finalizeBody", "failed", "rollback", "abandon",
      "abandonRetry", "markStale", "releaseStale", "activate", "indexActive",
      "complete"} \subseteq FreePcs
  /\ CallPcs \subseteq Pcs
<1>1. {"idle", "start", "strand", "strandReset", "bind", "beforeCall",
       "releasePreCall", "resetPreCall", "markReserved", "reserveCall", "generate"} \subseteq FreePcs
  BY DEF FreePcs, Pcs, CallPcs
<1>2. {"fence", "revalidate", "authorizeIntent", "authorizeLease", "prepareProposal",
       "putLineage", "markBody", "finalizeBody", "failed", "rollback", "abandon",
       "abandonRetry", "markStale", "releaseStale", "activate", "indexActive",
       "complete"} \subseteq FreePcs
  BY DEF FreePcs, Pcs, CallPcs
<1>3. CallPcs \subseteq Pcs BY DEF Pcs, CallPcs
<1> QED BY <1>1, <1>2, <1>3, Zenon

LEMMA FreeAt ==
  ASSUME TypeInv, NEW pc \in FreePcs
  PROVE WorkerOK(At(pc))
  BY AtOK, Zenon DEF TypeInv, FreePcs, At

LEMMA FreeWorking ==
  ASSUME NEW pc \in FreePcs, NEW i \in Intent
  PROVE WorkerOK(Working(pc, i))
  BY WorkingOK, Zenon DEF FreePcs

LEMMA CallAt ==
  ASSUME TypeInv, worker.pc \in CallPcs, NEW pc \in CallPcs
  PROVE WorkerOK(At(pc))
<1>1. WorkerOK(worker) BY Zenon DEF TypeInv
<1>2. worker.fate \in Failures \cup {"RESULT"}
  BY <1>1, Zenon DEF WorkerOK
<1> QED BY <1>1, <1>2, AtOK, FreeNames, Zenon DEF At

LEMMA MeOK ==
  ASSUME TypeInv
  PROVE  /\ me \in Intent /\ BehaviourOf[me] \in Behaviour
         /\ RowOK(mine) /\ mine \in IntentRow /\ LineOK(Line(me)) /\ LineOK(worker.expect)
         /\ WorkerOK(worker)
<1>1. WorkerOK(worker) /\ DurableOK BY Zenon DEF TypeInv
<1>2. worker.i \in Intent /\ LineOK(worker.expect)
  BY <1>1 DEF WorkerOK, WorkerSet
<1> QED BY <1>1, <1>2, BehaviourType, RowFields, LineOfIntent, Zenon DEF me, mine

(* A step of the worker that writes nothing, or the row of its intent. *)
LEMMA SkipOK ==
  ASSUME TypeInv, NEW w, WorkerOK(w), Skip(w)
  PROVE TypeInv'
<1>1. Nothing /\ Moves(w) BY Zenon DEF Skip, Moves
<1>2. DurableOK' BY <1>1, NothingOK, Zenon DEF TypeInv
<1> QED BY <1>1, <1>2, MovesOK, Zenon

LEMMA IntentStep ==
  ASSUME TypeInv, NEW w, WorkerOK(w), NEW i \in Intent, NEW row, RowOK(row),
         PutIntent(i, row) \/ Nothing, Moves(w)
  PROVE TypeInv'
<1>1. DurableOK' BY PutIntentOK, NothingOK, Zenon DEF TypeInv
<1> QED BY <1>1, MovesOK, Zenon

LEMMA GlobalStep ==
  ASSUME TypeInv, NEW w, WorkerOK(w), NEW g \in Global, PutGlobal(g) \/ Nothing, Moves(w)
  PROVE TypeInv'
<1>1. DurableOK' BY PutGlobalOK, NothingOK, Zenon DEF TypeInv
<1> QED BY <1>1, MovesOK, Zenon

LEMMA LineageStep ==
  ASSUME TypeInv, NEW w, WorkerOK(w), NEW b \in Behaviour, NEW line, LineOK(line),
         PutLineage(b, line) \/ Nothing, Moves(w)
  PROVE TypeInv'
<1>1. DurableOK' BY PutLineageOK, NothingOK, Zenon DEF TypeInv
<1> QED BY <1>1, MovesOK, Zenon

LEMMA DoneOK ==
  ASSUME TypeInv, NEW i \in Intent, NEW row, RowOK(row), Done(PutIntent(i, row))
  PROVE TypeInv'
<1>1. PutIntent(i, row) BY Zenon DEF Done
<1>2. UNCHANGED <<mode, worker, desk, glance, calls, crashes, faults>>
  BY Zenon DEF Done
<1>3. DurableOK' BY <1>1, PutIntentOK, Zenon DEF TypeInv
<1> QED BY <1>2, <1>3, Zenon DEF TypeInv, WorkerOK, GlanceOK

----
(* The stages before generation. *)

LEMMA EarliestIn ==
  ASSUME NEW stage, InStage(stage) # {}
  PROVE Earliest(InStage(stage)) \in Intent
<1>1. InStage(stage) \in SUBSET Intent BY Zenon DEF InStage
<1> QED BY <1>1, EarliestInSet, Zenon

LEMMA ClaimType ==
  ASSUME TypeInv, NEW i \in Intent, Claim(i)
  PROVE TypeInv'
<1>1. RowOK([intents[i] EXCEPT !.stage = "RECALLING"])
  BY RowFields, StageOK, PlainNames, Zenon DEF TypeInv
<1> QED BY <1>1, DoneOK, Zenon DEF Claim

LEMMA PlanRecallType ==
  ASSUME TypeInv, PlanRecall
  PROVE TypeInv'
<1> DEFINE i == Earliest(InStage("RECALLING"))
           row == IF CatalogComplete THEN [intents[i] EXCEPT !.epoch = epoch]
                                     ELSE PreCall(intents[i])
<1>1. i \in Intent BY EarliestIn, Zenon DEF PlanRecall
<1>2. intents[i] \in IntentRow /\ RowOK(intents[i]) /\ epoch \in Epochs
  BY <1>1, RowFields, GlobalFields, Zenon DEF TypeInv, Epochs
<1>3. RowOK([intents[i] EXCEPT !.epoch = epoch])
  <2>1. /\ [intents[i] EXCEPT !.epoch = epoch] \in IntentRow
        /\ [intents[i] EXCEPT !.epoch = epoch].stage = intents[i].stage
        /\ [intents[i] EXCEPT !.epoch = epoch].barrier = intents[i].barrier
    BY <1>2, RowEpoch, Zenon
  <2> QED BY <1>2, <2>1, Zenon DEF RowOK
<1>4. RowOK(row) BY <1>2, <1>3, PreCallOK, Zenon
<1>5. Done(PutIntent(i, row)) BY Zenon DEF PlanRecall
<1> HIDE DEF i, row
<1> QED BY <1>1, <1>4, <1>5, DoneOK, Zenon

LEMMA EndRecallType ==
  ASSUME TypeInv, EndRecall
  PROVE TypeInv'
<1> DEFINE i == Earliest(InStage("RECALLING"))
<1>1. i \in Intent BY EarliestIn, Zenon DEF EndRecall
<1>2. intents[i] \in IntentRow BY <1>1, RowFields, Zenon DEF TypeInv
<1>3. RowOK([intents[i] EXCEPT !.stage = "COVERAGE"]) /\ RowOK(PreCall(intents[i]))
  BY <1>2, StageOK, PlainNames, PreCallOK, Zenon
<1>4. \/ Done(PutIntent(i, [intents[i] EXCEPT !.stage = "COVERAGE"]))
      \/ Done(PutIntent(i, PreCall(intents[i])))
  BY Zenon DEF EndRecall
<1> HIDE DEF i
<1> QED BY <1>1, <1>3, <1>4, DoneOK, Zenon

LEMMA ClassifyType ==
  ASSUME TypeInv, Classify
  PROVE TypeInv'
<1> DEFINE i == Earliest(InStage("COVERAGE"))
<1>1. i \in Intent BY EarliestIn, Zenon DEF Classify, Covering
<1>2. intents[i] \in IntentRow /\ RowOK(intents[i])
  BY <1>1, RowFields, Zenon DEF TypeInv
<1>3. PICK outcome \in CoverageOutcomes :
          Done(PutIntent(i, IF outcome = "ATTENTION" \/ ~CatalogIs(i)
                            THEN PreCall(intents[i])
                            ELSE [intents[i] EXCEPT !.decision = outcome]))
  BY Zenon DEF Classify
<1>4. CASE outcome = "ATTENTION" \/ ~CatalogIs(i)
  <2>1. Done(PutIntent(i, PreCall(intents[i]))) BY <1>3, <1>4
  <2> HIDE DEF i
  <2> QED BY <1>1, <1>2, <2>1, PreCallOK, DoneOK, Zenon
<1>5. CASE ~(outcome = "ATTENTION" \/ ~CatalogIs(i))
  <2> DEFINE row == [intents[i] EXCEPT !.decision = outcome]
  <2>1. outcome \in Decisions BY <1>5, OutcomesAssumption DEF Decisions
  <2>2. row \in IntentRow /\ row.stage = intents[i].stage /\ row.barrier = intents[i].barrier
    BY <1>2, <2>1, RowDecision, Zenon
  <2>3. RowOK(row)
    <3> HIDE DEF row
    <3> QED BY <1>2, <2>2, Zenon DEF RowOK
  <2>4. Done(PutIntent(i, row)) BY <1>3, <1>5
  <2> HIDE DEF i, row
  <2> QED BY <1>1, <2>3, <2>4, DoneOK, Zenon
<1> QED BY <1>4, <1>5, Zenon

LEMMA AggregateType ==
  ASSUME TypeInv, Aggregate
  PROVE TypeInv'
<1> DEFINE i == Earliest(InStage("COVERAGE"))
           row == [intents[i] EXCEPT !.stage = intents[i].decision, !.decision = "NONE"]
<1>1. i \in Intent BY EarliestIn, Zenon DEF Aggregate, Covering
<1>2. intents[i] \in IntentRow BY <1>1, RowFields, Zenon DEF TypeInv
<1>3. intents[i].decision \in {"AUTHORIZED", "COVERED"}
  <2>1. intents[i].decision # "NONE" BY Zenon DEF Aggregate
  <2>2. intents[i].decision \in {"NONE", "AUTHORIZED", "COVERED"}
    BY <1>1, RowFields, Zenon DEF TypeInv
  <2> QED BY <2>1, <2>2, Zenon
<1>4. intents[i].decision \in PlainStages BY <1>3, PlainNames, Zenon
<1>5. RowOK(row) BY <1>2, <1>4, PlainNames, StageDecisionOK, Zenon
<1>6. Done(PutIntent(i, row)) \/ Done(PutIntent(i, PreCall(intents[i])))
  BY Zenon DEF Aggregate
<1> HIDE DEF i, row
<1> QED BY <1>1, <1>2, <1>5, <1>6, PreCallOK, DoneOK, Zenon

----
(* Acquiring the lease and the model call. *)

LEMMA CandidateOK ==
  ASSUME CanAcquire
  PROVE Candidate \in Intent
<1>1. InStage("AUTHORIZED") # {} BY Zenon DEF CanAcquire
<1>2. Earliest(InStage("AUTHORIZED")) \in Intent
  BY <1>1, EarliestIn, Zenon
<1> QED BY <1>2, Zenon DEF Candidate, InStage

LEMMA AcquireType ==
  ASSUME TypeInv, Acquire
  PROVE TypeInv'
<1> DEFINE i == Candidate
           b == BehaviourOf[i]
           e == [owner |-> i, state |-> "RESERVED"]
           x == [global.index EXCEPT ![b] = e]
           l == [state |-> "NOT_CALLED", i |-> i, round |-> intents[i].round, epoch |-> epoch]
           g == [global EXCEPT !.index = x]
<1>1. i \in Intent /\ b \in Behaviour
  BY CandidateOK, BehaviourType, Zenon DEF Acquire
<1>2. x \in Indexes
  <2>1. e \in Entry
    <3> HIDE DEF i
    <3> QED BY <1>1 DEF Entry
  <2>2. global.index \in Indexes
    BY GlobalFields, Zenon DEF Indexes, TypeInv
  <2> HIDE DEF e, b
  <2> QED BY <1>1, <2>1, <2>2, Zenon DEF Indexes
<1>3. l \in Lease
  <2>1. intents[i].round \in Round /\ epoch \in Nat
    BY <1>1, RowFields, GlobalFields, Zenon DEF TypeInv
  <2> HIDE DEF i
  <2> QED BY <1>1, <2>1 DEF Lease
<1>4. g \in Global
  <2> HIDE DEF x
  <2> QED BY <1>2, IndexSetOK, Zenon DEF TypeInv
<1>5. [g EXCEPT !.lease = l] \in Global
  <2> HIDE DEF g, l
  <2> QED BY <1>3, <1>4, GlobalField, Zenon
<1>6. WorkerOK(Working("bind", i))
  <2> HIDE DEF i
  <2> QED BY <1>1, FreeWorking, FreeNames, Zenon
<1>7. [g EXCEPT !.lease = l] =
         [global EXCEPT !.index[BehaviourOf[i]] = [owner |-> i, state |-> "RESERVED"],
                        !.lease = [state |-> "NOT_CALLED", i |-> i,
                                   round |-> intents[i].round, epoch |-> epoch]] OBVIOUS
<1>8. /\ PutGlobal([global EXCEPT
                      !.index[BehaviourOf[i]] = [owner |-> i, state |-> "RESERVED"],
                      !.lease = [state |-> "NOT_CALLED", i |-> i,
                                 round |-> intents[i].round, epoch |-> epoch]]) \/ Nothing
      /\ Moves(Working("bind", i))
  BY Zenon DEF Acquire, Step, Fault, Moves, Counted
<1>9. PutGlobal([g EXCEPT !.lease = l]) \/ Nothing BY <1>7, <1>8
<1> HIDE DEF i, g, l
<1> QED BY <1>5, <1>6, <1>8, <1>9, GlobalStep, Zenon

LEMMA AcquireAgainType ==
  ASSUME TypeInv, AcquireAgain
  PROVE TypeInv'
<1>1. Skip(Working("bind", Candidate)) /\ CanAcquire
  BY Zenon DEF AcquireAgain
<1>2. WorkerOK(Working("bind", Candidate))
  BY <1>1, CandidateOK, FreeWorking, FreeNames, Zenon
<1> QED BY <1>1, <1>2, SkipOK, Zenon

LEMMA RefuseType ==
  ASSUME TypeInv, Refuse
  PROVE TypeInv'
<1>1. Candidate \in Intent BY CandidateOK, Zenon DEF Refuse
<1>2. RowOK(PreCall(intents[Candidate]))
  BY <1>1, RowFields, PreCallOK, Zenon DEF TypeInv
<1>3. (PutIntent(Candidate, PreCall(intents[Candidate])) \/ Nothing) /\ Moves(Idle)
  BY Zenon DEF Refuse, Step, Fault, Moves, Counted
<1> QED BY <1>1, <1>2, <1>3, IdleOK, IntentStep, Zenon

LEMMA BindType ==
  ASSUME TypeInv, Bind
  PROVE TypeInv'
<1>1. RowOK([mine EXCEPT !.stage = "LEASED"])
  BY MeOK, StageOK, PlainNames, Zenon
<1>2. (PutIntent(me, [mine EXCEPT !.stage = "LEASED"]) \/ Nothing) /\ Moves(At("beforeCall"))
  BY Zenon DEF Bind, Step, Fault, Moves, Counted
<1> QED BY <1>1, <1>2, MeOK, FreeAt, FreeNames, IntentStep, Zenon

LEMMA BeforeCallType ==
  ASSUME TypeInv, BeforeCall
  PROVE TypeInv'
<1>1. Skip(At("markReserved")) \/ Skip(At("releasePreCall"))
  BY Zenon DEF BeforeCall
<1> QED BY <1>1, FreeAt, FreeNames, SkipOK, Zenon

(* Taking an intent's reservation back, or giving the whole index a new look. *)
LEMMA UnreservedAt ==
  ASSUME DurableOK, NEW b \in Behaviour, NEW i
  PROVE [global.index EXCEPT ![b] = Unreserved(@, i)] \in Indexes
<1>1. global.index \in Indexes /\ global.index[b] \in Entry
  BY GlobalFields, Zenon DEF Indexes
<1>2. Unreserved(global.index[b], i) \in Entry
  BY <1>1, UnreservedOK, Zenon
<1> QED BY <1>1, <1>2, Zenon DEF Indexes

LEMMA ReleasePreCallType ==
  ASSUME TypeInv, ReleasePreCall
  PROVE TypeInv'
<1> DEFINE x == [global.index EXCEPT ![BehaviourOf[me]] = Unreserved(@, me)]
           g == [Released EXCEPT !.index = x]
<1>1. DurableOK BY Zenon DEF TypeInv
<1>2. g \in Global
  <2>1. x \in Indexes BY <1>1, MeOK, UnreservedAt, Zenon
  <2> HIDE DEF x
  <2> QED BY <1>1, <2>1, ReleasedOK, GlobalField, Zenon
<1>3. Released.index = global.index
  BY <1>1 DEF Released, DurableOK, Global
<1>4. g = [Released EXCEPT !.index[BehaviourOf[me]] = Unreserved(@, me)]
  BY <1>3
<1>5. CASE HoldsLease(me) /\ lease.state = "NOT_CALLED"
  <2>1. /\ PutGlobal([Released EXCEPT !.index[BehaviourOf[me]] = Unreserved(@, me)]) \/ Nothing
        /\ Moves(At("resetPreCall"))
    BY <1>5, Zenon DEF ReleasePreCall, Step, Fault, Moves, Counted
  <2>2. PutGlobal(g) \/ Nothing BY <1>4, <2>1
  <2> HIDE DEF g
  <2> QED BY <1>2, <2>1, <2>2, FreeAt, FreeNames, GlobalStep, Zenon
<1>6. CASE ~(HoldsLease(me) /\ lease.state = "NOT_CALLED")
  <2>1. Skip(Idle) BY <1>6, Zenon DEF ReleasePreCall
  <2> QED BY <2>1, IdleOK, SkipOK, Zenon
<1> QED BY <1>5, <1>6, Zenon

LEMMA ResetOK ==
  ASSUME TypeInv, NEW w, WorkerOK(w), Reset(w)
  PROVE TypeInv'
<1>1. RowOK(PreCall(mine)) BY MeOK, PreCallOK, Zenon
<1>2. (PutIntent(me, PreCall(mine)) \/ Nothing) /\ Moves(w)
  BY Zenon DEF Reset, Step, Fault, Moves, Counted
<1> QED BY <1>1, <1>2, MeOK, IntentStep, Zenon

LEMMA ResetPreCallType ==
  ASSUME TypeInv, ResetPreCall
  PROVE TypeInv'
  BY IdleOK, ResetOK, Zenon DEF ResetPreCall

(* A lease that is held moves to another state. *)
LEMMA LeaseStateOK ==
  ASSUME DurableOK, lease # NoLease, NEW s \in LeaseStates
  PROVE [global EXCEPT !.lease.state = s] \in Global
<1> DEFINE l == [lease EXCEPT !.state = s]
<1>1. l \in Lease BY GlobalFields, LeaseMoves, Zenon
<1>2. [global EXCEPT !.lease = l] \in Global
  <2> HIDE DEF l
  <2> QED BY <1>1, LeaseSetOK, Zenon
<1>3. [global EXCEPT !.lease = l] = [global EXCEPT !.lease.state = s]
  BY DEF lease
<1> QED BY <1>2, <1>3

LEMMA LeaseNames ==
  /\ {"NOT_CALLED", "CALL_RESERVED"} \cup ResultStates \cup BodyStates \subseteq LeaseStates
  /\ ResultStates = {"RESULT_COMMITTED", "PROPOSAL_COMMIT_AUTHORIZED"}
  /\ BodyStates = {"BODY_COMMITTED_INDEX_PENDING", "ACTIVE_COMPLETE"}
  /\ NoLease.state \notin LeaseStates
  BY DEF LeaseStates, ResultStates, BodyStates, NoLease

LEMMA MarkReservedType ==
  ASSUME TypeInv, MarkReserved
  PROVE TypeInv'
<1>1. CASE HoldsLease(me) /\ lease.state = "NOT_CALLED" /\ journal = NoJournal
  <2>1. lease # NoLease BY <1>1, LeaseNames, Zenon
  <2>2. [global EXCEPT !.lease.state = "CALL_RESERVED"] \in Global
    BY <2>1, LeaseNames, LeaseStateOK, Zenon DEF TypeInv
  <2>3. /\ PutGlobal([global EXCEPT !.lease.state = "CALL_RESERVED"]) \/ Nothing
        /\ Moves(At("reserveCall"))
    BY <1>1, Zenon DEF MarkReserved, Step, Fault, Moves, Counted
  <2> QED BY <2>2, <2>3, FreeAt, FreeNames, GlobalStep, Zenon
<1>2. CASE ~(HoldsLease(me) /\ lease.state = "NOT_CALLED" /\ journal = NoJournal)
  <2>1. Skip(Idle) BY <1>2, Zenon DEF MarkReserved
  <2> QED BY <2>1, IdleOK, SkipOK, Zenon
<1> QED BY <1>1, <1>2, Zenon

LEMMA ReserveCallType ==
  ASSUME TypeInv, ReserveCall
  PROVE TypeInv'
<1>1. "RESERVED" \in Calls BY DEF Calls
<1>2. RowOK([mine EXCEPT !.stage = "CALL_RESERVED", !.call = "RESERVED"])
  BY <1>1, MeOK, StageCallOK, PlainNames, Zenon
<1>3. /\ PutIntent(me, [mine EXCEPT !.stage = "CALL_RESERVED", !.call = "RESERVED"]) \/ Nothing
      /\ Moves(At("generate"))
  BY Zenon DEF ReserveCall, Step, Fault, Moves, Counted
<1> QED BY <1>2, <1>3, MeOK, FreeAt, FreeNames, IntentStep, Zenon

LEMMA TerminalCallType ==
  ASSUME TypeInv, TerminalCall
  PROVE TypeInv'
<1> DEFINE c == IF worker.fate = "KNOWN_FAILED" THEN "FAILED" ELSE "SUCCEEDED"
<1>1. c \in Calls BY DEF Calls
<1>2. RowOK([mine EXCEPT !.stage = "CALL_TERMINAL", !.call = c])
  <2> HIDE DEF c
  <2> QED BY <1>1, MeOK, StageCallOK, PlainNames, Zenon
<1>3. /\ PutIntent(me, [mine EXCEPT !.stage = "CALL_TERMINAL", !.call = c]) \/ Nothing
      /\ Moves(At("prepare"))
  BY Zenon DEF TerminalCall, Step, Fault, Moves, Counted
<1>4. WorkerOK(At("prepare"))
  <2>1. "prepare" \in CallPcs /\ "terminalCall" \in CallPcs
    BY DEF CallPcs
  <2> QED BY <2>1, CallAt, Zenon DEF TerminalCall
<1> HIDE DEF c
<1> QED BY <1>2, <1>3, <1>4, MeOK, IntentStep, Zenon

LEMMA GenerateType ==
  ASSUME TypeInv, Generate
  PROVE TypeInv'
<1>1. PICK outcome \in CallOutcomes :
          worker' = [At("terminalCall") EXCEPT
                       !.fate = CASE outcome = "VALID" -> "RESULT"
                                  [] outcome = "INVALID" -> "RESULT_LOST"
                                  [] outcome = "FAILED" -> "KNOWN_FAILED"]
  BY Zenon DEF Generate
<1> DEFINE fate == CASE outcome = "VALID" -> "RESULT"
                     [] outcome = "INVALID" -> "RESULT_LOST"
                     [] outcome = "FAILED" -> "KNOWN_FAILED"
<1>2. fate \in Failures \cup {"RESULT"}
  BY OutcomesAssumption DEF Failures
<1>3. WorkerOK(worker')
  <2> DEFINE w == [worker EXCEPT !.fate = fate]
  <2>1. WorkerOK(w)
    <3> HIDE DEF fate
    <3> QED BY <1>2, MeOK, WithFate, Zenon
  <2>2. w.fate = fate
    <3>1. worker \in WorkerSet BY MeOK, Zenon DEF WorkerOK
    <3> HIDE DEF fate
    <3> QED BY <3>1 DEF WorkerSet
  <2>3. WorkerOK([w EXCEPT !.pc = "terminalCall"])
    <3>1. "terminalCall" \in Pcs BY DEF Pcs
    <3> HIDE DEF w, fate
    <3> QED BY <1>2, <2>1, <2>2, <3>1, AtOK, Zenon
  <2>4. worker' = [w EXCEPT !.pc = "terminalCall"]
    <3>1. worker' = [At("terminalCall") EXCEPT !.fate = fate]
      BY <1>1, Zenon
    <3> HIDE DEF fate
    <3> QED BY <3>1 DEF At
  <2> HIDE DEF w
  <2> QED BY <2>3, <2>4, Zenon
<1>4. UNCHANGED <<durable, mode, desk, glance, crashes, faults>>
  BY Zenon DEF Generate
<1>5. DurableOK' BY <1>4, NothingOK, Zenon DEF Nothing, TypeInv
<1>6. calls' \in [Intent \X Round -> Nat]
  <2>1. calls' = [calls EXCEPT ![Own(me)] = @ + 1] BY Zenon DEF Generate
  <2>2. calls \in [Intent \X Round -> Nat] BY Zenon DEF TypeInv
  <2>3. Own(me) \in Intent \X Round
    <3>1. intents[me].round \in Round /\ me \in Intent
      BY MeOK, RowFields, Zenon DEF TypeInv
    <3> QED BY <3>1, Zenon DEF Own
  <2> QED BY <2>1, <2>2, <2>3
<1> QED BY <1>3, <1>4, <1>5, <1>6, Zenon DEF TypeInv, GlanceOK

----
(* The outcome mutation. *)

LEMMA CallNames == {"forceUnknown", "terminalCall", "prepare", "commit", "finalize"} = CallPcs
  BY DEF CallPcs

(* A journal is prepared, the rest of the global record stays. *)
LEMMA Journalled ==
  ASSUME DurableOK, NEW owner \in Owner, NEW at \in Nat,
         NEW kind \in {"GENERATION_RESULT", "BARRIER", "PROPOSAL", "USER_ACTION", "REVIEW"}
  PROVE [global EXCEPT !.journal = [kind |-> kind, owner |-> owner, at |-> at]] \in Global
  BY JournalOK, JournalSetOK, Zenon

LEMMA Unjournalled ==
  ASSUME DurableOK
  PROVE [global EXCEPT !.journal = NoJournal] \in Global
  BY Nones, JournalSetOK, Zenon

LEMMA PrepareOutcomeType ==
  ASSUME TypeInv, PrepareOutcome
  PROVE TypeInv'
<1> DEFINE g == [global EXCEPT !.journal = [kind |-> OutcomeKind, owner |-> Own(me), at |-> epoch]]
<1>1. g \in Global
  <2>1. OutcomeKind \in {"GENERATION_RESULT", "BARRIER", "PROPOSAL", "USER_ACTION", "REVIEW"}
    BY Zenon DEF OutcomeKind
  <2>2. Own(me) \in Owner /\ epoch \in Nat
    BY MeOK, OwnOK, GlobalFields, Zenon DEF TypeInv
  <2> QED BY <2>1, <2>2, Journalled, Zenon DEF TypeInv
<1>2. Skip(Idle) \/ ((PutGlobal(g) \/ Nothing) /\ Moves(At("commit")))
  BY Zenon DEF PrepareOutcome, Step, Fault, Moves, Counted
<1>3. WorkerOK(At("commit"))
  BY CallAt, CallNames, Zenon DEF PrepareOutcome
<1> HIDE DEF g
<1> QED BY <1>1, <1>2, <1>3, IdleOK, SkipOK, GlobalStep, Zenon

LEMMA CommitOutcomeType ==
  ASSUME TypeInv, CommitOutcome
  PROVE TypeInv'
<1> DEFINE sealed == [mine EXCEPT !.stage = "RESULT_COMMITTED", !.barrier = NoBarrier]
           at == mine.epoch + 1
           stopped == [mine EXCEPT !.stage = "ATTENTION", !.reason = worker.fate,
                                   !.barrier = [kind |-> worker.fate, at |-> at]]
<1>1. RowOK(sealed) BY MeOK, ResultOK, Zenon
<1>2. worker.fate # "RESULT" => RowOK(stopped)
  <2> SUFFICES ASSUME worker.fate # "RESULT" PROVE RowOK(stopped) OBVIOUS
  <2>1. worker.pc \in CallPcs BY CallNames, Zenon DEF CommitOutcome
  <2>2. worker.fate \in Failures BY <2>1, MeOK, Zenon DEF WorkerOK
  <2>3. at \in Nat BY MeOK, RowFields, Zenon DEF TypeInv, mine
  <2> HIDE DEF at
  <2> QED BY <2>2, <2>3, MeOK, FailureOK, Zenon
<1>3. /\ \/ PutIntent(me, IF worker.fate = "RESULT" THEN sealed ELSE stopped)
         \/ Nothing
      /\ Moves(At("finalize"))
  BY Zenon DEF CommitOutcome, Step, Fault, Moves, Counted
<1>4. WorkerOK(At("finalize"))
  BY CallAt, CallNames, Zenon DEF CommitOutcome
<1>5. RowOK(IF worker.fate = "RESULT" THEN sealed ELSE stopped)
  <2> HIDE DEF sealed, stopped
  <2> QED BY <1>1, <1>2, Zenon
<1> HIDE DEF sealed, stopped
<1> QED BY <1>3, <1>4, <1>5, MeOK, IntentStep, Zenon

(* The lease of an advanced catalog is another one. *)
LEMMA AdvancedLease ==
  ASSUME DurableOK, NEW l \in Lease
  PROVE [Advanced EXCEPT !.lease = l] \in Global
  BY AdvancedOK, GlobalField, Zenon

LEMMA AdvancedFields ==
  ASSUME DurableOK
  PROVE  /\ Advanced.lease = lease /\ Advanced.index = global.index
         /\ Advanced.epoch = epoch + 1 /\ Advanced.journal = NoJournal
  BY DEF DurableOK, Global, Advanced, lease, epoch

LEMMA FinalizeOutcomeType ==
  ASSUME TypeInv, FinalizeOutcome
  PROVE TypeInv'
<1> DEFINE next == IF worker.fate = "RESULT" /\ mode = "UP" THEN At("fence") ELSE Idle
           l == IF worker.fate = "RESULT" THEN [lease EXCEPT !.state = "RESULT_COMMITTED"]
                                          ELSE NoLease
<1>1. WorkerOK(next) BY IdleOK, FreeAt, FreeNames, Zenon
<1>2. CASE ~(HoldsLease(me) /\ epoch = mine.epoch /\ JournalIs(OutcomeKind, Own(me)))
  <2>1. Skip(next) BY <1>2, Zenon DEF FinalizeOutcome
  <2> HIDE DEF next
  <2> QED BY <1>1, <2>1, SkipOK, Zenon
<1>3. CASE HoldsLease(me) /\ epoch = mine.epoch /\ JournalIs(OutcomeKind, Own(me))
  <2>1. lease # NoLease
    <3>1. lease.i = me BY <1>3, Zenon DEF HoldsLease
    <3>2. me # 0 BY MeOK, SizesAssumption DEF Intent
    <3> QED BY <3>1, <3>2, NoLeaseFields, Zenon
  <2>2. l \in Lease
    BY <2>1, GlobalFields, LeaseMoves, LeaseNames, Nones, Zenon DEF TypeInv
  <2>3. [Advanced EXCEPT !.lease = l] \in Global
    <3> HIDE DEF l
    <3> QED BY <2>2, AdvancedLease, Zenon DEF TypeInv
  <2>4. [Advanced EXCEPT !.lease = l] =
           [Advanced EXCEPT !.lease = IF worker.fate = "RESULT"
                                      THEN [@ EXCEPT !.state = "RESULT_COMMITTED"] ELSE NoLease]
    <3>1. Advanced.lease = lease BY AdvancedFields, Zenon DEF TypeInv
    <3> QED BY <3>1
  <2>5. /\ \/ PutGlobal([Advanced EXCEPT
                         !.lease = IF worker.fate = "RESULT"
                                   THEN [@ EXCEPT !.state = "RESULT_COMMITTED"] ELSE NoLease])
           \/ Nothing
        /\ Moves(next)
    BY <1>3, Zenon DEF FinalizeOutcome, Step, Fault, Moves, Counted
  <2>6. PutGlobal([Advanced EXCEPT !.lease = l]) \/ Nothing
    BY <2>4, <2>5
  <2> HIDE DEF l, next
  <2> QED BY <1>1, <2>3, <2>5, <2>6, GlobalStep, Zenon
<1> QED BY <1>2, <1>3, Zenon

LEMMA FenceResultType ==
  ASSUME TypeInv, FenceResult
  PROVE TypeInv'
  BY IdleOK, FreeAt, FreeNames, SkipOK, Zenon DEF FenceResult

LEMMA MarkStaleType ==
  ASSUME TypeInv, MarkStale
  PROVE TypeInv'
<1> DEFINE row == [mine EXCEPT !.stage = "ATTENTION", !.reason = "STALE_RESULT"]
<1>1. Moves(At("releaseStale")) /\ WorkerOK(At("releaseStale"))
  BY FreeAt, FreeNames, Zenon DEF MarkStale, Step, Fault, Moves, Counted
<1>2. CASE mine.stage \in SealedStages
  <2>1. RowOK(row)
    <3>1. mine.barrier = NoBarrier BY <1>2, MeOK, Zenon DEF RowOK
    <3> QED BY <3>1, MeOK, StaleOK, Zenon
  <2>2. PutIntent(me, row) \/ Nothing
    BY <1>2, Zenon DEF MarkStale, Step, Fault
  <2> HIDE DEF row
  <2> QED BY <1>1, <2>1, <2>2, MeOK, IntentStep, Zenon
<1>3. CASE mine.stage \notin SealedStages
  <2>1. Nothing BY <1>3, Zenon DEF MarkStale, Step, Fault
  <2> QED BY <1>1, <2>1, MeOK, IntentStep, Zenon
<1> QED BY <1>2, <1>3, Zenon

LEMMA ReleaseStaleType ==
  ASSUME TypeInv, ReleaseStale
  PROVE TypeInv'
<1>1. (PutGlobal(Released) \/ Nothing) /\ Moves(Idle)
  BY Zenon DEF ReleaseStale, Step, Fault, Moves, Counted
<1> QED BY <1>1, IdleOK, ReleasedOK, GlobalStep, Zenon DEF TypeInv

----
(* From a sealed result to an active proposal. *)

LEMMA SettleOK ==
  ASSUME DurableOK, NEW i \in Intent
  PROVE WorkerOK(Settle(i))
<1>1. WorkerOK(Working("markStale", i)) /\ WorkerOK(Working("revalidate", i))
      /\ WorkerOK(Working("activate", i)) /\ WorkerOK(Working("rollback", i))
  BY FreeWorking, FreeNames, Zenon
<1>2. WorkerOK([Working("rollback", i) EXCEPT !.expect = Built(i)])
  BY <1>1, BuiltOK, WithExpect, Zenon
<1> QED BY <1>1, <1>2, Zenon DEF Settle

LEMMA RecoverPreparedOK ==
  ASSUME DurableOK, NEW i \in Intent
  PROVE WorkerOK(RecoverPrepared(i))
<1>1. WorkerOK(Working("abandon", i)) /\ WorkerOK(Working("abandonRetry", i))
      /\ WorkerOK(Working("putLineage", i))
  BY FreeWorking, FreeNames, Zenon
<1>2. WorkerOK([Working("putLineage", i) EXCEPT !.expect = Built(i)])
  BY <1>1, BuiltOK, WithExpect, Zenon
<1>3. RecoverPrepared(i) \in {Working("abandon", i), Working("abandonRetry", i),
                              [Working("putLineage", i) EXCEPT !.expect = Built(i)]}
  BY Zenon DEF RecoverPrepared
<1> QED BY <1>1, <1>2, <1>3, Zenon

LEMMA ContinueOK ==
  ASSUME DurableOK, NEW i \in Intent
  PROVE WorkerOK(Continue(i))
<1>1. WorkerOK(Working("releaseStale", i))
  BY FreeWorking, FreeNames, Zenon
<1> QED BY <1>1, IdleOK, SettleOK, RecoverPreparedOK, Zenon DEF Continue

LEMMA ContinueCommitType ==
  ASSUME TypeInv, ContinueCommit
  PROVE TypeInv'
<1>1. DurableOK /\ lease # NoLease
  BY LeaseNames, Zenon DEF TypeInv, ContinueCommit
<1>2. WorkerOK(Continue(lease.i)) BY <1>1, HeldLease, ContinueOK, Zenon
<1> QED BY <1>2, SkipOK, Zenon DEF ContinueCommit

LEMMA RevalidateType ==
  ASSUME TypeInv, Revalidate
  PROVE TypeInv'
<1>1. Skip(At("authorizeIntent")) \/ Skip(At("markStale"))
  BY Zenon DEF Revalidate
<1> QED BY <1>1, FreeAt, FreeNames, SkipOK, Zenon

LEMMA AuthorizeIntentType ==
  ASSUME TypeInv, AuthorizeIntent
  PROVE TypeInv'
<1> DEFINE row == [mine EXCEPT !.stage = "PROPOSAL_COMMIT_AUTHORIZED"]
<1>1. Moves(At("authorizeLease")) /\ WorkerOK(At("authorizeLease"))
  BY FreeAt, FreeNames, Zenon DEF AuthorizeIntent, Step, Fault, Moves, Counted
<1>2. CASE mine.stage = "RESULT_COMMITTED"
  <2>1. RowOK(row)
    <3>1. mine.barrier = NoBarrier
      BY <1>2, MeOK, Zenon DEF RowOK, SealedStages
    <3> QED BY <3>1, MeOK, SealedOK, Zenon DEF SealedStages
  <2>2. PutIntent(me, row) \/ Nothing
    BY <1>2, Zenon DEF AuthorizeIntent, Step, Fault
  <2> HIDE DEF row
  <2> QED BY <1>1, <2>1, <2>2, MeOK, IntentStep, Zenon
<1>3. CASE mine.stage # "RESULT_COMMITTED"
  <2>1. Nothing BY <1>3, Zenon DEF AuthorizeIntent, Step, Fault
  <2> QED BY <1>1, <2>1, MeOK, IntentStep, Zenon
<1> QED BY <1>2, <1>3, Zenon

LEMMA AuthorizeLeaseType ==
  ASSUME TypeInv, AuthorizeLease
  PROVE TypeInv'
<1>1. CASE HoldsLease(me) /\ lease.state \in ResultStates /\ journal = NoJournal
  <2>1. lease # NoLease BY <1>1, LeaseNames, Zenon
  <2>2. [global EXCEPT !.lease.state = "PROPOSAL_COMMIT_AUTHORIZED"] \in Global
    BY <2>1, LeaseNames, LeaseStateOK, Zenon DEF TypeInv
  <2>3. /\ PutGlobal([global EXCEPT !.lease.state = "PROPOSAL_COMMIT_AUTHORIZED"]) \/ Nothing
        /\ Moves(At("prepareProposal"))
    BY <1>1, Zenon DEF AuthorizeLease, Step, Fault, Moves, Counted
  <2> QED BY <2>2, <2>3, FreeAt, FreeNames, GlobalStep, Zenon
<1>2. CASE ~(HoldsLease(me) /\ lease.state \in ResultStates /\ journal = NoJournal)
  <2>1. Skip(Idle) BY <1>2, Zenon DEF AuthorizeLease
  <2> QED BY <2>1, IdleOK, SkipOK, Zenon
<1> QED BY <1>1, <1>2, Zenon

LEMMA PrepareProposalType ==
  ASSUME TypeInv, PrepareProposal
  PROVE TypeInv'
<1> DEFINE g == [global EXCEPT !.journal = ProposalJournal(me)]
           w == [At("putLineage") EXCEPT !.expect = Built(me)]
<1>1. g \in Global
  <2>1. Own(me) \in Owner /\ intents[me].epoch + 1 \in Nat
    BY MeOK, OwnOK, RowFields, Zenon DEF TypeInv
  <2>2. "PROPOSAL" \in {"GENERATION_RESULT", "BARRIER", "PROPOSAL", "USER_ACTION", "REVIEW"}
    OBVIOUS
  <2> QED BY <2>1, <2>2, Journalled, Zenon DEF TypeInv, ProposalJournal
<1>2. WorkerOK(w)
  BY MeOK, BuiltOK, FreeAt, FreeNames, WithExpect, Zenon DEF TypeInv
<1>3. \/ Skip(Idle) \/ Skip(At("markStale"))
      \/ (PutGlobal(g) \/ Nothing) /\ Moves(w)
  BY Zenon DEF PrepareProposal, Step, Fault, Moves, Counted
<1> HIDE DEF g, w
<1> QED BY <1>1, <1>2, <1>3, IdleOK, FreeAt, FreeNames, SkipOK, GlobalStep, Zenon

LEMMA PutProposalType ==
  ASSUME TypeInv, PutProposal
  PROVE TypeInv'
<1>1. WorkerOK(At("failed")) /\ WorkerOK(At("markBody"))
  BY FreeAt, FreeNames, Zenon
<1>2. \/ Skip(At("failed")) \/ Skip(At("markBody"))
      \/ (PutLineage(BehaviourOf[me], worker.expect) \/ Nothing) /\ Tries(At("markBody"))
  BY Zenon DEF PutProposal, Try, Fault, Tries, Counted
<1>3. CASE (PutLineage(BehaviourOf[me], worker.expect) \/ Nothing) /\ Tries(At("markBody"))
  <2>1. DurableOK'
    BY <1>3, MeOK, PutLineageOK, NothingOK, Zenon DEF TypeInv
  <2> QED BY <1>1, <1>3, <2>1, TriesOK, Zenon
<1> QED BY <1>1, <1>2, <1>3, SkipOK, Zenon

LEMMA MarkBodyType ==
  ASSUME TypeInv, MarkBody
  PROVE TypeInv'
<1> DEFINE row == [mine EXCEPT !.stage = "PROPOSAL_BODY_COMMITTED"]
<1>1. Tries(At("finalizeBody")) /\ WorkerOK(At("finalizeBody"))
  BY FreeAt, FreeNames, Zenon DEF MarkBody, Try, Fault, Tries, Counted
<1>2. CASE mine.stage = "PROPOSAL_COMMIT_AUTHORIZED"
  <2>1. RowOK(row)
    <3>1. mine.barrier = NoBarrier
      BY <1>2, MeOK, Zenon DEF RowOK, SealedStages
    <3> QED BY <3>1, MeOK, SealedOK, Zenon DEF SealedStages
  <2>2. PutIntent(me, row) \/ Nothing
    BY <1>2, Zenon DEF MarkBody, Try, Fault
  <2>3. DurableOK'
    <3> HIDE DEF row
    <3> QED BY <2>1, <2>2, MeOK, PutIntentOK, NothingOK, Zenon DEF TypeInv
  <2> QED BY <1>1, <2>3, TriesOK, Zenon
<1>3. CASE mine.stage # "PROPOSAL_COMMIT_AUTHORIZED"
  <2>1. Nothing BY <1>3, Zenon DEF MarkBody, Try, Fault
  <2>2. DurableOK' BY <2>1, NothingOK, Zenon DEF TypeInv
  <2> QED BY <1>1, <2>2, TriesOK, Zenon
<1> QED BY <1>2, <1>3, Zenon

LEMMA FinalizeBodyType ==
  ASSUME TypeInv, FinalizeBody
  PROVE TypeInv'
<1> DEFINE l == [lease EXCEPT !.state = "BODY_COMMITTED_INDEX_PENDING"]
           g == [Advanced EXCEPT !.lease = l]
<1>1. WorkerOK(At("failed")) /\ WorkerOK(At("activate"))
  BY FreeAt, FreeNames, Zenon
<1>2. CASE Skip(At("failed")) BY <1>1, <1>2, SkipOK, Zenon
<1>3. CASE ~ Skip(At("failed"))
  <2>1. lease.state = "PROPOSAL_COMMIT_AUTHORIZED"
    BY <1>3, Zenon DEF FinalizeBody
  <2>2. lease # NoLease BY <2>1, LeaseNames, Zenon
  <2>3. g \in Global
    <3>1. l \in Lease
      BY <2>2, GlobalFields, LeaseMoves, LeaseNames, Zenon DEF TypeInv
    <3> HIDE DEF l
    <3> QED BY <3>1, AdvancedLease, Zenon DEF TypeInv
  <2>4. g = [Advanced EXCEPT !.lease.state = "BODY_COMMITTED_INDEX_PENDING"]
    <3>1. Advanced.lease = lease BY AdvancedFields, Zenon DEF TypeInv
    <3> QED BY <3>1
  <2>5. /\ \/ PutGlobal([Advanced EXCEPT !.lease.state = "BODY_COMMITTED_INDEX_PENDING"])
           \/ Nothing
        /\ Tries(At("activate"))
    BY <1>3, Zenon DEF FinalizeBody, Try, Fault, Tries, Counted
  <2>6. PutGlobal(g) \/ Nothing BY <2>4, <2>5
  <2>7. DurableOK'
    <3> HIDE DEF g
    <3> QED BY <2>3, <2>6, PutGlobalOK, NothingOK, Zenon DEF TypeInv
  <2> QED BY <1>1, <2>5, <2>7, TriesOK, Zenon
<1> QED BY <1>2, <1>3, Zenon

LEMMA CheckDurableType ==
  ASSUME TypeInv, CheckDurable
  PROVE TypeInv'
<1>1. Skip(At("activate")) \/ Skip(At("rollback"))
  BY Zenon DEF CheckDurable
<1> QED BY <1>1, FreeAt, FreeNames, SkipOK, Zenon

LEMMA RollBackType ==
  ASSUME TypeInv, RollBack
  PROVE TypeInv'
<1>1. /\ PutLineage(BehaviourOf[me], Predecessor(worker.expect)) \/ Nothing
      /\ Moves(At("abandon"))
  BY Zenon DEF RollBack, Step, Fault, Moves, Counted
<1>2. LineOK(Predecessor(worker.expect)) BY MeOK, PredecessorOK, Zenon
<1> QED BY <1>1, <1>2, MeOK, FreeAt, FreeNames, LineageStep, Zenon

LEMMA AbandonType ==
  ASSUME TypeInv, Abandon
  PROVE TypeInv'
<1> DEFINE w == At(IF worker.pc = "abandon" THEN "markStale" ELSE "revalidate")
<1>1. WorkerOK(w) BY FreeAt, FreeNames, Zenon
<1>2. (PutGlobal([global EXCEPT !.journal = NoJournal]) \/ Nothing) /\ Moves(w)
  BY Zenon DEF Abandon, Step, Fault, Moves, Counted
<1> HIDE DEF w
<1> QED BY <1>1, <1>2, Unjournalled, GlobalStep, Zenon DEF TypeInv

LEMMA ActivateType ==
  ASSUME TypeInv, Activate
  PROVE TypeInv'
<1> DEFINE row == [mine EXCEPT !.stage = "READY"]
<1>1. CASE Skip(Idle) BY <1>1, IdleOK, SkipOK, Zenon
<1>2. CASE ~ Skip(Idle)
  <2>1. mine.stage \in {"PROPOSAL_BODY_COMMITTED", "READY"}
    BY <1>2, Zenon DEF Activate
  <2>2. RowOK(row)
    <3>1. mine.barrier = NoBarrier
      BY <2>1, MeOK, Zenon DEF RowOK, SealedStages
    <3> QED BY <3>1, MeOK, SealedOK, Zenon
  <2>3. (PutIntent(me, row) \/ Nothing) /\ Moves(At("indexActive"))
    BY <1>2, Zenon DEF Activate, Step, Fault, Moves, Counted
  <2> HIDE DEF row
  <2> QED BY <2>2, <2>3, MeOK, FreeAt, FreeNames, IntentStep, Zenon
<1> QED BY <1>1, <1>2, Zenon

(* The entry of an intent in the index moves to another state. *)
LEMMA EntryStateOK ==
  ASSUME DurableOK, NEW i \in Intent, IndexOf(i).owner = i, NEW s \in {"RESERVED", "ACTIVE"}
  PROVE [global.index EXCEPT ![BehaviourOf[i]].state = s] \in Indexes
<1> DEFINE b == BehaviourOf[i]
           e == [global.index[b] EXCEPT !.state = s]
<1>1. b \in Behaviour /\ global.index \in Indexes /\ global.index[b] \in Entry
  BY BehaviourType, GlobalFields, Zenon DEF Indexes
<1>2. e \in Entry
  <2>1. global.index[b].owner \in Intent BY Zenon DEF IndexOf
  <2> QED BY <1>1, <2>1, EntryMoves, Zenon
<1>3. [global.index EXCEPT ![b] = e] \in Indexes
  <2> HIDE DEF b, e
  <2> QED BY <1>1, <1>2, Zenon DEF Indexes
<1>4. [global.index EXCEPT ![b] = e] = [global.index EXCEPT ![BehaviourOf[i]].state = s]
  OBVIOUS
<1> QED BY <1>3, <1>4

LEMMA IndexActiveType ==
  ASSUME TypeInv, IndexActive
  PROVE TypeInv'
<1> DEFINE x == [global.index EXCEPT ![BehaviourOf[me]].state = "ACTIVE"]
           l == [lease EXCEPT !.state = "ACTIVE_COMPLETE"]
           g == [[global EXCEPT !.index = x] EXCEPT !.lease = l]
<1>1. CASE Skip(Idle) BY <1>1, IdleOK, SkipOK, Zenon
<1>2. CASE ~ Skip(Idle)
  <2>1. lease.state \in BodyStates /\ IndexOf(me).owner = me
    BY <1>2, Zenon DEF IndexActive, ActiveByMe
  <2>2. lease # NoLease BY <2>1, LeaseNames, Zenon
  <2>3. x \in Indexes BY <2>1, MeOK, EntryStateOK, Zenon DEF TypeInv
  <2>4. l \in Lease
    BY <2>2, GlobalFields, LeaseMoves, LeaseNames, Zenon DEF TypeInv
  <2>5. g \in Global
    <3> HIDE DEF x, l
    <3> QED BY <2>3, <2>4, IndexSetOK, GlobalField, Zenon DEF TypeInv
  <2>6. /\ \/ PutGlobal([global EXCEPT !.index[BehaviourOf[me]].state = "ACTIVE",
                                       !.lease.state = "ACTIVE_COMPLETE"])
           \/ Nothing
        /\ Moves(At("complete"))
    BY <1>2, Zenon DEF IndexActive, Step, Fault, Moves, Counted
  <2>7. g = [global EXCEPT !.index[BehaviourOf[me]].state = "ACTIVE",
                           !.lease.state = "ACTIVE_COMPLETE"]
    <3>1. global \in Global BY Zenon DEF TypeInv, DurableOK
    <3> QED BY <3>1 DEF lease, Global
  <2>8. PutGlobal(g) \/ Nothing BY <2>6, <2>7
  <2> HIDE DEF g
  <2> QED BY <2>5, <2>6, <2>8, FreeAt, FreeNames, GlobalStep, Zenon
<1> QED BY <1>1, <1>2, Zenon

LEMMA CompleteType ==
  ASSUME TypeInv, Complete
  PROVE TypeInv'
<1>1. Skip(Idle) \/ ((PutGlobal(Released) \/ Nothing) /\ Moves(Idle))
  BY Zenon DEF Complete, Step, Fault, Moves, Counted
<1> QED BY <1>1, IdleOK, SkipOK, ReleasedOK, GlobalStep, Zenon DEF TypeInv

----
(* Recovery of the lease at startup. *)

LEMMA CallRecoveryOK ==
  ASSUME NEW i \in Intent
  PROVE WorkerOK(CallRecovery(i))
<1>1. "prepare" \in Pcs /\ "forceUnknown" \in Pcs BY DEF Pcs
<1>2. {"RESULT_LOST", "KNOWN_FAILED", "OUTCOME_UNKNOWN"} \subseteq Failures \cup {"RESULT"}
  BY DEF Failures
<1>3. \A fate \in {"RESULT_LOST", "KNOWN_FAILED", "OUTCOME_UNKNOWN"} :
         /\ WorkerOK([Working("prepare", i) EXCEPT !.fate = fate])
         /\ WorkerOK([Working("forceUnknown", i) EXCEPT !.fate = fate])
  BY <1>1, <1>2, WorkingFate, Zenon
<1>4. WorkerOK(UnknownCall(i)) BY <1>3, Zenon DEF UnknownCall
<1> QED BY <1>3, <1>4, IdleOK, Zenon DEF CallRecovery

LEMMA LeaseRecoveryOK ==
  ASSUME DurableOK, NEW i \in Intent
  PROVE WorkerOK(LeaseRecovery(i))
  BY ContinueOK, CallRecoveryOK, Zenon DEF LeaseRecovery

LEMMA RecoverType ==
  ASSUME TypeInv, Recover
  PROVE TypeInv'
<1> DEFINE i == lease.i
           kind == intents[i].barrier.kind
<1>1. CASE lease = NoLease
  <2>1. Skip(At("strand")) BY <1>1, Zenon DEF Recover
  <2> QED BY <2>1, FreeAt, FreeNames, SkipOK, Zenon
<1>2. CASE lease # NoLease
  <2>1. i \in Intent /\ DurableOK BY <1>2, HeldLease, Zenon DEF TypeInv
  <2>2. WorkerOK(LeaseRecovery(i))
    <3> HIDE DEF i
    <3> QED BY <2>1, LeaseRecoveryOK, Zenon
  <2>3. "finalize" \in Pcs /\ "RESULT" \in Failures \cup {"RESULT"}
    BY DEF Pcs
  <2>4. CASE /\ journal # NoJournal /\ intents[i].stage = "RESULT_COMMITTED"
    <3>1. Skip([Working("finalize", i) EXCEPT !.fate = "RESULT"])
      BY <1>2, <2>4, Zenon DEF Recover
    <3> HIDE DEF i
    <3> QED BY <2>1, <2>3, <3>1, WorkingFate, SkipOK, Zenon
  <2>5. CASE /\ journal # NoJournal /\ intents[i].stage # "RESULT_COMMITTED"
             /\ intents[i].stage = "ATTENTION" /\ intents[i].barrier # NoBarrier
    <3>1. Skip([Working("finalize", i) EXCEPT !.fate = kind])
      BY <1>2, <2>5, Zenon DEF Recover
    <3>2. kind \in Failures \cup {"RESULT"}
      <4>1. intents[i].barrier \in Barrier /\ RowOK(intents[i])
        <5> HIDE DEF i
        <5> QED BY <2>1, RowFields, Zenon
      <4>2. kind # "STALE_RESULT" BY <2>5, <4>1, Zenon DEF RowOK
      <4>3. intents[i].barrier \in [kind : Failures \cup {"STALE_RESULT"}, at : Nat]
        BY <2>5, <4>1, Zenon DEF Barrier
      <4>4. kind \in Failures \cup {"STALE_RESULT"} BY <4>3
      <4> QED BY <4>2, <4>4, Zenon
    <3> HIDE DEF i, kind
    <3> QED BY <2>1, <2>3, <3>1, <3>2, WorkingFate, SkipOK, Zenon
  <2>6. CASE /\ ~(/\ journal # NoJournal /\ intents[i].stage = "RESULT_COMMITTED")
             /\ ~(/\ journal # NoJournal /\ intents[i].stage = "ATTENTION"
                  /\ intents[i].barrier # NoBarrier)
    <3>1. \/ Skip(LeaseRecovery(i))
          \/ /\ PutGlobal([global EXCEPT !.journal = NoJournal]) \/ Nothing
             /\ Moves(LeaseRecovery(i))
      BY <1>2, <2>6, Zenon DEF Recover, Step, Fault, Moves, Counted
    <3> HIDE DEF i
    <3> QED BY <2>1, <2>2, <3>1, Unjournalled, SkipOK, GlobalStep, Zenon
  <2> QED BY <2>4, <2>5, <2>6, Zenon
<1> QED BY <1>1, <1>2, Zenon

LEMMA ForceUnknownType ==
  ASSUME TypeInv, ForceUnknown
  PROVE TypeInv'
<1> DEFINE row == [mine EXCEPT !.stage = "CALL_TERMINAL", !.call = "OUTCOME_UNKNOWN"]
<1>1. Moves(At("prepare")) /\ worker.pc \in CallPcs
  BY CallNames, Zenon DEF ForceUnknown, Step, Fault, Moves, Counted
<1>2. WorkerOK(At("prepare")) BY <1>1, CallAt, CallNames, Zenon
<1>3. PutIntent(me, row) \/ Nothing
  BY Zenon DEF ForceUnknown, Step, Fault
<1>4. RowOK(row)
  <2>1. "OUTCOME_UNKNOWN" \in Calls BY DEF Calls
  <2> QED BY <2>1, MeOK, StageCallOK, PlainNames, Zenon
<1> HIDE DEF row
<1> QED BY <1>1, <1>2, <1>3, <1>4, MeOK, IntentStep, Zenon

LEMMA StrandType ==
  ASSUME TypeInv, Strand
  PROVE TypeInv'
<1>1. CASE InStage("LEASED") = {}
  <2>1. Skip(Idle) BY <1>1, Zenon DEF Strand
  <2> QED BY <2>1, IdleOK, SkipOK, Zenon
<1>2. CASE InStage("LEASED") # {}
  <2> DEFINE i == Earliest(InStage("LEASED"))
             e == [owner |-> i, state |-> "RESERVED"]
             x == [b \in Behaviour |-> IF global.index[b] = e THEN NoEntry ELSE global.index[b]]
             g == [global EXCEPT !.index = x]
  <2>1. i \in Intent BY <1>2, EarliestIn, Zenon
  <2>2. g \in Global
    <3>1. x \in Indexes
      <4>1. \A b \in Behaviour : global.index[b] \in Entry
        BY GlobalFields, Zenon DEF TypeInv
      <4> HIDE DEF e
      <4> QED BY <4>1, Nones, Zenon DEF Indexes
    <3> HIDE DEF x
    <3> QED BY <3>1, IndexSetOK, Zenon DEF TypeInv
  <2>3. /\ \/ PutGlobal([global EXCEPT !.index = [b \in Behaviour |->
                          IF @[b] = [owner |-> i, state |-> "RESERVED"] THEN NoEntry ELSE @[b]]])
           \/ Nothing
        /\ Moves(Working("strandReset", i))
    BY <1>2, Zenon DEF Strand, Step, Fault, Moves, Counted
  <2>4. PutGlobal(g) \/ Nothing BY <2>3
  <2>5. WorkerOK(Working("strandReset", i))
    <3> HIDE DEF i
    <3> QED BY <2>1, FreeWorking, FreeNames, Zenon
  <2> HIDE DEF g, i
  <2> QED BY <2>2, <2>3, <2>4, <2>5, GlobalStep, Zenon
<1> QED BY <1>1, <1>2, Zenon

LEMMA StrandResetType ==
  ASSUME TypeInv, StrandReset
  PROVE TypeInv'
<1>1. WorkerOK(Working("strand", me))
  BY MeOK, FreeWorking, FreeNames, Zenon
<1> QED BY <1>1, ResetOK, Zenon DEF StrandReset

LEMMA WorkerType ==
  ASSUME TypeInv, Worker
  PROVE TypeInv'
<1>1. CASE EarlierStages
  BY <1>1, PlanRecallType, EndRecallType, ClassifyType, AggregateType, ClaimType, Zenon
  DEF EarlierStages
<1>2. CASE LeaseSteps
  BY <1>2, AcquireType, AcquireAgainType, RefuseType, ContinueCommitType, Zenon DEF LeaseSteps
<1>3. CASE Calling
  BY <1>3, BindType, BeforeCallType, ReleasePreCallType, ResetPreCallType, MarkReservedType,
     ReserveCallType, GenerateType, TerminalCallType, PrepareOutcomeType, CommitOutcomeType,
     FinalizeOutcomeType, FenceResultType, MarkStaleType, ReleaseStaleType, Zenon DEF Calling
<1>4. CASE Committing
  BY <1>4, RevalidateType, AuthorizeIntentType, AuthorizeLeaseType, PrepareProposalType,
     PutProposalType, MarkBodyType, FinalizeBodyType, CheckDurableType, RollBackType,
     AbandonType, ActivateType, IndexActiveType, CompleteType, Zenon DEF Committing
<1>5. CASE Recovering
  BY <1>5, RecoverType, ForceUnknownType, StrandType, StrandResetType, Zenon DEF Recovering
<1> QED BY <1>1, <1>2, <1>3, <1>4, <1>5, Zenon DEF Worker

----
(* The user's mutations. *)

DeskMoves(next) == (Sit(Desk(next, desk.i)) /\ UNCHANGED faults) \/ (Counted /\ DeskThrown)

LEMMA DeskFields ==
  ASSUME TypeInv
  PROVE  /\ desk.i \in Intent /\ desk.again \in BOOLEAN /\ DurableOK
         /\ BehaviourOf[desk.i] \in Behaviour /\ LineOK(Line(desk.i))
         /\ RowOK(intents[desk.i]) /\ intents[desk.i] \in IntentRow
<1>1. desk \in DeskSet /\ DurableOK BY Zenon DEF TypeInv
<1>2. desk.i \in Intent /\ desk.again \in BOOLEAN BY <1>1 DEF DeskSet
<1> QED BY <1>1, <1>2, BehaviourType, LineOfIntent, RowFields, Zenon

LEMMA DeskIn ==
  ASSUME NEW step \in DeskSteps, NEW i \in Intent, NEW again \in BOOLEAN
  PROVE [step |-> step, i |-> i, again |-> again] \in DeskSet
  BY DEF DeskSet

LEMMA NoDeskOK == NoDesk \in DeskSet
  BY FirstIntent DEF NoDesk, DeskSet, DeskSteps

LEMMA DeskNames ==
  {"none", "recover", "refreshLineage", "refreshIntent", "refreshFinal", "dismissIntent",
   "dismissFinal", "rejectLineage", "rejectFinal", "drop"} = DeskSteps
  BY DEF DeskSteps

LEMMA SitOK ==
  ASSUME TypeInv, DurableOK', NEW d \in DeskSet, Sit(d), faults' \in 0 .. MaxFaults
  PROVE TypeInv'
<1>1. desk' \in DeskSet BY NoDeskOK, Zenon DEF Sit
<1>2. UNCHANGED <<mode, worker, glance, calls, crashes>>
  BY Zenon DEF Sit
<1> QED BY <1>1, <1>2, Zenon DEF TypeInv, WorkerOK, GlanceOK

LEMMA DeskThrownOK ==
  ASSUME TypeInv, DurableOK', DeskThrown, faults' \in 0 .. MaxFaults
  PROVE TypeInv'
<1>1. CASE mode = "RECOVERING"
  <2>1. /\ mode' = "DOWN" /\ worker' = Idle /\ desk' = NoDesk
        /\ UNCHANGED <<glance, calls, crashes>>
    BY <1>1, Zenon DEF DeskThrown
  <2>2. WorkerOK(worker') /\ desk' \in DeskSet /\ mode' \in Modes
    BY <2>1, IdleOK, NoDeskOK, Zenon DEF Modes
  <2> QED BY <2>1, <2>2, Zenon DEF TypeInv, GlanceOK
<1>2. CASE mode # "RECOVERING"
  <2> DEFINE d == [step |-> "recover", i |-> desk.i, again |-> TRUE]
  <2>1. d \in DeskSet BY DeskFields, DeskIn, DeskNames, Zenon
  <2>2. Sit(NoDesk) \/ Sit(d) BY <1>2, Zenon DEF DeskThrown
  <2> HIDE DEF d
  <2> QED BY <2>1, <2>2, NoDeskOK, SitOK, Zenon
<1> QED BY <1>1, <1>2, Zenon

LEMMA DeskMovesOK ==
  ASSUME TypeInv, DurableOK', NEW next \in DeskSteps, DeskMoves(next)
  PROVE TypeInv'
<1>1. faults' \in 0 .. MaxFaults
  <2>1. Counted \/ faults' = faults BY Zenon DEF DeskMoves
  <2> QED BY <2>1, CountedOK, Zenon DEF TypeInv
<1>2. CASE Sit(Desk(next, desk.i))
  <2>1. Desk(next, desk.i) \in DeskSet
    BY DeskFields, DeskIn, Zenon DEF Desk
  <2> QED BY <1>1, <1>2, <2>1, SitOK, Zenon
<1>3. CASE DeskThrown BY <1>1, <1>3, DeskThrownOK, Zenon
<1> QED BY <1>2, <1>3, Zenon DEF DeskMoves

LEMMA DeskSkipOK ==
  ASSUME TypeInv, NEW step \in DeskSteps, NEW i \in Intent, DeskSkip(step, i)
  PROVE TypeInv'
<1>1. DurableOK' /\ faults' \in 0 .. MaxFaults /\ Sit(Desk(step, i))
  BY NothingOK, CountedOK, Zenon DEF DeskSkip, TypeInv
<1>2. Desk(step, i) \in DeskSet BY DeskFields, DeskIn, Zenon DEF Desk
<1> QED BY <1>1, <1>2, SitOK, Zenon

LEMMA DeskFailsOK ==
  ASSUME TypeInv, DeskFails
  PROVE TypeInv'
<1>1. DurableOK' /\ faults' \in 0 .. MaxFaults /\ DeskThrown
  BY NothingOK, CountedOK, Zenon DEF DeskFails, TypeInv
<1> QED BY <1>1, DeskThrownOK, Zenon

LEMMA PrepareOK ==
  ASSUME TypeInv, NEW j \in Journal, NEW step \in DeskSteps, NEW i \in Intent,
         Prepare(j, step, i)
  PROVE TypeInv'
<1>1. (PutGlobal([global EXCEPT !.journal = j]) \/ Nothing)
      /\ (Counted \/ faults' = faults)
      /\ (Sit(Desk(step, i)) \/ Sit(NoDesk))
  BY Zenon DEF Prepare, Fault, Counted
<1>2. DurableOK'
  BY <1>1, JournalSetOK, PutGlobalOK, NothingOK, Zenon DEF TypeInv
<1>3. faults' \in 0 .. MaxFaults BY <1>1, CountedOK, Zenon DEF TypeInv
<1>4. Desk(step, i) \in DeskSet BY DeskFields, DeskIn, Zenon DEF Desk
<1> QED BY <1>1, <1>2, <1>3, <1>4, NoDeskOK, SitOK, Zenon

LEMMA UserJournals ==
  ASSUME DurableOK, NEW owner \in Owner
  PROVE UserAction(owner) \in Journal /\ ReviewJournal(owner) \in Journal
<1>1. epoch \in Nat BY GlobalFields, Zenon
<1>2. \A kind \in {"GENERATION_RESULT", "BARRIER", "PROPOSAL", "USER_ACTION", "REVIEW"} :
         [kind |-> kind, owner |-> owner, at |-> epoch] \in Journal
  BY <1>1, JournalOK, Zenon
<1> QED BY <1>2, Zenon DEF UserAction, ReviewJournal

LEMMA RefreshProposalType ==
  ASSUME TypeInv, NEW b \in Behaviour, RefreshProposal(b)
  PROVE TypeInv'
<1>1. Refreshable(lineages[b]) /\ LineOK(lineages[b])
  BY Zenon DEF RefreshProposal, TypeInv, DurableOK
<1>2. lineages[b] # NoLineage BY <1>1 DEF Refreshable, NoLineage
<1>3. UserAction(LastOwner(lineages[b])) \in Journal
  BY <1>1, <1>2, LastOwnerOK, UserJournals, Zenon DEF TypeInv
<1>4. lineages[b].owner \in Intent BY <1>1, <1>2, LineFields, Zenon
<1> QED BY <1>3, <1>4, DeskNames, PrepareOK, Zenon DEF RefreshProposal

LEMMA RefreshLineageType ==
  ASSUME TypeInv, RefreshLineage
  PROVE TypeInv'
<1> DEFINE new == [Line(desk.i) EXCEPT !.state = "REFRESHING", !.revision = @ + 1]
<1>1. CASE ~ Refreshable(Line(desk.i))
  <2>1. DeskFails BY <1>1, Zenon DEF RefreshLineage
  <2> QED BY <2>1, DeskFailsOK, Zenon
<1>2. CASE Refreshable(Line(desk.i))
  <2>1. Line(desk.i) # NoLineage BY <1>2 DEF Refreshable, NoLineage
  <2>2. LineOK(new)
    <3>1. "REFRESHING" \in LineStates BY DEF LineStates
    <3> QED BY <2>1, <3>1, DeskFields, MovedLine, Zenon
  <2>3. /\ PutLineage(BehaviourOf[desk.i], new) \/ Nothing
        /\ DeskMoves("refreshIntent")
    BY <1>2, Zenon DEF RefreshLineage, DeskStep, Fault, DeskMoves, Counted
  <2> HIDE DEF new
  <2>4. DurableOK'
    BY <2>2, <2>3, DeskFields, PutLineageOK, NothingOK, Zenon
  <2> QED BY <2>3, <2>4, DeskNames, DeskMovesOK, Zenon
<1> QED BY <1>1, <1>2, Zenon

LEMMA RefreshIntentType ==
  ASSUME TypeInv, RefreshIntent
  PROVE TypeInv'
<1>1. \/ DeskFails \/ DeskSkip("refreshFinal", desk.i)
      \/ (PutIntent(desk.i, StartedOver) \/ Nothing) /\ DeskMoves("refreshFinal")
  BY Zenon DEF RefreshIntent, DeskStep, Fault, DeskMoves, Counted
<1>2. CASE (PutIntent(desk.i, StartedOver) \/ Nothing) /\ DeskMoves("refreshFinal")
  <2>1. DurableOK'
    BY <1>2, DeskFields, StartedOverOK, PutIntentOK, NothingOK, Zenon
  <2> QED BY <1>2, <2>1, DeskNames, DeskMovesOK, Zenon
<1> QED BY <1>1, <1>2, DeskFields, DeskNames, DeskFailsOK, DeskSkipOK, Zenon

LEMMA RefreshFinalType ==
  ASSUME TypeInv, RefreshFinal
  PROVE TypeInv'
<1> DEFINE i == desk.i
           x == [global.index EXCEPT ![BehaviourOf[i]].state = "RESERVED"]
           g == [Advanced EXCEPT !.index = x]
<1>1. CASE ~(journal = UserAction(<<i, 1>>) /\ IndexOf(i).owner = i)
  <2>1. DeskFails BY <1>1, Zenon DEF RefreshFinal
  <2> QED BY <2>1, DeskFailsOK, Zenon
<1>2. CASE journal = UserAction(<<i, 1>>) /\ IndexOf(i).owner = i
  <2>1. x \in Indexes BY <1>2, DeskFields, EntryStateOK, Zenon
  <2>2. g \in Global
    <3> HIDE DEF x
    <3> QED BY <2>1, AdvancedOK, GlobalField, DeskFields, Zenon
  <2>3. g = [Advanced EXCEPT !.index[BehaviourOf[i]].state = "RESERVED"]
    <3>1. Advanced.index = global.index
      BY AdvancedFields, DeskFields, Zenon
    <3> QED BY <3>1
  <2>4. /\ PutGlobal([Advanced EXCEPT !.index[BehaviourOf[i]].state = "RESERVED"]) \/ Nothing
        /\ DeskMoves("none")
    BY <1>2, Zenon DEF RefreshFinal, DeskStep, Fault, DeskMoves, Counted
  <2>5. PutGlobal(g) \/ Nothing BY <2>3, <2>4
  <2>6. DurableOK'
    <3> HIDE DEF g
    <3> QED BY <2>2, <2>5, DeskFields, PutGlobalOK, NothingOK, Zenon
  <2> QED BY <2>4, <2>6, DeskNames, DeskMovesOK, Zenon
<1> QED BY <1>1, <1>2, Zenon

LEMMA DismissType ==
  ASSUME TypeInv, NEW i \in Intent, Dismiss(i)
  PROVE TypeInv'
<1>1. <<i, 0>> \in Owner BY DEF Owner
<1>2. UserAction(<<i, 0>>) \in Journal
  BY <1>1, UserJournals, Zenon DEF TypeInv
<1> QED BY <1>2, DeskNames, PrepareOK, Zenon DEF Dismiss

LEMMA DismissIntentType ==
  ASSUME TypeInv, DismissIntent
  PROVE TypeInv'
<1> DEFINE row == [intents[desk.i] EXCEPT
                      !.stage = "DISCARDED", !.call = "NONE", !.reason = "NONE", !.barrier = NoBarrier]
<1>1. RowOK(row) BY DeskFields, DismissedOK, Zenon
<1>2. (PutIntent(desk.i, row) \/ Nothing) /\ DeskMoves("dismissFinal")
  BY Zenon DEF DismissIntent, DeskStep, Fault, DeskMoves, Counted
<1> HIDE DEF row
<1>3. DurableOK'
  BY <1>1, <1>2, DeskFields, PutIntentOK, NothingOK, Zenon
<1> QED BY <1>2, <1>3, DeskNames, DeskMovesOK, Zenon

LEMMA DismissFinalType ==
  ASSUME TypeInv, DismissFinal
  PROVE TypeInv'
<1> DEFINE x == [b \in Behaviour |-> Unreserved(global.index[b], desk.i)]
           h == [Advanced EXCEPT !.lease = NoLease]
           g == [h EXCEPT !.index = x]
<1>1. CASE DeskSkip("none", 1)
  BY <1>1, FirstIntent, DeskNames, DeskSkipOK, Zenon
<1>2. CASE DeskFails BY <1>2, DeskFailsOK, Zenon
<1>3. CASE ~ DeskSkip("none", 1) /\ ~ DeskFails
  <2>1. x \in Indexes
    <3>1. \A b \in Behaviour : Unreserved(global.index[b], desk.i) \in Entry
      BY DeskFields, GlobalFields, UnreservedOK, Zenon
    <3> QED BY <3>1, Zenon DEF Indexes
  <2>2. h \in Global BY DeskFields, AdvancedLease, Nones, Zenon
  <2>3. g \in Global
    <3> HIDE DEF x, h
    <3> QED BY <2>1, <2>2, GlobalField, Zenon
  <2>4. g = [Advanced EXCEPT !.lease = NoLease, !.index =
                 [b \in Behaviour |-> Unreserved(@[b], desk.i)]]
    <3>1. Advanced.index = global.index
      BY AdvancedFields, DeskFields, Zenon
    <3> QED BY <3>1
  <2>5. /\ \/ PutGlobal([Advanced EXCEPT !.lease = NoLease, !.index =
                 [b \in Behaviour |-> Unreserved(@[b], desk.i)]])
           \/ Nothing
        /\ DeskMoves("none")
    BY <1>3, Zenon DEF DismissFinal, DeskStep, Fault, DeskMoves, Counted
  <2>6. PutGlobal(g) \/ Nothing BY <2>4, <2>5
  <2>7. DurableOK'
    <3> HIDE DEF g
    <3> QED BY <2>3, <2>6, DeskFields, PutGlobalOK, NothingOK, Zenon
  <2> QED BY <2>5, <2>7, DeskNames, DeskMovesOK, Zenon
<1> QED BY <1>1, <1>2, <1>3, Zenon

LEMMA RejectProposalType ==
  ASSUME TypeInv, NEW b \in Behaviour, RejectProposal(b)
  PROVE TypeInv'
<1>1. lineages[b].state = "ACTIVE_PROPOSAL" /\ LineOK(lineages[b])
  BY Zenon DEF RejectProposal, TypeInv, DurableOK
<1>2. lineages[b] # NoLineage BY <1>1 DEF NoLineage
<1>3. ReviewJournal(LastOwner(lineages[b])) \in Journal
  BY <1>1, <1>2, LastOwnerOK, UserJournals, Zenon DEF TypeInv
<1>4. lineages[b].owner \in Intent BY <1>1, <1>2, LineFields, Zenon
<1> QED BY <1>3, <1>4, DeskNames, PrepareOK, Zenon DEF RejectProposal

LEMMA RejectAgainType ==
  ASSUME TypeInv, NEW b \in Behaviour, RejectAgain(b)
  PROVE TypeInv'
<1> DEFINE d == [step |-> "recover", i |-> lineages[b].owner, again |-> TRUE]
<1>1. lineages[b].state = "TERMINAL" /\ LineOK(lineages[b])
  BY Zenon DEF RejectAgain, TypeInv, DurableOK
<1>2. lineages[b] # NoLineage BY <1>1 DEF NoLineage
<1>3. d \in DeskSet BY <1>1, <1>2, LineFields, DeskIn, DeskNames, Zenon
<1>4. Nothing /\ Sit(d) /\ faults' = faults BY Zenon DEF RejectAgain
<1>5. DurableOK' /\ faults' \in 0 .. MaxFaults
  BY <1>4, NothingOK, CountedOK, Zenon DEF TypeInv
<1> HIDE DEF d
<1> QED BY <1>3, <1>4, <1>5, SitOK, Zenon

LEMMA RejectLineageType ==
  ASSUME TypeInv, RejectLineage
  PROVE TypeInv'
<1> DEFINE line == Line(desk.i)
           new == [line EXCEPT !.state = "TERMINAL", !.revision = @ + 1,
                               !.proposals[Len(line.proposals)].failure = "NONE"]
<1>1. CASE line.state # "ACTIVE_PROPOSAL"
  <2>1. DeskFails BY <1>1, Zenon DEF RejectLineage
  <2> QED BY <2>1, DeskFailsOK, Zenon
<1>2. CASE line.state = "ACTIVE_PROPOSAL"
  <2>1. line # NoLineage /\ LineOK(line)
    BY <1>2, DeskFields, LineFields, Zenon DEF NoLineage
  <2>2. LineOK(new)
    <3>1. "TERMINAL" \in LineStates BY DEF LineStates
    <3> HIDE DEF line
    <3> QED BY <2>1, <3>1, MarkedLine, Zenon
  <2>3. (PutLineage(BehaviourOf[desk.i], new) \/ Nothing) /\ DeskMoves("rejectFinal")
    BY <1>2, Zenon DEF RejectLineage, DeskStep, Fault, DeskMoves, Counted
  <2> HIDE DEF new
  <2>4. DurableOK'
    BY <2>2, <2>3, DeskFields, PutLineageOK, NothingOK, Zenon
  <2> QED BY <2>3, <2>4, DeskNames, DeskMovesOK, Zenon
<1> QED BY <1>1, <1>2, Zenon

LEMMA RejectFinalType ==
  ASSUME TypeInv, RejectFinal
  PROVE TypeInv'
<1>1. DeskFails \/ ((PutGlobal(Advanced) \/ Nothing) /\ DeskMoves("none"))
  BY Zenon DEF RejectFinal, DeskStep, Fault, DeskMoves, Counted
<1>2. CASE (PutGlobal(Advanced) \/ Nothing) /\ DeskMoves("none")
  <2>1. DurableOK'
    BY <1>2, DeskFields, AdvancedOK, PutGlobalOK, NothingOK, Zenon
  <2> QED BY <1>2, <2>1, DeskNames, DeskMovesOK, Zenon
<1> QED BY <1>1, <1>2, DeskFailsOK, Zenon

LEMMA RecoverDeskType ==
  ASSUME TypeInv, RecoverDesk
  PROVE TypeInv'
<1> DEFINE i == journal.owner[1]
           step == MutationRecovery(i)
<1>1. step \in DeskSteps \cup {"conflict"}
  BY DeskNames, Zenon DEF MutationRecovery, RefreshRecovery
<1>2. step # "none" => i \in Intent
  <2> SUFFICES ASSUME step # "none" PROVE i \in Intent OBVIOUS
  <2>1. journal.kind \in {"USER_ACTION", "REVIEW"}
    BY Zenon DEF MutationRecovery
  <2>2. journal \in Journal /\ journal # NoJournal
    <3>1. NoJournal.kind = "NONE" BY DEF NoJournal
    <3>2. journal \in Journal BY GlobalFields, Zenon DEF TypeInv
    <3> QED BY <2>1, <3>1, <3>2
  <2>3. journal.owner \in Intent \X (0 .. 2) BY <2>2 DEF Journal, Owner
  <2> QED BY <2>3
<1>3. DeskFails \/ (step # "conflict" /\ DeskSkip(step, IF step = "none" THEN 1 ELSE i))
  BY Zenon DEF RecoverDesk
<1> HIDE DEF i, step
<1> QED BY <1>1, <1>2, <1>3, FirstIntent, DeskFailsOK, DeskSkipOK, Zenon

LEMMA DropType ==
  ASSUME TypeInv, Drop
  PROVE TypeInv'
<1>1. (PutGlobal([global EXCEPT !.journal = NoJournal]) \/ Nothing) /\ DeskMoves("none")
  BY Zenon DEF Drop, DeskStep, Fault, DeskMoves, Counted
<1>2. DurableOK'
  BY <1>1, DeskFields, Unjournalled, PutGlobalOK, NothingOK, Zenon
<1> QED BY <1>1, <1>2, DeskNames, DeskMovesOK, Zenon

----
(* Inspections, crashes and restarts. *)

LEMMA InspectType ==
  ASSUME TypeInv, NEW b \in Behaviour, NEW view \in Views, Inspect(b, view)
  PROVE TypeInv'
<1> DEFINE seen == lineages[b]
           g == [b |-> b, seen |-> seen, view |-> view]
<1>1. seen \in Lineage BY Zenon DEF TypeInv, DurableOK
<1>2. seen # NoLineage
  <2>1. seen.state = "ACTIVE_PROPOSAL" BY Zenon DEF Inspect
  <2> QED BY <2>1 DEF NoLineage
<1>3. view \in {"CURRENT", "STALE", "UNAVAILABLE"}
  BY OutcomesAssumption, Zenon
<1>4. g \in Glance /\ g.seen # NoLineage
  <2> HIDE DEF seen
  <2> QED BY <1>1, <1>2, <1>3 DEF Glance
<1>5. glance' = {g} BY Zenon DEF Inspect
<1>6. GlanceOK(glance')
  <2> HIDE DEF g
  <2>1. Cardinality({g}) = 1 BY FS_Singleton, Zenon
  <2> QED BY <1>4, <1>5, <2>1 DEF GlanceOK
<1>7. UNCHANGED <<durable, mode, worker, desk, calls, crashes, faults>>
  BY Zenon DEF Inspect
<1>8. DurableOK' BY <1>7, NothingOK, Zenon DEF Nothing, TypeInv
<1> QED BY <1>6, <1>7, <1>8, Zenon DEF TypeInv, WorkerOK

LEMMA NoGlance == GlanceOK({})
  BY FS_EmptySet DEF GlanceOK

LEMMA RecordInspectionType ==
  ASSUME TypeInv, RecordInspection
  PROVE TypeInv'
<1>1. PICK g \in glance :
        /\ IF lineages[g.b] = g.seen /\ LastOf(g.seen).failure # FailureOf(g.view)
           THEN PutLineage(g.b, [g.seen EXCEPT
                    !.revision = @ + 1, !.proposals[Len(g.seen.proposals)].failure = FailureOf(g.view)])
           ELSE Nothing
        /\ glance' = {}
        /\ UNCHANGED <<mode, worker, desk, calls, crashes, faults>>
  BY Zenon DEF RecordInspection
<1>2. g \in Glance /\ g.seen # NoLineage BY Zenon DEF TypeInv, GlanceOK
<1>3. g.b \in Behaviour /\ g.view \in {"CURRENT", "STALE", "UNAVAILABLE"}
  BY <1>2 DEF Glance
<1>4. DurableOK'
  <2>1. CASE lineages[g.b] = g.seen /\ LastOf(g.seen).failure # FailureOf(g.view)
    <3> DEFINE failure == FailureOf(g.view)
               new == [g.seen EXCEPT
                         !.revision = @ + 1, !.proposals[Len(g.seen.proposals)].failure = failure]
    <3>1. failure \in {"NONE", "CATALOG_CHANGED", "CATALOG_UNAVAILABLE"}
      BY <1>3, Zenon DEF FailureOf
    <3>2. LineOK(g.seen) BY <1>3, <2>1, Zenon DEF TypeInv, DurableOK
    <3>3. LineOK(new)
      <4> HIDE DEF failure
      <4> QED BY <1>2, <3>1, <3>2, InspectedLine, Zenon
    <3>4. PutLineage(g.b, new) BY <1>1, <2>1
    <3> HIDE DEF new
    <3> QED BY <1>3, <3>3, <3>4, PutLineageOK, Zenon DEF TypeInv
  <2>2. CASE ~(lineages[g.b] = g.seen /\ LastOf(g.seen).failure # FailureOf(g.view))
    BY <1>1, <2>2, NothingOK, Zenon DEF TypeInv
  <2> QED BY <2>1, <2>2, Zenon
<1>5. GlanceOK(glance') BY <1>1, NoGlance, Zenon
<1> QED BY <1>1, <1>4, <1>5, Zenon DEF TypeInv, WorkerOK

LEMMA CrashType ==
  ASSUME TypeInv, Crash
  PROVE TypeInv'
<1>1. /\ crashes < MaxCrashes /\ crashes' = crashes + 1
      /\ mode' = "DOWN" /\ worker' = Idle /\ desk' = NoDesk /\ glance' = {}
      /\ UNCHANGED <<durable, calls, faults>>
  BY Zenon DEF Crash
<1>2. DurableOK' BY <1>1, NothingOK, Zenon DEF Nothing, TypeInv
<1>3. crashes' \in 0 .. MaxCrashes BY <1>1, SizesAssumption DEF TypeInv
<1>4. WorkerOK(worker') /\ desk' \in DeskSet /\ GlanceOK(glance') /\ mode' \in Modes
  BY <1>1, IdleOK, NoDeskOK, NoGlance, Zenon DEF Modes
<1> QED BY <1>1, <1>2, <1>3, <1>4, Zenon DEF TypeInv

LEMMA RestartType ==
  ASSUME TypeInv, Restart
  PROVE TypeInv'
<1>1. /\ mode' = "RECOVERING" /\ worker' = [Idle EXCEPT !.pc = "start"]
      /\ desk' = [NoDesk EXCEPT !.step = "recover"]
      /\ UNCHANGED <<durable, glance, calls, crashes, faults>>
  BY Zenon DEF Restart
<1>2. DurableOK' BY <1>1, NothingOK, Zenon DEF Nothing, TypeInv
<1>3. WorkerOK(worker')
  BY <1>1, IdleOK, AtOK, FreeNames, Zenon DEF FreePcs
<1>4. desk' \in DeskSet
  BY <1>1, FirstIntent DEF NoDesk, DeskSet, DeskSteps
<1> QED BY <1>1, <1>2, <1>3, <1>4, Zenon DEF TypeInv, GlanceOK, Modes

LEMMA InitType == Init => TypeInv
<1> SUFFICES ASSUME Init PROVE TypeInv OBVIOUS
<1>1. global \in Global
  <2>1. NoJournal \in Journal /\ NoLease \in Lease /\ [b \in Behaviour |-> NoEntry] \in Indexes
    BY Nones, Zenon DEF Indexes
  <2>2. global = [epoch |-> 0, journal |-> NoJournal, lease |-> NoLease,
                  index |-> [b \in Behaviour |-> NoEntry]]
    BY Zenon DEF Init
  <2> QED BY <2>1, <2>2 DEF Global, Indexes
<1>2. DurableOK
  <2>1. intents = [i \in Intent |-> NewIntent] /\ lineages = [b \in Behaviour |-> NoLineage]
    BY Zenon DEF Init
  <2>2. NoLineage \in Lineage BY NoLineageOK, Zenon DEF LineOK
  <2> QED BY <1>1, <2>1, <2>2, NewIntentOK, NoLineageOK, Zenon DEF DurableOK
<1>3. WorkerOK(worker) /\ desk \in DeskSet /\ GlanceOK(glance) /\ mode \in Modes
  BY IdleOK, NoDeskOK, NoGlance, Zenon DEF Init, Modes
<1>4. calls \in [Intent \X Round -> Nat] BY DEF Init
<1>5. crashes \in 0 .. MaxCrashes /\ faults \in 0 .. MaxFaults
  BY SizesAssumption DEF Init
<1> QED BY <1>2, <1>3, <1>4, <1>5, Zenon DEF TypeInv

LEMMA MutatingType ==
  ASSUME TypeInv, Mutating
  PROVE TypeInv'
  BY RefreshLineageType, RefreshIntentType, RefreshFinalType, DismissIntentType,
     DismissFinalType, RejectLineageType, RejectFinalType, RecoverDeskType, DropType, Zenon
  DEF Mutating

LEMMA UserType ==
  ASSUME TypeInv, User
  PROVE TypeInv'
  BY RefreshProposalType, RejectProposalType, RejectAgainType, DismissType, InspectType, Zenon
  DEF User

LEMMA NextType == TypeInv /\ [Next]_vars => TypeInv'
<1> SUFFICES ASSUME TypeInv, [Next]_vars PROVE TypeInv' OBVIOUS
<1>1. CASE Next
  BY <1>1, WorkerType, MutatingType, RecordInspectionType, UserType, CrashType, RestartType, Zenon
  DEF Next
<1>2. CASE UNCHANGED vars
  <2>1. UNCHANGED <<durable, mode, worker, desk, glance, calls, crashes, faults>>
    BY <1>2, Zenon DEF vars
  <2>2. DurableOK' BY <2>1, NothingOK, Zenon DEF Nothing, TypeInv
  <2> QED BY <2>1, <2>2, Zenon DEF TypeInv, WorkerOK, GlanceOK
<1> QED BY <1>1, <1>2

(* Every durable record, and everything the process keeps beside them, is of its
   type: in particular no write that stops or throws half-way, and no recovery,
   leaves a row, a lease or a lineage outside what the stores accept
   (schemas.ts), for any number of intents, behaviours, crashes and faults.  *)
THEOREM TypeCorrect == Spec => []TypeOK
<1>1. Spec => []TypeInv BY InitType, NextType, PTL DEF Spec
<1> QED BY <1>1, TypeInvTypes, PTL

----
(* The fence: the lease, the journal and the epoch.  Both parts together are
   inductive: a step that finalizes a mutation is guarded by the journal it
   prepared, and the journal says who may hold the lease meanwhile.          *)

Fenced == LeaseFencesEpoch /\ JournalAndLease
EpochStep ==
    epoch' # epoch => /\ epoch' = epoch + 1
                      /\ journal.kind # "NONE" /\ journal.at = epoch
                      /\ journal' = NoJournal

LEMMA OwnMutationsAt ==
  /\ OwnMutations["NOT_CALLED"] = 0 /\ OwnMutations["CALL_RESERVED"] = 0
  /\ OwnMutations["RESULT_COMMITTED"] = 1 /\ OwnMutations["PROPOSAL_COMMIT_AUTHORIZED"] = 1
  /\ OwnMutations["BODY_COMMITTED_INDEX_PENDING"] = 2 /\ OwnMutations["ACTIVE_COMPLETE"] = 2
  BY DEF OwnMutations

LEMMA LeaseMoved ==
  ASSUME DurableOK, lease # NoLease, NEW s \in LeaseStates
  PROVE  /\ [lease EXCEPT !.state = s] # NoLease
         /\ [lease EXCEPT !.state = s].state = s
         /\ [lease EXCEPT !.state = s].i = lease.i
         /\ [lease EXCEPT !.state = s].round = lease.round
         /\ [lease EXCEPT !.state = s].epoch = lease.epoch
<1>1. lease \in [state : LeaseStates, i : Intent, round : Round, epoch : Nat]
  BY GlobalFields, Zenon DEF Lease, LeaseStates
<1>2. /\ [lease EXCEPT !.state = s].state = s
      /\ [lease EXCEPT !.state = s].i = lease.i
      /\ [lease EXCEPT !.state = s].round = lease.round
      /\ [lease EXCEPT !.state = s].epoch = lease.epoch
  <2> HIDE DEF LeaseStates
  <2> QED BY <1>1
<1>3. [lease EXCEPT !.state = s] # NoLease BY <1>2, LeaseNames, Zenon
<1> QED BY <1>2, <1>3, Zenon

FenceKept == Fenced' /\ EpochStep /\ [Fence!Next]_(Fence!vars)

(* What the three say together is kept when none of them moves, ... *)
LEMMA FenceSame ==
  ASSUME Fenced, epoch' = epoch, journal' = journal, lease' = lease
  PROVE FenceKept
<1>1. Fenced' /\ EpochStep
  BY Zenon DEF Fenced, LeaseFencesEpoch, JournalAndLease, EpochStep
<1>2. PreparedBy' = PreparedBy BY Zenon DEF PreparedBy
<1>3. [Fence!Next]_(Fence!vars) BY <1>2 DEF Fence!vars
<1> QED BY <1>1, <1>3, Zenon DEF FenceKept

(* ... when a journal is cleared, ... *)
LEMMA FenceCleared ==
  ASSUME Fenced, epoch' = epoch, journal' = NoJournal, lease' = lease
  PROVE FenceKept
<1>1. Fenced' /\ EpochStep
  BY Zenon DEF Fenced, LeaseFencesEpoch, JournalAndLease, EpochStep
<1>2. PreparedBy' = "NONE" /\ lease'.i = lease.i BY Zenon DEF PreparedBy
<1>3. CASE PreparedBy = "NONE"
  <2>1. [Fence!Next]_(Fence!vars) BY <1>2, <1>3 DEF Fence!vars
  <2> QED BY <1>1, <2>1, Zenon DEF FenceKept
<1>4. CASE PreparedBy # "NONE"
  <2>1. Fence!Drop BY <1>2, <1>4 DEF Fence!Drop
  <2> QED BY <1>1, <2>1, Zenon DEF FenceKept, Fence!Next
<1> QED BY <1>3, <1>4

(* ... when the lease moves on without a mutation, ... *)
LEMMA FenceMoved ==
  ASSUME TypeInv, Fenced, lease # NoLease, NEW s \in LeaseStates,
         OwnMutations[s] = OwnMutations[lease.state],
         journal = NoJournal, journal' = NoJournal, epoch' = epoch,
         lease' = [lease EXCEPT !.state = s]
  PROVE FenceKept
<1>1. lease'.state = s /\ lease'.epoch = lease.epoch /\ lease'.i = lease.i
  BY LeaseMoved, Zenon DEF TypeInv
<1>2. epoch = lease.epoch + OwnMutations[lease.state]
  BY Zenon DEF Fenced, LeaseFencesEpoch
<1>3. epoch' = lease'.epoch + OwnMutations[lease'.state] BY <1>1, <1>2
<1>4. Fenced' /\ EpochStep
  BY <1>3, Zenon DEF Fenced, LeaseFencesEpoch, JournalAndLease, EpochStep
<1>5. PreparedBy' = PreparedBy BY Zenon DEF PreparedBy
<1>6. [Fence!Next]_(Fence!vars) BY <1>1, <1>5 DEF Fence!vars
<1> QED BY <1>4, <1>6, Zenon DEF FenceKept

(* ... when it is given up and no outcome or proposal is prepared, ... *)
LEMMA FenceReleased ==
  ASSUME TypeInv, Fenced, lease # NoLease, journal = NoJournal \/ lease.state = "NOT_CALLED",
         journal' = journal, epoch' = epoch, lease' = NoLease
  PROVE FenceKept
<1>1. JournalAndLease'
  <2>1. CASE journal = NoJournal BY <2>1, Zenon DEF JournalAndLease
  <2>2. CASE lease.state = "NOT_CALLED"
    BY <2>2 DEF Fenced, JournalAndLease
  <2> QED BY <2>1, <2>2
<1>2. Fenced' /\ EpochStep
  BY <1>1, Zenon DEF Fenced, LeaseFencesEpoch, EpochStep
<1>3. PreparedBy' = PreparedBy BY Zenon DEF PreparedBy
<1>4. PreparedBy # "HOLDER"
  <2>1. CASE journal = NoJournal BY <2>1 DEF PreparedBy
  <2>2. CASE lease.state = "NOT_CALLED"
    BY <2>2 DEF Fenced, JournalAndLease, PreparedBy
  <2> QED BY <2>1, <2>2
<1>5. lease.i # 0 /\ lease'.i = 0
  <2>1. lease.i \in Intent BY HeldLease, Zenon DEF TypeInv
  <2> QED BY <2>1, SizesAssumption DEF Intent, NoLease
<1>6. Fence!Release BY <1>3, <1>4, <1>5, Zenon DEF Fence!Release
<1> QED BY <1>2, <1>6, Zenon DEF FenceKept, Fence!Next

(* ... when a mutation is prepared by whom the lease admits, ... *)
LEMMA FencePrepared ==
  ASSUME TypeInv, Fenced, journal = NoJournal, NEW kind, NEW owner,
         journal' = [kind |-> kind, owner |-> owner, at |-> epoch],
         epoch' = epoch, lease' = lease,
         \/ /\ kind \in {"GENERATION_RESULT", "BARRIER"}
            /\ lease.state = "CALL_RESERVED" /\ <<lease.i, lease.round>> = owner
         \/ /\ kind = "PROPOSAL"
            /\ lease.state = "PROPOSAL_COMMIT_AUTHORIZED" /\ <<lease.i, lease.round>> = owner
         \/ kind = "REVIEW" /\ lease = NoLease
         \/ kind = "USER_ACTION" /\ (lease = NoLease \/ owner = <<lease.i, 0>>)
  PROVE FenceKept
<1>1. journal'.kind = kind /\ journal'.owner = owner /\ journal'.at = epoch OBVIOUS
<1>2. JournalAndLease' BY <1>1 DEF JournalAndLease
<1>3. Fenced' /\ EpochStep
  BY <1>2, Zenon DEF Fenced, LeaseFencesEpoch, EpochStep
<1>4. PreparedBy = "NONE" /\ journal' # NoJournal
  <2>1. journal'.kind # "NONE" BY <1>1
  <2> QED BY <2>1 DEF PreparedBy, NoJournal
<1>5. CASE kind \in {"GENERATION_RESULT", "BARRIER", "PROPOSAL"}
  <2>1. PreparedBy' = "HOLDER" BY <1>1, <1>4, <1>5, Zenon DEF PreparedBy
  <2>2. lease # NoLease BY <1>5, LeaseNames, Zenon
  <2>3. lease.i # 0
    <3>1. lease.i \in Intent BY <2>2, HeldLease, Zenon DEF TypeInv
    <3> QED BY <3>1, SizesAssumption DEF Intent
  <2>4. Fence!PrepareHeld
    BY <1>4, <2>1, <2>3, Zenon DEF Fence!PrepareHeld
  <2> QED BY <1>3, <2>4, Zenon DEF FenceKept, Fence!Next
<1>6. CASE kind \notin {"GENERATION_RESULT", "BARRIER", "PROPOSAL"}
  <2>1. PreparedBy' = "USER" BY <1>1, <1>4, <1>6, Zenon DEF PreparedBy
  <2>2. Fence!PrepareByUser BY <1>4, <2>1, Zenon DEF Fence!PrepareByUser
  <2> QED BY <1>3, <2>2, Zenon DEF FenceKept, Fence!Next
<1> QED BY <1>5, <1>6

LEMMA JournalKind == journal \in Journal /\ journal # NoJournal => journal.kind # "NONE"
  BY DEF Journal

(* ... and when the mutation that is prepared is finalized. *)
LEMMA FenceAdvanced ==
  ASSUME TypeInv, Fenced, journal # NoJournal, journal' = NoJournal, epoch' = epoch + 1,
         \/ lease' = NoLease
         \/ /\ lease # NoLease
            /\ journal.kind \in {"GENERATION_RESULT", "BARRIER", "PROPOSAL"}
            /\ \E s \in LeaseStates : /\ OwnMutations[s] = OwnMutations[lease.state] + 1
                                      /\ lease' = [lease EXCEPT !.state = s]
  PROVE FenceKept
<1>1. EpochStep
  <2>1. journal.kind # "NONE"
    BY JournalKind, GlobalFields, Zenon DEF TypeInv
  <2>2. journal.at = epoch BY Zenon DEF Fenced, JournalAndLease
  <2> QED BY <2>1, <2>2, Zenon DEF EpochStep
<1>2. LeaseFencesEpoch' /\ (lease'.i = 0 \/ (lease'.i = lease.i /\ PreparedBy = "HOLDER"))
  <2>1. CASE lease' = NoLease
    BY <2>1, NoLeaseFields, Zenon DEF LeaseFencesEpoch
  <2>2. CASE lease' # NoLease
    <3>1. PICK s \in LeaseStates : /\ OwnMutations[s] = OwnMutations[lease.state] + 1
                                   /\ lease' = [lease EXCEPT !.state = s]
      BY <2>2, Zenon
    <3>2. lease # NoLease /\ journal.kind \in {"GENERATION_RESULT", "BARRIER", "PROPOSAL"}
      BY <2>2, Zenon
    <3>3. lease'.state = s /\ lease'.epoch = lease.epoch /\ lease'.i = lease.i
      BY <3>1, <3>2, LeaseMoved, Zenon DEF TypeInv
    <3>4. epoch = lease.epoch + OwnMutations[lease.state]
      BY <3>2, Zenon DEF Fenced, LeaseFencesEpoch
    <3>5. OwnMutations[lease.state] \in Nat /\ lease.epoch \in Nat
      <4>1. lease.state \in LeaseStates /\ lease.epoch \in Nat
        BY <3>2, HeldLease, Zenon DEF TypeInv
      <4> QED BY <4>1, OwnMutationsAt DEF LeaseStates, ResultStates, BodyStates
    <3>6. epoch' = lease'.epoch + OwnMutations[lease'.state]
      BY <3>1, <3>3, <3>4, <3>5
    <3>7. PreparedBy = "HOLDER" BY <3>2, Zenon DEF PreparedBy
    <3> QED BY <3>3, <3>6, <3>7, Zenon DEF LeaseFencesEpoch
  <2> QED BY <2>1, <2>2, Zenon
<1>3. JournalAndLease' BY Zenon DEF JournalAndLease
<1>4. PreparedBy # "NONE" /\ PreparedBy' = "NONE" BY DEF PreparedBy
<1>5. Fence!Commit BY <1>2, <1>4, Zenon DEF Fence!Commit
<1> QED BY <1>1, <1>2, <1>3, <1>5, Zenon DEF Fenced, FenceKept, Fence!Next

----
(* The steps that write an intent, a lineage or nothing. *)

QuietWorker ==
    \/ PlanRecall \/ EndRecall \/ Classify \/ Aggregate \/ \E i \in Intent : Claim(i)
    \/ AcquireAgain \/ Refuse \/ ContinueCommit
    \/ Bind \/ BeforeCall \/ ResetPreCall \/ ReserveCall \/ Generate \/ TerminalCall
    \/ CommitOutcome \/ FenceResult \/ MarkStale
    \/ Revalidate \/ AuthorizeIntent \/ PutProposal \/ MarkBody \/ CheckDurable \/ RollBack
    \/ Activate \/ ForceUnknown \/ StrandReset
QuietDesk ==
    \/ RefreshLineage \/ RefreshIntent \/ DismissIntent \/ RejectLineage \/ RecoverDesk
    \/ RecordInspection \/ Crash \/ Restart
    \/ \E b \in Behaviour : RejectAgain(b)
    \/ \E b \in Behaviour, view \in Views : Inspect(b, view)

LEMMA QuietWrites ==
  /\ \A i, row : PutIntent(i, row) => global' = global
  /\ \A b, line : PutLineage(b, line) => global' = global
  /\ Nothing => global' = global
  /\ UNCHANGED durable => global' = global
  BY Zenon DEF PutIntent, PutLineage, Nothing, durable

LEMMA QuietWorkerKeepsGlobal == QuietWorker => global' = global
<1> SUFFICES ASSUME QuietWorker PROVE global' = global OBVIOUS
<1>1. CASE PlanRecall
  BY <1>1, QuietWrites, Zenon DEF PlanRecall, Done, Step, Skip, Fault
<1>2. CASE EndRecall
  BY <1>2, QuietWrites, Zenon DEF EndRecall, Done, Step, Skip, Fault
<1>3. CASE Classify
  BY <1>3, QuietWrites, Zenon DEF Classify, Done, Step, Skip, Fault
<1>4. CASE Aggregate
  BY <1>4, QuietWrites, Zenon DEF Aggregate, Done, Step, Skip, Fault
<1>5. CASE AcquireAgain
  BY <1>5, QuietWrites, Zenon DEF AcquireAgain, Done, Step, Skip, Fault
<1>6. CASE Refuse
  BY <1>6, QuietWrites, Zenon DEF Refuse, Done, Step, Skip, Fault
<1>7. CASE ContinueCommit
  BY <1>7, QuietWrites, Zenon DEF ContinueCommit, Done, Step, Skip, Fault
<1>8. CASE Bind
  BY <1>8, QuietWrites, Zenon DEF Bind, Done, Step, Skip, Fault
<1>9. CASE BeforeCall
  BY <1>9, QuietWrites, Zenon DEF BeforeCall, Done, Step, Skip, Fault
<1>10. CASE ResetPreCall
  BY <1>10, QuietWrites, Zenon DEF ResetPreCall, Done, Step, Skip, Fault, Reset
<1>11. CASE ReserveCall
  BY <1>11, QuietWrites, Zenon DEF ReserveCall, Done, Step, Skip, Fault
<1>12. CASE Generate
  BY <1>12, QuietWrites, Zenon DEF Generate, Done, Step, Skip, Fault
<1>13. CASE TerminalCall
  BY <1>13, QuietWrites, Zenon DEF TerminalCall, Done, Step, Skip, Fault
<1>14. CASE CommitOutcome
  BY <1>14, QuietWrites, Zenon DEF CommitOutcome, Done, Step, Skip, Fault
<1>15. CASE FenceResult
  BY <1>15, QuietWrites, Zenon DEF FenceResult, Done, Step, Skip, Fault
<1>16. CASE MarkStale
  BY <1>16, QuietWrites, Zenon DEF MarkStale, Done, Step, Skip, Fault
<1>17. CASE Revalidate
  BY <1>17, QuietWrites, Zenon DEF Revalidate, Done, Step, Skip, Fault
<1>18. CASE AuthorizeIntent
  BY <1>18, QuietWrites, Zenon DEF AuthorizeIntent, Done, Step, Skip, Fault
<1>19. CASE PutProposal
  BY <1>19, QuietWrites, Zenon DEF PutProposal, Done, Step, Skip, Fault, Try
<1>20. CASE MarkBody
  BY <1>20, QuietWrites, Zenon DEF MarkBody, Done, Step, Skip, Fault, Try
<1>21. CASE CheckDurable
  BY <1>21, QuietWrites, Zenon DEF CheckDurable, Done, Step, Skip, Fault
<1>22. CASE RollBack
  BY <1>22, QuietWrites, Zenon DEF RollBack, Done, Step, Skip, Fault
<1>23. CASE Activate
  BY <1>23, QuietWrites, Zenon DEF Activate, Done, Step, Skip, Fault
<1>24. CASE ForceUnknown
  BY <1>24, QuietWrites, Zenon DEF ForceUnknown, Done, Step, Skip, Fault
<1>25. CASE StrandReset
  BY <1>25, QuietWrites, Zenon DEF StrandReset, Done, Step, Skip, Fault, Reset
<1>26. CASE \E i \in Intent : Claim(i)
  BY <1>26, QuietWrites, Zenon DEF Claim, Done
<1> QED BY <1>1, <1>2, <1>3, <1>4, <1>5, <1>6, <1>7, <1>8, <1>9, <1>10, <1>11, <1>12,
     <1>13, <1>14, <1>15, <1>16, <1>17, <1>18, <1>19, <1>20, <1>21, <1>22, <1>23, <1>24,
     <1>25, <1>26, Zenon DEF QuietWorker

LEMMA QuietDeskKeepsGlobal == QuietDesk => global' = global
<1> SUFFICES ASSUME QuietDesk PROVE global' = global OBVIOUS
<1>1. CASE RefreshLineage
  BY <1>1, QuietWrites, Zenon DEF RefreshLineage, DeskStep, DeskSkip, DeskFails, Fault
<1>2. CASE RefreshIntent
  BY <1>2, QuietWrites, Zenon DEF RefreshIntent, DeskStep, DeskSkip, DeskFails, Fault
<1>3. CASE DismissIntent
  BY <1>3, QuietWrites, Zenon DEF DismissIntent, DeskStep, DeskSkip, DeskFails, Fault
<1>4. CASE RejectLineage
  BY <1>4, QuietWrites, Zenon DEF RejectLineage, DeskStep, DeskSkip, DeskFails, Fault
<1>5. CASE RecoverDesk
  BY <1>5, QuietWrites, Zenon DEF RecoverDesk, DeskStep, DeskSkip, DeskFails, Fault
<1>6. CASE RecordInspection
  BY <1>6, QuietWrites, Zenon DEF RecordInspection, DeskStep, DeskSkip, DeskFails, Fault
<1>7. CASE Crash
  BY <1>7, QuietWrites, Zenon DEF Crash, DeskStep, DeskSkip, DeskFails, Fault
<1>8. CASE Restart
  BY <1>8, QuietWrites, Zenon DEF Restart, DeskStep, DeskSkip, DeskFails, Fault
<1>9. CASE \E b \in Behaviour : RejectAgain(b)
  BY <1>9, QuietWrites, Zenon DEF RejectAgain
<1>10. CASE \E b \in Behaviour, view \in Views : Inspect(b, view)
  BY <1>10, QuietWrites, Zenon DEF Inspect
<1> QED BY <1>1, <1>2, <1>3, <1>4, <1>5, <1>6, <1>7, <1>8, <1>9, <1>10, Zenon DEF
     QuietDesk

LEMMA KeptFence ==
  ASSUME Fenced, global' = global
  PROVE FenceKept
<1>1. epoch' = epoch /\ journal' = journal /\ lease' = lease
  BY Zenon DEF epoch, journal, lease
<1> QED BY <1>1, FenceSame, Zenon

(* A write of the global record, or none. *)
LEMMA NothingFence ==
  ASSUME Fenced, Nothing
  PROVE FenceKept
  BY QuietWrites, KeptFence, Zenon

LEMMA PutFields ==
  ASSUME NEW g, PutGlobal(g)
  PROVE epoch' = g.epoch /\ journal' = g.journal /\ lease' = g.lease
  BY Zenon DEF PutGlobal, epoch, journal, lease

LEMMA FieldsOfGlobal ==
  ASSUME DurableOK
  PROVE  /\ \A j : /\ [global EXCEPT !.journal = j].epoch = epoch
                   /\ [global EXCEPT !.journal = j].journal = j
                   /\ [global EXCEPT !.journal = j].lease = lease
         /\ \A l : /\ [global EXCEPT !.lease = l].epoch = epoch
                   /\ [global EXCEPT !.lease = l].journal = journal
                   /\ [global EXCEPT !.lease = l].lease = l
         /\ \A x : /\ [global EXCEPT !.index = x].epoch = epoch
                   /\ [global EXCEPT !.index = x].journal = journal
                   /\ [global EXCEPT !.index = x].lease = lease
<1> DEFINE X == [Behaviour -> Entry]
<1>1. global \in [epoch : Nat, journal : Journal, lease : Lease, index : X]
  BY Zenon DEF DurableOK, Global
<1> HIDE DEF X
<1> QED BY <1>1 DEF epoch, journal, lease

LEMMA FieldsOfAdvanced ==
  ASSUME DurableOK
  PROVE  /\ Advanced.epoch = epoch + 1 /\ Advanced.journal = NoJournal /\ Advanced.lease = lease
         /\ \A l : /\ [Advanced EXCEPT !.lease = l].epoch = epoch + 1
                   /\ [Advanced EXCEPT !.lease = l].journal = NoJournal
                   /\ [Advanced EXCEPT !.lease = l].lease = l
         /\ \A x : /\ [Advanced EXCEPT !.index = x].epoch = epoch + 1
                   /\ [Advanced EXCEPT !.index = x].journal = NoJournal
                   /\ [Advanced EXCEPT !.index = x].lease = lease
         /\ \A x, l : /\ [[Advanced EXCEPT !.lease = l] EXCEPT !.index = x].epoch = epoch + 1
                      /\ [[Advanced EXCEPT !.lease = l] EXCEPT !.index = x].journal = NoJournal
                      /\ [[Advanced EXCEPT !.lease = l] EXCEPT !.index = x].lease = l
<1> DEFINE X == [Behaviour -> Entry]
<1>1. Advanced \in [epoch : Nat, journal : Journal, lease : Lease, index : X]
  BY AdvancedOK, Zenon DEF Global
<1>2. Advanced.epoch = epoch + 1 /\ Advanced.journal = NoJournal /\ Advanced.lease = lease
  BY AdvancedFields, Zenon
<1> HIDE DEF X
<1> QED BY <1>1, <1>2

----
(* The steps that write the global record. *)

LEMMA PutJournal ==
  ASSUME DurableOK, NEW j, PutGlobal([global EXCEPT !.journal = j])
  PROVE epoch' = epoch /\ journal' = j /\ lease' = lease
<1> DEFINE g == [global EXCEPT !.journal = j]
<1>1. g.epoch = epoch /\ g.journal = j /\ g.lease = lease
  BY FieldsOfGlobal, Zenon
<1> HIDE DEF g
<1>2. PutGlobal(g) BY DEF g
<1> QED BY <1>1, <1>2, PutFields

LEMMA PutLease ==
  ASSUME DurableOK, NEW l, PutGlobal([global EXCEPT !.lease = l])
  PROVE epoch' = epoch /\ journal' = journal /\ lease' = l
<1> DEFINE g == [global EXCEPT !.lease = l]
<1>1. g.epoch = epoch /\ g.journal = journal /\ g.lease = l
  BY FieldsOfGlobal, Zenon
<1> HIDE DEF g
<1>2. PutGlobal(g) BY DEF g
<1> QED BY <1>1, <1>2, PutFields

LEMMA PutIndex ==
  ASSUME DurableOK, NEW x, PutGlobal([global EXCEPT !.index = x])
  PROVE epoch' = epoch /\ journal' = journal /\ lease' = lease
<1> DEFINE g == [global EXCEPT !.index = x]
<1>1. g.epoch = epoch /\ g.journal = journal /\ g.lease = lease
  BY FieldsOfGlobal, Zenon
<1> HIDE DEF g
<1>2. PutGlobal(g) BY DEF g
<1> QED BY <1>1, <1>2, PutFields

LEMMA PutIndexLease ==
  ASSUME DurableOK, NEW x, NEW l, PutGlobal([[global EXCEPT !.index = x] EXCEPT !.lease = l])
  PROVE epoch' = epoch /\ journal' = journal /\ lease' = l
<1> DEFINE g == [[global EXCEPT !.index = x] EXCEPT !.lease = l]
<1>1. g.epoch = epoch /\ g.journal = journal /\ g.lease = l
  <2> DEFINE X == [Behaviour -> Entry]
  <2>1. global \in [epoch : Nat, journal : Journal, lease : Lease, index : X]
    BY Zenon DEF DurableOK, Global
  <2> HIDE DEF X
  <2> QED BY <2>1 DEF epoch, journal, lease
<1> HIDE DEF g
<1>2. PutGlobal(g) BY DEF g
<1> QED BY <1>1, <1>2, PutFields

LEMMA PutLeaseIndex ==
  ASSUME DurableOK, NEW x, NEW l, PutGlobal([[global EXCEPT !.lease = l] EXCEPT !.index = x])
  PROVE epoch' = epoch /\ journal' = journal /\ lease' = l
<1> DEFINE g == [[global EXCEPT !.lease = l] EXCEPT !.index = x]
<1>1. g.epoch = epoch /\ g.journal = journal /\ g.lease = l
  <2> DEFINE X == [Behaviour -> Entry]
  <2>1. global \in [epoch : Nat, journal : Journal, lease : Lease, index : X]
    BY Zenon DEF DurableOK, Global
  <2> HIDE DEF X
  <2> QED BY <2>1 DEF epoch, journal, lease
<1> HIDE DEF g
<1>2. PutGlobal(g) BY DEF g
<1> QED BY <1>1, <1>2, PutFields

LEMMA PutAdvanced ==
  ASSUME DurableOK
  PROVE  /\ PutGlobal(Advanced) =>
               epoch' = epoch + 1 /\ journal' = NoJournal /\ lease' = lease
         /\ \A l : PutGlobal([Advanced EXCEPT !.lease = l]) =>
               epoch' = epoch + 1 /\ journal' = NoJournal /\ lease' = l
         /\ \A x : PutGlobal([Advanced EXCEPT !.index = x]) =>
               epoch' = epoch + 1 /\ journal' = NoJournal /\ lease' = lease
         /\ \A x, l : PutGlobal([[Advanced EXCEPT !.lease = l] EXCEPT !.index = x]) =>
               epoch' = epoch + 1 /\ journal' = NoJournal /\ lease' = l
<1>1. PutGlobal(Advanced) => epoch' = epoch + 1 /\ journal' = NoJournal /\ lease' = lease
  BY FieldsOfAdvanced, PutFields, Zenon
<1>2. ASSUME NEW l, PutGlobal([Advanced EXCEPT !.lease = l])
      PROVE epoch' = epoch + 1 /\ journal' = NoJournal /\ lease' = l
  <2> DEFINE g == [Advanced EXCEPT !.lease = l]
  <2>1. g.epoch = epoch + 1 /\ g.journal = NoJournal /\ g.lease = l
    BY FieldsOfAdvanced, Zenon
  <2> HIDE DEF g
  <2>2. PutGlobal(g) BY <1>2 DEF g
  <2> QED BY <2>1, <2>2, PutFields
<1>3. ASSUME NEW x, PutGlobal([Advanced EXCEPT !.index = x])
      PROVE epoch' = epoch + 1 /\ journal' = NoJournal /\ lease' = lease
  <2> DEFINE g == [Advanced EXCEPT !.index = x]
  <2>1. g.epoch = epoch + 1 /\ g.journal = NoJournal /\ g.lease = lease
    BY FieldsOfAdvanced, Zenon
  <2> HIDE DEF g
  <2>2. PutGlobal(g) BY <1>3 DEF g
  <2> QED BY <2>1, <2>2, PutFields
<1>4. ASSUME NEW x, NEW l, PutGlobal([[Advanced EXCEPT !.lease = l] EXCEPT !.index = x])
      PROVE epoch' = epoch + 1 /\ journal' = NoJournal /\ lease' = l
  <2> DEFINE g == [[Advanced EXCEPT !.lease = l] EXCEPT !.index = x]
  <2>1. g.epoch = epoch + 1 /\ g.journal = NoJournal /\ g.lease = l
    BY FieldsOfAdvanced, Zenon
  <2> HIDE DEF g
  <2>2. PutGlobal(g) BY <1>4 DEF g
  <2> QED BY <2>1, <2>2, PutFields
<1> QED BY <1>1, <1>2, <1>3, <1>4, Zenon

LEMMA AcquireFence ==
  ASSUME TypeInv, Fenced, Acquire
  PROVE FenceKept
<1> DEFINE i == Candidate
           l == [state |-> "NOT_CALLED", i |-> i, round |-> intents[i].round, epoch |-> epoch]
           x == [global.index EXCEPT ![BehaviourOf[i]] = [owner |-> i, state |-> "RESERVED"]]
           g == [[global EXCEPT !.index = x] EXCEPT !.lease = l]
<1>1. /\ journal = NoJournal
      /\ \/ PutGlobal([global EXCEPT
                      !.index[BehaviourOf[i]] = [owner |-> i, state |-> "RESERVED"],
                      !.lease = [state |-> "NOT_CALLED", i |-> i,
                                 round |-> intents[i].round, epoch |-> epoch]])
         \/ Nothing
  BY Zenon DEF Acquire, CanAcquire, Step, Fault
<1>2. PutGlobal(g) \/ Nothing BY <1>1
<1>4. Candidate \in Intent /\ lease = NoLease
  BY CandidateOK, Zenon DEF Acquire
<1>3. ASSUME PutGlobal(g) PROVE FenceKept
  <2>1. epoch' = epoch /\ journal' = NoJournal /\ lease' = l
    <3> HIDE DEF x, l
    <3> QED BY <1>1, <1>3, PutIndexLease, Zenon DEF TypeInv
  <2>2. lease'.state = "NOT_CALLED" /\ lease'.epoch = epoch BY <2>1
  <2>3. epoch \in Nat BY GlobalFields, Zenon DEF TypeInv
  <2>4. epoch' = lease'.epoch + OwnMutations[lease'.state]
    BY <2>1, <2>2, <2>3, OwnMutationsAt
  <2>5. i \in Intent /\ lease'.i = i BY <1>4, <2>1
  <2>6. lease.i = 0 BY <1>4, NoLeaseFields, Zenon
  <2> HIDE DEF l, i
  <2>7. Fenced' /\ EpochStep
    BY <2>1, <2>4, Zenon DEF Fenced, LeaseFencesEpoch, JournalAndLease, EpochStep
  <2>8. PreparedBy = "NONE" /\ PreparedBy' = "NONE"
    BY <1>1, <2>1, Zenon DEF PreparedBy
  <2>9. Fence!Take(i) BY <2>1, <2>5, <2>6, <2>8, Zenon DEF Fence!Take
  <2> QED BY <2>5, <2>7, <2>9, Zenon DEF FenceKept, Fence!Next
<1> HIDE DEF g
<1> QED BY <1>2, <1>3, NothingFence, Zenon

LEMMA ReleasePreCallFence ==
  ASSUME TypeInv, Fenced, ReleasePreCall
  PROVE FenceKept
<1> DEFINE x == [global.index EXCEPT ![BehaviourOf[me]] = Unreserved(@, me)]
           g == [[global EXCEPT !.lease = NoLease] EXCEPT !.index = x]
<1>1. CASE ~(HoldsLease(me) /\ lease.state = "NOT_CALLED")
  BY <1>1, NothingFence, Zenon DEF ReleasePreCall, Skip
<1>2. CASE HoldsLease(me) /\ lease.state = "NOT_CALLED"
  <2>1. PutGlobal([Released EXCEPT !.index[BehaviourOf[me]] = Unreserved(@, me)]) \/ Nothing
    BY <1>2, Zenon DEF ReleasePreCall, Step, Fault
  <2>2. g = [Released EXCEPT !.index[BehaviourOf[me]] = Unreserved(@, me)]
    <3>1. Released.index = global.index
      BY DEF TypeInv, Released, DurableOK, Global
    <3> QED BY <3>1 DEF Released
  <2>3. PutGlobal(g) \/ Nothing BY <2>1, <2>2
  <2>4. ASSUME PutGlobal(g) PROVE FenceKept
    <3>1. epoch' = epoch /\ journal' = journal /\ lease' = NoLease
      <4> HIDE DEF x
      <4> QED BY <2>4, PutLeaseIndex, Zenon DEF TypeInv
    <3>2. lease # NoLease BY <1>2, LeaseNames, Zenon
    <3> QED BY <1>2, <3>1, <3>2, FenceReleased, Zenon
  <2> HIDE DEF g
  <2> QED BY <2>3, <2>4, NothingFence, Zenon
<1> QED BY <1>1, <1>2, Zenon

(* The lease moves on, and nothing else of what is fenced. *)
LEMMA MoveFence ==
  ASSUME TypeInv, Fenced, journal = NoJournal, lease # NoLease, NEW s \in LeaseStates,
         OwnMutations[s] = OwnMutations[lease.state],
         PutGlobal([global EXCEPT !.lease.state = s]) \/ Nothing
  PROVE FenceKept
<1> DEFINE l == [lease EXCEPT !.state = s]
           g == [global EXCEPT !.lease = l]
<1>1. g = [global EXCEPT !.lease.state = s] BY DEF lease
<1>2. PutGlobal(g) \/ Nothing BY <1>1
<1>3. ASSUME PutGlobal(g) PROVE FenceKept
  <2>1. epoch' = epoch /\ journal' = journal /\ lease' = l
    <3> HIDE DEF l
    <3> QED BY <1>3, PutLease, Zenon DEF TypeInv
  <2> QED BY <2>1, FenceMoved, Zenon
<1> HIDE DEF g
<1> QED BY <1>2, <1>3, NothingFence, Zenon

LEMMA MarkReservedFence ==
  ASSUME TypeInv, Fenced, MarkReserved
  PROVE FenceKept
<1>1. CASE HoldsLease(me) /\ lease.state = "NOT_CALLED" /\ journal = NoJournal
  <2>1. PutGlobal([global EXCEPT !.lease.state = "CALL_RESERVED"]) \/ Nothing
    BY <1>1, Zenon DEF MarkReserved, Step, Fault
  <2>2. lease # NoLease /\ "CALL_RESERVED" \in LeaseStates
    BY <1>1, LeaseNames, Zenon
  <2>3. OwnMutations["CALL_RESERVED"] = OwnMutations[lease.state]
    BY <1>1, OwnMutationsAt, Zenon
  <2> QED BY <1>1, <2>1, <2>2, <2>3, MoveFence, Zenon
<1>2. CASE ~(HoldsLease(me) /\ lease.state = "NOT_CALLED" /\ journal = NoJournal)
  BY <1>2, NothingFence, Zenon DEF MarkReserved, Skip
<1> QED BY <1>1, <1>2, Zenon

LEMMA AuthorizeLeaseFence ==
  ASSUME TypeInv, Fenced, AuthorizeLease
  PROVE FenceKept
<1>1. CASE HoldsLease(me) /\ lease.state \in ResultStates /\ journal = NoJournal
  <2>1. PutGlobal([global EXCEPT !.lease.state = "PROPOSAL_COMMIT_AUTHORIZED"]) \/ Nothing
    BY <1>1, Zenon DEF AuthorizeLease, Step, Fault
  <2>2. lease # NoLease /\ "PROPOSAL_COMMIT_AUTHORIZED" \in LeaseStates
    BY <1>1, LeaseNames, Zenon
  <2>3. OwnMutations["PROPOSAL_COMMIT_AUTHORIZED"] = OwnMutations[lease.state]
    BY <1>1, OwnMutationsAt, Zenon DEF ResultStates
  <2> QED BY <1>1, <2>1, <2>2, <2>3, MoveFence, Zenon
<1>2. CASE ~(HoldsLease(me) /\ lease.state \in ResultStates /\ journal = NoJournal)
  BY <1>2, NothingFence, Zenon DEF AuthorizeLease, Skip
<1> QED BY <1>1, <1>2, Zenon

LEMMA IndexActiveFence ==
  ASSUME TypeInv, Fenced, IndexActive
  PROVE FenceKept
<1> DEFINE l == [lease EXCEPT !.state = "ACTIVE_COMPLETE"]
           x == [global.index EXCEPT ![BehaviourOf[me]].state = "ACTIVE"]
           g == [[global EXCEPT !.index = x] EXCEPT !.lease = l]
<1>1. CASE ~(ActiveByMe /\ lease.state \in BodyStates)
  BY <1>1, NothingFence, Zenon DEF IndexActive, Skip
<1>2. CASE ActiveByMe /\ lease.state \in BodyStates
  <2>1. PutGlobal([global EXCEPT !.index[BehaviourOf[me]].state = "ACTIVE",
                                 !.lease.state = "ACTIVE_COMPLETE"]) \/ Nothing
    BY <1>2, Zenon DEF IndexActive, Step, Fault
  <2>2. g = [global EXCEPT !.index[BehaviourOf[me]].state = "ACTIVE",
                           !.lease.state = "ACTIVE_COMPLETE"]
    <3>1. global \in Global BY Zenon DEF TypeInv, DurableOK
    <3> QED BY <3>1 DEF lease, Global
  <2>3. PutGlobal(g) \/ Nothing BY <2>1, <2>2
  <2>4. journal = NoJournal BY <1>2, Zenon DEF ActiveByMe
  <2>5. lease # NoLease /\ "ACTIVE_COMPLETE" \in LeaseStates
    BY <1>2, LeaseNames, Zenon
  <2>6. OwnMutations["ACTIVE_COMPLETE"] = OwnMutations[lease.state]
    BY <1>2, OwnMutationsAt, Zenon DEF BodyStates
  <2>7. ASSUME PutGlobal(g) PROVE FenceKept
    <3>1. epoch' = epoch /\ journal' = journal /\ lease' = l
      <4> HIDE DEF l, x
      <4> QED BY <2>7, PutIndexLease, Zenon DEF TypeInv
    <3> QED BY <2>4, <2>5, <2>6, <3>1, FenceMoved, Zenon
  <2> HIDE DEF g
  <2> QED BY <2>3, <2>7, NothingFence, Zenon
<1> QED BY <1>1, <1>2, Zenon

(* The lease of a finished or stale generation is given up. *)
LEMMA ReleaseFence ==
  ASSUME TypeInv, Fenced, journal = NoJournal, lease # NoLease, PutGlobal(Released) \/ Nothing
  PROVE FenceKept
<1>1. ASSUME PutGlobal(Released) PROVE FenceKept
  <2>1. epoch' = epoch /\ journal' = journal /\ lease' = NoLease
    BY <1>1, PutLease, Zenon DEF TypeInv, Released
  <2> QED BY <2>1, FenceReleased, Zenon
<1> QED BY <1>1, NothingFence, Zenon

LEMMA ReleaseStaleFence ==
  ASSUME TypeInv, Fenced, ReleaseStale
  PROVE FenceKept
<1>1. CASE HoldsLease(me) /\ lease.state \in ResultStates /\ journal = NoJournal
  <2>1. PutGlobal(Released) \/ Nothing
    BY <1>1, Zenon DEF ReleaseStale, Step, Fault
  <2>2. lease # NoLease BY <1>1, LeaseNames, Zenon
  <2> QED BY <1>1, <2>1, <2>2, ReleaseFence, Zenon
<1>2. CASE ~(HoldsLease(me) /\ lease.state \in ResultStates /\ journal = NoJournal)
  BY <1>2, NothingFence, Zenon DEF ReleaseStale, Step, Fault
<1> QED BY <1>1, <1>2, Zenon

LEMMA CompleteFence ==
  ASSUME TypeInv, Fenced, Complete
  PROVE FenceKept
<1>1. CASE ActiveByMe /\ lease.state = "ACTIVE_COMPLETE" /\ IndexOf(me).state = "ACTIVE"
  <2>1. PutGlobal(Released) \/ Nothing
    BY <1>1, Zenon DEF Complete, Step, Fault
  <2>2. lease # NoLease /\ journal = NoJournal
    BY <1>1, LeaseNames, Zenon DEF BodyStates, ActiveByMe
  <2> QED BY <2>1, <2>2, ReleaseFence, Zenon
<1>2. CASE ~(ActiveByMe /\ lease.state = "ACTIVE_COMPLETE" /\ IndexOf(me).state = "ACTIVE")
  BY <1>2, NothingFence, Zenon DEF Complete, Skip
<1> QED BY <1>1, <1>2, Zenon

(* The journal of a mutation that is given up is cleared. *)
LEMMA ClearFence ==
  ASSUME TypeInv, Fenced, PutGlobal([global EXCEPT !.journal = NoJournal]) \/ Nothing
  PROVE FenceKept
<1>1. ASSUME PutGlobal([global EXCEPT !.journal = NoJournal]) PROVE FenceKept
  <2>1. epoch' = epoch /\ journal' = NoJournal /\ lease' = lease
    BY <1>1, PutJournal, Zenon DEF TypeInv
  <2> QED BY <2>1, FenceCleared, Zenon
<1> QED BY <1>1, NothingFence, Zenon

LEMMA AbandonFence ==
  ASSUME TypeInv, Fenced, Abandon
  PROVE FenceKept
<1>1. PutGlobal([global EXCEPT !.journal = NoJournal]) \/ Nothing
  BY Zenon DEF Abandon, Step, Fault
<1> QED BY <1>1, ClearFence, Zenon

LEMMA RecoverFence ==
  ASSUME TypeInv, Fenced, Recover
  PROVE FenceKept
<1>1. PutGlobal([global EXCEPT !.journal = NoJournal]) \/ Nothing
  BY Zenon DEF Recover, Step, Skip, Fault
<1> QED BY <1>1, ClearFence, Zenon

LEMMA DropFence ==
  ASSUME TypeInv, Fenced, Drop
  PROVE FenceKept
<1>1. PutGlobal([global EXCEPT !.journal = NoJournal]) \/ Nothing
  BY Zenon DEF Drop, DeskStep, Fault
<1> QED BY <1>1, ClearFence, Zenon

LEMMA StrandFence ==
  ASSUME TypeInv, Fenced, Strand
  PROVE FenceKept
<1> DEFINE i == Earliest(InStage("LEASED"))
           x == [b \in Behaviour |->
                   IF global.index[b] = [owner |-> i, state |-> "RESERVED"] THEN NoEntry
                   ELSE global.index[b]]
           g == [global EXCEPT !.index = x]
<1>1. CASE InStage("LEASED") = {}
  BY <1>1, NothingFence, Zenon DEF Strand, Skip
<1>2. CASE InStage("LEASED") # {}
  <2>1. PutGlobal([global EXCEPT !.index = [b \in Behaviour |->
                      IF @[b] = [owner |-> i, state |-> "RESERVED"] THEN NoEntry ELSE @[b]]])
        \/ Nothing
    BY <1>2, Zenon DEF Strand, Step, Fault
  <2>2. PutGlobal(g) \/ Nothing BY <2>1
  <2>3. ASSUME PutGlobal(g) PROVE FenceKept
    <3>1. epoch' = epoch /\ journal' = journal /\ lease' = lease
      <4> HIDE DEF x
      <4> QED BY <2>3, PutIndex, Zenon DEF TypeInv
    <3> QED BY <3>1, FenceSame, Zenon
  <2> HIDE DEF g
  <2> QED BY <2>2, <2>3, NothingFence, Zenon
<1> QED BY <1>1, <1>2, Zenon

LEMMA PrepareOutcomeFence ==
  ASSUME TypeInv, Fenced, PrepareOutcome
  PROVE FenceKept
<1> DEFINE j == [kind |-> OutcomeKind, owner |-> Own(me), at |-> epoch]
<1>1. \/ Nothing
      \/ /\ HoldsLease(me) /\ lease.state = "CALL_RESERVED" /\ journal = NoJournal
         /\ PutGlobal([global EXCEPT !.journal = j])
  BY Zenon DEF PrepareOutcome, CatalogIs, CatalogComplete, Step, Skip, Fault
<1>2. ASSUME HoldsLease(me), lease.state = "CALL_RESERVED", journal = NoJournal,
             PutGlobal([global EXCEPT !.journal = j])
      PROVE FenceKept
  <2>1. epoch' = epoch /\ journal' = j /\ lease' = lease
    <3> HIDE DEF j
    <3> QED BY <1>2, PutJournal, Zenon DEF TypeInv
  <2>2. OutcomeKind \in {"GENERATION_RESULT", "BARRIER"}
    BY Zenon DEF OutcomeKind
  <2>3. <<lease.i, lease.round>> = Own(me)
    BY <1>2, Zenon DEF HoldsLease, Own
  <2> QED BY <1>2, <2>1, <2>2, <2>3, FencePrepared, Zenon
<1> HIDE DEF j
<1> QED BY <1>1, <1>2, NothingFence, Zenon

LEMMA PrepareProposalFence ==
  ASSUME TypeInv, Fenced, PrepareProposal
  PROVE FenceKept
<1> DEFINE j == ProposalJournal(me)
<1>1. \/ Nothing
      \/ /\ HoldsLease(me) /\ lease.state = "PROPOSAL_COMMIT_AUTHORIZED"
         /\ epoch = mine.epoch + 1 /\ journal = NoJournal
         /\ PutGlobal([global EXCEPT !.journal = j])
  BY Zenon DEF PrepareProposal, CatalogIsSealed, CatalogComplete, Step, Skip, Fault
<1>2. ASSUME HoldsLease(me), lease.state = "PROPOSAL_COMMIT_AUTHORIZED", epoch = mine.epoch + 1,
             journal = NoJournal, PutGlobal([global EXCEPT !.journal = j])
      PROVE FenceKept
  <2>1. epoch' = epoch /\ journal' = j /\ lease' = lease
    <3> HIDE DEF j
    <3> QED BY <1>2, PutJournal, Zenon DEF TypeInv
  <2>2. j = [kind |-> "PROPOSAL", owner |-> Own(me), at |-> epoch]
    BY <1>2, Zenon DEF ProposalJournal, mine
  <2>3. <<lease.i, lease.round>> = Own(me)
    BY <1>2, Zenon DEF HoldsLease, Own
  <2> HIDE DEF j
  <2> QED BY <1>2, <2>1, <2>2, <2>3, FencePrepared, Zenon
<1> HIDE DEF j
<1> QED BY <1>1, <1>2, NothingFence, Zenon

LEMMA FinalizeOutcomeFence ==
  ASSUME TypeInv, Fenced, FinalizeOutcome
  PROVE FenceKept
<1> DEFINE s == "RESULT_COMMITTED"
           l == IF worker.fate = "RESULT" THEN [lease EXCEPT !.state = s] ELSE NoLease
<1>1. \/ Nothing
      \/ /\ JournalIs(OutcomeKind, Own(me))
         /\ PutGlobal([Advanced EXCEPT
                         !.lease = IF worker.fate = "RESULT"
                                   THEN [@ EXCEPT !.state = "RESULT_COMMITTED"] ELSE NoLease])
  BY Zenon DEF FinalizeOutcome, Step, Skip, Fault
<1>2. [Advanced EXCEPT !.lease = l] =
           [Advanced EXCEPT !.lease = IF worker.fate = "RESULT"
                                      THEN [@ EXCEPT !.state = "RESULT_COMMITTED"] ELSE NoLease]
  <2>1. Advanced.lease = lease BY AdvancedFields, Zenon DEF TypeInv
  <2> QED BY <2>1
<1>3. \/ Nothing
      \/ JournalIs(OutcomeKind, Own(me)) /\ PutGlobal([Advanced EXCEPT !.lease = l])
  BY <1>1, <1>2
<1>4. ASSUME JournalIs(OutcomeKind, Own(me)), PutGlobal([Advanced EXCEPT !.lease = l])
      PROVE FenceKept
  <2>1. epoch' = epoch + 1 /\ journal' = NoJournal /\ lease' = l
    <3> HIDE DEF l
    <3> QED BY <1>4, PutAdvanced, Zenon DEF TypeInv
  <2>2. journal.kind \in {"GENERATION_RESULT", "BARRIER"}
    <3>1. journal.kind = OutcomeKind BY <1>4 DEF JournalIs
    <3> QED BY <3>1, Zenon DEF OutcomeKind
  <2>3. journal # NoJournal BY <2>2 DEF NoJournal
  <2>4. lease.state = "CALL_RESERVED"
    BY <2>2, <2>3, Zenon DEF Fenced, JournalAndLease
  <2>5. lease # NoLease /\ s \in LeaseStates BY <2>4, LeaseNames, Zenon
  <2>6. OwnMutations[s] = OwnMutations[lease.state] + 1
    BY <2>4, OwnMutationsAt
  <2> HIDE DEF s
  <2>7. \/ lease' = NoLease
        \/ lease' = [lease EXCEPT !.state = s]
    BY <2>1, Zenon
  <2>8. \/ lease' = NoLease
        \/ /\ lease # NoLease
           /\ journal.kind \in {"GENERATION_RESULT", "BARRIER", "PROPOSAL"}
           /\ \E t \in LeaseStates : /\ OwnMutations[t] = OwnMutations[lease.state] + 1
                                     /\ lease' = [lease EXCEPT !.state = t]
    BY <2>2, <2>5, <2>6, <2>7, Zenon
  <2> QED BY <2>1, <2>3, <2>8, FenceAdvanced, Zenon
<1> HIDE DEF l
<1> QED BY <1>3, <1>4, NothingFence, Zenon

LEMMA FinalizeBodyFence ==
  ASSUME TypeInv, Fenced, FinalizeBody
  PROVE FenceKept
<1> DEFINE s == "BODY_COMMITTED_INDEX_PENDING"
           l == [lease EXCEPT !.state = s]
<1>1. \/ Nothing
      \/ /\ journal = ProposalJournal(me) /\ lease.state = "PROPOSAL_COMMIT_AUTHORIZED"
         /\ PutGlobal([Advanced EXCEPT !.lease.state = "BODY_COMMITTED_INDEX_PENDING"])
  BY Zenon DEF FinalizeBody, Try, Skip, Fault
<1>2. [Advanced EXCEPT !.lease = l] =
           [Advanced EXCEPT !.lease.state = "BODY_COMMITTED_INDEX_PENDING"]
  <2>1. Advanced.lease = lease BY AdvancedFields, Zenon DEF TypeInv
  <2> QED BY <2>1
<1>3. \/ Nothing
      \/ /\ journal = ProposalJournal(me) /\ lease.state = "PROPOSAL_COMMIT_AUTHORIZED"
         /\ PutGlobal([Advanced EXCEPT !.lease = l])
  BY <1>1, <1>2
<1>4. ASSUME journal = ProposalJournal(me), lease.state = "PROPOSAL_COMMIT_AUTHORIZED",
             PutGlobal([Advanced EXCEPT !.lease = l])
      PROVE FenceKept
  <2>1. epoch' = epoch + 1 /\ journal' = NoJournal /\ lease' = l
    <3> HIDE DEF l
    <3> QED BY <1>4, PutAdvanced, Zenon DEF TypeInv
  <2>2. journal # NoJournal BY <1>4 DEF NoJournal, ProposalJournal
  <2>3. lease # NoLease /\ s \in LeaseStates BY <1>4, LeaseNames, Zenon
  <2>4. OwnMutations[s] = OwnMutations[lease.state] + 1
    BY <1>4, OwnMutationsAt
  <2> HIDE DEF s
  <2>5. \E t \in LeaseStates : /\ OwnMutations[t] = OwnMutations[lease.state] + 1
                               /\ lease' = [lease EXCEPT !.state = t]
    BY <2>1, <2>3, <2>4, Zenon
  <2>6. journal.kind = "PROPOSAL" BY <1>4 DEF ProposalJournal
  <2>7. journal.kind \in {"GENERATION_RESULT", "BARRIER", "PROPOSAL"}
    BY <2>6
  <2> QED BY <2>1, <2>2, <2>3, <2>5, <2>7, FenceAdvanced, Zenon
<1> HIDE DEF l
<1> QED BY <1>3, <1>4, NothingFence, Zenon

LEMMA PreparedByUser ==
  ASSUME TypeInv, Fenced, NEW kind, NEW owner, NEW step, NEW i,
         Prepare([kind |-> kind, owner |-> owner, at |-> epoch], step, i),
         \/ journal = [kind |-> kind, owner |-> owner, at |-> epoch]
         \/ /\ journal = NoJournal
            /\ \/ kind = "REVIEW" /\ lease = NoLease
               \/ kind = "USER_ACTION" /\ (lease = NoLease \/ owner = <<lease.i, 0>>)
  PROVE FenceKept
<1> DEFINE j == [kind |-> kind, owner |-> owner, at |-> epoch]
<1>1. Nothing \/ PutGlobal([global EXCEPT !.journal = j])
  BY Zenon DEF Prepare, Fault
<1>2. ASSUME PutGlobal([global EXCEPT !.journal = j]) PROVE FenceKept
  <2>1. epoch' = epoch /\ journal' = j /\ lease' = lease
    <3> HIDE DEF j
    <3> QED BY <1>2, PutJournal, Zenon DEF TypeInv
  <2>2. CASE journal = j BY <2>1, <2>2, FenceSame, Zenon
  <2>3. CASE /\ journal = NoJournal
             /\ \/ kind = "REVIEW" /\ lease = NoLease
                \/ kind = "USER_ACTION" /\ (lease = NoLease \/ owner = <<lease.i, 0>>)
    BY <2>1, <2>3, FencePrepared, Zenon
  <2> QED BY <2>2, <2>3, Zenon
<1> HIDE DEF j
<1> QED BY <1>1, <1>2, NothingFence, Zenon

LEMMA RefreshProposalFence ==
  ASSUME TypeInv, Fenced, NEW b \in Behaviour, RefreshProposal(b)
  PROVE FenceKept
<1> DEFINE owner == LastOwner(lineages[b])
<1>1. /\ (lease = NoLease /\ journal = NoJournal) \/ journal = UserAction(owner)
      /\ Prepare(UserAction(owner), "refreshLineage", lineages[b].owner)
  BY Zenon DEF RefreshProposal, CatalogIsFree
<1> HIDE DEF owner
<1>2. UserAction(owner) = [kind |-> "USER_ACTION", owner |-> owner, at |-> epoch]
  BY Zenon DEF UserAction
<1> QED BY <1>1, <1>2, PreparedByUser, Zenon

LEMMA DismissFence ==
  ASSUME TypeInv, Fenced, NEW i \in Intent, Dismiss(i)
  PROVE FenceKept
<1>1. /\ \/ journal = NoJournal /\ (lease = NoLease \/ lease.i = i)
         \/ journal = UserAction(<<i, 0>>)
      /\ Prepare(UserAction(<<i, 0>>), "dismissIntent", i)
  BY Zenon DEF Dismiss, LeaseIsFreeOf
<1>2. UserAction(<<i, 0>>) = [kind |-> "USER_ACTION", owner |-> <<i, 0>>, at |-> epoch]
  BY Zenon DEF UserAction
<1> DEFINE owner == <<i, 0>>
<1>3. lease.i = i => owner = <<lease.i, 0>> OBVIOUS
<1> HIDE DEF owner
<1>4. Prepare([kind |-> "USER_ACTION", owner |-> owner, at |-> epoch], "dismissIntent", i)
  BY <1>1, <1>2 DEF owner
<1>5. \/ journal = NoJournal /\ (lease = NoLease \/ owner = <<lease.i, 0>>)
      \/ journal = [kind |-> "USER_ACTION", owner |-> owner, at |-> epoch]
  BY <1>1, <1>2, <1>3 DEF owner
<1> QED BY <1>4, <1>5, PreparedByUser, Zenon

LEMMA RejectProposalFence ==
  ASSUME TypeInv, Fenced, NEW b \in Behaviour, RejectProposal(b)
  PROVE FenceKept
<1> DEFINE owner == LastOwner(lineages[b])
<1>1. /\ lease = NoLease /\ journal = NoJournal
      /\ Prepare(ReviewJournal(owner), "rejectLineage", lineages[b].owner)
  BY Zenon DEF RejectProposal, CatalogIsFree
<1> HIDE DEF owner
<1>2. ReviewJournal(owner) = [kind |-> "REVIEW", owner |-> owner, at |-> epoch]
  BY Zenon DEF ReviewJournal
<1> QED BY <1>1, <1>2, PreparedByUser, Zenon

LEMMA RefreshFinalFence ==
  ASSUME TypeInv, Fenced, RefreshFinal
  PROVE FenceKept
<1> DEFINE i == desk.i
           x == [global.index EXCEPT ![BehaviourOf[i]].state = "RESERVED"]
           g == [Advanced EXCEPT !.index = x]
<1>1. \/ Nothing
      \/ /\ journal = UserAction(<<i, 1>>)
         /\ PutGlobal([Advanced EXCEPT !.index[BehaviourOf[i]].state = "RESERVED"])
  BY Zenon DEF RefreshFinal, DeskStep, DeskFails, Fault
<1>2. g = [Advanced EXCEPT !.index[BehaviourOf[i]].state = "RESERVED"]
  <2>1. Advanced.index = global.index
    BY AdvancedFields, Zenon DEF TypeInv
  <2> QED BY <2>1
<1>3. Nothing \/ (journal = UserAction(<<i, 1>>) /\ PutGlobal(g))
  BY <1>1, <1>2
<1>4. ASSUME journal = UserAction(<<i, 1>>), PutGlobal(g) PROVE FenceKept
  <2>1. epoch' = epoch + 1 /\ journal' = NoJournal /\ lease' = lease
    <3> HIDE DEF x
    <3> QED BY <1>4, PutAdvanced, Zenon DEF TypeInv
  <2>2. journal.kind = "USER_ACTION" /\ journal.owner = <<i, 1>>
    <3> HIDE DEF i
    <3> QED BY <1>4 DEF UserAction
  <2>3. journal # NoJournal BY <2>2 DEF NoJournal
  <2>4. lease = NoLease
    <3>1. lease = NoLease \/ journal.owner = <<lease.i, 0>>
      BY <2>2, <2>3, Zenon DEF Fenced, JournalAndLease
    <3> HIDE DEF i
    <3> QED BY <2>2, <3>1
  <2> QED BY <2>1, <2>3, <2>4, FenceAdvanced, Zenon
<1> HIDE DEF g
<1> QED BY <1>3, <1>4, NothingFence, Zenon

LEMMA DismissFinalFence ==
  ASSUME TypeInv, Fenced, DismissFinal
  PROVE FenceKept
<1> DEFINE x == [b \in Behaviour |-> Unreserved(global.index[b], desk.i)]
           g == [[Advanced EXCEPT !.lease = NoLease] EXCEPT !.index = x]
<1>1. \/ Nothing
      \/ /\ journal = UserAction(<<desk.i, 0>>)
         /\ PutGlobal([Advanced EXCEPT !.lease = NoLease, !.index =
                         [b \in Behaviour |-> Unreserved(@[b], desk.i)]])
  BY Zenon DEF DismissFinal, DeskStep, DeskSkip, DeskFails, Fault
<1>2. g = [Advanced EXCEPT !.lease = NoLease, !.index =
                 [b \in Behaviour |-> Unreserved(@[b], desk.i)]]
  <2>1. Advanced.index = global.index
    BY AdvancedFields, Zenon DEF TypeInv
  <2> QED BY <2>1
<1>3. Nothing \/ (journal = UserAction(<<desk.i, 0>>) /\ PutGlobal(g))
  BY <1>1, <1>2
<1>4. ASSUME journal = UserAction(<<desk.i, 0>>), PutGlobal(g) PROVE FenceKept
  <2>1. epoch' = epoch + 1 /\ journal' = NoJournal /\ lease' = NoLease
    <3> HIDE DEF x
    <3> QED BY <1>4, PutAdvanced, Zenon DEF TypeInv
  <2>2. journal # NoJournal BY <1>4 DEF UserAction, NoJournal
  <2> QED BY <2>1, <2>2, FenceAdvanced, Zenon
<1> HIDE DEF g
<1> QED BY <1>3, <1>4, NothingFence, Zenon

LEMMA RejectFinalFence ==
  ASSUME TypeInv, Fenced, RejectFinal
  PROVE FenceKept
<1> DEFINE owner == LastOwner(Line(desk.i))
<1>1. Nothing \/ (journal = ReviewJournal(owner) /\ PutGlobal(Advanced))
  BY Zenon DEF RejectFinal, DeskStep, DeskFails, Fault
<1> HIDE DEF owner
<1>2. ASSUME journal = ReviewJournal(owner), PutGlobal(Advanced) PROVE FenceKept
  <2>1. epoch' = epoch + 1 /\ journal' = NoJournal /\ lease' = lease
    BY <1>2, PutAdvanced, Zenon DEF TypeInv
  <2>2. journal.kind = "REVIEW" BY <1>2 DEF ReviewJournal
  <2>3. journal # NoJournal BY <2>2 DEF NoJournal
  <2>4. lease = NoLease BY <2>2, <2>3, Zenon DEF Fenced, JournalAndLease
  <2> QED BY <2>1, <2>3, <2>4, FenceAdvanced, Zenon
<1> QED BY <1>1, <1>2, NothingFence, Zenon

LEMMA WorkerFence ==
  ASSUME TypeInv, Fenced, Worker
  PROVE FenceKept
<1>1. \/ QuietWorker
      \/ Acquire \/ ReleasePreCall \/ MarkReserved \/ PrepareOutcome \/ FinalizeOutcome
      \/ ReleaseStale \/ AuthorizeLease \/ PrepareProposal \/ FinalizeBody \/ Abandon
      \/ IndexActive \/ Complete \/ Recover \/ Strand
  BY Zenon DEF Worker, QuietWorker, EarlierStages, LeaseSteps, Calling, Committing, Recovering
<1> QED BY <1>1, QuietWorkerKeepsGlobal, KeptFence, AcquireFence, ReleasePreCallFence,
           MarkReservedFence, PrepareOutcomeFence, FinalizeOutcomeFence, ReleaseStaleFence,
           AuthorizeLeaseFence, PrepareProposalFence, FinalizeBodyFence, AbandonFence,
           IndexActiveFence, CompleteFence, RecoverFence, StrandFence, Zenon

LEMMA NextFence ==
  ASSUME TypeInv, Fenced, [Next]_vars
  PROVE FenceKept
<1>1. CASE Worker BY <1>1, WorkerFence, Zenon
<1>2. CASE \/ QuietDesk
           \/ RefreshFinal \/ DismissFinal \/ RejectFinal \/ Drop
           \/ \E b \in Behaviour : RefreshProposal(b) \/ RejectProposal(b)
           \/ \E i \in Intent : Dismiss(i)
  BY <1>2, QuietDeskKeepsGlobal, KeptFence, RefreshFinalFence, DismissFinalFence,
     RejectFinalFence, DropFence, RefreshProposalFence, RejectProposalFence, DismissFence, Zenon
<1>3. CASE UNCHANGED vars
  <2>1. global' = global BY <1>3, Zenon DEF vars, durable
  <2> QED BY <2>1, KeptFence, Zenon
<1> QED BY <1>1, <1>2, <1>3, Zenon DEF Next, Mutating, User, QuietDesk

LEMMA InitFence == Init => Fenced
<1> SUFFICES ASSUME Init PROVE Fenced OBVIOUS
<1>1. journal = NoJournal /\ lease = NoLease BY DEF Init, journal, lease
<1> QED BY <1>1, Zenon DEF Fenced, LeaseFencesEpoch, JournalAndLease

LEMMA FenceInvariant == Spec => []Fenced
<1>1. TypeInv /\ Fenced /\ [Next]_vars => TypeInv' /\ Fenced'
  BY NextType, NextFence, Zenon DEF FenceKept
<1> QED BY <1>1, InitType, InitFence, PTL DEF Spec

(* While a generation holds the lease, the epoch is the one it was taken at
   plus the mutations of its own that are sealed: no refresh, dismissal,
   rejection or other generation finalizes in between, whatever stops, throws
   or is recovered (generation-worker.ts #prepareMutation, #finalizeResult and
   #finalizeProposalBody, and the prepare of every other mutation).          *)
THEOREM EpochIsFenced == Spec => []LeaseFencesEpoch
<1>1. Fenced => LeaseFencesEpoch BY Zenon DEF Fenced
<1> QED BY <1>1, FenceInvariant, PTL

(* A prepared journal is of the current epoch, and the lease is held by the
   generation that prepared it, by the intent that is dismissed or by nobody,
   so whoever finds the journal at startup may finish or drop it.            *)
THEOREM JournalIsOwned == Spec => []JournalAndLease
<1>1. Fenced => JournalAndLease BY Zenon DEF Fenced
<1> QED BY <1>1, FenceInvariant, PTL

(* The epoch moves one at a time and only by the step that clears the journal
   prepared at that epoch: a reader that sees no journal and the same epoch
   before and after has seen no committed mutation in between.               *)
THEOREM EpochIsJournalled == Spec => EpochMovesUnderJournal
<1>1. Spec => [](TypeInv /\ Fenced)
  BY InitType, NextType, FenceInvariant, PTL DEF Spec
<1>2. TypeInv /\ Fenced /\ [Next]_vars =>
         [epoch' # epoch => /\ epoch' = epoch + 1
                            /\ journal.kind # "NONE" /\ journal.at = epoch
                            /\ journal' = NoJournal]_vars
  BY NextFence, Zenon DEF FenceKept, EpochStep
<1> QED BY <1>1, <1>2, PTL DEF Spec, EpochMovesUnderJournal

(* The global record is a catalog fence: while an intent holds the catalog, the
   one mutation prepared at a time is its own or the user's that gives this
   intent up, and nothing else is committed, for every set of intents and every
   order of steps, failed writes and crashes.                                *)
THEOREM FenceImplemented == Spec => ImplementsFence
<1>1. Init => Fence!Init
  <2> SUFFICES ASSUME Init PROVE Fence!Init OBVIOUS
  <2>1. journal = NoJournal /\ lease = NoLease /\ epoch = 0
    BY DEF Init, journal, lease, epoch
  <2> QED BY <2>1, NoLeaseFields, Zenon DEF Fence!Init, PreparedBy
<1>2. Spec => [](TypeInv /\ Fenced)
  BY InitType, NextType, FenceInvariant, PTL DEF Spec
<1>3. TypeInv /\ Fenced /\ [Next]_vars => [Fence!Next]_(Fence!vars)
  BY NextFence, Zenon DEF FenceKept
<1> QED BY <1>1, <1>2, <1>3, PTL DEF Spec, ImplementsFence, Fence!Spec

----
(* The inductive invariant. *)

(* The stages of a generation whose model call has not been reserved. *)
Uncalled == {"WAITING", "RECALLING", "COVERAGE", "AUTHORIZED", "LEASED"}
HoldingStages == {"CALL_RESERVED", "CALL_TERMINAL", "ATTENTION", "READY"} \cup SealedStages
DismissedStages == {"ATTENTION", "PRECALL", "DISCARDED"}

(* No generation is called twice, none before it is reserved, and none that a
   refresh has yet to start.                                                 *)
CallsCounted ==
    \A i \in Intent : \A r \in Round :
        /\ calls[<<i, r>>] <= 1
        /\ r > intents[i].round => calls[<<i, r>>] = 0
        /\ (r = intents[i].round /\ intents[i].stage \in Uncalled) => calls[<<i, r>>] = 0

(* Who is past its call, and whoever has the lease, owns the index entry. *)
HoldersIndexed == \A i \in Intent : Holding(i) => IndexOf(i).owner = i
LeaseIndexed == lease # NoLease => IndexOf(lease.i).owner = lease.i

(* What the worker knows of its intent and of the lease where it stands. *)
StageAt(w, rows, counts) ==
    /\ w.pc = "bind" => rows[w.i].stage = "AUTHORIZED"
    /\ w.pc \in {"beforeCall", "releasePreCall", "markReserved", "reserveCall"} =>
          rows[w.i].stage = "LEASED"
    /\ w.pc \in {"generate", "terminalCall"} => rows[w.i].stage = "CALL_RESERVED"
    /\ w.pc = "generate" => counts[<<w.i, rows[w.i].round>>] = 0
    /\ w.pc = "commit" => rows[w.i].stage = "CALL_TERMINAL"
LeaseAt(w, rows, l) ==
    /\ w.pc = "reserveCall" => l.i = w.i
    /\ (w.pc = "forceUnknown" /\ rows[w.i].stage \in {"AUTHORIZED", "LEASED"}) => l.i = w.i
    /\ w.pc \in {"strand", "strandReset"} => l = NoLease
PlaceOK(w, rows, l, counts) == StageAt(w, rows, counts) /\ LeaseAt(w, rows, l)
CarefulPcs == {"bind", "beforeCall", "releasePreCall", "markReserved", "reserveCall",
               "generate", "terminalCall", "commit", "forceUnknown", "strand", "strandReset"}

(* A dismissal is of an intent that has stopped. *)
DismissalOK(d, rows) ==
    /\ d.step = "dismissIntent" => rows[d.i].stage \in {"ATTENTION", "PRECALL"}
    /\ d.step = "dismissFinal" => rows[d.i].stage = "DISCARDED"

HoldersOK == CallsCounted /\ HoldersIndexed /\ LeaseIndexed
HolderInv ==
    /\ HoldersOK
    /\ PlaceOK(worker, intents, lease, calls)
    /\ DismissalOK(desk, intents)

LEMMA StageNames ==
  /\ Uncalled \cap HoldingStages = {}
  /\ "PRECALL" \notin Uncalled \cup HoldingStages
  /\ "DISCARDED" \notin Uncalled \cup HoldingStages
  /\ "COVERED" \notin Uncalled \cup HoldingStages
  /\ {"WAITING", "RECALLING", "COVERAGE", "AUTHORIZED", "LEASED"} = Uncalled
  /\ SealedStages \subseteq HoldingStages
  /\ {"CALL_RESERVED", "CALL_TERMINAL", "ATTENTION", "READY"} \subseteq HoldingStages
  /\ {"RESULT_COMMITTED", "PROPOSAL_COMMIT_AUTHORIZED", "PROPOSAL_BODY_COMMITTED"} = SealedStages
  /\ (SealedStages \cup Uncalled) \cap DismissedStages = {}
  /\ {"CALL_RESERVED", "CALL_TERMINAL", "READY", "COVERED"} \cap DismissedStages = {}
  /\ DismissedStages = {"ATTENTION", "PRECALL", "DISCARDED"}
  BY DEF Uncalled, HoldingStages, SealedStages, DismissedStages

LEMMA HoldingStage == \A i : Holding(i) <=> intents[i].stage \in HoldingStages
  BY Zenon DEF Holding, HoldingStages

(* Elsewhere the worker relies on nothing of the kind. *)
LEMMA CarelessPlace ==
  ASSUME NEW w, NEW rows, NEW l, NEW counts, w.pc \notin CarefulPcs
  PROVE PlaceOK(w, rows, l, counts)
  BY DEF PlaceOK, StageAt, LeaseAt, CarefulPcs

LEMMA IdlePlace ==
  ASSUME NEW rows, NEW l, NEW counts
  PROVE PlaceOK(Idle, rows, l, counts)
<1>1. Idle.pc \notin CarefulPcs BY DEF Idle, CarefulPcs
<1> QED BY <1>1, CarelessPlace, Zenon

LEMMA CarelessNames ==
  {"idle", "start", "resetPreCall", "prepare", "finalize", "fence", "revalidate",
   "authorizeIntent", "authorizeLease", "prepareProposal", "putLineage", "markBody",
   "finalizeBody", "failed", "rollback", "abandon", "abandonRetry", "markStale",
   "releaseStale", "activate", "indexActive", "complete"} \cap CarefulPcs = {}
  BY DEF CarefulPcs

LEMMA PlaceOf ==
  ASSUME TypeInv
  PROVE  \A pc : /\ At(pc).pc = pc /\ At(pc).i = me
                 /\ At(pc).fate = worker.fate /\ At(pc).expect = worker.expect
<1>1. worker \in WorkerSet BY MeOK, Zenon DEF WorkerOK
<1> QED BY <1>1 DEF At, me, WorkerSet

LEMMA PlaceOfWorking ==
  \A pc, i : /\ Working(pc, i).pc = pc /\ Working(pc, i).i = i
             /\ Working(pc, i).expect = NoLineage
             /\ \A f : /\ [Working(pc, i) EXCEPT !.fate = f].pc = pc
                       /\ [Working(pc, i) EXCEPT !.fate = f].i = i
             /\ \A e : /\ [Working(pc, i) EXCEPT !.expect = e].pc = pc
                       /\ [Working(pc, i) EXCEPT !.expect = e].i = i
                       /\ [Working(pc, i) EXCEPT !.expect = e].expect = e
  BY DEF Working, Idle

----
(* What each kind of write leaves. *)

(* An updated row keeps its round. *)
LEMMA RowFieldsKept ==
  ASSUME NEW S, NEW R, NEW E, NEW C, NEW D, NEW N, NEW B,
         NEW row \in [stage : S, round : R, epoch : E, call : C, decision : D,
                      reason : N, barrier : B]
  PROVE  /\ \A s : /\ [row EXCEPT !.stage = s].stage = s
                   /\ [row EXCEPT !.stage = s].round = row.round
         /\ \A e : /\ [row EXCEPT !.epoch = e].stage = row.stage
                   /\ [row EXCEPT !.epoch = e].round = row.round
         /\ \A d : /\ [row EXCEPT !.decision = d].stage = row.stage
                   /\ [row EXCEPT !.decision = d].round = row.round
         /\ \A s, d : /\ [row EXCEPT !.stage = s, !.decision = d].stage = s
                      /\ [row EXCEPT !.stage = s, !.decision = d].round = row.round
         /\ \A s, c : /\ [row EXCEPT !.stage = s, !.call = c].stage = s
                      /\ [row EXCEPT !.stage = s, !.call = c].round = row.round
         /\ \A s, c, d : /\ [row EXCEPT !.stage = s, !.call = c, !.decision = d].stage = s
                         /\ [row EXCEPT !.stage = s, !.call = c, !.decision = d].round = row.round
         /\ \A s, b : /\ [row EXCEPT !.stage = s, !.barrier = b].stage = s
                      /\ [row EXCEPT !.stage = s, !.barrier = b].round = row.round
         /\ \A s, n : /\ [row EXCEPT !.stage = s, !.reason = n].stage = s
                      /\ [row EXCEPT !.stage = s, !.reason = n].round = row.round
         /\ \A s, n, b : /\ [row EXCEPT !.stage = s, !.reason = n, !.barrier = b].stage = s
                         /\ [row EXCEPT !.stage = s, !.reason = n, !.barrier = b].round = row.round
         /\ \A s, c, n, b :
               /\ [row EXCEPT !.stage = s, !.call = c, !.reason = n, !.barrier = b].stage = s
               /\ [row EXCEPT !.stage = s, !.call = c, !.reason = n, !.barrier = b].round = row.round
  OBVIOUS

LEMMA RowMoves ==
  ASSUME NEW row \in IntentRow
  PROVE  /\ \A s : /\ [row EXCEPT !.stage = s].stage = s
                   /\ [row EXCEPT !.stage = s].round = row.round
         /\ \A e : /\ [row EXCEPT !.epoch = e].stage = row.stage
                   /\ [row EXCEPT !.epoch = e].round = row.round
         /\ \A d : /\ [row EXCEPT !.decision = d].stage = row.stage
                   /\ [row EXCEPT !.decision = d].round = row.round
         /\ \A s, d : /\ [row EXCEPT !.stage = s, !.decision = d].stage = s
                      /\ [row EXCEPT !.stage = s, !.decision = d].round = row.round
         /\ \A s, c : /\ [row EXCEPT !.stage = s, !.call = c].stage = s
                      /\ [row EXCEPT !.stage = s, !.call = c].round = row.round
         /\ PreCall(row).stage = "PRECALL" /\ PreCall(row).round = row.round
         /\ \A s, b : /\ [row EXCEPT !.stage = s, !.barrier = b].stage = s
                      /\ [row EXCEPT !.stage = s, !.barrier = b].round = row.round
         /\ \A s, n : /\ [row EXCEPT !.stage = s, !.reason = n].stage = s
                      /\ [row EXCEPT !.stage = s, !.reason = n].round = row.round
         /\ \A s, n, b : /\ [row EXCEPT !.stage = s, !.reason = n, !.barrier = b].stage = s
                         /\ [row EXCEPT !.stage = s, !.reason = n, !.barrier = b].round = row.round
         /\ \A s, c, n, b :
               /\ [row EXCEPT !.stage = s, !.call = c, !.reason = n, !.barrier = b].stage = s
               /\ [row EXCEPT !.stage = s, !.call = c, !.reason = n, !.barrier = b].round = row.round
<1>1. row \in [stage : Stages, round : Round, epoch : Epochs, call : Calls,
               decision : Decisions, reason : Reasons, barrier : Barrier]
  BY Zenon DEF IntentRow, Epochs, Decisions, Reasons
<1> QED BY <1>1, RowFieldsKept, Zenon DEF PreCall

LEMMA RowPut ==
  ASSUME DurableOK, NEW i \in Intent, NEW row, PutIntent(i, row)
  PROVE  /\ intents'[i] = row
         /\ \A j \in Intent : j # i => intents'[j] = intents[j]
         /\ global' = global /\ lineages' = lineages
<1>1. /\ intents' = [intents EXCEPT ![i] = row] /\ intents \in [Intent -> IntentRow]
      /\ global' = global /\ lineages' = lineages
  BY Zenon DEF PutIntent, DurableOK
<1> QED BY <1>1, Zenon

LEMMA NothingPut ==
  ASSUME Nothing
  PROVE intents' = intents /\ global' = global /\ lineages' = lineages
  BY Zenon DEF Nothing, durable

(* A row that moves within a generation: it never goes back before its call, and
   holds its behaviour only where it did or where the index is its own.      *)
RowKeeps(i, row) ==
    /\ row.round = intents[i].round
    /\ row.stage \in Uncalled => intents[i].stage \in Uncalled
    /\ row.stage \in HoldingStages =>
          intents[i].stage \in HoldingStages \/ IndexOf(i).owner = i

LEMMA SameHolders ==
  ASSUME HoldersOK, intents' = intents, global'.index = global.index, calls' = calls,
         lease' = NoLease \/ (lease # NoLease /\ lease'.i = lease.i)
  PROVE HoldersOK'
<1>1. CallsCounted' BY Zenon DEF HoldersOK, CallsCounted
<1>2. \A i : IndexOf(i)' = IndexOf(i) BY Zenon DEF IndexOf
<1>3. HoldersIndexed'
  BY <1>2, Zenon DEF HoldersOK, HoldersIndexed, Holding
<1>4. LeaseIndexed' BY Zenon DEF HoldersOK, LeaseIndexed, IndexOf
<1> QED BY <1>1, <1>3, <1>4, Zenon DEF HoldersOK

LEMMA NothingHolders ==
  ASSUME HoldersOK, intents' = intents, global' = global, calls' = calls
  PROVE HoldersOK'
<1>1. lease' = lease /\ global'.index = global.index BY Zenon DEF lease
<1> QED BY <1>1, SameHolders, Zenon

LEMMA RowHolders ==
  ASSUME DurableOK, HoldersOK, NEW i \in Intent, NEW row, RowKeeps(i, row),
         PutIntent(i, row) \/ Nothing, calls' = calls
  PROVE HoldersOK'
<1>1. CASE Nothing BY <1>1, NothingPut, NothingHolders, Zenon
<1>2. CASE PutIntent(i, row)
  <2>1. /\ intents'[i] = row /\ \A j \in Intent : j # i => intents'[j] = intents[j]
        /\ global' = global
    BY <1>2, RowPut, Zenon
  <2>2. lease' = lease /\ \A j : IndexOf(j)' = IndexOf(j)
    BY <2>1, Zenon DEF lease, IndexOf
  <2>3. CallsCounted'
    <3> SUFFICES ASSUME NEW j \in Intent, NEW r \in Round
                 PROVE  /\ calls[<<j, r>>] <= 1
                        /\ r > intents'[j].round => calls[<<j, r>>] = 0
                        /\ (r = intents'[j].round /\ intents'[j].stage \in Uncalled)
                              => calls[<<j, r>>] = 0
      BY Zenon DEF CallsCounted
    <3> QED BY <2>1, Zenon DEF HoldersOK, CallsCounted, RowKeeps
  <2>4. HoldersIndexed'
    <3> SUFFICES ASSUME NEW j \in Intent, Holding(j)' PROVE IndexOf(j)'.owner = j
      BY Zenon DEF HoldersIndexed
    <3>1. intents'[j].stage \in HoldingStages
      BY Zenon DEF Holding, HoldingStages
    <3>2. CASE j # i
      <4>1. Holding(j) BY <2>1, <3>1, <3>2, HoldingStage, Zenon
      <4> QED BY <2>2, <4>1, Zenon DEF HoldersOK, HoldersIndexed
    <3>3. CASE j = i
      <4>1. intents[i].stage \in HoldingStages \/ IndexOf(i).owner = i
        BY <2>1, <3>1, <3>3, Zenon DEF RowKeeps
      <4> QED BY <2>2, <3>3, <4>1, HoldingStage, Zenon DEF HoldersOK, HoldersIndexed
    <3> QED BY <3>2, <3>3, Zenon
  <2>5. LeaseIndexed'
    BY <2>1, <2>2, Zenon DEF HoldersOK, LeaseIndexed, IndexOf
  <2> QED BY <2>3, <2>4, <2>5, Zenon DEF HoldersOK
<1> QED BY <1>1, <1>2, Zenon

(* The journal, the lease or the index is written, and the rest of the global
   record is kept. *)
LEMMA KeptByGlobal ==
  ASSUME NEW g, PutGlobal(g)
  PROVE  /\ intents' = intents /\ lineages' = lineages
         /\ lease' = g.lease /\ journal' = g.journal /\ epoch' = g.epoch
         /\ global'.index = g.index
  BY Zenon DEF PutGlobal, lease, journal, epoch

LEMMA IndexOfGlobal ==
  ASSUME NEW g \in Global
  PROVE  /\ \A j : [g EXCEPT !.journal = j].index = g.index /\ [g EXCEPT !.journal = j].lease = g.lease
         /\ \A l : [g EXCEPT !.lease = l].index = g.index /\ [g EXCEPT !.lease = l].lease = l
         /\ \A x : [g EXCEPT !.index = x].index = x /\ [g EXCEPT !.index = x].lease = g.lease
         /\ \A x, l : /\ [[g EXCEPT !.index = x] EXCEPT !.lease = l].index = x
                      /\ [[g EXCEPT !.index = x] EXCEPT !.lease = l].lease = l
         /\ \A x, l : /\ [[g EXCEPT !.lease = l] EXCEPT !.index = x].index = x
                      /\ [[g EXCEPT !.lease = l] EXCEPT !.index = x].lease = l
<1> DEFINE X == [Behaviour -> Entry]
<1>1. g \in [epoch : Nat, journal : Journal, lease : Lease, index : X]
  BY Zenon DEF Global
<1> HIDE DEF X
<1> QED BY <1>1

LEMMA JournalHolders ==
  ASSUME DurableOK, HoldersOK, NEW j, PutGlobal([global EXCEPT !.journal = j]) \/ Nothing,
         calls' = calls
  PROVE HoldersOK' /\ intents' = intents /\ lease' = lease
<1>1. CASE Nothing BY <1>1, NothingPut, NothingHolders, Zenon DEF lease
<1>2. CASE PutGlobal([global EXCEPT !.journal = j])
  <2> DEFINE g == [global EXCEPT !.journal = j]
  <2>1. g.index = global.index /\ g.lease = lease
    BY IndexOfGlobal, Zenon DEF DurableOK, lease
  <2>2. PutGlobal(g) BY <1>2
  <2> HIDE DEF g
  <2>3. intents' = intents /\ lease' = lease /\ global'.index = global.index
    BY <2>1, <2>2, KeptByGlobal, Zenon
  <2> QED BY <2>3, SameHolders, Zenon
<1> QED BY <1>1, <1>2, Zenon

(* The lease moves to another state, or is given back. *)
LEMMA LeaseStateHolders ==
  ASSUME DurableOK, HoldersOK, lease # NoLease, NEW s \in LeaseStates,
         PutGlobal([global EXCEPT !.lease.state = s]) \/ Nothing, calls' = calls
  PROVE HoldersOK' /\ intents' = intents /\ lease' # NoLease /\ lease'.i = lease.i
<1>1. CASE Nothing BY <1>1, NothingPut, NothingHolders, Zenon DEF lease
<1>2. CASE PutGlobal([global EXCEPT !.lease.state = s])
  <2> DEFINE l == [lease EXCEPT !.state = s]
             g == [global EXCEPT !.lease = l]
  <2>1. l # NoLease /\ l.i = lease.i BY LeaseMoved, Zenon
  <2>2. PutGlobal(g) BY <1>2 DEF lease
  <2>3. g.index = global.index /\ g.lease = l
    <3> HIDE DEF l
    <3> QED BY IndexOfGlobal, Zenon DEF DurableOK
  <2> HIDE DEF g, l
  <2>4. intents' = intents /\ lease' = l /\ global'.index = global.index
    BY <2>2, <2>3, KeptByGlobal, Zenon
  <2>5. HoldersOK' BY <2>1, <2>4, SameHolders, Zenon
  <2> QED BY <2>1, <2>4, <2>5, Zenon
<1> QED BY <1>1, <1>2, Zenon

LEMMA ReleasedHolders ==
  ASSUME DurableOK, HoldersOK, PutGlobal(Released) \/ Nothing, calls' = calls
  PROVE HoldersOK' /\ intents' = intents
<1>1. CASE Nothing BY <1>1, NothingPut, NothingHolders, Zenon
<1>2. CASE PutGlobal(Released)
  <2>1. Released.index = global.index /\ Released.lease = NoLease
    BY IndexOfGlobal, Zenon DEF DurableOK, Released
  <2>2. intents' = intents /\ lease' = NoLease /\ global'.index = global.index
    BY <1>2, <2>1, KeptByGlobal, Zenon
  <2> QED BY <2>2, SameHolders, Zenon
<1> QED BY <1>1, <1>2, Zenon

----
(* A step of the worker, whatever it writes. *)

LEMMA PlaceFollows ==
  ASSUME HolderInv, HoldersOK', DismissalOK(desk, intents'), NEW w,
         Go(w) => PlaceOK(w, intents', lease', calls'),
         Go(w) \/ Thrown
  PROVE HolderInv'
<1>1. PlaceOK(worker', intents', lease', calls')
  <2>1. CASE Go(w)
    <3>1. worker' = w BY <2>1, Zenon DEF Go
    <3> QED BY <2>1, <3>1, Zenon
  <2>2. CASE Thrown
    <3>1. worker' = Idle BY <2>2, Zenon DEF Thrown
    <3> QED BY <3>1, IdlePlace, Zenon
  <2> QED BY <2>1, <2>2, Zenon
<1>2. desk' = desk BY Zenon DEF Go, Thrown
<1> QED BY <1>1, <1>2, Zenon DEF HolderInv

(* A row of an intent that has not stopped leaves the dismissals alone. *)
LEMMA RowDismissal ==
  ASSUME TypeInv, DismissalOK(desk, intents), NEW i \in Intent, NEW row,
         intents[i].stage \notin DismissedStages,
         PutIntent(i, row) \/ Nothing
  PROVE DismissalOK(desk, intents')
<1>1. CASE Nothing BY <1>1, NothingPut, Zenon
<1>2. CASE PutIntent(i, row)
  <2>1. \A j \in Intent : j # i => intents'[j] = intents[j]
    BY <1>2, RowPut, Zenon DEF TypeInv
  <2>2. desk.i \in Intent BY DeskFields, Zenon
  <2>3. desk.step \in {"dismissIntent", "dismissFinal"} => desk.i # i
    BY StageNames, Zenon DEF DismissalOK
  <2> QED BY <2>1, <2>2, <2>3, Zenon DEF DismissalOK
<1> QED BY <1>1, <1>2, Zenon

LEMMA RowWorkerStep ==
  ASSUME TypeInv, HolderInv, NEW i \in Intent, NEW row, RowKeeps(i, row),
         intents[i].stage \notin DismissedStages, NEW w,
         Step(PutIntent(i, row), w) \/ Try(PutIntent(i, row), w),
         PutIntent(i, row) /\ calls' = calls => PlaceOK(w, intents', lease', calls')
  PROVE HolderInv'
<1>1. \/ PutIntent(i, row) /\ Go(w)
      \/ (PutIntent(i, row) \/ Nothing) /\ (Thrown \/ Go(At("failed")))
  BY Zenon DEF Step, Try, Fault
<1>2. calls' = calls BY <1>1, Zenon DEF Go, Thrown
<1>3. HoldersOK' BY <1>1, <1>2, RowHolders, Zenon DEF TypeInv, HolderInv
<1>4. DismissalOK(desk, intents')
  BY <1>1, RowDismissal, Zenon DEF HolderInv
<1>5. PlaceOK(At("failed"), intents', lease', calls')
  BY CarelessPlace, CarelessNames, PlaceOf, Zenon
<1>6. CASE PutIntent(i, row) /\ Go(w)
  BY <1>2, <1>3, <1>4, <1>6, PlaceFollows, Zenon
<1>7. CASE Thrown \/ Go(At("failed"))
  BY <1>3, <1>4, <1>5, <1>7, PlaceFollows, Zenon
<1> QED BY <1>1, <1>6, <1>7, Zenon

LEMMA OtherWorkerStep ==
  ASSUME TypeInv, HolderInv, HoldersOK', intents' = intents, NEW w, Moves(w) \/ Tries(w),
         Go(w) => PlaceOK(w, intents', lease', calls')
  PROVE HolderInv'
<1>1. Go(w) \/ Thrown \/ Go(At("failed")) BY Zenon DEF Moves, Tries
<1>2. DismissalOK(desk, intents') BY Zenon DEF HolderInv
<1>3. PlaceOK(At("failed"), intents', lease', calls')
  BY CarelessPlace, CarelessNames, PlaceOf, Zenon
<1>4. CASE Go(w) \/ Thrown BY <1>2, <1>4, PlaceFollows, Zenon
<1>5. CASE Go(At("failed")) BY <1>2, <1>3, <1>5, PlaceFollows, Zenon
<1> QED BY <1>1, <1>4, <1>5, Zenon

LEMMA SkipWorkerStep ==
  ASSUME TypeInv, HolderInv, NEW w, Skip(w), PlaceOK(w, intents, lease, calls)
  PROVE HolderInv'
<1>1. Nothing /\ Moves(w) /\ calls' = calls BY Zenon DEF Skip, Moves, Go
<1>2. intents' = intents /\ global' = global /\ lease' = lease
  BY <1>1, NothingPut, Zenon DEF lease
<1>3. HoldersOK' BY <1>1, <1>2, NothingHolders, Zenon DEF HolderInv
<1> QED BY <1>1, <1>2, <1>3, OtherWorkerStep, Zenon

LEMMA KeptCalls ==
  /\ \A w : Moves(w) => calls' = calls
  /\ \A w : Tries(w) => calls' = calls
  BY Zenon DEF Moves, Tries, Go, Thrown

----
(* The stages before generation. *)

LEMMA DoneHolders ==
  ASSUME TypeInv, HolderInv, worker.pc = "idle", NEW i \in Intent, NEW row, RowKeeps(i, row),
         intents[i].stage \notin DismissedStages, Done(PutIntent(i, row))
  PROVE HolderInv'
<1>1. PutIntent(i, row) /\ calls' = calls /\ worker' = worker /\ desk' = desk
  BY Zenon DEF Done
<1>2. HoldersOK' BY <1>1, RowHolders, Zenon DEF TypeInv, HolderInv
<1>3. DismissalOK(desk, intents')
  BY <1>1, RowDismissal, Zenon DEF HolderInv
<1>4. PlaceOK(worker, intents', lease', calls')
  BY CarelessPlace, CarelessNames, Zenon
<1> QED BY <1>1, <1>2, <1>3, <1>4, Zenon DEF HolderInv

(* The row goes to the stage it stops at before the call. *)
LEMMA PreCallKeeps ==
  ASSUME DurableOK, NEW i \in Intent
  PROVE RowKeeps(i, PreCall(intents[i]))
<1>1. PreCall(intents[i]).stage = "PRECALL" /\ PreCall(intents[i]).round = intents[i].round
  BY RowFields, RowMoves, Zenon
<1>2. "PRECALL" \notin Uncalled /\ "PRECALL" \notin HoldingStages
  BY StageNames, Zenon
<1> QED BY <1>1, <1>2, Zenon DEF RowKeeps

LEMMA InStageRow ==
  ASSUME NEW stage, InStage(stage) # {}
  PROVE  /\ Earliest(InStage(stage)) \in Intent
         /\ intents[Earliest(InStage(stage))].stage = stage
<1>1. InStage(stage) \in SUBSET Intent BY Zenon DEF InStage
<1>2. Earliest(InStage(stage)) \in InStage(stage)
  BY <1>1, EarliestInSet, Zenon
<1> QED BY <1>2, Zenon DEF InStage

LEMMA ClaimHolders ==
  ASSUME TypeInv, HolderInv, NEW i \in Intent, Claim(i)
  PROVE HolderInv'
<1> DEFINE row == [intents[i] EXCEPT !.stage = "RECALLING"]
<1>1. row.stage = "RECALLING" /\ row.round = intents[i].round
  BY RowFields, RowMoves, Zenon DEF TypeInv
<1>2. intents[i].stage = "WAITING" /\ worker.pc = "idle" /\ Done(PutIntent(i, row))
  BY Zenon DEF Claim, Draining
<1> HIDE DEF row
<1>3. RowKeeps(i, row) /\ intents[i].stage \notin DismissedStages
  BY <1>1, <1>2 DEF RowKeeps, Uncalled, HoldingStages, SealedStages, DismissedStages
<1> QED BY <1>2, <1>3, DoneHolders, Zenon

LEMMA PlanRecallHolders ==
  ASSUME TypeInv, HolderInv, PlanRecall
  PROVE HolderInv'
<1> DEFINE i == Earliest(InStage("RECALLING"))
           row == [intents[i] EXCEPT !.epoch = epoch]
<1>1. i \in Intent /\ intents[i].stage = "RECALLING" /\ worker.pc = "idle"
  BY InStageRow, Zenon DEF PlanRecall, Draining
<1>2. row.stage = "RECALLING" /\ row.round = intents[i].round
  <2>1. intents[i] \in IntentRow BY <1>1, RowFields, Zenon DEF TypeInv
  <2> QED BY <1>1, <2>1, RowMoves, Zenon
<1>3. Done(PutIntent(i, row)) \/ Done(PutIntent(i, PreCall(intents[i])))
  BY Zenon DEF PlanRecall
<1> HIDE DEF row, i
<1>4. RowKeeps(i, row) /\ intents[i].stage \notin DismissedStages
  BY <1>1, <1>2 DEF RowKeeps, Uncalled, HoldingStages, SealedStages, DismissedStages
<1>5. RowKeeps(i, PreCall(intents[i]))
  BY <1>1, PreCallKeeps, Zenon DEF TypeInv
<1> QED BY <1>1, <1>3, <1>4, <1>5, DoneHolders, Zenon

LEMMA EndRecallHolders ==
  ASSUME TypeInv, HolderInv, EndRecall
  PROVE HolderInv'
<1> DEFINE i == Earliest(InStage("RECALLING"))
           row == [intents[i] EXCEPT !.stage = "COVERAGE"]
<1>1. i \in Intent /\ intents[i].stage = "RECALLING" /\ worker.pc = "idle"
  BY InStageRow, Zenon DEF EndRecall, Draining
<1>2. row.stage = "COVERAGE" /\ row.round = intents[i].round
  <2>1. intents[i] \in IntentRow BY <1>1, RowFields, Zenon DEF TypeInv
  <2> QED BY <1>1, <2>1, RowMoves, Zenon
<1>3. Done(PutIntent(i, row)) \/ Done(PutIntent(i, PreCall(intents[i])))
  BY Zenon DEF EndRecall
<1> HIDE DEF row, i
<1>4. RowKeeps(i, row) /\ intents[i].stage \notin DismissedStages
  BY <1>1, <1>2 DEF RowKeeps, Uncalled, HoldingStages, SealedStages, DismissedStages
<1>5. RowKeeps(i, PreCall(intents[i]))
  BY <1>1, PreCallKeeps, Zenon DEF TypeInv
<1> QED BY <1>1, <1>3, <1>4, <1>5, DoneHolders, Zenon

LEMMA ClassifyHolders ==
  ASSUME TypeInv, HolderInv, Classify
  PROVE HolderInv'
<1> DEFINE i == Earliest(InStage("COVERAGE"))
<1>1. i \in Intent /\ intents[i].stage = "COVERAGE" /\ worker.pc = "idle"
  BY InStageRow, Zenon DEF Classify, Covering, Draining
<1>2. PICK outcome \in CoverageOutcomes :
          Done(PutIntent(i, IF outcome = "ATTENTION" \/ ~CatalogIs(i)
                            THEN PreCall(intents[i])
                            ELSE [intents[i] EXCEPT !.decision = outcome]))
  BY Zenon DEF Classify
<1> DEFINE row == [intents[i] EXCEPT !.decision = outcome]
<1>3. row.stage = "COVERAGE" /\ row.round = intents[i].round
  <2>1. intents[i] \in IntentRow BY <1>1, RowFields, Zenon DEF TypeInv
  <2> QED BY <1>1, <2>1, RowMoves, Zenon
<1>4. Done(PutIntent(i, row)) \/ Done(PutIntent(i, PreCall(intents[i])))
  BY <1>2, Zenon
<1> HIDE DEF row, i
<1>5. RowKeeps(i, row) /\ intents[i].stage \notin DismissedStages
  BY <1>1, <1>3 DEF RowKeeps, Uncalled, HoldingStages, SealedStages, DismissedStages
<1>6. RowKeeps(i, PreCall(intents[i]))
  BY <1>1, PreCallKeeps, Zenon DEF TypeInv
<1> QED BY <1>1, <1>4, <1>5, <1>6, DoneHolders, Zenon

LEMMA AggregateHolders ==
  ASSUME TypeInv, HolderInv, Aggregate
  PROVE HolderInv'
<1> DEFINE i == Earliest(InStage("COVERAGE"))
           row == [intents[i] EXCEPT !.stage = intents[i].decision, !.decision = "NONE"]
<1>1. i \in Intent /\ intents[i].stage = "COVERAGE" /\ worker.pc = "idle"
  BY InStageRow, Zenon DEF Aggregate, Covering, Draining
<1>2. intents[i].decision \in {"AUTHORIZED", "COVERED"}
  <2>1. intents[i].decision # "NONE" BY Zenon DEF Aggregate
  <2>2. intents[i].decision \in {"NONE", "AUTHORIZED", "COVERED"}
    BY <1>1, RowFields, Zenon DEF TypeInv
  <2> QED BY <2>1, <2>2, Zenon
<1>3. row.stage = intents[i].decision /\ row.round = intents[i].round
  <2>1. intents[i] \in IntentRow BY <1>1, RowFields, Zenon DEF TypeInv
  <2>2. \A s, d : /\ [intents[i] EXCEPT !.stage = s, !.decision = d].stage = s
                 /\ [intents[i] EXCEPT !.stage = s, !.decision = d].round = intents[i].round
    BY <2>1, RowMoves, Zenon
  <2> QED BY <2>2, Zenon
<1>4. Done(PutIntent(i, row)) \/ Done(PutIntent(i, PreCall(intents[i])))
  BY Zenon DEF Aggregate
<1> HIDE DEF row, i
<1>5. RowKeeps(i, row) /\ intents[i].stage \notin DismissedStages
  BY <1>1, <1>2, <1>3 DEF RowKeeps, Uncalled, HoldingStages, SealedStages, DismissedStages
<1>6. RowKeeps(i, PreCall(intents[i]))
  BY <1>1, PreCallKeeps, Zenon DEF TypeInv
<1> QED BY <1>1, <1>4, <1>5, <1>6, DoneHolders, Zenon

----
(* Acquiring the lease and the model call. *)

LEMMA CandidateRow ==
  ASSUME CanAcquire
  PROVE Candidate \in Intent /\ intents[Candidate].stage = "AUTHORIZED"
<1>1. InStage("AUTHORIZED") # {} BY Zenon DEF CanAcquire
<1>2. Earliest(InStage("AUTHORIZED")) \in Intent
      /\ intents[Earliest(InStage("AUTHORIZED"))].stage = "AUTHORIZED"
  BY <1>1, InStageRow, Zenon
<1> QED BY <1>2, Zenon DEF Candidate, InStage

(* A reservation is of an entry nobody owns, so that no other intent of the
   behaviour is past its call. *)
LEMMA ReservedHolders ==
  ASSUME DurableOK, HoldersOK, NEW i \in Intent, Unclaimed(i),
         intents' = intents, calls' = calls,
         global'.index = [global.index EXCEPT ![BehaviourOf[i]] =
                             [owner |-> i, state |-> "RESERVED"]],
         lease'.i = i
  PROVE HoldersOK'
<1> DEFINE e == [owner |-> i, state |-> "RESERVED"]
<1>1. e.owner = i /\ NoEntry.owner = 0 BY DEF NoEntry
<1>2. global.index \in [Behaviour -> Entry] /\ BehaviourOf[i] \in Behaviour
  BY GlobalFields, BehaviourType, Zenon
<1> HIDE DEF e
<1>3. global'.index[BehaviourOf[i]] = e
      /\ \A b \in Behaviour : b # BehaviourOf[i] => global'.index[b] = global.index[b]
  BY <1>2, Zenon DEF e
<1>4. HoldersIndexed'
  <2> SUFFICES ASSUME NEW j \in Intent, Holding(j)' PROVE IndexOf(j)'.owner = j
    BY Zenon DEF HoldersIndexed
  <2>1. Holding(j) BY Zenon DEF Holding
  <2>2. IndexOf(j).owner = j
    BY <2>1, Zenon DEF HoldersOK, HoldersIndexed
  <2>3. CASE BehaviourOf[j] = BehaviourOf[i]
    <3>1. IndexOf(i).owner = j BY <2>2, <2>3, Zenon DEF IndexOf
    <3>2. IndexOf(i) \in {NoEntry, e} BY Zenon DEF Unclaimed, e
    <3>3. j # 0 BY SizesAssumption DEF Intent
    <3>4. j = i BY <1>1, <3>1, <3>2, <3>3, Zenon
    <3> QED BY <1>1, <1>3, <3>4, Zenon DEF IndexOf
  <2>4. CASE BehaviourOf[j] # BehaviourOf[i]
    BY <1>3, <2>2, <2>4, BehaviourType, Zenon DEF IndexOf
  <2> QED BY <2>3, <2>4, Zenon
<1>5. LeaseIndexed' BY <1>1, <1>3, Zenon DEF LeaseIndexed, IndexOf
<1>6. CallsCounted' BY Zenon DEF HoldersOK, CallsCounted
<1> QED BY <1>4, <1>5, <1>6, Zenon DEF HoldersOK

LEMMA AcquireHolders ==
  ASSUME TypeInv, HolderInv, Acquire
  PROVE HolderInv'
<1> DEFINE i == Candidate
           l == [state |-> "NOT_CALLED", i |-> i, round |-> intents[i].round, epoch |-> epoch]
           x == [global.index EXCEPT ![BehaviourOf[i]] = [owner |-> i, state |-> "RESERVED"]]
           g == [[global EXCEPT !.index = x] EXCEPT !.lease = l]
           w == Working("bind", i)
<1>1. i \in Intent /\ intents[i].stage = "AUTHORIZED" /\ Unclaimed(i)
  BY CandidateRow, Zenon DEF Acquire
<1>2. /\ \/ PutGlobal([global EXCEPT
                      !.index[BehaviourOf[i]] = [owner |-> i, state |-> "RESERVED"],
                      !.lease = [state |-> "NOT_CALLED", i |-> i,
                                 round |-> intents[i].round, epoch |-> epoch]])
         \/ Nothing
      /\ Moves(w)
  BY Zenon DEF Acquire, Step, Fault, Moves, Counted
<1>3. PutGlobal(g) \/ Nothing BY <1>2
<1>4. g.index = x /\ g.lease = l
  <2>1. global \in Global BY Zenon DEF TypeInv, DurableOK
  <2>2. \A y, k : /\ [[global EXCEPT !.index = y] EXCEPT !.lease = k].index = y
                 /\ [[global EXCEPT !.index = y] EXCEPT !.lease = k].lease = k
    BY <2>1, IndexOfGlobal, Zenon
  <2> HIDE DEF x, l
  <2> QED BY <2>2, Zenon
<1>5. l.i = i OBVIOUS
<1>6. w.pc = "bind" /\ w.i = i BY PlaceOfWorking, Zenon
<1> HIDE DEF g, l, w
<1>7. intents' = intents BY <1>3, KeptByGlobal, NothingPut, Zenon
<1>8. HoldersOK'
  <2>1. CASE Nothing
    BY <1>2, <2>1, KeptCalls, NothingPut, NothingHolders, Zenon DEF HolderInv
  <2>2. CASE PutGlobal(g)
    <3>1. global'.index = x /\ lease'.i = i
      BY <1>4, <1>5, <2>2, KeptByGlobal, Zenon
    <3> QED BY <1>1, <1>2, <1>7, <3>1, KeptCalls, ReservedHolders, Zenon DEF TypeInv, HolderInv
  <2> QED BY <1>3, <2>1, <2>2, Zenon
<1>9. PlaceOK(w, intents', lease', calls')
  BY <1>1, <1>6, <1>7 DEF PlaceOK, StageAt, LeaseAt
<1> QED BY <1>2, <1>7, <1>8, <1>9, OtherWorkerStep, Zenon

LEMMA AcquireAgainHolders ==
  ASSUME TypeInv, HolderInv, AcquireAgain
  PROVE HolderInv'
<1> DEFINE w == Working("bind", Candidate)
<1>1. Skip(w) /\ intents[Candidate].stage = "AUTHORIZED"
  BY CandidateRow, Zenon DEF AcquireAgain
<1>2. w.pc = "bind" /\ w.i = Candidate BY PlaceOfWorking, Zenon
<1> HIDE DEF w
<1>3. PlaceOK(w, intents, lease, calls)
  BY <1>1, <1>2 DEF PlaceOK, StageAt, LeaseAt
<1> QED BY <1>1, <1>3, SkipWorkerStep, Zenon

LEMMA RefuseHolders ==
  ASSUME TypeInv, HolderInv, Refuse
  PROVE HolderInv'
<1> DEFINE i == Candidate
           row == PreCall(intents[i])
<1>1. i \in Intent /\ intents[i].stage = "AUTHORIZED"
  BY CandidateRow, Zenon DEF Refuse
<1>2. RowKeeps(i, row) /\ intents[i].stage \notin DismissedStages
  BY <1>1, PreCallKeeps, StageNames, Zenon DEF TypeInv
<1>3. Step(PutIntent(i, row), Idle) BY Zenon DEF Refuse
<1> HIDE DEF i, row
<1> QED BY <1>1, <1>2, <1>3, IdlePlace, RowWorkerStep, Zenon

(* The worker's own row, moved to a stage. *)
LEMMA OwnRowPut ==
  ASSUME TypeInv, NEW row, PutIntent(me, row)
  PROVE intents'[me] = row /\ lease' = lease
<1>1. me \in Intent BY MeOK, Zenon
<1> QED BY <1>1, RowPut, Zenon DEF TypeInv, lease

LEMMA BindHolders ==
  ASSUME TypeInv, HolderInv, Bind
  PROVE HolderInv'
<1> DEFINE row == [mine EXCEPT !.stage = "LEASED"]
           w == At("beforeCall")
<1>1. me \in Intent /\ mine.stage = "AUTHORIZED" /\ mine \in IntentRow
  BY MeOK, Zenon DEF Bind, HolderInv, PlaceOK, StageAt, mine, me
<1>2. row.stage = "LEASED" /\ row.round = mine.round
  BY <1>1, RowMoves, Zenon
<1>3. Step(PutIntent(me, row), w) BY Zenon DEF Bind
<1>4. w.pc = "beforeCall" /\ w.i = me BY PlaceOf, Zenon
<1> HIDE DEF row, w
<1>5. RowKeeps(me, row) /\ intents[me].stage \notin DismissedStages
  BY <1>1, <1>2, StageNames, Zenon DEF RowKeeps, mine
<1>6. ASSUME PutIntent(me, row) PROVE PlaceOK(w, intents', lease', calls')
  <2>1. intents'[me] = row BY <1>6, OwnRowPut, Zenon
  <2> QED BY <1>2, <1>4, <2>1 DEF PlaceOK, StageAt, LeaseAt
<1> QED BY <1>1, <1>3, <1>5, <1>6, RowWorkerStep, Zenon

LEMMA BeforeCallHolders ==
  ASSUME TypeInv, HolderInv, BeforeCall
  PROVE HolderInv'
<1>1. Skip(At("markReserved")) \/ Skip(At("releasePreCall"))
  BY Zenon DEF BeforeCall
<1>2. intents[me].stage = "LEASED"
  BY Zenon DEF BeforeCall, HolderInv, PlaceOK, StageAt, me
<1>3. \A w : w.pc \in {"markReserved", "releasePreCall"} /\ w.i = me
                => PlaceOK(w, intents, lease, calls)
  BY <1>2 DEF PlaceOK, StageAt, LeaseAt
<1>4. /\ At("markReserved").pc \in {"markReserved", "releasePreCall"} /\ At("markReserved").i = me
      /\ At("releasePreCall").pc \in {"markReserved", "releasePreCall"} /\ At("releasePreCall").i = me
  BY PlaceOf, Zenon
<1>5. /\ PlaceOK(At("markReserved"), intents, lease, calls)
      /\ PlaceOK(At("releasePreCall"), intents, lease, calls)
  BY <1>3, <1>4, Zenon
<1> QED BY <1>1, <1>5, SkipWorkerStep, Zenon

(* The entries of an intent that holds nothing are taken back. *)
LEMMA UnreservedHolders ==
  ASSUME DurableOK, HoldersOK, NEW i \in Intent, ~ Holding(i),
         intents' = intents, calls' = calls, lease' = NoLease,
         \A b \in Behaviour :
            global'.index[b] \in {global.index[b], Unreserved(global.index[b], i)}
  PROVE HoldersOK'
<1>1. HoldersIndexed'
  <2> SUFFICES ASSUME NEW j \in Intent, Holding(j)' PROVE IndexOf(j)'.owner = j
    BY Zenon DEF HoldersIndexed
  <2>1. Holding(j) BY Zenon DEF Holding
  <2>2. IndexOf(j).owner = j /\ j # i
    BY <2>1, Zenon DEF HoldersOK, HoldersIndexed
  <2>3. Unreserved(IndexOf(j), i) = IndexOf(j)
    BY <2>2, Zenon DEF Unreserved
  <2>4. IndexOf(j)' \in {IndexOf(j), Unreserved(IndexOf(j), i)}
    BY BehaviourType, Zenon DEF IndexOf
  <2> QED BY <2>2, <2>3, <2>4, Zenon
<1>2. CallsCounted' /\ LeaseIndexed'
  BY Zenon DEF HoldersOK, CallsCounted, LeaseIndexed
<1> QED BY <1>1, <1>2, Zenon DEF HoldersOK

LEMMA ReleasePreCallHolders ==
  ASSUME TypeInv, HolderInv, ReleasePreCall
  PROVE HolderInv'
<1> DEFINE x == [global.index EXCEPT ![BehaviourOf[me]] = Unreserved(@, me)]
           g == [Released EXCEPT !.index = x]
<1>1. DurableOK /\ me \in Intent /\ BehaviourOf[me] \in Behaviour
  BY MeOK, Zenon DEF TypeInv
<1>2. intents[me].stage = "LEASED"
  BY Zenon DEF ReleasePreCall, HolderInv, PlaceOK, StageAt, me
<1>3. ~ Holding(me)
  BY <1>2, HoldingStage DEF HoldingStages, SealedStages
<1>4. CASE Skip(Idle) BY <1>4, IdlePlace, SkipWorkerStep, Zenon
<1>5. CASE HoldsLease(me) /\ lease.state = "NOT_CALLED"
  <2>1. /\ PutGlobal([Released EXCEPT !.index[BehaviourOf[me]] = Unreserved(@, me)]) \/ Nothing
        /\ Moves(At("resetPreCall"))
    BY <1>5, Zenon DEF ReleasePreCall, Step, Fault, Moves, Counted
  <2>2. Released \in Global /\ Released.index = global.index /\ Released.lease = NoLease
    BY <1>1, ReleasedOK, IndexOfGlobal, Zenon DEF Released, DurableOK
  <2>3. PutGlobal(g) \/ Nothing BY <2>1, <2>2
  <2>4. g.index = x /\ g.lease = NoLease
    <3> HIDE DEF x
    <3> QED BY <2>2, IndexOfGlobal, Zenon
  <2>5. \A b \in Behaviour : x[b] \in {global.index[b], Unreserved(global.index[b], me)}
    <3>1. global.index \in [Behaviour -> Entry]
      BY <1>1, GlobalFields, Zenon
    <3> QED BY <1>1, <3>1, Zenon
  <2> HIDE DEF x, g
  <2>6. calls' = calls /\ intents' = intents
    BY <2>1, <2>3, KeptByGlobal, NothingPut, KeptCalls, Zenon
  <2>7. HoldersOK'
    <3>1. CASE Nothing
      BY <2>6, <3>1, NothingPut, NothingHolders, Zenon DEF HolderInv
    <3>2. CASE PutGlobal(g)
      <4>1. global'.index = x /\ lease' = NoLease
        BY <2>4, <3>2, KeptByGlobal, Zenon
      <4> QED BY <1>1, <1>3, <2>5, <2>6, <4>1, UnreservedHolders, Zenon DEF HolderInv
    <3> QED BY <2>3, <3>1, <3>2, Zenon
  <2>8. PlaceOK(At("resetPreCall"), intents', lease', calls')
    BY CarelessPlace, CarelessNames, PlaceOf, Zenon
  <2> QED BY <2>1, <2>6, <2>7, <2>8, OtherWorkerStep, Zenon
<1> QED BY <1>4, <1>5, Zenon DEF ReleasePreCall

(* A reset, before a place that relies at most on the lease. *)
LEMMA ResetHolders ==
  ASSUME TypeInv, HolderInv, NEW w, Reset(w),
         \A rows : PlaceOK(w, rows, lease, calls)
  PROVE HolderInv'
<1>1. CASE mine.stage \in {"LEASED", "AUTHORIZED"}
  <2>1. Step(PutIntent(me, PreCall(mine)), w) BY <1>1, Zenon DEF Reset
  <2>2. RowKeeps(me, PreCall(mine)) /\ intents[me].stage \notin DismissedStages /\ me \in Intent
    BY <1>1, MeOK, PreCallKeeps, StageNames, Zenon DEF mine, TypeInv
  <2>3. ASSUME PutIntent(me, PreCall(mine)), calls' = calls PROVE PlaceOK(w, intents', lease', calls')
    <3>1. lease' = lease BY <2>3, OwnRowPut, Zenon
    <3> QED BY <2>3, <3>1, Zenon
  <2> QED BY <2>1, <2>2, <2>3, RowWorkerStep, Zenon
<1>2. CASE mine.stage \notin {"LEASED", "AUTHORIZED"}
  <2>1. Nothing /\ Moves(w)
    BY <1>2, Zenon DEF Reset, Step, Fault, Moves, Counted
  <2>2. intents' = intents /\ global' = global /\ calls' = calls /\ lease' = lease
    BY <2>1, NothingPut, KeptCalls, Zenon DEF lease
  <2>3. HoldersOK' BY <2>2, NothingHolders, Zenon DEF HolderInv
  <2> QED BY <2>1, <2>2, <2>3, OtherWorkerStep, Zenon
<1> QED BY <1>1, <1>2, Zenon

LEMMA ResetPreCallHolders ==
  ASSUME TypeInv, HolderInv, ResetPreCall
  PROVE HolderInv'
  BY IdlePlace, ResetHolders, Zenon DEF ResetPreCall

LEMMA MarkReservedHolders ==
  ASSUME TypeInv, HolderInv, MarkReserved
  PROVE HolderInv'
<1> DEFINE w == At("reserveCall")
<1>1. CASE Skip(Idle) BY <1>1, IdlePlace, SkipWorkerStep, Zenon
<1>2. CASE HoldsLease(me) /\ lease.state = "NOT_CALLED" /\ journal = NoJournal
  <2>1. lease # NoLease /\ lease.i = me
    BY <1>2, LeaseNames, Zenon DEF HoldsLease
  <2>2. (PutGlobal([global EXCEPT !.lease.state = "CALL_RESERVED"]) \/ Nothing) /\ Moves(w)
    BY <1>2, Zenon DEF MarkReserved, Step, Fault, Moves, Counted
  <2>3. "CALL_RESERVED" \in LeaseStates BY LeaseNames, Zenon
  <2>4. HoldersOK' /\ intents' = intents /\ lease'.i = lease.i /\ calls' = calls
    BY <2>1, <2>2, <2>3, KeptCalls, LeaseStateHolders, Zenon DEF TypeInv, HolderInv
  <2>5. intents[me].stage = "LEASED"
    BY Zenon DEF MarkReserved, HolderInv, PlaceOK, StageAt, me
  <2>6. w.pc = "reserveCall" /\ w.i = me BY PlaceOf, Zenon
  <2> HIDE DEF w
  <2>7. PlaceOK(w, intents', lease', calls')
    BY <2>1, <2>4, <2>5, <2>6 DEF PlaceOK, StageAt, LeaseAt
  <2> QED BY <2>2, <2>4, <2>7, OtherWorkerStep, Zenon
<1> QED BY <1>1, <1>2, Zenon DEF MarkReserved

LEMMA ReserveCallHolders ==
  ASSUME TypeInv, HolderInv, ReserveCall
  PROVE HolderInv'
<1> DEFINE row == [mine EXCEPT !.stage = "CALL_RESERVED", !.call = "RESERVED"]
           w == At("generate")
<1>1. me \in Intent /\ mine \in IntentRow /\ mine.round \in Round
  BY MeOK, RowFields, Zenon DEF TypeInv, mine
<1>2. mine.stage = "LEASED" /\ lease.i = me
  BY Zenon DEF ReserveCall, HolderInv, PlaceOK, StageAt, LeaseAt, mine, me
<1>3. row.stage = "CALL_RESERVED" /\ row.round = mine.round
  <2>1. \A s, c : /\ [mine EXCEPT !.stage = s, !.call = c].stage = s
                  /\ [mine EXCEPT !.stage = s, !.call = c].round = mine.round
    BY <1>1, RowMoves, Zenon
  <2> QED BY <2>1, Zenon
<1>4. Step(PutIntent(me, row), w) BY Zenon DEF ReserveCall
<1>5. w.pc = "generate" /\ w.i = me BY PlaceOf, Zenon
<1>6. IndexOf(me).owner = me
  <2>1. lease # NoLease
    BY <1>1, <1>2, NoLeaseFields, SizesAssumption DEF Intent
  <2> QED BY <1>2, <2>1, Zenon DEF HolderInv, HoldersOK, LeaseIndexed
<1>7. calls[<<me, mine.round>>] = 0
  <2>1. mine.stage \in Uncalled BY <1>2 DEF Uncalled
  <2> QED BY <1>1, <2>1, Zenon DEF HolderInv, HoldersOK, CallsCounted, mine
<1> HIDE DEF row, w
<1>8. RowKeeps(me, row) /\ intents[me].stage \notin DismissedStages
  BY <1>2, <1>3, <1>6, StageNames, Zenon DEF RowKeeps, mine
<1>9. ASSUME PutIntent(me, row), calls' = calls PROVE PlaceOK(w, intents', lease', calls')
  <2>1. intents'[me] = row BY <1>9, OwnRowPut, Zenon
  <2> QED BY <1>3, <1>5, <1>7, <1>9, <2>1 DEF PlaceOK, StageAt, LeaseAt
<1> QED BY <1>1, <1>4, <1>8, <1>9, RowWorkerStep, Zenon

(* The call is made where it was reserved, and never before. *)
LEMMA GenerateHolders ==
  ASSUME TypeInv, HolderInv, Generate
  PROVE HolderInv'
<1>1. PICK outcome \in CallOutcomes :
          worker' = [At("terminalCall") EXCEPT
                       !.fate = CASE outcome = "VALID" -> "RESULT"
                                  [] outcome = "INVALID" -> "RESULT_LOST"
                                  [] outcome = "FAILED" -> "KNOWN_FAILED"]
  BY Zenon DEF Generate
<1>2. worker'.pc = "terminalCall" /\ worker'.i = me
  <2>1. worker \in WorkerSet BY MeOK, Zenon DEF WorkerOK
  <2> QED BY <1>1, <2>1 DEF At, me, WorkerSet
<1>3. /\ calls' = [calls EXCEPT ![Own(me)] = @ + 1]
      /\ UNCHANGED <<durable, mode, desk, glance, crashes, faults>>
  BY Zenon DEF Generate
<1>4. intents' = intents /\ lease' = lease /\ desk' = desk /\ global' = global
  BY <1>3, Zenon DEF durable, lease
<1>5. me \in Intent /\ mine.round \in Round /\ calls \in [Intent \X Round -> Nat]
  BY MeOK, RowFields, Zenon DEF TypeInv, mine
<1>6. mine.stage = "CALL_RESERVED" /\ calls[<<me, mine.round>>] = 0
  BY Zenon DEF Generate, HolderInv, PlaceOK, StageAt, mine, me
<1>7. calls'[<<me, mine.round>>] = 1
      /\ \A j \in Intent, r \in Round :
            <<j, r>> # <<me, mine.round>> => calls'[<<j, r>>] = calls[<<j, r>>]
  <2>1. <<me, mine.round>> \in Intent \X Round /\ Own(me) = <<me, mine.round>>
    BY <1>5, Zenon DEF Own, mine
  <2> QED BY <1>3, <1>5, <1>6, <2>1
<1>8. CallsCounted'
  <2> SUFFICES ASSUME NEW j \in Intent, NEW r \in Round
               PROVE  /\ calls'[<<j, r>>] <= 1
                      /\ r > intents[j].round => calls'[<<j, r>>] = 0
                      /\ (r = intents[j].round /\ intents[j].stage \in Uncalled)
                            => calls'[<<j, r>>] = 0
    BY <1>4, Zenon DEF CallsCounted
  <2>1. CASE j = me /\ r = mine.round
    <3>1. "CALL_RESERVED" \notin Uncalled BY StageNames, Zenon
    <3>2. ~(r > r) BY DEF Round
    <3> QED BY <1>6, <1>7, <2>1, <3>1, <3>2 DEF mine
  <2>2. CASE ~(j = me /\ r = mine.round)
    <3>1. calls'[<<j, r>>] = calls[<<j, r>>] BY <1>7, <2>2
    <3> QED BY <3>1, Zenon DEF HolderInv, HoldersOK, CallsCounted
  <2> QED BY <2>1, <2>2, Zenon
<1>9. HoldersIndexed' /\ LeaseIndexed'
  BY <1>4, Zenon DEF HolderInv, HoldersOK, HoldersIndexed, LeaseIndexed, Holding, IndexOf
<1>10. PlaceOK(worker', intents', lease', calls')
  BY <1>2, <1>4, <1>6 DEF PlaceOK, StageAt, LeaseAt, mine
<1> QED BY <1>4, <1>8, <1>9, <1>10, Zenon DEF HolderInv, HoldersOK

LEMMA TerminalCallHolders ==
  ASSUME TypeInv, HolderInv, TerminalCall
  PROVE HolderInv'
<1> DEFINE c == IF worker.fate = "KNOWN_FAILED" THEN "FAILED" ELSE "SUCCEEDED"
           row == [mine EXCEPT !.stage = "CALL_TERMINAL", !.call = c]
           w == At("prepare")
<1>1. me \in Intent /\ mine \in IntentRow BY MeOK, Zenon
<1>2. mine.stage = "CALL_RESERVED"
  BY Zenon DEF TerminalCall, HolderInv, PlaceOK, StageAt, mine, me
<1>3. row.stage = "CALL_TERMINAL" /\ row.round = mine.round
  <2>1. \A s, d : /\ [mine EXCEPT !.stage = s, !.call = d].stage = s
                  /\ [mine EXCEPT !.stage = s, !.call = d].round = mine.round
    BY <1>1, RowMoves, Zenon
  <2> HIDE DEF c
  <2> QED BY <2>1, Zenon
<1>4. Step(PutIntent(me, row), w) BY Zenon DEF TerminalCall
<1>5. PlaceOK(w, intents', lease', calls')
  BY CarelessPlace, CarelessNames, PlaceOf, Zenon
<1> HIDE DEF row, w
<1>6. RowKeeps(me, row) /\ intents[me].stage \notin DismissedStages
  BY <1>2, <1>3, StageNames, Zenon DEF RowKeeps, mine
<1> QED BY <1>1, <1>4, <1>5, <1>6, RowWorkerStep, Zenon

----
(* The outcome mutation, and what is done with a sealed result. *)

(* A journal is prepared or dropped. *)
LEMMA JournalWorkerStep ==
  ASSUME TypeInv, HolderInv, NEW j, NEW w,
         PutGlobal([global EXCEPT !.journal = j]) \/ Nothing, Moves(w),
         PlaceOK(w, intents, lease, calls)
  PROVE HolderInv'
<1>1. calls' = calls BY KeptCalls, Zenon
<1>2. HoldersOK' /\ intents' = intents /\ lease' = lease
  BY <1>1, JournalHolders, Zenon DEF TypeInv, HolderInv
<1> QED BY <1>1, <1>2, OtherWorkerStep, Zenon

(* A lineage is written, or nothing. *)
LEMMA LineageWorkerStep ==
  ASSUME TypeInv, HolderInv, NEW b, NEW line, NEW w,
         PutLineage(b, line) \/ Nothing, Moves(w) \/ Tries(w), w.pc \notin CarefulPcs
  PROVE HolderInv'
<1>1. calls' = calls BY KeptCalls, Zenon
<1>2. intents' = intents /\ global' = global
  BY NothingPut, Zenon DEF PutLineage
<1>3. HoldersOK' BY <1>1, <1>2, NothingHolders, Zenon DEF HolderInv
<1> QED BY <1>2, <1>3, CarelessPlace, OtherWorkerStep, Zenon

LEMMA CarelessAt ==
  ASSUME TypeInv, NEW pc, pc \notin CarefulPcs, NEW rows, NEW l, NEW counts
  PROVE PlaceOK(At(pc), rows, l, counts) /\ At(pc).pc \notin CarefulPcs
  BY CarelessPlace, PlaceOf, Zenon

LEMMA PrepareOutcomeHolders ==
  ASSUME TypeInv, HolderInv, PrepareOutcome
  PROVE HolderInv'
<1> DEFINE j == [kind |-> OutcomeKind, owner |-> Own(me), at |-> epoch]
           w == At("commit")
<1>1. CASE Skip(Idle) BY <1>1, IdlePlace, SkipWorkerStep, Zenon
<1>2. CASE ~ Skip(Idle)
  <2>1. mine.stage = "CALL_TERMINAL"
        /\ (PutGlobal([global EXCEPT !.journal = j]) \/ Nothing) /\ Moves(w)
    BY <1>2, Zenon DEF PrepareOutcome, Step, Fault, Moves, Counted
  <2>2. w.pc = "commit" /\ w.i = me BY PlaceOf, Zenon
  <2> HIDE DEF w, j
  <2>3. PlaceOK(w, intents, lease, calls)
    BY <2>1, <2>2 DEF PlaceOK, StageAt, LeaseAt, mine
  <2> QED BY <2>1, <2>3, JournalWorkerStep, Zenon
<1> QED BY <1>1, <1>2, Zenon

LEMMA CommitOutcomeHolders ==
  ASSUME TypeInv, HolderInv, CommitOutcome
  PROVE HolderInv'
<1> DEFINE bar == [kind |-> worker.fate, at |-> mine.epoch + 1]
           sealed == [mine EXCEPT !.stage = "RESULT_COMMITTED", !.barrier = NoBarrier]
           stopped == [mine EXCEPT !.stage = "ATTENTION", !.reason = worker.fate, !.barrier = bar]
           row == IF worker.fate = "RESULT" THEN sealed ELSE stopped
           w == At("finalize")
<1>1. me \in Intent /\ mine \in IntentRow BY MeOK, Zenon
<1>2. mine.stage = "CALL_TERMINAL"
  BY Zenon DEF CommitOutcome, HolderInv, PlaceOK, StageAt, mine, me
<1>3. row.stage \in {"RESULT_COMMITTED", "ATTENTION"} /\ row.round = mine.round
  <2>1. \A s, b : /\ [mine EXCEPT !.stage = s, !.barrier = b].stage = s
                  /\ [mine EXCEPT !.stage = s, !.barrier = b].round = mine.round
    BY <1>1, RowMoves, Zenon
  <2>2. \A s, n, b : /\ [mine EXCEPT !.stage = s, !.reason = n, !.barrier = b].stage = s
                     /\ [mine EXCEPT !.stage = s, !.reason = n, !.barrier = b].round = mine.round
    BY <1>1, RowMoves, Zenon
  <2> HIDE DEF bar
  <2>3. sealed.stage = "RESULT_COMMITTED" /\ sealed.round = mine.round
    BY <2>1, Zenon
  <2>4. stopped.stage = "ATTENTION" /\ stopped.round = mine.round
    <3> DEFINE n == worker.fate
    <3> HIDE DEF n
    <3>1. /\ [mine EXCEPT !.stage = "ATTENTION", !.reason = n, !.barrier = bar].stage = "ATTENTION"
          /\ [mine EXCEPT !.stage = "ATTENTION", !.reason = n, !.barrier = bar].round = mine.round
      BY <2>2
    <3> QED BY <3>1 DEF n
  <2> HIDE DEF sealed, stopped
  <2> QED BY <2>3, <2>4, Zenon
<1>4. Step(PutIntent(me, row), w) BY Zenon DEF CommitOutcome
<1>5. PlaceOK(w, intents', lease', calls')
  BY CarelessNames, CarelessAt, Zenon
<1> HIDE DEF row, w
<1>6. RowKeeps(me, row) /\ intents[me].stage \notin DismissedStages
  BY <1>2, <1>3 DEF RowKeeps, mine, Uncalled, HoldingStages, SealedStages, DismissedStages
<1> QED BY <1>1, <1>4, <1>5, <1>6, RowWorkerStep, Zenon

LEMMA FinalizeOutcomeHolders ==
  ASSUME TypeInv, HolderInv, FinalizeOutcome
  PROVE HolderInv'
<1> DEFINE next == IF worker.fate = "RESULT" /\ mode = "UP" THEN At("fence") ELSE Idle
           l == IF worker.fate = "RESULT" THEN [lease EXCEPT !.state = "RESULT_COMMITTED"]
                                          ELSE NoLease
           g == [Advanced EXCEPT !.lease = l]
<1>1. \A rows, k, counts : PlaceOK(next, rows, k, counts)
  BY CarelessNames, CarelessAt, IdlePlace, Zenon
<1>2. CASE Skip(next) BY <1>1, <1>2, SkipWorkerStep, Zenon
<1>3. CASE HoldsLease(me) /\ epoch = mine.epoch /\ JournalIs(OutcomeKind, Own(me))
  <2>1. DurableOK /\ lease # NoLease
    <3>1. lease.i = me BY <1>3, Zenon DEF HoldsLease
    <3>2. me # 0 BY MeOK, SizesAssumption DEF Intent
    <3> QED BY <3>1, <3>2, NoLeaseFields, Zenon DEF TypeInv
  <2>2. l = NoLease \/ l.i = lease.i
    BY <2>1, LeaseMoved, LeaseNames, Zenon
  <2>3. g = [Advanced EXCEPT !.lease = IF worker.fate = "RESULT"
                                       THEN [@ EXCEPT !.state = "RESULT_COMMITTED"] ELSE NoLease]
    <3>1. Advanced.lease = lease BY <2>1, AdvancedFields, Zenon
    <3> QED BY <3>1
  <2>4. /\ \/ PutGlobal([Advanced EXCEPT
                         !.lease = IF worker.fate = "RESULT"
                                   THEN [@ EXCEPT !.state = "RESULT_COMMITTED"] ELSE NoLease])
           \/ Nothing
        /\ Moves(next)
    BY <1>3, Zenon DEF FinalizeOutcome, Step, Fault, Moves, Counted
  <2>5. PutGlobal(g) \/ Nothing BY <2>3, <2>4
  <2>6. g.index = global.index /\ g.lease = l
    <3>1. Advanced \in Global /\ Advanced.index = global.index
      BY <2>1, AdvancedOK, AdvancedFields, Zenon
    <3>2. \A k : /\ [Advanced EXCEPT !.lease = k].index = Advanced.index
                 /\ [Advanced EXCEPT !.lease = k].lease = k
      BY <3>1, IndexOfGlobal, Zenon
    <3> HIDE DEF l
    <3> QED BY <3>1, <3>2, Zenon
  <2> HIDE DEF g, l, next
  <2>7. calls' = calls /\ intents' = intents
    BY <2>4, <2>5, KeptByGlobal, NothingPut, KeptCalls, Zenon
  <2>8. HoldersOK'
    <3>1. CASE Nothing
      BY <2>7, <3>1, NothingPut, NothingHolders, Zenon DEF HolderInv
    <3>2. CASE PutGlobal(g)
      <4>1. global'.index = global.index /\ lease' = l
        BY <2>6, <3>2, KeptByGlobal, Zenon
      <4> QED BY <2>1, <2>2, <2>7, <4>1, SameHolders, Zenon DEF HolderInv
    <3> QED BY <2>5, <3>1, <3>2, Zenon
  <2> QED BY <1>1, <2>4, <2>7, <2>8, OtherWorkerStep, Zenon
<1> QED BY <1>2, <1>3, Zenon DEF FinalizeOutcome

LEMMA FenceResultHolders ==
  ASSUME TypeInv, HolderInv, FenceResult
  PROVE HolderInv'
  BY IdlePlace, CarelessNames, CarelessAt, SkipWorkerStep, Zenon DEF FenceResult

(* A row that is past its call moves to another stage that holds. *)
LEMMA HeldRowStep ==
  ASSUME TypeInv, HolderInv, NEW row, NEW w, w.pc \notin CarefulPcs,
         mine.stage \in HoldingStages \ DismissedStages, row.stage \in HoldingStages,
         row.round = mine.round, Step(PutIntent(me, row), w) \/ Try(PutIntent(me, row), w)
  PROVE HolderInv'
<1>1. RowKeeps(me, row) /\ intents[me].stage \notin DismissedStages /\ me \in Intent
  BY MeOK, StageNames, Zenon DEF RowKeeps, mine
<1> QED BY <1>1, CarelessPlace, RowWorkerStep, Zenon

LEMMA SealedHold ==
  /\ SealedStages \cup {"READY", "CALL_RESERVED", "CALL_TERMINAL"}
         \subseteq HoldingStages \ DismissedStages
  /\ SealedStages \cup {"READY", "ATTENTION", "CALL_TERMINAL"} \subseteq HoldingStages
  /\ {"RESULT_COMMITTED", "PROPOSAL_COMMIT_AUTHORIZED", "PROPOSAL_BODY_COMMITTED"} = SealedStages
  BY DEF SealedStages, HoldingStages, DismissedStages

LEMMA MarkStaleHolders ==
  ASSUME TypeInv, HolderInv, MarkStale
  PROVE HolderInv'
<1> DEFINE row == [mine EXCEPT !.stage = "ATTENTION", !.reason = "STALE_RESULT"]
           w == At("releaseStale")
<1>1. w.pc \notin CarefulPcs BY CarelessNames, CarelessAt, Zenon
<1>2. CASE mine.stage \in SealedStages
  <2>1. row.stage = "ATTENTION" /\ row.round = mine.round
    <3>1. \A s, n : /\ [mine EXCEPT !.stage = s, !.reason = n].stage = s
                    /\ [mine EXCEPT !.stage = s, !.reason = n].round = mine.round
      BY MeOK, RowMoves, Zenon
    <3> QED BY <3>1, Zenon
  <2>2. Step(PutIntent(me, row), w) BY <1>2, Zenon DEF MarkStale
  <2> HIDE DEF row, w
  <2> QED BY <1>1, <1>2, <2>1, <2>2, SealedHold, HeldRowStep, Zenon
<1>3. CASE mine.stage \notin SealedStages
  <2>1. Nothing /\ Moves(w)
    BY <1>3, Zenon DEF MarkStale, Step, Fault, Moves, Counted
  <2> QED BY <1>1, <2>1, LineageWorkerStep, Zenon
<1> QED BY <1>2, <1>3, Zenon

LEMMA ReleaseStaleHolders ==
  ASSUME TypeInv, HolderInv, ReleaseStale
  PROVE HolderInv'
<1>1. (PutGlobal(Released) \/ Nothing) /\ Moves(Idle)
  BY Zenon DEF ReleaseStale, Step, Fault, Moves, Counted
<1>2. HoldersOK' /\ intents' = intents
  BY <1>1, KeptCalls, ReleasedHolders, Zenon DEF TypeInv, HolderInv
<1> QED BY <1>1, <1>2, IdlePlace, OtherWorkerStep, Zenon

----
(* From a sealed result to an active proposal. *)

LEMMA ContinuePlace ==
  ASSUME NEW i
  PROVE Continue(i).pc \notin CarefulPcs
<1>1. \A pc : /\ Working(pc, i).pc = pc
              /\ \A e : [Working(pc, i) EXCEPT !.expect = e].pc = pc
  BY PlaceOfWorking, Zenon
<1>2. Settle(i).pc \notin CarefulPcs
  BY <1>1, CarelessNames, Zenon DEF Settle
<1>3. RecoverPrepared(i).pc \notin CarefulPcs
  BY <1>1, CarelessNames, Zenon DEF RecoverPrepared
<1>4. Idle.pc \notin CarefulPcs BY DEF Idle, CarefulPcs
<1> QED BY <1>1, <1>2, <1>3, <1>4, CarelessNames, Zenon DEF Continue

LEMMA ContinueCommitHolders ==
  ASSUME TypeInv, HolderInv, ContinueCommit
  PROVE HolderInv'
  BY ContinuePlace, CarelessPlace, SkipWorkerStep, Zenon DEF ContinueCommit

LEMMA RevalidateHolders ==
  ASSUME TypeInv, HolderInv, Revalidate
  PROVE HolderInv'
  BY CarelessNames, CarelessAt, SkipWorkerStep, Zenon DEF Revalidate

LEMMA AuthorizeIntentHolders ==
  ASSUME TypeInv, HolderInv, AuthorizeIntent
  PROVE HolderInv'
<1> DEFINE row == [mine EXCEPT !.stage = "PROPOSAL_COMMIT_AUTHORIZED"]
           w == At("authorizeLease")
<1>1. w.pc \notin CarefulPcs BY CarelessNames, CarelessAt, Zenon
<1>2. CASE mine.stage = "RESULT_COMMITTED"
  <2>1. row.stage = "PROPOSAL_COMMIT_AUTHORIZED" /\ row.round = mine.round
    BY MeOK, RowMoves, Zenon
  <2>2. Step(PutIntent(me, row), w) BY <1>2, Zenon DEF AuthorizeIntent
  <2> HIDE DEF row, w
  <2>3. mine.stage \in SealedStages /\ row.stage \in SealedStages
    BY <1>2, <2>1, SealedHold, Zenon
  <2> QED BY <1>1, <2>1, <2>2, <2>3, SealedHold, HeldRowStep, Zenon
<1>3. CASE mine.stage # "RESULT_COMMITTED"
  <2>1. Nothing /\ Moves(w)
    BY <1>3, Zenon DEF AuthorizeIntent, Step, Fault, Moves, Counted
  <2> QED BY <1>1, <2>1, LineageWorkerStep, Zenon
<1> QED BY <1>2, <1>3, Zenon

LEMMA AuthorizeLeaseHolders ==
  ASSUME TypeInv, HolderInv, AuthorizeLease
  PROVE HolderInv'
<1> DEFINE w == At("prepareProposal")
<1>1. CASE Skip(Idle) BY <1>1, IdlePlace, SkipWorkerStep, Zenon
<1>2. CASE HoldsLease(me) /\ lease.state \in ResultStates /\ journal = NoJournal
  <2>1. lease # NoLease /\ "PROPOSAL_COMMIT_AUTHORIZED" \in LeaseStates
    BY <1>2, LeaseNames, Zenon
  <2>2. /\ PutGlobal([global EXCEPT !.lease.state = "PROPOSAL_COMMIT_AUTHORIZED"]) \/ Nothing
        /\ Moves(w)
    BY <1>2, Zenon DEF AuthorizeLease, Step, Fault, Moves, Counted
  <2>3. HoldersOK' /\ intents' = intents
    BY <2>1, <2>2, KeptCalls, LeaseStateHolders, Zenon DEF TypeInv, HolderInv
  <2> QED BY <2>2, <2>3, CarelessNames, CarelessAt, OtherWorkerStep, Zenon
<1> QED BY <1>1, <1>2, Zenon DEF AuthorizeLease

LEMMA PrepareProposalHolders ==
  ASSUME TypeInv, HolderInv, PrepareProposal
  PROVE HolderInv'
<1> DEFINE w == [At("putLineage") EXCEPT !.expect = Built(me)]
<1>1. \/ Skip(Idle) \/ Skip(At("markStale"))
      \/ (PutGlobal([global EXCEPT !.journal = ProposalJournal(me)]) \/ Nothing) /\ Moves(w)
  BY Zenon DEF PrepareProposal, Step, Fault, Moves, Counted
<1>2. w.pc = "putLineage"
  <2>1. worker \in WorkerSet BY MeOK, Zenon DEF WorkerOK
  <2> QED BY <2>1 DEF At, WorkerSet
<1> HIDE DEF w
<1>3. PlaceOK(w, intents, lease, calls)
  BY <1>2, CarelessNames, CarelessPlace, Zenon
<1> QED BY <1>1, <1>3, IdlePlace, CarelessNames, CarelessAt, SkipWorkerStep, JournalWorkerStep, Zenon

LEMMA PutProposalHolders ==
  ASSUME TypeInv, HolderInv, PutProposal
  PROVE HolderInv'
<1>1. \/ Skip(At("failed")) \/ Skip(At("markBody"))
      \/ /\ PutLineage(BehaviourOf[me], worker.expect) \/ Nothing
         /\ Tries(At("markBody"))
  BY Zenon DEF PutProposal, Try, Fault, Tries, Counted
<1> QED BY <1>1, CarelessNames, CarelessAt, SkipWorkerStep, LineageWorkerStep, Zenon

LEMMA MarkBodyHolders ==
  ASSUME TypeInv, HolderInv, MarkBody
  PROVE HolderInv'
<1> DEFINE row == [mine EXCEPT !.stage = "PROPOSAL_BODY_COMMITTED"]
           w == At("finalizeBody")
<1>1. w.pc \notin CarefulPcs BY CarelessNames, CarelessAt, Zenon
<1>2. CASE mine.stage = "PROPOSAL_COMMIT_AUTHORIZED"
  <2>1. row.stage = "PROPOSAL_BODY_COMMITTED" /\ row.round = mine.round
    BY MeOK, RowMoves, Zenon
  <2>2. Try(PutIntent(me, row), w) BY <1>2, Zenon DEF MarkBody
  <2> HIDE DEF row, w
  <2>3. mine.stage \in SealedStages /\ row.stage \in SealedStages
    BY <1>2, <2>1, SealedHold, Zenon
  <2> QED BY <1>1, <2>1, <2>2, <2>3, SealedHold, HeldRowStep, Zenon
<1>3. CASE mine.stage # "PROPOSAL_COMMIT_AUTHORIZED"
  <2>1. Nothing /\ Tries(w)
    BY <1>3, Zenon DEF MarkBody, Try, Fault, Tries, Counted
  <2> QED BY <1>1, <2>1, LineageWorkerStep, Zenon
<1> QED BY <1>2, <1>3, Zenon

LEMMA FinalizeBodyHolders ==
  ASSUME TypeInv, HolderInv, FinalizeBody
  PROVE HolderInv'
<1> DEFINE l == [lease EXCEPT !.state = "BODY_COMMITTED_INDEX_PENDING"]
           g == [Advanced EXCEPT !.lease = l]
           w == At("activate")
<1>1. CASE Skip(At("failed"))
  BY <1>1, CarelessNames, CarelessAt, SkipWorkerStep, Zenon
<1>2. CASE ~ Skip(At("failed"))
  <2>1. lease.state = "PROPOSAL_COMMIT_AUTHORIZED" /\ DurableOK
    BY <1>2, Zenon DEF FinalizeBody, TypeInv
  <2>2. lease # NoLease /\ l.i = lease.i
    BY <2>1, LeaseMoved, LeaseNames, Zenon
  <2>3. g = [Advanced EXCEPT !.lease.state = "BODY_COMMITTED_INDEX_PENDING"]
    <3>1. Advanced.lease = lease BY <2>1, AdvancedFields, Zenon
    <3> QED BY <3>1
  <2>4. /\ \/ PutGlobal([Advanced EXCEPT !.lease.state = "BODY_COMMITTED_INDEX_PENDING"])
           \/ Nothing
        /\ Tries(w)
    BY <1>2, Zenon DEF FinalizeBody, Try, Fault, Tries, Counted
  <2>5. PutGlobal(g) \/ Nothing BY <2>3, <2>4
  <2>6. g.index = global.index /\ g.lease = l
    <3>1. Advanced \in Global /\ Advanced.index = global.index
      BY <2>1, AdvancedOK, AdvancedFields, Zenon
    <3>2. \A k : /\ [Advanced EXCEPT !.lease = k].index = Advanced.index
                 /\ [Advanced EXCEPT !.lease = k].lease = k
      BY <3>1, IndexOfGlobal, Zenon
    <3> HIDE DEF l
    <3> QED BY <3>1, <3>2, Zenon
  <2>7. \A rows, k, counts : PlaceOK(w, rows, k, counts)
    BY CarelessNames, CarelessAt, Zenon
  <2> HIDE DEF g, l, w
  <2>8. calls' = calls /\ intents' = intents
    BY <2>4, <2>5, KeptByGlobal, NothingPut, KeptCalls, Zenon
  <2>9. HoldersOK'
    <3>1. CASE Nothing
      BY <2>8, <3>1, NothingPut, NothingHolders, Zenon DEF HolderInv
    <3>2. CASE PutGlobal(g)
      <4>1. global'.index = global.index /\ lease' = l
        BY <2>6, <3>2, KeptByGlobal, Zenon
      <4> QED BY <2>2, <2>8, <4>1, SameHolders, Zenon DEF HolderInv
    <3> QED BY <2>5, <3>1, <3>2, Zenon
  <2> QED BY <2>4, <2>7, <2>8, <2>9, OtherWorkerStep, Zenon
<1> QED BY <1>1, <1>2, Zenon

LEMMA CheckDurableHolders ==
  ASSUME TypeInv, HolderInv, CheckDurable
  PROVE HolderInv'
<1>1. Skip(At("activate")) \/ Skip(At("rollback"))
  BY Zenon DEF CheckDurable
<1> QED BY <1>1, CarelessNames, CarelessAt, SkipWorkerStep, Zenon

LEMMA RollBackHolders ==
  ASSUME TypeInv, HolderInv, RollBack
  PROVE HolderInv'
<1>1. /\ PutLineage(BehaviourOf[me], Predecessor(worker.expect)) \/ Nothing
      /\ Moves(At("abandon"))
  BY Zenon DEF RollBack, Step, Fault, Moves, Counted
<1> QED BY <1>1, CarelessNames, CarelessAt, LineageWorkerStep, Zenon

LEMMA AbandonHolders ==
  ASSUME TypeInv, HolderInv, Abandon
  PROVE HolderInv'
<1> DEFINE w == At(IF worker.pc = "abandon" THEN "markStale" ELSE "revalidate")
<1>1. (PutGlobal([global EXCEPT !.journal = NoJournal]) \/ Nothing) /\ Moves(w)
  BY Zenon DEF Abandon, Step, Fault, Moves, Counted
<1>2. PlaceOK(w, intents, lease, calls)
  BY CarelessNames, CarelessAt, Zenon
<1> HIDE DEF w
<1> QED BY <1>1, <1>2, JournalWorkerStep, Zenon

LEMMA ActivateHolders ==
  ASSUME TypeInv, HolderInv, Activate
  PROVE HolderInv'
<1> DEFINE row == [mine EXCEPT !.stage = "READY"]
           w == At("indexActive")
<1>1. CASE Skip(Idle) BY <1>1, IdlePlace, SkipWorkerStep, Zenon
<1>2. CASE ~ Skip(Idle)
  <2>1. mine.stage \in {"PROPOSAL_BODY_COMMITTED", "READY"} /\ Step(PutIntent(me, row), w)
    BY <1>2, Zenon DEF Activate
  <2>2. row.stage = "READY" /\ row.round = mine.round
    BY MeOK, RowMoves, Zenon
  <2>3. w.pc \notin CarefulPcs BY CarelessNames, CarelessAt, Zenon
  <2> HIDE DEF row, w
  <2>4. mine.stage \in SealedStages \cup {"READY"} /\ row.stage \in SealedStages \cup {"READY"}
    BY <2>1, <2>2, SealedHold, Zenon
  <2> QED BY <2>1, <2>2, <2>3, <2>4, SealedHold, HeldRowStep, Zenon
<1> QED BY <1>1, <1>2, Zenon

(* An index whose entries keep their owners, whatever their states. *)
LEMMA OwnersHolders ==
  ASSUME DurableOK, HoldersOK, intents' = intents, calls' = calls,
         lease' = NoLease \/ (lease # NoLease /\ lease'.i = lease.i),
         \A b \in Behaviour : global'.index[b].owner = global.index[b].owner
  PROVE HoldersOK'
<1>1. \A j \in Intent : IndexOf(j)'.owner = IndexOf(j).owner
  BY BehaviourType, Zenon DEF IndexOf
<1>2. HoldersIndexed'
  BY <1>1, Zenon DEF HoldersOK, HoldersIndexed, Holding
<1>3. LeaseIndexed'
  <2> SUFFICES ASSUME lease' # NoLease PROVE IndexOf(lease.i)'.owner = lease.i
    BY Zenon DEF LeaseIndexed, IndexOf
  <2>1. lease # NoLease /\ lease.i \in Intent BY HeldLease, Zenon
  <2> QED BY <1>1, <2>1, Zenon DEF HoldersOK, LeaseIndexed
<1>4. CallsCounted' BY Zenon DEF HoldersOK, CallsCounted
<1> QED BY <1>2, <1>3, <1>4, Zenon DEF HoldersOK

LEMMA StateOfEntry ==
  ASSUME DurableOK, NEW b, NEW s, NEW c \in Behaviour
  PROVE [global.index EXCEPT ![b].state = s][c].owner = global.index[c].owner
<1> DEFINE e == [global.index[b] EXCEPT !.state = s]
<1>1. global.index \in [Behaviour -> Entry] BY GlobalFields, Zenon
<1>2. [global.index EXCEPT ![b].state = s] = [global.index EXCEPT ![b] = e] OBVIOUS
<1>3. CASE c = b
  <2>1. global.index[b] \in Entry BY <1>1, <1>3, Zenon
  <2>2. e.owner = global.index[b].owner BY <2>1 DEF Entry, NoEntry
  <2> HIDE DEF e
  <2>3. [global.index EXCEPT ![b] = e][c] = e BY <1>1, <1>3, Zenon
  <2> QED BY <1>2, <1>3, <2>2, <2>3, Zenon
<1>4. CASE c # b
  <2> HIDE DEF e
  <2>1. [global.index EXCEPT ![b] = e][c] = global.index[c]
    BY <1>1, <1>4, Zenon
  <2> QED BY <1>2, <2>1, Zenon
<1> QED BY <1>3, <1>4, Zenon

LEMMA IndexActiveHolders ==
  ASSUME TypeInv, HolderInv, IndexActive
  PROVE HolderInv'
<1> DEFINE x == [global.index EXCEPT ![BehaviourOf[me]].state = "ACTIVE"]
           l == [lease EXCEPT !.state = "ACTIVE_COMPLETE"]
           g == [[global EXCEPT !.index = x] EXCEPT !.lease = l]
           w == At("complete")
<1>1. CASE Skip(Idle) BY <1>1, IdlePlace, SkipWorkerStep, Zenon
<1>2. CASE ~ Skip(Idle)
  <2>1. lease # NoLease /\ DurableOK
    BY <1>2, LeaseNames, Zenon DEF IndexActive, TypeInv
  <2>2. l.i = lease.i /\ l # NoLease
    BY <2>1, LeaseMoved, LeaseNames, Zenon
  <2>3. /\ \/ PutGlobal([global EXCEPT !.index[BehaviourOf[me]].state = "ACTIVE",
                                       !.lease.state = "ACTIVE_COMPLETE"])
           \/ Nothing
        /\ Moves(w)
    BY <1>2, Zenon DEF IndexActive, Step, Fault, Moves, Counted
  <2>4. g = [global EXCEPT !.index[BehaviourOf[me]].state = "ACTIVE",
                           !.lease.state = "ACTIVE_COMPLETE"]
    <3>1. global \in Global BY Zenon DEF TypeInv, DurableOK
    <3> QED BY <3>1 DEF lease, Global
  <2>5. PutGlobal(g) \/ Nothing BY <2>3, <2>4
  <2>6. g.index = x /\ g.lease = l
    <3>1. \A y, k : /\ [[global EXCEPT !.index = y] EXCEPT !.lease = k].index = y
                   /\ [[global EXCEPT !.index = y] EXCEPT !.lease = k].lease = k
      BY <2>1, IndexOfGlobal, Zenon DEF DurableOK
    <3> HIDE DEF x, l
    <3> QED BY <3>1, Zenon
  <2>7. \A b \in Behaviour : x[b].owner = global.index[b].owner
    BY <2>1, StateOfEntry
  <2>8. PlaceOK(w, intents', lease', calls')
    BY CarelessNames, CarelessAt, Zenon
  <2> HIDE DEF x, l, g, w
  <2>9. calls' = calls /\ intents' = intents
    BY <2>3, <2>5, KeptByGlobal, NothingPut, KeptCalls, Zenon
  <2>10. HoldersOK'
    <3>1. CASE Nothing
      BY <2>9, <3>1, NothingPut, NothingHolders, Zenon DEF HolderInv
    <3>2. CASE PutGlobal(g)
      <4>1. global'.index = x /\ lease' = l
        BY <2>6, <3>2, KeptByGlobal, Zenon
      <4> QED BY <2>1, <2>2, <2>7, <2>9, <4>1, OwnersHolders, Zenon DEF HolderInv
    <3> QED BY <2>5, <3>1, <3>2, Zenon
  <2> QED BY <2>3, <2>8, <2>9, <2>10, OtherWorkerStep, Zenon
<1> QED BY <1>1, <1>2, Zenon

LEMMA CompleteHolders ==
  ASSUME TypeInv, HolderInv, Complete
  PROVE HolderInv'
<1>1. CASE Skip(Idle) BY <1>1, IdlePlace, SkipWorkerStep, Zenon
<1>2. CASE ~ Skip(Idle)
  <2>1. (PutGlobal(Released) \/ Nothing) /\ Moves(Idle)
    BY <1>2, Zenon DEF Complete, Step, Fault, Moves, Counted
  <2>2. HoldersOK' /\ intents' = intents
    BY <2>1, KeptCalls, ReleasedHolders, Zenon DEF TypeInv, HolderInv
  <2> QED BY <2>1, <2>2, IdlePlace, OtherWorkerStep, Zenon
<1> QED BY <1>1, <1>2, Zenon

----
(* Recovery of the lease at startup. *)

(* Recovery takes the worker to the intent that holds the lease. *)
LEMMA LeaseRecoveryPlace ==
  PlaceOK(LeaseRecovery(lease.i), intents, lease, calls)
<1>1. \A f : /\ [Working("prepare", lease.i) EXCEPT !.fate = f].pc = "prepare"
             /\ [Working("forceUnknown", lease.i) EXCEPT !.fate = f].pc = "forceUnknown"
             /\ [Working("forceUnknown", lease.i) EXCEPT !.fate = f].i = lease.i
  <2>1. \A pc : /\ \A f : [Working(pc, lease.i) EXCEPT !.fate = f].pc = pc
                /\ \A f : [Working(pc, lease.i) EXCEPT !.fate = f].i = lease.i
    BY PlaceOfWorking
  <2> QED BY <2>1, Zenon
<1>2. \A f : PlaceOK([Working("prepare", lease.i) EXCEPT !.fate = f], intents, lease, calls)
  BY <1>1, CarelessNames, CarelessPlace, Zenon
<1>3. \A w : w.pc = "forceUnknown" /\ w.i = lease.i => PlaceOK(w, intents, lease, calls)
  BY DEF PlaceOK, StageAt, LeaseAt
<1>4. PlaceOK(UnknownCall(lease.i), intents, lease, calls)
  <2>1. UnknownCall(lease.i).pc = "forceUnknown" /\ UnknownCall(lease.i).i = lease.i
    BY <1>1, Zenon DEF UnknownCall
  <2> QED BY <1>3, <2>1, Zenon
<1>5. PlaceOK(CallRecovery(lease.i), intents, lease, calls)
  BY <1>2, <1>4, IdlePlace, Zenon DEF CallRecovery
<1> QED BY <1>5, ContinuePlace, CarelessPlace, Zenon DEF LeaseRecovery

LEMMA RecoverHolders ==
  ASSUME TypeInv, HolderInv, Recover
  PROVE HolderInv'
<1>1. CASE lease = NoLease
  <2>1. Skip(At("strand")) BY <1>1, Zenon DEF Recover
  <2>2. At("strand").pc = "strand" BY PlaceOf, Zenon
  <2>3. \A w : w.pc = "strand" => PlaceOK(w, intents, lease, calls)
    BY <1>1 DEF PlaceOK, StageAt, LeaseAt
  <2> QED BY <2>1, <2>2, <2>3, SkipWorkerStep, Zenon
<1>2. CASE lease # NoLease
  <2>1. \/ \E f : Skip([Working("finalize", lease.i) EXCEPT !.fate = f])
        \/ Skip(LeaseRecovery(lease.i))
        \/ /\ PutGlobal([global EXCEPT !.journal = NoJournal]) \/ Nothing
           /\ Moves(LeaseRecovery(lease.i))
    BY <1>2, Zenon DEF Recover, Step, Fault, Moves, Counted
  <2>2. \A f : PlaceOK([Working("finalize", lease.i) EXCEPT !.fate = f], intents, lease, calls)
    <3>1. \A pc : \A f : [Working(pc, lease.i) EXCEPT !.fate = f].pc = pc
      BY PlaceOfWorking, Zenon
    <3>2. \A f : [Working("finalize", lease.i) EXCEPT !.fate = f].pc = "finalize"
      BY <3>1, Zenon
    <3> QED BY <3>2, CarelessNames, CarelessPlace, Zenon
  <2> QED BY <2>1, <2>2, LeaseRecoveryPlace, SkipWorkerStep, JournalWorkerStep, Zenon
<1> QED BY <1>1, <1>2, Zenon

LEMMA ForceUnknownHolders ==
  ASSUME TypeInv, HolderInv, ForceUnknown
  PROVE HolderInv'
<1> DEFINE row == [mine EXCEPT !.stage = "CALL_TERMINAL", !.call = "OUTCOME_UNKNOWN"]
           w == At("prepare")
<1>1. w.pc \notin CarefulPcs BY CarelessNames, CarelessAt, Zenon
<1>2. CASE mine.stage \in {"AUTHORIZED", "LEASED", "CALL_RESERVED"}
  <2>1. row.stage = "CALL_TERMINAL" /\ row.round = mine.round
    <3>1. \A s, c : /\ [mine EXCEPT !.stage = s, !.call = c].stage = s
                    /\ [mine EXCEPT !.stage = s, !.call = c].round = mine.round
      BY MeOK, RowMoves, Zenon
    <3> QED BY <3>1, Zenon
  <2>2. Step(PutIntent(me, row), w) /\ me \in Intent
    BY <1>2, MeOK, Zenon DEF ForceUnknown
  <2>3. mine.stage \in {"AUTHORIZED", "LEASED"} => IndexOf(me).owner = me
    <3>1. mine.stage \in {"AUTHORIZED", "LEASED"} => lease.i = me
      BY Zenon DEF ForceUnknown, HolderInv, PlaceOK, LeaseAt, mine, me
    <3>2. lease.i = me => lease # NoLease
      BY <2>2, NoLeaseFields, SizesAssumption DEF Intent
    <3> QED BY <3>1, <3>2, Zenon DEF HolderInv, HoldersOK, LeaseIndexed
  <2> HIDE DEF row, w
  <2>4. RowKeeps(me, row) /\ intents[me].stage \notin DismissedStages
    BY <1>2, <2>1, <2>3, StageNames, SealedHold, Zenon DEF RowKeeps, mine
  <2> QED BY <1>1, <2>2, <2>4, CarelessPlace, RowWorkerStep, Zenon
<1>3. CASE mine.stage \notin {"AUTHORIZED", "LEASED", "CALL_RESERVED"}
  <2>1. Nothing /\ Moves(w)
    BY <1>3, Zenon DEF ForceUnknown, Step, Fault, Moves, Counted
  <2> QED BY <1>1, <2>1, LineageWorkerStep, Zenon
<1> QED BY <1>2, <1>3, Zenon

LEMMA StrandHolders ==
  ASSUME TypeInv, HolderInv, Strand
  PROVE HolderInv'
<1>1. lease = NoLease BY Zenon DEF Strand, HolderInv, PlaceOK, LeaseAt
<1>2. CASE InStage("LEASED") = {}
  <2>1. Skip(Idle) BY <1>2, Zenon DEF Strand
  <2> QED BY <2>1, IdlePlace, SkipWorkerStep, Zenon
<1>3. CASE InStage("LEASED") # {}
  <2> DEFINE i == Earliest(InStage("LEASED"))
             e == [owner |-> i, state |-> "RESERVED"]
             x == [b \in Behaviour |-> IF global.index[b] = e THEN NoEntry ELSE global.index[b]]
             g == [global EXCEPT !.index = x]
             w == Working("strandReset", i)
  <2>1. i \in Intent /\ intents[i].stage = "LEASED"
    BY <1>3, InStageRow, Zenon
  <2>2. ~ Holding(i)
    BY <2>1, HoldingStage DEF HoldingStages, SealedStages
  <2>3. /\ \/ PutGlobal([global EXCEPT !.index = [b \in Behaviour |->
                          IF @[b] = [owner |-> i, state |-> "RESERVED"] THEN NoEntry ELSE @[b]]])
           \/ Nothing
        /\ Moves(w)
    BY <1>3, Zenon DEF Strand, Step, Fault, Moves, Counted
  <2>4. PutGlobal(g) \/ Nothing BY <2>3
  <2>5. g.index = x /\ g.lease = lease
    <3> HIDE DEF x
    <3> QED BY IndexOfGlobal, Zenon DEF TypeInv, DurableOK, lease
  <2>6. \A b \in Behaviour : x[b] \in {global.index[b], Unreserved(global.index[b], i)}
    <3>1. e.owner = i OBVIOUS
    <3> HIDE DEF e
    <3> QED BY <3>1, Zenon DEF Unreserved
  <2>7. w.pc = "strandReset" BY PlaceOfWorking, Zenon
  <2> HIDE DEF x, g, w, i
  <2>8. calls' = calls /\ intents' = intents /\ lease' = NoLease
    <3>1. calls' = calls BY <2>3, KeptCalls, Zenon
    <3>2. CASE Nothing BY <1>1, <3>1, <3>2, NothingPut, Zenon DEF lease
    <3>3. CASE PutGlobal(g)
      BY <1>1, <2>5, <3>1, <3>3, KeptByGlobal, Zenon
    <3> QED BY <2>4, <3>2, <3>3, Zenon
  <2>9. HoldersOK'
    <3>1. CASE Nothing
      BY <2>8, <3>1, NothingPut, NothingHolders, Zenon DEF HolderInv
    <3>2. CASE PutGlobal(g)
      <4>1. global'.index = x BY <2>5, <3>2, KeptByGlobal, Zenon
      <4> QED BY <2>1, <2>2, <2>6, <2>8, <4>1, UnreservedHolders, Zenon DEF HolderInv, TypeInv
    <3> QED BY <2>4, <3>1, <3>2, Zenon
  <2>10. PlaceOK(w, intents', lease', calls')
    BY <2>7, <2>8 DEF PlaceOK, StageAt, LeaseAt
  <2> QED BY <2>3, <2>8, <2>9, <2>10, OtherWorkerStep, Zenon
<1> QED BY <1>2, <1>3, Zenon

LEMMA StrandResetHolders ==
  ASSUME TypeInv, HolderInv, StrandReset
  PROVE HolderInv'
<1> DEFINE w == Working("strand", me)
<1>1. lease = NoLease
  BY Zenon DEF StrandReset, HolderInv, PlaceOK, LeaseAt
<1>2. w.pc = "strand" /\ Reset(w)
  BY PlaceOfWorking, Zenon DEF StrandReset
<1> HIDE DEF w
<1>3. \A rows : PlaceOK(w, rows, lease, calls)
  BY <1>1, <1>2 DEF PlaceOK, StageAt, LeaseAt
<1> QED BY <1>2, <1>3, ResetHolders, Zenon

LEMMA WorkerHolders ==
  ASSUME TypeInv, HolderInv, Worker
  PROVE HolderInv'
<1>1. CASE EarlierStages
  BY <1>1, PlanRecallHolders, EndRecallHolders, ClassifyHolders, AggregateHolders, ClaimHolders,
     Zenon DEF EarlierStages
<1>2. CASE LeaseSteps
  BY <1>2, AcquireHolders, AcquireAgainHolders, RefuseHolders, ContinueCommitHolders, Zenon
  DEF LeaseSteps
<1>3. CASE Calling
  BY <1>3, BindHolders, BeforeCallHolders, ReleasePreCallHolders, ResetPreCallHolders,
     MarkReservedHolders, ReserveCallHolders, GenerateHolders, TerminalCallHolders,
     PrepareOutcomeHolders, CommitOutcomeHolders, FinalizeOutcomeHolders, FenceResultHolders,
     MarkStaleHolders, ReleaseStaleHolders, Zenon DEF Calling
<1>4. CASE Committing
  BY <1>4, RevalidateHolders, AuthorizeIntentHolders, AuthorizeLeaseHolders,
     PrepareProposalHolders, PutProposalHolders, MarkBodyHolders, FinalizeBodyHolders,
     CheckDurableHolders, RollBackHolders, AbandonHolders, ActivateHolders, IndexActiveHolders,
     CompleteHolders, Zenon DEF Committing
<1>5. CASE Recovering
  BY <1>5, RecoverHolders, ForceUnknownHolders, StrandHolders, StrandResetHolders, Zenon
  DEF Recovering
<1> QED BY <1>1, <1>2, <1>3, <1>4, <1>5, Zenon DEF Worker

----
(* A step of the user's mutations, whatever it writes. *)

LEMMA DeskNamed ==
  \A step, i : Desk(step, i).step = step /\ Desk(step, i).i = i
  BY DEF Desk

LEMMA NotDismissing ==
  ASSUME NEW d, NEW rows, d.step \notin {"dismissIntent", "dismissFinal"}
  PROVE DismissalOK(d, rows)
  BY Zenon DEF DismissalOK

LEMMA NoDeskHolds == \A rows : DismissalOK(NoDesk, rows)
<1>1. NoDesk.step \notin {"dismissIntent", "dismissFinal"} BY DEF NoDesk
<1> QED BY <1>1, NotDismissing, Zenon

LEMMA SitFollows ==
  ASSUME HoldersOK', NEW d, Sit(d), DismissalOK(d, intents'),
         PlaceOK(worker, intents', lease', calls')
  PROVE HolderInv'
<1>1. worker' = worker /\ (desk' = NoDesk \/ desk' = d) BY Zenon DEF Sit
<1>2. DismissalOK(desk', intents') BY <1>1, NoDeskHolds, Zenon
<1> QED BY <1>1, <1>2, Zenon DEF HolderInv

LEMMA ThrownFollows ==
  ASSUME HoldersOK', DeskThrown, PlaceOK(worker, intents', lease', calls')
  PROVE HolderInv'
<1>1. CASE mode = "RECOVERING"
  <2>1. worker' = Idle /\ desk' = NoDesk BY <1>1, Zenon DEF DeskThrown
  <2>2. PlaceOK(worker', intents', lease', calls') /\ DismissalOK(desk', intents')
    BY <2>1, IdlePlace, NoDeskHolds, Zenon
  <2> QED BY <2>2, Zenon DEF HolderInv
<1>2. CASE mode # "RECOVERING"
  <2> DEFINE d == [step |-> "recover", i |-> desk.i, again |-> TRUE]
  <2>1. Sit(NoDesk) \/ Sit(d) BY <1>2, Zenon DEF DeskThrown
  <2>2. d.step \notin {"dismissIntent", "dismissFinal"} OBVIOUS
  <2> HIDE DEF d
  <2>3. DismissalOK(d, intents') BY <2>2, NotDismissing, Zenon
  <2> QED BY <2>1, <2>3, NoDeskHolds, SitFollows, Zenon
<1> QED BY <1>1, <1>2, Zenon

LEMMA DeskFollows ==
  ASSUME HoldersOK', NEW next, DeskMoves(next), PlaceOK(worker, intents', lease', calls'),
         DismissalOK(Desk(next, desk.i), intents')
  PROVE HolderInv'
<1>1. Sit(Desk(next, desk.i)) \/ DeskThrown BY Zenon DEF DeskMoves
<1> QED BY <1>1, SitFollows, ThrownFollows, Zenon

LEMMA DeskCalls ==
  /\ \A d : Sit(d) => calls' = calls
  /\ DeskThrown => calls' = calls
  /\ \A next : DeskMoves(next) => calls' = calls
  BY Zenon DEF DeskMoves, Sit, DeskThrown

LEMMA PlaceStays ==
  ASSUME HolderInv, intents' = intents, lease' = lease, calls' = calls
  PROVE PlaceOK(worker, intents', lease', calls')
  BY Zenon DEF HolderInv

LEMMA NothingStays ==
  ASSUME HolderInv, Nothing, calls' = calls
  PROVE HoldersOK' /\ intents' = intents /\ PlaceOK(worker, intents', lease', calls')
<1>1. intents' = intents /\ global' = global /\ lease' = lease
  BY NothingPut, Zenon DEF lease
<1> QED BY <1>1, NothingHolders, PlaceStays, Zenon DEF HolderInv

(* The worker is at no place that says anything of the row a mutation writes. *)
LEMMA DeskRowPlace ==
  ASSUME TypeInv, HolderInv, NEW i \in Intent, NEW row, PutIntent(i, row), calls' = calls,
         intents[i].stage \in {"READY", "ATTENTION", "PRECALL"},
         row.stage \in {"RECALLING", "DISCARDED"}
  PROVE PlaceOK(worker, intents', lease', calls')
<1>1. /\ intents'[i] = row /\ \A j \in Intent : j # i => intents'[j] = intents[j]
      /\ lease' = lease
  BY RowPut, Zenon DEF TypeInv, lease
<1>2. worker.i \in Intent BY MeOK, Zenon DEF me
<1>3. CASE worker.i # i
  <2>1. intents'[worker.i] = intents[worker.i]
    BY <1>1, <1>2, <1>3, Zenon
  <2> QED BY <1>1, <2>1, Zenon DEF HolderInv, PlaceOK, StageAt, LeaseAt
<1>4. CASE worker.i = i
  <2>1. StageAt(worker, intents, calls) /\ LeaseAt(worker, intents, lease)
    BY Zenon DEF HolderInv, PlaceOK
  <2>2. worker.pc \notin {"bind", "beforeCall", "releasePreCall", "markReserved", "reserveCall",
                         "generate", "terminalCall", "commit"}
    BY <1>4, <2>1 DEF StageAt
  <2>3. StageAt(worker, intents', calls') BY <2>2 DEF StageAt
  <2>4. LeaseAt(worker, intents', lease')
    BY <1>1, <1>4, <2>1, <2>2 DEF LeaseAt
  <2> QED BY <2>3, <2>4, Zenon DEF PlaceOK
<1> QED BY <1>3, <1>4, Zenon

LEMMA DeskFailsHolders ==
  ASSUME HolderInv, DeskFails
  PROVE HolderInv'
<1>1. Nothing /\ DeskThrown /\ calls' = calls
  BY DeskCalls, Zenon DEF DeskFails
<1> QED BY <1>1, NothingStays, ThrownFollows, Zenon

LEMMA DeskSkipHolders ==
  ASSUME HolderInv, NEW step, NEW i, DeskSkip(step, i), DismissalOK(Desk(step, i), intents)
  PROVE HolderInv'
<1>1. Nothing /\ Sit(Desk(step, i)) /\ calls' = calls
  BY DeskCalls, Zenon DEF DeskSkip
<1>2. HoldersOK' /\ intents' = intents /\ PlaceOK(worker, intents', lease', calls')
  BY <1>1, NothingStays, Zenon
<1> QED BY <1>1, <1>2, SitFollows, Zenon

LEMMA PrepareHolders ==
  ASSUME TypeInv, HolderInv, NEW j, NEW step, NEW i, Prepare(j, step, i),
         DismissalOK(Desk(step, i), intents)
  PROVE HolderInv'
<1>1. /\ PutGlobal([global EXCEPT !.journal = j]) \/ Nothing
      /\ Sit(Desk(step, i)) \/ Sit(NoDesk)
  BY Zenon DEF Prepare, Fault
<1>2. calls' = calls BY <1>1, DeskCalls, Zenon
<1>3. HoldersOK' /\ intents' = intents /\ lease' = lease
  BY <1>1, <1>2, JournalHolders, Zenon DEF TypeInv, HolderInv
<1> QED BY <1>1, <1>2, <1>3, PlaceStays, NoDeskHolds, SitFollows, Zenon

LEMMA QuietDeskStep ==
  ASSUME HolderInv, NEW next, next \notin {"dismissIntent", "dismissFinal"}, DeskMoves(next),
         HoldersOK', intents' = intents, lease' = lease
  PROVE HolderInv'
<1>1. DismissalOK(Desk(next, desk.i), intents')
  BY DeskNamed, NotDismissing, Zenon
<1> QED BY <1>1, DeskCalls, PlaceStays, DeskFollows, Zenon

(* A mutation of the lineage, which says nothing of who holds. *)
LEMMA LineageDeskStep ==
  ASSUME HolderInv, NEW b, NEW line, NEW next, next \notin {"dismissIntent", "dismissFinal"},
         PutLineage(b, line) \/ Nothing, DeskMoves(next)
  PROVE HolderInv'
<1>1. intents' = intents /\ global' = global /\ lease' = lease /\ calls' = calls
  BY NothingPut, DeskCalls, Zenon DEF PutLineage, lease
<1>2. HoldersOK' BY <1>1, NothingHolders, Zenon DEF HolderInv
<1> QED BY <1>1, <1>2, QuietDeskStep, Zenon

----
(* The user's mutations. *)

LEMMA RefreshProposalHolders ==
  ASSUME TypeInv, HolderInv, NEW b \in Behaviour, RefreshProposal(b)
  PROVE HolderInv'
<1>1. "refreshLineage" \notin {"dismissIntent", "dismissFinal"} OBVIOUS
<1>2. \A i : DismissalOK(Desk("refreshLineage", i), intents)
  BY <1>1, DeskNamed, NotDismissing, Zenon
<1> QED BY <1>2, PrepareHolders, Zenon DEF RefreshProposal

LEMMA RejectProposalHolders ==
  ASSUME TypeInv, HolderInv, NEW b \in Behaviour, RejectProposal(b)
  PROVE HolderInv'
<1>1. "rejectLineage" \notin {"dismissIntent", "dismissFinal"} OBVIOUS
<1>2. \A i : DismissalOK(Desk("rejectLineage", i), intents)
  BY <1>1, DeskNamed, NotDismissing, Zenon
<1> QED BY <1>2, PrepareHolders, Zenon DEF RejectProposal

LEMMA DismissHolders ==
  ASSUME TypeInv, HolderInv, NEW i \in Intent, Dismiss(i)
  PROVE HolderInv'
<1>1. intents[i].stage \in {"ATTENTION", "PRECALL"} /\ Prepare(UserAction(<<i, 0>>), "dismissIntent", i)
  BY Zenon DEF Dismiss
<1>2. DismissalOK(Desk("dismissIntent", i), intents)
  <2>1. "dismissIntent" # "dismissFinal" OBVIOUS
  <2> QED BY <1>1, <2>1, DeskNamed, Zenon DEF DismissalOK
<1> QED BY <1>1, <1>2, PrepareHolders, Zenon

LEMMA RejectAgainHolders ==
  ASSUME TypeInv, HolderInv, NEW b \in Behaviour, RejectAgain(b)
  PROVE HolderInv'
<1> DEFINE d == [step |-> "recover", i |-> lineages[b].owner, again |-> TRUE]
<1>1. Nothing /\ Sit(d) BY Zenon DEF RejectAgain
<1>2. d.step \notin {"dismissIntent", "dismissFinal"} OBVIOUS
<1> HIDE DEF d
<1>3. DismissalOK(d, intents') BY <1>2, NotDismissing, Zenon
<1> QED BY <1>1, <1>3, DeskCalls, NothingStays, SitFollows, Zenon

LEMMA RefreshLineageHolders ==
  ASSUME TypeInv, HolderInv, RefreshLineage
  PROVE HolderInv'
<1> DEFINE new == [Line(desk.i) EXCEPT !.state = "REFRESHING", !.revision = @ + 1]
<1>1. DeskFails \/ ((PutLineage(BehaviourOf[desk.i], new) \/ Nothing) /\ DeskMoves("refreshIntent"))
  BY Zenon DEF RefreshLineage, DeskStep, Fault, DeskMoves, Counted
<1>2. "refreshIntent" \notin {"dismissIntent", "dismissFinal"} OBVIOUS
<1> HIDE DEF new
<1> QED BY <1>1, <1>2, DeskFailsHolders, LineageDeskStep, Zenon

LEMMA RejectLineageHolders ==
  ASSUME TypeInv, HolderInv, RejectLineage
  PROVE HolderInv'
<1> DEFINE line == Line(desk.i)
           new == [line EXCEPT !.state = "TERMINAL", !.revision = @ + 1,
                               !.proposals[Len(line.proposals)].failure = "NONE"]
<1>1. DeskFails \/ ((PutLineage(BehaviourOf[desk.i], new) \/ Nothing) /\ DeskMoves("rejectFinal"))
  BY Zenon DEF RejectLineage, DeskStep, Fault, DeskMoves, Counted
<1>2. "rejectFinal" \notin {"dismissIntent", "dismissFinal"} OBVIOUS
<1> HIDE DEF new
<1> QED BY <1>1, <1>2, DeskFailsHolders, LineageDeskStep, Zenon

(* The generation a refresh starts has never been called. *)
LEMMA StartedHolders ==
  ASSUME DurableOK, HoldersOK, NEW i \in Intent, intents[i].round = 1,
         PutIntent(i, StartedOver), calls' = calls
  PROVE HoldersOK'
<1>1. /\ intents'[i] = StartedOver /\ \A j \in Intent : j # i => intents'[j] = intents[j]
      /\ global' = global
  BY RowPut, Zenon
<1>2. lease' = lease /\ \A j : IndexOf(j)' = IndexOf(j)
  BY <1>1, Zenon DEF lease, IndexOf
<1>3. StartedOver.stage = "RECALLING" /\ StartedOver.round = 2
  BY DEF StartedOver, NewIntent
<1>4. CallsCounted'
  <2> SUFFICES ASSUME NEW j \in Intent, NEW r \in Round
               PROVE  /\ calls[<<j, r>>] <= 1
                      /\ r > intents'[j].round => calls[<<j, r>>] = 0
                      /\ (r = intents'[j].round /\ intents'[j].stage \in Uncalled)
                            => calls[<<j, r>>] = 0
    BY Zenon DEF CallsCounted
  <2>1. CASE j # i BY <1>1, <2>1, Zenon DEF HoldersOK, CallsCounted
  <2>2. CASE j = i
    <3>1. calls[<<i, r>>] <= 1 /\ (r > 1 => calls[<<i, r>>] = 0)
      BY Zenon DEF HoldersOK, CallsCounted
    <3>2. r \in {1, 2} BY DEF Round
    <3> QED BY <1>1, <1>3, <2>2, <3>1, <3>2
  <2> QED BY <2>1, <2>2, Zenon
<1>5. HoldersIndexed'
  <2> SUFFICES ASSUME NEW j \in Intent, Holding(j)' PROVE IndexOf(j)'.owner = j
    BY Zenon DEF HoldersIndexed
  <2>1. intents'[j].stage \in HoldingStages
    BY Zenon DEF Holding, HoldingStages
  <2>2. "RECALLING" \notin HoldingStages BY StageNames, Zenon
  <2>3. j # i /\ Holding(j)
    BY <1>1, <1>3, <2>1, <2>2, HoldingStage, Zenon
  <2> QED BY <1>2, <2>3, Zenon DEF HoldersOK, HoldersIndexed
<1>6. LeaseIndexed'
  BY <1>1, <1>2, Zenon DEF HoldersOK, LeaseIndexed, IndexOf
<1> QED BY <1>4, <1>5, <1>6, Zenon DEF HoldersOK

LEMMA RefreshIntentHolders ==
  ASSUME TypeInv, HolderInv, RefreshIntent
  PROVE HolderInv'
<1>1. \/ DeskFails \/ DeskSkip("refreshFinal", desk.i)
      \/ /\ intents[desk.i].stage = "READY" /\ ~ Refreshed(desk.i)
         /\ PutIntent(desk.i, StartedOver) \/ Nothing
         /\ DeskMoves("refreshFinal")
  BY Zenon DEF RefreshIntent, DeskStep, Fault, DeskMoves, Counted
<1>2. "refreshFinal" \notin {"dismissIntent", "dismissFinal"} OBVIOUS
<1>3. \A rows : DismissalOK(Desk("refreshFinal", desk.i), rows)
  BY <1>2, DeskNamed, NotDismissing, Zenon
<1>4. CASE /\ intents[desk.i].stage = "READY" /\ ~ Refreshed(desk.i)
           /\ PutIntent(desk.i, StartedOver) \/ Nothing
           /\ DeskMoves("refreshFinal")
  <2>1. calls' = calls /\ desk.i \in Intent /\ DurableOK
    BY <1>4, DeskCalls, DeskFields, Zenon
  <2>2. intents[desk.i].round = 1
    <3>1. intents[desk.i].round \in Round BY <2>1, RowFields, Zenon
    <3> QED BY <1>4, <3>1 DEF Refreshed, Round
  <2>3. StartedOver.stage = "RECALLING" BY DEF StartedOver, NewIntent
  <2>4. HoldersOK' /\ PlaceOK(worker, intents', lease', calls')
    <3>1. CASE Nothing BY <2>1, <3>1, NothingStays, Zenon
    <3>2. CASE PutIntent(desk.i, StartedOver)
      BY <1>4, <2>1, <2>2, <2>3, <3>2, StartedHolders, DeskRowPlace, Zenon DEF HolderInv
    <3> QED BY <1>4, <3>1, <3>2, Zenon
  <2> QED BY <1>3, <1>4, <2>4, DeskFollows, Zenon
<1> QED BY <1>1, <1>3, <1>4, DeskFailsHolders, DeskSkipHolders, Zenon

LEMMA RefreshFinalHolders ==
  ASSUME TypeInv, HolderInv, RefreshFinal
  PROVE HolderInv'
<1> DEFINE x == [global.index EXCEPT ![BehaviourOf[desk.i]].state = "RESERVED"]
           g == [Advanced EXCEPT !.index = x]
<1>1. CASE DeskFails BY <1>1, DeskFailsHolders, Zenon
<1>2. CASE ~ DeskFails
  <2>1. /\ PutGlobal([Advanced EXCEPT !.index[BehaviourOf[desk.i]].state = "RESERVED"]) \/ Nothing
        /\ DeskMoves("none")
    BY <1>2, Zenon DEF RefreshFinal, DeskStep, Fault, DeskMoves, Counted
  <2>2. DurableOK /\ Advanced \in Global /\ Advanced.index = global.index /\ Advanced.lease = lease
    BY AdvancedOK, AdvancedFields, Zenon DEF TypeInv
  <2>3. g = [Advanced EXCEPT !.index[BehaviourOf[desk.i]].state = "RESERVED"]
    BY <2>2
  <2>4. PutGlobal(g) \/ Nothing BY <2>1, <2>3
  <2>5. g.index = x /\ g.lease = lease
    <3>1. \A y : [Advanced EXCEPT !.index = y].index = y /\ [Advanced EXCEPT !.index = y].lease = Advanced.lease
      BY <2>2, IndexOfGlobal, Zenon
    <3> HIDE DEF x
    <3> QED BY <2>2, <3>1, Zenon
  <2>6. \A c \in Behaviour : x[c].owner = global.index[c].owner
    BY <2>2, StateOfEntry
  <2> HIDE DEF x, g
  <2>7. calls' = calls BY <2>1, DeskCalls, Zenon
  <2>8. HoldersOK' /\ intents' = intents /\ lease' = lease
    <3>1. CASE Nothing
      BY <2>7, <3>1, NothingPut, NothingHolders, Zenon DEF HolderInv, lease
    <3>2. CASE PutGlobal(g)
      <4>1. global'.index = x /\ lease' = lease /\ intents' = intents
        BY <2>5, <3>2, KeptByGlobal, Zenon
      <4> QED BY <2>2, <2>6, <2>7, <4>1, OwnersHolders, Zenon DEF HolderInv
    <3> QED BY <2>4, <3>1, <3>2, Zenon
  <2>9. "none" \notin {"dismissIntent", "dismissFinal"} OBVIOUS
  <2> QED BY <2>1, <2>8, <2>9, QuietDeskStep, Zenon
<1> QED BY <1>1, <1>2, Zenon

LEMMA DismissIntentHolders ==
  ASSUME TypeInv, HolderInv, DismissIntent
  PROVE HolderInv'
<1> DEFINE row == [intents[desk.i] EXCEPT
                      !.stage = "DISCARDED", !.call = "NONE", !.reason = "NONE", !.barrier = NoBarrier]
<1>1. (PutIntent(desk.i, row) \/ Nothing) /\ DeskMoves("dismissFinal")
  BY Zenon DEF DismissIntent, DeskStep, Fault, DeskMoves, Counted
<1>2. desk.i \in Intent /\ intents[desk.i] \in IntentRow /\ DurableOK
  BY DeskFields, Zenon
<1>3. row.stage = "DISCARDED" /\ row.round = intents[desk.i].round
  <2>1. \A s, c, n, b :
           /\ [intents[desk.i] EXCEPT !.stage = s, !.call = c, !.reason = n, !.barrier = b].stage = s
           /\ [intents[desk.i] EXCEPT !.stage = s, !.call = c, !.reason = n, !.barrier = b].round
                 = intents[desk.i].round
    BY <1>2, RowMoves, Zenon
  <2> QED BY <2>1
<1>4. intents[desk.i].stage \in {"ATTENTION", "PRECALL"}
  BY Zenon DEF DismissIntent, HolderInv, DismissalOK
<1> HIDE DEF row
<1>5. RowKeeps(desk.i, row)
  BY <1>3 DEF RowKeeps, Uncalled, HoldingStages, SealedStages
<1>6. calls' = calls BY <1>1, DeskCalls, Zenon
<1>7. HoldersOK'
  BY <1>1, <1>2, <1>5, <1>6, RowHolders, Zenon DEF HolderInv
<1>8. CASE PutIntent(desk.i, row)
  <2>1. PlaceOK(worker, intents', lease', calls')
    BY <1>2, <1>3, <1>4, <1>6, <1>8, DeskRowPlace, Zenon
  <2>2. DismissalOK(Desk("dismissFinal", desk.i), intents')
    <3>1. intents'[desk.i].stage = "DISCARDED"
      BY <1>2, <1>3, <1>8, RowPut, Zenon
    <3>2. "dismissFinal" # "dismissIntent" OBVIOUS
    <3> QED BY <3>1, <3>2, DeskNamed, Zenon DEF DismissalOK
  <2> QED BY <1>1, <1>7, <2>1, <2>2, DeskFollows, Zenon
<1>9. CASE ~ PutIntent(desk.i, row)
  <2>1. DeskThrown /\ Nothing
    BY <1>9, Zenon DEF DismissIntent, DeskStep, Fault, row
  <2> QED BY <1>6, <1>7, <2>1, NothingStays, ThrownFollows, Zenon
<1> QED BY <1>8, <1>9, Zenon

(* Finalizing a dismissal takes the lease only from the dismissed intent, where
   the worker cannot be. *)
LEMMA DismissFinalHolders ==
  ASSUME TypeInv, HolderInv, DismissFinal
  PROVE HolderInv'
<1> DEFINE x == [b \in Behaviour |-> Unreserved(global.index[b], desk.i)]
           h == [Advanced EXCEPT !.lease = NoLease]
           g == [h EXCEPT !.index = x]
<1>1. \A step : step \notin {"dismissIntent", "dismissFinal"} =>
                   \A i, rows : DismissalOK(Desk(step, i), rows)
  BY DeskNamed, NotDismissing, Zenon
<1>2. "none" \notin {"dismissIntent", "dismissFinal"} OBVIOUS
<1>3. CASE DeskSkip("none", 1)
  BY <1>1, <1>2, <1>3, DeskSkipHolders, Zenon
<1>4. CASE DeskFails BY <1>4, DeskFailsHolders, Zenon
<1>5. CASE ~ DeskSkip("none", 1) /\ ~ DeskFails
  <2>1. /\ \/ PutGlobal([Advanced EXCEPT !.lease = NoLease, !.index =
                 [b \in Behaviour |-> Unreserved(@[b], desk.i)]])
           \/ Nothing
        /\ DeskMoves("none")
        /\ lease = NoLease \/ lease.i = desk.i
    BY <1>5, Zenon DEF DismissFinal, DeskStep, Fault, DeskMoves, Counted, LeaseIsFreeOf
  <2>2. /\ desk.i \in Intent /\ DurableOK /\ Advanced \in Global
        /\ Advanced.index = global.index /\ Advanced.lease = lease
    BY DeskFields, AdvancedOK, AdvancedFields, Zenon
  <2>3. g = [Advanced EXCEPT !.lease = NoLease, !.index =
                 [b \in Behaviour |-> Unreserved(@[b], desk.i)]]
    BY <2>2
  <2>4. PutGlobal(g) \/ Nothing BY <2>1, <2>3
  <2>5. g.index = x /\ g.lease = NoLease
    <3>1. \A y, l : /\ [[Advanced EXCEPT !.lease = l] EXCEPT !.index = y].index = y
                   /\ [[Advanced EXCEPT !.lease = l] EXCEPT !.index = y].lease = l
      BY <2>2, IndexOfGlobal, Zenon
    <3> HIDE DEF x
    <3> QED BY <3>1, Zenon
  <2>6. intents[desk.i].stage = "DISCARDED"
    BY Zenon DEF DismissFinal, HolderInv, DismissalOK
  <2>7. ~ Holding(desk.i) BY <2>6, StageNames, HoldingStage, Zenon
  <2>8. calls' = calls BY <2>1, DeskCalls, Zenon
  <2>9. \A b \in Behaviour : x[b] \in {global.index[b], Unreserved(global.index[b], desk.i)}
    BY Zenon
  <2> HIDE DEF x, g, h
  <2>10. CASE Nothing
    BY <1>1, <1>2, <2>1, <2>8, <2>10, NothingStays, DeskFollows, Zenon
  <2>11. CASE PutGlobal(g)
    <3>1. global'.index = x /\ lease' = NoLease /\ intents' = intents
      BY <2>5, <2>11, KeptByGlobal, Zenon
    <3>2. HoldersOK'
      BY <2>2, <2>7, <2>8, <2>9, <3>1, UnreservedHolders, Zenon DEF HolderInv
    <3>3. PlaceOK(worker, intents', lease', calls')
      <4>1. StageAt(worker, intents, calls) /\ LeaseAt(worker, intents, lease)
        BY Zenon DEF HolderInv, PlaceOK
      <4>2. CASE lease = NoLease
        BY <2>8, <3>1, <4>1, <4>2, Zenon DEF PlaceOK
      <4>3. CASE lease.i = desk.i /\ lease # NoLease
        <5>1. worker.pc = "reserveCall" => intents[worker.i].stage = "LEASED" /\ worker.i = desk.i
          BY <4>1, <4>3 DEF StageAt, LeaseAt
        <5>2. worker.pc # "reserveCall" BY <2>6, <5>1
        <5>3. ~(worker.pc = "forceUnknown" /\ intents[worker.i].stage \in {"AUTHORIZED", "LEASED"})
          BY <2>6, <4>1, <4>3 DEF LeaseAt
        <5>4. LeaseAt(worker, intents, NoLease)
          BY <5>2, <5>3 DEF LeaseAt
        <5> QED BY <2>8, <3>1, <4>1, <5>4, Zenon DEF PlaceOK
      <4> QED BY <2>1, <4>2, <4>3, Zenon
    <3> QED BY <1>1, <1>2, <2>1, <3>2, <3>3, DeskFollows, Zenon
  <2> QED BY <2>4, <2>10, <2>11, Zenon
<1> QED BY <1>3, <1>4, <1>5, Zenon

LEMMA RejectFinalHolders ==
  ASSUME TypeInv, HolderInv, RejectFinal
  PROVE HolderInv'
<1>1. DeskFails \/ ((PutGlobal(Advanced) \/ Nothing) /\ DeskMoves("none"))
  BY Zenon DEF RejectFinal, DeskStep, Fault, DeskMoves, Counted
<1>2. CASE (PutGlobal(Advanced) \/ Nothing) /\ DeskMoves("none")
  <2>1. Advanced.index = global.index /\ Advanced.lease = lease
    BY AdvancedFields, Zenon DEF TypeInv
  <2>2. intents' = intents /\ lease' = lease /\ global'.index = global.index /\ calls' = calls
    BY <1>2, <2>1, KeptByGlobal, NothingPut, DeskCalls, Zenon DEF lease
  <2>3. HoldersOK' BY <2>2, SameHolders, Zenon DEF HolderInv
  <2>4. "none" \notin {"dismissIntent", "dismissFinal"} OBVIOUS
  <2> QED BY <1>2, <2>2, <2>3, <2>4, QuietDeskStep, Zenon
<1> QED BY <1>1, <1>2, DeskFailsHolders, Zenon

LEMMA RecoverDeskHolders ==
  ASSUME TypeInv, HolderInv, RecoverDesk
  PROVE HolderInv'
<1> DEFINE i == journal.owner[1]
           step == MutationRecovery(i)
           k == IF step = "none" THEN 1 ELSE i
<1>1. DeskFails \/ (step # "conflict" /\ DeskSkip(step, k))
  BY Zenon DEF RecoverDesk
<1>2. /\ step # "dismissIntent"
      /\ step = "dismissFinal" => intents[i].stage = "DISCARDED"
  BY Zenon DEF MutationRecovery, RefreshRecovery
<1>3. step = "dismissFinal" => k = i
  <2>1. "dismissFinal" # "none" OBVIOUS
  <2> HIDE DEF i, step
  <2> QED BY <2>1, Zenon
<1> HIDE DEF i, step, k
<1>4. DismissalOK(Desk(step, k), intents)
  BY <1>2, <1>3, DeskNamed, Zenon DEF DismissalOK
<1> QED BY <1>1, <1>4, DeskFailsHolders, DeskSkipHolders, Zenon

LEMMA DropHolders ==
  ASSUME TypeInv, HolderInv, Drop
  PROVE HolderInv'
<1>1. (PutGlobal([global EXCEPT !.journal = NoJournal]) \/ Nothing) /\ DeskMoves("none")
  BY Zenon DEF Drop, DeskStep, Fault, DeskMoves, Counted
<1>2. calls' = calls BY <1>1, DeskCalls, Zenon
<1>3. HoldersOK' /\ intents' = intents /\ lease' = lease
  BY <1>1, <1>2, JournalHolders, Zenon DEF TypeInv, HolderInv
<1>4. "none" \notin {"dismissIntent", "dismissFinal"} OBVIOUS
<1> QED BY <1>1, <1>3, <1>4, QuietDeskStep, Zenon

LEMMA MutatingHolders ==
  ASSUME TypeInv, HolderInv, Mutating
  PROVE HolderInv'
  BY RefreshLineageHolders, RefreshIntentHolders, RefreshFinalHolders, DismissIntentHolders,
     DismissFinalHolders, RejectLineageHolders, RejectFinalHolders, RecoverDeskHolders,
     DropHolders, Zenon DEF Mutating

----
(* Inspections, crashes and restarts. *)

LEMMA WatchHolders ==
  ASSUME HolderInv, intents' = intents, global' = global, calls' = calls,
         worker' = worker, desk' = desk
  PROVE HolderInv'
<1>1. HoldersOK' /\ lease' = lease
  BY NothingHolders, Zenon DEF HolderInv, lease
<1> QED BY <1>1, Zenon DEF HolderInv

LEMMA InspectHolders ==
  ASSUME HolderInv, NEW b \in Behaviour, NEW view \in Views, Inspect(b, view)
  PROVE HolderInv'
<1>1. intents' = intents /\ global' = global /\ calls' = calls /\ worker' = worker /\ desk' = desk
  BY Zenon DEF Inspect, durable
<1> QED BY <1>1, WatchHolders, Zenon

LEMMA RecordInspectionHolders ==
  ASSUME HolderInv, RecordInspection
  PROVE HolderInv'
<1>1. intents' = intents /\ global' = global /\ calls' = calls /\ worker' = worker /\ desk' = desk
  BY Zenon DEF RecordInspection, PutLineage, Nothing, durable
<1> QED BY <1>1, WatchHolders, Zenon

LEMMA UserHolders ==
  ASSUME TypeInv, HolderInv, User
  PROVE HolderInv'
  BY RefreshProposalHolders, RejectProposalHolders, RejectAgainHolders, DismissHolders,
     InspectHolders, Zenon DEF User

LEMMA ProcessHolders ==
  ASSUME HolderInv, Crash \/ Restart
  PROVE HolderInv'
<1>1. /\ Nothing /\ calls' = calls
      /\ worker' = Idle \/ worker' = [Idle EXCEPT !.pc = "start"]
      /\ desk' = NoDesk \/ desk' = [NoDesk EXCEPT !.step = "recover"]
  BY Zenon DEF Crash, Restart, Nothing
<1>2. HoldersOK' BY <1>1, NothingStays, Zenon
<1>3. PlaceOK(worker', intents', lease', calls')
  <2> DEFINE start == [Idle EXCEPT !.pc = "start"]
  <2>1. start.pc \notin CarefulPcs BY DEF Idle, CarefulPcs
  <2>2. worker' = Idle \/ worker' = start BY <1>1, Zenon
  <2> HIDE DEF start
  <2> QED BY <2>1, <2>2, CarelessPlace, IdlePlace, Zenon
<1>4. DismissalOK(desk', intents')
  <2>1. [NoDesk EXCEPT !.step = "recover"].step \notin {"dismissIntent", "dismissFinal"}
    BY DEF NoDesk
  <2> QED BY <1>1, <2>1, NoDeskHolds, NotDismissing, Zenon
<1> QED BY <1>2, <1>3, <1>4, Zenon DEF HolderInv

LEMMA InitHolders == Init => HolderInv
<1> SUFFICES ASSUME Init PROVE HolderInv OBVIOUS
<1>1. CallsCounted BY DEF Init, CallsCounted, Intent, Round
<1>2. \A i \in Intent : intents[i].stage = "WAITING"
  BY DEF Init, NewIntent
<1>3. HoldersIndexed
  <2>1. "WAITING" \notin HoldingStages
    BY DEF HoldingStages, SealedStages
  <2> QED BY <1>2, <2>1, HoldingStage, Zenon DEF HoldersIndexed
<1>4. LeaseIndexed BY DEF Init, LeaseIndexed, lease
<1> QED BY <1>1, <1>3, <1>4, IdlePlace, NoDeskHolds, Zenon DEF Init, HolderInv, HoldersOK

LEMMA NextHolders == TypeInv /\ HolderInv /\ [Next]_vars => HolderInv'
<1> SUFFICES ASSUME TypeInv, HolderInv, [Next]_vars PROVE HolderInv' OBVIOUS
<1>1. CASE Next
  BY <1>1, WorkerHolders, MutatingHolders, RecordInspectionHolders, UserHolders, ProcessHolders,
     Zenon DEF Next
<1>2. CASE UNCHANGED vars
  <2>1. intents' = intents /\ global' = global /\ calls' = calls /\ worker' = worker /\ desk' = desk
    BY <1>2, Zenon DEF vars, durable
  <2> QED BY <2>1, WatchHolders, Zenon
<1> QED BY <1>1, <1>2

(* The calls, the holders and the places of the worker and the desk together are
   inductive (the conditional writes of generation-worker.ts and of the
   mutations that share the global record with it).                          *)
THEOREM HoldersInvariant == Spec => [](TypeInv /\ HolderInv)
<1>1. Init => TypeInv /\ HolderInv BY InitType, InitHolders, Zenon
<1>2. TypeInv /\ HolderInv /\ [Next]_vars => TypeInv' /\ HolderInv'
  BY NextType, NextHolders, Zenon
<1> QED BY <1>1, <1>2, PTL DEF Spec

----
(* What follows of the generations and their intents. *)

(* No generation calls the model twice (#executeLease reserves the call in the
   lease and in the intent before it is made, and #recoverAfterRestart makes
   none), however crashes, faults, recoveries and a refresh are interleaved,
   for any number of intents and behaviours.                                 *)
THEOREM OneCall == Spec => []OneCallPerGeneration
<1>1. HolderInv => OneCallPerGeneration
  <2> SUFFICES ASSUME CallsCounted, NEW g \in Intent \X Round PROVE calls[g] <= 1
    BY Zenon DEF HolderInv, HoldersOK, OneCallPerGeneration
  <2>1. PICK i \in Intent, r \in Round : g = <<i, r>> OBVIOUS
  <2> QED BY <2>1, Zenon DEF CallsCounted
<1> QED BY <1>1, HoldersInvariant, PTL

(* Of the intents with one behaviour one at most is past its model call and not
   dismissed (the conditional reservation of the behaviour index in #acquire):
   the entry of the index belongs to whoever is, and an entry that somebody
   owns is only ever taken back from an intent that is not.                  *)
THEOREM OneHolder == Spec => []OneHolderPerBehaviour
<1>1. HolderInv => OneHolderPerBehaviour
  <2> SUFFICES ASSUME HoldersIndexed, NEW i \in Intent, NEW j \in Intent,
                      BehaviourOf[i] = BehaviourOf[j], Holding(i), Holding(j)
               PROVE i = j
    BY Zenon DEF HolderInv, HoldersOK, OneHolderPerBehaviour
  <2>1. IndexOf(i) = IndexOf(j) BY Zenon DEF IndexOf
  <2> QED BY <2>1, Zenon DEF HoldersIndexed
<1> QED BY <1>1, HoldersInvariant, PTL

----
(* The proposal a finished intent owns: the inductive invariant. *)

(* The stages of an intent whose proposal is being put, and those of one whose
   lease says so.                                                            *)
CommittingStages == {"PROPOSAL_COMMIT_AUTHORIZED", "PROPOSAL_BODY_COMMITTED"}
AuthorizedStages == CommittingStages \cup {"ATTENTION", "DISCARDED"}

(* A prepared refresh belongs to a generation, a prepared dismissal to none. *)
RefreshJournal(j) == j.kind = "USER_ACTION" /\ j.owner[2] # 0

(* The lease follows the intent that holds it, and the lineage the lease. *)
ReadyLeased ==
    \A i \in Intent : (intents[i].stage = "READY" /\ lease.i = i) => lease.state \in BodyStates
LeaseStaged ==
    lease.state = "PROPOSAL_COMMIT_AUTHORIZED" => intents[lease.i].stage \in AuthorizedStages
LinesOwned == \A b \in Behaviour : lineages[b] # NoLineage => BehaviourOf[lineages[b].owner] = b
BodyOwned == lease.state \in BodyStates => Line(lease.i).owner = lease.i
RefreshOwned == RefreshJournal(journal) => Line(journal.owner[1]).owner = journal.owner[1]

(* Whoever is finished owns the newest proposal, which is away only while its own
   refresh is prepared.                                                      *)
OwnedBy(i, line) ==
    /\ LastOwner(line) = Own(i)
    /\ \/ line.state \in {"ACTIVE_PROPOSAL", "TERMINAL"}
       \/ line.state = "REFRESHING" /\ RefreshJournal(journal) /\ journal.owner[1] = i
ReadyOwns ==
    \A i \in Intent : (intents[i].stage = "READY" /\ lease.i # i) =>
        OwnedBy(i, Line(i)) /\ IndexOf(i) = [owner |-> i, state |-> "ACTIVE"]
LinesOK == ReadyLeased /\ LeaseStaged /\ LinesOwned /\ BodyOwned /\ RefreshOwned /\ ReadyOwns

(* What the worker knows where it puts a proposal: the intent is being committed,
   and once the proposal was put only inspections have moved it on.          *)
Written(line, expect) ==
    line.owner = expect.owner /\ (line = expect \/ line.revision > expect.revision)
PutPcs == {"putLineage", "markBody", "finalizeBody"}
BodyPcs == PutPcs \cup {"failed", "rollback"}
SealedPcs == {"abandonRetry", "revalidate", "authorizeIntent"}
LinePcs == SealedPcs \cup {"authorizeLease", "prepareProposal"} \cup BodyPcs
Finalized(w, g, row) ==
    /\ row.stage = "PROPOSAL_BODY_COMMITTED"
    /\ g.journal = NoJournal /\ g.epoch = row.epoch + 2
    /\ g.lease.round = row.round /\ g.lease.state = "BODY_COMMITTED_INDEX_PENDING"
BodyOf(w, g, row, line) ==
    /\ w.pc \in SealedPcs => row.stage \in SealedStages
    /\ w.pc \in {"authorizeLease", "prepareProposal"} \cup BodyPcs => row.stage \in CommittingStages
    /\ w.pc \in BodyPcs => g.lease.i = w.i /\ w.expect.owner = w.i
    /\ w.pc \in PutPcs => g.journal.kind = "PROPOSAL"
    /\ w.pc = "finalizeBody" => row.stage = "PROPOSAL_BODY_COMMITTED"
    /\ w.pc \in {"markBody", "finalizeBody"} => Written(line, w.expect)
    /\ (w.pc = "failed" /\ g.lease.state \in BodyStates) =>
          Finalized(w, g, row) /\ Written(line, w.expect)
    /\ (w.pc = "rollback" /\ g.lease.state \in BodyStates) => line.revision > w.expect.revision
BodyAt(w, g, rows, lines) == BodyOf(w, g, rows[w.i], lines[BehaviourOf[w.i]])

(* A user's mutation goes on under the journal it prepared. *)
DeskAt(d, j, rows) ==
    /\ d.step \in {"refreshLineage", "refreshIntent", "refreshFinal"} =>
          RefreshJournal(j) /\ j.owner[1] = d.i
    /\ d.step = "refreshFinal" => rows[d.i].stage \in {"RECALLING", "PRECALL"}
    /\ d.step \in {"rejectLineage", "rejectFinal"} => j.kind = "REVIEW"
    /\ d.step = "drop" => j.kind \in {"REVIEW", "USER_ACTION"} /\ ~ RefreshJournal(j)

LineInv ==
    /\ LinesOK
    /\ BodyAt(worker, global, intents, lineages)
    /\ DeskAt(desk, journal, intents)

(* What the proofs of a step start from. *)
Known == TypeInv /\ Fenced /\ HolderInv /\ LineInv

LEMMA LineStageNames ==
  /\ CommittingStages \subseteq SealedStages /\ SealedStages \subseteq HoldingStages
  /\ "READY" \notin SealedStages \cup AuthorizedStages \cup Uncalled
  /\ "READY" \in HoldingStages
  /\ ({"RECALLING", "PRECALL", "ATTENTION", "DISCARDED", "READY"} \cup Uncalled) \cap SealedStages = {}
  /\ AuthorizedStages \cap (Uncalled \cup {"CALL_RESERVED", "CALL_TERMINAL", "READY", "PRECALL"}) = {}
  /\ CommittingStages \cup {"ATTENTION", "DISCARDED"} = AuthorizedStages
  /\ {"PROPOSAL_COMMIT_AUTHORIZED", "PROPOSAL_BODY_COMMITTED"} = CommittingStages
  BY DEF CommittingStages, AuthorizedStages, SealedStages, HoldingStages, Uncalled

LEMMA OffLine ==
  ASSUME NEW w, w.pc \notin LinePcs, NEW g, NEW rows, NEW lines
  PROVE BodyAt(w, g, rows, lines)
  BY DEF BodyAt, BodyOf, LinePcs, BodyPcs, PutPcs, SealedPcs

LEMMA OffLineNames ==
  {"idle", "start", "forceUnknown", "strand", "strandReset", "bind", "beforeCall",
   "releasePreCall", "resetPreCall", "markReserved", "reserveCall", "generate",
   "terminalCall", "prepare", "commit", "finalize", "fence", "abandon", "markStale",
   "releaseStale", "activate", "indexActive", "complete"} \cap LinePcs = {}
  BY DEF LinePcs, BodyPcs, PutPcs, SealedPcs

LEMMA IdleOffLine ==
  ASSUME NEW g, NEW rows, NEW lines
  PROVE BodyAt(Idle, g, rows, lines)
<1>1. Idle.pc = "idle" BY DEF Idle
<1> QED BY <1>1, OffLine, OffLineNames, Zenon

LEMMA OffLineWorking ==
  ASSUME NEW pc, pc \notin LinePcs, NEW i, NEW g, NEW rows, NEW lines
  PROVE  /\ BodyAt(Working(pc, i), g, rows, lines)
         /\ \A f : BodyAt([Working(pc, i) EXCEPT !.fate = f], g, rows, lines)
<1>1. Working(pc, i).pc = pc /\ \A f : [Working(pc, i) EXCEPT !.fate = f].pc = pc
  BY PlaceOfWorking, Zenon
<1> QED BY <1>1, OffLine, Zenon

LEMMA JournalOwner ==
  ASSUME TypeInv
  PROVE RefreshJournal(journal) => journal.owner[1] \in Intent
<1>1. journal \in Journal BY GlobalFields, Zenon DEF TypeInv
<1> QED BY <1>1 DEF Journal, RefreshJournal, NoJournal, Owner

LEMMA NoRefresh == ~ RefreshJournal(NoJournal)
  BY DEF RefreshJournal, NoJournal

(* Of the intents with one behaviour, only the one that holds it is finished. *)
LEMMA ReadyHolds ==
  ASSUME HolderInv, NEW i \in Intent, NEW j \in Intent, BehaviourOf[i] = BehaviourOf[j],
         intents[i].stage = "READY", IndexOf(j).owner = j
  PROVE i = j
<1>1. Holding(i) BY HoldingStage, LineStageNames, Zenon
<1>2. IndexOf(i).owner = i /\ IndexOf(i) = IndexOf(j)
  BY <1>1, Zenon DEF HolderInv, HoldersOK, HoldersIndexed, IndexOf
<1> QED BY <1>2, Zenon

LEMMA SealedIndexed ==
  ASSUME HolderInv, NEW j \in Intent, intents[j].stage \in HoldingStages
  PROVE IndexOf(j).owner = j
  BY HoldingStage, Zenon DEF HolderInv, HoldersOK, HoldersIndexed

----
(* What each kind of write must respect. *)

LEMMA NothingLines ==
  ASSUME LinesOK, intents' = intents, global' = global, lineages' = lineages
  PROVE LinesOK'
<1>1. lease' = lease /\ journal' = journal BY Zenon DEF lease, journal
<1>2. \A i : Line(i)' = Line(i) /\ IndexOf(i)' = IndexOf(i) /\ Own(i)' = Own(i)
  BY Zenon DEF Line, IndexOf, Own
<1>3. ReadyLeased' /\ LeaseStaged' /\ LinesOwned' /\ BodyOwned' /\ RefreshOwned'
  BY <1>1, <1>2, Zenon DEF LinesOK, ReadyLeased, LeaseStaged, LinesOwned, BodyOwned, RefreshOwned
<1>4. ReadyOwns' BY <1>1, <1>2, Zenon DEF LinesOK, ReadyOwns, OwnedBy
<1> QED BY <1>3, <1>4, Zenon DEF LinesOK

LEMMA AuthorizedLease ==
  ASSUME TypeInv, lease.state = "PROPOSAL_COMMIT_AUTHORIZED" \/ lease.state \in BodyStates
  PROVE lease # NoLease /\ lease.i \in Intent
<1>1. lease # NoLease BY DEF NoLease, BodyStates
<1> QED BY <1>1, HeldLease, Zenon DEF TypeInv

(* A row: an intent is finished only while its proposal holds the lease. *)
RowSafe(i, row) ==
    /\ row.stage = "READY" =>
          \/ intents[i].stage = "READY" /\ row.round = intents[i].round
          \/ lease.i = i /\ lease.state \in BodyStates
    /\ (lease.state = "PROPOSAL_COMMIT_AUTHORIZED" /\ lease.i = i) => row.stage \in AuthorizedStages

LEMMA RowLines ==
  ASSUME TypeInv, LinesOK, NEW i \in Intent, NEW row, RowSafe(i, row),
         PutIntent(i, row) \/ Nothing
  PROVE LinesOK'
<1>1. CASE Nothing BY <1>1, NothingPut, NothingLines, Zenon
<1>2. CASE PutIntent(i, row)
  <2>1. /\ intents'[i] = row /\ \A j \in Intent : j # i => intents'[j] = intents[j]
        /\ global' = global /\ lineages' = lineages
    BY <1>2, RowPut, Zenon DEF TypeInv
  <2>2. /\ lease' = lease /\ journal' = journal
        /\ \A j : Line(j)' = Line(j) /\ IndexOf(j)' = IndexOf(j)
    BY <2>1, Zenon DEF lease, journal, Line, IndexOf
  <2>3. ReadyLeased'
    <3> SUFFICES ASSUME NEW j \in Intent, intents'[j].stage = "READY", lease.i = j
                 PROVE lease.state \in BodyStates
      BY <2>2, Zenon DEF ReadyLeased
    <3> QED BY <2>1, Zenon DEF LinesOK, ReadyLeased, RowSafe
  <2>4. LeaseStaged'
    <3> SUFFICES ASSUME lease.state = "PROPOSAL_COMMIT_AUTHORIZED"
                 PROVE intents'[lease.i].stage \in AuthorizedStages
      BY <2>2, Zenon DEF LeaseStaged
    <3> QED BY <2>1, AuthorizedLease, Zenon DEF LinesOK, LeaseStaged, RowSafe
  <2>5. LinesOwned' /\ BodyOwned' /\ RefreshOwned'
    BY <2>1, <2>2, Zenon DEF LinesOK, LinesOwned, BodyOwned, RefreshOwned
  <2>6. ReadyOwns'
    <3> SUFFICES ASSUME NEW j \in Intent, intents'[j].stage = "READY", lease.i # j
                 PROVE OwnedBy(j, Line(j))' /\ IndexOf(j) = [owner |-> j, state |-> "ACTIVE"]
      BY <2>2, Zenon DEF ReadyOwns
    <3>1. intents[j].stage = "READY" /\ intents'[j].round = intents[j].round
      BY <2>1, Zenon DEF RowSafe
    <3>2. OwnedBy(j, Line(j)) /\ IndexOf(j) = [owner |-> j, state |-> "ACTIVE"]
      BY <3>1, Zenon DEF LinesOK, ReadyOwns
    <3>3. Own(j)' = Own(j) BY <3>1, Zenon DEF Own
    <3> QED BY <2>2, <3>2, <3>3, Zenon DEF OwnedBy
  <2> QED BY <2>3, <2>4, <2>5, <2>6, Zenon DEF LinesOK
<1> QED BY <1>1, <1>2, Zenon

(* The global record: whoever is finished keeps its entry of the index, and gives
   the lease back only when the proposal is its own.                         *)
OwnsNow(i, entry) ==
    /\ LastOwner(Line(i)) = Own(i) /\ Line(i).state = "ACTIVE_PROPOSAL"
    /\ entry = [owner |-> i, state |-> "ACTIVE"]
LeaseSafe(l) ==
    /\ \A i \in Intent : (intents[i].stage = "READY" /\ l.i = i) =>
          lease.i = i /\ (lease.state \in BodyStates => l.state \in BodyStates)
    /\ l.state = "PROPOSAL_COMMIT_AUTHORIZED" => intents[l.i].stage \in AuthorizedStages
    /\ l.state \in BodyStates => Line(l.i).owner = l.i
IndexSafe(l, x) ==
    \A i \in Intent : (intents[i].stage = "READY" /\ l.i # i) =>
        \/ lease.i # i /\ x[BehaviourOf[i]] = IndexOf(i)
        \/ OwnsNow(i, x[BehaviourOf[i]])
JournalSafe(j) ==
    /\ (RefreshJournal(journal) /\ intents[journal.owner[1]].stage = "READY") =>
          RefreshJournal(j) /\ j.owner[1] = journal.owner[1]
    /\ RefreshJournal(j) => Line(j.owner[1]).owner = j.owner[1]

LEMMA GlobalLines ==
  ASSUME LinesOK, intents' = intents, lineages' = lineages,
         LeaseSafe(lease'), IndexSafe(lease', global'.index), JournalSafe(journal')
  PROVE LinesOK'
<1>1. \A i : /\ Line(i)' = Line(i) /\ Own(i)' = Own(i)
             /\ IndexOf(i)' = global'.index[BehaviourOf[i]]
  BY Zenon DEF Line, Own, IndexOf
<1>2. ReadyLeased'
  <2> SUFFICES ASSUME NEW i \in Intent, intents[i].stage = "READY", lease'.i = i
               PROVE lease'.state \in BodyStates
    BY Zenon DEF ReadyLeased
  <2> QED BY Zenon DEF LinesOK, ReadyLeased, LeaseSafe
<1>3. LeaseStaged' /\ BodyOwned'
  BY <1>1, Zenon DEF LeaseSafe, LeaseStaged, BodyOwned
<1>4. LinesOwned' BY Zenon DEF LinesOK, LinesOwned
<1>5. RefreshOwned' BY <1>1, Zenon DEF JournalSafe, RefreshOwned
<1>6. ReadyOwns'
  <2> SUFFICES ASSUME NEW i \in Intent, intents[i].stage = "READY", lease'.i # i
               PROVE OwnedBy(i, Line(i))' /\ IndexOf(i)' = [owner |-> i, state |-> "ACTIVE"]
    BY Zenon DEF ReadyOwns
  <2>1. CASE lease.i # i /\ global'.index[BehaviourOf[i]] = IndexOf(i)
    <3>1. OwnedBy(i, Line(i)) /\ IndexOf(i) = [owner |-> i, state |-> "ACTIVE"]
      BY <2>1, Zenon DEF LinesOK, ReadyOwns
    <3>2. Line(i).state = "REFRESHING" /\ RefreshJournal(journal) /\ journal.owner[1] = i
             => RefreshJournal(journal') /\ journal'.owner[1] = i
      BY Zenon DEF JournalSafe
    <3> QED BY <1>1, <2>1, <3>1, <3>2, Zenon DEF OwnedBy
  <2>2. CASE OwnsNow(i, global'.index[BehaviourOf[i]])
    BY <1>1, <2>2, Zenon DEF OwnsNow, OwnedBy
  <2> QED BY <2>1, <2>2, Zenon DEF IndexSafe
<1> QED BY <1>2, <1>3, <1>4, <1>5, <1>6, Zenon DEF LinesOK

LEMMA SameLease ==
  ASSUME LinesOK
  PROVE  /\ LeaseSafe(lease)
         /\ \A x : (\A i \in Intent : intents[i].stage = "READY" =>
                        x[BehaviourOf[i]] = IndexOf(i)) => IndexSafe(lease, x)
         /\ IndexSafe(lease, global.index)
<1>1. LeaseSafe(lease)
  BY Zenon DEF LinesOK, LeaseStaged, BodyOwned, LeaseSafe
<1> QED BY <1>1, Zenon DEF IndexSafe, IndexOf

LEMMA SafeJournals ==
  ASSUME LinesOK
  PROVE  /\ JournalSafe(journal)
         /\ \A j : (~ RefreshJournal(journal) /\ ~ RefreshJournal(j)) => JournalSafe(j)
<1>1. JournalSafe(journal)
  BY Zenon DEF LinesOK, RefreshOwned, JournalSafe
<1> QED BY <1>1, Zenon DEF JournalSafe

(* The lease is given back by an intent that is not finished. *)
LEMMA SafeRelease ==
  ASSUME \A i \in Intent : lease.i = i => intents[i].stage # "READY"
  PROVE  /\ LeaseSafe(NoLease)
         /\ \A x : (\A i \in Intent : intents[i].stage = "READY" =>
                        x[BehaviourOf[i]] = IndexOf(i)) => IndexSafe(NoLease, x)
<1>1. NoLease.i \notin Intent /\ NoLease.state = "NONE"
  BY SizesAssumption DEF NoLease, Intent
<1>2. "NONE" \notin BodyStates BY DEF BodyStates
<1>3. LeaseSafe(NoLease) BY <1>1, <1>2, Zenon DEF LeaseSafe
<1> QED BY <1>3, Zenon DEF IndexSafe

(* A lineage: its behaviour's finished intent still owns what is newest. *)
LineSafe(b, line) ==
    /\ line # NoLineage => BehaviourOf[line.owner] = b
    /\ (lease.state \in BodyStates /\ BehaviourOf[lease.i] = b) => line.owner = lease.i
    /\ (RefreshJournal(journal) /\ BehaviourOf[journal.owner[1]] = b) =>
          line.owner = journal.owner[1]
    /\ \A i \in Intent : (intents[i].stage = "READY" /\ lease.i # i /\ BehaviourOf[i] = b) =>
          OwnedBy(i, line)

LEMMA LinePut ==
  ASSUME DurableOK, NEW b \in Behaviour, NEW line, PutLineage(b, line)
  PROVE  /\ lineages'[b] = line
         /\ \A c \in Behaviour : c # b => lineages'[c] = lineages[c]
         /\ intents' = intents /\ global' = global
<1>1. lineages' = [lineages EXCEPT ![b] = line] /\ intents' = intents /\ global' = global
  BY Zenon DEF PutLineage
<1>2. lineages \in [Behaviour -> Lineage] BY Zenon DEF DurableOK
<1> QED BY <1>1, <1>2, Zenon

LEMMA LineageLines ==
  ASSUME TypeInv, LinesOK, NEW b \in Behaviour, NEW line, LineSafe(b, line),
         PutLineage(b, line) \/ Nothing
  PROVE LinesOK'
<1>1. CASE Nothing BY <1>1, NothingPut, NothingLines, Zenon
<1>2. CASE PutLineage(b, line)
  <2>1. /\ lineages'[b] = line /\ \A c \in Behaviour : c # b => lineages'[c] = lineages[c]
        /\ intents' = intents /\ global' = global
    BY <1>2, LinePut, Zenon DEF TypeInv
  <2>2. /\ lease' = lease /\ journal' = journal
        /\ \A j : IndexOf(j)' = IndexOf(j) /\ Own(j)' = Own(j)
        /\ \A j \in Intent : \/ BehaviourOf[j] = b /\ Line(j)' = line
                             \/ BehaviourOf[j] # b /\ Line(j)' = Line(j)
    BY <2>1, BehaviourType, Zenon DEF lease, journal, Line, IndexOf, Own
  <2>3. ReadyLeased' /\ LeaseStaged'
    BY <2>1, <2>2, Zenon DEF LinesOK, ReadyLeased, LeaseStaged
  <2>4. LinesOwned' BY <2>1, Zenon DEF LinesOK, LinesOwned, LineSafe
  <2>5. BodyOwned'
    BY <2>2, AuthorizedLease, Zenon DEF LinesOK, BodyOwned, LineSafe
  <2>6. RefreshOwned'
    BY <2>2, JournalOwner, Zenon DEF LinesOK, RefreshOwned, LineSafe
  <2>7. ReadyOwns'
    <3> SUFFICES ASSUME NEW i \in Intent, intents[i].stage = "READY", lease.i # i
                 PROVE OwnedBy(i, Line(i))' /\ IndexOf(i) = [owner |-> i, state |-> "ACTIVE"]
      BY <2>1, <2>2, Zenon DEF ReadyOwns
    <3>1. OwnedBy(i, Line(i)) /\ IndexOf(i) = [owner |-> i, state |-> "ACTIVE"]
      BY Zenon DEF LinesOK, ReadyOwns
    <3>2. BehaviourOf[i] = b => OwnedBy(i, line) BY Zenon DEF LineSafe
    <3> QED BY <2>2, <3>1, <3>2, Zenon DEF OwnedBy
  <2> QED BY <2>3, <2>4, <2>5, <2>6, <2>7, Zenon DEF LinesOK
<1> QED BY <1>1, <1>2, Zenon

----
(* A step of the worker, and what the desk keeps of it. *)

LEMMA WorkerFollows ==
  ASSUME LinesOK', DeskAt(desk, journal', intents'), NEW w, Go(w) \/ Thrown,
         Go(w) => BodyAt(w, global', intents', lineages')
  PROVE LineInv'
<1>1. BodyAt(worker', global', intents', lineages')
  <2>1. CASE Go(w) BY <2>1, Zenon DEF Go
  <2>2. CASE Thrown BY <2>2, IdleOffLine, Zenon DEF Thrown
  <2> QED BY <2>1, <2>2, Zenon
<1>2. desk' = desk BY Zenon DEF Go, Thrown
<1> QED BY <1>1, <1>2, Zenon DEF LineInv

LEMMA DeskRow ==
  ASSUME TypeInv, DeskAt(desk, journal, intents), NEW i \in Intent, NEW row,
         PutIntent(i, row) \/ Nothing,
         (desk.step = "refreshFinal" /\ desk.i = i) => row.stage \in {"RECALLING", "PRECALL"}
  PROVE DeskAt(desk, journal', intents')
<1>1. journal' = journal
  BY NothingPut, RowPut, Zenon DEF TypeInv, journal
<1>2. CASE Nothing BY <1>1, <1>2, NothingPut, Zenon
<1>3. CASE PutIntent(i, row)
  <2>1. intents'[i] = row /\ \A j \in Intent : j # i => intents'[j] = intents[j]
    BY <1>3, RowPut, Zenon DEF TypeInv
  <2>2. desk.i \in Intent BY DeskFields, Zenon
  <2> QED BY <1>1, <2>1, <2>2, Zenon DEF DeskAt
<1> QED BY <1>2, <1>3, Zenon

LEMMA DeskJournal ==
  ASSUME DeskAt(desk, journal, intents), intents' = intents,
         journal' = journal \/ journal.kind \notin {"USER_ACTION", "REVIEW"}
  PROVE DeskAt(desk, journal', intents')
<1>1. CASE journal' = journal BY <1>1, Zenon
<1>2. CASE journal.kind \notin {"USER_ACTION", "REVIEW"}
  <2>1. desk.step \notin {"refreshLineage", "refreshIntent", "refreshFinal", "rejectLineage",
                          "rejectFinal", "drop"}
    BY <1>2 DEF DeskAt, RefreshJournal
  <2> QED BY <2>1 DEF DeskAt
<1> QED BY <1>1, <1>2, Zenon

LEMMA SkipLines ==
  ASSUME LineInv, NEW w, Skip(w), BodyAt(w, global, intents, lineages)
  PROVE LineInv'
<1>1. Nothing /\ Go(w) BY Zenon DEF Skip
<1>2. intents' = intents /\ global' = global /\ lineages' = lineages /\ journal' = journal
  BY <1>1, NothingPut, Zenon DEF journal
<1>3. LinesOK' BY <1>2, NothingLines, Zenon DEF LineInv
<1> QED BY <1>1, <1>2, <1>3, WorkerFollows, Zenon DEF LineInv

LEMMA SkipOffLine ==
  ASSUME LineInv, NEW w, w.pc \notin LinePcs, Skip(w)
  PROVE LineInv'
  BY OffLine, SkipLines, Zenon

LEMMA SkipIdle ==
  ASSUME LineInv, Skip(Idle)
  PROVE LineInv'
  BY IdleOffLine, SkipLines, Zenon

(* Before the result is sealed a row is not the lease's proposal, and no refresh
   is waiting for it.                                                        *)
EarlyStages == Uncalled \cup {"CALL_RESERVED", "CALL_TERMINAL"}
RowEarly(i, row) ==
    /\ intents[i].stage \in EarlyStages /\ row.stage # "READY"
    /\ intents[i].stage = "RECALLING" =>
          row.stage \in {"RECALLING", "PRECALL"} \/ journal = NoJournal

LEMMA EarlyLines ==
  ASSUME TypeInv, LineInv, NEW i \in Intent, NEW row, RowEarly(i, row),
         PutIntent(i, row) \/ Nothing, desk' = desk, worker'.pc \notin LinePcs
  PROVE LineInv'
<1>1. RowSafe(i, row)
  <2>1. (lease.state = "PROPOSAL_COMMIT_AUTHORIZED" /\ lease.i = i) => FALSE
    BY LineStageNames, Zenon DEF LineInv, LinesOK, LeaseStaged, RowEarly, EarlyStages
  <2> QED BY <2>1, Zenon DEF RowSafe, RowEarly
<1>2. LinesOK' BY <1>1, RowLines, Zenon DEF LineInv
<1>3. (desk.step = "refreshFinal" /\ desk.i = i) => row.stage \in {"RECALLING", "PRECALL"}
  <2> SUFFICES ASSUME desk.step = "refreshFinal", desk.i = i
               PROVE row.stage \in {"RECALLING", "PRECALL"} OBVIOUS
  <2>1. intents[i].stage \in {"RECALLING", "PRECALL"} /\ RefreshJournal(journal)
    BY DEF LineInv, DeskAt
  <2>2. "PRECALL" \notin EarlyStages BY DEF EarlyStages, Uncalled
  <2> QED BY <2>1, <2>2, NoRefresh, Zenon DEF RowEarly
<1>4. DeskAt(desk, journal', intents')
  BY <1>3, DeskRow, Zenon DEF LineInv
<1>5. BodyAt(worker', global', intents', lineages') BY OffLine, Zenon
<1> QED BY <1>2, <1>4, <1>5, Zenon DEF LineInv

LEMMA OffLineStep ==
  ASSUME NEW w, w.pc \notin LinePcs, Go(w) \/ Thrown
  PROVE worker'.pc \notin LinePcs /\ desk' = desk
<1>1. Idle.pc \notin LinePcs
  BY DEF Idle, LinePcs, BodyPcs, PutPcs, SealedPcs
<1> QED BY <1>1, Zenon DEF Go, Thrown

LEMMA EarlyStep ==
  ASSUME TypeInv, LineInv, NEW i \in Intent, NEW row, RowEarly(i, row),
         NEW w, w.pc \notin LinePcs, Step(PutIntent(i, row), w)
  PROVE LineInv'
<1>1. (PutIntent(i, row) \/ Nothing) /\ (Go(w) \/ Thrown)
  BY Zenon DEF Step, Fault
<1> QED BY <1>1, OffLineStep, EarlyLines, Zenon

LEMMA EarlyDone ==
  ASSUME TypeInv, LineInv, NEW i \in Intent, NEW row, RowEarly(i, row),
         worker.pc = "idle", Done(PutIntent(i, row))
  PROVE LineInv'
<1>1. PutIntent(i, row) /\ desk' = desk /\ worker' = worker
  BY Zenon DEF Done
<1>2. worker'.pc \notin LinePcs BY <1>1, OffLineNames, Zenon
<1> QED BY <1>1, <1>2, EarlyLines, Zenon

(* The stage of an updated row. *)
LEMMA RowStages ==
  ASSUME NEW row \in IntentRow
  PROVE  /\ \A s : [row EXCEPT !.stage = s].stage = s
         /\ \A e : [row EXCEPT !.epoch = e].stage = row.stage
         /\ \A d : [row EXCEPT !.decision = d].stage = row.stage
         /\ \A s, d : [row EXCEPT !.stage = s, !.decision = d].stage = s
         /\ \A s, c : [row EXCEPT !.stage = s, !.call = c].stage = s
         /\ \A s, b : [row EXCEPT !.stage = s, !.barrier = b].stage = s
         /\ \A s, n : [row EXCEPT !.stage = s, !.reason = n].stage = s
         /\ \A s, n, b : [row EXCEPT !.stage = s, !.reason = n, !.barrier = b].stage = s
         /\ \A s, c, n, b :
               [row EXCEPT !.stage = s, !.call = c, !.reason = n, !.barrier = b].stage = s
         /\ PreCall(row).stage = "PRECALL"
<1>1. \A s : /\ [row EXCEPT !.stage = s].stage = s
             /\ [row EXCEPT !.stage = s].round = row.round
  BY RowMoves, Zenon
<1>2. \A e : /\ [row EXCEPT !.epoch = e].stage = row.stage
             /\ [row EXCEPT !.epoch = e].round = row.round
  BY RowMoves, Zenon
<1>3. \A d : /\ [row EXCEPT !.decision = d].stage = row.stage
             /\ [row EXCEPT !.decision = d].round = row.round
  BY RowMoves, Zenon
<1>4. \A s, d : /\ [row EXCEPT !.stage = s, !.decision = d].stage = s
                /\ [row EXCEPT !.stage = s, !.decision = d].round = row.round
  BY RowMoves, Zenon
<1>5. \A s, c : /\ [row EXCEPT !.stage = s, !.call = c].stage = s
                /\ [row EXCEPT !.stage = s, !.call = c].round = row.round
  BY RowMoves, Zenon
<1>6. \A s, b : /\ [row EXCEPT !.stage = s, !.barrier = b].stage = s
                /\ [row EXCEPT !.stage = s, !.barrier = b].round = row.round
  BY RowMoves, Zenon
<1>7. \A s, n : /\ [row EXCEPT !.stage = s, !.reason = n].stage = s
                /\ [row EXCEPT !.stage = s, !.reason = n].round = row.round
  BY RowMoves, Zenon
<1>8. \A s, n, b : /\ [row EXCEPT !.stage = s, !.reason = n, !.barrier = b].stage = s
                   /\ [row EXCEPT !.stage = s, !.reason = n, !.barrier = b].round = row.round
  BY RowMoves, Zenon
<1>9. \A s, c, n, b :
         /\ [row EXCEPT !.stage = s, !.call = c, !.reason = n, !.barrier = b].stage = s
         /\ [row EXCEPT !.stage = s, !.call = c, !.reason = n, !.barrier = b].round = row.round
  BY RowMoves, Zenon
<1>10. PreCall(row).stage = "PRECALL" BY RowMoves, Zenon
<1> QED BY <1>1, <1>2, <1>3, <1>4, <1>5, <1>6, <1>7, <1>8, <1>9, <1>10, Zenon

(* ... to the stage where it stops before the call. *)
LEMMA PreCallEarly ==
  ASSUME TypeInv, NEW i \in Intent, intents[i].stage \in EarlyStages
  PROVE RowEarly(i, PreCall(intents[i]))
<1>1. PreCall(intents[i]).stage = "PRECALL"
  BY RowFields, RowStages, Zenon DEF TypeInv
<1> QED BY <1>1, Zenon DEF RowEarly

LEMMA EarlyNames ==
  {"WAITING", "RECALLING", "COVERAGE", "AUTHORIZED", "LEASED", "CALL_RESERVED",
   "CALL_TERMINAL"} = EarlyStages
  BY DEF EarlyStages, Uncalled

----
(* The stages before generation, and the call. *)

LEMMA ClaimLines ==
  ASSUME Known, NEW i \in Intent, Claim(i)
  PROVE LineInv'
<1> DEFINE row == [intents[i] EXCEPT !.stage = "RECALLING"]
<1>1. row.stage = "RECALLING"
  <2>1. \A s : [intents[i] EXCEPT !.stage = s].stage = s
    BY RowFields, RowStages, Zenon DEF TypeInv, Known
  <2> QED BY <2>1
<1>2. intents[i].stage = "WAITING" /\ worker.pc = "idle" /\ Done(PutIntent(i, row))
  BY Zenon DEF Claim, Draining
<1> HIDE DEF row
<1>3. RowEarly(i, row) BY <1>1, <1>2, EarlyNames DEF RowEarly
<1> QED BY <1>2, <1>3, EarlyDone, Zenon DEF Known

LEMMA PlanRecallLines ==
  ASSUME Known, PlanRecall
  PROVE LineInv'
<1> DEFINE i == Earliest(InStage("RECALLING"))
           row == [intents[i] EXCEPT !.epoch = epoch]
<1>1. i \in Intent /\ intents[i].stage = "RECALLING" /\ worker.pc = "idle"
  BY InStageRow, Zenon DEF PlanRecall, Draining
<1>2. row.stage = "RECALLING"
  <2>1. intents[i] \in IntentRow
    BY <1>1, RowFields, Zenon DEF TypeInv, Known
  <2> QED BY <1>1, <2>1, RowStages, Zenon
<1>3. Done(PutIntent(i, row)) \/ Done(PutIntent(i, PreCall(intents[i])))
  BY Zenon DEF PlanRecall
<1> HIDE DEF row, i
<1>4. RowEarly(i, row) /\ RowEarly(i, PreCall(intents[i]))
  BY <1>1, <1>2, PreCallEarly, EarlyNames, Zenon DEF RowEarly, Known
<1> QED BY <1>1, <1>3, <1>4, EarlyDone, Zenon DEF Known

LEMMA EndRecallLines ==
  ASSUME Known, EndRecall
  PROVE LineInv'
<1> DEFINE i == Earliest(InStage("RECALLING"))
           row == [intents[i] EXCEPT !.stage = "COVERAGE"]
<1>1. i \in Intent /\ intents[i].stage = "RECALLING" /\ worker.pc = "idle"
  BY InStageRow, Zenon DEF EndRecall, Draining
<1>2. row.stage = "COVERAGE"
  <2>1. intents[i] \in IntentRow
    BY <1>1, RowFields, Zenon DEF TypeInv, Known
  <2>2. \A s : [intents[i] EXCEPT !.stage = s].stage = s
    BY <2>1, RowStages, Zenon
  <2> QED BY <2>2
<1>3. (Done(PutIntent(i, row)) /\ journal = NoJournal) \/ Done(PutIntent(i, PreCall(intents[i])))
  BY Zenon DEF EndRecall, CatalogIs, CatalogComplete
<1> HIDE DEF row, i
<1>4. journal = NoJournal => RowEarly(i, row)
  BY <1>1, <1>2, EarlyNames DEF RowEarly
<1>5. RowEarly(i, PreCall(intents[i]))
  BY <1>1, PreCallEarly, EarlyNames, Zenon DEF Known
<1> QED BY <1>1, <1>3, <1>4, <1>5, EarlyDone, Zenon DEF Known

LEMMA ClassifyLines ==
  ASSUME Known, Classify
  PROVE LineInv'
<1> DEFINE i == Earliest(InStage("COVERAGE"))
<1>1. i \in Intent /\ intents[i].stage = "COVERAGE" /\ worker.pc = "idle"
  BY InStageRow, Zenon DEF Classify, Covering, Draining
<1>2. PICK outcome \in CoverageOutcomes :
          Done(PutIntent(i, IF outcome = "ATTENTION" \/ ~CatalogIs(i)
                            THEN PreCall(intents[i])
                            ELSE [intents[i] EXCEPT !.decision = outcome]))
  BY Zenon DEF Classify
<1> DEFINE row == [intents[i] EXCEPT !.decision = outcome]
<1>3. row.stage = "COVERAGE"
  <2>1. intents[i] \in IntentRow
    BY <1>1, RowFields, Zenon DEF TypeInv, Known
  <2> QED BY <1>1, <2>1, RowStages, Zenon
<1>4. Done(PutIntent(i, row)) \/ Done(PutIntent(i, PreCall(intents[i])))
  BY <1>2, Zenon
<1> HIDE DEF row, i
<1>5. RowEarly(i, row) BY <1>1, <1>3, EarlyNames DEF RowEarly
<1>6. RowEarly(i, PreCall(intents[i]))
  BY <1>1, PreCallEarly, EarlyNames, Zenon DEF Known
<1> QED BY <1>1, <1>4, <1>5, <1>6, EarlyDone, Zenon DEF Known

LEMMA AggregateLines ==
  ASSUME Known, Aggregate
  PROVE LineInv'
<1> DEFINE i == Earliest(InStage("COVERAGE"))
           row == [intents[i] EXCEPT !.stage = intents[i].decision, !.decision = "NONE"]
<1>1. i \in Intent /\ intents[i].stage = "COVERAGE" /\ worker.pc = "idle"
  BY InStageRow, Zenon DEF Aggregate, Covering, Draining
<1>2. intents[i].decision \in {"NONE", "AUTHORIZED", "COVERED"}
  BY <1>1, RowFields, Zenon DEF TypeInv, Known
<1>3. row.stage = intents[i].decision
  <2>1. intents[i] \in IntentRow
    BY <1>1, RowFields, Zenon DEF TypeInv, Known
  <2>2. \A s, d : [intents[i] EXCEPT !.stage = s, !.decision = d].stage = s
    BY <2>1, RowStages, Zenon
  <2> QED BY <2>2, Zenon
<1>4. Done(PutIntent(i, row)) \/ Done(PutIntent(i, PreCall(intents[i])))
  BY Zenon DEF Aggregate
<1> HIDE DEF row, i
<1>5. RowEarly(i, row) BY <1>1, <1>2, <1>3, EarlyNames DEF RowEarly
<1>6. RowEarly(i, PreCall(intents[i]))
  BY <1>1, PreCallEarly, EarlyNames, Zenon DEF Known
<1> QED BY <1>1, <1>4, <1>5, <1>6, EarlyDone, Zenon DEF Known

LEMMA RefuseLines ==
  ASSUME Known, Refuse
  PROVE LineInv'
<1>1. Candidate \in Intent /\ intents[Candidate].stage = "AUTHORIZED"
  BY CandidateRow, Zenon DEF Refuse
<1>2. RowEarly(Candidate, PreCall(intents[Candidate]))
  BY <1>1, PreCallEarly, EarlyNames, Zenon DEF Known
<1>3. Step(PutIntent(Candidate, PreCall(intents[Candidate])), Idle)
  BY Zenon DEF Refuse
<1>4. Idle.pc \notin LinePcs
  BY DEF Idle, LinePcs, BodyPcs, PutPcs, SealedPcs
<1> QED BY <1>1, <1>2, <1>3, <1>4, EarlyStep, Zenon DEF Known

LEMMA AcquireAgainLines ==
  ASSUME Known, AcquireAgain
  PROVE LineInv'
  BY OffLineNames, OffLineWorking, SkipLines, Zenon DEF AcquireAgain, Known

(* The worker's own row, before its result is sealed. *)
LEMMA EarlyOwnStep ==
  ASSUME Known, NEW row, NEW pc, pc \notin LinePcs, mine.stage \in EarlyStages \ {"RECALLING"},
         row.stage # "READY", Step(PutIntent(me, row), At(pc))
  PROVE LineInv'
<1>1. me \in Intent /\ RowEarly(me, row)
  BY MeOK DEF RowEarly, Known, mine
<1>2. At(pc).pc \notin LinePcs BY PlaceOf, Zenon DEF Known
<1> QED BY <1>1, <1>2, EarlyStep, Zenon DEF Known

LEMMA OwnStages ==
  ASSUME Known
  PROVE  /\ Bind => mine.stage = "AUTHORIZED"
         /\ ReleasePreCall => mine.stage = "LEASED"
         /\ MarkReserved => mine.stage = "LEASED"
         /\ ReserveCall => mine.stage = "LEASED"
         /\ TerminalCall => mine.stage = "CALL_RESERVED"
         /\ CommitOutcome => mine.stage = "CALL_TERMINAL"
<1>1. StageAt(worker, intents, calls) /\ mine = intents[worker.i]
  BY Zenon DEF Known, HolderInv, PlaceOK, mine, me
<1> QED BY <1>1 DEF StageAt, Bind, ReleasePreCall, MarkReserved, ReserveCall, TerminalCall, CommitOutcome

LEMMA CallingRowLines ==
  ASSUME Known, Bind \/ ReserveCall \/ TerminalCall \/ CommitOutcome
  PROVE LineInv'
<1>1. mine \in IntentRow BY MeOK, Zenon DEF Known
<1>2. {"AUTHORIZED", "LEASED", "CALL_RESERVED", "CALL_TERMINAL"} \subseteq EarlyStages \ {"RECALLING"}
  BY EarlyNames
<1>3. /\ \A s : [mine EXCEPT !.stage = s].stage = s
      /\ \A s, c : [mine EXCEPT !.stage = s, !.call = c].stage = s
      /\ \A s, b : [mine EXCEPT !.stage = s, !.barrier = b].stage = s
      /\ \A s, n, b : [mine EXCEPT !.stage = s, !.reason = n, !.barrier = b].stage = s
  BY <1>1, RowStages, Zenon
<1>4. CASE Bind
  <2>1. Step(PutIntent(me, [mine EXCEPT !.stage = "LEASED"]), At("beforeCall"))
    BY <1>4, Zenon DEF Bind
  <2>2. [mine EXCEPT !.stage = "LEASED"].stage # "READY" BY <1>3
  <2> QED BY <1>2, <1>4, <2>1, <2>2, OwnStages, OffLineNames, EarlyOwnStep, Zenon
<1>5. CASE ReserveCall
  <2> DEFINE row == [mine EXCEPT !.stage = "CALL_RESERVED", !.call = "RESERVED"]
  <2>1. Step(PutIntent(me, row), At("generate"))
    BY <1>5, Zenon DEF ReserveCall
  <2>2. row.stage # "READY" BY <1>3
  <2> HIDE DEF row
  <2> QED BY <1>2, <1>5, <2>1, <2>2, OwnStages, OffLineNames, EarlyOwnStep, Zenon
<1>6. CASE TerminalCall
  <2> DEFINE c == IF worker.fate = "KNOWN_FAILED" THEN "FAILED" ELSE "SUCCEEDED"
             row == [mine EXCEPT !.stage = "CALL_TERMINAL", !.call = c]
  <2>1. Step(PutIntent(me, row), At("prepare"))
    BY <1>6, Zenon DEF TerminalCall
  <2>2. row.stage # "READY"
    <3> HIDE DEF c
    <3> QED BY <1>3
  <2> HIDE DEF row
  <2> QED BY <1>2, <1>6, <2>1, <2>2, OwnStages, OffLineNames, EarlyOwnStep, Zenon
<1>7. CASE CommitOutcome
  <2> DEFINE bar == [kind |-> worker.fate, at |-> mine.epoch + 1]
             n == worker.fate
             sealed == [mine EXCEPT !.stage = "RESULT_COMMITTED", !.barrier = NoBarrier]
             stopped == [mine EXCEPT !.stage = "ATTENTION", !.reason = n, !.barrier = bar]
             row == IF worker.fate = "RESULT" THEN sealed ELSE stopped
  <2>1. Step(PutIntent(me, row), At("finalize"))
    BY <1>7, Zenon DEF CommitOutcome
  <2>2. row.stage # "READY"
    <3> HIDE DEF bar, n
    <3>1. sealed.stage = "RESULT_COMMITTED" /\ stopped.stage = "ATTENTION"
      BY <1>3
    <3> HIDE DEF sealed, stopped
    <3> QED BY <3>1
  <2> HIDE DEF row
  <2> QED BY <1>2, <1>7, <2>1, <2>2, OwnStages, OffLineNames, EarlyOwnStep, Zenon
<1> QED BY <1>4, <1>5, <1>6, <1>7, Zenon

LEMMA QuietLines ==
  ASSUME LineInv, Nothing, NEW w, w.pc \notin LinePcs, Go(w) \/ Thrown
  PROVE LineInv'
<1>1. intents' = intents /\ global' = global /\ lineages' = lineages /\ journal' = journal
  BY NothingPut, Zenon DEF journal
<1>2. LinesOK' BY <1>1, NothingLines, Zenon DEF LineInv
<1> QED BY <1>1, <1>2, OffLine, WorkerFollows, Zenon DEF LineInv

LEMMA ResetLines ==
  ASSUME Known, NEW w, w.pc \notin LinePcs, Reset(w)
  PROVE LineInv'
<1>1. CASE mine.stage \in {"LEASED", "AUTHORIZED"}
  <2>1. Step(PutIntent(me, PreCall(mine)), w) BY <1>1, Zenon DEF Reset
  <2>2. me \in Intent /\ RowEarly(me, PreCall(mine))
    BY <1>1, MeOK, PreCallEarly, EarlyNames, Zenon DEF Known, mine
  <2> QED BY <2>1, <2>2, EarlyStep, Zenon DEF Known
<1>2. CASE mine.stage \notin {"LEASED", "AUTHORIZED"}
  <2>1. Nothing /\ (Go(w) \/ Thrown)
    BY <1>2, Zenon DEF Reset, Step, Fault
  <2> QED BY <2>1, QuietLines, Zenon DEF Known
<1> QED BY <1>1, <1>2, Zenon

LEMMA ResettingLines ==
  ASSUME Known, ResetPreCall \/ StrandReset
  PROVE LineInv'
<1>1. Idle.pc \notin LinePcs /\ Working("strand", me).pc \notin LinePcs
  <2>1. Idle.pc = "idle" /\ Working("strand", me).pc = "strand"
    BY PlaceOfWorking, Zenon DEF Idle
  <2> QED BY <2>1, OffLineNames, Zenon
<1> QED BY <1>1, ResetLines, Zenon DEF ResetPreCall, StrandReset

LEMMA ForceUnknownLines ==
  ASSUME Known, ForceUnknown
  PROVE LineInv'
<1> DEFINE row == [mine EXCEPT !.stage = "CALL_TERMINAL", !.call = "OUTCOME_UNKNOWN"]
<1>1. At("prepare").pc \notin LinePcs
  BY PlaceOf, OffLineNames, Zenon DEF Known
<1>2. CASE mine.stage \in {"AUTHORIZED", "LEASED", "CALL_RESERVED"}
  <2>1. Step(PutIntent(me, row), At("prepare"))
    BY <1>2, Zenon DEF ForceUnknown
  <2>2. row.stage # "READY"
    <3>1. \A s, c : [mine EXCEPT !.stage = s, !.call = c].stage = s
      BY MeOK, RowStages, Zenon DEF Known
    <3> QED BY <3>1
  <2>3. mine.stage \in EarlyStages \ {"RECALLING"} BY <1>2, EarlyNames
  <2> HIDE DEF row
  <2> QED BY <2>1, <2>2, <2>3, OffLineNames, EarlyOwnStep, Zenon
<1>3. CASE mine.stage \notin {"AUTHORIZED", "LEASED", "CALL_RESERVED"}
  <2>1. Nothing /\ (Go(At("prepare")) \/ Thrown)
    BY <1>3, Zenon DEF ForceUnknown, Step, Fault
  <2> QED BY <1>1, <2>1, QuietLines, Zenon DEF Known
<1> QED BY <1>2, <1>3, Zenon

----
(* The writes of the global record, up to the sealed result. *)

LEMMA Shapes ==
  ASSUME DurableOK
  PROVE  /\ \A j : /\ [global EXCEPT !.journal = j].journal = j
                   /\ [global EXCEPT !.journal = j].lease = lease
                   /\ [global EXCEPT !.journal = j].index = global.index
         /\ \A l : /\ [global EXCEPT !.lease = l].journal = journal
                   /\ [global EXCEPT !.lease = l].lease = l
                   /\ [global EXCEPT !.lease = l].index = global.index
         /\ \A x : /\ [global EXCEPT !.index = x].journal = journal
                   /\ [global EXCEPT !.index = x].lease = lease
                   /\ [global EXCEPT !.index = x].index = x
         /\ \A x, l : /\ [[global EXCEPT !.index = x] EXCEPT !.lease = l].journal = journal
                      /\ [[global EXCEPT !.index = x] EXCEPT !.lease = l].lease = l
                      /\ [[global EXCEPT !.index = x] EXCEPT !.lease = l].index = x
         /\ \A x, l : /\ [[global EXCEPT !.lease = l] EXCEPT !.index = x].journal = journal
                      /\ [[global EXCEPT !.lease = l] EXCEPT !.index = x].lease = l
                      /\ [[global EXCEPT !.lease = l] EXCEPT !.index = x].index = x
<1> DEFINE X == [Behaviour -> Entry]
<1>1. global \in [epoch : Nat, journal : Journal, lease : Lease, index : X]
  BY Zenon DEF DurableOK, Global
<1> HIDE DEF X
<1> QED BY <1>1 DEF journal, lease

LEMMA ShapesAdvanced ==
  ASSUME DurableOK
  PROVE  /\ \A l : /\ [Advanced EXCEPT !.lease = l].journal = NoJournal
                   /\ [Advanced EXCEPT !.lease = l].lease = l
                   /\ [Advanced EXCEPT !.lease = l].index = global.index
                   /\ [Advanced EXCEPT !.lease = l].epoch = epoch + 1
         /\ \A x : /\ [Advanced EXCEPT !.index = x].journal = NoJournal
                   /\ [Advanced EXCEPT !.index = x].lease = lease
                   /\ [Advanced EXCEPT !.index = x].index = x
         /\ \A x, l : /\ [[Advanced EXCEPT !.lease = l] EXCEPT !.index = x].journal = NoJournal
                      /\ [[Advanced EXCEPT !.lease = l] EXCEPT !.index = x].lease = l
                      /\ [[Advanced EXCEPT !.lease = l] EXCEPT !.index = x].index = x
<1> DEFINE X == [Behaviour -> Entry]
<1>1. Advanced \in [epoch : Nat, journal : Journal, lease : Lease, index : X]
  BY AdvancedOK, Zenon DEF Global
<1>2. /\ Advanced.epoch = epoch + 1 /\ Advanced.journal = NoJournal /\ Advanced.lease = lease
      /\ Advanced.index = global.index
  BY AdvancedFields, Zenon
<1> HIDE DEF X
<1> QED BY <1>1, <1>2

(* What is prepared is nobody's mutation that the desk goes on with. *)
NotUsers(j) == j.kind \notin {"USER_ACTION", "REVIEW"}

LEMMA NoUsers ==
  /\ NotUsers(NoJournal)
  /\ \A j : NotUsers(j) => ~ RefreshJournal(j)
  /\ \A j : j.kind \in {"GENERATION_RESULT", "BARRIER", "PROPOSAL"} => NotUsers(j)
  /\ \A o, e : ~ RefreshJournal([kind |-> "PROPOSAL", owner |-> o, at |-> e])
  /\ \A o, e : \A k \in {"GENERATION_RESULT", "BARRIER"} :
        ~ RefreshJournal([kind |-> k, owner |-> o, at |-> e])
  BY DEF NotUsers, NoJournal, RefreshJournal

GlobalSafe(g) ==
    /\ LeaseSafe(g.lease) /\ IndexSafe(g.lease, g.index) /\ JournalSafe(g.journal)
    /\ g.journal = journal \/ NotUsers(journal)

LEMMA GlobalMove ==
  ASSUME LineInv, NEW g, GlobalSafe(g), PutGlobal(g), NEW w, Go(w) \/ Thrown,
         Go(w) => BodyAt(w, g, intents, lineages)
  PROVE LineInv'
<1>1. /\ intents' = intents /\ lineages' = lineages /\ global' = g
      /\ lease' = g.lease /\ journal' = g.journal /\ global'.index = g.index
  BY KeptByGlobal, Zenon DEF PutGlobal
<1>2. LinesOK' BY <1>1, GlobalLines, Zenon DEF LineInv, GlobalSafe
<1>3. DeskAt(desk, journal', intents')
  BY <1>1, DeskJournal, Zenon DEF LineInv, GlobalSafe, NotUsers
<1> QED BY <1>1, <1>2, <1>3, WorkerFollows, Zenon

LEMMA GlobalStepLines ==
  ASSUME LineInv, NEW g, GlobalSafe(g), NEW w, Step(PutGlobal(g), w),
         BodyAt(w, g, intents, lineages)
  PROVE LineInv'
<1>1. CASE PutGlobal(g) /\ (Go(w) \/ Thrown) BY <1>1, GlobalMove, Zenon
<1>2. CASE Nothing /\ Thrown
  <2>1. Idle.pc \notin LinePcs
    BY DEF Idle, LinePcs, BodyPcs, PutPcs, SealedPcs
  <2> QED BY <1>2, <2>1, QuietLines, Zenon
<1> QED BY <1>1, <1>2, Zenon DEF Step, Fault

(* The journal alone moves, from and to what no refresh prepared. *)
LEMMA JournalIsSafe ==
  ASSUME TypeInv, LineInv, NEW j, ~ RefreshJournal(j), NotUsers(journal)
  PROVE GlobalSafe([global EXCEPT !.journal = j])
<1> DEFINE g == [global EXCEPT !.journal = j]
<1>1. g.journal = j /\ g.lease = lease /\ g.index = global.index
  BY Shapes, Zenon DEF TypeInv
<1> HIDE DEF g
<1>2. JournalSafe(j) BY SafeJournals, NoUsers, Zenon DEF LineInv
<1>3. GlobalSafe(g)
  BY <1>1, <1>2, SameLease, Zenon DEF LineInv, GlobalSafe
<1> QED BY <1>3 DEF g

(* The lease alone moves to a state that its intent may be in. *)
LEMMA LeaseIsSafe ==
  ASSUME TypeInv, LineInv, lease # NoLease, NEW s \in LeaseStates,
         intents[lease.i].stage = "READY" => s \in BodyStates,
         s = "PROPOSAL_COMMIT_AUTHORIZED" => intents[lease.i].stage \in AuthorizedStages,
         s \in BodyStates => Line(lease.i).owner = lease.i
  PROVE  LET l == [lease EXCEPT !.state = s]
         IN  /\ LeaseSafe(l) /\ l.i = lease.i /\ l.state = s /\ l # NoLease
             /\ l.round = lease.round
             /\ \A x : (\A i \in Intent : (intents[i].stage = "READY" /\ lease.i # i) =>
                            x[BehaviourOf[i]] = IndexOf(i)) => IndexSafe(l, x)
             /\ IndexSafe(l, global.index)
<1> DEFINE l == [lease EXCEPT !.state = s]
<1>1. l.i = lease.i /\ l.state = s /\ l # NoLease /\ l.round = lease.round
  BY LeaseMoved, Zenon DEF TypeInv
<1> HIDE DEF l
<1>2. LeaseSafe(l) BY <1>1, Zenon DEF LeaseSafe
<1>3. ASSUME NEW x, \A i \in Intent : (intents[i].stage = "READY" /\ lease.i # i) =>
                              x[BehaviourOf[i]] = IndexOf(i)
      PROVE IndexSafe(l, x)
  BY <1>1, <1>3, Zenon DEF IndexSafe
<1>4. IndexSafe(l, global.index) BY <1>1, Zenon DEF IndexSafe, IndexOf
<1>5. /\ LeaseSafe(l) /\ l.i = lease.i /\ l.state = s /\ l # NoLease /\ l.round = lease.round
      /\ \A x : (\A i \in Intent : (intents[i].stage = "READY" /\ lease.i # i) =>
                     x[BehaviourOf[i]] = IndexOf(i)) => IndexSafe(l, x)
      /\ IndexSafe(l, global.index)
  BY <1>1, <1>2, <1>3, <1>4, Zenon
<1> QED BY <1>5 DEF l

LEMMA AcquireLines ==
  ASSUME Known, Acquire
  PROVE LineInv'
<1> DEFINE i == Candidate
           e == [owner |-> i, state |-> "RESERVED"]
           l == [state |-> "NOT_CALLED", i |-> i, round |-> intents[i].round, epoch |-> epoch]
           x == [global.index EXCEPT ![BehaviourOf[i]] = e]
           g == [[global EXCEPT !.index = x] EXCEPT !.lease = l]
           w == Working("bind", i)
<1>1. /\ i \in Intent /\ intents[i].stage = "AUTHORIZED" /\ Unclaimed(i) /\ lease = NoLease
      /\ Step(PutGlobal([global EXCEPT
                      !.index[BehaviourOf[i]] = [owner |-> i, state |-> "RESERVED"],
                      !.lease = [state |-> "NOT_CALLED", i |-> i,
                                 round |-> intents[i].round, epoch |-> epoch]]), w)
  BY CandidateRow, Zenon DEF Acquire
<1>2. Step(PutGlobal(g), w) BY <1>1
<1>3. g.journal = journal /\ g.lease = l /\ g.index = x
  <2>1. \A y, k : /\ [[global EXCEPT !.index = y] EXCEPT !.lease = k].journal = journal
                 /\ [[global EXCEPT !.index = y] EXCEPT !.lease = k].lease = k
                 /\ [[global EXCEPT !.index = y] EXCEPT !.lease = k].index = y
    <3>1. DurableOK BY Zenon DEF Known, TypeInv
    <3> QED BY <3>1, Shapes
  <2> HIDE DEF x, l
  <2> QED BY <2>1, Zenon
<1>4. l.i = i /\ l.state = "NOT_CALLED" /\ e.state = "RESERVED" OBVIOUS
<1>5. e # [owner |-> i, state |-> "ACTIVE"] OBVIOUS
<1>6. w.pc \notin LinePcs
  <2>1. w.pc = "bind" BY PlaceOfWorking, Zenon
  <2> QED BY <2>1, OffLineNames, Zenon
<1> HIDE DEF g, l, w
<1>7. LeaseSafe(l)
  <2>1. l.state # "PROPOSAL_COMMIT_AUTHORIZED" /\ l.state \notin BodyStates
    BY <1>4 DEF BodyStates
  <2> QED BY <1>1, <1>4, <2>1 DEF LeaseSafe
<1>8. IndexSafe(l, x)
  <2> SUFFICES ASSUME NEW j \in Intent, intents[j].stage = "READY"
               PROVE lease.i # j /\ x[BehaviourOf[j]] = IndexOf(j)
    BY Zenon DEF IndexSafe
  <2>1. lease.i # j
    <3>1. lease.i = 0 BY <1>1, NoLeaseFields, Zenon
    <3> QED BY <3>1, SizesAssumption DEF Intent
  <2>2. IndexOf(j) = [owner |-> j, state |-> "ACTIVE"]
    BY <2>1, Zenon DEF Known, LineInv, LinesOK, ReadyOwns
  <2>3. BehaviourOf[j] # BehaviourOf[i]
    <3>1. IndexOf(i) # [owner |-> j, state |-> "ACTIVE"]
      BY <1>1 DEF Unclaimed, NoEntry
    <3> QED BY <2>2, <3>1, Zenon DEF IndexOf
  <2>4. global.index \in [Behaviour -> Entry] /\ BehaviourOf[j] \in Behaviour
    BY GlobalFields, BehaviourType, Zenon DEF Known, TypeInv
  <2> QED BY <2>1, <2>3, <2>4, Zenon DEF IndexOf
<1>9. GlobalSafe(g)
  BY <1>3, <1>7, <1>8, SafeJournals, Zenon DEF GlobalSafe, Known, LineInv
<1> QED BY <1>2, <1>6, <1>9, OffLine, GlobalStepLines, Zenon DEF Known

LEMMA ReleasePreCallLines ==
  ASSUME Known, ReleasePreCall
  PROVE LineInv'
<1> DEFINE x == [global.index EXCEPT ![BehaviourOf[me]] = Unreserved(@, me)]
           g == [[global EXCEPT !.lease = NoLease] EXCEPT !.index = x]
           w == At("resetPreCall")
<1>1. CASE Skip(Idle) BY <1>1, SkipIdle, Zenon DEF Known
<1>2. CASE HoldsLease(me) /\ lease.state = "NOT_CALLED"
  <2>1. Step(PutGlobal([Released EXCEPT !.index[BehaviourOf[me]] = Unreserved(@, me)]), w)
    BY <1>2, Zenon DEF ReleasePreCall
  <2>2. Released.index = global.index
    BY ReleasedOK, IndexOfGlobal, Zenon DEF Released, Known, TypeInv, DurableOK
  <2>3. Step(PutGlobal(g), w) BY <2>1, <2>2 DEF Released
  <2>4. intents[me].stage = "LEASED" /\ lease.i = me
    BY <1>2, OwnStages, Zenon DEF mine, HoldsLease
  <2>5. g.journal = journal /\ g.lease = NoLease /\ g.index = x
    <3>1. \A y, k : /\ [[global EXCEPT !.lease = k] EXCEPT !.index = y].journal = journal
                   /\ [[global EXCEPT !.lease = k] EXCEPT !.index = y].lease = k
                   /\ [[global EXCEPT !.lease = k] EXCEPT !.index = y].index = y
      <4>1. DurableOK BY Zenon DEF Known, TypeInv
      <4> QED BY <4>1, Shapes
    <3> HIDE DEF x
    <3> QED BY <3>1, Zenon
  <2>6. w.pc \notin LinePcs BY PlaceOf, OffLineNames, Zenon DEF Known
  <2> HIDE DEF g, w
  <2>7. ASSUME NEW j \in Intent, intents[j].stage = "READY"
        PROVE x[BehaviourOf[j]] = IndexOf(j)
    <3>1. IndexOf(j).owner = j /\ j # me
      BY <2>4, <2>7, SealedIndexed, LineStageNames, Zenon DEF Known
    <3>2. global.index \in [Behaviour -> Entry] /\ BehaviourOf[j] \in Behaviour
      BY GlobalFields, BehaviourType, Zenon DEF Known, TypeInv
    <3>3. Unreserved(IndexOf(j), me) = IndexOf(j)
      BY <3>1, Zenon DEF Unreserved
    <3> QED BY <3>2, <3>3, Zenon DEF IndexOf
  <2> HIDE DEF x
  <2>8. LeaseSafe(NoLease) /\ IndexSafe(NoLease, x)
    BY <2>4, <2>7, SafeRelease
  <2>9. GlobalSafe(g)
    BY <2>5, <2>8, SafeJournals, Zenon DEF GlobalSafe, Known, LineInv
  <2> QED BY <2>3, <2>6, <2>9, OffLine, GlobalStepLines, Zenon DEF Known
<1> QED BY <1>1, <1>2, Zenon DEF ReleasePreCall

LEMMA MarkReservedLines ==
  ASSUME Known, MarkReserved
  PROVE LineInv'
<1>1. CASE Skip(Idle) BY <1>1, SkipIdle, Zenon DEF Known
<1>2. CASE HoldsLease(me) /\ lease.state = "NOT_CALLED"
  <2> DEFINE l == [lease EXCEPT !.state = "CALL_RESERVED"]
             g == [global EXCEPT !.lease = l]
             w == At("reserveCall")
  <2>1. CASE Step(PutGlobal([global EXCEPT !.lease.state = "CALL_RESERVED"]), w)
    <3>1. Step(PutGlobal(g), w) BY <2>1 DEF lease
    <3>2. lease # NoLease /\ lease.i = me /\ "CALL_RESERVED" \in LeaseStates
          /\ "CALL_RESERVED" \notin BodyStates
      BY <1>2, LeaseNames, Zenon DEF HoldsLease, BodyStates
    <3>3. intents[lease.i].stage # "READY" BY <3>2, OwnStages DEF mine
    <3>4. LeaseSafe(l) /\ IndexSafe(l, global.index)
      BY <3>2, <3>3, LeaseIsSafe DEF Known
    <3>5. g.journal = journal /\ g.lease = l /\ g.index = global.index
      <4> HIDE DEF l
      <4> QED BY Shapes, Zenon DEF Known, TypeInv
    <3>6. w.pc \notin LinePcs BY PlaceOf, OffLineNames, Zenon DEF Known
    <3> HIDE DEF g, w, l
    <3>7. GlobalSafe(g)
      BY <3>4, <3>5, SafeJournals, Zenon DEF GlobalSafe, Known, LineInv
    <3> QED BY <3>1, <3>6, <3>7, OffLine, GlobalStepLines, Zenon DEF Known
  <2> QED BY <1>1, <2>1, Zenon DEF MarkReserved
<1> QED BY <1>1, <1>2, Zenon DEF MarkReserved

LEMMA PrepareOutcomeLines ==
  ASSUME Known, PrepareOutcome
  PROVE LineInv'
<1> DEFINE k == OutcomeKind
           j == [kind |-> k, owner |-> Own(me), at |-> epoch]
           w == At("commit")
<1>1. CASE Skip(Idle) BY <1>1, SkipIdle, Zenon DEF Known
<1>2. CASE ~ Skip(Idle)
  <2>1. journal = NoJournal /\ Step(PutGlobal([global EXCEPT !.journal = j]), w)
    BY <1>2, Zenon DEF PrepareOutcome, CatalogIs, CatalogComplete
  <2>2. k \in {"GENERATION_RESULT", "BARRIER"} BY DEF OutcomeKind
  <2>3. ~ RefreshJournal(j)
    <3> HIDE DEF k
    <3> QED BY <2>2, NoUsers, Zenon
  <2>4. w.pc \notin LinePcs BY PlaceOf, OffLineNames, Zenon DEF Known
  <2> HIDE DEF j, w
  <2>5. GlobalSafe([global EXCEPT !.journal = j])
    BY <2>1, <2>3, NoUsers, JournalIsSafe, Zenon DEF Known
  <2> QED BY <2>1, <2>4, <2>5, OffLine, GlobalStepLines, Zenon DEF Known
<1> QED BY <1>1, <1>2, Zenon

LEMMA FinalizeOutcomeLines ==
  ASSUME Known, FinalizeOutcome
  PROVE LineInv'
<1> DEFINE next == IF worker.fate = "RESULT" /\ mode = "UP" THEN At("fence") ELSE Idle
           l == IF worker.fate = "RESULT" THEN [lease EXCEPT !.state = "RESULT_COMMITTED"]
                                          ELSE NoLease
           g == [Advanced EXCEPT !.lease = l]
<1>1. next.pc \notin LinePcs
  <2>1. At("fence").pc = "fence" /\ Idle.pc = "idle"
    BY PlaceOf, Zenon DEF Known, Idle
  <2> QED BY <2>1, OffLineNames, Zenon
<1>2. CASE Skip(next) BY <1>1, <1>2, SkipOffLine, Zenon DEF Known
<1>3. CASE HoldsLease(me) /\ epoch = mine.epoch /\ JournalIs(OutcomeKind, Own(me))
  <2>1. journal.kind \in {"GENERATION_RESULT", "BARRIER"} /\ journal # NoJournal
    BY <1>3 DEF JournalIs, OutcomeKind, NoJournal
  <2>2. lease.state = "CALL_RESERVED" /\ lease.i = me
    BY <1>3, <2>1, Zenon DEF Known, Fenced, JournalAndLease, HoldsLease
  <2>3. "CALL_RESERVED" \notin BodyStates /\ "RESULT_COMMITTED" \notin BodyStates
        /\ "RESULT_COMMITTED" # "PROPOSAL_COMMIT_AUTHORIZED"
        /\ "RESULT_COMMITTED" \in LeaseStates /\ "CALL_RESERVED" \in LeaseStates
    BY LeaseNames DEF BodyStates
  <2>4. lease # NoLease BY <2>2, <2>3, LeaseNames, Zenon
  <2>5. \A i \in Intent : lease.i = i => intents[i].stage # "READY"
    BY <2>2, <2>3, Zenon DEF Known, LineInv, LinesOK, ReadyLeased
  <2>6. intents[lease.i].stage # "READY"
    BY <2>2, <2>5, MeOK, Zenon DEF Known
  <2>7. LeaseSafe(l) /\ IndexSafe(l, global.index)
    <3>1. CASE worker.fate = "RESULT"
      BY <2>3, <2>4, <2>6, <3>1, LeaseIsSafe DEF Known
    <3>2. CASE worker.fate # "RESULT"
      <4>1. LeaseSafe(NoLease) /\ IndexSafe(NoLease, global.index)
        BY <2>5, SafeRelease, Zenon DEF IndexOf
      <4> QED BY <3>2, <4>1
    <3> QED BY <3>1, <3>2, Zenon
  <2>8. g = [Advanced EXCEPT !.lease = IF worker.fate = "RESULT"
                                       THEN [@ EXCEPT !.state = "RESULT_COMMITTED"] ELSE NoLease]
    <3>1. Advanced.lease = lease
      BY AdvancedFields, Zenon DEF Known, TypeInv
    <3> QED BY <3>1
  <2>9. Step(PutGlobal([Advanced EXCEPT
                         !.lease = IF worker.fate = "RESULT"
                                   THEN [@ EXCEPT !.state = "RESULT_COMMITTED"] ELSE NoLease]),
             next)
    BY <1>3, Zenon DEF FinalizeOutcome
  <2>10. Step(PutGlobal(g), next) BY <2>8, <2>9
  <2>11. g.journal = NoJournal /\ g.lease = l /\ g.index = global.index
    <3> HIDE DEF l
    <3> QED BY ShapesAdvanced, Zenon DEF Known, TypeInv
  <2> HIDE DEF g, l, next
  <2>12. NotUsers(journal) /\ JournalSafe(NoJournal)
    <3>1. NotUsers(journal) BY <2>1 DEF NotUsers
    <3>2. ~ RefreshJournal(journal) /\ ~ RefreshJournal(NoJournal)
      BY <3>1, NoUsers, NoRefresh, Zenon
    <3>3. LinesOK BY Zenon DEF Known, LineInv
    <3> QED BY <3>1, <3>2, <3>3, SafeJournals, Zenon
  <2>13. GlobalSafe(g) BY <2>7, <2>11, <2>12, Zenon DEF GlobalSafe
  <2> QED BY <1>1, <2>10, <2>13, OffLine, GlobalStepLines, Zenon DEF Known
<1> QED BY <1>2, <1>3, Zenon DEF FinalizeOutcome

(* The lease of an intent that is not finished is given back. *)
LEMMA ReleasedIsSafe ==
  ASSUME TypeInv, LineInv, \A i \in Intent : lease.i = i => intents[i].stage # "READY"
  PROVE GlobalSafe(Released)
<1>1. Released.journal = journal /\ Released.lease = NoLease /\ Released.index = global.index
  BY Shapes, Zenon DEF Released, TypeInv
<1>2. LeaseSafe(NoLease) /\ IndexSafe(NoLease, global.index)
  BY SafeRelease, Zenon DEF IndexOf
<1> QED BY <1>1, <1>2, SafeJournals, Zenon DEF LineInv, GlobalSafe

LEMMA ReleaseStaleLines ==
  ASSUME Known, ReleaseStale
  PROVE LineInv'
<1>1. CASE lease.state \in ResultStates /\ Step(PutGlobal(Released), Idle)
  <2>1. lease.state \notin BodyStates
    BY <1>1 DEF ResultStates, BodyStates
  <2>2. GlobalSafe(Released)
    BY <2>1, ReleasedIsSafe, Zenon DEF Known, LineInv, LinesOK, ReadyLeased
  <2> QED BY <1>1, <2>2, IdleOffLine, GlobalStepLines, Zenon DEF Known
<1>2. CASE Nothing /\ (Go(Idle) \/ Thrown)
  <2>1. Idle.pc \notin LinePcs
    BY DEF Idle, LinePcs, BodyPcs, PutPcs, SealedPcs
  <2> QED BY <1>2, <2>1, QuietLines, Zenon DEF Known
<1> QED BY <1>1, <1>2, Zenon DEF ReleaseStale, Step, Fault

LEMMA StrandLines ==
  ASSUME Known, Strand
  PROVE LineInv'
<1>1. CASE Skip(Idle) BY <1>1, SkipIdle, Zenon DEF Known
<1>2. CASE ~ Skip(Idle)
  <2> DEFINE i == Earliest(InStage("LEASED"))
             e == [owner |-> i, state |-> "RESERVED"]
             x == [b \in Behaviour |-> IF global.index[b] = e THEN NoEntry ELSE global.index[b]]
             g == [global EXCEPT !.index = x]
             w == Working("strandReset", i)
  <2>1. Step(PutGlobal([global EXCEPT !.index = [b \in Behaviour |->
                           IF @[b] = [owner |-> i, state |-> "RESERVED"] THEN NoEntry ELSE @[b]]]), w)
    BY <1>2, Zenon DEF Strand
  <2>2. Step(PutGlobal(g), w) BY <2>1
  <2>3. g.journal = journal /\ g.lease = lease /\ g.index = x
    <3> HIDE DEF x
    <3> QED BY Shapes, Zenon DEF Known, TypeInv
  <2>4. w.pc \notin LinePcs
    <3>1. w.pc = "strandReset" BY PlaceOfWorking, Zenon
    <3> QED BY <3>1, OffLineNames, Zenon
  <2> HIDE DEF g, w
  <2>5. lease = NoLease
    BY Zenon DEF Strand, Known, HolderInv, PlaceOK, LeaseAt
  <2>6. ASSUME NEW j \in Intent, intents[j].stage = "READY"
        PROVE x[BehaviourOf[j]] = IndexOf(j)
    <3>1. lease.i # j BY <2>5, NoLeaseFields, SizesAssumption DEF Intent
    <3>2. IndexOf(j) = [owner |-> j, state |-> "ACTIVE"]
      BY <2>6, <3>1, Zenon DEF Known, LineInv, LinesOK, ReadyOwns
    <3>3. IndexOf(j) # e BY <3>2
    <3> HIDE DEF e
    <3> QED BY <3>3, BehaviourType, Zenon DEF IndexOf
  <2> HIDE DEF x
  <2>7. GlobalSafe(g)
    BY <2>3, <2>6, SameLease, SafeJournals, Zenon DEF GlobalSafe, Known, LineInv
  <2> QED BY <2>2, <2>4, <2>7, OffLine, GlobalStepLines, Zenon DEF Known
<1> QED BY <1>1, <1>2, Zenon

(* What only moves the worker. *)
LEMMA MovingLines ==
  ASSUME Known, BeforeCall \/ FenceResult
  PROVE LineInv'
<1>1. \A pc \in {"markReserved", "releasePreCall", "markStale"} : At(pc).pc \notin LinePcs
  BY PlaceOf, OffLineNames, Zenon DEF Known
<1> QED BY <1>1, SkipIdle, SkipOffLine, Zenon DEF BeforeCall, FenceResult, Known

LEMMA GenerateLines ==
  ASSUME Known, Generate
  PROVE LineInv'
<1>1. PICK f : worker' = [At("terminalCall") EXCEPT !.fate = f]
  BY Zenon DEF Generate
<1>2. worker'.pc = "terminalCall"
  <2>1. worker \in WorkerSet BY MeOK, Zenon DEF WorkerOK, Known
  <2> QED BY <1>1, <2>1 DEF At, WorkerSet
<1>3. /\ intents' = intents /\ global' = global /\ lineages' = lineages /\ journal' = journal
      /\ desk' = desk
  BY Zenon DEF Generate, durable, journal
<1>4. LinesOK' BY <1>3, NothingLines, Zenon DEF Known, LineInv
<1>5. BodyAt(worker', global', intents', lineages')
  BY <1>2, OffLine, OffLineNames, Zenon
<1> QED BY <1>3, <1>4, <1>5, Zenon DEF Known, LineInv

----
(* Where a commit goes on. *)

LEMMA BuiltOwner ==
  ASSUME NEW i, Built(i) # NoLineage
  PROVE Built(i).owner = i
<1> DEFINE proposals == Append(Line(i).proposals, [round |-> intents[i].round,
                            at |-> intents[i].epoch + 2, failure |-> "NONE"])
           revision == Line(i).revision + 1
           fresh == [state |-> "ACTIVE_PROPOSAL", revision |-> revision, owner |-> i,
                     proposals |-> proposals]
<1>1. fresh.owner = i OBVIOUS
<1>2. \/ Built(i) = fresh
      \/ Built(i) = Line(i) /\ Line(i).owner = i
  BY Zenon DEF Built
<1> HIDE DEF fresh
<1> QED BY <1>1, <1>2, Zenon

(* What a place of the commit asks, in its own words. *)
LEMMA SealedPlace ==
  ASSUME NEW w, w.pc \in SealedPcs, NEW g, NEW rows, NEW lines, rows[w.i].stage \in SealedStages
  PROVE BodyAt(w, g, rows, lines)
  BY DEF BodyAt, BodyOf, SealedPcs, BodyPcs, PutPcs

LEMMA CommittingPlace ==
  ASSUME NEW w, w.pc \in {"authorizeLease", "prepareProposal"}, NEW g, NEW rows, NEW lines,
         rows[w.i].stage \in CommittingStages
  PROVE BodyAt(w, g, rows, lines)
  BY DEF BodyAt, BodyOf, SealedPcs, BodyPcs, PutPcs

LEMMA PuttingPlace ==
  ASSUME NEW w, w.pc = "putLineage", NEW g, NEW rows, NEW lines,
         rows[w.i].stage \in CommittingStages, g.lease.i = w.i, w.expect.owner = w.i,
         g.journal.kind = "PROPOSAL"
  PROVE BodyAt(w, g, rows, lines)
  BY DEF BodyAt, BodyOf, SealedPcs, BodyPcs, PutPcs

LEMMA MarkingPlace ==
  ASSUME NEW w, w.pc \in {"markBody", "finalizeBody"}, NEW g, NEW rows, NEW lines,
         rows[w.i].stage \in CommittingStages, g.lease.i = w.i, w.expect.owner = w.i,
         g.journal.kind = "PROPOSAL", Written(lines[BehaviourOf[w.i]], w.expect),
         w.pc = "finalizeBody" => rows[w.i].stage = "PROPOSAL_BODY_COMMITTED"
  PROVE BodyAt(w, g, rows, lines)
  BY DEF BodyAt, BodyOf, SealedPcs, BodyPcs, PutPcs

LEMMA UndoingPlace ==
  ASSUME NEW w, w.pc \in {"failed", "rollback"}, NEW g, NEW rows, NEW lines,
         rows[w.i].stage \in CommittingStages, g.lease.i = w.i, w.expect.owner = w.i,
         g.lease.state \notin BodyStates
  PROVE BodyAt(w, g, rows, lines)
  BY DEF BodyAt, BodyOf, SealedPcs, BodyPcs, PutPcs

(* What the worker has where it stands. *)
LEMMA PlaceFacts ==
  ASSUME Known
  PROVE  /\ worker.pc \in SealedPcs => mine.stage \in SealedStages
         /\ worker.pc \in {"authorizeLease", "prepareProposal"} \cup BodyPcs =>
               mine.stage \in CommittingStages
         /\ worker.pc \in BodyPcs => lease.i = me /\ worker.expect.owner = me
         /\ worker.pc \in PutPcs => journal.kind = "PROPOSAL"
         /\ worker.pc = "finalizeBody" => mine.stage = "PROPOSAL_BODY_COMMITTED"
         /\ worker.pc \in {"markBody", "finalizeBody"} => Written(Line(me), worker.expect)
         /\ (worker.pc = "failed" /\ lease.state \in BodyStates) =>
               Finalized(worker, global, mine) /\ Written(Line(me), worker.expect)
         /\ (worker.pc = "rollback" /\ lease.state \in BodyStates) =>
               Line(me).revision > worker.expect.revision
<1>1. BodyOf(worker, global, mine, Line(me))
  BY Zenon DEF Known, LineInv, BodyAt, mine, Line, me
<1>2. lease = global.lease /\ journal = global.journal /\ me = worker.i
  BY Zenon DEF lease, journal, me
<1> QED BY <1>1, <1>2, Zenon DEF BodyOf

(* While a proposal is prepared its lease says so, and its intent with it. *)
LEMMA ProposalPrepared ==
  ASSUME Known, journal.kind = "PROPOSAL"
  PROVE  /\ lease.state = "PROPOSAL_COMMIT_AUTHORIZED" /\ lease.state \notin BodyStates
         /\ lease # NoLease /\ lease.i \in Intent
         /\ intents[lease.i].stage \in AuthorizedStages
         /\ NotUsers(journal) /\ ~ RefreshJournal(journal)
<1>1. journal # NoJournal BY DEF NoJournal
<1>2. lease.state = "PROPOSAL_COMMIT_AUTHORIZED"
  BY <1>1, Zenon DEF Known, Fenced, JournalAndLease
<1>3. lease.state \notin BodyStates BY <1>2 DEF BodyStates
<1>4. NotUsers(journal) /\ ~ RefreshJournal(journal)
  BY DEF NotUsers, RefreshJournal
<1> QED BY <1>2, <1>3, <1>4, AuthorizedLease, Zenon DEF Known, LineInv, LinesOK, LeaseStaged

LEMMA StandingStages ==
  /\ (SealedStages \cup {"READY"}) \cap AuthorizedStages = CommittingStages
  /\ CommittingStages \subseteq SealedStages
  /\ "READY" \notin SealedStages
  /\ ResultStates \cap BodyStates = {}
  /\ "PROPOSAL_BODY_COMMITTED" \in CommittingStages
  /\ "PROPOSAL_COMMIT_AUTHORIZED" \in ResultStates
  BY DEF SealedStages, AuthorizedStages, CommittingStages, ResultStates, BodyStates

LEMMA ContinueLines ==
  ASSUME Known, lease.state \in ResultStates \cup BodyStates
  PROVE BodyAt(Continue(lease.i), global, intents, lineages)
<1> DEFINE i == lease.i
<1>1. lease # NoLease /\ i \in Intent
  <2>1. lease # NoLease BY LeaseNames, Zenon
  <2> QED BY <2>1, HeldLease, Zenon DEF Known, TypeInv
<1>2. global.lease.i = i /\ global.lease = lease /\ global.journal = journal
  BY Zenon DEF lease, journal
<1> HIDE DEF i
<1>a. \A pc \in {"releaseStale", "abandon", "markStale", "activate"} :
          BodyAt(Working(pc, i), global, intents, lineages)
  BY OffLineWorking, OffLineNames, Zenon
<1>3. ASSUME Continue(i) = Idle \/ Continue(i) = Working("releaseStale", i)
      PROVE BodyAt(Continue(i), global, intents, lineages)
  <2>1. BodyAt(Idle, global, intents, lineages) BY IdleOffLine, Zenon
  <2>2. BodyAt(Working("releaseStale", i), global, intents, lineages)
    BY <1>a, Zenon
  <2>3. CASE Continue(i) = Idle BY <2>1, <2>3, Zenon
  <2>4. CASE Continue(i) = Working("releaseStale", i)
    BY <2>2, <2>4, Zenon
  <2> QED BY <1>3, <2>3, <2>4, Zenon
<1>4. ASSUME HoldsLease(i), intents[i].stage \in SealedStages \cup {"READY"},
             journal = ProposalJournal(i), Continue(i) = RecoverPrepared(i)
      PROVE BodyAt(Continue(i), global, intents, lineages)
  <2>1. journal.kind = "PROPOSAL" BY <1>4 DEF ProposalJournal
  <2>2. intents[i].stage \in CommittingStages /\ intents[i].stage \in SealedStages
    BY <1>4, <2>1, ProposalPrepared, StandingStages DEF i
  <2>3. CASE Continue(i) = Working("abandon", i) BY <2>3, <1>a, Zenon
  <2>4. CASE Continue(i) = Working("abandonRetry", i)
    <3>1. Continue(i).pc \in SealedPcs /\ Continue(i).i = i
      BY <2>4, PlaceOfWorking DEF SealedPcs
    <3> QED BY <2>2, <3>1, SealedPlace, Zenon
  <2>5. CASE /\ Line(i) # NoLineage /\ Line(i) = Built(i)
             /\ Continue(i) = [Working("putLineage", i) EXCEPT !.expect = Built(i)]
    <3>0. PICK w : w = [Working("putLineage", i) EXCEPT !.expect = Built(i)]
      BY Zenon
    <3>1. w.pc = "putLineage" /\ w.i = i /\ w.expect = Built(i)
      BY <3>0 DEF Working, Idle
    <3>2. Built(i).owner = i BY <2>5, BuiltOwner, Zenon
    <3>3. Continue(i) = w BY <2>5, <3>0, Zenon
    <3>4. BodyAt(w, global, intents, lineages)
      BY <1>2, <2>1, <2>2, <3>1, <3>2, PuttingPlace, Zenon
    <3> QED BY <3>3, <3>4, Zenon
  <2> QED BY <1>4, <2>3, <2>4, <2>5, Zenon DEF RecoverPrepared
<1>5. ASSUME HoldsLease(i), intents[i].stage \in SealedStages \cup {"READY"},
             Continue(i) = Settle(i)
      PROVE BodyAt(Continue(i), global, intents, lineages)
  <2>1. CASE Continue(i) = Working("markStale", i) \/ Continue(i) = Working("activate", i)
    BY <2>1, <1>a, Zenon
  <2>2. CASE /\ Built(i) # NoLineage /\ intents[i].stage = "PROPOSAL_BODY_COMMITTED"
             /\ lease.state = "PROPOSAL_COMMIT_AUTHORIZED"
             /\ Continue(i) = [Working("rollback", i) EXCEPT !.expect = Built(i)]
    <3>0. PICK w : w = [Working("rollback", i) EXCEPT !.expect = Built(i)]
      BY Zenon
    <3>1. w.pc = "rollback" /\ w.i = i /\ w.expect = Built(i)
      BY <3>0 DEF Working, Idle
    <3>2. Built(i).owner = i BY <2>2, BuiltOwner, Zenon
    <3>3. Continue(i) = w BY <2>2, <3>0, Zenon
    <3>4. intents[i].stage \in CommittingStages /\ global.lease.state \notin BodyStates
      BY <1>2, <2>2, StandingStages
    <3>5. w.pc \in {"failed", "rollback"} BY <3>1
    <3>6. BodyAt(w, global, intents, lineages)
      BY <1>2, <3>1, <3>2, <3>4, <3>5, UndoingPlace
    <3> QED BY <3>3, <3>6, Zenon
  <2>3. CASE lease.state \in ResultStates /\ Continue(i) = Working("revalidate", i)
    <3>1. intents[i].stage # "READY"
      BY <1>1, <2>3, StandingStages DEF Known, LineInv, LinesOK, ReadyLeased, i
    <3>2. intents[i].stage \in SealedStages BY <1>5, <3>1, Zenon
    <3>3. Continue(i).pc \in SealedPcs /\ Continue(i).i = i
      BY <2>3, PlaceOfWorking DEF SealedPcs
    <3> QED BY <3>2, <3>3, SealedPlace, Zenon
  <2> QED BY <1>5, <2>1, <2>2, <2>3, Zenon DEF Settle
<1>6. BodyAt(Continue(i), global, intents, lineages)
  <2>1. CASE Continue(i) # Idle /\ Continue(i) # Working("releaseStale", i)
    <3>1. HoldsLease(i) /\ intents[i].stage \in SealedStages \cup {"READY"}
      BY <2>1, Zenon DEF Continue, Sealed
    <3>2. \/ Continue(i) = RecoverPrepared(i) /\ journal = ProposalJournal(i)
          \/ Continue(i) = Settle(i)
      BY <2>1, Zenon DEF Continue
    <3> QED BY <1>4, <1>5, <3>1, <3>2, Zenon
  <2>2. CASE Continue(i) = Idle \/ Continue(i) = Working("releaseStale", i)
    BY <1>3, <2>2, Zenon
  <2> QED BY <2>1, <2>2, Zenon
<1> QED BY <1>6 DEF i

LEMMA ContinueCommitLines ==
  ASSUME Known, ContinueCommit
  PROVE LineInv'
  BY ContinueLines, SkipLines, Zenon DEF ContinueCommit, Known

LEMMA LeaseRecoveryLines ==
  ASSUME Known
  PROVE BodyAt(LeaseRecovery(lease.i), global, intents, lineages)
<1>1. CASE lease.state \in ResultStates \cup BodyStates
  BY <1>1, ContinueLines, Zenon DEF LeaseRecovery
<1>2. CASE lease.state \notin ResultStates \cup BodyStates
  <2> DEFINE i == lease.i
  <2>1. /\ \A f : BodyAt([Working("prepare", i) EXCEPT !.fate = f], global, intents, lineages)
        /\ \A f : BodyAt([Working("forceUnknown", i) EXCEPT !.fate = f], global, intents, lineages)
        /\ BodyAt(Idle, global, intents, lineages)
    BY IdleOffLine, OffLineWorking, OffLineNames, Zenon
  <2> HIDE DEF i
  <2>2. BodyAt(CallRecovery(i), global, intents, lineages)
    BY <2>1, Zenon DEF CallRecovery, UnknownCall
  <2> QED BY <1>2, <2>2 DEF LeaseRecovery, i
<1> QED BY <1>1, <1>2, Zenon

(* Abandoning a prepared outcome leaves a lease whose call is recovered. *)
LEMMA AbandonsLines ==
  ASSUME Known, AbandonsOutcome(lease.i), NEW g
  PROVE  /\ BodyAt(LeaseRecovery(lease.i), g, intents, lineages)
         /\ NotUsers(journal)
<1> DEFINE i == lease.i
<1>1. /\ \A f : BodyAt([Working("prepare", i) EXCEPT !.fate = f], g, intents, lineages)
      /\ \A f : BodyAt([Working("forceUnknown", i) EXCEPT !.fate = f], g, intents, lineages)
      /\ BodyAt(Idle, g, intents, lineages)
  BY IdleOffLine, OffLineWorking, OffLineNames, Zenon
<1>2. Continue(i) = Idle BY Zenon DEF AbandonsOutcome, Continue
<1>3. NotUsers(journal) BY DEF AbandonsOutcome, NotUsers
<1> HIDE DEF i
<1>4. BodyAt(CallRecovery(i), g, intents, lineages)
  BY <1>1, Zenon DEF CallRecovery, UnknownCall
<1>5. BodyAt(LeaseRecovery(i), g, intents, lineages)
  BY <1>1, <1>2, <1>4, Zenon DEF LeaseRecovery
<1> QED BY <1>3, <1>5 DEF i

LEMMA RecoverLines ==
  ASSUME Known, Recover
  PROVE LineInv'
<1> DEFINE g == [global EXCEPT !.journal = NoJournal]
           w == LeaseRecovery(lease.i)
<1>1. \/ Skip(At("strand"))
      \/ Skip([Working("finalize", lease.i) EXCEPT !.fate = "RESULT"])
      \/ Skip([Working("finalize", lease.i) EXCEPT !.fate = intents[lease.i].barrier.kind])
      \/ AbandonsOutcome(lease.i) /\ Step(PutGlobal(g), w)
      \/ Skip(w)
  BY Zenon DEF Recover
<1>2. CASE Skip(At("strand"))
  <2>1. At("strand").pc \notin LinePcs
    BY PlaceOf, OffLineNames, Zenon DEF Known
  <2> QED BY <1>2, <2>1, SkipOffLine, Zenon DEF Known
<1>3. ASSUME NEW f, Skip([Working("finalize", lease.i) EXCEPT !.fate = f])
      PROVE LineInv'
  <2>1. BodyAt([Working("finalize", lease.i) EXCEPT !.fate = f], global, intents, lineages)
    BY OffLineWorking, OffLineNames, Zenon
  <2> QED BY <1>3, <2>1, SkipLines, Zenon DEF Known
<1>4. CASE AbandonsOutcome(lease.i) /\ Step(PutGlobal(g), w)
  <2>1. BodyAt(w, g, intents, lineages) /\ NotUsers(journal)
    BY <1>4, AbandonsLines, Zenon
  <2>2. GlobalSafe(g) BY <2>1, NoRefresh, JournalIsSafe, Zenon DEF Known
  <2> HIDE DEF g, w
  <2> QED BY <1>4, <2>1, <2>2, GlobalStepLines, Zenon DEF Known
<1>5. CASE Skip(w)
  BY <1>5, LeaseRecoveryLines, SkipLines, Zenon DEF Known
<1> QED BY <1>1, <1>2, <1>3, <1>4, <1>5, Zenon

----
(* From a sealed result to an active proposal: the lineage and the stages. *)

(* The worker's own row, once its result is sealed. *)
LEMMA SealedMove ==
  ASSUME Known, NEW row, mine.stage \in SealedStages \cup {"READY"}, RowSafe(me, row),
         PutIntent(me, row) \/ Nothing, NEW w, Go(w) \/ Thrown,
         Go(w) => BodyAt(w, global', intents', lineages')
  PROVE LineInv'
<1>1. me \in Intent /\ intents[me].stage \notin {"RECALLING", "PRECALL"}
  BY MeOK DEF Known, mine, SealedStages
<1>2. LinesOK' BY <1>1, RowLines, Zenon DEF Known, LineInv
<1>3. ~ (desk.step = "refreshFinal" /\ desk.i = me)
  BY <1>1, Zenon DEF Known, LineInv, DeskAt
<1>4. DeskAt(desk, journal', intents')
  BY <1>1, <1>3, DeskRow, Zenon DEF Known, LineInv
<1> QED BY <1>2, <1>4, WorkerFollows, Zenon

LEMMA OwnRow ==
  ASSUME Known, NEW row, PutIntent(me, row)
  PROVE intents'[me] = row /\ global' = global /\ lineages' = lineages
<1>1. DurableOK /\ me \in Intent BY MeOK, Zenon DEF Known, TypeInv
<1> QED BY <1>1, RowPut, Zenon

(* A row that is not finished, and that a put proposal's lease allows. *)
LEMMA AuthorizedRow ==
  ASSUME NEW row, row.stage \in AuthorizedStages
  PROVE RowSafe(me, row)
  BY LineStageNames, Zenon DEF RowSafe

LEMMA WorkerPlace ==
  ASSUME Known
  PROVE worker.i = me /\ \A pc : At(pc).pc = pc /\ At(pc).i = me /\ At(pc).expect = worker.expect
  BY PlaceOf, Zenon DEF Known, me

LEMMA MarkStaleLines ==
  ASSUME Known, MarkStale
  PROVE LineInv'
<1> DEFINE row == [mine EXCEPT !.stage = "ATTENTION", !.reason = "STALE_RESULT"]
           w == At("releaseStale")
<1>1. w.pc \notin LinePcs BY PlaceOf, OffLineNames, Zenon DEF Known
<1>2. CASE mine.stage \in SealedStages
  <2>1. \A s, n : [mine EXCEPT !.stage = s, !.reason = n].stage = s
    BY MeOK, RowStages, Zenon DEF Known
  <2>2. row.stage = "ATTENTION" BY <2>1
  <2>3. Step(PutIntent(me, row), w) BY <1>2, Zenon DEF MarkStale
  <2> HIDE DEF row, w
  <2>4. RowSafe(me, row) BY <2>2, AuthorizedRow DEF AuthorizedStages
  <2>5. (PutIntent(me, row) \/ Nothing) /\ (Go(w) \/ Thrown)
    BY <2>3, Zenon DEF Step, Fault
  <2>6. BodyAt(w, global', intents', lineages') BY <1>1, OffLine, Zenon
  <2> QED BY <1>2, <2>4, <2>5, <2>6, SealedMove, Zenon
<1>3. CASE mine.stage \notin SealedStages
  <2>1. Nothing /\ (Go(w) \/ Thrown)
    BY <1>3, Zenon DEF MarkStale, Step, Fault
  <2> QED BY <1>1, <2>1, QuietLines, Zenon DEF Known
<1> QED BY <1>2, <1>3, Zenon

LEMMA RevalidateLines ==
  ASSUME Known, Revalidate
  PROVE LineInv'
<1>1. mine.stage \in SealedStages
  BY PlaceFacts DEF Revalidate, SealedPcs
<1>2. At("markStale").pc \notin LinePcs
  BY PlaceOf, OffLineNames, Zenon DEF Known
<1>3. BodyAt(At("authorizeIntent"), global, intents, lineages)
  <2>1. At("authorizeIntent").pc \in SealedPcs /\ At("authorizeIntent").i = me
    BY WorkerPlace DEF SealedPcs
  <2> QED BY <1>1, <2>1, SealedPlace, Zenon DEF mine
<1> QED BY <1>2, <1>3, SkipOffLine, SkipLines, Zenon DEF Revalidate, Known

LEMMA AuthorizeIntentLines ==
  ASSUME Known, AuthorizeIntent
  PROVE LineInv'
<1> DEFINE row == [mine EXCEPT !.stage = "PROPOSAL_COMMIT_AUTHORIZED"]
           w == At("authorizeLease")
<1>1. mine.stage \in SealedStages
  BY PlaceFacts DEF AuthorizeIntent, SealedPcs
<1>2. w.pc = "authorizeLease" /\ w.i = me BY WorkerPlace, Zenon
<1>3. row.stage = "PROPOSAL_COMMIT_AUTHORIZED"
  <2>1. \A s : [mine EXCEPT !.stage = s].stage = s
    BY MeOK, RowStages, Zenon DEF Known
  <2> QED BY <2>1
<1>4. CASE mine.stage = "RESULT_COMMITTED"
  <2>1. Step(PutIntent(me, row), w) BY <1>4, Zenon DEF AuthorizeIntent
  <2> HIDE DEF row, w
  <2>2. RowSafe(me, row) /\ row.stage \in CommittingStages
    BY <1>3, AuthorizedRow DEF AuthorizedStages, CommittingStages
  <2>3. (PutIntent(me, row) \/ Nothing) /\ (Go(w) \/ Thrown) /\ (PutIntent(me, row) \/ Thrown)
    BY <2>1, Zenon DEF Step, Fault
  <2>4. ASSUME PutIntent(me, row)
        PROVE BodyAt(w, global', intents', lineages')
    <3>1. intents'[w.i].stage \in CommittingStages
      BY <1>2, <2>2, <2>4, OwnRow, Zenon
    <3> QED BY <1>2, <3>1, CommittingPlace
  <2>5. CASE PutIntent(me, row)
    BY <1>1, <2>2, <2>3, <2>4, <2>5, SealedMove, Zenon
  <2>6. CASE Nothing /\ Thrown
    <3>1. Idle.pc \notin LinePcs
      BY DEF Idle, LinePcs, BodyPcs, PutPcs, SealedPcs
    <3> QED BY <2>6, <3>1, QuietLines, Zenon DEF Known
  <2> QED BY <2>3, <2>5, <2>6, Zenon
<1>5. CASE mine.stage # "RESULT_COMMITTED"
  <2>1. Nothing /\ (Go(w) \/ Thrown)
    BY <1>5, Zenon DEF AuthorizeIntent, Step, Fault
  <2>2. mine.stage \in CommittingStages
    BY <1>1, <1>5 DEF SealedStages, CommittingStages
  <2> HIDE DEF w
  <2>3. intents'[w.i].stage \in CommittingStages
    BY <1>2, <2>1, <2>2, NothingPut, Zenon DEF mine
  <2>4. BodyAt(w, global', intents', lineages')
    BY <1>2, <2>3, CommittingPlace
  <2>5. LinesOK' /\ DeskAt(desk, journal', intents')
    <3>1. intents' = intents /\ global' = global /\ lineages' = lineages /\ journal' = journal
      BY <2>1, NothingPut, Zenon DEF journal
    <3> QED BY <3>1, NothingLines, Zenon DEF Known, LineInv
  <2> QED BY <2>1, <2>4, <2>5, WorkerFollows, Zenon
<1> QED BY <1>4, <1>5, Zenon

LEMMA AuthorizeLeaseLines ==
  ASSUME Known, AuthorizeLease
  PROVE LineInv'
<1>1. CASE Skip(Idle) BY <1>1, SkipIdle, Zenon DEF Known
<1>2. CASE HoldsLease(me) /\ lease.state \in ResultStates
  <2> DEFINE l == [lease EXCEPT !.state = "PROPOSAL_COMMIT_AUTHORIZED"]
             g == [global EXCEPT !.lease = l]
             w == At("prepareProposal")
  <2>1. CASE Step(PutGlobal([global EXCEPT !.lease.state = "PROPOSAL_COMMIT_AUTHORIZED"]), w)
    <3>1. Step(PutGlobal(g), w) BY <2>1 DEF lease
    <3>2. lease # NoLease /\ lease.i = me /\ "PROPOSAL_COMMIT_AUTHORIZED" \in LeaseStates
      BY <1>2, LeaseNames, Zenon DEF HoldsLease
    <3>3. mine.stage \in CommittingStages
      BY PlaceFacts DEF AuthorizeLease
    <3>4. intents[lease.i].stage \in AuthorizedStages /\ intents[lease.i].stage # "READY"
          /\ "PROPOSAL_COMMIT_AUTHORIZED" \notin BodyStates
      BY <3>2, <3>3 DEF mine, AuthorizedStages, CommittingStages, BodyStates
    <3>5. LeaseSafe(l) /\ IndexSafe(l, global.index)
      BY <3>2, <3>4, LeaseIsSafe DEF Known
    <3>6. g.journal = journal /\ g.lease = l /\ g.index = global.index
      <4> HIDE DEF l
      <4> QED BY Shapes, Zenon DEF Known, TypeInv
    <3>7. w.pc = "prepareProposal" /\ w.i = me BY WorkerPlace, Zenon
    <3> HIDE DEF g, w, l
    <3>8. GlobalSafe(g)
      BY <3>5, <3>6, SafeJournals, Zenon DEF GlobalSafe, Known, LineInv
    <3>9. BodyAt(w, g, intents, lineages)
      BY <3>3, <3>7, CommittingPlace DEF mine
    <3> QED BY <3>1, <3>8, <3>9, GlobalStepLines, Zenon DEF Known
  <2> QED BY <1>1, <2>1, Zenon DEF AuthorizeLease
<1> QED BY <1>1, <1>2, Zenon DEF AuthorizeLease

LEMMA PrepareProposalLines ==
  ASSUME Known, PrepareProposal
  PROVE LineInv'
<1> DEFINE j == ProposalJournal(me)
           g == [global EXCEPT !.journal = j]
<1>1. CASE Skip(Idle) BY <1>1, SkipIdle, Zenon DEF Known
<1>2. CASE Skip(At("markStale"))
  <2>1. At("markStale").pc \notin LinePcs
    BY PlaceOf, OffLineNames, Zenon DEF Known
  <2> QED BY <1>2, <2>1, SkipOffLine, Zenon DEF Known
<1>3. CASE /\ Built(me) # NoLineage /\ journal = NoJournal /\ lease.i = me
           /\ Step(PutGlobal(g), [At("putLineage") EXCEPT !.expect = Built(me)])
  <2>1. PICK w : w = [At("putLineage") EXCEPT !.expect = Built(me)]
    BY Zenon
  <2>2. w.pc = "putLineage" /\ w.i = me /\ w.expect = Built(me)
    <3>1. worker \in WorkerSet BY MeOK, Zenon DEF WorkerOK, Known
    <3> QED BY <2>1, <3>1 DEF At, WorkerSet, me
  <2>3. j.kind = "PROPOSAL" /\ ~ RefreshJournal(j)
    BY NoUsers DEF ProposalJournal
  <2>4. Step(PutGlobal(g), w) BY <1>3, <2>1, Zenon
  <2> HIDE DEF j
  <2>5. GlobalSafe(g)
    BY <1>3, <2>3, NoUsers, JournalIsSafe, Zenon DEF Known
  <2>6. g.journal = j /\ g.lease = lease
    BY Shapes, Zenon DEF Known, TypeInv
  <2> HIDE DEF g
  <2>7. mine.stage \in CommittingStages
    BY PlaceFacts DEF PrepareProposal
  <2>8. w.expect.owner = w.i BY <1>3, <2>2, BuiltOwner, Zenon
  <2>9. BodyAt(w, g, intents, lineages)
    BY <1>3, <2>2, <2>3, <2>6, <2>7, <2>8, PuttingPlace, Zenon DEF mine
  <2> QED BY <2>4, <2>5, <2>9, GlobalStepLines, Zenon DEF Known
<1> QED BY <1>1, <1>2, <1>3, Zenon DEF PrepareProposal, CatalogIsSealed, CatalogComplete, HoldsLease

(* The lineage of an intent whose proposal is being put is nobody else's. *)
LEMMA OwnLineSafe ==
  ASSUME Known, mine.stage \in CommittingStages, lease.i = me, lease.state \notin BodyStates,
         NEW line, line = NoLineage \/ line.owner = me
  PROVE LineSafe(BehaviourOf[me], line)
<1>1. me \in Intent /\ IndexOf(me).owner = me
  BY MeOK, SealedIndexed, LineStageNames, Zenon DEF Known, mine
<1>2. ~ RefreshJournal(journal)
  <2>1. lease # NoLease
    BY <1>1, NoLeaseFields, SizesAssumption DEF Intent
  <2> SUFFICES ASSUME journal.kind = "USER_ACTION" PROVE journal.owner[2] = 0
    BY Zenon DEF RefreshJournal
  <2>2. journal # NoJournal BY DEF NoJournal
  <2>3. journal.owner = <<lease.i, 0>>
    BY <2>1, <2>2, Zenon DEF Known, Fenced, JournalAndLease
  <2> QED BY <2>3
<1>3. \A i \in Intent : (intents[i].stage = "READY" /\ BehaviourOf[i] = BehaviourOf[me]) => FALSE
  <2> SUFFICES ASSUME NEW i \in Intent, intents[i].stage = "READY",
                      BehaviourOf[i] = BehaviourOf[me]
               PROVE FALSE
    BY Zenon
  <2>1. i = me BY <1>1, ReadyHolds, Zenon DEF Known
  <2> QED BY <2>1 DEF mine, CommittingStages
<1>4. line # NoLineage => BehaviourOf[line.owner] = BehaviourOf[me]
  BY Zenon
<1> QED BY <1>2, <1>3, <1>4, Zenon DEF LineSafe

(* A lineage is put or not, wherever the worker goes. *)
LEMMA LineageMove ==
  ASSUME Known, NEW line, LineSafe(BehaviourOf[me], line),
         PutLineage(BehaviourOf[me], line) \/ Nothing, NEW w, Go(w) \/ Thrown,
         Go(w) => BodyAt(w, global', intents', lineages')
  PROVE LineInv'
<1>1. LinesOK' BY MeOK, LineageLines, Zenon DEF Known, LineInv
<1>2. intents' = intents /\ global' = global
  BY NothingPut, Zenon DEF PutLineage
<1>3. DeskAt(desk, journal', intents')
  BY <1>2, Zenon DEF Known, LineInv, journal
<1> QED BY <1>1, <1>3, WorkerFollows, Zenon

LEMMA OwnLine ==
  ASSUME Known, NEW line, PutLineage(BehaviourOf[me], line)
  PROVE lineages'[BehaviourOf[me]] = line
<1>1. DurableOK /\ BehaviourOf[me] \in Behaviour
  BY MeOK, Zenon DEF Known, TypeInv
<1> QED BY <1>1, LinePut, Zenon

LEMMA PutProposalLines ==
  ASSUME Known, PutProposal
  PROVE LineInv'
<1>1. /\ mine.stage \in CommittingStages /\ lease.i = me /\ worker.expect.owner = me
      /\ journal.kind = "PROPOSAL"
  BY PlaceFacts DEF PutProposal, BodyPcs, PutPcs
<1>2. lease.state \notin BodyStates BY <1>1, ProposalPrepared, Zenon
<1>3. /\ At("failed").pc = "failed" /\ At("failed").i = me /\ At("failed").expect = worker.expect
      /\ At("markBody").pc = "markBody" /\ At("markBody").i = me
      /\ At("markBody").expect = worker.expect
  BY WorkerPlace, Zenon
<1>4. global.lease = lease /\ global.journal = journal /\ mine = intents[me]
  BY Zenon DEF lease, journal, mine
<1>5. ASSUME intents' = intents, global' = global
      PROVE BodyAt(At("failed"), global', intents', lineages')
  <2>1. At("failed").pc \in {"failed", "rollback"} BY <1>3
  <2>2. /\ intents'[At("failed").i].stage \in CommittingStages
        /\ global'.lease.i = At("failed").i /\ At("failed").expect.owner = At("failed").i
        /\ global'.lease.state \notin BodyStates
    BY <1>1, <1>2, <1>3, <1>4, <1>5
  <2> QED BY <2>1, <2>2, UndoingPlace
<1>6. ASSUME intents' = intents, global' = global, lineages'[BehaviourOf[me]] = worker.expect
      PROVE BodyAt(At("markBody"), global', intents', lineages')
  <2>1. At("markBody").pc \in {"markBody", "finalizeBody"} /\ At("markBody").pc # "finalizeBody"
    BY <1>3
  <2>2. Written(worker.expect, worker.expect) BY Zenon DEF Written
  <2>3. /\ intents'[At("markBody").i].stage \in CommittingStages
        /\ global'.lease.i = At("markBody").i /\ At("markBody").expect.owner = At("markBody").i
        /\ global'.journal.kind = "PROPOSAL"
    BY <1>1, <1>3, <1>4, <1>6
  <2>4. Written(lineages'[BehaviourOf[At("markBody").i]], At("markBody").expect)
    BY <1>3, <1>6, <2>2
  <2> QED BY <2>1, <2>3, <2>4, MarkingPlace
<1>7. CASE Skip(At("failed"))
  <2>1. intents' = intents /\ global' = global /\ lineages' = lineages
    BY <1>7, NothingPut, Zenon DEF Skip
  <2>2. BodyAt(At("failed"), global, intents, lineages)
    BY <1>5, <2>1, Zenon
  <2> QED BY <1>7, <2>2, SkipLines, Zenon DEF Known
<1>8. CASE Skip(At("markBody")) /\ Line(me) = worker.expect
  <2>1. intents' = intents /\ global' = global /\ lineages' = lineages
    BY <1>8, NothingPut, Zenon DEF Skip
  <2>2. BodyAt(At("markBody"), global, intents, lineages)
    BY <1>6, <1>8, <2>1, Zenon DEF Line
  <2> QED BY <1>8, <2>2, SkipLines, Zenon DEF Known
<1>9. CASE Try(PutLineage(BehaviourOf[me], worker.expect), At("markBody"))
  <2>1. LineSafe(BehaviourOf[me], worker.expect)
    BY <1>1, <1>2, OwnLineSafe, Zenon
  <2>2. \/ PutLineage(BehaviourOf[me], worker.expect) /\ Go(At("markBody"))
        \/ (PutLineage(BehaviourOf[me], worker.expect) \/ Nothing) /\ Go(At("failed"))
    BY <1>9, Zenon DEF Try, Fault
  <2>3. intents' = intents /\ global' = global
    BY <2>2, NothingPut, Zenon DEF PutLineage
  <2>4. CASE PutLineage(BehaviourOf[me], worker.expect) /\ Go(At("markBody"))
    <3>1. lineages'[BehaviourOf[me]] = worker.expect
      BY <2>4, OwnLine, Zenon
    <3> QED BY <1>6, <2>1, <2>3, <2>4, <3>1, LineageMove, Zenon
  <2>5. CASE (PutLineage(BehaviourOf[me], worker.expect) \/ Nothing) /\ Go(At("failed"))
    BY <1>5, <2>1, <2>3, <2>5, LineageMove, Zenon
  <2> QED BY <2>2, <2>4, <2>5, Zenon
<1> QED BY <1>7, <1>8, <1>9, Zenon DEF PutProposal

(* Where a write of the commit fails, its proposal is still only prepared. *)
LEMMA FailedPlace ==
  ASSUME Known, mine.stage \in CommittingStages, lease.i = me, worker.expect.owner = me,
         lease.state \notin BodyStates, global' = global,
         intents'[me].stage \in CommittingStages
  PROVE BodyAt(At("failed"), global', intents', lineages')
<1>1. At("failed").pc \in {"failed", "rollback"} BY WorkerPlace
<1>2. At("failed").i = me /\ At("failed").expect = worker.expect
  BY WorkerPlace, Zenon
<1>3. /\ intents'[At("failed").i].stage \in CommittingStages
      /\ global'.lease.i = At("failed").i /\ At("failed").expect.owner = At("failed").i
      /\ global'.lease.state \notin BodyStates
  BY <1>2 DEF lease
<1> QED BY <1>1, <1>3, UndoingPlace

LEMMA MarkBodyLines ==
  ASSUME Known, MarkBody
  PROVE LineInv'
<1> DEFINE row == [mine EXCEPT !.stage = "PROPOSAL_BODY_COMMITTED"]
           w == At("finalizeBody")
<1>1. /\ mine.stage \in CommittingStages /\ lease.i = me /\ worker.expect.owner = me
      /\ journal.kind = "PROPOSAL" /\ Written(Line(me), worker.expect)
  BY PlaceFacts DEF MarkBody, BodyPcs, PutPcs
<1>2. lease.state \notin BodyStates BY <1>1, ProposalPrepared, Zenon
<1>3. w.pc = "finalizeBody" /\ w.i = me /\ w.expect = worker.expect
  BY WorkerPlace, Zenon
<1>4. row.stage = "PROPOSAL_BODY_COMMITTED"
  <2>1. \A s : [mine EXCEPT !.stage = s].stage = s
    BY MeOK, RowStages, Zenon DEF Known
  <2> QED BY <2>1
<1>5. ASSUME intents'[me].stage = "PROPOSAL_BODY_COMMITTED", global' = global,
             lineages' = lineages
      PROVE BodyAt(w, global', intents', lineages')
  <2>1. w.pc \in {"markBody", "finalizeBody"} BY <1>3
  <2>2. /\ intents'[w.i].stage = "PROPOSAL_BODY_COMMITTED"
        /\ intents'[w.i].stage \in CommittingStages
        /\ global'.lease.i = w.i /\ w.expect.owner = w.i /\ global'.journal.kind = "PROPOSAL"
    BY <1>1, <1>3, <1>5, StandingStages DEF lease, journal
  <2>3. Written(lineages'[BehaviourOf[w.i]], w.expect)
    BY <1>1, <1>3, <1>5 DEF Line
  <2> HIDE DEF w
  <2> QED BY <2>1, <2>2, <2>3, MarkingPlace
<1> HIDE DEF row, w
<1>6. RowSafe(me, row)
  BY <1>4, AuthorizedRow DEF AuthorizedStages, CommittingStages
<1>7. mine.stage \in SealedStages \cup {"READY"}
  BY <1>1, StandingStages, Zenon
<1>8. CASE mine.stage = "PROPOSAL_COMMIT_AUTHORIZED" /\ Try(PutIntent(me, row), w)
  <2>1. \/ PutIntent(me, row) /\ Go(w)
        \/ (PutIntent(me, row) \/ Nothing) /\ Go(At("failed"))
    BY <1>8, Zenon DEF Try, Fault
  <2>2. CASE PutIntent(me, row) /\ Go(w)
    <3>1. BodyAt(w, global', intents', lineages')
      BY <1>4, <1>5, <2>2, OwnRow, Zenon
    <3> QED BY <1>6, <1>7, <2>2, <3>1, SealedMove, Zenon
  <2>3. CASE (PutIntent(me, row) \/ Nothing) /\ Go(At("failed"))
    <3>1. global' = global /\ intents'[me].stage \in CommittingStages
      <4>1. CASE Nothing BY <1>1, <4>1, NothingPut, Zenon DEF mine
      <4>2. CASE PutIntent(me, row)
        BY <1>4, <4>2, OwnRow, StandingStages
      <4> QED BY <2>3, <4>1, <4>2, Zenon
    <3>2. BodyAt(At("failed"), global', intents', lineages')
      BY <1>1, <1>2, <3>1, FailedPlace, Zenon
    <3> QED BY <1>6, <1>7, <2>3, <3>2, SealedMove, Zenon
  <2> QED BY <2>1, <2>2, <2>3, Zenon
<1>9. CASE mine.stage # "PROPOSAL_COMMIT_AUTHORIZED" /\ Try(Nothing, w)
  <2>1. Nothing /\ (Go(w) \/ Go(At("failed")))
    BY <1>9, Zenon DEF Try, Fault
  <2>2. mine.stage = "PROPOSAL_BODY_COMMITTED"
    BY <1>1, <1>9 DEF CommittingStages
  <2>3. /\ global' = global /\ lineages' = lineages /\ intents' = intents
        /\ intents'[me].stage = "PROPOSAL_BODY_COMMITTED"
        /\ intents'[me].stage \in CommittingStages
    BY <1>1, <2>1, <2>2, NothingPut, Zenon DEF mine
  <2>4. BodyAt(w, global', intents', lineages') BY <1>5, <2>3, Zenon
  <2>5. BodyAt(At("failed"), global', intents', lineages')
    BY <1>1, <1>2, <2>3, FailedPlace, Zenon
  <2>6. LinesOK' /\ DeskAt(desk, journal', intents')
    BY <2>3, NothingLines, Zenon DEF Known, LineInv, journal
  <2> QED BY <2>1, <2>4, <2>5, <2>6, WorkerFollows, Zenon
<1> QED BY <1>8, <1>9, Zenon DEF MarkBody, row, w

LEMMA FinalizeBodyLines ==
  ASSUME Known, FinalizeBody
  PROVE LineInv'
<1>1. /\ mine.stage = "PROPOSAL_BODY_COMMITTED" /\ lease.i = me /\ worker.expect.owner = me
      /\ journal.kind = "PROPOSAL" /\ Written(Line(me), worker.expect)
      /\ mine.stage \in CommittingStages
  BY PlaceFacts DEF FinalizeBody, BodyPcs, PutPcs
<1>2. lease.state \notin BodyStates /\ lease # NoLease
  BY <1>1, ProposalPrepared, Zenon
<1>3. CASE Skip(At("failed"))
  <2>1. intents' = intents /\ global' = global /\ lineages' = lineages
    BY <1>3, NothingPut, Zenon DEF Skip
  <2>2. BodyAt(At("failed"), global', intents', lineages')
    BY <1>1, <1>2, <2>1, FailedPlace, Zenon DEF mine
  <2> QED BY <1>3, <2>1, <2>2, SkipLines, Zenon DEF Known
<1>4. CASE ~ Skip(At("failed"))
  <2> DEFINE l == [lease EXCEPT !.state = "BODY_COMMITTED_INDEX_PENDING"]
             g == [Advanced EXCEPT !.lease = l]
  <2>1. /\ HoldsLease(me) /\ epoch = mine.epoch + 1
        /\ Try(PutGlobal([Advanced EXCEPT !.lease.state = "BODY_COMMITTED_INDEX_PENDING"]),
               At("activate"))
    BY <1>4, Zenon DEF FinalizeBody
  <2>2. g = [Advanced EXCEPT !.lease.state = "BODY_COMMITTED_INDEX_PENDING"]
    <3>1. Advanced.lease = lease
      BY AdvancedFields, Zenon DEF Known, TypeInv
    <3> QED BY <3>1
  <2>3. \/ PutGlobal(g) /\ Go(At("activate"))
        \/ (PutGlobal(g) \/ Nothing) /\ Go(At("failed"))
    BY <2>1, <2>2, Zenon DEF Try, Fault
  <2>4. /\ "BODY_COMMITTED_INDEX_PENDING" \in LeaseStates
        /\ "BODY_COMMITTED_INDEX_PENDING" \in BodyStates
        /\ "BODY_COMMITTED_INDEX_PENDING" # "PROPOSAL_COMMIT_AUTHORIZED"
    BY LeaseNames
  <2>5. Line(lease.i).owner = lease.i BY <1>1, Zenon DEF Written
  <2>6. /\ LeaseSafe(l) /\ IndexSafe(l, global.index)
        /\ l.i = lease.i /\ l.round = lease.round /\ l.state = "BODY_COMMITTED_INDEX_PENDING"
    BY <1>2, <2>4, <2>5, LeaseIsSafe DEF Known
  <2>7. g.journal = NoJournal /\ g.lease = l /\ g.index = global.index /\ g.epoch = epoch + 1
    <3> HIDE DEF l
    <3> QED BY ShapesAdvanced, Zenon DEF Known, TypeInv
  <2> HIDE DEF g, l
  <2>8. GlobalSafe(g)
    <3>1. NotUsers(journal) /\ ~ RefreshJournal(journal)
      BY <1>1, ProposalPrepared, Zenon
    <3>2. JournalSafe(NoJournal)
      BY <3>1, NoRefresh, SafeJournals, Zenon DEF Known, LineInv
    <3> QED BY <2>6, <2>7, <3>1, <3>2, Zenon DEF GlobalSafe
  <2>9. CASE PutGlobal(g) /\ Go(At("activate"))
    <3>1. At("activate").pc \notin LinePcs
      BY PlaceOf, OffLineNames, Zenon DEF Known
    <3> QED BY <2>8, <2>9, <3>1, OffLine, GlobalMove, Zenon DEF Known
  <2>10. CASE PutGlobal(g) /\ Go(At("failed"))
    <3> DEFINE w == At("failed")
    <3>1. w.pc = "failed" /\ w.i = me /\ w.expect = worker.expect
      BY WorkerPlace, Zenon
    <3>2. mine.epoch + 2 = (mine.epoch + 1) + 1
      <4>1. mine.stage \notin {"WAITING", "RECALLING"} BY <1>1
      <4>2. mine.epoch \in Nat \cup {Unplanned}
        BY MeOK DEF Known, IntentRow
      <4> QED BY <4>2 DEF Unplanned
    <3>3. Finalized(w, g, mine)
      BY <1>1, <2>1, <2>6, <2>7, <3>2 DEF Finalized, HoldsLease, mine
    <3>4. BodyOf(w, g, mine, Line(me))
      <4>1. g.lease.i = w.i /\ w.expect.owner = w.i
        BY <1>1, <2>6, <2>7, <3>1, Zenon
      <4> HIDE DEF w
      <4> QED BY <1>1, <3>1, <3>3, <4>1 DEF BodyOf, SealedPcs, BodyPcs, PutPcs
    <3>5. BodyAt(w, g, intents, lineages)
      BY <3>1, <3>4 DEF BodyAt, mine, Line
    <3> HIDE DEF w
    <3>6. Go(w) BY <2>10 DEF w
    <3> QED BY <2>8, <2>10, <3>5, <3>6, GlobalMove, Zenon DEF Known
  <2>11. CASE Nothing /\ Go(At("failed"))
    <3>1. intents' = intents /\ global' = global /\ lineages' = lineages
      BY <2>11, NothingPut, Zenon
    <3>2. BodyAt(At("failed"), global', intents', lineages')
      BY <1>1, <1>2, <3>1, FailedPlace, Zenon DEF mine
    <3>3. LinesOK' /\ DeskAt(desk, journal', intents')
      BY <3>1, NothingLines, Zenon DEF Known, LineInv, journal
    <3> QED BY <2>11, <3>2, <3>3, WorkerFollows, Zenon
  <2> QED BY <2>3, <2>9, <2>10, <2>11, Zenon
<1> QED BY <1>3, <1>4, Zenon

LEMMA CheckDurableLines ==
  ASSUME Known, CheckDurable
  PROVE LineInv'
<1>1. /\ mine.stage \in CommittingStages /\ lease.i = me /\ worker.expect.owner = me
      /\ lease.state \in BodyStates =>
            Finalized(worker, global, mine) /\ Written(Line(me), worker.expect)
  BY PlaceFacts DEF CheckDurable, BodyPcs, PutPcs
<1>2. CASE BodyIsDurable
  <2>1. At("activate").pc \notin LinePcs
    BY PlaceOf, OffLineNames, Zenon DEF Known
  <2>2. Skip(At("activate")) BY <1>2, Zenon DEF CheckDurable
  <2> QED BY <2>1, <2>2, SkipOffLine, Zenon DEF Known
<1>3. CASE ~ BodyIsDurable
  <2> DEFINE w == At("rollback")
  <2>1. Skip(w) BY <1>3, Zenon DEF CheckDurable
  <2>2. w.pc = "rollback" /\ w.i = me /\ w.expect = worker.expect
    BY WorkerPlace, Zenon
  <2>3. lease.state \in BodyStates => Line(me).revision > worker.expect.revision
    <3> SUFFICES ASSUME lease.state \in BodyStates
                 PROVE Line(me).revision > worker.expect.revision OBVIOUS
    <3>1. Finalized(worker, global, mine) /\ Written(Line(me), worker.expect)
      BY <1>1
    <3>2. /\ mine.stage = "PROPOSAL_BODY_COMMITTED" /\ journal = NoJournal
          /\ epoch = mine.epoch + 2 /\ HoldsLease(me)
          /\ lease.state = "BODY_COMMITTED_INDEX_PENDING"
      BY <1>1, <3>1 DEF Finalized, journal, epoch, lease, HoldsLease, mine
    <3>3. Line(me) # worker.expect
      BY <1>3, <3>2, Zenon DEF BodyIsDurable
    <3> QED BY <3>1, <3>3, Zenon DEF Written
  <2>4. BodyOf(w, global, mine, Line(me))
    <3>1. global.lease.i = w.i /\ w.expect.owner = w.i /\ global.lease = lease
      BY <1>1, <2>2, Zenon DEF lease
    <3> HIDE DEF w
    <3> QED BY <1>1, <2>2, <2>3, <3>1 DEF BodyOf, SealedPcs, BodyPcs, PutPcs
  <2>5. BodyAt(w, global, intents, lineages)
    BY <2>2, <2>4 DEF BodyAt, mine, Line
  <2> QED BY <2>1, <2>5, SkipLines, Zenon DEF Known
<1> QED BY <1>2, <1>3, Zenon

LEMMA PredecessorOwner ==
  ASSUME NEW line, LineOK(line), line # NoLineage, Predecessor(line) # NoLineage
  PROVE Predecessor(line).owner = line.owner
<1>1. line \in [state : LineStates, revision : Nat, owner : Intent, proposals : Seq(Proposal)]
  BY LineInSet, Zenon DEF LineSet
<1>2. \A s, r, q : [line EXCEPT !.state = s, !.revision = r, !.proposals = q].owner = line.owner
  BY <1>1
<1>3. Predecessor(line) = [line EXCEPT !.state = "REFRESHING", !.revision = line.revision - 1,
                              !.proposals = SubSeq(line.proposals, 1, Len(line.proposals) - 1)]
  BY DEF Predecessor
<1> QED BY <1>2, <1>3

LEMMA RollBackLines ==
  ASSUME Known, RollBack
  PROVE LineInv'
<1>1. /\ mine.stage \in CommittingStages /\ lease.i = me /\ worker.expect.owner = me
      /\ lease.state \in BodyStates => Line(me).revision > worker.expect.revision
  BY PlaceFacts DEF RollBack, BodyPcs, PutPcs
<1> DEFINE line == Predecessor(worker.expect)
           w == At("abandon")
<1>2. w.pc \notin LinePcs BY PlaceOf, OffLineNames, Zenon DEF Known
<1>3. CASE Line(me) = worker.expect
  <2>1. (PutLineage(BehaviourOf[me], line) \/ Nothing) /\ (Go(w) \/ Thrown)
    BY <1>3, Zenon DEF RollBack, Step, Fault
  <2>2. lease.state \notin BodyStates
    <3>1. Line(me).revision \in Nat BY MeOK, LineFields, Zenon DEF Known
    <3> QED BY <1>1, <1>3, <3>1
  <2>3. line = NoLineage \/ line.owner = me
    <3>1. LineOK(worker.expect) BY MeOK, Zenon DEF Known
    <3>2. worker.expect # NoLineage
      <4>1. NoLineage.owner = 0 /\ me # 0
        BY MeOK, SizesAssumption DEF NoLineage, Known, Intent
      <4> QED BY <1>1, <4>1
    <3> QED BY <1>1, <3>1, <3>2, PredecessorOwner, Zenon
  <2> HIDE DEF line, w
  <2>4. LineSafe(BehaviourOf[me], line)
    BY <1>1, <2>2, <2>3, OwnLineSafe, Zenon
  <2>5. BodyAt(w, global', intents', lineages') BY <1>2, OffLine, Zenon
  <2> QED BY <2>1, <2>4, <2>5, LineageMove, Zenon
<1>4. CASE Line(me) # worker.expect
  <2>1. Nothing /\ (Go(w) \/ Thrown)
    BY <1>4, Zenon DEF RollBack, Step, Fault
  <2> QED BY <1>2, <2>1, QuietLines, Zenon DEF Known
<1> QED BY <1>3, <1>4, Zenon

LEMMA AbandonLines ==
  ASSUME Known, Abandon
  PROVE LineInv'
<1> DEFINE w == At(IF worker.pc = "abandon" THEN "markStale" ELSE "revalidate")
           g == [global EXCEPT !.journal = NoJournal]
<1>1. \A h : BodyAt(w, h, intents, lineages)
  <2>1. CASE worker.pc = "abandon"
    <3>1. At("markStale").pc \notin LinePcs
      BY PlaceOf, OffLineNames, Zenon DEF Known
    <3> QED BY <2>1, <3>1, OffLine
  <2>2. CASE worker.pc = "abandonRetry"
    <3>1. mine.stage \in SealedStages BY <2>2, PlaceFacts DEF SealedPcs
    <3>2. At("revalidate").pc \in SealedPcs /\ At("revalidate").i = me
      BY WorkerPlace DEF SealedPcs
    <3>3. \A h : BodyAt(At("revalidate"), h, intents, lineages)
      BY <3>1, <3>2, SealedPlace, Zenon DEF mine
    <3>4. w = At("revalidate") BY <2>2
    <3> HIDE DEF w
    <3> QED BY <3>3, <3>4
  <2> QED BY <2>1, <2>2 DEF Abandon
<1> HIDE DEF w
<1>2. CASE journal = ProposalJournal(me) /\ Step(PutGlobal(g), w)
  <2>1. journal.kind = "PROPOSAL" BY <1>2 DEF ProposalJournal
  <2>2. GlobalSafe(g)
    BY <2>1, ProposalPrepared, NoRefresh, JournalIsSafe, Zenon DEF Known
  <2> QED BY <1>1, <1>2, <2>2, GlobalStepLines, Zenon DEF Known
<1>3. CASE Step(Nothing, w)
  <2>1. Nothing /\ (Go(w) \/ Thrown) BY <1>3, Zenon DEF Step, Fault
  <2>2. intents' = intents /\ global' = global /\ lineages' = lineages
    BY <2>1, NothingPut, Zenon
  <2>3. LinesOK' /\ DeskAt(desk, journal', intents')
    BY <2>2, NothingLines, Zenon DEF Known, LineInv, journal
  <2>4. BodyAt(w, global', intents', lineages') BY <1>1, <2>2
  <2> QED BY <2>1, <2>3, <2>4, WorkerFollows, Zenon
<1> QED BY <1>2, <1>3, Zenon DEF Abandon, w

LEMMA ActivateLines ==
  ASSUME Known, Activate
  PROVE LineInv'
<1> DEFINE row == [mine EXCEPT !.stage = "READY"]
           w == At("indexActive")
<1>1. w.pc \notin LinePcs BY PlaceOf, OffLineNames, Zenon DEF Known
<1>2. CASE Skip(Idle) BY <1>2, SkipIdle, Zenon DEF Known
<1>3. CASE ~ Skip(Idle)
  <2>1. /\ mine.stage \in {"PROPOSAL_BODY_COMMITTED", "READY"} /\ Step(PutIntent(me, row), w)
        /\ lease.i = me /\ lease.state \in BodyStates
    BY <1>3, Zenon DEF Activate, HoldsLease
  <2>2. mine.stage \in SealedStages \cup {"READY"}
    BY <2>1 DEF SealedStages
  <2>3. "PROPOSAL_COMMIT_AUTHORIZED" \notin BodyStates BY DEF BodyStates
  <2> HIDE DEF row, w
  <2>4. RowSafe(me, row) BY <2>1, <2>3, Zenon DEF RowSafe
  <2>5. (PutIntent(me, row) \/ Nothing) /\ (Go(w) \/ Thrown)
    BY <2>1, Zenon DEF Step, Fault
  <2>6. BodyAt(w, global', intents', lineages') BY <1>1, OffLine, Zenon
  <2> QED BY <2>2, <2>4, <2>5, <2>6, SealedMove, Zenon
<1> QED BY <1>2, <1>3, Zenon

LEMMA OtherEntry ==
  ASSUME DurableOK, NEW b, NEW s, NEW c \in Behaviour, c # b
  PROVE [global.index EXCEPT ![b].state = s][c] = global.index[c]
<1> DEFINE e == [global.index[b] EXCEPT !.state = s]
<1>1. global.index \in [Behaviour -> Entry] BY GlobalFields, Zenon
<1>2. [global.index EXCEPT ![b].state = s] = [global.index EXCEPT ![b] = e] OBVIOUS
<1> HIDE DEF e
<1>3. [global.index EXCEPT ![b] = e][c] = global.index[c] BY <1>1, Zenon
<1> QED BY <1>2, <1>3, Zenon

(* One entry of the index moves, and it is that of the intent whose behaviour it
   is: nobody else with that behaviour is finished.                          *)
LEMMA OwnEntryMoves ==
  ASSUME TypeInv, HolderInv, NEW j \in Intent, IndexOf(j).owner = j, NEW s,
         NEW i \in Intent, intents[i].stage = "READY", i # j
  PROVE [global.index EXCEPT ![BehaviourOf[j]].state = s][BehaviourOf[i]] = IndexOf(i)
<1>1. BehaviourOf[i] # BehaviourOf[j] BY ReadyHolds, Zenon
<1>2. DurableOK /\ BehaviourOf[i] \in Behaviour
  BY BehaviourType, Zenon DEF TypeInv
<1> DEFINE x == [global.index EXCEPT ![BehaviourOf[j]].state = s]
<1>3. x[BehaviourOf[i]] = global.index[BehaviourOf[i]]
  BY <1>1, <1>2, OtherEntry
<1> HIDE DEF x
<1>4. x[BehaviourOf[i]] = IndexOf(i) BY <1>3, Zenon DEF IndexOf
<1> QED BY <1>4 DEF x

LEMMA IndexActiveLines ==
  ASSUME Known, IndexActive
  PROVE LineInv'
<1> DEFINE x == [global.index EXCEPT ![BehaviourOf[me]].state = "ACTIVE"]
           l == [lease EXCEPT !.state = "ACTIVE_COMPLETE"]
           g == [[global EXCEPT !.index = x] EXCEPT !.lease = l]
           w == At("complete")
<1>1. w.pc \notin LinePcs BY PlaceOf, OffLineNames, Zenon DEF Known
<1>2. CASE Skip(Idle) BY <1>2, SkipIdle, Zenon DEF Known
<1>3. CASE ~ Skip(Idle)
  <2>1. /\ lease.i = me /\ lease.state \in BodyStates /\ IndexOf(me).owner = me
        /\ Step(PutGlobal([global EXCEPT !.index[BehaviourOf[me]].state = "ACTIVE",
                                         !.lease.state = "ACTIVE_COMPLETE"]), w)
    BY <1>3, Zenon DEF IndexActive, ActiveByMe, HoldsLease
  <2>2. g = [global EXCEPT !.index[BehaviourOf[me]].state = "ACTIVE",
                           !.lease.state = "ACTIVE_COMPLETE"]
    <3>1. global \in Global BY Zenon DEF Known, TypeInv, DurableOK
    <3> QED BY <3>1 DEF lease, Global
  <2>3. Step(PutGlobal(g), w) BY <2>1, <2>2
  <2>4. /\ lease # NoLease /\ me \in Intent /\ Line(lease.i).owner = lease.i
    BY <2>1, AuthorizedLease, Zenon DEF Known, LineInv, LinesOK, BodyOwned
  <2>5. "ACTIVE_COMPLETE" \in LeaseStates /\ "ACTIVE_COMPLETE" \in BodyStates
        /\ "ACTIVE_COMPLETE" # "PROPOSAL_COMMIT_AUTHORIZED"
    BY LeaseNames
  <2>6. /\ LeaseSafe(l)
        /\ \A y : (\A i \in Intent : (intents[i].stage = "READY" /\ lease.i # i) =>
                       y[BehaviourOf[i]] = IndexOf(i)) => IndexSafe(l, y)
    BY <2>4, <2>5, LeaseIsSafe DEF Known
  <2>7. \A i \in Intent : (intents[i].stage = "READY" /\ lease.i # i) => x[BehaviourOf[i]] = IndexOf(i)
    BY <2>1, <2>4, OwnEntryMoves, Zenon DEF Known
  <2>8. g.journal = journal /\ g.lease = l /\ g.index = x
    <3>1. DurableOK BY Zenon DEF Known, TypeInv
    <3>2. \A y, k : /\ [[global EXCEPT !.index = y] EXCEPT !.lease = k].journal = journal
                    /\ [[global EXCEPT !.index = y] EXCEPT !.lease = k].lease = k
                    /\ [[global EXCEPT !.index = y] EXCEPT !.lease = k].index = y
      BY <3>1, Shapes
    <3> HIDE DEF x, l
    <3> QED BY <3>2
  <2> HIDE DEF g, x, l, w
  <2>9. GlobalSafe(g)
    BY <2>6, <2>7, <2>8, SafeJournals, Zenon DEF Known, LineInv, GlobalSafe
  <2> QED BY <1>1, <2>3, <2>9, OffLine, GlobalStepLines, Zenon DEF Known
<1> QED BY <1>2, <1>3, Zenon

LEMMA CompleteLines ==
  ASSUME Known, Complete
  PROVE LineInv'
<1>1. CASE Skip(Idle) BY <1>1, SkipIdle, Zenon DEF Known
<1>2. CASE ~ Skip(Idle)
  <2>1. /\ Step(PutGlobal(Released), Idle)
        /\ lease.i = me /\ lease.state = "ACTIVE_COMPLETE" /\ IndexOf(me).owner = me
        /\ IndexOf(me).state = "ACTIVE" /\ Line(me).state = "ACTIVE_PROPOSAL"
        /\ LastOf(Line(me)).round = mine.round
    BY <1>2, Zenon DEF Complete, ActiveByMe, HoldsLease
  <2>2. Line(me).owner = me /\ me \in Intent
    <3>1. lease.state \in BodyStates BY <2>1 DEF BodyStates
    <3> QED BY <2>1, <3>1, AuthorizedLease, Zenon DEF Known, LineInv, LinesOK, BodyOwned
  <2>3. IndexOf(me) = [owner |-> me, state |-> "ACTIVE"]
    <3>1. global.index \in [Behaviour -> Entry] /\ BehaviourOf[me] \in Behaviour
      BY <2>2, BehaviourType, GlobalFields, Zenon DEF Known, TypeInv
    <3>2. IndexOf(me) \in Entry BY <3>1, Zenon DEF IndexOf
    <3> QED BY <2>1, <3>2 DEF Entry, NoEntry
  <2>4. OwnsNow(me, global.index[BehaviourOf[me]])
    BY <2>1, <2>2, <2>3, Zenon DEF OwnsNow, LastOwner, Own, mine, IndexOf
  <2>5. Released.journal = journal /\ Released.lease = NoLease /\ Released.index = global.index
    BY Shapes, Zenon DEF Released, Known, TypeInv
  <2>6. \A i \in Intent : NoLease.i # i
    BY SizesAssumption DEF NoLease, Intent
  <2>7. LeaseSafe(NoLease)
    <3>1. NoLease.state # "PROPOSAL_COMMIT_AUTHORIZED" /\ NoLease.state \notin BodyStates
      BY DEF NoLease, BodyStates
    <3> QED BY <2>6, <3>1, Zenon DEF LeaseSafe
  <2>8. IndexSafe(NoLease, global.index)
    BY <2>1, <2>4, Zenon DEF IndexSafe, IndexOf
  <2>9. GlobalSafe(Released)
    BY <2>5, <2>7, <2>8, SafeJournals, Zenon DEF Known, LineInv, GlobalSafe
  <2> QED BY <2>1, <2>9, IdleOffLine, GlobalStepLines, Zenon DEF Known
<1> QED BY <1>1, <1>2, Zenon

LEMMA WorkerLines ==
  ASSUME Known, Worker
  PROVE LineInv'
<1>1. CASE EarlierStages
  BY <1>1, PlanRecallLines, EndRecallLines, ClassifyLines, AggregateLines, ClaimLines,
     Zenon DEF EarlierStages
<1>2. CASE LeaseSteps
  BY <1>2, AcquireLines, AcquireAgainLines, RefuseLines, ContinueCommitLines, Zenon
  DEF LeaseSteps
<1>3. CASE Calling
  BY <1>3, CallingRowLines, MovingLines, ResettingLines, ReleasePreCallLines,
     MarkReservedLines, GenerateLines, PrepareOutcomeLines, FinalizeOutcomeLines,
     MarkStaleLines, ReleaseStaleLines, Zenon DEF Calling
<1>4. CASE Committing
  BY <1>4, RevalidateLines, AuthorizeIntentLines, AuthorizeLeaseLines, PrepareProposalLines,
     PutProposalLines, MarkBodyLines, FinalizeBodyLines, CheckDurableLines, RollBackLines,
     AbandonLines, ActivateLines, IndexActiveLines, CompleteLines, Zenon DEF Committing
<1>5. CASE Recovering
  BY <1>5, RecoverLines, ForceUnknownLines, StrandLines, ResettingLines, Zenon DEF Recovering
<1> QED BY <1>1, <1>2, <1>3, <1>4, <1>5, Zenon DEF Worker

----
(* The user's mutations: the worker keeps its place. *)

LEMMA NoBody ==
  ASSUME Known, mine.stage \notin SealedStages
  PROVE worker.pc \notin LinePcs
<1>1. /\ worker.pc \in SealedPcs => mine.stage \in SealedStages
      /\ worker.pc \in {"authorizeLease", "prepareProposal"} \cup BodyPcs =>
            mine.stage \in CommittingStages
  BY PlaceFacts, Zenon
<1>2. CommittingStages \subseteq SealedStages BY StandingStages, Zenon
<1> QED BY <1>1, <1>2 DEF LinePcs

(* A mutation writes no row that the worker is committing. *)
LEMMA RowBody ==
  ASSUME Known, NEW i \in Intent, NEW row, PutIntent(i, row) \/ Nothing,
         intents[i].stage \notin SealedStages
  PROVE BodyAt(worker, global', intents', lineages')
<1>1. CASE Nothing BY <1>1, NothingPut, Zenon DEF Known, LineInv
<1>2. CASE PutIntent(i, row) /\ worker.i = i
  BY <1>2, NoBody, OffLine, Zenon DEF mine, me
<1>3. CASE PutIntent(i, row) /\ worker.i # i
  <2>1. /\ \A j \in Intent : j # i => intents'[j] = intents[j]
        /\ global' = global /\ lineages' = lineages
    BY <1>3, RowPut, Zenon DEF Known, TypeInv
  <2>2. worker.i \in Intent BY MeOK, Zenon DEF Known, me
  <2> QED BY <1>3, <2>1, <2>2, Zenon DEF Known, LineInv, BodyAt
<1> QED BY <1>1, <1>2, <1>3, Zenon

(* The global record moves under the worker only when nothing is being put, or
   by the journal of a mutation, which leaves it the lease.                  *)
Aside(l) ==
    \/ lease.i \in Intent => intents[lease.i].stage \notin CommittingStages
    \/ l = lease /\ journal.kind # "PROPOSAL" /\ journal # NoJournal

LEMMA GlobalBody ==
  ASSUME Known, NEW g, PutGlobal(g), Aside(g.lease)
  PROVE BodyAt(worker, global', intents', lineages')
<1>1. intents' = intents /\ lineages' = lineages /\ global' = g
  BY Zenon DEF PutGlobal
<1>2. BodyOf(worker, global, mine, Line(me)) /\ me = worker.i /\ me \in Intent
  BY MeOK, Zenon DEF Known, LineInv, BodyAt, mine, Line, me
<1>3. CASE lease.i \in Intent => intents[lease.i].stage \notin CommittingStages
  <2>1. worker.pc \notin BodyPcs BY <1>2, <1>3, PlaceFacts DEF mine
  <2>2. BodyOf(worker, g, mine, Line(me))
    BY <1>2, <2>1 DEF BodyOf, BodyPcs, PutPcs
  <2> QED BY <1>1, <1>2, <2>2, Zenon DEF BodyAt, mine, Line
<1>4. CASE g.lease = lease /\ journal.kind # "PROPOSAL" /\ journal # NoJournal
  <2>1. worker.pc \notin PutPcs BY <1>4, PlaceFacts, Zenon
  <2>2. ~ Finalized(worker, global, mine)
    BY <1>4, Zenon DEF Finalized, journal
  <2>3. BodyOf(worker, g, mine, Line(me))
    BY <1>2, <1>4, <2>1, <2>2 DEF BodyOf, PutPcs, lease
  <2> QED BY <1>1, <1>2, <2>3, Zenon DEF BodyAt, mine, Line
<1> QED BY <1>3, <1>4, Zenon DEF Aside

(* A lineage whose owner stays and whose revision moves is still the one the worker
   wrote, or one that was moved on since.                                    *)
LEMMA LineBody ==
  ASSUME Known, NEW b \in Behaviour, NEW line, PutLineage(b, line),
         line.owner = lineages[b].owner, line.revision = lineages[b].revision + 1
  PROVE BodyAt(worker, global', intents', lineages')
<1>1. /\ lineages'[b] = line /\ \A c \in Behaviour : c # b => lineages'[c] = lineages[c]
      /\ intents' = intents /\ global' = global
  BY LinePut, Zenon DEF Known, TypeInv
<1>2. BodyOf(worker, global, mine, Line(me)) /\ me = worker.i /\ BehaviourOf[me] \in Behaviour
  BY MeOK, Zenon DEF Known, LineInv, BodyAt, mine, Line, me
<1>3. CASE BehaviourOf[me] # b
  BY <1>1, <1>2, <1>3, Zenon DEF BodyAt, mine, Line
<1>4. CASE BehaviourOf[me] = b
  <2>1. /\ Line(me).revision \in Nat /\ worker.expect.revision \in Nat
    BY MeOK, LineFields, Zenon DEF Known
  <2>2. line.owner = Line(me).owner /\ line.revision = Line(me).revision + 1
    BY <1>4, Zenon DEF Line
  <2>3. /\ Line(me).revision > worker.expect.revision => line.revision > worker.expect.revision
        /\ Line(me) = worker.expect => line.revision > worker.expect.revision
    BY <2>1, <2>2
  <2>4. Written(Line(me), worker.expect) => Written(line, worker.expect)
    BY <2>2, <2>3, Zenon DEF Written
  <2>5. BodyOf(worker, global, mine, line)
    BY <1>2, <2>3, <2>4, Zenon DEF BodyOf
  <2> QED BY <1>1, <1>2, <1>4, <2>5, Zenon DEF BodyAt, mine
<1> QED BY <1>3, <1>4, Zenon

----
(* A step of the desk, whatever it writes. *)

SteadySteps == {"none", "recover", "dismissIntent", "dismissFinal"}
LEMMA SteadyDesk ==
  ASSUME NEW d, d.step \in SteadySteps, NEW j, NEW rows
  PROVE DeskAt(d, j, rows)
  BY DEF DeskAt, SteadySteps

LEMMA NoDeskAt == \A j, rows : DeskAt(NoDesk, j, rows)
<1>1. NoDesk.step \in SteadySteps BY DEF NoDesk, SteadySteps
<1> QED BY <1>1, SteadyDesk, Zenon

LEMMA SitLines ==
  ASSUME LinesOK', BodyAt(worker, global', intents', lineages'), NEW d, Sit(d),
         DeskAt(d, journal', intents')
  PROVE LineInv'
<1>1. worker' = worker /\ (desk' = NoDesk \/ desk' = d) BY Zenon DEF Sit
<1>2. DeskAt(desk', journal', intents') BY <1>1, NoDeskAt, Zenon
<1> QED BY <1>1, <1>2, Zenon DEF LineInv

LEMMA ThrownLines ==
  ASSUME LinesOK', BodyAt(worker, global', intents', lineages'), DeskThrown
  PROVE LineInv'
<1>1. CASE mode = "RECOVERING"
  <2>1. worker' = Idle /\ desk' = NoDesk BY <1>1, Zenon DEF DeskThrown
  <2> QED BY <2>1, IdleOffLine, NoDeskAt, Zenon DEF LineInv
<1>2. CASE mode # "RECOVERING"
  <2> DEFINE d == [step |-> "recover", i |-> desk.i, again |-> TRUE]
  <2>1. Sit(NoDesk) \/ Sit(d) BY <1>2, Zenon DEF DeskThrown
  <2>2. d.step \in SteadySteps BY DEF SteadySteps
  <2> HIDE DEF d
  <2> QED BY <2>1, <2>2, SteadyDesk, NoDeskAt, SitLines, Zenon
<1> QED BY <1>1, <1>2, Zenon

(* A step writes and goes on to the next, or throws. *)
LEMMA DeskStepLines ==
  ASSUME LinesOK', BodyAt(worker, global', intents', lineages'), NEW write, NEW next,
         DeskStep(write, next), write => DeskAt(Desk(next, desk.i), journal', intents')
  PROVE LineInv'
<1>1. (write /\ Sit(Desk(next, desk.i))) \/ DeskThrown
  BY Zenon DEF DeskStep, Fault
<1> QED BY <1>1, SitLines, ThrownLines, Zenon

LEMMA StandsStill ==
  ASSUME Known, Nothing
  PROVE  /\ LinesOK' /\ BodyAt(worker, global', intents', lineages')
         /\ journal' = journal /\ intents' = intents
<1>1. intents' = intents /\ global' = global /\ lineages' = lineages /\ journal' = journal
  BY NothingPut, Zenon DEF journal
<1> QED BY <1>1, NothingLines, Zenon DEF Known, LineInv

LEMMA DeskFailsLines ==
  ASSUME Known, DeskFails
  PROVE LineInv'
<1>1. Nothing /\ DeskThrown BY Zenon DEF DeskFails
<1> QED BY <1>1, StandsStill, ThrownLines, Zenon

LEMMA DeskSkipLines ==
  ASSUME Known, NEW step, NEW i, DeskSkip(step, i), DeskAt(Desk(step, i), journal, intents)
  PROVE LineInv'
<1>1. Nothing /\ Sit(Desk(step, i)) BY Zenon DEF DeskSkip
<1> QED BY <1>1, StandsStill, SitLines, Zenon

(* A journal is prepared. *)
LEMMA PrepareLines ==
  ASSUME Known, NEW j, NEW step, NEW i, Prepare(j, step, i), JournalSafe(j), Aside(lease),
         DeskAt(Desk(step, i), j, intents)
  PROVE LineInv'
<1> DEFINE g == [global EXCEPT !.journal = j]
<1>1. \/ PutGlobal(g) /\ (Sit(Desk(step, i)) \/ Sit(NoDesk))
      \/ Nothing /\ Sit(NoDesk)
  BY Zenon DEF Prepare, Fault
<1>2. g.journal = j /\ g.lease = lease /\ g.index = global.index
  BY Shapes, Zenon DEF Known, TypeInv
<1> HIDE DEF g
<1>3. CASE Nothing /\ Sit(NoDesk)
  BY <1>3, StandsStill, NoDeskAt, SitLines, Zenon
<1>4. CASE PutGlobal(g) /\ (Sit(Desk(step, i)) \/ Sit(NoDesk))
  <2>1. /\ intents' = intents /\ lineages' = lineages
        /\ lease' = lease /\ journal' = j /\ global'.index = global.index
    BY <1>2, <1>4, KeptByGlobal, Zenon
  <2>2. LinesOK'
    BY <2>1, SameLease, GlobalLines, Zenon DEF Known, LineInv
  <2>3. BodyAt(worker, global', intents', lineages')
    BY <1>2, <1>4, GlobalBody, Zenon
  <2> QED BY <1>4, <2>1, <2>2, <2>3, NoDeskAt, SitLines, Zenon
<1> QED BY <1>1, <1>3, <1>4, Zenon

(* The last write of a mutation, after which the desk is free. *)
LEMMA FinalLines ==
  ASSUME Known, NEW g, DeskStep(PutGlobal(g), "none"), LeaseSafe(g.lease),
         IndexSafe(g.lease, g.index), JournalSafe(g.journal), Aside(g.lease)
  PROVE LineInv'
<1>1. PutGlobal(g) \/ Nothing BY Zenon DEF DeskStep, Fault
<1>2. LinesOK' /\ BodyAt(worker, global', intents', lineages')
  <2>1. CASE Nothing BY <2>1, StandsStill, Zenon
  <2>2. CASE PutGlobal(g)
    <3>1. /\ intents' = intents /\ lineages' = lineages /\ lease' = g.lease
          /\ journal' = g.journal /\ global'.index = g.index
      BY <2>2, KeptByGlobal, Zenon
    <3> QED BY <2>2, <3>1, GlobalLines, GlobalBody, Zenon DEF Known, LineInv
  <2> QED BY <1>1, <2>1, <2>2, Zenon
<1>3. DeskAt(Desk("none", desk.i), journal', intents')
  <2>1. "none" \in SteadySteps BY DEF SteadySteps
  <2> QED BY <2>1, DeskNamed, SteadyDesk, Zenon
<1> QED BY <1>2, <1>3, DeskStepLines, Zenon

(* A mutation writes its row or its lineage. *)
LEMMA DeskRowLines ==
  ASSUME Known, NEW row, NEW next, DeskStep(PutIntent(desk.i, row), next),
         RowSafe(desk.i, row), intents[desk.i].stage \notin SealedStages,
         intents'[desk.i] = row => DeskAt(Desk(next, desk.i), journal, intents')
  PROVE LineInv'
<1>1. PutIntent(desk.i, row) \/ Nothing BY Zenon DEF DeskStep, Fault
<1>2. desk.i \in Intent /\ DurableOK BY DeskFields, Zenon DEF Known
<1>3. LinesOK' /\ BodyAt(worker, global', intents', lineages')
  BY <1>1, <1>2, RowLines, RowBody, Zenon DEF Known, LineInv
<1>4. PutIntent(desk.i, row) => intents'[desk.i] = row /\ journal' = journal
  BY <1>2, RowPut, Zenon DEF journal
<1> QED BY <1>3, <1>4, DeskStepLines, Zenon

LEMMA DeskLineLines ==
  ASSUME Known, NEW line, NEW next, DeskStep(PutLineage(BehaviourOf[desk.i], line), next),
         LineSafe(BehaviourOf[desk.i], line),
         line.owner = Line(desk.i).owner, line.revision = Line(desk.i).revision + 1,
         DeskAt(Desk(next, desk.i), journal, intents)
  PROVE LineInv'
<1>1. PutLineage(BehaviourOf[desk.i], line) \/ Nothing
  BY Zenon DEF DeskStep, Fault
<1>2. BehaviourOf[desk.i] \in Behaviour BY DeskFields, Zenon DEF Known
<1>3. journal' = journal /\ intents' = intents
  BY <1>1, NothingPut, Zenon DEF PutLineage, journal
<1>4. BodyAt(worker, global', intents', lineages')
  BY <1>1, <1>2, StandsStill, LineBody, Zenon DEF Line
<1>5. LinesOK' BY <1>1, <1>2, LineageLines, Zenon DEF Known, LineInv
<1> QED BY <1>3, <1>4, <1>5, DeskStepLines, Zenon

----
(* What the user's mutations write. *)

(* While a refresh or a review is prepared nobody holds the lease. *)
LEMMA UsersLease ==
  ASSUME Known, journal.kind = "REVIEW" \/ RefreshJournal(journal)
  PROVE  /\ lease = NoLease /\ lease.i \notin Intent /\ lease.state \notin BodyStates
         /\ lease.state # "PROPOSAL_COMMIT_AUTHORIZED" /\ \A l : l = lease => Aside(l)
<1>1. journal # NoJournal BY DEF NoJournal, RefreshJournal
<1>2. lease = NoLease
  <2>1. CASE journal.kind = "REVIEW"
    BY <1>1, <2>1, Zenon DEF Known, Fenced, JournalAndLease
  <2>2. CASE RefreshJournal(journal)
    <3>1. lease = NoLease \/ journal.owner = <<lease.i, 0>>
      BY <1>1, <2>2, Zenon DEF RefreshJournal, Known, Fenced, JournalAndLease
    <3> QED BY <2>2, <3>1 DEF RefreshJournal
  <2> QED BY <2>1, <2>2, Zenon
<1>3. NoLease.i \notin Intent /\ NoLease.state \notin BodyStates
      /\ NoLease.state # "PROPOSAL_COMMIT_AUTHORIZED"
  BY SizesAssumption DEF NoLease, Intent, BodyStates
<1> QED BY <1>2, <1>3, Zenon DEF Aside

(* A lineage that moved keeps its owner and its last proposal. *)
LEMMA MovedLineKeeps ==
  ASSUME NEW line, LineOK(line), line # NoLineage, NEW s
  PROVE  LET new == [line EXCEPT !.state = s, !.revision = @ + 1]
         IN  /\ new.state = s /\ new.owner = line.owner /\ new.revision = line.revision + 1
             /\ LastOwner(new) = LastOwner(line)
<1>1. \A t, r : /\ [line EXCEPT !.state = t, !.revision = r].state = t
                /\ [line EXCEPT !.state = t, !.revision = r].owner = line.owner
                /\ [line EXCEPT !.state = t, !.revision = r].revision = r
                /\ [line EXCEPT !.state = t, !.revision = r].proposals = line.proposals
  BY LineInSet DEF LineSet
<1> DEFINE new == [line EXCEPT !.state = s, !.revision = line.revision + 1]
<1>2. /\ new.state = s /\ new.owner = line.owner /\ new.revision = line.revision + 1
      /\ new.proposals = line.proposals
  BY <1>1
<1> HIDE DEF new
<1>3. LastOwner(new) = LastOwner(line)
  BY <1>2, Zenon DEF LastOwner, LastOf
<1>4. /\ new.state = s /\ new.owner = line.owner /\ new.revision = line.revision + 1
      /\ LastOwner(new) = LastOwner(line)
  BY <1>2, <1>3, Zenon
<1> QED BY <1>4 DEF new

LEMMA MarkedLast ==
  ASSUME NEW line, LineOK(line), line # NoLineage, NEW failure
  PROVE  LET n == Len(line.proposals)
             marked == [line.proposals EXCEPT ![n].failure = failure]
         IN  Len(marked) = n /\ marked[n].round = LastOf(line).round
<1> DEFINE n == Len(line.proposals)
           last == [line.proposals[n] EXCEPT !.failure = failure]
           marked == [line.proposals EXCEPT ![n] = last]
<1>1. line.proposals \in Seq(Proposal) /\ n \in Nat /\ n >= 1
  BY LineInSet DEF LineSet
<1>2. line.proposals[n] \in Proposal BY <1>1
<1>3. last.round = line.proposals[n].round BY <1>2 DEF Proposal
<1> HIDE DEF last
<1>4. Len(marked) = n /\ marked[n] = last BY <1>1
<1>5. marked[n].round = LastOf(line).round BY <1>3, <1>4 DEF LastOf
<1> QED BY <1>4, <1>5 DEF last

LEMMA MarkedLineKeeps ==
  ASSUME NEW line, LineOK(line), line # NoLineage, NEW failure
  PROVE  /\ \A s : LET new == [line EXCEPT !.state = s, !.revision = @ + 1,
                                  !.proposals[Len(line.proposals)].failure = failure]
                   IN  /\ new.state = s /\ new.owner = line.owner
                       /\ new.revision = line.revision + 1 /\ LastOwner(new) = LastOwner(line)
         /\ LET new == [line EXCEPT !.revision = @ + 1,
                            !.proposals[Len(line.proposals)].failure = failure]
            IN  /\ new.state = line.state /\ new.owner = line.owner
                /\ new.revision = line.revision + 1 /\ LastOwner(new) = LastOwner(line)
<1> DEFINE n == Len(line.proposals)
           marked == [line.proposals EXCEPT ![n].failure = failure]
<1>1. Len(marked) = n /\ marked[n].round = LastOf(line).round
  BY MarkedLast
<1> HIDE DEF marked, n
<1>2. \A new : (new.owner = line.owner /\ new.proposals = marked) => LastOwner(new) = LastOwner(line)
  BY <1>1, Zenon DEF LastOwner, LastOf, n
<1>3. \A t, r, q :
         /\ [line EXCEPT !.state = t, !.revision = r, !.proposals = q].state = t
         /\ [line EXCEPT !.state = t, !.revision = r, !.proposals = q].owner = line.owner
         /\ [line EXCEPT !.state = t, !.revision = r, !.proposals = q].revision = r
         /\ [line EXCEPT !.state = t, !.revision = r, !.proposals = q].proposals = q
         /\ [line EXCEPT !.revision = r, !.proposals = q].state = line.state
         /\ [line EXCEPT !.revision = r, !.proposals = q].owner = line.owner
         /\ [line EXCEPT !.revision = r, !.proposals = q].revision = r
         /\ [line EXCEPT !.revision = r, !.proposals = q].proposals = q
  BY LineInSet DEF LineSet
<1> DEFINE moved(s) == [line EXCEPT !.state = s, !.revision = line.revision + 1, !.proposals = marked]
           kept == [line EXCEPT !.revision = line.revision + 1, !.proposals = marked]
<1>4. \A s : /\ moved(s).state = s /\ moved(s).owner = line.owner
             /\ moved(s).revision = line.revision + 1 /\ moved(s).proposals = marked
  BY <1>3
<1>5. /\ kept.state = line.state /\ kept.owner = line.owner
      /\ kept.revision = line.revision + 1 /\ kept.proposals = marked
  BY <1>3
<1> HIDE DEF moved, kept
<1>6. /\ \A s : /\ moved(s).state = s /\ moved(s).owner = line.owner
                /\ moved(s).revision = line.revision + 1
                /\ LastOwner(moved(s)) = LastOwner(line)
      /\ kept.state = line.state /\ kept.owner = line.owner
      /\ kept.revision = line.revision + 1 /\ LastOwner(kept) = LastOwner(line)
  BY <1>2, <1>4, <1>5, Zenon
<1>7. ASSUME NEW s
      PROVE  LET new == [line EXCEPT !.state = s, !.revision = @ + 1,
                            !.proposals[Len(line.proposals)].failure = failure]
             IN  /\ new.state = s /\ new.owner = line.owner
                 /\ new.revision = line.revision + 1 /\ LastOwner(new) = LastOwner(line)
  <2>1. /\ moved(s).state = s /\ moved(s).owner = line.owner
        /\ moved(s).revision = line.revision + 1 /\ LastOwner(moved(s)) = LastOwner(line)
    BY <1>6, Zenon
  <2> QED BY <2>1 DEF moved, marked, n
<1>8. LET new == [line EXCEPT !.revision = @ + 1,
                     !.proposals[Len(line.proposals)].failure = failure]
      IN  /\ new.state = line.state /\ new.owner = line.owner
          /\ new.revision = line.revision + 1 /\ LastOwner(new) = LastOwner(line)
  <2>1. /\ kept.state = line.state /\ kept.owner = line.owner
        /\ kept.revision = line.revision + 1 /\ LastOwner(kept) = LastOwner(line)
    BY <1>6, Zenon
  <2> QED BY <2>1 DEF kept, marked, n
<1> QED BY <1>7, <1>8

(* What the proposal in view says of its owner. *)
LEMMA LastOwnerIs ==
  ASSUME Known, NEW b \in Behaviour, lineages[b].state # "NONE"
  PROVE  /\ lineages[b] # NoLineage /\ LineOK(lineages[b])
         /\ LastOwner(lineages[b])[1] = lineages[b].owner
         /\ LastOwner(lineages[b])[2] # 0
         /\ Line(lineages[b].owner) = lineages[b]
<1>1. LineOK(lineages[b]) BY Zenon DEF Known, TypeInv, DurableOK
<1>2. lineages[b] # NoLineage /\ LastOf(lineages[b]) \in Proposal
  BY <1>1, LineFields, Zenon
<1>3. LastOf(lineages[b]).round # 0 BY <1>2 DEF Proposal, Round
<1>4. BehaviourOf[lineages[b].owner] = b
  BY <1>2, Zenon DEF Known, LineInv, LinesOK, LinesOwned
<1> QED BY <1>1, <1>2, <1>3, <1>4 DEF LastOwner, Line

(* A lineage moves on while no lease and no refresh is about it. *)
LEMMA KeptLineSafe ==
  ASSUME Known, NEW b \in Behaviour, lineages[b] # NoLineage, NEW line,
         line.owner = lineages[b].owner, LastOwner(line) = LastOwner(lineages[b]),
         line.state = lineages[b].state \/ line.state \in {"ACTIVE_PROPOSAL", "TERMINAL"}
  PROVE LineSafe(b, line)
<1>1. BehaviourOf[line.owner] = b
  BY Zenon DEF Known, LineInv, LinesOK, LinesOwned
<1>2. (lease.state \in BodyStates /\ BehaviourOf[lease.i] = b) => line.owner = lease.i
  BY Zenon DEF Known, LineInv, LinesOK, BodyOwned, Line
<1>3. (RefreshJournal(journal) /\ BehaviourOf[journal.owner[1]] = b) =>
          line.owner = journal.owner[1]
  BY Zenon DEF Known, LineInv, LinesOK, RefreshOwned, Line
<1>4. ASSUME NEW i \in Intent, intents[i].stage = "READY", lease.i # i, BehaviourOf[i] = b
      PROVE OwnedBy(i, line)
  <2>1. OwnedBy(i, lineages[b])
    BY <1>4, Zenon DEF Known, LineInv, LinesOK, ReadyOwns, Line
  <2> QED BY <2>1, Zenon DEF OwnedBy
<1> QED BY <1>1, <1>2, <1>3, <1>4, Zenon DEF LineSafe

----
(* Refreshing a proposal. *)

LEMMA RefreshProposalLines ==
  ASSUME Known, NEW b \in Behaviour, RefreshProposal(b)
  PROVE LineInv'
<1> DEFINE line == lineages[b]
           j == UserAction(LastOwner(line))
<1>1. /\ line.state = "ACTIVE_PROPOSAL"
      /\ CatalogIsFree \/ journal = j
      /\ Prepare(j, "refreshLineage", line.owner)
  BY Zenon DEF RefreshProposal, Refreshable
<1>2. LastOwner(line)[1] = line.owner /\ LastOwner(line)[2] # 0 /\ Line(line.owner) = line
  BY <1>1, LastOwnerIs
<1>3. RefreshJournal(j) /\ j.owner[1] = line.owner
  <2>1. j.kind = "USER_ACTION" /\ j.owner = LastOwner(line)
    BY DEF UserAction
  <2> QED BY <1>2, <2>1, Zenon DEF RefreshJournal
<1>4. DeskAt(Desk("refreshLineage", line.owner), j, intents)
  <2> DEFINE d == Desk("refreshLineage", line.owner)
  <2>1. d.step = "refreshLineage" /\ d.i = line.owner
    BY DeskNamed, Zenon
  <2> HIDE DEF d, j, line
  <2>2. DeskAt(d, j, intents) BY <1>3, <2>1 DEF DeskAt
  <2> QED BY <2>2 DEF d
<1> HIDE DEF j, line
<1>5. JournalSafe(j)
  <2>1. RefreshJournal(journal) => journal = j
    BY <1>1, NoRefresh, Zenon DEF CatalogIsFree
  <2> QED BY <1>2, <1>3, <2>1, Zenon DEF JournalSafe
<1>6. Aside(lease)
  <2>1. CASE CatalogIsFree
    BY <2>1, SizesAssumption DEF CatalogIsFree, NoLease, Intent, Aside
  <2>2. CASE journal = j BY <1>3, <2>2, UsersLease, Zenon
  <2> QED BY <1>1, <2>1, <2>2, Zenon
<1> QED BY <1>1, <1>4, <1>5, <1>6, PrepareLines, Zenon

LEMMA RefreshLineageLines ==
  ASSUME Known, RefreshLineage
  PROVE LineInv'
<1> DEFINE line == Line(desk.i)
           new == [line EXCEPT !.state = "REFRESHING", !.revision = @ + 1]
<1>1. CASE DeskFails BY <1>1, DeskFailsLines, Zenon
<1>2. CASE ~ DeskFails
  <2>1. /\ line.state = "ACTIVE_PROPOSAL"
        /\ DeskStep(PutLineage(BehaviourOf[desk.i], new), "refreshIntent")
    BY <1>2, Zenon DEF RefreshLineage, Refreshable
  <2>2. RefreshJournal(journal) /\ journal.owner[1] = desk.i
    BY DEF RefreshLineage, Known, LineInv, DeskAt
  <2>3. line.owner = desk.i
    BY <2>2, Zenon DEF Known, LineInv, LinesOK, RefreshOwned
  <2>4. LineOK(line) /\ line # NoLineage /\ desk.i \in Intent
    <3>1. "ACTIVE_PROPOSAL" # "NONE" OBVIOUS
    <3> QED BY <2>1, <3>1, DeskFields, LineFields, Zenon DEF Known
  <2>5. /\ new.state = "REFRESHING" /\ new.owner = line.owner
        /\ new.revision = line.revision + 1 /\ LastOwner(new) = LastOwner(line)
    BY <2>4, MovedLineKeeps
  <2>6. DeskAt(Desk("refreshIntent", desk.i), journal, intents)
    <3> DEFINE d == Desk("refreshIntent", desk.i)
    <3>1. d.step = "refreshIntent" /\ d.i = desk.i BY DeskNamed, Zenon
    <3> HIDE DEF d
    <3>2. DeskAt(d, journal, intents) BY <2>2, <3>1 DEF DeskAt
    <3> QED BY <3>2 DEF d
  <2>7. lease.state \notin BodyStates /\ lease.i \notin Intent
    BY <2>2, UsersLease, Zenon
  <2> HIDE DEF new, line
  <2>8. LineSafe(BehaviourOf[desk.i], new)
    <3>1. ASSUME NEW i \in Intent, intents[i].stage = "READY", BehaviourOf[i] = BehaviourOf[desk.i]
          PROVE OwnedBy(i, new)
      <4>1. OwnedBy(i, line)
        BY <2>7, <3>1, Zenon DEF Known, LineInv, LinesOK, ReadyOwns, Line, line
      <4>2. LastOwner(line)[1] = line.owner /\ Own(i)[1] = i
        BY DEF LastOwner, Own
      <4>3. i = desk.i BY <2>3, <4>1, <4>2, Zenon DEF OwnedBy
      <4> QED BY <2>2, <2>5, <4>1, <4>3, Zenon DEF OwnedBy
    <3> QED BY <2>2, <2>3, <2>5, <2>7, <3>1, Zenon DEF LineSafe
  <2> QED BY <2>1, <2>5, <2>6, <2>8, DeskLineLines, Zenon DEF line
<1> QED BY <1>1, <1>2, Zenon

LEMMA RefreshIntentLines ==
  ASSUME Known, RefreshIntent
  PROVE LineInv'
<1>1. RefreshJournal(journal) /\ journal.owner[1] = desk.i
  BY DEF RefreshIntent, Known, LineInv, DeskAt
<1> DEFINE d == Desk("refreshFinal", desk.i)
<1>2. d.step = "refreshFinal" /\ d.i = desk.i BY DeskNamed, Zenon
<1> HIDE DEF d
<1>3. \A rows : rows[desk.i].stage = "RECALLING" => DeskAt(d, journal, rows)
  BY <1>1, <1>2 DEF DeskAt
<1>4. CASE DeskFails BY <1>4, DeskFailsLines, Zenon
<1>5. CASE DeskSkip("refreshFinal", desk.i) /\ intents[desk.i].stage = "RECALLING"
  BY <1>3, <1>5, DeskSkipLines, Zenon DEF d
<1>6. CASE intents[desk.i].stage = "READY" /\ DeskStep(PutIntent(desk.i, StartedOver), "refreshFinal")
  <2>1. StartedOver.stage = "RECALLING" BY DEF StartedOver, NewIntent
  <2>2. "READY" \notin SealedStages BY StandingStages, Zenon
  <2>3. RowSafe(desk.i, StartedOver)
    <3>1. StartedOver.stage # "READY" BY <2>1
    <3> QED BY <1>1, <3>1, UsersLease, Zenon DEF RowSafe
  <2>4. intents'[desk.i] = StartedOver => DeskAt(d, journal, intents')
    BY <1>3, <2>1, Zenon
  <2> QED BY <1>6, <2>2, <2>3, <2>4, DeskRowLines, Zenon DEF d
<1> QED BY <1>4, <1>5, <1>6, Zenon DEF RefreshIntent

LEMMA RefreshFinalLines ==
  ASSUME Known, RefreshFinal
  PROVE LineInv'
<1> DEFINE x == [global.index EXCEPT ![BehaviourOf[desk.i]].state = "RESERVED"]
           g == [Advanced EXCEPT !.index = x]
<1>1. CASE DeskFails BY <1>1, DeskFailsLines, Zenon
<1>2. CASE ~ DeskFails
  <2>1. /\ IndexOf(desk.i).owner = desk.i
        /\ DeskStep(PutGlobal([Advanced EXCEPT !.index[BehaviourOf[desk.i]].state = "RESERVED"]),
                    "none")
    BY <1>2, Zenon DEF RefreshFinal
  <2>2. /\ RefreshJournal(journal) /\ journal.owner[1] = desk.i
        /\ intents[desk.i].stage # "READY"
    BY DEF RefreshFinal, Known, LineInv, DeskAt
  <2>3. g = [Advanced EXCEPT !.index[BehaviourOf[desk.i]].state = "RESERVED"]
    <3>1. Advanced.index = global.index
      BY AdvancedFields, Zenon DEF Known, TypeInv
    <3> QED BY <3>1
  <2>4. DeskStep(PutGlobal(g), "none") BY <2>1, <2>3
  <2>5. g.journal = NoJournal /\ g.lease = lease /\ g.index = x
    <3> HIDE DEF x
    <3> QED BY ShapesAdvanced, Zenon DEF Known, TypeInv
  <2>6. \A i \in Intent : intents[i].stage = "READY" => x[BehaviourOf[i]] = IndexOf(i)
    BY <2>1, <2>2, DeskFields, OwnEntryMoves, Zenon DEF Known
  <2> HIDE DEF g, x
  <2>7. LeaseSafe(lease) /\ IndexSafe(lease, x)
    BY <2>6, SameLease, Zenon DEF Known, LineInv
  <2>8. JournalSafe(NoJournal) BY <2>2, NoRefresh, Zenon DEF JournalSafe
  <2>9. Aside(lease) BY <2>2, UsersLease, Zenon
  <2> QED BY <2>4, <2>5, <2>7, <2>8, <2>9, FinalLines, Zenon
<1> QED BY <1>1, <1>2, Zenon

----
(* Dismissing an intent. *)

LEMMA QuietDeskAt ==
  ASSUME NEW step \in SteadySteps, NEW i, NEW j, NEW rows
  PROVE DeskAt(Desk(step, i), j, rows)
  BY DeskNamed, SteadyDesk, Zenon

(* A dismissal says nothing of a refresh. *)
LEMMA DismissalJournal ==
  ASSUME NEW i
  PROVE  /\ ~ RefreshJournal(UserAction(<<i, 0>>)) /\ UserAction(<<i, 0>>) # NoJournal
         /\ UserAction(<<i, 0>>).kind = "USER_ACTION"
  BY DEF RefreshJournal, UserAction, NoJournal

LEMMA DismissLines ==
  ASSUME Known, NEW i \in Intent, Dismiss(i)
  PROVE LineInv'
<1>1. /\ intents[i].stage \in {"ATTENTION", "PRECALL"}
      /\ (LeaseIsFreeOf(i) /\ journal = NoJournal) \/ journal = UserAction(<<i, 0>>)
      /\ Prepare(UserAction(<<i, 0>>), "dismissIntent", i)
  BY Zenon DEF Dismiss
<1>2. ~ RefreshJournal(journal) /\ ~ RefreshJournal(UserAction(<<i, 0>>))
  BY <1>1, NoRefresh, DismissalJournal, Zenon
<1>3. JournalSafe(UserAction(<<i, 0>>))
  BY <1>2, SafeJournals, Zenon DEF Known, LineInv
<1>4. Aside(lease)
  <2>1. CASE LeaseIsFreeOf(i)
    <3>1. lease.i \in Intent => lease.i = i
      BY <2>1, SizesAssumption DEF LeaseIsFreeOf, NoLease, Intent
    <3>2. intents[i].stage \notin CommittingStages
      BY <1>1 DEF CommittingStages
    <3> QED BY <3>1, <3>2, Zenon DEF Aside
  <2>2. CASE journal = UserAction(<<i, 0>>)
    <3>1. journal.kind # "PROPOSAL" /\ journal # NoJournal
      BY <2>2, DismissalJournal
    <3> QED BY <3>1, Zenon DEF Aside
  <2> QED BY <1>1, <2>1, <2>2, Zenon
<1>5. DeskAt(Desk("dismissIntent", i), UserAction(<<i, 0>>), intents)
  BY QuietDeskAt DEF SteadySteps
<1> QED BY <1>1, <1>3, <1>4, <1>5, PrepareLines, Zenon

LEMMA DismissIntentLines ==
  ASSUME Known, DismissIntent
  PROVE LineInv'
<1> DEFINE row == [intents[desk.i] EXCEPT
                      !.stage = "DISCARDED", !.call = "NONE", !.reason = "NONE", !.barrier = NoBarrier]
<1>1. desk.i \in Intent /\ intents[desk.i] \in IntentRow
  BY DeskFields, Zenon DEF Known
<1>2. row.stage = "DISCARDED"
  <2>1. \A s, c, n, b :
           /\ [intents[desk.i] EXCEPT !.stage = s, !.call = c, !.reason = n, !.barrier = b].stage = s
           /\ [intents[desk.i] EXCEPT !.stage = s, !.call = c, !.reason = n, !.barrier = b].round
                 = intents[desk.i].round
    BY <1>1, RowMoves, Zenon
  <2> QED BY <2>1
<1>3. DeskStep(PutIntent(desk.i, row), "dismissFinal")
  BY Zenon DEF DismissIntent
<1>4. intents[desk.i].stage \notin SealedStages
  <2>1. intents[desk.i].stage \in {"ATTENTION", "PRECALL"}
    BY Zenon DEF DismissIntent, Known, HolderInv, DismissalOK
  <2> QED BY <2>1 DEF SealedStages
<1> HIDE DEF row
<1>5. RowSafe(desk.i, row) BY <1>2 DEF RowSafe, AuthorizedStages
<1>6. DeskAt(Desk("dismissFinal", desk.i), journal, intents')
  BY QuietDeskAt DEF SteadySteps
<1> QED BY <1>3, <1>4, <1>5, <1>6, DeskRowLines, Zenon

LEMMA DismissFinalLines ==
  ASSUME Known, DismissFinal
  PROVE LineInv'
<1> DEFINE x == [b \in Behaviour |-> Unreserved(global.index[b], desk.i)]
           h == [Advanced EXCEPT !.lease = NoLease]
           g == [h EXCEPT !.index = x]
<1>1. CASE DeskSkip("none", 1)
  <2>1. DeskAt(Desk("none", 1), journal, intents)
    BY QuietDeskAt DEF SteadySteps
  <2> QED BY <1>1, <2>1, DeskSkipLines, Zenon
<1>2. CASE DeskFails BY <1>2, DeskFailsLines, Zenon
<1>3. CASE ~ DeskSkip("none", 1) /\ ~ DeskFails
  <2>1. /\ journal = UserAction(<<desk.i, 0>>)
        /\ lease = NoLease \/ lease.i = desk.i
        /\ DeskStep(PutGlobal([Advanced EXCEPT !.lease = NoLease, !.index =
                        [b \in Behaviour |-> Unreserved(@[b], desk.i)]]), "none")
    BY <1>3, Zenon DEF DismissFinal, LeaseIsFreeOf
  <2>2. g = [Advanced EXCEPT !.lease = NoLease, !.index =
                 [b \in Behaviour |-> Unreserved(@[b], desk.i)]]
    <3>1. Advanced.index = global.index
      BY AdvancedFields, Zenon DEF Known, TypeInv
    <3>2. Advanced \in Global BY AdvancedOK, Zenon DEF Known, TypeInv
    <3> QED BY <3>1, <3>2
  <2>3. DeskStep(PutGlobal(g), "none") BY <2>1, <2>2
  <2>4. g.journal = NoJournal /\ g.lease = NoLease /\ g.index = x
    <3>1. DurableOK BY Zenon DEF Known, TypeInv
    <3>2. \A y, l : /\ [[Advanced EXCEPT !.lease = l] EXCEPT !.index = y].journal = NoJournal
                    /\ [[Advanced EXCEPT !.lease = l] EXCEPT !.index = y].lease = l
                    /\ [[Advanced EXCEPT !.lease = l] EXCEPT !.index = y].index = y
      BY <3>1, ShapesAdvanced
    <3> HIDE DEF x
    <3> QED BY <3>2
  <2>5. intents[desk.i].stage = "DISCARDED"
    BY Zenon DEF DismissFinal, Known, HolderInv, DismissalOK
  <2>6. NoLease.i \notin Intent BY SizesAssumption DEF NoLease, Intent
  <2>7. \A i \in Intent : lease.i = i => intents[i].stage # "READY"
    <3> SUFFICES ASSUME NEW i \in Intent, lease.i = i PROVE intents[i].stage # "READY"
      BY Zenon
    <3>1. i = desk.i BY <2>1, <2>6, Zenon
    <3> QED BY <2>5, <3>1
  <2>8. ASSUME NEW i \in Intent, intents[i].stage = "READY"
        PROVE x[BehaviourOf[i]] = IndexOf(i)
    <3>1. IndexOf(i).owner = i
      BY <2>8, SealedIndexed, LineStageNames, Zenon DEF Known
    <3>2. i # desk.i BY <2>5, <2>8
    <3>3. x[BehaviourOf[i]] = Unreserved(IndexOf(i), desk.i)
      BY BehaviourType, Zenon DEF IndexOf
    <3> QED BY <3>1, <3>2, <3>3, Zenon DEF Unreserved
  <2> HIDE DEF x, h, g
  <2>9. LeaseSafe(NoLease) /\ IndexSafe(NoLease, x)
    BY <2>7, <2>8, SafeRelease, Zenon
  <2>10. JournalSafe(NoJournal)
    <3>1. ~ RefreshJournal(journal) BY <2>1, DismissalJournal, Zenon
    <3> QED BY <3>1, NoRefresh, SafeJournals, Zenon DEF Known, LineInv
  <2>11. Aside(NoLease)
    <3>1. lease.i \in Intent => lease.i = desk.i BY <2>1, <2>6, Zenon
    <3>2. intents[desk.i].stage \notin CommittingStages
      BY <2>5 DEF CommittingStages
    <3> QED BY <3>1, <3>2, Zenon DEF Aside
  <2> QED BY <2>3, <2>4, <2>9, <2>10, <2>11, FinalLines, Zenon
<1> QED BY <1>1, <1>2, <1>3, Zenon

----
(* Rejecting a proposal, and recovering what a stop left prepared. *)

LEMMA ReviewIs ==
  ASSUME NEW o
  PROVE ReviewJournal(o).kind = "REVIEW" /\ ~ RefreshJournal(ReviewJournal(o))
  BY DEF ReviewJournal, RefreshJournal

LEMMA ReviewDesk ==
  ASSUME NEW j, j.kind = "REVIEW", NEW i, NEW rows
  PROVE  /\ DeskAt(Desk("rejectLineage", i), j, rows) /\ DeskAt(Desk("rejectFinal", i), j, rows)
         /\ DeskAt(Desk("drop", i), j, rows)
<1>1. \A d : d.step \in {"rejectLineage", "rejectFinal", "drop"} => DeskAt(d, j, rows)
  BY DEF DeskAt, RefreshJournal
<1>2. /\ Desk("rejectLineage", i).step \in {"rejectLineage", "rejectFinal", "drop"}
      /\ Desk("rejectFinal", i).step \in {"rejectLineage", "rejectFinal", "drop"}
      /\ Desk("drop", i).step \in {"rejectLineage", "rejectFinal", "drop"}
  BY DeskNamed
<1> QED BY <1>1, <1>2

LEMMA RejectProposalLines ==
  ASSUME Known, NEW b \in Behaviour, RejectProposal(b)
  PROVE LineInv'
<1> DEFINE j == ReviewJournal(LastOwner(lineages[b]))
           k == lineages[b].owner
<1>1. lease = NoLease /\ journal = NoJournal /\ Prepare(j, "rejectLineage", k)
  BY Zenon DEF RejectProposal, CatalogIsFree
<1>2. j.kind = "REVIEW" /\ ~ RefreshJournal(j) BY ReviewIs, Zenon
<1> HIDE DEF j, k
<1>3. JournalSafe(j)
  BY <1>1, <1>2, NoRefresh, SafeJournals, Zenon DEF Known, LineInv
<1>4. Aside(lease) BY <1>1, SizesAssumption DEF NoLease, Intent, Aside
<1>5. DeskAt(Desk("rejectLineage", k), j, intents)
  BY <1>2, ReviewDesk, Zenon
<1> QED BY <1>1, <1>3, <1>4, <1>5, PrepareLines, Zenon

LEMMA RejectAgainLines ==
  ASSUME Known, NEW b \in Behaviour, RejectAgain(b)
  PROVE LineInv'
<1> DEFINE d == [step |-> "recover", i |-> lineages[b].owner, again |-> TRUE]
<1>1. Nothing /\ Sit(d) BY Zenon DEF RejectAgain
<1>2. d.step \in SteadySteps BY DEF SteadySteps
<1> HIDE DEF d
<1>3. DeskAt(d, journal', intents') BY <1>2, SteadyDesk, Zenon
<1> QED BY <1>1, <1>3, StandsStill, SitLines, Zenon

LEMMA RejectLineageLines ==
  ASSUME Known, RejectLineage
  PROVE LineInv'
<1> DEFINE line == Line(desk.i)
           new == [line EXCEPT !.state = "TERMINAL", !.revision = @ + 1,
                               !.proposals[Len(line.proposals)].failure = "NONE"]
<1>1. CASE DeskFails BY <1>1, DeskFailsLines, Zenon
<1>2. CASE ~ DeskFails
  <2>1. /\ line.state = "ACTIVE_PROPOSAL"
        /\ DeskStep(PutLineage(BehaviourOf[desk.i], new), "rejectFinal")
    BY <1>2, Zenon DEF RejectLineage
  <2>2. journal.kind = "REVIEW"
    BY DEF RejectLineage, Known, LineInv, DeskAt
  <2>3. LineOK(line) /\ line # NoLineage /\ BehaviourOf[desk.i] \in Behaviour
    <3>1. "ACTIVE_PROPOSAL" # "NONE" OBVIOUS
    <3> QED BY <2>1, <3>1, DeskFields, LineFields, Zenon DEF Known
  <2>4. /\ new.state = "TERMINAL" /\ new.owner = line.owner
        /\ new.revision = line.revision + 1 /\ LastOwner(new) = LastOwner(line)
    BY <2>3, MarkedLineKeeps
  <2> HIDE DEF new
  <2>5. LineSafe(BehaviourOf[desk.i], new)
    <3>1. new.state \in {"ACTIVE_PROPOSAL", "TERMINAL"} BY <2>4
    <3> QED BY <2>3, <2>4, <3>1, KeptLineSafe, Zenon DEF Line
  <2>6. DeskAt(Desk("rejectFinal", desk.i), journal, intents)
    BY <2>2, ReviewDesk, Zenon
  <2> QED BY <2>1, <2>4, <2>5, <2>6, DeskLineLines, Zenon
<1> QED BY <1>1, <1>2, Zenon

LEMMA RejectFinalLines ==
  ASSUME Known, RejectFinal
  PROVE LineInv'
<1>1. CASE DeskFails BY <1>1, DeskFailsLines, Zenon
<1>2. CASE ~ DeskFails
  <2>1. DeskStep(PutGlobal(Advanced), "none")
    BY <1>2, Zenon DEF RejectFinal
  <2>2. journal.kind = "REVIEW"
    BY DEF RejectFinal, Known, LineInv, DeskAt
  <2>3. Advanced.lease = lease /\ Advanced.index = global.index /\ Advanced.journal = NoJournal
    BY AdvancedFields, Zenon DEF Known, TypeInv
  <2>4. JournalSafe(NoJournal)
    <3>1. ~ RefreshJournal(journal) BY <2>2 DEF RefreshJournal
    <3> QED BY <3>1, NoRefresh, SafeJournals, Zenon DEF Known, LineInv
  <2>5. Aside(lease) BY <2>2, UsersLease, Zenon
  <2> QED BY <2>1, <2>3, <2>4, <2>5, SameLease, FinalLines, Zenon DEF Known, LineInv
<1> QED BY <1>1, <1>2, Zenon

LEMMA RecoverDeskLines ==
  ASSUME Known, RecoverDesk
  PROVE LineInv'
<1> DEFINE i == journal.owner[1]
           step == MutationRecovery(i)
           k == IF step = "none" THEN 1 ELSE i
<1>1. DeskFails \/ (step # "conflict" /\ DeskSkip(step, k))
  BY Zenon DEF RecoverDesk
<1>2. \/ step \in SteadySteps \cup {"conflict"}
      \/ step \in {"refreshIntent", "refreshLineage"} /\ RefreshJournal(journal)
      \/ step = "rejectFinal" /\ journal.kind = "REVIEW"
      \/ step = "drop" /\ journal.kind \in {"REVIEW", "USER_ACTION"} /\ ~ RefreshJournal(journal)
  BY DEF MutationRecovery, RefreshRecovery, SteadySteps, RefreshJournal
<1>3. step \in {"refreshIntent", "refreshLineage"} => k = i
  <2> HIDE DEF i, step
  <2> QED BY DEF k
<1> DEFINE d == Desk(step, k)
<1>4. d.step = step /\ d.i = k BY DeskNamed, Zenon
<1> HIDE DEF step, k, d
<1>5. step # "conflict" => DeskAt(d, journal, intents)
  <2> SUFFICES ASSUME step # "conflict" PROVE DeskAt(d, journal, intents) OBVIOUS
  <2>1. CASE step \in SteadySteps BY <1>4, <2>1, SteadyDesk, Zenon
  <2>2. CASE step \in {"refreshIntent", "refreshLineage"} /\ RefreshJournal(journal)
    BY <1>3, <1>4, <2>2 DEF DeskAt
  <2>3. CASE step = "rejectFinal" /\ journal.kind = "REVIEW"
    BY <1>4, <2>3 DEF DeskAt
  <2>4. CASE step = "drop" /\ journal.kind \in {"REVIEW", "USER_ACTION"} /\ ~ RefreshJournal(journal)
    BY <1>4, <2>4 DEF DeskAt
  <2> QED BY <1>2, <2>1, <2>2, <2>3, <2>4
<1> QED BY <1>1, <1>5, DeskFailsLines, DeskSkipLines, Zenon DEF d

LEMMA DropLines ==
  ASSUME Known, Drop
  PROVE LineInv'
<1> DEFINE g == [global EXCEPT !.journal = NoJournal]
<1>1. DeskStep(PutGlobal(g), "none") BY Zenon DEF Drop
<1>2. journal.kind \in {"REVIEW", "USER_ACTION"} /\ ~ RefreshJournal(journal)
  BY DEF Drop, Known, LineInv, DeskAt
<1>3. g.journal = NoJournal /\ g.lease = lease /\ g.index = global.index
  BY Shapes, Zenon DEF Known, TypeInv
<1> HIDE DEF g
<1>4. JournalSafe(NoJournal)
  BY <1>2, NoRefresh, SafeJournals, Zenon DEF Known, LineInv
<1>5. Aside(lease)
  <2>1. journal.kind # "PROPOSAL" /\ journal # NoJournal
    BY <1>2 DEF NoJournal
  <2> QED BY <2>1, Zenon DEF Aside
<1> QED BY <1>1, <1>3, <1>4, <1>5, SameLease, FinalLines, Zenon DEF Known, LineInv

LEMMA MutatingLines ==
  ASSUME Known, Mutating
  PROVE LineInv'
  BY RefreshLineageLines, RefreshIntentLines, RefreshFinalLines, DismissIntentLines,
     DismissFinalLines, RejectLineageLines, RejectFinalLines, RecoverDeskLines, DropLines,
     Zenon DEF Mutating

----
(* Inspections, crashes and restarts. *)

LEMMA WatchLines ==
  ASSUME Known, UNCHANGED durable, worker' = worker, desk' = desk
  PROVE LineInv'
<1>1. Nothing BY Zenon DEF Nothing
<1> QED BY <1>1, StandsStill, Zenon DEF Known, LineInv

LEMMA InspectLines ==
  ASSUME Known, NEW b \in Behaviour, NEW view \in Views, Inspect(b, view)
  PROVE LineInv'
<1>1. UNCHANGED durable /\ worker' = worker /\ desk' = desk
  BY Zenon DEF Inspect
<1> QED BY <1>1, WatchLines, Zenon

LEMMA RecordInspectionLines ==
  ASSUME Known, RecordInspection
  PROVE LineInv'
<1>1. PICK g \in glance :
        /\ IF lineages[g.b] = g.seen /\ LastOf(g.seen).failure # FailureOf(g.view)
           THEN PutLineage(g.b, [g.seen EXCEPT
                    !.revision = @ + 1, !.proposals[Len(g.seen.proposals)].failure = FailureOf(g.view)])
           ELSE Nothing
        /\ worker' = worker /\ desk' = desk
  BY Zenon DEF RecordInspection
<1>2. g \in Glance /\ g.seen # NoLineage
  BY Zenon DEF Known, TypeInv, GlanceOK
<1>3. g.b \in Behaviour BY <1>2 DEF Glance
<1>4. CASE Nothing BY <1>1, <1>4, WatchLines, Zenon DEF Nothing
<1>5. CASE lineages[g.b] = g.seen /\ LastOf(g.seen).failure # FailureOf(g.view)
  <2> DEFINE failure == FailureOf(g.view)
             line == lineages[g.b]
             new == [line EXCEPT
                       !.revision = @ + 1, !.proposals[Len(line.proposals)].failure = failure]
  <2>1. PutLineage(g.b, new) BY <1>1, <1>5
  <2>2. LineOK(line) /\ line # NoLineage
    BY <1>2, <1>3, <1>5, Zenon DEF Known, TypeInv, DurableOK
  <2>3. /\ new.state = line.state /\ new.owner = line.owner
        /\ new.revision = line.revision + 1 /\ LastOwner(new) = LastOwner(line)
    <3> HIDE DEF failure, line
    <3> QED BY <2>2, MarkedLineKeeps
  <2> HIDE DEF new
  <2>4. LineSafe(g.b, new) BY <1>3, <2>2, <2>3, KeptLineSafe, Zenon
  <2>5. LinesOK'
    BY <1>3, <2>1, <2>4, LineageLines, Zenon DEF Known, LineInv
  <2>6. BodyAt(worker, global', intents', lineages')
    BY <1>3, <2>1, <2>3, LineBody, Zenon
  <2>7. DeskAt(desk, journal', intents')
    <3>1. intents' = intents /\ journal' = journal
      BY <2>1, Zenon DEF PutLineage, journal
    <3> QED BY <3>1, Zenon DEF Known, LineInv
  <2> QED BY <1>1, <2>5, <2>6, <2>7, Zenon DEF LineInv
<1> QED BY <1>1, <1>4, <1>5, Zenon

LEMMA UserLines ==
  ASSUME Known, User
  PROVE LineInv'
  BY RefreshProposalLines, RejectProposalLines, RejectAgainLines, DismissLines, InspectLines,
     Zenon DEF User

LEMMA ProcessLines ==
  ASSUME Known, Crash \/ Restart
  PROVE LineInv'
<1> DEFINE start == [Idle EXCEPT !.pc = "start"]
           d == [NoDesk EXCEPT !.step = "recover"]
<1>1. /\ Nothing
      /\ worker' = Idle \/ worker' = start
      /\ desk' = NoDesk \/ desk' = d
  BY Zenon DEF Crash, Restart, Nothing
<1>2. start.pc = "start" BY DEF Idle
<1>3. d.step \in SteadySteps BY DEF NoDesk, SteadySteps
<1> HIDE DEF start, d
<1>4. start.pc \notin LinePcs BY <1>2, OffLineNames
<1>5. BodyAt(worker', global', intents', lineages')
  BY <1>1, <1>4, IdleOffLine, OffLine, Zenon
<1>6. DeskAt(desk', journal', intents')
  BY <1>1, <1>3, NoDeskAt, SteadyDesk, Zenon
<1> QED BY <1>1, <1>5, <1>6, StandsStill, Zenon DEF LineInv

LEMMA InitLines == Init => LineInv
<1> SUFFICES ASSUME Init PROVE LineInv OBVIOUS
<1>1. /\ lease = NoLease /\ journal = NoJournal
      /\ \A i \in Intent : intents[i].stage = "WAITING"
      /\ \A b \in Behaviour : lineages[b] = NoLineage
      /\ worker = Idle /\ desk = NoDesk
  BY DEF Init, lease, journal, NewIntent
<1>2. lease.state \notin BodyStates /\ lease.state # "PROPOSAL_COMMIT_AUTHORIZED"
  BY <1>1 DEF NoLease, BodyStates
<1>3. \A i \in Intent : intents[i].stage # "READY" BY <1>1
<1>4. LinesOK
  BY <1>1, <1>2, <1>3, NoRefresh, Zenon
  DEF LinesOK, ReadyLeased, LeaseStaged, LinesOwned, BodyOwned, RefreshOwned, ReadyOwns
<1> QED BY <1>1, <1>4, IdleOffLine, NoDeskAt, Zenon DEF LineInv

LEMMA NextLines == Known /\ [Next]_vars => LineInv'
<1> SUFFICES ASSUME Known, [Next]_vars PROVE LineInv' OBVIOUS
<1>1. CASE Next
  BY <1>1, WorkerLines, MutatingLines, RecordInspectionLines, UserLines, ProcessLines,
     Zenon DEF Next
<1>2. CASE UNCHANGED vars
  <2>1. UNCHANGED durable /\ worker' = worker /\ desk' = desk
    BY <1>2, Zenon DEF vars
  <2> QED BY <2>1, WatchLines, Zenon
<1> QED BY <1>1, <1>2

(* The lineages, the places of the worker that puts a proposal and of the desk that
   refreshes or rejects one are together inductive, beside the fence and the
   holders (#putLineage, #finalizeProposalBody, #rollbackProposal and #activate
   of generation-worker.ts with the writes of v2-proposal-refresh.ts and
   v2-proposal-review.ts).                                                   *)
THEOREM LinesInvariant == Spec => [](TypeInv /\ Fenced /\ HolderInv /\ LineInv)
<1>1. Init => LineInv BY InitLines
<1>2. TypeInv /\ Fenced /\ HolderInv /\ LineInv /\ [Next]_vars => LineInv'
  BY NextLines, Zenon DEF Known
<1>3. Spec => [](TypeInv /\ Fenced)
  BY InitType, NextType, FenceInvariant, PTL DEF Spec
<1> QED BY <1>1, <1>2, <1>3, HoldersInvariant, PTL DEF Spec

(* Once nothing of it is in flight, an intent that is PROPOSAL_READY owns the
   newest proposal of its behaviour's lineage and the ACTIVE index entry, for any
   number of intents and behaviours, crashes, faults and mutations of the user
   between any two writes: an inspection that moved the lineage under the worker
   (generation-worker.ts compares it whole) does not take the proposal away
   from an intent that is finished, and a refresh takes it from its own only. *)
THEOREM ReadyOwned == Spec => []ReadyOwnsProposal
<1>1. LineInv => ReadyOwnsProposal
  <2> SUFFICES ASSUME LineInv, NEW i \in Intent,
                      intents[i].stage = "READY", lease.i # i, journal = NoJournal
               PROVE  /\ Line(i).state \in {"ACTIVE_PROPOSAL", "TERMINAL"}
                      /\ LastOwner(Line(i)) = Own(i)
                      /\ IndexOf(i) = [owner |-> i, state |-> "ACTIVE"]
    BY Zenon DEF ReadyOwnsProposal
  <2>1. OwnedBy(i, Line(i)) /\ IndexOf(i) = [owner |-> i, state |-> "ACTIVE"]
    BY Zenon DEF LineInv, LinesOK, ReadyOwns
  <2>2. ~ RefreshJournal(journal) BY NoRefresh, Zenon
  <2> QED BY <2>1, <2>2, Zenon DEF OwnedBy
<1> QED BY <1>1, LinesInvariant, PTL

====
