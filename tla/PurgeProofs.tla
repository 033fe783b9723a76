----------------------------- MODULE PurgeProofs -----------------------------
(* Theorems about Purge, for every value of its constants.                  *)
EXTENDS Purge, WellFoundedInduction, TLAPS

----
(* First and Last. *)

Before == {p \in Nat \X Nat : p[1] < p[2]}

LEMMA BeforeIsWellFounded == IsWellFoundedOn(Before, Nat)
<1>1. OpToRel(<, Nat) = Before BY Zenon DEF OpToRel, Before
<1> QED BY <1>1, NatLessThanWellFounded, Zenon

(* A set of naturals that is not empty has a first member. *)
LEMMA FirstIsMember ==
  ASSUME NEW S \in SUBSET Nat, S # {}
  PROVE First(S) \in S /\ \A m \in S : First(S) <= m
<1>1. PICK n \in S : \A m \in S : ~ <<m, n>> \in Before
  BY BeforeIsWellFounded, WFMin, Zenon
<1>2. \A m \in S : n <= m
  <2> SUFFICES ASSUME NEW m \in S PROVE n <= m OBVIOUS
  <2>1. m < n => <<m, n>> \in Before BY Zenon DEF Before
  <2>2. m \in Nat /\ n \in Nat OBVIOUS
  <2> QED BY <1>1, <2>1, <2>2
<1> QED BY <1>2, Zenon DEF First

(* A bounded one has a last member: the first of the distances to the bound. *)
LEMMA LastIsMember ==
  ASSUME NEW S \in SUBSET (0 .. MaxTurn), S # {}
  PROVE Last(S) \in S /\ \A m \in S : Last(S) >= m
<1> DEFINE D == {MaxTurn - m : m \in S}
<1>1. D \in SUBSET Nat /\ D # {}
  <2>1. \A m \in S : m \in Nat /\ m <= MaxTurn BY BoundsAssumption
  <2>2. \A m \in S : MaxTurn - m \in Nat BY <2>1, BoundsAssumption
  <2> QED BY <2>2
<1>2. First(D) \in D /\ \A d \in D : First(D) <= d
  BY <1>1, FirstIsMember, Zenon
<1>3. PICK n \in S : First(D) = MaxTurn - n BY <1>2
<1>4. \A m \in S : n >= m
  <2> SUFFICES ASSUME NEW m \in S PROVE n >= m OBVIOUS
  <2>1. First(D) <= MaxTurn - m BY <1>2
  <2>2. MaxTurn - n <= MaxTurn - m BY <1>3, <2>1
  <2>3. m \in Nat /\ n \in Nat /\ MaxTurn \in Nat BY BoundsAssumption
  <2> HIDE DEF D
  <2> QED BY <2>2, <2>3
<1> QED BY <1>4, Zenon DEF Last

LEMMA TurnsArePositive == Turn \subseteq 0 .. MaxTurn /\ Turn \subseteq Nat
  BY BoundsAssumption DEF Turn

----
(* The invariant: the types; a clock that stays behind the previews that are *)
(* left, which bounds it; an operation that begins has its preview; one that *)
(* is past its first write has its journal; and what is quiet under it. *)
ClockIsBehind == \A n \in Preview : previews[n].state = "NONE" => clock <= n
BegunIsPreviewed == op.pc = "begin" => op.by \in Preview
OpIsJournalled == op.pc \notin {"off", "begin"} => Purging

TypeInv == TypeOK /\ ClockIsBehind /\ BegunIsPreviewed
IInv == TypeInv /\ OpIsJournalled /\ PurgeIsQuiet


(* The type invariant in parts, each of which an action disturbs or not. *)
ClockTyped == clock \in Time \ {0}
LogTyped == ended \in [Turn -> Time]
AtTyped == at \in [RowKey -> Time]
StateTyped == state \in [batch : [Id -> BatchStates], intent : [Id -> IntentStates]]
CursorTyped ==
    cursor \in [observed : 0 .. MaxTurn, detected : 0 .. MaxTurn, active : Id \cup {NoId}]
GlobalTyped == lease \in Id \cup {NoId} /\ index \subseteq Id /\ mutation \in BOOLEAN
JournalTyped ==
    journal \in [by : 0 .. MaxPreviews, hide : Time,
                 phase : {"NONE", "QUIESCED", "DELETING", "VALIDATING"}]
PhaseTyped == phase \in {"down", "purge", "recover", "up"}
CoordTyped ==
    coord \in [pc : {"off", "stored", "route", "put"}, id : Id \cup {NoId},
               at : Time, seen : 0 .. MaxTurn]
DetTyped ==
    det \in [pc : {"off", "called", "commit", "release", "advance"}, id : Id \cup {NoId}]
PreviewsTyped ==
    previews \in [Preview -> [hide : Time, rows : SUBSET RowKey,
                              state : {"NONE", "OFFERED", "COMPLETED", "LOST"}]]
OpTyped ==
    op \in [pc : {"off", "begin", "mark", "delete", "validate", "check", "final"},
            by : 0 .. MaxPreviews, hide : Time, left : SUBSET RowKey, confirm : BOOLEAN]
PromisedTyped ==
    promised \in [recorded : SUBSET RowKey, passed : SUBSET RowKey]
BoundsTyped == failed \in BOOLEAN /\ crashes \in 0 .. MaxCrashes /\ faults \in 0 .. MaxFaults

LEMMA TypeParts ==
  TypeInv <=> /\ ClockTyped /\ LogTyped /\ AtTyped /\ StateTyped /\ CursorTyped
              /\ GlobalTyped /\ JournalTyped /\ PhaseTyped /\ CoordTyped /\ DetTyped
              /\ PreviewsTyped /\ OpTyped /\ PromisedTyped /\ BoundsTyped /\ ClockIsBehind
              /\ BegunIsPreviewed
  BY Zenon
  DEF TypeInv, TypeOK, ClockTyped, LogTyped, AtTyped, StateTyped, CursorTyped, GlobalTyped,
      JournalTyped, PhaseTyped, CoordTyped, DetTyped, PreviewsTyped, OpTyped, PromisedTyped,
      BoundsTyped

LEMMA TypePartsPrime ==
  TypeInv' <=> /\ ClockTyped' /\ LogTyped' /\ AtTyped' /\ StateTyped' /\ CursorTyped'
               /\ GlobalTyped' /\ JournalTyped' /\ PhaseTyped' /\ CoordTyped' /\ DetTyped'
               /\ PreviewsTyped' /\ OpTyped' /\ PromisedTyped' /\ BoundsTyped' /\ ClockIsBehind'
               /\ BegunIsPreviewed'
  BY TypeParts, PTL

(* What an action leaves alone keeps its type. *)
LEMMA Kept ==
  ASSUME TypeInv
  PROVE  /\ UNCHANGED log => ClockTyped' /\ LogTyped'
         /\ UNCHANGED at => AtTyped'
         /\ UNCHANGED state => StateTyped'
         /\ UNCHANGED cursor => CursorTyped'
         /\ UNCHANGED <<lease, index, mutation>> => GlobalTyped'
         /\ UNCHANGED journal => JournalTyped'
         /\ UNCHANGED phase => PhaseTyped'
         /\ UNCHANGED coord => CoordTyped'
         /\ UNCHANGED det => DetTyped'
         /\ UNCHANGED previews => PreviewsTyped'
         /\ UNCHANGED <<clock, previews>> => ClockIsBehind'
         /\ UNCHANGED op => OpTyped' /\ BegunIsPreviewed'
         /\ UNCHANGED promised => PromisedTyped'
         /\ UNCHANGED <<failed, crashes, faults>> => BoundsTyped'
  BY TypeParts, Zenon
  DEF log, ClockTyped, LogTyped, AtTyped, StateTyped, CursorTyped, GlobalTyped,
      JournalTyped, PhaseTyped, CoordTyped, DetTyped, PreviewsTyped, ClockIsBehind, OpTyped,
      BegunIsPreviewed, PromisedTyped, BoundsTyped

(* The tuples of variables that an action leaves alone. *)
LEMMA Tuples ==
  /\ UNCHANGED rowvars <=> UNCHANGED at /\ UNCHANGED state
  /\ UNCHANGED global <=> /\ UNCHANGED cursor /\ UNCHANGED journal
                          /\ UNCHANGED <<lease, index, mutation>>
  /\ UNCHANGED workers <=> UNCHANGED phase /\ UNCHANGED coord /\ UNCHANGED det
  /\ UNCHANGED service <=> /\ UNCHANGED previews /\ UNCHANGED op
                           /\ UNCHANGED failed /\ UNCHANGED promised
  /\ UNCHANGED bounds <=> UNCHANGED crashes /\ UNCHANGED faults
  /\ UNCHANGED <<failed, crashes, faults>> <=> UNCHANGED failed /\ UNCHANGED bounds
  /\ UNCHANGED <<clock, previews>> <=> UNCHANGED clock /\ UNCHANGED previews
  /\ UNCHANGED log <=> UNCHANGED clock /\ UNCHANGED ended
  /\ UNCHANGED <<lease, index, mutation>> <=>
        UNCHANGED lease /\ UNCHANGED index /\ UNCHANGED mutation
  BY Zenon DEF rowvars, global, workers, service, bounds, log

(* The records that say that nothing is under way. *)
LEMMA MomentsOfTime == 0 \in Time /\ 1 \in Time
  BY BoundsAssumption DEF Time

LEMMA NoJournalTyped ==
  NoJournal \in [by : 0 .. MaxPreviews, hide : Time,
                 phase : {"NONE", "QUIESCED", "DELETING", "VALIDATING"}]
  BY BoundsAssumption, MomentsOfTime DEF NoJournal

LEMMA NoCoordTyped ==
  NoCoord \in [pc : {"off", "stored", "route", "put"}, id : Id \cup {NoId},
               at : Time, seen : 0 .. MaxTurn]
  BY BoundsAssumption, MomentsOfTime DEF NoCoord

LEMMA NoDetTyped ==
  NoDet \in [pc : {"off", "called", "commit", "release", "advance"}, id : Id \cup {NoId}]
  BY DEF NoDet

LEMMA NoOpTyped ==
  NoOp \in [pc : {"off", "begin", "mark", "delete", "validate", "check", "final"},
            by : 0 .. MaxPreviews, hide : Time, left : SUBSET RowKey, confirm : BOOLEAN]
  BY BoundsAssumption, MomentsOfTime DEF NoOp

LEMMA NoPreviewTyped ==
  NoPreview \in [hide : Time, rows : SUBSET RowKey,
                 state : {"NONE", "OFFERED", "COMPLETED", "LOST"}]
  BY MomentsOfTime DEF NoPreview

----
(* The session, the coordinator and the detector keep the types. *)

LEMMA InitTyped == Init => TypeInv
<1> SUFFICES ASSUME Init PROVE TypeInv OBVIOUS
<1>1. ClockTyped /\ LogTyped /\ AtTyped /\ ClockIsBehind
  BY MomentsOfTime, BoundsAssumption
  DEF Init, ClockTyped, LogTyped, AtTyped, ClockIsBehind, Preview
<1>2. StateTyped /\ CursorTyped
  BY BoundsAssumption DEF Init, StateTyped, CursorTyped, BatchStates, IntentStates
<1>3. GlobalTyped BY DEF Init, GlobalTyped
<1>4. JournalTyped /\ PhaseTyped /\ CoordTyped /\ DetTyped /\ OpTyped
  BY NoJournalTyped, NoCoordTyped, NoDetTyped, NoOpTyped
  DEF Init, JournalTyped, PhaseTyped, CoordTyped, DetTyped, OpTyped
<1>8. BegunIsPreviewed BY DEF Init, NoOp, BegunIsPreviewed
<1>5. PreviewsTyped BY NoPreviewTyped, Zenon DEF Init, PreviewsTyped
<1>6. PromisedTyped BY DEF Init, PromisedTyped
<1>7. BoundsTyped
  <2>1. failed \in BOOLEAN BY Zenon DEF Init
  <2>2. crashes \in 0 .. MaxCrashes /\ faults \in 0 .. MaxFaults
    BY BoundsAssumption DEF Init
  <2> QED BY <2>1, <2>2, Zenon DEF BoundsTyped
<1> QED BY <1>1, <1>2, <1>3, <1>4, <1>5, <1>6, <1>7, <1>8, TypeParts, Zenon

LEMMA TurnEndsTyped == TypeInv /\ TurnEnds => TypeInv'
<1> SUFFICES ASSUME TypeInv, TurnEnds PROVE TypeInv' OBVIOUS
<1>1. ClockTyped' /\ LogTyped'
  BY TypeParts DEF TurnEnds, ClockTyped, LogTyped
<1> QED BY <1>1, Kept, Tuples, TypePartsPrime, Zenon DEF TurnEnds

LEMMA RecordObservationTyped == TypeInv /\ RecordObservation => TypeInv'
<1> SUFFICES ASSUME TypeInv, RecordObservation PROVE TypeInv' OBVIOUS
<1>1. AtTyped' BY TypeParts DEF RecordObservation, AtTyped, LogTyped
<1>2. CoordTyped'
  BY NoCoordTyped, TurnsArePositive DEF RecordObservation, CoordTyped
<1> QED BY <1>1, <1>2, Kept, Tuples, TypePartsPrime, Zenon DEF RecordObservation

LEMMA FlushIdleTyped == TypeInv /\ FlushIdle => TypeInv'
<1> SUFFICES ASSUME TypeInv, FlushIdle PROVE TypeInv' OBVIOUS
<1>1. CoordTyped'
  BY NoCoordTyped, TypeParts DEF FlushIdle, CoordTyped, CursorTyped
<1> QED BY <1>1, Kept, Tuples, TypePartsPrime, Zenon DEF FlushIdle

LEMMA WriteCursorTyped ==
  ASSUME TypeInv, NEW a \in Id \cup {NoId}, WriteCursor(a)
  PROVE CursorTyped' /\ CoordTyped'
  BY TypeParts, NoCoordTyped DEF WriteCursor, CursorTyped, CoordTyped

(* The turns that wait make a range. *)
LEMMA PendingIsRange ==
  ASSUME NEW S \in SUBSET Turn, S # {}
  PROVE <<First(S), Last(S)>> \in Id
<1>1. S \in SUBSET Nat /\ S \in SUBSET (0 .. MaxTurn)
  BY TurnsArePositive
<1>2. First(S) \in S /\ \A m \in S : First(S) <= m
  BY <1>1, FirstIsMember, Zenon
<1>3. Last(S) \in S BY <1>1, LastIsMember, Zenon
<1> QED BY <1>2, <1>3 DEF Id

LEMMA FreezeOneTyped == TypeInv /\ FreezeOne => TypeInv'
<1> SUFFICES ASSUME TypeInv, FreezeOne PROVE TypeInv' OBVIOUS
<1> DEFINE pending == {n \in Stored : n > cursor.detected}
           id == <<First(pending), Last(pending)>>
<1>1. pending # {} => id \in Id
  <2>1. pending \in SUBSET Turn BY Zenon DEF Stored
  <2> QED BY <2>1, PendingIsRange, Zenon
<1>2. UNCHANGED <<log, rowvars, phase, det, service, bounds>>
  BY Zenon DEF FreezeOne
<1>3. \/ WriteCursor(cursor.active)
      \/ coord' = NoCoord /\ UNCHANGED global
      \/ WriteCursor(NoId)
      \/ /\ pending # {}
         /\ coord' = [coord EXCEPT !.pc = "route", !.id = id, !.at = clock]
         /\ UNCHANGED global
      \/ pending # {} /\ WriteCursor(id)
  BY Zenon DEF FreezeOne
<1> HIDE DEF pending, id
<1>4. cursor.active \in Id \cup {NoId} BY TypeParts DEF CursorTyped
<1>5. CursorTyped' /\ CoordTyped' /\ UNCHANGED <<lease, index, mutation>> /\ UNCHANGED journal
  <2>1. CASE \E a \in Id \cup {NoId} : WriteCursor(a)
    BY <2>1, WriteCursorTyped, Tuples, Zenon DEF WriteCursor
  <2>2. CASE coord' = NoCoord /\ UNCHANGED global
    BY <2>2, NoCoordTyped, Kept, Tuples, Zenon DEF CoordTyped
  <2>3. CASE /\ pending # {}
             /\ coord' = [coord EXCEPT !.pc = "route", !.id = id, !.at = clock]
             /\ UNCHANGED global
    <3>1. CoordTyped'
      BY <2>3, <1>1, TypeParts DEF CoordTyped, ClockTyped
    <3> QED BY <3>1, <2>3, Kept, Tuples, Zenon
  <2> QED BY <1>1, <1>3, <1>4, <2>1, <2>2, <2>3, Zenon
<1> QED BY <1>2, <1>5, Kept, Tuples, TypePartsPrime, Zenon

LEMMA RouteCapturedTyped == TypeInv /\ RouteCaptured => TypeInv'
<1> SUFFICES ASSUME TypeInv, RouteCaptured PROVE TypeInv' OBVIOUS
<1>1. AtTyped' /\ CoordTyped'
  BY TypeParts DEF RouteCaptured, AtTyped, CoordTyped
<1>2. StateTyped'
  BY TypeParts DEF RouteCaptured, StateTyped, BatchStates
<1> QED BY <1>1, <1>2, Kept, Tuples, TypePartsPrime, Zenon DEF RouteCaptured

LEMMA BindFrozenTyped == TypeInv /\ BindFrozen => TypeInv'
<1> SUFFICES ASSUME TypeInv, BindFrozen PROVE TypeInv' OBVIOUS
<1>1. coord.id \in Id \cup {NoId} BY TypeParts DEF CoordTyped
<1>2. CursorTyped' /\ CoordTyped'
  BY <1>1, WriteCursorTyped, Zenon DEF BindFrozen
<1> QED BY <1>2, Kept, Tuples, TypePartsPrime, Zenon DEF BindFrozen, WriteCursor

LEMMA ClaimNextTyped ==
  ASSUME TypeInv, NEW id \in Id, ClaimNext(id)
  PROVE TypeInv'
<1>1. StateTyped' BY TypeParts DEF ClaimNext, StateTyped, BatchStates
<1>2. DetTyped' BY DEF ClaimNext, DetTyped
<1> QED BY <1>1, <1>2, Kept, Tuples, TypePartsPrime, Zenon DEF ClaimNext

LEMMA CallReturnsTyped == TypeInv /\ CallReturns => TypeInv'
<1> SUFFICES ASSUME TypeInv, CallReturns PROVE TypeInv' OBVIOUS
<1>1. AtTyped' BY TypeParts DEF CallReturns, AtTyped, ClockTyped
<1>2. StateTyped'
  BY TypeParts DEF CallReturns, StateTyped, BatchStates, IntentStates
<1>3. DetTyped' BY TypeParts DEF CallReturns, DetTyped
<1> QED BY <1>1, <1>2, <1>3, Kept, Tuples, TypePartsPrime, Zenon DEF CallReturns

LEMMA CommitReadyTyped == TypeInv /\ CommitReady => TypeInv'
<1> SUFFICES ASSUME TypeInv, CommitReady PROVE TypeInv' OBVIOUS
<1>1. StateTyped' BY TypeParts DEF CommitReady, StateTyped, BatchStates
<1>2. DetTyped' BY TypeParts DEF CommitReady, DetTyped
<1> QED BY <1>1, <1>2, Kept, Tuples, TypePartsPrime, Zenon DEF CommitReady

LEMMA RepairReadyIntentsTyped == TypeInv /\ RepairReadyIntents => TypeInv'
<1> SUFFICES ASSUME TypeInv, RepairReadyIntents PROVE TypeInv' OBVIOUS
<1>1. StateTyped'
  BY TypeParts DEF RepairReadyIntents, StateTyped, IntentStates
<1>2. DetTyped'
  BY NoDetTyped, TypeParts DEF RepairReadyIntents, DetTyped
<1> QED BY <1>1, <1>2, Kept, Tuples, TypePartsPrime, Zenon DEF RepairReadyIntents

LEMMA AdvanceCursorTyped == TypeInv /\ AdvanceCursor => TypeInv'
<1> SUFFICES ASSUME TypeInv, AdvanceCursor PROVE TypeInv' OBVIOUS
<1>1. CursorTyped'
  <2>1. det.id \in Id => det.id[2] \in 0 .. MaxTurn
    BY TurnsArePositive DEF Id
  <2>2. det.id = NoId => ~ det.id[2] > cursor.detected
    BY TypeParts, BoundsAssumption DEF NoId, CursorTyped
  <2>3. det.id \in Id \cup {NoId} BY TypeParts DEF DetTyped
  <2> QED BY <2>1, <2>2, <2>3, TypeParts DEF AdvanceCursor, CursorTyped
<1>2. DetTyped' BY NoDetTyped DEF AdvanceCursor, DetTyped
<1>3. UNCHANGED <<lease, index, mutation>> /\ UNCHANGED journal
  BY DEF AdvanceCursor
<1> QED BY <1>1, <1>2, <1>3, Kept, Tuples, TypePartsPrime, Zenon DEF AdvanceCursor

----
(* Generation, the user and the service keep them. *)

LEMMA ReviewingTyped == TypeInv /\ Reviewing => TypeInv'
<1> SUFFICES ASSUME TypeInv, Reviewing PROVE TypeInv' OBVIOUS
<1>1. ASSUME NEW id \in Id, AcquireLease(id) PROVE TypeInv'
  <2>1. GlobalTyped' BY <1>1, TypeParts DEF AcquireLease, GlobalTyped
  <2> QED BY <1>1, <2>1, Kept, Tuples, TypePartsPrime, Zenon DEF AcquireLease
<1>2. CASE GenerationEnds
  <2>1. AtTyped'
    BY <1>2, TypeParts DEF GenerationEnds, AtTyped, ClockTyped
  <2>2. GlobalTyped' BY <1>2, TypeParts DEF GenerationEnds, GlobalTyped
  <2> QED BY <1>2, <2>1, <2>2, Kept, Tuples, TypePartsPrime, Zenon DEF GenerationEnds
<1>3. CASE OpenMutation
  <2>1. GlobalTyped' BY <1>3, TypeParts DEF OpenMutation, GlobalTyped
  <2> QED BY <1>3, <2>1, Kept, Tuples, TypePartsPrime, Zenon DEF OpenMutation
<1>4. CASE CloseMutation
  <2>1. GlobalTyped' BY <1>4, TypeParts DEF CloseMutation, GlobalTyped
  <2> QED BY <1>4, <2>1, Kept, Tuples, TypePartsPrime, Zenon DEF CloseMutation
<1> QED BY <1>1, <1>2, <1>3, <1>4, Zenon DEF Reviewing

(* Operations that throw or begin. *)
LEMMA ThrowTyped ==
  ASSUME TypeInv, Throw
  PROVE OpTyped' /\ BegunIsPreviewed' /\ PhaseTyped' /\ failed' \in BOOLEAN
<1>1. OpTyped' BY NoOpTyped, Zenon DEF Throw, OpTyped
<1>4. BegunIsPreviewed' BY DEF Throw, NoOp, BegunIsPreviewed
<1>2. PhaseTyped' BY DEF Throw, PhaseTyped
<1>3. failed' \in BOOLEAN BY Zenon DEF Throw, Up
<1> QED BY <1>1, <1>2, <1>3, <1>4, Zenon

LEMMA MakePreviewTyped ==
  ASSUME TypeInv, NEW n \in Preview, MakePreview(n)
  PROVE TypeInv'
<1>1. n \in 1 .. MaxPreviews /\ MaxPreviews \in Nat
  BY BoundsAssumption DEF Preview
<1>2. clock \in Nat /\ 1 <= clock /\ clock <= n
  BY <1>1, TypeParts, MomentsOfTime DEF MakePreview, ClockTyped, ClockIsBehind, Time
<1>3. ClockTyped' BY <1>1, <1>2 DEF MakePreview, ClockTyped, Time
<1>4. Candidates(clock) \in SUBSET RowKey BY Zenon DEF Candidates, Rows
<1>5. PreviewsTyped'
  BY <1>4, TypeParts DEF MakePreview, PreviewsTyped, ClockTyped
<1>6. ClockIsBehind'
  <2> SUFFICES ASSUME NEW m \in Preview, previews'[m].state = "NONE"
               PROVE clock' <= m
    BY DEF ClockIsBehind
  <2>1. m # n BY TypeParts DEF MakePreview, PreviewsTyped
  <2>2. previews[m].state = "NONE"
    BY <2>1, TypeParts DEF MakePreview, PreviewsTyped
  <2>3. ~ m < n BY <2>2 DEF MakePreview
  <2>4. n + 1 <= m BY <2>1, <2>3, <1>1 DEF Preview
  <2>5. clock' <= n + 1 BY <1>1, <1>2 DEF MakePreview
  <2> QED BY <2>4, <2>5, <1>1, <1>2 DEF MakePreview, Preview
<1>7. LogTyped' BY TypeParts DEF MakePreview, LogTyped
<1>8. /\ UNCHANGED rowvars /\ UNCHANGED global /\ UNCHANGED workers /\ UNCHANGED op
      /\ UNCHANGED promised /\ UNCHANGED <<failed, crashes, faults>>
  BY Tuples, Zenon DEF MakePreview
<1> QED BY <1>3, <1>5, <1>6, <1>7, <1>8, Kept, Tuples, TypePartsPrime, Zenon

LEMMA ConfirmTyped ==
  ASSUME TypeInv, NEW n \in Preview, Confirm(n)
  PROVE TypeInv'
<1>1. n \in 0 .. MaxPreviews /\ previews[n].hide \in Time
  BY TypeParts, BoundsAssumption DEF Preview, PreviewsTyped
<1>2. OpTyped' BY <1>1, NoOpTyped DEF Confirm, OpTyped
<1>3. BegunIsPreviewed' BY DEF Confirm, NoOp, BegunIsPreviewed
<1> QED BY <1>2, <1>3, Kept, Tuples, TypePartsPrime, Zenon DEF Confirm

LEMMA ResumeJournalTyped == TypeInv /\ ResumeJournal => TypeInv'
<1> SUFFICES ASSUME TypeInv, ResumeJournal PROVE TypeInv' OBVIOUS
<1>1. OpTyped'
  BY NoOpTyped, TypeParts DEF ResumeJournal, OpTyped, JournalTyped
<1>2. BegunIsPreviewed' BY DEF ResumeJournal, NoOp, BegunIsPreviewed
<1> QED BY <1>1, <1>2, Kept, Tuples, TypePartsPrime, Zenon DEF ResumeJournal

(* At its first write an operation names the preview it was confirmed for. *)
LEMMA BeginTyped == TypeInv /\ Begin => TypeInv'
<1> SUFFICES ASSUME TypeInv, Begin PROVE TypeInv' OBVIOUS
<1>1. /\ UNCHANGED log /\ UNCHANGED rowvars /\ UNCHANGED cursor
      /\ UNCHANGED <<lease, index, mutation>> /\ UNCHANGED coord /\ UNCHANGED det
      /\ UNCHANGED previews /\ UNCHANGED bounds
  BY Tuples, Zenon DEF Begin
<1>2. CASE MayBegin
  <2>1. JournalTyped'
    BY <1>2, TypeParts DEF Begin, JournalTyped, OpTyped
  <2>2. PromisedTyped'
    <3>1. op.by \in Preview
      BY TypeParts, Zenon DEF Begin, BegunIsPreviewed
    <3>2. previews[op.by].rows \in SUBSET RowKey
      BY <3>1, TypeParts DEF PreviewsTyped
    <3>3. Confirmed \in SUBSET RowKey BY <3>2, Zenon DEF Confirmed
    <3>4. promised' = [promised EXCEPT !.recorded = Confirmed]
      BY <1>2, Zenon DEF Begin
    <3> QED BY <3>3, <3>4, TypeParts DEF PromisedTyped
  <2>3. OpTyped' /\ BegunIsPreviewed'
    BY <1>2, TypeParts DEF Begin, OpTyped, BegunIsPreviewed
  <2> QED BY <1>1, <1>2, <2>1, <2>2, <2>3, Kept, Tuples, TypePartsPrime, Zenon DEF Begin
<1>3. CASE ~MayBegin
  <2>1. Throw /\ UNCHANGED <<journal, promised>>
    BY <1>3, Zenon DEF Begin
  <2>2. BoundsTyped'
    BY <1>1, <2>1, ThrowTyped, TypeParts, Zenon DEF BoundsTyped, bounds
  <2> QED BY <1>1, <2>1, <2>2, ThrowTyped, Kept, Tuples, TypePartsPrime, Zenon
<1> QED BY <1>2, <1>3

LEMMA MarkDeletingTyped == TypeInv /\ MarkDeleting => TypeInv'
<1> SUFFICES ASSUME TypeInv, MarkDeleting PROVE TypeInv' OBVIOUS
<1>1. JournalTyped' BY TypeParts DEF MarkDeleting, JournalTyped
<1>2. Candidates(op.hide) \in SUBSET RowKey
  BY Zenon DEF Candidates, Rows
<1>3. OpTyped' /\ BegunIsPreviewed'
  BY <1>2, TypeParts DEF MarkDeleting, OpTyped, BegunIsPreviewed
<1> QED BY <1>1, <1>3, Kept, Tuples, TypePartsPrime, Zenon DEF MarkDeleting

LEMMA DeleteRowTyped ==
  ASSUME TypeInv, NEW r \in RowKey, DeleteRow(r)
  PROVE TypeInv'
<1>1. AtTyped' BY TypeParts, MomentsOfTime DEF DeleteRow, AtTyped
<1>2. StateTyped'
  <2>1. CASE r[1] = "batch"
    BY <2>1, TypeParts DEF DeleteRow, StateTyped, BatchStates
  <2>2. CASE r[1] = "intent"
    BY <2>2, TypeParts DEF DeleteRow, StateTyped, IntentStates
  <2>3. CASE r[1] \notin {"batch", "intent"}
    BY <2>3, TypeParts, Zenon DEF DeleteRow, StateTyped
  <2> QED BY <2>1, <2>2, <2>3
<1>3. OpTyped' /\ BegunIsPreviewed'
  BY TypeParts DEF DeleteRow, OpTyped, BegunIsPreviewed
<1> QED BY <1>1, <1>2, <1>3, Kept, Tuples, TypePartsPrime, Zenon DEF DeleteRow

LEMMA MarkValidatingTyped == TypeInv /\ MarkValidating => TypeInv'
<1> SUFFICES ASSUME TypeInv, MarkValidating PROVE TypeInv' OBVIOUS
<1>1. JournalTyped' BY TypeParts DEF MarkValidating, JournalTyped
<1>2. OpTyped' /\ BegunIsPreviewed'
  BY TypeParts DEF MarkValidating, OpTyped, BegunIsPreviewed
<1> QED BY <1>1, <1>2, Kept, Tuples, TypePartsPrime, Zenon DEF MarkValidating

LEMMA CheckResidueTyped == TypeInv /\ CheckResidue => TypeInv'
<1> SUFFICES ASSUME TypeInv, CheckResidue PROVE TypeInv' OBVIOUS
<1>1. /\ UNCHANGED log /\ UNCHANGED rowvars /\ UNCHANGED global /\ UNCHANGED coord
      /\ UNCHANGED det /\ UNCHANGED previews /\ UNCHANGED promised /\ UNCHANGED bounds
  BY Tuples, Zenon DEF CheckResidue
<1>2. CASE Candidates(op.hide) = {}
  <2>1. OpTyped' /\ BegunIsPreviewed'
    BY <1>2, TypeParts DEF CheckResidue, OpTyped, BegunIsPreviewed, Rows
  <2> QED BY <1>1, <1>2, <2>1, Kept, Tuples, TypePartsPrime, Zenon DEF CheckResidue
<1>3. CASE Candidates(op.hide) # {}
  <2>1. Throw BY <1>3, Zenon DEF CheckResidue
  <2>2. BoundsTyped'
    BY <1>1, <2>1, ThrowTyped, TypeParts, Zenon DEF BoundsTyped, bounds
  <2> QED BY <1>1, <2>1, <2>2, ThrowTyped, Kept, Tuples, TypePartsPrime, Zenon
<1> QED BY <1>2, <1>3

LEMMA FinishTyped == TypeInv /\ Finish => TypeInv'
<1> SUFFICES ASSUME TypeInv, Finish PROVE TypeInv' OBVIOUS
<1>1. /\ UNCHANGED log /\ UNCHANGED rowvars /\ UNCHANGED lease /\ UNCHANGED mutation
      /\ UNCHANGED coord /\ UNCHANGED det /\ UNCHANGED bounds
  BY Tuples, Zenon DEF Finish
<1>2. CASE lease = NoId /\ ~mutation
  <2>1. JournalTyped' /\ OpTyped' /\ BegunIsPreviewed'
    BY <1>2, NoJournalTyped, NoOpTyped DEF Finish, JournalTyped, OpTyped, NoOp, BegunIsPreviewed
  <2>2. CursorTyped' BY <1>2, TypeParts DEF Finish, Cleared, CursorTyped
  <2>3. GlobalTyped' BY <1>1, <1>2, TypeParts DEF Finish, GlobalTyped
  <2>4. PromisedTyped' BY <1>2, TypeParts DEF Finish, PromisedTyped
  <2>5. PreviewsTyped' BY <1>2, TypeParts DEF Finish, PreviewsTyped
  <2>6. ClockIsBehind'
    <3>1. \A m \in Preview : previews'[m].state = "NONE" => previews[m].state = "NONE"
      BY <1>2, TypeParts DEF Finish, PreviewsTyped
    <3> QED BY <1>1, <3>1, TypeParts, Tuples, Zenon DEF ClockIsBehind
  <2>7. PhaseTyped' BY <1>2 DEF Finish, PhaseTyped
  <2>8. BoundsTyped'
    BY <1>1, <1>2, TypeParts, Zenon DEF Finish, BoundsTyped, bounds
  <2> QED BY <1>1, <2>1, <2>2, <2>3, <2>4, <2>5, <2>6, <2>7, <2>8, Kept, Tuples,
             TypePartsPrime, Zenon
<1>3. CASE ~ (lease = NoId /\ ~mutation)
  <2>1. Throw /\ UNCHANGED <<journal, cursor, index, promised, previews>>
    BY <1>3, Zenon DEF Finish
  <2>2. BoundsTyped'
    BY <1>1, <2>1, ThrowTyped, TypeParts, Zenon DEF BoundsTyped, bounds
  <2>3. /\ UNCHANGED journal /\ UNCHANGED cursor /\ UNCHANGED index
        /\ UNCHANGED promised /\ UNCHANGED previews
    BY <2>1
  <2> QED BY <1>1, <2>1, <2>2, <2>3, ThrowTyped, Kept, Tuples, TypePartsPrime, Zenon
<1> QED BY <1>2, <1>3

LEMMA WriteFailsTyped == TypeInv /\ WriteFails => TypeInv'
<1> SUFFICES ASSUME TypeInv, WriteFails PROVE TypeInv' OBVIOUS
<1>1. BoundsTyped'
  <2>1. faults' \in 0 .. MaxFaults /\ crashes' \in 0 .. MaxCrashes
    BY TypeParts, BoundsAssumption DEF WriteFails, BoundsTyped
  <2> QED BY <2>1, ThrowTyped, Zenon DEF WriteFails, BoundsTyped
<1> QED BY <1>1, ThrowTyped, Kept, Tuples, TypePartsPrime, Zenon DEF WriteFails

----
(* So do a stop, a start and the recoveries. *)

LEMMA StopTyped ==
  ASSUME TypeInv, Stop
  PROVE  /\ PhaseTyped' /\ CoordTyped' /\ DetTyped' /\ OpTyped' /\ BegunIsPreviewed'
         /\ PreviewsTyped' /\ ClockIsBehind' /\ failed' \in BOOLEAN
<1>1. PhaseTyped' /\ CoordTyped' /\ DetTyped' /\ OpTyped'
  BY NoCoordTyped, NoDetTyped, NoOpTyped DEF Stop, PhaseTyped, CoordTyped, DetTyped, OpTyped
<1>2. BegunIsPreviewed' BY DEF Stop, NoOp, BegunIsPreviewed
<1>3. PreviewsTyped'
  BY NoPreviewTyped, TypeParts DEF Stop, PreviewsTyped
<1>4. ClockIsBehind'
  <2>1. \A m \in Preview : previews'[m].state = "NONE" => previews[m].state = "NONE"
    BY NoPreviewTyped, TypeParts DEF Stop, PreviewsTyped
  <2> QED BY <2>1, TypeParts, Tuples, Zenon DEF Stop, ClockIsBehind
<1>5. failed' \in BOOLEAN BY Zenon DEF Stop
<1> QED BY <1>1, <1>2, <1>3, <1>4, <1>5, Zenon

LEMMA CrashTyped == TypeInv /\ Crash => TypeInv'
<1> SUFFICES ASSUME TypeInv, Crash PROVE TypeInv' OBVIOUS
<1>1. BoundsTyped'
  <2>1. faults' \in 0 .. MaxFaults /\ crashes' \in 0 .. MaxCrashes
    BY TypeParts, BoundsAssumption DEF Crash, BoundsTyped
  <2> QED BY <2>1, StopTyped, Zenon DEF Crash, BoundsTyped
<1>2. UNCHANGED log /\ UNCHANGED rowvars /\ UNCHANGED global /\ UNCHANGED promised
  BY Zenon DEF Crash, Stop
<1>3. Stop BY Zenon DEF Crash
<1> QED BY <1>1, <1>2, <1>3, StopTyped, Kept, Tuples, TypePartsPrime, Zenon

LEMMA ReopenTyped == TypeInv /\ Reopen => TypeInv'
<1> SUFFICES ASSUME TypeInv, Reopen PROVE TypeInv' OBVIOUS
<1>1. Stop /\ UNCHANGED bounds BY Zenon DEF Reopen
<1>2. UNCHANGED log /\ UNCHANGED rowvars /\ UNCHANGED global /\ UNCHANGED promised
  BY <1>1, Zenon DEF Stop
<1>3. BoundsTyped'
  BY <1>1, StopTyped, TypeParts, Zenon DEF BoundsTyped, bounds
<1> QED BY <1>1, <1>2, <1>3, StopTyped, Kept, Tuples, TypePartsPrime, Zenon

LEMMA StartTyped == TypeInv /\ Start => TypeInv'
<1> SUFFICES ASSUME TypeInv, Start PROVE TypeInv' OBVIOUS
<1>1. PhaseTyped' BY DEF Start, AfterActivation, PhaseTyped
<1> QED BY <1>1, Kept, Tuples, TypePartsPrime, Zenon DEF Start

LEMMA RecoverTyped == TypeInv /\ Recover => TypeInv'
<1> SUFFICES ASSUME TypeInv, Recover PROVE TypeInv' OBVIOUS
<1> DEFINE
      batch == [id \in Id |-> IF state.batch[id] = "DETECTION_CLAIMED"
                              THEN "NEEDS_ATTENTION" ELSE state.batch[id]]
      intent == [id \in Id |->
                    IF state.intent[id] # "DETECTOR_STAGED" THEN state.intent[id]
                    ELSE CASE batch[id] = "COMMITTED_READY" -> "RELEASED"
                           [] batch[id] \in Terminal \ {"COMMITTED_READY"} -> "ABSENT"
                           [] OTHER -> "DETECTOR_STAGED"]
      ends == {id[2] : id \in {i \in Id : batch[i] \in Terminal}}
      open == {id \in Id : batch[id] = "FROZEN"}
<1>1. /\ UNCHANGED log /\ UNCHANGED journal /\ UNCHANGED coord /\ UNCHANGED det
      /\ UNCHANGED service /\ UNCHANGED bounds
  BY Zenon DEF Recover
<1>2. CASE phase' = "down" /\ UNCHANGED <<rowvars, cursor, lease, index, mutation>>
  <2>1. PhaseTyped' BY <1>2 DEF PhaseTyped
  <2>2. UNCHANGED rowvars /\ UNCHANGED cursor /\ UNCHANGED <<lease, index, mutation>>
    BY <1>2, Zenon
  <2> QED BY <1>1, <2>1, <2>2, Kept, Tuples, TypePartsPrime, Zenon
<1>3. CASE /\ state' = [batch |-> batch, intent |-> intent]
           /\ at' = [r \in RowKey |-> IF r[1] = "intent" /\ intent[r[2]] = "ABSENT"
                                      THEN 0 ELSE at[r]]
           /\ cursor' = [observed |-> Last({cursor.observed} \cup Stored),
                         detected |-> Last({cursor.detected} \cup ends),
                         active |-> IF open # {} THEN CHOOSE id \in open : TRUE
                                    ELSE IF ends # {} THEN NoId ELSE cursor.active]
           /\ lease' = NoId
           /\ index' \in {index, index \ {lease}}
           /\ mutation' = FALSE
           /\ phase' = "up"
  <2>1. batch \in [Id -> BatchStates]
    BY TypeParts DEF StateTyped, BatchStates
  <2> HIDE DEF batch
  <2>2. intent \in [Id -> IntentStates]
    BY TypeParts DEF StateTyped, IntentStates
  <2> HIDE DEF intent
  <2>3. StateTyped' BY <1>3, <2>1, <2>2 DEF StateTyped
  <2>4. AtTyped' BY <1>3, TypeParts, MomentsOfTime DEF AtTyped
  <2>5. CursorTyped'
    <3>1. {cursor.observed} \cup Stored \in SUBSET (0 .. MaxTurn)
      BY TypeParts, TurnsArePositive DEF CursorTyped, Stored
    <3>2. {cursor.detected} \cup ends \in SUBSET (0 .. MaxTurn)
      <4>1. ends \in SUBSET Turn BY DEF Id
      <4> QED BY <4>1, TypeParts, TurnsArePositive DEF CursorTyped
    <3> HIDE DEF ends
    <3>3. /\ Last({cursor.observed} \cup Stored) \in {cursor.observed} \cup Stored
          /\ Last({cursor.detected} \cup ends) \in {cursor.detected} \cup ends
      <4>1. {cursor.observed} \cup Stored # {} /\ {cursor.detected} \cup ends # {}
        BY Zenon
      <4> QED BY <3>1, <3>2, <4>1, LastIsMember, Zenon
    <3>4. /\ Last({cursor.observed} \cup Stored) \in 0 .. MaxTurn
          /\ Last({cursor.detected} \cup ends) \in 0 .. MaxTurn
      BY <3>1, <3>2, <3>3, Zenon
    <3>5. open \in SUBSET Id BY Zenon
    <3> HIDE DEF open
    <3>6. (IF open # {} THEN CHOOSE id \in open : TRUE
           ELSE IF ends # {} THEN NoId ELSE cursor.active) \in Id \cup {NoId}
      <4>1. open # {} => (CHOOSE id \in open : TRUE) \in Id
        BY <3>5, Zenon
      <4>2. cursor.active \in Id \cup {NoId}
        BY TypeParts DEF CursorTyped
      <4> QED BY <4>1, <4>2, Zenon
    <3> QED BY <1>3, <3>4, <3>6 DEF CursorTyped
  <2>6. GlobalTyped'
    <3>1. index' \subseteq Id BY <1>3, TypeParts DEF GlobalTyped
    <3>2. lease' \in Id \cup {NoId} /\ mutation' \in BOOLEAN
      BY <1>3, Zenon
    <3> QED BY <3>1, <3>2, Zenon DEF GlobalTyped
  <2>7. PhaseTyped' BY <1>3 DEF PhaseTyped
  <2> QED BY <1>1, <2>3, <2>4, <2>5, <2>6, <2>7, Kept, Tuples, TypePartsPrime, Zenon
<1> QED BY <1>2, <1>3, Zenon DEF Recover

LEMMA TypeStep == TypeInv /\ [Next]_vars => TypeInv'
<1> SUFFICES ASSUME TypeInv, [Next]_vars PROVE TypeInv' OBVIOUS
<1>1. CASE UNCHANGED vars
  <2>1. /\ UNCHANGED log /\ UNCHANGED rowvars /\ UNCHANGED global /\ UNCHANGED workers
        /\ UNCHANGED service /\ UNCHANGED bounds
    BY <1>1, Zenon DEF vars
  <2> QED BY <2>1, Kept, Tuples, TypePartsPrime, Zenon
<1>2. CASE TurnEnds BY <1>2, TurnEndsTyped, Zenon
<1>3. CASE Coordinating
  BY <1>3, RecordObservationTyped, FlushIdleTyped, FreezeOneTyped, RouteCapturedTyped,
     BindFrozenTyped, Zenon DEF Coordinating
<1>4. CASE Detecting
  BY <1>4, ClaimNextTyped, CallReturnsTyped, CommitReadyTyped, RepairReadyIntentsTyped,
     AdvanceCursorTyped, Zenon DEF Detecting
<1>5. CASE Reviewing BY <1>5, ReviewingTyped, Zenon
<1>6. CASE \E n \in Preview : MakePreview(n) \/ Confirm(n)
  BY <1>6, MakePreviewTyped, ConfirmTyped, Zenon
<1>7. CASE Retry BY <1>7, ResumeJournalTyped, Zenon DEF Retry
<1>8. CASE Proceeding
  BY <1>8, BeginTyped, MarkDeletingTyped, MarkValidatingTyped, CheckResidueTyped,
     FinishTyped, DeleteRowTyped, Zenon DEF Proceeding
<1>9. CASE WriteFails \/ Crash \/ Reopen
  BY <1>9, WriteFailsTyped, CrashTyped, ReopenTyped, Zenon
<1>10. CASE Starting
  BY <1>10, StartTyped, RecoverTyped, ResumeJournalTyped, Zenon DEF Starting, RecoverPurge
<1> QED BY <1>1, <1>2, <1>3, <1>4, <1>5, <1>6, <1>7, <1>8, <1>9, <1>10, Zenon DEF Next

(* Every variable stays in the range that TypeOK gives it: the rows, the global
   record, what each worker is in the middle of, and the clock of the previews. *)
THEOREM TypeCorrect == Spec => []TypeOK
<1>1. TypeInv => TypeOK BY Zenon DEF TypeInv
<1> QED BY <1>1, InitTyped, TypeStep, PTL DEF Spec

----
(* The journal: written by the first write of an operation, cleared by the last. *)

(* What the service leaves alone, under any of the other actions. *)
LEMMA JournalStaysWithOp ==
  ASSUME OpIsJournalled, UNCHANGED <<op, journal>>
  PROVE OpIsJournalled'
  BY Zenon DEF OpIsJournalled, Purging

LEMMA NoOpIsJournalled == op' = NoOp => OpIsJournalled'
  BY DEF OpIsJournalled, NoOp

LEMMA Marks ==
  ASSUME TypeInv
  PROVE  /\ MarkDeleting => journal' # NoJournal
         /\ MarkValidating => journal' # NoJournal
  BY TypeParts DEF JournalTyped, MarkDeleting, MarkValidating, NoJournal

LEMMA BeginMakesJournal ==
  ASSUME Begin
  PROVE  \/ op' = NoOp /\ UNCHANGED journal
         \/ MayBegin /\ journal' # NoJournal
<1>1. CASE MayBegin
  <2>1. CASE Purging BY <1>1, <2>1, Zenon DEF Begin, Purging
  <2>2. CASE ~Purging BY <1>1, <2>2 DEF Begin, NoJournal
  <2> QED BY <2>1, <2>2
<1>2. CASE ~MayBegin BY <1>2, Zenon DEF Begin, Throw
<1> QED BY <1>1, <1>2

(* The journal an operation works under is there until its last write. *)
LEMMA OpIsJournalledStep ==
  ASSUME TypeInv, OpIsJournalled, [Next]_vars
  PROVE OpIsJournalled'
<1>1. CASE UNCHANGED vars \/ TurnEnds \/ Coordinating \/ Detecting \/ Reviewing
  <2>1. UNCHANGED <<op, journal>>
    <3>1. CASE UNCHANGED vars \/ TurnEnds
      BY <3>1, Zenon DEF vars, global, service, TurnEnds
    <3>2. CASE Coordinating
      BY <3>2, Zenon DEF Coordinating, RecordObservation, FlushIdle, FreezeOne, RouteCaptured,
         BindFrozen, WriteCursor, global, service
    <3>3. CASE Detecting
      BY <3>3, Zenon DEF Detecting, ClaimNext, CallReturns, CommitReady, RepairReadyIntents,
         AdvanceCursor, global, service
    <3>4. CASE Reviewing
      BY <3>4, Zenon DEF Reviewing, AcquireLease, GenerationEnds, OpenMutation, CloseMutation,
         service
    <3> QED BY <1>1, <3>1, <3>2, <3>3, <3>4
  <2> QED BY <2>1, JournalStaysWithOp
<1>2. ASSUME NEW n \in Preview, MakePreview(n) PROVE OpIsJournalled'
  BY <1>2, JournalStaysWithOp, Zenon DEF MakePreview, global
<1>3. ASSUME NEW n \in Preview, Confirm(n) PROVE OpIsJournalled'
  BY <1>3 DEF Confirm, OpIsJournalled, NoOp
<1>4. CASE ResumeJournal
  BY <1>4, Zenon DEF ResumeJournal, OpIsJournalled, Purging, global
<1>5. CASE Begin
  BY <1>5, BeginMakesJournal, NoOpIsJournalled, Zenon DEF OpIsJournalled, Purging
<1>6. CASE MarkDeleting \/ MarkValidating
  BY <1>6, Marks, Zenon DEF OpIsJournalled, Purging
<1>7. ASSUME NEW r \in RowKey, DeleteRow(r) PROVE OpIsJournalled'
  <2>1. op.pc = "delete" /\ UNCHANGED journal
    BY <1>7, Zenon DEF DeleteRow, global
  <2> QED BY <2>1 DEF OpIsJournalled, Purging
<1>8. CASE CheckResidue
  <2>1. op.pc = "check" /\ UNCHANGED journal
    BY <1>8, Zenon DEF CheckResidue, global
  <2> QED BY <2>1 DEF OpIsJournalled, Purging
<1>9. CASE Finish \/ WriteFails \/ Crash \/ Reopen
  BY <1>9, NoOpIsJournalled, Zenon DEF Finish, WriteFails, Throw, Crash, Reopen, Stop
<1>10. CASE Start \/ Recover
  BY <1>10, JournalStaysWithOp, Zenon DEF Start, Recover, global, service
<1> QED
  BY <1>1, <1>2, <1>3, <1>4, <1>5, <1>6, <1>7, <1>8, <1>9, <1>10, Zenon
  DEF Next, Proceeding, Retry, Starting, RecoverPurge

----
(* What is quiet under a purge. *)

NothingCalled == \A id \in Id : state.batch[id] # "DETECTION_CLAIMED"
Quiet == lease = NoId /\ ~mutation /\ NothingCalled

LEMMA QuietUnderPurge == PurgeIsQuiet <=> (Purging => Quiet)
  BY Zenon DEF PurgeIsQuiet, Quiet, NothingCalled

LEMMA NothingBusy == ~Busy <=> Quiet
  BY Zenon DEF Busy, Quiet, NothingCalled

(* Rows that move without a claim stay unclaimed. *)
LEMMA BatchMoves ==
  ASSUME NEW s \in BatchStates, s # "DETECTION_CLAIMED", NEW id, StateTyped, NothingCalled,
         state' = [state EXCEPT !.batch[id] = s]
  PROVE NothingCalled'
  BY DEF StateTyped, NothingCalled

LEMMA IntentMoves ==
  ASSUME NEW s, NEW id, StateTyped, NothingCalled,
         state' = [state EXCEPT !.intent[id] = s]
  PROVE NothingCalled'
  BY DEF StateTyped, NothingCalled

(* No step under a journal makes a call, takes the lease or opens a mutation. *)
LEMMA QuietStays ==
  ASSUME TypeInv, Purging, Quiet, [Next]_vars
  PROVE Quiet'
<1>1. StateTyped BY TypeParts, Zenon
<1>2. CASE /\ UNCHANGED state /\ UNCHANGED lease /\ UNCHANGED mutation
  BY <1>2, Zenon DEF Quiet, NothingCalled
<1>3. CASE UNCHANGED vars \/ TurnEnds
  BY <1>2, <1>3, Zenon DEF vars, rowvars, global, TurnEnds
<1>4. CASE RecordObservation \/ FlushIdle \/ FreezeOne \/ BindFrozen
  BY <1>2, <1>4, Zenon
  DEF RecordObservation, FlushIdle, FreezeOne, BindFrozen, WriteCursor, rowvars, global
<1>5. CASE RouteCaptured
  <2>1. NothingCalled'
    BY <1>1, <1>5, BatchMoves DEF Quiet, RouteCaptured, BatchStates
  <2> QED BY <1>5, <2>1, Zenon DEF Quiet, RouteCaptured, global
<1>6. CASE Detecting
  <2>1. \A id \in Id : ~ClaimNext(id) BY Zenon DEF ClaimNext, Detectable
  <2>2. CASE CallReturns
    <3>1. UNCHANGED lease /\ UNCHANGED mutation
      BY <2>2, Zenon DEF CallReturns, global
    <3>2. NothingCalled'
      <4>1. CASE state' = [state EXCEPT !.intent[det.id] = "DETECTOR_STAGED"]
        BY <4>1, <1>1, IntentMoves, Zenon DEF Quiet
      <4>2. ASSUME NEW s \in {"COMMITTED_NONE", "NEEDS_ATTENTION"},
                   state' = [state EXCEPT !.batch[det.id] = s]
            PROVE NothingCalled'
        BY <4>2, <1>1, BatchMoves DEF Quiet, BatchStates
      <4>3. \/ state' = [state EXCEPT !.intent[det.id] = "DETECTOR_STAGED"]
            \/ state' = [state EXCEPT !.batch[det.id] = "COMMITTED_NONE"]
            \/ state' = [state EXCEPT !.batch[det.id] = "NEEDS_ATTENTION"]
        BY <2>2 DEF CallReturns
      <4> QED BY <4>1, <4>2, <4>3
    <3> QED BY <3>1, <3>2, Zenon DEF Quiet
  <2>3. CASE CommitReady
    <3>1. NothingCalled'
      BY <1>1, <2>3, BatchMoves DEF Quiet, CommitReady, BatchStates
    <3> QED BY <2>3, <3>1, Zenon DEF Quiet, CommitReady, global
  <2>4. CASE RepairReadyIntents
    <3>1. NothingCalled'
      BY <1>1, <2>4 DEF Quiet, RepairReadyIntents, StateTyped, NothingCalled
    <3> QED BY <2>4, <3>1, Zenon DEF Quiet, RepairReadyIntents, global
  <2>5. CASE AdvanceCursor
    BY <1>2, <2>5, Zenon DEF AdvanceCursor, rowvars
  <2> QED BY <1>6, <2>1, <2>2, <2>3, <2>4, <2>5, Zenon DEF Detecting
<1>7. CASE Reviewing
  BY <1>7, Zenon
  DEF Reviewing, AcquireLease, OpenMutation, Unfenced, GenerationEnds, CloseMutation, Quiet,
      NothingCalled
<1>8. CASE \E n \in Preview : MakePreview(n) \/ Confirm(n)
  BY <1>2, <1>8, Zenon DEF MakePreview, Confirm, rowvars, global
<1>9. CASE ResumeJournal \/ Begin \/ MarkDeleting \/ MarkValidating \/ CheckResidue
  BY <1>2, <1>9, Zenon
  DEF ResumeJournal, Begin, MarkDeleting, MarkValidating, CheckResidue, rowvars, global
<1>10. ASSUME NEW r \in RowKey, DeleteRow(r) PROVE Quiet'
  <2>1. UNCHANGED lease /\ UNCHANGED mutation
    BY <1>10, Zenon DEF DeleteRow, global
  <2>2. NothingCalled'
    <3>1. CASE r[1] = "batch"
      BY <1>1, <1>10, <3>1, BatchMoves DEF Quiet, DeleteRow, BatchStates
    <3>2. CASE r[1] = "intent"
      BY <1>1, <1>10, <3>2, IntentMoves DEF Quiet, DeleteRow
    <3>3. CASE r[1] \notin {"batch", "intent"}
      BY <1>10, <3>3, Zenon DEF Quiet, DeleteRow, NothingCalled
    <3> QED BY <3>1, <3>2, <3>3
  <2> QED BY <2>1, <2>2, Zenon DEF Quiet
<1>11. CASE Finish \/ WriteFails \/ Crash \/ Reopen \/ Start
  BY <1>2, <1>11, Zenon
  DEF Finish, WriteFails, Crash, Reopen, Stop, Start, rowvars, global
<1>12. CASE Recover
  <2> DEFINE batch == [id \in Id |-> IF state.batch[id] = "DETECTION_CLAIMED"
                                    THEN "NEEDS_ATTENTION" ELSE state.batch[id]]
  <2>1. \A id \in Id : batch[id] # "DETECTION_CLAIMED" OBVIOUS
  <2>2. CASE UNCHANGED state /\ UNCHANGED lease /\ UNCHANGED mutation
    BY <1>2, <2>2
  <2>3. ASSUME NEW intent, state' = [batch |-> batch, intent |-> intent],
               lease' = NoId, mutation' = FALSE
        PROVE Quiet'
    <3> HIDE DEF batch
    <3>1. state'.batch = batch BY <2>3
    <3> QED BY <2>1, <2>3, <3>1, Zenon DEF Quiet, NothingCalled
  <2>4. \/ UNCHANGED state /\ UNCHANGED lease /\ UNCHANGED mutation
        \/ \E intent : /\ state' = [batch |-> batch, intent |-> intent]
                       /\ lease' = NoId /\ mutation' = FALSE
    BY <1>12, Zenon DEF Recover, rowvars
  <2> QED BY <2>2, <2>3, <2>4, Zenon
<1> QED
  BY <1>3, <1>4, <1>5, <1>6, <1>7, <1>8, <1>9, <1>10, <1>11, <1>12, Zenon
  DEF Next, Coordinating, Proceeding, Retry, Starting, RecoverPurge

(* A journal appears only where nothing is busy. *)
LEMMA JournalAppearsInQuiet ==
  ASSUME TypeInv, OpIsJournalled, ~Purging, [Next]_vars, Purging'
  PROVE Quiet'
<1>1. journal' # journal BY Zenon DEF Purging
<1>2. Begin
  <2>1. ~MarkDeleting /\ ~MarkValidating
    BY DEF OpIsJournalled, MarkDeleting, MarkValidating
  <2>2. ~Finish BY Zenon DEF Finish, Purging
  <2>3. ~Coordinating /\ ~TurnEnds /\ ~(UNCHANGED vars)
    BY <1>1, Zenon DEF Coordinating, RecordObservation, FlushIdle, FreezeOne, RouteCaptured,
       BindFrozen, WriteCursor, TurnEnds, global, vars
  <2>4. ~Detecting
    BY <1>1, Zenon DEF Detecting, ClaimNext, CallReturns, CommitReady, RepairReadyIntents,
       AdvanceCursor, global
  <2>5. ~Reviewing
    BY <1>1, Zenon DEF Reviewing, AcquireLease, GenerationEnds, OpenMutation, CloseMutation
  <2>6. \A n \in Preview : ~MakePreview(n) /\ ~Confirm(n)
    BY <1>1, Zenon DEF MakePreview, Confirm, global
  <2>7. ~ResumeJournal /\ ~CheckResidue /\ ~WriteFails /\ ~Crash /\ ~Reopen /\ ~Start /\ ~Recover
    BY <1>1, Zenon
    DEF ResumeJournal, CheckResidue, WriteFails, Crash, Reopen, Stop, Start, Recover, global
  <2>8. \A r \in RowKey : ~DeleteRow(r)
    BY <1>1, Zenon DEF DeleteRow, global
  <2> QED
    BY <2>1, <2>2, <2>3, <2>4, <2>5, <2>6, <2>7, <2>8, Zenon
    DEF Next, Proceeding, Retry, Starting, RecoverPurge
<1>3. MayBegin BY <1>1, <1>2, BeginMakesJournal, Zenon
<1>4. Quiet BY <1>3, NothingBusy, Zenon DEF MayBegin
<1> QED BY <1>2, <1>4, Zenon DEF Begin, rowvars, Quiet, NothingCalled

LEMMA InitQuiet == Init => OpIsJournalled /\ PurgeIsQuiet
  BY DEF Init, OpIsJournalled, NoOp, PurgeIsQuiet, Purging

LEMMA QuietStep ==
  ASSUME IInv, [Next]_vars
  PROVE IInv'
<1>1. TypeInv' /\ OpIsJournalled'
  BY TypeStep, OpIsJournalledStep, Zenon DEF IInv
<1>2. PurgeIsQuiet'
  <2>1. Purging' => Quiet'
    BY QuietStays, JournalAppearsInQuiet, QuietUnderPurge, Zenon DEF IInv
  <2> QED BY <2>1, Zenon DEF PurgeIsQuiet, Quiet, NothingCalled
<1> QED BY <1>1, <1>2, Zenon DEF IInv

(* From the moment a purge is begun to its last write, through crashes, restarts
   and failed writes: no batch is at the detector's model, no generation holds the
   lease and no mutation of the catalog is open, although the workers and the
   service look at the global record at moments of their own. *)
THEOREM NothingRunsUnderPurge == Spec => []PurgeIsQuiet
<1>1. Init => IInv BY InitTyped, InitQuiet, Zenon DEF IInv
<1>2. IInv /\ [Next]_vars => IInv' BY QuietStep, Zenon
<1>3. IInv => PurgeIsQuiet BY Zenon DEF IInv
<1> QED BY <1>1, <1>2, <1>3, PTL DEF Spec

----
(* Who writes what. *)

Claims == \E id \in Id : ClaimNext(id)
Acquires == \E id \in Id : AcquireLease(id)
Offers == \E n \in Preview : MakePreview(n)
Confirms == \E n \in Preview : Confirm(n)
Deletes == \E r \in RowKey : DeleteRow(r)
Resumes == ResumeJournal /\ (Up \/ phase = "purge")
Rests == UNCHANGED vars

LEMMA Steps ==
  ASSUME [Next]_vars
  PROVE  \/ Rests \/ TurnEnds
         \/ RecordObservation \/ FlushIdle \/ FreezeOne \/ RouteCaptured \/ BindFrozen
         \/ Claims \/ CallReturns \/ CommitReady \/ RepairReadyIntents \/ AdvanceCursor
         \/ Acquires \/ GenerationEnds \/ OpenMutation \/ CloseMutation
         \/ Offers \/ Confirms \/ Resumes
         \/ Begin \/ MarkDeleting \/ Deletes \/ MarkValidating \/ CheckResidue \/ Finish
         \/ WriteFails \/ Crash \/ Reopen \/ Start \/ Recover
  BY Zenon
  DEF Next, Coordinating, Detecting, Reviewing, Proceeding, Starting, Retry, RecoverPurge,
      Claims, Acquires, Offers, Confirms, Resumes, Deletes, Rests

(* The steps that leave a variable alone are all but a few. *)
LEMMA ClockWriters ==
  ASSUME [Next]_vars
  PROVE \/ UNCHANGED clock \/ Offers
<1>1. TurnEnds \/ RecordObservation \/ FlushIdle \/ FreezeOne \/ RouteCaptured \/ BindFrozen
      => UNCHANGED clock
  BY Zenon
  DEF TurnEnds, RecordObservation, FlushIdle, FreezeOne, WriteCursor, RouteCaptured,
      BindFrozen, log, rowvars, global, workers, service
<1>2. Claims \/ CallReturns \/ CommitReady \/ RepairReadyIntents \/ AdvanceCursor \/ Acquires
      => UNCHANGED clock
  BY Zenon
  DEF Claims, ClaimNext, CallReturns, CommitReady, RepairReadyIntents, AdvanceCursor,
      Acquires, AcquireLease, log, rowvars, global, workers, service
<1>3. GenerationEnds \/ OpenMutation \/ CloseMutation \/ Confirms \/ Resumes \/ Begin
      => UNCHANGED clock
  BY Zenon
  DEF GenerationEnds, OpenMutation, CloseMutation, Confirms, Confirm, Resumes, ResumeJournal,
      Begin, Throw, log, rowvars, global, workers, service
<1>4. MarkDeleting \/ Deletes \/ MarkValidating \/ CheckResidue \/ Finish \/ WriteFails
      => UNCHANGED clock
  BY Zenon
  DEF MarkDeleting, Deletes, DeleteRow, MarkValidating, CheckResidue, Throw, Finish,
      WriteFails, log, rowvars, global, workers, service
<1>5. Crash \/ Reopen \/ Start \/ Recover => UNCHANGED clock
  BY Zenon
  DEF Crash, Stop, Reopen, Start, Recover, log, rowvars, global, workers, service
<1>6. Rests => UNCHANGED clock
  BY Zenon DEF Rests, vars, log, rowvars, global, workers, service
<1> QED BY <1>1, <1>2, <1>3, <1>4, <1>5, <1>6, Steps, Zenon

LEMMA LogWriters ==
  ASSUME [Next]_vars
  PROVE \/ UNCHANGED ended \/ TurnEnds
<1>1. RecordObservation \/ FlushIdle \/ FreezeOne \/ RouteCaptured \/ BindFrozen \/ Claims
      => UNCHANGED ended
  BY Zenon
  DEF RecordObservation, FlushIdle, FreezeOne, WriteCursor, RouteCaptured, BindFrozen,
      Claims, ClaimNext, log, rowvars, global, workers, service
<1>2. CallReturns \/ CommitReady \/ RepairReadyIntents \/ AdvanceCursor \/ Acquires \/ GenerationEnds
      => UNCHANGED ended
  BY Zenon
  DEF CallReturns, CommitReady, RepairReadyIntents, AdvanceCursor, Acquires,
      AcquireLease, GenerationEnds, log, rowvars, global, workers, service
<1>3. OpenMutation \/ CloseMutation \/ Offers \/ Confirms \/ Resumes \/ Begin => UNCHANGED ended
  BY Zenon
  DEF OpenMutation, CloseMutation, Offers, MakePreview, Confirms, Confirm,
      Resumes, ResumeJournal, Begin, Throw, log, rowvars, global, workers, service
<1>4. MarkDeleting \/ Deletes \/ MarkValidating \/ CheckResidue \/ Finish \/ WriteFails
      => UNCHANGED ended
  BY Zenon
  DEF MarkDeleting, Deletes, DeleteRow, MarkValidating, CheckResidue, Throw, Finish,
      WriteFails, log, rowvars, global, workers, service
<1>5. Crash \/ Reopen \/ Start \/ Recover => UNCHANGED ended
  BY Zenon
  DEF Crash, Stop, Reopen, Start, Recover, log, rowvars, global, workers, service
<1>6. Rests => UNCHANGED ended
  BY Zenon DEF Rests, vars, log, rowvars, global, workers, service
<1> QED BY <1>1, <1>2, <1>3, <1>4, <1>5, <1>6, Steps, Zenon

LEMMA RowWriters ==
  ASSUME [Next]_vars
  PROVE  \/ UNCHANGED at \/ RecordObservation \/ RouteCaptured \/ CallReturns
         \/ GenerationEnds \/ Deletes \/ Recover
<1>1. TurnEnds \/ FlushIdle \/ FreezeOne \/ BindFrozen \/ Claims \/ CommitReady => UNCHANGED at
  BY Zenon
  DEF TurnEnds, FlushIdle, FreezeOne, WriteCursor, BindFrozen, Claims, ClaimNext,
      CommitReady, log, rowvars, global, workers, service
<1>2. RepairReadyIntents \/ AdvanceCursor \/ Acquires \/ OpenMutation \/ CloseMutation \/ Offers
      => UNCHANGED at
  BY Zenon
  DEF RepairReadyIntents, AdvanceCursor, Acquires, AcquireLease, OpenMutation,
      CloseMutation, Offers, MakePreview, log, rowvars, global, workers, service
<1>3. Confirms \/ Resumes \/ Begin \/ MarkDeleting \/ MarkValidating \/ CheckResidue => UNCHANGED at
  BY Zenon
  DEF Confirms, Confirm, Resumes, ResumeJournal, Begin, Throw, MarkDeleting, MarkValidating,
      CheckResidue, log, rowvars, global, workers, service
<1>4. Finish \/ WriteFails \/ Crash \/ Reopen \/ Start => UNCHANGED at
  BY Zenon
  DEF Finish, Throw, WriteFails, Crash, Stop, Reopen, Start, log, rowvars, global,
      workers, service
<1>5. Rests => UNCHANGED at
  BY Zenon DEF Rests, vars, log, rowvars, global, workers, service
<1> QED BY <1>1, <1>2, <1>3, <1>4, <1>5, Steps, Zenon

LEMMA StateWriters ==
  ASSUME [Next]_vars
  PROVE  \/ UNCHANGED state \/ RouteCaptured \/ Claims \/ CallReturns \/ CommitReady
         \/ RepairReadyIntents \/ Deletes \/ Recover
<1>1. TurnEnds \/ RecordObservation \/ FlushIdle \/ FreezeOne \/ BindFrozen \/ AdvanceCursor
      => UNCHANGED state
  BY Zenon
  DEF TurnEnds, RecordObservation, FlushIdle, FreezeOne, WriteCursor, BindFrozen,
      AdvanceCursor, log, rowvars, global, workers, service
<1>2. Acquires \/ GenerationEnds \/ OpenMutation \/ CloseMutation \/ Offers \/ Confirms
      => UNCHANGED state
  BY Zenon
  DEF Acquires, AcquireLease, GenerationEnds, OpenMutation, CloseMutation, Offers,
      MakePreview, Confirms, Confirm, log, rowvars, global, workers, service
<1>3. Resumes \/ Begin \/ MarkDeleting \/ MarkValidating \/ CheckResidue \/ Finish
      => UNCHANGED state
  BY Zenon
  DEF Resumes, ResumeJournal, Begin, Throw, MarkDeleting, MarkValidating, CheckResidue, Finish,
      log, rowvars, global, workers, service
<1>4. WriteFails \/ Crash \/ Reopen \/ Start => UNCHANGED state
  BY Zenon
  DEF WriteFails, Throw, Crash, Stop, Reopen, Start, log, rowvars, global, workers,
      service
<1>5. Rests => UNCHANGED state
  BY Zenon DEF Rests, vars, log, rowvars, global, workers, service
<1> QED BY <1>1, <1>2, <1>3, <1>4, <1>5, Steps, Zenon

LEMMA CursorWriters ==
  ASSUME [Next]_vars
  PROVE  \/ UNCHANGED cursor \/ FreezeOne \/ BindFrozen \/ AdvanceCursor \/ Finish
         \/ Recover
<1>1. TurnEnds \/ RecordObservation \/ FlushIdle \/ RouteCaptured \/ Claims \/ CallReturns
      => UNCHANGED cursor
  BY Zenon
  DEF TurnEnds, RecordObservation, FlushIdle, RouteCaptured, Claims, ClaimNext,
      CallReturns, log, rowvars, global, workers, service
<1>2. CommitReady \/ RepairReadyIntents \/ Acquires \/ GenerationEnds \/ OpenMutation \/ CloseMutation
      => UNCHANGED cursor
  BY Zenon
  DEF CommitReady, RepairReadyIntents, Acquires, AcquireLease, GenerationEnds,
      OpenMutation, CloseMutation, log, rowvars, global, workers, service
<1>3. Offers \/ Confirms \/ Resumes \/ Begin \/ MarkDeleting \/ Deletes => UNCHANGED cursor
  BY Zenon
  DEF Offers, MakePreview, Confirms, Confirm, Resumes, ResumeJournal, Begin, Throw,
      MarkDeleting, Deletes, DeleteRow, log, rowvars, global, workers, service
<1>4. MarkValidating \/ CheckResidue \/ WriteFails \/ Crash \/ Reopen \/ Start => UNCHANGED cursor
  BY Zenon
  DEF MarkValidating, CheckResidue, Throw, WriteFails, Crash, Stop, Reopen, Start, log,
      rowvars, global, workers, service
<1>5. Rests => UNCHANGED cursor
  BY Zenon DEF Rests, vars, log, rowvars, global, workers, service
<1> QED BY <1>1, <1>2, <1>3, <1>4, <1>5, Steps, Zenon

LEMMA LeaseWriters ==
  ASSUME [Next]_vars
  PROVE \/ UNCHANGED lease \/ Acquires \/ GenerationEnds \/ Recover
<1>1. TurnEnds \/ RecordObservation \/ FlushIdle \/ FreezeOne \/ RouteCaptured \/ BindFrozen
      => UNCHANGED lease
  BY Zenon
  DEF TurnEnds, RecordObservation, FlushIdle, FreezeOne, WriteCursor, RouteCaptured,
      BindFrozen, log, rowvars, global, workers, service
<1>2. Claims \/ CallReturns \/ CommitReady \/ RepairReadyIntents \/ AdvanceCursor \/ OpenMutation
      => UNCHANGED lease
  BY Zenon
  DEF Claims, ClaimNext, CallReturns, CommitReady, RepairReadyIntents, AdvanceCursor,
      OpenMutation, log, rowvars, global, workers, service
<1>3. CloseMutation \/ Offers \/ Confirms \/ Resumes \/ Begin \/ MarkDeleting => UNCHANGED lease
  BY Zenon
  DEF CloseMutation, Offers, MakePreview, Confirms, Confirm, Resumes, ResumeJournal, Begin,
      Throw, MarkDeleting, log, rowvars, global, workers, service
<1>4. Deletes \/ MarkValidating \/ CheckResidue \/ Finish \/ WriteFails \/ Crash => UNCHANGED lease
  BY Zenon
  DEF Deletes, DeleteRow, MarkValidating, CheckResidue, Throw, Finish, WriteFails,
      Crash, Stop, log, rowvars, global, workers, service
<1>5. Reopen \/ Start => UNCHANGED lease
  BY Zenon
  DEF Reopen, Stop, Start, log, rowvars, global, workers, service
<1>6. Rests => UNCHANGED lease
  BY Zenon DEF Rests, vars, log, rowvars, global, workers, service
<1> QED BY <1>1, <1>2, <1>3, <1>4, <1>5, <1>6, Steps, Zenon

LEMMA IndexWriters ==
  ASSUME [Next]_vars
  PROVE \/ UNCHANGED index \/ Acquires \/ GenerationEnds \/ Finish \/ Recover
<1>1. TurnEnds \/ RecordObservation \/ FlushIdle \/ FreezeOne \/ RouteCaptured \/ BindFrozen
      => UNCHANGED index
  BY Zenon
  DEF TurnEnds, RecordObservation, FlushIdle, FreezeOne, WriteCursor, RouteCaptured,
      BindFrozen, log, rowvars, global, workers, service
<1>2. Claims \/ CallReturns \/ CommitReady \/ RepairReadyIntents \/ AdvanceCursor \/ OpenMutation
      => UNCHANGED index
  BY Zenon
  DEF Claims, ClaimNext, CallReturns, CommitReady, RepairReadyIntents, AdvanceCursor,
      OpenMutation, log, rowvars, global, workers, service
<1>3. CloseMutation \/ Offers \/ Confirms \/ Resumes \/ Begin \/ MarkDeleting => UNCHANGED index
  BY Zenon
  DEF CloseMutation, Offers, MakePreview, Confirms, Confirm, Resumes, ResumeJournal, Begin,
      Throw, MarkDeleting, log, rowvars, global, workers, service
<1>4. Deletes \/ MarkValidating \/ CheckResidue \/ WriteFails \/ Crash \/ Reopen => UNCHANGED index
  BY Zenon
  DEF Deletes, DeleteRow, MarkValidating, CheckResidue, Throw, WriteFails, Crash, Stop,
      Reopen, log, rowvars, global, workers, service
<1>5. Start => UNCHANGED index
  BY Zenon
  DEF Start, log, rowvars, global, workers, service
<1>6. Rests => UNCHANGED index
  BY Zenon DEF Rests, vars, log, rowvars, global, workers, service
<1> QED BY <1>1, <1>2, <1>3, <1>4, <1>5, <1>6, Steps, Zenon

LEMMA JournalWriters ==
  ASSUME [Next]_vars
  PROVE \/ UNCHANGED journal \/ Begin \/ MarkDeleting \/ MarkValidating \/ Finish
<1>1. TurnEnds \/ RecordObservation \/ FlushIdle \/ FreezeOne \/ RouteCaptured \/ BindFrozen
      => UNCHANGED journal
  BY Zenon
  DEF TurnEnds, RecordObservation, FlushIdle, FreezeOne, WriteCursor, RouteCaptured,
      BindFrozen, log, rowvars, global, workers, service
<1>2. Claims \/ CallReturns \/ CommitReady \/ RepairReadyIntents \/ AdvanceCursor \/ Acquires
      => UNCHANGED journal
  BY Zenon
  DEF Claims, ClaimNext, CallReturns, CommitReady, RepairReadyIntents, AdvanceCursor,
      Acquires, AcquireLease, log, rowvars, global, workers, service
<1>3. GenerationEnds \/ OpenMutation \/ CloseMutation \/ Offers \/ Confirms \/ Resumes
      => UNCHANGED journal
  BY Zenon
  DEF GenerationEnds, OpenMutation, CloseMutation, Offers, MakePreview, Confirms,
      Confirm, Resumes, ResumeJournal, log, rowvars, global, workers, service
<1>4. Deletes \/ CheckResidue \/ WriteFails \/ Crash \/ Reopen \/ Start => UNCHANGED journal
  BY Zenon
  DEF Deletes, DeleteRow, CheckResidue, Throw, WriteFails, Crash, Stop, Reopen, Start,
      log, rowvars, global, workers, service
<1>5. Recover => UNCHANGED journal
  BY Zenon
  DEF Recover, log, rowvars, global, workers, service
<1>6. Rests => UNCHANGED journal
  BY Zenon DEF Rests, vars, log, rowvars, global, workers, service
<1> QED BY <1>1, <1>2, <1>3, <1>4, <1>5, <1>6, Steps, Zenon

LEMMA PhaseWriters ==
  ASSUME [Next]_vars
  PROVE  \/ UNCHANGED phase \/ Begin \/ CheckResidue \/ Finish \/ WriteFails \/ Crash
         \/ Reopen \/ Start \/ Recover
<1>1. TurnEnds \/ RecordObservation \/ FlushIdle \/ FreezeOne \/ RouteCaptured \/ BindFrozen
      => UNCHANGED phase
  BY Zenon
  DEF TurnEnds, RecordObservation, FlushIdle, FreezeOne, WriteCursor, RouteCaptured,
      BindFrozen, log, rowvars, global, workers, service
<1>2. Claims \/ CallReturns \/ CommitReady \/ RepairReadyIntents \/ AdvanceCursor \/ Acquires
      => UNCHANGED phase
  BY Zenon
  DEF Claims, ClaimNext, CallReturns, CommitReady, RepairReadyIntents, AdvanceCursor,
      Acquires, AcquireLease, log, rowvars, global, workers, service
<1>3. GenerationEnds \/ OpenMutation \/ CloseMutation \/ Offers \/ Confirms \/ Resumes
      => UNCHANGED phase
  BY Zenon
  DEF GenerationEnds, OpenMutation, CloseMutation, Offers, MakePreview, Confirms,
      Confirm, Resumes, ResumeJournal, log, rowvars, global, workers, service
<1>4. MarkDeleting \/ Deletes \/ MarkValidating => UNCHANGED phase
  BY Zenon
  DEF MarkDeleting, Deletes, DeleteRow, MarkValidating, log, rowvars, global, workers,
      service
<1>5. Rests => UNCHANGED phase
  BY Zenon DEF Rests, vars, log, rowvars, global, workers, service
<1> QED BY <1>1, <1>2, <1>3, <1>4, <1>5, Steps, Zenon

LEMMA CoordWriters ==
  ASSUME [Next]_vars
  PROVE  \/ UNCHANGED coord \/ RecordObservation \/ FlushIdle \/ FreezeOne
         \/ RouteCaptured \/ BindFrozen \/ Crash \/ Reopen
<1>1. TurnEnds \/ Claims \/ CallReturns \/ CommitReady \/ RepairReadyIntents \/ AdvanceCursor
      => UNCHANGED coord
  BY Zenon
  DEF TurnEnds, Claims, ClaimNext, CallReturns, CommitReady, RepairReadyIntents,
      AdvanceCursor, log, rowvars, global, workers, service
<1>2. Acquires \/ GenerationEnds \/ OpenMutation \/ CloseMutation \/ Offers \/ Confirms
      => UNCHANGED coord
  BY Zenon
  DEF Acquires, AcquireLease, GenerationEnds, OpenMutation, CloseMutation, Offers,
      MakePreview, Confirms, Confirm, log, rowvars, global, workers, service
<1>3. Resumes \/ Begin \/ MarkDeleting \/ Deletes \/ MarkValidating \/ CheckResidue
      => UNCHANGED coord
  BY Zenon
  DEF Resumes, ResumeJournal, Begin, Throw, MarkDeleting, Deletes, DeleteRow, MarkValidating,
      CheckResidue, log, rowvars, global, workers, service
<1>4. Finish \/ WriteFails \/ Start \/ Recover => UNCHANGED coord
  BY Zenon
  DEF Finish, Throw, WriteFails, Start, Recover, log, rowvars, global, workers,
      service
<1>5. Rests => UNCHANGED coord
  BY Zenon DEF Rests, vars, log, rowvars, global, workers, service
<1> QED BY <1>1, <1>2, <1>3, <1>4, <1>5, Steps, Zenon

LEMMA DetWriters ==
  ASSUME [Next]_vars
  PROVE  \/ UNCHANGED det \/ Claims \/ CallReturns \/ CommitReady
         \/ RepairReadyIntents \/ AdvanceCursor \/ Crash \/ Reopen
<1>1. TurnEnds \/ RecordObservation \/ FlushIdle \/ FreezeOne \/ RouteCaptured \/ BindFrozen
      => UNCHANGED det
  BY Zenon
  DEF TurnEnds, RecordObservation, FlushIdle, FreezeOne, WriteCursor, RouteCaptured,
      BindFrozen, log, rowvars, global, workers, service
<1>2. Acquires \/ GenerationEnds \/ OpenMutation \/ CloseMutation \/ Offers \/ Confirms
      => UNCHANGED det
  BY Zenon
  DEF Acquires, AcquireLease, GenerationEnds, OpenMutation, CloseMutation, Offers,
      MakePreview, Confirms, Confirm, log, rowvars, global, workers, service
<1>3. Resumes \/ Begin \/ MarkDeleting \/ Deletes \/ MarkValidating \/ CheckResidue => UNCHANGED det
  BY Zenon
  DEF Resumes, ResumeJournal, Begin, Throw, MarkDeleting, Deletes, DeleteRow, MarkValidating,
      CheckResidue, log, rowvars, global, workers, service
<1>4. Finish \/ WriteFails \/ Start \/ Recover => UNCHANGED det
  BY Zenon
  DEF Finish, Throw, WriteFails, Start, Recover, log, rowvars, global, workers,
      service
<1>5. Rests => UNCHANGED det
  BY Zenon DEF Rests, vars, log, rowvars, global, workers, service
<1> QED BY <1>1, <1>2, <1>3, <1>4, <1>5, Steps, Zenon

LEMMA PreviewWriters ==
  ASSUME [Next]_vars
  PROVE \/ UNCHANGED previews \/ Offers \/ Finish \/ Crash \/ Reopen
<1>1. TurnEnds \/ RecordObservation \/ FlushIdle \/ FreezeOne \/ RouteCaptured \/ BindFrozen
      => UNCHANGED previews
  BY Zenon
  DEF TurnEnds, RecordObservation, FlushIdle, FreezeOne, WriteCursor, RouteCaptured,
      BindFrozen, log, rowvars, global, workers, service
<1>2. Claims \/ CallReturns \/ CommitReady \/ RepairReadyIntents \/ AdvanceCursor \/ Acquires
      => UNCHANGED previews
  BY Zenon
  DEF Claims, ClaimNext, CallReturns, CommitReady, RepairReadyIntents, AdvanceCursor,
      Acquires, AcquireLease, log, rowvars, global, workers, service
<1>3. GenerationEnds \/ OpenMutation \/ CloseMutation \/ Confirms \/ Resumes \/ Begin
      => UNCHANGED previews
  BY Zenon
  DEF GenerationEnds, OpenMutation, CloseMutation, Confirms, Confirm, Resumes, ResumeJournal,
      Begin, Throw, log, rowvars, global, workers, service
<1>4. MarkDeleting \/ Deletes \/ MarkValidating \/ CheckResidue \/ WriteFails \/ Start
      => UNCHANGED previews
  BY Zenon
  DEF MarkDeleting, Deletes, DeleteRow, MarkValidating, CheckResidue, Throw,
      WriteFails, Start, log, rowvars, global, workers, service
<1>5. Recover => UNCHANGED previews
  BY Zenon
  DEF Recover, log, rowvars, global, workers, service
<1>6. Rests => UNCHANGED previews
  BY Zenon DEF Rests, vars, log, rowvars, global, workers, service
<1> QED BY <1>1, <1>2, <1>3, <1>4, <1>5, <1>6, Steps, Zenon

LEMMA OpWriters ==
  ASSUME [Next]_vars
  PROVE  \/ UNCHANGED op \/ Confirms \/ Resumes \/ Begin \/ MarkDeleting
         \/ Deletes \/ MarkValidating \/ CheckResidue \/ Finish \/ WriteFails \/ Crash
         \/ Reopen
<1>1. TurnEnds \/ RecordObservation \/ FlushIdle \/ FreezeOne \/ RouteCaptured \/ BindFrozen
      => UNCHANGED op
  BY Zenon
  DEF TurnEnds, RecordObservation, FlushIdle, FreezeOne, WriteCursor, RouteCaptured,
      BindFrozen, log, rowvars, global, workers, service
<1>2. Claims \/ CallReturns \/ CommitReady \/ RepairReadyIntents \/ AdvanceCursor \/ Acquires
      => UNCHANGED op
  BY Zenon
  DEF Claims, ClaimNext, CallReturns, CommitReady, RepairReadyIntents, AdvanceCursor,
      Acquires, AcquireLease, log, rowvars, global, workers, service
<1>3. GenerationEnds \/ OpenMutation \/ CloseMutation \/ Offers \/ Start \/ Recover => UNCHANGED op
  BY Zenon
  DEF GenerationEnds, OpenMutation, CloseMutation, Offers, MakePreview, Start, Recover,
      log, rowvars, global, workers, service
<1>4. Rests => UNCHANGED op
  BY Zenon DEF Rests, vars, log, rowvars, global, workers, service
<1> QED BY <1>1, <1>2, <1>3, <1>4, Steps, Zenon

LEMMA PromisedWriters ==
  ASSUME [Next]_vars
  PROVE \/ UNCHANGED promised \/ Begin \/ Finish
<1>1. TurnEnds \/ RecordObservation \/ FlushIdle \/ FreezeOne \/ RouteCaptured \/ BindFrozen
      => UNCHANGED promised
  BY Zenon
  DEF TurnEnds, RecordObservation, FlushIdle, FreezeOne, WriteCursor, RouteCaptured,
      BindFrozen, log, rowvars, global, workers, service
<1>2. Claims \/ CallReturns \/ CommitReady \/ RepairReadyIntents \/ AdvanceCursor \/ Acquires
      => UNCHANGED promised
  BY Zenon
  DEF Claims, ClaimNext, CallReturns, CommitReady, RepairReadyIntents, AdvanceCursor,
      Acquires, AcquireLease, log, rowvars, global, workers, service
<1>3. GenerationEnds \/ OpenMutation \/ CloseMutation \/ Offers \/ Confirms \/ Resumes
      => UNCHANGED promised
  BY Zenon
  DEF GenerationEnds, OpenMutation, CloseMutation, Offers, MakePreview, Confirms,
      Confirm, Resumes, ResumeJournal, log, rowvars, global, workers, service
<1>4. MarkDeleting \/ Deletes \/ MarkValidating \/ CheckResidue \/ WriteFails \/ Crash
      => UNCHANGED promised
  BY Zenon
  DEF MarkDeleting, Deletes, DeleteRow, MarkValidating, CheckResidue, Throw,
      WriteFails, Crash, Stop, log, rowvars, global, workers, service
<1>5. Reopen \/ Start \/ Recover => UNCHANGED promised
  BY Zenon
  DEF Reopen, Stop, Start, Recover, log, rowvars, global, workers, service
<1>6. Rests => UNCHANGED promised
  BY Zenon DEF Rests, vars, log, rowvars, global, workers, service
<1> QED BY <1>1, <1>2, <1>3, <1>4, <1>5, <1>6, Steps, Zenon

----
(* The rows and their keys. *)

Intent(id) == <<"intent", id>>
Batch(id) == <<"batch", id>>
Lineage(id) == <<"lineage", id>>

LEMMA Kinds ==
  ASSUME NEW r \in RowKey
  PROVE  /\ r[2] \in Id /\ r[2][2] \in Turn
         /\ \/ r[1] = "obs" /\ r = Obs(r[2][2])
            \/ r[1] = "batch" /\ r = Batch(r[2])
            \/ r[1] = "intent" /\ r = Intent(r[2])
            \/ r[1] = "lineage" /\ r = Lineage(r[2])
  BY DEF RowKey, Tables, Id, Obs, Batch, Intent, Lineage

LEMMA RowsOfId ==
  ASSUME NEW id \in Id
  PROVE  /\ id[2] \in Turn
         /\ Intent(id) \in RowKey /\ Intent(id)[1] = "intent" /\ Intent(id)[2] = id
         /\ Batch(id) \in RowKey /\ Batch(id)[1] = "batch" /\ Batch(id)[2] = id
         /\ Lineage(id) \in RowKey /\ Lineage(id)[1] = "lineage" /\ Lineage(id)[2] = id
  BY DEF RowKey, Tables, Id, Batch, Intent, Lineage

LEMMA RowsOfTurn ==
  ASSUME NEW n \in Turn
  PROVE  /\ n \in Nat /\ n # 0 /\ <<n, n>> \in Id
         /\ Obs(n) \in RowKey /\ Obs(n)[1] = "obs" /\ Obs(n)[2] = <<n, n>> /\ Obs(n)[2][2] = n
<1>1. n \in Nat /\ n # 0 BY BoundsAssumption DEF Turn
<1>2. <<n, n>> \in Id BY <1>1 DEF Id
<1> QED BY <1>1, <1>2 DEF RowKey, Tables, Obs

(* A row comes in one of four ways, and goes in two. *)
Comes(r) ==
    \/ RecordObservation /\ r = Obs(cursor.observed + 1) /\ at'[r] = ended[cursor.observed + 1]
    \/ RouteCaptured /\ r = Batch(coord.id) /\ at'[r] = coord.at
    \/ CallReturns /\ r = Intent(det.id) /\ state.intent[det.id] = "ABSENT" /\ at'[r] = clock
    \/ GenerationEnds /\ r = Lineage(lease) /\ at'[r] = clock
Goes(r) ==
    \/ DeleteRow(r) /\ at'[r] = 0
    \/ Recover /\ r[1] = "intent" /\ state.intent[r[2]] = "DETECTOR_STAGED" /\ at'[r] = 0

LEMMA RecoverMoves ==
  ASSUME TypeInv, Recover, NEW r \in RowKey
  PROVE at'[r] = at[r] \/ Goes(r) \/ (r[1] = "intent" /\ state.intent[r[2]] = "ABSENT" /\ at'[r] = 0)
<1>0. r[2] \in Id BY Kinds, Zenon
<1> DEFINE
      batch == [id \in Id |-> IF state.batch[id] = "DETECTION_CLAIMED"
                              THEN "NEEDS_ATTENTION" ELSE state.batch[id]]
      intent == [id \in Id |->
                    IF state.intent[id] # "DETECTOR_STAGED" THEN state.intent[id]
                    ELSE CASE batch[id] = "COMMITTED_READY" -> "RELEASED"
                           [] batch[id] \in Terminal \ {"COMMITTED_READY"} -> "ABSENT"
                           [] OTHER -> "DETECTOR_STAGED"]
<1>1. \/ at' = at
      \/ at' = [q \in RowKey |-> IF q[1] = "intent" /\ intent[q[2]] = "ABSENT" THEN 0 ELSE at[q]]
  BY Zenon DEF Recover, rowvars
<1>2. intent[r[2]] = "ABSENT" => state.intent[r[2]] \in {"ABSENT", "DETECTOR_STAGED"}
  <2> HIDE DEF batch
  <2>1. state.intent[r[2]] # "DETECTOR_STAGED" => intent[r[2]] = state.intent[r[2]]
    BY <1>0
  <2> QED BY <2>1
<1> HIDE DEF intent
<1>3. at'[r] = at[r] \/ (r[1] = "intent" /\ intent[r[2]] = "ABSENT" /\ at'[r] = 0)
  BY <1>1
<1> QED BY <1>2, <1>3, Zenon DEF Goes

LEMMA RowMoves ==
  ASSUME TypeInv, [Next]_vars, NEW r \in RowKey
  PROVE  \/ at'[r] = at[r] \/ Comes(r) \/ Goes(r)
         \/ Recover /\ r[1] = "intent" /\ state.intent[r[2]] = "ABSENT" /\ at'[r] = 0
<1>0. at \in [RowKey -> Time] BY TypeParts DEF AtTyped
<1>1. CASE RecordObservation
  <2>1. at' = [at EXCEPT ![Obs(cursor.observed + 1)] = ended[cursor.observed + 1]]
    BY <1>1, Zenon DEF RecordObservation
  <2>2. at'[r] = at[r] \/ (r = Obs(cursor.observed + 1) /\ at'[r] = ended[cursor.observed + 1])
    BY <1>0, <2>1
  <2> QED BY <1>1, <2>2, Zenon DEF Comes
<1>2. CASE RouteCaptured
  <2>1. at' = [at EXCEPT ![Batch(coord.id)] = coord.at]
    BY <1>2, Zenon DEF RouteCaptured, Batch
  <2>2. at'[r] = at[r] \/ (r = Batch(coord.id) /\ at'[r] = coord.at)
    BY <1>0, <2>1
  <2> QED BY <1>2, <2>2, Zenon DEF Comes
<1>3. CASE CallReturns
  <2>1. \/ state.intent[det.id] = "ABSENT" /\ at' = [at EXCEPT ![Intent(det.id)] = clock]
        \/ at' = at
    BY <1>3, Zenon DEF CallReturns, Intent
  <2>2. at'[r] = at[r] \/ (r = Intent(det.id) /\ at'[r] = clock /\ state.intent[det.id] = "ABSENT")
    BY <1>0, <2>1
  <2> QED BY <1>3, <2>2, Zenon DEF Comes
<1>4. CASE GenerationEnds
  <2>1. at' = [at EXCEPT ![Lineage(lease)] = clock] \/ at' = at
    BY <1>4, Zenon DEF GenerationEnds, Lineage
  <2>2. at'[r] = at[r] \/ (r = Lineage(lease) /\ at'[r] = clock)
    BY <1>0, <2>1
  <2> QED BY <1>4, <2>2, Zenon DEF Comes
<1>5. ASSUME NEW q \in RowKey, DeleteRow(q) PROVE at'[r] = at[r] \/ Goes(r)
  <2>1. at' = [at EXCEPT ![q] = 0] BY <1>5, Zenon DEF DeleteRow
  <2>2. at'[r] = at[r] \/ (r = q /\ at'[r] = 0) BY <1>0, <2>1
  <2> QED BY <1>5, <2>2, Zenon DEF Goes
<1>6. CASE Recover BY <1>6, RecoverMoves, Zenon
<1>7. CASE UNCHANGED at BY <1>7
<1> QED BY <1>1, <1>2, <1>3, <1>4, <1>5, <1>6, <1>7, RowWriters, Zenon DEF Deletes

----
(* The invariant about what a purge takes away.  A row is there as long as *)
(* it has a state; it is younger than the end of the last turn it is about. *)
RowsMatch ==
    \A id \in Id : /\ state.intent[id] = "ABSENT" <=> at[Intent(id)] = 0
                   /\ state.batch[id] = "ABSENT" <=> at[Batch(id)] = 0
LogIsBehind == \A n \in Turn : ended[n] <= clock
Dated(r) == at[r] # 0 => ended[r[2][2]] # 0 /\ ended[r[2][2]] <= at[r]
RowsAreDated ==
    /\ LogIsBehind
    /\ \A n \in Turn : at[Obs(n)] \in {0, ended[n]}
    /\ \A r \in RowKey : Dated(r)

(* The detector holds a claimed batch until its call has come to something; its
   turns are there while it is called.  The coordinator waits for the route of a
   batch that is not there, and writes a cursor that does not go back. *)
DetHolds ==
    /\ det.pc \in {"called", "commit"} => det.id \in Id /\ state.batch[det.id] = "DETECTION_CLAIMED"
    /\ det.pc = "called" => at[Obs(det.id[2])] # 0
CoordHolds ==
    /\ coord.pc # "off" => coord.seen >= cursor.observed
    /\ coord.pc = "route" => /\ coord.id \in Id /\ state.batch[coord.id] = "ABSENT"
                             /\ ended[coord.id[2]] # 0 /\ ended[coord.id[2]] <= coord.at

(* Workers are at work only in a process that is up, the purge's recovery comes
   before the others, and a confirmation is of this process. *)
PhasesHold ==
    /\ phase # "up" => coord.pc = "off" /\ det.pc = "off"
    /\ phase \in {"down", "recover"} => op.pc = "off"
    /\ phase = "recover" => ~Purging
    /\ op.pc = "begin" => Up

(* The lease is of a released intent without a proposal; a reservation outlives
   its intent only under a purge, whose last write knows the intents left. *)
LeaseHolds == lease # NoId => state.intent[lease] = "RELEASED" /\ at[Lineage(lease)] = 0
IndexHolds ==
    /\ \A id \in index : state.intent[id] = "RELEASED" \/ (Purging /\ state.intent[id] = "ABSENT")
    /\ op.pc = "final" => \A id \in Id : Intent(id) \in op.left => at[Intent(id)] # 0

(* An operation works with the horizon of its preview, which is the journal's,
   and what was previewed is there until the operation begins. *)
OpHolds ==
    /\ op.pc \notin {"off", "begin"} => op.hide = journal.hide
    /\ op.pc = "begin" =>
          /\ previews[op.by].state = "OFFERED" /\ op.hide = previews[op.by].hide
          /\ \A r \in previews[op.by].rows : at[r] # 0 /\ at[r] <= op.hide
    /\ Purging => /\ journal.by \in Preview
                  /\ previews[journal.by].state # "NONE"
                  /\ previews[journal.by].state = "OFFERED" => previews[journal.by].hide = journal.hide

(* Of what the journal has promised, the turns and every row but a batch lie
   behind the horizon, and are gone or about to be deleted; what earlier purges
   promised is gone, behind a cursor that does not go back. *)
Leaving(r) ==
    at[r] # 0 => /\ at[r] <= journal.hide
                 /\ op.pc \in {"off", "begin", "mark"} \/ (op.pc = "delete" /\ r \in op.left)
Promises(r) ==
    /\ Purging /\ r[2][2] <= cursor.observed
    /\ Leaving(Obs(r[2][2]))
    /\ r[1] # "batch" => Leaving(r)
    /\ r[1] = "lineage" => Intent(r[2]) \in promised.recorded
RecordedLeaves == \A r \in promised.recorded : Promises(r)
StaysAway(r) ==
    /\ r[2][2] <= cursor.observed /\ at[Obs(r[2][2])] = 0
    /\ r[1] # "batch" => at[r] = 0
    /\ r[1] = "lineage" => Intent(r[2]) \in promised.passed
PassedIsGone == \A r \in promised.passed : StaysAway(r)

AwayInv ==
    /\ RowsMatch /\ RowsAreDated /\ DetHolds /\ CoordHolds /\ PhasesHold
    /\ LeaseHolds /\ IndexHolds /\ OpHolds /\ RecordedLeaves /\ PassedIsGone

----
(* Rows and states match. *)

Match(id) ==
    /\ state.intent[id] = "ABSENT" <=> at[Intent(id)] = 0
    /\ state.batch[id] = "ABSENT" <=> at[Batch(id)] = 0

LEMMA MatchKept ==
  ASSUME NEW id \in Id, Match(id), state'.intent[id] = state.intent[id],
         state'.batch[id] = state.batch[id], at'[Intent(id)] = at[Intent(id)],
         at'[Batch(id)] = at[Batch(id)]
  PROVE Match(id)'
  BY DEF Match, Intent, Batch

LEMMA RecoverMatches ==
  ASSUME TypeInv, RowsMatch, Recover, NEW id \in Id
  PROVE Match(id)'
<1>1. Match(id) BY Zenon DEF RowsMatch, Match
<1> DEFINE
      batch == [i \in Id |-> IF state.batch[i] = "DETECTION_CLAIMED"
                             THEN "NEEDS_ATTENTION" ELSE state.batch[i]]
      intent == [i \in Id |->
                    IF state.intent[i] # "DETECTOR_STAGED" THEN state.intent[i]
                    ELSE CASE batch[i] = "COMMITTED_READY" -> "RELEASED"
                           [] batch[i] \in Terminal \ {"COMMITTED_READY"} -> "ABSENT"
                           [] OTHER -> "DETECTOR_STAGED"]
<1>2. \/ at' = at /\ state' = state
      \/ /\ state' = [batch |-> batch, intent |-> intent]
         /\ at' = [q \in RowKey |-> IF q[1] = "intent" /\ intent[q[2]] = "ABSENT" THEN 0 ELSE at[q]]
  BY Zenon DEF Recover, rowvars
<1>3. batch[id] = "ABSENT" <=> state.batch[id] = "ABSENT" OBVIOUS
<1>4. state.intent[id] = "ABSENT" => intent[id] = "ABSENT"
  <2> HIDE DEF batch
  <2> QED OBVIOUS
<1> HIDE DEF batch, intent
<1>5. CASE at' = at /\ state' = state BY <1>1, <1>5, MatchKept, Zenon
<1>6. CASE /\ state' = [batch |-> batch, intent |-> intent]
           /\ at' = [q \in RowKey |-> IF q[1] = "intent" /\ intent[q[2]] = "ABSENT" THEN 0 ELSE at[q]]
  <2>1. state'.batch = batch /\ state'.intent = intent BY <1>6
  <2>2. at'[Batch(id)] = at[Batch(id)] BY <1>6, RowsOfId
  <2>3. at'[Intent(id)] = IF intent[id] = "ABSENT" THEN 0 ELSE at[Intent(id)]
    BY <1>6, RowsOfId
  <2>4. intent[id] = "ABSENT" <=> at'[Intent(id)] = 0
    BY <1>1, <1>4, <2>3 DEF Match
  <2> QED BY <1>1, <1>3, <2>1, <2>2, <2>4, Zenon DEF Match, Intent, Batch
<1> QED BY <1>2, <1>5, <1>6

LEMMA RowsMatchStep ==
  ASSUME TypeInv, RowsMatch, RowsAreDated, DetHolds, CoordHolds, LeaseHolds, [Next]_vars
  PROVE RowsMatch'
<1> SUFFICES ASSUME NEW id \in Id PROVE Match(id)'
  BY Zenon DEF RowsMatch, Match
<1>0. /\ at \in [RowKey -> Time] /\ Match(id)
      /\ state.batch \in [Id -> BatchStates] /\ state.intent \in [Id -> IntentStates]
      /\ state = [batch |-> state.batch, intent |-> state.intent]
  BY TypeParts DEF AtTyped, StateTyped, RowsMatch, Match
<1>a. /\ Intent(id) \in RowKey /\ Batch(id) \in RowKey
      /\ Intent(id)[1] = "intent" /\ Intent(id)[2] = id /\ Batch(id)[1] = "batch" /\ Batch(id)[2] = id
  BY RowsOfId, Zenon
<1>b. clock # 0 /\ clock \in Nat
  BY TypeParts, BoundsAssumption DEF ClockTyped, Time
<1>1. CASE UNCHANGED state /\ at'[Intent(id)] = at[Intent(id)] /\ at'[Batch(id)] = at[Batch(id)]
  BY <1>0, <1>1, MatchKept, Zenon
<1>2. CASE RecordObservation
  <2>1. at' = [at EXCEPT ![Obs(cursor.observed + 1)] = ended[cursor.observed + 1]]
    BY <1>2, Zenon DEF RecordObservation
  <2>2. at'[Intent(id)] = at[Intent(id)] /\ at'[Batch(id)] = at[Batch(id)]
    BY <1>0, <1>a, <2>1 DEF Obs
  <2> QED BY <1>1, <1>2, <2>2, Zenon DEF RecordObservation
<1>3. CASE RouteCaptured
  <2>1. coord.pc = "route" BY <1>3, Zenon DEF RouteCaptured
  <2>2. coord.id \in Id /\ ended[coord.id[2]] # 0 /\ ended[coord.id[2]] <= coord.at
    BY <2>1, Zenon DEF CoordHolds
  <2>3. coord.at # 0
    <3>1. coord.id[2] \in Turn BY <2>2 DEF Id
    <3>2. ended[coord.id[2]] \in Nat /\ coord.at \in Nat
      BY <3>1, TypeParts DEF LogTyped, CoordTyped, Time
    <3> QED BY <2>2, <3>2
  <2>4. at' = [at EXCEPT ![Batch(coord.id)] = coord.at] /\ state' = [state EXCEPT !.batch[coord.id] = "FROZEN"]
    BY <1>3, Zenon DEF RouteCaptured, Batch
  <2>5. CASE id = coord.id
    BY <1>0, <1>a, <2>3, <2>4, <2>5 DEF Match, Intent, Batch
  <2>6. CASE id # coord.id
    <3>1. state'.intent[id] = state.intent[id] /\ state'.batch[id] = state.batch[id]
      BY <1>0, <2>4, <2>6
    <3>2. at'[Intent(id)] = at[Intent(id)] /\ at'[Batch(id)] = at[Batch(id)]
      BY <1>0, <1>a, <2>4, <2>6 DEF Intent, Batch
    <3> QED BY <1>0, <3>1, <3>2, MatchKept
  <2> QED BY <2>5, <2>6
<1>4. CASE CallReturns
  <2>1. det.id \in Id /\ state.batch[det.id] = "DETECTION_CLAIMED"
    BY <1>4 DEF CallReturns, DetHolds
  <2>2. \/ /\ at' = [at EXCEPT ![Intent(det.id)] = clock]
           /\ state' = [state EXCEPT !.intent[det.id] = "DETECTOR_STAGED"]
        \/ at' = at /\ state' = [state EXCEPT !.batch[det.id] = "COMMITTED_NONE"]
        \/ at' = at /\ state' = [state EXCEPT !.batch[det.id] = "NEEDS_ATTENTION"]
    BY <1>4 DEF CallReturns, Intent
  <2>3. CASE id = det.id
    <3>1. CASE /\ at' = [at EXCEPT ![Intent(det.id)] = clock]
               /\ state' = [state EXCEPT !.intent[det.id] = "DETECTOR_STAGED"]
      BY <1>0, <1>a, <1>b, <2>3, <3>1 DEF Match, Intent, Batch
    <3>2. ASSUME NEW s \in {"COMMITTED_NONE", "NEEDS_ATTENTION"}, at' = at,
                 state' = [state EXCEPT !.batch[det.id] = s]
          PROVE Match(id)'
      BY <1>0, <1>a, <2>1, <2>3, <3>2 DEF Match, Intent, Batch
    <3> QED BY <2>2, <3>1, <3>2
  <2>4. CASE id # det.id
    <3>1. state'.intent[id] = state.intent[id] /\ state'.batch[id] = state.batch[id]
      BY <1>0, <2>2, <2>4
    <3>2. at'[Intent(id)] = at[Intent(id)] /\ at'[Batch(id)] = at[Batch(id)]
      BY <1>0, <1>a, <2>2, <2>4 DEF Intent, Batch
    <3> QED BY <1>0, <3>1, <3>2, MatchKept
  <2> QED BY <2>3, <2>4
<1>5. CASE GenerationEnds
  <2>1. at' = [at EXCEPT ![Lineage(lease)] = clock] \/ at' = at
    BY <1>5, Zenon DEF GenerationEnds, Lineage
  <2>2. at'[Intent(id)] = at[Intent(id)] /\ at'[Batch(id)] = at[Batch(id)]
    BY <1>0, <1>a, <2>1 DEF Lineage
  <2> QED BY <1>1, <1>5, <2>2, Zenon DEF GenerationEnds
<1>6. ASSUME NEW q \in RowKey, DeleteRow(q) PROVE Match(id)'
  <2>1. /\ at' = [at EXCEPT ![q] = 0]
        /\ state' = IF q[1] \in {"batch", "intent"} THEN [state EXCEPT ![q[1]][q[2]] = "ABSENT"] ELSE state
    BY <1>6, Zenon DEF DeleteRow
  <2>2. CASE q = Intent(id)
    BY <1>0, <1>a, <2>1, <2>2 DEF Match, Intent, Batch
  <2>3. CASE q = Batch(id)
    BY <1>0, <1>a, <2>1, <2>3 DEF Match, Intent, Batch
  <2>4. CASE q # Intent(id) /\ q # Batch(id)
    <3>1. at'[Intent(id)] = at[Intent(id)] /\ at'[Batch(id)] = at[Batch(id)]
      BY <1>0, <1>a, <2>1, <2>4
    <3>2. q[1] = "intent" => q[2] # id BY <2>4, Kinds
    <3>3. q[1] = "batch" => q[2] # id BY <2>4, Kinds
    <3>4. state'.intent[id] = state.intent[id] /\ state'.batch[id] = state.batch[id]
      BY <1>0, <2>1, <3>2, <3>3
    <3> QED BY <1>0, <3>1, <3>4, MatchKept
  <2> QED BY <2>2, <2>3, <2>4
<1>7. ASSUME NEW i \in Id, ClaimNext(i) PROVE Match(id)'
  <2>1. /\ at' = at /\ state.batch[i] = "FROZEN"
        /\ \/ state' = [state EXCEPT !.batch[i] = "DETECTION_CLAIMED"]
           \/ state' = [state EXCEPT !.batch[i] = "NEEDS_ATTENTION"]
    BY <1>7 DEF ClaimNext
  <2> QED BY <1>0, <2>1 DEF Match, Intent, Batch
<1>8. CASE CommitReady
  <2>1. det.id \in Id /\ state.batch[det.id] = "DETECTION_CLAIMED"
    BY <1>8 DEF CommitReady, DetHolds
  <2>2. at' = at /\ state' = [state EXCEPT !.batch[det.id] = "COMMITTED_READY"]
    BY <1>8, Zenon DEF CommitReady
  <2> QED BY <1>0, <2>1, <2>2 DEF Match, Intent, Batch
<1>9. CASE RepairReadyIntents
  <2>1. at' = at /\ state' = [state EXCEPT !.intent[det.id] = IF state.intent[det.id] # "ABSENT" THEN "RELEASED" ELSE @]
    BY <1>9, Zenon DEF RepairReadyIntents
  <2> QED BY <1>0, <2>1 DEF Match, Intent, Batch
<1>10. CASE Recover BY <1>10, RecoverMatches, Zenon
<1>11. CASE UNCHANGED at /\ UNCHANGED state BY <1>0, <1>11, MatchKept
<1> QED
  BY <1>2, <1>3, <1>4, <1>5, <1>6, <1>7, <1>8, <1>9, <1>10, <1>11, RowWriters, StateWriters, Zenon
  DEF Claims, Deletes

----
(* The moves of the states, of the log and of the cursor. *)

LEMMA StateShape ==
  ASSUME TypeInv
  PROVE  /\ state.batch \in [Id -> BatchStates] /\ state.intent \in [Id -> IntentStates]
         /\ state = [batch |-> state.batch, intent |-> state.intent]
  BY TypeParts DEF StateTyped

LEMMA IntentStateMoves ==
  ASSUME TypeInv, [Next]_vars, NEW id \in Id
  PROVE  \/ state'.intent[id] = state.intent[id]
         \/ CallReturns /\ id = det.id /\ state.intent[id] = "ABSENT"
         \/ RepairReadyIntents /\ state.intent[id] # "ABSENT" /\ state'.intent[id] = "RELEASED"
         \/ DeleteRow(Intent(id)) /\ state'.intent[id] = "ABSENT"
         \/ Recover /\ state.intent[id] = "DETECTOR_STAGED"
<1>1. CASE RouteCaptured BY <1>1, StateShape DEF RouteCaptured
<1>2. CASE CallReturns
  <2>1. \/ state.intent[det.id] = "ABSENT" /\ state' = [state EXCEPT !.intent[det.id] = "DETECTOR_STAGED"]
        \/ \E s : state' = [state EXCEPT !.batch[det.id] = s]
    BY <1>2, Zenon DEF CallReturns
  <2> QED BY <1>2, <2>1, StateShape
<1>3. ASSUME NEW i \in Id, ClaimNext(i) PROVE state'.intent[id] = state.intent[id]
  <2>1. \E s : state' = [state EXCEPT !.batch[i] = s]
    BY <1>3, Zenon DEF ClaimNext
  <2> QED BY <2>1, StateShape
<1>4. CASE CommitReady BY <1>4, StateShape DEF CommitReady
<1>5. CASE RepairReadyIntents
  <2>1. state' = [state EXCEPT !.intent[det.id] = IF state.intent[det.id] # "ABSENT" THEN "RELEASED" ELSE @]
    BY <1>5, Zenon DEF RepairReadyIntents
  <2>2. state'.intent[id] = state.intent[id] \/ (state.intent[id] # "ABSENT" /\ state'.intent[id] = "RELEASED")
    BY <2>1, StateShape
  <2> QED BY <1>5, <2>2
<1>6. ASSUME NEW q \in RowKey, DeleteRow(q)
      PROVE state'.intent[id] = state.intent[id] \/ (q = Intent(id) /\ state'.intent[id] = "ABSENT")
  <2>1. state' = IF q[1] \in {"batch", "intent"} THEN [state EXCEPT ![q[1]][q[2]] = "ABSENT"] ELSE state
    BY <1>6, Zenon DEF DeleteRow
  <2>2. CASE q = Intent(id)
    <3>1. q[1] = "intent" /\ q[2] = id BY <2>2, RowsOfId
    <3> QED BY <2>1, <2>2, <3>1, StateShape
  <2>3. CASE q # Intent(id)
    <3>1. q[1] = "intent" => q[2] # id BY <2>3, Kinds
    <3> QED BY <2>1, <3>1, StateShape
  <2> QED BY <2>2, <2>3
<1>7. CASE Recover
  <2> DEFINE
      batch == [i \in Id |-> IF state.batch[i] = "DETECTION_CLAIMED"
                             THEN "NEEDS_ATTENTION" ELSE state.batch[i]]
      intent == [i \in Id |->
                    IF state.intent[i] # "DETECTOR_STAGED" THEN state.intent[i]
                    ELSE CASE batch[i] = "COMMITTED_READY" -> "RELEASED"
                           [] batch[i] \in Terminal \ {"COMMITTED_READY"} -> "ABSENT"
                           [] OTHER -> "DETECTOR_STAGED"]
  <2>1. state' = state \/ state' = [batch |-> batch, intent |-> intent]
    BY <1>7, Zenon DEF Recover, rowvars
  <2> HIDE DEF batch
  <2>2. state.intent[id] # "DETECTOR_STAGED" => intent[id] = state.intent[id] OBVIOUS
  <2> HIDE DEF intent
  <2> QED BY <1>7, <2>1, <2>2
<1> QED
  BY <1>1, <1>2, <1>3, <1>4, <1>5, <1>6, <1>7, StateWriters, Zenon DEF Claims, Deletes

LEMMA BatchStateMoves ==
  ASSUME TypeInv, [Next]_vars, NEW id \in Id
  PROVE  \/ state'.batch[id] = state.batch[id]
         \/ ClaimNext(id) /\ state.batch[id] = "FROZEN"
         \/ RouteCaptured /\ id = coord.id
         \/ (CallReturns \/ CommitReady) /\ id = det.id
         \/ DeleteRow(Batch(id)) /\ state'.batch[id] = "ABSENT"
         \/ Recover
<1>1. CASE RouteCaptured
  <2>1. state' = [state EXCEPT !.batch[coord.id] = "FROZEN"]
    BY <1>1, Zenon DEF RouteCaptured
  <2> QED BY <1>1, <2>1, StateShape
<1>2. CASE CallReturns
  <2>1. \/ state' = [state EXCEPT !.intent[det.id] = "DETECTOR_STAGED"]
        \/ \E s : state' = [state EXCEPT !.batch[det.id] = s]
    BY <1>2, Zenon DEF CallReturns
  <2>2. state'.batch[id] = state.batch[id] \/ id = det.id
    BY <2>1, StateShape
  <2> QED BY <1>2, <2>2
<1>3. ASSUME NEW i \in Id, ClaimNext(i)
      PROVE state'.batch[id] = state.batch[id] \/ (id = i /\ state.batch[i] = "FROZEN")
  <2>1. state.batch[i] = "FROZEN" /\ \E s : state' = [state EXCEPT !.batch[i] = s]
    BY <1>3, Zenon DEF ClaimNext
  <2> QED BY <2>1, StateShape
<1>4. CASE CommitReady
  <2>1. state' = [state EXCEPT !.batch[det.id] = "COMMITTED_READY"]
    BY <1>4, Zenon DEF CommitReady
  <2>2. state'.batch[id] = state.batch[id] \/ id = det.id
    BY <2>1, StateShape
  <2> QED BY <1>4, <2>2
<1>5. CASE RepairReadyIntents BY <1>5, StateShape DEF RepairReadyIntents
<1>6. ASSUME NEW q \in RowKey, DeleteRow(q)
      PROVE state'.batch[id] = state.batch[id] \/ (q = Batch(id) /\ state'.batch[id] = "ABSENT")
  <2>1. state' = IF q[1] \in {"batch", "intent"} THEN [state EXCEPT ![q[1]][q[2]] = "ABSENT"] ELSE state
    BY <1>6, Zenon DEF DeleteRow
  <2>2. CASE q = Batch(id)
    <3>1. q[1] = "batch" /\ q[2] = id BY <2>2, RowsOfId
    <3> QED BY <2>1, <2>2, <3>1, StateShape
  <2>3. CASE q # Batch(id)
    <3>1. q[1] = "batch" => q[2] # id BY <2>3, Kinds
    <3> QED BY <2>1, <3>1, StateShape
  <2> QED BY <2>2, <2>3
<1> QED
  BY <1>1, <1>2, <1>3, <1>4, <1>5, <1>6, StateWriters, Zenon DEF Claims, Deletes

LEMMA LogMoves ==
  ASSUME TypeInv, [Next]_vars, NEW n \in Turn
  PROVE  /\ ended'[n] = ended[n] \/ (TurnEnds /\ ended[n] = 0 /\ ended'[n] = clock)
         /\ clock \in Nat /\ clock' \in Nat /\ clock <= clock'
         /\ ended[n] \in Nat
<1>1. clock \in Nat /\ ended \in [Turn -> Time] /\ ended[n] \in Nat
  BY TypeParts DEF ClockTyped, LogTyped, Time
<1>2. ended'[n] = ended[n] \/ (TurnEnds /\ ended[n] = 0 /\ ended'[n] = clock)
  <2>1. CASE TurnEnds
    <3>1. PICK m \in Turn : ended[m] = 0 /\ ended' = [ended EXCEPT ![m] = clock]
      BY <2>1, Zenon DEF TurnEnds
    <3> QED BY <1>1, <2>1, <3>1
  <2> QED BY <2>1, LogWriters
<1>3. clock' \in {clock, clock + 1}
  <2>1. Offers => clock' \in {clock, clock + 1}
    BY Zenon DEF Offers, MakePreview
  <2> QED BY <2>1, ClockWriters
<1> QED BY <1>1, <1>2, <1>3

LEMMA RowsAreDatedStep ==
  ASSUME TypeInv, RowsMatch, RowsAreDated, DetHolds, CoordHolds, LeaseHolds, [Next]_vars
  PROVE RowsAreDated'
<1>0. at \in [RowKey -> Time] BY TypeParts DEF AtTyped
<1>1. LogIsBehind'
  <2> SUFFICES ASSUME NEW n \in Turn PROVE ended'[n] <= clock'
    BY Zenon DEF LogIsBehind
  <2>1. ended[n] <= clock BY Zenon DEF RowsAreDated, LogIsBehind
  <2> QED BY <2>1, LogMoves
<1>2. ASSUME NEW r \in RowKey PROVE Dated(r)'
  <2>0. r[2][2] \in Turn /\ at[r] \in Nat BY <1>0, Kinds DEF Time
  <2> DEFINE n == r[2][2]
  <2>1. Dated(r) /\ ended[n] \in Nat /\ ended[n] <= clock
    BY <2>0, LogMoves DEF RowsAreDated, LogIsBehind
  <2> HIDE DEF n
  <2>2. CASE at'[r] = at[r]
    <3>1. at[r] # 0 => ended'[n] = ended[n]
      BY <2>0, <2>1, LogMoves, Zenon DEF Dated, n
    <3> QED BY <2>1, <2>2, <3>1 DEF Dated, n
  <2>3. CASE RecordObservation /\ r = Obs(cursor.observed + 1) /\ at'[r] = ended[cursor.observed + 1]
    <3>1. ended[cursor.observed + 1] # 0 /\ UNCHANGED ended /\ r[2][2] = cursor.observed + 1
      BY <2>3 DEF RecordObservation, log, Obs
    <3> QED BY <2>1, <2>3, <3>1 DEF Dated, n
  <2>4. CASE RouteCaptured /\ r = Batch(coord.id) /\ at'[r] = coord.at
    <3>1. coord.pc = "route" /\ UNCHANGED ended
      BY <2>4, Zenon DEF RouteCaptured, log
    <3>2. r[2][2] = coord.id[2] BY <2>4 DEF Batch
    <3> QED BY <2>1, <2>4, <3>1, <3>2 DEF Dated, CoordHolds, n
  <2>5. CASE CallReturns /\ r = Intent(det.id) /\ at'[r] = clock
    <3>1. det.pc = "called" /\ UNCHANGED ended
      BY <2>5, Zenon DEF CallReturns, log
    <3>2. det.id \in Id /\ state.batch[det.id] = "DETECTION_CLAIMED"
      BY <3>1, Zenon DEF DetHolds
    <3>3. at[Batch(det.id)] # 0 BY <3>2 DEF RowsMatch
    <3>4. ended[det.id[2]] # 0
      <4>1. Batch(det.id) \in RowKey /\ Batch(det.id)[2] = det.id
        BY <3>2, RowsOfId, Zenon
      <4>2. Dated(Batch(det.id)) BY <4>1, Zenon DEF RowsAreDated
      <4> QED BY <3>3, <4>1, <4>2, Zenon DEF Dated
    <3>5. r[2][2] = det.id[2] BY <2>5 DEF Intent
    <3> QED BY <2>1, <2>5, <3>1, <3>4, <3>5 DEF Dated, n
  <2>6. CASE GenerationEnds /\ r = Lineage(lease) /\ at'[r] = clock
    <3>1. lease # NoId /\ UNCHANGED ended
      BY <2>6, Zenon DEF GenerationEnds, log
    <3>2. lease \in Id /\ state.intent[lease] = "RELEASED"
      BY <3>1, TypeParts DEF LeaseHolds, GlobalTyped
    <3>3. at[Intent(lease)] # 0 BY <3>2 DEF RowsMatch
    <3>4. ended[lease[2]] # 0
      <4>1. Intent(lease) \in RowKey /\ Intent(lease)[2] = lease
        BY <3>2, RowsOfId, Zenon
      <4>2. Dated(Intent(lease)) BY <4>1, Zenon DEF RowsAreDated
      <4> QED BY <3>3, <4>1, <4>2, Zenon DEF Dated
    <3>5. r[2][2] = lease[2] BY <2>6 DEF Lineage
    <3> QED BY <2>1, <2>6, <3>1, <3>4, <3>5 DEF Dated, n
  <2>7. CASE at'[r] = 0 BY <2>7 DEF Dated
  <2> QED BY <2>2, <2>3, <2>4, <2>5, <2>6, <2>7, RowMoves, Zenon DEF Comes, Goes
<1>3. ASSUME NEW n \in Turn PROVE at'[Obs(n)] \in {0, ended'[n]}
  <2>0. Obs(n) \in RowKey /\ Obs(n)[1] = "obs" /\ Obs(n)[2][2] = n
    BY RowsOfTurn
  <2>1. at[Obs(n)] \in {0, ended[n]} /\ Dated(Obs(n))
    BY <2>0 DEF RowsAreDated
  <2>2. CASE at'[Obs(n)] = at[Obs(n)]
    <3>1. at[Obs(n)] # 0 => ended'[n] = ended[n]
      BY <2>0, <2>1, LogMoves, Zenon DEF Dated
    <3> QED BY <2>1, <2>2, <3>1
  <2>3. CASE RecordObservation /\ Obs(n) = Obs(cursor.observed + 1) /\ at'[Obs(n)] = ended[cursor.observed + 1]
    <3>1. n = cursor.observed + 1 /\ UNCHANGED ended
      BY <2>3 DEF Obs, RecordObservation, log
    <3> QED BY <2>3, <3>1
  <2>4. CASE at'[Obs(n)] = 0 BY <2>4
  <2>5. \A id : Obs(n) # Batch(id) /\ Obs(n) # Intent(id) /\ Obs(n) # Lineage(id)
    BY DEF Obs, Batch, Intent, Lineage
  <2> QED BY <2>0, <2>2, <2>3, <2>4, <2>5, RowMoves, Zenon DEF Comes, Goes
<1> QED BY <1>1, <1>2, <1>3, Zenon DEF RowsAreDated, Dated, Obs

----
(* The workers. *)

(* A deletion is under a journal, and under a journal nothing is claimed. *)
LEMMA DeletesUnderJournal ==
  ASSUME TypeInv, OpIsJournalled, PurgeIsQuiet, Deletes
  PROVE  /\ Purging /\ lease = NoId /\ UNCHANGED <<journal, lease, det>>
         /\ \A id \in Id : state.batch[id] # "DETECTION_CLAIMED"
<1>1. PICK r \in RowKey : DeleteRow(r) BY Zenon DEF Deletes
<1>2. op.pc = "delete" /\ UNCHANGED <<journal, lease, det>>
  BY <1>1, Zenon DEF DeleteRow, global, workers
<1>3. Purging BY <1>2, Zenon DEF OpIsJournalled
<1> QED BY <1>2, <1>3, Zenon DEF PurgeIsQuiet

(* Under one no call of the detector's model is out. *)
LEMMA NoCallUnderPurge ==
  ASSUME PurgeIsQuiet, DetHolds, Purging
  PROVE det.pc \notin {"called", "commit"} /\ lease = NoId /\ ~mutation
  BY Zenon DEF PurgeIsQuiet, DetHolds

LEMMA ObservationsStay ==
  ASSUME TypeInv, OpIsJournalled, PurgeIsQuiet, DetHolds, PhasesHold, [Next]_vars,
         NEW n \in Turn, at[Obs(n)] # 0, ~Deletes
  PROVE at'[Obs(n)] # 0
<1>1. Obs(n) \in RowKey /\ Obs(n)[1] = "obs" BY RowsOfTurn
<1>2. RecordObservation => ended[cursor.observed + 1] # 0
  BY Zenon DEF RecordObservation
<1>3. \A id : Obs(n) # Batch(id) /\ Obs(n) # Intent(id) /\ Obs(n) # Lineage(id)
  BY DEF Obs, Batch, Intent, Lineage
<1>4. ~Goes(Obs(n)) BY <1>1, Zenon DEF Goes, Deletes
<1> QED BY <1>1, <1>2, <1>3, <1>4, RowMoves, Zenon DEF Comes

LEMMA DetHoldsStep ==
  ASSUME TypeInv, OpIsJournalled, PurgeIsQuiet, DetHolds, CoordHolds, PhasesHold, [Next]_vars
  PROVE DetHolds'
<1>1. ASSUME NEW id \in Id, ClaimNext(id) PROVE DetHolds'
  <2>1. CASE id[1] .. id[2] \subseteq Stored
    <3>1. det' = [pc |-> "called", id |-> id] /\ at' = at
          /\ state' = [state EXCEPT !.batch[id] = "DETECTION_CLAIMED"]
      BY <1>1, <2>1, Zenon DEF ClaimNext
    <3>2. id[2] \in id[1] .. id[2] BY BoundsAssumption DEF Id, Turn
    <3>3. at[Obs(id[2])] # 0 BY <2>1, <3>2, Zenon DEF Stored, Rows
    <3>4. state'.batch[id] = "DETECTION_CLAIMED" BY <3>1, StateShape
    <3>5. det'.id = id /\ det'.pc = "called" BY <3>1
    <3>6. at'[Obs(det'.id[2])] # 0 BY <3>1, <3>3, <3>5, Zenon
    <3> QED BY <3>4, <3>5, <3>6, Zenon DEF DetHolds, Obs
  <2>2. CASE ~(id[1] .. id[2] \subseteq Stored)
    <3>1. det' = [pc |-> "advance", id |-> id]
      BY <1>1, <2>2, Zenon DEF ClaimNext
    <3> QED BY <3>1 DEF DetHolds
  <2> QED BY <2>1, <2>2
<1>2. CASE CallReturns
  <2>0. det.pc = "called" BY <1>2, Zenon DEF CallReturns
  <2>1. det.id \in Id /\ state.batch[det.id] = "DETECTION_CLAIMED"
    BY <2>0, Zenon DEF DetHolds
  <2>2. CASE /\ state' = [state EXCEPT !.intent[det.id] = "DETECTOR_STAGED"]
             /\ det' = [det EXCEPT !.pc = "commit"]
    BY <2>1, <2>2, StateShape, TypeParts DEF DetHolds, DetTyped
  <2>3. CASE det' = [det EXCEPT !.pc = "advance"]
    BY <2>3, TypeParts DEF DetHolds, DetTyped
  <2> QED BY <1>2, <2>2, <2>3, Zenon DEF CallReturns
<1>3. CASE CommitReady \/ RepairReadyIntents
  <2>1. det' \in {[det EXCEPT !.pc = "release"], [det EXCEPT !.pc = "advance"], NoDet}
    BY <1>3 DEF CommitReady, RepairReadyIntents
  <2> QED BY <2>1, TypeParts DEF DetHolds, DetTyped, NoDet
<1>4. CASE AdvanceCursor \/ Crash \/ Reopen
  BY <1>4 DEF AdvanceCursor, Crash, Reopen, Stop, NoDet, DetHolds
<1>5. CASE UNCHANGED det /\ ~Deletes /\ ~Recover /\ ~CallReturns /\ ~CommitReady /\ ~Claims
  <2>1. det.pc = "called" => at'[Obs(det.id[2])] # 0
    <3>1. det.pc = "called" => det.id[2] \in Turn /\ at[Obs(det.id[2])] # 0
      BY DEF DetHolds, Id
    <3> QED BY <1>5, <3>1, ObservationsStay, Zenon
  <2>2. det.pc \in {"called", "commit"} => det.id \in Id /\ state'.batch[det.id] = "DETECTION_CLAIMED"
    <3> SUFFICES ASSUME det.pc \in {"called", "commit"}
                 PROVE det.id \in Id /\ state'.batch[det.id] = "DETECTION_CLAIMED" OBVIOUS
    <3>1. det.id \in Id /\ state.batch[det.id] = "DETECTION_CLAIMED"
      BY Zenon DEF DetHolds
    <3>2. RouteCaptured => state.batch[coord.id] = "ABSENT"
      BY DEF RouteCaptured, CoordHolds
    <3>3. ~(RouteCaptured /\ det.id = coord.id) BY <3>1, <3>2
    <3>4. ~ClaimNext(det.id) /\ ~DeleteRow(Batch(det.id))
      BY <1>5, <3>1, RowsOfId, Zenon DEF Claims, Deletes
    <3>5. state'.batch[det.id] = state.batch[det.id]
      BY <1>5, <3>1, <3>3, <3>4, BatchStateMoves, Zenon
    <3> QED BY <3>1, <3>5
  <2> QED BY <1>5, <2>1, <2>2 DEF DetHolds, Obs
<1>6. CASE Deletes
  <2>1. det.pc \notin {"called", "commit"} /\ UNCHANGED det
    BY <1>6, DeletesUnderJournal, NoCallUnderPurge, Zenon
  <2> QED BY <2>1 DEF DetHolds
<1>7. CASE Recover
  <2>1. det.pc = "off" /\ UNCHANGED det BY <1>7 DEF Recover, PhasesHold
  <2> QED BY <2>1 DEF DetHolds
<1> QED BY <1>1, <1>2, <1>3, <1>4, <1>5, <1>6, <1>7, DetWriters, Zenon DEF Claims

(* The cursor does not go back. *)
LEMMA ObservedMoves ==
  ASSUME TypeInv, CoordHolds, [Next]_vars
  PROVE  /\ cursor.observed \in Nat /\ cursor'.observed >= cursor.observed
         /\ cursor'.observed # cursor.observed => FreezeOne \/ BindFrozen \/ Recover
<1>0. cursor.observed \in 0 .. MaxTurn /\ MaxTurn \in Nat /\ cursor.observed \in Nat
  BY TypeParts, BoundsAssumption DEF CursorTyped
<1>1. CASE FreezeOne \/ BindFrozen
  <2>1. coord.pc # "off" /\ (UNCHANGED cursor \/ \E a : WriteCursor(a))
    BY <1>1 DEF FreezeOne, BindFrozen, global
  <2>2. ASSUME NEW a, WriteCursor(a) PROVE cursor'.observed = coord.seen
    BY <2>2, TypeParts DEF WriteCursor, CursorTyped
  <2> QED BY <1>0, <1>1, <2>1, <2>2 DEF CoordHolds
<1>2. CASE AdvanceCursor
  <2>1. cursor' = cursor \/ cursor' = [cursor EXCEPT !.detected = det.id[2], !.active = NoId]
    BY <1>2, Zenon DEF AdvanceCursor
  <2>2. cursor'.observed = cursor.observed
    BY <2>1, TypeParts DEF CursorTyped
  <2>3. ~(cursor'.observed # cursor.observed) /\ cursor'.observed >= cursor.observed
    BY <1>0, <2>2
  <2> QED BY <1>0, <2>3, Zenon
<1>3. CASE Finish
  BY <1>0, <1>3, TypeParts DEF Finish, Cleared, CursorTyped
<1>4. CASE Recover
  <2>1. cursor' = cursor \/ cursor'.observed = Last({cursor.observed} \cup Stored)
    BY <1>4 DEF Recover
  <2>2. {cursor.observed} \cup Stored \in SUBSET (0 .. MaxTurn)
    BY <1>0, TurnsArePositive DEF Stored
  <2>3. Last({cursor.observed} \cup Stored) >= cursor.observed
    BY <2>2, LastIsMember, Zenon
  <2> QED BY <1>0, <1>4, <2>1, <2>3
<1> QED BY <1>0, <1>1, <1>2, <1>3, <1>4, CursorWriters

LEMMA CoordHoldsStep ==
  ASSUME TypeInv, OpIsJournalled, PurgeIsQuiet, RowsAreDated, DetHolds, CoordHolds, PhasesHold,
         [Next]_vars
  PROVE CoordHolds'
<1>0. /\ cursor.observed \in Nat /\ CoordTyped /\ cursor.observed \in 0 .. MaxTurn
      /\ clock \in Nat
  BY TypeParts DEF CursorTyped, ClockTyped, Time
<1>1. CASE RecordObservation \/ FlushIdle
  <2>1. /\ coord' \in {[NoCoord EXCEPT !.pc = "stored", !.seen = cursor.observed + 1],
                       [NoCoord EXCEPT !.pc = "stored", !.seen = cursor.observed]}
        /\ cursor' = cursor
    BY <1>1, Zenon DEF RecordObservation, FlushIdle, global
  <2>2. coord'.pc = "stored" /\ coord'.seen >= cursor'.observed
    <3>1. coord'.pc = "stored" /\ coord'.seen \in {cursor.observed + 1, cursor.observed}
      BY <2>1 DEF NoCoord
    <3>2. cursor'.observed = cursor.observed BY <2>1
    <3> QED BY <1>0, <3>1, <3>2
  <2> QED BY <2>2 DEF CoordHolds
<1>2. CASE FreezeOne
  <2> DEFINE pending == {n \in Stored : n > cursor.detected}
             id == <<First(pending), Last(pending)>>
  <2>1. \/ coord' = NoCoord
        \/ /\ pending # {} /\ state.batch[id] = "ABSENT" /\ UNCHANGED cursor
           /\ coord' = [coord EXCEPT !.pc = "route", !.id = id, !.at = clock]
    BY <1>2, Zenon DEF FreezeOne, WriteCursor, global
  <2>2. UNCHANGED state /\ UNCHANGED ended /\ coord.pc = "stored"
    BY <1>2, Zenon DEF FreezeOne, rowvars, log
  <2>3. CASE coord' = NoCoord BY <2>3 DEF CoordHolds, NoCoord
  <2>4. CASE /\ pending # {} /\ state.batch[id] = "ABSENT" /\ UNCHANGED cursor
             /\ coord' = [coord EXCEPT !.pc = "route", !.id = id, !.at = clock]
    <3>1. pending \in SUBSET Turn /\ pending \in SUBSET (0 .. MaxTurn)
      BY TurnsArePositive DEF Stored
    <3>2. id \in Id /\ Last(pending) \in pending
      BY <2>4, <3>1, PendingIsRange, LastIsMember, Zenon
    <3>3. Last(pending) \in Turn /\ at[Obs(Last(pending))] # 0
      BY <3>2, Zenon DEF Stored, Rows
    <3>4. ended[Last(pending)] # 0 /\ ended[Last(pending)] <= clock
      BY <3>3 DEF RowsAreDated, LogIsBehind
    <3>5. id[2] = Last(pending) OBVIOUS
    <3> HIDE DEF pending, id
    <3>6. /\ coord'.pc = "route" /\ coord'.id = id /\ coord'.at = clock
          /\ coord'.seen = coord.seen
      BY <1>0, <2>4 DEF CoordTyped
    <3> QED BY <2>2, <2>4, <3>2, <3>4, <3>5, <3>6 DEF CoordHolds
  <2> QED BY <2>1, <2>3, <2>4
<1>3. CASE RouteCaptured
  <2>1. coord' = [coord EXCEPT !.pc = "put"] /\ cursor' = cursor /\ coord.pc = "route"
    BY <1>3, Zenon DEF RouteCaptured, global
  <2> QED BY <1>0, <2>1 DEF CoordHolds, CoordTyped
<1>4. CASE BindFrozen \/ Crash \/ Reopen
  BY <1>4 DEF BindFrozen, WriteCursor, Crash, Reopen, Stop, NoCoord, CoordHolds
<1>5. CASE UNCHANGED coord /\ ~FreezeOne /\ ~BindFrozen /\ ~RouteCaptured
  <2>1. coord.pc # "off" => ~Recover BY DEF Recover, PhasesHold
  <2>2. coord.pc # "off" => cursor'.observed = cursor.observed
    BY <1>5, <2>1, ObservedMoves, Zenon
  <2>3. ASSUME coord.pc = "route"
        PROVE  /\ coord.id \in Id /\ state'.batch[coord.id] = "ABSENT"
               /\ ended'[coord.id[2]] # 0 /\ ended'[coord.id[2]] <= coord.at
    <3>1. /\ coord.id \in Id /\ state.batch[coord.id] = "ABSENT"
          /\ ended[coord.id[2]] # 0 /\ ended[coord.id[2]] <= coord.at
      BY <2>3, Zenon DEF CoordHolds
    <3>2. coord.id[2] \in Turn BY <3>1, RowsOfId
    <3>3. ended'[coord.id[2]] = ended[coord.id[2]]
      BY <3>1, <3>2, LogMoves, Zenon
    <3>4. CallReturns \/ CommitReady => state.batch[det.id] = "DETECTION_CLAIMED"
      BY DEF CallReturns, CommitReady, DetHolds
    <3>5. ~((CallReturns \/ CommitReady) /\ coord.id = det.id)
      BY <3>1, <3>4
    <3>6. ~ClaimNext(coord.id) /\ ~Recover
      BY <2>1, <2>3 DEF ClaimNext, Detectable, Exclusive
    <3>7. state'.batch[coord.id] = state.batch[coord.id] \/ state'.batch[coord.id] = "ABSENT"
      BY <1>5, <3>1, <3>5, <3>6, BatchStateMoves, Zenon
    <3> QED BY <3>1, <3>3, <3>7
  <2> QED BY <1>5, <2>2, <2>3 DEF CoordHolds
<1> QED BY <1>1, <1>2, <1>3, <1>4, <1>5, CoordWriters, Zenon

(* The moves of the operation. *)
OpMove ==
    \/ op' = op
    \/ op' = NoOp
    \/ \E n \in Preview : /\ Confirm(n)
                          /\ op'.pc = "begin" /\ op'.by = n /\ op'.hide = previews[n].hide
    \/ Resumes /\ op'.pc = "mark" /\ op'.hide = journal.hide
    \/ Begin /\ MayBegin /\ op'.pc = "mark" /\ op'.hide = op.hide
    \/ MarkDeleting /\ op'.pc = "delete" /\ op'.hide = op.hide /\ op'.left = Candidates(op.hide)
    \/ \E r \in RowKey : /\ DeleteRow(r)
                         /\ op'.pc = "delete" /\ op'.hide = op.hide /\ op'.left = op.left \ {r}
    \/ MarkValidating /\ op'.pc = "check" /\ op'.hide = op.hide
    \/ /\ CheckResidue /\ Candidates(op.hide) = {}
       /\ op'.pc = "final" /\ op'.hide = op.hide
       /\ op'.left = {r \in Rows : r[1] = "intent"}

LEMMA OpMoves ==
  ASSUME TypeInv, [Next]_vars
  PROVE OpMove
<1>0. OpTyped BY TypeParts, Zenon
<1>1. CASE UNCHANGED op BY <1>1, Zenon DEF OpMove
<1>2. ASSUME NEW n \in Preview, Confirm(n) PROVE OpMove
  <2>1. op'.pc = "begin" /\ op'.by = n /\ op'.hide = previews[n].hide
    BY <1>2 DEF Confirm, NoOp
  <2> QED BY <1>2, <2>1, Zenon DEF OpMove
<1>3. CASE Resumes
  <2>1. op'.pc = "mark" /\ op'.hide = journal.hide
    BY <1>3 DEF Resumes, ResumeJournal, NoOp
  <2> QED BY <1>3, <2>1, Zenon DEF OpMove
<1>4. CASE Begin
  <2>1. op' = NoOp \/ (MayBegin /\ op' = [op EXCEPT !.pc = "mark"])
    BY <1>4, Zenon DEF Begin, Throw
  <2>2. op' = NoOp \/ (MayBegin /\ op'.pc = "mark" /\ op'.hide = op.hide)
    BY <1>0, <2>1 DEF OpTyped
  <2> QED BY <1>4, <2>2, Zenon DEF OpMove
<1>5. CASE MarkDeleting
  <2> DEFINE selected == Candidates(op.hide)
  <2>1. op' = [op EXCEPT !.pc = "delete", !.left = selected]
    BY <1>5, Zenon DEF MarkDeleting
  <2> HIDE DEF selected
  <2>2. op'.pc = "delete" /\ op'.hide = op.hide /\ op'.left = selected
    BY <1>0, <2>1 DEF OpTyped
  <2> QED BY <1>5, <2>2, Zenon DEF OpMove, selected
<1>6. ASSUME NEW r \in RowKey, DeleteRow(r) PROVE OpMove
  <2>1. op.pc = "delete" /\ op' = [op EXCEPT !.left = op.left \ {r}]
    BY <1>6, Zenon DEF DeleteRow
  <2>2. op'.pc = "delete" /\ op'.hide = op.hide /\ op'.left = op.left \ {r}
    BY <1>0, <2>1 DEF OpTyped
  <2> QED BY <1>6, <2>2, Zenon DEF OpMove
<1>7. CASE MarkValidating
  <2>1. op' = [op EXCEPT !.pc = "check"]
    BY <1>7, Zenon DEF MarkValidating
  <2>2. op'.pc = "check" /\ op'.hide = op.hide BY <1>0, <2>1 DEF OpTyped
  <2> QED BY <1>7, <2>2, Zenon DEF OpMove
<1>8. CASE CheckResidue
  <2> DEFINE intents == {r \in Rows : r[1] = "intent"}
  <2>1. op' = NoOp \/ (Candidates(op.hide) = {} /\ op' = [op EXCEPT !.pc = "final", !.left = intents])
    BY <1>8, Zenon DEF CheckResidue, Throw
  <2> HIDE DEF intents
  <2>2. \/ op' = NoOp
        \/ /\ Candidates(op.hide) = {}
           /\ op'.pc = "final" /\ op'.hide = op.hide /\ op'.left = intents
    BY <1>0, <2>1 DEF OpTyped
  <2> QED BY <1>8, <2>2, Zenon DEF OpMove, intents
<1>9. CASE Finish \/ WriteFails \/ Crash \/ Reopen
  <2>1. op' = NoOp
    BY <1>9, Zenon DEF Finish, WriteFails, Throw, Crash, Reopen, Stop
  <2> QED BY <2>1, Zenon DEF OpMove
<1> QED
  BY <1>1, <1>2, <1>3, <1>4, <1>5, <1>6, <1>7, <1>8, <1>9, OpWriters, Zenon DEF Confirms, Deletes

LEMMA BegunByConfirm ==
  ASSUME TypeInv, [Next]_vars, op'.pc = "begin"
  PROVE UNCHANGED op \/ Confirms
<1>1. op' # NoOp BY DEF NoOp
<1>2. op'.pc \notin {"mark", "delete", "check", "final"} OBVIOUS
<1> QED BY <1>1, <1>2, OpMoves DEF OpMove, Confirms

LEMMA PhasesHoldStep ==
  ASSUME TypeInv, OpIsJournalled, PhasesHold, [Next]_vars
  PROVE PhasesHold'
<1>1. phase' # "up" => coord'.pc = "off" /\ det'.pc = "off"
  <2> SUFFICES ASSUME phase' # "up" PROVE coord'.pc = "off" /\ det'.pc = "off" OBVIOUS
  <2>1. CASE Crash \/ Reopen
    BY <2>1 DEF Crash, Reopen, Stop, NoCoord, NoDet
  <2>2. CASE UNCHANGED <<coord, det>> /\ (UNCHANGED phase \/ phase # "up")
    BY <2>2, Zenon DEF PhasesHold
  <2>3. CASE UNCHANGED phase
    <3>1. coord.pc = "off" /\ det.pc = "off" /\ ~Up
      BY <2>3, Zenon DEF PhasesHold, Up
    <3>2. ~RecordObservation /\ ~FlushIdle /\ ~FreezeOne /\ ~RouteCaptured /\ ~BindFrozen
      BY <3>1 DEF RecordObservation, FlushIdle, FreezeOne, RouteCaptured, BindFrozen
    <3>3. ~Claims /\ ~CallReturns /\ ~CommitReady /\ ~RepairReadyIntents /\ ~AdvanceCursor
      BY <3>1 DEF Claims, ClaimNext, Detectable, CallReturns, CommitReady, RepairReadyIntents,
         AdvanceCursor
    <3>4. (UNCHANGED coord /\ UNCHANGED det) \/ Crash \/ Reopen
      BY <3>2, <3>3, CoordWriters, DetWriters, Zenon
    <3> QED BY <2>1, <3>1, <3>4
  <2>4. CASE Begin \/ CheckResidue \/ Finish \/ WriteFails
    <3>1. UNCHANGED <<coord, det>>
      BY <2>4, Zenon DEF Begin, CheckResidue, Finish, WriteFails
    <3>2. UNCHANGED phase \/ phase # "up"
      BY <2>4 DEF Begin, CheckResidue, Finish, WriteFails, Throw, Up
    <3> QED BY <2>2, <3>1, <3>2
  <2>5. CASE Start \/ Recover
    <3>1. UNCHANGED <<coord, det>> /\ phase # "up"
      BY <2>5 DEF Start, Recover
    <3> QED BY <2>2, <3>1
  <2> QED BY <2>1, <2>3, <2>4, <2>5, PhaseWriters, Zenon
<1>2. phase' \in {"down", "recover"} => op'.pc = "off"
  <2> SUFFICES ASSUME phase' \in {"down", "recover"} PROVE op'.pc = "off" OBVIOUS
  <2>1. CASE op' = NoOp BY <2>1 DEF NoOp
  <2>2. CASE UNCHANGED phase
    <3>1. op.pc = "off" /\ ~Up /\ phase # "purge"
      BY <2>2 DEF PhasesHold, Up
    <3>2. ~Confirms /\ ~Begin /\ ~MarkDeleting /\ ~Deletes /\ ~MarkValidating /\ ~CheckResidue
          /\ ~Finish
      BY <3>1 DEF Confirms, Confirm, Begin, MarkDeleting, Deletes, DeleteRow, MarkValidating,
         CheckResidue, Finish
    <3>3. Crash \/ Reopen \/ WriteFails => op' = NoOp
      BY Zenon DEF Crash, Reopen, Stop, WriteFails, Throw
    <3>4. ~Resumes BY <3>1, Zenon DEF Resumes
    <3> QED BY <2>1, <3>1, <3>2, <3>3, <3>4, OpWriters, Zenon
  <2>3. CASE Begin \/ CheckResidue \/ WriteFails
    <3>1. UNCHANGED phase \/ op' = NoOp
      BY <2>3, Zenon DEF Begin, CheckResidue, WriteFails, Throw
    <3> QED BY <2>1, <2>2, <3>1
  <2>4. CASE Finish \/ Crash \/ Reopen
    BY <2>1, <2>4, Zenon DEF Finish, Throw, Crash, Reopen, Stop
  <2>5. CASE Start \/ Recover
    <3>1. UNCHANGED op /\ phase \in {"down", "recover"}
      BY <2>5 DEF Start, Recover, service
    <3> QED BY <3>1 DEF PhasesHold
  <2> QED BY <2>2, <2>3, <2>4, <2>5, PhaseWriters, Zenon
<1>3. phase' = "recover" => ~Purging'
  <2> SUFFICES ASSUME phase' = "recover" PROVE ~Purging' OBVIOUS
  <2>1. CASE UNCHANGED phase /\ UNCHANGED journal
    BY <2>1, Zenon DEF PhasesHold, Purging
  <2>2. CASE UNCHANGED phase /\ (Begin \/ MarkDeleting \/ MarkValidating \/ Finish)
    <3>1. op.pc = "off" BY <2>2 DEF PhasesHold
    <3> QED BY <2>2, <3>1 DEF Begin, MarkDeleting, MarkValidating, Finish
  <2>3. CASE Begin \/ CheckResidue \/ WriteFails
    <3>1. UNCHANGED phase \/ phase' \in {"up", "down"}
      BY <2>3 DEF Begin, CheckResidue, WriteFails, Throw
    <3>2. CheckResidue \/ WriteFails => UNCHANGED journal
      BY Zenon DEF CheckResidue, WriteFails, global
    <3> QED BY <2>1, <2>2, <2>3, <3>1, <3>2
  <2>4. CASE Finish
    <3>1. journal' = NoJournal \/ phase' \in {"up", "down"}
      BY <2>4 DEF Finish, Throw
    <3> QED BY <3>1, Zenon DEF Purging
  <2>5. CASE Crash \/ Reopen BY <2>5 DEF Crash, Reopen, Stop
  <2>6. CASE Start BY <2>6 DEF Start, AfterActivation, Purging, global
  <2>7. CASE Recover
    <3>1. phase' \in {"down", "up"} BY <2>7, Zenon DEF Recover
    <3> QED BY <3>1
  <2> QED BY <2>1, <2>2, <2>3, <2>4, <2>5, <2>6, <2>7, PhaseWriters, JournalWriters, Zenon
<1>4. op'.pc = "begin" => Up'
  <2>2. CASE UNCHANGED op
    <3> SUFFICES ASSUME op.pc = "begin" PROVE phase' = "up"
      BY <2>2, Zenon DEF Up
    <3>1. phase = "up" BY Zenon DEF PhasesHold, Up
    <3>2. ~Start /\ ~Recover /\ ~CheckResidue /\ ~Finish
      BY <3>1 DEF Start, Recover, CheckResidue, Finish
    <3>3. Begin \/ WriteFails \/ Crash \/ Reopen => op' = NoOp \/ op'.pc = "mark" \/ UNCHANGED phase
      <4>1. Begin => op' = NoOp \/ op' = [op EXCEPT !.pc = "mark"]
        BY Zenon DEF Begin, Throw
      <4>2. Begin => op' = NoOp \/ op'.pc = "mark"
        BY <4>1, TypeParts DEF OpTyped
      <4> QED BY <4>2, Zenon DEF WriteFails, Throw, Crash, Reopen, Stop
    <3>4. op'.pc # "mark" /\ op' # NoOp BY <2>2 DEF NoOp
    <3> QED BY <3>1, <3>2, <3>3, <3>4, PhaseWriters, Zenon
  <2>3. CASE Confirms BY <2>3 DEF Confirms, Confirm, Up, workers
  <2>4. op'.pc = "begin" => UNCHANGED op \/ Confirms
    BY BegunByConfirm, Zenon
  <2> QED BY <2>2, <2>3, <2>4
<1> QED BY <1>1, <1>2, <1>3, <1>4, Zenon DEF PhasesHold

(* The rows of one kind are not those of another. *)
LEMMA KindsDiffer ==
  ASSUME NEW a, NEW b
  PROVE  /\ Obs(a) # Batch(b) /\ Obs(a) # Intent(b) /\ Obs(a) # Lineage(b)
         /\ Batch(a) # Intent(b) /\ Batch(a) # Lineage(b) /\ Intent(a) # Lineage(b)
         /\ Intent(a) = Intent(b) => a = b
         /\ Lineage(a) = Lineage(b) => a = b
         /\ Batch(a) = Batch(b) => a = b
  BY DEF Obs, Batch, Intent, Lineage

LEMMA GenerationEndsLease == GenerationEnds => lease # NoId /\ lease' = NoId
  BY Zenon DEF GenerationEnds

LEMMA LeaseHoldsStep ==
  ASSUME TypeInv, OpIsJournalled, PurgeIsQuiet, LeaseHolds, [Next]_vars
  PROVE LeaseHolds'
<1>1. ASSUME NEW id \in Id, AcquireLease(id) PROVE LeaseHolds'
  <2>1. /\ lease' = id /\ UNCHANGED <<at, state>> /\ state.intent[id] = "RELEASED"
        /\ Lineage(id) \notin Rows
    BY <1>1, Zenon DEF AcquireLease, rowvars, Lineage
  <2>2. at[Lineage(id)] = 0 BY <2>1, RowsOfId, Zenon DEF Rows
  <2> QED BY <2>1, <2>2, Zenon DEF LeaseHolds, Lineage
<1>2. CASE lease' = NoId BY <1>2, Zenon DEF LeaseHolds
<1>3. CASE UNCHANGED lease /\ lease # NoId
  <2>1. lease \in Id /\ state.intent[lease] = "RELEASED" /\ at[Lineage(lease)] = 0
    BY <1>3, TypeParts, Zenon DEF LeaseHolds, GlobalTyped
  <2>2. ~GenerationEnds BY <1>3, GenerationEndsLease
  <2>3. ~DeleteRow(Intent(lease))
    BY <1>3, <2>1, RowsOfId, DeletesUnderJournal, Zenon DEF Deletes
  <2>4. state'.intent[lease] = "RELEASED"
    <3>1. state.intent[lease] # "ABSENT" /\ state.intent[lease] # "DETECTOR_STAGED"
      BY <2>1
    <3> QED BY <2>1, <2>3, <3>1, IntentStateMoves, Zenon
  <2>5. at'[Lineage(lease)] = 0
    <3>1. Lineage(lease) \in RowKey BY <2>1, RowsOfId, Zenon
    <3>2. ~Comes(Lineage(lease)) BY <2>2, KindsDiffer, Zenon DEF Comes
    <3> QED BY <2>1, <3>1, <3>2, RowMoves, Zenon DEF Goes
  <2> QED BY <1>3, <2>4, <2>5, Zenon DEF LeaseHolds, Lineage
<1>4. Recover => lease' = NoId \/ UNCHANGED lease BY Zenon DEF Recover
<1> QED BY <1>1, <1>2, <1>3, <1>4, LeaseWriters, GenerationEndsLease, Zenon DEF Acquires

(* A journal stays until the last write of a purge. *)
LEMMA JournalStays ==
  ASSUME TypeInv, [Next]_vars, Purging, ~Finish
  PROVE  /\ Purging' /\ journal'.by = journal.by /\ journal'.hide = journal.hide
         /\ op.pc # "begin" => UNCHANGED journal \/ MarkDeleting \/ MarkValidating
<1>1. CASE UNCHANGED journal BY <1>1, Zenon DEF Purging
<1>2. CASE Begin
  <2>1. UNCHANGED journal /\ op.pc = "begin" BY <1>2, Zenon DEF Begin
  <2> QED BY <1>1, <2>1
<1>3. CASE MarkDeleting \/ MarkValidating
  <2>1. \E p \in {"DELETING", "VALIDATING"} : journal' = [journal EXCEPT !.phase = p]
    BY <1>3 DEF MarkDeleting, MarkValidating
  <2>2. /\ journal'.phase # "NONE" /\ journal'.by = journal.by /\ journal'.hide = journal.hide
    BY <2>1, TypeParts DEF JournalTyped
  <2> QED BY <1>3, <2>2 DEF Purging, NoJournal
<1> QED BY <1>1, <1>2, <1>3, JournalWriters, Zenon

LEMMA ReservationMoves ==
  ASSUME TypeInv, OpIsJournalled, PurgeIsQuiet, DetHolds, PhasesHold, [Next]_vars, NEW id \in Id,
         state.intent[id] = "RELEASED" \/ (Purging /\ state.intent[id] = "ABSENT"), ~Finish
  PROVE state'.intent[id] = "RELEASED" \/ (Purging' /\ state'.intent[id] = "ABSENT")
<1>1. state.intent[id] # "DETECTOR_STAGED" OBVIOUS
<1>2. CASE state.intent[id] = "RELEASED"
  <2>1. state.intent[id] # "ABSENT" BY <1>2
  <2>2. DeleteRow(Intent(id)) => Purging'
    <3>1. DeleteRow(Intent(id)) => Deletes
      BY RowsOfId, Zenon DEF Deletes
    <3> QED BY <3>1, DeletesUnderJournal, Zenon DEF Purging
  <2> QED BY <1>1, <1>2, <2>1, <2>2, IntentStateMoves, Zenon
<1>3. CASE Purging /\ state.intent[id] = "ABSENT"
  <2>1. ~CallReturns BY <1>3, NoCallUnderPurge DEF CallReturns
  <2>2. Purging' BY <1>3, JournalStays, Zenon
  <2> QED BY <1>1, <1>3, <2>1, <2>2, IntentStateMoves, Zenon
<1> QED BY <1>2, <1>3

(* A row that is there is not put anew, but with the same date: it goes by a
   deletion or in the recovery. *)
LEMMA RowStays ==
  ASSUME TypeInv, RowsMatch, RowsAreDated, DetHolds, CoordHolds, LeaseHolds, [Next]_vars,
         NEW r \in RowKey, at[r] # 0, ~Deletes, ~Recover
  PROVE at'[r] = at[r]
<1>1. ~Goes(r) BY Zenon DEF Goes, Deletes
<1>2. CASE RecordObservation /\ r = Obs(cursor.observed + 1) /\ at'[r] = ended[cursor.observed + 1]
  <2>1. cursor.observed + 1 \in Turn
    BY <1>2, Zenon DEF RecordObservation
  <2>2. at[r] \in {0, ended[cursor.observed + 1]}
    BY <1>2, <2>1, Zenon DEF RowsAreDated
  <2> QED BY <1>2, <2>2
<1>3. CASE RouteCaptured /\ r = Batch(coord.id)
  <2>1. coord.id \in Id /\ state.batch[coord.id] = "ABSENT"
    BY <1>3, Zenon DEF RouteCaptured, CoordHolds
  <2> QED BY <1>3, <2>1, Zenon DEF RowsMatch
<1>4. CASE CallReturns /\ r = Intent(det.id) /\ state.intent[det.id] = "ABSENT"
  <2>1. det.pc = "called" BY <1>4, Zenon DEF CallReturns
  <2>2. det.id \in Id BY <2>1, Zenon DEF DetHolds
  <2> QED BY <1>4, <2>2, Zenon DEF RowsMatch
<1>5. CASE GenerationEnds /\ r = Lineage(lease)
  BY <1>5, GenerationEndsLease, Zenon DEF LeaseHolds
<1> QED BY <1>1, <1>2, <1>3, <1>4, <1>5, RowMoves, Zenon DEF Comes

LEMMA IndexHoldsStep ==
  ASSUME TypeInv, OpIsJournalled, PurgeIsQuiet, RowsMatch, RowsAreDated, DetHolds, CoordHolds,
         PhasesHold, LeaseHolds, IndexHolds, [Next]_vars
  PROVE IndexHolds'
<1>0. index \subseteq Id BY TypeParts, Zenon DEF GlobalTyped
<1>1. ASSUME NEW id \in index'
      PROVE state'.intent[id] = "RELEASED" \/ (Purging' /\ state'.intent[id] = "ABSENT")
  <2>1. CASE id \in index /\ ~Finish
    BY <1>0, <2>1, ReservationMoves, Zenon DEF IndexHolds
  <2>2. CASE Finish
    <3>1. op.pc = "final" /\ UNCHANGED state
      BY <2>2, Zenon DEF Finish, rowvars
    <3>2. \/ id \in index /\ Intent(id) \in op.left
          \/ id \in index /\ UNCHANGED journal
      BY <2>2 DEF Finish, Intent
    <3>3. CASE id \in index /\ Intent(id) \in op.left
      <4>1. at[Intent(id)] # 0 /\ id \in Id
        BY <1>0, <3>1, <3>3, Zenon DEF IndexHolds
      <4>2. state.intent[id] # "ABSENT" BY <4>1, Zenon DEF RowsMatch
      <4> QED BY <3>1, <3>3, <4>2, Zenon DEF IndexHolds
    <3>4. CASE id \in index /\ UNCHANGED journal
      BY <3>1, <3>4, Zenon DEF IndexHolds, Purging
    <3> QED BY <3>2, <3>3, <3>4
  <2>3. CASE id \notin index
    <3>1. GenerationEnds => index' \subseteq index BY DEF GenerationEnds
    <3>2. Recover => index' \subseteq index BY DEF Recover
    <3>3. Finish => index' \subseteq index BY DEF Finish
    <3>4. PICK i \in Id : AcquireLease(i)
      BY <2>3, <3>1, <3>2, <3>3, IndexWriters, Zenon DEF Acquires
    <3>5. id = i /\ state.intent[i] = "RELEASED" /\ UNCHANGED state
      BY <2>3, <3>4 DEF AcquireLease, rowvars
    <3> QED BY <3>5
  <2> QED BY <2>1, <2>2, <2>3
<1>2. ASSUME op'.pc = "final", NEW id \in Id, Intent(id) \in op'.left
      PROVE at'[Intent(id)] # 0
  <2>1. CASE UNCHANGED op
    <3>1. op.pc = "final" /\ at[Intent(id)] # 0
      BY <1>2, <2>1, Zenon DEF IndexHolds
    <3>2. ~Deletes /\ ~Recover
      BY <3>1 DEF Deletes, DeleteRow, Recover, PhasesHold
    <3>3. at'[Intent(id)] = at[Intent(id)]
      BY <3>1, <3>2, RowStays, RowsOfId, Zenon
    <3> QED BY <3>1, <3>3, Zenon
  <2>2. CASE CheckResidue /\ op'.left = {r \in Rows : r[1] = "intent"}
    <3>1. at[Intent(id)] # 0 BY <1>2, <2>2 DEF Rows
    <3>2. UNCHANGED at BY <2>2, Zenon DEF CheckResidue, rowvars
    <3> QED BY <3>1, <3>2, Zenon DEF Intent
  <2>3. op'.pc \notin {"off", "begin", "mark", "delete", "check"}
    BY <1>2
  <2>4. op' # NoOp BY <1>2 DEF NoOp
  <2> QED BY <2>1, <2>2, <2>3, <2>4, OpMoves DEF OpMove
<1> QED BY <1>1, <1>2, Zenon DEF IndexHolds, Intent

(* A preview that was made stays one, and is offered as it was made. *)
LEMMA PreviewMoves ==
  ASSUME TypeInv, [Next]_vars, NEW n \in Preview, previews[n].state # "NONE"
  PROVE  /\ previews'[n].state # "NONE"
         /\ previews'[n].state = "OFFERED" => previews'[n] = previews[n]
         /\ ~Finish /\ ~Crash /\ ~Reopen => previews'[n] = previews[n]
<1>0. previews \in [Preview -> [hide : Time, rows : SUBSET RowKey,
                                state : {"NONE", "OFFERED", "COMPLETED", "LOST"}]]
  BY TypeParts, Zenon DEF PreviewsTyped
<1>1. CASE UNCHANGED previews BY <1>1
<1>2. CASE Offers
  <2>1. PICK m \in Preview : MakePreview(m) BY <1>2, Zenon DEF Offers
  <2>2. previews[m].state = "NONE" /\ \E p : previews' = [previews EXCEPT ![m] = p]
    BY <2>1, Zenon DEF MakePreview
  <2>3. previews'[n] = previews[n] BY <1>0, <2>2
  <2> QED BY <2>3
<1>3. CASE Finish
  <2>1. previews' = previews \/ previews' = [previews EXCEPT ![op.by].state = "COMPLETED"]
    BY <1>3, Zenon DEF Finish
  <2>2. previews'[n] = previews[n] \/ previews'[n].state = "COMPLETED"
    BY <1>0, <2>1
  <2> QED BY <1>3, <2>2
<1>4. CASE Crash \/ Reopen
  <2>1. previews' = [m \in Preview |-> IF previews[m].state = "NONE" THEN NoPreview
                                       ELSE [NoPreview EXCEPT !.state = "LOST"]]
    BY <1>4, Zenon DEF Crash, Reopen, Stop
  <2>2. previews'[n].state = "LOST" BY <2>1 DEF NoPreview
  <2> QED BY <1>4, <2>2
<1> QED BY <1>1, <1>2, <1>3, <1>4, PreviewWriters, Zenon

LEMMA OpHidesStep ==
  ASSUME TypeInv, OpIsJournalled, OpHolds, [Next]_vars, op'.pc \notin {"off", "begin"}
  PROVE op'.hide = journal'.hide
<1>0. op' # NoOp BY DEF NoOp
<1>1. CASE op.pc \notin {"off", "begin"} /\ op'.hide = op.hide
  <2>1. op.hide = journal.hide /\ Purging
    BY <1>1, Zenon DEF OpHolds, OpIsJournalled
  <2>2. ~Finish BY <1>0, Zenon DEF Finish, Throw
  <2> QED BY <1>1, <2>1, <2>2, JournalStays
<1>2. CASE Resumes /\ op'.hide = journal.hide
  BY <1>2, Zenon DEF Resumes, ResumeJournal, global
<1>3. CASE Begin /\ MayBegin /\ op'.hide = op.hide
  <2>1. op.pc = "begin" BY <1>3, Zenon DEF Begin
  <2>2. CASE Purging
    <3>1. UNCHANGED journal /\ journal.by = op.by
      BY <1>3, <2>2, Zenon DEF Begin, MayBegin
    <3>2. op.hide = journal.hide BY <2>1, <2>2, <3>1, Zenon DEF OpHolds
    <3> QED BY <1>3, <3>1, <3>2
  <2>3. CASE ~Purging
    <3>1. journal' = [by |-> op.by, hide |-> op.hide, phase |-> "QUIESCED"]
      BY <1>3, <2>3, Zenon DEF Begin
    <3> QED BY <1>3, <3>1
  <2> QED BY <2>2, <2>3
<1>4. MarkDeleting \/ Deletes \/ MarkValidating \/ CheckResidue => op.pc \notin {"off", "begin"}
  BY DEF MarkDeleting, Deletes, DeleteRow, MarkValidating, CheckResidue
<1>5. CASE UNCHANGED op BY <1>1, <1>5
<1>6. CASE Confirms BY <1>6 DEF Confirms, Confirm, NoOp
<1> QED BY <1>0, <1>1, <1>2, <1>3, <1>4, <1>5, <1>6, OpMoves, Zenon DEF OpMove, Deletes, Confirms

LEMMA OpBeginsStep ==
  ASSUME TypeInv, OpIsJournalled, RowsMatch, RowsAreDated, DetHolds, CoordHolds, PhasesHold,
         LeaseHolds, OpHolds, [Next]_vars, op'.pc = "begin"
  PROVE  /\ previews'[op'.by].state = "OFFERED" /\ op'.hide = previews'[op'.by].hide
         /\ \A r \in previews'[op'.by].rows : at'[r] # 0 /\ at'[r] <= op'.hide
<1>1. ASSUME NEW n \in Preview, Confirm(n)
      PROVE  /\ previews'[op'.by].state = "OFFERED" /\ op'.hide = previews'[op'.by].hide
             /\ \A r \in previews'[op'.by].rows : at'[r] # 0 /\ at'[r] <= op'.hide
  <2>1. /\ op'.by = n /\ op'.hide = previews[n].hide
        /\ UNCHANGED <<at, previews>> /\ previews[n].state = "OFFERED"
        /\ previews[n].rows = Candidates(previews[n].hide)
    BY <1>1 DEF Confirm, NoOp, rowvars
  <2>2. \A r \in previews[n].rows : at[r] # 0 /\ at[r] <= previews[n].hide
    BY <2>1, Zenon DEF Candidates, Rows
  <2> QED BY <2>1, <2>2, Zenon
<1>2. CASE UNCHANGED op
  <2>1. op.pc = "begin" /\ Up /\ op.by \in Preview
    BY <1>2, Zenon DEF PhasesHold, TypeInv, BegunIsPreviewed
  <2>2. /\ previews[op.by].state = "OFFERED" /\ op.hide = previews[op.by].hide
        /\ \A r \in previews[op.by].rows : at[r] # 0 /\ at[r] <= op.hide
    BY <2>1, Zenon DEF OpHolds
  <2>3. ~Finish /\ ~Deletes /\ ~Recover
    BY <2>1 DEF Finish, Deletes, DeleteRow, Recover, Up
  <2>4. ~Crash /\ ~Reopen BY <1>2, <2>1 DEF Crash, Reopen, Stop, NoOp
  <2>5. previews'[op.by] = previews[op.by]
    <3>1. previews[op.by].state # "NONE" BY <2>2
    <3> QED BY <2>1, <2>3, <2>4, <3>1, PreviewMoves, Zenon
  <2>6. previews[op.by].rows \subseteq RowKey
    BY <2>1, TypeParts DEF PreviewsTyped
  <2>7. ASSUME NEW r \in previews[op.by].rows PROVE at'[r] # 0 /\ at'[r] <= op.hide
    <3>1. at[r] # 0 /\ at[r] <= op.hide /\ r \in RowKey
      BY <2>2, <2>6, Zenon
    <3>2. at'[r] = at[r] BY <2>3, <3>1, RowStays, Zenon
    <3> QED BY <3>1, <3>2, Zenon
  <2> QED BY <1>2, <2>2, <2>5, <2>7, Zenon
<1> QED BY <1>1, <1>2, BegunByConfirm, Zenon DEF Confirms

LEMMA JournalIsOfPreviewStep ==
  ASSUME TypeInv, OpIsJournalled, OpHolds, [Next]_vars, Purging'
  PROVE  /\ journal'.by \in Preview /\ previews'[journal'.by].state # "NONE"
         /\ previews'[journal'.by].state = "OFFERED" => previews'[journal'.by].hide = journal'.hide
<1>1. CASE Purging /\ journal'.by = journal.by /\ journal'.hide = journal.hide
  <2>1. /\ journal.by \in Preview /\ previews[journal.by].state # "NONE"
        /\ previews[journal.by].state = "OFFERED" => previews[journal.by].hide = journal.hide
    BY <1>1, Zenon DEF OpHolds
  <2>2. /\ previews'[journal.by].state # "NONE"
        /\ previews'[journal.by].state = "OFFERED" => previews'[journal.by] = previews[journal.by]
    BY <2>1, PreviewMoves, Zenon
  <2> QED BY <1>1, <2>1, <2>2, Zenon
<1>2. CASE Finish
  <2>1. UNCHANGED journal BY <1>2, Zenon DEF Finish, Purging
  <2> QED BY <1>1, <2>1, Zenon DEF Purging
<1>3. CASE ~Purging /\ ~Finish
  <2>1. ~MarkDeleting /\ ~MarkValidating
    BY <1>3 DEF OpIsJournalled, MarkDeleting, MarkValidating
  <2>2. Begin BY <1>3, <2>1, JournalWriters, Zenon DEF Purging
  <2>3. /\ journal' = [by |-> op.by, hide |-> op.hide, phase |-> "QUIESCED"]
        /\ UNCHANGED previews /\ op.pc = "begin"
    BY <1>3, <2>2, Zenon DEF Begin, Purging
  <2>4. op.by \in Preview /\ previews[op.by].state = "OFFERED" /\ op.hide = previews[op.by].hide
    BY <2>3, Zenon DEF OpHolds, TypeInv, BegunIsPreviewed
  <2> QED BY <2>3, <2>4
<1> QED BY <1>1, <1>2, <1>3, JournalStays, Zenon

LEMMA OpHoldsStep ==
  ASSUME TypeInv, OpIsJournalled, RowsMatch, RowsAreDated, DetHolds, CoordHolds, PhasesHold,
         LeaseHolds, OpHolds, [Next]_vars
  PROVE OpHolds'
  BY OpHidesStep, OpBeginsStep, JournalIsOfPreviewStep, Zenon DEF OpHolds, Purging

----
(* What a purge has promised to delete. *)

LEMMA PromisedRows ==
  ASSUME TypeInv
  PROVE promised.recorded \subseteq RowKey /\ promised.passed \subseteq RowKey
  BY TypeParts DEF PromisedTyped

(* Turns the cursor has passed are not recorded again. *)
LEMMA PassedTurnStaysAway ==
  ASSUME TypeInv, NEW n \in Turn, n <= cursor.observed
  PROVE ~Comes(Obs(n))
<1>1. Obs(n) # Obs(cursor.observed + 1)
  <2>1. n # cursor.observed + 1 BY TypeParts, RowsOfTurn DEF CursorTyped
  <2>2. Obs(cursor.observed + 1)[2][2] = cursor.observed + 1 /\ Obs(n)[2][2] = n
    BY DEF Obs
  <2> QED BY <2>1, <2>2
<1> QED BY <1>1, KindsDiffer, Zenon DEF Comes

(* While a journal is there, nothing is added behind the cursor but a batch. *)
LEMMA ComesUnderPurge ==
  ASSUME TypeInv, PurgeIsQuiet, DetHolds, Purging,
         NEW r \in RowKey, r[1] # "batch", r[2][2] <= cursor.observed
  PROVE ~Comes(r)
<1>1. ~CallReturns /\ ~GenerationEnds
  BY NoCallUnderPurge, GenerationEndsLease DEF CallReturns
<1>2. CASE r = Obs(r[2][2]) BY <1>2, Kinds, PassedTurnStaysAway, Zenon
<1>3. CASE r = Intent(r[2]) \/ r = Lineage(r[2])
  <2>1. r # Obs(cursor.observed + 1) /\ r # Batch(coord.id)
    BY <1>3, KindsDiffer, Zenon
  <2> QED BY <1>1, <2>1, Zenon DEF Comes
<1> QED BY <1>2, <1>3, Kinds, Zenon

(* A row that is to leave goes on to, until it is gone. *)
LEMMA LeavingStays ==
  ASSUME TypeInv, PurgeIsQuiet, DetHolds, OpHolds, [Next]_vars,
         Purging, journal'.hide = journal.hide,
         NEW r \in RowKey, r[1] # "batch", r[2][2] <= cursor.observed, Leaving(r)
  PROVE Leaving(r)'
<1> SUFFICES ASSUME at'[r] # 0
             PROVE  /\ at'[r] <= journal'.hide
                    /\ op'.pc \in {"off", "begin", "mark"} \/ (op'.pc = "delete" /\ r \in op'.left)
  BY Zenon DEF Leaving
<1>1. at'[r] = at[r] BY ComesUnderPurge, RowMoves, Zenon DEF Goes
<1>2. /\ at[r] # 0 /\ at[r] <= journal.hide
      /\ op.pc \in {"off", "begin", "mark"} \/ (op.pc = "delete" /\ r \in op.left)
  BY <1>1, Zenon DEF Leaving
<1>3. at'[r] <= journal'.hide BY <1>1, <1>2
<1>4. CASE UNCHANGED op BY <1>2, <1>4, <1>3
<1>5. CASE op'.pc \in {"off", "begin", "mark"} BY <1>5, <1>3
<1>6. CASE MarkDeleting /\ op'.pc = "delete" /\ op'.left = Candidates(op.hide)
  <2>1. op.pc = "mark" BY <1>6, Zenon DEF MarkDeleting
  <2>2. op.hide = journal.hide BY <2>1 DEF OpHolds
  <2>3. r \in Candidates(op.hide)
    BY <1>2, <2>2, Zenon DEF Candidates, Rows
  <2> QED BY <1>6, <1>3, <2>3, Zenon
<1>7. ASSUME NEW q \in RowKey, DeleteRow(q), op'.pc = "delete", op'.left = op.left \ {q}
      PROVE op'.pc = "delete" /\ r \in op'.left
  <2>1. op.pc = "delete" /\ at' = [at EXCEPT ![q] = 0]
    BY <1>7, Zenon DEF DeleteRow
  <2>2. r # q BY <2>1, TypeParts DEF AtTyped
  <2> QED BY <1>2, <1>7, <2>1, <2>2
<1>8. ~MarkValidating /\ ~CheckResidue
  BY <1>2 DEF MarkValidating, CheckResidue
<1>9. op' = NoOp => op'.pc \in {"off", "begin", "mark"} BY DEF NoOp
<1> QED BY <1>4, <1>5, <1>6, <1>7, <1>8, <1>9, <1>3, OpMoves DEF OpMove

LEMMA PromisesStay ==
  ASSUME TypeInv, PurgeIsQuiet, DetHolds, CoordHolds, OpHolds, RecordedLeaves, [Next]_vars,
         Purging', journal'.hide = journal.hide, UNCHANGED promised,
         NEW r \in promised.recorded
  PROVE Promises(r)'
<1>0. r \in RowKey /\ Promises(r)
  BY PromisedRows, Zenon DEF RecordedLeaves
<1>1. /\ Purging /\ r[2][2] <= cursor.observed /\ Leaving(Obs(r[2][2]))
      /\ r[1] # "batch" => Leaving(r)
      /\ r[1] = "lineage" => Intent(r[2]) \in promised.recorded
  BY <1>0, Zenon DEF Promises
<1>2. r[2][2] \in Turn BY <1>0, Kinds
<1>3. r[2][2] <= cursor'.observed
  <2>1. cursor'.observed \in Nat /\ cursor.observed \in Nat
    BY TypeStep, TypeParts, TypePartsPrime DEF CursorTyped
  <2>2. cursor'.observed >= cursor.observed /\ r[2][2] \in Nat
    BY <1>2, ObservedMoves, TurnsArePositive, Zenon
  <2> QED BY <1>1, <2>1, <2>2
<1>4. Leaving(Obs(r[2][2]))'
  <2>1. Obs(r[2][2]) \in RowKey /\ Obs(r[2][2])[1] # "batch" /\ Obs(r[2][2])[2][2] = r[2][2]
    BY <1>2, RowsOfTurn
  <2>2. Obs(r[2][2])[2][2] <= cursor.observed BY <1>1, <2>1
  <2> QED BY <1>1, <2>1, <2>2, LeavingStays, Zenon
<1>5. r[1] # "batch" => Leaving(r)' BY <1>0, <1>1, LeavingStays, Zenon
<1> QED BY <1>1, <1>3, <1>4, <1>5, Zenon DEF Promises, Leaving, Obs, Intent

(* A purge begins with the rows that were previewed, and that are there. *)
LEMMA PromisesBegin ==
  ASSUME TypeInv, OpIsJournalled, RowsAreDated, OpHolds, [Next]_vars,
         Begin, MayBegin, NEW r \in Confirmed
  PROVE Promises(r)'
<1>1. /\ op.pc = "begin" /\ op.by \in Preview /\ UNCHANGED <<at, cursor>>
      /\ op' = [op EXCEPT !.pc = "mark"]
      /\ promised' = [promised EXCEPT !.recorded = Confirmed]
  BY Zenon DEF Begin, rowvars, TypeInv, BegunIsPreviewed
<1>2. op'.pc = "mark" /\ op'.hide = op.hide /\ promised'.recorded = Confirmed
  <2> HIDE DEF Confirmed
  <2> QED BY <1>1, TypeParts DEF OpTyped, PromisedTyped
<1>3. journal'.hide = op.hide BY <1>2, OpHidesStep
<1>4. Purging' BY <1>2, BeginMakesJournal DEF Purging, NoOp
<1>5. /\ r \in previews[op.by].rows /\ r[2][2] <= cursor.observed
      /\ r[1] = "lineage" => Intent(r[2]) \in previews[op.by].rows
  BY DEF Confirmed, Intent
<1>6. r \in RowKey /\ r[2] \in Id /\ r[2][2] \in Turn
  <2>1. r \in RowKey BY <1>1, <1>5, TypeParts DEF PreviewsTyped
  <2> QED BY <2>1, Kinds
<1>7. at[r] # 0 /\ at[r] <= op.hide BY <1>1, <1>5, Zenon DEF OpHolds
<1>8. Leaving(r)' BY <1>1, <1>2, <1>3, <1>7 DEF Leaving
<1>9. Leaving(Obs(r[2][2]))'
  <2>1. at[Obs(r[2][2])] # 0 => at[Obs(r[2][2])] <= at[r]
    <3>1. Dated(r) /\ at[Obs(r[2][2])] \in {0, ended[r[2][2]]}
      BY <1>6, Zenon DEF RowsAreDated
    <3> QED BY <1>7, <3>1 DEF Dated
  <2>2. at[Obs(r[2][2])] \in Nat /\ at[r] \in Nat /\ op.hide \in Nat
    <3>1. Obs(r[2][2]) \in RowKey BY <1>6, RowsOfTurn
    <3> QED BY <1>6, <3>1, TypeParts DEF AtTyped, OpTyped, Time
  <2>3. at[Obs(r[2][2])] # 0 => at[Obs(r[2][2])] <= op.hide
    BY <1>7, <2>1, <2>2
  <2> QED BY <1>1, <1>2, <1>3, <2>3 DEF Leaving, Obs
<1>10. r[1] = "lineage" => Intent(r[2]) \in promised'.recorded
  <2>1. Intent(r[2])[1] # "lineage" /\ Intent(r[2])[2] = r[2]
    BY <1>6, RowsOfId
  <2>2. r[1] = "lineage" => Intent(r[2]) \in Confirmed
    BY <1>5, <2>1 DEF Confirmed
  <2> QED BY <1>2, <2>2, Zenon
<1>11. r[2][2] <= cursor'.observed BY <1>1, <1>5
<1> QED BY <1>4, <1>8, <1>9, <1>10, <1>11, Zenon DEF Promises, Leaving, Obs, Intent

LEMMA FinishMoves ==
  ASSUME Finish
  PROVE  \/ /\ op.pc = "final" /\ journal' = NoJournal /\ UNCHANGED <<at, state>>
            /\ promised' = [recorded |-> {}, passed |-> promised.passed \cup promised.recorded]
         \/ UNCHANGED <<promised, journal>>
  BY Zenon DEF Finish, rowvars

LEMMA RecordedLeavesStep ==
  ASSUME TypeInv, OpIsJournalled, PurgeIsQuiet, RowsAreDated, DetHolds, CoordHolds, OpHolds,
         RecordedLeaves, [Next]_vars
  PROVE RecordedLeaves'
<1>1. CASE UNCHANGED promised /\ (~Finish \/ UNCHANGED journal)
  <2> SUFFICES ASSUME NEW r \in promised.recorded PROVE Promises(r)'
    BY <1>1, Zenon DEF RecordedLeaves, Promises, Leaving, Obs, Intent
  <2>1. Purging BY Zenon DEF RecordedLeaves, Promises
  <2>2. Purging' /\ journal'.hide = journal.hide
    BY <1>1, <2>1, JournalStays, Zenon DEF Purging
  <2> QED BY <1>1, <2>2, PromisesStay, Zenon
<1>2. CASE Finish
  <2>1. CASE promised' = [recorded |-> {}, passed |-> promised.passed \cup promised.recorded]
    BY <2>1 DEF RecordedLeaves
  <2> QED BY <1>1, <1>2, <2>1, FinishMoves, Zenon
<1>3. CASE Begin
  <2>1. CASE MayBegin
    <3>1. promised' = [promised EXCEPT !.recorded = Confirmed]
      BY <1>3, <2>1, Zenon DEF Begin
    <3>2. promised'.recorded = Confirmed
      <4> HIDE DEF Confirmed
      <4> QED BY <3>1, TypeParts DEF PromisedTyped
    <3>3. \A r \in Confirmed : Promises(r)'
      BY <1>3, <2>1, PromisesBegin, Zenon
    <3> QED BY <3>2, <3>3, Zenon DEF RecordedLeaves, Promises, Leaving, Obs, Intent
  <2>2. CASE ~MayBegin
    <3>1. UNCHANGED promised /\ op.pc = "begin"
      BY <1>3, <2>2, Zenon DEF Begin
    <3>2. ~Finish BY <3>1 DEF Finish
    <3> QED BY <1>1, <3>1, <3>2
  <2> QED BY <2>1, <2>2
<1> QED BY <1>1, <1>2, <1>3, PromisedWriters, Zenon

(* What is gone stays away: its turns are not recorded, so that no call of the
   detector's model brings its intent back, nor a generation its proposal. *)
LEMMA AwayStays ==
  ASSUME TypeInv, RowsMatch, DetHolds, CoordHolds, LeaseHolds, PassedIsGone, [Next]_vars,
         NEW r \in promised.passed
  PROVE  /\ r[2][2] <= cursor'.observed /\ at'[Obs(r[2][2])] = 0
         /\ r[1] # "batch" => at'[r] = 0
<1>0. r \in RowKey /\ r[2] \in Id /\ r[2][2] \in Turn
  <2>1. r \in RowKey BY PromisedRows
  <2> QED BY <2>1, Kinds
<1>1. /\ r[2][2] <= cursor.observed /\ at[Obs(r[2][2])] = 0
      /\ r[1] # "batch" => at[r] = 0
      /\ r[1] = "lineage" => Intent(r[2]) \in promised.passed
  BY Zenon DEF PassedIsGone, StaysAway
<1>2. r[2][2] <= cursor'.observed
  <2>1. cursor'.observed \in Nat /\ cursor.observed \in Nat
    BY TypeStep, TypeParts, TypePartsPrime DEF CursorTyped
  <2>2. cursor'.observed >= cursor.observed /\ r[2][2] \in Nat
    BY <1>0, ObservedMoves, TurnsArePositive, Zenon
  <2> QED BY <1>1, <2>1, <2>2
<1>3. ~Comes(Obs(r[2][2])) BY <1>0, <1>1, PassedTurnStaysAway, Zenon
<1>4. at'[Obs(r[2][2])] = 0
  BY <1>0, <1>1, <1>3, RowMoves, RowsOfTurn, Zenon DEF Goes
<1>5. r = Intent(r[2]) => ~Comes(r)
  <2>1. CallReturns /\ Intent(r[2]) = Intent(det.id) => at[Obs(r[2][2])] # 0
    <3>1. CallReturns => at[Obs(det.id[2])] # 0
      BY DEF CallReturns, DetHolds
    <3>2. Intent(r[2]) = Intent(det.id) => r[2] = det.id BY KindsDiffer
    <3> QED BY <3>1, <3>2, Zenon
  <2>2. \A n : Obs(n) # Intent(r[2]) /\ Batch(n) # Intent(r[2]) /\ Lineage(n) # Intent(r[2])
    BY KindsDiffer
  <2>3. ~Comes(Intent(r[2])) BY <1>1, <2>1, <2>2, Zenon DEF Comes
  <2> QED BY <2>3
<1>6. r[1] = "lineage" /\ r = Lineage(r[2]) => ~Comes(r)
  <2> SUFFICES ASSUME r[1] = "lineage", r = Lineage(r[2]), GenerationEnds, Lineage(r[2]) = Lineage(lease)
               PROVE FALSE
    BY KindsDiffer, Zenon DEF Comes
  <2>1. lease = r[2] /\ lease # NoId
    BY GenerationEndsLease, KindsDiffer, Zenon
  <2>2. state.intent[lease] = "RELEASED" BY <2>1, Zenon DEF LeaseHolds
  <2>3. at[Intent(lease)] # 0 BY <1>0, <2>1, <2>2 DEF RowsMatch
  <2>4. Intent(lease)[1] # "batch" BY DEF Intent
  <2>5. at[Intent(lease)] = 0
    BY <1>1, <2>1, <2>4, Zenon DEF PassedIsGone, StaysAway
  <2> QED BY <2>3, <2>5
<1>7. ASSUME r[1] # "batch" PROVE at'[r] = 0
  <2>1. r = Obs(r[2][2]) \/ r = Intent(r[2]) \/ (r[1] = "lineage" /\ r = Lineage(r[2]))
    BY <1>0, <1>7, Kinds, Zenon
  <2>2. ~Comes(r) BY <1>3, <1>5, <1>6, <2>1, Zenon
  <2> QED BY <1>0, <1>1, <1>7, <2>2, RowMoves, Zenon DEF Goes
<1> QED BY <1>2, <1>4, <1>7

LEMMA PassedIsGoneStep ==
  ASSUME TypeInv, RowsMatch, DetHolds, CoordHolds, LeaseHolds, RecordedLeaves, PassedIsGone,
         [Next]_vars
  PROVE PassedIsGone'
<1>1. \A r \in promised.passed : r[1] = "lineage" => Intent(r[2]) \in promised.passed
  BY Zenon DEF PassedIsGone, StaysAway
<1>2. CASE promised'.passed = promised.passed
  BY <1>1, <1>2, AwayStays, Zenon DEF PassedIsGone, StaysAway, Obs, Intent
<1>3. CASE Finish /\ promised' = [recorded |-> {}, passed |-> promised.passed \cup promised.recorded]
  <2>1. op.pc = "final" /\ UNCHANGED at
    BY <1>3, Zenon DEF Finish, rowvars
  <2>2. cursor'.observed = cursor.observed
    BY <1>3, TypeParts DEF Finish, Cleared, CursorTyped
  <2>3. ASSUME NEW q, Leaving(q) PROVE at[q] = 0
    BY <2>1, <2>3 DEF Leaving
  <2>4. ASSUME NEW r \in promised.recorded
        PROVE  /\ r[2][2] <= cursor'.observed /\ at'[Obs(r[2][2])] = 0
               /\ r[1] # "batch" => at'[r] = 0
               /\ r[1] = "lineage" => Intent(r[2]) \in promised.recorded
    <3>1. Promises(r) BY Zenon DEF RecordedLeaves
    <3> QED BY <2>1, <2>2, <2>3, <3>1, Zenon DEF Promises
  <2>5. promised'.passed = promised.passed \cup promised.recorded
    BY <1>3
  <2>6. ASSUME NEW r \in promised'.passed PROVE StaysAway(r)'
    <3>1. r \in promised.passed \/ r \in promised.recorded BY <2>5
    <3>2. r[1] = "lineage" => Intent(r[2]) \in promised'.passed
      BY <1>1, <2>4, <2>5, <3>1
    <3> QED BY <2>4, <3>1, <3>2, AwayStays, Zenon DEF StaysAway, Obs, Intent
  <2> QED BY <2>6, Zenon DEF PassedIsGone, StaysAway, Obs, Intent
<1>4. Begin => promised'.passed = promised.passed
  <2>1. Begin => UNCHANGED promised \/ promised' = [promised EXCEPT !.recorded = Confirmed]
    BY Zenon DEF Begin
  <2> HIDE DEF Confirmed
  <2> QED BY <2>1, TypeParts DEF PromisedTyped
<1>5. UNCHANGED promised => promised'.passed = promised.passed OBVIOUS
<1> QED BY <1>2, <1>3, <1>4, <1>5, PromisedWriters, FinishMoves, Zenon

----
(* The theorem. *)

LEMMA InitAway == Init => AwayInv
<1> SUFFICES ASSUME Init PROVE AwayInv OBVIOUS
<1>1. TypeInv BY InitTyped
<1>2. RowsMatch
  <2>1. \A id \in Id : Intent(id) \in RowKey /\ Batch(id) \in RowKey
    BY RowsOfId, Zenon
  <2> QED BY <2>1 DEF Init, RowsMatch
<1>3. RowsAreDated
  <2>1. \A n \in Turn : Obs(n) \in RowKey BY RowsOfTurn, Zenon
  <2> QED BY <2>1 DEF Init, RowsAreDated, LogIsBehind, Dated
<1>4. DetHolds /\ CoordHolds /\ PhasesHold
  BY DEF Init, DetHolds, CoordHolds, PhasesHold, NoDet, NoCoord, NoOp
<1>5. LeaseHolds /\ IndexHolds /\ OpHolds
  BY DEF Init, LeaseHolds, IndexHolds, OpHolds, NoOp, Purging
<1>6. RecordedLeaves /\ PassedIsGone
  BY DEF Init, RecordedLeaves, PassedIsGone
<1> QED BY <1>2, <1>3, <1>4, <1>5, <1>6, Zenon DEF AwayInv

LEMMA AwayStep ==
  ASSUME IInv, AwayInv, [Next]_vars
  PROVE AwayInv'
<1>1. /\ TypeInv /\ OpIsJournalled /\ PurgeIsQuiet /\ RowsMatch /\ RowsAreDated /\ DetHolds
      /\ CoordHolds /\ PhasesHold /\ LeaseHolds /\ IndexHolds /\ OpHolds /\ RecordedLeaves
      /\ PassedIsGone
  BY Zenon DEF IInv, AwayInv
<1>2. RowsMatch' /\ RowsAreDated'
  BY <1>1, RowsMatchStep, RowsAreDatedStep, Zenon
<1>3. DetHolds' /\ CoordHolds' /\ PhasesHold'
  BY <1>1, DetHoldsStep, CoordHoldsStep, PhasesHoldStep, Zenon
<1>4. LeaseHolds' /\ IndexHolds' /\ OpHolds'
  BY <1>1, LeaseHoldsStep, IndexHoldsStep, OpHoldsStep, Zenon
<1>5. RecordedLeaves' /\ PassedIsGone'
  BY <1>1, RecordedLeavesStep, PassedIsGoneStep, Zenon
<1> QED BY <1>2, <1>3, <1>4, <1>5, Zenon DEF AwayInv

LEMMA AwayImplies == IInv /\ AwayInv => PurgedStaysAway
<1> SUFFICES ASSUME IInv, AwayInv PROVE PurgedStaysAway OBVIOUS
<1>0. /\ TypeInv /\ RowsMatch /\ DetHolds /\ IndexHolds /\ PassedIsGone
  BY Zenon DEF IInv, AwayInv
<1>1. ASSUME NEW r \in promised.passed, r \in Rows PROVE r[1] = "batch"
  BY <1>0, <1>1, Zenon DEF PassedIsGone, StaysAway, Rows
<1>2. ASSUME det.pc = "called", NEW r \in promised.passed PROVE det.id # r[2]
  <2>1. at[Obs(det.id[2])] # 0 /\ at[Obs(r[2][2])] = 0
    BY <1>0, <1>2, Zenon DEF PassedIsGone, StaysAway, DetHolds
  <2> QED BY <2>1, Zenon
<1>3. ASSUME ~Purging, NEW id \in index PROVE Intent(id) \in Rows
  <2>1. id \in Id BY <1>0, TypeParts DEF GlobalTyped
  <2>2. state.intent[id] # "ABSENT" BY <1>0, <1>3 DEF IndexHolds
  <2>3. at[Intent(id)] # 0 BY <1>0, <2>1, <2>2, Zenon DEF RowsMatch
  <2> QED BY <2>1, <2>3, RowsOfId, Zenon DEF Rows
<1> QED BY <1>1, <1>2, <1>3, Zenon DEF PurgedStaysAway, Intent

(* The invariant of the argument is inductive: rows and their states agree and are
   dated, the workers and the service hold on to what they rely on, and what a
   purge has promised goes, and then stays away. *)
THEOREM AwayInvariant == Spec => [](IInv /\ AwayInv)
<1>1. Init => IInv /\ AwayInv
  BY InitTyped, InitQuiet, InitAway, Zenon DEF IInv
<1>2. IInv /\ AwayInv /\ [Next]_vars => (IInv /\ AwayInv)'
  <2>1. IInv /\ AwayInv /\ [Next]_vars => IInv' BY QuietStep, Zenon
  <2>2. IInv /\ AwayInv /\ [Next]_vars => AwayInv' BY AwayStep, Zenon
  <2> QED BY <2>1, <2>2, Zenon
<1> QED BY <1>1, <1>2, PTL DEF Spec

(* What the user confirmed to delete, and the session's cursor had passed, does not
   come back: not from a worker that was at work on it while it was deleted, not
   from the session log, which is read again after every restart, and not through a
   later purge, which takes the batch from the cursor.  Nor is a reservation of a
   behaviour left to an intent that is gone. *)
THEOREM WhatWasPurgedStaysAway == Spec => []PurgedStaysAway
  BY AwayInvariant, AwayImplies, PTL

====
