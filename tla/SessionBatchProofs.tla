------------------------- MODULE SessionBatchProofs -------------------------
(* Theorems about SessionBatch, for every value of its constants.           *)
EXTENDS SessionBatch, FiniteSetTheorems, WellFoundedInduction, TLAPS

----
(* Operators. *)

Less == {p \in Nat \X Nat : p[1] < p[2]}

LEMMA LessIsWellFounded == IsWellFoundedOn(Less, Nat)
<1>1. OpToRel(<, Nat) = Less BY Zenon DEF OpToRel, Less
<1> QED BY <1>1, NatLessThanWellFounded, Zenon

(* A set of naturals has a smallest element. *)
LEMMA SmallestInSet ==
  ASSUME NEW D \in SUBSET Nat, D # {}
  PROVE \E d \in D : \A e \in D : d <= e
<1>1. PICK d \in D : \A e \in D : ~ <<e, d>> \in Less
  BY LessIsWellFounded, WFMin, Zenon
<1>2. \A e \in D : d <= e
  <2> SUFFICES ASSUME NEW e \in D PROVE d <= e OBVIOUS
  <2>1. <<e, d>> \in Nat \X Nat OBVIOUS
  <2>2. e < d => <<e, d>> \in Less BY <2>1, Zenon DEF Less
  <2>3. ~(e < d) BY <2>2, <1>1, Zenon
  <2> QED BY <2>3
<1> QED BY <1>2

LEMMA FirstInSet ==
  ASSUME NEW S \in SUBSET Nat, S # {}
  PROVE First(S) \in S
  BY SmallestInSet DEF First

(* A set of turns has a last one, and Last picks it. *)
LEMMA LastInSet ==
  ASSUME NEW N \in Nat, NEW S \in SUBSET (0 .. N), S # {}
  PROVE Last(S) \in S /\ \A m \in S : Last(S) >= m
<1> DEFINE D == {N - n : n \in S}
<1>1. D \in SUBSET Nat /\ \A n \in S : N - n \in D OBVIOUS
<1>2. \E d \in D : \A e \in D : d <= e
  <2>1. D # {} OBVIOUS
  <2> HIDE DEF D
  <2> QED BY <1>1, <2>1, SmallestInSet
<1>3. PICK n \in S : \A e \in D : N - n <= e BY <1>2
<1>4. \A m \in S : n >= m
  <2> SUFFICES ASSUME NEW m \in S PROVE n >= m OBVIOUS
  <2>1. N - n <= N - m BY <1>3
  <2> QED BY <2>1
<1> HIDE DEF D
<1> QED BY <1>4 DEF Last

LEMMA CandidateType ==
  ASSUME NEW c \in Cursor, NEW stored \in Seq(Kinds), NEW mode,
         NEW x \in Candidate(c, stored, mode)
  PROVE  /\ x.last \in c.detected + 1 .. Len(stored)
         /\ x.reasons \subseteq Reasons
<1> DEFINE pending == c.detected + 1 .. Len(stored)
           save == {n \in pending : stored[n].save}
           full == {n \in pending : CompleteTurns(stored, c.detected + 1, n) = Threshold}
           asked == {n \in pending : n >= c.manual}
           prompt == {n \in save \cup full : n = First(save \cup full)}
<1>1. CASE mode = "manual" /\ c.manual # 0
  <2>1. Candidate(c, stored, mode) =
           {[last |-> n, reasons |-> {"EXPLICIT"} \cup
                   {r \in {"THRESHOLD"} : \E m \in full : m <= n}] :
                 n \in {m \in asked : m = First(asked)}}
    BY <1>1, Zenon DEF Candidate
  <2>2. PICK n \in asked : x = [last |-> n, reasons |-> {"EXPLICIT"} \cup
                   {r \in {"THRESHOLD"} : \E m \in full : m <= n}]
    <3> HIDE DEF full, asked
    <3> QED BY <2>1
  <2>3. n \in pending BY Zenon
  <2> HIDE DEF pending, full, asked
  <2> QED BY <2>2, <2>3 DEF Reasons, pending
<1>2. CASE ~(mode = "manual" /\ c.manual # 0) /\ prompt # {}
  <2>1. Candidate(c, stored, mode) =
           {[last |-> n, reasons |->
                   {r \in {"EXPLICIT"} : n \in save} \cup
                   {r \in {"THRESHOLD"} : full # {} /\ n = First(full)}] : n \in prompt}
    BY <1>2, Zenon DEF Candidate
  <2>2. PICK n \in prompt : x = [last |-> n, reasons |->
                   {r \in {"EXPLICIT"} : n \in save} \cup
                   {r \in {"THRESHOLD"} : full # {} /\ n = First(full)}]
    <3> HIDE DEF full, save, prompt
    <3> QED BY <2>1
  <2>3. n \in pending BY Zenon
  <2> HIDE DEF pending, full, save
  <2> QED BY <2>2, <2>3 DEF Reasons, pending
<1>3. CASE ~(mode = "manual" /\ c.manual # 0) /\ prompt = {}
  <2>1. Candidate(c, stored, mode) =
           {[last |-> n, reasons |-> {"IDLE"}] :
                 n \in {m \in pending : m = Len(stored) /\ mode = "idle"}}
    BY <1>3, Zenon DEF Candidate
  <2>2. PICK n \in pending : x = [last |-> n, reasons |-> {"IDLE"}]
    <3> HIDE DEF pending
    <3> QED BY <2>1
  <2> HIDE DEF pending
  <2> QED BY <2>2 DEF Reasons, pending
<1> HIDE DEF prompt
<1> QED BY <1>1, <1>2, <1>3

LEMMA NoBaseType == NoBase \in Baseline
  BY SizesAssumption DEF NoBase, Baseline
LEMMA ConsumeType ==
  ASSUME NEW c \in Cursor, NEW n
  PROVE  /\ Consume(c, n) \in Cursor
         /\ Consume(c, n).detected = c.detected
         /\ Consume(c, n).observed = c.observed
  BY SizesAssumption DEF Consume, Cursor

LEMMA BindType ==
  ASSUME NEW c \in Cursor, NEW id \in Id
  PROVE  /\ Bind(c, id) \in Cursor
         /\ Bind(c, id).detected = c.detected
         /\ Bind(c, id).observed = c.observed
<1> Consume(c, id[2]) \in Cursor
  BY ConsumeType
<1> QED BY ConsumeType, NoBaseType DEF Bind, Cursor

LEMMA SettleType ==
  ASSUME NEW c \in Cursor, NEW id \in Id, NEW carry \in Carry
  PROVE  /\ Settle(c, id, carry) \in Cursor
         /\ Settle(c, id, carry).detected >= c.detected
         /\ Settle(c, id, carry).observed = c.observed
<1>1. Consume(c, id[2]) \in Cursor /\ Consume(c, id[2]).observed = c.observed
  BY ConsumeType
<1>2. Larger(c.detected, id[2]) \in 0 .. MaxTurn /\ Larger(c.detected, id[2]) >= c.detected
  <2>1. id[2] \in 1 .. MaxTurn BY DEF Id, Turn
  <2>2. c.detected \in 0 .. MaxTurn BY DEF Cursor
  <2> QED BY <2>1, <2>2, SizesAssumption DEF Larger
<1> QED BY <1>1, <1>2, NoBaseType DEF Settle, Cursor

LEMMA FrozenRowType ==
  ASSUME NEW c \in Cursor, NEW x, x.reasons \subseteq Reasons, NEW routed \in BOOLEAN
  PROVE  /\ FrozenRow(c, x, routed) \in Row
         /\ FrozenRow(c, x, routed).state \in {"FROZEN", "NEEDS_ATTENTION"}
<1> DEFINE base == IF c.base.after = c.detected THEN c.base ELSE Unavailable(c.detected)
<1>1. base \in Baseline
  <2>1. Unavailable(c.detected) \in Baseline
    BY SizesAssumption DEF Cursor, Unavailable, Baseline
  <2> QED BY <2>1 DEF Cursor
<1>2. AbsentRow \in Row
  BY NoBaseType, SizesAssumption DEF AbsentRow, Row, RowStates, TerminalStates, Carry, NoCarry
<1>3. c.carry \in Carry /\ NoCarry \in Carry
  BY SizesAssumption DEF Cursor, Carry, NoCarry
<1>4. {"FROZEN", "NEEDS_ATTENTION"} \subseteq RowStates
  BY DEF RowStates, TerminalStates
<1> HIDE DEF base
<1>5. FrozenRow(c, x, routed) =
        [AbsentRow EXCEPT !.state = IF routed THEN "FROZEN" ELSE "NEEDS_ATTENTION",
                          !.reasons = x.reasons,
                          !.carry = IF routed THEN NoCarry ELSE c.carry,
                          !.unrouted = ~routed,
                          !.base = base]
  BY DEF FrozenRow, base
<1> QED BY <1>1, <1>2, <1>3, <1>4, <1>5 DEF Row

(* A row is put where there was none, frozen or without a route. *)
Grows(old, new) ==
    \/ new = old
    \/ old.state = "ABSENT" /\ new.state \in {"FROZEN", "NEEDS_ATTENTION"}

(* What a pass over one session may do to its rows and to its cursor c. *)
Sound(s, c, f) ==
    /\ f.ok \in BOOLEAN
    /\ f.rows \in [Id -> Row]
    /\ f.cursor \in Cursor
    /\ f.cursor.detected >= c.detected
    /\ f.cursor.observed = c.observed
    /\ \A id \in Id : Grows(batch[s][id], f.rows[id])

LEMMA FreezeFacts ==
  ASSUME TypeOK, NEW s \in Session, NEW c \in Cursor, NEW stored \in Seq(Kinds),
         Len(stored) <= MaxTurn, NEW mode, NEW routed \in BOOLEAN
  PROVE Sound(s, c, Freeze(s, c, stored, mode, routed))
<1> DEFINE f == Freeze(s, c, stored, mode, routed)
           same(ok) == [ok |-> ok, rows |-> batch[s], cursor |-> c]
           found == Candidate(c, stored, mode)
           cand == CHOOSE x \in found : TRUE
           id == <<c.detected + 1, cand.last>>
           old == batch[s][id]
<1> SUFFICES Sound(s, c, f) OBVIOUS
<1>0. batch[s] \in [Id -> Row] BY DEF TypeOK
<1>c. c.detected \in 0 .. MaxTurn /\ c.observed \in 0 .. MaxTurn /\ c.carry \in Carry
  BY DEF Cursor
<1>1. ASSUME NEW ok \in BOOLEAN, NEW g, g = same(ok) PROVE Sound(s, c, g)
  BY <1>0, <1>1, <1>c DEF Sound, Grows
<1>2. ASSUME NEW g, NEW d \in Cursor, d.detected >= c.detected, d.observed = c.observed,
             g = [same(TRUE) EXCEPT !.cursor = d]
      PROVE Sound(s, c, g)
  BY <1>0, <1>2 DEF Sound, Grows
<1>3. ASSUME found # {} PROVE id \in Id /\ cand.reasons \subseteq Reasons
  <2>1. cand \in found
    <3> HIDE DEF found
    <3> QED BY <1>3, Zenon
  <2>2. cand.last \in c.detected + 1 .. Len(stored) /\ cand.reasons \subseteq Reasons
    <3> HIDE DEF cand
    <3> QED BY <2>1, CandidateType
  <2> HIDE DEF cand
  <2>3. Len(stored) \in Nat /\ MaxTurn \in Nat BY SizesAssumption
  <2> QED BY <2>2, <2>3, <1>c DEF Id, Turn
<1>4. CASE c.active # NoId
  <2>1. f = same(Open(batch[s][c.active])) BY <1>4, Zenon DEF Freeze
  <2>2. Open(batch[s][c.active]) \in BOOLEAN BY DEF Open
  <2> QED BY <2>1, <2>2, <1>1
<1>5. CASE c.active = NoId /\ (Held(c, mode) \/ found = {})
  <2>1. f = same(TRUE) BY <1>5, Zenon DEF Freeze
  <2> QED BY <2>1, <1>1
<1>6. CASE c.active = NoId /\ ~Held(c, mode) /\ found # {} /\ old.state = "ABSENT"
  <2> DEFINE row == FrozenRow(c, cand, routed)
  <2>1. f = [ok |-> TRUE,
             rows |-> [batch[s] EXCEPT ![id] = row],
             cursor |-> IF routed THEN Bind(c, id) ELSE Settle(c, id, c.carry)]
    BY <1>6, Zenon DEF Freeze
  <2>2. id \in Id /\ row \in Row /\ row.state \in {"FROZEN", "NEEDS_ATTENTION"}
    BY <1>3, <1>6, FrozenRowType
  <2>3. /\ Bind(c, id) \in Cursor
        /\ Bind(c, id).detected = c.detected
        /\ Bind(c, id).observed = c.observed
    BY <2>2, BindType
  <2>4. /\ Settle(c, id, c.carry) \in Cursor
        /\ Settle(c, id, c.carry).detected >= c.detected
        /\ Settle(c, id, c.carry).observed = c.observed
    BY <2>2, <1>c, SettleType
  <2>5. old.state = "ABSENT" BY <1>6
  <2> HIDE DEF f, row, id, cand, found
  <2> QED BY <2>1, <2>2, <2>3, <2>4, <2>5, <1>0, <1>c DEF Sound, Grows
<1>7. CASE c.active = NoId /\ ~Held(c, mode) /\ found # {} /\ old.state # "ABSENT"
  <2>0. id \in Id BY <1>3, <1>7
  <2>1. CASE old.reasons # cand.reasons
    <3>1. f = same(FALSE) BY <1>7, <2>1, Zenon DEF Freeze
    <3> QED BY <3>1, <1>1
  <2>2. CASE old.reasons = cand.reasons /\ old.unrouted
    <3>1. f = [same(TRUE) EXCEPT !.cursor = Settle(c, id, old.carry)]
      BY <1>7, <2>2, Zenon DEF Freeze
    <3>2. old.carry \in Carry BY <1>0, <2>0 DEF Row
    <3>3. /\ Settle(c, id, old.carry) \in Cursor
          /\ Settle(c, id, old.carry).detected >= c.detected
          /\ Settle(c, id, old.carry).observed = c.observed
      BY <3>2, <2>0, SettleType
    <3> HIDE DEF f, same, id, old
    <3> QED BY <3>1, <3>3, <1>2
  <2>3. CASE old.reasons = cand.reasons /\ ~old.unrouted /\ old.state = "FROZEN"
    <3>1. f = [same(TRUE) EXCEPT !.cursor = Bind(c, id)]
      BY <1>7, <2>3, Zenon DEF Freeze
    <3>2. Bind(c, id).detected >= c.detected BY <2>0, <1>c, BindType
    <3> QED BY <3>1, <3>2, <2>0, <1>2, BindType
  <2>4. CASE old.reasons = cand.reasons /\ ~old.unrouted /\ old.state # "FROZEN"
    <3>1. f = same(FALSE) BY <1>7, <2>4, Zenon DEF Freeze
    <3> QED BY <3>1, <1>1
  <2> QED BY <2>1, <2>2, <2>3, <2>4
<1> HIDE DEF f, old, id, cand, found, same
<1> QED BY <1>4, <1>5, <1>6, <1>7

LEMMA PassFacts ==
  ASSUME TypeOK, NEW S, NEW c \in [Session -> Cursor], NEW mode, NEW routed \in Routes,
         NEW s \in Session
  PROVE Sound(s, c[s], Pass(S, c, mode, routed)[s])
<1>1. /\ obs[s] \in Seq(Kinds) /\ Len(obs[s]) <= MaxTurn
      /\ batch[s] \in [Id -> Row]
  BY DEF TypeOK
<1>2. routed[s] \in BOOLEAN /\ c[s] \in Cursor
  BY OutcomesAssumption DEF Routes
<1>3. CASE s \in S
  <2>1. Pass(S, c, mode, routed)[s] = Freeze(s, c[s], obs[s], mode[s], routed[s])
    BY <1>3 DEF Pass
  <2> QED BY <2>1, <1>1, <1>2, FreezeFacts
<1>4. CASE s \notin S
  <2>1. Pass(S, c, mode, routed)[s] = [ok |-> TRUE, rows |-> batch[s], cursor |-> c[s]]
    BY <1>4 DEF Pass
  <2>2. c[s].detected \in Int BY <1>2 DEF Cursor
  <2> QED BY <2>1, <2>2, <1>1, <1>2 DEF Sound, Grows
<1> QED BY <1>3, <1>4

RowsGrow == \A s \in Session : \A id \in Id : Grows(batch[s][id], batch'[s][id])

(* No watermark of the cursors moves back behind those of c. *)
Forward(c) ==
    \A s \in Session :
        /\ cursor'[s].detected >= c[s].detected
        /\ cursor'[s].observed >= c[s].observed

BatchType == batch \in [Session -> [Id -> Row]]
CursorType == cursor \in [Session -> Cursor]
BoundsType == crashes \in 0 .. MaxCrashes /\ faults \in 0 .. MaxFaults

LEMMA FlushCommitsFacts ==
  ASSUME TypeOK, NEW S, NEW c \in [Session -> Cursor], NEW mode, FlushCommits(S, c, mode)
  PROVE BatchType' /\ CursorType' /\ BoundsType' /\ RowsGrow /\ Forward(c)
<1>1. PICK routed \in Routes :
        LET F == Pass(S, c, mode, routed)
        IN  /\ \A s \in Session : F[s].ok
            /\ batch' = [s \in Session |-> F[s].rows]
            /\ cursor' = [s \in Session |-> F[s].cursor]
            /\ UNCHANGED bounds
  BY Zenon DEF FlushCommits
<1> DEFINE F == Pass(S, c, mode, routed)
<1>2. \A s \in Session : Sound(s, c[s], F[s]) BY PassFacts
<1>3. \A s \in Session : c[s].detected \in Int /\ c[s].observed \in Int
  BY DEF Cursor
<1>4. /\ batch' = [s \in Session |-> F[s].rows]
      /\ cursor' = [s \in Session |-> F[s].cursor]
      /\ crashes' = crashes /\ faults' = faults
  BY <1>1 DEF bounds
<1> HIDE DEF F
<1>5. BatchType' /\ CursorType'
  BY <1>2, <1>4 DEF Sound, BatchType, CursorType
<1>6. BoundsType' BY <1>4 DEF TypeOK, BoundsType
<1>7. RowsGrow BY <1>2, <1>4 DEF Sound, RowsGrow
<1>8. Forward(c) BY <1>2, <1>3, <1>4 DEF Sound, Forward
<1> QED BY <1>5, <1>6, <1>7, <1>8

LEMMA FlushThrowsFacts ==
  ASSUME TypeOK, NEW S, NEW c \in [Session -> Cursor], NEW mode, FlushThrows(S, c, mode)
  PROVE BatchType' /\ cursor' = cursor /\ BoundsType' /\ RowsGrow
<1>1. PICK routed \in Routes, cut \in 1 .. NSession + 1 :
        LET F == Pass(S, c, mode, routed)
        IN  /\ IF cut \in Session /\ ~F[cut].ok THEN UNCHANGED bounds ELSE Fault
            /\ batch' = [s \in Session |-> IF s < cut THEN F[s].rows ELSE batch[s]]
            /\ UNCHANGED cursor
  BY Zenon DEF FlushThrows
<1> DEFINE F == Pass(S, c, mode, routed)
<1>2. \A s \in Session : Sound(s, c[s], F[s]) BY PassFacts
<1>4. batch' = [s \in Session |-> IF s < cut THEN F[s].rows ELSE batch[s]]
  BY <1>1
<1>5. UNCHANGED bounds \/ Fault BY <1>1
<1>6. BoundsType'
  BY <1>5, SizesAssumption DEF TypeOK, BoundsType, Fault, bounds
<1> HIDE DEF F
<1>7. BatchType' BY <1>2, <1>4 DEF Sound, BatchType, TypeOK
<1>8. RowsGrow BY <1>2, <1>4 DEF Sound, RowsGrow, Grows
<1> QED BY <1>1, <1>6, <1>7, <1>8

LEMMA WindowStartType ==
  ASSUME NEW s \in Session, NEW c \in Cursor
  PROVE WindowStart(s, c) \in 0 .. MaxTurn
<1>1. c.active \in Id \cup {NoId} /\ c.detected \in 0 .. MaxTurn
  BY DEF Cursor
<1>2. c.active \in Id => c.active[2] \in 0 .. MaxTurn
  BY SizesAssumption DEF Id, Turn
<1> QED BY <1>1, <1>2 DEF WindowStart

LEMMA UnavailableType ==
  ASSUME NEW n \in 0 .. MaxTurn
  PROVE Unavailable(n) \in Baseline
  BY SizesAssumption DEF Unavailable, Baseline

(* Cursors with some of their fields replaced are cursors. *)
LEMMA CursorWith ==
  ASSUME NEW c \in Cursor
  PROVE  /\ \A b \in Baseline : [c EXCEPT !.base = b] \in Cursor
         /\ \A n \in 0 .. MaxTurn : [c EXCEPT !.manual = n] \in Cursor
         /\ \A n \in 0 .. MaxTurn, m \in 0 .. MaxTurn, b \in Baseline :
               [c EXCEPT !.observed = n, !.manual = m, !.base = b] \in Cursor
         /\ \A n \in 0 .. MaxTurn, m \in 0 .. MaxTurn :
               [c EXCEPT !.observed = n, !.manual = m] \in Cursor
         /\ \A n \in 0 .. MaxTurn, a \in Id \cup {NoId}, y \in Carry :
               [c EXCEPT !.active = a, !.detected = n, !.carry = y] \in Cursor
         /\ \A a \in Id \cup {NoId} : [c EXCEPT !.active = a] \in Cursor
  BY DEF Cursor

LEMMA RecordedType ==
  ASSUME TypeOK, NEW s \in Session, NEW n \in 0 .. MaxTurn
  PROVE  /\ Recorded(s, n) \in Cursor
         /\ Recorded(s, n).detected = cursor[s].detected
         /\ Recorded(s, n).observed >= cursor[s].observed
<1> DEFINE c == cursor[s]
           start == WindowStart(s, c)
           seen == Larger(c.observed, n)
           m == IF c.manual = 0 THEN 0 ELSE seen
           b == IF c.base.after = start THEN c.base
                ELSE IF n > Len(obs[s]) THEN Unavailable(start) ELSE NoBase
<1>1. c \in Cursor BY DEF TypeOK
<1>2. c.observed \in 0 .. MaxTurn /\ c.base \in Baseline /\ c.detected \in 0 .. MaxTurn
  BY <1>1 DEF Cursor
<1>3. seen \in 0 .. MaxTurn /\ seen >= c.observed
  BY <1>2, SizesAssumption DEF Larger
<1>4. m \in 0 .. MaxTurn BY <1>3, SizesAssumption
<1>5. b \in Baseline
  <2>1. start \in 0 .. MaxTurn BY <1>1, WindowStartType
  <2>2. Unavailable(start) \in Baseline BY <2>1, UnavailableType
  <2> QED BY <2>2, <1>2, NoBaseType
<1>6. Recorded(s, n) = [c EXCEPT !.observed = seen, !.manual = m, !.base = b]
  BY DEF Recorded
<1> HIDE DEF c, seen, m, b
<1>7. Recorded(s, n) \in Cursor
  <2>1. [c EXCEPT !.observed = seen, !.manual = m, !.base = b] \in Cursor
    BY <1>1, <1>3, <1>4, <1>5, CursorWith
  <2> QED BY <2>1, <1>6
<1>8. Recorded(s, n).detected = c.detected /\ Recorded(s, n).observed = seen
  BY <1>1, <1>6 DEF Cursor
<1> QED BY <1>3, <1>7, <1>8 DEF c

LEMMA RebuiltType ==
  ASSUME TypeOK, NEW s \in Session
  PROVE  /\ Rebuilt(s) \in Cursor
         /\ Rebuilt(s).detected >= cursor[s].detected
         /\ Rebuilt(s).observed >= cursor[s].observed
<1> DEFINE c == cursor[s]
           ends == {id[2] : id \in TerminalIds(s)}
           last == IF ends = {} THEN 0 ELSE Last(ends)
           tail == CHOOSE id \in TerminalIds(s) : id[2] = last
           observed == Larger(c.observed, Len(obs[s]))
           manual == IF c.manual = 0 THEN 0 ELSE observed
           seen == [c EXCEPT !.observed = observed, !.manual = manual]
           detected == Larger(c.detected, last)
           carry == IF batch[s][tail].state \in {"COMMITTED_DEFER", "NEEDS_ATTENTION"}
                    THEN batch[s][tail].carry ELSE NoCarry
           moved == [Consume(seen, detected) EXCEPT !.active = NoId,
                        !.detected = detected, !.carry = carry]
           passed == IF ends = {} THEN seen ELSE moved
           open == CHOOSE id \in OpenIds(s) : TRUE
           bound == IF OpenIds(s) = {} THEN passed
                    ELSE [Consume(passed, open[2]) EXCEPT !.active = open]
           start == WindowStart(s, bound)
           Ahead(d) == /\ d \in Cursor
                       /\ d.detected >= c.detected
                       /\ d.observed >= c.observed
<1>1. /\ c \in Cursor
      /\ c.observed \in 0 .. MaxTurn
      /\ c.detected \in 0 .. MaxTurn
      /\ Len(obs[s]) \in 0 .. MaxTurn
  <2>1. c \in Cursor BY DEF TypeOK
  <2>2. Len(obs[s]) \in Nat /\ Len(obs[s]) <= MaxTurn BY DEF TypeOK
  <2> QED BY <2>1, <2>2, SizesAssumption DEF Cursor
<1>2. observed \in 0 .. MaxTurn /\ observed >= c.observed
  BY <1>1, SizesAssumption DEF Larger
<1>3. manual \in 0 .. MaxTurn BY <1>2, SizesAssumption
<1>4. Ahead(seen)
  <2> HIDE DEF observed, manual
  <2>1. seen \in Cursor BY <1>1, <1>2, <1>3, CursorWith
  <2>2. seen.detected = c.detected /\ seen.observed = observed
    BY <1>1 DEF Cursor
  <2> QED BY <1>1, <1>2, <2>1, <2>2
<1>5. ASSUME ends # {} PROVE Ahead(moved)
  <2>1. ends \in SUBSET (0 .. MaxTurn)
    BY SizesAssumption DEF TerminalIds, Id, Turn
  <2>2. last \in ends
    <3> HIDE DEF ends
    <3> QED BY <2>1, <1>5, SizesAssumption, LastInSet
  <2>3. detected \in 0 .. MaxTurn /\ detected >= c.detected
    <3> last \in 0 .. MaxTurn
      BY <2>1, <2>2
    <3> HIDE DEF last
    <3> QED BY <1>1 DEF Larger
  <2>4. carry \in Carry
    <3>1. tail \in TerminalIds(s)
      <4> HIDE DEF last
      <4> QED BY <2>2
    <3>2. batch[s][tail] \in Row BY <3>1 DEF TypeOK, TerminalIds
    <3> HIDE DEF tail
    <3>3. batch[s][tail].carry \in Carry BY <3>2 DEF Row
    <3> QED BY <3>3, SizesAssumption DEF Carry, NoCarry
  <2> HIDE DEF detected, carry, seen
  <2> DEFINE d == Consume(seen, detected)
  <2>5. d \in Cursor /\ d.observed = seen.observed BY <1>4, ConsumeType
  <2>6. moved = [d EXCEPT !.active = NoId, !.detected = detected, !.carry = carry] OBVIOUS
  <2> HIDE DEF d
  <2>7. moved \in Cursor BY <2>3, <2>4, <2>5, <2>6, CursorWith
  <2>8. moved.detected = detected /\ moved.observed = d.observed
    BY <2>5, <2>6 DEF Cursor
  <2> HIDE DEF moved
  <2> QED BY <1>4, <2>3, <2>5, <2>7, <2>8
<1>6. Ahead(passed)
  <2> HIDE DEF ends, seen, moved
  <2> QED BY <1>4, <1>5
<1>7. Ahead(bound)
  <2> HIDE DEF passed
  <2>1. CASE OpenIds(s) = {} BY <1>6, <2>1
  <2>2. CASE OpenIds(s) # {}
    <3>1. open \in Id BY <2>2 DEF OpenIds
    <3> HIDE DEF open
    <3> DEFINE d == Consume(passed, open[2])
    <3>2. d \in Cursor /\ d.detected = passed.detected /\ d.observed = passed.observed
      BY <1>6, ConsumeType
    <3>3. bound = [d EXCEPT !.active = open] BY <2>2
    <3> HIDE DEF d, bound
    <3>4. bound \in Cursor BY <3>1, <3>2, <3>3, CursorWith
    <3>5. bound.detected = d.detected /\ bound.observed = d.observed
      BY <3>2, <3>3 DEF Cursor
    <3> QED BY <1>6, <3>2, <3>4, <3>5
  <2> QED BY <2>1, <2>2
<1>8. Rebuilt(s) = IF bound.base.after = start THEN bound
                   ELSE IF bound.observed > start
                   THEN [bound EXCEPT !.base = Unavailable(start)]
                   ELSE [bound EXCEPT !.base = NoBase]
  BY Zenon DEF Rebuilt
<1>9. ASSUME NEW b \in Baseline PROVE Ahead([bound EXCEPT !.base = b])
  <2> HIDE DEF bound
  <2>1. [bound EXCEPT !.base = b] \in Cursor BY <1>7, CursorWith
  <2>2. /\ [bound EXCEPT !.base = b].detected = bound.detected
        /\ [bound EXCEPT !.base = b].observed = bound.observed
    BY <1>7 DEF Cursor
  <2> QED BY <1>7, <2>1, <2>2
<1>10. Unavailable(start) \in Baseline
  <2> HIDE DEF bound
  <2> QED BY <1>7, WindowStartType, UnavailableType
<1> HIDE DEF bound, start
<1>11. Ahead(Rebuilt(s)) BY <1>7, <1>8, <1>9, <1>10, NoBaseType
<1> QED BY <1>11

----
(* The inductive invariant. What the worker may do next depends on the batch
   it holds being still claimed, and the intents agree with the rows because
   only the worker that holds a batch stages, releases and discards them. *)
IInv == TypeOK /\ WorkerHoldsItsBatch /\ IntentsMatchBatch /\ StagedByItsWorker

(* What a step must not do to settled batches and to watermarks. *)
Settled ==
    \A s \in Session :
        /\ cursor'[s].detected >= cursor[s].detected
        /\ cursor'[s].observed >= cursor[s].observed
        /\ \A id \in TerminalIds(s) : batch'[s][id] = batch[s][id]

Kept == IInv' /\ Settled

(* A step that touches the rows only by adding some, no intent, and the worker
   at most by sending it home or to its next run. *)
Quiet ==
    /\ TypeOK'
    /\ RowsGrow
    /\ Forward(cursor)
    /\ intent' = intent
    /\ det' = det \/ det'.pc \in {"off", "run"}

LEMMA QuietKeeps == IInv /\ Quiet => Kept
<1> SUFFICES ASSUME IInv, Quiet PROVE Kept OBVIOUS
<1>1. \A s \in Session, id \in Id :
        /\ batch[s][id].state # "ABSENT" => batch'[s][id] = batch[s][id]
        /\ batch[s][id].state = "ABSENT" =>
              batch'[s][id].state \in {"ABSENT", "FROZEN", "NEEDS_ATTENTION"}
  BY DEF Quiet, RowsGrow, Grows
<1>2. WorkerHoldsItsBatch'
  <2>1. CASE det'.pc \in {"off", "run"} BY <2>1 DEF WorkerHoldsItsBatch
  <2>2. CASE det' = det /\ det.pc \notin {"off", "run"}
    <3>1. det.id \in Id /\ det.s \in Session
      BY <2>2 DEF IInv, WorkerHoldsItsBatch, TypeOK
    <3>2. Worked.state # "ABSENT"
      <4>1. det.pc \in {"called", "stage", "fail", "discard", "release",
                        "advance", "readvance", "after"}
        BY <2>2 DEF IInv, TypeOK, DetSteps
      <4> QED BY <4>1 DEF IInv, WorkerHoldsItsBatch, Terminal, TerminalStates
    <3>3. Worked' = Worked BY <1>1, <2>2, <3>1, <3>2 DEF Worked
    <3> QED BY <2>2, <3>3 DEF IInv, WorkerHoldsItsBatch, Terminal
  <2> QED BY <2>1, <2>2 DEF Quiet
<1>3. IntentsMatchBatch'
  <2> SUFFICES ASSUME NEW s \in Session, NEW id \in Id, NEW k \in 1 .. MaxIntents
               PROVE  /\ intent'[s][id][k] = "WAITING_FOR_QUIESCENCE" =>
                            /\ batch'[s][id].state = "COMMITTED_READY"
                            /\ k <= batch'[s][id].intents
                      /\ batch'[s][id].state = "COMMITTED_READY" =>
                            (k <= batch'[s][id].intents <=> intent'[s][id][k] # "ABSENT")
    BY Zenon DEF IntentsMatchBatch
  <2>1. intent'[s][id][k] = intent[s][id][k] BY DEF Quiet
  <2>2. /\ intent[s][id][k] = "WAITING_FOR_QUIESCENCE" =>
              /\ batch[s][id].state = "COMMITTED_READY"
              /\ k <= batch[s][id].intents
        /\ batch[s][id].state = "COMMITTED_READY" =>
              (k <= batch[s][id].intents <=> intent[s][id][k] # "ABSENT")
    BY Zenon DEF IInv, IntentsMatchBatch
  <2> QED BY <1>1, <2>1, <2>2
<1>4. StagedByItsWorker'
  <2>1. ASSUME NEW s \in Session, NEW id \in Id, NEW k \in 1 .. MaxIntents,
               batch'[s][id].state \in {"ABSENT", "FROZEN"}
        PROVE intent'[s][id][k] = "ABSENT"
    BY <1>1, <2>1 DEF Quiet, IInv, StagedByItsWorker
  <2>2. ASSUME NEW k \in 1 .. MaxIntents,
               det'.pc = "called" \/ (det'.pc = "stage" /\ k > det'.n)
        PROVE intent'[det'.s][det'.id][k] = "ABSENT"
    <3>1. det' = det BY <2>2 DEF Quiet
    <3> QED BY <2>2, <3>1 DEF Quiet, IInv, StagedByItsWorker
  <2> QED BY <2>1, <2>2, Zenon DEF StagedByItsWorker
<1>5. Settled
  BY <1>1 DEF Quiet, Forward, Settled, TerminalIds, Terminal, TerminalStates
<1> QED BY <1>2, <1>3, <1>4, <1>5 DEF Kept, IInv, Quiet

----
(* The steps that leave the worker's batch alone. *)

LEMMA StillIsQuiet ==
  ASSUME TypeOK, cursor' = cursor
  PROVE Forward(cursor) /\ (batch' = batch => RowsGrow)
<1>1. \A s \in Session : cursor[s].detected \in Int /\ cursor[s].observed \in Int
  BY DEF TypeOK, Cursor
<1> QED BY <1>1 DEF Forward, RowsGrow, Grows

LEMMA StopType ==
  ASSUME Stop
  PROVE  /\ phase' = "down" /\ sched' \in SchedSteps /\ wake' \in BOOLEAN
         /\ drain' = {} /\ det'.pc = "off"
         /\ det' \in [pc : DetSteps, s : Session, id : Id \cup {NoId}, n : 0 .. MaxIntents]
<1>1. 1 \in Session /\ 0 \in 0 .. MaxIntents
  BY SizesAssumption DEF Session
<1>2. NoDet \in [pc : DetSteps, s : Session, id : Id \cup {NoId}, n : 0 .. MaxIntents]
  BY <1>1 DEF NoDet, DetSteps
<1>3. NoDet.pc = "off" BY DEF NoDet
<1> QED BY <1>2, <1>3 DEF Stop, SchedSteps

LEMMA GotoType ==
  ASSUME TypeOK, NEW pc \in DetSteps, det' = [det EXCEPT !.pc = pc]
  PROVE  /\ det' \in [pc : DetSteps, s : Session, id : Id \cup {NoId}, n : 0 .. MaxIntents]
         /\ det'.pc = pc /\ det'.s = det.s /\ det'.id = det.id /\ det'.n = det.n
  BY DEF TypeOK

LEMMA FaultType ==
  ASSUME TypeOK, UNCHANGED bounds \/ Fault
  PROVE BoundsType'
  BY SizesAssumption DEF TypeOK, BoundsType, Fault, bounds

LEMMA HostingQuiet ==
  ASSUME TypeOK, AgentDisposed \/ \E s \in Session : IdleElapses(s)
  PROVE Quiet
<1>1. CASE AgentDisposed
  <2>1. TypeOK'
    BY <1>1 DEF AgentDisposed, PipelineWake, TypeOK, durable, bounds
  <2> QED BY <1>1, <2>1, StillIsQuiet DEF AgentDisposed, durable, Quiet
<1>2. CASE \E s \in Session : IdleElapses(s)
  <2>1. TypeOK'
    BY <1>2 DEF IdleElapses, TypeOK, durable, process, bounds
  <2> QED BY <1>2, <2>1, StillIsQuiet DEF IdleElapses, durable, process, Quiet
<1> QED BY <1>1, <1>2

LEMMA PrepareSessionWindowQuiet ==
  ASSUME TypeOK, NEW s \in Session, PrepareSessionWindow(s)
  PROVE Quiet
<1> DEFINE c == cursor[s]
           start == WindowStart(s, c)
<1>1. c \in Cursor /\ c.observed \in 0 .. MaxTurn BY DEF TypeOK, Cursor
<1>2. start \in 0 .. MaxTurn BY <1>1, WindowStartType
<1>3. PICK b \in Baseline : cursor' = [cursor EXCEPT ![s] = [c EXCEPT !.base = b]]
  <2>1. PICK captured \in Captures :
          cursor' = [cursor EXCEPT ![s].base =
             IF captured /\ c.observed = start
             THEN [after |-> start, complete |-> TRUE, at |-> c.observed]
             ELSE Unavailable(start)]
    BY Zenon DEF PrepareSessionWindow
  <2> DEFINE b == IF captured /\ c.observed = start
                  THEN [after |-> start, complete |-> TRUE, at |-> c.observed]
                  ELSE Unavailable(start)
  <2>2. b \in Baseline
    <3>1. Unavailable(start) \in Baseline BY <1>2, UnavailableType
    <3>2. [after |-> start, complete |-> TRUE, at |-> c.observed] \in Baseline
      BY <1>1, <1>2, SizesAssumption DEF Baseline
    <3> QED BY <3>1, <3>2
  <2>3. cursor' = [cursor EXCEPT ![s] = [c EXCEPT !.base = b]] BY <2>1
  <2> HIDE DEF b
  <2> QED BY <2>2, <2>3
<1>4. [c EXCEPT !.base = b] \in Cursor BY <1>1, CursorWith
<1>5. UNCHANGED <<idle, obs, batch, intent, process, bounds>>
  BY Zenon DEF PrepareSessionWindow
<1>6. TypeOK' BY <1>3, <1>4, <1>5 DEF TypeOK, process, bounds
<1>7. Forward(cursor)
  <2>1. \A r \in Session : cursor[r].detected \in Int /\ cursor[r].observed \in Int
    BY DEF TypeOK, Cursor
  <2>2. /\ [c EXCEPT !.base = b].detected = c.detected
        /\ [c EXCEPT !.base = b].observed = c.observed
    BY <1>1 DEF Cursor
  <2>3. cursor \in [Session -> Cursor] BY DEF TypeOK
  <2> QED BY <1>3, <2>1, <2>2, <2>3 DEF Forward
<1> QED BY <1>5, <1>6, <1>7 DEF Quiet, RowsGrow, Grows, process

LEMMA RequestSynthesisQuiet ==
  ASSUME TypeOK, NEW s \in Session, RequestSynthesis(s)
  PROVE Quiet
<1> DEFINE c == cursor[s]
           d == [c EXCEPT !.manual = c.observed]
<1>1. c \in Cursor /\ c.observed \in 0 .. MaxTurn BY DEF TypeOK, Cursor
<1>2. d \in Cursor /\ d.detected = c.detected /\ d.observed = c.observed
  BY <1>1, CursorWith DEF Cursor
<1>3. /\ cursor' = [cursor EXCEPT ![s] = d]
      /\ PipelineWake
      /\ UNCHANGED <<idle, obs, batch, intent, phase, sched, det, bounds>>
  BY Zenon DEF RequestSynthesis
<1> HIDE DEF d
<1>4. TypeOK' BY <1>2, <1>3 DEF TypeOK, PipelineWake, bounds
<1>5. Forward(cursor)
  <2>1. \A r \in Session : cursor[r].detected \in Int /\ cursor[r].observed \in Int
    BY DEF TypeOK, Cursor
  <2>2. cursor \in [Session -> Cursor] BY DEF TypeOK
  <2> QED BY <1>2, <1>3, <2>1, <2>2 DEF Forward
<1> QED BY <1>3, <1>4, <1>5 DEF Quiet, RowsGrow, Grows

LEMMA RecordObservationQuiet ==
  ASSUME TypeOK, NEW s \in Session, RecordObservation(s)
  PROVE Quiet
<1> DEFINE n == cursor[s].observed + 1
           c == Recorded(s, n)
<1>1. n \in 0 .. MaxTurn
  <2>1. n <= MaxTurn BY Zenon DEF RecordObservation
  <2> QED BY <2>1 DEF TypeOK, Cursor
<1>2. /\ c \in Cursor
      /\ c.detected = cursor[s].detected
      /\ c.observed >= cursor[s].observed
  BY <1>1, RecordedType
<1>3. /\ obs' \in [Session -> Seq(Kinds)]
      /\ \A r \in Session : Len(obs'[r]) <= MaxTurn
  <2>1. \/ UNCHANGED obs
        \/ ~(n <= Len(obs[s])) /\ \E kind \in Kinds : obs' = [obs EXCEPT ![s] = Append(@, kind)]
    BY Zenon DEF RecordObservation
  <2>2. CASE UNCHANGED obs BY <2>2 DEF TypeOK
  <2>3. ASSUME NEW kind \in Kinds, obs' = [obs EXCEPT ![s] = Append(@, kind)],
               ~(n <= Len(obs[s]))
        PROVE  /\ obs' \in [Session -> Seq(Kinds)]
               /\ \A r \in Session : Len(obs'[r]) <= MaxTurn
    <3>1. /\ obs \in [Session -> Seq(Kinds)] /\ \A r \in Session : Len(obs[r]) <= MaxTurn
      BY DEF TypeOK
    <3>2. /\ Append(obs[s], kind) \in Seq(Kinds)
          /\ Len(Append(obs[s], kind)) = Len(obs[s]) + 1
          /\ Len(obs[s]) \in Nat
      BY <3>1
    <3>3. Len(Append(obs[s], kind)) <= MaxTurn
      <4> HIDE DEF n
      <4> QED BY <1>1, <2>3, <3>2, SizesAssumption
    <3>4. obs' = [obs EXCEPT ![s] = Append(obs[s], kind)] BY <2>3
    <3> QED BY <3>1, <3>2, <3>3, <3>4
  <2> QED BY <2>1, <2>2, <2>3
<1> HIDE DEF c
<1>4. PICK routed \in RouteOutcomes :
        LET f == Freeze(s, c, obs'[s], "observe", routed)
        IN  \/ /\ f.ok
               /\ batch' = [batch EXCEPT ![s] = f.rows]
               /\ cursor' = [cursor EXCEPT ![s] = f.cursor]
               /\ idle' = [idle EXCEPT ![s] = FALSE]
               /\ sched' = "requested"
               /\ UNCHANGED bounds
            \/ /\ f.ok
               /\ Fault
               /\ batch' \in {batch, [batch EXCEPT ![s] = f.rows]}
               /\ UNCHANGED <<cursor, idle, sched>>
            \/ /\ ~f.ok
               /\ UNCHANGED <<batch, cursor, idle, sched, bounds>>
  BY Zenon DEF RecordObservation, c
<1> DEFINE f == Freeze(s, c, obs'[s], "observe", routed)
<1>5. Sound(s, c, f)
  <2>1. routed \in BOOLEAN BY OutcomesAssumption
  <2> QED BY <1>2, <1>3, <2>1, FreezeFacts
<1>6. /\ f.rows \in [Id -> Row]
      /\ f.cursor \in Cursor
      /\ f.cursor.detected >= c.detected
      /\ f.cursor.observed = c.observed
      /\ \A id \in Id : Grows(batch[s][id], f.rows[id])
  BY <1>5 DEF Sound
<1>7. /\ batch' \in {batch, [batch EXCEPT ![s] = f.rows]}
      /\ cursor' \in {cursor, [cursor EXCEPT ![s] = f.cursor]}
      /\ idle' \in {idle, [idle EXCEPT ![s] = FALSE]}
      /\ sched' \in {sched, "requested"}
      /\ UNCHANGED bounds \/ Fault
  <2> HIDE DEF f
  <2> QED BY <1>4 DEF f
<1>8. UNCHANGED <<intent, phase, wake, drain, det>>
  BY Zenon DEF RecordObservation
<1> HIDE DEF f
<1>9. BoundsType' BY <1>7, FaultType
<1>10. TypeOK'
  BY <1>3, <1>6, <1>7, <1>8, <1>9 DEF TypeOK, BoundsType, SchedSteps
<1>11. RowsGrow
  <2>1. batch \in [Session -> [Id -> Row]] BY DEF TypeOK
  <2> QED BY <1>6, <1>7, <2>1 DEF RowsGrow, Grows
<1>12. Forward(cursor)
  <2>1. \A r \in Session : cursor[r].detected \in Int /\ cursor[r].observed \in Int
    BY DEF TypeOK, Cursor
  <2>2. c.detected \in Int /\ c.observed \in Int BY <1>2 DEF Cursor
  <2>3. cursor \in [Session -> Cursor] BY DEF TypeOK
  <2> QED BY <1>2, <1>6, <1>7, <2>1, <2>2, <2>3 DEF Forward
<1> QED BY <1>8, <1>10, <1>11, <1>12 DEF Quiet

(* The flushes. A flush over the requests commits, or stops half-way. *)
LEMMA FlushRequestedFacts ==
  ASSUME TypeOK, NEW ACTION Then, NEW ACTION Else, FlushRequested(Then, Else)
  PROVE  /\ UNCHANGED <<idle, obs, intent>>
         /\ BatchType' /\ CursorType' /\ BoundsType' /\ RowsGrow /\ Forward(cursor)
         /\ Then \/ Else
<1>1. cursor \in [Session -> Cursor] BY DEF TypeOK
<1>2. PICK S \in SUBSET {s \in Asked : Captured(s)} :
          \/ FlushCommits(S, cursor, ManualMode) /\ Then
          \/ FlushThrows(S, cursor, ManualMode) /\ Else
  BY Zenon DEF FlushRequested
<1>3. UNCHANGED <<idle, obs, intent>> BY Zenon DEF FlushRequested
<1>4. CASE FlushCommits(S, cursor, ManualMode) /\ Then
  BY <1>1, <1>3, <1>4, FlushCommitsFacts, Zenon
<1>5. CASE FlushThrows(S, cursor, ManualMode) /\ Else
  <2>1. BatchType' /\ cursor' = cursor /\ BoundsType' /\ RowsGrow
    BY <1>1, <1>5, FlushThrowsFacts, Zenon
  <2>2. CursorType' BY <1>1, <2>1 DEF CursorType
  <2> QED BY <1>3, <1>5, <2>1, <2>2, StillIsQuiet
<1> QED BY <1>2, <1>4, <1>5

(* From the durable part of a step and its process part to a quiet step. *)
LEMMA DurableQuiet ==
  ASSUME TypeOK,
         BatchType' /\ CursorType' /\ BoundsType' /\ RowsGrow /\ Forward(cursor),
         UNCHANGED <<obs, intent>>,
         idle' \in [Session -> BOOLEAN],
         phase' \in {"down", "recover", "bind", "ask", "up"},
         sched' \in SchedSteps, wake' \in BOOLEAN, drain' \subseteq {"behind", "ready"},
         det' \in [pc : DetSteps, s : Session, id : Id \cup {NoId}, n : 0 .. MaxIntents],
         det' = det \/ det'.pc \in {"off", "run"}
  PROVE Quiet
<1>1. TypeOK' BY DEF TypeOK, BatchType, CursorType, BoundsType
<1> QED BY <1>1 DEF Quiet

LEMMA ObserveFlushQuiet ==
  ASSUME TypeOK, ObserveFlush
  PROVE Quiet
<1>1. /\ UNCHANGED <<idle, obs, intent>>
      /\ BatchType' /\ CursorType' /\ BoundsType' /\ RowsGrow /\ Forward(cursor)
      /\ \/ /\ IF batch' = batch THEN UNCHANGED <<wake, drain>> ELSE PipelineWake
            /\ det' = [det EXCEPT !.pc = "run"]
         \/ UNCHANGED <<wake, drain, det>>
  BY FlushRequestedFacts, Zenon DEF ObserveFlush
<1>2. sched' = "idle" /\ phase' = phase BY DEF ObserveFlush
<1>3. wake' \in BOOLEAN /\ drain' \subseteq {"behind", "ready"}
  BY <1>1 DEF TypeOK, PipelineWake
<1>4. /\ det' \in [pc : DetSteps, s : Session, id : Id \cup {NoId}, n : 0 .. MaxIntents]
      /\ det' = det \/ det'.pc \in {"off", "run"}
  <2>1. CASE det' = [det EXCEPT !.pc = "run"]
    BY <2>1, GotoType DEF DetSteps
  <2>2. CASE det' = det BY <2>2 DEF TypeOK
  <2> QED BY <1>1, <2>1, <2>2
<1> QED BY <1>1, <1>2, <1>3, <1>4, DurableQuiet DEF TypeOK, SchedSteps

LEMMA WakeRequestedQuiet ==
  ASSUME TypeOK, WakeRequested
  PROVE Quiet
<1>1. /\ UNCHANGED <<idle, obs, intent>>
      /\ BatchType' /\ CursorType' /\ BoundsType' /\ RowsGrow /\ Forward(cursor)
      /\ \/ sched' = IF batch' = batch THEN "flushIdle" ELSE "flushIdleChanged"
         \/ UNCHANGED sched
  BY FlushRequestedFacts, Zenon DEF WakeRequested
<1>2. /\ wake' = FALSE
      /\ drain' = IF drain = {} THEN {} ELSE {"ready"}
      /\ UNCHANGED <<phase, det>>
  BY DEF WakeRequested
<1>3. sched' \in SchedSteps BY <1>1 DEF TypeOK, SchedSteps
<1> QED BY <1>1, <1>2, <1>3, DurableQuiet DEF TypeOK

LEMMA AfterStageTransitionQuiet ==
  ASSUME TypeOK, AfterStageTransition
  PROVE Quiet
<1>1. /\ UNCHANGED <<idle, obs, intent>>
      /\ BatchType' /\ CursorType' /\ BoundsType' /\ RowsGrow /\ Forward(cursor)
      /\ Goto("run") \/ Goto("off")
  <2>1. FlushRequested(Goto("run"), Goto("off"))
    BY Zenon DEF AfterStageTransition
  <2> QED BY <2>1, FlushRequestedFacts DEF Goto
<1>2. UNCHANGED <<phase, sched, wake, drain>>
  BY DEF AfterStageTransition
<1>3. /\ det' \in [pc : DetSteps, s : Session, id : Id \cup {NoId}, n : 0 .. MaxIntents]
      /\ det'.pc \in {"off", "run"}
  BY <1>1, GotoType DEF Goto, DetSteps
<1> QED BY <1>1, <1>2, <1>3, DurableQuiet DEF TypeOK

LEMMA StartFlushQuiet ==
  ASSUME TypeOK, StartFlush
  PROVE Quiet
<1>1. /\ UNCHANGED <<idle, obs, intent>>
      /\ BatchType' /\ CursorType' /\ BoundsType' /\ RowsGrow /\ Forward(cursor)
      /\ \/ /\ phase' = "up"
            /\ det' = [det EXCEPT !.pc = "run"]
            /\ UNCHANGED <<sched, wake, drain>>
         \/ Stop
  <2>1. FlushRequested(/\ phase' = "up"
                       /\ det' = [det EXCEPT !.pc = "run"]
                       /\ UNCHANGED <<sched, wake, drain>>,
                       Stop)
    BY Zenon DEF StartFlush
  <2> QED BY <2>1, FlushRequestedFacts, Zenon DEF Stop
<1>2. CASE phase' = "up" /\ det' = [det EXCEPT !.pc = "run"] /\ UNCHANGED <<sched, wake, drain>>
  <2>1. /\ det' \in [pc : DetSteps, s : Session, id : Id \cup {NoId}, n : 0 .. MaxIntents]
        /\ det'.pc = "run"
    BY <1>2, GotoType DEF DetSteps
  <2> QED BY <1>1, <1>2, <2>1, DurableQuiet DEF TypeOK
<1>3. CASE Stop BY <1>1, <1>3, StopType, DurableQuiet DEF TypeOK
<1> QED BY <1>1, <1>2, <1>3

LEMMA FlushIdleQuiet ==
  ASSUME TypeOK, FlushIdle
  PROVE Quiet
<1>1. cursor \in [Session -> Cursor] BY DEF TypeOK
<1>2. /\ sched' = "idle"
      /\ UNCHANGED <<idle, obs, intent, phase, det>>
      /\ wake' \in BOOLEAN /\ drain' \subseteq {"behind", "ready"}
  BY DEF FlushIdle, PipelineWake, TypeOK
<1>3. CASE FlushCommits(Session, cursor, IdleMode(idle))
  <2>1. BatchType' /\ CursorType' /\ BoundsType' /\ RowsGrow /\ Forward(cursor)
    BY <1>1, <1>3, FlushCommitsFacts, Zenon
  <2> QED BY <1>2, <2>1, DurableQuiet DEF TypeOK, SchedSteps
<1>4. CASE FlushThrows(Session, cursor, IdleMode(idle))
  <2>1. BatchType' /\ cursor' = cursor /\ BoundsType' /\ RowsGrow
    BY <1>1, <1>4, FlushThrowsFacts, Zenon
  <2>2. CursorType' /\ Forward(cursor)
    BY <1>1, <2>1, StillIsQuiet DEF CursorType
  <2> QED BY <1>2, <2>1, <2>2, DurableQuiet DEF TypeOK, SchedSteps
<1> QED BY <1>3, <1>4 DEF FlushIdle

LEMMA RecoverCursorsQuiet ==
  ASSUME TypeOK, RecoverCursors
  PROVE Quiet
<1> DEFINE c == [s \in Session |-> Rebuilt(s)]
           S == {s \in Session : c[s].active = NoId}
<1>1. c \in [Session -> Cursor] BY RebuiltType
<1>2. \A s \in Session : /\ c[s].detected >= cursor[s].detected
                         /\ c[s].observed >= cursor[s].observed
                         /\ c[s].detected \in Int /\ c[s].observed \in Int
                         /\ cursor[s].detected \in Int /\ cursor[s].observed \in Int
  <2>1. \A s \in Session : cursor[s].detected \in Int /\ cursor[s].observed \in Int
    BY DEF TypeOK, Cursor
  <2>2. \A s \in Session : c[s].detected \in Int /\ c[s].observed \in Int
    BY <1>1 DEF Cursor
  <2> QED BY <2>1, <2>2, RebuiltType
<1>3. /\ idle' \in [Session -> BOOLEAN]
      /\ UNCHANGED <<obs, intent>>
      /\ \/ /\ FlushCommits(S, c, IdleMode(idle'))
            /\ phase' = "ask"
            /\ UNCHANGED <<sched, wake, drain, det>>
         \/ FlushThrows(S, c, IdleMode(idle')) /\ Stop
         \/ Stop /\ UNCHANGED <<batch, cursor, bounds>>
  BY Zenon DEF RecoverCursors
<1> HIDE DEF c, S
<1>4. CASE FlushCommits(S, c, IdleMode(idle')) /\ phase' = "ask"
             /\ UNCHANGED <<sched, wake, drain, det>>
  <2>1. BatchType' /\ CursorType' /\ BoundsType' /\ RowsGrow /\ Forward(c)
    BY <1>1, <1>4, FlushCommitsFacts, Zenon
  <2>2. \A s \in Session : cursor'[s].detected \in Int /\ cursor'[s].observed \in Int
    BY <2>1 DEF CursorType, Cursor
  <2>3. Forward(cursor) BY <1>2, <2>1, <2>2 DEF Forward
  <2> QED BY <1>3, <1>4, <2>1, <2>3, DurableQuiet DEF TypeOK
<1>5. CASE FlushThrows(S, c, IdleMode(idle')) /\ Stop
  <2>1. BatchType' /\ cursor' = cursor /\ BoundsType' /\ RowsGrow
    BY <1>1, <1>5, FlushThrowsFacts, Zenon
  <2>2. CursorType' /\ Forward(cursor)
    BY <2>1, StillIsQuiet DEF CursorType, TypeOK
  <2> QED BY <1>3, <1>5, <2>1, <2>2, StopType, DurableQuiet DEF TypeOK
<1>6. CASE Stop /\ UNCHANGED <<batch, cursor, bounds>>
  <2>1. BatchType' /\ CursorType' /\ BoundsType' /\ RowsGrow /\ Forward(cursor)
    BY <1>6, StillIsQuiet, FaultType DEF BatchType, CursorType, TypeOK
  <2> QED BY <1>3, <1>6, <2>1, StopType, DurableQuiet DEF TypeOK
<1> QED BY <1>3, <1>4, <1>5, <1>6

LEMMA StoppingQuiet ==
  ASSUME TypeOK, Crash \/ Reopen
  PROVE Quiet
<1>1. Stop /\ UNCHANGED <<idle, durable>> BY DEF Crash, Reopen
<1>2. BoundsType'
  BY SizesAssumption DEF Crash, Reopen, TypeOK, BoundsType, bounds
<1>3. BatchType' /\ CursorType' /\ RowsGrow /\ Forward(cursor)
  BY <1>1, StillIsQuiet DEF durable, BatchType, CursorType, TypeOK
<1> QED BY <1>1, <1>2, <1>3, StopType, DurableQuiet DEF TypeOK, durable

LEMMA MovingQuiet ==
  ASSUME TypeOK,
         TimerFires \/ StartDrain \/ NothingFrozen \/ Start \/ DetectorRecovered
  PROVE Quiet
<1>1. UNCHANGED <<idle, durable, bounds>>
  BY DEF TimerFires, StartDrain, NothingFrozen, Start, DetectorRecovered
<1>2. BatchType' /\ CursorType' /\ BoundsType' /\ RowsGrow /\ Forward(cursor)
  BY <1>1, StillIsQuiet, FaultType DEF durable, BatchType, CursorType, TypeOK
<1>3. /\ phase' \in {"down", "recover", "bind", "ask", "up"}
      /\ sched' = sched /\ wake' \in BOOLEAN /\ drain' \subseteq {"behind", "ready"}
  BY DEF TimerFires, StartDrain, NothingFrozen, Start, DetectorRecovered, TypeOK
<1>4. /\ det' \in [pc : DetSteps, s : Session, id : Id \cup {NoId}, n : 0 .. MaxIntents]
      /\ det' = det \/ det'.pc \in {"off", "run"}
  <2>1. CASE det' = det BY <2>1 DEF TypeOK
  <2>2. CASE Goto("run") \/ Goto("off")
    BY <2>2, GotoType DEF Goto, DetSteps
  <2> QED BY <2>1, <2>2
       DEF TimerFires, StartDrain, NothingFrozen, Start, DetectorRecovered, Goto
<1> QED BY <1>1, <1>2, <1>3, <1>4, DurableQuiet DEF TypeOK, durable

----
(* The steps of the worker: each touches one batch and its intents. *)

Intents == [1 .. MaxIntents -> IntentStates]
DetType == det \in [pc : DetSteps, s : Session, id : Id \cup {NoId}, n : 0 .. MaxIntents]

(* A row and its intents agree; a worker d may hold the row; a worker d may
   find these intents. *)
Agree(row, held) ==
    \A k \in 1 .. MaxIntents :
        /\ held[k] = "WAITING_FOR_QUIESCENCE" =>
              row.state = "COMMITTED_READY" /\ k <= row.intents
        /\ row.state = "COMMITTED_READY" => (k <= row.intents <=> held[k] # "ABSENT")
        /\ row.state \in {"ABSENT", "FROZEN"} => held[k] = "ABSENT"
Holds(d, row) ==
    /\ d.pc \in {"called", "stage", "fail"} => row.state = "DETECTION_CLAIMED"
    /\ d.pc \in {"discard", "advance", "readvance", "after"} => Terminal(row)
    /\ d.pc = "discard" => row.state # "COMMITTED_READY"
    /\ d.pc = "release" => row.state = "COMMITTED_READY"
Finds(d, held) ==
    \A k \in 1 .. MaxIntents :
        (d.pc = "called" \/ (d.pc = "stage" /\ k > d.n)) => held[k] = "ABSENT"

LEMMA BatchFacts ==
  ASSUME IInv, NEW s \in Session, NEW id \in Id
  PROVE  /\ batch[s][id] \in Row
         /\ intent[s][id] \in Intents
         /\ Agree(batch[s][id], intent[s][id])
<1>1. batch[s][id] \in Row /\ intent[s][id] \in Intents
  BY DEF IInv, TypeOK, Intents
<1>2. Agree(batch[s][id], intent[s][id])
  BY Zenon DEF IInv, IntentsMatchBatch, StagedByItsWorker, Agree
<1> QED BY <1>1, <1>2

LEMMA WorkerFacts ==
  ASSUME IInv
  PROVE  /\ det.s \in Session /\ det.n \in 0 .. MaxIntents
         /\ det.pc \notin {"off", "run"} =>
               /\ det.id \in Id
               /\ Holds(det, batch[det.s][det.id])
               /\ Finds(det, intent[det.s][det.id])
<1>1. det.s \in Session /\ det.n \in 0 .. MaxIntents BY DEF IInv, TypeOK
<1>2. ASSUME det.pc \notin {"off", "run"}
      PROVE det.id \in Id /\ Holds(det, batch[det.s][det.id])
  BY <1>2 DEF IInv, WorkerHoldsItsBatch, Holds, Worked
<1>3. Finds(det, intent[det.s][det.id])
  BY Zenon DEF IInv, StagedByItsWorker, Finds
<1> QED BY <1>1, <1>2, <1>3

LEMMA LocalKeeps ==
  ASSUME IInv,
         NEW s \in Session, NEW id \in Id, NEW row \in Row, NEW held \in Intents,
         batch' = [batch EXCEPT ![s][id] = row],
         intent' = [intent EXCEPT ![s][id] = held],
         Agree(row, held),
         Terminal(batch[s][id]) => row = batch[s][id],
         DetType',
         \/ det'.pc \in {"off", "run"}
         \/ det'.s = s /\ det'.id = id /\ Holds(det', row) /\ Finds(det', held),
         UNCHANGED <<idle, obs, phase, sched, wake, drain>>,
         CursorType' /\ BoundsType' /\ Forward(cursor)
  PROVE Kept
<1>1. /\ batch \in [Session -> [Id -> Row]]
      /\ intent \in [Session -> [Id -> Intents]]
  BY DEF IInv, TypeOK, Intents
<1>2. /\ batch' \in [Session -> [Id -> Row]]
      /\ intent' \in [Session -> [Id -> Intents]]
  BY <1>1
<1>3. batch'[s][id] = row /\ intent'[s][id] = held BY <1>1
<1>4. \A r \in Session, j \in Id : r # s \/ j # id =>
          batch'[r][j] = batch[r][j] /\ intent'[r][j] = intent[r][j]
  BY <1>1
<1>5. \A r \in Session, j \in Id : Agree(batch'[r][j], intent'[r][j])
  BY <1>3, <1>4, BatchFacts
<1>6. TypeOK'
  BY <1>2 DEF IInv, TypeOK, Intents, DetType, CursorType, BoundsType
<1>7. IntentsMatchBatch' BY <1>5, Zenon DEF IntentsMatchBatch, Agree
<1>8. WorkerHoldsItsBatch'
  <2>1. CASE det'.pc \in {"off", "run"} BY <2>1 DEF WorkerHoldsItsBatch
  <2>2. CASE det'.s = s /\ det'.id = id /\ Holds(det', row)
    BY <2>2, <1>3 DEF WorkerHoldsItsBatch, Worked, Holds
  <2> QED BY <2>1, <2>2
<1>9. StagedByItsWorker'
  <2>1. \A r \in Session : \A j \in Id, k \in 1 .. MaxIntents :
          batch'[r][j].state \in {"ABSENT", "FROZEN"} => intent'[r][j][k] = "ABSENT"
    BY <1>5, Zenon DEF Agree
  <2>2. ASSUME NEW k \in 1 .. MaxIntents,
               det'.pc = "called" \/ (det'.pc = "stage" /\ k > det'.n)
        PROVE intent'[det'.s][det'.id][k] = "ABSENT"
    BY <2>2, <1>3 DEF Finds
  <2> QED BY <2>1, <2>2, Zenon DEF StagedByItsWorker
<1>10. Settled BY <1>3, <1>4 DEF Settled, Forward, TerminalIds
<1> QED BY <1>6, <1>7, <1>8, <1>9, <1>10 DEF Kept, IInv

LEMMA SameCursor ==
  ASSUME IInv, cursor' = cursor
  PROVE CursorType' /\ Forward(cursor)
  BY StillIsQuiet DEF IInv, CursorType, TypeOK

LEMMA SameRow ==
  ASSUME IInv, NEW s \in Session, NEW id \in Id
  PROVE  /\ batch' = batch => batch' = [batch EXCEPT ![s][id] = batch[s][id]]
         /\ intent' = intent => intent' = [intent EXCEPT ![s][id] = intent[s][id]]
  BY DEF IInv, TypeOK

LEMMA SameBounds ==
  ASSUME IInv, UNCHANGED bounds \/ Fault
  PROVE BoundsType'
  BY FaultType DEF IInv

LEMMA CarryType == NoCarry \in Carry /\ CarryLife \in Carry
  BY SizesAssumption DEF NoCarry, Carry

LEMMA RepairKeeps ==
  ASSUME IInv, RepairCommittedReady
  PROVE Kept
<1>1. PICK b \in ReadyStaged : Release(b[1], b[2], First(Staged(b[1], b[2])))
  BY Zenon DEF RepairCommittedReady
<1> DEFINE s == b[1]
           id == b[2]
           k == First(Staged(s, id))
<1>2. s \in Session /\ id \in Id /\ batch[s][id].state = "COMMITTED_READY"
      /\ Staged(s, id) # {}
  BY <1>1 DEF ReadyStaged
<1>3. k \in 1 .. MaxIntents /\ intent[s][id][k] = "DETECTOR_STAGED"
  <2>1. k \in Staged(s, id) BY <1>2, FirstInSet DEF Staged
  <2> QED BY <2>1 DEF Staged
<1> HIDE DEF s, id, k
<1> DEFINE held == [intent[s][id] EXCEPT ![k] = "WAITING_FOR_QUIESCENCE"]
           row == batch[s][id]
<1>4. row \in Row /\ intent[s][id] \in Intents /\ Agree(row, intent[s][id])
  BY <1>2, BatchFacts
<1>5. held \in Intents /\ Agree(row, held)
  BY <1>2, <1>3, <1>4 DEF Agree, Intents, IntentStates
<1>6. intent' = [intent EXCEPT ![s][id] = held]
  <2>1. intent' = [intent EXCEPT ![s][id][k] = "WAITING_FOR_QUIESCENCE"]
    BY <1>1, Zenon DEF Release, s, id, k
  <2> QED BY <2>1
<1>7. det.pc = "run" /\ UNCHANGED <<idle, obs, batch, cursor, process, bounds>>
  BY Zenon DEF RepairCommittedReady, At
<1>8. /\ det' = det /\ cursor' = cursor /\ batch' = batch
      /\ UNCHANGED <<idle, obs, phase, sched, wake, drain>>
  BY <1>7 DEF process
<1>9. batch' = [batch EXCEPT ![s][id] = row] BY <1>2, <1>8, SameRow
<1>10. CursorType' /\ Forward(cursor) /\ BoundsType'
  BY <1>7, <1>8, SameCursor, SameBounds
<1>11. DetType' BY <1>8 DEF IInv, TypeOK, DetType
<1> HIDE DEF row, held
<1>12. Terminal(batch[s][id]) => row = batch[s][id] BY DEF row
<1> QED BY <1>2, <1>4, <1>5, <1>6, <1>7, <1>8, <1>9, <1>10, <1>11, <1>12, LocalKeeps, ZenonT(60)

LEMMA ClaimNextKeeps ==
  ASSUME IInv, NEW s \in Session, NEW id \in Id, ClaimNext(s, id)
  PROVE Kept
<1> DEFINE old == batch[s][id]
           row == [old EXCEPT !.carry = cursor[s].carry]
           put(state, called) == [row EXCEPT !.state = state, !.called = @ + called]
           held == intent[s][id]
<1>1. /\ old.state = "FROZEN"
      /\ UNCHANGED <<idle, obs, intent, cursor, phase, sched, wake, drain>>
  BY Zenon DEF ClaimNext, Oldest
<1>2. \/ /\ batch' = [batch EXCEPT ![s][id] = put("DETECTION_CLAIMED", 1)]
         /\ det' = [pc |-> "called", s |-> s, id |-> id, n |-> 0]
         /\ UNCHANGED bounds
      \/ /\ batch' = [batch EXCEPT ![s][id] = put("NEEDS_ATTENTION", 0)]
         /\ det' = [pc |-> "advance", s |-> s, id |-> id, n |-> 0]
         /\ Fault
      \/ Goto("off") /\ UNCHANGED <<batch, bounds>>
  BY Zenon DEF ClaimNext, PutRow
<1>3. old \in Row /\ held \in Intents /\ Agree(old, held) BY BatchFacts
<1>4. \A k \in 1 .. MaxIntents : held[k] = "ABSENT"
  BY <1>1, <1>3 DEF Agree
<1>5. row \in Row
  <2>1. cursor[s].carry \in Carry BY DEF IInv, TypeOK, Cursor
  <2> QED BY <1>3, <2>1 DEF Row
<1>6. CursorType' /\ Forward(cursor) BY <1>1, SameCursor
<1>7. intent' = [intent EXCEPT ![s][id] = held] BY <1>1, SameRow
<1>8. ~Terminal(old) BY <1>1 DEF Terminal, TerminalStates
<1>9. 0 \in 0 .. MaxIntents /\ {"called", "advance"} \subseteq DetSteps
  BY SizesAssumption DEF DetSteps
<1> HIDE DEF row, held, old
<1>p. ASSUME NEW state \in RowStates, NEW called \in 0 .. 1
      PROVE put(state, called) \in Row /\ put(state, called).state = state
  <2>1. row.called + called \in Nat BY <1>5 DEF Row
  <2>2. /\ [row EXCEPT !.state = state, !.called = row.called + called] \in Row
        /\ [row EXCEPT !.state = state, !.called = row.called + called].state = state
    BY <1>5, <2>1 DEF Row
  <2> QED BY <2>2
<1>10. CASE /\ batch' = [batch EXCEPT ![s][id] = put("DETECTION_CLAIMED", 1)]
            /\ det' = [pc |-> "called", s |-> s, id |-> id, n |-> 0]
            /\ UNCHANGED bounds
  <2> DEFINE new == put("DETECTION_CLAIMED", 1)
  <2>1. new \in Row /\ new.state = "DETECTION_CLAIMED"
    <3>1. "DETECTION_CLAIMED" \in RowStates /\ 1 \in 0 .. 1
      BY DEF RowStates
    <3> QED BY <3>1, <1>p, Zenon
  <2> HIDE DEF new
  <2>2. Agree(new, held) BY <2>1, <1>4 DEF Agree
  <2>3. DetType' BY <1>9, <1>10 DEF DetType
  <2>4. Holds(det', new) /\ Finds(det', held)
    BY <1>4, <1>10, <2>1 DEF Holds, Finds
  <2>5. BoundsType' BY <1>10, SameBounds
  <2>6. batch' = [batch EXCEPT ![s][id] = new] /\ det'.s = s /\ det'.id = id
    BY <1>10 DEF new
  <2>7. Terminal(batch[s][id]) => new = batch[s][id] BY <1>8 DEF old
  <2> QED BY <1>1, <1>3, <1>6, <1>7, <2>1, <2>2, <2>3, <2>4, <2>5, <2>6, <2>7, LocalKeeps, ZenonT(60)
<1>11. CASE /\ batch' = [batch EXCEPT ![s][id] = put("NEEDS_ATTENTION", 0)]
            /\ det' = [pc |-> "advance", s |-> s, id |-> id, n |-> 0]
            /\ Fault
  <2> DEFINE new == put("NEEDS_ATTENTION", 0)
  <2>1. new \in Row /\ new.state = "NEEDS_ATTENTION"
    <3>1. "NEEDS_ATTENTION" \in RowStates /\ 0 \in 0 .. 1
      BY DEF RowStates, TerminalStates
    <3> QED BY <3>1, <1>p, Zenon
  <2> HIDE DEF new
  <2>2. Agree(new, held) BY <2>1, <1>4 DEF Agree
  <2>3. DetType' BY <1>9, <1>11 DEF DetType
  <2>4. Holds(det', new) /\ Finds(det', held)
    BY <1>4, <1>11, <2>1 DEF Holds, Finds, Terminal, TerminalStates
  <2>5. BoundsType' BY <1>11, SameBounds
  <2>6. batch' = [batch EXCEPT ![s][id] = new] /\ det'.s = s /\ det'.id = id
    BY <1>11 DEF new
  <2>7. Terminal(batch[s][id]) => new = batch[s][id] BY <1>8 DEF old
  <2> QED BY <1>1, <1>3, <1>6, <1>7, <2>1, <2>2, <2>3, <2>4, <2>5, <2>6, <2>7, LocalKeeps, ZenonT(60)
<1>12. CASE Goto("off") /\ UNCHANGED <<batch, bounds>>
  <2>1. /\ det' \in [pc : DetSteps, s : Session, id : Id \cup {NoId}, n : 0 .. MaxIntents]
        /\ det'.pc = "off"
    BY <1>12, GotoType DEF Goto, IInv, DetSteps
  <2>2. TypeOK' BY <1>1, <1>12, <2>1 DEF IInv, TypeOK, bounds
  <2>3. RowsGrow BY <1>12 DEF RowsGrow, Grows
  <2>4. Quiet BY <1>1, <1>6, <2>1, <2>2, <2>3 DEF Quiet
  <2> QED BY <2>4, QuietKeeps
<1> QED BY <1>2, <1>10, <1>11, <1>12

LEMMA FinishKeeps ==
  ASSUME IInv, det.pc \in {"called", "stage", "fail"},
         NEW state \in TerminalStates, NEW carry \in Carry,
         NEW pc \in {"discard", "advance", "release"},
         Finish(state, carry, pc),
         pc = "release" <=> state = "COMMITTED_READY",
         state = "COMMITTED_READY" =>
             \A k \in 1 .. MaxIntents :
                 k <= det.n <=> intent[det.s][det.id][k] # "ABSENT",
         UNCHANGED <<idle, obs, intent, cursor, phase, sched, wake, drain, bounds>>
  PROVE Kept
<1> DEFINE s == det.s
           id == det.id
           old == batch[s][id]
           held == intent[s][id]
           n == IF state = "COMMITTED_READY" THEN det.n ELSE 0
           row == [old EXCEPT !.state = state, !.carry = carry, !.intents = n]
<1>1. s \in Session /\ id \in Id /\ old.state = "DETECTION_CLAIMED"
  BY WorkerFacts DEF Holds
<1>2. old \in Row /\ held \in Intents /\ Agree(old, held)
  BY <1>1, BatchFacts
<1>3. n \in 0 .. MaxIntents BY WorkerFacts, SizesAssumption
<1>4. state \in RowStates BY DEF RowStates
<1> HIDE DEF n, old, held
<1>5. row \in Row /\ row.state = state /\ row.intents = n
  BY <1>2, <1>3, <1>4 DEF Row
<1>6. batch' = [batch EXCEPT ![s][id] = row] /\ Goto(pc)
  BY Zenon DEF Finish, PutRow, Worked, n, old
<1>7. /\ det' \in [pc : DetSteps, s : Session, id : Id \cup {NoId}, n : 0 .. MaxIntents]
      /\ det'.pc = pc /\ det'.s = s /\ det'.id = id
  <2>1. pc \in DetSteps BY DEF DetSteps
  <2> QED BY <1>6, <2>1, GotoType DEF Goto, IInv
<1> HIDE DEF row
<1>8. Agree(row, held)
  <2>1. CASE state # "COMMITTED_READY"
    <3>1. row.state \notin {"ABSENT", "FROZEN", "COMMITTED_READY"}
      BY <1>5, <2>1 DEF TerminalStates
    <3>2. \A k \in 1 .. MaxIntents : held[k] # "WAITING_FOR_QUIESCENCE"
      BY <1>1, <1>2 DEF Agree, old
    <3> QED BY <3>1, <3>2 DEF Agree
  <2>2. CASE state = "COMMITTED_READY"
    <3>1. n = det.n BY <2>2 DEF n
    <3>2. \A k \in 1 .. MaxIntents : k <= n <=> held[k] # "ABSENT"
      BY <2>2, <3>1 DEF held
    <3> QED BY <1>5, <2>2, <3>2 DEF Agree
  <2> QED BY <2>1, <2>2
<1>9. Holds(det', row) /\ Finds(det', held)
  BY <1>5, <1>7 DEF Holds, Finds, Terminal
<1>10. CursorType' /\ Forward(cursor) /\ BoundsType'
  BY SameCursor, SameBounds
<1>11. intent' = [intent EXCEPT ![s][id] = held]
  BY <1>1, SameRow DEF held
<1>12. ~Terminal(batch[s][id]) BY <1>1 DEF Terminal, TerminalStates, old
<1>13. DetType' BY <1>7 DEF DetType
<1> QED BY <1>1, <1>2, <1>5, <1>6, <1>7, <1>8, <1>9, <1>10, <1>11, <1>12, <1>13, LocalKeeps, ZenonT(60)

LEMMA CallReturnsKeeps ==
  ASSUME IInv, CallReturns
  PROVE Kept
<1> DEFINE s == det.s
           id == det.id
<1>1. /\ det.pc = "called"
      /\ UNCHANGED <<idle, obs, intent, cursor, phase, sched, wake, drain, bounds>>
  BY Zenon DEF CallReturns, At
<1>2. s \in Session /\ id \in Id /\ batch[s][id].state = "DETECTION_CLAIMED"
      /\ \A k \in 1 .. MaxIntents : intent[s][id][k] = "ABSENT"
  <2>1. det.s \in Session /\ det.id \in Id /\ Holds(det, batch[det.s][det.id])
        /\ Finds(det, intent[det.s][det.id])
    BY <1>1, WorkerFacts
  <2>2. batch[det.s][det.id].state = "DETECTION_CLAIMED"
    BY <1>1, <2>1 DEF Holds
  <2>3. \A k \in 1 .. MaxIntents : intent[det.s][det.id][k] = "ABSENT"
    BY <1>1, <2>1 DEF Finds
  <2> QED BY <2>1, <2>2, <2>3
<1>3. Worked.carry \in Carry BY <1>2, BatchFacts DEF Worked, Row
<1>4. Worked.carry > 0 => Worked.carry - 1 \in Carry
  BY <1>3, SizesAssumption DEF Carry
<1>5. \/ Finish("NEEDS_ATTENTION", Worked.carry, "discard")
      \/ Finish("COMMITTED_NONE", NoCarry, "advance")
      \/ Finish("COMMITTED_DEFER", CarryLife, "advance")
      \/ Worked.carry > 0 /\ Finish("COMMITTED_DEFER", Worked.carry - 1, "advance")
      \/ /\ \E n \in 1 .. MaxIntents : det' = [det EXCEPT !.pc = "stage", !.n = n]
         /\ UNCHANGED batch
  BY Zenon DEF CallReturns
<1>6. {"NEEDS_ATTENTION", "COMMITTED_NONE", "COMMITTED_DEFER"} \subseteq TerminalStates
  BY DEF TerminalStates
<1>7. CASE Finish("NEEDS_ATTENTION", Worked.carry, "discard")
  BY <1>1, <1>3, <1>6, <1>7, FinishKeeps
<1>8. CASE Finish("COMMITTED_NONE", NoCarry, "advance")
  BY <1>1, <1>6, <1>8, CarryType, FinishKeeps
<1>9. CASE Finish("COMMITTED_DEFER", CarryLife, "advance")
  BY <1>1, <1>6, <1>9, CarryType, FinishKeeps
<1>10. CASE Worked.carry > 0 /\ Finish("COMMITTED_DEFER", Worked.carry - 1, "advance")
  BY <1>1, <1>4, <1>6, <1>10, FinishKeeps
<1>11. ASSUME NEW n \in 1 .. MaxIntents, det' = [det EXCEPT !.pc = "stage", !.n = n],
              UNCHANGED batch
       PROVE Kept
  <2> DEFINE row == batch[s][id]
             held == intent[s][id]
  <2>1. row \in Row /\ held \in Intents /\ Agree(row, held)
    BY <1>2, BatchFacts
  <2>2. DetType' /\ det'.pc = "stage" /\ det'.s = s /\ det'.id = id
    <3>1. /\ det \in [pc : DetSteps, s : Session, id : Id \cup {NoId}, n : 0 .. MaxIntents]
          /\ "stage" \in DetSteps /\ n \in 0 .. MaxIntents
      BY DEF IInv, TypeOK, DetSteps
    <3> QED BY <1>11, <3>1 DEF DetType
  <2>3. Holds(det', row) /\ Finds(det', held)
    BY <1>2, <2>2 DEF Holds, Finds
  <2>4. batch' = [batch EXCEPT ![s][id] = row] /\ intent' = [intent EXCEPT ![s][id] = held]
    BY <1>1, <1>2, <1>11, SameRow
  <2>5. CursorType' /\ Forward(cursor) /\ BoundsType'
    BY <1>1, SameCursor, SameBounds
  <2>6. Terminal(batch[s][id]) => row = batch[s][id] OBVIOUS
  <2> HIDE DEF row, held, s, id
  <2> QED BY <1>1, <1>2, <2>1, <2>2, <2>3, <2>4, <2>5, <2>6, LocalKeeps, ZenonT(60)
<1> QED BY <1>5, <1>7, <1>8, <1>9, <1>10, <1>11

LEMMA CommitReadyKeeps ==
  ASSUME IInv, CommitReady
  PROVE Kept
<1>1. /\ det.pc = "stage" /\ Missing(det.s, det.id, det.n) = {}
      /\ Finish("COMMITTED_READY", NoCarry, "release")
      /\ UNCHANGED <<idle, obs, intent, cursor, phase, sched, wake, drain, bounds>>
  BY Zenon DEF CommitReady, At
<1>2. \A k \in 1 .. MaxIntents : k <= det.n <=> intent[det.s][det.id][k] # "ABSENT"
  <2> SUFFICES ASSUME NEW k \in 1 .. MaxIntents
               PROVE k <= det.n <=> intent[det.s][det.id][k] # "ABSENT" OBVIOUS
  <2>1. det.n \in 0 .. MaxIntents /\ Finds(det, intent[det.s][det.id])
    BY <1>1, WorkerFacts
  <2>2. CASE k <= det.n
    <3>1. k \in 1 .. det.n BY <2>1, <2>2
    <3> QED BY <1>1, <2>2, <3>1 DEF Missing
  <2>3. CASE ~(k <= det.n) BY <1>1, <2>1, <2>3 DEF Finds
  <2> QED BY <2>2, <2>3
<1>3. "COMMITTED_READY" \in TerminalStates BY DEF TerminalStates
<1> QED BY <1>1, <1>2, <1>3, CarryType, FinishKeeps

LEMMA CommitAttentionKeeps ==
  ASSUME IInv, CommitAttention
  PROVE Kept
<1>1. /\ det.pc = "fail"
      /\ Finish("NEEDS_ATTENTION", Worked.carry, "discard")
      /\ UNCHANGED <<idle, obs, intent, cursor, phase, sched, wake, drain, bounds>>
  BY Zenon DEF CommitAttention, At
<1>2. Worked.carry \in Carry
  <2>1. det.s \in Session /\ det.id \in Id BY <1>1, WorkerFacts
  <2> QED BY <2>1, BatchFacts DEF Worked, Row
<1>3. "NEEDS_ATTENTION" \in TerminalStates BY DEF TerminalStates
<1> QED BY <1>1, <1>2, <1>3, FinishKeeps

LEMMA StageIntentKeeps ==
  ASSUME IInv, StageIntent
  PROVE Kept
<1> DEFINE s == det.s
           id == det.id
           k == First(Missing(s, id, det.n))
           row == batch[s][id]
           old == intent[s][id]
           held == [old EXCEPT ![k] = "DETECTOR_STAGED"]
<1>1. /\ det.pc = "stage" /\ Missing(s, id, det.n) # {}
      /\ intent' = [intent EXCEPT ![s][id][k] = "DETECTOR_STAGED"]
      /\ UNCHANGED <<idle, obs, batch, cursor, process, bounds>>
  BY Zenon DEF StageIntent, At
<1>2. /\ s \in Session /\ id \in Id /\ det.n \in 0 .. MaxIntents
      /\ Holds(det, row) /\ Finds(det, old)
  BY <1>1, WorkerFacts
<1>3. row.state = "DETECTION_CLAIMED" BY <1>1, <1>2 DEF Holds
<1>4. k \in 1 .. MaxIntents /\ k <= det.n
  <2>1. Missing(s, id, det.n) \subseteq 1 .. det.n BY DEF Missing
  <2>2. First(Missing(s, id, det.n)) \in Missing(s, id, det.n)
    <3>1. Missing(s, id, det.n) \in SUBSET Nat BY <1>2, <2>1
    <3> QED BY <1>1, <3>1, FirstInSet
  <2>3. k \in 1 .. det.n BY <2>1, <2>2
  <2> HIDE DEF k
  <2> QED BY <1>2, <2>3, SizesAssumption
<1>5. row \in Row /\ old \in Intents /\ Agree(row, old)
  BY <1>2, BatchFacts
<1> HIDE DEF s, id, k, row, old
<1>6. held \in Intents /\ Agree(row, held)
  BY <1>3, <1>4, <1>5 DEF Agree, Intents, IntentStates
<1>7. intent' = [intent EXCEPT ![s][id] = held] BY <1>1 DEF old
<1>8. /\ det' = det /\ cursor' = cursor /\ batch' = batch
      /\ UNCHANGED <<idle, obs, phase, sched, wake, drain>>
  BY <1>1 DEF process
<1>9. batch' = [batch EXCEPT ![s][id] = row]
  BY <1>2, <1>8, SameRow DEF row
<1>10. CursorType' /\ Forward(cursor) /\ BoundsType'
  BY <1>1, <1>8, SameCursor, SameBounds
<1>11. DetType' /\ det'.s = s /\ det'.id = id
  BY <1>8 DEF IInv, TypeOK, DetType, s, id
<1>12. Finds(det', held)
  <2> SUFFICES ASSUME NEW j \in 1 .. MaxIntents, j > det.n
               PROVE held[j] = "ABSENT"
    BY <1>1, <1>8 DEF Finds
  <2>1. old[j] = "ABSENT" BY <1>1, <1>2 DEF Finds
  <2>2. j # k BY <1>2, <1>4
  <2> QED BY <1>5, <2>1, <2>2 DEF Intents
<1>13. Holds(det', row) BY <1>2, <1>8
<1>14. Terminal(batch[s][id]) => row = batch[s][id] BY DEF row
<1> HIDE DEF held
<1> QED BY <1>2, <1>5, <1>6, <1>7, <1>8, <1>9, <1>10, <1>11, <1>12, <1>13, <1>14, LocalKeeps, ZenonT(60)

LEMMA SettleIntentsKeeps ==
  ASSUME IInv, SettleIntents
  PROVE Kept
<1> DEFINE s == det.s
           id == det.id
           staged == Staged(s, id)
           k == First(staged)
           row == batch[s][id]
           old == intent[s][id]
<1>1. /\ det.pc \in {"release", "discard"}
      /\ UNCHANGED <<idle, obs, batch, cursor, phase, sched, wake, drain, bounds>>
  BY Zenon DEF SettleIntents, At
<1>2. \/ Goto("advance") /\ UNCHANGED intent
      \/ /\ staged # {} /\ det.pc = "release" /\ UNCHANGED det
         /\ intent' = [intent EXCEPT ![s][id][k] = "WAITING_FOR_QUIESCENCE"]
      \/ /\ staged # {} /\ det.pc # "release" /\ UNCHANGED det
         /\ intent' = [intent EXCEPT ![s][id][k] = "ABSENT"]
  BY Zenon DEF SettleIntents, Release
<1>3. s \in Session /\ id \in Id /\ Holds(det, row) BY <1>1, WorkerFacts
<1>4. row \in Row /\ old \in Intents /\ Agree(row, old)
  BY <1>3, BatchFacts
<1>5. /\ det.pc = "release" => row.state = "COMMITTED_READY"
      /\ Terminal(row)
      /\ det.pc = "discard" => row.state # "COMMITTED_READY"
  BY <1>1, <1>3 DEF Holds, Terminal, TerminalStates
<1>6. batch' = [batch EXCEPT ![s][id] = row] BY <1>1, <1>3, SameRow
<1>7. CursorType' /\ Forward(cursor) /\ BoundsType'
  BY <1>1, SameCursor, SameBounds
<1>8. Terminal(batch[s][id]) => row = batch[s][id] OBVIOUS
<1>9. ASSUME staged # {} PROVE k \in 1 .. MaxIntents /\ old[k] = "DETECTOR_STAGED"
  <2>1. k \in Staged(s, id) BY <1>9, FirstInSet DEF Staged
  <2> QED BY <2>1 DEF Staged
<1> HIDE DEF s, id, staged, k, row, old
<1>10. CASE Goto("advance") /\ UNCHANGED intent
  <2>1. DetType' /\ det'.pc = "advance" /\ det'.s = s /\ det'.id = id
    BY <1>10, GotoType DEF Goto, IInv, DetSteps, DetType, s, id
  <2>2. Holds(det', row) /\ Finds(det', old)
    BY <1>5, <2>1 DEF Holds, Finds
  <2>3. intent' = [intent EXCEPT ![s][id] = old]
    BY <1>3, <1>10, SameRow DEF old
  <2> QED BY <1>1, <1>3, <1>4, <1>6, <1>7, <1>8, <2>1, <2>2, <2>3, LocalKeeps, ZenonT(60)
<1>11. CASE /\ staged # {} /\ det.pc = "release" /\ UNCHANGED det
            /\ intent' = [intent EXCEPT ![s][id][k] = "WAITING_FOR_QUIESCENCE"]
  <2> DEFINE held == [old EXCEPT ![k] = "WAITING_FOR_QUIESCENCE"]
  <2>1. held \in Intents /\ Agree(row, held)
    BY <1>4, <1>5, <1>9, <1>11 DEF Agree, Intents, IntentStates
  <2>2. intent' = [intent EXCEPT ![s][id] = held] BY <1>11 DEF old
  <2> HIDE DEF held
  <2>3. DetType' /\ det'.s = s /\ det'.id = id
    BY <1>11 DEF IInv, TypeOK, DetType, s, id
  <2>4. Holds(det', row) /\ Finds(det', held) BY <1>3, <1>11 DEF Finds
  <2> QED BY <1>1, <1>3, <1>4, <1>6, <1>7, <1>8, <2>1, <2>2, <2>3, <2>4, LocalKeeps, ZenonT(60)
<1>12. CASE /\ staged # {} /\ det.pc # "release" /\ UNCHANGED det
            /\ intent' = [intent EXCEPT ![s][id][k] = "ABSENT"]
  <2> DEFINE held == [old EXCEPT ![k] = "ABSENT"]
  <2>1. held \in Intents BY <1>4 DEF Intents, IntentStates
  <2>2. Agree(row, held)
    BY <1>1, <1>4, <1>5, <1>9, <1>12 DEF Agree, Intents
  <2>3. intent' = [intent EXCEPT ![s][id] = held] BY <1>12 DEF old
  <2> HIDE DEF held
  <2>4. DetType' /\ det'.s = s /\ det'.id = id
    BY <1>12 DEF IInv, TypeOK, DetType, s, id
  <2>5. Holds(det', row) /\ Finds(det', held)
    BY <1>1, <1>3, <1>12 DEF Finds
  <2> QED BY <1>1, <1>3, <1>4, <1>6, <1>7, <1>8, <2>1, <2>2, <2>3, <2>4, <2>5, LocalKeeps, ZenonT(60)
<1> QED BY <1>2, <1>10, <1>11, <1>12

LEMMA AdvanceCursorKeeps ==
  ASSUME IInv, AdvanceCursor
  PROVE Kept
<1> DEFINE s == det.s
           id == det.id
           c == cursor[s]
           row == batch[s][id]
           held == intent[s][id]
           resume == IF phase = "up" THEN "after" ELSE "off"
<1>1. /\ det.pc \in {"advance", "readvance"}
      /\ UNCHANGED <<idle, obs, batch, intent, bounds>>
  BY Zenon DEF AdvanceCursor, At
<1>2. \/ Goto(resume) /\ UNCHANGED <<cursor, phase, sched, wake, drain>>
      \/ /\ ~(id[2] <= c.detected)
         /\ cursor' = [cursor EXCEPT ![s] = Advanced(c, id, row)]
         /\ Goto(resume) /\ UNCHANGED <<phase, sched, wake, drain>>
      \/ Goto("off") /\ UNCHANGED <<cursor, phase, sched, wake, drain>>
      \/ Stop /\ UNCHANGED cursor
  BY Zenon DEF AdvanceCursor, Worked
<1>3. s \in Session /\ id \in Id /\ Holds(det, row) BY <1>1, WorkerFacts
<1>4. row \in Row /\ held \in Intents /\ Agree(row, held) /\ Terminal(row)
  BY <1>1, <1>3, BatchFacts DEF Holds
<1>5. /\ batch' = [batch EXCEPT ![s][id] = row]
      /\ intent' = [intent EXCEPT ![s][id] = held]
  BY <1>1, <1>3, SameRow
<1>6. BoundsType' BY <1>1, SameBounds
<1>7. Terminal(batch[s][id]) => row = batch[s][id] OBVIOUS
<1>8. ASSUME NEW pc \in {"after", "off"}, Goto(pc), CursorType', Forward(cursor),
             UNCHANGED <<phase, sched, wake, drain>>
      PROVE Kept
  <2>1. DetType' /\ det'.pc = pc /\ det'.s = s /\ det'.id = id
    BY <1>8, GotoType DEF Goto, IInv, DetSteps, DetType
  <2>2. Holds(det', row) /\ Finds(det', held)
    BY <1>4, <2>1 DEF Holds, Finds
  <2>3. UNCHANGED <<idle, obs, phase, sched, wake, drain>> BY <1>1, <1>8
  <2> HIDE DEF s, id, row, held
  <2> QED BY <1>3, <1>4, <1>5, <1>6, <1>7, <1>8, <2>1, <2>2, <2>3, LocalKeeps, ZenonT(60)
<1>9. resume \in {"after", "off"} OBVIOUS
<1>10. ASSUME ~(id[2] <= c.detected),
              cursor' = [cursor EXCEPT ![s] = Advanced(c, id, row)]
       PROVE CursorType' /\ Forward(cursor)
  <2>1. c \in Cursor /\ cursor \in [Session -> Cursor]
    BY <1>3 DEF IInv, TypeOK
  <2>2. id[2] \in 0 .. MaxTurn /\ c.detected \in 0 .. MaxTurn /\ c.observed \in 0 .. MaxTurn
    BY <1>3, <2>1, SizesAssumption DEF Id, Turn, Cursor
  <2> DEFINE carry == CASE row.state = "COMMITTED_DEFER" -> row.carry
                        [] row.state \in {"COMMITTED_NONE", "COMMITTED_READY"} -> NoCarry
                        [] OTHER -> c.carry
  <2>3. carry \in Carry
    <3>1. row.carry \in Carry /\ c.carry \in Carry /\ NoCarry \in Carry
      BY <1>4, <2>1, CarryType DEF Row, Cursor
    <3> HIDE DEF row, c
    <3> QED BY <3>1
  <2> DEFINE d == [c EXCEPT !.active = NoId, !.detected = id[2], !.carry = carry]
  <2>4. Advanced(c, id, row) = d BY Zenon DEF Advanced
  <2> HIDE DEF carry, s, id, c, row
  <2>5. d \in Cursor BY <2>1, <2>2, <2>3, CursorWith
  <2>6. d.detected = id[2] /\ d.observed = c.observed BY <2>1 DEF Cursor
  <2> HIDE DEF d
  <2>7. d.detected >= c.detected /\ d.observed >= c.observed
    BY <1>10, <2>2, <2>6
  <2>8. \A r \in Session : cursor[r].detected \in Int /\ cursor[r].observed \in Int
    BY <2>1 DEF Cursor
  <2>9. cursor' = [cursor EXCEPT ![s] = d] BY <1>10, <2>4
  <2>10. cursor[s] = c BY DEF c
  <2> QED BY <1>3, <2>1, <2>5, <2>7, <2>8, <2>9, <2>10 DEF CursorType, Forward
<1>11. CASE Goto(resume) /\ UNCHANGED <<cursor, phase, sched, wake, drain>>
  BY <1>8, <1>9, <1>11, SameCursor
<1>12. CASE /\ ~(id[2] <= c.detected)
            /\ cursor' = [cursor EXCEPT ![s] = Advanced(c, id, row)]
            /\ Goto(resume) /\ UNCHANGED <<phase, sched, wake, drain>>
  BY <1>8, <1>9, <1>10, <1>12
<1>13. CASE Goto("off") /\ UNCHANGED <<cursor, phase, sched, wake, drain>>
  BY <1>8, <1>13, SameCursor
<1>14. CASE Stop /\ UNCHANGED cursor
  <2>1. CursorType' /\ Forward(cursor) BY <1>14, SameCursor
  <2>2. BatchType' /\ RowsGrow
    BY <1>1 DEF IInv, TypeOK, BatchType, RowsGrow, Grows
  <2>3. Quiet
    BY <1>1, <1>6, <1>14, <2>1, <2>2, StopType, DurableQuiet DEF IInv, TypeOK
  <2> QED BY <2>3, QuietKeeps
<1> QED BY <1>2, <1>11, <1>12, <1>13, <1>14

LEMMA WriteFailsKeeps ==
  ASSUME IInv, WriteFails
  PROVE Kept
<1>1. Fault /\ UNCHANGED <<idle, obs, batch, intent, cursor>>
  BY DEF WriteFails, durable
<1>2. CursorType' /\ Forward(cursor) /\ BoundsType'
  BY <1>1, SameCursor, SameBounds
<1>3. BatchType' /\ RowsGrow
  BY <1>1 DEF IInv, TypeOK, BatchType, RowsGrow, Grows
<1>4. CASE Stop
  <2>1. Quiet
    BY <1>1, <1>2, <1>3, <1>4, StopType, DurableQuiet DEF IInv, TypeOK
  <2> QED BY <2>1, QuietKeeps
<1>5. ASSUME NEW pc \in Resume(det.pc), Goto(pc), UNCHANGED <<phase, sched, wake, drain>>
      PROVE Kept
  <2>1. /\ pc \in {"off", "fail", "readvance"}
        /\ pc = "fail" => det.pc \in {"called", "stage"}
        /\ pc = "readvance" => det.pc \in {"release", "advance"}
    BY <1>5 DEF Resume
  <2>2. DetType' /\ det'.pc = pc /\ det'.s = det.s /\ det'.id = det.id
    BY <1>5, <2>1, GotoType DEF Goto, IInv, DetSteps, DetType
  <2>3. CASE pc = "off"
    <3>1. Quiet
      BY <1>1, <1>2, <1>3, <1>5, <2>2, <2>3, DurableQuiet DEF IInv, TypeOK, DetType
    <3> QED BY <3>1, QuietKeeps
  <2>4. CASE pc # "off"
    <3> DEFINE s == det.s
               id == det.id
               row == batch[s][id]
               held == intent[s][id]
    <3>1. s \in Session /\ id \in Id /\ Holds(det, row)
      BY <2>1, <2>4, WorkerFacts
    <3>2. row \in Row /\ held \in Intents /\ Agree(row, held)
      BY <3>1, BatchFacts
    <3>3. Holds(det', row) /\ Finds(det', held)
      BY <2>1, <2>2, <2>4, <3>1 DEF Holds, Finds, Terminal, TerminalStates
    <3>4. /\ batch' = [batch EXCEPT ![s][id] = row]
          /\ intent' = [intent EXCEPT ![s][id] = held]
      BY <1>1, <3>1, SameRow
    <3>5. Terminal(batch[s][id]) => row = batch[s][id] OBVIOUS
    <3>6. det'.s = s /\ det'.id = id BY <2>2
    <3> HIDE DEF s, id, row, held
    <3> QED BY <1>1, <1>2, <1>5, <2>2, <3>1, <3>2, <3>3, <3>4, <3>5, <3>6, LocalKeeps, ZenonT(60)
  <2> QED BY <2>3, <2>4
<1> QED BY <1>4, <1>5 DEF WriteFails

LEMMA RecoverBatchKeeps ==
  ASSUME IInv, RecoverBatch
  PROVE Kept
<1>1. UNCHANGED <<idle, obs, intent, cursor, phase, sched, wake, drain, bounds>>
  BY Zenon DEF RecoverBatch
<1>2. PICK b \in Unrecovered :
        LET row == batch[b[1]][b[2]]
            pc == IF row.state = "COMMITTED_READY" THEN "release" ELSE "discard"
        IN  /\ det' = [pc |-> pc, s |-> b[1], id |-> b[2], n |-> 0]
            /\ PutRow(b[1], b[2], Abandoned(row))
  BY Zenon DEF RecoverBatch
<1> DEFINE s == b[1]
           id == b[2]
           old == batch[s][id]
           held == intent[s][id]
           pc == IF old.state = "COMMITTED_READY" THEN "release" ELSE "discard"
           row == Abandoned(old)
<1>3. /\ s \in Session /\ id \in Id
      /\ old.state = "DETECTION_CLAIMED" \/ Terminal(old)
  BY DEF Unrecovered
<1>4. /\ det' = [pc |-> pc, s |-> s, id |-> id, n |-> 0]
      /\ batch' = [batch EXCEPT ![s][id] = row]
  BY <1>2, Zenon DEF PutRow
<1>5. old \in Row /\ held \in Intents /\ Agree(old, held)
  BY <1>3, BatchFacts
<1>6. intent' = [intent EXCEPT ![s][id] = held] BY <1>1, <1>3, SameRow
<1>7. CursorType' /\ Forward(cursor) /\ BoundsType'
  BY <1>1, SameCursor, SameBounds
<1> HIDE DEF s, id, old, held
<1>8. /\ row \in Row /\ Terminal(row)
      /\ Terminal(old) => row = old
      /\ old.state = "DETECTION_CLAIMED" => row.state = "NEEDS_ATTENTION"
  <2>1. "NEEDS_ATTENTION" \in RowStates BY DEF RowStates, TerminalStates
  <2>2. [old EXCEPT !.state = "NEEDS_ATTENTION"] \in Row
    BY <1>5, <2>1 DEF Row
  <2>3. [old EXCEPT !.state = "NEEDS_ATTENTION"].state = "NEEDS_ATTENTION"
    BY <1>5 DEF Row
  <2> QED BY <1>3, <1>5, <2>2, <2>3 DEF Abandoned, Terminal, TerminalStates
<1> HIDE DEF row
<1>9. Agree(row, held)
  <2>1. CASE old.state = "DETECTION_CLAIMED"
    BY <1>5, <1>8, <2>1 DEF Agree
  <2>2. CASE Terminal(old) BY <1>5, <1>8, <2>2
  <2> QED BY <1>3, <2>1, <2>2
<1>10. Holds(det', row) /\ Finds(det', held)
  BY <1>3, <1>4, <1>8 DEF Holds, Finds, Terminal, TerminalStates
<1>11. pc \in DetSteps BY DEF DetSteps
<1> HIDE DEF pc
<1>12. DetType' /\ det'.s = s /\ det'.id = id
  <2>1. 0 \in 0 .. MaxIntents BY SizesAssumption
  <2> QED BY <1>3, <1>4, <1>11, <2>1 DEF DetType
<1>13. Terminal(batch[s][id]) => row = batch[s][id] BY <1>8 DEF old
<1>14. UNCHANGED <<idle, obs, phase, sched, wake, drain>> BY <1>1
<1> QED BY <1>3, <1>4, <1>5, <1>6, <1>7, <1>8, <1>9, <1>10, <1>12, <1>13, <1>14, LocalKeeps, ZenonT(60)

----
(* The theorems. *)

LEMMA InitialKeeps == Init => IInv
<1> SUFFICES ASSUME Init PROVE IInv OBVIOUS
<1>1. AbsentRow \in Row
  BY NoBaseType, SizesAssumption DEF AbsentRow, Row, RowStates, Carry, NoCarry
<1>2. NewCursor \in Cursor
  BY NoBaseType, SizesAssumption DEF NewCursor, Cursor, Carry, NoCarry
<1>3. NoDet.pc = "off"
      /\ NoDet \in [pc : DetSteps, s : Session, id : Id \cup {NoId}, n : 0 .. MaxIntents]
  <2>1. 1 \in Session /\ 0 \in 0 .. MaxIntents
    BY SizesAssumption DEF Session
  <2> QED BY <2>1 DEF NoDet, DetSteps
<1>4. << >> \in Seq(Kinds) /\ Len(<< >>) = 0 /\ 0 <= MaxTurn
  BY SizesAssumption
<1>5. /\ obs \in [Session -> Seq(Kinds)] /\ \A s \in Session : Len(obs[s]) <= MaxTurn
  BY <1>4 DEF Init
<1>6. /\ batch \in [Session -> [Id -> Row]]
      /\ intent \in [Session -> [Id -> [1 .. MaxIntents -> IntentStates]]]
      /\ cursor \in [Session -> Cursor]
  BY <1>1, <1>2 DEF Init, IntentStates
<1>7. TypeOK
  <2>1. crashes \in 0 .. MaxCrashes /\ faults \in 0 .. MaxFaults
    BY SizesAssumption DEF Init
  <2>2. /\ idle \in [Session -> BOOLEAN]
        /\ phase \in {"down", "recover", "bind", "ask", "up"}
        /\ sched \in SchedSteps
        /\ wake \in BOOLEAN
        /\ drain \subseteq {"behind", "ready"}
    BY DEF Init, SchedSteps
  <2>3. det \in [pc : DetSteps, s : Session, id : Id \cup {NoId}, n : 0 .. MaxIntents]
    BY <1>3 DEF Init
  <2> QED BY <1>5, <1>6, <2>1, <2>2, <2>3 DEF TypeOK
<1>8. \A s \in Session, id \in Id :
        /\ batch[s][id].state = "ABSENT"
        /\ \A k \in 1 .. MaxIntents : intent[s][id][k] = "ABSENT"
  BY DEF Init, AbsentRow
<1>9. det.pc = "off" BY <1>3 DEF Init
<1> QED BY <1>7, <1>8, <1>9
     DEF IInv, WorkerHoldsItsBatch, IntentsMatchBatch, StagedByItsWorker

LEMMA StutterKeeps == IInv /\ UNCHANGED vars => Kept
<1> SUFFICES ASSUME IInv, UNCHANGED vars PROVE Kept OBVIOUS
<1>1. UNCHANGED <<idle, obs, batch, intent, cursor, phase, sched, wake, drain, det,
                  crashes, faults>>
  BY DEF vars, durable, process, bounds
<1>2. TypeOK' BY <1>1 DEF IInv, TypeOK
<1>3. Quiet BY <1>1, <1>2, StillIsQuiet DEF IInv, Quiet
<1> QED BY <1>3, QuietKeeps

LEMMA NextKeeps == IInv /\ [Next]_vars => Kept
<1> SUFFICES ASSUME IInv, [Next]_vars PROVE Kept OBVIOUS
<1>1. TypeOK BY DEF IInv
<1>2. CASE Hosting
  <2>1. CASE AgentDisposed \/ \E s \in Session : IdleElapses(s)
    BY <1>1, <2>1, HostingQuiet, QuietKeeps
  <2>2. ASSUME NEW s \in Session, PrepareSessionWindow(s) PROVE Kept
    BY <1>1, <2>2, PrepareSessionWindowQuiet, QuietKeeps
  <2>3. ASSUME NEW s \in Session, RecordObservation(s) PROVE Kept
    BY <1>1, <2>3, RecordObservationQuiet, QuietKeeps
  <2>4. ASSUME NEW s \in Session, RequestSynthesis(s) PROVE Kept
    BY <1>1, <2>4, RequestSynthesisQuiet, QuietKeeps
  <2> QED BY <1>2, <2>1, <2>2, <2>3, <2>4 DEF Hosting
<1>3. CASE Scheduling
  BY <1>1, <1>3, ObserveFlushQuiet, MovingQuiet, WakeRequestedQuiet, FlushIdleQuiet,
     QuietKeeps DEF Scheduling
<1>4. CASE Detection
  <2>1. CASE StartDrain \/ NothingFrozen
    BY <1>1, <2>1, MovingQuiet, QuietKeeps
  <2>2. ASSUME NEW s \in Session, NEW id \in Id, ClaimNext(s, id) PROVE Kept
    BY <2>2, ClaimNextKeeps
  <2>3. CASE RepairCommittedReady \/ CallReturns \/ StageIntent \/ CommitReady
    BY <2>3, RepairKeeps, CallReturnsKeeps, StageIntentKeeps, CommitReadyKeeps
  <2>4. CASE CommitAttention \/ SettleIntents \/ AdvanceCursor
    BY <2>4, CommitAttentionKeeps, SettleIntentsKeeps, AdvanceCursorKeeps
  <2>5. CASE AfterStageTransition
    BY <1>1, <2>5, AfterStageTransitionQuiet, QuietKeeps
  <2> QED BY <1>4, <2>1, <2>2, <2>3, <2>4, <2>5 DEF Detection
<1>5. CASE Starting
  <2>1. CASE Start \/ DetectorRecovered
    BY <1>1, <2>1, MovingQuiet, QuietKeeps
  <2>2. CASE Reopen BY <1>1, <2>2, StoppingQuiet, QuietKeeps
  <2>3. CASE RecoverBatch BY <2>3, RecoverBatchKeeps
  <2>4. CASE RecoverCursors \/ StartFlush
    BY <1>1, <2>4, RecoverCursorsQuiet, StartFlushQuiet, QuietKeeps
  <2> QED BY <1>5, <2>1, <2>2, <2>3, <2>4 DEF Starting
<1>6. CASE WriteFails BY <1>6, WriteFailsKeeps
<1>7. CASE Crash BY <1>1, <1>7, StoppingQuiet, QuietKeeps
<1>8. CASE UNCHANGED vars BY <1>8, StutterKeeps
<1> QED BY <1>2, <1>3, <1>4, <1>5, <1>6, <1>7, <1>8 DEF Next

(* The invariant holds in every reachable state, for any number of sessions
   and turns and any number of crashes and failed writes. *)
THEOREM Inductive == Spec => []IInv
<1>1. Init => IInv BY InitialKeeps
<1>2. IInv /\ [Next]_vars => IInv' BY NextKeeps DEF Kept
<1> QED BY <1>1, <1>2, PTL DEF Spec

(* Every variable keeps its type: in particular no watermark of a cursor passes
   the bound on turns and no row gets a field it may not have. *)
THEOREM TypeCorrect == Spec => []TypeOK
<1>1. IInv => TypeOK BY DEF IInv
<1> QED BY <1>1, Inductive, PTL

(* The worker's batch stays claimed from its call to its terminal row and
   terminal from then on, whatever flush, request, failed write, crash or
   restart comes in between. *)
THEOREM WorkerHolds == Spec => []WorkerHoldsItsBatch
<1>1. IInv => WorkerHoldsItsBatch BY DEF IInv
<1> QED BY <1>1, Inductive, PTL

(* Released intents belong to READY batches, READY batches have all their
   intents, and no other settled batch keeps a released one. *)
THEOREM IntentsMatch == Spec => []IntentsMatchBatch
<1>1. IInv => IntentsMatchBatch BY DEF IInv
<1> QED BY <1>1, Inductive, PTL

(* Only the worker that holds a batch stages intents for it. *)
THEOREM StagedByWorker == Spec => []StagedByItsWorker
<1>1. IInv => StagedByItsWorker BY DEF IInv
<1> QED BY <1>1, Inductive, PTL

(* A settled batch never changes and no watermark moves back, in any step. *)
THEOREM StaysSettled == Spec => SettledStaysSettled
<1>1. IInv /\ [Next]_vars =>
        [\A s \in Session :
            /\ cursor'[s].detected >= cursor[s].detected
            /\ cursor'[s].observed >= cursor[s].observed
            /\ \A id \in TerminalIds(s) : batch'[s][id] = batch[s][id]]_vars
  BY NextKeeps DEF Kept, Settled
<1> QED BY <1>1, Inductive, PTL DEF Spec, SettledStaysSettled

----
(* The order of the batches of one session, of its rows, cursor and turns. *)

Frozen(rows) == {id \in Id : rows[id].state = "FROZEN"}
Calls(rows) == {id \in Id : rows[id].called > 0}
NotAfter(a, b) == a[1] < b[1] \/ (a[1] = b[1] /\ a[2] <= b[2])

(* The turns at which a flush that is neither idle nor asked for freezes. *)
Prompts(d, stored) ==
    {n \in d + 1 .. Len(stored) :
        stored[n].save \/ CompleteTurns(stored, d + 1, n) = Threshold}

(* A batch has stored turns, and none begins beyond the turn after the
   detected watermark. *)
RowsInRange(rows, c, stored) ==
    \A id \in Id : rows[id].state # "ABSENT" =>
        /\ id[1] <= id[2]
        /\ id[2] <= Len(stored)
        /\ id[1] <= c.detected + 1

(* Only stored turns are observed, a request asks for all that are, the active
   batch has a row, and a complete baseline was captured at its watermark. *)
CursorInRange(rows, c, stored) ==
    /\ c.observed <= Len(stored)
    /\ c.manual \in {0, c.observed}
    /\ c.active # NoId => rows[c.active].state # "ABSENT"
    /\ c.base.complete => c.base.at = c.base.after

(* The batches that were called lie behind the watermark, the one at work
   apart, and before every batch that is still frozen. *)
CallsApart(rows, c) ==
    /\ \A k \in Calls(rows) : k[2] <= c.detected \/ c.active = k
    /\ \A k \in Calls(rows), f \in Frozen(rows) : k[2] < f[1]
    /\ \A j, k \in Calls(rows) : j # k => ~Overlap(j, k)

(* A frozen batch that the cursor refers to is the last of the frozen ones:
   the oldest of several is not the one the worker may claim. *)
ActiveIsLatest(rows, c) ==
    c.active \in Frozen(rows) => \A f \in Frozen(rows) : NotAfter(f, c.active)

(* Of one watermark the ranges never get shorter: a frozen batch that no cursor
   refers to is no longer than what the next flush may freeze. *)
NeverShorter(rows, c, stored) ==
    c.active = NoId => \A f \in Frozen(rows) :
        f[1] = c.detected + 1 =>
            c.manual # 0 \/ \A n \in Prompts(c.detected, stored) : f[2] <= n

Covered(rows, c) ==
    \A n \in 1 .. c.detected : \E id \in Id : Within(n, id) /\ Terminal(rows[id])

RowFits(id, row) ==
    /\ row.reasons # {}
    /\ row.state = "COMMITTED_READY" <=> row.intents > 0
    /\ row.state = "COMMITTED_DEFER" => row.carry # NoCarry
    /\ row.carry # NoCarry =>
          row.state \in {"DETECTION_CLAIMED", "COMMITTED_DEFER", "NEEDS_ATTENTION"}
    /\ row.called <= 1
    /\ row.state # "NEEDS_ATTENTION" => row.called = (IF row.state = "FROZEN" THEN 0 ELSE 1)
    /\ row.unrouted => row.state = "NEEDS_ATTENTION" /\ row.called = 0
    /\ row.base.complete => row.base.at < id[1]
RowsFit(rows) ==
    \A id \in Id : IF rows[id].state = "ABSENT" THEN rows[id].called = 0
                   ELSE RowFits(id, rows[id])

Ordered(rows, c, stored) ==
    /\ RowsInRange(rows, c, stored)
    /\ CursorInRange(rows, c, stored)
    /\ CallsApart(rows, c)
    /\ ActiveIsLatest(rows, c)
    /\ NeverShorter(rows, c, stored)
    /\ Covered(rows, c)
    /\ RowsFit(rows)

----
(* What changes of a row or of a cursor keep the order. *)

LEMMA IdType ==
  /\ \A id \in Id : id[1] \in 1 .. MaxTurn /\ id[2] \in 1 .. MaxTurn /\ id \in Nat \X Nat
  /\ NoId \notin Id
  /\ MaxTurn \in Nat
<1>1. MaxTurn \in Nat BY SizesAssumption
<1>2. \A id \in Id : id[1] \in 1 .. MaxTurn /\ id[2] \in 1 .. MaxTurn /\ id \in Nat \X Nat
  BY <1>1 DEF Id, Turn
<1>3. NoId \notin Id BY <1>1 DEF Id, Turn, NoId
<1> QED BY <1>1, <1>2, <1>3

LEMMA CursorFields ==
  ASSUME NEW c \in Cursor
  PROVE  /\ c.detected \in Nat /\ c.observed \in Nat /\ c.manual \in Nat
         /\ c.active \in Id \cup {NoId}
         /\ c.base \in Baseline /\ c.carry \in Carry
  BY SizesAssumption DEF Cursor

(* A cursor that keeps its watermark and its batch, and any request it had. *)
LEMMA CursorStays ==
  ASSUME NEW rows, NEW c \in Cursor, NEW stored, NEW d \in Cursor,
         Ordered(rows, c, stored),
         d.detected = c.detected, d.active = c.active,
         c.manual # 0 => d.manual # 0,
         CursorInRange(rows, d, stored)
  PROVE Ordered(rows, d, stored)
  BY DEF Ordered, RowsInRange, CallsApart, ActiveIsLatest, NeverShorter, Covered

(* A turn is stored after the others. *)
LEMMA PromptsOfPrefix ==
  ASSUME NEW d \in Nat, NEW stored \in Seq(Kinds), NEW kind \in Kinds
  PROVE Prompts(d, Append(stored, kind)) \cap (1 .. Len(stored)) \subseteq Prompts(d, stored)
<1> DEFINE longer == Append(stored, kind)
<1>1. Len(stored) \in Nat /\ \A n \in 1 .. Len(stored) : longer[n] = stored[n] OBVIOUS
<1>2. \A n \in d + 1 .. Len(stored) :
        CompleteTurns(longer, d + 1, n) = CompleteTurns(stored, d + 1, n)
  <2> SUFFICES ASSUME NEW n \in d + 1 .. Len(stored)
               PROVE CompleteTurns(longer, d + 1, n) = CompleteTurns(stored, d + 1, n)
    OBVIOUS
  <2>1. {m \in d + 1 .. n : longer[m].complete} = {m \in d + 1 .. n : stored[m].complete}
    <3> HIDE DEF longer
    <3> QED BY <1>1
  <2> QED BY <2>1, Zenon DEF CompleteTurns
<1> HIDE DEF longer
<1>3. ASSUME NEW n \in Prompts(d, longer), n \in 1 .. Len(stored) PROVE n \in Prompts(d, stored)
  <2>1. n \in d + 1 .. Len(stored) /\ longer[n] = stored[n]
    BY <1>1, <1>3 DEF Prompts
  <2> QED BY <1>2, <1>3, <2>1 DEF Prompts
<1> QED BY <1>3 DEF longer

LEMMA TurnIsStored ==
  ASSUME NEW rows, NEW c \in Cursor, NEW stored \in Seq(Kinds), NEW kind \in Kinds,
         Ordered(rows, c, stored)
  PROVE Ordered(rows, c, Append(stored, kind))
<1> DEFINE longer == Append(stored, kind)
<1>1. Len(stored) \in Nat /\ Len(longer) = Len(stored) + 1 OBVIOUS
<1>2. Prompts(c.detected, longer) \cap (1 .. Len(stored)) \subseteq Prompts(c.detected, stored)
  BY CursorFields, PromptsOfPrefix
<1>3. c.detected \in Nat /\ c.observed \in Nat BY CursorFields
<1>7. Prompts(c.detected, longer) \subseteq 1 .. Len(longer)
  BY <1>1, <1>3 DEF Prompts
<1> HIDE DEF longer
<1>4. RowsInRange(rows, c, longer) /\ CursorInRange(rows, c, longer)
  BY <1>1, <1>3, IdType DEF Ordered, RowsInRange, CursorInRange
<1>5. NeverShorter(rows, c, longer)
  <2> SUFFICES ASSUME c.active = NoId, NEW f \in Frozen(rows), f[1] = c.detected + 1,
                      c.manual = 0, NEW n \in Prompts(c.detected, longer)
               PROVE f[2] <= n
    BY DEF NeverShorter
  <2>1. f \in Id /\ f[2] <= Len(stored) /\ f[2] \in Nat
    BY IdType DEF Ordered, RowsInRange, Frozen
  <2>2. CASE n \in 1 .. Len(stored)
    BY <1>2, <2>2 DEF Ordered, NeverShorter
  <2>3. CASE n \notin 1 .. Len(stored) BY <1>1, <1>7, <2>1, <2>3
  <2> QED BY <2>2, <2>3
<1> QED BY <1>4, <1>5 DEF Ordered, longer

(* A batch is frozen, or goes to attention without a route, at the turn after
   the watermark, while the cursor d that is written later refers to none that
   is frozen. *)
LEMMA RowIsPut ==
  ASSUME NEW rows \in [Id -> Row], NEW d \in Cursor, NEW stored \in Seq(Kinds),
         Ordered(rows, d, stored),
         NEW id \in Id, NEW row \in Row,
         rows[id].state = "ABSENT",
         row.state \in {"FROZEN", "NEEDS_ATTENTION"}, row.called = 0,
         RowFits(id, row),
         id[1] = d.detected + 1, id[1] <= id[2], id[2] <= Len(stored),
         d.active \notin Frozen(rows),
         \A k \in Calls(rows) : k[2] <= d.detected,
         d.manual # 0 \/ \A n \in Prompts(d.detected, stored) : id[2] <= n
  PROVE Ordered([rows EXCEPT ![id] = row], d, stored)
<1> DEFINE new == [rows EXCEPT ![id] = row]
<1>1. new \in [Id -> Row] /\ new[id] = row /\ \A k \in Id : k # id => new[k] = rows[k]
  OBVIOUS
<1> HIDE DEF new
<1>2. rows[id].called = 0 BY DEF Ordered, RowsFit
<1>3. Calls(new) = Calls(rows) BY <1>1, <1>2 DEF Calls
<1>4. Frozen(new) \subseteq Frozen(rows) \cup {id} BY <1>1 DEF Frozen
<1>5. RowsInRange(new, d, stored)
  BY <1>1, CursorFields DEF Ordered, RowsInRange
<1>6. d.active # id BY IdType DEF Ordered, CursorInRange
<1>7. CursorInRange(new, d, stored)
  BY <1>1, <1>6, CursorFields DEF Ordered, CursorInRange
<1>8. CallsApart(new, d)
  <2>1. \A k \in Calls(new), f \in Frozen(new) : k[2] < f[1]
    <3> SUFFICES ASSUME NEW k \in Calls(rows), NEW f \in Frozen(new) PROVE k[2] < f[1]
      BY <1>3
    <3>1. CASE f = id BY <3>1, IdType, CursorFields DEF Calls
    <3>2. CASE f # id BY <3>2, <1>4 DEF Ordered, CallsApart
    <3> QED BY <3>1, <3>2
  <2> QED BY <1>3, <2>1 DEF Ordered, CallsApart
<1>9. ActiveIsLatest(new, d) BY <1>4, <1>6 DEF ActiveIsLatest
<1>10. NeverShorter(new, d, stored) BY <1>4 DEF Ordered, NeverShorter
<1>11. Covered(new, d)
  <2>1. \A k \in Id : Terminal(rows[k]) => Terminal(new[k])
    BY <1>1 DEF Terminal, TerminalStates
  <2> QED BY <2>1 DEF Ordered, Covered
<1>12. RowsFit(new) BY <1>1 DEF Ordered, RowsFit
<1> QED BY <1>5, <1>7, <1>8, <1>9, <1>10, <1>11, <1>12 DEF Ordered, new

LEMMA ConsumeFacts ==
  ASSUME NEW c \in Cursor, NEW n \in Nat
  PROVE  /\ Consume(c, n) \in Cursor
         /\ Consume(c, n).detected = c.detected /\ Consume(c, n).observed = c.observed
         /\ Consume(c, n).active = c.active /\ Consume(c, n).base = c.base
         /\ Consume(c, n).carry = c.carry
         /\ Consume(c, n).manual \in {0, c.manual}
         /\ c.manual > n => Consume(c, n).manual = c.manual
  BY SizesAssumption DEF Consume, Cursor

(* The cursor is made to refer to the longest batch that is frozen. *)
LEMMA BatchIsBound ==
  ASSUME NEW rows \in [Id -> Row], NEW c \in Cursor, NEW stored \in Seq(Kinds),
         Ordered(rows, c, stored),
         NEW id \in Frozen(rows),
         \A f \in Frozen(rows) : NotAfter(f, id),
         \A k \in Calls(rows) : k[2] <= c.detected,
         NEW d \in Cursor, d.detected = c.detected, d.active = id,
         d.observed = c.observed, d.manual \in {0, d.observed},
         d.base.complete => d.base.at = d.base.after
  PROVE Ordered(rows, d, stored)
<1>1. id \in Id /\ id # NoId /\ rows[id].state = "FROZEN"
  BY IdType DEF Frozen
<1>2. CursorInRange(rows, d, stored) BY <1>1 DEF Ordered, CursorInRange
<1>3. RowsInRange(rows, d, stored) /\ Covered(rows, d) /\ RowsFit(rows)
  BY DEF Ordered, RowsInRange, Covered
<1>4. CallsApart(rows, d) BY DEF Ordered, CallsApart
<1>5. ActiveIsLatest(rows, d) BY DEF ActiveIsLatest
<1>6. NeverShorter(rows, d, stored) BY <1>1 DEF NeverShorter
<1> QED BY <1>2, <1>3, <1>4, <1>5, <1>6 DEF Ordered

(* The watermark passes a settled batch that begins where it was or before. *)
LEMMA WatermarkPasses ==
  ASSUME NEW rows \in [Id -> Row], NEW c \in Cursor, NEW stored \in Seq(Kinds),
         Ordered(rows, c, stored),
         NEW id \in Id, Terminal(rows[id]), id[2] > c.detected,
         c.active \in {NoId, id},
         NEW d \in Cursor, d.detected = id[2], d.active = NoId,
         d.observed = c.observed, d.manual \in {0, d.observed},
         d.base.complete => d.base.at = d.base.after
  PROVE Ordered(rows, d, stored)
<1>1. c.detected \in Nat /\ id[1] \in Nat /\ id[2] \in Nat /\ NoId \notin Id
  BY IdType, CursorFields
<1>2. rows[id].state # "ABSENT" BY DEF Terminal, TerminalStates
<1>3. RowsInRange(rows, d, stored)
  BY <1>1, IdType DEF Ordered, RowsInRange
<1>4. CursorInRange(rows, d, stored) BY DEF Ordered, CursorInRange
<1>5. CallsApart(rows, d)
  <2>1. \A k \in Calls(rows) : k[2] <= d.detected
    BY <1>1, IdType DEF Ordered, CallsApart, Calls
  <2> QED BY <2>1 DEF Ordered, CallsApart
<1>6. ActiveIsLatest(rows, d) BY <1>1 DEF ActiveIsLatest, Frozen
<1>7. NeverShorter(rows, d, stored)
  <2>1. \A f \in Frozen(rows) : f[1] # d.detected + 1
    BY <1>1, IdType DEF Ordered, RowsInRange, Frozen
  <2> QED BY <2>1 DEF NeverShorter
<1>8. Covered(rows, d)
  <2> SUFFICES ASSUME NEW n \in 1 .. d.detected
               PROVE \E k \in Id : Within(n, k) /\ Terminal(rows[k])
    BY DEF Covered
  <2>1. CASE n <= c.detected BY <1>1, <2>1 DEF Ordered, Covered
  <2>2. CASE n > c.detected
    <3>1. Within(n, id)
      BY <1>1, <1>2, <2>2 DEF Ordered, RowsInRange, Within
    <3> QED BY <3>1
  <2> QED BY <1>1, <2>1, <2>2
<1> QED BY <1>3, <1>4, <1>5, <1>6, <1>7, <1>8 DEF Ordered

----
(* What a flush freezes. *)

LEMMA SmallestIsFirst ==
  ASSUME NEW S \in SUBSET Nat, S # {}
  PROVE First(S) \in S /\ \A n \in S : First(S) <= n
  BY SmallestInSet DEF First

LEMMA FirstIsUnique ==
  ASSUME NEW S \in SUBSET Nat, NEW n \in S, \A m \in S : n <= m
  PROVE First(S) = n
<1>1. First(S) \in S /\ First(S) <= n BY SmallestIsFirst
<1>2. First(S) \in Nat /\ n \in Nat /\ n <= First(S) BY <1>1
<1> QED BY <1>1, <1>2

(* The range that a flush freezes has a reason; it is at least as long as every
   range that an earlier flush could have frozen from the same watermark, and
   without a request it ends at the first prompt, if there is one. *)
LEMMA CandidateOrder ==
  ASSUME NEW c \in Cursor, NEW stored \in Seq(Kinds), NEW mode,
         NEW x \in Candidate(c, stored, mode),
         mode = "manual" => c.manual \in {0, Len(stored)},
         ~Held(c, mode)
  PROVE  /\ x.reasons # {}
         /\ x.last \in c.detected + 1 .. Len(stored)
         /\ c.manual # 0 \/ \A n \in Prompts(c.detected, stored) : x.last <= n
         /\ \A l \in c.detected + 1 .. Len(stored) :
               c.manual # 0 \/ (\A n \in Prompts(c.detected, stored) : l <= n)
                   => l <= x.last
<1> DEFINE pending == c.detected + 1 .. Len(stored)
           save == {n \in pending : stored[n].save}
           full == {n \in pending : CompleteTurns(stored, c.detected + 1, n) = Threshold}
           asked == {n \in pending : n >= c.manual}
           prompt == {n \in save \cup full : n = First(save \cup full)}
<1>0. c.detected \in Nat /\ c.manual \in Nat /\ Len(stored) \in Nat /\ pending \in SUBSET Nat
  BY CursorFields
<1>p. Prompts(c.detected, stored) = save \cup full BY DEF Prompts
<1>x. /\ x.last \in pending /\ x.reasons \subseteq Reasons
  BY CandidateType
<1>1. CASE mode = "manual" /\ c.manual # 0
  <2>1. Candidate(c, stored, mode) =
           {[last |-> n, reasons |-> {"EXPLICIT"} \cup
                   {r \in {"THRESHOLD"} : \E m \in full : m <= n}] :
                 n \in {m \in asked : m = First(asked)}}
    BY <1>1, Zenon DEF Candidate
  <2>2. PICK n \in asked : x = [last |-> n, reasons |-> {"EXPLICIT"} \cup
                   {r \in {"THRESHOLD"} : \E m \in full : m <= n}]
    <3> HIDE DEF full, asked
    <3> QED BY <2>1
  <2>3. "EXPLICIT" \in x.reasons /\ x.last = n
    <3> HIDE DEF full
    <3> QED BY <2>2
  <2>4. n >= c.manual /\ c.manual = Len(stored) BY <1>1
  <2> HIDE DEF full, asked, save
  <2> QED BY <1>0, <1>1, <1>x, <2>3, <2>4
<1>2. CASE ~(mode = "manual" /\ c.manual # 0) /\ prompt # {}
  <2>0. c.manual = 0 BY <1>2 DEF Held
  <2>1. Candidate(c, stored, mode) =
           {[last |-> n, reasons |->
                   {r \in {"EXPLICIT"} : n \in save} \cup
                   {r \in {"THRESHOLD"} : full # {} /\ n = First(full)}] : n \in prompt}
    BY <1>2, Zenon DEF Candidate
  <2>2. PICK n \in prompt : x = [last |-> n, reasons |->
                   {r \in {"EXPLICIT"} : n \in save} \cup
                   {r \in {"THRESHOLD"} : full # {} /\ n = First(full)}]
    <3> HIDE DEF full, save, prompt
    <3> QED BY <2>1
  <2>3. save \in SUBSET Nat /\ full \in SUBSET Nat BY <1>0
  <2>4. n \in save \cup full /\ \A m \in save \cup full : n <= m
    <3>1. n \in save \cup full /\ n = First(save \cup full) OBVIOUS
    <3> HIDE DEF save, full, prompt
    <3> QED BY <2>3, <3>1, SmallestIsFirst
  <2> HIDE DEF pending, full, save, prompt
  <2>5. n \in full => full # {} /\ n = First(full)
    BY <2>3, <2>4, FirstIsUnique
  <2>6. x.reasons # {}
    <3>1. CASE n \in save
      <4>1. "EXPLICIT" \in x.reasons BY <2>2, <3>1
      <4> QED BY <4>1
    <3>2. CASE n \in full
      <4>1. "THRESHOLD" \in x.reasons BY <2>2, <2>5, <3>2
      <4> QED BY <4>1
    <3> QED BY <2>4, <3>1, <3>2
  <2>7. x.last = n BY <2>2
  <2> QED BY <1>p, <1>x, <2>0, <2>4, <2>6, <2>7 DEF pending
<1>3. CASE ~(mode = "manual" /\ c.manual # 0) /\ prompt = {}
  <2>1. Candidate(c, stored, mode) =
           {[last |-> n, reasons |-> {"IDLE"}] :
                 n \in {m \in pending : m = Len(stored) /\ mode = "idle"}}
    BY <1>3, Zenon DEF Candidate
  <2>2. x.last = Len(stored) /\ x.reasons = {"IDLE"}
    <3> HIDE DEF pending
    <3> QED BY <2>1
  <2>3. save \cup full = {}
    <3>1. save \cup full \in SUBSET Nat BY <1>0
    <3>2. prompt = {n \in save \cup full : n = First(save \cup full)} OBVIOUS
    <3> HIDE DEF save, full, prompt
    <3> QED BY <1>3, <3>1, <3>2, SmallestIsFirst
  <2> HIDE DEF save, full, prompt
  <2> QED BY <1>0, <1>p, <1>x, <2>2, <2>3
<1> HIDE DEF prompt
<1> QED BY <1>1, <1>2, <1>3

(* A row that a flush puts is one the store admits. *)
LEMMA FrozenRowFits ==
  ASSUME NEW c \in Cursor, NEW x, x.reasons # {}, x.reasons \subseteq Reasons,
         NEW routed \in BOOLEAN,
         NEW id \in Id, id[1] = c.detected + 1,
         c.base.complete => c.base.at = c.base.after
  PROVE  /\ RowFits(id, FrozenRow(c, x, routed))
         /\ FrozenRow(c, x, routed) \in Row
         /\ FrozenRow(c, x, routed).called = 0
         /\ FrozenRow(c, x, routed).state = IF routed THEN "FROZEN" ELSE "NEEDS_ATTENTION"
<1> DEFINE base == IF c.base.after = c.detected THEN c.base ELSE Unavailable(c.detected)
           row == FrozenRow(c, x, routed)
<1>1. row = [AbsentRow EXCEPT !.state = IF routed THEN "FROZEN" ELSE "NEEDS_ATTENTION",
                              !.reasons = x.reasons,
                              !.carry = IF routed THEN NoCarry ELSE c.carry,
                              !.unrouted = ~routed,
                              !.base = base]
  BY DEF FrozenRow
<1>2. base.complete => base.at < id[1]
  <2>1. c.detected \in Nat BY CursorFields
  <2>2. Unavailable(c.detected).complete = FALSE BY DEF Unavailable
  <2> QED BY <2>1, <2>2
<1> HIDE DEF base
<1>3. /\ row.state = IF routed THEN "FROZEN" ELSE "NEEDS_ATTENTION"
      /\ row.reasons = x.reasons
      /\ row.carry = IF routed THEN NoCarry ELSE c.carry
      /\ row.unrouted = ~routed
      /\ row.base = base /\ row.called = 0 /\ row.intents = 0
  <2> HIDE DEF row
  <2> QED BY <1>1 DEF AbsentRow
<1>4. row \in Row BY FrozenRowType
<1> HIDE DEF row
<1>5. RowFits(id, row)
  <2>1. row.base.complete => row.base.at < id[1] BY <1>2, <1>3
  <2>2. row.unrouted => row.state = "NEEDS_ATTENTION" /\ row.called = 0
    BY <1>3
  <2>3. row.reasons # {} /\ row.called <= 1 BY <1>3
  <2>4. /\ row.state = "COMMITTED_READY" <=> row.intents > 0
        /\ row.state = "COMMITTED_DEFER" => row.carry # NoCarry
        /\ row.carry # NoCarry =>
              row.state \in {"DETECTION_CLAIMED", "COMMITTED_DEFER", "NEEDS_ATTENTION"}
        /\ row.state # "NEEDS_ATTENTION" =>
              row.called = (IF row.state = "FROZEN" THEN 0 ELSE 1)
    BY <1>3
  <2> QED BY <2>1, <2>2, <2>3, <2>4, Zenon DEF RowFits
<1> QED BY <1>3, <1>4, <1>5 DEF row

LEMMA BindFacts ==
  ASSUME NEW c \in Cursor, NEW id \in Id
  PROVE  /\ Bind(c, id) \in Cursor
         /\ Bind(c, id).detected = c.detected /\ Bind(c, id).observed = c.observed
         /\ Bind(c, id).active = id /\ Bind(c, id).base = NoBase
         /\ Bind(c, id).manual \in {0, c.manual}
<1> DEFINE d == Consume(c, id[2])
<1>1. /\ d \in Cursor /\ d.detected = c.detected /\ d.observed = c.observed
      /\ d.manual \in {0, c.manual}
  BY IdType, ConsumeFacts
<1>2. Bind(c, id) = [d EXCEPT !.active = id, !.base = NoBase]
  BY DEF Bind
<1> HIDE DEF d
<1> QED BY <1>1, <1>2, NoBaseType DEF Cursor

LEMMA SettleFacts ==
  ASSUME NEW c \in Cursor, NEW id \in Id, NEW carry \in Carry, id[2] > c.detected
  PROVE  /\ Settle(c, id, carry) \in Cursor
         /\ Settle(c, id, carry).detected = id[2]
         /\ Settle(c, id, carry).observed = c.observed
         /\ Settle(c, id, carry).active = NoId /\ Settle(c, id, carry).base = NoBase
         /\ Settle(c, id, carry).manual \in {0, c.manual}
<1> DEFINE d == Consume(c, id[2])
<1>1. d \in Cursor /\ d.observed = c.observed /\ d.manual \in {0, c.manual}
  BY IdType, ConsumeFacts
<1>2. Larger(c.detected, id[2]) = id[2]
  BY IdType, CursorFields DEF Larger
<1>3. Settle(c, id, carry) = [d EXCEPT !.active = NoId, !.base = NoBase,
                                       !.detected = id[2], !.carry = carry]
  BY <1>2 DEF Settle
<1>4. id[2] \in 0 .. MaxTurn BY IdType
<1> HIDE DEF d
<1> QED BY <1>1, <1>3, <1>4, NoBaseType DEF Cursor

(* No frozen batch is behind the one that a flush may freeze. *)
LEMMA LatestOfWatermark ==
  ASSUME NEW rows \in [Id -> Row], NEW c \in Cursor, NEW stored \in Seq(Kinds), NEW mode,
         NEW x \in Candidate(c, stored, mode),
         mode = "manual" => c.observed = Len(stored),
         ~Held(c, mode), c.active = NoId,
         Ordered(rows, c, stored),
         NEW f \in Frozen(rows)
  PROVE NotAfter(f, <<c.detected + 1, x.last>>)
<1>0. c.detected \in Nat /\ f \in Id BY CursorFields DEF Frozen
<1>1. /\ f[1] <= c.detected + 1 /\ f[1] <= f[2] /\ f[2] <= Len(stored)
      /\ f[1] \in Nat /\ f[2] \in Nat
  BY IdType DEF Ordered, RowsInRange, Frozen
<1>2. mode = "manual" => c.manual \in {0, Len(stored)}
  BY DEF Ordered, CursorInRange
<1>3. CASE f[1] = c.detected + 1
  <2>1. f[2] \in c.detected + 1 .. Len(stored) BY <1>1, <1>3
  <2>2. c.manual # 0 \/ \A n \in Prompts(c.detected, stored) : f[2] <= n
    BY <1>3 DEF Ordered, NeverShorter
  <2>3. f[2] <= x.last BY <1>2, <2>1, <2>2, CandidateOrder
  <2> QED BY <1>3, <2>3 DEF NotAfter
<1>4. CASE f[1] # c.detected + 1 BY <1>0, <1>1, <1>4 DEF NotAfter
<1> QED BY <1>3, <1>4

(* Of a flush, the cursor d that is in force if its own is not written: the
   same watermark, and no batch that is frozen unless the flush sees it too. *)
Behind(rows, d, c, mode) ==
    /\ d.detected = c.detected
    /\ c.active = NoId => d.active \notin Frozen(rows)
    /\ mode = "manual" /\ c.manual # 0 => d.manual # 0

(* freezeOne keeps the order of the session, whether the cursor it returns is
   written after the row it puts or not. *)
LEMMA FreezeOrder ==
  ASSUME TypeOK, NEW s \in Session, NEW c \in Cursor, NEW d \in Cursor,
         NEW stored \in Seq(Kinds), Len(stored) <= MaxTurn,
         NEW mode, NEW routed \in BOOLEAN,
         mode = "manual" => c.observed = Len(stored),
         Ordered(batch[s], c, stored), Ordered(batch[s], d, stored),
         Behind(batch[s], d, c, mode)
  PROVE  /\ Ordered(Freeze(s, c, stored, mode, routed).rows,
                    Freeze(s, c, stored, mode, routed).cursor, stored)
         /\ Ordered(Freeze(s, c, stored, mode, routed).rows, d, stored)
<1> DEFINE f == Freeze(s, c, stored, mode, routed)
           same(ok) == [ok |-> ok, rows |-> batch[s], cursor |-> c]
           found == Candidate(c, stored, mode)
           cand == CHOOSE x \in found : TRUE
           id == <<c.detected + 1, cand.last>>
           old == batch[s][id]
           Good(g) == Ordered(g.rows, g.cursor, stored) /\ Ordered(g.rows, d, stored)
<1> SUFFICES Good(f) OBVIOUS
<1>0. batch[s] \in [Id -> Row] BY DEF TypeOK
<1>1. ASSUME NEW ok, NEW g, g = same(ok) PROVE Good(g) BY <1>1
<1>2. ASSUME NEW g, NEW e, Ordered(batch[s], e, stored), g = [same(TRUE) EXCEPT !.cursor = e]
      PROVE Good(g)
  BY <1>2
<1>3. CASE c.active # NoId
  <2>1. f = same(Open(batch[s][c.active])) BY <1>3, Zenon DEF Freeze
  <2> QED BY <2>1, <1>1
<1>4. CASE c.active = NoId /\ (Held(c, mode) \/ found = {})
  <2>1. f = same(TRUE) BY <1>4, Zenon DEF Freeze
  <2> QED BY <2>1, <1>1
<1>5. ASSUME c.active = NoId, ~Held(c, mode), found # {}
      PROVE Good(f)
  <2>1. cand \in found
    <3> HIDE DEF found
    <3> QED BY <1>5, Zenon
  <2>2. c.manual \in {0, c.observed} /\ (c.base.complete => c.base.at = c.base.after)
    BY DEF Ordered, CursorInRange
  <2>3. /\ cand.reasons # {} /\ cand.reasons \subseteq Reasons
        /\ cand.last \in c.detected + 1 .. Len(stored)
        /\ c.manual # 0 \/ \A n \in Prompts(c.detected, stored) : cand.last <= n
    <3> HIDE DEF cand
    <3>1. mode = "manual" => c.manual \in {0, Len(stored)} BY <2>2
    <3> QED BY <1>5, <2>1, <3>1, CandidateOrder, CandidateType
  <2>4. \A k \in Frozen(batch[s]) : NotAfter(k, id)
    <3> HIDE DEF cand
    <3> QED BY <1>0, <1>5, <2>1, LatestOfWatermark
  <2>5. c.detected \in Nat /\ Len(stored) \in Nat /\ MaxTurn \in Nat
    BY CursorFields, IdType
  <2>6. /\ id \in Id /\ id[1] = c.detected + 1 /\ id[2] = cand.last
        /\ id[1] <= id[2] /\ id[2] <= Len(stored) /\ id[2] > c.detected
    <3> HIDE DEF cand
    <3> QED BY <2>3, <2>5 DEF Id, Turn
  <2>7. \A k \in Calls(batch[s]) : k[2] <= c.detected
    <3>1. \A k \in Id : k # NoId BY IdType
    <3> QED BY <1>5, <3>1 DEF Ordered, CallsApart, Calls
  <2>8. c.active \notin Frozen(batch[s]) /\ d.active \notin Frozen(batch[s])
    BY <1>5, IdType DEF Behind, Frozen
  <2> HIDE DEF found, cand
  <2>9. CASE old.state = "ABSENT"
    <3> DEFINE row == FrozenRow(c, cand, routed)
               rows == [batch[s] EXCEPT ![id] = row]
    <3>1. f = [ok |-> TRUE, rows |-> rows,
               cursor |-> IF routed THEN Bind(c, id) ELSE Settle(c, id, c.carry)]
      BY <1>5, <2>9, Zenon DEF Freeze, found, cand
    <3>2. /\ RowFits(id, row) /\ row \in Row /\ row.called = 0
          /\ row.state = IF routed THEN "FROZEN" ELSE "NEEDS_ATTENTION"
      BY <2>2, <2>3, <2>6, FrozenRowFits
    <3> HIDE DEF row, id
    <3>3. row.state \in {"FROZEN", "NEEDS_ATTENTION"} BY <3>2
    <3>4. Ordered(rows, c, stored)
      BY <1>0, <2>3, <2>6, <2>7, <2>8, <2>9, <3>2, <3>3, RowIsPut
    <3>5. Ordered(rows, d, stored)
      <4>1. d.detected = c.detected BY DEF Behind
      <4>2. d.manual # 0 \/ \A n \in Prompts(c.detected, stored) : cand.last <= n
        <5>1. CASE c.manual = 0 BY <2>3, <5>1
        <5>2. CASE c.manual # 0 BY <1>5, <5>2 DEF Behind, Held
        <5> QED BY <5>1, <5>2
      <4> QED BY <1>0, <2>6, <2>7, <2>8, <2>9, <3>2, <3>3, <4>1, <4>2, RowIsPut
    <3>6. rows \in [Id -> Row] /\ rows[id] = row /\ \A k \in Id : k # id => rows[k] = batch[s][k]
      BY <1>0, <2>6, <3>2
    <3> HIDE DEF rows
    <3>7. CASE routed
      <4>1. id \in Frozen(rows) BY <2>6, <3>2, <3>6, <3>7 DEF Frozen
      <4>2. \A k \in Frozen(rows) : NotAfter(k, id)
        <5>1. NotAfter(id, id) BY <2>6, IdType DEF NotAfter
        <5> QED BY <2>4, <3>6, <5>1 DEF Frozen
      <4>3. \A k \in Calls(rows) : k[2] <= c.detected
        BY <2>7, <3>2, <3>6 DEF Calls
      <4>4. /\ Bind(c, id) \in Cursor
            /\ Bind(c, id).detected = c.detected /\ Bind(c, id).observed = c.observed
            /\ Bind(c, id).active = id /\ Bind(c, id).base = NoBase
            /\ Bind(c, id).manual \in {0, c.manual}
        BY <2>6, BindFacts
      <4>5. Bind(c, id).manual \in {0, c.observed} /\ ~Bind(c, id).base.complete
        BY <2>2, <4>4 DEF NoBase
      <4>6. Ordered(rows, Bind(c, id), stored)
        BY <3>4, <3>6, <4>1, <4>2, <4>3, <4>4, <4>5, BatchIsBound
      <4> HIDE DEF f
      <4> QED BY <3>1, <3>5, <3>7, <4>6
    <3>8. CASE ~routed
      <4>1. Terminal(rows[id])
        BY <3>2, <3>6, <3>8 DEF Terminal, TerminalStates
      <4> DEFINE e == Settle(c, id, c.carry)
      <4>2. /\ e \in Cursor /\ e.detected = id[2] /\ e.observed = c.observed
            /\ e.active = NoId /\ e.base = NoBase /\ e.manual \in {0, c.manual}
        BY <2>6, CursorFields, SettleFacts
      <4> HIDE DEF e
      <4>3. e.manual \in {0, e.observed} /\ ~e.base.complete
        BY <2>2, <4>2 DEF NoBase
      <4>4. Ordered(rows, e, stored)
        BY <1>5, <2>6, <3>4, <3>6, <4>1, <4>2, <4>3, WatermarkPasses
      <4> HIDE DEF f
      <4> QED BY <3>1, <3>5, <3>8, <4>4 DEF e
    <3> QED BY <3>7, <3>8
  <2>10. CASE old.state # "ABSENT" /\ old.reasons = cand.reasons /\ old.unrouted
    <3> DEFINE e == Settle(c, id, old.carry)
    <3>1. f = [same(TRUE) EXCEPT !.cursor = e]
      BY <1>5, <2>10, Zenon DEF Freeze, found, cand
    <3>2. old.carry \in Carry BY <1>0, <2>6 DEF Row
    <3>3. Terminal(old)
      BY <2>6, <2>10 DEF Ordered, RowsFit, RowFits, Terminal, TerminalStates
    <3> HIDE DEF id, f
    <3>4. /\ e \in Cursor /\ e.detected = id[2] /\ e.observed = c.observed
          /\ e.active = NoId /\ e.base = NoBase /\ e.manual \in {0, c.manual}
      BY <2>6, <3>2, SettleFacts
    <3> HIDE DEF e
    <3>5. e.manual \in {0, e.observed} /\ ~e.base.complete
      BY <2>2, <3>4 DEF NoBase
    <3>6. Ordered(batch[s], e, stored)
      BY <1>0, <1>5, <2>6, <3>3, <3>4, <3>5, WatermarkPasses
    <3> HIDE DEF old
    <3> QED BY <3>1, <3>6, <1>2
  <2>11. CASE /\ old.state # "ABSENT" /\ old.reasons = cand.reasons
              /\ ~old.unrouted /\ old.state = "FROZEN"
    <3>1. f = [same(TRUE) EXCEPT !.cursor = Bind(c, id)]
      BY <1>5, <2>11, Zenon DEF Freeze, found, cand
    <3> HIDE DEF f
    <3>2. id \in Frozen(batch[s]) BY <2>6, <2>11 DEF Frozen
    <3> HIDE DEF id
    <3>4. /\ Bind(c, id) \in Cursor
          /\ Bind(c, id).detected = c.detected /\ Bind(c, id).observed = c.observed
          /\ Bind(c, id).active = id /\ Bind(c, id).base = NoBase
          /\ Bind(c, id).manual \in {0, c.manual}
      BY <2>6, BindFacts
    <3>5. Bind(c, id).manual \in {0, c.observed} /\ ~Bind(c, id).base.complete
      BY <2>2, <3>4 DEF NoBase
    <3>6. Ordered(batch[s], Bind(c, id), stored)
      BY <1>0, <2>4, <2>7, <3>2, <3>4, <3>5, BatchIsBound
    <3> QED BY <3>1, <3>6, <1>2
  <2>12. CASE /\ old.state # "ABSENT"
              /\ old.reasons # cand.reasons \/ (~old.unrouted /\ old.state # "FROZEN")
    <3>1. f = same(FALSE) BY <1>5, <2>12, Zenon DEF Freeze, found, cand
    <3> QED BY <3>1, <1>1
  <2> HIDE DEF old, id, f
  <2> QED BY <2>9, <2>10, <2>11, <2>12, Zenon
<1> HIDE DEF f, found
<1> QED BY <1>3, <1>4, <1>5

SessionsOrdered == \A s \in Session : Ordered(batch[s], cursor[s], obs[s])

(* The cursors a flush starts from, and the modes it has. *)
Flushable(S, c, mode) ==
    \A s \in Session :
        /\ Ordered(batch[s], c[s], obs[s])
        /\ Behind(batch[s], cursor[s], c[s], mode[s])
        /\ s \in S /\ mode[s] = "manual" => c[s].observed = Len(obs[s])

LEMMA PassOrder ==
  ASSUME TypeOK, SessionsOrdered, NEW S, NEW c \in [Session -> Cursor], NEW mode,
         Flushable(S, c, mode), NEW routed \in Routes, NEW s \in Session
  PROVE  /\ Ordered(Pass(S, c, mode, routed)[s].rows,
                    Pass(S, c, mode, routed)[s].cursor, obs[s])
         /\ Ordered(Pass(S, c, mode, routed)[s].rows, cursor[s], obs[s])
<1>1. /\ obs[s] \in Seq(Kinds) /\ Len(obs[s]) <= MaxTurn
      /\ cursor[s] \in Cursor /\ c[s] \in Cursor
  BY DEF TypeOK
<1>2. routed[s] \in BOOLEAN BY OutcomesAssumption DEF Routes
<1>3. Ordered(batch[s], c[s], obs[s]) /\ Ordered(batch[s], cursor[s], obs[s])
  BY DEF Flushable, SessionsOrdered
<1>4. CASE s \in S
  <2>1. Pass(S, c, mode, routed)[s] = Freeze(s, c[s], obs[s], mode[s], routed[s])
    BY <1>4 DEF Pass
  <2>2. /\ Behind(batch[s], cursor[s], c[s], mode[s])
        /\ mode[s] = "manual" => c[s].observed = Len(obs[s])
    BY <1>4 DEF Flushable
  <2>3. /\ Ordered(Freeze(s, c[s], obs[s], mode[s], routed[s]).rows,
                   Freeze(s, c[s], obs[s], mode[s], routed[s]).cursor, obs[s])
        /\ Ordered(Freeze(s, c[s], obs[s], mode[s], routed[s]).rows, cursor[s], obs[s])
    BY <1>1, <1>2, <1>3, <2>2, FreezeOrder
  <2> QED BY <2>1, <2>3
<1>5. CASE s \notin S
  <2>1. Pass(S, c, mode, routed)[s] = [ok |-> TRUE, rows |-> batch[s], cursor |-> c[s]]
    BY <1>5 DEF Pass
  <2> QED BY <1>3, <2>1
<1> QED BY <1>4, <1>5

LEMMA FlushCommitsOrder ==
  ASSUME TypeOK, SessionsOrdered, NEW S, NEW c \in [Session -> Cursor], NEW mode,
         Flushable(S, c, mode), FlushCommits(S, c, mode), UNCHANGED obs
  PROVE SessionsOrdered'
<1>1. PICK routed \in Routes :
        LET F == Pass(S, c, mode, routed)
        IN  /\ \A s \in Session : F[s].ok
            /\ batch' = [s \in Session |-> F[s].rows]
            /\ cursor' = [s \in Session |-> F[s].cursor]
            /\ UNCHANGED bounds
  BY Zenon DEF FlushCommits
<1> DEFINE F == Pass(S, c, mode, routed)
<1>2. \A s \in Session : Ordered(F[s].rows, F[s].cursor, obs[s])
  BY PassOrder
<1>3. /\ batch' = [s \in Session |-> F[s].rows]
      /\ cursor' = [s \in Session |-> F[s].cursor]
  BY <1>1
<1> HIDE DEF F
<1> QED BY <1>2, <1>3 DEF SessionsOrdered

LEMMA FlushThrowsOrder ==
  ASSUME TypeOK, SessionsOrdered, NEW S, NEW c \in [Session -> Cursor], NEW mode,
         Flushable(S, c, mode), FlushThrows(S, c, mode), UNCHANGED obs
  PROVE SessionsOrdered'
<1>1. PICK routed \in Routes, cut \in 1 .. NSession + 1 :
        LET F == Pass(S, c, mode, routed)
        IN  /\ IF cut \in Session /\ ~F[cut].ok THEN UNCHANGED bounds ELSE Fault
            /\ batch' = [s \in Session |-> IF s < cut THEN F[s].rows ELSE batch[s]]
            /\ UNCHANGED cursor
  BY Zenon DEF FlushThrows
<1> DEFINE F == Pass(S, c, mode, routed)
<1>2. \A s \in Session : Ordered(F[s].rows, cursor[s], obs[s])
  BY PassOrder
<1>3. /\ batch' = [s \in Session |-> IF s < cut THEN F[s].rows ELSE batch[s]]
      /\ cursor' = cursor
  BY <1>1
<1> HIDE DEF F
<1> QED BY <1>2, <1>3 DEF SessionsOrdered

(* A flush of the cursors as they are. *)
LEMMA CursorsFlushable ==
  ASSUME TypeOK, SessionsOrdered, NEW S, NEW mode,
         \A s \in S : mode[s] = "manual" => Captured(s)
  PROVE Flushable(S, cursor, mode)
<1> SUFFICES ASSUME NEW s \in Session
             PROVE  /\ Ordered(batch[s], cursor[s], obs[s])
                    /\ Behind(batch[s], cursor[s], cursor[s], mode[s])
                    /\ s \in S /\ mode[s] = "manual" => cursor[s].observed = Len(obs[s])
  BY DEF Flushable
<1>1. Ordered(batch[s], cursor[s], obs[s]) BY DEF SessionsOrdered
<1>2. Behind(batch[s], cursor[s], cursor[s], mode[s])
  BY IdType DEF Behind, Frozen
<1>3. ASSUME s \in S, mode[s] = "manual" PROVE cursor[s].observed = Len(obs[s])
  <2>1. cursor[s].observed >= Len(obs[s]) /\ cursor[s].observed <= Len(obs[s])
    BY <1>1, <1>3 DEF Captured, Ordered, CursorInRange
  <2>2. cursor[s].observed \in Nat /\ Len(obs[s]) \in Nat
    BY CursorFields DEF TypeOK
  <2> QED BY <2>1, <2>2
<1> QED BY <1>1, <1>2, <1>3

LEMMA FlushRequestedOrder ==
  ASSUME TypeOK, SessionsOrdered, NEW ACTION Then, NEW ACTION Else,
         FlushRequested(Then, Else)
  PROVE SessionsOrdered'
<1>1. PICK S \in SUBSET {s \in Asked : Captured(s)} :
          \/ FlushCommits(S, cursor, ManualMode) /\ Then
          \/ FlushThrows(S, cursor, ManualMode) /\ Else
  BY Zenon DEF FlushRequested
<1>2. UNCHANGED obs BY Zenon DEF FlushRequested
<1>3. Flushable(S, cursor, ManualMode) BY CursorsFlushable
<1>4. cursor \in [Session -> Cursor] BY DEF TypeOK
<1> QED BY <1>1, <1>2, <1>3, <1>4, FlushCommitsOrder, FlushThrowsOrder, Zenon

LEMMA FlushIdleOrder ==
  ASSUME TypeOK, SessionsOrdered, FlushIdle
  PROVE SessionsOrdered'
<1>1. Flushable(Session, cursor, IdleMode(idle))
  BY CursorsFlushable DEF IdleMode
<1>2. cursor \in [Session -> Cursor] BY DEF TypeOK
<1>3. FlushCommits(Session, cursor, IdleMode(idle)) \/ FlushThrows(Session, cursor, IdleMode(idle))
  BY Zenon DEF FlushIdle
<1>4. UNCHANGED obs BY DEF FlushIdle
<1> QED BY <1>1, <1>2, <1>3, <1>4, FlushCommitsOrder, FlushThrowsOrder, Zenon

----
(* The steps of the coordinator. *)

LEMMA BaseOfCursor ==
  ASSUME NEW c \in Cursor, NEW rows, NEW stored, Ordered(rows, c, stored)
  PROVE c.base.complete => c.base.at = c.base.after
  BY DEF Ordered, CursorInRange

LEMMA PrepareSessionWindowOrder ==
  ASSUME TypeOK, SessionsOrdered, NEW s \in Session, PrepareSessionWindow(s)
  PROVE SessionsOrdered'
<1> DEFINE c == cursor[s]
           start == WindowStart(s, c)
<1>1. c \in Cursor /\ Ordered(batch[s], c, obs[s])
  BY DEF TypeOK, SessionsOrdered
<1>2. PICK captured \in Captures :
        cursor' = [cursor EXCEPT ![s].base =
           IF captured /\ c.observed = start
           THEN [after |-> start, complete |-> TRUE, at |-> c.observed]
           ELSE Unavailable(start)]
  BY Zenon DEF PrepareSessionWindow
<1> DEFINE b == IF captured /\ c.observed = start
                THEN [after |-> start, complete |-> TRUE, at |-> c.observed]
                ELSE Unavailable(start)
           d == [c EXCEPT !.base = b]
<1>3. b.complete => b.at = b.after BY DEF Unavailable
<1>4. b \in Baseline
  <2>1. start \in 0 .. MaxTurn BY <1>1, WindowStartType
  <2>2. Unavailable(start) \in Baseline BY <2>1, UnavailableType
  <2>3. c.observed \in 0 .. MaxTurn BY <1>1 DEF Cursor
  <2>4. [after |-> start, complete |-> TRUE, at |-> c.observed] \in Baseline
    BY <2>1, <2>3, SizesAssumption DEF Baseline
  <2> QED BY <2>2, <2>4
<1>5. cursor' = [cursor EXCEPT ![s] = d] BY <1>2
<1> HIDE DEF b, c
<1>6. d \in Cursor BY <1>1, <1>4, CursorWith
<1>7. /\ d.detected = c.detected /\ d.active = c.active /\ d.manual = c.manual
      /\ d.observed = c.observed /\ d.base = b
  BY <1>1 DEF Cursor
<1> HIDE DEF d
<1>8. CursorInRange(batch[s], d, obs[s])
  BY <1>1, <1>3, <1>7 DEF Ordered, CursorInRange
<1>9. Ordered(batch[s], d, obs[s])
  BY <1>1, <1>6, <1>7, <1>8, CursorStays
<1>10. UNCHANGED <<obs, batch>> /\ cursor \in [Session -> Cursor]
  BY DEF PrepareSessionWindow, TypeOK
<1> QED BY <1>5, <1>9, <1>10 DEF SessionsOrdered

LEMMA RequestSynthesisOrder ==
  ASSUME TypeOK, SessionsOrdered, NEW s \in Session, RequestSynthesis(s)
  PROVE SessionsOrdered'
<1> DEFINE c == cursor[s]
           d == [c EXCEPT !.manual = c.observed]
<1>1. c \in Cursor /\ Ordered(batch[s], c, obs[s])
  BY DEF TypeOK, SessionsOrdered
<1>2. /\ cursor' = [cursor EXCEPT ![s] = d]
      /\ UNCHANGED <<obs, batch>>
      /\ c.observed > (IF c.active # NoId THEN c.active[2] ELSE c.detected)
  BY DEF RequestSynthesis
<1>3. c.observed \in 0 .. MaxTurn /\ c.observed # 0
  <2>1. c.active # NoId => c.active[2] \in Nat
    BY <1>1, CursorFields, IdType
  <2>2. c.detected \in Nat /\ c.observed \in 0 .. MaxTurn
    BY <1>1, CursorFields DEF Cursor
  <2> QED BY <1>2, <2>1, <2>2
<1>4. /\ d \in Cursor /\ d.detected = c.detected /\ d.active = c.active
      /\ d.manual = c.observed /\ d.observed = c.observed /\ d.base = c.base
  BY <1>1, <1>3, CursorWith DEF Cursor
<1> HIDE DEF c, d
<1>5. CursorInRange(batch[s], d, obs[s])
  BY <1>1, <1>4 DEF Ordered, CursorInRange
<1>6. Ordered(batch[s], d, obs[s])
  BY <1>1, <1>3, <1>4, <1>5, CursorStays
<1>7. cursor \in [Session -> Cursor] BY DEF TypeOK
<1> QED BY <1>2, <1>6, <1>7 DEF SessionsOrdered

LEMMA RecordedFacts ==
  ASSUME TypeOK, NEW s \in Session, NEW n \in 0 .. MaxTurn,
         Ordered(batch[s], cursor[s], obs[s])
  PROVE  LET d == Recorded(s, n)
             c == cursor[s]
         IN  /\ d \in Cursor /\ d.detected = c.detected /\ d.active = c.active
             /\ d.observed = Larger(c.observed, n)
             /\ d.manual = IF c.manual = 0 THEN 0 ELSE d.observed
             /\ d.base.complete => d.base.at = d.base.after
<1> DEFINE c == cursor[s]
           start == WindowStart(s, c)
           seen == Larger(c.observed, n)
           m == IF c.manual = 0 THEN 0 ELSE seen
           b == IF c.base.after = start THEN c.base
                ELSE IF n > Len(obs[s]) THEN Unavailable(start) ELSE NoBase
           d == Recorded(s, n)
<1>1. c \in Cursor /\ d \in Cursor BY RecordedType DEF TypeOK
<1>2. d = [c EXCEPT !.observed = seen, !.manual = m, !.base = b]
  BY DEF Recorded
<1>3. b.complete => b.at = b.after
  BY <1>1, BaseOfCursor DEF Unavailable, NoBase
<1> HIDE DEF c, seen, b, d, m
<1>4. /\ d.detected = c.detected /\ d.active = c.active
      /\ d.observed = seen /\ d.manual = m /\ d.base = b
  BY <1>1, <1>2 DEF Cursor
<1> QED BY <1>1, <1>3, <1>4 DEF c, seen, d, m

LEMMA RecordObservationOrder ==
  ASSUME TypeOK, SessionsOrdered, NEW s \in Session, RecordObservation(s)
  PROVE SessionsOrdered'
<1> DEFINE n == cursor[s].observed + 1
           c == Recorded(s, n)
           old == cursor[s]
<1>0. old \in Cursor /\ Ordered(batch[s], old, obs[s]) /\ obs[s] \in Seq(Kinds)
  BY DEF TypeOK, SessionsOrdered
<1>1. n \in 0 .. MaxTurn /\ old.observed \in Nat /\ Len(obs[s]) \in Nat
  <2>1. n <= MaxTurn BY Zenon DEF RecordObservation
  <2>2. old.observed \in Nat BY <1>0, CursorFields
  <2> QED BY <1>0, <2>1, <2>2, IdType
<1>2. TypeOK' BY RecordObservationQuiet DEF Quiet
<1>3. PICK stored \in Seq(Kinds) :
        /\ obs' = [obs EXCEPT ![s] = stored]
        /\ Len(stored) <= MaxTurn /\ n <= Len(stored)
        /\ Ordered(batch[s], old, stored)
  <2>0. obs \in [Session -> Seq(Kinds)] BY DEF TypeOK
  <2>1. CASE n <= Len(obs[s])
    <3>1. obs' = [obs EXCEPT ![s] = obs[s]]
      BY <2>0, <2>1 DEF RecordObservation
    <3> QED BY <1>0, <2>1, <3>1 DEF TypeOK
  <2>2. CASE ~(n <= Len(obs[s]))
    <3>1. PICK kind \in Kinds : obs' = [obs EXCEPT ![s] = Append(@, kind)]
      BY <2>2, Zenon DEF RecordObservation
    <3> DEFINE stored == Append(obs[s], kind)
    <3>2. stored \in Seq(Kinds) /\ Len(stored) = Len(obs[s]) + 1 BY <1>0
    <3>3. obs' = [obs EXCEPT ![s] = stored] BY <3>1
    <3>4. Ordered(batch[s], old, stored) BY <1>0, TurnIsStored
    <3>5. old.observed <= Len(obs[s]) BY <1>0 DEF Ordered, CursorInRange
    <3>6. obs'[s] = stored BY <2>0, <3>3
    <3>7. Len(obs'[s]) <= MaxTurn BY <1>2 DEF TypeOK
    <3> HIDE DEF stored
    <3>8. n <= Len(stored) BY <1>1, <3>2, <3>5
    <3>9. Len(stored) <= MaxTurn BY <3>6, <3>7
    <3> HIDE DEF n, c, old
    <3> QED BY <3>2, <3>3, <3>4, <3>8, <3>9
  <2> QED BY <2>1, <2>2
<1>4. obs'[s] = stored BY <1>3 DEF TypeOK
<1>5. /\ c \in Cursor /\ c.detected = old.detected /\ c.active = old.active
      /\ c.observed = n /\ c.manual = IF old.manual = 0 THEN 0 ELSE n
      /\ c.base.complete => c.base.at = c.base.after
  <2>1. Larger(old.observed, n) = n BY <1>1 DEF Larger
  <2> HIDE DEF c, n, old
  <2> QED BY <1>0, <1>1, <2>1, RecordedFacts DEF c, old
<1> HIDE DEF c
<1>6. Ordered(batch[s], c, stored)
  <2>1. CursorInRange(batch[s], c, stored)
    BY <1>3, <1>5 DEF Ordered, CursorInRange
  <2>2. old.manual # 0 => c.manual # 0 BY <1>1, <1>5
  <2> QED BY <1>0, <1>3, <1>5, <2>1, <2>2, CursorStays
<1>7. PICK routed \in RouteOutcomes :
        LET f == Freeze(s, c, obs'[s], "observe", routed)
        IN  \/ /\ f.ok
               /\ batch' = [batch EXCEPT ![s] = f.rows]
               /\ cursor' = [cursor EXCEPT ![s] = f.cursor]
               /\ idle' = [idle EXCEPT ![s] = FALSE]
               /\ sched' = "requested"
               /\ UNCHANGED bounds
            \/ /\ f.ok
               /\ Fault
               /\ batch' \in {batch, [batch EXCEPT ![s] = f.rows]}
               /\ UNCHANGED <<cursor, idle, sched>>
            \/ /\ ~f.ok
               /\ UNCHANGED <<batch, cursor, idle, sched, bounds>>
  BY Zenon DEF RecordObservation, c
<1> DEFINE f == Freeze(s, c, stored, "observe", routed)
<1>8. Ordered(f.rows, f.cursor, stored) /\ Ordered(f.rows, old, stored)
  <2>1. routed \in BOOLEAN BY OutcomesAssumption
  <2>2. Behind(batch[s], old, c, "observe")
    BY <1>5, IdType DEF Behind, Frozen
  <2>3. "observe" # "manual" OBVIOUS
  <2> HIDE DEF old
  <2> QED BY <1>0, <1>3, <1>5, <1>6, <2>1, <2>2, <2>3, FreezeOrder
<1>9. \/ batch' = [batch EXCEPT ![s] = f.rows] /\ cursor' = [cursor EXCEPT ![s] = f.cursor]
      \/ batch' \in {batch, [batch EXCEPT ![s] = f.rows]} /\ cursor' = cursor
  <2> HIDE DEF f
  <2> QED BY <1>4, <1>7 DEF f
<1> HIDE DEF f
<1>10. /\ batch \in [Session -> [Id -> Row]] /\ cursor \in [Session -> Cursor]
       /\ obs \in [Session -> Seq(Kinds)]
  BY DEF TypeOK
<1>11. ASSUME NEW r \in Session, r # s PROVE Ordered(batch'[r], cursor'[r], obs'[r])
  <2>1. batch'[r] = batch[r] /\ cursor'[r] = cursor[r] /\ obs'[r] = obs[r]
    BY <1>3, <1>9, <1>10, <1>11
  <2> QED BY <2>1 DEF SessionsOrdered
<1>12. Ordered(batch'[s], cursor'[s], stored) BY <1>3, <1>8, <1>9, <1>10
<1> QED BY <1>4, <1>11, <1>12 DEF SessionsOrdered

----
(* A restart. *)

(* What the detector's recovery leaves to the coordinator: no claimed batch,
   and a watermark that no settled batch lies beyond. *)
DetectorDone(rows, c) ==
    \A id \in Id : /\ rows[id].state # "DETECTION_CLAIMED"
                   /\ Terminal(rows[id]) => id[2] <= c.detected
Recovered == phase = "bind" => \A s \in Session : DetectorDone(batch[s], cursor[s])

LEMMA CursorIsRebuilt ==
  ASSUME NEW rows \in [Id -> Row], NEW c \in Cursor, NEW stored \in Seq(Kinds),
         Ordered(rows, c, stored), DetectorDone(rows, c),
         NEW d \in Cursor, d.detected = c.detected,
         CursorInRange(rows, d, stored),
         \A f \in Frozen(rows) : f = d.active
  PROVE Ordered(rows, d, stored)
<1>1. \A k \in Calls(rows) : k[2] <= d.detected
  <2> SUFFICES ASSUME NEW k \in Calls(rows) PROVE k[2] <= c.detected OBVIOUS
  <2>1. k \in Id /\ rows[k].called > 0 /\ rows[k].state \in RowStates
    BY DEF Calls, Row
  <2>2. rows[k].state \notin {"ABSENT", "FROZEN"}
    BY <2>1 DEF Ordered, RowsFit, RowFits
  <2> QED BY <2>1, <2>2 DEF DetectorDone, RowStates, Terminal
<1>2. CallsApart(rows, d) BY <1>1 DEF Ordered, CallsApart
<1>3. ActiveIsLatest(rows, d)
  BY IdType DEF ActiveIsLatest, Frozen, NotAfter
<1>4. NeverShorter(rows, d, stored) BY IdType DEF NeverShorter, Frozen
<1> QED BY <1>2, <1>3, <1>4 DEF Ordered, RowsInRange, Covered

LEMMA IdIsFinite == IsFiniteSet(Id)
<1>1. IsFiniteSet(1 .. MaxTurn) BY FS_Interval, SizesAssumption
<1> QED BY <1>1, FS_Product DEF Id, Turn

LEMMA AtMostOne ==
  ASSUME NEW s \in Session, Cardinality(OpenIds(s)) <= 1,
         NEW a \in OpenIds(s), NEW b \in OpenIds(s)
  PROVE a = b
<1>1. IsFiniteSet(Id) BY IdIsFinite
<1>2. IsFiniteSet(OpenIds(s)) /\ Cardinality(OpenIds(s)) \in Nat
  BY <1>1, FS_Subset, FS_CardinalityType DEF OpenIds
<1>3. ASSUME a # b PROVE FALSE
  <2>1. IsFiniteSet({a, b}) /\ Cardinality({a, b}) = 2
    <3>1. IsFiniteSet({a}) /\ Cardinality({a}) = 1 BY FS_Singleton
    <3>2. Cardinality({a} \cup {b}) = 2 /\ IsFiniteSet({a} \cup {b})
      BY <1>3, <3>1, FS_AddElement
    <3>3. {a} \cup {b} = {a, b} OBVIOUS
    <3> QED BY <3>2, <3>3
  <2>2. {a, b} \subseteq OpenIds(s) OBVIOUS
  <2>3. Cardinality({a, b}) <= Cardinality(OpenIds(s))
    BY <1>2, <2>2, FS_Subset
  <2> QED BY <1>2, <2>1, <2>3
<1> QED BY <1>3

LEMMA RebuiltOrder ==
  ASSUME TypeOK, NEW s \in Session, Ordered(batch[s], cursor[s], obs[s]),
         DetectorDone(batch[s], cursor[s]), Cardinality(OpenIds(s)) <= 1
  PROVE  /\ Ordered(batch[s], Rebuilt(s), obs[s])
         /\ Rebuilt(s).detected = cursor[s].detected
         /\ \A f \in Frozen(batch[s]) : f = Rebuilt(s).active
<1> DEFINE c == cursor[s]
           ends == {id[2] : id \in TerminalIds(s)}
           last == IF ends = {} THEN 0 ELSE Last(ends)
           tail == CHOOSE id \in TerminalIds(s) : id[2] = last
           observed == Larger(c.observed, Len(obs[s]))
           manual == IF c.manual = 0 THEN 0 ELSE observed
           seen == [c EXCEPT !.observed = observed, !.manual = manual]
           detected == Larger(c.detected, last)
           carry == IF batch[s][tail].state \in {"COMMITTED_DEFER", "NEEDS_ATTENTION"}
                    THEN batch[s][tail].carry ELSE NoCarry
           moved == [Consume(seen, detected) EXCEPT !.active = NoId,
                        !.detected = detected, !.carry = carry]
           passed == IF ends = {} THEN seen ELSE moved
           open == CHOOSE id \in OpenIds(s) : TRUE
           bound == IF OpenIds(s) = {} THEN passed
                    ELSE [Consume(passed, open[2]) EXCEPT !.active = open]
           start == WindowStart(s, bound)
           Like(d) == /\ d \in Cursor
                      /\ d.detected = c.detected
                      /\ d.observed = Len(obs[s])
                      /\ d.manual \in {0, d.observed}
                      /\ d.base = c.base
<1>1. /\ c \in Cursor /\ obs[s] \in Seq(Kinds) /\ batch[s] \in [Id -> Row]
      /\ c.observed \in 0 .. MaxTurn
      /\ c.detected \in 0 .. MaxTurn
      /\ Len(obs[s]) \in 0 .. MaxTurn
      /\ c.observed <= Len(obs[s])
  <2>1. c \in Cursor /\ obs[s] \in Seq(Kinds) /\ batch[s] \in [Id -> Row]
    BY DEF TypeOK
  <2>2. Len(obs[s]) \in Nat /\ Len(obs[s]) <= MaxTurn BY DEF TypeOK
  <2>3. c.observed <= Len(obs[s]) BY DEF Ordered, CursorInRange
  <2> QED BY <2>1, <2>2, <2>3, SizesAssumption DEF Cursor
<1>2. observed = Len(obs[s]) /\ observed \in 0 .. MaxTurn
  BY <1>1 DEF Larger
<1>3. manual \in 0 .. MaxTurn /\ manual \in {0, observed}
  BY <1>2, SizesAssumption
<1>4. Like(seen) /\ seen.active = c.active
  <2> HIDE DEF observed, manual
  <2>1. seen \in Cursor BY <1>1, <1>2, <1>3, CursorWith
  <2>2. /\ seen.detected = c.detected /\ seen.observed = observed /\ seen.manual = manual
        /\ seen.base = c.base /\ seen.active = c.active
    BY <1>1 DEF Cursor
  <2> QED BY <1>2, <1>3, <2>1, <2>2
<1>5. ASSUME ends # {} PROVE Like(moved) /\ moved.active = NoId
  <2>1. ends \in SUBSET (0 .. MaxTurn)
    BY SizesAssumption DEF TerminalIds, Id, Turn
  <2>2. last \in ends
    <3> HIDE DEF ends
    <3> QED BY <2>1, <1>5, SizesAssumption, LastInSet
  <2>3. last <= c.detected /\ last \in 0 .. MaxTurn
    <3>1. \A e \in ends : e <= c.detected
      BY DEF DetectorDone, TerminalIds
    <3> HIDE DEF ends, last
    <3> QED BY <2>1, <2>2, <3>1
  <2>4. detected = c.detected
    <3> HIDE DEF last
    <3> QED BY <1>1, <2>3 DEF Larger
  <2>5. carry \in Carry
    <3>1. tail \in TerminalIds(s)
      <4> HIDE DEF last
      <4> QED BY <2>2
    <3>2. batch[s][tail] \in Row BY <3>1 DEF TypeOK, TerminalIds
    <3> HIDE DEF tail
    <3>3. batch[s][tail].carry \in Carry BY <3>2 DEF Row
    <3> QED BY <3>3, SizesAssumption DEF Carry, NoCarry
  <2> HIDE DEF detected, carry, seen
  <2> DEFINE d == Consume(seen, detected)
  <2>6. /\ d \in Cursor /\ d.observed = seen.observed /\ d.base = seen.base
        /\ d.manual \in {0, seen.manual}
    <3>1. detected \in Nat BY <1>1, <2>4, CursorFields
    <3> QED BY <1>4, <3>1, ConsumeFacts
  <2>7. moved = [d EXCEPT !.active = NoId, !.detected = detected, !.carry = carry] OBVIOUS
  <2> HIDE DEF d
  <2>8. moved \in Cursor BY <1>1, <2>4, <2>5, <2>6, <2>7, CursorWith
  <2>9. /\ moved.detected = detected /\ moved.observed = d.observed
        /\ moved.manual = d.manual /\ moved.base = d.base /\ moved.active = NoId
    BY <2>6, <2>7 DEF Cursor
  <2> HIDE DEF moved
  <2> QED BY <1>4, <2>4, <2>6, <2>8, <2>9
<1>6. Like(passed) /\ passed.active \in {c.active, NoId}
  <2> HIDE DEF ends, seen, moved, c
  <2> QED BY <1>4, <1>5
<1>7. Like(bound) /\ bound.active \in {c.active, NoId} \cup OpenIds(s)
      /\ \A k \in OpenIds(s) : k = bound.active
  <2> HIDE DEF passed
  <2>1. CASE OpenIds(s) = {} BY <1>6, <2>1
  <2>2. CASE OpenIds(s) # {}
    <3>1. open \in OpenIds(s) BY <2>2
    <3>2. open \in Id BY <3>1 DEF OpenIds
    <3>3. \A k \in OpenIds(s) : k = open BY <3>1, AtMostOne
    <3> HIDE DEF open
    <3> DEFINE d == Consume(passed, open[2])
    <3>4. /\ d \in Cursor /\ d.detected = passed.detected /\ d.observed = passed.observed
          /\ d.base = passed.base /\ d.manual \in {0, passed.manual}
      BY <1>6, <3>2, IdType, ConsumeFacts
    <3>5. bound = [d EXCEPT !.active = open] BY <2>2
    <3> HIDE DEF d, bound
    <3>6. bound \in Cursor BY <3>2, <3>4, <3>5, CursorWith
    <3>7. /\ bound.detected = d.detected /\ bound.observed = d.observed
          /\ bound.manual = d.manual /\ bound.base = d.base /\ bound.active = open
      BY <3>4, <3>5 DEF Cursor
    <3> QED BY <1>6, <3>1, <3>3, <3>4, <3>6, <3>7
  <2> QED BY <2>1, <2>2
<1>8. Rebuilt(s) = IF bound.base.after = start THEN bound
                   ELSE IF bound.observed > start
                   THEN [bound EXCEPT !.base = Unavailable(start)]
                   ELSE [bound EXCEPT !.base = NoBase]
  BY Zenon DEF Rebuilt
<1> HIDE DEF bound, start
<1>9. /\ Rebuilt(s).detected = c.detected
      /\ Rebuilt(s).observed = Len(obs[s])
      /\ Rebuilt(s).manual \in {0, Rebuilt(s).observed}
      /\ Rebuilt(s).active = bound.active
      /\ Rebuilt(s).base \in {c.base, Unavailable(start), NoBase}
  <2>1. \A b : /\ [bound EXCEPT !.base = b].detected = bound.detected
               /\ [bound EXCEPT !.base = b].observed = bound.observed
               /\ [bound EXCEPT !.base = b].manual = bound.manual
               /\ [bound EXCEPT !.base = b].active = bound.active
               /\ [bound EXCEPT !.base = b].base = b
    BY <1>7 DEF Cursor
  <2> QED BY <1>7, <1>8, <2>1
<1>10. Rebuilt(s) \in Cursor BY RebuiltType
<1>11. CursorInRange(batch[s], Rebuilt(s), obs[s])
  <2>1. c.active # NoId => batch[s][c.active].state # "ABSENT"
    BY DEF Ordered, CursorInRange
  <2>2. \A k \in OpenIds(s) : batch[s][k].state # "ABSENT"
    BY DEF OpenIds, Open
  <2>3. Rebuilt(s).base.complete => Rebuilt(s).base.at = Rebuilt(s).base.after
    <3>1. c.base.complete => c.base.at = c.base.after
      BY DEF Ordered, CursorInRange
    <3>2. ~Unavailable(start).complete /\ ~NoBase.complete
      BY DEF Unavailable, NoBase
    <3> QED BY <1>9, <3>1, <3>2
  <2>4. Rebuilt(s).active # NoId => batch[s][Rebuilt(s).active].state # "ABSENT"
    <3> HIDE DEF c
    <3> QED BY <1>7, <1>9, <2>1, <2>2
  <2> HIDE DEF c
  <2> QED BY <1>1, <1>9, <2>3, <2>4 DEF CursorInRange
<1>12. \A f \in Frozen(batch[s]) : f = Rebuilt(s).active
  <2>1. Frozen(batch[s]) \subseteq OpenIds(s)
    BY DEF Frozen, OpenIds, Open
  <2> QED BY <1>7, <1>9, <2>1
<1>13. Ordered(batch[s], Rebuilt(s), obs[s])
  BY <1>1, <1>9, <1>10, <1>11, <1>12, CursorIsRebuilt
<1> QED BY <1>9, <1>12, <1>13

LEMMA RecoverCursorsOrder ==
  ASSUME TypeOK, SessionsOrdered, Recovered, RecoverCursors
  PROVE SessionsOrdered'
<1> DEFINE c == [s \in Session |-> Rebuilt(s)]
           S == {s \in Session : c[s].active = NoId}
<1>1. UNCHANGED obs /\ phase = "bind" BY DEF RecoverCursors
<1>2. \/ ~Contradictory /\ FlushCommits(S, c, IdleMode(idle'))
      \/ ~Contradictory /\ FlushThrows(S, c, IdleMode(idle'))
      \/ UNCHANGED <<batch, cursor>>
  BY Zenon DEF RecoverCursors
<1>3. c \in [Session -> Cursor] BY RebuiltType
<1>4. ASSUME ~Contradictory PROVE Flushable(S, c, IdleMode(idle'))
  <2> SUFFICES ASSUME NEW s \in Session
               PROVE  /\ Ordered(batch[s], c[s], obs[s])
                      /\ Behind(batch[s], cursor[s], c[s], IdleMode(idle')[s])
                      /\ IdleMode(idle')[s] # "manual"
    BY Zenon DEF Flushable
  <2>1. Cardinality(OpenIds(s)) <= 1
    <3>1. ~(Cardinality(OpenIds(s)) > 1) BY <1>4 DEF Contradictory
    <3>2. IsFiniteSet(Id) BY IdIsFinite
    <3>3. Cardinality(OpenIds(s)) \in Nat
      BY <3>2, FS_Subset, FS_CardinalityType DEF OpenIds
    <3> QED BY <3>1, <3>3
  <2>2. Ordered(batch[s], cursor[s], obs[s]) /\ DetectorDone(batch[s], cursor[s])
    BY <1>1 DEF SessionsOrdered, Recovered
  <2>3. /\ Ordered(batch[s], c[s], obs[s]) /\ c[s].detected = cursor[s].detected
        /\ \A f \in Frozen(batch[s]) : f = c[s].active
    BY <2>1, <2>2, RebuiltOrder
  <2>4. IdleMode(idle')[s] # "manual" BY DEF IdleMode
  <2> HIDE DEF c
  <2> QED BY <2>3, <2>4, IdType DEF Behind, Frozen
<1>5. CASE UNCHANGED <<batch, cursor>> BY <1>1, <1>5 DEF SessionsOrdered
<1> HIDE DEF S, c
<1> QED BY <1>1, <1>2, <1>3, <1>4, <1>5, FlushCommitsOrder, FlushThrowsOrder, Zenon

----
(* The steps of the worker. *)

OpenStates == {"FROZEN", "DETECTION_CLAIMED"}

(* An open batch moves on; only the active one that is the oldest frozen batch
   gets a call. *)
LEMMA RowMoves ==
  ASSUME NEW rows \in [Id -> Row], NEW c \in Cursor, NEW stored \in Seq(Kinds),
         Ordered(rows, c, stored),
         NEW id \in Id, NEW row \in Row,
         rows[id].state \in OpenStates,
         row.state \in {"DETECTION_CLAIMED"} \cup TerminalStates,
         RowFits(id, row),
         \/ row.called = rows[id].called
         \/ /\ c.active = id /\ rows[id].state = "FROZEN"
            /\ \A f \in Frozen(rows) : NotAfter(id, f)
  PROVE Ordered([rows EXCEPT ![id] = row], c, stored)
<1> DEFINE new == [rows EXCEPT ![id] = row]
<1>1. new \in [Id -> Row] /\ new[id] = row /\ \A k \in Id : k # id => new[k] = rows[k]
  OBVIOUS
<1> HIDE DEF new
<1>2. /\ rows[id].state # "ABSENT" /\ ~Terminal(rows[id])
      /\ row.state \notin {"ABSENT", "FROZEN"}
  BY DEF OpenStates, Terminal, TerminalStates
<1>3. Frozen(new) \subseteq Frozen(rows) \ {id} BY <1>1, <1>2 DEF Frozen
<1>4. RowsInRange(new, c, stored) BY <1>1, <1>2 DEF Ordered, RowsInRange
<1>5. CursorInRange(new, c, stored)
  <2>1. c.active # NoId => new[c.active].state # "ABSENT"
    BY <1>1, <1>2, CursorFields DEF Ordered, CursorInRange
  <2> QED BY <2>1 DEF Ordered, CursorInRange
<1>6. CallsApart(new, c)
  <2>1. CASE row.called = rows[id].called
    <3>1. Calls(new) = Calls(rows) BY <1>1, <2>1 DEF Calls
    <3> QED BY <1>3, <3>1 DEF Ordered, CallsApart
  <2>2. CASE /\ c.active = id /\ rows[id].state = "FROZEN"
             /\ \A f \in Frozen(rows) : NotAfter(id, f)
    <3>1. id \in Frozen(rows) BY <2>2 DEF Frozen
    <3>2. \A f \in Frozen(rows) : f = id
      <4> SUFFICES ASSUME NEW f \in Frozen(rows) PROVE f = id OBVIOUS
      <4>1. NotAfter(f, id) /\ NotAfter(id, f)
        BY <2>2, <3>1 DEF Ordered, ActiveIsLatest
      <4>2. f \in Nat \X Nat /\ id \in Nat \X Nat BY IdType DEF Frozen
      <4> QED BY <4>1, <4>2 DEF NotAfter
    <3>3. Frozen(new) = {} BY <1>3, <3>2
    <3>4. Calls(new) \subseteq Calls(rows) \cup {id} BY <1>1 DEF Calls
    <3>5. \A k \in Calls(rows) : k[2] < id[1] /\ k \in Id
      BY <3>1 DEF Ordered, CallsApart, Calls
    <3>6. \A j, k \in Calls(new) : j # k => ~Overlap(j, k)
      <4> SUFFICES ASSUME NEW j \in Calls(new), NEW k \in Calls(new), j # k
                   PROVE ~Overlap(j, k) OBVIOUS
      <4>0. j[1] \in Nat /\ j[2] \in Nat /\ k[1] \in Nat /\ k[2] \in Nat
        BY IdType DEF Calls
      <4>1. CASE j = id BY <3>4, <3>5, <4>0, <4>1 DEF Overlap
      <4>2. CASE k = id BY <3>4, <3>5, <4>0, <4>2 DEF Overlap
      <4>3. CASE j # id /\ k # id BY <3>4, <4>3 DEF Ordered, CallsApart
      <4> QED BY <4>1, <4>2, <4>3
    <3> QED BY <2>2, <3>3, <3>4, <3>6 DEF Ordered, CallsApart
  <2> QED BY <2>1, <2>2
<1>7. ActiveIsLatest(new, c) BY <1>3 DEF Ordered, ActiveIsLatest
<1>8. NeverShorter(new, c, stored) BY <1>3 DEF Ordered, NeverShorter
<1>9. Covered(new, c)
  <2>1. \A k \in Id : Terminal(rows[k]) => Terminal(new[k])
    BY <1>1, <1>2
  <2> QED BY <2>1 DEF Ordered, Covered
<1>10. RowsFit(new) BY <1>1, <1>2 DEF Ordered, RowsFit
<1> QED BY <1>4, <1>5, <1>6, <1>7, <1>8, <1>9, <1>10 DEF Ordered, new

(* One row of one session moves on, and nothing else of the sessions changes. *)
LEMMA RowMovesOrder ==
  ASSUME TypeOK, SessionsOrdered, NEW s \in Session, NEW id \in Id, NEW row \in Row,
         batch[s][id].state \in OpenStates,
         row.state \in {"DETECTION_CLAIMED"} \cup TerminalStates,
         RowFits(id, row),
         \/ row.called = batch[s][id].called
         \/ /\ cursor[s].active = id /\ batch[s][id].state = "FROZEN"
            /\ \A f \in Frozen(batch[s]) : NotAfter(id, f),
         batch' = [batch EXCEPT ![s][id] = row],
         UNCHANGED <<cursor, obs>>
  PROVE SessionsOrdered'
<1>1. /\ batch[s] \in [Id -> Row] /\ cursor[s] \in Cursor /\ obs[s] \in Seq(Kinds)
      /\ batch \in [Session -> [Id -> Row]]
  BY DEF TypeOK
<1>2. Ordered([batch[s] EXCEPT ![id] = row], cursor[s], obs[s])
  BY <1>1, RowMoves DEF SessionsOrdered
<1>3. batch' = [batch EXCEPT ![s] = [batch[s] EXCEPT ![id] = row]]
  BY <1>1
<1> QED BY <1>1, <1>2, <1>3 DEF SessionsOrdered

LEMMA RowFitsOf ==
  ASSUME SessionsOrdered, NEW s \in Session, NEW id \in Id, batch[s][id].state # "ABSENT"
  PROVE RowFits(id, batch[s][id])
  BY DEF SessionsOrdered, Ordered, RowsFit

LEMMA ClaimNextOrder ==
  ASSUME TypeOK, SessionsOrdered, NEW s \in Session, NEW id \in Id, ClaimNext(s, id)
  PROVE SessionsOrdered'
<1> DEFINE old == batch[s][id]
           carry == cursor[s].carry
           put(state, called) == [old EXCEPT !.carry = carry, !.state = state,
                                             !.called = old.called + called]
<1>1. Oldest(s, id) /\ UNCHANGED <<cursor, obs>> BY Zenon DEF ClaimNext
<1>2. \/ /\ cursor[s].active = id
         /\ batch' = [batch EXCEPT ![s][id] =
               [[old EXCEPT !.carry = carry] EXCEPT !.state = "DETECTION_CLAIMED",
                                                    !.called = @ + 1]]
      \/ /\ cursor[s].active = id
         /\ batch' = [batch EXCEPT ![s][id] =
               [[old EXCEPT !.carry = carry] EXCEPT !.state = "NEEDS_ATTENTION",
                                                    !.called = @ + 0]]
      \/ UNCHANGED batch
  BY Zenon DEF ClaimNext, PutRow
<1>3. old \in Row /\ carry \in Carry /\ old.state = "FROZEN"
  BY <1>1 DEF Oldest, TypeOK, Cursor
<1>4. RowFits(id, old) /\ old.called = 0 BY <1>3, RowFitsOf DEF RowFits
<1>5. \A f \in Frozen(batch[s]) : NotAfter(id, f)
  BY <1>1 DEF Oldest, Frozen, NotAfter
<1>6. {"DETECTION_CLAIMED", "NEEDS_ATTENTION"} \subseteq RowStates \cap
         ({"DETECTION_CLAIMED"} \cup TerminalStates)
  BY DEF RowStates, TerminalStates
<1>7. \A state \in {"DETECTION_CLAIMED", "NEEDS_ATTENTION"}, called \in {0, 1} :
        /\ [[old EXCEPT !.carry = carry] EXCEPT !.state = state, !.called = @ + called]
              = put(state, called)
        /\ put(state, called) \in Row /\ put(state, called).state = state
        /\ put(state, called).called = called
        /\ put(state, called).intents = old.intents
        /\ put(state, called).reasons = old.reasons
        /\ put(state, called).unrouted = old.unrouted
        /\ put(state, called).base = old.base
        /\ put(state, called).carry = carry
  <2> SUFFICES ASSUME NEW state \in {"DETECTION_CLAIMED", "NEEDS_ATTENTION"},
                      NEW called \in {0, 1}
               PROVE  /\ [[old EXCEPT !.carry = carry] EXCEPT !.state = state, !.called = @ + called]
                            = put(state, called)
                      /\ put(state, called) \in Row /\ put(state, called).state = state
                      /\ put(state, called).called = called
                      /\ put(state, called).intents = old.intents
                      /\ put(state, called).reasons = old.reasons
                      /\ put(state, called).unrouted = old.unrouted
                      /\ put(state, called).base = old.base
                      /\ put(state, called).carry = carry
    BY Zenon
  <2> DEFINE taken == [old EXCEPT !.carry = carry]
  <2> HIDE DEF carry, old
  <2>1. taken \in Row /\ taken.called = old.called /\ taken.carry = carry
        /\ taken.intents = old.intents /\ taken.reasons = old.reasons
        /\ taken.unrouted = old.unrouted /\ taken.base = old.base
    BY <1>3 DEF Row
  <2>2. put(state, called) = [taken EXCEPT !.state = state, !.called = taken.called + called]
    BY <1>3, <2>1 DEF Row
  <2>3. [taken EXCEPT !.state = state, !.called = @ + called]
          = [taken EXCEPT !.state = state, !.called = taken.called + called] OBVIOUS
  <2>4. taken.called + called = called /\ called \in Nat /\ state \in RowStates
    BY <1>4, <1>6, <2>1
  <2>5. [taken EXCEPT !.state = state, !.called = @ + called] = put(state, called)
    BY <2>2, <2>3
  <2> HIDE DEF taken, put
  <2>6. put(state, called) = [taken EXCEPT !.state = state, !.called = called]
    BY <2>2, <2>4
  <2>7. /\ put(state, called) \in Row /\ put(state, called).state = state
        /\ put(state, called).called = called
        /\ put(state, called).intents = taken.intents
        /\ put(state, called).reasons = taken.reasons
        /\ put(state, called).unrouted = taken.unrouted
        /\ put(state, called).base = taken.base
        /\ put(state, called).carry = taken.carry
    BY <2>1, <2>4, <2>6 DEF Row
  <2> QED BY <2>1, <2>5, <2>7 DEF taken
<1> HIDE DEF put
<1>8. ~old.unrouted /\ ~(old.intents > 0)
  <2> HIDE DEF old
  <2> QED BY <1>3, <1>4 DEF RowFits
<1>9. CASE /\ cursor[s].active = id
           /\ batch' = [batch EXCEPT ![s][id] =
                 [[old EXCEPT !.carry = carry] EXCEPT !.state = "DETECTION_CLAIMED",
                                                      !.called = @ + 1]]
  <2> DEFINE row == put("DETECTION_CLAIMED", 1)
  <2>1. /\ row \in Row /\ row.state = "DETECTION_CLAIMED" /\ row.called = 1
        /\ row.intents = old.intents /\ row.reasons = old.reasons
        /\ row.unrouted = old.unrouted /\ row.base = old.base
        /\ batch' = [batch EXCEPT ![s][id] = row]
    BY <1>7, <1>9
  <2> HIDE DEF row, old
  <2>2. RowFits(id, row) BY <1>4, <1>8, <2>1 DEF RowFits
  <2> QED BY <1>1, <1>3, <1>5, <1>9, <2>1, <2>2, RowMovesOrder DEF OpenStates, old
<1>10. CASE /\ cursor[s].active = id
            /\ batch' = [batch EXCEPT ![s][id] =
                  [[old EXCEPT !.carry = carry] EXCEPT !.state = "NEEDS_ATTENTION",
                                                       !.called = @ + 0]]
  <2> DEFINE row == put("NEEDS_ATTENTION", 0)
  <2>1. /\ row \in Row /\ row.state = "NEEDS_ATTENTION" /\ row.called = 0
        /\ row.intents = old.intents /\ row.reasons = old.reasons
        /\ row.unrouted = old.unrouted /\ row.base = old.base
        /\ batch' = [batch EXCEPT ![s][id] = row]
    BY <1>7, <1>10
  <2> HIDE DEF row, old
  <2>2. RowFits(id, row) BY <1>4, <1>8, <2>1 DEF RowFits
  <2> QED BY <1>1, <1>3, <1>4, <1>6, <2>1, <2>2, RowMovesOrder DEF OpenStates, old
<1>11. CASE UNCHANGED batch BY <1>1, <1>11 DEF SessionsOrdered
<1> QED BY <1>2, <1>9, <1>10, <1>11

(* The terminal row of a claimed batch. *)
LEMMA FinishOrder ==
  ASSUME IInv, SessionsOrdered, det.pc \in {"called", "stage", "fail"},
         NEW state \in TerminalStates, NEW carry \in Carry, NEW pc,
         Finish(state, carry, pc),
         state = "COMMITTED_READY" => det.n >= 1,
         state = "COMMITTED_DEFER" => carry # NoCarry,
         carry # NoCarry => state \in {"COMMITTED_DEFER", "NEEDS_ATTENTION"},
         UNCHANGED <<cursor, obs>>
  PROVE SessionsOrdered'
<1> DEFINE s == det.s
           id == det.id
           old == batch[s][id]
           n == IF state = "COMMITTED_READY" THEN det.n ELSE 0
           row == [old EXCEPT !.state = state, !.carry = carry, !.intents = n]
<1>1. s \in Session /\ id \in Id /\ old.state = "DETECTION_CLAIMED"
  BY WorkerFacts DEF Holds
<1>2. old \in Row /\ RowFits(id, old) BY <1>1, BatchFacts, RowFitsOf
<1>3. n \in 0 .. MaxIntents /\ (state = "COMMITTED_READY" <=> n > 0)
  <2>1. det.n \in 0 .. MaxIntents BY DEF IInv, TypeOK
  <2> QED BY <2>1, SizesAssumption
<1>4. batch' = [batch EXCEPT ![s][id] = row]
  BY Zenon DEF Finish, PutRow, Worked
<1>5. state \in RowStates BY DEF RowStates
<1> HIDE DEF n, old
<1>6. /\ row \in Row /\ row.state = state /\ row.carry = carry /\ row.intents = n
      /\ row.called = old.called /\ row.reasons = old.reasons /\ row.base = old.base
      /\ row.unrouted = old.unrouted
  BY <1>2, <1>3, <1>5 DEF Row
<1> HIDE DEF row
<1>7. old.called = 1 /\ ~old.unrouted BY <1>1, <1>2 DEF RowFits
<1>8. RowFits(id, row)
  BY <1>2, <1>3, <1>6, <1>7 DEF RowFits, TerminalStates
<1>9. old.state \in OpenStates BY <1>1 DEF OpenStates
<1> QED BY <1>1, <1>4, <1>6, <1>8, <1>9, RowMovesOrder DEF old, IInv

Counts == det.pc = "stage" => det.n >= 1

LEMMA CallReturnsOrder ==
  ASSUME IInv, SessionsOrdered, CallReturns
  PROVE SessionsOrdered'
<1>1. det.pc = "called" /\ UNCHANGED <<cursor, obs>>
  BY Zenon DEF CallReturns, At
<1>2. \/ Finish("NEEDS_ATTENTION", Worked.carry, "discard")
      \/ Finish("COMMITTED_NONE", NoCarry, "advance")
      \/ Finish("COMMITTED_DEFER", CarryLife, "advance")
      \/ Worked.carry > 0 /\ Finish("COMMITTED_DEFER", Worked.carry - 1, "advance")
      \/ UNCHANGED batch
  BY Zenon DEF CallReturns
<1>3. Worked.carry \in Carry
  <2>1. det.s \in Session /\ det.id \in Id BY <1>1, WorkerFacts
  <2> QED BY <2>1, BatchFacts DEF Worked, Row
<1>4. Worked.carry > 0 => Worked.carry - 1 \in Carry /\ Worked.carry - 1 # NoCarry
  BY <1>3, SizesAssumption DEF Carry, NoCarry
<1>5. {"NEEDS_ATTENTION", "COMMITTED_NONE", "COMMITTED_DEFER"} \subseteq TerminalStates
  BY DEF TerminalStates
<1>6. CarryLife # NoCarry BY SizesAssumption DEF NoCarry
<1>7. CASE Finish("NEEDS_ATTENTION", Worked.carry, "discard")
  BY <1>1, <1>3, <1>5, <1>7, FinishOrder
<1>8. CASE Finish("COMMITTED_NONE", NoCarry, "advance")
  BY <1>1, <1>5, <1>8, CarryType, FinishOrder
<1>9. CASE Finish("COMMITTED_DEFER", CarryLife, "advance")
  BY <1>1, <1>5, <1>6, <1>9, CarryType, FinishOrder
<1>10. CASE Worked.carry > 0 /\ Finish("COMMITTED_DEFER", Worked.carry - 1, "advance")
  BY <1>1, <1>4, <1>5, <1>10, FinishOrder
<1>11. CASE UNCHANGED batch BY <1>1, <1>11 DEF SessionsOrdered
<1> QED BY <1>2, <1>7, <1>8, <1>9, <1>10, <1>11

LEMMA CommitReadyOrder ==
  ASSUME IInv, SessionsOrdered, Counts, CommitReady
  PROVE SessionsOrdered'
<1>1. /\ det.pc = "stage" /\ Finish("COMMITTED_READY", NoCarry, "release")
      /\ UNCHANGED <<cursor, obs>>
  BY Zenon DEF CommitReady, At
<1>2. det.n >= 1 BY <1>1 DEF Counts
<1>3. "COMMITTED_READY" \in TerminalStates BY DEF TerminalStates
<1> QED BY <1>1, <1>2, <1>3, CarryType, FinishOrder

LEMMA CommitAttentionOrder ==
  ASSUME IInv, SessionsOrdered, CommitAttention
  PROVE SessionsOrdered'
<1>1. /\ det.pc = "fail" /\ Finish("NEEDS_ATTENTION", Worked.carry, "discard")
      /\ UNCHANGED <<cursor, obs>>
  BY Zenon DEF CommitAttention, At
<1>2. Worked.carry \in Carry
  <2>1. det.s \in Session /\ det.id \in Id BY <1>1, WorkerFacts
  <2> QED BY <2>1, BatchFacts DEF Worked, Row
<1>3. "NEEDS_ATTENTION" \in TerminalStates BY DEF TerminalStates
<1> QED BY <1>1, <1>2, <1>3, FinishOrder

LEMMA RecoverBatchOrder ==
  ASSUME TypeOK, SessionsOrdered, RecoverBatch
  PROVE SessionsOrdered'
<1>1. UNCHANGED <<cursor, obs>> BY Zenon DEF RecoverBatch
<1>2. PICK b \in Unrecovered : PutRow(b[1], b[2], Abandoned(batch[b[1]][b[2]]))
  BY Zenon DEF RecoverBatch
<1> DEFINE s == b[1]
           id == b[2]
           old == batch[s][id]
           row == [old EXCEPT !.state = "NEEDS_ATTENTION"]
<1>3. s \in Session /\ id \in Id BY DEF Unrecovered
<1>4. batch' = [batch EXCEPT ![s][id] = Abandoned(old)]
  BY <1>2, Zenon DEF PutRow
<1>5. CASE old.state = "DETECTION_CLAIMED"
  <2>1. batch' = [batch EXCEPT ![s][id] = row]
    BY <1>4, <1>5, Zenon DEF Abandoned
  <2>2. old \in Row /\ RowFits(id, old) /\ "NEEDS_ATTENTION" \in RowStates
    BY <1>3, <1>5, RowFitsOf DEF TypeOK, RowStates, TerminalStates
  <2> HIDE DEF old
  <2>3. /\ row \in Row /\ row.state = "NEEDS_ATTENTION" /\ row.carry = old.carry
        /\ row.called = old.called /\ row.reasons = old.reasons /\ row.base = old.base
        /\ row.unrouted = old.unrouted /\ row.intents = old.intents
    BY <2>2 DEF Row
  <2> HIDE DEF row, s, id
  <2>4. RowFits(id, row) BY <1>5, <2>2, <2>3 DEF RowFits
  <2>5. row.state \in TerminalStates /\ old.state \in OpenStates
    BY <1>5, <2>3 DEF TerminalStates, OpenStates
  <2> QED BY <1>1, <1>3, <2>1, <2>3, <2>4, <2>5, RowMovesOrder DEF old
<1>6. CASE old.state # "DETECTION_CLAIMED"
  <2>1. batch' = batch BY <1>3, <1>4, <1>6 DEF Abandoned, TypeOK
  <2> QED BY <1>1, <2>1 DEF SessionsOrdered
<1> QED BY <1>5, <1>6

LEMMA AdvanceCursorOrder ==
  ASSUME IInv, SessionsOrdered, AdvanceCursor
  PROVE SessionsOrdered'
<1> DEFINE s == det.s
           id == det.id
           c == cursor[s]
           row == batch[s][id]
<1>1. det.pc \in {"advance", "readvance"} /\ UNCHANGED <<obs, batch>>
  BY Zenon DEF AdvanceCursor, At
<1>2. \/ UNCHANGED cursor
      \/ /\ ~(id[2] <= c.detected) /\ c.active \in {NoId, id}
         /\ cursor' = [cursor EXCEPT ![s] = Advanced(c, id, row)]
  BY Zenon DEF AdvanceCursor, Worked
<1>3. s \in Session /\ id \in Id /\ Holds(det, row) BY <1>1, WorkerFacts
<1>4. /\ row \in Row /\ Terminal(row) /\ c \in Cursor
      /\ batch[s] \in [Id -> Row] /\ obs[s] \in Seq(Kinds)
      /\ cursor \in [Session -> Cursor]
  BY <1>1, <1>3, BatchFacts DEF Holds, IInv, TypeOK
<1>5. CASE UNCHANGED cursor BY <1>1, <1>5 DEF SessionsOrdered
<1>6. CASE /\ ~(id[2] <= c.detected) /\ c.active \in {NoId, id}
           /\ cursor' = [cursor EXCEPT ![s] = Advanced(c, id, row)]
  <2> DEFINE carry == CASE row.state = "COMMITTED_DEFER" -> row.carry
                        [] row.state \in {"COMMITTED_NONE", "COMMITTED_READY"} -> NoCarry
                        [] OTHER -> c.carry
             d == [c EXCEPT !.active = NoId, !.detected = id[2], !.carry = carry]
  <2>1. carry \in Carry
    <3>1. row.carry \in Carry /\ c.carry \in Carry /\ NoCarry \in Carry
      BY <1>4, CarryType DEF Row, Cursor
    <3> HIDE DEF row, c
    <3> QED BY <3>1
  <2>2. Advanced(c, id, row) = d BY Zenon DEF Advanced
  <2>3. id[2] > c.detected /\ id[2] \in 0 .. MaxTurn
    BY <1>3, <1>4, <1>6, IdType, CursorFields
  <2>4. /\ Ordered(batch[s], c, obs[s])
        /\ c.manual \in {0, c.observed} /\ (c.base.complete => c.base.at = c.base.after)
    BY <1>3 DEF SessionsOrdered, Ordered, CursorInRange
  <2> HIDE DEF carry, c
  <2>5. d \in Cursor BY <1>4, <2>1, <2>3, CursorWith
  <2>6. /\ d.detected = id[2] /\ d.active = NoId /\ d.observed = c.observed
        /\ d.manual = c.manual /\ d.base = c.base
    BY <1>4 DEF Cursor
  <2> HIDE DEF d
  <2>7. Ordered(batch[s], d, obs[s])
    BY <1>3, <1>4, <1>6, <2>3, <2>4, <2>5, <2>6, WatermarkPasses
  <2>8. cursor' = [cursor EXCEPT ![s] = d] BY <1>6, <2>2
  <2> QED BY <1>1, <1>3, <1>4, <2>7, <2>8 DEF SessionsOrdered
<1> QED BY <1>2, <1>5, <1>6

----
(* The inductive invariant, step by step. *)

OrderInv == SessionsOrdered /\ Recovered /\ Counts

LEMMA SameSessions ==
  ASSUME SessionsOrdered, UNCHANGED <<batch, cursor, obs>>
  PROVE SessionsOrdered'
  BY DEF SessionsOrdered

LEMMA InitialOrder == Init => OrderInv
<1> SUFFICES ASSUME Init PROVE OrderInv OBVIOUS
<1>1. phase = "down" /\ det.pc = "off" BY DEF Init, NoDet
<1>2. ASSUME NEW s \in Session PROVE Ordered(batch[s], cursor[s], obs[s])
  <2>1. \A id \in Id : batch[s][id].state = "ABSENT" /\ batch[s][id].called = 0
    BY DEF Init, AbsentRow
  <2>2. /\ cursor[s].observed = 0 /\ cursor[s].detected = 0 /\ cursor[s].manual = 0
        /\ cursor[s].active = NoId /\ ~cursor[s].base.complete
    BY DEF Init, NewCursor, NoBase
  <2>3. Len(obs[s]) = 0 BY DEF Init
  <2>4. Frozen(batch[s]) = {} /\ Calls(batch[s]) = {}
    BY <2>1 DEF Frozen, Calls
  <2> QED BY <2>1, <2>2, <2>3, <2>4
       DEF Ordered, RowsInRange, CursorInRange, CallsApart, ActiveIsLatest, NeverShorter,
           Covered, RowsFit
<1> QED BY <1>1, <1>2 DEF OrderInv, SessionsOrdered, Recovered, Counts

LEMMA HostingOrder ==
  ASSUME IInv, SessionsOrdered, Hosting
  PROVE SessionsOrdered'
<1>1. TypeOK BY DEF IInv
<1>2. CASE AgentDisposed \/ \E s \in Session : IdleElapses(s)
  <2>1. UNCHANGED <<batch, cursor, obs>>
    BY <1>2 DEF AgentDisposed, IdleElapses, durable
  <2> QED BY <2>1, SameSessions
<1> QED BY <1>1, <1>2, PrepareSessionWindowOrder, RecordObservationOrder,
           RequestSynthesisOrder DEF Hosting

LEMMA SchedulingOrder ==
  ASSUME IInv, SessionsOrdered, Scheduling
  PROVE SessionsOrdered'
<1>1. TypeOK BY DEF IInv
<1>2. CASE ObserveFlush
  BY <1>1, <1>2, FlushRequestedOrder, Zenon DEF ObserveFlush
<1>3. CASE WakeRequested
  BY <1>1, <1>3, FlushRequestedOrder, Zenon DEF WakeRequested
<1>4. CASE TimerFires
  <2>1. UNCHANGED <<batch, cursor, obs>> BY <1>4 DEF TimerFires, durable
  <2> QED BY <2>1, SameSessions
<1>5. CASE FlushIdle BY <1>1, <1>5, FlushIdleOrder
<1> QED BY <1>2, <1>3, <1>4, <1>5 DEF Scheduling

LEMMA DetectionOrder ==
  ASSUME IInv, SessionsOrdered, Counts, Detection
  PROVE SessionsOrdered'
<1>1. TypeOK BY DEF IInv
<1>2. CASE \/ StartDrain \/ NothingFrozen \/ RepairCommittedReady \/ StageIntent \/ SettleIntents
  <2>1. UNCHANGED <<batch, cursor, obs>>
    BY <1>2, Zenon DEF StartDrain, NothingFrozen, RepairCommittedReady, StageIntent,
                       SettleIntents, durable
  <2> QED BY <2>1, SameSessions
<1>3. ASSUME NEW s \in Session, NEW id \in Id, ClaimNext(s, id) PROVE SessionsOrdered'
  BY <1>1, <1>3, ClaimNextOrder
<1>4. CASE AfterStageTransition
  BY <1>1, <1>4, FlushRequestedOrder, Zenon DEF AfterStageTransition
<1> QED BY <1>2, <1>3, <1>4, CallReturnsOrder, CommitReadyOrder, CommitAttentionOrder,
           AdvanceCursorOrder DEF Detection

LEMMA StartingOrder ==
  ASSUME IInv, SessionsOrdered, Recovered, Starting
  PROVE SessionsOrdered'
<1>1. TypeOK BY DEF IInv
<1>2. CASE Start \/ Reopen \/ DetectorRecovered
  <2>1. UNCHANGED <<batch, cursor, obs>>
    BY <1>2 DEF Start, Reopen, DetectorRecovered, durable
  <2> QED BY <2>1, SameSessions
<1>3. CASE StartFlush
  BY <1>1, <1>3, FlushRequestedOrder, Zenon DEF StartFlush
<1> QED BY <1>1, <1>2, <1>3, RecoverBatchOrder, RecoverCursorsOrder DEF Starting

LEMMA DetectorRecoveredDone ==
  ASSUME TypeOK, DetectorRecovered
  PROVE \A s \in Session : DetectorDone(batch[s], cursor[s])
<1> SUFFICES ASSUME NEW s \in Session, NEW id \in Id
             PROVE  /\ batch[s][id].state # "DETECTION_CLAIMED"
                    /\ Terminal(batch[s][id]) => id[2] <= cursor[s].detected
  BY DEF DetectorDone
<1>1. <<s, id>> \in Session \X Id /\ <<s, id>> \notin Unrecovered
  BY DEF DetectorRecovered
<1>2. /\ batch[s][id].state # "DETECTION_CLAIMED"
      /\ Terminal(batch[s][id]) => ~(id[2] > cursor[s].detected)
  BY <1>1 DEF Unrecovered
<1>3. id[2] \in Nat /\ cursor[s].detected \in Nat
  BY IdType, CursorFields DEF TypeOK
<1> QED BY <1>2, <1>3

(* Only the detector's recovery begins the phase in which the cursors are
   rebuilt, and nothing but that rebuilding writes to a session in it. *)
LEMMA RecoveredKeeps ==
  ASSUME IInv, Recovered, [Next]_vars
  PROVE Recovered'
<1>0. TypeOK BY DEF IInv
<1> DEFINE Calm == phase' # "bind" \/ UNCHANGED <<phase, batch, cursor>>
<1>1. CASE Calm BY <1>1 DEF Recovered
<1>2. CASE DetectorRecovered
  <2>1. \A s \in Session : DetectorDone(batch[s], cursor[s])
    BY <1>0, <1>2, DetectorRecoveredDone
  <2>2. UNCHANGED <<batch, cursor>>
    BY <1>2 DEF DetectorRecovered, durable
  <2> QED BY <2>1, <2>2 DEF Recovered
<1>3. ASSUME Hosting PROVE Calm
  <2>1. CASE \E s \in Session : IdleElapses(s)
    BY <2>1 DEF IdleElapses, durable, process
  <2>2. CASE AgentDisposed BY <2>2 DEF AgentDisposed, durable
  <2>3. ASSUME NEW s \in Session, PrepareSessionWindow(s) PROVE Calm
    BY <2>3 DEF PrepareSessionWindow, Up, process
  <2>4. ASSUME NEW s \in Session, RecordObservation(s) PROVE Calm
    <3>1. phase = "up" /\ phase' = phase
      BY <2>4, Zenon DEF RecordObservation, Up
    <3> QED BY <3>1
  <2>5. ASSUME NEW s \in Session, RequestSynthesis(s) PROVE Calm
    BY <2>5 DEF RequestSynthesis, Up
  <2> HIDE DEF Calm
  <2> QED BY <1>3, <2>1, <2>2, <2>3, <2>4, <2>5 DEF Hosting
<1>4. ASSUME Scheduling PROVE Calm
  <2>1. phase = "up" /\ phase' = phase
    BY <1>4, Zenon DEF Scheduling, ObserveFlush, TimerFires, WakeRequested, FlushIdle, Up
  <2> QED BY <2>1
<1>5. ASSUME Detection PROVE Calm
  <2>1. CASE AdvanceCursor
    <3>1. phase \in {"recover", "up"} /\ (phase' = phase \/ phase' = "down")
      BY <2>1, Zenon DEF AdvanceCursor, At, Stop
    <3> QED BY <3>1
  <2>2. CASE \/ StartDrain \/ RepairCommittedReady \/ NothingFrozen \/ CallReturns
             \/ StageIntent \/ CommitReady \/ CommitAttention \/ AfterStageTransition
    <3>1. phase = "up" /\ phase' = phase
      BY <2>2, Zenon DEF StartDrain, RepairCommittedReady, NothingFrozen, CallReturns,
         StageIntent, CommitReady, CommitAttention, AfterStageTransition, Up, process
    <3> QED BY <3>1
  <2>3. ASSUME NEW s \in Session, NEW id \in Id, ClaimNext(s, id) PROVE Calm
    <3>1. phase = "up" /\ phase' = phase
      BY <2>3, Zenon DEF ClaimNext, Up
    <3> QED BY <3>1
  <2>4. CASE SettleIntents
    <3>1. phase \in {"recover", "up"} /\ phase' = phase
      BY <2>4, Zenon DEF SettleIntents, At
    <3> QED BY <3>1
  <2> HIDE DEF Calm
  <2> QED BY <1>5, <2>1, <2>2, <2>3, <2>4 DEF Detection
<1>6. ASSUME Starting, ~DetectorRecovered PROVE Calm
  <2>1. CASE Start \/ Reopen BY <2>1 DEF Start, Reopen, Stop
  <2>2. CASE RecoverBatch
    <3>1. phase = "recover" /\ phase' = phase
      BY <2>2, Zenon DEF RecoverBatch
    <3> QED BY <3>1
  <2>3. CASE RecoverCursors
    <3>1. phase' = "ask" \/ phase' = "down"
      BY <2>3, Zenon DEF RecoverCursors, Stop
    <3> QED BY <3>1
  <2>4. CASE StartFlush
    <3>1. FlushRequested(/\ phase' = "up"
                         /\ det' = [det EXCEPT !.pc = "run"]
                         /\ UNCHANGED <<sched, wake, drain>>,
                         Stop)
      BY <2>4, Zenon DEF StartFlush
    <3>2. phase' = "up" \/ phase' = "down"
      BY <1>0, <3>1, FlushRequestedFacts, Zenon DEF Stop
    <3> QED BY <3>2
  <2> HIDE DEF Calm
  <2> QED BY <1>6, <2>1, <2>2, <2>3, <2>4 DEF Starting
<1>7. ASSUME WriteFails PROVE Calm
  <2>1. phase' = "down" \/ (phase' = phase /\ phase = "up")
    BY <1>7 DEF WriteFails, Stop
  <2> QED BY <2>1
<1>8. ASSUME Crash PROVE Calm BY <1>8 DEF Crash, Stop
<1>9. ASSUME UNCHANGED vars PROVE Calm
  BY <1>9 DEF vars, durable, process
<1> HIDE DEF Calm
<1> QED BY <1>1, <1>2, <1>3, <1>4, <1>5, <1>6, <1>7, <1>8, <1>9 DEF Next

(* A worker that stages intents has an output with some. *)
LEMMA CountsKeeps ==
  ASSUME IInv, Counts, [Next]_vars
  PROVE Counts'
<1>0. TypeOK BY DEF IInv
<1> DEFINE Calm == det' = det \/ det'.pc # "stage"
<1>d. \A pc \in DetSteps : det' = [det EXCEPT !.pc = pc] => det'.pc = pc
  BY <1>0 DEF TypeOK
<1>1. CASE Calm BY <1>1 DEF Counts
<1>2. CASE CallReturns
  <2>1. \/ \E pc \in {"discard", "advance"} : Goto(pc)
        \/ \E n \in 1 .. MaxIntents : det' = [det EXCEPT !.pc = "stage", !.n = n]
    BY <1>2, Zenon DEF CallReturns, Finish
  <2>2. CASE \E pc \in {"discard", "advance"} : Goto(pc)
    BY <1>0, <2>2 DEF Goto, Counts, TypeOK
  <2>3. CASE \E n \in 1 .. MaxIntents : det' = [det EXCEPT !.pc = "stage", !.n = n]
    <3>1. PICK n \in 1 .. MaxIntents : det' = [det EXCEPT !.pc = "stage", !.n = n]
      BY <2>3
    <3>2. det'.n = n BY <1>0, <3>1 DEF TypeOK
    <3> QED BY <3>2 DEF Counts
  <2> QED BY <2>1, <2>2, <2>3
<1>3. ASSUME Hosting PROVE Calm
  BY <1>3, Zenon DEF Hosting, AgentDisposed, IdleElapses, PrepareSessionWindow,
     RecordObservation, RequestSynthesis, process
<1>g. ASSUME NEW pc \in {"off", "run", "after", "advance", "discard", "release", "fail",
                         "readvance"}, Goto(pc)
      PROVE Calm
  BY <1>0, <1>g DEF Goto, TypeOK
<1>s. ASSUME Stop PROVE Calm BY <1>s, StopType
<1>4. ASSUME Scheduling PROVE Calm
  <2>1. CASE ObserveFlush
    <3>1. det' = [det EXCEPT !.pc = "run"] \/ det' = det
      BY <1>0, <2>1, FlushRequestedFacts, Zenon DEF ObserveFlush
    <3> QED BY <1>0, <3>1 DEF TypeOK
  <2>2. CASE TimerFires \/ WakeRequested \/ FlushIdle
    BY <2>2, Zenon DEF TimerFires, WakeRequested, FlushIdle
  <2> HIDE DEF Calm
  <2> QED BY <1>4, <2>1, <2>2 DEF Scheduling
<1>5. ASSUME Detection, ~CallReturns PROVE Calm
  <2>1. CASE AdvanceCursor
    <3>1. Goto("after") \/ Goto("off") \/ Stop
      BY <2>1, Zenon DEF AdvanceCursor
    <3> QED BY <1>g, <1>s, <3>1, Zenon
  <2>2. CASE RepairCommittedReady \/ StageIntent
    BY <2>2, Zenon DEF RepairCommittedReady, StageIntent, process
  <2>3. CASE StartDrain \/ NothingFrozen \/ CommitReady \/ CommitAttention
    <3>1. Goto("run") \/ Goto("off") \/ Goto("release") \/ Goto("discard")
      BY <2>3, Zenon DEF StartDrain, NothingFrozen, CommitReady, CommitAttention, Finish
    <3> QED BY <1>g, <3>1, Zenon
  <2>4. ASSUME NEW s \in Session, NEW id \in Id, ClaimNext(s, id) PROVE Calm
    <3>1. \/ det' = [pc |-> "called", s |-> s, id |-> id, n |-> 0]
          \/ det' = [pc |-> "advance", s |-> s, id |-> id, n |-> 0]
          \/ Goto("off")
      BY <2>4, Zenon DEF ClaimNext
    <3>2. Goto("off") => Calm BY <1>g, Zenon
    <3> QED BY <3>1, <3>2
  <2>5. CASE SettleIntents
    <3>1. Goto("advance") \/ det' = det BY <2>5, Zenon DEF SettleIntents
    <3> QED BY <1>g, <3>1, Zenon
  <2>6. CASE AfterStageTransition
    <3>1. FlushRequested(Goto("run"), Goto("off"))
      BY <2>6, Zenon DEF AfterStageTransition
    <3>2. Goto("run") \/ Goto("off")
      BY <1>0, <3>1, FlushRequestedFacts DEF Goto
    <3> QED BY <1>g, <3>2, Zenon
  <2> HIDE DEF Calm
  <2> QED BY <1>5, <2>1, <2>2, <2>3, <2>4, <2>5, <2>6 DEF Detection
<1>6. ASSUME Starting PROVE Calm
  <2>1. CASE Start \/ DetectorRecovered
    BY <2>1, Zenon DEF Start, DetectorRecovered
  <2>2. CASE Reopen BY <1>s, <2>2, Zenon DEF Reopen
  <2>3. CASE RecoverBatch BY <2>3 DEF RecoverBatch
  <2>4. CASE RecoverCursors
    <3>1. det' = det \/ Stop BY <2>4, Zenon DEF RecoverCursors
    <3> QED BY <1>s, <3>1, Zenon
  <2>5. CASE StartFlush
    <3>1. FlushRequested(/\ phase' = "up"
                         /\ det' = [det EXCEPT !.pc = "run"]
                         /\ UNCHANGED <<sched, wake, drain>>,
                         Stop)
      BY <2>5, Zenon DEF StartFlush
    <3>2. Goto("run") \/ Stop
      BY <1>0, <3>1, FlushRequestedFacts, Zenon DEF Stop, Goto
    <3> QED BY <1>g, <1>s, <3>2, Zenon
  <2> HIDE DEF Calm
  <2> QED BY <1>6, <2>1, <2>2, <2>3, <2>4, <2>5 DEF Starting
<1>7. ASSUME WriteFails PROVE Calm
  <2>1. Stop \/ \E pc \in Resume(det.pc) : Goto(pc)
    BY <1>7, Zenon DEF WriteFails
  <2>2. Resume(det.pc) \subseteq {"off", "run", "after", "advance", "discard", "release",
                                  "fail", "readvance"}
    BY DEF Resume
  <2> QED BY <1>g, <1>s, <2>1, <2>2, Zenon
<1>8. ASSUME Crash PROVE Calm BY <1>8, <1>s, Zenon DEF Crash
<1>9. ASSUME UNCHANGED vars PROVE Calm BY <1>9, Zenon DEF vars, process
<1> HIDE DEF Calm
<1> QED BY <1>1, <1>2, <1>3, <1>4, <1>5, <1>6, <1>7, <1>8, <1>9 DEF Next

LEMMA NextOrder == IInv /\ OrderInv /\ [Next]_vars => OrderInv'
<1> SUFFICES ASSUME IInv, OrderInv, [Next]_vars PROVE OrderInv' OBVIOUS
<1>1. SessionsOrdered /\ Recovered /\ Counts BY DEF OrderInv
<1>2. CASE WriteFails \/ Crash \/ UNCHANGED vars
  <2>1. UNCHANGED <<batch, cursor, obs>>
    BY <1>2 DEF WriteFails, Crash, vars, durable
  <2> QED BY <1>1, <2>1, SameSessions, RecoveredKeeps, CountsKeeps DEF OrderInv
<1>3. CASE Hosting \/ Scheduling \/ Detection \/ Starting
  BY <1>1, <1>3, HostingOrder, SchedulingOrder, DetectionOrder, StartingOrder,
     RecoveredKeeps, CountsKeeps DEF OrderInv
<1> QED BY <1>2, <1>3 DEF Next

(* The sessions stay in order in every reachable state, for any number of
   sessions and turns and any number of crashes and failed writes. *)
THEOREM OrderIsInductive == Spec => []OrderInv
<1>1. Init => OrderInv BY InitialOrder
<1>2. IInv /\ OrderInv /\ [Next]_vars => OrderInv' BY NextOrder
<1> QED BY <1>1, <1>2, Inductive, PTL DEF Spec

(* Every turn up to the detected watermark lies in a batch that has a terminal
   state, also between the write of a row and that of its cursor, and whichever
   of the three ways the watermark was moved. *)
THEOREM DetectedCovered == Spec => []DetectedIsCovered
<1>1. OrderInv => DetectedIsCovered
  <2> SUFFICES ASSUME OrderInv, NEW s \in Session, NEW n \in 1 .. cursor[s].detected
               PROVE \E id \in Stored(s) : Within(n, id) /\ Terminal(batch[s][id])
    BY DEF DetectedIsCovered
  <2>1. PICK id \in Id : Within(n, id) /\ Terminal(batch[s][id])
    BY DEF OrderInv, SessionsOrdered, Ordered, Covered
  <2>2. id \in Stored(s) BY <2>1 DEF Stored, Terminal, TerminalStates
  <2> QED BY <2>1, <2>2
<1> QED BY <1>1, OrderIsInductive, PTL

(* No turn is sent to the detector's model twice: no batch is called again, and
   no two batches that were called have a turn in common. *)
THEOREM NoTurnTwice == Spec => []NoTurnDetectedTwice
<1>1. OrderInv /\ TypeOK => NoTurnDetectedTwice
  <2> SUFFICES ASSUME OrderInv, TypeOK, NEW s \in Session, NEW a \in Id
               PROVE  /\ batch[s][a].called <= 1
                      /\ \A b \in Id : a # b /\ Called(s, a) /\ Called(s, b) => ~Overlap(a, b)
    BY DEF NoTurnDetectedTwice
  <2>1. Ordered(batch[s], cursor[s], obs[s])
    BY DEF OrderInv, SessionsOrdered
  <2>2. batch[s][a].called <= 1 BY <2>1 DEF Ordered, RowsFit, RowFits
  <2>3. ASSUME NEW b \in Id, a # b, Called(s, a), Called(s, b) PROVE ~Overlap(a, b)
    BY <2>1, <2>3 DEF Ordered, CallsApart, Calls, Called
  <2> QED BY <2>2, <2>3
<1> QED BY <1>1, OrderIsInductive, TypeCorrect, PTL

(* No freeze, claim, output or repair composes a row that the store refuses,
   and a complete baseline in a row is older than the turns of its batch. *)
THEOREM RowsAdmitted == Spec => []RowsAreAdmitted
<1>1. OrderInv => RowsAreAdmitted
  <2> SUFFICES ASSUME OrderInv, NEW s \in Session, NEW id \in Stored(s)
               PROVE  /\ Admitted(s, id, batch[s][id])
                      /\ batch[s][id].base.complete => batch[s][id].base.at < id[1]
    BY DEF RowsAreAdmitted
  <2>1. id \in Id /\ batch[s][id].state # "ABSENT" BY DEF Stored
  <2>2. RowsInRange(batch[s], cursor[s], obs[s]) /\ RowFits(id, batch[s][id])
    BY <2>1, RowFitsOf DEF OrderInv, SessionsOrdered, Ordered
  <2>3. id[1] <= id[2] /\ id[2] <= Len(obs[s])
    BY <2>1, <2>2 DEF RowsInRange
  <2> QED BY <2>2, <2>3, Zenon DEF RowFits, Admitted
<1> QED BY <1>1, OrderIsInductive, PTL

====
