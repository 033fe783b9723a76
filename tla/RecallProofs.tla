----------------------------- MODULE RecallProofs -----------------------------
(* Theorems about Recall, for every value of its constants.                 *)
EXTENDS Recall, WellFoundedInduction, TLAPS

----
(* The invariant, part by part. *)

Looks == [ok : BOOLEAN, sums : [Skills -> 0..2],
          pend : SUBSET (Proposals \cup Barriers), epoch : Nat]

Statuses == {"RUN2SKILL_OWNED", "RECALLING", "COVERAGE_READY", "COVERAGE_ANALYZING",
             "COVERAGE_RETRY_AUTHORIZED", "NEEDS_ATTENTION", "COVERED",
             "COVERED_NEEDS_CONFIRMATION", "CREATE_AUTHORIZED", "MERGE_AUTHORIZED"}
Reasons ==
    {"none", "CATALOG_INCOMPLETE", "CATALOG_SCAN_BUDGET_EXHAUSTED", "CATALOG_CHANGED",
     "INVALID_CATALOG_SCAN_OUTPUT", "CATALOG_SCAN_FAILED", "CATALOG_SCAN_TEMPORARY_FAILED",
     "CATALOG_SCAN_OUTCOME_UNKNOWN", "RELEVANT_CANDIDATE_UNAVAILABLE",
     "COVERAGE_BODY_CHANGED", "COVERAGE_CATALOG_CHANGED", "COVERAGE_BUDGET_EXHAUSTED",
     "COVERAGE_CALL_FAILED", "INVALID_COVERAGE_OUTPUT", "COVERAGE_OUTCOME_UNKNOWN",
     "COVERAGE_RETRY_STILL_COVERED", "COVERAGE_AMBIGUOUS", "MERGE_OUTPUT_BUDGET_EXHAUSTED"}
Calls == {"none", "RESERVED", "SUCCEEDED", "INVALID", "FAILED", "UNKNOWN"}
Looking == {"first", "pending", "second"}
Places == Looking \cup
          {"idle", "plan", "page", "asking", "before", "next", "read", "file", "kept",
           "recalled", "matched", "loaded", "coveragePage", "analysing"}

IntentTyped ==
    intent \in [status : Statuses, reason : Reasons, refreshed : BOOLEAN,
                explicit : BOOLEAN, plan : Looks, scan : [Pages -> Calls],
                scanRetry : Nat, classes : [Candidates -> {"none", "RELEVANT", "UNRELATED"}],
                recalled : [Candidates -> 0..2], sealed : BOOLEAN,
                calls : [Pages -> Calls],
                decisions : [Candidates -> {"none", "COVERED", "PARTIAL", "UNRELATED"}],
                retryUsed : BOOLEAN]
DrainTyped ==
    w \in [at : Places, then : Places, first : [Skills -> 0..2], look : Looks,
           before : Looks, todo : SUBSET Candidates, got : [Candidates -> 0..2],
           unread : SUBSET Candidates, pass : {1, 2}]
WorldTyped ==
    /\ sums \in [Skills -> 0..2] /\ bodies \in [Skills -> 1..2]
    /\ pend \subseteq Proposals \cup Barriers
    /\ epoch \in Nat /\ edits \in Nat /\ troubles \in Nat /\ journal \in BOOLEAN
    /\ epoch + (IF journal THEN 1 ELSE 0) + edits + troubles <= MaxMoves
AskedTyped == asked \in [{"scan", "coverage"} -> [Pages -> Nat]]

\* Where the drain goes once it has looked at the catalog.
Place == IF w.at \in Looking THEN w.then ELSE w.at

\* Each stage has its places; outside of the two the drain is idle.
ScanPlaces == {"plan", "page", "asking", "before", "next", "read", "file", "kept", "recalled"}
CoveragePlaces == {"matched", "next", "read", "file", "kept", "loaded", "coveragePage",
                   "analysing"}
LookedFor == {"plan", "before", "read", "kept", "recalled", "matched", "loaded"}
InStage ==
    /\ \/ w = Idle
       \/ up /\ intent.status = "RECALLING" /\ Place \in ScanPlaces
       \/ up /\ intent.status = "COVERAGE_ANALYZING" /\ Place \in CoveragePlaces
    /\ w.at \in Looking => w.then \in LookedFor

\* The pages are those of the plan, and a plan there is once a page is asked for.
PlanFits ==
    /\ ScanPages \subseteq Pages
    /\ ~intent.plan.ok => /\ intent.plan = NoLook
                          /\ intent.scan = NoCalls
                          /\ Place \in {"idle", "plan"}

\* A candidate is classified if and only if its page was answered.
Classified ==
    \A c \in Candidates :
        intent.classes[c] # "none" <=>
            /\ c \in Members(intent.plan)
            /\ intent.scan[PageOf(c, Members(intent.plan))] = "SUCCEEDED"

\* Behind the pages, and behind the scan, every page was answered; a refreshed
\* intent got behind it only at the epoch of its refresh.
Behind == {"COVERAGE_READY", "COVERAGE_ANALYZING", "COVERAGE_RETRY_AUTHORIZED"} \cup Terminal
Scanned ==
    /\ (intent.status = "RECALLING"
            /\ Place \in {"before", "next", "read", "file", "kept", "recalled"})
           => OpenScanPages = {}
    /\ intent.status \in Behind =>
           /\ intent.plan.ok /\ OpenScanPages = {}
           /\ intent.refreshed => intent.plan.epoch = 0

\* The count of a stage's calls: none before the call is reserved, none while its
\* answer is awaited, one behind it; and the user's own.
Retryable ==
    intent.status = "NEEDS_ATTENTION" /\ intent.reason = "CATALOG_SCAN_TEMPORARY_FAILED"
ScanCounted ==
    /\ \A p \in Pages :
          asked["scan"][p] <=
              (IF \/ intent.scan[p] = "none"
                  \/ w.at = "asking" /\ p = Min(OpenScanPages)
               THEN 0 ELSE 1) + (IF intent.scanRetry = p THEN 1 ELSE 0)
    /\ w.at = "asking" => /\ OpenScanPages # {}
                          /\ intent.scan[Min(OpenScanPages)] = "RESERVED"
    /\ Retryable => \E p \in Pages : intent.scan[p] = "FAILED"

CoverageCounted ==
    /\ \A p \in Pages :
          asked["coverage"][p] <=
              (IF \/ intent.calls[p] = "none"
                  \/ w.at = "analysing" /\ p = Min(OpenCoveragePages)
               THEN 0 ELSE 1) + (IF intent.retryUsed THEN 1 ELSE 0)
    /\ w.at = "analysing" => /\ OpenCoveragePages # {}
                             /\ intent.calls[Min(OpenCoveragePages)] = "RESERVED"
    /\ (intent.status \in {"RUN2SKILL_OWNED", "RECALLING", "COVERAGE_READY"} \/ Retryable) =>
           intent.calls = NoCalls /\ ~intent.retryUsed
    /\ intent.status = "COVERAGE_RETRY_AUTHORIZED" =>
           intent.retryUsed /\ \A p \in Pages : asked["coverage"][p] <= 1
    /\ intent.status = "COVERED_NEEDS_CONFIRMATION" => ~intent.retryUsed

\* What the analysis has read and decided.
Judged ==
    intent.status = "COVERAGE_ANALYZING" =>
        /\ (Place \in {"coveragePage", "analysing"} \/ w.pass = 2) =>
               CoveragePages \subseteq Pages
        /\ w.pass = 2 => OpenCoveragePages = {}
        /\ \A c \in Relevant :
               intent.calls[PageOf(c, Relevant)] = "SUCCEEDED" /\ PageOf(c, Relevant) \in Pages
               => intent.decisions[c] # "none"
BodiesRead ==
    /\ Place \in {"read", "file", "kept"} => w.todo # {}
    /\ (intent.status = "COVERAGE_ANALYZING"
            /\ Place \in {"next", "read", "file", "kept", "loaded"}) =>
           \A c \in Relevant \ w.todo : w.got[c] = intent.recalled[c]
    /\ Place = "loaded" => w.todo = {}

Core ==
    /\ IntentTyped /\ DrainTyped /\ AskedTyped
    /\ InStage /\ PlanFits /\ Classified /\ Scanned
    /\ ScanCounted /\ CoverageCounted /\ Judged /\ BodiesRead
IInv == Core /\ WorldTyped

----
(* Operators. *)

Before == {p \in Nat \X Nat : p[1] < p[2]}

(* A set of naturals that is not empty has a smallest member. *)
LEMMA MinIsMember ==
  ASSUME NEW S \in SUBSET Nat, S # {}
  PROVE Min(S) \in S
<1>1. OpToRel(<, Nat) = Before BY Zenon DEF OpToRel, Before
<1>2. IsWellFoundedOn(Before, Nat)
  BY <1>1, NatLessThanWellFounded, Zenon
<1>3. PICK n \in S : \A m \in S : ~ <<m, n>> \in Before
  BY <1>2, WFMin, Zenon
<1>4. \A m \in S : n <= m
  <2> SUFFICES ASSUME NEW m \in S PROVE n <= m OBVIOUS
  <2>1. m < n => <<m, n>> \in Before BY Zenon DEF Before
  <2>2. m \in Nat /\ n \in Nat OBVIOUS
  <2> QED BY <1>3, <2>1, <2>2
<1> QED BY <1>4, Zenon DEF Min

LEMMA CandidatesAreNaturals ==
  /\ Candidates \subseteq Nat
  /\ Pages \subseteq Nat /\ 0 \notin Pages
  /\ Skills \cap (Proposals \cup Barriers) = {}
<1>1. Pages \subseteq Nat /\ 0 \notin Pages
  BY RecallAssumption DEF Pages
<1> QED BY <1>1, RecallAssumption DEF Candidates

LEMMA IdleFields ==
  /\ Idle.at = "idle" /\ Idle.then = "idle" /\ Idle.pass = 1 /\ Idle.todo = {}
  /\ Idle.unread = {} /\ Idle.got = NoBodies /\ Idle.look = NoLook
  BY DEF Idle

LEMMA NoLookFields ==
  /\ NoLook.ok = FALSE /\ NoLook.sums = [s \in Skills |-> 0]
  /\ NoLook.pend = {} /\ NoLook.epoch = 0
  /\ Members(NoLook) = {}
  BY DEF NoLook, Members

LEMMA NoLookTyped == NoLook \in Looks
  BY DEF NoLook, Looks

LEMMA IdleTyped ==
  Idle \in [at : Places, then : Places, first : [Skills -> 0..2], look : Looks,
            before : Looks, todo : SUBSET Candidates, got : [Candidates -> 0..2],
            unread : SUBSET Candidates, pass : {1, 2}]
<1>1. NoLook.sums \in [Skills -> 0..2] BY NoLookTyped DEF Looks
<1> QED BY <1>1, NoLookTyped DEF Idle, Places, NoBodies

(* What is derived from the intent moves only with the fields it is made of. *)
LEMMA ScanParts ==
  ASSUME intent'.plan = intent.plan
  PROVE  /\ Members(intent.plan)' = Members(intent.plan)
         /\ ScanPages' = ScanPages
         /\ intent'.scan = intent.scan => OpenScanPages' = OpenScanPages
<1>1. Members(intent.plan)' = Members(intent.plan) BY DEF Members
<1>2. ScanPages' = ScanPages BY <1>1, Zenon DEF ScanPages
<1> QED BY <1>1, <1>2, Zenon DEF OpenScanPages

LEMMA CoverageParts ==
  ASSUME intent'.classes = intent.classes
  PROVE  /\ Relevant' = Relevant
         /\ CoveragePages' = CoveragePages
         /\ intent'.calls = intent.calls => OpenCoveragePages' = OpenCoveragePages
<1>1. Relevant' = Relevant BY Zenon DEF Relevant
<1>2. CoveragePages' = CoveragePages BY <1>1, Zenon DEF CoveragePages
<1> QED BY <1>1, <1>2, Zenon DEF OpenCoveragePages

(* A write of the store succeeds, is refused or fails; then the drain ends. *)
LEMMA WriteCases ==
  ASSUME NEW new, NEW next, Write(new, next)
  PROVE  /\ up' = up
         /\ \/ intent' = new /\ w' = next /\ Refused(new) = "none"
            \/ intent' = intent /\ w' = Idle
         /\ \/ troubles' = troubles
            \/ CanMove /\ troubles' = troubles + 1
  BY Zenon DEF Write

LEMMA Typed ==
  ASSUME Core
  PROVE  /\ intent.status \in Statuses /\ intent.reason \in Reasons
         /\ intent.refreshed \in BOOLEAN /\ intent.plan \in Looks
         /\ intent.scan \in [Pages -> Calls] /\ intent.calls \in [Pages -> Calls]
         /\ intent.scanRetry \in Nat /\ intent.retryUsed \in BOOLEAN
         /\ intent.classes \in [Candidates -> {"none", "RELEVANT", "UNRELATED"}]
         /\ intent.recalled \in [Candidates -> 0..2]
         /\ intent.decisions \in [Candidates -> {"none", "COVERED", "PARTIAL", "UNRELATED"}]
         /\ w.at \in Places /\ w.then \in Places /\ w.look \in Looks /\ w.before \in Looks
         /\ w.todo \in SUBSET Candidates /\ w.got \in [Candidates -> 0..2]
         /\ w.unread \in SUBSET Candidates /\ w.pass \in {1, 2}
         /\ w.first \in [Skills -> 0..2]
         /\ asked["scan"] \in [Pages -> Nat] /\ asked["coverage"] \in [Pages -> Nat]
<1>1. IntentTyped /\ DrainTyped /\ AskedTyped BY DEF Core
<1> QED BY <1>1 DEF IntentTyped, DrainTyped, AskedTyped

----
(* Steps that leave the intent as it is. *)

LEMMA PlaceAtIdle ==
  ASSUME w' = Idle
  PROVE w'.at = "idle" /\ Place' = "idle" /\ w'.pass = 1 /\ w'.todo = {}
<1>1. w'.at = "idle" /\ w'.pass = 1 /\ w'.todo = {} BY IdleFields
<1> QED BY <1>1 DEF Place, Looking

(* The counts are kept as long as no call is under way. *)
LEMMA CountsKept ==
  ASSUME Core, intent' = intent, asked' = asked, w'.at \notin {"asking", "analysing"}
  PROVE ScanCounted' /\ CoverageCounted'
<1>1. ScanCounted /\ CoverageCounted BY DEF Core
<1>2. /\ asked["scan"] \in [Pages -> Nat] /\ asked["coverage"] \in [Pages -> Nat]
  BY Typed
<1>3. ScanCounted'
  <2>1. ASSUME NEW p \in Pages
        PROVE  asked["scan"][p] <= (IF intent.scan[p] = "none" THEN 0 ELSE 1)
                                      + (IF intent.scanRetry = p THEN 1 ELSE 0)
    BY <1>1, <1>2, <2>1 DEF ScanCounted
  <2>2. Retryable' = Retryable BY DEF Retryable
  <2>3. Retryable => \E p \in Pages : intent.scan[p] = "FAILED"
    BY <1>1 DEF ScanCounted
  <2> QED BY <2>1, <2>2, <2>3 DEF ScanCounted
<1>4. CoverageCounted'
  <2>1. ASSUME NEW p \in Pages
        PROVE  asked["coverage"][p] <= (IF intent.calls[p] = "none" THEN 0 ELSE 1)
                                      + (IF intent.retryUsed THEN 1 ELSE 0)
    BY <1>1, <1>2, <2>1 DEF CoverageCounted
  <2>2. Retryable' = Retryable BY DEF Retryable
  <2> QED BY <1>1, <2>1, <2>2 DEF CoverageCounted
<1> QED BY <1>3, <1>4

LEMMA IntentPartsKept ==
  ASSUME Core, intent' = intent
  PROVE  /\ IntentTyped' /\ Classified'
         /\ ScanPages' = ScanPages /\ OpenScanPages' = OpenScanPages
         /\ Relevant' = Relevant /\ CoveragePages' = CoveragePages
         /\ OpenCoveragePages' = OpenCoveragePages
<1>1. IntentTyped' BY Zenon DEF Core, IntentTyped
<1>2. Members(intent.plan)' = Members(intent.plan) BY ScanParts
<1>3. Classified' = Classified BY <1>2, Zenon DEF Classified
<1>4. Classified BY Zenon DEF Core
<1> QED BY <1>1, <1>3, <1>4, ScanParts, CoverageParts

(* The drain ends. *)
LEMMA Idled ==
  ASSUME Core, intent' = intent, asked' = asked, w' = Idle
  PROVE Core'
<1>1. /\ w'.at = "idle" /\ Place' = "idle" /\ w'.pass = 1 /\ w'.todo = {}
  BY PlaceAtIdle
<1>2. ScanCounted' /\ CoverageCounted' BY <1>1, CountsKept
<1>3. /\ IntentTyped' /\ Classified'
      /\ ScanPages' = ScanPages /\ OpenScanPages' = OpenScanPages
      /\ Relevant' = Relevant /\ CoveragePages' = CoveragePages
      /\ OpenCoveragePages' = OpenCoveragePages
  BY IntentPartsKept
<1>4. DrainTyped' /\ AskedTyped'
  BY IdleTyped DEF Core, DrainTyped, AskedTyped
<1>5. InStage' BY <1>1 DEF InStage, Looking
<1>6. PlanFits' BY <1>1, <1>3 DEF Core, PlanFits
<1>7. Scanned' BY <1>1, <1>3 DEF Core, Scanned
<1>8. Judged'
  <2> SUFFICES ASSUME intent.status = "COVERAGE_ANALYZING"
               PROVE Judged'
    BY DEF Judged
  <2> QED BY <1>1, <1>3 DEF Core, Judged
<1>9. BodiesRead' BY <1>1 DEF BodiesRead
<1> QED BY <1>2, <1>3, <1>4, <1>5, <1>6, <1>7, <1>8, <1>9 DEF Core

(* The drain goes on, from a place to another one, without a write. *)
LEMMA GoKeeps ==
  ASSUME Core, intent' = intent, asked' = asked, up' = up,
         w'.at \notin {"asking", "analysing"},
         DrainTyped', InStage', BodiesRead',
         intent.plan.ok \/ Place' \in {"idle", "plan"},
         (intent.status = "RECALLING"
          /\ Place' \in {"before", "next", "read", "file", "kept", "recalled"})
             => OpenScanPages = {},
         intent.status = "COVERAGE_ANALYZING" =>
             /\ (Place' = "coveragePage" \/ w'.pass = 2) => CoveragePages \subseteq Pages
             /\ w'.pass = 2 => OpenCoveragePages = {}
  PROVE Core'
<1>1. ScanCounted' /\ CoverageCounted' BY CountsKept
<1>3. /\ IntentTyped' /\ Classified'
      /\ ScanPages' = ScanPages /\ OpenScanPages' = OpenScanPages
      /\ Relevant' = Relevant /\ CoveragePages' = CoveragePages
      /\ OpenCoveragePages' = OpenCoveragePages
  BY IntentPartsKept
<1>4. AskedTyped' BY DEF Core, AskedTyped
<1>6. PlanFits' BY <1>3 DEF Core, PlanFits
<1>7. Scanned' BY <1>3 DEF Core, Scanned
<1>8. Judged'
  <2> SUFFICES ASSUME intent.status = "COVERAGE_ANALYZING"
               PROVE Judged'
    BY DEF Judged
  <2>1. Place' # "analysing"
    <3>1. w'.at \in Looking => w'.then \in LookedFor BY DEF InStage
    <3> QED BY <3>1 DEF Place, LookedFor
  <2>2. \A c \in Relevant :
            (intent.calls[PageOf(c, Relevant)] = "SUCCEEDED" /\ PageOf(c, Relevant) \in Pages)
               => intent.decisions[c] # "none"
    BY DEF Core, Judged
  <2> HIDE DEF Place, PageOf
  <2>3. \A c \in Relevant' :
            (intent'.calls[PageOf(c, Relevant')] = "SUCCEEDED" /\ PageOf(c, Relevant') \in Pages)
               => intent'.decisions[c] # "none"
    BY <1>3, <2>2, Zenon
  <2> QED BY <1>3, <2>1, <2>3 DEF Judged
<1> QED BY <1>1, <1>3, <1>4, <1>6, <1>7, <1>8 DEF Core

LEMMA AtWork ==
  ASSUME Core, w.at # "idle"
  PROVE  /\ up
         /\ \/ intent.status = "RECALLING" /\ Place \in ScanPlaces
            \/ intent.status = "COVERAGE_ANALYZING" /\ Place \in CoveragePlaces
         /\ w.at \notin Looking => Place = w.at
         /\ w.at \in Looking => Place = w.then /\ w.then \in LookedFor
<1>1. InStage BY DEF Core
<1>2. w # Idle BY IdleFields
<1> QED BY <1>1, <1>2 DEF InStage, Place

(* A look at the catalog leaves the drain at the place it looks for. *)
LEMMA SamePlace ==
  ASSUME Core, w.at \in Looking, intent' = intent, asked' = asked, up' = up,
         DrainTyped', w'.at \in Looking \/ w'.at = w.then, w'.then = w.then,
         w'.todo = w.todo, w'.got = w.got, w'.pass = w.pass
  PROVE Core'
<1>1. /\ up
      /\ \/ intent.status = "RECALLING" /\ Place \in ScanPlaces
         \/ intent.status = "COVERAGE_ANALYZING" /\ Place \in CoveragePlaces
      /\ Place = w.then /\ w.then \in LookedFor
  BY AtWork DEF Looking
<1>2. Place' = Place /\ w'.at \notin {"asking", "analysing", "idle"}
  BY <1>1 DEF Place, Looking, LookedFor
<1>3. InStage' BY <1>1, <1>2, Zenon DEF InStage
<1>4. Relevant' = Relevant BY CoverageParts
<1>5. BodiesRead' BY <1>2, <1>4 DEF Core, BodiesRead
<1> QED BY <1>2, <1>3, <1>5, GoKeeps DEF Core, PlanFits, Scanned, Judged

LEMMA FirstRuntimeKeeps ==
  ASSUME Core, WorldTyped, FirstRuntime
  PROVE Core'
<1>1. /\ w.at = "first" /\ intent' = intent /\ asked' = asked /\ up' = up
      /\ \/ w' = [w EXCEPT !.at = "pending", !.first = sums]
         \/ w' = [w EXCEPT !.at = w.then, !.look = NoLook, !.first = NoLook.sums]
  BY Zenon DEF FirstRuntime, Go, Seen
<1>2. DrainTyped BY DEF Core
<1>3. sums \in [Skills -> 0..2] /\ NoLook.sums \in [Skills -> 0..2] /\ NoLook \in Looks
  BY NoLookTyped DEF WorldTyped, Looks
<1>4. DrainTyped' BY <1>1, <1>2, <1>3 DEF DrainTyped, Places, Looking
<1>5. /\ w'.at \in Looking \/ w'.at = w.then
      /\ w'.then = w.then /\ w'.todo = w.todo /\ w'.got = w.got /\ w'.pass = w.pass
  BY <1>1, <1>2 DEF DrainTyped, Looking
<1> QED BY <1>1, <1>4, <1>5, SamePlace DEF Looking

LEMMA ReadPendingKeeps ==
  ASSUME Core, WorldTyped, ReadPending
  PROVE Core'
<1>1. /\ w.at = "pending" /\ intent' = intent /\ asked' = asked /\ up' = up
      /\ \/ w' = [w EXCEPT !.at = "second",
                           !.look = [ok |-> TRUE, sums |-> w.first,
                                     pend |-> pend, epoch |-> epoch]]
         \/ w' = [w EXCEPT !.at = w.then, !.look = NoLook, !.first = NoLook.sums]
  BY Zenon DEF ReadPending, Go, Seen
<1>2. DrainTyped BY DEF Core
<1>3. /\ NoLook.sums \in [Skills -> 0..2] /\ NoLook \in Looks
      /\ [ok |-> TRUE, sums |-> w.first, pend |-> pend, epoch |-> epoch] \in Looks
  BY <1>2, NoLookTyped DEF WorldTyped, Looks, DrainTyped
<1>4. DrainTyped' BY <1>1, <1>2, <1>3 DEF DrainTyped, Places, Looking
<1>5. /\ w'.at \in Looking \/ w'.at = w.then
      /\ w'.then = w.then /\ w'.todo = w.todo /\ w'.got = w.got /\ w'.pass = w.pass
  BY <1>1, <1>2 DEF DrainTyped, Looking
<1> QED BY <1>1, <1>4, <1>5, SamePlace DEF Looking

LEMMA SecondRuntimeKeeps ==
  ASSUME Core, WorldTyped, SecondRuntime
  PROVE Core'
<1>1. /\ w.at = "second" /\ intent' = intent /\ asked' = asked /\ up' = up
      /\ \E look \in {w.look, NoLook} :
            w' = [w EXCEPT !.at = w.then, !.look = look, !.first = NoLook.sums]
  BY Zenon DEF SecondRuntime, Go, Seen
<1>2. DrainTyped BY DEF Core
<1>3. NoLook.sums \in [Skills -> 0..2] /\ NoLook \in Looks /\ w.look \in Looks
  BY <1>2, NoLookTyped DEF WorldTyped, Looks, DrainTyped
<1>4. DrainTyped' BY <1>1, <1>2, <1>3 DEF DrainTyped, Places, Looking
<1>5. /\ w'.at \in Looking \/ w'.at = w.then
      /\ w'.then = w.then /\ w'.todo = w.todo /\ w'.got = w.got /\ w'.pass = w.pass
  BY <1>1, <1>2 DEF DrainTyped, Looking
<1> QED BY <1>1, <1>4, <1>5, SamePlace DEF Looking

(* A candidate's body is looked up, for the first of those still to do. *)
LEMMA TheNextIsToDo ==
  ASSUME Core, w.todo # {}
  PROVE TheNext \in w.todo /\ TheNext \in Candidates
<1>1. w.todo \subseteq Candidates BY Typed
<1> QED BY <1>1, CandidatesAreNaturals, MinIsMember DEF TheNext

LEMMA GivenIsABody ==
  ASSUME WorldTyped, NEW c \in Candidates
  PROVE Given(c) \in 0..2
<1>1. c \in Skills => bodies[c] \in 0..2 BY DEF WorldTyped
<1> QED BY <1>1 DEF Given

(* The steps at one candidate change what was got for it alone. *)
LEMMA OneCandidate ==
  ASSUME Core, w.at \in {"read", "file"}, intent' = intent, asked' = asked, up' = up,
         NEW at \in {"kept", "file", "first"}, NEW then \in {w.then, "kept"},
         at = "first" => then = "kept",
         NEW b \in 0..2, NEW before \in Looks,
         w' = [w EXCEPT !.at = at, !.then = then, !.got[TheNext] = b, !.before = before]
  PROVE Core'
<1>1. /\ up /\ Place = w.at
      /\ \/ intent.status = "RECALLING" /\ Place \in ScanPlaces
         \/ intent.status = "COVERAGE_ANALYZING" /\ Place \in CoveragePlaces
  BY AtWork DEF Looking
<1>2. DrainTyped BY DEF Core
<1>3. w.todo # {} BY <1>1 DEF Core, BodiesRead
<1>4. TheNext \in w.todo /\ TheNext \in Candidates
  BY <1>3, TheNextIsToDo
<1>5. /\ w'.at = at /\ w'.then = then /\ w'.todo = w.todo /\ w'.pass = w.pass
      /\ w'.got = [w.got EXCEPT ![TheNext] = b]
  BY <1>2 DEF DrainTyped
<1>6. w.then \in Places /\ w.got \in [Candidates -> 0..2] BY Typed
<1>7. DrainTyped' BY <1>2, <1>6 DEF DrainTyped, Places, Looking
<1>8. Place' \in {"kept", "file"} BY <1>5 DEF Place, Looking
<1>9. InStage'
  BY <1>1, <1>5, <1>8 DEF InStage, ScanPlaces, CoveragePlaces, Looking, LookedFor
<1>10. Relevant' = Relevant BY CoverageParts
<1>11. BodiesRead'
  <2>1. ASSUME NEW c \in Relevant \ w.todo, intent.status = "COVERAGE_ANALYZING"
        PROVE w'.got[c] = intent.recalled[c]
    <3>1. w.got[c] = intent.recalled[c]
      BY <1>1, <2>1 DEF Core, BodiesRead
    <3>2. c \in Candidates /\ c # TheNext BY <1>4, <2>1 DEF Relevant
    <3> QED BY <1>5, <1>6, <3>1, <3>2
  <2> QED BY <1>3, <1>5, <1>8, <1>10, <2>1 DEF BodiesRead
<1>12. intent.plan.ok BY <1>1 DEF Core, PlanFits
<1>13. intent.status = "RECALLING" => OpenScanPages = {}
  BY <1>1 DEF Core, Scanned
<1>14. intent.status = "COVERAGE_ANALYZING" =>
           /\ (Place' = "coveragePage" \/ w'.pass = 2) => CoveragePages \subseteq Pages
           /\ w'.pass = 2 => OpenCoveragePages = {}
  BY <1>5, <1>8 DEF Core, Judged
<1>15. w'.at \notin {"asking", "analysing"} BY <1>5
<1> QED BY <1>7, <1>9, <1>11, <1>12, <1>13, <1>14, <1>15, GoKeeps

LEMMA ReadBodyKeeps ==
  ASSUME Core, WorldTyped, ReadBody
  PROVE Core'
<1>1. /\ up /\ w.at = "read" /\ intent' = intent /\ asked' = asked /\ up' = up
  BY Zenon DEF ReadBody, Go
<1>2. Place = "read" /\ w.todo # {}
  BY <1>1, AtWork DEF Core, BodiesRead, Looking
<1>3. TheNext \in w.todo /\ TheNext \in Candidates /\ Given(TheNext) \in 0..2
  BY <1>2, TheNextIsToDo, GivenIsABody
<1>4. DrainTyped /\ w.look \in Looks BY Typed DEF Core
<1>5. \E at \in {"kept", "file"}, b \in 0..2, before \in Looks :
         w' = [w EXCEPT !.at = at, !.got[TheNext] = b, !.before = before]
  BY <1>3, <1>4, NoLookTyped DEF ReadBody, Go
<1>6. PICK at \in {"kept", "file"}, b \in 0..2, before \in Looks :
         w' = [w EXCEPT !.at = at, !.got[TheNext] = b, !.before = before]
  BY <1>5
<1>7. w' = [w EXCEPT !.at = at, !.then = w.then, !.got[TheNext] = b, !.before = before]
  BY <1>4, <1>6 DEF DrainTyped
<1> QED BY <1>1, <1>7, OneCandidate

LEMMA ReadFileKeeps ==
  ASSUME Core, WorldTyped, ReadFile
  PROVE Core'
<1>1. /\ up /\ w.at = "file" /\ intent' = intent /\ asked' = asked /\ up' = up
      /\ \/ w' = [w EXCEPT !.at = "kept", !.got[TheNext] = 0, !.before = NoLook]
         \/ w' = [w EXCEPT !.at = "first", !.then = "kept"]
  BY Zenon DEF ReadFile, Go, Look
<1>2. Place = "file" /\ w.todo # {}
  BY <1>1, AtWork DEF Core, BodiesRead, Looking
<1>3. TheNext \in w.todo /\ TheNext \in Candidates
  BY <1>2, TheNextIsToDo
<1>4. DrainTyped /\ w.got \in [Candidates -> 0..2] /\ w.before \in Looks
  BY Typed DEF Core
<1>5. CASE w' = [w EXCEPT !.at = "kept", !.got[TheNext] = 0, !.before = NoLook]
  <2>1. w' = [w EXCEPT !.at = "kept", !.then = w.then, !.got[TheNext] = 0, !.before = NoLook]
    BY <1>4, <1>5 DEF DrainTyped
  <2>2. 0 \in 0..2 /\ w.at \in {"read", "file"} /\ "kept" # "first"
    BY <1>1
  <2> QED BY <1>1, <2>1, <2>2, OneCandidate, NoLookTyped
<1>6. CASE w' = [w EXCEPT !.at = "first", !.then = "kept"]
  <2>1. w' = [w EXCEPT !.at = "first", !.then = "kept", !.got[TheNext] = w.got[TheNext],
                       !.before = w.before]
    BY <1>3, <1>4, <1>6 DEF DrainTyped
  <2>2. w.got[TheNext] \in 0..2 BY <1>3, <1>4
  <2> QED BY <1>1, <1>4, <2>1, <2>2, OneCandidate
<1> QED BY <1>1, <1>5, <1>6

----
(* Writes that end the drain's work on the intent. *)

(* The fields that only a call, a plan or a retry changes. *)
SameCalls ==
    /\ intent'.plan = intent.plan /\ intent'.scan = intent.scan
    /\ intent'.scanRetry = intent.scanRetry /\ intent'.classes = intent.classes
    /\ intent'.calls = intent.calls /\ intent'.decisions = intent.decisions
    /\ intent'.retryUsed = intent.retryUsed

LEMMA Ends ==
  ASSUME Core, asked' = asked, w' = Idle, IntentTyped', SameCalls, ~Retryable',
         intent'.status \notin {"COVERAGE_ANALYZING", "COVERAGE_RETRY_AUTHORIZED"},
         intent'.status \in Behind =>
             /\ intent.plan.ok /\ OpenScanPages = {}
             /\ intent'.refreshed => intent.plan.epoch = 0,
         intent'.status \in {"RUN2SKILL_OWNED", "RECALLING", "COVERAGE_READY"} =>
             intent.calls = NoCalls /\ ~intent.retryUsed,
         intent'.status = "COVERED_NEEDS_CONFIRMATION" => ~intent.retryUsed
  PROVE Core'
<1>1. /\ w'.at = "idle" /\ Place' = "idle" /\ w'.pass = 1 /\ w'.todo = {}
  BY PlaceAtIdle
<1>2. /\ Members(intent.plan)' = Members(intent.plan)
      /\ ScanPages' = ScanPages /\ OpenScanPages' = OpenScanPages
      /\ OpenCoveragePages' = OpenCoveragePages
  BY ScanParts, CoverageParts DEF SameCalls
<1>3. DrainTyped' /\ AskedTyped'
  BY IdleTyped DEF Core, DrainTyped, AskedTyped
<1>4. InStage' BY <1>1 DEF InStage, Looking
<1>5. PlanFits' BY <1>1, <1>2 DEF Core, PlanFits, SameCalls
<1>6. Classified' BY <1>2, Zenon DEF Core, Classified, SameCalls
<1>7. Scanned' BY <1>1, <1>2 DEF Scanned, SameCalls
<1>8. /\ asked["scan"] \in [Pages -> Nat] /\ asked["coverage"] \in [Pages -> Nat]
  BY Typed
<1>9. ScanCounted' BY <1>1, <1>8 DEF Core, ScanCounted, SameCalls
<1>10. CoverageCounted'
  BY <1>1, <1>8 DEF Core, CoverageCounted, SameCalls
<1>11. Judged' /\ BodiesRead' BY <1>1 DEF Judged, BodiesRead
<1> QED BY <1>3, <1>4, <1>5, <1>6, <1>7, <1>9, <1>10, <1>11 DEF Core

LEMMA AttentionKeeps ==
  ASSUME Core, w.at # "idle", asked' = asked,
         NEW reason \in Reasons \ {"CATALOG_SCAN_TEMPORARY_FAILED"}, Attention(reason)
  PROVE Core'
<1>1. \/ /\ intent' = [intent EXCEPT !.status = "NEEDS_ATTENTION", !.reason = reason]
         /\ w' = Idle
      \/ intent' = intent /\ w' = Idle
  BY WriteCases, Zenon DEF Attention
<1>2. CASE intent' = [intent EXCEPT !.status = "NEEDS_ATTENTION", !.reason = reason]
  <2>1. IntentTyped BY DEF Core
  <2>2. IntentTyped' /\ SameCalls
    BY <1>2, <2>1 DEF IntentTyped, SameCalls, Statuses
  <2>3. intent'.status = "NEEDS_ATTENTION" /\ intent'.reason = reason
    BY <1>2, <2>1 DEF IntentTyped
  <2>4. w' = Idle BY <1>1
  <2> QED BY <2>2, <2>3, <2>4, Ends DEF Retryable, Behind, Terminal
<1> QED BY <1>1, <1>2, Idled

LEMMA RecalledKeeps ==
  ASSUME Core, Recalled
  PROVE Core'
<1>1. w.at = "recalled" /\ asked' = asked BY Zenon DEF Recalled
<1>2. /\ up /\ intent.status = "RECALLING" /\ Place = "recalled"
  BY <1>1, AtWork DEF Looking, CoveragePlaces
<1>3. \/ \E reason \in {"CATALOG_CHANGED", "RELEVANT_CANDIDATE_UNAVAILABLE"} :
             Attention(reason)
      \/ Write([intent EXCEPT !.status = "COVERAGE_READY", !.recalled = w.got], Idle)
  BY Zenon DEF Recalled
<1>4. ASSUME NEW reason \in {"CATALOG_CHANGED", "RELEVANT_CANDIDATE_UNAVAILABLE"},
             Attention(reason)
      PROVE Core'
  <2>1. reason \in Reasons \ {"CATALOG_SCAN_TEMPORARY_FAILED"} /\ w.at # "idle"
    BY <1>1 DEF Reasons
  <2> QED BY <1>1, <1>4, <2>1, AttentionKeeps
<1>5. CASE Write([intent EXCEPT !.status = "COVERAGE_READY", !.recalled = w.got], Idle)
  <2> DEFINE new == [intent EXCEPT !.status = "COVERAGE_READY", !.recalled = w.got]
  <2>1. \/ intent' = new /\ w' = Idle /\ Refused(new) = "none"
        \/ intent' = intent /\ w' = Idle
    BY <1>5, WriteCases, Zenon
  <2>2. CASE intent' = new /\ w' = Idle /\ Refused(new) = "none"
    <3>1. IntentTyped /\ w.got \in [Candidates -> 0..2]
      BY Typed DEF Core
    <3>2. /\ new.status = "COVERAGE_READY" /\ new.refreshed = intent.refreshed
          /\ new.plan = intent.plan
      BY <3>1 DEF IntentTyped
    <3>3. IntentTyped' /\ SameCalls
      BY <2>2, <3>1 DEF IntentTyped, SameCalls, Statuses
    <3>4. new.refreshed => new.plan.epoch = 0
      <4> HIDE DEF new
      <4> QED BY <2>2, <3>2 DEF Refused
    <3>5. intent.plan.ok /\ OpenScanPages = {}
      BY <1>2 DEF Core, PlanFits, Scanned
    <3>6. intent.calls = NoCalls /\ ~intent.retryUsed
      BY <1>2 DEF Core, CoverageCounted
    <3> HIDE DEF new
    <3> QED BY <1>1, <2>2, <3>2, <3>3, <3>4, <3>5, <3>6, Ends DEF Retryable
  <2> QED BY <1>1, <2>1, <2>2, Idled
<1> QED BY <1>3, <1>4, <1>5

(* The end of the analysis. *)
LEMMA AggregateCases ==
  ASSUME Aggregate
  PROVE  \/ \E reason \in {"COVERAGE_RETRY_STILL_COVERED", "COVERAGE_AMBIGUOUS",
                           "MERGE_OUTPUT_BUDGET_EXHAUSTED"} : Attention(reason)
         \/ \E status \in {"COVERED_NEEDS_CONFIRMATION", "COVERED", "CREATE_AUTHORIZED",
                           "MERGE_AUTHORIZED"} :
               /\ Write([intent EXCEPT !.status = status], Idle)
               /\ status = "COVERED_NEEDS_CONFIRMATION" => ~intent.retryUsed
  BY DEF Aggregate

LEMMA AggregateKeeps ==
  ASSUME Core, w.at = "loaded", asked' = asked, Aggregate
  PROVE Core'
<1>1. /\ up /\ intent.status = "COVERAGE_ANALYZING" /\ Place = "loaded"
  BY AtWork DEF Looking, ScanPlaces
<1>2. ASSUME NEW reason \in {"COVERAGE_RETRY_STILL_COVERED", "COVERAGE_AMBIGUOUS",
                             "MERGE_OUTPUT_BUDGET_EXHAUSTED"}, Attention(reason)
      PROVE Core'
  <2>1. reason \in Reasons \ {"CATALOG_SCAN_TEMPORARY_FAILED"} /\ w.at # "idle"
    BY DEF Reasons
  <2> QED BY <1>2, <2>1, AttentionKeeps
<1>3. ASSUME NEW status \in {"COVERED_NEEDS_CONFIRMATION", "COVERED", "CREATE_AUTHORIZED",
                             "MERGE_AUTHORIZED"},
             Write([intent EXCEPT !.status = status], Idle),
             status = "COVERED_NEEDS_CONFIRMATION" => ~intent.retryUsed
      PROVE Core'
  <2>1. \/ intent' = [intent EXCEPT !.status = status] /\ w' = Idle
        \/ intent' = intent /\ w' = Idle
    BY <1>3, WriteCases, Zenon
  <2>2. CASE intent' = [intent EXCEPT !.status = status] /\ w' = Idle
    <3>1. IntentTyped BY DEF Core
    <3>2. IntentTyped' /\ SameCalls /\ intent'.status = status
          /\ intent'.refreshed = intent.refreshed
      BY <2>2, <3>1 DEF IntentTyped, SameCalls, Statuses
    <3>3. /\ intent.plan.ok /\ OpenScanPages = {}
          /\ intent.refreshed => intent.plan.epoch = 0
      BY <1>1 DEF Core, Scanned, Behind
    <3> QED BY <1>3, <2>2, <3>2, <3>3, Ends DEF Retryable
  <2> QED BY <2>1, <2>2, Idled
<1> QED BY <1>2, <1>3, AggregateCases

----
(* From place to place. *)

LEMMA BeforeReadKeeps ==
  ASSUME Core, BeforeRead
  PROVE Core'
<1>1. w.at = "before" /\ asked' = asked /\ up BY Zenon DEF BeforeRead
<1>2. intent.status = "RECALLING" /\ Place = "before"
  BY <1>1, AtWork DEF Looking, CoveragePlaces
<1>3. CASE Attention("CATALOG_CHANGED")
  <2>1. "CATALOG_CHANGED" \in Reasons \ {"CATALOG_SCAN_TEMPORARY_FAILED"} /\ w.at # "idle"
    BY <1>1 DEF Reasons
  <2> QED BY <1>1, <1>3, <2>1, AttentionKeeps
<1>4. CASE Go([w EXCEPT !.at = "next", !.todo = Relevant])
  <2>1. /\ w' = [w EXCEPT !.at = "next", !.todo = Relevant]
        /\ intent' = intent /\ up' = up
    BY <1>4, Zenon DEF Go
  <2>2. DrainTyped /\ Relevant \in SUBSET Candidates
    BY DEF Core, Relevant
  <2>3. DrainTyped' /\ w'.at = "next"
    BY <2>1, <2>2 DEF DrainTyped, Places
  <2>4. Place' = "next" BY <2>3 DEF Place, Looking
  <2>5. InStage' /\ BodiesRead'
    BY <1>1, <1>2, <2>1, <2>3, <2>4 DEF InStage, BodiesRead, ScanPlaces, Looking
  <2>6. intent.plan.ok /\ OpenScanPages = {}
    BY <1>2 DEF Core, PlanFits, Scanned
  <2>7. intent.status # "COVERAGE_ANALYZING" /\ w'.at \notin {"asking", "analysing"}
    BY <1>2, <2>3
  <2> QED BY <1>1, <2>1, <2>3, <2>5, <2>6, <2>7, GoKeeps
<1> QED BY <1>3, <1>4 DEF BeforeRead

LEMMA NextCandidateKeeps ==
  ASSUME Core, NextCandidate
  PROVE Core'
<1>1. /\ w.at = "next" /\ asked' = asked /\ up
      /\ intent' = intent /\ up' = up
  BY Zenon DEF NextCandidate, Go
<1>2. /\ \/ intent.status = "RECALLING"
         \/ intent.status = "COVERAGE_ANALYZING"
      /\ Place = "next"
  BY <1>1, AtWork DEF Looking
<1>3. DrainTyped BY DEF Core
<1>4. \/ w' = [w EXCEPT !.at = "first", !.then = "read"] /\ w.todo # {}
      \/ w' = [w EXCEPT !.at = "recalled"] /\ intent.status = "RECALLING"
      \/ w' = [w EXCEPT !.at = "first", !.then = "recalled"] /\ intent.status = "RECALLING"
      \/ /\ w' = [w EXCEPT !.at = "first", !.then = "loaded"] /\ w.todo = {}
         /\ intent.status # "RECALLING"
  BY DEF NextCandidate, Go, Look
<1>5. /\ DrainTyped' /\ w'.todo = w.todo /\ w'.got = w.got /\ w'.pass = w.pass
      /\ w'.at \in {"first", "recalled"}
      /\ w'.at = "first" => w'.then \in LookedFor
  BY <1>3, <1>4 DEF DrainTyped, Places, Looking, LookedFor
<1>6. \/ Place' = "read" /\ w.todo # {}
      \/ Place' = "recalled" /\ intent.status = "RECALLING"
      \/ Place' = "loaded" /\ w.todo = {} /\ intent.status # "RECALLING"
  BY <1>3, <1>4 DEF DrainTyped, Place, Looking
<1>7. InStage'
  BY <1>1, <1>2, <1>5, <1>6 DEF InStage, ScanPlaces, CoveragePlaces, Looking
<1>8. Relevant' = Relevant BY <1>1, CoverageParts
<1>9. BodiesRead' BY <1>1, <1>2, <1>5, <1>6, <1>8 DEF Core, BodiesRead
<1>10. /\ intent.plan.ok
       /\ intent.status = "RECALLING" => OpenScanPages = {}
       /\ intent.status = "COVERAGE_ANALYZING" =>
              /\ (Place' = "coveragePage" \/ w'.pass = 2) => CoveragePages \subseteq Pages
              /\ w'.pass = 2 => OpenCoveragePages = {}
  BY <1>2, <1>5, <1>6 DEF Core, PlanFits, Scanned, Judged
<1>11. w'.at \notin {"asking", "analysing"} BY <1>5
<1> QED BY <1>1, <1>5, <1>7, <1>9, <1>10, <1>11, GoKeeps

LEMMA AfterBodyKeeps ==
  ASSUME Core, AfterBody
  PROVE Core'
<1> DEFINE c == TheNext
           rest == [w EXCEPT !.at = "next", !.todo = @ \ {c}, !.before = NoLook]
<1>1. w.at = "kept" /\ asked' = asked /\ up BY Zenon DEF AfterBody
<1>2. /\ \/ intent.status = "RECALLING"
         \/ intent.status = "COVERAGE_ANALYZING"
      /\ Place = "kept"
  BY <1>1, AtWork DEF Looking
<1>3. DrainTyped BY DEF Core
<1>4. c \in w.todo /\ c \in Candidates
  BY <1>2, TheNextIsToDo DEF Core, BodiesRead
<1>5. CASE Attention("COVERAGE_BODY_CHANGED")
  <2>1. "COVERAGE_BODY_CHANGED" \in Reasons \ {"CATALOG_SCAN_TEMPORARY_FAILED"}
        /\ w.at # "idle"
    BY <1>1 DEF Reasons
  <2> QED BY <1>1, <1>5, <2>1, AttentionKeeps
<1>6. ASSUME \/ Go(rest) /\ (intent.status = "RECALLING" \/ w.got[c] = intent.recalled[c])
             \/ /\ Go([rest EXCEPT !.unread = @ \cup {c}, !.got[c] = 0])
                /\ intent.status = "RECALLING"
      PROVE Core'
  <2>1. intent' = intent /\ up' = up BY <1>6, Zenon DEF Go
  <2>2. /\ DrainTyped' /\ w'.at = "next" /\ w'.todo = w.todo \ {c} /\ w'.pass = w.pass
        /\ \/ w'.got = w.got /\ (intent.status = "RECALLING" \/ w.got[c] = intent.recalled[c])
           \/ intent.status = "RECALLING"
    <3> HIDE DEF c
    <3>1. w.todo \ {c} \in SUBSET Candidates /\ w.unread \cup {c} \in SUBSET Candidates
          /\ [w.got EXCEPT ![c] = 0] \in [Candidates -> 0..2]
      BY <1>4, Typed
    <3>2. CASE w' = rest
      BY <1>3, <3>1, <3>2, <1>6, NoLookTyped DEF DrainTyped, Places
    <3>3. CASE w' = [rest EXCEPT !.unread = @ \cup {c}, !.got[c] = 0]
               /\ intent.status = "RECALLING"
      BY <1>3, <3>1, <3>3, NoLookTyped DEF DrainTyped, Places
    <3>4. \/ w' = rest /\ (intent.status = "RECALLING" \/ w.got[c] = intent.recalled[c])
          \/ /\ w' = [rest EXCEPT !.unread = @ \cup {c}, !.got[c] = 0]
             /\ intent.status = "RECALLING"
      <4> HIDE DEF rest
      <4> QED BY <1>6 DEF Go
    <3>5. CASE w' = rest /\ (intent.status = "RECALLING" \/ w.got[c] = intent.recalled[c])
      BY <1>3, <3>1, <3>5, NoLookTyped DEF DrainTyped, Places
    <3> HIDE DEF rest
    <3> QED BY <3>3, <3>4, <3>5
  <2> HIDE DEF rest
  <2>3. Place' = "next" BY <2>2 DEF Place, Looking
  <2>4. InStage'
    BY <1>1, <1>2, <2>1, <2>2, <2>3 DEF InStage, ScanPlaces, CoveragePlaces, Looking
  <2>5. Relevant' = Relevant BY <2>1, CoverageParts
  <2>6. BodiesRead'
    <3>1. ASSUME NEW d \in Relevant \ (w.todo \ {c}), intent.status = "COVERAGE_ANALYZING"
          PROVE w'.got[d] = intent.recalled[d]
      <4> HIDE DEF c
      <4>1. w'.got = w.got /\ w.got[c] = intent.recalled[c]
        BY <2>2, <3>1
      <4>2. d \notin w.todo => w.got[d] = intent.recalled[d]
        BY <1>2, <3>1 DEF Core, BodiesRead
      <4> QED BY <3>1, <4>1, <4>2
    <3> QED BY <2>1, <2>2, <2>3, <2>5, <3>1 DEF BodiesRead
  <2>7. /\ intent.plan.ok
        /\ intent.status = "RECALLING" => OpenScanPages = {}
        /\ intent.status = "COVERAGE_ANALYZING" =>
               /\ (Place' = "coveragePage" \/ w'.pass = 2) => CoveragePages \subseteq Pages
               /\ w'.pass = 2 => OpenCoveragePages = {}
    BY <1>2, <2>2, <2>3 DEF Core, PlanFits, Scanned, Judged
  <2>8. w'.at \notin {"asking", "analysing"} BY <2>2
  <2> QED BY <1>1, <2>1, <2>2, <2>4, <2>6, <2>7, <2>8, GoKeeps
<1>7. \/ Attention("COVERAGE_BODY_CHANGED")
      \/ Go(rest) /\ (intent.status = "RECALLING" \/ w.got[c] = intent.recalled[c])
      \/ /\ Go([rest EXCEPT !.unread = @ \cup {c}, !.got[c] = 0])
         /\ intent.status = "RECALLING"
  BY Zenon DEF AfterBody
<1> QED BY <1>5, <1>6, <1>7

LEMMA StillMatchesKeeps ==
  ASSUME Core, StillMatches
  PROVE Core'
<1>1. w.at = "matched" /\ asked' = asked /\ up BY Zenon DEF StillMatches
<1>2. intent.status = "COVERAGE_ANALYZING" /\ Place = "matched"
  BY <1>1, AtWork DEF Looking, ScanPlaces
<1>3. CASE Attention("COVERAGE_CATALOG_CHANGED")
  <2>1. "COVERAGE_CATALOG_CHANGED" \in Reasons \ {"CATALOG_SCAN_TEMPORARY_FAILED"}
        /\ w.at # "idle"
    BY <1>1 DEF Reasons
  <2> QED BY <1>1, <1>3, <2>1, AttentionKeeps
<1>4. CASE Go([w EXCEPT !.at = "next", !.todo = Relevant, !.got = NoBodies])
  <2>1. /\ w' = [w EXCEPT !.at = "next", !.todo = Relevant, !.got = NoBodies]
        /\ intent' = intent /\ up' = up
    BY <1>4, Zenon DEF Go
  <2>2. DrainTyped /\ Relevant \in SUBSET Candidates /\ NoBodies \in [Candidates -> 0..2]
    BY DEF Core, Relevant, NoBodies
  <2>3. DrainTyped' /\ w'.at = "next" /\ w'.todo = Relevant /\ w'.pass = w.pass
    BY <2>1, <2>2 DEF DrainTyped, Places
  <2>4. Place' = "next" BY <2>3 DEF Place, Looking
  <2>5. InStage'
    BY <1>1, <1>2, <2>1, <2>3, <2>4 DEF InStage, CoveragePlaces, Looking
  <2>6. Relevant' = Relevant BY <2>1, CoverageParts
  <2>7. BodiesRead' BY <2>3, <2>4, <2>6 DEF BodiesRead
  <2>8. /\ intent.plan.ok
        /\ (Place' = "coveragePage" \/ w'.pass = 2) => CoveragePages \subseteq Pages
        /\ w'.pass = 2 => OpenCoveragePages = {}
    BY <1>2, <2>3, <2>4 DEF Core, PlanFits, Judged
  <2>9. w'.at \notin {"asking", "analysing"} /\ intent.status # "RECALLING"
    BY <1>2, <2>3
  <2> QED BY <1>1, <2>1, <2>3, <2>5, <2>7, <2>8, <2>9, GoKeeps
<1> QED BY <1>3, <1>4 DEF StillMatches

----
(* The scan's own writes. *)

LEMMA LookFromIdle ==
  ASSUME NEW k \in LookedFor, w' = Look(Idle, k)
  PROVE  /\ DrainTyped' /\ w'.at = "first" /\ w'.then = k /\ w'.pass = 1
         /\ w'.todo = {} /\ Place' = k
<1>1. w' = [Idle EXCEPT !.at = "first", !.then = k] BY Zenon DEF Look
<1>2. /\ w'.at = "first" /\ w'.then = k /\ w'.pass = 1 /\ w'.todo = {}
  BY <1>1 DEF Idle
<1>3. DrainTyped'
  <2> HIDE DEF Idle
  <2>1. k \in Places BY DEF LookedFor, Places
  <2> QED BY <1>1, <2>1, IdleTyped DEF DrainTyped, Places, Looking
<1> QED BY <1>2, <1>3 DEF Place, Looking

LEMMA WakeRecallKeeps ==
  ASSUME Core, WakeRecall
  PROVE Core'
<1>1. /\ w.at = "idle" /\ asked' = asked /\ up
      /\ intent.status \in {"RUN2SKILL_OWNED", "RECALLING"}
      /\ \/ Go(Look(Idle, "plan")) /\ intent.status = "RECALLING"
         \/ /\ intent.status = "RUN2SKILL_OWNED"
            /\ Write([intent EXCEPT !.status = "RECALLING"], Look(Idle, "plan"))
  BY DEF WakeRecall
<1>2. CASE Go(Look(Idle, "plan")) /\ intent.status = "RECALLING"
  <2>1. w' = Look(Idle, "plan") /\ intent' = intent /\ up' = up
    BY <1>2, Zenon DEF Go
  <2>2. /\ DrainTyped' /\ w'.at = "first" /\ w'.then = "plan" /\ w'.todo = {}
        /\ Place' = "plan"
    BY <2>1, LookFromIdle DEF LookedFor
  <2>3. InStage' /\ BodiesRead'
    BY <1>1, <1>2, <2>1, <2>2 DEF InStage, BodiesRead, ScanPlaces, LookedFor
  <2> QED BY <1>1, <1>2, <2>1, <2>2, <2>3, GoKeeps
<1>3. CASE /\ intent.status = "RUN2SKILL_OWNED"
           /\ Write([intent EXCEPT !.status = "RECALLING"], Look(Idle, "plan"))
  <2>1. /\ up' = up
        /\ \/ intent' = [intent EXCEPT !.status = "RECALLING"] /\ w' = Look(Idle, "plan")
           \/ intent' = intent /\ w' = Idle
    BY <1>3, WriteCases, Zenon
  <2>2. CASE intent' = [intent EXCEPT !.status = "RECALLING"] /\ w' = Look(Idle, "plan")
    <3>1. IntentTyped BY DEF Core
    <3>2. IntentTyped' /\ SameCalls /\ intent'.status = "RECALLING"
      BY <2>2, <3>1 DEF IntentTyped, SameCalls, Statuses
    <3>3. /\ DrainTyped' /\ w'.at = "first" /\ w'.then = "plan" /\ w'.todo = {}
          /\ Place' = "plan"
      BY <2>2, LookFromIdle DEF LookedFor
    <3>4. InStage' /\ BodiesRead'
      BY <1>1, <2>1, <3>2, <3>3 DEF InStage, BodiesRead, ScanPlaces, LookedFor
    <3>5. /\ Members(intent.plan)' = Members(intent.plan)
          /\ ScanPages' = ScanPages /\ OpenScanPages' = OpenScanPages
      BY <3>2, ScanParts DEF SameCalls
    <3>6. PlanFits' /\ Scanned'
      BY <3>2, <3>3, <3>5 DEF Core, PlanFits, Scanned, SameCalls, Behind, Terminal
    <3>7. Classified'
      BY <3>2, <3>5, Zenon DEF Core, Classified, SameCalls
    <3>8. /\ asked["scan"] \in [Pages -> Nat] /\ asked["coverage"] \in [Pages -> Nat]
      BY Typed
    <3>9. ScanCounted'
      BY <1>1, <3>2, <3>3, <3>8 DEF Core, ScanCounted, SameCalls, Retryable
    <3>10. CoverageCounted'
      BY <1>1, <1>3, <3>2, <3>3, <3>8 DEF Core, CoverageCounted, SameCalls, Retryable
    <3>11. Judged' /\ AskedTyped'
      BY <1>1, <3>2 DEF Core, Judged, AskedTyped
    <3> QED BY <3>2, <3>3, <3>4, <3>6, <3>7, <3>9, <3>10, <3>11 DEF Core
  <2> QED BY <1>1, <2>1, <2>2, Idled
<1> QED BY <1>1, <1>2, <1>3

LEMMA PlanKeeps ==
  ASSUME Core, Plan
  PROVE Core'
<1>1. w.at = "plan" /\ asked' = asked /\ up BY Zenon DEF Plan
<1>2. intent.status = "RECALLING" /\ Place = "plan"
  BY <1>1, AtWork DEF Looking, CoveragePlaces
<1>3. \/ \E reason \in {"CATALOG_INCOMPLETE", "CATALOG_SCAN_BUDGET_EXHAUSTED",
                        "CATALOG_CHANGED"} : Attention(reason)
      \/ /\ w.look.ok /\ PagesOf(Members(w.look)) \subseteq Pages /\ ~intent.plan.ok
         /\ Write([intent EXCEPT !.plan = w.look], [w EXCEPT !.at = "page"])
      \/ Go([w EXCEPT !.at = "page"]) /\ intent.plan.ok
  BY Zenon DEF Plan
<1>4. ASSUME NEW reason \in {"CATALOG_INCOMPLETE", "CATALOG_SCAN_BUDGET_EXHAUSTED",
                             "CATALOG_CHANGED"}, Attention(reason)
      PROVE Core'
  <2>1. reason \in Reasons \ {"CATALOG_SCAN_TEMPORARY_FAILED"} /\ w.at # "idle"
    BY <1>1 DEF Reasons
  <2> QED BY <1>1, <1>4, <2>1, AttentionKeeps
<1>5. DrainTyped BY DEF Core
<1>6. ASSUME w' = [w EXCEPT !.at = "page"], up' = up, intent'.status = "RECALLING"
      PROVE /\ DrainTyped' /\ w'.at = "page" /\ Place' = "page" /\ InStage' /\ BodiesRead'
  <2>1. DrainTyped' /\ w'.at = "page"
    BY <1>5, <1>6 DEF DrainTyped, Places
  <2>2. Place' = "page" BY <2>1 DEF Place, Looking
  <2> QED BY <1>1, <1>6, <2>1, <2>2 DEF InStage, BodiesRead, ScanPlaces, Looking
<1>7. CASE Go([w EXCEPT !.at = "page"]) /\ intent.plan.ok
  <2>1. w' = [w EXCEPT !.at = "page"] /\ intent' = intent /\ up' = up
    BY <1>7, Zenon DEF Go
  <2> QED BY <1>1, <1>2, <1>6, <1>7, <2>1, GoKeeps
<1>8. CASE /\ w.look.ok /\ PagesOf(Members(w.look)) \subseteq Pages /\ ~intent.plan.ok
           /\ Write([intent EXCEPT !.plan = w.look], [w EXCEPT !.at = "page"])
  <2>1. /\ up' = up
        /\ \/ intent' = [intent EXCEPT !.plan = w.look] /\ w' = [w EXCEPT !.at = "page"]
           \/ intent' = intent /\ w' = Idle
    BY <1>8, WriteCases, Zenon
  <2>2. CASE intent' = [intent EXCEPT !.plan = w.look] /\ w' = [w EXCEPT !.at = "page"]
    <3>1. IntentTyped /\ w.look \in Looks BY Typed DEF Core
    <3>2. /\ IntentTyped' /\ intent'.plan = w.look /\ intent'.status = "RECALLING"
          /\ intent'.scan = intent.scan /\ intent'.scanRetry = intent.scanRetry
          /\ intent'.classes = intent.classes /\ intent'.calls = intent.calls
          /\ intent'.retryUsed = intent.retryUsed
      BY <1>2, <2>2, <3>1 DEF IntentTyped
    <3>3. /\ DrainTyped' /\ w'.at = "page" /\ Place' = "page" /\ InStage' /\ BodiesRead'
      BY <1>6, <2>1, <2>2, <3>2
    <3>4. intent.plan = NoLook /\ intent.scan = NoCalls
      BY <1>8 DEF Core, PlanFits
    <3>5. \A c \in Candidates : intent.classes[c] = "none"
      <4>1. \A c \in Candidates : c \notin Members(intent.plan)
        BY <3>4, NoLookFields
      <4> QED BY <4>1 DEF Core, Classified
    <3>6. ScanPages' \subseteq Pages /\ Members(intent.plan)' = Members(w.look)
      <4>1. Members(intent.plan)' = Members(w.look)
        BY <3>2, Zenon DEF Members
      <4>2. ScanPages' = PagesOf(Members(w.look))
        BY <4>1, Zenon DEF ScanPages
      <4> QED BY <1>8, <4>1, <4>2
    <3>7. Classified'
      <4> SUFFICES ASSUME NEW c \in Candidates
                   PROVE  ~(/\ c \in Members(w.look)
                            /\ intent.scan[PageOf(c, Members(w.look))] = "SUCCEEDED")
        BY <3>2, <3>5, <3>6, Zenon DEF Classified
      <4>1. ASSUME c \in Members(w.look)
            PROVE PageOf(c, Members(w.look)) \in Pages
        BY <1>8, <4>1, Zenon DEF PagesOf
      <4> HIDE DEF PageOf
      <4> QED BY <3>4, <4>1 DEF NoCalls
    <3>8. PlanFits' /\ Scanned'
      BY <1>8, <3>2, <3>3, <3>6 DEF PlanFits, Scanned, Behind, Terminal
    <3>9. /\ asked["scan"] \in [Pages -> Nat] /\ asked["coverage"] \in [Pages -> Nat]
      BY Typed
    <3>10. ScanCounted'
      BY <1>1, <3>2, <3>3, <3>9 DEF Core, ScanCounted, Retryable
    <3>11. CoverageCounted'
      BY <1>1, <1>2, <3>2, <3>3, <3>9 DEF Core, CoverageCounted, Retryable
    <3>12. Judged' /\ AskedTyped'
      BY <1>1, <3>2 DEF Core, Judged, AskedTyped
    <3> QED BY <3>2, <3>3, <3>7, <3>8, <3>10, <3>11, <3>12 DEF Core
  <2> QED BY <1>1, <2>1, <2>2, Idled
<1> QED BY <1>3, <1>4, <1>7, <1>8

LEMMA FirstOpenPage ==
  ASSUME Core, OpenScanPages # {}
  PROVE  /\ Min(OpenScanPages) \in OpenScanPages /\ Min(OpenScanPages) \in Pages
         /\ Min(OpenScanPages) \in ScanPages
<1>1. OpenScanPages \subseteq ScanPages /\ ScanPages \subseteq Pages
  BY Zenon DEF OpenScanPages, Core, PlanFits
<1>2. OpenScanPages \in SUBSET Nat BY <1>1, CandidatesAreNaturals
<1> QED BY <1>1, <1>2, MinIsMember

LEMMA ScanPageKeeps ==
  ASSUME Core, ScanPage
  PROVE Core'
<1> DEFINE p == Min(OpenScanPages)
<1>1. w.at = "page" /\ asked' = asked /\ up BY Zenon DEF ScanPage
<1>2. intent.status = "RECALLING" /\ Place = "page" /\ intent.plan.ok
  BY <1>1, AtWork DEF Looking, CoveragePlaces, Core, PlanFits
<1>3. DrainTyped /\ IntentTyped BY DEF Core
<1>4. \/ Go(Look(w, "before")) /\ OpenScanPages = {}
      \/ Go(Idle)
      \/ /\ OpenScanPages # {} /\ intent.scan[p] = "none"
         /\ Write([intent EXCEPT !.scan[p] = "RESERVED"], [w EXCEPT !.at = "asking"])
  BY Zenon DEF ScanPage
<1>5. CASE Go(Look(w, "before")) /\ OpenScanPages = {}
  <2>1. w' = [w EXCEPT !.at = "first", !.then = "before"] /\ intent' = intent /\ up' = up
    BY <1>5, Zenon DEF Go, Look
  <2>2. DrainTyped' /\ w'.at = "first" /\ w'.then = "before"
    BY <1>3, <2>1 DEF DrainTyped, Places, Looking
  <2>3. Place' = "before" BY <2>2 DEF Place, Looking
  <2>4. InStage' /\ BodiesRead'
    BY <1>1, <1>2, <2>1, <2>2, <2>3 DEF InStage, BodiesRead, ScanPlaces, LookedFor
  <2> QED BY <1>1, <1>2, <1>5, <2>1, <2>2, <2>3, <2>4, GoKeeps
<1>6. CASE Go(Idle) BY <1>1, <1>6, Idled DEF Go
<1>7. CASE /\ OpenScanPages # {} /\ intent.scan[p] = "none"
           /\ Write([intent EXCEPT !.scan[p] = "RESERVED"], [w EXCEPT !.at = "asking"])
  <2>1. /\ up' = up
        /\ \/ intent' = [intent EXCEPT !.scan[p] = "RESERVED"]
              /\ w' = [w EXCEPT !.at = "asking"]
           \/ intent' = intent /\ w' = Idle
    BY <1>7, WriteCases, Zenon
  <2>2. CASE intent' = [intent EXCEPT !.scan[p] = "RESERVED"]
             /\ w' = [w EXCEPT !.at = "asking"]
    <3>1. p \in OpenScanPages /\ p \in Pages /\ p \in ScanPages
      BY <1>7, FirstOpenPage
    <3> HIDE DEF p
    <3>2. /\ IntentTyped' /\ intent'.plan = intent.plan /\ intent'.status = "RECALLING"
          /\ intent'.scan = [intent.scan EXCEPT ![p] = "RESERVED"]
          /\ intent'.scanRetry = intent.scanRetry
          /\ intent'.classes = intent.classes /\ intent'.calls = intent.calls
          /\ intent'.retryUsed = intent.retryUsed
      BY <1>2, <1>3, <2>2, <3>1 DEF IntentTyped, Calls
    <3>3. intent.scan \in [Pages -> Calls] BY Typed
    <3>4. DrainTyped' /\ w'.at = "asking"
      BY <1>3, <2>2 DEF DrainTyped, Places
    <3>5. Place' = "asking" BY <3>4 DEF Place, Looking
    <3>6. InStage' /\ BodiesRead'
      BY <1>1, <2>1, <3>2, <3>4, <3>5 DEF InStage, BodiesRead, ScanPlaces, Looking
    <3>7. Members(intent.plan)' = Members(intent.plan) /\ ScanPages' = ScanPages
      BY <3>2, ScanParts
    <3>8. OpenScanPages' = OpenScanPages
      <4>1. \A q \in ScanPages : intent'.scan[q] # "SUCCEEDED" <=> intent.scan[q] # "SUCCEEDED"
        BY <1>7, <3>2, <3>3 DEF p, Core, PlanFits
      <4> QED BY <3>7, <4>1, Zenon DEF OpenScanPages
    <3>9. Min(OpenScanPages)' = p BY <3>8, Zenon DEF p
    <3>10. PlanFits' /\ Scanned'
      BY <1>2, <3>2, <3>5, <3>7 DEF Core, PlanFits, Scanned, Behind, Terminal
    <3>11. Classified'
      <4> SUFFICES ASSUME NEW c \in Candidates, c \in Members(intent.plan)
                   PROVE  intent'.scan[PageOf(c, Members(intent.plan))] = "SUCCEEDED"
                              <=> intent.scan[PageOf(c, Members(intent.plan))] = "SUCCEEDED"
        BY <3>2, <3>7, Zenon DEF Core, Classified
      <4>1. PageOf(c, Members(intent.plan)) \in Pages
        BY Zenon DEF Core, PlanFits, ScanPages, PagesOf
      <4> HIDE DEF PageOf
      <4> QED BY <1>7, <3>2, <3>3, <4>1 DEF p
    <3>12. /\ asked["scan"] \in [Pages -> Nat] /\ asked["coverage"] \in [Pages -> Nat]
      BY Typed
    <3>13. ScanCounted'
      <4>1. ASSUME NEW q \in Pages
            PROVE  asked["scan"][q] <=
                      (IF intent'.scan[q] = "none" \/ q = p THEN 0 ELSE 1)
                         + (IF intent.scanRetry = q THEN 1 ELSE 0)
        <5>1. asked["scan"][q] <= (IF intent.scan[q] = "none" THEN 0 ELSE 1)
                                     + (IF intent.scanRetry = q THEN 1 ELSE 0)
          BY <1>1 DEF Core, ScanCounted
        <5>2. q # p => intent'.scan[q] = intent.scan[q] BY <3>2, <3>3
        <5>3. intent.scan[p] = "none" BY <1>7 DEF p
        <5> QED BY <5>1, <5>2, <5>3
      <4>2. intent'.scan[p] = "RESERVED" /\ p \in OpenScanPages'
        BY <3>1, <3>2, <3>3, <3>8
      <4>3. ~Retryable' BY <3>2 DEF Retryable
      <4> QED BY <1>1, <3>2, <3>4, <3>9, <4>1, <4>2, <4>3 DEF ScanCounted
    <3>14. CoverageCounted'
      BY <1>1, <1>2, <3>2, <3>4, <3>12 DEF Core, CoverageCounted, Retryable
    <3>15. Judged' /\ AskedTyped'
      BY <1>1, <3>2 DEF Core, Judged, AskedTyped
    <3> QED BY <3>2, <3>4, <3>6, <3>10, <3>11, <3>13, <3>14, <3>15 DEF Core
  <2> HIDE DEF p
  <2> QED BY <1>1, <2>1, <2>2, Idled
<1> QED BY <1>4, <1>5, <1>6, <1>7

(* A call was made: the count of its page goes up. *)
LEMMA ScanAsked ==
  ASSUME Core, w.at = "asking", NEW p, p = Min(OpenScanPages),
         asked' = [asked EXCEPT !["scan"][p] = @ + 1]
  PROVE  /\ intent.status = "RECALLING" /\ intent.plan.ok /\ up
         /\ p \in Pages /\ p \in ScanPages /\ intent.scan[p] = "RESERVED"
         /\ AskedTyped' /\ asked'["coverage"] = asked["coverage"]
         /\ \A q \in Pages :
               asked'["scan"][q] <= (IF intent.scan[q] = "none" THEN 0 ELSE 1)
                                       + (IF intent.scanRetry = q THEN 1 ELSE 0)
<1>1. intent.status = "RECALLING" /\ Place = "asking" /\ intent.plan.ok /\ up
  BY AtWork DEF Looking, CoveragePlaces, Core, PlanFits
<1>2. OpenScanPages # {} /\ intent.scan[p] = "RESERVED"
  BY DEF Core, ScanCounted
<1>3. p \in Pages /\ p \in ScanPages BY <1>2, FirstOpenPage
<1>4. AskedTyped /\ asked["scan"] \in [Pages -> Nat] BY Typed DEF Core
<1>5. AskedTyped' /\ asked'["coverage"] = asked["coverage"]
      /\ asked'["scan"] = [asked["scan"] EXCEPT ![p] = @ + 1]
  BY <1>3, <1>4 DEF AskedTyped
<1>6. ASSUME NEW q \in Pages
      PROVE  asked'["scan"][q] <= (IF intent.scan[q] = "none" THEN 0 ELSE 1)
                                     + (IF intent.scanRetry = q THEN 1 ELSE 0)
  <2>1. asked["scan"][q] <= (IF intent.scan[q] = "none" \/ q = p THEN 0 ELSE 1)
                               + (IF intent.scanRetry = q THEN 1 ELSE 0)
    BY DEF Core, ScanCounted
  <2>2. q # p => asked'["scan"][q] = asked["scan"][q] BY <1>4, <1>5
  <2>3. asked'["scan"][p] = asked["scan"][p] + 1 /\ asked["scan"][q] \in Nat
    BY <1>3, <1>4, <1>5
  <2> QED BY <1>2, <2>1, <2>2, <2>3
<1> QED BY <1>1, <1>2, <1>3, <1>5, <1>6

(* The classes of one page are new. *)
PageClassified(classes, p) ==
    \A c \in Candidates :
        IF c \in Members(intent.plan) /\ PageOf(c, Members(intent.plan)) = p
        THEN classes[c] # "none" ELSE classes[c] = intent.classes[c]

(* The answer was sealed. *)
LEMMA ScanSucceeded ==
  ASSUME Core, w.at = "asking", NEW p, p = Min(OpenScanPages),
         asked' = [asked EXCEPT !["scan"][p] = @ + 1], up' = up,
         NEW classes \in [Candidates -> {"none", "RELEVANT", "UNRELATED"}],
         PageClassified(classes, p),
         intent' = [intent EXCEPT !.scan[p] = "SUCCEEDED", !.classes = classes],
         w' = [w EXCEPT !.at = "page"]
  PROVE Core'
<1>1. /\ intent.status = "RECALLING" /\ intent.plan.ok /\ up
      /\ p \in Pages /\ p \in ScanPages /\ intent.scan[p] = "RESERVED"
      /\ AskedTyped' /\ asked'["coverage"] = asked["coverage"]
      /\ \A q \in Pages :
            asked'["scan"][q] <= (IF intent.scan[q] = "none" THEN 0 ELSE 1)
                                    + (IF intent.scanRetry = q THEN 1 ELSE 0)
  BY ScanAsked
<1>2. DrainTyped /\ IntentTyped BY DEF Core
<1>5. /\ IntentTyped' /\ intent'.plan = intent.plan /\ intent'.status = "RECALLING"
      /\ intent'.scan = [intent.scan EXCEPT ![p] = "SUCCEEDED"]
      /\ intent'.scanRetry = intent.scanRetry
      /\ intent'.classes = classes /\ intent'.calls = intent.calls
      /\ intent'.retryUsed = intent.retryUsed
  BY <1>1, <1>2 DEF IntentTyped, Calls
<1>6. intent.scan \in [Pages -> Calls] BY Typed
<1>7. DrainTyped' /\ w'.at = "page" BY <1>2 DEF DrainTyped, Places
<1>8. Place' = "page" BY <1>7 DEF Place, Looking
<1>9. InStage' /\ BodiesRead'
  BY <1>1, <1>5, <1>7, <1>8 DEF InStage, BodiesRead, ScanPlaces, Looking
<1>10. Members(intent.plan)' = Members(intent.plan) /\ ScanPages' = ScanPages
  BY <1>5, ScanParts
<1>11. PlanFits' /\ Scanned'
  BY <1>1, <1>5, <1>8, <1>10 DEF Core, PlanFits, Scanned, Behind, Terminal
<1>12. Classified'
  <2>1. ASSUME NEW c \in Candidates
        PROVE  classes[c] # "none" <=>
                  /\ c \in Members(intent.plan)
                  /\ intent'.scan[PageOf(c, Members(intent.plan))] = "SUCCEEDED"
    <3>1. intent.classes[c] # "none" <=>
              /\ c \in Members(intent.plan)
              /\ intent.scan[PageOf(c, Members(intent.plan))] = "SUCCEEDED"
      BY Zenon DEF Core, Classified
    <3>2. c \in Members(intent.plan) => PageOf(c, Members(intent.plan)) \in Pages
      BY Zenon DEF Core, PlanFits, ScanPages, PagesOf
    <3> HIDE DEF PageOf, Members
    <3>3. CASE c \in Members(intent.plan) /\ PageOf(c, Members(intent.plan)) = p
      BY <1>1, <1>5, <1>6, <3>3 DEF PageClassified
    <3>4. CASE ~(c \in Members(intent.plan) /\ PageOf(c, Members(intent.plan)) = p)
      <4>1. classes[c] = intent.classes[c] BY <3>4 DEF PageClassified
      <4>2. c \in Members(intent.plan) =>
                intent'.scan[PageOf(c, Members(intent.plan))]
                    = intent.scan[PageOf(c, Members(intent.plan))]
        BY <1>1, <1>5, <1>6, <3>2, <3>4
      <4> QED BY <3>1, <4>1, <4>2
    <3> QED BY <3>3, <3>4
  <2> QED BY <1>5, <1>10, <2>1, Zenon DEF Classified
<1>13. /\ asked["coverage"] \in [Pages -> Nat] BY Typed
<1>14. ScanCounted'
  <2>1. ASSUME NEW q \in Pages
        PROVE  asked'["scan"][q] <= (IF intent'.scan[q] = "none" THEN 0 ELSE 1)
                                       + (IF intent.scanRetry = q THEN 1 ELSE 0)
    <3>1. intent'.scan[q] = "none" => intent.scan[q] = "none"
      BY <1>1, <1>5, <1>6
    <3> QED BY <1>1, <3>1
  <2>2. ~Retryable' BY <1>5 DEF Retryable
  <2> QED BY <1>5, <1>7, <2>1, <2>2 DEF ScanCounted
<1>15. CoverageCounted'
  BY <1>1, <1>5, <1>7, <1>13 DEF Core, CoverageCounted, Retryable
<1>16. Judged' BY <1>5 DEF Judged
<1> QED BY <1>1, <1>5, <1>7, <1>9, <1>11, <1>12, <1>14, <1>15, <1>16 DEF Core

(* The call failed, or its answer could not be used. *)
ScanEnds == {<<"INVALID", "INVALID_CATALOG_SCAN_OUTPUT">>, <<"FAILED", "CATALOG_SCAN_FAILED">>,
             <<"FAILED", "CATALOG_SCAN_TEMPORARY_FAILED">>}

LEMMA ScanFailed ==
  ASSUME Core, w.at = "asking", NEW p, p = Min(OpenScanPages),
         asked' = [asked EXCEPT !["scan"][p] = @ + 1],
         NEW end \in ScanEnds,
         intent' = [intent EXCEPT !.scan[p] = end[1], !.reason = end[2],
                                  !.status = "NEEDS_ATTENTION"],
         w' = Idle
  PROVE Core'
<1>1. /\ intent.status = "RECALLING" /\ intent.plan.ok /\ up
      /\ p \in Pages /\ p \in ScanPages /\ intent.scan[p] = "RESERVED"
      /\ AskedTyped' /\ asked'["coverage"] = asked["coverage"]
      /\ \A q \in Pages :
            asked'["scan"][q] <= (IF intent.scan[q] = "none" THEN 0 ELSE 1)
                                    + (IF intent.scanRetry = q THEN 1 ELSE 0)
  BY ScanAsked
<1>2. IntentTyped /\ intent.scan \in [Pages -> Calls] BY Typed DEF Core
<1>3. /\ end[1] \in {"INVALID", "FAILED"} /\ end[2] \in Reasons
      /\ end[2] = "CATALOG_SCAN_TEMPORARY_FAILED" => end[1] = "FAILED"
  BY DEF ScanEnds, Reasons
<1>4. PICK sort, reason : sort = end[1] /\ reason = end[2] OBVIOUS
<1>5. /\ IntentTyped' /\ intent'.plan = intent.plan /\ intent'.status = "NEEDS_ATTENTION"
      /\ intent'.scan = [intent.scan EXCEPT ![p] = sort] /\ intent'.reason = reason
      /\ intent'.scanRetry = intent.scanRetry
      /\ intent'.classes = intent.classes /\ intent'.calls = intent.calls
      /\ intent'.retryUsed = intent.retryUsed
  BY <1>1, <1>2, <1>3, <1>4 DEF IntentTyped, Calls, Statuses
<1>6. /\ w'.at = "idle" /\ Place' = "idle" /\ w'.pass = 1 /\ w'.todo = {}
  BY PlaceAtIdle
<1>7. DrainTyped' /\ InStage' /\ BodiesRead' /\ Judged'
  BY <1>5, <1>6, IdleTyped DEF DrainTyped, InStage, BodiesRead, Judged, Looking
<1>8. Members(intent.plan)' = Members(intent.plan) /\ ScanPages' = ScanPages
  BY <1>5, ScanParts
<1>9. PlanFits' /\ Scanned'
  BY <1>1, <1>5, <1>6, <1>8 DEF Core, PlanFits, Scanned, Behind, Terminal
<1>10. Classified'
  <2> SUFFICES ASSUME NEW c \in Candidates, c \in Members(intent.plan)
               PROVE  intent'.scan[PageOf(c, Members(intent.plan))] = "SUCCEEDED"
                          <=> intent.scan[PageOf(c, Members(intent.plan))] = "SUCCEEDED"
    BY <1>5, <1>8, Zenon DEF Core, Classified
  <2>1. PageOf(c, Members(intent.plan)) \in Pages
    BY Zenon DEF Core, PlanFits, ScanPages, PagesOf
  <2> HIDE DEF PageOf
  <2> QED BY <1>1, <1>2, <1>3, <1>4, <1>5, <2>1
<1>11. ScanCounted'
  <2>1. ASSUME NEW q \in Pages
        PROVE  asked'["scan"][q] <= (IF intent'.scan[q] = "none" THEN 0 ELSE 1)
                                       + (IF intent.scanRetry = q THEN 1 ELSE 0)
    <3>1. intent'.scan[q] = "none" => intent.scan[q] = "none"
      BY <1>1, <1>2, <1>3, <1>4, <1>5
    <3> QED BY <1>1, <3>1
  <2>2. Retryable' => intent'.scan[p] = "FAILED"
    BY <1>1, <1>2, <1>3, <1>4, <1>5 DEF Retryable
  <2> QED BY <1>1, <1>5, <1>6, <2>1, <2>2 DEF ScanCounted
<1>12. asked["coverage"] \in [Pages -> Nat] BY Typed
<1>13. CoverageCounted'
  BY <1>1, <1>5, <1>6, <1>12 DEF Core, CoverageCounted
<1> QED BY <1>1, <1>5, <1>7, <1>9, <1>10, <1>11, <1>13 DEF Core

(* Neither was written. *)
LEMMA ScanUnwritten ==
  ASSUME Core, w.at = "asking", NEW p, p = Min(OpenScanPages),
         asked' = [asked EXCEPT !["scan"][p] = @ + 1],
         intent' = intent, w' = Idle
  PROVE Core'
<1>1. /\ AskedTyped' /\ asked'["coverage"] = asked["coverage"]
      /\ \A q \in Pages :
            asked'["scan"][q] <= (IF intent.scan[q] = "none" THEN 0 ELSE 1)
                                    + (IF intent.scanRetry = q THEN 1 ELSE 0)
      /\ intent.status = "RECALLING"
  BY ScanAsked
<1>2. /\ w'.at = "idle" /\ Place' = "idle" /\ w'.pass = 1 /\ w'.todo = {}
  BY PlaceAtIdle
<1>3. /\ IntentTyped' /\ Classified'
      /\ ScanPages' = ScanPages /\ OpenScanPages' = OpenScanPages
  BY IntentPartsKept
<1>4. DrainTyped' /\ InStage' /\ BodiesRead' /\ Judged'
  BY <1>1, <1>2, IdleTyped DEF DrainTyped, InStage, BodiesRead, Judged, Looking
<1>5. PlanFits' /\ Scanned' BY <1>2, <1>3 DEF Core, PlanFits, Scanned
<1>6. ScanCounted' BY <1>1, <1>2 DEF ScanCounted, Retryable
<1>7. asked["coverage"] \in [Pages -> Nat] BY Typed
<1>8. CoverageCounted'
  BY <1>1, <1>2, <1>7 DEF Core, CoverageCounted, Retryable
<1> QED BY <1>1, <1>3, <1>4, <1>5, <1>6, <1>8 DEF Core

LEMMA ScanAnswerKeeps ==
  ASSUME Core, ScanAnswer
  PROVE Core'
<1> DEFINE p == Min(OpenScanPages)
           page == {c \in Members(intent.plan) : PageOf(c, Members(intent.plan)) = p}
<1>1. w.at = "asking" /\ asked' = [asked EXCEPT !["scan"][p] = @ + 1]
  BY Zenon DEF ScanAnswer
<1>2. ASSUME NEW new, NEW next, Write(new, next)
      PROVE  /\ up' = up
             /\ \/ intent' = new /\ w' = next
                \/ intent' = intent /\ w' = Idle
  BY <1>2, WriteCases, Zenon
<1>3. \/ \E chosen \in SUBSET page :
            Write([intent EXCEPT !.scan[p] = "SUCCEEDED",
                       !.classes = [c \in Candidates |->
                           IF c \notin page THEN intent.classes[c]
                           ELSE IF c \in chosen THEN "RELEVANT" ELSE "UNRELATED"]],
                  [w EXCEPT !.at = "page"])
      \/ \E end \in ScanEnds :
            Write([intent EXCEPT !.scan[p] = end[1], !.reason = end[2],
                                 !.status = "NEEDS_ATTENTION"], Idle)
  BY Zenon DEF ScanAnswer, ScanEnds
<1>4. CASE intent' = intent /\ w' = Idle BY <1>1, <1>4, ScanUnwritten
<1>5. ASSUME NEW chosen \in SUBSET page,
             Write([intent EXCEPT !.scan[p] = "SUCCEEDED",
                        !.classes = [c \in Candidates |->
                            IF c \notin page THEN intent.classes[c]
                            ELSE IF c \in chosen THEN "RELEVANT" ELSE "UNRELATED"]],
                   [w EXCEPT !.at = "page"])
      PROVE Core'
  <2> DEFINE classes == [c \in Candidates |->
                            IF c \notin page THEN intent.classes[c]
                            ELSE IF c \in chosen THEN "RELEVANT" ELSE "UNRELATED"]
  <2>1. /\ up' = up
        /\ \/ /\ intent' = [intent EXCEPT !.scan[p] = "SUCCEEDED", !.classes = classes]
              /\ w' = [w EXCEPT !.at = "page"]
           \/ intent' = intent /\ w' = Idle
    BY <1>2, <1>5, Zenon
  <2>2. CASE /\ intent' = [intent EXCEPT !.scan[p] = "SUCCEEDED", !.classes = classes]
             /\ w' = [w EXCEPT !.at = "page"]
    <3>1. PICK q, cl : q = p /\ cl = classes OBVIOUS
    <3>2. q = Min(OpenScanPages) /\ asked' = [asked EXCEPT !["scan"][q] = @ + 1]
      BY <1>1, <3>1, Zenon
    <3>3. intent' = [intent EXCEPT !.scan[q] = "SUCCEEDED", !.classes = cl]
      BY <2>2, <3>1, Zenon
    <3>4. cl \in [Candidates -> {"none", "RELEVANT", "UNRELATED"}]
      BY <3>1, Typed
    <3>5. PageClassified(cl, q)
      <4> HIDE DEF PageOf, Members, p
      <4> QED BY <3>1 DEF PageClassified
    <3> HIDE DEF p, page, classes
    <3> QED BY <1>1, <2>1, <2>2, <3>2, <3>3, <3>4, <3>5, ScanSucceeded
  <2> HIDE DEF classes
  <2> QED BY <1>4, <2>1, <2>2
<1>6. ASSUME NEW end \in ScanEnds,
             Write([intent EXCEPT !.scan[p] = end[1], !.reason = end[2],
                                  !.status = "NEEDS_ATTENTION"], Idle)
      PROVE Core'
  <2> DEFINE new == [intent EXCEPT !.scan[p] = end[1], !.reason = end[2],
                                  !.status = "NEEDS_ATTENTION"]
  <2>1. \/ intent' = new /\ w' = Idle
        \/ intent' = intent /\ w' = Idle
    BY <1>2, <1>6, Zenon
  <2>2. CASE intent' = new /\ w' = Idle BY <1>1, <2>2, ScanFailed, Zenon
  <2> HIDE DEF new
  <2> QED BY <1>4, <2>1, <2>2
<1> QED BY <1>3, <1>5, <1>6

----
(* The analysis' own writes. *)

LEMMA WakeCoverageKeeps ==
  ASSUME Core, WakeCoverage
  PROVE Core'
<1> DEFINE new == [intent EXCEPT !.status = "COVERAGE_ANALYZING", !.sealed = FALSE,
                       !.calls = NoCalls, !.decisions = NoDecisions,
                       !.retryUsed = @ \/ intent.status = "COVERAGE_RETRY_AUTHORIZED"]
<1>1. /\ w.at = "idle" /\ asked' = asked /\ up
      /\ \/ Go(Look(Idle, "matched")) /\ intent.status = "COVERAGE_ANALYZING"
         \/ /\ intent.status \in {"COVERAGE_READY", "COVERAGE_RETRY_AUTHORIZED"}
            /\ Write(new, Look(Idle, "matched"))
  BY Zenon DEF WakeCoverage
<1>2. CASE Go(Look(Idle, "matched")) /\ intent.status = "COVERAGE_ANALYZING"
  <2>1. w' = Look(Idle, "matched") /\ intent' = intent /\ up' = up
    BY <1>2, Zenon DEF Go
  <2>2. /\ DrainTyped' /\ w'.at = "first" /\ w'.then = "matched" /\ w'.todo = {}
        /\ w'.pass = 1 /\ Place' = "matched"
    BY <2>1, LookFromIdle DEF LookedFor
  <2>3. InStage' /\ BodiesRead'
    BY <1>1, <1>2, <2>1, <2>2 DEF InStage, BodiesRead, CoveragePlaces, LookedFor
  <2>4. intent.plan.ok BY <1>2 DEF Core, Scanned, Behind
  <2> QED BY <1>1, <1>2, <2>1, <2>2, <2>3, <2>4, GoKeeps
<1>3. CASE /\ intent.status \in {"COVERAGE_READY", "COVERAGE_RETRY_AUTHORIZED"}
           /\ Write(new, Look(Idle, "matched"))
  <2>1. /\ up' = up
        /\ \/ intent' = new /\ w' = Look(Idle, "matched")
           \/ intent' = intent /\ w' = Idle
    BY <1>3, WriteCases, Zenon
  <2>2. CASE intent' = new /\ w' = Look(Idle, "matched")
    <3>1. IntentTyped /\ NoCalls \in [Pages -> Calls]
          /\ NoDecisions \in [Candidates -> {"none", "COVERED", "PARTIAL", "UNRELATED"}]
          /\ intent.retryUsed \in BOOLEAN
      BY Typed DEF Core, NoCalls, NoDecisions, Calls
    <3>2. /\ IntentTyped' /\ intent'.status = "COVERAGE_ANALYZING"
          /\ intent'.plan = intent.plan /\ intent'.scan = intent.scan
          /\ intent'.scanRetry = intent.scanRetry /\ intent'.classes = intent.classes
          /\ intent'.refreshed = intent.refreshed
          /\ intent'.calls = NoCalls
          /\ intent'.retryUsed = (intent.retryUsed \/ intent.status = "COVERAGE_RETRY_AUTHORIZED")
      BY <2>2, <3>1 DEF IntentTyped, Statuses
    <3>3. /\ DrainTyped' /\ w'.at = "first" /\ w'.then = "matched" /\ w'.todo = {}
          /\ w'.pass = 1 /\ Place' = "matched"
      BY <2>2, LookFromIdle DEF LookedFor
    <3> HIDE DEF new
    <3>4. InStage' /\ BodiesRead'
      BY <1>1, <2>1, <3>2, <3>3 DEF InStage, BodiesRead, CoveragePlaces, LookedFor
    <3>5. /\ Members(intent.plan)' = Members(intent.plan)
          /\ ScanPages' = ScanPages /\ OpenScanPages' = OpenScanPages
      BY <3>2, ScanParts
    <3>6. PlanFits' /\ Scanned'
      BY <1>3, <3>2, <3>3, <3>5 DEF Core, PlanFits, Scanned, Behind
    <3>7. Classified' BY <3>2, <3>5, Zenon DEF Core, Classified
    <3>8. /\ asked["scan"] \in [Pages -> Nat] /\ asked["coverage"] \in [Pages -> Nat]
      BY Typed
    <3>9. ScanCounted'
      BY <1>1, <3>2, <3>3, <3>8 DEF Core, ScanCounted, Retryable
    <3>10. CoverageCounted'
      <4>1. ASSUME NEW p \in Pages
            PROVE asked["coverage"][p] <= (IF intent'.retryUsed THEN 1 ELSE 0)
        <5>1. CASE intent.status = "COVERAGE_READY"
          <6>1. intent.calls = NoCalls /\ ~intent.retryUsed
            BY <5>1 DEF Core, CoverageCounted
          <6>2. asked["coverage"][p] <= 0
            BY <1>1, <3>8, <6>1 DEF Core, CoverageCounted, NoCalls
          <6> QED BY <3>8, <6>2
        <5>2. CASE intent.status = "COVERAGE_RETRY_AUTHORIZED"
          BY <3>2, <5>2 DEF Core, CoverageCounted
        <5> QED BY <1>3, <5>1, <5>2
      <4> QED BY <1>1, <3>2, <3>3, <4>1 DEF CoverageCounted, NoCalls, Retryable
    <3>11. Judged'
      <4>1. \A p \in Pages : intent'.calls[p] # "SUCCEEDED"
        BY <3>2 DEF NoCalls
      <4> HIDE DEF PageOf
      <4> QED BY <3>3, <4>1 DEF Judged
    <3>12. AskedTyped' BY <1>1 DEF Core, AskedTyped
    <3> QED BY <3>2, <3>3, <3>4, <3>6, <3>7, <3>9, <3>10, <3>11, <3>12 DEF Core
  <2> HIDE DEF new
  <2> QED BY <1>1, <2>1, <2>2, Idled
<1> HIDE DEF new
<1> QED BY <1>1, <1>2, <1>3

LEMMA LoadedKeeps ==
  ASSUME Core, Loaded
  PROVE Core'
<1>1. w.at = "loaded" /\ asked' = asked /\ up BY Zenon DEF Loaded
<1>2. intent.status = "COVERAGE_ANALYZING" /\ Place = "loaded"
  BY <1>1, AtWork DEF Looking, ScanPlaces
<1>3. \/ \E reason \in {"COVERAGE_CATALOG_CHANGED", "COVERAGE_BUDGET_EXHAUSTED"} :
             Attention(reason)
      \/ Aggregate
      \/ /\ w.pass # 2 /\ CoveragePages \subseteq Pages
         /\ \/ Go([w EXCEPT !.at = "coveragePage"])
            \/ Write([intent EXCEPT !.sealed = TRUE], [w EXCEPT !.at = "coveragePage"])
  BY Zenon DEF Loaded
<1>4. ASSUME NEW reason \in {"COVERAGE_CATALOG_CHANGED", "COVERAGE_BUDGET_EXHAUSTED"},
             Attention(reason)
      PROVE Core'
  <2>1. reason \in Reasons \ {"CATALOG_SCAN_TEMPORARY_FAILED"} /\ w.at # "idle"
    BY <1>1 DEF Reasons
  <2> QED BY <1>1, <1>4, <2>1, AttentionKeeps
<1>5. CASE Aggregate BY <1>1, <1>5, AggregateKeeps
<1>6. CASE /\ w.pass # 2 /\ CoveragePages \subseteq Pages
           /\ \/ Go([w EXCEPT !.at = "coveragePage"])
              \/ Write([intent EXCEPT !.sealed = TRUE], [w EXCEPT !.at = "coveragePage"])
  <2>1. DrainTyped /\ IntentTyped /\ w.pass = 1 BY <1>6, Typed DEF Core
  <2>2. \/ /\ intent' = intent \/ intent' = [intent EXCEPT !.sealed = TRUE]
           /\ w' = [w EXCEPT !.at = "coveragePage"] /\ up' = up
        \/ intent' = intent /\ w' = Idle
    <3>1. ASSUME Write([intent EXCEPT !.sealed = TRUE], [w EXCEPT !.at = "coveragePage"])
          PROVE  /\ up' = up
                 /\ \/ /\ intent' = [intent EXCEPT !.sealed = TRUE]
                       /\ w' = [w EXCEPT !.at = "coveragePage"]
                    \/ intent' = intent /\ w' = Idle
      BY <3>1, WriteCases, Zenon
    <3>2. ASSUME Go([w EXCEPT !.at = "coveragePage"])
          PROVE intent' = intent /\ w' = [w EXCEPT !.at = "coveragePage"] /\ up' = up
      BY <3>2, Zenon DEF Go
    <3> QED BY <1>6, <3>1, <3>2
  <2>3. CASE /\ intent' = intent \/ intent' = [intent EXCEPT !.sealed = TRUE]
             /\ w' = [w EXCEPT !.at = "coveragePage"] /\ up' = up
    <3>1. /\ IntentTyped' /\ SameCalls /\ intent'.status = intent.status
          /\ intent'.recalled = intent.recalled /\ intent'.refreshed = intent.refreshed
          /\ intent'.reason = intent.reason
      BY <2>1, <2>3 DEF IntentTyped, SameCalls
    <3>2. DrainTyped' /\ w'.at = "coveragePage" /\ w'.pass = 1
      BY <2>1, <2>3 DEF DrainTyped, Places
    <3>3. Place' = "coveragePage" BY <3>2 DEF Place, Looking
    <3>4. InStage' /\ BodiesRead'
      BY <1>1, <1>2, <2>3, <3>1, <3>2, <3>3 DEF InStage, BodiesRead, CoveragePlaces, Looking
    <3>5. /\ Members(intent.plan)' = Members(intent.plan)
          /\ ScanPages' = ScanPages /\ OpenScanPages' = OpenScanPages
          /\ Relevant' = Relevant /\ CoveragePages' = CoveragePages
          /\ OpenCoveragePages' = OpenCoveragePages
      BY <3>1, ScanParts, CoverageParts DEF SameCalls
    <3>6. PlanFits' /\ Scanned'
      BY <1>2, <3>1, <3>3, <3>5 DEF Core, PlanFits, Scanned, Behind, SameCalls
    <3>7. Classified'
      BY <3>1, <3>5, Zenon DEF Core, Classified, SameCalls
    <3>8. /\ asked["scan"] \in [Pages -> Nat] /\ asked["coverage"] \in [Pages -> Nat]
      BY Typed
    <3>9. ScanCounted'
      BY <1>1, <1>2, <3>1, <3>2, <3>8 DEF Core, ScanCounted, Retryable, SameCalls
    <3>10. CoverageCounted'
      BY <1>1, <1>2, <3>1, <3>2, <3>8 DEF Core, CoverageCounted, Retryable, SameCalls
    <3>11. Judged'
      <4>1. \A c \in Relevant :
                (intent.calls[PageOf(c, Relevant)] = "SUCCEEDED"
                 /\ PageOf(c, Relevant) \in Pages) => intent.decisions[c] # "none"
        BY <1>2 DEF Core, Judged
      <4>2. \A c \in Relevant' :
                (intent'.calls[PageOf(c, Relevant')] = "SUCCEEDED"
                 /\ PageOf(c, Relevant') \in Pages) => intent'.decisions[c] # "none"
        BY <3>1, <3>5, <4>1, Zenon DEF SameCalls
      <4> QED BY <1>6, <3>2, <3>5, <4>2 DEF Judged
    <3>12. AskedTyped' BY <1>1 DEF Core, AskedTyped
    <3> QED BY <3>1, <3>2, <3>4, <3>6, <3>7, <3>9, <3>10, <3>11, <3>12 DEF Core
  <2> QED BY <1>1, <2>2, <2>3, Idled
<1> QED BY <1>3, <1>4, <1>5, <1>6

LEMMA FirstOpenCoveragePage ==
  ASSUME Core, OpenCoveragePages # {}, intent.status = "COVERAGE_ANALYZING",
         Place \in {"coveragePage", "analysing"}
  PROVE  /\ Min(OpenCoveragePages) \in OpenCoveragePages
         /\ Min(OpenCoveragePages) \in Pages /\ CoveragePages \subseteq Pages
<1>1. OpenCoveragePages \subseteq CoveragePages /\ CoveragePages \subseteq Pages
  BY Zenon DEF OpenCoveragePages, Core, Judged
<1>2. OpenCoveragePages \in SUBSET Nat BY <1>1, CandidatesAreNaturals
<1> QED BY <1>1, <1>2, MinIsMember

LEMMA CoveragePageKeeps ==
  ASSUME Core, CoveragePage
  PROVE Core'
<1> DEFINE p == Min(OpenCoveragePages)
<1>1. w.at = "coveragePage" /\ asked' = asked /\ up
  BY Zenon DEF CoveragePage
<1>2. intent.status = "COVERAGE_ANALYZING" /\ Place = "coveragePage"
  BY <1>1, AtWork DEF Looking, ScanPlaces
<1>3. DrainTyped /\ IntentTyped /\ CoveragePages \subseteq Pages
  BY <1>2 DEF Core, Judged
<1>4. \/ Go(Look([w EXCEPT !.pass = 2], "matched")) /\ OpenCoveragePages = {}
      \/ Go(Idle)
      \/ /\ OpenCoveragePages # {} /\ intent.calls[p] = "none"
         /\ Write([intent EXCEPT !.calls[p] = "RESERVED"], [w EXCEPT !.at = "analysing"])
  BY Zenon DEF CoveragePage
<1>5. CASE Go(Look([w EXCEPT !.pass = 2], "matched")) /\ OpenCoveragePages = {}
  <2>1. /\ w' = [[w EXCEPT !.pass = 2] EXCEPT !.at = "first", !.then = "matched"]
        /\ intent' = intent /\ up' = up
    BY <1>5, Zenon DEF Go, Look
  <2>2. DrainTyped' /\ w'.at = "first" /\ w'.then = "matched"
    BY <1>3, <2>1 DEF DrainTyped, Places, Looking
  <2>3. Place' = "matched" BY <2>2 DEF Place, Looking
  <2>4. InStage' /\ BodiesRead'
    BY <1>1, <1>2, <2>1, <2>2, <2>3 DEF InStage, BodiesRead, CoveragePlaces, LookedFor
  <2>5. intent.plan.ok BY <1>2 DEF Core, Scanned, Behind
  <2> QED BY <1>1, <1>2, <1>3, <1>5, <2>1, <2>2, <2>3, <2>4, <2>5, GoKeeps
<1>6. CASE Go(Idle) BY <1>1, <1>6, Idled DEF Go
<1>7. CASE /\ OpenCoveragePages # {} /\ intent.calls[p] = "none"
           /\ Write([intent EXCEPT !.calls[p] = "RESERVED"], [w EXCEPT !.at = "analysing"])
  <2>1. /\ up' = up
        /\ \/ intent' = [intent EXCEPT !.calls[p] = "RESERVED"]
              /\ w' = [w EXCEPT !.at = "analysing"]
           \/ intent' = intent /\ w' = Idle
    BY <1>7, WriteCases, Zenon
  <2>2. CASE intent' = [intent EXCEPT !.calls[p] = "RESERVED"]
             /\ w' = [w EXCEPT !.at = "analysing"]
    <3>1. p \in OpenCoveragePages /\ p \in Pages
      BY <1>2, <1>7, FirstOpenCoveragePage
    <3> HIDE DEF p
    <3>2. /\ IntentTyped' /\ intent'.plan = intent.plan
          /\ intent'.status = "COVERAGE_ANALYZING"
          /\ intent'.calls = [intent.calls EXCEPT ![p] = "RESERVED"]
          /\ intent'.scan = intent.scan /\ intent'.scanRetry = intent.scanRetry
          /\ intent'.classes = intent.classes /\ intent'.refreshed = intent.refreshed
          /\ intent'.retryUsed = intent.retryUsed /\ intent'.decisions = intent.decisions
      BY <1>2, <1>3, <2>2, <3>1 DEF IntentTyped, Calls
    <3>3. intent.calls \in [Pages -> Calls] BY Typed
    <3>4. DrainTyped' /\ w'.at = "analysing" /\ w'.pass = w.pass
      BY <1>3, <2>2 DEF DrainTyped, Places
    <3>5. Place' = "analysing" BY <3>4 DEF Place, Looking
    <3>6. InStage' /\ BodiesRead'
      BY <1>1, <2>1, <3>2, <3>4, <3>5 DEF InStage, BodiesRead, CoveragePlaces, Looking
    <3>7. /\ Members(intent.plan)' = Members(intent.plan)
          /\ ScanPages' = ScanPages /\ OpenScanPages' = OpenScanPages
          /\ Relevant' = Relevant /\ CoveragePages' = CoveragePages
      BY <3>2, ScanParts, CoverageParts
    <3>8. OpenCoveragePages' = OpenCoveragePages
      <4>1. \A q \in CoveragePages :
                intent'.calls[q] # "SUCCEEDED" <=> intent.calls[q] # "SUCCEEDED"
        BY <1>3, <1>7, <3>2, <3>3 DEF p
      <4> QED BY <3>7, <4>1, Zenon DEF OpenCoveragePages
    <3>9. Min(OpenCoveragePages)' = p BY <3>8, Zenon DEF p
    <3>10. PlanFits' /\ Scanned'
      BY <1>2, <3>2, <3>5, <3>7 DEF Core, PlanFits, Scanned, Behind
    <3>11. Classified' BY <3>2, <3>7, Zenon DEF Core, Classified
    <3>12. /\ asked["scan"] \in [Pages -> Nat] /\ asked["coverage"] \in [Pages -> Nat]
      BY Typed
    <3>13. CoverageCounted'
      <4>1. ASSUME NEW q \in Pages
            PROVE  asked["coverage"][q] <=
                      (IF intent'.calls[q] = "none" \/ q = p THEN 0 ELSE 1)
                         + (IF intent.retryUsed THEN 1 ELSE 0)
        <5>1. asked["coverage"][q] <= (IF intent.calls[q] = "none" THEN 0 ELSE 1)
                                         + (IF intent.retryUsed THEN 1 ELSE 0)
          BY <1>1 DEF Core, CoverageCounted
        <5>2. q # p => intent'.calls[q] = intent.calls[q] BY <3>2, <3>3
        <5>3. intent.calls[p] = "none" BY <1>7 DEF p
        <5> QED BY <5>1, <5>2, <5>3
      <4>2. intent'.calls[p] = "RESERVED" /\ p \in OpenCoveragePages'
        BY <3>1, <3>2, <3>3, <3>8
      <4> QED BY <1>1, <3>2, <3>4, <3>9, <4>1, <4>2 DEF CoverageCounted, Retryable
    <3>14. ScanCounted'
      BY <1>1, <1>2, <3>2, <3>4, <3>12 DEF Core, ScanCounted, Retryable
    <3>15. Judged'
      <4>1. ASSUME NEW c \in Relevant, PageOf(c, Relevant) \in Pages,
                   intent'.calls[PageOf(c, Relevant)] = "SUCCEEDED"
            PROVE intent.decisions[c] # "none"
        <5> HIDE DEF PageOf
        <5>1. intent.calls[PageOf(c, Relevant)] = "SUCCEEDED"
          BY <3>1, <3>2, <3>3, <4>1
        <5> QED BY <1>2, <4>1, <5>1 DEF Core, Judged
      <4>2. \A c \in Relevant' :
                (intent'.calls[PageOf(c, Relevant')] = "SUCCEEDED"
                 /\ PageOf(c, Relevant') \in Pages) => intent'.decisions[c] # "none"
        BY <3>2, <3>7, <4>1, Zenon
      <4> QED BY <1>2, <1>3, <3>4, <3>7, <3>8, <4>2 DEF Core, Judged
    <3>16. AskedTyped' BY <1>1 DEF Core, AskedTyped
    <3> QED BY <3>2, <3>4, <3>6, <3>10, <3>11, <3>13, <3>14, <3>15, <3>16 DEF Core
  <2> HIDE DEF p
  <2> QED BY <1>1, <2>1, <2>2, Idled
<1> QED BY <1>4, <1>5, <1>6, <1>7

LEMMA CoverageAsked ==
  ASSUME Core, w.at = "analysing", NEW p, p = Min(OpenCoveragePages),
         asked' = [asked EXCEPT !["coverage"][p] = @ + 1]
  PROVE  /\ intent.status = "COVERAGE_ANALYZING" /\ up /\ Place = "analysing"
         /\ p \in Pages /\ intent.calls[p] = "RESERVED" /\ CoveragePages \subseteq Pages
         /\ p \in OpenCoveragePages
         /\ AskedTyped' /\ asked'["scan"] = asked["scan"]
         /\ \A q \in Pages :
               asked'["coverage"][q] <= (IF intent.calls[q] = "none" THEN 0 ELSE 1)
                                           + (IF intent.retryUsed THEN 1 ELSE 0)
<1>1. intent.status = "COVERAGE_ANALYZING" /\ Place = "analysing" /\ up
  BY AtWork DEF Looking, ScanPlaces
<1>2. OpenCoveragePages # {} /\ intent.calls[p] = "RESERVED"
  BY DEF Core, CoverageCounted
<1>3. p \in Pages /\ CoveragePages \subseteq Pages /\ p \in OpenCoveragePages
  BY <1>1, <1>2, FirstOpenCoveragePage
<1>4. AskedTyped /\ asked["coverage"] \in [Pages -> Nat]
  BY Typed DEF Core
<1>5. AskedTyped' /\ asked'["scan"] = asked["scan"]
      /\ asked'["coverage"] = [asked["coverage"] EXCEPT ![p] = @ + 1]
  BY <1>3, <1>4 DEF AskedTyped
<1>6. ASSUME NEW q \in Pages
      PROVE  asked'["coverage"][q] <= (IF intent.calls[q] = "none" THEN 0 ELSE 1)
                                         + (IF intent.retryUsed THEN 1 ELSE 0)
  <2>1. asked["coverage"][q] <= (IF intent.calls[q] = "none" \/ q = p THEN 0 ELSE 1)
                                   + (IF intent.retryUsed THEN 1 ELSE 0)
    BY DEF Core, CoverageCounted
  <2>2. q # p => asked'["coverage"][q] = asked["coverage"][q]
    BY <1>4, <1>5
  <2>3. asked'["coverage"][p] = asked["coverage"][p] + 1 /\ asked["coverage"][q] \in Nat
    BY <1>3, <1>4, <1>5
  <2> QED BY <1>2, <2>1, <2>2, <2>3
<1> QED BY <1>1, <1>2, <1>3, <1>5, <1>6

(* The decisions of one page are new. *)
PageDecided(decisions, p) ==
    \A c \in Relevant :
        IF PageOf(c, Relevant) = p
        THEN decisions[c] # "none" ELSE decisions[c] = intent.decisions[c]

LEMMA CoverageSucceeded ==
  ASSUME Core, w.at = "analysing", NEW p, p = Min(OpenCoveragePages),
         asked' = [asked EXCEPT !["coverage"][p] = @ + 1], up' = up,
         NEW decisions \in [Candidates -> {"none", "COVERED", "PARTIAL", "UNRELATED"}],
         PageDecided(decisions, p),
         intent' = [intent EXCEPT !.calls[p] = "SUCCEEDED", !.decisions = decisions],
         w' = [w EXCEPT !.at = "coveragePage"]
  PROVE Core'
<1>1. /\ intent.status = "COVERAGE_ANALYZING" /\ up /\ Place = "analysing"
      /\ p \in Pages /\ intent.calls[p] = "RESERVED" /\ CoveragePages \subseteq Pages
      /\ p \in OpenCoveragePages
      /\ AskedTyped' /\ asked'["scan"] = asked["scan"]
      /\ \A q \in Pages :
            asked'["coverage"][q] <= (IF intent.calls[q] = "none" THEN 0 ELSE 1)
                                        + (IF intent.retryUsed THEN 1 ELSE 0)
  BY CoverageAsked
<1>2. DrainTyped /\ IntentTyped /\ intent.calls \in [Pages -> Calls]
  BY Typed DEF Core
<1>3. w.pass = 1
  <2>1. w.pass = 2 => OpenCoveragePages = {} BY <1>1 DEF Core, Judged
  <2> QED BY <1>1, <2>1, Typed
<1>4. /\ IntentTyped' /\ intent'.plan = intent.plan
      /\ intent'.status = "COVERAGE_ANALYZING"
      /\ intent'.calls = [intent.calls EXCEPT ![p] = "SUCCEEDED"]
      /\ intent'.scan = intent.scan /\ intent'.scanRetry = intent.scanRetry
      /\ intent'.classes = intent.classes /\ intent'.refreshed = intent.refreshed
      /\ intent'.retryUsed = intent.retryUsed /\ intent'.decisions = decisions
  BY <1>1, <1>2 DEF IntentTyped, Calls
<1>5. DrainTyped' /\ w'.at = "coveragePage" /\ w'.pass = 1
  BY <1>2, <1>3 DEF DrainTyped, Places
<1>6. Place' = "coveragePage" BY <1>5 DEF Place, Looking
<1>7. InStage' /\ BodiesRead'
  BY <1>1, <1>4, <1>5, <1>6 DEF InStage, BodiesRead, CoveragePlaces, Looking
<1>8. /\ Members(intent.plan)' = Members(intent.plan)
      /\ ScanPages' = ScanPages /\ OpenScanPages' = OpenScanPages
      /\ Relevant' = Relevant /\ CoveragePages' = CoveragePages
  BY <1>4, ScanParts, CoverageParts
<1>9. PlanFits' /\ Scanned'
  BY <1>1, <1>4, <1>6, <1>8 DEF Core, PlanFits, Scanned, Behind
<1>10. Classified' BY <1>4, <1>8, Zenon DEF Core, Classified
<1>11. asked["scan"] \in [Pages -> Nat] BY Typed
<1>12. CoverageCounted'
  <2>1. ASSUME NEW q \in Pages
        PROVE  asked'["coverage"][q] <= (IF intent'.calls[q] = "none" THEN 0 ELSE 1)
                                           + (IF intent.retryUsed THEN 1 ELSE 0)
    <3>1. intent'.calls[q] = "none" => intent.calls[q] = "none"
      BY <1>1, <1>2, <1>4
    <3> QED BY <1>1, <3>1
  <2> QED BY <1>4, <1>5, <2>1 DEF CoverageCounted, Retryable
<1>13. ScanCounted'
  BY <1>1, <1>4, <1>5, <1>11 DEF Core, ScanCounted, Retryable
<1>14. Judged'
  <2>1. ASSUME NEW c \in Relevant, PageOf(c, Relevant) \in Pages,
               intent'.calls[PageOf(c, Relevant)] = "SUCCEEDED"
        PROVE decisions[c] # "none"
    <3> HIDE DEF PageOf
    <3>1. CASE PageOf(c, Relevant) = p BY <3>1 DEF PageDecided
    <3>2. CASE PageOf(c, Relevant) # p
      <4>1. intent.calls[PageOf(c, Relevant)] = "SUCCEEDED"
        BY <1>1, <1>2, <1>4, <2>1, <3>2
      <4>2. intent.decisions[c] # "none"
        BY <1>1, <2>1, <4>1 DEF Core, Judged
      <4> QED BY <3>2, <4>2 DEF PageDecided
    <3> QED BY <3>1, <3>2
  <2>2. \A c \in Relevant' :
            (intent'.calls[PageOf(c, Relevant')] = "SUCCEEDED"
             /\ PageOf(c, Relevant') \in Pages) => intent'.decisions[c] # "none"
    BY <1>4, <1>8, <2>1, Zenon
  <2> QED BY <1>1, <1>5, <1>8, <2>2 DEF Judged
<1> QED BY <1>1, <1>4, <1>5, <1>7, <1>9, <1>10, <1>12, <1>13, <1>14 DEF Core

LEMMA CoverageFailed ==
  ASSUME Core, w.at = "analysing", NEW p, p = Min(OpenCoveragePages),
         asked' = [asked EXCEPT !["coverage"][p] = @ + 1],
         NEW reason \in {"COVERAGE_CALL_FAILED", "INVALID_COVERAGE_OUTPUT"},
         intent' = [intent EXCEPT !.calls[p] = "FAILED", !.reason = reason,
                                  !.status = "NEEDS_ATTENTION"],
         w' = Idle
  PROVE Core'
<1>1. /\ intent.status = "COVERAGE_ANALYZING" /\ up
      /\ p \in Pages /\ intent.calls[p] = "RESERVED"
      /\ AskedTyped' /\ asked'["scan"] = asked["scan"]
      /\ \A q \in Pages :
            asked'["coverage"][q] <= (IF intent.calls[q] = "none" THEN 0 ELSE 1)
                                        + (IF intent.retryUsed THEN 1 ELSE 0)
  BY CoverageAsked
<1>2. IntentTyped /\ intent.calls \in [Pages -> Calls] BY Typed DEF Core
<1>3. /\ IntentTyped' /\ intent'.plan = intent.plan /\ intent'.status = "NEEDS_ATTENTION"
      /\ intent'.calls = [intent.calls EXCEPT ![p] = "FAILED"] /\ intent'.reason = reason
      /\ intent'.scan = intent.scan /\ intent'.scanRetry = intent.scanRetry
      /\ intent'.classes = intent.classes /\ intent'.retryUsed = intent.retryUsed
  BY <1>1, <1>2 DEF IntentTyped, Calls, Statuses, Reasons
<1>4. ~Retryable' BY <1>3 DEF Retryable
<1>5. /\ w'.at = "idle" /\ Place' = "idle" /\ w'.pass = 1 /\ w'.todo = {}
  BY PlaceAtIdle
<1>6. DrainTyped' /\ InStage' /\ BodiesRead' /\ Judged'
  BY <1>3, <1>5, IdleTyped DEF DrainTyped, InStage, BodiesRead, Judged, Looking
<1>7. /\ Members(intent.plan)' = Members(intent.plan)
      /\ ScanPages' = ScanPages /\ OpenScanPages' = OpenScanPages
  BY <1>3, ScanParts
<1>8. PlanFits' /\ Scanned'
  BY <1>1, <1>3, <1>5, <1>7 DEF Core, PlanFits, Scanned, Behind, Terminal
<1>9. Classified' BY <1>3, <1>7, Zenon DEF Core, Classified
<1>10. CoverageCounted'
  <2>1. ASSUME NEW q \in Pages
        PROVE  asked'["coverage"][q] <= (IF intent'.calls[q] = "none" THEN 0 ELSE 1)
                                           + (IF intent.retryUsed THEN 1 ELSE 0)
    <3>1. intent'.calls[q] = "none" => intent.calls[q] = "none"
      BY <1>1, <1>2, <1>3
    <3> QED BY <1>1, <3>1
  <2> QED BY <1>3, <1>4, <1>5, <2>1 DEF CoverageCounted
<1>11. asked["scan"] \in [Pages -> Nat] BY Typed
<1>12. ScanCounted'
  BY <1>1, <1>3, <1>4, <1>5, <1>11 DEF Core, ScanCounted
<1> QED BY <1>1, <1>3, <1>6, <1>8, <1>9, <1>10, <1>12 DEF Core

LEMMA CoverageUnwritten ==
  ASSUME Core, w.at = "analysing", NEW p, p = Min(OpenCoveragePages),
         asked' = [asked EXCEPT !["coverage"][p] = @ + 1],
         intent' = intent, w' = Idle
  PROVE Core'
<1>1. /\ AskedTyped' /\ asked'["scan"] = asked["scan"]
      /\ intent.status = "COVERAGE_ANALYZING"
      /\ \A q \in Pages :
            asked'["coverage"][q] <= (IF intent.calls[q] = "none" THEN 0 ELSE 1)
                                        + (IF intent.retryUsed THEN 1 ELSE 0)
  BY CoverageAsked
<1>2. /\ w'.at = "idle" /\ Place' = "idle" /\ w'.pass = 1 /\ w'.todo = {}
  BY PlaceAtIdle
<1>3. /\ IntentTyped' /\ Classified'
      /\ ScanPages' = ScanPages /\ OpenScanPages' = OpenScanPages
      /\ Relevant' = Relevant /\ CoveragePages' = CoveragePages
      /\ OpenCoveragePages' = OpenCoveragePages
  BY IntentPartsKept
<1>4. DrainTyped' /\ InStage' /\ BodiesRead'
  BY <1>2, IdleTyped DEF DrainTyped, InStage, BodiesRead, Looking
<1>5. PlanFits' /\ Scanned' BY <1>2, <1>3 DEF Core, PlanFits, Scanned
<1>6. CoverageCounted' BY <1>1, <1>2 DEF CoverageCounted, Retryable
<1>7. asked["scan"] \in [Pages -> Nat] BY Typed
<1>8. ScanCounted' BY <1>1, <1>2, <1>7 DEF Core, ScanCounted, Retryable
<1>9. Judged' BY <1>1, <1>2, <1>3 DEF Core, Judged
<1> QED BY <1>1, <1>3, <1>4, <1>5, <1>6, <1>8, <1>9 DEF Core

LEMMA CoverageAnswerKeeps ==
  ASSUME Core, CoverageAnswer
  PROVE Core'
<1> DEFINE p == Min(OpenCoveragePages)
           page == {c \in Relevant : PageOf(c, Relevant) = p}
<1>1. w.at = "analysing" /\ asked' = [asked EXCEPT !["coverage"][p] = @ + 1]
  BY Zenon DEF CoverageAnswer
<1>2. ASSUME NEW new, NEW next, Write(new, next)
      PROVE  /\ up' = up
             /\ \/ intent' = new /\ w' = next
                \/ intent' = intent /\ w' = Idle
  BY <1>2, WriteCases, Zenon
<1>3. \/ \E answer \in [page -> {"COVERED", "PARTIAL", "UNRELATED"}] :
            Write([intent EXCEPT !.calls[p] = "SUCCEEDED",
                       !.decisions = [c \in Candidates |->
                           IF c \in page THEN answer[c] ELSE intent.decisions[c]]],
                  [w EXCEPT !.at = "coveragePage"])
      \/ \E reason \in {"COVERAGE_CALL_FAILED", "INVALID_COVERAGE_OUTPUT"} :
            Write([intent EXCEPT !.calls[p] = "FAILED", !.reason = reason,
                                 !.status = "NEEDS_ATTENTION"], Idle)
  BY Zenon DEF CoverageAnswer
<1>4. CASE intent' = intent /\ w' = Idle
  BY <1>1, <1>4, CoverageUnwritten
<1>5. ASSUME NEW answer \in [page -> {"COVERED", "PARTIAL", "UNRELATED"}],
             Write([intent EXCEPT !.calls[p] = "SUCCEEDED",
                        !.decisions = [c \in Candidates |->
                            IF c \in page THEN answer[c] ELSE intent.decisions[c]]],
                   [w EXCEPT !.at = "coveragePage"])
      PROVE Core'
  <2> DEFINE decisions == [c \in Candidates |->
                              IF c \in page THEN answer[c] ELSE intent.decisions[c]]
  <2>1. /\ up' = up
        /\ \/ /\ intent' = [intent EXCEPT !.calls[p] = "SUCCEEDED", !.decisions = decisions]
              /\ w' = [w EXCEPT !.at = "coveragePage"]
           \/ intent' = intent /\ w' = Idle
    BY <1>2, <1>5, Zenon
  <2>2. CASE /\ intent' = [intent EXCEPT !.calls[p] = "SUCCEEDED", !.decisions = decisions]
             /\ w' = [w EXCEPT !.at = "coveragePage"]
    <3>1. PICK q, ds : q = p /\ ds = decisions OBVIOUS
    <3>2. q = Min(OpenCoveragePages) /\ asked' = [asked EXCEPT !["coverage"][q] = @ + 1]
      BY <1>1, <3>1, Zenon
    <3>3. intent' = [intent EXCEPT !.calls[q] = "SUCCEEDED", !.decisions = ds]
      BY <2>2, <3>1, Zenon
    <3>4. ds \in [Candidates -> {"none", "COVERED", "PARTIAL", "UNRELATED"}]
      BY <3>1, Typed
    <3>5. PageDecided(ds, q)
      <4> SUFFICES ASSUME NEW c \in Relevant
                   PROVE  IF PageOf(c, Relevant) = p
                          THEN decisions[c] # "none" ELSE decisions[c] = intent.decisions[c]
        BY <3>1, Zenon DEF PageDecided
      <4>1. c \in Candidates BY DEF Relevant
      <4> HIDE DEF PageOf, p
      <4> QED BY <4>1
    <3> HIDE DEF p, page, decisions
    <3> QED BY <1>1, <2>1, <2>2, <3>2, <3>3, <3>4, <3>5, CoverageSucceeded, Zenon
  <2> HIDE DEF decisions
  <2> QED BY <1>4, <2>1, <2>2
<1>6. ASSUME NEW reason \in {"COVERAGE_CALL_FAILED", "INVALID_COVERAGE_OUTPUT"},
             Write([intent EXCEPT !.calls[p] = "FAILED", !.reason = reason,
                                  !.status = "NEEDS_ATTENTION"], Idle)
      PROVE Core'
  <2> DEFINE new == [intent EXCEPT !.calls[p] = "FAILED", !.reason = reason,
                                  !.status = "NEEDS_ATTENTION"]
  <2>1. \/ intent' = new /\ w' = Idle
        \/ intent' = intent /\ w' = Idle
    BY <1>2, <1>6, Zenon
  <2>2. CASE intent' = new /\ w' = Idle
    BY <1>1, <2>2, CoverageFailed, Zenon
  <2> HIDE DEF new
  <2> QED BY <1>4, <2>1, <2>2
<1> QED BY <1>3, <1>5, <1>6

----
(* The user, a crash and a restart. *)

LEMMA Elsewhere ==
  ASSUME Core, ~up \/ intent.status \notin {"RECALLING", "COVERAGE_ANALYZING"}
  PROVE w = Idle /\ w.at = "idle" /\ Place = "idle"
<1>1. w = Idle BY DEF Core, InStage
<1> QED BY <1>1, IdleFields DEF Place, Looking

LEMMA RetryCatalogKeeps ==
  ASSUME Core, RetryCatalog
  PROVE Core'
<1> DEFINE p == CHOOSE q \in Pages : intent.scan[q] = "FAILED"
<1>1. /\ up /\ Retryable /\ intent.status = "NEEDS_ATTENTION" /\ intent.scanRetry = 0
      /\ intent' = [intent EXCEPT !.status = "RECALLING", !.reason = "none",
                                  !.scanRetry = p, !.scan[p] = "none"]
      /\ w' = w /\ up' = up /\ asked' = asked
  BY Zenon DEF RetryCatalog, Retryable
<1>2. p \in Pages /\ intent.scan[p] = "FAILED"
  <2>1. \E q \in Pages : intent.scan[q] = "FAILED"
    BY <1>1 DEF Core, ScanCounted
  <2> QED BY <2>1, Zenon
<1> HIDE DEF p
<1>3. w = Idle /\ w.at = "idle" /\ Place = "idle" BY <1>1, Elsewhere
<1>4. IntentTyped /\ intent.scan \in [Pages -> Calls] /\ p \in Nat
  BY <1>2, Typed, CandidatesAreNaturals DEF Core
<1>5. /\ IntentTyped' /\ intent'.plan = intent.plan /\ intent'.status = "RECALLING"
      /\ intent'.scan = [intent.scan EXCEPT ![p] = "none"] /\ intent'.scanRetry = p
      /\ intent'.classes = intent.classes /\ intent'.calls = intent.calls
      /\ intent'.retryUsed = intent.retryUsed
  BY <1>1, <1>2, <1>4 DEF IntentTyped, Calls, Statuses, Reasons
<1>6. Place' = "idle" /\ w'.at = "idle" /\ DrainTyped' /\ AskedTyped'
  BY <1>1, <1>3 DEF Core, Place, DrainTyped, AskedTyped, Looking
<1>7. InStage' /\ BodiesRead' /\ Judged'
  BY <1>1, <1>3, <1>5, <1>6 DEF InStage, BodiesRead, Judged, Looking
<1>8. Members(intent.plan)' = Members(intent.plan) /\ ScanPages' = ScanPages
  BY <1>5, ScanParts
<1>9. intent.plan.ok
  <2>1. NoCalls[p] = "none" BY <1>2 DEF NoCalls
  <2> QED BY <1>2, <2>1 DEF Core, PlanFits
<1>10. PlanFits' /\ Scanned'
  BY <1>5, <1>6, <1>8, <1>9 DEF Core, PlanFits, Scanned, Behind, Terminal
<1>11. Classified'
  <2> SUFFICES ASSUME NEW c \in Candidates, c \in Members(intent.plan)
               PROVE  intent'.scan[PageOf(c, Members(intent.plan))] = "SUCCEEDED"
                          <=> intent.scan[PageOf(c, Members(intent.plan))] = "SUCCEEDED"
    BY <1>5, <1>8, Zenon DEF Core, Classified
  <2>1. PageOf(c, Members(intent.plan)) \in Pages
    BY Zenon DEF Core, PlanFits, ScanPages, PagesOf
  <2> HIDE DEF PageOf
  <2> QED BY <1>2, <1>4, <1>5, <2>1
<1>12. /\ asked["scan"] \in [Pages -> Nat] /\ asked["coverage"] \in [Pages -> Nat]
  BY Typed
<1>13. ScanCounted'
  <2>1. ASSUME NEW q \in Pages
        PROVE  asked["scan"][q] <= (IF intent'.scan[q] = "none" THEN 0 ELSE 1)
                                      + (IF p = q THEN 1 ELSE 0)
    <3>1. intent.scanRetry # q BY <1>1, CandidatesAreNaturals
    <3>2. asked["scan"][q] <= (IF intent.scan[q] = "none" THEN 0 ELSE 1)
      BY <1>3, <1>12, <3>1 DEF Core, ScanCounted
    <3>3. q # p => intent'.scan[q] = intent.scan[q] BY <1>2, <1>4, <1>5
    <3>4. asked["scan"][q] \in Nat BY <1>12
    <3> QED BY <1>2, <3>2, <3>3, <3>4
  <2> QED BY <1>1, <1>5, <1>6, <2>1 DEF ScanCounted, Retryable
<1>14. CoverageCounted'
  BY <1>1, <1>3, <1>5, <1>6, <1>12 DEF Core, CoverageCounted, Retryable
<1> QED BY <1>5, <1>6, <1>7, <1>10, <1>11, <1>13, <1>14 DEF Core

LEMMA DisputeCoverageKeeps ==
  ASSUME Core, DisputeCoverage
  PROVE Core'
<1>1. /\ intent.status = "COVERED_NEEDS_CONFIRMATION" /\ ~intent.retryUsed
      /\ intent' = [intent EXCEPT !.status = "COVERAGE_RETRY_AUTHORIZED", !.retryUsed = TRUE]
      /\ w' = w /\ asked' = asked
  BY Zenon DEF DisputeCoverage
<1>2. w = Idle /\ w.at = "idle" /\ Place = "idle" BY <1>1, Elsewhere
<1>3. IntentTyped BY DEF Core
<1>4. /\ IntentTyped' /\ intent'.plan = intent.plan
      /\ intent'.status = "COVERAGE_RETRY_AUTHORIZED" /\ intent'.refreshed = intent.refreshed
      /\ intent'.scan = intent.scan /\ intent'.scanRetry = intent.scanRetry
      /\ intent'.classes = intent.classes /\ intent'.calls = intent.calls
      /\ intent'.retryUsed = TRUE
  BY <1>1, <1>3 DEF IntentTyped, Statuses
<1>5. Place' = "idle" /\ w'.at = "idle" /\ DrainTyped' /\ AskedTyped'
  BY <1>1, <1>2 DEF Core, Place, DrainTyped, AskedTyped, Looking
<1>6. InStage' /\ BodiesRead' /\ Judged'
  BY <1>1, <1>2, <1>4, <1>5 DEF InStage, BodiesRead, Judged, Looking
<1>7. /\ Members(intent.plan)' = Members(intent.plan)
      /\ ScanPages' = ScanPages /\ OpenScanPages' = OpenScanPages
  BY <1>4, ScanParts
<1>8. PlanFits' /\ Scanned'
  BY <1>1, <1>4, <1>5, <1>7 DEF Core, PlanFits, Scanned, Behind, Terminal
<1>9. Classified' BY <1>4, <1>7, Zenon DEF Core, Classified
<1>10. /\ asked["scan"] \in [Pages -> Nat] /\ asked["coverage"] \in [Pages -> Nat]
  BY Typed
<1>11. ScanCounted'
  BY <1>2, <1>4, <1>5, <1>10, <1>1 DEF Core, ScanCounted, Retryable
<1>12. \A p \in Pages : asked["coverage"][p] <= (IF intent.calls[p] = "none" THEN 0 ELSE 1)
  BY <1>1, <1>2, <1>10 DEF Core, CoverageCounted
<1>13. CoverageCounted'
  BY <1>1, <1>4, <1>5, <1>10, <1>12 DEF CoverageCounted, Retryable
<1> QED BY <1>4, <1>5, <1>6, <1>8, <1>9, <1>11, <1>13 DEF Core

(* A restart: nothing, or a call whose answer nobody knows. *)
LEMMA RestartKeeps ==
  ASSUME Core, Restart
  PROVE Core'
<1> DEFINE scan == [p \in Pages |-> IF intent.scan[p] = "RESERVED" THEN "UNKNOWN"
                                    ELSE intent.scan[p]]
           calls == [p \in Pages |-> IF intent.calls[p] = "RESERVED" THEN "UNKNOWN"
                                     ELSE intent.calls[p]]
<1>1. /\ ~up /\ w' = w /\ asked' = asked
      /\ \/ intent' = intent
         \/ /\ intent.status = "RECALLING"
            /\ \E p \in Pages : intent.scan[p] = "RESERVED"
            /\ intent' = [intent EXCEPT !.status = "NEEDS_ATTENTION",
                              !.reason = "CATALOG_SCAN_OUTCOME_UNKNOWN", !.scan = scan]
         \/ /\ intent.status = "COVERAGE_ANALYZING"
            /\ intent' = [intent EXCEPT !.status = "NEEDS_ATTENTION",
                              !.reason = "COVERAGE_OUTCOME_UNKNOWN", !.calls = calls]
  BY Zenon DEF Restart
<1>2. w = Idle /\ w.at = "idle" /\ Place = "idle" BY <1>1, Elsewhere
<1>3. IntentTyped /\ intent.scan \in [Pages -> Calls] /\ intent.calls \in [Pages -> Calls]
  BY Typed DEF Core
<1>4. /\ asked["scan"] \in [Pages -> Nat] /\ asked["coverage"] \in [Pages -> Nat]
  BY Typed
<1>5. CASE intent' = intent BY <1>1, <1>2, <1>5, Idled
<1>6. CASE /\ intent.status = "RECALLING"
           /\ \E p \in Pages : intent.scan[p] = "RESERVED"
           /\ intent' = [intent EXCEPT !.status = "NEEDS_ATTENTION",
                             !.reason = "CATALOG_SCAN_OUTCOME_UNKNOWN", !.scan = scan]
  <2>1. /\ scan \in [Pages -> Calls]
        /\ \A p \in Pages : /\ scan[p] = "SUCCEEDED" <=> intent.scan[p] = "SUCCEEDED"
                            /\ scan[p] = "none" <=> intent.scan[p] = "none"
    BY <1>3 DEF Calls
  <2> HIDE DEF scan
  <2>2. /\ IntentTyped' /\ intent'.plan = intent.plan
        /\ intent'.status = "NEEDS_ATTENTION"
        /\ intent'.reason = "CATALOG_SCAN_OUTCOME_UNKNOWN"
        /\ intent'.scan = scan /\ intent'.scanRetry = intent.scanRetry
        /\ intent'.classes = intent.classes /\ intent'.calls = intent.calls
        /\ intent'.retryUsed = intent.retryUsed
    BY <1>3, <1>6, <2>1 DEF IntentTyped, Statuses, Reasons
  <2>3. Place' = "idle" /\ w'.at = "idle" /\ DrainTyped' /\ AskedTyped'
    BY <1>1, <1>2 DEF Core, Place, DrainTyped, AskedTyped, Looking
  <2>4. InStage' /\ BodiesRead' /\ Judged'
    BY <1>1, <1>2, <2>2, <2>3 DEF InStage, BodiesRead, Judged, Looking
  <2>5. Members(intent.plan)' = Members(intent.plan) /\ ScanPages' = ScanPages
    BY <2>2, ScanParts
  <2>6. intent.plan.ok
    <3>1. \A p \in Pages : NoCalls[p] = "none" BY DEF NoCalls
    <3> QED BY <1>6, <3>1 DEF Core, PlanFits
  <2>7. PlanFits' /\ Scanned'
    BY <2>2, <2>3, <2>5, <2>6 DEF Core, PlanFits, Scanned, Behind, Terminal
  <2>8. Classified'
    <3> SUFFICES ASSUME NEW c \in Candidates, c \in Members(intent.plan)
                 PROVE  scan[PageOf(c, Members(intent.plan))] = "SUCCEEDED"
                            <=> intent.scan[PageOf(c, Members(intent.plan))] = "SUCCEEDED"
      BY <2>2, <2>5, Zenon DEF Core, Classified
    <3>1. PageOf(c, Members(intent.plan)) \in Pages
      BY Zenon DEF Core, PlanFits, ScanPages, PagesOf
    <3> HIDE DEF PageOf
    <3> QED BY <2>1, <3>1
  <2>9. ScanCounted'
    BY <1>1, <1>2, <1>4, <2>1, <2>2, <2>3 DEF Core, ScanCounted, Retryable
  <2>10. CoverageCounted'
    BY <1>1, <1>2, <1>4, <2>2, <2>3 DEF Core, CoverageCounted, Retryable
  <2> QED BY <2>2, <2>3, <2>4, <2>7, <2>8, <2>9, <2>10 DEF Core
<1>7. CASE /\ intent.status = "COVERAGE_ANALYZING"
           /\ intent' = [intent EXCEPT !.status = "NEEDS_ATTENTION",
                             !.reason = "COVERAGE_OUTCOME_UNKNOWN", !.calls = calls]
  <2>1. /\ calls \in [Pages -> Calls]
        /\ \A p \in Pages : calls[p] = "none" <=> intent.calls[p] = "none"
    BY <1>3 DEF Calls
  <2> HIDE DEF calls
  <2>2. /\ IntentTyped' /\ intent'.plan = intent.plan
        /\ intent'.status = "NEEDS_ATTENTION"
        /\ intent'.reason = "COVERAGE_OUTCOME_UNKNOWN"
        /\ intent'.scan = intent.scan /\ intent'.scanRetry = intent.scanRetry
        /\ intent'.classes = intent.classes /\ intent'.calls = calls
        /\ intent'.retryUsed = intent.retryUsed
    BY <1>3, <1>7, <2>1 DEF IntentTyped, Statuses, Reasons
  <2>3. Place' = "idle" /\ w'.at = "idle" /\ DrainTyped' /\ AskedTyped'
    BY <1>1, <1>2 DEF Core, Place, DrainTyped, AskedTyped, Looking
  <2>4. InStage' /\ BodiesRead' /\ Judged'
    BY <1>1, <1>2, <2>2, <2>3 DEF InStage, BodiesRead, Judged, Looking
  <2>5. /\ Members(intent.plan)' = Members(intent.plan)
        /\ ScanPages' = ScanPages /\ OpenScanPages' = OpenScanPages
    BY <2>2, ScanParts
  <2>6. PlanFits' /\ Scanned'
    BY <1>7, <2>2, <2>3, <2>5 DEF Core, PlanFits, Scanned, Behind, Terminal
  <2>7. Classified' BY <2>2, <2>5, Zenon DEF Core, Classified
  <2>8. ScanCounted'
    BY <1>1, <1>2, <1>4, <2>2, <2>3 DEF Core, ScanCounted, Retryable
  <2>9. CoverageCounted'
    BY <1>1, <1>2, <1>4, <2>1, <2>2, <2>3 DEF Core, CoverageCounted, Retryable
  <2> QED BY <2>2, <2>3, <2>4, <2>6, <2>7, <2>8, <2>9 DEF Core
<1> HIDE DEF scan, calls
<1> QED BY <1>1, <1>5, <1>6, <1>7

(* A step of the world touches nothing that the invariant speaks of. *)
LEMMA CoreUnchanged ==
  ASSUME Core, UNCHANGED <<intent, w, up, asked>>
  PROVE Core'
<1>1. /\ IntentTyped' /\ Classified'
      /\ ScanPages' = ScanPages /\ OpenScanPages' = OpenScanPages
      /\ Relevant' = Relevant /\ CoveragePages' = CoveragePages
      /\ OpenCoveragePages' = OpenCoveragePages
  BY IntentPartsKept
<1>2. DrainTyped' /\ AskedTyped' /\ InStage' /\ Place' = Place
  BY DEF Core, DrainTyped, AskedTyped, InStage, Place
<1>3. PlanFits' /\ Scanned' /\ BodiesRead' /\ Judged'
  BY <1>1, <1>2, Zenon DEF Core, PlanFits, Scanned, BodiesRead, Judged
<1>4. ScanCounted' /\ CoverageCounted'
  BY <1>1, Zenon DEF Core, ScanCounted, CoverageCounted, Retryable
<1> QED BY <1>1, <1>2, <1>3, <1>4 DEF Core

----
(* What the drain does to the world, and to the status. *)

Trouble == troubles' = troubles \/ (CanMove /\ troubles' = troubles + 1)

\* A step decides the intent.
Decides == intent.status \notin Terminal /\ intent'.status \in Terminal

LEMMA WriteDecides ==
  ASSUME NEW new, NEW next, Write(new, next), new.status \notin Terminal
  PROVE Trouble /\ ~Decides
<1>1. /\ intent' = new \/ intent' = intent
      /\ Trouble
  BY WriteCases, Zenon DEF Trouble
<1> QED BY <1>1, Zenon DEF Decides

LEMMA GoDecides ==
  ASSUME NEW next, Go(next)
  PROVE Trouble /\ ~Decides
  BY Zenon DEF Go, Trouble, Decides

LEMMA StatusSet ==
  ASSUME Core, NEW status, NEW reason
  PROVE  /\ [intent EXCEPT !.status = status].status = status
         /\ [intent EXCEPT !.status = status, !.reason = reason].status = status
         /\ intent.status = intent.status
<1>1. IntentTyped BY DEF Core
<1> QED BY <1>1 DEF IntentTyped

LEMMA AttentionDecides ==
  ASSUME Core, NEW reason, Attention(reason)
  PROVE Trouble /\ ~Decides
<1> DEFINE new == [intent EXCEPT !.status = "NEEDS_ATTENTION", !.reason = reason]
<1>1. Write(new, Idle) BY Zenon DEF Attention
<1>2. new.status \notin Terminal BY StatusSet DEF Terminal
<1> HIDE DEF new
<1> QED BY <1>1, <1>2, WriteDecides

LEMMA LooksDecide ==
  ASSUME Core, FirstRuntime \/ ReadPending \/ SecondRuntime \/ ReadBody \/ ReadFile
  PROVE Trouble /\ ~Decides /\ UNCHANGED catalogVars
<1>1. /\ UNCHANGED catalogVars /\ Trouble /\ intent' = intent
  BY Zenon DEF FirstRuntime, ReadPending, SecondRuntime, ReadBody, ReadFile, Go, Trouble
<1> QED BY <1>1, Zenon DEF Decides

LEMMA ScanDecides ==
  ASSUME Core, WakeRecall \/ Plan \/ ScanPage \/ BeforeRead \/ NextCandidate \/ AfterBody
               \/ Recalled
  PROVE Trouble /\ ~Decides /\ UNCHANGED catalogVars
<1>1. IntentTyped BY DEF Core
<1>2. CASE WakeRecall
  <2> DEFINE new == [intent EXCEPT !.status = "RECALLING"]
  <2>1. new.status \notin Terminal BY StatusSet DEF Terminal
  <2>2. Go(Look(Idle, "plan")) \/ Write(new, Look(Idle, "plan"))
    BY <1>2, Zenon DEF WakeRecall
  <2> HIDE DEF new
  <2> QED BY <1>2, <2>1, <2>2, GoDecides, WriteDecides, Zenon DEF WakeRecall
<1>3. CASE Plan
  <2> DEFINE new == [intent EXCEPT !.plan = w.look]
  <2>1. w.at = "plan" BY <1>3, Zenon DEF Plan
  <2>2. new.status \notin Terminal
    <3>1. intent.status = "RECALLING"
      BY <2>1, AtWork DEF CoveragePlaces, Looking
    <3> QED BY <1>1, <3>1 DEF IntentTyped, Terminal
  <2>3. \/ \E reason \in {"CATALOG_INCOMPLETE", "CATALOG_SCAN_BUDGET_EXHAUSTED",
                          "CATALOG_CHANGED"} : Attention(reason)
        \/ Write(new, [w EXCEPT !.at = "page"])
        \/ Go([w EXCEPT !.at = "page"])
    BY <1>3, Zenon DEF Plan
  <2> HIDE DEF new
  <2> QED BY <1>3, <2>2, <2>3, GoDecides, WriteDecides, AttentionDecides, Zenon DEF Plan
<1>4. CASE ScanPage
  <2> DEFINE new == [intent EXCEPT !.scan[Min(OpenScanPages)] = "RESERVED"]
  <2>1. w.at = "page" BY <1>4, Zenon DEF ScanPage
  <2>2. new.status \notin Terminal
    <3>1. intent.status = "RECALLING"
      BY <2>1, AtWork DEF CoveragePlaces, Looking
    <3> QED BY <1>1, <3>1 DEF IntentTyped, Terminal
  <2>3. \/ Write(new, [w EXCEPT !.at = "asking"])
        \/ Go(Look(w, "before")) \/ Go(Idle)
    BY <1>4, Zenon DEF ScanPage
  <2> HIDE DEF new
  <2> QED BY <1>4, <2>2, <2>3, GoDecides, WriteDecides, Zenon DEF ScanPage
<1>5. CASE BeforeRead
  BY <1>5, GoDecides, AttentionDecides, Zenon DEF BeforeRead
<1>6. CASE NextCandidate
  BY <1>6, Zenon DEF NextCandidate, Go, Trouble, Decides
<1>7. CASE AfterBody
  <2>1. UNCHANGED catalogVars BY <1>7, Zenon DEF AfterBody
  <2>2. (\E next : Go(next)) \/ Attention("COVERAGE_BODY_CHANGED")
    BY <1>7, Zenon DEF AfterBody
  <2> QED BY <2>1, <2>2, GoDecides, AttentionDecides, Zenon
<1>8. CASE Recalled
  <2> DEFINE new == [intent EXCEPT !.status = "COVERAGE_READY", !.recalled = w.got]
  <2>1. new.status \notin Terminal BY <1>1 DEF IntentTyped, Terminal
  <2>2. \/ \E reason \in {"CATALOG_CHANGED", "RELEVANT_CANDIDATE_UNAVAILABLE"} :
             Attention(reason)
        \/ Write(new, Idle)
    BY <1>8, Zenon DEF Recalled
  <2> HIDE DEF new
  <2> QED BY <1>8, <2>1, <2>2, WriteDecides, AttentionDecides, Zenon DEF Recalled
<1> QED BY <1>2, <1>3, <1>4, <1>5, <1>6, <1>7, <1>8, Zenon

LEMMA ScanAnswerDecides ==
  ASSUME Core, ScanAnswer
  PROVE Trouble /\ ~Decides /\ UNCHANGED catalogVars
<1>1. IntentTyped BY DEF Core
<1>2. w.at = "asking" /\ UNCHANGED catalogVars BY Zenon DEF ScanAnswer
<1>3. intent.status = "RECALLING"
  BY <1>2, AtWork DEF CoveragePlaces, Looking
<1>4. \E new, next : Write(new, next) /\ new.status \notin Terminal
  <2>1. \/ \E classes, p : Write([intent EXCEPT !.scan[p] = "SUCCEEDED", !.classes = classes],
                              [w EXCEPT !.at = "page"])
        \/ \E sort, reason, p :
              Write([intent EXCEPT !.scan[p] = sort, !.reason = reason,
                                   !.status = "NEEDS_ATTENTION"], Idle)
    BY Zenon DEF ScanAnswer
  <2>2. ASSUME NEW classes, NEW p, Write([intent EXCEPT !.scan[p] = "SUCCEEDED",
                                                  !.classes = classes],
                                         [w EXCEPT !.at = "page"])
        PROVE \E new, next : Write(new, next) /\ new.status \notin Terminal
    <3> DEFINE new == [intent EXCEPT !.scan[p] = "SUCCEEDED", !.classes = classes]
    <3>1. new.status \notin Terminal
      BY <1>1, <1>3 DEF IntentTyped, Terminal
    <3> HIDE DEF new
    <3> QED BY <2>2, <3>1, Zenon DEF new
  <2>3. ASSUME NEW sort, NEW reason, NEW p,
               Write([intent EXCEPT !.scan[p] = sort, !.reason = reason,
                                    !.status = "NEEDS_ATTENTION"], Idle)
        PROVE \E new, next : Write(new, next) /\ new.status \notin Terminal
    <3> DEFINE new == [intent EXCEPT !.scan[p] = sort, !.reason = reason,
                                     !.status = "NEEDS_ATTENTION"]
    <3>1. new.status \notin Terminal BY <1>1 DEF IntentTyped, Terminal
    <3> HIDE DEF new
    <3> QED BY <2>3, <3>1, Zenon DEF new
  <2> QED BY <2>1, <2>2, <2>3, Zenon
<1> QED BY <1>2, <1>4, WriteDecides, Zenon

LEMMA CoverageDecides ==
  ASSUME Core, WakeCoverage \/ StillMatches \/ CoveragePage
  PROVE Trouble /\ ~Decides /\ UNCHANGED catalogVars
<1>1. IntentTyped BY DEF Core
<1>2. CASE WakeCoverage
  <2> DEFINE new == [intent EXCEPT !.status = "COVERAGE_ANALYZING", !.sealed = FALSE,
                       !.calls = NoCalls, !.decisions = NoDecisions,
                       !.retryUsed = @ \/ intent.status = "COVERAGE_RETRY_AUTHORIZED"]
  <2>1. new.status \notin Terminal BY <1>1 DEF IntentTyped, Terminal
  <2>2. Go(Look(Idle, "matched")) \/ Write(new, Look(Idle, "matched"))
    BY <1>2, Zenon DEF WakeCoverage
  <2> HIDE DEF new
  <2> QED BY <1>2, <2>1, <2>2, GoDecides, WriteDecides, Zenon DEF WakeCoverage
<1>3. CASE StillMatches
  BY <1>3, GoDecides, AttentionDecides, Zenon DEF StillMatches
<1>4. CASE CoveragePage
  <2> DEFINE new == [intent EXCEPT !.calls[Min(OpenCoveragePages)] = "RESERVED"]
  <2>1. w.at = "coveragePage" BY <1>4, Zenon DEF CoveragePage
  <2>2. new.status \notin Terminal
    <3>1. intent.status = "COVERAGE_ANALYZING"
      BY <2>1, AtWork DEF ScanPlaces, Looking
    <3> QED BY <1>1, <3>1 DEF IntentTyped, Terminal
  <2>3. \/ Write(new, [w EXCEPT !.at = "analysing"])
        \/ Go(Look([w EXCEPT !.pass = 2], "matched")) \/ Go(Idle)
    BY <1>4, Zenon DEF CoveragePage
  <2> HIDE DEF new
  <2> QED BY <1>4, <2>2, <2>3, GoDecides, WriteDecides, Zenon DEF CoveragePage
<1> QED BY <1>2, <1>3, <1>4

LEMMA CoverageAnswerDecides ==
  ASSUME Core, CoverageAnswer
  PROVE Trouble /\ ~Decides /\ UNCHANGED catalogVars
<1>1. IntentTyped BY DEF Core
<1>2. w.at = "analysing" /\ UNCHANGED catalogVars
  BY Zenon DEF CoverageAnswer
<1>3. intent.status = "COVERAGE_ANALYZING"
  BY <1>2, AtWork DEF ScanPlaces, Looking
<1>4. \E new, next : Write(new, next) /\ new.status \notin Terminal
  <2>1. \/ \E decisions, p :
              Write([intent EXCEPT !.calls[p] = "SUCCEEDED", !.decisions = decisions],
                    [w EXCEPT !.at = "coveragePage"])
        \/ \E reason, p :
              Write([intent EXCEPT !.calls[p] = "FAILED", !.reason = reason,
                                   !.status = "NEEDS_ATTENTION"], Idle)
    BY Zenon DEF CoverageAnswer
  <2>2. ASSUME NEW decisions, NEW p, Write([intent EXCEPT !.calls[p] = "SUCCEEDED",
                                                    !.decisions = decisions],
                                           [w EXCEPT !.at = "coveragePage"])
        PROVE \E new, next : Write(new, next) /\ new.status \notin Terminal
    <3> DEFINE new == [intent EXCEPT !.calls[p] = "SUCCEEDED", !.decisions = decisions]
    <3>1. new.status \notin Terminal
      BY <1>1, <1>3 DEF IntentTyped, Terminal
    <3> HIDE DEF new
    <3> QED BY <2>2, <3>1, Zenon DEF new
  <2>3. ASSUME NEW reason, NEW p,
               Write([intent EXCEPT !.calls[p] = "FAILED", !.reason = reason,
                                    !.status = "NEEDS_ATTENTION"], Idle)
        PROVE \E new, next : Write(new, next) /\ new.status \notin Terminal
    <3> DEFINE new == [intent EXCEPT !.calls[p] = "FAILED", !.reason = reason,
                                     !.status = "NEEDS_ATTENTION"]
    <3>1. new.status \notin Terminal BY <1>1 DEF IntentTyped, Terminal
    <3> HIDE DEF new
    <3> QED BY <2>3, <3>1, Zenon DEF new
  <2> QED BY <2>1, <2>2, <2>3, Zenon
<1> QED BY <1>2, <1>4, WriteDecides, Zenon

(* Only the end of the analysis decides. *)
LEMMA LoadedDecides ==
  ASSUME Core, Loaded
  PROVE  /\ Trouble /\ UNCHANGED catalogVars
         /\ Decides => /\ w.at = "loaded" /\ w.pass = 2 /\ Matches(w.look)
                       /\ \E status : intent' = [intent EXCEPT !.status = status]
<1>1. IntentTyped BY DEF Core
<1>2. w.at = "loaded" /\ UNCHANGED catalogVars BY Zenon DEF Loaded
<1>3. intent.status = "COVERAGE_ANALYZING"
  BY <1>2, AtWork DEF ScanPlaces, Looking
<1>4. \/ \E reason : Attention(reason)
      \/ Matches(w.look) /\ w.pass = 2 /\ Aggregate
      \/ Go([w EXCEPT !.at = "coveragePage"])
      \/ Write([intent EXCEPT !.sealed = TRUE], [w EXCEPT !.at = "coveragePage"])
  BY Zenon DEF Loaded
<1>5. CASE Write([intent EXCEPT !.sealed = TRUE], [w EXCEPT !.at = "coveragePage"])
  <2>1. [intent EXCEPT !.sealed = TRUE].status \notin Terminal
    BY <1>1, <1>3 DEF IntentTyped, Terminal
  <2> QED BY <1>2, <1>5, <2>1, WriteDecides
<1>6. CASE Matches(w.look) /\ w.pass = 2 /\ Aggregate
  <2>1. \/ \E reason : Attention(reason)
        \/ \E status : Write([intent EXCEPT !.status = status], Idle)
    BY <1>6, AggregateCases, Zenon
  <2>2. ASSUME NEW status, Write([intent EXCEPT !.status = status], Idle)
        PROVE  /\ Trouble
               /\ intent' = [intent EXCEPT !.status = status] \/ intent' = intent
    BY <2>2, WriteCases, Zenon DEF Trouble
  <2> QED BY <1>2, <1>6, <2>1, <2>2, AttentionDecides, Zenon DEF Decides
<1> QED BY <1>2, <1>4, <1>5, <1>6, GoDecides, AttentionDecides, Zenon

----
(* The theorems. *)

LEMMA WorldKept ==
  ASSUME IInv, [Next]_vars
  PROVE WorldTyped'
<1> USE DEF WorldTyped
<1>1. WorldTyped /\ Core BY DEF IInv
<1>2. ASSUME UNCHANGED catalogVars, Trouble
      PROVE WorldTyped'
  BY <1>1, <1>2, RecallAssumption DEF catalogVars, Trouble, CanMove
<1>3. CASE Drain
  BY <1>1, <1>2, <1>3, LooksDecide, ScanDecides, ScanAnswerDecides, CoverageDecides,
     CoverageAnswerDecides, LoadedDecides, Zenon DEF Drain
<1>4. CASE RetryCatalog \/ DisputeCoverage \/ Restart
  <2>1. UNCHANGED catalogVars /\ Trouble
    BY <1>4, Zenon DEF RetryCatalog, DisputeCoverage, Restart, Trouble
  <2> QED BY <1>2, <2>1
<1>5. CASE Crash
  <2>1. UNCHANGED catalogVars /\ Trouble
    BY <1>5, Zenon DEF Crash, Trouble
  <2> QED BY <1>2, <2>1
<1>6. CASE EditSkill
  <2>1. /\ CanMove /\ edits' = edits + 1 /\ UNCHANGED <<pend, epoch, journal, troubles>>
    BY <1>6, Zenon DEF EditSkill
  <2>2. sums' \in [Skills -> 0..2] /\ bodies' \in [Skills -> 1..2]
    <3>1. PICK s \in Skills :
             \/ \E v \in (0..2) \ {sums[s]} : sums' = [sums EXCEPT ![s] = v] /\ UNCHANGED bodies
             \/ bodies' = [bodies EXCEPT ![s] = 3 - @] /\ UNCHANGED sums
      BY <1>6, Zenon DEF EditSkill
    <3>2. 3 - bodies[s] \in 1..2 BY <1>1
    <3> QED BY <1>1, <3>1, <3>2
  <2> QED BY <1>1, <2>1, <2>2, RecallAssumption DEF CanMove
<1>7. CASE BeginMutation
  <2>1. /\ ~journal /\ CanMove /\ journal' = TRUE
        /\ UNCHANGED <<sums, bodies, pend, epoch, edits, troubles>>
    BY <1>7, Zenon DEF BeginMutation
  <2>2. MaxMoves \in Nat BY RecallAssumption
  <2>3. epoch + 1 + edits + troubles <= MaxMoves
    BY <1>1, <2>1, <2>2 DEF CanMove
  <2> QED BY <1>1, <2>1, <2>3
<1>8. CASE FinishMutation
  <2>1. /\ journal /\ journal' = FALSE /\ epoch' = epoch + 1
        /\ UNCHANGED <<sums, bodies, edits, troubles>>
        /\ pend' \subseteq Proposals \cup Barriers
    BY <1>1, <1>8 DEF FinishMutation
  <2>2. MaxMoves \in Nat BY RecallAssumption
  <2>3. epoch + 1 + edits + troubles <= MaxMoves BY <1>1, <2>1, <2>2
  <2>4. epoch' + 0 + edits' + troubles' <= MaxMoves /\ epoch' \in Nat
    BY <1>1, <2>1, <2>2, <2>3
  <2>5. epoch' + (IF journal' THEN 1 ELSE 0) + edits' + troubles' <= MaxMoves
    BY <2>1, <2>4
  <2> QED BY <1>1, <2>1, <2>4, <2>5
<1>9. CASE UNCHANGED vars BY <1>1, <1>9 DEF vars
<1> QED BY <1>3, <1>4, <1>5, <1>6, <1>7, <1>8, <1>9 DEF Next

LEMMA CoreKept ==
  ASSUME IInv, [Next]_vars
  PROVE Core'
<1>1. Core /\ WorldTyped BY DEF IInv
<1>2. CASE Drain
  BY <1>1, <1>2, Zenon, FirstRuntimeKeeps, ReadPendingKeeps, SecondRuntimeKeeps,
     ReadBodyKeeps, ReadFileKeeps, WakeRecallKeeps, PlanKeeps, ScanPageKeeps,
     ScanAnswerKeeps, BeforeReadKeeps, NextCandidateKeeps, AfterBodyKeeps, RecalledKeeps,
     WakeCoverageKeeps, StillMatchesKeeps, LoadedKeeps, CoveragePageKeeps,
     CoverageAnswerKeeps DEF Drain
<1>3. CASE RetryCatalog \/ DisputeCoverage \/ Restart
  BY <1>1, <1>3, RetryCatalogKeeps, DisputeCoverageKeeps, RestartKeeps, Zenon
<1>4. CASE Crash BY <1>1, <1>4, Idled, Zenon DEF Crash
<1>5. CASE EditSkill \/ BeginMutation \/ FinishMutation \/ UNCHANGED vars
  <2>1. UNCHANGED <<intent, w, up, asked>>
    BY <1>5, Zenon DEF EditSkill, BeginMutation, FinishMutation, vars
  <2> QED BY <1>1, <2>1, CoreUnchanged
<1> QED BY <1>2, <1>3, <1>4, <1>5, Zenon DEF Next

LEMMA InitHolds == Init => IInv
<1> SUFFICES ASSUME Init PROVE IInv OBVIOUS
<1>1. PICK refreshed \in BOOLEAN, explicit \in BOOLEAN :
          intent = [status |-> "RUN2SKILL_OWNED", reason |-> "none",
                    refreshed |-> refreshed, explicit |-> explicit,
                    plan |-> NoLook, scan |-> NoCalls, scanRetry |-> 0,
                    classes |-> NoDecisions, recalled |-> NoBodies,
                    sealed |-> FALSE, calls |-> NoCalls, decisions |-> NoDecisions,
                    retryUsed |-> FALSE]
  BY Zenon DEF Init
<1>2. /\ intent.status = "RUN2SKILL_OWNED" /\ intent.reason = "none"
      /\ intent.plan = NoLook /\ intent.scan = NoCalls /\ intent.scanRetry = 0
      /\ intent.classes = NoDecisions /\ intent.calls = NoCalls /\ ~intent.retryUsed
  BY <1>1
<1>3. w = Idle /\ asked = [stage \in {"scan", "coverage"} |-> [p \in Pages |-> 0]]
  BY Zenon DEF Init
<1>4. w.at = "idle" /\ Place = "idle" /\ w.todo = {}
  BY <1>3, IdleFields DEF Place, Looking
<1>5. IntentTyped
  <2>1. /\ NoLook \in Looks /\ NoCalls \in [Pages -> Calls]
        /\ NoDecisions \in [Candidates -> {"none", "RELEVANT", "UNRELATED"}]
        /\ NoDecisions \in [Candidates -> {"none", "COVERED", "PARTIAL", "UNRELATED"}]
        /\ NoBodies \in [Candidates -> 0..2]
    BY NoLookTyped DEF NoCalls, NoDecisions, NoBodies, Calls
  <2> QED BY <1>1, <2>1 DEF IntentTyped, Statuses, Reasons
<1>6. DrainTyped /\ AskedTyped /\ InStage /\ BodiesRead /\ Judged
  BY <1>2, <1>3, <1>4, IdleTyped
     DEF DrainTyped, AskedTyped, InStage, BodiesRead, Judged, Looking
<1>7. Members(intent.plan) = {} BY <1>2, NoLookFields
<1>8. PlanFits /\ Scanned
  <2>1. ScanPages = {} BY <1>7, Zenon DEF ScanPages, PagesOf
  <2> QED BY <1>2, <1>4, <2>1, NoLookFields DEF PlanFits, Scanned, Behind, Terminal
<1>9. Classified BY <1>2, <1>7 DEF Classified, NoDecisions
<1>10. ScanCounted /\ CoverageCounted
  BY <1>2, <1>3, <1>4 DEF ScanCounted, CoverageCounted, NoCalls, Retryable
<1>11. WorldTyped
  <2>1. sums = [s \in Skills |-> 1] /\ bodies = [s \in Skills |-> 1]
        /\ pend \subseteq Proposals \cup Barriers
        /\ epoch = 0 /\ edits = 0 /\ troubles = 0 /\ journal = FALSE
    BY DEF Init
  <2>2. MaxMoves \in Nat BY RecallAssumption
  <2>3. sums \in [Skills -> 0..2] /\ bodies \in [Skills -> 1..2] BY <2>1
  <2>4. epoch + (IF journal THEN 1 ELSE 0) + edits + troubles <= MaxMoves
    BY <2>1, <2>2
  <2>5. epoch \in Nat /\ edits \in Nat /\ troubles \in Nat /\ journal \in BOOLEAN
    BY <2>1
  <2> QED BY <2>1, <2>3, <2>4, <2>5, Zenon DEF WorldTyped
<1> QED BY <1>5, <1>6, <1>8, <1>9, <1>10, <1>11 DEF IInv, Core

(* The invariant of the two stages: where the drain stands, what the plan, *)
(* the classes and the calls of the row say, and how often each page was *)
(* sent, agree at every step. *)
THEOREM Inductive == Spec => []IInv
<1>1. IInv /\ [Next]_vars => IInv' BY WorldKept, CoreKept DEF IInv
<1> QED BY <1>1, InitHolds, PTL DEF Spec

(* Every variable keeps to its range, and the bound on moves is kept. *)
THEOREM TypeCorrect == Spec => []TypeOK
<1>1. IInv => TypeOK
  <2> SUFFICES ASSUME IInv PROVE TypeOK OBVIOUS
  <2>1. Core /\ WorldTyped BY DEF IInv
  <2>2. /\ intent.status \in {"RUN2SKILL_OWNED", "RECALLING", "COVERAGE_READY",
             "COVERAGE_ANALYZING", "COVERAGE_RETRY_AUTHORIZED", "NEEDS_ATTENTION",
             "COVERED", "COVERED_NEEDS_CONFIRMATION", "CREATE_AUTHORIZED",
             "MERGE_AUTHORIZED"}
        /\ intent.plan.pend \subseteq Proposals \cup Barriers
    BY <2>1, Typed DEF Statuses, Looks
  <2>3. epoch + edits + troubles <= MaxMoves
    BY <2>1, RecallAssumption DEF WorldTyped
  <2> QED BY <2>1, <2>2, <2>3, Typed DEF TypeOK, WorldTyped
<1> QED BY <1>1, Inductive, PTL

(* However the drain is stopped, resumed and refused, a page of the scan or *)
(* of the analysis goes to a model once, and once more only because the *)
(* user asked (complete-catalog-recall.ts, complete-coverage.ts). *)
THEOREM CalledAtMostOnce == Spec => []CalledOnce
<1>1. IInv => CalledOnce
  <2> SUFFICES ASSUME Core, NEW p \in Pages
               PROVE  /\ asked["scan"][p] <= 1 + (IF intent.scanRetry = p THEN 1 ELSE 0)
                      /\ asked["coverage"][p] <= 1 + (IF intent.retryUsed THEN 1 ELSE 0)
    BY DEF CalledOnce, IInv
  <2>1. asked["scan"] \in [Pages -> Nat] /\ asked["coverage"] \in [Pages -> Nat]
    BY Typed
  <2> QED BY <2>1 DEF Core, ScanCounted, CoverageCounted
<1> QED BY <1>1, Inductive, PTL

(* What a decision was made on. *)
LEMMA DecidesOnThePlan ==
  ASSUME IInv, [Next]_vars, Decides
  PROVE  /\ w.look.ok /\ w.look = intent.plan
         /\ \A c \in Candidates :
               (c \in Members(intent.plan)) <=> (intent.classes[c] # "none")
         /\ \A c \in Relevant :
               intent.decisions[c] # "none" /\ w.got[c] = intent.recalled[c]
         /\ intent.refreshed => intent.plan.epoch = 0
<1>1. Core BY DEF IInv
<1>2. Loaded
  <2>1. CASE Drain
    BY <1>1, <2>1, LooksDecide, ScanDecides, ScanAnswerDecides, CoverageDecides,
       CoverageAnswerDecides, Zenon DEF Drain
  <2>2. CASE RetryCatalog \/ DisputeCoverage \/ Restart
    <3>1. IntentTyped BY <1>1 DEF Core
    <3>2. CASE RetryCatalog
      <4>1. intent'.status = "RECALLING"
        BY <3>1, <3>2 DEF RetryCatalog, IntentTyped
      <4> QED BY <4>1 DEF Decides, Terminal
    <3>3. CASE DisputeCoverage
      <4>1. intent'.status = "COVERAGE_RETRY_AUTHORIZED"
        BY <3>1, <3>3 DEF DisputeCoverage, IntentTyped
      <4> QED BY <4>1 DEF Decides, Terminal
    <3>4. CASE Restart
      <4>1. intent'.status = "NEEDS_ATTENTION" \/ intent' = intent
        BY <3>1, <3>4 DEF Restart, IntentTyped
      <4> QED BY <4>1 DEF Decides, Terminal
    <3> QED BY <2>2, <3>2, <3>3, <3>4
  <2>3. CASE Crash \/ EditSkill \/ BeginMutation \/ FinishMutation \/ UNCHANGED vars
    <3>1. intent' = intent
      BY <2>3, Zenon DEF Crash, EditSkill, BeginMutation, FinishMutation, vars
    <3> QED BY <3>1, Zenon DEF Decides
  <2> QED BY <2>1, <2>2, <2>3, Zenon DEF Next
<1>3. w.at = "loaded" /\ w.pass = 2 /\ Matches(w.look)
  BY <1>1, <1>2, LoadedDecides
<1>4. intent.status = "COVERAGE_ANALYZING" /\ Place = "loaded"
  BY <1>1, <1>3, AtWork DEF Looking, ScanPlaces
<1>5. w.look.ok /\ w.look = intent.plan BY <1>3, Zenon DEF Matches
<1>6. ASSUME NEW c \in Candidates
      PROVE (c \in Members(intent.plan)) <=> (intent.classes[c] # "none")
  <2>1. ASSUME c \in Members(intent.plan)
        PROVE intent.scan[PageOf(c, Members(intent.plan))] = "SUCCEEDED"
    <3>1. PageOf(c, Members(intent.plan)) \in ScanPages
      BY <2>1, Zenon DEF ScanPages, PagesOf
    <3>2. OpenScanPages = {} BY <1>1, <1>4 DEF Core, Scanned, Behind
    <3> HIDE DEF PageOf
    <3> QED BY <3>1, <3>2 DEF OpenScanPages
  <2> QED BY <1>1, <2>1, Zenon DEF Core, Classified
<1>7. ASSUME NEW c \in Relevant
      PROVE intent.decisions[c] # "none" /\ w.got[c] = intent.recalled[c]
  <2>1. OpenCoveragePages = {} /\ CoveragePages \subseteq Pages
    BY <1>1, <1>3, <1>4 DEF Core, Judged
  <2>2. PageOf(c, Relevant) \in CoveragePages
    BY Zenon DEF CoveragePages, PagesOf
  <2>3. intent.calls[PageOf(c, Relevant)] = "SUCCEEDED" /\ PageOf(c, Relevant) \in Pages
    <3> HIDE DEF PageOf
    <3> QED BY <2>1, <2>2 DEF OpenCoveragePages
  <2>4. intent.decisions[c] # "none"
    BY <1>1, <1>4, <2>3, Zenon DEF Core, Judged
  <2>5. w.todo = {} BY <1>1, <1>4 DEF Core, BodiesRead
  <2>6. w.got[c] = intent.recalled[c]
    BY <1>1, <1>4, <2>5 DEF Core, BodiesRead
  <2> QED BY <2>4, <2>6
<1>8. intent.refreshed => intent.plan.epoch = 0
  BY <1>1, <1>4 DEF Core, Scanned, Behind
<1> QED BY <1>5, <1>6, <1>7, <1>8

(* However files, pending candidates and the epoch move between the awaits, *)
(* an intent is decided on the catalog of its plan, with every summary of *)
(* it classified and every relevant body the one that was judged. *)
THEOREM DecidedOnThePlan == Spec => DecidedOnOneCatalog
<1>1. IInv /\ [Next]_vars =>
          [(intent.status \notin Terminal /\ intent'.status \in Terminal) =>
              /\ w.look.ok /\ w.look = intent.plan
              /\ \A c \in Candidates :
                    (c \in Members(intent.plan)) <=> (intent.classes[c] # "none")
              /\ \A c \in Relevant :
                    intent.decisions[c] # "none" /\ w.got[c] = intent.recalled[c]
              /\ intent.refreshed => intent.plan.epoch = 0]_vars
  BY DecidesOnThePlan, Zenon DEF Decides
<1> QED BY <1>1, Inductive, PTL DEF Spec, DecidedOnOneCatalog

====
