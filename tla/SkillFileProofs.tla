---------------------------- MODULE SkillFileProofs ----------------------------
(* Theorems about SkillFile, for every value of its constants.              *)
EXTENDS SkillFile, SequenceTheorems, TLAPS

----
(* The type invariant: the types, the levels that preparing the root has *)
(* left to take, and that a conflict about to be recorded has a code. *)
LevelsLeft ==
    /\ at = "prepare" => binding.reached = binding.depth
    /\ at = "segment" => binding.reached < 2
Coded == {"conflict", "drop", "restore", "release"}
CodeKnown == at \in Coded => code \in Codes
TypeInv == TypeOK /\ LevelsLeft /\ CodeKnown

(* It in parts, each of which an action disturbs or not. *)
FixedTyped == scope \in Scopes /\ medium \in Media /\ kind \in {"CREATE", "MERGE"}
TreeTyped == tree \in [Levels -> Nat \cup {Link}]
BoundTo == [depth : 0 .. 2, id : Nat, reached : 0 .. 2, root : Nat]
BindingTyped == binding \in BoundTo /\ LevelsLeft
DirsTyped == dir \in Nat /\ dirs \in Nat
FilesTyped == bytes \in Seq(Contents) /\ name \in [Path -> 0 .. Len(bytes)]
FlatTyped == flat \in BOOLEAN
RecordTyped == record \in Record /\ torn \subseteq States
ProcessTyped ==
    /\ at \in Pcs /\ code \in Codes \cup {"NONE"}
    /\ published \in BOOLEAN /\ call \in {"publish", "recover", "settled"} /\ answer \in Answers
    /\ CodeKnown
FateTyped == fate \in {"SAFE", "EXPOSED", "LOST"}
OwnerTyped == owned \in Contents \cup {Missing} /\ FateTyped /\ edits \in Nat /\ crashes \in Nat

LEMMA TypeParts ==
  TypeInv <=> /\ FixedTyped /\ TreeTyped /\ BindingTyped /\ DirsTyped /\ FilesTyped
             /\ FlatTyped /\ RecordTyped /\ ProcessTyped /\ OwnerTyped
  BY Zenon
  DEF TypeInv, TypeOK, FixedTyped, TreeTyped, BoundTo, BindingTyped, DirsTyped, FilesTyped, FlatTyped,
      RecordTyped, ProcessTyped, OwnerTyped, FateTyped

LEMMA TypePartsPrime ==
  TypeInv' <=> /\ FixedTyped' /\ TreeTyped' /\ BindingTyped' /\ DirsTyped' /\ FilesTyped'
              /\ FlatTyped' /\ RecordTyped' /\ ProcessTyped' /\ OwnerTyped'
  BY TypeParts, PTL

(* What an action leaves alone keeps its type. *)
LEMMA Kept ==
  ASSUME TypeInv
  PROVE  /\ UNCHANGED <<scope, medium, kind>> => FixedTyped'
         /\ UNCHANGED tree => TreeTyped'
         /\ UNCHANGED <<at, binding>> => BindingTyped'
         /\ UNCHANGED <<dir, dirs>> => DirsTyped'
         /\ UNCHANGED <<name, bytes>> => FilesTyped'
         /\ UNCHANGED flat => FlatTyped'
         /\ SameRecord => RecordTyped'
         /\ UNCHANGED <<at, code, call, answer, published>> => ProcessTyped'
         /\ UNCHANGED <<owned, edits, crashes>> /\ FateTyped' => OwnerTyped'
         /\ UNCHANGED fate => FateTyped'
  BY TypeParts, Zenon
  DEF FixedTyped, TreeTyped, LevelsLeft, BindingTyped, DirsTyped, FilesTyped, FlatTyped, SameRecord,
      RecordTyped, ProcessTyped, CodeKnown, OwnerTyped, FateTyped

(* A step of the process leaves the environment as it is. *)
LEMMA HereKeeps ==
  ASSUME NEW pc, TypeInv, Here(pc)
  PROVE at = pc /\ FixedTyped' /\ FlatTyped' /\ (FateTyped' => OwnerTyped')
  BY Kept, Zenon DEF Here, environment

LEMMA AtKeeps ==
  ASSUME NEW pc, TypeInv, At(pc)
  PROVE at = pc /\ FixedTyped' /\ FlatTyped' /\ OwnerTyped'
  BY HereKeeps, Kept, Zenon DEF At

(* A constant set of moments of the program that no proof needs to list. *)
LEMMA DiskStates ==
  /\ "ROOT_PREPARED" \in States /\ "TARGET_CLAIMED" \in States /\ "STAGED" \in States
  /\ "BACKUP_RESERVING" \in States /\ "BACKUP_RESERVED" \in States /\ "BACKUP_MOVED" \in States
  /\ "RECOVERY_BACKUP_MOVED" \in States /\ "DISK_WRITTEN" \in States
  /\ "FINALIZING" \in States /\ "FINALIZED" \in States
  /\ \A c \in Codes : c \in States
  BY DEF States

LEMMA ConflictCodes ==
  /\ "EXPECTED_ABSENCE_CHANGED" \in Codes /\ "STAGE_CHANGED" \in Codes
  /\ "TARGET_APPEARED" \in Codes /\ "POST_WRITE_MISMATCH" \in Codes
  /\ "BASE_CHANGED" \in Codes /\ "BACKUP_CHANGED" \in Codes /\ "BACKUP_EXISTS" \in Codes
  /\ "RENAME_RACE" \in Codes /\ "BASE_CHANGED_DURING_CUTOVER" \in Codes
  /\ "UNKNOWN_STATE" \in Codes /\ "WITHDRAWAL_TARGET_CHANGED" \in Codes
  /\ "LAYOUT_ALIAS_APPEARED" \in Codes
  BY DEF Codes

LEMMA NoBindingTyped == NoBinding \in BoundTo
  BY DEF NoBinding, BoundTo, Absent

LEMMA ForgetTyped ==
  ASSUME NEW pc, BindingTyped, Forget(pc), at' = pc, pc \notin {"prepare", "segment"}
  PROVE BindingTyped'
  BY NoBindingTyped, Zenon DEF Forget, BindingTyped, LevelsLeft

(* How a step ends keeps the types. *)
Plain == Pcs \ ({"prepare", "segment"} \cup Coded)

LEMMA PlainAre ==
  \A pc \in Plain : pc \in Pcs /\ pc \notin {"prepare", "segment"} /\ pc \notin Coded
  BY DEF Plain

LEMMA GotoTyped ==
  ASSUME NEW pc \in Plain, TypeInv, Goto(pc)
  PROVE ProcessTyped' /\ BindingTyped'
  BY TypeParts, ForgetTyped, PlainAre, Zenon DEF Goto, ProcessTyped, CodeKnown

LEMMA SayTyped ==
  ASSUME NEW a \in Answers, TypeInv, Say(a)
  PROVE ProcessTyped' /\ BindingTyped'
<1>1. "idle" \in Pcs \ Coded BY DEF Pcs, Coded
<1> QED BY <1>1, TypeParts, ForgetTyped, Zenon DEF Say, ProcessTyped, CodeKnown

LEMMA ThrowTyped == TypeInv /\ Throw => ProcessTyped' /\ BindingTyped'
<1>1. "UNAVAILABLE" \in Answers BY DEF Answers
<1> QED BY <1>1, SayTyped, Zenon DEF Throw

LEMMA CodedTyped ==
  ASSUME NEW pc \in Coded, TypeInv, at' = pc, code' \in Codes, Forget(pc),
         UNCHANGED <<call, answer, published>>
  PROVE ProcessTyped' /\ BindingTyped'
<1>1. pc \in Pcs /\ pc \notin {"prepare", "segment"} BY DEF Pcs, Coded
<1> QED BY <1>1, TypeParts, ForgetTyped, Zenon DEF ProcessTyped, CodeKnown

LEMMA FailTyped ==
  ASSUME NEW c \in Codes, TypeInv, Fail(c) \/ PutBack(c)
  PROVE ProcessTyped' /\ BindingTyped'
<1>1. "conflict" \in Coded /\ "restore" \in Coded BY DEF Coded
<1> QED BY <1>1, CodedTyped, Zenon DEF Fail, PutBack

(* From one such moment to another: the code stays. *)
LEMMA GotoCoded ==
  ASSUME NEW pc \in Coded, at \in Coded, TypeInv, Goto(pc)
  PROVE ProcessTyped' /\ BindingTyped'
<1>1. code \in Codes BY TypeParts, Zenon DEF ProcessTyped, CodeKnown
<1> QED BY <1>1, CodedTyped, Zenon DEF Goto

LEMMA BindTyped ==
  ASSUME NEW pc \in Pcs \ Coded, NEW b \in BoundTo, TypeInv, Bind(pc, b),
         pc = "prepare" => b.reached = b.depth, pc = "segment" => b.reached < 2
  PROVE ProcessTyped' /\ BindingTyped'
  BY TypeParts, Zenon DEF Bind, ProcessTyped, CodeKnown, BindingTyped, LevelsLeft

LEMMA JournalTyped ==
  ASSUME NEW s \in States, NEW r \in Record, NEW pc \in Plain, TypeInv, Journal(s, r, pc)
  PROVE ProcessTyped' /\ BindingTyped' /\ RecordTyped'
<1>1. CASE s \in torn BY <1>1, ThrowTyped, Kept, Zenon DEF Journal
<1>2. CASE s \notin torn
  <2>1. record' = [r EXCEPT !.state = s] /\ torn' = {} /\ Goto(pc)
    BY <1>2, Zenon DEF Journal
  <2>2. [r EXCEPT !.state = s] \in Record BY DEF Record
  <2> QED BY <2>1, <2>2, GotoTyped, Zenon DEF RecordTyped
<1> QED BY <1>1, <1>2, Zenon

----
(* What each path holds, and what the operations on files do to it. *)
Paths == [p \in Path |-> Held(p)]

LEMMA HeldOf ==
  /\ Paths["target"] = Held("target") /\ Paths["stage"] = Held("stage")
  /\ Paths["backup"] = Held("backup") /\ Paths["claim"] = Held("claim")
  /\ \A p \in Path : Paths[p] = Held(p)
  BY DEF Paths, Path

LEMMA PathsTyped ==
  ASSUME FilesTyped
  PROVE  /\ \A p \in Path : Paths[p] \in Contents \cup {Missing}
         /\ \A p \in Path : name[p] \in Nat
         /\ \A p \in Path : Paths[p] = Missing <=> name[p] = 0
         /\ \A p \in Path : name[p] # 0 => Paths[p] = bytes[name[p]]
<1> SUFFICES ASSUME NEW p \in Path
             PROVE  /\ Paths[p] \in Contents \cup {Missing} /\ name[p] \in Nat
                    /\ Paths[p] = Missing <=> name[p] = 0
                    /\ name[p] # 0 => Paths[p] = bytes[name[p]]
  BY Zenon
<1>1. name[p] \in 0 .. Len(bytes) /\ Len(bytes) \in Nat
  BY DEF FilesTyped
<1>2. name[p] # 0 => bytes[name[p]] \in Contents BY <1>1 DEF FilesTyped
<1>3. Missing \notin Contents
  BY SkillFileAssumption DEF Missing, Contents
<1>4. Paths[p] = IF name[p] = 0 THEN Missing ELSE bytes[name[p]]
  BY Zenon DEF Paths, Held
<1> QED BY <1>1, <1>2, <1>3, <1>4

(* Two names of one file read alike. *)
LEMMA SharedAlike ==
  ASSUME FilesTyped, NEW p \in Path, NEW q \in Path, name[p] = name[q]
  PROVE Paths[p] = Paths[q]
  BY PathsTyped, Zenon

LEMMA MatchesPaths ==
  ASSUME FilesTyped, NEW p \in Path, NEW id, NEW content
  PROVE Matches(p, id, content) <=> name[p] # 0 /\ name[p] = id /\ Paths[p] = content
  BY PathsTyped, Zenon DEF Matches

LEMMA SameFilesSamePaths == UNCHANGED <<name, bytes>> => UNCHANGED Paths
  BY Zenon DEF Paths, Held

LEMMA ContentsTyped ==
  /\ Base \in Contents /\ Approved \in Contents /\ ClaimMark \in Contents
  /\ Reservation \in Contents
  /\ edits \in Nat /\ edits < MaxEdits => edits + 1 \in Contents
  BY SkillFileAssumption DEF Base, Approved, ClaimMark, Reservation, Contents

LEMMA PathNames == "target" \in Path /\ "stage" \in Path /\ "backup" \in Path /\ "claim" \in Path
  BY DEF Path

(* A new file under one name leaves the other names what they are. *)
LEMMA MadeFiles ==
  ASSUME FilesTyped, NEW p \in Path, NEW c \in Contents, Made(p, c)
  PROVE  /\ FilesTyped' /\ name' = [name EXCEPT ![p] = Len(bytes) + 1]
         /\ Paths' = [Paths EXCEPT ![p] = c]
         /\ name'[p] # 0 /\ \A q \in Path : name[q] # name'[p]
<1>1. /\ bytes' = Append(bytes, c) /\ name' = [name EXCEPT ![p] = Len(bytes) + 1]
      /\ bytes \in Seq(Contents) /\ name \in [Path -> 0 .. Len(bytes)] /\ Len(bytes) \in Nat
  BY DEF FilesTyped, Made
<1>2. /\ bytes' \in Seq(Contents) /\ Len(bytes') = Len(bytes) + 1
      /\ bytes'[Len(bytes) + 1] = c /\ \A i \in 1 .. Len(bytes) : bytes'[i] = bytes[i]
  BY <1>1
<1>3. name' \in [Path -> 0 .. Len(bytes')] /\ name'[p] = Len(bytes) + 1
  BY <1>1, <1>2
<1>4. \A q \in Path : name[q] \in 0 .. Len(bytes) BY <1>1
<1>5. \A q \in Path \ {p} : name'[q] = name[q] BY <1>1
<1>6. \A q \in Path : Held(q)' = IF name'[q] = 0 THEN Missing ELSE bytes'[name'[q]]
  BY Zenon DEF Held
<1>7. \A q \in Path : Held(q)' = IF q = p THEN c ELSE Held(q)
  <2> SUFFICES ASSUME NEW q \in Path PROVE Held(q)' = IF q = p THEN c ELSE Held(q) OBVIOUS
  <2>1. CASE q = p BY <2>1, <1>1, <1>2, <1>3, <1>6
  <2>2. CASE q # p
    <3>1. Held(q)' = IF name[q] = 0 THEN Missing ELSE bytes'[name[q]]
      BY <2>2, <1>5, <1>6
    <3>2. name[q] # 0 => bytes'[name[q]] = bytes[name[q]]
      BY <1>1, <1>2, <1>4
    <3> QED BY <2>2, <3>1, <3>2 DEF Held
  <2> QED BY <2>1, <2>2
<1>8. Paths' = [q \in Path |-> IF q = p THEN c ELSE Held(q)]
  BY <1>7, Zenon DEF Paths
<1>9. Paths' = [Paths EXCEPT ![p] = c] BY <1>8 DEF Paths
<1> QED BY <1>1, <1>2, <1>3, <1>4, <1>9 DEF FilesTyped

LEMMA UnlinkedFiles ==
  ASSUME FilesTyped, NEW ps \in SUBSET Path, name' = Unlinked(ps), UNCHANGED bytes
  PROVE  /\ FilesTyped'
         /\ \A p \in Path : name'[p] = IF p \in ps THEN 0 ELSE name[p]
         /\ \A p \in Path : Paths'[p] = IF p \in ps THEN Missing ELSE Paths[p]
<1>1. FilesTyped' BY DEF FilesTyped, Unlinked
<1>2. \A p \in Path : name'[p] = IF p \in ps THEN 0 ELSE name[p]
  BY DEF Unlinked
<1>3. \A p \in Path : Paths'[p] = IF name'[p] = 0 THEN Missing ELSE bytes[name'[p]]
  BY Zenon DEF Paths, Held
<1>4. \A p \in Path : Paths[p] = IF name[p] = 0 THEN Missing ELSE bytes[name[p]]
  BY Zenon DEF Paths, Held
<1> QED BY <1>1, <1>2, <1>3, <1>4

(* One name takes what another names, which it may give up. *)
LEMMA NameTaken ==
  ASSUME FilesTyped, NEW p \in Path, NEW q \in Path, p # q, UNCHANGED bytes,
         \/ name' = [name EXCEPT ![p] = name[q], ![q] = 0]
         \/ name' = [name EXCEPT ![p] = name[q]]
  PROVE  /\ FilesTyped' /\ name'[p] = name[q] /\ Paths'[p] = Paths[q]
         /\ \A r \in Path \ {p, q} : name'[r] = name[r] /\ Paths'[r] = Paths[r]
         /\ name'[q] # 0 => name'[q] = name[q] /\ Paths'[q] = Paths[q]
         /\ name' = [name EXCEPT ![p] = name[q], ![q] = 0] => name'[q] = 0 /\ Paths'[q] = Missing
         /\ name' = [name EXCEPT ![p] = name[q]] => name'[q] = name[q] /\ Paths'[q] = Paths[q]
<1>1. FilesTyped' BY DEF FilesTyped
<1>2. \A r \in Path : Paths'[r] = IF name'[r] = 0 THEN Missing ELSE bytes[name'[r]]
  BY Zenon DEF Paths, Held
<1>3. \A r \in Path : Paths[r] = IF name[r] = 0 THEN Missing ELSE bytes[name[r]]
  BY Zenon DEF Paths, Held
<1>4. name'[p] = name[q] /\ \A r \in Path \ {p, q} : name'[r] = name[r]
  BY DEF FilesTyped
<1>5. name' = [name EXCEPT ![p] = name[q], ![q] = 0] => name'[q] = 0
  BY DEF FilesTyped
<1>6. name' = [name EXCEPT ![p] = name[q]] => name'[q] = name[q]
  BY DEF FilesTyped
<1> QED BY <1>1, <1>2, <1>3, <1>4, <1>5, <1>6

----
(* The root. *)
LEMMA FreshIdentity == FreshFor(Remembered) \in 1 .. 5 /\ FreshFor(Remembered) \notin Remembered
<1>1. \A a, b, c, d : \E n \in 1 .. 5 : n \notin {a, b, c, d}
  <2> SUFFICES ASSUME NEW a, NEW b, NEW c, NEW d, \A n \in 1 .. 5 : n \in {a, b, c, d}
               PROVE FALSE OBVIOUS
  <2>1. 1 \in {a, b, c, d} /\ 2 \in {a, b, c, d} /\ 3 \in {a, b, c, d}
        /\ 4 \in {a, b, c, d} /\ 5 \in {a, b, c, d} OBVIOUS
  <2> QED BY <2>1
<1>2. \E n \in 1 .. 5 : n \notin Remembered
  BY <1>1, Zenon DEF Remembered
<1> QED BY <1>2, Zenon DEF FreshFor

(* Five identities are enough for the two levels, an observation of them and
   a directory made above the one that is to be made.                        *)
LEMMA FreshBelow ==
  ASSUME tree[1] = Absent, NEW one
  PROVE FreshFor(Remembered \cup {one}) \in 1 .. 5
<1>1. \A b, c, d, e : \E n \in 1 .. 5 : n \notin {b, c, d, e}
  <2> SUFFICES ASSUME NEW b, NEW c, NEW d, NEW e, \A n \in 1 .. 5 : n \in {b, c, d, e}
               PROVE FALSE OBVIOUS
  <2>1. 1 \in {b, c, d, e} /\ 2 \in {b, c, d, e} /\ 3 \in {b, c, d, e}
        /\ 4 \in {b, c, d, e} /\ 5 \in {b, c, d, e} OBVIOUS
  <2> QED BY <2>1
<1>2. PICK n \in 1 .. 5 : n \notin {tree[2], binding.id, binding.root, one}
  BY <1>1, Zenon
<1>3. n # tree[1] BY DEF Absent
<1>4. n \notin Remembered \cup {one} BY <1>2, <1>3, Zenon DEF Remembered
<1> QED BY <1>2, <1>4, Zenon DEF FreshFor

LEMMA FilledTyped == TreeTyped => Filled \in [Levels -> Nat \cup {Link}]
<1> SUFFICES ASSUME TreeTyped PROVE Filled \in [Levels -> Nat \cup {Link}] OBVIOUS
<1> DEFINE one == IF tree[1] = Absent THEN FreshFor(Remembered) ELSE tree[1]
           two == IF tree[2] = Absent THEN FreshFor(Remembered \cup {one}) ELSE tree[2]
<1>1. 1 \in Levels /\ 2 \in Levels /\ Levels = 1 .. 2 BY DEF Levels
<1>2. tree[1] \in Nat \cup {Link} /\ tree[2] \in Nat \cup {Link}
  BY <1>1 DEF TreeTyped
<1>3. one \in Nat \cup {Link} BY <1>2, FreshIdentity
<1>4. tree[1] # Absent => Remembered \cup {one} = Remembered
  BY Zenon DEF Remembered
<1>5. FreshFor(Remembered \cup {one}) \in 1 .. 5
  <2>1. CASE tree[1] = Absent BY <2>1, FreshBelow, Zenon
  <2>2. CASE tree[1] # Absent BY <2>2, <1>4, FreshIdentity, Zenon
  <2> QED BY <2>1, <2>2, Zenon
<1>6. two \in Nat \cup {Link} BY <1>2, <1>5
<1>7. Filled = <<one, two>> BY Zenon DEF Filled
<1> HIDE DEF one, two
<1> QED BY <1>1, <1>3, <1>6, <1>7

LEMMA WithLevelTyped ==
  ASSUME TreeTyped, NEW level \in Levels
  PROVE [tree EXCEPT ![level] = FreshFor(Remembered)] \in [Levels -> Nat \cup {Link}]
<1>1. FreshFor(Remembered) \in Nat BY FreshIdentity
<1> QED BY <1>1 DEF TreeTyped

LEMMA MovedTreesTyped ==
  ASSUME TreeTyped, NEW t \in MovedTrees
  PROVE t \in [Levels -> Nat \cup {Link}]
<1>1. t \in [Levels -> {Absent, Link, FreshFor(Remembered)} \cup {tree[1], tree[2]}]
  BY Zenon DEF MovedTrees
<1>2. FreshFor(Remembered) \in Nat /\ tree[1] \in Nat \cup {Link} /\ tree[2] \in Nat \cup {Link}
  BY FreshIdentity DEF TreeTyped, Levels
<1> QED BY <1>1, <1>2 DEF Absent

LEMMA ReadyIsLocated == "READY" \in Resolutions => Link \notin {tree[1], tree[2]}
  BY Zenon DEF Resolutions, Located

LEMMA ObservedTyped == TreeTyped /\ "READY" \in Resolutions => Observed \in BoundTo
<1> SUFFICES ASSUME TreeTyped, Link \notin {tree[1], tree[2]} PROVE Observed \in BoundTo
  BY ReadyIsLocated, Zenon
<1>1. Depth \in 0 .. 2 BY DEF Depth
<1>2. Identity(Depth) \in Nat
  BY DEF Identity, Depth, TreeTyped, Absent, Levels, Link
<1> QED BY <1>1, <1>2 DEF Observed, BoundTo, Absent

LEMMA ResolutionsAre == Resolutions \subseteq {"READY", "STALE", "UNAVAILABLE"}
<1>1. Located \in {"READY", "STALE", "UNAVAILABLE"} BY Zenon DEF Located
<1> QED BY <1>1, PublicationRootAssumption, Zenon DEF Resolutions

LEMMA AnswersAre ==
  /\ "NONE" \in Answers /\ "PUBLISHED" \in Answers /\ "ABSENT" \in Answers
  /\ "CONFLICT" \in Answers /\ "STALE" \in Answers /\ "UNAVAILABLE" \in Answers
  BY DEF Answers

LEMMA PcsAre ==
  /\ "prepare" \in Pcs \ Coded /\ "segment" \in Pcs \ Coded
  /\ \A pc \in Plain : pc \in Pcs /\ pc \in Pcs \ Coded
  /\ "ancestor" \in Plain /\ "parity" \in Plain /\ "settle" \in Plain /\ "look" \in Plain
  /\ "begin" \in Plain /\ "idle" \in Plain /\ "key" \in Plain /\ "read" \in Plain
  /\ "write" \in Plain /\ "reread" \in Plain /\ "readback" \in Plain /\ "mkdir" \in Plain
  /\ "claiming" \in Plain /\ "claim" \in Plain /\ "stage" \in Plain /\ "staged" \in Plain
  /\ "base" \in Plain /\ "reserving" \in Plain /\ "reserve" \in Plain /\ "reserved" \in Plain
  /\ "move" \in Plain /\ "moved" \in Plain /\ "install" \in Plain /\ "check" \in Plain
  /\ "tidy" \in Plain /\ "written" \in Plain /\ "rereserving" \in Plain
  /\ "rereserve" \in Plain /\ "rereserved" \in Plain /\ "remove" \in Plain
  /\ "removed" \in Plain /\ "relink" \in Plain /\ "recheck" \in Plain /\ "confirm" \in Plain
  /\ "preserve" \in Plain /\ "rebind" \in Plain /\ "dislodge" \in Plain /\ "match" \in Plain
  /\ "withdrawing" \in Plain /\ "withdraw" \in Plain /\ "rmdir" \in Plain /\ "finalizing" \in Plain /\ "final" \in Plain
  /\ "finalized" \in Plain
  BY DEF Plain, Pcs, Coded, Binding

----
(* The process keeps the types. *)
LEMMA Tuples ==
  /\ SameDisk => SameFiles /\ SameRecord
  /\ SameFiles => UNCHANGED tree /\ UNCHANGED <<dir, dirs>> /\ UNCHANGED <<name, bytes>>
  /\ UNCHANGED <<dir, dirs, name, bytes>> => UNCHANGED <<dir, dirs>> /\ UNCHANGED <<name, bytes>>
  /\ UNCHANGED <<tree, dir, dirs>> => UNCHANGED tree /\ UNCHANGED <<dir, dirs>>
  /\ UNCHANGED <<tree, name, bytes>> => UNCHANGED tree /\ UNCHANGED <<name, bytes>>
  /\ UNCHANGED <<tree, dir, dirs, bytes>> =>
        UNCHANGED tree /\ UNCHANGED <<dir, dirs>> /\ UNCHANGED bytes
  /\ UNCHANGED <<tree, dir, dirs, bytes>> /\ UNCHANGED name => SameFiles
  /\ UNCHANGED <<tree, dir, dirs>> /\ UNCHANGED <<name, bytes>> => SameFiles
  BY Zenon DEF SameDisk, SameFiles, SameRecord

(* A step that touches no file. *)
LEMMA QuietTyped ==
  ASSUME NEW pc, TypeInv, At(pc), SameFiles, SameRecord, ProcessTyped', BindingTyped'
  PROVE TypeInv'
  BY Kept, AtKeeps, Tuples, TypePartsPrime, Zenon

LEMMA AskTyped == TypeInv /\ Ask => TypeInv'
<1> SUFFICES ASSUME TypeInv, Ask PROVE TypeInv' OBVIOUS
<1>1. PICK b \in Resolutions :
        \/ b # "READY" /\ Say(b)
        \/ Say("PUBLISHED")
        \/ b = "READY" /\ Bind("prepare", Observed)
        \/ Goto("key")
  BY Zenon DEF Ask
<1>2. b \in Answers \ {"READY"} \/ b = "READY"
  BY ResolutionsAre, AnswersAre, Zenon
<1>3. Observed.reached = Observed.depth BY DEF Observed
<1> QED BY <1>1, <1>2, <1>3, AnswersAre, PcsAre, SayTyped, GotoTyped, BindTyped, TypeParts,
           ObservedTyped, QuietTyped, Tuples, Zenon DEF Ask

LEMMA ActTyped == TypeInv /\ Act => TypeInv'
<1> SUFFICES ASSUME TypeInv, Act PROVE TypeInv' OBVIOUS
<1>1. call' \in {"publish", "recover", "settled"} BY DEF Act
<1>2. answer' \in Answers BY AnswersAre, Zenon DEF Act
<1>3. ProcessTyped' /\ BindingTyped'
  BY <1>1, <1>2, TypeParts, Kept, Zenon DEF Act, ProcessTyped, CodeKnown
<1> QED BY <1>3, QuietTyped, Tuples, Zenon DEF Act

LEMMA PrepareTyped == TypeInv /\ Prepare => TypeInv'
<1> SUFFICES ASSUME TypeInv, Prepare PROVE TypeInv' OBVIOUS
<1>1. [binding EXCEPT !.root = binding.id] \in BoundTo
  BY TypeParts DEF BindingTyped, BoundTo
<1>2. binding.depth < 2 => binding.reached < 2
  BY TypeParts DEF Prepare, At, Here, BindingTyped, LevelsLeft
<1>3. binding.depth < 2 /\ Goto("segment") => Bind("segment", binding)
  BY Zenon DEF Goto, Forget, Binding, Bind
<1>4. binding \in BoundTo BY TypeParts, Zenon DEF BindingTyped
<1> QED BY <1>1, <1>2, <1>3, <1>4, PcsAre, ThrowTyped, BindTyped, QuietTyped, Tuples, Zenon
        DEF Prepare

LEMMA SegmentTyped == TypeInv /\ Segment => TypeInv'
<1> SUFFICES ASSUME TypeInv, Segment PROVE TypeInv' OBVIOUS
<1>1. TreeTyped' /\ ProcessTyped' /\ BindingTyped'
  <2>1. CASE Passable
    <3>1. NextLevel \in Levels /\ (NextLevel # 2 => NextLevel < 2)
      BY TypeParts DEF BindingTyped, BoundTo, NextLevel, LevelsLeft, Levels, Segment, At, Here
    <3>2. [binding EXCEPT !.reached = NextLevel] \in BoundTo
      BY <3>1, TypeParts DEF BindingTyped, BoundTo, Levels
    <3>3. [binding EXCEPT !.reached = NextLevel].reached = NextLevel
      BY TypeParts DEF BindingTyped, BoundTo
    <3>4. /\ tree' = WithLevel
          /\ \/ NextLevel = 2 /\ Bind("ancestor", [binding EXCEPT !.reached = NextLevel])
             \/ NextLevel # 2 /\ Bind("segment", [binding EXCEPT !.reached = NextLevel])
      BY <2>1, Zenon DEF Segment
    <3>5. TreeTyped'
      BY <3>1, <3>4, WithLevelTyped, TypeParts, Zenon DEF WithLevel, TreeTyped
    <3> QED BY <3>1, <3>2, <3>3, <3>4, <3>5, PcsAre, BindTyped, Zenon
  <2>2. CASE ~Passable BY <2>2, ThrowTyped, Kept, Zenon DEF Segment
  <2> QED BY <2>1, <2>2, Zenon
<1> QED BY <1>1, Kept, AtKeeps, Tuples, TypePartsPrime, Zenon DEF Segment

(* A step that may also touch names, files and directories, or write a record. *)
LEMMA StepTyped ==
  ASSUME NEW pc, TypeInv, At(pc), UNCHANGED tree \/ TreeTyped',
         UNCHANGED <<dir, dirs>> \/ DirsTyped', UNCHANGED <<name, bytes>> \/ FilesTyped',
         SameRecord \/ RecordTyped', ProcessTyped', BindingTyped'
  PROVE TypeInv'
  BY Kept, AtKeeps, TypePartsPrime, Zenon

(* One that looks at the target or unlinks it. *)
LEMMA ExposedTyped ==
  ASSUME NEW pc, TypeInv, Here(pc), UNCHANGED <<tree, dir, dirs>>, SameRecord,
         UNCHANGED <<name, bytes>> \/ FilesTyped', ProcessTyped', BindingTyped', FateTyped'
  PROVE TypeInv'
  BY Kept, HereKeeps, Tuples, TypePartsPrime, Zenon

LEMMA AncestorTyped == TypeInv /\ Ancestor => TypeInv'
<1> SUFFICES ASSUME TypeInv, Ancestor PROVE TypeInv' OBVIOUS
<1>1. Ready => [binding EXCEPT !.root = tree[2]] \in BoundTo
  BY TypeParts DEF BindingTyped, BoundTo, TreeTyped, Levels, Ready, Real, Link
<1> QED BY <1>1, PcsAre, ThrowTyped, BindTyped, QuietTyped, Tuples, Zenon DEF Ancestor

(* Reading the root again keeps what is bound. *)
LEMMA RereadTyped ==
  ASSUME NEW pc \in {"settle", "look"}, TypeInv, Goto(pc)
  PROVE ProcessTyped' /\ BindingTyped'
  BY GotoTyped, PcsAre, Zenon

LEMMA ParityTyped == TypeInv /\ Parity => TypeInv'
  BY RereadTyped, ThrowTyped, QuietTyped, Tuples, Zenon DEF Parity

LEMMA SettleTyped == TypeInv /\ Settle => TypeInv'
  BY RereadTyped, ThrowTyped, QuietTyped, Tuples, Zenon DEF Settle

(* Looking ends in an answer, in a conflict or in one of these moments. *)
AfterLook == {"begin", "tidy", "relink", "confirm", "rereserve", "rereserving", "remove", "removed"}

LEMMA LookEnds ==
  ASSUME Look
  PROVE  \/ Throw \/ Say("PUBLISHED") \/ Say("ABSENT") \/ Say("CONFLICT")
         \/ Fail("UNKNOWN_STATE") \/ \E pc \in AfterLook : Goto(pc)
<1>1. LookNew => Say("ABSENT") \/ Say("CONFLICT") \/ Goto("begin")
  BY Zenon DEF LookNew
<1>2. LookFinal => Say("PUBLISHED") \/ Throw
  BY Zenon DEF LookFinal, Throw
<1>3. LookCreate => Fail("UNKNOWN_STATE") \/ Goto("tidy") \/ Goto("relink")
  BY Zenon DEF LookCreate
<1>4. LookMerge => \/ Fail("UNKNOWN_STATE") \/ Goto("confirm") \/ Goto("tidy")
                   \/ Goto("rereserve") \/ Goto("rereserving") \/ Goto("remove")
                   \/ Goto("removed") \/ Goto("relink")
  BY Zenon DEF LookMerge
<1> QED BY <1>1, <1>2, <1>3, <1>4, Zenon DEF Look, AfterLook

LEMMA LookTyped == TypeInv /\ Look => TypeInv'
<1> SUFFICES ASSUME TypeInv, Look PROVE TypeInv' OBVIOUS
<1>1. \A pc \in AfterLook : pc \in Plain
  BY DEF AfterLook, Plain, Pcs, Coded, Binding
<1>2. ProcessTyped' /\ BindingTyped'
  BY <1>1, LookEnds, AnswersAre, ConflictCodes, SayTyped, ThrowTyped, FailTyped, GotoTyped, Zenon
<1> QED BY <1>2, QuietTyped, Tuples, Zenon DEF Look

(* The records that a transaction writes. *)
LEMMA RecordsTyped ==
  ASSUME TypeInv
  PROVE  /\ \A d \in Nat : [NoRecord EXCEPT !.dir = d] \in Record
         /\ [record EXCEPT !.dir = dir] \in Record
         /\ [record EXCEPT !.stage = name["stage"], !.claim = name["claim"]] \in Record
         /\ [record EXCEPT !.nonce = TRUE] \in Record
         /\ [record EXCEPT !.reservation = name["backup"]] \in Record
         /\ [record EXCEPT !.backup = name["backup"]] \in Record
         /\ record \in Record /\ 0 \in Nat /\ dir \in Nat
         /\ \A s \in States \cup {"NONE"} : [record EXCEPT !.state = s] \in Record
<1>1. \A p \in Path : name[p] \in Nat BY TypeParts, PathsTyped, Zenon
<1>2. name["stage"] \in Nat /\ name["claim"] \in Nat /\ name["backup"] \in Nat
  BY <1>1, PathNames
<1>3. record \in Record /\ dir \in Nat
  BY TypeParts DEF RecordTyped, DirsTyped
<1>4. NoRecord \in Record BY DEF NoRecord, Record
<1> QED BY <1>2, <1>3, <1>4 DEF Record

LEMMA BeginTyped == TypeInv /\ Begin => TypeInv'
<1> SUFFICES ASSUME TypeInv, Begin PROVE TypeInv' OBVIOUS
<1>1. \/ Throw /\ SameRecord
      \/ Journal("ROOT_PREPARED", [NoRecord EXCEPT !.dir = 0], "mkdir")
      \/ Journal("ROOT_PREPARED", [NoRecord EXCEPT !.dir = dir], "stage")
  BY Zenon DEF Begin, BeginCreate, BeginMerge, FirstRecord
<1>2. [NoRecord EXCEPT !.dir = 0] \in Record /\ [NoRecord EXCEPT !.dir = dir] \in Record
  BY RecordsTyped, Zenon
<1>3. ProcessTyped' /\ BindingTyped' /\ RecordTyped'
  BY <1>1, <1>2, ThrowTyped, JournalTyped, DiskStates, PcsAre, Kept, Zenon
<1> QED BY <1>3, StepTyped, Tuples, Zenon DEF Begin

LEMMA MkdirTyped == TypeInv /\ Mkdir => TypeInv'
<1> SUFFICES ASSUME TypeInv, Mkdir PROVE TypeInv' OBVIOUS
<1>1. UNCHANGED <<dir, dirs>> \/ DirsTyped'
  BY TypeParts DEF Mkdir, DirsTyped
<1>2. ProcessTyped' /\ BindingTyped'
  BY GotoTyped, FailTyped, PcsAre, ConflictCodes, Zenon DEF Mkdir
<1> QED BY <1>1, <1>2, StepTyped, Tuples, Zenon DEF Mkdir

LEMMA ClaimingTyped == TypeInv /\ Claiming => TypeInv'
<1> SUFFICES ASSUME TypeInv, Claiming PROVE TypeInv' OBVIOUS
<1>1. ProcessTyped' /\ BindingTyped' /\ RecordTyped'
  BY RecordsTyped, ThrowTyped, JournalTyped, DiskStates, PcsAre, Kept, Zenon DEF Claiming
<1> QED BY <1>1, StepTyped, Tuples, Zenon DEF Claiming

LEMMA WriteScratchTyped ==
  ASSUME NEW pc, NEW p \in Path, NEW c \in Contents, NEW next \in Plain,
         TypeInv, WriteScratch(pc, p, c, next)
  PROVE TypeInv'
<1>1. UNCHANGED <<name, bytes>> \/ FilesTyped'
  BY TypeParts, MadeFiles, Zenon DEF WriteScratch
<1>2. ProcessTyped' /\ BindingTyped'
  BY GotoTyped, ThrowTyped, Zenon DEF WriteScratch
<1> QED BY <1>1, <1>2, StepTyped, Tuples, Zenon DEF WriteScratch

LEMMA ClaimTyped == TypeInv /\ Claim => TypeInv'
  BY WriteScratchTyped, ContentsTyped, PathNames, PcsAre, Zenon DEF Claim

LEMMA StageTyped == TypeInv /\ Stage => TypeInv'
  BY WriteScratchTyped, ContentsTyped, PathNames, PcsAre, Zenon DEF Stage

LEMMA StagedTyped == TypeInv /\ Staged => TypeInv'
<1> SUFFICES ASSUME TypeInv, Staged PROVE TypeInv' OBVIOUS
<1> DEFINE r == [record EXCEPT !.stage = name["stage"], !.claim = name["claim"]]
<1>1. \/ Throw /\ SameRecord
      \/ Journal("STAGED", r, "install")
      \/ Journal("STAGED", r, "base")
  BY Zenon DEF Staged
<1>2. r \in Record BY RecordsTyped, Zenon
<1> HIDE DEF r
<1>3. ProcessTyped' /\ BindingTyped' /\ RecordTyped'
  BY <1>1, <1>2, ThrowTyped, JournalTyped, DiskStates, PcsAre, Kept, Zenon
<1> QED BY <1>3, StepTyped, Tuples, Zenon DEF Staged

LEMMA UnlinkedTyped ==
  ASSUME NEW ps \in SUBSET Path, TypeInv, name' = Unlinked(ps), UNCHANGED bytes
  PROVE FilesTyped'
  BY TypeParts, UnlinkedFiles, Zenon

LEMMA SetsOfPaths ==
  /\ Scratch \in SUBSET Path /\ {"stage"} \in SUBSET Path /\ {"target"} \in SUBSET Path
  /\ {"backup"} \in SUBSET Path /\ {"stage", "claim"} \in SUBSET Path /\ {"stage", "backup"} \in SUBSET Path
  /\ Path \in SUBSET Path
  BY DEF Scratch, Path

LEMMA CheckBaseTyped == TypeInv /\ CheckBase => TypeInv'
<1> SUFFICES ASSUME TypeInv, CheckBase PROVE TypeInv' OBVIOUS
<1>1. \/ name' = Unlinked({"stage"}) /\ Fail("BASE_CHANGED")
      \/ UNCHANGED name /\ Throw
      \/ UNCHANGED name /\ Goto("reserving")
  BY Zenon DEF CheckBase, Tidy
<1>2. ProcessTyped' /\ BindingTyped'
  BY <1>1, GotoTyped, FailTyped, ThrowTyped, PcsAre, ConflictCodes, Zenon
<1> QED BY <1>1, <1>2, UnlinkedTyped, SetsOfPaths, StepTyped, Tuples, Zenon DEF CheckBase

LEMMA ReservingTyped == TypeInv /\ Reserving => TypeInv'
<1> SUFFICES ASSUME TypeInv, Reserving PROVE TypeInv' OBVIOUS
<1>1. ProcessTyped' /\ BindingTyped' /\ RecordTyped'
  BY RecordsTyped, ThrowTyped, FailTyped, JournalTyped, DiskStates, PcsAre, ConflictCodes, Kept,
     Zenon
  DEF Reserving
<1> QED BY <1>1, StepTyped, Tuples, Zenon DEF Reserving

LEMMA ReserveTyped == TypeInv /\ Reserve => TypeInv'
<1> SUFFICES ASSUME TypeInv, Reserve PROVE TypeInv' OBVIOUS
<1>1. \/ name' = Unlinked({"stage"}) /\ UNCHANGED bytes /\ Fail("BACKUP_EXISTS")
      \/ UNCHANGED <<name, bytes>> /\ Throw
      \/ Made("backup", Reservation) /\ Goto("reserved")
  BY Zenon DEF Reserve, Tidy
<1>2. ProcessTyped' /\ BindingTyped'
  BY <1>1, GotoTyped, FailTyped, ThrowTyped, PcsAre, ConflictCodes, Zenon
<1>3. UNCHANGED <<name, bytes>> \/ FilesTyped'
  BY <1>1, UnlinkedTyped, SetsOfPaths, MadeFiles, TypeParts, ContentsTyped, PathNames, Zenon
<1> QED BY <1>2, <1>3, StepTyped, Tuples, Zenon DEF Reserve

LEMMA ReservedTyped ==
  ASSUME NEW pc, NEW next \in Plain, TypeInv, Reserved(pc, next)
  PROVE TypeInv'
<1>1. ProcessTyped' /\ BindingTyped' /\ RecordTyped'
  BY RecordsTyped, FailTyped, JournalTyped, DiskStates, ConflictCodes, Kept, Zenon DEF Reserved
<1> QED BY <1>1, StepTyped, Tuples, Zenon DEF Reserved

(* One name takes what another names. *)
LEMMA TakenTyped ==
  ASSUME TypeInv, UNCHANGED bytes, name' = Renamed \/ name' = Restored \/ name' = Linked
  PROVE FilesTyped'
  BY TypeParts, NameTaken, PathNames, Zenon DEF Renamed, Restored, Linked, FilesTyped

LEMMA MoveTyped == TypeInv /\ Move => TypeInv'
<1> SUFFICES ASSUME TypeInv, Move PROVE TypeInv' OBVIOUS
<1>1. \/ name' = Unlinked({"stage"}) /\ \E c \in Codes : Fail(c)
      \/ UNCHANGED name /\ Throw
      \/ name' = Renamed /\ Goto("moved")
  BY ConflictCodes, Zenon DEF Move, Tidy
<1>2. ProcessTyped' /\ BindingTyped'
  BY <1>1, GotoTyped, FailTyped, ThrowTyped, PcsAre, Zenon
<1>3. UNCHANGED <<name, bytes>> \/ FilesTyped'
  BY <1>1, UnlinkedTyped, SetsOfPaths, TakenTyped, Tuples, Zenon DEF Move
<1> QED BY <1>2, <1>3, StepTyped, Tuples, Zenon DEF Move

LEMMA MovedTyped == TypeInv /\ Moved => TypeInv'
<1> SUFFICES ASSUME TypeInv, Moved PROVE TypeInv' OBVIOUS
<1>1. ProcessTyped' /\ BindingTyped' /\ RecordTyped'
  BY RecordsTyped, FailTyped, JournalTyped, DiskStates, ConflictCodes, PcsAre, Kept, Zenon DEF Moved
<1> QED BY <1>1, StepTyped, Tuples, Zenon DEF Moved

LEMMA AfterwardsAre == Afterwards \in Coded /\ "release" \in Coded
  BY DEF Afterwards, Coded

LEMMA RestoreTyped == TypeInv /\ Restore => TypeInv'
<1> SUFFICES ASSUME TypeInv, Restore PROVE TypeInv' OBVIOUS
<1>1. at \in Coded BY DEF Restore, At, Here, Coded
<1>2. \/ UNCHANGED name /\ Throw
      \/ name' = Restored /\ \E pc \in Coded : Goto(pc)
  BY AfterwardsAre, Zenon DEF Restore
<1>3. ProcessTyped' /\ BindingTyped'
  BY <1>1, <1>2, GotoCoded, ThrowTyped, Zenon
<1>4. UNCHANGED <<name, bytes>> \/ FilesTyped'
  BY <1>2, TakenTyped, Tuples, Zenon DEF Restore
<1> QED BY <1>3, <1>4, StepTyped, Tuples, Zenon DEF Restore

LEMMA ReleaseTyped == TypeInv /\ Release => TypeInv'
<1> SUFFICES ASSUME TypeInv, Release PROVE TypeInv' OBVIOUS
<1>1. at \in Coded BY DEF Release, At, Here, Coded
<1>2. ProcessTyped' /\ BindingTyped'
  BY <1>1, AfterwardsAre, GotoCoded, ThrowTyped, Zenon DEF Release
<1>3. UNCHANGED <<name, bytes>> \/ FilesTyped'
  BY UnlinkedTyped, SetsOfPaths, Tuples, Zenon DEF Release
<1> QED BY <1>2, <1>3, StepTyped, Tuples, Zenon DEF Release

LEMMA DropTyped == TypeInv /\ Drop => TypeInv'
<1> SUFFICES ASSUME TypeInv, Drop PROVE TypeInv' OBVIOUS
<1>1. code \in Codes
  BY TypeParts DEF ProcessTyped, CodeKnown, Coded, Drop, At, Here
<1>2. ProcessTyped' /\ BindingTyped'
  BY <1>1, FailTyped, ThrowTyped, Zenon DEF Drop, Tidy
<1>3. UNCHANGED <<name, bytes>> \/ FilesTyped'
  BY UnlinkedTyped, SetsOfPaths, Tuples, Zenon DEF Drop, Tidy
<1> QED BY <1>2, <1>3, StepTyped, Tuples, Zenon DEF Drop

LEMMA InstallTyped == TypeInv /\ Install => TypeInv'
<1> SUFFICES ASSUME TypeInv, Install PROVE TypeInv' OBVIOUS
<1>1. \/ UNCHANGED name /\ (Throw \/ Fail("STAGE_CHANGED") \/ PutBack("STAGE_CHANGED"))
      \/ (\E ps \in SUBSET Path : name' = Unlinked(ps)) /\ Fail("TARGET_APPEARED")
      \/ UNCHANGED name /\ Throw
      \/ name' = Linked /\ Goto("check")
  BY SetsOfPaths, Zenon DEF Install, InstallNew, InstallMerged, InstallOr, Tidy
<1>2. ProcessTyped' /\ BindingTyped'
  BY <1>1, GotoTyped, FailTyped, ThrowTyped, PcsAre, ConflictCodes, Zenon
<1>3. UNCHANGED <<name, bytes>> \/ FilesTyped'
  BY <1>1, UnlinkedTyped, TakenTyped, Tuples, Zenon DEF Install
<1> QED BY <1>2, <1>3, StepTyped, Tuples, Zenon DEF Install

LEMMA CheckTyped == TypeInv /\ Check => TypeInv'
  BY GotoTyped, ThrowTyped, PcsAre, QuietTyped, Tuples, Zenon DEF Check

(* A look at the target, and the unlink after it. *)
LEMMA LookedAtTyped ==
  ASSUME NEW pc, NEW next \in Plain, TypeInv, LookedAt(pc, next)
  PROVE TypeInv'
<1>1. FateTyped' BY TypeParts DEF LookedAt, OwnerTyped, FateTyped
<1> QED BY <1>1, GotoTyped, ExposedTyped, Tuples, Zenon DEF LookedAt, SameDisk, SameRecord

LEMMA UnlinkTargetTyped ==
  ASSUME NEW pc, TypeInv, Here(pc), UNCHANGED name \/ name' = Unlinked({"target"}),
         fate' = fate \/ fate' = "LOST", UNCHANGED <<tree, dir, dirs, bytes>>, SameRecord,
         ProcessTyped', BindingTyped'
  PROVE TypeInv'
<1>1. FateTyped' BY TypeParts DEF OwnerTyped, FateTyped
<1>2. UNCHANGED <<name, bytes>> \/ FilesTyped'
  BY UnlinkedTyped, SetsOfPaths, Tuples, Zenon
<1> QED BY <1>1, <1>2, Tuples, ExposedTyped, Zenon

LEMMA DislodgeTyped ==
  /\ TypeInv /\ Preserve => TypeInv'
  /\ TypeInv /\ Rebind => TypeInv'
  /\ TypeInv /\ Dislodge => TypeInv'
<1>1. TypeInv /\ Preserve => TypeInv'
  BY LookedAtTyped, FailTyped, PcsAre, ConflictCodes, QuietTyped, Tuples, Zenon DEF Preserve
<1>2. TypeInv /\ Rebind => TypeInv'
  BY GotoTyped, ThrowTyped, PcsAre, QuietTyped, Tuples, Zenon DEF Rebind
<1>3. TypeInv /\ Dislodge => TypeInv'
  BY FailTyped, ThrowTyped, ConflictCodes, UnlinkTargetTyped, Tuples, Zenon DEF Dislodge, UnlinkTarget
<1> QED BY <1>1, <1>2, <1>3

LEMMA TidyUpTyped == TypeInv /\ TidyUp => TypeInv'
<1> SUFFICES ASSUME TypeInv, TidyUp PROVE TypeInv' OBVIOUS
<1>1. ProcessTyped' /\ BindingTyped'
  BY GotoTyped, ThrowTyped, PcsAre, Zenon DEF TidyUp, Tidy
<1>2. UNCHANGED <<name, bytes>> \/ FilesTyped'
  BY UnlinkedTyped, SetsOfPaths, Tuples, Zenon DEF TidyUp, Tidy
<1> QED BY <1>1, <1>2, StepTyped, Tuples, Zenon DEF TidyUp

LEMMA WrittenTyped == TypeInv /\ Written => TypeInv'
<1> SUFFICES ASSUME TypeInv, Written PROVE TypeInv' OBVIOUS
<1>1. ProcessTyped' /\ BindingTyped' /\ RecordTyped'
  BY RecordsTyped, GotoTyped, JournalTyped, DiskStates, PcsAre, Kept, Zenon DEF Written
<1> QED BY <1>1, StepTyped, Tuples, Zenon DEF Written

LEMMA ConflictTyped == TypeInv /\ Conflict => TypeInv'
<1> SUFFICES ASSUME TypeInv, Conflict PROVE TypeInv' OBVIOUS
<1>1. code \in States
  BY TypeParts, DiskStates DEF ProcessTyped, CodeKnown, Coded, Conflict, At, Here
<1>2. SameRecord \/ RecordTyped'
  BY <1>1, RecordsTyped, Zenon DEF Conflict, RecordTyped
<1>3. ProcessTyped' /\ BindingTyped'
  BY SayTyped, ThrowTyped, AnswersAre, Zenon DEF Conflict
<1> QED BY <1>2, <1>3, StepTyped, Tuples, Zenon DEF Conflict

LEMMA RereservingTyped == TypeInv /\ Rereserving => TypeInv'
<1> SUFFICES ASSUME TypeInv, Rereserving PROVE TypeInv' OBVIOUS
<1>1. ProcessTyped' /\ BindingTyped' /\ RecordTyped'
  BY RecordsTyped, JournalTyped, DiskStates, PcsAre, Zenon DEF Rereserving
<1> QED BY <1>1, StepTyped, Tuples, Zenon DEF Rereserving

LEMMA RereserveTyped == TypeInv /\ Rereserve => TypeInv'
<1> SUFFICES ASSUME TypeInv, Rereserve PROVE TypeInv' OBVIOUS
<1>1. ProcessTyped' /\ BindingTyped'
  BY GotoTyped, FailTyped, ThrowTyped, PcsAre, ConflictCodes, Zenon DEF Rereserve
<1>2. UNCHANGED <<name, bytes>> \/ FilesTyped'
  BY MadeFiles, TypeParts, ContentsTyped, PathNames, Zenon DEF Rereserve
<1> QED BY <1>1, <1>2, StepTyped, Tuples, Zenon DEF Rereserve

LEMMA RemoveTyped == TypeInv /\ Remove => TypeInv'
<1> SUFFICES ASSUME TypeInv, Remove PROVE TypeInv' OBVIOUS
<1>1. ProcessTyped' /\ BindingTyped'
  BY GotoTyped, FailTyped, ThrowTyped, PcsAre, ConflictCodes, Zenon DEF Remove
<1>2. UNCHANGED <<name, bytes>> \/ FilesTyped'
  BY TakenTyped, Tuples, Zenon DEF Remove
<1> QED BY <1>1, <1>2, StepTyped, Tuples, Zenon DEF Remove

LEMMA RemovedTyped == TypeInv /\ Removed => TypeInv'
<1> SUFFICES ASSUME TypeInv, Removed PROVE TypeInv' OBVIOUS
<1> DEFINE r == [record EXCEPT !.backup = name["backup"]]
<1>1. \/ Fail("UNKNOWN_STATE") /\ SameRecord
      \/ Journal("RECOVERY_BACKUP_MOVED", r, "relink")
  BY Zenon DEF Removed
<1>2. r \in Record BY RecordsTyped, Zenon
<1> HIDE DEF r
<1>3. ProcessTyped' /\ BindingTyped' /\ RecordTyped'
  BY <1>1, <1>2, FailTyped, JournalTyped, DiskStates, PcsAre, ConflictCodes, Kept, Zenon
<1> QED BY <1>3, StepTyped, Tuples, Zenon DEF Removed

LEMMA RelinkTyped == TypeInv /\ Relink => TypeInv'
<1> SUFFICES ASSUME TypeInv, Relink PROVE TypeInv' OBVIOUS
<1>1. ProcessTyped' /\ BindingTyped'
  BY GotoTyped, ThrowTyped, PcsAre, Zenon DEF Relink
<1>2. UNCHANGED <<name, bytes>> \/ FilesTyped'
  BY TakenTyped, Tuples, Zenon DEF Relink
<1> QED BY <1>1, <1>2, StepTyped, Tuples, Zenon DEF Relink

LEMMA RecheckTyped == TypeInv /\ Recheck => TypeInv'
  BY GotoTyped, FailTyped, ThrowTyped, PcsAre, ConflictCodes, QuietTyped, Tuples, Zenon DEF Recheck

LEMMA ConfirmTyped == TypeInv /\ Confirm => TypeInv'
  BY GotoTyped, ThrowTyped, PcsAre, QuietTyped, Tuples, Zenon DEF Confirm

LEMMA WithdrawTyped ==
  /\ TypeInv /\ Withdraw => TypeInv'
  /\ TypeInv /\ Match => TypeInv'
  /\ TypeInv /\ Withdrawing => TypeInv'
<1>1. TypeInv /\ Withdraw => TypeInv'
  BY GotoTyped, ThrowTyped, PcsAre, QuietTyped, Tuples, Zenon DEF Withdraw
<1>2. TypeInv /\ Match => TypeInv'
  BY LookedAtTyped, FailTyped, PcsAre, ConflictCodes, QuietTyped, Tuples, Zenon DEF Match
<1>3. TypeInv /\ Withdrawing => TypeInv'
  BY GotoTyped, ThrowTyped, PcsAre, UnlinkTargetTyped, Tuples, Zenon DEF Withdrawing, UnlinkTarget
<1> QED BY <1>1, <1>2, <1>3

LEMMA RmdirTyped == TypeInv /\ Rmdir => TypeInv'
<1> SUFFICES ASSUME TypeInv, Rmdir PROVE TypeInv' OBVIOUS
<1>1. ProcessTyped' /\ BindingTyped'
  BY FailTyped, ThrowTyped, ConflictCodes, Zenon DEF Rmdir
<1>2. DirsTyped' BY TypeParts DEF Rmdir, DirsTyped
<1> QED BY <1>1, <1>2, StepTyped, Tuples, Zenon DEF Rmdir

LEMMA FinalizingTyped == TypeInv /\ Finalizing => TypeInv'
<1> SUFFICES ASSUME TypeInv, Finalizing PROVE TypeInv' OBVIOUS
<1>1. \/ Throw /\ SameRecord
      \/ Goto("final") /\ SameRecord
      \/ Journal("FINALIZING", record, "final")
  BY Zenon DEF Finalizing
<1>2. ProcessTyped' /\ BindingTyped' /\ RecordTyped'
  BY <1>1, RecordsTyped, GotoTyped, ThrowTyped, JournalTyped, DiskStates, PcsAre, Kept, Zenon
<1> QED BY <1>2, StepTyped, Tuples, Zenon DEF Finalizing

LEMMA FinalTyped == TypeInv /\ Final => TypeInv'
<1> SUFFICES ASSUME TypeInv, Final PROVE TypeInv' OBVIOUS
<1>1. ProcessTyped' /\ BindingTyped'
  BY GotoTyped, ThrowTyped, PcsAre, Zenon DEF Final, Tidy
<1>2. UNCHANGED <<name, bytes>> \/ FilesTyped'
  BY UnlinkedTyped, SetsOfPaths, Tuples, Zenon DEF Final, Tidy
<1> QED BY <1>1, <1>2, StepTyped, Tuples, Zenon DEF Final

LEMMA FinalizedTyped == TypeInv /\ Finalized => TypeInv'
<1> SUFFICES ASSUME TypeInv, Finalized PROVE TypeInv' OBVIOUS
<1>1. ProcessTyped' /\ BindingTyped'
  BY SayTyped, ThrowTyped, AnswersAre, Zenon DEF Finalized
<1>2. SameRecord \/ RecordTyped'
  BY RecordsTyped, DiskStates, Zenon DEF Finalized, RecordTyped
<1> QED BY <1>1, <1>2, StepTyped, Tuples, Zenon DEF Finalized

LEMMA KeyTyped == TypeInv /\ Key => TypeInv'
  BY SayTyped, GotoTyped, AnswersAre, PcsAre, QuietTyped, Tuples, Zenon DEF Key

LEMMA ReadTyped == TypeInv /\ Read => TypeInv'
  BY SayTyped, GotoTyped, AnswersAre, PcsAre, QuietTyped, Tuples, Zenon DEF Read

LEMMA WriteTyped == TypeInv /\ Write => TypeInv'
<1> SUFFICES ASSUME TypeInv, Write PROVE TypeInv' OBVIOUS
<1>1. CASE WriteText
  <2>1. TreeTyped'
    BY <1>1, TypeParts, FilledTyped, Zenon DEF WriteText, TreeTyped
  <2>2. DirsTyped' BY <1>1, TypeParts DEF WriteText, DirsTyped
  <2>3. FilesTyped'
    BY <1>1, TypeParts, MadeFiles, ContentsTyped, PathNames, Zenon DEF WriteText
  <2>4. ProcessTyped' /\ BindingTyped'
    BY <1>1, GotoTyped, ThrowTyped, PcsAre, Zenon DEF WriteText
  <2> QED BY <2>1, <2>2, <2>3, <2>4, StepTyped, Zenon DEF Write
<1>2. CASE ~WriteText
  <2>1. (Throw \/ Say("CONFLICT")) /\ SameFiles BY <1>2, Zenon DEF Write
  <2> QED BY <2>1, SayTyped, ThrowTyped, AnswersAre, QuietTyped, Zenon DEF Write
<1> QED BY <1>1, <1>2

LEMMA RereadTextTyped == TypeInv /\ Reread => TypeInv'
  BY SayTyped, GotoTyped, AnswersAre, PcsAre, QuietTyped, Tuples, Zenon DEF Reread

LEMMA ReadbackTyped == TypeInv /\ Readback => TypeInv'
<1> SUFFICES ASSUME TypeInv, Readback PROVE TypeInv' OBVIOUS
<1>1. PICK yes \in BOOLEAN :
        at' = "idle" /\ answer' = (IF yes THEN "PUBLISHED" ELSE "UNAVAILABLE") /\ published' = yes
  BY Zenon DEF Readback
<1>2. UNCHANGED <<code, call, binding>> /\ SameDisk /\ At("readback")
  BY Zenon DEF Readback
<1>3. answer' \in Answers /\ published' \in BOOLEAN
  BY <1>1, AnswersAre, Zenon
<1>4. ProcessTyped'
  BY <1>1, <1>2, <1>3, TypeParts, PcsAre, PlainAre, Zenon DEF ProcessTyped, CodeKnown
<1>5. BindingTyped'
  BY <1>1, <1>2, TypeParts DEF BindingTyped, LevelsLeft
<1> QED BY <1>2, <1>4, <1>5, QuietTyped, Tuples, Zenon

----
(* The owner and crashes keep the types. *)
LEMMA EditTyped ==
  ASSUME TypeInv, Edit, UNCHANGED tree \/ TreeTyped',
         UNCHANGED <<dir, dirs>> \/ DirsTyped', UNCHANGED <<name, bytes>> \/ FilesTyped',
         flat' \in BOOLEAN, torn' \subseteq torn,
         UNCHANGED <<owned, fate>> \/ (\E c \in {Missing, edits + 1} : Left(c))
  PROVE TypeInv'
<1>1. UNCHANGED <<scope, medium, kind>> /\ UNCHANGED <<at, code, call, answer, published>>
      /\ UNCHANGED <<at, binding>> /\ UNCHANGED record /\ UNCHANGED crashes
  BY Zenon DEF Edit, process
<1>2. edits < MaxEdits /\ edits \in Nat /\ edits' = edits + 1 /\ crashes \in Nat
  BY TypeParts DEF Edit, OwnerTyped
<1>3. edits + 1 \in Contents /\ edits + 1 \in Nat BY <1>2, ContentsTyped
<1>4. OwnerTyped'
  BY <1>1, <1>2, <1>3, TypeParts DEF OwnerTyped, FateTyped, Left
<1>5. FlatTyped' /\ RecordTyped'
  BY <1>1, TypeParts, Zenon DEF FlatTyped, RecordTyped
<1> QED BY <1>1, <1>4, <1>5, Kept, TypePartsPrime, Zenon

LEMMA OwnerKeeps ==
  ASSUME TypeInv, Owner
  PROVE Ready /\ Edit /\ UNCHANGED tree /\ UNCHANGED torn /\ flat \in BOOLEAN
  BY TypeParts, Zenon DEF Owner, FlatTyped

LEMMA EditInPlaceTyped == TypeInv /\ EditInPlace => TypeInv'
<1> SUFFICES ASSUME TypeInv, EditInPlace PROVE TypeInv' OBVIOUS
<1>1. Owner /\ name["target"] # 0 /\ bytes' = [bytes EXCEPT ![name["target"]] = edits + 1]
      /\ Left(edits + 1) /\ UNCHANGED <<dir, dirs>> /\ UNCHANGED name /\ UNCHANGED flat
  BY Zenon DEF EditInPlace
<1>2. edits + 1 \in Contents
  <2>1. edits < MaxEdits /\ edits \in Nat
    BY <1>1, OwnerKeeps, TypeParts DEF Edit, OwnerTyped
  <2> QED BY <2>1, ContentsTyped, Zenon
<1>3. bytes' \in Seq(Contents) /\ Len(bytes') = Len(bytes)
  <2>1. bytes \in Seq(Contents) /\ name["target"] \in 1 .. Len(bytes)
    BY <1>1, TypeParts, PathNames DEF FilesTyped
  <2>2. bytes' = [bytes EXCEPT ![name["target"]] = edits + 1] BY <1>1
  <2> QED BY <1>2, <2>1, <2>2, ExceptSeq
<1>4. FilesTyped' BY <1>1, <1>3, TypeParts, Zenon DEF FilesTyped
<1> QED BY <1>1, <1>4, OwnerKeeps, EditTyped, Zenon

LEMMA SaveTyped == TypeInv /\ Save => TypeInv'
<1> SUFFICES ASSUME TypeInv, Save PROVE TypeInv' OBVIOUS
<1>1. edits + 1 \in Contents
  <2>1. edits < MaxEdits /\ edits \in Nat
    BY OwnerKeeps, TypeParts DEF Save, Edit, OwnerTyped
  <2> QED BY <2>1, ContentsTyped, Zenon
<1>2. FilesTyped'
  BY <1>1, MadeFiles, TypeParts, PathNames, Zenon DEF Save
<1>3. UNCHANGED <<dir, dirs>> \/ DirsTyped'
  BY TypeParts DEF Save, DirsTyped
<1> QED BY <1>2, <1>3, OwnerKeeps, EditTyped, Zenon DEF Save

LEMMA DeleteTyped == TypeInv /\ Delete => TypeInv'
<1> SUFFICES ASSUME TypeInv, Delete PROVE TypeInv' OBVIOUS
<1>1. Owner /\ name' = Unlinked({"target"}) /\ Left(Missing) /\ UNCHANGED bytes
      /\ UNCHANGED flat /\ UNCHANGED <<dir, dirs>>
  BY Zenon DEF Delete
<1>2. FilesTyped' BY <1>1, UnlinkedTyped, SetsOfPaths, Zenon
<1> QED BY <1>1, <1>2, OwnerKeeps, EditTyped, Zenon

LEMMA DeleteBundleTyped == TypeInv /\ DeleteBundle => TypeInv'
<1> SUFFICES ASSUME TypeInv, DeleteBundle PROVE TypeInv' OBVIOUS
<1>1. Owner /\ name' = Unlinked(Path) /\ Left(Missing) /\ UNCHANGED bytes
      /\ UNCHANGED flat /\ dir' = 0 /\ UNCHANGED dirs
  BY Zenon DEF DeleteBundle
<1>2. FilesTyped' BY <1>1, UnlinkedTyped, SetsOfPaths, Zenon
<1>3. DirsTyped' BY <1>1, TypeParts DEF DirsTyped
<1> QED BY <1>1, <1>2, <1>3, OwnerKeeps, EditTyped, Zenon

LEMMA ToggleFlatTyped == TypeInv /\ ToggleFlat => TypeInv'
<1> SUFFICES ASSUME TypeInv, ToggleFlat PROVE TypeInv' OBVIOUS
<1>1. Owner /\ flat' = ~flat /\ UNCHANGED <<dir, dirs>> /\ UNCHANGED <<name, bytes>>
      /\ UNCHANGED <<owned, fate>>
  BY Zenon DEF ToggleFlat
<1>2. flat' \in BOOLEAN BY <1>1, Zenon
<1> QED BY <1>1, <1>2, OwnerKeeps, EditTyped, Zenon

LEMMA MoveRootTyped == TypeInv /\ MoveRoot => TypeInv'
<1> SUFFICES ASSUME TypeInv, MoveRoot PROVE TypeInv' OBVIOUS
<1>1. Edit /\ tree' \in MovedTrees /\ dir' = 0 /\ name' = Unlinked(Path) /\ Left(Missing)
      /\ flat' = FALSE /\ torn' = {} /\ UNCHANGED dirs /\ UNCHANGED bytes
  BY Zenon DEF MoveRoot
<1>2. FilesTyped' BY <1>1, UnlinkedTyped, SetsOfPaths, Zenon
<1>3. DirsTyped' BY <1>1, TypeParts DEF DirsTyped
<1>4. TreeTyped'
  BY <1>1, TypeParts, MovedTreesTyped, Zenon DEF TreeTyped
<1>5. torn' \subseteq torn BY <1>1
<1>6. flat' \in BOOLEAN BY <1>1, Zenon
<1> QED BY <1>1, <1>2, <1>3, <1>4, <1>5, <1>6, EditTyped, Zenon

LEMMA WritingTyped == TypeInv => Writing \subseteq States
<1> SUFFICES ASSUME TypeInv PROVE Writing \subseteq States OBVIOUS
<1>1. at = "conflict" => code \in States
  BY TypeParts, DiskStates DEF ProcessTyped, CodeKnown, Coded
<1> QED BY <1>1 DEF Writing, States

LEMMA CrashTyped == TypeInv /\ Crash => TypeInv'
<1> SUFFICES ASSUME TypeInv, Crash PROVE TypeInv' OBVIOUS
<1>1. ProcessTyped'
  BY PcsAre, AnswersAre DEF Crash, ProcessTyped, CodeKnown, Coded
<1>2. BindingTyped'
  BY NoBindingTyped DEF Crash, BindingTyped, LevelsLeft
<1>3. RecordTyped' BY TypeParts, WritingTyped DEF Crash, RecordTyped
<1>4. OwnerTyped' BY TypeParts DEF Crash, OwnerTyped, FateTyped
<1> QED BY <1>1, <1>2, <1>3, <1>4, Kept, TypePartsPrime, Zenon DEF Crash

LEMMA InitTyped == Init => TypeInv
<1> SUFFICES ASSUME Init PROVE TypeInv OBVIOUS
<1>1. FixedTyped BY SkillFileAssumption DEF Init, InitRoot, FixedTyped
<1>2. TreeTyped
  <2>1. tree \in {<<Absent, Absent>>, <<1, Absent>>, <<1, 2>>}
    BY Zenon DEF Init, InitRoot
  <2> QED BY <2>1 DEF TreeTyped, Levels, Absent
<1>3. BindingTyped
  BY NoBindingTyped DEF Init, InitRoot, BindingTyped, LevelsLeft
<1>4. DirsTyped /\ FilesTyped
  <2>1. CASE kind = "MERGE"
    <3>1. dir = 1 /\ dirs = 1 /\ bytes = <<Base>>
          /\ name = [p \in Path |-> IF p = "target" THEN 1 ELSE 0]
      BY <2>1, Zenon DEF Init
    <3>2. bytes \in Seq(Contents) /\ Len(bytes) = 1
      BY <3>1, ContentsTyped
    <3> QED BY <3>1, <3>2 DEF DirsTyped, FilesTyped
  <2>2. CASE kind # "MERGE"
    <3>1. dir = 0 /\ dirs = 0 /\ bytes = << >> /\ name = [p \in Path |-> 0]
      BY <2>2, Zenon DEF Init
    <3> QED BY <3>1 DEF DirsTyped, FilesTyped
  <2> QED BY <2>1, <2>2
<1>5. FlatTyped BY Zenon DEF Init, FlatTyped
<1>6. RecordTyped BY DEF Init, RecordTyped, NoRecord, Record
<1>7. ProcessTyped
  <2>1. at = "idle" /\ code = "NONE" /\ call = "publish" /\ answer = "NONE" /\ published = FALSE
    BY Zenon DEF Init
  <2>2. at \notin Coded BY <2>1 DEF Coded
  <2> QED BY <2>1, <2>2, PcsAre, PlainAre, AnswersAre, Zenon DEF ProcessTyped, CodeKnown
<1>8. OwnerTyped
  <2>1. owned \in {Base, Missing} /\ fate = "SAFE" /\ edits = 0 /\ crashes = 0
    BY DEF Init
  <2> QED BY <2>1, ContentsTyped DEF OwnerTyped, FateTyped
<1> QED BY <1>1, <1>2, <1>3, <1>4, <1>5, <1>6, <1>7, <1>8, TypeParts, Zenon

LEMMA StutterTyped == TypeInv /\ UNCHANGED vars => TypeInv'
<1> SUFFICES ASSUME TypeInv, UNCHANGED vars PROVE TypeInv' OBVIOUS
<1>1. /\ UNCHANGED <<scope, medium, kind>> /\ UNCHANGED tree /\ UNCHANGED <<at, binding>>
      /\ UNCHANGED <<dir, dirs>> /\ UNCHANGED <<name, bytes>> /\ UNCHANGED flat /\ SameRecord
      /\ UNCHANGED <<at, code, call, answer, published>>
      /\ UNCHANGED <<owned, edits, crashes>> /\ UNCHANGED fate
  BY Zenon DEF vars, disk, process, SameRecord
<1> QED BY <1>1, Kept, TypePartsPrime, Zenon

LEMMA NextTyped == TypeInv /\ [Next]_vars => TypeInv'
<1> SUFFICES ASSUME TypeInv, [Next]_vars PROVE TypeInv' OBVIOUS
<1>1. CASE Ask \/ Act \/ Root \/ Context \/ Look
  BY <1>1, AskTyped, ActTyped, PrepareTyped, SegmentTyped, AncestorTyped, ParityTyped,
     SettleTyped, LookTyped, KeyTyped, ReadTyped, WriteTyped, RereadTextTyped, ReadbackTyped, Zenon
  DEF Root, Context
<1>2. CASE Create \/ Merge
  <2>1. "move" \in Plain BY PcsAre, Zenon
  <2> QED
    BY <1>2, <2>1, MkdirTyped, ClaimingTyped, ClaimTyped, CheckBaseTyped, ReservingTyped,
       ReserveTyped, ReservedTyped, MoveTyped, MovedTyped, RestoreTyped, ReleaseTyped, DropTyped,
       Zenon
    DEF Create, Merge
<1>3. CASE Both \/ Close
  BY <1>3, BeginTyped, StageTyped, StagedTyped, InstallTyped, CheckTyped, DislodgeTyped, TidyUpTyped,
     WrittenTyped, ConflictTyped, ConfirmTyped, WithdrawTyped, RmdirTyped, FinalizingTyped,
     FinalTyped, FinalizedTyped, Zenon
  DEF Both, Close
<1>4. CASE Recover
  <2>1. "remove" \in Plain BY PcsAre, Zenon
  <2> QED
    BY <1>4, <2>1, RereservingTyped, RereserveTyped, ReservedTyped, RemoveTyped, RemovedTyped,
       RelinkTyped, RecheckTyped, Zenon
    DEF Recover
<1>5. CASE Environment
  BY <1>5, EditInPlaceTyped, SaveTyped, DeleteTyped, DeleteBundleTyped, ToggleFlatTyped,
     MoveRootTyped, CrashTyped, Zenon
  DEF Environment
<1>6. CASE UNCHANGED vars BY <1>6, StutterTyped, Zenon
<1> QED BY <1>1, <1>2, <1>3, <1>4, <1>5, <1>6, Zenon DEF Next, Process

(* Every variable keeps its type, whatever the process, the owner and the *)
(* crashes do; a level is made only while one is left to make, and a conflict *)
(* is recorded only with its code. *)
THEOREM TypeCorrect == Spec => []TypeOK
<1>1. Spec => []TypeInv BY InitTyped, NextTyped, PTL DEF Spec
<1>2. TypeInv => TypeOK BY Zenon DEF TypeInv
<1> QED BY <1>1, <1>2, PTL

----
(* Where the process may stand, by the newest record. *)
ContextPcs == {"key", "read", "write", "reread", "readback"}
Working == Pcs \ (Binding \cup ContextPcs \cup {"idle"})
Opening == {"mkdir", "claiming", "claim", "stage"}
MergePcs == {"base", "reserving", "reserve", "reserved", "move", "moved", "restore", "release", "drop",
             "rereserving", "rereserve", "rereserved", "remove", "removed"}

Fits(pc, state) ==
    /\ medium = "CONTEXT" => pc \in ContextPcs \cup {"idle"} /\ state = "NONE"
    /\ medium = "DISK" => pc \notin ContextPcs
    /\ pc \in Working => state \notin {"NONE", "FINALIZED"}
    /\ pc = "begin" => state = "NONE"
    /\ pc \in Opening => state \in {"ROOT_PREPARED", "TARGET_CLAIMED"}
    /\ pc \in Opening \ {"stage"} => kind = "CREATE"
    /\ pc = "install" => state \in {"STAGED", "BACKUP_MOVED"}
    /\ pc \in {"final", "finalized"} => state = "FINALIZING"
    /\ pc \in MergePcs => kind = "MERGE"

(* A question is answered once, and only a session's own file system remembers. *)
Flow ==
    /\ Fits(at, record.state)
    /\ medium = "DISK" => ~published
    /\ at # "idle" => answer = "NONE"

LEMMA FitsIdle == ASSUME NEW pc, NEW s, Fits(pc, s) PROVE Fits("idle", s)
<1>1. "idle" \notin Working /\ "idle" \notin ContextPcs /\ "idle" \notin Opening
      /\ "idle" \notin MergePcs
  BY DEF Working, ContextPcs, Opening, MergePcs
<1> QED BY <1>1 DEF Fits

LEMMA FitsConflict ==
  ASSUME NEW pc \in Working, NEW s, Fits(pc, s), TypeInv
  PROVE Fits("conflict", s)
<1>1. /\ "conflict" \notin ContextPcs /\ "conflict" \notin Opening /\ "conflict" \notin MergePcs
  BY DEF ContextPcs, Opening, MergePcs
<1>2. pc \notin ContextPcs \cup {"idle"} BY DEF Working
<1>3. s \notin {"NONE", "FINALIZED"} BY DEF Fits
<1> QED BY <1>1, <1>2, <1>3 DEF Fits

LEMMA FitsPrime ==
  ASSUME NEW here, At(here) \/ Here(here), NEW pc, NEW s
  PROVE  Fits(pc, s) <=> /\ medium' = "CONTEXT" => pc \in ContextPcs \cup {"idle"} /\ s = "NONE"
                         /\ medium' = "DISK" => pc \notin ContextPcs
                         /\ pc \in Working => s \notin {"NONE", "FINALIZED"}
                         /\ pc = "begin" => s = "NONE"
                         /\ pc \in Opening => s \in {"ROOT_PREPARED", "TARGET_CLAIMED"}
                         /\ pc \in Opening \ {"stage"} => kind' = "CREATE"
                         /\ pc = "install" => s \in {"STAGED", "BACKUP_MOVED"}
                         /\ pc \in {"final", "finalized"} => s = "FINALIZING"
                         /\ pc \in MergePcs => kind' = "MERGE"
<1>1. medium' = medium /\ kind' = kind
  BY Zenon DEF At, Here, environment
<1> QED BY <1>1, Zenon DEF Fits

(* How a step ends, when its end fits what is on record then. *)
LEMMA FlowGoto ==
  ASSUME NEW here, NEW pc, Flow, At(here) \/ Here(here), here # "idle" \/ answer = "NONE",
         at' = pc, UNCHANGED <<answer, published>>, Fits(pc, record'.state)
  PROVE Flow'
<1>1. medium' = medium /\ at = here BY Zenon DEF At, Here, environment
<1>2. Fits(at, record.state)' BY FitsPrime, Zenon DEF Fits
<1> QED BY <1>1, <1>2, Zenon DEF Flow

LEMMA FlowSay ==
  ASSUME NEW here, NEW a, Flow, At(here) \/ Here(here), Say(a), Fits("idle", record'.state)
  PROVE Flow'
<1>1. medium' = medium /\ at' = "idle" /\ UNCHANGED published
  BY Zenon DEF At, Here, environment, Say
<1>2. Fits(at, record.state)' BY <1>1, FitsPrime, Zenon DEF Fits
<1> QED BY <1>1, <1>2, Zenon DEF Flow

LEMMA Choices == TypeInv => kind \in {"CREATE", "MERGE"} /\ medium \in {"DISK", "CONTEXT"}
  BY TypeParts, PublicationRootAssumption DEF FixedTyped

LEMMA SameState == SameRecord => record'.state = record.state
  BY Zenon DEF SameRecord

(* What fits at one moment, fits at the next with what is recorded then. *)
LEMMA FitsAlong ==
  ASSUME TypeInv, Flow
  PROVE  /\ at = "mkdir" => Fits("claiming", record.state)
         /\ at = "claiming" => Fits("claim", "TARGET_CLAIMED")
         /\ at = "claim" => Fits("stage", record.state)
         /\ at = "stage" => Fits("staged", record.state)
         /\ at = "staged" /\ kind = "CREATE" => Fits("install", "STAGED")
         /\ at = "staged" /\ kind = "MERGE" => Fits("base", "STAGED")
         /\ at = "base" => Fits("reserving", record.state)
         /\ at = "reserving" => Fits("reserve", "BACKUP_RESERVING")
         /\ at = "reserve" => Fits("reserved", record.state)
         /\ at = "reserved" => Fits("move", "BACKUP_RESERVED")
         /\ at = "move" => Fits("moved", record.state)
         /\ at = "moved" => Fits("install", "BACKUP_MOVED")
         /\ at = "moved" \/ (at \in {"install", "dislodge"} /\ kind = "MERGE")
               => Fits("restore", record.state)
         /\ at = "restore" => Fits("release", record.state)
         /\ at \in {"restore", "release"} => Fits("drop", record.state) /\ Fits("conflict", record.state)
         /\ at = "install" => Fits("check", record.state)
         /\ at = "check" => Fits("tidy", record.state) /\ Fits("preserve", record.state)
         /\ at = "preserve" => Fits("rebind", record.state)
         /\ at = "rebind" => Fits("dislodge", record.state)
         /\ at = "withdraw" => Fits("match", record.state)
         /\ at = "match" => Fits("withdrawing", record.state)
         /\ at = "tidy" => Fits("written", record.state)
         /\ at = "written" => Fits("confirm", "DISK_WRITTEN")
         /\ at = "written" => Fits("confirm", record.state)
         /\ at = "rereserving" => Fits("rereserve", "BACKUP_RESERVING")
         /\ at = "rereserve" => Fits("rereserved", record.state)
         /\ at = "rereserved" => Fits("remove", "BACKUP_RESERVED")
         /\ at = "remove" => Fits("removed", record.state)
         /\ at = "removed" => Fits("relink", "RECOVERY_BACKUP_MOVED")
         /\ at = "relink" => Fits("recheck", record.state)
         /\ at = "recheck" => Fits("tidy", record.state)
         /\ at = "confirm" => Fits("withdraw", record.state)
         /\ at = "confirm" => Fits("finalizing", record.state)
         /\ at = "withdrawing" => Fits("rmdir", record.state)
         /\ at = "finalizing" /\ record.state = "FINALIZING" => Fits("final", record.state)
         /\ at = "finalizing" => Fits("final", "FINALIZING")
         /\ at = "final" => Fits("finalized", record.state)
         /\ at = "finalized" => Fits("idle", "FINALIZED")
         /\ at = "begin" /\ kind = "CREATE" => Fits("mkdir", "ROOT_PREPARED")
         /\ at = "begin" => Fits("stage", "ROOT_PREPARED")
         /\ at = "prepare" => Fits("segment", record.state)
         /\ at = "prepare" => Fits("parity", record.state)
         /\ at = "segment" => Fits("segment", record.state)
         /\ at = "segment" => Fits("ancestor", record.state)
         /\ at = "ancestor" => Fits("parity", record.state)
         /\ at = "parity" => Fits("settle", record.state)
         /\ at = "settle" => Fits("look", record.state)
         /\ at = "look" /\ record.state = "NONE" => Fits("begin", record.state)
<1>1. Fits(at, record.state) BY Zenon DEF Flow
<1> QED BY <1>1, Choices DEF Fits, Working, Pcs, Binding, ContextPcs, Opening, MergePcs

(* What a step at work may do without writing a record. *)
LEMMA FlowEnds ==
  ASSUME NEW here \in Working, TypeInv, Flow, At(here) \/ Here(here), SameRecord,
         \/ Throw
         \/ \E c : Fail(c)
         \/ \E c : PutBack(c) /\ Fits("restore", record.state)
         \/ \E pc : Goto(pc) /\ Fits(pc, record.state)
  PROVE Flow'
<1>1. here # "idle" /\ at = here /\ Fits(here, record.state)
  <2>1. here # "idle" BY DEF Working
  <2> QED BY <2>1, Zenon DEF At, Here, Flow
<1>2. Fits("idle", record'.state) /\ Fits("conflict", record'.state)
  BY <1>1, FitsIdle, FitsConflict, SameState, Zenon
<1>3. CASE Throw BY <1>2, <1>3, FlowSay, Zenon DEF Throw
<1>4. ASSUME NEW c, Fail(c) PROVE Flow'
  BY <1>1, <1>2, <1>4, FlowGoto, Zenon DEF Fail
<1>5. ASSUME NEW pc, Goto(pc), Fits(pc, record.state) PROVE Flow'
  BY <1>1, <1>5, SameState, FlowGoto, Zenon DEF Goto
<1>6. ASSUME NEW c, PutBack(c), Fits("restore", record.state) PROVE Flow'
  BY <1>1, <1>6, SameState, FlowGoto, Zenon DEF PutBack
<1> QED BY <1>3, <1>4, <1>5, <1>6, Zenon

(* A record is written, or its name is taken by one half-written before. *)
LEMMA FlowJournal ==
  ASSUME NEW here, here # "idle", TypeInv, Flow, At(here),
         NEW s, NEW r \in Record, NEW pc, Journal(s, r, pc), Fits(pc, s)
  PROVE Flow'
<1>1. at = here /\ Fits(here, record.state) BY Zenon DEF At, Here, Flow
<1>2. CASE s \in torn
  BY <1>1, <1>2, FitsIdle, SameState, FlowSay, Zenon DEF Journal, Throw
<1>3. CASE s \notin torn
  <2>1. record' = [r EXCEPT !.state = s] /\ Goto(pc)
    BY <1>3, Zenon DEF Journal
  <2>2. record'.state = s BY <2>1 DEF Record
  <2> QED BY <2>1, <2>2, FlowGoto, Zenon DEF Goto
<1> QED BY <1>2, <1>3, Zenon

LEMMA WorkingAre ==
  /\ "mkdir" \in Working /\ "claiming" \in Working /\ "claim" \in Working /\ "stage" \in Working
  /\ "staged" \in Working /\ "base" \in Working /\ "reserving" \in Working
  /\ "reserve" \in Working /\ "reserved" \in Working /\ "move" \in Working
  /\ "restore" \in Working /\ "release" \in Working /\ "preserve" \in Working
  /\ "rebind" \in Working /\ "dislodge" \in Working /\ "match" \in Working /\ "withdrawing" \in Working
  /\ "moved" \in Working /\ "drop" \in Working /\ "install" \in Working /\ "check" \in Working
  /\ "tidy" \in Working /\ "written" \in Working /\ "conflict" \in Working
  /\ "rereserving" \in Working /\ "rereserve" \in Working /\ "rereserved" \in Working
  /\ "remove" \in Working /\ "removed" \in Working /\ "relink" \in Working
  /\ "recheck" \in Working /\ "confirm" \in Working /\ "withdraw" \in Working
  /\ "rmdir" \in Working /\ "finalizing" \in Working /\ "final" \in Working
  /\ "finalized" \in Working
  BY DEF Working, Pcs, Binding, ContextPcs

LEMMA FitsHere == ASSUME NEW here, Flow, At(here) \/ Here(here) PROVE at = here /\ Fits(here, record.state)
  BY Zenon DEF At, Here, Flow

LEMMA MkdirFlow == TypeInv /\ Flow /\ Mkdir => Flow'
  BY WorkingAre, FitsHere, FitsAlong, Choices, FlowEnds, Zenon DEF Mkdir

LEMMA ClaimingFlow == TypeInv /\ Flow /\ Claiming => Flow'
<1> SUFFICES ASSUME TypeInv, Flow, Claiming PROVE Flow' OBVIOUS
<1>1. At("claiming") /\ Fits("claim", "TARGET_CLAIMED") /\ "claiming" # "idle"
  BY FitsHere, FitsAlong, Choices, Zenon DEF Claiming
<1> QED BY <1>1, WorkingAre, RecordsTyped, FlowEnds, FlowJournal, Zenon DEF Claiming

LEMMA ClaimFlow == TypeInv /\ Flow /\ Claim => Flow'
  BY WorkingAre, FitsHere, FitsAlong, Choices, FlowEnds, Zenon DEF Claim, WriteScratch

LEMMA StageFlow == TypeInv /\ Flow /\ Stage => Flow'
  BY WorkingAre, FitsHere, FitsAlong, Choices, FlowEnds, Zenon DEF Stage, WriteScratch

LEMMA StagedFlow == TypeInv /\ Flow /\ Staged => Flow'
<1> SUFFICES ASSUME TypeInv, Flow, Staged PROVE Flow' OBVIOUS
<1> DEFINE r == [record EXCEPT !.stage = name["stage"], !.claim = name["claim"]]
           pc == IF kind = "CREATE" THEN "install" ELSE "base"
<1>1. At("staged") /\ Fits(pc, "STAGED") /\ "staged" # "idle"
  BY FitsHere, FitsAlong, Choices, Zenon DEF Staged
<1>2. \/ Throw /\ SameRecord
      \/ Journal("STAGED", r, pc)
  BY Zenon DEF Staged
<1>3. r \in Record BY RecordsTyped, Zenon
<1> HIDE DEF r, pc
<1> QED BY <1>1, <1>2, <1>3, WorkingAre, FlowEnds, FlowJournal, Zenon

LEMMA CheckBaseFlow == TypeInv /\ Flow /\ CheckBase => Flow'
  BY WorkingAre, FitsHere, FitsAlong, Choices, FlowEnds, Zenon DEF CheckBase, Tidy

LEMMA ReservingFlow == TypeInv /\ Flow /\ Reserving => Flow'
<1> SUFFICES ASSUME TypeInv, Flow, Reserving PROVE Flow' OBVIOUS
<1>1. At("reserving") /\ Fits("reserve", "BACKUP_RESERVING") /\ "reserving" # "idle"
  BY FitsHere, FitsAlong, Choices, Zenon DEF Reserving
<1> QED BY <1>1, WorkingAre, RecordsTyped, FlowEnds, FlowJournal, Zenon DEF Reserving

LEMMA ReserveFlow == TypeInv /\ Flow /\ Reserve => Flow'
  BY WorkingAre, FitsHere, FitsAlong, Choices, FlowEnds, Zenon DEF Reserve, Tidy

LEMMA ReservedFlow ==
  /\ TypeInv /\ Flow /\ Reserved("reserved", "move") => Flow'
  /\ TypeInv /\ Flow /\ Reserved("rereserved", "remove") => Flow'
<1>1. ASSUME NEW pc \in Working, NEW next, TypeInv, Flow, Reserved(pc, next),
             Fits(next, "BACKUP_RESERVED")
      PROVE Flow'
  <2>1. pc # "idle" BY DEF Working
  <2> QED BY <1>1, <2>1, RecordsTyped, FlowEnds, FlowJournal, Zenon DEF Reserved
<1>2. Flow /\ Reserved("reserved", "move") /\ TypeInv => Fits("move", "BACKUP_RESERVED")
  BY FitsHere, FitsAlong, Choices, Zenon DEF Reserved
<1>3. Flow /\ Reserved("rereserved", "remove") /\ TypeInv => Fits("remove", "BACKUP_RESERVED")
  BY FitsHere, FitsAlong, Choices, Zenon DEF Reserved
<1> QED BY <1>1, <1>2, <1>3, WorkingAre, Zenon

LEMMA MoveFlow == TypeInv /\ Flow /\ Move => Flow'
  BY WorkingAre, FitsHere, FitsAlong, Choices, FlowEnds, Zenon DEF Move, Tidy

LEMMA MovedFlow == TypeInv /\ Flow /\ Moved => Flow'
<1> SUFFICES ASSUME TypeInv, Flow, Moved PROVE Flow' OBVIOUS
<1>1. At("moved") /\ Fits("install", "BACKUP_MOVED") /\ Fits("restore", record.state) /\ "moved" # "idle"
  BY FitsHere, FitsAlong, Choices, Zenon DEF Moved
<1> QED BY <1>1, WorkingAre, RecordsTyped, FlowEnds, FlowJournal, Zenon DEF Moved

LEMMA RestoreFlow == TypeInv /\ Flow /\ (Restore \/ Release) => Flow'
<1> SUFFICES ASSUME TypeInv, Flow, Restore \/ Release PROVE Flow' OBVIOUS
<1>1. PICK here \in {"restore", "release"} : At(here)
  BY Zenon DEF Restore, Release
<1>2. at = here BY <1>1, FitsHere, Zenon
<1>3. Fits(Afterwards, record.state) /\ (Restore => Fits("release", record.state)) /\ here \in Working
  BY <1>1, <1>2, FitsAlong, WorkingAre, Zenon DEF Afterwards, Restore, At, Here
<1> QED BY <1>1, <1>3, FlowEnds, Zenon DEF Restore, Release

LEMMA DropFlow == TypeInv /\ Flow /\ Drop => Flow'
  BY WorkingAre, FlowEnds, Zenon DEF Drop, Tidy

LEMMA InstallFlow == TypeInv /\ Flow /\ Install => Flow'
  BY WorkingAre, FitsHere, FitsAlong, Choices, FlowEnds, Zenon
  DEF Install, InstallNew, InstallMerged, InstallOr, Tidy

LEMMA CheckFlow == TypeInv /\ Flow /\ (Check \/ Preserve \/ Rebind \/ Dislodge) => Flow'
<1>1. TypeInv /\ Flow /\ Check => Flow'
  BY WorkingAre, FitsHere, FitsAlong, FlowEnds, Tuples, Zenon DEF Check
<1>2. TypeInv /\ Flow /\ Preserve => Flow'
  BY WorkingAre, FitsHere, FitsAlong, FlowEnds, Tuples, Zenon DEF Preserve, LookedAt
<1>3. TypeInv /\ Flow /\ Rebind => Flow'
  BY WorkingAre, FitsHere, FitsAlong, FlowEnds, Tuples, Zenon DEF Rebind
<1>4. TypeInv /\ Flow /\ Dislodge => Flow'
  BY WorkingAre, FitsHere, FitsAlong, Choices, FlowEnds, Zenon DEF Dislodge, UnlinkTarget
<1> QED BY <1>1, <1>2, <1>3, <1>4, Zenon

LEMMA TidyUpFlow == TypeInv /\ Flow /\ TidyUp => Flow'
  BY WorkingAre, FitsHere, FitsAlong, Choices, FlowEnds, Zenon DEF TidyUp, Tidy

LEMMA WrittenFlow == TypeInv /\ Flow /\ Written => Flow'
<1> SUFFICES ASSUME TypeInv, Flow, Written PROVE Flow' OBVIOUS
<1>1. /\ At("written") /\ Fits("confirm", "DISK_WRITTEN") /\ Fits("confirm", record.state)
      /\ "written" # "idle"
  BY FitsHere, FitsAlong, Choices, Zenon DEF Written
<1> QED BY <1>1, WorkingAre, RecordsTyped, FlowEnds, FlowJournal, Zenon DEF Written

LEMMA ConflictFlow == TypeInv /\ Flow /\ Conflict => Flow'
<1> SUFFICES ASSUME TypeInv, Flow, Conflict PROVE Flow' OBVIOUS
<1>1. At("conflict") /\ at = "conflict" /\ Fits("conflict", record.state)
  BY FitsHere, Zenon DEF Conflict
<1>2. medium # "CONTEXT" BY <1>1 DEF Fits, ContextPcs
<1>3. \A s : Fits("idle", s)
  BY <1>2 DEF Fits, ContextPcs, Working, Opening, MergePcs
<1>4. \E a : Say(a) BY Zenon DEF Conflict, Throw
<1> QED BY <1>1, <1>3, <1>4, FlowSay, Zenon

LEMMA RereservingFlow == TypeInv /\ Flow /\ Rereserving => Flow'
<1> SUFFICES ASSUME TypeInv, Flow, Rereserving PROVE Flow' OBVIOUS
<1>1. At("rereserving") /\ Fits("rereserve", "BACKUP_RESERVING") /\ "rereserving" # "idle"
  BY FitsHere, FitsAlong, Choices, Zenon DEF Rereserving
<1> QED BY <1>1, RecordsTyped, FlowJournal, Zenon DEF Rereserving

LEMMA RereserveFlow == TypeInv /\ Flow /\ Rereserve => Flow'
  BY WorkingAre, FitsHere, FitsAlong, FlowEnds, Zenon DEF Rereserve

LEMMA RemoveFlow == TypeInv /\ Flow /\ Remove => Flow'
  BY WorkingAre, FitsHere, FitsAlong, FlowEnds, Zenon DEF Remove

LEMMA RemovedFlow == TypeInv /\ Flow /\ Removed => Flow'
<1> SUFFICES ASSUME TypeInv, Flow, Removed PROVE Flow' OBVIOUS
<1> DEFINE r == [record EXCEPT !.backup = name["backup"]]
<1>1. At("removed") /\ Fits("relink", "RECOVERY_BACKUP_MOVED") /\ "removed" # "idle"
  BY FitsHere, FitsAlong, Zenon DEF Removed
<1>2. \/ Fail("UNKNOWN_STATE") /\ SameRecord
      \/ Journal("RECOVERY_BACKUP_MOVED", r, "relink")
  BY Zenon DEF Removed
<1>3. r \in Record BY RecordsTyped, Zenon
<1> HIDE DEF r
<1> QED BY <1>1, <1>2, <1>3, WorkingAre, FlowEnds, FlowJournal, Zenon

LEMMA RelinkFlow == TypeInv /\ Flow /\ Relink => Flow'
  BY WorkingAre, FitsHere, FitsAlong, FlowEnds, Zenon DEF Relink

LEMMA RecheckFlow == TypeInv /\ Flow /\ Recheck => Flow'
  BY WorkingAre, FitsHere, FitsAlong, FlowEnds, Tuples, Zenon DEF Recheck

LEMMA ConfirmFlow == TypeInv /\ Flow /\ Confirm => Flow'
  BY WorkingAre, FitsHere, FitsAlong, FlowEnds, Tuples, Zenon DEF Confirm

LEMMA WithdrawFlow == TypeInv /\ Flow /\ (Withdraw \/ Match \/ Withdrawing) => Flow'
<1>1. TypeInv /\ Flow /\ Withdraw => Flow'
  BY WorkingAre, FitsHere, FitsAlong, FlowEnds, Tuples, Zenon DEF Withdraw
<1>2. TypeInv /\ Flow /\ Match => Flow'
  BY WorkingAre, FitsHere, FitsAlong, FlowEnds, Tuples, Zenon DEF Match, LookedAt
<1>3. TypeInv /\ Flow /\ Withdrawing => Flow'
  BY WorkingAre, FitsHere, FitsAlong, FlowEnds, Zenon DEF Withdrawing, UnlinkTarget
<1> QED BY <1>1, <1>2, <1>3, Zenon

LEMMA RmdirFlow == TypeInv /\ Flow /\ Rmdir => Flow'
  BY WorkingAre, FlowEnds, Zenon DEF Rmdir

LEMMA FinalizingFlow == TypeInv /\ Flow /\ Finalizing => Flow'
<1> SUFFICES ASSUME TypeInv, Flow, Finalizing PROVE Flow' OBVIOUS
<1>1. /\ At("finalizing") /\ Fits("final", "FINALIZING") /\ "finalizing" # "idle"
      /\ record.state = "FINALIZING" => Fits("final", record.state)
  BY FitsHere, FitsAlong, Zenon DEF Finalizing
<1>2. \/ Throw /\ SameRecord
      \/ record.state = "FINALIZING" /\ Goto("final") /\ SameRecord
      \/ Journal("FINALIZING", record, "final")
  BY Zenon DEF Finalizing
<1> QED BY <1>1, <1>2, WorkingAre, RecordsTyped, FlowEnds, FlowJournal, Zenon

LEMMA FinalFlow == TypeInv /\ Flow /\ Final => Flow'
  BY WorkingAre, FitsHere, FitsAlong, FlowEnds, Zenon DEF Final, Tidy

LEMMA FinalizedFlow == TypeInv /\ Flow /\ Finalized => Flow'
<1> SUFFICES ASSUME TypeInv, Flow, Finalized PROVE Flow' OBVIOUS
<1>1. At("finalized") /\ Fits("idle", "FINALIZED") /\ Fits("idle", record.state)
  BY FitsHere, FitsAlong, FitsIdle, Zenon DEF Finalized
<1>2. SameRecord \/ record'.state = "FINALIZED"
  BY TypeParts DEF Finalized, RecordTyped, Record
<1>3. \E a : Say(a) BY Zenon DEF Finalized, Throw
<1> QED BY <1>1, <1>2, <1>3, SameState, FlowSay, Zenon

LEMMA AskFlow == TypeInv /\ Flow /\ Ask => Flow'
<1> SUFFICES ASSUME TypeInv, Flow, Ask PROVE Flow' OBVIOUS
<1>1. At("idle") /\ answer = "NONE" /\ SameRecord /\ Fits("idle", record.state)
  BY FitsHere, Tuples, Zenon DEF Ask
<1>2. /\ medium = "DISK" => Fits("prepare", record.state)
      /\ medium # "DISK" => Fits("key", record.state)
  BY <1>1, Choices DEF Fits, ContextPcs, Working, Opening, MergePcs, Pcs, Binding
<1>3. \/ \E a : Say(a)
      \/ medium = "DISK" /\ Bind("prepare", Observed)
      \/ medium # "DISK" /\ Goto("key")
  BY Zenon DEF Ask
<1> QED BY <1>1, <1>2, <1>3, SameState, FlowSay, FlowGoto, Zenon DEF Bind, Goto

LEMMA ActFlow == TypeInv /\ Flow /\ Act => Flow'
<1> SUFFICES ASSUME TypeInv, Flow, Act PROVE Flow' OBVIOUS
<1>1. at' = at /\ at = "idle" /\ medium' = medium /\ kind' = kind /\ published' = published
      /\ record' = record
  BY Zenon DEF Act, At, Here, environment, SameDisk
<1> QED BY <1>1, Zenon DEF Flow, Fits

(* Reading and making the root. *)
LEMMA FlowRoot ==
  ASSUME NEW here, here # "idle", TypeInv, Flow, At(here), SameRecord,
         \/ \E a : Say(a)
         \/ \E pc : Goto(pc) /\ Fits(pc, record.state)
         \/ \E pc, b : Bind(pc, b) /\ Fits(pc, record.state)
  PROVE Flow'
<1>1. Fits("idle", record'.state) /\ record'.state = record.state
  BY FitsHere, FitsIdle, SameState, Zenon
<1> QED BY <1>1, FlowSay, FlowGoto, Zenon DEF Goto, Bind

LEMMA PrepareFlow == TypeInv /\ Flow /\ Prepare => Flow'
  BY FitsHere, FitsAlong, FlowRoot, Tuples, Zenon DEF Prepare, Throw

LEMMA SegmentFlow == TypeInv /\ Flow /\ Segment => Flow'
<1> SUFFICES ASSUME TypeInv, Flow, Segment PROVE Flow' OBVIOUS
<1>1. \/ \E a : Say(a)
      \/ \E b : Bind("ancestor", b)
      \/ \E b : Bind("segment", b)
  BY Zenon DEF Segment, Throw
<1> QED BY <1>1, FitsHere, FitsAlong, FlowRoot, Zenon DEF Segment

LEMMA AncestorFlow == TypeInv /\ Flow /\ Ancestor => Flow'
  BY FitsHere, FitsAlong, FlowRoot, Tuples, Zenon DEF Ancestor, Throw

LEMMA ParityFlow == TypeInv /\ Flow /\ Parity => Flow'
  BY FitsHere, FitsAlong, FlowRoot, Tuples, Zenon DEF Parity, Throw

LEMMA SettleFlow == TypeInv /\ Flow /\ Settle => Flow'
  BY FitsHere, FitsAlong, FlowRoot, Tuples, Zenon DEF Settle, Throw

(* Where looking goes on from, and what it has read there. *)
LookGoesOn ==
    \/ Goto("tidy") /\ Installed
    \/ Goto("relink") /\ name["target"] = 0 /\ StageReady /\ (kind = "MERGE" => Held("backup") = Base)
    \/ /\ kind = "MERGE" /\ Held("target") = Base /\ Mine("stage")
       /\ Held("backup") \in {Missing, Reservation}
       /\ \/ Goto("rereserve") \/ Goto("rereserving")
          \/ Goto("remove") /\ Held("backup") = Reservation
    \/ Goto("removed") /\ kind = "MERGE" /\ name["target"] = 0

(* All is in place, and only the final record is missing. *)
AllInPlace ==
    /\ kind = "MERGE" /\ record.state = "FINALIZING"
    /\ Installed /\ name["stage"] = 0 /\ name["backup"] = 0

LEMMA LookBranches ==
  ASSUME Look, kind \in {"CREATE", "MERGE"}
  PROVE  \/ \E a : Say(a)
         \/ record.state = "NONE" /\ Goto("begin") /\ (kind = "MERGE" => Held("target") = Base)
         \/ /\ record.state \notin {"NONE", "FINALIZED"} /\ Bound
            /\ IF AllInPlace THEN Goto("confirm") ELSE Fail("UNKNOWN_STATE") \/ LookGoesOn
<1>1. LookNew => (\E a : Say(a)) \/ (Goto("begin") /\ (kind = "MERGE" => Held("target") = Base))
  BY Zenon DEF LookNew, BaseIsReadable
<1>2. LookFinal => \E a : Say(a) BY Zenon DEF LookFinal
<1>3. LookCreate /\ kind = "CREATE" => ~AllInPlace /\ (Fail("UNKNOWN_STATE") \/ LookGoesOn)
  <2> SUFFICES ASSUME LookCreate, kind = "CREATE"
               PROVE ~AllInPlace /\ (Fail("UNKNOWN_STATE") \/ LookGoesOn) OBVIOUS
  <2>1. kind # "MERGE" OBVIOUS
  <2> QED BY <2>1, Zenon DEF LookCreate, LookGoesOn, AllInPlace
<1>4. LookMerge /\ kind = "MERGE" =>
        IF AllInPlace THEN Goto("confirm") ELSE Fail("UNKNOWN_STATE") \/ LookGoesOn
  <2>0. CASE AllInPlace BY <2>0, Zenon DEF LookMerge, AllInPlace
  <2> SUFFICES ASSUME LookMerge, kind = "MERGE", ~ Fail("UNKNOWN_STATE"), ~AllInPlace
               PROVE LookGoesOn
    BY <2>0, Zenon
  <2> DEFINE before == /\ Held("target") = Base /\ Held("backup") \in {Missing, Reservation}
                       /\ name["stage"] # 0
             moved == name["target"] = 0 /\ Held("backup") = Base /\ StageReady
  <2>1. \/ Installed /\ Goto("tidy")
        \/ /\ Mine("stage") /\ before
           /\ \/ Goto("rereserve") \/ Goto("rereserving")
              \/ Held("backup") # Missing /\ Goto("remove")
        \/ moved /\ (Goto("removed") \/ Goto("relink"))
    BY Zenon DEF LookMerge, AllInPlace
  <2>2. before /\ Held("backup") # Missing => Held("backup") = Reservation
    BY Zenon
  <2> QED BY <2>1, <2>2, Zenon DEF LookGoesOn
<1>5. Throw => \E a : Say(a) BY Zenon DEF Throw
<1>6. \/ Throw
      \/ record.state = "NONE" /\ LookNew
      \/ LookFinal
      \/ /\ record.state \notin {"NONE", "FINALIZED"} /\ Bound
         /\ \/ kind = "CREATE" /\ LookCreate
            \/ kind = "MERGE" /\ LookMerge
  BY Zenon DEF Look
<1> QED BY <1>1, <1>2, <1>3, <1>4, <1>5, <1>6, Zenon

LEMMA LookFlow == TypeInv /\ Flow /\ Look => Flow'
<1> SUFFICES ASSUME TypeInv, Flow, Look PROVE Flow' OBVIOUS
<1>1. At("look") /\ "look" # "idle" /\ SameRecord /\ Fits("look", record.state)
  BY FitsHere, Tuples, Zenon DEF Look
<1>2. record.state = "NONE" => Fits("begin", record.state)
  BY <1>1, FitsHere, FitsAlong, Zenon
<1>3. ASSUME record.state \notin {"NONE", "FINALIZED"}, NEW pc \in {"conflict", "tidy", "relink", "confirm"}
      PROVE Fits(pc, record.state)
  BY <1>1, <1>3 DEF Fits, ContextPcs, Opening, MergePcs
<1>4. ASSUME record.state \notin {"NONE", "FINALIZED"}, kind = "MERGE",
             NEW pc \in {"rereserve", "rereserving", "remove", "removed"}
      PROVE Fits(pc, record.state)
  BY <1>1, <1>4 DEF Fits, ContextPcs, Opening, MergePcs
<1>5. Fits("conflict", record.state) /\ Fail("UNKNOWN_STATE") => Flow'
  BY <1>1, SameState, FlowGoto, Zenon DEF Fail
<1>6. ASSUME record.state \notin {"NONE", "FINALIZED"}, LookGoesOn
      PROVE \E pc : Goto(pc) /\ Fits(pc, record.state)
  <2>1. \/ Goto("tidy") \/ Goto("relink")
        \/ kind = "MERGE" /\ (Goto("rereserve") \/ Goto("rereserving") \/ Goto("remove") \/ Goto("removed"))
    BY <1>6, Zenon DEF LookGoesOn
  <2> QED BY <1>3, <1>4, <1>6, <2>1, Zenon
<1>7. \/ \E a : Say(a)
      \/ record.state = "NONE" /\ Goto("begin")
      \/ /\ record.state \notin {"NONE", "FINALIZED"}
         /\ Goto("confirm") \/ Fail("UNKNOWN_STATE") \/ LookGoesOn
  BY LookBranches, Choices, Zenon
<1> QED BY <1>1, <1>2, <1>3, <1>5, <1>6, <1>7, FlowRoot, Zenon

LEMMA BeginFlow == TypeInv /\ Flow /\ Begin => Flow'
<1> SUFFICES ASSUME TypeInv, Flow, Begin PROVE Flow' OBVIOUS
<1>1. /\ At("begin") /\ "begin" # "idle" /\ Fits("stage", "ROOT_PREPARED")
      /\ kind = "CREATE" => Fits("mkdir", "ROOT_PREPARED")
  BY FitsHere, FitsAlong, Zenon DEF Begin
<1>2. \/ (\E a : Say(a)) /\ SameRecord
      \/ kind = "CREATE" /\ Journal("ROOT_PREPARED", [NoRecord EXCEPT !.dir = 0], "mkdir")
      \/ Journal("ROOT_PREPARED", [NoRecord EXCEPT !.dir = dir], "stage")
  BY Zenon DEF Begin, BeginCreate, BeginMerge, FirstRecord, Throw
<1>3. [NoRecord EXCEPT !.dir = 0] \in Record /\ [NoRecord EXCEPT !.dir = dir] \in Record
  BY RecordsTyped, Zenon
<1> QED BY <1>1, <1>2, <1>3, FlowRoot, FlowJournal, Zenon

(* The session's own file system. *)
LEMMA FlowContext ==
  ASSUME NEW here \in ContextPcs, TypeInv, Flow, At(here), SameRecord,
         (\E a : Say(a)) \/ (\E pc \in ContextPcs : Goto(pc))
  PROVE Flow'
<1>1. Fits(here, record.state) /\ here # "idle"
  BY FitsHere DEF ContextPcs
<1>2. \A pc \in ContextPcs : Fits(pc, record.state)
  BY <1>1, Choices DEF Fits, ContextPcs, Working, Opening, MergePcs
<1> QED BY <1>1, <1>2, FlowRoot, Zenon

LEMMA ContextAre ==
  /\ "key" \in ContextPcs /\ "read" \in ContextPcs /\ "write" \in ContextPcs
  /\ "reread" \in ContextPcs /\ "readback" \in ContextPcs
  BY DEF ContextPcs

LEMMA KeyFlow == TypeInv /\ Flow /\ Key => Flow'
  BY ContextAre, FlowContext, Tuples, Zenon DEF Key

LEMMA ReadFlow == TypeInv /\ Flow /\ Read => Flow'
  BY ContextAre, FlowContext, Tuples, Zenon DEF Read

LEMMA WriteFlow == TypeInv /\ Flow /\ Write => Flow'
  BY ContextAre, FlowContext, Zenon DEF Write, WriteText, Throw

LEMMA RereadFlow == TypeInv /\ Flow /\ Reread => Flow'
  BY ContextAre, FlowContext, Tuples, Zenon DEF Reread

LEMMA ReadbackFlow == TypeInv /\ Flow /\ Readback => Flow'
<1> SUFFICES ASSUME TypeInv, Flow, Readback PROVE Flow' OBVIOUS
<1>1. At("readback") /\ Fits("readback", record.state) /\ SameRecord /\ at' = "idle"
  BY FitsHere, Tuples, Zenon DEF Readback
<1>2. Fits("idle", record'.state) /\ medium # "DISK"
  BY <1>1, FitsIdle, SameState DEF Fits, ContextPcs
<1>3. Fits(at, record.state)' BY <1>1, <1>2, FitsPrime, Zenon DEF Fits
<1> QED BY <1>1, <1>2, <1>3, Zenon DEF Flow, At, Here, environment

LEMMA InitFlow == Init => Flow
<1> SUFFICES ASSUME Init PROVE Flow OBVIOUS
<1>1. at = "idle" /\ record.state = "NONE" /\ ~published
  BY DEF Init, NoRecord
<1>2. Fits("idle", "NONE")
  BY DEF Fits, Working, ContextPcs, Opening, MergePcs
<1> QED BY <1>1, <1>2, Zenon DEF Flow

(* The owner does nothing to the process, nor to its records. *)
LEMMA FlowStays == Flow /\ UNCHANGED <<medium, kind, record, process>> => Flow'
<1> SUFFICES ASSUME Flow, UNCHANGED <<medium, kind, record, process>> PROVE Flow' OBVIOUS
<1>1. UNCHANGED <<medium, kind, record, at, published, answer>>
  BY Zenon DEF process
<1> QED BY <1>1, Zenon DEF Flow, Fits

LEMMA CrashFlow == Flow /\ Crash => Flow'
<1> SUFFICES ASSUME Flow, Crash PROVE Flow' OBVIOUS
<1>1. at' = "idle" /\ ~published' /\ UNCHANGED <<medium, kind, record>>
  BY Zenon DEF Crash
<1>2. Fits("idle", record.state) BY FitsIdle, Zenon DEF Flow
<1>3. Fits(at, record.state)' BY <1>1, <1>2, Zenon DEF Fits
<1> QED BY <1>1, <1>3, Zenon DEF Flow

LEMMA OwnersStep ==
  ASSUME EditInPlace \/ Save \/ Delete \/ DeleteBundle \/ ToggleFlat \/ MoveRoot
  PROVE Edit
  BY Zenon DEF EditInPlace, Save, Delete, DeleteBundle, ToggleFlat, MoveRoot, Owner

LEMMA NextFlow == TypeInv /\ Flow /\ [Next]_vars => Flow'
<1> SUFFICES ASSUME TypeInv, Flow, [Next]_vars PROVE Flow' OBVIOUS
<1>1. CASE Ask \/ Act \/ Root \/ Context \/ Look
  BY <1>1, AskFlow, ActFlow, PrepareFlow, SegmentFlow, AncestorFlow, ParityFlow, SettleFlow,
     LookFlow, KeyFlow, ReadFlow, WriteFlow, RereadFlow, ReadbackFlow, Zenon
  DEF Root, Context
<1>2. CASE Create \/ Merge
  BY <1>2, MkdirFlow, ClaimingFlow, ClaimFlow, CheckBaseFlow, ReservingFlow, ReserveFlow,
     ReservedFlow, MoveFlow, MovedFlow, RestoreFlow, DropFlow, Zenon
  DEF Create, Merge
<1>3. CASE Both \/ Close
  BY <1>3, BeginFlow, StageFlow, StagedFlow, InstallFlow, CheckFlow, TidyUpFlow, WrittenFlow,
     ConflictFlow, ConfirmFlow, WithdrawFlow, RmdirFlow, FinalizingFlow, FinalFlow,
     FinalizedFlow, Zenon
  DEF Both, Close
<1>4. CASE Recover
  BY <1>4, RereservingFlow, RereserveFlow, ReservedFlow, RemoveFlow, RemovedFlow, RelinkFlow,
     RecheckFlow, Zenon
  DEF Recover
<1>5. CASE Environment
  <2>1. CASE Crash BY <2>1, CrashFlow, Zenon
  <2>2. CASE ~Crash
    BY <1>5, <2>2, OwnersStep, FlowStays, Zenon DEF Environment, Edit
  <2> QED BY <2>1, <2>2, Zenon
<1>6. CASE UNCHANGED vars BY <1>6, FlowStays, Zenon DEF vars, disk
<1> QED BY <1>1, <1>2, <1>3, <1>4, <1>5, <1>6, Zenon DEF Next, Process

----
(* The root that is bound: while its directory is where it was, so is the one *)
(* above it that was approved. *)
RootPcs == {"parity", "settle", "look", "begin"}
RootKnown ==
    at \in RootPcs => /\ binding.root > 0
                      /\ tree[2] = binding.root => AncestorHolds

LEMMA Leaves ==
  /\ \A a : Say(a) => at' \notin RootPcs
  /\ Throw => at' \notin RootPcs
  /\ \A c : Fail(c) \/ PutBack(c) => at' \notin RootPcs
  /\ \A pc : Goto(pc) /\ pc \notin RootPcs => at' \notin RootPcs
  /\ \A pc, b : Bind(pc, b) /\ pc \notin RootPcs => at' \notin RootPcs
  /\ \A s, r, pc : Journal(s, r, pc) /\ pc \notin RootPcs => at' \notin RootPcs
<1>1. "idle" \notin RootPcs /\ "conflict" \notin RootPcs /\ "restore" \notin RootPcs
  BY DEF RootPcs
<1> QED BY <1>1, Zenon DEF Say, Throw, Fail, PutBack, Goto, Bind, Journal

LEMMA NotRootPcs ==
  /\ \A pc \in Working : pc \notin RootPcs
  /\ \A pc \in ContextPcs : pc \notin RootPcs
  /\ "idle" \notin RootPcs /\ "prepare" \notin RootPcs /\ "segment" \notin RootPcs
  /\ "ancestor" \notin RootPcs
  BY DEF Working, Pcs, Binding, ContextPcs, RootPcs

LEMMA CreateLeaves == Create => at' \notin RootPcs
  BY Leaves, NotRootPcs, WorkingAre, Zenon DEF Create, Mkdir, Claiming, Claim, WriteScratch

LEMMA MergeLeaves == Merge => at' \notin RootPcs
<1>1. Afterwards \notin RootPcs BY DEF Afterwards, RootPcs
<1> QED BY <1>1, Leaves, NotRootPcs, WorkingAre, Zenon
  DEF Merge, CheckBase, Reserving, Reserve, Reserved, Move, Moved, Restore, Release, Drop, Tidy

LEMMA BothLeaves == Both => at' \notin RootPcs
<1>1. Begin => at' \notin RootPcs
  BY Leaves, NotRootPcs, WorkingAre, Zenon DEF Begin, BeginCreate, BeginMerge, FirstRecord
<1>2. Stage \/ Staged => at' \notin RootPcs
  <2>1. (IF kind = "CREATE" THEN "install" ELSE "base") \notin RootPcs
    BY DEF RootPcs
  <2> QED BY <2>1, Leaves, NotRootPcs, WorkingAre, Zenon DEF Stage, WriteScratch, Staged
<1>3. Install \/ Check \/ TidyUp \/ Written \/ Conflict => at' \notin RootPcs
  BY Leaves, NotRootPcs, WorkingAre, Zenon
  DEF Install, InstallNew, InstallMerged, InstallOr, Check, TidyUp, Tidy, Written, Conflict
<1>4. Preserve \/ Rebind \/ Dislodge => at' \notin RootPcs
  BY Leaves, NotRootPcs, WorkingAre, Zenon DEF Preserve, LookedAt, Rebind, Dislodge, UnlinkTarget
<1> QED BY <1>1, <1>2, <1>3, <1>4, Zenon DEF Both

LEMMA RecoverLeaves == Recover => at' \notin RootPcs
  BY Leaves, NotRootPcs, WorkingAre, Zenon
  DEF Recover, Rereserving, Rereserve, Reserved, Remove, Removed, Relink, Recheck

LEMMA CloseLeaves == Close => at' \notin RootPcs
  BY Leaves, NotRootPcs, WorkingAre, Zenon
  DEF Close, Confirm, Withdraw, Match, LookedAt, Withdrawing, UnlinkTarget, Rmdir, Finalizing, Final,
      Finalized, Tidy

LEMMA ContextLeaves == Context => at' \notin RootPcs
  BY Leaves, NotRootPcs, ContextAre, Zenon
  DEF Context, Key, Read, Write, WriteText, Reread, Readback

LEMMA AskLeaves == Ask \/ Act \/ Segment \/ Crash => at' \notin RootPcs
<1>1. Segment => at' \notin RootPcs
  BY Leaves, NotRootPcs, Zenon DEF Segment
<1>2. Ask => at' \notin RootPcs
  BY Leaves, NotRootPcs, ContextAre, Zenon DEF Ask
<1>3. Act \/ Crash => at' \notin RootPcs
  BY NotRootPcs, Zenon DEF Act, Crash, At, Here
<1> QED BY <1>1, <1>2, <1>3, Zenon

LEMMA PrepareRoot == TypeInv /\ Prepare => RootKnown'
<1> SUFFICES ASSUME TypeInv, Prepare PROVE RootKnown' OBVIOUS
<1>1. CASE at' \notin RootPcs BY <1>1, Zenon DEF RootKnown
<1>2. CASE at' \in RootPcs
  <2>1. AncestorHolds /\ ~(binding.depth < 2) /\ binding' = [binding EXCEPT !.root = binding.id]
        /\ tree' = tree
    BY <1>2, Leaves, NotRootPcs, Zenon DEF Prepare, Bind, SameDisk
  <2>2. binding \in BoundTo BY TypeParts DEF BindingTyped
  <2>3. binding.depth = 2 /\ tree[2] > 0 /\ tree[2] = binding.id
    BY <2>1, <2>2 DEF BoundTo, AncestorHolds, Real, Identity
  <2>4. binding'.root = binding.id /\ binding'.id = binding.id /\ binding'.depth = 2
    BY <2>1, <2>2, <2>3 DEF BoundTo
  <2>5. AncestorHolds'
    BY <2>1, <2>3, <2>4 DEF AncestorHolds, Real, Identity
  <2> QED BY <2>3, <2>4, <2>5 DEF RootKnown
<1> QED BY <1>1, <1>2, Zenon

LEMMA AncestorRoot == TypeInv /\ Ancestor => RootKnown'
<1> SUFFICES ASSUME TypeInv, Ancestor PROVE RootKnown' OBVIOUS
<1>1. CASE at' \notin RootPcs BY <1>1, Zenon DEF RootKnown
<1>2. CASE at' \in RootPcs
  <2>1. AncestorHolds /\ Ready /\ binding' = [binding EXCEPT !.root = tree[2]] /\ tree' = tree
    BY <1>2, Leaves, NotRootPcs, Zenon DEF Ancestor, Bind, SameDisk
  <2>2. binding \in BoundTo BY TypeParts DEF BindingTyped
  <2>3. binding'.root = tree[2] /\ binding'.id = binding.id /\ binding'.depth = binding.depth
    BY <2>1, <2>2 DEF BoundTo
  <2>4. AncestorHolds' BY <2>1, <2>3 DEF AncestorHolds, Real, Identity
  <2>5. tree[2] > 0 BY <2>1 DEF Ready, Real
  <2> QED BY <2>3, <2>4, <2>5 DEF RootKnown
<1> QED BY <1>1, <1>2, Zenon

LEMMA RootStays ==
  ASSUME RootKnown, at \in RootPcs \/ at' = at, UNCHANGED tree,
         UNCHANGED binding \/ at' \notin RootPcs
  PROVE RootKnown'
  BY Zenon DEF RootKnown, AncestorHolds, Real, Identity

LEMMA RereadRoot == RootKnown /\ (Parity \/ Settle \/ Look) => RootKnown'
<1> SUFFICES ASSUME RootKnown, Parity \/ Settle \/ Look PROVE RootKnown' OBVIOUS
<1>1. at \in RootPcs BY DEF Parity, Settle, Look, At, Here, RootPcs
<1>2. "settle" \in Binding /\ "look" \in Binding /\ "begin" \in Binding
  BY DEF Binding
<1>3. \A pc \in Binding : Goto(pc) => UNCHANGED binding
  BY Zenon DEF Goto, Forget
<1>4. UNCHANGED tree BY Zenon DEF Parity, Settle, Look, SameDisk
<1>5. Parity \/ Settle => UNCHANGED binding \/ at' \notin RootPcs
  BY <1>2, <1>3, Leaves, Zenon DEF Parity, Settle
<1>6. Look => UNCHANGED binding \/ at' \notin RootPcs
  <2>1. \A pc \in AfterLook : pc = "begin" \/ pc \notin RootPcs
    BY DEF AfterLook, RootPcs
  <2> QED BY <2>1, <1>2, <1>3, LookEnds, Leaves, Zenon
<1> QED BY <1>1, <1>4, <1>5, <1>6, RootStays, Zenon

(* What moves takes the bound root away: what comes is nobody's. *)
LEMMA MoveRootRoot == TypeInv /\ RootKnown /\ MoveRoot => RootKnown'
<1> SUFFICES ASSUME TypeInv, RootKnown, MoveRoot, at \in RootPcs PROVE RootKnown'
  BY Zenon DEF RootKnown, MoveRoot, Edit, process
<1>1. at' = at /\ binding' = binding /\ tree' \in MovedTrees
  BY Zenon DEF MoveRoot, Edit, process
<1>2. binding.root > 0 /\ binding.root # Absent /\ binding.root # Link
  BY TypeParts DEF RootKnown, BindingTyped, BoundTo, Absent, Link
<1>3. FreshFor(Remembered) # binding.root
  BY FreshIdentity, Zenon DEF Remembered
<1>4. tree'[2] # binding.root
  <2>1. PICK level \in Levels :
          /\ tree'[level] \in {Absent, Link, FreshFor(Remembered)} \ {tree[level]}
          /\ level = 1 => tree'[2] = Absent
    BY <1>1, Zenon DEF MovedTrees
  <2>2. level = 1 \/ level = 2 BY DEF Levels
  <2> QED BY <2>1, <2>2, <1>2, <1>3, Zenon
<1> QED BY <1>1, <1>2, <1>4, Zenon DEF RootKnown

LEMMA InitRootKnown == Init => RootKnown
<1>1. "idle" \notin RootPcs BY DEF RootPcs
<1> QED BY <1>1, Zenon DEF Init, RootKnown

LEMMA NextRoot == TypeInv /\ RootKnown /\ [Next]_vars => RootKnown'
<1> SUFFICES ASSUME TypeInv, RootKnown, [Next]_vars PROVE RootKnown' OBVIOUS
<1>1. CASE at' \notin RootPcs BY <1>1, Zenon DEF RootKnown
<1>2. CASE Root \/ Look
  BY <1>1, <1>2, AskLeaves, PrepareRoot, AncestorRoot, RereadRoot, Zenon DEF Root
<1>3. CASE Environment
  <2>1. Owner => UNCHANGED tree /\ UNCHANGED at /\ UNCHANGED binding
    BY Zenon DEF Owner, Edit, process
  <2>2. Crash \/ MoveRoot \/ Owner
    BY <1>3, Zenon DEF Environment, EditInPlace, Save, Delete, DeleteBundle, ToggleFlat
  <2> QED BY <1>1, <2>1, <2>2, AskLeaves, MoveRootRoot, RootStays, Zenon
<1>4. CASE UNCHANGED vars
  BY <1>4, RootStays, Zenon DEF vars, disk, process
<1> QED BY <1>1, <1>2, <1>3, <1>4, AskLeaves, CreateLeaves, MergeLeaves, BothLeaves,
           RecoverLeaves, CloseLeaves, ContextLeaves, Zenon DEF Next, Process

(* Where the steps of a transaction are. *)
LEMMA WorkIsHere ==
  /\ Create \/ Merge \/ Recover \/ Close => \E here \in Working : Here(here)
  /\ Both => Begin \/ \E here \in Working : Here(here)
<1>1. Create \/ Merge \/ Recover \/ Close => \E here \in Working : Here(here)
  BY WorkingAre, Zenon
  DEF Create, Mkdir, Claiming, Claim, WriteScratch, Merge, CheckBase, Reserving, Reserve,
      Reserved, Move, Moved, Restore, Release, Drop, Recover, Rereserving, Rereserve, Remove,
      Removed, Relink, Recheck, Close, Confirm, Withdraw, Match, LookedAt, Withdrawing,
      UnlinkTarget, Rmdir, Finalizing, Final, Finalized, At
<1>2. Both => Begin \/ \E here \in Working : Here(here)
  BY WorkingAre, Zenon
  DEF Both, Stage, WriteScratch, Staged, Install, Check, Preserve, LookedAt, Rebind, Dislodge,
      UnlinkTarget, TidyUp, Written, Conflict, At
<1> QED BY <1>1, <1>2

(* A record is written by a transaction that is at work, or as its first. *)
LEMMA RecordWriters ==
  ASSUME [Next]_vars
  PROVE record' = record \/ Begin \/ at \in Working
<1>1. Create \/ Merge \/ Recover \/ Close \/ Both => Begin \/ at \in Working
  BY WorkIsHere, Zenon DEF Here
<1>2. Ask \/ Act \/ Root \/ Context \/ Look => record' = record
  BY Zenon
  DEF Ask, Act, Root, Prepare, Segment, Ancestor, Parity, Settle, Context, Key, Read, Write,
      Reread, Readback, Look, SameDisk, SameRecord
<1>3. Environment => record' = record
  BY OwnersStep, Zenon DEF Environment, Edit, Crash
<1>4. UNCHANGED vars => record' = record BY Zenon DEF vars, disk
<1> QED BY <1>1, <1>2, <1>3, <1>4, Zenon DEF Next, Process

LEMMA ApprovedInv == Spec => [](TypeInv /\ Flow /\ RootKnown)
  BY InitTyped, NextTyped, InitFlow, NextFlow, InitRootKnown, NextRoot, PTL DEF Spec

(* A transaction is opened only where the approved binding leads, whatever was *)
(* made below it and however the path moved while the root was prepared. *)
THEOREM OpenedWhereApproved == Spec => OpensWhereApproved
<1>1. ASSUME TypeInv, Flow, RootKnown, [Next]_vars, record.state = "NONE", record'.state # "NONE"
      PROVE AncestorHolds
  <2>1. Begin
    <3>1. at \notin Working BY <1>1, Zenon DEF Flow, Fits
    <3> QED BY <1>1, <3>1, RecordWriters, Zenon
  <2>2. RootHolds BY <1>1, <2>1, Zenon DEF Begin, SameRecord
  <2>3. at \in RootPcs BY <2>1 DEF Begin, At, Here, RootPcs
  <2> QED BY <1>1, <2>2, <2>3, Zenon DEF RootKnown, RootHolds
<1>2. TypeInv /\ Flow /\ RootKnown /\ [Next]_vars
      => [record.state = "NONE" /\ record'.state # "NONE" => AncestorHolds]_vars
  BY <1>1, Zenon
<1> QED BY <1>2, ApprovedInv, PTL DEF Spec, OpensWhereApproved

----
(* The answers: every step is one of the attempt's, or none. *)
Underway == States \ {"FINALIZED"}

(* What a step at work answers, and what it records. *)
WorkStep ==
    /\ answer' \in {answer, "CONFLICT", "UNAVAILABLE"}
    /\ record' = record \/ record'.state \in Underway

LEMMA UnderwayAre ==
  /\ "ROOT_PREPARED" \in Underway /\ "TARGET_CLAIMED" \in Underway /\ "STAGED" \in Underway
  /\ "BACKUP_RESERVING" \in Underway /\ "BACKUP_RESERVED" \in Underway
  /\ "BACKUP_MOVED" \in Underway /\ "RECOVERY_BACKUP_MOVED" \in Underway
  /\ "DISK_WRITTEN" \in Underway /\ "FINALIZING" \in Underway
  /\ \A c \in Codes : c \in Underway
  /\ "NONE" \notin Underway /\ "FINALIZED" \notin Underway
  BY DEF Underway, States, Codes

LEMMA WorkAnswers ==
  /\ Throw => answer' = "UNAVAILABLE"
  /\ \A a : Say(a) => answer' = a
  /\ \A c : Fail(c) \/ PutBack(c) => answer' = answer
  /\ \A pc : Goto(pc) => answer' = answer
  /\ SameRecord => record' = record
  BY Zenon DEF Throw, Say, Fail, PutBack, Goto, SameRecord

LEMMA JournalWork ==
  ASSUME NEW s \in Underway, NEW r \in Record, NEW pc, Journal(s, r, pc)
  PROVE WorkStep
<1>1. [r EXCEPT !.state = s].state = s BY DEF Record
<1> QED BY <1>1, WorkAnswers, Zenon DEF Journal, WorkStep

LEMMA QuietWork ==
  ASSUME SameRecord, Throw \/ (\E c : Fail(c) \/ PutBack(c)) \/ (\E pc : Goto(pc))
  PROVE WorkStep
  BY WorkAnswers, Zenon DEF WorkStep

LEMMA CreateWork == TypeInv /\ Create => WorkStep
<1>1. Mkdir \/ Claim => WorkStep
  BY QuietWork, Zenon DEF Mkdir, Claim, WriteScratch
<1>2. TypeInv /\ Claiming => WorkStep
  BY QuietWork, JournalWork, RecordsTyped, UnderwayAre, Zenon DEF Claiming
<1> QED BY <1>1, <1>2, Zenon DEF Create

LEMMA ReservedWork ==
  ASSUME NEW pc, NEW next, TypeInv, Reserved(pc, next)
  PROVE WorkStep
  BY QuietWork, JournalWork, RecordsTyped, UnderwayAre, Zenon DEF Reserved

LEMMA MergeWork == TypeInv /\ Merge => WorkStep
<1>1. CheckBase \/ Reserve \/ Move \/ Restore \/ Release \/ Drop => WorkStep
  BY QuietWork, Zenon DEF CheckBase, Reserve, Move, Restore, Release, Drop, Tidy
<1>2. TypeInv /\ Reserving => WorkStep
  BY QuietWork, JournalWork, RecordsTyped, UnderwayAre, Zenon DEF Reserving
<1>3. TypeInv /\ Moved => WorkStep
  BY QuietWork, JournalWork, RecordsTyped, UnderwayAre, Zenon DEF Moved
<1> QED BY <1>1, <1>2, <1>3, ReservedWork, Zenon DEF Merge

LEMMA BothWork == TypeInv /\ Both => Begin \/ WorkStep
<1>0. Check \/ Preserve \/ Rebind \/ Dislodge => WorkStep
  BY QuietWork, Tuples, Zenon DEF Check, Preserve, LookedAt, Rebind, Dislodge, UnlinkTarget
<1>1. Stage \/ Install \/ TidyUp => WorkStep
  BY QuietWork, Zenon
  DEF Stage, WriteScratch, Install, InstallNew, InstallMerged, InstallOr, TidyUp, Tidy
<1>2. TypeInv /\ Staged => WorkStep
  <2> SUFFICES ASSUME TypeInv, Staged PROVE WorkStep OBVIOUS
  <2> DEFINE r == [record EXCEPT !.stage = name["stage"], !.claim = name["claim"]]
  <2>1. \/ Throw /\ SameRecord
        \/ \E pc : Journal("STAGED", r, pc)
    BY Zenon DEF Staged
  <2>2. r \in Record BY RecordsTyped, Zenon
  <2> HIDE DEF r
  <2> QED BY <2>1, <2>2, QuietWork, JournalWork, UnderwayAre, Zenon
<1>3. TypeInv /\ Written => WorkStep
  BY QuietWork, JournalWork, RecordsTyped, UnderwayAre, Zenon DEF Written
<1>4. TypeInv /\ Conflict => WorkStep
  <2> SUFFICES ASSUME TypeInv, Conflict PROVE WorkStep OBVIOUS
  <2>1. code \in Underway
    BY TypeParts, UnderwayAre DEF ProcessTyped, CodeKnown, Coded, Conflict, At, Here
  <2>2. [record EXCEPT !.state = code].state = code
    BY TypeParts DEF RecordTyped, Record
  <2> QED BY <2>1, <2>2, WorkAnswers, Zenon DEF Conflict, WorkStep
<1> QED BY <1>0, <1>1, <1>2, <1>3, <1>4, Zenon DEF Both

LEMMA RecoverWork == TypeInv /\ Recover => WorkStep
<1>1. Rereserve \/ Remove \/ Relink => WorkStep
  BY QuietWork, Zenon DEF Rereserve, Remove, Relink
<1>2. TypeInv /\ Rereserving => WorkStep
  BY JournalWork, RecordsTyped, UnderwayAre, Zenon DEF Rereserving
<1>3. TypeInv /\ Removed => WorkStep
  <2> SUFFICES ASSUME TypeInv, Removed PROVE WorkStep OBVIOUS
  <2> DEFINE r == [record EXCEPT !.backup = name["backup"]]
  <2>1. \/ Fail("UNKNOWN_STATE") /\ SameRecord
        \/ Journal("RECOVERY_BACKUP_MOVED", r, "relink")
    BY Zenon DEF Removed
  <2>2. r \in Record BY RecordsTyped, Zenon
  <2> HIDE DEF r
  <2> QED BY <2>1, <2>2, QuietWork, JournalWork, UnderwayAre, Zenon
<1>4. Recheck => WorkStep BY QuietWork, Tuples, Zenon DEF Recheck
<1> QED BY <1>1, <1>2, <1>3, <1>4, ReservedWork, Zenon DEF Recover

LEMMA CloseWork == TypeInv /\ Close => Finalized \/ WorkStep
<1>1. Rmdir \/ Final => WorkStep
  BY QuietWork, Zenon DEF Rmdir, Final, Tidy
<1>2. Confirm \/ Withdraw \/ Match \/ Withdrawing => WorkStep
  BY QuietWork, Tuples, Zenon DEF Confirm, Withdraw, Match, LookedAt, Withdrawing, UnlinkTarget
<1>3. TypeInv /\ Finalizing => WorkStep
  <2> SUFFICES ASSUME TypeInv, Finalizing PROVE WorkStep OBVIOUS
  <2>1. \/ Throw /\ SameRecord
        \/ Goto("final") /\ SameRecord
        \/ Journal("FINALIZING", record, "final")
    BY Zenon DEF Finalizing
  <2> QED BY <2>1, QuietWork, JournalWork, RecordsTyped, UnderwayAre, Zenon
<1> QED BY <1>1, <1>2, <1>3, Zenon DEF Close

(* What a step that is not at work answers. *)
Truth(a, state) ==
    /\ a \in {"PUBLISHED", "ABSENT", "CONFLICT", "STALE", "UNAVAILABLE"}
    /\ a = "PUBLISHED" => state = "FINALIZED"
    /\ a = "ABSENT" => state = "NONE"
    /\ a = "CONFLICT" => state # "FINALIZED"

LEMMA LookAnswers == Look => answer' = answer \/ Truth(answer', record.state)
<1>1. Throw => Truth(answer', record.state) BY DEF Throw, Say, Truth
<1>2. LookNew /\ record.state = "NONE" => answer' = answer \/ Truth(answer', record.state)
  <2>1. LookNew => answer' \in {answer, "ABSENT", "CONFLICT"}
    BY WorkAnswers, Zenon DEF LookNew
  <2> QED BY <2>1 DEF Truth
<1>3. LookFinal /\ record.state = "FINALIZED" => Truth(answer', record.state)
  <2>1. LookFinal => answer' \in {"PUBLISHED", "UNAVAILABLE"}
    BY WorkAnswers, Zenon DEF LookFinal
  <2> QED BY <2>1 DEF Truth
<1>4. LookCreate \/ LookMerge => answer' = answer
  BY WorkAnswers, Zenon DEF LookCreate, LookMerge
<1> QED BY <1>1, <1>2, <1>3, <1>4, Zenon DEF Look

LEMMA RootAnswers == Root => answer' = answer \/ Truth(answer', record.state)
<1>1. Throw => Truth(answer', record.state) BY DEF Throw, Say, Truth
<1>2. \A pc, b : Bind(pc, b) => answer' = answer BY Zenon DEF Bind
<1> QED BY <1>1, <1>2, WorkAnswers, Zenon DEF Root, Prepare, Segment, Ancestor, Parity, Settle

LEMMA AskAnswers ==
  TypeInv /\ Flow /\ medium = "DISK" /\ Ask => answer' = answer \/ Truth(answer', record.state)
<1> SUFFICES ASSUME ~published, medium = "DISK", Ask PROVE answer' = answer \/ Truth(answer', record.state)
  BY Zenon DEF Flow
<1>1. PICK b \in Resolutions : (b # "READY" /\ Say(b)) \/ Bind("prepare", Observed)
  BY Zenon DEF Ask
<1>2. b \in {"READY", "STALE", "UNAVAILABLE"} BY ResolutionsAre, Zenon
<1>3. b # "READY" => Truth(b, record.state) BY <1>2 DEF Truth
<1> QED BY <1>1, <1>3, WorkAnswers, Zenon DEF Bind

LEMMA MediumStays == [Next]_vars => medium' = medium /\ kind' = kind
<1>1. \A pc : At(pc) \/ Here(pc) => medium' = medium /\ kind' = kind
  BY Zenon DEF At, Here, environment
<1>2. Create \/ Merge \/ Recover \/ Close \/ Both => \E pc : At(pc) \/ Here(pc)
  BY WorkIsHere, Zenon DEF Begin
<1>3. Ask \/ Act \/ Root \/ Context \/ Look => \E pc : At(pc)
  BY Zenon
  DEF Ask, Act, Root, Prepare, Segment, Ancestor, Parity, Settle, Context, Key, Read, Write,
      Reread, Readback, Look
<1>4. Environment => medium' = medium /\ kind' = kind
  BY OwnersStep, Zenon DEF Environment, Edit, Crash
<1>5. UNCHANGED vars => medium' = medium /\ kind' = kind
  BY Zenon DEF vars, disk
<1> QED BY <1>1, <1>2, <1>3, <1>4, <1>5, Zenon DEF Next, Process

(* The moves of the attempt, told from the record and the answer. *)
AttemptStep ==
    \/ record'.state = record.state /\ answer' \in {answer, "NONE"}
    \/ answer = "NONE" /\ record'.state = record.state /\ Truth(answer', record.state)
    \/ answer = "NONE" /\ answer' = "NONE" /\ record.state = "NONE" /\ record'.state = "ROOT_PREPARED"
    \/ /\ answer = "NONE" /\ record.state \notin {"NONE", "FINALIZED"}
       /\ \/ record'.state \in Underway /\ answer' \in {"NONE", "CONFLICT", "UNAVAILABLE"}
          \/ record'.state = "FINALIZED" /\ answer' = "PUBLISHED"

LEMMA BeginSteps == TypeInv /\ Flow /\ Begin => AttemptStep
<1> SUFFICES ASSUME TypeInv, Flow, Begin PROVE AttemptStep OBVIOUS
<1>1. at = "begin" /\ record.state = "NONE" /\ answer = "NONE"
  <2>1. at = "begin" BY Zenon DEF Begin, At, Here
  <2>2. "begin" # "idle" OBVIOUS
  <2> QED BY <2>1, <2>2, Zenon DEF Flow, Fits
<1>2. Throw => Truth(answer', record.state) BY DEF Throw, Say, Truth
<1>3. \/ Throw /\ SameRecord
      \/ \E r \in Record : \E pc : Journal("ROOT_PREPARED", r, pc)
  <2>1. [NoRecord EXCEPT !.dir = 0] \in Record /\ [NoRecord EXCEPT !.dir = dir] \in Record
    BY RecordsTyped, Zenon
  <2> QED BY <2>1, Zenon DEF Begin, BeginCreate, BeginMerge, FirstRecord
<1>4. ASSUME NEW r \in Record, NEW pc, Journal("ROOT_PREPARED", r, pc)
      PROVE  \/ Throw /\ SameRecord
             \/ record'.state = "ROOT_PREPARED" /\ answer' = answer
  <2>1. [r EXCEPT !.state = "ROOT_PREPARED"].state = "ROOT_PREPARED"
    BY DEF Record
  <2>2. \/ Throw /\ SameRecord
        \/ record' = [r EXCEPT !.state = "ROOT_PREPARED"] /\ Goto(pc)
    BY <1>4, Zenon DEF Journal
  <2>3. record' = [r EXCEPT !.state = "ROOT_PREPARED"] => record'.state = "ROOT_PREPARED"
    BY <2>1
  <2>4. Goto(pc) => answer' = answer BY Zenon DEF Goto
  <2> QED BY <2>2, <2>3, <2>4
<1> QED BY <1>1, <1>2, <1>3, <1>4, SameState, Zenon DEF AttemptStep

LEMMA WorkSteps ==
  ASSUME TypeInv, Flow, at \in Working, WorkStep
  PROVE AttemptStep
<1>1. answer = "NONE" /\ record.state \notin {"NONE", "FINALIZED"}
  <2>1. at # "idle" BY DEF Working
  <2> QED BY <2>1, Zenon DEF Flow, Fits
<1>2. record.state \in Underway
  BY <1>1, TypeParts DEF RecordTyped, Record, Underway
<1>3. record'.state \in Underway BY <1>2, Zenon DEF WorkStep
<1> QED BY <1>1, <1>3 DEF WorkStep, AttemptStep

LEMMA FinalizedSteps == TypeInv /\ Flow /\ Finalized => AttemptStep
<1> SUFFICES ASSUME TypeInv, Flow, Finalized PROVE AttemptStep OBVIOUS
<1>1. at = "finalized" /\ answer = "NONE" /\ record.state = "FINALIZING"
  <2>1. at = "finalized" BY Zenon DEF Finalized, At, Here
  <2>2. "finalized" # "idle" /\ "finalized" \in {"final", "finalized"} OBVIOUS
  <2> QED BY <2>1, <2>2, Zenon DEF Flow, Fits
<1>2. Throw => Truth(answer', record.state) BY DEF Throw, Say, Truth
<1>3. \/ Throw /\ record'.state = record.state
      \/ record'.state = "FINALIZED" /\ answer' = "PUBLISHED"
  BY TypeParts, SameState DEF Finalized, RecordTyped, Record, Say
<1> QED BY <1>1, <1>2, <1>3 DEF AttemptStep

LEMMA AttemptSteps ==
  ASSUME TypeInv, Flow, [Next]_vars, medium = "DISK"
  PROVE AttemptStep
<1>1. Create \/ Merge \/ Recover \/ Close \/ Both => Begin \/ at \in Working
  BY WorkIsHere, Zenon DEF Here
<1>3. CASE Create \/ Merge \/ Recover \/ Close \/ Both
  BY <1>1, <1>3, CreateWork, MergeWork, RecoverWork, CloseWork, BothWork, BeginSteps,
     WorkSteps, FinalizedSteps, Zenon
<1>4. CASE Ask \/ Root \/ Look
  <2>1. SameRecord
    BY <1>4, Tuples, Zenon
    DEF Ask, Look, Root, Prepare, Segment, Ancestor, Parity, Settle
  <2>2. answer = "NONE"
    <3>1. Root \/ Look => at # "idle"
      BY DEF Root, Prepare, Segment, Ancestor, Parity, Settle, Look, At, Here
    <3> QED BY <1>4, <3>1, Zenon DEF Ask, Flow
  <2>3. answer' = answer \/ Truth(answer', record.state)
    BY <1>4, AskAnswers, RootAnswers, LookAnswers, Zenon
  <2> QED BY <2>1, <2>2, <2>3, SameState, Zenon DEF AttemptStep
<1>5. CASE Act \/ Environment \/ UNCHANGED vars
  <2>1. record' = record /\ answer' \in {answer, "NONE"}
    <3>1. Act => record' = record /\ answer' = "NONE"
      BY Zenon DEF Act, SameDisk
    <3>2. Environment => record' = record /\ answer' \in {answer, "NONE"}
      BY OwnersStep, Zenon DEF Environment, Edit, process, Crash
    <3>3. UNCHANGED vars => record' = record /\ answer' = answer
      BY Zenon DEF vars, disk, process
    <3> QED BY <1>5, <3>1, <3>2, <3>3, Zenon
  <2> QED BY <2>1, Zenon DEF AttemptStep
<1>6. ~Context
  <2>1. Context => at \in ContextPcs
    BY ContextAre, Zenon DEF Context, Key, Read, Write, Reread, Readback, At, Here
  <2> QED BY <2>1, Zenon DEF Flow, Fits
<1> QED BY <1>3, <1>4, <1>5, <1>6, Zenon DEF Next, Process

LEMMA AttemptMapped ==
  ASSUME TypeInv, Flow, [Next]_vars
  PROVE [Attempt!Next]_(Attempt!vars)
<1>1. medium' = medium BY MediumStays, Zenon
<1>2. CASE medium # "DISK"
  <2>1. medium = "CONTEXT" BY <1>2, Choices, Zenon
  <2> QED BY <1>1, <2>1, Zenon DEF Attempt!vars, DiskOf, AnswerOf
<1>3. CASE medium = "DISK"
  <2>1. /\ AnswerOf = answer /\ AnswerOf' = answer'
        /\ DiskOf = IF record.state = "NONE" THEN "UNTOUCHED"
                    ELSE IF record.state = "FINALIZED" THEN "FINAL" ELSE "OPEN"
        /\ DiskOf' = IF record'.state = "NONE" THEN "UNTOUCHED"
                     ELSE IF record'.state = "FINALIZED" THEN "FINAL" ELSE "OPEN"
    BY <1>1, <1>3 DEF AnswerOf, DiskOf
  <2>2. AttemptStep BY <1>3, AttemptSteps, Zenon
  <2>3. CASE record'.state = record.state /\ answer' = answer
    BY <2>1, <2>3, Zenon DEF Attempt!vars
  <2>4. CASE record'.state = record.state /\ answer' = "NONE"
    <3>1. DiskOf' = DiskOf /\ AnswerOf' = "NONE" BY <2>1, <2>4, Zenon
    <3> QED BY <3>1, Zenon DEF Attempt!Next, Attempt!Act, Attempt!vars
  <2>5. CASE answer = "NONE" /\ record'.state = record.state /\ Truth(answer', record.state)
    <3>1. Attempt!Truthful(AnswerOf', DiskOf')
      BY <2>1, <2>5 DEF Truth, Attempt!Truthful
    <3>2. DiskOf' = DiskOf /\ AnswerOf = "NONE" BY <2>1, <2>5, Zenon
    <3>3. AnswerOf' \in {"PUBLISHED", "ABSENT", "CONFLICT", "STALE", "UNAVAILABLE"}
      BY <2>1, <2>5, Zenon DEF Truth
    <3> QED BY <3>1, <3>2, <3>3, Zenon DEF Attempt!Next, Attempt!Answer
  <2>6. CASE /\ answer = "NONE" /\ answer' = "NONE"
             /\ record.state = "NONE" /\ record'.state = "ROOT_PREPARED"
    <3>1. DiskOf = "UNTOUCHED" /\ DiskOf' = "OPEN" /\ AnswerOf = "NONE" /\ AnswerOf' = AnswerOf
      BY <2>1, <2>6
    <3> QED BY <3>1, Zenon DEF Attempt!Next, Attempt!Open
  <2>7. CASE /\ answer = "NONE" /\ record.state \notin {"NONE", "FINALIZED"}
             /\ record'.state \in Underway /\ answer' \in {"NONE", "CONFLICT", "UNAVAILABLE"}
    <3>1. DiskOf = "OPEN" /\ DiskOf' = "OPEN" /\ AnswerOf = "NONE"
          /\ AnswerOf' \in {"NONE", "CONFLICT", "UNAVAILABLE"}
      BY <2>1, <2>7, UnderwayAre, Zenon
    <3>2. AnswerOf' # "NONE" => Attempt!Truthful(AnswerOf', DiskOf')
      BY <3>1 DEF Attempt!Truthful
    <3> QED BY <3>1, <3>2, Zenon DEF Attempt!Next, Attempt!Answer, Attempt!vars
  <2>8. CASE /\ answer = "NONE" /\ record.state \notin {"NONE", "FINALIZED"}
             /\ record'.state = "FINALIZED" /\ answer' = "PUBLISHED"
    <3>1. DiskOf = "OPEN" /\ DiskOf' = "FINAL" /\ AnswerOf = "NONE" /\ AnswerOf' = "PUBLISHED"
      BY <2>1, <2>8
    <3> QED BY <3>1, Zenon DEF Attempt!Next, Attempt!Finish
  <2> QED BY <2>2, <2>3, <2>4, <2>5, <2>6, <2>7, <2>8, Zenon DEF AttemptStep
<1> QED BY <1>2, <1>3, Zenon

LEMMA AttemptBegins == Init => Attempt!Init
<1> SUFFICES ASSUME Init PROVE Attempt!Init OBVIOUS
<1>1. record.state = "NONE" /\ answer = "NONE" BY DEF Init, NoRecord
<1> QED BY <1>1, Zenon DEF Attempt!Init, DiskOf, AnswerOf

(* The transaction on the disk is an attempt as the coordinator is promised *)
(* one: whatever the owner and the crashes do to it, it answers ABSENT only *)
(* while nothing of it is on record, PUBLISHED only once it is final, and a *)
(* final one never with a conflict. *)
THEOREM KeepsTheAttempt == Spec => ImplementsAttempt
<1>1. Spec => [](TypeInv /\ Flow)
  BY InitTyped, NextTyped, InitFlow, NextFlow, PTL DEF Spec
<1>2. TypeInv /\ Flow /\ [Next]_vars => [Attempt!Next]_(Attempt!vars)
  BY AttemptMapped, Zenon
<1> QED BY <1>1, <1>2, AttemptBegins, PTL DEF Spec, ImplementsAttempt, Attempt!Spec

----
(* What is under the names of the bundle, by where the process stands. *)
OwnerWrote == /\ owned \in 0 .. MaxEdits \cup {Missing} /\ (owned = Base => kind = "MERGE")
              /\ fate # "SAFE" => owned \in 1 .. MaxEdits

DirsKnown == dir <= dirs /\ record.dir <= dirs

(* What the transaction has not made yet is not there. *)
NothingYet ==
    /\ record.state = "NONE" \/ at \in Opening => name["stage"] = 0
    /\ record.state = "NONE" \/ at \in Opening \ {"stage"} => name["claim"] = 0
    /\ record.state = "NONE" \/ kind = "CREATE" => name["backup"] = 0

(* Only the stage may be another name of the target, and the backup once it is put back. *)
Shared == {"release", "drop", "conflict", "idle", "prepare", "segment", "ancestor", "parity",
           "settle", "look"}
Apart ==
    /\ name["backup"] # 0 => name["backup"] \notin {name["stage"], name["claim"]}
    /\ name["backup"] # 0 /\ name["backup"] = name["target"] => at \in Shared
    /\ name["claim"] # 0 => name["claim"] \notin {name["target"], name["stage"]}

(* What the transaction makes holds what it wrote, or the owner's edits of it. *)
Wrote ==
    /\ Paths["claim"] \in {Missing, ClaimMark}
    /\ Paths["stage"] \in {Missing, Approved} \cup 1 .. MaxEdits
    /\ Paths["backup"] # Approved

(* Before a merge moves the target aside, it is not what was staged. *)
Aside == {"begin", "stage", "staged", "base", "reserving", "reserve", "reserved", "move",
          "rereserving", "rereserve", "rereserved", "remove"}
NotStaged ==
    kind = "MERGE" /\ at \in Aside => /\ Paths["target"] # Approved
                                      /\ name["target"] # 0 => name["target"] # name["stage"]

(* A merge links the stage only once the reviewed base is aside. *)
BaseAside == at \in {"install", "check", "relink"} /\ kind = "MERGE" /\ Bound => Paths["backup"] = Base

Checking == {"check", "preserve", "rebind", "dislodge"}
StageThere == at \in Checking /\ Bound => name["stage"] = record.stage

(* What is withdrawn after the second look was edited where it was staged. *)
Spoiled ==
    /\ at = "preserve" /\ Bound /\ name["target"] = name["stage"] => Paths["stage"] # Approved
    /\ at \in {"rebind", "dislodge"} /\ Bound => Paths["stage"] # Approved

(* What a look has found stays there until the owner comes. *)
Looked ==
    /\ at = "dislodge" \/ (at = "rebind" /\ Bound) =>
         (fate = "SAFE" => name["target"] \in {0, name["stage"]})
    /\ at = "withdrawing" /\ fate = "SAFE" => Paths["target"] \in {Missing, Approved}

(* What was put back is not under the backup's name alone. *)
PutBackThere == at = "release" => fate = "LOST" \/ owned \in {Missing, Paths["target"], Paths["stage"]}

(* After a loss there is nothing approved left to link. *)
NothingToLink ==
    fate = "LOST" => /\ medium = "DISK" /\ record.state # "NONE" /\ at \notin Opening
                     /\ Bound => Paths["stage"] # Approved

(* The stage is gone before the write is on record. *)
Closing == {"written", "confirm", "withdraw", "match", "withdrawing", "rmdir", "finalizing", "final", "finalized"}
StageGone ==
    /\ record.state \in {"DISK_WRITTEN", "FINALIZING"} \/ at \in Closing => (Bound => name["stage"] = 0)
    /\ at = "relink" => record.state \notin {"DISK_WRITTEN", "FINALIZING"}

(* The reviewed base is given up only for the installed bytes, at the very end. *)
Settling == {"idle", "prepare", "segment", "ancestor", "parity", "settle", "look",
             "confirm", "finalizing", "final", "finalized"}
InPlace == name["target"] # 0 /\ name["target"] = record.stage /\ Paths["target"] = Approved
GivenUp == /\ owned = Base /\ medium = "DISK" /\ record.state = "FINALIZING"
           /\ Paths["target"] # Base /\ Paths["backup"] # Base
BaseGivenUp ==
    /\ at = "final" /\ owned = Base => InPlace
    /\ GivenUp => InPlace /\ name["stage"] = 0 /\ name["backup"] = 0 /\ at \in Settling

(* The owner's last bytes are under one of the names. *)
Survives ==
    \/ owned \in {Missing, Paths["target"], Paths["stage"], Paths["backup"]}
    \/ fate = "LOST"
    \/ owned = Base /\ (medium = "CONTEXT" \/ record.state \in {"FINALIZING", "FINALIZED"})

FileInv == /\ OwnerWrote /\ DirsKnown /\ NothingYet /\ Apart /\ Wrote /\ NotStaged
           /\ BaseAside /\ StageThere /\ Spoiled /\ Looked /\ PutBackThere /\ NothingToLink
           /\ StageGone /\ BaseGivenUp /\ Survives

LEMMA InPlaceInstalled == TypeInv => (InPlace <=> Installed)
  BY TypeParts, MatchesPaths, PathNames, Zenon DEF InPlace, Installed

LEMMA StageIsReady ==
  TypeInv => (StageReady <=> /\ name["stage"] # 0 /\ name["stage"] = record.stage
                             /\ Paths["stage"] = Approved)
  BY TypeParts, MatchesPaths, PathNames, Zenon DEF StageReady

(* What may be unlinked is not what the owner wrote. *)
LEMMA MineHolds ==
  ASSUME TypeInv
  PROVE  /\ Mine("stage") => Paths["stage"] \in {Missing, Approved}
         /\ Mine("claim") => Paths["claim"] \in {Missing, ClaimMark}
         /\ Mine("backup") => Paths["backup"] \in {Missing, Base}
<1>1. FilesTyped BY TypeParts
<1>2. ASSUME NEW p \in Path PROVE Paths[p] = Missing <=> name[p] = 0
  BY <1>1, PathsTyped, Zenon
<1>3. "stage" # "claim" /\ "stage" # "backup" /\ "claim" # "backup" OBVIOUS
<1> QED BY <1>1, <1>2, <1>3, MatchesPaths, PathNames, Zenon DEF Mine

(* The names and what they hold, for the four paths. *)
LEMMA FourPaths ==
  ASSUME TypeInv
  PROVE  /\ name["target"] \in Nat /\ name["stage"] \in Nat /\ name["backup"] \in Nat
         /\ name["claim"] \in Nat
         /\ Paths["target"] = Missing <=> name["target"] = 0
         /\ Paths["stage"] = Missing <=> name["stage"] = 0
         /\ Paths["backup"] = Missing <=> name["backup"] = 0
         /\ Paths["claim"] = Missing <=> name["claim"] = 0
  BY TypeParts, PathsTyped, PathNames, Zenon

LEMMA Different ==
  /\ Base # Approved /\ Base # Missing /\ Approved # Missing /\ ClaimMark # Base
  /\ ClaimMark # Approved /\ Reservation # Base /\ Reservation # Approved /\ Reservation # Missing
  /\ ClaimMark # Missing
  /\ \A n \in 0 .. MaxEdits : n # Approved /\ n # ClaimMark /\ n # Reservation /\ n # Missing
  /\ \A n \in 1 .. MaxEdits : n # Base /\ n # Approved
  BY SkillFileAssumption DEF Base, Approved, ClaimMark, Reservation, Missing

(* Enough of the process to follow the files by. *)
LEMMA EnvStays ==
  ASSUME NEW here, At(here)
  PROVE at = here /\ owned' = owned /\ fate' = fate /\ medium' = medium /\ kind' = kind
  BY Zenon DEF At, Here, environment

LEMMA HereStays ==
  ASSUME NEW here, Here(here)
  PROVE at = here /\ owned' = owned /\ medium' = medium /\ kind' = kind
  BY Zenon DEF Here, environment

LEMMA Ends ==
  /\ Throw => at' = "idle"
  /\ \A a : Say(a) => at' = "idle"
  /\ \A c : Fail(c) => at' = "conflict"
  /\ \A pc : Goto(pc) => at' = pc
  /\ \A pc, b : Bind(pc, b) => at' = pc
  /\ \A c : PutBack(c) => at' = "restore"
  BY Zenon DEF Throw, Say, Fail, Goto, Bind, PutBack

LEMMA FilesSame == SameFiles => name' = name /\ Paths' = Paths /\ dir' = dir /\ dirs' = dirs
  BY SameFilesSamePaths, Zenon DEF SameFiles

LEMMA JournalEnds ==
  ASSUME NEW s, NEW r \in Record, NEW pc, Journal(s, r, pc)
  PROVE  \/ at' = "idle" /\ record' = record
         \/ /\ at' = pc /\ record'.state = s /\ record'.dir = r.dir /\ record'.stage = r.stage
            /\ record'.backup = r.backup
<1>1. CASE s \in torn
  BY <1>1, Ends, SameState, Zenon DEF Journal, SameRecord
<1>2. CASE s \notin torn
  <2>1. record' = [r EXCEPT !.state = s] /\ Goto(pc)
    BY <1>2, Zenon DEF Journal
  <2>2. record'.state = s /\ record'.dir = r.dir /\ record'.stage = r.stage
        /\ record'.backup = r.backup
    BY <2>1 DEF Record
  <2> QED BY <2>1, <2>2, Ends, Zenon
<1> QED BY <1>1, <1>2, Zenon

LEMMA AtWork ==
  ASSUME TypeInv, Flow, NEW here \in Working, At(here) \/ Here(here)
  PROVE  /\ medium = "DISK" /\ record.state \notin {"NONE", "FINALIZED"} /\ at = here
         /\ here \in MergePcs => kind = "MERGE"
         /\ here \in Opening \ {"stage"} => kind = "CREATE"
         /\ here \in {"final", "finalized"} => record.state = "FINALIZING"
         /\ here \in Opening => record.state \in {"ROOT_PREPARED", "TARGET_CLAIMED"}
         /\ here = "install" => record.state \in {"STAGED", "BACKUP_MOVED"}
<1>1. at = here /\ Fits(here, record.state) BY FitsHere, Zenon
<1>2. here \notin ContextPcs \cup {"idle"} BY DEF Working
<1>3. medium = "DISK" BY <1>1, <1>2, Choices, Zenon DEF Fits
<1> QED BY <1>1, <1>3, Zenon DEF Fits

USE DEF FileInv, OwnerWrote, DirsKnown, NothingYet, Apart, Wrote, NotStaged, BaseAside,
        StageThere, Shared, Checking, Spoiled, Looked, PutBackThere, NothingToLink,
        StageGone, BaseGivenUp, Survives, GivenUp, InPlace, Opening, Aside,
        Closing, Settling

LEMMA AskFiles == TypeInv /\ Flow /\ FileInv /\ Ask => FileInv'
<1>1. Ask => /\ SameFiles /\ record' = record /\ At("idle")
             /\ at' \in {"idle", "prepare"} \/ (at' = "key" /\ medium # "DISK")
  BY Ends, Tuples, WorkAnswers, Zenon DEF Ask
<1>2. TypeInv /\ Flow /\ medium # "DISK" => record.state = "NONE"
  BY Choices, Zenon DEF Flow, Fits
<1> QED BY <1>1, <1>2, FilesSame, EnvStays DEF Bound

LEMMA ActFiles == FileInv /\ Act => FileInv'
<1>1. Act => SameFiles /\ record' = record /\ at' = at /\ At("idle")
  BY Tuples, WorkAnswers, Zenon DEF Act
<1> QED BY <1>1, FilesSame, EnvStays DEF Bound

LEMMA RootFiles == FileInv /\ Root => FileInv'
<1>1. ASSUME Root
      PROVE  /\ dir' = dir /\ dirs' = dirs /\ name' = name /\ bytes' = bytes /\ record' = record
             /\ at' \in {"idle", "segment", "ancestor", "parity", "settle", "look"}
             /\ \E here \in {"prepare", "segment", "ancestor", "parity", "settle"} : At(here)
  BY <1>1, Ends, Zenon
  DEF Root, Prepare, Segment, Ancestor, Parity, Settle, SameDisk, SameRecord
<1>2. name' = name /\ bytes' = bytes => Paths' = Paths
  BY SameFilesSamePaths, Zenon
<1> QED BY <1>1, <1>2, EnvStays DEF Bound

LEMMA LookFiles == TypeInv /\ Flow /\ FileInv /\ Look => FileInv'
<1> SUFFICES ASSUME TypeInv, Flow, FileInv, Look PROVE FileInv' OBVIOUS
<1>1. /\ at = "look" /\ owned' = owned /\ fate' = fate /\ medium' = medium /\ kind' = kind /\ record' = record
      /\ name' = name /\ Paths' = Paths /\ dir' = dir /\ dirs' = dirs
  <2>1. Look => At("look") /\ SameFiles /\ SameRecord
    BY Tuples, Zenon DEF Look
  <2> QED BY <2>1, EnvStays, FilesSame, WorkAnswers, Zenon
<1>2. /\ Installed <=> InPlace
      /\ StageReady => name["stage"] # 0 /\ name["stage"] = record.stage /\ Paths["stage"] = Approved
      /\ Mine("stage") => Paths["stage"] \in {Missing, Approved}
  BY InPlaceInstalled, StageIsReady, MineHolds, Zenon
<1>3. /\ name["target"] = name["stage"] => Paths["target"] = Paths["stage"]
      /\ name["backup"] = name["target"] => Paths["backup"] = Paths["target"]
  BY SharedAlike, TypeParts, PathNames, Zenon
<1>4. CASE \E a : Say(a)
  <2>1. at' = "idle" BY <1>4, Ends, Zenon
  <2> QED BY <1>1, <2>1 DEF Bound
<1>5. CASE record.state = "NONE" /\ Goto("begin") /\ (kind = "MERGE" => Held("target") = Base)
  <2>1. at' = "begin" /\ (kind = "MERGE" => Paths["target"] = Base)
    BY <1>5, Ends, HeldOf, Zenon
  <2> QED BY <1>1, <1>5, <2>1, Different, FourPaths DEF Bound
<1>6. CASE Bound /\ AllInPlace /\ Goto("confirm")
  <2>1. at' = "confirm" /\ record.state = "FINALIZING" /\ InPlace /\ name["stage"] = 0
        /\ name["backup"] = 0
    BY <1>2, <1>6, Ends, Zenon DEF AllInPlace
  <2> QED BY <1>1, <2>1 DEF Bound
<1>7. CASE Bound /\ ~AllInPlace /\ (Fail("UNKNOWN_STATE") \/ LookGoesOn)
  <2>1. ~GivenUp BY <1>2, <1>7 DEF AllInPlace
  <2>2. \/ at' = "conflict"
        \/ at' = "tidy" /\ Paths["target"] = Approved
        \/ /\ at' = "relink" /\ name["stage"] # 0 /\ (kind = "MERGE" => Paths["backup"] = Base)
           /\ name["target"] = 0
        \/ /\ at' \in {"rereserve", "rereserving", "remove"} /\ Paths["target"] = Base
           /\ Paths["stage"] \in {Missing, Approved} /\ Paths["backup"] \in {Missing, Reservation}
        \/ at' = "removed" /\ name["target"] = 0
    BY <1>2, <1>7, Ends, HeldOf, Zenon DEF LookGoesOn
  <2>3. Bound BY <1>7
  <2> QED BY <1>1, <1>3, <2>1, <2>2, <2>3, Different DEF Bound
<1> QED BY <1>4, <1>5, <1>6, <1>7, LookBranches, Choices, Zenon

LEMMA BeginFiles == TypeInv /\ Flow /\ FileInv /\ Begin => FileInv'
<1> SUFFICES ASSUME TypeInv, Flow, FileInv, Begin PROVE FileInv' OBVIOUS
<1>1. /\ at = "begin" /\ owned' = owned /\ fate' = fate /\ medium' = medium /\ kind' = kind
      /\ name' = name /\ Paths' = Paths /\ dir' = dir /\ dirs' = dirs /\ record.state = "NONE"
      /\ dir \in Nat /\ dirs \in Nat
  <2>1. Begin => At("begin") /\ SameFiles BY Zenon DEF Begin
  <2>2. at = "begin" => record.state = "NONE" BY Zenon DEF Flow, Fits
  <2> QED BY <2>1, <2>2, EnvStays, FilesSame, TypeParts, Zenon DEF DirsTyped
<1>2. \/ at' = "idle" /\ record' = record
      \/ /\ at' \in {"mkdir", "stage"} /\ record'.state = "ROOT_PREPARED"
         /\ record'.dir \in {0, dir}
  <2>1. \/ Throw /\ SameRecord
        \/ Journal("ROOT_PREPARED", [NoRecord EXCEPT !.dir = 0], "mkdir")
        \/ Journal("ROOT_PREPARED", [NoRecord EXCEPT !.dir = dir], "stage")
    BY Zenon DEF Begin, BeginCreate, BeginMerge, FirstRecord
  <2>2. /\ [NoRecord EXCEPT !.dir = 0] \in Record /\ [NoRecord EXCEPT !.dir = dir] \in Record
        /\ [NoRecord EXCEPT !.dir = 0].dir = 0 /\ [NoRecord EXCEPT !.dir = dir].dir = dir
    BY RecordsTyped DEF NoRecord
  <2> QED BY <2>1, <2>2, JournalEnds, Ends, WorkAnswers, Zenon
<1> QED BY <1>1, <1>2 DEF Bound

LEMMA MkdirFiles == TypeInv /\ Flow /\ FileInv /\ Mkdir => FileInv'
<1> SUFFICES ASSUME TypeInv, Flow, FileInv, Mkdir PROVE FileInv' OBVIOUS
<1>1. /\ at = "mkdir" /\ owned' = owned /\ fate' = fate /\ medium' = medium /\ kind' = kind
      /\ name' = name /\ Paths' = Paths /\ record' = record
      /\ dir \in Nat /\ dirs \in Nat /\ kind = "CREATE"
      /\ record.state \in {"ROOT_PREPARED", "TARGET_CLAIMED"}
  <2>1. Mkdir => At("mkdir") /\ UNCHANGED <<name, bytes>> /\ SameRecord
    BY Zenon DEF Mkdir
  <2>2. kind = "CREATE" /\ record.state \in {"ROOT_PREPARED", "TARGET_CLAIMED"}
    BY <2>1, AtWork, WorkingAre, Zenon DEF Opening
  <2> QED BY <2>1, <2>2, EnvStays, SameFilesSamePaths, WorkAnswers, TypeParts, Zenon DEF DirsTyped
<1>2. \/ at' = "claiming" /\ dirs' = dirs + 1 /\ dir' = dirs + 1
      \/ at' = "conflict" /\ dir' = dir /\ dirs' = dirs
  BY Ends, Zenon DEF Mkdir
<1>3. record.dir \in Nat BY TypeParts DEF RecordTyped, Record
<1> QED BY <1>1, <1>2, <1>3, Different DEF Bound

LEMMA ClaimingFiles == TypeInv /\ Flow /\ FileInv /\ Claiming => FileInv'
<1> SUFFICES ASSUME TypeInv, Flow, FileInv, Claiming PROVE FileInv' OBVIOUS
<1>1. /\ at = "claiming" /\ owned' = owned /\ fate' = fate /\ medium' = medium /\ kind' = kind
      /\ name' = name /\ Paths' = Paths /\ dir' = dir /\ dirs' = dirs /\ kind = "CREATE"
      /\ record.state \in {"ROOT_PREPARED", "TARGET_CLAIMED"}
  <2>1. Claiming => At("claiming") /\ SameFiles BY Zenon DEF Claiming
  <2>2. kind = "CREATE" /\ record.state \in {"ROOT_PREPARED", "TARGET_CLAIMED"}
    BY <2>1, AtWork, WorkingAre, Zenon DEF Opening
  <2> QED BY <2>1, <2>2, EnvStays, FilesSame, Zenon
<1>2. \/ at' = "idle" /\ record' = record
      \/ at' = "claim" /\ record'.state = "TARGET_CLAIMED" /\ record'.dir = dir
  <2>1. [record EXCEPT !.dir = dir] \in Record /\ [record EXCEPT !.dir = dir].dir = dir
    BY RecordsTyped, TypeParts DEF RecordTyped, Record
  <2> QED BY <2>1, JournalEnds, Ends, WorkAnswers, Zenon DEF Claiming
<1> QED BY <1>1, <1>2 DEF Bound

(* A file of the transaction's own. *)
LEMMA MadeFour ==
  ASSUME TypeInv, NEW p \in {"target", "stage", "backup", "claim"}, NEW c \in Contents, Made(p, c)
  PROVE  /\ name'[p] # 0 /\ name'[p] # name["target"] /\ name'[p] # name["stage"]
         /\ name'[p] # name["backup"] /\ name'[p] # name["claim"] /\ Paths'[p] = c
         /\ \A q \in {"target", "stage", "backup", "claim"} \ {p} :
              name'[q] = name[q] /\ Paths'[q] = Paths[q]
<1>1. p \in Path /\ Path = {"target", "stage", "backup", "claim"}
  BY DEF Path
<1>2. /\ name' = [name EXCEPT ![p] = Len(bytes) + 1] /\ Paths' = [Paths EXCEPT ![p] = c]
      /\ name'[p] # 0 /\ \A q \in Path : name[q] # name'[p]
  BY <1>1, TypeParts, MadeFiles, Zenon
<1>3. name \in [Path -> 0 .. Len(bytes)] /\ DOMAIN Paths = Path
  BY TypeParts DEF FilesTyped, Paths
<1> QED BY <1>1, <1>2, <1>3

LEMMA ClaimFiles == TypeInv /\ Flow /\ FileInv /\ Claim => FileInv'
<1> SUFFICES ASSUME TypeInv, Flow, FileInv, Claim PROVE FileInv' OBVIOUS
<1>1. /\ at = "claim" /\ owned' = owned /\ fate' = fate /\ medium' = medium /\ kind' = kind
      /\ record' = record /\ dir' = dir /\ dirs' = dirs /\ kind = "CREATE"
      /\ record.state \in {"ROOT_PREPARED", "TARGET_CLAIMED"}
  <2>1. Claim => At("claim") /\ UNCHANGED <<dir, dirs>> /\ SameRecord
    BY Zenon DEF Claim, WriteScratch
  <2>2. kind = "CREATE" /\ record.state \in {"ROOT_PREPARED", "TARGET_CLAIMED"}
    BY <2>1, AtWork, WorkingAre, Zenon DEF Opening
  <2> QED BY <2>1, <2>2, EnvStays, WorkAnswers, Zenon
<1>2. \/ at' = "idle" /\ UNCHANGED <<name, bytes>>
      \/ at' = "stage" /\ Made("claim", ClaimMark)
  BY Ends, Zenon DEF Claim, WriteScratch
<1>3. CASE at' = "idle" /\ UNCHANGED <<name, bytes>>
  BY <1>1, <1>3, SameFilesSamePaths DEF Bound
<1>4. CASE at' = "stage" /\ Made("claim", ClaimMark)
  BY <1>1, <1>4, MadeFour, ContentsTyped DEF Bound
<1> QED BY <1>2, <1>3, <1>4, Zenon

LEMMA StageFiles == TypeInv /\ Flow /\ FileInv /\ Stage => FileInv'
<1> SUFFICES ASSUME TypeInv, Flow, FileInv, Stage PROVE FileInv' OBVIOUS
<1>1. /\ at = "stage" /\ owned' = owned /\ fate' = fate /\ medium' = medium /\ kind' = kind
      /\ record' = record /\ dir' = dir /\ dirs' = dirs
      /\ record.state \in {"ROOT_PREPARED", "TARGET_CLAIMED"}
  <2>1. Stage => At("stage") /\ UNCHANGED <<dir, dirs>> /\ SameRecord
    BY Zenon DEF Stage, WriteScratch
  <2>2. record.state \in {"ROOT_PREPARED", "TARGET_CLAIMED"}
    BY <2>1, AtWork, WorkingAre, Zenon DEF Opening
  <2> QED BY <2>1, <2>2, EnvStays, WorkAnswers, Zenon
<1>2. \/ at' = "idle" /\ UNCHANGED <<name, bytes>>
      \/ at' = "staged" /\ Made("stage", Approved)
  BY Ends, Zenon DEF Stage, WriteScratch
<1>3. CASE at' = "idle" /\ UNCHANGED <<name, bytes>>
  BY <1>1, <1>3, SameFilesSamePaths DEF Bound
<1>4. CASE at' = "staged" /\ Made("stage", Approved)
  BY <1>1, <1>4, MadeFour, ContentsTyped, FourPaths DEF Bound
<1> QED BY <1>2, <1>3, <1>4, Zenon

LEMMA StagedFiles == TypeInv /\ Flow /\ FileInv /\ Staged => FileInv'
<1> SUFFICES ASSUME TypeInv, Flow, FileInv, Staged PROVE FileInv' OBVIOUS
<1>1. /\ at = "staged" /\ owned' = owned /\ fate' = fate /\ medium' = medium /\ kind' = kind
      /\ name' = name /\ Paths' = Paths /\ dir' = dir /\ dirs' = dirs
      /\ record.state \notin {"NONE", "FINALIZED"} /\ medium = "DISK"
  <2>1. Staged => At("staged") /\ SameFiles BY Zenon DEF Staged
  <2> QED BY <2>1, AtWork, WorkingAre, EnvStays, FilesSame, Zenon
<1>2. \/ at' = "idle" /\ record' = record
      \/ /\ at' = (IF kind = "CREATE" THEN "install" ELSE "base")
         /\ record'.state = "STAGED" /\ record'.dir = record.dir
  <2> DEFINE r == [record EXCEPT !.stage = name["stage"], !.claim = name["claim"]]
             pc == IF kind = "CREATE" THEN "install" ELSE "base"
  <2>1. r \in Record /\ r.dir = record.dir BY RecordsTyped DEF Record
  <2>2. \/ Throw /\ SameRecord
        \/ Journal("STAGED", r, pc)
    BY Zenon DEF Staged
  <2> HIDE DEF r, pc
  <2>3. CASE Throw /\ SameRecord BY <2>3, Ends, WorkAnswers, Zenon
  <2>4. CASE Journal("STAGED", r, pc)
    BY <2>1, <2>4, JournalEnds, Zenon DEF pc
  <2> QED BY <2>2, <2>3, <2>4
<1> QED BY <1>1, <1>2, Choices, Different DEF Bound

(* The stage alone is unlinked, if it is still what was staged. *)
LEMMA StageUnlinked ==
  ASSUME TypeInv, name' = Unlinked({"stage"}), UNCHANGED bytes
  PROVE  /\ name'["stage"] = 0 /\ Paths'["stage"] = Missing
         /\ \A q \in {"target", "backup", "claim"} : name'[q] = name[q] /\ Paths'[q] = Paths[q]
<1>1. /\ \A p \in Path : name'[p] = IF p \in {"stage"} THEN 0 ELSE name[p]
      /\ \A p \in Path : Paths'[p] = IF p \in {"stage"} THEN Missing ELSE Paths[p]
  BY UnlinkedFiles, TypeParts, SetsOfPaths, Zenon
<1> QED BY <1>1 DEF Path

(* Ending in a conflict, the stage gone or not. *)
LEMMA FilesDropped ==
  ASSUME TypeInv, FileInv, UNCHANGED <<dir, dirs, bytes>>, SameRecord,
         UNCHANGED <<owned, fate, medium, kind>>, at \notin Settling,
         \/ name' = name /\ at' \in {"idle", "conflict"}
         \/ name' = name /\ at' = "restore" /\ at \notin Shared
         \/ name' = Unlinked({"stage"}) /\ Mine("stage") /\ at' = "conflict"
  PROVE FileInv'
<1>1. /\ dir' = dir /\ dirs' = dirs /\ owned' = owned /\ fate' = fate /\ medium' = medium /\ kind' = kind
      /\ record' = record
  BY Zenon DEF SameRecord
<1>2. CASE name' = name /\ (at' \in {"idle", "conflict"} \/ (at' = "restore" /\ at \notin Shared))
  <2>1. Paths' = Paths BY <1>2, SameFilesSamePaths, Zenon
  <2> QED BY <1>1, <1>2, <2>1 DEF Bound
<1>3. CASE name' = Unlinked({"stage"}) /\ Mine("stage") /\ at' = "conflict"
  <2>1. /\ name'["stage"] = 0 /\ Paths'["stage"] = Missing
        /\ name'["target"] = name["target"] /\ Paths'["target"] = Paths["target"]
        /\ name'["backup"] = name["backup"] /\ Paths'["backup"] = Paths["backup"]
        /\ name'["claim"] = name["claim"] /\ Paths'["claim"] = Paths["claim"]
    BY <1>3, StageUnlinked
  <2>2. Paths["stage"] \in {Missing, Approved} BY <1>3, MineHolds, Zenon
  <2> QED BY <1>1, <1>3, <2>1, <2>2, Different DEF Bound
<1> QED BY <1>2, <1>3, Zenon

LEMMA DropStage ==
  ASSUME NEW c, Tidy({"stage"}, Fail(c))
  PROVE  \/ name' = name /\ at' \in {"idle", "conflict"}
         \/ name' = Unlinked({"stage"}) /\ Mine("stage") /\ at' = "conflict"
<1>1. \/ name' = Unlinked({"stage"}) /\ Fail(c) /\ Mine("stage")
      \/ UNCHANGED name /\ Throw
  BY DEF Tidy
<1> QED BY <1>1, Ends, Zenon

LEMMA CheckBaseFiles == TypeInv /\ Flow /\ FileInv /\ CheckBase => FileInv'
<1> SUFFICES ASSUME TypeInv, Flow, FileInv, CheckBase PROVE FileInv' OBVIOUS
<1>1. /\ at = "base" /\ owned' = owned /\ fate' = fate /\ medium' = medium /\ kind' = kind
      /\ record' = record /\ dir' = dir /\ dirs' = dirs /\ bytes' = bytes
      /\ record.state \notin {"NONE", "FINALIZED"}
  <2>1. CheckBase => At("base") /\ UNCHANGED <<dir, dirs, bytes>> /\ SameRecord
    BY Zenon DEF CheckBase
  <2> QED BY <2>1, AtWork, WorkingAre, EnvStays, WorkAnswers, Zenon
<1>2. \/ Tidy({"stage"}, Fail("BASE_CHANGED"))
      \/ at' = "reserving" /\ name' = name
  BY Ends, Zenon DEF CheckBase
<1>3. CASE Tidy({"stage"}, Fail("BASE_CHANGED"))
  <2>1. SameRecord /\ at \notin Settling BY <1>1 DEF CheckBase
  <2> QED BY <1>1, <1>3, <2>1, DropStage, FilesDropped, Zenon
<1>4. CASE at' = "reserving" /\ name' = name
  BY <1>1, <1>4, SameFilesSamePaths DEF Bound
<1> QED BY <1>2, <1>3, <1>4, Zenon

LEMMA ReservingFiles == TypeInv /\ Flow /\ FileInv /\ Reserving => FileInv'
<1> SUFFICES ASSUME TypeInv, Flow, FileInv, Reserving PROVE FileInv' OBVIOUS
<1>1. /\ at = "reserving" /\ owned' = owned /\ fate' = fate /\ medium' = medium /\ kind' = kind
      /\ name' = name /\ Paths' = Paths /\ dir' = dir /\ dirs' = dirs
      /\ record.state \notin {"NONE", "FINALIZED"} /\ medium = "DISK" /\ kind = "MERGE"
  <2>1. Reserving => At("reserving") /\ SameFiles BY Zenon DEF Reserving
  <2>2. "reserving" \in MergePcs BY DEF MergePcs
  <2> QED BY <2>1, <2>2, AtWork, WorkingAre, EnvStays, FilesSame, Zenon
<1>2. \/ at' \in {"idle", "conflict"} /\ record' = record
      \/ at' = "reserve" /\ record'.state = "BACKUP_RESERVING" /\ record'.dir = record.dir
  <2>1. [record EXCEPT !.nonce = TRUE] \in Record /\ [record EXCEPT !.nonce = TRUE].dir = record.dir
    BY RecordsTyped DEF Record
  <2> QED BY <2>1, JournalEnds, Ends, WorkAnswers, Zenon DEF Reserving
<1> QED BY <1>1, <1>2, Choices, Different DEF Bound

LEMMA ReserveFiles == TypeInv /\ Flow /\ FileInv /\ Reserve => FileInv'
<1> SUFFICES ASSUME TypeInv, Flow, FileInv, Reserve PROVE FileInv' OBVIOUS
<1>1. /\ at = "reserve" /\ owned' = owned /\ fate' = fate /\ medium' = medium /\ kind' = kind
      /\ record' = record /\ dir' = dir /\ dirs' = dirs /\ kind = "MERGE"
      /\ record.state \notin {"NONE", "FINALIZED"}
  <2>1. Reserve => At("reserve") /\ UNCHANGED <<dir, dirs>> /\ SameRecord
    BY Zenon DEF Reserve
  <2>2. "reserve" \in MergePcs BY DEF MergePcs
  <2> QED BY <2>1, <2>2, AtWork, WorkingAre, EnvStays, WorkAnswers, Zenon
<1>2. \/ at' = "idle" /\ name' = name /\ bytes' = bytes
      \/ Tidy({"stage"}, Fail("BACKUP_EXISTS")) /\ bytes' = bytes
      \/ at' = "reserved" /\ Made("backup", Reservation) /\ name["backup"] = 0
  BY Ends, Zenon DEF Reserve
<1>3. CASE at' = "idle" /\ name' = name /\ bytes' = bytes
  BY <1>1, <1>3, SameFilesSamePaths DEF Bound
<1>4. CASE Tidy({"stage"}, Fail("BACKUP_EXISTS")) /\ bytes' = bytes
  <2>1. SameRecord /\ at \notin Settling BY <1>1 DEF Reserve
  <2> QED BY <1>1, <1>4, <2>1, DropStage, FilesDropped, Zenon
<1>5. CASE at' = "reserved" /\ Made("backup", Reservation) /\ name["backup"] = 0
  BY <1>1, <1>5, MadeFour, ContentsTyped, FourPaths, Different DEF Bound
<1> QED BY <1>2, <1>3, <1>4, <1>5, Zenon

LEMMA ReservedFiles ==
  ASSUME TypeInv, Flow, FileInv,
         Reserved("reserved", "move") \/ Reserved("rereserved", "remove")
  PROVE FileInv'
<1>1. /\ at \in {"reserved", "rereserved"} /\ owned' = owned /\ fate' = fate /\ medium' = medium /\ kind' = kind
      /\ name' = name /\ Paths' = Paths /\ dir' = dir /\ dirs' = dirs
      /\ record.state \notin {"NONE", "FINALIZED"} /\ medium = "DISK" /\ kind = "MERGE"
  <2>1. (At("reserved") \/ At("rereserved")) /\ SameFiles
    BY Zenon DEF Reserved
  <2>2. "reserved" \in MergePcs /\ "rereserved" \in MergePcs
    BY DEF MergePcs
  <2> QED BY <2>1, <2>2, AtWork, WorkingAre, EnvStays, FilesSame, Zenon
<1>2. \/ at' \in {"idle", "conflict"} /\ record' = record
      \/ /\ at' = (IF at = "reserved" THEN "move" ELSE "remove")
         /\ record'.state = "BACKUP_RESERVED" /\ record'.dir = record.dir
  <2> DEFINE r == [record EXCEPT !.reservation = name["backup"]]
  <2>1. r \in Record /\ r.dir = record.dir BY RecordsTyped DEF Record
  <2>2. \/ Fail("BACKUP_CHANGED") /\ SameRecord
        \/ at = "reserved" /\ Journal("BACKUP_RESERVED", r, "move")
        \/ at = "rereserved" /\ Journal("BACKUP_RESERVED", r, "remove")
    BY Zenon DEF Reserved, At, Here
  <2> HIDE DEF r
  <2>3. "reserved" # "rereserved" OBVIOUS
  <2>4. CASE Fail("BACKUP_CHANGED") /\ SameRecord
    BY <2>4, Ends, WorkAnswers, Zenon
  <2>5. CASE at = "reserved" /\ Journal("BACKUP_RESERVED", r, "move")
    BY <2>1, <2>5, JournalEnds, Zenon
  <2>6. CASE at = "rereserved" /\ Journal("BACKUP_RESERVED", r, "remove")
    BY <2>1, <2>3, <2>6, JournalEnds, Zenon
  <2> QED BY <2>2, <2>4, <2>5, <2>6, Zenon
<1> QED BY <1>1, <1>2, Choices, Different DEF Bound

(* Names move about. *)
Stays(p) == name'[p] = name[p] /\ Paths'[p] = Paths[p]
Gone(p) == name'[p] = 0 /\ Paths'[p] = Missing
Takes(p, q) == name'[p] = name[q] /\ Paths'[p] = Paths[q]

LEMMA MovedBack ==
  ASSUME TypeInv, UNCHANGED bytes
  PROVE  /\ name' = Renamed => /\ Takes("backup", "target") /\ Gone("target")
                               /\ Stays("stage") /\ Stays("claim")
         /\ name' = Linked => /\ Takes("target", "stage") /\ Stays("stage")
                              /\ Stays("backup") /\ Stays("claim")
         /\ name' = Unlinked({"target"}) => /\ Gone("target") /\ Stays("stage")
                                            /\ Stays("backup") /\ Stays("claim")
         /\ name' = Restored /\ name["target"] = 0 =>
               Takes("target", "backup") /\ Stays("stage") /\ Stays("backup") /\ Stays("claim")
<1>1. FilesTyped BY TypeParts
<1>2. Path = {"target", "stage", "backup", "claim"} BY DEF Path
<1>3. ASSUME name' = Renamed
      PROVE Takes("backup", "target") /\ Gone("target") /\ Stays("stage") /\ Stays("claim")
  <2>1. name' = [name EXCEPT !["backup"] = name["target"], !["target"] = 0]
    BY <1>3, Zenon DEF Renamed
  <2>2. /\ name'["backup"] = name["target"] /\ Paths'["backup"] = Paths["target"]
        /\ \A r \in Path \ {"backup", "target"} : name'[r] = name[r] /\ Paths'[r] = Paths[r]
        /\ name'["target"] = 0 /\ Paths'["target"] = Missing
    BY <1>1, <2>1, PathNames, NameTaken
  <2> QED BY <1>2, <2>2 DEF Takes, Gone, Stays
<1>4. ASSUME name' = Linked
      PROVE Takes("target", "stage") /\ Stays("stage") /\ Stays("backup") /\ Stays("claim")
  <2>1. name' = [name EXCEPT !["target"] = name["stage"]]
    BY <1>4, Zenon DEF Linked
  <2>2. /\ name'["target"] = name["stage"] /\ Paths'["target"] = Paths["stage"]
        /\ \A r \in Path \ {"target", "stage"} : name'[r] = name[r] /\ Paths'[r] = Paths[r]
        /\ name'["stage"] = name["stage"] /\ Paths'["stage"] = Paths["stage"]
    BY <1>1, <2>1, PathNames, NameTaken
  <2> QED BY <1>2, <2>2 DEF Takes, Gone, Stays
<1>5. ASSUME name' = Restored, name["target"] = 0
      PROVE Takes("target", "backup") /\ Stays("stage") /\ Stays("backup") /\ Stays("claim")
  <2>1. name' = [name EXCEPT !["target"] = name["backup"]]
    BY <1>5, Zenon DEF Restored
  <2>2. /\ name'["target"] = name["backup"] /\ Paths'["target"] = Paths["backup"]
        /\ \A r \in Path \ {"target", "backup"} : name'[r] = name[r] /\ Paths'[r] = Paths[r]
        /\ name'["backup"] = name["backup"] /\ Paths'["backup"] = Paths["backup"]
    BY <1>1, <2>1, PathNames, NameTaken
  <2> QED BY <1>2, <2>2 DEF Takes, Gone, Stays
<1>6. ASSUME name' = Unlinked({"target"})
      PROVE Gone("target") /\ Stays("stage") /\ Stays("backup") /\ Stays("claim")
  <2>1. /\ \A p \in Path : name'[p] = IF p \in {"target"} THEN 0 ELSE name[p]
        /\ \A p \in Path : Paths'[p] = IF p \in {"target"} THEN Missing ELSE Paths[p]
    BY <1>1, <1>6, UnlinkedFiles, SetsOfPaths, Zenon
  <2> QED BY <1>2, <2>1 DEF Stays, Gone
<1> QED BY <1>3, <1>4, <1>5, <1>6, Zenon

LEMMA ReservationHeld == TypeInv /\ ReservationHolds => Paths["backup"] = Reservation
  BY TypeParts, MatchesPaths, PathNames, Zenon DEF ReservationHolds

(* The base goes onto its reservation, which is given up. *)
LEMMA RenamedFiles ==
  ASSUME TypeInv, FileInv, UNCHANGED <<dir, dirs, bytes>>, SameRecord,
         UNCHANGED <<owned, fate, medium, kind>>, kind = "MERGE", record.state # "NONE",
         at \in {"move", "remove"}, at' \in {"moved", "removed"}, name' = Renamed,
         ReservationHolds
  PROVE FileInv'
<1>1. /\ dir' = dir /\ dirs' = dirs /\ owned' = owned /\ fate' = fate /\ medium' = medium /\ kind' = kind
      /\ record' = record /\ Paths["backup"] = Reservation
  BY ReservationHeld, Zenon DEF SameRecord
<1>2. Takes("backup", "target") /\ Gone("target") /\ Stays("stage") /\ Stays("claim")
  BY MovedBack, Zenon
<1> QED BY <1>1, <1>2, Different, FourPaths DEF Bound, Takes, Gone, Stays

LEMMA MoveFiles == TypeInv /\ Flow /\ FileInv /\ Move => FileInv'
<1> SUFFICES ASSUME TypeInv, Flow, FileInv, Move PROVE FileInv' OBVIOUS
<1>1. /\ at = "move" /\ UNCHANGED <<owned, fate, medium, kind>> /\ UNCHANGED <<dir, dirs, bytes>>
      /\ SameRecord /\ kind = "MERGE" /\ record.state # "NONE"
  <2>1. Move => At("move") /\ UNCHANGED <<dir, dirs, bytes>> /\ SameRecord
    BY Zenon DEF Move
  <2>2. "move" \in MergePcs BY DEF MergePcs
  <2> QED BY <2>1, <2>2, AtWork, WorkingAre, EnvStays, Zenon
<1>2. \/ at' = "idle" /\ name' = name
      \/ \E c : Tidy({"stage"}, Fail(c))
      \/ at' = "moved" /\ name' = Renamed /\ ReservationHolds
  BY Ends, Zenon DEF Move
<1>3. at \notin Settling BY <1>1
<1>4. CASE at' = "idle" /\ name' = name
  BY <1>1, <1>3, <1>4, FilesDropped, Zenon
<1>5. CASE \E c : Tidy({"stage"}, Fail(c))
  BY <1>1, <1>3, <1>5, DropStage, FilesDropped, Zenon
<1>6. CASE at' = "moved" /\ name' = Renamed /\ ReservationHolds
  BY <1>1, <1>6, RenamedFiles
<1> QED BY <1>2, <1>4, <1>5, <1>6, Zenon

LEMMA MovedFiles == TypeInv /\ Flow /\ FileInv /\ Moved => FileInv'
<1> SUFFICES ASSUME TypeInv, Flow, FileInv, Moved PROVE FileInv' OBVIOUS
<1>1. /\ at = "moved" /\ owned' = owned /\ fate' = fate /\ medium' = medium /\ kind' = kind /\ bytes' = bytes
      /\ dir' = dir /\ dirs' = dirs /\ kind = "MERGE" /\ medium = "DISK"
      /\ record.state \notin {"NONE", "FINALIZED"}
  <2>1. Moved => At("moved") /\ dir' = dir /\ dirs' = dirs /\ bytes' = bytes
    BY Zenon DEF Moved, SameFiles
  <2>2. "moved" \in MergePcs BY DEF MergePcs
  <2> QED BY <2>1, <2>2, AtWork, WorkingAre, EnvStays, Zenon
<1>2. /\ name' = name
      /\ \/ at' \in {"idle", "restore"} /\ record' = record
         \/ /\ at' = "install" /\ record'.state = "BACKUP_MOVED" /\ record'.dir = record.dir
            /\ Paths["backup"] = Base
  <2> DEFINE r == [record EXCEPT !.backup = name["backup"]]
  <2>1. r \in Record /\ r.dir = record.dir BY RecordsTyped DEF Record
  <2>2. /\ UNCHANGED <<dir, dirs, name, bytes>>
        /\ \/ Journal("BACKUP_MOVED", r, "install") /\ Held("backup") = Base
           \/ SameRecord /\ PutBack("BASE_CHANGED_DURING_CUTOVER")
    BY Tuples, Zenon DEF Moved, SameFiles
  <2> HIDE DEF r
  <2> QED BY <2>1, <2>2, JournalEnds, Ends, WorkAnswers, HeldOf, Zenon
<1>3. Paths' = Paths BY <1>1, <1>2, SameFilesSamePaths, Zenon
<1> QED BY <1>1, <1>2, <1>3, Different DEF Bound

(* What was moved aside comes back by a link, and leaves the backup's name then. *)
LEMMA RestoreFiles == TypeInv /\ Flow /\ FileInv /\ Restore => FileInv'
<1> SUFFICES ASSUME TypeInv, Flow, FileInv, Restore PROVE FileInv' OBVIOUS
<1>1. /\ at = "restore" /\ owned' = owned /\ fate' = fate /\ medium' = medium /\ kind' = kind
      /\ bytes' = bytes /\ dir' = dir /\ dirs' = dirs /\ record' = record
      /\ record.state \notin {"NONE", "FINALIZED"} /\ medium = "DISK" /\ kind = "MERGE"
  <2>1. Restore => At("restore") /\ UNCHANGED <<dir, dirs, bytes>> /\ SameRecord
    BY Zenon DEF Restore
  <2>2. "restore" \in MergePcs BY DEF MergePcs
  <2> QED BY <2>1, <2>2, AtWork, WorkingAre, EnvStays, WorkAnswers, Zenon
<1>2. \/ name' = name /\ at' \in {"idle", "drop", "conflict"}
      \/ name["target"] = 0 /\ name' = Restored /\ at' = "release"
  BY Ends, Zenon DEF Restore, Restored, Afterwards
<1>3. CASE name' = name /\ at' \in {"idle", "drop", "conflict"}
  BY <1>1, <1>3, SameFilesSamePaths DEF Bound
<1>4. CASE name["target"] = 0 /\ name' = Restored /\ at' = "release"
  <2>1. Takes("target", "backup") /\ Stays("stage") /\ Stays("backup") /\ Stays("claim")
    BY <1>1, <1>4, MovedBack, Zenon
  <2> QED BY <1>1, <1>4, <2>1, Different, FourPaths DEF Bound, Takes, Stays
<1> QED BY <1>2, <1>3, <1>4, Zenon

LEMMA ReleaseFiles == TypeInv /\ Flow /\ FileInv /\ Release => FileInv'
<1> SUFFICES ASSUME TypeInv, Flow, FileInv, Release PROVE FileInv' OBVIOUS
<1>1. /\ at = "release" /\ owned' = owned /\ fate' = fate /\ medium' = medium /\ kind' = kind
      /\ bytes' = bytes /\ dir' = dir /\ dirs' = dirs /\ record' = record
      /\ record.state \notin {"NONE", "FINALIZED"}
  <2>1. Release => At("release") /\ UNCHANGED <<dir, dirs, bytes>> /\ SameRecord
    BY Zenon DEF Release
  <2> QED BY <2>1, AtWork, WorkingAre, EnvStays, WorkAnswers, Zenon
<1>2. \/ name' = name /\ at' = "idle"
      \/ name' = Unlinked({"backup"}) /\ at' \in {"drop", "conflict"}
  BY Ends, Zenon DEF Release, Afterwards
<1>3. CASE name' = name /\ at' = "idle"
  BY <1>1, <1>3, SameFilesSamePaths DEF Bound
<1>4. CASE name' = Unlinked({"backup"}) /\ at' \in {"drop", "conflict"}
  <2>1. /\ \A p \in Path : name'[p] = IF p \in {"backup"} THEN 0 ELSE name[p]
        /\ \A p \in Path : Paths'[p] = IF p \in {"backup"} THEN Missing ELSE Paths[p]
    BY <1>1, <1>4, UnlinkedFiles, TypeParts, SetsOfPaths, Zenon
  <2>2. Gone("backup") /\ Stays("target") /\ Stays("stage") /\ Stays("claim")
    BY <2>1 DEF Path, Stays, Gone
  <2> QED BY <1>1, <1>4, <2>2, Different, FourPaths DEF Bound, Gone, Stays
<1> QED BY <1>2, <1>3, <1>4, Zenon

LEMMA DropFiles == TypeInv /\ Flow /\ FileInv /\ Drop => FileInv'
<1> SUFFICES ASSUME TypeInv, Flow, FileInv, Drop PROVE FileInv' OBVIOUS
<1>1. /\ at = "drop" /\ UNCHANGED <<owned, fate, medium, kind>> /\ UNCHANGED <<dir, dirs, bytes>>
      /\ SameRecord /\ Tidy({"stage"}, Fail(code))
  <2>1. Drop => At("drop") /\ UNCHANGED <<dir, dirs, bytes>> /\ SameRecord /\ Tidy({"stage"}, Fail(code))
    BY Zenon DEF Drop
  <2> QED BY <2>1, EnvStays, Zenon
<1>2. at \notin Settling BY <1>1
<1> QED BY <1>1, <1>2, DropStage, FilesDropped, Zenon

LEMMA ScratchUnlinked ==
  ASSUME TypeInv, name' = Unlinked(Scratch), UNCHANGED bytes
  PROVE Gone("stage") /\ Gone("claim") /\ Stays("target") /\ Stays("backup")
<1>1. /\ \A p \in Path : name'[p] = IF p \in {"stage", "claim"} THEN 0 ELSE name[p]
      /\ \A p \in Path : Paths'[p] = IF p \in {"stage", "claim"} THEN Missing ELSE Paths[p]
  <2>1. Scratch = {"stage", "claim"} /\ {"stage", "claim"} \in SUBSET Path
    BY DEF Scratch, Path
  <2> QED BY <2>1, UnlinkedFiles, TypeParts, Zenon
<1> QED BY <1>1 DEF Path, Stays, Gone

(* The stage and the claim are given up, each still what it was made. *)
LEMMA ScratchGone ==
  ASSUME TypeInv, FileInv, UNCHANGED <<dir, dirs, bytes>>, SameRecord,
         UNCHANGED <<owned, fate, medium, kind>>, at \notin Settling \cup Shared,
         at' \in {"conflict", "written"}, name' = Unlinked(Scratch), Mine("stage"), Mine("claim")
  PROVE FileInv'
<1>1. /\ dir' = dir /\ dirs' = dirs /\ owned' = owned /\ fate' = fate /\ medium' = medium /\ kind' = kind
      /\ record' = record
  BY Zenon DEF SameRecord
<1>2. Gone("stage") /\ Gone("claim") /\ Stays("target") /\ Stays("backup")
  BY ScratchUnlinked
<1>3. Paths["stage"] \in {Missing, Approved} BY MineHolds, Zenon
<1> QED BY <1>1, <1>2, <1>3, Different DEF Bound, Stays, Gone

LEMMA ScratchTidied ==
  ASSUME NEW Then, Tidy(Scratch, Then)
  PROVE  \/ name' = Unlinked(Scratch) /\ Then /\ Mine("stage") /\ Mine("claim")
         \/ name' = name /\ at' = "idle"
<1>1. \/ name' = Unlinked(Scratch) /\ Then /\ Mine("stage") /\ Mine("claim")
      \/ UNCHANGED name /\ Throw
  BY DEF Tidy, Scratch
<1> QED BY <1>1, Ends, Zenon

LEMMA InstallFiles == TypeInv /\ Flow /\ FileInv /\ Install => FileInv'
<1> SUFFICES ASSUME TypeInv, Flow, FileInv, Install PROVE FileInv' OBVIOUS
<1>1. /\ at = "install" /\ UNCHANGED <<owned, fate, medium, kind>> /\ UNCHANGED <<dir, dirs, bytes>>
      /\ SameRecord /\ record.state \in {"STAGED", "BACKUP_MOVED"}
  <2>1. Install => At("install") /\ UNCHANGED <<dir, dirs, bytes>> /\ SameRecord
    BY Zenon DEF Install
  <2> QED BY <2>1, AtWork, WorkingAre, EnvStays, Zenon
<1>2. /\ dir' = dir /\ dirs' = dirs /\ owned' = owned /\ fate' = fate /\ medium' = medium /\ kind' = kind
      /\ record' = record /\ bytes' = bytes
  BY <1>1, Zenon DEF SameRecord
<1>3. \/ at' \in {"idle", "conflict", "restore"} /\ name' = name
      \/ Tidy(Scratch, Fail("TARGET_APPEARED"))
      \/ Tidy({"stage"}, Fail("TARGET_APPEARED"))
      \/ at' = "check" /\ name' = Linked /\ Bound /\ StageReady /\ name["target"] = 0
  BY Ends, Zenon DEF Install, InstallNew, InstallMerged, InstallOr
<1>4. at \notin Settling /\ at \notin Shared /\ at \notin Settling \cup Shared
  BY <1>1
<1>5. CASE at' \in {"idle", "conflict", "restore"} /\ name' = name
  BY <1>1, <1>4, <1>5, FilesDropped, Zenon
<1>6. CASE Tidy(Scratch, Fail("TARGET_APPEARED"))
  <2>1. \/ name' = Unlinked(Scratch) /\ at' = "conflict" /\ Mine("stage") /\ Mine("claim")
        \/ name' = name /\ at' = "idle"
    BY <1>6, ScratchTidied, Ends, Zenon
  <2> QED BY <1>1, <1>4, <2>1, FilesDropped, ScratchGone, Zenon
<1>7. CASE Tidy({"stage"}, Fail("TARGET_APPEARED"))
  BY <1>1, <1>4, <1>7, DropStage, FilesDropped, Zenon
<1>8. CASE at' = "check" /\ name' = Linked /\ Bound /\ StageReady /\ name["target"] = 0
  <2>1. Takes("target", "stage") /\ Stays("stage") /\ Stays("backup") /\ Stays("claim")
    BY <1>2, <1>8, MovedBack, Zenon
  <2>2. name["stage"] # 0 /\ name["stage"] = record.stage /\ Paths["stage"] = Approved
    BY <1>8, StageIsReady, Zenon
  <2> QED BY <1>1, <1>2, <1>8, <2>1, <2>2, Different, FourPaths DEF Bound, Takes, Stays
<1> QED BY <1>3, <1>5, <1>6, <1>7, <1>8, Zenon

(* A step of the installation that looks, and moves no name. *)
LEMMA LookOnly ==
  ASSUME TypeInv, Flow, NEW here \in Working, Here(here), SameDisk
  PROVE  /\ at = here /\ owned' = owned /\ medium' = medium /\ kind' = kind
         /\ name' = name /\ Paths' = Paths /\ dir' = dir /\ dirs' = dirs /\ record' = record
         /\ record.state \notin {"NONE", "FINALIZED"} /\ medium = "DISK"
  BY AtWork, HereStays, FilesSame, Tuples, WorkAnswers, Zenon

LEMMA CheckFiles == TypeInv /\ Flow /\ FileInv /\ Check => FileInv'
<1> SUFFICES ASSUME TypeInv, Flow, FileInv, Check PROVE FileInv' OBVIOUS
<1>1. /\ at = "check" /\ owned' = owned /\ fate' = fate /\ medium' = medium /\ kind' = kind
      /\ name' = name /\ Paths' = Paths /\ dir' = dir /\ dirs' = dirs /\ record' = record
      /\ record.state \notin {"NONE", "FINALIZED"} /\ medium = "DISK"
  <2>1. Check => Here("check") /\ fate' = fate /\ SameDisk
    BY Zenon DEF Check, At
  <2> QED BY <2>1, LookOnly, WorkingAre, Zenon
<1>2. \/ at' \in {"idle", "tidy"}
      \/ at' = "preserve" /\ Bound /\ ~InPlace
  BY InPlaceInstalled, Ends, Zenon DEF Check
<1>3. name["target"] = name["stage"] => Paths["target"] = Paths["stage"]
  BY SharedAlike, TypeParts, PathNames, Zenon
<1> QED BY <1>1, <1>2, <1>3, Different, FourPaths DEF Bound

(* What is found in the place is what was staged, edited. *)
LEMMA PreserveFiles == TypeInv /\ Flow /\ FileInv /\ Preserve => FileInv'
<1> SUFFICES ASSUME TypeInv, Flow, FileInv, Preserve PROVE FileInv' OBVIOUS
<1>1. /\ at = "preserve" /\ owned' = owned /\ medium' = medium /\ kind' = kind
      /\ name' = name /\ Paths' = Paths /\ dir' = dir /\ dirs' = dirs /\ record' = record
      /\ record.state \notin {"NONE", "FINALIZED"} /\ medium = "DISK"
  <2>1. Preserve => Here("preserve") /\ SameDisk
    BY Zenon DEF Preserve, At, LookedAt
  <2> QED BY <2>1, LookOnly, WorkingAre, Zenon
<1>2. \/ at' = "conflict" /\ fate' = fate
      \/ /\ at' = "rebind" /\ fate' = (IF fate = "EXPOSED" THEN "SAFE" ELSE fate)
         /\ name["target"] # 0 /\ name["target"] = record.stage
  BY Ends, Zenon DEF Preserve, At, LookedAt
<1> QED BY <1>1, <1>2, Different DEF Bound

LEMMA RebindFiles == TypeInv /\ Flow /\ FileInv /\ Rebind => FileInv'
<1> SUFFICES ASSUME TypeInv, Flow, FileInv, Rebind PROVE FileInv' OBVIOUS
<1>1. /\ at = "rebind" /\ owned' = owned /\ fate' = fate /\ medium' = medium /\ kind' = kind
      /\ name' = name /\ Paths' = Paths /\ dir' = dir /\ dirs' = dirs /\ record' = record
      /\ record.state \notin {"NONE", "FINALIZED"} /\ medium = "DISK"
  <2>1. Rebind => Here("rebind") /\ fate' = fate /\ SameDisk
    BY Zenon DEF Rebind, At
  <2> QED BY <2>1, LookOnly, WorkingAre, Zenon
<1>2. at' = "idle" \/ (at' = "dislodge" /\ Bound)
  BY Ends, Zenon DEF Rebind
<1> QED BY <1>1, <1>2 DEF Bound

(* The unlink of the target: what the owner left there since the look is lost, *)
(* and nothing else of his is. *)
LEMMA TargetUnlinked ==
  ASSUME TypeInv, Flow, FileInv, NEW Then,
         UnlinkTarget("dislodge", Then) \/ UnlinkTarget("withdrawing", Then),
         Then => at' \in {"conflict", "restore", "rmdir"},
         Then => (at' = "rmdir" <=> at = "withdrawing")
  PROVE FileInv'
<1>1. /\ at \in {"dislodge", "withdrawing"} /\ owned' = owned /\ medium' = medium /\ kind' = kind
      /\ bytes' = bytes /\ dir' = dir /\ dirs' = dirs /\ record' = record
      /\ record.state \notin {"NONE", "FINALIZED"} /\ medium = "DISK"
  <2>1. /\ Here("dislodge") \/ Here("withdrawing")
        /\ UNCHANGED <<dir, dirs, bytes>> /\ SameRecord
    BY Zenon DEF UnlinkTarget
  <2> QED BY <2>1, AtWork, WorkingAre, HereStays, WorkAnswers, Zenon
<1> DEFINE lost == fate = "EXPOSED" /\ \A p \in Path \ {"target"} : Held(p) # owned
<1>2. \/ at' = "idle" /\ name' = name /\ fate' = fate
      \/ /\ name["target"] # 0 /\ name' = Unlinked({"target"})
         /\ at' \in {"conflict", "restore", "rmdir"} /\ (at' = "rmdir" <=> at = "withdrawing")
         /\ fate' = IF lost THEN "LOST" ELSE fate
  BY Ends, Zenon DEF UnlinkTarget
<1>3. CASE at' = "idle" /\ name' = name /\ fate' = fate
  BY <1>1, <1>3, SameFilesSamePaths DEF Bound
<1>4. CASE /\ name["target"] # 0 /\ name' = Unlinked({"target"})
           /\ at' \in {"conflict", "restore", "rmdir"} /\ (at' = "rmdir" <=> at = "withdrawing")
           /\ fate' = IF lost THEN "LOST" ELSE fate
  <2>1. Gone("target") /\ Stays("stage") /\ Stays("backup") /\ Stays("claim")
    BY <1>1, <1>4, MovedBack, Zenon
  <2>2. /\ lost => fate = "EXPOSED"
        /\ fate = "EXPOSED" /\ ~lost =>
              owned \in {Paths["stage"], Paths["backup"], Paths["claim"]}
    BY HeldOf DEF Path
  <2>3. /\ Bound => Paths["stage"] # Approved
        /\ fate = "SAFE" => Paths["target"] \in {Approved, Paths["stage"]}
    <3>1. name["target"] = name["stage"] => Paths["target"] = Paths["stage"]
      BY SharedAlike, TypeParts, PathNames, Zenon
    <3> QED BY <1>1, <1>4, <3>1, Different, FourPaths
  <2> HIDE DEF lost
  <2>4. fate \in {"SAFE", "EXPOSED", "LOST"}
    BY TypeParts DEF OwnerTyped, FateTyped
  <2>5. owned # Approved /\ (fate # "SAFE" => owned # Base) BY Different
  <2>6. ~GivenUp BY <1>1
  <2>7. Survives'
    BY <1>1, <1>4, <2>1, <2>2, <2>3, <2>4, <2>5, <2>6, Different DEF Stays, Gone
  <2> QED BY <1>1, <1>4, <2>1, <2>2, <2>3, <2>4, <2>5, <2>6, <2>7, Different, FourPaths
          DEF Bound, Gone, Stays
<1> QED BY <1>2, <1>3, <1>4, Zenon

LEMMA DislodgeFiles == TypeInv /\ Flow /\ FileInv /\ Dislodge => FileInv'
<1> SUFFICES ASSUME TypeInv, Flow, FileInv, Dislodge PROVE FileInv' OBVIOUS
<1> DEFINE Then == IF kind = "CREATE" THEN Fail("POST_WRITE_MISMATCH")
                   ELSE PutBack("POST_WRITE_MISMATCH")
<1>1. UnlinkTarget("dislodge", Then) /\ at = "dislodge"
  BY Zenon DEF Dislodge, UnlinkTarget, Here
<1>2. Then => at' \in {"conflict", "restore"} BY Ends
<1> HIDE DEF Then
<1>3. "dislodge" # "withdrawing" /\ "rmdir" \notin {"conflict", "restore"} OBVIOUS
<1> QED BY <1>1, <1>2, <1>3, TargetUnlinked, Zenon

LEMMA TidyUpFiles == TypeInv /\ Flow /\ FileInv /\ TidyUp => FileInv'
<1> SUFFICES ASSUME TypeInv, Flow, FileInv, TidyUp PROVE FileInv' OBVIOUS
<1>1. /\ at = "tidy" /\ UNCHANGED <<owned, fate, medium, kind>> /\ UNCHANGED <<dir, dirs, bytes>>
      /\ SameRecord
  <2>1. TidyUp => At("tidy") /\ UNCHANGED <<dir, dirs, bytes>> /\ SameRecord
    BY Zenon DEF TidyUp
  <2> QED BY <2>1, EnvStays, Zenon
<1>2. at \notin Settling /\ at \notin Settling \cup Shared BY <1>1
<1>3. \/ at' = "idle" /\ name' = name
      \/ Tidy(Scratch, Goto("written"))
  BY Ends, Zenon DEF TidyUp
<1>4. \/ at' = "idle" /\ name' = name
      \/ name' = Unlinked(Scratch) /\ at' = "written" /\ Mine("stage") /\ Mine("claim")
  BY <1>3, ScratchTidied, Ends, Zenon
<1> QED BY <1>1, <1>2, <1>4, FilesDropped, ScratchGone, Zenon

LEMMA WrittenFiles == TypeInv /\ Flow /\ FileInv /\ Written => FileInv'
<1> SUFFICES ASSUME TypeInv, Flow, FileInv, Written PROVE FileInv' OBVIOUS
<1>1. /\ at = "written" /\ owned' = owned /\ fate' = fate /\ medium' = medium /\ kind' = kind
      /\ name' = name /\ Paths' = Paths /\ dir' = dir /\ dirs' = dirs
      /\ record.state \notin {"NONE", "FINALIZED"} /\ medium = "DISK"
  <2>1. Written => At("written") /\ SameFiles BY Zenon DEF Written
  <2> QED BY <2>1, AtWork, WorkingAre, EnvStays, FilesSame, Zenon
<1>2. \/ at' = "idle" /\ record' = record
      \/ at' = "confirm" /\ record' = record /\ record.state = "DISK_WRITTEN"
      \/ at' = "confirm" /\ record'.state = "DISK_WRITTEN" /\ record'.dir = record.dir
  BY RecordsTyped, JournalEnds, Ends, WorkAnswers, Zenon DEF Written
<1> QED BY <1>1, <1>2, Different DEF Bound

LEMMA ConflictFiles == TypeInv /\ Flow /\ FileInv /\ Conflict => FileInv'
<1> SUFFICES ASSUME TypeInv, Flow, FileInv, Conflict PROVE FileInv' OBVIOUS
<1>1. /\ at = "conflict" /\ owned' = owned /\ fate' = fate /\ medium' = medium /\ kind' = kind
      /\ name' = name /\ Paths' = Paths /\ dir' = dir /\ dirs' = dirs
      /\ record.state \notin {"NONE", "FINALIZED"} /\ medium = "DISK"
  <2>1. Conflict => At("conflict") /\ SameFiles BY Zenon DEF Conflict
  <2> QED BY <2>1, AtWork, WorkingAre, EnvStays, FilesSame, Zenon
<1>2. code \notin {"NONE", "DISK_WRITTEN", "FINALIZING", "FINALIZED"}
  <2>1. code \in Codes
    BY <1>1, TypeParts DEF ProcessTyped, CodeKnown, Coded
  <2> QED BY <2>1 DEF Codes
<1>3. \/ at' = "idle" /\ record' = record
      \/ at' = "idle" /\ record'.state = code /\ record'.dir = record.dir
  <2>1. \/ SameRecord /\ (\E a : Say(a))
        \/ record' = [record EXCEPT !.state = code] /\ (\E a : Say(a))
    BY Zenon DEF Conflict, Throw
  <2>2. record' = [record EXCEPT !.state = code] =>
            record'.state = code /\ record'.dir = record.dir
    BY TypeParts DEF RecordTyped, Record
  <2> QED BY <2>1, <2>2, Ends, WorkAnswers, Zenon
<1> QED BY <1>1, <1>2, <1>3, Different DEF Bound

LEMMA RereservingFiles == TypeInv /\ Flow /\ FileInv /\ Rereserving => FileInv'
<1> SUFFICES ASSUME TypeInv, Flow, FileInv, Rereserving PROVE FileInv' OBVIOUS
<1>1. /\ at = "rereserving" /\ owned' = owned /\ fate' = fate /\ medium' = medium /\ kind' = kind
      /\ name' = name /\ Paths' = Paths /\ dir' = dir /\ dirs' = dirs
      /\ record.state \notin {"NONE", "FINALIZED"} /\ medium = "DISK" /\ kind = "MERGE"
  <2>1. Rereserving => At("rereserving") /\ SameFiles
    BY Zenon DEF Rereserving
  <2>2. "rereserving" \in MergePcs BY DEF MergePcs
  <2> QED BY <2>1, <2>2, AtWork, WorkingAre, EnvStays, FilesSame, Zenon
<1>2. \/ at' = "idle" /\ record' = record
      \/ at' = "rereserve" /\ record'.state = "BACKUP_RESERVING" /\ record'.dir = record.dir
  <2>1. [record EXCEPT !.nonce = TRUE] \in Record /\ [record EXCEPT !.nonce = TRUE].dir = record.dir
    BY RecordsTyped DEF Record
  <2> QED BY <2>1, JournalEnds, Zenon DEF Rereserving
<1> QED BY <1>1, <1>2, Different DEF Bound

LEMMA RereserveFiles == TypeInv /\ Flow /\ FileInv /\ Rereserve => FileInv'
<1> SUFFICES ASSUME TypeInv, Flow, FileInv, Rereserve PROVE FileInv' OBVIOUS
<1>1. /\ at = "rereserve" /\ owned' = owned /\ fate' = fate /\ medium' = medium /\ kind' = kind
      /\ record' = record /\ dir' = dir /\ dirs' = dirs /\ kind = "MERGE"
      /\ record.state \notin {"NONE", "FINALIZED"}
  <2>1. Rereserve => At("rereserve") /\ UNCHANGED <<dir, dirs>> /\ SameRecord
    BY Zenon DEF Rereserve
  <2>2. "rereserve" \in MergePcs BY DEF MergePcs
  <2> QED BY <2>1, <2>2, AtWork, WorkingAre, EnvStays, WorkAnswers, Zenon
<1>2. \/ at' \in {"idle", "conflict"} /\ name' = name /\ bytes' = bytes
      \/ at' = "rereserved" /\ Made("backup", Reservation) /\ name["backup"] = 0
  BY Ends, Zenon DEF Rereserve
<1>3. CASE at' \in {"idle", "conflict"} /\ name' = name /\ bytes' = bytes
  BY <1>1, <1>3, SameFilesSamePaths DEF Bound
<1>4. CASE at' = "rereserved" /\ Made("backup", Reservation) /\ name["backup"] = 0
  BY <1>1, <1>4, MadeFour, ContentsTyped, FourPaths, Different DEF Bound
<1> QED BY <1>2, <1>3, <1>4, Zenon

LEMMA RemoveFiles == TypeInv /\ Flow /\ FileInv /\ Remove => FileInv'
<1> SUFFICES ASSUME TypeInv, Flow, FileInv, Remove PROVE FileInv' OBVIOUS
<1>1. /\ at = "remove" /\ UNCHANGED <<owned, fate, medium, kind>> /\ UNCHANGED <<dir, dirs, bytes>>
      /\ SameRecord /\ kind = "MERGE" /\ record.state # "NONE"
  <2>1. Remove => At("remove") /\ UNCHANGED <<dir, dirs, bytes>> /\ SameRecord
    BY Zenon DEF Remove
  <2>2. "remove" \in MergePcs BY DEF MergePcs
  <2> QED BY <2>1, <2>2, AtWork, WorkingAre, EnvStays, Zenon
<1>2. \/ at' \in {"idle", "conflict"} /\ name' = name
      \/ at' = "removed" /\ name' = Renamed /\ ReservationHolds
  BY Ends, Zenon DEF Remove
<1>3. at \notin Settling BY <1>1
<1>4. CASE at' \in {"idle", "conflict"} /\ name' = name
  BY <1>1, <1>3, <1>4, FilesDropped, Zenon
<1>5. CASE at' = "removed" /\ name' = Renamed /\ ReservationHolds
  BY <1>1, <1>5, RenamedFiles
<1> QED BY <1>2, <1>4, <1>5, Zenon

LEMMA RemovedFiles == TypeInv /\ Flow /\ FileInv /\ Removed => FileInv'
<1> SUFFICES ASSUME TypeInv, Flow, FileInv, Removed PROVE FileInv' OBVIOUS
<1>1. /\ at = "removed" /\ owned' = owned /\ fate' = fate /\ medium' = medium /\ kind' = kind
      /\ name' = name /\ Paths' = Paths /\ dir' = dir /\ dirs' = dirs
      /\ record.state \notin {"NONE", "FINALIZED"} /\ medium = "DISK" /\ kind = "MERGE"
  <2>1. Removed => At("removed") /\ SameFiles BY Zenon DEF Removed
  <2>2. "removed" \in MergePcs BY DEF MergePcs
  <2> QED BY <2>1, <2>2, AtWork, WorkingAre, EnvStays, FilesSame, Zenon
<1>2. \/ at' \in {"idle", "conflict"} /\ record' = record
      \/ /\ at' = "relink" /\ record'.state = "RECOVERY_BACKUP_MOVED" /\ record'.dir = record.dir
         /\ Paths["backup"] = Base
  <2> DEFINE r == [record EXCEPT !.backup = name["backup"]]
  <2>1. r \in Record /\ r.dir = record.dir BY RecordsTyped DEF Record
  <2>2. \/ Fail("UNKNOWN_STATE") /\ SameRecord
        \/ Journal("RECOVERY_BACKUP_MOVED", r, "relink") /\ Held("backup") = Base
    BY Zenon DEF Removed
  <2> HIDE DEF r
  <2> QED BY <2>1, <2>2, JournalEnds, Ends, WorkAnswers, HeldOf, Zenon
<1> QED BY <1>1, <1>2, Different DEF Bound

LEMMA RelinkFiles == TypeInv /\ Flow /\ FileInv /\ Relink => FileInv'
<1> SUFFICES ASSUME TypeInv, Flow, FileInv, Relink PROVE FileInv' OBVIOUS
<1>1. /\ at = "relink" /\ owned' = owned /\ fate' = fate /\ medium' = medium /\ kind' = kind
      /\ dir' = dir /\ dirs' = dirs /\ record' = record /\ bytes' = bytes
      /\ record.state \notin {"NONE", "FINALIZED"}
  <2>1. Relink => At("relink") /\ UNCHANGED <<dir, dirs, bytes>> /\ SameRecord
    BY Zenon DEF Relink
  <2> QED BY <2>1, AtWork, WorkingAre, EnvStays, WorkAnswers, Zenon
<1>2. \/ at' \in {"idle", "recheck"} /\ name' = name
      \/ at' = "recheck" /\ name' = Linked /\ name["target"] = 0
  BY Ends, Zenon DEF Relink
<1>3. CASE at' \in {"idle", "recheck"} /\ name' = name
  BY <1>1, <1>3, SameFilesSamePaths DEF Bound
<1>4. CASE at' = "recheck" /\ name' = Linked /\ name["target"] = 0
  <2>1. Takes("target", "stage") /\ Stays("stage") /\ Stays("backup") /\ Stays("claim")
    BY <1>1, <1>4, MovedBack, Zenon
  <2> QED BY <1>1, <1>4, <2>1, Different, FourPaths DEF Bound, Takes, Stays
<1> QED BY <1>2, <1>3, <1>4, Zenon

LEMMA RecheckFiles == TypeInv /\ Flow /\ FileInv /\ Recheck => FileInv'
<1>1. Recheck => /\ At("recheck") /\ SameFiles /\ record' = record
                 /\ at' \in {"idle", "tidy", "conflict"}
  BY Ends, Tuples, WorkAnswers, Zenon DEF Recheck
<1> QED BY <1>1, FilesSame, EnvStays DEF Bound

LEMMA ConfirmFiles == TypeInv /\ Flow /\ FileInv /\ Confirm => FileInv'
<1>1. Confirm => /\ At("confirm") /\ SameFiles /\ record' = record
                 /\ at' \in {"idle", "finalizing"} \/ (at' = "withdraw" /\ kind = "CREATE")
  BY Ends, Tuples, WorkAnswers, Zenon DEF Confirm
<1> QED BY <1>1, FilesSame, EnvStays DEF Bound

LEMMA InstalledHolds == TypeInv /\ Installed => Paths["target"] = Approved
  BY InPlaceInstalled, Zenon

LEMMA WithdrawFiles == TypeInv /\ Flow /\ FileInv /\ Withdraw => FileInv'
<1>1. Withdraw => /\ At("withdraw") /\ SameFiles /\ record' = record
                  /\ at' \in {"idle", "match"}
  BY Ends, Tuples, WorkAnswers, Zenon DEF Withdraw
<1> QED BY <1>1, FilesSame, EnvStays DEF Bound

LEMMA MatchFiles == TypeInv /\ Flow /\ FileInv /\ Match => FileInv'
<1> SUFFICES ASSUME TypeInv, Flow, FileInv, Match PROVE FileInv' OBVIOUS
<1>1. /\ at = "match" /\ owned' = owned /\ medium' = medium /\ kind' = kind
      /\ name' = name /\ Paths' = Paths /\ dir' = dir /\ dirs' = dirs /\ record' = record
      /\ record.state \notin {"NONE", "FINALIZED"} /\ medium = "DISK"
  <2>1. Match => Here("match") /\ SameDisk
    BY Zenon DEF Match, At, LookedAt
  <2> QED BY <2>1, LookOnly, WorkingAre, Zenon
<1>2. \/ at' = "conflict" /\ fate' = fate
      \/ /\ at' = "withdrawing" /\ fate' = (IF fate = "EXPOSED" THEN "SAFE" ELSE fate)
         /\ Paths["target"] = Approved
  BY Ends, InstalledHolds, Zenon DEF Match, At, LookedAt
<1> QED BY <1>1, <1>2, Different DEF Bound

LEMMA WithdrawingFiles == TypeInv /\ Flow /\ FileInv /\ Withdrawing => FileInv'
<1> SUFFICES ASSUME TypeInv, Flow, FileInv, Withdrawing PROVE FileInv' OBVIOUS
<1>1. UnlinkTarget("withdrawing", Goto("rmdir")) /\ at = "withdrawing"
  BY Zenon DEF Withdrawing, UnlinkTarget, Here
<1>2. Goto("rmdir") => at' = "rmdir" BY Ends, Zenon
<1> QED BY <1>1, <1>2, TargetUnlinked, Zenon

LEMMA RmdirFiles == TypeInv /\ Flow /\ FileInv /\ Rmdir => FileInv'
<1> SUFFICES ASSUME TypeInv, Flow, FileInv, Rmdir PROVE FileInv' OBVIOUS
<1>1. /\ at = "rmdir" /\ owned' = owned /\ fate' = fate /\ medium' = medium /\ kind' = kind
      /\ name' = name /\ Paths' = Paths /\ record' = record /\ dirs' = dirs /\ dirs \in Nat
  <2>1. Rmdir => At("rmdir") /\ UNCHANGED <<name, bytes>> /\ dirs' = dirs /\ SameRecord
    BY Zenon DEF Rmdir
  <2> QED BY <2>1, EnvStays, SameFilesSamePaths, WorkAnswers, TypeParts, Zenon DEF DirsTyped
<1>2. \/ at' = "idle" /\ dir' = dir
      \/ at' = "conflict" /\ dir' = 0
  BY Ends, Zenon DEF Rmdir
<1> QED BY <1>1, <1>2 DEF Bound

LEMMA FinalizingFiles == TypeInv /\ Flow /\ FileInv /\ Finalizing => FileInv'
<1> SUFFICES ASSUME TypeInv, Flow, FileInv, Finalizing PROVE FileInv' OBVIOUS
<1>1. /\ at = "finalizing" /\ owned' = owned /\ fate' = fate /\ medium' = medium /\ kind' = kind
      /\ name' = name /\ Paths' = Paths /\ dir' = dir /\ dirs' = dirs
      /\ record.state \notin {"NONE", "FINALIZED"} /\ medium = "DISK"
  <2>1. Finalizing => At("finalizing") /\ SameFiles
    BY Zenon DEF Finalizing
  <2> QED BY <2>1, AtWork, WorkingAre, EnvStays, FilesSame, Zenon
<1>2. \/ at' = "idle" /\ record' = record
      \/ /\ at' = "final" /\ InPlace
         /\ \/ record' = record
            \/ /\ record'.state = "FINALIZING" /\ record'.dir = record.dir
               /\ record'.stage = record.stage /\ (kind = "MERGE" => Paths["backup"] = Base)
  <2>1. \/ Throw /\ SameRecord
        \/ Goto("final") /\ SameRecord /\ Installed
        \/ /\ Journal("FINALIZING", record, "final") /\ Installed
           /\ kind = "MERGE" => Matches("backup", record.backup, Base)
    BY Zenon DEF Finalizing
  <2>2. Matches("backup", record.backup, Base) => Paths["backup"] = Base
    BY MatchesPaths, TypeParts, PathNames, Zenon
  <2>3. record \in Record BY TypeParts DEF RecordTyped
  <2> QED BY <2>1, <2>2, <2>3, InPlaceInstalled, JournalEnds, Ends, WorkAnswers, Zenon
<1> QED BY <1>1, <1>2, Choices, Different DEF Bound

LEMMA FinalFiles == TypeInv /\ Flow /\ FileInv /\ Final => FileInv'
<1> SUFFICES ASSUME TypeInv, Flow, FileInv, Final PROVE FileInv' OBVIOUS
<1> DEFINE other == IF kind = "CREATE" THEN "claim" ELSE "backup"
<1>1. /\ at = "final" /\ owned' = owned /\ fate' = fate /\ medium' = medium /\ kind' = kind
      /\ dir' = dir /\ dirs' = dirs /\ record' = record /\ bytes' = bytes
      /\ record.state = "FINALIZING" /\ medium = "DISK"
  <2>1. Final => At("final") /\ UNCHANGED <<dir, dirs, bytes>> /\ SameRecord
    BY Zenon DEF Final
  <2> QED BY <2>1, AtWork, WorkingAre, EnvStays, WorkAnswers, Zenon
<1>2. \/ at' = "idle" /\ name' = name
      \/ /\ at' = "finalized" /\ name' = Unlinked({"stage", other}) /\ Bound
         /\ Mine("stage") /\ Mine(other)
  <2>1. \/ Throw /\ name' = name
        \/ /\ name' = Unlinked({"stage", other}) /\ Goto("finalized") /\ Bound
           /\ \A p \in {"stage", other} : Mine(p)
    BY Zenon DEF Final, Tidy
  <2> QED BY <2>1, Ends, Zenon
<1>3. CASE at' = "idle" /\ name' = name
  BY <1>1, <1>3, SameFilesSamePaths DEF Bound
<1>4. CASE /\ at' = "finalized" /\ name' = Unlinked({"stage", other}) /\ Bound
           /\ Mine("stage") /\ Mine(other)
  <2>1. {"stage", other} \in SUBSET Path /\ other \in {"claim", "backup"}
    BY DEF Path
  <2>2. /\ \A p \in Path : name'[p] = IF p \in {"stage", other} THEN 0 ELSE name[p]
        /\ \A p \in Path : Paths'[p] = IF p \in {"stage", other} THEN Missing ELSE Paths[p]
    BY <1>1, <1>4, <2>1, UnlinkedFiles, TypeParts, Zenon
  <2>3. Gone("stage") /\ Stays("target")
    BY <2>1, <2>2 DEF Path, Stays, Gone
  <2>4. CASE kind = "CREATE"
    <3>1. Gone("claim") /\ Stays("backup")
      BY <2>2, <2>4 DEF Path, Stays, Gone
    <3>2. Paths["stage"] \in {Missing, Approved}
      BY <1>4, MineHolds, Zenon
    <3> QED BY <1>1, <1>4, <2>3, <2>4, <3>1, <3>2, Different DEF Bound, Stays, Gone
  <2>5. CASE kind # "CREATE"
    <3>1. Gone("backup") /\ Stays("claim")
      BY <2>2, <2>5 DEF Path, Stays, Gone
    <3>2. Paths["stage"] \in {Missing, Approved} /\ Paths["backup"] \in {Missing, Base}
      BY <1>4, <2>5, MineHolds, Zenon
    <3> QED BY <1>1, <1>4, <2>3, <2>5, <3>1, <3>2, Different DEF Bound, Stays, Gone
  <2> QED BY <2>4, <2>5, Zenon
<1> QED BY <1>2, <1>3, <1>4, Zenon

LEMMA FinalizedFiles == TypeInv /\ Flow /\ FileInv /\ Finalized => FileInv'
<1> SUFFICES ASSUME TypeInv, Flow, FileInv, Finalized PROVE FileInv' OBVIOUS
<1>1. /\ at = "finalized" /\ owned' = owned /\ fate' = fate /\ medium' = medium /\ kind' = kind
      /\ name' = name /\ Paths' = Paths /\ dir' = dir /\ dirs' = dirs
      /\ record.state = "FINALIZING" /\ medium = "DISK"
  <2>1. Finalized => At("finalized") /\ SameFiles BY Zenon DEF Finalized
  <2> QED BY <2>1, AtWork, WorkingAre, EnvStays, FilesSame, Zenon
<1>2. /\ at' = "idle"
      /\ \/ record' = record
         \/ record'.state = "FINALIZED" /\ record'.dir = record.dir
  <2>1. \/ SameRecord /\ (\E a : Say(a))
        \/ record' = [record EXCEPT !.state = "FINALIZED"] /\ (\E a : Say(a))
    BY Zenon DEF Finalized, Throw
  <2>2. record' = [record EXCEPT !.state = "FINALIZED"] =>
            record'.state = "FINALIZED" /\ record'.dir = record.dir
    BY TypeParts DEF RecordTyped, Record
  <2> QED BY <2>1, <2>2, Ends, WorkAnswers, Zenon
<1> QED BY <1>1, <1>2, Different DEF Bound

LEMMA InContext ==
  ASSUME TypeInv, Flow, NEW here \in ContextPcs, at = here
  PROVE medium = "CONTEXT" /\ record.state = "NONE"
  BY Choices, Zenon DEF Flow, Fits

LEMMA QuietContextFiles ==
  TypeInv /\ Flow /\ FileInv /\ (Key \/ Read \/ Reread \/ Readback) => FileInv'
<1> SUFFICES ASSUME TypeInv, Flow, FileInv, Key \/ Read \/ Reread \/ Readback PROVE FileInv'
  OBVIOUS
<1>1. /\ at \in ContextPcs /\ owned' = owned /\ fate' = fate /\ medium' = medium /\ kind' = kind
      /\ SameFiles /\ record' = record /\ at' \in {"idle", "read", "write", "readback"}
  <2>1. "key" \in ContextPcs /\ "read" \in ContextPcs /\ "reread" \in ContextPcs
        /\ "readback" \in ContextPcs
    BY DEF ContextPcs
  <2>2. PICK here \in ContextPcs : At(here)
    BY <2>1, Zenon DEF Key, Read, Reread, Readback
  <2>3. SameFiles /\ record' = record
    BY Tuples, WorkAnswers, Zenon DEF Key, Read, Reread, Readback
  <2>4. at' \in {"idle", "read", "write", "readback"}
    BY Ends, Zenon DEF Key, Read, Reread, Readback
  <2>5. at = here /\ owned' = owned /\ fate' = fate /\ medium' = medium /\ kind' = kind
    BY <2>2, EnvStays, Zenon
  <2> QED BY <2>3, <2>4, <2>5
<1>2. medium = "CONTEXT" /\ record.state = "NONE"
  BY <1>1, InContext, Zenon
<1> QED BY <1>1, <1>2, FilesSame, Different DEF Bound

LEMMA WriteOutcomes ==
  ASSUME TypeInv, Flow, Write
  PROVE  /\ at = "write" /\ owned' = owned /\ fate' = fate /\ medium' = medium /\ kind' = kind
         /\ record' = record /\ medium = "CONTEXT" /\ record.state = "NONE"
         /\ \/ at' = "idle" /\ name' = name /\ Paths' = Paths /\ dir' = dir /\ dirs' = dirs
            \/ /\ at' \in {"reread", "idle"} /\ Made("target", Approved)
               /\ Paths["target"] = IF kind = "CREATE" THEN Missing ELSE Base
               /\ \/ dir' = dir /\ dirs' = dirs
                  \/ dir' = dirs + 1 /\ dirs' = dirs + 1
<1>1. At("write") /\ SameRecord BY Zenon DEF Write
<1>2. "write" \in ContextPcs BY DEF ContextPcs
<1>3. \/ Throw /\ SameFiles
      \/ (\E a : Say(a)) /\ SameFiles
      \/ WriteText /\ Held("target") = Expected
  BY Zenon DEF Write
<1>4. WriteText => /\ at' \in {"reread", "idle"} /\ Made("target", Approved)
                   /\ \/ dir' = dir /\ dirs' = dirs
                      \/ dir' = dirs + 1 /\ dirs' = dirs + 1
  BY Ends, Zenon DEF WriteText
<1>5. Held("target") = Expected => Paths["target"] = IF kind = "CREATE" THEN Missing ELSE Base
  BY HeldOf, Zenon DEF Expected
<1> QED BY <1>1, <1>2, <1>3, <1>4, <1>5, InContext, EnvStays, Ends, FilesSame, WorkAnswers, Zenon

LEMMA WriteFiles == TypeInv /\ Flow /\ FileInv /\ Write => FileInv'
<1> SUFFICES ASSUME TypeInv, Flow, FileInv, Write PROVE FileInv' OBVIOUS
<1>1. /\ at = "write" /\ owned' = owned /\ fate' = fate /\ medium' = medium /\ kind' = kind
      /\ record' = record /\ medium = "CONTEXT" /\ record.state = "NONE"
      /\ dir \in Nat /\ dirs \in Nat /\ record.dir \in Nat
  <2>1. record.dir \in Nat BY TypeParts DEF RecordTyped, Record
  <2> QED BY <2>1, WriteOutcomes, TypeParts, Zenon DEF DirsTyped
<1>2. CASE at' = "idle" /\ name' = name /\ Paths' = Paths /\ dir' = dir /\ dirs' = dirs
  BY <1>1, <1>2 DEF Bound
<1>3. CASE /\ at' \in {"reread", "idle"} /\ Made("target", Approved)
           /\ Paths["target"] = IF kind = "CREATE" THEN Missing ELSE Base
           /\ \/ dir' = dir /\ dirs' = dirs
              \/ dir' = dirs + 1 /\ dirs' = dirs + 1
  <2>1. /\ name'["target"] # name["stage"] /\ name'["target"] # name["backup"]
        /\ name'["target"] # name["claim"] /\ Stays("stage") /\ Stays("backup") /\ Stays("claim")
    BY <1>3, MadeFour, ContentsTyped DEF Stays
  <2> QED BY <1>1, <1>3, <2>1, FourPaths, Different DEF Bound, Stays
<1> QED BY <1>2, <1>3, WriteOutcomes, Zenon

LEMMA ContextFiles == TypeInv /\ Flow /\ FileInv /\ Context => FileInv'
  BY QuietContextFiles, WriteFiles, Zenon DEF Context

(* The owner writes a new version, in the file or in a new one. *)
LEMMA NewVersion ==
  ASSUME TypeInv, Edit
  PROVE  /\ edits + 1 \in 1 .. MaxEdits /\ edits + 1 \in Contents /\ UNCHANGED <<medium, kind, at>>
         /\ record' = record
<1>1. edits \in Nat /\ edits < MaxEdits
  BY TypeParts, Zenon DEF OwnerTyped, Edit
<1>2. edits + 1 \in Contents /\ edits + 1 \in 1 .. MaxEdits
  BY <1>1, ContentsTyped, SkillFileAssumption
<1> QED BY <1>2, Zenon DEF Edit, process

LEMMA EditInPlaceFiles == TypeInv /\ FileInv /\ EditInPlace => FileInv'
<1> SUFFICES ASSUME TypeInv, FileInv, EditInPlace PROVE FileInv' OBVIOUS
<1> DEFINE new == edits + 1
<1>1. /\ dir' = dir /\ dirs' = dirs /\ name' = name /\ name["target"] # 0 /\ owned' = new
      /\ bytes' = [bytes EXCEPT ![name["target"]] = new] /\ fate' \in {"SAFE", "EXPOSED"}
      /\ at \in Gap => fate' = "EXPOSED" \/ new = Missing
  BY Zenon DEF EditInPlace, Left
<1>2. /\ new \in 1 .. MaxEdits /\ new \in Contents /\ medium' = medium /\ kind' = kind
      /\ at' = at /\ record' = record
  BY NewVersion, Zenon DEF EditInPlace, Owner
<1>3. /\ bytes \in Seq(Contents) /\ name["target"] \in 1 .. Len(bytes)
      /\ \A p \in Path : name[p] \in 0 .. Len(bytes)
  BY <1>1, TypeParts, PathNames DEF FilesTyped
<1>4. \A i \in 1 .. Len(bytes) : bytes'[i] = IF i = name["target"] THEN new ELSE bytes[i]
  BY <1>1, <1>3
<1>5. \A p \in Path : Held(p)' = IF name[p] = 0 THEN Missing ELSE bytes'[name[p]]
  <2>1. \A p \in Path : Held(p)' = IF name'[p] = 0 THEN Missing ELSE bytes'[name'[p]]
    BY Zenon DEF Held
  <2> QED BY <1>1, <2>1
<1>6. \A p \in Path : Paths'[p] = IF name[p] = name["target"] THEN new ELSE Paths[p]
  <2> SUFFICES ASSUME NEW p \in Path
               PROVE Paths'[p] = IF name[p] = name["target"] THEN new ELSE Paths[p]
    OBVIOUS
  <2>1. Paths'[p] = IF name[p] = 0 THEN Missing ELSE bytes'[name[p]]
    BY <1>5, Zenon DEF Paths
  <2>2. Paths[p] = IF name[p] = 0 THEN Missing ELSE bytes[name[p]]
    BY Zenon DEF Paths, Held
  <2> QED BY <1>1, <1>3, <1>4, <2>1, <2>2
<1>7. /\ Paths'["target"] = new
      /\ Paths'["stage"] = IF name["stage"] = name["target"] THEN new ELSE Paths["stage"]
      /\ Paths'["backup"] = IF name["backup"] = name["target"] THEN new ELSE Paths["backup"]
      /\ Paths'["claim"] = IF name["claim"] = name["target"] THEN new ELSE Paths["claim"]
  BY <1>6, PathNames, Zenon
<1> HIDE DEF new
<1> QED BY <1>1, <1>2, <1>7, Different, FourPaths DEF Bound, Gap

LEMMA SaveFiles == TypeInv /\ FileInv /\ Save => FileInv'
<1> SUFFICES ASSUME TypeInv, FileInv, Save PROVE FileInv' OBVIOUS
<1> DEFINE new == edits + 1
<1>1. /\ Made("target", new) /\ owned' = new /\ fate' \in {"SAFE", "EXPOSED"}
      /\ at \in Gap => fate' = "EXPOSED" \/ new = Missing
      /\ \/ dir' = dir /\ dirs' = dirs
         \/ dir' = dirs + 1 /\ dirs' = dirs + 1
  BY Zenon DEF Save, Left
<1>2. /\ new \in 1 .. MaxEdits /\ new \in Contents /\ medium' = medium /\ kind' = kind
      /\ at' = at /\ record' = record
  BY NewVersion, Zenon DEF Save, Owner
<1> HIDE DEF new
<1>3. /\ name'["target"] # 0 /\ Paths'["target"] = new /\ name'["target"] # name["stage"]
      /\ name'["target"] # name["backup"] /\ name'["target"] # name["claim"]
      /\ Stays("stage") /\ Stays("backup") /\ Stays("claim")
  BY <1>1, <1>2, MadeFour DEF Stays
<1>4. dir \in Nat /\ dirs \in Nat /\ record.dir \in Nat
  BY TypeParts DEF DirsTyped, RecordTyped, Record
<1> QED BY <1>1, <1>2, <1>3, <1>4, Different, FourPaths DEF Bound, Gap, Stays

LEMMA DeleteFiles == TypeInv /\ FileInv /\ Delete => FileInv'
<1> SUFFICES ASSUME TypeInv, FileInv, Delete PROVE FileInv' OBVIOUS
<1>1. /\ name' = Unlinked({"target"}) /\ owned' = Missing /\ dir' = dir /\ dirs' = dirs
      /\ bytes' = bytes /\ fate' = "SAFE"
  BY Zenon DEF Delete, Left
<1>2. medium' = medium /\ kind' = kind /\ at' = at /\ record' = record
  BY NewVersion, Zenon DEF Delete, Owner
<1>3. Gone("target") /\ Stays("stage") /\ Stays("backup") /\ Stays("claim")
  BY <1>1, MovedBack, Zenon
<1> QED BY <1>1, <1>2, <1>3, Different, FourPaths DEF Bound, Gone, Stays

(* The bundle is gone, with all that was in it. *)
LEMMA AllGone ==
  ASSUME TypeInv, FileInv, name' = Unlinked(Path), owned' = Missing, fate' = "SAFE", bytes' = bytes, dir' = 0,
         dirs' = dirs, UNCHANGED <<medium, kind, at>>, record' = record
  PROVE FileInv'
<1>1. /\ \A p \in Path : name'[p] = IF p \in Path THEN 0 ELSE name[p]
      /\ \A p \in Path : Paths'[p] = IF p \in Path THEN Missing ELSE Paths[p]
  BY UnlinkedFiles, TypeParts, SetsOfPaths, Zenon
<1>2. Gone("target") /\ Gone("stage") /\ Gone("backup") /\ Gone("claim")
  BY <1>1 DEF Path, Gone
<1>3. dirs \in Nat /\ dir \in Nat BY TypeParts DEF DirsTyped
<1>4. medium' = medium /\ kind' = kind /\ at' = at OBVIOUS
<1> QED BY <1>2, <1>3, <1>4, Different DEF Bound, Gone

LEMMA EnvironmentFiles == TypeInv /\ FileInv /\ Environment => FileInv'
<1>1. TypeInv /\ FileInv /\ DeleteBundle => FileInv'
  BY NewVersion, AllGone, Zenon DEF DeleteBundle, Owner, Left
<1>2. TypeInv /\ FileInv /\ MoveRoot => FileInv'
  BY NewVersion, AllGone, Zenon DEF MoveRoot, Left
<1>3. TypeInv /\ FileInv /\ ToggleFlat => FileInv'
  <2>1. TypeInv /\ ToggleFlat => /\ UNCHANGED <<name, bytes>> /\ dir' = dir /\ dirs' = dirs
                                 /\ owned' = owned /\ fate' = fate /\ UNCHANGED <<medium, kind, at>> /\ record' = record
    BY NewVersion, Zenon DEF ToggleFlat, Owner
  <2> QED BY <2>1, SameFilesSamePaths DEF Bound
<1>4. FileInv /\ Crash => FileInv'
  <2>1. Crash => /\ UNCHANGED <<name, bytes>> /\ dir' = dir /\ dirs' = dirs /\ owned' = owned /\ fate' = fate
                 /\ medium' = medium /\ kind' = kind /\ record' = record /\ at' = "idle"
    BY Zenon DEF Crash
  <2> QED BY <2>1, SameFilesSamePaths DEF Bound
<1> QED BY <1>1, <1>2, <1>3, <1>4, EditInPlaceFiles, SaveFiles, DeleteFiles, Zenon DEF Environment

LEMMA NextFiles == TypeInv /\ Flow /\ FileInv /\ [Next]_vars => FileInv'
<1>1. UNCHANGED vars /\ FileInv => FileInv'
  <2>1. UNCHANGED vars => /\ UNCHANGED <<name, bytes>> /\ dir' = dir /\ dirs' = dirs
                          /\ owned' = owned /\ fate' = fate /\ medium' = medium /\ kind' = kind
                          /\ record' = record /\ at' = at
    BY Zenon DEF vars, disk, process
  <2> QED BY <2>1, SameFilesSamePaths DEF Bound
<1>2. TypeInv /\ Flow /\ FileInv /\ (Create \/ Merge \/ Both) => FileInv'
  BY MkdirFiles, ClaimingFiles, ClaimFiles, CheckBaseFiles, ReservingFiles, ReserveFiles,
     ReservedFiles, MoveFiles, MovedFiles, DropFiles, BeginFiles, StageFiles, StagedFiles,
     InstallFiles, CheckFiles, PreserveFiles, RebindFiles, DislodgeFiles, RestoreFiles,
     ReleaseFiles, TidyUpFiles, WrittenFiles, ConflictFiles, Zenon
  DEF Create, Merge, Both
<1>3. TypeInv /\ Flow /\ FileInv /\ (Recover \/ Close) => FileInv'
  BY RereservingFiles, RereserveFiles, ReservedFiles, RemoveFiles, RemovedFiles, RelinkFiles,
     RecheckFiles, ConfirmFiles, WithdrawFiles, MatchFiles, WithdrawingFiles, RmdirFiles, FinalizingFiles, FinalFiles,
     FinalizedFiles, Zenon
  DEF Recover, Close
<1>4. TypeInv /\ Flow /\ FileInv /\ (Ask \/ Act \/ Root \/ Context \/ Look) => FileInv'
  BY AskFiles, ActFiles, RootFiles, ContextFiles, LookFiles, Zenon
<1> QED BY <1>1, <1>2, <1>3, <1>4, EnvironmentFiles, Zenon DEF Next, Process

LEMMA InitFiles == Init => FileInv
<1> SUFFICES ASSUME Init PROVE FileInv OBVIOUS
<1>1. /\ record.state = "NONE" /\ record.dir = 0 /\ at = "idle" /\ fate = "SAFE"
      /\ Path = {"target", "stage", "backup", "claim"}
  BY DEF Init, NoRecord, Path
<1>2. CASE kind = "MERGE"
  <2>1. /\ dir = 1 /\ dirs = 1 /\ bytes = <<Base>> /\ owned = Base
        /\ name = [p \in Path |-> IF p = "target" THEN 1 ELSE 0]
    BY <1>2, Zenon DEF Init
  <2>2. /\ name["target"] = 1 /\ name["stage"] = 0 /\ name["backup"] = 0 /\ name["claim"] = 0
        /\ bytes[1] = Base
    BY <1>1, <2>1
  <2>3. /\ Paths["target"] = Base /\ Paths["stage"] = Missing /\ Paths["backup"] = Missing
        /\ Paths["claim"] = Missing
    BY <2>2, HeldOf DEF Held
  <2> QED BY <1>1, <1>2, <2>1, <2>2, <2>3, Different, SkillFileAssumption DEF Bound, Base
<1>3. CASE kind # "MERGE"
  <2>1. dir = 0 /\ dirs = 0 /\ owned = Missing /\ name = [p \in Path |-> 0]
    BY <1>3, Zenon DEF Init
  <2>2. /\ name["target"] = 0 /\ name["stage"] = 0 /\ name["backup"] = 0 /\ name["claim"] = 0
    BY <1>1, <2>1
  <2>3. /\ Paths["target"] = Missing /\ Paths["stage"] = Missing /\ Paths["backup"] = Missing
        /\ Paths["claim"] = Missing
    BY <2>2, HeldOf DEF Held
  <2> QED BY <1>1, <1>3, <2>1, <2>2, <2>3, Different DEF Bound
<1> QED BY <1>2, <1>3, Zenon

HIDE DEF FileInv, OwnerWrote, DirsKnown, NothingYet, Apart, Wrote, NotStaged, BaseAside,
         StageThere, Shared, Checking, Spoiled, Looked, PutBackThere, NothingToLink,
        StageGone, BaseGivenUp, Survives, GivenUp, InPlace, Opening, Aside,
         Closing, Settling

----
(* Which steps bring the approved bytes to the target. *)
Comes == name'["target"] \notin {name["target"], 0} /\ Paths'["target"] = Approved

LEMMA InstallsComes == TypeInv' /\ Installs => Comes
<1> SUFFICES ASSUME TypeInv', Installs PROVE Comes OBVIOUS
<1>1. Paths'["target"] = IF name'["target"] = 0 THEN Missing ELSE bytes'[name'["target"]]
  BY HeldOf, Zenon DEF Paths, Held, Path
<1> QED BY <1>1 DEF Installs, Comes

LEMMA NamesKeepTarget ==
  ASSUME \/ name' = name
         \/ \E ps : name' = Unlinked(ps)
  PROVE ~Comes
<1>1. CASE name' = name BY <1>1 DEF Comes
<1>2. CASE \E ps : name' = Unlinked(ps)
  <2>1. name'["target"] \in {name["target"], 0}
    BY <1>2 DEF Unlinked, Path
  <2> QED BY <2>1 DEF Comes
<1> QED BY <1>1, <1>2

LEMMA TidyKeepsTarget == \A ps, Then : Tidy(ps, Then) => ~Comes
  BY NamesKeepTarget, Zenon DEF Tidy

LEMMA MadeBeside ==
  ASSUME TypeInv, NEW p \in {"stage", "backup", "claim"}, NEW c \in Contents, Made(p, c)
  PROVE ~Comes
  BY MadeFour DEF Comes

LEMMA RenamedKeepsTarget == TypeInv /\ bytes' = bytes /\ name' = Renamed => ~Comes
  BY MovedBack DEF Gone, Comes

LEMMA RestoredIsOld == TypeInv /\ FileInv /\ bytes' = bytes /\ name' = Restored => ~Comes
<1> SUFFICES ASSUME TypeInv, FileInv, bytes' = bytes, name' = Restored PROVE ~Comes
  OBVIOUS
<1>1. Paths["backup"] # Approved BY Zenon DEF FileInv, Wrote
<1>2. name' = name \/ Takes("target", "backup")
  BY MovedBack, Zenon DEF Restored
<1> QED BY <1>1, <1>2 DEF Takes, Comes

LEMMA OwnersVersion == TypeInv /\ Environment => ~Comes
<1> SUFFICES ASSUME TypeInv, Environment PROVE ~Comes OBVIOUS
<1>1. CASE Save
  <2>1. Made("target", edits + 1) /\ Edit BY <1>1, Zenon DEF Save, Owner
  <2>2. edits + 1 \in 1 .. MaxEdits /\ edits + 1 \in Contents
    BY <2>1, NewVersion, Zenon
  <2>3. Paths'["target"] = edits + 1 BY <2>1, <2>2, MadeFour
  <2> QED BY <2>2, <2>3, Different DEF Comes
<1>2. CASE EditInPlace \/ Delete \/ DeleteBundle \/ ToggleFlat \/ MoveRoot \/ Crash
  BY <1>2, NamesKeepTarget, Zenon
  DEF EditInPlace, Delete, DeleteBundle, ToggleFlat, MoveRoot, Crash
<1> QED BY <1>1, <1>2, Zenon DEF Environment

LEMMA ComesFrom ==
  ASSUME TypeInv, FileInv, [Next]_vars, Comes
  PROVE Install \/ Relink \/ Write
<1>1. ~(name' = name) /\ ~(\E ps, Then : Tidy(ps, Then)) /\ ~(\E ps : name' = Unlinked(ps))
  BY NamesKeepTarget, TidyKeepsTarget, Zenon
<1>2. ~(bytes' = bytes /\ (name' = Renamed \/ name' = Restored))
  BY RenamedKeepsTarget, RestoredIsOld, Zenon
<1>3. /\ ~Made("stage", Approved) /\ ~Made("claim", ClaimMark) /\ ~Made("backup", Reservation)
  BY MadeBeside, ContentsTyped
<1>4. ~(Ask \/ Act \/ Look \/ Key \/ Read \/ Reread \/ Readback \/ Recheck \/ Confirm)
  BY <1>1, Tuples, Zenon DEF Ask, Act, Look, Key, Read, Reread, Readback, Recheck, Confirm
<1>5. ~Root
  BY <1>1, Tuples, Zenon DEF Root, Prepare, Segment, Ancestor, Parity, Settle
<1>6. ~Create
  BY <1>1, <1>3, Tuples, Zenon DEF Create, Mkdir, Claiming, Claim, WriteScratch
<1>7. ~Merge
  BY <1>1, <1>2, <1>3, Tuples, Zenon
  DEF Merge, CheckBase, Reserving, Reserve, Reserved, Move, Moved, Restore, Release, Drop
<1>8. Both => Install
  BY <1>1, <1>2, <1>3, Tuples, Zenon
  DEF Both, Begin, Stage, WriteScratch, Staged, Check, Preserve, Rebind, Dislodge, LookedAt,
      UnlinkTarget, TidyUp, Written, Conflict
<1>9. Recover => Relink
  BY <1>1, <1>2, <1>3, <1>4, Tuples, Zenon
  DEF Recover, Rereserving, Rereserve, Reserved, Remove, Removed
<1>10. ~Close
  BY <1>1, <1>4, Tuples, Zenon
  DEF Close, Withdraw, Match, LookedAt, Withdrawing, UnlinkTarget, Rmdir, Finalizing, Final, Finalized
<1>11. ~(UNCHANGED vars) BY <1>1, Zenon DEF vars, disk
<1> QED BY <1>4, <1>5, <1>6, <1>7, <1>8, <1>9, <1>10, <1>11, OwnersVersion, Zenon
        DEF Next, Process, Context

(* The stage is linked only where nothing is, and with the base aside. *)
LEMMA ComesByLink ==
  ASSUME TypeInv, Flow, FileInv, Install \/ Relink, Comes
  PROVE  /\ owned \in {Base, Missing}
         /\ record.state \notin {"DISK_WRITTEN", "FINALIZING", "FINALIZED"}
<1>1. /\ at \in {"install", "relink"} /\ bytes' = bytes
      /\ record.state \notin {"DISK_WRITTEN", "FINALIZING", "FINALIZED"}
  <2>1. (Install => At("install") /\ bytes' = bytes) /\ (Relink => At("relink") /\ bytes' = bytes)
    BY Zenon DEF Install, Relink
  <2>2. At("install") => record.state \in {"STAGED", "BACKUP_MOVED"} /\ at = "install"
    BY AtWork, WorkingAre, Zenon
  <2>3. At("relink") => record.state \notin {"NONE", "FINALIZED"} /\ at = "relink"
    BY AtWork, WorkingAre, Zenon
  <2> QED BY <2>1, <2>2, <2>3 DEF FileInv, StageGone
<1>2. ~(name' = name) /\ ~(\E ps, Then : Tidy(ps, Then)) /\ ~(name' = Restored)
  BY <1>1, NamesKeepTarget, TidyKeepsTarget, RestoredIsOld, Zenon
<1>3. Bound /\ name["target"] = 0 /\ name' = Linked
  BY <1>2, Zenon DEF Install, InstallNew, InstallMerged, InstallOr, Relink
<1>4. Paths["stage"] = Approved /\ Paths["target"] = Missing
  <2>1. Paths'["target"] = Paths["stage"]
    BY <1>1, <1>3, MovedBack, Zenon DEF Takes
  <2> QED BY <1>3, <2>1, FourPaths DEF Comes
<1>5. Paths["backup"] \in {Missing, Base}
  BY <1>1, <1>3, Choices, FourPaths DEF FileInv, BaseAside, NothingYet
<1> QED BY <1>1, <1>3, <1>4, <1>5, Different DEF FileInv, OwnerWrote, NothingToLink, Survives

LEMMA ComesByWrite ==
  ASSUME TypeInv, Flow, FileInv, Write
  PROVE  Comes => /\ owned \in {Base, Missing}
                  /\ record.state \notin {"DISK_WRITTEN", "FINALIZING", "FINALIZED"}
<1>1. /\ record.state = "NONE"
      /\ name' # name => Paths["target"] = IF kind = "CREATE" THEN Missing ELSE Base
  BY WriteOutcomes, Zenon
<1>2. Comes => name' # name BY DEF Comes
<1>3. Paths["stage"] = Missing /\ Paths["backup"] = Missing
  BY <1>1, FourPaths DEF FileInv, NothingYet
<1> QED BY <1>1, <1>2, <1>3 DEF FileInv, NothingToLink, Survives

LEMMA InstallsReplace ==
  ASSUME TypeInv, Flow, FileInv, TypeInv', [Next]_vars, Installs
  PROVE  /\ owned \in {Base, Missing}
         /\ record.state \notin {"DISK_WRITTEN", "FINALIZING", "FINALIZED"}
  BY InstallsComes, ComesFrom, ComesByLink, ComesByWrite, Zenon

LEMMA SurvivesNamed == TypeInv /\ FileInv => OwnerBytesSurvive
<1> SUFFICES ASSUME TypeInv, FileInv PROVE OwnerBytesSurvive OBVIOUS
<1>1. \/ owned \in {Missing, Paths["target"], Paths["stage"], Paths["backup"]}
      \/ fate = "LOST"
      \/ owned = Base /\ (medium = "CONTEXT" \/ record.state \in {"FINALIZING", "FINALIZED"})
  BY Zenon DEF FileInv, Survives
<1>2. owned = Base => kind = "MERGE" BY Zenon DEF FileInv, OwnerWrote
<1> QED BY <1>1, <1>2, HeldOf, PathNames DEF OwnerBytesSurvive

(* The names of the bundle, what they hold, the record and the moment of the *)
(* program agree in every state: the invariant the three theorems rest on. *)
THEOREM FilesAlways == Spec => [](TypeInv /\ Flow /\ FileInv)
  BY InitTyped, NextTyped, InitFlow, NextFlow, InitFiles, NextFiles, PTL DEF Spec

(* What the owner last wrote is under one of the bundle's names in every state, *)
(* whatever the order of his edits, the steps of the publication and its *)
(* crashes; the reviewed base until the approved bytes are being made final in *)
(* its place.  The one exception is what he leaves in the target between the *)
(* second look there and the unlink: the code removes it. *)
THEOREM OwnersBytesSurvive == Spec => []OwnerBytesSurvive
  BY FilesAlways, SurvivesNamed, PTL

(* The approved bytes never replace what the owner wrote after the review. *)
THEOREM ReplacesOnlyTheBase == Spec => InstallReplacesOnlyTheBase
<1>1. TypeInv /\ Flow /\ FileInv /\ TypeInv' /\ [Next]_vars =>
          [Installs => owned \in {Base, Missing}]_vars
  BY InstallsReplace, Zenon
<1> QED BY <1>1, FilesAlways, PTL DEF Spec, InstallReplacesOnlyTheBase

(* Once the write is on record, no step installs the approved bytes again: *)
(* what the owner then removes or changes stays as he left it. *)
THEOREM WrittenOnce == Spec => WrittenIsNotInstalledAgain
<1>1. TypeInv /\ Flow /\ FileInv /\ TypeInv' /\ [Next]_vars =>
          [Installs => record.state \notin {"DISK_WRITTEN", "FINALIZING", "FINALIZED"}]_vars
  BY InstallsReplace, Zenon
<1> QED BY <1>1, FilesAlways, PTL DEF Spec, WrittenIsNotInstalledAgain

====
