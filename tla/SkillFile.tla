------------------------------ MODULE SkillFile ------------------------------
(***************************************************************************)
(* Installing one approved skill file: the compare-and-exchange            *)
(* transaction on the skill's directory, its append-only journal, and the  *)
(* recovery that reads both after a crash.  The owner of the directory     *)
(* edits, replaces and removes files all the time; the process may stop    *)
(* between any two file operations, and in the middle of an append.        *)
(*                                                                         *)
(* A file is a name for an inode, so that a hard link gives one inode two  *)
(* names and an edit in place is seen through both.  The publication root  *)
(* moves until a transaction has a record in it; from then on it and the   *)
(* journal directory keep their identity, and every check of them is part  *)
(* of the check of the bundle directory.  Every operation on the target,   *)
(* which is the owner's as well, is a step of its own.  Observing a stage, *)
(* a claim or a backup and unlinking it right after is one step: nobody    *)
(* else writes them but through the target, where the bytes stay.          *)
(*                                                                         *)
(* A session that has a file system of its own is written through that,    *)
(* with one conditional write and without a journal.                       *)
(***************************************************************************)
EXTENDS PublicationRoot, Sequences

CONSTANTS
    Kinds,        \* the proposal's action: "CREATE", "MERGE"
    MaxEdits,     \* bound: what the owner of the directory does
    MaxCrashes    \* bound: crashes of the process

ASSUME SkillFileAssumption ==
    /\ Kinds \subseteq {"CREATE", "MERGE"}
    /\ MaxEdits \in Nat /\ MaxCrashes \in Nat

(* Contents: the reviewed base, the approved bytes, the transaction's own
   markers, and 1, 2, ... for what the owner writes.                         *)
Base == 0
Approved == -1
ClaimMark == -2
Reservation == -3
Missing == -4
Contents == -3 .. MaxEdits

Path == {"target", "stage", "backup", "claim"}

Codes == {"EXPECTED_ABSENCE_CHANGED", "STAGE_CHANGED", "TARGET_APPEARED",
          "POST_WRITE_MISMATCH", "BASE_CHANGED", "BACKUP_CHANGED", "BACKUP_EXISTS",
          "RENAME_RACE", "BASE_CHANGED_DURING_CUTOVER", "UNKNOWN_STATE",
          "WITHDRAWAL_TARGET_CHANGED", "LAYOUT_ALIAS_APPEARED"}
States == {"ROOT_PREPARED", "TARGET_CLAIMED", "STAGED", "BACKUP_RESERVING",
           "BACKUP_RESERVED", "BACKUP_MOVED", "RECOVERY_BACKUP_MOVED", "DISK_WRITTEN",
           "FINALIZING", "FINALIZED"} \cup Codes

(* The latest valid journal record: its state and the identities it binds,
   0 for one it does not.                                                    *)
NoRecord == [state |-> "NONE", dir |-> 0, stage |-> 0, claim |-> 0, backup |-> 0,
             nonce |-> FALSE, reservation |-> 0]
Record == [state : States \cup {"NONE"}, dir : Nat, stage : Nat, claim : Nat,
           backup : Nat, nonce : BOOLEAN, reservation : Nat]

VARIABLES
    \* the disk
    kind,       \* what was approved
    dir, dirs,  \* the bundle directory's identity, 0 when absent, and how many there were
    name,       \* the inode each path names, 0 for none
    bytes,      \* what each inode holds
    flat,       \* whether <name>.md, the flat form of the same skill, exists
    record,     \* the newest valid journal record
    torn,       \* the states in the names of half-written records after it
    \* the process
    at,         \* its next file operation
    code,       \* the conflict it is about to record
    call,       \* what the coordinator asks next: "publish", "recover", "settled"
    answer,     \* what it was told and has not acted on
    published,  \* whether it remembers the publication it made through the session
    \* history and bounds
    owned,      \* what the owner last left in the target, Missing when he removed it
    fate,       \* "EXPOSED" if he did between a look there and an unlink, "LOST" by it
    edits,
    crashes

disk == <<scope, medium, tree, kind, dir, dirs, name, bytes, flat, record, torn>>
process == <<at, code, call, answer, published, binding>>
vars == <<disk, process, owned, fate, edits, crashes>>
environment == <<scope, medium, kind, flat, owned, edits, crashes>>

Init ==
    /\ kind \in Kinds /\ InitRoot(kind = "MERGE")
    /\ IF kind = "MERGE"
       THEN dir = 1 /\ dirs = 1 /\ bytes = <<Base>> /\ owned = Base
            /\ name = [p \in Path |-> IF p = "target" THEN 1 ELSE 0]
       ELSE dir = 0 /\ dirs = 0 /\ bytes = << >> /\ owned = Missing
            /\ name = [p \in Path |-> 0]
    /\ flat = FALSE
    /\ record = NoRecord /\ torn = {}
    /\ at = "idle" /\ code = "NONE" /\ call = "publish" /\ answer = "NONE"
    /\ published = FALSE
    /\ fate = "SAFE" /\ edits = 0 /\ crashes = 0

----
(* Reading the disk.                                                         *)
Held(p) == IF name[p] = 0 THEN Missing ELSE bytes[name[p]]
Matches(p, id, content) == name[p] # 0 /\ name[p] = id /\ bytes[id] = content
Bound == dir # 0 /\ dir = record.dir

(* A file of the transaction may be unlinked if it is still the one it made. *)
Mine(p) ==
    \/ name[p] = 0
    \/ p = "stage" /\ Matches(p, record.stage, Approved)
    \/ p = "claim" /\ Matches(p, record.claim, ClaimMark)
    \/ p = "backup" /\ Matches(p, record.backup, Base)

----
(* How a step ends.                                                          *)
Binding == {"prepare", "segment", "ancestor", "parity", "settle", "look", "begin"}
Forget(pc) == binding' = IF pc \in Binding THEN binding ELSE NoBinding
Goto(pc) == at' = pc /\ Forget(pc) /\ UNCHANGED <<code, call, answer, published>>
Say(a) == at' = "idle" /\ code' = "NONE" /\ answer' = a /\ Forget("idle") /\ UNCHANGED <<call, published>>
Throw == Say("UNAVAILABLE")
Fail(c) == at' = "conflict" /\ code' = c /\ Forget("conflict") /\ UNCHANGED <<call, answer, published>>
Bind(pc, b) == at' = pc /\ binding' = b /\ UNCHANGED <<code, call, answer, published>>
SameDisk == UNCHANGED <<tree, dir, dirs, name, bytes, record, torn>>
SameFiles == UNCHANGED <<tree, dir, dirs, name, bytes>>
SameRecord == UNCHANGED <<record, torn>>

(* The append is exclusive by file name, which holds the sequence number and
   the state: a half-written record of the same state is in its way.         *)
Journal(s, r, pc) ==
    IF s \in torn THEN Throw /\ SameRecord
    ELSE record' = [r EXCEPT !.state = s] /\ torn' = {} /\ Goto(pc)

(* Unlink what the transaction owns, or refuse. *)
Unlinked(ps) == [p \in Path |-> IF p \in ps THEN 0 ELSE name[p]]
Tidy(ps, Then) ==
    IF \A p \in ps : Mine(p)
    THEN name' = Unlinked(ps) /\ Then
    ELSE UNCHANGED name /\ Throw
Scratch == {"stage", "claim"}

Made(p, content) ==
    /\ bytes' = Append(bytes, content)
    /\ name' = [name EXCEPT ![p] = Len(bytes) + 1]

Here(pc) == at = pc /\ UNCHANGED environment
At(pc) == Here(pc) /\ UNCHANGED fate

----
(* The coordinator asks, and acts on the answer.                             *)
Ask ==
    /\ At("idle") /\ answer = "NONE" /\ call # "settled"
    /\ \E b \in Resolutions :
         IF b # "READY" THEN Say(b)
         ELSE IF published THEN Say("PUBLISHED")
         ELSE IF medium = "DISK" THEN Bind("prepare", Observed)
         ELSE Goto("key")
    /\ SameDisk

(* A write of what the answer means may fail: then the attempt is recovered. *)
Act ==
    /\ At("idle") /\ answer # "NONE"
    /\ CASE answer = "UNAVAILABLE" -> call' = "recover"
         [] answer = "ABSENT" -> call' \in {"publish", "settled"}
         [] OTHER -> call' \in {"recover", "settled"}
    /\ answer' = "NONE"
    /\ UNCHANGED <<at, code, published, binding>> /\ SameDisk

----
(* The publication root, from its binding to the directory it names.         *)
Prepare ==
    /\ At("prepare")
    /\ IF ~AncestorHolds THEN Throw
       ELSE IF binding.depth < 2 THEN Goto("segment")
       ELSE Bind("parity", [binding EXCEPT !.root = binding.id])
    /\ SameDisk

Segment ==
    /\ At("segment")
    /\ IF Passable
       THEN /\ tree' = WithLevel
            /\ Bind(IF NextLevel = 2 THEN "ancestor" ELSE "segment",
                    [binding EXCEPT !.reached = NextLevel])
       ELSE UNCHANGED tree /\ Throw
    /\ UNCHANGED <<dir, dirs, name, bytes>> /\ SameRecord

(* Mutant of Ancestor: what is above the new directories is not read again. *)
AncestorUnread ==
    /\ At("ancestor")
    /\ IF Ready THEN Bind("parity", [binding EXCEPT !.root = tree[2]]) ELSE Throw
    /\ SameDisk
Ancestor ==
    /\ At("ancestor")
    /\ IF AncestorHolds /\ Ready THEN Bind("parity", [binding EXCEPT !.root = tree[2]])
       ELSE Throw
    /\ SameDisk

(* The provider is asked again and must name the prepared directory. *)
Parity ==
    /\ At("parity")
    /\ \E b \in Resolutions : IF b = "READY" /\ RootHolds THEN Goto("settle") ELSE Throw
    /\ SameDisk

Settle ==
    /\ At("settle")
    /\ IF RootHolds THEN Goto("look") ELSE Throw
    /\ SameDisk

----
(* Where the attempt stands: read everything, then go on from there.         *)
Verified ==
    /\ dir # 0 /\ Held("target") = Approved
    /\ \A p \in Path \ {"target"} : name[p] = 0
Installed == Matches("target", record.stage, Approved)
StageReady == Matches("stage", record.stage, Approved)

(* The registry sees the skill some time after it is there. *)
Confirmed(yes) == yes \in BOOLEAN /\ (yes => Held("target") = Approved)

LookFinal ==
    \E yes \in BOOLEAN : Confirmed(yes) /\ Say(IF Verified /\ yes THEN "PUBLISHED" ELSE "UNAVAILABLE")

(* The base that was reviewed is still there to be read. *)
BaseIsReadable == Held("target") = Base

LookNew ==
    IF call = "recover" THEN Say("ABSENT")
    ELSE IF (kind = "CREATE" /\ flat) \/ (kind = "MERGE" /\ ~BaseIsReadable)
    THEN Say("CONFLICT")
    ELSE Goto("begin")

LookCreate ==
    LET strange == \/ Held("target") \notin {Missing, Approved}
                   \/ ~Mine("stage") \/ ~Mine("claim")
        ready == name["target"] = 0 /\ StageReady /\ name["claim"] # 0
    IN  IF strange THEN Fail("UNKNOWN_STATE")
        ELSE IF Installed THEN Goto("tidy")
        ELSE IF ready THEN Goto("relink")
        ELSE Fail("UNKNOWN_STATE")

LookMerge ==
    LET backup == Held("backup")
        strange ==
            \/ Held("target") \notin {Missing, Base, Approved}
            \/ ~Mine("stage")
            \/ backup \notin {Missing, Base, Reservation}
            \/ backup = Base /\ record.backup \notin {0, name["backup"]}
            \/ backup = Reservation
               /\ (~record.nonce \/ record.reservation \notin {0, name["backup"]})
        before == Held("target") = Base /\ backup \in {Missing, Reservation} /\ name["stage"] # 0
        moved == name["target"] = 0 /\ backup = Base /\ StageReady
    IN  IF record.state = "FINALIZING" /\ Installed /\ name["stage"] = 0 /\ name["backup"] = 0
        THEN Goto("confirm")
        ELSE IF strange THEN Fail("UNKNOWN_STATE")
        ELSE IF Installed /\ Matches("backup", record.backup, Base) THEN Goto("tidy")
        ELSE IF before
        THEN IF backup = Missing THEN Goto(IF record.nonce THEN "rereserve" ELSE "rereserving")
             ELSE IF record.reservation = 0 THEN Fail("UNKNOWN_STATE")
             ELSE Goto("remove")
        ELSE IF moved THEN Goto(IF record.backup = 0 THEN "removed" ELSE "relink")
        ELSE Fail("UNKNOWN_STATE")

Look ==
    /\ At("look")
    /\ IF ~Ready THEN Throw
       ELSE IF record.state = "NONE" THEN LookNew
       ELSE IF record.state = "FINALIZED" THEN LookFinal
       ELSE IF ~Bound THEN Throw
       ELSE IF kind = "CREATE" THEN LookCreate
       ELSE LookMerge
    /\ SameDisk

----
(* A new transaction, up to the staged bytes.                                *)
FirstRecord(bundle, pc) == Journal("ROOT_PREPARED", [NoRecord EXCEPT !.dir = bundle], pc)
BeginCreate == FirstRecord(0, "mkdir")
BeginMerge == IF dir = 0 THEN Throw /\ SameRecord ELSE FirstRecord(dir, "stage")

Begin ==
    /\ At("begin")
    /\ IF ~RootHolds THEN Throw /\ SameRecord
       ELSE IF kind = "CREATE" THEN BeginCreate
       ELSE BeginMerge
    /\ SameFiles

Mkdir ==
    /\ At("mkdir")
    /\ IF dir = 0
       THEN dirs' = dirs + 1 /\ dir' = dirs + 1 /\ Goto("claiming")
       ELSE Fail("EXPECTED_ABSENCE_CHANGED") /\ UNCHANGED <<dir, dirs>>
    /\ UNCHANGED <<tree, name, bytes>> /\ SameRecord

Claiming ==
    /\ At("claiming")
    /\ IF dir = 0 THEN Throw /\ SameRecord
       ELSE Journal("TARGET_CLAIMED", [record EXCEPT !.dir = dir], "claim")
    /\ SameFiles

WriteScratch(pc, p, content, next) ==
    /\ At(pc)
    /\ IF ~Bound THEN Throw /\ UNCHANGED <<name, bytes>>
       ELSE Made(p, content) /\ Goto(next)
    /\ UNCHANGED <<tree, dir, dirs>> /\ SameRecord
Claim == WriteScratch("claim", "claim", ClaimMark, "stage")
Stage == WriteScratch("stage", "stage", Approved, "staged")

Staged ==
    /\ At("staged")
    /\ IF name["stage"] = 0 THEN Throw /\ SameRecord
       ELSE Journal("STAGED", [record EXCEPT !.stage = name["stage"], !.claim = name["claim"]],
                    IF kind = "CREATE" THEN "install" ELSE "base")
    /\ SameFiles

----
(* Merging moves the base aside first, onto a file reserved for it.          *)
CheckBase ==
    /\ At("base")
    /\ IF Held("target") # Base THEN Tidy({"stage"}, Fail("BASE_CHANGED"))
       ELSE Goto("reserving") /\ UNCHANGED name
    /\ UNCHANGED <<tree, dir, dirs, bytes>> /\ SameRecord

Reserving ==
    /\ At("reserving")
    /\ IF ~Bound THEN Throw /\ SameRecord
       ELSE IF ~StageReady THEN Fail("STAGE_CHANGED") /\ SameRecord
       ELSE Journal("BACKUP_RESERVING", [record EXCEPT !.nonce = TRUE], "reserve")
    /\ SameFiles

Reserve ==
    /\ At("reserve")
    /\ IF dir = 0 THEN Throw /\ UNCHANGED <<name, bytes>>
       ELSE IF name["backup"] # 0 THEN Tidy({"stage"}, Fail("BACKUP_EXISTS")) /\ UNCHANGED bytes
       ELSE Made("backup", Reservation) /\ Goto("reserved")
    /\ UNCHANGED <<tree, dir, dirs>> /\ SameRecord

Reserved(pc, next) ==
    /\ At(pc)
    /\ IF Held("backup") # Reservation THEN Fail("BACKUP_CHANGED") /\ SameRecord
       ELSE Journal("BACKUP_RESERVED", [record EXCEPT !.reservation = name["backup"]], next)
    /\ SameFiles

Renamed == [name EXCEPT !["backup"] = name["target"], !["target"] = 0]
ReservationHolds == Matches("backup", record.reservation, Reservation)

Move ==
    /\ At("move")
    /\ IF ~Bound THEN Throw /\ UNCHANGED name
       ELSE IF ~ReservationHolds THEN Tidy({"stage"}, Fail("BACKUP_CHANGED"))
       ELSE IF name["target"] = 0 THEN Tidy({"stage"}, Fail("RENAME_RACE"))
       ELSE name' = Renamed /\ Goto("moved")
    /\ UNCHANGED <<tree, dir, dirs, bytes>> /\ SameRecord

(* What was moved aside is put back before the conflict is recorded. *)
PutBack(c) == at' = "restore" /\ code' = c /\ Forget("restore") /\ UNCHANGED <<call, answer, published>>

(* Mutant of Moved: what was moved aside is not read. *)
MovedUnread ==
    /\ At("moved")
    /\ Journal("BACKUP_MOVED", [record EXCEPT !.backup = name["backup"]], "install")
    /\ SameFiles
Moved ==
    /\ At("moved")
    /\ IF Held("backup") = Base
       THEN Journal("BACKUP_MOVED", [record EXCEPT !.backup = name["backup"]], "install")
       ELSE PutBack("BASE_CHANGED_DURING_CUTOVER") /\ SameRecord
    /\ SameFiles

(* The link back, unless something else is in the place: then both stay. *)
Restored == IF name["target"] # 0 THEN name ELSE [name EXCEPT !["target"] = name["backup"]]
Afterwards == IF code = "BASE_CHANGED_DURING_CUTOVER" THEN "drop" ELSE "conflict"

Restore ==
    /\ At("restore")
    /\ IF ~Bound \/ name["backup"] = 0 THEN Throw /\ UNCHANGED name
       ELSE name' = Restored /\ Goto(IF name["target"] # 0 THEN Afterwards ELSE "release")
    /\ UNCHANGED <<tree, dir, dirs, bytes>> /\ SameRecord

Release ==
    /\ At("release")
    /\ IF ~Bound \/ name["backup"] = 0 THEN Throw /\ UNCHANGED name
       ELSE name' = Unlinked({"backup"}) /\ Goto(Afterwards)
    /\ UNCHANGED <<tree, dir, dirs, bytes>> /\ SameRecord

(* The stage goes before the conflict is recorded. *)
Drop ==
    /\ At("drop")
    /\ Tidy({"stage"}, Fail(code))
    /\ UNCHANGED <<tree, dir, dirs, bytes>> /\ SameRecord

----
(* The stage becomes the target by a link that replaces nothing.             *)
Linked == [name EXCEPT !["target"] = name["stage"]]

InstallOr(scratch, WithoutStage) ==
    IF ~Bound THEN Throw /\ UNCHANGED name
    ELSE IF ~StageReady THEN WithoutStage /\ UNCHANGED name
    ELSE IF name["target"] # 0 THEN Tidy(scratch, Fail("TARGET_APPEARED"))
    ELSE name' = Linked /\ Goto("check")
InstallNew == InstallOr(Scratch, Fail("STAGE_CHANGED"))
InstallMerged == InstallOr({"stage"}, PutBack("STAGE_CHANGED"))

Install ==
    /\ At("install")
    /\ IF kind = "CREATE" THEN InstallNew ELSE InstallMerged
    /\ UNCHANGED <<tree, dir, dirs, bytes>> /\ SameRecord

Check ==
    /\ At("check")
    /\ IF ~Bound THEN Throw ELSE IF Installed THEN Goto("tidy") ELSE Goto("preserve")
    /\ SameDisk

(* The target is looked at, and unlinked in a later step. *)
Gap == {"rebind", "dislodge", "withdrawing"}
LookedAt(pc, next) ==
    /\ Here(pc) /\ Goto(next)
    /\ fate' = IF fate = "EXPOSED" THEN "SAFE" ELSE fate
    /\ SameDisk
UnlinkTarget(pc, Then) ==
    /\ Here(pc)
    /\ IF name["target"] = 0 THEN Throw /\ UNCHANGED <<name, fate>>
       ELSE /\ name' = Unlinked({"target"}) /\ Then
            /\ fate' = IF fate = "EXPOSED" /\ \A p \in Path \ {"target"} : Held(p) # owned
                       THEN "LOST" ELSE fate
    /\ UNCHANGED <<tree, dir, dirs, bytes>> /\ SameRecord

(* Something else came between.  What was installed is withdrawn, if a second look
   finds it is what is there; a merge then puts the base back.  What the owner
   leaves in the target after that look is what the unlink removes.          *)
Preserve ==
    IF name["target"] # 0 /\ name["target"] = record.stage THEN LookedAt("preserve", "rebind")
    ELSE At("preserve") /\ Fail("POST_WRITE_MISMATCH") /\ SameDisk

Rebind ==
    /\ At("rebind")
    /\ IF Bound THEN Goto("dislodge") ELSE Throw
    /\ SameDisk

Dislodge ==
    UnlinkTarget("dislodge", IF kind = "CREATE" THEN Fail("POST_WRITE_MISMATCH")
                             ELSE PutBack("POST_WRITE_MISMATCH"))

(* Mutant of TidyUp: the stage is left behind. *)
TidyUpKeepsStage ==
    /\ At("tidy")
    /\ IF ~Bound THEN Throw /\ UNCHANGED name
       ELSE Tidy({"claim"}, Goto("written"))
    /\ UNCHANGED <<tree, dir, dirs, bytes>> /\ SameRecord
TidyUp ==
    /\ At("tidy")
    /\ IF ~Bound THEN Throw /\ UNCHANGED name
       ELSE Tidy(Scratch, Goto("written"))
    /\ UNCHANGED <<tree, dir, dirs, bytes>> /\ SameRecord

Written ==
    /\ At("written")
    /\ IF record.state = "DISK_WRITTEN" THEN Goto("confirm") /\ SameRecord
       ELSE Journal("DISK_WRITTEN", record, "confirm")
    /\ SameFiles

Conflict ==
    /\ At("conflict")
    /\ IF record.state = code THEN Say("CONFLICT") /\ SameRecord
       ELSE IF code \in torn THEN Throw /\ SameRecord
       ELSE record' = [record EXCEPT !.state = code] /\ torn' = {} /\ Say("CONFLICT")
    /\ SameFiles

----
(* Recovery continues a transaction that stopped before its link.            *)
Rereserving ==
    /\ At("rereserving")
    /\ Journal("BACKUP_RESERVING", [record EXCEPT !.nonce = TRUE], "rereserve")
    /\ SameFiles

Rereserve ==
    /\ At("rereserve")
    /\ IF dir = 0 THEN Throw /\ UNCHANGED <<name, bytes>>
       ELSE IF name["backup"] # 0 THEN Fail("BACKUP_EXISTS") /\ UNCHANGED <<name, bytes>>
       ELSE Made("backup", Reservation) /\ Goto("rereserved")
    /\ UNCHANGED <<tree, dir, dirs>> /\ SameRecord

Remove ==
    /\ At("remove")
    /\ IF ~Bound \/ name["target"] = 0 THEN Throw /\ UNCHANGED name
       ELSE IF ~ReservationHolds THEN Fail("BACKUP_CHANGED") /\ UNCHANGED name
       ELSE name' = Renamed /\ Goto("removed")
    /\ UNCHANGED <<tree, dir, dirs, bytes>> /\ SameRecord

Removed ==
    /\ At("removed")
    /\ IF Held("backup") # Base THEN Fail("UNKNOWN_STATE") /\ SameRecord
       ELSE Journal("RECOVERY_BACKUP_MOVED", [record EXCEPT !.backup = name["backup"]], "relink")
    /\ SameFiles

Relink ==
    /\ At("relink")
    /\ IF ~Bound \/ name["stage"] = 0 THEN Throw /\ UNCHANGED name
       ELSE Goto("recheck") /\ name' = IF name["target"] = 0 THEN Linked ELSE name
    /\ UNCHANGED <<tree, dir, dirs, bytes>> /\ SameRecord

Recheck ==
    /\ At("recheck")
    /\ IF ~Bound THEN Throw ELSE IF Installed THEN Goto("tidy") ELSE Fail("UNKNOWN_STATE")
    /\ SameDisk

----
(* From the written file to the final record.                                *)
Confirm ==
    /\ At("confirm")
    /\ \E yes \in BOOLEAN :
         /\ Confirmed(yes)
         /\ IF kind = "CREATE" /\ flat THEN Goto("withdraw")
            ELSE IF yes THEN Goto("finalizing")
            ELSE Throw
    /\ SameDisk

(* A flat skill of the same name appeared: the created bundle goes away. *)
Withdraw ==
    /\ At("withdraw")
    /\ IF Bound THEN Goto("match") ELSE Throw
    /\ SameDisk

(* Mutant of Match: any file in the place is taken for the installed one. *)
MatchAny ==
    IF name["target"] # 0 THEN LookedAt("match", "withdrawing")
    ELSE At("match") /\ Fail("WITHDRAWAL_TARGET_CHANGED") /\ SameDisk
Match ==
    IF Installed THEN LookedAt("match", "withdrawing")
    ELSE At("match") /\ Fail("WITHDRAWAL_TARGET_CHANGED") /\ SameDisk

Withdrawing == UnlinkTarget("withdrawing", Goto("rmdir"))

Rmdir ==
    /\ At("rmdir")
    /\ IF ~Bound \/ (\E p \in Path : name[p] # 0) THEN Throw /\ UNCHANGED dir
       ELSE dir' = 0 /\ Fail("LAYOUT_ALIAS_APPEARED")
    /\ UNCHANGED <<tree, dirs, name, bytes>> /\ SameRecord

Finalizing ==
    /\ At("finalizing")
    /\ IF \/ ~Bound \/ ~Installed
          \/ kind = "MERGE" /\ record.state # "FINALIZING" /\ ~Matches("backup", record.backup, Base)
       THEN Throw /\ SameRecord
       ELSE IF record.state = "FINALIZING" THEN Goto("final") /\ SameRecord
       ELSE Journal("FINALIZING", record, "final")
    /\ SameFiles

Final ==
    /\ At("final")
    /\ IF ~Bound THEN Throw /\ UNCHANGED name
       ELSE Tidy({"stage", IF kind = "CREATE" THEN "claim" ELSE "backup"}, Goto("finalized"))
    /\ UNCHANGED <<tree, dir, dirs, bytes>> /\ SameRecord

(* Mutant of Finalized: the answer is given before the record. *)
FinalizedUnrecorded ==
    /\ At("finalized") /\ Say("PUBLISHED")
    /\ SameFiles /\ SameRecord
Finalized ==
    /\ At("finalized")
    /\ IF "FINALIZED" \in torn THEN Throw /\ SameRecord
       ELSE record' = [record EXCEPT !.state = "FINALIZED"] /\ torn' = {} /\ Say("PUBLISHED")
    /\ SameFiles

----
(* The session's own file system.  The bound root must still resolve to what it
   did: a link in its place does not.                                        *)
Key ==
    /\ At("key")
    /\ IF Link \in {tree[1], tree[2]} THEN Say("STALE") ELSE Goto("read")
    /\ SameDisk

Expected == IF kind = "CREATE" THEN Missing ELSE Base

Read ==
    /\ At("read")
    /\ IF flat THEN Say("CONFLICT")
       ELSE IF call = "publish"
       THEN IF Held("target") = Expected THEN Goto("write") ELSE Say("CONFLICT")
       ELSE IF Held("target") = Missing THEN Say("ABSENT")
       ELSE IF Held("target") = Approved THEN Goto("readback")
       ELSE Say("CONFLICT")
    /\ SameDisk

(* One conditional write: it replaces the version that was read or nothing, and
   makes the directories it needs.  Its answer may be lost, with it or without;
   the sandbox lets nothing through a link.                                  *)
WriteText ==
    /\ tree' = Filled
    /\ IF dir = 0 THEN dirs' = dirs + 1 /\ dir' = dirs + 1 ELSE UNCHANGED <<dir, dirs>>
    /\ Made("target", Approved)
    /\ Goto("reread") \/ Throw
Write ==
    /\ At("write")
    /\ IF Link \in {tree[1], tree[2]} THEN Throw /\ SameFiles
       ELSE IF Held("target") # Expected THEN Say("CONFLICT") /\ SameFiles
       ELSE WriteText \/ (Throw /\ SameFiles)
    /\ SameRecord

Reread ==
    /\ At("reread")
    /\ IF Held("target") = Approved /\ ~flat THEN Goto("readback") ELSE Say("CONFLICT")
    /\ SameDisk

Readback ==
    /\ At("readback")
    /\ \E yes \in BOOLEAN :
         /\ Confirmed(yes)
         /\ at' = "idle" /\ answer' = (IF yes THEN "PUBLISHED" ELSE "UNAVAILABLE")
         /\ published' = yes
    /\ UNCHANGED <<code, call, binding>> /\ SameDisk

----
(* The owner of the directory, and crashes.                                  *)
Edit ==
    /\ edits < MaxEdits /\ edits' = edits + 1
    /\ UNCHANGED <<scope, medium, kind, record, process, crashes>>
Owner == Ready /\ Edit /\ UNCHANGED <<tree, torn>>
Left(content) ==
    /\ owned' = content
    /\ fate' = IF content # Missing /\ at \in Gap THEN "EXPOSED" ELSE "SAFE"

EditInPlace ==
    /\ Owner /\ name["target"] # 0
    /\ bytes' = [bytes EXCEPT ![name["target"]] = edits + 1] /\ Left(edits + 1)
    /\ UNCHANGED <<dir, dirs, name, flat>>

(* An editor that saves through a new file; also the first file of a directory. *)
Save ==
    /\ Owner
    /\ IF dir = 0 THEN dirs' = dirs + 1 /\ dir' = dirs + 1 ELSE UNCHANGED <<dir, dirs>>
    /\ Made("target", edits + 1) /\ Left(edits + 1)
    /\ UNCHANGED flat

Delete ==
    /\ Owner /\ name["target"] # 0
    /\ name' = Unlinked({"target"}) /\ Left(Missing)
    /\ UNCHANGED <<dir, dirs, bytes, flat>>

DeleteBundle ==
    /\ Owner /\ dir # 0
    /\ dir' = 0 /\ name' = Unlinked(Path) /\ Left(Missing)
    /\ UNCHANGED <<dirs, bytes, flat>>

ToggleFlat ==
    /\ Owner /\ kind = "CREATE" /\ flat' = ~flat
    /\ UNCHANGED <<dir, dirs, name, bytes, owned, fate>>

(* A directory of the path is moved away, replaced, linked or made: what was in
   it is gone.  Bound: not once the transaction has a record in it.          *)
MoveRoot ==
    /\ Edit /\ record.state = "NONE" /\ tree' \in MovedTrees
    /\ dir' = 0 /\ name' = Unlinked(Path) /\ Left(Missing) /\ flat' = FALSE /\ torn' = {}
    /\ UNCHANGED <<dirs, bytes>>

(* What an append in progress would have been called. *)
Writing ==
    CASE at = "begin" /\ RootHolds -> {"ROOT_PREPARED"}
      [] at = "claiming" -> {"TARGET_CLAIMED"}
      [] at = "staged" -> {"STAGED"}
      [] at \in {"reserving", "rereserving"} -> {"BACKUP_RESERVING"}
      [] at \in {"reserved", "rereserved"} -> {"BACKUP_RESERVED"}
      [] at = "moved" /\ Held("backup") = Base -> {"BACKUP_MOVED"}
      [] at = "removed" /\ Held("backup") = Base -> {"RECOVERY_BACKUP_MOVED"}
      [] at = "written" -> {"DISK_WRITTEN"} \ {record.state}
      [] at = "conflict" -> {code} \ {record.state}
      [] at = "finalizing" -> {"FINALIZING"} \ {record.state}
      [] at = "finalized" -> {"FINALIZED"}
      [] OTHER -> {}

Crash ==
    /\ crashes < MaxCrashes /\ crashes' = crashes + 1
    /\ call # "settled" /\ call' = "recover"
    /\ at' = "idle" /\ code' = "NONE" /\ answer' = "NONE"
    /\ published' = FALSE /\ binding' = NoBinding
    /\ torn' = torn \/ \E s \in Writing : torn' = torn \cup {s}
    /\ UNCHANGED <<scope, medium, tree, kind, dir, dirs, name, bytes, flat, record, owned, fate, edits>>

----
Root == Prepare \/ Segment \/ Ancestor \/ Parity \/ Settle
Context == Key \/ Read \/ Write \/ Reread \/ Readback
Create == Mkdir \/ Claiming \/ Claim
Merge == CheckBase \/ Reserving \/ Reserve \/ Reserved("reserved", "move") \/ Move \/ Moved
         \/ Restore \/ Release \/ Drop
Both == Begin \/ Stage \/ Staged \/ Install \/ Check \/ Preserve \/ Rebind \/ Dislodge
        \/ TidyUp \/ Written \/ Conflict
Recover == Rereserving \/ Rereserve \/ Reserved("rereserved", "remove") \/ Remove \/ Removed
           \/ Relink \/ Recheck
Close == Confirm \/ Withdraw \/ Match \/ Withdrawing \/ Rmdir \/ Finalizing \/ Final \/ Finalized
Process == Ask \/ Act \/ Root \/ Context \/ Look \/ Create \/ Merge \/ Both \/ Recover \/ Close
Environment == EditInPlace \/ Save \/ Delete \/ DeleteBundle \/ ToggleFlat \/ MoveRoot \/ Crash

Next == Process \/ Environment
Spec == Init /\ [][Next]_vars
----
Pcs == Binding \cup
       {"idle", "key", "read", "write", "reread", "readback", "mkdir", "claiming", "claim", "stage", "staged", "base",
        "reserving", "reserve", "reserved", "move", "moved", "restore", "release", "drop", "install", "check",
        "preserve", "rebind", "dislodge",
        "tidy", "written", "conflict", "rereserving", "rereserve", "rereserved", "remove",
        "removed", "relink", "recheck", "confirm", "withdraw", "match",
        "withdrawing", "rmdir", "finalizing",
        "final", "finalized"}
Answers == {"NONE", "PUBLISHED", "ABSENT", "CONFLICT", "STALE", "UNAVAILABLE"}

(* Types of the variables. *)
TypeOK ==
    /\ scope \in Scopes /\ medium \in Media
    /\ tree \in [Levels -> Nat \cup {Link}]
    /\ binding \in [depth : 0 .. 2, id : Nat, reached : 0 .. 2, root : Nat]
    /\ kind \in {"CREATE", "MERGE"} /\ dir \in Nat /\ dirs \in Nat
    /\ bytes \in Seq(Contents) /\ name \in [Path -> 0 .. Len(bytes)] /\ flat \in BOOLEAN
    /\ record \in Record /\ torn \subseteq States
    /\ at \in Pcs /\ code \in Codes \cup {"NONE"}
    /\ published \in BOOLEAN /\ call \in {"publish", "recover", "settled"} /\ answer \in Answers
    /\ owned \in Contents \cup {Missing} /\ fate \in {"SAFE", "EXPOSED", "LOST"} /\ edits \in Nat /\ crashes \in Nat

(* What the owner last wrote is destroyed in one way only: he left it in the target
   between the program's second look there and the unlink that follows
   (filesystem-cas.mjs 647-650 and 1205-1208, two awaits each).  Otherwise it stays
   readable under one of the bundle's names: through every move aside, link back,
   withdrawal and cleanup, in a first attempt or a recovered one, and the reviewed
   base until the approved bytes are being made final over it.               *)
OwnerBytesSurvive ==
    \/ owned = Missing
    \/ \E p \in Path : Held(p) = owned
    \/ fate = "LOST"
    \/ owned = Base /\ record.state \in {"FINALIZING", "FINALIZED"}
    \/ owned = Base /\ medium = "CONTEXT" /\ kind = "MERGE"

Installs == name["target"] # name'["target"] /\ name'["target"] # 0
            /\ bytes'[name'["target"]] = Approved

(* The approved bytes take the place of the reviewed base or of nothing, never
   of something the owner has written since the review, in a first attempt or
   in a recovered one (mergeBundle, recoverTransaction).                      *)
InstallReplacesOnlyTheBase == [][Installs => owned \in {Base, Missing}]_vars

(* A skill whose write is on record and that its owner then removes or changes
   is not written again by a recovery or a retry.                             *)
WrittenIsNotInstalledAgain ==
    [][Installs => record.state \notin {"DISK_WRITTEN", "FINALIZING", "FINALIZED"}]_vars

(* A transaction is opened only where the approved binding leads: the directory
   that was there when the root was bound is still there when the first record
   is written, whatever was made below it and however the path moved meanwhile
   (preparePublicationRoot, rootPreparationMatches).                          *)
OpensWhereApproved ==
    [][record.state = "NONE" /\ record'.state # "NONE" => AncestorHolds]_vars

(* The answers keep the promise the coordinator builds on. *)
DiskOf == IF medium = "CONTEXT" \/ record.state = "NONE" THEN "UNTOUCHED"
          ELSE IF record.state = "FINALIZED" THEN "FINAL" ELSE "OPEN"
AnswerOf == IF medium = "CONTEXT" THEN "NONE" ELSE answer
Attempt == INSTANCE PublicationAttempt
           WITH Nothing <- "NONE", disk <- DiskOf, answer <- AnswerOf
ImplementsAttempt == Attempt!Spec
====
