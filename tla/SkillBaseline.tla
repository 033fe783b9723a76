--------------------------- MODULE SkillBaseline ---------------------------
(***************************************************************************)
(* The baseline of the skills a session sees (DshV2RootManifestAdapter):   *)
(* the skill roots are walked, the runtime's catalog is observed with the  *)
(* files behind it, twice, and the roots are walked again.  The baseline   *)
(* is complete only when both walks, and both observations, agree.         *)
(*                                                                         *)
(* Meanwhile anybody writes and deletes skill files, and the runtime scans *)
(* its roots when it likes.  Without a context file system a file is a     *)
(* stream that is read piece by piece; with one, every listing and every   *)
(* file is read between two looks at its version.                          *)
(***************************************************************************)
EXTENDS Naturals, Sequences, FiniteSets

CONSTANTS
    Roots,    \* the roots in the order of their ranks
    FilesOf,  \* the files a root may hold
    Names,    \* the names of skills
    MaxEdits  \* bound: the writes and deletions

None == "none"

(* The roots are different directories, all of them walked, and a skill has a
   name.                                                                     *)
ASSUME RootsAssumption ==
    /\ Roots \in Seq(DOMAIN FilesOf) /\ Roots # << >> /\ MaxEdits \in Nat
    /\ \A r \in DOMAIN FilesOf : \E k \in DOMAIN Roots : Roots[k] = r
    /\ \A k, i \in DOMAIN Roots : Roots[k] = Roots[i] => k = i
    /\ \A a, b \in DOMAIN FilesOf : a # b => FilesOf[a] \cap FilesOf[b] = {}
    /\ None \notin Names

Root == DOMAIN FilesOf
File == UNION {FilesOf[r] : r \in Root}

(* A file has a head, with the name in it, and a body; a write is told by its
   number.  No write brings back earlier bytes.                              *)
Content(skill, w) == [skill |-> skill, head |-> w, body |-> w]
Absent == Content(None, 0)
Torn(a, b) == [a EXCEPT !.body = b.body]

VARIABLES
    disk,      \* the files
    listing,   \* a root's version: its listing changes with its files
    edits,     \* of MaxEdits
    registry,  \* what the runtime found when it last scanned its roots
    port,      \* what the session gives: a context file system, paths in the summaries
    job,       \* the capture
    history,   \* the files when the first walk ended, and those edited since the capture began
    baseline   \* what the capture returned

world == <<disk, listing, edits>>
vars == <<world, registry, port, job, history, baseline>>

At(step) == job.at = step
Exists(f) == disk[f] # Absent
Present(r) == {f \in FilesOf[r] : Exists(f)}
Claims(f, n) == disk[f].skill = n

----
(* The world around the capture, which is left alone once the capture ended. *)
Put(f, content) ==
    /\ edits < MaxEdits /\ edits' = edits + 1 /\ ~At("DONE")
    /\ disk' = [disk EXCEPT ![f] = content]
    /\ history' = [history EXCEPT !.touched = @ \cup {f}]
    /\ listing' = [r \in Root |-> IF f \in FilesOf[r] /\ (~Exists(f) \/ content = Absent)
                                  THEN listing[r] + 1 ELSE listing[r]]
    /\ UNCHANGED <<registry, port, job, baseline>>

Write(f) == \E n \in Names \cup {None} : Put(f, Content(n, edits + 1))
Delete(f) == Exists(f) /\ Put(f, Absent)

(* The runtime takes a skill from the first root that has it. *)
Rank(r) == CHOOSE k \in DOMAIN Roots : Roots[k] = r
Claimants(n) == {c \in Root \X File : c[2] \in FilesOf[c[1]] /\ Claims(c[2], n)}
Winners(n) == {c \in Claimants(n) : \A d \in Claimants(n) : Rank(c[1]) <= Rank(d[1])}
Rescan ==
    /\ \E w \in [Names -> Root \X File \cup {<<None, None>>}] :
         /\ \A n \in Names : IF Winners(n) = {} THEN w[n] = <<None, None>> ELSE w[n] \in Winners(n)
         /\ registry' = {[name |-> n, root |-> w[n][1], file |-> w[n][2]] :
                           n \in {m \in Names : Winners(m) # {}}}
    /\ registry' # registry /\ ~At("DONE")
    /\ UNCHANGED <<world, port, job, history, baseline>>

----
(* The capture, await by await.                                              *)
NoWalk == [state |-> [r \in Root |-> "ABSENT"], entries |-> [f \in File |-> Absent]]
NoPass == [view |-> {}, found |-> {}]
Unavailable == [complete |-> FALSE, manifest |-> NoWalk, candidates |-> {}]

NoJob == [at |-> "IDLE", round |-> 0, k |-> 0, version |-> 0, listed |-> {}, todo |-> {},
          file |-> None, look |-> Absent, walk |-> NoWalk, first |-> NoWalk,
          rest |-> {}, index |-> {}, pass |-> NoPass, earlier |-> NoPass]

Does(j) == job' = j /\ UNCHANGED <<world, registry, port, history, baseline>>
Ends(result) ==
    /\ job' = [NoJob EXCEPT !.at = "DONE"] /\ baseline' = result
    /\ UNCHANGED <<world, registry, port, history>>
Fail == Ends(Unavailable)

Walking(j, round) == [j EXCEPT !.at = "OPEN", !.round = round, !.k = 1, !.walk = NoWalk]
Begin ==
    /\ At("IDLE")
    /\ job' = Walking(job, 1) /\ history' = [history EXCEPT !.touched = {}]
    /\ UNCHANGED <<world, registry, port, baseline>>

(* The deadline, a limit of the budget, an environment that has changed. *)
Exhausted == job.at \notin {"IDLE", "DONE"} /\ Fail

Here == Roots[job.k]
NextRoot(j) == LET left == [j EXCEPT !.version = 0, !.listed = {}]
               IN  IF j.k < Len(Roots) THEN [left EXCEPT !.at = "OPEN", !.k = @ + 1]
                   ELSE [left EXCEPT !.at = "WALKED"]

OpenRoot ==
    /\ At("OPEN")
    /\ Does(IF Present(Here) = {} THEN NextRoot(job)
            ELSE [job EXCEPT !.at = "LIST", !.version = listing[Here]])

(* What was looked at is what it was: the sandwich of a listing. *)
Unmoved(r) == listing[r] = job.version

Listed(j, fs) ==
    [j EXCEPT !.at = "ENTRY", !.listed = Present(Here), !.todo = fs, !.walk.state[Here] = "DIRECTORY"]
ListRoot ==
    /\ At("LIST")
    /\ IF port.context
       THEN IF ~Unmoved(Here) THEN Fail ELSE Does(Listed(job, Present(Here)))
       ELSE Does(IF Present(Here) = {} THEN NextRoot(job) ELSE Listed(job, FilesOf[Here]))

(* A file that is gone is passed over, and one that came after the directory
   was opened may not be listed.  Of a stable listing every entry must still be
   there, with the file of a bundle or without it.                           *)
SkipEntry(f) ==
    /\ At("ENTRY") /\ f \in job.todo /\ (~Exists(f) \/ f \notin job.listed)
    /\ Does([job EXCEPT !.todo = @ \ {f}])
ReadEntry(f) ==
    /\ At("ENTRY") /\ f \in job.todo /\ Exists(f)
    /\ Does([job EXCEPT !.at = "REST", !.file = f, !.look = disk[f], !.todo = @ \ {f}])

(* The rest of a stream: of the file as it was opened, or of what has been
   written over it.                                                          *)
RestOf(f, look) ==
    IF port.context THEN {disk[f]} \cap {look}
    ELSE {look} \cup (IF Exists(f) THEN {Torn(look, disk[f])} ELSE {})
Dropped(j) == [j EXCEPT !.file = None, !.look = Absent]
ReadRest ==
    /\ At("REST")
    /\ IF RestOf(job.file, job.look) = {} THEN Fail
       ELSE \E c \in RestOf(job.file, job.look) :
              Does([Dropped(job) EXCEPT !.at = "ENTRY", !.walk.entries[job.file] = c])

EntriesDone == At("ENTRY") /\ job.todo = {} /\ Does(NextRoot(job))

(* Mutant of Agree: one walk is as good as two. *)
AgreeAlways(first, second) == TRUE
Agree(first, second) == first = second
Finish ==
    /\ At("WALKED") /\ job.round = 2
    /\ IF Agree(job.first, job.walk)
       THEN Ends([complete |-> TRUE, manifest |-> job.first, candidates |-> job.earlier.found])
       ELSE Fail
Walked ==
    /\ At("WALKED") /\ job.round = 1
    /\ job' = [job EXCEPT !.at = "SNAPSHOT", !.first = job.walk]
    /\ history' = [history EXCEPT !.middle = disk]
    /\ UNCHANGED <<world, registry, port, baseline>>

----
(* The runtime's catalog and the files behind it (observeOwnershipCatalog).  *)
Snapshot ==
    /\ At("SNAPSHOT")
    /\ Does([job EXCEPT !.at = "CANDIDATE", !.rest = registry, !.index = {},
                        !.pass = [view |-> {[name |-> s.name, root |-> s.root] : s \in registry},
                                  found |-> {}]])

Current == CHOOSE c \in job.rest : TRUE

(* A summary names its file, or the directory to look for it in. *)
Candidate ==
    /\ At("CANDIDATE") /\ job.rest # {}
    /\ IF port.paths THEN Does([job EXCEPT !.at = "LOOK", !.todo = {Current.file}])
       ELSE IF Present(Current.root) = {} THEN Fail
       ELSE Does([job EXCEPT !.at = "INDEX", !.version = listing[Current.root]])
Index ==
    /\ At("INDEX")
    /\ IF ~port.context
       THEN Does([job EXCEPT !.at = "LOOK", !.listed = Present(Current.root), !.todo = FilesOf[Current.root]])
       ELSE IF ~Unmoved(Current.root) THEN Fail
       ELSE Does([job EXCEPT !.at = "LOOK", !.listed = Present(Current.root), !.todo = Present(Current.root)])

LookAway(f) ==
    /\ At("LOOK") /\ f \in job.todo
    /\ IF port.paths THEN ~Exists(f) /\ Fail
       ELSE (~Exists(f) \/ f \notin job.listed) /\ Does([job EXCEPT !.todo = @ \ {f}])
LookAt(f) ==
    /\ At("LOOK") /\ f \in job.todo /\ Exists(f)
    /\ Does([job EXCEPT !.at = "BODY", !.file = f, !.look = disk[f], !.todo = @ \ {f}])
ReadBody ==
    /\ At("BODY")
    /\ IF RestOf(job.file, job.look) = {} THEN Fail
       ELSE \E c \in RestOf(job.file, job.look) :
              Does([Dropped(job) EXCEPT !.at = "LOOK",
                    !.index = @ \cup {[file |-> job.file, name |-> c.skill, body |-> c.body]}])

(* Mutant of Matches: the first file with the name is taken. *)
MatchesAny(index, n) == LET m == {e \in index : e.name = n} IN {CHOOSE e \in m : TRUE : x \in m}
Matches(index, n) == {e \in index : e.name = n}
Decide ==
    /\ At("LOOK") /\ job.todo = {}
    /\ LET found == Matches(job.index, Current.name)
       IN  IF Cardinality(found) # 1 THEN Fail
           ELSE Does([job EXCEPT !.at = "CANDIDATE", !.rest = @ \ {Current}, !.index = {},
                                 !.listed = {}, !.version = 0, !.pass.found = @ \cup found])

(* Both observations agree, or there is none. *)
PassDone ==
    /\ At("CANDIDATE") /\ job.rest = {}
    /\ IF job.round = 1 THEN Does([job EXCEPT !.at = "SNAPSHOT", !.round = 2, !.earlier = job.pass])
       ELSE IF job.pass # job.earlier THEN Fail
       ELSE Does(Walking(job, 2))

----
Init ==
    /\ disk \in [File -> {Absent} \cup {Content(n, 0) : n \in Names}]
    /\ listing = [r \in Root |-> 0] /\ edits = 0
    /\ registry = {} /\ port \in [context : BOOLEAN, paths : BOOLEAN]
    /\ job = NoJob /\ history = [middle |-> disk, touched |-> {}] /\ baseline = Unavailable

Capture ==
    \/ Begin \/ Exhausted \/ OpenRoot \/ ListRoot \/ ReadRest \/ EntriesDone \/ Walked \/ Finish
    \/ Snapshot \/ Candidate \/ Index \/ ReadBody \/ Decide \/ PassDone
    \/ \E f \in File : SkipEntry(f) \/ ReadEntry(f) \/ LookAway(f) \/ LookAt(f)
Next == Capture \/ Rescan \/ \E f \in File : Write(f) \/ Delete(f)

Spec == Init /\ [][Next]_vars

----
(* A complete manifest is of one moment: when the first walk ended, every file
   was there with the bytes listed, or is one that was not listed and came or
   went during the capture.  The bytes of a file that was written while it was
   read, and a root that was walked before an edit beside one walked after it,
   are in no complete manifest.  (With a write that brings back earlier bytes
   between the walks this fails in the code too: the walks compare bytes.)   *)
ManifestIsOneMoment ==
    baseline.complete =>
        \A f \in File : LET entry == baseline.manifest.entries[f]
                        IN  entry = history.middle[f] \/ (entry = Absent /\ f \in history.touched)

(* The candidates of a complete baseline are what its manifest lists: a
   candidate's body is that of the file listed, and where the runtime gave no
   path no other file listed in the directory claims the candidate's name.
   The manifest and the candidates are read by two adapters at four times.   *)
CandidatesFitManifest ==
    baseline.complete =>
        \A c \in baseline.candidates : LET entries == baseline.manifest.entries IN
            /\ entries[c.file] # Absent => entries[c.file].body = c.body
            /\ \A r \in Root, f \in File :
                 ~port.paths /\ {f, c.file} \subseteq FilesOf[r] /\ entries[f].skill = c.name => f = c.file
====
