------------------------ MODULE SkillBaselineProofs ------------------------
(* Theorems about SkillBaseline, for every value of its constants: a complete*)
(* baseline is of one moment, and its candidates are those it lists.        *)
EXTENDS SkillBaseline, FiniteSetTheorems, TLAPS

----
(* Types. *)

Text == [skill : Names \cup {None}, head : Nat, body : Nat]
Found == [file : File, name : Names \cup {None}, body : Nat]
Chosen == [file : File, name : Names, body : Nat]
Skill == [name : Names, root : Root, file : File]
Walk == [state : [Root -> {"ABSENT", "DIRECTORY"}], entries : [File -> Text]]
Pass == [view : SUBSET [name : Names, root : Root], found : SUBSET Chosen]
Walks == {"OPEN", "LIST", "ENTRY", "REST", "WALKED"}
Observes == {"SNAPSHOT", "CANDIDATE", "INDEX", "LOOK", "BODY"}
Steps == Walks \cup Observes \cup {"IDLE", "DONE"}
Job == [at : Steps, round : Nat, k : Nat, version : Nat,
        listed : SUBSET File, todo : SUBSET File, file : File \cup {None}, look : Text,
        walk : Walk, first : Walk, rest : SUBSET Skill, index : SUBSET Found,
        pass : Pass, earlier : Pass]

Types ==
    /\ disk \in [File -> Text] /\ listing \in [Root -> Nat] /\ edits \in Nat
    /\ registry \in SUBSET Skill
    /\ port \in [context : BOOLEAN, paths : BOOLEAN]
    /\ job \in Job
    /\ history \in [middle : [File -> Text], touched : SUBSET File]
    /\ baseline \in [complete : BOOLEAN, manifest : Walk, candidates : SUBSET Chosen]

----
(* The inductive invariant. *)

Past == job.at \in Observes \/ (job.at \in Walks /\ job.round = 2)
Roomed(k) == k \in DOMAIN Roots

(* No write has a number yet to come. *)
Numbered == \A f \in File : disk[f].head <= edits /\ history.middle[f].head <= edits

(* What has been read of a file is what the file holds, unless the file has
   been written since. *)
Holds(c, f) ==
    c # Absent => /\ c.head <= edits
                  /\ Exists(f) /\ disk[f].head = c.head => disk[f] = c

(* The files a walk has still to read. *)
Later(k) == {f \in File : \E i \in DOMAIN Roots : i >= k /\ f \in FilesOf[Roots[i]]}
Unread ==
    CASE job.at \in {"OPEN", "LIST"} -> Later(job.k)
      [] job.at = "ENTRY" -> Later(job.k + 1) \cup job.todo
      [] job.at = "REST" -> Later(job.k + 1) \cup job.todo \cup {job.file}
      [] OTHER -> {}

WalkIsTrue ==
    job.at \in Walks =>
        /\ job.round \in {1, 2} /\ Roomed(job.k)
        /\ \A f \in File : Holds(job.walk.entries[f], f)
        /\ \A f \in Unread : job.walk.entries[f] = Absent
        /\ \A f \in File \ (Unread \cup history.touched) : job.walk.entries[f] = disk[f]
        /\ job.at \in {"ENTRY", "REST"} =>
             /\ job.todo \subseteq FilesOf[Here]
             /\ \A f \in FilesOf[Here] \ history.touched : Exists(f) => f \in job.listed
        /\ job.at = "REST" =>
             /\ job.file \in FilesOf[Here] \ job.todo
             /\ job.look # Absent /\ Holds(job.look, job.file)
             /\ job.file \notin history.touched => job.look = disk[job.file]

(* The first walk, from the moment it ended. *)
FirstIsTrue ==
    Past => \A f \in File :
        /\ f \notin history.touched =>
             job.first.entries[f] = disk[f] /\ history.middle[f] = disk[f]
        /\ job.first.entries[f] # Absent =>
             /\ job.first.entries[f].head <= edits
             /\ history.middle[f] # Absent /\ history.middle[f].head = job.first.entries[f].head
                  => history.middle[f] = job.first.entries[f]
             /\ Exists(f) /\ disk[f].head = job.first.entries[f].head
                  => disk[f] = history.middle[f]

(* A file that is as it was when the first walk ended. *)
Undisturbed(f) == Exists(f) /\ disk[f] = history.middle[f]
Line(f) == [file |-> f, name |-> history.middle[f].skill, body |-> history.middle[f].body]

(* What was observed agrees with a file that nobody had written. *)
Fair(f, found) ==
    \A c \in found :
        /\ c.file = f => c.body = history.middle[f].body
        /\ ~port.paths /\ c.name = history.middle[f].skill
             => \A r \in Root : {f, c.file} \subseteq FilesOf[r] => f = c.file

ObservationIsTrue ==
    /\ job.at \in Observes =>
         /\ job.round \in {1, 2}
         /\ \A f \in File : Undisturbed(f) => Fair(f, job.pass.found) /\ Fair(f, job.earlier.found)
    /\ job.at \in {"INDEX", "LOOK", "BODY"} => job.rest # {}
    /\ job.at \in {"CANDIDATE", "INDEX"} => job.index = {}
    /\ job.at \in {"LOOK", "BODY"} =>
         /\ IsFiniteSet(job.index)
         /\ \A c \in job.index : Undisturbed(c.file) => c = Line(c.file)
         /\ ~port.paths =>
              /\ job.todo \subseteq FilesOf[Current.root]
              /\ \A c \in job.index : c.file \in FilesOf[Current.root]
              /\ \A f \in FilesOf[Current.root] : Undisturbed(f) =>
                   /\ f \in job.listed
                   /\ f \in job.todo \/ (job.at = "BODY" /\ f = job.file) \/ Line(f) \in job.index
    /\ job.at = "BODY" =>
         /\ job.file \in File
         /\ ~port.paths => job.file \in FilesOf[Current.root]
         /\ Undisturbed(job.file) => job.look = disk[job.file]

(* What the second walk read and the first one too was undisturbed all the
   while. *)
Met(c, f) ==
    c # Absent /\ job.first.entries[f] # Absent /\ c.head = job.first.entries[f].head =>
        /\ history.middle[f] # Absent /\ history.middle[f].head = c.head
        /\ Fair(f, job.earlier.found)

SecondIsTrue ==
    job.at \in Walks /\ job.round = 2 =>
        /\ \A f \in File : Undisturbed(f) => Fair(f, job.earlier.found)
        /\ \A f \in File : Met(job.walk.entries[f], f)
        /\ job.at = "REST" => Met(job.look, job.file)

(* Nothing has been observed before the first walk ends. *)
Fresh ==
    /\ job.at = "IDLE" => job = NoJob
    /\ job.at \in Walks /\ job.round = 1 => job.pass = NoPass /\ job.earlier = NoPass

Result ==
    /\ job.at # "DONE" => ~baseline.complete
    /\ ManifestIsOneMoment /\ CandidatesFitManifest

Inv ==
    /\ Types /\ Numbered /\ Fresh /\ WalkIsTrue /\ FirstIsTrue /\ ObservationIsTrue /\ SecondIsTrue
    /\ Result

----
(* Lemmas about the roots and the records. *)

LEMMA RootFacts ==
  /\ Len(Roots) \in Nat \ {0} /\ DOMAIN Roots = 1..Len(Roots)
  /\ \A k \in DOMAIN Roots : Roots[k] \in Root
  /\ \A r \in Root : FilesOf[r] \subseteq File
  /\ \A r, q \in Root, f \in File : f \in FilesOf[r] /\ f \in FilesOf[q] => r = q
  /\ \A k, i \in DOMAIN Roots : Roots[k] = Roots[i] => k = i
<1>1. Roots \in Seq(Root) /\ Roots # << >> BY RootsAssumption DEF Root
<1>2. Len(Roots) \in Nat \ {0} /\ DOMAIN Roots = 1..Len(Roots) /\ \A k \in DOMAIN Roots : Roots[k] \in Root
  BY <1>1
<1>3. \A r \in Root : FilesOf[r] \subseteq File BY DEF File
<1>4. \A r, q \in Root, f \in File : f \in FilesOf[r] /\ f \in FilesOf[q] => r = q
  BY RootsAssumption DEF Root
<1> QED BY <1>2, <1>3, <1>4, RootsAssumption

LEMMA Texts ==
  /\ Absent \in Text
  /\ \A n \in Names \cup {None}, w \in Nat : Content(n, w) \in Text
  /\ \A a, b \in Text : Torn(a, b) \in Text /\ Torn(a, b).head = a.head /\ Torn(a, b).skill = a.skill
  BY DEF Text, Absent, Content, Torn

LEMMA EmptyResults ==
  /\ NoWalk \in Walk /\ NoPass \in Pass /\ NoJob \in Job
  /\ Unavailable \in [complete : BOOLEAN, manifest : Walk, candidates : SUBSET Chosen]
  /\ NoJob.at = "IDLE" /\ ~Unavailable.complete
  /\ \A f \in File : NoWalk.entries[f] = Absent
<1>1. NoWalk \in Walk /\ \A f \in File : NoWalk.entries[f] = Absent
  BY Texts DEF NoWalk, Walk
<1>2. NoPass \in Pass BY DEF NoPass, Pass
<1>3. NoJob \in Job /\ NoJob.at = "IDLE"
  BY <1>1, <1>2, Texts DEF NoJob, Job, Steps
<1>4. /\ Unavailable \in [complete : BOOLEAN, manifest : Walk, candidates : SUBSET Chosen]
      /\ ~Unavailable.complete
  BY <1>1 DEF Unavailable
<1> QED BY <1>1, <1>2, <1>3, <1>4

(* The bytes that a rest may have. *)
LEMMA RestFits ==
  ASSUME Types, NEW f \in File, NEW look \in Text, NEW c \in RestOf(f, look)
  PROVE  /\ c \in Text /\ c.head = look.head /\ c.skill = look.skill
         /\ Exists(f) /\ disk[f] = look => c = look
         /\ c # look => Exists(f) /\ c = Torn(look, disk[f])
<1>1. disk[f] \in Text BY DEF Types
<1>2. CASE c = look BY <1>2
<1>3. CASE c # look /\ Exists(f) /\ c = Torn(look, disk[f])
  <2>1. c \in Text /\ c.head = look.head /\ c.skill = look.skill
    BY <1>1, <1>3, Texts
  <2>2. disk[f] = look => c = look BY <1>1, <1>3 DEF Torn, Text
  <2> QED BY <1>3, <2>1, <2>2
<1> QED BY <1>2, <1>3 DEF RestOf

----
(* Frames: what a step leaves of the invariant. *)

Quiet == UNCHANGED <<world, registry, port, history, baseline>>

LEMMA WalkStep ==
  ASSUME Inv, Quiet, job.at \in Walks, job' \in Job, job'.at \in Walks,
         job'.round = job.round, job'.first = job.first, job'.earlier = job.earlier, job'.pass = job.pass,
         WalkIsTrue',
         job.round = 2 => /\ \A f \in File : Met(job'.walk.entries[f], f)
                          /\ job'.at = "REST" => Met(job'.look, job'.file)
  PROVE Inv'
<1> USE DEF Quiet, world
<1>1. /\ disk' = disk /\ listing' = listing /\ edits' = edits /\ registry' = registry /\ port' = port
      /\ history' = history /\ baseline' = baseline
      /\ job.at \notin Observes /\ job'.at \notin Observes /\ job'.at # "DONE" /\ job.at # "DONE"
      /\ job'.at \notin {"CANDIDATE", "INDEX", "LOOK", "BODY"}
  BY DEF Walks, Observes
<1>2. Types' /\ Numbered' BY <1>1 DEF Inv, Types, Numbered
<1>3. FirstIsTrue' BY <1>1 DEF Inv, FirstIsTrue, Past, Exists
<1>4. ObservationIsTrue' BY <1>1 DEF ObservationIsTrue
<1>5. SecondIsTrue'
  BY <1>1 DEF Inv, SecondIsTrue, Met, Fair, Undisturbed, Exists
<1>6. Result'
  BY <1>1 DEF Inv, Result, ManifestIsOneMoment, CandidatesFitManifest
<1>7. Fresh' BY <1>1 DEF Inv, Fresh, Walks
<1> QED BY <1>2, <1>3, <1>4, <1>5, <1>6, <1>7 DEF Inv

LEMMA ObserveStep ==
  ASSUME Inv, Quiet, job.at \in Observes, job' \in Job, job'.at \in Observes,
         job'.first = job.first, ObservationIsTrue'
  PROVE Inv'
<1> USE DEF Quiet, world
<1>1. /\ disk' = disk /\ listing' = listing /\ edits' = edits /\ registry' = registry /\ port' = port
      /\ history' = history /\ baseline' = baseline
      /\ job.at \notin Walks /\ job'.at \notin Walks /\ job'.at # "DONE" /\ job.at # "DONE"
  BY DEF Walks, Observes
<1>2. Types' /\ Numbered' BY <1>1 DEF Inv, Types, Numbered
<1>3. FirstIsTrue' BY <1>1 DEF Inv, FirstIsTrue, Past, Exists
<1>4. WalkIsTrue' /\ SecondIsTrue' /\ Fresh'
  BY <1>1 DEF WalkIsTrue, SecondIsTrue, Fresh, Observes
<1>6. Result'
  BY <1>1 DEF Inv, Result, ManifestIsOneMoment, CandidatesFitManifest
<1> QED BY <1>2, <1>3, <1>4, <1>6 DEF Inv

LEMMA EndStep ==
  ASSUME Inv, NEW result \in [complete : BOOLEAN, manifest : Walk, candidates : SUBSET Chosen],
         Ends(result), ManifestIsOneMoment', CandidatesFitManifest'
  PROVE Inv'
<1>1. /\ disk' = disk /\ listing' = listing /\ edits' = edits /\ registry' = registry /\ port' = port
      /\ history' = history /\ baseline' = result /\ job' = [NoJob EXCEPT !.at = "DONE"]
  BY DEF Ends, world
<1>2. job' \in Job /\ job'.at = "DONE" /\ job'.round = 0
  BY <1>1, EmptyResults DEF Job, Steps, NoJob
<1>3. job'.at \notin Walks \cup Observes /\ job'.at \notin {"CANDIDATE", "INDEX", "LOOK", "BODY"}
  BY <1>2 DEF Walks, Observes
<1>4. Types' /\ Numbered' BY <1>1, <1>2 DEF Inv, Types, Numbered
<1>5. WalkIsTrue' /\ FirstIsTrue' /\ ObservationIsTrue' /\ SecondIsTrue' /\ Fresh'
  BY <1>2, <1>3 DEF Fresh, WalkIsTrue, FirstIsTrue, Past, ObservationIsTrue, SecondIsTrue
<1> QED BY <1>2, <1>4, <1>5 DEF Inv, Result

LEMMA FailKeeps ==
  ASSUME Inv, Fail
  PROVE Inv'
<1>1. ManifestIsOneMoment' /\ CandidatesFitManifest'
  BY EmptyResults DEF Fail, Ends, ManifestIsOneMoment, CandidatesFitManifest
<1> QED BY <1>1, EmptyResults, EndStep DEF Fail

----
(* The world. *)

LEMMA PutKeeps ==
  ASSUME Inv, NEW g \in File, NEW content \in Text, Put(g, content),
         content = Absent \/ content.head = edits + 1
  PROVE Inv'
<1>1. /\ edits \in Nat /\ edits' = edits + 1 /\ job.at # "DONE" /\ disk' = [disk EXCEPT ![g] = content]
      /\ history' = [history EXCEPT !.touched = @ \cup {g}]
      /\ registry' = registry /\ port' = port /\ job' = job /\ baseline' = baseline
      /\ disk \in [File -> Text]
  <2>1. edits \in Nat /\ disk \in [File -> Text] BY DEF Inv, Types
  <2> QED BY <2>1 DEF Put, At
<1>2. /\ disk' \in [File -> Text] /\ disk'[g] = content
      /\ \A f \in File \ {g} : disk'[f] = disk[f] /\ Exists(f)' = Exists(f)
      /\ history' \in [middle : [File -> Text], touched : SUBSET File]
      /\ history'.middle = history.middle /\ history'.touched = history.touched \cup {g}
  BY <1>1 DEF Inv, Types, Exists
<1>3. listing' \in [Root -> Nat] BY DEF Put, Inv, Types
<1>4. Types' BY <1>1, <1>2, <1>3 DEF Inv, Types
<1>5. /\ Exists(g)' => disk'[g].head = edits + 1
      /\ \A f \in File : disk[f].head \in Nat /\ history.middle[f].head \in Nat
      /\ Absent.head = 0
  BY <1>1, <1>2 DEF Exists, Inv, Types, Text, Absent, Content
<1>6. Numbered' BY <1>1, <1>2, <1>5 DEF Inv, Numbered
<1> DEFINE StillHolds(c, f) ==
             c # Absent => /\ c.head <= edits'
                           /\ Exists(f)' /\ disk'[f].head = c.head => disk'[f] = c
<1>7. \A c \in Text, f \in File : Holds(c, f) => StillHolds(c, f)
  <2>1. SUFFICES ASSUME NEW c \in Text, NEW f \in File, Holds(c, f), c # Absent
                 PROVE StillHolds(c, f) OBVIOUS
  <2>2. c.head \in Nat /\ c.head <= edits /\ c.head # edits + 1 /\ c.head <= edits + 1
    BY <1>1, <2>1 DEF Holds, Text
  <2>3. CASE f = g BY <1>1, <1>2, <1>5, <2>2, <2>3
  <2>4. CASE f # g BY <1>1, <1>2, <2>1, <2>2, <2>4 DEF Holds
  <2> QED BY <2>3, <2>4
<1> HIDE DEF StillHolds
<1>8. WalkIsTrue'
  <2>1. SUFFICES ASSUME job.at \in Walks
                 PROVE WalkIsTrue'
    BY <1>1 DEF WalkIsTrue
  <2>2. Unread' = Unread /\ Here' = Here BY <1>1 DEF Unread, Later, Here
  <2>3. /\ \A f \in File : job.walk.entries[f] \in Text
        /\ job.look \in Text
    BY DEF Inv, Types, Job, Walk
  <2>4. \A f \in File : StillHolds(job.walk.entries[f], f)
    BY <1>7, <2>1, <2>3 DEF Inv, WalkIsTrue
  <2>5. \A f \in File \ (Unread \cup history'.touched) : job.walk.entries[f] = disk'[f]
    BY <1>2, <2>1 DEF Inv, WalkIsTrue
  <2>6. job.at \in {"ENTRY", "REST"} =>
             /\ job.todo \subseteq FilesOf[Here]
             /\ \A f \in FilesOf[Here] \ history'.touched : Exists(f)' => f \in job.listed
    <3>1. Here \in Root
      BY <2>1, RootFacts DEF Inv, WalkIsTrue, Here, Roomed
    <3>2. \A f \in FilesOf[Here] : f \in File BY <3>1, RootFacts
    <3> QED BY <1>2, <2>1, <3>2 DEF Inv, WalkIsTrue
  <2>7. job.at = "REST" =>
             /\ job.file \in FilesOf[Here] \ job.todo
             /\ job.look # Absent /\ StillHolds(job.look, job.file)
             /\ job.file \notin history'.touched => job.look = disk'[job.file]
    <3>1. SUFFICES ASSUME job.at = "REST"
                   PROVE  /\ job.file \in FilesOf[Here] \ job.todo
                          /\ job.look # Absent /\ StillHolds(job.look, job.file)
                          /\ job.file \notin history'.touched => job.look = disk'[job.file]
      OBVIOUS
    <3>2. Here \in Root
      BY <2>1, RootFacts DEF Inv, WalkIsTrue, Here, Roomed
    <3>3. job.file \in File /\ Holds(job.look, job.file) /\ job.file \in FilesOf[Here] \ job.todo
          /\ job.look # Absent
      BY <2>1, <3>1, <3>2, RootFacts DEF Inv, WalkIsTrue
    <3> QED BY <1>2, <1>7, <2>1, <2>3, <3>1, <3>3 DEF Inv, WalkIsTrue
  <2>8. /\ job.round \in {1, 2} /\ Roomed(job.k)
        /\ \A f \in Unread : job.walk.entries[f] = Absent
    BY <2>1 DEF Inv, WalkIsTrue
  <2>9. \A f : StillHolds(job.walk.entries[f], f) => Holds(job.walk.entries[f], f)'
    BY <1>1 DEF Holds, StillHolds
  <2>10. StillHolds(job.look, job.file) => Holds(job.look, job.file)'
    BY <1>1 DEF Holds, StillHolds
  <2> QED BY <1>1, <2>1, <2>2, <2>4, <2>5, <2>6, <2>7, <2>8, <2>9, <2>10 DEF WalkIsTrue, Roomed
<1>9. FirstIsTrue'
  <2>1. SUFFICES ASSUME Past, NEW f \in File
                 PROVE  /\ f \notin history'.touched =>
                             job.first.entries[f] = disk'[f] /\ history.middle[f] = disk'[f]
                        /\ job.first.entries[f] # Absent =>
                             /\ job.first.entries[f].head <= edits'
                             /\ history.middle[f] # Absent /\ history.middle[f].head = job.first.entries[f].head
                                  => history.middle[f] = job.first.entries[f]
                             /\ Exists(f)' /\ disk'[f].head = job.first.entries[f].head
                                  => disk'[f] = history.middle[f]
    BY <1>1, <1>2 DEF FirstIsTrue, Past
  <2>2. f \notin history'.touched =>
             job.first.entries[f] = disk'[f] /\ history.middle[f] = disk'[f]
    BY <1>2, <2>1 DEF Inv, FirstIsTrue
  <2>3. ASSUME job.first.entries[f] # Absent
        PROVE  /\ job.first.entries[f].head <= edits /\ job.first.entries[f].head \in Nat
               /\ history.middle[f] # Absent /\ history.middle[f].head = job.first.entries[f].head
                    => history.middle[f] = job.first.entries[f]
               /\ Exists(f) /\ disk[f].head = job.first.entries[f].head => disk[f] = history.middle[f]
    BY <2>1, <2>3 DEF Inv, FirstIsTrue, Types, Job, Walk, Text
  <2>4. CASE f = g BY <1>1, <1>2, <1>5, <2>2, <2>3, <2>4
  <2>5. CASE f # g BY <1>1, <1>2, <2>2, <2>3, <2>5
  <2> QED BY <2>4, <2>5
<1>10. \A f \in File : Undisturbed(f)' => f # g /\ Undisturbed(f) /\ disk'[f] = disk[f]
  <2>1. SUFFICES ASSUME NEW f \in File, Undisturbed(f)'
                 PROVE f # g /\ Undisturbed(f) /\ disk'[f] = disk[f] OBVIOUS
  <2>2. Exists(f)' /\ disk'[f] = history.middle[f] /\ history.middle[f].head <= edits
    BY <1>2, <2>1 DEF Undisturbed, Inv, Numbered
  <2>3. f # g BY <1>1, <1>5, <2>2
  <2> QED BY <1>2, <2>2, <2>3 DEF Undisturbed
<1>11. \A f, found : Fair(f, found)' <=> Fair(f, found)
  BY <1>1, <1>2 DEF Fair
<1>12. \A f : Line(f)' = Line(f) BY <1>2 DEF Line
<1>13. Current' = Current BY <1>1 DEF Current
<1>14. ObservationIsTrue'
  <2>1. job.at \in Observes =>
         /\ job.round \in {1, 2}
         /\ \A f \in File : Undisturbed(f)' => Fair(f, job.pass.found) /\ Fair(f, job.earlier.found)
    BY <1>10 DEF Inv, ObservationIsTrue
  <2>2. ASSUME job.at \in {"LOOK", "BODY"}
        PROVE  /\ IsFiniteSet(job.index)
               /\ \A c \in job.index : Undisturbed(c.file)' => c = Line(c.file)
               /\ ~port.paths =>
                    /\ job.todo \subseteq FilesOf[Current.root]
                    /\ \A c \in job.index : c.file \in FilesOf[Current.root]
                    /\ \A f \in FilesOf[Current.root] : Undisturbed(f)' =>
                         /\ f \in job.listed
                         /\ f \in job.todo \/ (job.at = "BODY" /\ f = job.file) \/ Line(f) \in job.index
    <3>1. Current.root \in Root /\ \A c \in job.index : c.file \in File
      <4>1. job.rest # {} /\ job.rest \subseteq Skill /\ job.index \subseteq Found
        BY <2>2 DEF Inv, ObservationIsTrue, Types, Job
      <4>2. Current \in job.rest BY <4>1, Zenon DEF Current
      <4> QED BY <4>1, <4>2 DEF Skill, Found
    <3>2. FilesOf[Current.root] \subseteq File BY <3>1, RootFacts
    <3> QED BY <1>10, <2>2, <3>1, <3>2 DEF Inv, ObservationIsTrue
  <2>3. job.at = "BODY" =>
         /\ job.file \in File
         /\ ~port.paths => job.file \in FilesOf[Current.root]
         /\ Undisturbed(job.file)' => job.look = disk'[job.file]
    <3>1. SUFFICES ASSUME job.at = "BODY"
                   PROVE  /\ job.file \in File
                          /\ ~port.paths => job.file \in FilesOf[Current.root]
                          /\ Undisturbed(job.file)' => job.look = disk'[job.file] OBVIOUS
    <3>2. /\ job.file \in File
          /\ ~port.paths => job.file \in FilesOf[Current.root]
          /\ Undisturbed(job.file) => job.look = disk[job.file]
      BY <3>1 DEF Inv, ObservationIsTrue
    <3>3. Undisturbed(job.file)' => Undisturbed(job.file) /\ disk'[job.file] = disk[job.file]
      <4>1. ASSUME NEW f \in File, f = job.file
            PROVE Undisturbed(job.file)' => Undisturbed(f)'
        BY <1>1, <4>1 DEF Undisturbed, Exists
      <4> QED BY <1>10, <3>2, <4>1
    <3> QED BY <3>2, <3>3
  <2>4. /\ job.at \in {"INDEX", "LOOK", "BODY"} => job.rest # {}
        /\ job.at \in {"CANDIDATE", "INDEX"} => job.index = {}
    BY DEF Inv, ObservationIsTrue
  <2> QED BY <1>1, <1>11, <1>12, <1>13, <2>1, <2>2, <2>3, <2>4 DEF ObservationIsTrue
<1>15. SecondIsTrue'
  <2>1. \A c, f : Met(c, f)' <=> Met(c, f) BY <1>1, <1>2, <1>11 DEF Met
  <2> QED BY <1>1, <1>10, <1>11, <2>1 DEF Inv, SecondIsTrue
<1>16. Result' /\ Fresh'
  BY <1>1 DEF Inv, Result, Fresh, ManifestIsOneMoment, CandidatesFitManifest
<1> QED BY <1>4, <1>6, <1>8, <1>9, <1>14, <1>15, <1>16 DEF Inv

LEMMA WritesKeep ==
  ASSUME Inv, NEW f \in File, Write(f) \/ Delete(f)
  PROVE Inv'
<1>1. edits \in Nat /\ edits + 1 \in Nat BY DEF Inv, Types
<1>2. CASE Delete(f) BY <1>2, Texts, PutKeeps DEF Delete
<1>3. ASSUME NEW n \in Names \cup {None}, Put(f, Content(n, edits + 1))
      PROVE Inv'
  <2>1. Content(n, edits + 1) \in Text /\ Content(n, edits + 1).head = edits + 1
    BY <1>1, Texts DEF Content
  <2> QED BY <1>3, <2>1, PutKeeps
<1> QED BY <1>2, <1>3 DEF Write

LEMMA RescanKeeps ==
  ASSUME Inv, Rescan
  PROVE Inv'
<1>1. /\ disk' = disk /\ listing' = listing /\ edits' = edits /\ port' = port /\ job' = job
      /\ history' = history /\ baseline' = baseline
  BY DEF Rescan, world
<1>2. registry' \in SUBSET Skill
  <2>1. PICK w : /\ \A n \in Names : IF Winners(n) = {} THEN w[n] = <<None, None>> ELSE w[n] \in Winners(n)
                 /\ registry' = {[name |-> n, root |-> w[n][1], file |-> w[n][2]] :
                                  n \in {m \in Names : Winners(m) # {}}}
    BY DEF Rescan
  <2>2. \A n : Winners(n) \subseteq Root \X File
    BY DEF Winners, Claimants
  <2>3. SUFFICES ASSUME NEW n \in Names, Winners(n) # {}
                 PROVE [name |-> n, root |-> w[n][1], file |-> w[n][2]] \in Skill
    BY <2>1
  <2>4. w[n] \in Root \X File BY <2>1, <2>2, <2>3
  <2> QED BY <2>4 DEF Skill
<1>3. Types' BY <1>1, <1>2 DEF Inv, Types
<1>4. /\ Numbered' /\ Fresh' /\ WalkIsTrue' /\ FirstIsTrue' /\ ObservationIsTrue' /\ SecondIsTrue'
      /\ Result'
  <2>1. Numbered' /\ FirstIsTrue' /\ Fresh'
    BY <1>1 DEF Inv, Fresh, Numbered, FirstIsTrue, Past, Exists
  <2>2. WalkIsTrue'
    BY <1>1 DEF Inv, WalkIsTrue, Holds, Unread, Later, Here, Roomed, Exists
  <2>3. ObservationIsTrue'
    BY <1>1 DEF Inv, ObservationIsTrue, Undisturbed, Fair, Line, Current, Exists
  <2>4. SecondIsTrue'
    BY <1>1 DEF Inv, SecondIsTrue, Met, Undisturbed, Fair, Exists
  <2>5. Result'
    BY <1>1 DEF Inv, Result, ManifestIsOneMoment, CandidatesFitManifest
  <2> QED BY <2>1, <2>2, <2>3, <2>4, <2>5
<1> QED BY <1>3, <1>4 DEF Inv

----
(* A walk. *)

LEMMA BeginKeeps ==
  ASSUME Inv, Begin
  PROVE Inv'
<1>1. /\ disk' = disk /\ listing' = listing /\ edits' = edits /\ registry' = registry /\ port' = port
      /\ baseline' = baseline /\ job' = Walking(job, 1) /\ history' = [history EXCEPT !.touched = {}]
      /\ job.at = "IDLE"
  BY DEF Begin, At, world
<1>2. /\ job' \in Job /\ job'.at = "OPEN" /\ job'.round = 1 /\ job'.k = 1 /\ job'.walk = NoWalk
      /\ history' \in [middle : [File -> Text], touched : SUBSET File]
      /\ history'.middle = history.middle /\ history'.touched = {}
  BY <1>1, EmptyResults DEF Walking, Job, Steps, Walks, Inv, Types
<1>3. Types' /\ Numbered' BY <1>1, <1>2 DEF Inv, Types, Numbered
<1>4. WalkIsTrue'
  <2>1. Roomed(1)' /\ \A f \in File : f \in Unread'
    <3>1. \A f \in File : \E i \in DOMAIN Roots : i >= 1 /\ f \in FilesOf[Roots[i]]
      BY RootsAssumption, RootFacts DEF File, Root
    <3> QED BY <1>2, <3>1, RootFacts DEF Unread, Later, Roomed
  <2>2. \A f \in File : job'.walk.entries[f] = Absent
    BY <1>2, EmptyResults
  <2>3. \A f \in File : Holds(job.walk.entries[f], f)' BY <2>2 DEF Holds
  <2>4. \A f \in Unread' : job'.walk.entries[f] = Absent
    BY <1>2, <2>2 DEF Unread, Later
  <2> QED BY <1>2, <2>1, <2>3, <2>4 DEF WalkIsTrue, Roomed
<1>7. Fresh'
  <2>1. job = NoJob BY <1>1 DEF Inv, Fresh
  <2>2. job'.pass = NoPass /\ job'.earlier = NoPass
    BY <1>1, <2>1 DEF NoJob, Walking
  <2> QED BY <1>2, <2>2 DEF Fresh
<1>5. FirstIsTrue' /\ SecondIsTrue' /\ ObservationIsTrue'
  BY <1>2 DEF FirstIsTrue, Past, SecondIsTrue, ObservationIsTrue, Observes
<1>6. Result'
  BY <1>1, <1>2 DEF Inv, Result, ManifestIsOneMoment, CandidatesFitManifest
<1> QED BY <1>3, <1>4, <1>5, <1>6, <1>7 DEF Inv

(* The files of the roots from one on, and those of one root. *)
LEMMA LaterSplit ==
  ASSUME NEW k \in DOMAIN Roots
  PROVE  /\ \A f \in File : f \in Later(k) <=> f \in FilesOf[Roots[k]] \/ f \in Later(k + 1)
         /\ \A f \in FilesOf[Roots[k]] : f \in File /\ f \notin Later(k + 1)
         /\ ~(k < Len(Roots)) => Later(k + 1) = {}
         /\ k < Len(Roots) => k + 1 \in DOMAIN Roots
<1>1. DOMAIN Roots \subseteq Int /\ k \in 1..Len(Roots) /\ DOMAIN Roots = 1..Len(Roots)
      /\ Len(Roots) \in Nat
  BY RootFacts
<1>2. \A i \in DOMAIN Roots : i >= k <=> i = k \/ i >= k + 1 BY <1>1
<1>3. \A f \in File : f \in Later(k) <=> f \in FilesOf[Roots[k]] \/ f \in Later(k + 1)
  BY <1>2 DEF Later
<1>4. ASSUME NEW f \in FilesOf[Roots[k]]
      PROVE f \in File /\ f \notin Later(k + 1)
  <2>1. f \in File BY RootFacts
  <2>2. ASSUME NEW i \in DOMAIN Roots, i >= k + 1, f \in FilesOf[Roots[i]]
        PROVE FALSE
    <3>1. Roots[i] = Roots[k] BY <2>1, <2>2, RootFacts
    <3>2. i = k BY <3>1, RootFacts
    <3> QED BY <1>1, <2>2, <3>2
  <2> QED BY <2>1, <2>2 DEF Later
<1>5. ~(k < Len(Roots)) => Later(k + 1) = {} BY <1>1 DEF Later
<1>6. k < Len(Roots) => k + 1 \in DOMAIN Roots BY <1>1
<1> QED BY <1>3, <1>4, <1>5, <1>6

(* To the next root, with nothing left to read in this one. *)
LEMMA NextRootKeeps ==
  ASSUME Inv, Quiet, job.at \in Walks, job.at # "WALKED",
         job' = NextRoot(job),
         Unread \ Later(job.k + 1) \subseteq {f \in FilesOf[Here] : f \in history.touched \/ ~Exists(f)}
  PROVE Inv'
<1>1. /\ disk' = disk /\ edits' = edits /\ history' = history
  BY DEF Quiet, world
<1>2. job \in Job /\ job.k \in DOMAIN Roots /\ job.k \in Nat /\ Len(Roots) \in Nat
  BY RootFacts DEF Inv, Types, WalkIsTrue, Roomed, Job
<1>3. /\ job' \in Job /\ job'.walk = job.walk /\ job'.round = job.round /\ job'.first = job.first
      /\ job'.earlier = job.earlier /\ job'.pass = job.pass
      /\ \/ job.k < Len(Roots) /\ job'.at = "OPEN" /\ job'.k = job.k + 1
         \/ ~(job.k < Len(Roots)) /\ job'.at = "WALKED" /\ job'.k = job.k
  <2> DEFINE left == [job EXCEPT !.version = 0, !.listed = {}]
  <2>1. /\ left \in Job /\ left.walk = job.walk /\ left.round = job.round /\ left.first = job.first
        /\ left.earlier = job.earlier /\ left.pass = job.pass /\ left.k = job.k
    BY <1>2 DEF Job
  <2>2. /\ job.k < Len(Roots) => job' = [left EXCEPT !.at = "OPEN", !.k = @ + 1]
        /\ ~(job.k < Len(Roots)) => job' = [left EXCEPT !.at = "WALKED"]
    BY Zenon DEF NextRoot
  <2> HIDE DEF left
  <2>3. CASE job.k < Len(Roots)
    <3>1. job' = [left EXCEPT !.at = "OPEN", !.k = @ + 1] /\ left.k + 1 \in Nat
      BY <1>2, <2>1, <2>2, <2>3
    <3> QED BY <2>1, <2>3, <3>1 DEF Job, Steps, Walks
  <2>4. CASE ~(job.k < Len(Roots))
    <3>1. job' = [left EXCEPT !.at = "WALKED"] BY <2>2, <2>4
    <3> QED BY <2>1, <2>4, <3>1 DEF Job, Steps, Walks
  <2> QED BY <2>3, <2>4
<1>4. job'.at \in Walks /\ job'.at \notin {"ENTRY", "REST", "LIST"} /\ Roomed(job'.k)
  BY <1>2, <1>3, LaterSplit DEF Walks, Roomed
<1>5. Unread' = Later(job.k + 1)
  BY <1>2, <1>3, LaterSplit DEF Unread, Later
<1>6. Later(job.k + 1) \subseteq Unread
  <2>1. \A f \in Later(job.k + 1) : f \in File /\ f \in Later(job.k)
    BY <1>2, LaterSplit DEF Later
  <2> QED BY <2>1 DEF Unread, Walks
<1>7. WalkIsTrue'
  <2>1. \A f \in File : Holds(job.walk.entries[f], f)'
    BY <1>1, <1>3 DEF Inv, WalkIsTrue, Holds, Exists
  <2>2. \A f \in Unread' : job'.walk.entries[f] = Absent
    BY <1>3, <1>5, <1>6 DEF Inv, WalkIsTrue
  <2>3. ASSUME NEW f \in File \ (Unread' \cup history'.touched)
        PROVE job'.walk.entries[f] = disk'[f]
    <3>1. CASE f \in Unread
      <4>1. ~Exists(f) BY <1>1, <1>5, <2>3, <3>1
      <4>2. job.walk.entries[f] = Absent BY <3>1 DEF Inv, WalkIsTrue
      <4> QED BY <1>1, <1>3, <4>1, <4>2 DEF Exists
    <3>2. CASE f \notin Unread
      BY <1>1, <1>3, <2>3, <3>2 DEF Inv, WalkIsTrue
    <3> QED BY <3>1, <3>2
  <2>4. job'.round \in {1, 2} BY <1>3 DEF Inv, WalkIsTrue
  <2> QED BY <1>4, <2>1, <2>2, <2>3, <2>4 DEF WalkIsTrue, Roomed
<1>8. job.round = 2 => /\ \A f \in File : Met(job'.walk.entries[f], f)
                       /\ job'.at = "REST" => Met(job'.look, job'.file)
  BY <1>3, <1>4 DEF Inv, SecondIsTrue
<1> QED BY <1>3, <1>4, <1>7, <1>8, WalkStep

(* A step in one root that reads nothing: what it passes over is not there, or
   came or went during the capture. *)
LEMMA StageStep ==
  ASSUME Inv, Quiet, job.at \in Walks, job' \in Job, job'.at \in Walks,
         job'.round = job.round, job'.first = job.first, job'.earlier = job.earlier, job'.pass = job.pass,
         job'.k = job.k, job'.walk.entries = job.walk.entries,
         \A f \in Unread' : f \in Unread,
         \A f \in File \ history.touched : f \in Unread \ Unread' => ~Exists(f),
         job'.at \in {"ENTRY", "REST"} =>
            /\ job'.todo \subseteq FilesOf[Here]
            /\ \A f \in FilesOf[Here] \ history.touched : Exists(f) => f \in job'.listed,
         job'.at = "REST" =>
            /\ job'.file \in FilesOf[Here] \ job'.todo
            /\ job'.look = disk[job'.file] /\ Exists(job'.file)
  PROVE Inv'
<1>1. disk' = disk /\ edits' = edits /\ history' = history /\ Here' = Here
  BY DEF Quiet, world, Here
<1>2. Here \in Root /\ FilesOf[Here] \subseteq File
  BY RootFacts DEF Inv, WalkIsTrue, Here, Roomed
<1>3. \A f \in File : Exists(f) => Holds(disk[f], f)
  BY DEF Inv, Numbered, Holds
<1>4. WalkIsTrue'
  <2>1. \A f \in File : Holds(job.walk.entries[f], f)'
    BY <1>1 DEF Inv, WalkIsTrue, Holds, Exists
  <2>2. \A f \in Unread' : job'.walk.entries[f] = Absent
    BY DEF Inv, WalkIsTrue
  <2>3. ASSUME NEW f \in File \ (Unread' \cup history'.touched)
        PROVE job'.walk.entries[f] = disk'[f]
    <3>1. CASE f \in Unread
      <4>1. ~Exists(f) BY <1>1, <2>3, <3>1
      <4>2. job.walk.entries[f] = Absent BY <3>1 DEF Inv, WalkIsTrue
      <4> QED BY <1>1, <4>1, <4>2 DEF Exists
    <3>2. CASE f \notin Unread BY <1>1, <2>3, <3>2 DEF Inv, WalkIsTrue
    <3> QED BY <3>1, <3>2
  <2>4. job'.round \in {1, 2} /\ Roomed(job'.k) BY DEF Inv, WalkIsTrue
  <2>5. job'.at \in {"ENTRY", "REST"} =>
             /\ job'.todo \subseteq FilesOf[Here']
             /\ \A f \in FilesOf[Here'] \ history'.touched : Exists(f)' => f \in job'.listed
    BY <1>1 DEF Exists
  <2>6. job'.at = "REST" =>
             /\ job'.file \in FilesOf[Here'] \ job'.todo
             /\ job'.look # Absent /\ Holds(job.look, job.file)'
             /\ job'.file \notin history'.touched => job'.look = disk'[job'.file]
    BY <1>1, <1>2, <1>3 DEF Exists, Holds
  <2> QED BY <2>1, <2>2, <2>3, <2>4, <2>5, <2>6 DEF WalkIsTrue, Roomed
<1>5. job.round = 2 => /\ \A f \in File : Met(job'.walk.entries[f], f)
                       /\ job'.at = "REST" => Met(job'.look, job'.file)
  <2>1. SUFFICES ASSUME job.round = 2, job'.at = "REST"
                 PROVE Met(job'.look, job'.file)
    BY DEF Inv, SecondIsTrue
  <2>2. job'.file \in File /\ job'.look = disk[job'.file] /\ Exists(job'.file)
    BY <1>2, <2>1
  <2>3. Past /\ \A f \in File : Undisturbed(f) => Fair(f, job.earlier.found)
    BY <2>1 DEF Past, Inv, SecondIsTrue
  <2>4. ASSUME job.first.entries[job'.file] # Absent,
               disk[job'.file].head = job.first.entries[job'.file].head
        PROVE disk[job'.file] = history.middle[job'.file]
    BY <2>2, <2>3, <2>4 DEF Inv, FirstIsTrue
  <2> QED BY <2>2, <2>3, <2>4 DEF Met, Undisturbed, Exists
<1> QED BY <1>4, <1>5, WalkStep

LEMMA OpenRootKeeps ==
  ASSUME Inv, OpenRoot
  PROVE Inv'
<1>1. Quiet /\ job.at = "OPEN" /\ job.at \in Walks /\ job.k \in DOMAIN Roots /\ job \in Job
      /\ Here = Roots[job.k]
  BY DEF OpenRoot, Does, Quiet, At, Walks, Inv, WalkIsTrue, Roomed, Types, Here
<1>2. Unread = Later(job.k) BY <1>1 DEF Unread
<1>3. CASE Present(Here) = {}
  <2>1. job' = NextRoot(job) BY <1>3 DEF OpenRoot, Does
  <2>2. \A f \in Unread \ Later(job.k + 1) : f \in FilesOf[Here] /\ ~Exists(f)
    BY <1>1, <1>2, <1>3, LaterSplit DEF Present, Later
  <2> QED BY <1>1, <2>1, <2>2, NextRootKeeps
<1>4. CASE Present(Here) # {}
  <2>1. job' = [job EXCEPT !.at = "LIST", !.version = listing[Here]]
    BY <1>4 DEF OpenRoot, Does
  <2>2. listing[Here] \in Nat BY <1>1, RootFacts DEF Inv, Types
  <2>3. /\ job' \in Job /\ job'.at = "LIST" /\ job'.round = job.round /\ job'.first = job.first
        /\ job'.earlier = job.earlier /\ job'.pass = job.pass /\ job'.k = job.k /\ job'.walk = job.walk
    BY <1>1, <2>1, <2>2 DEF Job, Steps, Walks
  <2>4. Unread' = Unread BY <1>2, <2>3 DEF Unread, Later
  <2> QED BY <1>1, <2>3, <2>4, StageStep DEF Walks
<1> QED BY <1>3, <1>4

LEMMA ListingKeeps ==
  ASSUME Inv, job.at = "LIST", Quiet, NEW fs, Present(Here) \subseteq fs, fs \subseteq FilesOf[Here],
         job' = Listed(job, fs)
  PROVE Inv'
<1>1. job.at \in Walks /\ job.k \in DOMAIN Roots /\ job \in Job /\ Here = Roots[job.k] /\ Here \in Root
  BY RootFacts DEF Walks, Inv, WalkIsTrue, Roomed, Types, Here
<1>2. FilesOf[Here] \subseteq File /\ Present(Here) \subseteq FilesOf[Here]
  BY <1>1, RootFacts DEF Present
<1>3. /\ job' \in Job /\ job'.at = "ENTRY" /\ job'.round = job.round /\ job'.first = job.first
      /\ job'.earlier = job.earlier /\ job'.pass = job.pass /\ job'.k = job.k /\ job'.walk.entries = job.walk.entries
      /\ job'.todo = fs /\ job'.listed = Present(Here)
  <2> DEFINE w == [job.walk EXCEPT !.state = [@ EXCEPT ![Here] = "DIRECTORY"]]
  <2>1. job' = [job EXCEPT !.at = "ENTRY", !.listed = Present(Here), !.todo = fs, !.walk = w]
    BY <1>1 DEF Listed, Job, Walk
  <2>2. w \in Walk /\ w.entries = job.walk.entries BY <1>1 DEF Walk, Job
  <2> HIDE DEF w
  <2>3. fs \in SUBSET File /\ Present(Here) \in SUBSET File BY <1>2
  <2> QED BY <1>1, <2>1, <2>2, <2>3 DEF Job, Steps, Walks
<1>4. Unread = Later(job.k) /\ Unread' = Later(job.k + 1) \cup fs
  BY <1>3 DEF Unread, Later
<1>5. \A f \in Unread' : f \in Unread
  BY <1>1, <1>2, <1>4, LaterSplit DEF Later
<1>6. \A f \in File \ history.touched : f \in Unread \ Unread' => ~Exists(f)
  BY <1>1, <1>4, LaterSplit DEF Present
<1>7. \A f \in FilesOf[Here] \ history.touched : Exists(f) => f \in job'.listed
  BY <1>3 DEF Present
<1> QED BY <1>1, <1>3, <1>5, <1>6, <1>7, StageStep DEF Walks

LEMMA ListRootKeeps ==
  ASSUME Inv, ListRoot
  PROVE Inv'
<1>1. job.at = "LIST" /\ job.at \in Walks /\ job.k \in DOMAIN Roots /\ Here = Roots[job.k]
  BY DEF ListRoot, At, Walks, Inv, WalkIsTrue, Roomed, Here
<1>2. Unread = Later(job.k) BY <1>1 DEF Unread
<1>3. Present(Here) \subseteq FilesOf[Here] BY DEF Present
<1>4. CASE port.context /\ ~Unmoved(Here)
  BY <1>4, FailKeeps DEF ListRoot
<1>5. CASE port.context /\ Unmoved(Here)
  BY <1>1, <1>3, <1>5, ListingKeeps DEF ListRoot, Does, Quiet
<1>6. CASE ~port.context /\ Present(Here) = {}
  <2>1. job' = NextRoot(job) /\ Quiet BY <1>6 DEF ListRoot, Does, Quiet
  <2>2. \A f \in Unread \ Later(job.k + 1) : f \in FilesOf[Here] /\ ~Exists(f)
    BY <1>1, <1>2, <1>6, LaterSplit DEF Present, Later
  <2> QED BY <1>1, <2>1, <2>2, NextRootKeeps
<1>7. CASE ~port.context /\ Present(Here) # {}
  BY <1>1, <1>3, <1>7, ListingKeeps DEF ListRoot, Does, Quiet
<1> QED BY <1>4, <1>5, <1>6, <1>7

LEMMA SkipEntryKeeps ==
  ASSUME Inv, NEW f \in File, SkipEntry(f)
  PROVE Inv'
<1>1. /\ Quiet /\ job.at = "ENTRY" /\ job.at \in Walks /\ job \in Job /\ f \in job.todo
      /\ ~Exists(f) \/ f \notin job.listed
      /\ job' = [job EXCEPT !.todo = @ \ {f}]
  BY DEF SkipEntry, Does, Quiet, At, Walks, Inv, Types
<1>2. /\ job' \in Job /\ job'.at = "ENTRY" /\ job'.round = job.round /\ job'.first = job.first
      /\ job'.earlier = job.earlier /\ job'.pass = job.pass /\ job'.k = job.k /\ job'.walk = job.walk
      /\ job'.todo = job.todo \ {f} /\ job'.listed = job.listed
  BY <1>1 DEF Job
<1>3. /\ job.todo \subseteq FilesOf[Here]
      /\ \A g \in FilesOf[Here] \ history.touched : Exists(g) => g \in job.listed
  BY <1>1 DEF Inv, WalkIsTrue
<1>4. /\ Unread = Later(job.k + 1) \cup job.todo
      /\ Unread' = Later(job.k + 1) \cup (job.todo \ {f})
  BY <1>1, <1>2 DEF Unread, Later
<1>5. \A g \in File \ history.touched : g \in Unread \ Unread' => ~Exists(g)
  BY <1>1, <1>3, <1>4
<1> QED BY <1>1, <1>2, <1>3, <1>4, <1>5, StageStep

LEMMA ReadEntryKeeps ==
  ASSUME Inv, NEW f \in File, ReadEntry(f)
  PROVE Inv'
<1>1. /\ Quiet /\ job.at = "ENTRY" /\ job.at \in Walks /\ job \in Job /\ f \in job.todo /\ Exists(f)
      /\ disk[f] \in Text
      /\ job' = [job EXCEPT !.at = "REST", !.file = f, !.look = disk[f], !.todo = @ \ {f}]
  BY DEF ReadEntry, Does, Quiet, At, Walks, Inv, Types
<1>2. /\ job' \in Job /\ job'.at = "REST" /\ job'.round = job.round /\ job'.first = job.first
      /\ job'.earlier = job.earlier /\ job'.pass = job.pass /\ job'.k = job.k /\ job'.walk = job.walk
      /\ job'.todo = job.todo \ {f} /\ job'.listed = job.listed /\ job'.file = f /\ job'.look = disk[f]
  BY <1>1 DEF Job, Steps, Walks
<1>3. /\ job.todo \subseteq FilesOf[Here]
      /\ \A g \in FilesOf[Here] \ history.touched : Exists(g) => g \in job.listed
  BY <1>1 DEF Inv, WalkIsTrue
<1>4. /\ Unread = Later(job.k + 1) \cup job.todo
      /\ Unread' = Later(job.k + 1) \cup (job.todo \ {f}) \cup {f}
  BY <1>1, <1>2 DEF Unread, Later
<1>5. Unread' = Unread BY <1>1, <1>4
<1> QED BY <1>1, <1>2, <1>3, <1>5, StageStep DEF Walks

LEMMA EntriesDoneKeeps ==
  ASSUME Inv, EntriesDone
  PROVE Inv'
<1>1. Quiet /\ job.at = "ENTRY" /\ job.at \in Walks /\ job.todo = {} /\ job' = NextRoot(job)
  BY DEF EntriesDone, Does, Quiet, At, Walks
<1>2. Unread \ Later(job.k + 1) = {} BY <1>1 DEF Unread
<1> QED BY <1>1, <1>2, NextRootKeeps

LEMMA ReadRestKeeps ==
  ASSUME Inv, ReadRest
  PROVE Inv'
<1>1. CASE RestOf(job.file, job.look) = {}
  BY <1>1, FailKeeps DEF ReadRest
<1>2. CASE RestOf(job.file, job.look) # {}
  <2> DEFINE g == job.file
  <2>1. PICK c \in RestOf(job.file, job.look) :
           Does([Dropped(job) EXCEPT !.at = "ENTRY", !.walk.entries[job.file] = c])
    BY <1>2 DEF ReadRest
  <2>2. /\ Quiet /\ job.at = "REST" /\ job.at \in Walks /\ job \in Job /\ job.look \in Text
        /\ disk \in [File -> Text] /\ edits \in Nat
    BY <2>1 DEF ReadRest, Does, Quiet, At, Walks, Inv, Types, Job
  <2>3. /\ disk' = disk /\ edits' = edits /\ history' = history
    BY <2>2 DEF Quiet, world
  <2>4. Here \in Root /\ FilesOf[Here] \subseteq File
    BY <2>2, RootFacts DEF Inv, WalkIsTrue, Here, Roomed
  <2>5. /\ g \in FilesOf[Here] \ job.todo /\ g \in File
        /\ job.look # Absent /\ Holds(job.look, g)
        /\ g \notin history.touched => job.look = disk[g]
    BY <2>2, <2>4 DEF Inv, WalkIsTrue
  <2>6. /\ c \in Text /\ c.head = job.look.head
        /\ Exists(g) /\ disk[g] = job.look => c = job.look
        /\ c # job.look => Exists(g) /\ c = Torn(job.look, disk[g])
    BY <2>1, <2>2, <2>5, RestFits DEF Inv
  <2>7. Holds(c, g)
    <3>1. SUFFICES ASSUME c # Absent
                   PROVE c.head <= edits /\ (Exists(g) /\ disk[g].head = c.head => disk[g] = c)
      BY DEF Holds
    <3>2. job.look.head <= edits /\ (Exists(g) /\ disk[g].head = job.look.head => disk[g] = job.look)
      BY <2>5 DEF Holds
    <3> QED BY <2>6, <3>2
  <2>8. g \notin history.touched => c = disk[g]
    <3>1. SUFFICES ASSUME g \notin history.touched
                   PROVE c = disk[g] OBVIOUS
    <3>2. job.look = disk[g] /\ Exists(g) BY <2>5, <3>1 DEF Exists
    <3> QED BY <2>6, <3>2
  <2> DEFINE w == [job.walk EXCEPT !.entries = [@ EXCEPT ![g] = c]]
  <2>9. w \in Walk /\ w.entries = [job.walk.entries EXCEPT ![g] = c]
        /\ job.walk.entries \in [File -> Text]
    BY <2>2, <2>5, <2>6 DEF Walk, Job
  <2>10. job' = [job EXCEPT !.file = None, !.look = Absent, !.at = "ENTRY", !.walk = w]
    BY <2>1, <2>2 DEF Does, Dropped, Job, Walk
  <2> HIDE DEF w
  <2>11. /\ job' \in Job /\ job'.at = "ENTRY" /\ job'.round = job.round /\ job'.first = job.first
         /\ job'.earlier = job.earlier /\ job'.pass = job.pass /\ job'.k = job.k /\ job'.walk = w
         /\ job'.todo = job.todo /\ job'.listed = job.listed
    BY <2>2, <2>9, <2>10, Texts DEF Job, Steps, Walks
  <2>12. /\ job'.walk.entries[g] = c
         /\ \A f \in File \ {g} : job'.walk.entries[f] = job.walk.entries[f]
    BY <2>5, <2>9, <2>11
  <2>13. /\ Unread = Later(job.k + 1) \cup job.todo \cup {g}
         /\ Unread' = Later(job.k + 1) \cup job.todo
    BY <2>2, <2>11 DEF Unread, Later
  <2>14. g \notin Unread'
    <3>1. job.k \in DOMAIN Roots /\ Here = Roots[job.k]
      BY <2>2 DEF Inv, WalkIsTrue, Here, Roomed
    <3> QED BY <2>5, <2>13, <3>1, LaterSplit
  <2>15. WalkIsTrue'
    <3>1. \A f \in File : Holds(job.walk.entries[f], f)'
      <4>1. ASSUME NEW f \in File
            PROVE Holds(job.walk.entries[f], f)'
        <5>1. Holds(job.walk.entries[f], f) BY <2>2 DEF Inv, WalkIsTrue
        <5>2. CASE f = g BY <2>3, <2>7, <2>12, <5>2 DEF Holds, Exists
        <5>3. CASE f # g BY <2>3, <2>12, <5>1, <5>3 DEF Holds, Exists
        <5> QED BY <5>2, <5>3
      <4> QED BY <4>1
    <3>2. \A f \in Unread' : job'.walk.entries[f] = Absent
      <4>1. ASSUME NEW f \in Unread'
            PROVE job'.walk.entries[f] = Absent
        <5>1. f \in File /\ f # g /\ f \in Unread
          BY <2>4, <2>13, <2>14, <4>1, <2>2 DEF Later, Inv, WalkIsTrue
        <5> QED BY <2>2, <2>12, <5>1 DEF Inv, WalkIsTrue
      <4> QED BY <4>1
    <3>3. ASSUME NEW f \in File \ (Unread' \cup history'.touched)
          PROVE job'.walk.entries[f] = disk'[f]
      <4>1. CASE f = g BY <2>3, <2>8, <2>12, <3>3, <4>1
      <4>2. CASE f # g
        <5>1. f \notin Unread \cup history.touched
          BY <2>3, <2>13, <3>3, <4>2
        <5> QED BY <2>2, <2>3, <2>12, <4>2, <5>1 DEF Inv, WalkIsTrue
      <4> QED BY <4>1, <4>2
    <3>4. job'.round \in {1, 2} /\ Roomed(job'.k)
      BY <2>2, <2>11 DEF Inv, WalkIsTrue
    <3>5. /\ job'.todo \subseteq FilesOf[Here']
          /\ \A f \in FilesOf[Here'] \ history'.touched : Exists(f)' => f \in job'.listed
      BY <2>2, <2>3, <2>11 DEF Inv, WalkIsTrue, Here, Exists
    <3> QED BY <2>11, <3>1, <3>2, <3>3, <3>4, <3>5 DEF WalkIsTrue, Roomed
  <2>16. job.round = 2 => /\ \A f \in File : Met(job'.walk.entries[f], f)
                          /\ job'.at = "REST" => Met(job'.look, job'.file)
    <3>1. SUFFICES ASSUME job.round = 2, NEW f \in File
                   PROVE Met(job'.walk.entries[f], f)
      BY <2>11
    <3>2. Met(job.walk.entries[f], f) /\ Met(job.look, g)
      BY <2>2, <3>1 DEF Inv, SecondIsTrue
    <3>3. CASE f = g BY <2>5, <2>6, <2>12, <3>2, <3>3 DEF Met
    <3>4. CASE f # g BY <2>12, <3>2, <3>4
    <3> QED BY <3>3, <3>4
  <2> QED BY <2>2, <2>11, <2>15, <2>16, WalkStep DEF Walks
<1> QED BY <1>1, <1>2

LEMMA WalkedKeeps ==
  ASSUME Inv, Walked
  PROVE Inv'
<1>1. /\ job.at = "WALKED" /\ job.round = 1 /\ job.at \in Walks /\ job \in Job
      /\ job' = [job EXCEPT !.at = "SNAPSHOT", !.first = job.walk]
      /\ history' = [history EXCEPT !.middle = disk] /\ disk' = disk /\ listing' = listing
      /\ edits' = edits /\ registry' = registry /\ port' = port /\ baseline' = baseline
  BY DEF Walked, At, world, Walks, Inv, Types
<1>2. /\ job' \in Job /\ job'.at = "SNAPSHOT" /\ job'.round = 1 /\ job'.first = job.walk
      /\ job'.earlier = job.earlier /\ job'.pass = job.pass
  BY <1>1 DEF Job, Steps, Observes
<1>3. /\ history' \in [middle : [File -> Text], touched : SUBSET File]
      /\ history'.middle = disk /\ history'.touched = history.touched
  BY <1>1 DEF Inv, Types
<1>4. Types' /\ Numbered' BY <1>1, <1>2, <1>3 DEF Inv, Types, Numbered
<1>5. Unread = {} /\ WalkIsTrue BY <1>1 DEF Unread, Inv
<1>6. FirstIsTrue'
  <2>1. ASSUME NEW f \in File
        PROVE  /\ f \notin history.touched => job.walk.entries[f] = disk[f]
               /\ Holds(job.walk.entries[f], f)
    BY <1>1, <1>5 DEF WalkIsTrue
  <2> QED BY <1>1, <1>2, <1>3, <2>1 DEF FirstIsTrue, Holds, Exists
<1>7. job'.at \notin Walks /\ job'.at \notin {"CANDIDATE", "INDEX", "LOOK", "BODY", "DONE"} /\ job.at # "DONE"
  BY <1>1, <1>2 DEF Walks
<1>8. job'.pass.found = {} /\ job'.earlier.found = {}
  BY <1>1, <1>2 DEF Inv, Fresh, NoPass
<1>9. ObservationIsTrue' BY <1>2, <1>7, <1>8 DEF ObservationIsTrue, Fair
<1>10. WalkIsTrue' /\ SecondIsTrue' /\ Fresh'
  BY <1>2, <1>7 DEF WalkIsTrue, SecondIsTrue, Fresh
<1>11. Result'
  BY <1>1, <1>7 DEF Inv, Result, ManifestIsOneMoment, CandidatesFitManifest
<1> QED BY <1>4, <1>6, <1>9, <1>10, <1>11 DEF Inv

(* The end: both walks agree. *)
LEMMA FinishKeeps ==
  ASSUME Inv, Finish
  PROVE Inv'
<1>1. CASE ~Agree(job.first, job.walk) BY <1>1, FailKeeps DEF Finish
<1>2. CASE Agree(job.first, job.walk)
  <2> DEFINE result == [complete |-> TRUE, manifest |-> job.first, candidates |-> job.earlier.found]
             e(f) == job.first.entries[f]
  <2>1. /\ job.at = "WALKED" /\ job.at \in Walks /\ job.round = 2 /\ job.first = job.walk
        /\ Ends(result) /\ Past /\ Unread = {}
    BY <1>2 DEF Finish, At, Walks, Agree, Past, Unread
  <2>2. result \in [complete : BOOLEAN, manifest : Walk, candidates : SUBSET Chosen]
    BY DEF Inv, Types, Job, Pass
  <2>3. /\ baseline' = result /\ history' = history /\ port' = port
    BY <2>1 DEF Ends
  <2>4. ASSUME NEW f \in File, e(f) # Absent
        PROVE e(f) = history.middle[f] /\ Fair(f, job.earlier.found)
    <3>1. Met(e(f), f) BY <2>1 DEF Inv, SecondIsTrue
    <3>2. /\ history.middle[f] # Absent /\ history.middle[f].head = e(f).head
          /\ Fair(f, job.earlier.found)
      BY <2>4, <3>1 DEF Met
    <3> QED BY <2>1, <2>4, <3>2 DEF Inv, FirstIsTrue
  <2>5. ASSUME NEW f \in File, e(f) = Absent, f \notin history.touched
        PROVE e(f) = history.middle[f]
    BY <2>1, <2>5 DEF Inv, FirstIsTrue
  <2>6. ManifestIsOneMoment' BY <2>3, <2>4, <2>5 DEF ManifestIsOneMoment
  <2>7. ASSUME NEW c \in job.earlier.found
        PROVE  /\ e(c.file) # Absent => e(c.file).body = c.body
               /\ \A r \in Root, f \in File :
                    ~port.paths /\ {f, c.file} \subseteq FilesOf[r] /\ e(f).skill = c.name => f = c.file
    <3>1. c.file \in File /\ c.name \in Names
      BY <2>7 DEF Inv, Types, Job, Pass, Chosen
    <3>2. e(c.file) # Absent => e(c.file).body = c.body
      BY <2>4, <3>1 DEF Fair
    <3>3. ASSUME NEW r \in Root, NEW f \in File, ~port.paths, {f, c.file} \subseteq FilesOf[r],
                 e(f).skill = c.name
          PROVE f = c.file
      <4>1. e(f) # Absent
        BY <3>1, <3>3, RootsAssumption DEF Absent, Content
      <4>2. e(f) = history.middle[f] /\ Fair(f, job.earlier.found)
        BY <2>4, <4>1
      <4> QED BY <3>3, <4>2 DEF Fair
    <3> QED BY <3>2, <3>3
  <2>8. CandidatesFitManifest' BY <2>3, <2>7 DEF CandidatesFitManifest
  <2> QED BY <2>1, <2>2, <2>6, <2>8, EndStep
<1> QED BY <1>1, <1>2

LEMMA ExhaustedKeeps ==
  ASSUME Inv, Exhausted
  PROVE Inv'
  BY FailKeeps DEF Exhausted

----
(* An observation. *)

LEMMA SnapshotKeeps ==
  ASSUME Inv, Snapshot
  PROVE Inv'
<1> DEFINE pass == [view |-> {[name |-> s.name, root |-> s.root] : s \in registry}, found |-> {}]
<1>1. /\ Quiet /\ job.at = "SNAPSHOT" /\ job.at \in Observes /\ job \in Job /\ registry \in SUBSET Skill
      /\ job' = [job EXCEPT !.at = "CANDIDATE", !.rest = registry, !.index = {}, !.pass = pass]
  BY DEF Snapshot, Does, Quiet, At, Observes, Inv, Types
<1>2. pass \in Pass /\ pass.found = {} BY <1>1 DEF Pass, Skill
<1> HIDE DEF pass
<1>3. /\ job' \in Job /\ job'.at = "CANDIDATE" /\ job'.round = job.round /\ job'.first = job.first
      /\ job'.earlier = job.earlier /\ job'.pass = pass /\ job'.index = {}
  BY <1>1, <1>2 DEF Job, Steps, Observes
<1>4. ObservationIsTrue'
  BY <1>1, <1>2, <1>3 DEF Inv, ObservationIsTrue, Quiet, world, Undisturbed, Exists, Fair
<1> QED BY <1>1, <1>3, <1>4, ObserveStep DEF Observes

LEMMA CurrentFacts ==
  ASSUME Types, job.rest # {}
  PROVE  Current \in job.rest /\ Current \in Skill /\ Current.root \in Root /\ Current.file \in File
         /\ Current.name \in Names /\ FilesOf[Current.root] \subseteq File
<1>1. job.rest \subseteq Skill BY DEF Types, Job
<1>2. Current \in job.rest BY Zenon DEF Current
<1>3. Current \in Skill /\ Current.root \in Root /\ Current.file \in File /\ Current.name \in Names
  BY <1>1, <1>2 DEF Skill
<1> QED BY <1>2, <1>3, RootFacts

LEMMA CandidateKeeps ==
  ASSUME Inv, Candidate
  PROVE Inv'
<1>1. /\ job.at = "CANDIDATE" /\ job.at \in Observes /\ job \in Job /\ job.rest # {} /\ job.index = {}
      /\ Types /\ listing \in [Root -> Nat]
  BY DEF Candidate, At, Observes, Inv, Types, ObservationIsTrue
<1>2. Current.root \in Root /\ Current.file \in File
  BY <1>1, CurrentFacts
<1>3. CASE port.paths
  <2>1. Quiet /\ job' = [job EXCEPT !.at = "LOOK", !.todo = {Current.file}]
    BY <1>3 DEF Candidate, Does, Quiet
  <2>2. /\ job' \in Job /\ job'.at = "LOOK" /\ job'.round = job.round /\ job'.first = job.first
        /\ job'.earlier = job.earlier /\ job'.pass = job.pass /\ job'.index = {} /\ job'.rest = job.rest
    BY <1>1, <1>2, <2>1 DEF Job, Steps, Observes
  <2>3. port'.paths BY <1>3, <2>1 DEF Quiet
  <2>4. /\ job'.at \in Observes =>
              /\ job'.round \in {1, 2}
              /\ \A f \in File : Undisturbed(f)' =>
                    Fair(f, job.pass.found)' /\ Fair(f, job.earlier.found)'
    BY <1>1, <2>1, <2>2 DEF Inv, ObservationIsTrue, Quiet, world, Undisturbed, Exists, Fair
  <2>5. IsFiniteSet(job'.index) BY <2>2, FS_EmptySet
  <2>6. ObservationIsTrue'
    BY <1>1, <2>2, <2>3, <2>4, <2>5 DEF ObservationIsTrue
  <2> QED BY <1>1, <2>1, <2>2, <2>6, ObserveStep DEF Observes
<1>4. CASE ~port.paths /\ Present(Current.root) = {}
  BY <1>4, FailKeeps DEF Candidate
<1>5. CASE ~port.paths /\ Present(Current.root) # {}
  <2>1. Quiet /\ job' = [job EXCEPT !.at = "INDEX", !.version = listing[Current.root]]
    BY <1>5 DEF Candidate, Does, Quiet
  <2>2. listing[Current.root] \in Nat BY <1>1, <1>2
  <2>3. /\ job' \in Job /\ job'.at = "INDEX" /\ job'.round = job.round /\ job'.first = job.first
        /\ job'.earlier = job.earlier /\ job'.pass = job.pass /\ job'.index = {} /\ job'.rest = job.rest
    BY <1>1, <2>1, <2>2 DEF Job, Steps, Observes
  <2>4. ObservationIsTrue'
    BY <1>1, <2>1, <2>3 DEF Inv, ObservationIsTrue, Quiet, world, Undisturbed, Exists, Fair
  <2> QED BY <1>1, <2>1, <2>3, <2>4, ObserveStep DEF Observes
<1> QED BY <1>3, <1>4, <1>5

(* What an observation keeps while it neither chooses nor is of another round. *)
LEMMA LookStep ==
  ASSUME Inv, Quiet, job.at \in {"INDEX", "LOOK", "BODY"}, job' \in Job, job'.at \in {"LOOK", "BODY"},
         job'.round = job.round, job'.first = job.first, job'.earlier = job.earlier,
         job'.pass = job.pass, job'.rest = job.rest, IsFiniteSet(job'.index),
         \A c \in job'.index : Undisturbed(c.file) => c = Line(c.file),
         ~port.paths =>
            /\ job'.todo \subseteq FilesOf[Current.root]
            /\ \A c \in job'.index : c.file \in FilesOf[Current.root]
            /\ \A f \in FilesOf[Current.root] : Undisturbed(f) =>
                 /\ f \in job'.listed
                 /\ f \in job'.todo \/ (job'.at = "BODY" /\ f = job'.file) \/ Line(f) \in job'.index,
         job'.at = "BODY" =>
            /\ job'.file \in File
            /\ ~port.paths => job'.file \in FilesOf[Current.root]
            /\ job'.look = disk[job'.file]
  PROVE Inv'
<1>1. /\ disk' = disk /\ edits' = edits /\ history' = history /\ port' = port /\ Current' = Current
      /\ \A f : Line(f)' = Line(f) /\ Undisturbed(f)' = Undisturbed(f)
      /\ \A f, found : Fair(f, found)' = Fair(f, found)
  BY DEF Quiet, world, Current, Line, Undisturbed, Exists, Fair
<1>2. job.at \in Observes /\ job'.at \in Observes BY DEF Observes
<1>3. /\ job'.round \in {1, 2} /\ job'.rest # {}
      /\ \A f \in File : Undisturbed(f) => Fair(f, job'.pass.found) /\ Fair(f, job'.earlier.found)
  BY <1>2 DEF Inv, ObservationIsTrue
<1>4. ObservationIsTrue'
  <2>1. \A f \in File : Undisturbed(f)' => Fair(f, job'.pass.found) /\ Fair(f, job'.earlier.found)
    BY <1>1, <1>3
  <2>3. \A f \in File : Undisturbed(f)' => Fair(f, job.pass.found)' /\ Fair(f, job.earlier.found)'
    BY <1>1, <2>1 DEF Fair
  <2>4. \A c \in job'.index : Undisturbed(c.file)' => c = Line(c.file)'
    BY <1>1
  <2>5. ~port'.paths =>
              /\ job'.todo \subseteq FilesOf[Current'.root]
              /\ \A c \in job'.index : c.file \in FilesOf[Current'.root]
              /\ \A f \in FilesOf[Current'.root] : Undisturbed(f)' =>
                   /\ f \in job'.listed
                   /\ f \in job'.todo \/ (job'.at = "BODY" /\ f = job'.file) \/ Line(f)' \in job'.index
    BY <1>1
  <2>6. job'.at = "BODY" =>
              /\ job'.file \in File
              /\ ~port'.paths => job'.file \in FilesOf[Current'.root]
              /\ job'.look = disk'[job'.file]
    BY <1>1
  <2> QED BY <1>2, <1>3, <2>3, <2>4, <2>5, <2>6 DEF ObservationIsTrue
<1> QED BY <1>2, <1>4, ObserveStep

LEMMA IndexKeeps ==
  ASSUME Inv, Index
  PROVE Inv'
<1>1. /\ job.at = "INDEX" /\ job \in Job /\ job.rest # {} /\ job.index = {} /\ Types
  BY DEF Index, At, Inv, Types, ObservationIsTrue
<1>2. Current.root \in Root /\ FilesOf[Current.root] \subseteq File
  BY <1>1, CurrentFacts
<1>3. Present(Current.root) \subseteq FilesOf[Current.root]
  BY DEF Present
<1>4. CASE port.context /\ ~Unmoved(Current.root)
  BY <1>4, FailKeeps DEF Index
<1>5. ASSUME NEW fs, Present(Current.root) \subseteq fs, fs \subseteq FilesOf[Current.root], Quiet,
             job' = [job EXCEPT !.at = "LOOK", !.listed = Present(Current.root), !.todo = fs]
      PROVE Inv'
  <2>1. fs \in SUBSET File /\ Present(Current.root) \in SUBSET File
    BY <1>2, <1>3, <1>5
  <2>2. /\ job' \in Job /\ job'.at = "LOOK" /\ job'.round = job.round /\ job'.first = job.first
        /\ job'.earlier = job.earlier /\ job'.pass = job.pass /\ job'.index = {} /\ job'.rest = job.rest
        /\ job'.todo = fs /\ job'.listed = Present(Current.root)
    BY <1>1, <1>5, <2>1 DEF Job, Steps, Observes
  <2>3. \A f \in FilesOf[Current.root] : Undisturbed(f) => f \in Present(Current.root)
    BY DEF Present, Undisturbed
  <2>4. IsFiniteSet(job'.index) BY <2>2, FS_EmptySet
  <2> QED BY <1>1, <1>5, <2>2, <2>3, <2>4, LookStep
<1>6. CASE ~port.context
  <2>1. Quiet /\ job' = [job EXCEPT !.at = "LOOK", !.listed = Present(Current.root),
                                    !.todo = FilesOf[Current.root]]
    BY <1>6 DEF Index, Does, Quiet
  <2> QED BY <1>3, <1>5, <2>1
<1>7. CASE port.context /\ Unmoved(Current.root)
  <2>1. Quiet /\ job' = [job EXCEPT !.at = "LOOK", !.listed = Present(Current.root),
                                    !.todo = Present(Current.root)]
    BY <1>7 DEF Index, Does, Quiet
  <2> QED BY <1>3, <1>5, <2>1
<1> QED BY <1>4, <1>6, <1>7

(* What is true while the files of a directory are looked at. *)
LEMMA LookFacts ==
  ASSUME Inv, job.at \in {"LOOK", "BODY"}
  PROVE  /\ job \in Job /\ Types /\ job.rest # {} /\ IsFiniteSet(job.index) /\ job.index \subseteq Found
         /\ FilesOf[Current.root] \subseteq File /\ Current.root \in Root
         /\ \A c \in job.index : c.file \in File /\ (Undisturbed(c.file) => c = Line(c.file))
         /\ ~port.paths =>
              /\ job.todo \subseteq FilesOf[Current.root]
              /\ \A c \in job.index : c.file \in FilesOf[Current.root]
              /\ \A f \in FilesOf[Current.root] : Undisturbed(f) =>
                   /\ f \in job.listed
                   /\ f \in job.todo \/ (job.at = "BODY" /\ f = job.file) \/ Line(f) \in job.index
<1>1. job \in Job /\ Types /\ job.rest # {} /\ job.index \subseteq Found
  BY DEF Inv, Types, ObservationIsTrue, Job
<1>2. Current.root \in Root /\ FilesOf[Current.root] \subseteq File
  BY <1>1, CurrentFacts
<1>3. \A c \in job.index : c.file \in File BY <1>1 DEF Found
<1> QED BY <1>1, <1>2, <1>3 DEF Inv, ObservationIsTrue

LEMMA LookAwayKeeps ==
  ASSUME Inv, NEW f \in File, LookAway(f)
  PROVE Inv'
<1>1. CASE port.paths BY <1>1, FailKeeps DEF LookAway
<1>2. CASE ~port.paths
  <2>1. /\ Quiet /\ job.at = "LOOK" /\ f \in job.todo /\ (~Exists(f) \/ f \notin job.listed)
        /\ job' = [job EXCEPT !.todo = @ \ {f}] /\ job \in Job
    BY <1>2 DEF LookAway, Does, Quiet, At, Inv, Types
  <2>2. /\ job' \in Job /\ job'.at = "LOOK" /\ job'.round = job.round /\ job'.first = job.first
        /\ job'.earlier = job.earlier /\ job'.pass = job.pass /\ job'.index = job.index
        /\ job'.rest = job.rest /\ job'.todo = job.todo \ {f} /\ job'.listed = job.listed
    BY <2>1 DEF Job
  <2>3. /\ job'.todo \subseteq FilesOf[Current.root]
        /\ \A g \in FilesOf[Current.root] : Undisturbed(g) =>
             /\ g \in job'.listed
             /\ g \in job'.todo \/ Line(g) \in job'.index
    <3>1. ASSUME NEW g \in FilesOf[Current.root], Undisturbed(g)
          PROVE g \in job.listed /\ Exists(g) /\ (g \in job.todo \/ Line(g) \in job.index)
      BY <1>2, <2>1, <3>1, LookFacts DEF Undisturbed
    <3>2. job.todo \subseteq FilesOf[Current.root]
      BY <1>2, <2>1, LookFacts
    <3> QED BY <2>1, <2>2, <3>1, <3>2
  <2> QED BY <2>1, <2>2, <2>3, LookFacts, LookStep
<1> QED BY <1>1, <1>2

LEMMA LookAtKeeps ==
  ASSUME Inv, NEW f \in File, LookAt(f)
  PROVE Inv'
<1>1. /\ Quiet /\ job.at = "LOOK" /\ f \in job.todo /\ Exists(f) /\ job \in Job /\ disk[f] \in Text
      /\ job' = [job EXCEPT !.at = "BODY", !.file = f, !.look = disk[f], !.todo = @ \ {f}]
  BY DEF LookAt, Does, Quiet, At, Inv, Types
<1>2. /\ job' \in Job /\ job'.at = "BODY" /\ job'.round = job.round /\ job'.first = job.first
      /\ job'.earlier = job.earlier /\ job'.pass = job.pass /\ job'.index = job.index
      /\ job'.rest = job.rest /\ job'.todo = job.todo \ {f} /\ job'.listed = job.listed
      /\ job'.file = f /\ job'.look = disk[f]
  BY <1>1 DEF Job, Steps, Observes
<1>3. ~port.paths =>
        /\ job'.todo \subseteq FilesOf[Current.root] /\ f \in FilesOf[Current.root]
        /\ \A g \in FilesOf[Current.root] : Undisturbed(g) =>
             /\ g \in job'.listed
             /\ g \in job'.todo \/ g = job'.file \/ Line(g) \in job'.index
  BY <1>1, <1>2, LookFacts
<1>4. IsFiniteSet(job'.index) /\ \A c \in job'.index : Undisturbed(c.file) => c = Line(c.file)
  BY <1>1, <1>2, LookFacts
<1>5. ~port.paths => \A c \in job'.index : c.file \in FilesOf[Current.root]
  BY <1>1, <1>2, LookFacts
<1> QED BY <1>1, <1>2, <1>3, <1>4, <1>5, LookStep

LEMMA ReadBodyKeeps ==
  ASSUME Inv, ReadBody
  PROVE Inv'
<1>1. CASE RestOf(job.file, job.look) = {}
  BY <1>1, FailKeeps DEF ReadBody
<1>2. CASE RestOf(job.file, job.look) # {}
  <2> DEFINE g == job.file
             new(c) == [file |-> g, name |-> c.skill, body |-> c.body]
  <2>1. PICK c \in RestOf(g, job.look) :
           Does([Dropped(job) EXCEPT !.at = "LOOK", !.index = @ \cup {new(c)}])
    BY <1>2 DEF ReadBody
  <2>2. /\ Quiet /\ job.at = "BODY" /\ job \in Job /\ job.look \in Text
        /\ g \in File
        /\ ~port.paths => g \in FilesOf[Current.root]
        /\ Undisturbed(g) => job.look = disk[g]
    BY <2>1 DEF ReadBody, Does, Quiet, At, Inv, Types, ObservationIsTrue, Job
  <2>3. /\ c \in Text
        /\ Exists(g) /\ disk[g] = job.look => c = job.look
    BY <2>1, <2>2, RestFits DEF Inv
  <2>4. new(c) \in Found /\ new(c).file = g
    BY <2>2, <2>3 DEF Found, Text
  <2>5. Undisturbed(g) => new(c) = Line(g)
    <3>1. Undisturbed(g) => c = history.middle[g]
      BY <2>2, <2>3 DEF Undisturbed
    <3> QED BY <3>1 DEF Line
  <2> DEFINE index == job.index \cup {new(c)}
  <2>6. index \subseteq Found /\ IsFiniteSet(index)
    BY <2>2, <2>4, LookFacts, FS_AddElement
  <2>7. job' = [job EXCEPT !.file = None, !.look = Absent, !.at = "LOOK", !.index = index]
    BY <2>1, <2>2 DEF Does, Dropped, Job
  <2>8. /\ \A e \in index : Undisturbed(e.file) => e = Line(e.file)
        /\ ~port.paths => \A e \in index : e.file \in FilesOf[Current.root]
        /\ ~port.paths =>
             /\ job.todo \subseteq FilesOf[Current.root]
             /\ \A f \in FilesOf[Current.root] : Undisturbed(f) =>
                  /\ f \in job.listed
                  /\ f \in job.todo \/ Line(f) \in index
    BY <2>2, <2>4, <2>5, LookFacts
  <2> HIDE DEF index
  <2>9. /\ job' \in Job /\ job'.at = "LOOK" /\ job'.round = job.round /\ job'.first = job.first
        /\ job'.earlier = job.earlier /\ job'.pass = job.pass /\ job'.index = index
        /\ job'.rest = job.rest /\ job'.todo = job.todo /\ job'.listed = job.listed
    BY <2>2, <2>6, <2>7, Texts DEF Job, Steps, Observes
  <2> QED BY <2>2, <2>6, <2>8, <2>9, LookStep
<1> QED BY <1>1, <1>2

LEMMA DecideKeeps ==
  ASSUME Inv, Decide
  PROVE Inv'
<1> DEFINE found == Matches(job.index, Current.name)
<1>1. CASE Cardinality(found) # 1 BY <1>1, FailKeeps DEF Decide
<1>2. CASE Cardinality(found) = 1
  <2>1. /\ Quiet /\ job.at = "LOOK" /\ job.at \in Observes /\ job.todo = {}
        /\ job' = [job EXCEPT !.at = "CANDIDATE", !.rest = @ \ {Current}, !.index = {},
                              !.listed = {}, !.version = 0, !.pass.found = @ \cup found]
    BY <1>2 DEF Decide, Does, Quiet, At, Observes
  <2>2. job \in Job /\ job.pass \in Pass /\ job.rest # {} /\ Types
    BY <2>1, LookFacts DEF Job
  <2>3. Current.name \in Names /\ Current.root \in Root
    BY <2>2, CurrentFacts
  <2>4. found \subseteq job.index /\ IsFiniteSet(found)
    BY <2>1, LookFacts, FS_Subset DEF Matches
  <2>5. PICK x : found = {x} BY <1>2, <2>4, FS_Singleton
  <2>6. /\ \A c \in found : c.name = Current.name /\ c \in job.index /\ c \in Chosen
        /\ found \in SUBSET Chosen
    <3>1. \A c \in found : c.name = Current.name /\ c \in job.index
      BY DEF Matches
    <3>2. \A c \in found : c \in Found BY <2>1, <3>1, LookFacts
    <3> QED BY <2>3, <3>1, <3>2 DEF Found, Chosen
  <2> DEFINE pass == [job.pass EXCEPT !.found = @ \cup found]
  <2>7. pass \in Pass /\ pass.found = job.pass.found \cup found
    BY <2>2, <2>6 DEF Pass
  <2>8. job' = [job EXCEPT !.at = "CANDIDATE", !.rest = @ \ {Current}, !.index = {},
                           !.listed = {}, !.version = 0, !.pass = pass]
    BY <2>1, <2>2 DEF Job, Pass
  <2>9. ASSUME NEW f \in File, Undisturbed(f)
        PROVE Fair(f, found)
    <3>1. SUFFICES ASSUME NEW c \in found
                   PROVE  /\ c.file = f => c.body = history.middle[f].body
                          /\ ~port.paths /\ c.name = history.middle[f].skill
                               => \A r \in Root : {f, c.file} \subseteq FilesOf[r] => f = c.file
      BY DEF Fair
    <3>2. c \in job.index /\ c.name = Current.name /\ c.file \in File
      BY <2>1, <2>6, LookFacts
    <3>3. c.file = f => c.body = history.middle[f].body
      <4>1. c.file = f => c = Line(f) BY <2>1, <2>9, <3>2, LookFacts
      <4> QED BY <4>1 DEF Line
    <3>4. ASSUME ~port.paths, c.name = history.middle[f].skill, NEW r \in Root,
                 {f, c.file} \subseteq FilesOf[r]
          PROVE f = c.file
      <4>1. c.file \in FilesOf[Current.root]
        BY <2>1, <3>2, <3>4, LookFacts
      <4>2. r = Current.root BY <2>3, <3>2, <3>4, <4>1, RootFacts
      <4>3. Line(f) \in job.index BY <2>1, <2>9, <3>4, <4>2, LookFacts
      <4>4. Line(f).name = Current.name /\ Line(f).file = f
        BY <3>2, <3>4 DEF Line
      <4>5. Line(f) \in found BY <4>3, <4>4 DEF Matches
      <4> QED BY <2>5, <3>1, <4>4, <4>5
    <3> QED BY <3>3, <3>4
  <2> HIDE DEF found, pass
  <2>10. /\ job' \in Job /\ job'.at = "CANDIDATE" /\ job'.round = job.round /\ job'.first = job.first
         /\ job'.earlier = job.earlier /\ job'.pass = pass /\ job'.index = {}
    BY <2>2, <2>7, <2>8 DEF Job, Steps, Observes
  <2>11. /\ job.round \in {1, 2}
         /\ \A f \in File : Undisturbed(f) => Fair(f, job.pass.found) /\ Fair(f, job.earlier.found)
    BY <2>1 DEF Inv, ObservationIsTrue
  <2>12. \A f \in File : Undisturbed(f) => Fair(f, pass.found) /\ Fair(f, job.earlier.found)
    BY <2>7, <2>9, <2>11 DEF Fair
  <2>13. ObservationIsTrue'
    BY <2>1, <2>10, <2>11, <2>12 DEF ObservationIsTrue, Quiet, world, Undisturbed, Exists, Fair
  <2> QED BY <2>1, <2>10, <2>13, ObserveStep DEF Observes
<1> QED BY <1>1, <1>2

LEMMA PassDoneKeeps ==
  ASSUME Inv, PassDone
  PROVE Inv'
<1>1. job.at = "CANDIDATE" /\ job.at \in Observes /\ job \in Job /\ Past /\ job.at \notin Walks
  BY DEF PassDone, At, Observes, Walks, Past, Inv, Types
<1>2. /\ job.round \in {1, 2}
      /\ \A f \in File : Undisturbed(f) => Fair(f, job.pass.found) /\ Fair(f, job.earlier.found)
  BY <1>1 DEF Inv, ObservationIsTrue
<1>3. CASE job.round = 1
  <2>1. Quiet /\ job' = [job EXCEPT !.at = "SNAPSHOT", !.round = 2, !.earlier = job.pass]
    BY <1>3 DEF PassDone, Does, Quiet
  <2>2. /\ job' \in Job /\ job'.at = "SNAPSHOT" /\ job'.round = 2 /\ job'.first = job.first
        /\ job'.earlier = job.pass /\ job'.pass = job.pass
    BY <1>1, <2>1 DEF Job, Steps, Observes
  <2>3. ObservationIsTrue'
    BY <1>2, <2>1, <2>2 DEF ObservationIsTrue, Quiet, world, Undisturbed, Exists, Fair
  <2> QED BY <1>1, <2>1, <2>2, <2>3, ObserveStep DEF Observes
<1>4. CASE job.round # 1 /\ job.pass # job.earlier
  BY <1>4, FailKeeps DEF PassDone
<1>5. CASE job.round # 1 /\ job.pass = job.earlier
  <2>1. /\ job' = Walking(job, 2) /\ disk' = disk /\ listing' = listing /\ edits' = edits
        /\ registry' = registry /\ port' = port /\ history' = history /\ baseline' = baseline
    BY <1>5 DEF PassDone, Does, world
  <2>2. /\ job' \in Job /\ job'.at = "OPEN" /\ job'.round = 2 /\ job'.k = 1 /\ job'.walk = NoWalk
        /\ job'.first = job.first /\ job'.earlier = job.earlier
    BY <1>1, <2>1, EmptyResults DEF Walking, Job, Steps, Walks
  <2>3. Types' /\ Numbered' BY <2>1, <2>2 DEF Inv, Types, Numbered
  <2>4. WalkIsTrue'
    <3>1. Roomed(1)' /\ \A f \in File : f \in Unread'
      <4>1. \A f \in File : \E i \in DOMAIN Roots : i >= 1 /\ f \in FilesOf[Roots[i]]
        BY RootsAssumption, RootFacts DEF File, Root
      <4> QED BY <2>2, <4>1, RootFacts DEF Unread, Later, Roomed
    <3>2. \A f \in File : job'.walk.entries[f] = Absent
      BY <2>2, EmptyResults
    <3>3. \A f \in File : Holds(job.walk.entries[f], f)'
      BY <3>2 DEF Holds
    <3>4. \A f \in Unread' : job'.walk.entries[f] = Absent
      BY <2>2, <3>2 DEF Unread, Later
    <3> QED BY <2>2, <3>1, <3>3, <3>4 DEF WalkIsTrue, Roomed
  <2>5. FirstIsTrue' BY <1>1, <2>1, <2>2 DEF Inv, FirstIsTrue, Exists
  <2>6. SecondIsTrue'
    <3>1. \A f \in File : Undisturbed(f)' => Fair(f, job.earlier.found)'
      BY <1>2, <2>1, <2>2 DEF Undisturbed, Exists, Fair
    <3>2. \A f \in File : Met(job.walk.entries[f], f)'
      BY <2>2, EmptyResults DEF Met
    <3> QED BY <2>2, <3>1, <3>2 DEF SecondIsTrue
  <2>7. ObservationIsTrue' /\ Fresh'
    BY <2>2 DEF ObservationIsTrue, Fresh, Observes
  <2>8. Result'
    BY <1>1, <2>1, <2>2 DEF Inv, Result, ManifestIsOneMoment, CandidatesFitManifest
  <2> QED BY <2>3, <2>4, <2>5, <2>6, <2>7, <2>8 DEF Inv
<1> QED BY <1>3, <1>4, <1>5

----
(* The theorems. *)

LEMMA InitHolds == Init => Inv
<1> SUFFICES ASSUME Init
             PROVE Inv OBVIOUS
<1>1. /\ disk \in [File -> Text] /\ \A f \in File : disk[f].head = 0
  BY Texts DEF Init, Text, Absent, Content
<1>2. /\ listing \in [Root -> Nat] /\ edits = 0 /\ registry = {} /\ job = NoJob
      /\ port \in [context : BOOLEAN, paths : BOOLEAN]
      /\ history = [middle |-> disk, touched |-> {}] /\ baseline = Unavailable
  BY DEF Init
<1>3. Types /\ Numbered BY <1>1, <1>2, EmptyResults DEF Types, Numbered
<1>4. job.at = "IDLE" BY <1>2, EmptyResults
<1>5. Fresh /\ WalkIsTrue /\ FirstIsTrue /\ ObservationIsTrue /\ SecondIsTrue
  BY <1>2, <1>4 DEF Fresh, WalkIsTrue, FirstIsTrue, Past, ObservationIsTrue, SecondIsTrue, Walks, Observes
<1>6. Result
  BY <1>2, <1>4, EmptyResults DEF Result, ManifestIsOneMoment, CandidatesFitManifest
<1> QED BY <1>3, <1>5, <1>6 DEF Inv

LEMMA NextKeeps == Inv /\ [Next]_vars => Inv'
<1> SUFFICES ASSUME Inv, [Next]_vars
             PROVE Inv' OBVIOUS
<1>1. CASE UNCHANGED vars
  <2>1. /\ disk' = disk /\ listing' = listing /\ edits' = edits /\ registry' = registry /\ port' = port
        /\ job' = job /\ history' = history /\ baseline' = baseline
    BY <1>1 DEF vars, world
  <2>2. Types' /\ Numbered' /\ Fresh' /\ FirstIsTrue'
    BY <2>1 DEF Inv, Types, Numbered, Fresh, FirstIsTrue, Past, Exists
  <2>3. WalkIsTrue'
    BY <2>1 DEF Inv, WalkIsTrue, Holds, Unread, Later, Here, Roomed, Exists
  <2>4. ObservationIsTrue'
    BY <2>1 DEF Inv, ObservationIsTrue, Undisturbed, Fair, Line, Current, Exists
  <2>5. SecondIsTrue'
    BY <2>1 DEF Inv, SecondIsTrue, Met, Undisturbed, Fair, Exists
  <2>6. Result'
    BY <2>1 DEF Inv, Result, ManifestIsOneMoment, CandidatesFitManifest
  <2> QED BY <2>2, <2>3, <2>4, <2>5, <2>6 DEF Inv
<1>2. CASE Capture
  <2>1. CASE Begin \/ Exhausted \/ OpenRoot \/ ListRoot \/ ReadRest \/ EntriesDone
    BY <2>1, BeginKeeps, ExhaustedKeeps, OpenRootKeeps, ListRootKeeps, ReadRestKeeps, EntriesDoneKeeps
  <2>2. CASE Walked \/ Finish \/ Snapshot \/ Candidate \/ Index \/ ReadBody \/ Decide \/ PassDone
    BY <2>2, WalkedKeeps, FinishKeeps, SnapshotKeeps, CandidateKeeps, IndexKeeps, ReadBodyKeeps,
       DecideKeeps, PassDoneKeeps
  <2>3. ASSUME NEW f \in File, SkipEntry(f) \/ ReadEntry(f) \/ LookAway(f) \/ LookAt(f)
        PROVE Inv'
    BY <2>3, SkipEntryKeeps, ReadEntryKeeps, LookAwayKeeps, LookAtKeeps
  <2> QED BY <1>2, <2>1, <2>2, <2>3 DEF Capture
<1>3. CASE Rescan BY <1>3, RescanKeeps
<1>4. ASSUME NEW f \in File, Write(f) \/ Delete(f)
      PROVE Inv'
  BY <1>4, WritesKeep
<1> QED BY <1>1, <1>2, <1>3, <1>4 DEF Next

(* The invariant is inductive: at each await of a capture, what it has read is
   what the files held, as far as nobody has written them since (the walks of
   v2-root-manifest.ts and the observation of v2-catalog-adapter.ts). *)
THEOREM BaselineIsInductive == Spec => []Inv
  BY InitHolds, NextKeeps, PTL DEF Spec

(* A complete baseline lists the files of one moment, whatever is written and
   deleted, and whichever way the session gives to read them. *)
THEOREM ManifestOfOneMoment == Spec => []ManifestIsOneMoment
<1>1. Inv => ManifestIsOneMoment BY DEF Inv, Result
<1> QED BY <1>1, BaselineIsInductive, PTL

(* The candidates of a complete baseline are the files its manifest lists, and
   no other file of their directory has their name. *)
THEOREM CandidatesAreListed == Spec => []CandidatesFitManifest
<1>1. Inv => CandidatesFitManifest BY DEF Inv, Result
<1> QED BY <1>1, BaselineIsInductive, PTL

====
