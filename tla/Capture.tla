------------------------------- MODULE Capture -------------------------------
(***************************************************************************)
(* From the logs of the agent sessions to observed turns: the activation   *)
(* that leaves the history alone, the live coordinates and their bounded   *)
(* queue, the recovery lifecycle that drains it, and the scanner that      *)
(* reads the logs in slices and moves one durable cursor per session.      *)
(*                                                                         *)
(* A log is append-only and an event is announced once it is in the log.   *)
(* Positions in a log begin at 0, as in the code; a revision of a log is   *)
(* its length, and a digest of a prefix is the sequence of the positions   *)
(* that were hashed.  Sessions are roots; the lifecycle runs one scan at a *)
(* time.  A row and its cursor are two writes of one exclusive section.    *)
(***************************************************************************)
EXTENDS Integers, Sequences, FiniteSets, Functions

CONSTANTS
    NSession,        \* sessions, in the order of their lifecycle keys
    Logs,            \* what a session may have logged before the plugin starts
    First,           \* the first event of a session
    MaxLog,          \* bound: events of a session
    MaxEvents,       \* bound: events of all sessions together
    QueueLimit,      \* candidates the queue holds (1,024)
    LowWatermark,    \* the queue length at which a catch-up runs (half of it)
    Attempts,        \* of one candidate (four)
    SliceSessions,   \* sessions one batch of a scan works on (64)
    SliceEvents,     \* events one batch of a scan inspects (10,000)
    MaxTroubles      \* bound: reads and writes that fail, and crashes

ASSUME CaptureAssumption ==
    /\ NSession \in Nat \ {0} /\ MaxLog \in Nat /\ MaxEvents \in Nat
    /\ QueueLimit \in Nat \ {0} /\ LowWatermark \in 0 .. (QueueLimit - 1)
    /\ Attempts \in Nat \ {0} /\ SliceSessions \in Nat \ {0} /\ SliceEvents \in Nat \ {0}
    /\ MaxTroubles \in Nat
    /\ First \in {"preset", "start"}

Session == 1 .. NSession
Kind == {"preset", "start", "header", "end"}
Seqs(a, b) == [k \in 1 .. (b - a + 1) |-> a + k - 1]
Least(a, b) == IF a < b THEN a ELSE b
SetMin(S) == CHOOSE x \in S : \A y \in S : x <= y
SetMax(S) == CHOOSE x \in S : \A y \in S : x >= y

VARIABLES
    \* durable
    log,        \* the host's session logs
    active,     \* whether the activation is committed
    rows,       \* the turn observations of each session
    cursor,     \* the session cursors: observed through, log revision, prefix digest
    \* the recovery lifecycle
    life, queue, keys, failed,
    \* the scanner: the batch in progress, its current root, and what it remembers
    scan, root, memo,
    preparing,  \* sessions whose window is being prepared
    \* history and bounds
    heard,      \* the length of each log when the plugin began to listen
    cut,        \* the length of each log that the activation took for history
    troubles

durable == <<active, rows, cursor>>
lifecycle == <<life, queue, keys, failed>>
scanner == <<scan, root, memo>>
history == <<heard, cut>>
vars == <<log, durable, lifecycle, scanner, preparing, history, troubles>>

NoCursor == [known |-> FALSE, seen |-> 0, rev |-> 0, digest |-> <<>>]
NoRoot == [s |-> 0, from |-> 0, read |-> 0, full |-> FALSE, pos |-> 0, stop |-> 0,
           slice |-> 0, prev |-> NoCursor, route |-> 0, bound |-> FALSE, digest |-> <<>>]
NoScan == [by |-> "none", at |-> "idle", rev |-> [s \in Session |-> 0], todo |-> <<>>,
           sessions |-> 0, events |-> 0]
NoMemo == [s \in Session |->
            [partial |-> [from |-> 0, n |-> 0], settled |-> [from |-> 0, rev |-> 0],
             cache |-> [through |-> 0, route |-> 0]]]
Boot == [status |-> "RECOVERING", lag |-> TRUE, catchup |-> FALSE, probe |-> FALSE,
         recover |-> "open", drain |-> "idle", entry |-> <<>>, tries |-> 0,
         fence |-> [s \in Session |-> 0]]

Init ==
    /\ log \in [Session -> Logs]
    /\ active = FALSE
    /\ rows = [s \in Session |-> {}]
    /\ cursor = [s \in Session |-> NoCursor]
    /\ life = Boot /\ queue = <<>> /\ keys = {} /\ failed = {}
    /\ scan = NoScan /\ root = NoRoot /\ memo = NoMemo /\ preparing = {}
    /\ heard = [s \in Session |-> Len(log[s])] /\ cut = [s \in Session |-> 0]
    /\ troubles = 0

EventAt(s, q) == log[s][q + 1]
At(s, a, b, kind) == {q \in a .. b : EventAt(s, q) = kind}
Ends(s) == At(s, 0, Len(log[s]) - 1, "end")
Open(s, n) == Cardinality(At(s, 0, n - 1, "start")) > Cardinality(At(s, 0, n - 1, "end"))
Latest(s, a, b, inherited) ==
    LET headers == At(s, a, b, "header") IN IF headers = {} THEN inherited ELSE SetMax(headers)

Fault == troubles < MaxTroubles /\ troubles' = troubles + 1
NoFault == UNCHANGED troubles

----
(* The lifecycle: a queue of coordinates, one drain, one recovery.           *)

Degraded(l) == [l EXCEPT !.status = "DEGRADED", !.lag = TRUE, !.probe = TRUE]
(* A drain that gives up; the recovery that waits for it returns.            *)
Stopped(l) == [l EXCEPT !.drain = "idle", !.entry = <<>>, !.tries = 0,
                        !.recover = IF @ = "drain" THEN "idle" ELSE @]

(* The drain's promise is what tells that one is running, and it is cleared
   a microtask after its loop has ended.                                     *)
Accepted(l, key) == IF l.status = "READY" /\ l.drain = "idle" THEN [l EXCEPT !.drain = "work"] ELSE l
Accept(s, q) ==
    IF <<s, q>> \in keys THEN UNCHANGED <<life, queue, keys>>
    ELSE IF Len(queue) >= QueueLimit
    THEN life' = [life EXCEPT !.catchup = TRUE] /\ UNCHANGED <<queue, keys>>
    ELSE /\ keys' = keys \cup {<<s, q>>}
         /\ queue' = Append(queue, <<s, q>>)
         /\ life' = Accepted(life, <<s, q>>)

(* A session goes on; the end of a turn is announced to the plugin. *)
Log(s, kind) ==
    /\ Len(log[s]) < MaxLog
    /\ FoldFunction(LAMBDA l, n : Len(l) + n, 0, log) < MaxEvents
    /\ CASE Len(log[s]) = 0 -> kind = First
         [] Len(log[s]) > 0 /\ Open(s, Len(log[s])) -> kind \in {"header", "end"}
         [] OTHER -> kind = "start"
    /\ log' = [log EXCEPT ![s] = Append(@, kind)]
    /\ IF kind = "end" /\ life.status # "DOWN"
       THEN Accept(s, Len(log[s])) ELSE UNCHANGED <<life, queue, keys>>
    /\ UNCHANGED <<durable, failed, scanner, preparing, history, troubles>>

Quiet == UNCHANGED <<log, history>>
Still == UNCHANGED <<log, preparing, history>>

(* The lifecycle opens a runtime: the fence is the time it is built at. *)
OpenRuntime ==
    /\ life.recover = "open"
    /\ scan' = NoScan /\ root' = NoRoot /\ memo' = NoMemo /\ preparing' = {}
    /\ \/ NoFault /\ life' = [life EXCEPT !.recover = "activate",
                                          !.fence = [s \in Session |-> Len(log[s])]]
       \/ Fault /\ life' = [Degraded(life) EXCEPT !.recover = "idle"]
    /\ UNCHANGED <<durable, queue, keys, failed>> /\ Quiet

(* The last event of the history of a session, -1 when there is none, -2 when
   a turn that was open at the fence has not ended.                          *)
ActivationTail(s, fence) ==
    LET later == At(s, fence, Len(log[s]) - 1, "end")
        end == SetMin(later)
        starts == At(s, end, Len(log[s]) - 1, "start")
    IN  IF ~Open(s, fence) THEN fence - 1
        ELSE IF later = {} THEN -2
        ELSE IF starts = {} THEN Len(log[s]) - 1 ELSE SetMin(starts) - 1

Rebuilt(s) ==
    LET tail == CHOOSE r \in rows[s] : \A o \in rows[s] : r.end >= o.end
    IN  IF rows[s] = {} THEN cursor[s]
        ELSE [known |-> TRUE, rev |-> tail.rev, digest |-> tail.digest,
              seen |-> IF cursor[s].seen > tail.end THEN cursor[s].seen ELSE tail.end]

(* Activation on first use; otherwise the cursors are rebuilt from the rows. *)
Activate ==
    LET tail == [s \in Session |-> ActivationTail(s, life.fence[s])]
        running == {s \in Session : tail[s] = -2}
    IN  /\ life.recover = "activate"
        /\ \/ /\ NoFault
              /\ IF active
                 THEN /\ cursor' = [s \in Session |-> Rebuilt(s)]
                      /\ life' = [life EXCEPT !.recover = "scan", !.fence = Boot.fence]
                      /\ scan' = [NoScan EXCEPT !.by = "recover", !.at = "list"]
                      /\ UNCHANGED <<active, cut>>
                 ELSE IF running # {}
                 THEN /\ life' = [Degraded(life) EXCEPT !.recover = "idle", !.fence = Boot.fence]
                      /\ UNCHANGED <<active, cursor, cut, scan>>
                 ELSE /\ active' = TRUE
                      /\ cursor' = [s \in Session |->
                           IF tail[s] = -1 THEN NoCursor
                           ELSE [known |-> TRUE, seen |-> tail[s], rev |-> Len(log[s]),
                                 digest |-> Seqs(0, tail[s])]]
                      /\ cut' = [s \in Session |-> tail[s] + 1]
                      /\ life' = [life EXCEPT !.recover = "scan", !.fence = Boot.fence]
                      /\ scan' = [NoScan EXCEPT !.by = "recover", !.at = "list"]
           \/ /\ Fault
              /\ life' = [Degraded(life) EXCEPT !.recover = "idle", !.fence = Boot.fence]
              /\ UNCHANGED <<active, cursor, cut, scan>>
        /\ UNCHANGED <<log, rows, queue, keys, failed, root, memo, preparing, heard>>

ProbeFires ==
    /\ life.probe /\ life.recover = "idle" /\ life.status # "DOWN"
    /\ life' = [life EXCEPT !.probe = FALSE, !.recover = "open", !.status = "RECOVERING", !.lag = TRUE]
    /\ UNCHANGED <<durable, queue, keys, failed, scanner, troubles>> /\ Still

(* The drain takes the next coordinate, or ends. *)
TakeNext ==
    /\ life.drain = "work" /\ queue # <<>>
    /\ queue' = Tail(queue)
    /\ life' = [life EXCEPT !.drain = "try", !.entry = Head(queue), !.tries = 1]
    /\ UNCHANGED <<durable, keys, failed, scanner, troubles>> /\ Still
LoopEnds ==
    /\ life.drain = "work" /\ queue = <<>>
    /\ life' = [life EXCEPT !.drain = "settling"]
    /\ UNCHANGED <<durable, queue, keys, failed, scanner, troubles>> /\ Still
DrainSettles ==
    /\ life.drain = "settling"
    /\ life' = IF life.recover # "drain" THEN [life EXCEPT !.drain = "idle"]
               ELSE [life EXCEPT !.recover = "idle", !.status = "READY", !.lag = FALSE,
                                 !.drain = IF queue = <<>> THEN "idle" ELSE "work"]
    /\ UNCHANGED <<durable, queue, keys, failed, scanner, troubles>> /\ Still

(* An attempt at a coordinate that failed; the last one gives it up to the
   scan of the next recovery.                                                *)
AttemptFails ==
    IF life.tries < Attempts
    THEN life' = [life EXCEPT !.drain = "try", !.tries = @ + 1] /\ UNCHANGED failed
    ELSE life' = Degraded(Stopped(life)) /\ failed' = failed \cup {life.entry}

(* Whoever scans learns that the scan failed. *)
ScanFails ==
    /\ scan' = NoScan /\ root' = NoRoot
    /\ CASE scan.by = "candidate" -> AttemptFails
         [] scan.by = "catchup" -> life' = Degraded(Stopped(life)) /\ UNCHANGED failed
         [] OTHER -> life' = [Degraded(life) EXCEPT !.recover = "idle"] /\ UNCHANGED failed

TryEntry ==
    /\ life.drain = "try"
    /\ \/ /\ NoFault /\ UNCHANGED failed
          /\ life' = [life EXCEPT !.drain = "scan"]
          /\ scan' = [NoScan EXCEPT !.by = "candidate", !.at = "list"]
       \/ Fault /\ AttemptFails /\ UNCHANGED scan
    /\ UNCHANGED <<durable, queue, keys, root, memo>> /\ Still

(* A scan is complete: the caller goes on. *)
Completed ==
    LET s == life.entry[1]
        q == life.entry[2]
    IN  CASE scan.by = "recover" ->
               /\ keys' = keys \ failed /\ failed' = {}
               /\ life' = [life EXCEPT !.lag = FALSE, !.recover = "drain", !.drain = "work"]
          [] scan.by = "catchup" ->
               /\ life' = [life EXCEPT !.lag = FALSE, !.catchup = FALSE, !.drain = "work"]
               /\ UNCHANGED <<keys, failed>>
          [] OTHER ->
               IF ~cursor[s].known \/ cursor[s].seen < q
               THEN AttemptFails /\ UNCHANGED keys
               ELSE /\ keys' = keys \ {life.entry} /\ UNCHANGED failed
                    /\ life' = [life EXCEPT !.entry = <<>>, !.tries = 0, !.drain =
                         IF life.catchup /\ Len(queue) <= LowWatermark THEN "catchup" ELSE "work"]

CatchUp ==
    /\ life.drain = "catchup" /\ scan.at = "idle"
    /\ scan' = [NoScan EXCEPT !.by = "catchup", !.at = "list"]
    /\ UNCHANGED <<durable, lifecycle, root, memo, troubles>> /\ Still

----
(* The scanner.                                                              *)

List ==
    /\ scan.at = "list"
    /\ \/ /\ NoFault /\ UNCHANGED <<life, failed, root>>
          /\ scan' = [scan EXCEPT !.at = "visit", !.rev = [s \in Session |-> Len(log[s])],
                        !.todo = SelectSeq(Seqs(1, NSession), LAMBDA s : Len(log[s]) > 0),
                        !.sessions = 0, !.events = 0]
       \/ Fault /\ ScanFails
    /\ UNCHANGED <<durable, queue, keys, memo>> /\ Still

Unverified(c) == c.known /\ c.seen = 0 /\ c.rev = 0
FromSeq(c) == IF ~c.known \/ Unverified(c) THEN 0 ELSE c.seen + 1
MustValidate(s) == cursor[s].known /\ ~Unverified(cursor[s]) /\ cursor[s].rev # scan.rev[s]
Settled(s) ==
    /\ ~MustValidate(s) /\ memo[s].partial.n = 0
    /\ memo[s].settled = [from |-> FromSeq(cursor[s]), rev |-> scan.rev[s]]
Prefix(s, n) == Seqs(0, n)
SliceIsFull == scan.sessions >= SliceSessions \/ scan.events >= SliceEvents
Visiting == scan.at = "visit" /\ scan.todo # <<>> /\ ~SliceIsFull
Here == Head(scan.todo)

EndBatch ==
    /\ \/ scan.at = "end"
       \/ scan.at = "visit" /\ (scan.todo = <<>> \/ SliceIsFull)
    /\ IF scan.todo # <<>> \/ \E s \in Session : memo[s].partial.n > 0
       THEN scan' = [scan EXCEPT !.at = "list", !.todo = <<>>] /\ UNCHANGED <<life, keys, failed>>
       ELSE scan' = NoScan /\ Completed
    /\ root' = NoRoot
    /\ UNCHANGED <<durable, queue, memo, troubles>> /\ Still

SkipSettled ==
    /\ Visiting /\ Settled(Here)
    /\ scan' = [scan EXCEPT !.todo = Tail(@)]
    /\ UNCHANGED <<durable, lifecycle, root, memo, troubles>> /\ Still

(* Mutant of Saved: what was inspected is counted from any cursor. *)
SavedOfAnyCursor(s, from) == memo[s].partial.n
(* A root is read, its prefix validated when its revision has moved, and the
   part of it that this batch may inspect is fixed.                          *)
Saved(s, from) == IF memo[s].partial.n > 0 /\ memo[s].partial.from = from THEN memo[s].partial.n ELSE 0
Cached(s, c) == c.known /\ memo[s].cache.through = c.seen /\ memo[s].cache.through # 0
ReadRoot ==
    LET s == Here
        c == cursor[s]
        from == FromSeq(c)
        read == Len(log[s])
        start == Saved(s, from)
        stop == from + Least(read - from, start + SliceEvents - scan.events)
    IN  /\ Visiting /\ ~Settled(s)
        /\ IF MustValidate(s) /\ (read <= c.seen \/ c.digest # Prefix(s, c.seen))
           THEN NoFault /\ ScanFails /\ UNCHANGED memo
           ELSE \/ Fault /\ ScanFails /\ UNCHANGED memo
                \/ /\ NoFault /\ UNCHANGED <<life, failed>>
                   /\ IF from >= read
                      THEN /\ scan' = [scan EXCEPT !.at = "note"]
                           /\ memo' = [memo EXCEPT ![s].partial = NoMemo[s].partial,
                                                   ![s].settled = NoMemo[s].settled]
                           /\ root' = [NoRoot EXCEPT !.s = s, !.from = from, !.read = read,
                                                     !.full = MustValidate(s), !.prev = c]
                      ELSE /\ scan' = [scan EXCEPT !.at = "turns", !.sessions = @ + 1,
                                                   !.events = @ + (stop - from - start)]
                           /\ root' = [s |-> s, from |-> from, read |-> read, full |-> MustValidate(s),
                                       pos |-> from + start, stop |-> stop, slice |-> from, prev |-> c,
                                       route |-> IF Cached(s, c) THEN memo[s].cache.route ELSE 0,
                                       bound |-> ~c.known \/ from = 0 \/ Cached(s, c),
                                       digest |-> c.digest \o Seqs(from, from + start - 1)]
                           /\ UNCHANGED memo
        /\ UNCHANGED <<durable, queue, keys>> /\ Still

TurnEnds == At(root.s, root.pos, root.stop - 1, "end")
TurnEnd == SetMin(TurnEnds)
HasRoute == At(root.s, root.slice, TurnEnd, "header") # {}
(* The route a turn inherits: what the scan or the scanner remembers, or else
   what the log says up to the cursor.                                       *)
Inherited ==
    IF root.bound \/ HasRoute THEN root.route
    ELSE Latest(root.s, 0, root.prev.seen, 0)
Observation ==
    [end |-> TurnEnd, from |-> root.slice, rev |-> scan.rev[root.s],
     route |-> Latest(root.s, root.slice, TurnEnd, Inherited),
     digest |-> root.digest \o Seqs(root.pos, TurnEnd)]
(* What the projection of a turn and the coordinator refuse. *)
Projected == Cardinality(At(root.s, root.slice, TurnEnd, "start")) = 1
Conflicts(o) ==
    \/ \E r \in rows[root.s] : r.end = o.end /\ r # o
    \/ o \notin rows[root.s] /\ cursor[root.s].known /\ o.end <= cursor[root.s].seen

(* Mutant of PutRow: a row that could not be stored is passed over. *)
PutRowOrGoOn ==
    /\ scan.at = "turns" /\ TurnEnds # {}
    /\ IF ~Projected \/ Conflicts(Observation)
       THEN NoFault /\ ScanFails /\ UNCHANGED rows
       ELSE /\ scan' = [scan EXCEPT !.at = "row"]
            /\ \/ Fault /\ UNCHANGED rows
               \/ NoFault /\ rows' = [rows EXCEPT ![root.s] = @ \cup {Observation}]
            /\ UNCHANGED <<life, failed, root>>
    /\ UNCHANGED <<active, cursor, queue, keys, memo>> /\ Still
PutRow ==
    /\ scan.at = "turns" /\ TurnEnds # {}
    /\ IF ~Projected \/ Conflicts(Observation)
       THEN NoFault /\ ScanFails /\ UNCHANGED rows
       ELSE \/ Fault /\ ScanFails /\ UNCHANGED rows
            \/ /\ NoFault /\ scan' = [scan EXCEPT !.at = "row"]
               /\ rows' = [rows EXCEPT ![root.s] = @ \cup {Observation}]
               /\ UNCHANGED <<life, failed, root>>
    /\ UNCHANGED <<active, cursor, queue, keys, memo>> /\ Still

Moved(c, o) == [known |-> TRUE, seen |-> IF o.end > c.seen THEN o.end ELSE c.seen,
                rev |-> o.rev, digest |-> o.digest]
MoveCursor ==
    LET s == root.s
        o == Observation
    IN  /\ scan.at = "row"
        /\ \/ Fault /\ ScanFails /\ UNCHANGED <<cursor, memo>>
           \/ /\ NoFault
              /\ cursor' = [cursor EXCEPT ![s] = Moved(@, o)]
              /\ memo' = [memo EXCEPT ![s].cache = [through |-> o.end, route |-> o.route]]
              /\ root' = [root EXCEPT !.pos = o.end + 1, !.slice = o.end + 1, !.bound = TRUE,
                                      !.route = o.route, !.digest = o.digest]
              /\ scan' = [scan EXCEPT !.at = "turns"]
              /\ UNCHANGED <<life, failed>>
        /\ UNCHANGED <<active, rows, queue, keys>> /\ Still

(* No further turn ends in the part inspected. *)
Remembered(m) ==
    IF root.stop < root.read
    THEN [m EXCEPT !.partial = [from |-> root.from, n |-> root.stop - root.from],
                   !.settled = NoMemo[root.s].settled]
    ELSE [m EXCEPT !.partial = NoMemo[root.s].partial,
                   !.settled = IF root.slice < root.stop
                               THEN [from |-> root.from, rev |-> scan.rev[root.s]]
                               ELSE NoMemo[root.s].settled]
InspectedAll ==
    /\ scan.at = "turns" /\ TurnEnds = {}
    /\ memo' = [memo EXCEPT ![root.s] = Remembered(@)]
    /\ scan' = [scan EXCEPT !.at = "note"]
    /\ UNCHANGED <<durable, lifecycle, root, troubles>> /\ Still

(* Mutant of Noted: the digest covers what was inspected, not what was observed. *)
NotedInspected(c) ==
    IF ~c.known THEN c
    ELSE IF root.prev.rev # 0
    THEN [c EXCEPT !.rev = scan.rev[root.s], !.digest = root.prev.digest \o Seqs(root.from, root.stop - 1)]
    ELSE [c EXCEPT !.rev = scan.rev[root.s], !.digest = Prefix(root.s, c.seen)]
(* The revision and the digest that the next scan validates against. *)
Noted(c) ==
    LET p == root.prev
        whole == root.full \/ ~p.known
    IN  IF ~c.known THEN c
        ELSE IF whole
        THEN IF root.read > c.seen
             THEN [c EXCEPT !.rev = scan.rev[root.s], !.digest = Prefix(root.s, c.seen)] ELSE c
        ELSE IF p.rev # 0 /\ c.seen >= p.seen
        THEN [c EXCEPT !.rev = scan.rev[root.s], !.digest = p.digest \o Seqs(root.from, c.seen)]
        ELSE c
Note ==
    /\ scan.at = "note"
    /\ \/ Fault /\ ScanFails /\ UNCHANGED cursor
       \/ /\ NoFault /\ UNCHANGED <<life, failed>>
          /\ cursor' = [cursor EXCEPT ![root.s] = Noted(@)]
          /\ \E slow \in BOOLEAN :
                scan' = [scan EXCEPT !.todo = Tail(@),
                            !.at = IF slow /\ root.from < root.read THEN "end" ELSE "visit"]
          /\ root' = NoRoot
    /\ UNCHANGED <<active, rows, queue, keys, memo>> /\ Still

----
(* The first step of a turn prepares the window of its session, once nothing
   seems left to capture; the cursor is written in a later exclusive section. *)

(* Mutant of CaughtUp: an empty queue is taken for a drain that has ended. *)
CaughtUpWhileDraining ==
    life.status = "READY" /\ ~life.lag /\ ~life.catchup /\ queue = <<>> /\ life.recover = "idle"
CaughtUp ==
    /\ life.status = "READY" /\ ~life.lag /\ ~life.catchup /\ queue = <<>>
    /\ life.recover = "idle" /\ life.drain = "idle"
PrepareWindow(s) ==
    /\ CaughtUp /\ s \notin preparing
    /\ log[s] # <<>> /\ EventAt(s, Len(log[s]) - 1) = "start"
    /\ preparing' = preparing \cup {s}
    /\ UNCHANGED <<log, durable, lifecycle, scanner, history, troubles>>
WindowPrepared(s) ==
    /\ s \in preparing /\ scan.at # "row"
    /\ preparing' = preparing \ {s}
    /\ cursor' = [cursor EXCEPT ![s].known = TRUE]
    /\ UNCHANGED <<log, active, rows, lifecycle, scanner, history, troubles>>

Crash ==
    /\ Fault /\ life.status # "DOWN"
    /\ life' = [Boot EXCEPT !.status = "DOWN", !.recover = "idle"]
    /\ queue' = <<>> /\ keys' = {} /\ failed' = {}
    /\ scan' = NoScan /\ root' = NoRoot /\ memo' = NoMemo /\ preparing' = {}
    /\ UNCHANGED <<log, durable, history>>
Start ==
    /\ life.status = "DOWN" /\ life' = Boot
    /\ heard' = IF active THEN heard ELSE [s \in Session |-> Len(log[s])]
    /\ UNCHANGED <<log, durable, queue, keys, failed, scanner, preparing, cut, troubles>>

Program ==
    \/ OpenRuntime \/ Activate \/ ProbeFires \/ TakeNext \/ LoopEnds \/ DrainSettles
    \/ TryEntry \/ CatchUp \/ List \/ EndBatch \/ SkipSettled \/ ReadRoot
    \/ PutRow \/ MoveCursor \/ InspectedAll \/ Note \/ Start
    \/ \E s \in Session : WindowPrepared(s)
Next ==
    \/ \E s \in Session, k \in Kind : Log(s, k)
    \/ \E s \in Session : PrepareWindow(s)
    \/ Program \/ Crash
Spec == Init /\ [][Next]_vars
(* A promise once started runs to its next wait, timers fire, and the host
   starts its plugins.                                                       *)
FairSpec == Spec /\ WF_vars(Program)

----
(* Every durable record and all the process keeps beside them has its type. *)
TypeOK ==
    /\ log \in [Session -> Seq(Kind)] /\ \A s \in Session : Len(log[s]) <= MaxLog
    /\ active \in BOOLEAN
    /\ \A s \in Session : cursor[s].seen \in 0 .. MaxLog /\ cursor[s].rev \in 0 .. MaxLog
    /\ \A s \in Session : \A r \in rows[s] : r.end \in Ends(s) /\ r.rev \in 1 .. Len(log[s])
    /\ life.status \in {"DOWN", "RECOVERING", "READY", "DEGRADED"}
    /\ life.recover \in {"idle", "open", "activate", "scan", "drain"}
    /\ life.drain \in {"idle", "work", "try", "scan", "catchup", "settling"}
    /\ scan.by \in {"none", "recover", "candidate", "catchup"}
    /\ Len(queue) <= QueueLimit
    /\ keys = {queue[k] : k \in 1 .. Len(queue)} \cup failed
              \cup (IF life.entry = <<>> THEN {} ELSE {life.entry})

(* The turns of the history are not learned again, every turn after it that
   the cursor has passed is stored, and a stored turn is the whole turn.     *)
TurnsAreObserved ==
    \A s \in Session :
        /\ \A e \in Ends(s) : cut[s] <= e /\ cursor[s].known /\ e <= cursor[s].seen
                => \E r \in rows[s] : r.end = e
        /\ \A r \in rows[s] :
            /\ r.from >= cut[s]
            /\ At(s, r.from, r.end, "end") = {r.end}
            /\ Cardinality(At(s, r.from, r.end, "start")) = 1

(* The digest kept with a cursor is that of the prefix up to it: a log that
   only grows is never taken for one that was rolled back.                   *)
DigestIsThePrefix ==
    \A s \in Session : cursor[s].rev # 0 => cursor[s].digest = Prefix(s, cursor[s].seen)

(* When a window is prepared every turn its session has ended is observed. *)
WindowFollowsTurns ==
    [][\A s \in preparing' \ preparing : \A e \in Ends(s) :
            cursor[s].known /\ e <= cursor[s].seen]_vars

Due(s, e) == active /\ e >= cut[s]
Stored(s, e) == \E r \in rows[s] : r.end = e

(* Again and again every turn that ended after the activation is observed, or
   lies in the queue of a plugin that is ready and drains it with the next one. *)
EndedIsObservedOrQueued ==
    []<>(\A s \in Session : \A e \in Ends(s) : Due(s, e) =>
            Stored(s, e) \/ (<<s, e>> \in keys /\ life.status = "READY"))

====
