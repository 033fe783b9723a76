---------------------------- MODULE SettingsPage ----------------------------
(***************************************************************************)
(* Clearing the cache from the settings page, and the page's list of       *)
(* recent activity, which must not show what was cleared.                  *)
(*                                                                         *)
(* PurgeSettingsController has two calls of its own under way, at most: an *)
(* operation (a preview, a confirmation and the readback after a failed    *)
(* one) and the poll of the purge's status.  The activity section reads    *)
(* until it has seen the same revision three times and then goes on        *)
(* asking.  It is mounted anew whenever its key changes, which holds the   *)
(* controller's data epoch; what an unmounted section asked for is         *)
(* dropped.  The answers come in any order.  Purge and ProposalDesk have   *)
(* what the host does in detail; here a skill is drafted, published and    *)
(* cleared, each of which moves the catalog epoch, and another window may  *)
(* clear the cache too.                                                    *)
(***************************************************************************)
EXTENDS Naturals, Sequences, FiniteSets

CONSTANTS
    Skills,       \* lineages that may come to be
    MaxPreviews,  \* bound: previews, this page's and the other window's
    MaxFaults,    \* bound: failures of the host, restarts, calls that are lost
    MaxMoves,     \* bound: times the page is hidden or folded, previews asked for
    Attempts      \* reads before the section gives up (8 in the code)

ASSUME BoundsAssumption ==
    /\ MaxPreviews \in Nat \ {0} /\ MaxFaults \in Nat /\ MaxMoves \in Nat
    /\ Attempts \in Nat \ {0}

Previews == 1 .. MaxPreviews

VARIABLES
    skill,      \* the host's lineages
    purge,      \* the journal, the catalog epoch, the operation on the tail
    queue,      \* confirmations that wait for the tail
    offers,     \* #previews and #completed
    panel,      \* PurgeSettingsState
    job,        \* #pending: the operation's call
    poll,       \* #statusPending: the poll's call
    ui,         \* the tab's visibility, the sections that are unfolded
    section,    \* the activity section
    read,       \* its call
    known,      \* history: cleared before the page was told of a completion
    spent       \* of the bounds

host == <<skill, purge, queue, offers>>
calls == <<job, poll, read>>
page == <<panel, ui, section, known>>
vars == <<host, calls, page, spent>>

NoJournal == [by |-> 0, phase |-> "NONE", marked |-> 0]
NoOp == [by |-> 0, step |-> "NONE", for |-> "NONE"]
Unavailable == [ok |-> "NO"]
NoView == [ok |-> "NONE"]
NoCall == [kind |-> "NONE", at |-> "NONE", arg |-> 0, ans |-> Unavailable]
NoRead == [at |-> "NONE", ans |-> Unavailable]
Unread == [phase |-> "IDLE", view |-> NoView, confirmed |-> 0, tries |-> 0]
Reading == [Unread EXCEPT !.phase = "LOADING"]

Init ==
    /\ skill = [s \in Skills |-> "NONE"]
    /\ purge = [journal |-> NoJournal, epoch |-> 0, op |-> NoOp, up |-> TRUE, cleared |-> {}]
    /\ queue = <<>>
    /\ offers = [n \in Previews |-> [rows |-> {}, st |-> "NONE"]]
    /\ panel = [phase |-> "LOADING", status |-> "NONE", preview |-> 0, scope |-> FALSE,
                previewing |-> FALSE, mutating |-> FALSE]
    /\ job = NoCall /\ poll = NoCall
    /\ ui = [tab |-> TRUE, open |-> {}]
    /\ section = Unread /\ read = NoRead
    /\ known = {}
    /\ spent = [faults |-> 0, moves |-> 0]

Fault == spent.faults < MaxFaults /\ spent' = [spent EXCEPT !.faults = @ + 1]
Move == spent.moves < MaxMoves /\ spent' = [spent EXCEPT !.moves = @ + 1]

----
(* The host.  A purge deletes what existed when it was previewed.            *)
Live == {s \in Skills : skill[s] \in {"DRAFT", "PUBLISHED"}}
Candidates(n) == offers[n].rows \cap Live
Status == IF purge.journal.by = 0 THEN "IDLE" ELSE "IN_PROGRESS"
View == [ok |-> "OK", epoch |-> purge.epoch, journal |-> purge.journal,
         items |-> {s \in Skills : skill[s] = "PUBLISHED"}]

Unused == {n \in Previews : offers[n].st = "NONE"}
Offer(n) ==
    /\ n \in Unused /\ \A k \in Unused : n <= k
    /\ offers' = [offers EXCEPT ![n] = [rows |-> Live, st |-> "OFFERED"]]

(* What a caller is answered; the other window's answers are not followed.   *)
Answer(c, a) == [c EXCEPT !.at = "ANSWERED", !.ans = a]
Replied(for, a) == IF for = "PAGE" THEN Answer(job, a) ELSE job

(* The pipeline: nothing is drafted or published while the journal stands.   *)
Learn(s) ==
    /\ purge.up /\ purge.journal = NoJournal
    /\ \/ skill[s] = "NONE" /\ skill' = [skill EXCEPT ![s] = "DRAFT"]
       \/ skill[s] = "DRAFT" /\ skill' = [skill EXCEPT ![s] = "PUBLISHED"]
    /\ purge' = [purge EXCEPT !.epoch = @ + 1]
    /\ UNCHANGED <<queue, offers, calls, page, spent>>

OtherConfirms ==
    /\ purge.up /\ purge.journal = NoJournal
    /\ job.kind = "PREVIEW" /\ job.at = "SENT" => Cardinality(Unused) > 1   \* of the bound
    /\ \E n \in Previews : Offer(n) /\ queue' = Append(queue, [by |-> n, for |-> "OTHER"])
    /\ Fault /\ UNCHANGED <<skill, purge, calls, page>>

Take == purge.op = NoOp /\ purge.up /\ queue # <<>> /\ queue' = Tail(queue)

(* The preview has been confirmed already, is no longer what would be deleted,
   was lost with the process or has expired; or the pipeline is at work.     *)
Stale(n) == offers[n].st # "OFFERED" \/ Candidates(n) # offers[n].rows
Refuse ==
    /\ Take
    /\ LET c == Head(queue)
           done == offers[c.by].st = "DONE"
       IN  /\ job' = Replied(c.for, IF done THEN [ok |-> "COMPLETED"] ELSE Unavailable)
           /\ \/ done \/ Stale(c.by) \/ purge.journal.by \notin {0, c.by}
              \/ spent.faults < MaxFaults
           /\ IF done \/ Stale(c.by) \/ purge.journal.by \notin {0, c.by}
              THEN UNCHANGED spent ELSE Fault
    /\ UNCHANGED <<skill, purge, offers, poll, read, page>>

Begin ==
    /\ Take
    /\ LET c == Head(queue)
       IN  /\ ~Stale(c.by) /\ purge.journal.by \in {0, c.by}
           /\ purge' = [purge EXCEPT
                 !.journal = IF @.by = 0 THEN [NoJournal EXCEPT !.by = c.by, !.phase = "HIDING"]
                            ELSE @,
                 !.op = [by |-> c.by, step |-> "MARK", for |-> c.for]]
    /\ UNCHANGED <<skill, offers, calls, page, spent>>

(* The phase of the journal, and when it was written. *)
Phased(journal, phase) == [journal EXCEPT !.phase = phase, !.marked = @ + 1]
Mark ==
    /\ purge.op.step = "MARK"
    /\ purge' = [purge EXCEPT !.journal = Phased(@, "DELETING"), !.op.step = "DELETE"]
    /\ UNCHANGED <<skill, queue, offers, calls, page, spent>>

Delete ==
    /\ purge.op.step = "DELETE"
    /\ \E s \in Candidates(purge.op.by) : skill' = [skill EXCEPT ![s] = "PURGED"]
    /\ UNCHANGED <<purge, queue, offers, calls, page, spent>>

Validate ==
    /\ purge.op.step = "DELETE" /\ Candidates(purge.op.by) = {}
    /\ purge' = [purge EXCEPT !.journal = Phased(@, "VERIFYING"), !.op.step = "CLEAR"]
    /\ UNCHANGED <<skill, queue, offers, calls, page, spent>>

Clear ==
    /\ purge.op.step = "CLEAR"
    /\ LET op == purge.op
       IN  /\ offers' = IF op.for = "RECOVERY" THEN offers ELSE [offers EXCEPT ![op.by].st = "DONE"]
           /\ job' = Replied(op.for, [ok |-> "COMPLETED"])
    /\ purge' = [purge EXCEPT !.journal = NoJournal, !.epoch = @ + 1, !.op = NoOp,
                     !.cleared = {s \in Skills : skill[s] = "PURGED"}]
    /\ UNCHANGED <<skill, queue, poll, read, page, spent>>

(* A write fails: the operation ends and its journal stays. *)
Fail ==
    /\ purge.op # NoOp /\ Fault
    /\ purge' = [purge EXCEPT !.op = NoOp]
    /\ job' = Replied(purge.op.for, Unavailable)
    /\ UNCHANGED <<skill, queue, offers, poll, read, page>>

(* The process dies with its previews; calls that had arrived are not answered. *)
Restart ==
    /\ purge.up /\ Fault
    /\ purge' = [purge EXCEPT !.up = FALSE, !.op = NoOp]
    /\ queue' = <<>>
    /\ offers' = [n \in Previews |->
                    [offers[n] EXCEPT !.st = IF @ = "NONE" THEN @ ELSE "LOST"]]
    /\ job' = IF job.at = "ARRIVED" THEN Answer(job, Unavailable) ELSE job
    /\ UNCHANGED <<skill, poll, read, page>>

Recover ==
    /\ ~purge.up /\ purge.op = NoOp
    /\ purge' = IF purge.journal = NoJournal THEN [purge EXCEPT !.up = TRUE]
                ELSE [purge EXCEPT !.op = [by |-> purge.journal.by, step |-> "MARK",
                                           for |-> "RECOVERY"]]
    /\ UNCHANGED <<skill, queue, offers, calls, page, spent>>

(* The endpoints. *)
StatusAnswer == IF purge.up THEN [ok |-> Status] ELSE Unavailable

HandlePreview ==
    /\ job.kind = "PREVIEW" /\ job.at = "SENT"
    /\ IF purge.up /\ purge.journal = NoJournal
       THEN \E n \in Previews : Offer(n) /\ job' = Answer(job, [ok |-> "OK", id |-> n])
       ELSE job' = Answer(job, Unavailable) /\ UNCHANGED offers
    /\ UNCHANGED <<skill, purge, queue, poll, read, page, spent>>

HandleConfirm ==
    /\ job.kind = "CONFIRM" /\ job.at = "SENT"
    /\ IF purge.up
       THEN /\ queue' = Append(queue, [by |-> job.arg, for |-> "PAGE"])
            /\ job' = [job EXCEPT !.at = "ARRIVED"]
       ELSE job' = Answer(job, Unavailable) /\ UNCHANGED queue
    /\ UNCHANGED <<skill, purge, offers, poll, read, page, spent>>

HandleStatus ==
    /\ \/ job.kind = "READBACK" /\ job.at = "SENT" /\ job' = Answer(job, StatusAnswer)
          /\ UNCHANGED poll
       \/ poll.at = "SENT" /\ poll' = Answer(poll, StatusAnswer) /\ UNCHANGED job
    /\ UNCHANGED <<host, read, page, spent>>

HandleRead ==
    /\ read.at = "SENT"
    /\ read' = Answer(read, IF ~purge.up THEN Unavailable
                            ELSE IF section.view \notin {NoView, View} THEN [ok |-> "STALE"]
                            ELSE View)
    /\ UNCHANGED <<host, job, poll, page, spent>>

(* A call fails on its way, or its answer does; a confirmation that has arrived
   goes on.                                                                  *)
Lose ==
    /\ Fault
    /\ \/ /\ job.at \in {"SENT", "ARRIVED"} /\ job' = Answer(job, Unavailable)
          /\ queue' = [i \in DOMAIN queue |->
                         IF job.at = "ARRIVED" THEN [queue[i] EXCEPT !.for = "OTHER"] ELSE queue[i]]
          /\ purge' = IF job.at = "ARRIVED" /\ purge.op.for = "PAGE"
                      THEN [purge EXCEPT !.op.for = "OTHER"] ELSE purge
          /\ UNCHANGED <<poll, read>>
       \/ poll.at = "SENT" /\ poll' = Answer(poll, Unavailable)
          /\ UNCHANGED <<job, read, queue, purge>>
       \/ read.at = "SENT" /\ read' = Answer(read, Unavailable)
          /\ UNCHANGED <<job, poll, queue, purge>>
    /\ UNCHANGED <<skill, offers, page>>

----
(* The page.  The activity section is mounted anew when its key changes.     *)
Watching == ui.tab /\ "purge" \in ui.open           \* the controller is #active
Changing(p) == p.mutating \/ p.status = "IN_PROGRESS"
Active(p, u) == u.tab /\ "activity" \in u.open /\ ~Changing(p)
Remount(anew) ==
    IF anew \/ Active(panel', ui') # Active(panel, ui)
    THEN section' = (IF Active(panel', ui') THEN Reading ELSE Unread) /\ read' = NoRead
    ELSE UNCHANGED <<section, read>>

(* The slip of a section that what the controller publishes does not mount anew. *)
PublishUnseen(p, anew) == panel' = p /\ UNCHANGED <<ui, section, read>>

(* "anew": with the next hostDataEpoch, which the key holds. *)
Publish(p, anew) == panel' = p /\ UNCHANGED ui /\ Remount(anew)
Completed(p) == [p EXCEPT !.phase = "READY", !.status = "IDLE", !.preview = 0,
                    !.scope = FALSE, !.mutating = FALSE]
Sent(kind, arg) == [NoCall EXCEPT !.kind = kind, !.at = "SENT", !.arg = arg]

ClickPreview ==
    /\ Watching /\ ~panel.previewing /\ ~Changing(panel)
    /\ panel.preview = 0 \/ ~panel.scope            \* no dialog above the button
    /\ job = NoCall /\ Unused # {} /\ Move
    /\ job' = Sent("PREVIEW", 0)
    /\ Publish([panel EXCEPT !.previewing = TRUE, !.scope = TRUE, !.preview = 0], FALSE)
    /\ UNCHANGED <<host, poll, known>>

PreviewReceived ==
    /\ job.kind = "PREVIEW" /\ job.at = "ANSWERED" /\ job' = NoCall
    /\ Publish(IF job.ans.ok = "OK"
               THEN [panel EXCEPT !.previewing = FALSE, !.preview = job.ans.id]
               ELSE [panel EXCEPT !.previewing = FALSE, !.preview = 0], FALSE)
    /\ UNCHANGED <<host, poll, known, spent>>

Dialog == Watching /\ panel.preview # 0 /\ panel.scope /\ ~panel.mutating

CancelPreview ==
    /\ Dialog /\ Publish([panel EXCEPT !.preview = 0, !.scope = FALSE], FALSE)
    /\ UNCHANGED <<host, job, poll, known, spent>>

Confirm ==
    /\ Dialog /\ job = NoCall /\ job' = Sent("CONFIRM", panel.preview)
    /\ Publish([panel EXCEPT !.mutating = TRUE], TRUE)
    /\ UNCHANGED <<host, poll, known, spent>>

ConfirmReceived ==
    /\ job.kind = "CONFIRM" /\ job.at = "ANSWERED"
    /\ IF job.ans.ok = "COMPLETED"
       THEN job' = NoCall /\ Publish(Completed(panel), TRUE) /\ known' = purge.cleared
       ELSE /\ job' = Sent("READBACK", 0)
            /\ Publish([panel EXCEPT !.mutating = FALSE, !.preview = 0, !.scope = FALSE], FALSE)
            /\ UNCHANGED known
    /\ UNCHANGED <<host, poll, spent>>

ReadbackReceived ==
    /\ job.kind = "READBACK" /\ job.at = "ANSWERED" /\ job' = NoCall
    /\ Publish(IF job.ans = Unavailable THEN panel
               ELSE [panel EXCEPT !.phase = "READY", !.status = job.ans.ok], FALSE)
    /\ UNCHANGED <<host, poll, known, spent>>

(* The timer and the polls of start and resume; a poll pending is the poll. *)
Poll ==
    /\ Watching /\ poll = NoCall /\ poll' = Sent("STATUS", 0)
    /\ UNCHANGED <<host, job, read, page, spent>>

Finished(st) == st = "IDLE" /\ panel.status = "IN_PROGRESS"
Started(st) == st = "IN_PROGRESS" /\ ~Changing(panel)

PollReceived ==
    /\ poll.at = "ANSWERED" /\ poll' = NoCall
    /\ LET st == poll.ans.ok
       IN  IF poll.ans = Unavailable
           THEN /\ Publish([panel EXCEPT !.phase = IF panel.status = "NONE" THEN "UNAVAILABLE"
                                                   ELSE "STALE"], FALSE)
                /\ UNCHANGED known
           ELSE /\ Publish([panel EXCEPT !.phase = "READY", !.status = st,
                                !.scope = @ /\ ~Finished(st)], Finished(st) \/ Started(st))
                /\ known' = IF Finished(st) THEN purge.cleared ELSE known
    /\ UNCHANGED <<host, job, spent>>

(* The slip of an aborted poll that is never taken off #statusPending. *)
AbortedPending == [Sent("STATUS", 0) EXCEPT !.at = "ABORTED"]

(* pause aborts the poll, and with it what is pending; resume polls again. *)
Aborted == NoCall
Look(u) ==
    /\ ui' = u /\ UNCHANGED panel /\ Remount(FALSE)
    /\ poll' = IF u.tab /\ "purge" \in u.open THEN poll ELSE Aborted
    /\ UNCHANGED <<host, job, known>>

Show == Look([ui EXCEPT !.tab = ~@]) /\ IF ui.tab THEN Move ELSE UNCHANGED spent
Fold(part) ==
    \/ part \in ui.open /\ Look([ui EXCEPT !.open = @ \ {part}]) /\ Move
    \/ part \notin ui.open /\ Look([ui EXCEPT !.open = @ \cup {part}]) /\ UNCHANGED spent

(* The activity section: readStable, and what follows it. *)
AskRead ==
    /\ section.phase \in {"LOADING", "READY"} /\ read.at = "NONE"
    /\ read' = [NoRead EXCEPT !.at = "SENT"]
    /\ UNCHANGED <<host, job, poll, page, spent>>

Try(s) == IF s.tries + 1 = Attempts THEN [Unread EXCEPT !.phase = "ERROR"]
          ELSE [s EXCEPT !.tries = @ + 1]

Stably(s, v) ==
    IF v.ok = "STALE" THEN Try([s EXCEPT !.view = NoView, !.confirmed = 0])
    ELSE IF v.ok = "NO" THEN [Unread EXCEPT !.phase = "ERROR"]
    ELSE IF v # s.view THEN Try([s EXCEPT !.view = v, !.confirmed = 0])
    ELSE IF s.confirmed = 1 THEN [Unread EXCEPT !.phase = "READY", !.view = v]
    ELSE Try([s EXCEPT !.confirmed = 1])

(* The slip of taking the answer that the list has changed for one that it has not. *)
WatchedBlind(s, v) == IF v = s.view \/ v.ok = "STALE" THEN s ELSE Reading
Watched(s, v) == IF v = s.view THEN s ELSE Reading

ReadReceived ==
    /\ read.at = "ANSWERED" /\ read' = NoRead
    /\ section' = IF section.phase = "LOADING" THEN Stably(section, read.ans)
                  ELSE Watched(section, read.ans)
    /\ UNCHANGED <<host, job, poll, panel, ui, known, spent>>

(* The call fails, which is not an answer that says no: both loops end. *)
ReadFails ==
    /\ read.at = "SENT" /\ Fault /\ read' = NoRead
    /\ section' = [Unread EXCEPT !.phase = "ERROR"]
    /\ UNCHANGED <<host, job, poll, panel, ui, known>>

----
Working == Refuse \/ Begin \/ Mark \/ Delete \/ Validate \/ Clear \/ Recover
Handle == HandlePreview \/ HandleConfirm \/ HandleStatus \/ HandleRead
Receive == PreviewReceived \/ ConfirmReceived \/ ReadbackReceived \/ PollReceived \/ ReadReceived

Next ==
    \/ Working \/ Handle \/ Receive \/ Poll \/ AskRead
    \/ \E s \in Skills : Learn(s)
    \/ OtherConfirms \/ ClickPreview \/ CancelPreview \/ Confirm
    \/ Fail \/ Restart \/ Lose \/ ReadFails
    \/ Show \/ \E part \in {"purge", "activity"} : Fold(part)

(* The host goes on working and answering, the page goes on asking and takes
   what has come; a host that is down is started again.  Users, the pipeline
   and faults owe nothing.                                                   *)
Fairness ==
    /\ WF_vars(Working)
    /\ WF_vars(HandlePreview) /\ WF_vars(HandleConfirm) /\ WF_vars(HandleRead)
    /\ WF_vars(HandleStatus /\ job' # job) /\ WF_vars(HandleStatus /\ poll' # poll)
    /\ WF_vars(PreviewReceived) /\ WF_vars(ConfirmReceived) /\ WF_vars(ReadbackReceived)
    /\ WF_vars(PollReceived) /\ WF_vars(ReadReceived)
    /\ WF_vars(Poll) /\ WF_vars(AskRead)

Spec == Init /\ [][Next]_vars /\ Fairness

----
Shown == IF section.phase = "READY" THEN section.view.items ELSE {}

(* Once the page has said that a purge is complete, none of what the purges
   completed by then deleted is in its list of recent activity: neither an
   answer asked for before nor a list shown before survives the news.        *)
ClearedIsNotShown == Shown \cap known = {}

(* Publications, another window's purges and restarts may change the list while
   it is read and after it was: unless it has given up, a list that can be seen
   comes to what the host would answer now, its revision included.           *)
ActivityConverges ==
    <>[](Active(panel, ui) /\ section.phase # "ERROR" =>
            section.phase = "READY" /\ section.view = View)

(* Whatever is refused, lost or answered out of order, no operation stays
   pending for ever, and a panel that can be seen comes to the host's status. *)
PanelSettles ==
    <>[](/\ ~panel.previewing /\ ~panel.mutating
         /\ Watching /\ purge.up => panel.phase = "READY" /\ panel.status = Status)
====
