--------------------------- MODULE ProposalInbox ---------------------------
(***************************************************************************)
(* The settings page's list of drafts to decide on, and the endpoints      *)
(* behind it.                                                              *)
(*                                                                         *)
(* ProposalInboxController runs one operation at a time: what finds one    *)
(* pending is dropped, or waits for its end and then looks again.  What it *)
(* shows was read some time ago; the other windows, the worker that        *)
(* publishes and the model that revises go on changing the lineages        *)
(* meanwhile.  The list of actions comes from another read, the attention  *)
(* summary of the page.  ProposalDesk has what the coordinators do with a  *)
(* request that was let through; here they are steps of a status.          *)
(***************************************************************************)
EXTENDS Naturals, Sequences, FiniteSets

CONSTANTS
    Lineages,     \* the lineages of the scope
    MaxDecisions, \* bound: clicks that decide or revise
    MaxMoves      \* bound: what happens elsewhere, and what is lost or hidden

ASSUME BoundsAssumption == MaxDecisions \in Nat /\ MaxMoves \in Nat

None == "none"
Statuses == {"REVIEW",      \* undecided
             "UNCLEAR",     \* undecided, the catalog could not be read
             "CHANGED",     \* the catalog has changed under it
             "REVISING",    \* a revision is being made
             "SAVING",      \* approved
             "UNSAVED",     \* approved, its publication failed
             "REFRESHING",  \* handed back to be generated again
             "GONE"}        \* published or rejected
Decisions == {"APPROVE", "REJECT", "REFRESH", "RETRY"}

(* A draft is known by its lineage and its revision (proposalRef); the revision
   of the lineage (ver) and the status tell what it was when it was read.  An
   action and a detail are a draft that was read; an item of the list is known
   by its draft's reference alone.                                           *)
NoDraft == [l |-> None, rev |-> 0, ver |-> 0, st |-> "GONE"]
Id(d) == [l |-> d.l, rev |-> d.rev]
Ids(ds) == {Id(d) : d \in ds}
NoId == Id(NoDraft)

VARIABLES
    desk,       \* the lineages
    acts,       \* their revisionActions
    wire,       \* the requests on their way or being handled
    answer,     \* the answer to the operation's call
    page,       \* the section: "AWAY" (not mounted), "SHOWN", "HIDDEN"
    actions,    \* the actions of the attention summary
    ui,         \* the controller's state
    op,         \* the operation pending
    attempt,    \* #revisionAttempt
    waiting,    \* what waits for its end
    ready,      \* what has waited and goes on before anything else
    spent       \* of the bounds

host == <<desk, acts>>
net == <<wire, answer>>
summary == <<page, actions>>
controller == <<ui, op, attempt, waiting, ready>>
vars == <<host, net, summary, controller, spent>>

NoAnswer == [ok |-> "NONE", got |-> NoDraft, list |-> {}]
NoOp == [kind |-> "NONE", step |-> "NONE", shown |-> NoDraft]
NoAttempt == [rid |-> 0, of |-> NoId]
Closed == [open |-> FALSE, list |-> "IDLE", items |-> {}, sel |-> NoId, phase |-> "IDLE",
           detail |-> NoDraft, act |-> NoDraft, busy |-> FALSE, news |-> "NONE"]

----
(* What the host offers (V2CurrentScopeAuthorizer).                          *)
Offers(d) ==
    \/ d.st \in {"REVIEW", "UNCLEAR", "REVISING", "SAVING", "UNSAVED"}
    \/ d.st = "CHANGED" /\ d.rev = 1
Offered == {d \in {desk[l] : l \in Lineages} : Offers(d)}

Allows(st) ==
    CASE st \in {"REVIEW", "UNCLEAR"} -> {"APPROVE", "REJECT", "REVISE"}
      [] st \in {"SAVING", "UNSAVED"} -> {"RETRY", "REVISE"}
      [] st = "CHANGED" -> {"REFRESH"}
      [] OTHER -> {}

(* The action a request names is offered as it was read, and the draft it is
   about is the one of the lineage as it stands.                             *)
Authorized(r) == r.act \in Offered
Accepted(r) ==
    LET d == desk[r.act.l]
    IN  Authorized(r) /\ r.ep \in Allows(d.st) /\ Id(r.of) = Id(d) /\ r.of.ver = d.ver

Moved(l, st) == [desk EXCEPT ![l].st = st, ![l].ver = @ + 1]
Redrafted(l) == [desk EXCEPT ![l].st = "REVIEW", ![l].ver = @ + 1, ![l].rev = @ + 1]
Set(l, st) == desk' = IF desk[l].st = st THEN desk ELSE Moved(l, st)

Drop(r) == wire' = wire \ {r}
Reply(r, a) == Drop(r) /\ answer' = IF r.mine THEN a ELSE answer
Yes(d) == [NoAnswer EXCEPT !.ok = "OK", !.got = d]
Page(ids) == [NoAnswer EXCEPT !.ok = "OK", !.list = ids]
No == [NoAnswer EXCEPT !.ok = "NO"]
Refuse(r) == Reply(r, No) /\ UNCHANGED host
Working(r) == wire' = (wire \ {r}) \cup {[r EXCEPT !.at = desk'[r.of.l].ver]} /\ UNCHANGED answer

Spend(what, max) == spent[what] < max /\ spent' = [spent EXCEPT ![what] = @ + 1]
Move == Spend("moves", MaxMoves)
HostOnly == UNCHANGED <<summary, controller>>

HandleList(r) ==
    /\ r.ep = "LIST" /\ Reply(r, Page(Ids(Offered)))
    /\ HostOnly /\ UNCHANGED <<host, spent>>

(* An undecided draft is looked at again before it is shown. *)
HandleGet(r) ==
    /\ r.ep = "GET" /\ HostOnly
    /\ IF ~(Authorized(r) /\ Id(r.of) = Id(r.act)) THEN Refuse(r) /\ UNCHANGED spent
       ELSE /\ \/ UNCHANGED <<desk, spent>>
               \/ /\ r.act.st \in {"REVIEW", "UNCLEAR"} /\ Move
                  /\ \E st \in {"REVIEW", "UNCLEAR", "CHANGED"} \ {r.act.st} : Set(r.act.l, st)
            /\ LET d == desk'[r.act.l] IN Reply(r, IF Offers(d) THEN Yes(d) ELSE No)
            /\ UNCHANGED acts

(* Approving looks at the catalog too; what it finds wanting is recorded and the
   publication that follows is refused.                                      *)
HandleApprove(r) ==
    /\ r.ep = "APPROVE" /\ r.at = 0 /\ HostOnly
    /\ IF ~Accepted(r) THEN Refuse(r) /\ UNCHANGED spent
       ELSE \/ /\ desk' = Moved(r.of.l, "SAVING") /\ Working(r)
               /\ UNCHANGED <<acts, spent>>
            \/ /\ \E st \in {"UNCLEAR", "CHANGED"} : Set(r.of.l, st)
               /\ Move /\ Reply(r, No) /\ UNCHANGED acts

HandleReject(r) ==
    /\ r.ep = "REJECT" /\ HostOnly
    /\ IF ~Accepted(r) THEN Refuse(r) /\ UNCHANGED spent
       ELSE /\ desk' = Moved(r.of.l, "GONE") /\ Reply(r, Yes(desk'[r.of.l]))
            /\ UNCHANGED <<acts, spent>>

HandleRefresh(r) ==
    /\ r.ep = "REFRESH" /\ HostOnly
    /\ IF ~Accepted(r) THEN Refuse(r) /\ UNCHANGED spent
       ELSE /\ desk' = Moved(r.of.l, "REFRESHING") /\ Reply(r, Yes(desk'[r.of.l]))
            /\ UNCHANGED <<acts, spent>>

HandleRetry(r) ==
    /\ r.ep = "RETRY" /\ r.at = 0 /\ HostOnly
    /\ IF ~Accepted(r) THEN Refuse(r) ELSE UNCHANGED host /\ Working(r)
    /\ UNCHANGED spent

(* The publication of an approval or a retry ends. *)
Published(r) ==
    /\ r.ep \in {"APPROVE", "RETRY"} /\ r.at > 0 /\ HostOnly
    /\ IF desk[r.of.l].ver # r.at THEN Refuse(r) /\ UNCHANGED spent
       ELSE /\ \/ desk' = Moved(r.of.l, "GONE") /\ UNCHANGED spent
               \/ Move /\ \E st \in {"UNSAVED", "CHANGED"} : desk' = Moved(r.of.l, st)
            /\ Reply(r, Yes(desk'[r.of.l])) /\ UNCHANGED acts

(* The same revision asked for again is answered with what came of it, also
   when the action it names is offered no longer.                            *)
Asked(r) == {a \in acts : a.rid = r.rid /\ a.l = r.of.l /\ a.of = r.of.rev}
HandleRevise(r) ==
    LET l == r.of.l
    IN  /\ r.ep = "REVISE" /\ r.at = 0 /\ HostOnly /\ UNCHANGED spent
        /\ IF Asked(r) # {}
           THEN /\ Reply(r, IF \E a \in Asked(r) : a.done /\ desk[l].rev = a.of + 1
                            THEN Yes(desk[l]) ELSE No)
                /\ UNCHANGED host
           ELSE IF ~Accepted(r) THEN Refuse(r)
           ELSE /\ desk' = Moved(l, "REVISING") /\ Working(r)
                /\ acts' = acts \cup {[rid |-> r.rid, l |-> l, of |-> r.of.rev, done |-> FALSE]}

Revised(r) ==
    LET l == r.of.l
    IN  /\ r.ep = "REVISE" /\ r.at > 0 /\ HostOnly
        /\ \/ /\ desk[l].ver = r.at /\ desk' = Redrafted(l)
              /\ acts' = {IF a \in Asked(r) THEN [a EXCEPT !.done = TRUE] ELSE a : a \in acts}
              /\ Reply(r, Yes(desk'[l])) /\ UNCHANGED spent
           \/ /\ desk' = IF desk[l].st = "REVISING" THEN Moved(l, r.act.st) ELSE desk
              /\ Reply(r, No) /\ UNCHANGED acts /\ Move

Handle(r) ==
    \/ HandleList(r) \/ HandleGet(r) \/ HandleApprove(r) \/ HandleReject(r)
    \/ HandleRefresh(r) \/ HandleRetry(r) \/ Published(r) \/ HandleRevise(r) \/ Revised(r)

(* A draft that was handed back is generated again, or is covered by then. *)
NewDraft(l) ==
    /\ desk[l].st = "REFRESHING"
    /\ desk' = Redrafted(l) \/ desk' = Moved(l, "GONE")
    /\ HostOnly /\ UNCHANGED <<acts, net, spent>>

(* Another window decides, or its publication ends. *)
Elsewhere(l) ==
    /\ Offers(desk[l]) /\ Move
    /\ \E st \in {"GONE", "SAVING", "UNSAVED"} \ {desk[l].st} :
         (desk[l].st = "REVISING" => st = "GONE") /\ desk' = Moved(l, st)
    /\ HostOnly /\ UNCHANGED <<acts, net>>

----
(* The controller.                                                           *)
Ask(ep, of, act, rid) ==
    [ep |-> ep, of |-> of, act |-> act, rid |-> rid, at |-> 0, mine |-> TRUE]
AskList == Ask("LIST", NoDraft, NoDraft, 0)
Named(id) == {a \in actions : Id(a) = id}
AskDetail(id) == LET a == CHOOSE a \in Named(id) : TRUE IN Ask("GET", a, a, 0)

Nothing == UNCHANGED <<ui, op, attempt, net>>
Idle == op.kind = "NONE"
Start(kind, step, shown, u, r) ==
    /\ ui' = u /\ op' = [kind |-> kind, step |-> step, shown |-> shown]
    /\ wire' = wire \cup {r} /\ UNCHANGED answer
Listing(u) == [u EXCEPT !.list = IF @ = "READY" THEN @ ELSE "LOADING"]
Sending(u) == [u EXCEPT !.busy = TRUE, !.news = "NONE"]

RunList(kind) ==
    IF ui.open THEN Start(kind, "LIST", NoDraft, Listing(ui), AskList) /\ UNCHANGED attempt
    ELSE Nothing

(* Mutant of Selecting: what was shown stays until the answer is here. *)
SelectingOver(u, id) == [u EXCEPT !.sel = id, !.phase = "LOADING", !.news = "NONE"]
Selecting(u, id) ==
    [u EXCEPT !.sel = id, !.phase = "LOADING", !.detail = NoDraft, !.act = NoDraft, !.news = "NONE"]
RunSelect(id) ==
    LET u == Selecting(ui, id)
    IN  IF ~ui.open THEN Nothing
        ELSE IF Named(id) = {}
        THEN ui' = [u EXCEPT !.phase = "ERROR"] /\ UNCHANGED <<op, attempt, net>>
        ELSE Start("SELECT", "GET", NoDraft, u, AskDetail(id)) /\ UNCHANGED attempt

Showing == ui.detail # NoDraft /\ ~ui.busy
RunDecide(ep, shown) ==
    IF Showing
    THEN Start("DECIDE", "SEND", shown, Sending(ui), Ask(ep, ui.detail, ui.act, 0)) /\ UNCHANGED attempt
    ELSE Nothing

(* One text is enough: asking again for the same draft repeats the attempt. *)
Attempt(rid) == IF attempt.of = Id(ui.detail) THEN attempt ELSE [rid |-> rid, of |-> Id(ui.detail)]
RunRevise(shown, rid) ==
    LET named == Named(Id(ui.detail))
        act == IF named = {} THEN ui.act ELSE CHOOSE a \in named : TRUE
    IN  IF Showing
        THEN /\ attempt' = Attempt(rid)
             /\ IF Idle
                THEN Start("REVISE", "SEND", shown, Sending(ui), Ask("REVISE", ui.detail, act, attempt'.rid))
                ELSE UNCHANGED <<ui, op, net>>
        ELSE Nothing

(* A task runs when nothing is pending, and is dropped otherwise. *)
Run(t) ==
    IF t.do = "REVISE" THEN RunRevise(t.shown, t.rid)
    ELSE IF ~Idle THEN Nothing
    ELSE CASE t.do \in {"OPEN", "REFRESH"} -> RunList(IF t.do = "OPEN" THEN "LIST" ELSE "REFRESH")
           [] t.do = "SELECT" -> RunSelect(t.id)
           [] OTHER -> RunDecide(t.do, t.shown)

Task(do) == [do |-> do, id |-> NoId, shown |-> NoDraft, rid |-> 0]
Select(id) == [Task("SELECT") EXCEPT !.id = id]

(* What was asked for while an operation is pending waits for its end; to wait
   twice for the same comes to the same.                                     *)
Wait(t) == IF \E k \in DOMAIN waiting : waiting[k] = t THEN waiting ELSE Append(waiting, t)
Do(t) ==
    /\ ready = << >>
    /\ IF Idle THEN Run(t) /\ UNCHANGED waiting
       ELSE Len(waiting) < 2 /\ waiting' = Wait(t) /\ Nothing
    /\ UNCHANGED <<ready, summary, host>>

GoOn ==
    /\ ready # << >>
    /\ Run(Head(ready)) /\ ready' = Tail(ready)
    /\ UNCHANGED <<waiting, summary, host, spent>>

Ends == op' = NoOp /\ ready' = waiting /\ waiting' = << >> /\ UNCHANGED wire
Steps(step, r) == op' = [op EXCEPT !.step = step, !.shown = NoDraft] /\ wire' = wire \cup {r} /\ UNCHANGED <<waiting, ready>>

(* A new draft is opened once its action is known. *)
Opens(u, known) == u.phase = "LOADING" /\ u.news = "NEW" /\ u.sel \in Ids(known)
OpensNew(u, known) ==
    waiting' = IF Opens(u, known) THEN Wait(Select(u.sel)) ELSE waiting

Follows(u) ==
    /\ op.kind \in {"REFRESH", "DECIDE"} /\ u.sel # NoId
    /\ u.detail.st \in {"SAVING", "REVISING", "REFRESHING"} /\ Named(u.sel) # {}

ListReceived ==
    /\ op.step = "LIST" /\ answer.ok = "OK" /\ UNCHANGED attempt
    /\ ui' = [ui EXCEPT !.list = "READY", !.items = answer.list]
    /\ IF Follows(ui') THEN Steps("GET", AskDetail(ui.sel)) ELSE Ends

Told(d) == IF d.st \in {"UNSAVED", "CHANGED", "UNCLEAR"} THEN "FAILED" ELSE "STATE"
DetailReceived ==
    /\ op.step = "GET" /\ answer.ok = "OK" /\ UNCHANGED attempt /\ Ends
    /\ ui' = [ui EXCEPT !.phase = "READY", !.detail = answer.got, !.act = answer.got, !.news = Told(answer.got)]

(* The receipt tells the new state of the draft; the action stays the one the
   detail was read with.                                                     *)
Receipted(u, d) == [u EXCEPT !.busy = FALSE, !.detail = d, !.news = Told(d)]
ReceiptReceived ==
    /\ op.kind = "DECIDE" /\ op.step = "SEND" /\ answer.ok = "OK" /\ UNCHANGED attempt
    /\ ui' = Listing(Receipted(ui, answer.got)) /\ Steps("LIST", AskList)

RevisionReceived ==
    /\ op.kind = "REVISE" /\ op.step = "SEND" /\ answer.ok = "OK"
    /\ attempt' = NoAttempt
    /\ ui' = Listing([ui EXCEPT !.busy = FALSE, !.sel = Id(answer.got), !.phase = "LOADING",
                                !.detail = NoDraft, !.act = NoDraft, !.news = "NEW"])
    /\ op' = [op EXCEPT !.step = "LIST", !.shown = NoDraft] /\ wire' = wire \cup {AskList}
    /\ OpensNew(ui', actions) /\ UNCHANGED ready

Failed(u) ==
    CASE op.kind = "LIST" -> [u EXCEPT !.list = "ERROR"]
      [] op.kind = "SELECT" -> [u EXCEPT !.phase = "ERROR", !.detail = NoDraft, !.act = NoDraft]
      [] op.kind = "DECIDE" /\ op.step = "SEND" -> [u EXCEPT !.busy = FALSE, !.news = "FAILED"]
      [] op.kind = "DECIDE" -> [u EXCEPT !.list = IF @ = "LOADING" THEN "ERROR" ELSE @]
      [] op.kind = "REVISE" -> [u EXCEPT !.busy = FALSE, !.phase = "ERROR", !.detail = NoDraft,
                                         !.act = NoDraft, !.news = "FAILED"]
      [] OTHER -> u
Failure ==
    /\ answer.ok \in {"NO", "LOST"} /\ Ends
    /\ ui' = Failed(ui)
    /\ attempt' = IF op.kind = "REVISE" /\ op.step = "SEND" /\ answer.ok = "NO" THEN NoAttempt ELSE attempt

Receive ==
    /\ ready = << >>
    /\ ListReceived \/ DetailReceived \/ ReceiptReceived \/ RevisionReceived \/ Failure
    /\ answer' = NoAnswer
    /\ UNCHANGED <<host, summary, spent>>

(* A call is lost on its way there or back; what has arrived is handled. *)
Disowned == {IF r.mine THEN [r EXCEPT !.mine = FALSE] ELSE r :
             r \in {q \in wire : q.mine => q.ep \notin {"LIST", "GET"}}}
Lose ==
    /\ ready = << >> /\ \E r \in wire : r.mine
    /\ Move /\ answer' = [NoAnswer EXCEPT !.ok = "LOST"]
    /\ wire' = Disowned
    /\ UNCHANGED <<host, summary, controller>>

----
(* The page.                                                                 *)
Items == ui.items \cap Ids(actions)
DetailShown == IF ui.sel \in Items THEN ui.detail ELSE NoDraft
Buttons(d) ==
    IF ui.busy THEN {}
    ELSE CASE d.st = "REVIEW" -> {"APPROVE", "REJECT"}
           [] d.st = "CHANGED" -> {"REFRESH"}
           [] d.st = "UNSAVED" -> {"RETRY"}
           [] OTHER -> {}
CanRevise(d) == ~ui.busy /\ \E a \in Named(Id(d)) : "REVISE" \in Allows(a.st)

Shown == page = "SHOWN" /\ ready = << >>
ClickItem ==
    /\ Shown /\ ~ui.busy /\ ui.phase # "LOADING"
    /\ \E i \in Items : Do(Select(i))
    /\ UNCHANGED spent
ClickRefresh == Shown /\ Do(Task("OPEN")) /\ UNCHANGED spent
ClickDecide ==
    /\ Shown /\ DetailShown # NoDraft /\ Spend("decisions", MaxDecisions)
    /\ \/ \E ep \in Buttons(ui.detail) : Do([Task(ep) EXCEPT !.shown = ui.detail])
       \/ /\ CanRevise(ui.detail)
          /\ Do([Task("REVISE") EXCEPT !.shown = ui.detail, !.rid = spent.decisions + 1])

(* The timer: a poll that finds an operation pending is dropped. *)
Poll == Shown /\ Idle /\ Run(Task("REFRESH")) /\ UNCHANGED <<waiting, ready, summary, host, spent>>

(* Mounting opens the list; an earlier controller is disposed of. *)
Mount ==
    /\ ui' = Listing([Closed EXCEPT !.open = TRUE])
    /\ op' = [NoOp EXCEPT !.kind = "LIST", !.step = "LIST"]
    /\ wire' = Disowned \cup {AskList}
Unmount == ui' = Closed /\ op' = NoOp /\ wire' = Disowned
Fresh == answer' = NoAnswer /\ attempt' = NoAttempt /\ waiting' = << >> /\ ready' = << >>

(* The attention summary is refreshed.  It aborts its earlier question, so that
   its answers arrive in order and one step stands for asking and hearing.   *)
Attention ==
    /\ page # "HIDDEN" /\ ready = << >> /\ actions' = Offered
    /\ IF page = "AWAY" \/ Offered = {}
       THEN /\ page' = IF Offered = {} THEN "AWAY" ELSE "SHOWN"
            /\ IF Offered = {} THEN Unmount ELSE Mount
            /\ Fresh
       ELSE /\ IF Opens(ui, Offered)
               THEN IF Idle THEN ready' = <<Select(ui.sel)>> /\ UNCHANGED waiting
                    ELSE OpensNew(ui, Offered) /\ UNCHANGED ready
               ELSE UNCHANGED <<waiting, ready>>
            /\ UNCHANGED <<ui, op, attempt, net, page>>
    /\ UNCHANGED <<host, spent>>

(* Mutant of Released: what is pending when the section is hidden stays so. *)
ReleasedNever == UNCHANGED <<op, waiting, ready>>
Released == op' = NoOp /\ ready' = waiting /\ waiting' = << >>
(* The section is folded, or its tab is left: pause and close. *)
Hide ==
    /\ Shown /\ Move
    /\ page' = "HIDDEN"
    /\ ui' = [ui EXCEPT !.open = FALSE]
    /\ wire' = Disowned /\ answer' = NoAnswer /\ Released
    /\ UNCHANGED <<host, actions, attempt>>

(* It is shown again: resume refreshes, open finds that pending. *)
Show ==
    /\ page = "HIDDEN" /\ ready = << >> /\ page' = "SHOWN"
    /\ ui' = [ui EXCEPT !.open = TRUE]
    /\ LET tasks == <<Task("REFRESH"), Task("OPEN")>>
                    \o (IF Opens(ui, actions) THEN <<Select(ui.sel)>> ELSE << >>)
       IN  IF Idle THEN ready' = tasks /\ UNCHANGED waiting
           ELSE waiting' = waiting \o tasks /\ UNCHANGED ready
    /\ UNCHANGED <<host, net, actions, op, attempt, spent>>

(* Another session or workspace is chosen, or data are being cleared: the
   section has another key.                                                  *)
Rekey ==
    /\ Shown /\ Move /\ Fresh
    /\ \/ actions' = {} /\ page' = "AWAY" /\ Unmount
       \/ UNCHANGED summary /\ Mount
    /\ UNCHANGED host

----
Init ==
    /\ desk = [l \in Lineages |-> [l |-> l, rev |-> 1, ver |-> 1, st |-> "REVIEW"]]
    /\ acts = {} /\ wire = {} /\ answer = NoAnswer
    /\ page = "AWAY" /\ actions = {}
    /\ ui = Closed /\ op = NoOp /\ attempt = NoAttempt
    /\ waiting = << >> /\ ready = << >>
    /\ spent = [decisions |-> 0, moves |-> 0]

Host == ready = << >> /\ \E r \in wire : Handle(r)
Next ==
    \/ Host \/ Lose
    \/ \E l \in Lineages : ready = << >> /\ (NewDraft(l) \/ Elsewhere(l))
    \/ GoOn \/ Receive \/ Poll
    \/ ClickItem \/ ClickRefresh \/ ClickDecide
    \/ Attention \/ Hide \/ Show \/ Rekey

Spec == Init /\ [][Next]_vars

(* The host answers, microtasks and timers run, and the attention summary is
   polled; nobody has to click, and what has arrived gets its turn between the
   clicks and the microtasks.                                                *)
Fairness ==
    /\ SF_vars(Host) /\ WF_vars(GoOn) /\ SF_vars(Receive) /\ SF_vars(Poll)
    /\ SF_vars(Attention)

FairSpec == Spec /\ Fairness

----
(* Properties.                                                               *)

(* A click decides about the draft that was on the screen when it was made, in
   the state it was shown in, however long it waited and whatever was selected
   or read meanwhile; a revision is asked of the draft that was on the screen. *)
DecidesOnWhatWasShown ==
    \A r \in wire : r.mine /\ op.step = "SEND" =>
        IF r.ep = "REVISE" THEN Id(r.of) = Id(op.shown) ELSE r.of = op.shown

(* When the lineages rest, the page comes to list what can be acted on, and
   nothing else, as long as it is looked at.                                 *)
ListConverges == <>[](page # "HIDDEN" => Items = Ids(Offered))

====
