----------------------------- MODULE Moderation -----------------------------
(***************************************************************************)
(* The safety queue of the console: two lists polled and nudged, the form  *)
(* that records an action against a report, and the log it writes, which   *)
(* nobody can edit.  The live connection is module SafetyStream; here its  *)
(* frames only ask for the lists again.                                    *)
(***************************************************************************)
EXTENDS ConsoleBase

CONSTANTS
    Reports,          \* reports that may be filed
    SubjectOf,        \* report -> the person reported, None for a piece of content
    MinorReports,     \* those that involve a minor
    MaxActions        \* bound on the log

Persons == {SubjectOf[r] : r \in Reports} \ {None}
Revoking == {"suspend", "ban"}                        \* REVOKES_SESSIONS
Actions == {"warn", "ban", "content_hide"}            \* one of each kind

VARIABLES
    filed,        \* reports filed (the server)
    actionLog,    \* moderation actions recorded (the server)
    admin,        \* the principal: None while asked, then whether an admin
    minorQueue,   \* the minors' queue as last fetched
    allQueue,     \* the general one
    history,      \* how many actions "Already decided" shows
    acting,       \* the report the form is open on, or None
    form,         \* [action, target, by, reason]: by says who filled the target
    failed,       \* whether the form shows an error
    asking,       \* whether the dialog is open
    take,         \* the pending mutation: the action posted, or None
    outcome       \* what the form says was recorded, or None

moderationServer == <<filed, actionLog>>
queues == <<minorQueue, allQueue, history>>
actionForm == <<acting, form, failed, asking, take, outcome>>
moderationVars == <<moderationServer, admin, queues, actionForm>>

EMPTY == [action |-> "warn", target |-> None, by |-> "hand", reason |-> FALSE]

ModerationInit ==
    /\ filed = {} /\ actionLog = <<>>
    /\ admin = None
    /\ minorQueue = {} /\ allQueue = {} /\ history = 0
    /\ acting = None /\ form = EMPTY /\ failed = FALSE /\ asking = FALSE
    /\ take = None /\ outcome = None

PrincipalLoaded ==
    /\ admin = None
    /\ admin' \in BOOLEAN
    /\ UNCHANGED <<moderationServer, queues, actionForm>>

\* A report arrives at the server.
FileReport ==
    /\ \E r \in Reports \ filed : filed' = filed \cup {r}
    /\ UNCHANGED <<actionLog, admin, queues, actionForm>>

\* Both queries: every thirty seconds, on a frame, after an action.  The general
\* queue holds the minors' reports too.
FetchMinors ==
    /\ admin = TRUE /\ minorQueue # filed \cap MinorReports
    /\ minorQueue' = filed \cap MinorReports
    /\ UNCHANGED <<moderationServer, admin, allQueue, history, actionForm>>
FetchGeneral ==
    /\ admin = TRUE /\ allQueue # filed
    /\ allQueue' = filed
    /\ UNCHANGED <<moderationServer, admin, minorQueue, history, actionForm>>
FetchHistory ==
    /\ admin = TRUE /\ history # Len(actionLog)
    /\ history' = Len(actionLog)
    /\ UNCHANGED <<moderationServer, admin, minorQueue, allQueue, actionForm>>

\* Act on a row: the form is keyed by the report, so another one starts afresh,
\* with the person that report is about.
Prefilled_Once(r) ==
    IF form # EMPTY \/ SubjectOf[r] = None THEN form
    ELSE [EMPTY EXCEPT !.target = SubjectOf[r], !.by = "row"]
Prefilled(r) ==
    IF SubjectOf[r] = None THEN EMPTY ELSE [EMPTY EXCEPT !.target = SubjectOf[r], !.by = "row"]
Offered == (minorQueue \cup allQueue) \ {acting}
Act ==
    /\ ~asking
    /\ \E r \in Offered :
          acting' = r /\ form' = Prefilled(r)
    /\ failed' = FALSE /\ asking' = FALSE /\ take' = None /\ outcome' = None
    /\ UNCHANGED <<moderationServer, admin, queues>>

\* Cancel on the row or in the form, and Close under what was recorded.
StopActing ==
    /\ acting # None /\ ~asking
    /\ acting' = None /\ form' = EMPTY
    /\ failed' = FALSE /\ take' = None /\ outcome' = None
    /\ UNCHANGED <<moderationServer, admin, queues, asking>>

\* What was recorded takes the form's place.
Recorded == outcome # None

\* Nothing of the form is disabled while the request is under way.
EditAction ==
    /\ acting # None /\ ~Recorded /\ ~asking
    /\ \/ \E a \in Actions \ {form.action} : form' = [form EXCEPT !.action = a]
       \/ \E p \in Persons \ {form.target} :
             form' = [form EXCEPT !.target = p, !.by = "hand"]
       \/ ~form.reason /\ form' = [form EXCEPT !.reason = TRUE]
    /\ UNCHANGED <<moderationServer, admin, queues, acting, failed, asking, take, outcome>>

isContent(action) == action = "content_hide"

\* What stops an action: no reason, nobody named, sessions ended unconfirmed.
problemWith(draft, acknowledged) ==
    \/ ~draft.reason
    \/ ~isContent(draft.action) /\ draft.target = None
    \/ draft.action \in Revoking /\ ~acknowledged

Posted(draft) ==
    [report |-> acting, action |-> draft.action, by |-> draft.by,
     target |-> IF isContent(draft.action) THEN None ELSE draft.target]

\* Record this action: an irreversible one asks first.
SubmitAction ==
    /\ acting # None /\ ~Recorded /\ take = None /\ ~asking
    /\ ~problemWith(form, TRUE)
    /\ failed' = FALSE
    /\ IF form.action \in Revoking THEN asking' = TRUE /\ UNCHANGED take
       ELSE /\ ~problemWith(form, FALSE)
            /\ take' = Posted(form) /\ UNCHANGED asking
    /\ UNCHANGED <<moderationServer, admin, queues, acting, form, outcome>>
ConfirmAction ==
    /\ asking /\ take = None /\ ~problemWith(form, TRUE)
    /\ take' = Posted(form)
    /\ UNCHANGED <<moderationServer, admin, queues, acting, form, failed, asking, outcome>>
CancelAction ==
    /\ asking /\ take = None
    /\ asking' = FALSE
    /\ UNCHANGED <<moderationServer, admin, queues, acting, form, failed, take, outcome>>

\* onSuccess of the latest render: it names the action the form holds by then.
ActionRecorded ==
    /\ take # None /\ Len(actionLog) < MaxActions
    /\ actionLog' = Append(actionLog, take)
    /\ take' = None /\ asking' = FALSE /\ failed' = FALSE
    /\ outcome' = form.action /\ form' = EMPTY
    /\ UNCHANGED <<filed, admin, queues, acting>>

\* Refused, or recorded with the answer lost: the form stays, to be sent again.
ActionFails ==
    /\ take # None
    /\ \/ UNCHANGED actionLog
       \/ Len(actionLog) < MaxActions /\ actionLog' = Append(actionLog, take)
    /\ take' = None /\ asking' = FALSE /\ failed' = TRUE
    /\ UNCHANGED <<filed, admin, queues, acting, form, outcome>>

ModerationNext ==
    \/ PrincipalLoaded \/ FileReport \/ FetchMinors \/ FetchGeneral
    \/ FetchHistory \/ Act \/ StopActing \/ EditAction \/ SubmitAction \/ ConfirmAction
    \/ CancelAction \/ ActionRecorded \/ ActionFails

-----------------------------------------------------------------------------
\* An action taken from a row falls on the person of the report it is recorded
\* against, unless somebody typed another id: never on the person of the report
\* that was open before (ActionForm's key).
ActsOnItsSubject ==
    \A i \in DOMAIN actionLog :
        actionLog[i].by = "row" /\ actionLog[i].target # None
            => actionLog[i].target = SubjectOf[actionLog[i].report]
=============================================================================
