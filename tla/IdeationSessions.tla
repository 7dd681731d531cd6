-------------------------- MODULE IdeationSessions --------------------------
(***************************************************************************)
(* One ideation session: the commands of the durable inbox                 *)
(* (internal/sessioncommand), the session row with its turns, briefs,      *)
(* plans and approvals (internal/store/ideation*.go), and the ideation and *)
(* planning roles that the coordinator launches, observes, accepts and     *)
(* cleans up (internal/factory/session_roles.go).                          *)
(*                                                                         *)
(* Three threads of the coordinator share the session.  The command loop   *)
(* applies commands in inbox order.  A command that calls the tracker runs *)
(* beside it.  The polling loop reconciles the role invocations.  What     *)
(* concerns a role (task) runs under commandMu, whoever asks for it.  The  *)
(* process may stop between any two steps; worker containers, role         *)
(* processes and their reports survive it.                                 *)
(*                                                                         *)
(* Every write of the session carries the revision that was read and       *)
(* advances it.  A handler that reads the session at the revision its      *)
(* command expects and then writes is one step here: if another writer     *)
(* comes between, it answers "conflict", as it does when it comes before.  *)
(* A step of its own is every read whose revision is not the command's:    *)
(* the launch of a role, the observation of a role, and a publication.     *)
(* What a publication does to the tracker is in PlanPublication.           *)
(***************************************************************************)
EXTENDS Naturals, Sequences, FiniteSets

CONSTANTS
    Kinds,         \* the command kinds people submit
    Beginnings,    \* how far the session is: "new", "brief", "draft"
    MaxAttempts,   \* how often the coordinator starts one command
    MaxRequests,   \* bound: submitted commands
    MaxIds,        \* bound: invocation identities
    MaxFaults,     \* bound: failed calls and lost workers
    MaxStops       \* bound: stops of the coordinator

RoleKinds    == {"submit_turn", "hand_off", "regenerate_draft"}
EditKinds    == {"edit_brief", "edit_draft"}
MoveKinds    == {"defer", "resume", "investigation_needed", "no_build", "cancel"}
TrackerKinds == {"approve", "publish"}
AllKinds     == {"create_session"} \cup RoleKinds \cup EditKinds \cup MoveKinds \cup TrackerKinds

Roles    == {"ideation", "planning"}
Requests == 1..MaxRequests
Ids      == 1..MaxIds

ASSUME SessionAssumption ==
    /\ Kinds \subseteq AllKinds /\ Beginnings \subseteq {"new", "brief", "draft"}
    /\ MaxAttempts \in Nat \ {0} /\ MaxRequests \in Nat /\ MaxIds \in Nat
    /\ MaxFaults \in Nat /\ MaxStops \in Nat

VARIABLES
    sess,       \* the session row
    plans,      \* the brief revision each plan revision derives from
    turns,      \* the conversation
    approvals,  \* the plan revision each approval names
    receipts,   \* the commands with a publication receipt
    inbox,      \* the durable commands
    invs,       \* the invocation rows
    snaps,      \* invocations whose repository snapshot exists
    box,        \* the invocation each role's worker container serves, or 0
    proc,       \* the process of an invocation and the native session it revealed
    report,     \* the report an invocation has written
    loop,       \* the command loop
    bg,         \* the tracker command that runs beside it
    poll,       \* the reconcile pass of the polling loop
    task,       \* the role operation that runs under commandMu
    faults, stops

content == <<plans, turns, approvals, receipts>>
store   == <<sess, content, inbox, invs>>
host    == <<snaps, box, proc, report>>
bounds  == <<faults, stops>>
vars    == <<store, host, loop, bg, poll, task, bounds>>

-----------------------------------------------------------------------------
(* The declared lifecycle of a session *)

Closed == {"no_build", "cancelled"}

Rule(states, event, next) == [from : states, on : {event}, to : {next}]

transitions ==
    UNION {Rule({"awaiting_user"}, "turn_accepted", "awaiting_user"),
           Rule({"awaiting_user"}, "edited", "awaiting_user"),
           Rule({"draft_review", "approved"}, "edited", "draft_review"),
           Rule({"awaiting_user", "draft_review"}, "role_started", "role_active"),
           Rule({"role_active"}, "role_awaits_user", "awaiting_user"),
           Rule({"role_active"}, "plan_drafted", "draft_review"),
           Rule({"role_active"}, "draft_kept", "draft_review"),
           Rule({"draft_review"}, "approved", "approved"),
           Rule({"awaiting_user", "draft_review", "approved"}, "defer", "deferred"),
           Rule({"awaiting_user", "draft_review"}, "investigation_needed", "investigation"),
           Rule({"deferred", "investigation"}, "resumed", "awaiting_user"),
           Rule({"deferred"}, "review_resumed", "draft_review"),
           Rule({"deferred"}, "approval_resumed", "approved"),
           Rule({"approved", "publishing", "incomplete"}, "publication_started", "publishing"),
           Rule({"publishing"}, "publication_incomplete", "incomplete"),
           Rule({"publishing"}, "publication_completed", "published"),
           Rule({"awaiting_user", "role_active", "draft_review", "approved", "deferred",
                 "investigation"}, "no_build", "no_build"),
           Rule({"awaiting_user", "role_active", "draft_review", "approved", "publishing",
                 "incomplete", "deferred", "investigation"}, "cancel", "cancelled"),
           Rule({"cancelled"}, "reconciled", "cancelled")}

Allowed(state, event) == \E t \in transitions : t.from = state /\ t.on = event
Next1(state, event) == (CHOOSE t \in transitions : t.from = state /\ t.on = event).to

\* The session row that a guarded write of event leaves.
Written(event) == [sess EXCEPT !.state = Next1(sess.state, event), !.rev = @ + 1]

-----------------------------------------------------------------------------
(* Rows *)

NoInv == [role |-> "none", trigger |-> 0, rev |-> 0, brief |-> 0, status |-> "none",
          native |-> 0, from |-> 0, lost |-> FALSE, released |-> FALSE]

Rows       == {v \in Ids : invs[v].status # "none"}
Active     == {v \in Rows : invs[v].status = "active"}
Unreleased == {v \in Rows : invs[v].status # "active" /\ ~invs[v].released}

Exists  == sess.state # "none"
Pending == {i \in DOMAIN inbox : inbox[i].outcome = "none"}
Kind(i) == inbox[i].kind
RoleOf(i) == IF Kind(i) = "submit_turn" THEN "ideation" ELSE "planning"

\* CurrentSession: the browser showed another revision.
Conflict(i) == sess.rev # inbox[i].expected

Turn(by, id) == [by |-> by, id |-> id]
hasTurn(i) == \E n \in DOMAIN turns : turns[n] = Turn("user", i)
hasApproval(i) == \E a \in approvals : a.id = i

\* Mutant: only a role that is still active or was accepted counts as started.
StartedIfAlive(i) ==
    inbox[i].attempts > 1 /\ \E v \in Rows : invs[v].trigger = i /\ invs[v].status \in {"active", "accepted"}

\* A resumed command whose role already started, however it ended since.
startedRole(i) == inbox[i].attempts > 1 /\ \E v \in Rows : invs[v].trigger = i

\* The outcome of a command is recorded once.
Completed(i, outcome) ==
    IF inbox[i].outcome = "none" THEN [inbox EXCEPT ![i].outcome = outcome] ELSE inbox

Idle   == [at |-> "idle", cmd |-> 0, outcome |-> "none"]
NoWork == [at |-> "idle", cmd |-> 0, outcome |-> "none", saw |-> 0]
NoPass == [at |-> "idle", todo |-> {}, act |-> 0]
NoTask == [by |-> "none", at |-> "free", inv |-> 0, saw |-> 0, from |-> 0,
           status |-> "none", lost |-> FALSE]

MayFail == faults < MaxFaults /\ faults' = faults + 1

NoRows == [v \in Ids |-> NoInv]
Earlier(role, rev) == [NoInv EXCEPT !.role = role, !.rev = rev, !.brief = IF role = "planning" THEN 1 ELSE 0,
                                    !.status = "accepted", !.native = rev, !.released = TRUE]

\* A session before its creation, after its first ideation role, and after its
\* first planning role.  Request 0 stands for the earlier requests.
Init ==
    /\ \E b \in Beginnings :
         /\ sess = [state    |-> CASE b = "new" -> "none" [] b = "brief" -> "awaiting_user" [] OTHER -> "draft_review",
                    rev      |-> CASE b = "new" -> 0 [] b = "brief" -> 4 [] OTHER -> 6,
                    brief    |-> IF b = "new" THEN 0 ELSE 1,
                    ledger   |-> FALSE,
                    approval |-> 0]
         /\ plans = IF b = "draft" THEN <<1>> ELSE <<>>
         /\ turns = CASE b = "new"   -> <<>>
                      [] b = "brief" -> <<Turn("user", 0), Turn("role", 1)>>
                      [] OTHER       -> <<Turn("user", 0), Turn("role", 1), Turn("role", 2)>>
         /\ invs = CASE b = "new"   -> NoRows
                     [] b = "brief" -> [NoRows EXCEPT ![1] = Earlier("ideation", 3)]
                     [] OTHER       -> [NoRows EXCEPT ![1] = Earlier("ideation", 3), ![2] = Earlier("planning", 5)]
    /\ approvals = {} /\ receipts = {} /\ inbox = <<>>
    /\ snaps = {} /\ box = [r \in Roles |-> 0]
    /\ proc = [v \in Ids |-> [at |-> "none", native |-> 0]] /\ report = [v \in Ids |-> "none"]
    /\ loop = Idle /\ bg = NoWork /\ poll = NoPass /\ task = NoTask
    /\ faults = 0 /\ stops = 0

States   == {"none"} \cup {t.from : t \in transitions} \cup {t.to : t \in transitions}
Outcomes == {"none", "applied", "conflict", "refused", "failed", "transient"}
Ends     == {"accepted", "failed", "rejected", "cancelled"}
Stages   == {"free", "held", "snapshot", "insert", "worker", "process", "reveal", "record", "look", "inspect",
             "recheck", "adopt", "accept", "release", "releasing", "closing", "stop", "clean", "dirty", "mark"}

SessionType == [state : States, rev : Nat, brief : Nat, ledger : BOOLEAN, approval : 0..MaxRequests]
TurnType    == [by : {"user", "role"}, id : Nat]
CommandType == [kind : AllKinds, expected : Nat, attempts : Nat, outcome : Outcomes]
RowType     == [role : Roles \cup {"none"}, trigger : 0..MaxRequests, rev : Nat, brief : Nat,
                status : Ends \cup {"none", "active"}, native : Nat, from : 0..MaxIds,
                lost : BOOLEAN, released : BOOLEAN]
ProcessType == [at : {"none", "running", "exited"}, native : Nat]
LoopType    == [at : {"idle", "begun", "role", "stop", "ended"}, cmd : 0..MaxRequests, outcome : Outcomes]
WorkType    == [at : {"idle", "begun", "approve", "publish", "start", "execute", "settle", "ended"},
                cmd : 0..MaxRequests, outcome : Outcomes, saw : Nat]
PassType    == [at : {"idle", "next", "busy"}, todo : SUBSET Ids, act : 0..MaxIds]
TaskType    == [by : {"none", "loop", "poll"}, at : Stages, inv : 0..MaxIds, saw : Nat, from : 0..MaxIds,
                status : Ends \cup {"none", "active"}, lost : BOOLEAN]

TypeOK ==
    /\ sess \in SessionType /\ plans \in Seq(Nat) /\ turns \in Seq(TurnType)
    /\ approvals \subseteq [id : Requests, plan : Nat] /\ receipts \subseteq Requests
    /\ inbox \in Seq(CommandType) /\ Len(inbox) <= MaxRequests
    /\ invs \in [Ids -> RowType] /\ snaps \subseteq Ids /\ box \in [Roles -> Ids \cup {0}]
    /\ proc \in [Ids -> ProcessType] /\ report \in [Ids -> {"none", "content", "words", "bad"}]
    /\ loop \in LoopType /\ bg \in WorkType /\ poll \in PassType /\ task \in TaskType
    /\ faults \in Nat /\ stops \in Nat

-----------------------------------------------------------------------------
(* The browser *)

\* SubmitSessionCommand: a command for the session at its current revision.
Submit(kind) ==
    /\ Len(inbox) < MaxRequests
    /\ (kind = "create_session") = ~Exists
    /\ inbox' = Append(inbox, [kind |-> kind, expected |-> sess.rev, attempts |-> 0, outcome |-> "none"])
    /\ UNCHANGED <<sess, content, invs, host, loop, bg, poll, task, bounds>>

-----------------------------------------------------------------------------
(* The command loop *)

\* Drain: what comes before i in the inbox has an outcome, or is a tracker
\* command that runs, waits for the one that runs, or was started before.
Reached(i) ==
    \A j \in Pending : j < i =>
        Kind(j) \in TrackerKinds /\ (bg.at # "idle" \/ inbox[j].attempts > 0)

\* BeginIdeationCommand has counted MaxAttempts starts without an outcome.
Spent(i) == inbox[i].attempts >= MaxAttempts

Begun(i) == [inbox EXCEPT ![i].attempts = @ + 1]

Begin(i) ==
    /\ loop.at = "idle" /\ i \in Pending /\ Kind(i) \notin TrackerKinds /\ Reached(i)
    /\ IF Spent(i) THEN inbox' = Completed(i, "failed") /\ UNCHANGED loop
                   ELSE inbox' = Begun(i) /\ loop' = [Idle EXCEPT !.at = "begun", !.cmd = i]
    /\ UNCHANGED <<sess, content, invs, host, bg, poll, task, bounds>>

Handling(kinds) == loop.at = "begun" /\ Kind(loop.cmd) \in kinds

\* The loop records an outcome and changes nothing else.
Answer(outcome) ==
    /\ inbox' = Completed(loop.cmd, outcome) /\ loop' = Idle
    /\ UNCHANGED <<sess, content, invs, host, bg, poll, task, bounds>>

\* The write of the session completes the command in one transaction.
Commit(event) ==
    /\ inbox' = Completed(loop.cmd, "applied") /\ sess' = Written(event)

\* The content of the command does not fit: a corrected turn that is no user
\* turn, a question that is not deferred, a brief or plan that is invalid.
RefuseContent ==
    /\ Handling({"submit_turn", "hand_off", "edit_brief", "edit_draft", "investigation_needed"})
    /\ ~startedRole(loop.cmd) /\ ~hasTurn(loop.cmd) /\ Answer("refused")

createSession ==
    /\ Handling({"create_session"})
    /\ IF ~Exists
       THEN /\ sess' = [sess EXCEPT !.state = "awaiting_user", !.rev = 1]
            /\ loop' = [loop EXCEPT !.at = "ended", !.outcome = "applied"]
            /\ UNCHANGED <<content, inbox, invs, host, bg, poll, task, bounds>>
       ELSE Answer(IF inbox[loop.cmd].attempts > 1 THEN "applied" ELSE "refused")

submitTurn ==
    /\ Handling({"submit_turn"})
    /\ LET i == loop.cmd IN
       IF startedRole(i) THEN Answer("applied")
       ELSE IF hasTurn(i)
       THEN loop' = [loop EXCEPT !.at = "role"] /\ UNCHANGED <<store, host, bg, poll, task, bounds>>
       ELSE IF Conflict(i) THEN Answer("conflict")
       ELSE IF ~Allowed(sess.state, "turn_accepted") THEN Answer("refused")
       ELSE \* The turn does not complete the command: its role has yet to start.
            /\ turns' = Append(turns, Turn("user", i)) /\ sess' = Written("turn_accepted")
            /\ loop' = [loop EXCEPT !.at = "role"]
            /\ UNCHANGED <<plans, approvals, receipts, inbox, invs, host, bg, poll, task, bounds>>

\* handOff and regenerateDraft, with what the page showed.
startPlanning ==
    /\ Handling({"hand_off", "regenerate_draft"})
    /\ LET i == loop.cmd IN
       IF startedRole(i) THEN Answer("applied")
       ELSE IF Conflict(i) THEN Answer("conflict")
       ELSE IF (IF Kind(i) = "hand_off" THEN sess.brief ELSE Len(plans)) = 0 THEN Answer("refused")
       ELSE loop' = [loop EXCEPT !.at = "role"] /\ UNCHANGED <<store, host, bg, poll, task, bounds>>

\* Mutant: a new brief leaves the approval in place.
BriefKeepsApproval(s) == [s EXCEPT !.brief = @ + 1]

\* insertBriefRevision: the next brief revision clears the approval.
insertBriefRevision(s) == [s EXCEPT !.brief = @ + 1, !.approval = 0]

editBrief ==
    /\ Handling({"edit_brief"})
    /\ IF Conflict(loop.cmd) THEN Answer("conflict")
       ELSE IF ~Allowed(sess.state, "edited") THEN Answer("refused")
       ELSE /\ inbox' = Completed(loop.cmd, "applied")
            /\ sess' = insertBriefRevision(Written("edited")) /\ loop' = Idle
            /\ UNCHANGED <<content, invs, host, bg, poll, task, bounds>>

insertPlanRevision(s) == [s EXCEPT !.approval = 0]

\* An edit keeps the source brief of the draft, which must be current.
SourceIsCurrent == Len(plans) > 0 /\ plans[Len(plans)] = sess.brief

editDraft ==
    /\ Handling({"edit_draft"})
    /\ IF Conflict(loop.cmd) THEN Answer("conflict")
       ELSE IF ~SourceIsCurrent \/ ~Allowed(sess.state, "edited") THEN Answer("refused")
       ELSE /\ inbox' = Completed(loop.cmd, "applied")
            /\ sess' = insertPlanRevision(Written("edited")) /\ loop' = Idle
            /\ plans' = Append(plans, plans[Len(plans)])
            /\ UNCHANGED <<turns, approvals, receipts, invs, host, bg, poll, task, bounds>>

resumeEvent ==
    IF sess.state # "deferred" THEN "resumed"
    ELSE IF sess.approval # 0 THEN "approval_resumed"
    ELSE IF Len(plans) > 0 THEN "review_resumed" ELSE "resumed"

eventOf(kind) == IF kind = "resume" THEN resumeEvent ELSE kind

\* Transition: the user moves the session; out of role_active, the role is
\* cancelled afterwards.
Transition ==
    /\ Handling(MoveKinds)
    /\ LET event == eventOf(Kind(loop.cmd)) IN
       IF Conflict(loop.cmd) THEN Answer("conflict")
       ELSE IF ~Allowed(sess.state, event) THEN Answer("refused")
       ELSE /\ Commit(event)
            /\ loop' = IF sess.state = "role_active" THEN [loop EXCEPT !.at = "stop"] ELSE Idle
            /\ UNCHANGED <<content, invs, host, bg, poll, task, bounds>>

RecordOutcome ==
    /\ loop.at = "ended" /\ inbox' = Completed(loop.cmd, loop.outcome) /\ loop' = Idle
    /\ UNCHANGED <<sess, content, invs, host, bg, poll, task, bounds>>

-----------------------------------------------------------------------------
(* Launching a role, by the command loop under commandMu *)

Working(at) == task.at = at
Go(at) == task' = [task EXCEPT !.at = at]

\* The polling loop keeps commandMu between the items of a pass.
Between == [NoTask EXCEPT !.by = "poll", !.at = "held"]

\* The operation ends and its thread continues.  A launch
\* that failed leaves a turn applied and a planning command without a role;
\* after a transient store failure the command stays pending.
Return(outcome) ==
    /\ task' = IF task.by = "poll" THEN Between ELSE NoTask
    /\ IF task.by = "poll"
       THEN UNCHANGED loop /\ poll' = [poll EXCEPT !.todo = @ \ {task.inv}, !.at = "next",
                                                   !.act = IF @ = task.inv THEN 0 ELSE @]
       ELSE /\ UNCHANGED poll
            /\ loop' = IF loop.at = "stop" \/ outcome = "transient" THEN Idle
                       ELSE [loop EXCEPT !.at = "ended",
                                         !.outcome = IF Kind(loop.cmd) = "submit_turn" THEN "applied" ELSE outcome]

\* The newest accepted invocation of the role, unless a newer one lost its
\* native session.
resumableInvocation(role) ==
    LET mine == {v \in Rows : /\ invs[v].role = role
                              /\ invs[v].lost \/ (invs[v].status = "accepted" /\ invs[v].native # 0)}
        last == CHOOSE v \in mine : \A w \in mine : w <= v
    IN IF mine = {} \/ invs[last].lost THEN 0 ELSE last

StartStates(role) == IF role = "ideation" THEN {"awaiting_user"} ELSE {"awaiting_user", "draft_review"}

\* startableHistory, and for a turn that it is the newest of the session.
Startable(i) ==
    /\ sess.state \in StartStates(RoleOf(i))
    /\ IF RoleOf(i) = "ideation" THEN turns[Len(turns)] = Turn("user", i) ELSE sess.brief > 0

StartRole ==
    /\ loop.at = "role" /\ task.at = "free"
    /\ LET i == loop.cmd
           from == IF RoleOf(i) = "ideation" THEN resumableInvocation("ideation") ELSE 0 IN
       IF Startable(i)
       THEN /\ task' = [NoTask EXCEPT !.by = "loop", !.at = "snapshot", !.saw = sess.rev, !.from = from]
            /\ UNCHANGED loop
       ELSE /\ loop' = [loop EXCEPT !.at = "ended",
                                    !.outcome = IF Kind(i) = "submit_turn" THEN "applied" ELSE "refused"]
            /\ UNCHANGED task
    /\ UNCHANGED <<store, host, bg, poll, bounds>>

Unused == Ids \ (Rows \cup snaps)

CreateContextSnapshot ==
    /\ Working("snapshot")
    /\ \/ /\ Unused # {}
          /\ LET v == CHOOSE v \in Unused : \A w \in Unused : v <= w IN
             snaps' = snaps \cup {v} /\ task' = [task EXCEPT !.at = "insert", !.inv = v]
          /\ UNCHANGED <<loop, poll, bounds>>
       \/ MayFail /\ Return("refused") /\ UNCHANGED <<snaps, stops>>
    /\ UNCHANGED <<store, box, proc, report, bg>>

\* StartSessionInvocation: at the revision that was read, with no active
\* invocation and a trigger without a result.
MayInsert ==
    /\ sess.rev = task.saw /\ Active = {}
    /\ ~\E v \in Rows : invs[v].trigger = loop.cmd /\ invs[v].status = "accepted"

StartSessionInvocation ==
    /\ Working("insert")
    /\ \/ /\ MayInsert
          /\ invs' = [invs EXCEPT ![task.inv] =
                [NoInv EXCEPT !.role = RoleOf(loop.cmd), !.trigger = loop.cmd, !.rev = sess.rev + 1,
                              !.brief = sess.brief, !.status = "active", !.from = task.from]]
          /\ sess' = [sess EXCEPT !.state = "role_active", !.rev = @ + 1]
          /\ Go("worker") /\ UNCHANGED <<snaps, loop, poll, bounds>>
       \/ /\ ~MayInsert /\ snaps' = snaps \ {task.inv}
          /\ Return("conflict") /\ UNCHANGED <<sess, invs, bounds>>
       \/ /\ MayFail /\ snaps' = snaps \ {task.inv}
          /\ Return("transient") /\ UNCHANGED <<sess, invs, stops>>
    /\ UNCHANGED <<content, inbox, box, proc, report, bg>>

Mine(v) == invs[v].role
Killed(role) == [v \in Ids |-> IF v \in Rows /\ Mine(v) = role /\ proc[v].at = "running"
                               THEN [proc[v] EXCEPT !.at = "exited"] ELSE proc[v]]

Failing(lost) == task' = [task EXCEPT !.at = "release", !.status = "failed", !.lost = lost]

\* startProcess: the worker is recreated with the mounts of this invocation.
StartWorker ==
    /\ Working("worker")
    /\ \/ /\ box' = [box EXCEPT ![Mine(task.inv)] = task.inv] /\ proc' = Killed(Mine(task.inv))
          /\ Go("process") /\ UNCHANGED bounds
       \/ MayFail /\ Failing(FALSE) /\ UNCHANGED <<box, proc, stops>>
    /\ UNCHANGED <<store, snaps, report, loop, bg, poll>>

StartHeadless ==
    /\ Working("process")
    /\ \/ /\ box[Mine(task.inv)] = task.inv
          /\ proc' = [proc EXCEPT ![task.inv].at = "running"] /\ Go("reveal") /\ UNCHANGED bounds
       \/ MayFail /\ Failing(FALSE) /\ UNCHANGED <<proc, stops>>
       \/ box[Mine(task.inv)] # task.inv /\ Failing(FALSE) /\ UNCHANGED <<proc, bounds>>
    /\ UNCHANGED <<store, snaps, box, report, loop, bg, poll>>

Expected(v) == IF invs[v].from = 0 THEN proc[v].native ELSE invs[invs[v].from].native

\* waitForNativeSession: a resume must reveal the session it resumes.
AwaitNativeSession ==
    /\ Working("reveal")
    /\ LET v == task.inv IN
       \/ /\ proc[v].native # 0
          /\ IF proc[v].native = Expected(v) THEN Go("record") ELSE Failing(FALSE)
       \/ proc[v].native = 0 /\ proc[v].at = "exited" /\ Failing(invs[v].from # 0)
    /\ UNCHANGED <<store, host, loop, bg, poll, bounds>>

RecordNativeSession ==
    /\ Working("record")
    /\ \/ invs' = [invs EXCEPT ![task.inv].native = proc[task.inv].native] /\ Return("applied") /\ UNCHANGED bounds
       \/ MayFail /\ Return("transient") /\ UNCHANGED <<invs, stops>>
    /\ UNCHANGED <<sess, content, inbox, host, bg>>

\* stopRole: CancelRole of the role the user moved the session away from.
CancelRole ==
    /\ loop.at = "stop" /\ task.at = "free"
    /\ IF Active = {} THEN loop' = Idle /\ UNCHANGED task
       ELSE /\ task' = [NoTask EXCEPT !.by = "loop", !.at = "release", !.status = "cancelled",
                                      !.inv = CHOOSE v \in Active : TRUE]
            /\ UNCHANGED loop
    /\ UNCHANGED <<store, host, bg, poll, bounds>>

-----------------------------------------------------------------------------
(* Ending an invocation *)

\* Mutant: the release takes every session for one that moved on.
NeverWaits(v) == FALSE

\* The session still waits for the invocation at the revision it is pinned to.
Waits(v) == sess.state = "role_active" /\ sess.rev = invs[v].rev

\* Planning keeps an earlier draft under review.
releaseEvent(v) == IF invs[v].role = "planning" /\ Len(plans) > 0 THEN "draft_kept" ELSE "role_awaits_user"

\* release: reads the session to decide between Release and Close.
ReleaseRead ==
    /\ Working("release") /\ Go(IF Waits(task.inv) THEN "releasing" ELSE "closing")
    /\ UNCHANGED <<store, host, loop, bg, poll, bounds>>

Ended(v) == [invs EXCEPT ![v].status = task.status, ![v].lost = task.lost]

ReleaseSessionInvocation ==
    /\ Working("releasing")
    /\ \/ /\ Waits(task.inv)
          /\ invs' = Ended(task.inv) /\ sess' = Written(releaseEvent(task.inv))
          /\ Go("stop") /\ UNCHANGED <<loop, poll, bounds>>
       \/ ~Waits(task.inv) /\ Return("conflict") /\ UNCHANGED <<sess, invs, bounds>>
       \/ MayFail /\ Return("transient") /\ UNCHANGED <<sess, invs, stops>>
    /\ UNCHANGED <<content, inbox, host, bg>>

CloseSessionInvocation ==
    /\ Working("closing") /\ invs' = Ended(task.inv) /\ Go("stop")
    /\ UNCHANGED <<sess, content, inbox, host, loop, bg, poll, bounds>>

\* Mutant: the worker is stopped although an active invocation uses it.
StopsAnyWorker == TRUE

\* ownsWorker: only the retry of an older release leaves the worker to the
\* active invocation of the role.
ownsWorker == poll.act = 0 \/ task.by = "loop" \/ task.inv = poll.act \/ invs[poll.act].role # invs[task.inv].role

After == IF task.status = "accepted" THEN "applied" ELSE "refused"

\* stopProcess and the worker part of cleanup.
StopWorker ==
    /\ Working("stop")
    /\ IF ~ownsWorker THEN Go("clean") /\ UNCHANGED <<box, proc, bounds>>
       ELSE \/ /\ box' = [box EXCEPT ![Mine(task.inv)] = 0] /\ proc' = Killed(Mine(task.inv))
               /\ Go("clean") /\ UNCHANGED bounds
            \/ MayFail /\ Go("dirty") /\ UNCHANGED <<box, proc, stops>>
    /\ UNCHANGED <<store, snaps, report, loop, bg, poll>>

\* Mutant: the release is recorded although the worker did not stop.
CleansAnyway ==
    /\ task.at \in {"clean", "dirty"} /\ snaps' = snaps \ {task.inv} /\ Go("mark")
    /\ UNCHANGED <<store, box, proc, report, loop, bg, poll, bounds>>

RemoveContextSnapshot ==
    /\ task.at \in {"clean", "dirty"}
    /\ \/ /\ snaps' = snaps \ {task.inv} /\ UNCHANGED bounds
          /\ IF task.at = "clean" THEN Go("mark") /\ UNCHANGED <<loop, poll>> ELSE Return(After)
       \/ MayFail /\ Return(After) /\ UNCHANGED <<snaps, stops>>
    /\ UNCHANGED <<store, box, proc, report, bg>>

MarkReleased ==
    /\ Working("mark") /\ invs' = [invs EXCEPT ![task.inv].released = TRUE] /\ Return(After)
    /\ UNCHANGED <<sess, content, inbox, host, bg, bounds>>

-----------------------------------------------------------------------------
(* The polling loop: Reconcile *)

Least(S) == CHOOSE v \in S : \A w \in S : v <= w

\* Mutant: a pass without an active invocation ends at once.
ReconcileActive ==
    /\ poll.at = "idle" /\ task.at = "free" /\ Active # {}
    /\ poll' = [at |-> "next", todo |-> Unreleased, act |-> CHOOSE v \in Active : TRUE]
    /\ task' = Between
    /\ UNCHANGED <<store, host, loop, bg, bounds>>

Reconcile ==
    /\ poll.at = "idle" /\ task.at = "free" /\ Active \cup Unreleased # {}
    /\ poll' = [at |-> "next", todo |-> Unreleased,
                act |-> IF Active = {} THEN 0 ELSE CHOOSE v \in Active : TRUE]
    /\ task' = Between
    /\ UNCHANGED <<store, host, loop, bg, bounds>>

Held == poll.at = "next" /\ task = Between

retryResourceRelease ==
    /\ Held /\ poll.todo # {} /\ poll' = [poll EXCEPT !.at = "busy"]
    /\ task' = [NoTask EXCEPT !.by = "poll", !.at = "stop", !.inv = Least(poll.todo),
                              !.status = invs[Least(poll.todo)].status]
    /\ UNCHANGED <<store, host, loop, bg, bounds>>

EndPass ==
    /\ Held /\ poll.todo = {} /\ poll.act = 0 /\ poll' = NoPass /\ task' = NoTask
    /\ UNCHANGED <<store, host, loop, bg, bounds>>

\* reconcileInvocation reads the session once.
ReconcileRead ==
    /\ Held /\ poll.todo = {} /\ poll.act # 0 /\ poll' = [poll EXCEPT !.at = "busy"]
    /\ task' = IF Waits(poll.act)
               THEN [NoTask EXCEPT !.by = "poll", !.at = "look", !.inv = poll.act]
               ELSE [NoTask EXCEPT !.by = "poll", !.at = "closing", !.inv = poll.act, !.status = "cancelled"]
    /\ UNCHANGED <<store, host, loop, bg, bounds>>

reportWritten == report[task.inv] # "none"

Look ==
    /\ Working("look") /\ Go(IF reportWritten THEN "accept" ELSE "inspect")
    /\ UNCHANGED <<store, host, loop, bg, poll, bounds>>

InspectedStatus(v) == IF box[Mine(v)] # v THEN "missing" ELSE proc[v].at

Inspect ==
    /\ Working("inspect")
    /\ LET v == task.inv IN
       CASE InspectedStatus(v) = "running" ->
              IF invs[v].native = 0 THEN Go("adopt") /\ UNCHANGED <<loop, poll>> ELSE Return("applied")
         [] InspectedStatus(v) \in {"missing", "none"} /\ invs[v].native = 0 ->
              Failing(FALSE) /\ UNCHANGED <<loop, poll>>
         [] OTHER -> Go("recheck") /\ UNCHANGED <<loop, poll>>
    /\ UNCHANGED <<store, host, bg, bounds>>

\* The process is gone: its report, or the failure it left.
Recheck ==
    /\ Working("recheck")
    /\ \/ reportWritten /\ Go("accept")
       \/ ~reportWritten /\ \E lost \in {FALSE, invs[task.inv].from # 0 /\ invs[task.inv].native = 0} : Failing(lost)
    /\ UNCHANGED <<store, host, loop, bg, poll, bounds>>

adoptNativeSession ==
    /\ Working("adopt")
    /\ LET v == task.inv IN
       CASE proc[v].native = 0 -> Return("applied") /\ UNCHANGED invs
         [] proc[v].native # 0 /\ proc[v].native = Expected(v) ->
              invs' = [invs EXCEPT ![v].native = proc[v].native] /\ Return("applied")
         [] OTHER -> Failing(FALSE) /\ UNCHANGED <<invs, loop, poll>>
    /\ UNCHANGED <<sess, content, inbox, host, bg, bounds>>

\* Mutant: a report is accepted whatever the session has become.
AcceptsAnyway(v) == TRUE

\* The guard of AcceptSessionRoleResult.
StillPinned(v) == sess.rev = invs[v].rev

resultEvent(v) ==
    IF report[v] = "content" THEN IF invs[v].role = "planning" THEN "plan_drafted" ELSE "role_awaits_user"
                             ELSE releaseEvent(v)

\* acceptReport: turn, brief or plan, status and state in one transaction.
AcceptSessionRoleResult ==
    /\ Working("accept") /\ report[task.inv] # "bad"
    /\ LET v == task.inv IN
       \/ /\ StillPinned(v)
          /\ turns' = Append(turns, Turn("role", v))
          /\ invs' = [invs EXCEPT ![v].status = "accepted"]
          /\ IF report[v] = "content" /\ invs[v].role = "planning"
             THEN /\ plans' = Append(plans, invs[v].brief)
                  /\ sess' = insertPlanRevision([sess EXCEPT !.state = Next1("role_active", resultEvent(v)), !.rev = @ + 1])
             ELSE /\ UNCHANGED plans
                  /\ LET s == [sess EXCEPT !.state = Next1("role_active", resultEvent(v)), !.rev = @ + 1]
                     IN sess' = IF report[v] = "content" THEN insertBriefRevision(s) ELSE s
          /\ task' = [task EXCEPT !.at = "stop", !.status = "accepted"] /\ UNCHANGED <<loop, poll, bounds>>
       \/ ~StillPinned(v) /\ Return("conflict") /\ UNCHANGED <<sess, plans, turns, invs, bounds>>
       \/ MayFail /\ Return("transient") /\ UNCHANGED <<sess, plans, turns, invs, stops>>
    /\ UNCHANGED <<approvals, receipts, inbox, host, bg>>

\* reject: an invalid report or a refused plan.
reject ==
    /\ Working("accept") /\ report[task.inv] = "bad"
    /\ task' = [task EXCEPT !.at = "release", !.status = "rejected"]
    /\ UNCHANGED <<store, host, loop, bg, poll, bounds>>

-----------------------------------------------------------------------------
(* The tracker command beside the loop *)

WorkGo(at) == bg' = [bg EXCEPT !.at = at]
WorkSaw(at) == bg' = [bg EXCEPT !.at = at, !.saw = sess.rev]
\* Every outcome but "applied" settles the publication attempt first.
WorkEnds(outcome) == bg' = [bg EXCEPT !.at = IF outcome = "applied" THEN "ended" ELSE "settle", !.outcome = outcome]
BesideBg == UNCHANGED <<plans, turns, invs, host, loop, poll, task>>

\* Mutant: a tracker command that was started once is taken for running.
BeginTrackerOnce(i) ==
    /\ bg.at = "idle" /\ i \in Pending /\ Kind(i) \in TrackerKinds /\ inbox[i].attempts = 0
    /\ loop.at = "idle" /\ Reached(i) /\ inbox' = Begun(i)
    /\ bg' = [NoWork EXCEPT !.at = "begun", !.cmd = i]
    /\ UNCHANGED <<sess, approvals, receipts, bounds>> /\ BesideBg

BeginTracker(i) ==
    /\ bg.at = "idle" /\ i \in Pending /\ Kind(i) \in TrackerKinds
    /\ loop.at = "idle" /\ Reached(i)
    /\ inbox' = IF Spent(i) THEN inbox ELSE Begun(i)
    /\ bg' = IF Spent(i) THEN [NoWork EXCEPT !.at = "settle", !.cmd = i, !.outcome = "failed"]
                         ELSE [NoWork EXCEPT !.at = "begun", !.cmd = i]
    /\ UNCHANGED <<sess, approvals, receipts, bounds>> /\ BesideBg

\* approve reads the session and previews the plan, which may be refused.
ApproveRead ==
    /\ bg.at = "begun" /\ Kind(bg.cmd) = "approve"
    /\ IF hasApproval(bg.cmd) THEN WorkGo("publish")
       ELSE IF Conflict(bg.cmd) THEN WorkEnds("conflict")
       ELSE \/ Allowed(sess.state, "approved") /\ WorkSaw("approve")
            \/ WorkEnds("refused")
    /\ UNCHANGED <<sess, approvals, receipts, inbox, bounds>> /\ BesideBg

\* Mutant: any stored plan revision may be approved.
ApprovesStale == Len(plans) > 0

\* The approved plan revision is current and derives from the current brief.
Approvable == Len(plans) > 0 /\ plans[Len(plans)] = sess.brief

ApprovePlan ==
    /\ bg.at = "approve"
    /\ \/ /\ sess.rev = bg.saw /\ Approvable
          /\ approvals' = approvals \cup {[id |-> bg.cmd, plan |-> Len(plans)]}
          /\ sess' = [Written("approved") EXCEPT !.approval = bg.cmd]
          /\ WorkGo("publish") /\ UNCHANGED bounds
       \/ sess.rev # bg.saw /\ WorkEnds("conflict") /\ UNCHANGED <<sess, approvals, bounds>>
       \/ sess.rev = bg.saw /\ ~Approvable /\ WorkEnds("refused") /\ UNCHANGED <<sess, approvals, bounds>>
       \/ MayFail /\ bg' = NoWork /\ UNCHANGED <<sess, approvals, stops>>
    /\ UNCHANGED <<receipts, inbox>> /\ BesideBg

\* publish checks the revision on its first attempt only.
PublishBegin ==
    /\ bg.at = "begun" /\ Kind(bg.cmd) = "publish"
    /\ IF inbox[bg.cmd].attempts <= 1 /\ Conflict(bg.cmd) THEN WorkEnds("conflict") ELSE WorkGo("publish")
    /\ UNCHANGED <<sess, approvals, receipts, inbox, bounds>> /\ BesideBg

\* The publication did not start: a recorded approval that still stands is
\* the outcome of its approve command.
approvedWithoutPublication(outcome) ==
    WorkEnds(IF Kind(bg.cmd) = "approve" /\ sess.state = "approved" /\ sess.approval = bg.cmd
             THEN "applied" ELSE outcome)

PublishRead ==
    /\ bg.at = "publish"
    /\ IF bg.cmd \in receipts THEN WorkEnds("applied")
       ELSE IF sess.state = "cancelled" /\ sess.ledger
       THEN WorkGo("execute") \/ WorkEnds("refused")
       ELSE IF sess.approval = 0 \/ ~Allowed(sess.state, "publication_started")
       THEN approvedWithoutPublication("refused")
       ELSE \/ WorkSaw(IF sess.state = "publishing" THEN "execute" ELSE "start")
            \/ approvedWithoutPublication("refused")   \* the rendering changed
    /\ UNCHANGED <<sess, approvals, receipts, inbox, bounds>> /\ BesideBg

PublishStart ==
    /\ bg.at = "start"
    /\ \/ sess.rev = bg.saw /\ sess' = [Written("publication_started") EXCEPT !.ledger = TRUE] /\ WorkGo("execute") /\ UNCHANGED bounds
       \/ sess.rev # bg.saw /\ approvedWithoutPublication("conflict") /\ UNCHANGED <<sess, bounds>>
       \/ MayFail /\ bg' = NoWork /\ UNCHANGED <<sess, stops>>
    /\ UNCHANGED <<approvals, receipts, inbox>> /\ BesideBg

\* finish, after the ledger was worked on: a receipt and the state it implies.
\* For a cancelled session the receipt leaves the state.
FinishPublication ==
    /\ bg.at = "execute"
    /\ \/ /\ sess.state = "publishing" /\ receipts' = receipts \cup {bg.cmd}
          /\ \E event \in {"publication_incomplete", "publication_completed"} : sess' = Written(event)
          /\ WorkEnds("applied")
       \/ /\ sess.state = "cancelled" /\ receipts' = receipts \cup {bg.cmd}
          /\ sess' = Written("reconciled") /\ WorkEnds("refused")
       \/ /\ sess.state = "cancelled" /\ UNCHANGED <<sess, receipts>>
          /\ \E outcome \in {"conflict", "refused"} : WorkEnds(outcome)
    /\ UNCHANGED <<approvals, inbox, bounds>> /\ BesideBg

\* settlePublication: no session stays publishing after a failed attempt.
Settle ==
    /\ bg.at = "settle" /\ WorkGo("ended")
    /\ IF sess.state = "publishing"
       THEN /\ sess' = Written("publication_incomplete") /\ receipts' = receipts \cup {bg.cmd}
       ELSE UNCHANGED <<sess, receipts>>
    /\ UNCHANGED <<approvals, inbox, bounds>> /\ BesideBg

RecordTracker ==
    /\ bg.at = "ended" /\ inbox' = Completed(bg.cmd, bg.outcome) /\ bg' = NoWork
    /\ UNCHANGED <<sess, approvals, receipts, bounds>> /\ BesideBg

-----------------------------------------------------------------------------
(* The role process, and faults *)

Live(v) == v \in Rows /\ proc[v].at = "running" /\ box[Mine(v)] = v

\* A resumed process may reveal another session than the one it resumes.
Reveal(v) ==
    /\ Live(v) /\ proc[v].native = 0
    /\ \/ proc' = [proc EXCEPT ![v].native = IF invs[v].from = 0 THEN invs[v].rev ELSE Expected(v)] /\ UNCHANGED bounds
       \/ invs[v].from # 0 /\ MayFail /\ proc' = [proc EXCEPT ![v].native = invs[v].rev] /\ UNCHANGED stops
    /\ UNCHANGED <<store, snaps, box, report, loop, bg, poll, task>>

WriteReport(v) ==
    /\ Live(v) /\ proc[v].native # 0 /\ report[v] = "none"
    /\ \E kind \in {"content", "words", "bad"} : report' = [report EXCEPT ![v] = kind]
    /\ UNCHANGED <<store, snaps, box, proc, loop, bg, poll, task, bounds>>

Exit(v) ==
    /\ Live(v) /\ proc' = [proc EXCEPT ![v].at = "exited"]
    /\ UNCHANGED <<store, snaps, box, report, loop, bg, poll, task, bounds>>

WorkerDies(role) ==
    /\ box[role] # 0 /\ MayFail /\ box' = [box EXCEPT ![role] = 0] /\ proc' = Killed(role)
    /\ UNCHANGED <<store, snaps, report, loop, bg, poll, task, stops>>

\* The coordinator stops or crashes, and another one starts.
Stop ==
    /\ stops < MaxStops /\ stops' = stops + 1
    /\ loop' = Idle /\ bg' = NoWork /\ poll' = NoPass /\ task' = NoTask
    /\ UNCHANGED <<store, host, faults>>

-----------------------------------------------------------------------------
Commands ==
    \/ \E i \in Requests : Begin(i)
    \/ RefuseContent \/ createSession \/ submitTurn \/ startPlanning \/ editBrief \/ editDraft
    \/ Transition \/ RecordOutcome \/ StartRole \/ CancelRole

Launch == CreateContextSnapshot \/ StartSessionInvocation \/ StartWorker \/ StartHeadless
          \/ AwaitNativeSession \/ RecordNativeSession

Release == ReleaseRead \/ ReleaseSessionInvocation \/ CloseSessionInvocation \/ StopWorker
           \/ RemoveContextSnapshot \/ MarkReleased

Pass == Reconcile \/ retryResourceRelease \/ EndPass \/ ReconcileRead \/ Look \/ Inspect \/ Recheck
        \/ adoptNativeSession \/ AcceptSessionRoleResult \/ reject

Beside == \/ \E i \in Requests : BeginTracker(i)
          \/ ApproveRead \/ ApprovePlan \/ PublishBegin \/ PublishRead \/ PublishStart
          \/ FinishPublication \/ Settle \/ RecordTracker

Process(v) == Reveal(v) \/ WriteReport(v) \/ Exit(v)

Next ==
    \/ \E kind \in Kinds : Submit(kind)
    \/ Commands \/ Launch \/ Release \/ Pass \/ Beside
    \/ \E v \in Ids : Process(v)
    \/ \E role \in Roles : WorkerDies(role)
    \/ Stop

Spec == Init /\ [][Next]_vars

\* Both loops go on, commandMu is handed over fairly, and a role process ends.
FairSpec ==
    /\ Spec
    /\ WF_vars(Commands) /\ SF_vars(StartRole) /\ SF_vars(CancelRole)
    /\ WF_vars(Launch \/ Release \/ Pass) /\ WF_vars(Beside)
    /\ \A v \in Ids : WF_vars(Process(v))

-----------------------------------------------------------------------------
(* Properties *)

\* A session that is role_active has an active invocation, pinned to exactly
\* this revision, so some pass will release it (session_roles.go launch,
\* release; store StartSessionInvocation, ReleaseSessionInvocation).
RoleActiveHasOwner ==
    sess.state = "role_active" => \E v \in Active : invs[v].rev = sess.rev

\* One command starts at most one role, however often it is resumed after a
\* stop or a transient failure (handlers.go startedRole).
RoleStartedOnce ==
    \A v, w \in Rows : invs[v].trigger = invs[w].trigger /\ invs[v].trigger # 0 => v = w

\* Neither no role nor a second one is at work where one was asked for
\* (session_roles.go StartRole, handlers.go:263).
OneRoleAtWork == RoleActiveHasOwner /\ RoleStartedOnce

\* An approval, and every state that rests on one, names the current plan,
\* and that plan derives from the current brief (store ApprovePlan,
\* insertBriefRevision, insertPlanRevision).
ApprovalBindsReviewed ==
    /\ sess.state \in {"approved", "publishing", "incomplete", "published"} => sess.approval # 0
    /\ sess.approval # 0 => /\ [id |-> sess.approval, plan |-> Len(plans)] \in approvals
                            /\ plans[Len(plans)] = sess.brief

\* After the user cancelled the session or decided not to build, no late
\* report and no resumed command adds to it (session_roles.go acceptReport).
ClosedIsFrozen ==
    [][sess.state \in Closed => UNCHANGED <<plans, turns, approvals, sess.brief>>]_vars

\* While a role process lives, some invocation of its role is active or not
\* yet released, so its worker is still to be replaced or stopped
\* (session_roles.go releaseResources, retryResourceRelease).
NoOrphanProcess ==
    \A v \in Ids : Live(v) =>
        \E w \in Active \cup Unreleased : invs[w].role = invs[v].role

\* While an invocation stays active, only a fault takes its worker away: not
\* the repeated cleanup of an older invocation of the same role
\* (session_roles.go retryResourceRelease).
ActiveKeepsWorker ==
    [][\A v \in Active : box[Mine(v)] = v /\ v \in Active' =>
            (box[Mine(v)] = v)' \/ faults' > faults]_vars

\* Every command gets an outcome (dispatch.go Drain, apply).
EveryCommandAnswered == Pending # {} ~> Pending = {}

\* The resources of an ended invocation are released in the end
\* (UnreleasedSessionInvocations, retryResourceRelease).
EndedIsReleased == Unreleased # {} ~> Unreleased = {}
=============================================================================
