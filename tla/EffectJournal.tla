---------------------------- MODULE EffectJournal ----------------------------
(***************************************************************************)
(* The durable effect journal (internal/effect) of one run, with the parts *)
(* of the operational store (internal/store) and of restart recovery       *)
(* (internal/factory/recovery.go) that it relies on.                       *)
(*                                                                         *)
(* Every external mutation of a run is an effect: its intent is reserved   *)
(* in the one pending-effect row of the run, the mutation and the durable  *)
(* projections follow in a fixed order, and the row is cleared last.  The  *)
(* process may stop, or a call may time out, between any two of these      *)
(* boundaries; a later pass replays the row and then compares the run with *)
(* its external projections.                                               *)
(*                                                                         *)
(* commandMu serialises all of this inside the coordinator, so at most one *)
(* operation is in progress: op.  Its remaining boundaries are the steps   *)
(* of a plan, and each step is one action.                                 *)
(***************************************************************************)
EXTENDS Integers, Sequences

CONSTANTS
  Kinds,           \* the effect kinds the coordinator uses
  TargetStatuses,  \* the statuses an ordinary state transition may select
  MaxRevision,     \* bound on the run revision an effect may select
  MaxCount,        \* bound on packets, checkpoints and native resumes
  MaxInterrupts,   \* bound on crashes, timeouts and failed replays
  Errors           \* the kinds whose replayed calls may also answer with an error

EffectKinds ==
  {"state_transition", "status_comment", "clarification_comment",
   "commit_status", "push", "checkpoint", "pull_request", "worker_launch",
   "harness_resume", "result_acceptance"}

RunStatuses == {"active", "waiting_for_human", "waiting_for_harness",
                "failed", "cancelled", "complete"}

ASSUME KindsAssumption == Kinds \subseteq EffectKinds
ASSUME StatusAssumption == TargetStatuses \subseteq RunStatuses
ASSUME BoundsAssumption == /\ MaxRevision \in Nat
                           /\ MaxCount \in Nat
                           /\ MaxInterrupts \in Nat
ASSUME ErrorsAssumption == Errors \subseteq EffectKinds

VARIABLES
  run,         \* the run row of the operational store
  results,     \* packet version the stored gate results belong to, 0 if none
  evaluated,   \* the run status the evaluation summary last recorded
  invocation,  \* the current invocation row
  pending,     \* the pending-effect row, or NoEffect
  issue,       \* the tracker: state label, status and question comments
  code,        \* git and the code host: HEAD, remote head, statuses, pulls
  worker,      \* whether the run's worker container is running
  native,      \* what the harness process of the invocation was told to do
  op,          \* the operation in progress inside the coordinator
  interrupts,  \* how often the environment interfered
  abandoned    \* a person abandoned an effect of this run

store == <<run, results, evaluated, invocation>>
external == <<issue, code, worker, native>>
vars == <<store, pending, external, op, interrupts, abandoned>>

-----------------------------------------------------------------------------
(* Rows and reservations *)

Reasons == {"none", "reconciliation", "harness"}

\* checkpoint numbers commits; comment, question and pull are external
\* identities, 0 when not recorded; command is the processed-comment watermark.
Run == [rev : Nat, status : RunStatuses, reason : Reasons, command : Nat,
        packet : Nat, comment : Nat, question : Nat, checkpoint : Nat,
        pull : Nat]

\* prev is the revision the effect starts from, next the run it leads to,
\* target the resume counter, commit, packet or pull request it is about.
Effect == [kind : EffectKinds, id : Nat, prev : Nat, next : Run,
           create : BOOLEAN, stop : BOOLEAN, before : BOOLEAN,
           invalidate : BOOLEAN, persist : BOOLEAN, manual : BOOLEAN,
           target : Nat]

Invocation == [status : {"active", "completed", "superseded"},
               auto : Nat, manual : Nat, unit : BOOLEAN]

NoEffect == [kind |-> "none"]

\* The reservation of kind k from run r to run n, all options off.
NewEffect(k, r, n, t) ==
  [kind |-> k, id |-> t, prev |-> r.rev, next |-> n, create |-> FALSE,
   stop |-> FALSE, before |-> FALSE, invalidate |-> FALSE, persist |-> TRUE,
   manual |-> FALSE, target |-> t]

\* SavePendingEffect refreshes its own reservation and refuses any other.
SameReservation(p, e) == p.kind = e.kind /\ p.id = e.id

TerminalStatuses == {"failed", "cancelled", "complete"}
IsTerminalStatus(s) == s \in TerminalStatuses

\* The factory-owned issue label of a status.
FactoryLabelForStatus(s) ==
  [active |-> "agent-running",
   waiting_for_harness |-> "agent-running",
   waiting_for_human |-> "agent-needs-input",
   failed |-> "agent-failed",
   cancelled |-> "agent-cancelled",
   complete |-> "agent-complete"][s]

\* The one editable status comment shows the run, but not its revision.
StatusCommentBody(r) ==
  [status |-> r.status, command |-> r.command, checkpoint |-> r.checkpoint,
   pull |-> r.pull, reason |-> r.reason]

\* Restart recovery compares the body without its lifecycle-reason line.
StatusCommentComparable(body) == [body EXCEPT !.reason = "none"]

IsRestartReconciliationPause(r) ==
  r.status = "waiting_for_human" /\ r.reason = "reconciliation"

-----------------------------------------------------------------------------
(* The order of the boundaries of every effect *)

ApplyPlan(e) ==
  [state_transition |->
     IF e.before
       THEN <<"reserve", "stop", "save", "record", "labels", "comment", "clear">>
       ELSE <<"reserve", "stop", "labels", "comment", "save", "record", "clear">>,
   status_comment |-> <<"reserve", "watermark", "statusComment", "clear">>,
   clarification_comment |-> <<"reserve", "question", "saveQuestion", "clear">>,
   commit_status |-> <<"reserve", "status", "clear">>,
   push |-> <<"reserve", "push", "clear">>,
   checkpoint |->
     <<"reserve", "commit", "labels", "comment", "save", "record", "clear">>,
   pull_request |->
     IF e.persist
       THEN <<"reserve", "upsert", "labels", "comment", "save", "record", "clear">>
       ELSE <<"reserve", "upsert", "clear">>,
   worker_launch |-> <<"reserve", "start", "clear">>,
   harness_resume |-> <<"reserve", "count", "resume", "session", "clear">>,
   result_acceptance |->
     <<"reserve", "terminal", "finish", "stop", "unit", "labels", "comment",
       "save", "record", "clear">>
  ][e.kind]

\* A replay checks the stored run instead of reserving, never records the
\* transition in the evaluation summary, and ends with the comparison of the
\* run with its projections.
ReplayPlan(e) ==
  IF e.kind = "none" THEN <<"diagnose">> ELSE
  [state_transition |->
     <<"check", "stop", "labels", "comment", "save", "clear", "diagnose">>,
   status_comment |-> <<"watermark", "statusComment", "clear", "diagnose">>,
   clarification_comment |->
     <<"question", "saveQuestion", "clear", "diagnose">>,
   commit_status |-> <<"push", "status", "clear", "diagnose">>,
   push |-> <<"push", "clear", "diagnose">>,
   checkpoint |->
     <<"check", "commit", "labels", "comment", "save", "clear", "diagnose">>,
   pull_request |->
     IF e.persist
       THEN <<"check", "upsert", "labels", "comment", "save", "clear", "diagnose">>
       ELSE <<"upsert", "clear", "diagnose">>,
   worker_launch |-> <<"start", "clear", "diagnose">>,
   harness_resume |-> <<"count", "resume", "session", "clear", "diagnose">>,
   result_acceptance |->
     <<"check", "terminal", "finish", "stop", "unit", "labels", "comment",
       "save", "clear", "diagnose">>
  ][e.kind]

Plan(mode, e) == IF mode = "apply" THEN ApplyPlan(e) ELSE ReplayPlan(e)

-----------------------------------------------------------------------------
(* The operation in progress *)

\* Between operations.  held is the run a finished pass hands its caller,
\* which continues with it instead of reading the store again.
Idle(held) ==
  [mode |-> "idle", effect |-> NoEffect, at |-> 1, base |-> held,
   next |-> held, rejected |-> FALSE, ambiguous |-> FALSE]

Apply(e, r) ==
  [mode |-> "apply", effect |-> e, at |-> 1, base |-> r, next |-> e.next,
   rejected |-> FALSE, ambiguous |-> FALSE]

\* A reconciliation pass over the stored run; e is NoEffect when no effect is
\* pending and the pass only compares.
Reconciling(e, r) ==
  [mode |-> "replay", effect |-> e, at |-> 1, base |-> r,
   next |-> IF e = NoEffect THEN r ELSE e.next,
   rejected |-> FALSE, ambiguous |-> FALSE]

\* A pass that found a discrepancy, and is about to pause run r; drift says
\* whether the tracker's label or status comment disagreed.
Pausing(r, drift) ==
  [Idle(r) EXCEPT !.mode = "pause", !.ambiguous = drift]

\* A pass whose native resume was refused, about to park run r.
Parking(r) == [Idle(r) EXCEPT !.mode = "park"]

At(s) ==
  /\ op.mode \in {"apply", "replay"}
  /\ Plan(op.mode, op.effect)[op.at] = s
OpIdle == op.mode = "idle"
Replaying == op.mode = "replay"
Advance == op' = [op EXCEPT !.at = @ + 1]

\* The runs a caller may hold: the row it read, or the run a pass returned.
HeldRuns == {run, op.next}

-----------------------------------------------------------------------------
(* Callers: one action per operation that reserves an effect *)

Bumped(r) == [r EXCEPT !.rev = @ + 1]

\* A caller starts an effect of kind k after the pending row was drained.
MayBegin(k, r) ==
  /\ OpIdle /\ pending = NoEffect
  /\ k \in Kinds
  /\ r.rev < MaxRevision

\* The claim is complete: the run knows its status comment.
Published(r) == r.comment # 0

Begin(e, r) ==
  /\ op' = Apply(e, r)
  /\ UNCHANGED <<store, pending, external, interrupts, abandoned>>

Transition(r, n) == NewEffect("state_transition", r, n, n.rev)

\* A workflow stage or a lifecycle pause persists a status.
BeginTransition ==
  \E r \in HeldRuns, s \in TargetStatuses, stop \in BOOLEAN :
    LET n == [Bumped(r) EXCEPT !.status = s, !.reason = "none"]
    IN /\ MayBegin("state_transition", r)
       /\ Published(r) /\ ~IsTerminalStatus(r.status)
       /\ Begin([Transition(r, n) EXCEPT !.stop = stop], r)

\* An accepted command that resumes, retries or repairs the run persists its
\* watermark before any external mutation.
BeginCommand ==
  \E r \in HeldRuns :
    LET n == [Bumped(r) EXCEPT !.status = "active", !.reason = "none",
                               !.command = @ + 1]
    IN /\ MayBegin("state_transition", r)
       /\ Published(r) /\ r.status # "complete"
       /\ Begin([Transition(r, n) EXCEPT !.before = TRUE], r)

\* A refreshed specification packet discards the results of the old one.
BeginPacketChange ==
  \E r \in HeldRuns :
    LET n == [Bumped(r) EXCEPT !.status = "active", !.reason = "none",
                               !.packet = @ + 1]
    IN /\ MayBegin("state_transition", r)
       /\ Published(r) /\ ~IsTerminalStatus(r.status)
       /\ r.packet < MaxCount
       /\ Begin([Transition(r, n) EXCEPT !.invalidate = TRUE], r)

\* The issue was closed or the pull request merged.  A long-lived process that
\* already ran its startup pass does not drain the journal first; the status
\* comment is recovered by its marker.
BeginTerminal ==
  \E s \in {"cancelled", "complete"} :
    LET n == [Bumped(run) EXCEPT !.status = s, !.reason = "none",
                                 !.comment = 1]
    IN /\ OpIdle /\ "state_transition" \in Kinds
       /\ run.rev < MaxRevision
       /\ ~IsTerminalStatus(run.status) /\ issue.comments > 0
       /\ Begin([Transition(run, n) EXCEPT !.stop = TRUE], run)

\* A command that changes nothing else claims its comment's watermark.
BeginCommandProjection ==
  \E r \in HeldRuns :
    LET n == [Bumped(r) EXCEPT !.command = @ + 1, !.comment = 1]
    IN /\ MayBegin("status_comment", r)
       /\ issue.comments > 0
       /\ Begin(NewEffect("status_comment", r, n, n.rev), r)

\* An invocation asked questions about the current packet.
BeginClarification ==
  \E r \in HeldRuns :
    /\ MayBegin("clarification_comment", r)
    /\ r.status = "waiting_for_human" /\ Published(r)
    /\ Begin(NewEffect("clarification_comment", r, r, r.packet), r)

BeginCommitStatus ==
  \E r \in HeldRuns :
    /\ MayBegin("commit_status", r)
    /\ r.status = "active" /\ Published(r)
    /\ Begin(NewEffect("commit_status", r, r, r.checkpoint), r)

BeginPush ==
  \E r \in HeldRuns :
    /\ MayBegin("push", r)
    /\ r.status = "active" /\ Published(r)
    /\ Begin(NewEffect("push", r, r, r.checkpoint), r)

\* The caller has verified that HEAD is the recorded checkpoint.
BeginCheckpoint ==
  \E r \in HeldRuns :
    LET n == Bumped(r)
    IN /\ MayBegin("checkpoint", r)
       /\ r.status = "active" /\ Published(r)
       /\ code.head = r.checkpoint /\ r.checkpoint < MaxCount
       /\ Begin(NewEffect("checkpoint", r, n, r.checkpoint), r)

\* A draft pull request is published with the run projection (persist), or
\* only its generated body is regenerated.
BeginPullRequest ==
  \E r \in HeldRuns, persist \in BOOLEAN :
    LET n == IF persist THEN Bumped(r) ELSE r
    IN /\ MayBegin("pull_request", r)
       /\ r.status = "active" /\ Published(r)
       /\ persist \/ r.pull # 0
       /\ Begin([NewEffect("pull_request", r, n, r.pull)
                   EXCEPT !.persist = persist], r)

\* A launch records a fresh active invocation unless one is active, then
\* starts its worker.
BeginWorkerLaunch ==
  \E r \in HeldRuns :
    /\ MayBegin("worker_launch", r)
    /\ r.status = "active" /\ Published(r)
    /\ op' = Apply(NewEffect("worker_launch", r, r, 0), r)
    /\ IF invocation.status = "active"
         THEN UNCHANGED <<invocation, native>>
         ELSE /\ invocation' = [status |-> "active", auto |-> 0, manual |-> 0,
                                unit |-> FALSE]
              /\ native' = [auto |-> 0, manual |-> 0, finished |-> 0]
    /\ UNCHANGED <<run, results, evaluated, pending, issue, code, worker,
                   interrupts, abandoned>>

\* One automatic continuation of the native session of an invocation, or any
\* number an operator asks for (MaxCount bounds them).
BeginResume ==
  \E r \in HeldRuns, manual \in BOOLEAN :
    LET count == IF manual THEN invocation.manual ELSE invocation.auto
    IN /\ MayBegin("harness_resume", r)
       /\ r.status = "active" /\ Published(r)
       /\ invocation.status = "active"
       /\ IF manual THEN count < MaxCount ELSE count = 0
       /\ Begin([NewEffect("harness_resume", r, r, count + 1)
                   EXCEPT !.manual = manual], r)

\* A validated report is accepted.
BeginAcceptance ==
  \E r \in HeldRuns, s \in {"active", "waiting_for_human"},
     stop \in BOOLEAN :
    LET n == [Bumped(r) EXCEPT !.status = s]
    IN /\ MayBegin("result_acceptance", r)
       /\ r.status = "active" /\ Published(r)
       /\ invocation.status = "active"
       /\ Begin([NewEffect("result_acceptance", r, n, n.rev)
                   EXCEPT !.stop = stop], r)

BeginSome ==
  \/ BeginTransition \/ BeginCommand \/ BeginPacketChange \/ BeginTerminal
  \/ BeginCommandProjection \/ BeginClarification \/ BeginCommitStatus
  \/ BeginPush \/ BeginCheckpoint \/ BeginPullRequest \/ BeginWorkerLaunch
  \/ BeginResume \/ BeginAcceptance

\* A gate run stores its results for the current packet.
RecordResults ==
  /\ OpIdle /\ run.status = "active" /\ results # run.packet
  /\ results' = run.packet
  /\ UNCHANGED <<run, evaluated, invocation, pending, external, op,
                 interrupts, abandoned>>

-----------------------------------------------------------------------------
(* Steps of an effect: one action per boundary *)

\* SavePendingEffect keeps one row per run: it inserts, refreshes the payload
\* of the same effect, or refuses.
Reserve ==
  /\ At("reserve")
  /\ pending = NoEffect \/ SameReservation(pending, op.effect)
  /\ pending' = op.effect
  /\ Advance
  /\ UNCHANGED <<store, external, interrupts, abandoned>>

\* A plausible slip: a replay refuses a revision it has already stored.
StaleReplayOfOwnRevision(e) == run.rev # e.prev

\* A replay is accepted only from the revision it was reserved at, or when
\* its own revision is already stored.
StaleReplay(e) ==
  \/ run.rev > e.next.rev
  \/ run.rev < e.next.rev /\ run.rev # e.prev
  \/ e.kind = "result_acceptance" /\ invocation.status = "superseded"

Check ==
  /\ At("check") /\ ~StaleReplay(op.effect)
  /\ op' = [op EXCEPT
       !.at = @ + 1,
       !.next.comment =
         IF /\ op.effect.kind \in {"state_transition", "result_acceptance"}
            /\ run.rev = op.next.rev /\ run.comment # 0
           THEN run.comment ELSE @]
  /\ UNCHANGED <<store, pending, external, interrupts, abandoned>>

StopActiveWorkers ==
  /\ At("stop")
  /\ worker' = (worker /\ ~op.effect.stop)
  /\ Advance
  /\ UNCHANGED <<store, pending, issue, code, native, interrupts, abandoned>>

\* A plausible slip: the label of the previous status is kept.
ReplaceLabelsFromBase ==
  /\ At("labels")
  /\ issue' = [issue EXCEPT !.label = FactoryLabelForStatus(op.base.status)]
  /\ Advance
  /\ UNCHANGED <<store, pending, code, worker, native, interrupts, abandoned>>

\* The labels are read and replaced only when they differ.
ReplaceLabels ==
  /\ At("labels")
  /\ issue' = [issue EXCEPT !.label = FactoryLabelForStatus(op.next.status)]
  /\ Advance
  /\ UNCHANGED <<store, pending, code, worker, native, interrupts, abandoned>>

\* The comment is found by its marker.  A claim creates it when it is missing;
\* every other transition edits the recorded or recovered one.
CommentMissing == issue.comments = 0 /\ ~op.effect.create /\ op.next.comment = 0

\* A plausible slip: an existing comment is not repaired.
PostStatusCommentOnce ==
  LET found == issue.comments > 0
      next  == [op.next EXCEPT !.comment =
                  IF op.effect.create \/ @ = 0 THEN 1 ELSE @]
  IN /\ At("comment") /\ ~CommentMissing
     /\ issue' = IF found THEN issue
                  ELSE [issue EXCEPT !.comments = @ + 1,
                                     !.body = StatusCommentBody(next)]
     /\ op' = [op EXCEPT !.at = @ + 1, !.next = next]
     /\ UNCHANGED <<store, pending, code, worker, native, interrupts,
                    abandoned>>

PostStatusComment ==
  LET found == issue.comments > 0
      next  == [op.next EXCEPT !.comment =
                  IF op.effect.create \/ @ = 0 THEN 1 ELSE @]
  IN /\ At("comment") /\ ~CommentMissing
     /\ issue' = [issue EXCEPT
                    !.comments = IF op.effect.create /\ ~found THEN @ + 1 ELSE @,
                    !.body = StatusCommentBody(next)]
     /\ op' = [op EXCEPT !.at = @ + 1, !.next = next]
     /\ UNCHANGED <<store, pending, code, worker, native, interrupts,
                    abandoned>>

\* A plausible slip: a replay compares the revisions with an off-by-one.
SaveNeededLate == op.mode = "apply" \/ op.base.rev + 1 < op.next.rev

\* A replay leaves a run alone that already has the revision.  A transition
\* that crosses a packet boundary discards the superseded results in the same
\* transaction.
SaveNeeded == op.mode = "apply" \/ op.base.rev < op.next.rev

\* A guarded save refuses a run that moved past the expected revision.
SaveRefused ==
  /\ At("save") /\ SaveNeeded
  /\ op.effect.invalidate \/ (op.effect.before /\ op.mode = "apply")
  /\ run.rev # op.effect.prev

\* A plausible slip: the packet boundary keeps the superseded results.
SaveRunKeepingResults ==
  /\ At("save") /\ ~SaveRefused
  /\ run' = IF SaveNeeded THEN op.next ELSE run
  /\ Advance
  /\ UNCHANGED <<results, evaluated, invocation, pending, external, interrupts,
                 abandoned>>

SaveRun ==
  /\ At("save") /\ ~SaveRefused
  /\ run' = IF SaveNeeded THEN op.next ELSE run
  /\ results' = IF SaveNeeded /\ op.effect.invalidate THEN 0 ELSE results
  /\ invocation' = IF SaveNeeded /\ op.effect.invalidate
                     THEN [invocation EXCEPT !.status = "superseded"]
                     ELSE invocation
  /\ Advance
  /\ UNCHANGED <<evaluated, pending, external, interrupts, abandoned>>

\* A plausible slip: the summary records the label instead of the status.
RecordLabel ==
  /\ At("record")
  /\ evaluated' = FactoryLabelForStatus(op.next.status)
  /\ Advance
  /\ UNCHANGED <<run, results, invocation, pending, external, interrupts,
                 abandoned>>

RecordTransition ==
  /\ At("record")
  /\ evaluated' = op.next.status
  /\ Advance
  /\ UNCHANGED <<run, results, invocation, pending, external, interrupts,
                 abandoned>>

\* A stored watermark must be the one this projection reserved.
WatermarkSuperseded ==
  IF run.rev < op.next.rev THEN run.rev # op.effect.prev
                           ELSE run.command # op.next.command

SaveWatermark ==
  /\ At("watermark") /\ ~WatermarkSuperseded
  /\ run' = IF run.rev < op.next.rev THEN op.next ELSE run
  /\ Advance
  /\ UNCHANGED <<results, evaluated, invocation, pending, external,
                 interrupts, abandoned>>

ApplyStatusComment ==
  /\ At("statusComment")
  /\ issue' = [issue EXCEPT !.body = StatusCommentBody(op.effect.next)]
  /\ Advance
  /\ UNCHANGED <<store, pending, code, worker, native, interrupts, abandoned>>

\* A plausible slip: the marker is not looked up before a question is created.
CreateQuestion ==
  LET v == op.effect.target
  IN /\ At("question")
     /\ issue' = [issue EXCEPT !.questions[v] = @ + 1]
     /\ Advance
     /\ UNCHANGED <<store, pending, code, worker, native, interrupts,
                    abandoned>>

\* The question comment of a packet version is found by its marker or created.
FindOrCreateQuestion ==
  LET v == op.effect.target
  IN /\ At("question")
     /\ issue' = [issue EXCEPT !.questions[v] = IF @ = 0 THEN 1 ELSE @]
     /\ Advance
     /\ UNCHANGED <<store, pending, code, worker, native, interrupts,
                    abandoned>>

\* Apply saves the caller's run, a replay the run it has just read.
SaveQuestion ==
  LET r == IF Replaying THEN run ELSE op.next
      n == [r EXCEPT !.question = op.effect.target]
  IN /\ At("saveQuestion")
     /\ run' = n
     /\ op' = [op EXCEPT !.at = @ + 1, !.next = n]
     /\ UNCHANGED <<results, evaluated, invocation, pending, external,
                    interrupts, abandoned>>

\* A plausible slip: a commit-status replay does not publish the checkpoint.
PushNeededForPush ==
  code.remote # op.effect.target /\ op.effect.kind = "push"

\* The remote is observed before it is pushed.  A commit-status replay pushes
\* only the run's own checkpoint.
PushNeeded ==
  /\ code.remote # op.effect.target
  /\ op.effect.kind = "push" \/ op.effect.target = run.checkpoint

PushOnce ==
  /\ At("push") /\ ~(PushNeeded /\ code.head # op.effect.target)
  /\ code' = [code EXCEPT !.remote = IF PushNeeded THEN code.head ELSE @]
  /\ Advance
  /\ UNCHANGED <<store, pending, issue, worker, native, interrupts, abandoned>>

\* The code host refuses a status for a commit it does not know.
UnknownCommit == op.effect.target > code.remote

\* A plausible slip: the statuses are not listed before one is created.
CreateCommitStatusBlindly ==
  LET sha == op.effect.target
  IN /\ At("status") /\ ~UnknownCommit
     /\ code' = [code EXCEPT !.statuses[sha] = @ + 1]
     /\ Advance
     /\ UNCHANGED <<store, pending, issue, worker, native, interrupts,
                    abandoned>>

CreateCommitStatus ==
  LET sha == op.effect.target
  IN /\ At("status") /\ ~UnknownCommit
     /\ code' = [code EXCEPT !.statuses[sha] = IF @ = 0 THEN 1 ELSE @]
     /\ Advance
     /\ UNCHANGED <<store, pending, issue, worker, native, interrupts,
                    abandoned>>

\* A commit already carrying the checkpoint marker is adopted.
CreateCheckpoint ==
  LET head == IF code.head = op.effect.target THEN code.head + 1 ELSE code.head
  IN /\ At("commit")
     /\ code' = [code EXCEPT !.head = head]
     /\ op' = [op EXCEPT !.at = @ + 1, !.next.checkpoint = head]
     /\ UNCHANGED <<store, pending, issue, worker, native, interrupts,
                    abandoned>>

\* The pull request is found by its branch; an expected one may not vanish.
UpsertPullRequest ==
  LET pulls == IF code.pulls = 0 THEN 1 ELSE code.pulls
  IN /\ At("upsert")
     /\ code' = [code EXCEPT !.pulls = pulls]
     /\ op' = [op EXCEPT !.at = @ + 1,
                         !.next.pull = IF op.effect.persist THEN 1 ELSE @]
     /\ UNCHANGED <<store, pending, issue, worker, native, interrupts,
                    abandoned>>

StartWorker ==
  /\ At("start")
  /\ worker' = TRUE
  /\ Advance
  /\ UNCHANGED <<store, pending, issue, code, native, interrupts, abandoned>>

\* The resume counter is saved before the native command.  A replay that finds
\* it saved must not resume again: the command may have succeeded.
ResumeCount == IF op.effect.manual THEN invocation.manual ELSE invocation.auto

SetResumeCount(n) ==
  invocation' = IF op.effect.manual THEN [invocation EXCEPT !.manual = n]
                                    ELSE [invocation EXCEPT !.auto = n]

\* A plausible slip: a replay resumes although the counter was saved.
CountAndResume ==
  /\ At("count")
  /\ SetResumeCount(op.effect.target)
  /\ Advance
  /\ UNCHANGED <<run, results, evaluated, pending, external, interrupts,
                 abandoned>>

Count ==
  /\ At("count")
  /\ IF Replaying /\ ResumeCount >= op.effect.target
       THEN /\ op' = [op EXCEPT !.at = @ + 3, !.ambiguous = TRUE]
            /\ UNCHANGED invocation
       ELSE /\ SetResumeCount(op.effect.target)
            /\ Advance
  /\ UNCHANGED <<run, results, evaluated, pending, external, interrupts,
                 abandoned>>

\* The harness starts the continuation, or refuses it because of its capacity
\* or its credentials, before any continuation exists.
Resume ==
  /\ At("resume")
  /\ \/ /\ native' = IF op.effect.manual
                       THEN [native EXCEPT !.manual = @ + 1]
                       ELSE [native EXCEPT !.auto = @ + 1]
        /\ Advance
     \/ /\ op' = [op EXCEPT !.at = @ + 1, !.rejected = TRUE]
        /\ UNCHANGED native
  /\ UNCHANGED <<store, pending, issue, code, worker, interrupts, abandoned>>

\* The native session identity is saved, or the counter is rolled back.
Session ==
  /\ At("session")
  /\ IF op.rejected THEN SetResumeCount(op.effect.target - 1)
                    ELSE UNCHANGED invocation
  /\ Advance
  /\ UNCHANGED <<run, results, evaluated, pending, external, interrupts,
                 abandoned>>

\* A plausible slip: a replay repeats the finish of a terminal invocation.
TerminalAndFinish ==
  /\ At("terminal")
  /\ invocation' = IF invocation.status = "active"
                     THEN [invocation EXCEPT !.status = "completed"]
                     ELSE invocation
  /\ Advance
  /\ UNCHANGED <<run, results, evaluated, pending, external, interrupts,
                 abandoned>>

\* The invocation becomes terminal before the harness is told to finish.  A
\* replay that finds it terminal does not repeat the finish.
Terminal ==
  /\ At("terminal")
  /\ invocation' = IF invocation.status = "active"
                     THEN [invocation EXCEPT !.status = "completed"]
                     ELSE invocation
  /\ op' = [op EXCEPT !.at =
               @ + (IF Replaying /\ invocation.status # "active" THEN 2 ELSE 1)]
  /\ UNCHANGED <<run, results, evaluated, pending, external, interrupts,
                 abandoned>>

Finish ==
  /\ At("finish")
  /\ native' = [native EXCEPT !.finished = @ + 1]
  /\ Advance
  /\ UNCHANGED <<store, pending, issue, code, worker, interrupts, abandoned>>

SaveUnitResult ==
  /\ At("unit")
  /\ invocation' = [invocation EXCEPT !.unit = TRUE]
  /\ Advance
  /\ UNCHANGED <<run, results, evaluated, pending, external, interrupts,
                 abandoned>>

\* The reservation is acknowledged last.  Apply returns the run to its caller;
\* a replay goes on to compare it, unless its native resume was refused.
Clear ==
  /\ At("clear")
  /\ pending' = NoEffect
  /\ op' = CASE ~Replaying -> Idle(op.next)
              [] Replaying /\ op.rejected ->
                   IF IsTerminalStatus(op.base.status) THEN Idle(op.base)
                                                       ELSE Parking(op.base)
              [] OTHER -> [op EXCEPT !.at = @ + 1]
  /\ UNCHANGED <<store, external, interrupts, abandoned>>

-----------------------------------------------------------------------------
(* Restart recovery: comparing the run with its projections, and pausing it *)

\* A replay of a transition returns the payload's run, even when the save was
\* skipped; every other replay reads the run back.
Returned ==
  IF op.effect.kind \in {"state_transition", "checkpoint", "result_acceptance"}
     \/ (op.effect.kind = "pull_request" /\ op.effect.persist)
    THEN op.next ELSE run

LabelOrCommentDrift(r) ==
  \/ issue.label # FactoryLabelForStatus(r.status)
  \/ issue.comments = 0 \/ r.comment = 0
  \/ StatusCommentComparable(issue.body)
       # StatusCommentComparable(StatusCommentBody(r))

\* The draft pull request and the worktree are compared by identity.
OtherDrift(r) == code.head # r.checkpoint \/ code.pulls # r.pull

Diagnose ==
  LET r == Returned
  IN /\ At("diagnose")
     /\ op' = IF op.ambiguous THEN Pausing(r, LabelOrCommentDrift(r))
              ELSE IF \/ r.status = "waiting_for_harness"
                      \/ IsTerminalStatus(r.status)
                      \/ ~LabelOrCommentDrift(r) /\ ~OtherDrift(r)
                THEN Idle(r)
                ELSE Pausing(r, LabelOrCommentDrift(r))
     /\ UNCHANGED <<store, pending, external, interrupts, abandoned>>

ReconciliationPause(r) ==
  [r EXCEPT !.status = "waiting_for_human", !.reason = "reconciliation"]

\* The issue read that precedes a published pause may fail.
IssueReadFails == interrupts < MaxInterrupts

\* A pause that is already published is left alone.  Otherwise it is an
\* ordinary state transition, or, without a status comment or an answer from
\* the tracker, a plain save that keeps the revision.
PauseForRecovery ==
  LET r == op.base
      n == ReconciliationPause(r)
      published == IsRestartReconciliationPause(r) /\ ~op.ambiguous
  IN /\ op.mode = "pause"
     /\ worker' = FALSE
     /\ \/ /\ published
           /\ op' = Idle(r)
           /\ UNCHANGED <<run, interrupts>>
        \/ /\ ~published /\ r.comment # 0
           /\ op' = Apply(Transition(r, Bumped(n)), r)
           /\ UNCHANGED <<run, interrupts>>
        \/ /\ ~published /\ r.comment = 0
           /\ run' = n /\ op' = Idle(n)
           /\ UNCHANGED interrupts
        \/ /\ ~published /\ r.comment # 0 /\ IssueReadFails
           /\ run' = n /\ op' = Idle(n)
           /\ interrupts' = interrupts + 1
     /\ UNCHANGED <<results, evaluated, invocation, pending, issue, code,
                    native, abandoned>>

\* A refused native resume parks the run until the harness has capacity or a
\* person refreshes its credentials.
PauseForHarness ==
  /\ op.mode = "park"
  /\ worker' = FALSE
  /\ \E s \in {"waiting_for_harness", "waiting_for_human"} :
       LET r == op.base
           n == [Bumped(r) EXCEPT !.status = s, !.reason = "harness"]
       IN IF r.status = s /\ r.reason = "harness"
            THEN op' = Idle(r) /\ UNCHANGED run
            ELSE IF r.comment # 0
              THEN op' = Apply(Transition(r, n), r) /\ UNCHANGED run
              ELSE op' = Idle(n) /\ run' = n
  /\ UNCHANGED <<results, evaluated, invocation, pending, issue, code, native,
                 interrupts, abandoned>>

\* A reservation that cannot be replayed stays for a person; the run is paused
\* in the store alone, at the next revision.
PauseRunLocally ==
  LET r == op.base
      n == ReconciliationPause(Bumped(r))
  IN /\ IF IsTerminalStatus(r.status)
          THEN op' = Idle(r) /\ UNCHANGED <<run, worker>>
          ELSE /\ worker' = FALSE
               /\ IF IsRestartReconciliationPause(r)
                    THEN /\ run' \in {run, r}
                         /\ op' = Idle(r)
                    ELSE /\ run' = n
                         /\ op' = Idle(n)
     /\ UNCHANGED <<results, evaluated, invocation, pending, issue, code,
                    native, abandoned>>

-----------------------------------------------------------------------------
(* Failing steps, interruptions and passes *)

StepRefused ==
  \/ /\ At("reserve")
     /\ pending # NoEffect /\ ~SameReservation(pending, op.effect)
  \/ At("check") /\ StaleReplay(op.effect)
  \/ At("comment") /\ CommentMissing
  \/ At("watermark") /\ WatermarkSuperseded
  \/ At("push") /\ PushNeeded /\ code.head # op.effect.target
  \/ At("status") /\ UnknownCommit
  \/ SaveRefused

\* Apply returns the error and leaves the reservation where it is.
ApplyRefused ==
  /\ op.mode = "apply" /\ StepRefused
  /\ op' = Idle(run)
  /\ UNCHANGED <<store, pending, external, interrupts, abandoned>>

ReplayRefused == Replaying /\ StepRefused /\ PauseRunLocally
                 /\ UNCHANGED interrupts

ExternalSteps ==
  {"stop", "labels", "comment", "statusComment", "question", "push", "status",
   "commit", "upsert", "start", "resume", "finish"}

\* A GitHub, Git, Docker or harness call of a replay answers with an error.
ReplayFails ==
  /\ interrupts < MaxInterrupts
  /\ Replaying /\ pending.kind \in Errors /\ \E s \in ExternalSteps : At(s)
  /\ interrupts' = interrupts + 1
  /\ PauseRunLocally

\* The process stops, or a host command times out, between two boundaries.  A
\* lost response is the case in which the boundary was crossed.
Interrupt ==
  /\ ~OpIdle /\ interrupts < MaxInterrupts
  /\ interrupts' = interrupts + 1
  /\ op' = Idle(run)
  /\ UNCHANGED <<store, pending, external, abandoned>>

\* Every progression seam drains the pending effect before it does anything.
StartReplay ==
  /\ OpIdle /\ pending # NoEffect
  /\ op' = Reconciling(pending, run)
  /\ UNCHANGED <<store, pending, external, interrupts, abandoned>>

\* A restarted process compares an idle run with its projections once.
StartReconcile ==
  /\ OpIdle /\ pending = NoEffect
  /\ op' = Reconciling(NoEffect, run)
  /\ UNCHANGED <<store, pending, external, interrupts, abandoned>>

\* A person decides that the pending effect must not be replayed.
Abandon ==
  /\ OpIdle /\ pending # NoEffect
  /\ pending' = NoEffect
  /\ abandoned' = TRUE
  /\ op' = IF IsTerminalStatus(run.status) THEN Idle(run)
                                           ELSE Pausing(run, FALSE)
  /\ UNCHANGED <<store, external, interrupts>>

-----------------------------------------------------------------------------
(* The specification *)

\* The claim has saved the run and is about to publish it: the issue still
\* carries its ready label and no status comment exists.
ClaimedRun ==
  [rev |-> 0, status |-> "active", reason |-> "none", command |-> 0,
   packet |-> 1, comment |-> 0, question |-> 0, checkpoint |-> 0, pull |-> 0]

ClaimTransition ==
  [Transition(ClaimedRun, Bumped(ClaimedRun)) EXCEPT !.create = TRUE]

Init ==
  /\ run = ClaimedRun
  /\ results = 0
  /\ evaluated = "active"
  /\ invocation = [status |-> "active", auto |-> 0, manual |-> 0,
                    unit |-> FALSE]
  /\ pending = NoEffect
  /\ issue = [label |-> "agent-ready", comments |-> 0,
               body |-> StatusCommentBody(ClaimedRun),
               questions |-> [v \in 1 .. MaxCount |-> 0]]
  /\ code = [head |-> 0, remote |-> 0, pulls |-> 0,
              statuses |-> [c \in 0 .. MaxCount |-> 0]]
  /\ worker = TRUE
  /\ native = [auto |-> 0, manual |-> 0, finished |-> 0]
  /\ op = Apply(ClaimTransition, ClaimedRun)
  /\ interrupts = 0
  /\ abandoned = FALSE

Step ==
  \/ Reserve \/ Check \/ StopActiveWorkers \/ ReplaceLabels
  \/ PostStatusComment \/ SaveRun \/ RecordTransition
  \/ SaveWatermark \/ ApplyStatusComment \/ FindOrCreateQuestion
  \/ SaveQuestion \/ PushOnce \/ CreateCommitStatus \/ CreateCheckpoint
  \/ UpsertPullRequest \/ StartWorker \/ Count \/ Resume \/ Session
  \/ Terminal \/ Finish \/ SaveUnitResult \/ Clear
  \/ Diagnose \/ PauseForRecovery \/ PauseForHarness
  \/ ApplyRefused \/ ReplayRefused

Next ==
  \/ BeginSome \/ RecordResults \/ Step
  \/ ReplayFails \/ Interrupt
  \/ StartReplay \/ StartReconcile \/ Abandon

\* An operation that has started runs on unless it is interrupted, and every
\* polling pass drains the journal before it lets the workflow move.
Fairness == WF_vars(Step) /\ SF_vars(StartReplay)

Spec == Init /\ [][Next]_vars /\ Fairness

-----------------------------------------------------------------------------
(* Properties *)

FactoryLabels == {"agent-ready"} \cup {FactoryLabelForStatus(s) : s \in RunStatuses}

Body == [status : RunStatuses, command : Nat, checkpoint : Nat, pull : Nat,
         reason : Reasons]

Operation == [mode : {"idle", "apply", "replay", "pause", "park"},
              effect : Effect \cup {NoEffect}, at : Nat, base : Run,
              next : Run, rejected : BOOLEAN, ambiguous : BOOLEAN]

\* An operation that applies or replays an effect stands at one of the
\* boundaries of its plan.
OperationOK ==
  /\ op \in Operation
  /\ op.mode = "apply" => op.effect # NoEffect
  /\ op.mode \in {"apply", "replay"}
       => op.at \in DOMAIN Plan(op.mode, op.effect)

\* The type of every variable, and the place of the operation in its plan.
TypeOK ==
  /\ run \in Run /\ results \in Nat /\ evaluated \in RunStatuses
  /\ invocation \in Invocation
  /\ pending \in Effect \cup {NoEffect}
  /\ issue \in [label : FactoryLabels, comments : Nat, body : Body,
                questions : [1 .. MaxCount -> Nat]]
  /\ code \in [head : Nat, remote : Nat, pulls : Nat,
               statuses : [0 .. MaxCount -> Nat]]
  /\ worker \in BOOLEAN
  /\ native \in [auto : Nat, manual : Nat, finished : Nat]
  /\ OperationOK
  /\ interrupts \in Nat /\ abandoned \in BOOLEAN

\* While nothing is reserved, the label and the status comment show the stored
\* run, unless a person abandoned an effect or the run already waits for one
\* after a reconciliation: no crash leaves a silent disagreement behind.
ProjectionsFollowRun ==
  pending = NoEffect /\ ~abandoned /\ run.rev # 0
    => ~LabelOrCommentDrift(run) \/ IsRestartReconciliationPause(run)

\* While nothing is reserved, HEAD is the recorded checkpoint and the recorded
\* pull request is the one that exists.
CodeFollowsRun ==
  pending = NoEffect /\ ~abandoned => ~OtherDrift(run)

\* However often an effect is interrupted and replayed, a run has one status
\* comment, one question comment per packet version, one pull request and one
\* status per checkpoint.
NothingCreatedTwice ==
  /\ issue.comments <= 1 /\ code.pulls <= 1
  /\ \A v \in DOMAIN issue.questions : issue.questions[v] <= 1
  /\ \A c \in DOMAIN code.statuses : code.statuses[c] <= 1

\* A native resume is counted in the store before the harness performs it, so
\* the harness never continued a session more often than was reserved.
ResumesAreReserved ==
  native.auto <= invocation.auto /\ native.manual <= invocation.manual

\* An accepted session is told to finish at most once.
FinishedAtMostOnce == native.finished <= 1

\* What the harness was told stays within what the store recorded first, over
\* every replay of a resume (harness_resume.go) or of an acceptance
\* (result_acceptance.go).
HarnessActsAsStored == ResumesAreReserved /\ FinishedAtMostOnce

\* Stored gate results belong to the packet of the stored run.
ResultsMatchPacket == results \in {0, run.packet}

\* An acknowledged transition is a stored one: no reservation is cleared before
\* the run it reserved is durable (state_transition.go, package journal.go).
AcknowledgedIsStored ==
  [][pending # NoEffect /\ pending' = NoEffect /\ ~abandoned'
       => pending.next.rev <= run.rev
          /\ (pending.next.rev = run.rev => pending.next.status = run.status)
    ]_vars

\* An unresolved reservation is never replaced by another one
\* (factory/lifecycle.go:81-83).
NoReservationReplaced ==
  [][pending # NoEffect /\ pending' # NoEffect => pending' = pending]_vars

\* Every reservation is eventually acknowledged, unless a person abandons one.
ReservationResolved == (pending # NoEffect) ~> (pending = NoEffect \/ abandoned)

\* The journal implements the promise of ReservedTransition: a status-changing
\* reservation covers the issue and the store until both agree.
ReservedStatus ==
  IF \/ pending.kind \in {"state_transition", "checkpoint", "result_acceptance"}
     \/ pending.kind = "pull_request" /\ pending.persist
    THEN pending.next.status ELSE "none"

Promise == INSTANCE ReservedTransition WITH
  Statuses <- RunStatuses, Label <- FactoryLabelForStatus, NoIntent <- "none",
  stored <- run.status, shown <- issue.label, intent <- ReservedStatus

KeepsPromise == Promise!Spec
=============================================================================
