------------------------ MODULE EffectJournalProofs ------------------------
(***************************************************************************)
(* Theorems about the effect journal, for every set of effect kinds and    *)
(* all bounds: types and the shape of the plans; then what no sequence of  *)
(* crashes, timeouts and replays can break: external objects are created   *)
(* once, native resumes are reserved before they happen, and an accepted   *)
(* session is told to finish once.  Last, that what the issue and the code *)
(* host show follows the stored run while nothing is reserved, and that    *)
(* the journal keeps the promise of a reserved transition.                 *)
(***************************************************************************)
EXTENDS EffectJournal, TLAPS

Modes == {"apply", "replay"}

-----------------------------------------------------------------------------
(* The shape of the plans *)

\* A boundary that is not the last one of its plan is followed by another one.
LEMMA PlanGoesOn ==
  ASSUME NEW e \in Effect \cup {NoEffect}, NEW m \in Modes,
         NEW i \in DOMAIN Plan(m, e),
         m = "apply" => e # NoEffect,
         Plan(m, e)[i] # "diagnose",
         m = "apply" => Plan(m, e)[i] # "clear"
  PROVE  i \in Nat /\ i + 1 \in DOMAIN Plan(m, e)
<1>0. CASE e = NoEffect
  BY <1>0 DEF Plan, ReplayPlan, NoEffect, Modes
<1>1. CASE e.kind = "state_transition"
  BY <1>1 DEF Plan, ApplyPlan, ReplayPlan, Modes, Effect
<1>2. CASE e.kind = "status_comment"
  BY <1>2 DEF Plan, ApplyPlan, ReplayPlan, Modes, Effect
<1>3. CASE e.kind = "clarification_comment"
  BY <1>3 DEF Plan, ApplyPlan, ReplayPlan, Modes, Effect
<1>4. CASE e.kind = "commit_status"
  BY <1>4 DEF Plan, ApplyPlan, ReplayPlan, Modes, Effect
<1>5. CASE e.kind = "push"
  BY <1>5 DEF Plan, ApplyPlan, ReplayPlan, Modes, Effect
<1>6. CASE e.kind = "checkpoint"
  BY <1>6 DEF Plan, ApplyPlan, ReplayPlan, Modes, Effect
<1>7. CASE e.kind = "pull_request"
  BY <1>7 DEF Plan, ApplyPlan, ReplayPlan, Modes, Effect
<1>8. CASE e.kind = "worker_launch"
  BY <1>8 DEF Plan, ApplyPlan, ReplayPlan, Modes, Effect
<1>9. CASE e.kind = "harness_resume"
  BY <1>9 DEF Plan, ApplyPlan, ReplayPlan, Modes, Effect
<1>10. CASE e.kind = "result_acceptance"
  BY <1>10 DEF Plan, ApplyPlan, ReplayPlan, Modes, Effect
<1> QED
  BY <1>0, <1>1, <1>2, <1>3, <1>4, <1>5, <1>6, <1>7, <1>8, <1>9, <1>10 DEF Effect, EffectKinds

\* Every plan has a first boundary.
LEMMA PlanStarts ==
  ASSUME NEW e \in Effect \cup {NoEffect}, NEW m \in Modes,
         m = "apply" => e # NoEffect
  PROVE  1 \in DOMAIN Plan(m, e)
<1>0. CASE e = NoEffect
  BY <1>0 DEF Plan, ReplayPlan, NoEffect, Modes
<1>1. CASE e.kind = "state_transition"
  BY <1>1 DEF Plan, ApplyPlan, ReplayPlan, Modes, Effect
<1>2. CASE e.kind = "status_comment"
  BY <1>2 DEF Plan, ApplyPlan, ReplayPlan, Modes, Effect
<1>3. CASE e.kind = "clarification_comment"
  BY <1>3 DEF Plan, ApplyPlan, ReplayPlan, Modes, Effect
<1>4. CASE e.kind = "commit_status"
  BY <1>4 DEF Plan, ApplyPlan, ReplayPlan, Modes, Effect
<1>5. CASE e.kind = "push"
  BY <1>5 DEF Plan, ApplyPlan, ReplayPlan, Modes, Effect
<1>6. CASE e.kind = "checkpoint"
  BY <1>6 DEF Plan, ApplyPlan, ReplayPlan, Modes, Effect
<1>7. CASE e.kind = "pull_request"
  BY <1>7 DEF Plan, ApplyPlan, ReplayPlan, Modes, Effect
<1>8. CASE e.kind = "worker_launch"
  BY <1>8 DEF Plan, ApplyPlan, ReplayPlan, Modes, Effect
<1>9. CASE e.kind = "harness_resume"
  BY <1>9 DEF Plan, ApplyPlan, ReplayPlan, Modes, Effect
<1>10. CASE e.kind = "result_acceptance"
  BY <1>10 DEF Plan, ApplyPlan, ReplayPlan, Modes, Effect
<1> QED
  BY <1>0, <1>1, <1>2, <1>3, <1>4, <1>5, <1>6, <1>7, <1>8, <1>9, <1>10 DEF Effect, EffectKinds

\* The boundaries of a native resume.
LEMMA ResumePlan ==
  ASSUME NEW e, e.kind = "harness_resume"
  PROVE  /\ Plan("apply", e)
              = <<"reserve", "count", "resume", "session", "clear">>
         /\ Plan("replay", e)
              = <<"count", "resume", "session", "clear", "diagnose">>
  BY DEF Plan, ApplyPlan, ReplayPlan

\* The boundaries of a result acceptance.
LEMMA AcceptancePlan ==
  ASSUME NEW e, e.kind = "result_acceptance"
  PROVE  /\ Plan("apply", e)
              = <<"reserve", "terminal", "finish", "stop", "unit", "labels",
                  "comment", "save", "record", "clear">>
         /\ Plan("replay", e)
              = <<"check", "terminal", "finish", "stop", "unit", "labels",
                  "comment", "save", "clear", "diagnose">>
  BY DEF Plan, ApplyPlan, ReplayPlan

\* Only a native resume counts and resumes, only an acceptance finishes.
LEMMA OwnSteps ==
  ASSUME NEW e \in Effect \cup {NoEffect}, NEW m \in Modes,
         m = "apply" => e # NoEffect,
         NEW i \in DOMAIN Plan(m, e)
  PROVE  /\ Plan(m, e)[i] \in {"count", "resume", "session"}
              => e.kind = "harness_resume"
         /\ Plan(m, e)[i] \in {"terminal", "finish"}
              => e.kind = "result_acceptance"
<1>0. CASE e = NoEffect
  BY <1>0 DEF Plan, ReplayPlan, NoEffect, Modes
<1>1. CASE e.kind = "state_transition"
  BY <1>1 DEF Plan, ApplyPlan, ReplayPlan, Modes, Effect
<1>2. CASE e.kind = "status_comment"
  BY <1>2 DEF Plan, ApplyPlan, ReplayPlan, Modes, Effect
<1>3. CASE e.kind = "clarification_comment"
  BY <1>3 DEF Plan, ApplyPlan, ReplayPlan, Modes, Effect
<1>4. CASE e.kind = "commit_status"
  BY <1>4 DEF Plan, ApplyPlan, ReplayPlan, Modes, Effect
<1>5. CASE e.kind = "push"
  BY <1>5 DEF Plan, ApplyPlan, ReplayPlan, Modes, Effect
<1>6. CASE e.kind = "checkpoint"
  BY <1>6 DEF Plan, ApplyPlan, ReplayPlan, Modes, Effect
<1>7. CASE e.kind = "pull_request"
  BY <1>7 DEF Plan, ApplyPlan, ReplayPlan, Modes, Effect
<1>8. CASE e.kind = "worker_launch"
  BY <1>8 DEF Plan, ApplyPlan, ReplayPlan, Modes, Effect
<1>9. CASE e.kind = "harness_resume"
  BY <1>9 DEF Plan, ApplyPlan, ReplayPlan, Modes, Effect
<1>10. CASE e.kind = "result_acceptance"
  BY <1>10 DEF Plan, ApplyPlan, ReplayPlan, Modes, Effect
<1> QED
  BY <1>0, <1>1, <1>2, <1>3, <1>4, <1>5, <1>6, <1>7, <1>8, <1>9, <1>10 DEF Effect, EffectKinds

-----------------------------------------------------------------------------
(* The type invariant *)

\* A reservation built by NewEffect is an effect.
LEMMA NewEffectType ==
  ASSUME NEW k \in EffectKinds, NEW r \in Run, NEW n \in Run, NEW t \in Nat
  PROVE  NewEffect(k, r, n, t) \in Effect
  BY DEF NewEffect, Effect, Run

\* The runs a caller may hold are runs.
LEMMA HeldRunsType ==
  ASSUME TypeOK
  PROVE  HeldRuns \subseteq Run
  BY DEF TypeOK, OperationOK, Operation, HeldRuns

\* Without an effect there is only the comparison.
LEMMA OnlyCompares ==
  ASSUME NEW i \in DOMAIN Plan("replay", NoEffect)
  PROVE  Plan("replay", NoEffect)[i] = "diagnose"
  BY DEF Plan, ReplayPlan, NoEffect

\* What standing at a boundary says about the effect.
LEMMA AtFacts ==
  ASSUME TypeOK, NEW s, At(s)
  PROVE  /\ s # "diagnose" => op.effect \in Effect
         /\ s \in {"count", "resume", "session"}
              => op.effect.kind = "harness_resume"
         /\ s \in {"terminal", "finish"} => op.effect.kind = "result_acceptance"
  BY OwnSteps, OnlyCompares DEF TypeOK, OperationOK, Operation, At, Modes

\* Moving on from a boundary that is not the last keeps the operation typed,
\* whatever run it carries.
LEMMA AdvanceType ==
  ASSUME TypeOK, NEW s, At(s), s # "diagnose", op.mode = "apply" => s # "clear",
         NEW n \in Run, NEW rej \in BOOLEAN, NEW amb \in BOOLEAN,
         op' = [op EXCEPT !.at = @ + 1, !.next = n, !.rejected = rej,
                          !.ambiguous = amb]
  PROVE  OperationOK'
<1>1. op.at \in Nat /\ op.at + 1 \in DOMAIN Plan(op.mode, op.effect)
  BY PlanGoesOn DEF TypeOK, OperationOK, Operation, At, Modes
<1>2. op \in Operation /\ (op.mode = "apply" => op.effect # NoEffect)
  BY DEF TypeOK, OperationOK
<1>3. /\ op'.mode = op.mode /\ op'.effect = op.effect
      /\ op'.at = op.at + 1
  BY <1>2 DEF Operation
<1>4. op' = [mode |-> op.mode, effect |-> op.effect, at |-> op.at + 1,
             base |-> op.base, next |-> n, rejected |-> rej, ambiguous |-> amb]
  BY <1>2 DEF Operation
<1>5. op' \in Operation
  BY <1>1, <1>2, <1>4 DEF Operation
<1> QED
  BY <1>1, <1>2, <1>3, <1>5 DEF OperationOK

\* A boundary that changes nothing else of the operation keeps its type.
LEMMA PlainAdvanceType ==
  ASSUME TypeOK, NEW s, At(s), s # "diagnose", op.mode = "apply" => s # "clear",
         Advance
  PROVE  OperationOK'
<1>1. op.at \in Nat /\ op.at + 1 \in DOMAIN Plan(op.mode, op.effect)
  BY PlanGoesOn DEF TypeOK, OperationOK, Operation, At, Modes
<1>2. op \in Operation /\ (op.mode = "apply" => op.effect # NoEffect)
  BY DEF TypeOK, OperationOK
<1>3. /\ op' \in Operation
      /\ op'.mode = op.mode /\ op'.effect = op.effect
      /\ op'.at = op.at + 1
  BY <1>1, <1>2 DEF Operation, Advance
<1> QED
  BY <1>1, <1>2, <1>3 DEF OperationOK

\* The operation types of an idle, pausing or parking coordinator.
LEMMA IdleType ==
  ASSUME NEW r \in Run, NEW b \in BOOLEAN,
         op' \in {Idle(r), Pausing(r, b), Parking(r)}
  PROVE  OperationOK'
<1>1. /\ Idle(r) \in Operation /\ Idle(r).mode = "idle"
      /\ Pausing(r, b) \in Operation /\ Pausing(r, b).mode = "pause"
      /\ Parking(r) \in Operation /\ Parking(r).mode = "park"
  BY DEF Operation, Idle, Pausing, Parking
<1>2. op' \in Operation /\ op'.mode \in {"idle", "pause", "park"}
  BY <1>1
<1> QED
  BY <1>2 DEF OperationOK

\* An operation that starts to apply an effect is at its first boundary.
LEMMA ApplyType ==
  ASSUME NEW e \in Effect, NEW r \in Run, op' = Apply(e, r)
  PROVE  OperationOK'
<1>1. e # NoEffect /\ e.next \in Run
  BY DEF Effect, NoEffect, EffectKinds
<1>2. 1 \in DOMAIN Plan("apply", e)
  BY <1>1, PlanStarts DEF Modes
<1> QED
  BY <1>1, <1>2 DEF OperationOK, Operation, Apply

\* So is a pass, whether or not an effect is pending.
LEMMA ReconcilingType ==
  ASSUME NEW e \in Effect \cup {NoEffect}, NEW r \in Run,
         op' = Reconciling(e, r)
  PROVE  OperationOK'
<1>1. 1 \in DOMAIN Plan("replay", e)
  BY PlanStarts DEF Modes
<1>2. e # NoEffect => e.next \in Run
  BY DEF Effect
<1> QED
  BY <1>1, <1>2 DEF OperationOK, Operation, Reconciling

\* A reserved native resume is about at least the first one.
ResumeTargets ==
  \A e \in {pending, op.effect} : e.kind = "harness_resume" => e.target # 0

TypeInv == TypeOK /\ ResumeTargets

\* Every status has a factory label.
LEMMA LabelType ==
  ASSUME NEW s \in RunStatuses
  PROVE  FactoryLabelForStatus(s) \in FactoryLabels
  BY DEF FactoryLabels

\* The status comment of a run is a body.
LEMMA BodyType ==
  ASSUME NEW r \in Run
  PROVE  StatusCommentBody(r) \in Body
  BY DEF StatusCommentBody, Body, Run

\* The runs that callers reserve are runs.
LEMMA NextRunType ==
  ASSUME NEW r \in Run, NEW s \in RunStatuses, NEW y \in Reasons
  PROVE  /\ Bumped(r) \in Run
         /\ [Bumped(r) EXCEPT !.status = s] \in Run
         /\ [Bumped(r) EXCEPT !.status = s, !.reason = y] \in Run
         /\ [Bumped(r) EXCEPT !.status = s, !.reason = y,
                              !.command = @ + 1] \in Run
         /\ [Bumped(r) EXCEPT !.status = s, !.reason = y,
                              !.packet = @ + 1] \in Run
         /\ [Bumped(r) EXCEPT !.status = s, !.reason = y,
                              !.comment = 1] \in Run
         /\ [Bumped(r) EXCEPT !.command = @ + 1, !.comment = 1] \in Run
         /\ ReconciliationPause(r) \in Run
         /\ ReconciliationPause(Bumped(r)) \in Run
         /\ Bumped(ReconciliationPause(r)) \in Run
<1>1. Bumped(r) \in Run
  BY DEF Bumped, Run
<1>2. \A q \in Run : [q EXCEPT !.status = s] \in Run
  BY DEF Run
<1>3. \A q \in Run : [q EXCEPT !.status = s, !.reason = y] \in Run
  BY DEF Run
<1>4. \A q \in Run, c \in Nat :
        /\ [q EXCEPT !.status = s, !.reason = y, !.command = c] \in Run
        /\ [q EXCEPT !.status = s, !.reason = y, !.packet = c] \in Run
        /\ [q EXCEPT !.command = c, !.comment = 1] \in Run
  BY DEF Run
<1>5. \A q \in Run : q.command + 1 \in Nat /\ q.packet + 1 \in Nat
  BY DEF Run
<1>6. \A q \in Run : [q EXCEPT !.status = s, !.reason = y,
                              !.comment = 1] \in Run
  BY DEF Run
<1>8. \A q \in Run : ReconciliationPause(q) \in Run
  BY DEF Run, ReconciliationPause, RunStatuses, Reasons
<1>9. Bumped(ReconciliationPause(r)) \in Run
  BY <1>8 DEF Bumped, Run
<1> QED
  BY <1>1, <1>2, <1>3, <1>4, <1>5, <1>6, <1>8, <1>9

\* A transition to a run reserves an effect.
LEMMA TransitionType ==
  ASSUME NEW r \in Run, NEW n \in Run
  PROVE  Transition(r, n) \in Effect /\ Transition(r, n).kind = "state_transition"
<1>1. n.rev \in Nat /\ "state_transition" \in EffectKinds
  BY DEF Run, EffectKinds
<1>2. Transition(r, n).kind = "state_transition"
  BY DEF Transition, NewEffect
<1> QED
  BY <1>1, <1>2, NewEffectType DEF Transition

\* Callers keep the types: the run they reserve is a run.
LEMMA BeginType == TypeInv /\ BeginSome => TypeInv'
<1> SUFFICES ASSUME TypeInv, BeginSome PROVE TypeInv'
  OBVIOUS
<1>h. \A r \in HeldRuns : r \in Run /\ r.packet \in Nat /\ r.checkpoint \in Nat
                           /\ r.pull \in Nat /\ r.rev \in Nat
  BY HeldRunsType DEF TypeInv, Run
<1>r. run \in HeldRuns
  BY DEF HeldRuns
<1>k. \A k \in EffectKinds, r, n \in Run, t \in Nat :
        /\ NewEffect(k, r, n, t) \in Effect
        /\ NewEffect(k, r, n, t).kind = k /\ NewEffect(k, r, n, t).target = t
  BY NewEffectType DEF NewEffect
<1>n. "none" \in Reasons /\ {"active", "cancelled", "complete",
        "waiting_for_human"} \subseteq RunStatuses
  BY DEF Reasons, RunStatuses
<1>e. EffectKinds = {"state_transition", "status_comment",
        "clarification_comment", "commit_status", "push", "checkpoint",
        "pull_request", "worker_launch", "harness_resume", "result_acceptance"}
  BY DEF EffectKinds
<1>b. ASSUME NEW e \in Effect, NEW r \in Run, Begin(e, r),
             e.kind = "harness_resume" => e.target # 0
      PROVE  TypeInv'
  <2>1. OperationOK' /\ op'.effect = e
    BY <1>b, ApplyType DEF Begin, Apply
  <2>2. TypeOK'
    BY <1>b, <2>1 DEF Begin, TypeInv, TypeOK, store, external
  <2>3. ResumeTargets'
    BY <1>b, <2>1 DEF Begin, TypeInv, ResumeTargets
  <2> QED
    BY <2>2, <2>3 DEF TypeInv
<1>1. CASE BeginTransition
  <2>1. PICK r \in HeldRuns, s \in TargetStatuses, stop \in BOOLEAN :
          Begin([Transition(r, [Bumped(r) EXCEPT !.status = s, !.reason = "none"])
                   EXCEPT !.stop = stop], r)
    BY <1>1 DEF BeginTransition
  <2> DEFINE n == [Bumped(r) EXCEPT !.status = s, !.reason = "none"]
  <2>2. s \in RunStatuses
    BY StatusAssumption
  <2>3. r \in Run /\ n \in Run
    BY <1>h, <1>n, <2>2, NextRunType
  <2> HIDE DEF n
  <2> DEFINE e == Transition(r, n)
  <2>4. e \in Effect /\ e.kind = "state_transition"
    BY <2>3, TransitionType
  <2> HIDE DEF e
  <2>5. /\ [e EXCEPT !.stop = stop] \in Effect
        /\ [e EXCEPT !.stop = stop].kind = "state_transition"
    BY <2>4 DEF Effect
  <2> QED
    BY <2>1, <2>3, <2>5, <1>b DEF n, e
<1>2. CASE BeginCommand
  <2>1. PICK r \in HeldRuns :
          Begin([Transition(r, [Bumped(r) EXCEPT !.status = "active",
                                  !.reason = "none", !.command = @ + 1])
                   EXCEPT !.before = TRUE], r)
    BY <1>2 DEF BeginCommand
  <2> DEFINE n == [Bumped(r) EXCEPT !.status = "active", !.reason = "none",
                                    !.command = @ + 1]
  <2>3. r \in Run /\ n \in Run
    BY <1>h, <1>n, NextRunType
  <2> HIDE DEF n
  <2> DEFINE e == Transition(r, n)
  <2>4. e \in Effect /\ e.kind = "state_transition"
    BY <2>3, TransitionType
  <2> HIDE DEF e
  <2>5. /\ [e EXCEPT !.before = TRUE] \in Effect
        /\ [e EXCEPT !.before = TRUE].kind = "state_transition"
    BY <2>4 DEF Effect
  <2> QED
    BY <2>1, <2>3, <2>5, <1>b DEF n, e
<1>3. CASE BeginPacketChange
  <2>1. PICK r \in HeldRuns :
          Begin([Transition(r, [Bumped(r) EXCEPT !.status = "active",
                                  !.reason = "none", !.packet = @ + 1])
                   EXCEPT !.invalidate = TRUE], r)
    BY <1>3 DEF BeginPacketChange
  <2> DEFINE n == [Bumped(r) EXCEPT !.status = "active", !.reason = "none",
                                    !.packet = @ + 1]
  <2>3. r \in Run /\ n \in Run
    BY <1>h, <1>n, NextRunType
  <2> HIDE DEF n
  <2> DEFINE e == Transition(r, n)
  <2>4. e \in Effect /\ e.kind = "state_transition"
    BY <2>3, TransitionType
  <2> HIDE DEF e
  <2>5. /\ [e EXCEPT !.invalidate = TRUE] \in Effect
        /\ [e EXCEPT !.invalidate = TRUE].kind = "state_transition"
    BY <2>4 DEF Effect
  <2> QED
    BY <2>1, <2>3, <2>5, <1>b DEF n, e
<1>4. CASE BeginTerminal
  <2>1. PICK s \in {"cancelled", "complete"} :
          Begin([Transition(run, [Bumped(run) EXCEPT !.status = s,
                                    !.reason = "none", !.comment = 1])
                   EXCEPT !.stop = TRUE], run)
    BY <1>4 DEF BeginTerminal
  <2> DEFINE n == [Bumped(run) EXCEPT !.status = s, !.reason = "none",
                                      !.comment = 1]
  <2>2. s \in RunStatuses
    BY <1>n
  <2>3. run \in Run /\ n \in Run
    BY <1>h, <1>r, <1>n, <2>2, NextRunType
  <2> HIDE DEF n
  <2> DEFINE e == Transition(run, n)
  <2>4. e \in Effect /\ e.kind = "state_transition"
    BY <2>3, TransitionType
  <2> HIDE DEF e
  <2>5. /\ [e EXCEPT !.stop = TRUE] \in Effect
        /\ [e EXCEPT !.stop = TRUE].kind = "state_transition"
    BY <2>4 DEF Effect
  <2> QED
    BY <2>1, <2>3, <2>5, <1>b DEF n, e
<1>5. CASE BeginCommandProjection
  <2>1. PICK r \in HeldRuns :
          Begin(NewEffect("status_comment", r,
                          [Bumped(r) EXCEPT !.command = @ + 1, !.comment = 1],
                          [Bumped(r) EXCEPT !.command = @ + 1, !.comment = 1].rev),
                r)
    BY <1>5 DEF BeginCommandProjection
  <2> DEFINE n == [Bumped(r) EXCEPT !.command = @ + 1, !.comment = 1]
  <2>3. r \in Run /\ n \in Run
    BY <1>h, <1>n, NextRunType
  <2> HIDE DEF n
  <2>4. n.rev \in Nat
    BY <2>3 DEF Run
  <2>5. /\ NewEffect("status_comment", r, n, n.rev) \in Effect
        /\ NewEffect("status_comment", r, n, n.rev).kind = "status_comment"
    BY <2>3, <2>4, <1>k, <1>e
  <2> QED
    BY <2>1, <2>3, <2>5, <1>b DEF n
<1>6. CASE BeginClarification
  <2>1. PICK r \in HeldRuns :
          Begin(NewEffect("clarification_comment", r, r, r.packet), r)
    BY <1>6 DEF BeginClarification
  <2> QED
    BY <2>1, <1>h, <1>k, <1>e, <1>b
<1>7. CASE BeginCommitStatus
  <2>1. PICK r \in HeldRuns :
          Begin(NewEffect("commit_status", r, r, r.checkpoint), r)
    BY <1>7 DEF BeginCommitStatus
  <2> QED
    BY <2>1, <1>h, <1>k, <1>e, <1>b
<1>8. CASE BeginPush
  <2>1. PICK r \in HeldRuns : Begin(NewEffect("push", r, r, r.checkpoint), r)
    BY <1>8 DEF BeginPush
  <2> QED
    BY <2>1, <1>h, <1>k, <1>e, <1>b
<1>9. CASE BeginCheckpoint
  <2>1. PICK r \in HeldRuns :
          Begin(NewEffect("checkpoint", r, Bumped(r), r.checkpoint), r)
    BY <1>9 DEF BeginCheckpoint
  <2>2. Bumped(r) \in Run
    BY <1>h, <1>n, NextRunType
  <2> DEFINE e == NewEffect("checkpoint", r, Bumped(r), r.checkpoint)
  <2>3. e \in Effect /\ e.kind = "checkpoint"
    BY <2>2, <1>h, <1>k, <1>e
  <2> QED
    BY <2>1, <2>3, <1>h, <1>b
<1>10. CASE BeginPullRequest
  <2>1. PICK r \in HeldRuns, persist \in BOOLEAN :
          Begin([NewEffect("pull_request", r, IF persist THEN Bumped(r) ELSE r,
                           r.pull) EXCEPT !.persist = persist], r)
    BY <1>10 DEF BeginPullRequest
  <2> DEFINE n == IF persist THEN Bumped(r) ELSE r
             e == NewEffect("pull_request", r, n, r.pull)
  <2>2. n \in Run
    BY <1>h, <1>n, NextRunType
  <2>3. e \in Effect /\ e.kind = "pull_request"
    BY <2>2, <1>h, <1>k, <1>e
  <2>4. Begin([e EXCEPT !.persist = persist], r)
    BY <2>1
  <2> HIDE DEF e
  <2>5. [e EXCEPT !.persist = persist] \in Effect
        /\ [e EXCEPT !.persist = persist].kind = "pull_request"
    BY <2>3 DEF Effect
  <2> QED
    BY <2>4, <2>5, <1>h, <1>b
<1>11. CASE BeginWorkerLaunch
  <2>1. PICK r \in HeldRuns :
          op' = Apply(NewEffect("worker_launch", r, r, 0), r)
    BY <1>11 DEF BeginWorkerLaunch
  <2>2. /\ NewEffect("worker_launch", r, r, 0) \in Effect
        /\ NewEffect("worker_launch", r, r, 0).kind = "worker_launch"
    BY <1>h, <1>k, <1>e
  <2> DEFINE e == NewEffect("worker_launch", r, r, 0)
  <2>a. op' = Apply(e, r) /\ e \in Effect /\ e.kind = "worker_launch" /\ r \in Run
    BY <2>1, <2>2, <1>h
  <2> HIDE DEF e
  <2>3. OperationOK' /\ op'.effect.kind = "worker_launch"
    <3>1. op'.effect = e
      BY <2>a DEF Apply
    <3>2. OperationOK'
      BY <2>a, ApplyType
    <3> QED
      BY <2>a, <3>1, <3>2
  <2>4. invocation' \in Invocation
        /\ native' \in [auto : Nat, manual : Nat, finished : Nat]
    <3>1. /\ [status |-> "active", auto |-> 0, manual |-> 0, unit |-> FALSE]
               \in Invocation
          /\ [auto |-> 0, manual |-> 0, finished |-> 0]
               \in [auto : Nat, manual : Nat, finished : Nat]
      BY DEF Invocation
    <3>2. /\ invocation \in Invocation
          /\ native \in [auto : Nat, manual : Nat, finished : Nat]
      BY DEF TypeInv, TypeOK
    <3> QED
      BY <1>11, <3>1, <3>2, Zenon DEF BeginWorkerLaunch
  <2>5. TypeOK'
    BY <1>11, <2>3, <2>4 DEF BeginWorkerLaunch, TypeInv, TypeOK
  <2>6. ResumeTargets'
    BY <1>11, <2>3 DEF BeginWorkerLaunch, TypeInv, ResumeTargets
  <2> QED
    BY <2>5, <2>6 DEF TypeInv
<1>12. CASE BeginResume
  <2>1. PICK r \in HeldRuns, manual \in BOOLEAN :
          Begin([NewEffect("harness_resume", r, r,
                   (IF manual THEN invocation.manual ELSE invocation.auto) + 1)
                   EXCEPT !.manual = manual], r)
    BY <1>12 DEF BeginResume
  <2> DEFINE t == (IF manual THEN invocation.manual ELSE invocation.auto) + 1
             e == NewEffect("harness_resume", r, r, t)
  <2>2. t \in Nat /\ t # 0
    BY DEF TypeInv, TypeOK, Invocation
  <2>3. e \in Effect /\ e.target = t
    BY <2>2, <1>h, <1>k, <1>e
  <2>4. Begin([e EXCEPT !.manual = manual], r)
    BY <2>1
  <2> HIDE DEF e, t
  <2>5. [e EXCEPT !.manual = manual] \in Effect
        /\ [e EXCEPT !.manual = manual].target = t
    BY <2>3 DEF Effect
  <2> QED
    BY <2>2, <2>4, <2>5, <1>h, <1>b
<1>13. CASE BeginAcceptance
  <2>1. PICK r \in HeldRuns, s \in {"active", "waiting_for_human"},
             stop \in BOOLEAN :
          Begin([NewEffect("result_acceptance", r, [Bumped(r) EXCEPT !.status = s],
                           [Bumped(r) EXCEPT !.status = s].rev)
                   EXCEPT !.stop = stop], r)
    BY <1>13 DEF BeginAcceptance
  <2> DEFINE n == [Bumped(r) EXCEPT !.status = s]
             e == NewEffect("result_acceptance", r, n, n.rev)
  <2>2. s \in RunStatuses
    BY <1>n
  <2>3. n \in Run
    BY <1>h, <1>n, <2>2, NextRunType
  <2> HIDE DEF n
  <2>4. n.rev \in Nat
    BY <2>3 DEF Run
  <2>5. e \in Effect /\ e.kind = "result_acceptance"
    BY <2>3, <2>4, <1>h, <1>k, <1>e
  <2>6. Begin([e EXCEPT !.stop = stop], r)
    BY <2>1 DEF n
  <2> HIDE DEF e
  <2>7. [e EXCEPT !.stop = stop] \in Effect
        /\ [e EXCEPT !.stop = stop].kind = "result_acceptance"
    BY <2>5 DEF Effect
  <2> QED
    BY <2>6, <2>7, <1>h, <1>b
<1> QED
  BY <1>1, <1>2, <1>3, <1>4, <1>5, <1>6, <1>7, <1>8, <1>9, <1>10, <1>11,
     <1>12, <1>13 DEF BeginSome
\* What a step needs to know of the types.
LEMMA StepFacts ==
  ASSUME TypeInv
  PROVE  /\ run \in Run /\ op.base \in Run /\ op.next \in Run
         /\ op.at \in Nat /\ op.effect \in Effect \cup {NoEffect}
         /\ op.rejected \in BOOLEAN /\ op.ambiguous \in BOOLEAN
         /\ op \in Operation
  BY DEF TypeInv, TypeOK, OperationOK, Operation

\* Moving on keeps the reserved native resumes.
LEMMA KeepsTargets ==
  ASSUME TypeInv, pending' = pending, op'.effect \in {op.effect, NoEffect}
  PROVE  ResumeTargets'
  BY DEF TypeInv, ResumeTargets, NoEffect

\* The boundaries that only move on, and change a run, a row or a call.
LEMMA StepTypeA ==
  ASSUME TypeInv,
         Reserve \/ Check \/ StopActiveWorkers \/ ReplaceLabels
           \/ PostStatusComment \/ SaveRun \/ RecordTransition
           \/ SaveWatermark \/ ApplyStatusComment \/ FindOrCreateQuestion
           \/ SaveQuestion
  PROVE  TypeInv'
<1>f. /\ run \in Run /\ op.base \in Run /\ op.next \in Run /\ op \in Operation
      /\ TypeOK
  BY StepFacts DEF TypeInv
<1>e. op.effect \in Effect => op.effect.next \in Run
  BY DEF Effect
<1>p. ASSUME Advance PROVE op'.effect = op.effect
  BY <1>p, <1>f DEF Advance, Operation
<1>1. CASE Reserve
  <2>1. OperationOK' /\ op'.effect = op.effect
    BY <1>1, <1>f, <1>p, PlainAdvanceType DEF Reserve
  <2>2. op.effect \in Effect
    BY <1>1, <1>f, AtFacts DEF Reserve
  <2>3. TypeOK'
    BY <1>1, <1>f, <2>1, <2>2 DEF Reserve, TypeOK, store, external
  <2>4. ResumeTargets'
    BY <1>1, <2>1 DEF Reserve, TypeInv, ResumeTargets
  <2> QED
    BY <2>3, <2>4 DEF TypeInv
<1>2. CASE Check
  <2> DEFINE c == IF /\ op.effect.kind \in {"state_transition", "result_acceptance"}
                     /\ run.rev = op.next.rev /\ run.comment # 0
                    THEN run.comment ELSE op.next.comment
             n == [op.next EXCEPT !.comment = c]
  <2>1. n \in Run
    BY <1>f DEF Run
  <2>2. /\ At("check")
        /\ op' = [op EXCEPT !.at = @ + 1, !.next = n, !.rejected = op.rejected,
                             !.ambiguous = op.ambiguous]
    BY <1>2, <1>f DEF Check, Operation
  <2> HIDE DEF n
  <2>3. OperationOK' /\ op'.effect = op.effect
    BY <2>1, <2>2, <1>f, AdvanceType DEF Operation
  <2>4. TypeOK'
    BY <1>2, <1>f, <2>3 DEF Check, TypeOK, store, external
  <2>5. ResumeTargets'
    BY <1>2, <2>3, KeepsTargets DEF Check
  <2> QED
    BY <2>4, <2>5 DEF TypeInv
<1>3. CASE StopActiveWorkers
  <2>1. OperationOK' /\ op'.effect = op.effect
    BY <1>3, <1>f, <1>p, PlainAdvanceType DEF StopActiveWorkers
  <2>2. worker' \in BOOLEAN
    BY <1>3 DEF StopActiveWorkers
  <2>3. TypeOK'
    BY <1>3, <1>f, <2>1, <2>2 DEF StopActiveWorkers, TypeOK, store
  <2>4. ResumeTargets'
    BY <1>3, <2>1, KeepsTargets DEF StopActiveWorkers
  <2> QED
    BY <2>3, <2>4 DEF TypeInv
<1>4. CASE ReplaceLabels
  <2>1. OperationOK' /\ op'.effect = op.effect
    BY <1>4, <1>f, <1>p, PlainAdvanceType DEF ReplaceLabels
  <2>2. FactoryLabelForStatus(op.next.status) \in FactoryLabels
    BY <1>f, LabelType DEF Run
  <2>3. TypeOK'
    BY <1>4, <1>f, <2>1, <2>2 DEF ReplaceLabels, TypeOK, store
  <2>4. ResumeTargets'
    BY <1>4, <2>1, KeepsTargets DEF ReplaceLabels
  <2> QED
    BY <2>3, <2>4 DEF TypeInv
<1>5. CASE PostStatusComment
  <2> DEFINE c == IF op.effect.create \/ op.next.comment = 0
                    THEN 1 ELSE op.next.comment
             n == [op.next EXCEPT !.comment = c]
             k == IF op.effect.create /\ ~(issue.comments > 0)
                    THEN issue.comments + 1 ELSE issue.comments
  <2>0. k \in Nat
    BY <1>f DEF TypeOK
  <2>1. n \in Run /\ StatusCommentBody(n) \in Body
    BY <1>f, BodyType DEF Run
  <2>2. /\ At("comment")
        /\ op' = [op EXCEPT !.at = @ + 1, !.next = n, !.rejected = op.rejected,
                             !.ambiguous = op.ambiguous]
        /\ issue' = [issue EXCEPT !.comments = k, !.body = StatusCommentBody(n)]
    BY <1>5, <1>f DEF PostStatusComment, Operation
  <2> HIDE DEF n, k
  <2>3. OperationOK' /\ op'.effect = op.effect
    BY <2>1, <2>2, <1>f, AdvanceType DEF Operation
  <2>6. issue' \in [label : FactoryLabels, comments : Nat, body : Body,
                   questions : [1 .. MaxCount -> Nat]]
    BY <2>0, <2>1, <2>2, <1>f DEF TypeOK
  <2>4. TypeOK'
    BY <1>5, <1>f, <2>3, <2>6 DEF PostStatusComment, TypeOK, store
  <2>5. ResumeTargets'
    BY <1>5, <2>3, KeepsTargets DEF PostStatusComment
  <2> QED
    BY <2>4, <2>5 DEF TypeInv
<1>6. CASE SaveRun
  <2>1. OperationOK' /\ op'.effect = op.effect
    BY <1>6, <1>f, <1>p, PlainAdvanceType DEF SaveRun
  <2>2. /\ run' \in Run /\ results' \in Nat /\ invocation' \in Invocation
    BY <1>6, <1>f DEF SaveRun, TypeOK, Invocation
  <2>3. TypeOK'
    BY <1>6, <1>f, <2>1, <2>2 DEF SaveRun, TypeOK, external
  <2>4. ResumeTargets'
    BY <1>6, <2>1, KeepsTargets DEF SaveRun
  <2> QED
    BY <2>3, <2>4 DEF TypeInv
<1>7. CASE RecordTransition
  <2>1. OperationOK' /\ op'.effect = op.effect
    BY <1>7, <1>f, <1>p, PlainAdvanceType DEF RecordTransition
  <2>2. evaluated' \in RunStatuses
    BY <1>7, <1>f DEF RecordTransition, Run
  <2>3. TypeOK'
    BY <1>7, <1>f, <2>1, <2>2 DEF RecordTransition, TypeOK, external
  <2>4. ResumeTargets'
    BY <1>7, <2>1, KeepsTargets DEF RecordTransition
  <2> QED
    BY <2>3, <2>4 DEF TypeInv
<1>8. CASE SaveWatermark
  <2>1. OperationOK' /\ op'.effect = op.effect
    BY <1>8, <1>f, <1>p, PlainAdvanceType DEF SaveWatermark
  <2>2. run' \in Run
    BY <1>8, <1>f DEF SaveWatermark
  <2>3. TypeOK'
    BY <1>8, <1>f, <2>1, <2>2 DEF SaveWatermark, TypeOK, external
  <2>4. ResumeTargets'
    BY <1>8, <2>1, KeepsTargets DEF SaveWatermark
  <2> QED
    BY <2>3, <2>4 DEF TypeInv
<1>9. CASE ApplyStatusComment
  <2>1. OperationOK' /\ op'.effect = op.effect
    BY <1>9, <1>f, <1>p, PlainAdvanceType DEF ApplyStatusComment
  <2>2. StatusCommentBody(op.effect.next) \in Body
    BY <1>9, <1>f, <1>e, AtFacts, BodyType DEF ApplyStatusComment
  <2>3. TypeOK'
    BY <1>9, <1>f, <2>1, <2>2 DEF ApplyStatusComment, TypeOK, store
  <2>4. ResumeTargets'
    BY <1>9, <2>1, KeepsTargets DEF ApplyStatusComment
  <2> QED
    BY <2>3, <2>4 DEF TypeInv
<1>10. CASE FindOrCreateQuestion
  <2>1. OperationOK' /\ op'.effect = op.effect
    BY <1>10, <1>f, <1>p, PlainAdvanceType DEF FindOrCreateQuestion
  <2>2. issue' \in [label : FactoryLabels, comments : Nat, body : Body,
                    questions : [1 .. MaxCount -> Nat]]
    BY <1>10, <1>f DEF FindOrCreateQuestion, TypeOK
  <2>3. TypeOK'
    BY <1>10, <1>f, <2>1, <2>2 DEF FindOrCreateQuestion, TypeOK, store
  <2>4. ResumeTargets'
    BY <1>10, <2>1, KeepsTargets DEF FindOrCreateQuestion
  <2> QED
    BY <2>3, <2>4 DEF TypeInv
<1>11. CASE SaveQuestion
  <2> DEFINE r == IF Replaying THEN run ELSE op.next
             n == [r EXCEPT !.question = op.effect.target]
  <2>1. op.effect.target \in Nat
    BY <1>11, <1>f, AtFacts DEF SaveQuestion, Effect
  <2>2. n \in Run
    BY <1>f, <2>1 DEF Run
  <2>3. /\ At("saveQuestion") /\ run' = n
        /\ op' = [op EXCEPT !.at = @ + 1, !.next = n, !.rejected = op.rejected,
                             !.ambiguous = op.ambiguous]
    BY <1>11, <1>f DEF SaveQuestion, Operation
  <2> HIDE DEF n
  <2>4. OperationOK' /\ op'.effect = op.effect
    BY <2>2, <2>3, <1>f, AdvanceType DEF Operation
  <2>5. TypeOK'
    BY <1>11, <1>f, <2>2, <2>3, <2>4 DEF SaveQuestion, TypeOK, external
  <2>6. ResumeTargets'
    BY <1>11, <2>4, KeepsTargets DEF SaveQuestion
  <2> QED
    BY <2>5, <2>6 DEF TypeInv
<1> QED
  BY <1>1, <1>2, <1>3, <1>4, <1>5, <1>6, <1>7, <1>8, <1>9, <1>10, <1>11
\* The boundaries that change git, the code host, the worker or the harness.
LEMMA StepTypeB ==
  ASSUME TypeInv,
         PushOnce \/ CreateCommitStatus \/ CreateCheckpoint \/ UpsertPullRequest
           \/ StartWorker \/ Finish \/ SaveUnitResult \/ Session \/ Resume
           \/ Count \/ Terminal \/ Clear
  PROVE  TypeInv'
<1>f. /\ run \in Run /\ op.base \in Run /\ op.next \in Run /\ op \in Operation
      /\ TypeOK
  BY StepFacts DEF TypeInv
<1>p. ASSUME Advance PROVE op'.effect = op.effect
  BY <1>p, <1>f DEF Advance, Operation
<1>t. At("session") => op.effect.target \in Nat /\ op.effect.target - 1 \in Nat
  BY <1>f, AtFacts DEF Effect, TypeInv, ResumeTargets
<1>1. CASE PushOnce
  <2>1. OperationOK' /\ op'.effect = op.effect
    BY <1>1, <1>f, <1>p, PlainAdvanceType DEF PushOnce
  <2>2. code' \in [head : Nat, remote : Nat, pulls : Nat,
                   statuses : [0 .. MaxCount -> Nat]]
    BY <1>1, <1>f DEF PushOnce, TypeOK
  <2>3. TypeOK'
    BY <1>1, <1>f, <2>1, <2>2 DEF PushOnce, TypeOK, store
  <2>4. ResumeTargets'
    BY <1>1, <2>1, KeepsTargets DEF PushOnce
  <2> QED
    BY <2>3, <2>4 DEF TypeInv
<1>2. CASE CreateCommitStatus
  <2>1. OperationOK' /\ op'.effect = op.effect
    BY <1>2, <1>f, <1>p, PlainAdvanceType DEF CreateCommitStatus
  <2>2. code' \in [head : Nat, remote : Nat, pulls : Nat,
                   statuses : [0 .. MaxCount -> Nat]]
    BY <1>2, <1>f DEF CreateCommitStatus, TypeOK
  <2>3. TypeOK'
    BY <1>2, <1>f, <2>1, <2>2 DEF CreateCommitStatus, TypeOK, store
  <2>4. ResumeTargets'
    BY <1>2, <2>1, KeepsTargets DEF CreateCommitStatus
  <2> QED
    BY <2>3, <2>4 DEF TypeInv
<1>3. CASE CreateCheckpoint
  <2> DEFINE h == IF code.head = op.effect.target THEN code.head + 1 ELSE code.head
             n == [op.next EXCEPT !.checkpoint = h]
  <2>0. h \in Nat /\ code' = [code EXCEPT !.head = h]
    BY <1>3, <1>f DEF CreateCheckpoint, TypeOK
  <2> HIDE DEF h
  <2>1. n \in Run
    BY <2>0, <1>f DEF Run
  <2>2. /\ At("commit")
        /\ op' = [op EXCEPT !.at = @ + 1, !.next = n, !.rejected = op.rejected,
                             !.ambiguous = op.ambiguous]
    BY <1>3, <1>f DEF CreateCheckpoint, Operation, h
  <2>3. code' \in [head : Nat, remote : Nat, pulls : Nat,
                   statuses : [0 .. MaxCount -> Nat]]
    BY <2>0, <1>f DEF TypeOK
  <2> HIDE DEF n
  <2>4. OperationOK' /\ op'.effect = op.effect
    BY <2>1, <2>2, <1>f, AdvanceType DEF Operation
  <2>5. TypeOK'
    BY <1>3, <1>f, <2>3, <2>4 DEF CreateCheckpoint, TypeOK, store
  <2>6. ResumeTargets'
    BY <1>3, <2>4, KeepsTargets DEF CreateCheckpoint
  <2> QED
    BY <2>5, <2>6 DEF TypeInv
<1>4. CASE UpsertPullRequest
  <2> DEFINE n == [op.next EXCEPT !.pull = IF op.effect.persist THEN 1 ELSE @]
  <2>1. n \in Run
    BY <1>f DEF Run
  <2>2. /\ At("upsert")
        /\ op' = [op EXCEPT !.at = @ + 1, !.next = n, !.rejected = op.rejected,
                             !.ambiguous = op.ambiguous]
    BY <1>4, <1>f DEF UpsertPullRequest, Operation
  <2>3. code' \in [head : Nat, remote : Nat, pulls : Nat,
                   statuses : [0 .. MaxCount -> Nat]]
    BY <1>4, <1>f DEF UpsertPullRequest, TypeOK
  <2> HIDE DEF n
  <2>4. OperationOK' /\ op'.effect = op.effect
    BY <2>1, <2>2, <1>f, AdvanceType DEF Operation
  <2>5. TypeOK'
    BY <1>4, <1>f, <2>3, <2>4 DEF UpsertPullRequest, TypeOK, store
  <2>6. ResumeTargets'
    BY <1>4, <2>4, KeepsTargets DEF UpsertPullRequest
  <2> QED
    BY <2>5, <2>6 DEF TypeInv
<1>5. CASE StartWorker
  <2>1. OperationOK' /\ op'.effect = op.effect
    BY <1>5, <1>f, <1>p, PlainAdvanceType DEF StartWorker
  <2>2. worker' \in BOOLEAN
    BY <1>5, <1>f DEF StartWorker, TypeOK
  <2>3. TypeOK'
    BY <1>5, <1>f, <2>1, <2>2 DEF StartWorker, TypeOK, store
  <2>4. ResumeTargets'
    BY <1>5, <2>1, KeepsTargets DEF StartWorker
  <2> QED
    BY <2>3, <2>4 DEF TypeInv
<1>6. CASE Finish
  <2>1. OperationOK' /\ op'.effect = op.effect
    BY <1>6, <1>f, <1>p, PlainAdvanceType DEF Finish
  <2>2. native' \in [auto : Nat, manual : Nat, finished : Nat]
    BY <1>6, <1>f DEF Finish, TypeOK
  <2>3. TypeOK'
    BY <1>6, <1>f, <2>1, <2>2 DEF Finish, TypeOK, store
  <2>4. ResumeTargets'
    BY <1>6, <2>1, KeepsTargets DEF Finish
  <2> QED
    BY <2>3, <2>4 DEF TypeInv
<1>7. CASE SaveUnitResult
  <2>1. OperationOK' /\ op'.effect = op.effect
    BY <1>7, <1>f, <1>p, PlainAdvanceType DEF SaveUnitResult
  <2>2. invocation' \in Invocation
    BY <1>7, <1>f DEF SaveUnitResult, TypeOK, Invocation
  <2>3. TypeOK'
    BY <1>7, <1>f, <2>1, <2>2 DEF SaveUnitResult, TypeOK, external
  <2>4. ResumeTargets'
    BY <1>7, <2>1, KeepsTargets DEF SaveUnitResult
  <2> QED
    BY <2>3, <2>4 DEF TypeInv
<1>8. CASE Session
  <2>1. OperationOK' /\ op'.effect = op.effect
    BY <1>8, <1>f, <1>p, PlainAdvanceType DEF Session
  <2>2. invocation' \in Invocation
    BY <1>8, <1>f, <1>t DEF Session, SetResumeCount, TypeOK, Invocation
  <2>3. TypeOK'
    BY <1>8, <1>f, <2>1, <2>2 DEF Session, TypeOK, external
  <2>4. ResumeTargets'
    BY <1>8, <2>1, KeepsTargets DEF Session
  <2> QED
    BY <2>3, <2>4 DEF TypeInv
<1>9. CASE Resume
  <2> DEFINE j == op'.rejected
  <2>1. /\ At("resume") /\ j \in BOOLEAN
        /\ op' = [op EXCEPT !.at = @ + 1, !.next = op.next, !.rejected = j,
                             !.ambiguous = op.ambiguous]
    BY <1>9, <1>f DEF Resume, Advance, Operation
  <2> HIDE DEF j
  <2>2. OperationOK' /\ op'.effect = op.effect
    BY <2>1, <1>f, AdvanceType DEF Operation
  <2>3. native' \in [auto : Nat, manual : Nat, finished : Nat]
    BY <1>9, <1>f DEF Resume, TypeOK
  <2>4. TypeOK'
    BY <1>9, <1>f, <2>2, <2>3 DEF Resume, TypeOK, store
  <2>5. ResumeTargets'
    BY <1>9, <2>2, KeepsTargets DEF Resume
  <2> QED
    BY <2>4, <2>5 DEF TypeInv
<1>10. CASE Count
  <2>1. op.effect.kind = "harness_resume" /\ op.effect \in Effect
    BY <1>10, <1>f, AtFacts DEF Count
  <2>2. op.at \in DOMAIN Plan(op.mode, op.effect)
        /\ Plan(op.mode, op.effect)[op.at] = "count"
        /\ (op.mode = "apply" \/ op.mode = "replay")
    BY <1>10, <1>f DEF Count, At, TypeOK, OperationOK
  <2>3. invocation' \in Invocation
    BY <1>10, <1>f, <2>1 DEF Count, SetResumeCount, TypeOK, Invocation, Effect
  <2>4. OperationOK' /\ op'.effect = op.effect
    <3>1. CASE Advance
      BY <3>1, <1>10, <1>f, <1>p, PlainAdvanceType DEF Count
    <3>2. CASE Replaying /\ op' = [op EXCEPT !.at = @ + 3, !.ambiguous = TRUE]
      <4>1. op.at = 1
        BY <3>2, <2>1, <2>2, ResumePlan DEF Replaying
      <4>2. 4 \in DOMAIN Plan(op.mode, op.effect)
        BY <3>2, <2>1, ResumePlan DEF Replaying
      <4>3. /\ op'.mode = op.mode /\ op'.effect = op.effect /\ op'.at = 4
        BY <3>2, <4>1, <1>f DEF Operation
      <4>6. op' = [op EXCEPT !.at = op.at + 3, !.ambiguous = TRUE]
        BY <3>2
      <4>5. op' = [mode |-> op.mode, effect |-> op.effect, at |-> op.at + 3,
                   base |-> op.base, next |-> op.next,
                   rejected |-> op.rejected, ambiguous |-> TRUE]
        BY <4>6, <1>f DEF Operation
      <4>4. op' \in Operation
        BY <4>5, <1>f DEF Operation
      <4> QED
        BY <3>2, <4>2, <4>3, <4>4 DEF OperationOK, Replaying
    <3> QED
      BY <1>10, <3>1, <3>2 DEF Count
  <2>5. TypeOK'
    BY <1>10, <1>f, <2>3, <2>4 DEF Count, TypeOK, external
  <2>6. ResumeTargets'
    BY <1>10, <2>4, KeepsTargets DEF Count
  <2> QED
    BY <2>5, <2>6 DEF TypeInv
<1>11. CASE Terminal
  <2>1. op.effect.kind = "result_acceptance"
    BY <1>11, <1>f, AtFacts DEF Terminal
  <2>2. op.at \in DOMAIN Plan(op.mode, op.effect)
        /\ Plan(op.mode, op.effect)[op.at] = "terminal"
        /\ (op.mode = "apply" \/ op.mode = "replay")
    BY <1>11, <1>f DEF Terminal, At, TypeOK, OperationOK
  <2>3. invocation' \in Invocation
    BY <1>11, <1>f DEF Terminal, TypeOK, Invocation
  <2>4. op.at = 2 /\ op.at + 1 \in DOMAIN Plan(op.mode, op.effect)
        /\ op.at + 2 \in DOMAIN Plan(op.mode, op.effect)
    BY <2>1, <2>2, AcceptancePlan
  <2>5. \E i \in {1, 2} : op' = [op EXCEPT !.at = @ + i]
    BY <1>11 DEF Terminal
  <2>6. op' \in Operation /\ op'.mode = op.mode /\ op'.effect = op.effect
        /\ (op'.at = op.at + 1 \/ op'.at = op.at + 2)
    BY <2>4, <2>5, <1>f DEF Operation
  <2>7. OperationOK'
    BY <2>4, <2>6, <1>f DEF OperationOK, TypeOK
  <2>8. TypeOK'
    BY <1>11, <1>f, <2>3, <2>7 DEF Terminal, TypeOK, external
  <2>9. ResumeTargets'
    BY <1>11, <2>6, KeepsTargets DEF Terminal
  <2> QED
    BY <2>8, <2>9 DEF TypeInv
<1>12. CASE Clear
  <2>1. OperationOK' /\ op'.effect \in {op.effect, NoEffect}
    <3>1. CASE ~Replaying
      <4>1. op' = Idle(op.next)
        BY <1>12, <3>1 DEF Clear
      <4> QED
        BY <4>1, <1>f, IdleType DEF Idle
    <3>2. CASE Replaying /\ op.rejected
      <4>1. op' \in {Idle(op.base), Parking(op.base)}
        BY <1>12, <3>2 DEF Clear
      <4>2. op'.effect = NoEffect
        BY <4>1 DEF Parking, Idle
      <4> QED
        BY <4>1, <4>2, <1>f, IdleType
    <3>3. CASE Replaying /\ ~op.rejected
      <4>1. Advance
        BY <1>12, <3>3 DEF Clear, Advance
      <4> QED
        BY <4>1, <3>3, <1>12, <1>f, <1>p, PlainAdvanceType DEF Clear, Replaying
    <3> QED
      BY <3>1, <3>2, <3>3
  <2>2. TypeOK'
    BY <1>12, <1>f, <2>1 DEF Clear, TypeOK, store, external
  <2>3. ResumeTargets'
    BY <1>12, <2>1 DEF Clear, TypeInv, ResumeTargets, NoEffect
  <2> QED
    BY <2>2, <2>3 DEF TypeInv
<1> QED
  BY <1>1, <1>2, <1>3, <1>4, <1>5, <1>6, <1>7, <1>8, <1>9, <1>10, <1>11, <1>12
\* A replay compares a run.
LEMMA ReturnedType ==
  ASSUME TypeInv
  PROVE  Returned \in Run
  BY StepFacts DEF Returned

\* An idle, pausing or parking operation reserves nothing.
LEMMA IdleInv ==
  ASSUME TypeInv, NEW r \in Run, NEW b \in BOOLEAN,
         op' \in {Idle(r), Pausing(r, b), Parking(r)},
         pending' \in {pending, NoEffect}
  PROVE  OperationOK' /\ ResumeTargets'
<1>0. /\ Idle(r).effect = NoEffect /\ Pausing(r, b).effect = NoEffect
      /\ Parking(r).effect = NoEffect
  BY DEF Idle, Pausing, Parking
<1>1. op'.effect = NoEffect
  BY <1>0
<1>2. OperationOK'
  BY IdleType
<1>3. ResumeTargets'
  BY <1>1 DEF TypeInv, ResumeTargets, NoEffect
<1> QED
  BY <1>2, <1>3

\* So does an operation that starts to publish a pause.
LEMMA PauseInv ==
  ASSUME TypeInv, NEW r \in Run, NEW n \in Run,
         op' = Apply(Transition(r, n), r), pending' = pending
  PROVE  OperationOK' /\ ResumeTargets'
<1> DEFINE e == Transition(r, n)
<1>1. e \in Effect /\ e.kind = "state_transition" /\ op' = Apply(e, r)
  BY TransitionType
<1> HIDE DEF e
<1>2. op'.effect = e
  BY <1>1 DEF Apply
<1>3. OperationOK'
  BY <1>1, ApplyType
<1>4. ResumeTargets'
  BY <1>1, <1>2 DEF TypeInv, ResumeTargets
<1> QED
  BY <1>3, <1>4

\* A pause in the store alone.
LEMMA LocalPauseType ==
  ASSUME TypeInv, PauseRunLocally, interrupts' \in Nat
  PROVE  TypeInv'
<1> DEFINE r == op.base
           n == ReconciliationPause(Bumped(r))
<1>f. run \in Run /\ r \in Run /\ TypeOK
  BY StepFacts DEF TypeInv
<1>n. n \in Run
  BY <1>f, NextRunType DEF Reasons, RunStatuses
<1>0. worker' \in BOOLEAN
  BY <1>f, Zenon DEF PauseRunLocally, TypeOK
<1>1. op' \in {Idle(r), Idle(n)} /\ run' \in {run, r, n}
  BY Zenon DEF PauseRunLocally
<1> HIDE DEF n
<1>2. OperationOK' /\ ResumeTargets'
  BY <1>1, <1>f, <1>n, IdleInv DEF PauseRunLocally
<1>3. TypeOK'
  BY <1>0, <1>1, <1>2, <1>f, <1>n DEF PauseRunLocally, TypeOK
<1> QED
  BY <1>2, <1>3 DEF TypeInv

\* The comparison and the pauses.
LEMMA StepTypeC ==
  ASSUME TypeInv,
         Diagnose \/ PauseForRecovery \/ PauseForHarness \/ ApplyRefused
           \/ ReplayRefused
  PROVE  TypeInv'
<1>f. run \in Run /\ op.base \in Run /\ TypeOK
  BY StepFacts DEF TypeInv
<1>1. CASE Diagnose
  <2> DEFINE r == Returned
             b == LabelOrCommentDrift(r)
  <2>1. r \in Run /\ b \in BOOLEAN
    BY ReturnedType DEF LabelOrCommentDrift
  <2>2. op' \in {Idle(r), Pausing(r, b)}
    BY <1>1 DEF Diagnose
  <2> HIDE DEF r, b
  <2>3. OperationOK' /\ ResumeTargets'
    BY <1>1, <2>1, <2>2, IdleInv DEF Diagnose
  <2>4. TypeOK'
    BY <1>1, <2>3, <1>f DEF Diagnose, TypeOK, store, external
  <2> QED
    BY <2>3, <2>4 DEF TypeInv
<1>2. CASE PauseForRecovery
  <2> DEFINE r == op.base
             n == ReconciliationPause(r)
             m == Bumped(n)
  <2>1. n \in Run /\ m \in Run
    BY <1>f, NextRunType DEF Reasons, RunStatuses
  <2>2. /\ op' \in {Idle(r), Idle(n), Apply(Transition(r, m), r)}
        /\ run' \in {run, n} /\ worker' \in BOOLEAN
        /\ interrupts' \in {interrupts, interrupts + 1} /\ pending' = pending
    BY <1>2 DEF PauseForRecovery
  <2> HIDE DEF n, m
  <2>3. OperationOK' /\ ResumeTargets'
    BY <2>1, <2>2, <1>f, IdleInv, PauseInv
  <2>4. TypeOK'
    BY <1>2, <2>1, <2>2, <2>3, <1>f DEF PauseForRecovery, TypeOK
  <2> QED
    BY <2>3, <2>4 DEF TypeInv
<1>3. CASE PauseForHarness
  <2>1. PICK s \in {"waiting_for_harness", "waiting_for_human"} :
          \/ op' = Idle(op.base) /\ run' = run
          \/ /\ op' = Apply(Transition(op.base, [Bumped(op.base) EXCEPT
                             !.status = s, !.reason = "harness"]), op.base)
             /\ run' = run
          \/ /\ op' = Idle([Bumped(op.base) EXCEPT
                             !.status = s, !.reason = "harness"])
             /\ run' = [Bumped(op.base) EXCEPT !.status = s, !.reason = "harness"]
    BY <1>3 DEF PauseForHarness
  <2> DEFINE n == [Bumped(op.base) EXCEPT !.status = s, !.reason = "harness"]
  <2>2. s \in RunStatuses /\ "harness" \in Reasons
    BY DEF RunStatuses, Reasons
  <2>3. n \in Run
    BY <1>f, <2>2, NextRunType
  <2>4. /\ op' \in {Idle(op.base), Idle(n), Apply(Transition(op.base, n), op.base)}
        /\ run' \in {run, n}
    BY <2>1
  <2> HIDE DEF n
  <2>5. worker' \in BOOLEAN /\ pending' = pending
    BY <1>3 DEF PauseForHarness
  <2>6. OperationOK' /\ ResumeTargets'
    BY <2>3, <2>4, <2>5, <1>f, IdleInv, PauseInv
  <2>7. TypeOK'
    BY <1>3, <2>3, <2>4, <2>5, <2>6, <1>f DEF PauseForHarness, TypeOK
  <2> QED
    BY <2>6, <2>7 DEF TypeInv
<1>4. CASE ApplyRefused
  <2>1. OperationOK' /\ ResumeTargets'
    BY <1>4, <1>f, IdleInv DEF ApplyRefused
  <2>2. TypeOK'
    BY <1>4, <2>1, <1>f DEF ApplyRefused, TypeOK, store, external
  <2> QED
    BY <2>1, <2>2 DEF TypeInv
<1>5. CASE ReplayRefused
  BY <1>5, <1>f, LocalPauseType DEF ReplayRefused, TypeOK
<1> QED
  BY <1>1, <1>2, <1>3, <1>4, <1>5

\* Gate results, failures, interruptions, passes and abandonment.
LEMMA EnvironmentType ==
  ASSUME TypeInv,
         RecordResults \/ ReplayFails \/ Interrupt \/ StartReplay
           \/ StartReconcile \/ Abandon
  PROVE  TypeInv'
<1>f. run \in Run /\ op.base \in Run /\ TypeOK /\ ResumeTargets
  BY StepFacts DEF TypeInv
<1>1. CASE RecordResults
  <2>1. TypeOK'
    BY <1>1, <1>f DEF RecordResults, TypeOK, external, OperationOK, Run
  <2> QED
    BY <1>1, <1>f, <2>1 DEF RecordResults, TypeInv, ResumeTargets
<1>2. CASE ReplayFails
  BY <1>2, <1>f, LocalPauseType DEF ReplayFails, TypeOK
<1>3. CASE Interrupt
  <2>1. OperationOK' /\ ResumeTargets'
    BY <1>3, <1>f, IdleInv DEF Interrupt
  <2>2. TypeOK'
    BY <1>3, <2>1, <1>f DEF Interrupt, TypeOK, store, external
  <2> QED
    BY <2>1, <2>2 DEF TypeInv
<1>4. CASE StartReplay
  <2>1. op' = Reconciling(pending, run) /\ pending \in Effect \cup {NoEffect}
    BY <1>4, <1>f DEF StartReplay, TypeOK
  <2>2. OperationOK' /\ op'.effect = pending
    BY <2>1, <1>f, ReconcilingType DEF Reconciling
  <2>3. TypeOK'
    BY <1>4, <2>2, <1>f DEF StartReplay, TypeOK, store, external
  <2>4. ResumeTargets'
    BY <1>4, <2>2, <1>f DEF StartReplay, ResumeTargets
  <2> QED
    BY <2>3, <2>4 DEF TypeInv
<1>5. CASE StartReconcile
  <2>1. OperationOK' /\ op'.effect = NoEffect
    BY <1>5, <1>f, ReconcilingType DEF StartReconcile, Reconciling
  <2>2. TypeOK'
    BY <1>5, <2>1, <1>f DEF StartReconcile, TypeOK, store, external
  <2>3. ResumeTargets'
    BY <1>5, <2>1, <1>f DEF StartReconcile, ResumeTargets, NoEffect
  <2> QED
    BY <2>2, <2>3 DEF TypeInv
<1>6. CASE Abandon
  <2>1. op' \in {Idle(run), Pausing(run, FALSE)} /\ pending' = NoEffect
    BY <1>6 DEF Abandon
  <2>2. OperationOK' /\ ResumeTargets'
    BY <2>1, <1>f, IdleInv
  <2>3. TypeOK'
    BY <1>6, <2>2, <1>f DEF Abandon, TypeOK, store, external
  <2> QED
    BY <2>2, <2>3 DEF TypeInv
<1> QED
  BY <1>1, <1>2, <1>3, <1>4, <1>5, <1>6

\* A claimed run that is about to be published is well typed.
LEMMA InitType == Init => TypeInv
<1> SUFFICES ASSUME Init PROVE TypeInv
  OBVIOUS
<1>1. ClaimedRun \in Run
  BY DEF ClaimedRun, Run, RunStatuses, Reasons
<1>2. Bumped(ClaimedRun) \in Run
  BY <1>1, NextRunType DEF Reasons, RunStatuses
<1> DEFINE e == Transition(ClaimedRun, Bumped(ClaimedRun))
<1>3. e \in Effect /\ e.kind = "state_transition"
  BY <1>1, <1>2, TransitionType
<1> HIDE DEF e
<1>4. [e EXCEPT !.create = TRUE] \in Effect
      /\ [e EXCEPT !.create = TRUE].kind = "state_transition"
  BY <1>3 DEF Effect
<1>5. ClaimTransition \in Effect /\ ClaimTransition.kind = "state_transition"
  BY <1>4 DEF ClaimTransition, e
<1>6. Apply(ClaimTransition, ClaimedRun).effect = ClaimTransition
  BY DEF Apply
<1>7. 1 \in DOMAIN Plan("apply", ClaimTransition)
      /\ ClaimTransition.next \in Run /\ ClaimTransition # NoEffect
  BY <1>5, PlanStarts DEF Modes, Effect, NoEffect, EffectKinds
<1>8. OperationOK
  BY <1>1, <1>5, <1>7 DEF Init, OperationOK, Operation, Apply
<1>9. StatusCommentBody(ClaimedRun) \in Body
  BY <1>1, BodyType
<1>10. TypeOK
  BY <1>1, <1>8, <1>9, BoundsAssumption
     DEF Init, TypeOK, Invocation, RunStatuses, FactoryLabels
<1>11. ResumeTargets
  BY <1>5, <1>6 DEF Init, ResumeTargets, NoEffect
<1> QED
  BY <1>10, <1>11 DEF TypeInv

\* Every step of the journal keeps the types.
LEMMA NextType == TypeInv /\ [Next]_vars => TypeInv'
<1> SUFFICES ASSUME TypeInv, [Next]_vars PROVE TypeInv'
  OBVIOUS
<1>1. CASE BeginSome
  BY <1>1, BeginType
<1>2. CASE Step
  BY <1>2, StepTypeA, StepTypeB, StepTypeC DEF Step
<1>3. CASE RecordResults \/ ReplayFails \/ Interrupt \/ StartReplay
             \/ StartReconcile \/ Abandon
  BY <1>3, EnvironmentType
<1>4. CASE UNCHANGED vars
  BY <1>4 DEF vars, store, external, TypeInv, TypeOK, OperationOK,
     ResumeTargets, Plan, ApplyPlan, ReplayPlan
<1> QED
  BY <1>1, <1>2, <1>3, <1>4 DEF Next

\* Every reachable state is well typed, and an operation never leaves the plan
\* of the effect it applies or replays, for every set of kinds and all bounds.
THEOREM TypeCorrect == Spec => []TypeOK
<1>1. TypeInv => TypeOK
  BY DEF TypeInv
<1> QED
  BY InitType, NextType, <1>1, PTL DEF Spec

-----------------------------------------------------------------------------
(* External objects *)

\* Only four boundaries create objects, and each looks before it creates.
LEMMA CreatesOnce ==
  TypeInv /\ NothingCreatedTwice /\ [Next]_vars => NothingCreatedTwice'
<1> SUFFICES ASSUME TypeInv, NothingCreatedTwice, [Next]_vars
             PROVE  NothingCreatedTwice'
  OBVIOUS
<1>t. /\ issue \in [label : FactoryLabels, comments : Nat, body : Body,
                    questions : [1 .. MaxCount -> Nat]]
      /\ code \in [head : Nat, remote : Nat, pulls : Nat,
                   statuses : [0 .. MaxCount -> Nat]]
  BY DEF TypeInv, TypeOK
<1>u. ASSUME issue' = issue, code' = code PROVE NothingCreatedTwice'
  BY <1>u DEF NothingCreatedTwice
<1>1. CASE BeginSome
  <2>1. issue' = issue /\ code' = code
    BY <1>1 DEF BeginSome, BeginTransition, BeginCommand, BeginPacketChange,
       BeginTerminal, BeginCommandProjection, BeginClarification,
       BeginCommitStatus, BeginPush, BeginCheckpoint, BeginPullRequest,
       BeginWorkerLaunch, BeginResume, BeginAcceptance, Begin, external
  <2> QED
    BY <2>1, <1>u
<1>2. CASE PostStatusComment
  <2>1. /\ issue'.comments \in {issue.comments, 1}
        /\ issue'.questions = issue.questions /\ code' = code
    <3>1. PICK b, k :
            /\ issue' = [issue EXCEPT !.comments = k, !.body = b]
            /\ k = IF op.effect.create /\ ~(issue.comments > 0)
                     THEN issue.comments + 1 ELSE issue.comments
      BY <1>2 DEF PostStatusComment
    <3>2. k \in {issue.comments, 1}
      BY <3>1, <1>t
    <3> QED
      BY <3>1, <3>2, <1>2, <1>t DEF PostStatusComment
  <2> QED
    BY <2>1 DEF NothingCreatedTwice
<1>3. CASE FindOrCreateQuestion
  <2>1. /\ issue'.comments = issue.comments /\ code' = code
        /\ DOMAIN issue'.questions = DOMAIN issue.questions
    BY <1>3, <1>t DEF FindOrCreateQuestion
  <2>2. \A v \in DOMAIN issue.questions :
          issue'.questions[v] \in {issue.questions[v], 1}
    BY <1>3, <1>t DEF FindOrCreateQuestion
  <2> QED
    BY <2>1, <2>2, <1>t DEF NothingCreatedTwice
<1>4. CASE UpsertPullRequest
  <2>1. /\ issue' = issue /\ code'.pulls \in {code.pulls, 1}
        /\ code'.statuses = code.statuses
    BY <1>4, <1>t DEF UpsertPullRequest
  <2> QED
    BY <2>1 DEF NothingCreatedTwice
<1>5. CASE CreateCommitStatus
  <2>1. /\ issue' = issue /\ code'.pulls = code.pulls
        /\ DOMAIN code'.statuses = DOMAIN code.statuses
    BY <1>5, <1>t DEF CreateCommitStatus
  <2>2. \A c \in DOMAIN code.statuses :
          code'.statuses[c] \in {code.statuses[c], 1}
    BY <1>5, <1>t DEF CreateCommitStatus
  <2>3. \A c \in DOMAIN code'.statuses : code'.statuses[c] <= 1
    BY <2>1, <2>2 DEF NothingCreatedTwice
  <2> QED
    BY <2>1, <2>3 DEF NothingCreatedTwice
<1>6. CASE PushOnce \/ CreateCheckpoint
  <2>1. /\ issue' = issue /\ code'.pulls = code.pulls
        /\ code'.statuses = code.statuses
    BY <1>6, <1>t DEF PushOnce, CreateCheckpoint
  <2> QED
    BY <2>1 DEF NothingCreatedTwice
<1>7. CASE ReplaceLabels \/ ApplyStatusComment
  <2>1. /\ issue'.comments = issue.comments /\ code' = code
        /\ issue'.questions = issue.questions
    BY <1>7, <1>t DEF ReplaceLabels, ApplyStatusComment
  <2> QED
    BY <2>1 DEF NothingCreatedTwice
<1>8. CASE \/ Reserve \/ Check \/ StopActiveWorkers \/ SaveRun
           \/ RecordTransition \/ SaveWatermark \/ SaveQuestion \/ StartWorker
           \/ Count \/ Resume \/ Session \/ Terminal \/ Finish
           \/ SaveUnitResult \/ Clear \/ Diagnose
  <2>1. issue' = issue /\ code' = code
    BY <1>8 DEF Reserve, Check, StopActiveWorkers, SaveRun, RecordTransition,
       SaveWatermark, SaveQuestion, StartWorker, Count, Resume, Session,
       Terminal, Finish, SaveUnitResult, Clear, Diagnose, external
  <2> QED
    BY <2>1, <1>u
<1>9. CASE \/ PauseForRecovery \/ PauseForHarness \/ ApplyRefused
           \/ ReplayRefused \/ ReplayFails \/ RecordResults \/ Interrupt
           \/ StartReplay \/ StartReconcile \/ Abandon
  <2>1. issue' = issue /\ code' = code
    BY <1>9 DEF PauseForRecovery, PauseForHarness, ApplyRefused, ReplayRefused,
       ReplayFails, PauseRunLocally, RecordResults, Interrupt, StartReplay,
       StartReconcile, Abandon, external
  <2> QED
    BY <2>1, <1>u
<1>10. CASE UNCHANGED vars
  BY <1>10, <1>u DEF vars, external
<1> QED
  BY <1>1, <1>2, <1>3, <1>4, <1>5, <1>6, <1>7, <1>8, <1>9, <1>10 DEF Next, Step

\* However often an effect is interrupted and replayed, the run never has a
\* second status comment, question comment, pull request or commit status.
THEOREM NeverCreatedTwice == Spec => []NothingCreatedTwice
<1>1. Init => NothingCreatedTwice
  BY DEF Init, NothingCreatedTwice
<1> QED
  BY InitType, NextType, CreatesOnce, <1>1, PTL DEF Spec
-----------------------------------------------------------------------------
(* The harness process of an invocation *)

\* A native resume is in progress; Boundary numbers the steps of both plans as
\* apply does, and ResumeDone is what the harness was told so far.
Resuming == op.mode \in Modes /\ op.effect.kind = "harness_resume"
Boundary == IF op.mode = "apply" THEN op.at ELSE op.at + 1
ResumeDone == IF op.effect.manual THEN native.manual ELSE native.auto

\* Between the saved counter and the native command one resume is owed; a
\* refused command leaves it owed, and a rollback takes it back.
ResumeInv ==
  /\ ResumesAreReserved
  /\ Resuming =>
       /\ op.mode = "apply" /\ Boundary <= 2 => ResumeCount + 1 = op.effect.target
       /\ Boundary <= 3 => ~op.rejected
       /\ Boundary = 3 => /\ ResumeCount = op.effect.target
                          /\ ResumeDone < op.effect.target
       /\ Boundary = 4 => /\ ResumeCount = op.effect.target
                          /\ op.rejected => ResumeDone < op.effect.target

Accepting == op.mode \in Modes /\ op.effect.kind = "result_acceptance"

\* Only an invocation that was active until the previous boundary is told to
\* finish.
FinishInv ==
  /\ FinishedAtMostOnce
  /\ invocation.status = "active" => native.finished = 0
  /\ Accepting =>
       /\ op.mode = "apply" /\ op.at <= 2 => invocation.status = "active"
       /\ op.at = 3 => native.finished = 0 /\ invocation.status # "active"

HarnessInv == ResumeInv /\ FinishInv

USE DEF Modes

\* What the harness invariants need to know of the types.
LEMMA HarnessTypes ==
  ASSUME TypeInv
  PROVE  /\ invocation \in Invocation
         /\ invocation.auto \in Nat /\ invocation.manual \in Nat
         /\ native \in [auto : Nat, manual : Nat, finished : Nat]
         /\ native.auto \in Nat /\ native.manual \in Nat /\ native.finished \in Nat
         /\ op.at \in Nat /\ op \in Operation
         /\ op.effect \in Effect => op.effect.target \in Nat
  BY DEF TypeInv, TypeOK, OperationOK, Operation, Invocation, Effect

\* Where the boundaries of the two kinds stand.
LEMMA Places ==
  ASSUME TypeInv, NEW s, At(s)
  PROVE  /\ Resuming => /\ Boundary = 2 <=> s = "count"
                        /\ Boundary = 3 <=> s = "resume"
                        /\ Boundary = 4 <=> s = "session"
         /\ Accepting => /\ op.at = 2 <=> s = "terminal"
                         /\ op.at = 3 <=> s = "finish"
         /\ s \in {"count", "resume", "session"} => Resuming
         /\ s \in {"terminal", "finish"} => Accepting
<1>1. /\ op.mode \in Modes /\ op.at \in DOMAIN Plan(op.mode, op.effect)
      /\ Plan(op.mode, op.effect)[op.at] = s
  BY DEF At, TypeInv, TypeOK, OperationOK
<1>2. Resuming => /\ Boundary = 2 <=> s = "count"
                  /\ Boundary = 3 <=> s = "resume"
                  /\ Boundary = 4 <=> s = "session"
  BY <1>1, ResumePlan DEF Resuming, Boundary
<1>3. Accepting => /\ op.at = 2 <=> s = "terminal"
                   /\ op.at = 3 <=> s = "finish"
  BY <1>1, AcceptancePlan DEF Accepting
<1> QED
  BY <1>1, <1>2, <1>3, AtFacts DEF Resuming, Accepting, TypeInv

\* Any other boundary leaves the invocation and its harness alone.
LEMMA QuietStep ==
  ASSUME TypeInv, HarnessInv, NEW s, At(s),
         s \notin {"count", "resume", "session", "terminal", "finish"},
         native' = native,
         invocation'.auto = invocation.auto,
         invocation'.manual = invocation.manual,
         invocation'.status \in {invocation.status, "superseded"},
         s = "reserve" => invocation' = invocation,
         op'.mode = op.mode, op'.effect = op.effect, op'.at = op.at + 1,
         op'.rejected = op.rejected
  PROVE  HarnessInv'
<1>t. op.at \in Nat
  BY HarnessTypes
<1>1. ResumeInv'
  <2>1. ResumesAreReserved'
    BY DEF HarnessInv, ResumeInv, ResumesAreReserved
  <2>2. Resuming' => Resuming /\ Boundary \notin {2, 3, 4}
    BY Places DEF Resuming
  <2>3. Resuming => Boundary' = Boundary + 1 /\ Boundary \in Nat
    BY <1>t DEF Boundary, Resuming
  <2>4. ResumeCount' = ResumeCount /\ ResumeDone' = ResumeDone
    BY DEF ResumeCount, ResumeDone
  <2> QED
    BY <2>1, <2>2, <2>3, <2>4 DEF HarnessInv, ResumeInv
<1>2. FinishInv'
  <2>1. FinishedAtMostOnce' /\ (invocation'.status = "active" => native'.finished = 0)
    BY DEF HarnessInv, FinishInv, FinishedAtMostOnce
  <2>2. Accepting' => Accepting /\ op.at # 2 /\ op.at # 3
    BY Places DEF Accepting
  <2>3. Accepting /\ op.mode = "apply" /\ op.at <= 1 => s = "reserve"
    <3>1. op.at \in DOMAIN Plan(op.mode, op.effect)
          /\ Plan(op.mode, op.effect)[op.at] = s
      BY DEF At, TypeInv, TypeOK, OperationOK
    <3> QED
      BY <3>1, <1>t, AcceptancePlan DEF Accepting
  <2> QED
    BY <1>t, <2>1, <2>2, <2>3 DEF HarnessInv, FinishInv
<1> QED
  BY <1>1, <1>2 DEF HarnessInv

\* So does an operation that ends, pauses or parks.
LEMMA QuietEnd ==
  ASSUME HarnessInv, native' = native, invocation' = invocation,
         op'.mode \notin Modes
  PROVE  HarnessInv'
  BY DEF HarnessInv, ResumeInv, FinishInv, Resuming, Accepting,
     ResumesAreReserved, FinishedAtMostOnce

\* So does an operation that starts with another kind of effect.
LEMMA QuietStart ==
  ASSUME HarnessInv, native' = native, invocation' = invocation,
         op'.effect.kind \notin {"harness_resume", "result_acceptance"}
  PROVE  HarnessInv'
  BY DEF HarnessInv, ResumeInv, FinishInv, Resuming, Accepting,
     ResumesAreReserved, FinishedAtMostOnce

\* Starting an operation keeps the harness invariants.
LEMMA HarnessBegin == TypeInv /\ HarnessInv /\ BeginSome => HarnessInv'
<1> SUFFICES ASSUME TypeInv, HarnessInv, BeginSome PROVE HarnessInv'
  OBVIOUS
<1>1. CASE BeginTransition \/ BeginCommand \/ BeginPacketChange \/ BeginTerminal
  <2>1. PICK e, r : Begin(e, r) /\ e.kind = "state_transition"
    <3>1. CASE BeginTransition
      BY <3>1 DEF BeginTransition, Transition, NewEffect
    <3>2. CASE BeginCommand
      BY <3>2 DEF BeginCommand, Transition, NewEffect
    <3>3. CASE BeginPacketChange
      BY <3>3 DEF BeginPacketChange, Transition, NewEffect
    <3>4. CASE BeginTerminal
      BY <3>4 DEF BeginTerminal, Transition, NewEffect
    <3> QED
      BY <1>1, <3>1, <3>2, <3>3, <3>4
  <2> QED
    BY <2>1, QuietStart DEF Begin, Apply, store, external
<1>2. CASE \/ BeginCommandProjection \/ BeginClarification \/ BeginCommitStatus
           \/ BeginPush \/ BeginCheckpoint \/ BeginPullRequest
  <2>1. PICK e, r : Begin(e, r) /\ e.kind \in {"status_comment",
          "clarification_comment", "commit_status", "push", "checkpoint",
          "pull_request"}
    <3>1. CASE BeginCommandProjection
      BY <3>1 DEF BeginCommandProjection, NewEffect
    <3>2. CASE BeginClarification
      BY <3>2 DEF BeginClarification, NewEffect
    <3>5. CASE BeginCommitStatus
      BY <3>5 DEF BeginCommitStatus, NewEffect
    <3>6. CASE BeginPush
      BY <3>6 DEF BeginPush, NewEffect
    <3>3. CASE BeginCheckpoint
      BY <3>3 DEF BeginCheckpoint, NewEffect
    <3>4. CASE BeginPullRequest
      BY <3>4 DEF BeginPullRequest, NewEffect
    <3> QED
      BY <1>2, <3>1, <3>2, <3>3, <3>4, <3>5, <3>6
  <2> QED
    BY <2>1, QuietStart DEF Begin, Apply, store, external
<1>3. CASE BeginWorkerLaunch
  <2>1. op'.effect.kind = "worker_launch"
    BY <1>3 DEF BeginWorkerLaunch, Apply, NewEffect
  <2>2. CASE UNCHANGED <<invocation, native>>
    BY <2>1, <2>2, QuietStart
  <2>3. CASE /\ invocation' = [status |-> "active", auto |-> 0, manual |-> 0,
                               unit |-> FALSE]
             /\ native' = [auto |-> 0, manual |-> 0, finished |-> 0]
    BY <2>1, <2>3 DEF HarnessInv, ResumeInv, FinishInv, Resuming, Accepting,
       ResumesAreReserved, FinishedAtMostOnce
  <2> QED
    BY <1>3, <2>2, <2>3 DEF BeginWorkerLaunch
<1>4. CASE BeginResume
  <2>1. PICK e, r : /\ Begin(e, r)
                    /\ e.kind = "harness_resume"
                    /\ e.target = (IF e.manual THEN invocation.manual
                                               ELSE invocation.auto) + 1
    BY <1>4 DEF BeginResume, NewEffect
  <2>2. /\ op'.mode = "apply" /\ op'.effect = e /\ op'.at = 1 /\ ~op'.rejected
        /\ invocation' = invocation /\ native' = native
    BY <2>1 DEF Begin, Apply, store, external
  <2> QED
    BY <2>1, <2>2 DEF HarnessInv, ResumeInv, FinishInv, Resuming, Accepting,
       Boundary, ResumeCount, ResumesAreReserved, FinishedAtMostOnce
<1>5. CASE BeginAcceptance
  <2>1. PICK e, r : Begin(e, r) /\ e.kind = "result_acceptance"
                    /\ invocation.status = "active"
    BY <1>5 DEF BeginAcceptance, NewEffect
  <2>2. /\ op'.mode = "apply" /\ op'.effect = e /\ op'.at = 1
        /\ invocation' = invocation /\ native' = native
    BY <2>1 DEF Begin, Apply, store, external
  <2> QED
    BY <2>1, <2>2 DEF HarnessInv, ResumeInv, FinishInv, Resuming, Accepting,
       ResumesAreReserved, FinishedAtMostOnce
<1> QED
  BY <1>1, <1>2, <1>3, <1>4, <1>5 DEF BeginSome

\* The boundaries of issue, store, git and code host keep them.
LEMMA HarnessQuiet ==
  ASSUME TypeInv, HarnessInv,
         \/ Reserve \/ Check \/ StopActiveWorkers \/ ReplaceLabels
         \/ PostStatusComment \/ RecordTransition \/ SaveWatermark
         \/ ApplyStatusComment \/ FindOrCreateQuestion \/ SaveQuestion
         \/ PushOnce \/ CreateCommitStatus \/ CreateCheckpoint
         \/ UpsertPullRequest \/ StartWorker \/ SaveUnitResult \/ SaveRun
  PROVE  HarnessInv'
<1>o. op \in Operation /\ invocation \in Invocation
  BY HarnessTypes
<1>a. ASSUME Advance
      PROVE  /\ op'.mode = op.mode /\ op'.effect = op.effect
             /\ op'.at = op.at + 1 /\ op'.rejected = op.rejected
  BY <1>a, <1>o DEF Advance, Operation
<1>1. CASE Reserve
  <2>1. /\ op'.mode = op.mode /\ op'.effect = op.effect
        /\ op'.at = op.at + 1 /\ op'.rejected = op.rejected
    BY <1>1, <1>a DEF Reserve
  <2>2. native' = native /\ invocation' = invocation
    BY <1>1 DEF Reserve, store, external
  <2>3. At("reserve")
    BY <1>1 DEF Reserve
  <2> QED
    BY <2>1, <2>2, <2>3, QuietStep
<1>2. CASE Check
  <2>1. /\ op'.mode = op.mode /\ op'.effect = op.effect
        /\ op'.at = op.at + 1 /\ op'.rejected = op.rejected
    BY <1>2, <1>o DEF Check, Operation
  <2>2. native' = native /\ invocation' = invocation
    BY <1>2 DEF Check, store, external
  <2>3. At("check")
    BY <1>2 DEF Check
  <2> QED
    BY <2>1, <2>2, <2>3, QuietStep
<1>3. CASE StopActiveWorkers
  <2>1. /\ op'.mode = op.mode /\ op'.effect = op.effect
        /\ op'.at = op.at + 1 /\ op'.rejected = op.rejected
    BY <1>3, <1>a DEF StopActiveWorkers
  <2>2. native' = native /\ invocation' = invocation
    BY <1>3 DEF StopActiveWorkers, store, external
  <2>3. At("stop")
    BY <1>3 DEF StopActiveWorkers
  <2> QED
    BY <2>1, <2>2, <2>3, QuietStep
<1>4. CASE ReplaceLabels
  <2>1. /\ op'.mode = op.mode /\ op'.effect = op.effect
        /\ op'.at = op.at + 1 /\ op'.rejected = op.rejected
    BY <1>4, <1>a DEF ReplaceLabels
  <2>2. native' = native /\ invocation' = invocation
    BY <1>4 DEF ReplaceLabels, store, external
  <2>3. At("labels")
    BY <1>4 DEF ReplaceLabels
  <2> QED
    BY <2>1, <2>2, <2>3, QuietStep
<1>5. CASE PostStatusComment
  <2>1. /\ op'.mode = op.mode /\ op'.effect = op.effect
        /\ op'.at = op.at + 1 /\ op'.rejected = op.rejected
    BY <1>5, <1>o DEF PostStatusComment, Operation
  <2>2. native' = native /\ invocation' = invocation
    BY <1>5 DEF PostStatusComment, store, external
  <2>3. At("comment")
    BY <1>5 DEF PostStatusComment
  <2> QED
    BY <2>1, <2>2, <2>3, QuietStep
<1>6. CASE RecordTransition
  <2>1. /\ op'.mode = op.mode /\ op'.effect = op.effect
        /\ op'.at = op.at + 1 /\ op'.rejected = op.rejected
    BY <1>6, <1>a DEF RecordTransition
  <2>2. native' = native /\ invocation' = invocation
    BY <1>6 DEF RecordTransition, store, external
  <2>3. At("record")
    BY <1>6 DEF RecordTransition
  <2> QED
    BY <2>1, <2>2, <2>3, QuietStep
<1>7. CASE SaveWatermark
  <2>1. /\ op'.mode = op.mode /\ op'.effect = op.effect
        /\ op'.at = op.at + 1 /\ op'.rejected = op.rejected
    BY <1>7, <1>a DEF SaveWatermark
  <2>2. native' = native /\ invocation' = invocation
    BY <1>7 DEF SaveWatermark, store, external
  <2>3. At("watermark")
    BY <1>7 DEF SaveWatermark
  <2> QED
    BY <2>1, <2>2, <2>3, QuietStep
<1>8. CASE ApplyStatusComment
  <2>1. /\ op'.mode = op.mode /\ op'.effect = op.effect
        /\ op'.at = op.at + 1 /\ op'.rejected = op.rejected
    BY <1>8, <1>a DEF ApplyStatusComment
  <2>2. native' = native /\ invocation' = invocation
    BY <1>8 DEF ApplyStatusComment, store, external
  <2>3. At("statusComment")
    BY <1>8 DEF ApplyStatusComment
  <2> QED
    BY <2>1, <2>2, <2>3, QuietStep
<1>9. CASE FindOrCreateQuestion
  <2>1. /\ op'.mode = op.mode /\ op'.effect = op.effect
        /\ op'.at = op.at + 1 /\ op'.rejected = op.rejected
    BY <1>9, <1>a DEF FindOrCreateQuestion
  <2>2. native' = native /\ invocation' = invocation
    BY <1>9 DEF FindOrCreateQuestion, store, external
  <2>3. At("question")
    BY <1>9 DEF FindOrCreateQuestion
  <2> QED
    BY <2>1, <2>2, <2>3, QuietStep
<1>10. CASE SaveQuestion
  <2>1. /\ op'.mode = op.mode /\ op'.effect = op.effect
        /\ op'.at = op.at + 1 /\ op'.rejected = op.rejected
    BY <1>10, <1>o DEF SaveQuestion, Operation
  <2>2. native' = native /\ invocation' = invocation
    BY <1>10 DEF SaveQuestion, store, external
  <2>3. At("saveQuestion")
    BY <1>10 DEF SaveQuestion
  <2> QED
    BY <2>1, <2>2, <2>3, QuietStep
<1>11. CASE PushOnce
  <2>1. /\ op'.mode = op.mode /\ op'.effect = op.effect
        /\ op'.at = op.at + 1 /\ op'.rejected = op.rejected
    BY <1>11, <1>a DEF PushOnce
  <2>2. native' = native /\ invocation' = invocation
    BY <1>11 DEF PushOnce, store, external
  <2>3. At("push")
    BY <1>11 DEF PushOnce
  <2> QED
    BY <2>1, <2>2, <2>3, QuietStep
<1>12. CASE CreateCommitStatus
  <2>1. /\ op'.mode = op.mode /\ op'.effect = op.effect
        /\ op'.at = op.at + 1 /\ op'.rejected = op.rejected
    BY <1>12, <1>a DEF CreateCommitStatus
  <2>2. native' = native /\ invocation' = invocation
    BY <1>12 DEF CreateCommitStatus, store, external
  <2>3. At("status")
    BY <1>12 DEF CreateCommitStatus
  <2> QED
    BY <2>1, <2>2, <2>3, QuietStep
<1>13. CASE CreateCheckpoint
  <2>1. /\ op'.mode = op.mode /\ op'.effect = op.effect
        /\ op'.at = op.at + 1 /\ op'.rejected = op.rejected
    BY <1>13, <1>o DEF CreateCheckpoint, Operation
  <2>2. native' = native /\ invocation' = invocation
    BY <1>13 DEF CreateCheckpoint, store, external
  <2>3. At("commit")
    BY <1>13 DEF CreateCheckpoint
  <2> QED
    BY <2>1, <2>2, <2>3, QuietStep
<1>14. CASE UpsertPullRequest
  <2>1. /\ op'.mode = op.mode /\ op'.effect = op.effect
        /\ op'.at = op.at + 1 /\ op'.rejected = op.rejected
    BY <1>14, <1>o DEF UpsertPullRequest, Operation
  <2>2. native' = native /\ invocation' = invocation
    BY <1>14 DEF UpsertPullRequest, store, external
  <2>3. At("upsert")
    BY <1>14 DEF UpsertPullRequest
  <2> QED
    BY <2>1, <2>2, <2>3, QuietStep
<1>15. CASE StartWorker
  <2>1. /\ op'.mode = op.mode /\ op'.effect = op.effect
        /\ op'.at = op.at + 1 /\ op'.rejected = op.rejected
    BY <1>15, <1>a DEF StartWorker
  <2>2. native' = native /\ invocation' = invocation
    BY <1>15 DEF StartWorker, store, external
  <2>3. At("start")
    BY <1>15 DEF StartWorker
  <2> QED
    BY <2>1, <2>2, <2>3, QuietStep
<1>16. CASE SaveUnitResult
  <2>1. /\ op'.mode = op.mode /\ op'.effect = op.effect
        /\ op'.at = op.at + 1 /\ op'.rejected = op.rejected
    BY <1>16, <1>a DEF SaveUnitResult
  <2>2. /\ native' = native /\ invocation'.auto = invocation.auto
        /\ invocation'.manual = invocation.manual
        /\ invocation'.status \in {invocation.status, "superseded"}
    BY <1>16, <1>o DEF SaveUnitResult, Invocation, external
  <2>3. At("unit")
    BY <1>16 DEF SaveUnitResult
  <2> QED
    BY <2>1, <2>2, <2>3, QuietStep
<1>17. CASE SaveRun
  <2>1. /\ op'.mode = op.mode /\ op'.effect = op.effect
        /\ op'.at = op.at + 1 /\ op'.rejected = op.rejected
    BY <1>17, <1>a DEF SaveRun
  <2>2. /\ native' = native /\ invocation'.auto = invocation.auto
        /\ invocation'.manual = invocation.manual
        /\ invocation'.status \in {invocation.status, "superseded"}
    BY <1>17, <1>o DEF SaveRun, Invocation, external
  <2>3. At("save")
    BY <1>17 DEF SaveRun
  <2> QED
    BY <2>1, <2>2, <2>3, QuietStep
<1> QED
  BY <1>1, <1>2, <1>3, <1>4, <1>5, <1>6, <1>7, <1>8, <1>9, <1>10, <1>11, <1>12, <1>13, <1>14, <1>15, <1>16, <1>17

\* The boundaries of a native resume and of an acceptance keep them.
LEMMA HarnessSteps ==
  ASSUME TypeInv, HarnessInv, Count \/ Resume \/ Session \/ Terminal \/ Finish
  PROVE  HarnessInv'
<1>t. /\ op \in Operation /\ op.at \in Nat /\ invocation \in Invocation
      /\ invocation.auto \in Nat /\ invocation.manual \in Nat
      /\ native \in [auto : Nat, manual : Nat, finished : Nat]
      /\ native.auto \in Nat /\ native.manual \in Nat /\ native.finished \in Nat
      /\ op.effect \in Effect => op.effect.target \in Nat
  BY HarnessTypes
<1>1. CASE Count
  <2>1. At("count") /\ Resuming /\ Boundary = 2 /\ op.effect.target \in Nat
        /\ ~op.rejected /\ op.effect.kind = "harness_resume"
    BY <1>1, <1>t, Places, AtFacts
       DEF Count, Resuming, HarnessInv, ResumeInv, TypeInv
  <2>2. native' = native
    BY <1>1 DEF Count, external
  <2>3. CASE Replaying /\ ResumeCount >= op.effect.target
    <3>1. op' = [op EXCEPT !.at = @ + 3, !.ambiguous = TRUE]
          /\ invocation' = invocation
      BY <1>1, <2>3 DEF Count
    <3>2. /\ op'.mode = op.mode /\ op'.effect = op.effect
          /\ op'.at = op.at + 3 /\ op'.rejected = op.rejected
      BY <3>1, <1>t DEF Operation
    <3> QED
      BY <2>1, <2>2, <2>3, <3>1, <3>2, <1>t DEF HarnessInv, ResumeInv, FinishInv,
         Resuming, Accepting, Boundary, Replaying, ResumesAreReserved,
         FinishedAtMostOnce
  <2>4. CASE ~(Replaying /\ ResumeCount >= op.effect.target)
    <3>1. SetResumeCount(op.effect.target) /\ Advance
      BY <1>1, <2>4 DEF Count
    <3>2. /\ op'.mode = op.mode /\ op'.effect = op.effect
          /\ op'.at = op.at + 1 /\ op'.rejected = op.rejected
      BY <3>1, <1>t DEF Advance, Operation
    <3>3. ResumeDone < op.effect.target
      BY <2>1, <2>4, <1>t DEF HarnessInv, ResumeInv, ResumesAreReserved,
         Resuming, ResumeDone, ResumeCount, Replaying
    <3>4. /\ invocation'.status = invocation.status
          /\ invocation'.auto = IF op.effect.manual THEN invocation.auto
                                                    ELSE op.effect.target
          /\ invocation'.manual = IF op.effect.manual THEN op.effect.target
                                                      ELSE invocation.manual
      BY <3>1, <1>t DEF SetResumeCount, Invocation
    <3>5. ResumesAreReserved'
      <4>1. CASE op.effect.manual
        BY <2>1, <2>2, <3>3, <3>4, <4>1, <1>t DEF HarnessInv, ResumeInv,
           ResumesAreReserved, ResumeDone
      <4>2. CASE ~op.effect.manual
        BY <2>1, <2>2, <3>3, <3>4, <4>2, <1>t DEF HarnessInv, ResumeInv,
           ResumesAreReserved, ResumeDone
      <4> QED
        BY <4>1, <4>2
    <3>6. ResumeInv'
      BY <2>1, <2>2, <3>2, <3>3, <3>4, <3>5, <1>t DEF ResumeInv, Resuming,
         Boundary, ResumeCount, ResumeDone
    <3>7. FinishInv'
      BY <2>1, <2>2, <3>2, <3>4 DEF HarnessInv, FinishInv, Accepting,
         FinishedAtMostOnce
    <3> QED
      BY <3>6, <3>7 DEF HarnessInv
  <2> QED
    BY <2>3, <2>4
<1>2. CASE Resume
  <2>1. At("resume") /\ Resuming /\ Boundary = 3 /\ op.effect.target \in Nat
        /\ ~op.rejected /\ op.effect.kind = "harness_resume"
        /\ ResumeCount = op.effect.target /\ ResumeDone < op.effect.target
    BY <1>2, <1>t, Places, AtFacts
       DEF Resume, Resuming, HarnessInv, ResumeInv, TypeInv
  <2>2. invocation' = invocation
    BY <1>2 DEF Resume, store
  <2>3. /\ op'.mode = op.mode /\ op'.effect = op.effect /\ op'.at = op.at + 1
    BY <1>2, <1>t DEF Resume, Advance, Operation
  <2>4. native'.finished = native.finished
    BY <1>2, <1>t DEF Resume
  <2>5. CASE Advance
    <3>1. op'.rejected = op.rejected
      BY <2>5, <1>t DEF Advance, Operation
    <3>2. /\ native'.auto <= IF op.effect.manual THEN native.auto ELSE native.auto + 1
          /\ native'.manual <= IF op.effect.manual THEN native.manual + 1
                                                   ELSE native.manual
      BY <1>2, <1>t DEF Resume
    <3>t. native'.auto \in Nat /\ native'.manual \in Nat
      BY <1>2, <1>t DEF Resume
    <3>3. ResumesAreReserved'
      BY <2>1, <2>2, <3>2, <3>t, <1>t DEF HarnessInv, ResumeInv,
         ResumesAreReserved, ResumeDone, ResumeCount
    <3> QED
      BY <2>1, <2>2, <2>3, <2>4, <3>1, <3>3, <1>t DEF HarnessInv, ResumeInv,
         FinishInv, Resuming, Accepting, Boundary, ResumeCount,
         FinishedAtMostOnce
  <2>6. CASE native' = native
    BY <2>1, <2>2, <2>3, <2>6, <1>t DEF HarnessInv, ResumeInv, FinishInv,
       Resuming, Accepting, Boundary, ResumeCount, ResumeDone,
       ResumesAreReserved, FinishedAtMostOnce
  <2> QED
    BY <1>2, <2>5, <2>6 DEF Resume
<1>3. CASE Session
  <2>1. At("session") /\ Resuming /\ Boundary = 4 /\ op.effect.target \in Nat
        /\ op.effect.kind = "harness_resume"
        /\ (op.rejected => ResumeDone < op.effect.target)
    BY <1>3, <1>t, Places, AtFacts
       DEF Session, Resuming, HarnessInv, ResumeInv, TypeInv
  <2>2. /\ op'.mode = op.mode /\ op'.effect = op.effect /\ op'.at = op.at + 1
        /\ native' = native
    BY <1>3, <1>t DEF Session, Advance, Operation, external
  <2>3. invocation'.status = invocation.status
    BY <1>3, <1>t DEF Session, SetResumeCount, Invocation
  <2>4. ResumesAreReserved'
    <3>1. CASE op.rejected
      <4>1. /\ invocation'.auto = IF op.effect.manual THEN invocation.auto
                                                      ELSE op.effect.target - 1
            /\ invocation'.manual = IF op.effect.manual
                                      THEN op.effect.target - 1
                                      ELSE invocation.manual
        BY <1>3, <3>1, <1>t DEF Session, SetResumeCount, Invocation
      <4>2. CASE op.effect.manual
        BY <2>1, <2>2, <3>1, <4>1, <4>2, <1>t DEF HarnessInv, ResumeInv,
           ResumesAreReserved, ResumeDone
      <4>3. CASE ~op.effect.manual
        BY <2>1, <2>2, <3>1, <4>1, <4>3, <1>t DEF HarnessInv, ResumeInv,
           ResumesAreReserved, ResumeDone
      <4> QED
        BY <4>2, <4>3
    <3>2. CASE ~op.rejected
      BY <1>3, <2>2, <3>2 DEF Session, HarnessInv, ResumeInv, ResumesAreReserved
    <3> QED
      BY <3>1, <3>2
  <2>5. Boundary' = 5
    BY <2>1, <2>2, <1>t DEF Boundary
  <2>6. ResumeInv'
    BY <2>4, <2>5 DEF ResumeInv
  <2>7. FinishInv'
    BY <2>1, <2>2, <2>3 DEF HarnessInv, FinishInv, Accepting, FinishedAtMostOnce
  <2> QED
    BY <2>6, <2>7 DEF HarnessInv
<1>4. CASE Terminal
  <2>1. At("terminal") /\ Accepting /\ op.at = 2
    BY <1>4, Places DEF Terminal, Accepting
  <2>2. /\ invocation'.auto = invocation.auto
        /\ invocation'.manual = invocation.manual
        /\ invocation'.status # "active"
        /\ native' = native
    BY <1>4, <1>t DEF Terminal, Invocation, external
  <2>3. /\ op'.mode = op.mode /\ op'.effect = op.effect
        /\ op'.at = op.at
             + (IF Replaying /\ invocation.status # "active" THEN 2 ELSE 1)
    BY <1>4, <1>t DEF Terminal, Operation
  <2>4. op'.at = 3 => invocation.status = "active"
    BY <2>1, <2>3 DEF HarnessInv, FinishInv, Accepting, Replaying
  <2>5. op'.at > 2
    BY <2>1, <2>3
  <2> QED
    BY <2>1, <2>2, <2>3, <2>4, <2>5, <1>t DEF HarnessInv, ResumeInv, FinishInv,
       Resuming, Accepting, ResumesAreReserved, FinishedAtMostOnce
<1>5. CASE Finish
  <2>1. At("finish") /\ Accepting /\ op.at = 3 /\ native.finished = 0
        /\ invocation.status # "active"
    BY <1>5, Places DEF Finish, Accepting, HarnessInv, FinishInv
  <2>2. /\ op'.mode = op.mode /\ op'.effect = op.effect /\ op'.at = op.at + 1
    BY <1>5, <1>t DEF Finish, Advance, Operation
  <2>3. /\ invocation' = invocation /\ native'.auto = native.auto
        /\ native'.manual = native.manual /\ native'.finished = 1
    BY <1>5, <1>t, <2>1 DEF Finish, store
  <2> QED
    BY <2>1, <2>2, <2>3 DEF HarnessInv, ResumeInv, FinishInv, Resuming,
       Accepting, ResumesAreReserved, FinishedAtMostOnce
<1> QED
  BY <1>1, <1>2, <1>3, <1>4, <1>5

\* Comparison, pauses, failures, passes and abandonment keep them.
LEMMA HarnessRest ==
  ASSUME TypeInv, HarnessInv,
         \/ Clear \/ Diagnose \/ PauseForRecovery \/ PauseForHarness
         \/ ApplyRefused \/ ReplayRefused \/ ReplayFails \/ RecordResults
         \/ Interrupt \/ StartReplay \/ StartReconcile \/ Abandon
  PROVE  HarnessInv'
<1>0. \A r, b : /\ Idle(r).mode \notin Modes /\ Pausing(r, b).mode \notin Modes
                /\ Parking(r).mode \notin Modes
  BY DEF Idle, Pausing, Parking
<1>k. \A r, n : Apply(Transition(r, n), r).effect.kind = "state_transition"
  BY DEF Apply, Transition, NewEffect
<1>1. CASE Clear
  <2>1. native' = native /\ invocation' = invocation
    BY <1>1 DEF Clear, store, external
  <2>2. CASE Replaying /\ ~op.rejected
    <3>1. op' = [op EXCEPT !.at = @ + 1]
      BY <1>1, <2>2 DEF Clear
    <3>2. /\ op'.mode = op.mode /\ op'.effect = op.effect
          /\ op'.at = op.at + 1 /\ op'.rejected = op.rejected
      BY <3>1, HarnessTypes DEF Operation
    <3> QED
      BY <1>1, <2>1, <3>2, QuietStep DEF Clear
  <2>3. CASE ~(Replaying /\ ~op.rejected)
    <3>1. op' \in {Idle(op.next), Idle(op.base), Parking(op.base)}
      BY <1>1, <2>3 DEF Clear
    <3> QED
      BY <2>1, <3>1, <1>0, QuietEnd
  <2> QED
    BY <2>2, <2>3
<1>2. CASE Diagnose
  <2>1. \E r, b : op' \in {Idle(r), Pausing(r, b)}
    BY <1>2 DEF Diagnose
  <2> QED
    BY <1>2, <2>1, <1>0, QuietEnd DEF Diagnose, store, external
<1>3. CASE PauseForRecovery
  <2>1. /\ native' = native /\ invocation' = invocation
        /\ \E r, n : op' = Idle(r) \/ op' = Apply(Transition(r, n), r)
    BY <1>3 DEF PauseForRecovery
  <2> QED
    BY <2>1, <1>0, <1>k, QuietEnd, QuietStart
<1>4. CASE PauseForHarness
  <2>1. /\ native' = native /\ invocation' = invocation
        /\ \E r, n : op' = Idle(r) \/ op' = Apply(Transition(r, n), r)
    BY <1>4 DEF PauseForHarness
  <2> QED
    BY <2>1, <1>0, <1>k, QuietEnd, QuietStart
<1>5. CASE ReplayRefused \/ ReplayFails
  <2>1. PauseRunLocally
    BY <1>5 DEF ReplayRefused, ReplayFails
  <2>2. native' = native /\ invocation' = invocation /\ \E r : op' = Idle(r)
    BY <2>1 DEF PauseRunLocally
  <2> QED
    BY <2>2, <1>0, QuietEnd
<1>6. CASE ApplyRefused \/ Interrupt
  <2>1. native' = native /\ invocation' = invocation /\ op' = Idle(run)
    BY <1>6 DEF ApplyRefused, Interrupt, store, external
  <2> QED
    BY <2>1, <1>0, QuietEnd
<1>7. CASE RecordResults
  BY <1>7 DEF RecordResults, external, HarnessInv, ResumeInv, FinishInv,
     Resuming, Accepting, Boundary, ResumeCount, ResumeDone,
     ResumesAreReserved, FinishedAtMostOnce
<1>8. CASE StartReplay \/ StartReconcile
  <2>1. /\ op'.mode = "replay" /\ op'.at = 1 /\ ~op'.rejected
        /\ native' = native /\ invocation' = invocation
    BY <1>8 DEF StartReplay, StartReconcile, Reconciling, store, external
  <2> QED
    BY <2>1 DEF HarnessInv, ResumeInv, FinishInv, Resuming, Accepting,
       Boundary, ResumesAreReserved, FinishedAtMostOnce
<1>9. CASE Abandon
  <2>1. native' = native /\ invocation' = invocation
        /\ op' \in {Idle(run), Pausing(run, FALSE)}
    BY <1>9 DEF Abandon, store, external
  <2> QED
    BY <2>1, <1>0, QuietEnd
<1> QED
  BY <1>1, <1>2, <1>3, <1>4, <1>5, <1>6, <1>7, <1>8, <1>9

\* The harness invariants are inductive, relative to the types.
LEMMA HarnessInductive ==
  /\ Init => HarnessInv
  /\ TypeInv /\ HarnessInv /\ [Next]_vars => HarnessInv'
<1>1. Init => HarnessInv
  <2>1. ASSUME Init PROVE op.effect.kind = "state_transition"
    BY <2>1 DEF Init, Apply, ClaimTransition, Transition, NewEffect
  <2>2. ASSUME Init
        PROVE  /\ native.auto = 0 /\ native.manual = 0 /\ native.finished = 0
               /\ invocation.auto = 0 /\ invocation.manual = 0
    BY <2>2 DEF Init
  <2> QED
    BY <2>1, <2>2 DEF HarnessInv, ResumeInv, FinishInv, Resuming, Accepting,
       ResumesAreReserved, FinishedAtMostOnce
<1>2. ASSUME TypeInv, HarnessInv, [Next]_vars PROVE HarnessInv'
  <2>1. CASE BeginSome
    BY <1>2, <2>1, HarnessBegin
  <2>2. CASE Step
    BY <1>2, <2>2, HarnessQuiet, HarnessSteps, HarnessRest DEF Step
  <2>3. CASE RecordResults \/ ReplayFails \/ Interrupt \/ StartReplay
               \/ StartReconcile \/ Abandon
    BY <1>2, <2>3, HarnessRest
  <2>4. CASE UNCHANGED vars
    BY <1>2, <2>4 DEF vars, store, external, HarnessInv, ResumeInv, FinishInv,
       Resuming, Accepting, Boundary, ResumeCount, ResumeDone,
       ResumesAreReserved, FinishedAtMostOnce
  <2> QED
    BY <1>2, <2>1, <2>2, <2>3, <2>4 DEF Next
<1> QED
  BY <1>1, <1>2

\* The harness continued a session at most as often as the store reserved,
\* whatever crashes, refusals and replays happen in between.
THEOREM ResumesReserved == Spec => []ResumesAreReserved
<1>1. HarnessInv => ResumesAreReserved
  BY DEF HarnessInv, ResumeInv
<1> QED
  BY InitType, NextType, HarnessInductive, <1>1, PTL DEF Spec

\* An accepted session is never told to finish a second time by a replay.
THEOREM FinishedOnce == Spec => []FinishedAtMostOnce
<1>1. HarnessInv => FinishedAtMostOnce
  BY DEF HarnessInv, FinishInv
<1> QED
  BY InitType, NextType, HarnessInductive, <1>1, PTL DEF Spec

\* The harness never continues or finishes a session more often than the store
\* recorded, whatever is replayed.
THEOREM HarnessFollowsStore == Spec => []HarnessActsAsStored
<1>1. ResumesAreReserved /\ FinishedAtMostOnce => HarnessActsAsStored
  BY DEF HarnessActsAsStored
<1> QED
  BY ResumesReserved, FinishedOnce, <1>1, PTL

-----------------------------------------------------------------------------
(* What a reservation is worth: rows *)

\* The effects that lead the run to a new row, and the one that saves a
\* watermark; every other effect leaves the revision of the run alone.
Moves(e) ==
  \/ e.kind \in {"state_transition", "checkpoint", "result_acceptance"}
  \/ e.kind = "pull_request" /\ e.persist
Marks(e) == e.kind = "status_comment"

\* A replay of an effect that moves the run fails only for a host timeout.
MovesFailByTimeout ==
  Errors \cap {"state_transition", "checkpoint", "pull_request",
               "result_acceptance"} = {}

\* Two rows agree but for the columns that boundaries fill in.
Agree(r, s) ==
  /\ r.rev = s.rev /\ r.status = s.status /\ r.reason = s.reason
  /\ r.command = s.command /\ r.packet = s.packet /\ r.question = s.question

\* The row an effect has saved once all its boundaries are crossed.
Final(e) ==
  [e.next EXCEPT
     !.comment = IF e.create \/ @ = 0 THEN 1 ELSE @,
     !.checkpoint = IF e.kind = "checkpoint" THEN e.target + 1 ELSE @,
     !.pull = IF e.kind = "pull_request" THEN 1 ELSE @]

\* What every reservation satisfies by itself.
Sound(e) ==
  /\ e.before \/ e.create \/ e.invalidate => e.kind = "state_transition"
  /\ e.before => ~e.create
  /\ e.next.rev = e.prev + (IF Moves(e) \/ Marks(e) THEN 1 ELSE 0)
  /\ e.create \/ e.next.comment # 0
  /\ e.kind = "checkpoint" => e.target = e.next.checkpoint
  /\ e.kind = "pull_request" /\ ~e.persist => e.next.pull # 0

\* r is the row from which e was reserved.
From(e, r) ==
  /\ r.rev = e.prev
  /\ e.next.checkpoint = r.checkpoint /\ e.next.pull = r.pull
  /\ ~e.invalidate => e.next.packet = r.packet
  /\ ~Moves(e) => e.next.status = r.status
  /\ Marks(e) => e.next.command = r.command + 1 /\ e.next.reason = r.reason

\* A run that was paused in the store alone, over an unfinished projection.
PausedOver(e, r) ==
  /\ IsRestartReconciliationPause(r)
  /\ r.rev >= e.next.rev
  /\ r.rev = e.next.rev => r.command # e.next.command
  /\ r.checkpoint = e.next.checkpoint /\ r.pull = e.next.pull

\* Where the stored row may stand while e is reserved.
Stands(e, r) ==
  /\ Moves(e) => From(e, r) \/ r = Final(e)
  /\ Marks(e) => From(e, r) \/ r = e.next \/ PausedOver(e, r)
  /\ ~Moves(e) /\ ~Marks(e) =>
       /\ r.rev >= e.prev
       /\ r.rev = e.prev => r.status = e.next.status
       /\ r.pull = e.next.pull

\* HEAD is the checkpoint the effect starts from, or the one it makes.
HeadFits(e, r) ==
  e.kind = "checkpoint" =>
    /\ code.head \in {e.target, e.target + 1}
    /\ r = Final(e) => code.head = e.target + 1

\* An acceptance is never about an invocation a packet boundary superseded.
NotSuperseded(e) ==
  e.kind = "result_acceptance" => invocation.status # "superseded"

Reserved ==
  pending # NoEffect => /\ Sound(pending) /\ Stands(pending, run)
                        /\ HeadFits(pending, run) /\ NotSuperseded(pending)

-----------------------------------------------------------------------------
(* What the operation in progress knows *)

Place == Plan(op.mode, op.effect)[op.at]

\* The boundaries that lie behind the operation's place: external objects made,
\* labels replaced, comment posted, run saved.
Early(m, e) == m = "apply" /\ e.before
MadeAt == {"labels", "comment", "save", "record", "clear"}
LabelledAt(m, e) ==
  IF Early(m, e) THEN {"comment", "clear"}
                 ELSE {"comment", "save", "record", "clear"}
CommentedAt(m, e) ==
  IF Early(m, e) THEN {"clear"} ELSE {"save", "record", "clear"}
StoredAt(m, e) ==
  IF Early(m, e) THEN {"record", "labels", "comment", "clear"}
                 ELSE {"record", "clear"}

\* Nothing in progress: the caller holds the stored row.
Holding ==
  /\ op.mode \in {"pause", "park"} => pending = NoEffect
  /\ pending = NoEffect => op.base = run /\ op.next = run

\* The effect is not yet reserved.
Fresh ==
  /\ Sound(op.effect) /\ From(op.effect, run)
  /\ HeadFits(op.effect, run) /\ NotSuperseded(op.effect)
  /\ op.base = run /\ op.next = op.effect.next /\ ~op.rejected
  /\ ~Moves(op.effect) /\ ~Marks(op.effect) => op.next = run

\* The row an effect in progress leads to is final but for what its remaining
\* boundaries fill in.
Nearly(n, e, m, p) ==
  /\ Agree(n, Final(e))
  /\ n.comment \in {e.next.comment, Final(e).comment}
  /\ p \in CommentedAt(m, e) => n.comment = Final(e).comment
  /\ p \in MadeAt \/ e.kind # "checkpoint" => n.checkpoint = Final(e).checkpoint
  /\ p \in MadeAt \/ e.kind # "pull_request" => n.pull = Final(e).pull

MovesOn ==
  Moves(op.effect) =>
    /\ Nearly(op.next, op.effect, op.mode, Place)
    /\ Place \in MadeAt /\ op.effect.kind = "checkpoint"
         => code.head = op.effect.target + 1
    /\ Place \in StoredAt(op.mode, op.effect) => run = Final(op.effect)
    /\ Place \notin StoredAt(op.mode, op.effect) =>
         IF op.mode = "apply" THEN From(op.effect, run) ELSE op.base = run

\* The row a replay read before it saved a watermark or a question.
SameButQuestion(r, b) == r = [b EXCEPT !.question = r.question]

MarksOn ==
  Marks(op.effect) =>
    /\ op.next = op.effect.next
    /\ Place = "watermark" => /\ op.base = run
                              /\ op.mode = "apply" => From(op.effect, run)
    /\ Place # "watermark" =>
         \/ run = op.effect.next
         \/ /\ op.mode = "replay" /\ PausedOver(op.effect, run)
            /\ run.rev > op.effect.next.rev
    /\ \/ op.base = run
       \/ From(op.effect, op.base) /\ run = op.effect.next

StaysOn ==
  ~Moves(op.effect) /\ ~Marks(op.effect) =>
    /\ op.mode = "apply" => op.next = run
    /\ op.mode = "replay" => IF op.effect.kind = "clarification_comment"
                               THEN SameButQuestion(run, op.base)
                               ELSE op.base = run

Under ==
  /\ pending = op.effect
  /\ MovesOn /\ MarksOn /\ StaysOn
  /\ op.rejected => op.effect.kind = "harness_resume"

\* The effect is acknowledged and the run is about to be compared.
Compared ==
  /\ pending = NoEffect
  /\ Moves(op.effect) => op.next = run

Progress ==
  CASE op.mode \notin Modes -> Holding
    [] op.mode \in Modes /\ Place = "reserve" -> Fresh
    [] op.mode \in Modes /\ Place = "diagnose" -> Compared
    [] OTHER -> Under

RowInv == Reserved /\ Progress

-----------------------------------------------------------------------------
(* What the issue and the code host show *)

LabelShows(r) == issue.label = FactoryLabelForStatus(r.status)
BodyShows(r) ==
  StatusCommentComparable(issue.body)
    = StatusCommentComparable(StatusCommentBody(r))

Working == op.mode \in Modes /\ Place \notin {"reserve", "diagnose"}

\* A run past its claim has its comment; an unpublished one has none.
CommentKnown ==
  /\ run.rev # 0 => run.comment # 0 /\ issue.comments # 0
  /\ run.rev = 0 => run.comment = 0
  /\ run.rev = 0 /\ pending = NoEffect => issue.comments = 0
  /\ pending # NoEffect =>
       /\ pending.create \/ issue.comments # 0
       /\ run.rev = 0 => Moves(pending)
  /\ op.mode \in Modes /\ Place = "reserve" =>
       /\ pending = NoEffect \/ op.effect.kind = "state_transition"
       /\ op.effect.create \/ issue.comments # 0
       /\ run.rev = 0 => Moves(op.effect)
  /\ Working /\ op.mode = "replay" /\ ~Moves(op.effect) =>
       op.base.rev # 0 /\ op.base.comment # 0
  /\ op.mode = "park" => run.comment # 0

\* Unless an effect is about to change it, the issue shows the stored run.
IssueShows ==
  /\ ~Moves(pending) =>
       \/ IsRestartReconciliationPause(run) \/ run.rev = 0
       \/ LabelShows(run) /\ (BodyShows(run) \/ Marks(pending))
  /\ Working /\ Moves(op.effect) =>
       /\ Place \in LabelledAt(op.mode, op.effect) => LabelShows(op.effect.next)
       /\ Place \in CommentedAt(op.mode, op.effect) =>
            issue.comments # 0 /\ BodyShows(Final(op.effect))
  /\ Working /\ Marks(op.effect) /\ Place = "clear" =>
       IsRestartReconciliationPause(run) \/ BodyShows(run)

\* Unless a checkpoint or a pull request is about to be made, the run names
\* the ones that exist.
CodeShows ==
  /\ ~(pending.kind = "checkpoint" /\ run.rev = pending.prev)
       => code.head = run.checkpoint
  /\ IF pending.kind = "pull_request" /\ pending.persist /\ run.rev = pending.prev
       THEN code.pulls \in {run.pull, 1}
       ELSE code.pulls = run.pull
  /\ Working /\ op.effect.kind = "pull_request" /\ op.effect.persist
       /\ Place \in MadeAt => code.pulls = 1

ShowInv == ~abandoned => CommentKnown /\ IssueShows /\ CodeShows

-----------------------------------------------------------------------------
(* The boundaries of a plan, and what follows them *)

\* Which effects cross a boundary.
OwnedBy(s, e) ==
  /\ s \in {"check", "labels", "comment", "save", "record"} => Moves(e)
  /\ s \in {"watermark", "statusComment"} <=> Marks(e) /\ s \notin {"reserve", "clear", "diagnose"}
  /\ s \in {"question", "saveQuestion"} => e.kind = "clarification_comment"
  /\ s = "commit" => e.kind = "checkpoint"
  /\ s = "upsert" => e.kind = "pull_request"
  /\ s \in {"finish", "unit", "terminal"} => e.kind = "result_acceptance"
  /\ s \in {"count", "resume", "session"} => e.kind = "harness_resume"
  /\ s \in {"push", "status", "start"} => ~Moves(e) /\ ~Marks(e)
  /\ s = "stop" => Moves(e)

\* What may come right before boundary t.
ComesAfter(t, s, m, e) ==
  /\ t \notin {"reserve", "check"}
  /\ s = "clear" => t = "diagnose"
  /\ t = "diagnose" => s = "clear"
  /\ Moves(e) =>
       /\ t \in LabelledAt(m, e) => s \in LabelledAt(m, e) \cup {"labels"}
       /\ t \in CommentedAt(m, e) => s \in CommentedAt(m, e) \cup {"comment"}
       /\ t \in StoredAt(m, e) => s \in StoredAt(m, e) \cup {"save"}
       /\ t \in MadeAt => /\ e.kind = "checkpoint" => s \in MadeAt \cup {"commit"}
                          /\ e.kind = "pull_request" => s \in MadeAt \cup {"upsert"}
       /\ s \in LabelledAt(m, e) => t # "labels"
       /\ s \in StoredAt(m, e) \cup {"save"}
            => t \in StoredAt(m, e) \cup {"diagnose"}
  /\ Marks(e) => /\ t = "watermark" => s = "reserve"
                 /\ t = "statusComment" => s = "watermark"
                 /\ t = "clear" => s = "statusComment"

LEMMA PlanFollows ==
  ASSUME NEW e \in Effect \cup {NoEffect}, NEW m \in Modes,
         m = "apply" => e # NoEffect, e.before => e.kind = "state_transition",
         NEW i \in DOMAIN Plan(m, e)
  PROVE  /\ Plan(m, e)[i] # "diagnose" => OwnedBy(Plan(m, e)[i], e)
         /\ i + 1 \in DOMAIN Plan(m, e)
              => ComesAfter(Plan(m, e)[i + 1], Plan(m, e)[i], m, e)
<1> USE DEF OwnedBy, ComesAfter, Moves, Marks, LabelledAt, CommentedAt,
        StoredAt, MadeAt, Early
<1>0. CASE e = NoEffect
  BY <1>0 DEF Plan, ReplayPlan, NoEffect, Modes
<1>1. CASE e.kind = "state_transition"
  BY <1>1 DEF Plan, ApplyPlan, ReplayPlan, Modes, Effect
<1>2. CASE e.kind = "status_comment"
  BY <1>2 DEF Plan, ApplyPlan, ReplayPlan, Modes, Effect
<1>3. CASE e.kind = "clarification_comment"
  BY <1>3 DEF Plan, ApplyPlan, ReplayPlan, Modes, Effect
<1>4. CASE e.kind = "commit_status"
  BY <1>4 DEF Plan, ApplyPlan, ReplayPlan, Modes, Effect
<1>5. CASE e.kind = "push"
  BY <1>5 DEF Plan, ApplyPlan, ReplayPlan, Modes, Effect
<1>6. CASE e.kind = "checkpoint"
  BY <1>6 DEF Plan, ApplyPlan, ReplayPlan, Modes, Effect
<1>7. CASE e.kind = "pull_request"
  BY <1>7 DEF Plan, ApplyPlan, ReplayPlan, Modes, Effect
<1>8. CASE e.kind = "worker_launch"
  BY <1>8 DEF Plan, ApplyPlan, ReplayPlan, Modes, Effect
<1>9. CASE e.kind = "harness_resume"
  BY <1>9 DEF Plan, ApplyPlan, ReplayPlan, Modes, Effect
<1>10. CASE e.kind = "result_acceptance"
  BY <1>10 DEF Plan, ApplyPlan, ReplayPlan, Modes, Effect
<1> QED
  BY <1>0, <1>1, <1>2, <1>3, <1>4, <1>5, <1>6, <1>7, <1>8, <1>9, <1>10 DEF Effect, EffectKinds

\* The boundary an operation starts at.
LEMMA FirstBoundary ==
  ASSUME NEW e \in Effect \cup {NoEffect}
  PROVE  /\ e # NoEffect => Plan("apply", e)[1] = "reserve"
         /\ e = NoEffect => Plan("replay", e)[1] = "diagnose"
         /\ e # NoEffect => Plan("replay", e)[1]
              \notin {"reserve", "diagnose", "labels", "comment", "save",
                      "record", "clear", "statusComment"}
         /\ Marks(e) => Plan("replay", e)[1] = "watermark"
<1> USE DEF Marks
<1>0. CASE e = NoEffect
  BY <1>0 DEF Plan, ReplayPlan, NoEffect, Modes
<1>1. CASE e.kind = "state_transition"
  BY <1>1 DEF Plan, ApplyPlan, ReplayPlan, Modes, Effect, NoEffect
<1>2. CASE e.kind = "status_comment"
  BY <1>2 DEF Plan, ApplyPlan, ReplayPlan, Modes, Effect, NoEffect
<1>3. CASE e.kind = "clarification_comment"
  BY <1>3 DEF Plan, ApplyPlan, ReplayPlan, Modes, Effect, NoEffect
<1>4. CASE e.kind = "commit_status"
  BY <1>4 DEF Plan, ApplyPlan, ReplayPlan, Modes, Effect, NoEffect
<1>5. CASE e.kind = "push"
  BY <1>5 DEF Plan, ApplyPlan, ReplayPlan, Modes, Effect, NoEffect
<1>6. CASE e.kind = "checkpoint"
  BY <1>6 DEF Plan, ApplyPlan, ReplayPlan, Modes, Effect, NoEffect
<1>7. CASE e.kind = "pull_request"
  BY <1>7 DEF Plan, ApplyPlan, ReplayPlan, Modes, Effect, NoEffect
<1>8. CASE e.kind = "worker_launch"
  BY <1>8 DEF Plan, ApplyPlan, ReplayPlan, Modes, Effect, NoEffect
<1>9. CASE e.kind = "harness_resume"
  BY <1>9 DEF Plan, ApplyPlan, ReplayPlan, Modes, Effect, NoEffect
<1>10. CASE e.kind = "result_acceptance"
  BY <1>10 DEF Plan, ApplyPlan, ReplayPlan, Modes, Effect, NoEffect
<1> QED
  BY <1>0, <1>1, <1>2, <1>3, <1>4, <1>5, <1>6, <1>7, <1>8, <1>9, <1>10 DEF Effect, EffectKinds

\* The two jumps: a counter that was found saved, and a finish that is skipped.
LEMMA Jumps ==
  ASSUME NEW e \in Effect, NEW i \in Nat
  PROVE  /\ e.kind = "harness_resume" /\ i \in DOMAIN Plan("replay", e)
              /\ Plan("replay", e)[i] = "count"
                => i + 3 \in DOMAIN Plan("replay", e) /\ Plan("replay", e)[i + 3] = "clear"
         /\ e.kind = "result_acceptance" /\ i \in DOMAIN Plan("replay", e)
              /\ Plan("replay", e)[i] = "terminal"
                => i + 2 \in DOMAIN Plan("replay", e) /\ Plan("replay", e)[i + 2] = "stop"
  BY ResumePlan, AcceptancePlan

-----------------------------------------------------------------------------
(* Rows *)

\* Rows are equal when their columns are.
LEMMA SameRow ==
  ASSUME NEW r \in Run, NEW s \in Run,
         r.rev = s.rev, r.status = s.status, r.reason = s.reason,
         r.command = s.command, r.packet = s.packet, r.comment = s.comment,
         r.question = s.question, r.checkpoint = s.checkpoint, r.pull = s.pull
  PROVE  r = s
  BY DEF Run

\* The final row of a sound reservation.
LEMMA FinalRow ==
  ASSUME NEW e \in Effect, Sound(e)
  PROVE  /\ Final(e) \in Run /\ e.next \in Run /\ e.prev \in Nat
         /\ Final(e).rev = e.next.rev /\ Final(e).status = e.next.status
         /\ Final(e).reason = e.next.reason /\ Final(e).command = e.next.command
         /\ Final(e).packet = e.next.packet
         /\ Final(e).question = e.next.question
         /\ Final(e).comment # 0
         /\ ~e.create => Final(e).comment = e.next.comment
         /\ e.create => Final(e).comment = 1
         /\ Final(e).checkpoint =
              IF e.kind = "checkpoint" THEN e.target + 1 ELSE e.next.checkpoint
         /\ Final(e).pull =
              IF e.kind = "pull_request" THEN 1 ELSE e.next.pull
         /\ Moves(e) \/ Marks(e) => e.next.rev = e.prev + 1
         /\ ~Moves(e) /\ ~Marks(e) => e.next.rev = e.prev
<1>1. /\ e.next \in Run /\ e.prev \in Nat /\ e.target \in Nat
      /\ e.create \in BOOLEAN
  BY DEF Effect
<1> DEFINE c == IF e.create \/ e.next.comment = 0 THEN 1 ELSE e.next.comment
           k == IF e.kind = "checkpoint" THEN e.target + 1 ELSE e.next.checkpoint
           q == IF e.kind = "pull_request" THEN 1 ELSE e.next.pull
<1>2. c \in Nat /\ k \in Nat /\ q \in Nat
  BY <1>1 DEF Run
<1>3. Final(e) = [e.next EXCEPT !.comment = c, !.checkpoint = k, !.pull = q]
  BY <1>1 DEF Final, Run
<1> HIDE DEF c, k, q
<1>4. /\ Final(e) \in Run
      /\ Final(e).rev = e.next.rev /\ Final(e).status = e.next.status
      /\ Final(e).reason = e.next.reason /\ Final(e).command = e.next.command
      /\ Final(e).packet = e.next.packet
      /\ Final(e).question = e.next.question
      /\ Final(e).comment = c /\ Final(e).checkpoint = k /\ Final(e).pull = q
  BY <1>1, <1>2, <1>3 DEF Run
<1>5. /\ Moves(e) \/ Marks(e) => e.next.rev = e.prev + 1
      /\ ~Moves(e) /\ ~Marks(e) => e.next.rev = e.prev
      /\ e.create \/ e.next.comment # 0
  BY <1>1 DEF Sound
<1>6. c # 0 /\ (~e.create => c = e.next.comment) /\ (e.create => c = 1)
  BY <1>5 DEF c
<1> QED
  BY <1>1, <1>4, <1>5, <1>6 DEF k, q

\* A row that agrees with the final one where boundaries fill it in is final.
LEMMA NearlyFinal ==
  ASSUME NEW e \in Effect, Sound(e), NEW n \in Run, NEW m, NEW p,
         Nearly(n, e, m, p), p \in MadeAt, n.comment = Final(e).comment
  PROVE  n = Final(e)
<1>1. Final(e) \in Run
  BY FinalRow
<1> HIDE DEF Final
<1> QED
  BY <1>1, SameRow DEF Nearly, Agree, MadeAt

\* The operation in progress and the boundary it stands at.
LEMMA Standing ==
  ASSUME TypeInv, NEW s, At(s)
  PROVE  /\ op.mode \in Modes /\ Place = s
         /\ op \in Operation /\ run \in Run /\ op.next \in Run /\ op.base \in Run
         /\ op.at \in Nat /\ op.at \in DOMAIN Plan(op.mode, op.effect)
         /\ op.effect \in Effect \cup {NoEffect}
         /\ op.mode = "apply" => op.effect # NoEffect
         /\ s # "diagnose" => op.effect \in Effect
         /\ pending \in Effect \cup {NoEffect}
         /\ invocation \in Invocation
  BY AtFacts DEF At, TypeInv, TypeOK, OperationOK, Operation, Place, Modes

\* What the invariant says of an effect that is under way.
LEMMA UnderWay ==
  ASSUME TypeInv, RowInv, NEW s, At(s), s # "reserve", s # "diagnose"
  PROVE  /\ Under /\ pending = op.effect /\ op.effect \in Effect
         /\ op.effect # NoEffect
         /\ Sound(op.effect) /\ Stands(op.effect, run)
         /\ HeadFits(op.effect, run) /\ NotSuperseded(op.effect)
         /\ OwnedBy(s, op.effect)
<1>1. /\ op.mode \in Modes /\ Place = s /\ op.effect \in Effect
      /\ op.at \in DOMAIN Plan(op.mode, op.effect)
      /\ Plan(op.mode, op.effect)[op.at] = s
  BY Standing DEF At
<1>2. Under
  BY <1>1 DEF RowInv, Progress
<1>3. op.effect # NoEffect
  BY <1>1 DEF Effect, NoEffect, EffectKinds
<1>4. Sound(op.effect) /\ Stands(op.effect, run)
        /\ HeadFits(op.effect, run) /\ NotSuperseded(op.effect)
  BY <1>2, <1>3 DEF RowInv, Reserved, Under
<1>5. op.effect.before => op.effect.kind = "state_transition"
  BY <1>4 DEF Sound
<1> QED
  BY <1>1, <1>2, <1>3, <1>4, <1>5, PlanFollows DEF Under

\* The boundary an advancing operation comes to.
LEMMA NextPlace ==
  ASSUME TypeInv, NEW s, At(s), s # "diagnose", op.mode = "apply" => s # "clear",
         op.effect.before => op.effect.kind = "state_transition",
         op'.mode = op.mode, op'.effect = op.effect, op'.at = op.at + 1
  PROVE  ComesAfter(Place', s, op.mode, op.effect)
<1>1. /\ op.mode \in Modes /\ op.effect \in Effect \cup {NoEffect}
      /\ op.at \in DOMAIN Plan(op.mode, op.effect)
      /\ op.mode = "apply" => op.effect # NoEffect
      /\ Plan(op.mode, op.effect)[op.at] = s
  BY Standing DEF At
<1>2. op.at + 1 \in DOMAIN Plan(op.mode, op.effect)
  BY <1>1, PlanGoesOn
<1>3. Place' = Plan(op.mode, op.effect)[op.at + 1]
  BY DEF Place
<1> QED
  BY <1>1, <1>2, <1>3, PlanFollows

\* An effect that moves the run goes on to its next boundary.
LEMMA MovesGoOn ==
  ASSUME TypeInv, RowInv, NEW s, At(s), Moves(op.effect),
         s \notin {"reserve", "diagnose", "clear"},
         op'.mode = op.mode, op'.effect = op.effect, op'.base = op.base,
         op'.rejected = op.rejected,
         \/ op'.at = op.at + 1
         \/ s = "terminal" /\ op.mode = "replay" /\ op'.at = op.at + 2,
         pending' = pending,
         op'.next \in Run,
         Agree(op'.next, op.next),
         op'.next.comment \in {op.next.comment, Final(op.effect).comment},
         s = "comment" => op'.next.comment = Final(op.effect).comment,
         s \in {"commit", "upsert"} =>
            /\ op'.next.checkpoint = Final(op.effect).checkpoint
            /\ op'.next.pull = Final(op.effect).pull,
         s \notin {"commit", "upsert"} =>
            /\ op'.next.checkpoint = op.next.checkpoint
            /\ op'.next.pull = op.next.pull,
         code'.head = IF s = "commit" THEN op.effect.target + 1 ELSE code.head,
         run' = IF s = "save" THEN Final(op.effect) ELSE run,
         \/ invocation'.status # "superseded"
         \/ invocation'.status = invocation.status
         \/ op.effect.invalidate
  PROVE  RowInv'
<1> DEFINE e == op.effect
           m == op.mode
           p == Place'
<1>1. /\ Under /\ pending = e /\ e \in Effect /\ e # NoEffect
      /\ Sound(e) /\ Stands(e, run) /\ HeadFits(e, run) /\ NotSuperseded(e)
      /\ OwnedBy(s, e)
  BY UnderWay
<1>2. /\ m \in Modes /\ Place = s /\ op.next \in Run /\ op.base \in Run
      /\ run \in Run /\ op.at \in Nat
  BY Standing
<1>3. Nearly(op.next, e, m, s)
  BY <1>1, <1>2 DEF Under, MovesOn
<1>4. e.before => e.kind = "state_transition"
  BY <1>1 DEF Sound
<1>5. \/ ComesAfter(p, s, m, e)
      \/ p = "stop" /\ s = "terminal" /\ e.kind = "result_acceptance"
  <2>1. CASE op'.at = op.at + 1
    BY <1>4, <2>1, NextPlace
  <2>2. CASE s = "terminal" /\ op.mode = "replay" /\ op'.at = op.at + 2
    <3>1. e.kind = "result_acceptance"
      BY <1>1, <2>2 DEF OwnedBy
    <3>2. op.at \in DOMAIN Plan("replay", e) /\ Plan("replay", e)[op.at] = "terminal"
      BY <2>2, Standing DEF At
    <3>3. p = "stop"
      BY <1>1, <1>2, <2>2, <3>1, <3>2, Jumps DEF Place
    <3> QED
      BY <2>2, <3>1, <3>3
  <2> QED
    BY <2>1, <2>2
<1>6. p \notin {"reserve", "diagnose"}
  BY <1>5 DEF ComesAfter
<1>f. /\ Final(e) \in Run /\ e.next \in Run
      /\ ~e.create => Final(e).comment = e.next.comment
      /\ Final(e).rev = e.next.rev /\ e.next.rev = e.prev + 1
      /\ Final(e).checkpoint =
           IF e.kind = "checkpoint" THEN e.target + 1 ELSE e.next.checkpoint
      /\ Final(e).pull = IF e.kind = "pull_request" THEN 1 ELSE e.next.pull
  BY <1>1, FinalRow
<1>m. Moves(e)
  OBVIOUS
<1> HIDE DEF Final, e, m, p
<1>7. Nearly(op'.next, e, m, p)
  <2>1. Agree(op'.next, Final(e))
    BY <1>3 DEF Nearly, Agree
  <2>2. op'.next.comment \in {e.next.comment, Final(e).comment}
    BY <1>3 DEF Nearly, e
  <2>3. p \in CommentedAt(m, e) => op'.next.comment = Final(e).comment
    <3>1. p \in CommentedAt(m, e) => s \in CommentedAt(m, e) \cup {"comment"}
      BY <1>5, <1>m DEF ComesAfter, CommentedAt, e
    <3>2. s \in CommentedAt(m, e) => op.next.comment = Final(e).comment
      BY <1>3 DEF Nearly
    <3> QED
      BY <3>1, <3>2 DEF e
  <2>4. p \in MadeAt \/ e.kind # "checkpoint"
          => op'.next.checkpoint = Final(e).checkpoint
    <3>1. p \in MadeAt /\ e.kind = "checkpoint" => s \in MadeAt \cup {"commit"}
      BY <1>5, <1>m DEF ComesAfter, MadeAt
    <3>2. s \in MadeAt \/ e.kind # "checkpoint"
            => op.next.checkpoint = Final(e).checkpoint
      BY <1>3 DEF Nearly
    <3> QED
      BY <3>1, <3>2 DEF e
  <2>5. p \in MadeAt \/ e.kind # "pull_request"
          => op'.next.pull = Final(e).pull
    <3>1. p \in MadeAt /\ e.kind = "pull_request" => s \in MadeAt \cup {"upsert"}
      BY <1>5, <1>m DEF ComesAfter, MadeAt
    <3>2. s \in MadeAt \/ e.kind # "pull_request" => op.next.pull = Final(e).pull
      BY <1>3 DEF Nearly
    <3> QED
      BY <3>1, <3>2 DEF e
  <2> QED
    BY <2>1, <2>2, <2>3, <2>4, <2>5 DEF Nearly
<1>c. e' = e /\ m' = m
  BY DEF e, m
<1>8. HeadFits(e, run)' /\ (p \in MadeAt /\ e.kind = "checkpoint"
                               => code'.head = e.target + 1)
  <2>1. p \in MadeAt /\ e.kind = "checkpoint" => s \in MadeAt \cup {"commit"}
    BY <1>5, <1>m DEF ComesAfter, MadeAt
  <2>2. s \in MadeAt /\ e.kind = "checkpoint" => code.head = e.target + 1
    BY <1>1, <1>2 DEF Under, MovesOn, e
  <2>3. s = "save" => s \in MadeAt
    BY DEF MadeAt
  <2>4. s # "save" => run' = run
    OBVIOUS
  <2>5. code'.head = IF s = "commit" THEN e.target + 1 ELSE code.head
    BY DEF e
  <2> QED
    BY <1>1, <2>1, <2>2, <2>3, <2>4, <2>5, <1>c DEF HeadFits
<1>9. NotSuperseded(e)'
  <2>1. e.kind = "result_acceptance" => ~e.invalidate
    BY <1>1 DEF Sound
  <2> QED
    BY <1>1, <1>c, <2>1 DEF NotSuperseded, e
<1>10. Stands(e, run')
  BY <1>1, <1>m DEF Stands, Marks, Moves, e
<1>11. MovesOn'
  <2>1. p \in StoredAt(m, e) => s \in StoredAt(m, e) \cup {"save"}
    BY <1>5, <1>m DEF ComesAfter, StoredAt
  <2>2. s \in StoredAt(m, e) => p \in StoredAt(m, e)
    BY <1>5, <1>6, <1>m DEF ComesAfter, StoredAt
  <2>3. s = "save" => p \in StoredAt(m, e)
    BY <1>5, <1>6, <1>m DEF ComesAfter, StoredAt
  <2>4. MovesOn
    BY <1>1 DEF Under
  <2>5. p \in StoredAt(m, e) => run' = Final(e)
    BY <2>1, <2>4, <1>2, <1>m DEF MovesOn, e, m
  <2>6. p \notin StoredAt(m, e)
          => IF op'.mode = "apply" THEN From(e, run') ELSE op'.base = run'
    BY <2>2, <2>3, <2>4, <1>2, <1>m DEF MovesOn, e, m
  <2> QED
    BY <1>7, <1>8, <2>5, <2>6, <1>c DEF MovesOn, e, m, p
<1>12. Under'
  <2>1. ~Marks(e)
    BY <1>m DEF Marks, Moves
  <2>2. MarksOn' /\ StaysOn'
    BY <2>1, <1>m, <1>c DEF MarksOn, StaysOn, e
  <2> QED
    BY <1>1, <1>11, <2>2 DEF Under, e
<1> QED
  <2>1. op'.mode \in Modes /\ pending' = e
    BY <1>1, <1>2 DEF m
  <2>2. Reserved'
    BY <2>1, <1>1, <1>8, <1>9, <1>10, <1>c DEF Reserved
  <2>3. Progress'
    BY <2>1, <1>6, <1>12 DEF Progress, p
  <2> QED
    BY <2>2, <2>3 DEF RowInv

\* What a pause and the next revision leave of a row.
LEMMA PausedRow ==
  ASSUME NEW r \in Run
  PROVE  LET n == ReconciliationPause(Bumped(r))
         IN /\ n \in Run /\ n.rev = r.rev + 1 /\ IsRestartReconciliationPause(n)
            /\ n.command = r.command /\ n.pull = r.pull
            /\ n.checkpoint = r.checkpoint /\ n.status = "waiting_for_human"
            /\ n.comment = r.comment /\ n.packet = r.packet
<1> DEFINE b == Bumped(r)
           n == ReconciliationPause(b)
<1>1. /\ b \in Run /\ b.rev = r.rev + 1 /\ b.command = r.command
      /\ b.pull = r.pull /\ b.checkpoint = r.checkpoint
      /\ b.comment = r.comment /\ b.packet = r.packet
  BY DEF Run, Bumped
<1> HIDE DEF b
<1>2. /\ n \in Run /\ n.rev = b.rev /\ n.status = "waiting_for_human"
      /\ n.reason = "reconciliation" /\ n.command = b.command
      /\ n.pull = b.pull /\ n.checkpoint = b.checkpoint
      /\ n.comment = b.comment /\ n.packet = b.packet
  BY <1>1 DEF Run, ReconciliationPause, RunStatuses, Reasons
<1> QED
  BY <1>1, <1>2 DEF IsRestartReconciliationPause, b

\* An effect that neither moves the run nor its watermark goes on.
LEMMA StaysGoOn ==
  ASSUME TypeInv, RowInv, NEW s, At(s), s \notin {"reserve", "diagnose"},
         ~Moves(op.effect), ~Marks(op.effect),
         op'.mode = op.mode, op'.effect = op.effect, op'.base = op.base,
         Place' \notin {"reserve", "diagnose"},
         pending' = pending,
         run' \in Run, SameButQuestion(run', run),
         op.effect.kind # "clarification_comment" => run' = run,
         op.mode = "apply" => op'.next = run',
         op'.rejected => op.effect.kind = "harness_resume"
  PROVE  RowInv'
<1>1. /\ Under /\ pending = op.effect /\ op.effect \in Effect
      /\ op.effect # NoEffect
      /\ Sound(op.effect) /\ Stands(op.effect, run)
      /\ HeadFits(op.effect, run) /\ NotSuperseded(op.effect)
  BY UnderWay
<1>2. op.mode \in Modes /\ run \in Run /\ op.base \in Run
  BY Standing
<1>3. /\ run'.rev = run.rev /\ run'.status = run.status /\ run'.pull = run.pull
      /\ \A b \in Run : SameButQuestion(run, b) => SameButQuestion(run', b)
  BY <1>2 DEF SameButQuestion, Run
<1>4. HeadFits(op.effect, run)' /\ NotSuperseded(op.effect)'
  BY DEF HeadFits, NotSuperseded, Moves
<1>5. Stands(op.effect, run')
  BY <1>1, <1>3 DEF Stands
<1>6. StaysOn
  BY <1>1 DEF Under
<1>7. StaysOn'
  BY <1>2, <1>3, <1>6 DEF StaysOn
<1>8. MovesOn' /\ MarksOn'
  BY DEF MovesOn, MarksOn
<1>9. Under'
  BY <1>1, <1>7, <1>8 DEF Under
<1>10. Reserved'
  BY <1>1, <1>4, <1>5 DEF Reserved
<1> QED
  BY <1>2, <1>9, <1>10 DEF RowInv, Progress

\* An operation that starts to apply an effect has the stored row.
LEMMA ApplyFresh ==
  ASSUME TypeInv, RowInv, NEW e \in Effect, op' = Apply(e, run),
         run' = run, pending' = pending, code' = code,
         \/ invocation'.status # "superseded"
         \/ invocation'.status = invocation.status,
         Sound(e), From(e, run), HeadFits(e, run), NotSuperseded(e),
         ~Moves(e) /\ ~Marks(e) => e.next = run
  PROVE  RowInv'
<1>1. /\ op'.mode = "apply" /\ op'.effect = e /\ op'.at = 1
      /\ op'.base = run /\ op'.next = e.next /\ ~op'.rejected
  BY DEF Apply
<1>2. e # NoEffect
  BY DEF Effect, NoEffect, EffectKinds
<1>3. Place' = "reserve"
  BY <1>1, <1>2, FirstBoundary DEF Place
<1>4. HeadFits(e, run)' /\ NotSuperseded(e)'
  BY DEF HeadFits, NotSuperseded
<1>5. Fresh'
  BY <1>1, <1>4 DEF Fresh
<1>6. Reserved'
  BY DEF RowInv, Reserved, HeadFits, NotSuperseded
<1> QED
  BY <1>1, <1>3, <1>5, <1>6 DEF RowInv, Progress, Modes

\* An operation that ends with nothing reserved holds the stored row.
LEMMA EndsEmpty ==
  ASSUME NEW b, op' \in {Idle(run'), Pausing(run', b), Parking(run')},
         pending' = NoEffect
  PROVE  RowInv'
<1>1. op'.base = run' /\ op'.next = run' /\ op'.mode \notin Modes
  <2>1. CASE op' = Idle(run')
    BY <2>1 DEF Idle, Modes
  <2>2. CASE op' = Pausing(run', b)
    BY <2>2 DEF Idle, Pausing, Modes
  <2>3. CASE op' = Parking(run')
    BY <2>3 DEF Idle, Parking, Modes
  <2> QED
    BY <2>1, <2>2, <2>3
<1> QED
  BY <1>1 DEF RowInv, Reserved, Progress, Holding

\* An operation that ends before its effect is acknowledged leaves it reserved.
LEMMA EndsReserved ==
  ASSUME NEW r, op' = Idle(r), pending' # NoEffect, Reserved'
  PROVE  RowInv'
<1>1. op'.mode = "idle"
  BY DEF Idle
<1> QED
  BY <1>1 DEF RowInv, Progress, Holding, Modes

\* Reservations do not notice what happens elsewhere.
LEMMA KeepsReserved ==
  ASSUME RowInv, run' = run, pending' = pending, code' = code,
         invocation' = invocation
  PROVE  Reserved'
  BY DEF RowInv, Reserved, HeadFits, NotSuperseded

\* So an operation may stop anywhere.
LEMMA StopsAnywhere ==
  ASSUME RowInv, op' = Idle(run), run' = run, pending' = pending, code' = code,
         invocation' = invocation
  PROVE  RowInv'
<1>1. Reserved'
  BY KeepsReserved
<1>2. CASE pending = NoEffect
  BY <1>2, EndsEmpty
<1>3. CASE pending # NoEffect
  BY <1>1, <1>3, EndsReserved
<1> QED
  BY <1>2, <1>3

\* The replay of an effect that moves the run is never refused.
LEMMA NotRefused ==
  ASSUME TypeInv, RowInv, Replaying, Moves(op.effect)
  PROVE  ~StepRefused
<1> SUFFICES ASSUME StepRefused PROVE FALSE
  OBVIOUS
<1> DEFINE e == op.effect
<1>r. op.mode = "replay"
  BY DEF Replaying
<1>0. \A s : At(s) /\ s \notin {"reserve", "diagnose"} =>
        /\ pending = e /\ e \in Effect /\ Sound(e) /\ Stands(e, run)
        /\ NotSuperseded(e) /\ MovesOn /\ OwnedBy(s, e) /\ Place = s
        /\ run \in Run
  BY UnderWay, Standing DEF Under
<1>1. ~At("reserve")
  <2> SUFFICES ASSUME At("reserve") PROVE FALSE
    OBVIOUS
  <2>1. Place = "reserve" /\ op.effect \in Effect
        /\ op.at \in DOMAIN Plan("replay", e)
        /\ Plan("replay", e)[op.at] = "reserve"
    BY <1>r, Standing DEF At
  <2>2. Fresh
    BY <2>1, <1>r DEF RowInv, Progress, Modes
  <2>3. OwnedBy("reserve", e)
    BY <2>1, <2>2, PlanFollows DEF Fresh, Sound, Modes
  <2>4. \A i \in DOMAIN Plan("replay", e) : Plan("replay", e)[i] # "reserve"
    <3>1. CASE e.kind = "state_transition"
      BY <3>1 DEF Plan, ReplayPlan, NoEffect
    <3>2. CASE e.kind = "checkpoint"
      BY <3>2 DEF Plan, ReplayPlan, NoEffect
    <3>3. CASE e.kind = "result_acceptance"
      BY <3>3 DEF Plan, ReplayPlan, NoEffect
    <3>4. CASE e.kind = "pull_request" /\ e.persist
      BY <3>4 DEF Plan, ReplayPlan, NoEffect
    <3> QED
      BY <3>1, <3>2, <3>3, <3>4 DEF Moves
  <2> QED
    BY <2>1, <2>4
<1>2. ~(At("check") /\ StaleReplay(e))
  <2> SUFFICES ASSUME At("check"), StaleReplay(e) PROVE FALSE
    OBVIOUS
  <2>1. /\ Sound(e) /\ NotSuperseded(e) /\ e \in Effect /\ run \in Run
        /\ From(e, run) \/ run = Final(e)
    BY <1>0 DEF Stands
  <2>2. e.next.rev = e.prev + 1 /\ Final(e).rev = e.next.rev /\ e.prev \in Nat
    BY <2>1, FinalRow
  <2>3. run.rev = e.prev \/ run.rev = e.next.rev
    BY <2>1, <2>2 DEF From
  <2> QED
    BY <2>1, <2>2, <2>3 DEF StaleReplay, NotSuperseded
<1>3. ~(At("comment") /\ CommentMissing)
  <2> SUFFICES ASSUME At("comment"), CommentMissing PROVE FALSE
    OBVIOUS
  <2>1. Sound(e) /\ e \in Effect /\ Nearly(op.next, e, op.mode, Place)
    BY <1>0 DEF MovesOn
  <2>2. e.create \/ e.next.comment # 0
    BY <2>1 DEF Sound
  <2>3. Final(e).comment # 0
    BY <2>1, FinalRow
  <2> QED
    BY <2>1, <2>2, <2>3 DEF CommentMissing, Nearly
<1>4. ~At("watermark") /\ ~At("push") /\ ~At("status")
  BY <1>0 DEF OwnedBy, Marks, Moves
<1>5. ~SaveRefused
  <2> SUFFICES ASSUME SaveRefused PROVE FALSE
    OBVIOUS
  <2>1. /\ At("save") /\ SaveNeeded /\ run.rev # e.prev
    BY DEF SaveRefused
  <2>2. /\ Sound(e) /\ e \in Effect /\ MovesOn /\ Place = "save"
        /\ From(e, run) \/ run = Final(e)
    BY <1>0, <2>1 DEF Stands
  <2>3. op.base = run /\ Nearly(op.next, e, op.mode, Place)
    BY <2>2, <1>r DEF MovesOn, StoredAt, Early
  <2>4. run.rev = Final(e).rev
    BY <2>1, <2>2 DEF From
  <2>5. op.next.rev = Final(e).rev
    BY <2>3 DEF Nearly, Agree
  <2>6. Final(e).rev \in Nat
    BY <2>2, FinalRow DEF Run
  <2> QED
    BY <2>1, <2>3, <2>4, <2>5, <2>6, <1>r DEF SaveNeeded
<1> QED
  BY <1>1, <1>2, <1>3, <1>4, <1>5 DEF StepRefused

\* A replay that fails or is refused pauses the run in the store alone.
LEMMA LocalPauseRows ==
  ASSUME TypeInv, RowInv, NEW s, At(s), s \notin {"reserve", "diagnose"},
         Replaying, ~Moves(op.effect), PauseRunLocally
  PROVE  RowInv'
<1> DEFINE e == op.effect
           r == op.base
           n == ReconciliationPause(Bumped(r))
<1>r. op.mode = "replay"
  BY DEF Replaying
<1>1. /\ Under /\ pending = e /\ e \in Effect /\ e # NoEffect
      /\ Sound(e) /\ Stands(e, run) /\ HeadFits(e, run) /\ NotSuperseded(e)
  BY UnderWay
<1>2. run \in Run /\ r \in Run /\ Place = s
  BY Standing
<1>3. /\ pending' = pending /\ code' = code /\ invocation' = invocation
      /\ op'.mode = "idle"
      /\ \/ run' = run
         \/ IsRestartReconciliationPause(r) /\ run' = r
         \/ ~IsRestartReconciliationPause(r) /\ run' = n
  BY <1>2 DEF PauseRunLocally, Idle, ReconciliationPause, Bumped
<1>4. /\ n \in Run /\ n.rev = r.rev + 1 /\ IsRestartReconciliationPause(n)
      /\ n.command = r.command /\ n.pull = r.pull /\ n.checkpoint = r.checkpoint
      /\ n.status = "waiting_for_human"
  BY <1>2, PausedRow
<1>f. /\ e.next \in Run /\ e.prev \in Nat
      /\ Marks(e) => e.next.rev = e.prev + 1
      /\ ~Marks(e) => e.next.rev = e.prev
  BY <1>1, FinalRow
<1> HIDE DEF n
<1>5. CASE Marks(e)
  <2>1. /\ r = run \/ (From(e, r) /\ run = e.next)
        /\ From(e, run) \/ run = e.next \/ PausedOver(e, run)
    BY <1>1, <1>5 DEF Under, MarksOn, Stands
  <2>2. From(e, r) => PausedOver(e, n)
    BY <1>2, <1>4, <1>5, <1>f DEF From, PausedOver, Run
  <2>3. r = e.next => PausedOver(e, n)
    BY <1>2, <1>4, <1>5, <1>f DEF PausedOver, Run
  <2>4. PausedOver(e, r) => PausedOver(e, n)
    BY <1>2, <1>4, <1>5, <1>f DEF PausedOver, Run
  <2>5. From(e, run') \/ run' = e.next \/ PausedOver(e, run')
    BY <1>3, <2>1, <2>2, <2>3, <2>4
  <2>6. Stands(e, run')
    BY <2>5, <1>5 DEF Stands
  <2> QED
    BY <1>1, <1>3, <1>5, <2>6 DEF RowInv, Reserved, HeadFits, NotSuperseded,
       Marks, Progress, Holding, Modes
<1>6. CASE ~Marks(e)
  <2>1. r.rev = run.rev /\ r.status = run.status /\ r.pull = run.pull
    BY <1>1, <1>2, <1>6, <1>r DEF Under, StaysOn, SameButQuestion, Run
  <2>2. /\ run.rev >= e.prev /\ run.pull = e.next.pull
        /\ run.rev = e.prev => run.status = e.next.status
    BY <1>1, <1>6 DEF Stands
  <2>3. /\ run'.rev >= e.prev /\ run'.pull = e.next.pull
        /\ run'.rev = e.prev => run'.status = e.next.status
    BY <1>2, <1>3, <1>4, <1>f, <2>1, <2>2 DEF Run
  <2>4. Stands(e, run')
    BY <2>3, <1>6 DEF Stands
  <2>5. e.kind # "checkpoint" /\ e.kind # "result_acceptance"
    BY DEF Moves
  <2> QED
    BY <1>1, <1>3, <2>4, <2>5 DEF RowInv, Reserved, HeadFits, NotSuperseded,
       Progress, Holding, Modes
<1> QED
  BY <1>5, <1>6

-----------------------------------------------------------------------------
(* Rows and reservations: every action *)

\* With nothing reserved the caller holds the stored row.
LEMMA HeldIsStored ==
  ASSUME RowInv, OpIdle
  PROVE  pending = NoEffect => op.base = run /\ op.next = run /\ HeldRuns = {run}
  BY DEF RowInv, Progress, Holding, OpIdle, Modes, HeldRuns

\* The next revision of a row.
LEMMA NextRevision ==
  ASSUME NEW r \in Run, NEW b, b = Bumped(r)
  PROVE  /\ b \in Run /\ b.rev = r.rev + 1 /\ b.status = r.status
         /\ b.reason = r.reason /\ b.command = r.command
         /\ b.packet = r.packet /\ b.comment = r.comment
         /\ b.question = r.question /\ b.checkpoint = r.checkpoint
         /\ b.pull = r.pull
  BY DEF Run, Bumped

\* Starting an effect that was built from the held row.
LEMMA BeginRows ==
  ASSUME TypeInv, TypeInv', RowInv, NEW e, NEW r \in HeldRuns, OpIdle,
         r = run \/ pending = NoEffect,
         op' = Apply(e, r), run' = run, pending' = pending, code' = code,
         \/ invocation'.status # "superseded"
         \/ invocation'.status = invocation.status,
         e.kind \in EffectKinds,
         Sound(e), From(e, r), HeadFits(e, r), NotSuperseded(e),
         ~Moves(e) /\ ~Marks(e) => e.next = r
  PROVE  RowInv'
<1>1. r = run
  BY HeldIsStored
<1>2. op'.effect = e /\ op'.effect \in Effect \cup {NoEffect}
  BY DEF Apply, TypeInv, TypeOK, OperationOK, Operation
<1>3. e \in Effect
  BY <1>2 DEF NoEffect, EffectKinds
<1> QED
  BY <1>1, <1>3, ApplyFresh

\* A reservation that leaves the run as it is.
LEMMA SameRun ==
  ASSUME NEW r \in Run, NEW e, e.next = r, e.prev = r.rev,
         ~e.before, ~e.create, ~e.invalidate, Published(r),
         ~Moves(e), ~Marks(e), e.kind = "pull_request" => r.pull # 0
  PROVE  Sound(e) /\ From(e, r) /\ HeadFits(e, r) /\ NotSuperseded(e)
  BY DEF Sound, From, HeadFits, NotSuperseded, Moves, Marks, Published, Run

\* A reservation that moves the run to a row n of the next revision.
LEMMA MovedRun ==
  ASSUME NEW r \in Run, NEW n \in Run, NEW e, e.next = n, e.prev = r.rev,
         n.rev = r.rev + 1, n.checkpoint = r.checkpoint, n.pull = r.pull,
         n.comment # 0, e.invalidate \/ n.packet = r.packet,
         Moves(e), ~e.create,
         e.before \/ e.invalidate => e.kind = "state_transition",
         e.kind = "checkpoint" => e.target = r.checkpoint /\ code.head = r.checkpoint,
         e.kind = "result_acceptance" => invocation.status = "active"
  PROVE  Sound(e) /\ From(e, r) /\ HeadFits(e, r) /\ NotSuperseded(e)
<1>1. Sound(e) /\ From(e, r) /\ NotSuperseded(e)
  BY DEF Sound, From, NotSuperseded, Moves, Marks, Run
<1>2. e.kind = "checkpoint" => r # Final(e)
  <2> SUFFICES ASSUME e.kind = "checkpoint", r = Final(e) PROVE FALSE
    OBVIOUS
  <2>1. Final(e).rev = n.rev
    BY DEF Final, Run
  <2> QED
    BY <2>1 DEF Run
<1>3. HeadFits(e, r)
  BY <1>2 DEF HeadFits
<1> QED
  BY <1>1, <1>3

\* Every caller starts from the held row.
LEMMA BeginRowInv ==
  ASSUME TypeInv, RowInv, BeginSome
  PROVE  RowInv'
<1>t. TypeInv'
  BY BeginType
<1>h. \A r \in HeldRuns : r \in Run /\ r.packet \in Nat /\ r.checkpoint \in Nat
                           /\ r.pull \in Nat /\ r.rev \in Nat /\ r.command \in Nat
  BY HeldRunsType DEF TypeInv, Run
<1>r. run \in HeldRuns
  BY DEF HeldRuns
<1>n. "none" \in Reasons /\ RunStatuses = {"active", "waiting_for_human",
        "waiting_for_harness", "failed", "cancelled", "complete"}
  BY DEF Reasons, RunStatuses
<1>b. ASSUME NEW e, NEW r \in HeldRuns, Begin(e, r), OpIdle,
             r = run \/ pending = NoEffect, e.kind \in EffectKinds,
             Sound(e) /\ From(e, r) /\ HeadFits(e, r) /\ NotSuperseded(e),
             Moves(e) \/ Marks(e) \/ e.next = r
      PROVE  RowInv'
  <2>1. /\ op' = Apply(e, r) /\ run' = run /\ pending' = pending
        /\ code' = code /\ invocation' = invocation
    BY <1>b DEF Begin, store, external
  <2> QED
    BY <1>b, <1>t, <2>1, BeginRows
<1>1. CASE BeginTransition
  <2>1. PICK r \in HeldRuns, s \in TargetStatuses, stop \in BOOLEAN :
          /\ Begin([Transition(r, [Bumped(r) EXCEPT !.status = s, !.reason = "none"])
                   EXCEPT !.stop = stop], r)
          /\ MayBegin("state_transition", r) /\ Published(r)
    BY <1>1 DEF BeginTransition
  <2>b. PICK b : b = Bumped(r)
    OBVIOUS
  <2>c. /\ b \in Run /\ b.rev = r.rev + 1 /\ b.packet = r.packet
        /\ b.comment = r.comment /\ b.checkpoint = r.checkpoint
        /\ b.pull = r.pull /\ b.command = r.command /\ b.status = r.status
        /\ b.reason = r.reason
    BY <1>h, <1>r, <2>b, NextRevision
  <2>2. PICK n : n = [b EXCEPT !.status = s, !.reason = "none"]
    OBVIOUS
  <2>3. PICK e : e = [Transition(r, n) EXCEPT !.stop = stop]
    OBVIOUS
  <2>4. /\ n \in Run /\ n.rev = r.rev + 1 /\ n.checkpoint = r.checkpoint
        /\ n.pull = r.pull /\ n.comment = r.comment /\ n.packet = r.packet
    <3>1. s \in RunStatuses
      BY StatusAssumption
    <3> QED
      BY <1>n, <2>2, <2>c, <3>1 DEF Run
  <2>5. /\ e.kind = "state_transition" /\ e.next = n /\ e.prev = r.rev
        /\ ~e.before /\ ~e.create /\ ~e.invalidate
    BY <2>3 DEF Transition, NewEffect
  <2>6. Sound(e) /\ From(e, r) /\ HeadFits(e, r) /\ NotSuperseded(e) /\ Moves(e)
    BY <1>h, <2>1, <2>4, <2>5, MovedRun DEF Moves, Published
  <2> QED
    BY <1>b, <2>1, <2>b, <2>2, <2>3, <2>5, <2>6 DEF MayBegin, EffectKinds
<1>2. CASE BeginCommand
  <2>1. PICK r \in HeldRuns :
          /\ Begin([Transition(r, [Bumped(r) EXCEPT !.status = "active",
                                     !.reason = "none", !.command = @ + 1])
                   EXCEPT !.before = TRUE], r)
          /\ MayBegin("state_transition", r) /\ Published(r)
    BY <1>2 DEF BeginCommand
  <2>b. PICK b : b = Bumped(r)
    OBVIOUS
  <2>c. /\ b \in Run /\ b.rev = r.rev + 1 /\ b.packet = r.packet
        /\ b.comment = r.comment /\ b.checkpoint = r.checkpoint
        /\ b.pull = r.pull /\ b.command = r.command /\ b.status = r.status
        /\ b.reason = r.reason
    BY <1>h, <1>r, <2>b, NextRevision
  <2>2. PICK n : n = [b EXCEPT !.status = "active",
                                     !.reason = "none", !.command = @ + 1]
    OBVIOUS
  <2>3. PICK e : e = [Transition(r, n) EXCEPT !.before = TRUE]
    OBVIOUS
  <2>4. /\ n \in Run /\ n.rev = r.rev + 1 /\ n.checkpoint = r.checkpoint
        /\ n.pull = r.pull /\ n.comment = r.comment /\ n.packet = r.packet
    <3>1. b.command + 1 \in Nat /\ b.packet + 1 \in Nat
      BY <2>c DEF Run
    <3>2. /\ n.rev = r.rev + 1 /\ n.checkpoint = r.checkpoint
          /\ n.pull = r.pull /\ n.comment = r.comment /\ n.packet = r.packet
      BY <2>2, <2>c DEF Run
    <3>3. n \in Run
      BY <1>n, <2>2, <2>c, <3>1 DEF Run
    <3> QED
      BY <3>2, <3>3
  <2>5. /\ e.kind = "state_transition" /\ e.next = n /\ e.prev = r.rev
        /\ ~e.create /\ ~e.invalidate
    BY <2>3 DEF Transition, NewEffect
  <2>6. Sound(e) /\ From(e, r) /\ HeadFits(e, r) /\ NotSuperseded(e) /\ Moves(e)
    BY <1>h, <2>1, <2>4, <2>5, MovedRun DEF Moves, Published
  <2> QED
    BY <1>b, <2>1, <2>b, <2>2, <2>3, <2>5, <2>6 DEF MayBegin, EffectKinds
<1>3. CASE BeginPacketChange
  <2>1. PICK r \in HeldRuns :
          /\ Begin([Transition(r, [Bumped(r) EXCEPT !.status = "active",
                                     !.reason = "none", !.packet = @ + 1])
                   EXCEPT !.invalidate = TRUE], r)
          /\ MayBegin("state_transition", r) /\ Published(r)
    BY <1>3 DEF BeginPacketChange
  <2>b. PICK b : b = Bumped(r)
    OBVIOUS
  <2>c. /\ b \in Run /\ b.rev = r.rev + 1 /\ b.packet = r.packet
        /\ b.comment = r.comment /\ b.checkpoint = r.checkpoint
        /\ b.pull = r.pull /\ b.command = r.command /\ b.status = r.status
        /\ b.reason = r.reason
    BY <1>h, <1>r, <2>b, NextRevision
  <2>2. PICK n : n = [b EXCEPT !.status = "active",
                                     !.reason = "none", !.packet = @ + 1]
    OBVIOUS
  <2>3. PICK e : e = [Transition(r, n) EXCEPT !.invalidate = TRUE]
    OBVIOUS
  <2>4. /\ n \in Run /\ n.rev = r.rev + 1 /\ n.checkpoint = r.checkpoint
        /\ n.pull = r.pull /\ n.comment = r.comment
    <3>1. b.command + 1 \in Nat /\ b.packet + 1 \in Nat
      BY <2>c DEF Run
    <3>2. /\ n.rev = r.rev + 1 /\ n.checkpoint = r.checkpoint
          /\ n.pull = r.pull /\ n.comment = r.comment
      BY <2>2, <2>c DEF Run
    <3>3. n \in Run
      BY <1>n, <2>2, <2>c, <3>1 DEF Run
    <3> QED
      BY <3>2, <3>3
  <2>5. /\ e.kind = "state_transition" /\ e.next = n /\ e.prev = r.rev
        /\ ~e.create /\ e.invalidate /\ ~e.before
    BY <2>3 DEF Transition, NewEffect
  <2>6. Sound(e) /\ From(e, r) /\ HeadFits(e, r) /\ NotSuperseded(e) /\ Moves(e)
    BY <1>h, <2>1, <2>4, <2>5, MovedRun DEF Moves, Published
  <2> QED
    BY <1>b, <2>1, <2>b, <2>2, <2>3, <2>5, <2>6 DEF MayBegin, EffectKinds
<1>4. CASE BeginTerminal
  <2>1. PICK s \in {"cancelled", "complete"} :
          /\ Begin([Transition(run, [Bumped(run) EXCEPT !.status = s,
                                       !.reason = "none", !.comment = 1])
                   EXCEPT !.stop = TRUE], run)
          /\ OpIdle
    BY <1>4 DEF BeginTerminal
  <2>b. PICK b : b = Bumped(run)
    OBVIOUS
  <2>c. /\ b \in Run /\ b.rev = run.rev + 1 /\ b.packet = run.packet
        /\ b.comment = run.comment /\ b.checkpoint = run.checkpoint
        /\ b.pull = run.pull /\ b.command = run.command /\ b.status = run.status
        /\ b.reason = run.reason
    BY <1>h, <1>r, <2>b, NextRevision
  <2>2. PICK n : n = [b EXCEPT !.status = s, !.reason = "none",
                                         !.comment = 1]
    OBVIOUS
  <2>3. PICK e : e = [Transition(run, n) EXCEPT !.stop = TRUE]
    OBVIOUS
  <2>4. /\ n \in Run /\ n.rev = run.rev + 1 /\ n.checkpoint = run.checkpoint
        /\ n.pull = run.pull /\ n.comment = 1 /\ n.packet = run.packet
    BY <1>n, <2>2, <2>c DEF Run
  <2>5. /\ e.kind = "state_transition" /\ e.next = n /\ e.prev = run.rev
        /\ ~e.create /\ ~e.invalidate /\ ~e.before
    BY <2>3 DEF Transition, NewEffect
  <2>6. /\ Sound(e) /\ From(e, run) /\ HeadFits(e, run) /\ NotSuperseded(e)
        /\ Moves(e)
    BY <1>h, <1>r, <2>4, <2>5, MovedRun DEF Moves
  <2> QED
    BY <1>b, <1>r, <2>1, <2>b, <2>2, <2>3, <2>5, <2>6 DEF EffectKinds
<1>5. CASE BeginCommandProjection
  <2>1. PICK r \in HeldRuns :
          /\ Begin(NewEffect("status_comment", r, [Bumped(r) EXCEPT
                     !.command = @ + 1, !.comment = 1],
                   [Bumped(r) EXCEPT !.command = @ + 1, !.comment = 1].rev), r)
          /\ MayBegin("status_comment", r)
    BY <1>5 DEF BeginCommandProjection
  <2>b. PICK b : b = Bumped(r)
    OBVIOUS
  <2>c. /\ b \in Run /\ b.rev = r.rev + 1 /\ b.packet = r.packet
        /\ b.comment = r.comment /\ b.checkpoint = r.checkpoint
        /\ b.pull = r.pull /\ b.command = r.command /\ b.status = r.status
        /\ b.reason = r.reason
    BY <1>h, <1>r, <2>b, NextRevision
  <2>2. PICK n : n = [b EXCEPT !.command = @ + 1, !.comment = 1]
    OBVIOUS
  <2>3. PICK e : e = NewEffect("status_comment", r, n, n.rev)
    OBVIOUS
  <2>4. /\ n \in Run /\ n.rev = r.rev + 1 /\ n.checkpoint = r.checkpoint
        /\ n.pull = r.pull /\ n.comment = 1 /\ n.packet = r.packet
        /\ n.status = r.status /\ n.reason = r.reason
        /\ n.command = r.command + 1
    <3>1. b.command + 1 \in Nat /\ b.packet + 1 \in Nat
      BY <2>c DEF Run
    <3>2. /\ n.rev = r.rev + 1 /\ n.checkpoint = r.checkpoint
          /\ n.pull = r.pull /\ n.comment = 1 /\ n.packet = r.packet
          /\ n.status = r.status /\ n.reason = r.reason
          /\ n.command = r.command + 1
      BY <2>2, <2>c DEF Run
    <3>3. n \in Run
      BY <1>n, <2>2, <2>c, <3>1 DEF Run
    <3> QED
      BY <3>2, <3>3
  <2>5. /\ e.kind = "status_comment" /\ e.next = n /\ e.prev = r.rev
        /\ ~e.create /\ ~e.invalidate /\ ~e.before
    BY <2>3 DEF NewEffect
  <2>6. /\ Sound(e) /\ From(e, r) /\ HeadFits(e, r) /\ NotSuperseded(e)
        /\ Marks(e)
    BY <2>4, <2>5 DEF Sound, From, HeadFits, NotSuperseded, Moves, Marks
  <2> QED
    BY <1>b, <2>1, <2>b, <2>2, <2>3, <2>5, <2>6 DEF MayBegin, EffectKinds
<1>6. CASE BeginCheckpoint
  <2>1. PICK r \in HeldRuns :
          /\ Begin(NewEffect("checkpoint", r, Bumped(r), r.checkpoint), r)
          /\ MayBegin("checkpoint", r) /\ Published(r)
          /\ code.head = r.checkpoint
    BY <1>6 DEF BeginCheckpoint
  <2>2. PICK n : n = Bumped(r)
    OBVIOUS
  <2>3. PICK e : e = NewEffect("checkpoint", r, n, r.checkpoint)
    OBVIOUS
  <2>4. /\ n \in Run /\ n.rev = r.rev + 1 /\ n.checkpoint = r.checkpoint
        /\ n.pull = r.pull /\ n.comment = r.comment /\ n.packet = r.packet
    BY <1>h, <2>2, NextRevision
  <2>5. /\ e.kind = "checkpoint" /\ e.next = n /\ e.prev = r.rev
        /\ ~e.create /\ ~e.invalidate /\ ~e.before /\ e.target = r.checkpoint
    BY <2>3 DEF NewEffect
  <2>6. Sound(e) /\ From(e, r) /\ HeadFits(e, r) /\ NotSuperseded(e) /\ Moves(e)
    BY <1>h, <2>1, <2>4, <2>5, MovedRun DEF Moves, Published
  <2> QED
    BY <1>b, <2>1, <2>2, <2>3, <2>5, <2>6 DEF MayBegin, EffectKinds
<1>7. CASE BeginPullRequest
  <2>1. PICK r \in HeldRuns, persist \in BOOLEAN :
          /\ Begin([NewEffect("pull_request", r,
                      IF persist THEN Bumped(r) ELSE r, r.pull)
                   EXCEPT !.persist = persist], r)
          /\ MayBegin("pull_request", r) /\ Published(r)
          /\ persist \/ r.pull # 0
    BY <1>7 DEF BeginPullRequest
  <2>2. PICK n : n = IF persist THEN Bumped(r) ELSE r
    OBVIOUS
  <2>3. PICK e : e = [NewEffect("pull_request", r, n, r.pull)
                        EXCEPT !.persist = persist]
    OBVIOUS
  <2>5. /\ e.kind = "pull_request" /\ e.next = n /\ e.prev = r.rev
        /\ ~e.create /\ ~e.invalidate /\ ~e.before /\ e.persist = persist
    BY <2>3 DEF NewEffect
  <2>6. CASE persist
    <3>4. /\ n \in Run /\ n.rev = r.rev + 1 /\ n.checkpoint = r.checkpoint
          /\ n.pull = r.pull /\ n.comment = r.comment /\ n.packet = r.packet
      BY <1>h, <2>2, <2>6, NextRevision
    <3>6. Sound(e) /\ From(e, r) /\ HeadFits(e, r) /\ NotSuperseded(e) /\ Moves(e)
      BY <1>h, <2>1, <2>5, <2>6, <3>4, MovedRun DEF Moves, Published
    <3> QED
      BY <1>b, <2>1, <2>2, <2>3, <2>5, <3>6 DEF MayBegin, EffectKinds
  <2>7. CASE ~persist
    <3>1. /\ Sound(e) /\ From(e, r) /\ HeadFits(e, r) /\ NotSuperseded(e)
          /\ e.next = r
      BY <1>h, <2>1, <2>2, <2>5, <2>7, SameRun DEF Moves, Marks
    <3> QED
      BY <1>b, <2>1, <2>2, <2>3, <2>5, <3>1 DEF MayBegin, EffectKinds
  <2> QED
    BY <2>6, <2>7
<1>8. CASE BeginAcceptance
  <2>1. PICK r \in HeldRuns, s \in {"active", "waiting_for_human"},
             stop \in BOOLEAN :
          /\ Begin([NewEffect("result_acceptance", r, [Bumped(r) EXCEPT !.status = s],
                      [Bumped(r) EXCEPT !.status = s].rev) EXCEPT !.stop = stop], r)
          /\ MayBegin("result_acceptance", r) /\ Published(r)
          /\ invocation.status = "active"
    BY <1>8 DEF BeginAcceptance
  <2>b. PICK b : b = Bumped(r)
    OBVIOUS
  <2>c. /\ b \in Run /\ b.rev = r.rev + 1 /\ b.packet = r.packet
        /\ b.comment = r.comment /\ b.checkpoint = r.checkpoint
        /\ b.pull = r.pull /\ b.command = r.command /\ b.status = r.status
        /\ b.reason = r.reason
    BY <1>h, <1>r, <2>b, NextRevision
  <2>2. PICK n : n = [b EXCEPT !.status = s]
    OBVIOUS
  <2>3. PICK e : e = [NewEffect("result_acceptance", r, n, n.rev)
                        EXCEPT !.stop = stop]
    OBVIOUS
  <2>4. /\ n \in Run /\ n.rev = r.rev + 1 /\ n.checkpoint = r.checkpoint
        /\ n.pull = r.pull /\ n.comment = r.comment /\ n.packet = r.packet
    BY <1>n, <2>2, <2>c DEF Run
  <2>5. /\ e.kind = "result_acceptance" /\ e.next = n /\ e.prev = r.rev
        /\ ~e.create /\ ~e.invalidate /\ ~e.before
    BY <2>3 DEF NewEffect
  <2>6. Sound(e) /\ From(e, r) /\ HeadFits(e, r) /\ NotSuperseded(e) /\ Moves(e)
    BY <1>h, <2>1, <2>4, <2>5, MovedRun DEF Moves, Published
  <2> QED
    BY <1>b, <2>1, <2>b, <2>2, <2>3, <2>5, <2>6 DEF MayBegin, EffectKinds
<1>9. CASE BeginClarification \/ BeginCommitStatus \/ BeginPush \/ BeginResume
  <2>1. PICK k \in {"clarification_comment", "commit_status", "push",
                    "harness_resume"}, r \in HeldRuns :
          /\ MayBegin(k, r) /\ Published(r)
          /\ \E e : /\ Begin(e, r)
                    /\ e.kind = k /\ e.next = r /\ e.prev = r.rev
                    /\ ~e.before /\ ~e.create /\ ~e.invalidate
    <3>1. CASE BeginClarification
      BY <3>1 DEF BeginClarification, NewEffect
    <3>2. CASE BeginCommitStatus
      BY <3>2 DEF BeginCommitStatus, NewEffect
    <3>3. CASE BeginPush
      BY <3>3 DEF BeginPush, NewEffect
    <3>4. CASE BeginResume
      BY <3>4 DEF BeginResume, NewEffect
    <3> QED
      BY <1>9, <3>1, <3>2, <3>3, <3>4
  <2>2. PICK e : /\ Begin(e, r)
                 /\ e.kind = k /\ e.next = r /\ e.prev = r.rev
                 /\ ~e.before /\ ~e.create /\ ~e.invalidate
    BY <2>1
  <2>3. Sound(e) /\ From(e, r) /\ HeadFits(e, r) /\ NotSuperseded(e)
    BY <1>h, <2>1, <2>2, SameRun DEF Moves, Marks
  <2> QED
    BY <1>b, <2>1, <2>2, <2>3 DEF MayBegin, EffectKinds
<1>10. CASE BeginWorkerLaunch
  <2>1. PICK r \in HeldRuns :
          /\ op' = Apply(NewEffect("worker_launch", r, r, 0), r)
          /\ MayBegin("worker_launch", r) /\ Published(r)
    BY <1>10 DEF BeginWorkerLaunch
  <2>2. /\ run' = run /\ pending' = pending /\ code' = code
        /\ invocation' = invocation \/ invocation'.status = "active"
    BY <1>10 DEF BeginWorkerLaunch
  <2>3. PICK e : e = NewEffect("worker_launch", r, r, 0)
    OBVIOUS
  <2>4. /\ e.kind = "worker_launch" /\ e.next = r /\ e.prev = r.rev
        /\ ~e.create /\ ~e.invalidate /\ ~e.before
    BY <2>3 DEF NewEffect
  <2>5. Sound(e) /\ From(e, r) /\ HeadFits(e, r) /\ NotSuperseded(e)
    BY <1>h, <2>1, <2>4, SameRun DEF Moves, Marks
  <2> QED
    BY <1>t, <2>1, <2>2, <2>3, <2>4, <2>5, BeginRows DEF MayBegin, EffectKinds
<1> QED
  BY <1>1, <1>2, <1>3, <1>4, <1>5, <1>6, <1>7, <1>8, <1>9, <1>10 DEF BeginSome

-----------------------------------------------------------------------------
(* Rows and reservations: the boundaries of an effect *)

\* The boundary an operation comes to belongs to its effect.
LEMMA ComesTo ==
  ASSUME TypeInv, TypeInv', NEW s, At(s), s # "diagnose",
         op.mode = "apply" => s # "clear", op.effect \in Effect, Sound(op.effect),
         op'.mode = op.mode, op'.effect = op.effect, op'.at = op.at + 1
  PROVE  /\ ComesAfter(Place', s, op.mode, op.effect)
         /\ Place' # "diagnose" => OwnedBy(Place', op.effect)
<1>1. op.effect.before => op.effect.kind = "state_transition"
  BY DEF Sound
<1>2. ComesAfter(Place', s, op.mode, op.effect)
  BY <1>1, NextPlace
<1>3. op.mode \in Modes /\ (op.mode = "apply" => op.effect # NoEffect)
  BY Standing
<1>4. op'.at \in DOMAIN Plan(op.mode, op.effect)
  BY <1>3 DEF TypeInv, TypeOK, OperationOK, Modes
<1>5. Place' = Plan(op.mode, op.effect)[op'.at]
  BY DEF Place
<1> QED
  BY <1>1, <1>2, <1>3, <1>4, <1>5, PlanFollows

\* The reservation is stored as it was built.
LEMMA ReserveRows ==
  ASSUME TypeInv, TypeInv', RowInv, Reserve
  PROVE  RowInv'
<1> DEFINE e == op.effect
           m == op.mode
           p == Place'
<1>1. /\ At("reserve") /\ pending' = e /\ run' = run /\ code' = code
      /\ invocation' = invocation
  BY DEF Reserve, store, external
<1>2. /\ m \in Modes /\ Place = "reserve" /\ e \in Effect /\ run \in Run
      /\ op \in Operation /\ op.next \in Run
  BY <1>1, Standing
<1>3. /\ op'.mode = m /\ op'.effect = e /\ op'.at = op.at + 1
      /\ op'.base = op.base /\ op'.next = op.next /\ op'.rejected = op.rejected
  BY <1>2 DEF Reserve, Advance, Operation
<1>4. Fresh
  BY <1>2 DEF RowInv, Progress
<1>5. /\ Sound(e) /\ From(e, run) /\ HeadFits(e, run) /\ NotSuperseded(e)
      /\ op.base = run /\ op.next = e.next /\ ~op.rejected
      /\ ~Moves(e) /\ ~Marks(e) => op.next = run
  BY <1>4 DEF Fresh
<1>6. ComesAfter(p, "reserve", m, e) /\ (p # "diagnose" => OwnedBy(p, e))
  BY <1>1, <1>2, <1>3, <1>5, ComesTo
<1>7. /\ p \notin {"reserve", "diagnose"}
      /\ p = "clear" => ~Marks(e)
  BY <1>6 DEF ComesAfter
<1>8. Marks(e) => p = "watermark"
  BY <1>6, <1>7 DEF ComesAfter, OwnedBy
<1>9. Moves(e) => p \notin CommentedAt(m, e) /\ p \notin StoredAt(m, e)
  BY <1>6 DEF ComesAfter, CommentedAt, StoredAt
<1>10. /\ Moves(e) /\ e.kind = "checkpoint" => p \notin MadeAt
       /\ Moves(e) /\ e.kind = "pull_request" => p \notin MadeAt
  BY <1>6 DEF ComesAfter, MadeAt
<1>11. /\ Agree(e.next, Final(e))
       /\ e.kind # "checkpoint" => e.next.checkpoint = Final(e).checkpoint
       /\ e.kind # "pull_request" => e.next.pull = Final(e).pull
  BY <1>2, <1>5, FinalRow DEF Agree
<1> HIDE DEF Final, e, m, p
<1>12. Moves(e) => Nearly(e.next, e, m, p)
  BY <1>9, <1>10, <1>11 DEF Nearly
<1>c. e' = e /\ m' = m
  BY <1>3 DEF e, m
<1>13. MovesOn'
  BY <1>1, <1>3, <1>5, <1>9, <1>10, <1>12, <1>c DEF MovesOn, e, m, p
<1>14. MarksOn'
  BY <1>1, <1>3, <1>5, <1>8, <1>c DEF MarksOn, e, p
<1>15. StaysOn'
  <2>1. SameButQuestion(run, run)
    BY <1>2 DEF SameButQuestion, Run
  <2> QED
    BY <1>1, <1>3, <1>5, <2>1, <1>c DEF StaysOn, e
<1>16. Under'
  BY <1>1, <1>3, <1>5, <1>13, <1>14, <1>15 DEF Under, e
<1>17. Stands(e, run)
  BY <1>2, <1>5 DEF Stands, From, Run
<1>18. Reserved'
  BY <1>1, <1>5, <1>17 DEF Reserved, HeadFits, NotSuperseded
<1> QED
  BY <1>2, <1>3, <1>7, <1>16, <1>18 DEF RowInv, Progress, p, m

\* A boundary that only marks the place of an effect that moves the run.
LEMMA PlainMoves ==
  ASSUME TypeInv, TypeInv', RowInv, NEW s, At(s), Moves(op.effect),
         s \notin {"reserve", "diagnose", "clear", "comment", "commit",
                   "upsert", "save"},
         \/ Advance
         \/ s = "terminal" /\ op.mode = "replay" /\ op' = [op EXCEPT !.at = @ + 2],
         pending' = pending, run' = run, code' = code,
         \/ invocation'.status # "superseded"
         \/ invocation'.status = invocation.status
  PROVE  RowInv'
<1>1. op \in Operation /\ op.next \in Run
  BY Standing
<1>2. /\ op'.mode = op.mode /\ op'.effect = op.effect /\ op'.base = op.base
      /\ op'.next = op.next /\ op'.rejected = op.rejected
      /\ \/ op'.at = op.at + 1
         \/ s = "terminal" /\ op.mode = "replay" /\ op'.at = op.at + 2
  BY <1>1 DEF Advance, Operation
<1>3. Agree(op.next, op.next)
  BY DEF Agree
<1> QED
  BY <1>1, <1>2, <1>3, MovesGoOn

\* Stopping workers, replacing labels, recording the transition, and the steps
\* of an acceptance before it.
LEMMA QuietRows ==
  ASSUME TypeInv, TypeInv', RowInv,
         \/ StopActiveWorkers \/ ReplaceLabels \/ RecordTransition
         \/ Terminal \/ Finish \/ SaveUnitResult
  PROVE  RowInv'
<1>1. PICK s \in {"stop", "labels", "record", "terminal", "finish", "unit"} :
        /\ At(s)
        /\ \/ Advance
           \/ s = "terminal" /\ op.mode = "replay" /\ op' = [op EXCEPT !.at = @ + 2]
        /\ pending' = pending /\ run' = run /\ code' = code
        /\ \/ invocation'.status # "superseded"
           \/ invocation'.status = invocation.status
  <2>0. invocation \in Invocation
    BY DEF TypeInv, TypeOK
  <2>1. CASE StopActiveWorkers
    BY <2>1 DEF StopActiveWorkers, store
  <2>2. CASE ReplaceLabels
    BY <2>2 DEF ReplaceLabels, store
  <2>3. CASE RecordTransition
    BY <2>3 DEF RecordTransition, external
  <2>4. CASE Terminal
    BY <2>0, <2>4 DEF Terminal, external, Advance, Replaying, Invocation
  <2>5. CASE Finish
    BY <2>5 DEF Finish, store
  <2>6. CASE SaveUnitResult
    BY <2>0, <2>6 DEF SaveUnitResult, external, Invocation
  <2> QED
    BY <2>1, <2>2, <2>3, <2>4, <2>5, <2>6
<1>2. OwnedBy(s, op.effect)
  BY <1>1, UnderWay
<1>3. Moves(op.effect)
  BY <1>2 DEF OwnedBy, Moves
<1> QED
  BY <1>1, <1>3, PlainMoves

\* A replay starts from the reserved revision, or finds its own stored.
LEMMA CheckRows ==
  ASSUME TypeInv, TypeInv', RowInv, Check
  PROVE  RowInv'
<1> DEFINE e == op.effect
<1>1. /\ At("check") /\ run' = run /\ pending' = pending /\ code' = code
      /\ invocation' = invocation
  BY DEF Check, store, external
<1>2. /\ op \in Operation /\ op.next \in Run /\ run \in Run /\ op'.next \in Run
  BY <1>1, Standing DEF TypeInv, TypeOK, OperationOK, Operation
<1>3. PICK c : /\ c = (IF /\ e.kind \in {"state_transition", "result_acceptance"}
                          /\ run.rev = op.next.rev /\ run.comment # 0
                         THEN run.comment ELSE op.next.comment)
               /\ op' = [op EXCEPT !.at = @ + 1, !.next.comment = c]
  BY <1>2 DEF Check, Operation, Run
<1>4. /\ op'.mode = op.mode /\ op'.effect = e /\ op'.base = op.base
      /\ op'.rejected = op.rejected /\ op'.at = op.at + 1
      /\ op'.next.comment = c /\ Agree(op'.next, op.next)
      /\ op'.next.checkpoint = op.next.checkpoint
      /\ op'.next.pull = op.next.pull
  BY <1>2, <1>3 DEF Operation, Run, Agree
<1>5. /\ Under /\ e \in Effect /\ Sound(e) /\ Stands(e, run) /\ OwnedBy("check", e)
      /\ Place = "check"
  BY <1>1, UnderWay, Standing
<1>6. Moves(e)
  BY <1>5 DEF OwnedBy
<1>7. c \in {op.next.comment, Final(e).comment}
  <2>1. op.next.rev = Final(e).rev
    BY <1>5, <1>6 DEF Under, MovesOn, Nearly, Agree
  <2>2. Final(e).rev = e.prev + 1 /\ e.prev \in Nat
    BY <1>5, <1>6, FinalRow
  <2>3. run.rev = op.next.rev => run = Final(e)
    BY <1>5, <1>6, <2>1, <2>2 DEF Stands, From
  <2> QED
    BY <1>3, <2>3
<1> QED
  BY <1>1, <1>2, <1>4, <1>6, <1>7, MovesGoOn

\* The comment is found or created, and its identity fills the row.
LEMMA CommentRows ==
  ASSUME TypeInv, TypeInv', RowInv, PostStatusComment
  PROVE  RowInv'
<1> DEFINE e == op.effect
<1>1. /\ At("comment") /\ run' = run /\ pending' = pending /\ code' = code
      /\ invocation' = invocation
  BY DEF PostStatusComment, store
<1>2. /\ op \in Operation /\ op.next \in Run /\ op'.next \in Run
  BY <1>1, Standing DEF TypeInv, TypeOK, OperationOK, Operation
<1>3. PICK c : /\ c = (IF e.create \/ op.next.comment = 0
                         THEN 1 ELSE op.next.comment)
               /\ op' = [op EXCEPT !.at = @ + 1,
                                   !.next = [op.next EXCEPT !.comment = c]]
  BY <1>2 DEF PostStatusComment, Run
<1>4. /\ op'.mode = op.mode /\ op'.effect = e /\ op'.base = op.base
      /\ op'.rejected = op.rejected /\ op'.at = op.at + 1
      /\ op'.next.comment = c /\ Agree(op'.next, op.next)
      /\ op'.next.checkpoint = op.next.checkpoint
      /\ op'.next.pull = op.next.pull
  BY <1>2, <1>3 DEF Operation, Run, Agree
<1>5. /\ Under /\ e \in Effect /\ Sound(e) /\ OwnedBy("comment", e)
      /\ Place = "comment"
  BY <1>1, UnderWay, Standing
<1>6. Moves(e)
  BY <1>5 DEF OwnedBy
<1>7. c = Final(e).comment
  <2>1. op.next.comment \in {e.next.comment, Final(e).comment}
    BY <1>5, <1>6 DEF Under, MovesOn, Nearly
  <2>2. /\ e.create => Final(e).comment = 1
        /\ ~e.create => Final(e).comment = e.next.comment
        /\ Final(e).comment # 0
    BY <1>5, FinalRow
  <2> QED
    BY <1>3, <2>1, <2>2
<1> QED
  BY <1>1, <1>2, <1>4, <1>6, <1>7, MovesGoOn

\* The save makes the stored row the final one, or finds it there.
LEMMA SavedRow ==
  ASSUME TypeInv, RowInv, SaveRun
  PROVE  Moves(op.effect) /\ run' = Final(op.effect)
<1> DEFINE e == op.effect
<1>1. /\ At("save") /\ run' = IF SaveNeeded THEN op.next ELSE run
  BY DEF SaveRun
<1>2. /\ Under /\ e \in Effect /\ Sound(e) /\ Stands(e, run) /\ OwnedBy("save", e)
      /\ Place = "save" /\ op.next \in Run /\ op.mode \in Modes
  BY <1>1, UnderWay, Standing
<1>3. Moves(e)
  BY <1>2 DEF OwnedBy
<1>4. MovesOn
  BY <1>2 DEF Under
<1>5. Nearly(op.next, e, op.mode, "save")
  BY <1>2, <1>3, <1>4 DEF MovesOn
<1>6. op.next.comment = Final(e).comment
  <2>1. CASE Early(op.mode, e)
    <3>1. ~e.create
      BY <1>2, <2>1 DEF Early, Sound
    <3>2. Final(e).comment = e.next.comment
      BY <1>2, <3>1, FinalRow
    <3> QED
      BY <1>5, <3>2 DEF Nearly
  <2>2. CASE ~Early(op.mode, e)
    BY <1>5, <2>2 DEF Nearly, CommentedAt
  <2> QED
    BY <2>1, <2>2
<1>7. op.next = Final(e)
  BY <1>2, <1>5, <1>6, NearlyFinal DEF MadeAt
<1>8. ~SaveNeeded => run = Final(e)
  <2> SUFFICES ASSUME ~SaveNeeded PROVE run = Final(e)
    OBVIOUS
  <2>1. op.mode = "replay" /\ ~(op.base.rev < op.next.rev)
    BY <1>2 DEF SaveNeeded, Modes
  <2>2. op.base = run
    BY <1>2, <1>3, <1>4, <2>1 DEF MovesOn, StoredAt, Early
  <2>3. Final(e).rev = e.prev + 1 /\ e.prev \in Nat
    BY <1>2, <1>3, FinalRow
  <2>4. ~From(e, run)
    BY <1>7, <2>1, <2>2, <2>3 DEF From
  <2> QED
    BY <1>2, <1>3, <2>4 DEF Stands
<1> QED
  BY <1>1, <1>3, <1>7, <1>8

LEMMA SaveRows ==
  ASSUME TypeInv, TypeInv', RowInv, SaveRun
  PROVE  RowInv'
<1>1. /\ At("save") /\ pending' = pending /\ code' = code /\ Advance
      /\ \/ invocation'.status = invocation.status
         \/ op.effect.invalidate
  BY DEF SaveRun, external
<1>2. /\ op \in Operation /\ op.next \in Run
  BY <1>1, Standing
<1>3. /\ op'.mode = op.mode /\ op'.effect = op.effect /\ op'.base = op.base
      /\ op'.next = op.next /\ op'.rejected = op.rejected
      /\ op'.at = op.at + 1
  BY <1>1, <1>2 DEF Advance, Operation
<1>4. Agree(op.next, op.next)
  BY DEF Agree
<1>5. Moves(op.effect) /\ run' = Final(op.effect)
  BY SavedRow
<1> QED
  BY <1>1, <1>2, <1>3, <1>4, <1>5, MovesGoOn

\* A commit that carries the marker is adopted, otherwise it is made.
LEMMA CheckpointRows ==
  ASSUME TypeInv, TypeInv', RowInv, CreateCheckpoint
  PROVE  RowInv'
<1> DEFINE e == op.effect
           head == IF code.head = e.target THEN code.head + 1 ELSE code.head
<1>1. /\ At("commit") /\ run' = run /\ pending' = pending
      /\ invocation' = invocation /\ code' = [code EXCEPT !.head = head]
      /\ op' = [op EXCEPT !.at = @ + 1, !.next.checkpoint = head]
  BY DEF CreateCheckpoint, store
<1>2. /\ op \in Operation /\ op.next \in Run /\ op'.next \in Run
  BY <1>1, Standing DEF TypeInv, TypeOK, OperationOK, Operation
<1>3. /\ Under /\ e \in Effect /\ Sound(e) /\ OwnedBy("commit", e)
      /\ HeadFits(e, run) /\ Place = "commit"
  BY <1>1, UnderWay, Standing
<1>4. e.kind = "checkpoint" /\ Moves(e)
  BY <1>3 DEF OwnedBy, Moves
<1>5. code'.head = e.target + 1 /\ head = e.target + 1
  <2>1. head = e.target + 1
    BY <1>3, <1>4 DEF HeadFits
  <2>2. code'.head = head
    BY <1>1 DEF TypeInv, TypeOK
  <2> QED
    BY <2>1, <2>2
<1> HIDE DEF head
<1>6. /\ op'.mode = op.mode /\ op'.effect = e /\ op'.base = op.base
      /\ op'.rejected = op.rejected /\ op'.at = op.at + 1
      /\ op'.next.comment = op.next.comment /\ Agree(op'.next, op.next)
      /\ op'.next.checkpoint = head /\ op'.next.pull = op.next.pull
  BY <1>1, <1>2 DEF Operation, Run, Agree
<1>7. Final(e).checkpoint = e.target + 1 /\ op.next.pull = Final(e).pull
  BY <1>3, <1>4, FinalRow DEF Under, MovesOn, Nearly
<1> QED
  BY <1>1, <1>2, <1>4, <1>5, <1>6, <1>7, MovesGoOn

\* The pull request of a published run is found or created.
LEMMA PullRows ==
  ASSUME TypeInv, TypeInv', RowInv, UpsertPullRequest
  PROVE  RowInv'
<1> DEFINE e == op.effect
<1>1. /\ At("upsert") /\ run' = run /\ pending' = pending
      /\ invocation' = invocation
  BY DEF UpsertPullRequest, store
<1>2. /\ op \in Operation /\ op.next \in Run /\ op'.next \in Run /\ run \in Run
  BY <1>1, Standing DEF TypeInv, TypeOK, OperationOK, Operation
<1>3. /\ Under /\ e \in Effect /\ e # NoEffect /\ Sound(e) /\ OwnedBy("upsert", e)
      /\ Place = "upsert"
  BY <1>1, UnderWay, Standing
<1>4. e.kind = "pull_request" /\ ~Marks(e) /\ (Moves(e) <=> e.persist)
  BY <1>3 DEF OwnedBy, Moves, Marks
<1>5. code'.head = code.head
  BY DEF UpsertPullRequest, TypeInv, TypeOK
<1>6. PICK q : /\ q = (IF e.persist THEN 1 ELSE op.next.pull)
               /\ op' = [op EXCEPT !.at = @ + 1,
                                   !.next = [op.next EXCEPT !.pull = q]]
  BY <1>2 DEF UpsertPullRequest, Operation, Run
<1>7. /\ op'.mode = op.mode /\ op'.effect = e /\ op'.base = op.base
      /\ op'.rejected = op.rejected /\ op'.at = op.at + 1
      /\ op'.next = [op.next EXCEPT !.pull = q]
  BY <1>2, <1>6 DEF Operation
<1>8. /\ op'.next.comment = op.next.comment /\ Agree(op'.next, op.next)
      /\ op'.next.checkpoint = op.next.checkpoint
      /\ op'.next.pull = q
  BY <1>2, <1>7 DEF Run, Agree
<1>9. CASE e.persist
  <2>1. Final(e).pull = 1 /\ op.next.checkpoint = Final(e).checkpoint
    BY <1>3, <1>4, <1>9, FinalRow DEF Under, MovesOn, Nearly
  <2> QED
    BY <1>1, <1>2, <1>4, <1>5, <1>6, <1>7, <1>8, <1>9, <2>1, MovesGoOn
<1>10. CASE ~e.persist
  <2>1. op'.next = op.next
    BY <1>2, <1>6, <1>7, <1>10 DEF Run
  <2>2. op.mode = "apply" => op.next = run
    BY <1>3, <1>4, <1>10 DEF Under, StaysOn
  <2>3. ComesAfter(Place', "upsert", op.mode, e)
    BY <1>1, <1>3, <1>7, ComesTo
  <2>4. Place' \notin {"reserve", "diagnose"}
    BY <2>3 DEF ComesAfter
  <2>5. SameButQuestion(run, run)
    BY <1>2 DEF SameButQuestion, Run
  <2>6. op.rejected => e.kind = "harness_resume"
    BY <1>3 DEF Under
  <2> QED
    BY <1>1, <1>2, <1>4, <1>7, <1>10, <2>1, <2>2, <2>4, <2>5, <2>6, StaysGoOn
<1> QED
  BY <1>9, <1>10

\* A watermark or its comment goes on.
LEMMA MarksGoOn ==
  ASSUME TypeInv, TypeInv', RowInv, NEW s \in {"watermark", "statusComment"},
         At(s), Advance, pending' = pending,
         \/ run' = op.effect.next
         \/ /\ op.mode = "replay" /\ PausedOver(op.effect, run')
            /\ run'.rev > op.effect.next.rev,
         op.base = run' \/ (From(op.effect, op.base) /\ run' = op.effect.next)
  PROVE  RowInv'
<1> DEFINE e == op.effect
<1>1. /\ Under /\ e \in Effect /\ e # NoEffect /\ pending = e /\ Sound(e)
      /\ OwnedBy(s, e) /\ op \in Operation /\ op.mode \in Modes
  BY UnderWay, Standing
<1>2. Marks(e) /\ ~Moves(e)
  BY <1>1 DEF OwnedBy, Marks, Moves
<1>3. /\ op'.mode = op.mode /\ op'.effect = e /\ op'.base = op.base
      /\ op'.rejected = op.rejected /\ op'.at = op.at + 1
      /\ op'.next = op.next
  BY <1>1 DEF Operation, Advance
<1>4. ComesAfter(Place', s, op.mode, e)
  BY <1>1, <1>3, ComesTo
<1>5. Place' \notin {"reserve", "diagnose", "watermark"}
  BY <1>2, <1>4 DEF ComesAfter
<1>6. op.next = e.next
  BY <1>1, <1>2 DEF Under, MarksOn
<1> HIDE DEF e
<1>7. MarksOn'
  BY <1>3, <1>5, <1>6 DEF MarksOn, e
<1>8. Under'
  BY <1>1, <1>2, <1>3, <1>7 DEF Under, MovesOn, StaysOn, e
<1>9. Stands(e, run')
  BY <1>2 DEF Stands, e
<1>10. Reserved'
  BY <1>1, <1>2, <1>9 DEF Reserved, HeadFits, NotSuperseded, Marks, e
<1> QED
  BY <1>1, <1>3, <1>5, <1>8, <1>10 DEF RowInv, Progress

\* A stored watermark is the reserved one, or a pause was stored over it.
LEMMA WatermarkRows ==
  ASSUME TypeInv, TypeInv', RowInv, SaveWatermark
  PROVE  RowInv'
<1> DEFINE e == op.effect
<1>1. /\ At("watermark") /\ ~WatermarkSuperseded /\ Advance /\ pending' = pending
      /\ run' = IF run.rev < op.next.rev THEN op.next ELSE run
  BY DEF SaveWatermark, external
<1>2. /\ Under /\ e \in Effect /\ Sound(e) /\ OwnedBy("watermark", e)
      /\ Stands(e, run) /\ op.mode \in Modes /\ Place = "watermark"
      /\ run \in Run
  BY <1>1, UnderWay, Standing
<1>3. Marks(e)
  BY <1>2 DEF OwnedBy
<1>4. /\ op.next = e.next /\ op.base = run
      /\ op.mode = "apply" => From(e, run)
      /\ From(e, run) \/ run = e.next \/ PausedOver(e, run)
  BY <1>2, <1>3 DEF Under, MarksOn, Stands
<1>5. e.next.rev = e.prev + 1 /\ e.prev \in Nat
  BY <1>2, <1>3, FinalRow
<1>6. run.rev \in Nat
  BY <1>2 DEF Run
<1>7. CASE run.rev < e.next.rev
  <2>1. From(e, run)
    BY <1>4, <1>5, <1>6, <1>7 DEF PausedOver
  <2> QED
    BY <1>1, <1>4, <1>7, <2>1, MarksGoOn
<1>8. CASE ~(run.rev < e.next.rev)
  <2>1. run.command = e.next.command /\ run' = run
    BY <1>1, <1>4, <1>8 DEF WatermarkSuperseded
  <2>2. ~From(e, run)
    BY <1>5, <1>8 DEF From
  <2>3. \/ run = e.next
        \/ op.mode = "replay" /\ PausedOver(e, run) /\ run.rev > e.next.rev
    BY <1>2, <1>4, <1>5, <1>6, <1>8, <2>1, <2>2 DEF PausedOver, Modes
  <2> QED
    BY <1>1, <1>4, <2>1, <2>3, MarksGoOn
<1> QED
  BY <1>7, <1>8

\* The comment that shows the watermark is edited.
LEMMA ShowMarkRows ==
  ASSUME TypeInv, TypeInv', RowInv, ApplyStatusComment
  PROVE  RowInv'
<1>1. /\ At("statusComment") /\ Advance /\ pending' = pending /\ run' = run
  BY DEF ApplyStatusComment, store
<1>2. /\ Under /\ OwnedBy("statusComment", op.effect) /\ Place = "statusComment"
  BY <1>1, UnderWay, Standing
<1>3. MarksOn /\ Marks(op.effect)
  BY <1>2 DEF Under, OwnedBy
<1> QED
  BY <1>1, <1>2, <1>3, MarksGoOn DEF MarksOn

\* The boundaries of an effect that leaves the row alone.
LEMMA StayingRows ==
  ASSUME TypeInv, TypeInv', RowInv,
         \/ FindOrCreateQuestion \/ PushOnce \/ CreateCommitStatus
         \/ StartWorker \/ Count \/ Resume \/ Session
  PROVE  RowInv'
<1> DEFINE e == op.effect
<1>1. PICK s \in {"question", "push", "status", "start", "count", "resume",
                  "session"} :
        /\ At(s) /\ run' = run /\ pending' = pending
        /\ \/ Advance
           \/ s = "resume" /\ op' = [op EXCEPT !.at = @ + 1, !.rejected = TRUE]
           \/ /\ s = "count" /\ Replaying
              /\ op' = [op EXCEPT !.at = @ + 3, !.ambiguous = TRUE]
  <2>1. CASE FindOrCreateQuestion
    BY <2>1 DEF FindOrCreateQuestion, store
  <2>2. CASE PushOnce
    BY <2>2 DEF PushOnce, store
  <2>3. CASE CreateCommitStatus
    BY <2>3 DEF CreateCommitStatus, store
  <2>4. CASE StartWorker
    BY <2>4 DEF StartWorker, store
  <2>5. CASE Count
    BY <2>5 DEF Count
  <2>6. CASE Resume
    BY <2>6 DEF Resume, store
  <2>7. CASE Session
    BY <2>7 DEF Session
  <2> QED
    BY <2>1, <2>2, <2>3, <2>4, <2>5, <2>6, <2>7
<1>2. /\ op \in Operation /\ Under /\ e \in Effect /\ Sound(e) /\ OwnedBy(s, e)
      /\ run \in Run /\ op.at \in DOMAIN Plan(op.mode, e) /\ op.at \in Nat
      /\ Plan(op.mode, e)[op.at] = s
  BY <1>1, UnderWay, Standing DEF At
<1>3. /\ ~Moves(e) /\ ~Marks(e)
      /\ s \in {"count", "resume", "session"} => e.kind = "harness_resume"
  BY <1>1, <1>2 DEF OwnedBy, Moves, Marks
<1>4. /\ op'.mode = op.mode /\ op'.effect = e /\ op'.base = op.base
      /\ op'.next = op.next
      /\ op'.rejected = op.rejected \/ s = "resume"
      /\ op'.at = op.at + 1 \/ (s = "count" /\ Replaying /\ op'.at = op.at + 3)
  BY <1>1, <1>2 DEF Operation, Advance
<1>5. Place' \notin {"reserve", "diagnose"}
  <2>1. CASE op'.at = op.at + 1
    <3>1. ComesAfter(Place', s, op.mode, e)
      BY <1>1, <1>2, <1>4, <2>1, ComesTo
    <3> QED
      BY <1>1, <3>1 DEF ComesAfter
  <2>2. CASE s = "count" /\ Replaying /\ op'.at = op.at + 3
    <3>1. Plan("replay", e)[op.at + 3] = "clear"
      BY <1>2, <1>3, <2>2, Jumps DEF Replaying
    <3> QED
      BY <1>4, <2>2, <3>1 DEF Place, Replaying
  <2> QED
    BY <1>4, <2>1, <2>2
<1>6. SameButQuestion(run, run)
  BY <1>2 DEF SameButQuestion, Run
<1>7. /\ op.mode = "apply" => op.next = run
      /\ op.rejected => e.kind = "harness_resume"
  BY <1>2, <1>3 DEF Under, StaysOn
<1> QED
  BY <1>1, <1>2, <1>3, <1>4, <1>5, <1>6, <1>7, StaysGoOn

\* The identity of the question comment is saved in the row.
LEMMA QuestionRows ==
  ASSUME TypeInv, TypeInv', RowInv, SaveQuestion
  PROVE  RowInv'
<1> DEFINE e == op.effect
           n == [run EXCEPT !.question = e.target]
<1>1. At("saveQuestion") /\ pending' = pending
  BY DEF SaveQuestion, external
<1>2. /\ op \in Operation /\ Under /\ e \in Effect /\ Sound(e)
      /\ OwnedBy("saveQuestion", e) /\ run \in Run /\ op.mode \in Modes
  BY <1>1, UnderWay, Standing
<1>3. ~Moves(e) /\ ~Marks(e) /\ e.kind = "clarification_comment"
  BY <1>2 DEF OwnedBy, Moves, Marks
<1>4. op.mode = "apply" => op.next = run
  BY <1>2, <1>3 DEF Under, StaysOn
<1>5. run' = n /\ op' = [op EXCEPT !.at = @ + 1, !.next = n]
  BY <1>2, <1>4 DEF SaveQuestion, Replaying, Modes
<1>6. run' \in Run
  BY DEF TypeInv, TypeOK
<1>7. SameButQuestion(run', run)
  BY <1>2, <1>5, <1>6 DEF SameButQuestion, Run
<1> HIDE DEF n
<1>8. /\ op'.mode = op.mode /\ op'.effect = e /\ op'.base = op.base
      /\ op'.next = run' /\ op'.rejected = op.rejected /\ op'.at = op.at + 1
  BY <1>2, <1>5 DEF Operation
<1>9. ComesAfter(Place', "saveQuestion", op.mode, e)
  BY <1>1, <1>2, <1>8, ComesTo
<1>10. Place' \notin {"reserve", "diagnose"}
  BY <1>9 DEF ComesAfter
<1>11. op.rejected => e.kind = "harness_resume"
  BY <1>2 DEF Under
<1> QED
  BY <1>1, <1>3, <1>6, <1>7, <1>8, <1>10, <1>11, StaysGoOn

\* What the stored row and the caller's row are when an effect is acknowledged.
LEMMA AtClear ==
  ASSUME TypeInv, RowInv, At("clear")
  PROVE  /\ Moves(op.effect) => run = Final(op.effect) /\ op.next = run
         /\ op.mode = "apply" => op.next = run
         /\ op.mode = "replay" /\ op.rejected => op.base = run
<1> DEFINE e == op.effect
<1>1. /\ Under /\ e \in Effect /\ Sound(e) /\ op.next \in Run /\ run \in Run
      /\ op.mode \in Modes /\ Place = "clear"
  BY UnderWay, Standing
<1>2. Moves(e) => run = Final(e) /\ op.next = run
  <2> SUFFICES ASSUME Moves(e) PROVE run = Final(e) /\ op.next = run
    OBVIOUS
  <2>1. MovesOn
    BY <1>1 DEF Under
  <2>2. run = Final(e)
    BY <1>1, <2>1 DEF MovesOn, StoredAt
  <2>3. Nearly(op.next, e, op.mode, "clear")
    BY <1>1, <2>1 DEF MovesOn
  <2>4. op.next.comment = Final(e).comment
    BY <2>3 DEF Nearly, CommentedAt
  <2> QED
    BY <1>1, <2>2, <2>3, <2>4, NearlyFinal DEF MadeAt
<1>3. op.mode = "apply" => op.next = run
  BY <1>1, <1>2 DEF Under, MarksOn, StaysOn
<1>4. op.mode = "replay" /\ op.rejected => op.base = run
  BY <1>1 DEF Under, StaysOn, Moves, Marks
<1> QED
  BY <1>2, <1>3, <1>4

\* An acknowledged effect leaves the caller with the stored row.
LEMMA ClearRows ==
  ASSUME TypeInv, TypeInv', RowInv, Clear
  PROVE  RowInv'
<1> DEFINE e == op.effect
<1>1. At("clear") /\ pending' = NoEffect /\ run' = run
  BY DEF Clear, store
<1>2. /\ op \in Operation /\ op.mode \in Modes /\ e \in Effect /\ Sound(e)
  BY <1>1, UnderWay, Standing
<1>3. CASE op.mode = "apply"
  <2>1. op' = Idle(run')
    BY <1>1, <1>3, AtClear DEF Clear, Replaying
  <2> QED
    BY <1>1, <2>1, EndsEmpty
<1>4. CASE op.mode = "replay" /\ op.rejected
  <2>1. op' \in {Idle(run'), Parking(run')}
    BY <1>1, <1>4, AtClear DEF Clear, Replaying
  <2> QED
    BY <1>1, <2>1, EndsEmpty
<1>5. CASE op.mode = "replay" /\ ~op.rejected
  <2>1. op' = [op EXCEPT !.at = @ + 1]
    BY <1>5 DEF Clear, Replaying
  <2>2. /\ op'.mode = op.mode /\ op'.effect = e /\ op'.next = op.next
        /\ op'.at = op.at + 1
    BY <1>2, <2>1 DEF Operation
  <2>3. ComesAfter(Place', "clear", op.mode, e)
    BY <1>1, <1>2, <1>5, <2>2, ComesTo
  <2>4. Place' = "diagnose"
    BY <2>3 DEF ComesAfter
  <2>5. Compared'
    BY <1>1, <2>2, AtClear DEF Compared
  <2> QED
    BY <1>1, <1>2, <2>2, <2>4, <2>5 DEF RowInv, Reserved, Progress
<1> QED
  BY <1>2, <1>3, <1>4, <1>5 DEF Modes

-----------------------------------------------------------------------------
(* Rows and reservations: comparisons, pauses and interruptions *)

\* A comparison hands its caller the stored row.
LEMMA DiagnoseRows ==
  ASSUME TypeInv, RowInv, Diagnose
  PROVE  Returned = run /\ RowInv'
<1>1. At("diagnose") /\ pending' = pending /\ run' = run
  BY DEF Diagnose, store
<1>2. Place = "diagnose" /\ op.mode \in Modes
  BY <1>1, Standing
<1>3. Compared
  BY <1>2 DEF RowInv, Progress
<1>4. Returned = run
  BY <1>3 DEF Compared, Returned, Moves
<1>5. op' \in {Idle(run'), Pausing(run', LabelOrCommentDrift(run))}
  BY <1>1, <1>4 DEF Diagnose
<1> QED
  BY <1>1, <1>3, <1>4, <1>5, EndsEmpty DEF Compared

\* A pause over an acknowledged run is an ordinary transition or a plain save.
LEMMA PauseRows ==
  ASSUME TypeInv, RowInv, PauseForRecovery
  PROVE  RowInv'
<1> DEFINE n == ReconciliationPause(run)
<1>1. /\ op.mode = "pause" /\ pending' = pending /\ code' = code
      /\ invocation' = invocation
  BY DEF PauseForRecovery
<1>2. pending = NoEffect /\ op.base = run
  BY <1>1 DEF RowInv, Progress, Holding, Modes
<1>3. \/ op' = Idle(run) /\ run' = run
      \/ op' = Apply(Transition(run, Bumped(n)), run) /\ run' = run /\ run.comment # 0
      \/ op' = Idle(run')
  BY <1>2 DEF PauseForRecovery
<1>4. CASE op' = Idle(run')
  BY <1>1, <1>2, <1>4, EndsEmpty
<1>5. CASE op' = Apply(Transition(run, Bumped(n)), run) /\ run' = run /\ run.comment # 0
  <2>0. run \in Run
    BY DEF TypeInv, TypeOK
  <2>1. /\ n \in Run /\ n.rev = run.rev /\ n.checkpoint = run.checkpoint
        /\ n.pull = run.pull /\ n.comment = run.comment /\ n.packet = run.packet
    BY <2>0 DEF ReconciliationPause, Run, RunStatuses, Reasons
  <2>2. PICK b : b = Bumped(n)
    OBVIOUS
  <2> HIDE DEF n
  <2>3. /\ b \in Run /\ b.rev = run.rev + 1 /\ b.checkpoint = run.checkpoint
        /\ b.pull = run.pull /\ b.comment = run.comment /\ b.packet = run.packet
    BY <2>1, <2>2, NextRevision
  <2>4. PICK e : e = Transition(run, b)
    OBVIOUS
  <2>5. /\ e.kind = "state_transition" /\ e.next = b /\ e.prev = run.rev
        /\ ~e.create /\ ~e.invalidate /\ ~e.before
    BY <2>4 DEF Transition, NewEffect
  <2>6. e \in Effect
    BY <2>0, <2>3, <2>4, TransitionType
  <2>7. /\ Sound(e) /\ From(e, run) /\ HeadFits(e, run) /\ NotSuperseded(e)
        /\ Moves(e)
    BY <1>5, <2>0, <2>3, <2>5, MovedRun DEF Moves
  <2> QED
    BY <1>1, <1>5, <2>2, <2>4, <2>6, <2>7, ApplyFresh
<1> QED
  BY <1>3, <1>4, <1>5

\* So is parking a run whose native resume was refused.
LEMMA ParkRows ==
  ASSUME TypeInv, RowInv, PauseForHarness
  PROVE  RowInv'
<1>1. /\ op.mode = "park" /\ pending' = pending /\ code' = code
      /\ invocation' = invocation
  BY DEF PauseForHarness
<1>2. pending = NoEffect /\ op.base = run
  BY <1>1 DEF RowInv, Progress, Holding, Modes
<1>3. PICK s \in {"waiting_for_harness", "waiting_for_human"} :
        \/ op' = Idle(run')
        \/ /\ op' = Apply(Transition(run, [Bumped(run) EXCEPT !.status = s,
                                             !.reason = "harness"]), run)
           /\ run' = run /\ run.comment # 0
  BY <1>2 DEF PauseForHarness
<1>4. CASE op' = Idle(run')
  BY <1>1, <1>2, <1>4, EndsEmpty
<1>5. CASE /\ op' = Apply(Transition(run, [Bumped(run) EXCEPT !.status = s,
                                             !.reason = "harness"]), run)
           /\ run' = run /\ run.comment # 0
  <2>0. run \in Run
    BY DEF TypeInv, TypeOK
  <2>1. PICK b : b = Bumped(run)
    OBVIOUS
  <2>2. /\ b \in Run /\ b.rev = run.rev + 1 /\ b.checkpoint = run.checkpoint
        /\ b.pull = run.pull /\ b.comment = run.comment /\ b.packet = run.packet
    BY <2>0, <2>1, NextRevision
  <2>3. PICK n : n = [b EXCEPT !.status = s, !.reason = "harness"]
    OBVIOUS
  <2>4. /\ n \in Run /\ n.rev = run.rev + 1 /\ n.checkpoint = run.checkpoint
        /\ n.pull = run.pull /\ n.comment = run.comment /\ n.packet = run.packet
    BY <2>2, <2>3 DEF Run, RunStatuses, Reasons
  <2>5. PICK e : e = Transition(run, n)
    OBVIOUS
  <2>6. /\ e.kind = "state_transition" /\ e.next = n /\ e.prev = run.rev
        /\ ~e.create /\ ~e.invalidate /\ ~e.before
    BY <2>5 DEF Transition, NewEffect
  <2>7. e \in Effect
    BY <2>0, <2>4, <2>5, TransitionType
  <2>8. /\ Sound(e) /\ From(e, run) /\ HeadFits(e, run) /\ NotSuperseded(e)
        /\ Moves(e)
    BY <1>5, <2>0, <2>4, <2>6, MovedRun DEF Moves
  <2> QED
    BY <1>1, <1>5, <2>1, <2>3, <2>5, <2>7, <2>8, ApplyFresh
<1> QED
  BY <1>3, <1>4, <1>5

\* A replay has no boundary that reserves.
LEMMA NoReplayReserves ==
  ASSUME NEW e \in Effect \cup {NoEffect}, NEW i \in DOMAIN Plan("replay", e)
  PROVE  Plan("replay", e)[i] # "reserve"
<1>0. CASE e = NoEffect
  BY <1>0 DEF Plan, ReplayPlan, NoEffect
<1>1. CASE e.kind \in {"state_transition", "status_comment",
                       "clarification_comment", "commit_status", "push"}
  BY <1>1 DEF Plan, ReplayPlan, Effect, NoEffect
<1>2. CASE e.kind \in {"checkpoint", "pull_request", "worker_launch",
                       "harness_resume", "result_acceptance"}
  BY <1>2 DEF Plan, ReplayPlan, Effect, NoEffect
<1> QED
  BY <1>0, <1>1, <1>2 DEF Effect, EffectKinds

\* A replay that fails is not the replay of a move: a refusal never, an error
\* of a host by assumption.
LEMMA FailingReplay ==
  ASSUME TypeInv, RowInv, MovesFailByTimeout, ReplayRefused \/ ReplayFails
  PROVE  /\ pending = op.effect /\ pending # NoEffect /\ ~Moves(op.effect)
         /\ PauseRunLocally
         /\ \E s : At(s) /\ s \notin {"reserve", "diagnose"}
         /\ Under /\ op.mode = "replay"
<1>1. Replaying /\ PauseRunLocally
  BY DEF ReplayRefused, ReplayFails
<1>2. ~At("reserve")
  BY <1>1, Standing, NoReplayReserves DEF Replaying, At
<1>3. PICK s : At(s) /\ s \notin {"reserve", "diagnose"}
  <2>1. CASE ReplayRefused
    BY <1>2, <2>1 DEF ReplayRefused, StepRefused, SaveRefused
  <2>2. CASE ReplayFails
    BY <2>2 DEF ReplayFails, ExternalSteps
  <2> QED
    BY <2>1, <2>2
<1>4. Under /\ pending = op.effect /\ pending # NoEffect
  BY <1>3, UnderWay
<1>5. ~Moves(op.effect)
  <2>1. CASE ReplayRefused
    BY <1>1, <2>1, NotRefused DEF ReplayRefused
  <2>2. CASE ReplayFails
    BY <1>4, <2>2 DEF ReplayFails, MovesFailByTimeout, Moves
  <2> QED
    BY <2>1, <2>2
<1> QED
  BY <1>1, <1>3, <1>4, <1>5 DEF Replaying

\* The invariant speaks of nothing else.
LEMMA RowsUnchanged ==
  ASSUME RowInv, UNCHANGED <<run, pending, op, code, invocation>>
  PROVE  RowInv'
<1>1. Place' = Place
  BY DEF Place
<1>2. Reserved'
  BY DEF RowInv, Reserved, HeadFits, NotSuperseded
<1>3. /\ MovesOn' <=> MovesOn
      /\ MarksOn' <=> MarksOn
      /\ StaysOn' <=> StaysOn
  BY <1>1 DEF MovesOn, MarksOn, StaysOn
<1>4. /\ Under' <=> Under
      /\ Holding' <=> Holding
      /\ Compared' <=> Compared
      /\ Fresh' <=> Fresh
  BY <1>3 DEF Under, Holding, Compared, Fresh, HeadFits, NotSuperseded
<1> QED
  BY <1>1, <1>2, <1>4 DEF RowInv, Progress

\* A pass starts over the stored row.
LEMMA PassRows ==
  ASSUME TypeInv, RowInv, StartReplay \/ StartReconcile
  PROVE  RowInv'
<1>1. /\ op' = Reconciling(pending, run) /\ run' = run /\ pending' = pending
      /\ code' = code /\ invocation' = invocation
      /\ run \in Run /\ pending \in Effect \cup {NoEffect}
  BY DEF StartReplay, StartReconcile, store, external, TypeInv, TypeOK
<1>2. /\ op'.mode = "replay" /\ op'.effect = pending /\ op'.at = 1
      /\ op'.base = run /\ ~op'.rejected
      /\ op'.next = IF pending = NoEffect THEN run ELSE pending.next
  BY <1>1 DEF Reconciling
<1>3. Reserved'
  BY <1>1, KeepsReserved
<1>4. CASE pending = NoEffect
  <2>1. Place' = "diagnose"
    BY <1>2, <1>4, FirstBoundary DEF Place
  <2>2. ~Moves(NoEffect)
    BY DEF Moves, NoEffect
  <2> QED
    BY <1>1, <1>2, <1>3, <1>4, <2>1, <2>2 DEF RowInv, Progress, Compared, Modes
<1>5. CASE pending # NoEffect
  <2> DEFINE e == pending
             p == Place'
  <2>1. /\ e \in Effect /\ Sound(e) /\ Stands(e, run) /\ HeadFits(e, run)
    BY <1>1, <1>5 DEF RowInv, Reserved
  <2>2. /\ p \notin {"reserve", "diagnose", "labels", "comment", "save",
                      "record", "clear", "statusComment"}
        /\ Marks(e) => p = "watermark"
    BY <1>2, <1>5, <2>1, FirstBoundary DEF Place
  <2>3. /\ Agree(e.next, Final(e))
        /\ e.kind # "checkpoint" => e.next.checkpoint = Final(e).checkpoint
        /\ e.kind # "pull_request" => e.next.pull = Final(e).pull
    BY <2>1, FinalRow DEF Agree
  <2> HIDE DEF Final, e, p
  <2>4. Nearly(e.next, e, "replay", p)
    BY <2>2, <2>3 DEF Nearly, CommentedAt, MadeAt, Early
  <2>5. MovesOn'
    BY <1>1, <1>2, <1>5, <2>2, <2>4 DEF MovesOn, MadeAt, StoredAt, Early, e, p
  <2>6. MarksOn'
    BY <1>1, <1>2, <1>5, <2>2 DEF MarksOn, e, p
  <2>7. StaysOn'
    <3>1. SameButQuestion(run, run)
      BY <1>1 DEF SameButQuestion, Run
    <3> QED
      BY <1>1, <1>2, <3>1 DEF StaysOn
  <2>8. Under'
    BY <1>1, <1>2, <2>5, <2>6, <2>7 DEF Under
  <2> QED
    BY <1>2, <1>3, <2>2, <2>8 DEF RowInv, Progress, Modes, p
<1> QED
  BY <1>4, <1>5

-----------------------------------------------------------------------------
(* What the issue and the code host show: boundaries *)

\* The operation leaves boundary s for the next one, or jumps.
GoesTo(s) ==
  /\ op'.mode = op.mode /\ op'.effect = op.effect /\ op'.base = op.base
  /\ \/ op'.at = op.at + 1
     \/ s = "terminal" /\ op.mode = "replay" /\ op'.at = op.at + 2
     \/ s = "count" /\ op.mode = "replay" /\ op'.at = op.at + 3

LEMMA GoesOn ==
  ASSUME TypeInv, TypeInv', NEW s, At(s), s # "diagnose",
         op.mode = "apply" => s # "clear",
         op.effect \in Effect, Sound(op.effect), GoesTo(s)
  PROVE  /\ op'.mode \in Modes /\ Place' # "reserve"
         /\ Place' = "diagnose" => s = "clear"
         /\ Moves(op.effect) =>
              /\ Place' \in LabelledAt(op.mode, op.effect)
                   => s \in LabelledAt(op.mode, op.effect) \cup {"labels"}
              /\ Place' \in CommentedAt(op.mode, op.effect)
                   => s \in CommentedAt(op.mode, op.effect) \cup {"comment"}
              /\ op.effect.kind = "pull_request" /\ Place' \in MadeAt
                   => s \in MadeAt \cup {"upsert"}
         /\ Marks(op.effect) /\ Place' = "clear" => s = "statusComment"
<1> DEFINE e == op.effect
<1>1. /\ op.mode \in Modes /\ op.at \in Nat /\ op.at \in DOMAIN Plan(op.mode, e)
      /\ Plan(op.mode, e)[op.at] = s
  BY Standing DEF At
<1>2. e.before => e.kind = "state_transition"
  BY DEF Sound
<1>3. s # "diagnose" => OwnedBy(s, e)
  BY <1>1, <1>2, PlanFollows, Standing
<1>4. CASE op'.at = op.at + 1
  <2>1. ComesAfter(Place', s, op.mode, e)
    BY <1>4, ComesTo DEF GoesTo
  <2> QED
    BY <1>1, <2>1 DEF ComesAfter, GoesTo
<1>5. CASE s = "terminal" /\ op.mode = "replay" /\ op'.at = op.at + 2
  <2>1. e.kind = "result_acceptance"
    BY <1>3, <1>5 DEF OwnedBy
  <2>2. Plan("replay", e)[op.at + 2] = "stop"
    BY <1>1, <1>5, <2>1, Jumps
  <2>3. Place' = "stop"
    BY <1>5, <2>2 DEF Place, GoesTo
  <2> QED
    BY <1>1, <2>1, <2>3 DEF GoesTo, LabelledAt, CommentedAt, MadeAt, Marks
<1>6. CASE s = "count" /\ op.mode = "replay" /\ op'.at = op.at + 3
  <2>1. e.kind = "harness_resume"
    BY <1>3, <1>6 DEF OwnedBy
  <2>2. Plan("replay", e)[op.at + 3] = "clear"
    BY <1>1, <1>6, <2>1, Jumps
  <2>3. Place' = "clear"
    BY <1>6, <2>2 DEF Place, GoesTo
  <2> QED
    BY <1>1, <2>1, <2>3 DEF GoesTo, Marks, Moves
<1> QED
  BY <1>4, <1>5, <1>6 DEF GoesTo

\* A boundary that leaves the revision and the comment alone.
LEMMA CommentStays ==
  ASSUME TypeInv, TypeInv', RowInv, CommentKnown, NEW s, At(s),
         s \notin {"reserve", "diagnose", "clear"}, GoesTo(s),
         pending' = pending, run'.rev = run.rev, run'.comment = run.comment,
         issue'.comments = issue.comments \/ issue'.comments # 0
  PROVE  CommentKnown'
<1>1. /\ pending = op.effect /\ pending # NoEffect /\ op.effect \in Effect
      /\ Sound(op.effect)
  BY UnderWay
<1>2. Place' \notin {"reserve", "diagnose"} /\ op'.mode \in Modes
  BY <1>1, GoesOn
<1>3. Working
  BY Standing DEF Working
<1> QED
  BY <1>1, <1>2, <1>3 DEF CommentKnown, GoesTo, Working, Modes

\* A boundary that leaves the issue alone, and the row or what it shows of it.
LEMMA IssueStays ==
  ASSUME TypeInv, TypeInv', RowInv, IssueShows, NEW s, At(s),
         s \notin {"reserve", "diagnose", "clear", "labels", "comment",
                   "statusComment"}, GoesTo(s),
         pending' = pending, issue'.label = issue.label,
         issue'.body = issue.body, issue'.comments = issue.comments,
         \/ Moves(op.effect)
         \/ /\ run'.rev = run.rev /\ run'.status = run.status
            /\ run'.reason = run.reason /\ run'.command = run.command
            /\ run'.checkpoint = run.checkpoint /\ run'.pull = run.pull
  PROVE  IssueShows'
<1> DEFINE e == op.effect
<1>1. /\ pending = e /\ e \in Effect /\ Sound(e)
  BY UnderWay
<1>2. /\ op'.mode = op.mode /\ e' = e
      /\ Moves(e) =>
           /\ Place' \in LabelledAt(op.mode, e) => s \in LabelledAt(op.mode, e)
           /\ Place' \in CommentedAt(op.mode, e) => s \in CommentedAt(op.mode, e)
      /\ Marks(e) => Place' # "clear"
  BY <1>1, GoesOn DEF GoesTo
<1>3. Working /\ Place = s
  BY Standing DEF Working
<1> HIDE DEF e
<1>4. ~Moves(pending) =>
        \/ IsRestartReconciliationPause(run') \/ run'.rev = 0
        \/ /\ LabelShows(run)' /\ (BodyShows(run)' \/ Marks(pending))
  <2> SUFFICES ASSUME ~Moves(pending)
               PROVE  \/ IsRestartReconciliationPause(run') \/ run'.rev = 0
                      \/ /\ LabelShows(run)' /\ (BodyShows(run)' \/ Marks(pending))
    OBVIOUS
  <2>1. /\ run'.rev = run.rev /\ run'.status = run.status
        /\ run'.reason = run.reason /\ run'.command = run.command
        /\ run'.checkpoint = run.checkpoint /\ run'.pull = run.pull
    BY <1>1 DEF e
  <2>2. \/ IsRestartReconciliationPause(run) \/ run.rev = 0
        \/ LabelShows(run) /\ (BodyShows(run) \/ Marks(pending))
    BY DEF IssueShows
  <2>3. StatusCommentBody(run)' = StatusCommentBody(run)
    BY <2>1 DEF StatusCommentBody
  <2> QED
    BY <2>1, <2>2, <2>3 DEF IsRestartReconciliationPause, LabelShows, BodyShows
<1>5. Moves(e) =>
        /\ Place' \in LabelledAt(op.mode, e) => LabelShows(e.next)'
        /\ Place' \in CommentedAt(op.mode, e) =>
             issue'.comments # 0 /\ BodyShows(Final(e))'
  BY <1>2, <1>3 DEF IssueShows, LabelShows, BodyShows, e
<1> QED
  BY <1>2, <1>4, <1>5 DEF IssueShows, e

\* A boundary that touches neither HEAD nor the pull request.
LEMMA CodeStays ==
  ASSUME TypeInv, TypeInv', RowInv, CodeShows, NEW s, At(s),
         s \notin {"reserve", "diagnose", "clear", "upsert"}, GoesTo(s),
         pending' = pending, code'.head = code.head, code'.pulls = code.pulls,
         run'.rev = run.rev, run'.checkpoint = run.checkpoint,
         run'.pull = run.pull
  PROVE  CodeShows'
<1>1. op.effect \in Effect /\ Sound(op.effect)
  BY UnderWay
<1>2. /\ op'.effect = op.effect
      /\ op.effect.kind = "pull_request" /\ op.effect.persist
           /\ Place' \in MadeAt => s \in MadeAt
  BY <1>1, GoesOn DEF GoesTo, Moves
<1>3. Working /\ Place = s
  BY Standing DEF Working
<1> QED
  BY <1>2, <1>3 DEF CodeShows

\* The boundaries that show nothing new.
LEMMA QuietShows ==
  ASSUME TypeInv, TypeInv', RowInv, CommentKnown, IssueShows, CodeShows,
         \/ Check \/ StopActiveWorkers \/ RecordTransition \/ Terminal
         \/ Finish \/ SaveUnitResult \/ FindOrCreateQuestion \/ PushOnce
         \/ CreateCommitStatus \/ StartWorker \/ Count \/ Resume \/ Session
         \/ SaveQuestion
  PROVE  CommentKnown' /\ IssueShows' /\ CodeShows'
<1>0. /\ op \in Operation
      /\ issue \in [label : FactoryLabels, comments : Nat, body : Body,
                    questions : [1 .. MaxCount -> Nat]]
      /\ code \in [head : Nat, remote : Nat, pulls : Nat,
                   statuses : [0 .. MaxCount -> Nat]]
  BY DEF TypeInv, TypeOK, OperationOK
<1>1. PICK s \in {"check", "stop", "record", "terminal", "finish", "unit",
                  "question", "push", "status", "start", "count", "resume",
                  "session", "saveQuestion"} :
        At(s) /\ GoesTo(s) /\ pending' = pending
  <2>1. CASE Check
    BY <1>0, <2>1 DEF Check, GoesTo, Operation
  <2>2. CASE StopActiveWorkers
    BY <1>0, <2>2 DEF StopActiveWorkers, GoesTo, Operation, Advance
  <2>3. CASE RecordTransition
    BY <1>0, <2>3 DEF RecordTransition, GoesTo, Operation, Advance
  <2>4. CASE Terminal
    BY <1>0, <2>4 DEF Terminal, GoesTo, Operation, Replaying
  <2>5. CASE Finish
    BY <1>0, <2>5 DEF Finish, GoesTo, Operation, Advance
  <2>6. CASE SaveUnitResult
    BY <1>0, <2>6 DEF SaveUnitResult, GoesTo, Operation, Advance
  <2>7. CASE FindOrCreateQuestion
    BY <1>0, <2>7 DEF FindOrCreateQuestion, GoesTo, Operation, Advance
  <2>8. CASE PushOnce
    BY <1>0, <2>8 DEF PushOnce, GoesTo, Operation, Advance
  <2>9. CASE CreateCommitStatus
    BY <1>0, <2>9 DEF CreateCommitStatus, GoesTo, Operation, Advance
  <2>10. CASE StartWorker
    BY <1>0, <2>10 DEF StartWorker, GoesTo, Operation, Advance
  <2>11. CASE Count
    BY <1>0, <2>11 DEF Count, GoesTo, Operation, Advance, Replaying
  <2>12. CASE Resume
    BY <1>0, <2>12 DEF Resume, GoesTo, Operation, Advance
  <2>13. CASE Session
    BY <1>0, <2>13 DEF Session, GoesTo, Operation, Advance
  <2>14. CASE SaveQuestion
    BY <1>0, <2>14 DEF SaveQuestion, GoesTo, Operation
  <2> QED
    BY <2>1, <2>2, <2>3, <2>4, <2>5, <2>6, <2>7, <2>8, <2>9, <2>10, <2>11,
       <2>12, <2>13, <2>14
<1>2. /\ run'.rev = run.rev /\ run'.status = run.status
      /\ run'.reason = run.reason /\ run'.command = run.command
      /\ run'.comment = run.comment
      /\ run'.checkpoint = run.checkpoint /\ run'.pull = run.pull
  <2>1. CASE SaveQuestion
    <3>1. /\ At("saveQuestion") /\ run \in Run /\ Under /\ op.mode \in Modes
          /\ OwnedBy("saveQuestion", op.effect)
      BY <2>1, Standing, UnderWay DEF SaveQuestion
    <3>2. op.mode = "apply" => op.next = run
      BY <3>1 DEF Under, StaysOn, OwnedBy, Moves, Marks
    <3>3. run' = [run EXCEPT !.question = op.effect.target]
      BY <2>1, <3>1, <3>2 DEF SaveQuestion, Replaying, Modes
    <3> QED
      BY <3>1, <3>3 DEF Run
  <2>2. CASE ~SaveQuestion
    BY <2>2 DEF Check, StopActiveWorkers, RecordTransition, Terminal, Finish,
       SaveUnitResult, FindOrCreateQuestion, PushOnce, CreateCommitStatus,
       StartWorker, Count, Resume, Session, store
  <2> QED
    BY <2>1, <2>2
<1>3. /\ issue'.label = issue.label /\ issue'.body = issue.body
      /\ issue'.comments = issue.comments
  <2>1. CASE FindOrCreateQuestion
    BY <1>0, <2>1 DEF FindOrCreateQuestion
  <2>2. CASE ~FindOrCreateQuestion
    BY <2>2 DEF Check, StopActiveWorkers, RecordTransition, Terminal, Finish,
       SaveUnitResult, PushOnce, CreateCommitStatus, StartWorker, Count,
       Resume, Session, SaveQuestion, external
  <2> QED
    BY <2>1, <2>2
<1>4. code'.head = code.head /\ code'.pulls = code.pulls
  <2>1. CASE PushOnce
    BY <1>0, <2>1 DEF PushOnce
  <2>2. CASE CreateCommitStatus
    BY <1>0, <2>2 DEF CreateCommitStatus
  <2>3. CASE ~PushOnce /\ ~CreateCommitStatus
    BY <2>3 DEF Check, StopActiveWorkers, RecordTransition, Terminal, Finish,
       SaveUnitResult, FindOrCreateQuestion, StartWorker, Count, Resume,
       Session, SaveQuestion, external
  <2> QED
    BY <2>1, <2>2, <2>3
<1> QED
  BY <1>1, <1>2, <1>3, <1>4, CommentStays, IssueStays, CodeStays

\* The label of the row the effect leads to.
LEMMA LabelsShow ==
  ASSUME TypeInv, TypeInv', RowInv, CommentKnown, IssueShows, CodeShows,
         ReplaceLabels
  PROVE  CommentKnown' /\ IssueShows' /\ CodeShows'
<1> DEFINE e == op.effect
<1>0. /\ op \in Operation
      /\ issue \in [label : FactoryLabels, comments : Nat, body : Body,
                    questions : [1 .. MaxCount -> Nat]]
  BY DEF TypeInv, TypeOK, OperationOK
<1>1. /\ At("labels") /\ GoesTo("labels") /\ pending' = pending /\ run' = run
      /\ code' = code
  BY <1>0 DEF ReplaceLabels, GoesTo, Operation, Advance, store
<1>2. /\ issue'.label = FactoryLabelForStatus(op.next.status)
      /\ issue'.body = issue.body /\ issue'.comments = issue.comments
  BY <1>0 DEF ReplaceLabels
<1>3. /\ Under /\ pending = e /\ e \in Effect /\ Sound(e) /\ Place = "labels"
      /\ OwnedBy("labels", e)
  BY <1>1, UnderWay, Standing
<1>4. Moves(e) /\ ~Marks(e)
  BY <1>3 DEF OwnedBy, Moves, Marks
<1>5. op.next.status = e.next.status
  BY <1>3, <1>4, FinalRow DEF Under, MovesOn, Nearly, Agree
<1>6. Place' \notin CommentedAt(op.mode, e)
  BY <1>1, <1>3, <1>4, GoesOn DEF CommentedAt
<1>7. LabelShows(e.next)'
  BY <1>1, <1>2, <1>5 DEF LabelShows, GoesTo
<1>8. IssueShows'
  BY <1>1, <1>3, <1>4, <1>6, <1>7 DEF IssueShows, GoesTo
<1> QED
  BY <1>1, <1>2, <1>8, CommentStays, CodeStays

\* The comment shows the final row: nothing it shows changes any more.
LEMMA CommentShows ==
  ASSUME TypeInv, TypeInv', RowInv, CommentKnown, IssueShows, CodeShows,
         PostStatusComment
  PROVE  CommentKnown' /\ IssueShows' /\ CodeShows'
<1> DEFINE e == op.effect
<1>0. /\ op \in Operation /\ op.next \in Run
      /\ issue \in [label : FactoryLabels, comments : Nat, body : Body,
                    questions : [1 .. MaxCount -> Nat]]
  BY DEF TypeInv, TypeOK, OperationOK, Operation
<1>1. /\ At("comment") /\ GoesTo("comment") /\ pending' = pending /\ run' = run
      /\ code' = code
  BY <1>0 DEF PostStatusComment, GoesTo, Operation, store
<1>2. PICK c, k :
        /\ issue' = [issue EXCEPT !.comments = k,
             !.body = StatusCommentBody([op.next EXCEPT !.comment = c])]
        /\ k = IF e.create /\ ~(issue.comments > 0)
                 THEN issue.comments + 1 ELSE issue.comments
  BY <1>0 DEF PostStatusComment, Run
<1>3. /\ Under /\ pending = e /\ e \in Effect /\ e # NoEffect /\ Sound(e)
      /\ Place = "comment" /\ OwnedBy("comment", e) /\ op.mode \in Modes
  BY <1>1, UnderWay, Standing
<1>4. Moves(e) /\ ~Marks(e)
  BY <1>3 DEF OwnedBy, Moves, Marks
<1>5. k # 0
  BY <1>0, <1>2, <1>3 DEF CommentKnown
<1>6. Nearly(op.next, e, op.mode, "comment")
  BY <1>3, <1>4 DEF Under, MovesOn
<1>7. /\ op.next.status = Final(e).status /\ op.next.reason = Final(e).reason
      /\ op.next.command = Final(e).command
      /\ op.next.checkpoint = Final(e).checkpoint
      /\ op.next.pull = Final(e).pull
  BY <1>6 DEF Nearly, Agree, MadeAt
<1> HIDE DEF Final
<1>8. StatusCommentBody([op.next EXCEPT !.comment = c])
        = StatusCommentBody(Final(e))
  BY <1>0, <1>7 DEF StatusCommentBody, Run
<1>9. /\ issue'.label = issue.label /\ issue'.comments = k
      /\ issue'.body = StatusCommentBody(Final(e))
  BY <1>0, <1>2, <1>8
<1>10. BodyShows(Final(e))'
  BY <1>1, <1>9 DEF BodyShows, GoesTo
<1>11. Place' \in LabelledAt(op.mode, e) => LabelShows(e.next)'
  <2>1. Working
    BY <1>3 DEF Working
  <2>2. Place \in LabelledAt(op.mode, e)
    BY <1>3 DEF LabelledAt
  <2> QED
    BY <1>1, <1>4, <1>9, <2>1, <2>2 DEF IssueShows, LabelShows, GoesTo
<1>12. IssueShows'
  BY <1>1, <1>3, <1>4, <1>5, <1>9, <1>10, <1>11 DEF IssueShows, GoesTo
<1> QED
  BY <1>1, <1>5, <1>9, <1>12, CommentStays, CodeStays

\* A checkpoint is made, or found made.
LEMMA CheckpointShows ==
  ASSUME TypeInv, TypeInv', RowInv, CommentKnown, IssueShows, CodeShows,
         CreateCheckpoint
  PROVE  CommentKnown' /\ IssueShows' /\ CodeShows'
<1> DEFINE e == op.effect
<1>0. /\ op \in Operation
      /\ code \in [head : Nat, remote : Nat, pulls : Nat,
                   statuses : [0 .. MaxCount -> Nat]]
  BY DEF TypeInv, TypeOK, OperationOK
<1>1. /\ At("commit") /\ GoesTo("commit") /\ pending' = pending /\ run' = run
      /\ issue' = issue
  BY <1>0 DEF CreateCheckpoint, GoesTo, Operation, store
<1>2. /\ pending = e /\ e \in Effect /\ Sound(e) /\ OwnedBy("commit", e)
      /\ HeadFits(e, run) /\ Stands(e, run)
  BY <1>1, UnderWay
<1>3. e.kind = "checkpoint" /\ Moves(e)
  BY <1>2 DEF OwnedBy, Moves
<1>4. code'.head = e.target + 1 /\ code'.pulls = code.pulls
  <2>1. PICK h : /\ h = (IF code.head = e.target THEN code.head + 1 ELSE code.head)
                 /\ code' = [code EXCEPT !.head = h]
    BY DEF CreateCheckpoint
  <2>2. h = e.target + 1
    BY <1>2, <1>3, <2>1 DEF HeadFits
  <2> QED
    BY <1>0, <2>1, <2>2
<1>5. run.rev # e.prev => run.checkpoint = e.target + 1
  BY <1>2, <1>3, FinalRow DEF Stands, From
<1>6. CodeShows'
  BY <1>1, <1>2, <1>3, <1>4, <1>5 DEF CodeShows, GoesTo
<1> QED
  BY <1>1, <1>3, <1>6, CommentStays, IssueStays

\* A pull request is made, or found made; an expected one is there.
LEMMA PullShows ==
  ASSUME TypeInv, TypeInv', NothingCreatedTwice, RowInv,
         CommentKnown, IssueShows, CodeShows, UpsertPullRequest
  PROVE  CommentKnown' /\ IssueShows' /\ CodeShows'
<1> DEFINE e == op.effect
<1>0. /\ op \in Operation
      /\ code \in [head : Nat, remote : Nat, pulls : Nat,
                   statuses : [0 .. MaxCount -> Nat]]
  BY DEF TypeInv, TypeOK, OperationOK
<1>1. /\ At("upsert") /\ GoesTo("upsert") /\ pending' = pending /\ run' = run
      /\ issue' = issue
  BY <1>0 DEF UpsertPullRequest, GoesTo, Operation, store
<1>2. /\ pending = e /\ e \in Effect /\ Sound(e) /\ OwnedBy("upsert", e)
      /\ Stands(e, run)
  BY <1>1, UnderWay
<1>3. e.kind = "pull_request" /\ ~Marks(e) /\ (Moves(e) <=> e.persist)
  BY <1>2 DEF OwnedBy, Moves, Marks
<1>4. /\ code'.head = code.head
      /\ code'.pulls = IF code.pulls = 0 THEN 1 ELSE code.pulls
  BY <1>0 DEF UpsertPullRequest
<1>5. code'.pulls = 1
  BY <1>0, <1>4 DEF NothingCreatedTwice
<1>6. CodeShows'
  <2>1. CASE e.persist
    <3>1. run.rev # e.prev => run.pull = 1
      BY <1>2, <1>3, <2>1, FinalRow DEF Stands, From
    <3> QED
      BY <1>1, <1>2, <1>3, <1>4, <1>5, <2>1, <3>1 DEF CodeShows, GoesTo
  <2>2. CASE ~e.persist
    <3>1. run.pull # 0
      BY <1>2, <1>3, <2>2 DEF Stands, Sound
    <3>2. code.pulls = run.pull
      BY <1>2, <2>2 DEF CodeShows
    <3>3. code'.pulls = code.pulls
      BY <1>4, <3>1, <3>2
    <3> QED
      BY <1>1, <1>2, <1>3, <1>4, <2>2, <3>3 DEF CodeShows, GoesTo
  <2> QED
    BY <2>1, <2>2
<1> QED
  BY <1>0, <1>1, <1>6, CommentStays, IssueStays

\* The row is saved after what it names exists, and before it is shown only
\* when its comment exists already.
LEMMA SaveShows ==
  ASSUME TypeInv, TypeInv', RowInv, CommentKnown, IssueShows, CodeShows,
         SaveRun
  PROVE  CommentKnown' /\ IssueShows' /\ CodeShows'
<1> DEFINE e == op.effect
<1>0. op \in Operation
  BY DEF TypeInv, TypeOK, OperationOK
<1>1. /\ At("save") /\ GoesTo("save") /\ pending' = pending
      /\ issue' = issue /\ code' = code
  BY <1>0 DEF SaveRun, GoesTo, Operation, Advance, external
<1>2. Moves(e) /\ run' = Final(e)
  BY SavedRow
<1>3. /\ Under /\ pending = e /\ e \in Effect /\ e # NoEffect /\ Sound(e)
      /\ Stands(e, run) /\ Place = "save" /\ op.mode \in Modes
  BY <1>1, UnderWay, Standing
<1>4. /\ Final(e).comment # 0 /\ Final(e).rev = e.prev + 1 /\ e.prev \in Nat
      /\ Final(e).checkpoint =
           IF e.kind = "checkpoint" THEN e.target + 1 ELSE e.next.checkpoint
      /\ Final(e).pull =
           IF e.kind = "pull_request" THEN 1 ELSE e.next.pull
  BY <1>2, <1>3, FinalRow
<1>5. Working
  BY <1>3 DEF Working
<1>6. Place' \notin {"reserve", "diagnose"} /\ op'.mode = op.mode
  BY <1>1, <1>3, GoesOn DEF GoesTo
<1>7. issue.comments # 0
  <2>1. CASE e.create
    <3>1. Place \in CommentedAt(op.mode, e)
      BY <1>3, <2>1 DEF CommentedAt, Early, Sound
    <3> QED
      BY <1>2, <1>5, <3>1 DEF IssueShows
  <2>2. CASE ~e.create
    BY <1>3, <2>2 DEF CommentKnown
  <2> QED
    BY <2>1, <2>2
<1> HIDE DEF Final, e
<1>8. CommentKnown'
  <2>1. run'.rev # 0 /\ run'.comment # 0 /\ issue'.comments # 0
    BY <1>1, <1>2, <1>4, <1>7
  <2>2. op'.effect = op.effect /\ Moves(op'.effect)
    BY <1>1, <1>2 DEF GoesTo, e
  <2>3. op'.mode # "park"
    BY <1>3, <1>6 DEF Modes
  <2>4. pending' # NoEffect
    BY <1>1, <1>3
  <2> QED
    BY <1>6, <2>1, <2>2, <2>3, <2>4 DEF CommentKnown, Working
<1>9. IssueShows'
  BY <1>1, <1>2, IssueStays DEF e
<1>10. code.head = Final(e).checkpoint
  <2>1. CASE e.kind = "checkpoint"
    BY <1>2, <1>3, <1>4, <2>1 DEF Under, MovesOn, MadeAt, e
  <2>2. CASE e.kind # "checkpoint"
    <3>1. code.head = run.checkpoint
      BY <1>3, <2>2 DEF CodeShows
    <3>2. run.checkpoint = e.next.checkpoint
      BY <1>2, <1>3, <1>4, <2>2 DEF Stands, From
    <3> QED
      BY <1>4, <2>2, <3>1, <3>2
  <2> QED
    BY <2>1, <2>2
<1>11. code.pulls = Final(e).pull
  <2>1. CASE e.kind = "pull_request"
    BY <1>2, <1>3, <1>4, <1>5, <2>1 DEF CodeShows, MadeAt, Moves, e
  <2>2. CASE e.kind # "pull_request"
    <3>1. code.pulls = run.pull
      BY <1>3, <2>2 DEF CodeShows
    <3>2. run.pull = e.next.pull
      BY <1>2, <1>3, <1>4, <2>2 DEF Stands, From
    <3> QED
      BY <1>4, <2>2, <3>1, <3>2
  <2> QED
    BY <2>1, <2>2
<1>12. CodeShows'
  <2>1. /\ code'.head = run'.checkpoint /\ code'.pulls = run'.pull
        /\ run'.rev # e.prev /\ pending' = e
    BY <1>1, <1>2, <1>3, <1>4, <1>10, <1>11
  <2>2. /\ op'.effect = e
        /\ e.kind = "pull_request" => code'.pulls = 1
    BY <1>1, <1>4, <1>11 DEF GoesTo, e
  <2> QED
    BY <2>1, <2>2 DEF CodeShows
<1> QED
  BY <1>8, <1>9, <1>12

\* A watermark changes neither the label nor what names external objects.
LEMMA MarkShows ==
  ASSUME TypeInv, TypeInv', RowInv, CommentKnown, IssueShows, CodeShows,
         SaveWatermark
  PROVE  CommentKnown' /\ IssueShows' /\ CodeShows'
<1> DEFINE e == op.effect
<1>0. op \in Operation /\ run \in Run
  BY DEF TypeInv, TypeOK, OperationOK
<1>1. /\ At("watermark") /\ GoesTo("watermark") /\ pending' = pending
      /\ issue' = issue /\ code' = code
      /\ run' = IF run.rev < op.next.rev THEN op.next ELSE run
  BY <1>0 DEF SaveWatermark, GoesTo, Operation, Advance, external
<1>2. /\ Under /\ pending = e /\ e \in Effect /\ e # NoEffect /\ Sound(e)
      /\ Stands(e, run) /\ OwnedBy("watermark", e) /\ op.mode \in Modes
      /\ Place = "watermark"
  BY <1>1, UnderWay, Standing
<1>3. Marks(e) /\ ~Moves(e) /\ e.kind # "checkpoint" /\ e.kind # "pull_request"
      /\ e.kind # "harness_resume"
  BY <1>2 DEF OwnedBy, Moves, Marks
<1>4. op.next = e.next
  BY <1>2, <1>3 DEF Under, MarksOn
<1>5. e.next.rev = e.prev + 1 /\ e.prev \in Nat /\ e.next.comment # 0
  BY <1>2, <1>3, FinalRow DEF Sound, Marks
<1>6. run.rev # 0 /\ run.comment # 0 /\ issue.comments # 0
  BY <1>2, <1>3 DEF CommentKnown
<1>7. Place' \notin {"reserve", "diagnose", "clear"} /\ op'.mode = op.mode
      /\ op'.effect = e /\ op'.base = op.base
  BY <1>1, <1>2, <1>3, GoesOn DEF GoesTo
<1>8. Working
  BY <1>2 DEF Working
<1>9. CASE run.rev < e.next.rev
  <2>1. From(e, run)
    BY <1>2, <1>3, <1>9, <1>5, <1>0 DEF Stands, PausedOver, Run
  <2>2. /\ run' = e.next /\ run'.status = run.status /\ run'.reason = run.reason
        /\ run'.checkpoint = run.checkpoint /\ run'.pull = run.pull
        /\ run'.rev # 0 /\ run'.comment # 0
    BY <1>1, <1>3, <1>4, <1>5, <1>9, <2>1 DEF From
  <2>3. CommentKnown'
    BY <1>1, <1>2, <1>3, <1>6, <1>7, <1>8, <2>2 DEF CommentKnown, Working, Modes
  <2>4. IssueShows'
    BY <1>1, <1>2, <1>3, <1>6, <1>7, <2>2
       DEF IssueShows, LabelShows, IsRestartReconciliationPause
  <2>5. CodeShows'
    BY <1>1, <1>2, <1>3, <1>7, <2>2 DEF CodeShows
  <2> QED
    BY <2>3, <2>4, <2>5
<1>10. CASE ~(run.rev < e.next.rev)
  BY <1>1, <1>4, <1>10, CommentStays, IssueStays, CodeStays
<1> QED
  BY <1>9, <1>10

\* The comment shows the stored watermark, unless a pause was stored over it.
LEMMA MarkedShows ==
  ASSUME TypeInv, TypeInv', RowInv, CommentKnown, IssueShows, CodeShows,
         ApplyStatusComment
  PROVE  CommentKnown' /\ IssueShows' /\ CodeShows'
<1> DEFINE e == op.effect
<1>0. /\ op \in Operation
      /\ issue \in [label : FactoryLabels, comments : Nat, body : Body,
                    questions : [1 .. MaxCount -> Nat]]
  BY DEF TypeInv, TypeOK, OperationOK
<1>1. /\ At("statusComment") /\ GoesTo("statusComment") /\ pending' = pending
      /\ code' = code /\ run' = run
  BY <1>0 DEF ApplyStatusComment, GoesTo, Operation, Advance, store
<1>2. /\ Under /\ pending = e /\ e \in Effect /\ Sound(e)
      /\ OwnedBy("statusComment", e) /\ Place = "statusComment"
  BY <1>1, UnderWay, Standing
<1>3. Marks(e) /\ ~Moves(e)
  BY <1>2 DEF OwnedBy, Moves, Marks
<1>4. /\ issue'.label = issue.label /\ issue'.comments = issue.comments
      /\ issue'.body = StatusCommentBody(e.next)
  BY <1>0 DEF ApplyStatusComment
<1>5. run = e.next \/ IsRestartReconciliationPause(run)
  BY <1>2, <1>3 DEF Under, MarksOn, PausedOver
<1>6. IsRestartReconciliationPause(run) \/ BodyShows(run)'
  BY <1>1, <1>4, <1>5 DEF BodyShows
<1>7. IssueShows'
  BY <1>1, <1>2, <1>3, <1>4, <1>6 DEF IssueShows, LabelShows, GoesTo
<1> QED
  BY <1>1, <1>4, <1>7, CommentStays, CodeStays

\* A reservation announces what is about to change.
LEMMA ReserveShows ==
  ASSUME TypeInv, TypeInv', RowInv, CommentKnown, IssueShows, CodeShows,
         Reserve
  PROVE  CommentKnown' /\ IssueShows' /\ CodeShows'
<1> DEFINE e == op.effect
<1>0. op \in Operation
  BY DEF TypeInv, TypeOK, OperationOK
<1>1. /\ At("reserve") /\ GoesTo("reserve") /\ pending' = e
      /\ pending = NoEffect \/ SameReservation(pending, e)
      /\ run' = run /\ issue' = issue /\ code' = code
  BY <1>0 DEF Reserve, GoesTo, Operation, Advance, store, external
<1>2. /\ op.mode \in Modes /\ Place = "reserve" /\ e \in Effect
      /\ op.at \in DOMAIN Plan(op.mode, e) /\ Plan(op.mode, e)[op.at] = "reserve"
  BY <1>1, Standing DEF At
<1>3. Fresh
  BY <1>2 DEF RowInv, Progress
<1>4. Sound(e) /\ e # NoEffect
  BY <1>2, <1>3 DEF Fresh, NoEffect, Effect, EffectKinds
<1>5. op.mode = "apply"
  BY <1>2, NoReplayReserves DEF Modes
<1>6. /\ op'.mode = "apply" /\ op'.effect = e
      /\ Place' \notin {"reserve", "diagnose"}
      /\ Moves(e) => /\ Place' \notin LabelledAt(op.mode, e)
                     /\ Place' \notin CommentedAt(op.mode, e)
                     /\ e.kind = "pull_request" => Place' \notin MadeAt
      /\ Marks(e) => Place' # "clear"
  BY <1>1, <1>2, <1>4, <1>5, GoesOn DEF GoesTo, LabelledAt, CommentedAt, MadeAt
<1>7. /\ pending = NoEffect \/ e.kind = "state_transition"
      /\ e.create \/ issue.comments # 0
      /\ run.rev = 0 => Moves(e)
  BY <1>2 DEF CommentKnown
<1>8. CommentKnown'
  BY <1>1, <1>4, <1>6, <1>7 DEF CommentKnown, Working
<1>9. pending # NoEffect => pending.kind = "state_transition"
  BY <1>1, <1>7 DEF SameReservation
<1>10. IssueShows'
  <2>1. ~Moves(e) => ~Moves(pending) /\ ~Marks(pending)
    BY <1>7, <1>9 DEF Moves, Marks, NoEffect
  <2> QED
    BY <1>1, <1>5, <1>6, <2>1 DEF IssueShows, LabelShows, BodyShows
<1>11. CodeShows'
  <2>1. pending.kind # "checkpoint" /\ pending.kind # "pull_request"
    BY <1>9 DEF NoEffect
  <2>2. code.head = run.checkpoint /\ code.pulls = run.pull
    BY <2>1 DEF CodeShows
  <2> QED
    BY <1>1, <1>6, <2>2 DEF CodeShows, Moves
<1> QED
  BY <1>8, <1>10, <1>11

\* What is acknowledged is shown.
LEMMA ClearShows ==
  ASSUME TypeInv, TypeInv', RowInv, CommentKnown, IssueShows, CodeShows,
         Clear
  PROVE  CommentKnown' /\ IssueShows' /\ CodeShows'
<1> DEFINE e == op.effect
<1>0. op \in Operation
  BY DEF TypeInv, TypeOK, OperationOK
<1>1. /\ At("clear") /\ pending' = NoEffect
      /\ run' = run /\ issue' = issue /\ code' = code
  BY DEF Clear, store, external
<1>2. /\ Under /\ pending = e /\ e \in Effect /\ e # NoEffect /\ Sound(e)
      /\ Place = "clear" /\ op.mode \in Modes
  BY <1>1, UnderWay, Standing
<1>3. ~Working' /\ ~(op'.mode \in Modes /\ Place' = "reserve")
  <2>1. CASE op' \in {Idle(op.next), Idle(op.base), Parking(op.base)}
    BY <2>1 DEF Idle, Parking, Working, Modes
  <2>2. CASE Replaying /\ op' = [op EXCEPT !.at = @ + 1]
    <3>1. GoesTo("clear")
      BY <1>0, <2>2 DEF GoesTo, Operation
    <3>2. op'.at = op.at + 1
      BY <1>0, <2>2 DEF Operation
    <3>3. ComesAfter(Place', "clear", op.mode, e)
      BY <1>1, <1>2, <2>2, <3>1, <3>2, ComesTo DEF GoesTo, Replaying
    <3>4. Place' = "diagnose"
      BY <3>3 DEF ComesAfter
    <3> QED
      BY <3>4 DEF Working
  <2> QED
    BY <2>1, <2>2 DEF Clear, Replaying
<1>4. run.rev # 0
  <2>1. Moves(e) => run.rev = e.prev + 1 /\ e.prev \in Nat
    BY <1>1, <1>2, AtClear, FinalRow
  <2>2. ~Moves(e) => run.rev # 0
    BY <1>2 DEF CommentKnown
  <2> QED
    BY <2>1, <2>2
<1>5. CommentKnown'
  BY <1>1, <1>3, <1>4 DEF CommentKnown
<1>6. \/ IsRestartReconciliationPause(run)
      \/ LabelShows(run) /\ BodyShows(run)
  <2>1. Working
    BY <1>2 DEF Working
  <2>2. CASE Moves(e)
    <3>1. run = Final(e) /\ Final(e).status = e.next.status
      BY <1>1, <1>2, <2>2, AtClear, FinalRow
    <3>2. LabelShows(e.next) /\ BodyShows(Final(e))
      BY <1>2, <2>1, <2>2 DEF IssueShows, LabelledAt, CommentedAt
    <3> QED
      BY <3>1, <3>2 DEF LabelShows
  <2>3. CASE ~Moves(e)
    BY <1>2, <1>4, <2>1, <2>3 DEF IssueShows
  <2> QED
    BY <2>2, <2>3
<1>7. ~Moves(NoEffect) /\ ~Marks(NoEffect)
  BY DEF Moves, Marks, NoEffect
<1>8. IssueShows'
  BY <1>1, <1>3, <1>6, <1>7 DEF IssueShows, LabelShows, BodyShows
<1>9. code.head = run.checkpoint /\ code.pulls = run.pull
  <2>1. Moves(e) => run.rev # e.prev
    BY <1>1, <1>2, AtClear, FinalRow
  <2> QED
    BY <1>2, <2>1 DEF CodeShows, Moves
<1>10. CodeShows'
  BY <1>1, <1>3, <1>9 DEF CodeShows, NoEffect
<1> QED
  BY <1>5, <1>8, <1>10

-----------------------------------------------------------------------------
(* What the issue and the code host show: operations that begin and end *)

\* Between operations nothing is shown anew.
LEMMA RestShows ==
  ASSUME CommentKnown, IssueShows, CodeShows,
         run' = run, pending' = pending, issue' = issue, code' = code,
         op' = op \/ op'.mode \in {"idle", "pause"}
  PROVE  CommentKnown' /\ IssueShows' /\ CodeShows'
<1>1. CASE op' = op
  <2>1. Place' = Place /\ (Working' <=> Working)
    BY <1>1 DEF Place, Working
  <2> QED
    BY <1>1, <2>1 DEF CommentKnown, IssueShows, CodeShows, LabelShows, BodyShows
<1>2. CASE op'.mode \in {"idle", "pause"}
  <2>1. op'.mode \notin Modes /\ ~Working' /\ op'.mode # "park"
    BY <1>2 DEF Working, Modes
  <2> QED
    BY <2>1 DEF CommentKnown, IssueShows, CodeShows, LabelShows, BodyShows
<1> QED
  BY <1>1, <1>2

\* An effect is started over an issue that has the comment, or by the claim.
LEMMA StartShows ==
  ASSUME TypeInv', CommentKnown, IssueShows, CodeShows, NEW e, NEW r,
         op' = Apply(e, r), e.kind \in EffectKinds,
         run' = run, pending' = pending, issue' = issue, code' = code,
         pending = NoEffect \/ e.kind = "state_transition",
         e.create \/ issue.comments # 0, run.rev = 0 => Moves(e)
  PROVE  CommentKnown' /\ IssueShows' /\ CodeShows'
<1>1. op'.mode = "apply" /\ op'.effect = e /\ op'.at = 1
  BY DEF Apply
<1>2. e \in Effect \cup {NoEffect} /\ e # NoEffect
  BY <1>1 DEF TypeInv, TypeOK, OperationOK, Operation, NoEffect, EffectKinds
<1>3. Place' = "reserve" /\ ~Working'
  BY <1>1, <1>2, FirstBoundary DEF Place, Working
<1> QED
  BY <1>1, <1>3 DEF CommentKnown, IssueShows, CodeShows, LabelShows, BodyShows

\* Every caller works on a published run.
LEMMA BeginShows ==
  ASSUME TypeInv, TypeInv', RowInv, CommentKnown, IssueShows, CodeShows,
         BeginSome
  PROVE  CommentKnown' /\ IssueShows' /\ CodeShows'
<1>1. /\ run' = run /\ pending' = pending /\ issue' = issue /\ code' = code
  BY DEF BeginSome, BeginTransition, BeginCommand, BeginPacketChange,
     BeginTerminal, BeginCommandProjection, BeginClarification,
     BeginCommitStatus, BeginPush, BeginCheckpoint, BeginPullRequest,
     BeginWorkerLaunch, BeginResume, BeginAcceptance, Begin, external, store
<1>p. ASSUME NEW e, NEW r \in HeldRuns, op' = Apply(e, r), OpIdle,
             pending = NoEffect, e.kind \in EffectKinds,
             Published(r) \/ issue.comments > 0
      PROVE  CommentKnown' /\ IssueShows' /\ CodeShows'
  <2>0. issue.comments \in Nat
    BY DEF TypeInv, TypeOK
  <2>1. r = run
    BY <1>p, HeldIsStored
  <2>2. run.rev # 0 /\ issue.comments # 0
    BY <1>p, <2>0, <2>1 DEF CommentKnown, Published
  <2> QED
    BY <1>1, <1>p, <2>2, StartShows
<1>2. CASE BeginTerminal
  <2>0. issue.comments \in Nat
    BY DEF TypeInv, TypeOK
  <2>1. PICK e : /\ op' = Apply(e, run) /\ e.kind = "state_transition"
                 /\ issue.comments > 0
    BY <1>2 DEF BeginTerminal, Begin, Transition, NewEffect
  <2> QED
    BY <1>1, <2>0, <2>1, StartShows DEF Moves, EffectKinds
<1>3. CASE BeginTransition \/ BeginCommand \/ BeginPacketChange
  <2>1. PICK r \in HeldRuns :
          /\ \E e : op' = Apply(e, r) /\ e.kind = "state_transition"
          /\ MayBegin("state_transition", r) /\ Published(r)
    <3>1. CASE BeginTransition
      BY <3>1 DEF BeginTransition, Begin, Transition, NewEffect
    <3>2. CASE BeginCommand
      BY <3>2 DEF BeginCommand, Begin, Transition, NewEffect
    <3>3. CASE BeginPacketChange
      BY <3>3 DEF BeginPacketChange, Begin, Transition, NewEffect
    <3> QED
      BY <1>3, <3>1, <3>2, <3>3
  <2> QED
    BY <1>p, <2>1 DEF MayBegin, EffectKinds
<1>4. CASE BeginCommandProjection
  <2>1. PICK r \in HeldRuns :
          /\ \E e : op' = Apply(e, r) /\ e.kind = "status_comment"
          /\ MayBegin("status_comment", r) /\ issue.comments > 0
    BY <1>4 DEF BeginCommandProjection, Begin, NewEffect
  <2> QED
    BY <1>p, <2>1 DEF MayBegin, EffectKinds
<1>5. CASE BeginClarification \/ BeginCommitStatus \/ BeginPush
             \/ BeginWorkerLaunch
  <2>1. PICK r \in HeldRuns, k \in EffectKinds :
          /\ \E e : op' = Apply(e, r) /\ e.kind = k
          /\ MayBegin(k, r) /\ Published(r)
    <3>1. CASE BeginClarification
      BY <3>1 DEF BeginClarification, Begin, NewEffect, EffectKinds
    <3>2. CASE BeginCommitStatus
      BY <3>2 DEF BeginCommitStatus, Begin, NewEffect, EffectKinds
    <3>3. CASE BeginPush
      BY <3>3 DEF BeginPush, Begin, NewEffect, EffectKinds
    <3>4. CASE BeginWorkerLaunch
      BY <3>4 DEF BeginWorkerLaunch, NewEffect, EffectKinds
    <3> QED
      BY <1>5, <3>1, <3>2, <3>3, <3>4
  <2> QED
    BY <1>p, <2>1 DEF MayBegin
<1>6. CASE BeginCheckpoint \/ BeginPullRequest \/ BeginResume \/ BeginAcceptance
  <2>1. PICK r \in HeldRuns, k \in EffectKinds :
          /\ \E e : op' = Apply(e, r) /\ e.kind = k
          /\ MayBegin(k, r) /\ Published(r)
    <3>1. CASE BeginCheckpoint
      BY <3>1 DEF BeginCheckpoint, Begin, NewEffect, EffectKinds
    <3>2. CASE BeginPullRequest
      BY <3>2 DEF BeginPullRequest, Begin, NewEffect, EffectKinds
    <3>3. CASE BeginResume
      BY <3>3 DEF BeginResume, Begin, NewEffect, EffectKinds
    <3>4. CASE BeginAcceptance
      BY <3>4 DEF BeginAcceptance, Begin, NewEffect, EffectKinds
    <3> QED
      BY <1>6, <3>1, <3>2, <3>3, <3>4
  <2> QED
    BY <1>p, <2>1 DEF MayBegin
<1> QED
  BY <1>2, <1>3, <1>4, <1>5, <1>6 DEF BeginSome

\* A pass starts at a boundary before anything is shown.
LEMMA PassShows ==
  ASSUME TypeInv, RowInv, CommentKnown, IssueShows, CodeShows,
         StartReplay \/ StartReconcile
  PROVE  CommentKnown' /\ IssueShows' /\ CodeShows'
<1>1. /\ op' = Reconciling(pending, run) /\ run' = run /\ pending' = pending
      /\ code' = code /\ issue' = issue
      /\ pending \in Effect \cup {NoEffect}
  BY DEF StartReplay, StartReconcile, store, external, TypeInv, TypeOK
<1>2. /\ op'.mode = "replay" /\ op'.effect = pending /\ op'.at = 1
      /\ op'.base = run
  BY <1>1 DEF Reconciling
<1>3. CASE pending = NoEffect
  <2>1. Place' = "diagnose" /\ ~Working'
    BY <1>2, <1>3, FirstBoundary DEF Place, Working
  <2> QED
    BY <1>1, <1>2, <2>1 DEF CommentKnown, IssueShows, CodeShows, LabelShows,
       BodyShows
<1>4. CASE pending # NoEffect
  <2>1. /\ Place' \notin {"reserve", "diagnose", "labels", "comment", "save",
                          "record", "clear", "statusComment"}
    BY <1>1, <1>2, <1>4, FirstBoundary DEF Place
  <2>2. CommentKnown'
    BY <1>1, <1>2, <1>4, <2>1 DEF CommentKnown, Working
  <2>3. IssueShows'
    BY <1>1, <1>2, <2>1 DEF IssueShows, LabelShows, BodyShows, LabelledAt,
       CommentedAt, Early
  <2>4. CodeShows'
    BY <1>1, <1>2, <2>1 DEF CodeShows, MadeAt
  <2> QED
    BY <2>2, <2>3, <2>4
<1> QED
  BY <1>3, <1>4

\* A pause saved without its projection is the one disagreement that is left.
LEMMA PausesShow ==
  ASSUME TypeInv, TypeInv', RowInv, CommentKnown, IssueShows, CodeShows,
         PauseForRecovery \/ PauseForHarness
  PROVE  /\ CommentKnown' /\ IssueShows' /\ CodeShows'
         /\ run' = run \/ run'.status = "waiting_for_human"
         /\ pending = NoEffect
<1>0. run \in Run /\ issue.comments \in Nat
  BY DEF TypeInv, TypeOK
<1>1. /\ op.mode \in {"pause", "park"} /\ pending' = pending /\ issue' = issue
      /\ code' = code
  BY DEF PauseForRecovery, PauseForHarness
<1>2. pending = NoEffect /\ op.base = run
  BY <1>1 DEF RowInv, Progress, Holding, Modes
<1>3. op.mode = "park" => run.comment # 0
  BY DEF CommentKnown
<1>4. \/ op'.mode = "idle" /\ run' = run
      \/ /\ \E e : op' = Apply(e, run) /\ e.kind = "state_transition"
         /\ run' = run /\ run.comment # 0
      \/ op'.mode = "idle" /\ run' = ReconciliationPause(run)
  <2>1. CASE PauseForRecovery
    BY <1>2, <2>1 DEF PauseForRecovery, Idle, Transition, NewEffect
  <2>2. CASE PauseForHarness
    BY <1>2, <1>3, <2>2 DEF PauseForHarness, Idle, Transition, NewEffect
  <2> QED
    BY <2>1, <2>2
<1>5. CASE op'.mode = "idle" /\ run' = run
  BY <1>1, <1>2, <1>5, RestShows
<1>6. CASE /\ \E e : op' = Apply(e, run) /\ e.kind = "state_transition"
           /\ run' = run /\ run.comment # 0
  <2>1. PICK e : op' = Apply(e, run) /\ e.kind = "state_transition"
    BY <1>6
  <2>2. issue.comments # 0
    BY <1>6 DEF CommentKnown
  <2>3. e.kind \in EffectKinds /\ Moves(e)
    BY <2>1 DEF EffectKinds, Moves
  <2> QED
    BY <1>1, <1>2, <1>6, <2>1, <2>2, <2>3, StartShows
<1>7. CASE op'.mode = "idle" /\ run' = ReconciliationPause(run)
  <2>1. /\ run'.rev = run.rev /\ run'.comment = run.comment
        /\ run'.checkpoint = run.checkpoint /\ run'.pull = run.pull
        /\ run'.status = "waiting_for_human" /\ run'.reason = "reconciliation"
    BY <1>0, <1>7 DEF ReconciliationPause, Run
  <2>2. ~Working' /\ op'.mode \notin Modes /\ op'.mode # "park"
    BY <1>7 DEF Working, Modes
  <2>3. CommentKnown'
    BY <1>1, <1>2, <2>1, <2>2 DEF CommentKnown
  <2>4. IssueShows'
    BY <2>1, <2>2 DEF IssueShows, IsRestartReconciliationPause
  <2>5. CodeShows'
    BY <1>1, <1>2, <2>1, <2>2 DEF CodeShows, NoEffect
  <2> QED
    BY <1>2, <2>1, <2>3, <2>4, <2>5
<1> QED
  BY <1>4, <1>5, <1>6, <1>7

\* The same pause over a reservation that stays for a person.
LEMMA FailingShows ==
  ASSUME TypeInv, TypeInv', RowInv, CommentKnown, IssueShows, CodeShows,
         MovesFailByTimeout, ReplayRefused \/ ReplayFails
  PROVE  /\ CommentKnown' /\ IssueShows' /\ CodeShows'
         /\ run'.status = run.status \/ run'.status = "waiting_for_human"
         /\ run'.packet = run.packet
<1> DEFINE e == op.effect
           r == op.base
           n == ReconciliationPause(Bumped(r))
<1>1. /\ pending = e /\ pending # NoEffect /\ ~Moves(e) /\ PauseRunLocally
      /\ Under /\ op.mode = "replay"
  BY FailingReplay
<1>2. PICK s : At(s) /\ s \notin {"reserve", "diagnose"}
  BY FailingReplay
<1>3. Working /\ run \in Run /\ r \in Run
  BY <1>2, Standing DEF Working
<1>4. e \in Effect /\ Sound(e)
  BY <1>2, UnderWay
<1>5. /\ run.rev # 0 /\ issue.comments # 0 /\ run.comment # 0
      /\ r.rev # 0 /\ r.comment # 0
  BY <1>1, <1>3 DEF CommentKnown
<1>6. /\ r.checkpoint = run.checkpoint /\ r.pull = run.pull
      /\ r.packet = run.packet
  <2>1. CASE Marks(e)
    BY <1>1, <1>4, <2>1 DEF Under, MarksOn, From, Sound, Marks
  <2>2. CASE ~Marks(e)
    BY <1>1, <1>3, <2>2 DEF Under, StaysOn, SameButQuestion, Run
  <2> QED
    BY <2>1, <2>2
<1>7. /\ n.rev = r.rev + 1 /\ IsRestartReconciliationPause(n)
      /\ n.comment = r.comment /\ n.pull = r.pull
      /\ n.checkpoint = r.checkpoint /\ n.packet = r.packet
  BY <1>3, PausedRow
<1> HIDE DEF n
<1>8. /\ pending' = pending /\ issue' = issue /\ code' = code
      /\ op'.mode = "idle"
      /\ \/ run' = run
         \/ IsRestartReconciliationPause(r) /\ run' = r
         \/ run' = n
  BY <1>1 DEF PauseRunLocally, Idle, n
<1>9. /\ run'.rev # 0 /\ run'.comment # 0
      /\ run'.checkpoint = run.checkpoint /\ run'.pull = run.pull
      /\ run'.packet = run.packet
      /\ run' = run \/ IsRestartReconciliationPause(run')
  BY <1>3, <1>5, <1>6, <1>7, <1>8 DEF Run
<1>10. ~Working' /\ op'.mode \notin Modes /\ op'.mode # "park"
  BY <1>8 DEF Working, Modes
<1>11. CommentKnown'
  BY <1>1, <1>5, <1>8, <1>9, <1>10 DEF CommentKnown
<1>12. IssueShows'
  BY <1>8, <1>9, <1>10 DEF IssueShows, LabelShows, BodyShows
<1>13. CodeShows'
  BY <1>1, <1>8, <1>9, <1>10 DEF CodeShows, Moves
<1> QED
  BY <1>9, <1>11, <1>12, <1>13 DEF IsRestartReconciliationPause

-----------------------------------------------------------------------------
(* The inductive invariant of the journal *)

JournalInv == TypeInv /\ NothingCreatedTwice /\ RowInv /\ ShowInv

LEMMA RowsKept ==
  ASSUME TypeInv, TypeInv', RowInv, MovesFailByTimeout, [Next]_vars
  PROVE  RowInv'
<1>1. CASE BeginSome
  BY <1>1, BeginRowInv
<1>2. CASE Step
  <2>1. CASE Reserve \/ Check \/ PostStatusComment \/ SaveRun \/ Clear
               \/ CreateCheckpoint \/ UpsertPullRequest
    BY <2>1, ReserveRows, CheckRows, CommentRows, SaveRows, ClearRows,
       CheckpointRows, PullRows
  <2>2. CASE StopActiveWorkers \/ ReplaceLabels \/ RecordTransition
               \/ Terminal \/ Finish \/ SaveUnitResult
    BY <2>2, QuietRows
  <2>3. CASE SaveWatermark \/ ApplyStatusComment \/ SaveQuestion
    BY <2>3, WatermarkRows, ShowMarkRows, QuestionRows
  <2>4. CASE FindOrCreateQuestion \/ PushOnce \/ CreateCommitStatus
               \/ StartWorker \/ Count \/ Resume \/ Session
    BY <2>4, StayingRows
  <2>5. CASE Diagnose \/ PauseForRecovery \/ PauseForHarness
    BY <2>5, DiagnoseRows, PauseRows, ParkRows
  <2>6. CASE ApplyRefused
    BY <2>6, StopsAnywhere DEF ApplyRefused, store, external
  <2>7. CASE ReplayRefused
    BY <2>7, FailingReplay, LocalPauseRows DEF Replaying
  <2> QED
    BY <1>2, <2>1, <2>2, <2>3, <2>4, <2>5, <2>6, <2>7 DEF Step
<1>3. CASE RecordResults \/ UNCHANGED vars
  BY <1>3, RowsUnchanged DEF RecordResults, vars, store, external
<1>4. CASE ReplayFails
  BY <1>4, FailingReplay, LocalPauseRows DEF Replaying
<1>5. CASE Interrupt
  BY <1>5, StopsAnywhere DEF Interrupt, store, external
<1>6. CASE StartReplay \/ StartReconcile
  BY <1>6, PassRows
<1>7. CASE Abandon
  <2>1. PICK drift : drift = FALSE
    OBVIOUS
  <2>2. /\ op' \in {Idle(run'), Pausing(run', drift), Parking(run')}
        /\ pending' = NoEffect
    BY <1>7, <2>1 DEF Abandon, store
  <2> QED
    BY <2>2, EndsEmpty
<1> QED
  BY <1>1, <1>2, <1>3, <1>4, <1>5, <1>6, <1>7 DEF Next

\* Only a person abandons an effect.
LEMMA Unabandoned ==
  ASSUME [Next]_vars
  PROVE  /\ ~Abandon => abandoned' = abandoned
         /\ Abandon => abandoned'
<1>1. CASE BeginSome
  BY <1>1 DEF BeginSome, BeginTransition, BeginCommand, BeginPacketChange,
     BeginTerminal, BeginCommandProjection, BeginClarification,
     BeginCommitStatus, BeginPush, BeginCheckpoint, BeginPullRequest,
     BeginWorkerLaunch, BeginResume, BeginAcceptance, Begin, Abandon
<1>2. CASE Step
  <2>1. CASE \/ Reserve \/ Check \/ StopActiveWorkers \/ ReplaceLabels
             \/ PostStatusComment \/ SaveRun \/ RecordTransition
             \/ SaveWatermark \/ ApplyStatusComment \/ FindOrCreateQuestion
    BY <2>1 DEF Reserve, Check, StopActiveWorkers, ReplaceLabels,
       PostStatusComment, SaveRun, RecordTransition, SaveWatermark,
       ApplyStatusComment, FindOrCreateQuestion, Abandon
  <2>2. CASE \/ SaveQuestion \/ PushOnce \/ CreateCommitStatus
             \/ CreateCheckpoint \/ UpsertPullRequest \/ StartWorker
             \/ Count \/ Resume \/ Session \/ Terminal \/ Finish
             \/ SaveUnitResult
    BY <2>2 DEF SaveQuestion, PushOnce, CreateCommitStatus, CreateCheckpoint,
       UpsertPullRequest, StartWorker, Count, Resume, Session, Terminal,
       Finish, SaveUnitResult, Abandon
  <2>3. CASE \/ Clear \/ Diagnose \/ PauseForRecovery \/ PauseForHarness
             \/ ApplyRefused \/ ReplayRefused
    BY <2>3 DEF Clear, Diagnose, PauseForRecovery, PauseForHarness,
       ApplyRefused, ReplayRefused, PauseRunLocally, Abandon
  <2> QED
    BY <1>2, <2>1, <2>2, <2>3 DEF Step
<1>3. CASE RecordResults \/ ReplayFails \/ Interrupt \/ StartReplay
             \/ StartReconcile \/ UNCHANGED vars
  BY <1>3 DEF RecordResults, ReplayFails, PauseRunLocally, Interrupt,
     StartReplay, StartReconcile, vars, Abandon
<1>4. CASE Abandon
  BY <1>4 DEF Abandon
<1> QED
  BY <1>1, <1>2, <1>3, <1>4 DEF Next

LEMMA ShowsKept ==
  ASSUME TypeInv, TypeInv', NothingCreatedTwice, RowInv, ShowInv,
         MovesFailByTimeout, [Next]_vars
  PROVE  ShowInv'
<1> SUFFICES ASSUME ~abandoned'
             PROVE  CommentKnown' /\ IssueShows' /\ CodeShows'
  BY DEF ShowInv
<1>0. ~abandoned /\ ~Abandon
  BY Unabandoned
<1>s. CommentKnown /\ IssueShows /\ CodeShows
  BY <1>0 DEF ShowInv
<1>1. CASE BeginSome
  BY <1>1, <1>s, BeginShows
<1>2. CASE Step
  <2>1. CASE Reserve \/ PostStatusComment \/ SaveRun \/ Clear
               \/ CreateCheckpoint \/ UpsertPullRequest \/ ReplaceLabels
    BY <2>1, <1>s, ReserveShows, CommentShows, SaveShows, ClearShows,
       CheckpointShows, PullShows, LabelsShow
  <2>2. CASE \/ Check \/ StopActiveWorkers \/ RecordTransition \/ Terminal
             \/ Finish \/ SaveUnitResult \/ FindOrCreateQuestion \/ PushOnce
             \/ CreateCommitStatus \/ StartWorker \/ Count \/ Resume \/ Session
             \/ SaveQuestion
    BY <2>2, <1>s, QuietShows
  <2>3. CASE SaveWatermark \/ ApplyStatusComment
    BY <2>3, <1>s, MarkShows, MarkedShows
  <2>4. CASE Diagnose
    <3>1. op'.mode \in {"idle", "pause"}
      BY <2>4 DEF Diagnose, Idle, Pausing
    <3> QED
      BY <2>4, <3>1, <1>s, RestShows DEF Diagnose, store, external
  <2>5. CASE PauseForRecovery \/ PauseForHarness
    BY <2>5, <1>s, PausesShow
  <2>6. CASE ApplyRefused
    BY <2>6, <1>s, RestShows DEF ApplyRefused, store, external, Idle
  <2>7. CASE ReplayRefused
    BY <2>7, <1>s, FailingShows
  <2> QED
    BY <1>2, <2>1, <2>2, <2>3, <2>4, <2>5, <2>6, <2>7 DEF Step
<1>3. CASE RecordResults \/ UNCHANGED vars
  BY <1>3, <1>s, RestShows DEF RecordResults, vars, store, external
<1>4. CASE ReplayFails
  BY <1>4, <1>s, FailingShows
<1>5. CASE Interrupt
  BY <1>5, <1>s, RestShows DEF Interrupt, store, external, Idle
<1>6. CASE StartReplay \/ StartReconcile
  BY <1>6, <1>s, PassShows
<1> QED
  BY <1>0, <1>1, <1>2, <1>3, <1>4, <1>5, <1>6 DEF Next

\* The claim is about to publish the run it saved.
LEMMA JournalStarts == Init => JournalInv
<1> SUFFICES ASSUME Init PROVE JournalInv
  OBVIOUS
<1>1. TypeInv /\ NothingCreatedTwice
  BY InitType DEF Init, NothingCreatedTwice
<1>2. /\ run = ClaimedRun /\ pending = NoEffect /\ issue.comments = 0
      /\ code.head = 0 /\ code.pulls = 0 /\ invocation.status = "active"
      /\ op = Apply(ClaimTransition, ClaimedRun)
  BY DEF Init
<1>3. PICK c, n : /\ c = ClaimedRun /\ n = Bumped(c)
                  /\ run = c /\ op = Apply([Transition(c, n) EXCEPT !.create = TRUE], c)
  BY <1>2 DEF ClaimTransition
<1>4. /\ c \in Run /\ c.rev = 0 /\ c.comment = 0 /\ c.checkpoint = 0 /\ c.pull = 0
  BY <1>3 DEF ClaimedRun, Run, RunStatuses, Reasons
<1>5. /\ n \in Run /\ n.rev = 1 /\ n.checkpoint = 0 /\ n.pull = 0
      /\ n.packet = c.packet
  BY <1>3, <1>4, NextRevision
<1>6. PICK e : e = [Transition(c, n) EXCEPT !.create = TRUE]
  OBVIOUS
<1>7. /\ e.kind = "state_transition" /\ e.next = n /\ e.prev = 0 /\ e.create
      /\ ~e.before /\ ~e.invalidate
  BY <1>4, <1>6 DEF Transition, NewEffect
<1>8. Moves(e) /\ ~Marks(e)
  BY <1>7 DEF Moves, Marks
<1>9. /\ op.mode = "apply" /\ op.effect = e /\ op.at = 1 /\ op.base = run
      /\ op.next = n /\ ~op.rejected
  BY <1>3, <1>6, <1>7 DEF Apply
<1>10. e \in Effect /\ e # NoEffect
  BY <1>1, <1>7, <1>9 DEF TypeInv, TypeOK, OperationOK, Operation, NoEffect
<1>11. Place = "reserve" /\ ~Working
  BY <1>9, <1>10, FirstBoundary DEF Place, Working
<1>12. Sound(e) /\ From(e, run) /\ HeadFits(e, run) /\ NotSuperseded(e)
  BY <1>3, <1>4, <1>5, <1>7, <1>8 DEF Sound, From, HeadFits, NotSuperseded
<1>13. RowInv
  BY <1>2, <1>7, <1>8, <1>9, <1>11, <1>12 DEF RowInv, Reserved, Progress, Fresh,
     Modes
<1>14. CommentKnown
  BY <1>2, <1>3, <1>4, <1>7, <1>8, <1>9, <1>11 DEF CommentKnown
<1>15. IssueShows
  BY <1>3, <1>4, <1>11 DEF IssueShows
<1>16. CodeShows
  BY <1>2, <1>3, <1>4, <1>11 DEF CodeShows, NoEffect
<1> QED
  BY <1>1, <1>13, <1>14, <1>15, <1>16 DEF JournalInv, ShowInv

LEMMA JournalKept ==
  ASSUME MovesFailByTimeout, JournalInv, [Next]_vars
  PROVE  JournalInv'
<1>1. TypeInv'
  BY NextType DEF JournalInv
<1>2. NothingCreatedTwice'
  BY CreatesOnce DEF JournalInv
<1> QED
  BY <1>1, <1>2, RowsKept, ShowsKept DEF JournalInv

-----------------------------------------------------------------------------
(* What the journal promises *)

\* While nothing is reserved, what the issue shows is the stored run, unless
\* the run already waits for a person: for every interleaving of crashes,
\* timeouts and replays, as long as no host answers the replay of a move with
\* an error (recovery.go pauses such a run in the store, under the reservation).
THEOREM IssueFollowsRun ==
  ASSUME MovesFailByTimeout
  PROVE  Spec => []ProjectionsFollowRun
<1>1. JournalInv => ProjectionsFollowRun
  <2> SUFFICES ASSUME JournalInv, pending = NoEffect, ~abandoned, run.rev # 0
               PROVE  ~LabelOrCommentDrift(run) \/ IsRestartReconciliationPause(run)
    BY DEF ProjectionsFollowRun
  <2>1. ~Moves(pending) /\ ~Marks(pending)
    BY DEF Moves, Marks, NoEffect
  <2>2. CommentKnown /\ IssueShows
    BY DEF JournalInv, ShowInv
  <2> QED
    BY <2>1, <2>2 DEF CommentKnown, IssueShows, LabelShows, BodyShows,
       LabelOrCommentDrift
<1> QED
  BY JournalStarts, JournalKept, <1>1, PTL DEF Spec

\* While nothing is reserved, the run names the HEAD and the pull request that
\* exist, under the same condition.
THEOREM CodeFollows ==
  ASSUME MovesFailByTimeout
  PROVE  Spec => []CodeFollowsRun
<1>1. JournalInv => CodeFollowsRun
  BY DEF JournalInv, ShowInv, CodeShows, CodeFollowsRun, OtherDrift, NoEffect
<1> QED
  BY JournalStarts, JournalKept, <1>1, PTL DEF Spec

\* The packet of the run changes only with the transition that discards the
\* results of the old one.
LEMMA PacketKept ==
  ASSUME JournalInv, TypeInv', MovesFailByTimeout, [Next]_vars
  PROVE  \/ results' = 0
         \/ run'.packet = run.packet /\ results' \in {results, run.packet}
<1>t. TypeInv /\ RowInv /\ run \in Run
  BY DEF JournalInv, TypeInv, TypeOK
<1>1. CASE SaveRun
  <2>1. Moves(op.effect) /\ run' = Final(op.effect) /\ At("save")
    BY <1>1, <1>t, SavedRow DEF SaveRun
  <2>2. /\ op.effect \in Effect /\ Sound(op.effect) /\ Stands(op.effect, run)
    BY <1>t, <2>1, UnderWay
  <2>3. Final(op.effect).packet = op.effect.next.packet
    BY <2>2, FinalRow
  <2>4. CASE SaveNeeded /\ op.effect.invalidate
    BY <1>1, <2>4 DEF SaveRun
  <2>5. CASE ~(SaveNeeded /\ op.effect.invalidate)
    <3>1. results' = results
      BY <1>1, <2>5 DEF SaveRun
    <3>2. run'.packet = run.packet
      <4>1. CASE op.effect.invalidate
        BY <1>1, <2>5, <4>1 DEF SaveRun
      <4>2. CASE ~op.effect.invalidate
        BY <2>1, <2>2, <2>3, <4>2 DEF Stands, From
      <4> QED
        BY <4>1, <4>2
    <3> QED
      BY <3>1, <3>2
  <2> QED
    BY <2>4, <2>5
<1>2. CASE SaveWatermark
  <2>1. /\ At("watermark") /\ results' = results
        /\ run' = IF run.rev < op.next.rev THEN op.next ELSE run
    BY <1>2 DEF SaveWatermark
  <2>2. /\ Under /\ op.effect \in Effect /\ Sound(op.effect)
        /\ Stands(op.effect, run) /\ OwnedBy("watermark", op.effect)
    BY <1>t, <2>1, UnderWay
  <2>3. Marks(op.effect) /\ op.next = op.effect.next /\ ~op.effect.invalidate
    BY <2>2 DEF OwnedBy, Under, MarksOn, Sound, Marks
  <2>4. run.rev < op.effect.next.rev => From(op.effect, run)
    BY <1>t, <2>2, <2>3, FinalRow DEF Stands, PausedOver, Run
  <2> QED
    BY <2>1, <2>3, <2>4 DEF From
<1>3. CASE SaveQuestion
  <2>1. /\ At("saveQuestion") /\ Under /\ op.mode \in Modes
        /\ OwnedBy("saveQuestion", op.effect) /\ results' = results
    BY <1>3, <1>t, Standing, UnderWay DEF SaveQuestion
  <2>2. op.mode = "apply" => op.next = run
    BY <2>1 DEF Under, StaysOn, OwnedBy, Moves, Marks
  <2>3. run' = [run EXCEPT !.question = op.effect.target]
    BY <1>3, <2>1, <2>2 DEF SaveQuestion, Replaying, Modes
  <2> QED
    BY <1>t, <2>1, <2>3 DEF Run
<1>4. CASE PauseForRecovery \/ PauseForHarness
  <2>1. op.mode \in {"pause", "park"} /\ results' = results
    BY <1>4 DEF PauseForRecovery, PauseForHarness
  <2>2. op.base = run
    BY <1>t, <2>1 DEF RowInv, Progress, Holding, Modes
  <2>3. CASE PauseForRecovery
    <3>1. run' \in {run, ReconciliationPause(run)}
      BY <2>2, <2>3 DEF PauseForRecovery
    <3> QED
      BY <1>t, <2>1, <3>1 DEF ReconciliationPause, Run
  <2>4. CASE PauseForHarness
    <3>1. PICK b, s : b = Bumped(run) /\ run' \in
                        {run, [b EXCEPT !.status = s, !.reason = "harness"]}
      BY <2>2, <2>4 DEF PauseForHarness
    <3>2. b \in Run /\ b.packet = run.packet
      BY <1>t, <3>1, NextRevision
    <3> QED
      BY <2>1, <3>1, <3>2 DEF Run
  <2> QED
    BY <1>4, <2>3, <2>4
<1>5. CASE ReplayRefused \/ ReplayFails
  <2>1. /\ op.effect \in Effect /\ Sound(op.effect) /\ ~Moves(op.effect)
        /\ Under /\ op.mode = "replay" /\ op.base \in Run /\ PauseRunLocally
    BY <1>5, <1>t, FailingReplay, UnderWay, Standing
  <2>2. op.base.packet = run.packet
    <3>1. CASE Marks(op.effect)
      BY <2>1, <3>1 DEF Under, MarksOn, From, Sound, Marks
    <3>2. CASE ~Marks(op.effect)
      BY <1>t, <2>1, <3>2 DEF Under, StaysOn, SameButQuestion, Run
    <3> QED
      BY <3>1, <3>2
  <2>3. PICK n : /\ n = ReconciliationPause(Bumped(op.base))
                 /\ n.packet = op.base.packet
    BY <2>1, PausedRow
  <2>4. run' \in {run, op.base, n} /\ results' = results
    BY <2>1, <2>3 DEF PauseRunLocally
  <2> QED
    BY <2>2, <2>3, <2>4
<1>6. CASE RecordResults
  BY <1>6 DEF RecordResults
<1>7. CASE \/ BeginSome \/ Interrupt \/ StartReplay \/ StartReconcile \/ Abandon
           \/ UNCHANGED vars
  BY <1>7 DEF BeginSome, BeginTransition, BeginCommand, BeginPacketChange,
     BeginTerminal, BeginCommandProjection, BeginClarification,
     BeginCommitStatus, BeginPush, BeginCheckpoint, BeginPullRequest,
     BeginWorkerLaunch, BeginResume, BeginAcceptance, Begin, Interrupt,
     StartReplay, StartReconcile, Abandon, store, vars
<1>8. CASE \/ Reserve \/ Check \/ StopActiveWorkers \/ ReplaceLabels
           \/ PostStatusComment \/ RecordTransition \/ ApplyStatusComment
           \/ FindOrCreateQuestion \/ PushOnce \/ CreateCommitStatus
           \/ CreateCheckpoint \/ UpsertPullRequest \/ StartWorker
  BY <1>8 DEF Reserve, Check, StopActiveWorkers, ReplaceLabels,
     PostStatusComment, RecordTransition, ApplyStatusComment,
     FindOrCreateQuestion, PushOnce, CreateCommitStatus, CreateCheckpoint,
     UpsertPullRequest, StartWorker, store
<1>9. CASE \/ Count \/ Resume \/ Session \/ Terminal \/ Finish
           \/ SaveUnitResult \/ Clear \/ Diagnose \/ ApplyRefused
  BY <1>9 DEF Count, Resume, Session, Terminal, Finish, SaveUnitResult, Clear,
     Diagnose, ApplyRefused, store
<1> QED
  BY <1>1, <1>2, <1>3, <1>4, <1>5, <1>6, <1>7, <1>8, <1>9 DEF Next, Step

\* Gate results that are stored always belong to the packet of the stored run.
THEOREM ResultsBelong ==
  ASSUME MovesFailByTimeout
  PROVE  Spec => []ResultsMatchPacket
<1>1. Init => ResultsMatchPacket
  BY DEF Init, ResultsMatchPacket
<1>2. JournalInv /\ ResultsMatchPacket /\ [Next]_vars => ResultsMatchPacket'
  <2> SUFFICES ASSUME JournalInv, ResultsMatchPacket, [Next]_vars
               PROVE  ResultsMatchPacket'
    OBVIOUS
  <2>1. TypeInv'
    BY NextType DEF JournalInv
  <2> QED
    BY <2>1, PacketKept DEF ResultsMatchPacket
<1> QED
  BY JournalStarts, JournalKept, <1>1, <1>2, PTL DEF Spec

\* Only the last boundary of an effect, or a person, drops its reservation.
LEMMA ClearedBy ==
  ASSUME TypeInv, [Next]_vars, pending # NoEffect, pending' = NoEffect
  PROVE  Clear \/ Abandon
<1>1. ~BeginSome
  BY DEF BeginSome, BeginTransition, BeginCommand, BeginPacketChange,
     BeginTerminal, BeginCommandProjection, BeginClarification,
     BeginCommitStatus, BeginPush, BeginCheckpoint, BeginPullRequest,
     BeginWorkerLaunch, BeginResume, BeginAcceptance, Begin
<1>2. \/ Clear \/ Abandon \/ pending' = pending \/ Reserve
  BY <1>1 DEF Next, Step, RecordResults, Check, StopActiveWorkers,
     ReplaceLabels, PostStatusComment, SaveRun, RecordTransition,
     SaveWatermark, ApplyStatusComment, FindOrCreateQuestion, SaveQuestion,
     PushOnce, CreateCommitStatus, CreateCheckpoint, UpsertPullRequest,
     StartWorker, Count, Resume, Session, Terminal, Finish, SaveUnitResult,
     Diagnose, PauseForRecovery, PauseForHarness, ApplyRefused, ReplayRefused,
     ReplayFails, PauseRunLocally, Interrupt, StartReplay, StartReconcile, vars
<1>3. ~Reserve
  <2> SUFFICES ASSUME Reserve PROVE FALSE
    OBVIOUS
  <2>1. op.effect \in Effect /\ pending' = op.effect
    BY Standing DEF Reserve
  <2>2. op.effect.kind # "none"
    BY <2>1 DEF Effect, EffectKinds
  <2> QED
    BY <2>1, <2>2 DEF NoEffect
<1> QED
  BY <1>2, <1>3

\* No reservation is acknowledged before the run it reserved is durable.
THEOREM StoredBeforeAcknowledged ==
  ASSUME MovesFailByTimeout
  PROVE  Spec => AcknowledgedIsStored
<1> DEFINE Stored == pending # NoEffect /\ pending' = NoEffect /\ ~abandoned'
                       => pending.next.rev <= run.rev
                          /\ (pending.next.rev = run.rev
                                => pending.next.status = run.status)
<1>1. JournalInv /\ [Next]_vars => Stored
  <2> SUFFICES ASSUME JournalInv, [Next]_vars, pending # NoEffect,
                      pending' = NoEffect, ~abandoned'
               PROVE  /\ pending.next.rev <= run.rev
                      /\ pending.next.rev = run.rev
                           => pending.next.status = run.status
    OBVIOUS
  <2> DEFINE e == op.effect
  <2>1. Clear /\ At("clear")
    BY ClearedBy, Unabandoned DEF JournalInv, Clear
  <2>2. /\ Under /\ pending = e /\ e \in Effect /\ Sound(e) /\ Stands(e, run)
        /\ Place = "clear" /\ run \in Run
    BY <2>1, UnderWay, Standing DEF JournalInv
  <2>3. CASE Moves(e)
    <3>1. run = Final(e)
      BY <2>1, <2>3, AtClear DEF JournalInv
    <3> QED
      BY <2>2, <3>1, FinalRow DEF Run
  <2>4. CASE Marks(e)
    <3>1. e.next \in Run /\ e.next.rev \in Nat /\ run.rev \in Nat
      BY <2>2, FinalRow DEF Run
    <3>2. run = e.next \/ run.rev > e.next.rev
      BY <2>2, <2>4 DEF Under, MarksOn
    <3> QED
      BY <2>2, <3>1, <3>2
  <2>5. CASE ~Moves(e) /\ ~Marks(e)
    BY <2>2, <2>5, FinalRow DEF Stands
  <2> QED
    BY <2>3, <2>4, <2>5
<1>2. JournalInv /\ [Next]_vars
        => [pending # NoEffect /\ pending' = NoEffect /\ ~abandoned'
              => pending.next.rev <= run.rev
                 /\ (pending.next.rev = run.rev
                       => pending.next.status = run.status)]_vars
  BY <1>1
<1> QED
  BY JournalStarts, JournalKept, <1>2, PTL DEF Spec, AcknowledgedIsStored

-----------------------------------------------------------------------------
(* The journal implements the promise of a reserved transition *)

\* A row is reserved exactly while an effect that moves the run is pending.
LEMMA WhatIsReserved ==
  /\ Moves(pending) => ReservedStatus = pending.next.status
  /\ ~Moves(pending) => ReservedStatus = "none"
  BY DEF ReservedStatus, Moves

LEMMA PromiseStarts == Init => Promise!Init
  BY DEF Init, Promise!Init, ReservedStatus, NoEffect, ClaimedRun

\* Steps that change neither what is stored nor shown nor reserved.
LEMMA PromiseIdles ==
  ASSUME run'.status = run.status, issue'.label = issue.label,
         ReservedStatus' = ReservedStatus, abandoned' = abandoned
  PROVE  [Promise!Next]_(Promise!vars)
  BY DEF Promise!vars

LEMMA PromiseKept ==
  ASSUME JournalInv, MovesFailByTimeout, [Next]_vars
  PROVE  [Promise!Next]_(Promise!vars)
<1>t. /\ TypeInv /\ RowInv /\ run \in Run /\ TypeInv' /\ op \in Operation
      /\ issue \in [label : FactoryLabels, comments : Nat, body : Body,
                    questions : [1 .. MaxCount -> Nat]]
  BY NextType DEF JournalInv, TypeInv, TypeOK, OperationOK
<1>0. CASE abandoned'
  BY <1>0, Unabandoned DEF Promise!Next, Promise!Abandon, TypeInv, TypeOK
<1> SUFFICES ASSUME ~abandoned'
             PROVE  [Promise!Next]_(Promise!vars)
  BY <1>0
<1>a. ~Abandon /\ ~abandoned /\ abandoned' = abandoned
  BY Unabandoned, <1>t DEF TypeInv, TypeOK
<1>s. CommentKnown /\ IssueShows /\ CodeShows
  BY <1>a DEF JournalInv, ShowInv
<1>i. ASSUME run'.status = run.status, issue'.label = issue.label,
             pending' = pending
      PROVE  [Promise!Next]_(Promise!vars)
  BY <1>a, <1>i, PromiseIdles DEF ReservedStatus
<1>p. ASSUME run'.status = "waiting_for_human", issue'.label = issue.label,
             pending' = pending, ~Moves(pending)
      PROVE  [Promise!Next]_(Promise!vars)
  BY <1>a, <1>p, WhatIsReserved DEF ReservedStatus, Promise!Next, Promise!PauseInStore
<1>1. CASE Reserve
  <2> DEFINE e == op.effect
  <2>1. /\ At("reserve") /\ pending' = e /\ run' = run /\ issue' = issue
        /\ pending = NoEffect \/ SameReservation(pending, e)
    BY <1>1 DEF Reserve, store, external
  <2>2. /\ op.mode \in Modes /\ Place = "reserve" /\ e \in Effect
    BY <1>t, <2>1, Standing
  <2>3. CASE Moves(e)
    <3>1. ReservedStatus' = e.next.status
      BY <2>1, <2>3 DEF ReservedStatus, Moves
    <3>2. e.next.status \in RunStatuses
      BY <2>2 DEF Effect, Run
    <3> QED
      BY <1>a, <2>1, <3>1, <3>2 DEF Promise!Next, Promise!Reserve
  <2>4. CASE ~Moves(e)
    <3>1. pending = NoEffect
      BY <1>s, <2>2, <2>4 DEF CommentKnown, Moves
    <3>2. ReservedStatus' = "none"
      BY <2>1, <2>4 DEF ReservedStatus, Moves
    <3>3. ReservedStatus = "none"
      BY <3>1 DEF ReservedStatus, NoEffect
    <3> QED
      BY <1>a, <2>1, <3>2, <3>3, PromiseIdles
  <2> QED
    BY <2>3, <2>4
<1>2. CASE ReplaceLabels
  <2> DEFINE e == op.effect
  <2>1. /\ At("labels") /\ pending' = pending /\ run' = run
        /\ issue'.label = FactoryLabelForStatus(op.next.status)
    BY <1>2, <1>t DEF ReplaceLabels, store
  <2>2. /\ Under /\ pending = e /\ e \in Effect /\ Sound(e)
        /\ OwnedBy("labels", e)
    BY <1>t, <2>1, UnderWay
  <2>3. Moves(e)
    BY <2>2 DEF OwnedBy
  <2>4. op.next.status = e.next.status /\ e.next.status \in RunStatuses
    BY <2>2, <2>3, FinalRow DEF Under, MovesOn, Nearly, Agree, Run
  <2>5. /\ ReservedStatus = e.next.status /\ ReservedStatus' = ReservedStatus
        /\ ReservedStatus # "none"
    BY <2>1, <2>2, <2>3, <2>4, WhatIsReserved DEF ReservedStatus, RunStatuses
  <2> QED
    BY <1>a, <2>1, <2>4, <2>5 DEF Promise!Next, Promise!Show
<1>3. CASE SaveRun
  <2> DEFINE e == op.effect
  <2>1. /\ At("save") /\ pending' = pending /\ issue' = issue
        /\ Moves(e) /\ run' = Final(e)
    BY <1>3, <1>t, SavedRow DEF SaveRun, external
  <2>2. /\ pending = e /\ e \in Effect /\ Sound(e)
    BY <1>t, <2>1, UnderWay
  <2>3. run'.status = e.next.status /\ e.next.status \in RunStatuses
    BY <2>1, <2>2, FinalRow DEF Run
  <2>4. /\ ReservedStatus = e.next.status /\ ReservedStatus' = ReservedStatus
        /\ ReservedStatus # "none"
    BY <2>1, <2>2, <2>3, WhatIsReserved DEF ReservedStatus, RunStatuses
  <2> QED
    BY <1>a, <2>1, <2>3, <2>4 DEF Promise!Next, Promise!Store
<1>4. CASE Clear
  <2> DEFINE e == op.effect
  <2>1. /\ At("clear") /\ pending' = NoEffect /\ issue' = issue /\ run' = run
    BY <1>4 DEF Clear, store, external
  <2>2. /\ pending = e /\ e \in Effect /\ Sound(e) /\ op.mode \in Modes
        /\ Place = "clear"
    BY <1>t, <2>1, UnderWay, Standing
  <2>3. ReservedStatus' = "none"
    BY <2>1 DEF ReservedStatus, NoEffect
  <2>4. CASE Moves(e)
    <3>1. run.status = e.next.status /\ e.next.status \in RunStatuses
      BY <1>t, <2>1, <2>2, <2>4, AtClear, FinalRow DEF Run
    <3>2. LabelShows(e.next)
      BY <1>s, <2>2, <2>4 DEF IssueShows, Working, LabelledAt
    <3>3. ReservedStatus = e.next.status /\ ReservedStatus # "none"
      BY <2>2, <2>4, <3>1, WhatIsReserved DEF RunStatuses
    <3> QED
      BY <1>a, <2>1, <2>3, <3>1, <3>2, <3>3
         DEF Promise!Next, Promise!Acknowledge, LabelShows
  <2>5. CASE ~Moves(e)
    BY <1>a, <2>1, <2>2, <2>3, <2>5, WhatIsReserved, PromiseIdles
  <2> QED
    BY <2>4, <2>5
<1>5. CASE SaveWatermark
  <2>1. /\ At("watermark") /\ pending' = pending /\ issue' = issue
        /\ run' = IF run.rev < op.next.rev THEN op.next ELSE run
    BY <1>5 DEF SaveWatermark, external
  <2>2. /\ Under /\ op.effect \in Effect /\ Sound(op.effect)
        /\ Stands(op.effect, run) /\ OwnedBy("watermark", op.effect)
    BY <1>t, <2>1, UnderWay
  <2>3. Marks(op.effect) /\ ~Moves(op.effect) /\ op.next = op.effect.next
    BY <2>2 DEF OwnedBy, Under, MarksOn, Marks, Moves
  <2>4. run.rev < op.effect.next.rev => From(op.effect, run)
    BY <1>t, <2>2, <2>3, FinalRow DEF Stands, PausedOver, Run
  <2>5. run'.status = run.status
    BY <2>1, <2>3, <2>4 DEF From
  <2> QED
    BY <1>i, <2>1, <2>5
<1>6. CASE SaveQuestion
  <2>1. /\ At("saveQuestion") /\ Under /\ op.mode \in Modes
        /\ OwnedBy("saveQuestion", op.effect)
    BY <1>6, <1>t, Standing, UnderWay DEF SaveQuestion
  <2>2. op.mode = "apply" => op.next = run
    BY <2>1 DEF Under, StaysOn, OwnedBy, Moves, Marks
  <2>3. run' = [run EXCEPT !.question = op.effect.target]
    BY <1>6, <2>1, <2>2 DEF SaveQuestion, Replaying, Modes
  <2> QED
    BY <1>6, <1>i, <1>t, <2>3 DEF SaveQuestion, Run, external
<1>7. CASE PauseForRecovery \/ PauseForHarness
  <2>1. /\ run' = run \/ run'.status = "waiting_for_human"
        /\ pending = NoEffect /\ pending' = pending /\ issue' = issue
    BY <1>7, <1>s, <1>t, PausesShow DEF PauseForRecovery, PauseForHarness
  <2>2. ~Moves(NoEffect)
    BY DEF Moves, NoEffect
  <2> QED
    BY <1>i, <1>p, <2>1, <2>2
<1>8. CASE ReplayRefused \/ ReplayFails
  <2>1. /\ run'.status = run.status \/ run'.status = "waiting_for_human"
        /\ pending = op.effect /\ ~Moves(op.effect) /\ PauseRunLocally
    BY <1>8, <1>s, <1>t, FailingShows, FailingReplay
  <2>2. pending' = pending /\ issue' = issue
    BY <2>1 DEF PauseRunLocally
  <2> QED
    BY <1>i, <1>p, <2>1, <2>2
<1>9. CASE PostStatusComment \/ ApplyStatusComment \/ FindOrCreateQuestion
  <2>1. run' = run /\ pending' = pending /\ issue'.label = issue.label
    BY <1>9, <1>t DEF PostStatusComment, ApplyStatusComment,
       FindOrCreateQuestion, store
  <2> QED
    BY <1>i, <2>1
<1>10. CASE \/ BeginSome \/ Interrupt \/ StartReplay \/ StartReconcile
            \/ RecordResults \/ UNCHANGED vars
  <2>1. run' = run /\ pending' = pending /\ issue' = issue
    BY <1>10 DEF BeginSome, BeginTransition, BeginCommand, BeginPacketChange,
       BeginTerminal, BeginCommandProjection, BeginClarification,
       BeginCommitStatus, BeginPush, BeginCheckpoint, BeginPullRequest,
       BeginWorkerLaunch, BeginResume, BeginAcceptance, Begin, Interrupt,
       StartReplay, StartReconcile, RecordResults, store, external, vars
  <2> QED
    BY <1>i, <2>1
<1>11. CASE \/ Check \/ StopActiveWorkers \/ RecordTransition \/ PushOnce
            \/ CreateCommitStatus \/ CreateCheckpoint \/ UpsertPullRequest
            \/ StartWorker \/ Count \/ Resume \/ Session \/ Terminal \/ Finish
            \/ SaveUnitResult \/ Diagnose \/ ApplyRefused
  <2>1. run' = run /\ pending' = pending /\ issue' = issue
    BY <1>11 DEF Check, StopActiveWorkers, RecordTransition, PushOnce,
       CreateCommitStatus, CreateCheckpoint, UpsertPullRequest, StartWorker,
       Count, Resume, Session, Terminal, Finish, SaveUnitResult, Diagnose,
       ApplyRefused, store, external
  <2> QED
    BY <1>i, <2>1
<1> QED
  BY <1>a, <1>1, <1>2, <1>3, <1>4, <1>5, <1>6, <1>7, <1>8, <1>9, <1>10, <1>11
     DEF Next, Step

\* The journal implements ReservedTransition: the status a reservation names is
\* shown and stored before it is acknowledged, and between reservations only a
\* pause may be stored without being shown.
THEOREM PromiseHolds ==
  ASSUME MovesFailByTimeout
  PROVE  Spec => KeepsPromise
<1> QED
  BY JournalStarts, JournalKept, PromiseStarts, PromiseKept, PTL
     DEF Spec, KeepsPromise, Promise!Spec
=============================================================================
