------------------------- MODULE ReviewRoundProofs -------------------------
(***************************************************************************)
(* Theorems about the review of a change, for every number of units and    *)
(* reports, every budget and every bound: types first, then the rows of a  *)
(* round, its limits, its verdict and its repair, and the safety           *)
(* properties that follow.                                                 *)
(***************************************************************************)
EXTENDS ReviewRound, FiniteSetTheorems, TLAPS

\* The stages of a launch after its unit is chosen, and of an acceptance
\* before its effect is gone.
Launching == {"prepare", "start", "commit"}
Accepting == {"record", "save"}

\* Only a launch or an acceptance whose unit is known touches a slot.
UnitKnown == step.at \in Launching \cup Accepting => step.unit # 0
TypeInv == TypeOK /\ UnitKnown

-----------------------------------------------------------------------------
(* Facts about the rows and the steps of the coordinator *)

\* The values everything starts from have their types.
LEMMA EmptyTypes ==
  /\ NoProjection \in [Axes -> Report \cup {NoReport}]
  /\ NoResults \in [Slots -> Report \cup {NoReport}]
  /\ NoSessions \in [Slots -> SessionStates]
  /\ NoRound \in Round
  /\ Idle \in Step /\ Idle.at = "idle"
<1>1. 0 \in 0..MaxUnits
  BY UnitsAssumption
<1>2. NoRound \in Round
  BY <1>1 DEF NoRound, Round
<1>3. Idle \in Step /\ Idle.at = "idle"
  BY <1>1 DEF Idle, Step, Stages, Axes
<1> QED
  BY <1>2, <1>3 DEF NoProjection, NoResults, NoSessions, SessionStates

\* The updates of the run row that several actions share keep its type.
LEMMA RunUpdates ==
  ASSUME NEW r \in Run
  PROVE  /\ Paused(r) \in Run
         /\ \A s : Released(r, s) \in Run
         /\ Keys(r) \subseteq Blockers
<1>1. Paused(r) \in Run
  BY DEF Run, Paused
<1>2. \A s : Released(r, s) \in Run
  BY DEF Run, Released
<1>3. Keys(r) \subseteq Blockers
  BY DEF Run, Keys, Report, NoReport
<1> QED
  BY <1>1, <1>2, <1>3

\* The aggregate of an axis is a report about known blockers.
LEMMA AggregateType ==
  ASSUME TypeOK, NEW a \in Axes
  PROVE  Aggregate(a) \in Report /\ Aggregate(a) # NoReport
<1>1. ResultsOf(a) \subseteq Report
  <2>1. \A s \in Slots : results[s] # NoReport => results[s] \in Report
    BY DEF TypeOK
  <2>2. Done \subseteq Slots /\ \A s \in Done : results[s] # NoReport
    <3>1. round.size \in 0..MaxUnits
      BY DEF TypeOK, Round
    <3>2. 1..round.size \subseteq 1..MaxUnits
      BY <3>1, UnitsAssumption
    <3> QED
      BY <3>2 DEF Done, RoundSlots, Slots
  <2> QED
    BY <2>1, <2>2 DEF ResultsOf
<1>2. BlocksOf(a) \subseteq Blockers
  BY <1>1 DEF BlocksOf, Report
<1>3. Aggregate(a).outcome \in {"done", "asks", "stuck"}
  BY DEF Aggregate
<1> QED
  BY <1>2, <1>3 DEF Aggregate, Report, NoReport

\* Going to another stage keeps what the coordinator works on.
LEMMA GotoType ==
  ASSUME step \in Step, NEW stage \in Stages, Goto(stage)
  PROVE  /\ step' \in Step /\ step'.at = stage
         /\ step'.unit = step.unit /\ step'.axis = step.axis
         /\ step'.repair = step.repair /\ step'.then = step.then
  BY DEF Step, Goto

\* An operation ends idle or in the recovery it belongs to.
LEMMA ReturnType ==
  ASSUME Return
  PROVE  step' \in Step /\ step'.at \in {"idle", "recover"}
<1>1. [Idle EXCEPT !.at = "recover"] \in Step
  BY EmptyTypes DEF Step, Stages
<1>2. [Idle EXCEPT !.at = "recover"].at = "recover"
  BY DEF Idle
<1> QED
  BY <1>1, <1>2, EmptyTypes DEF Return

\* A fault stays within its bound.
LEMMA FaultType ==
  ASSUME faults \in 0..MaxFaults, Fault
  PROVE  faults' \in 0..MaxFaults
  BY BoundAssumption DEF Fault

\* Setting the state of one session keeps them sessions.
LEMMA SessionUpdate ==
  ASSUME sessions \in [Slots -> SessionStates], NEW s, NEW v \in SessionStates
  PROVE  [sessions EXCEPT ![s] = v] \in [Slots -> SessionStates]
  OBVIOUS

\* Outside of a launch and an acceptance no unit need be known.
LEMMA NoUnitNeeded ==
  ASSUME step'.at \notin Launching \cup Accepting
  PROVE  UnitKnown'
  BY DEF UnitKnown

\* Where a unit is known, the step is about an assignment.
LEMMA SlotType ==
  ASSUME TypeInv, step.at \in Launching \cup Accepting
  PROVE  Slot \in Slots
<1>1. step.axis \in Axes /\ step.unit \in 0..MaxUnits /\ step.unit # 0
  BY DEF TypeInv, TypeOK, UnitKnown, Step
<1>2. step.unit \in 1..MaxUnits
  BY <1>1, UnitsAssumption
<1> QED
  BY <1>1, <1>2 DEF Slot, Slots

-----------------------------------------------------------------------------
(* Every step keeps the types *)

\* A checkpoint that was just delivered.
LEMMA InitType == Init => TypeInv
<1> SUFFICES ASSUME Init PROVE TypeInv
  OBVIOUS
<1>1. run \in Run
  BY EmptyTypes DEF Init, Run
<1>2. /\ code \in 1..MaxCode /\ faults \in 0..MaxFaults
      /\ pr \in [draft : BOOLEAN, head : {"ours", "foreign"}]
  BY BoundAssumption DEF Init
<1>3. TypeOK
  BY <1>1, <1>2, EmptyTypes DEF Init, TypeOK
<1>4. UnitKnown
  BY EmptyTypes DEF Init, UnitKnown, Launching, Accepting
<1> QED
  BY <1>3, <1>4 DEF TypeInv

\* Beginning an operation changes only the step.
LEMMA BeginType ==
  ASSUME TypeInv, step' \in Step, UnitKnown',
         UNCHANGED <<run, round, results, sessions, impl, effect, world,
                     history>>
  PROVE  TypeInv'
  BY DEF TypeInv, TypeOK, world, history

\* The idle coordinator begins an operation, or asks a person.
LEMMA StartsType ==
  ASSUME TypeInv,
         \/ StartReviewUnit \/ RetryReviewReadiness \/ StartReviewRound
         \/ StartImplementation \/ ReviewStops
  PROVE  TypeInv'
<1>1. CASE StartReviewUnit
  <2>1. PICK s \in Slots :
          step' = [Idle EXCEPT !.at = "launch", !.axis = s[1], !.unit = s[2]]
    BY <1>1 DEF StartReviewUnit
  <2>2. s[1] \in Axes /\ s[2] \in 0..MaxUnits
    BY UnitsAssumption DEF Slots
  <2>3. step' \in Step /\ step'.at = "launch"
    BY <2>1, <2>2, EmptyTypes DEF Step, Stages
  <2> QED
    BY <1>1, <2>3, BeginType, NoUnitNeeded
       DEF StartReviewUnit, Launching, Accepting
<1>2. CASE RetryReviewReadiness \/ StartImplementation
  <2>1. step \in Step /\ {"ready", "implement"} \subseteq Stages
    BY DEF TypeInv, TypeOK, Stages
  <2>2. step' \in Step /\ step'.at \in {"ready", "implement"}
    BY <1>2, <2>1, GotoType DEF RetryReviewReadiness, StartImplementation
  <2> QED
    BY <1>2, <2>2, BeginType, NoUnitNeeded
       DEF RetryReviewReadiness, StartImplementation, Launching, Accepting
<1>3. CASE StartReviewRound
  <2>1. step' \in Step /\ step'.at = "launch"
    BY <1>3, EmptyTypes DEF StartReviewRound, Step, Stages
  <2> QED
    BY <1>3, <2>1, BeginType, NoUnitNeeded
       DEF StartReviewRound, Launching, Accepting
<1>4. CASE ReviewStops
  <2>1. run' \in Run
    BY <1>4, RunUpdates DEF ReviewStops, TypeInv, TypeOK
  <2> QED
    BY <1>4, <2>1 DEF ReviewStops, TypeInv, TypeOK, UnitKnown, world, history
<1> QED
  BY <1>1, <1>2, <1>3, <1>4

\* A launch of a reviewer.
LEMMA LaunchType ==
  ASSUME TypeInv,
         LaunchReviewer \/ PrepareReview \/ StartReviewer \/ CommitReviewer
  PROVE  TypeInv'
<1> USE DEF Launching, Accepting
<1>0. /\ step \in Step /\ run \in Run /\ round \in Round
      /\ sessions \in [Slots -> SessionStates] /\ host \in Nat \ {0}
  BY HostAssumption DEF TypeInv, TypeOK
<1>1. CASE LaunchReviewer
  <2>1. CASE LaunchRefused /\ run' = Paused(run) /\ Return /\ UNCHANGED round
    <3>1. run' \in Run /\ step' \in Step /\ UnitKnown'
      BY <1>0, <2>1, RunUpdates, ReturnType, NoUnitNeeded
    <3> QED
      BY <1>1, <2>1, <3>1 DEF LaunchReviewer, TypeInv, TypeOK, world, history
  <2>2. CASE SaveReviewManifest
    <3>1. PICK n \in 1..MaxUnits :
            round' = [status |-> "pending", size |-> n, ceiling |-> host,
                      authorized |-> FALSE]
      BY <2>2 DEF SaveReviewManifest
    <3>2. n \in 0..MaxUnits /\ 1 \in 0..MaxUnits
      BY UnitsAssumption
    <3>3. round' \in Round
      BY <1>0, <3>1, <3>2 DEF Round
    <3>4. step' \in Step /\ step'.unit = 1
      BY <1>0, <2>2, <3>2 DEF SaveReviewManifest, Step, Stages
    <3>5. UnitKnown' /\ run' \in Run
      BY <1>0, <2>2, <3>4 DEF UnitKnown, SaveReviewManifest
    <3> QED
      BY <1>1, <3>3, <3>4, <3>5
         DEF LaunchReviewer, TypeInv, TypeOK, world, history
  <2>3. CASE ChosenUnit /\ UNCHANGED <<run, round>>
    <3>1. PICK u \in 1..MaxUnits : step' = [step EXCEPT !.at = "prepare",
                                                        !.unit = u]
      BY <2>3 DEF ChosenUnit
    <3>2. u \in 0..MaxUnits /\ u # 0
      BY UnitsAssumption
    <3>3. step' \in Step /\ step'.unit # 0
      BY <1>0, <3>1, <3>2 DEF Step, Stages
    <3> QED
      BY <1>1, <2>3, <3>3
         DEF LaunchReviewer, TypeInv, TypeOK, UnitKnown, world, history
  <2> QED
    BY <1>1, <2>1, <2>2, <2>3 DEF LaunchReviewer
<1>2. CASE PrepareReview
  <2>1. round' \in Round
    BY <1>0, <1>2 DEF PrepareReview, Round
  <2>2. CASE Oversized
    <3>1. run' \in Run /\ step' \in Step /\ UnitKnown'
      BY <1>0, <1>2, <2>2, RunUpdates, ReturnType, NoUnitNeeded
         DEF PrepareReview
    <3> QED
      BY <1>2, <2>1, <3>1 DEF PrepareReview, TypeInv, TypeOK, world, history
  <2>3. CASE ~Oversized
    <3>1. step' \in Step /\ step'.unit = step.unit
      BY <1>0, <1>2, <2>3, GotoType DEF PrepareReview, Stages
    <3>2. UnitKnown'
      BY <1>2, <3>1 DEF PrepareReview, TypeInv, UnitKnown, At
    <3> QED
      BY <1>2, <2>1, <2>3, <3>1, <3>2
         DEF PrepareReview, TypeInv, TypeOK, world, history
  <2> QED
    BY <2>2, <2>3
<1>3. CASE StartReviewer
  <2>1. step' \in Step /\ step'.unit = step.unit
    BY <1>0, <1>3, GotoType DEF StartReviewer, Stages
  <2>2. UnitKnown'
    BY <1>3, <2>1 DEF StartReviewer, TypeInv, UnitKnown, At
  <2>3. sessions' \in [Slots -> SessionStates]
    BY <1>0, <1>3, SessionUpdate DEF StartReviewer, SessionStates
  <2> QED
    BY <1>3, <2>1, <2>2, <2>3
       DEF StartReviewer, TypeInv, TypeOK, world, history
<1>4. CASE CommitReviewer
  <2>1. Slot \in Slots
    BY <1>4, SlotType DEF CommitReviewer, At
  <2>2. run' \in Run
    BY <1>0, <1>4, <2>1 DEF CommitReviewer, Run
  <2>3. sessions' \in [Slots -> SessionStates]
    BY <1>0, <1>4, SessionUpdate DEF CommitReviewer, SessionStates
  <2>4. step' \in Step /\ step'.at \in {"idle", "launch"}
    BY <1>4, EmptyTypes DEF CommitReviewer, Step, Stages, Axes
  <2>5. UnitKnown'
    BY <2>4, NoUnitNeeded
  <2> QED
    BY <1>4, <2>2, <2>3, <2>4, <2>5
       DEF CommitReviewer, TypeInv, TypeOK, world, history
<1> QED
  BY <1>1, <1>2, <1>3, <1>4

\* The acceptance of a report.
LEMMA AcceptType ==
  ASSUME TypeInv, ReserveAcceptance \/ RecordResult \/ SaveRun
  PROVE  TypeInv'
<1> USE DEF Launching, Accepting
<1>0. /\ step \in Step /\ run \in Run
      /\ sessions \in [Slots -> SessionStates]
      /\ effect \in Effect \cup {NoEffect}
  BY DEF TypeInv, TypeOK
<1>1. CASE ReserveAcceptance
  <2>1. PICK s \in Slots, r \in Reports :
          /\ effect' = [slot |-> s, report |-> r]
          /\ step' = [Idle EXCEPT !.at = "record", !.axis = s[1],
                                  !.unit = s[2]]
    BY <1>1 DEF ReserveAcceptance
  <2>2. s[1] \in Axes /\ s[2] \in 0..MaxUnits /\ s[2] # 0
    BY UnitsAssumption DEF Slots
  <2>3. step' \in Step /\ step'.unit # 0
    BY <2>1, <2>2, EmptyTypes DEF Step, Stages
  <2>4. effect' \in Effect
    BY <2>1, ReportAssumption DEF Effect
  <2> QED
    BY <1>1, <2>3, <2>4
       DEF ReserveAcceptance, TypeInv, TypeOK, UnitKnown, world, history
<1>2. CASE RecordResult
  <2>1. sessions' \in [Slots -> SessionStates]
    BY <1>0, <1>2, SessionUpdate DEF RecordResult, SessionStates
  <2>2. effect.report \in Report \cup {NoReport}
    BY <1>0 DEF Effect, NoEffect
  <2>3. results' \in [Slots -> Report \cup {NoReport}]
    BY <1>2, <2>2 DEF RecordResult, TypeInv, TypeOK
  <2>4. step' \in Step /\ step'.unit = step.unit
    BY <1>0, <1>2, GotoType DEF RecordResult, Stages
  <2>5. UnitKnown'
    BY <1>2, <2>4 DEF RecordResult, TypeInv, UnitKnown, At
  <2> QED
    BY <1>2, <2>1, <2>3, <2>4, <2>5
       DEF RecordResult, TypeInv, TypeOK, world, history
<1>3. CASE SaveRun
  <2>1. run' \in Run
    BY <1>0, <1>3, RunUpdates DEF SaveRun
  <2>2. step' \in Step /\ step'.at = "dispatch"
    BY <1>0, <1>3, GotoType DEF SaveRun, Stages
  <2>3. UnitKnown'
    BY <2>2, NoUnitNeeded
  <2> QED
    BY <1>3, <2>1, <2>2, <2>3
       DEF SaveRun, TypeInv, TypeOK, world, history
<1> QED
  BY <1>1, <1>2, <1>3

\* The projection of an accepted report, with every complete aggregate.
LEMMA ProjectedType ==
  ASSUME TypeOK
  PROVE  Projected \in Run
<1>0. run \in Run /\ step.axis \in Axes
  BY DEF TypeOK, Step
<1> DEFINE base == IF step.unit = 0 THEN run ELSE Released(run, Slot)
           proj == [base.proj EXCEPT ![step.axis] = Aggregate(step.axis)]
           asks == {a \in Axes : proj[a].outcome = "asks"}
<1>1. base \in Run
  BY <1>0, RunUpdates
<1>2. proj \in [Axes -> Report \cup {NoReport}]
  BY <1>0, <1>1, AggregateType DEF Run
<1>3. [base EXCEPT !.proj = proj, !.questions = asks] \in Run
  <2> HIDE DEF base, proj
  <2> QED
    BY <1>1, <1>2 DEF Run
<1> QED
  BY <1>1, <1>3 DEF Projected

\* The round and the run follow the stored results.
LEMMA DispatchType ==
  ASSUME TypeInv, MarkRound \/ ProjectReview \/ RouteReviewRepair
  PROVE  TypeInv'
<1> USE DEF Launching, Accepting
<1>0. step \in Step /\ run \in Run /\ round \in Round
  BY DEF TypeInv, TypeOK
<1>1. CASE MarkRound
  <2>1. run' \in Run
    BY <1>0, <1>1, RunUpdates DEF MarkRound
  <2>2. round' \in Round
    BY <1>0, <1>1 DEF MarkRound, Round
  <2>3. step' \in Step /\ step'.at \in {"idle", "project"}
    BY <1>0, <1>1, EmptyTypes, GotoType DEF MarkRound, Stages
  <2>4. UnitKnown'
    BY <2>3, NoUnitNeeded
  <2> QED
    BY <1>1, <2>1, <2>2, <2>3, <2>4
       DEF MarkRound, TypeInv, TypeOK, world, history
<1>2. CASE ProjectReview
  <2>1. Released(run, Slot) \in Run /\ Projected \in Run
    BY <1>0, RunUpdates, ProjectedType DEF TypeInv
  <2>2. \A r \in Run, v \in {"active", "waiting"} :
          [r EXCEPT !.status = v] \in Run
    BY DEF Run
  <2>3. run' \in Run
    BY <1>2, <2>1, <2>2 DEF ProjectReview
  <2>4. Return \/ \E stage \in {"ready", "route"} : Goto(stage)
    BY <1>2 DEF ProjectReview
  <2>5. step' \in Step /\ step'.at \in {"idle", "recover", "ready", "route"}
    BY <1>0, <2>4, ReturnType, GotoType DEF Stages
  <2>6. UnitKnown'
    BY <2>5, NoUnitNeeded
  <2> QED
    BY <1>2, <2>3, <2>5, <2>6
       DEF ProjectReview, TypeInv, TypeOK, world, history
<1>3. CASE RouteReviewRepair
  <2>1. Remember(Keys(run)) \subseteq Blockers
    BY <1>0, RunUpdates DEF Remember, Run
  <2>2. run' \in Run
    <3>1. CASE Decision = "start"
      <4>1. run.attempts + 1 \in Nat
        BY <1>0 DEF Run
      <4>2. PICK n \in Nat, seen \in SUBSET Blockers :
              run' = [run EXCEPT !.stage = "implementation",
                        !.status = "active", !.pending = n,
                        !.seen = seen, !.questions = {}]
        BY <1>3, <2>1, <3>1, <4>1 DEF RouteReviewRepair
      <4> QED
        BY <1>0, <4>2 DEF Run
    <3>2. CASE Decision # "start"
      <4>1. PICK seen \in SUBSET Blockers :
              run' = [run EXCEPT !.status = "waiting", !.pending = 0,
                                 !.seen = seen]
        BY <1>0, <1>3, <2>1, <3>2 DEF RouteReviewRepair, Run
      <4> QED
        BY <1>0, <4>1 DEF Run
    <3> QED
      BY <3>1, <3>2
  <2>3. step' \in Step /\ step'.at \in {"idle", "recover", "implement"}
    <3>1. CASE Decision = "start"
      BY <1>0, <1>3, <3>1 DEF RouteReviewRepair, Step, Stages
    <3>2. CASE Decision # "start"
      BY <1>3, <3>2, ReturnType DEF RouteReviewRepair
    <3> QED
      BY <3>1, <3>2
  <2>4. UnitKnown'
    BY <2>3, NoUnitNeeded
  <2> QED
    BY <1>3, <2>2, <2>3, <2>4
       DEF RouteReviewRepair, TypeInv, TypeOK, world, history
<1> QED
  BY <1>1, <1>2, <1>3

\* A session that goes to work is counted.
LEMMA WorksType ==
  ASSUME TypeInv, Works
  PROVE  /\ impl' = "live" /\ auto' \in Nat
         /\ sent' \subseteq Blockers /\ resent' \in BOOLEAN
<1>1. Keys(run) \subseteq Blockers
  BY RunUpdates DEF TypeInv, TypeOK
<1>2. impl' = "live" /\ auto' \in Nat /\ sent' \subseteq Blockers
  BY <1>1 DEF Works, TypeInv, TypeOK, history
<1>3. resent' = resent \/ resent' \in BOOLEAN
  BY DEF Works, history
<1>4. resent' \in BOOLEAN
  BY <1>3 DEF TypeInv, TypeOK
<1> QED
  BY <1>2, <1>4

\* The repair of blocking findings.
LEMMA RepairType ==
  ASSUME TypeInv,
         \/ LaunchImplementer \/ CommitImplementer \/ ImplementerFails
         \/ ImplementerRateLimited \/ RetryWaitingForHarness
  PROVE  TypeInv'
<1> USE DEF Launching, Accepting
<1>0. step \in Step /\ run \in Run /\ faults \in 0..MaxFaults
  BY DEF TypeInv, TypeOK
<1>1. CASE LaunchImplementer
  <2>1. step' \in Step /\ step'.at = "committed"
    BY <1>0, <1>1, GotoType DEF LaunchImplementer, Stages
  <2> QED
    BY <1>1, <2>1, NoUnitNeeded
       DEF LaunchImplementer, TypeInv, TypeOK, world, history
<1>2. CASE CommitImplementer
  <2>1. run' \in Run
    BY <1>0, <1>2 DEF CommitImplementer, Run
  <2>2. step' \in Step /\ UnitKnown'
    BY <1>2, ReturnType, NoUnitNeeded DEF CommitImplementer
  <2> QED
    BY <1>2, <2>1, <2>2, WorksType
       DEF CommitImplementer, TypeInv, TypeOK, world
<1>3. CASE ImplementerFails
  <2>1. run' \in Run
    <3>1. Paused(run) \in Run
      BY <1>0, RunUpdates
    <3>2. [run EXCEPT !.stage = "review", !.status = "waiting",
                      !.pending = 0] \in Run
      BY <1>0 DEF Run
    <3> QED
      BY <1>3, <3>1, <3>2 DEF ImplementerFails
  <2>2. step' \in Step /\ UnitKnown' /\ faults' \in 0..MaxFaults
    BY <1>0, <1>3, ReturnType, NoUnitNeeded, FaultType DEF ImplementerFails
  <2> QED
    BY <1>3, <2>1, <2>2 DEF ImplementerFails, TypeInv, TypeOK, history
<1>4. CASE ImplementerRateLimited
  <2>1. run' \in Run
    BY <1>0, <1>4 DEF ImplementerRateLimited, Run
  <2>2. step' \in Step /\ UnitKnown' /\ faults' \in 0..MaxFaults
    BY <1>0, <1>4, ReturnType, NoUnitNeeded, FaultType
       DEF ImplementerRateLimited
  <2> QED
    BY <1>4, <2>1, <2>2 DEF ImplementerRateLimited, TypeInv, TypeOK, history
<1>5. CASE RetryWaitingForHarness
  <2>1. CASE impl = "none"
    <3>1. step' \in Step /\ step'.at = "implement"
      BY <1>0, <1>5, <2>1, GotoType DEF RetryWaitingForHarness, Stages
    <3> QED
      BY <1>5, <2>1, <3>1, NoUnitNeeded
         DEF RetryWaitingForHarness, TypeInv, TypeOK, world, history
  <2>2. CASE impl # "none"
    <3>1. run' \in Run
      BY <1>0, <1>5, <2>2 DEF RetryWaitingForHarness, Run
    <3> QED
      BY <1>5, <2>2, <3>1, WorksType
         DEF RetryWaitingForHarness, TypeInv, TypeOK, UnitKnown, world
  <2> QED
    BY <2>1, <2>2
<1> QED
  BY <1>1, <1>2, <1>3, <1>4, <1>5

\* The readiness of the pull request.
LEMMA ReadinessType ==
  ASSUME TypeInv,
         CheckHead \/ RemoveDraftFlag \/ RejectUnreviewedHead \/ PersistReady
  PROVE  TypeInv'
<1> USE DEF Launching, Accepting
<1>0. /\ step \in Step /\ run \in Run
      /\ pr \in [draft : BOOLEAN, head : {"ours", "foreign"}]
  BY DEF TypeInv, TypeOK
<1>1. CASE CheckHead
  <2>1. \E stage \in {"revert", "undraft"} : Goto(stage)
    BY <1>1 DEF CheckHead
  <2>2. step' \in Step /\ UnitKnown'
    BY <1>0, <2>1, GotoType, NoUnitNeeded DEF Stages
  <2> QED
    BY <1>1, <2>2, BeginType DEF CheckHead
<1>2. CASE RemoveDraftFlag
  <2>1. \E stage \in {"revert", "persist"} : Goto(stage)
    BY <1>2 DEF RemoveDraftFlag
  <2>2. step' \in Step /\ UnitKnown'
    BY <1>0, <2>1, GotoType, NoUnitNeeded DEF Stages
  <2>3. pr' \in [draft : BOOLEAN, head : {"ours", "foreign"}]
    BY <1>0, <1>2 DEF RemoveDraftFlag
  <2> QED
    BY <1>2, <2>2, <2>3 DEF RemoveDraftFlag, TypeInv, TypeOK, history
<1>3. CASE RejectUnreviewedHead
  <2>1. pr' \in [draft : BOOLEAN, head : {"ours", "foreign"}]
    BY <1>0, <1>3 DEF RejectUnreviewedHead
  <2>2. run' \in Run /\ step' \in Step /\ UnitKnown'
    BY <1>0, <1>3, RunUpdates, EmptyTypes, NoUnitNeeded
       DEF RejectUnreviewedHead
  <2> QED
    BY <1>3, <2>1, <2>2 DEF RejectUnreviewedHead, TypeInv, TypeOK, history
<1>4. CASE PersistReady
  <2>1. run' \in Run
    BY <1>0, <1>4 DEF PersistReady, Run
  <2>2. step' \in Step /\ UnitKnown'
    BY <1>4, ReturnType, NoUnitNeeded DEF PersistReady
  <2> QED
    BY <1>4, <2>1, <2>2 DEF PersistReady, TypeInv, TypeOK, world, history
<1> QED
  BY <1>1, <1>2, <1>3, <1>4

\* Startup, replay and reconciliation.
LEMMA RecoveryType ==
  ASSUME TypeInv, StartUp \/ RecoverAggregate \/ Reconcile
  PROVE  TypeInv'
<1> USE DEF Launching, Accepting
<1>0. /\ step \in Step /\ run \in Run
      /\ sessions \in [Slots -> SessionStates]
      /\ effect \in Effect \cup {NoEffect}
  BY DEF TypeInv, TypeOK
<1>1. CASE StartUp
  <2>1. CASE effect = NoEffect
    <3>1. step' \in Step /\ step'.at = "recover"
      BY <1>1, <2>1, EmptyTypes DEF StartUp, Step, Stages
    <3> QED
      BY <1>1, <3>1, NoUnitNeeded, BeginType DEF StartUp
  <2>2. CASE effect # NoEffect
    <3>1. effect.slot \in Slots
      BY <1>0, <2>2 DEF Effect
    <3>2. /\ effect.slot[1] \in Axes /\ effect.slot[2] \in 0..MaxUnits
          /\ effect.slot[2] # 0
      BY <3>1, UnitsAssumption DEF Slots
    <3>3. step' = [Idle EXCEPT !.at = "record", !.axis = effect.slot[1],
                     !.unit = effect.slot[2], !.replay = TRUE,
                     !.then = "recover"]
      BY <1>1, <2>2 DEF StartUp
    <3>4. step' \in Step /\ step'.unit # 0
      BY <3>2, <3>3, EmptyTypes DEF Step, Stages
    <3>5. UnitKnown'
      BY <3>4 DEF UnitKnown
    <3> QED
      BY <1>1, <3>4, <3>5, BeginType DEF StartUp
  <2> QED
    BY <2>1, <2>2
<1>2. CASE RecoverAggregate
  <2>1. step' \in Step /\ step'.at = "dispatch"
    BY <1>2, EmptyTypes DEF RecoverAggregate, Step, Stages, Axes
  <2> QED
    BY <1>2, <2>1, NoUnitNeeded, BeginType DEF RecoverAggregate
<1>3. CASE Reconcile
  <2>1. step' \in Step /\ UnitKnown'
    BY <1>3, EmptyTypes, NoUnitNeeded DEF Reconcile
  <2>2. CASE UNCHANGED <<run, sessions, impl, history>>
    BY <1>3, <2>1, <2>2 DEF Reconcile, TypeInv, TypeOK, world, history
  <2>3. CASE Agree
    <3>1. sessions' \in [Slots -> SessionStates]
      BY <1>0, <2>3 DEF Agree, SessionStates
    <3>2. Works \/ UNCHANGED <<impl, history>>
      BY <2>3 DEF Agree
    <3> QED
      BY <1>3, <2>1, <2>3, <3>1, <3>2, WorksType
         DEF Agree, Reconcile, TypeInv, TypeOK, world, history
  <2>4. CASE Disagree
    <3>1. sessions' \in [Slots -> SessionStates]
      BY <1>0, <2>4 DEF Disagree, SessionStates
    <3>2. run' \in Run
      BY <1>0, <2>4, RunUpdates DEF Disagree
    <3> QED
      BY <1>3, <2>1, <2>4, <3>1, <3>2
         DEF Disagree, Reconcile, TypeInv, TypeOK, world, history
  <2> QED
    BY <1>3, <2>2, <2>3, <2>4 DEF Reconcile
<1> QED
  BY <1>1, <1>2, <1>3

\* Failed operations, a stop, and a reviewer past its deadline.
LEMMA FailureType ==
  ASSUME TypeInv, LaunchFails \/ WriteFails \/ Crash \/ Expire
  PROVE  TypeInv'
<1> USE DEF Launching, Accepting
<1>0. /\ step \in Step /\ run \in Run
      /\ sessions \in [Slots -> SessionStates] /\ faults \in 0..MaxFaults
  BY DEF TypeInv, TypeOK
<1>1. CASE LaunchFails
  <2>1. sessions' \in [Slots -> SessionStates]
    BY <1>0, <1>1, SessionUpdate DEF LaunchFails, SessionStates
  <2>2. /\ run' \in Run /\ step' \in Step /\ UnitKnown'
        /\ faults' \in 0..MaxFaults
    BY <1>0, <1>1, RunUpdates, ReturnType, NoUnitNeeded, FaultType
       DEF LaunchFails
  <2> QED
    BY <1>1, <2>1, <2>2 DEF LaunchFails, TypeInv, TypeOK, history
<1>2. CASE WriteFails
  <2>1. /\ run' \in Run /\ step' \in Step /\ UnitKnown'
        /\ faults' \in 0..MaxFaults
    BY <1>0, <1>2, RunUpdates, EmptyTypes, NoUnitNeeded, FaultType
       DEF WriteFails
  <2> QED
    BY <1>2, <2>1 DEF WriteFails, TypeInv, TypeOK, history
<1>3. CASE Crash
  <2>1. step' \in Step /\ step'.at = "down" /\ faults' \in 0..MaxFaults
    BY <1>0, <1>3, EmptyTypes, FaultType DEF Crash, Step, Stages
  <2> QED
    BY <1>3, <2>1, NoUnitNeeded DEF Crash, TypeInv, TypeOK, history
<1>4. CASE Expire
  <2>1. sessions' \in [Slots -> SessionStates] /\ faults' \in 0..MaxFaults
    BY <1>0, <1>4, SessionUpdate, FaultType DEF Expire, SessionStates
  <2> QED
    BY <1>4, <2>1 DEF Expire, TypeInv, TypeOK, UnitKnown, history
<1> QED
  BY <1>1, <1>2, <1>3, <1>4

\* People, reviewers and the delivery of a checkpoint.
LEMMA WorldType ==
  ASSUME TypeInv,
         \/ People \/ ActivateAuthorized \/ Deliver
         \/ \E s \in Slots : ReportReady(s)
  PROVE  TypeInv'
<1> USE DEF Launching, Accepting
<1>0. /\ step \in Step /\ run \in Run /\ round \in Round
      /\ sessions \in [Slots -> SessionStates] /\ faults \in 0..MaxFaults
      /\ pr \in [draft : BOOLEAN, head : {"ours", "foreign"}]
  BY DEF TypeInv, TypeOK
<1>1. CASE HandleRepair
  <2>1. run' \in Run
    BY <1>0, <1>1, EmptyTypes DEF HandleRepair, Run
  <2>2. pr' \in [draft : BOOLEAN, head : {"ours", "foreign"}]
    BY <1>0, <1>1 DEF HandleRepair
  <2> QED
    BY <1>1, <2>1, <2>2 DEF HandleRepair, TypeInv, TypeOK, UnitKnown, history
<1>2. CASE HandleAnswer
  <2>1. PICK q \in run.questions :
          run' = [run EXCEPT !.stage = "implementation", !.status = "active",
                    !.proj = NoProjection, !.questions = @ \ {q},
                    !.listed = {}, !.attempts = 0, !.pending = 0, !.seen = {}]
    BY <1>2 DEF HandleAnswer
  <2>3. run' \in Run
    BY <1>0, <2>1, EmptyTypes DEF Run
  <2>2. step' \in Step /\ step'.at = "implement"
    BY <1>0, <1>2, GotoType DEF HandleAnswer, Stages
  <2> QED
    BY <1>2, <2>2, <2>3, EmptyTypes, NoUnitNeeded
       DEF HandleAnswer, TypeInv, TypeOK, world
<1>3. CASE HandleReviewAuthorization
  <2>1. round' \in Round
    BY <1>0, <1>3 DEF HandleReviewAuthorization, Round
  <2>2. step' \in Step /\ step'.at = "authorize"
    BY <1>0, <1>3, GotoType DEF HandleReviewAuthorization, Stages
  <2> QED
    BY <1>3, <2>1, <2>2, NoUnitNeeded
       DEF HandleReviewAuthorization, TypeInv, TypeOK, world, history
<1>4. CASE ConfigureHost
  <2>1. host' \in HostCeilings /\ faults' \in 0..MaxFaults
    BY <1>0, <1>4, FaultType DEF ConfigureHost
  <2> QED
    BY <1>4, <2>1 DEF ConfigureHost, TypeInv, TypeOK, UnitKnown, history
<1>5. CASE PushForeign
  <2>1. pr' \in [draft : BOOLEAN, head : {"ours", "foreign"}]
    BY <1>0, <1>5 DEF PushForeign
  <2>2. faults' \in 0..MaxFaults
    BY <1>0, <1>5, FaultType DEF PushForeign
  <2> QED
    BY <1>5, <2>1, <2>2 DEF PushForeign, TypeInv, TypeOK, UnitKnown, history
<1>6. CASE ActivateAuthorized
  <2>1. run' \in Run
    BY <1>0, <1>6 DEF ActivateAuthorized, Run
  <2> QED
    BY <1>6, <2>1, EmptyTypes, NoUnitNeeded
       DEF ActivateAuthorized, TypeInv, TypeOK, world, history
<1>7. CASE Deliver
  <2>1. run' \in Run
    BY <1>0, <1>7, EmptyTypes DEF Deliver, Run
  <2>2. code' \in 1..MaxCode
    BY <1>7, BoundAssumption DEF Deliver, TypeInv, TypeOK
  <2> QED
    BY <1>7, <2>1, <2>2, EmptyTypes
       DEF Deliver, TypeInv, TypeOK, UnitKnown, history
<1>8. CASE \E s \in Slots : ReportReady(s)
  <2>1. sessions' \in [Slots -> SessionStates]
    BY <1>0, <1>8, SessionUpdate DEF ReportReady, SessionStates
  <2> QED
    BY <1>8, <2>1 DEF ReportReady, TypeInv, TypeOK, UnitKnown, world, history
<1> QED
  BY <1>1, <1>2, <1>3, <1>4, <1>5, <1>6, <1>7, <1>8 DEF People

\* Every step keeps the types.
LEMMA StepType ==
  ASSUME TypeInv, [Next]_vars
  PROVE  TypeInv'
<1>1. CASE UNCHANGED vars
  BY <1>1 DEF vars, world, history, TypeInv, TypeOK, UnitKnown
<1>2. CASE Coordinator
  BY <1>2, StartsType, LaunchType, AcceptType, DispatchType, RepairType,
     ReadinessType, RecoveryType, WorldType DEF Coordinator
<1>3. CASE Failures
  BY <1>3, FailureType, RepairType DEF Failures
<1>4. CASE People \/ Deliver \/ \E s \in Slots : ReportReady(s)
  BY <1>4, WorldType
<1> QED
  BY <1>1, <1>2, <1>3, <1>4 DEF Next

\* Every variable keeps its type, and a launch or acceptance always knows the
\* assignment it is about (ReviewRound as a whole).
THEOREM TypeCorrect == Spec => []TypeOK
<1>1. TypeInv => TypeOK
  BY DEF TypeInv
<1> QED
  BY <1>1, InitType, StepType, PTL DEF Spec

-----------------------------------------------------------------------------
(* The rows of a round *)

\* Without a round there is nothing that could belong to one.
RoundOwns == /\ HasRound => round.size # 0
             /\ results = NoResults \/ HasRound
             /\ Reviewers \subseteq RoundSlots

\* An assignment with a result has no reviewer, and gets none.
OneReview == /\ \A s \in Slots : results[s] # NoReport => sessions[s] = "none"
             /\ step.at \in Launching =>
                  /\ HasRound /\ Slot \in RoundSlots
                  /\ results[Slot] = NoReport
             /\ At("commit") => sessions[Slot] # "none"

\* Reviews are launched only while a checkpoint is under review, and nobody
\* reviews while it is implemented.
LaunchStage == step.at \in {"launch"} \cup Launching =>
                 run.stage \in {"draft_pr", "review"}
QuietStage == run.stage = "implementation" => Reviewers = {}

\* A reserved acceptance is in progress, or waits for the restart; it is about
\* an assignment of the round, whose result it may already have stored.
EffectOwned ==
  /\ step.at \in Accepting => effect # NoEffect /\ Slot = effect.slot
  /\ effect # NoEffect =>
       /\ step.at \in Accepting \cup {"down"}
       /\ HasRound /\ effect.slot \in RoundSlots
       /\ effect.report # NoReport
       /\ \/ results[effect.slot] = effect.report
          \/ /\ results[effect.slot] = NoReport
             /\ sessions[effect.slot] # "none"
       /\ At("save") => results[effect.slot] = effect.report

RoundInv == RoundOwns /\ OneReview /\ LaunchStage /\ QuietStage /\ EffectOwned

-----------------------------------------------------------------------------
(* Limits *)

\* A launch that got this far is within the fan-out.
FanOutHeld == /\ OversizedIsAuthorized
              /\ step.at \in {"start", "commit"} => ~Oversized

\* A launch that was admitted still has room: no other one is made meanwhile.
RoomKept ==
  /\ step.at \in {"prepare", "start"} => Cardinality(Reviewers) < host
  /\ step.at \in {"launch", "prepare", "start"} /\ step.then # "second" =>
       HasRound /\ Cardinality(Reviewers) < round.ceiling

-----------------------------------------------------------------------------
(* The verdict of a round *)

\* A question is open only for an axis that asked, or while the answer of
\* another one is implemented.
QuestionsAsked == run.questions # {} =>
                    run.stage = "implementation" \/ Incomplete(run)

\* What the stages of the coordinator say about the run.
StageKnown ==
  /\ step.at \in {"ready", "undraft", "revert", "persist"} =>
       Passed(run) /\ run.stage \in {"review", "ready"}
  /\ At("route") => /\ Complete(run) /\ ~Incomplete(run) /\ Keys(run) # {}
                    /\ run.stage = "review"
  /\ step.at \in {"implement", "committed"} =>
       /\ run.stage = "implementation"
       /\ step.repair => run.questions = {}
  /\ step.at \in {"dispatch", "project"} /\ step.unit = 0 =>
       run.stage = "review"
  /\ run.status = "harness" => run.stage = "implementation"
  /\ step.repair => step.at \in {"implement", "committed"}

\* The axis whose report is accepted, or whose aggregate is projected, has no
\* projection yet.
AxisOpen ==
  /\ effect # NoEffect => run.proj[effect.slot[1]] = NoReport
  /\ step.at \in {"dispatch", "project"} => run.proj[step.axis] = NoReport

\* A pull request without its draft flag passed, and its run says so.
UndraftedPassed == ~pr.draft => /\ run.stage \in {"review", "ready"}
                                /\ Passed(run)

AggregatesInv == ProjectionsAreAggregates /\ CompleteRoundIsReviewed
StagesInv == QuestionsAsked /\ StageKnown /\ UndraftedPassed /\ AxisOpen
VerdictInv == AggregatesInv /\ StagesInv

-----------------------------------------------------------------------------
(* The blockers of a repair *)

\* An implementation session exists only while the run is implemented, and no
\* report is accepted meanwhile.
ImplOwned ==
  /\ impl # "none" => run.stage = "implementation"
  /\ effect # NoEffect \/ step.at \in {"dispatch", "project"} =>
       run.stage # "implementation"

\* The blockers of a reserved repair were given to no session, or to the one
\* that was adopted and works on them, and then nothing launches another one.
Unsent ==
  run.pending # 0 /\ run.stage = "implementation" =>
    /\ Keys(run) \subseteq run.seen
    /\ \/ Keys(run) \cap sent = {}
       \/ /\ impl \in {"live", "late"} /\ run.status # "harness"
          /\ step.at \notin {"implement", "committed"}

RepairInv == ImplOwned /\ Unsent /\ BlockerRepairedOnce /\ sent \subseteq run.seen

-----------------------------------------------------------------------------
(* The rows of a round stay together *)

\* Initially there is no round.
LEMMA InitRound == Init => RoundInv
<1> SUFFICES ASSUME Init PROVE RoundInv
  OBVIOUS
<1>1. Reviewers = {} /\ \A s \in Slots : results[s] = NoReport
  BY DEF Init, Reviewers, NoSessions, NoResults
<1>2. RoundOwns /\ OneReview
  BY <1>1, EmptyTypes DEF Init, RoundOwns, OneReview, HasRound, Launching, At
<1>3. LaunchStage /\ QuietStage /\ EffectOwned
  BY <1>1, EmptyTypes
     DEF Init, LaunchStage, QuietStage, EffectOwned, Launching, Accepting
<1> QED
  BY <1>2, <1>3 DEF RoundInv

\* Without a round there are neither reviewers nor results.
LEMMA EmptyRound ==
  ASSUME TypeInv, RoundInv, ~HasRound
  PROVE  /\ Reviewers = {} /\ Done = {} /\ results = NoResults
         /\ effect = NoEffect /\ \A a \in Axes : ~AxisDone(a)
<1>1. RoundSlots = {}
  BY DEF HasRound, NoRound, RoundSlots
<1> QED
  BY <1>1 DEF RoundInv, RoundOwns, EffectOwned, Done, AxisDone

\* The round has at least one unit, and its slots are assignments.
LEMMA RoundSlotsType ==
  ASSUME TypeInv
  PROVE  RoundSlots \subseteq Slots /\ Done \subseteq RoundSlots
<1>1. round.size \in 0..MaxUnits
  BY DEF TypeInv, TypeOK, Round
<1>2. 1..round.size \subseteq 1..MaxUnits
  BY <1>1, UnitsAssumption
<1> QED
  BY <1>2 DEF Done, RoundSlots, Slots

\* A status or an authorization does not make another round.
LEMMA SameRound ==
  ASSUME TypeInv, RoundInv, HasRound, NEW v, NEW w,
         \/ round' = [round EXCEPT !.status = v]
         \/ round' = [round EXCEPT !.status = v, !.authorized = w]
  PROVE  HasRound' /\ round'.size = round.size /\ round'.ceiling = round.ceiling
<1>1. round.size # 0
  BY DEF RoundInv, RoundOwns
<1>2. round'.size = round.size /\ round'.ceiling = round.ceiling
  BY DEF TypeInv, TypeOK, Round
<1> QED
  BY <1>1, <1>2 DEF HasRound, NoRound

\* Outside of an acceptance and of a stop nothing is reserved.
LEMMA NothingReserved ==
  ASSUME RoundInv, step.at \notin Accepting \cup {"down"}
  PROVE  effect = NoEffect
  BY DEF RoundInv, EffectOwned

\* A step that keeps the round, the results and the reservation, and starts
\* no reviewer, keeps them together.
LEMMA RoundKept ==
  ASSUME TypeInv, RoundInv, UNCHANGED <<results, effect>>,
         HasRound' = HasRound, round'.size = round.size,
         \A s \in Slots : sessions[s] = "none" => sessions'[s] = "none",
         effect # NoEffect => UNCHANGED Reviewers,
         \/ UNCHANGED <<step, Reviewers>> /\ run'.stage = run.stage
         \/ step'.at = "launch" /\ run'.stage \in {"draft_pr", "review"}
            /\ effect = NoEffect
         \/ /\ step'.at \notin {"launch"} \cup Launching \cup Accepting
            /\ effect # NoEffect => step'.at = "down"
            /\ run'.stage = "implementation" =>
                 run.stage = "implementation" \/ Reviewers = {}
  PROVE  RoundInv'
<1>1. Reviewers' \subseteq Reviewers /\ RoundSlots' = RoundSlots
  BY DEF Reviewers, RoundSlots
<1>2. RoundOwns'
  BY <1>1 DEF RoundInv, RoundOwns
<1>3. OneReview'
  <2>1. CASE step'.at \notin Launching
    BY <2>1 DEF RoundInv, OneReview, Launching, At
  <2>2. CASE step'.at \in Launching
    <3>1. UNCHANGED <<step, Reviewers>> /\ Slot' = Slot
      BY <2>2 DEF Launching, Slot
    <3>2. Slot \in Slots
      BY <2>2, <3>1, SlotType
    <3>3. sessions[Slot] # "none" => sessions'[Slot] # "none"
      BY <3>1, <3>2 DEF Reviewers
    <3> QED
      BY <1>1, <3>1, <3>3 DEF RoundInv, OneReview, Launching, At
  <2> QED
    BY <2>1, <2>2
<1>4. LaunchStage' /\ QuietStage'
  BY <1>1 DEF RoundInv, LaunchStage, QuietStage, Launching
<1>5. EffectOwned'
  <2>1. CASE effect = NoEffect
    BY <2>1 DEF RoundInv, EffectOwned, Accepting
  <2>2. CASE effect # NoEffect
    <3>1. effect.slot \in Slots
      BY <2>2 DEF TypeInv, TypeOK, Effect
    <3>2. sessions[effect.slot] # "none" => sessions'[effect.slot] # "none"
      BY <2>2, <3>1 DEF Reviewers
    <3> QED
      BY <1>1, <2>2, <3>2
         DEF RoundInv, EffectOwned, Accepting, Launching, Slot, At
  <2> QED
    BY <2>1, <2>2
<1> QED
  BY <1>2, <1>3, <1>4, <1>5 DEF RoundInv

\* The stage an operation returns to concerns no assignment.
LEMMA ReturnQuiet ==
  ASSUME Return
  PROVE  step'.at \notin {"launch", "down"} \cup Launching \cup Accepting
  BY ReturnType DEF Launching, Accepting

\* A run that is parked keeps its stage.
LEMMA PausedStage ==
  ASSUME NEW r \in Run
  PROVE  /\ Paused(r).stage = r.stage /\ Paused(r).proj = r.proj
         /\ Paused(r).questions = r.questions
         /\ Paused(r).status = "harness" => r.status = "harness"
  BY DEF Run, Paused

\* Released runs are under review.
LEMMA ReleasedStage ==
  ASSUME NEW r \in Run, NEW s
  PROVE  /\ Released(r, s).stage = "review" /\ Released(r, s).proj = r.proj
         /\ Released(r, s).questions = {} /\ Released(r, s).status = "active"
  BY DEF Run, Released

\* Beginning an operation, and launching a reviewer.
LEMMA LaunchRound ==
  ASSUME TypeInv, TypeInv', RoundInv,
         \/ StartReviewUnit \/ StartReviewRound \/ LaunchReviewer
         \/ PrepareReview \/ StartReviewer \/ CommitReviewer \/ LaunchFails
  PROVE  RoundInv'
<1>0. /\ step \in Step /\ run \in Run /\ round \in Round
      /\ sessions \in [Slots -> SessionStates]
  BY DEF TypeInv, TypeOK
<1>1. CASE StartReviewUnit \/ StartReviewRound
  <2>1. effect = NoEffect
    BY <1>1, NothingReserved
       DEF StartReviewUnit, StartReviewRound, StageTurn, At, Accepting
  <2>2. step'.at = "launch" /\ run.stage \in {"draft_pr", "review"}
    <3>1. CASE StartReviewUnit
      BY <3>1, EmptyTypes DEF StartReviewUnit, MissingReviewUnit, Step
    <3>2. CASE StartReviewRound
      BY <3>2, EmptyTypes DEF StartReviewRound, Step
    <3> QED
      BY <1>1, <3>1, <3>2
  <2> QED
    BY <1>1, <2>1, <2>2, RoundKept
       DEF StartReviewUnit, StartReviewRound, HasRound
<1>2. CASE LaunchReviewer
  <2>0. effect = NoEffect /\ run.stage \in {"draft_pr", "review"}
    BY <1>2, NothingReserved
       DEF LaunchReviewer, At, Accepting, RoundInv, LaunchStage
  <2>1. CASE run' = Paused(run) /\ Return /\ UNCHANGED round
    BY <1>0, <1>2, <2>0, <2>1, PausedStage, ReturnQuiet, RoundKept
       DEF LaunchReviewer, HasRound
  <2>2. CASE ~HasRound /\ SaveReviewManifest
    <3>1. Reviewers = {} /\ results = NoResults
      BY <2>2, EmptyRound
    <3>2. PICK n \in 1..MaxUnits :
            round' = [status |-> "pending", size |-> n, ceiling |-> host,
                      authorized |-> FALSE]
      BY <2>2 DEF SaveReviewManifest
    <3>3. HasRound' /\ round'.size = n /\ n # 0 /\ n \in Nat
      BY <3>2, UnitsAssumption DEF HasRound, NoRound
    <3>4. /\ step'.at = "prepare" /\ step'.axis = step.axis /\ step'.unit = 1
          /\ run' = run
      BY <1>0, <2>2 DEF SaveReviewManifest, Step
    <3>5. /\ UNCHANGED <<results, sessions, effect>>
      BY <1>2 DEF LaunchReviewer
    <3>6. Reviewers' = {}
      BY <3>1, <3>5 DEF Reviewers
    <3>7. Slot' \in RoundSlots' /\ Slot' \in Slots
      BY <1>0, <3>3, <3>4, UnitsAssumption DEF Slot, RoundSlots, Slots, Step
    <3>8. results'[Slot'] = NoReport
      BY <3>1, <3>5, <3>7 DEF NoResults
    <3>9. RoundOwns' /\ OneReview'
      BY <3>1, <3>3, <3>4, <3>5, <3>6, <3>7, <3>8
         DEF RoundInv, RoundOwns, OneReview, Launching, At
    <3>10. LaunchStage' /\ QuietStage' /\ EffectOwned'
      BY <2>0, <3>4, <3>5, <3>6
         DEF LaunchStage, QuietStage, EffectOwned, Accepting
    <3> QED
      BY <3>9, <3>10 DEF RoundInv
  <2>3. CASE ~LaunchRefused /\ HasRound /\ ChosenUnit /\ UNCHANGED <<run, round>>
    <3>1. PICK u \in 1..MaxUnits :
            /\ IF step.unit = 0
                 THEN IsFirst(<<step.axis, u>>, UnitsLeft(step.axis))
                 ELSE u = step.unit
            /\ step' = [step EXCEPT !.at = "prepare", !.unit = u]
      BY <2>3 DEF ChosenUnit
    <3>2. step'.at = "prepare" /\ Slot' = <<step.axis, u>>
      BY <1>0, <3>1 DEF Step, Slot
    <3>3. <<step.axis, u>> \in Missing
      BY <2>3, <3>1 DEF LaunchRefused, IsFirst, UnitsLeft, Slot
    <3>4. Slot' \in RoundSlots /\ results[Slot'] = NoReport
      BY <3>2, <3>3 DEF Missing, Done
    <3>5. UNCHANGED <<run, round, results, sessions, effect>>
      BY <1>2, <2>3 DEF LaunchReviewer
    <3>6. RoundOwns' /\ OneReview'
      BY <2>3, <3>2, <3>4, <3>5 DEF RoundInv, RoundOwns, OneReview,
         HasRound, Reviewers, RoundSlots, At
    <3>7. LaunchStage' /\ QuietStage' /\ EffectOwned'
      BY <2>0, <3>2, <3>5 DEF RoundInv, LaunchStage, QuietStage, EffectOwned,
         Accepting, Reviewers
    <3> QED
      BY <3>6, <3>7 DEF RoundInv
  <2> QED
    BY <1>2, <2>1, <2>2, <2>3 DEF LaunchReviewer
<1>3. CASE PrepareReview
  <2>0. /\ effect = NoEffect /\ HasRound
        /\ run.stage \in {"draft_pr", "review"}
    BY <1>3, NothingReserved DEF PrepareReview, At, Accepting, Launching,
       RoundInv, LaunchStage, OneReview
  <2>1. HasRound' /\ round'.size = round.size
    BY <1>3, <2>0, SameRound DEF PrepareReview
  <2>2. CASE Oversized
    BY <1>0, <1>3, <2>0, <2>1, <2>2, PausedStage, ReturnQuiet, RoundKept
       DEF PrepareReview
  <2>3. CASE ~Oversized
    <3>1. step'.at = "start" /\ Slot' = Slot
      BY <1>0, <1>3, <2>3, GotoType DEF PrepareReview, Stages, Slot
    <3>2. UNCHANGED <<run, results, sessions, effect>>
      BY <1>3, <2>3 DEF PrepareReview
    <3>3. RoundOwns' /\ OneReview'
      BY <1>3, <2>1, <3>1, <3>2 DEF PrepareReview, At, Launching,
         RoundInv, RoundOwns, OneReview, Reviewers, RoundSlots
    <3>4. LaunchStage' /\ QuietStage' /\ EffectOwned'
      BY <2>0, <3>1, <3>2 DEF RoundInv, LaunchStage, QuietStage,
         EffectOwned, Accepting, Reviewers
    <3> QED
      BY <3>3, <3>4 DEF RoundInv
  <2> QED
    BY <2>2, <2>3
<1>4. CASE StartReviewer
  <2>0. /\ effect = NoEffect /\ HasRound /\ Slot \in RoundSlots
        /\ results[Slot] = NoReport
        /\ run.stage \in {"draft_pr", "review"}
    BY <1>4, NothingReserved DEF StartReviewer, At, Accepting, Launching,
       RoundInv, LaunchStage, OneReview
  <2>1. step'.at = "commit" /\ Slot' = Slot
    BY <1>0, <1>4, GotoType DEF StartReviewer, Stages, Slot
  <2>2. UNCHANGED <<run, round, results, effect>>
    BY <1>4 DEF StartReviewer
  <2>3. \A s \in Slots : s # Slot => sessions'[s] = sessions[s]
    BY <1>0, <1>4 DEF StartReviewer
  <2>4. Reviewers' \subseteq Reviewers \cup {Slot} /\ RoundSlots' = RoundSlots
    BY <2>2, <2>3 DEF Reviewers, RoundSlots
  <2>5. sessions'[Slot] = "open"
    BY <1>0, <1>4, SlotType DEF StartReviewer, At, Launching
  <2>6. RoundOwns' /\ OneReview'
    BY <2>0, <2>1, <2>2, <2>3, <2>4, <2>5
       DEF RoundInv, RoundOwns, OneReview, HasRound
  <2>7. LaunchStage' /\ QuietStage' /\ EffectOwned'
    BY <2>0, <2>1, <2>2 DEF LaunchStage, QuietStage, EffectOwned, Accepting
  <2> QED
    BY <2>6, <2>7 DEF RoundInv
<1>5. CASE CommitReviewer
  <2>1. effect = NoEffect
    BY <1>5, NothingReserved DEF CommitReviewer, At, Accepting
  <2>2. run'.stage = "review"
    BY <1>0, <1>5 DEF CommitReviewer, Run
  <2>3. step'.at \in {"idle", "launch"}
    BY <1>5, EmptyTypes DEF CommitReviewer, Step
  <2>4. \A s \in Slots : sessions[s] = "none" => sessions'[s] = "none"
    <3>1. sessions[Slot] # "none"
      BY <1>5 DEF CommitReviewer, At, Launching, RoundInv, OneReview
    <3> QED
      BY <1>0, <1>5, <3>1 DEF CommitReviewer
  <2> QED
    BY <1>5, <2>1, <2>2, <2>3, <2>4, RoundKept
       DEF CommitReviewer, HasRound, Launching, Accepting
<1>6. CASE LaunchFails
  <2>1. effect = NoEffect
    BY <1>6, NothingReserved DEF LaunchFails, Accepting
  <2>2. \A s \in Slots : sessions[s] = "none" => sessions'[s] = "none"
    BY <1>0, <1>6 DEF LaunchFails
  <2> QED
    BY <1>0, <1>6, <2>1, <2>2, PausedStage, ReturnQuiet, RoundKept
       DEF LaunchFails, HasRound
<1> QED
  BY <1>1, <1>2, <1>3, <1>4, <1>5, <1>6

\* A complete run has a result for every assignment, and no reviewer.
LEMMA CompleteIsDone ==
  ASSUME TypeInv, RoundInv, ProjectionsAreAggregates, Complete(run)
  PROVE  Done = RoundSlots /\ Reviewers = {} /\ HasRound
<1>1. \A a \in Axes : AxisDone(a)
  BY DEF ProjectionsAreAggregates, Complete
<1>2. HasRound
  BY <1>1 DEF AxisDone, Axes
<1>3. ASSUME NEW s \in RoundSlots PROVE s \in Done
  <2>1. s[1] \in Axes /\ s \in {s[1]} \X (1..round.size)
    BY DEF RoundSlots
  <2> QED
    BY <1>1, <2>1 DEF AxisDone
<1>4. Done = RoundSlots
  BY <1>3 DEF Done
<1>5. Reviewers = {}
  BY <1>4, RoundSlotsType DEF RoundInv, RoundOwns, OneReview, Reviewers, Done
<1> QED
  BY <1>2, <1>4, <1>5

\* The acceptance of a report.
LEMMA AcceptRound ==
  ASSUME TypeInv, TypeInv', RoundInv,
         ReserveAcceptance \/ RecordResult \/ SaveRun
  PROVE  RoundInv'
<1>0. /\ step \in Step /\ run \in Run /\ effect \in Effect \cup {NoEffect}
      /\ sessions \in [Slots -> SessionStates]
      /\ results \in [Slots -> Report \cup {NoReport}]
  BY DEF TypeInv, TypeOK
<1>1. CASE ReserveAcceptance
  <2>1. PICK s \in Slots, r \in Reports :
          /\ sessions[s] = "ready"
          /\ effect' = [slot |-> s, report |-> r]
          /\ step' = [Idle EXCEPT !.at = "record", !.axis = s[1],
                                  !.unit = s[2]]
    BY <1>1 DEF ReserveAcceptance
  <2>2. s \in Reviewers /\ s \in RoundSlots /\ HasRound
    BY <2>1, EmptyRound DEF Reviewers, RoundInv, RoundOwns
  <2>3. step'.at = "record" /\ Slot' = s
    BY <2>1, EmptyTypes DEF Step, Slot, Slots
  <2>4. results[s] = NoReport
    BY <2>1 DEF RoundInv, OneReview
  <2>5. r # NoReport /\ effect'.slot = s /\ effect'.report = r
        /\ effect' # NoEffect
    BY <2>1, ReportAssumption DEF Report, NoReport, Effect, NoEffect
  <2>6. UNCHANGED <<run, round, results, sessions>>
    BY <1>1 DEF ReserveAcceptance
  <2>7. RoundOwns' /\ OneReview' /\ LaunchStage' /\ QuietStage'
    BY <2>2, <2>3, <2>6 DEF RoundInv, RoundOwns, OneReview, LaunchStage,
       QuietStage, Launching, Reviewers, RoundSlots, HasRound, At
  <2>8. EffectOwned'
    BY <2>1, <2>2, <2>3, <2>4, <2>5, <2>6
       DEF EffectOwned, Accepting, At, RoundSlots, HasRound
  <2> QED
    BY <2>7, <2>8 DEF RoundInv
<1>2. CASE RecordResult
  <2>1. /\ effect # NoEffect /\ Slot = effect.slot /\ HasRound
        /\ Slot \in RoundSlots /\ effect.report # NoReport
    BY <1>2 DEF RecordResult, At, Accepting, RoundInv, EffectOwned
  <2>2. Slot \in Slots
    BY <2>1, RoundSlotsType
  <2>3. step'.at = "save" /\ Slot' = Slot
    BY <1>0, <1>2, GotoType DEF RecordResult, Stages, Slot
  <2>4. /\ sessions'[Slot] = "none" /\ results'[Slot] = effect.report
        /\ \A s \in Slots : s # Slot => /\ sessions'[s] = sessions[s]
                                        /\ results'[s] = results[s]
    BY <1>0, <1>2, <2>2 DEF RecordResult
  <2>5. UNCHANGED <<run, round, effect>>
    BY <1>2 DEF RecordResult
  <2>6. Reviewers' \subseteq Reviewers /\ RoundSlots' = RoundSlots
    BY <2>4, <2>5 DEF Reviewers, RoundSlots
  <2>7. RoundOwns' /\ OneReview' /\ LaunchStage' /\ QuietStage'
    BY <2>1, <2>3, <2>4, <2>5, <2>6 DEF RoundInv, RoundOwns, OneReview,
       LaunchStage, QuietStage, Launching, HasRound, At
  <2>8. EffectOwned'
    BY <2>1, <2>3, <2>4, <2>5, <2>6
       DEF EffectOwned, Accepting, At, HasRound
  <2> QED
    BY <2>7, <2>8 DEF RoundInv
<1>3. CASE SaveRun
  <2>1. step'.at = "dispatch"
    BY <1>0, <1>3, GotoType DEF SaveRun, Stages
  <2>2. UNCHANGED <<round, results, sessions>> /\ effect' = NoEffect
    BY <1>3 DEF SaveRun
  <2>3. run'.stage \in {run.stage, "review"}
    BY <1>0, <1>3, ReleasedStage DEF SaveRun
  <2>4. RoundOwns' /\ OneReview' /\ LaunchStage' /\ QuietStage' /\ EffectOwned'
    BY <2>1, <2>2, <2>3 DEF RoundInv, RoundOwns, OneReview, LaunchStage,
       QuietStage, EffectOwned, Launching, Accepting, HasRound, Reviewers,
       RoundSlots, At
  <2> QED
    BY <2>4 DEF RoundInv
<1> QED
  BY <1>1, <1>2, <1>3

\* What follows from the stored results, and the repair they lead to.
LEMMA DispatchRound ==
  ASSUME TypeInv, RoundInv, VerdictInv,
         MarkRound \/ ProjectReview \/ RouteReviewRepair
  PROVE  RoundInv'
<1>0. step \in Step /\ run \in Run /\ round \in Round
  BY DEF TypeInv, TypeOK
<1>1. effect = NoEffect
  BY NothingReserved
     DEF MarkRound, ProjectReview, RouteReviewRepair, At, Accepting
<1>2. CASE MarkRound
  <2>1. \/ UNCHANGED round
        \/ HasRound /\ round' = [round EXCEPT !.status = "error"]
        \/ HasRound /\ round' = [round EXCEPT !.status = "complete"]
    <3>1. OverLimit(step.axis) \/ Terminal => HasRound
      BY DEF OverLimit, AxisDone, Terminal
    <3> QED
      BY <1>2, <3>1 DEF MarkRound
  <2>2. HasRound' = HasRound /\ round'.size = round.size
    BY <2>1, SameRound DEF HasRound
  <2>3. step'.at \in {"idle", "project"} /\ run'.stage = run.stage
    BY <1>0, <1>2, EmptyTypes, GotoType, PausedStage DEF MarkRound, Stages
  <2> QED
    BY <1>1, <1>2, <2>2, <2>3, RoundKept DEF MarkRound, Launching, Accepting
<1>3. CASE ProjectReview
  <2>1. Return \/ \E stage \in {"ready", "route"} : Goto(stage)
    BY <1>3 DEF ProjectReview
  <2>2. step'.at \notin {"launch"} \cup Launching \cup Accepting
    BY <1>0, <2>1, ReturnQuiet, GotoType DEF Stages, Launching, Accepting
  <2>3. run'.stage = run.stage \/ run'.stage = "review"
    <3> DEFINE next == IF OverLimit(step.axis) THEN Released(run, Slot)
                                               ELSE Projected
    <3>1. Projected \in Run /\ Released(run, Slot) \in Run
      BY <1>0, ProjectedType, RunUpdates DEF TypeInv
    <3>2. Projected.stage \in {run.stage, "review"}
      <4> DEFINE base == IF step.unit = 0 THEN run ELSE Released(run, Slot)
                 proj == [base.proj EXCEPT ![step.axis] =
                            Aggregate(step.axis)]
                 with == [base EXCEPT !.proj = proj,
                            !.questions = {a \in Axes :
                                             proj[a].outcome = "asks"}]
      <4>1. base \in Run /\ base.stage \in {run.stage, "review"}
        BY <1>0, <3>1, ReleasedStage
      <4>2. with.stage = base.stage
        BY <4>1 DEF Run
      <4>3. Projected \in {base, with}
        BY DEF Projected
      <4> QED
        BY <4>1, <4>2, <4>3
    <3>3. next \in Run /\ next.stage \in {run.stage, "review"}
      BY <1>0, <3>1, <3>2, ReleasedStage
    <3>4. \E v : run' = [next EXCEPT !.status = v]
      BY <1>3 DEF ProjectReview
    <3> QED
      BY <3>3, <3>4 DEF Run
  <2> QED
    BY <1>1, <1>3, <2>2, <2>3, RoundKept DEF ProjectReview, HasRound
<1>4. CASE RouteReviewRepair
  <2>1. Reviewers = {}
    BY <1>4, CompleteIsDone DEF RouteReviewRepair, VerdictInv, AggregatesInv,
       StagesInv, StageKnown
  <2>2. step'.at \notin {"launch"} \cup Launching \cup Accepting
    <3>1. CASE Decision = "start"
      BY <1>0, <1>4, <3>1 DEF RouteReviewRepair, Step, Launching, Accepting
    <3>2. CASE Decision # "start"
      BY <1>4, <3>2, ReturnQuiet DEF RouteReviewRepair
    <3> QED
      BY <3>1, <3>2
  <2> QED
    BY <1>1, <1>4, <2>1, <2>2, RoundKept DEF RouteReviewRepair, HasRound
<1> QED
  BY <1>2, <1>3, <1>4

\* Operations that keep the round, the results, the reservation and the
\* reviewers, and that leave the stage of the run or its reviewers alone.
LEMMA OtherRound ==
  ASSUME TypeInv, TypeInv', RoundInv, VerdictInv,
         \/ StartImplementation \/ RetryReviewReadiness \/ ReviewStops
         \/ RetryWaitingForHarness \/ LaunchImplementer \/ CommitImplementer
         \/ ImplementerFails \/ ImplementerRateLimited
         \/ CheckHead \/ RemoveDraftFlag \/ RejectUnreviewedHead
         \/ PersistReady \/ RecoverAggregate \/ Reconcile
         \/ ActivateAuthorized \/ WriteFails \/ HandleRepair
         \/ HandleReviewAuthorization
  PROVE  RoundInv'
<1>0. /\ step \in Step /\ run \in Run /\ round \in Round
      /\ sessions \in [Slots -> SessionStates]
  BY DEF TypeInv, TypeOK
<1>1. effect = NoEffect
  BY NothingReserved
     DEF StartImplementation, RetryReviewReadiness, ReviewStops, StageTurn,
         RetryWaitingForHarness, LaunchImplementer, CommitImplementer,
         ImplementerFails, ImplementerRateLimited, CheckHead, RemoveDraftFlag,
         RejectUnreviewedHead, PersistReady, RecoverAggregate, Reconcile,
         ActivateAuthorized, WriteFails, HandleRepair,
         HandleReviewAuthorization, At, Accepting
<1>2. CASE \/ StartImplementation \/ RetryReviewReadiness \/ CheckHead
           \/ LaunchImplementer \/ RemoveDraftFlag \/ RecoverAggregate
  <2>1. step'.at \notin {"launch"} \cup Launching \cup Accepting
    <3>1. CASE RecoverAggregate
      BY <3>1, EmptyTypes DEF RecoverAggregate, Step, Launching, Accepting
    <3>2. CASE ~RecoverAggregate
      <4>1. \E stage \in {"implement", "ready", "revert", "undraft",
                          "committed", "persist"} : Goto(stage)
        BY <1>2, <3>2 DEF StartImplementation, RetryReviewReadiness,
           CheckHead, LaunchImplementer, RemoveDraftFlag
      <4> QED
        BY <1>0, <4>1, GotoType DEF Stages, Launching, Accepting
    <3> QED
      BY <3>1, <3>2
  <2>2. UNCHANGED <<run, round, results, sessions, effect>>
    BY <1>2 DEF StartImplementation, RetryReviewReadiness, CheckHead,
       LaunchImplementer, RemoveDraftFlag, RecoverAggregate
  <2> QED
    BY <1>1, <2>1, <2>2, RoundKept DEF HasRound
<1>3. CASE ReviewStops
  BY <1>0, <1>1, <1>3, PausedStage, RoundKept
     DEF ReviewStops, HasRound, Reviewers
<1>4. CASE RetryWaitingForHarness
  <2>1. UNCHANGED <<round, results, sessions, effect>>
    BY <1>4 DEF RetryWaitingForHarness
  <2>2. run'.stage = run.stage
    BY <1>0, <1>4 DEF RetryWaitingForHarness, Run
  <2>3. \/ UNCHANGED step
        \/ step'.at \notin {"launch"} \cup Launching \cup Accepting
    BY <1>0, <1>4, GotoType
       DEF RetryWaitingForHarness, Stages, Launching, Accepting
  <2>4. UNCHANGED Reviewers
    BY <2>1 DEF Reviewers
  <2> QED
    BY <1>1, <2>1, <2>2, <2>3, <2>4, RoundKept DEF HasRound
<1>5. CASE CommitImplementer
  <2>1. run'.stage = run.stage
    BY <1>0, <1>5 DEF CommitImplementer, Run
  <2> QED
    BY <1>1, <1>5, <2>1, ReturnQuiet, RoundKept DEF CommitImplementer, HasRound
<1>6. CASE ImplementerFails \/ ImplementerRateLimited
  <2>1. run'.stage \in {run.stage, "review"}
    BY <1>0, <1>6, PausedStage
       DEF ImplementerFails, ImplementerRateLimited, Run
  <2> QED
    BY <1>1, <1>6, <2>1, ReturnQuiet, RoundKept
       DEF ImplementerFails, ImplementerRateLimited, HasRound
<1>7. CASE RejectUnreviewedHead \/ WriteFails
  BY <1>0, <1>1, <1>7, EmptyTypes, PausedStage, RoundKept
     DEF RejectUnreviewedHead, WriteFails, HasRound, Launching, Accepting
<1>8. CASE PersistReady
  <2>1. run'.stage = "ready"
    BY <1>0, <1>8 DEF PersistReady, Run
  <2> QED
    BY <1>1, <1>8, <2>1, ReturnQuiet, RoundKept DEF PersistReady, HasRound
<1>9. CASE Reconcile
  <2>1. \A s \in Slots : sessions[s] = "none" => sessions'[s] = "none"
    BY <1>0, <1>9 DEF Reconcile, Agree, Disagree
  <2>2. run'.stage = run.stage
    BY <1>0, <1>9, PausedStage DEF Reconcile, Agree, Disagree
  <2> QED
    BY <1>1, <1>9, <2>1, <2>2, EmptyTypes, RoundKept
       DEF Reconcile, HasRound, Launching, Accepting
<1>10. CASE ActivateAuthorized
  <2>1. run'.stage = run.stage
    BY <1>0, <1>10 DEF ActivateAuthorized, Run
  <2> QED
    BY <1>1, <1>10, <2>1, EmptyTypes, RoundKept
       DEF ActivateAuthorized, HasRound, Launching, Accepting
<1>11. CASE HandleRepair
  <2>1. step' = step /\ step.at = "idle" /\ Reviewers = {}
    BY <1>11 DEF HandleRepair, At
  <2> QED
    BY <1>1, <1>11, <2>1, RoundKept
       DEF HandleRepair, HasRound, Launching, Accepting
<1>12. CASE HandleReviewAuthorization
  <2>1. HasRound
    BY <1>12 DEF HandleReviewAuthorization, HasRound, NoRound
  <2>2. HasRound' /\ round'.size = round.size
    BY <1>12, <2>1, SameRound DEF HandleReviewAuthorization
  <2>3. step'.at = "authorize"
    BY <1>0, <1>12, GotoType DEF HandleReviewAuthorization, Stages
  <2> QED
    BY <1>1, <1>12, <2>1, <2>2, <2>3, RoundKept
       DEF HandleReviewAuthorization, Launching, Accepting
<1> QED
  BY <1>2, <1>3, <1>4, <1>5, <1>6, <1>7, <1>8, <1>9, <1>10, <1>11, <1>12

\* What happens at any stage of the coordinator, and its stop and restart.
LEMMA WorldRound ==
  ASSUME TypeInv, TypeInv', RoundInv,
         \/ Crash \/ StartUp \/ Expire \/ ConfigureHost \/ PushForeign
         \/ \E s \in Slots : ReportReady(s)
  PROVE  RoundInv'
<1>0. step \in Step /\ sessions \in [Slots -> SessionStates]
  BY DEF TypeInv, TypeOK
<1>1. CASE Crash
  <2>1. step'.at = "down"
    BY <1>1, EmptyTypes DEF Crash, Step, Stages
  <2>2. UNCHANGED <<run, round, results, sessions, effect>>
    BY <1>1 DEF Crash
  <2>3. UNCHANGED Reviewers
    BY <2>2 DEF Reviewers
  <2> QED
    BY <2>1, <2>2, <2>3, RoundKept DEF HasRound, Launching, Accepting
<1>2. CASE StartUp
  <2>1. UNCHANGED <<run, round, results, sessions, effect>>
    BY <1>2 DEF StartUp
  <2>2. RoundOwns' /\ QuietStage' /\ RoundSlots' = RoundSlots
    BY <2>1 DEF RoundInv, RoundOwns, QuietStage, HasRound, Reviewers,
       RoundSlots
  <2>3. step'.at \in {"recover", "record"}
    BY <1>2, EmptyTypes DEF StartUp, Step
  <2>4. OneReview' /\ LaunchStage'
    BY <2>1, <2>3 DEF RoundInv, OneReview, LaunchStage, Launching, At
  <2>5. EffectOwned'
    <3>1. CASE effect = NoEffect
      <4>1. step'.at = "recover"
        BY <1>2, <3>1, EmptyTypes DEF StartUp, Step
      <4> QED
        BY <2>1, <3>1, <4>1 DEF EffectOwned, Accepting, At
    <3>2. CASE effect # NoEffect
      <4>1. effect.slot \in Slots
        BY <3>2 DEF TypeInv, TypeOK, Effect
      <4>2. step'.at = "record" /\ Slot' = effect.slot
        BY <1>2, <3>2, <4>1, EmptyTypes DEF StartUp, Step, Slot, Slots
      <4> QED
        BY <2>1, <2>2, <3>2, <4>2
           DEF RoundInv, EffectOwned, Accepting, At, HasRound
    <3> QED
      BY <3>1, <3>2
  <2> QED
    BY <2>2, <2>4, <2>5 DEF RoundInv
<1>3. CASE ConfigureHost \/ PushForeign
  <2>1. UNCHANGED <<run, round, results, sessions, effect, step>>
    BY <1>3 DEF ConfigureHost, PushForeign
  <2>2. UNCHANGED Reviewers
    BY <2>1 DEF Reviewers
  <2> QED
    BY <2>1, <2>2, RoundKept DEF HasRound
<1>4. CASE Expire \/ \E s \in Slots : ReportReady(s)
  <2>1. UNCHANGED <<run, round, results, effect, step>>
    BY <1>4 DEF Expire, ReportReady
  <2>2. \A s \in Slots : sessions[s] = "none" <=> sessions'[s] = "none"
    BY <1>0, <1>4 DEF Expire, ReportReady
  <2>3. UNCHANGED Reviewers
    BY <2>2 DEF Reviewers
  <2> QED
    BY <2>1, <2>2, <2>3, RoundKept DEF HasRound
<1> QED
  BY <1>1, <1>2, <1>3, <1>4

\* The two that begin another checkpoint or another packet.
LEMMA FreshRound ==
  ASSUME TypeInv, TypeInv', RoundInv, HandleAnswer \/ Deliver
  PROVE  RoundInv'
<1>1. step.at = "idle" /\ effect = NoEffect
  BY NothingReserved DEF HandleAnswer, Deliver, At, Accepting
<1>2. /\ round' = NoRound /\ results' = NoResults /\ effect' = NoEffect
      /\ step'.at \in {"idle", "implement"}
  <2>1. CASE HandleAnswer
    BY <1>1, <2>1, GotoType DEF HandleAnswer, Stages, TypeInv, TypeOK
  <2>2. CASE Deliver
    BY <1>1, <2>2 DEF Deliver
  <2> QED
    BY <2>1, <2>2
<1>3. Reviewers' = {}
  <2>1. CASE HandleAnswer
    BY <2>1 DEF HandleAnswer, Reviewers, NoSessions
  <2>2. CASE Deliver
    BY <2>2 DEF Deliver, Reviewers, RoundInv, QuietStage
  <2> QED
    BY <2>1, <2>2
<1>4. RoundOwns' /\ OneReview'
  BY <1>2, <1>3 DEF RoundOwns, OneReview, HasRound, NoRound, NoResults,
     Launching, At
<1>5. LaunchStage' /\ QuietStage' /\ EffectOwned'
  BY <1>2, <1>3 DEF LaunchStage, QuietStage, EffectOwned, Launching, Accepting
<1> QED
  BY <1>4, <1>5 DEF RoundInv

\* Every step keeps the rows of the round together.
LEMMA RoundStep ==
  ASSUME TypeInv, TypeInv', RoundInv, VerdictInv, [Next]_vars
  PROVE  RoundInv'
<1>1. CASE Next
  BY <1>1, LaunchRound, AcceptRound, DispatchRound, OtherRound, WorldRound,
     FreshRound DEF Next, Coordinator, Failures, People
<1>2. CASE UNCHANGED vars
  BY <1>2 DEF vars, world, history, RoundInv, RoundOwns, OneReview,
     LaunchStage, QuietStage, EffectOwned, HasRound, Reviewers, RoundSlots,
     At, Slot
<1> QED
  BY <1>1, <1>2

-----------------------------------------------------------------------------
(* The limits of a round *)

\* The assignments, and with them the reviewers, are finitely many.
LEMMA FiniteReviewers ==
  /\ IsFiniteSet(Reviewers) /\ Cardinality(Reviewers) \in Nat
<1>1. IsFiniteSet({"spec", "standards"})
  <2>1. {"spec", "standards"} = ({} \cup {"spec"}) \cup {"standards"}
    OBVIOUS
  <2> QED
    BY <2>1, FS_EmptySet, FS_AddElement
<1>2. IsFiniteSet(1..MaxUnits)
  BY UnitsAssumption, FS_Interval
<1>3. IsFiniteSet(Slots)
  BY <1>1, <1>2, FS_Product DEF Slots, Axes
<1>4. IsFiniteSet(Reviewers)
  BY <1>3, FS_Subset DEF Reviewers
<1> QED
  BY <1>4, FS_CardinalityType

\* What reviewers a step leaves: only the start of one makes one.
LEMMA FewerReviewers ==
  ASSUME TypeInv, RoundInv, [Next]_vars, ~StartReviewer
  PROVE  Reviewers' \subseteq Reviewers
<1> SUFFICES ASSUME NEW s \in Slots, sessions[s] = "none"
             PROVE  sessions'[s] = "none"
  BY DEF Reviewers
<1>0. sessions \in [Slots -> SessionStates]
  BY DEF TypeInv, TypeOK
<1>1. CASE UNCHANGED sessions
  BY <1>1
<1>2. CASE CommitReviewer
  <2>1. sessions[Slot] # "none"
    BY <1>2 DEF CommitReviewer, RoundInv, OneReview, At
  <2> QED
    BY <1>0, <1>2, <2>1 DEF CommitReviewer
<1>3. CASE LaunchFails
  BY <1>0, <1>3 DEF LaunchFails
<1>4. CASE RecordResult
  BY <1>0, <1>4 DEF RecordResult
<1>5. CASE Reconcile
  BY <1>0, <1>5 DEF Reconcile, Agree, Disagree
<1>6. CASE HandleAnswer
  BY <1>6 DEF HandleAnswer, NoSessions
<1>7. CASE Expire \/ \E t \in Slots : ReportReady(t)
  BY <1>0, <1>7 DEF Expire, ReportReady
<1>8. CASE ~(\/ CommitReviewer \/ LaunchFails \/ RecordResult \/ Reconcile
             \/ HandleAnswer \/ Expire \/ \E t \in Slots : ReportReady(t))
  <2>1. UNCHANGED sessions
    BY <1>8 DEF Next, Coordinator, Failures, People, Deliver, vars,
       StartReviewUnit, RetryReviewReadiness, StartReviewRound,
       StartImplementation, ReviewStops, RetryWaitingForHarness,
       LaunchReviewer, PrepareReview, ReserveAcceptance, SaveRun, MarkRound,
       ProjectReview, RouteReviewRepair, LaunchImplementer, CommitImplementer,
       CheckHead, RemoveDraftFlag, RejectUnreviewedHead, PersistReady,
       StartUp, RecoverAggregate, ActivateAuthorized, WriteFails,
       ImplementerFails, ImplementerRateLimited, Crash, HandleRepair,
       HandleReviewAuthorization, ConfigureHost, PushForeign
  <2> QED
    BY <2>1
<1> QED
  BY <1>1, <1>2, <1>3, <1>4, <1>5, <1>6, <1>7, <1>8

\* Whether a step makes, drops or admits something of the round.
Shaping == \/ LaunchReviewer \/ PrepareReview \/ StartReviewer
           \/ RecordResult \/ HandleAnswer \/ Deliver

\* Any other step keeps the results and the shape of the round.
LEMMA ShapeKept ==
  ASSUME TypeInv, RoundInv, [Next]_vars, ~Shaping
  PROVE  /\ UNCHANGED results
         /\ round'.size = round.size /\ round'.ceiling = round.ceiling
         /\ HasRound' = HasRound
         /\ round.authorized => round'.authorized
         /\ round'.status = "complete" =>
              round.status = "complete" \/ Done = RoundSlots
<1>0. round \in Round
  BY DEF TypeInv, TypeOK
<1>1. CASE MarkRound
  <2>1. OverLimit(step.axis) \/ Terminal => HasRound
    BY DEF OverLimit, AxisDone, Terminal
  <2>2. \/ UNCHANGED round
        \/ HasRound /\ round' = [round EXCEPT !.status = "error"]
        \/ HasRound /\ Terminal /\ round' = [round EXCEPT !.status = "complete"]
    BY <1>1, <2>1 DEF MarkRound
  <2>3. round'.size = round.size /\ round'.ceiling = round.ceiling
        /\ HasRound' = HasRound
    BY <2>2, SameRound DEF HasRound
  <2>4. /\ round.authorized => round'.authorized
        /\ round'.status = "complete" =>
             round.status = "complete" \/ Done = RoundSlots
    BY <1>0, <2>2 DEF Round, Terminal
  <2> QED
    BY <1>1, <2>3, <2>4 DEF MarkRound
<1>2. CASE HandleReviewAuthorization
  <2>1. HasRound
    BY <1>2 DEF HandleReviewAuthorization, HasRound, NoRound
  <2>2. round'.size = round.size /\ round'.ceiling = round.ceiling /\ HasRound'
    BY <1>2, <2>1, SameRound DEF HandleReviewAuthorization
  <2>3. round'.authorized /\ round'.status = "pending"
    BY <1>0, <1>2 DEF HandleReviewAuthorization, Round
  <2> QED
    BY <1>2, <2>1, <2>2, <2>3 DEF HandleReviewAuthorization
<1>3. CASE ~MarkRound /\ ~HandleReviewAuthorization
  <2>1. UNCHANGED <<round, results>>
    BY <1>3 DEF Shaping, Next, Coordinator, Failures, People, vars,
       StartReviewUnit, RetryReviewReadiness, StartReviewRound,
       StartImplementation, ReviewStops, RetryWaitingForHarness,
       CommitReviewer, LaunchFails, Reconcile, Expire, ReportReady,
       ReserveAcceptance, SaveRun,
       ProjectReview, RouteReviewRepair, LaunchImplementer, CommitImplementer,
       CheckHead, RemoveDraftFlag, RejectUnreviewedHead, PersistReady,
       StartUp, RecoverAggregate, ActivateAuthorized, WriteFails,
       ImplementerFails, ImplementerRateLimited, Crash, HandleRepair,
       ConfigureHost, PushForeign
  <2> QED
    BY <2>1 DEF HasRound
<1> QED
  BY <1>1, <1>2, <1>3

\* Such a step goes on with the launch that is under way, or with none; a
\* launch begins for a unit there is room for, or as one of the two that start
\* a round.
LEMMA LaunchKept ==
  ASSUME TypeInv, RoundInv, [Next]_vars, ~Shaping
  PROVE  \/ UNCHANGED <<step, host>>
         \/ /\ step'.at \notin {"prepare", "start", "commit"}
            /\ step'.at = "launch" =>
                 step'.then = "second" \/ StartReviewUnit
<1>0. step \in Step
  BY DEF TypeInv, TypeOK
<1>1. CASE UNCHANGED <<step, host>>
  BY <1>1
<1>2. CASE Return
  BY <1>2, ReturnQuiet DEF Launching
<1>3. CASE step' = Idle
  BY <1>3, EmptyTypes
<1>4. CASE \E stage \in Stages \ ({"launch"} \cup Launching) : Goto(stage)
  BY <1>0, <1>4, GotoType DEF Launching
<1>5. CASE StartReviewUnit \/ StartReviewRound
  BY <1>5, EmptyTypes DEF StartReviewUnit, StartReviewRound, Step
<1>6. CASE CommitReviewer
  BY <1>6, EmptyTypes DEF CommitReviewer, Step
<1>7. CASE ReserveAcceptance \/ Crash \/ StartUp \/ RecoverAggregate
  BY <1>7, EmptyTypes
     DEF ReserveAcceptance, Crash, StartUp, RecoverAggregate, Step
<1>8. CASE RouteReviewRepair
  <2>1. CASE Decision = "start"
    BY <1>0, <1>8, <2>1 DEF RouteReviewRepair, Step
  <2>2. CASE Decision # "start"
    BY <1>2, <1>8, <2>2 DEF RouteReviewRepair
  <2> QED
    BY <2>1, <2>2
<1>9. CASE ConfigureHost
  BY <1>9 DEF ConfigureHost, At
<1>10. CASE \/ LaunchFails \/ CommitImplementer \/ ImplementerFails
            \/ ImplementerRateLimited \/ PersistReady
  BY <1>2, <1>10 DEF LaunchFails, CommitImplementer, ImplementerFails,
     ImplementerRateLimited, PersistReady
<1>11. CASE \/ RejectUnreviewedHead \/ WriteFails \/ Reconcile
            \/ ActivateAuthorized
  BY <1>3, <1>11 DEF RejectUnreviewedHead, WriteFails, Reconcile,
     ActivateAuthorized
<1>12. CASE \/ RetryReviewReadiness \/ StartImplementation \/ SaveRun
            \/ LaunchImplementer \/ CheckHead \/ RemoveDraftFlag
            \/ HandleReviewAuthorization
  <2>1. \E stage \in {"ready", "implement", "dispatch", "committed", "revert",
                      "undraft", "persist", "authorize"} : Goto(stage)
    BY <1>12 DEF RetryReviewReadiness, StartImplementation, SaveRun,
       LaunchImplementer, CheckHead, RemoveDraftFlag, HandleReviewAuthorization
  <2> QED
    BY <1>4, <2>1 DEF Stages, Launching
<1>13. CASE \/ MarkRound \/ ProjectReview \/ RetryWaitingForHarness
  <2>1. \/ UNCHANGED <<step, host>> \/ Return \/ step' = Idle
        \/ \E stage \in {"project", "ready", "route", "implement"} :
             Goto(stage)
    BY <1>13 DEF MarkRound, ProjectReview, RetryWaitingForHarness, world
  <2> QED
    BY <1>2, <1>3, <1>4, <2>1 DEF Stages, Launching
<1>14. CASE \/ ReviewStops \/ Expire \/ \E s \in Slots : ReportReady(s)
            \/ HandleRepair \/ PushForeign \/ UNCHANGED vars
  <2>1. UNCHANGED <<step, host>>
    BY <1>14 DEF ReviewStops, Expire, ReportReady, HandleRepair, PushForeign,
       vars, world
  <2> QED
    BY <2>1
<1> QED
  BY <1>5, <1>6, <1>7, <1>8, <1>9, <1>10, <1>11, <1>12, <1>13, <1>14
     DEF Shaping, Next, Coordinator, Failures, People

\* Nothing is reviewed above the fan-out without an authorization.
LEMMA FanOutStep ==
  ASSUME TypeInv, TypeInv', RoundInv, FanOutHeld, [Next]_vars
  PROVE  FanOutHeld'
<1>0. /\ step \in Step /\ round \in Round
      /\ results \in [Slots -> Report \cup {NoReport}]
  BY DEF TypeInv, TypeOK
<1>1. CASE ~Shaping
  <2>1. /\ Reviewers' \subseteq Reviewers /\ Done' = Done
        /\ round'.size = round.size
        /\ round.authorized => round'.authorized
    BY <1>1, FewerReviewers, ShapeKept DEF Shaping, Done, RoundSlots
  <2>2. step'.at \in {"start", "commit"} => UNCHANGED step
    BY <1>1, LaunchKept
  <2> QED
    BY <2>1, <2>2 DEF FanOutHeld, OversizedIsAuthorized, Oversized
<1>2. CASE LaunchReviewer
  <2>1. Reviewers' \subseteq Reviewers /\ results' = results
    BY <1>2, FewerReviewers DEF LaunchReviewer, StartReviewer, At
  <2>2. step'.at \notin {"start", "commit"}
    <3>1. CASE Return
      BY <3>1, ReturnQuiet DEF Launching
    <3>2. CASE SaveReviewManifest
      BY <1>0, <3>2 DEF SaveReviewManifest, Step
    <3>3. CASE ChosenUnit
      BY <1>0, <3>3 DEF ChosenUnit, Step
    <3> QED
      BY <1>2, <3>1, <3>2, <3>3 DEF LaunchReviewer
  <2>3. CASE HasRound
    <3>1. round' = round
      BY <1>2, <2>3 DEF LaunchReviewer
    <3> QED
      BY <2>1, <2>2, <3>1
         DEF FanOutHeld, OversizedIsAuthorized, Done, RoundSlots
  <2>4. CASE ~HasRound
    <3>1. Reviewers' = {} /\ results' = NoResults
      BY <2>1, <2>4, EmptyRound
    <3>2. Done' = {}
      <4>1. round'.size \in 0..MaxUnits
        BY DEF TypeInv, TypeOK, Round
      <4>2. RoundSlots' \subseteq Slots
        BY <4>1, UnitsAssumption DEF RoundSlots, Slots
      <4> QED
        BY <3>1, <4>2 DEF Done, NoResults
    <3> QED
      BY <2>2, <3>1, <3>2 DEF FanOutHeld, OversizedIsAuthorized
  <2> QED
    BY <2>3, <2>4
<1>3. CASE PrepareReview
  <2>1. /\ Reviewers' \subseteq Reviewers /\ results' = results
    BY <1>3, FewerReviewers DEF PrepareReview, StartReviewer, At
  <2>2. /\ round'.size = round.size
        /\ round'.authorized = round.authorized
    BY <1>0, <1>3 DEF PrepareReview, Round
  <2>3. Done' = Done
    BY <2>1, <2>2 DEF Done, RoundSlots
  <2>4. step'.at \in {"start", "commit"} => ~Oversized
    BY <1>3, ReturnQuiet DEF PrepareReview, Launching
  <2> QED
    BY <2>1, <2>2, <2>3, <2>4
       DEF FanOutHeld, OversizedIsAuthorized, Oversized
<1>4. CASE StartReviewer
  <2>1. UNCHANGED <<round, results>> /\ ~Oversized
    BY <1>4 DEF StartReviewer, FanOutHeld, At
  <2>2. round.size \in Nat /\ FanOut \in Nat
    BY <1>0, UnitsAssumption DEF Round
  <2> QED
    BY <2>1, <2>2 DEF FanOutHeld, OversizedIsAuthorized, Oversized
<1>5. CASE RecordResult
  <2>1. Reviewers' \subseteq Reviewers /\ UNCHANGED round
    BY <1>5, FewerReviewers DEF RecordResult, StartReviewer, At
  <2>2. step'.at = "save"
    BY <1>0, <1>5, GotoType DEF RecordResult, Stages
  <2>3. Reviewers # {} \/ Done # {}
    <3>1. /\ effect.slot \in RoundSlots /\ effect.report # NoReport
          /\ \/ results[effect.slot] = effect.report
             \/ sessions[effect.slot] # "none"
      BY <1>5 DEF RecordResult, At, Accepting, RoundInv, EffectOwned
    <3> QED
      BY <3>1, RoundSlotsType DEF Done, Reviewers
  <2> QED
    BY <2>1, <2>2, <2>3 DEF FanOutHeld, OversizedIsAuthorized
<1>6. CASE HandleAnswer \/ Deliver
  <2>1. round' = NoRound /\ step'.at \in {"idle", "implement"}
    <3>1. CASE HandleAnswer
      BY <1>0, <3>1, GotoType DEF HandleAnswer, Stages
    <3>2. CASE Deliver
      BY <3>2 DEF Deliver, At
    <3> QED
      BY <1>6, <3>1, <3>2
  <2>2. round'.size <= FanOut
    BY <2>1, UnitsAssumption DEF NoRound
  <2> QED
    BY <2>1, <2>2 DEF FanOutHeld, OversizedIsAuthorized
<1> QED
  BY <1>1, <1>2, <1>3, <1>4, <1>5, <1>6 DEF Shaping

\* A launch under way keeps the room it was admitted for.
LEMMA RoomStep ==
  ASSUME TypeInv, TypeInv', RoundInv, RoomKept, [Next]_vars
  PROVE  RoomKept'
<1>0. /\ step \in Step /\ round \in Round /\ run \in Run
      /\ host \in Nat \ {0}
  BY HostAssumption DEF TypeInv, TypeOK
<1>1. CASE ~Shaping /\ UNCHANGED <<step, host>>
  <2>1. Reviewers' \subseteq Reviewers
    BY <1>1, FewerReviewers DEF Shaping
  <2>2. /\ Cardinality(Reviewers') \in Nat /\ Cardinality(Reviewers) \in Nat
        /\ Cardinality(Reviewers') <= Cardinality(Reviewers)
    BY <2>1, FiniteReviewers, FS_Subset, FS_CardinalityType
  <2>3. round'.ceiling = round.ceiling /\ HasRound' = HasRound
    BY <1>1, ShapeKept
  <2>4. round.ceiling \in Nat
    BY <1>0 DEF Round
  <2> QED
    BY <1>0, <1>1, <2>2, <2>3, <2>4 DEF RoomKept
<1>2. CASE ~Shaping /\ ~UNCHANGED <<step, host>>
  <2>1. /\ step'.at \notin {"prepare", "start", "commit"}
        /\ step'.at = "launch" => step'.then = "second" \/ StartReviewUnit
    BY <1>2, LaunchKept
  <2>2. CASE StartReviewUnit
    <3>1. HasRound /\ Cardinality(Reviewers) < round.ceiling
      BY <2>2 DEF StartReviewUnit, MissingReviewUnit, HasRoom, HasRound,
         NoRound
    <3>2. UNCHANGED <<round, sessions>>
      BY <2>2 DEF StartReviewUnit
    <3> QED
      BY <2>1, <3>1, <3>2 DEF RoomKept, HasRound, Reviewers
  <2> QED
    BY <2>1, <2>2 DEF RoomKept
<1>3. CASE LaunchReviewer
  <2>1. UNCHANGED <<sessions, host>> /\ Reviewers' = Reviewers
    BY <1>3 DEF LaunchReviewer, world, Reviewers
  <2>2. ~LaunchRefused => Cardinality(Reviewers) < host
    BY <1>0, FiniteReviewers DEF LaunchRefused
  <2>3. CASE Return
    BY <2>3, ReturnQuiet DEF RoomKept, Launching
  <2>4. CASE ~LaunchRefused /\ ~HasRound /\ SaveReviewManifest
    <3>1. round'.ceiling = host /\ HasRound' /\ step'.at = "prepare"
      BY <1>0, <2>4, UnitsAssumption
         DEF SaveReviewManifest, HasRound, NoRound, Step
    <3> QED
      BY <2>1, <2>2, <2>4, <3>1 DEF RoomKept
  <2>5. CASE /\ ~LaunchRefused /\ ChosenUnit /\ UNCHANGED round
    <3>1. step'.at = "prepare" /\ step'.then = step.then
      BY <1>0, <2>5 DEF ChosenUnit, Step
    <3>2. step.at = "launch"
      BY <1>3 DEF LaunchReviewer, At
    <3> QED
      BY <2>1, <2>2, <2>5, <3>1, <3>2 DEF RoomKept, HasRound
  <2> QED
    BY <1>3, <2>3, <2>4, <2>5 DEF LaunchReviewer
<1>4. CASE PrepareReview
  <2>1. UNCHANGED <<sessions, host>> /\ Reviewers' = Reviewers
    BY <1>4 DEF PrepareReview, world, Reviewers
  <2>2. HasRound
    BY <1>4 DEF PrepareReview, At, Launching, RoundInv, OneReview
  <2>3. HasRound' /\ round'.ceiling = round.ceiling
    BY <1>4, <2>2, SameRound DEF PrepareReview
  <2>4. CASE Return
    BY <2>4, ReturnQuiet DEF RoomKept, Launching
  <2>5. CASE Goto("start")
    <3>1. step'.at = "start" /\ step'.then = step.then
      BY <1>0, <2>5, GotoType DEF Stages
    <3>2. step.at = "prepare"
      BY <1>4 DEF PrepareReview, At
    <3> QED
      BY <2>1, <2>3, <3>1, <3>2 DEF RoomKept
  <2> QED
    BY <1>4, <2>4, <2>5 DEF PrepareReview
<1>5. CASE StartReviewer \/ RecordResult
  <2>1. step'.at \in {"commit", "save"}
    BY <1>0, <1>5, GotoType DEF StartReviewer, RecordResult, Stages
  <2> QED
    BY <2>1 DEF RoomKept
<1>6. CASE HandleAnswer \/ Deliver
  <2>1. step'.at \in {"idle", "implement"}
    <3>1. CASE HandleAnswer
      BY <1>0, <3>1, GotoType DEF HandleAnswer, Stages
    <3>2. CASE Deliver
      BY <3>2 DEF Deliver, At
    <3> QED
      BY <1>6, <3>1, <3>2
  <2> QED
    BY <2>1 DEF RoomKept
<1> QED
  BY <1>1, <1>2, <1>3, <1>4, <1>5, <1>6 DEF Shaping

\* The start of a reviewer fits into the host and into its round.
LEMMA CeilingStep ==
  ASSUME TypeInv, RoundInv, RoomKept, [Next]_vars,
         Cardinality(Reviewers') > Cardinality(Reviewers)
  PROVE  /\ Cardinality(Reviewers') <= host
         /\ step.then # "second" => Cardinality(Reviewers') <= round.ceiling
<1>0. /\ round.ceiling \in Nat /\ host \in Nat
      /\ sessions \in [Slots -> SessionStates]
  BY HostAssumption DEF TypeInv, TypeOK, Round
<1>1. StartReviewer
  <2> SUFFICES ASSUME ~StartReviewer PROVE FALSE
    OBVIOUS
  <2>1. Reviewers' \subseteq Reviewers
    BY FewerReviewers
  <2>2. /\ Cardinality(Reviewers') <= Cardinality(Reviewers)
        /\ Cardinality(Reviewers') \in Nat
    BY <2>1, FiniteReviewers, FS_Subset, FS_CardinalityType
  <2> QED
    BY <2>2, FiniteReviewers
<1>2. Reviewers' \subseteq Reviewers \cup {Slot}
  BY <1>0, <1>1 DEF StartReviewer, Reviewers
<1>3. /\ Cardinality(Reviewers') <= Cardinality(Reviewers) + 1
      /\ Cardinality(Reviewers') \in Nat
  <2>1. /\ IsFiniteSet(Reviewers \cup {Slot})
        /\ Cardinality(Reviewers \cup {Slot}) \in Nat
        /\ Cardinality(Reviewers \cup {Slot}) <= Cardinality(Reviewers) + 1
    <3>1. /\ IsFiniteSet(Reviewers \cup {Slot})
          /\ Cardinality(Reviewers \cup {Slot}) =
               IF Slot \in Reviewers THEN Cardinality(Reviewers)
                                     ELSE Cardinality(Reviewers) + 1
      <4> HIDE DEF Reviewers, Slot
      <4> QED
        BY FiniteReviewers, FS_AddElement
    <3> QED
      BY <3>1, FiniteReviewers
  <2>2. /\ Cardinality(Reviewers') <= Cardinality(Reviewers \cup {Slot})
        /\ Cardinality(Reviewers') \in Nat
    BY <1>2, <2>1, FS_Subset, FS_CardinalityType
  <2> QED
    BY <2>1, <2>2, FiniteReviewers
<1>4. /\ Cardinality(Reviewers) < host
      /\ step.then # "second" => Cardinality(Reviewers) < round.ceiling
  BY <1>1 DEF StartReviewer, At, RoomKept
<1> QED
  BY <1>0, <1>3, <1>4, FiniteReviewers

-----------------------------------------------------------------------------
(* The projections follow from the results *)

\* An axis with a result for each of its units.
LEMMA AxisResults ==
  ASSUME TypeInv, NEW a \in Axes, AxisDone(a), NEW u \in 1..round.size
  PROVE  <<a, u>> \in Done /\ results[<<a, u>>] \in Report
<1>1. <<a, u>> \in Done
  BY DEF AxisDone
<1>2. <<a, u>> \in Slots /\ results[<<a, u>>] # NoReport
  BY <1>1, RoundSlotsType DEF Done
<1> QED
  BY <1>1, <1>2 DEF TypeInv, TypeOK

\* The aggregate of an axis hides no finding and no incomplete unit.
LEMMA AggregateHidesNothing ==
  ASSUME TypeInv, NEW a \in Axes, AxisDone(a), NEW u \in 1..round.size
  PROVE  /\ results[<<a, u>>].blocks \subseteq Aggregate(a).blocks
         /\ results[<<a, u>>].outcome # "done" => Aggregate(a).outcome # "done"
<1>1. <<a, u>> \in Done /\ results[<<a, u>>] \in Report
  BY AxisResults
<1>2. results[<<a, u>>] \in ResultsOf(a)
  BY <1>1 DEF ResultsOf
<1>3. results[<<a, u>>].blocks \subseteq Aggregate(a).blocks
  BY <1>2 DEF Aggregate, BlocksOf
<1>4. results[<<a, u>>].outcome \in {"done", "asks", "stuck"}
  BY <1>1 DEF Report
<1> QED
  BY <1>2, <1>3, <1>4 DEF Aggregate

\* The projections remain what they are about.
LEMMA AggregatesKept ==
  ASSUME TypeInv, AggregatesInv, UNCHANGED results,
         round'.size = round.size, HasRound' = HasRound,
         run'.proj = run.proj \/ run'.proj = NoProjection,
         round'.status = "complete" =>
           round.status = "complete" \/ Done = RoundSlots
  PROVE  AggregatesInv'
<1>1. Done' = Done /\ RoundSlots' = RoundSlots
  BY DEF Done, RoundSlots
<1>2. \A a \in Axes : AxisDone(a)' = AxisDone(a)
  BY <1>1 DEF AxisDone
<1> QED
  BY <1>1, <1>2 DEF AggregatesInv, ProjectionsAreAggregates,
     CompleteRoundIsReviewed, NoProjection

\* What a projection leaves of the run: the others as they were, and the
\* aggregate of its own axis when that is complete.
LEMMA ProjectionOf ==
  ASSUME TypeInv, ProjectReview
  PROVE  /\ run' \in Run
         /\ \/ run'.proj = run.proj
            \/ /\ AxisDone(step.axis)
               /\ run'.proj = [run.proj EXCEPT ![step.axis] =
                                 Aggregate(step.axis)]
<1>0. run \in Run /\ step.axis \in Axes
  BY DEF TypeInv, TypeOK, Step
<1> DEFINE base == IF step.unit = 0 THEN run ELSE Released(run, Slot)
           proj == [base.proj EXCEPT ![step.axis] = Aggregate(step.axis)]
           with == [base EXCEPT !.proj = proj,
                      !.questions = {a \in Axes : proj[a].outcome = "asks"}]
           next == IF OverLimit(step.axis) THEN Released(run, Slot)
                                           ELSE Projected
<1>1. /\ base \in Run /\ base.proj = run.proj
      /\ Released(run, Slot) \in Run /\ Released(run, Slot).proj = run.proj
  BY <1>0, RunUpdates, ReleasedStage
<1>2. with.proj = [run.proj EXCEPT ![step.axis] = Aggregate(step.axis)]
  BY <1>1 DEF Run
<1>3. IF AxisDone(step.axis) THEN Projected = with ELSE Projected = base
  BY DEF Projected
<1>4. next \in Run
  BY <1>1, ProjectedType DEF TypeInv
<1>5. \/ next.proj = run.proj
      \/ /\ AxisDone(step.axis)
         /\ next.proj = [run.proj EXCEPT ![step.axis] = Aggregate(step.axis)]
  BY <1>1, <1>2, <1>3
<1>6. run' = [next EXCEPT !.status = "waiting"]
      \/ run' = [next EXCEPT !.status = "active"]
  BY DEF ProjectReview
<1>7. run' \in Run /\ run'.proj = next.proj
  BY <1>4, <1>6 DEF Run
<1> QED
  BY <1>5, <1>7

\* Every step keeps the projections true to the results.
LEMMA AggregatesStep ==
  ASSUME TypeInv, TypeInv', RoundInv, AggregatesInv, [Next]_vars
  PROVE  AggregatesInv'
<1>0. /\ run \in Run /\ step \in Step /\ round \in Round
      /\ results \in [Slots -> Report \cup {NoReport}]
  BY DEF TypeInv, TypeOK
<1>1. CASE ~Shaping /\ ~ProjectReview
  <2>1. run'.proj = run.proj \/ run'.proj = NoProjection
    <3>1. CASE UNCHANGED run
      BY <3>1
    <3>2. CASE run' = Paused(run)
      BY <1>0, <3>2, PausedStage
    <3>3. CASE SaveRun
      BY <1>0, <3>3, ReleasedStage DEF SaveRun
    <3>4. CASE HandleRepair
      BY <1>0, <3>4 DEF HandleRepair, Run
    <3>5. CASE \/ CommitReviewer \/ CommitImplementer \/ PersistReady
               \/ ActivateAuthorized \/ RetryWaitingForHarness
               \/ ImplementerRateLimited
      BY <1>0, <3>5 DEF CommitReviewer, CommitImplementer, PersistReady,
         ActivateAuthorized, RetryWaitingForHarness, ImplementerRateLimited,
         Run
    <3>6. CASE RouteReviewRepair
      BY <1>0, <3>6 DEF RouteReviewRepair, Run
    <3>7. CASE ImplementerFails
      <4>1. CASE step.repair
        BY <1>0, <3>7, <4>1 DEF ImplementerFails, Run
      <4>2. CASE ~step.repair
        BY <3>2, <3>7, <4>2 DEF ImplementerFails
      <4> QED
        BY <4>1, <4>2
    <3>8. CASE ~(\/ SaveRun \/ HandleRepair \/ CommitReviewer
                 \/ CommitImplementer \/ PersistReady \/ ActivateAuthorized
                 \/ RetryWaitingForHarness \/ ImplementerRateLimited
                 \/ RouteReviewRepair \/ ImplementerFails)
      <4>1. UNCHANGED run \/ run' = Paused(run)
        BY <1>1, <3>8 DEF Shaping, Next, Coordinator, Failures, People, vars,
           StartReviewUnit, RetryReviewReadiness, StartReviewRound,
           StartImplementation, ReviewStops, LaunchFails, Reconcile, Agree,
           Disagree, Expire, ReportReady, ReserveAcceptance, MarkRound,
           LaunchImplementer, CheckHead, RemoveDraftFlag,
           RejectUnreviewedHead, StartUp, RecoverAggregate, WriteFails, Crash,
           HandleReviewAuthorization, ConfigureHost, PushForeign
      <4> QED
        BY <3>1, <3>2, <4>1
    <3> QED
      BY <3>3, <3>4, <3>5, <3>6, <3>7, <3>8
  <2> QED
    BY <1>1, <2>1, ShapeKept, AggregatesKept
<1>2. CASE ProjectReview
  <2>1. UNCHANGED <<round, results>>
    BY <1>2 DEF ProjectReview
  <2>2. CASE run'.proj = run.proj
    BY <2>1, <2>2, AggregatesKept DEF HasRound
  <2>3. CASE /\ AxisDone(step.axis)
             /\ run'.proj = [run.proj EXCEPT ![step.axis] =
                               Aggregate(step.axis)]
    <3>1. Done' = Done /\ \A a \in Axes : AxisDone(a)' = AxisDone(a)
      BY <2>1 DEF Done, RoundSlots, AxisDone, HasRound
    <3>2. \A a \in Axes : /\ a = step.axis => run'.proj[a] = Aggregate(a)
                          /\ a # step.axis => run'.proj[a] = run.proj[a]
      BY <1>0, <2>3 DEF Run
    <3>3. ProjectionsAreAggregates'
      <4> SUFFICES ASSUME NEW a \in Axes, run'.proj[a] # NoReport
                   PROVE  /\ AxisDone(a)
                          /\ \A u \in 1..round.size :
                               /\ results[<<a, u>>].blocks
                                    \subseteq run'.proj[a].blocks
                               /\ results[<<a, u>>].outcome # "done"
                                    => run'.proj[a].outcome # "done"
        BY <2>1, <3>1 DEF ProjectionsAreAggregates
      <4>1. CASE a = step.axis
        BY <2>3, <3>2, <4>1, AggregateHidesNothing
      <4>2. CASE a # step.axis
        BY <3>2, <4>2 DEF AggregatesInv, ProjectionsAreAggregates
      <4> QED
        BY <4>1, <4>2
    <3>4. CompleteRoundIsReviewed'
      BY <2>1, <3>1
         DEF AggregatesInv, CompleteRoundIsReviewed, RoundSlots
    <3> QED
      BY <3>3, <3>4 DEF AggregatesInv
  <2> QED
    BY <1>2, <2>2, <2>3, ProjectionOf
<1>3. CASE LaunchReviewer
  <2>1. run'.proj = run.proj /\ UNCHANGED results
    BY <1>0, <1>3, PausedStage DEF LaunchReviewer, SaveReviewManifest
  <2>2. CASE round' = round
    BY <2>1, <2>2, AggregatesKept DEF HasRound
  <2>3. CASE ~HasRound /\ SaveReviewManifest
    <3>1. \A a \in Axes : run'.proj[a] = NoReport
      BY <2>1, <2>3, EmptyRound DEF AggregatesInv, ProjectionsAreAggregates
    <3>2. round'.status = "pending"
      BY <2>3 DEF SaveReviewManifest
    <3> QED
      BY <3>1, <3>2 DEF AggregatesInv, ProjectionsAreAggregates,
         CompleteRoundIsReviewed
  <2> QED
    BY <1>3, <2>2, <2>3 DEF LaunchReviewer
<1>4. CASE PrepareReview \/ StartReviewer
  <2>1. run'.proj = run.proj /\ UNCHANGED results
    BY <1>0, <1>4, PausedStage DEF PrepareReview, StartReviewer
  <2>2. CASE PrepareReview
    <3>1. HasRound
      BY <2>2 DEF PrepareReview, At, Launching, RoundInv, OneReview
    <3>2. HasRound' /\ round'.size = round.size
      BY <2>2, <3>1, SameRound DEF PrepareReview
    <3>3. round'.status # "complete"
      BY <1>0, <2>2 DEF PrepareReview, Round
    <3> QED
      BY <2>1, <3>1, <3>2, <3>3, AggregatesKept
  <2>3. CASE StartReviewer
    BY <2>1, <2>3, AggregatesKept DEF StartReviewer, HasRound
  <2> QED
    BY <1>4, <2>2, <2>3
<1>5. CASE RecordResult
  <2>1. /\ effect.report # NoReport /\ Slot = effect.slot
        /\ Slot \in RoundSlots /\ Slot \in Slots
        /\ results[Slot] \in {NoReport, effect.report}
    BY <1>5, RoundSlotsType
       DEF RecordResult, At, Accepting, RoundInv, EffectOwned
  <2>2. /\ UNCHANGED <<run, round>> /\ results'[Slot] = effect.report
        /\ \A s \in Slots : s # Slot => results'[s] = results[s]
    BY <1>0, <1>5, <2>1 DEF RecordResult
  <2>3. Done \subseteq Done' /\ \A s \in Done : results'[s] = results[s]
    BY <2>1, <2>2, RoundSlotsType DEF Done, RoundSlots
  <2>4. ProjectionsAreAggregates'
    <3> SUFFICES ASSUME NEW a \in Axes, run.proj[a] # NoReport
                 PROVE  /\ AxisDone(a)'
                        /\ \A u \in 1..round.size :
                             /\ results'[<<a, u>>].blocks
                                  \subseteq run.proj[a].blocks
                             /\ results'[<<a, u>>].outcome # "done"
                                  => run.proj[a].outcome # "done"
      BY <2>2 DEF ProjectionsAreAggregates
    <3>1. AxisDone(a)
      BY DEF AggregatesInv, ProjectionsAreAggregates
    <3>2. AxisDone(a)'
      BY <2>2, <2>3, <3>1 DEF AxisDone, HasRound
    <3>3. \A u \in 1..round.size : results'[<<a, u>>] = results[<<a, u>>]
      BY <2>3, <3>1, AxisResults
    <3> QED
      BY <3>2, <3>3 DEF AggregatesInv, ProjectionsAreAggregates
  <2>5. CompleteRoundIsReviewed'
    BY <2>2, <2>3
       DEF AggregatesInv, CompleteRoundIsReviewed, Done, RoundSlots
  <2> QED
    BY <2>4, <2>5 DEF AggregatesInv
<1>6. CASE HandleAnswer \/ Deliver
  <2>1. run'.proj = NoProjection /\ round' = NoRound
    BY <1>0, <1>6 DEF HandleAnswer, Deliver, Run
  <2> QED
    BY <2>1 DEF AggregatesInv, ProjectionsAreAggregates, NoProjection,
       CompleteRoundIsReviewed, NoRound
<1> QED
  BY <1>1, <1>2, <1>3, <1>4, <1>5, <1>6 DEF Shaping

-----------------------------------------------------------------------------
(* The coordinator decides on what the projections say *)

\* The stages at which the coordinator relies on what it found before.
Deciding == {"dispatch", "project", "route", "implement", "committed",
             "ready", "undraft", "revert", "persist"}

\* The verdict depends on the projections alone.
LEMMA VerdictOf ==
  ASSUME NEW r, NEW q, r.proj = q.proj
  PROVE  /\ Passed(r) = Passed(q) /\ Complete(r) = Complete(q)
         /\ Incomplete(r) = Incomplete(q) /\ Keys(r) = Keys(q)
  BY DEF Passed, Complete, Incomplete, Keys

\* Ending an operation decides nothing.
LEMMA ReturnDecides ==
  ASSUME Return
  PROVE  step'.at \notin Deciding /\ ~step'.repair
<1>1. ~[Idle EXCEPT !.at = "recover"].repair /\ ~Idle.repair
  BY DEF Idle
<1>2. ~step'.repair
  BY <1>1 DEF Return
<1> QED
  BY <1>2, ReturnType DEF Deciding

\* The same holds of the idle coordinator.
LEMMA IdleDecides == Idle.at \notin Deciding /\ ~Idle.repair
  BY DEF Idle, Deciding

\* A step that keeps the stage, the projections and the questions of the run,
\* and goes on to nothing that relies on them.
LEMMA StagesKept ==
  ASSUME TypeInv, StagesInv, effect' \in {effect, NoEffect},
         pr.draft => pr'.draft,
         run'.proj = run.proj, run'.questions = run.questions,
         run'.stage = run.stage,
         run'.status = "harness" => run.status = "harness",
         UNCHANGED step \/ (step'.at \notin Deciding /\ ~step'.repair)
  PROVE  StagesInv'
<1>1. /\ Passed(run') = Passed(run) /\ Complete(run') = Complete(run)
      /\ Incomplete(run') = Incomplete(run) /\ Keys(run') = Keys(run)
  BY VerdictOf
<1>2. QuestionsAsked' /\ UndraftedPassed'
  BY <1>1 DEF StagesInv, QuestionsAsked, UndraftedPassed
<1>3. AxisOpen'
  BY DEF StagesInv, AxisOpen, Deciding
<1>4. StageKnown'
  <2>1. CASE UNCHANGED step
    BY <1>1, <2>1 DEF StagesInv, StageKnown, At
  <2>2. CASE step'.at \notin Deciding /\ ~step'.repair
    BY <2>2 DEF StagesInv, StageKnown, At, Deciding
  <2> QED
    BY <2>1, <2>2
<1> QED
  BY <1>2, <1>3, <1>4 DEF StagesInv

\* An idle coordinator, or one that is not at work for a repair, carries no
\* reservation of one.
LEMMA NoRepair ==
  ASSUME StagesInv, step.at \notin {"implement", "committed"}
  PROVE  ~step.repair
  BY DEF StagesInv, StageKnown

\* Steps that decide nothing.
LEMMA QuietStages ==
  ASSUME TypeInv, StagesInv,
         \/ StartReviewUnit \/ StartReviewRound \/ ReviewStops
         \/ LaunchReviewer \/ PrepareReview \/ StartReviewer \/ LaunchFails
         \/ RecordResult \/ WriteFails \/ RejectUnreviewedHead
         \/ Reconcile \/ ActivateAuthorized \/ HandleReviewAuthorization
         \/ Crash \/ StartUp \/ Expire \/ ConfigureHost \/ PushForeign
         \/ UNCHANGED vars \/ \E s \in Slots : ReportReady(s)
  PROVE  StagesInv'
<1>0. /\ step \in Step /\ run \in Run
      /\ pr \in [draft : BOOLEAN, head : {"ours", "foreign"}]
  BY DEF TypeInv, TypeOK
<1>1. /\ effect' = effect
      /\ \/ UNCHANGED run \/ run' = Paused(run)
         \/ run' = [run EXCEPT !.status = "active"]
  BY DEF StartReviewUnit, StartReviewRound, ReviewStops, LaunchReviewer,
     SaveReviewManifest, PrepareReview, StartReviewer, LaunchFails,
     RecordResult, WriteFails, RejectUnreviewedHead, Reconcile, Agree,
     Disagree, ActivateAuthorized, HandleReviewAuthorization, Crash, StartUp,
     Expire, ConfigureHost, PushForeign, ReportReady, vars
<1>2. pr' = pr \/ pr' = [pr EXCEPT !.draft = TRUE]
           \/ pr' = [pr EXCEPT !.head = "foreign"]
  BY DEF StartReviewUnit, StartReviewRound, ReviewStops, LaunchReviewer,
     PrepareReview, StartReviewer, LaunchFails, RecordResult, WriteFails,
     RejectUnreviewedHead, Reconcile, ActivateAuthorized,
     HandleReviewAuthorization, Crash, StartUp, Expire, ConfigureHost,
     PushForeign, ReportReady, vars, world
<1>3. pr.draft => pr'.draft
  BY <1>0, <1>2
<1>4. /\ run'.proj = run.proj /\ run'.questions = run.questions
      /\ run'.stage = run.stage
      /\ run'.status = "harness" => run.status = "harness"
  BY <1>0, <1>1, PausedStage DEF Run
<1>5. UNCHANGED step \/ (step'.at \notin Deciding /\ ~step'.repair)
  <2>1. CASE Return \/ step' = Idle
    BY <2>1, ReturnDecides, IdleDecides
  <2>2. CASE StartReviewUnit \/ StartReviewRound \/ Crash \/ StartUp
    BY <2>2, EmptyTypes, IdleDecides
       DEF StartReviewUnit, StartReviewRound, Crash, StartUp, Step, Deciding
  <2>3. CASE LaunchReviewer
    <3>1. ~step.repair
      BY <2>3, NoRepair DEF LaunchReviewer, At
    <3>2. CASE SaveReviewManifest \/ ChosenUnit
      BY <1>0, <3>1, <3>2
         DEF SaveReviewManifest, ChosenUnit, Step, Deciding
    <3> QED
      BY <2>1, <2>3, <3>2 DEF LaunchReviewer
  <2>4. CASE PrepareReview
    <3>1. ~step.repair
      BY <2>4, NoRepair DEF PrepareReview, At
    <3>2. CASE Goto("start")
      BY <1>0, <3>1, <3>2, GotoType DEF Stages, Deciding
    <3> QED
      BY <2>1, <2>4, <3>2 DEF PrepareReview
  <2>5. CASE StartReviewer \/ RecordResult \/ HandleReviewAuthorization
    <3>1. ~step.repair
      BY <2>5, NoRepair
         DEF StartReviewer, RecordResult, HandleReviewAuthorization, At
    <3>2. \E stage \in {"commit", "save", "authorize"} : Goto(stage)
      BY <2>5 DEF StartReviewer, RecordResult, HandleReviewAuthorization
    <3> QED
      BY <1>0, <3>1, <3>2, GotoType DEF Stages, Deciding
  <2>6. CASE \/ LaunchFails \/ WriteFails \/ RejectUnreviewedHead
             \/ Reconcile \/ ActivateAuthorized
    BY <2>1, <2>6 DEF LaunchFails, WriteFails, RejectUnreviewedHead,
       Reconcile, ActivateAuthorized
  <2>7. CASE \/ ReviewStops \/ Expire \/ ConfigureHost \/ PushForeign
             \/ UNCHANGED vars \/ \E s \in Slots : ReportReady(s)
    BY <2>7 DEF ReviewStops, Expire, ConfigureHost, PushForeign, ReportReady,
       vars
  <2> QED
    BY <2>2, <2>3, <2>4, <2>5, <2>6, <2>7
<1> QED
  BY <1>1, <1>3, <1>4, <1>5, StagesKept

\* The acceptance of a report is about an axis without a projection.
LEMMA AcceptStages ==
  ASSUME TypeInv, RoundInv, AggregatesInv, StagesInv,
         \/ ReserveAcceptance \/ SaveRun \/ MarkRound \/ RecoverAggregate
  PROVE  StagesInv'
<1>0. step \in Step /\ run \in Run
  BY DEF TypeInv, TypeOK
<1>1. CASE ReserveAcceptance
  <2>1. PICK s \in Slots, r \in Reports :
          /\ sessions[s] = "ready"
          /\ effect' = [slot |-> s, report |-> r]
          /\ step' = [Idle EXCEPT !.at = "record", !.axis = s[1],
                                  !.unit = s[2]]
    BY <1>1 DEF ReserveAcceptance
  <2>2. step'.at = "record" /\ ~step'.repair
    BY <2>1, EmptyTypes, IdleDecides DEF Step
  <2>3. UNCHANGED <<run, pr>>
    BY <1>1 DEF ReserveAcceptance, world
  <2>4. run.proj[s[1]] = NoReport
    <3>1. s \in RoundSlots /\ results[s] = NoReport
      BY <2>1 DEF RoundInv, RoundOwns, OneReview, Reviewers
    <3>2. s[1] \in Axes /\ s \in {s[1]} \X (1..round.size) /\ s \notin Done
      BY <3>1 DEF RoundSlots, Done
    <3>3. ~AxisDone(s[1])
      BY <3>2 DEF AxisDone
    <3> QED
      BY <3>2, <3>3 DEF AggregatesInv, ProjectionsAreAggregates
  <2>5. effect'.slot = s
    BY <2>1
  <2>6. AxisOpen'
    BY <2>2, <2>3, <2>4, <2>5 DEF AxisOpen
  <2>7. QuestionsAsked' /\ UndraftedPassed'
    BY <2>3 DEF StagesInv, QuestionsAsked, UndraftedPassed
  <2>8. StageKnown'
    BY <2>2, <2>3 DEF StagesInv, StageKnown, At
  <2> QED
    BY <2>6, <2>7, <2>8 DEF StagesInv
<1>2. CASE SaveRun
  <2>1. /\ step'.at = "dispatch" /\ step'.axis = step.axis
        /\ step'.unit = step.unit /\ ~step'.repair
    BY <1>0, <1>2, GotoType, NoRepair DEF SaveRun, At, Stages
  <2>2. effect # NoEffect /\ effect.slot[1] = step.axis /\ step.unit # 0
    BY <1>2 DEF SaveRun, At, Accepting, RoundInv, EffectOwned, TypeInv,
       UnitKnown, Slot
  <2>3. \/ run' = run
        \/ /\ run'.proj = run.proj /\ run'.stage = "review"
           /\ run'.status = "active" /\ run'.questions = {}
    BY <1>0, <1>2, ReleasedStage DEF SaveRun
  <2>4. effect' = NoEffect /\ UNCHANGED pr
    BY <1>2 DEF SaveRun, world
  <2>5. /\ Passed(run') = Passed(run) /\ Incomplete(run') = Incomplete(run)
    BY <2>3, VerdictOf
  <2>6. AxisOpen'
    BY <2>1, <2>2, <2>3, <2>4 DEF StagesInv, AxisOpen
  <2>7. QuestionsAsked' /\ UndraftedPassed'
    BY <2>3, <2>4, <2>5 DEF StagesInv, QuestionsAsked, UndraftedPassed
  <2>8. StageKnown'
    BY <2>1, <2>2, <2>3 DEF StagesInv, StageKnown, At
  <2> QED
    BY <2>6, <2>7, <2>8 DEF StagesInv
<1>3. CASE MarkRound
  <2>1. CASE run' = Paused(run) /\ step' = Idle
    BY <1>0, <1>3, <2>1, PausedStage, IdleDecides, StagesKept
       DEF MarkRound, world
  <2>2. CASE Goto("project") /\ UNCHANGED run
    <3>1. /\ step'.at = "project" /\ step'.axis = step.axis
          /\ step'.unit = step.unit /\ ~step'.repair /\ step.at = "dispatch"
      BY <1>0, <1>3, <2>2, GotoType, NoRepair DEF MarkRound, At, Stages
    <3>2. UNCHANGED <<run, pr, effect>>
      BY <1>3, <2>2 DEF MarkRound, world
    <3>3. AxisOpen' /\ QuestionsAsked' /\ UndraftedPassed'
      BY <3>1, <3>2
         DEF StagesInv, AxisOpen, QuestionsAsked, UndraftedPassed
    <3>4. StageKnown'
      BY <3>1, <3>2 DEF StagesInv, StageKnown, At
    <3> QED
      BY <3>3, <3>4 DEF StagesInv
  <2> QED
    BY <1>3, <2>1, <2>2 DEF MarkRound
<1>4. CASE RecoverAggregate
  <2>1. /\ step'.at = "dispatch" /\ ~step'.repair
        /\ step'.axis \in Unprojected
    BY <1>4, EmptyTypes, IdleDecides
       DEF RecoverAggregate, AggregatesLost, Unprojected, Axes, Step
  <2>2. UNCHANGED <<run, pr, effect>> /\ run.stage = "review"
    BY <1>4 DEF RecoverAggregate, AggregatesLost, world
  <2>3. AxisOpen'
    BY <2>1, <2>2 DEF StagesInv, AxisOpen, Unprojected
  <2>4. QuestionsAsked' /\ UndraftedPassed'
    BY <2>2 DEF StagesInv, QuestionsAsked, UndraftedPassed
  <2>5. StageKnown'
    BY <2>1, <2>2 DEF StagesInv, StageKnown, At
  <2> QED
    BY <2>3, <2>4, <2>5 DEF StagesInv
<1> QED
  BY <1>1, <1>2, <1>3, <1>4

\* The projection of an axis decides between a person, repair and readiness.
LEMMA ProjectStages ==
  ASSUME TypeInv, RoundInv, StagesInv, ProjectReview
  PROVE  StagesInv'
<1>0. /\ run \in Run /\ step \in Step /\ step.at = "project"
      /\ step.axis \in Axes /\ effect = NoEffect
  BY NothingReserved
     DEF TypeInv, TypeOK, Step, ProjectReview, At, Accepting
<1> DEFINE base == IF step.unit = 0 THEN run ELSE Released(run, Slot)
           proj == [base.proj EXCEPT ![step.axis] = Aggregate(step.axis)]
           with == [base EXCEPT !.proj = proj,
                      !.questions = {a \in Axes : proj[a].outcome = "asks"}]
           next == IF OverLimit(step.axis) THEN Released(run, Slot)
                                           ELSE Projected
           stays == OverLimit(step.axis) \/ Incomplete(next)
<1>1. /\ base \in Run /\ base.stage = "review" /\ base.proj = run.proj
      /\ base.questions = {} \/ base = run
      /\ Released(run, Slot) \in Run /\ Released(run, Slot).stage = "review"
      /\ Released(run, Slot).questions = {}
  BY <1>0, RunUpdates, ReleasedStage DEF StagesInv, StageKnown
<1>2. Projected \in {base, with}
  BY DEF Projected
<1>3. base.questions # {} => Incomplete(base)
  BY <1>1 DEF StagesInv, QuestionsAsked
<1>4. with.stage = "review" /\ (with.questions # {} => Incomplete(with))
  BY <1>1 DEF Run, Incomplete
<1>5. /\ next \in Run /\ next.stage = "review"
      /\ next.questions # {} => Incomplete(next)
  BY <1>1, <1>2, <1>3, <1>4, ProjectedType DEF TypeInv
<1>6. /\ run' = [next EXCEPT !.status = IF stays THEN "waiting" ELSE "active"]
      /\ IF stays \/ ~Complete(next) THEN Return
         ELSE Goto(IF Keys(next) = {} THEN "ready" ELSE "route")
  BY DEF ProjectReview
<1>7. /\ run'.stage = "review" /\ run'.status # "harness"
      /\ run'.proj = next.proj /\ run'.questions = next.questions
  <2> HIDE DEF next, stays
  <2> QED
    BY <1>5, <1>6 DEF Run
<1>8. /\ Passed(run') = Passed(next) /\ Complete(run') = Complete(next)
      /\ Incomplete(run') = Incomplete(next) /\ Keys(run') = Keys(next)
  BY <1>7, VerdictOf
<1>9. pr.draft /\ UNCHANGED <<pr, effect>>
  BY <1>0 DEF ProjectReview, world, StagesInv, UndraftedPassed, AxisOpen,
     Passed, Complete
<1>10. QuestionsAsked' /\ UndraftedPassed'
  BY <1>5, <1>7, <1>8, <1>9 DEF QuestionsAsked, UndraftedPassed
<1>11. AxisOpen' /\ StageKnown'
  <2>1. CASE Return
    BY <1>0, <1>7, <1>9, <2>1, ReturnDecides
       DEF AxisOpen, StageKnown, At, Deciding
  <2>2. CASE ~Return
    <3>1. /\ Complete(next) /\ ~Incomplete(next)
          /\ Goto(IF Keys(next) = {} THEN "ready" ELSE "route")
      BY <1>6, <2>2
    <3>2. ~step.repair
      BY <1>0, NoRepair
    <3>3. CASE Keys(next) = {}
      <4>1. step'.at = "ready" /\ ~step'.repair
        BY <1>0, <3>1, <3>2, <3>3, GotoType DEF Stages
      <4>2. Passed(run')
        BY <1>8, <3>1, <3>3 DEF Passed
      <4> QED
        BY <1>0, <1>7, <1>9, <4>1, <4>2 DEF AxisOpen, StageKnown, At
    <3>4. CASE Keys(next) # {}
      <4>1. step'.at = "route" /\ ~step'.repair
        BY <1>0, <3>1, <3>2, <3>4, GotoType DEF Stages
      <4> QED
        BY <1>0, <1>7, <1>8, <1>9, <3>1, <3>4, <4>1
           DEF AxisOpen, StageKnown, At
    <3> QED
      BY <3>3, <3>4
  <2> QED
    BY <2>1, <2>2
<1> QED
  BY <1>10, <1>11 DEF StagesInv

\* The implementation and its launches.
LEMMA RepairStages ==
  ASSUME TypeInv, RoundInv, StagesInv,
         \/ RouteReviewRepair \/ StartImplementation \/ LaunchImplementer
         \/ CommitImplementer \/ ImplementerFails \/ ImplementerRateLimited
         \/ RetryWaitingForHarness
  PROVE  StagesInv'
<1>0. step \in Step /\ run \in Run
  BY DEF TypeInv, TypeOK
<1>1. effect = NoEffect /\ UNCHANGED <<effect, pr>>
  BY NothingReserved
     DEF RouteReviewRepair, StartImplementation, StageTurn, LaunchImplementer,
         CommitImplementer, ImplementerFails, ImplementerRateLimited,
         RetryWaitingForHarness, At, Accepting, world
<1>2. CASE RouteReviewRepair
  <2>1. /\ pr.draft /\ run.stage = "review" /\ Keys(run) # {}
        /\ ~Incomplete(run)
    BY <1>2 DEF RouteReviewRepair, At, StagesInv, StageKnown,
       UndraftedPassed, Passed
  <2>2. run.questions = {}
    BY <2>1 DEF StagesInv, QuestionsAsked
  <2>3. CASE Decision = "start"
    <3>1. /\ run'.stage = "implementation" /\ run'.status = "active"
          /\ run'.questions = {}
          /\ step'.at = "implement"
      BY <1>0, <1>2, <2>3 DEF RouteReviewRepair, Run, Step
    <3> QED
      BY <1>1, <2>1, <3>1 DEF StagesInv, QuestionsAsked, StageKnown,
         UndraftedPassed, AxisOpen, At
  <2>4. CASE Decision # "start"
    <3>1. /\ run'.stage = run.stage /\ run'.status = "waiting"
          /\ run'.proj = run.proj /\ run'.questions = run.questions
      BY <1>0, <1>2, <2>4 DEF RouteReviewRepair, Run
    <3> QED
      BY <1>1, <1>2, <2>4, <3>1, ReturnDecides, StagesKept
         DEF RouteReviewRepair
  <2> QED
    BY <2>3, <2>4
<1>3. CASE StartImplementation
  <2>1. /\ step'.at = "implement" /\ ~step'.repair
        /\ run.stage = "implementation" /\ UNCHANGED run
    BY <1>0, <1>3, GotoType, NoRepair
       DEF StartImplementation, StageTurn, At, Stages
  <2> QED
    BY <1>1, <2>1 DEF StagesInv, QuestionsAsked, StageKnown,
       UndraftedPassed, AxisOpen, At
<1>4. CASE LaunchImplementer
  <2>1. /\ step'.at = "committed" /\ step'.repair = step.repair
        /\ step.at = "implement" /\ UNCHANGED run
    BY <1>0, <1>4, GotoType DEF LaunchImplementer, At, Stages
  <2> QED
    BY <1>1, <2>1 DEF StagesInv, QuestionsAsked, StageKnown,
       UndraftedPassed, AxisOpen, At
<1>5. CASE CommitImplementer
  <2>1. /\ run'.stage = run.stage /\ run'.status = "active"
        /\ run'.proj = run.proj /\ run'.questions = run.questions
    BY <1>0, <1>5 DEF CommitImplementer, Run
  <2> QED
    BY <1>1, <1>5, <2>1, ReturnDecides, StagesKept DEF CommitImplementer
<1>6. CASE ImplementerFails
  <2>1. run.stage = "implementation"
    BY <1>6 DEF ImplementerFails, StagesInv, StageKnown
  <2>2. CASE step.repair
    <3>1. run.questions = {} /\ pr.draft
      BY <2>1, <2>2 DEF StagesInv, StageKnown, UndraftedPassed
    <3>2. run'.questions = {} /\ run'.status = "waiting"
      BY <1>0, <1>6, <2>2, <3>1 DEF ImplementerFails, Run
    <3>3. step'.at \notin Deciding /\ ~step'.repair
      BY <1>6, ReturnDecides DEF ImplementerFails
    <3> QED
      BY <1>1, <3>1, <3>2, <3>3 DEF StagesInv, QuestionsAsked, StageKnown,
         UndraftedPassed, AxisOpen, At, Deciding
  <2>3. CASE ~step.repair
    BY <1>0, <1>1, <1>6, <2>3, PausedStage, ReturnDecides, StagesKept
       DEF ImplementerFails
  <2> QED
    BY <2>2, <2>3
<1>7. CASE ImplementerRateLimited
  <2>1. run.stage = "implementation"
    BY <1>7 DEF ImplementerRateLimited, StagesInv, StageKnown
  <2>2. run'.stage = "implementation"
    BY <1>0, <1>7, <2>1 DEF ImplementerRateLimited, Run
  <2>3. step'.at \notin Deciding /\ ~step'.repair
    BY <1>7, ReturnDecides DEF ImplementerRateLimited
  <2> QED
    BY <1>1, <2>1, <2>2, <2>3 DEF StagesInv, QuestionsAsked, StageKnown,
       UndraftedPassed, AxisOpen, At, Deciding
<1>8. CASE RetryWaitingForHarness
  <2>1. run.stage = "implementation" /\ ~step.repair
    BY <1>8, NoRepair
       DEF RetryWaitingForHarness, At, StagesInv, StageKnown
  <2>2. CASE impl = "none"
    <3>1. step'.at = "implement" /\ ~step'.repair /\ UNCHANGED run
      BY <1>0, <1>8, <2>1, <2>2, GotoType DEF RetryWaitingForHarness, Stages
    <3> QED
      BY <1>1, <2>1, <3>1 DEF StagesInv, QuestionsAsked, StageKnown,
         UndraftedPassed, AxisOpen, At
  <2>3. CASE impl # "none"
    <3>1. /\ run'.stage = run.stage /\ run'.status = "active"
          /\ run'.proj = run.proj /\ run'.questions = run.questions
          /\ UNCHANGED step
      BY <1>0, <1>8, <2>3 DEF RetryWaitingForHarness, Run
    <3> QED
      BY <1>1, <3>1, StagesKept
  <2> QED
    BY <2>2, <2>3
<1> QED
  BY <1>2, <1>3, <1>4, <1>5, <1>6, <1>7, <1>8

\* The readiness of the pull request, and the launch that lists a reviewer.
LEMMA ReadyStages ==
  ASSUME TypeInv, RoundInv, StagesInv,
         \/ RetryReviewReadiness \/ CheckHead \/ RemoveDraftFlag
         \/ PersistReady \/ CommitReviewer
  PROVE  StagesInv'
<1>0. /\ step \in Step /\ run \in Run
      /\ pr \in [draft : BOOLEAN, head : {"ours", "foreign"}]
  BY DEF TypeInv, TypeOK
<1>1. effect = NoEffect /\ UNCHANGED effect
  BY NothingReserved
     DEF RetryReviewReadiness, CheckHead, RemoveDraftFlag, PersistReady,
         CommitReviewer, At, Accepting
<1>2. CASE RetryReviewReadiness
  <2>1. /\ step'.at = "ready" /\ ~step'.repair /\ UNCHANGED <<run, pr>>
        /\ Passed(run) /\ run.stage \in {"review", "ready"}
    BY <1>0, <1>2, GotoType, NoRepair
       DEF RetryReviewReadiness, Eligible, At, Stages, world
  <2> QED
    BY <1>1, <2>1 DEF StagesInv, QuestionsAsked, StageKnown,
       UndraftedPassed, AxisOpen, At
<1>3. CASE CheckHead \/ RemoveDraftFlag
  <2>1. Passed(run) /\ run.stage \in {"review", "ready"} /\ ~step.repair
    BY <1>3, NoRepair
       DEF CheckHead, RemoveDraftFlag, At, StagesInv, StageKnown
  <2>2. step'.at \in {"revert", "undraft", "persist"} /\ ~step'.repair
    BY <1>0, <1>3, <2>1, GotoType DEF CheckHead, RemoveDraftFlag, Stages
  <2>3. UNCHANGED run
    BY <1>3 DEF CheckHead, RemoveDraftFlag
  <2> QED
    BY <1>1, <2>1, <2>2, <2>3 DEF StagesInv, QuestionsAsked, StageKnown,
       UndraftedPassed, AxisOpen, At
<1>4. CASE PersistReady
  <2>1. Passed(run) /\ run.stage \in {"review", "ready"}
    BY <1>4 DEF PersistReady, At, StagesInv, StageKnown
  <2>2. run.questions = {}
    BY <2>1 DEF StagesInv, QuestionsAsked, Passed
  <2>3. /\ run'.stage = "ready" /\ run'.status = "active"
        /\ run'.proj = run.proj /\ run'.questions = {}
    BY <1>0, <1>4, <2>2 DEF PersistReady, Run
  <2>4. Passed(run')
    BY <2>1, <2>3, VerdictOf
  <2>5. step'.at \notin Deciding /\ ~step'.repair
    BY <1>4, ReturnDecides DEF PersistReady
  <2> QED
    BY <1>1, <2>3, <2>4, <2>5 DEF StagesInv, QuestionsAsked, StageKnown,
       UndraftedPassed, AxisOpen, At, Deciding
<1>5. CASE CommitReviewer
  <2>1. run.stage \in {"draft_pr", "review"}
    BY <1>5 DEF CommitReviewer, At, Launching, RoundInv, LaunchStage
  <2>2. /\ run'.stage = "review" /\ run'.status = "active"
        /\ run'.proj = run.proj /\ run'.questions = run.questions
    BY <1>0, <1>5 DEF CommitReviewer, Run
  <2>3. Passed(run') = Passed(run) /\ Incomplete(run') = Incomplete(run)
    BY <2>2, VerdictOf
  <2>4. step'.at \notin Deciding /\ ~step'.repair
    BY <1>5, EmptyTypes, IdleDecides DEF CommitReviewer, Step, Deciding
  <2>5. UNCHANGED pr
    BY <1>5 DEF CommitReviewer, world
  <2> QED
    BY <1>1, <2>1, <2>2, <2>3, <2>4, <2>5
       DEF StagesInv, QuestionsAsked, StageKnown, UndraftedPassed, AxisOpen,
           At, Deciding
<1> QED
  BY <1>2, <1>3, <1>4, <1>5

\* A person restarts the implementation, or it delivers a checkpoint.
LEMMA PeopleStages ==
  ASSUME TypeInv, RoundInv, StagesInv,
         HandleRepair \/ HandleAnswer \/ Deliver
  PROVE  StagesInv'
<1>0. /\ step \in Step /\ run \in Run /\ step.at = "idle" /\ ~step.repair
      /\ pr \in [draft : BOOLEAN, head : {"ours", "foreign"}]
  BY NoRepair DEF TypeInv, TypeOK, HandleRepair, HandleAnswer, Deliver, At
<1>1. effect = NoEffect /\ UNCHANGED effect
  BY <1>0, NothingReserved DEF HandleRepair, HandleAnswer, Deliver, Accepting
<1>2. pr'.draft
  <2>1. CASE HandleRepair
    BY <1>0, <2>1 DEF HandleRepair
  <2>2. CASE HandleAnswer
    <3>1. run.questions # {} /\ UNCHANGED pr
      BY <2>2 DEF HandleAnswer, world
    <3>2. run.stage = "implementation" \/ Incomplete(run)
      BY <3>1 DEF StagesInv, QuestionsAsked
    <3>3. pr.draft
      BY <3>2 DEF StagesInv, UndraftedPassed, Passed
    <3> QED
      BY <3>1, <3>3
  <2>3. CASE Deliver
    BY <2>3 DEF Deliver, StagesInv, UndraftedPassed
  <2> QED
    BY <2>1, <2>2, <2>3
<1>3. /\ run'.stage = "implementation" \/ run'.questions = {}
      /\ run'.status = "harness" => run'.stage = "implementation"
  <2>1. CASE HandleRepair
    BY <1>0, <2>1 DEF HandleRepair, Run
  <2>2. CASE HandleAnswer
    BY <1>0, <2>2 DEF HandleAnswer, Run
  <2>3. CASE Deliver
    <3>1. run'.status = run.status /\ run.status = "active"
      BY <1>0, <2>3 DEF Deliver, Run
    <3> QED
      BY <1>0, <2>3, <3>1 DEF Deliver, Run
  <2> QED
    BY <2>1, <2>2, <2>3
<1>4. /\ step'.at \in {"idle", "implement"} /\ ~step'.repair
      /\ step'.at = "implement" => run'.stage = "implementation"
  <2>1. CASE HandleAnswer
    <3>1. run'.stage = "implementation"
      BY <1>0, <2>1 DEF HandleAnswer, Run
    <3> QED
      BY <1>0, <2>1, <3>1, GotoType DEF HandleAnswer, Stages
  <2>2. CASE HandleRepair \/ Deliver
    BY <1>0, <2>2 DEF HandleRepair, Deliver
  <2> QED
    BY <2>1, <2>2
<1> QED
  BY <1>1, <1>2, <1>3, <1>4 DEF StagesInv, QuestionsAsked, StageKnown,
     UndraftedPassed, AxisOpen, At

\* Every step leaves the coordinator with decisions that hold.
LEMMA StagesStep ==
  ASSUME TypeInv, RoundInv, AggregatesInv, StagesInv, [Next]_vars
  PROVE  StagesInv'
  BY QuietStages, AcceptStages, ProjectStages, RepairStages, ReadyStages,
     PeopleStages DEF Next, Coordinator, Failures, People

-----------------------------------------------------------------------------
(* The blockers of a repair *)

\* Whatever concerns neither the implementation nor the decisions about it.
QuietStep ==
  \/ StartReviewUnit \/ StartReviewRound \/ ReviewStops \/ LaunchReviewer
  \/ PrepareReview \/ StartReviewer \/ LaunchFails \/ ReserveAcceptance
  \/ RecordResult \/ MarkRound \/ RecoverAggregate \/ RetryReviewReadiness
  \/ CheckHead \/ RemoveDraftFlag \/ RejectUnreviewedHead
  \/ ActivateAuthorized \/ WriteFails \/ HandleReviewAuthorization
  \/ StartUp \/ Crash \/ Expire \/ ConfigureHost \/ PushForeign
  \/ UNCHANGED vars \/ \E s \in Slots : ReportReady(s)

\* Such a step changes at most the status of the run.
LEMMA QuietEffects ==
  ASSUME QuietStep
  PROVE  /\ UNCHANGED <<impl, history>>
         /\ \/ UNCHANGED run \/ run' = Paused(run)
            \/ run' = [run EXCEPT !.status = "active"]
         /\ effect' # effect => ReserveAcceptance
  BY DEF QuietStep, StartReviewUnit, StartReviewRound, ReviewStops,
     LaunchReviewer, SaveReviewManifest, PrepareReview, StartReviewer,
     LaunchFails, ReserveAcceptance, RecordResult, MarkRound,
     RecoverAggregate, RetryReviewReadiness, CheckHead, RemoveDraftFlag,
     RejectUnreviewedHead, ActivateAuthorized, WriteFails,
     HandleReviewAuthorization, StartUp, Crash, Expire, ConfigureHost,
     PushForeign, ReportReady, vars

\* It goes on to no launch of an implementer; it reserves an acceptance of a
\* reviewer, or looks at an axis under review.
LEMMA QuietGoes ==
  ASSUME step \in Step, QuietStep
  PROVE  /\ UNCHANGED step \/ step'.at \notin {"implement", "committed"}
         /\ step'.at \in {"dispatch", "project"} =>
              \/ UNCHANGED step \/ MarkRound \/ RecoverAggregate
<1>1. CASE Return \/ step' = Idle
  BY <1>1, ReturnDecides, IdleDecides DEF Deciding
<1>2. CASE \E stage \in Stages \ {"implement", "committed", "dispatch",
                                  "project"} : Goto(stage)
  BY <1>2, GotoType
<1>3. CASE \/ StartReviewUnit \/ StartReviewRound \/ ReserveAcceptance
           \/ RecoverAggregate \/ Crash \/ StartUp
  BY <1>3, EmptyTypes DEF StartReviewUnit, StartReviewRound,
     ReserveAcceptance, RecoverAggregate, Crash, StartUp, Step
<1>4. CASE LaunchReviewer
  <2>1. CASE SaveReviewManifest \/ ChosenUnit
    BY <2>1 DEF SaveReviewManifest, ChosenUnit, Step
  <2> QED
    BY <1>1, <1>4, <2>1 DEF LaunchReviewer
<1>5. CASE MarkRound
  <2>1. CASE Goto("project")
    BY <1>5, <2>1, GotoType DEF Stages
  <2> QED
    BY <1>1, <1>5, <2>1 DEF MarkRound
<1>6. CASE \/ StartReviewer \/ RecordResult \/ RetryReviewReadiness
           \/ CheckHead \/ RemoveDraftFlag \/ HandleReviewAuthorization
           \/ PrepareReview
  <2>1. \/ Return
        \/ \E stage \in {"commit", "save", "ready", "revert", "undraft",
                         "persist", "authorize", "start"} : Goto(stage)
    BY <1>6 DEF StartReviewer, RecordResult, RetryReviewReadiness, CheckHead,
       RemoveDraftFlag, HandleReviewAuthorization, PrepareReview
  <2> QED
    BY <1>1, <1>2, <2>1 DEF Stages
<1>7. CASE \/ LaunchFails \/ WriteFails \/ RejectUnreviewedHead
           \/ ActivateAuthorized
  BY <1>1, <1>7 DEF LaunchFails, WriteFails, RejectUnreviewedHead,
     ActivateAuthorized
<1>8. CASE \/ ReviewStops \/ Expire \/ ConfigureHost \/ PushForeign
           \/ UNCHANGED vars \/ \E s \in Slots : ReportReady(s)
  <2>1. UNCHANGED step
    BY <1>8 DEF ReviewStops, Expire, ConfigureHost, PushForeign, ReportReady,
       vars
  <2> QED
    BY <2>1
<1> QED
  BY <1>3, <1>4, <1>5, <1>6, <1>7, <1>8 DEF QuietStep

\* A projection leaves the run where it was, or under review.
LEMMA ProjectionKeeps ==
  ASSUME TypeInv, ProjectReview
  PROVE  run'.stage \in {run.stage, "review"} /\ run'.seen = run.seen
<1>0. run \in Run
  BY DEF TypeInv, TypeOK
<1> DEFINE base == IF step.unit = 0 THEN run ELSE Released(run, Slot)
           proj == [base.proj EXCEPT ![step.axis] = Aggregate(step.axis)]
           with == [base EXCEPT !.proj = proj,
                      !.questions = {a \in Axes : proj[a].outcome = "asks"}]
           next == IF OverLimit(step.axis) THEN Released(run, Slot)
                                           ELSE Projected
<1>1. /\ base \in Run /\ Released(run, Slot) \in Run
      /\ base.stage \in {run.stage, "review"} /\ base.seen = run.seen
      /\ Released(run, Slot).stage = "review"
      /\ Released(run, Slot).seen = run.seen
  BY <1>0, RunUpdates DEF Released, Run
<1>2. with.stage = base.stage /\ with.seen = base.seen
  BY <1>1 DEF Run
<1>3. Projected \in {base, with}
  BY DEF Projected
<1>4. /\ next \in Run /\ next.stage \in {run.stage, "review"}
      /\ next.seen = run.seen
  BY <1>1, <1>2, <1>3, ProjectedType DEF TypeInv
<1>5. run' = [next EXCEPT !.status = "waiting"]
      \/ run' = [next EXCEPT !.status = "active"]
  BY DEF ProjectReview
<1> QED
  BY <1>4, <1>5 DEF Run

\* An implementation session goes only with a run that is implemented.
LEMMA ImplStep ==
  ASSUME TypeInv, RoundInv, StagesInv, ImplOwned, [Next]_vars
  PROVE  ImplOwned'
<1>0. run \in Run /\ step \in Step
  BY DEF TypeInv, TypeOK
<1>1. CASE QuietStep
  <2>1. run'.stage = run.stage /\ impl' = impl
    BY <1>0, <1>1, QuietEffects, PausedStage DEF Run
  <2>2. ReserveAcceptance => run.stage # "implementation"
    BY DEF ReserveAcceptance, RoundInv, QuietStage, Reviewers
  <2>3. MarkRound => step.at = "dispatch"
    BY DEF MarkRound, At
  <2>4. RecoverAggregate => run.stage = "review"
    BY DEF RecoverAggregate, AggregatesLost
  <2> QED
    BY <1>0, <1>1, <2>1, <2>2, <2>3, <2>4, QuietEffects, QuietGoes
       DEF ImplOwned
<1>2. CASE SaveRun \/ ProjectReview
  <2>1. run.stage # "implementation"
    BY <1>2 DEF SaveRun, ProjectReview, At, Accepting, RoundInv, EffectOwned,
       ImplOwned
  <2>2. run'.stage # "implementation"
    <3>1. CASE SaveRun
      BY <1>0, <2>1, <3>1, ReleasedStage DEF SaveRun
    <3>2. CASE ProjectReview
      BY <2>1, <3>2, ProjectionKeeps
    <3> QED
      BY <1>2, <3>1, <3>2
  <2>3. impl' = impl
    BY <1>2 DEF SaveRun, ProjectReview
  <2> QED
    BY <2>1, <2>2, <2>3 DEF ImplOwned
<1>3. CASE CommitReviewer \/ PersistReady \/ RouteReviewRepair
  <2>1. /\ run.stage # "implementation" /\ impl' = impl
        /\ effect' = effect /\ effect = NoEffect
    BY <1>3, NothingReserved
       DEF CommitReviewer, PersistReady, RouteReviewRepair, At, Launching,
           Accepting, RoundInv, LaunchStage, StagesInv, StageKnown
  <2>2. step'.at \notin {"dispatch", "project"}
    <3>1. CASE Return
      BY <3>1, ReturnDecides DEF Deciding
    <3>2. CASE CommitReviewer
      BY <3>2, EmptyTypes DEF CommitReviewer, Step
    <3>3. CASE RouteReviewRepair
      BY <1>0, <3>1, <3>3 DEF RouteReviewRepair, Step
    <3> QED
      BY <1>3, <3>1, <3>2, <3>3 DEF PersistReady
  <2> QED
    BY <2>1, <2>2 DEF ImplOwned
<1>4. CASE \/ StartImplementation \/ LaunchImplementer \/ CommitImplementer
           \/ ImplementerFails \/ ImplementerRateLimited
           \/ RetryWaitingForHarness
  <2>1. /\ run.stage = "implementation"
        /\ effect' = effect /\ effect = NoEffect
    BY <1>4, NothingReserved
       DEF StartImplementation, StageTurn, LaunchImplementer,
           CommitImplementer, ImplementerFails, ImplementerRateLimited,
           RetryWaitingForHarness, At, Accepting, StagesInv, StageKnown
  <2>2. run'.stage = run.stage \/ impl' = "none"
    BY <1>0, <1>4 DEF StartImplementation, LaunchImplementer,
       CommitImplementer, ImplementerFails, ImplementerRateLimited,
       RetryWaitingForHarness, Run
  <2>3. step'.at \notin {"dispatch", "project"}
    <3>1. CASE Return
      BY <3>1, ReturnDecides DEF Deciding
    <3>2. CASE ~Return
      <4>1. \/ UNCHANGED step /\ At("idle")
            \/ \E stage \in {"implement", "committed"} : Goto(stage)
        BY <1>4, <3>2 DEF StartImplementation, LaunchImplementer,
           CommitImplementer, ImplementerFails, ImplementerRateLimited,
           RetryWaitingForHarness
      <4> QED
        BY <1>0, <4>1, GotoType DEF Stages, At
    <3> QED
      BY <3>1, <3>2
  <2> QED
    BY <2>1, <2>2, <2>3 DEF ImplOwned
<1>5. CASE Reconcile
  <2>1. /\ run'.stage = run.stage /\ effect' = effect /\ effect = NoEffect
        /\ step'.at = "idle"
    BY <1>0, <1>5, PausedStage, EmptyTypes, NothingReserved
       DEF Reconcile, Agree, Disagree, At, Accepting
  <2>2. impl' # "none" => impl # "none"
    BY <1>5 DEF Reconcile, Agree, Disagree, Works
  <2> QED
    BY <2>1, <2>2 DEF ImplOwned
<1>6. CASE HandleRepair \/ HandleAnswer \/ Deliver
  <2>1. impl' = "none" /\ effect' = effect /\ effect = NoEffect
    BY <1>6, NothingReserved
       DEF HandleRepair, HandleAnswer, Deliver, At, Accepting
  <2>2. step'.at \in {"idle", "implement"}
    BY <1>0, <1>6, GotoType DEF HandleRepair, HandleAnswer, Deliver, At, Stages
  <2> QED
    BY <2>1, <2>2 DEF ImplOwned
<1> QED
  BY <1>1, <1>2, <1>3, <1>4, <1>5, <1>6
     DEF QuietStep, Next, Coordinator, Failures, People

\* A step that starts no implementation session, and leaves the reserved
\* repair alone or the implementation.
LEMMA RepairKept ==
  ASSUME TypeInv, RepairInv, ImplOwned', UNCHANGED history,
         run'.seen = run.seen,
         \/ run'.stage # "implementation"
         \/ run'.pending = 0
         \/ /\ run'.stage = run.stage /\ run'.pending = run.pending
            /\ run'.proj = run.proj
            /\ run'.status = "harness" => run.status = "harness"
            /\ impl' = impl \/ impl' = "late"
            /\ UNCHANGED step
               \/ step'.at \notin {"implement", "committed"}
  PROVE  RepairInv'
<1>1. run'.proj = run.proj => Keys(run') = Keys(run)
  BY VerdictOf
<1>2. /\ sent' = sent /\ resent' = resent
  BY DEF history
<1> QED
  BY <1>1, <1>2 DEF RepairInv, BlockerRepairedOnce, Unsent

\* A session that goes to work gets the blockers of its reservation, which no
\* other one got.
LEMMA WorksRepair ==
  ASSUME TypeInv, RepairInv, ImplOwned', Works, run.stage = "implementation",
         impl = "open" \/ run.status = "harness" \/ At("committed"),
         run'.proj = run.proj, run'.seen = run.seen,
         run'.pending \in {0, run.pending}, run'.status # "harness",
         step'.at \notin {"implement", "committed"}
  PROVE  RepairInv'
<1>1. Keys(run') = Keys(run)
  BY VerdictOf
<1>2. impl' = "live"
  BY DEF Works
<1>3. CASE run.pending = 0
  <2>1. UNCHANGED history
    BY <1>3 DEF Works
  <2> QED
    BY <1>3, <2>1, RepairKept
<1>4. CASE run.pending # 0
  <2>1. Keys(run) \subseteq run.seen /\ Keys(run) \cap sent = {}
    BY <1>4 DEF RepairInv, Unsent, At
  <2>2. sent' = sent \cup Keys(run) /\ ~resent'
    BY <1>4, <2>1 DEF Works, RepairInv, BlockerRepairedOnce
  <2> QED
    BY <1>1, <1>2, <2>1, <2>2 DEF RepairInv, BlockerRepairedOnce, Unsent
<1> QED
  BY <1>3, <1>4

\* Every step gives a blocker to at most one automatic repair.
LEMMA RepairStep ==
  ASSUME TypeInv, TypeInv', RoundInv, StagesInv, RepairInv, [Next]_vars
  PROVE  RepairInv'
<1>0. run \in Run /\ step \in Step
  BY DEF TypeInv, TypeOK
<1>own. ImplOwned'
  BY ImplStep DEF RepairInv
<1>1. CASE RouteReviewRepair
  <2>1. UNCHANGED <<impl, sent, resent>>
    BY <1>1 DEF RouteReviewRepair, history
  <2>2. CASE Decision = "start"
    <3>1. Keys(run) \cap run.seen = {}
      BY <2>2 DEF Decision
    <3>2. /\ run'.seen = run.seen \cup Keys(run) /\ run'.proj = run.proj
      BY <1>0, <1>1, <2>2 DEF RouteReviewRepair, Remember, Run
    <3>3. Keys(run') = Keys(run)
      BY <3>2, VerdictOf
    <3> QED
      BY <1>own, <2>1, <3>1, <3>2, <3>3
         DEF RepairInv, BlockerRepairedOnce, Unsent
  <2>3. CASE Decision # "start"
    <3>1. run'.pending = 0 /\ run.seen \subseteq run'.seen
      <4>1. PICK seen \in {run.seen, Remember(Keys(run))} :
              run' = [run EXCEPT !.status = "waiting", !.pending = 0,
                                 !.seen = seen]
        BY <1>0, <1>1, <2>3 DEF RouteReviewRepair, Run
      <4> QED
        BY <1>0, <4>1 DEF Remember, Run
    <3> QED
      BY <1>own, <2>1, <3>1 DEF RepairInv, BlockerRepairedOnce, Unsent
  <2> QED
    BY <2>2, <2>3
<1>2. CASE StartImplementation
  <2>1. UNCHANGED <<run, history>> /\ impl = "none" /\ impl' = "none"
    BY <1>2 DEF StartImplementation
  <2> QED
    BY <1>own, <2>1 DEF RepairInv, BlockerRepairedOnce, Unsent, history
<1>3. CASE LaunchImplementer
  <2>1. UNCHANGED <<run, history>> /\ step.at = "implement"
    BY <1>3 DEF LaunchImplementer, At
  <2> QED
    BY <1>own, <2>1 DEF RepairInv, BlockerRepairedOnce, Unsent, history
<1>4. CASE CommitImplementer
  <2>1. run.stage = "implementation" /\ At("committed") /\ Works
    BY <1>4 DEF CommitImplementer, At, StagesInv, StageKnown
  <2>2. /\ run'.proj = run.proj /\ run'.seen = run.seen
        /\ run'.pending \in {0, run.pending} /\ run'.status = "active"
    BY <1>0, <1>4 DEF CommitImplementer, Run
  <2>3. step'.at \notin {"implement", "committed"}
    BY <1>4, ReturnDecides DEF CommitImplementer, Deciding
  <2> QED
    BY <1>own, <2>1, <2>2, <2>3, WorksRepair
<1>5. CASE ImplementerFails
  <2>1. UNCHANGED history /\ step'.at \notin {"implement", "committed"}
    BY <1>5, ReturnDecides DEF ImplementerFails, Deciding
  <2>2. CASE step.repair
    <3>1. run'.pending = 0 /\ run'.seen = run.seen
      BY <1>0, <1>5, <2>2 DEF ImplementerFails, Run
    <3> QED
      BY <1>own, <2>1, <3>1, RepairKept
  <2>3. CASE ~step.repair
    <3>1. /\ run'.pending = run.pending /\ run'.seen = run.seen
          /\ run'.stage = run.stage /\ run'.proj = run.proj
      BY <1>0, <1>5, <2>3 DEF ImplementerFails, Paused, Run
    <3>2. step.at \in {"implement", "committed"}
      BY <1>5 DEF ImplementerFails
    <3>3. Keys(run') = Keys(run)
      BY <3>1, VerdictOf
    <3> QED
      BY <1>own, <2>1, <3>1, <3>2, <3>3
         DEF RepairInv, BlockerRepairedOnce, Unsent, history
  <2> QED
    BY <2>2, <2>3
<1>6. CASE ImplementerRateLimited
  <2>1. UNCHANGED history /\ step.at \in {"implement", "committed"}
    BY <1>6 DEF ImplementerRateLimited
  <2>2. /\ run'.pending = run.pending /\ run'.seen = run.seen
        /\ run'.stage = run.stage /\ run'.proj = run.proj
    BY <1>0, <1>6 DEF ImplementerRateLimited, Run
  <2>3. Keys(run') = Keys(run)
    BY <2>2, VerdictOf
  <2> QED
    BY <1>own, <2>1, <2>2, <2>3
       DEF RepairInv, BlockerRepairedOnce, Unsent, history
<1>7. CASE RetryWaitingForHarness
  <2>1. run.status = "harness" /\ run.stage = "implementation" /\ At("idle")
    BY <1>7 DEF RetryWaitingForHarness, StagesInv, StageKnown
  <2>2. CASE impl = "none"
    <3>1. UNCHANGED <<run, history>>
      BY <1>7, <2>2 DEF RetryWaitingForHarness
    <3> QED
      BY <1>own, <2>1, <3>1 DEF RepairInv, BlockerRepairedOnce, Unsent, history
  <2>3. CASE impl # "none"
    <3>1. /\ run'.proj = run.proj /\ run'.seen = run.seen
          /\ run'.pending = run.pending /\ run'.status = "active"
      BY <1>0, <1>7, <2>3 DEF RetryWaitingForHarness, Run
    <3>2. Works /\ step'.at = "idle"
      BY <1>7, <2>1, <2>3 DEF RetryWaitingForHarness, At
    <3> QED
      BY <1>own, <2>1, <3>1, <3>2, WorksRepair
  <2> QED
    BY <2>2, <2>3
<1>8. CASE Reconcile
  <2>1. step'.at \notin {"implement", "committed"}
    BY <1>8, EmptyTypes DEF Reconcile
  <2>2. CASE Works /\ impl = "open" /\ UNCHANGED run /\ run.status # "harness"
    BY <1>own, <2>1, <2>2, WorksRepair DEF RepairInv, ImplOwned
  <2>3. CASE /\ UNCHANGED history /\ run' \in {run, Paused(run)}
             /\ impl' \in {impl, "late"}
    <3>1. /\ run'.seen = run.seen /\ run'.pending = run.pending
          /\ run'.stage = run.stage /\ run'.proj = run.proj
          /\ run'.status = "harness" => run.status = "harness"
      BY <1>0, <2>3 DEF Paused, Run
    <3> QED
      BY <1>own, <2>1, <2>3, <3>1, RepairKept
  <2> QED
    BY <1>8, <2>2, <2>3 DEF Reconcile, Agree, Disagree
<1>9. CASE HandleAnswer
  <2>1. run'.pending = 0 /\ sent' = {} /\ UNCHANGED resent
    BY <1>0, <1>9 DEF HandleAnswer, Run
  <2> QED
    BY <1>own, <2>1 DEF RepairInv, BlockerRepairedOnce, Unsent
<1>10. CASE SaveRun \/ CommitReviewer \/ ProjectReview \/ PersistReady
  <2>1. run'.stage # "implementation" /\ run'.seen = run.seen
    <3>1. CASE SaveRun
      <4>1. run.stage # "implementation"
        BY <3>1 DEF SaveRun, At, Accepting, RoundInv, EffectOwned, RepairInv,
           ImplOwned
      <4> QED
        BY <1>0, <3>1, <4>1 DEF SaveRun, Released, Run
    <3>2. CASE CommitReviewer \/ PersistReady
      BY <1>0, <3>2 DEF CommitReviewer, PersistReady, Run
    <3>3. CASE ProjectReview
      <4>1. run.stage # "implementation"
        BY <3>3 DEF ProjectReview, At, RepairInv, ImplOwned
      <4> QED
        BY <3>3, <4>1, ProjectionKeeps
    <3> QED
      BY <1>10, <3>1, <3>2, <3>3
  <2>2. UNCHANGED history
    BY <1>10 DEF SaveRun, CommitReviewer, ProjectReview, PersistReady
  <2> QED
    BY <1>own, <2>1, <2>2, RepairKept
<1>11. CASE HandleRepair \/ Deliver
  <2>1. /\ run'.pending = 0 \/ run'.stage # "implementation"
        /\ run'.seen = run.seen
    BY <1>0, <1>11 DEF HandleRepair, Deliver, Run
  <2>2. UNCHANGED history
    BY <1>11 DEF HandleRepair, Deliver
  <2> QED
    BY <1>own, <2>1, <2>2, RepairKept
<1>12. CASE ~(\/ RouteReviewRepair \/ StartImplementation
              \/ LaunchImplementer \/ CommitImplementer \/ ImplementerFails
              \/ ImplementerRateLimited \/ RetryWaitingForHarness
              \/ Reconcile \/ HandleAnswer \/ SaveRun \/ CommitReviewer
              \/ ProjectReview \/ PersistReady \/ HandleRepair \/ Deliver)
  <2>1. QuietStep
    BY <1>12 DEF QuietStep, Next, Coordinator, Failures, People
  <2>2. /\ UNCHANGED <<impl, history>>
        /\ \/ UNCHANGED run \/ run' = Paused(run)
           \/ run' = [run EXCEPT !.status = "active"]
    BY <2>1, QuietEffects
  <2>3. /\ run'.seen = run.seen /\ run'.pending = run.pending
        /\ run'.stage = run.stage /\ run'.proj = run.proj
        /\ run'.status = "harness" => run.status = "harness"
    BY <1>0, <2>2 DEF Paused, Run
  <2>4. UNCHANGED step \/ step'.at \notin {"implement", "committed"}
    BY <1>0, <2>1, QuietGoes
  <2> QED
    BY <1>own, <2>2, <2>3, <2>4, RepairKept
<1> QED
  BY <1>1, <1>2, <1>3, <1>4, <1>5, <1>6, <1>7, <1>8, <1>9, <1>10, <1>11, <1>12

-----------------------------------------------------------------------------
(* The theorems *)

\* The inductive invariant: no part holds without the others.
Inv == /\ TypeInv /\ RoundInv /\ VerdictInv
       /\ FanOutHeld /\ RoomKept /\ RepairInv

\* A checkpoint that was just delivered, without a round.
LEMMA InitInv == Init => Inv
<1> SUFFICES ASSUME Init PROVE Inv
  OBVIOUS
<1>1. TypeInv /\ RoundInv
  BY InitType, InitRound
<1>2. /\ round = NoRound /\ run.proj = NoProjection /\ run.questions = {}
      /\ run.status = "active" /\ pr.draft /\ effect = NoEffect
      /\ step = Idle /\ impl = "none" /\ run.pending = 0 /\ sent = {}
      /\ ~resent
  BY DEF Init
<1>3. step.at = "idle" /\ ~step.repair
  BY <1>2, EmptyTypes, IdleDecides
<1>4. AggregatesInv
  BY <1>2 DEF AggregatesInv, ProjectionsAreAggregates,
     CompleteRoundIsReviewed, NoProjection, NoRound
<1>5. StagesInv
  BY <1>2, <1>3 DEF StagesInv, QuestionsAsked, StageKnown, UndraftedPassed,
     AxisOpen, At
<1>6. FanOutHeld
  <2>1. Reviewers = {} /\ Done = {}
    BY <1>1, <1>2, EmptyRound DEF HasRound
  <2> QED
    BY <1>3, <2>1 DEF FanOutHeld, OversizedIsAuthorized
<1>7. RoomKept
  BY <1>3 DEF RoomKept
<1>8. RepairInv
  BY <1>2, <1>3 DEF RepairInv, ImplOwned, Unsent, BlockerRepairedOnce
<1> QED
  BY <1>1, <1>4, <1>5, <1>6, <1>7, <1>8 DEF Inv, VerdictInv

\* Every step of the coordinator, of a failure or of a person keeps it.
LEMMA StepInv == Inv /\ [Next]_vars => Inv'
<1> SUFFICES ASSUME Inv, [Next]_vars PROVE Inv'
  OBVIOUS
<1>1. TypeInv /\ RoundInv /\ AggregatesInv /\ StagesInv /\ FanOutHeld
      /\ RoomKept /\ VerdictInv /\ RepairInv
  BY DEF Inv, VerdictInv
<1>2. TypeInv'
  BY <1>1, StepType
<1>3. RoundInv'
  BY <1>1, <1>2, RoundStep
<1>4. VerdictInv'
  BY <1>1, <1>2, AggregatesStep, StagesStep DEF VerdictInv
<1>5. FanOutHeld' /\ RoomKept'
  BY <1>1, <1>2, FanOutStep, RoomStep
<1>6. RepairInv'
  BY <1>1, <1>2, RepairStep
<1> QED
  BY <1>2, <1>3, <1>4, <1>5, <1>6 DEF Inv

\* The invariant holds in every state of every behaviour.
THEOREM Invariance == Spec => []Inv
  BY InitInv, StepInv, PTL DEF Spec

\* No assignment is reviewed again after its result was stored: a launch picks
\* what has neither a result nor a reviewer, and a result ends its reviewer.
THEOREM UnitsReviewedOnce == Spec => []ReviewedOnce
<1>1. Inv => ReviewedOnce
  BY RoundSlotsType DEF Inv, RoundInv, OneReview, ReviewedOnce, Done
<1> QED
  BY <1>1, Invariance, PTL

\* A projection is the aggregate of every unit of its axis.
THEOREM ProjectionsTrue == Spec => []ProjectionsAreAggregates
<1>1. Inv => ProjectionsAreAggregates
  BY DEF Inv, VerdictInv, AggregatesInv
<1> QED
  BY <1>1, Invariance, PTL

\* A round is complete only when every assignment has a result.
THEOREM CompleteIsReviewed == Spec => []CompleteRoundIsReviewed
<1>1. Inv => CompleteRoundIsReviewed
  BY DEF Inv, VerdictInv, AggregatesInv
<1> QED
  BY <1>1, Invariance, PTL

\* A diff above the fan-out is reviewed only once it was authorized.
THEOREM OversizedAuthorized == Spec => []OversizedIsAuthorized
<1>1. Inv => OversizedIsAuthorized
  BY DEF Inv, FanOutHeld
<1> QED
  BY <1>1, Invariance, PTL

\* A run that passed has a clean result for every assignment.
LEMMA PassedIsReviewed ==
  ASSUME TypeInv, RoundInv, ProjectionsAreAggregates, Passed(run)
  PROVE  /\ HasRound /\ Done = RoundSlots
         /\ \A s \in Done : results[s] = [outcome |-> "done", blocks |-> {}]
<1>1. HasRound /\ Done = RoundSlots
  BY CompleteIsDone DEF Passed
<1>2. ASSUME NEW s \in Done
      PROVE  results[s] = [outcome |-> "done", blocks |-> {}]
  <2>1. s[1] \in Axes /\ s[2] \in 1..round.size /\ s = <<s[1], s[2]>>
    BY DEF Done, RoundSlots
  <2> DEFINE p == run.proj[s[1]]
  <2>2. p \in Report /\ p # NoReport /\ p.outcome = "done" /\ p.blocks = {}
    <3>1. /\ p # NoReport /\ p.outcome \notin {"asks", "stuck"}
          /\ p.blocks = {}
      BY <2>1 DEF Passed, Complete, Incomplete, Keys
    <3>2. p \in Report
      BY <2>1, <3>1 DEF TypeInv, TypeOK, Run
    <3> QED
      BY <3>1, <3>2 DEF Report
  <2>3. results[s] \in Report
    BY <1>2, RoundSlotsType DEF Done, TypeInv, TypeOK
  <2>4. results[s].blocks \subseteq p.blocks /\ results[s].outcome = "done"
    BY <2>1, <2>2 DEF ProjectionsAreAggregates
  <2> QED
    BY <2>2, <2>3, <2>4 DEF Report
<1> QED
  BY <1>1, <1>2

\* A pull request without its draft flag was reviewed, on both axes of every
\* unit, without a blocker or an open question.
THEOREM UndraftedReviewed == Spec => []UndraftedIsReviewed
<1>1. Inv => UndraftedIsReviewed
  BY PassedIsReviewed
     DEF Inv, VerdictInv, AggregatesInv, StagesInv, UndraftedPassed,
         UndraftedIsReviewed
<1> QED
  BY <1>1, Invariance, PTL

\* A blocker never gets a second automatic repair until an answer changed the
\* packet: a reservation remembers its blockers before its session starts.
THEOREM RepairedOnce == Spec => []BlockerRepairedOnce
<1>1. Inv => BlockerRepairedOnce
  BY DEF Inv, RepairInv
<1> QED
  BY <1>1, Invariance, PTL

\* No launch makes more reviewers than the host and the round allow.
THEOREM WithinCeiling == Spec => CeilingHeld
<1>1. Inv /\ [Next]_vars =>
        [Cardinality(Reviewers') > Cardinality(Reviewers) =>
           /\ Cardinality(Reviewers') <= host
           /\ step.then # "second" =>
                Cardinality(Reviewers') <= round.ceiling]_vars
  BY CeilingStep DEF Inv
<1> QED
  BY <1>1, Invariance, PTL DEF Spec, CeilingHeld

\* A reserved acceptance goes only when its report is stored.
THEOREM ReservationStays == Spec => ReservationKept
<1>1. Inv /\ [Next]_vars =>
        [effect # NoEffect /\ effect' # effect
           => results[effect.slot] = effect.report]_vars
  <2> SUFFICES ASSUME Inv, Next, effect # NoEffect, effect' # effect
               PROVE  results[effect.slot] = effect.report
    BY DEF vars
  <2>1. step.at \in Accepting \cup {"down"}
    BY DEF Inv, RoundInv, EffectOwned
  <2>2. SaveRun
    BY <2>1 DEF Accepting, Next, Coordinator, Failures, People, Deliver,
       StartReviewUnit, RetryReviewReadiness, StartReviewRound,
       StartImplementation, ReviewStops, RetryWaitingForHarness,
       LaunchReviewer, PrepareReview, StartReviewer, CommitReviewer,
       ReserveAcceptance, RecordResult, MarkRound, ProjectReview,
       RouteReviewRepair, LaunchImplementer, CommitImplementer, CheckHead,
       RemoveDraftFlag, RejectUnreviewedHead, PersistReady, StartUp,
       RecoverAggregate, Reconcile, ActivateAuthorized, LaunchFails,
       WriteFails, ImplementerFails, ImplementerRateLimited, Crash, Expire,
       HandleRepair, HandleAnswer, HandleReviewAuthorization, ConfigureHost,
       PushForeign, ReportReady, At
  <2> QED
    BY <2>2 DEF SaveRun, At, Inv, RoundInv, EffectOwned
<1> QED
  BY <1>1, Invariance, PTL DEF Spec, ReservationKept

=============================================================================
