------------------------ MODULE PlanPublicationProofs ------------------------
(***************************************************************************)
(* Theorems about the publication of a plan, for every set of plans and    *)
(* every number of commands, interruptions, lost answers and incomplete    *)
(* lookups: types; no item is created twice and none is forgotten; a       *)
(* cancel stops the writes; everything is created after what it needs, and *)
(* what is recorded is in the tracker, so published means complete.        *)
(***************************************************************************)
EXTENDS PlanPublication, FiniteSetTheorems, TLAPS

-----------------------------------------------------------------------------
(* The inductive invariant *)

\* A reconciliation is about an operation of a planned ledger.
CommandsKnown ==
  \A r \in DOMAIN inbox : inbox[r].kind = "reconcile" =>
    Planned /\ inbox[r].about \in Steps

PassStages == {"next", "find", "reserve", "create", "record"}

\* What the running command knows at each of its stages.
JobKnows ==
  /\ job.at \in PassStages => Planned
  /\ job.at \in {"find", "reserve", "create", "record", "lookup", "resolve"} =>
       job.op \in Steps
  /\ job.at \in {"reconcile", "lookup", "resolve"} =>
       Planned /\ Running.kind = "reconcile"
  /\ At("find") => ledger[job.op].state # "succeeded"
  /\ At("create") => ledger[job.op].state = "attempted"

TypeInv == TypeOK /\ CommandsKnown /\ JobKnows

-----------------------------------------------------------------------------
(* Facts about the rows *)

\* The operations of a plan are numbered from one, and there is a first one.
LEMMA StepsAreNumbers ==
  ASSUME plan \in Plans
  PROVE  Steps \subseteq Nat /\ Steps # {}
<1>1. plan \in Seq(Operation) /\ Len(plan) > 0
  BY PlansAssumption DEF IsLedgerPlan
<1>2. Steps = 1..Len(plan) /\ Len(plan) \in Nat
  BY <1>1 DEF Steps
<1>3. 1 \in 1..Len(plan)
  BY <1>1, <1>2
<1> QED
  BY <1>2, <1>3

\* A planned ledger has a row for every operation.
LEMMA LedgerRows ==
  ASSUME plan \in Plans, ledger = NoLedger \/ ledger \in [Steps -> Row]
  PROVE  /\ Planned => ledger \in [Steps -> Row]
         /\ \A l \in [Steps -> Row] : l # NoLedger
<1>1. Steps # {}
  BY StepsAreNumbers
<1>2. DOMAIN NoLedger = {}
  BY DEF NoLedger
<1> QED
  BY <1>1, <1>2 DEF Planned

\* Updating one command keeps the inbox an inbox of the same length.
LEMMA InboxUpdate ==
  ASSUME NEW s \in Seq(Command), NEW r \in DOMAIN s, NEW c \in Command
  PROVE  /\ [s EXCEPT ![r] = c] \in Seq(Command)
         /\ Len([s EXCEPT ![r] = c]) = Len(s)
         /\ DOMAIN [s EXCEPT ![r] = c] = DOMAIN s
  OBVIOUS

\* The empty job is a job.
LEMMA NoJobType == NoJob \in Job
  BY DEF Job, NoJob, Row, NewRow, OperationStates, SessionStates, Stages

\* Sending a job on to a stage keeps it one.
LEMMA GotoType ==
  ASSUME job \in Job, NEW stage \in Stages, Goto(stage)
  PROVE  /\ job' \in Job
         /\ job'.at = stage /\ job'.req = job.req
<1> DEFINE j == [NoJob EXCEPT !.req = job.req, !.at = stage,
                             !.failed = job.failed, !.settling = job.settling]
<1>1. job' = j
  BY DEF Goto
<1>2. j \in Job
  BY NoJobType DEF Job
<1>3. j.at = stage /\ j.req = job.req
  BY NoJobType DEF Job
<1> QED
  BY <1>1, <1>2, <1>3

-----------------------------------------------------------------------------
(* Every step keeps the types *)

\* Initially there is nothing.
LEMMA InitType == Init => TypeInv
<1> SUFFICES ASSUME Init PROVE TypeInv
  OBVIOUS
<1>1. TypeOK
  <2>1. inbox \in Seq(Command) /\ Len(inbox) = 0
    BY DEF Init
  <2>2. job \in Job /\ job.at = "idle"
    BY NoJobType DEF Init, NoJob
  <2>3. items \in [Steps -> Nat] /\ 0 \in 0..MaxInterrupts
    BY BoundsAssumption DEF Init
  <2>4. /\ session \in SessionStates /\ drifted \in BOOLEAN /\ plan \in Plans
        /\ ledger = NoLedger /\ receipts \subseteq Receipt
    BY DEF Init, SessionStates
  <2>5. /\ late \subseteq Steps /\ links \subseteq Steps \X Nat \X Nat
        /\ interrupts \in 0..MaxInterrupts /\ misjudged \subseteq Steps
        /\ writesAfterCancel \in Nat
    BY <2>3 DEF Init
  <2>6. Len(inbox) <= MaxRequests
    BY <2>1, BoundsAssumption
  <2> QED
    BY <2>1, <2>2, <2>3, <2>4, <2>5, <2>6 DEF TypeOK
<1>2. CommandsKnown /\ JobKnows
  BY DEF Init, CommandsKnown, JobKnows, NoJob, PassStages, At
<1> QED
  BY <1>1, <1>2 DEF TypeInv

\* A stage change without a store or tracker write.
LEMMA StageType ==
  ASSUME TypeInv, job' \in Job, job'.req = job.req, ~At("idle"),
         UNCHANGED <<store, drifted, plan, tracker, misjudged>>,
         interrupts' \in 0..MaxInterrupts, writesAfterCancel' \in Nat,
         JobKnows'
  PROVE  TypeInv'
<1>1. TypeOK'
  BY DEF TypeInv, TypeOK, store, tracker, At, Steps
<1>2. CommandsKnown'
  BY DEF TypeInv, CommandsKnown, store, Steps, Planned
<1> QED
  BY <1>1, <1>2 DEF TypeInv

\* People and the dispatcher.
LEMMA SubmitType ==
  ASSUME TypeInv, SubmitPublish \/ SubmitReconcile
  PROVE  TypeInv'
<1>1. PICK kind \in {"publish", "reconcile"}, about \in Nat, ext \in Nat :
        /\ Submit(kind, about, ext)
        /\ kind = "reconcile" => Planned /\ about \in Steps
  <2>1. CASE SubmitPublish
    BY <2>1 DEF SubmitPublish
  <2>2. CASE SubmitReconcile
    <3>1. PICK i \in Steps : \E ext \in 0..items[i] : Submit("reconcile", i, ext)
      BY <2>2 DEF SubmitReconcile
    <3>2. PICK ext \in 0..items[i] : Submit("reconcile", i, ext)
      BY <3>1
    <3>3. i \in Nat /\ ext \in Nat
      BY StepsAreNumbers DEF TypeInv, TypeOK
    <3> QED
      BY <2>2, <3>2, <3>3 DEF SubmitReconcile
  <2> QED
    BY <2>1, <2>2
<1> DEFINE c == [kind |-> kind, about |-> about, ext |-> ext,
                 state |-> "accepted", attempts |-> 0]
<1>2. c \in Command
  BY DEF Command
<1>3. inbox' = Append(inbox, c) /\ Len(inbox) < MaxRequests
  BY <1>1 DEF Submit
<1>4. inbox' \in Seq(Command) /\ Len(inbox') <= MaxRequests
      /\ DOMAIN inbox' = (DOMAIN inbox) \cup {Len(inbox) + 1}
      /\ inbox'[Len(inbox) + 1] = c
      /\ \A r \in DOMAIN inbox : inbox'[r] = inbox[r]
  <2> HIDE DEF c
  <2> QED
    BY <1>2, <1>3, BoundsAssumption DEF TypeInv, TypeOK
<1>5. UNCHANGED <<session, ledger, receipts, drifted, plan, job, tracker,
                  interrupts, misjudged, writesAfterCancel>>
  BY <1>1 DEF Submit
<1>6. TypeOK'
  BY <1>4, <1>5 DEF TypeInv, TypeOK, tracker, Steps
<1>7. CommandsKnown'
  BY <1>1, <1>4, <1>5 DEF TypeInv, CommandsKnown, Planned, Steps
<1>8. JobKnows'
  <2>1. job.at # "idle" => Running' = Running
    BY <1>4, <1>5 DEF TypeInv, TypeOK, Running
  <2> QED
    BY <1>5, <2>1 DEF TypeInv, JobKnows, Planned, Steps, At
<1> QED
  BY <1>6, <1>7, <1>8 DEF TypeInv

\* The commands keep what they are about while their state changes.
LEMMA CommandStateType ==
  ASSUME TypeInv, NEW r \in DOMAIN inbox, NEW c \in Command,
         c.kind = inbox[r].kind, c.about = inbox[r].about,
         inbox' = [inbox EXCEPT ![r] = c],
         UNCHANGED <<session, ledger, receipts, drifted, plan, tracker,
                     interrupts, misjudged, writesAfterCancel>>,
         job' \in Job, job'.at # "idle" => job'.req = r,
         job'.at \in {"idle", "settle", "complete", "publish", "reconcile"},
         job'.at = "reconcile" => c.kind = "reconcile"
  PROVE  TypeInv'
<1>1. inbox \in Seq(Command)
  BY DEF TypeInv, TypeOK
<1>2. inbox' \in Seq(Command) /\ Len(inbox') = Len(inbox)
      /\ DOMAIN inbox' = DOMAIN inbox
  BY <1>1, InboxUpdate
<1>3. TypeOK'
  BY <1>2 DEF TypeInv, TypeOK, tracker, Steps
<1>4. CommandsKnown'
  BY <1>1, <1>2 DEF TypeInv, CommandsKnown, Planned, Steps
<1>5. JobKnows'
  <2>1. job'.at = "reconcile" => Planned /\ Running'.kind = "reconcile"
    BY <1>1, <1>2 DEF TypeInv, CommandsKnown, Running
  <2> QED
    BY <2>1 DEF JobKnows, Planned, PassStages, At
<1> QED
  BY <1>3, <1>4, <1>5 DEF TypeInv

\* A claim counts an attempt and starts the handler or ends the command.
LEMMA ClaimType ==
  ASSUME TypeInv, ClaimSome
  PROVE  TypeInv'
<1>1. PICK r \in DOMAIN inbox : Claim(r)
  BY DEF ClaimSome
<1> DEFINE tries == inbox[r].attempts + 1
           spent == tries > MaxStarts
           c == [inbox[r] EXCEPT !.state = "applying",
                   !.attempts = IF spent THEN inbox[r].attempts ELSE tries]
           stage == IF spent
                      THEN IF inbox[r].kind = "publish"
                             THEN "settle" ELSE "complete"
                      ELSE IF inbox[r].kind = "publish"
                             THEN "publish" ELSE "reconcile"
<1>2. inbox \in Seq(Command) /\ inbox[r] \in Command
  BY <1>1 DEF TypeInv, TypeOK
<1>3. c \in Command /\ c.kind = inbox[r].kind /\ c.about = inbox[r].about
  <2>1. (IF spent THEN inbox[r].attempts ELSE tries) \in Nat
    BY <1>2 DEF Command
  <2> HIDE DEF spent, tries
  <2> QED
    BY <1>2, <2>1 DEF Command
<1>4. inbox' = [inbox EXCEPT ![r] = c]
  BY <1>1, <1>2 DEF Claim
<1>5. job' = [NoJob EXCEPT !.req = r, !.at = stage]
  BY <1>1 DEF Claim
<1>6. r \in Nat /\ inbox[r].kind \in {"publish", "reconcile"}
  BY <1>2 DEF Command
<1>7. job' \in Job /\ job'.req = r /\ job'.at = stage
  BY <1>5, <1>6, NoJobType DEF Job, Stages
<1>8. stage \in {"settle", "complete", "publish", "reconcile"}
      /\ (stage = "reconcile" => c.kind = "reconcile")
  BY <1>3, <1>6
<1>9. UNCHANGED <<session, ledger, receipts, drifted, plan, tracker,
                  interrupts, misjudged, writesAfterCancel>>
  BY <1>1 DEF Claim
<1> HIDE DEF c, stage, spent, tries
<1> QED
  BY <1>3, <1>4, <1>7, <1>8, <1>9, CommandStateType

\* A completed command keeps its place in the inbox.
LEMMA CompleteType ==
  ASSUME TypeInv, Complete
  PROVE  TypeInv'
<1> DEFINE r == job.req
           c == [inbox[r] EXCEPT !.state = "completed"]
<1>1. inbox \in Seq(Command) /\ r \in DOMAIN inbox /\ inbox[r] \in Command
  BY DEF TypeInv, TypeOK, Complete, At
<1>2. c \in Command /\ c.kind = inbox[r].kind /\ c.about = inbox[r].about
  BY <1>1 DEF Command
<1>3. inbox' = [inbox EXCEPT ![r] = c]
  BY <1>1 DEF Complete
<1>4. job' \in Job /\ job'.at = "idle"
  BY NoJobType DEF Complete, NoJob
<1>5. UNCHANGED <<session, ledger, receipts, drifted, plan, tracker,
                  interrupts, misjudged, writesAfterCancel>>
  BY DEF Complete
<1> HIDE DEF c, r
<1> QED
  BY <1>1, <1>2, <1>3, <1>4, <1>5, CommandStateType

\* The running command moves on without a write.
LEMMA MoveType ==
  ASSUME TypeInv,
         StalePage \/ Publish \/ NextOperation \/ FindPlanItems
         \/ FindPlanRelationship \/ PassStops \/ PassStoreFails \/ Finish
         \/ SettlePublication \/ Reconcile \/ LookupCandidates
         \/ CreateNotApplied
  PROVE  TypeInv'
<1>0. /\ UNCHANGED <<store, drifted, plan, tracker, misjudged>>
      /\ ~At("idle")
      /\ interrupts' \in 0..MaxInterrupts
      /\ writesAfterCancel' \in Nat
  <2>1. interrupts \in 0..MaxInterrupts /\ writesAfterCancel \in Nat
    BY DEF TypeInv, TypeOK
  <2>2. CASE PassStoreFails
    BY <2>1, <2>2, BoundsAssumption DEF PassStoreFails, At
  <2>3. CASE StalePage \/ Publish \/ PassStops \/ Finish \/ SettlePublication
             \/ CreateNotApplied
    BY <2>1, <2>3 DEF StalePage, Publish, PassStops, Finish,
                      SettlePublication, CreateNotApplied, At
  <2>4. CASE NextOperation \/ FindPlanItems \/ FindPlanRelationship
             \/ Reconcile \/ LookupCandidates
    BY <2>1, <2>4 DEF NextOperation, FindPlanItems, FindPlanRelationship,
                      Reconcile, LookupCandidates, At
  <2> QED
    BY <2>2, <2>3, <2>4
<1>1. job \in Job /\ session \in SessionStates
  BY DEF TypeInv, TypeOK
<1>2. Planned' = Planned /\ Running.kind = Running.kind /\ Steps' = Steps
  BY <1>0 DEF Planned, Steps, store
<1>3. CASE StalePage
  <2>1. job' \in Job /\ job'.req = job.req /\ job'.at \in {"settle", "complete"}
    BY <1>1, <1>3, GotoType DEF StalePage, Stages
  <2>2. JobKnows'
    BY <2>1 DEF JobKnows, PassStages, At
  <2> QED
    BY <1>0, <2>1, <2>2, StageType
<1>4. CASE Publish
  <2>1. PublishStage \in {"complete", "finish", "settle", "plan", "start"}
    BY DEF PublishStage
  <2>2. job' \in Job /\ job'.req = job.req
        /\ job'.at \in {"complete", "finish", "settle", "plan", "start"}
    BY <1>1, <1>4, <2>1 DEF Publish, Job, Stages
  <2>3. JobKnows'
    BY <2>2 DEF JobKnows, PassStages, At
  <2> QED
    BY <1>0, <2>2, <2>3, StageType
<1>5. CASE NextOperation
  <2>1. CASE Goto("finish")
    <3>1. job' \in Job /\ job'.req = job.req /\ job'.at = "finish"
      BY <1>1, <2>1, GotoType DEF Stages
    <3>2. JobKnows'
      BY <3>1 DEF JobKnows, PassStages, At
    <3> QED
      BY <1>0, <3>1, <3>2, StageType
  <2>2. ASSUME NEW i \in Steps, NextUp(i),
               job' = [job EXCEPT !.at = "find", !.op = i]
        PROVE  TypeInv'
    <3>1. job' \in Job /\ job'.req = job.req /\ job'.at = "find" /\ job'.op = i
      BY <1>1, <2>2, StepsAreNumbers DEF Job, Stages, TypeInv, TypeOK
    <3>2. Planned /\ ledger[i].state # "succeeded"
      BY <1>5, <2>2 DEF TypeInv, JobKnows, NextOperation, At, NextUp,
                        Unfinished, PassStages
    <3>3. JobKnows'
      BY <1>0, <3>1, <3>2 DEF JobKnows, PassStages, At, Planned, Steps, store
    <3> QED
      BY <1>0, <3>1, <3>3, StageType
  <2> QED
    BY <1>5, <2>1, <2>2 DEF NextOperation
<1>6. CASE FindPlanItems \/ FindPlanRelationship \/ CreateNotApplied
  <2>1. job.op \in Steps /\ Planned /\ ledger[job.op] \in Row
    BY <1>6, LedgerRows
    DEF TypeInv, TypeOK, JobKnows, PassStages, At, FindPlanItems,
        FindPlanRelationship, CreateNotApplied
  <2>2. CASE Goto("finish")
    <3>1. job' \in Job /\ job'.req = job.req /\ job'.at = "finish"
      BY <1>1, <2>2, GotoType DEF Stages
    <3>2. JobKnows'
      BY <3>1 DEF JobKnows, PassStages, At
    <3> QED
      BY <1>0, <3>1, <3>2, StageType
  <2>3. CASE job' = [job EXCEPT !.at = "reserve"]
    <3>1. job' \in Job /\ job'.req = job.req /\ job'.at = "reserve"
          /\ job'.op = job.op
      BY <1>1, <2>3 DEF Job, Stages
    <3>2. JobKnows'
      BY <1>0, <2>1, <3>1 DEF JobKnows, PassStages, At, Planned, Steps, store
    <3> QED
      BY <1>0, <3>1, <3>2, StageType
  <2>4. ASSUME NEW state \in OperationStates, NEW ext \in Nat,
               Record(state, ext)
        PROVE  TypeInv'
    <3>1. NewRow(state, ext) \in Row
      BY DEF NewRow, Row
    <3>2. job' \in Job /\ job'.req = job.req /\ job'.at = "record"
          /\ job'.op = job.op
      BY <1>1, <2>4, <3>1 DEF Job, Stages, Record
    <3>3. JobKnows'
      BY <1>0, <2>1, <3>2 DEF JobKnows, PassStages, At, Planned, Steps, store
    <3> QED
      BY <1>0, <3>2, <3>3, StageType
  <2>5. CASE FindPlanItems
    <3>1. PICK found \in Found(job.op) :
            \/ \E ext \in found : Record("succeeded", ext)
            \/ Record("ambiguous", ledger[job.op].ext)
            \/ job' = [job EXCEPT !.at = "reserve"]
      BY <2>5 DEF FindPlanItems
    <3>2. found \subseteq Nat
      BY <2>1 DEF Found, TypeInv, TypeOK
    <3> QED
      BY <2>1, <2>3, <2>4, <3>1, <3>2 DEF Row, OperationStates
  <2>6. CASE FindPlanRelationship
    BY <2>2, <2>3, <2>4, <2>6 DEF FindPlanRelationship, OperationStates
  <2>7. CASE CreateNotApplied
    BY <2>1, <2>4, <2>7 DEF CreateNotApplied, Row, OperationStates
  <2> QED
    BY <1>6, <2>5, <2>6, <2>7
<1>7. CASE PassStops
  <2>1. job' \in Job /\ job'.req = job.req /\ job'.at = "finish"
    BY <1>1, <1>7, GotoType DEF PassStops, Stages
  <2>2. JobKnows'
    BY <2>1 DEF JobKnows, PassStages, At
  <2> QED
    BY <1>0, <2>1, <2>2, StageType
<1>8. CASE PassStoreFails
  <2>1. job' \in Job /\ job'.req = job.req /\ job'.at = "finish"
    BY <1>1, <1>8, NoJobType DEF PassStoreFails, Job, Stages
  <2>2. JobKnows'
    BY <2>1 DEF JobKnows, PassStages, At
  <2> QED
    BY <1>0, <2>1, <2>2, StageType
<1>9. CASE Finish
  <2>1. job' \in Job /\ job'.req = job.req /\ job'.at = "receipt"
    BY <1>1, <1>9 DEF Finish, Job, Stages
  <2>2. JobKnows'
    BY <2>1 DEF JobKnows, PassStages, At
  <2> QED
    BY <1>0, <2>1, <2>2, StageType
<1>10. CASE SettlePublication
  <2>1. job' \in Job /\ job'.req = job.req /\ job'.at \in {"finish", "complete"}
    <3>1. CASE session = "publishing"
      BY <1>1, <1>10, <3>1 DEF SettlePublication, Job, Stages
    <3>2. CASE session # "publishing"
      BY <1>1, <1>10, <3>2, GotoType DEF SettlePublication, Stages
    <3> QED
      BY <3>1, <3>2
  <2>2. JobKnows'
    BY <2>1 DEF JobKnows, PassStages, At
  <2> QED
    BY <1>0, <2>1, <2>2, StageType
<1>11. CASE Reconcile
  <2>1. Planned /\ Running.kind = "reconcile" /\ Running.about \in Steps
    BY <1>11 DEF Reconcile, TypeInv, TypeOK, JobKnows, CommandsKnown, At,
                 Running
  <2>2. Running.about \in Nat
    BY <2>1, StepsAreNumbers DEF TypeInv, TypeOK
  <2>3. job' \in Job /\ job'.req = job.req
        /\ job'.at \in {"lookup", "complete"} /\ job'.op = Running.about
    BY <1>1, <1>11, <2>2 DEF Reconcile, Job, Stages
  <2>4. JobKnows'
    BY <1>0, <2>1, <2>3
    DEF JobKnows, PassStages, At, Planned, Steps, store, Running
  <2> QED
    BY <1>0, <2>3, <2>4, StageType
<1>12. CASE LookupCandidates
  <2>1. Planned /\ Running.kind = "reconcile" /\ job.op \in Steps
        /\ ledger[job.op] \in Row /\ Running.ext \in Nat
    <3>1. Planned /\ Running.kind = "reconcile" /\ job.op \in Steps
      BY <1>12 DEF LookupCandidates, TypeInv, JobKnows, At
    <3>2. ledger[job.op] \in Row
      BY <3>1, LedgerRows DEF TypeInv, TypeOK
    <3>3. job.req \in DOMAIN inbox /\ inbox \in Seq(Command)
      BY <1>12 DEF LookupCandidates, TypeInv, TypeOK, At
    <3>4. Running \in Command
      BY <3>3 DEF Running
    <3> QED
      BY <3>1, <3>2, <3>4 DEF Command
  <2>2. CASE Goto("complete")
    <3>1. job' \in Job /\ job'.req = job.req /\ job'.at = "complete"
      BY <1>1, <2>2, GotoType DEF Stages
    <3>2. JobKnows'
      BY <3>1 DEF JobKnows, PassStages, At
    <3> QED
      BY <1>0, <3>1, <3>2, StageType
  <2>3. ASSUME NEW row \in Row,
               job' = [job EXCEPT !.at = "resolve", !.result = row]
        PROVE  TypeInv'
    <3>1. job' \in Job /\ job'.req = job.req /\ job'.at = "resolve"
          /\ job'.op = job.op
      BY <1>1, <2>3 DEF Job, Stages
    <3>2. JobKnows'
      BY <1>0, <2>1, <3>1
      DEF JobKnows, PassStages, At, Planned, Steps, store, Running
    <3> QED
      BY <1>0, <3>1, <3>2, StageType
  <2>4. NewRow("failed", ledger[job.op].ext) \in Row
        /\ NewRow("succeeded", Running.ext) \in Row
    BY <2>1 DEF NewRow, Row, OperationStates
  <2> QED
    BY <1>12, <2>2, <2>3, <2>4 DEF LookupCandidates
<1> QED
  BY <1>3, <1>4, <1>5, <1>6, <1>7, <1>8, <1>9, <1>10, <1>11, <1>12

\* A step of the running command that writes the store or the tracker.
LEMMA WriteType ==
  ASSUME TypeInv, plan' = plan, inbox' = inbox,
         session' \in SessionStates, drifted' \in BOOLEAN,
         ledger' = ledger \/ (ledger' \in [Steps -> Row] /\ ledger' # NoLedger),
         receipts' \subseteq Receipt,
         job' \in Job,
         job'.at # "idle" => job'.req = job.req /\ job.at # "idle",
         items' \in [Steps -> Nat], late' \subseteq Steps,
         links' \subseteq Steps \X Nat \X Nat,
         interrupts' \in 0..MaxInterrupts, misjudged' \subseteq Steps,
         writesAfterCancel' \in Nat, JobKnows'
  PROVE  TypeInv'
<1>1. Steps' = Steps
  BY DEF Steps
<1>2. TypeOK'
  <2>1. session' \in SessionStates /\ drifted' \in BOOLEAN /\ plan' \in Plans
        /\ (ledger' = NoLedger \/ ledger' \in [Steps' -> Row])
        /\ receipts' \subseteq Receipt
    BY <1>1 DEF TypeInv, TypeOK
  <2>2. inbox' \in Seq(Command) /\ Len(inbox') <= MaxRequests
        /\ job' \in Job /\ (job'.at # "idle" => job'.req \in DOMAIN inbox')
    BY DEF TypeInv, TypeOK
  <2>3. items' \in [Steps' -> Nat] /\ late' \subseteq Steps'
        /\ links' \subseteq Steps' \X Nat \X Nat
        /\ misjudged' \subseteq Steps'
    BY <1>1
  <2> QED
    BY <2>1, <2>2, <2>3 DEF TypeOK
<1>3. CommandsKnown'
  BY <1>1 DEF TypeInv, CommandsKnown, Planned
<1> QED
  BY <1>2, <1>3 DEF TypeInv

\* Recording one row keeps the ledger planned and every other row.
LEMMA RowUpdate ==
  ASSUME TypeInv, Planned, NEW i \in Steps, NEW row \in Row,
         RecordOperation(i, row)
  PROVE  /\ ledger' \in [Steps -> Row] /\ ledger' # NoLedger
         /\ ledger'[i] = row
         /\ \A k \in Steps : k # i => ledger'[k] = ledger[k]
<1>1. ledger \in [Steps -> Row]
  BY LedgerRows DEF TypeInv, TypeOK
<1>2. ledger' = [ledger EXCEPT ![i] = row]
  BY DEF RecordOperation
<1>3. ledger' \in [Steps -> Row]
  BY <1>1, <1>2
<1>4. ledger' # NoLedger
  BY <1>3, LedgerRows DEF TypeInv, TypeOK
<1> QED
  BY <1>1, <1>2, <1>3, <1>4

\* The session moves to publishing.
LEMMA StartPublicationType ==
  ASSUME TypeInv, StartPublication
  PROVE  TypeInv'
<1>1. job' \in Job /\ job'.req = job.req /\ job'.at \in {"plan", "settle"}
  BY GotoType DEF TypeInv, TypeOK, StartPublication, Stages
<1>2. session' \in SessionStates
  BY DEF TypeInv, TypeOK, StartPublication, SessionStates
<1>3. JobKnows'
  BY <1>1 DEF JobKnows, PassStages, At
<1>4. job.at # "idle"
  BY DEF StartPublication, At
<1> QED
  BY <1>1, <1>2, <1>3, <1>4, WriteType
  DEF TypeInv, TypeOK, StartPublication, tracker

\* The ledger is planned with a row per operation.
LEMMA StartPublicationLedgerType ==
  ASSUME TypeInv, StartPublicationLedger
  PROVE  TypeInv'
<1>1. job' \in Job /\ job'.req = job.req /\ job'.at = "next"
  BY GotoType DEF TypeInv, TypeOK, StartPublicationLedger, Stages
<1>2. NewRow("pending", 0) \in Row
  BY DEF NewRow, Row, OperationStates
<1>3. ledger' \in [Steps -> Row] /\ ledger' # NoLedger
  BY <1>2, LedgerRows DEF TypeInv, TypeOK, StartPublicationLedger, Planned
<1>4. JobKnows'
  BY <1>1, <1>3 DEF JobKnows, PassStages, At, Planned
<1>5. job.at # "idle"
  BY DEF StartPublicationLedger, At
<1> QED
  BY <1>1, <1>3, <1>4, <1>5, WriteType
  DEF TypeInv, TypeOK, StartPublicationLedger, tracker

\* A write is reserved before it is sent.
LEMMA ReserveType ==
  ASSUME TypeInv, Reserve
  PROVE  TypeInv'
<1>1. Planned /\ job.op \in Steps /\ job.at = "reserve" /\ job \in Job
  BY DEF TypeInv, TypeOK, JobKnows, PassStages, Reserve, At
<1> DEFINE row == NewRow("attempted", ledger[job.op].ext)
<1>2. row \in Row /\ row.state = "attempted"
  BY <1>1, LedgerRows DEF TypeInv, TypeOK, NewRow, Row, OperationStates
<1>3. ledger' \in [Steps -> Row] /\ ledger' # NoLedger
      /\ ledger'[job.op] = row
  <2>1. RecordOperation(job.op, row)
    BY DEF Reserve
  <2> HIDE DEF row
  <2> QED
    BY <1>1, <1>2, <2>1, RowUpdate
<1>4. job' \in Job /\ job'.req = job.req /\ job'.at = "create"
      /\ job'.op = job.op
  BY <1>1 DEF Reserve, Job, Stages
<1>5. JobKnows'
  BY <1>1, <1>2, <1>3, <1>4 DEF JobKnows, PassStages, At, Planned, Steps, Reserve
<1>6. writesAfterCancel' \in Nat
  BY DEF TypeInv, TypeOK, Reserve
<1> QED
  BY <1>1, <1>3, <1>4, <1>5, <1>6, WriteType
  DEF TypeInv, TypeOK, Reserve, tracker

\* What a create does to the tracker keeps its types.
LEMMA TrackerType ==
  ASSUME TypeInv, job.op \in Steps, Planned,
         ApplyCreate \/ DelayCreate \/ UNCHANGED tracker
  PROVE  /\ items' \in [Steps -> Nat] /\ late' \subseteq Steps
         /\ links' \subseteq Steps \X Nat \X Nat
<1>1. /\ items \in [Steps -> Nat] /\ late \subseteq Steps
      /\ links \subseteq Steps \X Nat \X Nat
  BY DEF TypeInv, TypeOK
<1>2. CASE ApplyCreate
  <2>1. CASE IsItem(job.op)
    BY <1>1, <1>2, <2>1 DEF ApplyCreate
  <2>2. CASE ~IsItem(job.op)
    <3>1. \A n : Ref(n) \in Nat
      <4> TAKE n
      <4> DEFINE made == {i \in Succeeded(ledger) :
                            IsItem(i) /\ plan[i].node = n}
      <4>1. CASE made = {}
        BY <4>1 DEF Ref
      <4>2. CASE made # {}
        <5> DEFINE i == CHOOSE k \in made : TRUE
        <5>1. i \in made
          BY <4>2
        <5>2. ledger[i] \in Row
          BY <5>1, LedgerRows DEF TypeInv, TypeOK, Succeeded
        <5>3. Ref(n) = ledger[i].ext
          BY <4>2 DEF Ref
        <5> QED
          BY <5>2, <5>3 DEF Row
      <4> QED
        BY <4>1, <4>2
    <3>2. LinkOf(job.op) \in Steps \X Nat \X Nat
      BY <3>1 DEF LinkOf, FromRef, ToRef
    <3> QED
      BY <1>1, <1>2, <2>2, <3>2 DEF ApplyCreate
  <2> QED
    BY <2>1, <2>2
<1>3. CASE DelayCreate
  BY <1>1, <1>3 DEF DelayCreate
<1>4. CASE UNCHANGED tracker
  BY <1>1, <1>4 DEF tracker
<1> QED
  BY <1>2, <1>3, <1>4

\* A create that reached the tracker, or may have.
LEMMA CreateType ==
  ASSUME TypeInv, CreateSucceeds \/ CreateUnknown
  PROVE  TypeInv'
<1>1. Planned /\ job.op \in Steps /\ job.at = "create" /\ job \in Job
      /\ ledger[job.op] \in Row
  BY LedgerRows DEF TypeInv, TypeOK, JobKnows, PassStages, CreateSucceeds,
                    CreateUnknown, At
<1>2. PICK state \in OperationStates, ext \in Nat : Record(state, ext)
  <2>1. CASE CreateSucceeds
    <3>1. items[job.op] + 1 \in Nat /\ 0 \in Nat
      BY <1>1 DEF TypeInv, TypeOK
    <3> QED
      BY <2>1, <3>1 DEF CreateSucceeds, OperationStates
  <2>2. CASE CreateUnknown
    BY <1>1, <2>2 DEF CreateUnknown, OperationStates, Row
  <2> QED
    BY <2>1, <2>2
<1>3. NewRow(state, ext) \in Row
  BY DEF NewRow, Row
<1>4. job' \in Job /\ job'.req = job.req /\ job'.at = "record"
      /\ job'.op = job.op
  BY <1>1, <1>2, <1>3 DEF Record, Job, Stages
<1>5. UNCHANGED <<store, drifted, plan, interrupts, misjudged,
                  writesAfterCancel>>
      /\ (ApplyCreate \/ DelayCreate \/ UNCHANGED tracker)
  BY DEF CreateSucceeds, CreateUnknown
<1>6. /\ items' \in [Steps -> Nat] /\ late' \subseteq Steps
      /\ links' \subseteq Steps \X Nat \X Nat
  BY <1>1, <1>5, TrackerType
<1>7. JobKnows'
  BY <1>1, <1>4, <1>5 DEF JobKnows, PassStages, At, Planned, Steps, store
<1> QED
  BY <1>1, <1>4, <1>5, <1>6, <1>7, WriteType DEF TypeInv, TypeOK, store

\* The result of an operation is recorded.
LEMMA RecordResultType ==
  ASSUME TypeInv, RecordResult
  PROVE  TypeInv'
<1>1. Planned /\ job.op \in Steps /\ job.at = "record" /\ job \in Job
      /\ job.result \in Row
  BY DEF TypeInv, TypeOK, JobKnows, PassStages, RecordResult, At, Job
<1>2. ledger' \in [Steps -> Row] /\ ledger' # NoLedger
  BY <1>1, RowUpdate DEF RecordResult
<1>3. job' \in Job /\ job'.req = job.req /\ job'.at \in {"next", "finish"}
  BY <1>1, GotoType DEF RecordResult, Stages
<1>4. JobKnows'
  BY <1>2, <1>3 DEF JobKnows, PassStages, At, Planned
<1> QED
  BY <1>1, <1>2, <1>3, <1>4, WriteType
  DEF TypeInv, TypeOK, RecordResult, tracker

\* A receipt is about operations of the plan.
LEMMA SucceededType ==
  ASSUME TypeInv, NEW l, l = NoLedger \/ l \in [Steps -> Row]
  PROVE  Succeeded(l) \subseteq Nat /\ Succeeded(l) \subseteq Steps
<1>1. DOMAIN l \subseteq Steps
  BY DEF NoLedger
<1>2. Steps \subseteq Nat
  BY StepsAreNumbers DEF TypeInv, TypeOK
<1> QED
  BY <1>1, <1>2 DEF Succeeded

\* What the ledger shows makes a receipt.
LEMMA ReceiptType ==
  ASSUME TypeInv
  PROVE  /\ ReceiptFromLedger(job.req) \in Receipt
         /\ [ReceiptFromLedger(job.req) EXCEPT !.outcome = "incomplete"]
              \in Receipt
<1>1. job.req \in Nat /\ Succeeded(ledger) \subseteq Nat
  BY SucceededType DEF TypeInv, TypeOK, Job
<1> DEFINE outcome == IF Planned /\ Succeeded(ledger) = Steps
                        THEN "published" ELSE "incomplete"
           r == [id |-> job.req, outcome |-> outcome,
                 lists |-> Succeeded(ledger)]
<1>2. outcome \in {"published", "incomplete"}
  OBVIOUS
<1>3. ReceiptFromLedger(job.req) = r
  BY DEF ReceiptFromLedger
<1> HIDE DEF outcome
<1>4. r \in Receipt
  BY <1>1, <1>2 DEF Receipt
<1>5. [r EXCEPT !.outcome = "incomplete"]
        = [id |-> job.req, outcome |-> "incomplete",
           lists |-> Succeeded(ledger)]
  OBVIOUS
<1>6. [r EXCEPT !.outcome = "incomplete"] \in Receipt
  BY <1>1, <1>5 DEF Receipt
<1> QED
  BY <1>3, <1>4, <1>6

\* The receipt of an attempt is recorded, or the attempt ends without one.
LEMMA ReceiptStepType ==
  ASSUME TypeInv, RecordReceipt \/ FinishCancelled
  PROVE  TypeInv'
<1>1. job.at = "receipt" /\ job \in Job
  BY DEF TypeInv, TypeOK, RecordReceipt, FinishCancelled, At
<1>2. Abort \/ Goto("complete") \/ Goto("settle")
  BY DEF RecordReceipt, FinishCancelled
<1>3. job' \in Job /\ job'.at \in {"idle", "complete", "settle"}
      /\ (job'.at # "idle" => job'.req = job.req)
  <2>1. CASE Abort
    BY <2>1, NoJobType DEF Abort, NoJob
  <2>2. CASE Goto("complete") \/ Goto("settle")
    BY <1>1, <2>2, GotoType DEF Stages
  <2> QED
    BY <1>2, <2>1, <2>2
<1>4. JobKnows'
  BY <1>3 DEF JobKnows, PassStages, At
<1>5. receipts' \subseteq Receipt
  <2>1. receipts \subseteq Receipt
    BY DEF TypeInv, TypeOK
  <2>2. CASE RecordReceipt
    <3>1. \/ receipts' = receipts
          \/ receipts' = receipts \cup {ReceiptFromLedger(job.req)}
      BY <2>2 DEF RecordReceipt
    <3> QED
      BY <2>1, <3>1, ReceiptType
  <2>3. CASE FinishCancelled
    BY <2>1, <2>3, ReceiptType DEF FinishCancelled
  <2> QED
    BY <2>2, <2>3
<1>6. session' \in SessionStates
  <2>1. session \in SessionStates
    BY DEF TypeInv, TypeOK
  <2>2. CASE RecordReceipt
    <3>1. \/ session' = session
          \/ session' = SessionAfter(ReceiptFromLedger(job.req))
      BY <2>2 DEF RecordReceipt
    <3> QED
      BY <2>1, <3>1 DEF SessionAfter, SessionStates
  <2> QED
    BY <2>1, <2>2 DEF FinishCancelled
<1>7. UNCHANGED <<ledger, inbox, drifted, plan, tracker, interrupts,
                  misjudged, writesAfterCancel>>
  BY DEF RecordReceipt, FinishCancelled
<1> QED
  BY <1>1, <1>3, <1>4, <1>5, <1>6, <1>7, WriteType
  DEF TypeInv, TypeOK, tracker

\* A person's decision is recorded.
LEMMA RecordReconciliationType ==
  ASSUME TypeInv, RecordReconciliation
  PROVE  TypeInv'
<1>1. Planned /\ job.op \in Steps /\ job.at = "resolve" /\ job \in Job
      /\ job.result \in Row /\ job.req \in Nat
  BY DEF TypeInv, TypeOK, JobKnows, PassStages, RecordReconciliation, At, Job
<1>2. ledger' \in [Steps -> Row] /\ ledger' # NoLedger
  BY <1>1, RowUpdate DEF RecordReconciliation
<1>3. job' \in Job /\ job'.req = job.req /\ job'.at = "complete"
  BY <1>1, GotoType DEF RecordReconciliation, Stages
<1>4. JobKnows'
  BY <1>3 DEF JobKnows, PassStages, At
<1>5. receipts' \subseteq Receipt
  <2>1. Succeeded(ledger') \subseteq Nat
    BY <1>2, SucceededType
  <2>2. [id |-> job.req, outcome |-> "incomplete",
         lists |-> Succeeded(ledger')] \in Receipt
    BY <1>1, <2>1 DEF Receipt
  <2> QED
    BY <2>2 DEF TypeInv, TypeOK, RecordReconciliation
<1>6. misjudged' \subseteq Steps
  BY <1>1 DEF TypeInv, TypeOK, RecordReconciliation
<1> QED
  BY <1>1, <1>2, <1>3, <1>4, <1>5, <1>6, WriteType
  DEF TypeInv, TypeOK, RecordReconciliation, tracker

\* The environment: a cancel, a late create, a changed configuration.
LEMMA EnvironmentType ==
  ASSUME TypeInv, Cancel \/ Deliver \/ Drift
  PROVE  TypeInv'
<1>1. UNCHANGED <<ledger, receipts, inbox, plan, job, links, interrupts,
                  misjudged, writesAfterCancel>>
  BY DEF Cancel, Deliver, Drift, store, tracker
<1>2. session' \in SessionStates /\ drifted' \in BOOLEAN
  BY DEF TypeInv, TypeOK, Cancel, Deliver, Drift, store, SessionStates
<1>3. items' \in [Steps -> Nat] /\ late' \subseteq Steps
  <2>1. CASE Deliver
    <3>1. PICK i \in late : items' = [items EXCEPT ![i] = @ + 1]
                            /\ late' = late \ {i}
      BY <2>1 DEF Deliver
    <3>2. items \in [Steps -> Nat] /\ late \subseteq Steps
      BY DEF TypeInv, TypeOK
    <3> QED
      BY <3>1, <3>2
  <2>2. CASE Cancel \/ Drift
    BY <2>2 DEF TypeInv, TypeOK, Cancel, Drift, tracker
  <2> QED
    BY <2>1, <2>2
<1>4. JobKnows'
  BY <1>1 DEF TypeInv, JobKnows, At, Planned, Steps, Running
<1>5. TypeOK'
  BY <1>1, <1>2, <1>3 DEF TypeInv, TypeOK, Steps
<1>6. CommandsKnown'
  BY <1>1 DEF TypeInv, CommandsKnown, Planned, Steps
<1> QED
  BY <1>4, <1>5, <1>6 DEF TypeInv

\* The process stops; a create on its way may still arrive.
LEMMA InterruptType ==
  ASSUME TypeInv, Interrupt
  PROVE  TypeInv'
<1>1. job' = NoJob /\ job' \in Job /\ job'.at = "idle"
  BY NoJobType DEF Interrupt, Abort, NoJob
<1>2. /\ items' \in [Steps -> Nat] /\ late' \subseteq Steps
      /\ links' \subseteq Steps \X Nat \X Nat
  <2>1. CASE UNCHANGED tracker
    BY <2>1 DEF TypeInv, TypeOK, tracker
  <2>2. CASE At("create") /\ (ApplyCreate \/ DelayCreate)
    <3>1. Planned /\ job.op \in Steps
      BY <2>2 DEF TypeInv, JobKnows, PassStages, At
    <3> QED
      BY <2>2, <3>1, TrackerType
  <2> QED
    BY <2>1, <2>2 DEF Interrupt
<1>3. JobKnows'
  BY <1>1 DEF JobKnows, PassStages, At
<1>4. interrupts' \in 0..MaxInterrupts
  BY BoundsAssumption DEF TypeInv, TypeOK, Interrupt
<1>5. UNCHANGED <<store, drifted, plan, misjudged, writesAfterCancel>>
  BY DEF Interrupt
<1> QED
  BY <1>1, <1>2, <1>3, <1>4, <1>5, WriteType DEF TypeInv, TypeOK, store

-----------------------------------------------------------------------------
(* The types hold in every behaviour *)

\* Every action keeps the types and what the running command knows.
LEMMA TypeStep == TypeInv /\ [Next]_vars => TypeInv'
<1> SUFFICES ASSUME TypeInv, [Next]_vars PROVE TypeInv'
  OBVIOUS
<1>1. CASE UNCHANGED vars
  BY <1>1 DEF vars, store, tracker, TypeInv, TypeOK, CommandsKnown, JobKnows,
              At, Planned, Steps, Running
<1>2. CASE SubmitPublish \/ SubmitReconcile
  BY <1>2, SubmitType
<1>3. CASE Cancel \/ Deliver \/ Drift
  BY <1>3, EnvironmentType
<1>4. CASE ClaimSome
  BY <1>4, ClaimType
<1>5. CASE PassStoreFails
  BY <1>5, MoveType
<1>6. CASE Interrupt
  BY <1>6, InterruptType
<1>7. CASE JobStep
  BY <1>7, CompleteType, MoveType, StartPublicationType,
     StartPublicationLedgerType, ReserveType, CreateType, RecordResultType,
     ReceiptStepType, RecordReconciliationType
  DEF JobStep
<1> QED
  BY <1>1, <1>2, <1>3, <1>4, <1>5, <1>6, <1>7 DEF Next

\* Every variable keeps its type, and every command that runs knows the
\* ledger and the operation it works on.
THEOREM TypesHold == Spec => []TypeInv
<1>1. Init => TypeInv
  BY InitType
<1>2. TypeInv /\ [Next]_vars => TypeInv'
  BY TypeStep
<1> QED
  BY <1>1, <1>2, PTL DEF Spec

\* Every variable keeps its type: in particular a planned ledger has exactly
\* one row for every operation of the approved plan.
THEOREM TypeCorrect == Spec => []TypeOK
<1>1. TypeInv => TypeOK
  BY DEF TypeInv
<1> QED
  BY <1>1, TypesHold, PTL

-----------------------------------------------------------------------------
(* The inductive invariant *)

\* Relationships carry no correlation.
LinksAreNoItems == \A i \in Steps : ~IsItem(i) => Made(i) = 0

\* A create is sent only when nothing was made, and its result says so if
\* something may have been made.
CreateIsFirst ==
  job.op \notin misjudged =>
    /\ (At("reserve") \/ At("create")) /\ IsItem(job.op) => Made(job.op) = 0
    /\ At("record") /\ Made(job.op) > 0 =>
         job.result.state \in {"ambiguous", "succeeded"}

\* A person either adopts an item or confirms that there is none.
ResolveDecides ==
  At("resolve") => job.result.state \in {"failed", "succeeded"}

Counted == CreatedOnce /\ NothingForgotten /\ LinksAreNoItems
OnceInv == Counted /\ CreateIsFirst /\ ResolveDecides

-----------------------------------------------------------------------------
(* What keeps the count *)

\* How many items an operation made is a number.
LEMMA MadeType ==
  ASSUME TypeInv, NEW i \in Steps
  PROVE  Made(i) \in Nat
<1>1. items[i] \in Nat
  BY DEF TypeInv, TypeOK
<1> QED
  BY <1>1 DEF Made

\* A step that changes neither the tracker nor the ledger keeps the count.
LEMMA NothingMade ==
  ASSUME Counted, UNCHANGED <<plan, ledger, misjudged, items, late>>
  PROVE  Counted'
  BY DEF Counted, CreatedOnce, NothingForgotten, LinksAreNoItems, Made, Steps,
         Planned, IsItem

\* Outside the stages of a write the running command claims nothing.
LEMMA QuietJob ==
  ASSUME job'.at \notin {"reserve", "create", "record", "resolve"}
  PROVE  CreateIsFirst' /\ ResolveDecides'
  BY DEF CreateIsFirst, ResolveDecides, At

\* A create that was reserved, and was the first, may reach the tracker.
LEMMA CreateCounts ==
  ASSUME TypeInv, OnceInv, At("create"),
         ApplyCreate \/ DelayCreate \/ UNCHANGED tracker,
         UNCHANGED <<plan, ledger, misjudged>>
  PROVE  Counted'
<1>0. PICK op \in Steps : op = job.op
  BY DEF TypeInv, JobKnows, At
<1>1. Planned /\ ledger[op].state = "attempted"
  BY <1>0 DEF TypeInv, JobKnows, PassStages, At
<1>2. items \in [Steps -> Nat] /\ Steps' = Steps
  BY DEF TypeInv, TypeOK, Steps
<1>3. CASE UNCHANGED tracker \/ ~IsItem(op)
  <2>1. UNCHANGED <<items, late>>
    BY <1>0, <1>3 DEF tracker, ApplyCreate, DelayCreate
  <2> QED
    BY <2>1, NothingMade DEF OnceInv
<1>4. CASE IsItem(op) /\ (ApplyCreate \/ DelayCreate)
  <2>1. \A k \in Steps : k # op => Made(k)' = Made(k)
    <3> TAKE k \in Steps
    <3> HAVE k # op
    <3>1. items'[k] = items[k] /\ (k \in late' <=> k \in late)
      BY <1>2, <1>0, <1>4 DEF ApplyCreate, DelayCreate
    <3> QED
      BY <3>1 DEF Made
  <2>2. op \notin misjudged => Made(op)' <= 1
    <3> HAVE op \notin misjudged
    <3>1. Made(op) = 0
      BY <1>0, <1>4 DEF OnceInv, CreateIsFirst
    <3>2. items[op] = 0 /\ op \notin late
      BY <1>1, <1>2, <3>1 DEF Made
    <3>3. CASE ApplyCreate
      <4>1. items'[op] = 1 /\ op \notin late'
        BY <1>1, <1>2, <1>4, <3>2, <3>3, <1>0 DEF ApplyCreate
      <4> QED
        BY <4>1 DEF Made
    <3>4. CASE DelayCreate
      <4>1. items'[op] = 0
        BY <1>0, <3>2, <3>4 DEF DelayCreate
      <4> QED
        BY <4>1 DEF Made
    <3> QED
      BY <1>4, <3>3, <3>4
  <2>3. CreatedOnce'
    BY <1>2, <2>1, <2>2 DEF OnceInv, Counted, CreatedOnce
  <2>4. NothingForgotten'
    BY <1>1, <1>2, <2>1 DEF OnceInv, Counted, NothingForgotten, Planned
  <2>5. LinksAreNoItems'
    BY <1>2, <1>4, <2>1 DEF OnceInv, Counted, LinksAreNoItems, IsItem
  <2> QED
    BY <2>3, <2>4, <2>5 DEF Counted
<1> QED
  BY <1>3, <1>4

\* A row may be rewritten if its state still says what may exist, or if a
\* person decided about it.
LEMMA RowCounts ==
  ASSUME TypeInv, Counted, Planned, NEW i \in Steps, NEW row \in Row,
         RecordOperation(i, row),
         UNCHANGED <<plan, items, late>>,
         misjudged \subseteq misjudged',
         i \notin misjudged' /\ Made(i) > 0 =>
           row.state \in {"attempted", "ambiguous", "succeeded"}
  PROVE  Counted'
<1>1. /\ ledger' # NoLedger /\ ledger'[i] = row
      /\ \A k \in Steps : k # i => ledger'[k] = ledger[k]
  BY RowUpdate
<1>2. Steps' = Steps /\ \A k : Made(k)' = Made(k)
  BY DEF Steps, Made
<1>3. CreatedOnce' /\ LinksAreNoItems'
  BY <1>2 DEF Counted, CreatedOnce, LinksAreNoItems, IsItem
<1>4. NothingForgotten'
  BY <1>1, <1>2 DEF Counted, NothingForgotten, Planned
<1> QED
  BY <1>3, <1>4 DEF Counted

-----------------------------------------------------------------------------
(* Every step keeps the count *)

\* Initially nothing was made.
LEMMA InitOnce == Init => OnceInv
<1> SUFFICES ASSUME Init PROVE OnceInv
  OBVIOUS
<1>1. \A i \in Steps : Made(i) = 0
  BY DEF Init, Made
<1>2. Counted
  BY <1>1 DEF Counted, CreatedOnce, NothingForgotten, LinksAreNoItems
<1>3. CreateIsFirst /\ ResolveDecides
  BY DEF Init, NoJob, CreateIsFirst, ResolveDecides, At
<1> QED
  BY <1>2, <1>3 DEF OnceInv

\* Steps beside the running command: people, the cancel, the configuration,
\* and a late create, which was counted when it was sent.
LEMMA BesideOnce ==
  ASSUME TypeInv, OnceInv,
         SubmitPublish \/ SubmitReconcile \/ Cancel \/ Drift \/ Deliver
  PROVE  OnceInv'
<1>1. UNCHANGED <<plan, ledger, misjudged, job>>
  BY DEF SubmitPublish, SubmitReconcile, Submit, Cancel, Drift, Deliver, store
<1>2. Steps' = Steps
  BY <1>1 DEF Steps
<1>3. \A k \in Steps : Made(k)' = Made(k)
  <2>1. CASE Deliver
    <3>1. PICK i \in late : items' = [items EXCEPT ![i] = @ + 1]
                            /\ late' = late \ {i}
      BY <2>1 DEF Deliver
    <3>2. items \in [Steps -> Nat] /\ late \subseteq Steps
      BY DEF TypeInv, TypeOK
    <3> TAKE k \in Steps
    <3>3. CASE k = i
      <4>1. items'[k] = items[k] + 1 /\ k \in late /\ k \notin late'
        BY <3>1, <3>2, <3>3
      <4>2. items[k] \in Nat
        BY <3>2
      <4> QED
        BY <4>1, <4>2 DEF Made
    <3>4. CASE k # i
      <4>1. items'[k] = items[k] /\ (k \in late' <=> k \in late)
        BY <3>1, <3>2, <3>4
      <4> QED
        BY <4>1 DEF Made
    <3> QED
      BY <3>3, <3>4
  <2>2. CASE SubmitPublish \/ SubmitReconcile \/ Cancel \/ Drift
    <3>1. UNCHANGED <<items, late>>
      BY <2>2 DEF SubmitPublish, SubmitReconcile, Submit, Cancel, Drift, tracker
    <3> QED
      BY <3>1 DEF Made
  <2> QED
    BY <2>1, <2>2
<1>4. Counted'
  BY <1>1, <1>2, <1>3
  DEF OnceInv, Counted, CreatedOnce, NothingForgotten, LinksAreNoItems,
      Planned, IsItem
<1>5. CreateIsFirst'
  <2>1. CASE job.at \in {"reserve", "create", "record"}
    <3>1. PICK op \in Steps : op = job.op
      BY <2>1 DEF TypeInv, JobKnows
    <3>2. Made(op)' = Made(op) /\ job' = job /\ (IsItem(op)' <=> IsItem(op))
      BY <1>1, <1>3 DEF IsItem
    <3> QED
      BY <1>1, <3>1, <3>2 DEF OnceInv, CreateIsFirst, At
  <2>2. CASE job.at \notin {"reserve", "create", "record"}
    BY <1>1, <2>2 DEF CreateIsFirst, At
  <2> QED
    BY <2>1, <2>2
<1>6. ResolveDecides'
  BY <1>1 DEF OnceInv, ResolveDecides, At
<1> QED
  BY <1>4, <1>5, <1>6 DEF OnceInv

\* A lookup lets a create through only when nothing was made.
LEMMA FindOnce ==
  ASSUME TypeInv, OnceInv,
         FindPlanItems \/ FindPlanRelationship \/ CreateNotApplied
  PROVE  OnceInv'
<1>1. UNCHANGED <<plan, ledger, misjudged, items, late>>
  BY DEF FindPlanItems, FindPlanRelationship, CreateNotApplied, store, tracker
<1>2. Counted'
  BY <1>1, NothingMade DEF OnceInv
<1>3. PICK op \in Steps : op = job.op /\ Planned /\ ledger[op] \in Row
  <2>1. job.op \in Steps /\ Planned
    BY DEF TypeInv, JobKnows, PassStages, At, FindPlanItems,
           FindPlanRelationship, CreateNotApplied
  <2> QED
    BY <2>1, LedgerRows DEF TypeInv, TypeOK
<1>4. job \in Job /\ Made(op)' = Made(op) /\ (IsItem(op)' <=> IsItem(op))
      /\ Made(op) \in Nat
  BY <1>1, <1>3, MadeType DEF Made, IsItem, TypeInv, TypeOK
<1>5. ASSUME NEW state, NEW ext, Record(state, ext),
             op \notin misjudged /\ Made(op) > 0 =>
               state \in {"ambiguous", "succeeded"}
      PROVE  OnceInv'
  <2>1. job'.at = "record" /\ job'.op = op /\ job'.result.state = state
    <3>1. job' = [job EXCEPT !.at = "record", !.result = NewRow(state, ext)]
      BY <1>5 DEF Record
    <3>2. NewRow(state, ext).state = state
      BY DEF NewRow
    <3> HIDE DEF NewRow
    <3> QED
      BY <1>3, <1>4, <3>1, <3>2 DEF Job
  <2>2. CreateIsFirst' /\ ResolveDecides'
    BY <1>1, <1>4, <1>5, <2>1 DEF CreateIsFirst, ResolveDecides, At
  <2> QED
    BY <1>2, <2>2 DEF OnceInv
<1>6. ASSUME job' = [job EXCEPT !.at = "reserve"],
             op \notin misjudged /\ IsItem(op) => Made(op) = 0
      PROVE  OnceInv'
  <2>1. job'.at = "reserve" /\ job'.op = op
    BY <1>3, <1>4, <1>6 DEF Job
  <2>2. CreateIsFirst' /\ ResolveDecides'
    BY <1>1, <1>4, <1>6, <2>1 DEF CreateIsFirst, ResolveDecides, At
  <2> QED
    BY <1>2, <2>2 DEF OnceInv
<1>7. CASE FindPlanItems
  <2>1. ledger[op].state # "succeeded"
    BY <1>3, <1>7 DEF TypeInv, JobKnows, FindPlanItems
  <2>2. PICK found \in Found(op) :
          \/ \E ext \in found : Record("succeeded", ext)
          \/ Record("ambiguous", ledger[op].ext)
          \/ /\ ledger[op].state \notin Unresolved
             /\ job' = [job EXCEPT !.at = "reserve"]
    <3>1. PICK found \in Found(op) :
            CASE Cardinality(found) = 1 ->
                   \E ext \in found : Record("succeeded", ext)
              [] Cardinality(found) > 1 -> Record("ambiguous", ledger[op].ext)
              [] found = {} /\ ledger[op].state \in Unresolved ->
                   Record("ambiguous", ledger[op].ext)
              [] OTHER -> job' = [job EXCEPT !.at = "reserve"]
      BY <1>3, <1>7 DEF FindPlanItems
    <3>2. Cardinality(found) \in Nat /\ (Cardinality(found) = 0 <=> found = {})
      <4>1. items[op] \in Nat /\ found \subseteq 1..items[op]
        BY <1>3 DEF TypeInv, TypeOK, Found
      <4>2. IsFiniteSet(1..items[op])
        BY <4>1, FS_Interval
      <4>3. IsFiniteSet(found)
        BY <4>1, <4>2, FS_Subset
      <4> QED
        BY <4>3, FS_EmptySet, FS_CardinalityType
    <3> QED
      BY <3>1, <3>2
  <2>3. ledger[op].state \notin Unresolved =>
          (op \notin misjudged => Made(op) = 0)
    BY <1>4, <2>1 DEF OnceInv, Counted, NothingForgotten, Unresolved
  <2> QED
    BY <1>5, <1>6, <2>2, <2>3
<1>8. CASE FindPlanRelationship
  <2>1. Made(op) = 0 /\ ~IsItem(op)
    BY <1>3, <1>8 DEF FindPlanRelationship, OnceInv, Counted, LinksAreNoItems
  <2>2. \/ Goto("finish") \/ Record("succeeded", 0)
        \/ job' = [job EXCEPT !.at = "reserve"]
    BY <1>8 DEF FindPlanRelationship
  <2>3. CASE Goto("finish")
    <3>1. job'.at = "finish"
      BY <1>4, <2>3, GotoType DEF Stages
    <3> QED
      BY <1>2, <3>1, QuietJob DEF OnceInv
  <2> QED
    BY <1>5, <1>6, <2>1, <2>2, <2>3
<1>9. CASE CreateNotApplied
  <2>1. op \notin misjudged => Made(op) = 0
    BY <1>3, <1>9
    DEF CreateNotApplied, OnceInv, Counted, CreateIsFirst, LinksAreNoItems
  <2> QED
    BY <1>3, <1>5, <1>9, <2>1 DEF CreateNotApplied
<1> QED
  BY <1>7, <1>8, <1>9

\* The dispatcher and the steps around the pass start no operation.
LEMMA QuietStages ==
  ASSUME TypeInv,
         ClaimSome \/ Complete \/ StalePage \/ StartPublication \/ PassStops
         \/ StartPublicationLedger \/ RecordResult \/ PassStoreFails \/ Finish
         \/ RecordReceipt \/ FinishCancelled \/ SettlePublication \/ Reconcile
         \/ RecordReconciliation \/ Interrupt
  PROVE  job'.at \notin {"start", "find", "reserve", "create", "record",
                         "resolve"}
<1> DEFINE Busy == {"start", "find", "reserve", "create", "record", "resolve"}
           Quiet == job'.at \notin Busy
<1> SUFFICES Quiet
  OBVIOUS
<1>1. job \in Job
  BY DEF TypeInv, TypeOK
<1>2. ASSUME NEW stage \in Stages \ Busy, Goto(stage)
      PROVE  Quiet
  BY <1>1, <1>2, GotoType
<1>3. CASE ClaimSome
  <2>1. PICK r \in DOMAIN inbox : Claim(r)
    BY <1>3 DEF ClaimSome
  <2>2. job'.at \in {"settle", "complete", "publish", "reconcile"}
    BY <2>1 DEF Claim, NoJob
  <2> QED
    BY <2>2
<1>4. CASE Complete \/ Interrupt
  BY <1>4 DEF Complete, Interrupt, Abort, NoJob
<1>5. CASE PassStoreFails
  <2>1. job'.at = "finish"
    BY <1>5, NoJobType DEF PassStoreFails, Job
  <2> QED
    BY <2>1
<1>6. CASE StalePage \/ PassStops \/ StartPublication \/ StartPublicationLedger
           \/ RecordResult \/ RecordReconciliation
  BY <1>2, <1>6 DEF StalePage, PassStops, StartPublication,
                    StartPublicationLedger, RecordResult, RecordReconciliation,
                    Stages
<1>7. CASE Finish
  <2>1. job'.at = "receipt"
    BY <1>1, <1>7 DEF Finish, Job
  <2> QED
    BY <2>1
<1>8. CASE RecordReceipt \/ FinishCancelled
  <2>1. Abort \/ Goto("complete") \/ Goto("settle")
    BY <1>8 DEF RecordReceipt, FinishCancelled
  <2> QED
    BY <1>2, <2>1 DEF Abort, NoJob, Stages
<1>9. CASE SettlePublication
  <2>1. job'.at = "finish" \/ Goto("complete")
    BY <1>1, <1>9 DEF SettlePublication, Job
  <2> QED
    BY <1>2, <2>1 DEF Stages
<1>10. CASE Reconcile
  <2>1. job'.at \in {"lookup", "complete"}
    BY <1>1, <1>10 DEF Reconcile, Job
  <2> QED
    BY <2>1
<1> HIDE DEF Quiet
<1> QED
  BY <1>3, <1>4, <1>5, <1>6, <1>7, <1>8, <1>9, <1>10

\* The two steps that choose what is next, and whether to start at all.
LEMMA ChoiceStages ==
  ASSUME TypeInv, Publish \/ NextOperation
  PROVE  /\ job'.at \in {"complete", "finish", "settle", "plan", "start", "find"}
         /\ job'.at = "find" => session # "cancelled"
         /\ job'.at = "start" => session # "cancelled" /\ job'.saw = session
<1>1. job \in Job
  BY DEF TypeInv, TypeOK
<1>2. CASE Publish
  <2>1. job'.at = PublishStage /\ job'.saw = session
    BY <1>1, <1>2 DEF Publish, Job
  <2>2. PublishStage \in {"complete", "finish", "settle", "plan", "start"}
        /\ (PublishStage = "start" => session # "cancelled")
    BY DEF PublishStage
  <2> QED
    BY <2>1, <2>2
<1>3. CASE NextOperation
  <2>1. CASE Goto("finish")
    <3>1. job'.at = "finish"
      BY <1>1, <2>1, GotoType DEF Stages
    <3> QED
      BY <3>1
  <2>2. CASE session # "cancelled" /\ job'.at = "find"
    BY <2>2
  <2>3. \/ Goto("finish")
        \/ session # "cancelled" /\ job'.at = "find"
    BY <1>1, <1>3 DEF NextOperation, Job
  <2> QED
    BY <2>1, <2>2, <2>3
<1> QED
  BY <1>2, <1>3

\* The dispatcher and the steps before and after the pass.
LEMMA QuietOnce ==
  ASSUME TypeInv, OnceInv,
         ClaimSome \/ Complete \/ StalePage \/ Publish \/ StartPublication
         \/ NextOperation \/ PassStops \/ PassStoreFails \/ Finish
         \/ RecordReceipt \/ FinishCancelled \/ SettlePublication \/ Reconcile
  PROVE  OnceInv'
<1>1. UNCHANGED <<plan, ledger, misjudged, items, late>>
  BY DEF ClaimSome, Claim, Complete, StalePage, Publish, StartPublication,
         NextOperation, PassStops, PassStoreFails, Finish, RecordReceipt,
         FinishCancelled, SettlePublication, Reconcile, store, tracker
<1>2. job'.at \notin {"reserve", "create", "record", "resolve"}
  <2>1. CASE Publish \/ NextOperation
    BY <2>1, ChoiceStages
  <2>2. CASE ~(Publish \/ NextOperation)
    BY <2>2, QuietStages
  <2> QED
    BY <2>1, <2>2
<1> QED
  BY <1>1, <1>2, NothingMade, QuietJob DEF OnceInv

\* The fresh lookup of a reconciliation only prepares a decision.
LEMMA LookupOnce ==
  ASSUME TypeInv, OnceInv, LookupCandidates
  PROVE  OnceInv'
<1>1. UNCHANGED <<plan, ledger, misjudged, items, late>> /\ job \in Job
  BY DEF LookupCandidates, store, tracker, TypeInv, TypeOK
<1>2. Counted'
  BY <1>1, NothingMade DEF OnceInv
<1>3. CASE Goto("complete")
  <2>1. job'.at = "complete"
    BY <1>1, <1>3, GotoType DEF Stages
  <2> QED
    BY <1>2, <2>1, QuietJob DEF OnceInv
<1>4. ASSUME NEW state \in {"failed", "succeeded"}, NEW ext,
             job' = [job EXCEPT !.at = "resolve", !.result = NewRow(state, ext)]
      PROVE  OnceInv'
  <2>1. job'.at = "resolve" /\ job'.result.state = state
    <3>1. NewRow(state, ext).state = state
      BY DEF NewRow
    <3> HIDE DEF NewRow
    <3> QED
      BY <1>1, <1>4, <3>1 DEF Job
  <2>2. CreateIsFirst' /\ ResolveDecides'
    BY <1>4, <2>1 DEF CreateIsFirst, ResolveDecides, At
  <2> QED
    BY <1>2, <2>2 DEF OnceInv
<1> QED
  BY <1>3, <1>4 DEF LookupCandidates

\* Before the ledger is planned nothing was made, so fresh rows forget nothing.
LEMMA PlanOnce ==
  ASSUME TypeInv, OnceInv, StartPublicationLedger
  PROVE  OnceInv'
<1>1. job'.at \notin {"reserve", "create", "record", "resolve"}
  BY QuietStages
<1>2. UNCHANGED <<plan, misjudged, items, late>> /\ Steps' = Steps
  BY DEF StartPublicationLedger, tracker, Steps
<1>3. CASE Planned
  BY <1>1, <1>2, <1>3, NothingMade, QuietJob
  DEF OnceInv, StartPublicationLedger
<1>4. CASE ~Planned
  <2>1. \A k : Made(k)' = Made(k)
    BY <1>2 DEF Made
  <2>2. \A k \in Steps \ misjudged : ~(Made(k) > 0)
    BY <1>4 DEF OnceInv, Counted, NothingForgotten
  <2>3. Counted'
    BY <1>2, <2>1, <2>2
    DEF OnceInv, Counted, CreatedOnce, NothingForgotten, LinksAreNoItems,
        IsItem
  <2> QED
    BY <1>1, <2>3, QuietJob DEF OnceInv
<1> QED
  BY <1>3, <1>4

\* The reservation says that something may exist before anything can.
LEMMA ReserveOnce ==
  ASSUME TypeInv, OnceInv, Reserve
  PROVE  OnceInv'
<1>1. PICK op \in Steps : op = job.op /\ Planned /\ ledger[op] \in Row
                          /\ job.at = "reserve"
  <2>1. job.op \in Steps /\ Planned /\ job.at = "reserve"
    BY DEF TypeInv, JobKnows, PassStages, At, Reserve
  <2> QED
    BY <2>1, LedgerRows DEF TypeInv, TypeOK
<1>2. UNCHANGED <<plan, items, late, misjudged>> /\ job \in Job
  BY DEF Reserve, tracker, TypeInv, TypeOK
<1> DEFINE row == NewRow("attempted", ledger[op].ext)
<1>3. row \in Row /\ row.state = "attempted" /\ RecordOperation(op, row)
  BY <1>1 DEF NewRow, Row, OperationStates, Reserve
<1>4. Counted'
  <2> HIDE DEF row
  <2> QED
    BY <1>1, <1>2, <1>3, RowCounts DEF OnceInv
<1>5. job'.at = "create" /\ job'.op = op
  BY <1>1, <1>2 DEF Reserve, Job
<1>6. op \notin misjudged /\ IsItem(op) => Made(op) = 0
  BY <1>1 DEF OnceInv, CreateIsFirst, At
<1>7. Made(op)' = Made(op) /\ (IsItem(op)' <=> IsItem(op))
  BY <1>2 DEF Made, IsItem
<1>8. CreateIsFirst' /\ ResolveDecides'
  BY <1>2, <1>5, <1>6, <1>7 DEF CreateIsFirst, ResolveDecides, At
<1> QED
  BY <1>4, <1>8 DEF OnceInv

\* The create itself: it was the first, and its result says what may exist.
LEMMA CreateOnce ==
  ASSUME TypeInv, OnceInv, CreateSucceeds \/ CreateUnknown
  PROVE  OnceInv'
<1>1. /\ UNCHANGED <<plan, ledger, misjudged>> /\ At("create")
      /\ ApplyCreate \/ DelayCreate \/ UNCHANGED tracker
  BY DEF CreateSucceeds, CreateUnknown, store
<1>2. Counted'
  BY <1>1, CreateCounts
<1>3. PICK state, ext : /\ state \in {"ambiguous", "succeeded"}
                        /\ Record(state, ext)
  BY DEF CreateSucceeds, CreateUnknown
<1>4. job'.at = "record" /\ job'.result.state = state
  <2>1. job' = [job EXCEPT !.at = "record", !.result = NewRow(state, ext)]
    BY <1>3 DEF Record
  <2>2. NewRow(state, ext).state = state /\ job \in Job
    BY DEF NewRow, TypeInv, TypeOK
  <2> HIDE DEF NewRow
  <2> QED
    BY <2>1, <2>2 DEF Job
<1>5. CreateIsFirst' /\ ResolveDecides'
  BY <1>3, <1>4 DEF CreateIsFirst, ResolveDecides, At
<1> QED
  BY <1>2, <1>5 DEF OnceInv

\* The recorded result forgets nothing.
LEMMA RecordResultOnce ==
  ASSUME TypeInv, OnceInv, RecordResult
  PROVE  OnceInv'
<1>1. Planned /\ job.op \in Steps /\ job.at = "record" /\ job.result \in Row
  BY DEF TypeInv, TypeOK, JobKnows, PassStages, RecordResult, At, Job
<1>2. UNCHANGED <<plan, items, late, misjudged>>
      /\ RecordOperation(job.op, job.result)
  BY DEF RecordResult, tracker
<1>3. job.op \notin misjudged /\ Made(job.op) > 0 =>
        job.result.state \in {"attempted", "ambiguous", "succeeded"}
  BY <1>1 DEF OnceInv, CreateIsFirst, At
<1>4. Counted'
  BY <1>1, <1>2, <1>3, RowCounts DEF OnceInv
<1> QED
  BY <1>4, QuietStages, QuietJob DEF OnceInv

\* A person may be wrong about an absence; then the operation is misjudged.
LEMMA RecordReconciliationOnce ==
  ASSUME TypeInv, OnceInv, RecordReconciliation
  PROVE  OnceInv'
<1>1. PICK op \in Steps : op = job.op /\ Planned
                          /\ job.at = "resolve" /\ job.result \in Row
  BY DEF TypeInv, TypeOK, JobKnows, RecordReconciliation, At, Job
<1>2. UNCHANGED <<plan, items, late>> /\ misjudged \subseteq misjudged'
      /\ RecordOperation(op, job.result)
  BY <1>1 DEF RecordReconciliation, tracker
<1>3. op \notin misjudged' /\ Made(op) > 0 => job.result.state = "succeeded"
  <2> SUFFICES ASSUME op \notin misjudged', Made(op) > 0,
                      job.result.state = "failed"
               PROVE  FALSE
    BY <1>1 DEF OnceInv, ResolveDecides, At
  <2>1. items[op] > 0 \/ op \in late
    BY DEF Made, TypeInv, TypeOK
  <2> QED
    BY <1>1, <2>1 DEF RecordReconciliation
<1>4. Counted'
  <2> DEFINE row == job.result
  <2>1. row \in Row /\ RecordOperation(op, row)
        /\ (op \notin misjudged' /\ Made(op) > 0 =>
              row.state \in {"attempted", "ambiguous", "succeeded"})
    BY <1>1, <1>2, <1>3
  <2> HIDE DEF row
  <2> QED
    BY <1>1, <1>2, <2>1, RowCounts DEF OnceInv
<1> QED
  BY <1>4, QuietStages, QuietJob DEF OnceInv

\* A stop loses what the command knew, but not the reserved row.
LEMMA InterruptOnce ==
  ASSUME TypeInv, OnceInv, Interrupt
  PROVE  OnceInv'
<1>1. job'.at \notin {"reserve", "create", "record", "resolve"}
  BY QuietStages
<1>2. UNCHANGED <<plan, ledger, misjudged>>
  BY DEF Interrupt, store
<1>3. Counted'
  <2>1. CASE UNCHANGED tracker
    BY <1>2, <2>1, NothingMade DEF OnceInv, tracker
  <2>2. CASE At("create") /\ (ApplyCreate \/ DelayCreate)
    BY <1>2, <2>2, CreateCounts
  <2> QED
    BY <2>1, <2>2 DEF Interrupt
<1> QED
  BY <1>1, <1>3, QuietJob DEF OnceInv

-----------------------------------------------------------------------------
(* The theorems *)

\* Every action keeps the count.
LEMMA OnceStep == TypeInv /\ OnceInv /\ [Next]_vars => OnceInv'
<1> SUFFICES ASSUME TypeInv, OnceInv, [Next]_vars PROVE OnceInv'
  OBVIOUS
<1>1. CASE UNCHANGED vars
  <2>1. Counted'
    BY <1>1, NothingMade DEF vars, store, tracker, OnceInv
  <2>2. CreateIsFirst' /\ ResolveDecides'
    BY <1>1 DEF vars, store, tracker, OnceInv, CreateIsFirst, ResolveDecides,
                At, IsItem, Made
  <2> QED
    BY <2>1, <2>2 DEF OnceInv
<1>2. CASE SubmitPublish \/ SubmitReconcile \/ Cancel \/ Deliver \/ Drift
  BY <1>2, BesideOnce
<1>3. CASE ClaimSome \/ PassStoreFails
  BY <1>3, QuietOnce
<1>4. CASE Interrupt
  BY <1>4, InterruptOnce
<1>5. CASE JobStep
  BY <1>5, QuietOnce, FindOnce, LookupOnce, PlanOnce, ReserveOnce, CreateOnce,
     RecordResultOnce, RecordReconciliationOnce
  DEF JobStep
<1> QED
  BY <1>1, <1>2, <1>3, <1>4, <1>5 DEF Next

\* The count holds in every behaviour.
THEOREM OnceHolds == Spec => []OnceInv
<1>1. Init => OnceInv
  BY InitOnce
<1>2. TypeInv /\ OnceInv /\ [Next]_vars => OnceInv'
  BY OnceStep
<1> QED
  BY <1>1, <1>2, TypesHold, PTL DEF Spec

\* No item is created twice, whatever is lost, late, interrupted or missed by
\* a lookup, unless a person confirmed an absence that was none: createItem
\* stops on every unknown outcome.
THEOREM ItemsCreatedOnce == Spec => []CreatedOnce
<1>1. OnceInv => CreatedOnce
  BY DEF OnceInv, Counted
<1> QED
  BY <1>1, OnceHolds, PTL

\* No created item is forgotten: the reservation recorded before the write
\* keeps saying that the item may exist until it is adopted.
THEOREM ItemsNotForgotten == Spec => []NothingForgotten
<1>1. OnceInv => NothingForgotten
  BY DEF OnceInv, Counted
<1> QED
  BY <1>1, OnceHolds, PTL

-----------------------------------------------------------------------------
(* A cancel stops the writes *)

\* Only the operation that had passed its check may still be reserved, and
\* nothing moves a cancelled session.
CancelInv ==
  /\ \/ writesAfterCancel = 0
     \/ /\ writesAfterCancel = 1 /\ session = "cancelled"
        /\ job.at \notin {"find", "reserve"}
  /\ At("start") => job.saw # "cancelled"

\* A write of the session starts from a state that is not cancelled.
LEMMA CancelStep == TypeInv /\ CancelInv /\ [Next]_vars => CancelInv'
<1> SUFFICES ASSUME TypeInv, CancelInv, [Next]_vars PROVE CancelInv'
  OBVIOUS
<1>1. CASE UNCHANGED vars \/ SubmitPublish \/ SubmitReconcile \/ Deliver \/ Drift
  BY <1>1 DEF CancelInv, At, vars, store, tracker, SubmitPublish,
              SubmitReconcile, Submit, Deliver, Drift
<1>2. CASE Cancel
  BY <1>2 DEF CancelInv, At, Cancel
<1>3. CASE StartPublication \/ RecordReceipt
  <2>1. job'.at \notin {"start", "find", "reserve"}
    BY <1>3, QuietStages
  <2>2. session' = session \/ (session # "cancelled")
    BY <1>3 DEF CancelInv, StartPublication, RecordReceipt, Unmoved
  <2>3. writesAfterCancel' = writesAfterCancel
    BY <1>3 DEF StartPublication, RecordReceipt
  <2> QED
    BY <2>1, <2>2, <2>3 DEF CancelInv, At
<1>4. CASE ClaimSome \/ Complete \/ StalePage \/ PassStops
           \/ StartPublicationLedger \/ RecordResult \/ PassStoreFails
           \/ Finish \/ FinishCancelled \/ SettlePublication \/ Reconcile
           \/ RecordReconciliation \/ Interrupt
  <2>1. job'.at \notin {"start", "find", "reserve"}
    BY <1>4, QuietStages
  <2>2. UNCHANGED <<session, writesAfterCancel>>
    BY <1>4 DEF ClaimSome, Claim, Complete, StalePage, PassStops,
         StartPublicationLedger, RecordResult, PassStoreFails, Finish,
         FinishCancelled, SettlePublication, Reconcile, RecordReconciliation,
         Interrupt, store
  <2> QED
    BY <2>1, <2>2 DEF CancelInv, At
<1>5. CASE Publish \/ NextOperation
  <2>1. UNCHANGED <<session, writesAfterCancel>>
    BY <1>5 DEF Publish, NextOperation, store
  <2> QED
    BY <1>5, <2>1, ChoiceStages DEF CancelInv, At
<1>6. CASE FindPlanItems \/ FindPlanRelationship
  <2>1. UNCHANGED <<session, writesAfterCancel>> /\ job.at = "find"
    BY <1>6 DEF FindPlanItems, FindPlanRelationship, store, At
  <2>2. job'.at # "start"
    <3>1. job \in Job
      BY DEF TypeInv, TypeOK
    <3>2. \/ \E state, ext : Record(state, ext)
          \/ Goto("finish") \/ job' = [job EXCEPT !.at = "reserve"]
      BY <1>6 DEF FindPlanItems, FindPlanRelationship
    <3>3. CASE Goto("finish")
      BY <3>1, <3>3, GotoType DEF Stages
    <3>4. CASE \E state, ext : Record(state, ext)
      BY <3>1, <3>4 DEF Record, Job
    <3>5. CASE job' = [job EXCEPT !.at = "reserve"]
      BY <3>1, <3>5 DEF Job
    <3> QED
      BY <3>2, <3>3, <3>4, <3>5
  <2> QED
    BY <2>1, <2>2 DEF CancelInv, At
<1>7. CASE Reserve
  <2>1. job'.at = "create" /\ job.at = "reserve" /\ session' = session
    BY <1>7 DEF Reserve, At, TypeInv, TypeOK, Job
  <2>2. writesAfterCancel' = 0
        \/ (writesAfterCancel' = 1 /\ session = "cancelled")
    BY <1>7, <2>1 DEF Reserve, CancelInv
  <2> QED
    BY <2>1, <2>2 DEF CancelInv, At
<1>8. CASE CreateSucceeds \/ CreateNotApplied \/ CreateUnknown
  <2>1. UNCHANGED <<session, writesAfterCancel>>
    BY <1>8 DEF CreateSucceeds, CreateNotApplied, CreateUnknown, store
  <2>2. job'.at = "record"
    <3>1. PICK state, ext : Record(state, ext)
      BY <1>8 DEF CreateSucceeds, CreateNotApplied, CreateUnknown
    <3> QED
      BY <3>1 DEF Record, TypeInv, TypeOK, Job
  <2> QED
    BY <2>1, <2>2 DEF CancelInv, At
<1>9. CASE LookupCandidates
  <2>1. UNCHANGED <<session, writesAfterCancel>> /\ job \in Job
    BY <1>9 DEF LookupCandidates, store, TypeInv, TypeOK
  <2>2. job'.at \in {"resolve", "complete"}
    <3>1. Goto("complete") \/ job'.at = "resolve"
      BY <1>9, <2>1 DEF LookupCandidates, Job
    <3> QED
      BY <2>1, <3>1, GotoType DEF Stages
  <2> QED
    BY <2>1, <2>2 DEF CancelInv, At
<1> QED
  BY <1>1, <1>2, <1>3, <1>4, <1>5, <1>6, <1>7, <1>8, <1>9 DEF Next, JobStep

\* After a cancel at most the operation that had already passed its check
\* (execute reads the session before each operation) is still reserved.
THEOREM CancelStops == Spec => []CancelStopsWrites
<1>1. Init => CancelInv
  BY DEF Init, CancelInv, NoJob, At
<1>2. TypeInv /\ CancelInv /\ [Next]_vars => CancelInv'
  BY CancelStep
<1>3. CancelInv => CancelStopsWrites
  BY DEF CancelInv, CancelStopsWrites
<1> QED
  BY <1>1, <1>2, <1>3, TypesHold, PTL DEF Spec

-----------------------------------------------------------------------------
(* What is recorded is in the tracker, and everything is done in order *)

\* What a row that succeeded says: the identity of its item, or that the
\* relationship exists.
InTracker(i, ext) ==
  IF IsItem(i) THEN ext \in 1..items[i] ELSE LinkOf(i) \in links

Done(i) == Planned /\ ledger[i].state = "succeeded"
EarlierDone(i) == \A k \in Steps : k < i => Done(k)

RowsTrue == \A i \in Steps : Done(i) => InTracker(i, ledger[i].ext)

Joinable(i) == FromRef(i) # 0 /\ ToRef(i) # 0
LinksJoin == \A l \in links : l[1] \in Steps /\ l = LinkOf(l[1]) /\ Joinable(l[1])

MadeInOrder == \A i \in Steps : Made(i) > 0 => EarlierDone(i)

\* What the running command knows of the operation it is about.
JobInOrder ==
  /\ job.at \in {"find", "reserve", "create", "record"} => EarlierDone(job.op)
  /\ job.at \in {"reserve", "create"} /\ ~IsItem(job.op) => Joinable(job.op)
  /\ job.at \in {"record", "resolve"} /\ job.result.state = "succeeded" =>
       InTracker(job.op, job.result.ext)

\* Only items are reconciled: a relationship is looked up by what it joins.
ItemsReconciled ==
  /\ \A r \in DOMAIN inbox : inbox[r].kind = "reconcile" => IsItem(inbox[r].about)
  /\ job.at \in {"lookup", "resolve"} => IsItem(job.op)

PublishedRows ==
  session = "published" =>
    /\ \A i \in Steps : Done(i)
    /\ \E r \in receipts : r.outcome = "published" /\ r.lists = Steps

OrderInv == /\ RowsTrue /\ LinksJoin /\ MadeInOrder
            /\ JobInOrder /\ ItemsReconciled /\ PublishedRows

\* Nothing that was recorded or made is taken back: a row that succeeded and
\* the identity in it are final (store.go SettledChange), and the tracker only
\* grows.
Grows ==
  /\ plan' = plan
  /\ links \subseteq links'
  /\ \A i \in Steps : items[i] <= items'[i]
  /\ Planned => Planned'
  /\ \A i \in Steps : Done(i) =>
       /\ Done(i)'
       /\ ledger[i].ext # 0 => ledger'[i].ext = ledger[i].ext

\* A written row does not take back another one, nor what it said itself.
LEMMA RowGrows ==
  ASSUME TypeInv, Planned, NEW i \in Steps, NEW row \in Row,
         RecordOperation(i, row), UNCHANGED <<plan, links, items>>
  PROVE  Grows
<1>1. /\ ledger' # NoLedger /\ ledger'[i] = row
      /\ \A k \in Steps : k # i => ledger'[k] = ledger[k]
  BY RowUpdate
<1>2. ~SettledChange(i, row)
  BY DEF RecordOperation
<1>3. \A k \in Steps : items[k] \in Nat
  BY DEF TypeInv, TypeOK
<1>4. \A k \in Steps : Done(k) =>
        Done(k)' /\ (ledger[k].ext # 0 => ledger'[k].ext = ledger[k].ext)
  BY <1>1, <1>2 DEF SettledChange, Done, Planned
<1> QED
  BY <1>1, <1>3, <1>4 DEF Grows, Planned

\* A step that leaves the ledger alone, and the tracker or a create of it.
LEMMA TrackerGrows ==
  ASSUME TypeInv, UNCHANGED <<plan, ledger>>,
         \/ UNCHANGED tracker \/ Deliver
         \/ job.op \in Steps /\ (ApplyCreate \/ DelayCreate)
  PROVE  Grows
<1>1. items \in [Steps -> Nat] /\ late \subseteq Steps
  BY DEF TypeInv, TypeOK
<1>2. links \subseteq links' /\ \A i \in Steps : items[i] <= items'[i]
  <2>1. CASE UNCHANGED tracker \/ DelayCreate
    BY <1>1, <2>1 DEF tracker, DelayCreate
  <2>2. CASE Deliver
    <3>1. PICK i \in late : items' = [items EXCEPT ![i] = @ + 1]
      BY <2>2 DEF Deliver
    <3> QED
      BY <1>1, <2>2, <3>1 DEF Deliver
  <2>3. CASE job.op \in Steps /\ ApplyCreate
    <3>1. \/ items' = [items EXCEPT ![job.op] = @ + 1] /\ links' = links
          \/ items' = items /\ links \subseteq links'
      BY <2>3 DEF ApplyCreate
    <3> QED
      BY <1>1, <2>3, <3>1
  <2> QED
    BY <2>1, <2>2, <2>3
<1> QED
  BY <1>2 DEF Grows, Done, Planned

\* Every step only adds.
LEMMA StepGrows == TypeInv /\ [Next]_vars => Grows
<1> SUFFICES ASSUME TypeInv, [Next]_vars PROVE Grows
  OBVIOUS
<1>1. CASE Reserve
  <2>1. Planned /\ job.op \in Steps
    BY <1>1 DEF TypeInv, JobKnows, PassStages, At, Reserve
  <2>2. ledger[job.op] \in Row
    BY <2>1, LedgerRows DEF TypeInv, TypeOK
  <2>3. NewRow("attempted", ledger[job.op].ext) \in Row
    BY <2>2 DEF NewRow, Row, OperationStates
  <2>4. RecordOperation(job.op, NewRow("attempted", ledger[job.op].ext))
        /\ UNCHANGED <<plan, links, items>>
    BY <1>1 DEF Reserve, tracker
  <2> HIDE DEF NewRow
  <2> QED
    BY <2>1, <2>3, <2>4, RowGrows
<1>2. CASE RecordResult \/ RecordReconciliation
  <2>1. Planned /\ job.op \in Steps /\ job.result \in Row
    BY <1>2 DEF TypeInv, TypeOK, JobKnows, PassStages, At, RecordResult,
                RecordReconciliation, Job
  <2> QED
    BY <1>2, <2>1, RowGrows DEF RecordResult, RecordReconciliation, tracker
<1>3. CASE StartPublicationLedger
  <2>1. CASE Planned
    BY <1>3, <2>1, TrackerGrows DEF StartPublicationLedger
  <2>2. CASE ~Planned
    <3>1. \A i \in Steps : items[i] \in Nat
      BY DEF TypeInv, TypeOK
    <3> QED
      BY <1>3, <2>2, <3>1 DEF StartPublicationLedger, tracker, Grows, Done
  <2> QED
    BY <2>1, <2>2
<1>4. CASE CreateSucceeds \/ CreateUnknown \/ Interrupt
  <2>1. UNCHANGED <<plan, ledger>>
    BY <1>4 DEF CreateSucceeds, CreateUnknown, Interrupt, store
  <2>2. UNCHANGED tracker \/ (At("create") /\ (ApplyCreate \/ DelayCreate))
    BY <1>4 DEF CreateSucceeds, CreateUnknown, Interrupt
  <2>3. At("create") => job.op \in Steps
    BY DEF TypeInv, JobKnows, At
  <2> QED
    BY <2>1, <2>2, <2>3, TrackerGrows
<1>5. CASE Deliver
  BY <1>5, TrackerGrows DEF Deliver, store
<1>6. CASE \/ SubmitPublish \/ SubmitReconcile \/ Cancel \/ Drift
           \/ ClaimSome \/ Complete \/ StalePage \/ Publish \/ StartPublication
           \/ NextOperation \/ FindPlanItems \/ FindPlanRelationship
           \/ PassStops \/ PassStoreFails \/ CreateNotApplied \/ Finish
           \/ RecordReceipt \/ FinishCancelled \/ SettlePublication
           \/ Reconcile \/ LookupCandidates \/ UNCHANGED vars
  <2>1. UNCHANGED <<plan, ledger>> /\ UNCHANGED tracker
    BY <1>6 DEF SubmitPublish, SubmitReconcile, Submit, Cancel, Drift,
         ClaimSome, Claim, Complete, StalePage, Publish, StartPublication,
         NextOperation, FindPlanItems, FindPlanRelationship, PassStops,
         PassStoreFails, CreateNotApplied, Finish, RecordReceipt,
         FinishCancelled, SettlePublication, Reconcile, LookupCandidates,
         vars, store, tracker
  <2> QED
    BY <2>1, TrackerGrows
<1> QED
  BY <1>1, <1>2, <1>3, <1>4, <1>5, <1>6 DEF Next, JobStep

-----------------------------------------------------------------------------
(* References: the recorded identity of an item *)

\* A node has one item, so its reference is what the row of that item says.
LEMMA ItemOfNode ==
  ASSUME NEW p \in Plans, NEW l, Succeeded(l) \subseteq DOMAIN p,
         NEW i \in Succeeded(l), p[i].kind = ItemKind
  PROVE  LET made == {k \in Succeeded(l) : p[k].kind = ItemKind /\ p[k].node = p[i].node}
         IN made # {} /\ (CHOOSE k \in made : TRUE) = i
<1> DEFINE made == {k \in Succeeded(l) : p[k].kind = ItemKind /\ p[k].node = p[i].node}
<1>1. \A k \in made : k = i
  BY PlansAssumption DEF IsLedgerPlan
<1>2. i \in made
  OBVIOUS
<1> QED
  BY <1>1, <1>2

\* The ledger has rows for steps only.
LEMMA SucceededSteps ==
  ASSUME TypeInv
  PROVE  Succeeded(ledger) \subseteq Steps
BY SucceededType DEF TypeInv, TypeOK

\* A reference names a recorded item.
LEMMA RefRecorded ==
  ASSUME TypeInv, NEW node, Ref(node) # 0
  PROVE  \E i \in Steps : /\ Done(i) /\ IsItem(i) /\ plan[i].node = node
                          /\ i \in Succeeded(ledger) /\ Ref(node) = ledger[i].ext
<1> DEFINE made == {i \in Succeeded(ledger) : IsItem(i) /\ plan[i].node = node}
<1>1. made # {}
  BY DEF Ref
<1>2. PICK i \in made : i = CHOOSE k \in made : TRUE
  BY <1>1
<1>3. Ref(node) = ledger[i].ext
  BY <1>1, <1>2 DEF Ref
<1>4. i \in Steps /\ i \in Succeeded(ledger) /\ ledger[i].state = "succeeded"
  BY <1>2, SucceededSteps DEF Succeeded
<1>5. Planned
  BY <1>4 DEF Planned, Succeeded, NoLedger
<1> QED
  BY <1>2, <1>3, <1>4, <1>5 DEF Done

\* A row with the identity of an item is what its node refers to.
LEMMA RefOfItem ==
  ASSUME TypeInv, NEW i \in Steps, Done(i), IsItem(i)
  PROVE  Ref(plan[i].node) = ledger[i].ext
<1>1. i \in Succeeded(ledger) /\ Succeeded(ledger) \subseteq DOMAIN plan
  BY LedgerRows, SucceededSteps DEF TypeInv, TypeOK, Done, Succeeded, Steps
<1>2. plan \in Plans
  BY DEF TypeInv, TypeOK
<1> DEFINE made == {k \in Succeeded(ledger) : plan[k].kind = ItemKind /\ plan[k].node = plan[i].node}
<1>3. made # {} /\ (CHOOSE k \in made : TRUE) = i
  BY <1>1, <1>2, ItemOfNode DEF IsItem
<1> QED
  BY <1>3 DEF Ref, IsItem

\* A reference, once there, is the same for ever.
LEMMA RefKept ==
  ASSUME TypeInv, TypeInv', Grows, NEW node, Ref(node) # 0
  PROVE  Ref(node)' = Ref(node)
<1>1. PICK i \in Steps : /\ Done(i) /\ IsItem(i) /\ plan[i].node = node
                         /\ Ref(node) = ledger[i].ext
  BY RefRecorded
<1>2. Done(i)' /\ ledger'[i].ext = ledger[i].ext /\ plan' = plan
  BY <1>1 DEF Grows
<1>3. /\ ledger' \in [Steps -> Row] /\ plan \in Plans
  <2>1. ledger' = NoLedger \/ ledger' \in [Steps -> Row]
    BY <1>2 DEF TypeInv, TypeOK, Steps
  <2> QED
    BY <1>2, <2>1 DEF Done, Planned, TypeInv, TypeOK
<1>4. i \in Succeeded(ledger') /\ Succeeded(ledger') \subseteq DOMAIN plan
  BY <1>2, <1>3 DEF Succeeded, Done, Steps
<1> DEFINE made == {k \in Succeeded(ledger') : plan[k].kind = ItemKind /\ plan[k].node = plan[i].node}
<1>5. made # {} /\ (CHOOSE k \in made : TRUE) = i
  BY <1>1, <1>3, <1>4, ItemOfNode DEF IsItem
<1>6. Ref(node)' = IF made = {} THEN 0 ELSE ledger'[CHOOSE k \in made : TRUE].ext
  BY <1>1, <1>2 DEF Ref, IsItem
<1> QED
  BY <1>1, <1>2, <1>5, <1>6

\* So is what a relationship joins.
LEMMA LinkKept ==
  ASSUME TypeInv, TypeInv', Grows, NEW i \in Steps, Joinable(i)
  PROVE  Joinable(i)' /\ LinkOf(i)' = LinkOf(i)
<1>1. plan' = plan
  BY DEF Grows
<1>2. FromRef(i)' = FromRef(i) /\ ToRef(i)' = ToRef(i)
  <2>1. Ref(plan[i].from)' = Ref(plan[i].from) /\ Ref(plan[i].to)' = Ref(plan[i].to)
    <3>1. \A node : Ref(node) # 0 => Ref(node)' = Ref(node)
      BY RefKept
    <3> QED
      BY <1>1, <3>1 DEF Joinable, FromRef, ToRef
  <2> QED
    BY <1>1, <2>1 DEF FromRef, ToRef
<1> QED
  BY <1>2 DEF Joinable, LinkOf

-----------------------------------------------------------------------------
(* What holds of rows, links and items stays so *)

\* What a row says stays true of a tracker that only grows.
LEMMA InTrackerKept ==
  ASSUME TypeInv, TypeInv', Grows, LinksJoin, NEW i \in Steps, NEW ext,
         InTracker(i, ext)
  PROVE  InTracker(i, ext)'
<1>1. plan' = plan /\ (IsItem(i)' <=> IsItem(i))
  BY DEF Grows, IsItem
<1>2. CASE IsItem(i)
  <2>1. items[i] \in Nat /\ items'[i] \in Nat /\ items[i] <= items'[i]
    BY <1>1 DEF Grows, TypeInv, TypeOK, Steps
  <2>2. ext \in 1..items'[i]
    BY <1>2, <2>1 DEF InTracker
  <2> QED
    BY <1>1, <1>2, <2>2 DEF InTracker
<1>3. CASE ~IsItem(i)
  <2>1. LinkOf(i) \in links /\ LinkOf(i)[1] = i
    BY <1>3 DEF InTracker, LinkOf
  <2>2. Joinable(i)
    BY <2>1 DEF LinksJoin
  <2>3. LinkOf(i)' \in links'
    BY <2>1, <2>2, LinkKept DEF Grows
  <2> QED
    BY <1>1, <1>3, <2>3 DEF InTracker
<1> QED
  BY <1>2, <1>3

\* Work that is done stays done.
LEMMA EarlierKept ==
  ASSUME Grows, NEW i, EarlierDone(i)
  PROVE  EarlierDone(i)'
BY DEF Grows, EarlierDone, Steps

\* A row that newly says succeeded says what is true.
LEMMA RowsKept ==
  ASSUME TypeInv, TypeInv', Grows, RowsTrue, LinksJoin,
         \A i \in Steps : Done(i)' /\ ~Done(i) => InTracker(i, ledger'[i].ext)
  PROVE  RowsTrue'
<1>1. Steps' = Steps /\ plan' = plan
  BY DEF Grows, Steps
<1> SUFFICES ASSUME NEW i \in Steps, Done(i)' PROVE InTracker(i, ledger[i].ext)'
  BY <1>1 DEF RowsTrue
<1>2. CASE ~Done(i)
  <2>1. \A ext : InTracker(i, ext) => InTracker(i, ext)'
    BY InTrackerKept
  <2>2. PICK ext : ext = ledger'[i].ext
    OBVIOUS
  <2>3. InTracker(i, ext)'
    BY <1>2, <2>1, <2>2
  <2> QED
    BY <2>2, <2>3 DEF InTracker, IsItem, LinkOf, FromRef, ToRef
<1>3. CASE Done(i)
  <2>1. InTracker(i, ledger[i].ext)
    BY <1>3 DEF RowsTrue
  <2>2. PICK ext : ext = ledger[i].ext
    OBVIOUS
  <2>3. InTracker(i, ext)'
    BY <2>1, <2>2, InTrackerKept
  <2>4. CASE IsItem(i)
    <3>1. ext # 0
      <4>1. items[i] \in Nat /\ ext \in 1..items[i]
        BY <2>1, <2>2, <2>4 DEF InTracker, TypeInv, TypeOK
      <4> QED
        BY <4>1
    <3>2. ledger'[i].ext = ext
      BY <1>3, <2>2, <3>1 DEF Grows
    <3> QED
      BY <1>1, <2>3, <2>4, <3>2 DEF InTracker, IsItem
  <2>5. CASE ~IsItem(i)
    BY <1>1, <2>3, <2>5 DEF InTracker, IsItem
  <2> QED
    BY <2>4, <2>5
<1> QED
  BY <1>2, <1>3

\* A new relationship joins what the ledger records.
LEMMA LinksKept ==
  ASSUME TypeInv, TypeInv', Grows, LinksJoin,
         \A l \in links' : l \in links \/ \E i \in Steps : l = LinkOf(i) /\ Joinable(i)
  PROVE  LinksJoin'
<1>1. Steps' = Steps
  BY DEF Grows, Steps
<1> SUFFICES ASSUME NEW l \in links'
             PROVE  l[1] \in Steps /\ l = LinkOf(l[1])' /\ Joinable(l[1])'
  BY <1>1 DEF LinksJoin
<1>2. PICK i \in Steps : l = LinkOf(i) /\ Joinable(i)
  BY DEF LinksJoin
<1>3. l[1] = i
  BY <1>2 DEF LinkOf
<1>4. Joinable(i)' /\ LinkOf(i)' = LinkOf(i)
  BY <1>2, LinkKept
<1> QED
  BY <1>2, <1>3, <1>4

\* A new item is made when everything before it is done.
LEMMA MadeKept ==
  ASSUME Grows, MadeInOrder,
         \A i \in Steps : Made(i)' > 0 => Made(i) > 0 \/ EarlierDone(i)
  PROVE  MadeInOrder'
<1>1. Steps' = Steps
  BY DEF Grows, Steps
<1>2. \A i \in Steps : EarlierDone(i) => EarlierDone(i)'
  BY EarlierKept
<1> QED
  BY <1>1, <1>2 DEF MadeInOrder

\* A step that writes no row and makes nothing.
LEMMA FactsKept ==
  ASSUME TypeInv, TypeInv', OrderInv, Grows, UNCHANGED <<plan, ledger>>,
         UNCHANGED tracker \/ Deliver
  PROVE  RowsTrue' /\ LinksJoin' /\ MadeInOrder'
<1>1. RowsTrue'
  BY RowsKept DEF OrderInv, Done, Planned
<1>2. LinksJoin'
  BY LinksKept DEF OrderInv, tracker, Deliver
<1>3. \A i \in Steps : Made(i)' > 0 => Made(i) > 0
  <2>1. CASE UNCHANGED tracker
    BY <2>1 DEF tracker, Made
  <2>2. CASE Deliver
    <3>1. PICK k \in late : items' = [items EXCEPT ![k] = @ + 1] /\ late' = late \ {k}
      BY <2>2 DEF Deliver
    <3>2. items \in [Steps -> Nat]
      BY DEF TypeInv, TypeOK
    <3> TAKE i \in Steps
    <3> HAVE Made(i)' > 0
    <3>3. CASE i \in late
      BY <3>2, <3>3 DEF Made
    <3>4. CASE i \notin late
      BY <3>1, <3>2, <3>4 DEF Made
    <3> QED
      BY <3>3, <3>4
  <2> QED
    BY <2>1, <2>2
<1>4. MadeInOrder'
  BY <1>3, MadeKept DEF OrderInv
<1> QED
  BY <1>1, <1>2, <1>4

\* A create that was reserved in order may reach the tracker.
LEMMA CreateFacts ==
  ASSUME TypeInv, TypeInv', OrderInv, Grows, UNCHANGED <<plan, ledger>>,
         UNCHANGED tracker \/ (At("create") /\ (ApplyCreate \/ DelayCreate))
  PROVE  RowsTrue' /\ LinksJoin' /\ MadeInOrder'
<1>1. CASE UNCHANGED tracker
  BY <1>1, FactsKept
<1>2. CASE At("create") /\ (ApplyCreate \/ DelayCreate)
  <2>1. PICK op \in Steps : op = job.op
    BY <1>2 DEF TypeInv, JobKnows, At
  <2>2. EarlierDone(op) /\ (~IsItem(op) => Joinable(op))
    BY <1>2, <2>1 DEF OrderInv, JobInOrder, At
  <2>3. RowsTrue'
    BY RowsKept DEF OrderInv, Done, Planned
  <2>4. LinksJoin'
    <3>1. links' = links \/ (~IsItem(op) /\ links' = links \cup {LinkOf(op)})
      BY <1>2, <2>1 DEF ApplyCreate, DelayCreate
    <3> QED
      BY <2>2, <3>1, LinksKept DEF OrderInv
  <2>5. \A i \in Steps : Made(i)' > 0 => Made(i) > 0 \/ EarlierDone(i)
    <3>1. items \in [Steps -> Nat]
      BY DEF TypeInv, TypeOK
    <3> TAKE i \in Steps
    <3>2. CASE i = op
      BY <2>2, <3>2
    <3>3. CASE i # op
      <4>1. items'[i] = items[i] /\ (i \in late' <=> i \in late)
        BY <1>2, <2>1, <3>1, <3>3 DEF ApplyCreate, DelayCreate
      <4> QED
        BY <4>1 DEF Made
    <3> QED
      BY <3>2, <3>3
  <2>6. MadeInOrder'
    BY <2>5, MadeKept DEF OrderInv
  <2> QED
    BY <2>3, <2>4, <2>6
<1> QED
  BY <1>1, <1>2

\* A row is written beside a tracker that does not move.
LEMMA RowFacts ==
  ASSUME TypeInv, TypeInv', OrderInv, Grows, Planned, NEW i \in Steps, NEW row \in Row,
         RecordOperation(i, row), UNCHANGED tracker,
         row.state = "succeeded" => InTracker(i, row.ext)
  PROVE  RowsTrue' /\ LinksJoin' /\ MadeInOrder'
<1>1. /\ ledger'[i] = row /\ Planned'
      /\ \A k \in Steps : k # i => ledger'[k] = ledger[k]
  BY RowUpdate DEF Planned
<1>2. RowsTrue'
  <2>1. \A k \in Steps : Done(k)' /\ ~Done(k) => InTracker(k, ledger'[k].ext)
    BY <1>1 DEF Done
  <2> QED
    BY <2>1, RowsKept DEF OrderInv
<1>3. LinksJoin'
  BY LinksKept DEF OrderInv, tracker
<1>4. MadeInOrder'
  BY MadeKept DEF OrderInv, tracker, Made
<1> QED
  BY <1>2, <1>3, <1>4

-----------------------------------------------------------------------------
(* What the command, the inbox and the session say *)

\* Stages in which the command is about no operation.
Idle(stage) ==
  stage \notin {"find", "reserve", "create", "record", "lookup", "resolve"}

LEMMA IdleJob ==
  ASSUME Idle(job'.at)
  PROVE  JobInOrder' /\ (job'.at \in {"lookup", "resolve"} => IsItem(job.op)')
BY DEF Idle, JobInOrder

\* The commands already in the inbox are about the same operations.
LEMMA InboxKept ==
  ASSUME ItemsReconciled, plan' = plan, DOMAIN inbox' = DOMAIN inbox,
         \A r \in DOMAIN inbox : inbox'[r].kind = inbox[r].kind
                                 /\ inbox'[r].about = inbox[r].about,
         job'.at \in {"lookup", "resolve"} => IsItem(job.op)'
  PROVE  ItemsReconciled'
BY DEF ItemsReconciled, IsItem

\* A published session that nobody publishes again stays complete.
LEMMA PublishedKept ==
  ASSUME Grows, PublishedRows, receipts \subseteq receipts',
         session' = "published" => session = "published"
  PROVE  PublishedRows'
<1>1. Steps' = Steps
  BY DEF Grows, Steps
<1> QED
  BY <1>1 DEF PublishedRows, Grows

\* A step beside the command changes nothing of what it knows.
LEMMA JobKept ==
  ASSUME TypeInv, TypeInv', OrderInv, Grows, job' = job
  PROVE  JobInOrder' /\ (job'.at \in {"lookup", "resolve"} => IsItem(job.op)')
<1>1. CASE Idle(job.at)
  BY <1>1, IdleJob
<1>2. CASE ~Idle(job.at)
  <2>1. PICK op \in Steps : op = job.op
    BY <1>2 DEF TypeInv, JobKnows, Idle
  <2>2. PICK ext : ext = job.result.ext
    OBVIOUS
  <2>3. (EarlierDone(op) => EarlierDone(op)') /\ (Joinable(op) => Joinable(op)')
        /\ (InTracker(op, ext) => InTracker(op, ext)')
    BY EarlierKept, LinkKept, InTrackerKept DEF OrderInv
  <2>4. IsItem(op)' <=> IsItem(op)
    BY DEF Grows, IsItem
  <2>5. /\ EarlierDone(job.op)' <=> EarlierDone(op)'
        /\ Joinable(job.op)' <=> Joinable(op)'
        /\ InTracker(job.op, job.result.ext)' <=> InTracker(op, ext)'
        /\ IsItem(job.op)' <=> IsItem(op)'
    BY <2>1, <2>2 DEF EarlierDone, Joinable, FromRef, ToRef, InTracker, IsItem, LinkOf
  <2> QED
    BY <2>1, <2>2, <2>3, <2>4, <2>5 DEF OrderInv, JobInOrder, ItemsReconciled
<1> QED
  BY <1>1, <1>2

-----------------------------------------------------------------------------
(* Every step keeps the order *)

\* People, the cancel, the configuration and a late create.
LEMMA BesideOrder ==
  ASSUME TypeInv, TypeInv', OrderInv, Grows,
         SubmitPublish \/ SubmitReconcile \/ Cancel \/ Drift \/ Deliver \/ UNCHANGED vars
  PROVE  OrderInv'
<1>1. /\ UNCHANGED <<plan, ledger, job, receipts>>
      /\ UNCHANGED tracker \/ Deliver
      /\ session' = "published" => session = "published"
  BY DEF SubmitPublish, SubmitReconcile, Submit, Cancel, Drift, Deliver, store,
         vars, tracker
<1>2. RowsTrue' /\ LinksJoin' /\ MadeInOrder'
  BY <1>1, FactsKept
<1>3. JobInOrder' /\ (job'.at \in {"lookup", "resolve"} => IsItem(job.op)')
  BY <1>1, JobKept
<1>4. ItemsReconciled'
  <2>1. CASE inbox' = inbox
    BY <1>1, <1>3, <2>1, InboxKept DEF OrderInv
  <2>2. CASE SubmitPublish \/ SubmitReconcile
    <3>1. PICK c : /\ inbox' = Append(inbox, c)
                   /\ c.kind = "reconcile" => IsItem(c.about)
      <4>1. PICK kind, about, ext : /\ Submit(kind, about, ext)
                                    /\ kind = "reconcile" => IsItem(about)
        <5>1. CASE SubmitPublish
          <6>1. Submit("publish", 0, 0) /\ "publish" # "reconcile"
            BY <5>1 DEF SubmitPublish
          <6> QED
            BY <6>1
        <5>2. CASE SubmitReconcile
          <6>1. PICK i \in Steps : /\ IsItem(i)
                                   /\ \E ext \in 0..items[i] : Submit("reconcile", i, ext)
            BY <5>2 DEF SubmitReconcile
          <6>2. PICK ext : Submit("reconcile", i, ext)
            BY <6>1
          <6> QED
            BY <6>1, <6>2
        <5> QED
          BY <2>2, <5>1, <5>2
      <4> DEFINE c == [kind |-> kind, about |-> about, ext |-> ext,
                       state |-> "accepted", attempts |-> 0]
      <4>2. inbox' = Append(inbox, c) /\ c.kind = kind /\ c.about = about
        BY <4>1 DEF Submit
      <4> HIDE DEF c
      <4> QED
        BY <4>1, <4>2
    <3>2. inbox \in Seq(Command)
      BY DEF TypeInv, TypeOK
    <3>3. \A r \in DOMAIN inbox' : inbox'[r] = c \/ (r \in DOMAIN inbox /\ inbox'[r] = inbox[r])
      BY <3>1, <3>2
    <3> QED
      BY <1>1, <1>3, <3>1, <3>3 DEF OrderInv, ItemsReconciled, IsItem
  <2> QED
    BY <2>1, <2>2 DEF Cancel, Drift, Deliver, store, vars
<1>5. PublishedRows'
  BY <1>1, PublishedKept DEF OrderInv
<1> QED
  BY <1>2, <1>3, <1>4, <1>5 DEF OrderInv

\* A step of the command that writes no row, makes nothing and records no
\* receipt only has to say the truth about the operation it turns to.
LEMMA StageOrder ==
  ASSUME TypeInv, TypeInv', OrderInv, Grows,
         UNCHANGED <<plan, ledger, inbox, receipts, session, tracker>>,
         JobInOrder', job'.at \in {"lookup", "resolve"} => IsItem(job.op)'
  PROVE  OrderInv'
<1>1. RowsTrue' /\ LinksJoin' /\ MadeInOrder'
  BY FactsKept
<1>2. ItemsReconciled'
  BY InboxKept DEF OrderInv
<1>3. PublishedRows'
  BY PublishedKept DEF OrderInv
<1> QED
  BY <1>1, <1>2, <1>3 DEF OrderInv

\* The dispatcher and the steps before and after the pass.
LEMMA IdleOrder ==
  ASSUME TypeInv, TypeInv', OrderInv, Grows,
         ClaimSome \/ Complete \/ StalePage \/ Publish \/ StartPublication
         \/ PassStops \/ PassStoreFails \/ Finish \/ FinishCancelled
         \/ SettlePublication
  PROVE  OrderInv'
<1>1. Idle(job'.at)
  <2>1. CASE Publish
    <3>1. job'.at = PublishStage
      BY <2>1 DEF Publish, TypeInv, TypeOK, Job
    <3> QED
      BY <3>1 DEF PublishStage, Idle
  <2>2. CASE ~Publish
    <3>1. CASE ClaimSome
      BY <3>1 DEF ClaimSome, Claim, Idle, NoJob
    <3>2. CASE Complete
      BY <3>2 DEF Complete, Idle, NoJob
    <3>3. CASE ~ClaimSome /\ ~Complete
      <4>1. job'.at \in {"idle", "settle", "complete", "plan", "finish", "receipt"}
        <5>1. job \in Job
          BY DEF TypeInv, TypeOK
        <5>2. ASSUME NEW stage \in {"settle", "complete", "plan", "finish"}, Goto(stage)
              PROVE  job'.at = stage
          BY <5>1, <5>2, GotoType DEF Stages
        <5>3. CASE StalePage \/ StartPublication \/ PassStops
          BY <5>2, <5>3 DEF StalePage, StartPublication, PassStops
        <5>4. CASE PassStoreFails \/ Finish
          BY <5>1, <5>4, NoJobType DEF PassStoreFails, Finish, Job
        <5>5. CASE FinishCancelled
          BY <5>2, <5>5 DEF FinishCancelled, Abort, NoJob
        <5>6. CASE SettlePublication
          <6>1. Goto("complete") \/ job'.at = "finish"
            BY <5>1, <5>6 DEF SettlePublication, Job
          <6> QED
            BY <5>2, <6>1
        <5> QED
          BY <2>2, <3>3, <5>3, <5>4, <5>5, <5>6
      <4> QED
        BY <4>1 DEF Idle
    <3> QED
      BY <3>1, <3>2, <3>3
  <2> QED
    BY <2>1, <2>2
<1>2. JobInOrder' /\ (job'.at \in {"lookup", "resolve"} => IsItem(job.op)')
  BY <1>1, IdleJob
<1>3. /\ UNCHANGED <<plan, ledger, tracker>>
      /\ receipts \subseteq receipts'
      /\ session' = "published" => session = "published"
  BY DEF ClaimSome, Claim, Complete, StalePage, Publish, StartPublication,
         PassStops, PassStoreFails, Finish, FinishCancelled, SettlePublication, store
<1>4. RowsTrue' /\ LinksJoin' /\ MadeInOrder'
  BY <1>3, FactsKept
<1>5. ItemsReconciled'
  <2>1. CASE inbox' = inbox
    BY <1>2, <1>3, <2>1, InboxKept DEF OrderInv
  <2>2. CASE ClaimSome \/ Complete
    <3>1. inbox \in Seq(Command)
      BY DEF TypeInv, TypeOK
    <3>2. DOMAIN inbox' = DOMAIN inbox
          /\ \A r \in DOMAIN inbox : inbox'[r].kind = inbox[r].kind
                                     /\ inbox'[r].about = inbox[r].about
      <4>1. CASE Complete
        <5>1. inbox' = [inbox EXCEPT ![job.req].state = "completed"]
          BY <4>1 DEF Complete
        <5> QED
          BY <3>1, <5>1 DEF Command
      <4>2. CASE ClaimSome
        <5>1. PICK q, tries : inbox' = [inbox EXCEPT ![q].state = "applying", ![q].attempts = tries]
          <6>1. PICK q \in DOMAIN inbox : Claim(q)
            BY <4>2 DEF ClaimSome
          <6> DEFINE tries == IF inbox[q].attempts + 1 > MaxStarts THEN inbox[q].attempts
                              ELSE inbox[q].attempts + 1
          <6>2. inbox' = [inbox EXCEPT ![q].state = "applying", ![q].attempts = tries]
            BY <3>1, <6>1 DEF Claim, Command
          <6> QED
            BY <6>2
        <5> QED
          BY <3>1, <5>1 DEF Command
      <4> QED
        BY <2>2, <4>1, <4>2
    <3> QED
      BY <1>2, <1>3, <3>2, InboxKept DEF OrderInv
  <2> QED
    BY <2>1, <2>2 DEF StalePage, Publish, StartPublication, PassStops,
       PassStoreFails, Finish, FinishCancelled, SettlePublication, store
<1>6. PublishedRows'
  BY <1>3, PublishedKept DEF OrderInv
<1> QED
  BY <1>2, <1>4, <1>5, <1>6 DEF OrderInv

\* The next operation is the first that is not done.
LEMMA NextOrder ==
  ASSUME TypeInv, TypeInv', OrderInv, Grows, NextOperation
  PROVE  OrderInv'
<1>1. UNCHANGED <<plan, ledger, inbox, receipts, session, tracker>> /\ job \in Job /\ Planned
  BY DEF NextOperation, store, TypeInv, TypeOK, JobKnows, PassStages, At
<1>2. CASE Goto("finish")
  <2>1. Idle(job'.at)
    BY <1>1, <1>2, GotoType DEF Stages, Idle
  <2> QED
    BY <1>1, <2>1, IdleJob, StageOrder
<1>3. ASSUME NEW i \in Steps, NextUp(i), job' = [job EXCEPT !.at = "find", !.op = i]
      PROVE  OrderInv'
  <2>1. job'.at = "find" /\ job'.op = i
    BY <1>1, <1>3 DEF Job
  <2>2. EarlierDone(i)
    <3>1. Steps \subseteq Nat
      BY StepsAreNumbers DEF TypeInv, TypeOK
    <3> QED
      BY <1>1, <1>3, <3>1 DEF EarlierDone, Done, NextUp, Unfinished
  <2>3. EarlierDone(i)'
    BY <2>2, EarlierKept
  <2>4. JobInOrder'
    BY <2>1, <2>3 DEF JobInOrder, EarlierDone, Steps
  <2> QED
    BY <1>1, <2>1, <2>4, StageOrder
<1> QED
  BY <1>2, <1>3 DEF NextOperation

\* A lookup finds what the row may then say, or leaves the operation as it is.
LEMMA FindOrder ==
  ASSUME TypeInv, TypeInv', OrderInv, Grows, FindPlanItems \/ FindPlanRelationship
  PROVE  OrderInv'
<1>1. UNCHANGED <<plan, ledger, inbox, receipts, session, tracker>> /\ job \in Job
  BY DEF FindPlanItems, FindPlanRelationship, store, TypeInv, TypeOK
<1>2. PICK op \in Steps : op = job.op
  BY DEF FindPlanItems, FindPlanRelationship, TypeInv, JobKnows, At
<1>3. EarlierDone(op) /\ EarlierDone(op)'
  BY <1>2, EarlierKept DEF FindPlanItems, FindPlanRelationship, At, OrderInv, JobInOrder
<1>4. ASSUME NEW state, NEW ext, Record(state, ext),
             state = "succeeded" => InTracker(op, ext)
      PROVE  OrderInv'
  <2>1. job'.at = "record" /\ job'.op = op /\ job'.result = NewRow(state, ext)
    BY <1>1, <1>2, <1>4 DEF Record, Job
  <2>2. NewRow(state, ext).state = state /\ NewRow(state, ext).ext = ext
    BY DEF NewRow
  <2>3. InTracker(op, ext) => InTracker(op, ext)'
    BY InTrackerKept DEF OrderInv
  <2>4. EarlierDone(job.op)' /\ (job'.result.state = "succeeded" => InTracker(job.op, job.result.ext)')
    BY <1>3, <1>4, <2>1, <2>2, <2>3
    DEF EarlierDone, InTracker, IsItem, LinkOf, FromRef, ToRef
  <2>5. JobInOrder'
    BY <2>1, <2>4 DEF JobInOrder
  <2> QED
    BY <1>1, <2>1, <2>5, StageOrder
<1>5. ASSUME job' = [job EXCEPT !.at = "reserve"], ~IsItem(op) => Joinable(op)
      PROVE  OrderInv'
  <2>1. job'.at = "reserve" /\ job'.op = op
    BY <1>1, <1>2, <1>5 DEF Job
  <2>2. ~IsItem(op)' => Joinable(op)'
    BY <1>5, LinkKept DEF Grows, IsItem
  <2>3. EarlierDone(job.op)' /\ (~IsItem(job.op)' => Joinable(job.op)')
    BY <1>3, <2>1, <2>2 DEF EarlierDone, Joinable, FromRef, ToRef, IsItem
  <2>4. JobInOrder'
    BY <2>1, <2>3 DEF JobInOrder
  <2> QED
    BY <1>1, <2>1, <2>4, StageOrder
<1>6. CASE FindPlanItems
  <2>1. PICK found \in Found(op) :
          \/ \E ext \in found : Record("succeeded", ext)
          \/ Record("ambiguous", ledger[op].ext)
          \/ job' = [job EXCEPT !.at = "reserve"]
    <3>1. PICK found \in Found(op) :
            CASE Cardinality(found) = 1 ->
                   \E ext \in found : Record("succeeded", ext)
              [] Cardinality(found) > 1 -> Record("ambiguous", ledger[op].ext)
              [] found = {} /\ ledger[op].state \in Unresolved ->
                   Record("ambiguous", ledger[op].ext)
              [] OTHER -> job' = [job EXCEPT !.at = "reserve"]
      BY <1>2, <1>6 DEF FindPlanItems
    <3> QED
      BY <3>1
  <2>2. IsItem(op) /\ found \subseteq 1..items[op]
    BY <1>2, <1>6 DEF FindPlanItems, Found
  <2> QED
    BY <1>4, <1>5, <2>1, <2>2 DEF InTracker
<1>7. CASE FindPlanRelationship
  <2>1. ~IsItem(op)
    BY <1>2, <1>7 DEF FindPlanRelationship
  <2>2. \/ Goto("finish") \/ (LinkOf(op) \in links /\ Record("succeeded", 0))
        \/ (Joinable(op) /\ job' = [job EXCEPT !.at = "reserve"])
    BY <1>2, <1>7 DEF FindPlanRelationship, Joinable
  <2>3. CASE Goto("finish")
    <3>1. Idle(job'.at)
      BY <1>1, <2>3, GotoType DEF Stages, Idle
    <3> QED
      BY <1>1, <3>1, IdleJob, StageOrder
  <2> QED
    BY <1>4, <1>5, <2>1, <2>2, <2>3 DEF InTracker
<1> QED
  BY <1>6, <1>7

\* The reservation writes a row that says nothing yet.
LEMMA ReserveOrder ==
  ASSUME TypeInv, TypeInv', OrderInv, Grows, Reserve
  PROVE  OrderInv'
<1>1. UNCHANGED <<plan, inbox, receipts, session, tracker>> /\ job \in Job
  BY DEF Reserve, TypeInv, TypeOK
<1>2. PICK op \in Steps : op = job.op /\ Planned /\ ledger[op] \in Row
  <2>1. job.op \in Steps /\ Planned
    BY DEF TypeInv, JobKnows, PassStages, At, Reserve
  <2> QED
    BY <2>1, LedgerRows DEF TypeInv, TypeOK
<1> DEFINE row == NewRow("attempted", ledger[op].ext)
<1>3. row \in Row /\ row.state = "attempted" /\ RecordOperation(op, row)
  BY <1>2 DEF NewRow, Row, OperationStates, Reserve
<1>4. RowsTrue' /\ LinksJoin' /\ MadeInOrder'
  <2> HIDE DEF row
  <2> QED
    BY <1>1, <1>2, <1>3, RowFacts
<1>5. job'.at = "create" /\ job'.op = op
  BY <1>1, <1>2 DEF Reserve, Job
<1>6. EarlierDone(op)' /\ (~IsItem(op)' => Joinable(op)')
  <2>1. EarlierDone(op) /\ (~IsItem(op) => Joinable(op))
    BY <1>2 DEF Reserve, At, OrderInv, JobInOrder
  <2> QED
    BY <2>1, EarlierKept, LinkKept DEF Grows, IsItem
<1>7. JobInOrder'
  <2>1. EarlierDone(job.op)' /\ (~IsItem(job.op)' => Joinable(job.op)')
    BY <1>5, <1>6 DEF EarlierDone, Joinable, FromRef, ToRef, IsItem
  <2> QED
    BY <1>5, <2>1 DEF JobInOrder
<1>8. ItemsReconciled'
  BY <1>1, <1>5, InboxKept DEF OrderInv
<1>9. PublishedRows'
  BY <1>1, PublishedKept DEF OrderInv
<1> QED
  BY <1>4, <1>7, <1>8, <1>9 DEF OrderInv

\* A create that answers that it succeeded is in the tracker.
LEMMA CreateOrder ==
  ASSUME TypeInv, TypeInv', OrderInv, Grows,
         CreateSucceeds \/ CreateNotApplied \/ CreateUnknown
  PROVE  OrderInv'
<1>1. UNCHANGED <<plan, ledger, inbox, receipts, session>> /\ job \in Job
  BY DEF CreateSucceeds, CreateNotApplied, CreateUnknown, store, TypeInv, TypeOK
<1>2. PICK op \in Steps : op = job.op
  BY DEF CreateSucceeds, CreateNotApplied, CreateUnknown, TypeInv, JobKnows, At
<1>3. RowsTrue' /\ LinksJoin' /\ MadeInOrder'
  <2>1. UNCHANGED tracker \/ (At("create") /\ (ApplyCreate \/ DelayCreate))
    BY DEF CreateSucceeds, CreateNotApplied, CreateUnknown
  <2> QED
    BY <1>1, <2>1, CreateFacts
<1>4. EarlierDone(op)'
  BY <1>2, EarlierKept
  DEF CreateSucceeds, CreateNotApplied, CreateUnknown, At, OrderInv, JobInOrder
<1>5. PICK state, ext : /\ Record(state, ext)
                        /\ state = "succeeded" => InTracker(op, ext)'
  <2>1. CASE CreateSucceeds
    <3>0. PICK ext : ext = IF IsItem(op) THEN items[op] + 1 ELSE 0
      OBVIOUS
    <3>1. Record("succeeded", ext) /\ ApplyCreate
      BY <1>2, <2>1, <3>0 DEF CreateSucceeds
    <3>2. InTracker(op, ext)'
      <4>1. items \in [Steps -> Nat] /\ (IsItem(op)' <=> IsItem(op))
        BY <1>1 DEF TypeInv, TypeOK, IsItem
      <4>2. CASE IsItem(op)
        <5>1. items' = [items EXCEPT ![op] = @ + 1]
          BY <1>2, <3>1, <4>2 DEF ApplyCreate
        <5>2. items'[op] = items[op] + 1 /\ items[op] \in Nat
          BY <4>1, <5>1
        <5>3. ext \in 1..items'[op]
          BY <3>0, <4>2, <5>2
        <5> QED
          BY <1>1, <4>1, <4>2, <5>3 DEF InTracker, IsItem
      <4>3. CASE ~IsItem(op)
        <5>1. LinkOf(op) \in links' /\ LinkOf(op)' = LinkOf(op)
          BY <1>1, <1>2, <3>1, <4>3
          DEF ApplyCreate, LinkOf, FromRef, ToRef, Ref, Succeeded, IsItem
        <5> QED
          BY <4>1, <4>3, <5>1 DEF InTracker
      <4> QED
        BY <4>2, <4>3
    <3> QED
      BY <3>1, <3>2
  <2>2. CASE CreateNotApplied \/ CreateUnknown
    <3>1. \E state \in {"failed", "ambiguous"} : \E ext : Record(state, ext)
      BY <2>2 DEF CreateNotApplied, CreateUnknown
    <3> QED
      BY <3>1
  <2> QED
    BY <2>1, <2>2
<1>6. job'.at = "record" /\ job'.op = op /\ job'.result = NewRow(state, ext)
  BY <1>1, <1>2, <1>5 DEF Record, Job
<1>7. JobInOrder'
  <2>1. NewRow(state, ext).state = state /\ NewRow(state, ext).ext = ext
    BY DEF NewRow
  <2>2. EarlierDone(job.op)' /\ (job'.result.state = "succeeded" => InTracker(job.op, job.result.ext)')
    BY <1>4, <1>5, <1>6, <2>1
    DEF EarlierDone, InTracker, IsItem, LinkOf, FromRef, ToRef
  <2> QED
    BY <1>6, <2>2 DEF JobInOrder
<1>8. ItemsReconciled'
  BY <1>1, <1>6, InboxKept DEF OrderInv
<1>9. PublishedRows'
  BY <1>1, PublishedKept DEF OrderInv
<1> QED
  BY <1>3, <1>7, <1>8, <1>9 DEF OrderInv

\* What a create or a lookup answered is recorded.
LEMMA RecordOrder ==
  ASSUME TypeInv, TypeInv', OrderInv, Grows, RecordResult \/ RecordReconciliation
  PROVE  OrderInv'
<1>1. UNCHANGED <<plan, inbox, session, tracker>> /\ receipts \subseteq receipts' /\ job \in Job
  BY DEF RecordResult, RecordReconciliation, TypeInv, TypeOK
<1>2. PICK op \in Steps : op = job.op /\ Planned
  BY DEF TypeInv, JobKnows, PassStages, At, RecordResult, RecordReconciliation
<1>3. PICK row \in Row : row = job.result
  BY <1>1 DEF Job
<1>4. RecordOperation(op, row) /\ (row.state = "succeeded" => InTracker(op, row.ext))
  BY <1>2, <1>3 DEF RecordResult, RecordReconciliation, At, OrderInv, JobInOrder
<1>5. RowsTrue' /\ LinksJoin' /\ MadeInOrder'
  BY <1>1, <1>2, <1>4, RowFacts
<1>6. Idle(job'.at)
  BY <1>1, GotoType DEF RecordResult, RecordReconciliation, Stages, Idle
<1>7. JobInOrder' /\ ItemsReconciled'
  BY <1>1, <1>6, IdleJob, InboxKept DEF OrderInv
<1>8. PublishedRows'
  BY <1>1, PublishedKept DEF OrderInv
<1> QED
  BY <1>5, <1>7, <1>8 DEF OrderInv

\* Before the ledger is planned nothing is recorded and nothing is linked.
LEMMA PlanOrdered ==
  ASSUME TypeInv, TypeInv', OrderInv, Grows, StartPublicationLedger
  PROVE  OrderInv'
<1>1. UNCHANGED <<plan, inbox, session, receipts, tracker>> /\ job \in Job
  BY DEF StartPublicationLedger, TypeInv, TypeOK
<1>2. Idle(job'.at)
  BY <1>1, GotoType DEF StartPublicationLedger, Stages, Idle
<1>3. RowsTrue' /\ LinksJoin' /\ MadeInOrder'
  <2>1. CASE Planned
    <3>1. ledger' = ledger
      BY <2>1 DEF StartPublicationLedger
    <3> QED
      BY <1>1, <3>1, FactsKept
  <2>2. CASE ~Planned
    <3>1. \A i \in Steps : ledger'[i].state = "pending"
      BY <2>2 DEF StartPublicationLedger, NewRow
    <3>2. RowsTrue'
      BY <3>1, RowsKept DEF OrderInv, Done
    <3>3. LinksJoin'
      BY <1>1, LinksKept DEF OrderInv, tracker
    <3>4. MadeInOrder'
      BY <1>1, MadeKept DEF OrderInv, tracker, Made
    <3> QED
      BY <3>2, <3>3, <3>4
  <2> QED
    BY <2>1, <2>2
<1>4. JobInOrder' /\ ItemsReconciled'
  BY <1>1, <1>2, IdleJob, InboxKept DEF OrderInv
<1>5. PublishedRows'
  BY <1>1, PublishedKept DEF OrderInv
<1> QED
  BY <1>3, <1>4, <1>5 DEF OrderInv

\* A receipt says published when every row succeeded, and only then.
LEMMA ReceiptOrder ==
  ASSUME TypeInv, TypeInv', OrderInv, Grows, RecordReceipt
  PROVE  OrderInv'
<1>1. UNCHANGED <<plan, ledger, inbox, tracker>> /\ receipts \subseteq receipts' /\ job \in Job
  BY DEF RecordReceipt, TypeInv, TypeOK
<1>2. Idle(job'.at)
  <2>1. Abort \/ Goto("complete") \/ Goto("settle")
    BY DEF RecordReceipt
  <2> QED
    BY <1>1, <2>1, GotoType DEF Abort, NoJob, Stages, Idle
<1>3. RowsTrue' /\ LinksJoin' /\ MadeInOrder' /\ JobInOrder' /\ ItemsReconciled'
  BY <1>1, <1>2, FactsKept, IdleJob, InboxKept DEF OrderInv
<1>4. PublishedRows'
  <2>1. CASE session' = session
    BY <1>1, <2>1, PublishedKept DEF OrderInv
  <2>2. CASE session' # session
    <3>1. /\ session' = SessionAfter(ReceiptFromLedger(job.req))
          /\ ReceiptFromLedger(job.req) \in receipts'
      BY <2>2 DEF RecordReceipt
    <3>2. SUFFICES ASSUME session' = "published" PROVE PublishedRows'
      BY DEF PublishedRows
    <3>3. ReceiptFromLedger(job.req).outcome = "published"
      BY <3>1, <3>2 DEF SessionAfter
    <3>4. Planned /\ Succeeded(ledger) = Steps
      BY <3>3 DEF ReceiptFromLedger
    <3>5. ReceiptFromLedger(job.req).lists = Steps
      BY <3>4 DEF ReceiptFromLedger
    <3>6. \A i \in Steps : Done(i)
      BY <3>4 DEF Done, Succeeded
    <3>7. Steps' = Steps /\ \A i \in Steps : Done(i)'
      BY <1>1, <3>6 DEF Steps, Done, Planned
    <3> QED
      BY <3>1, <3>3, <3>5, <3>7 DEF PublishedRows
  <2> QED
    BY <2>1, <2>2
<1> QED
  BY <1>3, <1>4 DEF OrderInv

\* A reconciliation is about an item, and adopts one that was found.
LEMMA ReconcileOrder ==
  ASSUME TypeInv, TypeInv', OrderInv, Grows, Reconcile \/ LookupCandidates
  PROVE  OrderInv'
<1>1. UNCHANGED <<plan, ledger, inbox, receipts, session, tracker>> /\ job \in Job
  BY DEF Reconcile, LookupCandidates, store, TypeInv, TypeOK
<1>2. CASE Reconcile
  <2>1. job.req \in DOMAIN inbox /\ Running.kind = "reconcile"
    BY <1>2 DEF Reconcile, At, TypeInv, TypeOK, JobKnows
  <2>2. IsItem(Running.about)
    BY <2>1 DEF OrderInv, ItemsReconciled, Running
  <2>3. job'.at \in {"lookup", "complete"} /\ job'.op = Running.about
    BY <1>1, <1>2 DEF Reconcile, Job
  <2>4. JobInOrder' /\ IsItem(job.op)'
    BY <1>1, <2>2, <2>3 DEF JobInOrder, IsItem
  <2> QED
    BY <1>1, <2>4, StageOrder
<1>3. CASE LookupCandidates
  <2>1. PICK op \in Steps : op = job.op /\ IsItem(op)
    BY <1>3 DEF LookupCandidates, At, TypeInv, JobKnows, OrderInv, ItemsReconciled
  <2>2. CASE Goto("complete")
    <3>1. Idle(job'.at)
      BY <1>1, <2>2, GotoType DEF Stages, Idle
    <3> QED
      BY <1>1, <3>1, IdleJob, StageOrder
  <2>3. ASSUME NEW state, NEW ext,
               job' = [job EXCEPT !.at = "resolve", !.result = NewRow(state, ext)],
               state = "succeeded" => InTracker(op, ext)
        PROVE  OrderInv'
    <3>1. job'.at = "resolve" /\ job'.op = op /\ job'.result = NewRow(state, ext)
      BY <1>1, <2>1, <2>3 DEF Job
    <3>2. NewRow(state, ext).state = state /\ NewRow(state, ext).ext = ext
      BY DEF NewRow
    <3>3. InTracker(op, ext) => InTracker(op, ext)'
      BY InTrackerKept DEF OrderInv
    <3>4. job'.result.state = "succeeded" => InTracker(job.op, job.result.ext)'
      BY <2>3, <3>1, <3>2, <3>3 DEF InTracker, IsItem, LinkOf, FromRef, ToRef
    <3>5. IsItem(job.op)'
      BY <1>1, <2>1, <3>1 DEF IsItem
    <3>6. JobInOrder'
      BY <3>1, <3>4 DEF JobInOrder
    <3> QED
      BY <1>1, <3>5, <3>6, StageOrder
  <2>4. PICK found \in Found(op) :
          \/ job' = [job EXCEPT !.at = "resolve", !.result = NewRow("failed", ledger[op].ext)]
          \/ /\ Running.ext \in found
             /\ job' = [job EXCEPT !.at = "resolve", !.result = NewRow("succeeded", Running.ext)]
          \/ Goto("complete")
    <3>1. \E found : found \in Found(op)
      BY DEF Found
    <3> QED
      BY <1>3, <2>1, <3>1 DEF LookupCandidates
  <2>5. Running.ext \in found => InTracker(op, Running.ext)
    BY <2>1 DEF Found, InTracker
  <2>6. CASE job' = [job EXCEPT !.at = "resolve", !.result = NewRow("failed", ledger[op].ext)]
    <3>1. PICK ext : job' = [job EXCEPT !.at = "resolve", !.result = NewRow("failed", ext)]
      BY <2>6
    <3>2. "failed" = "succeeded" => InTracker(op, ext)
      OBVIOUS
    <3> QED
      BY <2>3, <3>1, <3>2
  <2>7. CASE /\ Running.ext \in found
             /\ job' = [job EXCEPT !.at = "resolve", !.result = NewRow("succeeded", Running.ext)]
    BY <2>3, <2>5, <2>7
  <2> QED
    BY <2>2, <2>4, <2>6, <2>7
<1> QED
  BY <1>2, <1>3

\* A stop may leave a create that reaches the tracker.
LEMMA InterruptOrder ==
  ASSUME TypeInv, TypeInv', OrderInv, Grows, Interrupt
  PROVE  OrderInv'
<1>1. UNCHANGED <<plan, ledger, inbox, receipts, session>> /\ Idle(job'.at)
  BY DEF Interrupt, store, Abort, NoJob, Idle
<1>2. RowsTrue' /\ LinksJoin' /\ MadeInOrder'
  BY <1>1, CreateFacts DEF Interrupt
<1>3. JobInOrder' /\ ItemsReconciled'
  BY <1>1, IdleJob, InboxKept DEF OrderInv
<1>4. PublishedRows'
  BY <1>1, PublishedKept DEF OrderInv
<1> QED
  BY <1>2, <1>3, <1>4 DEF OrderInv

-----------------------------------------------------------------------------
(* The theorems *)

LEMMA OrderStep == TypeInv /\ OrderInv /\ [Next]_vars => OrderInv'
<1> SUFFICES ASSUME TypeInv, OrderInv, [Next]_vars PROVE OrderInv'
  OBVIOUS
<1>1. TypeInv' /\ Grows
  BY TypeStep, StepGrows
<1>2. CASE \/ SubmitPublish \/ SubmitReconcile \/ Cancel \/ Deliver \/ Drift
           \/ UNCHANGED vars
  BY <1>1, <1>2, BesideOrder
<1>3. CASE ClaimSome \/ PassStoreFails
  BY <1>1, <1>3, IdleOrder
<1>4. CASE Interrupt
  BY <1>1, <1>4, InterruptOrder
<1>5. CASE JobStep
  BY <1>1, <1>5, IdleOrder, NextOrder, FindOrder, ReserveOrder, CreateOrder,
     RecordOrder, PlanOrdered, ReceiptOrder, ReconcileOrder
  DEF JobStep
<1> QED
  BY <1>2, <1>3, <1>4, <1>5 DEF Next

LEMMA InitOrder == Init => OrderInv
<1> SUFFICES ASSUME Init PROVE OrderInv
  OBVIOUS
<1>1. ~Planned /\ links = {} /\ \A i \in Steps : Made(i) = 0
  BY DEF Init, Planned, Made
<1>2. job.at = "idle" /\ DOMAIN inbox = {} /\ session = "approved"
  BY DEF Init, NoJob
<1>3. RowsTrue /\ LinksJoin /\ MadeInOrder
  BY <1>1 DEF RowsTrue, Done, LinksJoin, MadeInOrder
<1>4. JobInOrder /\ ItemsReconciled /\ PublishedRows
  BY <1>2 DEF JobInOrder, ItemsReconciled, PublishedRows
<1> QED
  BY <1>3, <1>4 DEF OrderInv

THEOREM OrderHolds == Spec => []OrderInv
<1>1. Init => OrderInv
  BY InitOrder
<1>2. TypeInv /\ OrderInv /\ [Next]_vars => OrderInv'
  BY OrderStep
<1> QED
  BY <1>1, <1>2, TypesHold, PTL DEF Spec

\* A published session is published completely, whatever was lost, late,
\* interrupted or adopted: SessionAfter follows the ledger, and the ledger
\* records only what the tracker has.
THEOREM PublishedComplete == Spec => []PublishedIsComplete
<1>1. TypeInv /\ OrderInv => PublishedIsComplete
  <2> SUFFICES ASSUME TypeInv, OrderInv, session = "published" PROVE PublishedIsComplete
    BY DEF PublishedIsComplete
  <2>1. \A i \in Steps : Done(i)
    BY DEF OrderInv, PublishedRows
  <2>2. Planned
    BY <2>1, StepsAreNumbers DEF Done, TypeInv, TypeOK
  <2> QED
    BY <2>1, <2>2 DEF OrderInv, PublishedRows, RowsTrue, InTracker, PublishedIsComplete, Done
<1> QED
  BY <1>1, OrderHolds, TypesHold, PTL

\* What an item needs is created and recorded before it, and a relationship
\* joins two recorded items: the pass always takes the first operation that is
\* not done, and a row that succeeded is never taken back.
THEOREM NeedsFirst == Spec => []NeedsComeFirst
<1>1. TypeInv /\ OrderInv => NeedsComeFirst
  <2> SUFFICES ASSUME TypeInv, OrderInv PROVE NeedsComeFirst
    OBVIOUS
  <2>1. ASSUME NEW j \in Steps, ~IsItem(j), NEW f \in Steps, IsItem(f),
               plan[f].node = plan[j].from, Made(f) > 0
        PROVE  ToRef(j) # 0
    <3>1. plan \in Plans /\ Steps \subseteq Nat
      BY StepsAreNumbers DEF TypeInv, TypeOK
    <3>2. plan[j].kind = LinkKind
      <4>1. plan \in Seq(Operation) /\ j \in DOMAIN plan
        BY <3>1, PlansAssumption DEF IsLedgerPlan, Steps
      <4>2. plan[j] \in Operation
        BY <4>1
      <4> QED
        BY <2>1, <4>2 DEF Operation, IsItem
    <3>3. PICK g, t \in 1..(j - 1) :
            /\ plan[g].kind = ItemKind /\ plan[g].node = plan[j].from
            /\ plan[t].kind = ItemKind /\ plan[t].node = plan[j].to
            /\ t < g
      BY <3>1, <3>2, PlansAssumption DEF IsLedgerPlan, Steps
    <3>4. g \in Steps /\ t \in Steps /\ j \in Nat
      <4>1. Steps = 1..Len(plan) /\ Len(plan) \in Nat
        BY <3>1, PlansAssumption DEF IsLedgerPlan, Steps
      <4> QED
        BY <3>3, <4>1
    <3>5. g = f
      BY <2>1, <3>1, <3>3, <3>4, PlansAssumption DEF IsLedgerPlan, Steps, IsItem
    <3>6. Done(t) /\ IsItem(t)
      BY <2>1, <3>3, <3>4, <3>5 DEF OrderInv, MadeInOrder, EarlierDone, IsItem
    <3>7. ledger[t].ext \in 1..items[t] /\ items[t] \in Nat
      BY <3>4, <3>6 DEF OrderInv, RowsTrue, InTracker, TypeInv, TypeOK
    <3>8. Ref(plan[t].node) = ledger[t].ext
      BY <3>4, <3>6, RefOfItem
    <3> QED
      BY <3>3, <3>7, <3>8 DEF ToRef
  <2>2. \A l \in links : l[2] = FromRef(l[1]) /\ l[2] # 0 /\ l[3] = ToRef(l[1]) /\ l[3] # 0
    BY DEF OrderInv, LinksJoin, LinkOf, Joinable
  <2> QED
    BY <2>1, <2>2 DEF NeedsComeFirst
<1> QED
  BY <1>1, OrderHolds, TypesHold, PTL

=============================================================================
